CONSTANTS
  none = "none"
  here = here
  there = there
  beyond = beyond
  elsewhere = elsewhere
  NoId = "none"
  Messages <- MCMessages
  Content <- MCContent
  Headers <- MCHeaders
  Caches <- MCCaches
  MaxMessages = 2
SPECIFICATION FairSpec
INVARIANTS
  TypeOK
  AnswersInTurn
  ExitCode
  HoverFinds
PROPERTY AllAnswered
