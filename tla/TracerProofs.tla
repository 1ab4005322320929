---------------------------- MODULE TracerProofs ----------------------------
(***************************************************************************)
(* Proofs about the backward tracer, for every set of well-formed          *)
(* programs, every depth limit and every assignment closed under them.     *)
(***************************************************************************)
EXTENDS Tracer, WrapVerbProofs, TLAPS

-----------------------------------------------------------------------------
(* Stacks whose frames yield nothing outside `bound`.                      *)

Within(frame, may, bound) ==
  /\ frame.found \subseteq bound
  /\ frame.alt \subseteq bound
  /\ \A i \in DOMAIN frame.todo : may.val[frame.todo[i]] \subseteq bound

StackOK(s, may, bound) ==
  /\ s \in Seq(Frames)
  /\ Len(s) <= MaxTraceDepth + 2
  /\ \A i \in DOMAIN s : s[i].depth = Len(s) - i
  /\ \A i \in DOMAIN s : Within(s[i], may, bound)

LEMMA HeadOf ==
  ASSUME NEW S, NEW s \in Seq(S), s # <<>>
  PROVE  1 \in DOMAIN s /\ Head(s) = s[1] /\ Head(s) \in S
OBVIOUS

LEMMA EmptyStack ==
  ASSUME NEW may, NEW bound  PROVE StackOK(<<>>, may, bound)
BY LimitAssumption DEF StackOK

LEMMA OneFrame ==
  ASSUME NEW may, NEW bound, NEW F \in Frames, F.depth = 0, Within(F, may, bound)
  PROVE  StackOK(<<F>>, may, bound)
<1> DEFINE t == <<F>>
<1>1. t \in Seq(Frames) /\ Len(t) = 1 /\ DOMAIN t = 1..1 /\ t[1] = F
  OBVIOUS
<1>2. \A i \in DOMAIN t : i = 1 /\ t[i] = F
  BY <1>1
<1> HIDE DEF t
<1>3. \A i \in DOMAIN t : t[i].depth = Len(t) - i /\ Within(t[i], may, bound)
  BY <1>1, <1>2
<1>4. StackOK(t, may, bound)
  BY <1>1, <1>3, LimitAssumption DEF StackOK
<1> QED  BY <1>4 DEF t

LEMMA ReplaceTop ==
  ASSUME NEW s, NEW may, NEW bound, StackOK(s, may, bound), s # <<>>,
         NEW F \in Frames, F.depth = Head(s).depth, Within(F, may, bound)
  PROVE  StackOK(<<F>> \o Tail(s), may, bound)
<1> DEFINE t == <<F>> \o Tail(s)
<1>1. s \in Seq(Frames) /\ Len(s) \in Nat /\ Len(s) >= 1
  BY DEF StackOK
<1>2. t \in Seq(Frames) /\ Len(t) = Len(s)
  BY <1>1
<1>3. DOMAIN t = DOMAIN s /\ t[1] = F /\ \A i \in DOMAIN s : i # 1 => t[i] = s[i]
  BY <1>1, <1>2
<1>4. Head(s) = s[1] /\ 1 \in DOMAIN s
  BY <1>1
<1>5. \A i \in DOMAIN t : t[i].depth = Len(t) - i
  BY <1>2, <1>3, <1>4 DEF StackOK
<1>6. \A i \in DOMAIN t : Within(t[i], may, bound)
  BY <1>3 DEF StackOK
<1> QED  BY <1>2, <1>5, <1>6 DEF StackOK

LEMMA Push ==
  ASSUME NEW s, NEW may, NEW bound, StackOK(s, may, bound), s # <<>>, Head(s).depth <= MaxTraceDepth,
         NEW F \in Frames, F.depth = Head(s).depth + 1, Within(F, may, bound),
         NEW G \in Frames, G.depth = Head(s).depth, Within(G, may, bound)
  PROVE  StackOK(<<F, G>> \o Tail(s), may, bound)
<1> DEFINE t == <<F, G>> \o Tail(s)
<1>1. s \in Seq(Frames) /\ Len(s) \in Nat /\ Len(s) >= 1
  BY DEF StackOK
<1>2. t \in Seq(Frames) /\ Len(t) = Len(s) + 1
  BY <1>1
<1>3. /\ DOMAIN t = 1..(Len(s) + 1) /\ DOMAIN s = 1..Len(s)
      /\ t[1] = F /\ t[2] = G
      /\ \A i \in DOMAIN t : i > 2 => t[i] = s[i-1]
  BY <1>1, <1>2
<1>4. Head(s) = s[1] /\ s[1].depth = Len(s) - 1
  BY <1>1 DEF StackOK
<1>5. Len(t) <= MaxTraceDepth + 2
  BY <1>1, <1>2, <1>4, LimitAssumption
<1>6. \A i \in DOMAIN t : t[i].depth = Len(t) - i
  <2> SUFFICES ASSUME NEW i \in DOMAIN t PROVE t[i].depth = Len(t) - i
    OBVIOUS
  <2>1. CASE i = 1
    BY <2>1, <1>1, <1>2, <1>3, <1>4
  <2>2. CASE i = 2
    BY <2>2, <1>1, <1>2, <1>3, <1>4
  <2>3. CASE i > 2
    <3>1. i - 1 \in DOMAIN s /\ t[i] = s[i-1]
      BY <2>3, <1>1, <1>3
    <3>2. s[i-1].depth = Len(s) - (i-1)
      BY <3>1 DEF StackOK
    <3> QED  BY <3>1, <3>2, <1>1, <1>2, <1>3
  <2> QED  BY <2>1, <2>2, <2>3, <1>1, <1>3
<1>7. \A i \in DOMAIN t : Within(t[i], may, bound)
  <2> SUFFICES ASSUME NEW i \in DOMAIN t PROVE Within(t[i], may, bound)
    OBVIOUS
  <2>1. CASE i > 2
    <3>1. i - 1 \in DOMAIN s /\ t[i] = s[i-1]
      BY <2>1, <1>1, <1>3
    <3> QED  BY <3>1 DEF StackOK
  <2> QED  BY <2>1, <1>1, <1>3
<1> QED  BY <1>2, <1>5, <1>6, <1>7 DEF StackOK

LEMMA Pop ==
  ASSUME NEW s, NEW may, NEW bound, StackOK(s, may, bound), s # <<>>
  PROVE  StackOK(Tail(s), may, bound)
<1> DEFINE t == Tail(s)
<1>1. s \in Seq(Frames) /\ Len(s) \in Nat /\ Len(s) >= 1
  BY DEF StackOK
<1>2. t \in Seq(Frames) /\ Len(t) = Len(s) - 1 /\ DOMAIN t = 1..(Len(s) - 1) /\ DOMAIN s = 1..Len(s)
  BY <1>1
<1>3. \A i \in DOMAIN t : t[i] = s[i+1] /\ i + 1 \in DOMAIN s /\ i \in Nat
  BY <1>1, <1>2
<1>4. \A i \in DOMAIN t : t[i].depth = Len(t) - i
  <2> SUFFICES ASSUME NEW i \in DOMAIN t PROVE t[i].depth = Len(t) - i
    OBVIOUS
  <2>1. s[i+1].depth = Len(s) - (i+1)
    BY <1>3 DEF StackOK
  <2> QED  BY <2>1, <1>1, <1>2, <1>3
<1>5. \A i \in DOMAIN t : Within(t[i], may, bound)
  BY <1>3 DEF StackOK
<1>6. Len(t) <= MaxTraceDepth + 2
  BY <1>1, <1>2, LimitAssumption DEF StackOK
<1> QED  BY <1>2, <1>4, <1>5, <1>6 DEF StackOK

-----------------------------------------------------------------------------
(* What an invoke is taken to call it may call.                            *)

LEMMA SatisfyingImplements ==
  ASSUME NEW pk, NEW i, NEW n \in Names(pk), NEW t \in {Value(n), Pointer(n)},
         NEW s \in Satisfying(pk, t, i)
  PROVE  s.name = t.name /\ s \in TypesOf(Names(pk)) /\ Implements(pk, s, i)
<1>1. t.name = n /\ t \in TypesOf(Names(pk))
  BY DEF Value, Pointer, TypesOf
<1>2. Pointer(n) \in TypesOf(Names(pk)) /\ Pointer(n).name = n
  BY DEF Pointer, TypesOf
<1>3. CASE Implements(pk, t, i)
  <2>1. s = t
    BY <1>3 DEF Satisfying
  <2> QED  BY <1>1, <1>3, <2>1
<1>4. CASE ~Implements(pk, t, i)
  <2>1. s = Pointer(t.name) /\ Implements(pk, Pointer(t.name), i)
    BY <1>4 DEF Satisfying
  <2> QED  BY <1>1, <1>2, <2>1
<1> QED  BY <1>3, <1>4

LEMMA DiscoveredImplements ==
  ASSUME NEW pk, PackageOK(pk), NEW impl \in implsFromAutoDiscovery(pk)
  PROVE  impl[2] \in TypesOf(Names(pk)) /\ Implements(pk, impl[2], impl[1])
<1>1. PICK j \in pk.scope \cap pk.ifaces, c \in collectConcreteCandidates(pk) :
         \E s \in Satisfying(pk, c, j) : impl = <<j, s>>
  BY DEF implsFromAutoDiscovery
<1>2. PICK s \in Satisfying(pk, c, j) : impl = <<j, s>>
  BY <1>1
<1>3. c \in TypesOf(Names(pk))
  BY DEF collectConcreteCandidates, collectRuntimeConcreteTypes, PackageOK, TypesOf
<1>4. PICK n \in Names(pk) : c \in {Value(n), Pointer(n)}
  BY <1>3 DEF TypesOf
<1> QED  BY <1>2, <1>4, SatisfyingImplements

LEMMA LookedUpImplements ==
  ASSUME NEW pk, PackageOK(pk), NEW i, NEW t \in lookupImpls(pk, i)
  PROVE  t \in TypesOf(Names(pk)) /\ Implements(pk, t, i)
<1>1. PICK impl \in buildInterfaceImpls(pk) : t = impl[2] /\ (impl[1] = i \/ pk.val[impl[1]] = pk.val[i])
  BY DEF lookupImpls
<1>2. impl[2] \in TypesOf(Names(pk)) /\ Implements(pk, impl[2], impl[1])
  <2>1. CASE impl \in implsFromAssertions(pk)
    <3>1. PICK d \in pk.decls : d.type \in pk.ifaces /\ impl = <<d.type, d.value>>
      BY <2>1 DEF implsFromAssertions
    <3> QED  BY <3>1 DEF PackageOK
  <2>2. CASE impl \in implsFromAutoDiscovery(pk)
    BY <2>2, DiscoveredImplements
  <2> QED  BY <1>1, <2>1, <2>2 DEF buildInterfaceImpls
<1> QED  BY <1>1, <1>2 DEF Implements

LEMMA ConcretesCalled ==
  ASSUME NEW p, WellFormed(p),
         NEW v \in Values, p.instr[v].op = "Call", p.instr[v].call.kind = "invoke",
         NEW t \in Concretes(p, p.instr[v].call), p.method[t.name] # NoFunc
  PROVE  p.method[t.name] \in Called(p, p.instr[v].call) /\ p.method[t.name] \in Funcs
<1> DEFINE call == p.instr[v].call
           shown == concreteTypesFromInterfaceValue(p, call.recv)
<1>1. /\ PackageOK(p.pk) /\ p.method \in [Names(p.pk) -> Funcs \cup {NoFunc}]
      /\ \A n \in p.pk.ifaces : p.method[n] = NoFunc
      /\ \A u \in shown : u \in TypesOf(Names(p.pk)) /\ ~IsInterface(p.pk, u) /\ Implements(p.pk, u, call.iface)
  BY DEF WellFormed
<1>2. \A u \in TypesOf(Names(p.pk)) : u.name \in Names(p.pk)
  BY DEF TypesOf, Value, Pointer
<1>3. Called(p, call) = {p.method[u.name] : u \in PossibleTypes(p, call)} \ {NoFunc}
  BY DEF Called
<1>4. CASE concreteCandidatesForInvoke(p, call) # {}
  <2>1. t \in concreteCandidatesForInvoke(p, call)
    BY <1>4 DEF Concretes
  <2>2. PICK u \in shown : t \in Satisfying(p.pk, u, call.iface)
    BY <2>1 DEF concreteCandidatesForInvoke
  <2>3. t = u
    BY <1>1, <2>2 DEF Satisfying
  <2>4. t \in PossibleTypes(p, call)
    BY <2>2, <2>3 DEF PossibleTypes
  <2> QED  BY <2>2, <2>3, <2>4, <1>1, <1>2, <1>3
<1>5. CASE concreteCandidatesForInvoke(p, call) = {}
  <2>1. t \in lookupImpls(p.pk, call.iface)
    BY <1>5 DEF Concretes
  <2>2. t \in TypesOf(Names(p.pk)) /\ Implements(p.pk, t, call.iface)
    BY <1>1, <2>1, LookedUpImplements
  <2>3. shown = {}
    <3> SUFFICES ASSUME NEW u \in shown PROVE FALSE
      OBVIOUS
    <3>1. Satisfying(p.pk, u, call.iface) = {u}
      BY <1>1 DEF Satisfying
    <3> QED  BY <3>1, <1>1, <1>5 DEF concreteCandidatesForInvoke
  <2>4. t \in Implementers(p.pk, call.iface)
    <3>1. t.name \in Names(p.pk) \ p.pk.ifaces
      BY <2>2, <1>1, <1>2
    <3>2. t = Value(t.name) \/ t = Pointer(t.name)
      BY <2>2 DEF TypesOf, Value, Pointer
    <3> QED  BY <3>1, <3>2, <2>2 DEF Implementers, TypesOf
  <2>5. t \in PossibleTypes(p, call)
    BY <2>3, <2>4 DEF PossibleTypes, Opaque
  <2> QED  BY <2>2, <2>5, <1>1, <1>2, <1>3
<1> QED  BY <1>4, <1>5

-----------------------------------------------------------------------------
(* The invariant.                                                          *)

Bound == May(prog).fn[Func]

IInv ==
  /\ prog \in Programs
  /\ next \in 1..(Len(prog.order) + 1)
  /\ stack # <<>> => next <= Len(prog.order)
  /\ StackOK(stack, May(prog), Bound)
  /\ visitedFuncs \subseteq Funcs /\ warnedNoWrap \subseteq Values
  /\ facts \in [Funcs -> SUBSET Sentinels]
  /\ \A f \in Funcs : facts[f] \subseteq May(prog).fn[f]
  /\ warnings \in [Values -> Nat] /\ work \in Nat

LEMMA ProgramFacts ==
  ASSUME IInv
  PROVE  /\ WellFormed(prog) /\ Closed(prog, May(prog)) /\ prog.order \in Seq(Funcs)
         /\ May(prog).val \in [Values -> SUBSET Sentinels]
         /\ May(prog).fn \in [Funcs -> SUBSET Sentinels]
BY ProgramsAssumption, MayAssumption DEF IInv, WellFormed

LEMMA BoundTyped ==
  ASSUME IInv, next <= Len(prog.order)
  PROVE  Func \in Funcs /\ Bound \subseteq Sentinels /\ Bound = May(prog).fn[Func]
<1>1. next \in DOMAIN prog.order
  BY ProgramFacts DEF IInv
<1>2. Func \in Funcs
  BY <1>1, ProgramFacts DEF Func
<1> QED  BY <1>2, ProgramFacts DEF Bound

LEMMA TopTyped ==
  ASSUME IInv, stack # <<>>
  PROVE  Top \in Frames /\ Within(Top, May(prog), Bound) /\ stack \in Seq(Frames)
<1>1. stack \in Seq(Frames) /\ 1 \in DOMAIN stack /\ Top = stack[1]
  BY DEF IInv, StackOK, Top
<1> QED  BY <1>1 DEF IInv, StackOK

LEMMA ValueTyped ==
  ASSUME IInv, Tracing
  PROVE  /\ V \in Values
         /\ May(prog).val[V] \subseteq Bound
         /\ Tail(Top.todo) \in Seq(Values)
         /\ \A i \in DOMAIN Tail(Top.todo) : May(prog).val[Tail(Top.todo)[i]] \subseteq Bound
         /\ Visited \in SUBSET Values
<1>1. Top \in Frames /\ Within(Top, May(prog), Bound) /\ Top.todo # <<>>
  BY TopTyped DEF Tracing
<1>2. Top.todo \in Seq(Values) /\ 1 \in DOMAIN Top.todo /\ V = Top.todo[1]
  BY <1>1 DEF Frames, V
<1>3. \A i \in DOMAIN Tail(Top.todo) : i + 1 \in DOMAIN Top.todo /\ Tail(Top.todo)[i] = Top.todo[i+1]
  BY <1>2
<1>4. Visited \in SUBSET Values
  BY <1>1 DEF Visited, Frames
<1> QED  BY <1>1, <1>2, <1>3, <1>4 DEF Within

LEMMA AnswerKeeps ==
  ASSUME IInv, Open, NEW found, found \subseteq May(prog).val[V], Answer(found)
  PROVE  StackOK(stack', May(prog), Bound) /\ stack' # <<>> /\ work' \in Nat
<1> DEFINE F == [Top EXCEPT !.todo = Tail(@), !.found = @ \cup found, !.visited = Visited \cup {V}]
<1>1. Tracing /\ stack # <<>>
  BY DEF Open, Tracing
<1>2. Top \in Frames /\ Within(Top, May(prog), Bound)
  BY <1>1, TopTyped
<1>3. /\ F.todo = Tail(Top.todo) /\ F.found = Top.found \cup found /\ F.alt = Top.alt
      /\ F.depth = Top.depth
  BY <1>2 DEF Frames
<1>4. found \subseteq Sentinels
  BY <1>1, ValueTyped, ProgramFacts
<1>5. F \in Frames
  BY <1>1, <1>2, <1>4, ValueTyped DEF Frames
<1>6. Within(F, May(prog), Bound)
  BY <1>1, <1>2, <1>3, ValueTyped DEF Within
<1>7. stack' = <<F>> \o Tail(stack)
  BY DEF Answer, Rest
<1>8. StackOK(stack', May(prog), Bound)
  BY <1>1, <1>3, <1>5, <1>6, <1>7, ReplaceTop DEF IInv, Top
<1>9. stack' # <<>>
  BY <1>1, <1>5, <1>7, TopTyped
<1> QED  BY <1>8, <1>9 DEF IInv, Answer

LEMMA DescendKeeps ==
  ASSUME IInv, Open, NEW todo \in Seq(Values), NEW fresh \in BOOLEAN, NEW alt,
         \A i \in DOMAIN todo : May(prog).val[todo[i]] \subseteq May(prog).val[V],
         alt \subseteq May(prog).val[V], Descend(todo, fresh, alt)
  PROVE  StackOK(stack', May(prog), Bound) /\ stack' # <<>> /\ work' \in Nat
<1> DEFINE F == Frame(todo, Top.depth + 1, fresh, IF fresh THEN {} ELSE Visited \cup {V}, alt)
           G == [Top EXCEPT !.todo = Tail(@), !.visited = Visited \cup {V}]
<1>1. Tracing /\ stack # <<>> /\ Top.depth <= MaxTraceDepth
  BY DEF Open, Tracing
<1>2. Top \in Frames /\ Within(Top, May(prog), Bound)
  BY <1>1, TopTyped
<1>3. /\ G.todo = Tail(Top.todo) /\ G.found = Top.found /\ G.alt = Top.alt /\ G.depth = Top.depth
      /\ F.todo = todo /\ F.found = {} /\ F.alt = alt /\ F.depth = Top.depth + 1
  BY <1>2 DEF Frames, Frame
<1>4. alt \subseteq Sentinels
  BY <1>1, ValueTyped, ProgramFacts
<1>5. G \in Frames
  BY <1>1, <1>2, ValueTyped DEF Frames
<1>6. F \in Frames
  <2>1. Top.depth + 1 \in 0..(MaxTraceDepth + 1)
    BY <1>1, <1>2, LimitAssumption DEF Frames
  <2>2. (IF fresh THEN {} ELSE Visited \cup {V}) \in SUBSET Values
    BY <1>1, ValueTyped
  <2> QED  BY <2>1, <2>2, <1>4 DEF Frames, Frame
<1>7. Within(G, May(prog), Bound)
  BY <1>1, <1>2, <1>3, ValueTyped DEF Within
<1>8. Within(F, May(prog), Bound)
  BY <1>1, <1>3, ValueTyped DEF Within
<1>9. stack' = <<F, G>> \o Tail(stack)
  BY DEF Descend, Rest
<1>10. StackOK(stack', May(prog), Bound)
  BY <1>1, <1>3, <1>5, <1>6, <1>7, <1>8, <1>9, Push DEF IInv, Top
<1>11. stack' # <<>>
  BY <1>1, <1>5, <1>6, <1>9, TopTyped
<1> QED  BY <1>10, <1>11 DEF IInv, Descend

LEMMA Kept ==
  ASSUME IInv, UNCHANGED <<prog, next>>, next <= Len(prog.order),
         StackOK(stack', May(prog), Bound),
         visitedFuncs' \subseteq Funcs, warnedNoWrap' \subseteq Values, facts' = facts,
         warnings' \in [Values -> Nat], work' \in Nat
  PROVE  IInv'
<1>1. Bound' = Bound /\ May(prog') = May(prog)
  BY DEF Bound, Func
<1> QED  BY <1>1 DEF IInv

LEMMA YieldsBound ==
  ASSUME IInv, Tracing
  PROVE  Yields(prog, May(prog), V) \subseteq May(prog).val[V]
BY ProgramFacts, ValueTyped DEF Closed

LEMMA InFunction ==
  ASSUME IInv, Tracing
  PROVE  next <= Len(prog.order) /\ stack # <<>>
BY DEF Tracing, IInv

LEMMA ArgsTyped ==
  ASSUME IInv, Tracing
  PROVE  X.args \in Seq(Values)
BY ProgramFacts, ValueTyped DEF WellFormed, X

LEMMA CutValueKeeps ==
  ASSUME IInv, CutValue  PROVE IInv'
<1> DEFINE F == [Top EXCEPT !.todo = Tail(@), !.visited = Visited]
<1>1. Tracing
  BY DEF CutValue
<1>2. Top \in Frames /\ Within(Top, May(prog), Bound)
  BY <1>1, InFunction, TopTyped
<1>3. F.todo = Tail(Top.todo) /\ F.found = Top.found /\ F.alt = Top.alt /\ F.depth = Top.depth
  BY <1>2 DEF Frames
<1>4. F \in Frames
  BY <1>1, <1>2, ValueTyped DEF Frames
<1>5. Within(F, May(prog), Bound)
  BY <1>1, <1>2, <1>3, ValueTyped DEF Within
<1>6. stack' = <<F>> \o Tail(stack)
  BY DEF CutValue, Rest
<1>7. StackOK(stack', May(prog), Bound)
  BY <1>1, <1>3, <1>4, <1>5, <1>6, InFunction, ReplaceTop DEF IInv, Top
<1> QED  BY <1>1, <1>7, InFunction, Kept DEF IInv, CutValue

LEMMA TraceGlobalKeeps ==
  ASSUME IInv, TraceGlobal  PROVE IInv'
<1>1. Tracing /\ Open /\ X.op = "Global" /\ Answer(sentinelFromGlobal(X))
  BY DEF TraceGlobal, Open
<1>2. sentinelFromGlobal(X) \subseteq May(prog).val[V]
  BY <1>1, YieldsBound DEF Yields, X, PassOps
<1>3. StackOK(stack', May(prog), Bound) /\ work' \in Nat
  BY <1>1, <1>2, AnswerKeeps
<1> QED  BY <1>1, <1>3, InFunction, Kept DEF IInv, TraceGlobal

LEMMA TraceOtherKeeps ==
  ASSUME IInv, TraceOther  PROVE IInv'
<1>1. Tracing /\ Open /\ Answer({})
  BY DEF TraceOther, Open
<1>2. StackOK(stack', May(prog), Bound) /\ work' \in Nat
  BY <1>1, AnswerKeeps
<1> QED  BY <1>1, <1>2, InFunction, Kept DEF IInv, TraceOther

LEMMA TraceDynamicKeeps ==
  ASSUME IInv, TraceDynamic  PROVE IInv'
<1>1. Tracing /\ Open /\ Answer({})
  BY DEF TraceDynamic, Open
<1>2. StackOK(stack', May(prog), Bound) /\ work' \in Nat
  BY <1>1, AnswerKeeps
<1> QED  BY <1>1, <1>2, InFunction, Kept DEF IInv, TraceDynamic

LEMMA TracePassKeeps ==
  ASSUME IInv, TracePass  PROVE IInv'
<1>1. Tracing /\ Open /\ X.op \in PassOps /\ Descend(X.args, FALSE, {})
  BY DEF TracePass, Open
<1>2. Yields(prog, May(prog), V) = UNION {May(prog).val[a] : a \in ToSet(X.args)}
  <2>1. X.op # "Global" /\ X.op # "MakeInterface" /\ X.op # "Errorf" /\ X.op # "Call"
    BY <1>1 DEF PassOps
  <2> QED  BY <1>1, <2>1 DEF Yields, X
<1>3. \A i \in DOMAIN X.args : May(prog).val[X.args[i]] \subseteq May(prog).val[V]
  BY <1>1, <1>2, YieldsBound DEF ToSet
<1>4. StackOK(stack', May(prog), Bound) /\ work' \in Nat
  BY <1>1, <1>3, ArgsTyped, DescendKeeps
<1> QED  BY <1>1, <1>4, InFunction, Kept DEF IInv, TracePass

LEMMA TraceMakeInterfaceKeeps ==
  ASSUME IInv, TraceMakeInterface  PROVE IInv'
<1>1. Tracing /\ Open /\ X.op = "MakeInterface" /\ Descend(X.args, FALSE, customErrorType(X))
  BY DEF TraceMakeInterface, Open
<1>2. Yields(prog, May(prog), V) = customErrorType(X) \cup UNION {May(prog).val[a] : a \in ToSet(X.args)}
  BY <1>1 DEF Yields, X, PassOps
<1>3. /\ \A i \in DOMAIN X.args : May(prog).val[X.args[i]] \subseteq May(prog).val[V]
      /\ customErrorType(X) \subseteq May(prog).val[V]
  BY <1>1, <1>2, YieldsBound DEF ToSet
<1>4. StackOK(stack', May(prog), Bound) /\ work' \in Nat
  BY <1>1, <1>3, ArgsTyped, DescendKeeps
<1> QED  BY <1>1, <1>4, InFunction, Kept DEF IInv, TraceMakeInterface

LEMMA TraceErrorfKeeps ==
  ASSUME IInv, TraceErrorf  PROVE IInv'
<1> DEFINE wrapped == fmtErrorfWrappedArg(X)
<1>1. Tracing /\ Open /\ X.op = "Errorf"
  BY DEF TraceErrorf, Open
<1>2. Yields(prog, May(prog), V) = UNION {May(prog).val[a] : a \in Wrapped(X)}
  BY <1>1 DEF Yields, X, PassOps
<1>3. wrapped \in Seq(Values)
  BY <1>1, ArgsTyped DEF fmtErrorfWrappedArg
<1>4. \A i \in DOMAIN wrapped : May(prog).val[wrapped[i]] \subseteq May(prog).val[V]
  BY <1>1, <1>2, YieldsBound DEF Wrapped, ToSet
<1>5. StackOK(stack', May(prog), Bound) /\ work' \in Nat
  <2>1. CASE wrapped # <<>>
    BY <2>1, <1>1, <1>3, <1>4, DescendKeeps DEF TraceErrorf
  <2>2. CASE wrapped = <<>>
    BY <2>2, <1>1, AnswerKeeps DEF TraceErrorf
  <2> QED  BY <2>1, <2>2
<1>6. warnedNoWrap' \subseteq Values /\ warnings' \in [Values -> Nat]
  <2>1. warnedNoWrap \subseteq Values /\ warnings \in [Values -> Nat] /\ V \in Values
    BY <1>1, ValueTyped DEF IInv
  <2> QED  BY <2>1 DEF TraceErrorf
<1>7. UNCHANGED <<prog, next, visitedFuncs, facts>>
  BY DEF TraceErrorf
<1> QED  BY <1>1, <1>5, <1>6, <1>7, InFunction, Kept DEF IInv

LEMMA SummarySound ==
  ASSUME IInv, NEW f \in Funcs
  PROVE  Summary(facts, f) \subseteq May(prog).fn[f]
BY ProgramFacts DEF IInv, Summary, Closed, FuncYields

LEMMA CalleeCalled ==
  ASSUME NEW p, WellFormed(p), NEW v \in Values, p.instr[v].op = "Call",
         NEW f \in Callee(p, p.instr[v].call), NoFunc \notin Funcs
  PROVE  f \in Funcs /\ f \in Called(p, p.instr[v].call)
<1> DEFINE call == p.instr[v].call
<1>1. CASE call.kind = "static"
  BY <1>1 DEF Callee, Called, WellFormed
<1>2. CASE call.kind = "global"
  <2>1. PICK i \in DOMAIN p.stores :
           p.stores[i].global = call.global /\ p.stores[i].func # NoFunc /\ f = p.stores[i].func
    BY <1>2 DEF Callee, BuildGlobalFuncMap
  <2> QED  BY <1>2, <2>1 DEF Called, WellFormed
<1> QED  BY <1>1, <1>2 DEF Callee

LEMMA TraceCallKeeps ==
  ASSUME IInv, TraceCall  PROVE IInv'
<1>1. Tracing /\ Open /\ X.op = "Call"
  BY DEF TraceCall, Open
<1>2. PICK f \in Callee(prog, X.call) :
         IF \/ Summary(facts, f) # {}
            \/ Top.depth + 1 > MaxTraceDepth \/ ~prog.fn[f].body \/ f \in visitedFuncs
         THEN Answer(Summary(facts, f)) /\ UNCHANGED visitedFuncs
         ELSE Descend(prog.fn[f].rets, TRUE, {}) /\ visitedFuncs' = visitedFuncs \cup {f}
  BY DEF TraceCall
<1>3. f \in Funcs /\ f \in Called(prog, X.call)
  BY <1>1, ValueTyped, ProgramFacts, CalleeCalled, NoFuncAssumption DEF X
<1>4. Yields(prog, May(prog), V) = X.call.known \cup UNION {May(prog).fn[g] : g \in Called(prog, X.call)}
  BY <1>1 DEF Yields, X, PassOps
<1>5. May(prog).fn[f] \subseteq May(prog).val[V]
  BY <1>1, <1>3, <1>4, YieldsBound
<1>6. Summary(facts, f) \subseteq May(prog).val[V]
  BY <1>3, <1>5, SummarySound
<1>7. prog.fn[f].rets \in Seq(Values)
  BY <1>3, ProgramFacts DEF WellFormed
<1>8. \A i \in DOMAIN prog.fn[f].rets : May(prog).val[prog.fn[f].rets[i]] \subseteq May(prog).val[V]
  BY <1>3, <1>5, ProgramFacts DEF Closed, FuncYields, ToSet
<1>9. StackOK(stack', May(prog), Bound) /\ work' \in Nat /\ visitedFuncs' \subseteq Funcs
  <2>1. visitedFuncs \subseteq Funcs
    BY DEF IInv
  <2>2. CASE Answer(Summary(facts, f)) /\ UNCHANGED visitedFuncs
    BY <2>1, <2>2, <1>1, <1>6, AnswerKeeps
  <2>3. CASE Descend(prog.fn[f].rets, TRUE, {}) /\ visitedFuncs' = visitedFuncs \cup {f}
    <3> DEFINE todo == prog.fn[f].rets
    <3>1. todo \in Seq(Values) /\ Descend(todo, TRUE, {})
          /\ \A i \in DOMAIN todo : May(prog).val[todo[i]] \subseteq May(prog).val[V]
      BY <2>3, <1>7, <1>8
    <3> HIDE DEF todo
    <3>2. StackOK(stack', May(prog), Bound) /\ work' \in Nat
      BY <3>1, <1>1, DescendKeeps
    <3> QED  BY <2>1, <2>3, <3>2, <1>3
  <2> QED  BY <2>2, <2>3, <1>2
<1>10. UNCHANGED <<prog, next, warnedNoWrap, facts, warnings>>
  BY DEF TraceCall
<1> QED  BY <1>1, <1>9, <1>10, InFunction, Kept DEF IInv

LEMMA TraceInvokeKeeps ==
  ASSUME IInv, TraceInvoke  PROVE IInv'
<1>1. Tracing /\ Open /\ X.op = "Call" /\ X.call.kind = "invoke"
  BY DEF TraceInvoke, Open
<1>2. Yields(prog, May(prog), V) = X.call.known \cup UNION {May(prog).fn[g] : g \in Called(prog, X.call)}
  BY <1>1 DEF Yields, X, PassOps
<1>3. \A t \in Concretes(prog, X.call) :
         sentinelsForConcreteMethod(prog, facts, t) \subseteq Yields(prog, May(prog), V)
  <2> SUFFICES ASSUME NEW t \in Concretes(prog, X.call), prog.method[t.name] # NoFunc
               PROVE  sentinelsForConcreteMethod(prog, facts, t) \subseteq Yields(prog, May(prog), V)
    BY DEF sentinelsForConcreteMethod
  <2> DEFINE m == prog.method[t.name]
  <2>1. m \in Called(prog, X.call) /\ m \in Funcs
    BY <1>1, ValueTyped, ProgramFacts, ConcretesCalled DEF X
  <2>2. prog.fn[m].known \subseteq May(prog).fn[m] /\ facts[m] \subseteq May(prog).fn[m]
    BY <2>1, ProgramFacts DEF Closed, FuncYields, IInv
  <2>3. sentinelsForConcreteMethod(prog, facts, t) \subseteq May(prog).fn[m]
    BY <2>2 DEF sentinelsForConcreteMethod, knownMethodSentinels
  <2> QED  BY <2>1, <2>3, <1>2
<1>4. sentinelFromInvoke(prog, facts, X.call) \subseteq May(prog).val[V]
  BY <1>1, <1>2, <1>3, YieldsBound DEF sentinelFromInvoke
<1>5. StackOK(stack', May(prog), Bound) /\ work' \in Nat
  <2>1. CASE Answer({})
    BY <2>1, <1>1, AnswerKeeps
  <2>2. CASE Answer(sentinelFromInvoke(prog, facts, X.call))
    BY <2>2, <1>1, <1>4, AnswerKeeps
  <2> QED  BY <2>1, <2>2 DEF TraceInvoke
<1> QED  BY <1>1, <1>5, InFunction, Kept DEF IInv, TraceInvoke

LEMMA ReturnKeeps ==
  ASSUME IInv, Return  PROVE IInv'
<1> DEFINE caller == Head(Rest)
           answer == IF Top.found # {} THEN Top.found ELSE Top.alt
           F == [caller EXCEPT !.found = @ \cup answer,
                               !.visited = IF Top.fresh THEN @ ELSE Top.visited]
<1>1. stack # <<>> /\ Rest # <<>> /\ Rest = Tail(stack) /\ stack' = <<F>> \o Tail(Rest)
  BY DEF Return, Rest
<1>2. StackOK(Rest, May(prog), Bound)
  BY <1>1, Pop DEF IInv
<1>3. Rest \in Seq(Frames) /\ 1 \in DOMAIN Rest /\ caller = Rest[1]
  <2>1. Rest \in Seq(Frames)
    BY <1>2 DEF StackOK
  <2> QED  BY <1>1, <2>1, HeadOf
<1>4. caller \in Frames /\ Within(caller, May(prog), Bound)
  <2>1. Rest[1] \in Frames
    BY <1>3
  <2>2. \A i \in DOMAIN Rest : Within(Rest[i], May(prog), Bound)
    BY <1>2 DEF StackOK
  <2> QED  BY <1>3, <2>1, <2>2
<1>5. Top \in Frames /\ Within(Top, May(prog), Bound)
  BY <1>1, TopTyped
<1>6. answer \subseteq Bound /\ answer \subseteq Sentinels
  BY <1>5 DEF Within, Frames
<1>7. (IF Top.fresh THEN caller.visited ELSE Top.visited) \in SUBSET Values
  BY <1>4, <1>5 DEF Frames
<1>8. /\ F.todo = caller.todo /\ F.alt = caller.alt /\ F.depth = caller.depth
      /\ F.found = caller.found \cup answer
  BY <1>4 DEF Frames
<1>9. F \in Frames
  BY <1>4, <1>6, <1>7 DEF Frames
<1>10. Within(F, May(prog), Bound)
  BY <1>4, <1>6, <1>8 DEF Within
<1>11. StackOK(stack', May(prog), Bound)
  BY <1>1, <1>2, <1>8, <1>9, <1>10, ReplaceTop
<1> QED  BY <1>1, <1>11, Kept DEF IInv, Return

LEMMA StartFunctionKeeps ==
  ASSUME IInv, StartFunction  PROVE IInv'
<1> DEFINE F == Frame(prog.fn[Func].rets, 0, TRUE, {}, {})
<1>1. next <= Len(prog.order) /\ stack' = <<F>>
  BY DEF StartFunction
<1>2. Func \in Funcs /\ Bound = May(prog).fn[Func]
  BY <1>1, BoundTyped
<1>3. prog.fn[Func].rets \in Seq(Values)
  BY <1>2, ProgramFacts DEF WellFormed
<1>4. F \in Frames
  BY <1>3, LimitAssumption DEF Frame, Frames
<1>5. \A i \in DOMAIN prog.fn[Func].rets : May(prog).val[prog.fn[Func].rets[i]] \subseteq Bound
  BY <1>2, ProgramFacts DEF Closed, FuncYields, ToSet
<1>6. Within(F, May(prog), Bound) /\ F.depth = 0
  BY <1>5 DEF Within, Frame
<1>7. StackOK(stack', May(prog), Bound)
  BY <1>1, <1>4, <1>6, OneFrame
<1> QED  BY <1>1, <1>2, <1>7, Kept DEF IInv, StartFunction

LEMMA NextFunction ==
  ASSUME IInv, next <= Len(prog.order), prog' = prog, next' = next + 1, stack' = <<>>,
         UNCHANGED <<visitedFuncs, warnedNoWrap, warnings, work>>,
         facts' \in [Funcs -> SUBSET Sentinels],
         \A f \in Funcs : facts'[f] \subseteq May(prog).fn[f]
  PROVE  IInv'
<1>1. next' \in 1..(Len(prog'.order) + 1)
  <2>1. Len(prog.order) \in Nat
    BY ProgramFacts
  <2> QED  BY <2>1 DEF IInv
<1>2. StackOK(stack', May(prog'), Bound')
  BY EmptyStack
<1> QED  BY <1>1, <1>2 DEF IInv

LEMMA SkipFunctionKeeps ==
  ASSUME IInv, SkipFunction  PROVE IInv'
BY NextFunction DEF IInv, SkipFunction

LEMMA FinishFunctionKeeps ==
  ASSUME IInv, FinishFunction  PROVE IInv'
<1>1. stack # <<>> /\ next <= Len(prog.order)
  BY DEF FinishFunction, IInv
<1>2. Func \in Funcs /\ Bound = May(prog).fn[Func] /\ Bound \subseteq Sentinels
  BY <1>1, BoundTyped
<1>3. Top.found \subseteq Bound
  BY <1>1, TopTyped DEF Within
<1>4. facts \in [Funcs -> SUBSET Sentinels] /\ \A f \in Funcs : facts[f] \subseteq May(prog).fn[f]
  BY DEF IInv
<1>5. facts' = facts \/ facts' = [facts EXCEPT ![Func] = Top.found]
  BY DEF FinishFunction
<1>6. /\ facts' \in [Funcs -> SUBSET Sentinels]
      /\ \A f \in Funcs : facts'[f] \subseteq May(prog).fn[f]
  BY <1>2, <1>3, <1>4, <1>5
<1> QED  BY <1>1, <1>6, NextFunction DEF FinishFunction

-----------------------------------------------------------------------------
LEMMA Initially == ASSUME Init  PROVE IInv
<1>1. prog \in Programs /\ stack = <<>> /\ next = 1 /\ facts = prog.facts
  BY DEF Init
<1>2. prog.order \in Seq(Funcs) /\ prog.facts \in [Funcs -> SUBSET Sentinels]
  BY <1>1, ProgramsAssumption DEF WellFormed
<1>3. \A f \in Funcs : prog.facts[f] \subseteq May(prog).fn[f]
  BY <1>1, MayAssumption DEF Closed, FuncYields
<1>4. next \in 1..(Len(prog.order) + 1)
  BY <1>1, <1>2
<1>5. StackOK(stack, May(prog), Bound)
  BY <1>1, EmptyStack
<1> QED  BY <1>1, <1>2, <1>3, <1>4, <1>5 DEF Init, IInv

LEMMA Stutters == ASSUME IInv, UNCHANGED vars  PROVE IInv'
<1>1. Bound' = Bound /\ May(prog') = May(prog)
  BY DEF vars, Bound, Func
<1> QED  BY <1>1 DEF IInv, vars

LEMMA Preserved == ASSUME IInv, [Next]_vars  PROVE IInv'
<1>1. CASE UNCHANGED vars
  BY <1>1, Stutters
<1>2. CASE Next
  BY <1>2, SkipFunctionKeeps, StartFunctionKeeps, CutValueKeeps, TraceGlobalKeeps,
     TraceOtherKeeps, TracePassKeeps, TraceMakeInterfaceKeeps, TraceErrorfKeeps,
     TraceCallKeeps, TraceInvokeKeeps, TraceDynamicKeeps, ReturnKeeps,
     FinishFunctionKeeps, Stutters DEF Next, Done
<1> QED  BY <1>1, <1>2

THEOREM Invariance == Spec => []IInv
<1>1. Init => IInv
  BY Initially
<1>2. IInv /\ [Next]_vars => IInv'
  BY Preserved
<1> QED  BY <1>1, <1>2, PTL DEF Spec

\* The types of the tracer's state hold in every run.
THEOREM TypeCorrect == Spec => []TypeOK
<1>1. IInv => TypeOK
  BY DEF IInv, TypeOK, StackOK
<1> QED  BY <1>1, Invariance, PTL

\* The stack never grows past the limit, and every frame is one deeper than
\* its caller's: the recursion of traceValue and sentinelFromCallee is bounded.
THEOREM DepthIsBounded == Spec => []DepthBounded
<1>1. IInv => DepthBounded
  BY DEF IInv, DepthBounded, StackOK
<1> QED  BY <1>1, Invariance, PTL

\* A fact is within every assignment that is closed under the program, so
\* within the least one: what the analyzer exports, some return may yield.
THEOREM FactsSound == Spec => []Sound
<1>1. IInv => Sound
  BY DEF IInv, Sound
<1> QED  BY <1>1, Invariance, PTL

-----------------------------------------------------------------------------
(* Warnings: what is traced without entering a call is of the function at  *)
(* hand.                                                                   *)

\* No call was entered between the function at hand and frame i.
Own(s, i) == \A k \in i..(Len(s) - 1) : ~s[k].fresh

Local(s, p, f) ==
  \A i \in DOMAIN s : Own(s, i) =>
    \A j \in DOMAIN s[i].todo : Computed(p, s[i].todo[j]) => p.home[s[i].todo[j]] = f

\* A call of fmt.Errorf that was warned about is of an earlier function, or of
\* the one at hand and in its warnedNoWrap.
WarnedBefore ==
  \A v \in Values : warnings[v] > 0 =>
    \/ \E j \in 1..(next - 1) : prog.order[j] = prog.home[v]
    \/ stack # <<>> /\ prog.home[v] = Func /\ v \in warnedNoWrap

WarnInv == WarnsOnce /\ WarnedBefore /\ Local(stack, prog, Func)

LEMMA LocalEmpty == ASSUME NEW p, NEW f  PROVE Local(<<>>, p, f)
  BY DEF Local

\* The frame of the function at hand starts with the function's own results.
LEMMA LocalOne ==
  ASSUME NEW p, NEW f, NEW F,
         \A j \in DOMAIN F.todo : Computed(p, F.todo[j]) => p.home[F.todo[j]] = f
  PROVE  Local(<<F>>, p, f)
<1> DEFINE t == <<F>>
<1>1. DOMAIN t = 1..1 /\ t[1] = F
  OBVIOUS
<1> QED  BY <1>1 DEF Local

LEMMA LocalReplace ==
  ASSUME NEW p, NEW f, NEW S, NEW s \in Seq(S), s # <<>>, Local(s, p, f),
         NEW F \in S, F.fresh = Head(s).fresh,
         \A j \in DOMAIN F.todo : \E k \in DOMAIN Head(s).todo : F.todo[j] = Head(s).todo[k]
  PROVE  Local(<<F>> \o Tail(s), p, f)
<1> DEFINE t == <<F>> \o Tail(s)
<1>1. Len(s) \in Nat /\ Len(s) >= 1 /\ DOMAIN s = 1..Len(s) /\ Head(s) = s[1]
  OBVIOUS
<1>2. Len(t) = Len(s) /\ DOMAIN t = DOMAIN s /\ t[1] = F /\ \A i \in DOMAIN s : i # 1 => t[i] = s[i]
  BY <1>1
<1> HIDE DEF t
<1>3. \A k \in DOMAIN s : t[k].fresh = s[k].fresh
  BY <1>1, <1>2
<1>4. ASSUME NEW i \in DOMAIN s, Own(t, i)  PROVE Own(s, i)
  BY <1>1, <1>2, <1>3, <1>4 DEF Own
<1>5. ASSUME NEW i \in DOMAIN t, Own(t, i), NEW j \in DOMAIN t[i].todo, Computed(p, t[i].todo[j])
      PROVE  p.home[t[i].todo[j]] = f
  <2>1. i \in DOMAIN s /\ Own(s, i)
    BY <1>2, <1>4, <1>5
  <2>2. CASE i = 1
    <3>1. PICK k \in DOMAIN s[1].todo : F.todo[j] = s[1].todo[k]
      BY <1>1, <1>2, <1>5, <2>2
    <3> QED  BY <1>2, <1>5, <2>1, <2>2, <3>1 DEF Local
  <2>3. CASE i # 1
    BY <1>2, <1>5, <2>1, <2>3 DEF Local
  <2> QED  BY <2>2, <2>3
<1> QED  BY <1>5 DEF Local, t

LEMMA LocalPush ==
  ASSUME NEW p, NEW f, NEW S, NEW s \in Seq(S), s # <<>>, Local(s, p, f),
         NEW F \in S,
         \/ F.fresh
         \/ Own(s, 1) => \A j \in DOMAIN F.todo : Computed(p, F.todo[j]) => p.home[F.todo[j]] = f,
         NEW G \in S, G.fresh = Head(s).fresh,
         \A j \in DOMAIN G.todo : \E k \in DOMAIN Head(s).todo : G.todo[j] = Head(s).todo[k]
  PROVE  Local(<<F, G>> \o Tail(s), p, f)
<1> DEFINE t == <<F, G>> \o Tail(s)
<1>1. Len(s) \in Nat /\ Len(s) >= 1 /\ DOMAIN s = 1..Len(s) /\ Head(s) = s[1]
  OBVIOUS
<1>2. /\ Len(t) = Len(s) + 1 /\ DOMAIN t = 1..(Len(s) + 1) /\ t[1] = F /\ t[2] = G
      /\ \A i \in DOMAIN t : i > 2 => t[i] = s[i-1]
  BY <1>1
<1> HIDE DEF t
<1>3. \A k \in DOMAIN s : k + 1 \in DOMAIN t /\ t[k+1].fresh = s[k].fresh
  <2> SUFFICES ASSUME NEW k \in DOMAIN s  PROVE k + 1 \in DOMAIN t /\ t[k+1].fresh = s[k].fresh
    OBVIOUS
  <2>1. CASE k = 1
    BY <2>1, <1>1, <1>2
  <2>2. CASE k > 1
    <3>1. k + 1 \in DOMAIN t /\ k + 1 > 2 /\ (k + 1) - 1 = k
      BY <2>2, <1>1, <1>2
    <3> QED  BY <3>1, <1>2
  <2> QED  BY <2>1, <2>2, <1>1
<1>4. ASSUME NEW i \in DOMAIN s, \A k \in (i+1)..Len(s) : ~t[k].fresh  PROVE Own(s, i)
  <2> SUFFICES ASSUME NEW k \in i..(Len(s) - 1)  PROVE ~s[k].fresh
    BY DEF Own
  <2>1. k \in DOMAIN s /\ k + 1 \in (i+1)..Len(s)
    BY <1>1
  <2> QED  BY <2>1, <1>3, <1>4
<1>5. ASSUME NEW i \in DOMAIN t, Own(t, i), NEW j \in DOMAIN t[i].todo, Computed(p, t[i].todo[j])
      PROVE  p.home[t[i].todo[j]] = f
  <2>1. \A k \in i..Len(s) : ~t[k].fresh
    BY <1>1, <1>2, <1>5 DEF Own
  <2>2. CASE i = 1
    <3>1. ~F.fresh
      BY <1>1, <1>2, <2>1, <2>2
    <3>2. Own(s, 1)
      <4>1. \A k \in 2..Len(s) : ~t[k].fresh
        BY <1>1, <2>1, <2>2
      <4> QED  BY <1>1, <1>4, <4>1
    <3> QED  BY <1>2, <1>5, <2>2, <3>1, <3>2
  <2>3. CASE i = 2
    <3>1. Own(s, 1)
      BY <1>1, <1>4, <2>1, <2>3
    <3>2. PICK k \in DOMAIN s[1].todo : G.todo[j] = s[1].todo[k]
      BY <1>1, <1>2, <1>5, <2>3
    <3> QED  BY <1>1, <1>2, <1>5, <2>3, <3>1, <3>2 DEF Local
  <2>4. CASE i > 2
    <3>1. i - 1 \in DOMAIN s /\ (i - 1) + 1 = i /\ t[i] = s[i-1]
      BY <1>1, <1>2, <2>4
    <3>2. Own(s, i - 1)
      BY <1>4, <2>1, <3>1
    <3> QED  BY <1>5, <3>1, <3>2 DEF Local
  <2> QED  BY <2>2, <2>3, <2>4, <1>2
<1> QED  BY <1>5 DEF Local, t

LEMMA LocalPop ==
  ASSUME NEW p, NEW f, NEW S, NEW s \in Seq(S), s # <<>>, Local(s, p, f)
  PROVE  Local(Tail(s), p, f)
<1> DEFINE t == Tail(s)
<1>1. Len(s) \in Nat /\ Len(s) >= 1 /\ DOMAIN s = 1..Len(s)
  OBVIOUS
<1>2. /\ Len(t) = Len(s) - 1 /\ DOMAIN t = 1..(Len(s) - 1)
      /\ \A i \in DOMAIN t : t[i] = s[i+1] /\ i + 1 \in DOMAIN s /\ i \in Nat
  BY <1>1
<1> HIDE DEF t
<1>3. ASSUME NEW i \in DOMAIN t, Own(t, i)  PROVE Own(s, i + 1)
  <2> SUFFICES ASSUME NEW k \in (i + 1)..(Len(s) - 1)  PROVE ~s[k].fresh
    BY DEF Own
  <2>1. k - 1 \in i..(Len(t) - 1) /\ k - 1 \in DOMAIN t /\ (k - 1) + 1 = k
    BY <1>1, <1>2
  <2> QED  BY <2>1, <1>2, <1>3 DEF Own
<1> QED  BY <1>2, <1>3 DEF Local, t

LEMMA TodoTail ==
  ASSUME IInv, Tracing
  PROVE  /\ Top \in Frames /\ stack \in Seq(Frames) /\ stack # <<>> /\ Tail(Top.todo) \in Seq(Values)
         /\ \A j \in DOMAIN Tail(Top.todo) : \E k \in DOMAIN Top.todo : Tail(Top.todo)[j] = Top.todo[k]
         /\ 1 \in DOMAIN Top.todo /\ V = Top.todo[1]
<1>1. Top \in Frames /\ stack \in Seq(Frames) /\ stack # <<>> /\ Top.todo # <<>>
  BY TopTyped DEF Tracing
<1>2. Top.todo \in Seq(Values) /\ 1 \in DOMAIN Top.todo /\ V = Top.todo[1]
  BY <1>1 DEF Frames, V
<1>3. \A j \in DOMAIN Tail(Top.todo) : j + 1 \in DOMAIN Top.todo /\ Tail(Top.todo)[j] = Top.todo[j+1]
  BY <1>2
<1> QED  BY <1>1, <1>2, <1>3

\* The frame whose value was answered or cut.
LEMMA AdvancesLocal ==
  ASSUME IInv, Tracing, Local(stack, prog, Func), NEW F, stack' = <<F>> \o Rest,
         F.fresh = Top.fresh, F.todo = Tail(Top.todo)
  PROVE  Local(stack', prog, Func) /\ stack' # <<>>
<1> DEFINE S == Frames \cup {F}
<1>1. stack \in Seq(S) /\ F \in S /\ Tail(stack) \in Seq(S) /\ stack # <<>>
  BY TodoTail
<1>2. F.fresh = Head(stack).fresh
  BY DEF Top
<1>3. \A j \in DOMAIN F.todo : \E k \in DOMAIN Head(stack).todo : F.todo[j] = Head(stack).todo[k]
  BY TodoTail DEF Top
<1> HIDE DEF S
<1>4. Local(<<F>> \o Tail(stack), prog, Func)
  BY <1>1, <1>2, <1>3, LocalReplace
<1> QED  BY <1>1, <1>4 DEF Rest

LEMMA AnswerLocal ==
  ASSUME IInv, Tracing, Local(stack, prog, Func), NEW found, Answer(found)
  PROVE  Local(stack', prog, Func) /\ stack' # <<>>
<1> DEFINE F == [Top EXCEPT !.todo = Tail(@), !.found = @ \cup found, !.visited = Visited \cup {V}]
<1>1. F.fresh = Top.fresh /\ F.todo = Tail(Top.todo)
  BY TodoTail DEF Frames
<1>2. stack' = <<F>> \o Rest
  BY DEF Answer
<1> HIDE DEF F
<1> QED  BY <1>1, <1>2, AdvancesLocal

LEMMA DescendLocal ==
  ASSUME IInv, Tracing, Local(stack, prog, Func), NEW todo, NEW fresh, NEW alt, Descend(todo, fresh, alt),
         fresh \/ (Reporting => \A j \in DOMAIN todo : Computed(prog, todo[j]) => prog.home[todo[j]] = Func)
  PROVE  Local(stack', prog, Func) /\ stack' # <<>>
<1> DEFINE F == Frame(todo, Top.depth + 1, fresh, IF fresh THEN {} ELSE Visited \cup {V}, alt)
           G == [Top EXCEPT !.todo = Tail(@), !.visited = Visited \cup {V}]
           S == Frames \cup {F, G}
<1>1. G.fresh = Top.fresh /\ G.todo = Tail(Top.todo)
  BY TodoTail DEF Frames
<1>2. F.fresh = fresh /\ F.todo = todo
  BY DEF Frame
<1>3. stack' = <<F, G>> \o Tail(stack)
  BY DEF Descend, Rest
<1>4. Own(stack, 1) => Reporting
  BY DEF Own, Reporting
<1> HIDE DEF F, G
<1>5. stack \in Seq(S) /\ F \in S /\ G \in S /\ Tail(stack) \in Seq(S) /\ stack # <<>>
  BY TodoTail
<1>6. G.fresh = Head(stack).fresh
  BY <1>1 DEF Top
<1>7. \A j \in DOMAIN G.todo : \E k \in DOMAIN Head(stack).todo : G.todo[j] = Head(stack).todo[k]
  BY <1>1, TodoTail DEF Top
<1>8. \/ F.fresh
      \/ Own(stack, 1) => \A j \in DOMAIN F.todo : Computed(prog, F.todo[j]) => prog.home[F.todo[j]] = Func
  BY <1>2, <1>4
<1> HIDE DEF S
<1>9. Local(<<F, G>> \o Tail(stack), prog, Func)
  BY <1>5, <1>6, <1>7, <1>8, LocalPush
<1> QED  BY <1>3, <1>5, <1>9

\* What is traced in the function at hand belongs to it.
LEMMA ReportingHome ==
  ASSUME IInv, Tracing, Local(stack, prog, Func), Reporting, Computed(prog, V)
  PROVE  prog.home[V] = Func
<1>1. 1 \in DOMAIN stack /\ Top = stack[1]
  BY TodoTail DEF Top
<1>2. Own(stack, 1)
  BY DEF Own, Reporting
<1> QED  BY <1>1, <1>2, TodoTail DEF Local

LEMMA ArgsHome ==
  ASSUME IInv, Tracing, Local(stack, prog, Func), Reporting, Computed(prog, V),
         NEW a \in ToSet(X.args), Computed(prog, a)
  PROVE  prog.home[a] = Func
<1>1. V \in Values /\ WellFormed(prog)
  BY ValueTyped, ProgramFacts
<1> QED  BY <1>1, ReportingHome DEF WellFormed, X

\* Steps that neither warn nor leave the function.
LEMMA NoWarning ==
  ASSUME WarnInv, UNCHANGED <<prog, next, warnings, warnedNoWrap>>, stack' # <<>>, Local(stack', prog, Func)
  PROVE  WarnInv'
<1>1. Func' = Func
  BY DEF Func
<1> QED  BY <1>1 DEF WarnInv, WarnsOnce, WarnedBefore

LEMMA TracingWarns ==
  ASSUME IInv, WarnInv,
         CutValue \/ TraceGlobal \/ TraceOther \/ TraceDynamic \/ TracePass \/ TraceMakeInterface
           \/ TraceCall \/ TraceInvoke
  PROVE  WarnInv'
<1>1. Tracing /\ UNCHANGED <<prog, next, warnings, warnedNoWrap>> /\ Local(stack, prog, Func)
  BY DEF WarnInv, CutValue, TraceGlobal, TraceOther, TraceDynamic, TracePass, TraceMakeInterface,
     TraceCall, TraceInvoke, Open
<1> SUFFICES Local(stack', prog, Func) /\ stack' # <<>>
  BY <1>1, NoWarning
<1>2. CASE CutValue
  <2> DEFINE F == [Top EXCEPT !.todo = Tail(@), !.visited = Visited]
  <2>1. F.fresh = Top.fresh /\ F.todo = Tail(Top.todo) /\ stack' = <<F>> \o Rest
    BY <1>1, <1>2, TodoTail DEF Frames, CutValue
  <2> HIDE DEF F
  <2> QED  BY <1>1, <2>1, AdvancesLocal
<1>3. CASE TraceGlobal \/ TraceOther \/ TraceDynamic \/ TraceInvoke
  <2>1. \E found : Answer(found)
    BY <1>3 DEF TraceGlobal, TraceOther, TraceDynamic, TraceInvoke
  <2> QED  BY <1>1, <2>1, AnswerLocal
<1>4. CASE TracePass \/ TraceMakeInterface
  <2>1. Computed(prog, V)
    BY <1>4 DEF TracePass, TraceMakeInterface, PassOps, Computed, X
  <2>2. \E alt : Descend(X.args, FALSE, alt)
    BY <1>4 DEF TracePass, TraceMakeInterface
  <2>3. Reporting => \A j \in DOMAIN X.args : Computed(prog, X.args[j]) => prog.home[X.args[j]] = Func
    BY <1>1, <2>1, ArgsHome DEF ToSet
  <2> QED  BY <1>1, <2>2, <2>3, DescendLocal
<1>5. CASE TraceCall
  <2>1. (\E found : Answer(found)) \/ \E todo : Descend(todo, TRUE, {})
    BY <1>5 DEF TraceCall
  <2> QED  BY <1>1, <2>1, AnswerLocal, DescendLocal
<1> QED  BY <1>2, <1>3, <1>4, <1>5

LEMMA ErrorfWarns ==
  ASSUME IInv, WarnInv, TraceErrorf  PROVE WarnInv'
<1> DEFINE wrapped == fmtErrorfWrappedArg(X)
<1>1. Tracing /\ UNCHANGED <<prog, next>> /\ Local(stack, prog, Func) /\ X.op = "Errorf" /\ Computed(prog, V)
  BY DEF WarnInv, TraceErrorf, Open, Computed, X
<1>2. Local(stack', prog, Func) /\ stack' # <<>>
  <2>1. CASE wrapped = <<>>
    BY <1>1, <2>1, AnswerLocal DEF TraceErrorf
  <2>2. CASE wrapped # <<>>
    <3>1. Descend(wrapped, FALSE, {})
      BY <2>2 DEF TraceErrorf
    <3>2. X.args \in Seq(Values)
      BY <1>1, ArgsTyped
    <3>3. \A j \in DOMAIN wrapped : wrapped[j] \in ToSet(X.args)
      BY <3>2 DEF fmtErrorfWrappedArg, ToSet
    <3>4. Reporting => \A j \in DOMAIN wrapped : Computed(prog, wrapped[j]) => prog.home[wrapped[j]] = Func
      BY <1>1, <3>3, ArgsHome
    <3> QED  BY <1>1, <3>1, <3>4, DescendLocal
  <2> QED  BY <2>1, <2>2
<1>3. CASE ~(fmtErrorfLosesIdentity(X) /\ Warns)
  BY <1>1, <1>2, <1>3, NoWarning DEF TraceErrorf
<1>4. CASE fmtErrorfLosesIdentity(X) /\ Warns
  <2>1. /\ warnedNoWrap' = warnedNoWrap \cup {V} /\ warnings' = [warnings EXCEPT ![V] = @ + 1]
        /\ V \in Values /\ V \notin warnedNoWrap /\ prog.home[V] = Func
    BY <1>1, <1>4, ReportingHome, ValueTyped DEF TraceErrorf, Warns
  <2>2. warnings[V] = 0
    <3>1. next \in DOMAIN prog.order /\ \A j \in 1..(next - 1) : j \in DOMAIN prog.order /\ j # next
      BY <1>1, InFunction, ProgramFacts DEF IInv
    <3>2. \A j \in 1..(next - 1) : prog.order[j] # prog.home[V]
      BY <2>1, <3>1, ProgramFacts DEF WellFormed, Func
    <3>3. ~(warnings[V] > 0)
      BY <2>1, <3>2 DEF WarnInv, WarnedBefore
    <3> QED  BY <2>1, <3>3 DEF IInv
  <2>3. Func' = Func
    BY <1>1 DEF Func
  <2>4. \A v \in Values : v # V => warnings'[v] = warnings[v]
    BY <2>1 DEF IInv
  <2>5. warnings'[V] = 1
    BY <2>1, <2>2 DEF IInv
  <2>6. WarnsOnce'
    BY <2>4, <2>5 DEF WarnInv, WarnsOnce
  <2>7. WarnedBefore'
    BY <1>1, <1>2, <2>1, <2>3, <2>4 DEF WarnInv, WarnedBefore
  <2> QED  BY <1>1, <1>2, <2>3, <2>6, <2>7 DEF WarnInv
<1> QED  BY <1>3, <1>4

LEMMA ReturnWarns ==
  ASSUME IInv, WarnInv, Return  PROVE WarnInv'
<1> DEFINE caller == Head(Rest)
           F == [caller EXCEPT !.found = @ \cup (IF Top.found # {} THEN Top.found ELSE Top.alt),
                               !.visited = IF Top.fresh THEN @ ELSE Top.visited]
           S == Frames \cup {F}
<1>1. /\ stack # <<>> /\ Rest # <<>> /\ Rest = Tail(stack) /\ stack' = <<F>> \o Tail(Rest)
      /\ UNCHANGED <<prog, next, warnings, warnedNoWrap>>
  BY DEF Return, Rest
<1>2. stack \in Seq(Frames) /\ Rest \in Seq(Frames) /\ caller \in Frames
  <2>1. stack \in Seq(Frames)
    BY DEF IInv, StackOK
  <2>2. stack # <<>> /\ Rest # <<>> /\ Rest = Tail(stack)
    BY <1>1
  <2>3. Rest \in Seq(Frames)
    BY ONLY <2>1, <2>2
  <2> QED  BY ONLY <2>1, <2>2, <2>3, HeadOf
<1>3. F.fresh = caller.fresh /\ F.todo = caller.todo
  BY <1>2 DEF Frames
<1> HIDE DEF F
<1>4. Rest \in Seq(S) /\ F \in S /\ Tail(Rest) \in Seq(S)
  BY <1>1, <1>2
<1> HIDE DEF S
<1>5. Local(Rest, prog, Func)
  BY <1>1, <1>2, LocalPop DEF WarnInv
<1>6. Local(<<F>> \o Tail(Rest), prog, Func)
  BY <1>1, <1>3, <1>4, <1>5, LocalReplace
<1>7. stack' # <<>>
  BY <1>1, <1>4
<1> QED  BY <1>1, <1>6, <1>7, NoWarning

\* The function at hand is done, and its calls are not warned about again.
LEMMA FinishWarns ==
  ASSUME IInv, WarnInv, SkipFunction \/ FinishFunction  PROVE WarnInv'
<1>1. /\ next' = next + 1 /\ stack' = <<>> /\ next \in Nat \ {0}
      /\ UNCHANGED <<prog, warnings>>
  BY DEF SkipFunction, FinishFunction, IInv
<1>2. WarnedBefore'
  <2> SUFFICES ASSUME NEW v \in Values, warnings[v] > 0
               PROVE  \E j \in 1..next : prog.order[j] = prog.home[v]
    BY <1>1 DEF WarnedBefore
  <2>1. CASE \E j \in 1..(next - 1) : prog.order[j] = prog.home[v]
    BY <1>1, <2>1
  <2>2. CASE prog.home[v] = Func
    BY <1>1, <2>2 DEF Func
  <2> QED  BY <2>1, <2>2 DEF WarnInv, WarnedBefore
<1>3. Local(stack', prog', Func')
  BY <1>1, LocalEmpty
<1>4. WarnsOnce'
  BY <1>1 DEF WarnInv, WarnsOnce
<1> QED  BY <1>2, <1>3, <1>4 DEF WarnInv

LEMMA StartWarns ==
  ASSUME IInv, WarnInv, StartFunction  PROVE WarnInv'
<1> DEFINE F == Frame(prog.fn[Func].rets, 0, TRUE, {}, {})
<1>1. /\ stack = <<>> /\ stack' = <<F>> /\ UNCHANGED <<prog, next, warnings>> /\ next <= Len(prog.order)
      /\ F.todo = prog.fn[Func].rets
  BY DEF StartFunction, Frame
<1>2. Func' = Func /\ Func \in Funcs /\ WellFormed(prog)
  BY <1>1, BoundTyped, ProgramFacts DEF Func
<1>3. \A j \in DOMAIN F.todo : Computed(prog, F.todo[j]) => prog.home[F.todo[j]] = Func
  <2> DEFINE rets == prog.fn[Func].rets
  <2>1. \A v \in ToSet(rets) : Computed(prog, v) => prog.home[v] = Func
    BY <1>2, Zenon DEF WellFormed
  <2>2. F.todo = rets
    BY <1>1
  <2> HIDE DEF F, rets
  <2> QED  BY <2>1, <2>2 DEF ToSet
<1> HIDE DEF F
<1>4. Local(stack', prog, Func)
  BY <1>1, <1>3, LocalOne
<1>5. WarnedBefore' /\ WarnsOnce'
  BY <1>1 DEF WarnInv, WarnedBefore, WarnsOnce
<1> QED  BY <1>1, <1>2, <1>4, <1>5 DEF WarnInv

LEMMA NextWarns == ASSUME IInv, WarnInv, [Next]_vars  PROVE WarnInv'
<1>1. CASE UNCHANGED vars
  <2>1. Func' = Func
    BY <1>1 DEF vars, Func
  <2> QED  BY <1>1, <2>1 DEF vars, WarnInv, WarnsOnce, WarnedBefore
<1> QED
  BY <1>1, TracingWarns, ErrorfWarns, ReturnWarns, FinishWarns, StartWarns DEF Next, Done

\* A call of fmt.Errorf that loses an error's identity is warned about once in
\* the whole run, whatever results, callers and cycles lead to it, although
\* warnedNoWrap is forgotten with every function (trace.go:655-667).
THEOREM WarnedOnce == Spec => []WarnsOnce
<1>1. Init => WarnInv
  BY LocalEmpty DEF Init, WarnInv, WarnsOnce, WarnedBefore
<1>2. IInv /\ WarnInv /\ [Next]_vars => WarnInv'
  BY NextWarns
<1>3. WarnInv => WarnsOnce
  BY DEF WarnInv
<1> QED  BY <1>1, <1>2, <1>3, Invariance, PTL DEF Spec

-----------------------------------------------------------------------------
(* Implementations.                                                        *)

LEMMA DeclaredFound ==
  ASSUME NEW pk, NEW i \in pk.ifaces, NEW d \in pk.decls, d.blank, d.type = i
  PROVE  d.value \in lookupImpls(pk, i)
<1>1. <<i, d.value>> \in implsFromAssertions(pk)
  BY DEF implsFromAssertions
<1> QED  BY <1>1 DEF lookupImpls, buildInterfaceImpls

\* Without RTA, the types of the scope are the candidates.
LEMMA ScopeFound ==
  ASSUME NEW pk, NEW i \in pk.ifaces \cap pk.scope, pk.rtaPanics, pk.val[i] # {},
         NEW t \in Implementers(pk, i), t.name \in pk.scope
  PROVE  t \in lookupImpls(pk, i) \/ Value(t.name) \in lookupImpls(pk, i)
<1>1. PICK n \in Names(pk) \ pk.ifaces : t \in {Value(n), Pointer(n)}
  BY DEF Implementers, TypesOf
<1>2. t.name = n /\ Implements(pk, t, i)
  BY <1>1 DEF Value, Pointer, Implementers
<1>3. Value(n) \in collectConcreteCandidates(pk)
  BY <1>1, <1>2 DEF collectConcreteCandidates, collectRuntimeConcreteTypes
<1>4. \A s \in Satisfying(pk, Value(n), i) : s \in lookupImpls(pk, i)
  <2> SUFFICES ASSUME NEW s \in Satisfying(pk, Value(n), i)  PROVE s \in lookupImpls(pk, i)
    OBVIOUS
  <2>1. i \in {j \in pk.scope \cap pk.ifaces : pk.val[j] # {}}
    OBVIOUS
  <2> DEFINE found(j, c) == {<<j, x>> : x \in Satisfying(pk, c, j)}
  <2>2. <<i, s>> \in found(i, Value(n))
    OBVIOUS
  <2>3. implsFromAutoDiscovery(pk) =
          UNION {found(j, c) : j \in {j \in pk.scope \cap pk.ifaces : pk.val[j] # {}},
                               c \in collectConcreteCandidates(pk)}
    BY DEF implsFromAutoDiscovery
  <2> HIDE DEF found
  <2>4. <<i, s>> \in implsFromAutoDiscovery(pk)
    BY <1>3, <2>1, <2>2, <2>3
  <2> QED  BY <2>4 DEF lookupImpls, buildInterfaceImpls
<1>5. CASE Implements(pk, Value(n), i)
  BY <1>2, <1>4, <1>5 DEF Satisfying
<1>6. CASE ~Implements(pk, Value(n), i)
  <2>1. t = Pointer(n)
    BY <1>1, <1>2, <1>6
  <2>2. Satisfying(pk, Value(n), i) = {t}
    BY <1>2, <1>6, <2>1 DEF Satisfying, Value
  <2> QED  BY <1>4, <2>2
<1> QED  BY <1>5, <1>6

\* What the analyzer takes for an interface's implementations satisfies it, and
\* neither a declaration nor, without RTA, a type of the scope is missing
\* (impls.go:18-31, 156-161; rta.go:38-47).
THEOREM ImplementationsExact == Spec => []ImplsExact
<1>1. IInv => ImplsExact
  <2> SUFFICES ASSUME IInv, NEW i \in prog.pk.ifaces
               PROVE  LET found == lookupImpls(prog.pk, i) IN
                      /\ \A t \in found : Implements(prog.pk, t, i)
                      /\ \A d \in prog.pk.decls : d.blank /\ d.type = i => d.value \in found
                      /\ prog.pk.rtaPanics /\ i \in prog.pk.scope /\ prog.pk.val[i] # {} =>
                           \A t \in Implementers(prog.pk, i) :
                             t.name \in prog.pk.scope => t \in found \/ Value(t.name) \in found
    BY DEF ImplsExact
  <2>1. PackageOK(prog.pk)
    BY ProgramFacts DEF WellFormed
  <2>2. \A t \in lookupImpls(prog.pk, i) : Implements(prog.pk, t, i)
    BY <2>1, LookedUpImplements
  <2> QED  BY <2>2, DeclaredFound, ScopeFound
<1> QED  BY <1>1, Invariance, PTL

\* Of every call of fmt.Errorf in a program, the scan finds the argument that
\* fmt wraps first (unwrap.go:127-161).
THEOREM VerbsFound == Spec => []VerbExact
<1>1. IInv => VerbExact
  <2> SUFFICES ASSUME IInv, NEW v \in Values, prog.instr[v].op = "Errorf"
               PROVE  LET wrapped == WrappedBy(prog.instr[v].means)
                      IN  findWVerbIndex(prog.instr[v].format)
                            = IF wrapped = {} THEN -1 ELSE Min(wrapped)
    BY DEF VerbExact
  <2>1. prog.instr[v].means \in Seq(Directives)
        /\ prog.instr[v].format = Format(prog.instr[v].means)
    BY ProgramsAssumption DEF IInv, WellFormed
  <2> QED  BY <2>1, VerbFound
<1> QED  BY <1>1, Invariance, PTL
=============================================================================
