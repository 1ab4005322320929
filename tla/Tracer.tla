------------------------------- MODULE Tracer -------------------------------
(***************************************************************************)
(* The analyzer's run over one package: function after function, it traces *)
(* the returned error values back through the SSA form to the sentinels    *)
(* they may be, and exports what it found as a fact for later callers.     *)
(*                                                                         *)
(* traceValue's recursion is the stack: a frame holds the values that one  *)
(* call has left to trace and the sentinels collected so far.  A program p *)
(* has                                                                     *)
(*   instr[v]     the instruction that defines value v                     *)
(*   fn[f]        [rets, body, err, obj, known]: the error results of its  *)
(*                returns, whether it has a body, an error result and an   *)
(*                object, and its entry in the known table ({}: none)      *)
(*   home[v]      the function of v                                        *)
(*   order        SrcFuncs, in source order                                *)
(*   facts        those of the packages it imports                         *)
(*   stores       of functions into globals, in BuildGlobalFuncMap's order *)
(*   pk, method   its types, and the functions of an invoked method        *)
(*   names        the string a type is printed as                          *)
(***************************************************************************)
EXTENDS Integers, Sequences, FiniteSets, FiniteSetsExt, WrapVerb, InterfaceImpls

CONSTANTS
  Values, Funcs, Sentinels,
  NoFunc,
  MaxTraceDepth,        \* maxTraceDepth, 5
  Programs,
  May(_)                \* May(p): sentinels that values and functions may yield

\* The ops whose result is that of all their arguments.
PassOps == {"UnOp", "ChangeInterface", "Phi", "LoadAlloc"}
\* Those that concreteTypesFromInterfaceValue follows.
FlowOps == {"ChangeInterface", "Phi", "LoadAlloc"}

VARIABLES
  prog,                 \* the program
  next,                 \* index in prog.order of the function at hand
  stack,                \* frames of traceValue and sentinelFromCallee, top first
  visitedFuncs,         \* of the run of collectSentinels
  warnedNoWrap,         \* of the same
  facts,                \* SentinelFacts, {} for none
  lines,                \* per-concrete diagnostics
  warnings,             \* warnings[v]: diagnostics about the Errorf call v
  work                  \* history: values traced for the function at hand

vars == <<prog, next, stack, visitedFuncs, warnedNoWrap, facts, lines, warnings, work>>

-----------------------------------------------------------------------------
(* What the instructions stand for.                                        *)

sentinelFromGlobal(x) == IF x.package /\ x.prefixErr THEN {x.sentinel} ELSE {}

customErrorType(x) ==
  IF x.named /\ x.exported /\ x.isError /\ ~x.primitive THEN {x.sentinel} ELSE {}

\* The last function stored into the global, in any function and then in init.
BuildGlobalFuncMap(p, g) ==
  LET at == {i \in DOMAIN p.stores : p.stores[i].global = g /\ p.stores[i].func # NoFunc}
  IN  {p.stores[i].func : i \in {j \in at : \A k \in at : k <= j}}

\* StaticCallee, or resolveIndirectCallee: one function or none.
Callee(p, call) ==
  CASE call.kind = "static" -> {call.func}
    [] call.kind = "global" -> BuildGlobalFuncMap(p, call.global)
    [] OTHER -> {}

\* The values an interface value is assembled from.
Flow(p, v) ==
  LET reached[n \in Nat] ==
        IF n = 0 THEN {v}
        ELSE reached[n-1] \cup
               UNION {ToSet(p.instr[u].args) :
                        u \in {w \in reached[n-1] : p.instr[w].op \in FlowOps}}
  IN  reached[Cardinality(Values)]

concreteTypesFromInterfaceValue(p, v) ==
  {p.instr[u].type : u \in {w \in Flow(p, v) : p.instr[w].op = "MakeInterface"}}

concreteCandidatesForInvoke(p, call) ==
  UNION {Satisfying(p.pk, t, call.iface) :
           t \in {c \in concreteTypesFromInterfaceValue(p, call.recv) : ~IsInterface(p.pk, c)}}

\* The types whose methods an invoke is taken to call.
Concretes(p, call) ==
  LET candidates == concreteCandidatesForInvoke(p, call)
  IN  IF candidates # {} THEN candidates ELSE lookupImpls(p.pk, call.iface)

\* The table's method keys are all of pointer types.
knownMethodSentinels(p, t) == IF t.ptr THEN p.fn[p.method[t.name]].known ELSE {}

\* Methods are only looked up, never traced.
sentinelsForConcreteMethod(p, fs, t) ==
  LET m == p.method[t.name] IN
    IF m = NoFunc THEN {}
    ELSE IF knownMethodSentinels(p, t) # {} THEN knownMethodSentinels(p, t)
    ELSE fs[m]

\* What sentinelFromInvoke answers below the depth limit; `known` is the
\* interface method's own entry (context.Context.Err, io.Reader.Read).
sentinelFromInvoke(p, fs, call) ==
  IF call.known # {} THEN call.known
  ELSE UNION {sentinelsForConcreteMethod(p, fs, t) : t \in Concretes(p, call)}

Invokes(p, f) ==
  {v \in Values : p.home[v] = f /\ p.instr[v].op = "Call" /\ p.instr[v].call.kind = "invoke"
                  /\ p.instr[v].call.known = {}}

\* collectInvokeBreakdown, keyed by the printed type.
Breakdown(p, fs, f) ==
  LET via == {vt \in Invokes(p, f) \X TypesOf(Names(p.pk)) :
                vt[2] \in Concretes(p, p.instr[vt[1]].call)}
  IN  [c \in {p.names[vt[2]] : vt \in via} |->
         UNION {sentinelsForConcreteMethod(p, fs, vt[2]) :
                  vt \in {wt \in via : p.names[wt[2]] = c}}]

-----------------------------------------------------------------------------
Func == prog.order[next]
Top  == Head(stack)
Rest == Tail(stack)
V    == Head(Top.todo)
X    == prog.instr[V]

\* `visited` of the context that V is traced in: sentinelFromCallee and
\* collectSentinels, whose frames are fresh, make a new one for each result.
Visited == IF Top.fresh THEN {} ELSE Top.visited

Frame(todo, depth, fresh, visited, alt) ==
  [todo |-> todo, depth |-> depth, fresh |-> fresh, visited |-> visited,
   found |-> {}, alt |-> alt]

\* V is given an answer at once.
Answer(found) ==
  /\ stack' = <<[Top EXCEPT !.todo = Tail(@), !.found = @ \cup found,
                            !.visited = Visited \cup {V}]>> \o Rest
  /\ work' = work + 1

\* V is given the answers of `todo`, or if they are none, `alt`.
MutantNotMarked(todo, fresh, alt) ==
  /\ stack' = <<Frame(todo, Top.depth + 1, fresh, IF fresh THEN {} ELSE Visited, alt),
                [Top EXCEPT !.todo = Tail(@), !.visited = Visited]>> \o Rest
  /\ work' = work + 1
MutantSameDepth(todo, fresh, alt) ==
  /\ stack' = <<Frame(todo, Top.depth, fresh,
                      IF fresh THEN {} ELSE Visited \cup {V}, alt),
                [Top EXCEPT !.todo = Tail(@), !.visited = Visited \cup {V}]>> \o Rest
  /\ work' = work + 1
Descend(todo, fresh, alt) ==
  /\ stack' = <<Frame(todo, Top.depth + 1, fresh,
                      IF fresh THEN {} ELSE Visited \cup {V}, alt),
                [Top EXCEPT !.todo = Tail(@), !.visited = Visited \cup {V}]>> \o Rest
  /\ work' = work + 1

\* In traceValue(V).
Tracing == stack # <<>> /\ Top.todo # <<>>
MutantNoLimit == Tracing /\ V \notin Visited
MutantStopsEarly == Tracing /\ Top.depth < MaxTraceDepth /\ V \notin Visited
Open == Tracing /\ Top.depth <= MaxTraceDepth /\ V \notin Visited

Init ==
  /\ prog \in Programs
  /\ next = 1
  /\ stack = <<>>
  /\ visitedFuncs = {} /\ warnedNoWrap = {}
  /\ facts = prog.facts
  /\ lines = {}
  /\ warnings = [v \in Values |-> 0]
  /\ work = 0

\* run: a function without a body or an error result is passed over.
SkipFunction ==
  /\ stack = <<>> /\ next <= Len(prog.order)
  /\ ~(prog.fn[Func].body /\ prog.fn[Func].err)
  /\ next' = next + 1
  /\ UNCHANGED <<prog, stack, visitedFuncs, warnedNoWrap, facts, lines, warnings, work>>

\* collectSentinels begins.
StartFunction ==
  /\ stack = <<>> /\ next <= Len(prog.order)
  /\ prog.fn[Func].body /\ prog.fn[Func].err
  /\ stack' = <<Frame(prog.fn[Func].rets, 0, TRUE, {}, {})>>
  /\ visitedFuncs' = {Func}
  /\ warnedNoWrap' = {}
  /\ work' = 0
  /\ UNCHANGED <<prog, next, facts, lines, warnings>>

\* Beyond the limit, or seen before.
CutValue ==
  /\ Tracing /\ ~Open
  /\ stack' = <<[Top EXCEPT !.todo = Tail(@),
                            !.visited = Visited]>> \o Rest
  /\ UNCHANGED <<prog, next, visitedFuncs, warnedNoWrap, facts, lines, warnings, work>>

TraceGlobal ==
  /\ Open /\ X.op = "Global"
  /\ Answer(sentinelFromGlobal(X))
  /\ UNCHANGED <<prog, next, visitedFuncs, warnedNoWrap, facts, lines, warnings>>

\* Constants, parameters and all that traceValue does not know.
TraceOther ==
  /\ Open /\ X.op = "Other"
  /\ Answer({})
  /\ UNCHANGED <<prog, next, visitedFuncs, warnedNoWrap, facts, lines, warnings>>

TracePass ==
  /\ Open /\ X.op \in PassOps
  /\ Descend(X.args, FALSE, {})
  /\ UNCHANGED <<prog, next, visitedFuncs, warnedNoWrap, facts, lines, warnings>>

TraceMakeInterface ==
  /\ Open /\ X.op = "MakeInterface"
  /\ Descend(X.args, FALSE, customErrorType(X))
  /\ UNCHANGED <<prog, next, visitedFuncs, warnedNoWrap, facts, lines, warnings>>

\* reportNoWrapFmtErrorf reports in the function at hand, not in its callees.
Reporting == \A i \in 1..(Len(stack) - 1) : ~stack[i].fresh

MutantWarnsAgain == Reporting
Warns == Reporting /\ V \notin warnedNoWrap

TraceErrorf ==
  /\ Open /\ X.op = "Errorf"
  /\ IF fmtErrorfWrappedArg(X) # <<>>
     THEN Descend(fmtErrorfWrappedArg(X), FALSE, {})
     ELSE Answer({})
  /\ IF fmtErrorfLosesIdentity(X) /\ Warns
     THEN /\ warnedNoWrap' = warnedNoWrap \cup {V}
          /\ warnings' = [warnings EXCEPT ![V] = @ + 1]
     ELSE UNCHANGED <<warnedNoWrap, warnings>>
  /\ UNCHANGED <<prog, next, visitedFuncs, facts, lines>>

\* The known entry of f, or else its fact.
Summary(fs, f) ==
  IF prog.fn[f].known # {} THEN prog.fn[f].known
  ELSE IF prog.fn[f].obj THEN fs[f] ELSE {}

\* sentinelFromCallee at depth + 1.
TraceCall ==
  /\ Open /\ X.op = "Call"
  /\ \E f \in Callee(prog, X.call) :
       IF \/ Summary(facts, f) # {}
          \/ Top.depth + 1 > MaxTraceDepth \/ ~prog.fn[f].body \/ f \in visitedFuncs
       THEN Answer(Summary(facts, f)) /\ UNCHANGED visitedFuncs
       ELSE Descend(prog.fn[f].rets, TRUE, {}) /\ visitedFuncs' = visitedFuncs \cup {f}
  /\ UNCHANGED <<prog, next, warnedNoWrap, facts, lines, warnings>>

TraceInvoke ==
  /\ Open /\ X.op = "Call" /\ X.call.kind = "invoke"
  /\ Answer(IF Top.depth + 1 > MaxTraceDepth THEN {}
            ELSE sentinelFromInvoke(prog, facts, X.call))
  /\ UNCHANGED <<prog, next, visitedFuncs, warnedNoWrap, facts, lines, warnings>>

\* A function value that cannot be resolved.
TraceDynamic ==
  /\ Open /\ X.op = "Call" /\ X.call.kind # "invoke" /\ Callee(prog, X.call) = {}
  /\ Answer({})
  /\ UNCHANGED <<prog, next, visitedFuncs, warnedNoWrap, facts, lines, warnings>>

\* A call of traceValue or sentinelFromCallee is over.
Return ==
  /\ stack # <<>> /\ Rest # <<>> /\ Top.todo = <<>>
  /\ LET caller == Head(Rest) IN
       stack' = <<[caller EXCEPT
                     !.found = @ \cup (IF Top.found # {} THEN Top.found ELSE Top.alt),
                     !.visited = IF Top.fresh THEN @ ELSE Top.visited]>> \o Tail(Rest)
  /\ UNCHANGED <<prog, next, visitedFuncs, warnedNoWrap, facts, lines, warnings, work>>

\* The diagnostics of the types that have sentinels, when there are several.
Reported(f, breakdown) ==
  LET some == {c \in DOMAIN breakdown : breakdown[c] # {}}
  IN  IF Cardinality(some) > 1
      THEN {[func |-> f, type |-> c, sentinels |-> breakdown[c]] : c \in some} ELSE {}

FinishFunction ==
  /\ stack # <<>> /\ Rest = <<>> /\ Top.todo = <<>>
  /\ facts' = IF Top.found # {} /\ prog.fn[Func].obj
              THEN [facts EXCEPT ![Func] = Top.found] ELSE facts
  /\ lines' = lines \cup Reported(Func, Breakdown(prog, facts, Func))
  /\ stack' = <<>>
  /\ next' = next + 1
  /\ UNCHANGED <<prog, visitedFuncs, warnedNoWrap, warnings, work>>

\* run returns.
Done ==
  /\ stack = <<>> /\ next > Len(prog.order)
  /\ UNCHANGED vars

Next ==
  \/ SkipFunction \/ StartFunction \/ CutValue \/ TraceGlobal \/ TraceOther \/ TracePass
  \/ TraceMakeInterface \/ TraceErrorf \/ TraceCall \/ TraceInvoke \/ TraceDynamic
  \/ Return \/ FinishFunction \/ Done

Spec == Init /\ [][Next]_vars

-----------------------------------------------------------------------------
(* What a value or a function may yield, whatever is traced first or not   *)
(* at all: an assignment may, [val, fn], that is closed under the program. *)

\* An interface value that may hold what no MakeInterface in sight put there.
Opaque(p, v) ==
  \/ \E u \in Flow(p, v) :
       IF p.instr[u].op \in FlowOps THEN p.instr[u].args = <<>>
       ELSE p.instr[u].op # "MakeInterface"
  \/ concreteTypesFromInterfaceValue(p, v) = {}

PossibleTypes(p, call) ==
  concreteTypesFromInterfaceValue(p, call.recv)
    \cup (IF Opaque(p, call.recv) THEN Implementers(p.pk, call.iface) ELSE {})

\* The functions a call may enter: a variable holds any that was stored in it.
Called(p, call) ==
  (CASE call.kind = "static" -> {call.func}
     [] call.kind = "global" -> {p.stores[i].func : i \in {j \in DOMAIN p.stores : p.stores[j].global = call.global}}
     [] call.kind = "invoke" -> {p.method[t.name] : t \in PossibleTypes(p, call)}
     [] OTHER -> {}) \ {NoFunc}

\* fmt wraps every argument with a %w.
Wrapped(x) ==
  ToSet(fmtErrorfWrappedArg(x)) \cup
    {x.args[k+1] : k \in {i \in WrappedBy(x.means) : ~x.spread /\ i < Len(x.args)}}

Yields(p, may, v) ==
  LET x == p.instr[v] IN
    CASE x.op = "Global"        -> sentinelFromGlobal(x)
      [] x.op \in PassOps       -> UNION {may.val[a] : a \in ToSet(x.args)}
      [] x.op = "MakeInterface" -> customErrorType(x) \cup UNION {may.val[a] : a \in ToSet(x.args)}
      [] x.op = "Errorf"        -> UNION {may.val[a] : a \in Wrapped(x)}
      [] x.op = "Call"          -> x.call.known \cup UNION {may.fn[f] : f \in Called(p, x.call)}
      [] OTHER                  -> {}

FuncYields(p, may, f) ==
  p.fn[f].known \cup p.facts[f] \cup UNION {may.val[v] : v \in ToSet(p.fn[f].rets)}

Closed(p, may) ==
  /\ \A v \in Values : Yields(p, may, v) \subseteq may.val[v]
  /\ \A f \in Funcs : FuncYields(p, may, f) \subseteq may.fn[f]

ASSUME LimitAssumption == MaxTraceDepth \in Nat
ASSUME NoFuncAssumption == NoFunc \notin Funcs
ASSUME FiniteAssumption == IsFiniteSet(Values) /\ IsFiniteSet(Funcs)

\* A value that a function computes, unlike globals, constants and parameters.
Computed(p, v) == p.instr[v].op \notin {"Global", "Other"}

\* What the compiler and the SSA builder see to: SrcFuncs has no function
\* twice, and what an instruction computes is used in its function only; and a
\* format is written from what it means.
WellFormed(p) ==
  /\ p.order \in Seq(Funcs)
  /\ p.facts \in [Funcs -> SUBSET Sentinels]
  /\ \A f \in Funcs : p.fn[f].rets \in Seq(Values)
  /\ \A v \in Values : p.instr[v].args \in Seq(Values)
  /\ \A i, j \in DOMAIN p.order : p.order[i] = p.order[j] => i = j
  /\ \A f \in Funcs : \A v \in ToSet(p.fn[f].rets) : Computed(p, v) => p.home[v] = f
  /\ \A v \in Values : \A a \in ToSet(p.instr[v].args) :
       Computed(p, v) /\ Computed(p, a) => p.home[a] = p.home[v]
  /\ \A i \in DOMAIN p.stores : i \in Nat /\ p.stores[i].func \in Funcs \cup {NoFunc}
  /\ p.method \in [Names(p.pk) -> Funcs \cup {NoFunc}]
  /\ \A n \in p.pk.ifaces : p.method[n] = NoFunc
  /\ PackageOK(p.pk)
  /\ \A v \in Values : p.instr[v].op = "Errorf" =>
       LET x == p.instr[v] IN x.means \in Seq(Directives) /\ x.format = Format(x.means)
  /\ \A v \in Values : p.instr[v].op = "Call" =>
       LET call == p.instr[v].call IN
         /\ call.kind = "static" => call.func \in Funcs
         /\ call.kind # "invoke" => call.known = {}
         /\ call.kind = "invoke" =>
              /\ call.iface \in Names(p.pk)
              /\ \A t \in concreteTypesFromInterfaceValue(p, call.recv) :
                   t \in TypesOf(Names(p.pk)) /\ ~IsInterface(p.pk, t) /\ Implements(p.pk, t, call.iface)

ASSUME ProgramsAssumption == \A p \in Programs : WellFormed(p)

ASSUME MayAssumption ==
  \A p \in Programs :
    /\ May(p).val \in [Values -> SUBSET Sentinels] /\ May(p).fn \in [Funcs -> SUBSET Sentinels]
    /\ Closed(p, May(p))

-----------------------------------------------------------------------------
(* Properties.                                                             *)

Frames ==
  [todo : Seq(Values), depth : 0..(MaxTraceDepth + 1), fresh : BOOLEAN,
   visited : SUBSET Values, found : SUBSET Sentinels, alt : SUBSET Sentinels]

TypeOK ==
  /\ next \in 1..(Len(prog.order) + 1)
  /\ stack \in Seq(Frames)
  /\ visitedFuncs \subseteq Funcs /\ warnedNoWrap \subseteq Values
  /\ facts \in [Funcs -> SUBSET Sentinels]
  /\ warnings \in [Values -> Nat] /\ work \in Nat

\* Mutual recursion, closures and cycles of Phi nodes do not exhaust the Go
\* stack: a call is one deeper than its caller and there are no more of them
\* than the limit allows (trace.go:30, 226).
DepthBounded ==
  /\ Len(stack) <= MaxTraceDepth + 2
  /\ \A i \in DOMAIN stack : stack[i].depth = Len(stack) - i

\* The values that tracing the results of f may come to.
Traceable(p, f) ==
  ToSet(p.fn[f].rets) \cup
    UNION {ToSet(p.instr[v].args) : v \in {u \in Values : Computed(p, u) /\ p.home[u] = f}}

\* One for each error result of f and each value.
Slots(p, f) == ({f} \X DOMAIN p.fn[f].rets) \X Traceable(p, f)

\* `visited` and visitedFuncs keep the search linear: for each error result of
\* each function reached, none of the function's values is traced twice, however
\* many paths lead to it (trace.go:33, 232, 256).
LinearWork == work <= Cardinality(UNION {Slots(prog, f) : f \in visitedFuncs})

\* A fact holds only sentinels that some return of the function may yield:
\* nothing leaks from one call, context or function into another.
Sound == \A f \in Funcs : facts[f] \subseteq May(prog).fn[f]

\* Few enough computed values for no path to be cut.
Small == Cardinality({v \in Values : Computed(prog, v)}) <= MaxTraceDepth

\* Its calls of fmt.Errorf wrap one argument, its calls enter what is looked up.
Seen ==
  \A v \in Values :
    LET x == prog.instr[v] IN
      /\ x.op = "Errorf" => Cardinality(WrappedBy(x.means)) <= 1 /\ ~x.spread
      /\ x.op = "Call" =>
           /\ Called(prog, x.call) =
                (IF x.call.kind = "invoke" THEN {prog.method[t.name] : t \in Concretes(prog, x.call)} \ {NoFunc}
                 ELSE Callee(prog, x.call))
           /\ x.call.known # {} => Called(prog, x.call) = {}

\* The sentinels that are never dropped for others: the type of a value that
\* carries sentinels is not one itself (trace.go:54-64).
Shown ==
  {s \in Sentinels :
     \A v \in Values :
       prog.instr[v].op = "MakeInterface" /\ s \in customErrorType(prog.instr[v])
         => \A a \in ToSet(prog.instr[v].args) : May(prog).val[a] = {}}
Expected(f) == May(prog).fn[f] \cap Shown

\* All is known of the functions of other packages, and nothing yet of this one's.
ImportsComplete ==
  \A f \in Funcs :
    IF prog.fn[f].body THEN prog.fn[f].known = {} /\ prog.facts[f] = {}
    ELSE Expected(f) \subseteq Summary(prog.facts, f)

\* The functions that are traced with f, unless there is a fact of them.
CalledFrom(p, f) ==
  {g \in Funcs :
     \A S \in SUBSET Funcs :
       /\ f \in S
       /\ \A v \in Values : p.home[v] \in S /\ p.instr[v].op = "Call" => Callee(p, p.instr[v].call) \subseteq S
       => g \in S}

Exports(f) == prog.fn[f].body /\ prog.fn[f].err /\ prog.fn[f].obj

\* Up to function i, the methods that are invoked come before the functions that
\* invoke them, also through others, or are of other packages.
MethodsFirst(i) ==
  \A j \in 1..i :
    \A v \in UNION {Invokes(prog, f) : f \in CalledFrom(prog, prog.order[j])} :
      \A t \in Concretes(prog, prog.instr[v].call) :
        LET m == prog.method[t.name] IN
          m # NoFunc =>
            \/ Exports(m) /\ \E k \in 1..(j - 1) : prog.order[k] = m
            \/ /\ \A k \in DOMAIN prog.order : prog.order[k] # m
               /\ Expected(m) \subseteq sentinelsForConcreteMethod(prog, prog.facts, t)

\* The order of the search and what it marks as visited lose nothing: where no
\* path is as long as the limit and the invoked methods come first, the fact of
\* a function has every sentinel it may return (trace.go:27-28, 291-294).
Complete ==
  stack = <<>> /\ Small /\ Seen /\ ImportsComplete =>
    \A i \in 1..(next - 1) :
      Exports(prog.order[i]) /\ MethodsFirst(i)
        => Expected(prog.order[i]) \subseteq facts[prog.order[i]]

\* A call of fmt.Errorf that loses an error's identity is reported once,
\* however many results and callers lead to it (trace.go:655-667).
WarnsOnce == \A v \in Values : warnings[v] <= 1

\* The scan finds the argument that fmt would wrap first, past flags, widths
\* taken from arguments and %% (unwrap.go:127-161), in formats without explicit
\* argument indexes.
VerbExact ==
  \A v \in {u \in Values : prog.instr[u].op = "Errorf"} :
    LET wrapped == WrappedBy(prog.instr[v].means)
    IN  findWVerbIndex(prog.instr[v].format) = (IF wrapped = {} THEN -1 ELSE Min(wrapped))

\* An interface's implementations are types that satisfy it; a declaration is
\* never lost, nor, when RTA fails, is any type of the scope (impls.go:18-31,
\* 156-161; rta.go:38-47).
ImplsExact ==
  \A i \in prog.pk.ifaces :
    LET found == lookupImpls(prog.pk, i) IN
      /\ \A t \in found : Implements(prog.pk, t, i)
      /\ \A d \in prog.pk.decls : d.blank /\ d.type = i => d.value \in found
      /\ prog.pk.rtaPanics /\ i \in prog.pk.scope /\ prog.pk.val[i] # {} =>
           \A t \in Implementers(prog.pk, i) :
             t.name \in prog.pk.scope => t \in found \/ Value(t.name) \in found

\* A diagnostic "f returns sentinels via T" names sentinels that f may return:
\* the analyzer "reports sentinel errors a function may return"
\* (analyzer.go:18, 76, 105).
ViaReturned == \A l \in lines : l.sentinels \subseteq May(prog).fn[l.func]
=============================================================================
