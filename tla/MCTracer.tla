------------------------------ MODULE MCTracer ------------------------------
(* Tracer over families of small programs, each with its least May.        *)
EXTENDS Tracer, TLC

MCValues == 1..8

Op(op, args) == [op |-> op, args |-> args]
Other == Op("Other", <<>>)
Phi(args) == Op("Phi", args)
Glob(s) == Op("Global", <<>>) @@ [package |-> TRUE, prefixErr |-> TRUE, sentinel |-> s]
Make(t, args, isError) ==
  Op("MakeInterface", args) @@
    [type |-> t, named |-> TRUE, exported |-> TRUE, isError |-> isError, primitive |-> FALSE,
     sentinel |-> "T"]
Errorf(ds, args, spread) ==
  Op("Errorf", args) @@ [means |-> ds, format |-> Format(ds), spread |-> spread]
CallOf(call) == Op("Call", <<>>) @@ [call |-> call @@ [known |-> {}]]
Static(f) == CallOf([kind |-> "static", func |-> f])
Wrap == <<[verb |-> "w", mods |-> <<>>]>>

Fn(rets) == [rets |-> rets, body |-> TRUE, err |-> TRUE, obj |-> TRUE, known |-> {}]
External(known) == [rets |-> <<>>, body |-> FALSE, err |-> TRUE, obj |-> TRUE, known |-> known]

TypeNames == {"A", "B", "I", "J"}
Pk(val, ptr, scope, decls, runtime, panics) ==
  [val |-> val @@ [I |-> {"M"}, J |-> {"M", "N"}], ptr |-> ptr @@ [I |-> {}, J |-> {}],
   ifaces |-> {"I", "J"}, scope |-> scope, decls |-> decls, runtime |-> runtime,
   rtaPanics |-> panics]
NoPk == Pk([A |-> {}, B |-> {}], [A |-> {"M"}, B |-> {"M", "N"}], {}, {}, {}, FALSE)

\* A function for each name of fn, the others external; `instr` for some values.
Program(instr, home, fn, order) ==
  [instr |-> instr @@ [v \in Values |-> Other],
   home |-> home @@ [v \in Values |-> "f"],
   fn |-> fn @@ [f \in Funcs |-> External({})],
   order |-> order,
   facts |-> [f \in Funcs |-> {}],
   stores |-> <<>>,
   pk |-> NoPk,
   method |-> [A |-> "g", B |-> "h", I |-> NoFunc, J |-> NoFunc],
   names |-> [t \in TypesOf(TypeNames) |-> t]]

-----------------------------------------------------------------------------
\* Graphs of Phi nodes and loads, with cycles and shared nodes.
Graphs ==
  {Program((1 :> Phi(<<2, a>>)) @@ (2 :> b) @@ (3 :> c) @@ (4 :> Glob("E1")) @@
             (5 :> Make(Pointer("A"), <<m>>, TRUE)) @@ (6 :> Glob("E2")),
           <<>>, "f" :> Fn(rets), <<"f">>) :
     a \in {1, 3, 4},
     b \in {Phi(<<1, 3>>), Phi(<<3, 1, 5>>), Op("LoadAlloc", <<3, 2>>), Errorf(Wrap, <<1>>, FALSE)},
     c \in {Phi(<<2, 4>>), Phi(<<5, 1>>), Op("LoadAlloc", <<>>), Errorf(Wrap, <<2>>, FALSE),
            Op("ChangeInterface", <<5>>)},
     m \in {6, 7}, rets \in {<<1>>, <<2, 1>>, <<3, 1, 3>>}}

\* Three functions that call each other, h being of several kinds.
Kinds ==
  {[fn |-> Fn(<<5, 6>>), facts |-> {}, first |-> i] : i \in {Static("g"), Glob("E1")}}
    \cup {[fn |-> [Fn(<<5, 6>>) EXCEPT !.obj = FALSE], facts |-> {}, first |-> Static("f")],
          [fn |-> External({"E2"}), facts |-> {}, first |-> Other],
          [fn |-> External({}), facts |-> {"T"}, first |-> Other],
          [fn |-> [Fn(<<5>>) EXCEPT !.err = FALSE, !.obj = FALSE], facts |-> {}, first |-> CallOf([kind |-> "dynamic"])]}

Variable == CallOf([kind |-> "global", global |-> "G"])
Store(f) == [global |-> "G", func |-> f]

Calls ==
  {[Program((1 :> Static(a)) @@ (2 :> b) @@ (3 :> Static(c)) @@ (4 :> d) @@ (5 :> k.first) @@
              (6 :> IF k.fn.body THEN Glob("T") ELSE Other),
            (3 :> "g") @@ (4 :> "g") @@ (5 :> "h") @@ (6 :> "h"),
            [f |-> Fn(<<1, 2>>), g |-> Fn(<<4, 3>>), h |-> k.fn], run.order)
     EXCEPT !.facts["h"] = k.facts, !.stores = run.stores] :
     a \in {"f", "g", "h"}, b \in {Static("h"), Glob("E1"), Variable},
     c \in {"f", "h"}, d \in {Static("f"), Glob("E2"), Variable},
     k \in Kinds,
     run \in {[order |-> <<"f", "g", "h">>, stores |-> <<Store("g"), Store(NoFunc)>>],
              [order |-> <<"h", "g", "f">>, stores |-> <<Store("g"), Store("h")>>]}}

\* Calls through interfaces, with what is known of their implementations.
Packages ==
  {pk \in {Pk([A |-> {}, B |-> b], [A |-> {"M"}, B |-> {"M", "N"}], scope, decls, rta[1], rta[2]) :
             b \in {{}, {"M", "N"}},
             scope \in {{"A", "B", "I", "J"}, {"B", "I"}},
             decls \in {{}, {[blank |-> TRUE, type |-> "I", value |-> Pointer("A")]},
                        {[blank |-> FALSE, type |-> "J", value |-> Pointer("B")],
                         [blank |-> TRUE, type |-> "J", value |-> Value("B")]}},
             rta \in {<<{}, FALSE>>, <<{Pointer("A")}, FALSE>>, <<{Value("B"), Value("I")}, FALSE>>,
                      <<{Value("I"), Pointer("A")}, TRUE>>}} :
     PackageOK(pk)}

Invoke(iface, known) ==
  Op("Call", <<>>) @@
    [call |-> [kind |-> "invoke", recv |-> 2, iface |-> iface, known |-> known]]
Received ==
  ({Other, Phi(<<2, 4>>), Op("LoadAlloc", <<>>)} \X {Other})
    \cup ({Phi(<<3, 4>>)} \X {Other, Make(Pointer("B"), <<7>>, FALSE)})
Runs ==
  {<<<<1>>, <<"g", "h", "f">>>>, <<<<1>>, <<"h", "f", "g">>>>, <<<<7>>, <<"g", "h", "f">>>>}

ThroughInterfaces ==
  {[Program((1 :> call) @@ (2 :> recv[1]) @@ (3 :> recv[2]) @@
              (4 :> Make(Pointer("B"), <<8>>, FALSE)) @@ (5 :> Glob("E1")) @@ (6 :> Glob("E2")),
            (5 :> "g") @@ (6 :> "h"),
            [f |-> Fn(run[1]), g |-> Fn(<<5>>), h |-> Fn(<<6>>)], run[2]) EXCEPT !.pk = pk] :
     call \in {Invoke("I", {}), Invoke("J", {})}, recv \in Received, run \in Runs, pk \in Packages}
    \cup {Program((1 :> Invoke("I", {"T"})) @@ (5 :> Glob("E1")), 5 :> "g",
                  [f |-> Fn(<<1>>), g |-> Fn(<<5>>)], <<"g", "f">>)}

\* Formats of fmt.Errorf, in a function that is called too.
Mods == {<<>>, <<"0">>, <<"*">>, <<"0", "*">>, <<"*", "0">>, <<"*", "0", "*">>}
Verbs == {d \in [verb : {"text", "%", "v", "w"}, mods : Mods] : d \in Directives}
Some == {d \in Verbs : Len(d.mods) = Stars(d) /\ Stars(d) + (IF d.verb \in {"v", "w"} THEN 0 ELSE 1) < 2}
Means == {<<d>> : d \in Verbs} \cup (Verbs \X Verbs) \cup (Some \X Some \X Some)
Given(ds, missing) ==
  [i \in 1..(Taken(ds)[Len(ds)] - missing) |-> 3 + (i % 2)]

Formats ==
  {Program((1 :> Errorf(ds, Given(ds, missing), FALSE)) @@ (2 :> Phi(<<1, 3>>)) @@
             (3 :> Glob("E1")) @@ (4 :> Glob("E2")) @@ (5 :> Static("f")),
           5 :> "g", [f |-> Fn(<<1, 2>>), g |-> Fn(<<5>>)], <<"g", "f">>) :
     ds \in Means, missing \in {0}}
    \cup
  {Program((1 :> Errorf(ds, Given(ds, missing), spread)) @@ (3 :> Glob("E1")) @@ (4 :> Glob("E2")),
           <<>>, "f" :> Fn(<<1>>), <<"f">>) :
     ds \in {<<d>> : d \in {e \in Verbs : Consumes(e) > 0}}, missing \in 0..1, spread \in BOOLEAN}

\* Paths as long as the limit or longer, with another way in, perhaps in two functions.
Chain(n, other, last, cut) ==
  [v \in 1..n |->
     CASE v = n     -> Glob("E1")
       [] v = cut   -> Static("g")
       [] v = 1     -> Phi(other)
       [] v = n - 1 -> Phi(last)
       [] OTHER     -> Op("ChangeInterface", <<v + 1>>)]
Chains ==
  UNION {{Program(Chain(n, other, last, cut),
                  IF cut = 0 THEN <<>> ELSE [v \in (cut + 1)..n |-> "g"],
                  [f |-> Fn(<<1>>), g |-> Fn(IF cut = 0 THEN <<>> ELSE <<cut + 1>>)], <<"f", "g">>) :
            other \in IF cut = 0 THEN {<<2>>, <<2, 4>>, <<4, 2>>} ELSE {<<2>>},
            last \in {<<n>>, <<n - 2, n>>}} : n \in 6..8, cut \in {0, 2}}

\* A function that calls one whose method comes late or is of another package,
\* the invoke at the end of a path perhaps.
Later ==
  {[Program((1 :> Static("g")) @@ (2 :> Make(Pointer("B"), <<8>>, FALSE)) @@
              (3 :> IF path = 0 THEN Invoke("I", {}) ELSE Phi(<<4>>)) @@
              [v \in 4..(3 + path) |-> IF v = 3 + path THEN Invoke("I", {}) ELSE Phi(<<v + 1>>)] @@
              (7 :> Glob("E1")) @@ (8 :> IF "h" \in ToSet(order) THEN Glob("E2") ELSE Other),
            (1 :> "f") @@ (8 :> "h") @@ [v \in 2..7 |-> "g"],
            [f |-> Fn(<<1>>), g |-> Fn(<<3, 7>>)] @@
              [h |-> IF "h" \in ToSet(order) THEN Fn(<<8>>) ELSE External({})], order)
    EXCEPT !.facts["h"] = IF "h" \in ToSet(order) THEN {} ELSE {"E2"}] :
     path \in {0, 2, 3},
     order \in {<<"g", "h", "f">>, <<"h", "g", "f">>, <<"f", "h", "g">>, <<"f", "g">>, <<"g", "f">>}}

-----------------------------------------------------------------------------
RECURSIVE Least(_, _)
Least(p, may) ==
  LET val == [v \in Values |-> Yields(p, may, v)]
      fn  == [f \in Funcs |-> FuncYields(p, [may EXCEPT !.val = val], f)]
  IN  IF val = may.val /\ fn = may.fn THEN may ELSE Least(p, [val |-> val, fn |-> fn])
Nothing == [val |-> [v \in Values |-> {}], fn |-> [f \in Funcs |-> {}]]

MCPrograms ==
  {p @@ [may |-> Least(p, Nothing)] : p \in Graphs \cup Calls \cup ThroughInterfaces \cup Formats \cup Chains
                                                    \cup Later}
MCMay(p) == p.may
=============================================================================
