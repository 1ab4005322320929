--------------------------- MODULE InterfaceImpls ---------------------------
(***************************************************************************)
(* Which types may be behind an interface (analyzer/impls.go, rta.go and   *)
(* the receiver's part of trace.go).  A package pk:                        *)
(*   val, ptr      the methods of each named type n, and of *n             *)
(*   ifaces        which of them are interfaces                            *)
(*   scope         those it or a package it imports declares               *)
(*   decls         its typed variables [blank, type, value]                *)
(*   runtime       the types RTA finds converted to an interface           *)
(*   rtaPanics     whether RTA panics on it                                *)
(***************************************************************************)
EXTENDS Naturals, FiniteSets

Value(n)   == [name |-> n, ptr |-> FALSE]
Pointer(n) == [name |-> n, ptr |-> TRUE]
TypesOf(names) == {Value(n) : n \in names} \cup {Pointer(n) : n \in names}

Names(pk) == DOMAIN pk.val
MethodSet(pk, t) == IF t.ptr THEN pk.ptr[t.name] ELSE pk.val[t.name]
IsInterface(pk, t) == ~t.ptr /\ t.name \in pk.ifaces
Implements(pk, t, i) == pk.val[i] \subseteq MethodSet(pk, t)

\* A type that satisfies i, or else its pointer type when that one does.
MutantNoPointer(pk, t, i) == IF Implements(pk, t, i) THEN {t} ELSE {}
Satisfying(pk, t, i) ==
  IF Implements(pk, t, i) THEN {t}
  ELSE IF ~t.ptr /\ Implements(pk, Pointer(t.name), i) THEN {Pointer(t.name)}
  ELSE {}

collectRuntimeConcreteTypes(pk) ==
  IF pk.rtaPanics THEN {} ELSE {t \in pk.runtime : ~IsInterface(pk, t)}

\* The names of the scope, when RTA has nothing to say.
collectConcreteCandidates(pk) ==
  LET runtime == collectRuntimeConcreteTypes(pk) IN
    IF runtime # {} THEN runtime ELSE {Value(n) : n \in pk.scope \ pk.ifaces}

implsFromAssertions(pk) ==
  {<<d.type, d.value>> : d \in {e \in pk.decls : e.blank /\ e.type \in pk.ifaces}}

implsFromAutoDiscovery(pk) ==
  UNION {{<<i, s>> : s \in Satisfying(pk, c, i)} :
           i \in {j \in pk.scope \cap pk.ifaces : pk.val[j] # {}}, c \in collectConcreteCandidates(pk)}

buildInterfaceImpls(pk) == implsFromAssertions(pk) \cup implsFromAutoDiscovery(pk)

\* Interfaces with the same methods share their implementations.
MutantFewerMethods(pk, i) ==
  {impl[2] : impl \in {e \in buildInterfaceImpls(pk) : pk.val[e[1]] \subseteq pk.val[i]}}
lookupImpls(pk, i) ==
  {impl[2] : impl \in {e \in buildInterfaceImpls(pk) : e[1] = i \/ pk.val[e[1]] = pk.val[i]}}

-----------------------------------------------------------------------------
(* What interfaces mean.                                                   *)

\* Declarations are checked by the compiler; no method is declared on a pointer
\* to an interface.
PackageOK(pk) ==
  /\ \A d \in pk.decls : d.value \in TypesOf(Names(pk))
                          /\ (d.type \in pk.ifaces => Implements(pk, d.value, d.type))
  /\ pk.runtime \subseteq TypesOf(Names(pk)) /\ pk.scope \subseteq Names(pk)
  /\ \A n \in pk.ifaces : pk.ptr[n] = {}

Implementers(pk, i) ==
  {t \in TypesOf(Names(pk) \ pk.ifaces) : Implements(pk, t, i)}
=============================================================================
