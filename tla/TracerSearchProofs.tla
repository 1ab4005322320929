------------------------- MODULE TracerSearchProofs -------------------------
(***************************************************************************)
(* Proofs that the tracer's search is linear and that it is complete.      *)
(*                                                                         *)
(* Linear: every value traced for the function at hand is charged to a     *)
(* slot: the function whose frame it was in, which of that function's      *)
(* results was being traced, and the value.  The set T of slots charged    *)
(* has as many members as `work` counts, because no slot is charged twice. *)
(*                                                                         *)
(* Complete: the values traced so far and those still to be traced contain *)
(* all that the search has to follow, no value is expanded below itself,   *)
(* and no sentinel in a frame is dropped for another.  When the last frame *)
(* is left, what was found is closed under the program.                    *)
(***************************************************************************)
EXTENDS TracerProofs, FiniteSetTheorems

\* The stack by depth, its top at the end.
Levels(s) == [d \in 0..(Len(s) - 1) |-> s[Len(s) - d]]

\* A value that f traces is among its own.
Owned(p, f, v) == v \in Traceable(p, f) /\ (Computed(p, v) => p.home[v] = f)

\* The values charged to result k of f are in S.
Marked(T, f, k, S) == \A t \in T : t[1] = <<f, k>> => t[2] \in S

\* A frame of f at its k-th result.
FrameOK(p, frame, f, k, T) ==
  /\ frame \in Frames
  /\ \A j \in DOMAIN frame.todo : Owned(p, f, frame.todo[j])
  /\ k \in Nat
  /\ frame.fresh => /\ k + Len(frame.todo) = Len(p.fn[f].rets)
                    /\ \A t \in T : t[1][1] = f => t[1][2] <= k
  /\ ~frame.fresh => k \in DOMAIN p.fn[f].rets

AllSlots(p, vf) == UNION {Slots(p, f) : f \in vf}

\* Of n levels L, level d is one of own[d] at its result cur[d]: each function's
\* levels are next to each other, a fresh one and then those it calls.
Charged(p, n, L, own, cur, T, vf) ==
  /\ T \subseteq AllSlots(p, vf)
  /\ \A d \in 0..(n - 1) : own[d] \in vf /\ FrameOK(p, L[d], own[d], cur[d], T)
  /\ \A d \in 0..(n - 1) : ~L[d].fresh => d > 0 /\ own[d] = own[d-1]
  /\ \A d \in 0..(n - 1) : \A e \in 0..(d - 1) :
       own[e] = own[d] => cur[e] = cur[d] /\ \A k \in (e + 1)..d : ~L[k].fresh
  /\ \A d \in 0..(n - 1) :
       ~L[d].fresh /\ (d = n - 1 \/ L[d+1].fresh) => Marked(T, own[d], cur[d], L[d].visited)

Counted(T) == IsFiniteSet(T) /\ Cardinality(T) = work

WorkInv ==
  \E T : /\ Counted(T)
         /\ \E own, cur : Charged(prog, Len(stack), Levels(stack), own, cur, T, visitedFuncs)

-----------------------------------------------------------------------------
(* Slots.                                                                  *)

LEMMA SlotsFinite ==
  ASSUME NEW p, WellFormed(p), NEW vf \in SUBSET Funcs
  PROVE  IsFiniteSet(AllSlots(p, vf))
<1>1. ASSUME NEW f \in vf  PROVE IsFiniteSet(Slots(p, f))
  <2>1. p.fn[f].rets \in Seq(Values) /\ \A v \in Values : p.instr[v].args \in Seq(Values)
    BY DEF WellFormed
  <2>2. Traceable(p, f) \subseteq Values
    BY <2>1 DEF Traceable, ToSet
  <2>3. IsFiniteSet(Traceable(p, f))
    BY <2>2, FS_Subset, FiniteAssumption
  <2>4. DOMAIN p.fn[f].rets = 1..Len(p.fn[f].rets) /\ Len(p.fn[f].rets) \in Int
    BY <2>1
  <2>5. IsFiniteSet(DOMAIN p.fn[f].rets)
    BY <2>4, FS_Interval
  <2>6. IsFiniteSet({f} \X DOMAIN p.fn[f].rets)
    BY <2>5, FS_Singleton, FS_Product
  <2> QED  BY <2>3, <2>6, FS_Product DEF Slots
<1> DEFINE SS == {Slots(p, f) : f \in vf}
           g == [f \in vf |-> Slots(p, f)]
<1>2. IsFiniteSet(vf)
  BY FS_Subset, FiniteAssumption
<1>3. g \in Surjection(vf, SS)
  BY DEF Surjection
<1>4. IsFiniteSet(SS)
  BY <1>2, <1>3, FS_Surjection
<1>5. \A S \in SS : IsFiniteSet(S)
  BY <1>1
<1> HIDE DEF SS
<1>6. IsFiniteSet(UNION SS)
  BY <1>4, <1>5, FS_UNION
<1> QED  BY <1>6 DEF AllSlots, SS

LEMMA SlotIn ==
  ASSUME NEW p, NEW vf, NEW f \in vf, NEW k \in DOMAIN p.fn[f].rets, NEW v \in Traceable(p, f)
  PROVE  <<<<f, k>>, v>> \in AllSlots(p, vf)
BY DEF AllSlots, Slots

LEMMA SlotOf ==
  ASSUME NEW p, WellFormed(p), NEW vf \in SUBSET Funcs, NEW t \in AllSlots(p, vf)
  PROVE  t[1][1] \in vf /\ t[1][2] \in Nat /\ t[1] = <<t[1][1], t[1][2]>>
<1>1. PICK f \in vf : t \in Slots(p, f)
  BY DEF AllSlots
<1>2. DOMAIN p.fn[f].rets \subseteq Nat
  BY DEF WellFormed
<1> QED  BY <1>1, <1>2 DEF Slots

-----------------------------------------------------------------------------
(* Steps of the stack, by depth.                                           *)

\* With the n-th level F, or with x for the n-th.
Put(L, n, F) == [d \in 0..(n - 1) |-> IF d = n - 1 THEN F ELSE L[d]]
Set(g, n, x) == [d \in Nat |-> IF d = n - 1 THEN x ELSE g[d]]

\* The result a frame is at once it takes its next value, and what it has seen then.
Upto(frame, k) == IF frame.fresh THEN k + 1 ELSE k
SeenBy(frame) == IF frame.fresh THEN {} ELSE frame.visited

\* A frame of f takes its next value and becomes G: it charges the value, or cuts it.
Takes(frame, G, f, k, T, U) ==
  /\ frame.todo # <<>> /\ G \in Frames /\ G.fresh = frame.fresh /\ G.todo = Tail(frame.todo)
  /\ \/ U = T /\ SeenBy(frame) \subseteq G.visited
     \/ /\ U = T \cup {<<<<f, Upto(frame, k)>>, Head(frame.todo)>>}
        /\ SeenBy(frame) \cup {Head(frame.todo)} \subseteq G.visited

LEMMA Advance ==
  ASSUME NEW p, WellFormed(p), NEW n \in Nat \ {0}, NEW L, NEW own, NEW cur, NEW T,
         NEW vf \in SUBSET Funcs,
         Charged(p, n, L, own, cur, T, vf),
         NEW G, NEW U, Takes(L[n-1], G, own[n-1], cur[n-1], T, U)
  PROVE  /\ Charged(p, n, Put(L, n, G), own, Set(cur, n, Upto(L[n-1], cur[n-1])), U, vf)
         /\ Marked(U, own[n-1], Upto(L[n-1], cur[n-1]), G.visited)
         /\ Upto(L[n-1], cur[n-1]) \in DOMAIN p.fn[own[n-1]].rets
         /\ Owned(p, own[n-1], Head(L[n-1].todo))
         /\ Head(L[n-1].todo) \notin SeenBy(L[n-1]) =>
              <<<<own[n-1], Upto(L[n-1], cur[n-1])>>, Head(L[n-1].todo)>> \notin T
<1> DEFINE M == Put(L, n, G)
           k == Upto(L[n-1], cur[n-1])
           now == Set(cur, n, k)
           seen == SeenBy(L[n-1])
<1>0. /\ L[n-1].todo # <<>> /\ G \in Frames /\ G.fresh = L[n-1].fresh /\ G.todo = Tail(L[n-1].todo)
      /\ M = [d \in 0..(n - 1) |-> IF d = n - 1 THEN G ELSE L[d]]
      /\ k = IF G.fresh THEN cur[n-1] + 1 ELSE cur[n-1]
      /\ now = [d \in Nat |-> IF d = n - 1 THEN k ELSE cur[d]]
      /\ seen = IF G.fresh THEN {} ELSE L[n-1].visited
      /\ \/ U = T /\ seen \subseteq G.visited
         \/ U = T \cup {<<<<own[n-1], k>>, Head(L[n-1].todo)>>}
            /\ seen \cup {Head(L[n-1].todo)} \subseteq G.visited
  BY DEF Takes, Put, Set, Upto, SeenBy
<1> HIDE DEF M, k, now, seen
<1> USE <1>0
<1> DEFINE v == Head(L[n-1].todo)
           f == own[n-1]
           slot == <<<<f, k>>, v>>
<1>1. n - 1 \in 0..(n - 1) /\ n - 1 \in Nat
  OBVIOUS
<1>2. f \in vf /\ FrameOK(p, L[n-1], f, cur[n-1], T)
  BY <1>1 DEF Charged
<1>3. L[n-1].todo \in Seq(Values) /\ L[n-1].fresh \in BOOLEAN /\ cur[n-1] \in Nat
  BY <1>2 DEF FrameOK, Frames
<1>4. /\ 1 \in DOMAIN L[n-1].todo /\ v = L[n-1].todo[1]
      /\ Len(L[n-1].todo) \in Nat \ {0} /\ Len(G.todo) = Len(L[n-1].todo) - 1
      /\ \A j \in DOMAIN G.todo : j + 1 \in DOMAIN L[n-1].todo /\ G.todo[j] = L[n-1].todo[j+1]
  BY <1>3
<1>5. Owned(p, f, v) /\ \A j \in DOMAIN G.todo : Owned(p, f, G.todo[j])
  BY <1>2, <1>4 DEF FrameOK
<1> HIDE DEF v, f, slot
<1>6. k \in Nat /\ k \in DOMAIN p.fn[f].rets
  <2>2. CASE G.fresh
    <3>1. cur[n-1] + Len(L[n-1].todo) = Len(p.fn[f].rets) /\ k = cur[n-1] + 1
      BY <1>2, <2>2 DEF FrameOK
    <3>2. k \in 1..Len(p.fn[f].rets)
      BY <1>3, <1>4, <3>1
    <3> QED  BY <3>2
  <2>3. CASE ~G.fresh
    BY <1>2, <1>3, <2>3 DEF FrameOK
  <2> QED  BY <2>2, <2>3
<1>7. slot \in AllSlots(p, vf)
  BY <1>2, <1>5, <1>6, SlotIn DEF Owned, slot
<1>8. \A t \in U : t = slot \/ t \in T
  BY DEF slot, f, v
<1>9. \A t \in T : t[1] = <<f, k>> => t[2] \in seen /\ ~G.fresh
  <2> SUFFICES ASSUME NEW t \in T, t[1] = <<f, k>>  PROVE t[2] \in seen /\ ~G.fresh
    OBVIOUS
  <2>1. CASE G.fresh
    <3>1. t[1][1] = f /\ t[1][2] = cur[n-1] + 1
      BY <2>1
    <3>2. t[1][2] <= cur[n-1]
      BY <1>2, <2>1, <3>1 DEF FrameOK
    <3> QED  BY <1>3, <3>1, <3>2
  <2>2. CASE ~G.fresh
    <3>1. Marked(T, f, k, L[n-1].visited)
      BY <1>1, <2>2 DEF Charged, f
    <3> QED  BY <2>2, <3>1 DEF Marked
  <2> QED  BY <2>1, <2>2
<1>10. Marked(U, f, k, G.visited)
  BY SMTT(40), <1>8, <1>9 DEF Marked
<1>11. v \notin seen => slot \notin T
  BY <1>9 DEF slot
<1>12. U \subseteq AllSlots(p, vf)
  BY <1>7, <1>8 DEF Charged
<1>13. FrameOK(p, G, f, k, U)
  <2>1. CASE G.fresh
    <3>1. k + Len(G.todo) = Len(p.fn[f].rets)
      <4>1. cur[n-1] + Len(L[n-1].todo) = Len(p.fn[f].rets) /\ k = cur[n-1] + 1
        BY <1>2, <2>1 DEF FrameOK
      <4>2. Len(L[n-1].todo) \in Nat /\ Len(G.todo) = Len(L[n-1].todo) - 1 /\ cur[n-1] \in Nat
        BY <1>3, <1>4
      <4> HIDE DEF f
      <4> DEFINE a == cur[n-1]
                 b == Len(L[n-1].todo)
                 c == Len(p.fn[f].rets)
                 g == Len(G.todo)
      <4>3. a \in Nat /\ b \in Nat /\ a + b = c /\ k = a + 1 /\ g = b - 1
        BY <4>1, <4>2
      <4> HIDE DEF a, b, c, g
      <4>4. k + g = c
        BY ONLY <4>3
      <4> QED  BY <4>4 DEF c, g
    <3>2. \A t \in T : t[1][1] = f => t[1][2] <= cur[n-1]
      BY <1>2, <2>1 DEF FrameOK
    <3>3. \A t \in T : t[1][2] \in Nat
      BY SlotOf DEF Charged
    <3>4. \A t \in T : t[1][1] = f => t[1][2] <= k
      BY <1>3, <2>1, <3>2, <3>3
    <3>5. slot[1][1] = f /\ slot[1][2] = k /\ k <= k
      BY <1>6 DEF slot
    <3> QED  BY <1>5, <1>6, <1>8, <2>1, <3>1, <3>4, <3>5 DEF FrameOK
  <2>2. CASE ~G.fresh
    BY <1>5, <1>6, <2>2 DEF FrameOK
  <2> QED  BY <2>1, <2>2
<1>14. ASSUME NEW d \in 0..(n - 2)
       PROVE  M[d] = L[d] /\ now[d] = cur[d] /\ d # n - 1 /\ d \in 0..(n - 1) /\ M[d].fresh = L[d].fresh
  BY <1>1
<1>15. M[n-1] = G /\ now[n-1] = k
  BY <1>1
<1>16. \A d \in 0..(n - 1) : d = n - 1 \/ d \in 0..(n - 2)
  OBVIOUS
<1>17. \A d \in 0..(n - 1) : M[d].fresh = L[d].fresh
  BY <1>14, <1>15, <1>16
\* Below the top, levels of f are not fresh, nor the ones above them.
<1>18. ASSUME NEW d \in 0..(n - 2), own[d] = f
       PROVE  ~L[d+1].fresh /\ cur[d] = cur[n-1] /\ ~G.fresh
  <2>1. d \in 0..((n - 1) - 1) /\ d + 1 \in (d + 1)..(n - 1) /\ n - 1 \in (d + 1)..(n - 1)
    BY <1>1
  <2>2. cur[d] = cur[n-1] /\ \A j \in (d + 1)..(n - 1) : ~L[j].fresh
    BY <1>1, <1>18, <2>1 DEF Charged, f
  <2> QED  BY <2>1, <2>2
<1>19. ASSUME NEW d \in 0..(n - 1)  PROVE own[d] \in vf /\ FrameOK(p, M[d], own[d], now[d], U)
  <2>1. CASE d = n - 1
    BY <1>2, <1>13, <1>15, <2>1 DEF f
  <2>2. CASE d \in 0..(n - 2)
    <3>1. own[d] \in vf /\ FrameOK(p, L[d], own[d], cur[d], T)
      BY <1>14, <2>2 DEF Charged
    <3>2. \A t \in U : t[1][1] = own[d] => t \in T \/ t[1][2] <= cur[d]
      <4> SUFFICES ASSUME NEW t \in U, t[1][1] = own[d], t \notin T  PROVE t[1][2] <= cur[d]
        OBVIOUS
      <4>1. t[1][1] = f /\ t[1][2] = k
        BY <1>8 DEF slot
      <4>2. k = cur[d]
        BY <1>18, <2>2, <4>1
      <4> QED  BY <1>6, <4>1, <4>2
    <3> QED  BY <1>14, <2>2, <3>1, <3>2 DEF FrameOK
  <2> QED  BY <1>16, <2>1, <2>2
<1>20. ASSUME NEW d \in 0..(n - 1), ~M[d].fresh  PROVE d > 0 /\ own[d] = own[d-1]
  BY <1>17, <1>20 DEF Charged
<1>21. ASSUME NEW d \in 0..(n - 1), NEW e \in 0..(d - 1), own[e] = own[d]
       PROVE  now[e] = now[d] /\ \A j \in (e + 1)..d : ~M[j].fresh
  <2>1. cur[e] = cur[d] /\ \A j \in (e + 1)..d : ~L[j].fresh
    BY <1>21 DEF Charged
  <2>2. \A j \in (e + 1)..d : j \in 0..(n - 1)
    OBVIOUS
  <2>3. e \in 0..(n - 2)
    OBVIOUS
  <2>4. now[e] = now[d]
    <3>1. CASE d = n - 1
      BY <1>14, <1>15, <1>18, <1>21, <2>1, <2>3, <3>1 DEF f
    <3>2. CASE d \in 0..(n - 2)
      BY <1>14, <2>1, <2>3, <3>2
    <3> QED  BY <1>16, <3>1, <3>2
  <2> QED  BY <1>17, <2>1, <2>2, <2>4
<1>22. ASSUME NEW d \in 0..(n - 1), ~M[d].fresh, d = n - 1 \/ M[d+1].fresh
       PROVE  Marked(U, own[d], now[d], M[d].visited)
  <2>1. CASE d = n - 1
    BY <1>10, <1>15, <2>1 DEF f
  <2>2. CASE d \in 0..(n - 2)
    <3>1. d + 1 \in 0..(n - 1) /\ L[d+1].fresh /\ ~L[d].fresh
      BY <1>17, <1>22, <2>2
    <3>2. own[d] # f
      BY <1>18, <2>2, <3>1
    <3>3. Marked(T, own[d], cur[d], L[d].visited)
      BY <1>14, <2>2, <3>1 DEF Charged
    <3>4. \A t \in U : t[1] = <<own[d], cur[d]>> => t \in T
      BY <1>8, <3>2 DEF slot
    <3> QED  BY <1>14, <2>2, <3>3, <3>4 DEF Marked
  <2> QED  BY <1>16, <2>1, <2>2
<1>23. Charged(p, n, M, own, now, U, vf)
  BY <1>12, <1>19, <1>20, <1>21, <1>22 DEF Charged
<1> QED  BY ONLY <1>5, <1>6, <1>10, <1>11, <1>23 DEF v, f, slot, M, k, now, seen

\* A frame F is put on top, of the top's function at the same result, or of a
\* function that was not entered before.
LEMMA PushOn ==
  ASSUME NEW p, NEW n \in Nat, NEW L, NEW own, NEW cur, NEW T, NEW vf, NEW wf,
         Charged(p, n, L, own, cur, T, vf), vf \subseteq wf,
         NEW F, NEW f \in wf, NEW k, FrameOK(p, F, f, k, T),
         F.fresh => f \notin vf,
         ~F.fresh => n > 0 /\ f = own[n-1] /\ k = cur[n-1] /\ Marked(T, f, k, F.visited)
  PROVE  Charged(p, n + 1, Put(L, n + 1, F), Set(own, n + 1, f), Set(cur, n + 1, k), T, wf)
<1> DEFINE M  == Put(L, n + 1, F)
           of == Set(own, n + 1, f)
           at == Set(cur, n + 1, k)
<1>0. /\ M = [d \in 0..n |-> IF d = n THEN F ELSE L[d]]
      /\ of = [d \in Nat |-> IF d = n THEN f ELSE own[d]]
      /\ at = [d \in Nat |-> IF d = n THEN k ELSE cur[d]]
  <2>1. (n + 1) - 1 = n
    OBVIOUS
  <2> QED  BY <2>1 DEF Put, Set
<1> HIDE DEF M, of, at
<1> USE <1>0
<1>1. \A d \in 0..n : d = n \/ d \in 0..(n - 1)
  OBVIOUS
<1>2. /\ M[n] = F /\ of[n] = f /\ at[n] = k
      /\ \A d \in 0..(n - 1) : M[d] = L[d] /\ of[d] = own[d] /\ at[d] = cur[d]
  OBVIOUS
<1>3. (n + 1) - 1 = n
  OBVIOUS
<1>4. T \subseteq AllSlots(p, wf)
  BY DEF Charged, AllSlots
<1>5. ASSUME NEW d \in 0..n  PROVE of[d] \in wf /\ FrameOK(p, M[d], of[d], at[d], T)
  <2>1. CASE d = n
    BY <1>2, <2>1
  <2>2. CASE d \in 0..(n - 1)
    BY <1>2, <2>2 DEF Charged
  <2> QED  BY <1>1, <2>1, <2>2
<1>6. ASSUME NEW d \in 0..n, ~M[d].fresh  PROVE d > 0 /\ of[d] = of[d-1]
  <2>1. CASE d = n
    BY <1>2, <1>6, <2>1
  <2>2. CASE d \in 0..(n - 1)
    <3>1. d > 0 /\ own[d] = own[d-1]
      BY <1>2, <1>6, <2>2 DEF Charged
    <3>2. d - 1 \in 0..(n - 1)
      BY <2>2, <3>1
    <3> QED  BY <1>2, <2>2, <3>1, <3>2
  <2> QED  BY <1>1, <2>1, <2>2
<1>7. ASSUME NEW d \in 0..n, NEW e \in 0..(d - 1), of[e] = of[d]
      PROVE  at[e] = at[d] /\ \A j \in (e + 1)..d : ~M[j].fresh
  <2>1. e \in 0..(n - 1)
    OBVIOUS
  <2>2. ASSUME NEW c \in 0..(n - 1), e < c, own[e] = own[c]
        PROVE  cur[e] = cur[c] /\ \A j \in (e + 1)..c : ~M[j].fresh
    <3>1. e \in 0..(c - 1)
      BY <2>1, <2>2
    <3>2. cur[e] = cur[c] /\ \A j \in (e + 1)..c : ~L[j].fresh
      BY <2>2, <3>1 DEF Charged
    <3>3. \A j \in (e + 1)..c : j \in 0..(n - 1)
      BY <2>1, <2>2
    <3> QED  BY <1>2, <3>2, <3>3
  <2>3. CASE d \in 0..(n - 1)
    <3>1. e < d /\ own[e] = own[d]
      BY <1>2, <1>7, <2>1, <2>3
    <3>2. cur[e] = cur[d] /\ \A j \in (e + 1)..d : ~M[j].fresh
      BY <2>2, <2>3, <3>1
    <3> QED  BY <1>2, <2>1, <2>3, <3>2
  <2>4. CASE d = n
    <3>1. ~F.fresh
      <4>1. own[e] \in vf /\ own[e] = f
        BY <1>2, <1>7, <2>1, <2>4 DEF Charged
      <4> QED  BY <4>1
    <3>2. n > 0 /\ f = own[n-1] /\ k = cur[n-1] /\ n - 1 \in 0..(n - 1)
      BY <3>1
    <3>3. own[e] = own[n-1]
      BY <1>2, <1>7, <2>1, <2>4, <3>2
    <3>4. cur[e] = cur[n-1] /\ \A j \in (e + 1)..(n - 1) : ~M[j].fresh
      <4>1. CASE e = n - 1
        BY <4>1
      <4>2. CASE e < n - 1
        BY <2>2, <3>2, <3>3, <4>2
      <4>3. e = n - 1 \/ e < n - 1
        BY <2>1
      <4> QED  BY <4>1, <4>2, <4>3
    <3>5. \A j \in (e + 1)..n : j = n \/ j \in (e + 1)..(n - 1)
      BY <2>1
    <3> QED  BY <1>2, <2>1, <2>4, <3>1, <3>2, <3>4, <3>5
  <2> QED  BY <1>1, <2>3, <2>4
<1>8. ASSUME NEW d \in 0..n, ~M[d].fresh, d = n \/ M[d+1].fresh
      PROVE  Marked(T, of[d], at[d], M[d].visited)
  <2>1. CASE d = n
    BY <1>2, <1>8, <2>1
  <2>2. CASE d \in 0..(n - 1)
    <3>1. d = n - 1 \/ d + 1 \in 0..(n - 1)
      BY <2>2
    <3>2. d = n - 1 \/ L[d+1].fresh
      BY <1>2, <1>8, <2>2, <3>1
    <3> QED  BY <1>2, <1>8, <2>2, <3>2 DEF Charged
  <2> QED  BY <1>1, <2>1, <2>2
<1>9. Charged(p, n + 1, M, of, at, T, wf)
  BY <1>3, <1>4, <1>5, <1>6, <1>7, <1>8 DEF Charged
<1> QED  BY ONLY <1>9 DEF M, of, at

\* The top returns to the frame below, which takes over what it visited.
LEMMA PopTo ==
  ASSUME NEW p, NEW n \in Nat, n > 1, NEW L, NEW own, NEW cur, NEW T, NEW vf,
         Charged(p, n, L, own, cur, T, vf),
         NEW G \in Frames, G.fresh = L[n-2].fresh, G.todo = L[n-2].todo,
         G.visited = (IF L[n-1].fresh THEN L[n-2].visited ELSE L[n-1].visited)
  PROVE  Charged(p, n - 1, Put(L, n - 1, G), own, cur, T, vf)
<1> DEFINE M == Put(L, n - 1, G)
<1>0. M = [d \in 0..(n - 2) |-> IF d = n - 2 THEN G ELSE L[d]]
  <2>1. (n - 1) - 1 = n - 2
    OBVIOUS
  <2> QED  BY <2>1 DEF Put
<1> HIDE DEF M
<1> USE <1>0
<1>1. /\ (n - 1) - 1 = n - 2 /\ n - 2 \in 0..(n - 2)
      /\ \A d \in 0..(n - 2) : d \in 0..(n - 1) /\ (d = n - 2 \/ d + 1 \in 0..(n - 2))
  OBVIOUS
<1>2. \A d \in 0..(n - 2) : M[d].fresh = L[d].fresh /\ M[d].todo = L[d].todo /\ (d # n - 2 => M[d] = L[d])
  BY <1>1
<1>3. ASSUME NEW d \in 0..(n - 2)  PROVE own[d] \in vf /\ FrameOK(p, M[d], own[d], cur[d], T)
  <2>1. own[d] \in vf /\ FrameOK(p, L[d], own[d], cur[d], T)
    BY <1>1 DEF Charged
  <2>2. M[d] \in Frames
    BY <2>1 DEF FrameOK
  <2> QED  BY <1>2, <2>1, <2>2 DEF FrameOK
<1>4. ASSUME NEW d \in 0..(n - 2), NEW e \in 0..(d - 1), own[e] = own[d]
      PROVE  cur[e] = cur[d] /\ \A j \in (e + 1)..d : ~M[j].fresh
  <2>1. cur[e] = cur[d] /\ \A j \in (e + 1)..d : ~L[j].fresh
    BY <1>1, <1>4 DEF Charged
  <2>2. \A j \in (e + 1)..d : j \in 0..(n - 2)
    OBVIOUS
  <2> QED  BY <1>2, <2>1, <2>2
<1>5. ASSUME NEW d \in 0..(n - 2), ~M[d].fresh, d = n - 2 \/ M[d+1].fresh
      PROVE  Marked(T, own[d], cur[d], M[d].visited)
  <2>1. CASE d # n - 2
    <3>1. L[d+1].fresh /\ ~L[d].fresh /\ M[d] = L[d] /\ d \in 0..(n - 1)
      BY <1>1, <1>2, <1>5, <2>1
    <3> QED  BY <3>1 DEF Charged
  <2>2. CASE d = n - 2
    <3>1. M[d].visited = G.visited /\ d + 1 = n - 1 /\ ~L[d].fresh /\ d \in 0..(n - 1) /\ n - 1 \in 0..(n - 1)
      BY <1>1, <1>2, <1>5, <2>2
    <3>2. CASE L[n-1].fresh
      <4>1. Marked(T, own[d], cur[d], L[d].visited)
        BY <3>1, <3>2 DEF Charged
      <4> QED  BY <2>2, <3>1, <3>2, <4>1
    <3>3. CASE ~L[n-1].fresh
      <4>1. Marked(T, own[n-1], cur[n-1], L[n-1].visited)
        BY <3>1, <3>3 DEF Charged
      <4>2. own[n-1] = own[(n-1)-1] /\ (n - 1) - 1 = d /\ d \in 0..((n - 1) - 1)
        BY <2>2, <3>1, <3>3 DEF Charged
      <4>3. cur[d] = cur[n-1]
        BY <3>1, <4>2 DEF Charged
      <4> QED  BY <3>1, <3>3, <4>1, <4>2, <4>3
    <3> QED  BY <3>2, <3>3
  <2> QED  BY <2>1, <2>2
<1>6. \A d \in 0..(n - 2) : ~M[d].fresh => d > 0 /\ own[d] = own[d-1]
  BY <1>1, <1>2 DEF Charged
<1>7. T \subseteq AllSlots(p, vf)
  BY DEF Charged
<1>8. Charged(p, n - 1, M, own, cur, T, vf)
  BY <1>1, <1>3, <1>4, <1>5, <1>6, <1>7 DEF Charged
<1> QED  BY ONLY <1>8 DEF M

LEMMA LevelsReplace ==
  ASSUME NEW S, NEW s \in Seq(S), s # <<>>, NEW F \in S, NEW t, t = <<F>> \o Tail(s)
  PROVE  /\ Len(t) = Len(s)
         /\ Levels(t) = Put(Levels(s), Len(s), F)
<1>1. Len(s) \in Nat \ {0} /\ Len(t) = Len(s) /\ t[1] = F /\ \A i \in 2..Len(s) : t[i] = s[i]
  OBVIOUS
<1>2. ASSUME NEW d \in 0..(Len(s) - 1)
      PROVE  t[Len(s)-d] = IF d = Len(s) - 1 THEN F ELSE s[Len(s)-d]
  <2>1. CASE d = Len(s) - 1
    BY <1>1, <2>1
  <2>2. CASE d # Len(s) - 1
    <3>1. Len(s) - d \in 2..Len(s)
      <4>1. Len(s) \in Nat \ {0}
        BY <1>1
      <4> QED  BY ONLY <2>2, <4>1, d \in 0..(Len(s) - 1)
    <3> QED  BY <1>1, <2>2, <3>1
  <2> QED  BY <2>1, <2>2
<1> QED  BY <1>1, <1>2 DEF Levels, Put

LEMMA LevelsPush ==
  ASSUME NEW s \in Seq(Frames), s # <<>>, NEW F \in Frames, NEW G \in Frames
  PROVE  /\ Len(<<F, G>> \o Tail(s)) = Len(s) + 1
         /\ Levels(<<F, G>> \o Tail(s)) = Put(Put(Levels(s), Len(s), G), Len(s) + 1, F)
<1> DEFINE t == <<F, G>> \o Tail(s)
           r == <<G>> \o Tail(s)
<1>1. Len(s) \in Nat \ {0} /\ Len(t) = Len(s) + 1 /\ t[1] = F /\ \A i \in 2..Len(t) : t[i] = r[i-1]
  <2>1. Len(s) \in Nat \ {0} /\ Len(t) = Len(s) + 1 /\ t[1] = F /\ t[2] = G /\ r[1] = G
        /\ \A i \in 3..Len(t) : t[i] = s[i-1]
    OBVIOUS
  <2>2. \A i \in 2..Len(s) : r[i] = s[i]
    OBVIOUS
  <2>3. \A i \in 2..Len(t) : i = 2 \/ (i \in 3..Len(t) /\ i - 1 \in 2..Len(s))
    BY <2>1
  <2> QED  BY <2>1, <2>2, <2>3
<1>2. Len(r) = Len(s)
  OBVIOUS
<1>7. Levels(r) = Put(Levels(s), Len(s), G)
  <2> HIDE DEF r
  <2> QED  BY LevelsReplace DEF r
<1> HIDE DEF t, r
<1>3. ASSUME NEW d \in 0..Len(s)
      PROVE  t[Len(t)-d] = IF d = Len(s) THEN F ELSE r[Len(r)-d]
  <2>1. CASE d = Len(s)
    BY <1>1, <2>1
  <2>2. CASE d # Len(s)
    <3>1. Len(t) - d \in 2..Len(t) /\ (Len(t) - d) - 1 = Len(r) - d
      BY <1>1, <1>2, <2>2
    <3> QED  BY <1>1, <2>2, <3>1
  <2> QED  BY <2>1, <2>2
<1>4. Len(t) - 1 = Len(s) /\ \A d \in 0..Len(s) : d # Len(s) => d \in 0..(Len(r) - 1)
  <2>1. Len(s) \in Nat \ {0} /\ Len(t) = Len(s) + 1 /\ Len(r) = Len(s)
    BY <1>1, <1>2
  <2> QED  BY ONLY <2>1
<1>5. Levels(t) = [d \in 0..Len(s) |-> IF d = Len(s) THEN F ELSE Levels(r)[d]]
  BY <1>1, <1>3, <1>4 DEF Levels
<1>6. Len(s) \in Nat /\ (Len(s) + 1) - 1 = Len(s)
  BY <1>1
<1>8. Levels(t) = Put(Levels(r), Len(s) + 1, F)
  BY <1>5, <1>6 DEF Put
<1> QED  BY <1>1, <1>7, <1>8 DEF t

LEMMA LevelsPop ==
  ASSUME NEW S, NEW s \in Seq(S), s # <<>>
  PROVE  /\ Len(Tail(s)) = Len(s) - 1
         /\ Levels(Tail(s)) = [d \in 0..(Len(s) - 2) |-> Levels(s)[d]]
<1> DEFINE t == Tail(s)
<1>1. Len(s) \in Nat \ {0} /\ Len(t) = Len(s) - 1 /\ \A i \in 1..Len(t) : t[i] = s[i+1]
  OBVIOUS
<1> HIDE DEF t
<1>2. ASSUME NEW d \in 0..(Len(s) - 2)  PROVE t[Len(t)-d] = s[Len(s)-d] /\ d \in 0..(Len(s) - 1)
  <2>1. Len(t) - d \in 1..Len(t) /\ (Len(t) - d) + 1 = Len(s) - d
    BY <1>1
  <2> QED  BY SMTT(40), <1>1, <2>1
<1>3. Len(t) - 1 = Len(s) - 2
  BY <1>1
<1>4. Levels(t) = [d \in 0..(Len(s) - 2) |-> Levels(s)[d]]
  BY <1>2, <1>3 DEF Levels
<1> QED  BY <1>1, <1>4 DEF t

-----------------------------------------------------------------------------
(* The steps.                                                              *)

LEMMA ArgsOwned ==
  ASSUME NEW p, WellFormed(p), NEW f, NEW v \in Values, Owned(p, f, v), Computed(p, v),
         NEW a \in ToSet(p.instr[v].args)
  PROVE  Owned(p, f, a)
<1>1. p.home[v] = f
  BY DEF Owned
<1>2. a \in Traceable(p, f)
  BY <1>1 DEF Traceable
<1>3. Computed(p, a) => p.home[a] = f
  BY <1>1 DEF WellFormed
<1> QED  BY <1>2, <1>3 DEF Owned

LEMMA RetsOwned ==
  ASSUME NEW p, WellFormed(p), NEW f \in Funcs, NEW j \in DOMAIN p.fn[f].rets
  PROVE  Owned(p, f, p.fn[f].rets[j])
<1>1. p.fn[f].rets[j] \in ToSet(p.fn[f].rets)
  BY DEF ToSet
<1>2. Computed(p, p.fn[f].rets[j]) => p.home[p.fn[f].rets[j]] = f
  BY <1>1 DEF WellFormed
<1> QED  BY <1>1, <1>2 DEF Owned, Traceable

LEMMA TopLevel ==
  ASSUME IInv, stack # <<>>
  PROVE  /\ stack \in Seq(Frames) /\ Len(stack) \in Nat \ {0}
         /\ Levels(stack)[Len(stack) - 1] = Top
         /\ WellFormed(prog) /\ visitedFuncs \in SUBSET Funcs
<1>1. stack \in Seq(Frames) /\ Top = stack[1]
  BY TopTyped DEF Top
<1>2. Len(stack) \in Nat \ {0} /\ Len(stack) - (Len(stack) - 1) = 1
  BY <1>1
<1>3. Levels(stack)[Len(stack) - 1] = stack[1]
  BY <1>2 DEF Levels
<1> QED  BY <1>1, <1>2, <1>3, ProgramFacts DEF IInv

\* A value is cut.
LEMMA CutWork ==
  ASSUME IInv, WorkInv, CutValue, stack' \in Seq(Frames)  PROVE WorkInv'
<1> DEFINE G == [Top EXCEPT !.todo = Tail(@), !.visited = Visited]
           n == Len(stack)
           L == Levels(stack)
           M == Put(L, n, G)
<1>1. Tracing /\ stack # <<>> /\ Top.todo # <<>> /\ stack' = <<G>> \o Tail(stack)
      /\ UNCHANGED <<prog, visitedFuncs, work>>
  BY DEF CutValue, Tracing, Rest
<1>2. /\ stack \in Seq(Frames) /\ n \in Nat \ {0} /\ L[n-1] = Top
      /\ WellFormed(prog) /\ visitedFuncs \in SUBSET Funcs
  BY <1>1, TopLevel
<1>3. Top \in Frames
  BY <1>1, TopTyped
<1>4. G \in Frames /\ G.fresh = Top.fresh /\ G.todo = Tail(Top.todo) /\ G.visited = Visited
  BY <1>1, <1>3, ValueTyped DEF Frames
<1> HIDE DEF G
<1>5. Len(stack') = n /\ Levels(stack') = M
  <2>1. stack \in Seq(Frames) /\ stack # <<>> /\ stack' = <<G>> \o Tail(stack) /\ G \in Frames
    BY <1>1, <1>2, <1>4
  <2> QED  BY ONLY <2>1, LevelsReplace
<1>6. PICK T : Counted(T) /\ \E own, cur : Charged(prog, n, L, own, cur, T, visitedFuncs)
  BY DEF WorkInv
<1>7. PICK own, cur : Charged(prog, n, L, own, cur, T, visitedFuncs)
  BY <1>6
<1> HIDE DEF n, L
<1>8. \E now : Charged(prog, n, M, own, now, T, visitedFuncs)
  <2>1. Takes(L[n-1], G, own[n-1], cur[n-1], T, T)
    BY <1>1, <1>2, <1>4 DEF Takes, SeenBy, Visited
  <2>2. Charged(prog, n, Put(L, n, G), own, Set(cur, n, Upto(L[n-1], cur[n-1])), T, visitedFuncs)
    BY <1>2, <1>7, <2>1, Advance
  <2> QED  BY <2>2
<1>9. PICK now : Charged(prog, n, M, own, now, T, visitedFuncs)
  BY <1>8
<1> HIDE DEF M
<1>10. Counted(T)'
  BY <1>1, <1>6 DEF Counted
<1>11. Charged(prog, Len(stack), Levels(stack), own, now, T, visitedFuncs)'
  BY <1>1, <1>5, <1>9
<1> QED  BY <1>10, <1>11 DEF WorkInv

\* A value is traced: the set of charged slots has one more.
LEMMA Charge ==
  ASSUME IInv, WorkInv, Open, work' = work + 1,
         NEW G \in Frames, G.fresh = Top.fresh, G.todo = Tail(Top.todo), G.visited = Visited \cup {V},
         NEW n, n = Len(stack), NEW M, M = Put(Levels(stack), n, G)
  PROVE  \E U : /\ Counted(U)'
                /\ \E own, now :
                     /\ Charged(prog, n, M, own, now, U, visitedFuncs)
                     /\ Marked(U, own[n-1], now[n-1], Visited \cup {V})
                     /\ now[n-1] \in DOMAIN prog.fn[own[n-1]].rets
                     /\ Owned(prog, own[n-1], V)
<1> DEFINE L == Levels(stack)
<1>1. Tracing /\ stack # <<>> /\ Top.todo # <<>> /\ V \notin Visited
  BY DEF Open, Tracing
<1>2. /\ stack \in Seq(Frames) /\ n \in Nat \ {0} /\ L[n-1] = Top
      /\ WellFormed(prog) /\ visitedFuncs \in SUBSET Funcs
  BY <1>1, TopLevel
<1>3. PICK T : Counted(T) /\ \E own, cur : Charged(prog, n, L, own, cur, T, visitedFuncs)
  BY DEF WorkInv
<1>4. PICK own, cur : Charged(prog, n, L, own, cur, T, visitedFuncs)
  BY <1>3
<1> DEFINE k    == Upto(L[n-1], cur[n-1])
           now  == Set(cur, n, k)
           slot == <<<<own[n-1], k>>, V>>
           U    == T \cup {slot}
<1>6. now[n-1] = k /\ M = Put(L, n, G)
  BY <1>2 DEF Set
<1>7. SeenBy(L[n-1]) = Visited /\ V = Head(L[n-1].todo)
  BY <1>2 DEF Visited, SeenBy, V
<1> HIDE DEF L
<1>8. /\ Charged(prog, n, M, own, now, U, visitedFuncs)
      /\ Marked(U, own[n-1], k, G.visited)
      /\ k \in DOMAIN prog.fn[own[n-1]].rets /\ Owned(prog, own[n-1], V)
      /\ V \notin Visited => slot \notin T
  <2>1. Takes(L[n-1], G, own[n-1], cur[n-1], T, U)
    BY <1>1, <1>2, <1>7 DEF Takes
  <2> HIDE DEF U
  <2>2. /\ Charged(prog, n, Put(L, n, G), own, now, U, visitedFuncs)
        /\ Marked(U, own[n-1], k, G.visited)
        /\ k \in DOMAIN prog.fn[own[n-1]].rets
        /\ Owned(prog, own[n-1], Head(L[n-1].todo))
        /\ Head(L[n-1].todo) \notin SeenBy(L[n-1]) => <<<<own[n-1], k>>, Head(L[n-1].todo)>> \notin T
    BY <1>2, <1>4, <2>1, Advance
  <2> QED  BY <1>6, <1>7, <2>2
<1> HIDE DEF now, k, slot
<1>9. IsFiniteSet(U) /\ Cardinality(U) = Cardinality(T) + 1
  <2>1. slot \notin T /\ IsFiniteSet(T)
    BY <1>1, <1>3, <1>7, <1>8 DEF Counted
  <2> QED  BY <2>1, FS_AddElement
<1>10. IsFiniteSet(U) /\ Cardinality(U) = work'
  BY <1>3, <1>9 DEF Counted
<1> HIDE DEF U
<1>11. PICK W, at : W = U /\ at = now
  OBVIOUS
<1>12. Counted(W)'
  BY <1>10, <1>11 DEF Counted
<1>13. /\ Charged(prog, n, M, own, at, W, visitedFuncs)
       /\ Marked(W, own[n-1], at[n-1], Visited \cup {V})
       /\ at[n-1] \in DOMAIN prog.fn[own[n-1]].rets
       /\ Owned(prog, own[n-1], V)
  BY <1>6, <1>8, <1>11
<1> QED  BY <1>12, <1>13

LEMMA AnswerWork ==
  ASSUME IInv, WorkInv, Open, NEW found, Answer(found), UNCHANGED <<prog, visitedFuncs>>,
         stack' \in Seq(Frames)
  PROVE  WorkInv'
<1> DEFINE G == [Top EXCEPT !.todo = Tail(@), !.found = @ \cup found, !.visited = Visited \cup {V}]
           n == Len(stack)
           M == Put(Levels(stack), n, G)
<1>1. stack # <<>> /\ stack' = <<G>> \o Tail(stack) /\ work' = work + 1
  BY DEF Open, Tracing, Answer, Rest
<1>2. Top \in Frames /\ stack \in Seq(Frames)
  BY <1>1, TopTyped
<1>3. G.fresh = Top.fresh /\ G.todo = Tail(Top.todo) /\ G.visited = Visited \cup {V}
  BY <1>2 DEF Frames
<1> HIDE DEF G
<1>4. G \in Frames
  BY <1>1, <1>2
<1>5. Len(stack') = n /\ Levels(stack') = M
  BY <1>1, <1>2, <1>4, LevelsReplace
<1> HIDE DEF M, n
<1>6. PICK U : Counted(U)' /\ \E own, now : Charged(prog, n, M, own, now, U, visitedFuncs)
  BY <1>1, <1>3, <1>4, Charge DEF M, n
<1>7. PICK own, now : Charged(prog, n, M, own, now, U, visitedFuncs)
  BY <1>6
<1>8. Charged(prog, Len(stack), Levels(stack), own, now, U, visitedFuncs)'
  BY <1>5, <1>7
<1> QED  BY <1>6, <1>8 DEF WorkInv

\* The stack after Descend: the caller advanced, the frame of the call on top.
LEMMA Descended ==
  ASSUME IInv, Open, NEW todo, NEW fresh, NEW alt, Descend(todo, fresh, alt), stack' \in Seq(Frames)
  PROVE  \E F, G \in Frames :
           /\ F.todo = todo /\ F.fresh = fresh /\ (~fresh => F.visited = Visited \cup {V})
           /\ G.fresh = Top.fresh /\ G.todo = Tail(Top.todo) /\ G.visited = Visited \cup {V}
           /\ Len(stack') = Len(stack) + 1
           /\ Levels(stack') = Put(Put(Levels(stack), Len(stack), G), Len(stack) + 1, F)
           /\ work' = work + 1
<1> DEFINE F == Frame(todo, Top.depth + 1, fresh, IF fresh THEN {} ELSE Visited \cup {V}, alt)
           G == [Top EXCEPT !.todo = Tail(@), !.visited = Visited \cup {V}]
<1>1. stack # <<>> /\ stack' = <<F, G>> \o Tail(stack) /\ work' = work + 1
  BY DEF Open, Tracing, Descend, Rest
<1>2. Top \in Frames /\ stack \in Seq(Frames)
  BY <1>1, TopTyped
<1>3. G.fresh = Top.fresh /\ G.todo = Tail(Top.todo) /\ G.visited = Visited \cup {V}
  BY <1>2 DEF Frames
<1>4. F.todo = todo /\ F.fresh = fresh /\ (~fresh => F.visited = Visited \cup {V})
  BY DEF Frame
<1> HIDE DEF F, G
<1>5. F \in Frames /\ G \in Frames
  <2>1. Len(stack') = Len(stack) + 1 /\ stack'[1] = F /\ stack'[2] = G /\ Len(stack) \in Nat \ {0}
    BY <1>1, <1>2
  <2>2. 1 \in DOMAIN stack' /\ 2 \in DOMAIN stack'
    BY <2>1
  <2> QED  BY <2>1, <2>2
<1>6. Len(stack') = Len(stack) + 1
      /\ Levels(stack') = Put(Put(Levels(stack), Len(stack), G), Len(stack) + 1, F)
  <2>1. /\ stack \in Seq(Frames) /\ stack # <<>> /\ F \in Frames /\ G \in Frames
        /\ stack' = <<F, G>> \o Tail(stack)
    BY <1>1, <1>2, <1>5
  <2> QED  BY ONLY <2>1, LevelsPush
<1> QED  BY <1>1, <1>3, <1>4, <1>5, <1>6

\* traceValue calls itself for values of the same function.
LEMMA DescendSameWork ==
  ASSUME IInv, WorkInv, Open, NEW todo, NEW alt, Descend(todo, FALSE, alt), Computed(prog, V),
         \A j \in DOMAIN todo : todo[j] \in ToSet(X.args),
         UNCHANGED <<prog, visitedFuncs>>, stack' \in Seq(Frames)
  PROVE  WorkInv'
<1> DEFINE n == Len(stack)
<1> HIDE DEF n
<1>0. PICK fresh \in BOOLEAN : ~fresh
  OBVIOUS
<1>1. PICK F, G \in Frames :
         /\ F.todo = todo /\ F.fresh = fresh /\ (~fresh => F.visited = Visited \cup {V})
         /\ G.fresh = Top.fresh /\ G.todo = Tail(Top.todo) /\ G.visited = Visited \cup {V}
         /\ Len(stack') = n + 1
         /\ Levels(stack') = Put(Put(Levels(stack), n, G), n + 1, F)
         /\ work' = work + 1
  <2>1. Descend(todo, fresh, alt)
    BY <1>0
  <2> QED  BY <2>1, Descended DEF n
<1> DEFINE M == Put(Levels(stack), n, G)
<1>2. Tracing /\ stack # <<>> /\ V \in Values
  BY ValueTyped DEF Open, Tracing
<1>3. n \in Nat \ {0} /\ WellFormed(prog)
  BY <1>2, TopLevel DEF n
<1> HIDE DEF M
<1>4. PICK U : /\ Counted(U)'
               /\ \E own, now :
                     /\ Charged(prog, n, M, own, now, U, visitedFuncs)
                     /\ Marked(U, own[n-1], now[n-1], Visited \cup {V})
                     /\ now[n-1] \in DOMAIN prog.fn[own[n-1]].rets
                     /\ Owned(prog, own[n-1], V)
  BY <1>1, Charge DEF M, n
<1>5. PICK own, now :
         /\ Charged(prog, n, M, own, now, U, visitedFuncs)
         /\ Marked(U, own[n-1], now[n-1], Visited \cup {V})
         /\ now[n-1] \in DOMAIN prog.fn[own[n-1]].rets
         /\ Owned(prog, own[n-1], V)
  BY <1>4
<1> DEFINE f == own[n-1]
           k == now[n-1]
<1>6. \A j \in DOMAIN F.todo : Owned(prog, f, F.todo[j])
  <2> SUFFICES ASSUME NEW j \in DOMAIN todo  PROVE Owned(prog, f, todo[j])
    BY <1>1
  <2>1. todo[j] \in ToSet(prog.instr[V].args)
    BY DEF X
  <2> QED  BY <1>2, <1>3, <1>5, <2>1, ArgsOwned
<1>7. k \in Nat /\ f \in visitedFuncs
  <2>1. n - 1 \in 0..(n - 1)
    BY <1>3
  <2> QED  BY <1>5, <2>1 DEF Charged, FrameOK
<1>8. FrameOK(prog, F, f, k, U) /\ ~F.fresh /\ Marked(U, f, k, F.visited)
  BY <1>0, <1>1, <1>5, <1>6, <1>7 DEF FrameOK
<1>9. Charged(prog, n + 1, Put(M, n + 1, F), Set(own, n + 1, f), Set(now, n + 1, k), U, visitedFuncs)
  <2>1. /\ n \in Nat /\ n > 0 /\ Charged(prog, n, M, own, now, U, visitedFuncs)
        /\ visitedFuncs \subseteq visitedFuncs /\ f \in visitedFuncs /\ f = own[n-1] /\ k = now[n-1]
    BY <1>3, <1>5, <1>7
  <2> HIDE DEF f, k
  <2> QED  BY ONLY <1>8, <2>1, PushOn
<1>10. \E o, c : Charged(prog, n + 1, Put(M, n + 1, F), o, c, U, visitedFuncs)
  BY <1>9
<1>11. PICK o, c : Charged(prog, n + 1, Put(M, n + 1, F), o, c, U, visitedFuncs)
  BY <1>10
<1>12. Charged(prog, Len(stack), Levels(stack), o, c, U, visitedFuncs)'
  BY <1>1, <1>11 DEF M
<1> QED  BY <1>4, <1>12 DEF WorkInv

\* sentinelFromCallee enters a function that was not visited.
LEMMA DescendNewWork ==
  ASSUME IInv, WorkInv, Open, NEW f \in Funcs, Descend(prog.fn[f].rets, TRUE, {}),
         f \notin visitedFuncs, visitedFuncs' = visitedFuncs \cup {f}, prog' = prog,
         stack' \in Seq(Frames)
  PROVE  WorkInv'
<1> DEFINE n == Len(stack)
           rets == prog.fn[f].rets
<1>0. PICK fresh \in BOOLEAN : fresh
  OBVIOUS
<1>1. PICK F, G \in Frames :
         /\ F.todo = rets /\ F.fresh = fresh /\ (~fresh => F.visited = Visited \cup {V})
         /\ G.fresh = Top.fresh /\ G.todo = Tail(Top.todo) /\ G.visited = Visited \cup {V}
         /\ Len(stack') = n + 1
         /\ Levels(stack') = Put(Put(Levels(stack), n, G), n + 1, F)
         /\ work' = work + 1
  <2> HIDE DEF rets
  <2>1. Descend(rets, fresh, {})
    BY <1>0 DEF rets
  <2> QED  BY <2>1, Descended
<1> DEFINE M == Put(Levels(stack), n, G)
<1>2. stack # <<>>
  BY DEF Open, Tracing
<1>3. n \in Nat \ {0} /\ WellFormed(prog) /\ visitedFuncs \in SUBSET Funcs
  BY <1>2, TopLevel
<1> HIDE DEF M, n
<1>4. PICK U : Counted(U)' /\ \E own, now : Charged(prog, n, M, own, now, U, visitedFuncs)
  BY <1>1, Charge DEF M, n
<1>5. PICK own, now : Charged(prog, n, M, own, now, U, visitedFuncs)
  BY <1>4
<1>6. \A j \in DOMAIN F.todo : Owned(prog, f, F.todo[j])
  BY <1>1, <1>3, RetsOwned
<1>7. 0 + Len(F.todo) = Len(rets)
  <2>1. Len(rets) \in Nat
    BY <1>3 DEF WellFormed
  <2> QED  BY <1>1, <2>1
<1>8. \A t \in U : t[1][1] # f
  <2>1. U \subseteq AllSlots(prog, visitedFuncs)
    BY <1>5 DEF Charged
  <2> QED  BY <1>3, <2>1, SlotOf
<1>9. FrameOK(prog, F, f, 0, U) /\ F.fresh
  BY <1>0, <1>1, <1>6, <1>7, <1>8 DEF FrameOK
<1>10. \E o, c : Charged(prog, n + 1, Put(M, n + 1, F), o, c, U, visitedFuncs')
  <2>1. f \in visitedFuncs' /\ visitedFuncs \subseteq visitedFuncs'
    OBVIOUS
  <2>2. Charged(prog, n + 1, Put(M, n + 1, F), Set(own, n + 1, f), Set(now, n + 1, 0), U, visitedFuncs')
    BY <1>1, <1>3, <1>5, <1>9, <2>1, PushOn
  <2> QED  BY <2>2
<1>11. PICK o, c : Charged(prog, n + 1, Put(M, n + 1, F), o, c, U, visitedFuncs')
  BY <1>10
<1>12. Charged(prog, Len(stack), Levels(stack), o, c, U, visitedFuncs)'
  BY <1>1, <1>11 DEF M
<1> QED  BY <1>4, <1>12 DEF WorkInv

LEMMA ReturnWork ==
  ASSUME IInv, WorkInv, Return, stack' \in Seq(Frames)  PROVE WorkInv'
<1> DEFINE caller == Head(Rest)
           F == [caller EXCEPT !.found = @ \cup (IF Top.found # {} THEN Top.found ELSE Top.alt),
                               !.visited = IF Top.fresh THEN @ ELSE Top.visited]
           n == Len(stack)
           L == Levels(stack)
<1>1. /\ stack # <<>> /\ Rest # <<>> /\ Rest = Tail(stack) /\ stack' = <<F>> \o Tail(Rest)
      /\ UNCHANGED <<prog, visitedFuncs, work>>
  BY DEF Return, Rest
<1>2. stack \in Seq(Frames) /\ n \in Nat \ {0} /\ L[n-1] = Top
  BY <1>1, TopLevel
<1>3. Rest \in Seq(Frames) /\ Len(Rest) = n - 1 /\ n > 1
      /\ Levels(Rest) = [d \in 0..(n - 2) |-> L[d]]
  <2>1. Rest \in Seq(Frames) /\ Len(Rest) \in Nat \ {0}
    <3>1. stack \in Seq(Frames) /\ stack # <<>> /\ Rest # <<>> /\ Rest = Tail(stack)
      BY <1>1, <1>2
    <3>2. Rest \in Seq(Frames)
      BY ONLY <3>1
    <3> QED  BY ONLY <3>1, <3>2
  <2>2. Len(Rest) = n - 1 /\ Levels(Rest) = [d \in 0..(n - 2) |-> L[d]]
    BY <1>1, <1>2, LevelsPop
  <2> QED  BY <1>2, <2>1, <2>2
<1>4. caller \in Frames /\ caller = L[n-2]
  <2>1. caller = Rest[1] /\ 1 \in DOMAIN Rest
    <3>1. Rest \in Seq(Frames) /\ Rest # <<>>
      BY <1>1, <1>3
    <3> QED  BY ONLY <3>1
  <2>2. Levels(Rest)[n-2] = Rest[1]
    <3>1. n - 2 \in 0..(Len(Rest) - 1) /\ Len(Rest) - (n - 2) = 1
      BY <1>2, <1>3
    <3> QED  BY <3>1 DEF Levels
  <2>3. n - 2 \in 0..(n - 2)
    BY <1>2, <1>3
  <2> QED  BY <1>3, <2>1, <2>2, <2>3
<1>5. F.fresh = caller.fresh /\ F.todo = caller.todo
      /\ F.visited = (IF Top.fresh THEN caller.visited ELSE Top.visited)
  BY <1>4 DEF Frames
<1> HIDE DEF F, caller, L, n
<1>6. F \in Frames
  BY <1>1, <1>3
<1>7. Len(stack') = n - 1 /\ Levels(stack') = Put(L, n - 1, F)
  <2>1. Len(stack') = n - 1 /\ Levels(stack') = Put(Levels(Rest), n - 1, F)
    <3>1. Rest \in Seq(Frames) /\ Rest # <<>> /\ F \in Frames /\ stack' = <<F>> \o Tail(Rest)
      BY <1>1, <1>3, <1>6
    <3>2. Len(stack') = Len(Rest) /\ Levels(stack') = Put(Levels(Rest), Len(Rest), F)
      BY ONLY <3>1, LevelsReplace
    <3> QED  BY <1>3, <3>2
  <2>2. \A d \in 0..((n - 1) - 1) : Levels(Rest)[d] = L[d]
    BY <1>2, <1>3
  <2> QED  BY <2>1, <2>2 DEF Put
<1>8. PICK T : Counted(T) /\ \E own, cur : Charged(prog, n, L, own, cur, T, visitedFuncs)
  BY DEF WorkInv, L, n
<1>9. PICK own, cur : Charged(prog, n, L, own, cur, T, visitedFuncs)
  BY <1>8
<1>10. Charged(prog, n - 1, Put(L, n - 1, F), own, cur, T, visitedFuncs)
  BY <1>2, <1>3, <1>4, <1>5, <1>6, <1>9, PopTo
<1>11. Counted(T)'
  BY <1>1, <1>8 DEF Counted
<1>12. Charged(prog, Len(stack), Levels(stack), own, cur, T, visitedFuncs)'
  BY <1>1, <1>7, <1>10
<1> QED  BY <1>11, <1>12 DEF WorkInv

LEMMA NoLevels ==
  ASSUME NEW p, NEW L, NEW own, NEW cur, NEW vf, NEW T \in SUBSET AllSlots(p, vf)
  PROVE  Charged(p, 0, L, own, cur, T, vf)
BY DEF Charged

LEMMA StartWork ==
  ASSUME IInv, StartFunction, stack' \in Seq(Frames)  PROVE WorkInv'
<1> DEFINE F == Frame(prog.fn[Func].rets, 0, TRUE, {}, {})
           L == Levels(<<>>)
<1>1. /\ stack' = <<F>> /\ visitedFuncs' = {Func} /\ work' = 0 /\ prog' = prog /\ next <= Len(prog.order)
      /\ F.todo = prog.fn[Func].rets /\ F.fresh = TRUE
  BY DEF StartFunction, Frame
<1>2. Func \in Funcs /\ WellFormed(prog)
  BY <1>1, BoundTyped, ProgramFacts
<1> HIDE DEF F
<1>3. F \in Frames /\ Len(stack') = 1 /\ stack'[1] = F
  BY <1>1
<1>4. Levels(stack') = Put(L, 0 + 1, F)
  <2>1. Levels(stack') = [d \in 0..0 |-> F]
    <3>1. Levels(stack') = [d \in 0..(1 - 1) |-> stack'[1 - d]]
      BY <1>3 DEF Levels
    <3>2. \A d \in 0..(1 - 1) : stack'[1 - d] = F
      BY <1>3
    <3> QED  BY <3>1, <3>2
  <2>2. Put(L, 0 + 1, F) = [d \in 0..0 |-> F]
    BY DEF Put
  <2> QED  BY <2>1, <2>2
<1>5. Charged(prog, 0, L, [d \in Nat |-> 0], [d \in Nat |-> 0], {}, {})
  BY NoLevels
<1>6. FrameOK(prog, F, Func, 0, {})
  <2>1. Len(prog.fn[Func].rets) \in Nat
    BY <1>2 DEF WellFormed
  <2>2. \A j \in DOMAIN F.todo : Owned(prog, Func, F.todo[j])
    BY <1>1, <1>2, RetsOwned
  <2> QED  BY <1>1, <1>3, <2>1, <2>2 DEF FrameOK
<1> HIDE DEF L
<1>7. \E own, cur : Charged(prog, 0 + 1, Put(L, 0 + 1, F), own, cur, {}, {Func})
  <2> DEFINE none == [d \in Nat |-> 0]
  <2>1. PICK n \in Nat, wf \in {{Func}}, k \in {0} : n = 0 /\ wf = {Func} /\ k = 0
    OBVIOUS
  <2>2. PICK f \in wf : f = Func
    BY <2>1
  <2>3. Charged(prog, n, L, none, none, {}, {}) /\ {} \subseteq wf /\ FrameOK(prog, F, f, k, {})
        /\ f \notin {} /\ F.fresh
    BY <1>1, <1>5, <1>6, <2>1, <2>2
  <2> HIDE DEF none
  <2>4. Charged(prog, n + 1, Put(L, n + 1, F), Set(none, n + 1, f), Set(none, n + 1, k), {}, wf)
    BY ONLY n \in Nat, f \in wf, <2>3, PushOn
  <2> QED  BY <2>1, <2>4
<1>8. PICK own, cur : Charged(prog, 0 + 1, Put(L, 0 + 1, F), own, cur, {}, {Func})
  BY <1>7
<1>9. Charged(prog, Len(stack), Levels(stack), own, cur, {}, visitedFuncs)'
  BY <1>1, <1>3, <1>4, <1>8
<1>10. Counted({})'
  BY <1>1, FS_EmptySet DEF Counted
<1> QED  BY <1>9, <1>10 DEF WorkInv

\* Between two functions.
LEMMA EmptyWork ==
  ASSUME WorkInv, stack' = <<>>, UNCHANGED <<prog, visitedFuncs, work>>  PROVE WorkInv'
<1>1. PICK T : Counted(T) /\ \E own, cur : Charged(prog, Len(stack), Levels(stack), own, cur, T, visitedFuncs)
  BY DEF WorkInv
<1>2. T \in SUBSET AllSlots(prog, visitedFuncs)
  BY <1>1 DEF Charged
<1>3. Charged(prog, Len(stack), Levels(stack), 0, 0, T, visitedFuncs)'
  BY <1>2, NoLevels
<1>4. Counted(T)'
  BY <1>1 DEF Counted
<1> QED  BY <1>3, <1>4 DEF WorkInv

LEMMA CallWork ==
  ASSUME IInv, WorkInv, TraceCall, stack' \in Seq(Frames)  PROVE WorkInv'
<1>1. Open /\ X.op = "Call" /\ prog' = prog /\ Tracing
  BY DEF TraceCall, Open
<1>2. PICK f \in Callee(prog, X.call) :
         IF \/ Summary(facts, f) # {}
            \/ Top.depth + 1 > MaxTraceDepth \/ ~prog.fn[f].body \/ f \in visitedFuncs
         THEN Answer(Summary(facts, f)) /\ UNCHANGED visitedFuncs
         ELSE Descend(prog.fn[f].rets, TRUE, {}) /\ visitedFuncs' = visitedFuncs \cup {f}
  BY DEF TraceCall
<1>3. f \in Funcs
  BY <1>1, ValueTyped, ProgramFacts, CalleeCalled, NoFuncAssumption DEF X
<1>4. CASE Answer(Summary(facts, f)) /\ UNCHANGED visitedFuncs
  BY <1>1, <1>4, AnswerWork
<1>5. CASE Descend(prog.fn[f].rets, TRUE, {}) /\ visitedFuncs' = visitedFuncs \cup {f} /\ f \notin visitedFuncs
  BY <1>1, <1>3, <1>5, DescendNewWork
<1> QED  BY <1>2, <1>4, <1>5

LEMMA TracingWork ==
  ASSUME IInv, WorkInv, stack' \in Seq(Frames),
         TraceGlobal \/ TraceOther \/ TraceDynamic \/ TracePass \/ TraceMakeInterface
           \/ TraceErrorf \/ TraceInvoke
  PROVE  WorkInv'
<1>1. Open /\ Tracing /\ UNCHANGED <<prog, visitedFuncs>>
  BY DEF TraceGlobal, TraceOther, TraceDynamic, TracePass, TraceMakeInterface, TraceErrorf, TraceInvoke, Open
<1>2. CASE \E found : Answer(found)
  BY <1>1, <1>2, AnswerWork
<1>3. ASSUME X.op \in PassOps \cup {"MakeInterface", "Errorf"}, NEW todo, NEW alt, Descend(todo, FALSE, alt),
             \A j \in DOMAIN todo : todo[j] \in ToSet(X.args)
      PROVE  WorkInv'
  <2>1. Computed(prog, V)
    BY <1>3 DEF PassOps, Computed, X
  <2> QED  BY <1>1, <1>3, <2>1, DescendSameWork
<1>4. CASE TraceGlobal \/ TraceOther \/ TraceDynamic \/ TraceInvoke
  BY <1>2, <1>4 DEF TraceGlobal, TraceOther, TraceDynamic, TraceInvoke
<1>5. CASE TracePass \/ TraceMakeInterface
  <2>1. X.op \in PassOps \cup {"MakeInterface", "Errorf"} /\ \E alt : Descend(X.args, FALSE, alt)
    BY <1>5 DEF TracePass, TraceMakeInterface
  <2>2. \A j \in DOMAIN X.args : X.args[j] \in ToSet(X.args)
    BY DEF ToSet
  <2> QED  BY <1>3, <2>1, <2>2
<1>6. CASE TraceErrorf
  <2> DEFINE wrapped == fmtErrorfWrappedArg(X)
  <2>1. X.op = "Errorf" /\ ((\E found : Answer(found)) \/ Descend(wrapped, FALSE, {}))
    BY <1>6 DEF TraceErrorf
  <2>2. X.args \in Seq(Values)
    BY <1>1, ArgsTyped
  <2>3. \A j \in DOMAIN wrapped : wrapped[j] \in ToSet(X.args)
    BY <2>2 DEF fmtErrorfWrappedArg, ToSet
  <2> HIDE DEF wrapped
  <2> QED  BY <1>2, <1>3, <2>1, <2>3
<1> QED  BY <1>4, <1>5, <1>6

LEMMA NextWork == ASSUME IInv, WorkInv, [Next]_vars  PROVE WorkInv'
<1>1. stack' \in Seq(Frames)
  BY Preserved DEF IInv, StackOK
<1>2. CASE UNCHANGED vars
  BY <1>2 DEF vars, WorkInv, Counted
<1>3. CASE SkipFunction \/ FinishFunction
  BY <1>3, EmptyWork DEF SkipFunction, FinishFunction
<1> QED
  BY <1>1, <1>2, <1>3, StartWork, CutWork, TracingWork, CallWork, ReturnWork DEF Next, Done

\* The search is linear: the values traced for a function are no more than the
\* pairs of an error result, of one of the functions reached, and a value of
\* that function, whatever cycles and calls there are (trace.go:33, 232, 256).
THEOREM WorkIsLinear == Spec => []LinearWork
<1>1. Init => WorkInv
  <2> SUFFICES ASSUME Init  PROVE WorkInv
    OBVIOUS
  <2>1. stack = <<>> /\ work = 0 /\ visitedFuncs = {}
    BY DEF Init
  <2>2. Charged(prog, Len(stack), Levels(stack), 0, 0, {}, visitedFuncs)
    BY <2>1, NoLevels
  <2>3. Counted({})
    BY <2>1, FS_EmptySet DEF Counted
  <2> QED  BY <2>2, <2>3 DEF WorkInv
<1>2. IInv /\ WorkInv /\ [Next]_vars => WorkInv'
  BY NextWork
<1>3. IInv /\ WorkInv => LinearWork
  <2> SUFFICES ASSUME IInv, WorkInv  PROVE LinearWork
    OBVIOUS
  <2>1. PICK T : Counted(T) /\ T \in SUBSET AllSlots(prog, visitedFuncs)
    BY DEF WorkInv, Charged
  <2>2. IsFiniteSet(AllSlots(prog, visitedFuncs))
    BY SlotsFinite, ProgramFacts DEF IInv
  <2>3. Cardinality(T) <= Cardinality(AllSlots(prog, visitedFuncs))
    BY <2>1, <2>2, FS_Subset
  <2> QED  BY <2>1, <2>3 DEF LinearWork, AllSlots, Counted
<1> QED  BY <1>1, <1>2, <1>3, Invariance, PTL DEF Spec

-----------------------------------------------------------------------------
(* Nothing is lost.  The values T traced for the function at hand and those *)
(* still to be traced contain all that the search has to follow, and the    *)
(* sentinels it has to report are in the frames: when no frame is left, May *)
(* without any other sentinel is closed too.                                *)

\* There is no closed assignment below May.
MayIsLeast ==
  \A p \in Programs : \A val \in [Values -> SUBSET Sentinels], fn \in [Funcs -> SUBSET Sentinels] :
    Closed(p, [val |-> val, fn |-> fn]) =>
      /\ \A v \in Values : May(p).val[v] \subseteq val[v]
      /\ \A f \in Funcs : May(p).fn[f] \subseteq fn[f]

\* What is left to trace, and what was found, in the frames S.
Pending(S) == UNION {ToSet(a.todo) : a \in S}
Got(S) == UNION {a.found \cup a.alt : a \in S}

\* Of the sentinels Z, those that v yields itself are in G; the values whose
\* sentinels it yields are in R, and the functions in vf or answered.
Followed(p, Z, v, R, vf, G) ==
  LET x == p.instr[v] IN
    /\ x.op = "Global" => sentinelFromGlobal(x) \cap Z \subseteq G
    /\ x.op \in PassOps \/ x.op = "MakeInterface" => ToSet(x.args) \subseteq R
    /\ x.op = "MakeInterface" => customErrorType(x) \cap Z \subseteq G
    /\ x.op = "Errorf" => Wrapped(x) \subseteq R
    /\ x.op = "Call" =>
         /\ x.call.known \cap Z \subseteq G
         /\ \A f \in Called(p, x.call) : f \in vf \/ May(p).fn[f] \cap Z \subseteq G

Met(p, Z, T, P, vf, G) ==
  /\ T \subseteq Values
  /\ \A v \in T : Followed(p, Z, v, T \cup P, vf, G)
  /\ \A f \in vf : p.fn[f].body /\ ToSet(p.fn[f].rets) \subseteq T \cup P

\* The search goes on: more is traced, pending, visited and found.
Grows(p, Z, T, P, vf, G, U, Q, wf, H) ==
  /\ T \subseteq U /\ U \subseteq Values /\ T \cup P \subseteq U \cup Q
  /\ vf \subseteq wf /\ G \cap Z \subseteq H
  /\ \A v \in U \ T : Followed(p, Z, v, U \cup Q, wf, H)
  /\ \A f \in wf \ vf : p.fn[f].body /\ ToSet(p.fn[f].rets) \subseteq U \cup Q

LEMMA MetGrows ==
  ASSUME NEW p, NEW Z, NEW T, NEW P, NEW vf, NEW G, Met(p, Z, T, P, vf, G),
         NEW U, NEW Q, NEW wf, NEW H, Grows(p, Z, T, P, vf, G, U, Q, wf, H)
  PROVE  Met(p, Z, U, Q, wf, H)
<1> USE DEF Grows
<1>1. ASSUME NEW v \in T  PROVE Followed(p, Z, v, U \cup Q, wf, H)
  <2>1. Followed(p, Z, v, T \cup P, vf, G)
    BY DEF Met
  <2> QED  BY <2>1 DEF Followed
<1>2. \A f \in vf : p.fn[f].body /\ ToSet(p.fn[f].rets) \subseteq U \cup Q
  BY DEF Met
<1> QED  BY <1>1, <1>2 DEF Met

LEMMA WrappedNumbers ==
  ASSUME NEW ds \in Seq(Directives)
  PROVE  WrappedBy(ds) \subseteq Nat /\ IsFiniteSet(WrappedBy(ds))
<1> DEFINE I == {j \in DOMAIN ds : ds[j].verb = "w"}
           arg(i) == Taken(ds)[i-1] + Stars(ds[i])
           f == [i \in I |-> arg(i)]
<1>1. Len(ds) \in Nat /\ DOMAIN ds = 1..Len(ds) /\ \A i \in DOMAIN ds : ds[i] \in Directives
  OBVIOUS
<1>2. \A i \in I : arg(i) \in Nat
  <2> SUFFICES ASSUME NEW i \in I  PROVE arg(i) \in Nat
    OBVIOUS
  <2>1. i - 1 \in 0..Len(ds) /\ ds[i] \in Directives
    BY <1>1
  <2> QED  BY <2>1, TakenFacts, WrittenTyped
<1>3. WrappedBy(ds) = {arg(i) : i \in I}
  BY DEF WrappedBy
<1>4. IsFiniteSet(I)
  <2>1. IsFiniteSet(1..Len(ds)) /\ I \subseteq 1..Len(ds)
    BY <1>1, FS_Interval
  <2> HIDE DEF I
  <2> QED  BY <2>1, FS_Subset
<1>5. f \in Surjection(I, WrappedBy(ds))
  <2> HIDE DEF I, arg
  <2> QED  BY <1>3 DEF Surjection
<1> HIDE DEF f, I, arg
<1>6. IsFiniteSet(WrappedBy(ds))
  BY <1>4, <1>5, FS_Surjection
<1>7. WrappedBy(ds) \subseteq Nat
  BY <1>2, <1>3
<1> QED  BY <1>6, <1>7

LEMMA WrappedTyped ==
  ASSUME NEW p, WellFormed(p), NEW v \in Values, p.instr[v].op = "Errorf"
  PROVE  Wrapped(p.instr[v]) \subseteq Values
<1> DEFINE x == p.instr[v]
<1>1. x.args \in Seq(Values) /\ x.means \in Seq(Directives)
  BY DEF WellFormed
<1>2. WrappedBy(x.means) \subseteq Nat
  BY <1>1, WrappedNumbers
<1> HIDE DEF x
<1>3. ToSet(fmtErrorfWrappedArg(x)) \subseteq Values
  BY <1>1 DEF fmtErrorfWrappedArg, ToSet
<1>4. \A k \in WrappedBy(x.means) : k < Len(x.args) => x.args[k+1] \in Values
  BY <1>1, <1>2
<1> QED  BY <1>3, <1>4 DEF Wrapped, x

\* With one %w at most, what fmt wraps is what the analyzer traces.
LEMMA WrappedSeen ==
  ASSUME NEW p, WellFormed(p), NEW v \in Values, p.instr[v].op = "Errorf",
         Cardinality(WrappedBy(p.instr[v].means)) <= 1, ~p.instr[v].spread
  PROVE  Wrapped(p.instr[v]) = ToSet(fmtErrorfWrappedArg(p.instr[v]))
<1> DEFINE x == p.instr[v]
           S == WrappedBy(x.means)
<1>1. x.args \in Seq(Values) /\ x.means \in Seq(Directives) /\ x.format = Format(x.means)
  BY DEF WellFormed
<1>2. S \subseteq Nat /\ IsFiniteSet(S)
  BY <1>1, WrappedNumbers
<1>3. findWVerbIndex(x.format) = IF S = {} THEN -1 ELSE Min(S)
  BY <1>1, VerbFound
<1>4. Cardinality(S) <= 1 /\ ~x.spread
  OBVIOUS
<1> HIDE DEF x, S
<1>5. \A a, b \in S : a = b
  <2> SUFFICES ASSUME NEW a \in S, NEW b \in S, a # b  PROVE FALSE
    OBVIOUS
  <2>1. IsFiniteSet({a}) /\ Cardinality({a}) = 1
    BY FS_Singleton
  <2>2. Cardinality({a} \cup {b}) = 2 /\ {a} \cup {b} \subseteq S
    <3>1. b \notin {a} /\ IsFiniteSet({a})
      BY <2>1
    <3>2. Cardinality({a} \cup {b}) = Cardinality({a}) + 1
      BY <3>1, FS_AddElement
    <3> QED  BY <2>1, <3>2
  <2>3. Cardinality({a} \cup {b}) <= Cardinality(S) /\ Cardinality(S) \in Nat
    BY <1>2, <2>2, FS_Subset, FS_CardinalityType
  <2> QED  BY <1>4, <2>2, <2>3
<1>6. ASSUME NEW k \in S, k < Len(x.args)  PROVE x.args[k+1] \in ToSet(fmtErrorfWrappedArg(x))
  <2>1. Min(S) = k
    <3>1. \A a \in S : k <= a
      BY <1>2, <1>5
    <3> QED  BY <1>5, <3>1 DEF Min
  <2>2. findWVerbIndex(x.format) + 1 = k + 1 /\ k + 1 \in DOMAIN x.args
    BY <1>1, <1>2, <1>3, <1>6, <2>1
  <2>3. fmtErrorfWrappedArg(x) = <<x.args[k+1]>>
    BY <1>4, <2>2 DEF fmtErrorfWrappedArg
  <2> QED  BY <2>3 DEF ToSet
<1>7. Wrapped(x) = ToSet(fmtErrorfWrappedArg(x)) \cup {x.args[k+1] : k \in {i \in S : i < Len(x.args)}}
  BY <1>4 DEF Wrapped, S
<1> QED  BY <1>6, <1>7 DEF x

LEMMA CalledTyped ==
  ASSUME NEW p, WellFormed(p), NEW v \in Values, p.instr[v].op = "Call"
  PROVE  Called(p, p.instr[v].call) \subseteq Funcs
<1> DEFINE call == p.instr[v].call
<1>1. /\ p.method \in [Names(p.pk) -> Funcs \cup {NoFunc}]
      /\ call.kind = "static" => call.func \in Funcs
      /\ \A i \in DOMAIN p.stores : p.stores[i].func \in Funcs \cup {NoFunc}
      /\ call.kind = "invoke" =>
           \A t \in concreteTypesFromInterfaceValue(p, call.recv) : t \in TypesOf(Names(p.pk))
  BY DEF WellFormed
<1> HIDE DEF call
<1>2. CASE call.kind = "invoke"
  <2>1. \A t \in PossibleTypes(p, call) : t \in TypesOf(Names(p.pk))
    BY <1>1, <1>2 DEF PossibleTypes, Implementers, TypesOf
  <2>2. \A t \in PossibleTypes(p, call) : p.method[t.name] \in Funcs \cup {NoFunc}
    BY <1>1, <2>1 DEF TypesOf, Value, Pointer
  <2> QED  BY <1>2, <2>2 DEF Called, call
<1>3. CASE call.kind # "invoke"
  BY <1>1, <1>3 DEF Called, call
<1> QED  BY <1>2, <1>3

\* Those whose sentinels v yields.
LEMMA YieldsGrow ==
  ASSUME NEW p, WellFormed(p), NEW v \in Values, NEW may, NEW less,
         \A a \in Values : less.val[a] \subseteq may.val[a],
         \A f \in Funcs : less.fn[f] \subseteq may.fn[f]
  PROVE  Yields(p, less, v) \subseteq Yields(p, may, v)
<1> DEFINE x == p.instr[v]
<1>1. ToSet(x.args) \subseteq Values
  BY DEF WellFormed, ToSet
<1>2. x.op = "Errorf" => Wrapped(x) \subseteq Values
  BY WrappedTyped
<1>3. x.op = "Call" => Called(p, x.call) \subseteq Funcs
  BY CalledTyped
<1> QED  BY <1>1, <1>2, <1>3 DEF Yields

\* With nothing left to trace, all that is to be reported is found.
LEMMA EnoughFound ==
  ASSUME MayIsLeast, NEW p \in Programs, NEW Z, NEW T, NEW vf \in SUBSET Funcs, NEW G,
         Met(p, Z, T, {}, vf, G), \A f \in vf : p.fn[f].known = {} /\ p.facts[f] = {}
  PROVE  \A f \in vf : May(p).fn[f] \cap Z \subseteq G
<1> DEFINE keep(S) == {s \in S : s \in Z => s \in G}
           val == [v \in Values |-> IF v \in T THEN keep(May(p).val[v]) ELSE May(p).val[v]]
           fn == [f \in Funcs |-> IF f \in vf THEN keep(May(p).fn[f]) ELSE May(p).fn[f]]
           less == [val |-> val, fn |-> fn]
<1>1. /\ WellFormed(p) /\ Closed(p, May(p))
      /\ May(p).val \in [Values -> SUBSET Sentinels] /\ May(p).fn \in [Funcs -> SUBSET Sentinels]
  BY ProgramsAssumption, MayAssumption
<1>2. val \in [Values -> SUBSET Sentinels] /\ fn \in [Funcs -> SUBSET Sentinels]
  BY <1>1
<1>3. less.val = val /\ less.fn = fn
  OBVIOUS
<1>4. /\ \A v \in Values : less.val[v] \subseteq May(p).val[v]
      /\ \A f \in Funcs : less.fn[f] \subseteq May(p).fn[f]
      /\ \A v \in T : \A s \in less.val[v] : s \in Z => s \in G
      /\ \A f \in vf : \A s \in less.fn[f] : s \in Z => s \in G
      /\ \A v \in T : less.val[v] = keep(May(p).val[v])
      /\ \A v \in Values \ T : less.val[v] = May(p).val[v]
      /\ \A f \in vf : less.fn[f] = keep(May(p).fn[f])
      /\ \A f \in Funcs \ vf : less.fn[f] = May(p).fn[f]
      /\ T \subseteq Values
  BY DEF Met
<1> HIDE DEF less, val, fn
<1>5. ASSUME NEW v \in Values  PROVE Yields(p, less, v) \subseteq less.val[v]
  <2>1. Yields(p, less, v) \subseteq May(p).val[v]
    <3>1. Yields(p, less, v) \subseteq Yields(p, May(p), v)
      BY <1>1, <1>4, YieldsGrow
    <3> QED  BY <1>1, <3>1 DEF Closed
  <2>2. CASE v \notin T
    BY <1>4, <2>1, <2>2
  <2>3. CASE v \in T
    <3> DEFINE x == p.instr[v]
    <3>1. Followed(p, Z, v, T, vf, G)
      <4>1. Followed(p, Z, v, T \cup {}, vf, G) /\ T \cup {} = T
        BY <2>3 DEF Met
      <4> QED  BY <4>1
    <3>2. x.op = "Call" => Called(p, x.call) \subseteq Funcs
      BY <1>1, CalledTyped
    <3>3. ASSUME NEW s \in Yields(p, less, v), s \in Z  PROVE s \in G
      <4>1. CASE x.op = "Global"
        <5>1. s \in sentinelFromGlobal(x)
          BY <3>3, <4>1 DEF Yields, PassOps
        <5>2. sentinelFromGlobal(x) \cap Z \subseteq G
          BY <3>1, <4>1 DEF Followed
        <5> QED  BY <3>3, <5>1, <5>2
      <4>2. CASE x.op \in PassOps
        <5>1. PICK a \in ToSet(x.args) : s \in less.val[a]
          BY <3>3, <4>2 DEF Yields, PassOps
        <5> QED  BY <1>4, <3>1, <3>3, <4>2, <5>1 DEF Followed
      <4>3. CASE x.op = "MakeInterface"
        BY <1>4, <3>1, <3>3, <4>3 DEF Followed, Yields, PassOps
      <4>4. CASE x.op = "Errorf"
        BY <1>4, <3>1, <3>3, <4>4 DEF Followed, Yields, PassOps
      <4>5. CASE x.op = "Call"
        <5>1. s \in x.call.known \/ \E f \in Called(p, x.call) : s \in less.fn[f]
          BY <3>3, <4>5 DEF Yields, PassOps
        <5>2. ASSUME NEW f \in Called(p, x.call), s \in less.fn[f]  PROVE s \in G
          <6>1. f \in vf \/ May(p).fn[f] \cap Z \subseteq G
            BY <3>1, <4>5 DEF Followed
          <6>2. f \in Funcs
            BY <3>2, <4>5
          <6> QED  BY <1>4, <3>3, <5>2, <6>1, <6>2
        <5>3. s \in x.call.known => s \in G
          BY <3>1, <3>3, <4>5 DEF Followed
        <5> QED  BY <5>1, <5>2, <5>3
      <4>6. CASE x.op \notin {"Global", "MakeInterface", "Errorf", "Call"} \cup PassOps
        BY <3>3, <4>6 DEF Yields
      <4> QED  BY <4>1, <4>2, <4>3, <4>4, <4>5, <4>6
    <3> QED  BY <1>4, <2>1, <2>3, <3>3
  <2> QED  BY <2>2, <2>3
<1>6. ASSUME NEW f \in Funcs  PROVE FuncYields(p, less, f) \subseteq less.fn[f]
  <2>0. ToSet(p.fn[f].rets) \subseteq Values
    BY <1>1 DEF WellFormed, ToSet
  <2>1. FuncYields(p, less, f) \subseteq May(p).fn[f]
    <3>1. FuncYields(p, less, f) \subseteq FuncYields(p, May(p), f)
      BY <1>4, <2>0 DEF FuncYields
    <3> QED  BY <1>1, <3>1 DEF Closed
  <2>2. CASE f \notin vf
    BY <1>4, <2>1, <2>2
  <2>3. CASE f \in vf
    <3>1. ToSet(p.fn[f].rets) \subseteq T /\ p.fn[f].known = {} /\ p.facts[f] = {}
      BY <2>3 DEF Met
    <3>2. \A s \in FuncYields(p, less, f) : s \in Z => s \in G
      BY <1>4, <3>1 DEF FuncYields
    <3> QED  BY <1>4, <2>1, <2>3, <3>2
  <2> QED  BY <2>2, <2>3
<1>7. Closed(p, less)
  BY <1>5, <1>6 DEF Closed
<1>8. \A f \in Funcs : May(p).fn[f] \subseteq fn[f]
  BY <1>2, <1>7 DEF MayIsLeast, less
<1> QED  BY <1>3, <1>4, <1>8

-----------------------------------------------------------------------------
(* The set of frames, step by step.                                        *)

LEMMA ConsSet ==
  ASSUME NEW s \in Seq(Frames), NEW F \in Frames, NEW t, t = <<F>> \o s
  PROVE  t \in Seq(Frames) /\ Len(t) = Len(s) + 1 /\ ToSet(t) = {F} \cup ToSet(s)
<1>1. t \in Seq(Frames) /\ Len(t) = Len(s) + 1 /\ Len(s) \in Nat
  OBVIOUS
<1>2. t[1] = F /\ \A i \in 1..Len(s) : t[i+1] = s[i]
  OBVIOUS
<1>3. DOMAIN t = 1..(Len(s) + 1) /\ DOMAIN s = 1..Len(s)
  BY <1>1
<1>4. \A i \in DOMAIN t : t[i] \in {F} \cup ToSet(s)
  <2> SUFFICES ASSUME NEW i \in DOMAIN t, i # 1  PROVE t[i] \in ToSet(s)
    BY <1>2
  <2>1. i - 1 \in 1..Len(s) /\ (i - 1) + 1 = i
    BY <1>1, <1>3
  <2> QED  BY <1>2, <1>3, <2>1 DEF ToSet
<1>5. \A i \in DOMAIN s : s[i] \in ToSet(t)
  <2> SUFFICES ASSUME NEW i \in DOMAIN s  PROVE s[i] \in ToSet(t)
    OBVIOUS
  <2>1. i + 1 \in DOMAIN t /\ t[i+1] = s[i]
    BY <1>1, <1>2, <1>3
  <2> QED  BY <2>1 DEF ToSet
<1>6. F \in ToSet(t)
  BY <1>1, <1>2, <1>3 DEF ToSet
<1> QED  BY <1>1, <1>4, <1>5, <1>6 DEF ToSet

LEMMA ConsTwo ==
  ASSUME NEW s \in Seq(Frames), NEW F \in Frames, NEW G \in Frames
  PROVE  <<F, G>> \o s = <<F>> \o (<<G>> \o s)
<1> DEFINE t == <<F, G>> \o s
           r == <<G>> \o s
           u == <<F>> \o r
<1>1. Len(s) \in Nat /\ t \in Seq(Frames) /\ r \in Seq(Frames) /\ u \in Seq(Frames)
  OBVIOUS
<1>2. Len(t) = Len(s) + 2 /\ t[1] = F /\ t[2] = G /\ \A i \in 1..Len(s) : t[i+2] = s[i]
  OBVIOUS
<1>3. Len(r) = Len(s) + 1 /\ r[1] = G /\ \A i \in 1..Len(s) : r[i+1] = s[i]
  OBVIOUS
<1> HIDE DEF r, t
<1>4. Len(u) = Len(r) + 1 /\ u[1] = F /\ \A i \in 1..Len(r) : u[i+1] = r[i]
  BY <1>1
<1> HIDE DEF u
<1>5. ASSUME NEW i \in 1..Len(t)  PROVE t[i] = u[i]
  <2>1. CASE i = 1
    BY <1>2, <1>4, <2>1
  <2>2. CASE i = 2
    <3>1. 1 \in 1..Len(r) /\ 1 + 1 = 2
      BY <1>1, <1>3
    <3> QED  BY <1>2, <1>3, <1>4, <2>2, <3>1
  <2>3. CASE i > 2
    <3>1. i - 2 \in 1..Len(s) /\ (i - 2) + 2 = i /\ i - 1 \in 1..Len(r) /\ (i - 1) + 1 = i /\ (i - 2) + 1 = i - 1
      BY <1>1, <1>2, <1>3, <2>3
    <3>2. t[i] = s[i-2] /\ u[i] = r[i-1] /\ r[i-1] = s[i-2]
      BY <1>2, <1>3, <1>4, <3>1
    <3> QED  BY <3>2
  <2> QED  BY <1>1, <1>2, <2>1, <2>2, <2>3
<1>6. Len(t) = Len(u)
  BY <1>1, <1>2, <1>3, <1>4
<1>7. t = u
  BY ONLY <1>1, <1>5, <1>6
<1> QED  BY <1>7 DEF t, u, r

LEMMA HeadTail ==
  ASSUME NEW s \in Seq(Frames), s # <<>>
  PROVE  /\ Head(s) \in Frames /\ Tail(s) \in Seq(Frames) /\ Len(Tail(s)) = Len(s) - 1 /\ Len(s) \in Nat \ {0}
         /\ ToSet(s) = {Head(s)} \cup ToSet(Tail(s))
<1>1. Head(s) \in Frames /\ Tail(s) \in Seq(Frames) /\ Len(Tail(s)) = Len(s) - 1 /\ Len(s) \in Nat \ {0}
  OBVIOUS
<1>2. s = <<Head(s)>> \o Tail(s)
  OBVIOUS
<1> QED  BY <1>1, <1>2, ConsSet

LEMMA TopSet ==
  ASSUME IInv, stack # <<>>
  PROVE  /\ stack \in Seq(Frames) /\ Rest \in Seq(Frames)
         /\ Top \in Frames /\ ToSet(Rest) \subseteq Frames
         /\ ToSet(stack) = {Top} \cup ToSet(Rest)
         /\ Len(stack) \in Nat \ {0} /\ Top.depth = Len(stack) - 1 /\ Len(Rest) = Len(stack) - 1
         /\ \A b \in ToSet(Rest) : b.depth \in 0..(Len(stack) - 2)
<1>1. stack \in Seq(Frames) /\ \A i \in DOMAIN stack : stack[i].depth = Len(stack) - i
  BY DEF IInv, StackOK
<1>2. /\ Top \in Frames /\ Rest \in Seq(Frames) /\ Len(Rest) = Len(stack) - 1
      /\ Len(stack) \in Nat \ {0} /\ ToSet(stack) = {Top} \cup ToSet(Rest)
  BY <1>1, HeadTail DEF Top, Rest
<1>3. 1 \in DOMAIN stack /\ Top = stack[1]
  BY <1>1 DEF Top
<1>4. \A i \in DOMAIN Rest : Rest[i] = stack[i+1] /\ i + 1 \in DOMAIN stack /\ i \in 1..(Len(stack) - 1)
  BY <1>1, <1>2 DEF Rest
<1>5. \A b \in ToSet(Rest) : b.depth \in 0..(Len(stack) - 2)
  <2> SUFFICES ASSUME NEW i \in DOMAIN Rest  PROVE Rest[i].depth \in 0..(Len(stack) - 2)
    BY DEF ToSet
  <2>1. Rest[i].depth = Len(stack) - (i + 1)
    BY <1>1, <1>4
  <2> QED  BY <1>2, <1>4, <2>1
<1>6. ToSet(Rest) \subseteq Frames
  BY <1>2 DEF ToSet
<1> QED  BY <1>1, <1>2, <1>3, <1>5, <1>6

\* G is what a frame becomes as it takes its next value.
Goes(frame, G, found, visited) ==
  /\ G.todo = Tail(frame.todo) /\ G.found = frame.found \cup found /\ G.visited = visited
  /\ G.alt = frame.alt /\ G.fresh = frame.fresh /\ G.depth = frame.depth

LEMMA AnsweredSet ==
  ASSUME IInv, Tracing, NEW found \in SUBSET Sentinels, NEW visited \in SUBSET Values,
         stack' = <<[Top EXCEPT !.todo = Tail(@), !.found = @ \cup found, !.visited = visited]>> \o Rest
  PROVE  \E G \in Frames : Goes(Top, G, found, visited) /\ ToSet(stack') = {G} \cup ToSet(Rest)
                           /\ Len(stack') = Len(stack)
<1> DEFINE G == [Top EXCEPT !.todo = Tail(@), !.found = @ \cup found, !.visited = visited]
<1>1. Top \in Frames /\ Rest \in Seq(Frames) /\ Tail(Top.todo) \in Seq(Values)
      /\ Len(stack) \in Nat \ {0} /\ Len(Rest) = Len(stack) - 1
  BY TopSet, ValueTyped DEF Tracing
<1>2. Goes(Top, G, found, visited) /\ G \in Frames
  BY <1>1 DEF Frames, Goes
<1> HIDE DEF G
<1>3. stack' = <<G>> \o Rest
  BY DEF G
<1>4. ToSet(stack') = {G} \cup ToSet(Rest) /\ Len(stack') = Len(Rest) + 1
  BY <1>1, <1>2, <1>3, ConsSet
<1>5. Len(stack') = Len(stack)
  BY <1>1, <1>4
<1> QED  BY <1>2, <1>4, <1>5

\* F is put on top of the frame that went on as G.
Enters(F, G, todo, fresh, alt) ==
  /\ F.todo = todo /\ F.depth = Top.depth + 1 /\ F.fresh = fresh /\ F.found = {} /\ F.alt = alt
  /\ F.visited = (IF fresh THEN {} ELSE Visited \cup {V})
  /\ Goes(Top, G, {}, Visited \cup {V})
  /\ ToSet(stack') = {F} \cup ({G} \cup ToSet(Rest))
  /\ Len(stack') = Len(stack) + 1

LEMMA DescendedSet ==
  ASSUME IInv, Open, NEW todo \in Seq(Values), NEW fresh \in BOOLEAN, NEW alt \in SUBSET Sentinels,
         Descend(todo, fresh, alt)
  PROVE  \E F, G \in Frames : Enters(F, G, todo, fresh, alt)
<1> DEFINE F == Frame(todo, Top.depth + 1, fresh, IF fresh THEN {} ELSE Visited \cup {V}, alt)
           G == [Top EXCEPT !.todo = Tail(@), !.visited = Visited \cup {V}]
           r == <<G>> \o Rest
<1>1. Tracing /\ Top.depth <= MaxTraceDepth
  BY DEF Open
<1>2. Top \in Frames /\ Rest \in Seq(Frames) /\ Tail(Top.todo) \in Seq(Values)
      /\ Len(stack) \in Nat \ {0} /\ Len(Rest) = Len(stack) - 1
      /\ Visited \in SUBSET Values /\ V \in Values
  BY <1>1, TopSet, ValueTyped DEF Tracing
<1>3. Goes(Top, G, {}, Visited \cup {V}) /\ G \in Frames
  BY <1>2 DEF Frames, Goes
<1>4. F \in Frames
      /\ F.todo = todo /\ F.depth = Top.depth + 1 /\ F.fresh = fresh /\ F.found = {} /\ F.alt = alt
      /\ F.visited = IF fresh THEN {} ELSE Visited \cup {V}
  <2>1. Top.depth + 1 \in 0..(MaxTraceDepth + 1)
    BY <1>1, <1>2, LimitAssumption DEF Frames
  <2>2. (IF fresh THEN {} ELSE Visited \cup {V}) \in SUBSET Values
    BY <1>2
  <2> QED  BY <2>1, <2>2 DEF Frames, Frame
<1>5. stack' = <<F, G>> \o Rest
  BY DEF Descend
<1> HIDE DEF F, G
<1>6. stack' = <<F>> \o r
  BY <1>2, <1>3, <1>4, <1>5, ConsTwo
<1>7. r \in Seq(Frames) /\ Len(r) = Len(Rest) + 1 /\ ToSet(r) = {G} \cup ToSet(Rest)
  BY <1>2, <1>3, ConsSet
<1> HIDE DEF r
<1>8. ToSet(stack') = {F} \cup ToSet(r) /\ Len(stack') = Len(r) + 1
  BY <1>4, <1>6, <1>7, ConsSet
<1>9. Enters(F, G, todo, fresh, alt)
  BY <1>2, <1>3, <1>4, <1>7, <1>8 DEF Enters
<1> QED  BY <1>3, <1>4, <1>9

LEMMA ReturnedSet ==
  ASSUME IInv, Return
  PROVE  \E C, D \in Frames, Q \in SUBSET Frames :
           /\ ToSet(stack) = {Top} \cup ({C} \cup Q) /\ C.depth = Len(stack) - 2 /\ Len(stack) > 1
           /\ \A b \in Q : b.depth \in 0..(Len(stack) - 2)
           /\ D.todo = C.todo /\ D.alt = C.alt /\ D.fresh = C.fresh /\ D.depth = C.depth
           /\ D.found = C.found \cup (IF Top.found # {} THEN Top.found ELSE Top.alt)
           /\ D.visited = IF Top.fresh THEN C.visited ELSE Top.visited
           /\ ToSet(stack') = {D} \cup Q
           /\ Len(stack') = Len(stack) - 1
<1> DEFINE C == Head(Rest)
           D == [C EXCEPT !.found = @ \cup (IF Top.found # {} THEN Top.found ELSE Top.alt),
                          !.visited = IF Top.fresh THEN @ ELSE Top.visited]
           q == Tail(Rest)
<1>1. stack # <<>> /\ Rest # <<>> /\ stack' = <<D>> \o q
  BY DEF Return
<1>2. /\ stack \in Seq(Frames) /\ Rest \in Seq(Frames) /\ Top \in Frames
      /\ ToSet(stack) = {Top} \cup ToSet(Rest) /\ Len(stack) \in Nat \ {0} /\ Len(Rest) = Len(stack) - 1
      /\ \A b \in ToSet(Rest) : b.depth \in 0..(Len(stack) - 2)
      /\ \A i \in DOMAIN stack : stack[i].depth = Len(stack) - i
  BY <1>1, TopSet DEF IInv, StackOK
<1>3. /\ C \in Frames /\ q \in Seq(Frames) /\ Len(q) = Len(Rest) - 1 /\ Len(Rest) \in Nat \ {0}
      /\ ToSet(Rest) = {C} \cup ToSet(q)
  BY <1>1, <1>2, HeadTail
<1>4. C.depth = Len(stack) - 2
  <2>1. C = stack[2] /\ 2 \in DOMAIN stack
    <3>1. stack \in Seq(Frames) /\ stack # <<>> /\ Rest # <<>> /\ Rest = Tail(stack)
      BY <1>1, <1>2 DEF Rest
    <3>2. Head(Rest) = stack[2] /\ 2 \in DOMAIN stack
      BY ONLY <3>1
    <3> QED  BY <3>2
  <2> QED  BY <1>2, <2>1
<1>5. D \in Frames /\ D.todo = C.todo /\ D.alt = C.alt /\ D.fresh = C.fresh /\ D.depth = C.depth
      /\ D.found = C.found \cup (IF Top.found # {} THEN Top.found ELSE Top.alt)
      /\ D.visited = IF Top.fresh THEN C.visited ELSE Top.visited
  <2> HIDE DEF C
  <2>1. (IF Top.fresh THEN C.visited ELSE Top.visited) \in SUBSET Values
        /\ (IF Top.found # {} THEN Top.found ELSE Top.alt) \in SUBSET Sentinels
    BY <1>2, <1>3 DEF Frames
  <2> QED  BY <1>3, <2>1 DEF Frames
<1>6. ToSet(q) \subseteq Frames
  BY <1>3 DEF ToSet
<1> HIDE DEF C, D, q
<1>7. ToSet(stack') = {D} \cup ToSet(q) /\ Len(stack') = Len(q) + 1
  BY <1>1, <1>3, <1>5, ConsSet
<1>8. Len(stack') = Len(stack) - 1 /\ Len(stack) > 1
  BY <1>2, <1>3, <1>7
<1>9. ToSet(stack) = {Top} \cup ({C} \cup ToSet(q)) /\ \A b \in ToSet(q) : b.depth \in 0..(Len(stack) - 2)
  BY <1>2, <1>3
<1> QED  BY <1>3, <1>4, <1>5, <1>6, <1>7, <1>8, <1>9

-----------------------------------------------------------------------------
(* The path to the top.                                                    *)

\* Below depth n the frame at depth d, of own[d], waits for its value exp[d];
\* no value is expanded twice on the way.
Path(p, S, n, own, exp, vf, from) ==
  /\ \A d \in 0..n : own[d] \in vf /\ own[d] \in CalledFrom(p, from)
  /\ \A d \in 0..(n - 1) : exp[d] \in Values /\ Computed(p, exp[d]) /\ p.home[exp[d]] = own[d]
  /\ \A c, d \in 0..(n - 1) : exp[c] = exp[d] => c = d
  /\ \A a \in S :
       /\ a.depth \in 0..n
       /\ \A v \in ToSet(a.todo) : Computed(p, v) => p.home[v] = own[a.depth]
       /\ ~a.fresh => a.depth > 0 /\ own[a.depth] = own[a.depth - 1]
       /\ \A c \in 0..(a.depth - 1) : own[c] = own[a.depth] => ~a.fresh /\ exp[c] \in a.visited

With(g, n, x) == [d \in 0..n |-> IF d = n THEN x ELSE g[d]]

\* As many computed values fit above the bottom as there are.
LEMMA PathShort ==
  ASSUME NEW p, NEW S, NEW n \in Nat, NEW own, NEW exp, NEW vf, NEW from,
         Path(p, S, n, own, exp, vf, from)
  PROVE  /\ n <= Cardinality({v \in Values : Computed(p, v)})
         /\ \A v \in Values : Computed(p, v) /\ (\A d \in 0..(n - 1) : exp[d] # v) =>
              n + 1 <= Cardinality({u \in Values : Computed(p, u)})
<1> DEFINE C == {v \in Values : Computed(p, v)}
<1>1. IsFiniteSet(C)
  BY FS_Subset, FiniteAssumption
<1>2. \A d \in 0..(n - 1) : exp[d] \in C
  BY DEF Path
<1>3. \A c, d \in 0..(n - 1) : exp[c] = exp[d] => c = d
  BY DEF Path
<1>4. ASSUME NEW m \in Nat, NEW f, f \in Injection(0..(m - 1), C)  PROVE m <= Cardinality(C)
  <2>1. Cardinality(0..(m - 1)) = m
    <3>1. 0 \in Int /\ m - 1 \in Int
      OBVIOUS
    <3>2. Cardinality(0..(m - 1)) = IF 0 > m - 1 THEN 0 ELSE (m - 1) - 0 + 1
      BY <3>1, FS_Interval
    <3> QED  BY <3>2
  <2>2. Cardinality(0..(m - 1)) <= Cardinality(C)
    BY <1>1, <1>4, FS_Injection
  <2> QED  BY <2>1, <2>2
<1> HIDE DEF C
<1>5. n <= Cardinality(C)
  <2> DEFINE f == [d \in 0..(n - 1) |-> exp[d]]
  <2>1. f \in Injection(0..(n - 1), C)
    BY <1>2, <1>3 DEF Injection, IsInjective
  <2> QED  BY <1>4, <2>1
<1>6. ASSUME NEW v \in Values, Computed(p, v), \A d \in 0..(n - 1) : exp[d] # v
      PROVE  n + 1 <= Cardinality(C)
  <2> DEFINE f == With(exp, n, v)
  <2>1. f = [d \in 0..((n + 1) - 1) |-> IF d = n THEN v ELSE exp[d]]
    BY DEF With
  <2>2. v \in C /\ \A d \in 0..((n + 1) - 1) : d = n \/ d \in 0..(n - 1)
    BY <1>6 DEF C
  <2> HIDE DEF f
  <2>3. f \in Injection(0..((n + 1) - 1), C)
    <3>1. f \in [0..((n + 1) - 1) -> C]
      BY <1>2, <2>1, <2>2
    <3>2. \A a, b \in 0..((n + 1) - 1) : f[a] = f[b] => a = b
      BY <1>3, <1>6, <2>1, <2>2
    <3> QED  BY <3>1, <3>2 DEF Injection, IsInjective
  <2> QED  BY <1>4, <2>3
<1> QED  BY <1>5, <1>6 DEF C

\* A value that its frame has not seen is not being expanded.
LEMMA NotExpanding ==
  ASSUME NEW p, NEW S, NEW n \in Nat, NEW own, NEW exp, NEW vf, NEW from,
         Path(p, S, n, own, exp, vf, from),
         NEW a \in S, a.depth = n, NEW v \in ToSet(a.todo), Computed(p, v),
         v \notin (IF a.fresh THEN {} ELSE a.visited)
  PROVE  \A d \in 0..(n - 1) : exp[d] # v
<1> SUFFICES ASSUME NEW d \in 0..(n - 1), exp[d] = v  PROVE FALSE
  OBVIOUS
<1>1. p.home[v] = own[d] /\ p.home[v] = own[n]
  BY DEF Path
<1>2. ~a.fresh /\ exp[d] \in a.visited
  BY <1>1 DEF Path
<1> QED  BY <1>2

LEMMA PathTakes ==
  ASSUME NEW p, NEW R, NEW a, NEW n, NEW own, NEW exp, NEW vf, NEW from,
         Path(p, {a} \cup R, n, own, exp, vf, from),
         NEW G, G.depth = a.depth, G.fresh = a.fresh, ToSet(G.todo) \subseteq ToSet(a.todo),
         ~a.fresh => a.visited \subseteq G.visited
  PROVE  Path(p, {G} \cup R, n, own, exp, vf, from)
BY DEF Path

LEMMA PathPushes ==
  ASSUME NEW p, NEW S, NEW n \in Nat, NEW own, NEW exp, NEW vf, NEW wf, NEW from,
         Path(p, S, n, own, exp, vf, from), vf \subseteq wf,
         NEW v \in Values, Computed(p, v), p.home[v] = own[n], \A d \in 0..(n - 1) : exp[d] # v,
         NEW f \in wf, f \in CalledFrom(p, from),
         NEW F, F.depth = n + 1, \A u \in ToSet(F.todo) : Computed(p, u) => p.home[u] = f,
         F.fresh => f \notin vf,
         ~F.fresh => /\ f = own[n] /\ v \in F.visited
                     /\ \A c \in 0..(n - 1) : own[c] = f => exp[c] \in F.visited
  PROVE  Path(p, {F} \cup S, n + 1, With(own, n + 1, f), With(exp, n, v), wf, from)
<1> DEFINE o == With(own, n + 1, f)
           e == With(exp, n, v)
<1>0. o = [d \in 0..(n + 1) |-> IF d = n + 1 THEN f ELSE own[d]]
      /\ e = [d \in 0..n |-> IF d = n THEN v ELSE exp[d]]
  BY DEF With
<1> HIDE DEF o, e
<1>1. (n + 1) - 1 = n /\ \A d \in 0..(n + 1) : d = n + 1 \/ d \in 0..n
  OBVIOUS
<1>2. o[n+1] = f /\ \A d \in 0..n : o[d] = own[d]
  BY <1>0
<1>3. e[n] = v /\ \A d \in 0..(n - 1) : e[d] = exp[d]
  BY <1>0
<1>4. \A d \in 0..n : d = n \/ d \in 0..(n - 1)
  OBVIOUS
<1>5. \A d \in 0..(n + 1) : o[d] \in wf /\ o[d] \in CalledFrom(p, from)
  BY <1>1, <1>2 DEF Path
<1>6. \A d \in 0..n : e[d] \in Values /\ Computed(p, e[d]) /\ p.home[e[d]] = o[d]
  BY <1>2, <1>3, <1>4 DEF Path
<1>7. \A c, d \in 0..n : e[c] = e[d] => c = d
  BY <1>3, <1>4 DEF Path
<1>8. ASSUME NEW a \in {F} \cup S
      PROVE  /\ a.depth \in 0..(n + 1)
             /\ \A u \in ToSet(a.todo) : Computed(p, u) => p.home[u] = o[a.depth]
             /\ ~a.fresh => a.depth > 0 /\ o[a.depth] = o[a.depth - 1]
             /\ \A c \in 0..(a.depth - 1) : o[c] = o[a.depth] => ~a.fresh /\ e[c] \in a.visited
  <2>1. CASE a \in S
    <3>1. /\ a.depth \in 0..n
          /\ \A u \in ToSet(a.todo) : Computed(p, u) => p.home[u] = own[a.depth]
          /\ ~a.fresh => a.depth > 0 /\ own[a.depth] = own[a.depth - 1]
          /\ \A c \in 0..(a.depth - 1) : own[c] = own[a.depth] => ~a.fresh /\ exp[c] \in a.visited
      BY <2>1 DEF Path
    <3>2. /\ a.depth \in 0..(n + 1) /\ o[a.depth] = own[a.depth]
          /\ a.depth > 0 => a.depth - 1 \in 0..n
          /\ \A c \in 0..(a.depth - 1) : c \in 0..n /\ c \in 0..(n - 1)
      BY <1>2, <3>1
    <3> QED  BY <1>2, <1>3, <3>1, <3>2
  <2>2. CASE a = F
    <3>1. o[a.depth] = f /\ a.depth - 1 = n /\ a.depth > 0 /\ a.depth \in 0..(n + 1) /\ n \in 0..n
      BY <1>2, <2>2
    <3>2. \A u \in ToSet(a.todo) : Computed(p, u) => p.home[u] = o[a.depth]
      BY <2>2, <3>1
    <3>3. ~a.fresh => o[a.depth] = o[a.depth - 1]
      BY <1>2, <2>2, <3>1
    <3>4. ASSUME NEW c \in 0..n, o[c] = f  PROVE ~a.fresh /\ e[c] \in a.visited
      <4>1. own[c] = f /\ own[c] \in vf
        BY <1>2, <3>4 DEF Path
      <4>2. ~F.fresh
        BY <4>1
      <4> QED  BY <1>3, <1>4, <2>2, <4>1, <4>2
    <3> QED  BY <3>1, <3>2, <3>3, <3>4
  <2> QED  BY <2>1, <2>2
<1>9. Path(p, {F} \cup S, n + 1, o, e, wf, from)
  BY <1>1, <1>5, <1>6, <1>7, <1>8 DEF Path
<1> QED  BY <1>9 DEF o, e

LEMMA PathPops ==
  ASSUME NEW p, NEW a, NEW C, NEW Q, NEW n \in Nat, NEW own, NEW exp, NEW vf, NEW from,
         Path(p, {a} \cup ({C} \cup Q), n, own, exp, vf, from), n > 0,
         a.depth = n, C.depth = n - 1, \A b \in Q : b.depth \in 0..(n - 1),
         NEW D, D.todo = C.todo, D.fresh = C.fresh, D.depth = C.depth,
         D.visited = IF a.fresh THEN C.visited ELSE a.visited
  PROVE  Path(p, {D} \cup Q, n - 1, own, exp, vf, from)
<1>1. (\A d \in 0..(n - 1) : d \in 0..n) /\ \A d \in 0..((n - 1) - 1) : d \in 0..(n - 1)
  OBVIOUS
<1>2. n - 1 \in 0..(n - 1)
  OBVIOUS
<1>3. ASSUME NEW c \in 0..((n - 1) - 1), own[c] = own[n-1]  PROVE ~D.fresh /\ exp[c] \in D.visited
  <2>1. ~C.fresh /\ exp[c] \in C.visited
    BY <1>3 DEF Path
  <2>2. CASE a.fresh
    BY <2>1, <2>2
  <2>3. CASE ~a.fresh
    <3>1. own[n] = own[n-1] /\ c \in 0..(n - 1)
      BY <1>1, <2>3 DEF Path
    <3>2. exp[c] \in a.visited
      BY <1>3, <3>1 DEF Path
    <3> QED  BY <2>1, <2>3, <3>2
  <2> QED  BY <2>2, <2>3
<1>4. /\ D.depth \in 0..(n - 1)
      /\ \A v \in ToSet(D.todo) : Computed(p, v) => p.home[v] = own[D.depth]
      /\ ~D.fresh => D.depth > 0 /\ own[D.depth] = own[D.depth - 1]
  BY <1>2 DEF Path
<1>5. ASSUME NEW b \in {D} \cup Q
      PROVE  /\ b.depth \in 0..(n - 1)
             /\ \A v \in ToSet(b.todo) : Computed(p, v) => p.home[v] = own[b.depth]
             /\ ~b.fresh => b.depth > 0 /\ own[b.depth] = own[b.depth - 1]
             /\ \A c \in 0..(b.depth - 1) : own[c] = own[b.depth] => ~b.fresh /\ exp[c] \in b.visited
  <2>1. CASE b \in Q
    BY <2>1 DEF Path
  <2>2. CASE b = D
    BY <1>3, <1>4, <2>2
  <2> QED  BY <2>1, <2>2
<1> QED  BY <1>1, <1>5 DEF Path

-----------------------------------------------------------------------------
(* The type of a value is reported unless something else is found in it,   *)
(* and under a type that counts there is nothing to find.                  *)

Dead(S, Z, may) ==
  \A a, b \in S :
    a.alt \cap Z # {} /\ b.depth >= a.depth =>
      /\ b.found = {} /\ \A v \in ToSet(b.todo) : may.val[v] = {}
      /\ b.depth > a.depth => b.alt = {}

LEMMA DeadTakes ==
  ASSUME NEW R, NEW a, NEW Z, NEW may, Dead({a} \cup R, Z, may),
         NEW v \in ToSet(a.todo), NEW found, found \subseteq may.val[v],
         NEW G, G.depth = a.depth, G.alt = a.alt, G.found = a.found \cup found,
         ToSet(G.todo) \subseteq ToSet(a.todo)
  PROVE  Dead({G} \cup R, Z, may)
<1> SUFFICES ASSUME NEW x \in {G} \cup R, NEW y \in {G} \cup R, x.alt \cap Z # {}, y.depth >= x.depth
             PROVE  /\ y.found = {} /\ \A u \in ToSet(y.todo) : may.val[u] = {}
                    /\ y.depth > x.depth => y.alt = {}
  BY DEF Dead
<1>1. PICK w \in {a} \cup R : w.alt = x.alt /\ w.depth = x.depth
  OBVIOUS
<1>2. CASE y \in R
  BY <1>1, <1>2 DEF Dead
<1>3. CASE y = G
  <2>1. a.found = {} /\ (\A u \in ToSet(a.todo) : may.val[u] = {}) /\ (a.depth > w.depth => a.alt = {})
    BY <1>1, <1>3 DEF Dead
  <2> QED  BY <1>1, <1>3, <2>1
<1> QED  BY <1>2, <1>3

LEMMA DeadPushes ==
  ASSUME NEW R, NEW a, NEW Z, NEW may, Dead({a} \cup R, Z, may),
         NEW G, G.depth = a.depth, Dead({G} \cup R, Z, may),
         G.alt = a.alt, a.depth \in Nat, \A b \in R : b.depth \in 0..(a.depth - 1),
         NEW v \in ToSet(a.todo),
         NEW F, F.depth = a.depth + 1, F.found = {}, F.alt \subseteq may.val[v],
         \A u \in ToSet(F.todo) : may.val[u] \subseteq may.val[v],
         F.alt \cap Z # {} => \A u \in ToSet(F.todo) : may.val[u] = {}
  PROVE  Dead({F} \cup ({G} \cup R), Z, may)
<1> SUFFICES ASSUME NEW x \in {F} \cup ({G} \cup R), NEW y \in {F} \cup ({G} \cup R),
                    x.alt \cap Z # {}, y.depth >= x.depth
             PROVE  /\ y.found = {} /\ \A u \in ToSet(y.todo) : may.val[u] = {}
                    /\ y.depth > x.depth => y.alt = {}
  BY DEF Dead
<1>1. CASE x \in {G} \cup R /\ y \in {G} \cup R
  BY <1>1 DEF Dead
<1>2. CASE x = F
  <2>1. y = F
    BY <1>2
  <2> QED  BY <1>2, <2>1
<1>3. CASE x \in {G} \cup R /\ y = F
  <2>1. PICK w \in {a} \cup R : w.alt = x.alt /\ w.depth = x.depth /\ a.depth >= w.depth
    BY <1>3
  <2>2. may.val[v] = {}
    BY <2>1 DEF Dead
  <2> QED  BY <1>3, <2>2
<1> QED  BY <1>1, <1>2, <1>3

LEMMA DeadPops ==
  ASSUME NEW a, NEW C, NEW Q, NEW Z, NEW may, Dead({a} \cup ({C} \cup Q), Z, may),
         NEW n \in Nat, a.depth = n, C.depth = n - 1, \A b \in Q : b.depth \in 0..(n - 1),
         NEW D, D.todo = C.todo, D.alt = C.alt, D.depth = C.depth,
         D.found = C.found \cup (IF a.found # {} THEN a.found ELSE a.alt)
  PROVE  Dead({D} \cup Q, Z, may) /\ Got({a} \cup ({C} \cup Q)) \cap Z \subseteq Got({D} \cup Q)
<1>1. Dead({D} \cup Q, Z, may)
  <2> SUFFICES ASSUME NEW x \in {D} \cup Q, NEW y \in {D} \cup Q, x.alt \cap Z # {}, y.depth >= x.depth
               PROVE  /\ y.found = {} /\ \A u \in ToSet(y.todo) : may.val[u] = {}
                      /\ y.depth > x.depth => y.alt = {}
    BY DEF Dead
  <2>1. PICK w \in {C} \cup Q : w.alt = x.alt /\ w.depth = x.depth
    OBVIOUS
  <2>2. CASE y \in Q
    BY <2>1, <2>2 DEF Dead
  <2>3. CASE y = D
    <3>1. C.found = {} /\ (\A u \in ToSet(C.todo) : may.val[u] = {}) /\ (C.depth > w.depth => C.alt = {})
      BY <2>1, <2>3 DEF Dead
    <3>2. a.depth >= w.depth /\ a.depth > w.depth
      BY <2>1
    <3>3. a.found = {} /\ a.alt = {}
      BY <2>1, <3>2 DEF Dead
    <3> QED  BY <2>1, <2>3, <3>1, <3>3
  <2> QED  BY <2>2, <2>3
<1>2. ASSUME NEW s \in Got({a} \cup ({C} \cup Q)), s \in Z  PROVE s \in Got({D} \cup Q)
  <2>1. PICK b \in {a} \cup ({C} \cup Q) : s \in b.found \cup b.alt
    BY <1>2 DEF Got
  <2>2. CASE b \in Q
    BY <2>1, <2>2 DEF Got
  <2>3. CASE b = C
    <3>1. s \in D.found \cup D.alt
      BY <2>1, <2>3
    <3> QED  BY <3>1 DEF Got
  <2>4. CASE b = a
    <3>1. a.alt \cap Z # {} => a.found = {}
      BY DEF Dead
    <3>2. s \in D.found
      BY <1>2, <2>1, <2>4, <3>1
    <3> QED  BY <3>2 DEF Got
  <2> QED  BY <2>1, <2>2, <2>3, <2>4
<1> QED  BY <1>1, <1>2

-----------------------------------------------------------------------------
(* The invariant of the search.                                            *)

\* What is asked of the program for the fact of the function at hand.
Promised == Small /\ Seen /\ ImportsComplete /\ Exports(Func) /\ MethodsFirst(next)

FactsInv ==
  /\ stack # <<>> => prog.fn[Func].body /\ prog.fn[Func].err /\ Func \in visitedFuncs
  /\ \A f \in Funcs :
       facts[f] = prog.facts[f] \/ (Exports(f) /\ \E k \in 1..(next - 1) : prog.order[k] = f)

CompleteSoFar ==
  Small /\ Seen /\ ImportsComplete =>
    \A i \in 1..(next - 1) :
      Exports(prog.order[i]) /\ MethodsFirst(i)
        => Expected(prog.order[i]) \subseteq facts[prog.order[i]]

PathInv ==
  stack # <<>> =>
    \E own, exp : Path(prog, ToSet(stack), Len(stack) - 1, own, exp, visitedFuncs, Func)

DeadInv ==
  /\ Dead(ToSet(stack), Shown, May(prog))
  /\ \A a \in ToSet(stack) : a.depth = 0 => a.alt = {}

SearchInv ==
  stack # <<>> /\ Promised =>
    \E T : /\ Met(prog, Shown, T, Pending(ToSet(stack)), visitedFuncs, Got(ToSet(stack)))
           /\ \A a \in ToSet(stack) : a.visited \subseteq T

LEMMA SameFacts ==
  ASSUME prog' = prog
  PROVE  /\ Shown' = Shown /\ Small' = Small /\ Seen' = Seen /\ ImportsComplete' = ImportsComplete
         /\ \A f : Exports(f)' = Exports(f) /\ Expected(f)' = Expected(f)
         /\ \A i : MethodsFirst(i)' = MethodsFirst(i)
<1>1. Shown' = Shown
  BY DEF Shown
<1>2. \A f : Exports(f)' = Exports(f) /\ Expected(f)' = Expected(f)
  BY <1>1 DEF Exports, Expected
<1>3. Small' = Small /\ Seen' = Seen
  BY DEF Small, Seen
<1>4. ImportsComplete' = ImportsComplete
  BY <1>2 DEF ImportsComplete, Summary
<1>5. \A i : MethodsFirst(i)' = MethodsFirst(i)
  BY <1>2 DEF MethodsFirst
<1> QED  BY <1>1, <1>2, <1>3, <1>4, <1>5

LEMMA SameProgram ==
  ASSUME UNCHANGED <<prog, next>>
  PROVE  /\ Func' = Func /\ Shown' = Shown /\ Promised' = Promised
         /\ facts' = facts /\ visitedFuncs \subseteq visitedFuncs' /\ stack # <<>> /\ FactsInv /\ CompleteSoFar =>
              FactsInv' /\ CompleteSoFar'
<1>1. Func' = Func
  BY DEF Func
<1>2. MethodsFirst(next)' = MethodsFirst(next) /\ Exports(Func)' = Exports(Func)
  BY <1>1, SameFacts
<1>3. Promised' = Promised
  BY <1>2, SameFacts DEF Promised
<1>4. ASSUME facts' = facts, visitedFuncs \subseteq visitedFuncs', stack # <<>>, FactsInv, CompleteSoFar
      PROVE  FactsInv' /\ CompleteSoFar'
  <2>1. FactsInv'
    BY <1>1, <1>4, SameFacts DEF FactsInv
  <2>2. CompleteSoFar'
    BY <1>4, SameFacts DEF CompleteSoFar
  <2> QED  BY <2>1, <2>2
<1> QED  BY <1>1, <1>3, <1>4, SameFacts

LEMMA SearchNext ==
  ASSUME UNCHANGED <<prog, next>>,
         Promised =>
           \E T : /\ Met(prog, Shown, T, Pending(ToSet(stack')), visitedFuncs', Got(ToSet(stack')))
                  /\ \A a \in ToSet(stack') : a.visited \subseteq T
  PROVE  SearchInv'
BY SameProgram DEF SearchInv

-----------------------------------------------------------------------------
(* The steps of the search.                                                *)

LEMMA TodoSet ==
  ASSUME IInv, Tracing
  PROVE  /\ ToSet(Top.todo) = {V} \cup ToSet(Tail(Top.todo)) /\ V \in Values
         /\ Visited \subseteq Top.visited /\ Visited \in SUBSET Values
<1>1. Top.todo \in Seq(Values) /\ Top.todo # <<>> /\ Top \in Frames
  BY TopTyped DEF Tracing, Frames
<1> DEFINE s == Top.todo
           t == Tail(s)
<1>2. s \in Seq(Values) /\ s # <<>>
  BY <1>1
<1>3. V = s[1]
  BY <1>2 DEF V
<1> HIDE DEF s
<1>4. /\ DOMAIN s = 1..Len(s) /\ DOMAIN t = 1..(Len(s) - 1) /\ Len(s) \in Nat \ {0}
      /\ \A i \in 1..(Len(s) - 1) : t[i] = s[i+1]
  BY <1>2
<1> HIDE DEF t
<1>5. \A i \in DOMAIN s : i = 1 \/ (i - 1 \in DOMAIN t /\ t[i-1] = s[i])
  <2> SUFFICES ASSUME NEW i \in DOMAIN s, i # 1  PROVE i - 1 \in DOMAIN t /\ t[i-1] = s[i]
    OBVIOUS
  <2>1. i - 1 \in 1..(Len(s) - 1) /\ (i - 1) + 1 = i
    BY <1>4
  <2> QED  BY <1>4, <2>1
<1>6. \A i \in DOMAIN t : i + 1 \in DOMAIN s /\ t[i] = s[i+1]
  BY <1>4
<1>7. 1 \in DOMAIN s
  BY <1>4
<1>8. ToSet(s) = {s[1]} \cup ToSet(t)
  BY <1>5, <1>6, <1>7 DEF ToSet
<1> QED  BY <1>3, <1>8, ValueTyped DEF s, t, Visited

LEMMA Shallow ==
  ASSUME IInv, PathInv, Tracing
  PROVE  /\ Small => Top.depth <= MaxTraceDepth
         /\ Small /\ Computed(prog, V) /\ V \notin Visited => Top.depth + 1 <= MaxTraceDepth
         /\ Computed(prog, V) => prog.home[V] \in CalledFrom(prog, Func) /\ prog.home[V] \in visitedFuncs
<1> DEFINE n == Len(stack) - 1
<1>1. stack # <<>> /\ Top \in ToSet(stack) /\ Top.depth = n /\ n \in Nat /\ V \in ToSet(Top.todo) /\ V \in Values
  BY TopSet, TodoSet DEF Tracing
<1>2. PICK own, exp : Path(prog, ToSet(stack), n, own, exp, visitedFuncs, Func)
  BY <1>1 DEF PathInv
<1> HIDE DEF n
<1>3. n <= Cardinality({v \in Values : Computed(prog, v)})
      /\ (Computed(prog, V) /\ (\A d \in 0..(n - 1) : exp[d] # V) =>
            n + 1 <= Cardinality({u \in Values : Computed(prog, u)}))
  BY <1>1, <1>2, PathShort
<1>4. Computed(prog, V) /\ V \notin Visited => \A d \in 0..(n - 1) : exp[d] # V
  BY <1>1, <1>2, NotExpanding DEF Visited
<1>5. n \in 0..n
  BY <1>1
<1>6. Computed(prog, V) => prog.home[V] = own[n] /\ own[n] \in visitedFuncs /\ own[n] \in CalledFrom(prog, Func)
  BY <1>1, <1>2, <1>5 DEF Path
<1>7. Cardinality({v \in Values : Computed(prog, v)}) \in Nat
  <2>1. IsFiniteSet({v \in Values : Computed(prog, v)})
    BY FS_Subset, FiniteAssumption
  <2> QED  BY <2>1, FS_CardinalityType
<1> QED  BY <1>1, <1>3, <1>4, <1>6, <1>7, LimitAssumption DEF Small

\* A value is given an answer, or cut.
LEMMA AnswerSearch ==
  ASSUME IInv, PathInv, DeadInv, SearchInv, Tracing,
         NEW found \in SUBSET Sentinels, NEW visited \in SUBSET Values,
         stack' = <<[Top EXCEPT !.todo = Tail(@), !.found = @ \cup found, !.visited = visited]>> \o Rest,
         UNCHANGED <<prog, next, visitedFuncs>>,
         found \subseteq May(prog).val[V], Visited \subseteq visited,
         Promised => /\ visited \subseteq Visited \cup {V}
                     /\ V \in Visited \/ \A R, G : found \subseteq G =>
                                           Followed(prog, Shown, V, R, visitedFuncs, G)
  PROVE  PathInv' /\ DeadInv' /\ SearchInv'
<1> DEFINE n == Len(stack) - 1
           R == ToSet(Rest)
<1>1. stack # <<>> /\ ToSet(stack) = {Top} \cup R /\ Top \in Frames /\ n \in Nat /\ Top.depth = n
      /\ ToSet(Top.todo) = {V} \cup ToSet(Tail(Top.todo)) /\ V \in Values /\ Visited \subseteq Top.visited
  BY TopSet, TodoSet DEF Tracing
<1>2. PICK G \in Frames : /\ Goes(Top, G, found, visited) /\ ToSet(stack') = {G} \cup R
                          /\ Len(stack') = Len(stack)
  BY AnsweredSet
<1>3. /\ G.todo = Tail(Top.todo) /\ G.found = Top.found \cup found /\ G.visited = visited
      /\ G.alt = Top.alt /\ G.fresh = Top.fresh /\ G.depth = Top.depth
      /\ ToSet(G.todo) \subseteq ToSet(Top.todo)
  BY <1>1, <1>2 DEF Goes
<1>4. Func' = Func /\ Shown' = Shown /\ Promised' = Promised
  BY SameProgram
<1> HIDE DEF R
<1>5. PathInv'
  <2>1. PICK own, exp : Path(prog, {Top} \cup R, n, own, exp, visitedFuncs, Func)
    BY <1>1 DEF PathInv
  <2>2. ~Top.fresh => Top.visited \subseteq G.visited
    BY <1>3 DEF Visited
  <2>3. Path(prog, {G} \cup R, n, own, exp, visitedFuncs, Func)
    BY <1>3, <2>1, <2>2, PathTakes
  <2>4. Path(prog', ToSet(stack'), Len(stack') - 1, own, exp, visitedFuncs', Func')
    BY <1>2, <1>4, <2>3
  <2> QED  BY <2>4 DEF PathInv
<1>6. DeadInv'
  <2>1. Dead({Top} \cup R, Shown, May(prog))
    BY <1>1 DEF DeadInv
  <2>2. Dead({G} \cup R, Shown, May(prog))
    BY <1>1, <1>3, <2>1, DeadTakes
  <2>3. \A a \in {G} \cup R : a.depth = 0 => a.alt = {}
    BY <1>1, <1>3 DEF DeadInv
  <2> QED  BY <1>2, <1>4, <2>2, <2>3 DEF DeadInv
<1>7. SearchInv'
  <2> SUFFICES ASSUME Promised
               PROVE  \E T : /\ Met(prog, Shown, T, Pending({G} \cup R), visitedFuncs, Got({G} \cup R))
                             /\ \A a \in {G} \cup R : a.visited \subseteq T
    BY <1>2, SearchNext
  <2>1. PICK T : /\ Met(prog, Shown, T, Pending({Top} \cup R), visitedFuncs, Got({Top} \cup R))
                 /\ \A a \in {Top} \cup R : a.visited \subseteq T
    BY <1>1 DEF SearchInv
  <2> DEFINE U == T \cup {V}
             Q == Pending({G} \cup R)
             H == Got({G} \cup R)
  <2>2. U \in SUBSET Values /\ T \subseteq U
    BY <1>1, <2>1 DEF Met
  <2>3. T \cup Pending({Top} \cup R) \subseteq U \cup Q
    BY <1>1, <1>3 DEF Pending
  <2>4. Got({Top} \cup R) \subseteq H /\ found \subseteq H
    BY <1>3 DEF Got
  <2>5. \A v \in U \ T : Followed(prog, Shown, v, U \cup Q, visitedFuncs, H)
    <3> SUFFICES ASSUME V \notin T  PROVE Followed(prog, Shown, V, U \cup Q, visitedFuncs, H)
      OBVIOUS
    <3>1. V \notin Visited
      BY <1>1, <2>1
    <3> HIDE DEF U, Q, H
    <3> QED  BY <2>4, <3>1
  <2> HIDE DEF Q, H
  <2>6. Met(prog, Shown, U, Q, visitedFuncs, H)
    <3> HIDE DEF U
    <3>1. Grows(prog, Shown, T, Pending({Top} \cup R), visitedFuncs, Got({Top} \cup R), U, Q, visitedFuncs, H)
      BY <2>1, <2>2, <2>3, <2>4, <2>5 DEF Grows
    <3> QED  BY <2>1, <3>1, MetGrows
  <2>7. \A a \in {G} \cup R : a.visited \subseteq U
    BY <1>1, <1>3, <2>1
  <2> HIDE DEF U
  <2> QED  BY <2>6, <2>7 DEF Q, H
<1> QED  BY <1>5, <1>6, <1>7

\* V may be given the answers of `todo`, values of f: its own function, or one
\* that is entered.
Opens(todo, fresh, alt, f) ==
  /\ alt \subseteq May(prog).val[V]
  /\ \A u \in ToSet(todo) : May(prog).val[u] \subseteq May(prog).val[V]
  /\ alt \cap Shown # {} => \A u \in ToSet(todo) : May(prog).val[u] = {}
  /\ f \in CalledFrom(prog, Func) /\ visitedFuncs' = visitedFuncs \cup {f}
  /\ \A u \in ToSet(todo) : Computed(prog, u) => prog.home[u] = f
  /\ fresh => f \notin visitedFuncs /\ prog.fn[f].body /\ todo = prog.fn[f].rets
  /\ ~fresh => f = prog.home[V]
  /\ Promised => \A R, G : ToSet(todo) \subseteq R /\ alt \cap Shown \subseteq G =>
                             Followed(prog, Shown, V, R, visitedFuncs', G)

LEMMA DescendSearch ==
  ASSUME IInv, PathInv, DeadInv, SearchInv, Open, UNCHANGED <<prog, next>>, Computed(prog, V),
         NEW todo \in Seq(Values), NEW fresh \in BOOLEAN, NEW alt \in SUBSET Sentinels,
         Descend(todo, fresh, alt), NEW f, Opens(todo, fresh, alt, f)
  PROVE  PathInv' /\ DeadInv' /\ SearchInv'
<1> USE DEF Opens
<1> DEFINE n == Len(stack) - 1
           R == ToSet(Rest)
           wf == visitedFuncs \cup {f}
<1>0. Tracing /\ V \notin Visited
  BY DEF Open
<1>1. /\ stack # <<>> /\ ToSet(stack) = {Top} \cup R /\ Top \in Frames /\ n \in Nat /\ Top.depth = n
      /\ ToSet(Top.todo) = {V} \cup ToSet(Tail(Top.todo)) /\ V \in Values /\ Visited \subseteq Top.visited
      /\ \A b \in R : b.depth \in 0..(n - 1)
      /\ Len(stack) = n + 1
  BY <1>0, TopSet, TodoSet DEF Tracing
<1>2. PICK F, G \in Frames :
           /\ F.todo = todo /\ F.depth = Top.depth + 1 /\ F.fresh = fresh /\ F.found = {} /\ F.alt = alt
           /\ F.visited = IF fresh THEN {} ELSE Visited \cup {V}
           /\ Goes(Top, G, {}, Visited \cup {V})
           /\ ToSet(stack') = {F} \cup ({G} \cup R)
           /\ Len(stack') = Len(stack) + 1
  <2>1. PICK F, G \in Frames : Enters(F, G, todo, fresh, alt)
    BY DescendedSet
  <2> QED  BY <2>1 DEF Enters, R
<1>3. /\ G.todo = Tail(Top.todo) /\ G.found = Top.found \cup {} /\ G.visited = Visited \cup {V}
      /\ G.alt = Top.alt /\ G.fresh = Top.fresh /\ G.depth = Top.depth
      /\ ToSet(G.todo) \subseteq ToSet(Top.todo)
  BY <1>1, <1>2 DEF Goes
<1>4. Func' = Func /\ Shown' = Shown /\ Promised' = Promised
  BY SameProgram
<1> HIDE DEF R, n
<1>5. PathInv'
  <2>1. PICK own, exp : Path(prog, {Top} \cup R, n, own, exp, visitedFuncs, Func)
    BY <1>1 DEF PathInv, n
  <2>2. ~Top.fresh => Top.visited \subseteq G.visited
    BY <1>3 DEF Visited
  <2>3. Path(prog, {G} \cup R, n, own, exp, visitedFuncs, Func)
    BY <1>3, <2>1, <2>2, PathTakes
  <2>4. \A d \in 0..(n - 1) : exp[d] # V
    <3>1. V \in ToSet(Top.todo) /\ V \notin (IF Top.fresh THEN {} ELSE Top.visited) /\ Top \in {Top} \cup R
      BY <1>0, <1>1 DEF Visited
    <3> DEFINE S == {Top} \cup R
    <3>2. Top \in S /\ Path(prog, S, n, own, exp, visitedFuncs, Func)
      BY <2>1
    <3> HIDE DEF S
    <3> QED  BY <1>1, <3>1, <3>2, NotExpanding
  <2>5. prog.home[V] = own[n]
    BY <1>1, <2>1 DEF Path
  <2>6. n \in 0..n /\ own[n] \in visitedFuncs
    BY <1>1, <2>1 DEF Path
  <2>7. ASSUME ~fresh
        PROVE  /\ f = own[n] /\ V \in F.visited
               /\ \A c \in 0..(n - 1) : own[c] = f => exp[c] \in F.visited
    <3>1. f = own[n] /\ V \in F.visited /\ Visited \subseteq F.visited
      BY <1>2, <2>5, <2>7
    <3>2. ASSUME NEW c \in 0..(n - 1), own[c] = f  PROVE exp[c] \in Visited
      <4>1. ~Top.fresh /\ exp[c] \in Top.visited
        BY <1>1, <2>1, <3>1, <3>2 DEF Path
      <4> QED  BY <4>1 DEF Visited
    <3> QED  BY <3>1, <3>2
  <2>8. Path(prog, {F} \cup ({G} \cup R), n + 1, With(own, n + 1, f), With(exp, n, V), wf, Func)
    <3>1. /\ F.depth = n + 1 /\ \A u \in ToSet(F.todo) : Computed(prog, u) => prog.home[u] = f
      BY <1>1, <1>2
    <3>2. F.fresh => f \notin visitedFuncs
      BY <1>2
    <3>3. visitedFuncs \subseteq wf /\ f \in wf
      OBVIOUS
    <3> HIDE DEF wf
    <3> QED  BY <1>1, <1>2, <2>3, <2>4, <2>5, <2>7, <3>1, <3>2, <3>3, PathPushes
  <2>9. Len(stack') - 1 = n + 1
    BY <1>1, <1>2
  <2>10. \E o, e : Path(prog', ToSet(stack'), Len(stack') - 1, o, e, visitedFuncs', Func')
    BY <1>2, <1>4, <2>8, <2>9
  <2> QED  BY <2>10 DEF PathInv
<1>6. DeadInv'
  <2>1. Dead({Top} \cup R, Shown, May(prog)) /\ \A a \in {Top} \cup R : a.depth = 0 => a.alt = {}
    BY <1>1 DEF DeadInv
  <2>2. V \in ToSet(Top.todo) /\ {} \subseteq May(prog).val[V]
    BY <1>1
  <2>3. Dead({G} \cup R, Shown, May(prog))
    BY <1>3, <2>1, <2>2, DeadTakes
  <2>4. Dead({F} \cup ({G} \cup R), Shown, May(prog))
    BY <1>1, <1>2, <1>3, <2>1, <2>2, <2>3, DeadPushes
  <2>5. \A a \in {F} \cup ({G} \cup R) : a.depth = 0 => a.alt = {}
    BY <1>1, <1>2, <1>3, <2>1
  <2> QED  BY <1>2, <1>4, <2>4, <2>5 DEF DeadInv
<1>7. SearchInv'
  <2> DEFINE S == {F} \cup ({G} \cup R)
  <2> SUFFICES ASSUME Promised
               PROVE  \E T : /\ Met(prog, Shown, T, Pending(S), wf, Got(S))
                             /\ \A a \in S : a.visited \subseteq T
    BY <1>2, SearchNext
  <2>1. PICK T : /\ Met(prog, Shown, T, Pending({Top} \cup R), visitedFuncs, Got({Top} \cup R))
                 /\ \A a \in {Top} \cup R : a.visited \subseteq T
    BY <1>1 DEF SearchInv
  <2> DEFINE U == T \cup {V}
             Q == Pending(S)
             H == Got(S)
  <2>2. U \in SUBSET Values /\ T \subseteq U
    BY <1>1, <2>1 DEF Met
  <2>3. T \cup Pending({Top} \cup R) \subseteq U \cup Q /\ ToSet(todo) \subseteq U \cup Q
    BY <1>1, <1>2, <1>3 DEF Pending
  <2>4. Got({Top} \cup R) \subseteq H /\ alt \subseteq H
    BY <1>2, <1>3 DEF Got
  <2>5. \A v \in U \ T : Followed(prog, Shown, v, U \cup Q, wf, H)
    <3>1. Followed(prog, Shown, V, U \cup Q, visitedFuncs', H)
      <4> HIDE DEF U, Q, H
      <4> QED  BY <2>3, <2>4
    <3> HIDE DEF Q, H
    <3> QED  BY <3>1
  <2>6. \A g \in wf \ visitedFuncs : prog.fn[g].body /\ ToSet(prog.fn[g].rets) \subseteq U \cup Q
    <3> SUFFICES ASSUME f \notin visitedFuncs  PROVE prog.fn[f].body /\ ToSet(prog.fn[f].rets) \subseteq U \cup Q
      OBVIOUS
    <3>1. fresh
      BY <1>0, Shallow
    <3> HIDE DEF U, Q
    <3> QED  BY <2>3, <3>1
  <2> HIDE DEF Q, H, S
  <2>7. Met(prog, Shown, U, Q, wf, H)
    <3> HIDE DEF U
    <3>0. visitedFuncs \subseteq wf
      OBVIOUS
    <3> HIDE DEF wf
    <3>1. Grows(prog, Shown, T, Pending({Top} \cup R), visitedFuncs, Got({Top} \cup R), U, Q, wf, H)
      BY <2>1, <2>2, <2>3, <2>4, <2>5, <2>6, <3>0 DEF Grows
    <3> QED  BY <2>1, <3>1, MetGrows
  <2>8. \A a \in S : a.visited \subseteq U
    BY <1>1, <1>2, <1>3, <2>1 DEF S
  <2> HIDE DEF U
  <2> QED  BY <2>7, <2>8 DEF Q, H
<1> QED  BY <1>5, <1>6, <1>7

LEMMA ReturnSearch ==
  ASSUME IInv, PathInv, DeadInv, SearchInv, Return  PROVE PathInv' /\ DeadInv' /\ SearchInv'
<1> DEFINE n == Len(stack) - 1
<1>1. stack # <<>> /\ UNCHANGED <<prog, next, visitedFuncs>> /\ Top \in Frames /\ n \in Nat /\ Top.depth = n
      /\ Top.todo = <<>>
  <2>1. stack # <<>> /\ UNCHANGED <<prog, next, visitedFuncs>> /\ Top.todo = <<>>
    BY DEF Return
  <2>2. Top \in Frames /\ Len(stack) \in Nat \ {0} /\ Top.depth = Len(stack) - 1
    BY <2>1, TopSet
  <2> QED  BY <2>1, <2>2
<1>2. PICK C, D \in Frames, Q \in SUBSET Frames :
           /\ ToSet(stack) = {Top} \cup ({C} \cup Q) /\ C.depth = Len(stack) - 2 /\ Len(stack) > 1
           /\ \A b \in Q : b.depth \in 0..(Len(stack) - 2)
           /\ D.todo = C.todo /\ D.alt = C.alt /\ D.fresh = C.fresh /\ D.depth = C.depth
           /\ D.found = C.found \cup (IF Top.found # {} THEN Top.found ELSE Top.alt)
           /\ D.visited = IF Top.fresh THEN C.visited ELSE Top.visited
           /\ ToSet(stack') = {D} \cup Q
           /\ Len(stack') = Len(stack) - 1
  BY ReturnedSet
<1>3. /\ C.depth = n - 1 /\ n > 0 /\ \A b \in Q : b.depth \in 0..(n - 1)
      /\ Len(stack') - 1 = n - 1
  BY <1>1, <1>2
<1>4. Func' = Func /\ Shown' = Shown /\ Promised' = Promised
  BY <1>1, SameProgram
<1> HIDE DEF n
<1>5. PathInv'
  <2>1. PICK own, exp : Path(prog, {Top} \cup ({C} \cup Q), n, own, exp, visitedFuncs, Func)
    BY <1>1, <1>2 DEF PathInv, n
  <2>2. Path(prog, {D} \cup Q, n - 1, own, exp, visitedFuncs, Func)
    BY <1>1, <1>2, <1>3, <2>1, PathPops
  <2>3. Path(prog', ToSet(stack'), Len(stack') - 1, own, exp, visitedFuncs', Func')
    BY <1>1, <1>2, <1>3, <1>4, <2>2
  <2> QED  BY <2>3 DEF PathInv
<1>6. Dead({D} \cup Q, Shown, May(prog)) /\ Got({Top} \cup ({C} \cup Q)) \cap Shown \subseteq Got({D} \cup Q)
  <2>1. Dead({Top} \cup ({C} \cup Q), Shown, May(prog))
    BY <1>2 DEF DeadInv
  <2> QED  BY <1>1, <1>2, <1>3, <2>1, DeadPops
<1>7. DeadInv'
  <2>1. \A a \in {D} \cup Q : a.depth = 0 => a.alt = {}
    BY <1>2 DEF DeadInv
  <2> QED  BY <1>1, <1>2, <1>4, <1>6, <2>1 DEF DeadInv
<1>8. SearchInv'
  <2> DEFINE S == {Top} \cup ({C} \cup Q)
             P == Pending({D} \cup Q)
             H == Got({D} \cup Q)
  <2> SUFFICES ASSUME Promised
               PROVE  \E T : /\ Met(prog, Shown, T, P, visitedFuncs, H)
                             /\ \A a \in {D} \cup Q : a.visited \subseteq T
    BY <1>1, <1>2, SearchNext
  <2>1. PICK T : /\ Met(prog, Shown, T, Pending(S), visitedFuncs, Got(S))
                 /\ \A a \in S : a.visited \subseteq T
    BY <1>1, <1>2 DEF SearchInv
  <2>2. Pending(S) \subseteq P
    BY <1>1, <1>2 DEF Pending, ToSet
  <2>3. \A a \in {D} \cup Q : a.visited \subseteq T
    BY <1>2, <2>1
  <2>4. T \subseteq Values
    BY <2>1 DEF Met
  <2> HIDE DEF P, H
  <2>5. Grows(prog, Shown, T, Pending(S), visitedFuncs, Got(S), T, P, visitedFuncs, H)
    BY <1>6, <2>2, <2>4 DEF Grows, H
  <2>6. Met(prog, Shown, T, P, visitedFuncs, H)
    <3> HIDE DEF S
    <3> QED  BY <2>1, <2>5, MetGrows
  <2> QED  BY <2>3, <2>6
<1> QED  BY <1>5, <1>7, <1>8

-----------------------------------------------------------------------------
(* What is answered for calls.                                             *)

LEMMA SummaryEnough ==
  ASSUME IInv, FactsInv, CompleteSoFar, Promised, NEW f \in Funcs,
         ~prog.fn[f].body \/ Summary(facts, f) # {}
  PROVE  May(prog).fn[f] \cap Shown \subseteq Summary(facts, f)
<1>1. CASE prog.fn[f].body
  <2>1. prog.fn[f].known = {} /\ prog.facts[f] = {}
    BY <1>1 DEF Promised, ImportsComplete
  <2>2. prog.fn[f].obj /\ facts[f] # {} /\ Summary(facts, f) = facts[f]
    BY <1>1, <2>1 DEF Summary
  <2>3. PICK k \in 1..(next - 1) : Exports(f) /\ prog.order[k] = f
    BY <2>1, <2>2 DEF FactsInv
  <2>4. MethodsFirst(k)
    <3>1. \A j \in 1..k : j \in 1..next
      BY DEF IInv
    <3> QED  BY <3>1 DEF Promised, MethodsFirst
  <2>5. Expected(f) \subseteq facts[f]
    BY <2>3, <2>4 DEF CompleteSoFar, Promised
  <2> QED  BY <2>2, <2>5 DEF Expected
<1>2. CASE ~prog.fn[f].body
  <2>1. facts[f] = prog.facts[f]
    BY <1>2 DEF FactsInv, Exports
  <2>2. Expected(f) \subseteq Summary(prog.facts, f)
    BY <1>2 DEF Promised, ImportsComplete
  <2> QED  BY <2>1, <2>2 DEF Summary, Expected
<1> QED  BY <1>1, <1>2

LEMMA MethodEnough ==
  ASSUME IInv, FactsInv, CompleteSoFar, Promised, stack # <<>>,
         NEW v \in Values, prog.home[v] \in CalledFrom(prog, Func),
         prog.instr[v].op = "Call", prog.instr[v].call.kind = "invoke", prog.instr[v].call.known = {},
         NEW t \in Concretes(prog, prog.instr[v].call), prog.method[t.name] # NoFunc
  PROVE  May(prog).fn[prog.method[t.name]] \cap Shown \subseteq sentinelsForConcreteMethod(prog, facts, t)
<1> DEFINE m == prog.method[t.name]
<1>1. m \in Funcs
  BY ProgramFacts, ConcretesCalled
<1>2. next \in 1..next /\ next \in DOMAIN prog.order /\ Func = prog.order[next]
  BY ProgramFacts DEF IInv, Func
<1>3. v \in Invokes(prog, prog.home[v])
  BY DEF Invokes
<1>4. \/ Exports(m) /\ \E k \in 1..(next - 1) : prog.order[k] = m
      \/ /\ \A k \in DOMAIN prog.order : prog.order[k] # m
         /\ Expected(m) \subseteq sentinelsForConcreteMethod(prog, prog.facts, t)
  BY <1>2, <1>3 DEF Promised, MethodsFirst
<1>5. CASE Exports(m) /\ \E k \in 1..(next - 1) : prog.order[k] = m
  <2>1. PICK k \in 1..(next - 1) : prog.order[k] = m
    BY <1>5
  <2>2. MethodsFirst(k)
    <3>1. \A j \in 1..k : j \in 1..next
      BY DEF IInv
    <3> QED  BY <3>1 DEF Promised, MethodsFirst
  <2>3. Expected(m) \subseteq facts[m]
    BY <1>5, <2>1, <2>2 DEF CompleteSoFar, Promised
  <2>4. prog.fn[m].known = {}
    BY <1>1, <1>5 DEF Promised, ImportsComplete, Exports
  <2>5. sentinelsForConcreteMethod(prog, facts, t) = facts[m]
    BY <2>4 DEF sentinelsForConcreteMethod, knownMethodSentinels
  <2> QED  BY <2>3, <2>5 DEF Expected
<1>6. CASE /\ \A k \in DOMAIN prog.order : prog.order[k] # m
           /\ Expected(m) \subseteq sentinelsForConcreteMethod(prog, prog.facts, t)
  <2>1. \A k \in 1..(next - 1) : k \in DOMAIN prog.order
    BY ProgramFacts DEF IInv
  <2>2. facts[m] = prog.facts[m]
    BY <1>1, <1>6, <2>1 DEF FactsInv
  <2>3. sentinelsForConcreteMethod(prog, facts, t) = sentinelsForConcreteMethod(prog, prog.facts, t)
    BY <2>2 DEF sentinelsForConcreteMethod
  <2> QED  BY <1>6, <2>3 DEF Expected
<1> QED  BY <1>4, <1>5, <1>6

\* A call enters one function at most.
LEMMA OneCallee ==
  ASSUME NEW p, NEW call, NEW f \in Callee(p, call), NEW g \in Callee(p, call),
         DOMAIN p.stores \subseteq Int
  PROVE  f = g
<1>1. CASE call.kind = "static"
  BY <1>1 DEF Callee
<1>2. CASE call.kind = "global"
  <2> DEFINE at == {i \in DOMAIN p.stores : p.stores[i].global = call.global /\ p.stores[i].func # NoFunc}
  <2>1. /\ \E i \in at : f = p.stores[i].func /\ \A k \in at : k <= i
        /\ \E i \in at : g = p.stores[i].func /\ \A k \in at : k <= i
    BY <1>2 DEF Callee, BuildGlobalFuncMap
  <2>2. PICK i, j \in at : f = p.stores[i].func /\ g = p.stores[j].func
                           /\ (\A k \in at : k <= i) /\ (\A k \in at : k <= j)
    BY <2>1
  <2>3. i <= j /\ j <= i /\ i \in Int /\ j \in Int
    BY <2>2
  <2> QED  BY <2>2, <2>3
<1> QED  BY <1>1, <1>2 DEF Callee

LEMMA EnteredCalled ==
  ASSUME NEW p, NEW from \in Funcs, NEW v \in Values, p.home[v] \in CalledFrom(p, from),
         p.instr[v].op = "Call", NEW f \in Callee(p, p.instr[v].call), f \in Funcs
  PROVE  f \in CalledFrom(p, from)
BY DEF CalledFrom


-----------------------------------------------------------------------------
(* The steps.                                                              *)

SInv == IInv /\ FactsInv /\ CompleteSoFar /\ PathInv /\ DeadInv /\ SearchInv

LEMMA CutValueSearches ==
  ASSUME SInv, CutValue  PROVE PathInv' /\ DeadInv' /\ SearchInv'
<1>1. /\ IInv /\ PathInv /\ DeadInv /\ SearchInv /\ Tracing /\ ~Open
      /\ UNCHANGED <<prog, next, visitedFuncs>>
  BY DEF SInv, CutValue
<1>2. Top \in Frames /\ Visited \in SUBSET Values
  BY <1>1, TopSet, ValueTyped DEF Tracing
<1>3. PICK found \in SUBSET Sentinels : found = {}
  OBVIOUS
<1>4. [Top EXCEPT !.todo = Tail(@), !.visited = Visited]
        = [Top EXCEPT !.todo = Tail(@), !.found = @ \cup found, !.visited = Visited]
  BY <1>2, <1>3 DEF Frames
<1>5. stack' = <<[Top EXCEPT !.todo = Tail(@), !.found = @ \cup found, !.visited = Visited]>> \o Rest
  BY <1>4 DEF CutValue
<1>6. Promised => V \in Visited
  BY <1>1, Shallow DEF Promised, Open
<1>7. found \subseteq May(prog).val[V]
  BY <1>3
<1> QED  BY <1>1, <1>2, <1>5, <1>6, <1>7, AnswerSearch

\* A value that is answered as the properties ask.
LEMMA AnswerSearches ==
  ASSUME SInv, Open, NEW found \in SUBSET Sentinels, Answer(found), UNCHANGED <<prog, next, visitedFuncs>>,
         found \subseteq May(prog).val[V],
         Promised => \A R, G : found \subseteq G => Followed(prog, Shown, V, R, visitedFuncs, G)
  PROVE  PathInv' /\ DeadInv' /\ SearchInv'
<1>1. IInv /\ PathInv /\ DeadInv /\ SearchInv /\ Tracing
  BY DEF SInv, Open
<1>2. Visited \cup {V} \in SUBSET Values
  BY <1>1, ValueTyped
<1>3. stack' = <<[Top EXCEPT !.todo = Tail(@), !.found = @ \cup found, !.visited = Visited \cup {V}]>> \o Rest
  BY DEF Answer
<1> QED  BY <1>1, <1>2, <1>3, AnswerSearch

LEMMA TraceGlobalSearches ==
  ASSUME SInv, TraceGlobal  PROVE PathInv' /\ DeadInv' /\ SearchInv'
<1>1. IInv /\ Tracing /\ Open /\ X.op = "Global" /\ Answer(sentinelFromGlobal(X)) /\ UNCHANGED <<prog, next, visitedFuncs>>
  BY DEF SInv, TraceGlobal, Open
<1>2. sentinelFromGlobal(X) \subseteq May(prog).val[V]
  BY <1>1, YieldsBound DEF Yields, X, PassOps
<1>3. sentinelFromGlobal(X) \in SUBSET Sentinels
  BY <1>1, <1>2, ValueTyped, ProgramFacts
<1>4. \A R, G : sentinelFromGlobal(X) \subseteq G => Followed(prog, Shown, V, R, visitedFuncs, G)
  BY <1>1 DEF Followed, X, PassOps
<1> QED  BY <1>1, <1>2, <1>3, <1>4, AnswerSearches

LEMMA TraceOtherSearches ==
  ASSUME SInv, TraceOther  PROVE PathInv' /\ DeadInv' /\ SearchInv'
<1>1. Open /\ X.op = "Other" /\ Answer({}) /\ UNCHANGED <<prog, next, visitedFuncs>>
  BY DEF TraceOther
<1>2. \A R, G : {} \subseteq G => Followed(prog, Shown, V, R, visitedFuncs, G)
  BY <1>1 DEF Followed, X, PassOps
<1> QED  BY <1>1, <1>2, AnswerSearches

LEMMA TraceDynamicSearches ==
  ASSUME SInv, TraceDynamic  PROVE PathInv' /\ DeadInv' /\ SearchInv'
<1>1. /\ IInv /\ Tracing /\ Open /\ X.op = "Call" /\ X.call.kind # "invoke" /\ Callee(prog, X.call) = {}
      /\ Answer({}) /\ UNCHANGED <<prog, next, visitedFuncs>>
  BY DEF SInv, TraceDynamic, Open
<1>2. X.call.known = {}
  BY <1>1, ValueTyped, ProgramFacts DEF WellFormed, X
<1>3. Promised => Called(prog, X.call) = {}
  BY <1>1, ValueTyped DEF Promised, Seen, X
<1>4. Promised => \A R, G : {} \subseteq G => Followed(prog, Shown, V, R, visitedFuncs, G)
  BY <1>1, <1>2, <1>3 DEF Followed, X, PassOps
<1> QED  BY <1>1, <1>4, AnswerSearches


\* A value of the function at hand that is given the answers of its operands.
LEMMA OperandSearches ==
  ASSUME SInv, Open, UNCHANGED <<prog, next, visitedFuncs>>, Computed(prog, V),
         NEW todo \in Seq(Values), NEW alt \in SUBSET Sentinels, Descend(todo, FALSE, alt),
         ToSet(todo) \subseteq ToSet(X.args), alt \subseteq May(prog).val[V],
         \A u \in ToSet(todo) : May(prog).val[u] \subseteq May(prog).val[V],
         alt \cap Shown # {} => \A u \in ToSet(todo) : May(prog).val[u] = {},
         Promised => \A R, G : ToSet(todo) \subseteq R /\ alt \cap Shown \subseteq G =>
                        Followed(prog, Shown, V, R, visitedFuncs, G)
  PROVE  PathInv' /\ DeadInv' /\ SearchInv'
<1>1. IInv /\ PathInv /\ DeadInv /\ SearchInv /\ Tracing
  BY DEF SInv, Open
<1>2. PICK f : f = prog.home[V]
  OBVIOUS
<1>3. f \in CalledFrom(prog, Func) /\ f \in visitedFuncs
  BY <1>1, <1>2, Shallow
<1>4. visitedFuncs' = visitedFuncs \cup {f}
  BY <1>3
<1>5. \A u \in ToSet(todo) : Computed(prog, u) => prog.home[u] = f
  BY <1>1, <1>2, ValueTyped, ProgramFacts DEF WellFormed, X
<1>6. Promised => \A R, G : ToSet(todo) \subseteq R /\ alt \cap Shown \subseteq G =>
                        Followed(prog, Shown, V, R, visitedFuncs', G)
  OBVIOUS
<1>7. PICK fresh \in BOOLEAN : fresh = FALSE
  OBVIOUS
<1>8. Descend(todo, fresh, alt)
  BY <1>7
<1>9. fresh => f \notin visitedFuncs /\ prog.fn[f].body /\ todo = prog.fn[f].rets
  BY <1>7
<1>10. UNCHANGED <<prog, next>>
  OBVIOUS
<1>11. Opens(todo, fresh, alt, f)
  BY <1>2, <1>3, <1>4, <1>5, <1>6, <1>7, <1>9 DEF Opens
<1> QED  BY <1>1, <1>8, <1>10, <1>11, DescendSearch

LEMMA TracePassSearches ==
  ASSUME SInv, TracePass  PROVE PathInv' /\ DeadInv' /\ SearchInv'
<1>1. IInv /\ Tracing /\ Open /\ X.op \in PassOps /\ Descend(X.args, FALSE, {}) /\ UNCHANGED <<prog, next, visitedFuncs>>
  BY DEF SInv, TracePass, Open
<1>2. Yields(prog, May(prog), V) = UNION {May(prog).val[a] : a \in ToSet(X.args)}
  <2>1. X.op # "Global" /\ X.op # "MakeInterface" /\ X.op # "Errorf" /\ X.op # "Call"
    BY <1>1 DEF PassOps
  <2> QED  BY <1>1, <2>1 DEF Yields, X
<1>3. \A a \in ToSet(X.args) : May(prog).val[a] \subseteq May(prog).val[V]
  BY <1>1, <1>2, YieldsBound
<1>4. X.args \in Seq(Values)
  BY <1>1, ArgsTyped
<1>5. Computed(prog, V)
  BY <1>1 DEF Computed, X, PassOps
<1>6. \A R, G : ToSet(X.args) \subseteq R => Followed(prog, Shown, V, R, visitedFuncs, G)
  BY <1>1 DEF Followed, X, PassOps
<1>7. PICK alt \in SUBSET Sentinels : alt = {}
  OBVIOUS
<1>8. Descend(X.args, FALSE, alt)
  BY <1>1, <1>7
<1>9. alt \subseteq May(prog).val[V] /\ (alt \cap Shown # {} => \A u \in ToSet(X.args) : May(prog).val[u] = {})
  BY <1>7
<1> QED  BY <1>1, <1>3, <1>4, <1>5, <1>6, <1>8, <1>9, OperandSearches

LEMMA TraceMakeInterfaceSearches ==
  ASSUME SInv, TraceMakeInterface  PROVE PathInv' /\ DeadInv' /\ SearchInv'
<1>1. /\ IInv /\ Tracing /\ Open /\ X.op = "MakeInterface" /\ Descend(X.args, FALSE, customErrorType(X))
      /\ UNCHANGED <<prog, next, visitedFuncs>>
  BY DEF SInv, TraceMakeInterface, Open
<1>2. Yields(prog, May(prog), V) = customErrorType(X) \cup UNION {May(prog).val[a] : a \in ToSet(X.args)}
  BY <1>1 DEF Yields, X, PassOps
<1>3. /\ \A a \in ToSet(X.args) : May(prog).val[a] \subseteq May(prog).val[V]
      /\ customErrorType(X) \subseteq May(prog).val[V]
  BY <1>1, <1>2, YieldsBound
<1>4. X.args \in Seq(Values) /\ V \in Values
  BY <1>1, ArgsTyped, ValueTyped
<1>5. Computed(prog, V)
  BY <1>1 DEF Computed, X
<1>6. customErrorType(X) \in SUBSET Sentinels
  BY <1>3, <1>4, ProgramFacts, <1>1
<1>7. customErrorType(X) \cap Shown # {} => \A u \in ToSet(X.args) : May(prog).val[u] = {}
  BY <1>1, <1>4 DEF Shown, X
<1>8. \A R, G : ToSet(X.args) \subseteq R /\ customErrorType(X) \cap Shown \subseteq G =>
                  Followed(prog, Shown, V, R, visitedFuncs, G)
  BY <1>1 DEF Followed, X
<1> QED  BY <1>1, <1>3, <1>4, <1>5, <1>6, <1>7, <1>8, OperandSearches

LEMMA TraceErrorfSearches ==
  ASSUME SInv, TraceErrorf  PROVE PathInv' /\ DeadInv' /\ SearchInv'
<1> DEFINE wrapped == fmtErrorfWrappedArg(X)
<1>1. IInv /\ Tracing /\ Open /\ X.op = "Errorf" /\ UNCHANGED <<prog, next, visitedFuncs>>
  BY DEF SInv, TraceErrorf, Open
<1>2. Yields(prog, May(prog), V) = UNION {May(prog).val[a] : a \in Wrapped(X)}
  BY <1>1 DEF Yields, X, PassOps
<1>3. wrapped \in Seq(Values) /\ ToSet(wrapped) \subseteq ToSet(X.args)
  BY <1>1, ArgsTyped DEF fmtErrorfWrappedArg, ToSet
<1>4. \A a \in ToSet(wrapped) : May(prog).val[a] \subseteq May(prog).val[V]
  BY <1>1, <1>2, YieldsBound DEF Wrapped
<1>5. Computed(prog, V)
  BY <1>1 DEF Computed, X
<1>6. Promised => \A R, G : ToSet(wrapped) \subseteq R => Followed(prog, Shown, V, R, visitedFuncs, G)
  <2> SUFFICES ASSUME Promised  PROVE \A R, G : ToSet(wrapped) \subseteq R => Followed(prog, Shown, V, R, visitedFuncs, G)
    OBVIOUS
  <2>1. Cardinality(WrappedBy(X.means)) <= 1 /\ ~X.spread
    BY <1>1, ValueTyped DEF Promised, Seen, X
  <2>2. Wrapped(X) = ToSet(wrapped)
    BY <1>1, <2>1, ValueTyped, ProgramFacts, WrappedSeen DEF X
  <2> QED  BY <1>1, <2>2 DEF Followed, X, PassOps
<1> HIDE DEF wrapped
<1>7. PICK alt \in SUBSET Sentinels : alt = {}
  OBVIOUS
<1>8. CASE wrapped # <<>>
  <2>1. Descend(wrapped, FALSE, alt)
    BY <1>7, <1>8 DEF TraceErrorf, wrapped
  <2>2. alt \subseteq May(prog).val[V] /\ (alt \cap Shown # {} => \A u \in ToSet(wrapped) : May(prog).val[u] = {})
    BY <1>7
  <2> QED  BY <1>1, <1>3, <1>4, <1>5, <1>6, <2>1, <2>2, OperandSearches
<1>9. CASE wrapped = <<>>
  <2>1. Answer(alt)
    BY <1>7, <1>9 DEF TraceErrorf, wrapped
  <2>2. alt \subseteq May(prog).val[V]
    BY <1>7
  <2>3. ToSet(wrapped) = {}
    BY <1>9 DEF ToSet
  <2> QED  BY <1>1, <1>6, <2>1, <2>2, <2>3, AnswerSearches
<1> QED  BY <1>8, <1>9


LEMMA TraceCallSearches ==
  ASSUME SInv, TraceCall  PROVE PathInv' /\ DeadInv' /\ SearchInv'
<1>1. IInv /\ PathInv /\ DeadInv /\ SearchInv /\ Tracing /\ Open /\ X.op = "Call" /\ V \notin Visited /\ UNCHANGED <<prog, next>>
  BY DEF SInv, TraceCall, Open
<1>2. PICK f \in Callee(prog, X.call) :
         IF \/ Summary(facts, f) # {}
            \/ Top.depth + 1 > MaxTraceDepth \/ ~prog.fn[f].body \/ f \in visitedFuncs
         THEN Answer(Summary(facts, f)) /\ UNCHANGED visitedFuncs
         ELSE Descend(prog.fn[f].rets, TRUE, {}) /\ visitedFuncs' = visitedFuncs \cup {f}
  BY DEF TraceCall
<1>3. f \in Funcs /\ f \in Called(prog, X.call)
  BY <1>1, ValueTyped, ProgramFacts, CalleeCalled, NoFuncAssumption DEF X
<1>4. Yields(prog, May(prog), V) = X.call.known \cup UNION {May(prog).fn[g] : g \in Called(prog, X.call)}
  BY <1>1 DEF Yields, X, PassOps
<1>5. May(prog).fn[f] \subseteq May(prog).val[V]
  BY <1>1, <1>3, <1>4, YieldsBound
<1>6. Summary(facts, f) \subseteq May(prog).val[V] /\ Summary(facts, f) \in SUBSET Sentinels
  BY <1>1, <1>3, <1>5, SummarySound, ValueTyped, ProgramFacts
<1>7. prog.fn[f].rets \in Seq(Values)
  BY <1>1, <1>3, ProgramFacts DEF WellFormed
<1>8. \A u \in ToSet(prog.fn[f].rets) : May(prog).val[u] \subseteq May(prog).val[V]
  BY <1>1, <1>3, <1>5, ProgramFacts DEF Closed, FuncYields
<1>9. Computed(prog, V) /\ V \in Values
  BY <1>1, ValueTyped DEF Computed, X
<1>10. X.call.kind # "invoke" /\ X.call.known = {}
  <2>1. X.call.kind # "invoke"
    BY <1>2 DEF Callee
  <2> QED  BY <1>1, <1>9, <2>1, ProgramFacts DEF WellFormed, X
<1>11. Promised => Called(prog, X.call) = {f}
  <2>1. DOMAIN prog.stores \subseteq Int
    BY <1>1, ProgramFacts DEF WellFormed
  <2>2. \A g \in Callee(prog, X.call) : g = f
    BY <1>2, <2>1, OneCallee
  <2>3. Promised => Called(prog, X.call) = Callee(prog, X.call)
    BY <1>1, <1>9, <1>10 DEF Promised, Seen, X
  <2> QED  BY <1>2, <2>2, <2>3
<1>12. Promised => \A R, G : f \in visitedFuncs' \/ May(prog).fn[f] \cap Shown \subseteq G =>
                                Followed(prog, Shown, V, R, visitedFuncs', G)
  BY <1>1, <1>10, <1>11 DEF Followed, X, PassOps
<1>13. CASE Answer(Summary(facts, f)) /\ UNCHANGED visitedFuncs
            /\ (\/ Summary(facts, f) # {}
                \/ Top.depth + 1 > MaxTraceDepth \/ ~prog.fn[f].body \/ f \in visitedFuncs)
  <2>1. ASSUME Promised, f \notin visitedFuncs  PROVE May(prog).fn[f] \cap Shown \subseteq Summary(facts, f)
    <3>1. Top.depth + 1 <= MaxTraceDepth
      BY <1>1, <1>9, <2>1, Shallow DEF Promised
    <3>2. Top \in Frames
      BY <1>1, TopSet DEF Tracing
    <3>3. ~prog.fn[f].body \/ Summary(facts, f) # {}
      BY <1>13, <2>1, <3>1, <3>2, LimitAssumption DEF Frames
    <3> QED  BY <1>3, <2>1, <3>3, SummaryEnough DEF SInv
  <2>2. Promised => \A R, G : Summary(facts, f) \subseteq G => Followed(prog, Shown, V, R, visitedFuncs, G)
    BY <1>12, <1>13, <2>1
  <2> QED  BY <1>1, <1>6, <1>13, <2>2, AnswerSearches
<1>14. CASE Descend(prog.fn[f].rets, TRUE, {}) /\ visitedFuncs' = visitedFuncs \cup {f}
            /\ prog.fn[f].body /\ f \notin visitedFuncs
  <2>1. PICK fresh \in BOOLEAN, alt \in SUBSET Sentinels, todo \in Seq(Values) :
           fresh = TRUE /\ alt = {} /\ todo = prog.fn[f].rets
    BY <1>7
  <2>2. Descend(todo, fresh, alt)
    BY <1>14, <2>1
  <2>3. f \in CalledFrom(prog, Func)
    <3>1. Func \in Funcs
      BY <1>1, InFunction, BoundTyped
    <3>2. prog.home[V] \in CalledFrom(prog, Func)
      BY <1>1, <1>9, Shallow
    <3> QED  BY <1>1, <1>2, <1>3, <1>9, <3>1, <3>2, EnteredCalled DEF X
  <2>4. \A u \in ToSet(todo) : Computed(prog, u) => prog.home[u] = f
    BY <1>1, <1>3, <2>1, ProgramFacts DEF WellFormed
  <2>5. alt \subseteq May(prog).val[V] /\ (alt \cap Shown # {} => \A u \in ToSet(todo) : May(prog).val[u] = {})
    BY <2>1
  <2>6. \A u \in ToSet(todo) : May(prog).val[u] \subseteq May(prog).val[V]
    BY <1>8, <2>1
  <2>7. fresh => f \notin visitedFuncs /\ prog.fn[f].body /\ todo = prog.fn[f].rets
    BY <1>14, <2>1
  <2>8. ~fresh => f = prog.home[V]
    BY <2>1
  <2>9. Promised => \A R, G : ToSet(todo) \subseteq R /\ alt \cap Shown \subseteq G =>
                                Followed(prog, Shown, V, R, visitedFuncs', G)
    BY <1>12, <1>14
  <2>10. visitedFuncs' = visitedFuncs \cup {f}
    BY <1>14
  <2>11. Opens(todo, fresh, alt, f)
    BY <2>3, <2>4, <2>5, <2>6, <2>7, <2>8, <2>9, <2>10 DEF Opens
  <2> QED  BY <1>1, <1>9, <2>2, <2>11, DescendSearch
<1> QED  BY <1>2, <1>13, <1>14

LEMMA TraceInvokeSearches ==
  ASSUME SInv, TraceInvoke  PROVE PathInv' /\ DeadInv' /\ SearchInv'
<1>1. /\ IInv /\ PathInv /\ Tracing /\ Open /\ X.op = "Call" /\ X.call.kind = "invoke" /\ V \notin Visited
      /\ UNCHANGED <<prog, next, visitedFuncs>>
  BY DEF SInv, TraceInvoke, Open
<1>2. Yields(prog, May(prog), V) = X.call.known \cup UNION {May(prog).fn[g] : g \in Called(prog, X.call)}
  BY <1>1 DEF Yields, X, PassOps
<1>3. \A t \in Concretes(prog, X.call) :
         sentinelsForConcreteMethod(prog, facts, t) \subseteq Yields(prog, May(prog), V)
  <2> SUFFICES ASSUME NEW t \in Concretes(prog, X.call), prog.method[t.name] # NoFunc
               PROVE  sentinelsForConcreteMethod(prog, facts, t) \subseteq Yields(prog, May(prog), V)
    BY DEF sentinelsForConcreteMethod
  <2> DEFINE m == prog.method[t.name]
  <2>1. m \in Called(prog, X.call) /\ m \in Funcs
    BY <1>1, ValueTyped, ProgramFacts, ConcretesCalled DEF X
  <2>2. prog.fn[m].known \subseteq May(prog).fn[m] /\ facts[m] \subseteq May(prog).fn[m]
    BY <1>1, <2>1, ProgramFacts DEF Closed, FuncYields, IInv
  <2>3. sentinelsForConcreteMethod(prog, facts, t) \subseteq May(prog).fn[m]
    BY <2>2 DEF sentinelsForConcreteMethod, knownMethodSentinels
  <2> QED  BY <2>1, <2>3, <1>2
<1>4. sentinelFromInvoke(prog, facts, X.call) \subseteq May(prog).val[V]
  BY <1>1, <1>2, <1>3, YieldsBound DEF sentinelFromInvoke
<1>5. V \in Values /\ Computed(prog, V) /\ May(prog).val[V] \subseteq Sentinels
  BY <1>1, ValueTyped, ProgramFacts DEF Computed, X
<1>6. PICK found \in SUBSET Sentinels :
         found = IF Top.depth + 1 > MaxTraceDepth THEN {} ELSE sentinelFromInvoke(prog, facts, X.call)
  BY <1>4, <1>5
<1>7. Answer(found) /\ found \subseteq May(prog).val[V]
  BY <1>4, <1>6 DEF TraceInvoke
<1>8. ASSUME Promised
      PROVE  \A R, G : found \subseteq G => Followed(prog, Shown, V, R, visitedFuncs, G)
  <2>1. found = sentinelFromInvoke(prog, facts, X.call)
    <3>1. Top.depth + 1 <= MaxTraceDepth /\ Top \in Frames
      BY <1>1, <1>5, <1>8, Shallow, TopSet DEF Promised, Tracing
    <3> QED  BY <1>6, <3>1, LimitAssumption DEF Frames
  <2>2. /\ Called(prog, X.call) = {prog.method[t.name] : t \in Concretes(prog, X.call)} \ {NoFunc}
        /\ X.call.known # {} => Called(prog, X.call) = {}
    BY <1>1, <1>5, <1>8 DEF Promised, Seen, X
  <2>3. X.call.known \subseteq found
    BY <2>1 DEF sentinelFromInvoke
  <2>4. ASSUME NEW g \in Called(prog, X.call)  PROVE May(prog).fn[g] \cap Shown \subseteq found
    <3>1. PICK t \in Concretes(prog, X.call) : g = prog.method[t.name] /\ prog.method[t.name] # NoFunc
      BY <2>2
    <3>2. X.call.known = {}
      BY <2>2
    <3>3. prog.home[V] \in CalledFrom(prog, Func) /\ stack # <<>>
      BY <1>1, <1>5, Shallow, InFunction
    <3>4. May(prog).fn[g] \cap Shown \subseteq sentinelsForConcreteMethod(prog, facts, t)
      BY <1>1, <1>5, <1>8, <3>1, <3>2, <3>3, MethodEnough DEF SInv, X
    <3> QED  BY <2>1, <3>2, <3>4 DEF sentinelFromInvoke
  <2> QED  BY <1>1, <2>3, <2>4 DEF Followed, X, PassOps
<1> QED  BY <1>1, <1>7, <1>8, AnswerSearches


LEMMA StartFunctionSearches ==
  ASSUME SInv, StartFunction  PROVE SInv'
<1> DEFINE F == Frame(prog.fn[Func].rets, 0, TRUE, {}, {})
<1>1. /\ IInv /\ next <= Len(prog.order) /\ stack' = <<F>> /\ UNCHANGED <<prog, next, facts>>
      /\ visitedFuncs' = {Func} /\ prog.fn[Func].body /\ prog.fn[Func].err
  BY DEF SInv, StartFunction
<1>2. Func \in Funcs /\ WellFormed(prog)
  BY <1>1, BoundTyped, ProgramFacts
<1>3. /\ F.todo = prog.fn[Func].rets /\ F.depth = 0 /\ F.fresh = TRUE /\ F.found = {} /\ F.alt = {} /\ F.visited = {}
  BY DEF Frame
<1> HIDE DEF F
<1>4. ToSet(stack') = {F} /\ Len(stack') = 1 /\ stack' # <<>>
  <2> DEFINE t == <<F>>
  <2>1. Len(t) = 1 /\ DOMAIN t = 1..1 /\ t[1] = F /\ t # <<>>
    OBVIOUS
  <2>2. \A i \in DOMAIN t : t[i] = F
    BY <2>1
  <2>3. ToSet(t) = {F}
    BY <2>1, <2>2 DEF ToSet
  <2> QED  BY <1>1, <2>1, <2>3
<1>5. Func' = Func /\ Shown' = Shown /\ Promised' = Promised
  BY <1>1, SameProgram
<1>6. Func \in CalledFrom(prog, Func)
  BY <1>2 DEF CalledFrom
<1>7. PathInv'
  <2> DEFINE own == [d \in 0..0 |-> Func]
  <2>1. \A d \in 0..0 : own[d] = Func
    OBVIOUS
  <2> HIDE DEF own
  <2>2. \A v \in ToSet(F.todo) : Computed(prog, v) => prog.home[v] = own[0]
    BY <1>2, <1>3, <2>1 DEF WellFormed
  <2>3. \A d : d \notin 0..(0 - 1)
    OBVIOUS
  <2>4. Path(prog, {F}, 0, own, own, {Func}, Func)
    BY <1>3, <1>6, <2>1, <2>2, <2>3 DEF Path
  <2>5. Len(stack') - 1 = 0
    BY <1>4
  <2>6. Path(prog', ToSet(stack'), Len(stack') - 1, own, own, visitedFuncs', Func')
    BY <1>1, <1>4, <1>5, <2>4, <2>5
  <2> QED  BY <2>6 DEF PathInv
<1>8. DeadInv'
  <2>1. Dead({F}, Shown', May(prog)')
    BY <1>3 DEF Dead
  <2> QED  BY <1>3, <1>4, <2>1 DEF DeadInv
<1>9. SearchInv'
  <2>1. ToSet(prog.fn[Func].rets) \subseteq Pending({F})
    BY <1>3 DEF Pending
  <2>2. Met(prog, Shown, {}, Pending({F}), {Func}, Got({F}))
    BY <1>1, <2>1 DEF Met
  <2>3. \A a \in {F} : a.visited \subseteq {}
    BY <1>3
  <2> QED  BY <1>1, <1>4, <2>2, <2>3, SearchNext
<1>10. FactsInv'
  <2>1. \A f \in Funcs : facts[f] = prog.facts[f] \/ (Exports(f) /\ \E k \in 1..(next - 1) : prog.order[k] = f)
    BY DEF SInv, FactsInv
  <2> QED  BY <1>1, <1>5, <2>1, SameFacts DEF FactsInv
<1>11. CompleteSoFar'
  <2>1. CompleteSoFar
    BY DEF SInv
  <2> QED  BY <1>1, <2>1, SameFacts DEF CompleteSoFar
<1>12. IInv'
  BY <1>1, StartFunctionKeeps
<1> QED  BY <1>7, <1>8, <1>9, <1>10, <1>11, <1>12 DEF SInv

\* Nothing is left to search for between two functions.
LEMMA NoSearch ==
  ASSUME stack = <<>>
  PROVE  PathInv /\ DeadInv /\ SearchInv
<1>1. ToSet(stack) = {}
  BY DEF ToSet
<1> QED  BY <1>1 DEF PathInv, DeadInv, SearchInv, Dead

LEMMA SkipFunctionSearches ==
  ASSUME SInv, SkipFunction  PROVE SInv'
<1>1. /\ IInv /\ stack = <<>> /\ next <= Len(prog.order) /\ ~Exports(Func) /\ next' = next + 1
      /\ UNCHANGED <<prog, stack, visitedFuncs, facts>>
  BY DEF SInv, SkipFunction, Exports
<1>2. IInv'
  BY <1>1, SkipFunctionKeeps
<1>3. PathInv' /\ DeadInv' /\ SearchInv'
  <2>1. ToSet(stack') = {}
    BY <1>1 DEF ToSet
  <2> QED  BY <1>1, <2>1 DEF PathInv, DeadInv, SearchInv, Dead
<1>4. next \in Nat /\ \A i \in 1..(next' - 1) : i = next \/ i \in 1..(next - 1)
  BY <1>1 DEF IInv
<1>5. \A i \in 1..(next - 1) : i \in 1..(next' - 1)
  BY <1>1, <1>4
<1>6. FactsInv'
  <2>1. \A f \in Funcs : facts[f] = prog.facts[f] \/ (Exports(f) /\ \E k \in 1..(next - 1) : prog.order[k] = f)
    BY DEF SInv, FactsInv
  <2> QED  BY <1>1, <1>5, <2>1, SameFacts DEF FactsInv
<1>7. CompleteSoFar'
  <2>1. CompleteSoFar
    BY DEF SInv
  <2>2. ~Exports(prog.order[next])
    BY <1>1 DEF Func
  <2> QED  BY <1>1, <1>4, <2>1, <2>2, SameFacts DEF CompleteSoFar
<1> QED  BY <1>2, <1>3, <1>6, <1>7 DEF SInv

\* What was found is all there is to be found.
LEMMA FunctionComplete ==
  ASSUME MayIsLeast, SInv, FinishFunction, Promised
  PROVE  Expected(Func) \subseteq Top.found
<1>1. IInv /\ FactsInv /\ DeadInv /\ SearchInv /\ stack # <<>> /\ Rest = <<>> /\ Top.todo = <<>>
  BY DEF SInv, FinishFunction
<1>2. /\ ToSet(stack) = {Top} /\ Top.depth = 0 /\ visitedFuncs \in SUBSET Funcs /\ prog \in Programs
  <2>1. /\ ToSet(stack) = {Top} \cup ToSet(Rest) /\ Len(stack) \in Nat \ {0}
        /\ Top.depth = Len(stack) - 1 /\ Len(Rest) = Len(stack) - 1
    BY <1>1, TopSet
  <2>2. ToSet(Rest) = {} /\ Len(Rest) = 0
    BY <1>1 DEF ToSet
  <2> QED  BY <1>1, <2>1, <2>2 DEF IInv
<1>3. Pending({Top}) = {} /\ Got({Top}) = Top.found
  <2>1. Top.alt = {}
    BY <1>1, <1>2 DEF DeadInv
  <2>2. ToSet(Top.todo) = {}
    BY <1>1 DEF ToSet
  <2> QED  BY <2>1, <2>2 DEF Pending, Got
<1>4. PICK T : Met(prog, Shown, T, {}, visitedFuncs, Top.found)
  BY <1>1, <1>2, <1>3 DEF SearchInv
<1>5. \A f \in visitedFuncs : prog.fn[f].known = {} /\ prog.facts[f] = {}
  BY <1>2, <1>4 DEF Met, Promised, ImportsComplete
<1>6. \A f \in visitedFuncs : May(prog).fn[f] \cap Shown \subseteq Top.found
  BY <1>2, <1>4, <1>5, EnoughFound
<1>7. Func \in visitedFuncs
  BY <1>1 DEF FactsInv
<1> QED  BY <1>6, <1>7 DEF Expected

LEMMA FinishFunctionSearches ==
  ASSUME MayIsLeast, SInv, FinishFunction  PROVE SInv'
<1>1. /\ IInv /\ stack # <<>> /\ stack' = <<>> /\ next <= Len(prog.order) /\ next' = next + 1
      /\ UNCHANGED <<prog, visitedFuncs>>
      /\ facts' = IF Top.found # {} /\ prog.fn[Func].obj THEN [facts EXCEPT ![Func] = Top.found] ELSE facts
  BY DEF SInv, IInv, FinishFunction
<1>2. IInv'
  BY <1>1, FinishFunctionKeeps
<1>3. PathInv' /\ DeadInv' /\ SearchInv'
  <2>1. ToSet(stack') = {}
    BY <1>1 DEF ToSet
  <2> QED  BY <1>1, <2>1 DEF PathInv, DeadInv, SearchInv, Dead
<1>4. next \in Nat /\ (\A i \in 1..(next' - 1) : i = next \/ i \in 1..(next - 1)) /\ next \in 1..(next' - 1)
  BY <1>1 DEF IInv
<1>5. \A i \in 1..(next - 1) : i \in 1..(next' - 1)
  BY <1>1, <1>4
<1>6. /\ Func \in Funcs /\ Func = prog.order[next] /\ next \in DOMAIN prog.order
      /\ \A i \in 1..(next - 1) : i \in DOMAIN prog.order /\ i # next
      /\ facts \in [Funcs -> SUBSET Sentinels]
  <2>1. Len(prog.order) \in Nat /\ DOMAIN prog.order = 1..Len(prog.order)
    BY <1>1, ProgramFacts
  <2> QED  BY <1>1, <1>4, <2>1, BoundTyped DEF Func, IInv
<1>7. \A f \in Funcs : f # Func => facts'[f] = facts[f]
  BY <1>1, <1>6
<1>8. facts'[Func] = facts[Func] \/ (Exports(Func) /\ facts'[Func] = Top.found)
  BY <1>1, <1>6 DEF SInv, FactsInv, Exports
<1>9. FactsInv'
  <2>1. \A f \in Funcs : facts[f] = prog.facts[f] \/ (Exports(f) /\ \E k \in 1..(next - 1) : prog.order[k] = f)
    BY DEF SInv, FactsInv
  <2>2. ASSUME NEW f \in Funcs
        PROVE  facts'[f] = prog.facts[f] \/ (Exports(f) /\ \E k \in 1..(next' - 1) : prog.order[k] = f)
    BY <1>4, <1>5, <1>6, <1>7, <1>8, <2>1
  <2> QED  BY <1>1, <2>2, SameFacts DEF FactsInv
<1>10. CompleteSoFar'
  <2> SUFFICES ASSUME Small, Seen, ImportsComplete, NEW i \in 1..(next' - 1),
                      Exports(prog.order[i]), MethodsFirst(i)
               PROVE  Expected(prog.order[i]) \subseteq facts'[prog.order[i]]
    BY <1>1, SameFacts DEF CompleteSoFar
  <2>1. CASE i \in 1..(next - 1)
    <3>1. Expected(prog.order[i]) \subseteq facts[prog.order[i]]
      BY <2>1 DEF SInv, CompleteSoFar
    <3>2. prog.order[i] # Func /\ prog.order[i] \in Funcs
      BY <1>1, <1>6, <2>1, ProgramFacts DEF WellFormed
    <3> QED  BY <1>7, <3>1, <3>2
  <2>2. CASE i = next
    <3>1. Promised
      BY <1>6, <2>2 DEF Promised
    <3>2. Expected(Func) \subseteq Top.found
      BY <3>1, FunctionComplete
    <3>3. Top.found # {} => facts'[Func] = Top.found
      BY <1>1, <1>6, <3>1 DEF Promised, Exports
    <3> QED  BY <1>6, <2>2, <3>2, <3>3
  <2> QED  BY <1>4, <2>1, <2>2
<1> QED  BY <1>2, <1>3, <1>9, <1>10 DEF SInv

LEMMA SearchInitially == ASSUME Init  PROVE SInv
<1>1. stack = <<>> /\ next = 1 /\ facts = prog.facts
  BY DEF Init
<1>2. \A i : i \notin 1..(next - 1)
  BY <1>1
<1> QED  BY <1>1, <1>2, Initially, NoSearch DEF SInv, FactsInv, CompleteSoFar

LEMMA SearchStutters == ASSUME SInv, UNCHANGED vars  PROVE SInv'
<1>1. IInv' /\ UNCHANGED <<prog, next, stack, visitedFuncs, facts>>
  BY Stutters DEF SInv, vars
<1>2. Func' = Func /\ Shown' = Shown /\ Promised' = Promised
  BY <1>1, SameProgram
<1>3. PathInv' /\ DeadInv' /\ SearchInv'
  BY <1>1, <1>2 DEF SInv, PathInv, DeadInv, SearchInv
<1>4. FactsInv' /\ CompleteSoFar'
  BY <1>1, <1>2, SameFacts DEF SInv, FactsInv, CompleteSoFar
<1> QED  BY <1>1, <1>3, <1>4 DEF SInv

\* A step within the function at hand.
LEMMA Searches ==
  ASSUME SInv, IInv', PathInv', DeadInv', SearchInv', stack # <<>>,
         UNCHANGED <<prog, next, facts>>, visitedFuncs \subseteq visitedFuncs'
  PROVE  SInv'
BY SameProgram DEF SInv

LEMMA SearchPreserved ==
  ASSUME MayIsLeast, SInv, [Next]_vars  PROVE SInv'
<1>1. IInv /\ PathInv /\ DeadInv /\ SearchInv
  BY DEF SInv
<1>2. IInv'
  BY <1>1, Preserved
<1>3. CASE UNCHANGED vars
  BY <1>3, SearchStutters
<1>4. CASE SkipFunction
  BY <1>4, SkipFunctionSearches
<1>5. CASE StartFunction
  BY <1>5, StartFunctionSearches
<1>6. CASE CutValue
  BY <1>2, <1>6, CutValueSearches, Searches DEF CutValue, Tracing
<1>7. CASE TraceGlobal
  BY <1>2, <1>7, TraceGlobalSearches, Searches DEF TraceGlobal, Open, Tracing
<1>8. CASE TraceOther
  BY <1>2, <1>8, TraceOtherSearches, Searches DEF TraceOther, Open, Tracing
<1>9. CASE TracePass
  BY <1>2, <1>9, TracePassSearches, Searches DEF TracePass, Open, Tracing
<1>10. CASE TraceMakeInterface
  BY <1>2, <1>10, TraceMakeInterfaceSearches, Searches DEF TraceMakeInterface, Open, Tracing
<1>11. CASE TraceErrorf
  BY <1>2, <1>11, TraceErrorfSearches, Searches DEF TraceErrorf, Open, Tracing
<1>12. CASE TraceCall
  BY <1>2, <1>12, TraceCallSearches, Searches DEF TraceCall, Open, Tracing
<1>13. CASE TraceInvoke
  BY <1>2, <1>13, TraceInvokeSearches, Searches DEF TraceInvoke, Open, Tracing
<1>14. CASE TraceDynamic
  BY <1>2, <1>14, TraceDynamicSearches, Searches DEF TraceDynamic, Open, Tracing
<1>15. CASE Return
  BY <1>1, <1>2, <1>15, ReturnSearch, Searches DEF Return
<1>16. CASE FinishFunction
  BY <1>16, FinishFunctionSearches
<1>17. CASE Done
  BY <1>17, SearchStutters DEF Done
<1> QED
  BY <1>3, <1>4, <1>5, <1>6, <1>7, <1>8, <1>9, <1>10, <1>11, <1>12, <1>13, <1>14, <1>15, <1>16, <1>17
  DEF Next

\* The search loses nothing: if May(p) is the least assignment that is closed
\* under p, then where no path is as long as the limit and the methods a function
\* invokes are traced before it, the fact of the function has every sentinel that
\* some return may yield and no other type hides (trace.go:27-28, 291-294).
THEOREM NothingLost == MayIsLeast => (Spec => []Complete)
<1> SUFFICES ASSUME MayIsLeast  PROVE Spec => []Complete
  OBVIOUS
<1>1. Init => SInv
  BY SearchInitially
<1>2. SInv /\ [Next]_vars => SInv'
  BY SearchPreserved
<1>3. SInv => Complete
  BY DEF SInv, CompleteSoFar, Complete
<1> QED  BY <1>1, <1>2, <1>3, PTL DEF Spec
=============================================================================
