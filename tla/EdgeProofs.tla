----------------------------- MODULE EdgeProofs -----------------------------
(***************************************************************************)
(* Proofs about what an edge has: its slot for the arc that is drawn       *)
(* (EdgeSlots) and its counters per second (Ring).                         *)
(*                                                                         *)
(* EdgeSlots, for any edges, any number and size of batches and any number *)
(* of sparks: the pool of slots is exact, and the control points that are  *)
(* marked valid are those of the slot's edge.  PoolInv and ArcInv speak of *)
(* a pool as a record, so that one lemma about Clear and one about Place   *)
(* serve every step of the frame that calls them; a change of width is one *)
(* after the other.                                                        *)
(*                                                                         *)
(* Ring, for any retention, lag and skew: two seconds that share a slot    *)
(* are a turn of the ring apart, so that neither a late flow nor a tick    *)
(* can take the slot of a second that is still shown.                      *)
(***************************************************************************)
EXTENDS EdgeSlots, Ring, SequenceTheorems, TLAPS

IsPool(p) ==
  p = [slots |-> p.slots, bySlot |-> p.bySlot, free |-> p.free, cpValid |-> p.cpValid]

TypeInv(p) ==
  /\ DOMAIN p.slots \subseteq Edges
  /\ p.slots \in [DOMAIN p.slots -> ControlPoints]
  /\ p.bySlot \in [ControlPoints -> Edges \cup {None}]
  /\ p.free \in [Batches -> Seq(Indexes)]
  /\ p.cpValid \subseteq ControlPoints

(* The two directions of the map between edges and slots agree. *)
OwnersAgree(p) ==
  \A cp \in ControlPoints, e \in Edges :
    p.bySlot[cp] = e <=> e \in DOMAIN p.slots /\ p.slots[e] = cp

(* A batch's stack has each index that nobody occupies, once. *)
StacksExact(p) ==
  \A b \in Batches :
    /\ IsInjective(p.free[b])
    /\ \A i \in Indexes : i \in ToSet(p.free[b]) <=> p.bySlot[<<b, i>>] = None

PoolInv(p) == IsPool(p) /\ TypeInv(p) /\ OwnersAgree(p) /\ StacksExact(p)

(* Valid control points, a, are those of the edge in the slot. *)
ArcInv(p, a) == \A cp \in p.cpValid : p.bySlot[cp] # None /\ a[cp] = p.bySlot[cp]

(* What the frame still has to visit are edges. *)
WorkInv ==
  /\ store \subseteq Edges
  /\ changes = [removed |-> changes.removed, added |-> changes.added]
  /\ changes.removed \subseteq Edges /\ changes.added \subseteq Edges

SlotsInv == WorkInv /\ PoolInv(Pool) /\ ArcInv(Pool, arc)

-----------------------------------------------------------------------------
(* Stacks.                                                                  *)

(* Pushing an element that is not there keeps a stack free of repetitions. *)
LEMMA PushFacts ==
  ASSUME NEW S, NEW s \in Seq(S), IsInjective(s), NEW x \in S, x \notin ToSet(s)
  PROVE  /\ Append(s, x) \in Seq(S)
         /\ IsInjective(Append(s, x))
         /\ ToSet(Append(s, x)) = ToSet(s) \cup {x}
  <1> DEFINE t == Append(s, x)
  <1>1. /\ t \in Seq(S) /\ Len(s) \in Nat /\ Len(t) = Len(s) + 1
        /\ DOMAIN s = 1..Len(s) /\ DOMAIN t = 1..(Len(s) + 1)
        /\ \A i \in 1..Len(s) : t[i] = s[i]
        /\ t[Len(s) + 1] = x
    OBVIOUS
  <1> HIDE DEF t
  <1>2. IsInjective(t)  BY <1>1 DEF IsInjective, ToSet
  <1>3. ToSet(t) = ToSet(s) \cup {x}  BY <1>1 DEF ToSet
  <1> QED BY <1>1, <1>2, <1>3 DEF t

(* Popping takes out the last element, and nothing else. *)
LEMMA PopFacts ==
  ASSUME NEW S, NEW s \in Seq(S), IsInjective(s), s # <<>>
  PROVE  /\ Front(s) \in Seq(S)
         /\ IsInjective(Front(s))
         /\ Last(s) \in S /\ Last(s) \in ToSet(s)
         /\ ToSet(Front(s)) = ToSet(s) \ {Last(s)}
  <1> DEFINE t == Front(s)
  <1>1. /\ Len(s) \in Nat \ {0} /\ DOMAIN s = 1..Len(s) /\ \A i \in 1..Len(s) : s[i] \in S
    OBVIOUS
  <1>2. /\ t \in Seq(S) /\ DOMAIN t = 1..(Len(s) - 1)
        /\ \A i \in 1..(Len(s) - 1) : t[i] = s[i]
    BY <1>1 DEF Front
  <1> HIDE DEF t
  <1>3. IsInjective(t)  BY <1>1, <1>2 DEF IsInjective
  <1>4. Last(s) \in S /\ Last(s) \in ToSet(s)  BY <1>1 DEF Last, ToSet
  <1>5. ToSet(t) = ToSet(s) \ {Last(s)}
    <2>1. \A i \in 1..(Len(s) - 1) : s[i] # Last(s)  BY <1>1 DEF IsInjective, Last
    <2>2. ToSet(t) \subseteq ToSet(s) \ {Last(s)}  BY <1>1, <1>2, <2>1 DEF ToSet
    <2>3. ToSet(s) \ {Last(s)} \subseteq ToSet(t)  BY <1>1, <1>2 DEF ToSet, Last
    <2> QED BY <2>2, <2>3
  <1> QED BY <1>2, <1>3, <1>4, <1>5 DEF t

(* At the start each stack has all of its batch's indexes. *)
LEMMA FullStack ==
  LET s == [i \in 1..Capacity |-> Capacity - i]
  IN s \in Seq(Indexes) /\ IsInjective(s) /\ ToSet(s) = Indexes
  <1> DEFINE s == [i \in 1..Capacity |-> Capacity - i]
  <1>1. Capacity \in Nat \ {0}  BY PoolAssumption
  <1>2. \A i \in 1..Capacity : Capacity - i \in Indexes  BY <1>1 DEF Indexes
  <1>3. s \in Seq(Indexes)  BY <1>1, <1>2
  <1>4. IsInjective(s)  BY <1>1 DEF IsInjective
  <1>5. ToSet(s) = Indexes
    <2>1. \A j \in Indexes : Capacity - j \in 1..Capacity /\ j = Capacity - (Capacity - j)
      BY <1>1 DEF Indexes
    <2>2. ToSet(s) \subseteq Indexes  BY <1>2 DEF ToSet
    <2>3. Indexes \subseteq ToSet(s)  BY <2>1 DEF ToSet
    <2> QED BY <2>2, <2>3
  <1> QED BY <1>3, <1>4, <1>5

-----------------------------------------------------------------------------
(* The pool.                                                                *)

(* A slot is a batch and an index. *)
LEMMA ControlPointParts ==
  ASSUME NEW cp \in ControlPoints
  PROVE  cp[1] \in Batches /\ cp[2] \in Indexes /\ cp = <<cp[1], cp[2]>>
  BY DEF ControlPoints

(* Freeing an edge's slot. *)
LEMMA ClearInv ==
  ASSUME NEW p, PoolInv(p), NEW a, ArcInv(p, a), NEW e \in DOMAIN p.slots
  PROVE  /\ PoolInv(Clear(p, e)) /\ ArcInv(Clear(p, e), a)
         /\ e \notin DOMAIN Clear(p, e).slots
  <1> DEFINE q == Clear(p, e)
             cp == p.slots[e]
             b == cp[1]
             i == cp[2]
  <1>1. e \in Edges /\ cp \in ControlPoints  BY DEF PoolInv, TypeInv
  <1>2. b \in Batches /\ i \in Indexes /\ cp = <<b, i>>  BY <1>1, ControlPointParts
  <1>3. None \notin Edges  BY PoolAssumption
  <1>4. /\ q = [slots |-> q.slots, bySlot |-> q.bySlot, free |-> q.free, cpValid |-> q.cpValid]
        /\ q.slots = Without(p.slots, e)
        /\ q.bySlot = [p.bySlot EXCEPT ![cp] = None]
        /\ q.free = [p.free EXCEPT ![b] = Append(p.free[b], i)]
        /\ q.cpValid = p.cpValid \ {cp}
    BY DEF Clear
  <1> HIDE DEF q, cp, b, i
  <1>5. p.bySlot[cp] = e /\ p.bySlot[cp] # None
    BY <1>1, <1>3 DEF PoolInv, OwnersAgree, cp
  <1>6. /\ p.free[b] \in Seq(Indexes) /\ IsInjective(p.free[b]) /\ i \notin ToSet(p.free[b])
    BY <1>2, <1>5 DEF PoolInv, TypeInv, StacksExact
  <1>7. /\ Append(p.free[b], i) \in Seq(Indexes)
        /\ IsInjective(Append(p.free[b], i))
        /\ ToSet(Append(p.free[b], i)) = ToSet(p.free[b]) \cup {i}
    BY <1>2, <1>6, PushFacts
  <1>8. /\ DOMAIN q.slots = DOMAIN p.slots \ {e}
        /\ \A x \in DOMAIN q.slots : q.slots[x] = p.slots[x]
    BY <1>4 DEF Without
  <1>9. TypeInv(q)
    <2>1. q.slots \in [DOMAIN q.slots -> ControlPoints]
      BY <1>4, <1>8 DEF PoolInv, TypeInv, Without
    <2>2. q.free \in [Batches -> Seq(Indexes)]  BY <1>4, <1>7 DEF PoolInv, TypeInv
    <2>3. q.bySlot \in [ControlPoints -> Edges \cup {None}]  BY <1>4 DEF PoolInv, TypeInv
    <2> QED BY <1>4, <1>8, <2>1, <2>2, <2>3 DEF PoolInv, TypeInv
  <1>10. \A x \in ControlPoints : q.bySlot[x] = IF x = cp THEN None ELSE p.bySlot[x]
    BY <1>4 DEF PoolInv, TypeInv
  <1>11. OwnersAgree(q)
    BY <1>1, <1>3, <1>5, <1>8, <1>10 DEF PoolInv, OwnersAgree, cp
  <1>12. StacksExact(q)
    <2> SUFFICES ASSUME NEW c \in Batches
                 PROVE  /\ IsInjective(q.free[c])
                        /\ \A j \in Indexes : j \in ToSet(q.free[c]) <=> q.bySlot[<<c, j>>] = None
      BY DEF StacksExact
    <2>1. \A j \in Indexes : <<c, j>> \in ControlPoints  BY DEF ControlPoints
    <2>2. CASE c = b
      <3>1. q.free[c] = Append(p.free[b], i)  BY <1>4, <2>2 DEF PoolInv, TypeInv
      <3>2. \A j \in Indexes : <<c, j>> = cp <=> j = i  BY <1>2, <2>2
      <3>3. \A j \in Indexes : j \in ToSet(p.free[b]) <=> p.bySlot[<<b, j>>] = None
        BY <1>2 DEF PoolInv, StacksExact
      <3> QED BY <1>7, <1>10, <2>1, <2>2, <3>1, <3>2, <3>3
    <2>3. CASE c # b
      <3>1. q.free[c] = p.free[c]  BY <1>4, <2>3 DEF PoolInv, TypeInv
      <3>2. \A j \in Indexes : <<c, j>> # cp  BY <1>2, <2>3
      <3> QED BY <1>10, <2>1, <3>1, <3>2 DEF PoolInv, StacksExact
    <2> QED BY <2>2, <2>3
  <1>13. ArcInv(q, a)
    <2>1. p.cpValid \subseteq ControlPoints  BY DEF PoolInv, TypeInv
    <2> QED BY <1>4, <1>10, <2>1 DEF ArcInv
  <1>14. IsPool(q)  BY <1>4 DEF IsPool
  <1> QED BY <1>8, <1>9, <1>11, <1>12, <1>13, <1>14 DEF PoolInv, q

(* What Place leaves in each field when the batch has room. *)
LEMMA PlaceFields ==
  ASSUME NEW p, PoolInv(p), NEW e, NEW b \in Batches, p.free[b] # <<>>,
         NEW cp, cp = <<b, Last(p.free[b])>>, cp \in ControlPoints
  PROVE  /\ Place(p, e, b).slots = [x \in DOMAIN p.slots \cup {e} |->
                                      IF x = e THEN cp ELSE p.slots[x]]
         /\ Place(p, e, b).bySlot = [p.bySlot EXCEPT ![cp] = e]
         /\ Place(p, e, b).free = [p.free EXCEPT ![b] = Front(p.free[b])]
         /\ Place(p, e, b).cpValid = p.cpValid
         /\ IsPool(Place(p, e, b))
  <1> DEFINE s == [x \in DOMAIN p.slots \cup {e} |-> IF x = e THEN cp ELSE p.slots[x]]
  <1>1. Place(p, e, b) = [p EXCEPT !.slots = s, !.bySlot[cp] = e, !.free[b] = Front(@)]
    BY DEF Place
  <1>2. p = [slots |-> p.slots, bySlot |-> p.bySlot, free |-> p.free, cpValid |-> p.cpValid]
    BY DEF PoolInv, IsPool
  <1> HIDE DEF s
  <1> QED BY <1>1, <1>2 DEF IsPool, s

(* Giving an edge that has no slot the last free index of a batch. *)
LEMMA PlaceInv ==
  ASSUME NEW p, PoolInv(p), NEW a, ArcInv(p, a),
         NEW e \in Edges, e \notin DOMAIN p.slots, NEW b \in Batches
  PROVE  PoolInv(Place(p, e, b)) /\ ArcInv(Place(p, e, b), a)
  <1>1. CASE p.free[b] = <<>>  BY <1>1 DEF Place
  <1>2. CASE p.free[b] # <<>>
    <2> DEFINE q == Place(p, e, b)
               i == Last(p.free[b])
               cp == <<b, i>>
    <2>1. p.free[b] \in Seq(Indexes) /\ IsInjective(p.free[b])
      BY DEF PoolInv, TypeInv, StacksExact
    <2>2. /\ Front(p.free[b]) \in Seq(Indexes)
          /\ IsInjective(Front(p.free[b]))
          /\ i \in Indexes /\ i \in ToSet(p.free[b])
          /\ ToSet(Front(p.free[b])) = ToSet(p.free[b]) \ {i}
      BY <1>2, <2>1, PopFacts
    <2>3. cp \in ControlPoints  BY <2>2 DEF ControlPoints
    <2>4. /\ q.slots = [x \in DOMAIN p.slots \cup {e} |-> IF x = e THEN cp ELSE p.slots[x]]
          /\ q.bySlot = [p.bySlot EXCEPT ![cp] = e]
          /\ q.free = [p.free EXCEPT ![b] = Front(p.free[b])]
          /\ q.cpValid = p.cpValid
          /\ IsPool(q)
      BY <1>2, <2>3, PlaceFields
    <2> HIDE DEF q
    <2>5. None \notin Edges  BY PoolAssumption
    <2>6. p.bySlot[cp] = None  BY <2>2 DEF PoolInv, StacksExact
    <2>7. \A x \in ControlPoints : q.bySlot[x] = IF x = cp THEN e ELSE p.bySlot[x]
      BY <2>4 DEF PoolInv, TypeInv
    <2>8. /\ DOMAIN q.slots = DOMAIN p.slots \cup {e} /\ q.slots[e] = cp
          /\ \A x \in DOMAIN p.slots : q.slots[x] = p.slots[x]
      BY <2>4
    <2> HIDE DEF cp
    <2>9. TypeInv(q)
      <3>1. q.slots \in [DOMAIN q.slots -> ControlPoints]
        BY <2>3, <2>4, <2>8 DEF PoolInv, TypeInv
      <3>2. q.free \in [Batches -> Seq(Indexes)]  BY <2>2, <2>4 DEF PoolInv, TypeInv
      <3>3. q.bySlot \in [ControlPoints -> Edges \cup {None}]  BY <2>4 DEF PoolInv, TypeInv
      <3> QED BY <2>4, <2>8, <3>1, <3>2, <3>3 DEF PoolInv, TypeInv
    <2>10. OwnersAgree(q)
      <3> SUFFICES ASSUME NEW x \in ControlPoints, NEW f \in Edges
                   PROVE  q.bySlot[x] = f <=> f \in DOMAIN q.slots /\ q.slots[f] = x
        BY DEF OwnersAgree
      <3>1. p.bySlot[x] = f <=> f \in DOMAIN p.slots /\ p.slots[f] = x
        BY DEF PoolInv, OwnersAgree
      <3>2. p.bySlot[cp] = f <=> f \in DOMAIN p.slots /\ p.slots[f] = cp
        BY <2>3 DEF PoolInv, OwnersAgree
      <3>3. CASE f = e  BY <2>7, <2>8, <3>1, <3>3
      <3>4. CASE f # e  BY <2>5, <2>6, <2>7, <2>8, <3>1, <3>2, <3>4
      <3> QED BY <3>3, <3>4
    <2>11. StacksExact(q)
      <3> SUFFICES ASSUME NEW c \in Batches
                   PROVE  /\ IsInjective(q.free[c])
                          /\ \A j \in Indexes : j \in ToSet(q.free[c]) <=> q.bySlot[<<c, j>>] = None
        BY DEF StacksExact
      <3>1. \A j \in Indexes : <<c, j>> \in ControlPoints  BY DEF ControlPoints
      <3>2. CASE c = b
        <4>1. q.free[c] = Front(p.free[b])  BY <2>4, <3>2 DEF PoolInv, TypeInv
        <4>2. \A j \in Indexes : <<c, j>> = cp <=> j = i  BY <3>2 DEF cp
        <4>3. \A j \in Indexes : j \in ToSet(p.free[b]) <=> p.bySlot[<<b, j>>] = None
          BY DEF PoolInv, StacksExact
        <4> HIDE DEF i
        <4> QED BY <2>2, <2>5, <2>7, <3>1, <3>2, <4>1, <4>2, <4>3
      <3>3. CASE c # b
        <4>1. q.free[c] = p.free[c]  BY <2>4, <3>3 DEF PoolInv, TypeInv
        <4>2. \A j \in Indexes : <<c, j>> # cp  BY <3>3 DEF cp
        <4> QED BY <2>7, <3>1, <4>1, <4>2 DEF PoolInv, StacksExact
      <3> QED BY <3>2, <3>3
    <2>12. ArcInv(q, a)
      <3>1. p.cpValid \subseteq ControlPoints /\ cp \notin p.cpValid
        BY <2>6 DEF PoolInv, TypeInv, ArcInv
      <3> QED BY <2>4, <2>7, <3>1 DEF ArcInv
    <2> QED BY <2>4, <2>9, <2>10, <2>11, <2>12 DEF PoolInv, q
  <1> QED BY <1>1, <1>2

-----------------------------------------------------------------------------
(* The steps.                                                               *)

(* A pool is a record, and SetPool sets it. *)
LEMMA PoolFields ==
  /\ Pool.slots = slots /\ Pool.bySlot = bySlot /\ Pool.free = free /\ Pool.cpValid = cpValid
  /\ IsPool(Pool)
  BY DEF Pool, IsPool

LEMMA SetPoolSets == ASSUME NEW p, IsPool(p), SetPool(p) PROVE Pool' = p
  BY DEF Pool, SetPool, IsPool

LEMMA SlotsInvInit == Init => SlotsInv
  <1> SUFFICES ASSUME Init  PROVE SlotsInv
    OBVIOUS
  <1>1. WorkInv  BY DEF Init, WorkInv
  <1>2. /\ slots = <<>> /\ cpValid = {}
        /\ bySlot = [cp \in ControlPoints |-> None]
        /\ free = [b \in Batches |-> [i \in 1..Capacity |-> Capacity - i]]
    BY DEF Init
  <1>3. \A b \in Batches : /\ free[b] \in Seq(Indexes) /\ IsInjective(free[b])
                           /\ ToSet(free[b]) = Indexes
    BY <1>2, FullStack
  <1>4. DOMAIN slots = {}  BY <1>2
  <1>5. \A b \in Batches, i \in Indexes : <<b, i>> \in ControlPoints  BY DEF ControlPoints
  <1>6. None \notin Edges  BY PoolAssumption
  <1>7. TypeInv(Pool)
    <2>1. slots \in [DOMAIN slots -> ControlPoints]  BY <1>2, <1>4
    <2>2. free \in [Batches -> Seq(Indexes)]  BY <1>2, <1>3
    <2> QED BY <1>2, <1>4, <2>1, <2>2, PoolFields DEF TypeInv
  <1>8. OwnersAgree(Pool)  BY <1>2, <1>4, <1>6, PoolFields DEF OwnersAgree
  <1>9. StacksExact(Pool)  BY <1>2, <1>3, <1>5, PoolFields DEF StacksExact
  <1>10. ArcInv(Pool, arc)  BY <1>2, PoolFields DEF ArcInv
  <1> QED BY <1>1, <1>7, <1>8, <1>9, <1>10, PoolFields DEF SlotsInv, PoolInv

(* Steps that leave the pool and the arcs alone. *)
LEMMA PoolsSame ==
  SlotsInv /\ WorkInv' /\ UNCHANGED <<pools, arc>> => SlotsInv'
  <1> SUFFICES ASSUME SlotsInv, WorkInv', UNCHANGED <<pools, arc>>  PROVE SlotsInv'
    OBVIOUS
  <1>1. Pool' = Pool /\ arc' = arc  BY DEF pools, Pool
  <1> QED BY <1>1 DEF SlotsInv, PoolInv, ArcInv, IsPool, TypeInv, OwnersAgree, StacksExact

(* Steps that set the pool to one that is exact, too. *)
LEMMA PoolsSet ==
  ASSUME WorkInv', NEW p, SetPool(p), PoolInv(p), ArcInv(p, arc), arc' = arc
  PROVE  SlotsInv'
  <1>1. Pool' = p  BY SetPoolSets DEF PoolInv
  <1> QED BY <1>1 DEF SlotsInv, PoolInv, ArcInv, IsPool, TypeInv, OwnersAgree, StacksExact

LEMMA StoreInv ==
  ASSUME SlotsInv,
         \/ \E e \in Edges : StoreAdds(e) \/ StoreRemoves(e)
         \/ \E S \in SUBSET Edges : StoreReplaced(S)
  PROVE  SlotsInv'
  <1>1. UNCHANGED <<pools, arc>>  BY DEF StoreAdds, StoreRemoves, StoreReplaced, StoreStep
  <1>2. WorkInv  BY DEF SlotsInv
  <1>3. WorkInv'
    <2>1. CASE \E e \in Edges : StoreAdds(e)  BY <1>2, <2>1 DEF WorkInv, StoreAdds
    <2>2. CASE \E e \in Edges : StoreRemoves(e)  BY <1>2, <2>2 DEF WorkInv, StoreRemoves
    <2>3. CASE \E S \in SUBSET Edges : StoreReplaced(S)
      BY <1>2, <2>3 DEF WorkInv, StoreReplaced
    <2> QED BY <2>1, <2>2, <2>3
  <1> QED BY <1>1, <1>3, PoolsSame

(* Edges.remove, for an edge that left the store. *)
LEMMA RemoveEdgeInv == SlotsInv /\ RemoveEdge => SlotsInv'
  <1> SUFFICES ASSUME SlotsInv, RemoveEdge  PROVE SlotsInv'
    OBVIOUS
  <1>1. PICK e \in changes.removed :
          /\ changes' = [changes EXCEPT !.removed = @ \ {e}]
          /\ IF e \in Drawn THEN SetPool(Clear(Pool, e)) ELSE UNCHANGED pools
    BY DEF RemoveEdge
  <1>2. WorkInv'  BY <1>1 DEF SlotsInv, WorkInv, RemoveEdge
  <1>3. arc' = arc  BY DEF RemoveEdge
  <1>4. CASE e \in Drawn
    <2>1. PoolInv(Clear(Pool, e)) /\ ArcInv(Clear(Pool, e), arc)
      BY <1>4, ClearInv, PoolFields DEF SlotsInv, Drawn
    <2> QED BY <1>1, <1>2, <1>3, <1>4, <2>1, PoolsSet
  <1>5. CASE e \notin Drawn  BY <1>1, <1>2, <1>3, <1>5, PoolsSame
  <1> QED BY <1>4, <1>5

(* Edges.add, for an edge that is new in the store. *)
LEMMA AddEdgeInv == SlotsInv /\ AddEdge => SlotsInv'
  <1> SUFFICES ASSUME SlotsInv, AddEdge  PROVE SlotsInv'
    OBVIOUS
  <1>1. PICK e \in changes.added :
          /\ changes' = [changes EXCEPT !.added = @ \ {e}]
          /\ IF e \in Drawn THEN UNCHANGED pools ELSE SetPool(Place(Pool, e, 0))
    BY DEF AddEdge
  <1>2. WorkInv' /\ e \in Edges  BY <1>1 DEF SlotsInv, WorkInv, AddEdge
  <1>3. arc' = arc  BY DEF AddEdge
  <1>4. 0 \in Batches  BY PoolAssumption DEF Batches
  <1>5. CASE e \notin Drawn
    <2>1. PoolInv(Place(Pool, e, 0)) /\ ArcInv(Place(Pool, e, 0), arc)
      BY <1>2, <1>4, <1>5, PlaceInv, PoolFields DEF SlotsInv, Drawn
    <2> QED BY <1>1, <1>2, <1>3, <1>5, <2>1, PoolsSet
  <1>6. CASE e \in Drawn  BY <1>1, <1>2, <1>3, <1>6, PoolsSame
  <1> QED BY <1>5, <1>6

(* Edges.setRate moves an edge: its slot is freed before another is taken, *)
(* which may be none at all.                                               *)
LEMMA SetRateInv == SlotsInv /\ SetRate => SlotsInv'
  <1> SUFFICES ASSUME SlotsInv, SetRate  PROVE SlotsInv'
    OBVIOUS
  <1>1. PICK e \in todo, want \in Batches :
          IF e \in Drawn /\ slots[e][1] # want
          THEN SetPool(Place(Clear(Pool, e), e, want))
          ELSE UNCHANGED pools
    BY DEF SetRate
  <1>2. WorkInv'  BY DEF SlotsInv, WorkInv, SetRate
  <1>3. arc' = arc  BY DEF SetRate
  <1>4. CASE e \in Drawn /\ slots[e][1] # want
    <2> DEFINE p == Clear(Pool, e)
    <2>1. e \in DOMAIN Pool.slots /\ e \in Edges
      BY <1>4, PoolFields DEF Drawn, SlotsInv, PoolInv, TypeInv
    <2>2. PoolInv(p) /\ ArcInv(p, arc) /\ e \notin DOMAIN p.slots
      BY <2>1, ClearInv DEF SlotsInv
    <2> HIDE DEF p
    <2>3. PoolInv(Place(p, e, want)) /\ ArcInv(Place(p, e, want), arc)
      BY <2>1, <2>2, PlaceInv
    <2>4. SetPool(Place(p, e, want))  BY <1>1, <1>4 DEF p
    <2> QED BY <1>2, <1>3, <2>3, <2>4, PoolsSet
  <1>5. CASE ~(e \in Drawn /\ slots[e][1] # want)  BY <1>1, <1>2, <1>3, <1>5, PoolsSame
  <1> QED BY <1>4, <1>5

(* Steps that change which arcs are valid, and nothing else of the pool. *)
LEMMA ValidChanges ==
  ASSUME SlotsInv, UNCHANGED <<store, changes, slots, bySlot, free>>,
         cpValid' \subseteq ControlPoints,
         \A cp \in cpValid' : bySlot[cp] # None /\ arc'[cp] = bySlot[cp]
  PROVE  SlotsInv'
  <1>1. WorkInv'  BY DEF SlotsInv, WorkInv
  <1>2. /\ Pool'.slots = slots /\ Pool'.bySlot = bySlot /\ Pool'.free = free
        /\ Pool'.cpValid = cpValid' /\ IsPool(Pool')
    BY DEF Pool, IsPool
  <1>3. TypeInv(Pool) /\ OwnersAgree(Pool) /\ StacksExact(Pool)  BY DEF SlotsInv, PoolInv
  <1>4. TypeInv(Pool')  BY <1>2, <1>3, PoolFields DEF TypeInv
  <1>5. OwnersAgree(Pool')  BY <1>2, <1>3, PoolFields DEF OwnersAgree
  <1>6. StacksExact(Pool')  BY <1>2, <1>3, PoolFields DEF StacksExact
  <1>7. ArcInv(Pool', arc')  BY <1>2 DEF ArcInv
  <1> QED BY <1>1, <1>2, <1>4, <1>5, <1>6, <1>7 DEF SlotsInv, PoolInv, IsPool, TypeInv,
                                                  OwnersAgree, StacksExact, ArcInv

(* setSame invalidates arcs. *)
LEMMA RemovedInv == SlotsInv /\ Removed => SlotsInv'
  <1> SUFFICES ASSUME SlotsInv, Removed  PROVE SlotsInv'
    OBVIOUS
  <1>1. UNCHANGED <<store, changes, slots, bySlot, free, arc>> /\ cpValid' \subseteq cpValid
    BY DEF Removed
  <1>2. /\ cpValid \subseteq ControlPoints
        /\ \A cp \in cpValid : bySlot[cp] # None /\ arc[cp] = bySlot[cp]
    BY PoolFields DEF SlotsInv, PoolInv, TypeInv, ArcInv
  <1> QED BY <1>1, <1>2, ValidChanges

(* Edges.update draws each arc into the slot of its own edge, which is no *)
(* other edge's.                                                          *)
LEMMA UpdateInv == SlotsInv /\ Update => SlotsInv'
  <1> SUFFICES ASSUME SlotsInv, Update  PROVE SlotsInv'
    OBVIOUS
  <1>1. PICK redrawn \in SUBSET Drawn :
          /\ arc' = [cp \in ControlPoints |->
                       IF bySlot[cp] \in redrawn THEN bySlot[cp] ELSE arc[cp]]
          /\ cpValid' = cpValid \cup {slots[e] : e \in redrawn}
    BY DEF Update
  <1>2. UNCHANGED <<store, changes, slots, bySlot, free>>  BY DEF Update
  <1>3. /\ cpValid \subseteq ControlPoints
        /\ \A cp \in cpValid : bySlot[cp] # None /\ arc[cp] = bySlot[cp]
        /\ Drawn \subseteq Edges /\ \A e \in Drawn : slots[e] \in ControlPoints
    BY PoolFields DEF SlotsInv, PoolInv, TypeInv, ArcInv, Drawn
  <1>4. \A e \in Drawn : bySlot[slots[e]] = e
    BY <1>3, PoolFields DEF SlotsInv, PoolInv, OwnersAgree, Drawn
  <1>5. cpValid' \subseteq ControlPoints  BY <1>1, <1>3
  <1>6. \A cp \in cpValid' : bySlot[cp] # None /\ arc'[cp] = bySlot[cp]
    <2> SUFFICES ASSUME NEW cp \in cpValid'  PROVE bySlot[cp] # None /\ arc'[cp] = bySlot[cp]
      OBVIOUS
    <2>1. cp \in ControlPoints  BY <1>5
    <2>2. CASE cp \in cpValid  BY <1>1, <1>3, <2>1, <2>2
    <2>3. CASE \E e \in redrawn : cp = slots[e]
      <3>1. PICK e \in redrawn : cp = slots[e]  BY <2>3
      <3>2. bySlot[cp] = e /\ e # None  BY <1>3, <1>4, <3>1, PoolAssumption
      <3> QED BY <1>1, <2>1, <3>1, <3>2
    <2> QED BY <1>1, <2>2, <2>3
  <1> QED BY <1>2, <1>5, <1>6, ValidChanges

LEMMA NextInv == SlotsInv /\ [Next]_vars => SlotsInv'
  <1> SUFFICES ASSUME SlotsInv, [Next]_vars  PROVE SlotsInv'
    OBVIOUS
  <1>1. CASE \/ \E e \in Edges : StoreAdds(e)
             \/ \E e \in Edges : StoreRemoves(e)
             \/ \E S \in SUBSET Edges : StoreReplaced(S)
    BY <1>1, StoreInv
  <1>2. CASE RemoveEdge  BY <1>2, RemoveEdgeInv
  <1>3. CASE Removed  BY <1>3, RemovedInv
  <1>4. CASE AddEdge  BY <1>4, AddEdgeInv
  <1>5. CASE SetRate  BY <1>5, SetRateInv
  <1>6. CASE Update  BY <1>6, UpdateInv
  <1>7. CASE FrameStarts \/ Added \/ Spawn \/ Sparked \/ Rated \/ Age \/ UNCHANGED vars
    <2>1. UNCHANGED <<store, changes, pools, arc>>
      <3>1. CASE Age  BY <3>1 DEF Age
      <3>2. CASE Spawn  BY <3>2 DEF Spawn
      <3>3. CASE FrameStarts \/ Added \/ Sparked \/ Rated
        BY <3>3 DEF FrameStarts, Added, Sparked, Rated
      <3>4. CASE UNCHANGED vars  BY <3>4 DEF vars, pools
      <3> QED BY <1>7, <3>1, <3>2, <3>3, <3>4
    <2>2. WorkInv'  BY <2>1 DEF SlotsInv, WorkInv
    <2> QED BY <2>1, <2>2, PoolsSame
  <1> QED BY <1>1, <1>2, <1>3, <1>4, <1>5, <1>6, <1>7 DEF Next

-----------------------------------------------------------------------------

(* The inductive invariant: the maps between edges and slots agree, the free *)
(* stacks hold the rest, and valid arcs are the owners'.                     *)
THEOREM SlotsInvariant == Spec => []SlotsInv
  BY SlotsInvInit, NextInv, PTL DEF Spec

(* Across additions, removals and moves between batches no slot of edges.ts *)
(* leaks and none has two edges.                                            *)
THEOREM PoolAlwaysExact == Spec => []PoolExact
  <1>1. SlotsInv => PoolExact
    <2> SUFFICES ASSUME SlotsInv  PROVE PoolExact
      OBVIOUS
    <2>1. TypeInv(Pool) /\ OwnersAgree(Pool) /\ StacksExact(Pool)  BY DEF SlotsInv, PoolInv
    <2>2. \A b \in Batches : IsInjective(free[b])  BY <2>1, PoolFields DEF StacksExact
    <2>3. ASSUME NEW cp \in ControlPoints
          PROVE  LET free_ == cp[2] \in ToSet(free[cp[1]])
                     holders == {e \in Drawn : slots[e] = cp}
                 IN /\ free_ <=> holders = {}
                    /\ bySlot[cp] = None <=> holders = {}
                    /\ bySlot[cp] # None => holders = {bySlot[cp]}
      <3> DEFINE holders == {e \in Drawn : slots[e] = cp}
      <3>1. /\ Drawn \subseteq Edges /\ bySlot[cp] \in Edges \cup {None}
        BY <2>1, PoolFields DEF TypeInv, Drawn
      <3>2. \A e \in Edges : bySlot[cp] = e <=> e \in Drawn /\ slots[e] = cp
        BY <2>1, PoolFields DEF OwnersAgree, Drawn
      <3>3. cp[2] \in ToSet(free[cp[1]]) <=> bySlot[cp] = None
        <4>1. cp[1] \in Batches /\ cp[2] \in Indexes /\ cp = <<cp[1], cp[2]>>
          BY ControlPointParts
        <4> QED BY <2>1, <4>1, PoolFields DEF StacksExact
      <3>4. None \notin Edges  BY PoolAssumption
      <3>5. bySlot[cp] = None <=> holders = {}  BY <3>1, <3>2, <3>4
      <3>6. bySlot[cp] # None => holders = {bySlot[cp]}  BY <3>1, <3>2
      <3> QED BY <3>3, <3>5, <3>6
    <2> QED BY <2>2, <2>3 DEF PoolExact
  <1> QED BY <1>1, SlotsInvariant, PTL

(* Control points that are marked valid are those of the edge that occupies *)
(* the slot now (clear, place, setSame and update of edges.ts).             *)
THEOREM ArcsAlwaysOwn == Spec => []ArcsAreOwn
  <1>1. SlotsInv => ArcsAreOwn
    BY PoolFields DEF SlotsInv, ArcInv, ArcsAreOwn
  <1> QED BY <1>1, SlotsInvariant, PTL

-----------------------------------------------------------------------------
(* The rings.                                                               *)

(* Two seconds that share a slot are a turn of the ring apart. *)
LEMMA SlotsApart ==
  ASSUME NEW a \in Nat, NEW b \in Nat, Slot(a) = Slot(b), a < b
  PROVE  a + Retention <= b
  <1> PICK R \in Nat \ {0} : R = Retention  BY RingAssumption
  <1>1. PICK q \in Int : a = R * q + (a % R)
    <2>1. a = R * (a \div R) + (a % R) /\ a \div R \in Int  OBVIOUS
    <2> QED BY <2>1
  <1>2. PICK p \in Int : b = R * p + (b % R)
    <2>1. b = R * (b \div R) + (b % R) /\ b \div R \in Int  OBVIOUS
    <2> QED BY <2>1
  <1>3. PICK r \in Nat : r = a % R /\ r = b % R
    <2>1. a % R \in Nat  OBVIOUS
    <2> QED BY <2>1 DEF Slot
  <1>4. PICK x \in Int, y \in Int : x = R * q /\ y = R * p  OBVIOUS
  <1>5. a = x + r /\ b = y + r  BY <1>1, <1>2, <1>3, <1>4
  <1>6. x < y  BY <1>5
  <1>7. \A i, j \in Int : R * i < R * j => R * i + R <= R * j
    <2> SUFFICES ASSUME NEW i \in Int, NEW j \in Int, R * i < R * j  PROVE R * i + R <= R * j
      OBVIOUS
    <2>1. i < j  OBVIOUS
    <2> QED BY <2>1
  <1>8. x + R <= y  BY <1>4, <1>6, <1>7
  <1> QED BY <1>5, <1>8

LEMMA SlotType == ASSUME NEW a \in Nat PROVE Slot(a) \in Slots
  <1> PICK R \in Nat \ {0} : R = Retention  BY RingAssumption
  <1>1. a % R \in 0..(R - 1)  OBVIOUS
  <1> QED BY <1>1 DEF Slot, Slots

-----------------------------------------------------------------------------
(* The server's ring.                                                       *)

RingTypes ==
  /\ now \in Retention..MaxNow
  /\ flows \in [Seconds -> Nat]
  /\ ring \in [Slots -> [epoch: Nat, count: Nat]]
  /\ dirty \in Nat

(* A slot has the last of its seconds that had a flow, and counts that       *)
(* second's flows; without any it is as it was made.                        *)
SlotCounts(i) ==
  /\ ring[i].epoch \in Seconds /\ ring[i].epoch <= now + Skew
  /\ ring[i].count = flows[ring[i].epoch]
  /\ IF ring[i].count > 0 THEN Slot(ring[i].epoch) = i ELSE ring[i].epoch = 0
  /\ \A s \in Seconds : flows[s] > 0 /\ Slot(s) = i => 0 < s /\ s <= ring[i].epoch /\ ring[i].count > 0

RingInv == RingTypes /\ \A i \in Slots : SlotCounts(i)

LEMMA RingInvAtStart == RingInit => RingInv
  <1> SUFFICES ASSUME RingInit  PROVE RingInv
    OBVIOUS
  <1>1. RingTypes  BY RingAssumption DEF RingInit, RingTypes, NoCounts, Slots
  <1>2. 0 \in Seconds  BY RingAssumption DEF Seconds
  <1>3. \A s \in Seconds : flows[s] = 0  BY DEF RingInit
  <1>4. \A i \in Slots : ring[i].epoch = 0 /\ ring[i].count = 0  BY DEF RingInit, NoCounts
  <1>5. now + Skew >= 0  BY RingAssumption DEF RingInit
  <1>6. ASSUME NEW i \in Slots  PROVE SlotCounts(i)
    BY <1>2, <1>3, <1>4, <1>5 DEF SlotCounts
  <1> QED BY <1>1, <1>6 DEF RingInv

(* A flow's second is of the last turn: what is newer in its slot is not.    *)
LEMMA FlowKeepsRing == RingInv /\ Flow => RingInv'
  <1> SUFFICES ASSUME RingInv, Flow  PROVE RingInv'
    OBVIOUS
  <1>0. /\ Retention \in Nat /\ Lag \in Nat /\ Skew \in Nat /\ Lag + Skew < Retention /\ MaxNow \in Nat
        /\ now \in Nat /\ Retention <= now /\ now <= MaxNow
    BY RingAssumption DEF RingInv, RingTypes
  <1>1. PICK sec \in (now - Lag)..(now + Skew) :
          /\ ring' = Add(ring, sec)
          /\ flows' = [flows EXCEPT ![sec] = @ + 1]
    BY DEF Flow
  <1>2. dirty' = dirty + 1 /\ now' = now  BY DEF Flow
  <1>3. sec \in Seconds /\ sec \in Nat /\ sec > 0  BY <1>0 DEF Seconds
  <1> PICK j : j = Slot(sec)  OBVIOUS
  <1>4. j \in Slots  BY <1>3, SlotType
  <1> PICK c : c = IF ring[j].epoch = sec THEN ring[j].count + 1 ELSE 1  OBVIOUS
  <1>5. /\ ring' = [ring EXCEPT ![j] = [epoch |-> sec, count |-> c]]
    BY <1>1 DEF Add
  <1>6. /\ flows' \in [Seconds -> Nat] /\ flows'[sec] = flows[sec] + 1
        /\ \A s \in Seconds \ {sec} : flows'[s] = flows[s]
        /\ flows \in [Seconds -> Nat]
    BY <1>1, <1>3 DEF RingInv, RingTypes
  <1>7. ring[j] \in [epoch: Nat, count: Nat]  BY <1>4 DEF RingInv, RingTypes
  <1>8. c \in Nat  BY <1>7
  <1>9. /\ ring' \in [Slots -> [epoch: Nat, count: Nat]]
        /\ ring'[j].epoch = sec /\ ring'[j].count = c
        /\ \A i \in Slots \ {j} : ring'[i] = ring[i]
    BY <1>3, <1>4, <1>5, <1>8 DEF RingInv, RingTypes
  <1>10. RingTypes'  BY <1>2, <1>6, <1>9 DEF RingInv, RingTypes
  <1>11. SlotCounts(j)  BY <1>4 DEF RingInv
  <1>12. \A s \in Seconds : flows[s] > 0 /\ Slot(s) = j => s <= sec
    <2> SUFFICES ASSUME NEW s \in Seconds, flows[s] > 0, Slot(s) = j, sec < s  PROVE FALSE
      BY <1>0, <1>3 DEF Seconds
    <2>1. s \in Nat  BY <1>0 DEF Seconds
    <2>2. sec + Retention <= s  BY <1>3, <2>1, SlotsApart
    <2>3. s <= now + Skew  BY <1>0, <1>7, <1>11, <2>1 DEF SlotCounts
    <2> QED BY <1>0, <1>3, <2>1, <2>2, <2>3
  <1>13. c = flows[sec] + 1
    <2>1. CASE ring[j].epoch = sec  BY <1>11, <2>1 DEF SlotCounts
    <2>2. CASE ring[j].epoch # sec
      <3>1. ~(flows[sec] > 0)
        <4> SUFFICES ASSUME flows[sec] > 0  PROVE FALSE
          OBVIOUS
        <4>1. sec <= ring[j].epoch /\ ring[j].count > 0  BY <1>3, <1>11 DEF SlotCounts
        <4>2. flows[ring[j].epoch] > 0 /\ Slot(ring[j].epoch) = j /\ ring[j].epoch \in Seconds
          BY <1>11, <4>1 DEF SlotCounts
        <4>3. ring[j].epoch <= sec  BY <1>12, <4>2
        <4> QED BY <1>3, <1>7, <2>2, <4>1, <4>3
      <3>2. flows[sec] \in Nat  BY <1>3, <1>6
      <3> QED BY <2>2, <3>1, <3>2
    <2> QED BY <2>1, <2>2
  <1>14. SlotCounts(j)'
    <2>1. c > 0  BY <1>3, <1>6, <1>13
    <2>2. \A s \in Seconds : flows'[s] > 0 /\ Slot(s) = j => 0 < s /\ s <= sec
      <3> SUFFICES ASSUME NEW s \in Seconds, flows'[s] > 0, Slot(s) = j  PROVE 0 < s /\ s <= sec
        OBVIOUS
      <3>1. CASE s = sec  BY <1>3, <3>1
      <3>2. CASE s # sec
        <4>1. flows[s] > 0  BY <1>6, <3>2
        <4> QED BY <1>11, <1>12, <4>1 DEF SlotCounts
      <3> QED BY <3>1, <3>2
    <2>3. sec <= now + Skew  BY <1>0
    <2> QED BY <1>2, <1>3, <1>6, <1>9, <1>13, <2>1, <2>2, <2>3 DEF SlotCounts, Seconds, Slot
  <1>15. ASSUME NEW i \in Slots, i # j  PROVE SlotCounts(i)'
    <2>1. SlotCounts(i)  BY DEF RingInv
    <2>2. ring'[i] = ring[i]  BY <1>9, <1>15
    <2>3. ring[i].epoch # sec
      <3>1. IF ring[i].count > 0 THEN Slot(ring[i].epoch) = i ELSE ring[i].epoch = 0
        BY <2>1 DEF SlotCounts
      <3> QED BY <1>3, <1>15, <3>1
    <2>4. ring[i].epoch \in Seconds /\ ring[i].epoch <= now + Skew
      BY <2>1 DEF SlotCounts
    <2>5. flows'[ring[i].epoch] = flows[ring[i].epoch]  BY <1>6, <2>3, <2>4
    <2>6. \A s \in Seconds : Slot(s) = i => flows'[s] = flows[s]
      BY <1>6, <1>15
    <2>7. Seconds' = Seconds /\ \A s : Slot(s)' = Slot(s)  BY DEF Seconds, Slot
    <2> QED BY <1>2, <2>1, <2>2, <2>5, <2>6, <2>7 DEF SlotCounts
  <1> QED BY <1>10, <1>14, <1>15 DEF RingInv, Slots

LEMMA RingInvNext == RingInv /\ [RingNext]_ringVars => RingInv'
  <1> SUFFICES ASSUME RingInv, [RingNext]_ringVars  PROVE RingInv'
    OBVIOUS
  <1>1. CASE Flow  BY <1>1, FlowKeepsRing
  <1>2. CASE Second
    <2>1. /\ now' = now + 1 /\ now < MaxNow
          /\ ring' = ring /\ flows' = flows /\ dirty' = dirty
      BY <1>2 DEF Second
    <2>2. RingTypes'  BY <2>1, RingAssumption DEF RingInv, RingTypes
    <2>3. ASSUME NEW i \in Slots  PROVE SlotCounts(i)'
      <3>1. SlotCounts(i)  BY DEF RingInv
      <3>2. ring[i].epoch \in Nat /\ now \in Nat /\ Skew \in Nat
        BY RingAssumption DEF RingInv, RingTypes
      <3>3. ring[i].epoch <= now + 1 + Skew  BY <3>1, <3>2 DEF SlotCounts
      <3> QED BY <2>1, <3>1, <3>3 DEF SlotCounts
    <2> QED BY <2>2, <2>3 DEF RingInv
  <1>3. CASE Tick \/ Snapshot \/ UNCHANGED ringVars
    <2>1. now' = now /\ ring' = ring /\ flows' = flows /\ dirty' \in Nat
      BY <1>3 DEF Tick, Snapshot, ringVars, RingInv, RingTypes
    <2> QED BY <2>1 DEF RingInv, RingTypes, SlotCounts
  <1> QED BY <1>1, <1>2, <1>3 DEF RingNext

(* What is shown for a second that no newer one can have taken the slot of. *)
LEMMA ShownExactly ==
  ASSUME RingInv, NEW s \in Seconds, s > now + Skew - Retention, flows[s] > 0
  PROVE  ring[Slot(s)] = [epoch |-> s, count |-> flows[s]]
  <1>0. /\ Retention \in Nat /\ Skew \in Nat /\ now \in Nat /\ MaxNow \in Nat /\ s \in Nat
    BY RingAssumption DEF RingInv, RingTypes, Seconds
  <1> PICK i : i = Slot(s)  OBVIOUS
  <1>1. i \in Slots /\ SlotCounts(i)  BY <1>0, SlotType DEF RingInv
  <1> PICK e : e = ring[i].epoch  OBVIOUS
  <1>2. s <= e /\ Slot(e) = i /\ e <= now + Skew /\ ring[i].count = flows[e]
    BY <1>1 DEF SlotCounts
  <1>3. ring[i] \in [epoch: Nat, count: Nat]  BY <1>1 DEF RingInv, RingTypes
  <1>4. e = s
    <2> SUFFICES ASSUME s < e  PROVE FALSE
      BY <1>0, <1>2, <1>3
    <2>1. s + Retention <= e  BY <1>0, <1>2, <1>3, SlotsApart
    <2> QED BY <1>0, <1>2, <1>3, <2>1
  <1> QED BY <1>2, <1>3, <1>4

(* Whatever order flows of the retention come in, a snapshot has just what   *)
(* was counted in each second that no flow from the future shares a slot    *)
(* with (buckets.go add, sparse).                                           *)
THEOREM SnapshotAlwaysExact == RingSpec => []SnapshotExact
  <1>1. RingInv => SnapshotExact
    <2> SUFFICES ASSUME RingInv  PROVE SnapshotExact
      OBVIOUS
    <2>0. Retention \in Nat /\ Skew \in Nat /\ now \in Nat /\ MaxNow \in Nat
      BY RingAssumption DEF RingInv, RingTypes
    <2>1. ASSUME NEW b \in Sparse(ring, now - Retention), Unshared(b.epoch)
          PROVE  b \in {[epoch |-> s, count |-> flows[s]] : s \in {x \in Seconds : Unshared(x) /\ flows[x] > 0}}
      <3>1. PICK i \in Slots : b = ring[i]  BY <2>1 DEF Sparse
      <3>2. b.count > 0  BY <2>1 DEF Sparse
      <3>3. b \in [epoch: Nat, count: Nat]  BY <3>1 DEF RingInv, RingTypes
      <3>4. b.epoch \in Seconds /\ b.count = flows[b.epoch]  BY <3>1 DEF RingInv, SlotCounts
      <3>5. b = [epoch |-> b.epoch, count |-> flows[b.epoch]]  BY <3>3, <3>4
      <3> QED BY <2>1, <3>2, <3>4, <3>5
    <2>2. ASSUME NEW s \in Seconds, Unshared(s), flows[s] > 0
          PROVE  [epoch |-> s, count |-> flows[s]] \in {b \in Sparse(ring, now - Retention) : Unshared(b.epoch)}
      <3>1. s > now + Skew - Retention /\ s \in Nat  BY <2>0, <2>2 DEF Unshared, Seconds
      <3>2. ring[Slot(s)] = [epoch |-> s, count |-> flows[s]]  BY <2>2, <3>1, ShownExactly
      <3>3. Slot(s) \in Slots  BY <3>1, SlotType
      <3>4. s > now - Retention  BY <2>0, <3>1
      <3>5. [epoch |-> s, count |-> flows[s]] \in Sparse(ring, now - Retention)
        BY <2>2, <3>2, <3>3, <3>4 DEF Sparse
      <3> QED BY <2>2, <3>5
    <2> QED BY <2>1, <2>2 DEF SnapshotExact
  <1> QED BY <1>1, RingInvAtStart, RingInvNext, PTL DEF RingSpec

-----------------------------------------------------------------------------
(* The page's ring.                                                         *)

ToldTypes ==
  /\ page \in [Slots -> [epoch: Int, count: Int]]
  /\ \A i \in Slots : page[i].epoch <= now + Skew
  /\ applied \in [Seconds -> Nat]

(* What the slots say of each second that has not lost its slot, those to    *)
(* come included.                                                           *)
ToldRight ==
  joined => \A s \in Seconds : s > now + Skew - Retention => Count(page, s) = applied[s]

ToldInv == ToldTypes /\ ToldRight

LEMMA ToldAtStart == RingInit => ToldInv
  <1> SUFFICES ASSUME RingInit  PROVE ToldInv
    OBVIOUS
  <1>1. ToldTypes
    BY RingAssumption DEF RingInit, ToldTypes, NoCounts
  <1> QED BY <1>1 DEF RingInit, ToldInv, ToldRight

(* A slot of the new page is the ring's slot that the snapshot has, or empty. *)
LEMMA FilledSlot ==
  ASSUME RingInv, NEW i \in Slots
  PROVE  LET f == Filled(Sparse(ring, now - Retention))
         IN IF ring[i].count > 0 /\ ring[i].epoch > now - Retention THEN f[i] = ring[i]
            ELSE f[i] = [epoch |-> -1, count |-> 0]
  <1> DEFINE B == Sparse(ring, now - Retention)
             mine == {b \in B : Slot(b.epoch) = i}
  <1>1. \A k \in Slots : ring[k].count > 0 => Slot(ring[k].epoch) = k
    BY DEF RingInv, SlotCounts
  <1>2. \A b \in B : \E k \in Slots : b = ring[k] /\ b.count > 0 /\ b.epoch > now - Retention
    BY DEF Sparse
  <1>3. \A b \in mine : b = ring[i]  BY <1>1, <1>2
  <1>4. Filled(B)[i] = IF mine = {} THEN NoCounts(-1)[i]
                       ELSE SetBucket(NoCounts(-1), CHOOSE b \in mine : TRUE)[i]
    BY DEF Filled
  <1>5. CASE ring[i].count > 0 /\ ring[i].epoch > now - Retention
    <2>1. ring[i] \in mine  BY <1>1, <1>5 DEF Sparse
    <2>2. (CHOOSE b \in mine : TRUE) = ring[i]  BY <1>3, <2>1
    <2>3. Filled(B)[i] = SetBucket(NoCounts(-1), ring[i])[i]  BY <1>4, <2>1, <2>2
    <2>4. Slot(ring[i].epoch) = i  BY <1>1, <1>5
    <2> QED BY <1>5, <2>3, <2>4 DEF SetBucket, NoCounts
  <1>6. CASE ~(ring[i].count > 0 /\ ring[i].epoch > now - Retention)
    <2>1. mine = {}  BY <1>2, <1>3, <1>6
    <2> QED BY <1>4, <1>6, <2>1 DEF NoCounts
  <1> QED BY <1>5, <1>6

LEMMA SnapshotTells == RingInv /\ ToldInv /\ Snapshot => ToldInv'
  <1> SUFFICES ASSUME RingInv, ToldInv, Snapshot  PROVE ToldInv'
    OBVIOUS
  <1>0. /\ Retention \in Nat /\ Skew \in Nat /\ now \in Nat /\ MaxNow \in Nat
        /\ flows \in [Seconds -> Nat] /\ ring \in [Slots -> [epoch: Nat, count: Nat]]
    BY RingAssumption DEF RingInv, RingTypes
  <1>1. /\ page' = Filled(Sparse(ring, now - Retention))
        /\ applied' = [s \in Seconds |-> IF s > now - Retention THEN flows[s] ELSE 0]
        /\ now' = now
    BY DEF Snapshot
  <1>2. \A i \in Slots :
          IF ring[i].count > 0 /\ ring[i].epoch > now - Retention THEN page'[i] = ring[i]
          ELSE page'[i] = [epoch |-> -1, count |-> 0]
    BY <1>1, FilledSlot
  <1>3. DOMAIN page' = Slots  BY <1>1 DEF Filled
  <1>4. page' \in [Slots -> [epoch: Int, count: Int]]
    <2>1. \A i \in Slots : page'[i] \in [epoch: Int, count: Int]  BY <1>0, <1>2
    <2>2. page' = [i \in Slots |-> page'[i]]  BY <1>1 DEF Filled
    <2> QED BY <2>1, <2>2
  <1>5. \A i \in Slots : page'[i].epoch <= now + Skew
    <2> SUFFICES ASSUME NEW i \in Slots  PROVE page'[i].epoch <= now + Skew
      OBVIOUS
    <2>1. ring[i].epoch <= now + Skew  BY DEF RingInv, SlotCounts
    <2> QED BY <1>0, <1>2, <2>1
  <1>6. applied' \in [Seconds -> Nat]  BY <1>0, <1>1
  <1>7. ASSUME NEW s \in Seconds, s > now + Skew - Retention
        PROVE  Count(page', s) = applied'[s]
    <2>1. s \in Nat /\ s > now - Retention  BY <1>0, <1>7 DEF Seconds
    <2>2. applied'[s] = flows[s] /\ flows[s] \in Nat  BY <1>0, <1>1, <2>1
    <2>3. Slot(s) \in Slots  BY <2>1, SlotType
    <2>4. CASE flows[s] > 0
      <3>1. ring[Slot(s)] = [epoch |-> s, count |-> flows[s]]  BY <1>7, <2>4, ShownExactly
      <3>2. page'[Slot(s)] = [epoch |-> s, count |-> flows[s]]
        BY <1>2, <2>1, <2>3, <2>4, <3>1
      <3> QED BY <2>2, <3>2 DEF Count
    <2>5. CASE flows[s] = 0
      <3> SUFFICES ASSUME page'[Slot(s)].epoch = s  PROVE FALSE
        BY <2>2, <2>5 DEF Count
      <3>1. page'[Slot(s)] = ring[Slot(s)] /\ ring[Slot(s)].count > 0
        BY <1>2, <2>1, <2>3
      <3>2. ring[Slot(s)].count = flows[ring[Slot(s)].epoch]
        BY <2>3 DEF RingInv, SlotCounts
      <3> QED BY <2>5, <3>1, <3>2
    <2> QED BY <2>2, <2>4, <2>5
  <1> QED BY <1>1, <1>4, <1>5, <1>6, <1>7 DEF ToldInv, ToldTypes, ToldRight

(* A tick may take the slot of a second that is out of the window already. *)
LEMMA TickTells == RingInv /\ ToldInv /\ Tick => ToldInv'
  <1> SUFFICES ASSUME RingInv, ToldInv, Tick, joined  PROVE ToldInv'
    BY DEF Tick, ToldInv, ToldTypes, ToldRight
  <1>0. /\ Retention \in Nat /\ Skew \in Nat /\ Skew < Retention /\ now \in Nat
        /\ MaxNow \in Nat /\ now <= MaxNow /\ dirty \in Nat
    BY RingAssumption DEF RingInv, RingTypes
  <1>1. /\ page' = AddBucket(page, now, dirty)
        /\ applied' = [applied EXCEPT ![now] = @ + dirty]
        /\ now' = now /\ joined' = joined
    BY DEF Tick
  <1>2. now \in Seconds  BY <1>0 DEF Seconds
  <1> PICK j : j = Slot(now)  OBVIOUS
  <1>3. j \in Slots  BY <1>0, SlotType
  <1> PICK c : c = IF page[j].epoch = now THEN page[j].count + dirty ELSE dirty  OBVIOUS
  <1>4. page' = [page EXCEPT ![j] = [epoch |-> now, count |-> c]]
    BY <1>1 DEF AddBucket
  <1>5. page[j] \in [epoch: Int, count: Int]  BY <1>3 DEF ToldInv, ToldTypes
  <1>6. c \in Int  BY <1>0, <1>5
  <1>7. /\ page' \in [Slots -> [epoch: Int, count: Int]]
        /\ page'[j].epoch = now /\ page'[j].count = c
        /\ \A i \in Slots \ {j} : page'[i] = page[i]
    BY <1>0, <1>3, <1>4, <1>6 DEF ToldInv, ToldTypes
  <1>8. /\ applied' \in [Seconds -> Nat] /\ applied'[now] = applied[now] + dirty
        /\ \A s \in Seconds \ {now} : applied'[s] = applied[s]
        /\ applied[now] \in Nat
    BY <1>0, <1>1, <1>2 DEF ToldInv, ToldTypes
  <1>9. \A i \in Slots : page'[i].epoch <= now + Skew
    BY <1>0, <1>7 DEF ToldInv, ToldTypes
  <1>10. ASSUME NEW s \in Seconds, s > now + Skew - Retention
         PROVE  Count(page', s) = applied'[s]
    <2>1. s \in Nat  BY <1>0 DEF Seconds
    <2>2. Slot(s) \in Slots  BY <2>1, SlotType
    <2>3. Count(page, s) = applied[s]  BY <1>10 DEF ToldInv, ToldRight
    <2>4. CASE s = now
      <3>1. c = applied[now] + dirty
        BY <1>0, <1>8, <2>3, <2>4 DEF Count
      <3> QED BY <1>7, <1>8, <2>4, <3>1 DEF Count
    <2>5. CASE Slot(s) # j
      <3>1. page'[Slot(s)] = page[Slot(s)] /\ s # now  BY <1>7, <2>2, <2>5
      <3> QED BY <1>8, <2>3, <3>1 DEF Count
    <2>6. CASE Slot(s) = j /\ s # now
      <3>1. page[j].epoch # s
        <4>1. CASE s < now
          <5>1. s + Retention <= now  BY <1>0, <2>1, <2>6, <4>1, SlotsApart
          <5> QED BY <1>0, <1>10, <2>1, <5>1
        <4>2. CASE now < s
          <5>1. now + Retention <= s  BY <1>0, <2>1, <2>6, <4>2, SlotsApart
          <5>2. page[j].epoch <= now + Skew  BY <1>3 DEF ToldInv, ToldTypes
          <5> QED BY <1>0, <1>5, <2>1, <5>1, <5>2
        <4> QED BY <1>0, <2>1, <2>6, <4>1, <4>2
      <3>2. Count(page, s) = 0 /\ Count(page', s) = 0  BY <1>7, <2>6, <3>1 DEF Count
      <3> QED BY <1>8, <2>3, <2>6, <3>2
    <2> QED BY <2>4, <2>5, <2>6
  <1> QED BY <1>1, <1>7, <1>8, <1>9, <1>10 DEF ToldInv, ToldTypes, ToldRight

LEMMA ToldNext == RingInv /\ ToldInv /\ [RingNext]_ringVars => ToldInv'
  <1> SUFFICES ASSUME RingInv, ToldInv, [RingNext]_ringVars  PROVE ToldInv'
    OBVIOUS
  <1>1. CASE Snapshot  BY <1>1, SnapshotTells
  <1>2. CASE Tick  BY <1>2, TickTells
  <1>3. CASE Flow \/ UNCHANGED ringVars
    <2>1. page' = page /\ applied' = applied /\ joined' = joined /\ now' = now
      BY <1>3 DEF Flow, ringVars
    <2> QED BY <2>1 DEF ToldInv, ToldTypes, ToldRight
  <1>4. CASE Second
    <2>0. now \in Nat /\ Skew \in Nat /\ Retention \in Nat /\ MaxNow \in Nat
      BY RingAssumption DEF RingInv, RingTypes
    <2>1. page' = page /\ applied' = applied /\ joined' = joined /\ now' = now + 1
      BY <1>4 DEF Second
    <2>2. \A i \in Slots : page[i].epoch <= now + 1 + Skew
      <3> SUFFICES ASSUME NEW i \in Slots  PROVE page[i].epoch <= now + 1 + Skew
        OBVIOUS
      <3>1. page[i].epoch \in Int /\ page[i].epoch <= now + Skew
        BY DEF ToldInv, ToldTypes
      <3> QED BY <2>0, <3>1
    <2>3. \A s \in Seconds : s > now + 1 + Skew - Retention => s > now + Skew - Retention
      BY <2>0 DEF Seconds
    <2> QED BY <2>1, <2>2, <2>3 DEF ToldInv, ToldTypes, ToldRight
  <1> QED BY <1>1, <1>2, <1>3, <1>4 DEF RingNext

(* Any pause between ticks, any number of turns: the page shows for each    *)
(* second of a window of up to Retention - Skew seconds what it was told of *)
(* it (graph-state.ts addBucket, rate, series).                             *)
THEOREM PageAlwaysExact == RingSpec => []PageExact
  <1>1. RingInv /\ ToldInv => PageExact
    <2> SUFFICES ASSUME RingInv, ToldInv, joined, NEW w \in 1..(Retention - Skew), NEW i \in 1..w
                 PROVE  Series(page, w, now)[i] = applied[now - w + i]
      BY DEF PageExact
    <2>0. /\ Retention \in Nat /\ Skew \in Nat /\ now \in Nat /\ MaxNow \in Nat
          /\ Retention <= now /\ now <= MaxNow
      BY RingAssumption DEF RingInv, RingTypes
    <2>1. now - w + i \in Seconds /\ now - w + i > now + Skew - Retention
      BY <2>0 DEF Seconds
    <2>2. Count(page, now - w + i) = applied[now - w + i]
      BY <2>1 DEF ToldInv, ToldRight
    <2> QED BY <2>2 DEF Series
  <1>2. RingInv /\ ToldInv /\ [RingNext]_ringVars => (RingInv /\ ToldInv)'
    BY RingInvNext, ToldNext
  <1>3. RingInit => RingInv /\ ToldInv  BY RingInvAtStart, ToldAtStart
  <1> QED BY <1>1, <1>2, <1>3, PTL DEF RingSpec

=============================================================================
