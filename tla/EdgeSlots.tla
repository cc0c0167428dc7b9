----------------------------- MODULE EdgeSlots -----------------------------
(***************************************************************************)
(* The renderer's pools (web/src/edges.ts, web/src/particles.ts).  Every   *)
(* drawn edge occupies a slot of one width batch, taken from the batch's   *)
(* stack of free indexes; a faster edge is moved to a wider batch.  The    *)
(* pair of batch and index, flattened to a number in the code, names the   *)
(* control points of the edge's arc, and a spark remembers no more than    *)
(* that pair.                                                              *)
(*                                                                         *)
(* One animation frame runs its steps in the order of main.ts; messages    *)
(* change the store between frames only, so the frame's steps here are     *)
(* guarded by `phase'.  Colours and positions are left out, and of the     *)
(* filters what matters: a hidden edge spawns no spark.                    *)
(***************************************************************************)
EXTENDS Integers, FiniteSets, SequencesExt

CONSTANTS
  Edges,         \* edge ids
  Widths,        \* number of width batches, 3 in the code
  Capacity,      \* slots of a batch, 2048 in the code
  MaxSparks,     \* sparks alive at once, 16384 in the code
  MaxLife,       \* frames the longest-lived spark lasts
  None           \* no edge

ASSUME PoolAssumption ==
  /\ Widths \in Nat \ {0}
  /\ Capacity \in Nat \ {0}
  /\ MaxSparks \in Nat
  /\ MaxLife \in Nat \ {0}
  /\ None \notin Edges

VARIABLES
  store,      \* GraphState.edges
  changes,    \* what consume() will return: the removed and the added edges
  phase,      \* where the frame is; "idle" between frames
  todo,       \* edges the frame's present loop has still to visit
  slots,      \* Edges.slots: edge -> <<batch, index>>
  bySlot,     \* Edges.bySlot: the edge of each control-point slot
  free,       \* batches[b].free, a stack
  cpValid,    \* control-point slots whose arc may be used
  arc,        \* the edge whose arc the control points describe
  sparks      \* Particles: the slot and the frames left of each

vars == <<store, changes, phase, todo, slots, bySlot, free, cpValid, arc, sparks>>

pools == <<slots, bySlot, free, cpValid>>

Batches == 0..(Widths - 1)
Indexes == 0..(Capacity - 1)
ControlPoints == Batches \X Indexes
Drawn == DOMAIN slots

-----------------------------------------------------------------------------
(* The store, between frames.                                               *)

Init ==
  /\ store = {}
  /\ changes = [removed |-> {}, added |-> {}]
  /\ phase = "idle"
  /\ todo = {}
  /\ slots = <<>>
  /\ bySlot = [cp \in ControlPoints |-> None]
  /\ free = [b \in Batches |-> [i \in 1..Capacity |-> Capacity - i]]
  /\ cpValid = {}
  /\ arc = [cp \in ControlPoints |-> None]
  /\ sparks = <<>>

StoreStep ==
  /\ phase = "idle"
  /\ UNCHANGED <<phase, todo, pools, arc, sparks>>

StoreAdds(e) ==
  /\ StoreStep
  /\ e \notin store
  /\ store' = store \cup {e}
  /\ changes' = [removed |-> changes.removed \ {e}, added |-> changes.added \cup {e}]

StoreRemoves(e) ==
  /\ StoreStep
  /\ e \in store
  /\ store' = store \ {e}
  /\ changes' = IF e \in changes.added
                THEN [changes EXCEPT !.added = @ \ {e}]
                ELSE [changes EXCEPT !.removed = @ \cup {e}]

(* A reconnect's snapshot: all edges leave, the snapshot's are added.       *)
StoreReplaced(S) ==
  /\ StoreStep
  /\ store' = S
  /\ changes' = [removed |-> (changes.removed \cup store) \ S, added |-> S]

-----------------------------------------------------------------------------
(* The pool.  `Clear' and `Place' give the pool's variables after clear()   *)
(* and place(); setRate() is one after the other.                           *)

Pool == [slots |-> slots, bySlot |-> bySlot, free |-> free, cpValid |-> cpValid]

SetPool(p) ==
  /\ slots' = p.slots
  /\ bySlot' = p.bySlot
  /\ free' = p.free
  /\ cpValid' = p.cpValid

Without(f, x) == [y \in DOMAIN f \ {x} |-> f[y]]

(* Mutant: the control points of a freed slot stay valid. *)
Clear_StaysValid(p, e) ==
  LET cp == p.slots[e]
  IN [slots   |-> Without(p.slots, e),
      bySlot  |-> [p.bySlot EXCEPT ![cp] = None],
      free    |-> [p.free EXCEPT ![cp[1]] = Append(@, cp[2])],
      cpValid |-> p.cpValid]

Clear(p, e) ==
  LET cp == p.slots[e]
  IN [slots   |-> Without(p.slots, e),
      bySlot  |-> [p.bySlot EXCEPT ![cp] = None],
      free    |-> [p.free EXCEPT ![cp[1]] = Append(@, cp[2])],
      cpValid |-> p.cpValid \ {cp}]

(* Mutant: the index is read at one end of the stack, dropped at the other. *)
Place_OtherEnd(p, e, b) ==
  IF p.free[b] = <<>> THEN p
  ELSE LET cp == <<b, p.free[b][1]>>
       IN [p EXCEPT !.slots = [x \in DOMAIN p.slots \cup {e} |-> IF x = e THEN cp ELSE p.slots[x]],
                    !.bySlot[cp] = e,
                    !.free[b] = Front(@)]

(* An edge that finds its batch full is not drawn. *)
Place(p, e, b) ==
  IF p.free[b] = <<>> THEN p
  ELSE LET cp == <<b, Last(p.free[b])>>
       IN [p EXCEPT !.slots = [x \in DOMAIN p.slots \cup {e} |-> IF x = e THEN cp ELSE p.slots[x]],
                    !.bySlot[cp] = e,
                    !.free[b] = Front(@)]

-----------------------------------------------------------------------------
(* The frame (main.ts): applyChanges, refreshRates, edges.update,           *)
(* synthesise, particles.update.                                            *)

FrameStarts ==
  /\ phase = "idle"
  /\ phase' = "remove"
  /\ UNCHANGED <<store, changes, todo, pools, arc, sparks>>

RemoveEdge ==
  /\ phase = "remove"
  /\ \E e \in changes.removed :
       /\ changes' = [changes EXCEPT !.removed = @ \ {e}]
       /\ IF e \in Drawn THEN SetPool(Clear(Pool, e)) ELSE UNCHANGED pools
  /\ UNCHANGED <<store, phase, todo, arc, sparks>>

(* setSame() runs when the nodes changed, too: all arcs are drawn anew.     *)
Removed ==
  /\ phase = "remove"
  /\ changes.removed = {}
  /\ \E regrouped \in BOOLEAN :
       cpValid' = IF regrouped THEN cpValid \ {slots[e] : e \in Drawn \cap store} ELSE cpValid
  /\ phase' = "add"
  /\ UNCHANGED <<store, changes, todo, slots, bySlot, free, arc, sparks>>

AddEdge ==
  /\ phase = "add"
  /\ \E e \in changes.added :
       /\ changes' = [changes EXCEPT !.added = @ \ {e}]
       /\ IF e \in Drawn THEN UNCHANGED pools ELSE SetPool(Place(Pool, e, 0))
  /\ UNCHANGED <<store, phase, todo, arc, sparks>>

(* A spark of the tick (applyChanges) or a synthetic one (synthesise).      *)
Spawn ==
  /\ phase \in {"sparks", "synthesise"}
  /\ Len(sparks) < MaxSparks
  /\ \E e \in Drawn, left \in 1..MaxLife :
       /\ slots[e] \in cpValid
       /\ sparks' = Append(sparks, [cp |-> slots[e], left |-> left])
  /\ UNCHANGED <<store, changes, phase, todo, pools, arc>>

Added ==
  /\ phase = "add"
  /\ changes.added = {}
  /\ phase' = "sparks"
  /\ UNCHANGED <<store, changes, todo, pools, arc, sparks>>

(* refreshRates() does nothing more often than four times a second.         *)
Sparked ==
  /\ phase = "sparks"
  /\ \/ phase' = "rates" /\ todo' = store
     \/ phase' = "update" /\ todo' = {}
  /\ UNCHANGED <<store, changes, pools, arc, sparks>>

SetRate ==
  /\ phase = "rates"
  /\ \E e \in todo, want \in Batches :
       /\ todo' = todo \ {e}
       /\ IF e \in Drawn /\ slots[e][1] # want
          THEN SetPool(Place(Clear(Pool, e), e, want))
          ELSE UNCHANGED pools
  /\ UNCHANGED <<store, changes, phase, arc, sparks>>

Rated ==
  /\ phase = "rates"
  /\ todo = {}
  /\ phase' = "update"
  /\ UNCHANGED <<store, changes, todo, pools, arc, sparks>>

(* Edges.update.  `placed' are the edges whose nodes have a position: the   *)
(* node pool may be full, too.  While the layout moves, all arcs are drawn  *)
(* anew.                                                                    *)
Update ==
  /\ phase = "update"
  /\ \E placed \in SUBSET store, moving \in BOOLEAN :
       LET redrawn == {e \in Drawn \cap placed : moving \/ slots[e] \notin cpValid}
       IN /\ arc' = [cp \in ControlPoints |->
                       IF bySlot[cp] \in redrawn THEN bySlot[cp] ELSE arc[cp]]
          /\ cpValid' = cpValid \cup {slots[e] : e \in redrawn}
  /\ phase' = "synthesise"
  /\ UNCHANGED <<store, changes, todo, slots, bySlot, free, sparks>>

Older(p) == [p EXCEPT !.left = @ - 1]
Lives(p) == p.cp \in cpValid /\ p.left > 1

(* kill(): the last spark takes the place of the one that ends.             *)
Kill(ps, i) == IF i = Len(ps) THEN Front(ps) ELSE ReplaceAt(Front(ps), i, Last(ps))

(* Mutant: the spark swapped in is passed over. *)
WalkStep_Passes(w) ==
  IF Lives(w.ps[w.i])
  THEN [i |-> w.i + 1, ps |-> ReplaceAt(w.ps, w.i, Older(w.ps[w.i]))]
  ELSE [i |-> w.i + 1, ps |-> Kill(w.ps, w.i)]

WalkStep(w) ==
  IF Lives(w.ps[w.i])
  THEN [i |-> w.i + 1, ps |-> ReplaceAt(w.ps, w.i, Older(w.ps[w.i]))]
  ELSE [i |-> w.i, ps |-> Kill(w.ps, w.i)]

(* Particles.update: the loop ends when i reaches the number alive.         *)
Aged(ps) ==
  LET Walk[n \in 0..Len(ps)] ==
        IF n = 0 THEN [i |-> 1, ps |-> ps]
        ELSE LET w == Walk[n - 1] IN IF w.i > Len(w.ps) THEN w ELSE WalkStep(w)
  IN Walk[Len(ps)].ps

Age ==
  /\ phase = "synthesise"
  /\ sparks' = Aged(sparks)
  /\ phase' = "idle"
  /\ UNCHANGED <<store, changes, todo, pools, arc>>

Next ==
  \/ \E e \in Edges : StoreAdds(e)
  \/ \E e \in Edges : StoreRemoves(e)
  \/ \E S \in SUBSET Edges : StoreReplaced(S)
  \/ FrameStarts
  \/ RemoveEdge
  \/ Removed
  \/ AddEdge
  \/ Added
  \/ Spawn
  \/ Sparked
  \/ SetRate
  \/ Rated
  \/ Update
  \/ Age

Spec == Init /\ [][Next]_vars

-----------------------------------------------------------------------------
(* A slot is either on its batch's free stack, once, or occupied by the     *)
(* one edge that bySlot, which picking reads, names: across additions,      *)
(* removals and moves between batches no slot leaks and none has two edges. *)
PoolExact ==
  /\ \A b \in Batches : IsInjective(free[b])
  /\ \A cp \in ControlPoints :
       LET free_ == cp[2] \in ToSet(free[cp[1]])
           holders == {e \in Drawn : slots[e] = cp}
       IN /\ free_ <=> holders = {}
          /\ bySlot[cp] = None <=> holders = {}
          /\ bySlot[cp] # None => holders = {bySlot[cp]}

(* Control points marked valid are those of the edge that occupies the      *)
(* slot, never those of one that was there before it: clear(), place() and  *)
(* setSame() of a frame leave none behind.                                  *)
ArcsAreOwn == \A cp \in cpValid : bySlot[cp] # None /\ arc[cp] = bySlot[cp]

(* A frame ages every spark exactly once and ends exactly those that are    *)
(* spent or whose arc is gone, whichever sparks the loop swaps while it     *)
(* runs (particles.ts kill()).                                              *)
SparksAge ==
  [][phase = "synthesise" /\ phase' = "idle" =>
       LET survivors == {i \in DOMAIN sparks : Lives(sparks[i])}
       IN \A p \in ToSet(sparks') \cup {Older(sparks[i]) : i \in survivors} :
            Cardinality({i \in DOMAIN sparks' : sparks'[i] = p})
              = Cardinality({i \in survivors : Older(sparks[i]) = p})]_vars

=============================================================================
