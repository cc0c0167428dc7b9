-------------------------------- MODULE Ring --------------------------------
(***************************************************************************)
(* One conversation's counters per second, on both sides: the server's     *)
(* ring (internal/graph/buckets.go), filled by the flows' own times, and   *)
(* the page's (web/src/graph-state.ts), filled from a snapshot's buckets   *)
(* and then by the ticks' times.  Both have one slot per second of the     *)
(* retention, told apart from the seconds that share it by an epoch.       *)
(*                                                                         *)
(* `flows' and `applied' are the reference: what was counted in which      *)
(* second, for ever.  One verdict stands for the four.                     *)
(***************************************************************************)
EXTENDS Integers, FiniteSets, SequencesExt

CONSTANTS
  Retention,    \* seconds, the number of slots
  Lag, Skew,    \* a flow's time is from `now - Lag' to `now + Skew'
  MaxNow,       \* bound: the last second
  MaxFlows      \* bound: flows of a second

ASSUME RingAssumption ==
  /\ Retention \in Nat \ {0}
  /\ Lag \in Nat /\ Skew \in Nat /\ Lag + Skew < Retention
  /\ MaxNow \in Nat /\ MaxNow >= Retention
  /\ MaxFlows \in Nat

VARIABLES
  now,       \* the second it is
  ring,      \* edge.ring: [epoch, count] by slot
  dirty,     \* increments that wait for the next tick
  page,      \* EdgeState.epochs and EdgeState.ring, by slot
  joined,    \* the page has had its snapshot
  flows,     \* reference: flows of each second
  applied    \* reference: what the page was told of each second

ringVars == <<now, ring, dirty, page, joined, flows, applied>>

Seconds == 0..(MaxNow + Skew)
Slots == 0..(Retention - 1)
Slot(sec) == sec % Retention

NoCounts(epoch) == [i \in Slots |-> [epoch |-> epoch, count |-> 0]]

RingInit ==
  /\ now = Retention
  /\ ring = NoCounts(0)
  /\ dirty = 0
  /\ page = NoCounts(-1)
  /\ joined = FALSE
  /\ flows = [s \in Seconds |-> 0]
  /\ applied = [s \in Seconds |-> 0]

(* Mutant: a slot that is reused keeps its count. *)
Add_NoReset(r, sec) ==
  [r EXCEPT ![Slot(sec)] = [epoch |-> sec, count |-> @.count + 1]]

Add(r, sec) ==
  [r EXCEPT ![Slot(sec)] =
     [epoch |-> sec, count |-> IF @.epoch = sec THEN @.count + 1 ELSE 1]]

(* The buckets of a snapshot: the non-empty slots newer than `since'.       *)
Sparse(r, since) == {b \in {r[i] : i \in Slots} : b.epoch > since /\ b.count > 0}

SetBucket(p, b) == [p EXCEPT ![Slot(b.epoch)] = b]

(* upsertEdge() makes a new EdgeState, setBucket() fills it.                *)
Filled(buckets) ==
  [i \in Slots |-> LET mine == {b \in buckets : Slot(b.epoch) = i}
                   IN IF mine = {} THEN NoCounts(-1)[i]
                      ELSE SetBucket(NoCounts(-1), CHOOSE b \in mine : TRUE)[i]]

(* Mutant: the page never resets a slot, as if it had a slot per second. *)
AddBucket_NoReset(p, sec, k) ==
  [p EXCEPT ![Slot(sec)] = [epoch |-> sec, count |-> @.count + k]]

AddBucket(p, sec, k) ==
  [p EXCEPT ![Slot(sec)] =
     [epoch |-> sec, count |-> IF @.epoch = sec THEN @.count + k ELSE k]]

Flow ==
  /\ \E sec \in (now - Lag)..(now + Skew) :
       /\ flows[sec] < MaxFlows
       /\ ring' = Add(ring, sec)
       /\ flows' = [flows EXCEPT ![sec] = @ + 1]
  /\ dirty' = dirty + 1
  /\ UNCHANGED <<now, page, joined, applied>>

Second ==
  /\ now < MaxNow
  /\ now' = now + 1
  /\ UNCHANGED <<ring, dirty, page, joined, flows, applied>>

(* A tick without increments does not mention the edge.                     *)
Tick ==
  /\ dirty > 0
  /\ dirty' = 0
  /\ IF joined
     THEN /\ page' = AddBucket(page, now, dirty)
          /\ applied' = [applied EXCEPT ![now] = @ + dirty]
     ELSE UNCHANGED <<page, applied>>
  /\ UNCHANGED <<now, ring, joined, flows>>

Snapshot ==
  /\ page' = Filled(Sparse(ring, now - Retention))
  /\ joined' = TRUE
  /\ applied' = [s \in Seconds |-> IF s > now - Retention THEN flows[s] ELSE 0]
  /\ UNCHANGED <<now, ring, dirty, flows>>

RingNext == Flow \/ Second \/ Tick \/ Snapshot

RingSpec == RingInit /\ [][RingNext]_ringVars

-----------------------------------------------------------------------------
(* What the panel shows.                                                    *)

Count(p, sec) == IF p[Slot(sec)].epoch = sec THEN p[Slot(sec)].count ELSE 0

Series(p, window, nowSec) == [i \in 1..window |-> Count(p, nowSec - window + i)]

(* The seconds no flow from the future shares a slot with. *)
Unshared(sec) == sec > now + Skew - Retention

(* A snapshot tells what was counted in each second of the retention, but   *)
(* for the oldest ones, whose slots flows of clocks that run ahead (by at   *)
(* most Skew) have taken: neither a slot's earlier use nor a late flow of   *)
(* up to Lag seconds falsifies a count (buckets.go add, sparse).            *)
SnapshotExact ==
  {b \in Sparse(ring, now - Retention) : Unshared(b.epoch)}
    = {[epoch |-> s, count |-> flows[s]] : s \in {x \in Seconds : Unshared(x) /\ flows[x] > 0}}

(* The page shows for each second of a window, which may be Retention - Skew *)
(* long, what it was told of it, by the snapshot or by ticks, through any    *)
(* number of turns of the ring and any pause between ticks (graph-state.ts   *)
(* addBucket, rate, series).                                                 *)
PageExact ==
  joined => \A w \in 1..(Retention - Skew) : \A i \in 1..w :
              Series(page, w, now)[i] = applied[now - w + i]

=============================================================================
