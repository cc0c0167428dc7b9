-------------------------- MODULE RelayClientProofs --------------------------
(***************************************************************************)
(* Proofs about RelayClient for any flows whose times never decrease, any  *)
(* number of failures and any backoff: however often the stream is         *)
(* refused, ended or lost, no flow is skipped, and only flows of the very  *)
(* time of the resumption are repeated.                                    *)
(*                                                                         *)
(* `since' lies between the flows that were seen and those that were not;  *)
(* an open stream has been read to its cursor, and what lies behind the    *)
(* cursor is at or after `since'.  The first part says that resuming loses *)
(* nothing, the last that it repeats little.                               *)
(***************************************************************************)
EXTENDS RelayClient, TLAPS

TypeInv ==
  /\ produced \in Nat /\ 1..produced \subseteq Flow
  /\ cursor \in Nat
  /\ since \in Nat
  /\ delivered \in [Flow -> 0..2]

(* What is older than `since' was seen, and what was seen is not younger. *)
SinceDivides ==
  \A i \in Flow : /\ FlowTime[i] < since => delivered[i] >= 1
                  /\ delivered[i] >= 1 => FlowTime[i] <= since

StreamRead ==
  phase = "streaming" => /\ \A i \in 1..cursor : i \in Flow /\ delivered[i] >= 1
                         /\ \A i \in Flow : i > cursor => FlowTime[i] >= since

RelayInv == TypeInv /\ SinceDivides /\ StreamRead

-----------------------------------------------------------------------------

(* Flows are numbered in the order of their times. *)
LEMMA FlowTypes ==
  /\ Flow \subseteq Nat \ {0}
  /\ \A i \in Flow : FlowTime[i] \in Nat
  /\ \A i, j \in Flow : i <= j => FlowTime[i] <= FlowTime[j]
  /\ \A i \in Flow, j \in Nat \ {0} : j <= i => j \in Flow
  <1>1. Len(FlowTime) \in Nat /\ FlowTime \in [1..Len(FlowTime) -> Nat]
    BY RelayAssumption
  <1>2. Flow = 1..Len(FlowTime)  BY <1>1 DEF Flow
  <1> QED BY <1>1, <1>2, RelayAssumption DEF Flow

LEMMA RelayInvInit == Init => RelayInv
  <1> SUFFICES ASSUME Init  PROVE RelayInv
    OBVIOUS
  <1>1. TypeInv  BY DEF Init, TypeInv
  <1>2. SinceDivides  BY FlowTypes DEF Init, SinceDivides
  <1>3. StreamRead  BY DEF Init, StreamRead
  <1> QED BY <1>1, <1>2, <1>3 DEF RelayInv

(* A new stream begins right behind what is older than `since'. *)
LEMMA RequestInv == RelayInv /\ Request => RelayInv'
  <1> SUFFICES ASSUME RelayInv, Request  PROVE RelayInv'
    OBVIOUS
  <1>1. /\ produced' = produced /\ since' = since /\ delivered' = delivered
    BY DEF Request
  <1>2. PICK n \in {0} \cup Before(since) : Before(since) = 1..n /\ cursor' = n
    BY DEF Request
  <1>3. n \in Nat  BY <1>2, FlowTypes DEF Before
  <1>4. TypeInv'  BY <1>1, <1>2, <1>3 DEF RelayInv, TypeInv
  <1>5. SinceDivides'  BY <1>1 DEF RelayInv, SinceDivides
  <1>6. \A i \in 1..n : i \in Flow /\ delivered[i] >= 1
    BY <1>2 DEF Before, RelayInv, SinceDivides
  <1>7. \A i \in Flow : i > n => FlowTime[i] >= since
    <2> SUFFICES ASSUME NEW i \in Flow, i > n  PROVE FlowTime[i] >= since
      OBVIOUS
    <2>1. i \notin Before(since)  BY <1>2, <1>3, FlowTypes
    <2> QED BY <2>1, FlowTypes DEF Before, RelayInv, TypeInv
  <1>8. StreamRead'  BY <1>1, <1>2, <1>6, <1>7 DEF StreamRead
  <1> QED BY <1>4, <1>5, <1>8 DEF RelayInv

(* What Receive does to the flow at the cursor. *)
LEMMA ReceiveFacts ==
  ASSUME RelayInv, Receive
  PROVE  /\ cursor + 1 \in Flow
         /\ cursor' = cursor + 1 /\ produced' = produced
         /\ since' \in Nat /\ since' >= since /\ since' >= FlowTime[cursor + 1]
         /\ since' = since \/ since' = FlowTime[cursor + 1]
         /\ FlowTime[cursor + 1] >= since
         /\ delivered' \in [Flow -> 0..2]
         /\ delivered'[cursor + 1] >= 1
         /\ \A i \in Flow : i # cursor + 1 => delivered'[i] = delivered[i]
  <1> DEFINE next == cursor + 1
  <1>1. /\ phase = "streaming" /\ cursor < produced
        /\ cursor' = next /\ produced' = produced
        /\ since' = Resumed(next)
        /\ delivered' = [delivered EXCEPT ![next] = Seen(delivered[next])]
    BY DEF Receive
  <1>2. next \in Flow  BY <1>1 DEF RelayInv, TypeInv
  <1>3. FlowTime[next] \in Nat /\ since \in Nat  BY <1>2, FlowTypes DEF RelayInv, TypeInv
  <1>4. FlowTime[next] >= since  BY <1>1, <1>2 DEF RelayInv, TypeInv, StreamRead
  <1>5. delivered \in [Flow -> 0..2]  BY DEF RelayInv, TypeInv
  <1>6. Seen(delivered[next]) \in 1..2  BY DEF Seen
  <1> HIDE DEF next
  <1>7. /\ delivered' \in [Flow -> 0..2]
        /\ delivered'[next] >= 1
        /\ \A i \in Flow : i # next => delivered'[i] = delivered[i]
    BY <1>1, <1>2, <1>5, <1>6
  <1>8. /\ since' \in Nat /\ since' >= since /\ since' >= FlowTime[next]
        /\ since' = since \/ since' = FlowTime[next]
    BY <1>1, <1>3 DEF Resumed, Later
  <1> QED BY <1>1, <1>2, <1>4, <1>7, <1>8 DEF next

LEMMA ReceiveInv == RelayInv /\ Receive => RelayInv'
  <1> SUFFICES ASSUME RelayInv, Receive  PROVE RelayInv'
    OBVIOUS
  <1> DEFINE next == cursor + 1
  <1>1. /\ next \in Flow
        /\ cursor' = next /\ produced' = produced
        /\ since' \in Nat /\ since' >= since /\ since' >= FlowTime[next]
        /\ since' = since \/ since' = FlowTime[next]
        /\ FlowTime[next] >= since
        /\ delivered' \in [Flow -> 0..2]
        /\ delivered'[next] >= 1
        /\ \A i \in Flow : i # next => delivered'[i] = delivered[i]
    BY ReceiveFacts
  <1>2. phase = "streaming"  BY DEF Receive
  <1>3. cursor \in Nat /\ next \in Nat /\ since \in Nat  BY DEF RelayInv, TypeInv
  <1>4. TypeInv'  BY <1>1, <1>3 DEF RelayInv, TypeInv
  (* Behind the cursor flows are not older than the one at the cursor. *)
  <1>5. \A i \in Flow : i > next => FlowTime[i] >= since'
    <2> SUFFICES ASSUME NEW i \in Flow, i > next  PROVE FlowTime[i] >= since'
      OBVIOUS
    <2>1. FlowTime[i] >= FlowTime[next]  BY <1>1, <1>3, FlowTypes
    <2>2. FlowTime[i] \in Nat /\ FlowTime[next] \in Nat  BY <1>1, FlowTypes
    <2> QED BY <1>1, <1>3, <2>1, <2>2
  <1>6. \A i \in 1..next : i \in Flow /\ delivered'[i] >= 1
    <2> SUFFICES ASSUME NEW i \in 1..next  PROVE i \in Flow /\ delivered'[i] >= 1
      OBVIOUS
    <2>1. CASE i = next  BY <1>1, <2>1
    <2>2. CASE i # next
      <3>1. i \in 1..cursor  BY <1>3, <2>2
      <3>2. i \in Flow /\ delivered[i] >= 1  BY <1>2, <3>1 DEF RelayInv, StreamRead
      <3> QED BY <1>1, <2>2, <3>2
    <2> QED BY <2>1, <2>2
  <1>7. StreamRead'  BY <1>1, <1>5, <1>6 DEF StreamRead
  <1>8. SinceDivides'
    <2> SUFFICES ASSUME NEW i \in Flow
                 PROVE  /\ FlowTime[i] < since' => delivered'[i] >= 1
                        /\ delivered'[i] >= 1 => FlowTime[i] <= since'
      BY DEF SinceDivides
    <2>1. FlowTime[i] \in Nat /\ i \in Nat /\ i >= 1  BY FlowTypes
    <2>2. CASE i = next  BY <1>1, <2>2
    <2>3. CASE i # next
      <3>1. delivered'[i] = delivered[i]  BY <1>1, <2>3
      <3>2. FlowTime[i] < since' => delivered'[i] >= 1
        <4> SUFFICES ASSUME FlowTime[i] < since'  PROVE delivered'[i] >= 1
          OBVIOUS
        <4>1. ~(i > next)  BY <1>1, <1>5, <2>1
        <4>2. i \in 1..next  BY <1>3, <2>1, <4>1
        <4> QED BY <1>6, <4>2
      <3>3. delivered'[i] >= 1 => FlowTime[i] <= since'
        BY <1>1, <1>3, <2>1, <3>1 DEF RelayInv, SinceDivides
      <3> QED BY <3>2, <3>3
    <2> QED BY <2>2, <2>3
  <1> QED BY <1>4, <1>7, <1>8 DEF RelayInv

(* A step that delivers nothing leaves alone where the client would resume, *)
(* and goes on with no stream that was not open.                            *)
Silent ==
  /\ since' = since /\ delivered' = delivered /\ cursor' = cursor
  /\ \/ produced' = produced
     \/ produced' = produced + 1 /\ produced + 1 \in Flow
  /\ phase' = "streaming" => phase = "streaming"

LEMMA SilentInv == RelayInv /\ Silent => RelayInv'
  <1> SUFFICES ASSUME RelayInv, Silent  PROVE RelayInv'
    OBVIOUS
  <1>1. TypeInv'
    <2>1. produced' \in Nat /\ 1..produced' \subseteq Flow
      BY DEF RelayInv, TypeInv, Silent
    <2> QED BY <2>1 DEF RelayInv, TypeInv, Silent
  <1>2. SinceDivides'  BY DEF RelayInv, SinceDivides, Silent
  <1>3. StreamRead'  BY DEF RelayInv, StreamRead, Silent
  <1> QED BY <1>1, <1>2, <1>3 DEF RelayInv

LEMMA NextInv == RelayInv /\ [Next]_vars => RelayInv'
  <1> SUFFICES ASSUME RelayInv, [Next]_vars  PROVE RelayInv'
    OBVIOUS
  <1> USE DEF relayVars, clientVars, Silent
  <1>1. CASE Produce  BY <1>1, SilentInv DEF Produce
  <1>2. CASE Dies  BY <1>2, SilentInv DEF Dies
  <1>3. CASE Request  BY <1>3, RequestInv
  <1>4. CASE RetryUnmasked  BY <1>4, SilentInv DEF RetryUnmasked
  <1>5. CASE Receive  BY <1>5, ReceiveInv
  <1>6. CASE ReceiveOther  BY <1>6, SilentInv DEF ReceiveOther
  <1>7. CASE Lasts  BY <1>7, SilentInv DEF Lasts
  <1>8. CASE Refused  BY <1>8, SilentInv DEF Refused
  <1>9. CASE Ended  BY <1>9, SilentInv DEF Ended, BackOff
  <1>10. CASE Watchdog  BY <1>10, SilentInv DEF Watchdog, BackOff
  <1>11. CASE Wake  BY <1>11, SilentInv DEF Wake
  <1>12. CASE Stop  BY <1>12, SilentInv DEF Stop
  <1>13. CASE Stopped \/ UNCHANGED vars  BY <1>13, SilentInv DEF Stopped, vars
  <1> QED BY <1>1, <1>2, <1>3, <1>4, <1>5, <1>6, <1>7, <1>8, <1>9, <1>10, <1>11, <1>12, <1>13
          DEF Next

-----------------------------------------------------------------------------

(* The inductive invariant: `since' divides what was seen from what was not, *)
(* and an open stream goes on where what was seen ends (client.go Run, stream). *)
THEOREM RelayInvariant == Spec => []RelayInv
  BY RelayInvInit, NextInv, PTL DEF Spec

(* However often the stream is refused, ended or lost, no flow is skipped by *)
(* the client's resuming from the last time it saw.                          *)
THEOREM NoFlowSkipped == Spec => []NothingSkipped
  <1>1. RelayInv => NothingSkipped
    BY DEF RelayInv, SinceDivides, StreamRead, NothingSkipped
  <1> QED BY <1>1, RelayInvariant, PTL

(* A flow that reached the sink reaches it again only if it carries the very *)
(* time the stream was resumed from.                                         *)
THEOREM OnlyTheLastRepeated == Spec => RepeatsOnlyTheLast
  <1> DEFINE OnlyAtSince == \A i \in Flow : (delivered[i] >= 1 /\ delivered'[i] # delivered[i])
                                              => FlowTime[i] = since
  <1>1. RelayInv /\ [Next]_vars => [OnlyAtSince]_vars
    <2> SUFFICES ASSUME RelayInv, [Next]_vars  PROVE OnlyAtSince \/ UNCHANGED vars
      OBVIOUS
    <2>1. CASE Receive
      <3> SUFFICES ASSUME NEW i \in Flow, delivered[i] >= 1, delivered'[i] # delivered[i]
                   PROVE  FlowTime[i] = since
        OBVIOUS
      <3>1. i = cursor + 1 /\ FlowTime[i] >= since  BY <2>1, ReceiveFacts
      <3>2. FlowTime[i] <= since  BY DEF RelayInv, SinceDivides
      <3>3. FlowTime[i] \in Nat /\ since \in Nat  BY FlowTypes DEF RelayInv, TypeInv
      <3> QED BY <3>1, <3>2, <3>3
    <2>2. CASE Next /\ ~Receive
      <3>1. delivered' = delivered
        BY <2>2 DEF Next, Produce, Dies, Request, RetryUnmasked, ReceiveOther, Lasts, Refused,
                    Ended, Watchdog, BackOff, Wake, Stop, Stopped, vars, clientVars
      <3> QED BY <3>1
    <2> QED BY <2>1, <2>2
  <1> QED BY <1>1, RelayInvariant, PTL DEF Spec, RepeatsOnlyTheLast

=============================================================================
