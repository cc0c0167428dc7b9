---------------------------- MODULE RelayClient ----------------------------
(***************************************************************************)
(* The Relay source's stream (internal/hubble/relay/client.go): Run asks   *)
(* for flows since the last one it saw, follows the stream until it fails  *)
(* or falls silent, backs off and asks again.                              *)
(*                                                                         *)
(* Relay is the environment: it keeps the cluster's flows in the order of  *)
(* their times, several of which may be equal, answers a request with      *)
(* those at or after its `since', and may refuse, end or silently lose a   *)
(* stream.  Durations are left out: the backoff is the number of times it  *)
(* was doubled, and the sixty seconds after which a stream was healthy and *)
(* the watchdog's silence are steps that may happen.  Peer lists are in    *)
(* PeerStatus.                                                             *)
(***************************************************************************)
EXTENDS Integers, Sequences

CONSTANTS
  FlowTime,      \* the time of each flow, from the start of Window on, in which it is 0;
                 \* a sequence that never decreases
  MaxBackoff,    \* doublings after which the backoff stays
  MaxFailures    \* bound: streams Relay refuses, ends or loses

ASSUME RelayAssumption ==
  /\ MaxBackoff \in Nat /\ MaxFailures \in Nat
  /\ FlowTime \in Seq(Nat)
  /\ \A i, j \in DOMAIN FlowTime : i <= j => FlowTime[i] <= FlowTime[j]

VARIABLES
  produced,      \* flows of the cluster so far
  rejects,       \* this Relay knows no field mask
  alive,         \* Relay still serves the stream
  cursor,        \* flows before the stream's next one
  failures,      \* failures so far (only to bound the behaviours)
  phase,         \* Run: "request", "streaming", "sleeping", "stopped"
  since, backoff, fieldMask,
  lasted,        \* the stream has been open for longer than `healthy'
  connected,     \* Status.connected
  delivered      \* how often each flow has reached the sink: never, once, or more (2)

relayVars  == <<produced, rejects, alive, cursor, failures>>
clientVars == <<phase, since, backoff, fieldMask, lasted, connected, delivered>>
vars == <<relayVars, clientVars>>

Flow == DOMAIN FlowTime

-----------------------------------------------------------------------------

Init ==
  /\ produced = 0 /\ rejects \in BOOLEAN /\ alive = FALSE /\ cursor = 0 /\ failures = 0
  /\ phase = "request" /\ since = 0 /\ backoff = 0 /\ fieldMask = TRUE
  /\ lasted = FALSE /\ connected = FALSE
  /\ delivered = [i \in Flow |-> 0]

(* The cluster. *)
Produce ==
  /\ produced + 1 \in Flow
  /\ produced' = produced + 1
  /\ UNCHANGED <<rejects, alive, cursor, failures, clientVars>>

Fails == failures < MaxFailures /\ failures' = failures + 1

(* The connection goes quiet without an error. *)
Dies ==
  /\ alive /\ Fails
  /\ alive' = FALSE
  /\ UNCHANGED <<produced, rejects, cursor, clientVars>>

-----------------------------------------------------------------------------
(* The client.                                                              *)

(* Where a stream that is asked for flows since t begins. *)
Before(t) == {i \in Flow : FlowTime[i] < t}

(* setConnected: the pill of every browser shows it. *)
SetConnected(c) == connected' = c

(* GetFlows is accepted. *)
Request ==
  /\ phase = "request"
  /\ ~(fieldMask /\ rejects)
  /\ phase' = "streaming"
  /\ alive' = TRUE
  /\ \E n \in {0} \cup Before(since) : /\ Before(since) = 1..n
                                       /\ cursor' = n
  /\ lasted' = FALSE
  /\ UNCHANGED <<produced, rejects, failures, since, backoff, fieldMask, connected, delivered>>

(* InvalidArgument: once, and at once, without the field mask. *)
RetryUnmasked ==
  /\ phase = "request"
  /\ fieldMask /\ rejects
  /\ fieldMask' = FALSE
  /\ SetConnected(FALSE)
  /\ UNCHANGED <<relayVars, phase, since, backoff, lasted, delivered>>

Later(s, t) == IF t > s THEN t ELSE s

(* Mutant: the client resumes where it first began. *)
Resumed_Never(i) == since

(* Mutant: it resumes from what the cluster has produced by now. *)
Resumed_Now(i) == FlowTime[produced]

(* Where to resume once flow i has been seen. *)
Resumed(i) == Later(since, FlowTime[i])

Seen(n) == IF n = 0 THEN 1 ELSE 2

(* Recv returns a flow. *)
Receive ==
  /\ phase = "streaming" /\ alive
  /\ cursor < produced
  /\ cursor' = cursor + 1
  /\ since' = Resumed(cursor + 1)
  /\ delivered' = [delivered EXCEPT ![cursor + 1] = Seen(@)]
  /\ SetConnected(TRUE)
  /\ UNCHANGED <<produced, rejects, alive, failures, phase, backoff, fieldMask, lasted>>

(* Recv returns a node status or lost events: the stream counts as open. *)
ReceiveOther ==
  /\ phase = "streaming" /\ alive /\ ~connected
  /\ SetConnected(TRUE)
  /\ UNCHANGED <<relayVars, phase, since, backoff, fieldMask, lasted, delivered>>

(* A minute goes by. *)
Lasts ==
  /\ phase = "streaming" /\ ~lasted
  /\ lasted' = TRUE
  /\ UNCHANGED <<relayVars, phase, since, backoff, fieldMask, connected, delivered>>

(* Run after stream has returned an error. *)
BackOff ==
  /\ phase' = "sleeping"
  /\ alive' = FALSE
  /\ SetConnected(FALSE)
  /\ backoff' = IF lasted THEN 0 ELSE backoff
  /\ UNCHANGED <<produced, rejects, cursor, since, fieldMask, lasted, delivered>>

(* Relay refuses the request, or ends the stream.  A refused request did    *)
(* not last.                                                                *)
Refused ==
  /\ phase = "request" /\ Fails
  /\ phase' = "sleeping" /\ SetConnected(FALSE)
  /\ lasted' = FALSE
  /\ UNCHANGED <<produced, rejects, alive, cursor, since, backoff, fieldMask, delivered>>

Ended == phase = "streaming" /\ alive /\ Fails /\ BackOff

(* Mutant: the watchdog does not notice a stream that never said anything. *)
Watchdog_OnlyConnected ==
  /\ phase = "streaming" /\ connected
  /\ ~alive \/ cursor = produced
  /\ UNCHANGED failures
  /\ BackOff

(* The watchdog cancels a stream that has been silent for too long, because *)
(* it is dead or because there is nothing to say.                           *)
Watchdog ==
  /\ phase = "streaming"
  /\ ~alive \/ cursor = produced
  /\ UNCHANGED failures
  /\ BackOff

(* sleep is over. *)
Wake ==
  /\ phase = "sleeping"
  /\ phase' = "request"
  /\ backoff' = IF backoff < MaxBackoff THEN backoff + 1 ELSE backoff
  /\ UNCHANGED <<relayVars, since, fieldMask, lasted, connected, delivered>>

(* ctx is done: Run returns from wherever it is. *)
Stop ==
  /\ phase # "stopped"
  /\ phase' = "stopped" /\ SetConnected(FALSE) /\ alive' = FALSE
  /\ UNCHANGED <<produced, rejects, cursor, failures, since, backoff, fieldMask, lasted,
                 delivered>>

Stopped == phase = "stopped" /\ UNCHANGED vars

Next ==
  \/ Produce \/ Dies
  \/ Request \/ RetryUnmasked \/ Receive \/ ReceiveOther \/ Lasts
  \/ Refused \/ Ended \/ Watchdog \/ Wake \/ Stop \/ Stopped

Spec == Init /\ [][Next]_vars

(* Run keeps going, its timers fire, and a Relay that serves a stream       *)
(* delivers what it has.                                                    *)
FairSpec ==
  /\ Spec
  /\ WF_vars(Request \/ RetryUnmasked) /\ WF_vars(Receive)
  /\ WF_vars(Watchdog) /\ WF_vars(Wake)

-----------------------------------------------------------------------------
(* Properties.                                                              *)

(* However often the stream is refused, ended or lost, no flow is skipped:    *)
(* everything older than the point the client would resume from has reached   *)
(* the sink, and so has everything the open stream is past.                   *)
NothingSkipped ==
  /\ \A i \in Flow : FlowTime[i] < since => delivered[i] >= 1
  /\ phase = "streaming" => \A i \in 1..cursor : delivered[i] >= 1

(* A flow reaches the sink again only if it carries the very time the stream  *)
(* was resumed from; older ones never do (client.go:100-101 "resumes from the *)
(* last flow seen").                                                          *)
RepeatsOnlyTheLast ==
  [][\A i \in Flow : (delivered[i] >= 1 /\ delivered'[i] # delivered[i])
        => FlowTime[i] = since]_vars

(* Once Relay stays up, every flow is delivered: the client never waits on a  *)
(* dead stream, and never repeats a request Relay will not take               *)
(* (client.go:100 "It reconnects forever").                                   *)
AllDelivered ==
  \A i \in Flow : i <= produced ~> (delivered[i] >= 1 \/ phase = "stopped")

=============================================================================
