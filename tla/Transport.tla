----------------------------- MODULE Transport -----------------------------
(***************************************************************************)
(* Where the page's messages come from: a WebSocket that reconnects        *)
(* (web/src/ws-client.ts), or on the static demo page the Go graph itself, *)
(* compiled into the page (web/src/demo-transport.ts).  Both keep the      *)
(* ticks in a buffer while the page is paused.                             *)
(*                                                                         *)
(* As in Hub, the graph is a number of changes: the server's i-th tick     *)
(* holds change i, the snapshot sent after n ticks holds the changes 1..n, *)
(* and `view' is how often the page has applied each change since its last *)
(* snapshot.  The server here serves every connection perfectly; what it   *)
(* may do otherwise is Hub's subject.  The greeting's hello, the states    *)
(* reported to the pill and the length of the backoff are left out, and    *)
(* so is close(), which the page never calls.                              *)
(***************************************************************************)
EXTENDS Integers, Sequences, FiniteSets

CONSTANTS
  MaxBuffer,    \* MAX_BUFFER: ticks kept while paused
  MaxTicks,     \* bound: ticks the server makes
  MaxBreaks     \* bound: connections the network breaks or refuses

ASSUME TransportAssumption ==
  MaxBuffer \in Nat \ {0} /\ MaxTicks \in Nat /\ MaxBreaks \in Nat

VARIABLES
  staticDemo,   \* the page was built as the static demo
  made,         \* ticks made by the server, or by the demo
  breaks,       \* connections broken so far (only to bound the behaviours)
  phase,        \* the socket: "connecting", "open", "closing", "off" (a timer will reconnect);
                \* the demo, "connecting" until it is "running" or has "failed"
  wire,         \* what the server has sent on it and the page has not received
  paused, buffer, overflowed,
  view,         \* how often each change has been applied
  crossed,      \* the buffer was not empty when the last snapshot was applied
  dropped       \* ticks that did not fit into the demo's buffer (for the properties)

demoVars == <<staticDemo, dropped>>
vars == <<made, breaks, phase, wire, paused, buffer, overflowed, view, crossed, demoVars>>

-----------------------------------------------------------------------------

Change == 1..MaxTicks

TickMessage(i) == [t |-> "tick", at |-> i]
Snapshot(n)    == [t |-> "snapshot", at |-> n]

Holds(msg, i) == IF msg.t = "tick" THEN i = msg.at ELSE i <= msg.at

(* How often a sequence of ticks holds change i. *)
Times(msgs, i) == Cardinality({k \in DOMAIN msgs : Holds(msgs[k], i)})

Init ==
  /\ staticDemo \in BOOLEAN /\ dropped = {}
  /\ made = 0 /\ breaks = 0
  /\ phase = "connecting" /\ wire = <<>>
  /\ paused = FALSE /\ buffer = <<>> /\ overflowed = FALSE
  /\ view = [i \in Change |-> 0] /\ crossed = FALSE

-----------------------------------------------------------------------------
(* The server and the network.                                              *)

ServerTick ==
  /\ ~staticDemo /\ made < MaxTicks
  /\ made' = made + 1
  /\ wire' = IF phase = "open" THEN Append(wire, TickMessage(made + 1)) ELSE wire
  /\ UNCHANGED <<breaks, phase, paused, buffer, overflowed, view, crossed, demoVars>>

(* onopen; the server sends its snapshot first. *)
Open ==
  /\ ~staticDemo /\ phase = "connecting"
  /\ phase' = "open"
  /\ wire' = <<Snapshot(made)>>
  /\ UNCHANGED <<made, breaks, paused, buffer, overflowed, view, crossed, demoVars>>

Lost ==
  /\ phase' = "off"
  /\ wire' = <<>>
  /\ UNCHANGED <<made, paused, buffer, overflowed, view, crossed, demoVars>>

(* onerror or onclose without the page's doing. *)
Break ==
  /\ ~staticDemo /\ phase \in {"connecting", "open"} /\ breaks < MaxBreaks
  /\ breaks' = breaks + 1
  /\ Lost

(* onclose after close(). *)
Closed ==
  /\ phase = "closing"
  /\ UNCHANGED breaks
  /\ Lost

-----------------------------------------------------------------------------
(* The page.                                                                *)

(* The timer set by onclose calls connect. *)
Reconnect ==
  /\ phase = "off"
  /\ phase' = "connecting"
  /\ UNCHANGED <<made, breaks, wire, paused, buffer, overflowed, view, crossed, demoVars>>

Delivered == wire' = Tail(wire) /\ UNCHANGED <<made, breaks, phase, paused, demoVars>>

(* Mutant: a full buffer makes room by dropping its oldest tick. *)
Keep_DropOldest ==
  /\ paused /\ Head(wire).t = "tick"
  /\ buffer' = Append(IF Len(buffer) >= MaxBuffer THEN Tail(buffer) ELSE buffer, Head(wire))
  /\ UNCHANGED <<overflowed, view, crossed>>

(* onmessage keeps a tick while paused, or notes that one did not fit. *)
Keep ==
  /\ paused /\ Head(wire).t = "tick"
  /\ IF Len(buffer) >= MaxBuffer
       THEN overflowed' = TRUE /\ UNCHANGED buffer
       ELSE buffer' = Append(buffer, Head(wire)) /\ UNCHANGED overflowed
  /\ UNCHANGED <<view, crossed>>

(* Everything else goes to the page at once, a snapshot even while paused. *)
ApplyNow ==
  LET msg == Head(wire)
  IN  /\ ~(paused /\ msg.t = "tick")
      /\ view' = [i \in Change |-> (IF msg.t = "tick" THEN view[i] ELSE 0)
                                     + (IF Holds(msg, i) THEN 1 ELSE 0)]
      /\ crossed' = IF msg.t = "tick" THEN crossed ELSE buffer # <<>>
      /\ UNCHANGED <<buffer, overflowed>>

(* A socket that is closing delivers nothing more. *)
Receive ==
  /\ phase = "open" /\ wire # <<>>
  /\ Keep \/ ApplyNow
  /\ Delivered

Pause ==
  /\ ~paused
  /\ paused' = TRUE
  /\ UNCHANGED <<made, breaks, phase, wire, buffer, overflowed, view, crossed, demoVars>>

(* Mutant: the buffer is dropped, the connection kept. *)
StartOver_KeepSocket ==
  /\ overflowed
  /\ buffer' = <<>> /\ overflowed' = FALSE
  /\ UNCHANGED <<phase, view>>

(* setPaused(false) after an overflow: a fresh snapshot is cheaper. *)
StartOver ==
  /\ overflowed
  /\ buffer' = <<>> /\ overflowed' = FALSE
  /\ phase' = IF phase = "off" THEN phase ELSE "closing"
  /\ UNCHANGED view

(* Mutant: the buffer is replayed and kept. *)
Replay_KeepBuffer ==
  /\ ~overflowed
  /\ view' = [i \in Change |-> view[i] + Times(buffer, i)]
  /\ UNCHANGED <<phase, overflowed, buffer>>

(* setPaused(false) otherwise. *)
Replay ==
  /\ ~overflowed
  /\ view' = [i \in Change |-> view[i] + Times(buffer, i)]
  /\ buffer' = <<>>
  /\ UNCHANGED <<phase, overflowed>>

Resume ==
  /\ paused
  /\ paused' = FALSE
  /\ StartOver \/ Replay
  /\ UNCHANGED <<made, breaks, wire, crossed, demoVars>>

-----------------------------------------------------------------------------
(* The demo: no connection, nothing to connect to again.                    *)

demoSame == <<staticDemo, breaks, wire, overflowed, crossed>>

(* The script and the module are loaded, and the first snapshot comes, of a  *)
(* graph that is still empty; or loading fails, once and for all.           *)
DemoStart ==
  /\ staticDemo /\ phase = "connecting"
  /\ phase' \in {"running", "failed"}
  /\ UNCHANGED <<made, paused, buffer, view, dropped, demoSame>>

(* Mutant: a full buffer makes room by dropping its oldest tick. *)
DemoKeep_DropOldest ==
  /\ paused
  /\ buffer' = Append(IF Len(buffer) >= MaxBuffer THEN Tail(buffer) ELSE buffer,
                      TickMessage(made + 1))
  /\ dropped' = IF Len(buffer) >= MaxBuffer THEN dropped \cup {made + 1} ELSE dropped
  /\ UNCHANGED view

DemoKeep ==
  /\ paused
  /\ IF Len(buffer) < MaxBuffer
       THEN buffer' = Append(buffer, TickMessage(made + 1)) /\ UNCHANGED dropped
       ELSE dropped' = dropped \cup {made + 1} /\ UNCHANGED buffer
  /\ UNCHANGED view

DemoApply ==
  /\ ~paused
  /\ view' = [view EXCEPT ![made + 1] = @ + 1]
  /\ UNCHANGED <<buffer, dropped>>

(* The module calls back with a tick. *)
DemoTick ==
  /\ phase = "running" /\ made < MaxTicks
  /\ made' = made + 1
  /\ DemoKeep \/ DemoApply
  /\ UNCHANGED <<phase, paused, demoSame>>

Next ==
  \/ ServerTick \/ Open \/ Break \/ Closed
  \/ Reconnect \/ Receive \/ Pause \/ Resume
  \/ DemoStart \/ DemoTick

Spec == Init /\ [][Next]_vars

(* Timers fire, sockets that the network leaves alone open, close and       *)
(* deliver.  The user, the server's ticks and the breaks are not promised.  *)
FairSpec ==
  Spec /\ WF_vars(Open) /\ WF_vars(Closed) /\ WF_vars(Reconnect) /\ WF_vars(Receive)

-----------------------------------------------------------------------------
(* Properties.                                                              *)

Greeting == wire # <<>> /\ Head(wire).t = "snapshot"

(* How often the page will have applied change i once it is resumed and has   *)
(* received what is on the wire.                                              *)
WillApply(i) ==
  (IF Greeting THEN 0 ELSE view[i]) + Times(wire, i) + Times(buffer, i)

(* As long as no tick overflowed, pausing loses nothing: what the open        *)
(* connection has brought or will bring and what the buffer holds make up     *)
(* every change, whatever breaks, pauses and resumes lie between.             *)
NothingMissed ==
  (phase = "open" /\ ~overflowed) => \A i \in 1..made : WillApply(i) >= 1

(* A change is counted twice only when the page was paused across a           *)
(* reconnect: the snapshot of the new connection is applied at once, the      *)
(* ticks of the old one when the page resumes (ws-client.ts:41-50, :72-74).   *)
(* More than twice is never.                                                  *)
TwiceOnlyAcrossConnections ==
  \A i \in 1..made :
    /\ phase = "open" => WillApply(i) <= 2
    /\ (phase = "open" /\ ~Greeting /\ ~crossed) => WillApply(i) <= 1

(* A page that is not paused catches up with every change, also when its      *)
(* buffer overflowed and it has to reconnect: README.md:112 "longer than that *)
(* reconnects for a fresh snapshot".                                          *)
CatchesUp ==
  \A i \in Change :
    (~staticDemo /\ i <= made /\ ~paused) ~> (paused \/ view[i] >= 1)

(* The demo has nothing to reconnect to.  A page that is not paused lacks     *)
(* exactly the changes that found the buffer full, and was shown no other one *)
(* twice; those that were kept are the first of their pause                   *)
(* (demo-transport.ts:55-58, :68-75).                                         *)
LacksOnlyDropped ==
  staticDemo =>
    /\ \A i \in 1..made : paused \/ view[i] = (IF i \in dropped THEN 0 ELSE 1)
    /\ \A k \in DOMAIN buffer : \A i \in dropped : buffer[k].at < i \/ i < buffer[1].at

=============================================================================
