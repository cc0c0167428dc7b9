-------------------------------- MODULE Hub --------------------------------
(***************************************************************************)
(* internal/hub/hub.go: one goroutine takes a delta out of the graph ten   *)
(* times a second and offers it to every registered browser; one handler   *)
(* goroutine per browser greets it, registers it, and writes what is in    *)
(* its queue to the socket; flows are ingested meanwhile.                  *)
(*                                                                         *)
(* FlowGraph says what a delta holds.  Here the graph is the number of     *)
(* changes made to it: the snapshot taken after change n holds the changes *)
(* 1..n, and the delta taken between two calls of Graph.Tick holds the     *)
(* changes in between.  What a browser has is how often it has applied     *)
(* each change: never (it shows stale counters or lacks a node), once, or  *)
(* twice (its totals are too high).                                        *)
(***************************************************************************)
EXTENDS Integers, Sequences, FiniteSets

CONSTANTS
  Clients,       \* browser connections
  SendQueue,     \* capacity of a client's channel
  ResyncAfter,   \* refused ticks in a row after which a client is resynced
  MaxChanges     \* bound: changes made to the graph in a behaviour

ASSUME HubAssumption ==
  /\ SendQueue \in Nat /\ SendQueue >= 2   \* the greeting is sent without a reader
  /\ ResyncAfter \in Nat \ {0}
  /\ MaxChanges \in Nat

VARIABLES
  changes,      \* changes made to the graph so far
  taken,        \* changes handed out by Graph.Tick
  run,          \* the hub's goroutine: "idle", "fanning" (between g.Tick and h.mu), "stopped"
  delta,        \* the delta it holds while fanning
  registered,   \* h.clients
  send,         \* the channel of each client
  closed,       \* the channel is closed
  behind,       \* refused ticks in a row
  resync,       \* the next thing to queue is a snapshot
  handler,      \* ServeHTTP: "away", "greeted", "serving", "writing", "leaving"
  writing,      \* the message a handler is writing
  open,         \* the socket is open on the browser's side
  view,         \* what the browser has applied since its last snapshot
  gap           \* how the client's queue came to lack a change, if it does

hubVars    == <<changes, taken, run, delta>>
clientVars == <<registered, send, closed, behind, resync>>
handlerVars == <<handler, writing, open, view>>
vars == <<hubVars, clientVars, handlerVars, gap>>

-----------------------------------------------------------------------------

Change == 1..MaxChanges

Hello            == [t |-> "hello", from |-> 0, to |-> 0]
Snapshot(n)      == [t |-> "snapshot", from |-> 0, to |-> n]
TickMessage(a, b) == [t |-> "tick", from |-> a, to |-> b]
NoMessage        == [t |-> "none", from |-> 0, to |-> 0]

Holds(msg, i) == msg.from < i /\ i <= msg.to

(* A browser that has not seen a snapshot has nothing to show. *)
Nothing == [i \in Change |-> 0]

Once(b) == IF b THEN 1 ELSE 0

(* The browser replaces its store by a snapshot and adds a tick to it. *)
Apply(v, msg) ==
  CASE msg.t = "snapshot" -> [i \in Change |-> Once(Holds(msg, i))]
    [] msg.t = "tick"     -> [i \in Change |-> v[i] + Once(Holds(msg, i))]
    [] OTHER              -> v

Init ==
  /\ changes = 0 /\ taken = 0 /\ run = "idle" /\ delta = NoMessage
  /\ registered = {}
  /\ send = [c \in Clients |-> <<>>]
  /\ closed = [c \in Clients |-> FALSE]
  /\ behind = [c \in Clients |-> 0]
  /\ resync = [c \in Clients |-> FALSE]
  /\ handler = [c \in Clients |-> "away"]
  /\ writing = [c \in Clients |-> NoMessage]
  /\ open = [c \in Clients |-> FALSE]
  /\ view = [c \in Clients |-> Nothing]
  /\ gap = [c \in Clients |-> "none"]

-----------------------------------------------------------------------------
(* The source's goroutine.                                                  *)

(* Flow: Graph.Ingest under the graph's own lock, not the hub's. *)
Ingest ==
  /\ changes < MaxChanges
  /\ changes' = changes + 1
  /\ UNCHANGED <<taken, run, delta, clientVars, handlerVars, gap>>

-----------------------------------------------------------------------------
(* The hub's goroutine: Run and tick.                                       *)

(* Mutant: the same increments are handed out with every tick. *)
TakeDelta_Repeats ==
  /\ run = "idle"
  /\ run' = "fanning"
  /\ delta' = TickMessage(taken, changes)
  /\ UNCHANGED <<changes, taken, clientVars, handlerVars, gap>>

(* tick, first part: the delta is taken before the hub's lock is. *)
TakeDelta ==
  /\ run = "idle"
  /\ run' = "fanning"
  /\ delta' = TickMessage(taken, changes)
  /\ taken' = changes
  /\ UNCHANGED <<changes, clientVars, handlerVars, gap>>

(* An offer never waits: one that finds the queue full is refused. *)
HasRoom(c) == Len(send[c]) < SendQueue

(* Mutant: the snapshot is one made for the previous tick. *)
Offered_StaleSnapshot(c) == IF resync[c] THEN Snapshot(delta.from) ELSE delta

(* What the fan-out offers: the tick, or a snapshot of the graph as it is   *)
(* by then to a client that is due one.                                     *)
Offered(c) == IF resync[c] THEN Snapshot(changes) ELSE delta

Refusals(c) ==
  IF HasRoom(c) THEN 0 ELSE IF resync[c] THEN behind[c] ELSE behind[c] + 1

(* Mutant: the count is compared before this refusal is added to it. *)
Due_Late(c) == ~HasRoom(c) /\ (resync[c] \/ behind[c] >= ResyncAfter)

(* Mutant: the flag survives the snapshot. *)
Due_NotReset(c) == resync[c] \/ (~HasRoom(c) /\ Refusals(c) >= ResyncAfter)

(* A client is due a snapshot from its last allowed refusal in a row until  *)
(* an offer is taken.                                                       *)
Due(c) == ~HasRoom(c) /\ (resync[c] \/ Refusals(c) >= ResyncAfter)

(* For the properties: a client's queue comes to lack a change when an      *)
(* offer is refused, or when a delta goes out that is not in the snapshot   *)
(* of a client that has been greeted and not yet registered.                *)
Gap(c) ==
  CASE c \in registered /\ ~HasRoom(c) -> "refused"
    [] c \in registered /\ HasRoom(c) /\ resync[c] -> "none"
    [] handler[c] = "greeted" /\ delta.to > send[c][2].to -> "joining"
    [] OTHER -> gap[c]

(* tick, second part, under the hub's lock, for every registered client. *)
FanOut ==
  /\ run = "fanning"
  /\ run' = "idle"
  /\ delta' = NoMessage
  /\ send' = [c \in Clients |-> IF c \in registered /\ HasRoom(c)
                                THEN Append(send[c], Offered(c)) ELSE send[c]]
  /\ behind' = [c \in Clients |-> IF c \in registered THEN Refusals(c) ELSE behind[c]]
  /\ resync' = [c \in Clients |-> IF c \in registered THEN Due(c) ELSE resync[c]]
  /\ gap' = [c \in Clients |-> Gap(c)]
  /\ UNCHANGED <<changes, taken, registered, closed, handlerVars>>

(* Run on ctx.Done: every registered client's channel is closed. *)
Shutdown ==
  /\ run = "idle"
  /\ run' = "stopped"
  /\ closed' = [c \in Clients |-> closed[c] \/ c \in registered]
  /\ registered' = {}
  /\ UNCHANGED <<changes, taken, delta, send, behind, resync, handlerVars, gap>>

-----------------------------------------------------------------------------
(* The handler of one browser: ServeHTTP.                                   *)

(* The client struct is made, and the greeting is in its queue before       *)
(* anything else knows the client.                                          *)
Connect(c) ==
  /\ handler[c] = "away"
  /\ handler' = [handler EXCEPT ![c] = "greeted"]
  /\ open' = [open EXCEPT ![c] = TRUE]
  /\ send' = [send EXCEPT ![c] = <<Hello, Snapshot(changes)>>]
  /\ closed' = [closed EXCEPT ![c] = FALSE]
  /\ behind' = [behind EXCEPT ![c] = 0]
  /\ resync' = [resync EXCEPT ![c] = FALSE]
  /\ view' = [view EXCEPT ![c] = Nothing]
  /\ gap' = [gap EXCEPT ![c] = "none"]
  /\ UNCHANGED <<hubVars, registered, writing>>

Register(c) ==
  /\ handler[c] = "greeted"
  /\ handler' = [handler EXCEPT ![c] = "serving"]
  /\ registered' = registered \cup {c}
  /\ UNCHANGED <<hubVars, send, closed, behind, resync, writing, open, view, gap>>

(* The select picks a queued message ... *)
Receive(c) ==
  /\ handler[c] = "serving"
  /\ send[c] # <<>>
  /\ handler' = [handler EXCEPT ![c] = "writing"]
  /\ writing' = [writing EXCEPT ![c] = Head(send[c])]
  /\ send' = [send EXCEPT ![c] = Tail(@)]
  /\ UNCHANGED <<hubVars, registered, closed, behind, resync, open, view, gap>>

(* Mutant: only the browser ends the loop. *)
Stop_IgnoresClose(c) ==
  /\ handler[c] = "serving"
  /\ ~open[c]
  /\ handler' = [handler EXCEPT ![c] = "leaving"]
  /\ UNCHANGED <<hubVars, clientVars, writing, open, view, gap>>

(* ... or learns that the browser left or that the channel is closed and    *)
(* empty.                                                                   *)
Stop(c) ==
  /\ handler[c] = "serving"
  /\ ~open[c] \/ (closed[c] /\ send[c] = <<>>)
  /\ handler' = [handler EXCEPT ![c] = "leaving"]
  /\ UNCHANGED <<hubVars, clientVars, writing, open, view, gap>>

(* The browser takes the message ... *)
Written(c) ==
  /\ handler[c] = "writing"
  /\ open[c]
  /\ handler' = [handler EXCEPT ![c] = "serving"]
  /\ view' = [view EXCEPT ![c] = Apply(@, writing[c])]
  /\ writing' = [writing EXCEPT ![c] = NoMessage]
  /\ UNCHANGED <<hubVars, clientVars, open, gap>>

(* ... or the write fails: after ten seconds, or because the browser left.  *)
WriteFails(c) ==
  /\ handler[c] = "writing"
  /\ handler' = [handler EXCEPT ![c] = "leaving"]
  /\ writing' = [writing EXCEPT ![c] = NoMessage]
  /\ UNCHANGED <<hubVars, clientVars, open, view, gap>>

(* Mutant: the client stays in h.clients. *)
Leave_StillRegistered(c) ==
  /\ handler[c] = "leaving"
  /\ handler' = [handler EXCEPT ![c] = "away"]
  /\ closed' = [closed EXCEPT ![c] = TRUE]
  /\ open' = [open EXCEPT ![c] = FALSE]
  /\ send' = [send EXCEPT ![c] = <<>>]
  /\ UNCHANGED <<hubVars, registered, behind, resync, writing, view, gap>>

(* The deferred function: it closes the channel unless Shutdown did, and    *)
(* the socket is closed when the handler returns.                           *)
Leave(c) ==
  /\ handler[c] = "leaving"
  /\ handler' = [handler EXCEPT ![c] = "away"]
  /\ closed' = [closed EXCEPT ![c] = TRUE]
  /\ registered' = registered \ {c}
  /\ open' = [open EXCEPT ![c] = FALSE]
  /\ send' = [send EXCEPT ![c] = <<>>]
  /\ UNCHANGED <<hubVars, behind, resync, writing, view, gap>>

(* The browser closes its tab. *)
BrowserLeaves(c) ==
  /\ open[c]
  /\ open' = [open EXCEPT ![c] = FALSE]
  /\ UNCHANGED <<hubVars, clientVars, handler, writing, view, gap>>

-----------------------------------------------------------------------------

Serve(c) == Register(c) \/ Receive(c) \/ Stop(c) \/ Written(c) \/ WriteFails(c) \/ Leave(c)

Next ==
  \/ Ingest
  \/ TakeDelta \/ FanOut \/ Shutdown
  \/ \E c \in Clients : Connect(c) \/ Serve(c) \/ BrowserLeaves(c)

Spec == Init /\ [][Next]_vars

(* The ticker fires and the handlers run; a write ends within ten seconds,  *)
(* one way or the other.  Flows, visits and the shutdown are not promised.  *)
FairSpec ==
  /\ Spec
  /\ WF_vars(TakeDelta) /\ WF_vars(FanOut)
  /\ \A c \in Clients : WF_vars(Serve(c))

-----------------------------------------------------------------------------
(* Properties.                                                              *)

(* No send can race the close (hub.go:240-242): whoever the fan-out may offer *)
(* to has an open channel, and the handler and Shutdown never both close one. *)
(* Either would panic the process.                                            *)
NoSendOnClosed ==
  \A c \in Clients : c \in registered => ~closed[c] /\ handler[c] # "away"

InFlight(c) == (IF handler[c] = "writing" THEN <<writing[c]>> ELSE <<>>) \o send[c]

(* How often the browser will have applied change i when all that is in      *)
(* flight has arrived: what follows the last snapshot counts.                *)
WillApply(c, i) ==
  LET msgs == InFlight(c)
      snapshots == {k \in DOMAIN msgs : msgs[k].t = "snapshot"}
      last == IF snapshots = {} THEN 0 ELSE CHOOSE k \in snapshots : \A j \in snapshots : j <= k
      base == IF last = 0 THEN view[c][i] ELSE Once(Holds(msgs[last], i))
  IN  base + Cardinality({k \in DOMAIN msgs : k > last /\ msgs[k].t = "tick" /\ Holds(msgs[k], i)})

(* The registered clients whose handler is not on its way out. *)
Served == {c \in registered : handler[c] # "leaving"}

(* Everything that has been fanned out. *)
FannedOut == {i \in Change : i <= IF run = "fanning" THEN delta.from ELSE taken}

(* A registered client comes to lack a change in two ways only: a tick was    *)
(* refused by its full queue, or a delta went out between its snapshot and    *)
(* its registration.  Everything else it is sent, whatever the order in which *)
(* ticker, handlers, flows and shutdown are scheduled.                        *)
LossOnlyByRefusalOrJoining ==
  \A c \in Served : gap[c] = "none" => \A i \in FannedOut : WillApply(c, i) >= 1

(* A change is counted at most twice: once in the snapshot and once in the    *)
(* one delta that was pending when the snapshot was taken.                    *)
CountedAtMostTwice ==
  \A c \in registered, i \in Change : WillApply(c, i) <= 2

(* A client is due a resync exactly while it has refused ResyncAfter ticks in *)
(* a row and taken nothing since, however offers and refusals of the resync   *)
(* itself alternate.                                                          *)
ResyncIsDueExactly ==
  \A c \in registered : resync[c] <=> behind[c] = ResyncAfter

(* A client that is due a resync gets its snapshot, or is gone.               *)
ResyncHappens ==
  \A c \in Clients : resync[c] ~> (~resync[c] \/ c \notin registered)

(* A change reaches every browser that stays, unless its client has a gap.    *)
ChangesArrive ==
  \A c \in Clients, i \in Change :
    (i <= changes /\ c \in registered)
       ~> (view[c][i] >= 1 \/ gap[c] # "none" \/ c \notin registered \/ run = "stopped")

(* A handler whose channel was closed by the shutdown ends, however slow its  *)
(* browser is.                                                                *)
HandlersEnd == \A c \in Clients : closed[c] ~> handler[c] = "away"

=============================================================================
