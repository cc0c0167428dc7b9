----------------------------- MODULE PeerStatus -----------------------------
(***************************************************************************)
(* Which machines Relay cannot reach: Status (internal/hubble/source.go)   *)
(* and the three ways it is written while a stream is open, node status    *)
(* events on the stream, the peer list asked for by the receiving          *)
(* goroutine, and the peer list asked for by the stream's own ticker       *)
(* (internal/hubble/relay/client.go stream, syncNodes).                    *)
(*                                                                         *)
(* An answer to GetNodes shows the peers as they were when Relay made it,  *)
(* and it is applied later.  Each of the two goroutines asks, is answered, *)
(* and applies; a ticker that outlives its stream still applies an answer  *)
(* it has.  Calls that fail apply nothing.                                 *)
(***************************************************************************)
EXTENDS Integers, Sequences

CONSTANTS
  Machines,     \* the names of Relay's peers
  MaxChanges,   \* bound: peers that become reachable or unreachable
  MaxStreams    \* bound: streams opened

ASSUME PeerAssumption == MaxChanges \in Nat /\ MaxStreams \in Nat

VARIABLES
  truth,        \* the peers Relay cannot reach
  changes,      \* how often that has changed (only to bound the behaviours)
  streams,      \* streams opened so far (only to bound the behaviours)
  stream,       \* "closed", "opening" until the first peer list is dealt with, "open"
  events,       \* node status events on the stream, not yet received
  receiver,     \* the receiving goroutine: its pending call to GetNodes
  ticker,       \* the open stream's ticker: its pending call
  late,         \* answers held by tickers of streams that have ended
  unavailable   \* Status.unavailable

vars == <<truth, changes, streams, stream, events, receiver, ticker, late, unavailable>>

(* A goroutine's call to GetNodes: none, asked, or answered with a peer list. *)
Idle           == [at |-> "idle", down |-> {}]
Asked          == [at |-> "asked", down |-> {}]
Answered(down) == [at |-> "answered", down |-> down]

-----------------------------------------------------------------------------

Init ==
  /\ truth = {} /\ changes = 0 /\ streams = 0 /\ stream = "closed" /\ events = <<>>
  /\ receiver = Idle /\ ticker = Idle /\ late = {} /\ unavailable = {}

(* Relay loses or finds a peer, and says so on an open stream. *)
PeerChanges ==
  /\ changes < MaxChanges
  /\ changes' = changes + 1
  /\ \E m \in Machines :
       /\ truth' = IF m \in truth THEN truth \ {m} ELSE truth \cup {m}
       /\ events' = IF stream # "closed" THEN Append(events, [node |-> m, down |-> m \notin truth])
                            ELSE events
  /\ UNCHANGED <<streams, stream, receiver, ticker, late, unavailable>>

(* GetFlows succeeds; the peer list is asked for before anything is received. *)
OpenStream ==
  /\ stream = "closed" /\ streams < MaxStreams
  /\ streams' = streams + 1
  /\ stream' = "opening"
  /\ receiver' = Asked
  /\ UNCHANGED <<truth, changes, events, ticker, late, unavailable>>

Fold(ev) == IF ev.down THEN unavailable \cup {ev.node} ELSE unavailable \ {ev.node}

(* Recv returns a node status: it is folded in, and the list asked for.     *)
ReceiveStatus ==
  /\ stream = "open" /\ receiver = Idle /\ events # <<>>
  /\ unavailable' = Fold(Head(events))
  /\ events' = Tail(events)
  /\ receiver' = Asked
  /\ UNCHANGED <<truth, changes, streams, stream, ticker, late>>

AnswerReceiver ==
  /\ receiver = Asked
  /\ receiver' = Answered(truth)
  /\ UNCHANGED <<truth, changes, streams, stream, events, ticker, late, unavailable>>

(* Mutant: a peer list only adds to the set. *)
Replaced_Union(down) == unavailable \cup down

(* SetNodes replaces the set. *)
Replaced(down) == down

StoreReceiver ==
  /\ receiver.at = "answered"
  /\ unavailable' = Replaced(receiver.down)
  /\ receiver' = Idle
  /\ stream' = "open"
  /\ UNCHANGED <<truth, changes, streams, events, ticker, late>>

(* The ticker starts once the first list has been dealt with. *)
TickerAsks ==
  /\ stream = "open" /\ ticker = Idle
  /\ ticker' = Asked
  /\ UNCHANGED <<truth, changes, streams, stream, events, receiver, late, unavailable>>

AnswerTicker ==
  /\ ticker = Asked
  /\ ticker' = Answered(truth)
  /\ UNCHANGED <<truth, changes, streams, stream, events, receiver, late, unavailable>>

StoreTicker ==
  /\ ticker.at = "answered"
  /\ unavailable' = Replaced(ticker.down)
  /\ ticker' = Idle
  /\ UNCHANGED <<truth, changes, streams, stream, events, receiver, late>>

StoreLate ==
  /\ \E down \in late : unavailable' = Replaced(down) /\ late' = late \ {down}
  /\ UNCHANGED <<truth, changes, streams, stream, events, receiver, ticker>>

(* A call fails: after five seconds, or Relay does not know it. *)
CallFails ==
  /\ \/ receiver = Asked /\ receiver' = Idle /\ stream' = "open" /\ UNCHANGED ticker
     \/ ticker = Asked /\ ticker' = Idle /\ UNCHANGED <<receiver, stream>>
  /\ UNCHANGED <<truth, changes, streams, events, late, unavailable>>

(* stream returns and its context is cancelled: what is on the stream and   *)
(* what has not been answered is lost.  (The last stream of a behaviour     *)
(* stays open.)                                                             *)
StreamEnds ==
  /\ stream = "open" /\ receiver = Idle /\ streams < MaxStreams
  /\ stream' = "closed"
  /\ events' = <<>>
  /\ ticker' = Idle
  /\ late' = IF ticker.at = "answered" THEN late \cup {ticker.down} ELSE late
  /\ UNCHANGED <<truth, changes, streams, receiver, unavailable>>

Next ==
  \/ PeerChanges \/ OpenStream \/ ReceiveStatus \/ AnswerReceiver \/ StoreReceiver
  \/ TickerAsks \/ AnswerTicker \/ StoreTicker \/ StoreLate \/ StreamEnds
  \/ CallFails

Spec == Init /\ [][Next]_vars

(* A Relay that answers: the ticker asks every minute, calls return, events *)
(* on an open stream are received.                                          *)
FairSpec ==
  /\ Spec
  /\ WF_vars(OpenStream) /\ WF_vars(ReceiveStatus)
  /\ WF_vars(StoreReceiver) /\ WF_vars(StoreTicker) /\ WF_vars(StoreLate)
  /\ WF_vars(AnswerReceiver) /\ SF_vars(TickerAsks) /\ SF_vars(AnswerTicker)

-----------------------------------------------------------------------------
(* Properties.                                                              *)

(* Once the peers stop changing and a stream stays open, the status settles   *)
(* on the peers Relay cannot reach, whatever events were lost with earlier    *)
(* streams, calls failed and stale answers are still to be applied.           *)
SettlesOnTruth == <>[](unavailable = truth)

=============================================================================
