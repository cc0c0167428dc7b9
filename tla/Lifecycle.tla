----------------------------- MODULE Lifecycle -----------------------------
(***************************************************************************)
(* The process (cmd/flowscape/main.go): four goroutines of an errgroup,    *)
(* the hub, the flow source, the HTTP listener and the one that waits to   *)
(* shut the server down.  The first error cancels the context the others   *)
(* watch, and so does a signal; run() returns when all four have, and      *)
(* main() turns the group's first error into the exit code.                *)
(*                                                                         *)
(* The sources are Relay's client and the demo, which here only last until *)
(* the context ends (RelayClient models the former), and the replay of a   *)
(* capture (internal/hubble/replay), line by line.                         *)
(***************************************************************************)
EXTENDS Naturals, Sequences, FiniteSets

CONSTANTS
  Captures,      \* the captures to replay: sequences of "flow", "other", "bad"
  MaxRequests    \* plain HTTP requests in progress (upgraded ones are not waited for)

Goroutines == {"hub", "source", "listener", "shutdown"}

VARIABLES
  config,      \* [kind, loop, capture], fixed
  signalled,   \* SIGINT or SIGTERM has come
  cancelled,   \* the group's context is done
  cause,       \* the group's first error: "none", "canceled", "fatal"
  failed,      \* history: goroutines that failed of themselves
  running,     \* goroutines that have not returned
  source,      \* where source.Run is
  line,        \* replay: the next line
  ready,       \* hub.ready
  closing,     \* srv.Shutdown has been called
  requests,    \* requests in progress
  exit         \* "none" or the exit code

vars == <<config, signalled, cancelled, cause, failed, running, source, line, ready,
          closing, requests, exit>>

Configs == [kind: {"relay", "demo"}, loop: {FALSE}, capture: {<<>>}]
             \cup [kind: {"replay"}, loop: BOOLEAN, capture: Captures]

Init ==
  /\ config \in Configs
  /\ signalled = FALSE /\ cancelled = FALSE
  /\ cause = "none" /\ failed = {}
  /\ running = Goroutines
  /\ source = "starting" /\ line = 1
  /\ ready = FALSE
  /\ closing = FALSE
  /\ requests = 0
  /\ exit = "none"

-----------------------------------------------------------------------------
(* errgroup.                                                                *)

(* Mutant: the group remembers its last error. *)
Returns_LastError(g, err) ==
  /\ running' = running \ {g}
  /\ cause' = IF err = "none" THEN cause ELSE err
  /\ cancelled' = (cancelled \/ err # "none")
  /\ failed' = IF err = "fatal" THEN failed \cup {g} ELSE failed

Returns(g, err) ==
  /\ running' = running \ {g}
  /\ cause' = IF cause = "none" THEN err ELSE cause
  /\ cancelled' = (cancelled \/ err # "none")
  /\ failed' = IF err = "fatal" THEN failed \cup {g} ELSE failed

groupVars == <<running, cause, cancelled, failed>>

Signal ==
  /\ exit = "none"
  /\ ~signalled
  /\ signalled' = TRUE
  /\ cancelled' = TRUE
  /\ UNCHANGED <<config, cause, failed, running, source, line, ready, closing, requests, exit>>

HubEnds ==
  /\ "hub" \in running
  /\ cancelled
  /\ Returns("hub", "canceled")
  /\ UNCHANGED <<config, signalled, source, line, ready, closing, requests, exit>>

(* The address is taken, or a later Accept fails.                           *)
ListenFails ==
  /\ "listener" \in running
  /\ ~closing
  /\ Returns("listener", "fatal")
  /\ UNCHANGED <<config, signalled, source, line, ready, closing, requests, exit>>

(* ListenAndServe returns as soon as Shutdown is called, ErrServerClosed.   *)
ListenEnds ==
  /\ "listener" \in running
  /\ closing
  /\ Returns("listener", "none")
  /\ UNCHANGED <<config, signalled, source, line, ready, closing, requests, exit>>

RequestBegins ==
  /\ "listener" \in running
  /\ ~closing
  /\ requests < MaxRequests
  /\ requests' = requests + 1
  /\ UNCHANGED <<config, signalled, groupVars, source, line, ready, closing, exit>>

RequestEnds ==
  /\ exit = "none"
  /\ requests > 0
  /\ requests' = requests - 1
  /\ UNCHANGED <<config, signalled, groupVars, source, line, ready, closing, exit>>

ShutdownBegins ==
  /\ cancelled
  /\ ~closing
  /\ closing' = TRUE
  /\ UNCHANGED <<config, signalled, groupVars, source, line, ready, requests, exit>>

ShutdownEnds ==
  /\ closing
  /\ "shutdown" \in running
  /\ requests = 0
  /\ Returns("shutdown", "none")
  /\ UNCHANGED <<config, signalled, source, line, ready, closing, requests, exit>>

(* After five seconds Shutdown gives up.  The hub, which has nothing to do  *)
(* but a tick, has seen the context end long before.                        *)
ShutdownTimesOut ==
  /\ closing
  /\ "shutdown" \in running
  /\ requests > 0
  /\ "hub" \notin running
  /\ Returns("shutdown", "fatal")
  /\ UNCHANGED <<config, signalled, source, line, ready, closing, requests, exit>>

(* An error of the group that is not context.Canceled is exit code 1.       *)
Exits ==
  /\ exit = "none"
  /\ running = {}
  /\ exit' = IF cause = "fatal" THEN "1" ELSE "0"
  /\ UNCHANGED <<config, signalled, groupVars, source, line, ready, closing, requests>>

-----------------------------------------------------------------------------
(* The source's goroutine: SetReady(true), Run, SetReady(false).            *)

SourceStep == "source" \in running /\ UNCHANGED <<config, signalled, closing, requests, exit>>

SourceStarts ==
  /\ SourceStep
  /\ source = "starting"
  /\ ready' = TRUE
  /\ source' = IF config.kind = "replay" THEN "open" ELSE "streaming"
  /\ UNCHANGED <<groupVars, line>>

RunEnds(err) ==
  /\ ready' = FALSE
  /\ source' = "done"
  /\ Returns("source", err)
  /\ UNCHANGED line

StreamEnds ==
  /\ SourceStep
  /\ source = "streaming"
  /\ cancelled
  /\ RunEnds("canceled")

(* Relay's client cannot be made, from an address it cannot parse.          *)
DialFails ==
  /\ SourceStep
  /\ source = "streaming"
  /\ config.kind = "relay"
  /\ RunEnds("fatal")

Stay(to, next) ==
  /\ source' = to
  /\ line' = next
  /\ UNCHANGED <<groupVars, ready>>

OpenFails ==
  /\ SourceStep
  /\ source = "open"
  /\ RunEnds("fatal")

Open ==
  /\ SourceStep
  /\ source = "open"
  /\ Stay("reading", 1)

AtEnd == line > Len(config.capture)

(* Node status and lost events are passed on, blank lines are skipped.      *)
ReadOther ==
  /\ SourceStep
  /\ source = "reading" /\ ~AtEnd
  /\ config.capture[line] = "other"
  /\ Stay("reading", line + 1)

ReadBad ==
  /\ SourceStep
  /\ source = "reading" /\ ~AtEnd
  /\ config.capture[line] = "bad"
  /\ RunEnds("fatal")

(* A flow waits for its time, if the replay is paced.                       *)
ReadFlow ==
  /\ SourceStep
  /\ source = "reading" /\ ~AtEnd
  /\ config.capture[line] = "flow"
  /\ Stay("waiting", line)

WaitEnds ==
  /\ SourceStep
  /\ source = "waiting"
  /\ cancelled
  /\ RunEnds("canceled")

(* Mutant: the context is not looked at after a flow. *)
Emit_NoCheck ==
  /\ SourceStep
  /\ source = "waiting"
  /\ Stay("reading", line + 1)

(* The flow is due; the context is looked at after it.                      *)
Emit ==
  /\ SourceStep
  /\ source = "waiting"
  /\ IF cancelled THEN RunEnds("canceled") ELSE Stay("reading", line + 1)

EndOfCapture ==
  /\ SourceStep
  /\ source = "reading" /\ AtEnd
  /\ Stay(IF config.loop THEN "open" ELSE "over", 1)

(* Without Loop the replay waits for the context to end.                    *)
Over ==
  /\ SourceStep
  /\ source = "over"
  /\ cancelled
  /\ RunEnds("canceled")

-----------------------------------------------------------------------------

SourceMoves ==
  \/ SourceStarts \/ StreamEnds \/ Open \/ ReadOther \/ ReadBad \/ ReadFlow
  \/ Emit \/ EndOfCapture \/ Over

Next ==
  \/ Signal \/ HubEnds \/ ListenFails \/ ListenEnds \/ RequestBegins \/ RequestEnds
  \/ ShutdownBegins \/ ShutdownEnds \/ ShutdownTimesOut \/ Exits
  \/ SourceMoves \/ DialFails \/ OpenFails \/ WaitEnds

Spec == Init /\ [][Next]_vars

(* Go schedules every goroutine that can run, flows fall due, and Shutdown  *)
(* gives up after its timeout.                                              *)
FairSpec ==
  /\ Spec
  /\ WF_vars(HubEnds) /\ WF_vars(ListenEnds) /\ WF_vars(Exits)
  /\ WF_vars(ShutdownBegins) /\ WF_vars(ShutdownEnds \/ ShutdownTimesOut)
  /\ WF_vars(SourceMoves)

-----------------------------------------------------------------------------

(* The exit code tells why the process ended, whatever the goroutines that  *)
(* were stopped by it return later: 0 only after a signal, 1 only if one of *)
(* them failed (main.go's errgroup and its test for context.Canceled).      *)
ExitCodeTells ==
  /\ exit = "0" => signalled
  /\ exit = "1" => failed # {}
  /\ exit # "none" /\ ~signalled => exit = "1"

(* The one source that does not end with its context: a looped replay looks *)
(* at it only after a flow.                                                 *)
Spins == config.loop /\ \A k \in DOMAIN config.capture : config.capture[k] = "other"

(* A signal, or the failure of one goroutine, ends the process, wherever the *)
(* others are; except that a looped replay of a capture without flows may   *)
(* read it again for ever (replay.go:65-76).                                *)
Ends == (signalled \/ failed # {}) ~> (exit # "none" \/ Spins)

=============================================================================
