-------------------------- MODULE LifecycleProofs --------------------------
(***************************************************************************)
(* Proof about Lifecycle for any captures and any number of requests.  The *)
(* errgroup keeps its first error only, and every goroutine that is        *)
(* stopped returns one of its own; so what has to be known is that nobody  *)
(* is stopped unless a signal came or a failure is on record already.      *)
(***************************************************************************)
EXTENDS Lifecycle, TLAPS

(* The group's record of why it is ending. *)
CauseTells ==
  /\ signalled \in BOOLEAN /\ cancelled \in BOOLEAN
  /\ cause \in {"none", "canceled", "fatal"}
  /\ cause # "none" => cancelled
  /\ cancelled /\ ~signalled => cause = "fatal"
  /\ cause = "fatal" => failed # {}

(* The hub returns only when it is told to. *)
HubWaits == "hub" \notin running => cancelled

Exited ==
  exit # "none" => running = {} /\ exit = IF cause = "fatal" THEN "1" ELSE "0"

LifecycleInv == CauseTells /\ HubWaits /\ Exited

-----------------------------------------------------------------------------

LEMMA LifecycleInvInit == Init => LifecycleInv
  BY DEF Init, Goroutines, LifecycleInv, CauseTells, HubWaits, Exited

(* A goroutine's return, with an error that is not new unless it failed.    *)
LEMMA ReturnKeeps ==
  ASSUME LifecycleInv, NEW g \in running, NEW err \in {"none", "canceled", "fatal"},
         Returns(g, err), err = "canceled" => cancelled, g = "hub" => cancelled,
         UNCHANGED <<signalled, exit>>
  PROVE  LifecycleInv'
  <1>1. CauseTells'  BY DEF LifecycleInv, CauseTells, Returns
  <1>2. HubWaits'  BY DEF LifecycleInv, CauseTells, HubWaits, Returns
  <1>3. Exited'  BY DEF LifecycleInv, Exited
  <1> QED BY <1>1, <1>2, <1>3 DEF LifecycleInv

(* A step that nobody returns in. *)
LEMMA QuietKeeps ==
  ASSUME LifecycleInv, UNCHANGED <<signalled, groupVars, exit>>
  PROVE  LifecycleInv'
  BY DEF groupVars, LifecycleInv, CauseTells, HubWaits, Exited

(* The source's goroutine returns when it is told to, or fails. *)
LEMMA SourceKeeps ==
  ASSUME LifecycleInv, SourceMoves \/ DialFails \/ OpenFails \/ WaitEnds
  PROVE  LifecycleInv'
  <1> USE DEF SourceStep, RunEnds, Stay
  <1>1. CASE SourceStarts  BY <1>1, QuietKeeps DEF SourceStarts
  <1>2. CASE StreamEnds  BY <1>2, ReturnKeeps DEF StreamEnds
  <1>3. CASE Open  BY <1>3, QuietKeeps DEF Open
  <1>4. CASE ReadOther  BY <1>4, QuietKeeps DEF ReadOther
  <1>5. CASE ReadBad  BY <1>5, ReturnKeeps DEF ReadBad
  <1>6. CASE ReadFlow  BY <1>6, QuietKeeps DEF ReadFlow
  <1>7. CASE Emit
    <2>1. CASE cancelled  BY <1>7, <2>1, ReturnKeeps DEF Emit
    <2>2. CASE ~cancelled  BY <1>7, <2>2, QuietKeeps DEF Emit
    <2> QED BY <2>1, <2>2
  <1>8. CASE EndOfCapture  BY <1>8, QuietKeeps DEF EndOfCapture
  <1>9. CASE Over  BY <1>9, ReturnKeeps DEF Over
  <1>10. CASE DialFails  BY <1>10, ReturnKeeps DEF DialFails
  <1>11. CASE OpenFails  BY <1>11, ReturnKeeps DEF OpenFails
  <1>12. CASE WaitEnds  BY <1>12, ReturnKeeps DEF WaitEnds
  <1> QED BY <1>1, <1>2, <1>3, <1>4, <1>5, <1>6, <1>7, <1>8, <1>9, <1>10, <1>11, <1>12
          DEF SourceMoves

LEMMA LifecycleInvNext == LifecycleInv /\ [Next]_vars => LifecycleInv'
  <1> SUFFICES ASSUME LifecycleInv, [Next]_vars  PROVE LifecycleInv'
    OBVIOUS
  <1>1. CASE Signal
    BY <1>1 DEF Signal, LifecycleInv, CauseTells, HubWaits, Exited
  <1>2. CASE HubEnds  BY <1>2, ReturnKeeps DEF HubEnds
  <1>3. CASE ListenFails  BY <1>3, ReturnKeeps DEF ListenFails
  <1>4. CASE ListenEnds  BY <1>4, ReturnKeeps DEF ListenEnds
  <1>5. CASE RequestBegins \/ RequestEnds
    BY <1>5, QuietKeeps DEF RequestBegins, RequestEnds
  <1>6. CASE ShutdownBegins  BY <1>6, QuietKeeps DEF ShutdownBegins
  <1>7. CASE ShutdownEnds  BY <1>7, ReturnKeeps DEF ShutdownEnds
  <1>8. CASE ShutdownTimesOut  BY <1>8, ReturnKeeps DEF ShutdownTimesOut
  <1>9. CASE Exits
    BY <1>9 DEF Exits, groupVars, LifecycleInv, CauseTells, HubWaits, Exited
  <1>10. CASE SourceMoves \/ DialFails \/ OpenFails \/ WaitEnds  BY <1>10, SourceKeeps
  <1>11. CASE UNCHANGED vars  BY <1>11, QuietKeeps DEF vars, groupVars
  <1> QED BY <1>1, <1>2, <1>3, <1>4, <1>5, <1>6, <1>7, <1>8, <1>9, <1>10, <1>11 DEF Next

(* The exit code tells why the process ended, whichever goroutines were      *)
(* stopped or failed before, in whatever order (main.go's run and main).    *)
THEOREM ExitCodeAlwaysTells == Spec => []ExitCodeTells
  <1>1. LifecycleInv => ExitCodeTells
    BY DEF LifecycleInv, CauseTells, HubWaits, Exited, ExitCodeTells
  <1> QED BY <1>1, LifecycleInvInit, LifecycleInvNext, PTL DEF Spec

=============================================================================
