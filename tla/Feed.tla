------------------------------- MODULE Feed -------------------------------
(***************************************************************************)
(* What the delta feed promises a client, without saying how: the client's *)
(* copy changes only when something is published, and what is published is *)
(* then the whole truth, however much changed since the last time.         *)
(***************************************************************************)
VARIABLES truth, copy

Init == copy = truth

Change == UNCHANGED copy

Publish == copy' = truth'

Next == Change \/ Publish

Spec == Init /\ [][Next]_<<truth, copy>>

=============================================================================
