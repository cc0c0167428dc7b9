---------------------------- MODULE MCLifecycle ----------------------------
(***************************************************************************)
(* Lifecycle with captures that hold a flow, or end the replay with an     *)
(* error, or do neither.                                                   *)
(***************************************************************************)
EXTENDS Lifecycle

SomeCaptures ==
  {<<>>, <<"other">>, <<"flow">>, <<"other", "flow">>, <<"flow", "bad">>, <<"other", "bad">>}

=============================================================================
