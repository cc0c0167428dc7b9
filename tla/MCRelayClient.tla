--------------------------- MODULE MCRelayClient ---------------------------
(* RelayClient with flows that share a time and flows that do not. *)
EXTENDS RelayClient

PairedTimes == <<1, 2, 2, 3>>

=============================================================================
