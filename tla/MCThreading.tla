----------------------------- MODULE MCThreading -----------------------------
(* The instance of Threading that TLC checks: four messages, three delivered. *)
EXTENDS Threading

=============================================================================
