----------------------------- MODULE MCInFlight -----------------------------
(***************************************************************************)
(* Instances of InFlight for TLC.                                          *)
(***************************************************************************)
EXTENDS InFlight

CONSTANTS r1, r2, r3

=============================================================================
