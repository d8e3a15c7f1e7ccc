----------------------------- MODULE MCCockpit -----------------------------
(***************************************************************************)
(* The instance of Cockpit that TLC checks.                                *)
(***************************************************************************)
EXTENDS Cockpit

=============================================================================
