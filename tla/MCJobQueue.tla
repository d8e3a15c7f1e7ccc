----------------------------- MODULE MCJobQueue -----------------------------
(***************************************************************************)
(* The instance of JobQueue that TLC checks.                               *)
(***************************************************************************)
EXTENDS JobQueue

=============================================================================
