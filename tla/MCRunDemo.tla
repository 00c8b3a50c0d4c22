----------------------------- MODULE MCRunDemo ------------------------------
(***************************************************************************)
(* RunDemo for TLC: the demo is small enough to be checked as it is.       *)
(***************************************************************************)
EXTENDS RunDemo, TLC

=============================================================================
