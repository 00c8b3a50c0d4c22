-------------------------- MODULE MCDeployCluster ---------------------------
(***************************************************************************)
(* Teardown, with the deploy it extends, for TLC: only its bounds are      *)
(* given.                                                                  *)
(***************************************************************************)
EXTENDS Teardown, TLC

=============================================================================
