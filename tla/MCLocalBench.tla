---------------------------- MODULE MCLocalBench ----------------------------
(***************************************************************************)
(* LocalBench for TLC, with two of the five scenarios.                     *)
(***************************************************************************)
EXTENDS LocalBench, TLC

MCScenarios == <<"B-1", "B-6">>

MCLeftovers == {"stub-large", "llm-d-sc", "praxis"}

=============================================================================
