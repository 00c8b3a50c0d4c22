------------------------------ MODULE MCPublish ------------------------------
(***************************************************************************)
(* Publish for TLC: B-1, B-5 from the local scenario b5 under a name of    *)
(* its own, and B-5 twice from the in-cluster scenario b5c, which its Job  *)
(* runs with --out b5c-incluster.json.                                     *)
(***************************************************************************)
EXTENDS Publish, TLC

MCRuns == {"b1", "b5", "b5c", "b5c again"}
Mcspec == [r \in MCRuns |-> IF r = "b1" THEN "B-1" ELSE "B-5"]
Mcpath == [r \in MCRuns |-> CASE r = "b1" -> 1 [] r = "b5" -> 2 [] OTHER -> 3]

=============================================================================
