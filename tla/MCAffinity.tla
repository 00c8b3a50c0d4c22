----------------------------- MODULE MCAffinity -----------------------------
(***************************************************************************)
(* Small instances of Affinity for TLC.                                    *)
(***************************************************************************)
EXTENDS Affinity, TLC

\* Two prompts, shown in different orders, routed to different models; the
\* subsample of a slice is one prompt, the one that comes first by name.
MCFrozen == <<"p1", "p2">>
MCSubsample == [S \in SUBSET {"p1", "p2"} |-> IF "p1" \in S THEN {"p1"} ELSE S]
MCSwapped == ("p1" :> FALSE) @@ ("p2" :> TRUE)
MCRedoSwapped == ("p1" :> TRUE) @@ ("p2" :> TRUE)
MCPredicted == ("p1" :> "MEDIUM") @@ ("p2" :> "COMPLEX")

=============================================================================
