--------------------------- MODULE MCLlmDScFilter ---------------------------
(***************************************************************************)
(* Small instances of LlmDScFilter for TLC.                                *)
(***************************************************************************)
EXTENDS LlmDScFilterRefinement, TLC

CONSTANTS simple, complex, other, small, large, general, v1, r1, r2

\* simple goes to small, complex to large, other is not in the table.
MCRoutes == (simple :> small) @@ (complex :> large) @@ (other :> None)

MCConfig(unavailable, exhausted, emit) ==
  [ default_cluster |-> general, routes |-> MCRoutes, min_score |-> 2,
    on_unavailable |-> unavailable, on_resource_exhausted |-> exhausted,
    emit_headers |-> emit ]

\* Fail open, and the two postures apart from each other.
MCConfigs ==
  { MCConfig("default_cluster", "default_cluster", TRUE),
    MCConfig("default_cluster", "reject", TRUE),
    MCConfig("reject", "default_cluster", FALSE) }

MCInputs ==
  { [prompt |-> TRUE, forged |-> {"label", "other"}, request_id |-> FALSE],
    [prompt |-> TRUE, forged |-> {}, request_id |-> TRUE],
    [prompt |-> FALSE, forged |-> {"latency"}, request_id |-> FALSE] }

Ok(ranked) == [kind |-> "Response", status |-> "OK", ranked |-> ranked, revision |-> v1]

MCAnswers ==
  { Ok(<<[label |-> simple, score |-> 1], [label |-> complex, score |-> 2]>>),
    Ok(<<[label |-> other, score |-> 3]>>),
    [kind |-> "Response", status |-> "UNKNOWN", ranked |-> << >>, revision |-> v1] }

=============================================================================
