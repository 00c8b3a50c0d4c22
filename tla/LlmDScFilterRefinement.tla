----------------------- MODULE LlmDScFilterRefinement -----------------------
(***************************************************************************)
(* LlmDScFilter implements RoutingContract: under the mapping below, each  *)
(* step of the filter, its channel and the service is a step of the        *)
(* contract or leaves it alone.                                            *)
(***************************************************************************)
EXTENDS LlmDScFilter

NoPromptEvidence == [kind |-> "NoPrompt"]

\* What a request was decided on: the outcome its await returned.  It must
\* not move once the request is done, or the contract is broken.
EvidenceOf(r) ==
  IF ~Done(r) THEN None
  ELSE IF ~input[r].prompt THEN NoPromptEvidence
  ELSE classify(r)

Contract ==
  INSTANCE RoutingContract
    WITH Evidence <- Answers \cup {Timeout, NoPromptEvidence}
                       \cup {GrpcStatus(code) : code \in GrpcCode},
         evidence <- [r \in Requests |-> EvidenceOf(r)],
         verdict <- [r \in Requests |-> ctx[r].route]

\* The filter keeps its promise: one verdict for each request, permitted by
\* the decision table for what the classifier did, and every request gets one.
ImplementsContract == Contract!FairSpec

=============================================================================
