------------------------------ MODULE Decision ------------------------------
(***************************************************************************)
(* The routing decision of the llm_d_sc filter: what one classify outcome  *)
(* turns into.  In the code this is LlmDScFilter::decide and the helpers   *)
(* it calls: no context, no clock, no network, so here it is constant      *)
(* level.  LlmDScFilter extends it with the state around a decision.       *)
(***************************************************************************)
EXTENDS Integers, Sequences

CONSTANTS
  Labels,     \* the labels a classifier may put on the wire
  Clusters,   \* the clusters of the Praxis configuration
  Scores,     \* f32 scores, as their positions in the order f32::total_cmp
  NaNs,       \* the scores that are NaN
  Revisions,  \* revision fingerprints a classifier may answer with
  None,       \* Option::None
  Reject      \* Route::Reject

ASSUME ScoresAssumption == Scores \subseteq Int /\ NaNs \subseteq Scores

ASSUME NoneAssumption ==
  /\ None \notin Labels \cup Clusters \cup Scores \cup Revisions
  /\ Reject \notin Clusters \cup {None}

-----------------------------------------------------------------------------
(* The values that cross the seam.                                         *)

FailureAction == {"default_cluster", "reject"}

\* mod status: the fixed values of llm_d_sc.status.
StatusValues ==
  { "OK", "UNMAPPED_LABEL", "LOW_CONFIDENCE", "NO_SIGNAL", "ABSTAIN",
    "UNAVAILABLE", "RESOURCE_EXHAUSTED", "INVALID_ARGUMENT", "ERROR",
    "TIMEOUT", "SKIPPED_NO_PROMPT" }

\* The part of a validated LlmDScConfig a decision reads; routes is
\* HashMap::get on the route table, None where the table has no entry.
Config ==
  [ default_cluster : Clusters,
    routes : [Labels -> Clusters \cup {None}],
    min_score : Scores \ NaNs,
    on_unavailable : FailureAction,
    on_resource_exhausted : FailureAction,
    emit_headers : BOOLEAN ]

\* all_clusters(): every cluster the filter may select.
all_clusters(cfg) ==
  {cfg.default_cluster} \cup {cfg.routes[l] : l \in {m \in Labels : cfg.routes[m] # None}}

Signal == [label : Labels, score : Scores]

\* ClassificationStatus as decoded from the wire; UNKNOWN is a number that
\* ClassificationStatus::try_from does not know.
WireStatus == {"OK", "ABSTAIN", "UNAVAILABLE", "UNSPECIFIED", "UNKNOWN"}

\* The tonic codes that decide() tells apart.
GrpcCode == {"ResourceExhausted", "InvalidArgument", "Other"}

Response ==
  [ kind : {"Response"}, status : WireStatus, ranked : Seq(Signal), revision : Revisions ]

Timeout == [kind |-> "Timeout"]

GrpcStatus(code) == [kind |-> "Status", code |-> code]

\* Result<ClassifyResponse, ClassifyFailure>
Outcome == Response \cup {Timeout} \cup {GrpcStatus(code) : code \in GrpcCode}

\* struct Decision
DecisionRecord ==
  [ route : Clusters \cup {Reject},
    status : StatusValues,
    label : Labels \cup {None},
    score : Scores \cup {None},
    provenance : Revisions \cup {None} ]

-----------------------------------------------------------------------------
(* The decision table.                                                     *)

\* Decision::fallback: a status and a fallback route, nothing else.
fallback(status, action, default_cluster) ==
  [ route |-> IF action = "reject" THEN Reject ELSE default_cluster,
    status |-> status, label |-> None, score |-> None, provenance |-> None ]

\* f32 `<`: every comparison with a NaN is false.
Below(a, b) == a \notin NaNs /\ b \notin NaNs /\ a < b

\* top_signal: Iterator::max_by under total_cmp returns the LAST maximum.
TopIndex(ranked) ==
  CHOOSE i \in DOMAIN ranked : \A j \in DOMAIN ranked :
    \/ ranked[j].score < ranked[i].score
    \/ ranked[j].score = ranked[i].score /\ j <= i

\* A bug to catch: the first signal is taken for the best.
BugFirstSignal(ranked) == ranked[1]

top_signal(ranked) == ranked[TopIndex(ranked)]

\* A bug to catch: a score equal to the threshold is refused.
BugInclusiveThreshold(cfg, top, revision) ==
  LET low == top.score <= cfg.min_score
      cluster == cfg.routes[top.label]
      mapped == ~low /\ cluster # None
  IN  [ route |-> IF mapped THEN cluster ELSE cfg.default_cluster,
        status |-> IF low THEN "LOW_CONFIDENCE"
                   ELSE IF mapped THEN "OK" ELSE "UNMAPPED_LABEL",
        label |-> top.label, score |-> top.score, provenance |-> revision ]

\* The tail of decide(): a response whose ranked list is not empty.
RankedDecision(cfg, top, revision) ==
  LET low == Below(top.score, cfg.min_score)
      cluster == cfg.routes[top.label]
      mapped == ~low /\ cluster # None
  IN  [ route |-> IF mapped THEN cluster ELSE cfg.default_cluster,
        status |-> IF low THEN "LOW_CONFIDENCE"
                   ELSE IF mapped THEN "OK" ELSE "UNMAPPED_LABEL",
        label |-> top.label, score |-> top.score, provenance |-> revision ]

\* decide() once a response has come back.
ResponseDecision(cfg, response) ==
  LET WithProvenance(d) == [d EXCEPT !.provenance = response.revision]
      default == cfg.default_cluster
  IN  CASE response.status = "ABSTAIN" ->
             WithProvenance(fallback("ABSTAIN", "default_cluster", default))
        [] response.status \in {"UNAVAILABLE", "UNSPECIFIED", "UNKNOWN"} ->
             WithProvenance(fallback("UNAVAILABLE", cfg.on_unavailable, default))
        [] response.status = "OK" /\ response.ranked = << >> ->
             WithProvenance(fallback("NO_SIGNAL", "default_cluster", default))
        [] response.status = "OK" /\ response.ranked # << >> ->
             RankedDecision(cfg, top_signal(response.ranked), response.revision)

\* A bug to catch: the two postures are taken for each other.
BugPosturesSwapped(cfg, code) ==
  CASE code = "ResourceExhausted" ->
         fallback("RESOURCE_EXHAUSTED", cfg.on_unavailable, cfg.default_cluster)
    [] code = "InvalidArgument" ->
         fallback("INVALID_ARGUMENT", cfg.on_resource_exhausted, cfg.default_cluster)
    [] code = "Other" -> fallback("ERROR", cfg.on_resource_exhausted, cfg.default_cluster)

\* decide() on a gRPC status.
StatusDecision(cfg, code) ==
  CASE code = "ResourceExhausted" ->
         fallback("RESOURCE_EXHAUSTED", cfg.on_resource_exhausted, cfg.default_cluster)
    [] code = "InvalidArgument" ->
         fallback("INVALID_ARGUMENT", cfg.on_unavailable, cfg.default_cluster)
    [] code = "Other" -> fallback("ERROR", cfg.on_unavailable, cfg.default_cluster)

decide(cfg, outcome) ==
  CASE outcome.kind = "Timeout" ->
         fallback("TIMEOUT", cfg.on_unavailable, cfg.default_cluster)
    [] outcome.kind = "Status" -> StatusDecision(cfg, outcome.code)
    [] outcome.kind = "Response" -> ResponseDecision(cfg, outcome)

\* on_request's decision when no prompt could be extracted.
SkipDecision(cfg) == fallback("SKIPPED_NO_PROMPT", "default_cluster", cfg.default_cluster)

-----------------------------------------------------------------------------
(* metric_label: the `label` of llm_d_sc_route_total.                      *)

Unmapped == "<unmapped>"

\* A bug to catch: the wire label is emitted as it is.
BugLabelVerbatim(cfg, d) == IF d.label = None THEN d.status ELSE d.label

metric_label(cfg, d) ==
  IF d.label = None THEN d.status
  ELSE IF cfg.routes[d.label] # None THEN d.label
  ELSE Unmapped

=============================================================================
