--------------------------- MODULE RoutingContract ---------------------------
(***************************************************************************)
(* What the llm_d_sc filter promises, with no channel, timer, header or    *)
(* metric in sight: every request is decided once, on the basis of one     *)
(* piece of evidence, and the verdict is one the decision table of SPEC    *)
(* section 4.6 permits for that evidence.  The table is stated here as a   *)
(* relation, row by row, and not as the code computes it.                  *)
(***************************************************************************)
EXTENDS Decision

CONSTANTS
  Requests,  \* the requests that reach the filter
  Configs,   \* the configurations the operator may choose
  Evidence   \* what a request may be decided on

\* The evidence of a request that carries no prompt.
NoPrompt == [kind |-> "NoPrompt"]

VARIABLES
  config,    \* the configuration the operator chose
  evidence,  \* what each request was decided on, None before
  verdict    \* where each request was sent, None before

contractVars == <<config, evidence, verdict>>

\* The signals no other signal of the response beats.
BestSignals(ranked) ==
  {ranked[i] : i \in {i \in DOMAIN ranked :
                        \A j \in DOMAIN ranked : ranked[j].score <= ranked[i].score}}

\* No usable answer: the operator's posture for this kind of failure.
PostureFor(e) ==
  IF e.kind = "Status" /\ e.code = "ResourceExhausted"
  THEN config.on_resource_exhausted
  ELSE config.on_unavailable

Failed(e) ==
  \/ e.kind \in {"Timeout", "Status"}
  \/ e.kind = "Response" /\ e.status \in {"UNAVAILABLE", "UNSPECIFIED", "UNKNOWN"}

Ranked(e) == e.kind = "Response" /\ e.status = "OK" /\ e.ranked # << >>

\* f32 `>=`.
AtLeast(a, b) == a \notin NaNs /\ b \notin NaNs /\ a >= b

\* A mapped cluster needs a best signal that is routed there and that the
\* operator's threshold accepts.
Earned(e, cluster) ==
  \E s \in BestSignals(e.ranked) :
    AtLeast(s.score, config.min_score) /\ config.routes[s.label] = cluster

\* The rows of the table.
Permitted(e, v) ==
  CASE Failed(e) /\ PostureFor(e) = "reject" -> v = Reject
    [] Ranked(e) -> \/ v # Reject /\ Earned(e, v)
                    \/ /\ v = config.default_cluster
                       /\ \E s \in BestSignals(e.ranked) :
                            Below(s.score, config.min_score) \/ config.routes[s.label] = None
    [] OTHER -> v = config.default_cluster

Init ==
  /\ config \in Configs
  /\ evidence = [r \in Requests |-> None]
  /\ verdict = [r \in Requests |-> None]

Decide(r) ==
  /\ verdict[r] = None
  /\ \E e \in Evidence, v \in Clusters \cup {Reject} :
       /\ Permitted(e, v)
       /\ evidence' = [evidence EXCEPT ![r] = e]
       /\ verdict' = [verdict EXCEPT ![r] = v]
  /\ UNCHANGED config

Next == \E r \in Requests : Decide(r)

Spec == Init /\ [][Next]_contractVars

\* Nobody waits for ever.
FairSpec == Spec /\ \A r \in Requests : WF_contractVars(Decide(r))

=============================================================================
