--------------------------- MODULE MCScenarioRun ---------------------------
(***************************************************************************)
(* ScenarioRun for TLC: every scenario at one or two levels, with the URLs *)
(* given rightly and wrongly, and what they lead to well and badly set up. *)
(***************************************************************************)
EXTENDS ScenarioRun, TLC

CONSTANTS
  simple, complex, other, small, large, general, v1, p1, p2,
  Measured    \* measured requests of an arm of B-6 and B-7

MCLabelToCluster == [l \in Labels |-> IF l = simple THEN small ELSE IF l = complex THEN large ELSE None]

Answer(label, score) ==
  [ kind |-> "Response", status |-> "OK", ranked |-> <<[label |-> label, score |-> score]>>,
    revision |-> v1 ]

Abstains == [kind |-> "Response", status |-> "ABSTAIN", ranked |-> << >>, revision |-> v1]

Confident == 2

\* No order is promised on the wire.
WorstFirst ==
  [ kind |-> "Response", status |-> "OK", revision |-> v1,
    ranked |-> << [label |-> simple, score |-> 1], [label |-> complex, score |-> Confident] >> ]

-----------------------------------------------------------------------------
(* Listeners.                                                              *)

MCFilter ==
  [ default_cluster |-> general, routes |-> MCLabelToCluster, min_score |-> Confident,
    on_unavailable |-> "default_cluster", on_resource_exhausted |-> "default_cluster",
    emit_headers |-> TRUE ]

Filtered(cfg, classifier) == [filter |-> TRUE, cfg |-> cfg, classifier |-> classifier, to |-> None]
Plain(cluster) == [filter |-> FALSE, cfg |-> MCFilter, classifier |-> "up", to |-> cluster]

Good == Filtered(MCFilter, "up")
Silent == Filtered([MCFilter EXCEPT !.emit_headers = FALSE], "up")
FailClosed == [MCFilter EXCEPT !.on_unavailable = "reject", !.on_resource_exhausted = "reject"]

\* The gateway's routes after somebody has edited them.
Drifted == Filtered([MCFilter EXCEPT !.routes = [@ EXCEPT ![complex] = small]], "up")
Wider == Filtered([MCFilter EXCEPT !.routes = [@ EXCEPT ![other] = large]], "up")
OtherDefault == Filtered([MCFilter EXCEPT !.default_cluster = small], "up")

Urls(given) == [u \in UrlNames |-> IF u \in DOMAIN given THEN given[u] ELSE None]

-----------------------------------------------------------------------------
(* Texts.  The anchor is "what is the capital of france".                  *)

Text(words, form) == [words |-> words, form |-> form]

AnchorText == Text(<<"what", "is", "the", "capital", "of", "france">>, "plain")

Candidates ==
  { Text(AnchorText.words, "curly"),
    Text(<<"what", "is", "the", "capital", "of", "spain">>, "plain"),
    Text(<<"please", "say", "what", "is", "the", "capital", "of", "france", "and", "of", "spain">>, "plain"),
    Text(<<"what", "is", "a", "pound">>, "plain"),
    Text(<<"prove", "the", "theorem", "by", "induction">>, "plain"),
    Text(<<"opaque">>, "plain"),
    Text(<< >>, "marks") }

Prompts(s, t) == << [id |-> p1, label |-> simple, text |-> s], [id |-> p2, label |-> complex, text |-> t] >>

CleanPrompts ==
  Prompts(Text(<<"what", "is", "a", "pound">>, "plain"),
          Text(<<"prove", "the", "theorem", "by", "induction">>, "plain"))

Anchored == [f \in AnchorFiles |-> IF f = "complexity" THEN {AnchorText} ELSE {}]

-----------------------------------------------------------------------------
(* Invocations.                                                            *)

Base ==
  [ scenario |-> "b1", urls |-> Urls([target |-> Good]), levels |-> <<1>>, warmup |-> 1,
    measured |-> 2, prompts |-> CleanPrompts, anchors |-> Anchored, per_class |-> 1,
    says |-> << >>, synthetic |-> Answer(complex, Confident), expect_status |-> {"OK"},
    models |-> [c \in Clusters |-> c], model_map |-> [c \in Clusters |-> c],
    general |-> general, small |-> small, large |-> large,
    echo |-> TRUE, result_cache |-> TRUE, reports_usage |-> TRUE, praxis_overhead |-> 1,
    allow_homelab |-> TRUE, forward |-> {4}, timeout_ms |-> 10, claims_cluster |-> TRUE, loopback |-> FALSE,
    metrics_url |-> TRUE, restarts |-> FALSE, max_faults |-> 1, max_strangers |-> 0 ]

Maybe(name, listeners) == {<< >>} \cup {name :> l : l \in listeners}

CacheCosts ==
  { [Base EXCEPT !.urls = Urls([target |-> t] @@ b), !.echo = e, !.result_cache = c, !.forward = {4, 7}] :
      t \in {Good, Silent}, b \in Maybe("baseline", {Plain(general), Good}), e \in BOOLEAN, c \in BOOLEAN }

Sweeps ==
  { [Base EXCEPT !.scenario = s, !.urls = Urls([target |-> t] @@ b),
                 !.levels = IF s = "b7" THEN <<1>> ELSE <<32, 64>>] :
      s \in {"b2", "b3", "b7"}, t \in {Good, Plain(general)},
      b \in Maybe("baseline", {Plain(general), Good, Silent}) }

SaysSomething ==
  [ {p1, p2} -> {Answer(simple, Confident), Answer(complex, Confident)} ]
  \cup
  { (p1 :> Answer(simple, Confident)) @@ (p2 :> x) :
      x \in {Answer(complex, 1), Answer(other, Confident), Abstains, WorstFirst} }

Routing ==
  { [Base EXCEPT !.scenario = "b4", !.urls = Urls([target |-> t]), !.says = s, !.expect_status = x,
                 !.model_map = m] :
      t \in {Good, Drifted, Wider, OtherDefault, Silent, Plain(small)}, s \in SaysSomething,
      x \in {{"OK"}, {"OK", "ABSTAIN"}, {"OK", "LOW_CONFIDENCE"}},
      m \in {[c \in Clusters |-> c], [c \in Clusters |-> None]} }

HeldOutSets ==
  { [Base EXCEPT !.scenario = "b4", !.prompts = Prompts(s, t), !.anchors = d] :
      s \in Candidates, t \in Candidates,
      d \in {Anchored, [f \in {"complexity"} |-> {AnchorText}]} }

EndToEnd ==
  { [Base EXCEPT !.scenario = "b5", !.urls = Urls([target |-> Good, large |-> l] @@ b), !.says = s,
                 !.levels = <<4, 1>>, !.allow_homelab = h] :
      l \in {Plain(large), Plain(small), Good}, b \in Maybe("small", {Plain(small)}),
      s \in SaysSomething, h \in BOOLEAN }

Degraded ==
  { [Base EXCEPT !.scenario = "b6", !.urls = Urls(x), !.levels = <<4, 1>>, !.measured = Measured] :
      x \in {<< >>}
        \cup {[down |-> Filtered(c, s)] : c \in {MCFilter, FailClosed}, s \in {"down", "slow", "up"}}
        \cup {[slow |-> Filtered(c, s)] : c \in {MCFilter, FailClosed}, s \in {"down", "slow"}}
        \cup {[exhausted |-> Filtered(c, s)] : c \in {MCFilter, FailClosed}, s \in {"full", "up"}}
        \cup {[reject |-> Filtered(c, s)] : c \in {MCFilter, FailClosed}, s \in {"full", "down"}} }

InCluster ==
  { [Base EXCEPT !.scenario = "b7c", !.urls = Urls([target |-> Good] @@ b), !.echo = FALSE, !.restarts = r,
                 !.metrics_url = u, !.loopback = ~u, !.max_strangers = 1] :
      b \in Maybe("baseline", {Plain(general), Good}), r \in BOOLEAN, u \in BOOLEAN }
  \cup
  { [Base EXCEPT !.scenario = "b7c", !.urls = Urls([target |-> Plain(general)]), !.echo = FALSE,
                 !.restarts = r, !.max_faults = 0, !.max_strangers = 3] : r \in BOOLEAN }

SelfTest ==
  { [Base EXCEPT !.scenario = "selftest", !.urls = Urls([target |-> Plain(small)]), !.levels = <<1, 4>>,
                 !.echo = e, !.max_faults = 2] : e \in BOOLEAN }

MCInvocations == CacheCosts \cup Sweeps \cup Routing \cup HeldOutSets \cup EndToEnd \cup Degraded \cup InCluster \cup SelfTest

=============================================================================
