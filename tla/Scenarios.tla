----------------------------- MODULE Scenarios -----------------------------
(***************************************************************************)
(* bench/scenarios: the arms each scenario builds, and what it asserts of  *)
(* the records the load driver kept.  Constant level; ScenarioRun is the   *)
(* run around it.                                                          *)
(*                                                                         *)
(* An invocation w is [scenario, urls, levels, warmup, measured, ...]: the *)
(* command line, and the deployment its URLs lead to.  A record of one     *)
(* request is                                                              *)
(*   i, key        its index and its meta.prompt_key                       *)
(*   status        the HTTP status, None after a transport error           *)
(*   sc, label, us the x-llm-d-sc-{status,label,latency-us} headers that   *)
(*                 came back, or None                                      *)
(*   model, lat    the model field of the answer, and the time it took     *)
(* and, which no scenario can see,                                         *)
(*   decided       the status the filter gave it, None if no filter saw it *)
(*   route         the cluster it went to, Reject, or None                 *)
(*   hit           llm-d-sc answered it from its cache.                    *)
(***************************************************************************)
EXTENDS Decision, Leakage

CONSTANTS
  DEFAULT_LABEL_TO_CLUSTER,   \* [Labels -> Clusters \cup {None}]
  Easy,                       \* the classes meant for the small model
  LARGE_MODEL, SMALL_MODEL,
  BodyBytes,                  \* a chat body before padding
  FillerBytes                 \* what the key of the filler adds to it

-----------------------------------------------------------------------------
(* harness.py and _common.py: records and the checks scenarios share.      *)

ok_records(a, recs) == {r \in recs : r.status \in a.expected_status}

\* A bug to catch: the rank is rounded down.
BugRankDown(values, p) ==
  LET rank == (p * Cardinality(values)) \div 100
  IN  IF values = {} THEN 0
      ELSE CHOOSE v \in {e[2] : e \in values} :
             /\ Cardinality({e \in values : e[2] < v}) < (IF rank = 0 THEN 1 ELSE rank)
             /\ rank <= Cardinality({e \in values : e[2] <= v})

\* Nearest rank; values is a set of <<index, value>>.
percentile(values, p) ==
  LET rank == (p * Cardinality(values) + 99) \div 100
  IN  IF values = {} THEN 0
      ELSE CHOOSE v \in {e[2] : e \in values} :
             /\ Cardinality({e \in values : e[2] < v}) < rank
             /\ rank <= Cardinality({e \in values : e[2] <= v})

latency_ms(a, recs, p) == percentile({<<r.i, r.lat>> : r \in ok_records(a, recs)}, p)

\* The checks every arm gets, with no error allowed.
harness_assertions(a, recs, warm) ==
  /\ Cardinality(recs) = a.measured /\ ok_records(a, recs) = recs
  /\ Cardinality(warm) = a.warmup

\* A bug to catch: some classified request is enough.
BugSomeClassified(a, recs) == \E r \in ok_records(a, recs) : r.sc = "OK"

assert_classification_happened(a, recs) ==
  ok_records(a, recs) # {} /\ \A r \in ok_records(a, recs) : r.sc = "OK"

\* The stub's own count of the headers it was sent, or the headers themselves.
provenance_count(r) == Cardinality({h \in {r.sc, r.label} : h # None})

assert_no_classification(a, recs) == \A r \in ok_records(a, recs) : provenance_count(r) = 0

assert_cache_discipline(a, recs) ==
  Cardinality({r.key : r \in recs}) = IF a.mode = "hit" THEN 1 ELSE Cardinality(recs)

\* Bytes of a body padded to pad_to: the filler cannot shrink it.
chat_body(pad_to) ==
  IF pad_to <= BodyBytes THEN BodyBytes
  ELSE IF pad_to < BodyBytes + FillerBytes THEN BodyBytes + FillerBytes ELSE pad_to

\* Words of a prompt of about n tokens, its key counted as one.
sized_prompt(n) == (IF n > 5 THEN n - 4 ELSE 1) + 1

Distance(x, y) == IF x < y THEN y - x ELSE x - y

-----------------------------------------------------------------------------
(* The arms.                                                               *)

\* An arm whose URL was not given is left out.
Arm(w, case, url, mode) ==
  IF w.urls[url] = None THEN << >> ELSE <<[case |-> case, url |-> url, mode |-> mode]>>

CacheArms(w, case, url) == Arm(w, case, url, "miss") \o Arm(w, case, url, "hit")

b1_arms(w) == Arm(w, "baseline", "baseline", "n/a") \o CacheArms(w, "classified", "target")
b2_arms(w) == Arm(w, "baseline", "baseline", "n/a") \o Arm(w, "classified", "target", "miss")
b3_arms(w) == Arm(w, "classified", "target", "miss")
b4_arms(w) == Arm(w, "routing-heldout", "target", "n/a")

b5_arms(w) ==
  Arm(w, "always-large", "large", "n/a") \o Arm(w, "always-small", "small", "n/a")
    \o Arm(w, "classified", "target", "n/a")

b6_arms(w) ==
  Arm(w, "classifier-down", "down", "miss") \o Arm(w, "classifier-slow", "slow", "miss")
    \o Arm(w, "queue-exhausted", "exhausted", "miss") \o Arm(w, "fail-closed", "reject", "miss")

b7_arms(w) == CacheArms(w, "clusterip", "target")

b7c_arms(w) ==
  Arm(w, "baseline", "baseline", "miss") \o Arm(w, "classified", "target", "miss")
    \o Arm(w, "baseline", "baseline", "hit") \o Arm(w, "classified", "target", "hit")

selftest_arms(w) == CacheArms(w, "selftest", "target")

\* load_scenario: the module a name stands for.
ScenarioArms(w) ==
  CASE w.scenario = "b1" -> b1_arms(w)
    [] w.scenario = "b2" -> b2_arms(w)
    [] w.scenario = "b3" -> b3_arms(w)
    [] w.scenario = "b4" -> b4_arms(w)
    [] w.scenario = "b5" -> b5_arms(w)
    [] w.scenario = "b6" -> b6_arms(w)
    [] w.scenario = "b7" -> b7_arms(w)
    [] w.scenario = "b7c" -> b7c_arms(w)
    [] w.scenario = "selftest" -> selftest_arms(w)

\* b5: the first per_class prompts of each class.
subset(prompts, per_class) ==
  LET Rank(p) == Cardinality({i \in DOMAIN prompts :
                   /\ prompts[i].label = p.label
                   /\ i <= CHOOSE j \in DOMAIN prompts : prompts[j].id = p.id})
      Kept(p) == Rank(p) <= per_class
  IN  SelectSeq(prompts, Kept)

\* The prompts an invocation measures, in order; none for synthetic ones.
Ordered(w) ==
  CASE w.scenario = "b4" -> w.prompts
    [] w.scenario = "b5" -> subset(w.prompts, w.per_class)
    [] OTHER -> << >>

\* The levels an invocation sweeps: concurrencies, body sizes or prompt lengths.
\* b4 and b6 take the first concurrency they are given or 1, b5 always takes 1.
levels(w) ==
  IF w.scenario = "b5" \/ (w.scenario \in {"b4", "b6"} /\ w.levels = << >>) THEN <<1>>
  ELSE IF w.scenario \in {"b4", "b6"} THEN <<w.levels[1]>> ELSE w.levels

\* The arms of every level.
arms(w) ==
  LET given == ScenarioArms(w)
  IN  [n \in 1 .. Len(levels(w)) * Len(given) |->
        LET x == given[((n - 1) % Len(given)) + 1]
            level == levels(w)[((n - 1) \div Len(given)) + 1]
        IN  [ name |-> <<x.case, x.mode, level>>, case |-> x.case, mode |-> x.mode,
              level |-> level, listener |-> w.urls[x.url], warmup |-> w.warmup,
              measured |-> IF Ordered(w) = << >> THEN w.measured ELSE Len(Ordered(w)),
              expected_status |-> IF x.case = "fail-closed" THEN {503} ELSE {200} ]]

-----------------------------------------------------------------------------
(* What each scenario asserts of an arm.                                   *)

\* b2: every body is within two percent of the size of its arm.
size_assertion(a) == 100 * Distance(chat_body(a.level), a.level) <= 2 * a.level

\* b3: within four words, or five percent, of the length of its arm.
length_assertion(a) ==
  LET off == Distance(sized_prompt(a.level), a.level) IN off <= 4 \/ 100 * off <= 5 * a.level

\* b1, b2, b3 and b7, by the case of the arm.
overhead_assertions(a, recs) ==
  IF a.case = "baseline" THEN assert_no_classification(a, recs)
  ELSE assert_classification_happened(a, recs) /\ assert_cache_discipline(a, recs)

\* The cluster the bench takes a label, and a model, to stand for.
HeaderCluster(r) == IF r.label = None THEN None ELSE DEFAULT_LABEL_TO_CLUSTER[r.label]
ModelCluster(w, r) == IF r.model = None THEN None ELSE w.model_map[r.model]

\* A bug to catch: the model a request was answered by is not looked at.
BugHeadersOnly(w, recs) == {}

\* observed_clusters: the records whose two sources name two clusters.
disagreements(w, recs) ==
  {r \in recs : /\ HeaderCluster(r) # None /\ ModelCluster(w, r) # None
                /\ HeaderCluster(r) # ModelCluster(w, r)}

\* b4: the label first, then the model; another status than OK means general.
cluster_of(w, r) ==
  IF HeaderCluster(r) # None THEN HeaderCluster(r)
  ELSE IF ModelCluster(w, r) # None THEN ModelCluster(w, r)
  ELSE IF r.sc \notin {None, "OK"} THEN w.general ELSE None

heldout_ids(w) == {w.prompts[i].id : i \in DOMAIN w.prompts}

b4_assertions(w, a, recs, warm) ==
  LET ok == ok_records(a, recs)
  IN  /\ ok # {} /\ \A r \in ok : r.sc \in w.expect_status
      /\ disagreements(w, ok) = {}
      /\ \A r \in ok : cluster_of(w, r) # None
      /\ \A r \in warm : r.key \notin heldout_ids(w)
      /\ heldout_ids(w) \subseteq {r.key : r \in ok}

\* b5: the parts are compared with the total they were subtracted from.
decomposition_assertion(w, a, recs) ==
  LET us == {<<r.i, r.us>> : r \in {r \in ok_records(a, recs) : r.us # None}}
      total == latency_ms(a, recs, 50)
      remainder == total - w.praxis_overhead - percentile(us, 50)
  IN  /\ us # {} /\ w.praxis_overhead # None
      /\ 20 * Distance(total, w.praxis_overhead + percentile(us, 50) + remainder) <= total

b5_assertions(w, a, recs) ==
  LET ok == ok_records(a, recs)
      models == {r.model : r \in ok}
  IN  /\ ok # {} /\ w.reports_usage
      /\ a.case = "always-large" => models = {LARGE_MODEL}
      /\ a.case = "always-small" => models = {SMALL_MODEL}
      /\ a.case = "classified" => /\ \A r \in ok : r.sc = "OK"
                                  /\ {LARGE_MODEL, SMALL_MODEL} \subseteq models
                                  /\ decomposition_assertion(w, a, recs)

\* b6: the request was answered, and says why it was not classified.
all_ok(recs) == recs # {} /\ \A r \in recs : r.status = 200

routed_to_default(a, recs, expected) ==
  ok_records(a, recs) # {} /\ \A r \in ok_records(a, recs) : r.sc \in expected

b6_assertions(w, a, recs) ==
  LET t == w.timeout_ms
      p(q) == latency_ms(a, recs, q)
  IN  CASE a.case = "classifier-down" ->
             /\ all_ok(recs) /\ routed_to_default(a, recs, {"UNAVAILABLE", "ERROR"})
             /\ 2 * p(99) < t
        [] a.case = "classifier-slow" ->
             /\ all_ok(recs) /\ routed_to_default(a, recs, {"TIMEOUT"})
             /\ 10 * p(50) >= 8 * t /\ 2 * p(99) <= 3 * t
        [] a.case = "queue-exhausted" ->
             all_ok(recs) /\ \E r \in ok_records(a, recs) : r.sc = "RESOURCE_EXHAUSTED"
        [] a.case = "fail-closed" ->
             recs # {} /\ \A r \in recs : r.status = 503

\* b7 and b7c: a port-forward is on the loopback interface.
tunnel_assertion(w) == ~(w.claims_cluster /\ w.loopback)

\* _praxis_metrics: a sample of llm_d_sc_classify_total, OK told from the rest.
classify_total(sample) == sample.OK + sample.other

\* What the counter moved by between the samples before and after an arm.
observed(before, after) ==
  [ total |-> classify_total(after) - classify_total(before), OK |-> after.OK - before.OK ]

\* A bug to catch: decisions are counted, not how they ended.
BugTotalOnly(w, a, recs, before, after) ==
  /\ tunnel_assertion(w) /\ assert_cache_discipline(a, recs) /\ w.metrics_url
  /\ observed(before, after).total = IF a.case = "classified" THEN a.warmup + a.measured ELSE 0

\* b7c: the counter moved by every request of a classified arm, each OK, and
\* by none of a baseline arm.
b7c_assertions(w, a, recs, before, after) ==
  LET expected == a.warmup + a.measured
      obs == observed(before, after)
  IN  /\ tunnel_assertion(w) /\ assert_cache_discipline(a, recs) /\ w.metrics_url
      /\ a.case = "classified" => obs.total = expected /\ obs.OK = expected
      /\ a.case = "baseline" => obs.total = 0

\* The self-test; stats is what the stub counted since its reset, a set of
\* [id, body], and sent the headers the client put on its requests.
selftest_assertions(a, recs, stats, sent) ==
  LET ok == ok_records(a, recs)
      expected == a.warmup + a.measured
  IN  /\ assert_cache_discipline(a, recs)
      /\ Cardinality(stats) = expected
      /\ Cardinality({s.body : s \in stats}) = IF a.mode = "hit" THEN 1 ELSE expected
      /\ ok # {} /\ \A r \in ok : r.sc = sent.sc /\ r.label = sent.label
      /\ Cardinality({r.model : r \in ok}) = 1 /\ \A r \in ok : r.model # None

-----------------------------------------------------------------------------
(* What a scenario asserts across its arms, results being a sequence of    *)
(* [arm, records, ...].                                                    *)

ResultsOf(results, case, mode, level) ==
  {k \in DOMAIN results : results[k].arm.name = <<case, mode, level>>}

p50(result) == latency_ms(result.arm, result.records, 50)

b1_cross_arm(results) ==
  \A k \in DOMAIN results : results[k].arm.case = "classified" =>
    LET Same(case, mode) == ResultsOf(results, case, mode, results[k].arm.level)
    IN  /\ results[k].arm.mode = "hit" =>
             \E j \in Same("classified", "miss") :
               p50(results[j]) > 0 /\ 2 * p50(results[k]) <= p50(results[j])
        /\ results[k].arm.mode = "miss" => Same("baseline", "n/a") # {}

b7c_cross_arm(results) ==
  \A j, k \in DOMAIN results :
    /\ results[k].arm.case = "classified"
    /\ results[j].arm.name = <<"baseline", results[k].arm.mode, results[k].arm.level>>
    => p50(results[k]) > p50(results[j])

-----------------------------------------------------------------------------
(* What is computed from the records of B-4 after the run.                 *)

\* _summarize; meant is the class a prompt is labelled with.
routing_correct(w, recs, meant) ==
  {r \in recs : cluster_of(w, r) = DEFAULT_LABEL_TO_CLUSTER[meant[r.key]]}

misroutes(w, recs, meant) ==
  [ waste |-> {r \in recs : meant[r.key] \in Easy /\ cluster_of(w, r) = w.large},
    risk |-> {r \in recs : meant[r.key] \notin Easy /\ cluster_of(w, r) = w.small} ]

\* analyze_routing.py reads the label alone, and takes its absence for general.
cluster_for(w, r) == IF HeaderCluster(r) = None THEN w.general ELSE HeaderCluster(r)

\* score_mapping under DEPLOYED: right, wasted and at risk, by intended cluster.
score_mapping(w, recs, meant) ==
  LET Want(r) == DEFAULT_LABEL_TO_CLUSTER[meant[r.key]]
  IN  [ correct |-> {r \in recs : cluster_for(w, r) = Want(r)},
        waste |-> {r \in recs : Want(r) = w.small /\ cluster_for(w, r) = w.large},
        risk |-> {r \in recs : Want(r) = w.large /\ cluster_for(w, r) = w.small} ]

\* CHECK 1 of verify_classifier_parity.py: the records whose label is not the
\* one the classifier gives when it is asked without the filter.
parity_disagree(recs, straight) ==
  {r \in recs : r.label # IF straight[r.key].ranked = << >> THEN None
                          ELSE straight[r.key].ranked[1].label}

=============================================================================
