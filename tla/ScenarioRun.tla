---------------------------- MODULE ScenarioRun ----------------------------
(***************************************************************************)
(* One invocation of bench/harness.py for one scenario, from its URLs to   *)
(* its exit code, against the deployment those URLs really lead to: Praxis *)
(* with or without the filter, a classifier in some state, stub upstreams. *)
(* BenchHarness has the threads of an arm; here its requests go one after  *)
(* another, and what happens to each of them is spelled out.               *)
(***************************************************************************)
EXTENDS Scenarios

CONSTANT
  Invocations   \* the invocations of this instance (see Scenarios); each
                \* bounds its faults, and the strangers it meets

\* A text has finitely many words.
ASSUME TextsAssumption ==
  \A inv \in Invocations :
    /\ \A i \in DOMAIN inv.prompts : IsFiniteSet(DOMAIN inv.prompts[i].text.words)
    /\ \A f \in DOMAIN inv.anchors : \A a \in inv.anchors[f] : IsFiniteSet(DOMAIN a.words)

UrlNames == {"target", "baseline", "large", "small", "down", "slow", "exhausted", "reject"}

\* The options of an invocation, and what its URLs lead to; None is none of the
\* values it is told from.
ASSUME InvocationsAssumption ==
  /\ \A inv \in Invocations :
       /\ inv.scenario \in {"b1", "b2", "b3", "b4", "b5", "b6", "b7", "b7c", "selftest"}
       /\ {inv.warmup, inv.measured} \subseteq Nat /\ inv.levels \in Seq(Nat)
       /\ inv.timeout_ms \in Nat \ {0} /\ inv.forward \subseteq Nat
       /\ inv.scenario # "b6" => inv.urls["target"] # None
       /\ \A u \in UrlNames : inv.urls[u] # None =>
            /\ inv.urls[u].filter \in BOOLEAN /\ inv.urls[u].cfg \in Config
            /\ inv.urls[u].filter \/ inv.urls[u].to \in Clusters
            /\ inv.urls[u].classifier \in {"up", "down", "slow", "full"}
       /\ DOMAIN inv.models = Clusters
       /\ Len(inv.prompts) \in Nat /\ DOMAIN inv.prompts = 1 .. Len(inv.prompts)
       /\ inv.synthetic \in Response
       /\ \A key \in DOMAIN inv.says : inv.says[key] \in Response
  /\ None \notin Outcome \cup DecisionRecord \cup StatusValues \cup {0, 200, 503}

\* The bench's table, and the classes B-4 and analyze_routing.py set apart; a
\* prompt set is not empty.
ASSUME MappingAssumption ==
  /\ \A inv \in Invocations, l \in Classes :
       DEFAULT_LABEL_TO_CLUSTER[l] = IF l \in Easy THEN inv.small ELSE inv.large
  /\ \A inv \in Invocations : inv.small # inv.large
  /\ MinPrompts \in Nat \ {0}

VARIABLES
  w,         \* the invocation
  plan,      \* the arms that module.arms(cfg) built
  k,         \* the arm that runs
  phase,     \* where run_arm, and then main, is
  warm,      \* result.warmup_records
  recs,      \* result.records
  results,   \* the arms that have been reduced
  gateway,   \* llm_d_sc_classify_total as Praxis exports it
  before,    \* the sample a setup callback took
  stats,     \* what the stub of the self-test has counted
  late,      \* requests given up by the client that the stub has yet to read
  faults, strangers, restarted,
  exit       \* exit code, None while it runs

request == <<warm, recs, gateway, stats, late>>
environment == <<faults, strangers, restarted>>
vars == <<w, plan, k, phase, request, results, before, environment, exit>>

arm == plan[k]

\* The headers the client of the self-test sends, as a filter would.
ECHO_HEADERS == [sc |-> "OK", label |-> "SELFTEST"]

-----------------------------------------------------------------------------
(* One request.                                                            *)

index == Cardinality(IF phase = "warmup" THEN warm ELSE recs)

MorePlanned == index < IF phase = "warmup" THEN arm.warmup ELSE arm.measured

\* meta.prompt_key: the id of a prompt, or key_for in the arm's own namespace.
Key ==
  CASE phase = "measured" /\ Ordered(w) # << >> -> Ordered(w)[index + 1].id
    [] w.scenario = "b5" /\ phase = "warmup" -> Ordered(w)[(index % Len(Ordered(w))) + 1].id
    [] arm.mode = "hit" -> <<"measure", arm.name, 0>>
    [] OTHER -> IF phase = "warmup" THEN <<"warm", index>> ELSE <<"measure", arm.name, index>>

\* What llm-d-sc says to the text; every synthetic prompt is alike to it.
Says == IF Key \in DOMAIN w.says THEN w.says[Key] ELSE w.synthetic

\* The classifier has the text in its result cache.
Hit ==
  /\ w.result_cache /\ arm.listener.classifier = "up"
  /\ \E r \in warm \cup recs : r.key = Key /\ r.decided = "OK"

\* How a classify call ends, in the state the classifier is in; unusual says
\* that a classifier which is up fails this once.
Outcomes(unusual) ==
  CASE arm.listener.classifier = "down" -> {GrpcStatus("Other")}
    [] arm.listener.classifier = "slow" -> {Timeout}
    [] arm.listener.classifier = "full" -> {Says, GrpcStatus("ResourceExhausted")}
    [] arm.listener.classifier = "up" ->
         IF unusual THEN {Timeout} ELSE {Says}

\* The time a request takes: the classify call's share of it is what counts.
Latencies(outcome) ==
  CASE outcome = None -> {1}
    [] outcome = Timeout -> {w.timeout_ms, 2 * w.timeout_ms}
    [] outcome = GrpcStatus("Other") -> {2, w.timeout_ms - 1}
    [] outcome = GrpcStatus("ResourceExhausted") -> {2}
    [] OTHER -> IF Hit THEN {2} ELSE w.forward

NoHeaders == [sc |-> None, label |-> None]

\* The x-llm-d-sc-* headers of the upstream request.
Sent(d) ==
  CASE w.scenario = "selftest" -> ECHO_HEADERS
    [] d # None /\ arm.listener.cfg.emit_headers -> [sc |-> d.status, label |-> d.label]
    [] OTHER -> NoHeaders

\* do_POST of the stub, with or without --echo-sc-headers.
Echoed(headers) == IF w.echo THEN headers ELSE NoHeaders

\* The record of a request the filter decided as d, or never saw if d is
\* None; `to` is where a listener without a filter sends it.
Answered(d, lat) ==
  LET route == IF d = None THEN arm.listener.to ELSE d.route
      served == route # Reject
      back == IF served THEN Echoed(Sent(d)) ELSE NoHeaders
  IN  [ i |-> index, key |-> Key, status |-> IF served THEN 200 ELSE 503,
        sc |-> back.sc, label |-> back.label,
        us |-> IF d = None \/ back.sc = None THEN None ELSE lat,
        model |-> IF served /\ route # None THEN w.models[route] ELSE None, lat |-> lat,
        decided |-> IF d = None THEN None ELSE d.status, route |-> route, hit |-> Hit ]

TransportError ==
  [ i |-> index, key |-> Key, status |-> None, sc |-> None, label |-> None, us |-> None,
    model |-> None, lat |-> w.timeout_ms, decided |-> None, route |-> None, hit |-> FALSE ]

Keep(record) ==
  IF phase = "warmup" THEN warm' = warm \cup {record} /\ UNCHANGED recs
                      ELSE recs' = recs \cup {record} /\ UNCHANGED warm

\* The filter counts every decision once, by its status.
Counted(d) ==
  IF d = None THEN gateway
  ELSE IF d.status = "OK" THEN [gateway EXCEPT !.OK = @ + 1]
  ELSE [gateway EXCEPT !.other = @ + 1]

\* A bug to catch: a request is counted when its answer has been sent.
BugCountAfterAnswer(entry) == stats' \in {stats, stats \cup {entry}}

\* Stats.record: do_POST counts a request before it delays and answers it.
record(entry) == stats' = stats \cup {entry}

Entry == [id |-> <<arm.name, phase, index>>, body |-> Key]

\* A request is sent, classified where a filter is on its way, and answered.
Request ==
  /\ phase \in {"warmup", "measured"} /\ MorePlanned
  /\ \E unusual \in BOOLEAN :
       /\ unusual => faults < w.max_faults /\ arm.listener.filter /\ arm.listener.classifier = "up"
       /\ \E o \in IF arm.listener.filter THEN Outcomes(unusual) ELSE {None} :
          \E lat \in Latencies(o) :
            LET d == IF o = None THEN None ELSE decide(arm.listener.cfg, o)
            IN  Keep(Answered(d, lat)) /\ gateway' = Counted(d)
       /\ faults' = IF unusual THEN faults + 1 ELSE faults
  /\ IF w.scenario = "selftest" THEN record(Entry) ELSE UNCHANGED stats
  /\ UNCHANGED <<w, plan, k, phase, results, before, late, strangers, restarted, exit>>

\* The client gives a request up.  It may have been classified, and the stub
\* may have read it, may read it later, or never.
RequestFails ==
  /\ phase \in {"warmup", "measured"} /\ MorePlanned
  /\ faults < w.max_faults /\ faults' = faults + 1
  /\ Keep(TransportError)
  /\ \/ UNCHANGED gateway
     \/ \E o \in Outcomes(FALSE) :
          arm.listener.filter /\ gateway' = Counted(decide(arm.listener.cfg, o))
  /\ \/ UNCHANGED <<stats, late>>
     \/ w.scenario = "selftest" /\ record(Entry) /\ UNCHANGED late
     \/ w.scenario = "selftest" /\ late' = late \cup {Entry} /\ UNCHANGED stats
  /\ UNCHANGED <<w, plan, k, phase, results, before, strangers, restarted, exit>>

-----------------------------------------------------------------------------
(* What happens beside the driver.                                         *)

\* The stub's thread gets to a request nobody waits for.
LateRequest ==
  /\ exit = None
  /\ \E e \in late : record(e) /\ late' = late \ {e}
  /\ UNCHANGED <<w, plan, k, phase, warm, recs, results, gateway, before, environment, exit>>

\* Somebody else's request passes the filter of the same gateway.
Stranger ==
  /\ exit = None /\ w.scenario = "b7c" /\ strangers < w.max_strangers
  /\ gateway' \in {[gateway EXCEPT !.OK = @ + 1], [gateway EXCEPT !.other = @ + 1]}
  /\ strangers' = strangers + 1
  /\ UNCHANGED <<w, plan, k, phase, warm, recs, stats, late, results, before, faults, restarted, exit>>

\* The gateway's process is replaced: its counters start from zero.
GatewayRestarts ==
  /\ exit = None /\ w.scenario = "b7c" /\ w.restarts /\ ~restarted
  /\ restarted' = TRUE
  /\ gateway' = [OK |-> 0, other |-> 0]
  /\ UNCHANGED <<w, plan, k, phase, warm, recs, stats, late, results, before, faults, strangers, exit>>

-----------------------------------------------------------------------------
(* The driver.                                                             *)

Init ==
  /\ w \in Invocations
  /\ plan = << >> /\ k = 1 /\ phase = "build"
  /\ warm = {} /\ recs = {} /\ results = << >>
  /\ gateway \in {[OK |-> 0, other |-> 0]} \cup
                 (IF w.scenario = "b7c" THEN {[OK |-> 2, other |-> 0]} ELSE {})
  /\ before = None
  /\ stats = {} /\ late = {}
  /\ faults = 0 /\ strangers = 0 /\ restarted = FALSE
  /\ exit = None

\* B-5 needs the operator's word that the real models may be used, B-4 a
\* clean prompt set, B-6 at least one case.
MayRun ==
  /\ w.scenario = "b5" => w.allow_homelab
  /\ w.scenario = "b4" => check_leakage(w.prompts, w.anchors, FALSE) = 0
  /\ w.scenario = "b6" => arms(w) # << >>

\* module.arms(cfg), or main is left with a code that is not 0.
Build ==
  /\ phase = "build"
  /\ IF MayRun THEN /\ plan' = arms(w)
                    /\ phase' = IF arms(w) = << >> THEN "report" ELSE "setup"
                    /\ UNCHANGED exit
               ELSE phase' = "ended" /\ exit' = 1 /\ UNCHANGED plan
  /\ UNCHANGED <<w, k, request, results, before, environment>>

\* b7c: the setup callback takes a sample if it was told where.
TakeSample == before' = IF w.scenario = "b7c" /\ w.metrics_url THEN gateway ELSE None

\* The self-test's setup callback: GET /__reset, and the stub forgets.
Reset == stats' = IF w.scenario = "selftest" THEN {} ELSE stats

\* arm.setup(ctx), then the warmup phase.
Setup ==
  /\ phase = "setup" /\ phase' = "warmup"
  /\ TakeSample /\ Reset
  /\ warm' = {} /\ recs' = {}
  /\ UNCHANGED <<w, plan, k, gateway, late, results, environment, exit>>

StartMeasured ==
  /\ phase = "warmup" /\ ~MorePlanned
  /\ phase' = "measured"
  /\ UNCHANGED <<w, plan, k, request, results, before, environment, exit>>

\* The assertions of the harness and those of the scenario.
Passed ==
  /\ harness_assertions(arm, recs, warm)
  /\ CASE w.scenario \in {"b1", "b2", "b3"} ->
            /\ overhead_assertions(arm, recs)
            /\ w.scenario = "b2" => size_assertion(arm)
            /\ w.scenario = "b3" => length_assertion(arm)
       [] w.scenario = "b4" -> b4_assertions(w, arm, recs, warm)
       [] w.scenario = "b5" -> b5_assertions(w, arm, recs)
       [] w.scenario = "b6" -> b6_assertions(w, arm, recs)
       [] w.scenario = "b7" -> tunnel_assertion(w) /\ overhead_assertions(arm, recs)
       [] w.scenario = "b7c" -> b7c_assertions(w, arm, recs, before, gateway)
       [] w.scenario = "selftest" -> selftest_assertions(arm, recs, stats, ECHO_HEADERS)

\* The window of the arm is closed and judged.
Judge ==
  /\ phase = "measured" /\ ~MorePlanned
  /\ results' = Append(results,
       [ arm |-> arm, warmup |-> warm, records |-> recs, passed |-> Passed, stats |-> stats,
         strangers |-> strangers, restarted |-> restarted ])
  /\ IF k = Len(plan) THEN phase' = "report" /\ UNCHANGED k
                      ELSE phase' = "setup" /\ k' = k + 1
  /\ UNCHANGED <<w, plan, request, before, environment, exit>>

cross_arm_assertions ==
  /\ w.scenario = "b1" => b1_cross_arm(results)
  /\ w.scenario = "b7c" => b7c_cross_arm(results)

\* main asserts across the arms and exits.
Report ==
  /\ phase = "report"
  /\ exit' = IF cross_arm_assertions /\ \A j \in DOMAIN results : results[j].passed THEN 0 ELSE 1
  /\ phase' = "ended"
  /\ UNCHANGED <<w, plan, k, request, results, before, environment>>

Next ==
  \/ Build \/ Setup \/ Request \/ RequestFails \/ StartMeasured \/ Judge \/ Report
  \/ LateRequest \/ Stranger \/ GatewayRestarts
  \/ phase = "ended" /\ UNCHANGED vars

Spec == Init /\ [][Next]_vars

-----------------------------------------------------------------------------
(* Properties.                                                             *)

Succeeded(scenario) == exit = 0 /\ w.scenario = scenario

Share(part, whole, percent) == 100 * Cardinality(part) <= percent * Cardinality(whole)

\* The class of each prompt of B-4 (meta.intended_label).
Meant ==
  [id \in heldout_ids(w) |-> w.prompts[CHOOSE i \in DOMAIN w.prompts : w.prompts[i].id = id].label]

\* Labels the gateway routes and the bench's table does not know.
Unlisted(cfg) == {l \in Labels : cfg.routes[l] # None /\ DEFAULT_LABEL_TO_CLUSTER[l] = None}

\* The classifier lists first the signal the filter takes for the best.
BestFirst ==
  \A id \in DOMAIN w.says :
    w.says[id].ranked # << >> => top_signal(w.says[id].ranked) = w.says[id].ranked[1]

\* B-4 counts clusters it never sees: it infers them from a header and from a
\* table of its own, which the gateway's routes may have left behind.  If it
\* exits 0, and its table names the model of every backend, each request went
\* where it says.  If every request had to be OK, analyze_routing.py, which
\* looks at the label alone, counts the same requests right, wasted and at
\* risk, unless the gateway routes a label that is not in the table; and
\* verify_classifier_parity.py, which takes the first signal, finds no label
\* the filter changed, if the first signal is the best.
AttributionIsTrue ==
  /\ Succeeded("b4")
  /\ \A c \in DOMAIN w.models : w.models[c] # None /\ w.model_map[w.models[c]] = c
  => \A j \in DOMAIN results :
       LET rs == results[j].records
           score == score_mapping(w, rs, Meant)
       IN  /\ \A r \in rs : cluster_of(w, r) = r.route
           /\ w.expect_status = {"OK"} /\ Unlisted(results[j].arm.listener.cfg) = {} =>
                /\ score.correct = routing_correct(w, rs, Meant)
                /\ [waste |-> score.waste, risk |-> score.risk] = misroutes(w, rs, Meant)
           /\ w.expect_status = {"OK"} /\ DOMAIN w.says = heldout_ids(w) /\ BestFirst =>
                parity_disagree(rs, w.says) = {}

\* B-6 looks at headers, statuses and two percentiles.  If it exits 0, every
\* request of a fail-open arm was served by the default cluster or was
\* classified; with the classifier down at most one in a hundred waited for
\* half the timeout, with a silent one at least half waited for most of it; and
\* of a fail-closed arm no request reached a backend (b6_degradation.py).
DegradedAsClaimed ==
  Succeeded("b6") =>
    \A j \in DOMAIN results :
      LET a == results[j].arm
          rs == results[j].records
          Waited(num, den) == {r \in rs : den * r.lat >= num * w.timeout_ms}
          FellBack(r) == r.decided # "OK" /\ r.route = a.listener.cfg.default_cluster
      IN  CASE a.case = "classifier-down" ->
                 (\A r \in rs : FellBack(r)) /\ Share(Waited(1, 2), rs, 1)
            [] a.case = "classifier-slow" ->
                 (\A r \in rs : FellBack(r)) /\ Share(rs \ Waited(8, 10), rs, 50)
            [] a.case = "queue-exhausted" ->
                 /\ \A r \in rs : r.decided = "OK" \/ FellBack(r)
                 /\ \E r \in rs : FellBack(r)
            [] a.case = "fail-closed" -> \A r \in rs : r.route = Reject

\* B-1, B-2, B-3 and B-7 publish the difference of two arms.  If one of them
\* exits 0, no request of a baseline arm met a filter that shows itself, every
\* other one was classified; and B-1's hit arm was mostly served from llm-d-sc's
\* cache, its miss arm never, whatever the URLs given led to.
ArmsDifferInTheFilter ==
  \A s \in {"b1", "b2", "b3", "b7"} : Succeeded(s) =>
    \A j \in DOMAIN results :
      LET a == results[j].arm
          rs == results[j].records
          hidden == a.listener.filter /\ ~a.listener.cfg.emit_headers
      IN  /\ a.case = "baseline" /\ ~hidden => \A r \in rs : r.decided = None
          /\ a.case # "baseline" => \A r \in rs : r.decided = "OK"
          /\ s = "b1" /\ a.mode = "hit" => Share({r \in rs : ~r.hit}, rs, 50)
          /\ a.mode = "miss" => \A r \in rs : ~r.hit

\* B-7 in the cluster has nothing but two samples of a counter that others
\* move as well and that a restart sets to zero; the self-test has a counter
\* that a request of an earlier arm may still reach.  An arm that passes was
\* what it claims all the same: see the two parts.
HopWasClassified(result) ==
  LET strange == result.strangers
  IN  CASE result.arm.case = "classified" ->
             (result.restarted => strange = 0) /\ strange < result.arm.warmup + result.arm.measured =>
               \A r \in result.records : r.decided = "OK"
        [] result.arm.case = "baseline" ->
             ~result.restarted => \A r \in result.records : r.decided = None

StubSawTheArm(result) ==
  LET a == result.arm
      Ids(ph, n) == {<<a.name, ph, i>> : i \in 0 .. n - 1}
      ids == {e.id : e \in result.stats}
  IN  /\ Ids("measured", a.measured) \subseteq ids
      /\ a.mode = "hit" => ids = Ids("warmup", a.warmup) \cup Ids("measured", a.measured)

\* An arm of B-7 that passes was classified, or not, to the last measured
\* request, unless strangers are as many as it or a restart hid them (b7c); an arm
\* of the self-test that passes had every measured request counted by the
\* stub, a hit arm nothing but its own (smoke_harness_selftest, stub_upstream).
CountersProveIt ==
  \A j \in DOMAIN results : results[j].passed =>
    /\ w.scenario = "b7c" => HopWasClassified(results[j])
    /\ w.scenario = "selftest" => StubSawTheArm(results[j])

\* B-4 sends no prompt the classifiers were built from: every anchor file was
\* read, no prompt is an anchor written differently, holds all the words of
\* one, or is one of four or more words with one word dropped, added or
\* exchanged; and no prompt counts twice (check_leakage.py, b4).
HeldOut ==
  w.scenario = "b4" /\ plan # << >> =>
    /\ AnchorFiles \subseteq DOMAIN w.anchors
    /\ ~internal_dupes(w.prompts)
    /\ \A i \in DOMAIN w.prompts, f \in AnchorFiles : \A a \in w.anchors[f] :
         LET p == full_tokens(w.prompts[i].text)
             t == full_tokens(a)
         IN  /\ normalize(w.prompts[i].text) # normalize(a)
             /\ t = {} \/ ~(t \subseteq p)
             /\ Cardinality(t \ p) <= 1 /\ Cardinality(p \ t) <= 1 => Cardinality(t) < 4

=============================================================================
