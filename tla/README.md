# llm-d-sc-praxis-filter in TLA+

The repository holds `llm_d_sc`, an HTTP filter for the Praxis proxy (Rust,
`src/`). It asks an llm-d-sc classifier over gRPC how hard a chat prompt is and
routes the request to a cluster accordingly. Around it are a benchmark suite
(`bench/`), a demo (`demo/`) and scripts that deploy it to a cluster and take it
away again (`hack/`, `deploy/`). This directory models that code in TLA+, checks
the models with TLC on small instances, and proves with TLAPS, for every instance, the
safety properties of the filter and of most of the programs around it.

    tlc -config Filter.cfg MCLlmDScFilter          # one run
    tlapm LlmDScFilterProofs.tla                   # the proofs of one module

`PROJECT.json` is the index: it maps every definition to the lines it
translates, and lists runs, theorems, findings and hazards. Paths below are
relative to the repository.

Contents: 1 the system · 2 modules · 3 runs · 4 bounds · 5 fairness · 6 proofs ·
7 what disagrees with the documents · 8 what is not modelled · 9 plan.

## 1. The system

| Component | State | Operations | Hard part | Correct when |
| --- | --- | --- | --- | --- |
| Filter, decision table (`filter.rs: decide, top_signal, fallback`) | none | response or error to route, status, label, score | NaN and equal scores; a posture per failure | every outcome takes the row SPEC 4.6 gives it |
| Filter, request flow (`filter.rs: on_request, apply`; `client.rs`; `metrics.rs`) | lazily built channel, request counter, metrics, one context per request | `on_request`, classify under a timeout, `apply` | concurrent requests over one connection and one counter; the service may be full, slow, crash or answer late | each request is decided once, by its own outcome; metrics count exactly that; ids differ; client-supplied provenance never survives |
| Filter, configuration (`config.rs`) | none | `validate` | routes that shadow one another after trimming and case folding | what is accepted can be routed with |
| Filter, prompt extraction (`prompt.rs`) | none | `extract_prompt`, `truncate_chars` | blank parts, last user turn, cuts between characters | the classifier sees the last user text, never a blank one |
| Load driver (`bench/harness.py`) | phase, shared index, records, connections, exit code | warm-up, measured phase, assertions | threads over one index; warm-up against measurement; failing callbacks | a passed arm has measured what it says |
| B-5R (`bench/b5r_isolated.py`) | checkpoint file, counters of a shared backend | gate, snapshot, request, snapshot, reconcile, append | another tenant between the snapshots; stop and restart | "isolated" means alone |
| B-5 in the cluster (`b5c_end_to_end_incluster.py`, `_praxis_metrics.py`) | counters before and after each arm | probe and three arms | a shared gateway, backends and result cache, each of which may restart | a passed arm was not contended and was classified |
| Affinity (`bench/affinity/`) | append-only JSONL files joined on read | generate, judge, control, redo, matrix | stop and resume at any record; redo out of order with the judges | a row reports what was judged |
| B-1, B-2, B-3, B-7 (`bench/scenarios/`) | none of their own; each builds arms from URLs and levels | build, assert, compare arms | URLs that lead to another deployment than the operator thinks; a cache that never engaged | arms differ in the filter and in nothing else |
| B-4 and its analysis (`b4_routing_correctness.py`, `analyze_routing.py`, `verify_classifier_parity.py`) | prompt set, table of labels and clusters | attribute a request to a cluster, count misroutes | the cluster is inferred, from a header and a table of the bench's own | what is counted is where the requests went |
| Leakage check (`bench/prompts/check_leakage.py`) | none | compare each prompt with each anchor | four scores over sets of words, each with its limit | no prompt is an anchor in other words |
| B-5 local (`b5_end_to_end.py`) | none | three arms, decomposition | real models behind URLs | models are the ones named; both are used |
| B-6 (`b6_degradation.py`) | none | an arm per failure of the classifier | listeners set up for another case; percentiles for claims on all | degraded as claimed |
| B-7 in the cluster (`b7c_topology_incluster.py`) | a counter sample before each arm | sample, arm, sample | strangers, a restart of the gateway | the hop that was timed was classified, or not, as said |
| Stub and self-test (`stub_upstream.py`, `smoke_harness_selftest.py`) | counters behind a lock | answer, `/__stats`, `/__reset` | late requests of the previous arm | the counts are what was sent |
| Report (`bench/report.py`) | `results/*.json`, the page | load, choose the latest per spec, print | files written, replaced and broken off while it reads | each chapter is of the latest run of its spec |
| Local bench (`run-local-bench.sh`) | listed pids, failure count | start, wait, sanity check, scenarios, cleanup | a signal between any two lines; a process of an earlier run on a port | exit 0 means that everything ran; nothing is left running |
| Demo (`demo/run-demo.sh`) | children, results of the checks | start, wait, prove, stop the classifier, prove, clean up | processes that die; Ctrl-C | PASS means it was proved |
| Cluster scripts (`hack/*.sh`) | namespace, live ConfigMap, deployments, the baseline file | deploy, verification rungs, restore, tear down, compare | a failing call or a signal inside the fail-open rung | the cluster is never left with the dead endpoint; a clean verdict is true |

How they meet: the client's request reaches Praxis, which calls `on_request`;
the filter calls llm-d-sc and leaves a cluster, headers and metadata in the
request's context, and counters in the process' registry. The load driver
sends such requests and reads headers, the gateway's `/metrics` and the
backends' `/metrics`; it writes a JSON that the report reads. The shell scripts
start and stop all of these and speak to them by ports, signals and `oc`.

Which state is shared: within the gateway the channel (a `OnceLock`), the
request counter (an atomic) and the metrics; within the harness the index and
the record list of a phase; between programs the result cache of llm-d-sc, the
backends' counters, the files under `bench/results/`, and the live ConfigMap.

## 2. Modules

### The filter

* `Decision` - `decide`, `top_signal`, `metric_label` as operators, with the types
  of configurations, responses and outcomes. A score is an integer; `NaNs` is the
  set of scores that stand for NaN, which `f32::total_cmp` ranks above all others.
* `LlmDScFilter` - requests in `on_request`, the classify channel, the HTTP/2
  connection, and llm-d-sc with its bounded queue. `on_request` has one await, so
  what runs before it (`OnRequestSkip`, `OnRequestClassify`) and what runs
  after it (`Resume`) are one action each. `take_request_id` wraps at
  `CounterModulus`. The service is external and does what the filter has to expect of
  it: refuse the connection, reject a call for a full queue, answer anything in
  `Answers`, not answer, crash with calls in flight, come back.
* `RoutingContract` - what a user is promised: each request is decided in one
  step, by the table of SPEC 4.6 and by one outcome the service may have had, and
  never again. The table is stated there as a relation, not by calling `decide`.
* `LlmDScFilterRefinement` - the mapping under which the filter implements it
  (the pending requests are those that are not done; the context is the result).
* `FilterConfig`, `PromptExtraction` - `from_config` with `validate`, and
  `extract_prompt` with `truncate_chars`, as functions over abstract characters
  and parts. They have no state.
* `FilterFunctions` - a machine that evaluates `decide`, `extract_prompt` and
  `from_config` on every input of an instance and compares each result with a
  reference definition.

### The benchmark

* `BenchHarness` - `run_arm` and `_drive_phase`: worker threads take indices under
  the lock, connect before they time, send, record, replace a broken connection. A fault of
  any kind in `Faults` may happen at its place. Assertions, exit code and
  the keys of the result cache are as in the code.
* `Leakage` - `check_leakage.py`: normalisation, tokens, the four scores with their limits, the
  schema of a prompt set, exit codes. A text is a sequence of words and a form; words
  outside ASCII, which the tokenizer does not see, are the set `Opaque`.
* `Scenarios` - constant level: the arms of each of nine scenarios, their assertions within an arm
  and across arms, and what B-4's summary and the two analysis scripts compute from its
  records. It uses `Decision` and `Leakage`. A record keeps what the scenario sees (status, headers,
  model, latency) apart from what happened (`decided`, `route`, `hit`).
* `ScenarioRun` - one invocation of the harness for a scenario: build, set-up callback, warm-up,
  measured phase, judging, report and exit code, against the deployment its URLs really lead to. It
  decides each request with `decide` of the filter's own module. Beside the driver: the stub's late
  thread, strangers at the gateway, a restart of it.
* `B5rIsolation` - the loop of `b5r_isolated.py` against a backend that other
  tenants use and that may restart: gate, snapshot, request, snapshot, reconcile, append to the
  checkpoint; a stop at any point and a start from what the checkpoint holds.
* `IsolatedCampaign` - what an arm of it promises to the reader of its file, with no backend in sight: a log of
  attempts that grows in turn and in budget, calls none isolated that was not alone (but for a restart), survives stops, and ends in a verdict
  that is true of the log.
* `B5rIsolationRefinement` - the mapping under which the loop implements it (the log is the file; whether an attempt
  was alone is known to the model and not to the script).
* `B5cArms` - the probe and the three arms on shared backends, with a stranger
  at the same gateway; the differences of counters that each arm is judged by. A fault is a failed
  call or a restart of a backend or of the gateway, which starts its counters from 0.
* `Affinity` - the append-only files and the joins over them; slices, stops
  and `redo_truncated.py`, given any prompts, in any order.
* `Publish` - harness runs that write, replace or break off their JSON while
  `report.py` globs, loads file by file, chooses the latest of each spec and writes the page.

### Scripts

* `LocalBench`, `RunDemo` - each is a sequence of steps (`program`, `Program`),
  signals between any two, children that start late, hang or die, and
  the handler exactly as the trap lines install it. In `LocalBench` a process that an earlier run left
  behind (`leftovers`) answers `nc -z` in the place of the script's own.
* `DeployCluster` - the steps of `deploy-cluster.sh`: the baseline, the manifests, the rungs that
  change the live configuration, the comparison; with calls that fail and interrupts.
* `Teardown` - extends it with `teardown-cluster.sh` and states the specification of both: they run
  one after the other, in any order, on a namespace that takes its time to go.

Every component that is checked has an `MC...` module with its instance, and what is proved of it is in
a `...Proofs` module that extends it or, where two programs share a module, instantiates it (section 6). An operator whose name
begins with `Bug` is the definition after it
with a plausible mistake; no action uses it. Substituted for the correct
definition it makes the named property fail (`mutants` in `PROJECT.json`): that
is how each property is known to say something about the code.

State and actions correspond to the code by name wherever TLA+ allows it; where
the code has none, the comment over the definition names the lines. The filter has a
type invariant in its run; in the other modules the comments on the variables give the types, and
the proofs state and prove them (`TypeOK` or `Shape` of each `...Proofs` module).

## 3. Runs

| Run (cfg) | What it asks |
| --- | --- |
| filter (Filter) | Two requests of every kind under three postures. Is every variable in its type (`TypeOK`); are the metrics equal to the count of what happened (`MetricsAccount`); do forged provenance headers disappear on every path (`NoForgedProvenance`); is the number of metric series bounded whatever labels the classifier invents (`SeriesBounded`); are generated ids distinct (`GeneratedIdsDistinct`); is there one connection per life of the service (`OneConnection`); is a decision final (`DecidedOnce`); does the filter implement `RoutingContract` (`ImplementsContract`); is every request answered although nothing at all is assumed of the classifier (`EveryRequestAnswered`)? |
| filter_functions (FilterFunctions) | Every input of a small instance. Does `decide` take the row of SPEC 4.6 (`TableHolds`, unless the best score is NaN) and does the record it leaves explain the route, NaN winning every comparison (`RecordExplainsRoute`); is what is classified a prefix of the prompt, cut between characters and never blank (`ContextIsThePrompt`), and does the last user turn decide which prompt (`LastUserTurnDecides`); do the tables built from an accepted configuration say what it says (`TablesMatchTheConfig`)? |
| harness (Harness) | Two arms of cache misses with two threads, every fault, over a cache that an earlier run has warmed. Is each index drawn once (`EachIndexOnce`); does a pass mean that every request is there and within the error budget (`PassedMeansComplete`); does each measured request of a miss arm miss (`MissesMiss`); does a run end whatever fails (`RunEnds`)? |
| scenarios (Scenarios) | Nine scenarios, each against deployments set up rightly and wrongly, with faults, strangers, a restart and late requests. Does B-4 attribute each request to the cluster it went to, and do the analysis scripts count the same as long as the bench's table has every label the gateway routes and the classifier lists its best signal first (`AttributionIsTrue`; an instance has a gateway with a wider table, and an answer with the worst signal first); did a classifier that was down, slow or full do to the requests what B-6 claims (`DegradedAsClaimed`); do the arms whose difference B-1, B-2, B-3 and B-7 publish differ in the filter, the cache mode being what it says (`ArmsDifferInTheFilter`); is what a counter or the stub proves of an arm true of it (`CountersProveIt`); does B-4 send only prompts that are no anchor in other words (`HeldOut`)? |
| b5r (B5rIsolation) | Does "isolated" mean alone on the backend (`IsolatedMeansAlone`, in windows without a restart of the backend); are attempts numbered in order and the budgets kept over stops and starts (`AttemptsInOrder`); does the loop implement `IsolatedCampaign`, its verdict among it, and come to that verdict on a backend that may be busy for ever (`ImplementsCampaign`)? |
| b5c (B5c) | Is an arm that passes uncontended (`PassedMeansUncontended`, on the backends that did not restart in it) and classified as it says (`PassedMeansClassified`, unless the gateway restarted in it); does no arm find another's prompts in the result cache (`ArmsDoNotFeedEachOther`)? |
| affinity (Affinity) | Under stops, slices and a redo: is nothing done twice and nothing left out (`WorkDoneOnce`); does a row credit each model with what its own answer deserved (`RowsCreditTheRightModel`); does the position control show the same answers in the opposite order (`ControlsSwapThePrimary`)? |
| demo (Demo) | Does exit code 0 mean that every check was made and passed against live processes (`PassMeansProved`); what is torn down (`EverythingTornDown`); does it end (`DemoEnds`)? |
| deploy (Deploy) | Is the dead endpoint of the fail-open rung always taken back from the live configuration when the script ends, unless the call that would do so fails and is ignored (`NeverLeftDead`)? Does a clean verdict of the teardown mean that nothing outside the namespace has changed since it was created, over several deploys, and that it is gone (`CleanMeansUndone`)? |
| local (Local) | Does exit code 0 mean that every scenario has run to its end (`ExitZeroMeansAllRan`); without signals, does it end and leave nothing running (`BenchEnds`)? |
| publish (Publish) | Is a run whose JSON was on file all the while the report read it shown, or replaced by a later one of its spec, and is no chapter interpreted from a run that a failed one has superseded (`PageIsLatest`)? |
| affinity_ties (AffinityTies) | Expects a violation: does a judge without position bias never flip? |

In the run that expects a violation the property is a sentence of a document,
and the trace shows the program doing otherwise (section 7).

## 4. Bounds

Bounds are constants named `Max...` or the size of a set, and every one is in a
guard of an external event or is the size of the instance, never of the program's
own steps.

* **Requests** 2. Requests interact through the channel, the counter, the queue and
  the connection; two are enough for each pair of interactions.
  `CounterModulus` 2 is the number of requests, so that the counter wraps. The
  proofs are for any number.
* **QueueCapacity** 1: full with one request, which two requests tell apart from empty.
* **Labels** 3, **clusters** 3, **scores** 3: a mapped label for each of two clusters, one unmapped
  label; a score below, at and above `min_score`. In FilterFunctions the
  third score stands for NaN.
* **Characters** 4 of different widths, two of them space; bodies of up to two turns: a cut before, at
  and after a character of several bytes.
* **MaxCrashes** 1: before or after the connection is established, or with a call in flight.
* **Workers** 2, the arms' `measured` 2 and 1, **Warmup** 1, **AllowErrors** 1: threads compete for the
  first arm's indices; one error is inside the budget and two are not.
* **Invocations** (Scenarios): for each scenario, URLs that lead to the deployment it expects and to the
  ones it must tell from it (without a filter, with another configuration, with headers hidden, with the classifier in another state,
  not given). One or two levels; `measured` is 2, or the three of **Measured** in B-6, so that the median differs
  from the 99th percentile; `max_faults` 1 (2 in the self-test, one for each arm that a late request can
  come from); `max_strangers` 1, and 3 where they are to be as many as the requests of an arm; one restart. Latencies are in tenths of a
  timeout. The six texts of `Candidates` are the anchor in other quotes, with a word exchanged, with words
  added, two that have nothing to do with it, and one the tokenizer does not see.
* **Runs/teardowns** 2/2, **MaxChanges** 1 (Deploy): a deploy after a teardown, and a second deploy on a
  cluster where something outside has changed since the first.
* **Target/MaxAttempts** 1/2 (B-5R): an arm can fill and can exhaust its budget; **Foreign**
  generations at and just above each tolerance, at most **MaxForeign** 2: one before and one in the window.
* **Ours/Foreign** of B-5C: with 30 tokens a request, one foreign token is within the tolerance of a
  window and two are not; a foreign generation has one, and there are **MaxForeign** 2 of them.
  **MaxFaults** 1 counts failed calls and restarts together.
* **Prompts** of the affinity experiment 2, shown in different orders; the subsample of a slice is the one
  that comes first by name, so that a slice and the whole set have different ones;
  **MaxStops** 1 and **MaxRedos** 1: a stage that is resumed, or a redo that is itself stopped.
  **Redoable** is the prompt that is a control and whose order the redo draws differently.
* **Leftovers** 3 (`LocalBench`): one of the stubs, the classifier and the gateway.
* **Signals and interrupts** up to 2: one that starts a handler and one inside it.
* **MaxReports** 1 and 4 runs (`Publish`): two specs, three runs of one of them, two on one path.
* **Deaths, faults, lost calls, strangers, restarts** 1 each: every property is about one
  failure and what follows.

`CHECK_DEADLOCK FALSE` is in the configurations of programs that end: scripts
and finite runs. `LlmDScFilter`, `BenchHarness`, `Affinity` and `ScenarioRun` never stop
or say in `Next` how they end (a stuttering disjunct), and deadlock is checked.

## 5. Fairness

Weak fairness only, and only for steps of the program under study and of its runtime.

* `LlmDScFilter`: the two halves of `on_request` and the timer. Tokio polls a task
  that is ready, and `tokio::time::timeout` fires. **Nothing** is assumed of the service or the
  connection: `EveryRequestAnswered` rests on the timeout alone.
* `RoutingContract`: each request is eventually decided - implied by the above.
* `BenchHarness`: each worker thread and the driver. Every request has a socket timeout.
* `B5rIsolation`: each step of the loop, the gate among them: the code waits at the gate for a bounded
  time and goes on. Nothing is assumed of other tenants. Weak fairness is
  on the program's steps while it runs; a stopped script owes nothing until it is started.
* `IsolatedCampaign`: an arm that is not stopped makes its attempts and concludes - implied by the above.
* `LocalBench`, `RunDemo`: the script's own steps - bounded waits and commands with timeouts.
  Nothing is assumed of the processes they start.

## 6. Proofs

Proved with TLAPS for every value of the constants: any number of requests, threads, prompts,
tenants, crashes, stops and signals, any configuration, latencies and token counts. The bounds of
section 4 are constants like the others, so that a theorem holds however large they are.

### Assumptions

Each module names what it assumes of its constants; TLC evaluates the assumptions in the runs.

| Assumption | What it says | Why the code justifies it |
| --- | --- | --- |
| `ScoresAssumption`, `NoneAssumption`, `FilterAssumption` | types; finitely many requests, no more than the counter has values; `None` is neither data nor the result of a call | the counter has 64 bits; `Option` |
| `HarnessAssumption` | finitely many threads; the plan is a sequence of arms, with counts | `harness.py` builds it from its arguments |
| `IsolationAssumption`, `B5cAssumption` | tolerances, budgets and token counts are numbers; prompts per class, tokens per request and polls in a row are at least one | they are literals, arguments with a type, or `usage` fields of a request that was answered |
| `FunctionsAssumption` | configurations and outcomes have their types, a character has 1 to 4 bytes, `Newline` is white space, `None` is no number | UTF-8; `Option` |
| `BodiesAssumption` | a body that is an object has the three fields, each a text, a list or something else; the items of a list are messages, parts or texts | a `serde_json::Value` |
| `RawAssumption` | the routes are a list | `Vec<RouteEntry>` |
| `DemoAssumption`, `LocalAssumption` | bounds are numbers, scenarios are a list, `Nothing` is neither a child nor a number, nor `NoCode` a number | |
| `PublishAssumption` | a run is neither `NoRun` nor the state of a file without one, nor `NoRun` the empty set | |
| `TextsAssumption` | a text has finitely many words | |
| `InvocationsAssumption` | the options of a scenario have their types; a target is given unless the scenario is B-6; an upstream without a filter leads to a cluster | `--target` has a default (`harness.py:800`) |
| `MappingAssumption` | the bench's table sends the easy labels to the small cluster and the others to the large one, which are two; a prompt set is not empty | literals of `b4_routing_correctness.py` and `MIN_PROMPTS` |
| `DeployAssumption`, `TeardownAssumption` | bounds are numbers; an empty file and None are neither snapshots nor verdicts | |
| `AffinityAssumption` | no prompt is in the frozen file twice, a slice's subsample is part of the slice, orders are drawn for every prompt, None is no record | ids are the keys of `run_affinity.py`'s dictionaries; `run_affinity.py:377` |

Three theorems have a hypothesis of their own, because without it the property is false and the code
does not check it:

* `NamesDiffer` (`MissArmsMiss`): the arms of a plan have names of their own. `--concurrency 1,1` breaks it (section 7).
* `PromptsDiffer` (`ArmsAreIndependent`): no prompt is in the dataset twice. The 128 of
  `complexity-heldout.json` differ, and `check_leakage.py` refuses duplicates.
* `ForwardAlike` (`ArmsDifferIndeed`): of B-1's classifications that are not cached none takes twice as
  long as another. It is what B-1's comparison of two arms rests on when it calls a faster arm a cached one.

A fourth, `NaNs = {}` (`KeepsContract`), is about the classifier: with NaN scores the code takes
another row than the contract (`RecordExplainsRoute` says which).

### The arguments

* `DecisionProofs`: `top_signal` picks a signal that none beats, and `decide` returns a
  decision record for every configuration and outcome (`DecisionType`); when it falls back, and that an OK decision
  is that of the best signal (`FallbackRoute`, `OKByBestSignal`), which the scenarios need; and that the order of the signals and their
  repetitions decide nothing as long as no two have the same score (`OrderDecidesNothing`; with equal scores
  `max_by` takes the last).
* `LlmDScFilterProofs`: one inductive invariant,

      IInv == TypeOK /\ (\A r : PhaseInv(r)) /\ ConnectionInv /\ IdsInv /\ MetricsAccount

  None of the properties is inductive alone. `RejectedByPosture` looks at what a
  request was given and must know why: `PhaseInv` says what is known in each phase, and
  of a request that is done that its context is `Verdict(r)`, what `apply`
  writes for its own outcome. `OneConnection` needs that accepts not accounted for by
  a crash are the connection that is open now (`ConnectionInv`). `GeneratedIdsDistinct` needs that
  the counter is the number of ids given out until it wraps and that all of them are
  below it (`IdsInv`). `MetricsAccount` is inductive given `PhaseInv`, by cardinalities of
  the set of ended requests. From IInv follow the properties of the run filter,
  `TypeCorrect`, `MetricsAreExact`, `IdsAreDistinct`, `ConnectionIsShared`, `ProvenanceIsTheFilters`,
  `SeriesAreBounded` and the action property `DecisionsAreFinal`, and two that no run
  lists: `RefusedOnlyByPosture` (a request is refused exactly when its classification failed and
  the posture for that failure is to reject) and `LatencyIsMeasured` (a latency is
  reported for exactly the requests that attempted a call). Each proof of preservation has a step per action; the
  five actions of the service, the timer and stuttering are one case (`InFlightStep`).

  `KeepsContract == NaNs = {} => (Spec => Contract!Spec)`: every step of the filter is a decision of
  `RoutingContract` or a stutter.

  The pure functions (`FunctionsSpec`) have an invariant that says no more than that an answer is that of the
  function; the work is in the lemmas. `TableIsKept` and `RecordIsExplained` go through the outcomes case by case, the
  latter with NaN scores. `LastTurnDecides`: the greatest index of a user turn is all that `from_messages` looks at, so that a body
  with that turn alone gives the same text. `ContextIsCutPrompt` needs what the recursive functions of the prompt compute for
  every length. Induction with an operator as its parameter is out of reach, induction over a set is not: `UpTo` proves it from a least counterexample,
  `Recursion` that a first value and a step define a function, and for each of `texts`, `join` and `bytes` it follows that the
  function chosen satisfies its equation and stays in its type. The bytes of the first n characters are then the first bytes of the text
  (`PrefixEncodes`, `PrefixBytes`), which is why the slice at a `char_indices` offset tears no character (`TruncateKeeps`); a
  text that is trimmed and not empty starts and ends with a character that is no space (`Trimmed`), so what is kept is
  not blank. `TablesAreTheConfig`: a configuration that is accepted breaks none of the thirteen rules, so no
  two labels are equal and no route is shadowed (`NoDuplicates`, `RouteMap`); the first mentions of the clusters have the ranks 1, 2, ...
  without gap or repetition (`RanksAreOneToOne`, by counting), so the list Praxis is told has each once (`AllClusters`).
* `BenchHarnessProofs`. An index is in one record or in the hands of one thread (`EachIndexOnce`), and all that
  are out are below the shared counter (`HandedOut`): `NoIndexTwice`. A phase that ended with as many records as
  indices therefore has one for each (a counting argument, n different numbers below n), and the results on file are
  those of the arms in order (`ResultsInOrder`). One that passed kept to the error budget, so that all but `AllowErrors` of its indices were answered
  with 200: `PassedArmsAreComplete`. `MissArmsMiss` needs to know which keys the cache can
  hold: only requests of the past have left theirs (`KeysOfThePast`), none of a later arm.
  `PagesAreLatest`, about `Publish`: each run that stays on disk is still to be read or is covered by
  the table so far, by itself or a later run (`ReadSoFar`); no two runs have one time stamp, and those of runs
  on disk do not change any more.
* `B5rIsolationProofs`. `IsolationIsReal`: while an attempt runs, the backend's counters are its first snapshot, plus
  what other tenants have had counted, plus our tokens once we were answered (`WindowAddsUp`), so the difference the
  script tests is the intrusion. `AttemptsStayInOrder`: attempt number, index and budget of the
  loop are functions of the file (`LoopFollowsTheFile`), which is why a restart changes nothing.
  `KeepsCampaign == Spec => Campaign!Spec` combines the two: a record that is appended is an attempt of the campaign, in its
  turn, with budget left, and alone if it says so; the verdict, which `run_arm` takes from its counter, is the one the log gives
  (`LogFollowsTheFile`); a stop and a start are those of the campaign; everything else, the backend's steps among it, is a stutter.
  The campaign is proved for any number of prompts, attempts, stops and restarts.
* `B5cArmsProofs`. `PassedArmsAreUncontended`: between its two readings a backend's counter moves by what it generated for the
  arm's records and by what ended there for others, unless the backend restarted in between (`AddsUp`; it needs that
  each prompt is one record, a reading is made once, and the generations that are ours are those we wait for). `PassedArmsAreClassified`: the
  gateway has counted a failure for each request that was not classified (`FailuresCounted`); a stranger can only add to
  it. `ArmsAreIndependent`: an arm's prompts are in the cache only if they were before the run (`CacheKnown`).
* `ScenarioRunProofs`. `PromptsAreHeldOut`: an invocation of B-4 has arms only if
  `check_leakage` let its prompts pass; the rest is arithmetic of finite sets: an anchor whose
  words all occur has containment 1, and one of four or more words with one word exchanged shares at
  least three of at most five with the prompt. `DecompositionAlwaysReconciles`: B-5's assertion that its
  decomposition adds up holds of all measurements, because the remainder was computed from the total;
  a run cannot show that, and no property rests on the assertion. The others follow from one invariant,

      RunInv == Shape /\ CounterMoved /\ StubCounts /\ RecordsMade /\ Judged /\ ExitIsEarned

  which says how far the gateway's counter has moved since the sample before the arm, in terms of
  the records and the strangers (`CounterMoved`); whose requests the stub has counted (`StubCounts`); that a record is what
  `decide` made of the classifier's answer or of its absence (`RecordsMade`); that an arm judged passed has what
  its assertions imply (`Judged`), and exit code 0 all of them. `CountersAreProof` uses the first two. `DegradationIsReal` needs
  that a nearest-rank percentile bounds as many records as its rank says (`RankReached`, `PercentileIs`): B-6 claims
  something of all requests from the median, the 99th percentile and the statuses. `ArmsDifferIndeed` combines the
  arms of a pair. `AttributionHolds` shows that a label and a model that agree leave one cluster for the request.
* `AffinityProofs`. `NothingRepeatedOrSkipped`: what a stage still has to do is not on file, or, in a redo, is on file at most as
  often as there were redos before (`NotYet`); what it was started for and has not to do any more is on file (`WorkNotSkipped`). `RowsAreFair`: each judgement on file says of the answers it saw what they
  deserve, under the order it records (`AllHonest`); later answers are appended and leave those alone.
  `ControlsAreSwaps`: before a redo a control on file has a primary beside it and is its swap (`Swaps`), and with one answer
  of each model both are about that one.
* `ScriptProofs`. `DeadEndpointNeverStays`: from the restart on the live configuration is served, except while the
  trap is set, and the trap is set in exactly the steps between the change and its restoration (`LiveConfig`).
  `CleanVerdictIsTrue`: the baseline on file was taken before the namespace that is there now, unless it was
  renewed, and what is outside only moves forward (`BaselineKnown`); equal to the baseline now means equal at the creation too.
  A variable of the demo or of the local benchmark has a name of its own (`demoExit`, `benchExit`), so that one module can
  be about the three programs. `PassIsProof`: the checks that have been made are
  those whose place in the script has been passed, each with its verdict, and the classifier stays down once it was
  stopped (`ChecksInv`). `NothingIsLeft`: whatever is alive is listed, or is the one child that is spawned and not listed yet; in
  the teardown, it is listed before the place the teardown has come to (`ChildrenInv`). `ZeroIsComplete`: as long as no failure is
  counted, the scenarios the script has passed have completed, and a script whose last handler
  has begun goes no further (`ScenariosInv`). Where the scenarios are in the program, a concatenation of lists, takes
  most of that proof (`ProgramFacts`).

Five of the proofs changed the model. The proof of `AttributionIsTrue` did not go through: the analysis script counts
a label that its table lacks at a cluster of its own choice, and the parity check takes the signal that is listed first; the
instance had neither case. It has both now, and the property says so (section 7). In `Affinity` the queues were sequences, about
which nothing can be proved without induction; they are sets now, taken in the order of the file, and
the controls alternate prompt by prompt as the code has them, where the model had two rounds. In `Publish` the files to read were a
sorted sequence and the table a fold over the runs; the files are a set now, of which the first by name is read, and
the table is brought up to date with each run, in the order in which `latest_by_spec` would go through them
(nothing else can happen between, as a parsed run does not change). In `PromptExtraction` lists were filtered by `SelectSeq` and joined and encoded by
folds, whose definitions the provers cannot open; each is a recursive function now. The names of errors and
processes lost their blanks.

### What liveness rests on

That something ends needs three facts: each step of the program goes down in a well-founded order and nothing else goes
up in it; a step of the program is possible until the end; and fairness, which makes it happen. The first two are
safety and are theorems, one for each liveness property:

| Property | Theorem | The order | What could have been in the way |
| --- | --- | --- | --- |
| `EveryRequestAnswered` | `RequestsGetAnswers` | on_request, its await, its await with the future ready, done | a future that is ready does not become unready, be it by a crash (`StaysReady`); one that is not has its budget to come |
| `RunEnds` | `RunsGoForward`, `NeverStuck` | the driver's distance from the end of the plan, and in a phase two sets that shrink: what the indices and what the threads have still to do, both finite | the barrier: all threads are on one side of it (`BeforeBarrier`, `BeyondBarrier`), so the last one to come opens it; a thread that has died is joined as well |
| `ImplementsCampaign`, its fairness | `ArmGetsToItsEnd` | seven steps of an attempt, and the attempts left | a poll of the gate goes nowhere: only `GateOpens`, the gate's bound, leaves it on a backend that is never idle |
| `DemoEnds` | `DemoGetsToItsEnd` | three steps for each of main's (start, list, stop), then the list | a child that is spawned and not listed at the next spawn would stop main: there is none (`ChildrenInv`) |
| `BenchEnds` | `BenchGetsToItsEnd` | the steps of the program left, then the three of cleanup | the bare `wait` of cleanup, which also waits for a process that runs and is not listed. Without a signal there is none: each `run` is followed by its `list` (`RunIsListed`), and the script exits nowhere between the two (`ListedInv`) |

The last column of `BenchEnds` is why that property has the hypothesis `[](signals = 0)`: a signal between
the two makes cleanup wait for a process it has not killed.

### Only model-checked

* Liveness (`EveryRequestAnswered`, `RunEnds`, `DemoEnds`, `BenchEnds`) and the fairness part of the two
  refinements (`ImplementsContract`, `ImplementsCampaign`): TLAPS proves neither liveness under fairness nor facts about ENABLED. What liveness rests on
  is proved (above).

Every invariant and every action property of the passing runs is a theorem.

No module that is proved about reaches a RECURSIVE operator, for which the SMT backend is not available.

## 7. Where the code and its documents disagree

One has a run of its own, a property that states the document's sentence, and an
entry under `findings` with both places quoted.

| Run | The program does | The text says |
| --- | --- | --- |
| affinity_ties | counts a tie that is judged a tie again as a flip (`run_affinity.py:587`) | SPEC-AFFINITY.md:66-67: how often the verdict flips |

The others were met while modelling. The models do what the code does, and where a
property above would fail for the reason given here, its statement excludes the case
and says so (the last column); none has a run of its own.

| Where | The program does | The text says | Excluded from |
| --- | --- | --- | --- |
| `src/filter.rs:304` | routes a NaN best score as a confident one | SPEC.md:214: score at or above `min_score` | `TableHolds`: the best score is a number; `RecordExplainsRoute` states what the code does |
| `src/filter.rs:428` | lets the order on the wire decide between equal best scores | SPEC.md:230-231: it does not | - (`TableHolds` admits any best signal) |
| `harness.py:464-466` | counts the warm-up records, not their status: an arm of cache hits passes though its warm-up failed and its first request missed | `harness.py:129`: the measured request genuinely hits | `MissesMiss` is about miss arms |
| `harness.py:773` | gives both arms of `--concurrency 1,1` one name, so that they share cache keys | `harness.py:766`: no two arms share one | the arms of an instance have different names |
| `b5r_isolated.py:160` | calls an attempt isolated though the backend restarted in its window and lost a foreign generation | `b5r_isolated.py:7`: proves isolation | `IsolatedMeansAlone`: windows without a restart |
| `b5r_isolated.py:162` | lets the generated tokens alone decide when the backend does not export its prompt tokens | `b5r_isolated.py:143`: moved by what our request used | `IsolatedMeansAlone`: prompt tokens if they are counted |
| `b5c_end_to_end_incluster.py:262` | passes an arm in which a foreign generation was counted, if the backend restarted between the two snapshots | `b5c_end_to_end_incluster.py:242`: had that backend to itself | `PassedMeansUncontended`: backends that did not restart |
| `b5c_end_to_end_incluster.py:298` | takes the difference of the gateway's counters over a restart of the gateway | line 299: expected exactly as many as were sent | `PassedMeansClassified`: the gateway did not restart |
| `b5c_end_to_end_incluster.py:605` | counts failed classifications of the probe as classified | lines 604-608 | `PassedMeansClassified` is about the three arms |
| `b5c_end_to_end_incluster.py:155` | sends the same prompts again in a second run, which the result cache answers | lines 42-43: pays in full | `ArmsDoNotFeedEachOther`: within one run |
| `harness.py:403` | goes on after a failure | bench/README.md:40-41: a failure stops the run | - |
| `run_affinity.py:393`, `redo_truncated.py:79` | keeps a control beside a primary judgement that was redone | the control is the primary's swap | `ControlsSwapThePrimary`: no redo so far |
| `redo_truncated.py:62` | joins a generation that was asked again with the verdict on the old one until it is judged | `redo_truncated.py:10-11` | - (`RowsCreditTheRightModel` compares with the answer that was judged) |
| `run-demo.sh:205,173` | leaves a child behind when Ctrl-C comes between its start and its listing, or during the teardown | `run-demo.sh:18`: tears down everything on every exit | `EverythingTornDown`: stated apart for interrupted runs |
| `deploy-cluster.sh:345` | exits 0 with the dead endpoint in service when the restart that follows the restoration fails | `deploy-cluster.sh:388`: restored | `NeverLeftDead` is about the ConfigMap, with no ignored call |
| `teardown-cluster.sh:79,88,123` | says clean though the namespace is still there: the failed wait is forgotten at line 88 | only the namespace was removed | `CleanMeansUndone`: the deadline has not passed, no call of oc was misread |
| `deploy-cluster.sh:94` | keeps a baseline file that was cut off while it was written, for good; only the comparisons then fail | `deploy-cluster.sh:85`: describes the cluster before | - |
| `run-local-bench.sh:31` | may wait for ever for a child that a signal caught before it was listed | `run-local-bench.sh:8`: everything is torn down | `BenchEnds`: without signals |
| `run-local-bench.sh:44` | takes a port that an earlier run's process holds for its own process, which could not bind it | `run-local-bench.sh:47`: waiting for the process it names | - (`ExitZeroMeansAllRan` says that the scenarios ran, not against whose processes) |
| `run-local-bench.sh:34` | goes on after the teardown of a signal handler that returns | `run-local-bench.sh:32` | - (`ExitZeroMeansAllRan` holds all the same) |
| `b5_end_to_end.py:236` | compares the total with a sum one term of which is the total less the others: the residual is 0 | lines 207-209: does not sum within a few percent, say so | - (`DecompositionAlwaysReconciles`) |
| `src/filter.rs:396-438` | sends `x-llm-d-sc-latency-us` upstream | `b5_end_to_end.py:39-40`: there is no such header | - |
| `b4_routing_correctness.py:187` | fails an arm with an expected LOW_CONFIDENCE anyway, because the label is sent and names a cluster the request did not go to | lines 190-193: declared, a non-intended status is recorded deliberately | `AttributionIsTrue` is about runs that exit 0 |
| `_common.py:182` | passes a baseline through a filter that classifies but emits no headers | `_common.py:160`: no filter ran | `ArmsDifferInTheFilter`: a filter that shows itself |
| `analyze_routing.py:59` | counts a failed request, one without a label, and one whose label its table lacks though the gateway routes it, as general | line 57: the cluster it reached | `AttributionIsTrue`: every request OK, `Unlisted = {}` |
| `verify_classifier_parity.py:44-104` | fails on an answer without signals, and compares the first one, where the filter takes the best | lines 8-12: is the filter faithful | `AttributionIsTrue`: an answer to each prompt, `BestFirst` |
| `check_leakage.py:119` | sees no words in a text outside ASCII, and compares it only as a whole | `check_leakage.py:16`: near-duplicates | `HeldOut`: `t = {}` |
| `b7c_topology_incluster.py:137` | passes a baseline that was classified if the gateway restarted between the samples | `b7c_topology_incluster.py:22`: proved from the counters | `HopWasClassified`: no restart |
| `report.py:429` | prints the tables of a failed run | `report.py:65-67`: withheld, not published with a caveat | `PageIsLatest` is about which run, not whether it passed |
| `report.py:669` | says that B-5 failed whatever its run says | `report.py:483`: every claim is read from the JSON | the same |

## 8. Not modelled

`PROJECT.json` lists these with the hazards that no property covers yet.

* Praxis, llm-d-sc, llama.cpp, `oc` and the kernel are outside the repository; the
  models have the part of them the code relies on, with every outcome it can meet.
* Wire formats, text and logging: JSON, protobuf, Prometheus text, header spelling and wording are
  abstracted to the cases the code tells apart.
* Time: a deadline is an event that may come at any moment after it is armed.
  `ScenarioRun` alone has latencies, a few values on either side of each limit that B-1, B-6 and B-7 compare with.
* The request parser of `demo/stub-upstream.py`: one connection per thread and no shared state. What
  happens to a body over its limit (line 86) is a matter for a unit test; the demo's requests are far below it.
* The config rendering of the deployment: a straight line of text substitution in an init container.
* `analyze_b5_contamination.py`, the tables other mappings give in `analyze_routing.py`, precision and
  recall of B-4, quantiles that are only printed: arithmetic over a finished file.
* What a difference of counters is worth when the server was restarted between the two scrapes (`_llamacpp_metrics.py:116`): it cannot
  tell. `B5rIsolation` and `B5cArms` have the restarts, and `IsolatedMeansAlone`, `PassedMeansUncontended` and `PassedMeansClassified`
  exclude them.
* Clocks that step back: the time stamps of `Publish` (`harness.py:616`, read on the host of each run) increase from run to
  run. With stamps out of order the report's "latest" is not the last run, and `PageIsLatest` says nothing.
* The order within the page: it is written in one step of `Publish`, and the B-5R and affinity chapters, whose
  `load_json` (`report.py:650`) raises on a file that is broken off and leaves the old page, are left out.
* The rest of B-5C's assertions (decomposition, accounted generations, comparisons across arms: lines 324, 485, 629) and
  the checks of a forged label in `run-demo.sh:583-590`: a pass of the model is a weaker pass than the program's, so what follows from
  it follows from the program's too.
* Which header values `set_header` refuses (`src/filter.rs:432-440`), and that `OnceLock` builds the channel once (`src/client.rs:102`), which
  the standard library promises: the first use of the channel is one step.
* A list of ids for `redo_truncated.py` that has one twice: the prompts of a redo are a set.
* Build, manifests and tests: no state that two actors share.

## 9. Plan

Done, in this order: decision table and filter, contract and refinement, configuration and
prompt; load driver; B-5R; affinity; demo; deployment; B-5 in the cluster; local
benchmark; report; the leakage check, the scenarios and their run, the self-test; teardown. Then the
proofs: filter and contract; held-out prompts; B-5R; deployment and teardown; load driver; B-5 in the
cluster; the run of the scenarios; affinity; demo and local benchmark; the pure functions of the filter; the report; the
prompt and its bytes; what liveness rests on; the campaign of B-5R and its refinement.

Next, most important first:

1. An abstract specification of a measurement (each sample belongs to one arm and is taken once; a pass is
   true of the samples) that `BenchHarness` implements, and the refinement proved.
2. The fairness part of the refinements, and from the theorems under "What liveness
   rests on" liveness itself, once the prover has ENABLED.

A run that is added asks a question of its own; where a deeper property turns up, it takes the
place of a weaker one of the same run.
