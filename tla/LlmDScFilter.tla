---------------------------- MODULE LlmDScFilter ----------------------------
(***************************************************************************)
(* The llm_d_sc HTTP filter at work: requests that pass on_request         *)
(* concurrently, the classify channel they share, and the llm-d-sc service *)
(* behind it.                                                              *)
(*                                                                         *)
(* on_request has one await, the classify call.  What runs before it and   *)
(* what runs after it are one action each: the two halves of different     *)
(* requests share nothing but atomics.  The service, the connection and    *)
(* Praxis' header mutation are not in this repository: they are modelled   *)
(* by how the filter uses them, with every outcome the filter must expect. *)
(***************************************************************************)
EXTENDS Decision, FiniteSets

CONSTANTS
  Requests,       \* the requests that reach the filter
  Configs,        \* the validated configurations to consider
  Inputs,         \* the requests clients may send
  Answers,        \* the responses the service may give
  QueueCapacity,  \* llm-d-sc's bounded inference queue
  CounterModulus, \* 2^64: AtomicU64 wraps
  MaxCrashes      \* bound: how often the service crashes

ProvenanceHeaders == {"status", "label", "score", "classifier", "taxonomy", "latency"}

\* What a client sends: does its body hold a prompt, which headers with the
\* x-llm-d-sc- prefix does it forge, and does it carry an x-request-id.
Input ==
  [ prompt : BOOLEAN,
    forged : SUBSET (ProvenanceHeaders \cup {"other"}),
    request_id : BOOLEAN ]

ASSUME FilterAssumption ==
  /\ IsFiniteSet(Requests)
  /\ Configs \subseteq Config
  /\ Inputs \subseteq Input
  /\ Answers \subseteq Response
  /\ QueueCapacity \in Nat \ {0}
  /\ CounterModulus \in Nat \ {0} /\ Cardinality(Requests) <= CounterModulus
  /\ MaxCrashes \in Nat
  /\ None \notin Nat \cup Outcome

VARIABLES
  config,           \* LlmDScFilter.config: fixed when the filter is built
  input,            \* what each client sent
  pc,               \* where each request is in on_request
  ctx,              \* what on_request wrote to each HttpFilterContext
  request_counter,  \* LlmDScFilter.request_counter
  generated,        \* the counter value in each ClassifyRequest's request_id
  outcome,          \* what the classify future of a request is ready with
  elapsed,          \* has the timeout_ms budget of a request elapsed
  channel,          \* ClassifyChannel.channel: has the OnceLock been filled
  connection,       \* the channel's HTTP/2 connection
  accepts,          \* connections the service has accepted so far
  rpc,              \* where each classify call is
  queue,            \* the service's inference queue
  service,          \* is the service running
  crashes,          \* how often it has crashed
  classify_total,   \* llm_d_sc_classify_total{status}
  duration_count,   \* llm_d_sc_classify_duration_seconds, number of samples
  route_total       \* llm_d_sc_route_total{label,cluster}

filterVars == <<config, input, pc, ctx, request_counter, generated>>
futureVars == <<outcome, elapsed>>
serviceVars == <<connection, accepts, rpc, queue, service, crashes>>
metricVars == <<classify_total, duration_count, route_total>>
vars == <<filterVars, futureVars, channel, serviceVars, metricVars>>

-----------------------------------------------------------------------------
(* The context a request leaves on_request with.                           *)

RouteLabels == Labels \cup StatusValues \cup {Unmapped}

\* filter_metadata, the FilterAction and the queued header mutations.
Context ==
  [ route : Clusters \cup {Reject, None},
    status : StatusValues \cup {None},
    label : Labels \cup {None},
    score : Scores \cup {None},
    provenance : Revisions \cup {None},
    latency : BOOLEAN,
    remove : SUBSET (ProvenanceHeaders \cup {"other"}),
    set : SUBSET ProvenanceHeaders ]

FreshContext ==
  [ route |-> None, status |-> None, label |-> None, score |-> None,
    provenance |-> None, latency |-> FALSE, remove |-> {}, set |-> {} ]

\* A bug to catch: only the headers the filter itself writes are stripped.
BugStripKnown(r) == input[r].forged \cap ProvenanceHeaders

\* strip_client_provenance: every header with the prefix, known or not.
strip_client_provenance(r) == input[r].forged

\* emit_headers: the provenance headers a decision sets.
emit_headers(d, measured) ==
  {"status"}
    \cup (IF measured THEN {"latency"} ELSE {})
    \cup (IF d.label # None THEN {"label"} ELSE {})
    \cup (IF d.score # None THEN {"score"} ELSE {})
    \cup (IF d.provenance # None THEN {"classifier", "taxonomy"} ELSE {})

\* Metadata, action and header mutations of a decision.
Written(r, d, measured) ==
  [ route |-> d.route, status |-> d.status, label |-> d.label, score |-> d.score,
    provenance |-> d.provenance, latency |-> measured,
    remove |-> strip_client_provenance(r),
    set |-> IF config.emit_headers THEN emit_headers(d, measured) ELSE {} ]

\* A bug to catch: a rejected request is counted as routed to the default.
BugRejectCounted(r, d, measured) ==
  /\ ctx' = [ctx EXCEPT ![r] = Written(r, d, measured)]
  /\ classify_total' = [classify_total EXCEPT ![d.status] = @ + 1]
  /\ duration_count' = IF measured THEN duration_count + 1 ELSE duration_count
  /\ route_total' = [route_total EXCEPT ![<<metric_label(config, d),
       IF d.route = Reject THEN config.default_cluster ELSE d.route>>] = @ + 1]

\* apply: metadata, headers and metrics; measured is elapsed.is_some().
apply(r, d, measured) ==
  /\ ctx' = [ctx EXCEPT ![r] = Written(r, d, measured)]
  /\ classify_total' = [classify_total EXCEPT ![d.status] = @ + 1]
  /\ duration_count' = IF measured THEN duration_count + 1 ELSE duration_count
  /\ route_total' = IF d.route = Reject THEN route_total
                    ELSE [route_total EXCEPT ![<<metric_label(config, d), d.route>>] = @ + 1]

-----------------------------------------------------------------------------
(* on_request.                                                             *)

Init ==
  /\ config \in Configs
  /\ input \in [Requests -> Inputs]
  /\ pc = [r \in Requests |-> "on_request"]
  /\ ctx = [r \in Requests |-> FreshContext]
  /\ request_counter = 0
  /\ generated = [r \in Requests |-> None]
  /\ outcome = [r \in Requests |-> None]
  /\ elapsed = [r \in Requests |-> FALSE]
  /\ channel = FALSE
  /\ connection = FALSE
  /\ accepts = 0
  /\ rpc = [r \in Requests |-> "none"]
  /\ queue = << >>
  /\ service \in {"up", "down"}
  /\ crashes = 0
  /\ classify_total = [s \in StatusValues |-> 0]
  /\ duration_count = 0
  /\ route_total = [lc \in RouteLabels \X Clusters |-> 0]

\* No prompt: no call, no await, straight to the default cluster.
OnRequestSkip(r) ==
  /\ pc[r] = "on_request"
  /\ ~input[r].prompt
  /\ apply(r, SkipDecision(config), FALSE)
  /\ pc' = [pc EXCEPT ![r] = "done"]
  /\ UNCHANGED <<config, input, request_counter, generated, futureVars, channel, serviceVars>>

\* A bug to catch: the counter is read and never moved.
BugCounterNotMoved(r) ==
  /\ generated' = IF input[r].request_id THEN generated
                  ELSE [generated EXCEPT ![r] = request_counter]
  /\ UNCHANGED request_counter

\* A bug to catch: the counter does not wrap.
BugCounterGrows(r) ==
  IF input[r].request_id
  THEN UNCHANGED <<request_counter, generated>>
  ELSE /\ generated' = [generated EXCEPT ![r] = request_counter]
       /\ request_counter' = request_counter + 1

\* request_id(): the client's x-request-id, or fetch_add on the counter.
take_request_id(r) ==
  IF input[r].request_id
  THEN UNCHANGED <<request_counter, generated>>
  ELSE /\ generated' = [generated EXCEPT ![r] = request_counter]
       /\ request_counter' = IF request_counter + 1 = CounterModulus THEN 0
                             ELSE request_counter + 1

\* A bug to catch: every call builds a channel, and a connection, of its own.
BugChannelPerCall(r) ==
  /\ pc[r] = "on_request"
  /\ input[r].prompt
  /\ take_request_id(r)
  /\ channel' = TRUE
  /\ connection' = FALSE
  /\ rpc' = [rpc EXCEPT ![r] = "waiting"]
  /\ pc' = [pc EXCEPT ![r] = "awaiting"]
  /\ UNCHANGED <<config, input, ctx, futureVars, accepts, queue, service, crashes, metricVars>>

\* A prompt: build the request and start the classify call; the first one
\* fills the OnceLock.
OnRequestClassify(r) ==
  /\ pc[r] = "on_request"
  /\ input[r].prompt
  /\ take_request_id(r)
  /\ channel' = TRUE
  /\ rpc' = [rpc EXCEPT ![r] = "waiting"]
  /\ pc' = [pc EXCEPT ![r] = "awaiting"]
  /\ UNCHANGED <<config, input, ctx, futureVars, connection, accepts, queue, service,
                 crashes, metricVars>>

\* A bug to catch: the budget covers the call but not the wait for a connection.
BugBudgetAfterConnect(r) ==
  /\ pc[r] = "awaiting"
  /\ rpc[r] # "waiting"
  /\ ~elapsed[r]
  /\ elapsed' = [elapsed EXCEPT ![r] = TRUE]
  /\ UNCHANGED <<filterVars, outcome, channel, serviceVars, metricVars>>

\* tokio::time: the timeout_ms budget of an awaiting request runs out.
BudgetElapses(r) ==
  /\ pc[r] = "awaiting"
  /\ ~elapsed[r]
  /\ elapsed' = [elapsed EXCEPT ![r] = TRUE]
  /\ UNCHANGED <<filterVars, outcome, channel, serviceVars, metricVars>>

\* tokio::time::timeout polls the call before the timer: an answer that is
\* there when the task runs wins over a budget that has run out as well.
classify(r) == IF outcome[r] # None THEN outcome[r] ELSE Timeout

\* A bug to catch: the call goes on, in a task of its own, after its budget.
BugCallNotDropped(r) ==
  /\ pc[r] = "awaiting"
  /\ outcome[r] # None \/ elapsed[r]
  /\ apply(r, decide(config, classify(r)), TRUE)
  /\ pc' = [pc EXCEPT ![r] = "done"]
  /\ UNCHANGED <<config, input, request_counter, generated, futureVars, channel,
                 connection, accepts, rpc, queue, service, crashes>>

\* The await returns: decide, apply, and the call is dropped.
Resume(r) ==
  /\ pc[r] = "awaiting"
  /\ outcome[r] # None \/ elapsed[r]
  /\ apply(r, decide(config, classify(r)), TRUE)
  /\ pc' = [pc EXCEPT ![r] = "done"]
  /\ rpc' = [rpc EXCEPT ![r] = "dropped"]
  /\ UNCHANGED <<config, input, request_counter, generated, futureVars, channel,
                 connection, accepts, queue, service, crashes>>

-----------------------------------------------------------------------------
(* The channel and the service (external).                                 *)

\* The result of a call reaches its future, unless the future is gone.
Deliver(r, result) ==
  IF rpc[r] \in {"waiting", "sent"}
  THEN /\ outcome' = [outcome EXCEPT ![r] = result]
       /\ rpc' = [rpc EXCEPT ![r] = "answered"]
  ELSE UNCHANGED <<outcome, rpc>>

\* The channel connects when a call needs it.
Connect ==
  /\ channel /\ ~connection /\ service = "up"
  /\ \E r \in Requests : rpc[r] = "waiting"
  /\ connection' = TRUE
  /\ accepts' = accepts + 1
  /\ UNCHANGED <<filterVars, futureVars, channel, rpc, queue, service, crashes, metricVars>>

\* Nothing listens: the call fails, the channel stays usable.
ConnectRefused(r) ==
  /\ channel /\ ~connection /\ service = "down"
  /\ rpc[r] = "waiting"
  /\ Deliver(r, GrpcStatus("Other"))
  /\ UNCHANGED <<filterVars, elapsed, channel, connection, accepts, queue, service,
                 crashes, metricVars>>

\* The service takes the call: a full queue refuses it, as does a service
\* that does not serve the configured signal; otherwise it waits its turn.
Admit(r) ==
  /\ connection /\ service = "up"
  /\ rpc[r] = "waiting"
  /\ \/ /\ Len(queue) < QueueCapacity
        /\ queue' = Append(queue, r)
        /\ rpc' = [rpc EXCEPT ![r] = "sent"]
        /\ UNCHANGED outcome
     \/ /\ Len(queue) >= QueueCapacity
        /\ Deliver(r, GrpcStatus("ResourceExhausted"))
        /\ UNCHANGED queue
     \/ /\ Deliver(r, GrpcStatus("InvalidArgument"))
        /\ UNCHANGED queue
  /\ UNCHANGED <<filterVars, elapsed, channel, connection, accepts, service, crashes, metricVars>>

\* Inference is done, perhaps long after the caller has given up.
Answer ==
  /\ service = "up"
  /\ queue # << >>
  /\ \E result \in Answers \cup {GrpcStatus("Other")} : Deliver(Head(queue), result)
  /\ queue' = Tail(queue)
  /\ UNCHANGED <<filterVars, elapsed, channel, connection, accepts, service, crashes, metricVars>>

\* The service dies with its queue; calls on the connection fail.
Crash ==
  /\ service = "up"
  /\ crashes < MaxCrashes
  /\ service' = "down"
  /\ crashes' = crashes + 1
  /\ connection' = FALSE
  /\ queue' = << >>
  /\ outcome' = [r \in Requests |-> IF rpc[r] = "sent" THEN GrpcStatus("Other") ELSE outcome[r]]
  /\ rpc' = [r \in Requests |-> IF rpc[r] = "sent" THEN "answered" ELSE rpc[r]]
  /\ UNCHANGED <<filterVars, elapsed, channel, accepts, metricVars>>

Restart ==
  /\ service = "down"
  /\ service' = "up"
  /\ UNCHANGED <<filterVars, futureVars, channel, connection, accepts, rpc, queue, crashes, metricVars>>

-----------------------------------------------------------------------------

\* Every request has been answered: the filter has nothing left to do.
Finished ==
  /\ \A r \in Requests : pc[r] = "done"
  /\ UNCHANGED vars

Next ==
  \/ \E r \in Requests :
       \/ OnRequestSkip(r)
       \/ OnRequestClassify(r)
       \/ BudgetElapses(r)
       \/ Resume(r)
       \/ ConnectRefused(r)
       \/ Admit(r)
  \/ Connect
  \/ Answer
  \/ Crash
  \/ Restart
  \/ Finished

\* The runtime polls a ready task and fires its timers.  Nothing is assumed
\* of the service: it may hang, lose answers or stay down for ever.
Fairness ==
  \A r \in Requests :
    /\ WF_vars(OnRequestSkip(r))
    /\ WF_vars(OnRequestClassify(r))
    /\ WF_vars(BudgetElapses(r))
    /\ WF_vars(Resume(r))

Spec == Init /\ [][Next]_vars

FairSpec == Spec /\ Fairness

-----------------------------------------------------------------------------
(* Properties.                                                             *)

Done(r) == pc[r] = "done"

\* The classify call was attempted.
Attempted(r) == rpc[r] # "none"

\* Every variable stays in its type.
TypeOK ==
  /\ config \in Config
  /\ input \in [Requests -> Input]
  /\ pc \in [Requests -> {"on_request", "awaiting", "done"}]
  /\ ctx \in [Requests -> Context]
  /\ request_counter \in 0 .. CounterModulus - 1
  /\ generated \in [Requests -> Nat \cup {None}]
  /\ outcome \in [Requests -> Outcome \cup {None}]
  /\ elapsed \in [Requests -> BOOLEAN]
  /\ channel \in BOOLEAN
  /\ connection \in BOOLEAN
  /\ accepts \in Nat
  /\ rpc \in [Requests -> {"none", "waiting", "sent", "answered", "dropped"}]
  /\ queue \in Seq(Requests)
  /\ service \in {"up", "down"}
  /\ crashes \in Nat
  /\ classify_total \in [StatusValues -> Nat]
  /\ duration_count \in Nat
  /\ route_total \in [RouteLabels \X Clusters -> Nat]

\* The three metrics of SPEC 4.7 count decisions, each decision once: the
\* status counter every request that left the filter, the histogram those
\* that attempted a call, the route counter those that were routed.
MetricsAccount ==
  /\ \A s \in StatusValues :
       classify_total[s] = Cardinality({r \in Requests : Done(r) /\ ctx[r].status = s})
  /\ duration_count = Cardinality({r \in Requests : Done(r) /\ Attempted(r)})
  /\ \A l \in RouteLabels, c \in Clusters :
       route_total[<<l, c>>] =
         Cardinality({r \in Requests : /\ Done(r) /\ ctx[r].route = c
                                       /\ metric_label(config, ctx[r]) = l})

\* A request is refused exactly when its classification failed and the
\* operator chose reject for that kind of failure (SPEC 4.6); what the
\* classifier did answer, ABSTAIN included, never refuses a request.
Posture(status) ==
  CASE status = "RESOURCE_EXHAUSTED" -> config.on_resource_exhausted
    [] status \in {"UNAVAILABLE", "INVALID_ARGUMENT", "ERROR", "TIMEOUT"} -> config.on_unavailable
    [] OTHER -> "default_cluster"

RejectedByPosture ==
  \A r \in Requests :
    Done(r) => /\ ctx[r].route = Reject <=> Posture(ctx[r].status) = "reject"
               /\ ctx[r].route # Reject /\ ctx[r].status # "OK" =>
                    ctx[r].route = config.default_cluster

\* What the upstream sees of a provenance header: Praxis applies the
\* removals of a filter before its sets (external).
UpstreamHeader(r, h) ==
  CASE h \in ctx[r].set -> "filter"
    [] h \in input[r].forged \ (ctx[r].remove \cup ctx[r].set) -> "client"
    [] OTHER -> "absent"

\* No x-llm-d-sc-* header a client sent reaches an upstream, on any path,
\* and without emit_headers none does at all (SPEC 4.7, Security).
NoForgedProvenance ==
  \A r \in Requests : Done(r) =>
    \A h \in ProvenanceHeaders \cup {"other"} :
      /\ UpstreamHeader(r, h) # "client"
      /\ UpstreamHeader(r, h) = "filter" => config.emit_headers

\* The latency metadata and header exist for exactly the requests whose call
\* was attempted (SPEC 4.7: never a fabricated zero on the skip path).
LatencyMeansAttempted ==
  \A r \in Requests : Done(r) =>
    /\ ctx[r].latency <=> Attempted(r)
    /\ "latency" \in ctx[r].set <=> config.emit_headers /\ Attempted(r)

\* Requests without an x-request-id are classified under distinct ids.
GeneratedIdsDistinct ==
  \A r, q \in Requests :
    generated[r] # None /\ generated[r] = generated[q] => r = q

\* One connection carries every call (client.rs, T-I6): another one is made
\* only after the service broke the last, and none before it is needed.
OneConnection ==
  /\ accepts <= crashes + 1
  /\ accepts > 0 => \E r \in Requests : Attempted(r)

\* The label of a route series is the sentinel, a status, or a label the
\* operator configured, whatever came over the wire; its cluster is one the
\* filter declared (metrics.rs).
SeriesBounded ==
  \A l \in RouteLabels, c \in Clusters :
    route_total[<<l, c>>] > 0 =>
      /\ l \in StatusValues \cup {Unmapped} \/ config.routes[l] # None
      /\ c \in all_clusters(config)

\* A request is decided once: a late answer, a timer that fires afterwards,
\* a crash or a restart changes nothing it was given.
DecidedOnce ==
  [][\A r \in Requests : Done(r) => Done(r)' /\ UNCHANGED <<ctx[r], outcome[r]>>]_vars

\* Every request is answered, whatever the service does (SPEC 4.6: a
\* classifier outage does not take the gateway down).
EveryRequestAnswered == \A r \in Requests : <>Done(r)

=============================================================================
