-------------------------- MODULE LlmDScFilterProofs --------------------------
(***************************************************************************)
(* LlmDScFilter for every set of requests, configuration and classifier:   *)
(* type correctness and the safety properties, from one inductive          *)
(* invariant; and, for classifiers whose scores are not NaN, that it       *)
(* implements the safety part of RoutingContract.  (With a NaN score it    *)
(* does not: see RecordExplainsRoute.)  Then the pure functions of         *)
(* FilterFunctions, for every configuration, classify outcome and request  *)
(* body.                                                                   *)
(***************************************************************************)
EXTENDS LlmDScFilterRefinement, FilterFunctions, DecisionProofs, FunctionTheorems

-----------------------------------------------------------------------------
(* The inductive invariant.                                                *)

\* What a request that is done has been given.
Verdict(r) ==
  IF input[r].prompt THEN Written(r, decide(config, classify(r)), TRUE)
                     ELSE Written(r, SkipDecision(config), FALSE)

\* Each phase of on_request fixes what is known of the request.
PhaseInv(r) ==
  /\ pc[r] # "done" => ctx[r] = FreshContext
  /\ pc[r] = "on_request" =>
       rpc[r] = "none" /\ outcome[r] = None /\ ~elapsed[r] /\ generated[r] = None
  /\ pc[r] = "awaiting" => input[r].prompt /\ rpc[r] \in {"waiting", "sent", "answered"}
  /\ pc[r] = "done" => /\ rpc[r] = IF input[r].prompt THEN "dropped" ELSE "none"
                       /\ ctx[r] = Verdict(r)

\* The connection count: what is not accounted for by a crash is open now.
ConnectionInv ==
  /\ accepts <= crashes + (IF connection THEN 1 ELSE 0)
  /\ accepts > 0 => channel
  /\ channel => \E r \in Requests : rpc[r] # "none"

\* The requests that were given an id from the counter.
Numbered == {r \in Requests : generated[r] # None}

\* The counter counts them until it wraps, and their ids are below it.
IdsInv ==
  /\ Cardinality(Numbered) < CounterModulus => request_counter = Cardinality(Numbered)
  /\ \A r \in Numbered : generated[r] \in Nat /\ generated[r] < Cardinality(Numbered)
  /\ GeneratedIdsDistinct

IInv ==
  /\ TypeOK
  /\ \A r \in Requests : PhaseInv(r)
  /\ ConnectionInv
  /\ IdsInv
  /\ MetricsAccount

-----------------------------------------------------------------------------
(* Lemmas.                                                                 *)

\* What apply writes is a context.
LEMMA WrittenType ==
  ASSUME TypeOK, NEW r \in Requests, NEW d \in DecisionRecord, NEW measured \in BOOLEAN
  PROVE  Written(r, d, measured) \in Context
<1>1. strip_client_provenance(r) \in SUBSET (ProvenanceHeaders \cup {"other"})
  BY DEF strip_client_provenance, TypeOK, Input
<1>2. emit_headers(d, measured) \in SUBSET ProvenanceHeaders
  BY DEF emit_headers, ProvenanceHeaders
<1> QED
  BY <1>1, <1>2 DEF Written, Context, DecisionRecord

\* The label a decision is counted under is the label of a series.
LEMMA MetricLabelType ==
  ASSUME NEW cfg \in Config, NEW d \in DecisionRecord
  PROVE  metric_label(cfg, d) \in RouteLabels
BY DEF metric_label, RouteLabels, DecisionRecord

\* The two decisions on_request takes are decisions.
LEMMA TakenDecisions ==
  ASSUME TypeOK, NEW r \in Requests
  PROVE  /\ SkipDecision(config) \in DecisionRecord
         /\ decide(config, classify(r)) \in DecisionRecord
<1>1. SkipDecision(config) \in DecisionRecord
  BY DEF SkipDecision, fallback, DecisionRecord, StatusValues, TypeOK, Config
<1>2. classify(r) \in Outcome
  BY DEF classify, TypeOK, Outcome
<1> QED
  BY <1>1, <1>2, DecisionType DEF TypeOK

\* apply keeps the types of what it writes.
LEMMA ApplyType ==
  ASSUME TypeOK, NEW r \in Requests, NEW d \in DecisionRecord, NEW measured \in BOOLEAN,
         apply(r, d, measured)
  PROVE  /\ ctx' \in [Requests -> Context]
         /\ classify_total' \in [StatusValues -> Nat]
         /\ duration_count' \in Nat
         /\ route_total' \in [RouteLabels \X Clusters -> Nat]
<1>1. ctx' \in [Requests -> Context]
  BY WrittenType DEF apply, TypeOK
<1>2. classify_total' \in [StatusValues -> Nat]
  <2>1. d.status \in StatusValues
    BY DEF DecisionRecord
  <2>2. classify_total' = [classify_total EXCEPT ![d.status] = @ + 1]
    BY DEF apply
  <2> QED
    BY <2>1, <2>2 DEF TypeOK
<1>3. duration_count' \in Nat
  BY DEF apply, TypeOK
<1>4. route_total' \in [RouteLabels \X Clusters -> Nat]
  <2>1. CASE d.route = Reject
    BY <2>1 DEF apply, TypeOK
  <2>2. CASE d.route # Reject
    <3>1. d.route \in Clusters
      BY <2>2 DEF DecisionRecord
    <3>2. metric_label(config, d) \in RouteLabels
      BY MetricLabelType DEF TypeOK
    <3>3. route_total' = [route_total EXCEPT ![<<metric_label(config, d), d.route>>] = @ + 1]
      BY <2>2 DEF apply
    <3> HIDE DEF RouteLabels
    <3> QED
      BY <3>1, <3>2, <3>3 DEF TypeOK
  <2> QED
    BY <2>1, <2>2
<1> QED
  BY <1>1, <1>2, <1>3, <1>4

\* What a call can come back with is an outcome.
LEMMA OutcomeType ==
  /\ \A code \in GrpcCode : GrpcStatus(code) \in Outcome
  /\ Answers \subseteq Outcome
BY FilterAssumption DEF Outcome

\* Deliver keeps the types of what it writes.
LEMMA DeliverType ==
  ASSUME TypeOK, NEW r \in Requests, NEW result \in Outcome, Deliver(r, result)
  PROVE  /\ outcome' \in [Requests -> Outcome \cup {None}]
         /\ rpc' \in [Requests -> {"none", "waiting", "sent", "answered", "dropped"}]
BY DEF Deliver, TypeOK

\* take_request_id keeps the types of what it writes.
LEMMA TakeIdType ==
  ASSUME TypeOK, NEW r \in Requests, take_request_id(r)
  PROVE  /\ request_counter' \in 0 .. CounterModulus - 1
         /\ generated' \in [Requests -> Nat \cup {None}]
<1>1. CASE input[r].request_id
  BY <1>1 DEF take_request_id, TypeOK
<1>2. CASE ~input[r].request_id
  <2>1. request_counter' \in 0 .. CounterModulus - 1
    BY <1>2, FilterAssumption DEF take_request_id, TypeOK
  <2>2. generated' \in [Requests -> Nat \cup {None}]
    BY <1>2, FilterAssumption DEF take_request_id, TypeOK
  <2> QED
    BY <2>1, <2>2
<1> QED
  BY <1>1, <1>2

-----------------------------------------------------------------------------
(* Type correctness.                                                       *)

LEMMA InitType == Init => TypeOK
<1> SUFFICES ASSUME Init PROVE TypeOK
  OBVIOUS
<1>1. config \in Config /\ input \in [Requests -> Input]
  BY FilterAssumption DEF Init
<1>2. ctx \in [Requests -> Context]
  <2>1. FreshContext \in Context
    BY DEF FreshContext, Context
  <2> QED
    BY <2>1 DEF Init
<1>3. classify_total \in [StatusValues -> Nat] /\ route_total \in [RouteLabels \X Clusters -> Nat]
  BY DEF Init
<1>4. request_counter \in 0 .. CounterModulus - 1
  BY FilterAssumption DEF Init
<1>5. outcome \in [Requests -> Outcome \cup {None}]
  BY DEF Init
<1>6. queue \in Seq(Requests)
  BY DEF Init
<1> QED
  BY <1>1, <1>2, <1>3, <1>4, <1>5, <1>6 DEF Init, TypeOK

LEMMA NextType == TypeOK /\ [Next]_vars => TypeOK'
<1> SUFFICES ASSUME TypeOK, [Next]_vars PROVE TypeOK'
  OBVIOUS
<1> USE DEF filterVars, futureVars, serviceVars, metricVars
<1>1. ASSUME NEW r \in Requests, OnRequestSkip(r) PROVE TypeOK'
  <2>1. /\ ctx' \in [Requests -> Context]
        /\ classify_total' \in [StatusValues -> Nat]
        /\ duration_count' \in Nat
        /\ route_total' \in [RouteLabels \X Clusters -> Nat]
    BY <1>1, ApplyType, TakenDecisions DEF OnRequestSkip
  <2>2. pc' \in [Requests -> {"on_request", "awaiting", "done"}]
    BY <1>1 DEF OnRequestSkip, TypeOK
  <2> QED
    BY <1>1, <2>1, <2>2 DEF OnRequestSkip, TypeOK
<1>2. ASSUME NEW r \in Requests, OnRequestClassify(r) PROVE TypeOK'
  <2>1. /\ request_counter' \in 0 .. CounterModulus - 1
        /\ generated' \in [Requests -> Nat \cup {None}]
    BY <1>2, TakeIdType DEF OnRequestClassify
  <2>2. /\ pc' \in [Requests -> {"on_request", "awaiting", "done"}]
        /\ rpc' \in [Requests -> {"none", "waiting", "sent", "answered", "dropped"}]
    BY <1>2 DEF OnRequestClassify, TypeOK
  <2> QED
    BY <1>2, <2>1, <2>2 DEF OnRequestClassify, TypeOK
<1>3. ASSUME NEW r \in Requests, BudgetElapses(r) PROVE TypeOK'
  BY <1>3 DEF BudgetElapses, TypeOK
<1>4. ASSUME NEW r \in Requests, Resume(r) PROVE TypeOK'
  <2>1. /\ ctx' \in [Requests -> Context]
        /\ classify_total' \in [StatusValues -> Nat]
        /\ duration_count' \in Nat
        /\ route_total' \in [RouteLabels \X Clusters -> Nat]
    BY <1>4, ApplyType, TakenDecisions DEF Resume
  <2>2. /\ pc' \in [Requests -> {"on_request", "awaiting", "done"}]
        /\ rpc' \in [Requests -> {"none", "waiting", "sent", "answered", "dropped"}]
    BY <1>4 DEF Resume, TypeOK
  <2> QED
    BY <1>4, <2>1, <2>2 DEF Resume, TypeOK
<1>5. ASSUME NEW r \in Requests, ConnectRefused(r) PROVE TypeOK'
  <2>1. /\ outcome' \in [Requests -> Outcome \cup {None}]
        /\ rpc' \in [Requests -> {"none", "waiting", "sent", "answered", "dropped"}]
    BY <1>5, DeliverType, OutcomeType DEF ConnectRefused, GrpcCode
  <2> QED
    BY <1>5, <2>1 DEF ConnectRefused, TypeOK
<1>6. ASSUME NEW r \in Requests, Admit(r) PROVE TypeOK'
  <2>1. /\ outcome' \in [Requests -> Outcome \cup {None}]
        /\ rpc' \in [Requests -> {"none", "waiting", "sent", "answered", "dropped"}]
    <3>1. CASE UNCHANGED outcome
      BY <1>6, <3>1, DeliverType, OutcomeType DEF Admit, GrpcCode, TypeOK
    <3>2. CASE \E code \in GrpcCode : Deliver(r, GrpcStatus(code))
      BY <3>2, DeliverType, OutcomeType
    <3> QED
      BY <1>6, <3>1, <3>2 DEF Admit, GrpcCode
  <2>2. queue' \in Seq(Requests)
    <3>1. queue' = queue \/ queue' = Append(queue, r)
      BY <1>6 DEF Admit
    <3>2. queue \in Seq(Requests)
      BY DEF TypeOK
    <3>3. Append(queue, r) \in Seq(Requests)
      BY <3>2
    <3> QED
      BY <3>1, <3>2, <3>3
  <2> QED
    BY <1>6, <2>1, <2>2 DEF Admit, TypeOK
<1>7. ASSUME Connect PROVE TypeOK'
  BY <1>7 DEF Connect, TypeOK
<1>8. ASSUME Answer PROVE TypeOK'
  <2>1. Head(queue) \in Requests /\ queue' \in Seq(Requests)
    BY <1>8 DEF Answer, TypeOK
  <2>2. /\ outcome' \in [Requests -> Outcome \cup {None}]
        /\ rpc' \in [Requests -> {"none", "waiting", "sent", "answered", "dropped"}]
    BY <1>8, <2>1, DeliverType, OutcomeType DEF Answer, GrpcCode
  <2> QED
    BY <1>8, <2>1, <2>2 DEF Answer, TypeOK
<1>9. ASSUME Crash PROVE TypeOK'
  <2>1. GrpcStatus("Other") \in Outcome
    BY OutcomeType DEF GrpcCode
  <2>2. /\ outcome' \in [Requests -> Outcome \cup {None}]
        /\ rpc' \in [Requests -> {"none", "waiting", "sent", "answered", "dropped"}]
    BY <1>9, <2>1 DEF Crash, TypeOK
  <2>3. queue' \in Seq(Requests) /\ crashes' \in Nat
    BY <1>9 DEF Crash, TypeOK
  <2> QED
    BY <1>9, <2>2, <2>3 DEF Crash, TypeOK
<1>10. ASSUME Restart PROVE TypeOK'
  BY <1>10 DEF Restart, TypeOK
<1>11. CASE UNCHANGED vars
  BY <1>11 DEF vars, TypeOK
<1> QED
  BY <1>1, <1>2, <1>3, <1>4, <1>5, <1>6, <1>7, <1>8, <1>9, <1>10, <1>11 DEF Next, Finished

\* Type correctness for every set of requests, every configuration and
\* every answer of the service: no counter, context or queue leaves its type.
THEOREM TypeCorrect == Spec => []TypeOK
BY InitType, NextType, PTL DEF Spec

-----------------------------------------------------------------------------
(* What each phase knows of a request.                                     *)

\* A request that a step does not touch stays what it was.
LEMMA PhaseFrame ==
  ASSUME NEW q \in Requests, PhaseInv(q), UNCHANGED <<config, input>>,
         pc'[q] = pc[q], ctx'[q] = ctx[q], rpc'[q] = rpc[q], outcome'[q] = outcome[q],
         elapsed'[q] = elapsed[q], generated'[q] = generated[q]
  PROVE  PhaseInv(q)'
<1>1. Verdict(q)' = Verdict(q)
  BY DEF Verdict, Written, strip_client_provenance, classify
<1> QED
  BY <1>1 DEF PhaseInv

\* A step of the timer, the channel or the service: it moves calls that are
\* in flight and budgets of requests that await, and nothing else.
InFlightStep ==
  /\ UNCHANGED <<config, input, pc, ctx, generated, request_counter, metricVars>>
  /\ \A q \in Requests :
       /\ \/ rpc'[q] = rpc[q] /\ outcome'[q] = outcome[q]
          \/ rpc[q] \in {"waiting", "sent"} /\ rpc'[q] \in {"waiting", "sent", "answered"}
       /\ pc[q] # "awaiting" => elapsed'[q] = elapsed[q]

LEMMA DeliverInFlight ==
  ASSUME TypeOK, NEW r \in Requests, NEW result, Deliver(r, result), NEW q \in Requests
  PROVE  \/ rpc'[q] = rpc[q] /\ outcome'[q] = outcome[q]
         \/ rpc[q] \in {"waiting", "sent"} /\ rpc'[q] \in {"waiting", "sent", "answered"}
<1>1. CASE rpc[r] \in {"waiting", "sent"}
  BY <1>1 DEF Deliver, TypeOK
<1>2. CASE rpc[r] \notin {"waiting", "sent"}
  BY <1>2 DEF Deliver
<1> QED
  BY <1>1, <1>2

LEMMA InFlightActions ==
  ASSUME TypeOK,
         \/ \E r \in Requests : BudgetElapses(r) \/ ConnectRefused(r) \/ Admit(r)
         \/ Connect \/ Answer \/ Crash \/ Restart \/ UNCHANGED vars
  PROVE  InFlightStep
<1> USE DEF filterVars, futureVars, serviceVars, metricVars
<1>1. ASSUME NEW r \in Requests, BudgetElapses(r) PROVE InFlightStep
  BY <1>1 DEF BudgetElapses, InFlightStep, TypeOK
<1>2. ASSUME NEW r \in Requests, ConnectRefused(r) PROVE InFlightStep
  <2>1. Deliver(r, GrpcStatus("Other"))
    BY <1>2 DEF ConnectRefused
  <2> QED
    BY <1>2, <2>1, DeliverInFlight DEF ConnectRefused, InFlightStep
<1>3. ASSUME NEW r \in Requests, Admit(r) PROVE InFlightStep
  <2>1. ASSUME NEW q \in Requests
        PROVE  \/ rpc'[q] = rpc[q] /\ outcome'[q] = outcome[q]
               \/ rpc[q] \in {"waiting", "sent"} /\ rpc'[q] \in {"waiting", "sent", "answered"}
    <3>1. CASE rpc' = [rpc EXCEPT ![r] = "sent"] /\ UNCHANGED outcome
      BY <1>3, <3>1 DEF Admit, TypeOK
    <3>2. CASE Deliver(r, GrpcStatus("ResourceExhausted"))
      BY <3>2, DeliverInFlight
    <3>3. CASE Deliver(r, GrpcStatus("InvalidArgument"))
      BY <3>3, DeliverInFlight
    <3> QED
      BY <1>3, <3>1, <3>2, <3>3 DEF Admit
  <2> QED
    BY <1>3, <2>1 DEF Admit, InFlightStep
<1>4. ASSUME Answer PROVE InFlightStep
  <2>1. Head(queue) \in Requests
    BY <1>4 DEF Answer, TypeOK
  <2>2. PICK result : Deliver(Head(queue), result)
    BY <1>4 DEF Answer
  <2> QED
    BY <1>4, <2>1, <2>2, DeliverInFlight DEF Answer, InFlightStep
<1>5. ASSUME Crash PROVE InFlightStep
  BY <1>5 DEF Crash, InFlightStep
<1>6. ASSUME Connect \/ Restart \/ UNCHANGED vars PROVE InFlightStep
  BY <1>6 DEF Connect, Restart, InFlightStep, vars
<1> QED
  BY <1>1, <1>2, <1>3, <1>4, <1>5, <1>6

LEMMA NextPhase ==
  ASSUME TypeOK, \A r \in Requests : PhaseInv(r), [Next]_vars
  PROVE  \A r \in Requests : PhaseInv(r)'
<1> USE DEF filterVars, futureVars, serviceVars, metricVars
<1>1. ASSUME NEW r \in Requests, OnRequestSkip(r), NEW q \in Requests PROVE PhaseInv(q)'
  <2>1. CASE q = r
    <3>1. ctx'[r] = Written(r, SkipDecision(config), FALSE) /\ pc'[r] = "done"
      BY <1>1 DEF OnRequestSkip, apply, TypeOK
    <3>2. Verdict(r)' = Written(r, SkipDecision(config), FALSE)
      BY <1>1 DEF OnRequestSkip, Verdict, Written, strip_client_provenance
    <3>3. rpc'[r] = "none" /\ ~input'[r].prompt
      BY <1>1 DEF OnRequestSkip, PhaseInv
    <3> QED
      BY <2>1, <3>1, <3>2, <3>3 DEF PhaseInv
  <2>2. CASE q # r
    <3>1. pc'[q] = pc[q] /\ ctx'[q] = ctx[q]
      BY <1>1, <2>2 DEF OnRequestSkip, apply, TypeOK
    <3> QED
      BY <1>1, <3>1, PhaseFrame DEF OnRequestSkip
  <2> QED
    BY <2>1, <2>2
<1>2. ASSUME NEW r \in Requests, OnRequestClassify(r), NEW q \in Requests PROVE PhaseInv(q)'
  <2>1. CASE q = r
    BY <1>2, <2>1 DEF OnRequestClassify, PhaseInv, TypeOK
  <2>2. CASE q # r
    <3>1. pc'[q] = pc[q] /\ rpc'[q] = rpc[q] /\ generated'[q] = generated[q]
      BY <1>2, <2>2 DEF OnRequestClassify, take_request_id, TypeOK
    <3> QED
      BY <1>2, <3>1, PhaseFrame DEF OnRequestClassify
  <2> QED
    BY <2>1, <2>2
<1>3. ASSUME NEW r \in Requests, Resume(r), NEW q \in Requests PROVE PhaseInv(q)'
  <2>1. CASE q = r
    <3>1. /\ ctx'[r] = Written(r, decide(config, classify(r)), TRUE)
          /\ pc'[r] = "done" /\ rpc'[r] = "dropped"
      BY <1>3 DEF Resume, apply, TypeOK
    <3>2. input'[r].prompt
      BY <1>3 DEF Resume, PhaseInv
    <3>3. Verdict(r)' = Written(r, decide(config, classify(r)), TRUE)
      BY <1>3, <3>2 DEF Resume, Verdict, Written, strip_client_provenance, classify
    <3> QED
      BY <2>1, <3>1, <3>2, <3>3 DEF PhaseInv
  <2>2. CASE q # r
    <3>1. pc'[q] = pc[q] /\ ctx'[q] = ctx[q] /\ rpc'[q] = rpc[q]
      BY <1>3, <2>2 DEF Resume, apply, TypeOK
    <3> QED
      BY <1>3, <3>1, PhaseFrame DEF Resume
  <2> QED
    BY <2>1, <2>2
<1>4. ASSUME InFlightStep, NEW q \in Requests PROVE PhaseInv(q)'
  <2>1. CASE rpc'[q] = rpc[q] /\ outcome'[q] = outcome[q] /\ elapsed'[q] = elapsed[q]
    BY <1>4, <2>1, PhaseFrame DEF InFlightStep
  <2>2. CASE pc[q] = "awaiting"
    BY <1>4, <2>2 DEF InFlightStep, PhaseInv
  <2>3. CASE rpc[q] \in {"waiting", "sent"}
    <3>1. pc[q] = "awaiting"
      BY <2>3 DEF PhaseInv, TypeOK
    <3> QED
      BY <2>2, <3>1
  <2> QED
    BY <1>4, <2>1, <2>2, <2>3 DEF InFlightStep
<1> QED
  BY <1>1, <1>2, <1>3, <1>4, InFlightActions DEF Next, Finished

-----------------------------------------------------------------------------
(* The connection.                                                         *)

LEMMA NextConnection ==
  ASSUME TypeOK, \A r \in Requests : PhaseInv(r), ConnectionInv, [Next]_vars
  PROVE  ConnectionInv'
<1> USE DEF filterVars, futureVars, serviceVars, metricVars
<1>1. ASSUME NEW r \in Requests, OnRequestSkip(r) PROVE ConnectionInv'
  BY <1>1 DEF OnRequestSkip, ConnectionInv
<1>2. ASSUME NEW r \in Requests, OnRequestClassify(r) PROVE ConnectionInv'
  <2>1. rpc'[r] # "none"
    BY <1>2 DEF OnRequestClassify, TypeOK
  <2> QED
    BY <1>2, <2>1 DEF OnRequestClassify, ConnectionInv
<1>3. ASSUME NEW r \in Requests, Resume(r) PROVE ConnectionInv'
  <2>1. rpc'[r] # "none"
    BY <1>3 DEF Resume, TypeOK
  <2> QED
    BY <1>3, <2>1 DEF Resume, ConnectionInv
<1>4. ASSUME InFlightStep, channel \in BOOLEAN, channel' = channel,
             \/ UNCHANGED <<accepts, crashes, connection>>
             \/ Connect
             \/ Crash
      PROVE ConnectionInv'
  <2>1. channel' => \E r \in Requests : rpc'[r] # "none"
    BY <1>4 DEF InFlightStep, ConnectionInv
  <2>2. accepts' > 0 => channel'
    BY <1>4 DEF Connect, Crash, ConnectionInv, TypeOK
  <2>3. accepts' <= crashes' + (IF connection' THEN 1 ELSE 0)
    BY <1>4 DEF Connect, Crash, ConnectionInv, TypeOK
  <2> QED
    BY <2>1, <2>2, <2>3 DEF ConnectionInv
<1>5. ASSUME NEW r \in Requests, BudgetElapses(r) \/ ConnectRefused(r) \/ Admit(r)
      PROVE ConnectionInv'
  BY <1>5, <1>4, InFlightActions DEF BudgetElapses, ConnectRefused, Admit, TypeOK
<1>6. ASSUME Connect \/ Answer \/ Crash \/ Restart \/ UNCHANGED vars PROVE ConnectionInv'
  <2>1. channel' = channel /\ channel \in BOOLEAN
    BY <1>6 DEF Connect, Answer, Crash, Restart, vars, TypeOK
  <2>2. UNCHANGED <<accepts, crashes, connection>> \/ Connect \/ Crash
    BY <1>6 DEF Answer, Restart, vars
  <2> QED
    BY <1>4, <1>6, <2>1, <2>2, InFlightActions
<1> QED
  BY <1>1, <1>2, <1>3, <1>5, <1>6 DEF Next, Finished

-----------------------------------------------------------------------------
(* The generated ids.                                                      *)

LEMMA NextIds ==
  ASSUME TypeOK, \A r \in Requests : PhaseInv(r), IdsInv, [Next]_vars
  PROVE  IdsInv'
<1> USE DEF filterVars, futureVars, serviceVars, metricVars
<1>1. ASSUME UNCHANGED <<request_counter, generated>> PROVE IdsInv'
  BY <1>1 DEF IdsInv, Numbered, GeneratedIdsDistinct
<1>2. ASSUME NEW r \in Requests, OnRequestClassify(r) PROVE IdsInv'
  <2>1. CASE input[r].request_id
    BY <1>1, <1>2, <2>1 DEF OnRequestClassify, take_request_id
  <2>2. CASE ~input[r].request_id
    <3> DEFINE n == Cardinality(Numbered)
    <3>1. generated' = [generated EXCEPT ![r] = request_counter] /\ generated[r] = None
      BY <1>2, <2>2 DEF OnRequestClassify, take_request_id, PhaseInv
    <3>2. request_counter \in Nat /\ request_counter # None
      BY FilterAssumption DEF TypeOK
    <3>3. Numbered' = Numbered \cup {r} /\ r \notin Numbered
      BY <3>1, <3>2 DEF Numbered, TypeOK
    <3>4. IsFiniteSet(Numbered)
      BY FilterAssumption, FS_Subset DEF Numbered
    <3>5. n \in Nat /\ Cardinality(Numbered') = n + 1
      BY <3>3, <3>4, FS_AddElement, FS_CardinalityType
    <3>6. n + 1 <= CounterModulus
      <4>1. Cardinality(Numbered') <= Cardinality(Requests)
        BY <3>3, FilterAssumption, FS_Subset DEF Numbered
      <4> QED
        BY <4>1, <3>5, FilterAssumption, FS_CardinalityType
    <3>7. request_counter = n
      BY <3>5, <3>6, FilterAssumption DEF IdsInv
    <3>8. \A q \in Numbered' : generated'[q] = IF q = r THEN n ELSE generated[q]
      BY <3>1, <3>7 DEF Numbered, TypeOK
    <3>9. n + 1 < CounterModulus => request_counter' = n + 1
      BY <1>2, <2>2, <3>5, <3>7 DEF OnRequestClassify, take_request_id
    <3>10. \A q \in Numbered' : generated'[q] \in Nat /\ generated'[q] < n + 1
      BY <3>3, <3>5, <3>8 DEF IdsInv
    <3>11. GeneratedIdsDistinct'
      BY <3>3, <3>5, <3>8 DEF IdsInv, GeneratedIdsDistinct, Numbered
    <3> QED
      BY <3>5, <3>9, <3>10, <3>11 DEF IdsInv
  <2> QED
    BY <2>1, <2>2
<1>3. ASSUME NEW r \in Requests, OnRequestSkip(r) \/ Resume(r) PROVE IdsInv'
  BY <1>1, <1>3 DEF OnRequestSkip, Resume
<1>4. ASSUME InFlightStep PROVE IdsInv'
  BY <1>1, <1>4 DEF InFlightStep
<1> QED
  BY <1>2, <1>3, <1>4, InFlightActions DEF Next, Finished

-----------------------------------------------------------------------------
(* The metrics.                                                            *)

\* Counting one more request, if it belongs to what is counted.
LEMMA CountOneMore ==
  ASSUME NEW S \in SUBSET Requests, NEW S2, NEW r \in Requests, r \notin S, NEW b \in BOOLEAN,
         \A q \in Requests : q \in S2 <=> q \in S \/ (q = r /\ b), S2 \subseteq Requests
  PROVE  /\ Cardinality(S2) = Cardinality(S) + (IF b THEN 1 ELSE 0)
         /\ Cardinality(S) \in Nat
<1>1. IsFiniteSet(S)
  BY FilterAssumption, FS_Subset
<1>2. CASE b
  <2>1. S2 = S \cup {r}
    BY <1>2
  <2> QED
    BY <1>1, <1>2, <2>1, FS_AddElement, FS_CardinalityType
<1>3. CASE ~b
  <2>1. S2 = S
    BY <1>3
  <2> QED
    BY <1>1, <1>3, <2>1, FS_CardinalityType
<1> QED
  BY <1>2, <1>3

\* What the three metrics count.
Ended(s) == {r \in Requests : Done(r) /\ ctx[r].status = s}
Timed == {r \in Requests : Done(r) /\ Attempted(r)}
Routed(l, c) ==
  {r \in Requests : Done(r) /\ ctx[r].route = c /\ metric_label(config, ctx[r]) = l}

\* A step that decides no request leaves the account as it is.
LEMMA UndecidedMetrics ==
  ASSUME MetricsAccount, UNCHANGED <<config, ctx, metricVars>>,
         \A r \in Requests : Done(r)' <=> Done(r),
         \A r \in Requests : Done(r) => (Attempted(r)' <=> Attempted(r))
  PROVE  MetricsAccount'
<1>1. \A s \in StatusValues : Ended(s)' = Ended(s)
  BY DEF Ended
<1>2. Timed' = Timed
  BY DEF Timed
<1>3. \A l \in RouteLabels, c \in Clusters : Routed(l, c)' = Routed(l, c)
  BY DEF Routed
<1> QED
  BY <1>1, <1>2, <1>3 DEF MetricsAccount, Ended, Timed, Routed, metricVars

\* A step that decides request r adds it to the account, once.
LEMMA DecidedMetrics ==
  ASSUME TypeOK, MetricsAccount, NEW r \in Requests, NEW d \in DecisionRecord,
         NEW measured \in BOOLEAN, apply(r, d, measured), UNCHANGED config,
         ~Done(r), pc' = [pc EXCEPT ![r] = "done"], Attempted(r)' <=> measured,
         \A q \in Requests \ {r} : Attempted(q)' <=> Attempted(q)
  PROVE  MetricsAccount'
<1>1. ctx'[r] = Written(r, d, measured) /\ \A q \in Requests \ {r} : ctx'[q] = ctx[q]
  BY DEF apply, TypeOK
<1>2. /\ ctx'[r].status = d.status /\ ctx'[r].route = d.route
      /\ metric_label(config', ctx'[r]) = metric_label(config, d)
  BY <1>1 DEF Written, metric_label
<1>3. Done(r)' /\ \A q \in Requests \ {r} : Done(q)' <=> Done(q)
  BY DEF Done, TypeOK
<1>4. ASSUME NEW s \in StatusValues PROVE classify_total'[s] = Cardinality(Ended(s)')
  <2>1. /\ Cardinality(Ended(s)') = Cardinality(Ended(s)) + (IF d.status = s THEN 1 ELSE 0)
        /\ Cardinality(Ended(s)) \in Nat
    <3>1. \A q \in Requests : q \in Ended(s)' <=> q \in Ended(s) \/ (q = r /\ d.status = s)
      BY <1>1, <1>2, <1>3 DEF Ended
    <3>2. r \notin Ended(s) /\ Ended(s) \in SUBSET Requests /\ Ended(s)' \subseteq Requests
      BY DEF Ended
    <3>3. (d.status = s) \in BOOLEAN
      OBVIOUS
    <3> HIDE DEF Ended
    <3> QED
      BY <3>1, <3>2, <3>3, CountOneMore
  <2>2. d.status \in StatusValues /\ classify_total \in [StatusValues -> Nat]
    BY DEF DecisionRecord, TypeOK
  <2>3. classify_total'[s] = classify_total[s] + (IF d.status = s THEN 1 ELSE 0)
    BY <2>2 DEF apply
  <2>4. classify_total[s] = Cardinality(Ended(s))
    BY DEF MetricsAccount, Ended
  <2> QED
    BY <2>1, <2>3, <2>4
<1>5. duration_count' = Cardinality(Timed')
  <2>1. /\ Cardinality(Timed') = Cardinality(Timed) + (IF measured THEN 1 ELSE 0)
        /\ Cardinality(Timed) \in Nat
    <3>1. \A q \in Requests : q \in Timed' <=> q \in Timed \/ (q = r /\ measured)
      BY <1>3 DEF Timed
    <3>2. r \notin Timed /\ Timed \in SUBSET Requests /\ Timed' \subseteq Requests
      BY DEF Timed
    <3> HIDE DEF Timed
    <3> QED
      BY <3>1, <3>2, CountOneMore
  <2>2. duration_count = Cardinality(Timed)
    BY DEF MetricsAccount, Timed
  <2> QED
    BY <2>1, <2>2 DEF apply
<1>6. ASSUME NEW l \in RouteLabels, NEW c \in Clusters
      PROVE  route_total'[<<l, c>>] = Cardinality(Routed(l, c)')
  <2> DEFINE here == d.route = c /\ metric_label(config, d) = l
  <2>1. /\ Cardinality(Routed(l, c)') = Cardinality(Routed(l, c)) + (IF here THEN 1 ELSE 0)
        /\ Cardinality(Routed(l, c)) \in Nat
    <3>1. \A q \in Requests : q \in Routed(l, c)' <=> q \in Routed(l, c) \/ (q = r /\ here)
      BY <1>1, <1>2, <1>3 DEF Routed
    <3>2. /\ r \notin Routed(l, c) /\ Routed(l, c) \in SUBSET Requests
          /\ Routed(l, c)' \subseteq Requests
      BY DEF Routed
    <3>3. here \in BOOLEAN
      OBVIOUS
    <3> HIDE DEF Routed, here
    <3> QED
      BY <3>1, <3>2, <3>3, CountOneMore
  <2>2. route_total \in [RouteLabels \X Clusters -> Nat]
    BY DEF TypeOK
  <2>3. route_total'[<<l, c>>] = route_total[<<l, c>>] + (IF here THEN 1 ELSE 0)
    <3>1. CASE d.route = Reject
      <4>1. ~here
        BY <3>1, NoneAssumption
      <4>2. route_total' = route_total
        BY <3>1 DEF apply
      <4>3. route_total[<<l, c>>] \in Nat
        BY <2>2
      <4> HIDE DEF here
      <4> QED
        BY <4>1, <4>2, <4>3
    <3>2. CASE d.route # Reject
      <4>1. route_total' = [route_total EXCEPT ![<<metric_label(config, d), d.route>>] = @ + 1]
        BY <3>2 DEF apply
      <4>2. <<metric_label(config, d), d.route>> \in RouteLabels \X Clusters
        BY <3>2, MetricLabelType DEF DecisionRecord, TypeOK
      <4>3. route_total[<<l, c>>] \in Nat
        BY <2>2
      <4> HIDE DEF RouteLabels
      <4> QED
        BY <2>2, <4>1, <4>2, <4>3
    <3> QED
      BY <3>1, <3>2
  <2>4. route_total[<<l, c>>] = Cardinality(Routed(l, c))
    BY DEF MetricsAccount, Routed
  <2> HIDE DEF here
  <2> QED
    BY <2>1, <2>3, <2>4
<1> QED
  BY <1>4, <1>5, <1>6 DEF MetricsAccount, Ended, Timed, Routed

LEMMA NextMetrics ==
  ASSUME TypeOK, \A r \in Requests : PhaseInv(r), MetricsAccount, [Next]_vars
  PROVE  MetricsAccount'
<1> USE DEF filterVars, futureVars, serviceVars
<1>1. ASSUME NEW r \in Requests, OnRequestSkip(r) PROVE MetricsAccount'
  <2>1. ~Done(r) /\ ~Attempted(r)'
    BY <1>1 DEF OnRequestSkip, PhaseInv, Done, Attempted
  <2>2. \A q \in Requests : Attempted(q)' <=> Attempted(q)
    BY <1>1 DEF OnRequestSkip, Attempted
  <2> QED
    BY <1>1, <2>1, <2>2, TakenDecisions, DecidedMetrics DEF OnRequestSkip
<1>2. ASSUME NEW r \in Requests, Resume(r) PROVE MetricsAccount'
  <2>1. ~Done(r) /\ Attempted(r)'
    BY <1>2 DEF Resume, Done, Attempted, TypeOK
  <2>2. \A q \in Requests \ {r} : Attempted(q)' <=> Attempted(q)
    BY <1>2 DEF Resume, Attempted, TypeOK
  <2> QED
    BY <1>2, <2>1, <2>2, TakenDecisions, DecidedMetrics DEF Resume
<1>3. ASSUME NEW r \in Requests, OnRequestClassify(r) PROVE MetricsAccount'
  <2>1. \A q \in Requests : Done(q)' <=> Done(q)
    BY <1>3 DEF OnRequestClassify, Done, TypeOK
  <2>2. \A q \in Requests : Done(q) => (Attempted(q)' <=> Attempted(q))
    BY <1>3 DEF OnRequestClassify, Done, Attempted, TypeOK
  <2> QED
    BY <1>3, <2>1, <2>2, UndecidedMetrics DEF OnRequestClassify
<1>4. ASSUME InFlightStep PROVE MetricsAccount'
  <2>1. \A q \in Requests : Done(q)' <=> Done(q)
    BY <1>4 DEF InFlightStep, Done
  <2>2. \A q \in Requests : Done(q) => (Attempted(q)' <=> Attempted(q))
    BY <1>4 DEF InFlightStep, Done, Attempted
  <2> QED
    BY <1>4, <2>1, <2>2, UndecidedMetrics DEF InFlightStep
<1> QED
  BY <1>1, <1>2, <1>3, <1>4, InFlightActions DEF Next, Finished

-----------------------------------------------------------------------------
(* The invariant.                                                          *)

LEMMA InitInv == Init => IInv
<1> SUFFICES ASSUME Init PROVE IInv
  OBVIOUS
<1>1. TypeOK
  BY InitType
<1>2. \A r \in Requests : PhaseInv(r)
  BY DEF Init, PhaseInv
<1>3. ConnectionInv
  BY DEF Init, ConnectionInv
<1>4. IdsInv
  <2>1. Numbered = {}
    BY DEF Init, Numbered
  <2> QED
    BY <2>1, FS_EmptySet DEF Init, IdsInv, GeneratedIdsDistinct
<1>5. MetricsAccount
  <2>1. \A r \in Requests : ~Done(r)
    BY DEF Init, Done
  <2>2. \A s \in StatusValues : Ended(s) = {} /\ classify_total[s] = 0
    BY <2>1 DEF Ended, Init
  <2>3. Timed = {} /\ duration_count = 0
    BY <2>1 DEF Timed, Init
  <2>4. \A l \in RouteLabels, c \in Clusters : Routed(l, c) = {} /\ route_total[<<l, c>>] = 0
    BY <2>1 DEF Routed, Init
  <2> QED
    BY <2>2, <2>3, <2>4, FS_EmptySet DEF MetricsAccount, Ended, Timed, Routed
<1> QED
  BY <1>1, <1>2, <1>3, <1>4, <1>5 DEF IInv

LEMMA NextInv == IInv /\ [Next]_vars => IInv'
<1> SUFFICES ASSUME IInv, [Next]_vars PROVE IInv'
  OBVIOUS
<1> USE DEF IInv
<1>1. TypeOK'
  BY NextType
<1>2. \A r \in Requests : PhaseInv(r)'
  BY NextPhase
<1>3. ConnectionInv'
  BY NextConnection
<1>4. IdsInv'
  BY NextIds
<1>5. MetricsAccount'
  BY NextMetrics
<1> QED
  BY <1>1, <1>2, <1>3, <1>4, <1>5

LEMMA Invariant == Spec => []IInv
BY InitInv, NextInv, PTL DEF Spec

-----------------------------------------------------------------------------
(* What follows from it.                                                   *)

\* The three metrics count each decision exactly once, for any number of
\* requests in any interleaving with the service (metrics.rs, filter.rs apply).
THEOREM MetricsAreExact == Spec => []MetricsAccount
<1>1. IInv => MetricsAccount
  BY DEF IInv
<1> QED
  BY <1>1, Invariant, PTL

\* No two requests are classified under the same generated id, as long as
\* the counter does not wrap among them (filter.rs request_id).
THEOREM IdsAreDistinct == Spec => []GeneratedIdsDistinct
<1>1. IInv => GeneratedIdsDistinct
  BY DEF IInv, IdsInv
<1> QED
  BY <1>1, Invariant, PTL

\* One connection at a time, a new one only after a crash (client.rs).
THEOREM ConnectionIsShared == Spec => []OneConnection
<1>1. IInv => OneConnection
  BY DEF IInv, ConnectionInv, OneConnection, Attempted, TypeOK
<1> QED
  BY <1>1, Invariant, PTL

\* The decision of an outcome refuses the request exactly when the posture
\* of its status says so, and sends it to the default cluster when nothing
\* was routed.
LEMMA DecisionPosture ==
  ASSUME TypeOK, NEW o \in Outcome,
         NEW d, d = decide(config, o)
  PROVE  /\ d.route = Reject <=> Posture(d.status) = "reject"
         /\ d.route # Reject /\ d.status # "OK" => d.route = config.default_cluster
<1> DEFINE default == config.default_cluster
<1>1. config \in Config /\ default \in Clusters /\ default # Reject
  BY NoneAssumption DEF TypeOK, Config
<1>2. CASE o = Timeout
  BY <1>1, <1>2 DEF Timeout, decide, fallback, Posture
<1>3. CASE o \in {GrpcStatus(code) : code \in GrpcCode}
  <2>1. PICK code \in GrpcCode : o = [kind |-> "Status", code |-> code]
    BY <1>3 DEF GrpcStatus
  <2>2. d = StatusDecision(config, code)
    BY <2>1 DEF decide
  <2> QED
    BY <1>1, <2>1, <2>2 DEF StatusDecision, fallback, Posture, GrpcCode
<1>4. CASE o \in Response
  <2>1. /\ o.kind = "Response" /\ o.status \in WireStatus
        /\ o.ranked \in Seq(Signal)
        /\ d = ResponseDecision(config, o)
    BY <1>4 DEF decide, Response
  <2>2. CASE o.status # "OK" \/ o.ranked = << >>
    BY <1>1, <2>1, <2>2 DEF ResponseDecision, fallback, Posture, WireStatus
  <2>3. CASE o.status = "OK" /\ o.ranked # << >>
    <3> DEFINE top == top_signal(o.ranked)
    <3>1. d = RankedDecision(config, top, o.revision)
      BY <2>1, <2>3 DEF ResponseDecision
    <3>2. top \in Signal
      BY <2>1, <2>3, TopSignal
    <3>3. config.routes[top.label] \in Clusters \cup {None}
      BY <1>1, <3>2 DEF Config, Signal
    <3>4. d.status \in {"OK", "LOW_CONFIDENCE", "UNMAPPED_LABEL"} /\ d.route \in Clusters
      BY <1>1, <3>1, <3>3 DEF RankedDecision
    <3>5. d.status # "OK" => d.route = default
      BY <3>1 DEF RankedDecision
    <3>6. Posture(d.status) = "default_cluster" /\ d.route # Reject
      BY <3>4, NoneAssumption DEF Posture
    <3> QED
      BY <3>5, <3>6
  <2> QED
    BY <2>2, <2>3
<1> QED
  BY <1>2, <1>3, <1>4 DEF Outcome

\* A request is refused only by the operator's posture for the kind of
\* failure that happened to it, whatever the configuration and the answer.
THEOREM RefusedOnlyByPosture == Spec => []RejectedByPosture
<1>1. ASSUME IInv PROVE RejectedByPosture
  <2> SUFFICES ASSUME NEW r \in Requests, Done(r)
               PROVE  /\ ctx[r].route = Reject <=> Posture(ctx[r].status) = "reject"
                      /\ ctx[r].route # Reject /\ ctx[r].status # "OK" =>
                           ctx[r].route = config.default_cluster
    BY DEF RejectedByPosture
  <2>1. ctx[r] = Verdict(r) /\ TypeOK
    BY <1>1 DEF IInv, PhaseInv, Done
  <2>2. CASE input[r].prompt
    <3>1. classify(r) \in Outcome
      BY <2>1 DEF classify, TypeOK, Outcome
    <3>2. /\ ctx[r].route = decide(config, classify(r)).route
          /\ ctx[r].status = decide(config, classify(r)).status
      BY <2>1, <2>2 DEF Verdict, Written
    <3> QED
      BY <2>1, <3>1, <3>2, DecisionPosture
  <2>3. CASE ~input[r].prompt
    <3>1. ctx[r].route = config.default_cluster /\ ctx[r].status = "SKIPPED_NO_PROMPT"
      BY <2>1, <2>3 DEF Verdict, Written, SkipDecision, fallback
    <3>2. config.default_cluster # Reject
      BY <2>1, NoneAssumption DEF TypeOK, Config
    <3> QED
      BY <3>1, <3>2 DEF Posture
  <2> QED
    BY <2>2, <2>3
<1> QED
  BY <1>1, Invariant, PTL

\* No forged x-llm-d-sc-* header survives, and none is added without
\* emit_headers, on any path through on_request.
THEOREM ProvenanceIsTheFilters == Spec => []NoForgedProvenance
<1>1. ASSUME IInv PROVE NoForgedProvenance
  <2> SUFFICES ASSUME NEW r \in Requests, Done(r), NEW h \in ProvenanceHeaders \cup {"other"}
               PROVE  /\ UpstreamHeader(r, h) # "client"
                      /\ UpstreamHeader(r, h) = "filter" => config.emit_headers
    BY DEF NoForgedProvenance
  <2>1. ctx[r] = Verdict(r)
    BY <1>1 DEF IInv, PhaseInv, Done
  <2>2. /\ ctx[r].remove = input[r].forged
        /\ ~config.emit_headers => ctx[r].set = {}
    <3>1. PICK d, measured : ctx[r] = Written(r, d, measured)
      BY <2>1 DEF Verdict
    <3>2. ctx[r].remove = strip_client_provenance(r)
      BY <3>1 DEF Written
    <3>3. ctx[r].set = IF config.emit_headers THEN emit_headers(d, measured) ELSE {}
      BY <3>1 DEF Written
    <3> QED
      BY <3>2, <3>3 DEF strip_client_provenance
  <2> QED
    BY <2>2 DEF UpstreamHeader
<1> QED
  BY <1>1, Invariant, PTL

\* A latency is reported for exactly the requests that attempted a call.
THEOREM LatencyIsMeasured == Spec => []LatencyMeansAttempted
<1>1. ASSUME IInv PROVE LatencyMeansAttempted
  <2> SUFFICES ASSUME NEW r \in Requests, Done(r)
               PROVE  /\ ctx[r].latency <=> Attempted(r)
                      /\ "latency" \in ctx[r].set <=> config.emit_headers /\ Attempted(r)
    BY DEF LatencyMeansAttempted
  <2>1. ctx[r] = Verdict(r) /\ input[r] \in Input /\ config.emit_headers \in BOOLEAN
    BY <1>1 DEF IInv, PhaseInv, Done, TypeOK, Config
  <2>2. Attempted(r) <=> input[r].prompt
    BY <1>1 DEF IInv, PhaseInv, Done, Attempted
  <2>3. ctx[r].latency <=> input[r].prompt
    BY <2>1 DEF Verdict, Written, Input
  <2>4. "latency" \in ctx[r].set <=> config.emit_headers /\ input[r].prompt
    BY <2>1 DEF Verdict, Written, emit_headers, Input
  <2> QED
    BY <2>2, <2>3, <2>4
<1> QED
  BY <1>1, Invariant, PTL

\* Only labels and clusters the operator named appear in the route series,
\* whatever labels the classifier puts on the wire (metrics.rs cardinality).
THEOREM SeriesAreBounded == Spec => []SeriesBounded
<1>1. ASSUME IInv PROVE SeriesBounded
  <2> SUFFICES ASSUME NEW l \in RouteLabels, NEW c \in Clusters, route_total[<<l, c>>] > 0
               PROVE  /\ l \in StatusValues \cup {Unmapped} \/ config.routes[l] # None
                      /\ c \in all_clusters(config)
    BY DEF SeriesBounded
  <2>1. TypeOK /\ MetricsAccount
    BY <1>1 DEF IInv
  <2>2. PICK r \in Requests : Done(r) /\ ctx[r].route = c /\ metric_label(config, ctx[r]) = l
    <3>1. Cardinality(Routed(l, c)) > 0
      BY <2>1 DEF MetricsAccount, Routed
    <3>2. Routed(l, c) # {}
      BY <3>1, FS_EmptySet
    <3> QED
      BY <3>2 DEF Routed
  <2>3. PICK d \in DecisionRecord :
          /\ d.route = ctx[r].route /\ d.label = ctx[r].label /\ d.status = ctx[r].status
          /\ d.route \in all_clusters(config) \cup {Reject}
    <3>1. ctx[r] = Verdict(r)
      BY <1>1, <2>2 DEF IInv, PhaseInv, Done
    <3>2. classify(r) \in Outcome
      BY <2>1 DEF classify, TypeOK, Outcome
    <3>3. /\ decide(config, classify(r)) \in DecisionRecord
          /\ decide(config, classify(r)).route \in all_clusters(config) \cup {Reject}
      BY <2>1, <3>2, DecisionType DEF TypeOK
    <3>4. SkipDecision(config) \in DecisionRecord
      BY <2>1, TakenDecisions
    <3>5. SkipDecision(config).route \in all_clusters(config)
      BY DEF SkipDecision, fallback, all_clusters
    <3> QED
      BY <3>1, <3>3, <3>4, <3>5 DEF Verdict, Written
  <2>4. c \in all_clusters(config)
    BY <2>2, <2>3, NoneAssumption
  <2>5. l \in StatusValues \cup {Unmapped} \/ config.routes[l] # None
    BY <2>2, <2>3 DEF metric_label, DecisionRecord
  <2> QED
    BY <2>4, <2>5
<1> QED
  BY <1>1, Invariant, PTL

\* What a request was given never changes, whatever the timer, a late
\* answer, a crash or a restart does afterwards.
THEOREM DecisionsAreFinal == Spec => DecidedOnce
<1>1. ASSUME IInv, [Next]_vars, NEW r \in Requests, Done(r)
      PROVE  Done(r)' /\ UNCHANGED <<ctx[r], outcome[r]>>
  <2> USE DEF IInv, filterVars, futureVars, serviceVars, metricVars
  <2>1. pc[r] = "done" /\ rpc[r] \in {"none", "dropped"}
    BY <1>1 DEF Done, PhaseInv
  <2>2. ASSUME NEW q \in Requests, OnRequestSkip(q) \/ Resume(q)
        PROVE  Done(r)' /\ UNCHANGED <<ctx[r], outcome[r]>>
    <3>1. q # r
      BY <2>1, <2>2 DEF OnRequestSkip, Resume
    <3> QED
      BY <1>1, <2>1, <2>2, <3>1 DEF OnRequestSkip, Resume, apply, Done, TypeOK
  <2>3. ASSUME NEW q \in Requests, OnRequestClassify(q)
        PROVE  Done(r)' /\ UNCHANGED <<ctx[r], outcome[r]>>
    BY <1>1, <2>1, <2>3 DEF OnRequestClassify, Done, TypeOK
  <2>4. ASSUME InFlightStep
        PROVE  Done(r)' /\ UNCHANGED <<ctx[r], outcome[r]>>
    BY <2>1, <2>4 DEF InFlightStep, Done
  <2> QED
    BY <1>1, <2>2, <2>3, <2>4, InFlightActions DEF Next, Finished
<1>2. ASSUME IInv, [Next]_vars
      PROVE  [\A r \in Requests : Done(r) => Done(r)' /\ UNCHANGED <<ctx[r], outcome[r]>>]_vars
  BY <1>1, <1>2
<1> QED
  BY <1>2, Invariant, PTL DEF Spec, DecidedOnce

-----------------------------------------------------------------------------
(* A request gets to its answer.                                           *)

\* The classify future of a request is ready: it has a result, or its budget has
\* run out.
Ready(r) == outcome[r] # None \/ elapsed[r]

\* How many steps on_request has left at most for a request.
StepsLeft(r) ==
  [on_request |-> 3, awaiting |-> IF Ready(r) THEN 1 ELSE 2, done |-> 0][pc[r]]

\* A future that is ready stays ready, whatever the channel and the service do.
LEMMA StaysReady ==
  ASSUME TypeOK, NEW q \in Requests, Ready(q),
         \/ \E r \in Requests : BudgetElapses(r) \/ ConnectRefused(r) \/ Admit(r)
         \/ Connect \/ Answer \/ Crash \/ Restart \/ UNCHANGED vars
  PROVE  Ready(q)'
<1> USE FilterAssumption DEF filterVars, futureVars, serviceVars, metricVars
<1>1. ASSUME NEW r \in Requests, NEW result \in Outcome, Deliver(r, result), UNCHANGED elapsed
      PROVE  Ready(q)'
  BY <1>1 DEF Deliver, Ready, TypeOK
<1>2. \A code \in GrpcCode : GrpcStatus(code) \in Outcome
  BY OutcomeType
<1>3. ASSUME UNCHANGED outcome, elapsed'[q] = elapsed[q] \/ elapsed'[q] PROVE Ready(q)'
  BY <1>3 DEF Ready
<1>4. ASSUME NEW r \in Requests, BudgetElapses(r) PROVE Ready(q)'
  BY <1>3, <1>4 DEF BudgetElapses, TypeOK
<1>5. ASSUME NEW r \in Requests, ConnectRefused(r) PROVE Ready(q)'
  BY <1>1, <1>2, <1>5 DEF ConnectRefused, GrpcCode
<1>6. ASSUME NEW r \in Requests, Admit(r) PROVE Ready(q)'
  <2>1. \/ outcome' = outcome
        \/ Deliver(r, GrpcStatus("ResourceExhausted"))
        \/ Deliver(r, GrpcStatus("InvalidArgument"))
    BY <1>6 DEF Admit
  <2>2. UNCHANGED elapsed
    BY <1>6 DEF Admit
  <2> QED
    BY <1>1, <1>2, <1>3, <2>1, <2>2 DEF GrpcCode
<1>7. ASSUME Answer PROVE Ready(q)'
  <2>1. Head(queue) \in Requests
    BY <1>7 DEF Answer, TypeOK
  <2>2. PICK result \in Answers \cup {GrpcStatus("Other")} : Deliver(Head(queue), result)
    BY <1>7 DEF Answer
  <2>3. result \in Outcome
    BY <1>2, <2>2, OutcomeType DEF GrpcCode
  <2>4. UNCHANGED elapsed
    BY <1>7 DEF Answer
  <2> QED
    BY <1>1, <2>1, <2>2, <2>3, <2>4
<1>8. ASSUME Crash PROVE Ready(q)'
  <2>1. GrpcStatus("Other") # None
    BY <1>2 DEF GrpcCode
  <2>2. outcome'[q] \in {outcome[q], GrpcStatus("Other")} /\ UNCHANGED elapsed
    BY <1>8 DEF Crash
  <2> QED
    BY <2>1, <2>2 DEF Ready
<1>9. ASSUME Connect \/ Restart \/ UNCHANGED vars PROVE Ready(q)'
  BY <1>3, <1>9 DEF Connect, Restart, vars
<1> QED
  BY <1>4, <1>5, <1>6, <1>7, <1>8, <1>9

\* No request is taken away from its answer by what other requests, the channel
\* and the service do, and each step of on_request and of the budget takes it
\* nearer; at each point the request has such a step of its own, which needs
\* nothing of the service.  With the fairness of FairSpec this is
\* EveryRequestAnswered.
THEOREM RequestsGetAnswers ==
  Spec => /\ [](\A r \in Requests : StepsLeft(r) \in Nat /\ (StepsLeft(r) = 0 <=> Done(r)))
          /\ [][\A r \in Requests :
                  /\ StepsLeft(r)' <= StepsLeft(r)
                  /\ OnRequestSkip(r) \/ OnRequestClassify(r) \/ Resume(r) \/ (BudgetElapses(r) /\ ~Ready(r)) =>
                       StepsLeft(r)' < StepsLeft(r)]_vars
          /\ [](\A r \in Requests : ~Done(r) =>
                  pc[r] = "on_request" \/ (pc[r] = "awaiting" /\ (Ready(r) \/ ~elapsed[r])))
<1>1. ASSUME IInv, [Next]_vars, NEW r \in Requests
      PROVE  /\ StepsLeft(r)' <= StepsLeft(r)
             /\ OnRequestSkip(r) \/ OnRequestClassify(r) \/ Resume(r) \/ (BudgetElapses(r) /\ ~Ready(r)) =>
                  StepsLeft(r)' < StepsLeft(r)
  <2> USE DEF filterVars, futureVars, serviceVars, metricVars
  <2>0. TypeOK /\ PhaseInv(r)
    BY <1>1 DEF IInv
  <2>1. CASE OnRequestSkip(r) \/ Resume(r)
    <3>1. pc[r] # "done" /\ pc'[r] = "done"
      BY <2>0, <2>1 DEF OnRequestSkip, Resume, TypeOK
    <3> QED
      BY <2>0, <3>1 DEF StepsLeft, TypeOK
  <2>2. CASE OnRequestClassify(r)
    <3>1. pc[r] = "on_request" /\ pc'[r] = "awaiting"
      BY <2>0, <2>2 DEF OnRequestClassify, TypeOK
    <3> QED
      BY <3>1 DEF StepsLeft
  <2>3. CASE BudgetElapses(r)
    <3>1. pc[r] = "awaiting" /\ pc'[r] = "awaiting" /\ Ready(r)'
      BY <2>0, <2>3 DEF BudgetElapses, TypeOK, Ready
    <3>2. ~OnRequestSkip(r) /\ ~OnRequestClassify(r) /\ ~Resume(r)
      BY <2>0, <3>1 DEF OnRequestSkip, OnRequestClassify, Resume, TypeOK
    <3> QED
      BY <3>1, <3>2 DEF StepsLeft
  <2>4. ASSUME NEW q \in Requests, q # r, OnRequestSkip(q) \/ OnRequestClassify(q) \/ Resume(q)
        PROVE  StepsLeft(r)' = StepsLeft(r)
    <3>1. pc'[r] = pc[r] /\ UNCHANGED <<outcome, elapsed>>
      BY <2>0, <2>4 DEF OnRequestSkip, OnRequestClassify, Resume, TypeOK
    <3> QED
      BY <3>1 DEF StepsLeft, Ready
  <2>5. ASSUME \/ \E q \in Requests : BudgetElapses(q) \/ ConnectRefused(q) \/ Admit(q)
               \/ Connect \/ Answer \/ Crash \/ Restart \/ UNCHANGED vars
        PROVE  UNCHANGED pc /\ StepsLeft(r)' <= StepsLeft(r)
    <3>1. UNCHANGED pc
      BY <2>0, <2>5, InFlightActions DEF InFlightStep
    <3>2. Ready(r) => Ready(r)'
      BY <2>0, <2>5, StaysReady
    <3> QED
      BY <2>0, <3>1, <3>2 DEF StepsLeft, TypeOK
  <2>6. ASSUME UNCHANGED pc PROVE ~OnRequestSkip(r) /\ ~OnRequestClassify(r) /\ ~Resume(r)
    BY <2>0, <2>6 DEF OnRequestSkip, OnRequestClassify, Resume, TypeOK
  <2>7. ASSUME NEW q \in Requests, q # r, OnRequestSkip(q) \/ OnRequestClassify(q) \/ Resume(q)
        PROVE  ~OnRequestSkip(r) /\ ~OnRequestClassify(r) /\ ~Resume(r) /\ ~BudgetElapses(r)
    <3>1. pc'[r] = pc[r] /\ pc'[q] # pc[q]
      BY <2>0, <2>7 DEF OnRequestSkip, OnRequestClassify, Resume, TypeOK
    <3> QED
      BY <2>0, <3>1 DEF OnRequestSkip, OnRequestClassify, Resume, BudgetElapses, TypeOK
  <2>8. StepsLeft(r) \in Nat
    BY <2>0 DEF StepsLeft, TypeOK
  <2> HIDE DEF StepsLeft
  <2> QED
    BY <1>1, <2>1, <2>2, <2>3, <2>4, <2>5, <2>6, <2>7, <2>8 DEF Next, Finished
<1>2. ASSUME IInv, NEW r \in Requests
      PROVE  /\ StepsLeft(r) \in Nat /\ (StepsLeft(r) = 0 <=> Done(r))
             /\ ~Done(r) => pc[r] = "on_request" \/ (pc[r] = "awaiting" /\ (Ready(r) \/ ~elapsed[r]))
  <2>1. pc[r] \in {"on_request", "awaiting", "done"}
    BY <1>2 DEF IInv, TypeOK
  <2> QED
    BY <2>1 DEF StepsLeft, Done, Ready
<1>3. ASSUME IInv, [Next]_vars
      PROVE  [\A r \in Requests :
                /\ StepsLeft(r)' <= StepsLeft(r)
                /\ OnRequestSkip(r) \/ OnRequestClassify(r) \/ Resume(r) \/ (BudgetElapses(r) /\ ~Ready(r)) =>
                     StepsLeft(r)' < StepsLeft(r)]_vars
  BY <1>1, <1>3
<1>4. IInv => \A r \in Requests : StepsLeft(r) \in Nat /\ (StepsLeft(r) = 0 <=> Done(r))
  BY <1>2
<1>5. IInv => \A r \in Requests :
        ~Done(r) => pc[r] = "on_request" \/ (pc[r] = "awaiting" /\ (Ready(r) \/ ~elapsed[r]))
  BY <1>2
<1> QED
  BY <1>3, <1>4, <1>5, Invariant, PTL DEF Spec

-----------------------------------------------------------------------------
(* The contract.                                                           *)

\* What the service, or a failed connection, can make of a call.
ServiceOutcome == Answers \cup {GrpcStatus(code) : code \in GrpcCode}

\* A future is ready with what the service made of the call and nothing else.
OutcomesInv == \A r \in Requests : outcome[r] \in ServiceOutcome \cup {None}

-----------------------------------------------------------------------------
(* The table of the contract permits what decide() decides.                *)

LEMMA DecisionPermitted ==
  ASSUME NaNs = {}, config \in Config, NEW e \in Outcome
  PROVE  Contract!Permitted(e, decide(config, e).route)
<1> DEFINE default == config.default_cluster
           v == decide(config, e).route
<1> USE DEF Contract!Permitted, Contract!Failed, Contract!PostureFor, Contract!Ranked
<1>1. default \in Clusters /\ default # Reject
  BY NoneAssumption DEF Config
<1>2. CASE e = Timeout
  BY <1>1, <1>2 DEF Timeout, decide, fallback
<1>3. CASE e \in {GrpcStatus(code) : code \in GrpcCode}
  <2>1. PICK code \in GrpcCode : e = [kind |-> "Status", code |-> code]
    BY <1>3 DEF GrpcStatus
  <2>2. v = StatusDecision(config, code).route
    BY <2>1 DEF decide
  <2> QED
    BY <1>1, <2>1, <2>2 DEF StatusDecision, fallback, GrpcCode
<1>4. CASE e \in Response
  <2>1. /\ e.kind = "Response" /\ e.status \in WireStatus /\ e.ranked \in Seq(Signal)
        /\ v = ResponseDecision(config, e).route
    BY <1>4 DEF decide, Response
  <2>2. CASE e.status # "OK" \/ e.ranked = << >>
    BY <1>1, <2>1, <2>2 DEF ResponseDecision, fallback, WireStatus
  <2>3. CASE e.status = "OK" /\ e.ranked # << >>
    <3> DEFINE top == top_signal(e.ranked)
    <3>1. v = RankedDecision(config, top, e.revision).route
      BY <2>1, <2>3 DEF ResponseDecision
    <3>2. /\ top \in Signal /\ TopIndex(e.ranked) \in DOMAIN e.ranked
          /\ \A j \in DOMAIN e.ranked : e.ranked[j].score <= top.score
      BY <2>1, <2>3, TopSignal
    <3>3. top \in Contract!BestSignals(e.ranked)
      BY <3>2 DEF Contract!BestSignals, top_signal
    <3>4. /\ top.score \in Int /\ config.min_score \in Int
          /\ config.routes[top.label] \in Clusters \cup {None}
      BY <3>2, ScoresAssumption DEF Signal, Config
    <3>5. CASE top.score < config.min_score
      <4>1. v = default
        BY <3>1, <3>4, <3>5 DEF RankedDecision, Below
      <4>2. Contract!Below(top.score, config.min_score)
        BY <3>5 DEF Contract!Below
      <4> HIDE DEF top
      <4> QED
        BY <2>1, <2>3, <3>3, <4>1, <4>2
    <3>6. CASE top.score >= config.min_score /\ config.routes[top.label] = None
      <4>1. v = default
        BY <3>1, <3>6 DEF RankedDecision
      <4> HIDE DEF top
      <4> QED
        BY <2>1, <2>3, <3>3, <3>6, <4>1
    <3>7. CASE top.score >= config.min_score /\ config.routes[top.label] # None
      <4>1. v = config.routes[top.label]
        BY <3>1, <3>4, <3>7 DEF RankedDecision, Below
      <4>2. v # Reject
        BY <3>4, <3>7, <4>1, NoneAssumption
      <4>3. Contract!Earned(e, v)
        BY <3>3, <3>7, <4>1 DEF Contract!Earned, Contract!AtLeast
      <4> HIDE DEF top
      <4> QED
        BY <2>1, <2>3, <4>2, <4>3
    <3> QED
      BY <3>4, <3>5, <3>6, <3>7
  <2> QED
    BY <2>2, <2>3
<1> QED
  BY <1>2, <1>3, <1>4 DEF Outcome

-----------------------------------------------------------------------------
(* Outcomes come from the service.                                         *)

LEMMA InitOutcomes == Init => OutcomesInv
BY DEF Init, OutcomesInv

LEMMA NextOutcomes ==
  ASSUME TypeOK, OutcomesInv, [Next]_vars
  PROVE  OutcomesInv'
<1> USE DEF filterVars, futureVars, serviceVars, metricVars
<1>1. ASSUME NEW q \in Requests, NEW result \in ServiceOutcome, Deliver(q, result)
      PROVE  OutcomesInv'
  BY <1>1 DEF Deliver, OutcomesInv, TypeOK
<1>2. \A code \in GrpcCode : GrpcStatus(code) \in ServiceOutcome
  BY DEF ServiceOutcome
<1>3. ASSUME outcome' = outcome PROVE OutcomesInv'
  BY <1>3 DEF OutcomesInv
<1>4. ASSUME NEW r \in Requests,
             OnRequestSkip(r) \/ OnRequestClassify(r) \/ BudgetElapses(r) \/ Resume(r)
      PROVE  OutcomesInv'
  BY <1>3, <1>4 DEF OnRequestSkip, OnRequestClassify, BudgetElapses, Resume
<1>5. ASSUME NEW r \in Requests, ConnectRefused(r) PROVE OutcomesInv'
  BY <1>1, <1>2, <1>5 DEF ConnectRefused, GrpcCode
<1>6. ASSUME NEW r \in Requests, Admit(r) PROVE OutcomesInv'
  <2>1. \/ outcome' = outcome
        \/ Deliver(r, GrpcStatus("ResourceExhausted"))
        \/ Deliver(r, GrpcStatus("InvalidArgument"))
    BY <1>6 DEF Admit
  <2> QED
    BY <1>1, <1>2, <1>3, <2>1 DEF GrpcCode
<1>7. ASSUME Answer PROVE OutcomesInv'
  <2>1. Head(queue) \in Requests
    BY <1>7 DEF Answer, TypeOK
  <2>2. PICK result \in Answers \cup {GrpcStatus("Other")} : Deliver(Head(queue), result)
    BY <1>7 DEF Answer
  <2>3. result \in ServiceOutcome
    BY <1>2, <2>2 DEF ServiceOutcome, GrpcCode
  <2> QED
    BY <1>1, <2>1, <2>2, <2>3
<1>8. ASSUME Crash PROVE OutcomesInv'
  <2>1. GrpcStatus("Other") \in ServiceOutcome
    BY <1>2 DEF GrpcCode
  <2>2. \A r \in Requests : outcome'[r] \in {outcome[r], GrpcStatus("Other")}
    BY <1>8 DEF Crash
  <2> QED
    BY <2>1, <2>2 DEF OutcomesInv
<1>9. ASSUME Connect \/ Restart \/ UNCHANGED vars PROVE OutcomesInv'
  BY <1>3, <1>9 DEF Connect, Restart, vars
<1> QED
  BY <1>4, <1>5, <1>6, <1>7, <1>8, <1>9 DEF Next, Finished

-----------------------------------------------------------------------------
(* The refinement.                                                         *)

\* In the initial states nobody has a verdict.
LEMMA InitContract == Init => Contract!Init
<1> SUFFICES ASSUME Init PROVE Contract!Init
  OBVIOUS
<1>1. config \in Configs
  BY DEF Init
<1>2. \A r \in Requests : EvidenceOf(r) = None
  BY DEF Init, EvidenceOf, Done
<1>3. \A r \in Requests : ctx[r].route = None
  BY DEF Init, FreshContext
<1> QED
  BY <1>1, <1>2, <1>3 DEF Contract!Init

\* A step that decides request r is the contract's Decide(r).
LEMMA DecidedContract ==
  ASSUME NaNs = {}, TypeOK, OutcomesInv, UNCHANGED <<config, input, outcome>>,
         NEW r \in Requests, pc[r] # "done", ctx[r] = FreshContext,
         pc' = [pc EXCEPT ![r] = "done"],
         NEW d, NEW measured, apply(r, d, measured),
         \/ ~input[r].prompt /\ d = SkipDecision(config)
         \/ input[r].prompt /\ d = decide(config, classify(r))
  PROVE  Contract!Decide(r)
<1> DEFINE e == EvidenceOf(r)'
           Evidence == Answers \cup {Timeout, NoPromptEvidence}
                         \cup {GrpcStatus(code) : code \in GrpcCode}
<1>1. ctx'[r].route = d.route /\ \A q \in Requests \ {r} : ctx'[q] = ctx[q]
  BY DEF apply, Written, TypeOK
<1>2. Done(r)' /\ \A q \in Requests \ {r} : Done(q)' <=> Done(q)
  BY DEF Done, TypeOK
<1>3. \A q \in Requests \ {r} : EvidenceOf(q)' = EvidenceOf(q)
  BY <1>2 DEF EvidenceOf, classify
<1>4. e = IF ~input[r].prompt THEN NoPromptEvidence ELSE classify(r)
  BY <1>2 DEF EvidenceOf, classify
<1>5. e \in Evidence
  BY <1>4 DEF classify, OutcomesInv, ServiceOutcome
<1>6. Contract!Permitted(e, d.route) /\ d.route \in Clusters \cup {Reject}
  <2>1. CASE ~input[r].prompt
    <3>1. d.route = config.default_cluster /\ e = NoPromptEvidence
      BY <1>4, <2>1, NoneAssumption DEF SkipDecision, fallback, TypeOK, Config
    <3>2. config.default_cluster \in Clusters
      BY DEF TypeOK, Config
    <3> HIDE DEF e
    <3> QED
      BY <3>1, <3>2 DEF Contract!Permitted, Contract!Failed, Contract!Ranked, NoPromptEvidence
  <2>2. CASE input[r].prompt
    <3>1. classify(r) \in Outcome /\ e = classify(r)
      BY <1>4, <2>2 DEF classify, TypeOK, Outcome
    <3>2. decide(config, classify(r)) \in DecisionRecord
      BY <3>1, DecisionType DEF TypeOK
    <3>3. d.route \in Clusters \cup {Reject}
      BY <2>2, <3>2 DEF DecisionRecord
    <3>4. Contract!Permitted(classify(r), d.route)
      BY <2>2, <3>1, DecisionPermitted DEF TypeOK
    <3> HIDE DEF e
    <3> QED
      BY <3>1, <3>3, <3>4
  <2> QED
    BY <2>1, <2>2
<1>7. ctx[r].route = None
  BY DEF FreshContext
<1>8. [q \in Requests |-> EvidenceOf(q)]' =
        [[q \in Requests |-> EvidenceOf(q)] EXCEPT ![r] = e]
  BY <1>3
<1>9. [q \in Requests |-> ctx[q].route]' =
        [[q \in Requests |-> ctx[q].route] EXCEPT ![r] = d.route]
  BY <1>1
<1> HIDE DEF e
<1> QED
  BY <1>5, <1>6, <1>7, <1>8, <1>9 DEF Contract!Decide

\* Every other step leaves the contract alone.
LEMMA UndecidedContract ==
  ASSUME UNCHANGED <<config, input, pc, ctx>>,
         \A q \in Requests : Done(q) => outcome'[q] = outcome[q]
  PROVE  UNCHANGED Contract!contractVars
<1>1. \A q \in Requests : EvidenceOf(q)' = EvidenceOf(q)
  BY DEF EvidenceOf, Done, classify
<1> QED
  BY <1>1 DEF Contract!contractVars

LEMMA NextContract ==
  ASSUME NaNs = {}, IInv, OutcomesInv, [Next]_vars
  PROVE  [Contract!Next]_Contract!contractVars
<1> USE DEF IInv, filterVars, futureVars, serviceVars, metricVars
<1>1. ASSUME NEW r \in Requests, OnRequestSkip(r) PROVE Contract!Next
  <2>1. pc[r] # "done" /\ ctx[r] = FreshContext
    BY <1>1 DEF OnRequestSkip, PhaseInv
  <2>2. Contract!Decide(r)
    BY <1>1, <2>1, DecidedContract DEF OnRequestSkip
  <2> QED
    BY <2>2 DEF Contract!Next
<1>2. ASSUME NEW r \in Requests, Resume(r) PROVE Contract!Next
  <2>1. pc[r] # "done" /\ ctx[r] = FreshContext /\ input[r].prompt
    BY <1>2 DEF Resume, PhaseInv
  <2>2. Contract!Decide(r)
    BY <1>2, <2>1, DecidedContract DEF Resume
  <2> QED
    BY <2>2 DEF Contract!Next
<1>3. ASSUME NEW r \in Requests, OnRequestClassify(r) PROVE UNCHANGED Contract!contractVars
  <2>1. \A q \in Requests : (Done(q)' <=> Done(q)) /\ UNCHANGED <<config, input, ctx, outcome>>
    BY <1>3 DEF OnRequestClassify, Done, TypeOK
  <2>2. \A q \in Requests : EvidenceOf(q)' = EvidenceOf(q)
    BY <2>1 DEF EvidenceOf, classify
  <2> QED
    BY <1>3, <2>2 DEF OnRequestClassify, Contract!contractVars
<1>4. ASSUME InFlightStep PROVE UNCHANGED Contract!contractVars
  <2>1. \A q \in Requests : Done(q) => rpc[q] \in {"none", "dropped"}
    BY DEF Done, PhaseInv
  <2>2. \A q \in Requests : Done(q) => outcome'[q] = outcome[q]
    BY <1>4, <2>1 DEF InFlightStep
  <2> QED
    BY <1>4, <2>2, UndecidedContract DEF InFlightStep
<1> QED
  BY <1>1, <1>2, <1>3, <1>4, InFlightActions DEF Next, Finished

\* With scores that are never NaN, the filter keeps the safety part of the
\* routing contract: one verdict for each request, of those the decision
\* table permits for what it was decided on, and never another.
THEOREM KeepsContract == NaNs = {} => (Spec => Contract!Spec)
<1> SUFFICES ASSUME NaNs = {} PROVE Spec => Contract!Spec
  OBVIOUS
<1>1. IInv /\ OutcomesInv /\ [Next]_vars => OutcomesInv'
  BY NextOutcomes DEF IInv
<1>2. IInv /\ OutcomesInv /\ [Next]_vars => [Contract!Next]_Contract!contractVars
  BY NextContract
<1> QED
  BY <1>1, <1>2, InitContract, InitOutcomes, Invariant, PTL DEF Spec, Contract!Spec

-----------------------------------------------------------------------------
(* decide, called by FilterFunctions.                                      *)

\* What decide has been asked, and that it has answered that.
Answered ==
  call.fn = "decide" =>
    /\ call.config \in Policies /\ call.outcome \in Outcomes
    /\ returned = None \/ returned = decide(call.config, call.outcome)

\* It is asked once, of an instance's inputs, and the answer is decide's.
LEMMA AnsweredHolds == FunctionsSpec => []Answered
<1>1. FunctionsInit => Answered
  BY DEF FunctionsInit, Answered
<1>2. Answered /\ [FunctionsNext]_functionVars => Answered'
  <2> SUFFICES ASSUME Answered, [FunctionsNext]_functionVars
               PROVE  Answered'
    OBVIOUS
  <2>1. CASE FunctionsNext
    <3> SUFFICES ASSUME call.fn = "decide" PROVE Answered'
      BY <2>1 DEF FunctionsNext, Answered
    <3>1. call' = call /\ returned' = decide(call.config, call.outcome)
      BY <2>1 DEF FunctionsNext, Decide, Extract, FromConfig
    <3> QED
      BY <3>1 DEF Answered
  <2>2. CASE UNCHANGED functionVars
    BY <2>2 DEF Answered, functionVars
  <2> QED
    BY <2>1, <2>2
<1> QED
  BY <1>1, <1>2, PTL DEF FunctionsSpec

\* A response with signals is decided by its top signal.
LEMMA RankedOutcome ==
  ASSUME NEW cfg \in Config, NEW e \in Outcome,
         e.kind = "Response", e.status = "OK", e.ranked # << >>
  PROVE  /\ e.ranked \in Seq(Signal) /\ e.revision \in Revisions
         /\ decide(cfg, e) = RankedDecision(cfg, top_signal(e.ranked), e.revision)
<1>1. e \in Response
  BY DEF Outcome, Timeout, GrpcStatus
<1> QED
  BY <1>1 DEF Response, decide, ResponseDecision

\* Without a top signal there is no label, no score and no status of OK.
LEMMA OtherOutcome ==
  ASSUME NEW cfg \in Config, NEW e \in Outcome,
         ~(e.kind = "Response" /\ e.status = "OK" /\ e.ranked # << >>)
  PROVE  LET d == decide(cfg, e) IN
         /\ d.label = None /\ d.score = None /\ d.status # "OK"
         /\ d.provenance # None <=> e.kind = "Response"
<1>1. CASE e = Timeout
  BY <1>1 DEF Timeout, decide, fallback
<1>2. CASE e \in {GrpcStatus(code) : code \in GrpcCode}
  <2>1. PICK code \in GrpcCode : e = [kind |-> "Status", code |-> code]
    BY <1>2 DEF GrpcStatus
  <2>2. decide(cfg, e) = StatusDecision(cfg, code)
    BY <2>1 DEF decide
  <2> QED
    BY <2>1, <2>2 DEF StatusDecision, fallback, GrpcCode
<1>3. CASE e \in Response
  <2>1. /\ e.kind = "Response" /\ e.status \in WireStatus /\ e.revision \in Revisions
        /\ decide(cfg, e) = ResponseDecision(cfg, e)
    BY <1>3 DEF decide, Response
  <2>2. e.status # "OK" \/ e.ranked = << >>
    BY <2>1
  <2> QED
    BY <2>1, <2>2, NoneAssumption DEF ResponseDecision, fallback, WireStatus
<1> QED
  BY <1>1, <1>2, <1>3 DEF Outcome

\* RecordExplainsRoute for every configuration, outcome and set of NaNs: what is
\* recorded of a decision explains its route.
THEOREM RecordIsExplained ==
  FunctionsSpec => []RecordExplainsRoute
<1>1. Answered => RecordExplainsRoute
  <2> SUFFICES ASSUME Answered, Returned("decide")
               PROVE  RecordExplainsRoute
    BY DEF RecordExplainsRoute
  <2> DEFINE cfg == call.config
             e == call.outcome
             d == decide(cfg, e)
  <2>1. cfg \in Config /\ e \in Outcome /\ returned = d
    BY FunctionsAssumption DEF Answered, Returned
  <2>2. d.route \in all_clusters(cfg) \cup {Reject}
    BY <2>1, DecisionType DEF all_clusters
  <2>3. Ranked <=> e.kind = "Response" /\ e.status = "OK" /\ e.ranked # << >>
    BY DEF Ranked
  <2>4. CASE ~Ranked
    <3>1. /\ d.label = None /\ d.score = None /\ d.status # "OK"
          /\ d.provenance # None <=> e.kind = "Response"
      BY <2>1, <2>3, <2>4, OtherOutcome
    <3> HIDE DEF d
    <3> QED
      BY <2>1, <2>2, <2>4, <3>1 DEF RecordExplainsRoute
  <2>5. CASE Ranked
    <3> DEFINE top == top_signal(e.ranked)
    <3>1. e.ranked \in Seq(Signal) /\ e.ranked # << >> /\ e.revision \in Revisions
      BY <2>1, <2>3, <2>5, RankedOutcome
    <3>2. /\ top \in Signal /\ TopIndex(e.ranked) \in DOMAIN e.ranked
          /\ \A j \in DOMAIN e.ranked : e.ranked[j].score <= top.score
      BY <3>1, TopSignal
    <3>3. top \in Table!BestSignals(e.ranked)
      BY <3>2 DEF Table!BestSignals, top_signal
    <3>4. d = RankedDecision(cfg, top, e.revision)
      BY <2>1, <2>3, <2>5, RankedOutcome
    <3> HIDE DEF top, d
    <3>5. /\ top = [label |-> top.label, score |-> top.score]
          /\ top.score \in Int /\ cfg.min_score \in Int /\ cfg.min_score \notin NaNs
          /\ cfg.default_cluster # None /\ cfg.routes[top.label] \in Clusters \cup {None}
      BY <2>1, <3>2, ScoresAssumption, NoneAssumption DEF Signal, Config
    <3>6. d.label = top.label /\ d.score = top.score /\ d.provenance # None
      BY <3>1, <3>4, NoneAssumption DEF RankedDecision
    <3>7. Below(top.score, cfg.min_score) <=> ~(top.score \in NaNs \/ top.score >= cfg.min_score)
      BY <3>5 DEF Below
    <3>8. d.status = "OK" <=> /\ d.route = cfg.routes[top.label]
                              /\ top.score \in NaNs \/ top.score >= cfg.min_score
      BY <3>4, <3>5, <3>7 DEF RankedDecision
    <3> QED
      BY <2>1, <2>2, <2>3, <2>5, <3>3, <3>5, <3>6, <3>8 DEF RecordExplainsRoute
  <2> QED
    BY <2>4, <2>5
<1> QED
  BY <1>1, AnsweredHolds, PTL

\* The route decide chooses is permitted by a row of the decision table.
LEMMA RowPermits ==
  ASSUME call.config \in Config, NEW e \in Outcome, decide(call.config, e).score \notin NaNs
  PROVE  Table!Permitted(e, decide(call.config, e).route)
<1> DEFINE cfg == call.config
           v == decide(cfg, e).route
<1> USE DEF Table!Permitted, Table!Failed, Table!PostureFor,
            Table!Ranked
<1>1. cfg.default_cluster \in Clusters /\ cfg.default_cluster # Reject
  BY NoneAssumption DEF Config
<1>2. CASE e = Timeout
  BY <1>1, <1>2 DEF Timeout, decide, fallback
<1>3. CASE e \in {GrpcStatus(code) : code \in GrpcCode}
  <2>1. PICK code \in GrpcCode : e = [kind |-> "Status", code |-> code]
    BY <1>3 DEF GrpcStatus
  <2>2. v = StatusDecision(cfg, code).route
    BY <2>1 DEF decide
  <2> QED
    BY <1>1, <2>1, <2>2 DEF StatusDecision, fallback, GrpcCode
<1>4. CASE e \in Response
  <2>1. /\ e.kind = "Response" /\ e.status \in WireStatus /\ e.ranked \in Seq(Signal)
        /\ v = ResponseDecision(cfg, e).route
    BY <1>4 DEF decide, Response
  <2>2. CASE e.status # "OK" \/ e.ranked = << >>
    BY <1>1, <2>1, <2>2 DEF ResponseDecision, fallback, WireStatus
  <2>3. CASE e.status = "OK" /\ e.ranked # << >>
    <3> DEFINE top == top_signal(e.ranked)
    <3>1. decide(cfg, e) = RankedDecision(cfg, top, e.revision)
      BY <2>1, <2>3, RankedOutcome
    <3>2. /\ top \in Signal /\ TopIndex(e.ranked) \in DOMAIN e.ranked
          /\ \A j \in DOMAIN e.ranked : e.ranked[j].score <= top.score
      BY <2>1, <2>3, TopSignal
    <3>3. top \in Table!BestSignals(e.ranked)
      BY <3>2 DEF Table!BestSignals, top_signal
    <3>4. /\ top.score \in Int /\ cfg.min_score \in Int /\ cfg.min_score \notin NaNs
          /\ cfg.routes[top.label] \in Clusters \cup {None}
      BY <3>2, ScoresAssumption DEF Signal, Config
    <3>5. top.score \notin NaNs
      BY <3>1 DEF RankedDecision
    <3>6. CASE top.score < cfg.min_score
      <4>1. v = cfg.default_cluster
        BY <3>1, <3>4, <3>5, <3>6 DEF RankedDecision, Below
      <4>2. Table!Below(top.score, cfg.min_score)
        BY <3>4, <3>5, <3>6 DEF Table!Below
      <4> HIDE DEF top
      <4> QED
        BY <2>1, <2>3, <3>3, <4>1, <4>2
    <3>7. CASE top.score >= cfg.min_score /\ cfg.routes[top.label] = None
      <4>1. v = cfg.default_cluster
        BY <3>1, <3>7 DEF RankedDecision
      <4> HIDE DEF top
      <4> QED
        BY <2>1, <2>3, <3>3, <3>7, <4>1
    <3>8. CASE top.score >= cfg.min_score /\ cfg.routes[top.label] # None
      <4>1. v = cfg.routes[top.label]
        BY <3>1, <3>4, <3>8 DEF RankedDecision, Below
      <4>2. v # Reject
        BY <3>4, <3>8, <4>1, NoneAssumption
      <4>3. Table!Earned(e, v)
        BY <3>3, <3>4, <3>5, <3>8, <4>1 DEF Table!Earned, Table!AtLeast
      <4> HIDE DEF top
      <4> QED
        BY <2>1, <2>3, <4>2, <4>3
    <3> QED
      BY <3>4, <3>6, <3>7, <3>8
  <2> QED
    BY <2>2, <2>3
<1> QED
  BY <1>2, <1>3, <1>4 DEF Outcome

\* TableHolds for every configuration and outcome: without a NaN, decide keeps to
\* the decision table of SPEC section 4.6.
THEOREM TableIsKept ==
  FunctionsSpec => []TableHolds
<1>1. Answered => TableHolds
  <2> SUFFICES ASSUME Answered, Returned("decide"), returned.score \notin NaNs
               PROVE  Table!Permitted(call.outcome, returned.route)
    BY DEF TableHolds
  <2>1. /\ call.config \in Config /\ call.outcome \in Outcome
        /\ returned = decide(call.config, call.outcome)
    BY FunctionsAssumption DEF Answered, Returned
  <2> QED
    BY <2>1, RowPermits
<1> QED
  BY <1>1, AnsweredHolds, PTL

-----------------------------------------------------------------------------
(* extract_prompt.                                                         *)

\* What extract has been asked, and that it has answered that.
Extracted ==
  call.fn = "extract" =>
    /\ call.body \in Bodies
    /\ returned = None \/ returned = [prompt |-> Prompt!extract_prompt(call.body),
                                  context |-> Prompt!Context(call.body)]

\* It is asked once, of one of Bodies, and the answer is extract_prompt's.
LEMMA ExtractedHolds == FunctionsSpec => []Extracted
<1>1. FunctionsInit => Extracted
  BY DEF FunctionsInit, Extracted
<1>2. Extracted /\ [FunctionsNext]_functionVars => Extracted'
  <2> SUFFICES ASSUME Extracted, [FunctionsNext]_functionVars
               PROVE  Extracted'
    OBVIOUS
  <2>1. CASE FunctionsNext
    <3> SUFFICES ASSUME call.fn = "extract" PROVE Extracted'
      BY <2>1 DEF FunctionsNext, Extracted
    <3>1. /\ call' = call
          /\ returned' = [prompt |-> Prompt!extract_prompt(call.body),
                        context |-> Prompt!Context(call.body)]
      BY <2>1 DEF FunctionsNext, Decide, Extract, FromConfig
    <3> QED
      BY <3>1 DEF Extracted
  <2>2. CASE UNCHANGED functionVars
    BY <2>2 DEF Extracted, functionVars
  <2> QED
    BY <2>1, <2>2
<1> QED
  BY <1>1, <1>2, PTL DEF FunctionsSpec

\* The last of the user turns is the only one from_messages looks at.
LEMMA LastUser ==
  ASSUME NEW turns, DOMAIN turns \subseteq Nat,
         NEW k \in DOMAIN turns, turns[k].user,
         \A i \in DOMAIN turns : turns[i].user => i <= k
  PROVE  Prompt!from_messages(turns) = Prompt!content_text(turns[k].content)
<1> DEFINE users == {i \in DOMAIN turns : turns[i].user}
<1>1. k \in users /\ users # {} /\ users \subseteq Nat /\ \A i \in users : i <= k
  OBVIOUS
<1> HIDE DEF users
<1>2. Prompt!Max(users) = k
  BY <1>1 DEF Prompt!Max
<1> QED
  BY <1>1, <1>2 DEF Prompt!from_messages, users

\* The fields of a body that extract_prompt looks into.
Fields(m, p, q) == [messages |-> m, prompt |-> p, input |-> q]

Body(m, p, q) == [kind |-> "object", object |-> Fields(m, p, q)]

\* The candidate for the prompt is the text of the last user turn, or what the
\* other fields have if it has none.
LEMMA TurnFirst ==
  ASSUME NEW m, m.kind = "array", DOMAIN m.items \subseteq Nat, NEW p, NEW q,
         NEW k \in DOMAIN m.items, m.items[k].user,
         \A i \in DOMAIN m.items : m.items[i].user => i <= k
  PROVE  Prompt!candidate(Fields(m, p, q)) =
           IF Prompt!content_text(m.items[k].content) # None
           THEN Prompt!content_text(m.items[k].content)
           ELSE Prompt!candidate(Fields(Prompt!Absent, p, q))
<1>1. Prompt!from_messages(m.items) = Prompt!content_text(m.items[k].content)
  BY LastUser
<1> QED
  BY <1>1 DEF Prompt!candidate, Prompt!Absent, Fields

\* It is the same if that turn is the only one, and, if it has a text, without the
\* other fields.
LEMMA OneTurn ==
  ASSUME NEW m, m.kind = "array", DOMAIN m.items \subseteq Nat, NEW p, NEW q,
         NEW k \in DOMAIN m.items, m.items[k].user,
         \A i \in DOMAIN m.items : m.items[i].user => i <= k
  PROVE  /\ Prompt!extract_prompt(Body(m, p, q))
              = Prompt!extract_prompt(Body(Prompt!Arr(<<m.items[k]>>), p, q))
         /\ Prompt!content_text(m.items[k].content) # None =>
              Prompt!extract_prompt(Body(m, p, q))
                = Prompt!extract_prompt(
                    Body(Prompt!Arr(<<m.items[k]>>),
                         Prompt!Absent, Prompt!Absent))
<1> DEFINE one == Prompt!Arr(<<m.items[k]>>)
           a == Prompt!Absent
           text == Prompt!content_text(m.items[k].content)
<1>1. Prompt!candidate(Fields(m, p, q)) =
        IF text # None THEN text ELSE Prompt!candidate(Fields(a, p, q))
  BY TurnFirst
<1>2. one.kind = "array" /\ one.items = <<m.items[k]>>
  BY DEF Prompt!Arr
<1> HIDE DEF one
<1>3. /\ 1 \in DOMAIN one.items /\ DOMAIN one.items \subseteq Nat /\ one.items[1] = m.items[k]
      /\ \A i \in DOMAIN one.items : one.items[i].user => i <= 1
  BY <1>2
<1>4. \A r, s : Prompt!candidate(Fields(one, r, s)) =
                  IF text # None THEN text ELSE Prompt!candidate(Fields(a, r, s))
  BY <1>2, <1>3, TurnFirst
<1>5. \A x, r, s : Prompt!extract_prompt(Body(x, r, s)) =
        LET c == Prompt!candidate(Fields(x, r, s))
        IN  IF c = None THEN None ELSE Prompt!NonEmpty(Prompt!trim(c))
  BY DEF Prompt!extract_prompt, Body
<1> HIDE DEF text, a
<1> QED
  BY <1>1, <1>4, <1>5 DEF one, text, a

\* A body with other messages, and with another prompt and input.
WithMessages(b, x) == [b EXCEPT !.object.messages = x]

WithOthers(b, x) == [b EXCEPT !.object.prompt = x, !.object.input = x]

\* What replacing fields of a body makes of it.
LEMMA Replaced ==
  ASSUME NEW m, NEW p, NEW q, NEW x
  PROVE  /\ WithMessages(Body(m, p, q), x) = Body(x, p, q)
         /\ WithOthers(Body(m, p, q), x) = Body(m, x, x)
<1>1. /\ [Fields(m, p, q) EXCEPT !.messages = x] = Fields(x, p, q)
      /\ [Fields(m, p, q) EXCEPT !.prompt = x] = Fields(m, x, q)
      /\ [Fields(m, x, q) EXCEPT !.input = x] = Fields(m, x, x)
  BY DEF Fields
<1>2. /\ Body(m, p, q).object = Fields(m, p, q)
      /\ Body(m, x, q).object = Fields(m, x, q)
      /\ Body(m, p, q).object.messages = m
  BY DEF Body, Fields
<1>3. ASSUME NEW r, NEW s, NEW t, NEW y
      PROVE  [Body(r, s, t) EXCEPT !.object = y] = [kind |-> "object", object |-> y]
  BY DEF Body
<1>4. [Body(m, p, q) EXCEPT !.object.messages = x]
        = [Body(m, p, q) EXCEPT !.object = [Body(m, p, q).object EXCEPT !.messages = x]]
  BY DEF Body
<1>5. [Body(m, p, q) EXCEPT !.object.prompt = x, !.object.input = x]
        = [[Body(m, p, q) EXCEPT !.object.prompt = x] EXCEPT !.object.input = x]
  OBVIOUS
<1>6. [Body(m, p, q) EXCEPT !.object.prompt = x]
        = [Body(m, p, q) EXCEPT !.object = [Body(m, p, q).object EXCEPT !.prompt = x]]
  BY DEF Body
<1>7. [Body(m, x, q) EXCEPT !.object.input = x]
        = [Body(m, x, q) EXCEPT !.object = [Body(m, x, q).object EXCEPT !.input = x]]
  BY DEF Body
<1>8. [Body(m, p, q) EXCEPT !.object.messages = x] = Body(x, p, q)
  BY <1>1, <1>2, <1>3, <1>4 DEF Body
<1>9. [Body(m, p, q) EXCEPT !.object.prompt = x] = Body(m, x, q)
  BY <1>1, <1>2, <1>3, <1>6 DEF Body
<1>10. [Body(m, x, q) EXCEPT !.object.input = x] = Body(m, x, x)
  BY <1>1, <1>2, <1>3, <1>7 DEF Body
<1> QED
  BY <1>5, <1>8, <1>9, <1>10 DEF WithMessages, WithOthers

\* LastUserTurnDecides, of the body b.
Only(b, turn) == WithMessages(b, Prompt!Arr(<<turn>>))

Alone(b) == WithOthers(b, Prompt!Absent)

TurnDecides(b, turn) ==
  /\ Prompt!extract_prompt(b) = Prompt!extract_prompt(Only(b, turn))
  /\ Prompt!content_text(turn.content) # None =>
       Prompt!extract_prompt(b) = Prompt!extract_prompt(Alone(Only(b, turn)))

\* That holds of every body whose messages have a last user turn.
LEMMA BodyTurnDecides ==
  ASSUME NEW m, m.kind = "array", DOMAIN m.items \subseteq Nat, NEW p, NEW q,
         NEW k \in DOMAIN m.items, m.items[k].user,
         \A i \in DOMAIN m.items : m.items[i].user => i <= k
  PROVE  TurnDecides(Body(m, p, q), m.items[k])
<1>1. Only(Body(m, p, q), m.items[k]) = Body(Prompt!Arr(<<m.items[k]>>), p, q)
  BY Replaced DEF Only
<1>2. Alone(Body(Prompt!Arr(<<m.items[k]>>), p, q))
        = Body(Prompt!Arr(<<m.items[k]>>), Prompt!Absent, Prompt!Absent)
  BY Replaced DEF Alone
<1> QED
  BY <1>1, <1>2, OneTurn DEF TurnDecides

\* LastUserTurnDecides: of an array of messages, extract_prompt looks at the last
\* user turn only, and once that turn has a text at nothing else.
THEOREM LastTurnDecides ==
  FunctionsSpec => []LastUserTurnDecides
<1>1. ASSUME Extracted, Returned("extract"), call.body.kind = "object"
      PROVE  /\ call.body = Body(call.body.object.messages, call.body.object.prompt,
                                 call.body.object.input)
             /\ call.body.object.messages.kind = "array" =>
                  DOMAIN call.body.object.messages.items \subseteq Nat
             /\ returned.prompt = Prompt!extract_prompt(call.body)
  <2>1. call.body \in Bodies /\ returned.prompt = Prompt!extract_prompt(call.body)
    BY <1>1 DEF Returned, Extracted
  <2>2. call.body \in [kind : {"object"}, object : Prompt!Objects]
    BY <1>1, <2>1, BodiesAssumption
  <2>3. call.body = Body(call.body.object.messages, call.body.object.prompt,
                         call.body.object.input)
    BY <2>2 DEF Body, Fields, Prompt!Objects
  <2>4. ASSUME call.body.object.messages.kind = "array"
        PROVE  call.body.object.messages.items
                 \in Seq([user : BOOLEAN, content : Prompt!Content])
    BY <2>2, <2>4 DEF Prompt!Objects, Prompt!Value, Prompt!Absent, Prompt!OtherValue
  <2> QED
    BY <2>1, <2>3, <2>4
<1>2. ASSUME Extracted, Returned("extract"), call.body.kind = "object",
             call.body.object.messages.kind = "array",
             NEW k \in DOMAIN call.body.object.messages.items,
             call.body.object.messages.items[k].user,
             \A i \in DOMAIN call.body.object.messages.items :
               call.body.object.messages.items[i].user => i <= k
      PROVE  /\ TurnDecides(call.body, call.body.object.messages.items[k])
             /\ returned.prompt = Prompt!extract_prompt(call.body)
  <2>1. TurnDecides(Body(call.body.object.messages, call.body.object.prompt,
                         call.body.object.input),
                    call.body.object.messages.items[k])
    BY <1>1, <1>2, BodyTurnDecides
  <2> QED
    BY <1>1, <1>2, <2>1, Zenon
<1>3. Extracted => LastUserTurnDecides
  BY <1>2 DEF LastUserTurnDecides, TurnDecides, Only, Alone, WithMessages, WithOthers
<1> QED
  BY <1>3, ExtractedHolds, PTL

-----------------------------------------------------------------------------
(* Recursive functions: induction and definition up to a number, without   *)
(* an operator as a parameter.                                             *)

\* Induction up to N over a set: it has 0, and with a number the next one.
LEMMA UpTo ==
  ASSUME NEW N \in Nat, NEW G, 0 \in G, \A n \in 0 .. N - 1 : n \in G => n + 1 \in G
  PROVE  0 .. N \subseteq G
<1> DEFINE bad == (0 .. N) \ G
<1> SUFFICES ASSUME bad # {} PROVE FALSE
  OBVIOUS
<1>1. PICK m \in bad : \A j \in bad : ~(<<j, m>> \in OpToRel(<, Nat))
  <2>1. bad \subseteq Nat
    OBVIOUS
  <2> HIDE DEF bad
  <2> QED BY <2>1, NatLessThanWellFounded, WFMin
<1>2. m \in 1 .. N /\ m - 1 \in 0 .. N - 1 /\ (m - 1) + 1 = m
  OBVIOUS
<1>3. m - 1 \in bad
  BY <1>2
<1>4. <<m - 1, m>> \in OpToRel(<, Nat)
  <2>1. /\ <<m - 1, m>> \in Nat \X Nat
        /\ <<m - 1, m>>[1] = m - 1 /\ <<m - 1, m>>[2] = m /\ m - 1 < m
    BY <1>2
  <2>2. <<m - 1, m>> \in {ss \in Nat \X Nat : ss[1] < ss[2]}
    BY <2>1
  <2> QED
    BY <2>2, Zenon DEF OpToRel
<1> QED
  BY <1>1, <1>3, <1>4, Zenon

\* The function f starts with a and goes on as step says.
Steps(f, N, a, step) == f[0] = a /\ \A i \in 1 .. N : f[i] = step[<<i, f[i - 1]>>]

\* A first value and a step define a function up to N.
LEMMA Recursion ==
  ASSUME NEW N \in Nat, NEW T, NEW a \in T, NEW step \in [(1 .. N) \X T -> T]
  PROVE  \E f \in [0 .. N -> T] : Steps(f, N, a, step)
<1> DEFINE From(n, f) == f[0] = a /\ \A i \in 1 .. n : f[i] = step[<<i, f[i - 1]>>]
           G == {n \in 0 .. N : \E f \in [0 .. n -> T] : From(n, f)}
<1>1. 0 \in G
  <2> DEFINE f == [i \in 0 .. 0 |-> a]
  <2>1. f \in [0 .. 0 -> T] /\ From(0, f)
    OBVIOUS
  <2>2. \E h \in [0 .. 0 -> T] : From(0, h)
    BY <2>1
  <2> HIDE DEF From
  <2> QED BY <2>2
<1>2. ASSUME NEW n \in 0 .. N - 1, n \in G
      PROVE  n + 1 \in G
  <2>1. PICK f \in [0 .. n -> T] : From(n, f)
    BY <1>2
  <2> DEFINE g == [i \in 0 .. n + 1 |-> IF i = n + 1 THEN step[<<n + 1, f[n]>>] ELSE f[i]]
  <2>2. n \in 0 .. n /\ n + 1 \in 1 .. N /\ f[n] \in T
    OBVIOUS
  <2>3. step[<<n + 1, f[n]>>] \in T
    BY <2>2
  <2>4. g \in [0 .. n + 1 -> T]
    BY <2>3
  <2>5. \A i \in 0 .. n : g[i] = f[i]
    OBVIOUS
  <2>6. g[n + 1] = step[<<n + 1, f[n]>>]
    OBVIOUS
  <2> HIDE DEF g
  <2>7. g[0] = a
    BY <2>1, <2>5
  <2>8. ASSUME NEW i \in 1 .. n + 1 PROVE g[i] = step[<<i, g[i - 1]>>]
    <3>1. i - 1 \in 0 .. n /\ g[i - 1] = f[i - 1]
      BY <2>5
    <3>2. CASE i = n + 1
      BY <2>6, <3>1, <3>2
    <3>3. CASE i \in 1 .. n
      BY <2>1, <2>5, <3>1, <3>3
    <3> QED BY <3>2, <3>3
  <2>9. From(n + 1, g)
    BY <2>7, <2>8
  <2> QED
    BY <2>4, <2>9
<1>3. N \in G
  <2> HIDE DEF G
  <2> QED BY <1>1, <1>2, UpTo
<1> QED
  BY <1>3 DEF Steps

\* A function that starts in T and takes such steps stays in T.
LEMMA StaysIn ==
  ASSUME NEW N \in Nat, NEW T, NEW f, f[0] \in T,
         \A i \in 1 .. N : f[i - 1] \in T => f[i] \in T
  PROVE  \A n \in 0 .. N : f[n] \in T
<1> DEFINE G == {n \in 0 .. N : f[n] \in T}
<1>1. 0 \in G
  OBVIOUS
<1>2. ASSUME NEW n \in 0 .. N - 1, n \in G PROVE n + 1 \in G
  <2>1. n + 1 \in 1 .. N /\ (n + 1) - 1 = n /\ n + 1 \in 0 .. N
    OBVIOUS
  <2>2. f[n + 1] \in T
    BY <1>2, <2>1
  <2> QED BY <2>1, <2>2
<1>3. 0 .. N \subseteq G
  <2> HIDE DEF G
  <2> QED BY <1>1, <1>2, UpTo
<1> QED
  BY <1>3

-----------------------------------------------------------------------------
(* truncate_chars.                                                         *)

\* The texts of a list are texts.
LEMMA TextsType ==
  ASSUME NEW items \in Seq(Prompt!Text \cup {None})
  PROVE  Prompt!texts(items) \in Seq(Prompt!Text)
<1> DEFINE N == Len(items)
           S == Seq(Prompt!Text)
           none == << >>
           With(i, x) == IF items[i] = None THEN x ELSE Append(x, items[i])
           step == [p \in (1 .. N) \X S |-> With(p[1], p[2])]
           found[i \in 0 .. N] ==
             IF i = 0 THEN << >>
             ELSE IF items[i] = None THEN found[i - 1]
             ELSE Append(found[i - 1], items[i])
<1>1. Prompt!texts(items) = found[N]
  BY DEF Prompt!texts
<1> HIDE DEF found
<1>2. N \in Nat /\ none \in S
  OBVIOUS
<1>3. \A i \in 1 .. N, x \in S : With(i, x) \in S
  OBVIOUS
<1> HIDE DEF With, N, S, none
<1>4. step \in [(1 .. N) \X S -> S] /\ \A i \in 1 .. N, x \in S : step[<<i, x>>] = With(i, x)
  BY <1>3
<1> HIDE DEF step
<1>5. PICK f \in [0 .. N -> S] : Steps(f, N, none, step)
  BY <1>2, <1>4, Recursion
<1>6. ASSUME NEW i \in 1 .. N PROVE f[i] = With(i, f[i - 1])
  <2>1. i - 1 \in 0 .. N /\ f[i] = step[<<i, f[i - 1]>>]
    BY <1>2, <1>5 DEF Steps
  <2> QED BY <1>4, <2>1
<1>7. f = [i \in 0 .. N |-> IF i = 0 THEN none ELSE With(i, f[i - 1])]
  BY <1>2, <1>5, <1>6 DEF Steps
<1>8. found = [i \in 0 .. N |-> IF i = 0 THEN none ELSE With(i, found[i - 1])]
  BY <1>7 DEF found, With, none
<1>9. found[0] = none /\ \A i \in 1 .. N : found[i] = With(i, found[i - 1])
  BY <1>2, <1>8
<1>10. \A n \in 0 .. N : found[n] \in S
  BY <1>2, <1>3, <1>9, StaysIn
<1> QED
  BY <1>1, <1>2, <1>10 DEF S

\* Texts that are joined are a text.
LEMMA JoinType ==
  ASSUME NEW parts \in Seq(Prompt!Text)
  PROVE  Prompt!join(parts) \in Prompt!Text
<1> DEFINE N == Len(parts)
           T == Prompt!Text
           empty == << >>
           With(i, x) == IF i = 1 THEN parts[1] ELSE x \o <<Newline>> \o parts[i]
           step == [p \in (1 .. N) \X T |-> With(p[1], p[2])]
           joined[i \in 0 .. N] ==
             IF i = 0 THEN << >>
             ELSE IF i = 1 THEN parts[1]
             ELSE joined[i - 1] \o <<Newline>> \o parts[i]
<1>1. Prompt!join(parts) = joined[N]
  BY DEF Prompt!join
<1> HIDE DEF joined
<1>2. N \in Nat /\ empty \in T
  BY DEF Prompt!Text
<1>3. ASSUME NEW i \in 1 .. N, NEW x \in T PROVE With(i, x) \in T
  <2>1. parts[i] \in T /\ Newline \in Chars
    BY FunctionsAssumption
  <2>2. x \o <<Newline>> \o parts[i] \in T
    BY <2>1 DEF Prompt!Text
  <2> QED BY <2>1, <2>2
<1> HIDE DEF With, N, T, empty
<1>4. step \in [(1 .. N) \X T -> T] /\ \A i \in 1 .. N, x \in T : step[<<i, x>>] = With(i, x)
  BY <1>3
<1> HIDE DEF step
<1>5. PICK f \in [0 .. N -> T] : Steps(f, N, empty, step)
  BY <1>2, <1>4, Recursion
<1>6. ASSUME NEW i \in 1 .. N PROVE f[i] = With(i, f[i - 1])
  <2>1. i - 1 \in 0 .. N /\ f[i] = step[<<i, f[i - 1]>>]
    BY <1>2, <1>5 DEF Steps
  <2> QED BY <1>4, <2>1
<1>7. f = [i \in 0 .. N |-> IF i = 0 THEN empty ELSE With(i, f[i - 1])]
  BY <1>2, <1>5, <1>6 DEF Steps
<1>8. joined = [i \in 0 .. N |-> IF i = 0 THEN empty ELSE With(i, joined[i - 1])]
  BY <1>7 DEF joined, With, empty
<1>9. joined[0] = empty /\ \A i \in 1 .. N : joined[i] = With(i, joined[i - 1])
  BY <1>2, <1>8
<1>10. \A n \in 0 .. N : joined[n] \in T
  BY <1>2, <1>3, <1>9, StaysIn
<1> QED
  BY <1>1, <1>2, <1>10 DEF T

\* The bytes of a character, and the lists of bytes.
Code(c) == [k \in 1 .. Width[c] |-> <<c, k>>]

Bytes == Seq(Chars \X (1 .. 4))

\* A character has a first byte, which knows it.
LEMMA CodeType ==
  ASSUME NEW c \in Chars
  PROVE  Code(c) \in Bytes /\ Len(Code(c)) \in Nat \ {0} /\ Code(c)[1] = <<c, 1>>
<1>1. Width[c] \in 1 .. 4
  BY FunctionsAssumption
<1>2. Code(c) \in [1 .. Width[c] -> Chars \X (1 .. 4)]
  BY <1>1 DEF Code
<1>3. Code(c) \in Bytes
  BY <1>1, <1>2 DEF Bytes
<1>4. Len(Code(c)) = Width[c]
  BY <1>1, <1>2, <1>3
<1> QED
  BY <1>1, <1>3, <1>4 DEF Code

\* u has the bytes of the first n characters of the text, for every n.
Encodes(u, text) ==
  /\ u[0] = << >>
  /\ \A i \in 1 .. Len(text) : u[i] = u[i - 1] \o Code(text[i])

\* bytes follows such an encoding.
LEMMA BytesFollow ==
  ASSUME NEW text \in Prompt!Text
  PROVE  \E u \in [0 .. Len(text) -> Bytes] :
           Encodes(u, text) /\ Prompt!bytes(text) = u[Len(text)]
<1> DEFINE N == Len(text)
           empty == << >>
           With(i, x) == x \o Code(text[i])
           step == [p \in (1 .. N) \X Bytes |-> With(p[1], p[2])]
           upto[n \in 0 .. N] ==
             IF n = 0 THEN << >>
             ELSE upto[n - 1] \o [k \in 1 .. Width[text[n]] |-> <<text[n], k>>]
<1>1. Prompt!bytes(text) = upto[N]
  BY DEF Prompt!bytes
<1> HIDE DEF upto
<1>2. N \in Nat /\ empty \in Bytes
  BY DEF Prompt!Text, Bytes
<1>3. ASSUME NEW i \in 1 .. N, NEW x \in Bytes PROVE With(i, x) \in Bytes
  <2>1. Code(text[i]) \in Bytes
    BY CodeType DEF Prompt!Text
  <2> QED BY <2>1 DEF Bytes
<1> HIDE DEF With, N, empty
<1>4. /\ step \in [(1 .. N) \X Bytes -> Bytes]
      /\ \A i \in 1 .. N, x \in Bytes : step[<<i, x>>] = With(i, x)
  BY <1>3
<1> HIDE DEF step
<1>5. PICK f \in [0 .. N -> Bytes] : Steps(f, N, empty, step)
  BY <1>2, <1>4, Recursion
<1>6. ASSUME NEW i \in 1 .. N PROVE f[i] = With(i, f[i - 1])
  <2>1. i - 1 \in 0 .. N /\ f[i] = step[<<i, f[i - 1]>>]
    BY <1>2, <1>5 DEF Steps
  <2> QED BY <1>4, <2>1
<1>7. f = [i \in 0 .. N |-> IF i = 0 THEN empty ELSE With(i, f[i - 1])]
  BY <1>2, <1>5, <1>6 DEF Steps
<1>8. upto = [i \in 0 .. N |-> IF i = 0 THEN empty ELSE With(i, upto[i - 1])]
  BY <1>7 DEF upto, With, empty, Code
<1>9. upto[0] = empty /\ \A i \in 1 .. N : upto[i] = With(i, upto[i - 1])
  BY <1>2, <1>8
<1>10. \A n \in 0 .. N : upto[n] \in Bytes
  BY <1>2, <1>3, <1>9, StaysIn
<1>11. upto \in [0 .. N -> Bytes]
  BY <1>8, <1>10
<1>12. Encodes(upto, text)
  BY <1>9 DEF Encodes, With, empty, N
<1> QED
  BY <1>1, <1>11, <1>12 DEF N

\* A prefix of a list stays what it is when the list grows.
LEMMA PrefixStays ==
  ASSUME NEW s \in Bytes, NEW t \in Bytes, NEW k \in 0 .. Len(s)
  PROVE  /\ Len(s \o t) = Len(s) + Len(t)
         /\ SubSeq(s \o t, 1, k) = SubSeq(s, 1, k)
<1>1. /\ Len(s) \in Nat /\ Len(t) \in Nat /\ s \o t \in Bytes
      /\ Len(s \o t) = Len(s) + Len(t)
  BY DEF Bytes
<1>2. \A i \in 1 .. k : (s \o t)[i] = s[i]
  BY <1>1 DEF Bytes
<1>3. /\ SubSeq(s \o t, 1, k) = [i \in 1 .. k |-> (s \o t)[i]]
      /\ SubSeq(s, 1, k) = [i \in 1 .. k |-> s[i]]
  BY <1>1 DEF Bytes
<1> QED
  BY <1>1, <1>2, <1>3

\* The bytes of the first n characters are the first bytes of the text, and
\* the very first is that of its first character.
LEMMA PrefixBytes ==
  ASSUME NEW text \in Prompt!Text, NEW u \in [0 .. Len(text) -> Bytes], Encodes(u, text),
         NEW n \in 0 .. Len(text)
  PROVE  \A m \in n .. Len(text) :
           Len(u[n]) <= Len(u[m]) /\ SubSeq(u[m], 1, Len(u[n])) = u[n]
<1> DEFINE Keeps(m) == Len(u[n]) <= Len(u[m]) /\ SubSeq(u[m], 1, Len(u[n])) = u[n]
           G == {m \in 0 .. Len(text) : m >= n => Keeps(m)}
<1>1. Len(text) \in Nat /\ n \in Nat
  BY DEF Prompt!Text
<1>2. \A m \in 0 .. Len(text) : u[m] \in Bytes /\ Len(u[m]) \in Nat
  BY DEF Bytes
<1>3. Keeps(n)
  <2>1. SubSeq(u[n], 1, Len(u[n])) = u[n]
    BY <1>2 DEF Bytes
  <2> QED BY <1>2, <2>1
<1>4. 0 \in G
  BY <1>1, <1>3
<1>5. ASSUME NEW m \in 0 .. Len(text) - 1, m \in G PROVE m + 1 \in G
  <2>1. m + 1 \in 1 .. Len(text) /\ m + 1 \in 0 .. Len(text) /\ (m + 1) - 1 = m /\ m \in 0 .. Len(text)
    BY <1>1
  <2>2. u[m + 1] = u[m] \o Code(text[m + 1])
    BY <2>1 DEF Encodes
  <2>3. Code(text[m + 1]) \in Bytes /\ Len(Code(text[m + 1])) \in Nat
    BY <2>1, CodeType DEF Prompt!Text
  <2>4. ASSUME m >= n PROVE Keeps(m + 1)
    <3>1. Keeps(m)
      BY <1>5, <2>4
    <3>2. u[m] \in Bytes /\ Len(u[n]) \in 0 .. Len(u[m])
      BY <1>1, <1>2, <2>1, <3>1
    <3>3. /\ Len(u[m + 1]) = Len(u[m]) + Len(Code(text[m + 1]))
          /\ SubSeq(u[m + 1], 1, Len(u[n])) = SubSeq(u[m], 1, Len(u[n]))
      BY <2>2, <2>3, <3>2, PrefixStays
    <3>4. Len(u[n]) <= Len(u[m + 1])
      BY <1>2, <2>1, <2>3, <3>2, <3>3
    <3> QED
      BY <3>1, <3>3, <3>4
  <2>5. m + 1 >= n => Keeps(m + 1)
    <3>1. CASE m >= n
      BY <2>4, <3>1
    <3>2. CASE m + 1 = n
      BY <1>3, <3>2
    <3> QED BY <1>1, <3>1, <3>2
  <2> HIDE DEF Keeps
  <2> QED BY <2>1, <2>5
<1> HIDE DEF Keeps
<1>6. 0 .. Len(text) \subseteq G
  <2> HIDE DEF G
  <2> QED BY <1>1, <1>4, <1>5, UpTo
<1>7. \A m \in n .. Len(text) : Keeps(m)
  BY <1>1, <1>6
<1> QED
  BY <1>7 DEF Keeps

\* The bytes of the first n characters, as a prefix of the bytes of the text.
LEMMA PrefixEncodes ==
  ASSUME NEW text \in Prompt!Text, NEW u \in [0 .. Len(text) -> Bytes], Encodes(u, text),
         NEW n \in 0 .. Len(text)
  PROVE  Prompt!bytes(SubSeq(text, 1, n)) = u[n]
<1> DEFINE cut == SubSeq(text, 1, n)
<1>1. /\ Len(text) \in Nat /\ n \in Nat
      /\ cut \in Prompt!Text /\ Len(cut) = n /\ \A i \in 1 .. n : cut[i] = text[i]
  BY DEF Prompt!Text
<1> HIDE DEF cut
<1>2. PICK v \in [0 .. Len(cut) -> Bytes] : Encodes(v, cut) /\ Prompt!bytes(cut) = v[Len(cut)]
  BY <1>1, BytesFollow
<1> DEFINE G == {m \in 0 .. n : v[m] = u[m]}
<1>3. 0 \in G
  BY <1>1, <1>2 DEF Encodes
<1>4. ASSUME NEW m \in 0 .. n - 1, m \in G PROVE m + 1 \in G
  <2>1. m + 1 \in 1 .. n /\ m + 1 \in 1 .. Len(text) /\ (m + 1) - 1 = m /\ v[m] = u[m]
    BY <1>1, <1>4
  <2>2. v[m + 1] = v[m] \o Code(cut[m + 1]) /\ u[m + 1] = u[m] \o Code(text[m + 1])
    BY <1>1, <1>2, <2>1 DEF Encodes
  <2>3. v[m + 1] = u[m + 1]
    BY <1>1, <2>1, <2>2
  <2> QED BY <2>1, <2>3
<1>5. 0 .. n \subseteq G
  <2> HIDE DEF G
  <2> QED BY <1>1, <1>3, <1>4, UpTo
<1> QED
  BY <1>1, <1>2, <1>5 DEF cut

\* Of a text with characters truncate_chars keeps the bytes of the first ones,
\* as many as it may.
LEMMA TruncateKeeps ==
  ASSUME NEW text \in Prompt!Text, text # << >>, NEW max \in Nat \ {0}
  PROVE  LET kept == IF Len(text) < max THEN Len(text) ELSE max
             left == Prompt!truncate_chars(text, max)
         IN  /\ left = Prompt!bytes(SubSeq(text, 1, kept))
             /\ left # << >> /\ left[1] = <<text[1], 1>>
<1> DEFINE kept == IF Len(text) < max THEN Len(text) ELSE max
           left == Prompt!truncate_chars(text, max)
<1>1. Len(text) \in Nat \ {0} /\ kept \in 1 .. Len(text) /\ text[1] \in Chars
  BY DEF Prompt!Text
<1>2. PICK u \in [0 .. Len(text) -> Bytes] : Encodes(u, text) /\ Prompt!bytes(text) = u[Len(text)]
  BY BytesFollow
<1>3. \A n \in 0 .. Len(text) : Prompt!bytes(SubSeq(text, 1, n)) = u[n]
  BY <1>2, PrefixEncodes
<1>4. \A n \in 0 .. Len(text) : u[n] \in Bytes /\ Len(u[n]) \in Nat
  BY DEF Bytes
<1>5. left = u[kept]
  <2>1. CASE max >= Len(text)
    <3>1. Prompt!byte_index(text, max) = None
      BY <2>1, <1>1 DEF Prompt!byte_index
    <3>2. kept = Len(text)
      BY <2>1, <1>1
    <3> QED
      BY <1>2, <3>1, <3>2 DEF Prompt!truncate_chars
  <2>2. CASE max < Len(text)
    <3>1. kept = max /\ max \in 0 .. Len(text) /\ Len(text) \in max .. Len(text)
      BY <2>2, <1>1
    <3>2. Prompt!byte_index(text, max) = Len(u[max])
      BY <2>2, <1>1, <1>3, <3>1 DEF Prompt!byte_index
    <3>3. Prompt!byte_index(text, max) # None
      BY <1>4, <3>1, <3>2, FunctionsAssumption
    <3>4. left = SubSeq(u[Len(text)], 1, Len(u[max]))
      BY <1>2, <3>2, <3>3 DEF Prompt!truncate_chars
    <3>5. SubSeq(u[Len(text)], 1, Len(u[max])) = u[max]
      BY <1>2, <3>1, PrefixBytes
    <3> QED BY <3>1, <3>4, <3>5
  <2> QED BY <1>1, <2>1, <2>2
<1>6. u[1] = Code(text[1])
  <2>1. u[1] = << >> \o Code(text[1])
    BY <1>1, <1>2 DEF Encodes
  <2>2. Code(text[1]) \in Bytes
    BY <1>1, CodeType
  <2> QED BY <2>1, <2>2 DEF Bytes
<1>7. Len(u[1]) \in Nat \ {0} /\ u[1][1] = <<text[1], 1>>
  BY <1>1, <1>6, CodeType
<1>8. Len(u[1]) <= Len(u[kept]) /\ SubSeq(u[kept], 1, Len(u[1])) = u[1]
  <2>1. 1 \in 0 .. Len(text) /\ kept \in 1 .. Len(text)
    BY <1>1
  <2> HIDE DEF kept
  <2> QED BY <1>2, <2>1, PrefixBytes
<1> HIDE DEF kept, left
<1>9. u[kept] \in Bytes /\ Len(u[kept]) \in Nat \ {0}
  BY <1>1, <1>4, <1>7, <1>8
<1>10. u[kept] # << >> /\ u[kept][1] = u[1][1]
  BY <1>7, <1>8, <1>9 DEF Bytes
<1>11. Prompt!bytes(SubSeq(text, 1, kept)) = u[kept]
  BY <1>1, <1>3
<1> QED
  BY <1>5, <1>7, <1>10, <1>11 DEF kept, left

\* A set of numbers that are at most n has a least and a greatest one, if any.
LEMMA Extremes ==
  ASSUME NEW n \in Nat, NEW S, S \subseteq 1 .. n, S # {}
  PROVE  /\ Prompt!Min(S) \in S /\ \A j \in S : Prompt!Min(S) <= j
         /\ Prompt!Max(S) \in S /\ \A j \in S : j <= Prompt!Max(S)
<1>1. \E m \in S : \A j \in S : m <= j
  <2> DEFINE G == {i \in 0 .. n : \A j \in S : i < j}
  <2> SUFFICES ASSUME \A m \in S : \E j \in S : j < m PROVE FALSE
    OBVIOUS
  <2>1. 0 \in G
    OBVIOUS
  <2>2. ASSUME NEW i \in 0 .. n - 1, i \in G PROVE i + 1 \in G
    <3>1. i + 1 \notin S
      BY <2>2
    <3> QED BY <2>2, <3>1
  <2>3. 0 .. n \subseteq G
    <3> HIDE DEF G
    <3> QED BY <2>1, <2>2, UpTo
  <2>4. n \in G
    BY <2>3
  <2>5. PICK j \in S : j \in 1 .. n
    OBVIOUS
  <2>6. n < j
    BY <2>4
  <2> QED BY <2>5, <2>6
<1>2. \E m \in S : \A j \in S : j <= m
  <2> DEFINE G == {i \in 0 .. n : \A j \in S : j <= n - i}
  <2> SUFFICES ASSUME \A m \in S : \E j \in S : m < j PROVE FALSE
    OBVIOUS
  <2>1. 0 \in G
    OBVIOUS
  <2>2. ASSUME NEW i \in 0 .. n - 1, i \in G PROVE i + 1 \in G
    <3>1. n - i \notin S
      BY <2>2
    <3> QED BY <2>2, <3>1
  <2>3. 0 .. n \subseteq G
    <3> HIDE DEF G
    <3> QED BY <2>1, <2>2, UpTo
  <2>4. n \in G
    BY <2>3
  <2>5. PICK j \in S : j \in 1 .. n
    OBVIOUS
  <2>6. j <= n - n
    BY <2>4
  <2> QED BY <2>5, <2>6
<1>3. Prompt!Min(S) = CHOOSE x \in S : \A y \in S : x <= y
  BY DEF Prompt!Min
<1>4. Prompt!Max(S) = CHOOSE x \in S : \A y \in S : x >= y
  BY DEF Prompt!Max
<1>5. Prompt!Min(S) \in S /\ \A j \in S : Prompt!Min(S) <= j
  BY <1>1, <1>3
<1>6. \E m \in S : \A j \in S : m >= j
  BY <1>2
<1>7. Prompt!Max(S) \in S /\ \A j \in S : Prompt!Max(S) >= j
  BY <1>4, <1>6
<1> QED
  BY <1>5, <1>7

\* A text that is trimmed is empty, or starts and ends with a character that is
\* no space.
LEMMA Trimmed ==
  ASSUME NEW text \in Prompt!Text, Prompt!trim(text) # << >>
  PROVE  LET left == Prompt!trim(text)
         IN  left \in Prompt!Text /\ left[1] \notin Space /\ left[Len(left)] \notin Space
<1> DEFINE ink == {i \in DOMAIN text : text[i] \notin Space}
           a == Prompt!Min(ink)
           b == Prompt!Max(ink)
<1>1. Len(text) \in Nat /\ DOMAIN text = 1 .. Len(text)
  BY DEF Prompt!Text
<1>2. ink # {} /\ Prompt!trim(text) = SubSeq(text, a, b)
  BY DEF Prompt!trim
<1>3. ink \subseteq 1 .. Len(text)
  BY <1>1
<1>4. a \in ink /\ b \in ink /\ a <= b
  <2> HIDE DEF ink
  <2> QED BY <1>1, <1>2, <1>3, Extremes
<1> HIDE DEF a, b
<1>5. /\ a \in 1 .. Len(text) /\ b \in a .. Len(text)
      /\ text[a] \notin Space /\ text[b] \notin Space
  BY <1>1, <1>4
<1> DEFINE left == SubSeq(text, a, b)
<1>6. left \in Prompt!Text /\ Len(left) = b - a + 1
  BY <1>5 DEF Prompt!Text
<1>7. left[1] = text[a] /\ left[b - a + 1] = text[b]
  BY <1>5 DEF Prompt!Text
<1> QED
  BY <1>2, <1>5, <1>6, <1>7

\* What a turn or a field gives: a text or none.
TextOrNone == Prompt!Text \cup {None}

\* The items of a list that are texts, joined, are one.
LEMMA JoinedType ==
  ASSUME NEW items \in Seq(TextOrNone)
  PROVE  Prompt!NonEmpty(Prompt!join(Prompt!texts(items))) \in TextOrNone
  BY TextsType, JoinType DEF Prompt!NonEmpty, TextOrNone

\* The items of a list in Seq(S) are in S.
LEMMA Elements ==
  ASSUME NEW S, NEW s \in Seq(S)
  PROVE  Len(s) \in Nat /\ DOMAIN s = 1 .. Len(s) /\ \A i \in DOMAIN s : s[i] \in S
  OBVIOUS

\* content_text gives a text or none of every content of a message.
LEMMA ContentType ==
  ASSUME NEW content \in Prompt!Content
  PROVE  Prompt!content_text(content) \in TextOrNone
<1>1. CASE content.kind = "string"
  BY <1>1 DEF Prompt!Content, Prompt!Value, Prompt!Absent, Prompt!OtherValue, Prompt!content_text, TextOrNone
<1>2. CASE content.kind = "array"
  <2>1. content.items \in Seq([is_text : BOOLEAN, text : TextOrNone])
    BY <1>2 DEF Prompt!Content, Prompt!Value, Prompt!Absent, Prompt!OtherValue, TextOrNone
  <2> DEFINE items == [i \in DOMAIN content.items |->
                         IF content.items[i].is_text THEN content.items[i].text ELSE None]
  <2>2. DOMAIN content.items = 1 .. Len(content.items) /\ Len(content.items) \in Nat
    BY <2>1
  <2>4. ASSUME NEW i \in DOMAIN content.items PROVE items[i] \in TextOrNone
    <3>1. content.items[i] \in [is_text : BOOLEAN, text : TextOrNone]
      BY <2>1, Elements, Zenon
    <3> QED BY <3>1 DEF TextOrNone
  <2>5. items \in [1 .. Len(content.items) -> TextOrNone]
    BY <2>2, <2>4
  <2>6. items \in Seq(TextOrNone)
    BY <2>2, <2>5
  <2>3. Prompt!content_text(content) = Prompt!NonEmpty(Prompt!join(Prompt!texts(items)))
    BY <1>2 DEF Prompt!content_text
  <2> HIDE DEF items
  <2> QED BY <2>3, <2>6, JoinedType
<1>3. CASE content.kind \notin {"string", "array"}
  BY <1>3 DEF Prompt!content_text, TextOrNone
<1> QED
  BY <1>1, <1>2, <1>3

\* So does text_or_array of prompt and of input.
LEMMA FieldType ==
  ASSUME NEW value \in Prompt!Field
  PROVE  Prompt!text_or_array(value) \in TextOrNone
<1>1. CASE value.kind = "string"
  BY <1>1 DEF Prompt!Field, Prompt!Value, Prompt!Absent, Prompt!OtherValue, Prompt!text_or_array, TextOrNone
<1>2. CASE value.kind = "array"
  <2>1. value.items \in Seq(TextOrNone)
    BY <1>2 DEF Prompt!Field, Prompt!Value, Prompt!Absent, Prompt!OtherValue, TextOrNone
  <2>2. Prompt!text_or_array(value) = Prompt!NonEmpty(Prompt!join(Prompt!texts(value.items)))
    BY <1>2 DEF Prompt!text_or_array
  <2> QED BY <2>1, <2>2, JoinedType
<1>3. CASE value.kind \notin {"string", "array"}
  BY <1>3 DEF Prompt!text_or_array, TextOrNone
<1> QED
  BY <1>1, <1>2, <1>3

\* And so the candidate is a text or none, whichever source it is from.
LEMMA CandidateType ==
  ASSUME NEW object \in Prompt!Objects
  PROVE  Prompt!candidate(object) \in TextOrNone
<1>1. object.prompt \in Prompt!Field /\ object.input \in Prompt!Field
  BY DEF Prompt!Objects
<1>2. ASSUME object.messages.kind = "array"
      PROVE  Prompt!from_messages(object.messages.items) \in TextOrNone
  <2> DEFINE turns == object.messages.items
             users == {i \in DOMAIN turns : turns[i].user}
  <2>1. turns \in Seq([user : BOOLEAN, content : Prompt!Content])
    BY <1>2 DEF Prompt!Objects, Prompt!Value, Prompt!Absent, Prompt!OtherValue
  <2>2. users \subseteq 1 .. Len(turns) /\ Len(turns) \in Nat
    BY <2>1
  <2>3. ASSUME users # {}
        PROVE  Prompt!content_text(turns[Prompt!Max(users)].content) \in TextOrNone
    <3>1. Prompt!Max(users) \in users
      <4> HIDE DEF users
      <4> QED BY <2>2, <2>3, Extremes
    <3>3. \A i \in users : turns[i] \in [user : BOOLEAN, content : Prompt!Content]
      BY <2>1, Elements, Zenon
    <3>2. turns[Prompt!Max(users)].content \in Prompt!Content
      <4> HIDE DEF turns, users
      <4> QED BY <3>1, <3>3
    <3> QED BY <3>2, ContentType
  <2> QED
    BY <2>3 DEF Prompt!from_messages, TextOrNone
<1> QED
  BY <1>1, <1>2, FieldType DEF Prompt!candidate, TextOrNone

\* A prompt is a text that starts and ends with no space, and the context is what
\* truncate_chars leaves of it.
LEMMA PromptOf ==
  ASSUME NEW body \in Bodies, Prompt!extract_prompt(body) # None
  PROVE  LET prompt == Prompt!extract_prompt(body)
         IN  /\ prompt \in Prompt!Text /\ prompt # << >>
             /\ prompt[1] \notin Space /\ prompt[Len(prompt)] \notin Space
             /\ Prompt!Context(body) = Prompt!truncate_chars(prompt, MaxPromptChars)
<1> DEFINE c == Prompt!candidate(body.object)
<1>1. body.kind = "object" /\ c # None /\ Prompt!extract_prompt(body) = Prompt!NonEmpty(Prompt!trim(c))
  BY DEF Prompt!extract_prompt
<1>2. c \in Prompt!Text
  BY <1>1, BodiesAssumption, CandidateType DEF TextOrNone
<1> HIDE DEF c
<1>3. Prompt!extract_prompt(body) = Prompt!trim(c) /\ Prompt!trim(c) # << >>
  BY <1>1 DEF Prompt!NonEmpty
<1> QED
  BY <1>2, <1>3, Trimmed DEF Prompt!Context

\* ContextIsThePrompt: for every body and every limit the context is the prompt up
\* to max_prompt_chars characters, cut between two of them and never blank.
THEOREM ContextIsCutPrompt ==
  FunctionsSpec => []ContextIsThePrompt
<1>1. ASSUME Extracted, Returned("extract"), returned.prompt # None
      PROVE  LET kept == IF Len(returned.prompt) < MaxPromptChars
                         THEN Len(returned.prompt) ELSE MaxPromptChars
             IN  /\ returned.context = Prompt!bytes(SubSeq(returned.prompt, 1, kept))
                 /\ returned.context # << >> /\ returned.context[1][1] \notin Space
                 /\ returned.prompt[Len(returned.prompt)] \notin Space
  <2> DEFINE prompt == Prompt!extract_prompt(call.body)
  <2>1. /\ call.body \in Bodies /\ returned.prompt = prompt
        /\ returned.context = Prompt!Context(call.body)
    BY <1>1 DEF Extracted, Returned
  <2>2. prompt # None
    BY <1>1, <2>1
  <2>3. /\ prompt \in Prompt!Text /\ prompt # << >>
        /\ prompt[1] \notin Space /\ prompt[Len(prompt)] \notin Space
        /\ Prompt!Context(call.body) = Prompt!truncate_chars(prompt, MaxPromptChars)
    BY <2>1, <2>2, PromptOf
  <2> HIDE DEF prompt
  <2>4. LET kept == IF Len(prompt) < MaxPromptChars THEN Len(prompt) ELSE MaxPromptChars
            left == Prompt!truncate_chars(prompt, MaxPromptChars)
        IN  /\ left = Prompt!bytes(SubSeq(prompt, 1, kept))
            /\ left # << >> /\ left[1] = <<prompt[1], 1>>
    BY <2>3, TruncateKeeps, FunctionsAssumption
  <2> QED
    BY <2>1, <2>3, <2>4
<1>2. Extracted => ContextIsThePrompt
  BY <1>1 DEF ContextIsThePrompt
<1> QED
  BY <1>2, ExtractedHolds, PTL

-----------------------------------------------------------------------------
(* from_config.                                                            *)

\* A set of numbers that is not empty has a least one, which is its Min.
LEMMA LeastOf ==
  ASSUME NEW S, S \subseteq Nat, S # {}
  PROVE  /\ Startup!Min(S) \in S
         /\ \A j \in S : Startup!Min(S) <= j
<1>1. PICK m \in S : \A j \in S : ~(<<j, m>> \in OpToRel(<, Nat))
  BY NatLessThanWellFounded, WFMin
<1>2. \A j \in S : m <= j
  <2> SUFFICES ASSUME NEW j \in S, j < m PROVE FALSE
    OBVIOUS
  <2>1. /\ <<j, m>> \in Nat \X Nat
        /\ <<j, m>>[1] = j /\ <<j, m>>[2] = m
    OBVIOUS
  <2>2. <<j, m>> \in {ss \in Nat \X Nat : ss[1] < ss[2]}
    BY <2>1
  <2> QED
    BY <1>1, <2>2, Zenon DEF OpToRel
<1> QED
  BY <1>2 DEF Startup!Min

\* Cardinality is the same in an instance of FiniteSets.
LEMMA SameCardinality == \A S : Startup!Cardinality(S) = Cardinality(S)
  BY DEF Startup!Cardinality, Cardinality

\* A route list that is accepted has no bad route.
LEMMA AcceptedRoutes ==
  ASSUME NEW rs, Len(rs) \in Nat, DOMAIN rs = 1 .. Len(rs),
         Startup!RoutesError(rs) = "none"
  PROVE  /\ rs # << >>
         /\ \A i \in DOMAIN rs : Startup!RouteError(rs, i) = "none"
<1> DEFINE bad == {i \in DOMAIN rs : Startup!RouteError(rs, i) # "none"}
<1>1. bad \subseteq Nat
  OBVIOUS
<1>2. rs # << >>
  BY DEF Startup!RoutesError
<1>3. bad # {} => Startup!RouteError(rs, Startup!Min(bad)) = "none"
  BY <1>2 DEF Startup!RoutesError
<1>4. bad # {} => Startup!Min(bad) \in bad
  <2> HIDE DEF bad
  <2> QED BY <1>1, LeastOf
<1>5. bad = {}
  BY <1>3, <1>4
<1> QED
  BY <1>2, <1>5

\* An accepted configuration breaks no rule, that on its routes included.
LEMMA AcceptedConfig ==
  ASSUME NEW c, Startup!validate(c) = "none"
  PROVE  Startup!RoutesError(c.routes) = "none"
<1> DEFINE R == Startup!Rules(c)
           broken == {i \in DOMAIN R : R[i].broken}
<1>1. DOMAIN R = 1 .. 13
  BY DEF Startup!Rules
<1>7. /\ R[5].broken <=> Startup!RoutesError(c.routes) # "none"
      /\ R[5].error = Startup!RoutesError(c.routes)
  BY DEF Startup!Rules
<1>2. broken # {} => R[Startup!Min(broken)].error = "none"
  BY DEF Startup!validate
<1>3. broken # {} => Startup!Min(broken) \in broken
  <2>1. broken \subseteq Nat
    BY <1>1
  <2> HIDE DEF broken
  <2> QED BY <2>1, LeastOf
<1>4. \A i \in DOMAIN R : R[i].broken => R[i].error # "none"
  <2>2. R[5].broken => R[5].error # "none"
    BY <1>7
  <2>3. /\ R[1].error # "none" /\ R[2].error # "none" /\ R[3].error # "none"
        /\ R[4].error # "none" /\ R[6].error # "none" /\ R[7].error # "none"
        /\ R[8].error # "none" /\ R[9].error # "none" /\ R[10].error # "none"
        /\ R[11].error # "none" /\ R[12].error # "none" /\ R[13].error # "none"
    BY DEF Startup!Rules
  <2> HIDE DEF R
  <2> QED
    BY <1>1, <2>2, <2>3
<1>5. broken = {}
  <2> HIDE DEF R
  <2> QED BY <1>2, <1>3, <1>4
<1>6. ~R[5].broken
  <2> HIDE DEF R
  <2> QED BY <1>1, <1>5
<1> HIDE DEF R
<1>8. ~(Startup!RoutesError(c.routes) # "none")
  BY <1>6, <1>7, Zenon
<1> QED
  BY <1>8

\* No two routes of an accepted list have the same label.
LEMMA NoDuplicates ==
  ASSUME NEW rs, Len(rs) \in Nat, DOMAIN rs = 1 .. Len(rs),
         Startup!RoutesError(rs) = "none"
  PROVE  \A i, j \in DOMAIN rs : rs[i].label = rs[j].label => i = j
<1>1. \A i \in DOMAIN rs : Startup!RouteError(rs, i) = "none"
  BY AcceptedRoutes
<1>2. \A i \in DOMAIN rs : \A j \in 1 .. i - 1 : rs[j].label # rs[i].label
  BY <1>1 DEF Startup!RouteError
<1> QED
  BY <1>2

\* The map has exactly the routes as written.
LEMMA RouteMap ==
  ASSUME NEW c, Len(c.routes) \in Nat, DOMAIN c.routes = 1 .. Len(c.routes),
         \A i, j \in DOMAIN c.routes : c.routes[i].label = c.routes[j].label => i = j
  PROVE  /\ DOMAIN Startup!route_map(c) = {c.routes[i].label : i \in DOMAIN c.routes}
         /\ \A i \in DOMAIN c.routes :
              Startup!route_map(c)[c.routes[i].label] = c.routes[i].cluster
<1> DEFINE same(l) == {i \in DOMAIN c.routes : c.routes[i].label = l}
<1>1. \A i \in DOMAIN c.routes : same(c.routes[i].label) = {i}
  OBVIOUS
<1>2. \A i \in DOMAIN c.routes : Startup!Max({i}) = i
  BY DEF Startup!Max
<1>3. Startup!route_map(c)
        = [l \in {c.routes[i].label : i \in DOMAIN c.routes} |->
             c.routes[Startup!Max(same(l))].cluster]
  BY DEF Startup!route_map
<1> HIDE DEF same
<1> QED
  BY <1>1, <1>2, <1>3

\* The rank of i in F is how many elements of F are below it.
Rank(F, i) == Cardinality({j \in F : j < i})

\* The elements of a finite set of numbers have the ranks from 0 on, one each.
LEMMA RanksAreOneToOne ==
  ASSUME NEW F, F \subseteq Nat, IsFiniteSet(F)
  PROVE  /\ \A i, j \in F : Rank(F, i) = Rank(F, j) => i = j
         /\ \A k \in 0 .. Cardinality(F) - 1 : \E i \in F : Rank(F, i) = k
         /\ \A i \in F : Rank(F, i) \in 0 .. Cardinality(F) - 1
<1> DEFINE below(i) == {j \in F : j < i}
<1>1. \A i : below(i) \in SUBSET F /\ IsFiniteSet(below(i)) /\ Cardinality(below(i)) \in Nat
  <2> TAKE i
  <2>1. below(i) \in SUBSET F
    OBVIOUS
  <2> HIDE DEF below
  <2> QED
    BY <2>1, FS_Subset, FS_CardinalityType
<1>2. ASSUME NEW i \in F, NEW j \in F, i < j
      PROVE  Cardinality(below(i)) < Cardinality(below(j))
  <2>1. i \in Nat /\ j \in Nat /\ \A x \in F : x \in Nat
    OBVIOUS
  <2>2. \A x \in F : x < i => x < j
    BY <1>2, <2>1
  <2>3. below(i) \subseteq below(j)
    BY <2>2
  <2>4. i \in below(j) /\ i \notin below(i)
    BY <1>2, <2>1
  <2> HIDE DEF below
  <2> QED
    BY <1>1, <2>3, <2>4, FS_Subset
<1>3. ASSUME NEW i \in F
      PROVE  Cardinality(below(i)) < Cardinality(F)
  <2>1. below(i) \in SUBSET F /\ i \in F /\ i \notin below(i)
    OBVIOUS
  <2> HIDE DEF below
  <2> QED
    BY <1>1, <2>1, FS_Subset, FS_CardinalityType
<1>4. \A i, j \in F : Cardinality(below(i)) = Cardinality(below(j)) => i = j
  <2> SUFFICES ASSUME NEW i \in F, NEW j \in F, Cardinality(below(i)) = Cardinality(below(j)),
                      i # j
               PROVE  FALSE
    OBVIOUS
  <2>1. i < j \/ j < i
    OBVIOUS
  <2> HIDE DEF below
  <2> QED
    BY <1>1, <1>2, <2>1
<1> DEFINE N == Cardinality(F)
           rank == [i \in F |-> Cardinality(below(i))]
<1>5. N \in Nat /\ IsFiniteSet(0 .. N - 1) /\ Cardinality(0 .. N - 1) = N
  <2>1. N \in Nat
    BY FS_CardinalityType
  <2> HIDE DEF N
  <2> QED
    BY <2>1, FS_Interval
<1>6. rank \in [F -> 0 .. N - 1] /\ \A i, j \in F : rank[i] = rank[j] => i = j
  <2> HIDE DEF below
  <2> QED
    BY <1>1, <1>3, <1>4, <1>5
<1>7. rank \in Surjection(F, 0 .. N - 1)
  <2>1. rank \in Injection(F, 0 .. N - 1)
    <3> HIDE DEF rank, N
    <3> QED
      BY <1>6, Fun_IsInj
  <2> HIDE DEF rank
  <2> QED
    BY <1>5, <2>1, FS_Injection
<1>8. \A k \in 0 .. N - 1 : \E i \in F : rank[i] = k
  BY <1>7 DEF Surjection
<1> QED
  BY <1>4, <1>6, <1>8 DEF Rank

\* The clusters as the operator named them, the default first.
Names(c) == <<c.default_cluster>> \o [i \in DOMAIN c.routes |-> c.routes[i].cluster]

\* The first mention of each.
Firsts(c) == {i \in DOMAIN Names(c) : \A j \in 1 .. i - 1 : Names(c)[j] # Names(c)[i]}

\* There is one name more than there are routes.
LEMMA NamesAre ==
  ASSUME NEW c, Len(c.routes) \in Nat, DOMAIN c.routes = 1 .. Len(c.routes)
  PROVE  /\ DOMAIN Names(c) = 1 .. Len(c.routes) + 1
         /\ Names(c)[1] = c.default_cluster
         /\ \A i \in DOMAIN c.routes : Names(c)[i + 1] = c.routes[i].cluster
<1> DEFINE tail == [i \in DOMAIN c.routes |-> c.routes[i].cluster]
           S == {c.default_cluster} \cup {c.routes[i].cluster : i \in DOMAIN c.routes}
           n == Len(c.routes)
<1>1. n \in Nat /\ tail \in [1 .. n -> S] /\ c.default_cluster \in S
  OBVIOUS
<1>2. \A i \in 1 .. n : tail[i] = c.routes[i].cluster
  OBVIOUS
<1> HIDE DEF tail, S, n
<1>3. tail \in Seq(S) /\ Len(tail) = n
  BY <1>1
<1>4. <<c.default_cluster>> \in Seq(S) /\ Len(<<c.default_cluster>>) = 1
  BY <1>1
<1>5. Names(c) = <<c.default_cluster>> \o tail
  BY DEF Names, tail
<1>6. DOMAIN Names(c) = 1 .. n + 1
  BY <1>1, <1>3, <1>4, <1>5
<1>7. Names(c)[1] = c.default_cluster
  BY <1>1, <1>3, <1>4, <1>5
<1>8. \A i \in 1 .. n : Names(c)[i + 1] = tail[i]
  BY <1>1, <1>3, <1>4, <1>5
<1> QED
  BY <1>2, <1>6, <1>7, <1>8 DEF n

\* all_clusters has each name once, at the rank of its first mention.
LEMMA AllClusters ==
  ASSUME NEW c, Len(c.routes) \in Nat, DOMAIN c.routes = 1 .. Len(c.routes)
  PROVE  LET told == Startup!all_clusters(c) IN
         /\ {told[i] : i \in DOMAIN told} = {Names(c)[i] : i \in DOMAIN Names(c)}
         /\ \A i, j \in DOMAIN told : told[i] = told[j] => i = j
         /\ told[1] = c.default_cluster
<1> DEFINE told == Startup!all_clusters(c)
           F == Firsts(c)
           n == Len(c.routes)
           at(k) == CHOOSE i \in F : Startup!Cardinality({j \in F : j < i}) = k - 1
<1>1. /\ n \in Nat
      /\ DOMAIN Names(c) = 1 .. n + 1
      /\ Names(c)[1] = c.default_cluster
  BY NamesAre
<1>2. F \subseteq Nat /\ IsFiniteSet(F) /\ F \subseteq DOMAIN Names(c)
  <2>1. F \subseteq 1 .. n + 1
    BY <1>1 DEF Firsts
  <2>2. IsFiniteSet(1 .. n + 1)
    BY <1>1, FS_Interval
  <2> HIDE DEF F, n
  <2> QED
    BY <1>1, <2>1, <2>2, FS_Subset, 1 .. n + 1 \subseteq Nat
<1>3. told = [k \in 1 .. Cardinality(F) |-> Names(c)[at(k)]]
  <2>1. told = [k \in 1 .. Startup!Cardinality(F) |-> Names(c)[at(k)]]
    BY DEF Startup!all_clusters, Firsts, Names
  <2> HIDE DEF told, F, at
  <2> QED
    BY <2>1, SameCardinality
<1>4. Cardinality(F) \in Nat
  BY <1>2, FS_CardinalityType
<1>5. /\ \A i, j \in F : Rank(F, i) = Rank(F, j) => i = j
      /\ \A k \in 0 .. Cardinality(F) - 1 : \E i \in F : Rank(F, i) = k
  BY <1>2, RanksAreOneToOne
<1>6. \A k \in 1 .. Cardinality(F) : at(k) \in F /\ Rank(F, at(k)) = k - 1
  <2> HIDE DEF F
  <2> TAKE k \in 1 .. Cardinality(F)
  <2>1. k - 1 \in 0 .. Cardinality(F) - 1
    BY <1>4
  <2>2. \E i \in F : Rank(F, i) = k - 1
    BY <1>5, <2>1
  <2>3. \E i \in F : Startup!Cardinality({j \in F : j < i}) = k - 1
    BY <2>2, SameCardinality DEF Rank
  <2> DEFINE i == at(k)
  <2>4. i \in F /\ Startup!Cardinality({j \in F : j < i}) = k - 1
    BY <2>3
  <2> QED
    BY <2>4, SameCardinality DEF Rank
<1>7. \A i, j \in F : Names(c)[i] = Names(c)[j] => i = j
  <2> SUFFICES ASSUME NEW i \in F, NEW j \in F, Names(c)[i] = Names(c)[j], i # j
               PROVE  FALSE
    OBVIOUS
  <2>1. i \in Nat \ {0} /\ j \in Nat \ {0}
    BY <1>1, <1>2
  <2>2. i \in 1 .. j - 1 \/ j \in 1 .. i - 1
    BY <2>1
  <2> QED
    BY <2>2 DEF Firsts
<1>8. \A i \in DOMAIN Names(c) : \E f \in F : Names(c)[f] = Names(c)[i]
  <2> TAKE i \in DOMAIN Names(c)
  <2> DEFINE same == {j \in DOMAIN Names(c) : Names(c)[j] = Names(c)[i]}
             f == Startup!Min(same)
  <2>1. same \subseteq Nat /\ same # {}
    BY <1>1
  <2>2. f \in same /\ \A j \in same : f <= j
    <3> HIDE DEF same
    <3> QED
      BY <2>1, LeastOf
  <2> HIDE DEF f
  <2>3. \A j \in 1 .. f - 1 : Names(c)[j] # Names(c)[f]
    BY <1>1, <2>2
  <2> QED
    BY <2>2, <2>3 DEF Firsts
<1>9. \A f \in F : \E k \in 1 .. Cardinality(F) : at(k) = f
  <2> TAKE f \in F
  <2>1. Rank(F, f) \in 0 .. Cardinality(F) - 1
    BY <1>2, RanksAreOneToOne
  <2> DEFINE k == Rank(F, f) + 1
  <2>2. k \in 1 .. Cardinality(F) /\ k - 1 = Rank(F, f)
    BY <1>4, <2>1
  <2> HIDE DEF F, k
  <2>3. at(k) \in F /\ Rank(F, at(k)) = Rank(F, f)
    BY <1>6, <2>2
  <2>4. at(k) = f
    BY <1>5, <2>3
  <2> QED
    BY <2>2, <2>4
<1>10. at(1) = 1
  <2>1. 1 \in F /\ {j \in F : j < 1} = {}
    BY <1>1, <1>2 DEF Firsts
  <2>2. Rank(F, 1) = 0
    <3> HIDE DEF F
    <3> QED
      BY <2>1, FS_EmptySet DEF Rank
  <2>3. 1 \in 1 .. Cardinality(F)
    BY <1>4, <2>1, <2>2, <1>2, RanksAreOneToOne
  <2> HIDE DEF F
  <2>4. at(1) \in F /\ Rank(F, at(1)) = 0
    <3> HIDE DEF at
    <3> QED
      BY <1>6, <2>3
  <2> QED
    BY <1>5, <2>1, <2>2, <2>4
<1> HIDE DEF at, told, F
<1>11. 1 \in 1 .. Cardinality(F)
  BY <1>1, <1>4, <1>8, <1>9
<1>12. DOMAIN told = 1 .. Cardinality(F) /\ \A k \in DOMAIN told : told[k] = Names(c)[at(k)]
  BY <1>3
<1>13. {told[i] : i \in DOMAIN told} = {Names(c)[i] : i \in DOMAIN Names(c)}
  <2>1. \A k \in DOMAIN told : at(k) \in DOMAIN Names(c)
    BY <1>2, <1>6, <1>12
  <2>2. \A i \in DOMAIN Names(c) : \E k \in DOMAIN told : told[k] = Names(c)[i]
    BY <1>8, <1>9, <1>12
  <2> QED
    BY <1>12, <2>1, <2>2
<1>14. \A i, j \in DOMAIN told : told[i] = told[j] => i = j
  <2> SUFFICES ASSUME NEW i \in DOMAIN told, NEW j \in DOMAIN told, told[i] = told[j]
               PROVE  i = j
    OBVIOUS
  <2>1. at(i) = at(j)
    BY <1>6, <1>7, <1>12
  <2>2. i - 1 = j - 1
    BY <1>6, <1>12, <2>1
  <2> QED
    BY <1>4, <1>12, <2>2
<1>15. told[1] = c.default_cluster
  BY <1>1, <1>10, <1>11, <1>12
<1> QED
  BY <1>13, <1>14, <1>15 DEF told

\* What from_config has been asked, and that it has answered that.
Configured ==
  call.fn = "from_config" =>
    /\ call.raw \in RawConfigs
    /\ returned = None \/ returned = Startup!from_config(call.raw)

\* It is asked once, of one of RawConfigs, and the answer is from_config's.
LEMMA ConfiguredHolds == FunctionsSpec => []Configured
<1>1. FunctionsInit => Configured
  BY DEF FunctionsInit, Configured
<1>2. Configured /\ [FunctionsNext]_functionVars => Configured'
  <2> SUFFICES ASSUME Configured, [FunctionsNext]_functionVars
               PROVE  Configured'
    OBVIOUS
  <2>1. CASE FunctionsNext
    <3> SUFFICES ASSUME call.fn = "from_config" PROVE Configured'
      BY <2>1 DEF FunctionsNext, Configured
    <3>1. call' = call /\ returned' = Startup!from_config(call.raw)
      BY <2>1 DEF FunctionsNext, Decide, Extract, FromConfig
    <3> QED
      BY <3>1 DEF Configured
  <2>2. CASE UNCHANGED functionVars
    BY <2>2 DEF Configured, functionVars
  <2> QED
    BY <2>1, <2>2
<1> QED
  BY <1>1, <1>2, PTL DEF FunctionsSpec

\* TablesMatchTheConfig, of a list of clusters and a table of routes.
TablesAre(c, told, routes) ==
  /\ \A i \in DOMAIN c.routes : routes[c.routes[i].label] = c.routes[i].cluster
  /\ Cardinality(DOMAIN routes) = Len(c.routes)
  /\ {told[i] : i \in DOMAIN told} = {c.default_cluster} \cup {routes[l] : l \in DOMAIN routes}
  /\ \A i, j \in DOMAIN told : told[i] = told[j] => i = j
  /\ told[1] = c.default_cluster

\* TablesMatchTheConfig, of the tables of an accepted configuration c.
TablesMatch(c) == TablesAre(c, Startup!all_clusters(c), Startup!route_map(c))

\* An accepted configuration has those tables: its labels are distinct, so none of
\* its routes is shadowed, and first mentions can be counted off.
LEMMA AcceptedTables ==
  ASSUME NEW c, Len(c.routes) \in Nat, DOMAIN c.routes = 1 .. Len(c.routes),
         Startup!validate(c) = "none"
  PROVE  TablesMatch(c)
<1> DEFINE told == Startup!all_clusters(c)
           routes == Startup!route_map(c)
           labels == {c.routes[i].label : i \in DOMAIN c.routes}
           n == Len(c.routes)
<1>1. \A i, j \in DOMAIN c.routes : c.routes[i].label = c.routes[j].label => i = j
  BY AcceptedConfig, NoDuplicates
<1>2. /\ DOMAIN routes = labels
      /\ \A i \in DOMAIN c.routes : routes[c.routes[i].label] = c.routes[i].cluster
  BY <1>1, RouteMap
<1>3. Cardinality(DOMAIN routes) = n
  <2> DEFINE f == [i \in 1 .. n |-> c.routes[i].label]
  <2>1. f \in Bijection(1 .. n, labels)
    <3>1. f \in [1 .. n -> labels] /\ \A i, j \in 1 .. n : f[i] = f[j] => i = j
      BY <1>1
    <3>2. \A l \in labels : \E i \in 1 .. n : f[i] = l
      OBVIOUS
    <3> HIDE DEF f, labels, n
    <3> QED
      BY <3>1, <3>2, Fun_IsBij
  <2>2. IsFiniteSet(1 .. n) /\ Cardinality(1 .. n) = n
    BY FS_Interval
  <2>3. ExistsBijection(1 .. n, labels)
    BY <2>1 DEF ExistsBijection
  <2> HIDE DEF labels, n
  <2> QED
    BY <1>2, <2>2, <2>3, FS_Bijection
<1>4. /\ {told[i] : i \in DOMAIN told} = {Names(c)[i] : i \in DOMAIN Names(c)}
      /\ \A i, j \in DOMAIN told : told[i] = told[j] => i = j
      /\ told[1] = c.default_cluster
  BY AllClusters
<1>5. {Names(c)[i] : i \in DOMAIN Names(c)}
        = {c.default_cluster} \cup {routes[l] : l \in DOMAIN routes}
  <2>1. /\ DOMAIN Names(c) = 1 .. n + 1
        /\ Names(c)[1] = c.default_cluster
        /\ \A i \in DOMAIN c.routes : Names(c)[i + 1] = c.routes[i].cluster
    BY NamesAre
  <2>2. ASSUME NEW i \in DOMAIN Names(c)
        PROVE  Names(c)[i] \in {c.default_cluster} \cup {routes[l] : l \in DOMAIN routes}
    <3>1. CASE i = 1
      BY <2>1, <3>1
    <3>2. CASE i # 1
      <4> DEFINE j == i - 1
      <4>1. j \in DOMAIN c.routes /\ i = j + 1
        BY <2>1, <3>2
      <4>2. Names(c)[i] = c.routes[j].cluster
        BY <2>1, <4>1
      <4> HIDE DEF routes, j
      <4> QED
        BY <1>2, <4>1, <4>2
    <3> QED
      BY <3>1, <3>2
  <2>3. ASSUME NEW l \in DOMAIN routes
        PROVE  \E i \in DOMAIN Names(c) : Names(c)[i] = routes[l]
    <3>1. PICK j \in DOMAIN c.routes : l = c.routes[j].label
      BY <1>2
    <3>2. routes[l] = c.routes[j].cluster
      BY <1>2, <3>1
    <3>3. j + 1 \in DOMAIN Names(c)
      BY <2>1
    <3> QED
      BY <2>1, <3>2, <3>3
  <2>4. 1 \in DOMAIN Names(c)
    BY <2>1
  <2> HIDE DEF routes
  <2> QED
    BY <2>1, <2>2, <2>3, <2>4
<1> HIDE DEF told, routes
<1> QED
  BY <1>2, <1>3, <1>4, <1>5 DEF TablesMatch, TablesAre, told, routes

\* TablesMatchTheConfig for every configuration an operator may write: accepted, it
\* is what the tables say, whatever the number of routes.
THEOREM TablesAreTheConfig ==
  FunctionsSpec => []TablesMatchTheConfig
<1>1. ASSUME Configured, Built
      PROVE  /\ TablesMatch(call.raw)
             /\ returned.routes = Startup!route_map(call.raw)
             /\ returned.clusters = Startup!all_clusters(call.raw)
  <2>1. call.raw \in RawConfigs /\ returned = Startup!from_config(call.raw)
    BY <1>1 DEF Built, Returned, Configured
  <2>2. /\ Startup!validate(call.raw) = "none"
        /\ returned = Startup!new(call.raw)
    BY <1>1, <2>1 DEF Built, Startup!from_config, Startup!Refused
  <2>3. Len(call.raw.routes) \in Nat /\ DOMAIN call.raw.routes = 1 .. Len(call.raw.routes)
    BY <2>1, RawAssumption
  <2> QED
    BY <2>2, <2>3, AcceptedTables DEF Startup!new
<1>2. Configured => TablesMatchTheConfig
  <2> SUFFICES ASSUME Configured, Built PROVE TablesMatchTheConfig
    BY DEF TablesMatchTheConfig
  <2>1. TablesMatch(call.raw)
    BY <1>1
  <2>2. /\ Startup!route_map(call.raw) = returned.routes
        /\ Startup!all_clusters(call.raw) = returned.clusters
    BY <1>1
  <2>3. TablesAre(call.raw, returned.clusters, returned.routes)
    BY <2>1, <2>2 DEF TablesMatch
  <2> QED
    BY <2>3 DEF TablesMatchTheConfig, TablesAre
<1> QED
  BY <1>2, ConfiguredHolds, PTL

=============================================================================
