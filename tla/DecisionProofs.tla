---------------------------- MODULE DecisionProofs ----------------------------
(***************************************************************************)
(* Lemmas about the decision: top_signal is well defined and maximal, and  *)
(* what decide returns is a decision that names a declared cluster.        *)
(***************************************************************************)
EXTENDS Decision, FiniteSetTheorems, TLAPS

\* Signal number j beats signal number i.
Beats(ranked, j, i) ==
  \/ ranked[i].score < ranked[j].score
  \/ ranked[i].score = ranked[j].score /\ i < j

\* A list of signals that is not empty has one that none beats.  Induction
\* is not needed: the sets of signals that beat a signal are finite, strict
\* inclusion of finite sets is well founded, and a minimal such set is empty.
LEMMA UnbeatenExists ==
  ASSUME NEW ranked \in Seq(Signal), ranked # << >>
  PROVE  \E i \in DOMAIN ranked : \A j \in DOMAIN ranked : ~Beats(ranked, j, i)
<1> DEFINE D == DOMAIN ranked
           Up(i) == {j \in D : Beats(ranked, j, i)}
           T == {Up(i) : i \in D}
<1>1. D = 1 .. Len(ranked) /\ Len(ranked) \in Nat /\ D # {}
  OBVIOUS
<1>2. IsFiniteSet(D)
  BY <1>1, FS_Interval
<1>3. \A i \in D : ranked[i].score \in Int
  <2>1. \A i \in D : ranked[i] \in Signal
    OBVIOUS
  <2> QED
    BY <2>1, ScoresAssumption DEF Signal
<1>4. T \subseteq FiniteSubsetsOf(D) /\ T # {}
  <2>1. T \subseteq SUBSET D
    <3>1. \A i \in D : Up(i) \in SUBSET D
      OBVIOUS
    <3> HIDE DEF Up
    <3> QED BY <3>1
  <2>2. FiniteSubsetsOf(D) = SUBSET D
    BY <1>2, FS_FiniteSubsetsOfFinite
  <2>3. T # {}
    <3> HIDE DEF Up
    <3> QED BY <1>1
  <2> HIDE DEF T, D
  <2> QED
    BY <2>1, <2>2, <2>3
<1>5. IsWellFoundedOn(StrictSubsetOrdering(D), FiniteSubsetsOf(D))
  BY FS_StrictSubsetOrderingWellFounded
<1>6. PICK m \in T : \A y \in T : ~(<<y, m>> \in StrictSubsetOrdering(D))
  <2> HIDE DEF T
  <2> QED BY <1>4, <1>5, WFMin
<1>7. PICK i \in D : m = Up(i)
  OBVIOUS
<1>8. \A j \in D : ~Beats(ranked, j, i)
  <2> SUFFICES ASSUME NEW j \in D, Beats(ranked, j, i)
               PROVE  FALSE
    OBVIOUS
  <2>1. \A k \in D : Beats(ranked, k, j) => Beats(ranked, k, i)
    BY <1>1, <1>3 DEF Beats
  <2>2. Up(j) \subseteq Up(i)
    BY <2>1
  <2>3. j \in Up(i) /\ j \notin Up(j)
    BY <1>1, <1>3 DEF Beats
  <2>4. <<Up(j), Up(i)>> \in StrictSubsetOrdering(D)
    BY <2>2, <2>3 DEF StrictSubsetOrdering
  <2> QED
    BY <2>4, <1>6, <1>7
<1> QED
  BY <1>8

\* top_signal is one of the signals and no signal has a higher score.
LEMMA TopSignal ==
  ASSUME NEW ranked \in Seq(Signal), ranked # << >>
  PROVE  /\ TopIndex(ranked) \in DOMAIN ranked
         /\ top_signal(ranked) \in Signal
         /\ \A j \in DOMAIN ranked : ranked[j].score <= top_signal(ranked).score
<1>1. PICK i \in DOMAIN ranked : \A j \in DOMAIN ranked : ~Beats(ranked, j, i)
  BY UnbeatenExists
<1>2. \A j \in DOMAIN ranked : ranked[j] \in Signal /\ ranked[j].score \in Int /\ j \in Int
  <2>1. \A j \in DOMAIN ranked : ranked[j] \in Signal /\ j \in Int
    OBVIOUS
  <2> QED
    BY <2>1, ScoresAssumption DEF Signal
<1>3. \A j \in DOMAIN ranked :
        \/ ranked[j].score < ranked[i].score
        \/ ranked[j].score = ranked[i].score /\ j <= i
  BY <1>1, <1>2 DEF Beats
<1>4. /\ TopIndex(ranked) \in DOMAIN ranked
      /\ \A j \in DOMAIN ranked :
           \/ ranked[j].score < ranked[TopIndex(ranked)].score
           \/ ranked[j].score = ranked[TopIndex(ranked)].score /\ j <= TopIndex(ranked)
  BY <1>3 DEF TopIndex
<1> QED
  BY <1>2, <1>4 DEF top_signal

\* Every outcome yields a decision of the right type, whose route is
\* rejection or one of the clusters the filter declared to Praxis.
THEOREM DecisionType ==
  ASSUME NEW cfg \in Config, NEW outcome \in Outcome
  PROVE  /\ decide(cfg, outcome) \in DecisionRecord
         /\ decide(cfg, outcome).route \in all_clusters(cfg) \cup {Reject}
<1> DEFINE d == decide(cfg, outcome)
<1>1. \A s \in StatusValues, a \in FailureAction :
        LET f == fallback(s, a, cfg.default_cluster)
        IN  /\ f \in DecisionRecord
            /\ f.route \in {cfg.default_cluster, Reject}
  BY DEF fallback, DecisionRecord, Config, FailureAction
<1>2. cfg.default_cluster \in all_clusters(cfg)
  BY DEF all_clusters
<1>3. cfg.on_unavailable \in FailureAction /\ cfg.on_resource_exhausted \in FailureAction
  BY DEF Config
<1>4. CASE outcome \in Response
  <2>1. outcome.kind = "Response" /\ outcome.status \in WireStatus
          /\ outcome.ranked \in Seq(Signal) /\ outcome.revision \in Revisions
    BY <1>4 DEF Response
  <2>2. d = ResponseDecision(cfg, outcome)
    BY <2>1 DEF decide
  <2>3. CASE outcome.status = "ABSTAIN"
    BY <2>1, <2>2, <2>3, <1>1, <1>2 DEF ResponseDecision, DecisionRecord, FailureAction, StatusValues
  <2>4. CASE outcome.status \in {"UNAVAILABLE", "UNSPECIFIED", "UNKNOWN"}
    BY <2>1, <2>2, <2>4, <1>1, <1>2, <1>3 DEF ResponseDecision, DecisionRecord, StatusValues
  <2>5. CASE outcome.status = "OK" /\ outcome.ranked = << >>
    BY <2>1, <2>2, <2>5, <1>1, <1>2 DEF ResponseDecision, DecisionRecord, FailureAction, StatusValues
  <2>6. CASE outcome.status = "OK" /\ outcome.ranked # << >>
    <3> DEFINE top == top_signal(outcome.ranked)
    <3>1. top \in Signal
      BY <2>1, <2>6, TopSignal
    <3>2. d = RankedDecision(cfg, top, outcome.revision)
      BY <2>1, <2>2, <2>6 DEF ResponseDecision
    <3>3. cfg.routes[top.label] # None => cfg.routes[top.label] \in all_clusters(cfg)
      BY <3>1 DEF all_clusters, Signal
    <3>4. cfg.routes[top.label] \in Clusters \cup {None} /\ cfg.default_cluster \in Clusters
      BY <3>1 DEF Config, Signal
    <3>5. d.route \in all_clusters(cfg) /\ d.route \in Clusters
      BY <3>2, <3>3, <3>4, <1>2 DEF RankedDecision
    <3> QED
      BY <3>1, <3>2, <3>5, <2>1 DEF RankedDecision, DecisionRecord, StatusValues, Signal
  <2> QED
    BY <2>1, <2>3, <2>4, <2>5, <2>6 DEF WireStatus
<1>5. CASE outcome = Timeout
  BY <1>5, <1>1, <1>2, <1>3 DEF decide, Timeout, StatusValues
<1>6. CASE outcome \in {GrpcStatus(code) : code \in GrpcCode}
  <2>1. PICK code \in GrpcCode : outcome = [kind |-> "Status", code |-> code]
    BY <1>6 DEF GrpcStatus
  <2>2. d = StatusDecision(cfg, code)
    BY <2>1 DEF decide
  <2> QED
    BY <2>1, <2>2, <1>1, <1>2, <1>3 DEF StatusDecision, StatusValues, GrpcCode
<1> QED
  BY <1>4, <1>5, <1>6 DEF Outcome

\* A decision that is not OK took one of the two fallback routes; only an
\* answer of the classifier is ever OK.
LEMMA FallbackRoute ==
  ASSUME NEW cfg \in Config, NEW outcome \in Outcome
  PROVE  /\ decide(cfg, outcome).status # "OK" =>
              decide(cfg, outcome).route \in {cfg.default_cluster, Reject}
         /\ decide(cfg, outcome).status = "OK" => outcome \in Response
<1> DEFINE d == decide(cfg, outcome)
<1>1. CASE outcome \in Response
  <2>1. outcome.kind = "Response" /\ outcome.status \in WireStatus
    BY <1>1 DEF Response
  <2>2. d = ResponseDecision(cfg, outcome)
    BY <2>1 DEF decide
  <2>3. CASE outcome.status \in {"ABSTAIN", "UNAVAILABLE", "UNSPECIFIED", "UNKNOWN"}
    BY <2>2, <2>3 DEF ResponseDecision, fallback
  <2>4. CASE outcome.status = "OK" /\ outcome.ranked = << >>
    BY <2>2, <2>4 DEF ResponseDecision, fallback
  <2>5. CASE outcome.status = "OK" /\ outcome.ranked # << >>
    <3>1. d = RankedDecision(cfg, top_signal(outcome.ranked), outcome.revision)
      BY <2>2, <2>5 DEF ResponseDecision
    <3> QED
      BY <1>1, <3>1 DEF RankedDecision
  <2> QED
    BY <1>1, <2>1, <2>3, <2>4, <2>5 DEF WireStatus
<1>2. CASE outcome = Timeout
  BY <1>2 DEF decide, Timeout, fallback
<1>3. CASE outcome \in {GrpcStatus(code) : code \in GrpcCode}
  <2>1. PICK code \in GrpcCode : outcome = GrpcStatus(code)
    BY <1>3
  <2>2. outcome.kind = "Status" /\ outcome.code = code
    BY <2>1 DEF GrpcStatus
  <2> QED
    BY <2>1, <2>2 DEF decide, StatusDecision, GrpcCode, fallback
<1> QED
  BY <1>1, <1>2, <1>3 DEF Outcome

\* A decision is OK by the best signal of an answer, whose label is routed.
LEMMA OKByBestSignal ==
  ASSUME NEW cfg \in Config, NEW outcome \in Response, decide(cfg, outcome).status = "OK"
  PROVE  /\ outcome.ranked # << >>
         /\ decide(cfg, outcome).label = top_signal(outcome.ranked).label
         /\ decide(cfg, outcome).label \in Labels /\ cfg.routes[decide(cfg, outcome).label] # None
<1> DEFINE d == decide(cfg, outcome)
           top == top_signal(outcome.ranked)
<1>1. /\ outcome.kind = "Response" /\ outcome.status \in WireStatus
      /\ outcome.ranked \in Seq(Signal)
  BY DEF Response
<1>2. d = ResponseDecision(cfg, outcome)
  BY <1>1 DEF decide
<1>3. outcome.status \notin {"ABSTAIN", "UNAVAILABLE", "UNSPECIFIED", "UNKNOWN"}
  BY <1>2 DEF ResponseDecision, fallback
<1>4. outcome.status = "OK" /\ outcome.ranked # << >>
  BY <1>1, <1>2, <1>3 DEF ResponseDecision, fallback, WireStatus
<1>5. d = RankedDecision(cfg, top, outcome.revision)
  BY <1>2, <1>4 DEF ResponseDecision
<1>6. top \in Signal
  BY <1>1, <1>4, TopSignal
<1>7. d.label = top.label /\ cfg.routes[top.label] # None
  BY <1>5 DEF RankedDecision
<1> QED
  BY <1>4, <1>6, <1>7 DEF Signal

\* The signals a response carries.
SignalsOf(ranked) == {ranked[i] : i \in DOMAIN ranked}

\* A sequence is empty exactly when it carries no signal.
LEMMA EmptyCarriesNone ==
  ASSUME NEW r \in Seq(Signal)
  PROVE  r = << >> <=> SignalsOf(r) = {}
<1>1. CASE r = << >>
  BY <1>1 DEF SignalsOf
<1>2. CASE r # << >>
  <2>1. 1 \in 1..Len(r) /\ DOMAIN r = 1..Len(r)
    BY <1>2
  <2>2. r[1] \in SignalsOf(r)
    BY <2>1 DEF SignalsOf
  <2> QED
    BY <1>2, <2>2
<1> QED
  BY <1>1, <1>2

\* Which signal is the best depends on which there are, not on their order, if
\* no two different ones have the same score.
LEMMA TopOfTheSame ==
  ASSUME NEW a \in Seq(Signal), NEW b \in Seq(Signal), a # << >>, b # << >>,
         SignalsOf(a) = SignalsOf(b),
         \A s, t \in SignalsOf(a) : s.score = t.score => s = t
  PROVE  top_signal(a) = top_signal(b)
<1>1. /\ top_signal(a) \in SignalsOf(a) /\ top_signal(a) \in Signal
      /\ \A s \in SignalsOf(a) : s.score <= top_signal(a).score
  BY TopSignal DEF SignalsOf, top_signal
<1>2. /\ top_signal(b) \in SignalsOf(b) /\ top_signal(b) \in Signal
      /\ \A s \in SignalsOf(b) : s.score <= top_signal(b).score
  BY TopSignal DEF SignalsOf, top_signal
<1>3. top_signal(a).score \in Int /\ top_signal(b).score \in Int
  BY <1>1, <1>2, ScoresAssumption DEF Signal
<1>4. top_signal(a).score <= top_signal(b).score /\ top_signal(b).score <= top_signal(a).score
  BY <1>1, <1>2
<1>5. top_signal(a).score = top_signal(b).score
  BY <1>3, <1>4
<1> QED
  BY <1>1, <1>2, <1>5

\* The order of the signals on the wire, and how often one is repeated, decide
\* nothing (SPEC.md:230-231), as long as no two signals have the same score; with
\* equal scores it is the order that decides (filter.rs, top_signal).
THEOREM OrderDecidesNothing ==
  ASSUME NEW cfg \in Config, NEW a \in Response, NEW b \in Response,
         a.status = b.status, a.revision = b.revision,
         SignalsOf(a.ranked) = SignalsOf(b.ranked),
         \A s, t \in SignalsOf(a.ranked) : s.score = t.score => s = t
  PROVE  decide(cfg, a) = decide(cfg, b)
<1>1. /\ a.kind = "Response" /\ b.kind = "Response" /\ a.status \in WireStatus
      /\ a.ranked \in Seq(Signal) /\ b.ranked \in Seq(Signal)
  BY DEF Response
<1>2. a.ranked = << >> <=> b.ranked = << >>
  BY <1>1, EmptyCarriesNone
<1>3. decide(cfg, a) = ResponseDecision(cfg, a) /\ decide(cfg, b) = ResponseDecision(cfg, b)
  BY <1>1 DEF decide
<1>4. CASE a.status = "OK" /\ a.ranked # << >>
  <2>1. top_signal(a.ranked) = top_signal(b.ranked)
    BY <1>1, <1>2, <1>4, TopOfTheSame
  <2>2. /\ ResponseDecision(cfg, a) = RankedDecision(cfg, top_signal(a.ranked), a.revision)
        /\ ResponseDecision(cfg, b) = RankedDecision(cfg, top_signal(b.ranked), b.revision)
    BY <1>2, <1>4 DEF ResponseDecision
  <2> QED
    BY <1>3, <2>1, <2>2
<1>5. CASE a.status = "OK" /\ a.ranked = << >>
  BY <1>2, <1>3, <1>5 DEF ResponseDecision
<1>6. CASE a.status = "ABSTAIN"
  BY <1>3, <1>6 DEF ResponseDecision
<1>7. CASE a.status \in {"UNAVAILABLE", "UNSPECIFIED", "UNKNOWN"}
  BY <1>3, <1>7 DEF ResponseDecision
<1> QED
  BY <1>1, <1>4, <1>5, <1>6, <1>7 DEF WireStatus

=============================================================================
