-------------------------- MODULE ScenarioRunProofs --------------------------
(***************************************************************************)
(* What a scenario that passes shows, whatever was measured: what          *)
(* bench/prompts/check_leakage.py lets through, and that no arm of B-4 is  *)
(* built without it; that B-5's decomposition cannot fail; what a nearest- *)
(* rank percentile says of the records it was taken of; and, from one      *)
(* invariant of the run (RunInv), what an arm of B-7 or of the self-test   *)
(* proves by its counters, and what exit code 0 means for B-6 and for the  *)
(* scenarios that publish the difference of two arms.                      *)
(***************************************************************************)
EXTENDS ScenarioRun, DecisionProofs, FiniteSetTheorems, FunctionTheorems, WellFoundedInduction,
        TLAPS

-----------------------------------------------------------------------------
(* The scores of two texts.                                                *)

\* The tokens of a text are finitely many.
LEMMA TokensAreFinite ==
  ASSUME NEW t, IsFiniteSet(DOMAIN t.words)
  PROVE  IsFiniteSet(full_tokens(t))
<1> DEFINE D == DOMAIN t.words
           Im == {t.words[i] : i \in D}
           F == [i \in D |-> t.words[i]]
<1>1. IsFiniteSet(Im)
  <2>1. F \in [D -> Im] /\ \A x \in Im : \E i \in D : F[i] = x
    OBVIOUS
  <2> HIDE DEF D, Im, F
  <2>2. F \in Surjection(D, Im)
    BY <2>1, Fun_IsSurj
  <2> QED
    BY <2>2, FS_Surjection DEF D
<1>2. full_tokens(t) = Im \ Opaque
  BY DEF full_tokens, normalize
<1> QED
  BY <1>1, <1>2, FS_Difference

\* An anchor whose tokens all occur in a prompt is seen in it (containment).
LEMMA WholeAnchorIsSeen ==
  ASSUME NEW p, NEW a, IsFiniteSet(full_tokens(p)), IsFiniteSet(full_tokens(a)),
         full_tokens(a) # {}, full_tokens(a) \subseteq full_tokens(p)
  PROVE  is_near_duplicate(p, a)
<1> DEFINE P == full_tokens(p)
           A == full_tokens(a)
<1> HIDE DEF P, A
<1>0. IsFiniteSet(P) /\ IsFiniteSet(A) /\ A # {} /\ A \subseteq P
  BY DEF P, A
<1>1. Cardinality(A) \in Nat /\ Cardinality(P) \in Nat /\ Cardinality(A) # 0
  BY <1>0, FS_CardinalityType, FS_EmptySet
<1>2. Cardinality(A) <= Cardinality(P)
  BY <1>0, FS_Subset
<1>3. P \cap A = A
  BY <1>0
<1>4. \/ Cardinality(P) <= Cardinality(A) /\ Cardinality(P) = Cardinality(A)
      \/ ~(Cardinality(P) <= Cardinality(A))
  BY <1>1, <1>2
<1>5. containment(P, A) = <<Cardinality(A), Cardinality(A)>>
  BY <1>3, <1>4 DEF containment
<1>6. Reaches(containment(P, A), FULL_CONTAINMENT_LIMIT)
  BY <1>1, <1>5 DEF Reaches, FULL_CONTAINMENT_LIMIT
<1> QED
  BY <1>6 DEF is_near_duplicate, P, A

\* An anchor of four or more tokens with one of them dropped, added or exchanged
\* is seen (jaccard: three shared of at most five).
LEMMA OneWordIsSeen ==
  ASSUME NEW p, NEW a, IsFiniteSet(full_tokens(p)), IsFiniteSet(full_tokens(a)),
         Cardinality(full_tokens(a) \ full_tokens(p)) <= 1,
         Cardinality(full_tokens(p) \ full_tokens(a)) <= 1,
         Cardinality(full_tokens(a)) >= 4
  PROVE  is_near_duplicate(p, a)
<1> DEFINE P == full_tokens(p)
           A == full_tokens(a)
           Both == P \cap A
           OnlyP == P \ A
           OnlyA == A \ P
<1> HIDE DEF P, A
<1>0. /\ IsFiniteSet(P) /\ IsFiniteSet(A)
      /\ Cardinality(OnlyA) <= 1 /\ Cardinality(OnlyP) <= 1 /\ Cardinality(A) >= 4
  BY DEF P, A
<1>1. IsFiniteSet(Both) /\ IsFiniteSet(OnlyP) /\ IsFiniteSet(OnlyA)
  BY <1>0, FS_Intersection, FS_Difference
<1>2. /\ Cardinality(Both) \in Nat /\ Cardinality(OnlyP) \in Nat /\ Cardinality(OnlyA) \in Nat
      /\ Cardinality({}) = 0
  BY <1>1, FS_CardinalityType, FS_EmptySet
<1>3. Cardinality(OnlyA) = Cardinality(A) - Cardinality(Both)
  <2>1. A \cap P = Both
    OBVIOUS
  <2> QED
    BY <1>0, <2>1, FS_Difference
<1>4. /\ Cardinality(OnlyP) = Cardinality(P) - Cardinality(Both)
      /\ Cardinality(P \cup A) = Cardinality(P) + Cardinality(A) - Cardinality(Both)
  BY <1>0, FS_Difference, FS_Union
<1>5. jaccard(P, A) = <<Cardinality(Both), Cardinality(P \cup A)>>
  BY DEF jaccard
<1>6. Reaches(jaccard(P, A), FULL_JACCARD_LIMIT)
  <2> DEFINE b == Cardinality(Both)
             u == Cardinality(P \cup A)
  <2> HIDE DEF Both, OnlyP, OnlyA
  <2>0. Cardinality(P) \in Nat /\ Cardinality(A) \in Nat
    BY <1>0, FS_CardinalityType
  <2>1. b \in Nat /\ u \in Nat /\ b >= 3 /\ u <= b + 2 /\ u > 0
    BY <1>0, <1>2, <1>3, <1>4, <2>0
  <2>2. 100 * b >= 60 * u
    BY <2>1
  <2> QED
    BY <1>5, <2>1, <2>2 DEF Reaches, FULL_JACCARD_LIMIT
<1> QED
  BY <1>6 DEF is_near_duplicate, P, A

-----------------------------------------------------------------------------
(* The check, and the run that rests on it.                                *)

\* What check_leakage with exit code 0 has established.
LEMMA CleanSets ==
  ASSUME NEW prompts, NEW dir, check_leakage(prompts, dir, FALSE) = 0
  PROVE  /\ AnchorFiles \subseteq DOMAIN dir
         /\ ~internal_dupes(prompts)
         /\ \A i \in DOMAIN prompts, f \in AnchorFiles : \A a \in dir[f] :
              /\ normalize(prompts[i].text) # normalize(a)
              /\ ~is_near_duplicate(prompts[i].text, a)
<1> DEFINE Anchors == UNION {dir[f] : f \in DOMAIN dir \cap AnchorFiles}
<1>1. AnchorFiles \ DOMAIN dir = {}
  BY DEF check_leakage, load_anchors
<1>2. verbatim(prompts, Anchors) = {} /\ near(prompts, Anchors) = {} /\ ~internal_dupes(prompts)
  BY DEF check_leakage, load_anchors
<1>3. \A i \in DOMAIN prompts : \A a \in Anchors :
        normalize(prompts[i].text) # normalize(a) /\ ~is_near_duplicate(prompts[i].text, a)
  BY <1>2 DEF verbatim, near
<1>4. \A f \in AnchorFiles : dir[f] \subseteq Anchors
  BY <1>1
<1> QED
  BY <1>1, <1>2, <1>3, <1>4

\* B-4 has no arm before the check has passed.
ArmsNeedTheCheck ==
  /\ w \in Invocations
  /\ w.scenario = "b4" /\ plan # << >> => check_leakage(w.prompts, w.anchors, FALSE) = 0

LEMMA CheckComesFirst == Spec => []ArmsNeedTheCheck
<1>1. Init => ArmsNeedTheCheck
  BY DEF Init, ArmsNeedTheCheck
<1>2. ArmsNeedTheCheck /\ [Next]_vars => ArmsNeedTheCheck'
  <2> SUFFICES ASSUME ArmsNeedTheCheck, [Next]_vars
               PROVE  ArmsNeedTheCheck'
    OBVIOUS
  <2>1. CASE Build
    <3>1. CASE MayRun
      BY <2>1, <3>1 DEF Build, MayRun, ArmsNeedTheCheck
    <3>2. CASE ~MayRun
      BY <2>1, <3>2 DEF Build, ArmsNeedTheCheck
    <3> QED
      BY <3>1, <3>2
  <2>2. CASE Setup
    BY <2>2 DEF Setup, ArmsNeedTheCheck
  <2>3. CASE Request
    BY <2>3 DEF Request, ArmsNeedTheCheck
  <2>4. CASE RequestFails
    BY <2>4 DEF RequestFails, ArmsNeedTheCheck
  <2>5. CASE StartMeasured
    BY <2>5 DEF StartMeasured, ArmsNeedTheCheck
  <2>6. CASE Judge
    BY <2>6 DEF Judge, ArmsNeedTheCheck
  <2>7. CASE Report
    BY <2>7 DEF Report, ArmsNeedTheCheck
  <2>8. CASE LateRequest
    BY <2>8 DEF LateRequest, ArmsNeedTheCheck
  <2>9. CASE Stranger
    BY <2>9 DEF Stranger, ArmsNeedTheCheck
  <2>10. CASE GatewayRestarts
    BY <2>10 DEF GatewayRestarts, ArmsNeedTheCheck
  <2>11. CASE UNCHANGED vars
    BY <2>11 DEF vars, ArmsNeedTheCheck
  <2> QED
    BY <2>1, <2>2, <2>3, <2>4, <2>5, <2>6, <2>7, <2>8, <2>9, <2>10, <2>11 DEF Next
<1> QED
  BY <1>1, <1>2, PTL DEF Spec

\* B-4 sends no prompt the classifiers were built from, whatever the prompts and
\* the anchors (HeldOut): check_leakage comes before the first arm, and the
\* four scores see a whole anchor and an anchor with one word changed.
THEOREM PromptsAreHeldOut == Spec => []HeldOut
<1>1. ArmsNeedTheCheck => HeldOut
  <2> SUFFICES ASSUME ArmsNeedTheCheck, w.scenario = "b4", plan # << >>
               PROVE  /\ AnchorFiles \subseteq DOMAIN w.anchors
                      /\ ~internal_dupes(w.prompts)
                      /\ \A i \in DOMAIN w.prompts, f \in AnchorFiles : \A a \in w.anchors[f] :
                           LET p == full_tokens(w.prompts[i].text)
                               t == full_tokens(a)
                           IN  /\ normalize(w.prompts[i].text) # normalize(a)
                               /\ t = {} \/ ~(t \subseteq p)
                               /\ Cardinality(t \ p) <= 1 /\ Cardinality(p \ t) <= 1
                                    => Cardinality(t) < 4
    BY DEF HeldOut
  <2>1. check_leakage(w.prompts, w.anchors, FALSE) = 0 /\ w \in Invocations
    BY DEF ArmsNeedTheCheck
  <2>2. AnchorFiles \subseteq DOMAIN w.anchors /\ ~internal_dupes(w.prompts)
    BY <2>1, CleanSets
  <2>3. ASSUME NEW i \in DOMAIN w.prompts, NEW f \in AnchorFiles, NEW a \in w.anchors[f]
        PROVE  LET p == full_tokens(w.prompts[i].text)
                   t == full_tokens(a)
               IN  /\ normalize(w.prompts[i].text) # normalize(a)
                   /\ t = {} \/ ~(t \subseteq p)
                   /\ Cardinality(t \ p) <= 1 /\ Cardinality(p \ t) <= 1
                        => Cardinality(t) < 4
    <3> DEFINE p == w.prompts[i].text
    <3>1. normalize(p) # normalize(a) /\ ~is_near_duplicate(p, a)
      BY <2>1, CleanSets
    <3>2. IsFiniteSet(DOMAIN p.words) /\ IsFiniteSet(DOMAIN a.words)
      BY <2>1, <2>2, TextsAssumption
    <3> HIDE DEF p
    <3>3. IsFiniteSet(full_tokens(p)) /\ IsFiniteSet(full_tokens(a))
      BY <3>2, TokensAreFinite
    <3>4. full_tokens(a) = {} \/ ~(full_tokens(a) \subseteq full_tokens(p))
      BY <3>1, <3>3, WholeAnchorIsSeen
    <3>5. Cardinality(full_tokens(a) \ full_tokens(p)) <= 1
            /\ Cardinality(full_tokens(p) \ full_tokens(a)) <= 1
            => ~(Cardinality(full_tokens(a)) >= 4)
      BY <3>1, <3>3, OneWordIsSeen
    <3>6. Cardinality(full_tokens(a)) \in Nat
      BY <3>3, FS_CardinalityType
    <3>7. ~(Cardinality(full_tokens(a)) >= 4) => Cardinality(full_tokens(a)) < 4
      BY <3>6
    <3> QED
      BY <3>1, <3>4, <3>5, <3>7 DEF p
  <2> QED
    BY <2>2, <2>3
<1> QED
  BY <1>1, CheckComesFirst, PTL

-----------------------------------------------------------------------------
(* B-5.                                                                    *)

\* The decomposition of B-5 reconciles whatever was measured: once there is a
\* latency header and an overhead to subtract, the assertion cannot fail
\* (b5_end_to_end.py, _decomposition_assertion).
THEOREM DecompositionAlwaysReconciles ==
  ASSUME NEW inv, NEW a, NEW rs,
         inv.praxis_overhead # None, inv.praxis_overhead \in Int,
         \E r \in ok_records(a, rs) : r.us # None,
         latency_ms(a, rs, 50) \in Nat,
         percentile({<<r.i, r.us>> : r \in {x \in ok_records(a, rs) : x.us # None}}, 50) \in Int
  PROVE  decomposition_assertion(inv, a, rs)
<1> DEFINE us == {<<r.i, r.us>> : r \in {x \in ok_records(a, rs) : x.us # None}}
           total == latency_ms(a, rs, 50)
           classify == percentile(us, 50)
           overhead == inv.praxis_overhead
<1>1. us # {}
  OBVIOUS
<1> HIDE DEF us, total, classify, overhead
<1>2. total \in Nat /\ classify \in Int /\ overhead \in Int /\ overhead # None
  BY DEF total, classify, us, overhead
<1>3. overhead + classify + (total - overhead - classify) = total
  BY <1>2
<1>4. Distance(total, total) = 0
  BY <1>2 DEF Distance
<1>5. 20 * Distance(total, overhead + classify + (total - overhead - classify)) <= total
  BY <1>2, <1>3, <1>4
<1> QED
  BY <1>1, <1>2, <1>5 DEF decomposition_assertion, us, total, classify, overhead

-----------------------------------------------------------------------------
(* Nearest rank: S is a finite set of <<index, value>> pairs.              *)

NoMore(S, v) == {e \in S : e[2] <= v}

\* Where the value of rank p lies among those of S.
Ranked(S, p, v) ==
  /\ Cardinality(S) \in Nat /\ v \in {e[2] : e \in S}
  /\ 100 * Cardinality({e \in S : e[2] < v}) < p * Cardinality(S)
  /\ p * Cardinality(S) <= 100 * Cardinality(NoMore(S, v))

LEMMA HighestExists ==
  ASSUME NEW S, IsFiniteSet(S), S # {}, \A e \in S : e[2] \in Nat
  PROVE  \E e \in S : \A x \in S : x[2] <= e[2]
<1> DEFINE Up(e) == {x \in S : x[2] > e[2]}
           T == {Up(e) : e \in S}
<1>1. T \subseteq FiniteSubsetsOf(S) /\ T # {}
  <2>1. \A e \in S : Up(e) \in SUBSET S
    OBVIOUS
  <2>2. FiniteSubsetsOf(S) = SUBSET S
    BY FS_FiniteSubsetsOfFinite
  <2> HIDE DEF Up
  <2>3. T \subseteq SUBSET S /\ T # {}
    BY <2>1
  <2> QED
    BY <2>2, <2>3
<1>2. IsWellFoundedOn(StrictSubsetOrdering(S), FiniteSubsetsOf(S))
  BY FS_StrictSubsetOrderingWellFounded
<1>3. PICK m \in T : \A y \in T : ~(<<y, m>> \in StrictSubsetOrdering(S))
  <2> HIDE DEF T
  <2> QED
    BY <1>1, <1>2, WFMin
<1>4. PICK e \in S : m = Up(e)
  OBVIOUS
<1>5. ASSUME NEW x \in S, ~(x[2] <= e[2]) PROVE FALSE
  <2>1. x \in Up(e) /\ x \notin Up(x) /\ Up(x) \subseteq Up(e)
    BY <1>5
  <2>2. <<Up(x), Up(e)>> \in StrictSubsetOrdering(S)
    BY <2>1 DEF StrictSubsetOrdering
  <2> QED
    BY <1>3, <1>4, <2>2
<1> QED
  BY <1>5

LEMMA RankReached ==
  ASSUME NEW S, IsFiniteSet(S), \A e \in S : e[2] \in Nat,
         NEW rank \in Nat \ {0}, rank <= Cardinality(S)
  PROVE  \E e \in S : /\ rank <= Cardinality(NoMore(S, e[2]))
                      /\ Cardinality({x \in S : x[2] < e[2]}) < rank
<1> DEFINE R == {e \in S : rank <= Cardinality(NoMore(S, e[2]))}
           T == {NoMore(S, e[2]) : e \in R}
<1>0. S # {}
  BY FS_EmptySet
<1>1. R # {}
  <2>1. PICK e \in S : \A x \in S : x[2] <= e[2]
    BY <1>0, HighestExists
  <2>2. NoMore(S, e[2]) = S
    BY <2>1 DEF NoMore
  <2> QED
    BY <2>2
<1>2. T \subseteq FiniteSubsetsOf(S) /\ T # {}
  <2>1. \A e \in R : NoMore(S, e[2]) \in SUBSET S
    BY DEF NoMore
  <2>2. FiniteSubsetsOf(S) = SUBSET S
    BY FS_FiniteSubsetsOfFinite
  <2> HIDE DEF R
  <2>3. T \subseteq SUBSET S /\ T # {}
    BY <1>1, <2>1
  <2> QED
    BY <2>2, <2>3
<1>3. IsWellFoundedOn(StrictSubsetOrdering(S), FiniteSubsetsOf(S))
  BY FS_StrictSubsetOrderingWellFounded
<1>4. PICK m \in T : \A y \in T : ~(<<y, m>> \in StrictSubsetOrdering(S))
  <2> HIDE DEF T
  <2> QED
    BY <1>2, <1>3, WFMin
<1>5. PICK e \in R : m = NoMore(S, e[2])
  BY <1>4
<1>6. ASSUME NEW x \in S, x[2] < e[2] PROVE ~(rank <= Cardinality(NoMore(S, x[2])))
  <2>1. e[2] \in Nat /\ x[2] \in Nat /\ e \in S
    OBVIOUS
  <2>2. NoMore(S, x[2]) \subseteq NoMore(S, e[2])
    BY <1>6, <2>1 DEF NoMore
  <2>3. e \in NoMore(S, e[2]) /\ e \notin NoMore(S, x[2])
    BY <1>6, <2>1 DEF NoMore
  <2>4. <<NoMore(S, x[2]), NoMore(S, e[2])>> \in StrictSubsetOrdering(S)
    <3>1. NoMore(S, e[2]) \subseteq S
      BY DEF NoMore
    <3> QED
      BY <2>2, <2>3, <3>1 DEF StrictSubsetOrdering
  <2>5. NoMore(S, x[2]) \notin T
    BY <1>4, <1>5, <2>4
  <2> QED
    BY <2>5
<1> DEFINE B == {x \in S : x[2] < e[2]}
<1>7. Cardinality(B) < rank
  <2>1. CASE B = {}
    <3>1. Cardinality(B) = 0
      BY <2>1, FS_EmptySet
    <3> QED
      BY <3>1
  <2>2. CASE B # {}
    <3>1. IsFiniteSet(B) /\ \A x \in B : x[2] \in Nat
      BY FS_Subset
    <3>2. PICK y \in B : \A x \in B : x[2] <= y[2]
      <4> HIDE DEF B
      <4> QED
        BY <2>2, <3>1, HighestExists
    <3>3. B = NoMore(S, y[2])
      <4>1. e[2] \in Nat /\ y[2] \in Nat /\ y[2] < e[2]
        OBVIOUS
      <4>2. ASSUME NEW x \in S PROVE x \in B <=> x[2] <= y[2]
        BY <3>2, <4>1
      <4> QED
        BY <4>2 DEF NoMore
    <3>4. ~(rank <= Cardinality(B))
      BY <1>6, <3>3
    <3>5. Cardinality(B) \in Nat
      BY <3>1, FS_CardinalityType
    <3> QED
      BY <3>4, <3>5
  <2> QED
    BY <2>1, <2>2
<1> QED
  BY <1>7

\* The value of nearest rank p is one of the values; it lies where its rank says.
LEMMA PercentileIs ==
  ASSUME NEW S, IsFiniteSet(S), S # {}, \A e \in S : e[2] \in Nat, NEW p \in {50, 99}
  PROVE  Ranked(S, p, percentile(S, p))
<1> DEFINE n == Cardinality(S)
           rank == (p * n + 99) \div 100
<1>1. n \in Nat /\ n # 0
  BY FS_CardinalityType, FS_EmptySet
<1> HIDE DEF n
<1>2. rank \in Nat \ {0} /\ rank <= n /\ p * n <= 100 * rank /\ 100 * (rank - 1) < p * n
  <2>1. CASE p = 50
    BY <1>1, <2>1
  <2>2. CASE p = 99
    BY <1>1, <2>2
  <2> QED
    BY <2>1, <2>2
<1> DEFINE Is(v) == /\ Cardinality({e \in S : e[2] < v}) < rank
                    /\ rank <= Cardinality({e \in S : e[2] <= v})
           V == {e[2] : e \in S}
<1>3. \E v \in V : Is(v)
  <2> HIDE DEF rank
  <2>1. PICK e \in S : /\ rank <= Cardinality(NoMore(S, e[2]))
                       /\ Cardinality({x \in S : x[2] < e[2]}) < rank
    BY <1>2, RankReached DEF n
  <2>2. Is(e[2]) /\ e[2] \in V
    BY <2>1, Zenon DEF NoMore
  <2> HIDE DEF Is, V
  <2> QED
    BY <2>2
<1>4. percentile(S, p) = CHOOSE v \in V : Is(v)
  BY DEF percentile, n
<1> DEFINE v == percentile(S, p)
<1>5. v \in V /\ Is(v)
  <2> HIDE DEF V, Is
  <2> QED
    BY <1>3, <1>4
<1> HIDE DEF rank, v
<1>6. Cardinality({e \in S : e[2] < v}) \in Nat /\ Cardinality(NoMore(S, v)) \in Nat
  <2>1. {e \in S : e[2] < v} \subseteq S /\ NoMore(S, v) \subseteq S
    BY DEF NoMore
  <2> QED
    BY <2>1, FS_Subset, FS_CardinalityType
<1>7. Cardinality(NoMore(S, v)) >= rank
  BY <1>2, <1>5, <1>6 DEF NoMore
<1>8. Cardinality({e \in S : e[2] < v}) <= rank - 1
  BY <1>2, <1>5, <1>6
<1>9. p * n \in Nat
  BY <1>1
<1> QED
  BY <1>1, <1>2, <1>5, <1>6, <1>7, <1>8, <1>9 DEF v, n, Ranked

LEMMA PairsCount ==
  ASSUME NEW rs, IsFiniteSet(rs), \A r, q \in rs : r.i = q.i => r = q
  PROVE  /\ IsFiniteSet({<<r.i, r.lat>> : r \in rs})
         /\ Cardinality({<<r.i, r.lat>> : r \in rs}) = Cardinality(rs)
<1> DEFINE S == {<<r.i, r.lat>> : r \in rs}
           F == [r \in rs |-> <<r.i, r.lat>>]
<1>1. /\ F \in [rs -> S]
      /\ \A x, y \in rs : F[x] = F[y] => x = y
      /\ \A s \in S : \E r \in rs : F[r] = s
  OBVIOUS
<1> HIDE DEF F, S
<1>2. F \in Bijection(rs, S)
  BY <1>1, Fun_IsBij
<1>3. IsFiniteSet(S) /\ Cardinality(S) = Cardinality(rs)
  BY <1>2, FS_Bijection DEF ExistsBijection
<1> QED
  BY <1>3 DEF S

\* The same of the records of an arm, whose indices are told apart.
RankedLatency(rs, p, v) ==
  /\ Cardinality(rs) \in Nat /\ v \in {r.lat : r \in rs}
  /\ 100 * Cardinality({r \in rs : r.lat < v}) < p * Cardinality(rs)
  /\ p * Cardinality(rs) <= 100 * Cardinality({r \in rs : r.lat <= v})

LEMMA LatencyIs ==
  ASSUME NEW a, NEW rs, IsFiniteSet(rs), rs # {}, ok_records(a, rs) = rs,
         \A r, q \in rs : r.i = q.i => r = q, \A r \in rs : r.lat \in Nat,
         NEW p \in {50, 99}
  PROVE  RankedLatency(rs, p, latency_ms(a, rs, p))
<1> DEFINE S == {<<r.i, r.lat>> : r \in rs}
           v == latency_ms(a, rs, p)
           Low == {r \in rs : r.lat < v}
           UpTo == {r \in rs : r.lat <= v}
<1>1. v = percentile(S, p)
  BY DEF latency_ms
<1>2. IsFiniteSet(S) /\ Cardinality(S) = Cardinality(rs)
  BY PairsCount
<1>3. S # {} /\ \A e \in S : e[2] \in Nat
  <2>1. \A r \in rs : <<r.i, r.lat>> \in S
    OBVIOUS
  <2>2. \A e \in S : \E r \in rs : e = <<r.i, r.lat>>
    OBVIOUS
  <2> HIDE DEF S
  <2>3. S # {}
    BY <2>1
  <2>4. \A e \in S : e[2] \in Nat
    BY <2>2
  <2> QED
    BY <2>3, <2>4
<1> HIDE DEF v
<1>4. {e \in S : e[2] < v} = {<<r.i, r.lat>> : r \in Low}
  OBVIOUS
<1>5. NoMore(S, v) = {<<r.i, r.lat>> : r \in UpTo}
  BY DEF NoMore
<1>6. v \in {e[2] : e \in S} => v \in {r.lat : r \in rs}
  OBVIOUS
<1>7. /\ Cardinality({<<r.i, r.lat>> : r \in Low}) = Cardinality(Low)
      /\ Cardinality({<<r.i, r.lat>> : r \in UpTo}) = Cardinality(UpTo)
  <2>1. IsFiniteSet(Low) /\ IsFiniteSet(UpTo)
    BY FS_Subset
  <2>2. /\ \A r, q \in Low : r.i = q.i => r = q
        /\ \A r, q \in UpTo : r.i = q.i => r = q
    OBVIOUS
  <2> HIDE DEF Low, UpTo
  <2> QED
    BY <2>1, <2>2, PairsCount
<1> HIDE DEF S, Low, UpTo
<1>8. Ranked(S, p, v)
  BY <1>1, <1>2, <1>3, PercentileIs
<1>9. /\ Cardinality(rs) \in Nat /\ v \in {r.lat : r \in rs}
      /\ 100 * Cardinality(Low) < p * Cardinality(rs)
      /\ p * Cardinality(rs) <= 100 * Cardinality(UpTo)
  BY <1>2, <1>4, <1>5, <1>6, <1>7, <1>8 DEF Ranked
<1> QED
  BY <1>9 DEF v, Low, UpTo, RankedLatency

-----------------------------------------------------------------------------
(* The arms of an invocation.                                              *)

Cases ==
  {"baseline", "classified", "routing-heldout", "always-large", "always-small", "classifier-down",
   "classifier-slow", "queue-exhausted", "fail-closed", "clusterip", "selftest"}

\* The case, the URL and the mode of the arms a scenario may build.
Offered(scenario) ==
  CASE scenario = "b1" ->
         {<<"baseline", "baseline", "n/a">>, <<"classified", "target", "miss">>,
          <<"classified", "target", "hit">>}
    [] scenario = "b2" -> {<<"baseline", "baseline", "n/a">>, <<"classified", "target", "miss">>}
    [] scenario = "b3" -> {<<"classified", "target", "miss">>}
    [] scenario = "b4" -> {<<"routing-heldout", "target", "n/a">>}
    [] scenario = "b5" ->
         {<<"always-large", "large", "n/a">>, <<"always-small", "small", "n/a">>,
          <<"classified", "target", "n/a">>}
    [] scenario = "b6" ->
         {<<"classifier-down", "down", "miss">>, <<"classifier-slow", "slow", "miss">>,
          <<"queue-exhausted", "exhausted", "miss">>, <<"fail-closed", "reject", "miss">>}
    [] scenario = "b7" -> {<<"clusterip", "target", "miss">>, <<"clusterip", "target", "hit">>}
    [] scenario = "b7c" ->
         {<<"baseline", "baseline", "miss">>, <<"classified", "target", "miss">>,
          <<"baseline", "baseline", "hit">>, <<"classified", "target", "hit">>}
    [] scenario = "selftest" ->
         {<<"selftest", "target", "miss">>, <<"selftest", "target", "hit">>}

\* What an arm is built from, if its URL was given.
Built(inv) ==
  {x \in [case : Cases, url : UrlNames, mode : {"n/a", "miss", "hit"}] :
     inv.urls[x.url] # None /\ <<x.case, x.url, x.mode>> \in Offered(inv.scenario)}

LEMMA ArmsGiven ==
  ASSUME NEW inv \in Invocations
  PROVE  ScenarioArms(inv) \in Seq(Built(inv))
<1> DEFINE B == Built(inv)
           s == inv.scenario
<1>1. ASSUME NEW case \in Cases, NEW url \in UrlNames, NEW mode \in {"n/a", "miss", "hit"},
             <<case, url, mode>> \in Offered(s)
      PROVE  Arm(inv, case, url, mode) \in Seq(B)
  <2>1. CASE inv.urls[url] = None
    BY <2>1 DEF Arm
  <2>2. CASE inv.urls[url] # None
    <3>1. [case |-> case, url |-> url, mode |-> mode] \in B
      BY <1>1, <2>2 DEF Built
    <3> HIDE DEF B
    <3> QED
      BY <2>2, <3>1 DEF Arm
  <2> QED
    BY <2>1, <2>2
<1> HIDE DEF B
<1>2. \A t, u \in Seq(B) : t \o u \in Seq(B)
  OBVIOUS
<1> USE DEF Offered, Cases, UrlNames
<1>3. CASE s = "b1"
  <2>1. /\ Arm(inv, "baseline", "baseline", "n/a") \in Seq(B)
        /\ Arm(inv, "classified", "target", "miss") \in Seq(B)
        /\ Arm(inv, "classified", "target", "hit") \in Seq(B)
    BY <1>1, <1>3
  <2> QED
    BY <1>2, <1>3, <2>1 DEF ScenarioArms, b1_arms, CacheArms, B
<1>4. CASE s = "b2"
  <2>1. /\ Arm(inv, "baseline", "baseline", "n/a") \in Seq(B)
        /\ Arm(inv, "classified", "target", "miss") \in Seq(B)
    BY <1>1, <1>4
  <2> QED
    BY <1>2, <1>4, <2>1 DEF ScenarioArms, b2_arms, B
<1>5. CASE s = "b3"
  <2>1. Arm(inv, "classified", "target", "miss") \in Seq(B)
    BY <1>1, <1>5
  <2> QED
    BY <1>5, <2>1 DEF ScenarioArms, b3_arms, B
<1>6. CASE s = "b4"
  <2>1. Arm(inv, "routing-heldout", "target", "n/a") \in Seq(B)
    BY <1>1, <1>6
  <2> QED
    BY <1>6, <2>1 DEF ScenarioArms, b4_arms, B
<1>7. CASE s = "b5"
  <2>1. /\ Arm(inv, "always-large", "large", "n/a") \in Seq(B)
        /\ Arm(inv, "always-small", "small", "n/a") \in Seq(B)
        /\ Arm(inv, "classified", "target", "n/a") \in Seq(B)
    BY <1>1, <1>7
  <2> QED
    BY <1>2, <1>7, <2>1 DEF ScenarioArms, b5_arms, B
<1>8. CASE s = "b6"
  <2>1. /\ Arm(inv, "classifier-down", "down", "miss") \in Seq(B)
        /\ Arm(inv, "classifier-slow", "slow", "miss") \in Seq(B)
        /\ Arm(inv, "queue-exhausted", "exhausted", "miss") \in Seq(B)
        /\ Arm(inv, "fail-closed", "reject", "miss") \in Seq(B)
    BY <1>1, <1>8
  <2> QED
    BY <1>2, <1>8, <2>1 DEF ScenarioArms, b6_arms, B
<1>9. CASE s = "b7"
  <2>1. /\ Arm(inv, "clusterip", "target", "miss") \in Seq(B)
        /\ Arm(inv, "clusterip", "target", "hit") \in Seq(B)
    BY <1>1, <1>9
  <2> QED
    BY <1>2, <1>9, <2>1 DEF ScenarioArms, b7_arms, CacheArms, B
<1>10. CASE s = "b7c"
  <2>1. /\ Arm(inv, "baseline", "baseline", "miss") \in Seq(B)
        /\ Arm(inv, "baseline", "baseline", "hit") \in Seq(B)
        /\ Arm(inv, "classified", "target", "miss") \in Seq(B)
        /\ Arm(inv, "classified", "target", "hit") \in Seq(B)
    BY <1>1, <1>10
  <2> QED
    BY <1>2, <1>10, <2>1 DEF ScenarioArms, b7c_arms, B
<1>11. CASE s = "selftest"
  <2>1. /\ Arm(inv, "selftest", "target", "miss") \in Seq(B)
        /\ Arm(inv, "selftest", "target", "hit") \in Seq(B)
    BY <1>1, <1>11
  <2> QED
    BY <1>2, <1>11, <2>1 DEF ScenarioArms, selftest_arms, CacheArms, B
<1> QED
  BY <1>3, <1>4, <1>5, <1>6, <1>7, <1>8, <1>9, <1>10, <1>11, InvocationsAssumption

\* The levels are a sequence, whether given or taken.
LEMMA LevelsType ==
  ASSUME NEW inv \in Invocations
  PROVE  Len(levels(inv)) \in Nat
<1>1. inv.levels \in Seq(Nat)
  BY InvocationsAssumption
<1> QED
  BY <1>1 DEF levels

\* Every arm is built from a case, a URL that was given and a mode.
LEMMA ArmFields ==
  ASSUME NEW inv \in Invocations, NEW n \in DOMAIN arms(inv)
  PROVE  \E x \in Built(inv) : \E level :
           arms(inv)[n] =
             [ name |-> <<x.case, x.mode, level>>, case |-> x.case, mode |-> x.mode,
               level |-> level, listener |-> inv.urls[x.url], warmup |-> inv.warmup,
               measured |-> IF Ordered(inv) = << >> THEN inv.measured ELSE Len(Ordered(inv)),
               expected_status |-> IF x.case = "fail-closed" THEN {503} ELSE {200} ]
<1> DEFINE given == ScenarioArms(inv)
           L == Len(given)
           x == given[((n - 1) % L) + 1]
           level == levels(inv)[((n - 1) \div L) + 1]
<1>1. given \in Seq(Built(inv))
  BY ArmsGiven
<1>2. Len(levels(inv)) \in Nat
  BY LevelsType
<1>3. n \in 1 .. Len(levels(inv)) * L
  BY DEF arms
<1>4. arms(inv)[n] =
        [ name |-> <<x.case, x.mode, level>>, case |-> x.case, mode |-> x.mode,
          level |-> level, listener |-> inv.urls[x.url], warmup |-> inv.warmup,
          measured |-> IF Ordered(inv) = << >> THEN inv.measured ELSE Len(Ordered(inv)),
          expected_status |-> IF x.case = "fail-closed" THEN {503} ELSE {200} ]
  BY <1>3 DEF arms
<1> HIDE DEF given
<1>5. L \in Nat
  BY <1>1
<1>6. L # 0
  <2> SUFFICES ASSUME L = 0 PROVE FALSE
    OBVIOUS
  <2>1. Len(levels(inv)) * L = 0
    BY <1>2
  <2> QED
    BY <1>3, <2>1
<1>7. ((n - 1) % L) + 1 \in 1 .. L
  BY <1>3, <1>5, <1>6, <1>2
<1>8. x \in Built(inv)
  BY <1>1, <1>7
<1> QED
  BY <1>4, <1>8

LEMMA ArmsType ==
  ASSUME NEW inv \in Invocations
  PROVE  /\ arms(inv) # << >> => 1 \in DOMAIN arms(inv)
         /\ Len(arms(inv)) \in Nat /\ DOMAIN arms(inv) = 1 .. Len(arms(inv))
<1> DEFINE N == Len(levels(inv)) * Len(ScenarioArms(inv))
<1>1. Len(levels(inv)) \in Nat /\ Len(ScenarioArms(inv)) \in Nat
  BY ArmsGiven, LevelsType
<1>2. N \in Nat
  BY <1>1
<1>3. \E f : arms(inv) = [n \in 1 .. N |-> f[n]]
  <2> DEFINE F == arms(inv)
  <2>1. F = [n \in 1 .. N |-> F[n]]
    BY DEF arms
  <2> QED
    BY <2>1
<1>4. PICK f : arms(inv) = [n \in 1 .. N |-> f[n]]
  BY <1>3
<1> HIDE DEF N
<1>5. Len(arms(inv)) = N /\ DOMAIN arms(inv) = 1 .. N
  BY <1>2, <1>4
<1>6. N = 0 => arms(inv) = << >>
  BY <1>4
<1> QED
  BY <1>2, <1>5, <1>6

-----------------------------------------------------------------------------
(* The shape of a run.                                                     *)

\* Records are numbered from 0 in the order they were made.
Indexed(S) ==
  /\ IsFiniteSet(S)
  /\ \A r \in S : r.i \in 0 .. Cardinality(S) - 1
  /\ \A i \in 0 .. Cardinality(S) - 1 : \E r \in S : r.i = i
  /\ \A r, q \in S : r.i = q.i => r = q

LEMMA IndexedAdds ==
  ASSUME NEW S, Indexed(S), NEW x, x.i = Cardinality(S)
  PROVE  /\ Indexed(S \cup {x}) /\ x \notin S
         /\ Cardinality(S \cup {x}) = Cardinality(S) + 1
         /\ Cardinality(S) \in Nat
<1>1. Cardinality(S) \in Nat
  BY FS_CardinalityType DEF Indexed
<1>2. x \notin S
  BY <1>1 DEF Indexed
<1>3. IsFiniteSet(S \cup {x}) /\ Cardinality(S \cup {x}) = Cardinality(S) + 1
  BY <1>2, FS_AddElement DEF Indexed
<1>4. Cardinality(S \cup {x}) - 1 = Cardinality(S)
  BY <1>1, <1>3
<1>5. \A r \in S \cup {x} : r.i \in 0 .. Cardinality(S)
  BY <1>1 DEF Indexed
<1>6. ASSUME NEW i \in 0 .. Cardinality(S) PROVE \E r \in S \cup {x} : r.i = i
  <2>1. CASE i = Cardinality(S)
    BY <2>1
  <2>2. CASE i # Cardinality(S)
    BY <1>1, <2>2 DEF Indexed
  <2> QED
    BY <2>1, <2>2
<1>7. \A r, q \in S \cup {x} : r.i = q.i => r = q
  <2>1. \A r \in S : r.i # x.i
    BY <1>1 DEF Indexed
  <2> QED
    BY <2>1 DEF Indexed
<1>8. Indexed(S \cup {x})
  <2> DEFINE T == S \cup {x}
  <2>1. IsFiniteSet(T) /\ Cardinality(T) - 1 = Cardinality(S)
    BY <1>3, <1>4
  <2> HIDE DEF T
  <2> QED
    BY <1>5, <1>6, <1>7, <2>1, Zenon DEF Indexed, T
<1> QED
  BY <1>1, <1>2, <1>3, <1>8

LEMMA NoneIndexed == Indexed({})
<1>1. IsFiniteSet({}) /\ Cardinality({}) = 0
  BY FS_EmptySet
<1> QED
  BY <1>1 DEF Indexed

Driving == phase \in {"setup", "warmup", "measured"}

Shape ==
  /\ w \in Invocations
  /\ phase \in {"build", "setup", "warmup", "measured", "report", "ended"}
  /\ plan \in {<< >>, arms(w)}
  /\ phase = "build" => k = 1
  /\ Driving => plan = arms(w) /\ k \in DOMAIN plan
  /\ Indexed(warm) /\ Indexed(recs)
  /\ gateway \in [OK : Nat, other : Nat] /\ strangers \in Nat

\* The arm that runs.
LEMMA ArmType ==
  ASSUME Shape, Driving
  PROVE  /\ arm.warmup = w.warmup
         /\ arm.measured = IF Ordered(w) = << >> THEN w.measured ELSE Len(Ordered(w))
         /\ \E url \in UrlNames : <<arm.case, url, arm.mode>> \in Offered(w.scenario)
         /\ arm.case # "fail-closed" => arm.expected_status = {200}
         /\ None \notin arm.expected_status
         /\ arm.listener.cfg \in Config /\ arm.listener.filter \in BOOLEAN
         /\ arm.listener.classifier \in {"up", "down", "slow", "full"}
         /\ arm.listener.filter \/ arm.listener.to \in Clusters
<1>1. w \in Invocations /\ k \in DOMAIN arms(w) /\ arm = arms(w)[k]
  BY DEF Shape, arm
<1>2. PICK x \in Built(w) : \E level :
           arm =
             [ name |-> <<x.case, x.mode, level>>, case |-> x.case, mode |-> x.mode,
               level |-> level, listener |-> w.urls[x.url], warmup |-> w.warmup,
               measured |-> IF Ordered(w) = << >> THEN w.measured ELSE Len(Ordered(w)),
               expected_status |-> IF x.case = "fail-closed" THEN {503} ELSE {200} ]
  BY <1>1, ArmFields
<1>3. /\ arm.warmup = w.warmup /\ arm.listener = w.urls[x.url] /\ arm.case = x.case
      /\ arm.measured = IF Ordered(w) = << >> THEN w.measured ELSE Len(Ordered(w))
      /\ arm.expected_status = IF x.case = "fail-closed" THEN {503} ELSE {200}
  BY <1>2
<1>4. /\ x.url \in UrlNames /\ w.urls[x.url] # None
      /\ <<arm.case, x.url, arm.mode>> \in Offered(w.scenario)
  BY <1>2 DEF Built
<1>5. /\ w.urls[x.url].filter \in BOOLEAN /\ w.urls[x.url].cfg \in Config
      /\ w.urls[x.url].classifier \in {"up", "down", "slow", "full"}
      /\ w.urls[x.url].filter \/ w.urls[x.url].to \in Clusters
  BY <1>1, <1>4, InvocationsAssumption
<1> QED
  BY <1>3, <1>4, <1>5, InvocationsAssumption

\* What a classify call ends in is an outcome the filter decides on.
LEMMA OutcomeType ==
  ASSUME Shape, Driving, NEW u, NEW o \in Outcomes(u)
  PROVE  /\ o \in Outcome /\ o # None /\ decide(arm.listener.cfg, o) \in DecisionRecord
         /\ o \in {Timeout, GrpcStatus("Other"), GrpcStatus("ResourceExhausted")} \cup Response
         /\ o \in Response => o = Says
<1>1. Says \in Response
  BY InvocationsAssumption DEF Says, Shape
<1>2. {Timeout, GrpcStatus("Other"), GrpcStatus("ResourceExhausted"), Says} \subseteq Outcome
  BY <1>1 DEF Outcome, GrpcCode
<1>3. Outcomes(u) \subseteq {Timeout, GrpcStatus("Other"), GrpcStatus("ResourceExhausted"), Says}
  <2>1. CASE arm.listener.classifier = "down"
    BY <2>1 DEF Outcomes
  <2>2. CASE arm.listener.classifier = "slow"
    BY <2>2 DEF Outcomes
  <2>3. CASE arm.listener.classifier = "full"
    BY <2>3 DEF Outcomes
  <2>4. CASE arm.listener.classifier = "up"
    BY <2>4 DEF Outcomes
  <2> QED
    BY <2>1, <2>2, <2>3, <2>4, ArmType
<1>4. o \in Outcome
  BY <1>2, <1>3
<1>5. o \in Response => o = Says
  <2>1. \A x \in Response : x.kind = "Response"
    BY DEF Response
  <2>2. /\ Timeout.kind = "Timeout" /\ GrpcStatus("Other").kind = "Status"
        /\ GrpcStatus("ResourceExhausted").kind = "Status"
    BY DEF Timeout, GrpcStatus
  <2> QED
    BY <1>3, <2>1, <2>2
<1> QED
  BY <1>1, <1>3, <1>4, <1>5, ArmType, DecisionType, InvocationsAssumption

\* The time a request takes.
LEMMA LatencyType ==
  ASSUME Shape, NEW o, NEW lat \in Latencies(o),
         \/ o = None
         \/ o \in {Timeout, GrpcStatus("Other"), GrpcStatus("ResourceExhausted")} \cup Response
  PROVE  lat \in Nat /\ (o \in Response /\ ~Hit => lat \in w.forward)
<1>1. w.timeout_ms \in Nat \ {0} /\ w.forward \subseteq Nat
  BY InvocationsAssumption DEF Shape
<1>2. None \notin Outcome
  BY InvocationsAssumption
<1>3. /\ Timeout.kind = "Timeout" /\ Timeout \in Outcome
      /\ \A code \in GrpcCode :
           /\ GrpcStatus(code).kind = "Status" /\ GrpcStatus(code).code = code
           /\ GrpcStatus(code) \in Outcome
      /\ \A x \in Response : x.kind = "Response" /\ x \in Outcome
  BY DEF Timeout, GrpcStatus, Outcome, Response
<1>4. CASE o = None
  <2>1. o \notin Response /\ Latencies(o) = {1}
    BY <1>2, <1>3, <1>4 DEF Latencies, GrpcCode
  <2> QED
    BY <2>1
<1>5. CASE o = Timeout
  <2>1. o \notin Response /\ o # None
    BY <1>2, <1>3, <1>5
  <2>2. Latencies(o) = {w.timeout_ms, 2 * w.timeout_ms}
    BY <1>2, <1>3, <1>5 DEF Latencies, GrpcCode
  <2> QED
    BY <1>1, <2>1, <2>2
<1>6. CASE o = GrpcStatus("Other")
  <2>1. o.kind = "Status" /\ o.code = "Other" /\ o # None /\ o # Timeout /\ o \notin Response
    BY <1>2, <1>3, <1>6 DEF GrpcCode
  <2>2. Latencies(o) = {2, w.timeout_ms - 1}
    BY <1>3, <1>6, <2>1 DEF Latencies, GrpcCode
  <2> QED
    BY <1>1, <2>1, <2>2
<1>7. CASE o = GrpcStatus("ResourceExhausted")
  <2>1. /\ o.kind = "Status" /\ o.code = "ResourceExhausted" /\ o # None /\ o # Timeout
        /\ o \notin Response
    BY <1>2, <1>3, <1>7 DEF GrpcCode
  <2>2. Latencies(o) = {2}
    BY <1>3, <1>7, <2>1 DEF Latencies, GrpcCode
  <2> QED
    BY <2>1, <2>2
<1>8. CASE o \in Response
  <2>1. o.kind = "Response" /\ o # None /\ o # Timeout
    BY <1>2, <1>3, <1>8
  <2>2. o # GrpcStatus("Other") /\ o # GrpcStatus("ResourceExhausted")
    BY <1>3, <2>1 DEF GrpcCode
  <2>3. Latencies(o) = IF Hit THEN {2} ELSE w.forward
    BY <2>1, <2>2 DEF Latencies
  <2> QED
    BY <1>1, <2>3
<1> QED
  BY <1>4, <1>5, <1>6, <1>7, <1>8

\* The record of a request that was answered.
LEMMA AnsweredFields ==
  ASSUME NEW d, NEW lat
  PROVE  LET r == Answered(d, lat)
             route == IF d = None THEN arm.listener.to ELSE d.route
         IN  /\ r.i = index /\ r.key = Key /\ r.lat = lat /\ r.hit = Hit /\ r.route = route
             /\ r.decided = IF d = None THEN None ELSE d.status
             /\ r.status = IF route # Reject THEN 200 ELSE 503
             /\ r.sc = IF route # Reject THEN Echoed(Sent(d)).sc ELSE None
             /\ r.label = IF route # Reject THEN Echoed(Sent(d)).label ELSE None
             /\ r.model = IF route # Reject /\ route # None THEN w.models[route] ELSE None
  BY DEF Answered, NoHeaders

LEMMA ErrorFields ==
  /\ TransportError.i = index /\ TransportError.status = None
  /\ TransportError.decided = None /\ TransportError.key = Key
  /\ TransportError.hit = FALSE /\ TransportError.model = None
  BY DEF TransportError

Sending == phase \in {"warmup", "measured"} /\ MorePlanned

\* The filter sees a request, or there is none.
Decided(d) ==
  IF arm.listener.filter
  THEN /\ d \in DecisionRecord /\ d # None
       /\ d.status # "OK" => d.route \in {arm.listener.cfg.default_cluster, Reject}
       /\ d.status = "OK" => /\ d.label \in Labels /\ arm.listener.cfg.routes[d.label] # None
                             /\ Says.ranked # << >> /\ d.label = top_signal(Says.ranked).label
  ELSE d = None

Timed(d, lat) == lat \in Nat /\ (d # None /\ d.status = "OK" /\ ~Hit => lat \in w.forward)

LEMMA RequestMakes ==
  ASSUME Shape, Request
  PROVE  /\ Sending
         /\ \E d, lat : Decided(d) /\ Timed(d, lat) /\ Keep(Answered(d, lat)) /\ gateway' = Counted(d)
<1>1. PICK u \in BOOLEAN :
        \E o \in IF arm.listener.filter THEN Outcomes(u) ELSE {None} : \E lat \in Latencies(o) :
          LET d == IF o = None THEN None ELSE decide(arm.listener.cfg, o)
          IN  Keep(Answered(d, lat)) /\ gateway' = Counted(d)
  BY DEF Request
<1>2. PICK o \in IF arm.listener.filter THEN Outcomes(u) ELSE {None} : \E lat \in Latencies(o) :
        LET d == IF o = None THEN None ELSE decide(arm.listener.cfg, o)
        IN  Keep(Answered(d, lat)) /\ gateway' = Counted(d)
  BY <1>1
<1> DEFINE d == IF o = None THEN None ELSE decide(arm.listener.cfg, o)
<1>3. PICK lat \in Latencies(o) : Keep(Answered(d, lat)) /\ gateway' = Counted(d)
  BY <1>2
<1>4. Driving /\ Sending
  BY DEF Request, Driving, Sending
<1>5. CASE arm.listener.filter
  <2>1. /\ o # None /\ d \in DecisionRecord /\ o \in Outcome
        /\ o \in {Timeout, GrpcStatus("Other"), GrpcStatus("ResourceExhausted")} \cup Response
    BY <1>2, <1>4, <1>5, OutcomeType
  <2>2. /\ d.status # "OK" => d.route \in {arm.listener.cfg.default_cluster, Reject}
        /\ d.status = "OK" => o \in Response /\ o = Says
    BY <1>2, <1>4, <1>5, <2>1, ArmType, FallbackRoute, OutcomeType
  <2>4. d.status = "OK" => /\ d.label \in Labels /\ arm.listener.cfg.routes[d.label] # None
                           /\ Says.ranked # << >> /\ d.label = top_signal(Says.ranked).label
    BY <1>4, <2>1, <2>2, ArmType, OKByBestSignal
  <2>3. Timed(d, lat)
    BY <1>3, <2>1, <2>2, LatencyType DEF Timed
  <2> HIDE DEF d
  <2> QED
    BY <1>3, <1>4, <1>5, <2>1, <2>2, <2>3, <2>4, InvocationsAssumption DEF Decided
<1>6. CASE ~arm.listener.filter
  <2>1. o = None /\ d = None
    BY <1>2, <1>6
  <2>2. Timed(d, lat)
    BY <1>3, <2>1, LatencyType DEF Timed
  <2> HIDE DEF d
  <2> QED
    BY <1>3, <1>4, <1>6, <2>1, <2>2 DEF Decided
<1> QED
  BY <1>5, <1>6

LEMMA FailureMakes ==
  ASSUME Shape, RequestFails
  PROVE  /\ Sending /\ Keep(TransportError)
         /\ \/ gateway' = gateway
            \/ \E d \in DecisionRecord : arm.listener.filter /\ d # None /\ gateway' = Counted(d)
<1>1. Driving /\ Sending /\ Keep(TransportError)
  BY DEF RequestFails, Driving, Sending
<1>2. ASSUME NEW o \in Outcomes(FALSE), arm.listener.filter, gateway' = Counted(decide(arm.listener.cfg, o))
      PROVE  \E d \in DecisionRecord : arm.listener.filter /\ d # None /\ gateway' = Counted(d)
  <2>1. decide(arm.listener.cfg, o) \in DecisionRecord
    BY <1>1, <1>2, OutcomeType, Zenon
  <2> QED
    BY <1>2, <2>1, InvocationsAssumption
<1> QED
  BY <1>1, <1>2 DEF RequestFails

LEMMA CountedType ==
  ASSUME gateway \in [OK : Nat, other : Nat], NEW d
  PROVE  /\ Counted(d) \in [OK : Nat, other : Nat]
         /\ d = None => Counted(d) = gateway
         /\ d # None /\ d.status = "OK" => Counted(d).OK = gateway.OK + 1 /\ Counted(d).other = gateway.other
         /\ d # None /\ d.status # "OK" => Counted(d).OK = gateway.OK /\ Counted(d).other = gateway.other + 1
  BY DEF Counted

\* A record more, in the phase it belongs to.
LEMMA KeepAdds ==
  ASSUME Shape, Sending, NEW r, r.i = index, Keep(r)
  PROVE  /\ Indexed(warm') /\ Indexed(recs')
         /\ phase = "warmup" =>
              /\ warm' = warm \cup {r} /\ r \notin warm /\ recs' = recs
              /\ Cardinality(warm') = Cardinality(warm) + 1
         /\ phase = "measured" =>
              /\ recs' = recs \cup {r} /\ r \notin recs /\ warm' = warm
              /\ Cardinality(recs') = Cardinality(recs) + 1
<1>1. CASE phase = "warmup"
  <2>1. warm' = warm \cup {r} /\ recs' = recs /\ r.i = Cardinality(warm)
    BY <1>1 DEF Keep, index
  <2> QED
    BY <1>1, <2>1, IndexedAdds DEF Shape
<1>2. CASE phase = "measured"
  <2>1. recs' = recs \cup {r} /\ warm' = warm /\ r.i = Cardinality(recs)
    BY <1>2 DEF Keep, index
  <2> QED
    BY <1>2, <2>1, IndexedAdds DEF Shape
<1> QED
  BY <1>1, <1>2 DEF Sending

LEMMA ShapePreserved == Shape /\ [Next]_vars => Shape'
<1> SUFFICES ASSUME Shape, [Next]_vars PROVE Shape'
  OBVIOUS
<1> USE DEF request, environment
<1>1. CASE Build
  <2>1. CASE MayRun /\ arms(w) # << >>
    <3>1. 1 \in DOMAIN arms(w)
      BY <2>1, ArmsType DEF Shape
    <3> QED
      BY <1>1, <2>1, <3>1 DEF Build, Shape, Driving
  <2>2. CASE ~(MayRun /\ arms(w) # << >>)
    BY <1>1, <2>2 DEF Build, Shape, Driving
  <2> QED
    BY <2>1, <2>2
<1>2. CASE Setup
  BY <1>2, NoneIndexed DEF Setup, Shape, Driving
<1>3. CASE Request
  <2>1. PICK d, lat : Keep(Answered(d, lat)) /\ gateway' = Counted(d)
    BY <1>3, RequestMakes
  <2>2. Indexed(warm') /\ Indexed(recs')
    BY <1>3, <2>1, RequestMakes, AnsweredFields, KeepAdds
  <2>3. gateway' \in [OK : Nat, other : Nat]
    BY <2>1, CountedType DEF Shape
  <2> QED
    BY <1>3, <2>2, <2>3 DEF Request, Shape, Driving
<1>4. CASE RequestFails
  <2>1. Indexed(warm') /\ Indexed(recs')
    BY <1>4, FailureMakes, ErrorFields, KeepAdds
  <2>2. gateway' \in [OK : Nat, other : Nat]
    BY <1>4, FailureMakes, CountedType DEF Shape
  <2> QED
    BY <1>4, <2>1, <2>2 DEF RequestFails, Shape, Driving
<1>5. CASE StartMeasured
  BY <1>5 DEF StartMeasured, Shape, Driving
<1>6. CASE Judge
  <2>1. k \in 1 .. Len(plan) /\ Len(plan) \in Nat /\ DOMAIN plan = 1 .. Len(plan)
    BY <1>6, ArmsType DEF Judge, Shape, Driving
  <2>2. CASE k = Len(plan)
    BY <1>6, <2>2 DEF Judge, Shape, Driving
  <2>3. CASE k # Len(plan)
    <3>1. phase' = "setup" /\ k' = k + 1 /\ plan' = plan /\ w' = w
      BY <1>6, <2>3 DEF Judge
    <3>2. k' \in DOMAIN plan
      <4>1. \A n \in Nat : \A i \in 1 .. n : i # n => i + 1 \in 1 .. n
        OBVIOUS
      <4>2. k + 1 \in 1 .. Len(plan)
        BY <2>1, <2>3, <4>1, Zenon
      <4> QED
        BY <2>1, <3>1, <4>2, Zenon
    <3>3. /\ warm' = warm /\ recs' = recs /\ gateway' = gateway /\ strangers' = strangers
          /\ Driving /\ ~(phase' = "build")
      BY <1>6, <3>1 DEF Judge, Driving
    <3>4. plan' = arms(w') /\ k' \in DOMAIN plan'
      BY <3>1, <3>2, <3>3 DEF Shape
    <3> QED
      BY <3>1, <3>3, <3>4 DEF Shape
  <2> QED
    BY <2>2, <2>3
<1>7. CASE Report \/ LateRequest
  BY <1>7 DEF Report, LateRequest, Shape, Driving
<1>8. CASE Stranger
  <2>1. gateway' \in [OK : Nat, other : Nat]
    BY <1>8 DEF Stranger, Shape
  <2> QED
    BY <1>8, <2>1 DEF Stranger, Shape, Driving
<1>9. CASE GatewayRestarts
  BY <1>9 DEF GatewayRestarts, Shape, Driving
<1>10. CASE UNCHANGED vars
  BY <1>10 DEF vars, Shape, Driving
<1> QED
  BY <1>1, <1>2, <1>3, <1>4, <1>5, <1>6, <1>7, <1>8, <1>9, <1>10 DEF Next

\* The run drives one arm of the plan at a time, and numbers its requests.
THEOREM ShapeHolds == Spec => []Shape
<1>1. Init => Shape
  <2> SUFFICES ASSUME Init PROVE Shape
    OBVIOUS
  <2>1. gateway \in [OK : Nat, other : Nat]
    <3>1. CASE gateway = [OK |-> 0, other |-> 0]
      BY <3>1
    <3>2. CASE gateway = [OK |-> 2, other |-> 0]
      BY <3>2
    <3> QED
      BY <3>1, <3>2 DEF Init
  <2> QED
    BY <2>1, NoneIndexed DEF Init, Shape, Driving
<1> QED
  BY <1>1, ShapePreserved, PTL DEF Spec

-----------------------------------------------------------------------------
(* B-7 in the cluster: between its two samples the gateway's counter moves *)
(* by what the filter made of the arm's requests, and by strangers, unless *)
(* the gateway restarts; and a restart can only take successes away.       *)

Seen(S) == {r \in S : r.decided # None}
SeenOther(S) == {r \in S : r.decided \notin {None, "OK"}}
NotClassified(S) == {r \in S : r.status # None /\ r.decided # "OK"}

CounterMoved ==
  w.scenario = "b7c" /\ w.metrics_url /\ phase \in {"warmup", "measured"} =>
    /\ before \in [OK : Nat, other : Nat]
    /\ ~restarted =>
         /\ gateway.other >= before.other + Cardinality(SeenOther(recs))
         /\ gateway.OK + gateway.other >= before.OK + before.other + Cardinality(Seen(recs))
    /\ gateway.OK + Cardinality(NotClassified(recs))
         <= before.OK + Cardinality(warm) + Cardinality(recs) + strangers
    /\ ~arm.listener.filter => gateway.OK <= before.OK + strangers
    /\ arm.listener.filter => \A r \in recs : r.status # None => r.decided # None

LEMMA PartsType ==
  ASSUME Shape
  PROVE  /\ IsFiniteSet(Seen(recs)) /\ IsFiniteSet(SeenOther(recs))
         /\ IsFiniteSet(NotClassified(recs))
         /\ Cardinality(Seen(recs)) \in Nat /\ Cardinality(SeenOther(recs)) \in Nat
         /\ Cardinality(NotClassified(recs)) \in Nat
         /\ Cardinality(NotClassified(recs)) <= Cardinality(recs)
         /\ Cardinality(recs) \in Nat /\ Cardinality(warm) \in Nat
<1>1. IsFiniteSet(recs) /\ IsFiniteSet(warm)
  BY DEF Shape, Indexed
<1>2. IsFiniteSet(Seen(recs)) /\ IsFiniteSet(SeenOther(recs)) /\ IsFiniteSet(NotClassified(recs))
      /\ Cardinality(NotClassified(recs)) <= Cardinality(recs)
  BY <1>1, FS_Subset DEF Seen, SeenOther, NotClassified
<1> QED
  BY <1>1, <1>2, FS_CardinalityType

LEMMA OneMore ==
  ASSUME NEW A, IsFiniteSet(A), NEW x, x \notin A
  PROVE  Cardinality(A) \in Nat /\ Cardinality(A \cup {x}) = Cardinality(A) + 1
  BY FS_CardinalityType, FS_AddElement

\* What one record adds to each part.
LEMMA PartsAdd ==
  ASSUME Shape, NEW r, r \notin recs, recs' = recs \cup {r}
  PROVE  /\ Cardinality(Seen(recs')) = Cardinality(Seen(recs)) + IF r.decided # None THEN 1 ELSE 0
         /\ Cardinality(SeenOther(recs')) =
              Cardinality(SeenOther(recs)) + IF r.decided \notin {None, "OK"} THEN 1 ELSE 0
         /\ Cardinality(NotClassified(recs')) =
              Cardinality(NotClassified(recs))
                + IF r.status # None /\ r.decided # "OK" THEN 1 ELSE 0
<1>1. ASSUME NEW A, IsFiniteSet(A), r \notin A, NEW B, NEW c \in BOOLEAN,
             B = IF c THEN A \cup {r} ELSE A
      PROVE  Cardinality(B) = Cardinality(A) + IF c THEN 1 ELSE 0
  <2>1. CASE c
    BY <1>1, <2>1, OneMore
  <2>2. CASE ~c
    <3>1. B = A
      BY <1>1, <2>2
    <3>2. Cardinality(A) \in Nat
      BY <1>1, FS_CardinalityType
    <3>3. Cardinality(A) + 0 = Cardinality(A)
      BY <3>2
    <3>4. (IF c THEN 1 ELSE 0) = 0
      BY <2>2
    <3> QED
      BY <3>1, <3>3, <3>4
  <2> QED
    BY <2>1, <2>2
<1>2. r \notin Seen(recs) /\ r \notin SeenOther(recs) /\ r \notin NotClassified(recs)
  BY DEF Seen, SeenOther, NotClassified
<1>3. Seen(recs') = IF r.decided # None THEN Seen(recs) \cup {r} ELSE Seen(recs)
  BY DEF Seen
<1>4. SeenOther(recs') =
        IF r.decided \notin {None, "OK"} THEN SeenOther(recs) \cup {r} ELSE SeenOther(recs)
  BY DEF SeenOther
<1>5. NotClassified(recs') =
        IF r.status # None /\ r.decided # "OK" THEN NotClassified(recs) \cup {r}
        ELSE NotClassified(recs)
  BY DEF NotClassified
<1>6. Cardinality(Seen(recs')) = Cardinality(Seen(recs)) + IF r.decided # None THEN 1 ELSE 0
  BY <1>1, <1>2, <1>3, PartsType
<1>7. Cardinality(SeenOther(recs')) =
        Cardinality(SeenOther(recs)) + IF r.decided \notin {None, "OK"} THEN 1 ELSE 0
  BY <1>1, <1>2, <1>4, PartsType
<1>8. Cardinality(NotClassified(recs')) =
        Cardinality(NotClassified(recs)) + IF r.status # None /\ r.decided # "OK" THEN 1 ELSE 0
  BY <1>1, <1>2, <1>5, PartsType
<1> QED
  BY <1>6, <1>7, <1>8

\* What keeping the record of a request does to each part.
LEMMA PartsKept ==
  ASSUME Shape, Sending, NEW r, r.i = index, Keep(r)
  PROVE  /\ recs' \in {recs, recs \cup {r}}
         /\ Cardinality(warm') \in Nat /\ Cardinality(recs') \in Nat
         /\ Cardinality(warm') + Cardinality(recs') = Cardinality(warm) + Cardinality(recs) + 1
         /\ Cardinality(Seen(recs')) \in Nat
         /\ Cardinality(Seen(recs')) <= Cardinality(Seen(recs)) + 1
         /\ r.decided = None => Cardinality(Seen(recs')) = Cardinality(Seen(recs))
         /\ Cardinality(SeenOther(recs')) \in Nat
         /\ Cardinality(SeenOther(recs')) <= Cardinality(SeenOther(recs)) + 1
         /\ r.decided \in {None, "OK"} =>
              Cardinality(SeenOther(recs')) = Cardinality(SeenOther(recs))
         /\ Cardinality(NotClassified(recs')) \in Nat
         /\ Cardinality(NotClassified(recs')) <= Cardinality(NotClassified(recs)) + 1
         /\ r.status = None \/ r.decided = "OK" =>
              Cardinality(NotClassified(recs')) = Cardinality(NotClassified(recs))
<1>0. /\ Cardinality(Seen(recs)) \in Nat /\ Cardinality(SeenOther(recs)) \in Nat
      /\ Cardinality(NotClassified(recs)) \in Nat
      /\ Cardinality(recs) \in Nat /\ Cardinality(warm) \in Nat
  BY PartsType
<1>1. CASE phase = "warmup"
  <2>1. recs' = recs /\ Cardinality(warm') = Cardinality(warm) + 1
    BY <1>1, KeepAdds
  <2> QED
    BY <1>0, <2>1
<1>2. CASE phase = "measured"
  <2>1. /\ recs' = recs \cup {r} /\ r \notin recs /\ warm' = warm
        /\ Cardinality(recs') = Cardinality(recs) + 1
    BY <1>2, KeepAdds
  <2>2. /\ Cardinality(Seen(recs')) = Cardinality(Seen(recs)) + IF r.decided # None THEN 1 ELSE 0
        /\ Cardinality(SeenOther(recs')) =
             Cardinality(SeenOther(recs)) + IF r.decided \notin {None, "OK"} THEN 1 ELSE 0
        /\ Cardinality(NotClassified(recs')) =
             Cardinality(NotClassified(recs))
               + IF r.status # None /\ r.decided # "OK" THEN 1 ELSE 0
    BY <2>1, PartsAdd
  <2> QED
    BY <1>0, <2>1, <2>2
<1> QED
  BY <1>1, <1>2 DEF Sending

LEMMA RequestMoves ==
  ASSUME Shape, CounterMoved, Request PROVE CounterMoved'
<1> SUFFICES ASSUME w.scenario = "b7c", w.metrics_url PROVE CounterMoved'
  BY DEF CounterMoved, Request
<1>1. PICK d, lat : Decided(d) /\ Keep(Answered(d, lat)) /\ gateway' = Counted(d)
  BY RequestMakes
<1> DEFINE r == Answered(d, lat)
<1>2. Sending /\ phase \in {"warmup", "measured"}
  BY RequestMakes DEF Sending
<1>3. /\ r.i = index /\ r.status # None
      /\ r.decided = IF d = None THEN None ELSE d.status
  BY AnsweredFields, InvocationsAssumption
<1>4. d # None => d.status # None
  BY <1>1, InvocationsAssumption DEF Decided, DecisionRecord
<1>5. /\ before' = before /\ restarted' = restarted /\ strangers' = strangers /\ arm' = arm
      /\ w' = w /\ phase' = phase
  BY DEF Request, arm
<1>6. /\ gateway \in [OK : Nat, other : Nat] /\ strangers \in Nat
      /\ before \in [OK : Nat, other : Nat]
  BY <1>2 DEF Shape, CounterMoved
<1> HIDE DEF r
<1>7. Keep(r)
  BY <1>1 DEF r
<1>8. arm.listener.filter => \A x \in recs' : x.status # None => x.decided # None
  BY <1>1, <1>2, <1>3, <1>4, <1>7, PartsKept DEF Decided, CounterMoved
<1>9. CASE d = None
  <2>1. r.decided = None /\ gateway' = gateway
    BY <1>1, <1>3, <1>6, <1>9, CountedType
  <2> QED
    BY <1>2, <1>3, <1>5, <1>6, <1>7, <1>8, <2>1, PartsKept, PartsType DEF CounterMoved
<1>10. CASE d # None /\ d.status = "OK"
  <2>1. /\ r.decided = "OK" /\ arm.listener.filter
        /\ gateway' \in [OK : Nat, other : Nat]
        /\ gateway'.OK = gateway.OK + 1 /\ gateway'.other = gateway.other
    BY <1>1, <1>3, <1>6, <1>10, CountedType DEF Decided
  <2> QED
    BY <1>2, <1>3, <1>5, <1>6, <1>7, <1>8, <2>1, PartsKept, PartsType DEF CounterMoved
<1>11. CASE d # None /\ d.status # "OK"
  <2>1. /\ arm.listener.filter /\ gateway' \in [OK : Nat, other : Nat]
        /\ gateway'.OK = gateway.OK /\ gateway'.other = gateway.other + 1
    BY <1>1, <1>6, <1>11, CountedType DEF Decided
  <2> QED
    BY <1>2, <1>3, <1>5, <1>6, <1>7, <1>8, <2>1, PartsKept, PartsType DEF CounterMoved
<1> QED
  BY <1>9, <1>10, <1>11

LEMMA FailureMoves ==
  ASSUME Shape, CounterMoved, RequestFails PROVE CounterMoved'
<1> SUFFICES ASSUME w.scenario = "b7c", w.metrics_url PROVE CounterMoved'
  BY DEF CounterMoved, RequestFails
<1> DEFINE r == TransportError
<1>1. Sending /\ Keep(r) /\ phase \in {"warmup", "measured"}
  BY FailureMakes DEF Sending
<1>2. r.i = index /\ r.status = None /\ r.decided = None
  BY ErrorFields
<1>3. /\ before' = before /\ restarted' = restarted /\ strangers' = strangers /\ arm' = arm
      /\ w' = w /\ phase' = phase
  BY DEF RequestFails, arm
<1>4. /\ gateway \in [OK : Nat, other : Nat] /\ strangers \in Nat
      /\ before \in [OK : Nat, other : Nat]
  BY <1>1 DEF Shape, CounterMoved
<1>5. /\ gateway' \in [OK : Nat, other : Nat]
      /\ gateway'.OK \in {gateway.OK, gateway.OK + 1} /\ gateway'.other >= gateway.other
      /\ gateway'.OK >= gateway.OK
      /\ ~arm.listener.filter => gateway' = gateway
  <2>1. CASE gateway' = gateway
    BY <1>4, <2>1
  <2>2. ASSUME NEW d, d # None, gateway' = Counted(d), arm.listener.filter
        PROVE  /\ gateway' \in [OK : Nat, other : Nat]
               /\ gateway'.OK \in {gateway.OK, gateway.OK + 1} /\ gateway'.other >= gateway.other
               /\ gateway'.OK >= gateway.OK
    BY <1>4, <2>2, CountedType
  <2> QED
    BY <2>1, <2>2, FailureMakes
<1> HIDE DEF r
<1>6. arm.listener.filter => \A x \in recs' : x.status # None => x.decided # None
  BY <1>1, <1>2, PartsKept DEF CounterMoved
<1> QED
  BY <1>1, <1>2, <1>3, <1>4, <1>5, <1>6, PartsKept, PartsType DEF CounterMoved

LEMMA CounterMovedPreserved == Shape /\ CounterMoved /\ [Next]_vars => CounterMoved'
<1> SUFFICES ASSUME Shape, CounterMoved, [Next]_vars PROVE CounterMoved'
  OBVIOUS
<1> USE DEF request, environment
<1>0. /\ Cardinality(Seen(recs)) \in Nat /\ Cardinality(SeenOther(recs)) \in Nat
      /\ Cardinality(NotClassified(recs)) \in Nat
      /\ Cardinality(recs) \in Nat /\ Cardinality(warm) \in Nat
      /\ Cardinality(NotClassified(recs)) <= Cardinality(recs)
      /\ gateway \in [OK : Nat, other : Nat] /\ strangers \in Nat
  BY PartsType DEF Shape
<1>1. CASE Build \/ Judge \/ Report
  BY <1>1 DEF Build, Judge, Report, CounterMoved
<1>2. CASE Setup
  <2>1. Seen({}) = {} /\ SeenOther({}) = {} /\ NotClassified({}) = {}
    BY DEF Seen, SeenOther, NotClassified
  <2>2. Cardinality({}) = 0
    BY FS_EmptySet
  <2>3. /\ w' = w /\ warm' = {} /\ recs' = {} /\ gateway' = gateway /\ strangers' = strangers
        /\ w.scenario = "b7c" /\ w.metrics_url => before' = gateway
    BY <1>2 DEF Setup, TakeSample
  <2> QED
    BY <1>0, <2>1, <2>2, <2>3 DEF CounterMoved
<1>3. CASE Request
  BY <1>3, RequestMoves
<1>4. CASE RequestFails
  BY <1>4, FailureMoves
<1>5. CASE StartMeasured \/ LateRequest \/ UNCHANGED vars
  <2>1. /\ w' = w /\ warm' = warm /\ recs' = recs /\ gateway' = gateway /\ strangers' = strangers
        /\ before' = before /\ restarted' = restarted /\ arm' = arm
        /\ phase' \in {"warmup", "measured"} => phase \in {"warmup", "measured"}
    BY <1>5 DEF StartMeasured, LateRequest, vars, arm
  <2> QED
    BY <2>1 DEF CounterMoved
<1>6. CASE Stranger
  <2>1. /\ w' = w /\ warm' = warm /\ recs' = recs /\ strangers' = strangers + 1
        /\ before' = before /\ restarted' = restarted /\ arm' = arm /\ phase' = phase
    BY <1>6 DEF Stranger, arm
  <2>2. /\ gateway'.OK \in {gateway.OK, gateway.OK + 1}
        /\ gateway'.other \in {gateway.other, gateway.other + 1}
        /\ gateway'.OK + gateway'.other = gateway.OK + gateway.other + 1
    BY <1>0, <1>6 DEF Stranger
  <2> QED
    BY <1>0, <2>1, <2>2 DEF CounterMoved
<1>7. CASE GatewayRestarts
  <2>1. /\ w' = w /\ warm' = warm /\ recs' = recs /\ strangers' = strangers
        /\ before' = before /\ restarted' /\ arm' = arm /\ phase' = phase
        /\ gateway' = [OK |-> 0, other |-> 0]
    BY <1>7 DEF GatewayRestarts, arm
  <2> QED
    BY <1>0, <2>1 DEF CounterMoved
<1> QED
  BY <1>1, <1>2, <1>3, <1>4, <1>5, <1>6, <1>7 DEF Next

-----------------------------------------------------------------------------
(* The self-test: whatever the stub counts was sent by some arm of this    *)
(* run, with that arm's name on it, and what was answered was counted.     *)

Limit(ph) == IF ph = "warmup" THEN w.warmup ELSE w.measured

BodyOf(a, ph, i) ==
  IF a.mode = "hit" THEN <<"measure", a.name, 0>>
  ELSE IF ph = "warmup" THEN <<"warm", i>> ELSE <<"measure", a.name, i>>

SentBy(e) ==
  \E j \in DOMAIN plan, ph \in {"warmup", "measured"} : \E i \in 0 .. Limit(ph) - 1 :
    e = [id |-> <<plan[j].name, ph, i>>, body |-> BodyOf(plan[j], ph, i)]

AnswersCounted ==
  \A r \in recs : r.status # None => \E e \in stats : e.id = <<arm.name, "measured", r.i>>

StubCounts ==
  w.scenario = "selftest" =>
    /\ IsFiniteSet(stats)
    /\ \A e \in stats \cup late : SentBy(e)
    /\ phase \in {"warmup", "measured"} => AnswersCounted

\* The request that is sent next.
LEMMA EntrySent ==
  ASSUME Shape, Sending, w.scenario = "selftest"
  PROVE  SentBy(Entry)
<1>1. Ordered(w) = << >>
  BY DEF Ordered
<1>2. arm.warmup = w.warmup /\ arm.measured = w.measured /\ k \in DOMAIN plan
  BY <1>1, ArmType DEF Sending, Shape, Driving
<1>3. w.warmup \in Nat /\ w.measured \in Nat
  BY InvocationsAssumption DEF Shape
<1>4. index \in Nat
  <2>1. Cardinality(warm) \in Nat /\ Cardinality(recs) \in Nat
    BY FS_CardinalityType DEF Shape, Indexed
  <2> QED
    BY <2>1 DEF index
<1>5. index \in 0 .. Limit(phase) - 1
  BY <1>2, <1>3, <1>4 DEF Sending, MorePlanned, Limit
<1>6. Key = BodyOf(arm, phase, index)
  <2>1. CASE arm.mode = "hit"
    BY <1>1, <2>1 DEF Key, BodyOf
  <2>2. CASE arm.mode # "hit"
    BY <1>1, <2>2 DEF Key, BodyOf, Sending
  <2> QED
    BY <2>1, <2>2
<1>7. Entry = [id |-> <<plan[k].name, phase, index>>, body |-> BodyOf(plan[k], phase, index)]
  BY <1>6 DEF Entry, arm
<1> QED
  BY <1>2, <1>5, <1>7 DEF SentBy, Sending

\* Who sent an entry does not change while the plan does not.
LEMMA SentStays ==
  ASSUME StubCounts, w.scenario = "selftest", w' = w, plan' = plan,
         stats' \cup late' \subseteq stats \cup late \cup {Entry},
         stats' # stats \/ late' # late => SentBy(Entry) \/ stats' \cup late' \subseteq stats \cup late
  PROVE  \A e \in stats' \cup late' : SentBy(e)'
<1>1. \A e : SentBy(e) => SentBy(e)'
  BY DEF SentBy, Limit
<1>2. \A e \in stats \cup late : SentBy(e)
  BY DEF StubCounts
<1> QED
  BY <1>1, <1>2

LEMMA StubCountsPreserved == Shape /\ StubCounts /\ [Next]_vars => StubCounts'
<1> SUFFICES ASSUME Shape, StubCounts, [Next]_vars, w.scenario = "selftest"
             PROVE  StubCounts'
  BY DEF StubCounts, Next, vars, Build, Setup, Request, RequestFails, StartMeasured, Judge, Report,
         LateRequest, Stranger, GatewayRestarts
<1> USE DEF request, environment
<1>0. IsFiniteSet(stats) /\ IsFiniteSet(stats \cup {Entry})
  BY FS_AddElement DEF StubCounts
<1>1. CASE Build
  <2>1. w' = w /\ stats' = stats /\ late' = late /\ ~(phase' \in {"warmup", "measured"})
    BY <1>1 DEF Build
  <2>2. plan' \in {plan, arms(w)}
    BY <1>1 DEF Build
  <2>3. CASE plan' = plan
    BY <1>0, <2>1, <2>3, SentStays DEF StubCounts
  <2>4. CASE plan = << >>
    <3>1. stats \cup late = {}
      <4>1. DOMAIN plan = {}
        BY <2>4
      <4> QED
        BY <4>1 DEF StubCounts, SentBy
    <3> QED
      BY <1>0, <2>1, <3>1 DEF StubCounts
  <2> QED
    BY <2>2, <2>3, <2>4 DEF Shape
<1>2. CASE Setup
  <2>1. w' = w /\ plan' = plan /\ stats' = {} /\ late' = late /\ recs' = {}
    BY <1>2 DEF Setup, Reset
  <2>2. \A e \in stats' \cup late' : SentBy(e)'
    BY <2>1, SentStays
  <2>3. IsFiniteSet({})
    BY FS_EmptySet
  <2> QED
    BY <2>1, <2>2, <2>3 DEF StubCounts, AnswersCounted
<1>3. CASE Request
  <2>1. /\ w' = w /\ plan' = plan /\ phase' = phase /\ arm' = arm /\ late' = late
        /\ stats' = stats \cup {Entry}
    BY <1>3 DEF Request, record, arm
  <2>2. Sending
    BY <1>3, RequestMakes
  <2>3. \A e \in stats' \cup late' : SentBy(e)'
    BY <2>1, <2>2, EntrySent, SentStays
  <2>4. PICK r : r.i = index /\ Keep(r)
    BY <1>3, RequestMakes, AnsweredFields
  <2>5. AnswersCounted'
    <3>1. ASSUME NEW x \in recs', x.status # None
          PROVE  \E e \in stats' : e.id = <<arm.name, "measured", x.i>>
      <4>1. CASE x \in recs
        BY <2>1, <2>2, <3>1, <4>1 DEF StubCounts, AnswersCounted, Sending
      <4>2. CASE x \notin recs
        <5>1. phase = "measured" /\ x = r
          BY <2>2, <2>4, <3>1, <4>2 DEF Keep, Sending
        <5>2. Entry.id = <<arm.name, "measured", x.i>>
          BY <2>4, <5>1 DEF Entry
        <5>3. Entry \in stats'
          BY <2>1
        <5> QED
          BY <5>2, <5>3, Zenon
      <4> QED
        BY <4>1, <4>2
    <3> QED
      BY <2>1, <3>1 DEF AnswersCounted
  <2> QED
    BY <1>0, <2>1, <2>3, <2>5 DEF StubCounts
<1>4. CASE RequestFails
  <2>1. /\ w' = w /\ plan' = plan /\ phase' = phase /\ arm' = arm
        /\ stats' \in {stats, stats \cup {Entry}} /\ late' \in {late, late \cup {Entry}}
    BY <1>4 DEF RequestFails, record, arm
  <2>2. Sending
    BY <1>4, FailureMakes
  <2>3. \A e \in stats' \cup late' : SentBy(e)'
    BY <2>1, <2>2, EntrySent, SentStays
  <2>4. recs' \subseteq recs \cup {TransportError}
    BY <1>4, FailureMakes DEF Keep
  <2>5. AnswersCounted'
    BY <2>1, <2>2, <2>4, ErrorFields DEF StubCounts, AnswersCounted, Sending
  <2> QED
    BY <1>0, <2>1, <2>3, <2>5 DEF StubCounts
<1>5. CASE LateRequest
  <2>1. /\ w' = w /\ plan' = plan /\ phase' = phase /\ arm' = arm /\ recs' = recs
        /\ \E e \in late : stats' = stats \cup {e} /\ late' = late \ {e}
    BY <1>5 DEF LateRequest, record, arm
  <2>2. \A e \in stats' \cup late' : SentBy(e)'
    BY <2>1, SentStays
  <2>3. IsFiniteSet(stats')
    BY <1>0, <2>1, FS_AddElement
  <2> QED
    BY <2>1, <2>2, <2>3 DEF StubCounts, AnswersCounted
<1>6. CASE StartMeasured \/ Judge \/ Report \/ Stranger \/ GatewayRestarts \/ UNCHANGED vars
  <2>1. /\ w' = w /\ plan' = plan /\ stats' = stats /\ late' = late /\ recs' = recs
        /\ phase' \in {"warmup", "measured"} => arm' = arm /\ phase \in {"warmup", "measured"}
    BY <1>6 DEF StartMeasured, Judge, Report, Stranger, GatewayRestarts, vars, arm
  <2>2. \A e \in stats' \cup late' : SentBy(e)'
    BY <2>1, SentStays
  <2> QED
    BY <1>0, <2>1, <2>2 DEF StubCounts, AnswersCounted
<1> QED
  BY <1>1, <1>2, <1>3, <1>4, <1>5, <1>6 DEF Next

-----------------------------------------------------------------------------
(* The records of an arm: what the filter made of each request, and what   *)
(* of it can be seen from outside.                                         *)

Shows(a) == w.echo /\ a.listener.filter /\ a.listener.cfg.emit_headers

Made(r, a) ==
  /\ r.lat \in Nat /\ r.status \in {None, 200, 503}
  /\ r.status # None =>
       /\ r.status = 503 <=> r.route = Reject
       /\ a.listener.filter =>
            /\ r.decided \in StatusValues
            /\ r.decided # "OK" => r.route \in {a.listener.cfg.default_cluster, Reject}
       /\ ~a.listener.filter => r.decided = None
       /\ w.scenario # "selftest" => r.sc = IF r.status = 200 /\ Shows(a) THEN r.decided ELSE None
       /\ r.decided = "OK" /\ ~r.hit => r.lat \in w.forward
       /\ r.status = 200 => r.route \in Clusters /\ r.model = w.models[r.route]
       /\ w.scenario # "selftest" /\ r.sc = "OK" =>
            /\ r.label \in Labels /\ a.listener.cfg.routes[r.label] # None
            /\ r.key \in DOMAIN w.says =>
                 /\ w.says[r.key].ranked # << >>
                 /\ r.label = top_signal(w.says[r.key].ranked).label

Overhead == w.scenario \in {"b1", "b2", "b3", "b7"}

RecordsMade ==
  phase \in {"warmup", "measured"} =>
    /\ \A r \in recs : Made(r, arm)
    /\ Overhead /\ arm.mode = "miss" =>
         /\ \A r \in warm : r.key = <<"warm", r.i>>
         /\ \A r \in recs : r.key = <<"measure", arm.name, r.i>> /\ ~r.hit
    /\ w.scenario = "b4" /\ w.prompts # << >> => \A r \in recs : r.key \in heldout_ids(w)

LEMMA AnsweredMade ==
  ASSUME Shape, Sending, NEW d, NEW lat, Decided(d), Timed(d, lat)
  PROVE  Made(Answered(d, lat), arm)
<1> DEFINE r == Answered(d, lat)
           route == IF d = None THEN arm.listener.to ELSE d.route
<1>1. /\ r.lat = lat /\ r.hit = Hit /\ r.route = route
      /\ r.decided = IF d = None THEN None ELSE d.status
      /\ r.status = IF route # Reject THEN 200 ELSE 503
      /\ r.sc = IF route # Reject THEN Echoed(Sent(d)).sc ELSE None
      /\ r.label = IF route # Reject THEN Echoed(Sent(d)).label ELSE None
      /\ r.model = IF route # Reject /\ route # None THEN w.models[route] ELSE None
      /\ r.key = Key
  BY AnsweredFields
<1> HIDE DEF r, route
<1>2. r.lat \in Nat /\ r.status \in {200, 503} /\ None \notin {200, 503}
  BY <1>1, InvocationsAssumption DEF Timed
<1>3. r.status = 503 <=> r.route = Reject
  BY <1>1
<1>4. arm.listener.filter =>
        /\ r.decided \in StatusValues
        /\ r.decided # "OK" => r.route \in {arm.listener.cfg.default_cluster, Reject}
  BY <1>1 DEF Decided, DecisionRecord, route
<1>5. ~arm.listener.filter => r.decided = None
  BY <1>1 DEF Decided
<1>6. w.scenario # "selftest" => r.sc = IF r.status = 200 /\ Shows(arm) THEN r.decided ELSE None
  <2> SUFFICES ASSUME w.scenario # "selftest"
               PROVE  r.sc = IF r.status = 200 /\ Shows(arm) THEN r.decided ELSE None
    OBVIOUS
  <2>1. Echoed(Sent(d)).sc = IF Shows(arm) THEN r.decided ELSE None
    <3>1. CASE d = None
      <4>1. ~arm.listener.filter /\ Sent(d) = NoHeaders
        BY <3>1 DEF Decided, Sent
      <4> QED
        BY <4>1 DEF Shows, Echoed, NoHeaders
    <3>2. CASE d # None
      <4>1. arm.listener.filter /\ r.decided = d.status
        BY <1>1, <3>2 DEF Decided
      <4>2. Sent(d) = IF arm.listener.cfg.emit_headers THEN [sc |-> d.status, label |-> d.label]
                      ELSE NoHeaders
        BY <3>2 DEF Sent
      <4> QED
        BY <4>1, <4>2 DEF Shows, Echoed, NoHeaders
    <3> QED
      BY <3>1, <3>2
  <2> QED
    BY <1>1, <2>1
<1>7. r.decided = "OK" /\ ~r.hit => r.lat \in w.forward
  <2>1. None # "OK"
    BY InvocationsAssumption DEF StatusValues
  <2> QED
    BY <1>1, <2>1 DEF Timed
<1>8. r.status = 200 => r.route \in Clusters /\ r.model = w.models[r.route]
  <2> SUFFICES ASSUME r.status = 200 PROVE r.route \in Clusters /\ r.model = w.models[r.route]
    OBVIOUS
  <2>1. route # Reject /\ r.route = route
    BY <1>1
  <2>2. route \in Clusters
    <3>1. CASE d = None
      BY <2>1, <3>1, ArmType DEF Decided, Sending, Driving, route
    <3>2. CASE d # None
      BY <2>1, <3>2 DEF Decided, DecisionRecord, route
    <3> QED
      BY <3>1, <3>2
  <2> QED
    BY <1>1, <2>1, <2>2, NoneAssumption
<1>9. ASSUME w.scenario # "selftest", r.sc = "OK"
      PROVE  /\ r.label \in Labels /\ arm.listener.cfg.routes[r.label] # None
             /\ r.key \in DOMAIN w.says =>
                  /\ w.says[r.key].ranked # << >>
                  /\ r.label = top_signal(w.says[r.key].ranked).label
  <2>1. None # "OK"
    BY InvocationsAssumption DEF StatusValues
  <2>2. d # None /\ d.status = "OK" /\ r.label = d.label
    BY <1>1, <1>9, <2>1 DEF Sent, Echoed, NoHeaders
  <2>3. /\ d.label \in Labels /\ arm.listener.cfg.routes[d.label] # None
        /\ Says.ranked # << >> /\ d.label = top_signal(Says.ranked).label
    BY <2>2 DEF Decided
  <2>4. r.key \in DOMAIN w.says => Says = w.says[r.key]
    BY <1>1 DEF Says
  <2> QED
    BY <2>2, <2>3, <2>4
<1> QED
  BY <1>2, <1>3, <1>4, <1>5, <1>6, <1>7, <1>8, <1>9 DEF Made, r

LEMMA ErrorMade ==
  ASSUME Shape
  PROVE  Made(TransportError, arm)
<1>1. w.timeout_ms \in Nat
  BY InvocationsAssumption DEF Shape
<1> QED
  BY <1>1 DEF TransportError, Made

\* A miss arm asks for what nobody has asked for before.
LEMMA MissKeys ==
  ASSUME Shape, RecordsMade, Sending, Overhead, arm.mode = "miss"
  PROVE  /\ phase = "warmup" => Key = <<"warm", index>>
         /\ phase = "measured" => Key = <<"measure", arm.name, index>> /\ ~Hit
<1>1. Ordered(w) = << >> /\ w.scenario # "b5"
  BY DEF Ordered, Overhead
<1>2. phase = "warmup" => Key = <<"warm", index>>
  BY <1>1 DEF Key
<1>3. phase = "measured" => Key = <<"measure", arm.name, index>>
  BY <1>1 DEF Key
<1>4. ASSUME phase = "measured", NEW r \in warm \cup recs, r.key = Key PROVE FALSE
  <2>1. CASE r \in warm
    <3>1. Key = <<"warm", r.i>>
      BY <1>4, <2>1 DEF RecordsMade
    <3>2. Key[1] = "warm" /\ Key[1] = "measure"
      BY <1>3, <1>4, <3>1
    <3> QED
      BY <3>2
  <2>2. CASE r \in recs
    <3>1. <<"measure", arm.name, r.i>> = <<"measure", arm.name, index>>
      BY <1>3, <1>4, <2>2 DEF RecordsMade
    <3>2. r.i = index /\ index = Cardinality(recs)
      BY <1>4, <3>1 DEF index
    <3>3. r.i \in 0 .. Cardinality(recs) - 1 /\ Cardinality(recs) \in Nat
      BY <2>2, FS_CardinalityType DEF Shape, Indexed
    <3> QED
      BY <3>2, <3>3
  <2> QED
    BY <2>1, <2>2
<1>5. phase = "measured" => ~Hit
  BY <1>4 DEF Hit
<1> QED
  BY <1>2, <1>3, <1>5

\* B-4 measures its prompts one after another.
LEMMA PromptKeys ==
  ASSUME Shape, phase = "measured", MorePlanned, w.scenario = "b4", w.prompts # << >>
  PROVE  Key \in heldout_ids(w)
<1>1. Ordered(w) = w.prompts
  BY DEF Ordered
<1>2. arm.measured = Len(w.prompts) /\ Len(w.prompts) \in Nat /\ DOMAIN w.prompts = 1 .. Len(w.prompts)
  BY <1>1, ArmType, InvocationsAssumption DEF Driving, Shape
<1>3. index \in Nat
  BY FS_CardinalityType DEF index, Shape, Indexed
<1>4. index < arm.measured
  BY DEF MorePlanned
<1>5. index + 1 \in DOMAIN w.prompts
  BY <1>2, <1>3, <1>4
<1>6. Key = w.prompts[index + 1].id
  <2>1. arm.mode = "n/a"
    BY ArmType DEF Driving, Offered
  <2> QED
    BY <1>1, <2>1 DEF Key
<1> QED
  BY <1>5, <1>6 DEF heldout_ids

\* Keeping a record that the arm made.
LEMMA KeepMade ==
  ASSUME Shape, RecordsMade, Sending, NEW r, Keep(r), r.i = index, r.key = Key, Made(r, arm),
         r.hit \in {Hit, FALSE},
         w' = w, arm' = arm, phase' = phase
  PROVE  RecordsMade'
<1>1. \A x : Made(x, arm) => Made(x, arm)'
  BY DEF Made, Shows
<1>2. \A x \in recs' : Made(x, arm)
  BY DEF Keep, RecordsMade, Sending
<1>3. ASSUME Overhead, arm.mode = "miss"
      PROVE  /\ \A x \in warm' : x.key = <<"warm", x.i>>
             /\ \A x \in recs' : x.key = <<"measure", arm.name, x.i>> /\ ~x.hit
  <2>1. CASE phase = "warmup"
    <3>1. warm' = warm \cup {r} /\ recs' = recs /\ r.key = <<"warm", r.i>>
      BY <1>3, <2>1, MissKeys DEF Keep
    <3> QED
      BY <1>3, <2>1, <3>1 DEF RecordsMade
  <2>2. CASE phase = "measured"
    <3>1. warm' = warm /\ recs' = recs \cup {r} /\ r.key = <<"measure", arm.name, r.i>> /\ ~r.hit
      BY <1>3, <2>2, MissKeys DEF Keep
    <3> QED
      BY <1>3, <2>2, <3>1 DEF RecordsMade
  <2> QED
    BY <2>1, <2>2 DEF Sending
<1>4. Overhead' = Overhead
  BY DEF Overhead
<1>5. w.scenario = "b4" /\ w.prompts # << >> => \A x \in recs' : x.key \in heldout_ids(w)
  <2> SUFFICES ASSUME w.scenario = "b4", w.prompts # << >>
               PROVE  \A x \in recs' : x.key \in heldout_ids(w)
    OBVIOUS
  <2>1. \A x \in recs : x.key \in heldout_ids(w)
    BY DEF RecordsMade, Sending
  <2>2. recs' = recs \/ (phase = "measured" /\ recs' = recs \cup {r})
    BY DEF Keep, Sending
  <2> QED
    BY <2>1, <2>2, PromptKeys DEF Sending
<1>6. heldout_ids(w)' = heldout_ids(w)
  BY DEF heldout_ids
<1> QED
  BY <1>1, <1>2, <1>3, <1>4, <1>5, <1>6 DEF RecordsMade

LEMMA RecordsMadePreserved == Shape /\ RecordsMade /\ [Next]_vars => RecordsMade'
<1> SUFFICES ASSUME Shape, RecordsMade, [Next]_vars PROVE RecordsMade'
  OBVIOUS
<1> USE DEF request, environment
<1>1. CASE Build \/ Judge \/ Report
  BY <1>1 DEF Build, Judge, Report, RecordsMade
<1>2. CASE Setup
  BY <1>2 DEF Setup, RecordsMade
<1>3. CASE Request
  <2>1. w' = w /\ arm' = arm /\ phase' = phase
    BY <1>3 DEF Request, arm
  <2>2. PICK d, lat : Decided(d) /\ Timed(d, lat) /\ Keep(Answered(d, lat))
    BY <1>3, RequestMakes
  <2>3. Sending
    BY <1>3, RequestMakes
  <2>4. Made(Answered(d, lat), arm)
    BY <2>2, <2>3, AnsweredMade
  <2>5. /\ Answered(d, lat).i = index /\ Answered(d, lat).key = Key
        /\ Answered(d, lat).hit = Hit
    BY AnsweredFields
  <2>6. Hit \in BOOLEAN
    BY DEF Hit
  <2> QED
    BY <2>1, <2>2, <2>3, <2>4, <2>5, <2>6, KeepMade
<1>4. CASE RequestFails
  <2>1. w' = w /\ arm' = arm /\ phase' = phase
    BY <1>4 DEF RequestFails, arm
  <2>2. Sending /\ Keep(TransportError)
    BY <1>4, FailureMakes
  <2> QED
    BY <2>1, <2>2, ErrorMade, ErrorFields, KeepMade
<1>5. CASE StartMeasured \/ LateRequest \/ Stranger \/ GatewayRestarts \/ UNCHANGED vars
  <2>1. /\ w' = w /\ warm' = warm /\ recs' = recs /\ arm' = arm
        /\ phase' \in {"warmup", "measured"} => phase \in {"warmup", "measured"}
    BY <1>5 DEF StartMeasured, LateRequest, Stranger, GatewayRestarts, vars, arm
  <2> QED
    BY <2>1 DEF RecordsMade, Overhead, Made, Shows
<1> QED
  BY <1>1, <1>2, <1>3, <1>4, <1>5 DEF Next

-----------------------------------------------------------------------------
(* What an arm that passes has shown.                                      *)

\* The window of b7c: the two samples and the arm's own count leave no room.
LEMMA PassedHop ==
  ASSUME Shape, CounterMoved, phase = "measured", w.scenario = "b7c", Passed,
         NEW result, result.arm = arm, result.records = recs,
         result.strangers = strangers, result.restarted = restarted
  PROVE  HopWasClassified(result)
<1>1. /\ harness_assertions(arm, recs, warm)
      /\ b7c_assertions(w, arm, recs, before, gateway)
  BY DEF Passed
<1>2. /\ Cardinality(recs) = arm.measured /\ ok_records(arm, recs) = recs
      /\ Cardinality(warm) = arm.warmup
  BY <1>1 DEF harness_assertions
<1>3. /\ before \in [OK : Nat, other : Nat] /\ gateway \in [OK : Nat, other : Nat]
      /\ strangers \in Nat /\ w.metrics_url
  BY <1>1 DEF b7c_assertions, CounterMoved, Shape
<1>4. \A r \in recs : r.status # None
  BY <1>2, ArmType DEF ok_records, Driving
<1>5. /\ Cardinality(Seen(recs)) \in Nat /\ Cardinality(SeenOther(recs)) \in Nat
      /\ Cardinality(NotClassified(recs)) \in Nat
      /\ Cardinality(recs) \in Nat /\ Cardinality(warm) \in Nat
      /\ IsFiniteSet(Seen(recs)) /\ IsFiniteSet(SeenOther(recs))
      /\ IsFiniteSet(NotClassified(recs))
  BY PartsType
<1>6. CASE arm.case = "classified"
  <2>1. /\ gateway.OK - before.OK = Cardinality(warm) + Cardinality(recs)
        /\ gateway.other - before.other = 0
    BY <1>1, <1>2, <1>3, <1>5, <1>6 DEF b7c_assertions, observed, classify_total
  <2>2. CASE ~restarted
    <3>1. Cardinality(SeenOther(recs)) = 0
      BY <1>3, <1>5, <2>1, <2>2 DEF CounterMoved
    <3>2. SeenOther(recs) = {}
      BY <1>5, <3>1, FS_EmptySet
    <3>3. strangers < arm.warmup + arm.measured => arm.listener.filter
      BY <1>2, <1>3, <1>5, <2>1, ArmType DEF CounterMoved, Driving
    <3>4. strangers < arm.warmup + arm.measured => \A r \in recs : r.decided = "OK"
      BY <1>3, <1>4, <3>2, <3>3 DEF CounterMoved, SeenOther
    <3> QED
      BY <1>6, <2>2, <3>4 DEF HopWasClassified
  <2>3. CASE restarted /\ strangers = 0
    <3>1. Cardinality(NotClassified(recs)) = 0
      BY <1>3, <1>5, <2>1, <2>3 DEF CounterMoved
    <3>2. NotClassified(recs) = {}
      BY <1>5, <3>1, FS_EmptySet
    <3> QED
      BY <1>4, <1>6, <3>2 DEF HopWasClassified, NotClassified
  <2>4. CASE restarted /\ strangers # 0
    BY <1>6, <2>4 DEF HopWasClassified
  <2> QED
    BY <2>2, <2>3, <2>4
<1>7. CASE arm.case = "baseline"
  <2>1. ASSUME ~restarted PROVE \A r \in recs : r.decided = None
    <3>1. (gateway.OK + gateway.other) - (before.OK + before.other) = 0
      BY <1>1, <1>7 DEF b7c_assertions, observed, classify_total
    <3>2. Cardinality(Seen(recs)) = 0
      <4>1. gateway.OK + gateway.other >= before.OK + before.other + Cardinality(Seen(recs))
        BY <1>3, <2>1 DEF CounterMoved
      <4>2. /\ gateway.OK \in Nat /\ gateway.other \in Nat
            /\ before.OK \in Nat /\ before.other \in Nat
        BY <1>3
      <4> QED
        BY <1>5, <3>1, <4>1, <4>2
    <3>3. Seen(recs) = {}
      BY <1>5, <3>2, FS_EmptySet
    <3> QED
      BY <3>3 DEF Seen
  <2> QED
    BY <1>7, <2>1 DEF HopWasClassified
<1>8. arm.case \in {"classified", "baseline"}
  BY ArmType DEF Driving, Offered
<1> QED
  BY <1>6, <1>7, <1>8

ArmIds(a, W, M) ==
  {<<a, "warmup", i>> : i \in 0 .. W - 1} \cup {<<a, "measured", i>> : i \in 0 .. M - 1}

\* As many entries as requests, and one body: they are the requests of one arm.
LEMMA OneBody ==
  ASSUME NEW S, IsFiniteSet(S), NEW a, NEW W \in Nat, NEW M \in Nat,
         Cardinality(S) = W + M,
         \A e \in S : e \in [id : ArmIds(a, W, M), body : {<<"measure", a, 0>>}]
  PROVE  {e.id : e \in S} = ArmIds(a, W, M)
<1> USE DEF ArmIds
<1> DEFINE Ids == ArmIds(a, W, M)
           G == [id : Ids, body : {<<"measure", a, 0>>}]
           N == 0 .. (W + M) - 1
           F == [n \in N |-> [id |-> IF n < W THEN <<a, "warmup", n>> ELSE <<a, "measured", n - W>>,
                              body |-> <<"measure", a, 0>>]]
<1>1. F \in [N -> G]
  <2>1. ASSUME NEW n \in N PROVE F[n] \in G
    <3>1. CASE n < W
      <4>1. n \in 0 .. W - 1
        BY <3>1
      <4>2. F[n] = [id |-> <<a, "warmup", n>>, body |-> <<"measure", a, 0>>]
        BY <3>1
      <4> QED
        BY <4>1, <4>2
    <3>2. CASE ~(n < W)
      <4>1. n - W \in 0 .. M - 1
        BY <3>2
      <4>2. F[n] = [id |-> <<a, "measured", n - W>>, body |-> <<"measure", a, 0>>]
        BY <3>2
      <4> QED
        BY <4>1, <4>2
    <3> QED
      BY <3>1, <3>2
  <2> QED
    BY <2>1
<1>2. ASSUME NEW g \in G PROVE \E n \in N : F[n] = g
  <2>1. g = [id |-> g.id, body |-> <<"measure", a, 0>>] /\ g.id \in Ids
    OBVIOUS
  <2>2. ASSUME NEW i \in 0 .. W - 1, g.id = <<a, "warmup", i>> PROVE \E n \in N : F[n] = g
    <3>1. i \in N /\ i < W
      OBVIOUS
    <3> QED
      BY <2>1, <2>2, <3>1
  <2>3. ASSUME NEW i \in 0 .. M - 1, g.id = <<a, "measured", i>> PROVE \E n \in N : F[n] = g
    <3>1. i + W \in N /\ ~(i + W < W) /\ (i + W) - W = i
      OBVIOUS
    <3> QED
      BY <2>1, <2>3, <3>1
  <2> QED
    BY <2>1, <2>2, <2>3
<1>3. IsFiniteSet(N) /\ Cardinality(N) = W + M
  <2>1. W + M \in Nat
    OBVIOUS
  <2> QED
    BY <2>1, FS_Interval
<1>4. S \subseteq G
  OBVIOUS
<1> HIDE DEF F, G, N
<1>5. IsFiniteSet(G) /\ Cardinality(G) <= W + M
  <2>1. F \in Surjection(N, G)
    BY <1>1, <1>2, Fun_IsSurj
  <2> QED
    BY <1>3, <2>1, FS_Surjection
<1>6. S = G
  <2>1. Cardinality(G) \in Nat
    BY <1>5, FS_CardinalityType
  <2>2. Cardinality(S) <= Cardinality(G) /\ (Cardinality(G) = Cardinality(S) => S = G)
    BY <1>4, <1>5, FS_Subset
  <2> QED
    BY <1>5, <2>1, <2>2
<1>7. \A x \in Ids : \E e \in G : e.id = x
  <2>1. \A x \in Ids : [id |-> x, body |-> <<"measure", a, 0>>] \in G
    BY DEF G
  <2> QED
    BY <2>1
<1>8. \A e \in G : e.id \in Ids
  BY DEF G
<1> HIDE DEF Ids
<1>9. {e.id : e \in S} = Ids
  BY <1>6, <1>7, <1>8
<1> QED
  BY <1>9 DEF Ids

LEMMA PassedStub ==
  ASSUME Shape, StubCounts, phase = "measured", w.scenario = "selftest", Passed,
         NEW result, result.arm = arm, result.stats = stats
  PROVE  StubSawTheArm(result)
<1> DEFINE W == w.warmup
           M == w.measured
           a == arm.name
           ids == {e.id : e \in stats}
<1>1. /\ harness_assertions(arm, recs, warm)
      /\ selftest_assertions(arm, recs, stats, ECHO_HEADERS)
  BY DEF Passed
<1>2. Ordered(w) = << >>
  BY DEF Ordered
<1>3. /\ arm.warmup = W /\ arm.measured = M /\ None \notin arm.expected_status
      /\ W \in Nat /\ M \in Nat
  BY <1>2, ArmType, InvocationsAssumption DEF Driving, Shape
<1>4. /\ Cardinality(recs) = M /\ ok_records(arm, recs) = recs /\ recs # {}
      /\ Cardinality(stats) = W + M
      /\ arm.mode = "hit" => Cardinality({e.body : e \in stats}) = 1
  BY <1>1, <1>3 DEF harness_assertions, selftest_assertions
<1>5. IsFiniteSet(stats) /\ \A e \in stats : SentBy(e)
  BY DEF StubCounts
<1>6. \A i \in 0 .. M - 1 : <<a, "measured", i>> \in ids
  <2>1. \A i \in 0 .. M - 1 : \E r \in recs : r.i = i /\ r.status # None
    BY <1>3, <1>4 DEF Shape, Indexed, ok_records
  <2>2. \A r \in recs : r.status # None => \E e \in stats : e.id = <<a, "measured", r.i>>
    BY DEF StubCounts, AnswersCounted
  <2> QED
    BY <2>1, <2>2
<1>7. ASSUME arm.mode = "hit" PROVE ids = ArmIds(a, W, M)
  <2> DEFINE B == {e.body : e \in stats}
  <2>1. PICK e0 \in stats : e0.id = <<a, "measured", 0>>
    <3>1. 0 \in 0 .. M - 1
      <4>1. M # 0
        BY <1>4, FS_EmptySet DEF Shape, Indexed
      <4> QED
        BY <1>3, <4>1
    <3> QED
      BY <1>6, <3>1
  <2>2. IsFiniteSet(B)
    <3> DEFINE F == [e \in stats |-> e.body]
    <3>1. F \in [stats -> B] /\ \A b \in B : \E e \in stats : F[e] = b
      OBVIOUS
    <3> HIDE DEF F, B
    <3>2. F \in Surjection(stats, B)
      BY <3>1, Fun_IsSurj
    <3> QED
      BY <1>5, <3>2, FS_Surjection
  <2>3. \E x : B = {x}
    BY <1>4, <1>7, <2>2, FS_Singleton
  <2>4. \A e \in stats : e.body = e0.body
    BY <2>1, <2>3
  <2>5. e0.body = <<"measure", a, 0>>
    <3>1. PICK j \in DOMAIN plan, ph \in {"warmup", "measured"} : \E i \in 0 .. Limit(ph) - 1 :
            e0 = [id |-> <<plan[j].name, ph, i>>, body |-> BodyOf(plan[j], ph, i)]
      BY <1>5, <2>1 DEF SentBy
    <3>2. PICK i \in 0 .. Limit(ph) - 1 :
            e0 = [id |-> <<plan[j].name, ph, i>>, body |-> BodyOf(plan[j], ph, i)]
      BY <3>1
    <3>3. plan[j].name = a /\ ph = "measured" /\ i = 0
      BY <2>1, <3>2
    <3> QED
      BY <3>2, <3>3 DEF BodyOf
  <2>6. ASSUME NEW e \in stats
        PROVE  e \in [id : ArmIds(a, W, M), body : {<<"measure", a, 0>>}]
    <3>1. PICK j \in DOMAIN plan, ph \in {"warmup", "measured"} : \E i \in 0 .. Limit(ph) - 1 :
            e = [id |-> <<plan[j].name, ph, i>>, body |-> BodyOf(plan[j], ph, i)]
      BY <1>5, <2>6 DEF SentBy
    <3>2. PICK i \in 0 .. Limit(ph) - 1 :
            e = [id |-> <<plan[j].name, ph, i>>, body |-> BodyOf(plan[j], ph, i)]
      BY <3>1
    <3>3. BodyOf(plan[j], ph, i) = <<"measure", a, 0>>
      BY <2>4, <2>5, <3>2
    <3>4. plan[j].name = a
      BY <3>3 DEF BodyOf
    <3>5. <<a, ph, i>> \in ArmIds(a, W, M)
      BY DEF Limit, ArmIds
    <3> QED
      BY <3>2, <3>3, <3>4, <3>5
  <2> HIDE DEF a, W, M
  <2> QED
    BY <1>3, <1>4, <1>5, <2>6, OneBody
<1> QED
  BY <1>3, <1>6, <1>7 DEF StubSawTheArm, ArmIds

\* B-6, an arm at a time: see DegradedAsClaimed.
DegradedArm(result) ==
  LET a == result.arm
      rs == result.records
      Waited(num, den) == {r \in rs : den * r.lat >= num * w.timeout_ms}
      FellBack(r) == r.decided # "OK" /\ r.route = a.listener.cfg.default_cluster
  IN  CASE a.case = "classifier-down" ->
             (\A r \in rs : FellBack(r)) /\ Share(Waited(1, 2), rs, 1)
        [] a.case = "classifier-slow" ->
             (\A r \in rs : FellBack(r)) /\ Share(rs \ Waited(8, 10), rs, 50)
        [] a.case = "queue-exhausted" ->
             /\ \A r \in rs : r.decided = "OK" \/ FellBack(r)
             /\ \E r \in rs : FellBack(r)
        [] a.case = "fail-closed" -> \A r \in rs : r.route = Reject

LEMMA PassedDegraded ==
  ASSUME Shape, RecordsMade, phase = "measured", w.scenario = "b6", Passed,
         NEW result, result.arm = arm, result.records = recs
  PROVE  DegradedArm(result)
<1> DEFINE t == w.timeout_ms
           n == Cardinality(recs)
           FellBack(r) == r.decided # "OK" /\ r.route = arm.listener.cfg.default_cluster
<1>1. harness_assertions(arm, recs, warm) /\ b6_assertions(w, arm, recs)
  BY DEF Passed
<1>2. /\ IsFiniteSet(recs) /\ ok_records(arm, recs) = recs
      /\ \A r, q \in recs : r.i = q.i => r = q
  BY <1>1 DEF harness_assertions, Shape, Indexed
<1>3. \A r \in recs : Made(r, arm)
  BY DEF RecordsMade
<1>4. t \in Nat \ {0} /\ \A r \in recs : r.lat \in Nat
  BY <1>3, InvocationsAssumption DEF Shape, Made
<1>5. None \notin StatusValues \cup {200, 503}
  BY InvocationsAssumption
<1>6. ASSUME all_ok(recs), NEW r \in recs, r.sc # None
      PROVE  /\ arm.listener.filter /\ r.sc = r.decided
             /\ r.decided # "OK" => FellBack(r)
  <2>1. r.status = 200 /\ r.status # None
    BY <1>5, <1>6 DEF all_ok
  <2>2. r.sc = r.decided /\ Shows(arm)
    BY <1>3, <1>6, <2>1 DEF Made
  <2> QED
    BY <1>3, <2>1, <2>2 DEF Made, Shows
<1>7. ASSUME NEW p \in {50, 99}, recs # {}
      PROVE  RankedLatency(recs, p, latency_ms(arm, recs, p))
  BY <1>2, <1>4, <1>7, LatencyIs
<1>8. CASE arm.case = "classifier-down"
  <2> DEFINE v == latency_ms(arm, recs, 99)
             Waited == {r \in recs : 2 * r.lat >= 1 * t}
  <2>1. /\ all_ok(recs) /\ 2 * v < t
        /\ \A r \in recs : r.sc \in {"UNAVAILABLE", "ERROR"}
    BY <1>1, <1>2, <1>8 DEF b6_assertions, routed_to_default
  <2>2. \A r \in recs : FellBack(r)
    BY <1>5, <1>6, <2>1 DEF StatusValues
  <2>3. recs # {} /\ v \in Nat
    <3>1. recs # {}
      BY <2>1 DEF all_ok
    <3> QED
      BY <1>4, <1>7, <3>1 DEF RankedLatency
  <2>4. 99 * n <= 100 * Cardinality({r \in recs : r.lat <= v}) /\ n \in Nat
    BY <1>7, <2>3 DEF RankedLatency
  <2> HIDE DEF v
  <2>5. Waited \subseteq recs \ {r \in recs : r.lat <= v}
    BY <1>4, <2>1, <2>3
  <2>6. /\ Cardinality(Waited) \in Nat
        /\ Cardinality(Waited) <= n - Cardinality({r \in recs : r.lat <= v})
        /\ Cardinality({r \in recs : r.lat <= v}) \in Nat
    <3> DEFINE U == {r \in recs : r.lat <= v}
    <3>1. IsFiniteSet(U) /\ U \subseteq recs
      BY <1>2, FS_Subset
    <3> HIDE DEF U, Waited
    <3>2. IsFiniteSet(recs \ U) /\ Cardinality(recs \ U) = n - Cardinality(recs \cap U)
      BY <1>2, FS_Difference
    <3>3. recs \cap U = U
      BY <3>1
    <3>4. IsFiniteSet(Waited) /\ Cardinality(Waited) <= Cardinality(recs \ U)
      BY <2>5, <3>2, FS_Subset DEF U
    <3> QED
      BY <3>1, <3>2, <3>3, <3>4, FS_CardinalityType DEF U
  <2>7. Share(Waited, recs, 1)
    BY <2>4, <2>6 DEF Share
  <2> QED
    BY <1>8, <2>2, <2>7 DEF DegradedArm
<1>9. CASE arm.case = "classifier-slow"
  <2> DEFINE v == latency_ms(arm, recs, 50)
             Waited == {r \in recs : 10 * r.lat >= 8 * t}
             Low == {r \in recs : r.lat < v}
  <2>1. /\ all_ok(recs) /\ 10 * v >= 8 * t
        /\ \A r \in recs : r.sc \in {"TIMEOUT"}
    BY <1>1, <1>2, <1>9 DEF b6_assertions, routed_to_default
  <2>2. \A r \in recs : FellBack(r)
    BY <1>5, <1>6, <2>1 DEF StatusValues
  <2>3. recs # {} /\ v \in Nat
    <3>1. recs # {}
      BY <2>1 DEF all_ok
    <3> QED
      BY <1>4, <1>7, <3>1 DEF RankedLatency
  <2>4. 100 * Cardinality(Low) < 50 * n /\ n \in Nat
    BY <1>7, <2>3 DEF RankedLatency
  <2> HIDE DEF v
  <2>5. recs \ Waited \subseteq Low
    BY <1>4, <2>1, <2>3
  <2>6. /\ Cardinality(recs \ Waited) <= Cardinality(Low)
        /\ Cardinality(recs \ Waited) \in Nat /\ Cardinality(Low) \in Nat
    <3>1. IsFiniteSet(Low)
      BY <1>2, FS_Subset
    <3> HIDE DEF Low, Waited
    <3> QED
      BY <2>5, <3>1, FS_Subset, FS_CardinalityType
  <2>7. Share(recs \ Waited, recs, 50)
    BY <2>4, <2>6 DEF Share
  <2> QED
    BY <1>9, <2>2, <2>7 DEF DegradedArm
<1>10. CASE arm.case = "queue-exhausted"
  <2>1. all_ok(recs) /\ \E r \in recs : r.sc = "RESOURCE_EXHAUSTED"
    BY <1>1, <1>2, <1>10 DEF b6_assertions
  <2>2. PICK q \in recs : q.sc = "RESOURCE_EXHAUSTED"
    BY <2>1
  <2>3. arm.listener.filter /\ FellBack(q)
    BY <1>5, <1>6, <2>1, <2>2 DEF StatusValues
  <2>4. \A r \in recs : r.decided = "OK" \/ FellBack(r)
    BY <1>3, <1>5, <2>1, <2>3 DEF all_ok, Made
  <2> QED
    BY <1>10, <2>3, <2>4 DEF DegradedArm
<1>11. CASE arm.case = "fail-closed"
  <2>1. \A r \in recs : r.status = 503
    BY <1>1, <1>11 DEF b6_assertions
  <2>2. \A r \in recs : r.route = Reject
    BY <1>3, <1>5, <2>1 DEF Made
  <2> QED
    BY <1>11, <2>2 DEF DegradedArm
<1>12. arm.case \in {"classifier-down", "classifier-slow", "queue-exhausted", "fail-closed"}
  BY ArmType DEF Driving, Offered
<1> QED
  BY <1>8, <1>9, <1>10, <1>11, <1>12

\* B-1, B-2, B-3 and B-7, an arm at a time.
OverheadArm(result) ==
  LET a == result.arm
      rs == result.records
      hidden == a.listener.filter /\ ~a.listener.cfg.emit_headers
  IN  /\ IsFiniteSet(rs) /\ ok_records(a, rs) = rs
      /\ \A r, q \in rs : r.i = q.i => r = q
      /\ \A r \in rs : r.lat \in Nat
      /\ a.case = "baseline" /\ w.echo /\ ~hidden => \A r \in rs : r.decided = None
      /\ a.case # "baseline" =>
           w.echo /\ rs # {} /\ \A r \in rs : r.decided = "OK" /\ (~r.hit => r.lat \in w.forward)
      /\ a.mode = "miss" => \A r \in rs : ~r.hit

LEMMA PassedOverhead ==
  ASSUME Shape, RecordsMade, phase = "measured", Overhead, Passed,
         NEW result, result.arm = arm, result.records = recs
  PROVE  OverheadArm(result)
<1>1. harness_assertions(arm, recs, warm) /\ overhead_assertions(arm, recs)
  BY DEF Passed, Overhead
<1>2. /\ IsFiniteSet(recs) /\ ok_records(arm, recs) = recs
      /\ \A r, q \in recs : r.i = q.i => r = q
  BY <1>1 DEF harness_assertions, Shape, Indexed
<1>3. /\ \A r \in recs : Made(r, arm)
      /\ arm.mode = "miss" => \A r \in recs : ~r.hit
  BY DEF RecordsMade
<1>4. \A r \in recs : r.lat \in Nat
  BY <1>3 DEF Made
<1>5. w.scenario # "selftest"
  BY DEF Overhead
<1>6. None \notin StatusValues /\ None \notin {200, 503}
  BY InvocationsAssumption
<1>7. \A r \in recs : r.status # None /\ r.status \in arm.expected_status
  BY <1>2, ArmType DEF ok_records, Driving
<1>8. ASSUME arm.case = "baseline", w.echo, ~(arm.listener.filter /\ ~arm.listener.cfg.emit_headers),
             NEW r \in recs
      PROVE  r.decided = None
  <2>1. r.status = 200
    BY <1>7, <1>8, ArmType DEF Driving
  <2>2. provenance_count(r) = 0
    BY <1>1, <1>2, <1>8 DEF overhead_assertions, assert_no_classification
  <2>3. r.sc = None
    <3> DEFINE H == {h \in {r.sc, r.label} : h # None}
    <3>1. IsFiniteSet({r.sc, r.label})
      <4>1. IsFiniteSet({r.sc}) /\ IsFiniteSet({r.label})
        BY FS_Singleton
      <4>2. {r.sc, r.label} = {r.sc} \cup {r.label}
        OBVIOUS
      <4> QED
        BY <4>1, <4>2, FS_Union
    <3>2. IsFiniteSet(H)
      BY <3>1, FS_Subset
    <3>3. Cardinality(H) = 0
      BY <2>2 DEF provenance_count
    <3>4. H = {}
      <4> HIDE DEF H
      <4> QED
        BY <3>2, <3>3, FS_EmptySet
    <3> QED
      BY <3>4
  <2>4. CASE arm.listener.filter
    <3>1. r.sc = r.decided /\ r.decided \in StatusValues
      BY <1>3, <1>5, <1>7, <1>8, <2>1, <2>4 DEF Made, Shows
    <3> QED
      BY <1>6, <2>3, <3>1
  <2>5. CASE ~arm.listener.filter
    BY <1>3, <1>7, <2>5 DEF Made
  <2> QED
    BY <2>4, <2>5
<1>9. ASSUME arm.case # "baseline"
      PROVE  /\ w.echo /\ recs # {}
             /\ \A r \in recs : r.decided = "OK" /\ (~r.hit => r.lat \in w.forward)
  <2>1. recs # {} /\ \A r \in recs : r.sc = "OK"
    BY <1>1, <1>2, <1>9 DEF overhead_assertions, assert_classification_happened
  <2>2. "OK" # None
    BY <1>6 DEF StatusValues
  <2>3. \A r \in recs : r.decided = "OK" /\ w.echo
    BY <1>3, <1>5, <1>7, <2>1, <2>2 DEF Made, Shows
  <2>4. \A r \in recs : ~r.hit => r.lat \in w.forward
    BY <1>3, <1>7, <2>3 DEF Made
  <2> QED
    BY <2>1, <2>3, <2>4
<1> QED
  BY <1>2, <1>3, <1>4, <1>8, <1>9 DEF OverheadArm

\* B-4, its arm: where each request went, and what can be seen of it.
RoutedArm(result) ==
  LET a == result.arm
      rs == result.records
  IN  /\ \A r \in rs : r.status = 200 /\ r.sc \in w.expect_status /\ Made(r, a)
      /\ disagreements(w, rs) = {}
      /\ w.prompts # << >> => \A r \in rs : r.key \in heldout_ids(w)

LEMMA PassedRouted ==
  ASSUME Shape, RecordsMade, phase = "measured", w.scenario = "b4", Passed,
         NEW result, result.arm = arm, result.records = recs
  PROVE  RoutedArm(result)
<1>1. harness_assertions(arm, recs, warm) /\ b4_assertions(w, arm, recs, warm)
  BY DEF Passed
<1>2. ok_records(arm, recs) = recs
  BY <1>1 DEF harness_assertions
<1>3. arm.case = "routing-heldout"
  BY ArmType DEF Driving, Offered
<1>4. arm.expected_status = {200}
  BY <1>3, ArmType DEF Driving
<1>5. \A r \in recs : r.status = 200
  BY <1>2, <1>4 DEF ok_records
<1>6. (\A r \in recs : r.sc \in w.expect_status) /\ disagreements(w, recs) = {}
  BY <1>1, <1>2 DEF b4_assertions
<1>7. /\ \A r \in recs : Made(r, arm)
      /\ w.prompts # << >> => \A r \in recs : r.key \in heldout_ids(w)
  BY DEF RecordsMade
<1> QED
  BY <1>5, <1>6, <1>7 DEF RoutedArm

-----------------------------------------------------------------------------
(* The arms that were judged are those of the plan, in order; and a run    *)
(* that exits with 0 judged them all, and each of them passed.             *)

ArmFacts(result) ==
  /\ w.scenario = "b4" => RoutedArm(result)
  /\ w.scenario = "b7c" => HopWasClassified(result)
  /\ w.scenario = "selftest" => StubSawTheArm(result)
  /\ w.scenario = "b6" => DegradedArm(result)
  /\ Overhead => OverheadArm(result)

Judged ==
  /\ \E S : results \in Seq(S)
  /\ phase = "build" => results = << >>
  /\ Driving => Len(results) = k - 1
  /\ phase = "report" => Len(results) = Len(plan)
  /\ \A j \in DOMAIN results :
       j \in DOMAIN plan /\ results[j].arm = plan[j] /\ (results[j].passed => ArmFacts(results[j]))

ExitIsEarned ==
  exit = 0 =>
    /\ phase = "ended" /\ Len(results) = Len(plan) /\ cross_arm_assertions
    /\ \A j \in DOMAIN results : results[j].passed

LEMMA FactsStay ==
  ASSUME w' = w, NEW y PROVE ArmFacts(y) => ArmFacts(y)'
<1>1. w'.scenario = w.scenario /\ Overhead' = Overhead
  BY DEF Overhead
<1>2. HopWasClassified(y) => HopWasClassified(y)'
  OBVIOUS
<1>3. StubSawTheArm(y) => StubSawTheArm(y)'
  OBVIOUS
<1>4. DegradedArm(y) => DegradedArm(y)'
  BY Zenon DEF DegradedArm
<1>5. OverheadArm(y) => OverheadArm(y)'
  BY Zenon DEF OverheadArm
<1>6. RoutedArm(y) => RoutedArm(y)'
  <2>1. \A r, a : Made(r, a) => Made(r, a)'
    BY DEF Made, Shows
  <2>2. /\ disagreements(w, y.records)' = disagreements(w, y.records)
        /\ heldout_ids(w)' = heldout_ids(w)
    OBVIOUS
  <2>3. w'.prompts = w.prompts /\ w'.expect_status = w.expect_status
    OBVIOUS
  <2> QED
    BY <2>1, <2>2, <2>3 DEF RoutedArm
<1> QED
  BY <1>1, <1>2, <1>3, <1>4, <1>5, <1>6 DEF ArmFacts

LEMMA JudgeAppends ==
  ASSUME Shape, CounterMoved, StubCounts, RecordsMade, Judged, Judge
  PROVE  Judged'
<1> DEFINE x == [ arm |-> arm, warmup |-> warm, records |-> recs, passed |-> Passed,
                  stats |-> stats, strangers |-> strangers, restarted |-> restarted ]
<1>1. results' = Append(results, x) /\ w' = w /\ plan' = plan /\ phase = "measured"
  BY DEF Judge
<1>2. PICK S : results \in Seq(S)
  BY DEF Judged
<1>3. /\ x.arm = arm /\ x.records = recs /\ x.passed = Passed /\ x.stats = stats
      /\ x.strangers = strangers /\ x.restarted = restarted
  OBVIOUS
<1> HIDE DEF x
<1>4. x.passed => ArmFacts(x)
  BY <1>1, <1>3, PassedHop, PassedStub, PassedDegraded, PassedOverhead, PassedRouted DEF ArmFacts
<1>5. Append(results, x) \in Seq(S \cup {x})
  <2>1. results \in Seq(S \cup {x})
    BY <1>2
  <2> QED
    BY <2>1
<1>6. /\ Len(results) \in Nat /\ Len(Append(results, x)) = Len(results) + 1
      /\ \A j \in DOMAIN Append(results, x) :
           \/ j = Len(results) + 1 /\ Append(results, x)[j] = x
           \/ j \in DOMAIN results /\ Append(results, x)[j] = results[j]
  BY <1>2
<1>7. k = Len(results) + 1 /\ k \in DOMAIN plan
  <2>1. Driving /\ Len(results) = k - 1
    BY <1>1 DEF Judged, Driving
  <2>2. k \in DOMAIN plan /\ k \in Int
    BY <2>1, ArmsType DEF Shape
  <2> QED
    BY <1>6, <2>1, <2>2
<1>8. ASSUME NEW j \in DOMAIN results'
      PROVE  /\ j \in DOMAIN plan /\ results'[j].arm = plan[j]
             /\ results'[j].passed => ArmFacts(results'[j])
  <2>1. CASE j = Len(results) + 1 /\ results'[j] = x
    <3>1. j = k /\ results'[j].arm = plan[k]
      BY <1>3, <1>7, <2>1 DEF arm
    <3> QED
      BY <1>4, <1>7, <2>1, <3>1
  <2>2. CASE j \in DOMAIN results /\ results'[j] = results[j]
    BY <2>2 DEF Judged
  <2> QED
    BY <1>1, <1>6, <2>1, <2>2
<1>9. \A y : ArmFacts(y) => ArmFacts(y)'
  BY <1>1, FactsStay
<1>10. /\ Len(results') = k
       /\ \/ phase' = "report" /\ k = Len(plan)
          \/ phase' = "setup" /\ k' = k + 1
  BY <1>1, <1>6, <1>7 DEF Judge
<1>11. /\ ~(phase' = "build") /\ (Driving' => Len(results') = k' - 1)
       /\ phase' = "report" => Len(results') = Len(plan')
  <2>1. k \in Int
    BY <1>6, <1>7
  <2> QED
    BY <1>1, <1>10, <2>1 DEF Driving
<1> QED
  BY <1>1, <1>5, <1>8, <1>9, <1>11 DEF Judged

LEMMA JudgedPreserved ==
  Shape /\ CounterMoved /\ StubCounts /\ RecordsMade /\ Judged /\ [Next]_vars => Judged'
<1> SUFFICES ASSUME Shape, CounterMoved, StubCounts, RecordsMade, Judged, [Next]_vars
             PROVE  Judged'
  OBVIOUS
<1> USE DEF request, environment
<1>1. CASE Judge
  BY <1>1, JudgeAppends
<1>2. CASE Build
  <2>1. results' = results /\ results = << >> /\ w' = w /\ k' = k /\ k = 1
    BY <1>2 DEF Build, Judged, Shape
  <2>2. results' \in Seq({}) /\ DOMAIN results' = {} /\ Len(results') = 0
    BY <2>1
  <2>3. phase' = "report" => Len(plan') = 0
    BY <1>2 DEF Build
  <2> QED
    BY <2>1, <2>2, <2>3 DEF Judged
<1>3. CASE Setup \/ Request \/ RequestFails \/ StartMeasured \/ Report \/ LateRequest \/ Stranger
           \/ GatewayRestarts \/ UNCHANGED vars
  <2>1. /\ results' = results /\ w' = w /\ plan' = plan /\ k' = k
        /\ Driving' => Driving
        /\ phase' \in {"build", "report"} => phase' = phase
    BY <1>3 DEF Setup, Request, RequestFails, StartMeasured, Report, LateRequest, Stranger,
       GatewayRestarts, vars, Driving
  <2>2. \A y : ArmFacts(y) => ArmFacts(y)'
    BY <2>1, FactsStay
  <2> QED
    BY <2>1, <2>2 DEF Judged
<1> QED
  BY <1>1, <1>2, <1>3 DEF Next

LEMMA ExitPreserved == Judged /\ ExitIsEarned /\ [Next]_vars => ExitIsEarned'
<1> SUFFICES ASSUME Judged, ExitIsEarned, [Next]_vars PROVE ExitIsEarned'
  OBVIOUS
<1> USE DEF request, environment
<1>1. CASE Report
  <2>1. results' = results /\ plan' = plan /\ w' = w /\ phase' = "ended" /\ phase = "report"
    BY <1>1 DEF Report
  <2>2. exit' = 0 => cross_arm_assertions /\ \A j \in DOMAIN results : results[j].passed
    BY <1>1 DEF Report
  <2> QED
    BY <2>1, <2>2 DEF Judged, ExitIsEarned, cross_arm_assertions
<1>2. CASE Build
  BY <1>2 DEF Build, ExitIsEarned
<1>3. CASE ~Report /\ ~Build
  <2>1. exit' = exit
    BY <1>3 DEF Next, vars, Setup, Request, RequestFails, StartMeasured, Judge, LateRequest, Stranger,
       GatewayRestarts
  <2>2. exit = 0 => phase' = phase /\ results' = results /\ plan' = plan /\ w' = w
    BY <1>3 DEF ExitIsEarned, Next, vars, Setup, Request, RequestFails, StartMeasured, Judge,
       LateRequest, Stranger, GatewayRestarts
  <2> QED
    BY <2>1, <2>2 DEF ExitIsEarned, cross_arm_assertions
<1> QED
  BY <1>1, <1>2, <1>3

RunInv == Shape /\ CounterMoved /\ StubCounts /\ RecordsMade /\ Judged /\ ExitIsEarned

LEMMA RunInvariant == Spec => []RunInv
<1>1. Init => CounterMoved /\ StubCounts /\ RecordsMade /\ Judged /\ ExitIsEarned
  <2> SUFFICES ASSUME Init
               PROVE  CounterMoved /\ StubCounts /\ RecordsMade /\ Judged /\ ExitIsEarned
    OBVIOUS
  <2>1. /\ results = << >> /\ results \in Seq({}) /\ DOMAIN results = {}
        /\ phase = "build" /\ exit = None
    BY DEF Init
  <2>2. IsFiniteSet({}) /\ stats = {} /\ late = {}
    BY FS_EmptySet DEF Init
  <2>3. CounterMoved /\ StubCounts /\ RecordsMade
    BY <2>1, <2>2 DEF CounterMoved, StubCounts, RecordsMade
  <2>4. Judged
    BY <2>1 DEF Judged, Driving
  <2>5. ExitIsEarned
    BY <2>1, InvocationsAssumption DEF ExitIsEarned
  <2> QED
    BY <2>3, <2>4, <2>5
<1>2. /\ CounterMoved /\ StubCounts /\ RecordsMade /\ Judged /\ ExitIsEarned
      /\ Shape /\ [Next]_vars
      => (CounterMoved /\ StubCounts /\ RecordsMade /\ Judged /\ ExitIsEarned)'
  BY CounterMovedPreserved, StubCountsPreserved, RecordsMadePreserved, JudgedPreserved, ExitPreserved
<1> QED
  BY <1>1, <1>2, ShapeHolds, PTL DEF Spec, RunInv

\* An arm that passes was what it claims to be: in the cluster, classified or
\* not to the last request, whoever else moved the gateway's counter; in the
\* self-test, every measured request in the stub's count and, of a hit arm,
\* nothing else, whatever requests of earlier arms came late.
THEOREM CountersAreProof == Spec => []CountersProveIt
<1>1. RunInv => CountersProveIt
  BY DEF RunInv, Judged, ArmFacts, CountersProveIt
<1> QED
  BY <1>1, RunInvariant, PTL

\* A run of B-6 that exits with 0 saw the degradation it claims, however long
\* each request took and whatever the classifier answered.
THEOREM DegradationIsReal == Spec => []DegradedAsClaimed
<1>1. ASSUME RunInv PROVE DegradedAsClaimed
  <2> SUFFICES ASSUME Succeeded("b6"), NEW j \in DOMAIN results
               PROVE  DegradedArm(results[j])
    BY DEF DegradedAsClaimed, DegradedArm
  <2> QED
    BY <1>1 DEF RunInv, Judged, ExitIsEarned, ArmFacts, Succeeded
<1> QED
  BY <1>1, RunInvariant, PTL

-----------------------------------------------------------------------------
(* What the arms of B-1, B-2, B-3 and B-7 differ in.                       *)

\* Of a scenario that measures the filter's cost, the last arm of a level goes
\* to the target.
LEMMA LastIsTarget ==
  ASSUME NEW inv \in Invocations, inv.scenario \in {"b1", "b2", "b3", "b7"}
  PROVE  LET given == ScenarioArms(inv)
         IN  Len(given) \in Nat \ {0} /\ given[Len(given)].case # "baseline"
<1> DEFINE s == inv.scenario
           given == ScenarioArms(inv)
           B == Built(inv)
           Good(t) == Len(t) \in Nat \ {0} /\ t[Len(t)].case # "baseline"
<1>1. inv.urls["target"] # None
  BY InvocationsAssumption
<1>2. \A case, mode : Arm(inv, case, "target", mode)
                        = <<[case |-> case, url |-> "target", mode |-> mode]>>
  BY <1>1 DEF Arm
<1>3. ASSUME NEW t, NEW u, NEW S, t \in Seq(S), u \in Seq(S), Good(u)
      PROVE  Good(t \o u)
  <2>1. /\ Len(t) \in Nat /\ Len(u) \in Nat \ {0}
        /\ Len(t \o u) = Len(t) + Len(u)
        /\ (t \o u)[Len(t) + Len(u)] = u[Len(u)]
    BY <1>3
  <2> QED
    BY <1>3, <2>1
<1>4. ASSUME NEW case, NEW mode, case # "baseline"
      PROVE  Good(Arm(inv, case, "target", mode))
  <2>1. Arm(inv, case, "target", mode) = <<[case |-> case, url |-> "target", mode |-> mode]>>
    BY <1>2
  <2> QED
    BY <1>4, <2>1
<1> DEFINE Any == [case : {"baseline", "classified", "clusterip"}, url : {"baseline", "target"},
                   mode : {"n/a", "miss", "hit"}]
<1>6. \A case \in {"baseline", "classified", "clusterip"}, url \in {"baseline", "target"},
         mode \in {"n/a", "miss", "hit"} : Arm(inv, case, url, mode) \in Seq(Any)
  <2> TAKE case \in {"baseline", "classified", "clusterip"}, url \in {"baseline", "target"},
           mode \in {"n/a", "miss", "hit"}
  <2>1. [case |-> case, url |-> url, mode |-> mode] \in Any
    OBVIOUS
  <2> HIDE DEF Any
  <2> QED
    BY <2>1 DEF Arm
<1> HIDE DEF Any, Good
<1>7. \A t, u \in Seq(Any) : t \o u \in Seq(Any) /\ (Good(u) => Good(t \o u))
  BY <1>3
<1>8. /\ Good(CacheArms(inv, "classified", "target")) /\ CacheArms(inv, "classified", "target") \in Seq(Any)
      /\ Good(CacheArms(inv, "clusterip", "target"))
  <2>1. \A case \in {"classified", "clusterip"} :
          /\ Good(Arm(inv, case, "target", "hit"))
          /\ Arm(inv, case, "target", "hit") \in Seq(Any)
          /\ Arm(inv, case, "target", "miss") \in Seq(Any)
    BY <1>4, <1>6
  <2>2. \A case \in {"classified", "clusterip"} :
          CacheArms(inv, case, "target") = Arm(inv, case, "target", "miss") \o Arm(inv, case, "target", "hit")
    BY DEF CacheArms
  <2>3. \A case \in {"classified", "clusterip"} :
          Good(CacheArms(inv, case, "target")) /\ CacheArms(inv, case, "target") \in Seq(Any)
    <3> TAKE case \in {"classified", "clusterip"}
    <3> DEFINE m == Arm(inv, case, "target", "miss")
               h == Arm(inv, case, "target", "hit")
    <3>1. Good(h) /\ h \in Seq(Any) /\ m \in Seq(Any) /\ CacheArms(inv, case, "target") = m \o h
      BY <2>1, <2>2
    <3> HIDE DEF m, h
    <3> QED
      BY <1>7, <3>1
  <2> QED
    BY <2>3
<1>9. CASE s = "b1"
  <2>1. given = Arm(inv, "baseline", "baseline", "n/a") \o CacheArms(inv, "classified", "target")
    BY <1>9 DEF ScenarioArms, b1_arms
  <2> QED
    BY <1>3, <1>6, <1>8, <2>1 DEF Good
<1>10. CASE s = "b2"
  <2>1. given = Arm(inv, "baseline", "baseline", "n/a") \o Arm(inv, "classified", "target", "miss")
    BY <1>10 DEF ScenarioArms, b2_arms
  <2> QED
    BY <1>3, <1>4, <1>6, <2>1 DEF Good
<1>11. CASE s = "b3"
  BY <1>4, <1>11 DEF ScenarioArms, b3_arms, Good
<1>12. CASE s = "b7"
  BY <1>8, <1>12 DEF ScenarioArms, b7_arms, Good
<1> QED
  BY <1>9, <1>10, <1>11, <1>12

\* So a run that has arms has one of those.
LEMMA SomeTarget ==
  ASSUME NEW inv \in Invocations, inv.scenario \in {"b1", "b2", "b3", "b7"},
         NEW m \in DOMAIN arms(inv)
  PROVE  \E n \in DOMAIN arms(inv) : arms(inv)[n].case # "baseline"
<1> DEFINE given == ScenarioArms(inv)
           L == Len(given)
           K == Len(levels(inv))
           x == given[((L - 1) % L) + 1]
<1>1. L \in Nat \ {0} /\ given[L].case # "baseline"
  BY LastIsTarget
<1>2. K \in Nat
  BY LevelsType
<1>3. m \in 1 .. K * L
  BY DEF arms
<1>4. L \in DOMAIN arms(inv) => arms(inv)[L].case = x.case
  BY DEF arms
<1>5. L \in 1 .. K * L => L \in DOMAIN arms(inv)
  BY DEF arms
<1> HIDE DEF given, K
<1>6. (L - 1) % L = L - 1
  BY <1>1
<1>7. K # 0
  <2> SUFFICES ASSUME K = 0 PROVE FALSE
    OBVIOUS
  <2>1. K * L = 0
    BY <1>1
  <2> QED
    BY <1>3, <2>1
<1>8. L \in 1 .. K * L
  <2>1. PICK j \in Nat : K = j + 1
    <3>1. K - 1 \in Nat /\ K = (K - 1) + 1
      BY <1>2, <1>7
    <3> QED
      BY <3>1
  <2>2. K * L = j * L + L /\ j * L \in Nat
    BY <1>1, <2>1
  <2> QED
    BY <1>1, <2>2
<1> QED
  BY <1>1, <1>4, <1>5, <1>6, <1>8

\* If no record of a non-hit may be twice as slow as another, the median of a
\* hit arm is half that of a miss arm only if half its records are hits.
LEMMA MostlyHit ==
  ASSUME NEW rs, IsFiniteSet(rs), NEW F, NEW u, NEW v, F \subseteq Nat, u \in F, v \in Nat,
         \A f, g \in F : g < 2 * f,
         \A r \in rs : r.lat \in Nat /\ (~r.hit => r.lat \in F),
         RankedLatency(rs, 50, v), 2 * v <= u
  PROVE  Share({r \in rs : ~r.hit}, rs, 50)
<1> DEFINE Slow == {r \in rs : ~r.hit}
           UpTo == {r \in rs : r.lat <= v}
<1>1. Slow \cap UpTo = {}
  <2> SUFFICES ASSUME NEW r \in rs, ~r.hit, r.lat <= v PROVE FALSE
    OBVIOUS
  <2>1. r.lat \in F /\ r.lat \in Nat /\ u \in Nat
    OBVIOUS
  <2>2. u < 2 * r.lat
    BY <2>1
  <2> QED
    BY <2>1, <2>2
<1>2. IsFiniteSet(Slow) /\ IsFiniteSet(UpTo) /\ Slow \cup UpTo \subseteq rs
  BY FS_Subset
<1>3. 50 * Cardinality(rs) <= 100 * Cardinality(UpTo)
  BY DEF RankedLatency
<1> HIDE DEF Slow, UpTo
<1>4. /\ Cardinality(Slow \cup UpTo) = Cardinality(Slow) + Cardinality(UpTo)
      /\ Cardinality(Slow \cup UpTo) <= Cardinality(rs)
  <2>1. /\ Cardinality(Slow \cup UpTo)
             = Cardinality(Slow) + Cardinality(UpTo) - Cardinality(Slow \cap UpTo)
        /\ Cardinality(Slow \cap UpTo) = 0
    BY <1>1, <1>2, FS_Union, FS_EmptySet
  <2>2. Cardinality(Slow) \in Nat /\ Cardinality(UpTo) \in Nat
    BY <1>2, FS_CardinalityType
  <2> QED
    BY <1>2, <2>1, <2>2, FS_Subset
<1>5. Cardinality(Slow) \in Nat /\ Cardinality(UpTo) \in Nat /\ Cardinality(rs) \in Nat
  BY <1>2, FS_CardinalityType
<1>6. 100 * Cardinality(Slow) <= 50 * Cardinality(rs)
  BY <1>3, <1>4, <1>5
<1> QED
  BY <1>6 DEF Share, Slow

\* No classification takes twice as long as another: the ground on which B-1
\* tells a cache that answers from one that does not (b1_added_ttft.py).
ForwardAlike ==
  \A inv \in Invocations : inv.scenario = "b1" => \A f, g \in inv.forward : g < 2 * f

\* A hit arm of B-1 was mostly served from the cache.
LEMMA HitArmHits ==
  ASSUME RunInv, ForwardAlike, Succeeded("b1"),
         NEW j \in DOMAIN results, results[j].arm.mode = "hit"
  PROVE  Share({r \in results[j].records : ~r.hit}, results[j].records, 50)
<1>1. w \in Invocations /\ w.scenario = "b1" /\ Overhead
  BY DEF RunInv, Shape, Succeeded, Overhead
<1>2. w.forward \subseteq Nat /\ \A f, g \in w.forward : g < 2 * f
  BY <1>1, InvocationsAssumption DEF ForwardAlike
<1>3. /\ b1_cross_arm(results)
      /\ \A i \in DOMAIN results :
           /\ i \in DOMAIN plan /\ plan \in {<< >>, arms(w)} /\ results[i].arm = plan[i]
           /\ OverheadArm(results[i])
  BY <1>1 DEF RunInv, Shape, Judged, ExitIsEarned, ArmFacts, Succeeded, cross_arm_assertions
<1>4. \A i \in DOMAIN results :
        \E x \in Built(w) : \E level : /\ results[i].arm.case = x.case /\ results[i].arm.mode = x.mode
                                       /\ results[i].arm.name = <<x.case, x.mode, level>>
  <2> TAKE i \in DOMAIN results
  <2>1. i \in DOMAIN arms(w) /\ results[i].arm = arms(w)[i]
    BY <1>3
  <2> QED
    BY <1>1, <2>1, ArmFields
<1>5. results[j].arm.case = "classified"
  BY <1>1, <1>4 DEF Built, Offered
<1>6. PICK i \in ResultsOf(results, "classified", "miss", results[j].arm.level) :
        2 * p50(results[j]) <= p50(results[i])
  BY <1>3, <1>5 DEF b1_cross_arm
<1>7. i \in DOMAIN results /\ results[i].arm.mode = "miss" /\ results[i].arm.case = "classified"
  <2>1. i \in DOMAIN results /\ results[i].arm.name = <<"classified", "miss", results[j].arm.level>>
    BY DEF ResultsOf
  <2>2. PICK x \in Built(w) : \E level : /\ results[i].arm.case = x.case /\ results[i].arm.mode = x.mode
                                         /\ results[i].arm.name = <<x.case, x.mode, level>>
    BY <1>4, <2>1
  <2>3. x.case = "classified" /\ x.mode = "miss"
    BY <2>1, <2>2
  <2> QED
    BY <2>1, <2>2, <2>3
<1>8. ASSUME NEW n \in DOMAIN results, results[n].arm.case = "classified"
      PROVE  /\ IsFiniteSet(results[n].records)
             /\ \A r \in results[n].records : r.lat \in Nat /\ (~r.hit => r.lat \in w.forward)
             /\ RankedLatency(results[n].records, 50, p50(results[n]))
  <2> DEFINE a == results[n].arm
             rs == results[n].records
  <2>1. /\ IsFiniteSet(rs) /\ ok_records(a, rs) = rs /\ rs # {}
        /\ \A r, q \in rs : r.i = q.i => r = q
        /\ \A r \in rs : r.lat \in Nat /\ (~r.hit => r.lat \in w.forward)
    BY <1>3, <1>8 DEF OverheadArm
  <2> HIDE DEF a, rs
  <2>2. RankedLatency(rs, 50, latency_ms(a, rs, 50))
    BY <2>1, LatencyIs
  <2> QED
    BY <2>1, <2>2 DEF p50, a, rs
<1>9. p50(results[i]) \in w.forward
  <2>1. p50(results[i]) \in {r.lat : r \in results[i].records}
    BY <1>7, <1>8 DEF RankedLatency
  <2>2. \A r \in results[i].records : ~r.hit
    BY <1>3, <1>7 DEF OverheadArm
  <2> QED
    BY <1>7, <1>8, <2>1, <2>2
<1>10. p50(results[j]) \in Nat
  <2>1. p50(results[j]) \in {r.lat : r \in results[j].records}
    BY <1>5, <1>8 DEF RankedLatency
  <2> QED
    BY <1>5, <1>8, <2>1
<1> QED
  BY <1>2, <1>5, <1>6, <1>8, <1>9, <1>10, MostlyHit

\* A run of B-1, B-2, B-3 or B-7 that exits with 0 measured the filter: no
\* request of a baseline arm met one that shows itself, every other was
\* classified, a miss arm never from the cache and B-1's hit arm mostly.
THEOREM ArmsDifferIndeed ==
  ASSUME ForwardAlike
  PROVE  Spec => []ArmsDifferInTheFilter
<1>1. ASSUME RunInv PROVE ArmsDifferInTheFilter
  <2> SUFFICES ASSUME NEW s \in {"b1", "b2", "b3", "b7"}, Succeeded(s), NEW j \in DOMAIN results
               PROVE  LET a == results[j].arm
                          rs == results[j].records
                          hidden == a.listener.filter /\ ~a.listener.cfg.emit_headers
                      IN  /\ a.case = "baseline" /\ ~hidden => \A r \in rs : r.decided = None
                          /\ a.case # "baseline" => \A r \in rs : r.decided = "OK"
                          /\ s = "b1" /\ a.mode = "hit" => Share({r \in rs : ~r.hit}, rs, 50)
                          /\ a.mode = "miss" => \A r \in rs : ~r.hit
    BY DEF ArmsDifferInTheFilter
  <2>1. w \in Invocations /\ w.scenario = s /\ Overhead
    BY <1>1 DEF RunInv, Shape, Succeeded, Overhead
  <2>2. /\ \A i \in DOMAIN results : OverheadArm(results[i]) /\ i \in DOMAIN plan /\ results[i].arm = plan[i]
        /\ plan \in {<< >>, arms(w)} /\ \E S : results \in Seq(S)
        /\ Len(results) = Len(plan)
    BY <1>1, <2>1 DEF RunInv, Shape, Judged, ExitIsEarned, ArmFacts, Succeeded
  <2>3. plan = arms(w) /\ j \in DOMAIN arms(w) /\ DOMAIN results = DOMAIN arms(w)
    <3>1. plan = arms(w) /\ j \in DOMAIN arms(w)
      BY <2>2
    <3> QED
      BY <2>1, <2>2, <3>1, ArmsType
  <2>4. w.echo
    <3>1. PICK n \in DOMAIN arms(w) : arms(w)[n].case # "baseline"
      BY <2>1, <2>3, SomeTarget
    <3>2. OverheadArm(results[n]) /\ results[n].arm.case # "baseline"
      BY <2>2, <2>3, <3>1
    <3> QED
      BY <3>2 DEF OverheadArm
  <2>5. OverheadArm(results[j])
    BY <2>2
  <2>6. s = "b1" /\ results[j].arm.mode = "hit" =>
          Share({r \in results[j].records : ~r.hit}, results[j].records, 50)
    BY <1>1, HitArmHits
  <2> QED
    BY <2>4, <2>5, <2>6 DEF OverheadArm
<1> QED
  BY <1>1, RunInvariant, PTL

-----------------------------------------------------------------------------
(* Where the requests of B-4 went.                                         *)

\* A set of prompts that B-4 may send is not empty, and its labels are known.
LEMMA PromptsKnown ==
  ASSUME w \in Invocations, check_leakage(w.prompts, w.anchors, FALSE) = 0
  PROVE  /\ w.prompts # << >>
         /\ \A i \in DOMAIN w.prompts : w.prompts[i].label \in Classes
<1>1. validate_schema(w.prompts)
  BY DEF check_leakage
<1>2. Len(w.prompts) >= MinPrompts /\ MinPrompts \in Nat \ {0}
  BY <1>1, MappingAssumption DEF validate_schema
<1>3. w.prompts # << >>
  BY <1>2
<1> QED
  BY <1>1, <1>3 DEF validate_schema

\* The cluster B-4 infers is the one the request went to.
LEMMA ClusterIsRoute ==
  ASSUME NEW result, RoutedArm(result), w \in Invocations,
         \A c \in DOMAIN w.models : w.models[c] # None /\ w.model_map[w.models[c]] = c,
         NEW r \in result.records
  PROVE  cluster_of(w, r) = r.route
<1>1. r.status = 200 /\ Made(r, result.arm) /\ None \notin {200, 503}
  BY InvocationsAssumption DEF RoutedArm
<1>2. r.route \in Clusters /\ r.model = w.models[r.route]
  BY <1>1 DEF Made
<1>3. DOMAIN w.models = Clusters /\ None \notin Clusters
  BY InvocationsAssumption, NoneAssumption
<1>4. ModelCluster(w, r) = r.route /\ ModelCluster(w, r) # None
  BY <1>2, <1>3 DEF ModelCluster
<1>5. HeaderCluster(r) # None => HeaderCluster(r) = ModelCluster(w, r)
  BY <1>4 DEF RoutedArm, disagreements
<1> QED
  BY <1>4, <1>5 DEF cluster_of

\* With every status OK and every routed label in the table, the label alone
\* names that cluster.
LEMMA LabelNamesCluster ==
  ASSUME NEW result, RoutedArm(result), w.scenario = "b4", w.expect_status = {"OK"},
         Unlisted(result.arm.listener.cfg) = {}, NEW r \in result.records
  PROVE  cluster_for(w, r) = cluster_of(w, r)
<1>1. r.status = 200 /\ r.sc = "OK" /\ Made(r, result.arm) /\ None \notin {200, 503}
  BY InvocationsAssumption DEF RoutedArm
<1>2. r.label \in Labels /\ result.arm.listener.cfg.routes[r.label] # None
  BY <1>1 DEF Made
<1>3. DEFAULT_LABEL_TO_CLUSTER[r.label] # None
  BY <1>2 DEF Unlisted
<1>4. r.label # None
  BY <1>2, NoneAssumption
<1> QED
  BY <1>3, <1>4 DEF cluster_for, cluster_of, HeaderCluster

\* The class a prompt is meant to be of.
LEMMA MeantKnown ==
  ASSUME NEW id \in heldout_ids(w), \A i \in DOMAIN w.prompts : w.prompts[i].label \in Classes
  PROVE  Meant[id] \in Classes
<1> DEFINE i == CHOOSE i \in DOMAIN w.prompts : w.prompts[i].id = id
<1>1. i \in DOMAIN w.prompts
  BY DEF heldout_ids
<1>2. Meant[id] = w.prompts[i].label
  BY DEF Meant
<1> QED
  BY <1>1, <1>2

\* B-4 counts each request at the cluster it went to, and what is computed of
\* its records afterwards counts the same, for every table, set of prompts and
\* classifier, within the limits AttributionIsTrue states.
THEOREM AttributionHolds == Spec => []AttributionIsTrue
<1>1. ASSUME RunInv, ArmsNeedTheCheck PROVE AttributionIsTrue
  <2> SUFFICES
        ASSUME Succeeded("b4"),
               \A c \in DOMAIN w.models : w.models[c] # None /\ w.model_map[w.models[c]] = c,
               NEW j \in DOMAIN results
        PROVE  LET rs == results[j].records
                   score == score_mapping(w, rs, Meant)
               IN  /\ \A r \in rs : cluster_of(w, r) = r.route
                   /\ w.expect_status = {"OK"} /\ Unlisted(results[j].arm.listener.cfg) = {} =>
                        /\ score.correct = routing_correct(w, rs, Meant)
                        /\ [waste |-> score.waste, risk |-> score.risk] = misroutes(w, rs, Meant)
                   /\ w.expect_status = {"OK"} /\ DOMAIN w.says = heldout_ids(w) /\ BestFirst =>
                        parity_disagree(rs, w.says) = {}
    BY DEF AttributionIsTrue
  <2> DEFINE result == results[j]
             rs == result.records
             score == score_mapping(w, rs, Meant)
  <2>1. w \in Invocations /\ w.scenario = "b4"
    BY <1>1 DEF RunInv, Shape, Succeeded
  <2>2. RoutedArm(result) /\ j \in DOMAIN plan
    BY <1>1, <2>1 DEF RunInv, Judged, ExitIsEarned, ArmFacts, Succeeded
  <2>3. plan # << >>
    BY <2>2
  <2>4. /\ w.prompts # << >>
        /\ \A i \in DOMAIN w.prompts : w.prompts[i].label \in Classes
    BY <1>1, <2>1, <2>3, PromptsKnown DEF ArmsNeedTheCheck
  <2>5. \A r \in rs : r.key \in heldout_ids(w)
    BY <2>2, <2>4 DEF RoutedArm
  <2>6. \A r \in rs : Meant[r.key] \in Classes
    BY <2>4, <2>5, MeantKnown
  <2> HIDE DEF result, rs
  <2>7. \A r \in rs : cluster_of(w, r) = r.route
    BY <2>1, <2>2, ClusterIsRoute DEF rs
  <2>8. ASSUME w.expect_status = {"OK"}, Unlisted(result.arm.listener.cfg) = {}
        PROVE  /\ score.correct = routing_correct(w, rs, Meant)
               /\ [waste |-> score.waste, risk |-> score.risk] = misroutes(w, rs, Meant)
    <3>1. \A r \in rs : cluster_for(w, r) = cluster_of(w, r)
      BY <2>1, <2>2, <2>8, LabelNamesCluster DEF rs
    <3>2. \A r \in rs :
            /\ DEFAULT_LABEL_TO_CLUSTER[Meant[r.key]] = w.small <=> Meant[r.key] \in Easy
            /\ DEFAULT_LABEL_TO_CLUSTER[Meant[r.key]] = w.large <=> Meant[r.key] \notin Easy
      BY <2>1, <2>6, MappingAssumption
    <3> DEFINE W == {r \in rs : Meant[r.key] \in Easy /\ cluster_of(w, r) = w.large}
               K == {r \in rs : Meant[r.key] \notin Easy /\ cluster_of(w, r) = w.small}
    <3>3. /\ score.correct = {r \in rs : cluster_for(w, r) = DEFAULT_LABEL_TO_CLUSTER[Meant[r.key]]}
          /\ score.waste = {r \in rs : /\ DEFAULT_LABEL_TO_CLUSTER[Meant[r.key]] = w.small
                                       /\ cluster_for(w, r) = w.large}
          /\ score.risk = {r \in rs : /\ DEFAULT_LABEL_TO_CLUSTER[Meant[r.key]] = w.large
                                      /\ cluster_for(w, r) = w.small}
      BY DEF score_mapping
    <3>4. score.correct = routing_correct(w, rs, Meant)
      BY <3>1, <3>3 DEF routing_correct
    <3>5. score.waste = W /\ score.risk = K
      BY <3>1, <3>2, <3>3
    <3>6. misroutes(w, rs, Meant) = [waste |-> W, risk |-> K]
      BY DEF misroutes
    <3> HIDE DEF score, W, K
    <3> QED
      BY <3>4, <3>5, <3>6
  <2>9. ASSUME w.expect_status = {"OK"}, DOMAIN w.says = heldout_ids(w), BestFirst, NEW r \in rs
        PROVE  r.label = IF w.says[r.key].ranked = << >> THEN None ELSE w.says[r.key].ranked[1].label
    <3>1. r.status = 200 /\ r.sc = "OK" /\ Made(r, result.arm) /\ None \notin {200, 503}
      BY <2>2, <2>9, InvocationsAssumption DEF RoutedArm, rs
    <3>2. r.key \in DOMAIN w.says
      BY <2>5, <2>9
    <3>3. w.says[r.key].ranked # << >> /\ r.label = top_signal(w.says[r.key].ranked).label
      BY <2>1, <3>1, <3>2 DEF Made
    <3> QED
      BY <2>9, <3>2, <3>3 DEF BestFirst
  <2>10. w.expect_status = {"OK"} /\ DOMAIN w.says = heldout_ids(w) /\ BestFirst =>
           parity_disagree(rs, w.says) = {}
    BY <2>9 DEF parity_disagree
  <2> QED
    BY <2>7, <2>8, <2>10 DEF result, rs
<1> QED
  BY <1>1, RunInvariant, CheckComesFirst, PTL

=============================================================================
