---------------------------- MODULE AffinityProofs ----------------------------
(***************************************************************************)
(* Affinity for every frozen set, subsample, order of presentation and     *)
(* number of stops and redos: what is on file is not asked for again, and  *)
(* what is published of it is what was judged.                             *)
(***************************************************************************)
EXTENDS Affinity, TLAPS

-----------------------------------------------------------------------------
(* The inductive invariant.                                                *)

FilesType ==
  /\ gen \in [Prompts -> [Backends -> Seq(Generation)]]
  /\ judged \in [Prompts -> Seq(Judgement)]
  /\ control \in [Prompts -> [Controls -> Seq(Judgement)]]

WorkType ==
  /\ stage \in {"idle", "generate", "judge", "redo_generate", "redo_judge"}
  /\ queue \in [Backends -> SUBSET Prompts]
  /\ todo \in [Kinds -> SUBSET Prompts]
  /\ targets \in SUBSET Prompts
  /\ redos \in Nat

\* What a stage still has to do is not on file, but for what a redo repeats.
NotYet ==
  /\ stage = "generate" => \A b \in Backends : \A p \in queue[b] : gen[p][b] = << >>
  /\ stage = "redo_generate" =>
       /\ \A b \in Backends : \A p \in queue[b] : Len(gen[p][b]) <= redos
       /\ \A p \in Prompts : Len(judged[p]) <= redos
  /\ stage = "judge" =>
       /\ \A p \in todo["primary"] : judged[p] = << >>
       /\ \A c \in Controls : \A p \in todo[c] : control[p][c] = << >>
  /\ stage = "redo_judge" => \A p \in todo["primary"] : Len(judged[p]) <= redos
  /\ stage \in {"redo_generate", "redo_judge"} => redos > 0

\* What is judged has been answered, and a control has a primary judgement.
Answers ==
  stage \in {"judge", "redo_judge"} =>
    /\ \A k \in Kinds : \A p \in todo[k] : \A b \in Backends : gen[p][b] # << >>
    /\ \A p \in todo["position"] : judged[p] # << >> \/ p \in todo["primary"]

\* A record says of answers that are on file what they deserve.
Honest(p, rec) ==
  \A b \in Backends :
    /\ rec.takes[b] \in 1..Len(gen[p][b])
    /\ ~rec.failed => BarOf(b, rec, rec.swapped) = gen[p][b][rec.takes[b]].good

AllHonest ==
  \A p \in Prompts :
    /\ \A i \in 1..Len(judged[p]) : Honest(p, judged[p][i])
    /\ \A c \in Controls : \A i \in 1..Len(control[p][c]) : Honest(p, control[p][c][i])

\* Without a redo the position control is the swap of the one primary.
Swaps ==
  redos = 0 =>
    \A p \in Prompts : control[p]["position"] # << >> =>
      /\ judged[p] # << >>
      /\ Latest(control[p]["position"]).swapped = ~Latest(judged[p]).swapped

RunInv ==
  /\ FilesType /\ WorkType /\ NotYet /\ WorkNotRepeated /\ WorkNotSkipped /\ Answers /\ AllHonest /\ Swaps
  /\ RowsCreditTheRightModel /\ ControlsSwapThePrimary

-----------------------------------------------------------------------------
(* Sequences, and what a judge makes of two answers.                       *)

LEMMA AppendOne ==
  ASSUME NEW T, NEW s \in Seq(T), NEW x \in T
  PROVE  /\ Append(s, x) \in Seq(T) /\ Append(s, x) # << >>
         /\ Len(Append(s, x)) = Len(s) + 1 /\ Len(s) \in Nat
         /\ \A i \in 1..Len(s) : Append(s, x)[i] = s[i]
         /\ Append(s, x)[Len(s) + 1] = x
         /\ Latest(Append(s, x)) = x
  BY DEF Latest, Last

LEMMA LatestOf ==
  ASSUME NEW T, NEW s \in Seq(T), s # << >>
  PROVE  Len(s) \in Nat \ {0} /\ Latest(s) = s[Len(s)] /\ Latest(s) \in T
  BY DEF Latest, Last

LEMMA JudgementsMade ==
  ASSUME FilesType, NEW p \in Prompts, \A b \in Backends : gen[p][b] # << >>,
         NEW sw \in BOOLEAN, NEW rec \in Judgements(p, sw)
  PROVE  /\ rec \in Judgement /\ rec.swapped = sw /\ Honest(p, rec)
<1> DEFINE one == IF sw THEN Latest(gen[p]["large"]).good ELSE Latest(gen[p]["small"]).good
           two == IF sw THEN Latest(gen[p]["small"]).good ELSE Latest(gen[p]["large"]).good
           takes == [b \in Backends |-> Len(gen[p][b])]
<1>1. ASSUME NEW b \in Backends
      PROVE  /\ Len(gen[p][b]) \in Nat \ {0} /\ Latest(gen[p][b]) = gen[p][b][Len(gen[p][b])]
             /\ Latest(gen[p][b]).good \in BOOLEAN
  <2>1. gen[p][b] \in Seq(Generation) /\ gen[p][b] # << >>
    BY <1>1 DEF FilesType
  <2>2. \A g \in Generation : g.good \in BOOLEAN
    BY DEF Generation
  <2> QED
    BY <2>1, <2>2, LatestOf
<1>2. one \in BOOLEAN /\ two \in BOOLEAN /\ takes \in [Backends -> Nat \ {0}]
  BY <1>1 DEF Backends
<1>3. Verdict(p, sw) = [failed |-> FALSE, swapped |-> sw, bar |-> <<one, two>>,
        verdict |-> IF one = two THEN "tie" ELSE IF one THEN "1" ELSE "2", takes |-> takes]
  BY DEF Verdict, Backends
<1> HIDE DEF one, two, takes
<1>4. CASE rec = Verdict(p, sw)
  <2>1. rec \in Judgement /\ rec.swapped = sw /\ rec.takes = takes /\ rec.bar[1] = one /\ rec.bar[2] = two
    BY <1>2, <1>3, <1>4 DEF Judgement
  <2>2. ASSUME NEW b \in Backends
        PROVE  rec.takes[b] \in 1..Len(gen[p][b]) /\ BarOf(b, rec, rec.swapped) = gen[p][b][rec.takes[b]].good
    BY <1>1, <2>1, <2>2 DEF BarOf, Backends, one, two, takes
  <2> QED
    BY <2>1, <2>2 DEF Honest
<1>5. CASE rec = JudgeFailed(p, sw)
  <2>1. rec = [failed |-> TRUE, swapped |-> sw, bar |-> <<FALSE, FALSE>>, verdict |-> None, takes |-> takes]
    BY <1>3, <1>5 DEF JudgeFailed
  <2>2. rec \in Judgement /\ rec.swapped = sw /\ rec.takes = takes /\ rec.failed
    BY <1>2, <2>1 DEF Judgement
  <2>3. ASSUME NEW b \in Backends PROVE rec.takes[b] \in 1..Len(gen[p][b])
    BY <1>1, <2>2, <2>3 DEF takes
  <2> QED
    BY <2>2, <2>3 DEF Honest
<1> QED
  BY <1>4, <1>5 DEF Judgements

-----------------------------------------------------------------------------
(* The steps that leave the files alone.                                   *)

LEMMA InitInv == Init => RunInv
<1> SUFFICES ASSUME Init PROVE RunInv
  OBVIOUS
<1>1. FilesType /\ WorkType
  BY DEF Init, FilesType, WorkType, Nothing
<1>2. /\ \A p \in Prompts : judged[p] = << >> /\ matrix[p] = None
      /\ \A p \in Prompts, b \in Backends : gen[p][b] = << >>
      /\ \A p \in Prompts, c \in Controls : control[p][c] = << >>
      /\ stage = "idle" /\ summary = None /\ redos = 0
  BY DEF Init
<1>3. NotYet /\ Answers /\ WorkNotSkipped
  BY <1>2 DEF NotYet, Answers, WorkNotSkipped
<1>4. WorkNotRepeated
  BY <1>2 DEF WorkNotRepeated
<1>5. AllHonest /\ Swaps
  BY <1>2 DEF AllHonest, Swaps, Controls
<1>6. RowsCreditTheRightModel /\ ControlsSwapThePrimary
  BY <1>2 DEF RowsCreditTheRightModel, ControlsSwapThePrimary
<1> QED
  BY <1>1, <1>3, <1>4, <1>5, <1>6 DEF RunInv

LEMMA HonestKept ==
  ASSUME AllHonest, UNCHANGED <<gen, judged, control>>
  PROVE  AllHonest'
  BY DEF AllHonest, Honest

LEMMA FilesKept ==
  ASSUME RunInv, UNCHANGED <<files, report, redos>>
  PROVE  /\ FilesType' /\ WorkNotRepeated' /\ AllHonest' /\ Swaps'
         /\ RowsCreditTheRightModel' /\ ControlsSwapThePrimary'
<1> USE DEF files, report
<1>1. FilesType'
  BY DEF RunInv, FilesType
<1>2. WorkNotRepeated'
  BY DEF RunInv, WorkNotRepeated
<1>3. AllHonest'
  BY HonestKept DEF RunInv
<1>4. Swaps'
  BY DEF RunInv, Swaps
<1>5. RowsCreditTheRightModel' /\ ControlsSwapThePrimary'
  BY DEF RunInv, RowsCreditTheRightModel, ControlsSwapThePrimary
<1> QED
  BY <1>1, <1>2, <1>3, <1>4, <1>5

\* Starting a stage, ending it, being stopped in it.
LEMMA StageSteps ==
  ASSUME RunInv,
         \/ \E S \in Slices : StartGenerate(S) \/ StartJudge(S)
         \/ EndGenerate \/ EndJudge \/ RedoGenerated \/ Stop
         \/ UNCHANGED vars
  PROVE  RunInv'
<1> USE DEF RunInv
<1>1. UNCHANGED <<files, report, redos>>
  BY DEF StartGenerate, StartJudge, EndGenerate, EndJudge, RedoGenerated, Stop, vars
<1>2. UNCHANGED <<gen, judged, control, redos>>
  BY <1>1 DEF files
<1>3. SUFFICES (WorkType /\ NotYet /\ Answers /\ WorkNotSkipped)'
  BY <1>1, FilesKept
<1>4. ASSUME NEW S \in Slices, StartGenerate(S) PROVE (WorkType /\ NotYet /\ Answers /\ WorkNotSkipped)'
  <2>1. stage' = "generate" /\ targets' = S /\ S \subseteq Prompts /\ UNCHANGED todo
    BY <1>4 DEF StartGenerate, Slices
  <2>2. queue' = [b \in Backends |-> S \ {p \in Prompts : gen[p][b] # << >>}]
    BY <1>4 DEF StartGenerate, Pending, Asked
  <2>3. WorkType'
    BY <1>2, <2>1, <2>2 DEF WorkType
  <2>4. NotYet' /\ Answers'
    BY <1>2, <2>1, <2>2 DEF NotYet, Answers
  <2>5. WorkNotSkipped'
    BY <1>2, <2>1, <2>2 DEF WorkNotSkipped, Asked
  <2> QED
    BY <2>3, <2>4, <2>5
<1>5. ASSUME NEW S \in Slices, StartJudge(S) PROVE (WorkType /\ NotYet /\ Answers /\ WorkNotSkipped)'
  <2>1. stage' = "judge" /\ targets' = S /\ S \in SUBSET Prompts /\ UNCHANGED queue
    BY <1>5 DEF StartJudge, Slices
  <2>2. Subsample[S] \subseteq S
    BY <2>1, AffinityAssumption
  <2>3. /\ todo' \in [Kinds -> SUBSET Prompts]
        /\ todo'["primary"] = {p \in S \ {q \in Prompts : judged[q] # << >>} : Answered(p)}
        /\ \A c \in Controls :
             todo'[c] = {p \in Subsample[S] \ {q \in Prompts : control[q][c] # << >>} : Answered(p)}
    BY <1>5, <2>1, <2>2 DEF StartJudge, Pending, Kinds, Controls
  <2>4. WorkType'
    BY <1>2, <2>1, <2>3 DEF WorkType
  <2>5. NotYet'
    BY <1>2, <2>1, <2>2, <2>3 DEF NotYet
  <2>6. Answers'
    BY <1>2, <2>1, <2>2, <2>3 DEF Answers, Answered, Asked, Kinds, Controls
  <2>7. WorkNotSkipped'
    <3>1. \A q \in Prompts : Answered(q)' <=> Answered(q)
      BY <1>2 DEF Answered, Asked
    <3>2. \A q \in S : Answered(q) => q \in todo'["primary"] \/ judged[q] # << >>
      BY <2>1, <2>3
    <3>3. \A c \in Controls : \A q \in Subsample[S] : Answered(q) => q \in todo'[c] \/ control[q][c] # << >>
      BY <2>1, <2>2, <2>3
    <3> QED
      BY <1>2, <2>1, <2>2, <3>1, <3>2, <3>3 DEF WorkNotSkipped
  <2> QED
    BY <2>4, <2>5, <2>6, <2>7
<1>6. CASE EndGenerate \/ EndJudge
  <2>1. stage' = "idle" /\ targets' = {} /\ UNCHANGED <<queue, todo>>
    BY <1>6 DEF EndGenerate, EndJudge
  <2> QED
    BY <1>2, <2>1 DEF WorkType, NotYet, Answers, WorkNotSkipped
<1>7. CASE RedoGenerated
  <2>1. stage = "redo_generate" /\ stage' = "redo_judge" /\ UNCHANGED <<queue, targets>>
    BY <1>7 DEF RedoGenerated, Generated
  <2>2. /\ todo' \in [Kinds -> SUBSET Prompts]
        /\ todo'["primary"] = {p \in targets : Answered(p)} /\ \A c \in Controls : todo'[c] = {}
    BY <1>7 DEF RedoGenerated, Nothing, Kinds, Controls, WorkType
  <2>3. WorkType'
    BY <1>2, <2>1, <2>2 DEF WorkType
  <2>4. NotYet'
    BY <1>2, <2>1, <2>2 DEF NotYet, WorkType
  <2>5. Answers'
    BY <1>2, <2>1, <2>2 DEF Answers, Answered, Asked, Kinds, Controls
  <2>6. WorkNotSkipped'
    BY <2>1 DEF WorkNotSkipped
  <2> QED
    BY <2>3, <2>4, <2>5, <2>6
<1>8. CASE Stop
  <2>1. stage' = "idle" /\ queue' = [b \in Backends |-> {}] /\ todo' = Nothing /\ targets' = {}
    BY <1>8 DEF Stop
  <2> QED
    BY <1>2, <2>1 DEF WorkType, NotYet, Answers, WorkNotSkipped, Nothing
<1>9. CASE UNCHANGED vars
  <2>1. UNCHANGED <<stage, queue, todo, targets>>
    BY <1>9 DEF vars, work
  <2>2. WorkType'
    BY <1>2, <2>1 DEF WorkType
  <2>3. NotYet'
    BY <1>2, <2>1 DEF NotYet
  <2>4. Answers'
    BY <1>2, <2>1 DEF Answers
  <2>5. WorkNotSkipped'
    BY <1>2, <2>1 DEF WorkNotSkipped, Answered, Asked
  <2> QED
    BY <2>2, <2>3, <2>4, <2>5
<1> QED
  BY <1>4, <1>5, <1>6, <1>7, <1>8, <1>9

\* redo_truncated allows one more record of each prompt.
LEMMA StartRedoKeeps ==
  ASSUME RunInv, NEW S \in (SUBSET Redoable) \ {{}}, StartRedo(S)
  PROVE  RunInv'
<1> USE DEF RunInv
<1>1. /\ stage' = "redo_generate" /\ redos' = redos + 1 /\ targets' = S
      /\ queue' = [b \in Backends |-> S] /\ S \subseteq Prompts /\ redos \in Nat
      /\ UNCHANGED <<gen, judged, control, matrix, summary, todo>>
  BY AffinityAssumption DEF StartRedo, files, report, WorkType
<1>2. WorkType'
  BY <1>1 DEF WorkType
<1>3. \A p \in Prompts : Len(judged[p]) \in Nat /\ \A b \in Backends : Len(gen[p][b]) \in Nat
  BY DEF FilesType
<1>4. NotYet' /\ Answers' /\ WorkNotSkipped'
  BY <1>1, <1>3 DEF NotYet, Answers, WorkNotRepeated, WorkNotSkipped
<1>5. WorkNotRepeated'
  BY <1>1, <1>3 DEF WorkNotRepeated
<1>6. FilesType'
  BY <1>1 DEF FilesType
<1>7. AllHonest'
  BY <1>1, HonestKept
<1>8. Swaps' /\ ControlsSwapThePrimary'
  BY <1>1 DEF Swaps, ControlsSwapThePrimary
<1>9. RowsCreditTheRightModel'
  BY <1>1 DEF RowsCreditTheRightModel
<1> QED
  BY <1>2, <1>4, <1>5, <1>6, <1>7, <1>8, <1>9

-----------------------------------------------------------------------------
(* The steps that append a record.                                         *)

\* Earlier records still say of the answers what they deserve when another
\* answer is appended.
LEMMA HonestOfMore ==
  ASSUME FilesType, AllHonest, UNCHANGED <<judged, control>>,
         \A p \in Prompts, b \in Backends :
           /\ Len(gen'[p][b]) \in Nat /\ Len(gen'[p][b]) >= Len(gen[p][b])
           /\ \A i \in 1..Len(gen[p][b]) : gen'[p][b][i] = gen[p][b][i]
  PROVE  AllHonest'
<1>1. \A p \in Prompts, b \in Backends : Len(gen[p][b]) \in Nat
  BY DEF FilesType
<1>2. ASSUME NEW p \in Prompts, NEW rec, Honest(p, rec) PROVE Honest(p, rec)'
  BY <1>1, <1>2 DEF Honest
<1>3. AllHonest' <=> \A p \in Prompts :
        /\ \A i \in 1..Len(judged[p]) : Honest(p, judged[p][i])'
        /\ \A c \in Controls : \A i \in 1..Len(control[p][c]) : Honest(p, control[p][c][i])'
  BY DEF AllHonest, Honest
<1> QED
  BY <1>2, <1>3 DEF AllHonest

LEMMA GenerateOneKeeps ==
  ASSUME RunInv, NEW b \in Backends, GenerateOne(b)
  PROVE  RunInv'
<1> USE DEF RunInv
<1>1. PICK p \in queue[b], rec \in Generation :
        /\ gen' = [gen EXCEPT ![p][b] = Append(@, rec)]
        /\ queue' = [queue EXCEPT ![b] = @ \ {p}]
  BY DEF GenerateOne
<1>2. /\ stage \in {"generate", "redo_generate"} /\ redos \in Nat
      /\ UNCHANGED <<judged, control, stage, todo, targets, matrix, summary, redos>>
  BY DEF GenerateOne, report, WorkType
<1>3. p \in Prompts /\ queue[b] \subseteq Prompts /\ gen[p][b] \in Seq(Generation)
  BY DEF WorkType, FilesType
<1> DEFINE longer == Append(gen[p][b], rec)
<1>4. /\ longer \in Seq(Generation) /\ Len(longer) = Len(gen[p][b]) + 1 /\ Len(gen[p][b]) \in Nat
      /\ \A i \in 1..Len(gen[p][b]) : longer[i] = gen[p][b][i]
  BY <1>3, AppendOne
<1>5. /\ gen'[p][b] = longer
      /\ \A q \in Prompts, d \in Backends : q # p \/ d # b => gen'[q][d] = gen[q][d]
  BY <1>1, <1>3 DEF FilesType
<1>6. gen' \in [Prompts -> [Backends -> Seq(Generation)]]
  BY <1>1, <1>3, <1>4 DEF FilesType
<1> HIDE DEF longer
<1>7. FilesType'
  BY <1>2, <1>6 DEF FilesType
<1>8. queue' \in [Backends -> SUBSET Prompts] /\ p \notin queue'[b]
      /\ \A d \in Backends : queue'[d] \subseteq queue[d]
  BY <1>1 DEF WorkType
<1>9. WorkType'
  BY <1>2, <1>8 DEF WorkType
<1>10. \A q \in Prompts, d \in Backends : Len(gen[q][d]) \in Nat
  BY DEF FilesType
<1>11. NotYet' /\ Answers'
  <2>1. \A d \in Backends : \A q \in queue'[d] : q \in Prompts /\ q \in queue[d] /\ gen'[q][d] = gen[q][d]
    BY <1>5, <1>8 DEF WorkType
  <2> QED
    BY <1>2, <2>1 DEF NotYet, Answers
<1>11a. WorkNotSkipped'
  <2>1. \A q \in Prompts, d \in Backends : Asked(q, d) => Asked(q, d)'
    BY <1>4, <1>5 DEF Asked
  <2>2. Asked(p, b)'
    BY <1>3, <1>4, <1>5, AppendOne DEF Asked, longer
  <2>3. \A q \in targets, d \in Backends : q \in queue[d] => q \in queue'[d] \/ (q = p /\ d = b)
    BY <1>1 DEF WorkType
  <2> QED
    BY <1>2, <2>1, <2>2, <2>3 DEF WorkNotSkipped, WorkType
<1>12. Len(gen[p][b]) <= redos
  BY <1>2, <1>10, <1>3 DEF NotYet
<1>13. WorkNotRepeated'
  <2>1. \A q \in Prompts, d \in Backends : Len(gen'[q][d]) <= 1 + redos
    BY <1>2, <1>4, <1>5, <1>12 DEF WorkNotRepeated
  <2> QED
    BY <1>2, <2>1 DEF WorkNotRepeated
<1>14. AllHonest'
  <2>1. \A q \in Prompts, d \in Backends :
          /\ Len(gen'[q][d]) \in Nat /\ Len(gen'[q][d]) >= Len(gen[q][d])
          /\ \A i \in 1..Len(gen[q][d]) : gen'[q][d][i] = gen[q][d][i]
    BY <1>4, <1>5, <1>10
  <2> QED
    BY <1>2, <2>1, HonestOfMore
<1>15. Swaps' /\ RowsCreditTheRightModel' /\ ControlsSwapThePrimary'
  BY <1>2 DEF Swaps, RowsCreditTheRightModel, ControlsSwapThePrimary
<1> QED
  BY <1>7, <1>9, <1>11, <1>11a, <1>13, <1>14, <1>15

LEMMA HonestRecords ==
  ASSUME UNCHANGED gen,
         \A p \in Prompts : \A i \in 1..Len(judged'[p]) : Honest(p, judged'[p][i]),
         \A p \in Prompts, c \in Controls :
           \A i \in 1..Len(control'[p][c]) : Honest(p, control'[p][c][i])
  PROVE  AllHonest'
<1>1. \A p \in Prompts : \A i \in 1..Len(judged'[p]) : Honest(p, judged[p][i])'
  BY DEF Honest
<1>2. \A p \in Prompts, c \in Controls :
        \A i \in 1..Len(control'[p][c]) : Honest(p, control[p][c][i])'
  BY DEF Honest
<1> QED
  BY <1>1, <1>2 DEF AllHonest

LEMMA JudgePrimaryKeeps ==
  ASSUME RunInv, JudgePrimary
  PROVE  RunInv'
<1> USE DEF RunInv
<1> DEFINE order(p) == OrderOf(p, IF stage = "judge" THEN "primary" ELSE "redo")
<1>1. PICK p \in todo["primary"] : \E rec \in Judgements(p, order(p)) :
        /\ judged' = [judged EXCEPT ![p] = Append(@, rec)]
        /\ todo' = [todo EXCEPT !["primary"] = @ \ {p}]
  BY DEF JudgePrimary
<1>2. /\ stage \in {"judge", "redo_judge"} /\ redos \in Nat
      /\ UNCHANGED <<gen, control, stage, queue, targets, matrix, summary, redos>>
  BY DEF JudgePrimary, report, WorkType
<1>3. p \in Prompts /\ judged[p] \in Seq(Judgement) /\ \A b \in Backends : gen[p][b] # << >>
  BY <1>2 DEF WorkType, FilesType, Answers, Kinds
<1>4. order(p) \in BOOLEAN
  BY <1>2, <1>3, AffinityAssumption DEF OrderOf
<1> HIDE DEF order
<1>5. PICK rec \in Judgements(p, order(p)) : judged' = [judged EXCEPT ![p] = Append(@, rec)]
  BY <1>1
<1>6. rec \in Judgement /\ Honest(p, rec)
  BY <1>3, <1>4, JudgementsMade
<1> DEFINE longer == Append(judged[p], rec)
<1>7. /\ longer \in Seq(Judgement) /\ longer # << >>
      /\ Len(longer) = Len(judged[p]) + 1 /\ Len(judged[p]) \in Nat
      /\ \A i \in 1..Len(judged[p]) : longer[i] = judged[p][i]
      /\ longer[Len(judged[p]) + 1] = rec
  BY <1>3, <1>6, AppendOne
<1>8. judged'[p] = longer /\ \A q \in Prompts : q # p => judged'[q] = judged[q]
  BY <1>3, <1>5 DEF FilesType
<1>9. judged' \in [Prompts -> Seq(Judgement)]
  BY <1>3, <1>5, <1>7 DEF FilesType
<1> HIDE DEF longer
<1>10. FilesType'
  BY <1>2, <1>9 DEF FilesType
<1>11. /\ todo' \in [Kinds -> SUBSET Prompts]
       /\ todo'["primary"] = todo["primary"] \ {p} /\ \A c \in Controls : todo'[c] = todo[c]
  BY <1>1 DEF WorkType, Kinds, Controls
<1>12. WorkType'
  BY <1>2, <1>11 DEF WorkType
<1>13. NotYet'
  <2>1. \A q \in todo'["primary"] : q \in todo["primary"] /\ judged'[q] = judged[q]
    BY <1>8, <1>11 DEF WorkType, Kinds
  <2> QED
    BY <1>2, <1>11, <2>1 DEF NotYet
<1>14. Answers'
  <2>1. \A k \in Kinds : todo'[k] \subseteq todo[k]
    BY <1>11 DEF Kinds
  <2>2. \A q \in todo["position"] : judged'[q] # << >> \/ q \in todo'["primary"]
    <3>1. \A q \in todo["position"] : q \in Prompts /\ (judged[q] # << >> \/ q \in todo["primary"])
      BY <1>2 DEF Answers, WorkType, Kinds, Controls
    <3> QED
      BY <1>7, <1>8, <1>11, <3>1
  <2> QED
    BY <1>2, <1>11, <2>1, <2>2 DEF Answers, Controls
<1>14a. WorkNotSkipped'
  <2>1. \A q \in Prompts : Answered(q)' <=> Answered(q)
    BY <1>2 DEF Answered, Asked
  <2>2. \A q \in targets : judged[q] # << >> => judged'[q] # << >>
    BY <1>7, <1>8 DEF WorkType
  <2>3. \A q \in targets : q \in todo["primary"] => q \in todo'["primary"] \/ judged'[q] # << >>
    BY <1>7, <1>8, <1>11
  <2>4. \A q \in targets : Answered(q) /\ stage = "judge" => q \in todo["primary"] \/ judged[q] # << >>
    BY DEF WorkNotSkipped
  <2>5. \A c \in Controls : \A q \in Subsample[targets] :
          Answered(q) /\ stage = "judge" => q \in todo'[c] \/ control[q][c] # << >>
    BY <1>11 DEF WorkNotSkipped
  <2>6. targets \subseteq Prompts /\ Subsample[targets] \subseteq Prompts
    BY AffinityAssumption DEF WorkType
  <2> QED
    BY <1>2, <2>1, <2>2, <2>3, <2>4, <2>5, <2>6 DEF WorkNotSkipped
<1>15. WorkNotRepeated'
  <2>1. Len(judged[p]) <= redos
    BY <1>2, <1>3 DEF NotYet
  <2>2. \A q \in Prompts : Len(judged'[q]) <= 1 + redos
    BY <1>2, <1>7, <1>8, <2>1 DEF WorkNotRepeated
  <2> QED
    BY <1>2, <2>2 DEF WorkNotRepeated
<1>16. AllHonest'
  <2>1. ASSUME NEW q \in Prompts, NEW i \in 1..Len(judged'[q]) PROVE Honest(q, judged'[q][i])
    <3>1. CASE q # p
      BY <1>8, <2>1, <3>1 DEF AllHonest
    <3>2. CASE q = p /\ i = Len(judged[p]) + 1
      BY <1>6, <1>7, <1>8, <3>2
    <3>3. CASE q = p /\ i # Len(judged[p]) + 1
      <4>1. i \in 1..Len(judged[p]) /\ judged'[q][i] = judged[q][i]
        BY <1>7, <1>8, <2>1, <3>3
      <4> QED
        BY <4>1, <3>3 DEF AllHonest
    <3> QED
      BY <3>1, <3>2, <3>3
  <2>2. \A q \in Prompts, c \in Controls : \A i \in 1..Len(control'[q][c]) : Honest(q, control'[q][c][i])
    BY <1>2 DEF AllHonest
  <2> QED
    BY <1>2, <2>1, <2>2, HonestRecords
<1>17. Swaps'
  <2>1. redos = 0 => judged[p] = << >>
    BY <1>2, <1>3 DEF NotYet
  <2>2. redos = 0 => control[p]["position"] = << >>
    BY <1>3, <2>1 DEF Swaps
  <2> QED
    BY <1>2, <1>8, <2>2 DEF Swaps
<1>18. RowsCreditTheRightModel' /\ ControlsSwapThePrimary'
  BY <1>2 DEF RowsCreditTheRightModel, ControlsSwapThePrimary
<1> QED
  BY <1>10, <1>12, <1>13, <1>14, <1>14a, <1>15, <1>16, <1>17, <1>18

LEMMA JudgeControlKeeps ==
  ASSUME RunInv, JudgeControl
  PROVE  RunInv'
<1> USE DEF RunInv
<1> DEFINE kindOf(p) == IF p \in todo["position"] THEN "position" ELSE "interjudge"
<1>1. PICK p \in todo["position"] \cup todo["interjudge"] :
        \E rec \in Judgements(p, OrderOf(p, kindOf(p))) :
          /\ control' = [control EXCEPT ![p][kindOf(p)] = Append(@, rec)]
          /\ todo' = [todo EXCEPT ![kindOf(p)] = @ \ {p}]
  BY DEF JudgeControl
<1> DEFINE c == kindOf(p)
<1>2. /\ stage = "judge" /\ todo["primary"] = {} /\ redos \in Nat
      /\ UNCHANGED <<gen, judged, stage, queue, targets, matrix, summary, redos>>
  BY DEF JudgeControl, report, WorkType
<1>3. c \in Controls /\ p \in todo[c] /\ (c = "position" \/ c = "interjudge")
  BY <1>1 DEF Controls
<1> HIDE DEF kindOf
<1>4. /\ p \in Prompts /\ control[p][c] \in Seq(Judgement) /\ control[p][c] = << >>
      /\ \A b \in Backends : gen[p][b] # << >>
  BY <1>2, <1>3 DEF WorkType, FilesType, Answers, NotYet, Kinds
<1>5. judged[p] # << >> => Latest(judged[p]) \in Judgement
  BY <1>4, LatestOf DEF FilesType
<1>6. judged[p] = << >> => Latest(judged[p]) = None
  BY DEF Latest
<1>7. Latest(judged[p]) # None => Latest(judged[p]).swapped \in BOOLEAN
  BY <1>5, <1>6 DEF Judgement
<1>8. OrderOf(p, c) \in BOOLEAN
  BY <1>3, <1>7 DEF OrderOf
<1>9. PICK rec \in Judgements(p, OrderOf(p, c)) : control' = [control EXCEPT ![p][c] = Append(@, rec)]
  BY <1>1
<1>10. rec \in Judgement /\ Honest(p, rec) /\ rec.swapped = OrderOf(p, c)
  BY <1>4, <1>8, JudgementsMade
<1> DEFINE longer == Append(control[p][c], rec)
<1>11. longer \in Seq(Judgement) /\ longer # << >> /\ Len(longer) = 1 /\ longer[1] = rec /\ Latest(longer) = rec
  <2>1. Len(control[p][c]) = 0
    BY <1>4
  <2>2. /\ longer \in Seq(Judgement) /\ longer # << >> /\ Latest(longer) = rec
        /\ Len(longer) = Len(control[p][c]) + 1 /\ longer[Len(control[p][c]) + 1] = rec
    <3>1. control[p][c] \in Seq(Judgement) /\ rec \in Judgement
      BY <1>4, <1>10
    <3> QED
      BY <3>1, AppendOne
  <2> QED
    BY <2>1, <2>2
<1>12. /\ control'[p][c] = longer
       /\ \A q \in Prompts, d \in Controls : q # p \/ d # c => control'[q][d] = control[q][d]
  BY <1>3, <1>4, <1>9 DEF FilesType
<1>13. control' \in [Prompts -> [Controls -> Seq(Judgement)]]
  BY <1>3, <1>4, <1>9, <1>11 DEF FilesType
<1> HIDE DEF longer
<1>14. FilesType'
  BY <1>2, <1>13 DEF FilesType
<1>15. /\ todo' \in [Kinds -> SUBSET Prompts] /\ p \notin todo'[c]
       /\ \A k \in Kinds : todo'[k] \subseteq todo[k]
  BY <1>1, <1>3 DEF WorkType, Kinds, Controls
<1>16. WorkType'
  BY <1>2, <1>15 DEF WorkType
<1>17. NotYet'
  <2>1. \A q \in todo'["primary"] : judged[q] = << >>
    BY <1>2, <1>15 DEF Kinds
  <2>2. ASSUME NEW d \in Controls, NEW q \in todo'[d] PROVE control'[q][d] = << >>
    <3>1. q \in todo[d] /\ q \in Prompts /\ (q # p \/ d # c)
      BY <1>15, <2>2 DEF Kinds, WorkType
    <3> QED
      BY <1>2, <1>12, <3>1 DEF NotYet
  <2> QED
    BY <1>2, <2>1, <2>2 DEF NotYet
<1>18. Answers'
  <2>1. \A q \in todo["position"] : judged[q] # << >>
    BY <1>2 DEF Answers
  <2>2. \A k \in Kinds : \A q \in todo[k] : \A b \in Backends : gen[q][b] # << >>
    BY <1>2 DEF Answers
  <2> QED
    BY <1>2, <1>15, <2>1, <2>2 DEF Answers, Kinds, Controls
<1>18a. WorkNotSkipped'
  <2>1. \A q \in Prompts : Answered(q)' <=> Answered(q)
    BY <1>2 DEF Answered, Asked
  <2>2. todo'["primary"] = todo["primary"]
    BY <1>2, <1>15 DEF Kinds
  <2>3. ASSUME NEW d \in Controls, NEW q \in Prompts, q \in todo[d] \/ control[q][d] # << >>
        PROVE  q \in todo'[d] \/ control'[q][d] # << >>
    <3>1. CASE q = p /\ d = c
      BY <1>11, <1>12, <3>1
    <3>2. CASE q # p \/ d # c
      <4>1. control'[q][d] = control[q][d]
        BY <1>12, <3>2
      <4>2. q \in todo[d] => q \in todo'[d]
        BY <1>1, <1>3, <3>2 DEF WorkType, Kinds, Controls, c
      <4> QED
        BY <2>3, <4>1, <4>2
    <3> QED
      BY <3>1, <3>2
  <2>4. targets \subseteq Prompts /\ Subsample[targets] \subseteq Prompts
    BY AffinityAssumption DEF WorkType
  <2> QED
    BY <1>2, <2>1, <2>2, <2>3, <2>4 DEF WorkNotSkipped
<1>19. WorkNotRepeated'
  <2>1. \A q \in Prompts, d \in Controls : Len(control'[q][d]) <= 1
    <3>1. control'[p][c] = longer /\ Len(longer) <= 1
      <4>1. Len(longer) \in {0, 1}
        BY <1>11
      <4>2. \A n \in {0, 1} : n <= 1
        OBVIOUS
      <4> QED
        BY <1>12, <4>1, <4>2
    <3>2. \A q \in Prompts, d \in Controls : Len(control[q][d]) <= 1
      BY DEF WorkNotRepeated
    <3>3. ASSUME NEW q \in Prompts, NEW d \in Controls PROVE Len(control'[q][d]) <= 1
      <4>1. CASE q # p \/ d # c
        <5>1. control'[q][d] = control[q][d]
          BY <1>12, <4>1
        <5> QED
          BY <3>2, <5>1
      <4>2. CASE q = p /\ d = c
        <5>1. control'[q][d] = longer
          BY <3>1, <4>2
        <5> QED
          BY <3>1, <5>1
      <4> QED
        BY <4>1, <4>2
    <3> QED
      BY <3>3
  <2> QED
    BY <1>2, <2>1 DEF WorkNotRepeated
<1>20. AllHonest'
  <2>1. ASSUME NEW q \in Prompts, NEW d \in Controls, NEW i \in 1..Len(control'[q][d])
        PROVE  Honest(q, control'[q][d][i])
    <3>1. CASE q # p \/ d # c
      BY <1>12, <2>1, <3>1 DEF AllHonest
    <3>2. CASE q = p /\ d = c
      BY <1>10, <1>11, <1>12, <2>1, <3>2
    <3> QED
      BY <3>1, <3>2
  <2>2. \A q \in Prompts : \A i \in 1..Len(judged[q]) : Honest(q, judged[q][i])
    BY DEF AllHonest
  <2> QED
    BY <1>2, <2>1, <2>2, HonestRecords
<1>21. Swaps'
  <2>1. CASE c = "position"
    <3>1. judged[p] # << >> /\ Latest(judged[p]) # None
      BY <1>2, <1>3, <1>5, <2>1, AffinityAssumption DEF Answers
    <3>2. rec.swapped = ~Latest(judged[p]).swapped
      BY <1>7, <1>10, <2>1, <3>1 DEF OrderOf
    <3> QED
      BY <1>2, <1>11, <1>12, <2>1, <3>1, <3>2 DEF Swaps, Controls
  <2>2. CASE c = "interjudge"
    BY <1>2, <1>12, <2>2 DEF Swaps, Controls
  <2> QED
    BY <1>3, <2>1, <2>2
<1>22. RowsCreditTheRightModel' /\ ControlsSwapThePrimary'
  BY <1>2 DEF RowsCreditTheRightModel, ControlsSwapThePrimary
<1> QED
  BY <1>14, <1>16, <1>17, <1>18, <1>18a, <1>19, <1>20, <1>21, <1>22

-----------------------------------------------------------------------------
(* The matrix.                                                             *)

\* What the rows and the summary are made of.
LEMMA RowIsHonest ==
  ASSUME FilesType, AllHonest, NEW p \in Prompts, Row(p) # None
  PROVE  Row(p).ok = Row(p).judgedGood
<1> DEFINE j == Latest(judged[p])
<1>1. j # None /\ ~j.failed
  BY DEF Row
<1>2. judged[p] \in Seq(Judgement) /\ judged[p] # << >>
  BY <1>1 DEF FilesType, Latest
<1>3. Len(judged[p]) \in Nat \ {0} /\ j = judged[p][Len(judged[p])]
  BY <1>2, LatestOf
<1> HIDE DEF j
<1>4. Honest(p, j)
  BY <1>3 DEF AllHonest
<1>5. \A b \in Backends : BarOf(b, j, j.swapped) = gen[p][b][j.takes[b]].good
  BY <1>1, <1>4 DEF Honest
<1>6. /\ Row(p).ok = [b \in Backends |-> BarOf(b, j, j.swapped)]
      /\ Row(p).judgedGood = [b \in Backends |-> gen[p][b][j.takes[b]].good]
  BY DEF Row, OrderRead, j
<1> QED
  BY <1>5, <1>6

\* A control that was compared and the primary it was compared with.
LEMMA ComparedPair ==
  ASSUME FilesType, AllHonest, WorkNotRepeated, Swaps, redos = 0, NEW p \in Compared
  PROVE  LET j == Latest(judged[p])
             c == Latest(control[p]["position"])
         IN  /\ c.swapped = ~j.swapped /\ c.takes = j.takes
             /\ \A b \in Backends : BarOf(b, j, j.swapped) = BarOf(b, c, ~j.swapped)
<1> DEFINE j == Latest(judged[p])
           c == Latest(control[p]["position"])
<1>1. p \in Prompts /\ c # None /\ ~c.failed /\ judged[p] # << >> /\ ~j.failed
  BY DEF Compared
<1>2. control[p]["position"] # << >>
  BY <1>1 DEF Latest
<1>3. /\ Len(judged[p]) \in Nat \ {0} /\ j = judged[p][Len(judged[p])] /\ j \in Judgement
      /\ Len(control[p]["position"]) \in Nat \ {0}
      /\ c = control[p]["position"][Len(control[p]["position"])] /\ c \in Judgement
  BY <1>1, <1>2, LatestOf DEF FilesType, Controls
<1>4. c.swapped = ~j.swapped
  BY <1>1, <1>2 DEF Swaps
<1> HIDE DEF j, c
<1>5. Honest(p, j) /\ Honest(p, c)
  BY <1>1, <1>3 DEF AllHonest, Controls
<1>6. \A b \in Backends : Len(gen[p][b]) \in Nat /\ Len(gen[p][b]) <= 1
  BY <1>1 DEF FilesType, WorkNotRepeated
<1>7. \A b \in Backends : j.takes[b] = 1 /\ c.takes[b] = 1
  BY <1>5, <1>6 DEF Honest
<1>8. j.takes = c.takes
  BY <1>3, <1>7 DEF Judgement
<1>9. \A b \in Backends : BarOf(b, j, j.swapped) = BarOf(b, c, ~j.swapped)
  BY <1>1, <1>4, <1>5, <1>7 DEF Honest
<1> QED
  BY <1>4, <1>8, <1>9 DEF j, c

LEMMA MatrixKeeps ==
  ASSUME RunInv, Matrix
  PROVE  RunInv'
<1> USE DEF RunInv
<1>1. UNCHANGED <<gen, judged, control, stage, queue, todo, targets, redos>>
  BY DEF Matrix, files, work
<1>2. FilesType' /\ WorkType'
  BY <1>1 DEF FilesType, WorkType
<1>3. NotYet' /\ Answers'
  BY <1>1 DEF NotYet, Answers
<1>4. WorkNotRepeated' /\ WorkNotSkipped' /\ Swaps'
  BY <1>1 DEF WorkNotRepeated, WorkNotSkipped, Answered, Asked, Swaps
<1>5. AllHonest'
  BY <1>1, HonestKept
<1>6. RowsCreditTheRightModel'
  <2>1. \A p \in Prompts : matrix'[p] = Row(p)
    BY DEF Matrix
  <2> QED
    BY <2>1, RowIsHonest DEF RowsCreditTheRightModel
<1>7. ControlsSwapThePrimary'
  <2> SUFFICES ASSUME redos = 0
               PROVE  /\ \A pair \in summary'.controls.pairs :
                           pair[2].swapped = ~pair[1].swapped /\ pair[2].takes = pair[1].takes
                      /\ summary'.controls.barFlips = {}
    BY <1>1 DEF ControlsSwapThePrimary
  <2>1. summary'.controls = ControlSummary
    BY DEF Matrix
  <2>2. ControlSummary.pairs = {<<Latest(judged[p]), Latest(control[p]["position"])>> : p \in Compared}
    BY DEF ControlSummary
  <2>3. ControlSummary.barFlips = {p \in Compared : \E b \in Backends :
           BarOf(b, Latest(judged[p]), Latest(judged[p]).swapped)
           # BarOf(b, Latest(control[p]["position"]), ~Latest(judged[p]).swapped)}
    BY DEF ControlSummary
  <2>4. \A p \in Compared :
          /\ Latest(control[p]["position"]).swapped = ~Latest(judged[p]).swapped
          /\ Latest(control[p]["position"]).takes = Latest(judged[p]).takes
          /\ \A b \in Backends : BarOf(b, Latest(judged[p]), Latest(judged[p]).swapped)
                                 = BarOf(b, Latest(control[p]["position"]), ~Latest(judged[p]).swapped)
    BY ComparedPair
  <2>5. ControlSummary.barFlips = {}
    BY <2>3, <2>4
  <2>6. \A pair \in ControlSummary.pairs :
          pair[2].swapped = ~pair[1].swapped /\ pair[2].takes = pair[1].takes
    BY <2>2, <2>4
  <2> QED
    BY <2>1, <2>5, <2>6
<1> QED
  BY <1>2, <1>3, <1>4, <1>5, <1>6, <1>7

-----------------------------------------------------------------------------
(* The theorems.                                                           *)

LEMMA NextInv == RunInv /\ [Next]_vars => RunInv'
<1> SUFFICES ASSUME RunInv, [Next]_vars PROVE RunInv'
  OBVIOUS
<1>1. CASE \/ \E S \in Slices : StartGenerate(S) \/ StartJudge(S)
           \/ EndGenerate \/ EndJudge \/ RedoGenerated \/ Stop
           \/ UNCHANGED vars
  BY <1>1, StageSteps
<1>2. CASE \E S \in (SUBSET Redoable) \ {{}} : StartRedo(S)
  BY <1>2, StartRedoKeeps
<1>3. CASE \E b \in Backends : GenerateOne(b)
  BY <1>3, GenerateOneKeeps
<1>4. CASE JudgePrimary
  BY <1>4, JudgePrimaryKeeps
<1>5. CASE JudgeControl
  BY <1>5, JudgeControlKeeps
<1>6. CASE Matrix
  BY <1>6, MatrixKeeps
<1> QED
  BY <1>1, <1>2, <1>3, <1>4, <1>5, <1>6 DEF Next

LEMMA RunInvariant == Spec => []RunInv
  BY InitInv, NextInv, PTL DEF Spec

\* However often run_affinity is stopped and started again, over slices that
\* overlap as they may, no answer, judgement or control that is on file is
\* asked for again, but for what each run of redo_truncated repeats, and a stage
\* leaves nothing out that it was started for.
THEOREM NothingRepeatedOrSkipped == Spec => []WorkDoneOnce
<1>1. RunInv => WorkDoneOnce
  BY DEF RunInv, WorkDoneOnce
<1> QED
  BY <1>1, RunInvariant, PTL

\* A row of the matrix says of each model what the judge said of its answer,
\* whichever of the two orders the judgement was made in.
THEOREM RowsAreFair == Spec => []RowsCreditTheRightModel
<1>1. RunInv => RowsCreditTheRightModel
  BY DEF RunInv
<1> QED
  BY <1>1, RunInvariant, PTL

\* Until a redo, a primary judgement and its position control are of the same
\* two answers in opposite orders, and a judge without position bias flips no
\* bar between them.
THEOREM ControlsAreSwaps == Spec => []ControlsSwapThePrimary
<1>1. RunInv => ControlsSwapThePrimary
  BY DEF RunInv
<1> QED
  BY <1>1, RunInvariant, PTL

=============================================================================
