------------------------------ MODULE Affinity ------------------------------
(***************************************************************************)
(* bench/affinity: which model is good enough for a prompt.  run_affinity  *)
(* asks both backends every frozen prompt, has the pair of answers judged, *)
(* judges a subsample again as a control, and joins it all in a matrix.    *)
(* Every stage goes on from its checkpoint file, in which the last record  *)
(* of a key wins; a stage may be stopped at any point.  redo_truncated     *)
(* appends new records for the prompts it is given, those on which neither *)
(* model sufficed as a rule.                                               *)
(*                                                                         *)
(* The judge (external) is a faithful one: what it says of an answer       *)
(* depends on the answer only, never on its place.  What the bookkeeping   *)
(* makes of such a judge is the question here.                             *)
(***************************************************************************)
EXTENDS Naturals, Sequences, SequencesExt, FiniteSets

CONSTANTS
  Frozen,       \* the prompts of the frozen set, in the order of the file
  Subsample,    \* [slice -> those of it that are judged again as controls]
  Swapped,      \* [prompt -> BOOLEAN]: order drawn by run_affinity
  RedoSwapped,  \* the order drawn by redo_truncated, from another seed
  Predicted,    \* [prompt -> tier]: the classifier's answer
  MaxStops,     \* bound: how often a stage is stopped
  Redoable,     \* bound: the prompts redo_truncated may be given
  MaxRedos,     \* bound: how often redo_truncated runs
  None

Prompts == {Frozen[k] : k \in DOMAIN Frozen}
Backends == {"small", "large"}
Controls == {"position", "interjudge"}
Kinds == {"primary"} \cup Controls

ROUTES == [SIMPLE |-> "small", MEDIUM |-> "small", COMPLEX |-> "large", REASONING |-> "large"]

\* What is kept of an answer: whether the call succeeded, and whether it is one
\* the judge would pass.
Generation == {g \in [ok : BOOLEAN, good : BOOLEAN] : g.good => g.ok}

\* A record of affinity-judging.jsonl or of the controls: the bars as the judge
\* gave them, the first answer's first, and which of the prompt's generations
\* it saw.
Judgement ==
  [failed : BOOLEAN, swapped : BOOLEAN, bar : BOOLEAN \X BOOLEAN,
   verdict : {"1", "2", "tie", None}, takes : [Backends -> Nat \ {0}]]

ASSUME AffinityAssumption ==
  /\ IsInjective(Frozen)
  /\ Subsample \in [SUBSET Prompts -> SUBSET Prompts]
  /\ \A S \in SUBSET Prompts : Subsample[S] \subseteq S
  /\ Swapped \in [Prompts -> BOOLEAN] /\ RedoSwapped \in [Prompts -> BOOLEAN]
  /\ Predicted \in [Prompts -> DOMAIN ROUTES]
  /\ Redoable \subseteq Prompts
  /\ MaxStops \in Nat /\ MaxRedos \in Nat
  /\ None \notin Judgement

VARIABLES
  gen,      \* affinity-generation.jsonl: [prompt -> [backend -> its records in order]]
  judged,   \* affinity-judging.jsonl
  control,  \* affinity-judge-controls.jsonl: [prompt -> [control -> records]]
  stage,    \* the stage that runs: "idle", "generate", "judge", "redo_generate", "redo_judge"
  queue,    \* [backend -> prompts its thread still has to ask]
  todo,     \* [kind -> prompts the judge still has to judge so]
  targets,  \* prompts the stage that runs was started for
  matrix,   \* affinity-matrix.jsonl: [prompt -> row or None]
  summary,  \* affinity-summary.json, None before the first
  stops, redos

files == <<gen, judged, control>>
work == <<stage, queue, todo, targets>>
report == <<matrix, summary>>
vars == <<files, work, report, stops, redos>>

-----------------------------------------------------------------------------
(* Checkpoints.                                                            *)

\* read_checkpoint: the record of a key that counts, None if it has none.
Latest(recs) == IF recs = << >> THEN None ELSE Last(recs)

Asked(p, b) == gen[p][b] # << >>
Answered(p) == \A b \in Backends : Asked(p, b) /\ Latest(gen[p][b]).ok

\* A bug to catch: a stage starts over.
BugPending(S, onFile) == S

\* The prompts of a slice that are not on file yet.
Pending(S, onFile) == S \ onFile

\* The threads and the judge go through their prompts in the order of the file.
FirstOf(p, S) ==
  \E k \in DOMAIN Frozen : Frozen[k] = p /\ \A i \in 1..(k - 1) : Frozen[i] \notin S

Nothing == [k \in Kinds |-> {}]

-----------------------------------------------------------------------------
(* generate.                                                               *)

Init ==
  /\ gen = [p \in Prompts |-> [b \in Backends |-> << >>]]
  /\ judged = [p \in Prompts |-> << >>]
  /\ control = [p \in Prompts |-> [c \in Controls |-> << >>]]
  /\ stage = "idle"
  /\ queue = [b \in Backends |-> {}]
  /\ todo = Nothing /\ targets = {}
  /\ matrix = [p \in Prompts |-> None]
  /\ summary = None
  /\ stops = 0 /\ redos = 0

\* A bug to catch: a prompt that one backend was asked counts as done for both.
BugStartGenerate(S) ==
  /\ stage = "idle"
  /\ stage' = "generate"
  /\ targets' = S
  /\ queue' = [b \in Backends |-> Pending(S, {p \in Prompts : \E d \in Backends : Asked(p, d)})]
  /\ UNCHANGED <<files, todo, report, stops, redos>>

\* S is all of the prompts, a --limit or a --pilot slice.
StartGenerate(S) ==
  /\ stage = "idle"
  /\ stage' = "generate"
  /\ targets' = S
  /\ queue' = [b \in Backends |-> Pending(S, {p \in Prompts : Asked(p, b)})]
  /\ UNCHANGED <<files, todo, report, stops, redos>>

\* One call of a backend's thread: a failed one is recorded as well.
GenerateOne(b) ==
  /\ stage \in {"generate", "redo_generate"}
  /\ \E p \in queue[b], rec \in Generation :
       /\ FirstOf(p, queue[b])
       /\ gen' = [gen EXCEPT ![p][b] = Append(@, rec)]
       /\ queue' = [queue EXCEPT ![b] = @ \ {p}]
  /\ UNCHANGED <<judged, control, stage, todo, targets, report, stops, redos>>

Generated(s) == stage = s /\ \A b \in Backends : queue[b] = {}

EndGenerate ==
  /\ Generated("generate")
  /\ stage' = "idle" /\ targets' = {}
  /\ UNCHANGED <<files, queue, todo, report, stops, redos>>

-----------------------------------------------------------------------------
(* judge.                                                                  *)

\* Of a slice, the prompts with two answers; of its subsample, the controls.
StartJudge(S) ==
  /\ stage = "idle"
  /\ stage' = "judge"
  /\ targets' = S
  /\ todo' = [k \in Kinds |->
       {p \in IF k = "primary" THEN Pending(S, {q \in Prompts : judged[q] # << >>})
              ELSE Pending(Subsample[S], {q \in Prompts : control[q][k] # << >>}) : Answered(p)}]
  /\ UNCHANGED <<files, queue, report, stops, redos>>

\* A bug to catch: the control draws its own order.
BugOrderOf(p, kind) == IF kind = "redo" THEN RedoSwapped[p] ELSE Swapped[p]

\* Whether the large model's answer is shown first.
OrderOf(p, kind) ==
  LET primary == Latest(judged[p])
      asPrimary == primary # None /\ primary.swapped
  IN  CASE kind = "primary"    -> Swapped[p]
        [] kind = "redo"       -> RedoSwapped[p]
        [] kind = "position"   -> ~asPrimary
        [] kind = "interjudge" -> asPrimary

\* What the judge says of the answers as they are now; takes tells which of a
\* prompt's generations it saw.
Verdict(p, swapped) ==
  LET good == [b \in Backends |-> Latest(gen[p][b]).good]
      one == IF swapped THEN good["large"] ELSE good["small"]
      two == IF swapped THEN good["small"] ELSE good["large"]
  IN  [failed |-> FALSE, swapped |-> swapped, bar |-> <<one, two>>,
       verdict |-> IF one = two THEN "tie" ELSE IF one THEN "1" ELSE "2",
       takes |-> [b \in Backends |-> Len(gen[p][b])]]

\* run_judge: after two retries without a verdict the judgement failed.
JudgeFailed(p, swapped) ==
  [failed |-> TRUE, swapped |-> swapped, bar |-> <<FALSE, FALSE>>, verdict |-> None,
   takes |-> Verdict(p, swapped).takes]

Judgements(p, swapped) == {Verdict(p, swapped), JudgeFailed(p, swapped)}

JudgePrimary ==
  /\ stage \in {"judge", "redo_judge"}
  /\ \E p \in todo["primary"] :
       /\ FirstOf(p, todo["primary"])
       /\ \E rec \in Judgements(p, OrderOf(p, IF stage = "judge" THEN "primary" ELSE "redo")) :
            judged' = [judged EXCEPT ![p] = Append(@, rec)]
       /\ todo' = [todo EXCEPT !["primary"] = @ \ {p}]
  /\ UNCHANGED <<gen, control, stage, queue, targets, report, stops, redos>>

\* Then the controls, prompt by prompt (sorted by name: an order that no
\* property needs), the position before the other judge.
JudgeControl ==
  /\ stage = "judge" /\ todo["primary"] = {}
  /\ \E p \in todo["position"] \cup todo["interjudge"] :
       LET kind == IF p \in todo["position"] THEN "position" ELSE "interjudge"
       IN  /\ \E rec \in Judgements(p, OrderOf(p, kind)) :
                control' = [control EXCEPT ![p][kind] = Append(@, rec)]
           /\ todo' = [todo EXCEPT ![kind] = @ \ {p}]
  /\ UNCHANGED <<gen, judged, stage, queue, targets, report, stops, redos>>

EndJudge ==
  /\ stage \in {"judge", "redo_judge"}
  /\ todo = Nothing
  /\ stage' = "idle" /\ targets' = {}
  /\ UNCHANGED <<files, queue, todo, report, stops, redos>>

-----------------------------------------------------------------------------
(* matrix.                                                                 *)

\* response_1 is the large model's answer if the order was swapped.
BarOf(b, rec, swapped) == IF (b = "large") = swapped THEN rec.bar[1] ELSE rec.bar[2]

\* A bug to catch: the order is drawn again instead of read from the record.
BugOrderRead(p, j) == Swapped[p]

OrderRead(p, j) == j.swapped

Row(p) ==
  LET j == Latest(judged[p])
      ok == [b \in Backends |-> BarOf(b, j, OrderRead(p, j))]
  IN  IF (\E b \in Backends : ~Asked(p, b)) \/ j = None \/ (j # None /\ j.failed) THEN None
      ELSE [ok |-> ok, route |-> ROUTES[Predicted[p]],
            cheapest |-> IF ok["small"] THEN "small" ELSE IF ok["large"] THEN "large" ELSE "neither",
            judgedTakes |-> j.takes, judgedGood |-> [b \in Backends |-> gen[p][b][j.takes[b]].good]]

Under(r) == r.route = "small" /\ ~r.ok["small"] /\ r.ok["large"]
Over(r) == r.route = "large" /\ r.ok["small"]

\* _summarize: what is counted of the rows.
Rates(rows) ==
  [selected |-> Cardinality({p \in DOMAIN rows : rows[p].cheapest = rows[p].route}),
   decidable |-> Cardinality({p \in DOMAIN rows : rows[p].cheapest # "neither"}),
   under |-> Cardinality({p \in DOMAIN rows : Under(rows[p])}),
   over |-> Cardinality({p \in DOMAIN rows : Over(rows[p])})]

\* The preference _summarize_controls reads out of a verdict.
Preference(verdict, swapped) ==
  IF (verdict = "1") = swapped THEN "large" ELSE IF verdict \in {"1", "2"} THEN "small" ELSE "tie"

\* _summarize_controls: the primary judgements compared with their position
\* control, those whose verdict flips and those of which a bar does.
Compared ==
  {p \in Prompts : LET c == Latest(control[p]["position"]) IN
     /\ c # None /\ judged[p] # << >>
     /\ ~c.failed /\ ~Latest(judged[p]).failed}

ControlSummary ==
  LET Primary(p) == Latest(judged[p])
      Position(p) == Latest(control[p]["position"])
  IN  [flips |-> {p \in Compared : Preference(Primary(p).verdict, Primary(p).swapped)
                                   # Preference(Position(p).verdict, ~Primary(p).swapped)},
       barFlips |-> {p \in Compared : \E b \in Backends :
                       BarOf(b, Primary(p), Primary(p).swapped) # BarOf(b, Position(p), ~Primary(p).swapped)},
       pairs |-> {<<Primary(p), Position(p)>> : p \in Compared}]

Matrix ==
  /\ stage = "idle"
  /\ matrix' = [p \in Prompts |-> Row(p)]
  /\ summary' = [rates |-> Rates([p \in {q \in Prompts : Row(q) # None} |-> Row(p)]),
                 controls |-> ControlSummary]
  /\ UNCHANGED <<files, work, stops, redos>>

-----------------------------------------------------------------------------
(* redo_truncated.                                                         *)

\* S is what the list of ids in /tmp names, each of them once.
StartRedo(S) ==
  /\ stage = "idle" /\ redos < MaxRedos
  /\ redos' = redos + 1
  /\ stage' = "redo_generate"
  /\ targets' = S
  /\ queue' = [b \in Backends |-> S]
  /\ UNCHANGED <<files, todo, report, stops>>

\* Both threads are done: the targets with two answers are judged again.
RedoGenerated ==
  /\ Generated("redo_generate")
  /\ stage' = "redo_judge"
  /\ todo' = [Nothing EXCEPT !["primary"] = {p \in targets : Answered(p)}]
  /\ UNCHANGED <<files, queue, targets, report, stops, redos>>

\* Ctrl-C, or an exception out of a stage: what is not on file is lost.
Stop ==
  /\ stage # "idle" /\ stops < MaxStops
  /\ stops' = stops + 1
  /\ stage' = "idle"
  /\ queue' = [b \in Backends |-> {}]
  /\ todo' = Nothing /\ targets' = {}
  /\ UNCHANGED <<files, report, redos>>

Slices == SUBSET Prompts \ {{}}

Next ==
  \/ \E S \in Slices : StartGenerate(S) \/ StartJudge(S)
  \/ \E S \in (SUBSET Redoable) \ {{}} : StartRedo(S)
  \/ \E b \in Backends : GenerateOne(b)
  \/ EndGenerate \/ JudgePrimary \/ JudgeControl \/ EndJudge \/ Matrix
  \/ RedoGenerated
  \/ Stop

Spec == Init /\ [][Next]_vars

-----------------------------------------------------------------------------
(* Properties.                                                             *)

\* What is on file is not asked or judged again, but for what a redo asks for.
WorkNotRepeated ==
  \A p \in Prompts :
    /\ \A b \in Backends : Len(gen[p][b]) <= 1 + redos
    /\ Len(judged[p]) <= 1 + redos
    /\ \A c \in Controls : Len(control[p][c]) <= 1

\* What a stage was started for is on file or still to come, so that it is on
\* file when the stage ends; a prompt without two answers is not judged.
WorkNotSkipped ==
  /\ stage = "generate" => \A b \in Backends : \A p \in targets : p \in queue[b] \/ Asked(p, b)
  /\ stage = "judge" =>
       /\ \A p \in targets : Answered(p) => p \in todo["primary"] \/ judged[p] # << >>
       /\ \A c \in Controls : \A p \in Subsample[targets] :
            Answered(p) => p \in todo[c] \/ control[p][c] # << >>

\* However a run is cut into stages, slices and stops, a stage that is started
\* again does what is missing and only that.
WorkDoneOnce == WorkNotRepeated /\ WorkNotSkipped

\* A row says of each model what its own answer deserved, whichever was shown
\* first, in a redo as well.
RowsCreditTheRightModel ==
  \A p \in Prompts : matrix[p] # None => matrix[p].ok = matrix[p].judgedGood

\* The position control shows the same answers as the primary judgement it is
\* compared with, in the opposite order, so that under a judge without position
\* bias no bar flips; as long as nothing has been redone, because a redo judges
\* the primary again and leaves the control on file.
ControlsSwapThePrimary ==
  summary # None /\ redos = 0 =>
    /\ \A pair \in summary.controls.pairs :
         pair[2].swapped = ~pair[1].swapped /\ pair[2].takes = pair[1].takes
    /\ summary.controls.barFlips = {}

\* Under a judge without position bias no verdict flips (SPEC-AFFINITY.md has
\* the flips reported as the position bias of the judge).
NoBiasNoFlip == summary # None => summary.controls.flips = {}

=============================================================================
