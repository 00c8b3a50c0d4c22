---------------------------- MODULE B5rIsolation ----------------------------
(***************************************************************************)
(* bench/b5r_isolated.py: one arm of the isolated end-to-end run.  Each    *)
(* attempt waits for the backend to look idle, snapshots its counters,     *)
(* sends one request, snapshots again, and calls itself isolated if the    *)
(* counters moved by what the response says it used.  The backend is a     *)
(* llama.cpp server with one slot that other tenants use (external); it    *)
(* counts a generation when it ends.  The script may be stopped and        *)
(* started again: the checkpoint file is all that is left of it.           *)
(***************************************************************************)
EXTENDS Integers, Sequences, FiniteSets

CONSTANTS
  Target,           \* --target: isolated observations wanted
  MaxAttempts,      \* --max-attempts
  Prompts,          \* number of prompts in the frozen set
  Tolerance,        \* TOLERANCE_TOKENS
  PromptTolerance,  \* max(TOLERANCE_TOKENS, 4)
  PromptCounted,    \* does the backend export llamacpp:prompt_tokens_total?
  Ours,             \* [gen, prompt]: tokens our requests use
  Foreign,          \* [gen, prompt]: generations other tenants ask for
  Consecutive,      \* clean polls the gate wants
  MaxForeign,       \* bound: foreign generations
  MaxStops,         \* bound: how often the script is stopped
  MaxRestarts,      \* bound: how often the backend is restarted
  None

Tokens == [gen : Nat, prompt : Nat]

ASSUME IsolationAssumption ==
  /\ Target \in Nat /\ MaxAttempts \in Nat /\ Prompts \in Nat \ {0} /\ Consecutive \in Nat \ {0}
  /\ Tolerance \in Nat /\ PromptTolerance \in Nat /\ PromptCounted \in BOOLEAN
  /\ Ours \in Tokens /\ Foreign \subseteq Tokens
  /\ MaxForeign \in Nat /\ MaxStops \in Nat /\ MaxRestarts \in Nat

VARIABLES
  pc,          \* where the script is in one_attempt, or "stopped"
  clean,       \* clean polls in a row
  before,      \* the snapshot T0, None if the scrape failed
  after,       \* the snapshot T1
  usage,       \* usage of our response, None if the request failed
  attempt,     \* run_arm's attempt
  idx,         \* run_arm's idx
  isolated,    \* run_arm's isolated_so_far
  checkpoint,  \* b5r-isolated.jsonl: the records of this arm
  slot,        \* the generation under way on the backend, None if it is idle
  counters,    \* the backend's cumulative counters
  intruded,    \* foreign tokens counted between T0 and T1 of the attempt
  reset,       \* has the backend restarted between T0 and T1 of the attempt
  foreigners,  \* foreign generations so far
  stops, restarts

script == <<pc, clean, before, after, usage, attempt, idx, isolated, checkpoint, stops>>
backend == <<slot, counters, intruded, reset, foreigners, restarts>>
vars == <<script, backend>>

-----------------------------------------------------------------------------
(* Reconciliation.                                                         *)

Generation == [ours : BOOLEAN, tokens : Tokens]

Busy(mine) == slot # None /\ slot.ours = mine

\* Our generation when its client goes away: cancelled, or run to its end with
\* nobody waiting for it.
Abandoned == IF Busy(TRUE) THEN {None, [slot EXCEPT !.ours = FALSE]} ELSE {slot}

\* Between the snapshots T0 and T1.
Window == {"send", "await", "after"}

Zero == [gen |-> 0, prompt |-> 0]

Plus(t, u) == [gen |-> t.gen + u.gen, prompt |-> t.prompt + u.prompt]

Within(a, b, tolerance) == a - b <= tolerance /\ b - a <= tolerance

\* A bug to catch: only a counter that moved too little is suspicious.
BugOneSided(b, a, u) ==
  /\ u # None /\ b # None /\ a # None
  /\ u.gen - (a.gen - b.gen) <= Tolerance
  /\ PromptCounted => u.prompt - (a.prompt - b.prompt) <= PromptTolerance

\* reconcile: our usage (cached prompt tokens taken off) against the deltas;
\* without usage or without both snapshots an attempt is not isolated, without
\* a count of the prompt tokens the other one decides alone.
reconcile(b, a, u) ==
  /\ u # None /\ b # None /\ a # None
  /\ Within(a.gen - b.gen, u.gen, Tolerance)
  /\ PromptCounted => Within(a.prompt - b.prompt, u.prompt, PromptTolerance)

-----------------------------------------------------------------------------
(* run_arm and one_attempt.                                                *)

IsolatedIn(recs) == Cardinality({k \in DOMAIN recs : recs[k].isolated})

\* A bug to catch: a script that starts again counts its attempts from 0.
BugForgetsAttempts ==
  /\ attempt' = 0
  /\ idx' = 0
  /\ isolated' = IsolatedIn(checkpoint)

\* run_arm reads where an earlier run of the arm left off.
ReadCheckpoint ==
  /\ attempt' = Len(checkpoint)
  /\ idx' = Len(checkpoint) % Prompts
  /\ isolated' = IsolatedIn(checkpoint)

Init ==
  /\ pc = "stopped" /\ clean = 0
  /\ before = None /\ after = None /\ usage = None
  /\ attempt = 0 /\ idx = 0 /\ isolated = 0
  /\ checkpoint = << >>
  /\ slot = None /\ counters = Zero /\ intruded = Zero /\ reset = FALSE
  /\ foreigners = 0 /\ stops = 0 /\ restarts = 0

Start ==
  /\ pc = "stopped"
  /\ ReadCheckpoint
  /\ pc' = "loop"
  /\ UNCHANGED <<clean, before, after, usage, checkpoint, stops, backend>>

\* while isolated_so_far < target and attempt < max_attempts
NextAttempt ==
  /\ pc = "loop"
  /\ isolated < Target /\ attempt < MaxAttempts
  /\ pc' = "gate" /\ clean' = 0
  /\ UNCHANGED <<before, after, usage, attempt, idx, isolated, checkpoint, stops, backend>>

\* OK or INCONCLUSIVE: the arm has what it wants or gives up.
Conclude ==
  /\ pc = "loop"
  /\ isolated >= Target \/ attempt >= MaxAttempts
  /\ pc' = "concluded"
  /\ UNCHANGED <<clean, before, after, usage, attempt, idx, isolated, checkpoint, stops, backend>>

\* wait_until_idle: one poll.
Poll ==
  /\ pc = "gate"
  /\ clean' = IF slot = None THEN clean + 1 ELSE 0
  /\ pc' = IF clean' >= Consecutive THEN "before" ELSE "gate"
  /\ UNCHANGED <<before, after, usage, attempt, idx, isolated, checkpoint, stops, backend>>

\* A bug to catch: the gate waits for as long as the backend is busy.
BugGateOpens ==
  /\ pc = "gate" /\ slot = None
  /\ pc' = "before"
  /\ UNCHANGED <<clean, before, after, usage, attempt, idx, isolated, checkpoint, stops, backend>>

\* The gate gives up, or cannot read the metrics: the attempt runs anyway.
GateOpens ==
  /\ pc = "gate"
  /\ pc' = "before"
  /\ UNCHANGED <<clean, before, after, usage, attempt, idx, isolated, checkpoint, stops, backend>>

\* snapshot before the request; a scrape may fail.
SnapshotBefore ==
  /\ pc = "before"
  /\ before' \in {counters, None}
  /\ intruded' = Zero /\ reset' = FALSE
  /\ pc' = "send"
  /\ UNCHANGED <<clean, after, usage, attempt, idx, isolated, checkpoint, stops,
                 slot, counters, foreigners, restarts>>

\* The request gets the slot when it is free.
Send ==
  /\ pc = "send"
  /\ slot = None
  /\ slot' = [ours |-> TRUE, tokens |-> Ours]
  /\ pc' = "await"
  /\ UNCHANGED <<clean, before, after, usage, attempt, idx, isolated, checkpoint, stops,
                 counters, intruded, reset, foreigners, restarts>>

\* Our generation ends: it is counted, and the response says what it used.
Respond ==
  /\ pc = "await" /\ Busy(TRUE)
  /\ slot' = None
  /\ counters' = Plus(counters, Ours)
  /\ usage' \in {Ours, None}
  /\ pc' = "after"
  /\ UNCHANGED <<clean, before, after, attempt, idx, isolated, checkpoint, stops,
                 intruded, reset, foreigners, restarts>>

\* The request times out, or never got there.
RequestFails ==
  /\ pc \in {"send", "await"}
  /\ usage' = None
  /\ pc' = "after"
  /\ slot' \in Abandoned
  /\ UNCHANGED <<clean, before, after, attempt, idx, isolated, checkpoint, stops,
                 counters, intruded, reset, foreigners, restarts>>

SnapshotAfter ==
  /\ pc = "after"
  /\ after' \in {counters, None}
  /\ pc' = "append"
  /\ UNCHANGED <<clean, before, usage, attempt, idx, isolated, checkpoint, stops, backend>>

\* append_checkpoint, then the counters of the loop.
append_checkpoint ==
  /\ pc = "append"
  /\ LET ok == reconcile(before, after, usage) IN
       /\ checkpoint' = Append(checkpoint,
            [attempt |-> attempt, prompt |-> idx % Prompts, isolated |-> ok,
             intruded |-> intruded, reset |-> reset])
       /\ isolated' = IF ok THEN isolated + 1 ELSE isolated
  /\ attempt' = attempt + 1
  /\ idx' = idx + 1
  /\ pc' = "loop"
  /\ before' = None /\ after' = None /\ usage' = None
  /\ UNCHANGED <<clean, stops, backend>>

\* The script is stopped: the attempt under way is lost, the file is not.
Stop ==
  /\ pc \notin {"stopped", "concluded"}
  /\ stops < MaxStops
  /\ stops' = stops + 1
  /\ pc' = "stopped"
  /\ before' = None /\ after' = None /\ usage' = None
  /\ slot' \in Abandoned
  /\ UNCHANGED <<clean, attempt, idx, isolated, checkpoint, counters, intruded,
                 reset, foreigners, restarts>>

-----------------------------------------------------------------------------
(* The backend and its other tenants (external).                           *)

ForeignStarts ==
  /\ slot = None /\ foreigners < MaxForeign
  /\ \E t \in Foreign : slot' = [ours |-> FALSE, tokens |-> t]
  /\ foreigners' = foreigners + 1
  /\ UNCHANGED <<script, counters, intruded, reset, restarts>>

ForeignEnds ==
  /\ Busy(FALSE)
  /\ counters' = Plus(counters, slot.tokens)
  /\ intruded' = IF pc \in Window THEN Plus(intruded, slot.tokens) ELSE intruded
  /\ slot' = None
  /\ UNCHANGED <<script, reset, foreigners, restarts>>

\* A restart resets the counters; what was in the slot is lost.
BackendRestarts ==
  /\ restarts < MaxRestarts
  /\ restarts' = restarts + 1
  /\ counters' = Zero
  /\ slot' = None
  /\ reset' = (reset \/ pc \in Window)
  /\ pc' = IF Busy(TRUE) THEN "after" ELSE pc
  /\ UNCHANGED <<clean, before, after, usage, attempt, idx, isolated, checkpoint, stops,
                 intruded, foreigners>>

Next ==
  \/ Start \/ NextAttempt \/ Conclude \/ Poll \/ GateOpens
  \/ SnapshotBefore \/ Send \/ Respond \/ RequestFails \/ SnapshotAfter \/ append_checkpoint
  \/ Stop
  \/ ForeignStarts \/ ForeignEnds \/ BackendRestarts

Spec == Init /\ [][Next]_vars

\* The loop runs; the gate, the request and the scrapes end, by their timeouts
\* if need be.  Nothing is promised of the backend or of its other tenants.
Fairness ==
  /\ WF_vars(NextAttempt) /\ WF_vars(Conclude) /\ WF_vars(GateOpens) /\ WF_vars(SnapshotBefore)
  /\ WF_vars(RequestFails) /\ WF_vars(SnapshotAfter) /\ WF_vars(append_checkpoint)

FairSpec == Spec /\ Fairness

-----------------------------------------------------------------------------
(* Properties.                                                             *)

\* No more of other tenants' tokens than the tolerance, as far as they are counted.
Alone(foreign) == foreign.gen <= Tolerance /\ (PromptCounted => foreign.prompt <= PromptTolerance)

\* An observation called isolated had no more of other tenants' tokens in its
\* window than the tolerance allows, however many generations they came from
\* and whether or not the idle gate was passed; unless the backend restarted in
\* the window, which reconcile cannot see.
IsolatedMeansAlone ==
  \A k \in DOMAIN checkpoint : checkpoint[k].isolated /\ ~checkpoint[k].reset => Alone(checkpoint[k].intruded)

\* However often the script is stopped and started again, the attempts on file
\* are numbered from 0 without gap or repetition and go round the prompts in
\* order, and an arm makes no more of them, and collects no more isolated ones,
\* than it was asked for.
AttemptsInOrder ==
  /\ \A k \in DOMAIN checkpoint :
       checkpoint[k].attempt = k - 1 /\ checkpoint[k].prompt = (k - 1) % Prompts
  /\ Len(checkpoint) <= MaxAttempts
  /\ IsolatedIn(checkpoint) <= Target

=============================================================================
