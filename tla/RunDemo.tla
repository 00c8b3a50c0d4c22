------------------------------ MODULE RunDemo -------------------------------
(***************************************************************************)
(* demo/run-demo.sh: starts three stub upstreams, the classifier and the   *)
(* proxy, checks where three prompts are routed, stops the classifier,     *)
(* checks that a prompt is still answered, and tears everything down.      *)
(* The processes it starts (external) may fail to start or die at any      *)
(* time, and the user may press Ctrl-C at any time, during the teardown    *)
(* as well.                                                                *)
(***************************************************************************)
EXTENDS Naturals, Sequences, SequencesExt, FiniteSets

CONSTANTS
  KeepRunning,    \* KEEP_RUNNING=1
  MaxPresses,  \* bound: how often Ctrl-C is pressed
  Nothing

Upstreams == <<"small", "large", "general">>
Children == ToSet(Upstreams) \cup {"llm-d-sc", "praxis"}

\* The checks of main and the cluster each wants.
Expected == [simple |-> "small", complex |-> "large", reasoning |-> "large", failopen |-> "general"]
Slugs == DOMAIN Expected

ASSUME DemoAssumption ==
  /\ KeepRunning \in BOOLEAN /\ MaxPresses \in Nat
  /\ Nothing \notin Children \cup Nat

\* main, from start_upstreams on.
Program ==
  << <<"spawn", "small">>, <<"spawn", "large">>, <<"spawn", "general">>,
     <<"await", "small">>, <<"await", "large">>, <<"await", "general">>,
     <<"spawn", "llm-d-sc">>, <<"await", "llm-d-sc">>,
     <<"spawn", "praxis">>, <<"await", "praxis">>,
     <<"check", "simple">>, <<"check", "complex">>, <<"check", "reasoning">>,
     <<"stop", "llm-d-sc">>, <<"closed", "llm-d-sc">>,
     <<"check", "failopen">>, <<"result", "all">> >>

VARIABLES
  stage,       \* "preflight", "main", "cleanup" or "exited"
  line,        \* main's line of Program
  unlisted,    \* child that start_bg has spawned and not listed yet, or Nothing
  CHILD_PIDS,  \* the children that are listed
  next,        \* index in CHILD_PIDS of the child cleanup stops next
  checks,      \* CHECKS, by slug: [passed, served, classifier up]
  failures,    \* FAILURES
  demoExit,    \* Nothing while the script runs
  alive,       \* children that run
  ready,       \* children that listen
  presses

demo == <<stage, line, unlisted, CHILD_PIDS, next, checks, failures, demoExit>>
children == <<alive, ready>>
demoVars == <<demo, children, presses>>

AtLine(op) == stage = "main" /\ Program[line][1] = op
Subject == Program[line][2]

DemoInit ==
  /\ stage = "preflight" /\ line = 1
  /\ unlisted = Nothing /\ CHILD_PIDS = << >> /\ next = 0
  /\ checks = [s \in {} |-> Nothing] /\ failures = 0 /\ demoExit = Nothing
  /\ alive = {} /\ ready = {}
  /\ presses = 0

\* exit, in main or by the trap of INT: the trap of EXIT runs cleanup.
ExitDemo(rc) ==
  /\ demoExit' = rc
  /\ next' = Len(CHILD_PIDS)
  /\ stage' = IF KeepRunning THEN "exited" ELSE "cleanup"

\* preflight: something is missing or a port is taken, or all is well.
DemoPreflight ==
  /\ stage = "preflight"
  /\ \/ stage' = "main" /\ UNCHANGED <<next, demoExit>>
     \/ ExitDemo(1)
  /\ UNCHANGED <<line, unlisted, CHILD_PIDS, checks, failures, children, presses>>

\* start_bg: the child runs before it is in the list.
Spawn ==
  /\ AtLine("spawn") /\ unlisted = Nothing
  /\ unlisted' = Subject
  /\ alive' = alive \cup {Subject}
  /\ UNCHANGED <<stage, line, CHILD_PIDS, next, checks, failures, demoExit, ready, presses>>

\* A bug to catch: only the process the caller asks about is remembered.
BugRemember ==
  /\ AtLine("spawn") /\ unlisted = Subject
  /\ CHILD_PIDS' = IF Subject = "llm-d-sc" THEN CHILD_PIDS ELSE Append(CHILD_PIDS, Subject)
  /\ unlisted' = Nothing
  /\ line' = line + 1
  /\ UNCHANGED <<stage, next, checks, failures, demoExit, children, presses>>

Remember ==
  /\ AtLine("spawn") /\ unlisted = Subject
  /\ CHILD_PIDS' = Append(CHILD_PIDS, Subject)
  /\ unlisted' = Nothing
  /\ line' = line + 1
  /\ UNCHANGED <<stage, next, checks, failures, demoExit, children, presses>>

\* wait_for succeeds as soon as the child answers.
AwaitChild ==
  /\ AtLine("await") /\ Subject \in ready
  /\ line' = line + 1
  /\ UNCHANGED <<stage, unlisted, CHILD_PIDS, next, checks, failures, demoExit, children, presses>>

\* A bug to catch: a wait for a child that is dead goes on for ever.
BugTimeout ==
  /\ AtLine("await") \/ AtLine("closed")
  /\ AtLine("await") => Subject \in alive
  /\ ExitDemo(1)
  /\ UNCHANGED <<line, unlisted, CHILD_PIDS, checks, failures, children, presses>>

\* wait_for gives up: die.
Timeout ==
  /\ AtLine("await") \/ AtLine("closed")
  /\ ExitDemo(1)
  /\ UNCHANGED <<line, unlisted, CHILD_PIDS, checks, failures, children, presses>>

\* Who may answer a prompt: the expected cluster or, without a classification
\* in time, the default cluster; Nothing is an answer that is not 200.
Answers(s) ==
  LET clusters == IF "llm-d-sc" \in ready
                  THEN {IF s = "failopen" THEN "small" ELSE Expected[s], "general"}
                  ELSE {"general"}
  IN  {Nothing} \cup (IF "praxis" \in ready THEN clusters \cap ready ELSE {})

\* A bug to catch: any answer passes.
BugPasses(s, served) == served # Nothing

\* record: 200 from the expected cluster.
Passes(s, served) == served = Expected[s]

\* send and record.
CheckPrompt ==
  /\ AtLine("check")
  /\ \E served \in Answers(Subject) :
       LET ok == Passes(Subject, served) IN
         /\ checks' = [s \in DOMAIN checks \cup {Subject} |->
                         IF s = Subject
                         THEN [passed |-> ok, served |-> served, classifier |-> "llm-d-sc" \in ready]
                         ELSE checks[s]]
         /\ failures' = IF ok THEN failures ELSE failures + 1
  /\ line' = line + 1
  /\ UNCHANGED <<stage, unlisted, CHILD_PIDS, next, demoExit, children, presses>>

\* stop_pid: SIGTERM, SIGKILL after ten seconds; a dead child is no error.
StopChild(c) == alive' = alive \ {c} /\ ready' = ready \ {c}

StopClassifier ==
  /\ AtLine("stop")
  /\ StopChild(Subject)
  /\ line' = line + 1
  /\ UNCHANGED <<stage, unlisted, CHILD_PIDS, next, checks, failures, demoExit, presses>>

PortClosed ==
  /\ AtLine("closed") /\ Subject \notin ready
  /\ line' = line + 1
  /\ UNCHANGED <<stage, unlisted, CHILD_PIDS, next, checks, failures, demoExit, children, presses>>

Result ==
  /\ AtLine("result")
  /\ ExitDemo(IF failures = 0 THEN 0 ELSE 1)
  /\ UNCHANGED <<line, unlisted, CHILD_PIDS, checks, failures, children, presses>>

\* cleanup: the list from its end.
Cleanup ==
  /\ stage = "cleanup"
  /\ IF next = 0
       THEN stage' = "exited" /\ UNCHANGED <<next, children>>
       ELSE StopChild(CHILD_PIDS[next]) /\ next' = next - 1 /\ UNCHANGED stage
  /\ UNCHANGED <<line, unlisted, CHILD_PIDS, checks, failures, demoExit, presses>>

\* Ctrl-C: the trap of INT exits; cleanup has removed the traps, so there it
\* ends the script.
CtrlC ==
  /\ stage # "exited" /\ presses < MaxPresses
  /\ presses' = presses + 1
  /\ IF stage = "cleanup" THEN stage' = "exited" /\ demoExit' = 130 /\ UNCHANGED next ELSE ExitDemo(130)
  /\ UNCHANGED <<line, unlisted, CHILD_PIDS, checks, failures, children>>

-----------------------------------------------------------------------------
(* The children (external).                                                *)

ChildListens(c) ==
  /\ c \in alive \ ready
  /\ ready' = ready \cup {c}
  /\ UNCHANGED <<demo, alive, presses>>

Dies(c) ==
  /\ c \in alive
  /\ StopChild(c)
  /\ UNCHANGED <<demo, presses>>

DemoNext ==
  \/ DemoPreflight \/ Spawn \/ Remember \/ AwaitChild \/ Timeout \/ CheckPrompt
  \/ StopClassifier \/ PortClosed \/ Result \/ Cleanup \/ CtrlC
  \/ \E c \in Children : ChildListens(c) \/ Dies(c)

DemoSpec == DemoInit /\ [][DemoNext]_demoVars

\* The script runs; its waits are bounded.
DemoFairness ==
  /\ WF_demoVars(DemoPreflight) /\ WF_demoVars(Spawn) /\ WF_demoVars(Remember)
  /\ WF_demoVars(Timeout) /\ WF_demoVars(CheckPrompt)
  /\ WF_demoVars(StopClassifier) /\ WF_demoVars(Result) /\ WF_demoVars(Cleanup)

FairDemoSpec == DemoSpec /\ DemoFairness

-----------------------------------------------------------------------------
(* Properties.                                                             *)

\* A script that exits 0 has had every prompt answered by its own cluster, the
\* three of the taxonomy with the classifier up and the last one without it,
\* whatever died in between.
PassMeansProved ==
  demoExit = 0 =>
    /\ DOMAIN checks = Slugs
    /\ \A s \in Slugs :
         /\ checks[s].served = Expected[s]
         /\ checks[s].classifier = (s # "failopen")

\* Nothing the script has started outlives it, unless it is asked to keep it.
\* A Ctrl-C can leave behind the child that start_bg has spawned and not listed
\* yet, and one more in the teardown those of the list it has not come to.
EverythingTornDown ==
  stage = "exited" /\ ~KeepRunning =>
    /\ presses = 0 => alive = {}
    /\ alive \subseteq {unlisted} \cup {CHILD_PIDS[i] : i \in 1 .. next}

\* The script comes to its end, whatever starts late, hangs or dies.
DemoEnds == <>(stage = "exited")

=============================================================================
