----------------------------- MODULE LocalBench -----------------------------
(***************************************************************************)
(* bench/run-local-bench.sh: starts the processes of the local benchmark   *)
(* one after another, waits for their ports, checks that the gateway       *)
(* classifies and steers, and runs the scenarios.  One handler, cleanup,   *)
(* serves EXIT, INT and TERM: after a signal it kills what is listed, and  *)
(* the script goes on where it was.  External: the processes, which may    *)
(* start late, hang, die or ignore TERM, those of an earlier run that was  *)
(* killed, which hold their ports, and the scenarios' own outcome.         *)
(***************************************************************************)
EXTENDS Naturals, Sequences, FiniteSets

CONSTANTS
  Scenarios,   \* the scenarios in order
  Leftovers,   \* processes an earlier run may have left listening
  MaxDeaths,   \* bound: processes that die of themselves
  MaxSignals,  \* bound: INT and TERM
  NoCode

ASSUME LocalAssumption ==
  /\ MaxDeaths \in Nat /\ MaxSignals \in Nat
  /\ Scenarios \in Seq({Scenarios[k] : k \in DOMAIN Scenarios})
  /\ NoCode \notin Nat

Processes == {"stub-small", "stub-large", "llm-d-sc", "slow-classifier", "praxis"}

Step(kind, what) == [kind |-> kind, what |-> what]

\* Start of one process: run it, list it.
Started(p) == <<Step("run", p), Step("list", p)>>

program ==
  Started("stub-small") \o Started("stub-large")
    \o <<Step("wait", "stub-small"), Step("wait", "stub-large")>>
    \o Started("llm-d-sc") \o <<Step("wait", "llm-d-sc")>>
    \o Started("slow-classifier") \o <<Step("wait", "slow-classifier")>>
    \o Started("praxis") \o <<Step("wait", "praxis")>>
    \o <<Step("sane", "classified"), Step("sane", "steered")>>
    \o [k \in DOMAIN Scenarios |-> Step("scenario", Scenarios[k])]
    \o <<Step("end", "all")>>

VARIABLES
  position,  \* position in program
  mode,      \* "script", or "term", "kill", "wait": a step of cleanup
  final,     \* cleanup runs for EXIT
  PIDS,      \* the processes listed
  FAILED,    \* scenarios that failed
  ran,       \* history: the scenarios that completed
  benchExit, \* NoCode while it runs
  status,    \* [process -> "absent", "starting", "up", "hung" or "gone"]
  leftovers, \* those still there, each at the port of the same name
  deaths, signals

bench == <<position, mode, final, PIDS, FAILED, ran, benchExit>>
benchVars == <<bench, status, leftovers, deaths, signals>>

BenchInit ==
  /\ position = 1 /\ mode = "script" /\ final = FALSE
  /\ PIDS = {} /\ FAILED = 0 /\ ran = {} /\ benchExit = NoCode
  /\ status = [p \in Processes |-> "absent"]
  /\ leftovers \in SUBSET Leftovers
  /\ deaths = 0 /\ signals = 0

Running(p) == status[p] \in {"starting", "up", "hung"}

\* Something answers at each port: the process the script has started, or one left.
Alive(ps) == \A p \in ps : status[p] = "up" \/ p \in leftovers

At(kind) == mode = "script" /\ program[position].kind = kind

what == program[position].what

\* exit: cleanup runs as the trap of EXIT.
ExitBench(rc) ==
  /\ benchExit' = rc /\ mode' = "term" /\ final' = TRUE
  /\ UNCHANGED <<position, PIDS>>

Continue ==
  /\ position' = position + 1
  /\ UNCHANGED <<mode, final, benchExit>>

-----------------------------------------------------------------------------
(* The script.                                                             *)

RunProcess ==
  /\ At("run")
  /\ status' = [status EXCEPT ![what] = "starting"]
  /\ Continue
  /\ UNCHANGED <<PIDS, FAILED, ran, leftovers, deaths, signals>>

List ==
  /\ At("list")
  /\ PIDS' = PIDS \cup {what}
  /\ Continue
  /\ UNCHANGED <<FAILED, ran, status, leftovers, deaths, signals>>

\* wait_port: nc reaches the port, whoever listens there.
wait_port ==
  /\ At("wait") /\ Alive({what})
  /\ Continue
  /\ UNCHANGED <<PIDS, FAILED, ran, status, leftovers, deaths, signals>>

\* A bug to catch: the port is waited for as long as it takes.
BugTimedOut ==
  /\ At("wait") /\ status[what] = "gone"
  /\ ExitBench(1)
  /\ UNCHANGED <<FAILED, ran, status, leftovers, deaths, signals>>

TimedOut ==
  /\ At("wait")
  /\ ExitBench(1)
  /\ UNCHANGED <<FAILED, ran, status, leftovers, deaths, signals>>

\* One request through the classified listener: its status has to be OK, and a
\* complex prompt has to reach the large stub.  Without a gateway, a classifier
\* and a stub it cannot; with them it may not.
Sane ==
  /\ At("sane")
  /\ \/ /\ Alive({"praxis", "llm-d-sc", IF what = "steered" THEN "stub-large" ELSE "stub-small"})
        /\ Continue /\ UNCHANGED PIDS
     \/ ExitBench(1)
  /\ UNCHANGED <<FAILED, ran, status, leftovers, deaths, signals>>

\* A bug to catch: a failed scenario leaves no trace.
BugRunScenario ==
  /\ At("scenario")
  /\ \/ Alive({"praxis", "stub-small"}) /\ ran' = ran \cup {what}
     \/ UNCHANGED ran
  /\ UNCHANGED FAILED
  /\ Continue
  /\ UNCHANGED <<PIDS, status, leftovers, deaths, signals>>

\* run: a scenario fails if what it measures is gone, and may fail otherwise.
RunScenario ==
  /\ At("scenario")
  /\ \/ Alive({"praxis", "stub-small"}) /\ ran' = ran \cup {what} /\ UNCHANGED FAILED
     \/ FAILED' = FAILED + 1 /\ UNCHANGED ran
  /\ Continue
  /\ UNCHANGED <<PIDS, status, leftovers, deaths, signals>>

End ==
  /\ At("end")
  /\ ExitBench(FAILED)
  /\ UNCHANGED <<FAILED, ran, status, leftovers, deaths, signals>>

-----------------------------------------------------------------------------
(* cleanup, and the signals that run it.                                   *)

\* kill, to everything listed: a process may ignore it.
Term ==
  /\ mode = "term"
  /\ \E deaf \in SUBSET {p \in PIDS : Running(p)} :
       status' = [p \in Processes |->
         IF p \in PIDS /\ Running(p) THEN IF p \in deaf THEN "hung" ELSE "gone" ELSE status[p]]
  /\ mode' = "kill"
  /\ UNCHANGED <<position, final, PIDS, FAILED, ran, benchExit, leftovers, deaths, signals>>

Kill ==
  /\ mode = "kill"
  /\ status' = [p \in Processes |-> IF p \in PIDS /\ Running(p) THEN "gone" ELSE status[p]]
  /\ mode' = "wait"
  /\ UNCHANGED <<position, final, PIDS, FAILED, ran, benchExit, leftovers, deaths, signals>>

\* wait: for every child of the script, listed or not.
Wait ==
  /\ mode = "wait"
  /\ \A p \in Processes : ~Running(p)
  /\ mode' = IF final THEN "exited" ELSE "script"
  /\ UNCHANGED <<position, final, PIDS, FAILED, ran, benchExit, status, leftovers, deaths, signals>>

\* A signal that comes while the script is at work runs cleanup, after the
\* command it has hit: a scenario that INT hits fails.
Signal ==
  /\ mode # "exited" /\ signals < MaxSignals
  /\ signals' = signals + 1
  /\ mode' = "term"
  /\ \/ UNCHANGED <<position, FAILED>>
     \/ At("scenario") /\ FAILED' = FAILED + 1 /\ position' = position + 1
  /\ UNCHANGED <<final, PIDS, ran, benchExit, status, leftovers, deaths>>

-----------------------------------------------------------------------------
(* The processes (external).                                               *)

Become(p, from, to) ==
  /\ status[p] \in from
  /\ status' = [status EXCEPT ![p] = to]
  /\ UNCHANGED bench

Listens(p) == Become(p, {"starting"}, "up") /\ UNCHANGED <<leftovers, deaths, signals>>

\* A process dies, or goes on without answering.
Breaks(p) ==
  /\ deaths < MaxDeaths /\ deaths' = deaths + 1
  /\ Become(p, {"starting", "up"}, "gone") \/ Become(p, {"starting", "up"}, "hung")
  /\ UNCHANGED <<leftovers, signals>>

\* The port is taken: the process ends, if it cannot share it.
Refused(p) ==
  /\ p \in leftovers
  /\ Become(p, {"starting"}, "gone")
  /\ UNCHANGED <<leftovers, deaths, signals>>

LeftoverGoes(p) ==
  /\ p \in leftovers
  /\ leftovers' = leftovers \ {p}
  /\ UNCHANGED <<bench, status, deaths, signals>>

ScriptStep ==
  \/ RunProcess \/ List \/ wait_port \/ TimedOut \/ Sane \/ RunScenario \/ End
  \/ Term \/ Kill \/ Wait

BenchNext ==
  \/ ScriptStep
  \/ Signal
  \/ \E p \in Processes : Listens(p) \/ Breaks(p) \/ Refused(p) \/ LeftoverGoes(p)

BenchSpec == BenchInit /\ [][BenchNext]_benchVars

\* The script takes its steps: waits are bounded, curl and the harness have
\* timeouts.  Nothing is promised of the processes.
FairBenchSpec == BenchSpec /\ WF_benchVars(ScriptStep)

-----------------------------------------------------------------------------
(* Properties.                                                             *)

\* An exit code of 0 means that every scenario has completed, with signals
\* after which the script goes on, with processes that break on the way and with
\* others that hold their ports: but not that it was this run's that it measured.
ExitZeroMeansAllRan ==
  benchExit = 0 => ran = {Scenarios[k] : k \in DOMAIN Scenarios}

\* A benchmark no signal hits ends, with every process it has started stopped,
\* even those that hang and ignore TERM or find their port taken.
BenchEnds == [](signals = 0) => <>[](mode = "exited" /\ \A p \in Processes : ~Running(p))

=============================================================================
