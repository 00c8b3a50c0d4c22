------------------------------- MODULE Publish -------------------------------
(***************************************************************************)
(* The way from a benchmark run to the page: bench/harness.py writes the   *)
(* JSON of each run, bench/report.py reads what is in results/ and writes  *)
(* BENCHMARKS.md.  Runs and reports are processes of their own, nothing    *)
(* locks the directory, and a run given --out writes over the JSON of the  *)
(* run before it (so does the copy that affinity/orchestrate.sh:28 makes). *)
(* A run is abstracted to its spec, its path, the order of its manifest's  *)
(* time stamp and whether its assertions passed.                           *)
(***************************************************************************)
EXTENDS Naturals

CONSTANTS
  Runs,        \* the runs of the harness
  spec,        \* [run -> SPEC_ID of its scenario]
  path,        \* [run -> place of its JSON in the sorted order of results/]
  MaxReports,  \* bound: reports generated
  NoRun

ASSUME PublishAssumption ==
  /\ path \in [Runs -> Nat] /\ MaxReports \in Nat
  /\ Runs \cap {NoRun, "absent", "partial"} = {}
  /\ NoRun # {}

Specs == {spec[r] : r \in Runs}
Paths == {path[r] : r \in Runs}

VARIABLES
  stage,     \* [run -> "new", "measured", "opened", "done" or "dead"]
  unix,      \* [run -> order of its manifest's time stamp, 0 before]
  passed,    \* [run -> no assertion failed]
  clock,     \* the last time stamp
  files,     \* [path -> "absent", "partial" or the run whose JSON it is]
  todo,      \* the paths report.py has still to read; NoRun: no report runs
  best,      \* latest_by_spec of what load_runs has read so far
  page,      \* BENCHMARKS.md: [spec -> the run of its chapter, or NoRun]
  reports,
  intact,    \* history: the runs on disk when the report began, not
             \* written over since
  shown      \* history: intact when the page was written

harness == <<stage, unix, passed, clock>>
report == <<todo, best, page, reports, shown>>
publishVars == <<harness, files, report, intact>>

NoChapters == [s \in Specs |-> NoRun]

PublishInit ==
  /\ stage = [r \in Runs |-> "new"]
  /\ unix = [r \in Runs |-> 0] /\ passed = [r \in Runs |-> FALSE] /\ clock = 0
  /\ files = [p \in Paths |-> "absent"]
  /\ todo = NoRun /\ best = NoChapters /\ page = NoChapters /\ reports = 0
  /\ intact = {} /\ shown = {}

-----------------------------------------------------------------------------
(* The harness.                                                            *)

\* The arms have run and been judged: the manifest is built.
build_manifest(r) ==
  /\ stage[r] = "new"
  /\ stage' = [stage EXCEPT ![r] = "measured"]
  /\ clock' = clock + 1
  /\ unix' = [unix EXCEPT ![r] = clock + 1]
  /\ \E ok \in BOOLEAN : passed' = [passed EXCEPT ![r] = ok]
  /\ UNCHANGED <<files, report, intact>>

\* open(out_path, "w"): whatever was there is gone.
Open(r) ==
  /\ stage[r] = "measured"
  /\ stage' = [stage EXCEPT ![r] = "opened"]
  /\ files' = [files EXCEPT ![path[r]] = "partial"]
  /\ intact' = {q \in intact : path[q] # path[r]}
  /\ UNCHANGED <<unix, passed, clock, report>>

\* Of two runs that write to one path the last to close it is read.
Dump(r) ==
  /\ stage[r] = "opened"
  /\ stage' = [stage EXCEPT ![r] = "done"]
  /\ files' = [files EXCEPT ![path[r]] = r]
  /\ intact' = {q \in intact : path[q] # path[r]}
  /\ UNCHANGED <<unix, passed, clock, report>>

\* A run is killed: the JSON stays as far as it got.  One whose arm raises
\* writes nothing, like one that has not begun.
Die(r) ==
  /\ stage[r] \in {"measured", "opened"}
  /\ stage' = [stage EXCEPT ![r] = "dead"]
  /\ UNCHANGED <<unix, passed, clock, files, report, intact>>

-----------------------------------------------------------------------------
(* The report.                                                             *)

\* glob.glob(...): the directory is listed once.
Glob ==
  /\ todo = NoRun /\ reports < MaxReports
  /\ reports' = reports + 1
  /\ todo' = {p \in Paths : files[p] # "absent"}
  /\ best' = NoChapters
  /\ intact' = {r \in Runs : files[path[r]] = r}
  /\ UNCHANGED <<harness, files, page, shown>>

\* Mutant: the last file read wins.
Buglatest_by_spec(table, r) == [table EXCEPT ![spec[r]] = r]

\* One run per spec, the most recent by its manifest; the first read wins a
\* tie.  What one run more makes of the table: the function goes through them
\* in the order in which they were read.
latest_by_spec(table, r) ==
  IF table[spec[r]] = NoRun \/ unix[r] > unix[table[spec[r]]]
    THEN [table EXCEPT ![spec[r]] = r]
    ELSE table

\* One file of load_runs, in the sorted order; one that does not parse is
\* skipped.
load_runs ==
  /\ todo # NoRun
  /\ \E p \in todo :
       /\ \A q \in todo : p <= q
       /\ todo' = todo \ {p}
       /\ best' = IF files[p] \in Runs THEN latest_by_spec(best, files[p]) ELSE best
  /\ UNCHANGED <<harness, files, page, reports, intact, shown>>

\* Without a run report.py returns 1 and leaves the page alone.
Render ==
  /\ todo = {}
  /\ todo' = NoRun
  /\ IF best = NoChapters
       THEN UNCHANGED <<page, shown>>
       ELSE page' = best /\ shown' = intact
  /\ UNCHANGED <<harness, files, best, reports, intact>>

\* What a chapter holds.  Its tables are printed for every run, its
\* interpretation only for one whose assertions all passed.
Tables(s) == page[s] # NoRun
Interpreted(s) == Tables(s) /\ passed[page[s]]

\* "Not yet measured ... No run JSON exists in bench/results/."
not_yet_measured == {s \in Specs : page[s] = NoRun}

-----------------------------------------------------------------------------
PublishNext ==
  \/ \E r \in Runs : build_manifest(r) \/ Open(r) \/ Dump(r) \/ Die(r)
  \/ Glob \/ load_runs \/ Render

PublishSpec == PublishInit /\ [][PublishNext]_publishVars

-----------------------------------------------------------------------------
(* Properties.                                                             *)

\* A run whose JSON was there when the report began and stayed there while it
\* read is not called not yet measured: its chapter is of that run or of a
\* later one of its spec, whatever the harness wrote or broke off in the
\* meantime (latest_by_spec, "the most recent, by manifest timestamp").  A
\* chapter that is interpreted is not older than a failed run of its spec.
PageIsLatest ==
  \A r \in shown :
    /\ spec[r] \notin not_yet_measured
    /\ unix[page[spec[r]]] >= unix[r]
    /\ Interpreted(spec[r]) /\ ~passed[r] => unix[page[spec[r]]] > unix[r]

=============================================================================
