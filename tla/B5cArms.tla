------------------------------ MODULE B5cArms -------------------------------
(***************************************************************************)
(* bench/scenarios/b5c_end_to_end_incluster.py: the four arms of the       *)
(* end-to-end comparison, one after another at concurrency 1.  An arm      *)
(* reads the counters of the gateway and of its backends before and after  *)
(* its requests, and its assertions decide from the differences what the   *)
(* arm has measured.  External: the gateway, which other clients use too,  *)
(* llm-d-sc with its result cache, which outlives the run, and the two     *)
(* llama.cpp servers with one slot each, which count a generation when it  *)
(* ends.  The gateway and the servers may restart; their counters then     *)
(* start from 0.                                                           *)
(***************************************************************************)
EXTENDS Integers, Sequences, FiniteSets

CONSTANTS
  HeldOut,       \* [label -> its held-out prompts, a sequence]
  PerClass,      \* per_class
  Ours,          \* tokens one of our requests generates
  Foreign,       \* tokens generations of other tenants may have
  MaxRuns,       \* bound: runs of the scenario
  MaxForeign,    \* bound: generations of other tenants
  MaxStrangers,  \* bound: classifications for other clients of the gateway
  MaxFaults,     \* bound: classifications, requests and scrapes that fail, and
                 \* restarts of the gateway or of a backend
  None

ASSUME B5cAssumption ==
  /\ PerClass \in Nat \ {0} /\ Ours \in Nat \ {0} /\ Foreign \subseteq Nat
  /\ {MaxRuns, MaxForeign, MaxStrangers, MaxFaults} \subseteq Nat

backends == {"small", "large"}

\* specs: the arms in order.
specs == <<"classify-probe", "always-large", "always-small", "classified">>

Classifies(a) == a \in {"classify-probe", "classified"}

\* The backends whose counters an arm watches.
Watched(a) ==
  CASE a = "classify-probe" -> {}
    [] a = "always-large" -> {"large"}
    [] a = "always-small" -> {"small"}
    [] a = "classified" -> backends

\* A bug to catch: the offset of the probe's prompts is left out.
BugSlice(offset) ==
  UNION {{HeldOut[l][k] : k \in (1 .. PerClass) \cap DOMAIN HeldOut[l]} : l \in DOMAIN HeldOut}

_slice(offset) ==
  UNION {{HeldOut[l][k] : k \in (offset + 1 .. offset + PerClass) \cap DOMAIN HeldOut[l]} : l \in DOMAIN HeldOut}

AllPrompts == UNION {{HeldOut[l][k] : k \in DOMAIN HeldOut[l]} : l \in DOMAIN HeldOut}

Prompts(a) == IF a = "classify-probe" THEN _slice(PerClass) ELSE _slice(0)

VARIABLES
  run,        \* how often the scenario has been started
  arm,        \* position in specs
  pc,         \* "idle", "between", "setup", "send", "queued", "await" or "after"
  unread,     \* the backends still to snapshot in this setup or after it
  todo,       \* the prompts still to send: their order makes no difference here
  request,    \* the request under way
  records,    \* the records of the arm
  before,     \* praxis_before and backend_before
  after,      \* praxis_after and backend_after
  report,     \* the arm reported last, with what really happened in it
  classify,   \* the gateway's llm_d_sc_classify_total: all, and with status OK
  slot,       \* [backend -> the generation in its slot, None if idle]
  tokens,     \* [backend -> tokens_predicted_total]
  cache,      \* the prompts in llm-d-sc's result cache
  inherited,  \* history: the prompts in the cache that no arm of this run put there
  intruded,   \* history: [backend -> foreign tokens between its two snapshots]
  restarted,  \* history: which of the gateway and the backends restarted between
              \* the two readings of their counters
  foreigners, strangers, faults

driver == <<run, arm, pc, unread, todo, request, records, before, after, report>>
world == <<classify, slot, tokens, cache, inherited, intruded, restarted>>
bounds == <<foreigners, strangers, faults>>
vars == <<driver, world, bounds>>

name == specs[arm]

NoReading == [praxis |-> None, backend |-> [b \in backends |-> None]]
NoReport == [arm |-> None, passed |-> FALSE, records |-> {}, intruded |-> [b \in backends |-> 0],
             restarted |-> {}]

Init ==
  /\ run = 0 /\ arm = 1 /\ pc = "idle"
  /\ unread = {} /\ todo = {} /\ request = None /\ records = {}
  /\ before = NoReading /\ after = NoReading /\ report = NoReport
  /\ classify = [total |-> 0, ok |-> 0]
  /\ slot = [b \in backends |-> None]
  /\ tokens = [b \in backends |-> 0]
  /\ cache = {} /\ inherited = {}
  /\ intruded = [b \in backends |-> 0] /\ restarted = {}
  /\ foreigners = 0 /\ strangers = 0 /\ faults = 0

-----------------------------------------------------------------------------
(* The assertions of an arm.                                               *)

Ok(recs) == {r \in recs : r.ok}

Generated(recs, b) == Ours * Cardinality({r \in Ok(recs) : r.model = b})

\* harness_assertions with an error budget of zero.
Complete(recs, n) == Cardinality(Ok(recs)) = n /\ Cardinality(recs) = n

\* Every answer came from where the arm wants it.
Wired(a, recs) ==
  CASE a = "classify-probe" -> \A r \in Ok(recs) : r.model = "b7-static"
    [] a = "classified" -> \A b \in backends : \E r \in Ok(recs) : r.model = b
    [] OTHER -> {r.model : r \in Ok(recs)} = Watched(a)

\* A bug to catch: it is enough that so many classifications succeeded.
BugCounted(a, b, c, n) ==
  /\ b # None /\ c # None
  /\ ~Classifies(a) => c.total = b.total
  /\ a = "classified" => c.ok - b.ok = n

\* The gateway's counter moved by the arm's requests, or not at all; only the
\* classified arm looks at the OK series.
Counted(a, b, c, n) ==
  /\ b # None /\ c # None
  /\ c.total - b.total = IF Classifies(a) THEN n ELSE 0
  /\ a = "classified" => c.ok - b.ok = n

\* A bug to catch: the classified arm's tokens count against either backend.
Bug_contention_assertion(b, recs) ==
  /\ before.backend[b] # None /\ after.backend[b] # None
  /\ LET foreign == after.backend[b] - before.backend[b] - Ours * Cardinality(Ok(recs))
     IN  foreign <= 1 \/ foreign * 20 <= Ours * Cardinality(Ok(recs))

\* Tokens the backend generated and we did not ask it for: at most 1 or 5%.
_contention_assertion(b, recs) ==
  /\ before.backend[b] # None /\ after.backend[b] # None
  /\ LET ours == Generated(recs, b)
         foreign == after.backend[b] - before.backend[b] - ours
     IN  foreign <= 1 \/ foreign * 20 <= ours

_assertions ==
  LET n == Cardinality(Prompts(name)) IN
    /\ Complete(records, n)
    /\ Wired(name, records)
    /\ Counted(name, before.praxis, after.praxis, n)
    /\ \A b \in Watched(name) : _contention_assertion(b, records)

-----------------------------------------------------------------------------
(* The run.                                                                *)

Start ==
  /\ pc = "idle" /\ run < MaxRuns
  /\ run' = run + 1 /\ arm' = 1 /\ pc' = "between"
  /\ inherited' = cache
  /\ UNCHANGED <<unread, todo, request, records, before, after, report,
                 classify, slot, tokens, cache, intruded, restarted, bounds>>

\* setup: the idle gate lets the arm run whatever it has seen; then the
\* gateway's counters.  If they cannot be read the run ends in an exception.
setup ==
  /\ pc = "between"
  /\ pc' = "setup"
  /\ before' = [NoReading EXCEPT !.praxis = classify]
  /\ after' = NoReading
  /\ unread' = Watched(name)
  /\ todo' = Prompts(name) /\ records' = {}
  /\ intruded' = [b \in backends |-> 0] /\ restarted' = {}
  /\ UNCHANGED <<run, arm, request, report, classify, slot, tokens, cache, inherited, bounds>>

\* snapshot: a scrape that fails is noted and the arm goes on.
SnapshotBefore(b) ==
  /\ pc = "setup" /\ b \in unread
  /\ unread' = unread \ {b}
  /\ \/ before' = [before EXCEPT !.backend[b] = tokens[b]] /\ UNCHANGED faults
     \/ faults < MaxFaults /\ faults' = faults + 1 /\ UNCHANGED before
  /\ intruded' = [intruded EXCEPT ![b] = 0] /\ restarted' = restarted \ {b}
  /\ UNCHANGED <<run, arm, pc, todo, request, records, after, report,
                 classify, slot, tokens, cache, inherited, foreigners, strangers>>

Drive ==
  /\ pc = "setup" /\ unread = {}
  /\ pc' = "send"
  /\ UNCHANGED <<run, arm, unread, todo, request, records, before, after, report, world, bounds>>

\* The gateway classifies the prompt, from the cache if it is there; a
\* classification that fails opens to the small backend.
Classify(p) ==
  \/ /\ classify' = [total |-> classify.total + 1, ok |-> classify.ok + 1]
     /\ cache' = cache \cup {p}
     /\ \E b \in backends :
          request' = [prompt |-> p, classified |-> TRUE, cached |-> p \in cache,
                      model |-> IF name = "classify-probe" THEN "b7-static" ELSE b]
     /\ UNCHANGED faults
  \/ /\ faults < MaxFaults /\ faults' = faults + 1
     /\ classify' = [classify EXCEPT !.total = @ + 1]
     /\ request' = [prompt |-> p, classified |-> FALSE, cached |-> FALSE,
                    model |-> IF name = "classify-probe" THEN "b7-static" ELSE "small"]
     /\ UNCHANGED cache

\* One request: classified, or routed as the arm's chain says.
Send(p) ==
  /\ pc = "send" /\ p \in todo
  /\ todo' = todo \ {p}
  /\ IF Classifies(name)
       THEN Classify(p)
       ELSE /\ request' = [prompt |-> p, classified |-> FALSE, cached |-> FALSE,
                           model |-> IF name = "always-large" THEN "large" ELSE "small"]
            /\ UNCHANGED <<classify, cache, faults>>
  /\ pc' = "queued"
  /\ UNCHANGED <<run, arm, unread, records, before, after, report,
                 slot, tokens, inherited, intruded, restarted, foreigners, strangers>>

Record(ok) == [prompt |-> request.prompt, ok |-> ok, model |-> request.model,
               classified |-> request.classified, cached |-> request.cached]

\* static_response answers the probe.
Static ==
  /\ pc = "queued" /\ request.model = "b7-static"
  /\ records' = records \cup {Record(TRUE)} /\ request' = None
  /\ pc' = "send"
  /\ UNCHANGED <<run, arm, unread, todo, before, after, report, world, bounds>>

\* The request gets the backend's slot.
Serve(b) ==
  /\ pc = "queued" /\ request.model = b /\ slot[b] = None
  /\ slot' = [slot EXCEPT ![b] = [ours |-> TRUE, tokens |-> Ours]]
  /\ pc' = "await"
  /\ UNCHANGED <<run, arm, unread, todo, request, records, before, after, report,
                 classify, tokens, cache, inherited, intruded, restarted, bounds>>

Respond(b) ==
  /\ pc = "await" /\ request.model = b
  /\ slot' = [slot EXCEPT ![b] = None]
  /\ tokens' = [tokens EXCEPT ![b] = @ + Ours]
  /\ records' = records \cup {Record(TRUE)} /\ request' = None
  /\ pc' = "send"
  /\ UNCHANGED <<run, arm, unread, todo, before, after, report,
                 classify, cache, inherited, intruded, restarted, bounds>>

\* The generation of a request that failed: cancelled, or run to its end with
\* nobody waiting for it.
Abandoned(b) ==
  IF slot[b] # None /\ slot[b].ours THEN {None, [slot[b] EXCEPT !.ours = FALSE]} ELSE {slot[b]}

Slots ==
  {s \in [backends -> UNION {Abandoned(b) : b \in backends}] :
     \A b \in backends : s[b] \in Abandoned(b)}

\* The request under way ends without an answer: a record like any other.
Broken ==
  /\ records' = records \cup {Record(FALSE)} /\ request' = None
  /\ pc' = "send"

\* The request ends in an error or a timeout.
Fail ==
  /\ pc \in {"queued", "await"} /\ faults < MaxFaults
  /\ faults' = faults + 1
  /\ Broken
  /\ slot' \in Slots
  /\ UNCHANGED <<run, arm, unread, todo, before, after, report,
                 classify, tokens, cache, inherited, intruded, restarted,
                 foreigners, strangers>>

\* _observe, once per arm: the gateway first, then the backends.
Observe ==
  /\ pc = "send" /\ todo = {}
  /\ after' = [after EXCEPT !.praxis = classify]
  /\ unread' = Watched(name)
  /\ pc' = "after"
  /\ UNCHANGED <<run, arm, todo, request, records, before, report, world, bounds>>

SnapshotAfter(b) ==
  /\ pc = "after" /\ b \in unread
  /\ unread' = unread \ {b}
  /\ \/ after' = [after EXCEPT !.backend[b] = tokens[b]] /\ UNCHANGED faults
     \/ faults < MaxFaults /\ faults' = faults + 1 /\ UNCHANGED after
  /\ UNCHANGED <<run, arm, pc, todo, request, records, before, report,
                 world, foreigners, strangers>>

\* The arm is reported, and the next one begins.
Report ==
  /\ pc = "after" /\ unread = {}
  /\ report' = [arm |-> name, passed |-> _assertions, records |-> records, intruded |-> intruded,
                restarted |-> restarted]
  /\ arm' = IF arm < Len(specs) THEN arm + 1 ELSE 1
  /\ pc' = IF arm < Len(specs) THEN "between" ELSE "idle"
  /\ records' = {} /\ before' = NoReading /\ after' = NoReading
  /\ UNCHANGED <<run, unread, todo, request, world, bounds>>

\* The gateway's metrics cannot be read: the run ends.
ScrapeRaises ==
  /\ pc = "between" \/ (pc = "send" /\ todo = {})
  /\ faults < MaxFaults /\ faults' = faults + 1
  /\ pc' = "idle" /\ records' = {} /\ before' = NoReading /\ after' = NoReading
  /\ UNCHANGED <<run, arm, unread, todo, request, report, world, foreigners, strangers>>

-----------------------------------------------------------------------------
(* Others (external).                                                      *)

ForeignStarts(b) ==
  /\ slot[b] = None /\ foreigners < MaxForeign
  /\ foreigners' = foreigners + 1
  /\ \E t \in Foreign : slot' = [slot EXCEPT ![b] = [ours |-> FALSE, tokens |-> t]]
  /\ UNCHANGED <<driver, classify, tokens, cache, inherited, intruded, restarted,
                 strangers, faults>>

\* Between the two snapshots of backend b.
Window(b) ==
  \/ pc = "setup" /\ b \notin unread
  \/ pc \in {"send", "queued", "await"}
  \/ pc = "after" /\ b \in unread

ForeignEnds(b) ==
  /\ slot[b] # None /\ ~slot[b].ours
  /\ slot' = [slot EXCEPT ![b] = None]
  /\ tokens' = [tokens EXCEPT ![b] = @ + slot[b].tokens]
  /\ intruded' = IF Window(b) THEN [intruded EXCEPT ![b] = @ + slot[b].tokens] ELSE intruded
  /\ UNCHANGED <<driver, classify, cache, inherited, restarted, bounds>>

\* Another client's prompt is classified, with success, and it may be one of
\* ours or another (None) that llm-d-sc then has in its cache; or without.
StrangerClassified ==
  /\ strangers < MaxStrangers
  /\ strangers' = strangers + 1
  /\ \/ /\ classify' = [total |-> classify.total + 1, ok |-> classify.ok + 1]
        /\ \E p \in AllPrompts \cup {None} :
             /\ cache' = cache \cup {p}
             /\ inherited' = inherited \cup ({p} \ cache)
     \/ /\ classify' = [classify EXCEPT !.total = @ + 1]
        /\ UNCHANGED <<cache, inherited>>
  /\ UNCHANGED <<driver, slot, tokens, intruded, restarted, foreigners, faults>>

\* A backend restarts: its counters are 0 and the generation in its slot is
\* lost, and with it our request if it serves that.
BackendRestarts(b) ==
  /\ faults < MaxFaults /\ faults' = faults + 1
  /\ tokens' = [tokens EXCEPT ![b] = 0]
  /\ slot' = [slot EXCEPT ![b] = None]
  /\ restarted' = IF Window(b) THEN restarted \cup {b} ELSE restarted
  /\ IF pc = "await" /\ request.model = b THEN Broken ELSE UNCHANGED <<pc, request, records>>
  /\ UNCHANGED <<run, arm, unread, todo, before, after, report,
                 classify, cache, inherited, intruded, foreigners, strangers>>

\* The gateway restarts: its counters are 0 and the request under way is lost.
\* A connection that was idle fails at its next use, as any request may.
GatewayRestarts ==
  /\ faults < MaxFaults /\ faults' = faults + 1
  /\ classify' = [total |-> 0, ok |-> 0]
  /\ restarted' = IF pc \in {"setup", "send", "queued", "await"}
                  THEN restarted \cup {"gateway"} ELSE restarted
  /\ IF pc \in {"queued", "await"} THEN Broken /\ slot' \in Slots
                                   ELSE UNCHANGED <<pc, request, records, slot>>
  /\ UNCHANGED <<run, arm, unread, todo, before, after, report,
                 tokens, cache, inherited, intruded, foreigners, strangers>>

Next ==
  \/ Start \/ setup \/ Drive
  \/ \E p \in todo : Send(p)
  \/ \E b \in backends :
       \/ SnapshotBefore(b) \/ SnapshotAfter(b)
       \/ Serve(b) \/ Respond(b)
       \/ ForeignStarts(b) \/ ForeignEnds(b) \/ BackendRestarts(b)
  \/ Static \/ Fail \/ Observe \/ Report \/ ScrapeRaises
  \/ StrangerClassified \/ GatewayRestarts

Spec == Init /\ [][Next]_vars

-----------------------------------------------------------------------------
(* Properties.                                                             *)

\* An arm that passed had its backends to itself: other tenants' generations
\* that ended between a backend's snapshots stay within its budget, although
\* both backends are shared and one arm uses both; unless that backend restarted
\* between them, which the difference of its counters cannot show.
PassedMeansUncontended ==
  report.passed => \A b \in Watched(report.arm) \ report.restarted :
    \/ report.intruded[b] <= 1
    \/ report.intruded[b] * 20 <= Generated(report.records, b)

\* In a classified arm that passed every one of our requests was classified
\* with success, whatever other clients of the gateway added to its counters;
\* unless the gateway restarted between the two readings of them.
PassedMeansClassified ==
  report.passed /\ report.arm = "classified" /\ "gateway" \notin report.restarted =>
    \A r \in report.records : r.classified

\* No arm is served from the result cache because of another arm of its run: what
\* is in the cache for it was there before the run, or is another client's.
ArmsDoNotFeedEachOther == \A r \in records : r.cached => r.prompt \in inherited

=============================================================================
