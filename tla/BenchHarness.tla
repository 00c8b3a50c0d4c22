---------------------------- MODULE BenchHarness ----------------------------
(***************************************************************************)
(* bench/harness.py: one run of the load driver over the arms of a         *)
(* scenario.  Every arm has a warmup and a measured phase; in each phase a *)
(* pool of worker threads takes indices from one counter and sends one     *)
(* request per index over a connection of its own.  The server and the     *)
(* cache of llm-d-sc behind it are external.                               *)
(***************************************************************************)
EXTENDS Integers, Sequences, FiniteSets

CONSTANTS
  Workers,      \* the worker threads of a phase (arm.concurrency of them)
  Plan,         \* the arms of the scenario: a sequence of [name, mode, measured]
  Warmup,       \* arm.warmup
  AllowErrors,  \* arm.allow_errors
  Faults,       \* what may go wrong in this instance
  None

FaultKinds == {"connect", "transport", "status", "close", "build", "callback"}

ASSUME HarnessAssumption ==
  /\ Workers # {} /\ IsFiniteSet(Workers)
  /\ Plan # << >> /\ Plan \in Seq([name : STRING, mode : {"hit", "miss"}, measured : Nat])
  /\ Warmup \in Nat /\ AllowErrors \in Nat
  /\ Faults \subseteq FaultKinds

VARIABLES
  arm,      \* position in Plan
  phase,    \* where run_arm, and then main, is
  worker,   \* where each thread of the current phase is
  conn,     \* has the thread a connection
  job,      \* the index the thread has taken
  local,    \* the records the thread has collected
  counter,  \* _Counter._i
  sink,     \* the records of the phase
  warmed,   \* result.warmup_records
  results,  \* the arms that have been reduced
  cache,    \* the prompt keys in llm-d-sc's result cache
  hits,     \* did the request a thread has in flight hit it
  exit      \* exit code of main

pool == <<worker, conn, job, local, counter, sink>>
vars == <<arm, phase, pool, warmed, results, cache, hits, exit>>

-----------------------------------------------------------------------------
(* Keys, records and assertions.                                           *)

\* A bug to catch: a miss arm warms up with the keys it will measure.
BugOneNamespace(mode, ph, name, i) ==
  IF mode = "hit" THEN <<"measure", name, 0>> ELSE <<"measure", name, i>>

\* The key of request i, with `name` for the arm's own run id: one key for a
\* hit arm; for a miss arm a fresh one, in warmup from a namespace apart.
key_for(mode, ph, name, i) ==
  CASE mode = "hit" -> <<"measure", name, 0>>
    [] mode = "miss" /\ ph = "warmup" -> <<"warm", "any_run", i>>
    [] mode = "miss" /\ ph = "measured" -> <<"measure", name, i>>

KeyOf(w) == key_for(Plan[arm].mode, phase, Plan[arm].name, job[w])

\* A record: its status is "200", another one, or "none" if the transport failed.
Rec(w, status) == [w |-> w, i |-> job[w], key |-> KeyOf(w), status |-> status, hit |-> hits[w]]

Errors(recs) == Cardinality({r \in recs : r.status # "200"})

Keys(recs) == {r.key : r \in recs}

\* assert_cache_discipline: one key, or no key twice.
CacheDiscipline(mode, recs) ==
  Cardinality(Keys(recs)) = IF mode = "hit" THEN 1 ELSE Cardinality(recs)

\* A bug to catch: a short window passes for a full one.
BugShortWindow(a, warmup, recs) ==
  /\ Cardinality(recs) <= a.measured
  /\ Errors(recs) <= AllowErrors
  /\ Cardinality(warmup) = Warmup
  /\ CacheDiscipline(a.mode, recs)

\* The checks every arm gets; the percentiles of any window are monotone.
harness_assertions(a, warmup, recs) ==
  /\ Cardinality(recs) = a.measured
  /\ Errors(recs) <= AllowErrors
  /\ Cardinality(warmup) = Warmup
  /\ CacheDiscipline(a.mode, recs)

\* A dict from name to keys: of two arms with one name the later one stays.
KeysByArm(name) ==
  LET of == {k \in DOMAIN results : results[k].name = name /\ results[k].mode = "miss"}
  IN  Keys(results[CHOOSE k \in of : \A j \in of : j <= k].records)

MissNames == {results[k].name : k \in {k \in DOMAIN results : results[k].mode = "miss"}}

no_cross_arm_key_reuse ==
  \A a, b \in MissNames : a # b => KeysByArm(a) \cap KeysByArm(b) = {}

-----------------------------------------------------------------------------
(* run_arm.                                                                *)

Init ==
  /\ arm = 1 /\ phase = "setup"
  /\ worker = [w \in Workers |-> "ended"]
  /\ conn = [w \in Workers |-> FALSE]
  /\ job = [w \in Workers |-> None]
  /\ local = [w \in Workers |-> {}]
  /\ counter = 0
  /\ sink = {} /\ warmed = {}
  /\ results = << >>
  \* Warm keys carry no run id: an earlier run may have left them behind.
  /\ cache = {<<"warm", "any_run", i>> : i \in 0 .. Warmup - 1}
  /\ hits = [w \in Workers |-> FALSE]
  /\ exit = None

Count(ph) == IF ph = "warmup" THEN Warmup ELSE Plan[arm].measured

\* _drive_phase starts its threads, or returns at once for a count of 0.
Drive(ph) ==
  /\ phase' = ph
  /\ worker' = [w \in Workers |-> IF Count(ph) = 0 THEN "ended" ELSE "connect"]
  /\ conn' = [w \in Workers |-> FALSE]
  /\ job' = [w \in Workers |-> None]
  /\ local' = [w \in Workers |-> {}]
  /\ counter' = 0
  /\ sink' = {}

StartWarmup ==
  /\ phase = "setup"
  /\ Drive("warmup")
  /\ UNCHANGED <<arm, warmed, results, cache, hits, exit>>

\* for t in threads: t.join(); a thread that died joins as well.
Joined == \A w \in Workers : worker[w] \in {"ended", "dead"}

StartMeasured ==
  /\ phase = "warmup" /\ Joined
  /\ Drive("measured")
  /\ warmed' = sink
  /\ UNCHANGED <<arm, results, cache, hits, exit>>

\* The window is closed: reduce it, assert, and go to the next arm.
Reduce ==
  /\ phase = "measured" /\ Joined
  /\ results' = Append(results,
       [ name |-> Plan[arm].name, mode |-> Plan[arm].mode, warmup |-> warmed, records |-> sink,
         passed |-> harness_assertions(Plan[arm], warmed, sink) ])
  /\ IF arm = Len(Plan) THEN phase' = "report" /\ UNCHANGED arm
                        ELSE phase' = "setup" /\ arm' = arm + 1
  /\ sink' = {} /\ warmed' = {}
  /\ worker' = [w \in Workers |-> "ended"]
  /\ UNCHANGED <<conn, job, local, counter, cache, hits, exit>>

\* setup, assertions, summarize or teardown of an arm raises: main is left
\* with the records written so far and without a results document.
CallbackRaises ==
  /\ "callback" \in Faults
  /\ phase \in {"setup", "measured"}
  /\ phase = "measured" => Joined
  /\ phase' = "raised"
  /\ UNCHANGED <<arm, pool, warmed, results, cache, hits, exit>>

\* main: assert across arms, write the document, exit 1 if anything failed.
Report ==
  /\ phase = "report"
  /\ exit' = IF no_cross_arm_key_reuse /\ \A k \in DOMAIN results : results[k].passed
             THEN 0 ELSE 1
  /\ phase' = "ended"
  /\ UNCHANGED <<arm, pool, warmed, results, cache, hits>>

-----------------------------------------------------------------------------
(* The worker threads of _drive_phase.                                     *)

\* Connect before the clock starts; a failure is remembered, not raised.
Connect(w) ==
  /\ worker[w] = "connect"
  /\ \/ conn' = [conn EXCEPT ![w] = TRUE]
     \/ "connect" \in Faults /\ UNCHANGED conn
  /\ worker' = [worker EXCEPT ![w] = "barrier"]
  /\ UNCHANGED <<arm, phase, job, local, counter, sink, warmed, results, cache, hits, exit>>

\* barrier.wait() of the threads and the driver returns, and t0 is read.
Barrier ==
  /\ \A w \in Workers : worker[w] = "barrier"
  /\ worker' = [w \in Workers |-> "loop"]
  /\ UNCHANGED <<arm, phase, conn, job, local, counter, sink, warmed, results, cache, hits, exit>>

\* A bug to catch: the counter is moved outside the lock, so two threads may
\* read the same index.
BugTakeUnlocked(w) ==
  /\ counter < Count(phase)
  /\ job' = [job EXCEPT ![w] = counter]
  /\ counter' = IF \E v \in Workers : job[v] = counter THEN counter + 1 ELSE counter

\* _Counter.take, under its lock.
take(w) ==
  /\ counter < Count(phase)
  /\ job' = [job EXCEPT ![w] = counter]
  /\ counter' = counter + 1

\* Take an index; a thread without a connection reconnects first.
Take(w) ==
  /\ worker[w] = "loop"
  /\ take(w)
  /\ worker' = [worker EXCEPT ![w] = IF conn[w] THEN "send" ELSE "reconnect"]
  /\ UNCHANGED <<arm, phase, conn, local, sink, warmed, results, cache, hits, exit>>

\* arm.build raises: nothing catches it, the thread and its records are gone.
BuildRaises(w) ==
  /\ "build" \in Faults
  /\ worker[w] = "loop"
  /\ take(w)
  /\ worker' = [worker EXCEPT ![w] = "dead"]
  /\ local' = [local EXCEPT ![w] = {}]
  /\ UNCHANGED <<arm, phase, conn, sink, warmed, results, cache, hits, exit>>

\* The record of the index is appended and the thread goes on.
Recorded(w, status) ==
  /\ local' = [local EXCEPT ![w] = @ \cup {Rec(w, status)}]
  /\ job' = [job EXCEPT ![w] = None]
  /\ worker' = [worker EXCEPT ![w] = "loop"]
  /\ hits' = [hits EXCEPT ![w] = FALSE]

Reconnect(w) ==
  /\ worker[w] = "reconnect"
  /\ conn' = [conn EXCEPT ![w] = TRUE]
  /\ worker' = [worker EXCEPT ![w] = "send"]
  /\ UNCHANGED <<arm, phase, job, local, counter, sink, warmed, results, cache, hits, exit>>

\* A bug to catch: an index that could not be sent is put back.
BugRetryForever(w) ==
  /\ "connect" \in Faults
  /\ worker[w] = "reconnect"
  /\ counter' = counter - 1
  /\ job' = [job EXCEPT ![w] = None]
  /\ worker' = [worker EXCEPT ![w] = "loop"]
  /\ UNCHANGED <<arm, phase, conn, local, sink, warmed, results, cache, hits, exit>>

\* The failure to reconnect is the record of the index.
ReconnectFails(w) ==
  /\ "connect" \in Faults
  /\ worker[w] = "reconnect"
  /\ Recorded(w, "none")
  /\ UNCHANGED <<arm, phase, conn, counter, sink, warmed, results, cache, exit>>

\* t0 is read and the request goes out; llm-d-sc looks its key up.
Send(w) ==
  /\ worker[w] = "send"
  /\ worker' = [worker EXCEPT ![w] = "await"]
  /\ hits' = [hits EXCEPT ![w] = KeyOf(w) \in cache]
  /\ UNCHANGED <<arm, phase, conn, job, local, counter, sink, warmed, results, cache, exit>>

\* The whole response is read; the server may close the connection.
Answer(w) ==
  /\ worker[w] = "await"
  /\ \/ Recorded(w, "200") /\ cache' = cache \cup {KeyOf(w)}
     \/ /\ "status" \in Faults
        /\ Recorded(w, "other") /\ UNCHANGED cache
  /\ \/ UNCHANGED conn
     \/ "close" \in Faults /\ conn' = [conn EXCEPT ![w] = FALSE]
  /\ UNCHANGED <<arm, phase, counter, sink, warmed, results, exit>>

\* Any exception, the socket timeout included: an error record, not a retry.
\* The request may have been served all the same.
Fail(w) ==
  /\ "transport" \in Faults
  /\ worker[w] = "await"
  /\ Recorded(w, "none")
  /\ cache' \in {cache, cache \cup {KeyOf(w)}}
  /\ conn' = [conn EXCEPT ![w] = FALSE]
  /\ UNCHANGED <<arm, phase, counter, sink, warmed, results, exit>>

\* No index is left: close, and add the thread's records to the sink.
Finish(w) ==
  /\ worker[w] = "loop"
  /\ counter >= Count(phase)
  /\ sink' = sink \cup local[w]
  /\ local' = [local EXCEPT ![w] = {}]
  /\ conn' = [conn EXCEPT ![w] = FALSE]
  /\ worker' = [worker EXCEPT ![w] = "ended"]
  /\ UNCHANGED <<arm, phase, job, counter, warmed, results, cache, hits, exit>>

-----------------------------------------------------------------------------

Ended ==
  /\ phase \in {"ended", "raised"}
  /\ UNCHANGED vars

Driver == StartWarmup \/ StartMeasured \/ Reduce \/ Report \/ Barrier

WorkerStep(w) ==
  \/ Connect(w) \/ Take(w) \/ Reconnect(w) \/ ReconnectFails(w)
  \/ Send(w) \/ Answer(w) \/ Fail(w) \/ Finish(w)

Next ==
  \/ Driver
  \/ CallbackRaises
  \/ \E w \in Workers : WorkerStep(w) \/ BuildRaises(w)
  \/ Ended

Spec == Init /\ [][Next]_vars

\* Threads are scheduled, and a request ends: with the answer, or with the
\* timeout every socket has.
Fairness == WF_vars(Driver) /\ \A w \in Workers : WF_vars(WorkerStep(w))

FairSpec == Spec /\ Fairness

-----------------------------------------------------------------------------
(* Properties.                                                             *)

\* The records and jobs of the running phase, wherever they are.
Seen == sink \cup UNION {local[w] : w \in Workers}

InFlight == {w \in Workers : worker[w] \in {"reconnect", "send", "await"}}

\* The closed loop neither repeats nor invents work: an index is in one
\* record or in the hands of one thread, and it was handed out.
EachIndexOnce ==
  /\ \A r, q \in Seen : r.i = q.i => r = q
  /\ \A v, w \in InFlight : job[v] = job[w] => v = w
  /\ \A w \in InFlight, r \in Seen : r.i # job[w]
  /\ \A r \in Seen : r.i < counter

\* A thread that dies takes its records with it; an arm that passes its
\* assertions has one record for every measured index all the same, all but
\* AllowErrors of the indices were answered with 200, and the warmup is as long
\* as it should be.
PassedMeansComplete ==
  \A k \in DOMAIN results : results[k].passed =>
    /\ {r.i : r \in results[k].records} = 0 .. Plan[k].measured - 1
    /\ Cardinality(results[k].records) = Plan[k].measured
    /\ Cardinality({r.i : r \in {q \in results[k].records : q.status = "200"}})
         >= Plan[k].measured - AllowErrors
    /\ Cardinality(results[k].warmup) = Warmup

\* No request of a miss arm is served from llm-d-sc's cache in a run that
\* exits 0: not from its own warmup, not from an earlier run's, not from
\* another arm's requests (run_arm, _cross_arm_key_reuse_assertion).
MissesMiss ==
  exit = 0 =>
    \A k \in DOMAIN results : results[k].mode = "miss" =>
      \A r \in results[k].records : ~r.hit

\* A run ends, whatever fails in it.
RunEnds == <>(phase \in {"ended", "raised"})

=============================================================================
