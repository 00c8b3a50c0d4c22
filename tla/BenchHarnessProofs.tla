-------------------------- MODULE BenchHarnessProofs --------------------------
(***************************************************************************)
(* The closed loop of bench/harness.py, for any number of threads, any     *)
(* plan and any faults: each index is worked on once, an arm that passes   *)
(* its assertions has a record for every index, and no request of a miss   *)
(* arm is served from the cache.  Then the way of the runs to the page,    *)
(* Publish, for any number of runs and reports.                            *)
(***************************************************************************)
EXTENDS BenchHarness, Publish, FiniteSetTheorems, FunctionTheorems, SequenceTheorems, TLAPS

-----------------------------------------------------------------------------
(* Types.                                                                  *)

Key == {"measure", "warm"} \X ({Plan[k].name : k \in DOMAIN Plan} \cup {"any_run"}) \X Nat

Record == [w : Workers, i : Nat, key : Key, status : {"200", "other", "none"}, hit : BOOLEAN]

Idle == {"ended", "dead"}

Busy == {"reconnect", "send", "await"}

TypeOK ==
  /\ arm \in DOMAIN Plan
  /\ phase \in {"setup", "warmup", "measured", "report", "raised", "ended"}
  /\ worker \in [Workers -> Idle \cup {"connect", "barrier", "loop"} \cup Busy]
  /\ job \in [Workers -> Nat \cup {None}]
  /\ local \in [Workers -> SUBSET Record] /\ sink \subseteq Record
  /\ counter \in Nat
  /\ hits \in [Workers -> BOOLEAN]

\* Threads work only while a phase is driven, a busy one on an index it has
\* been handed out, and one that is done has no records left.
PoolOK ==
  \A w \in Workers :
    /\ worker[w] \notin Idle => phase \in {"warmup", "measured"}
    /\ worker[w] \in Busy => job[w] \in Nat
    /\ worker[w] \in Idle => local[w] = {}

\* The plan is a sequence of arms, and a phase of an arm has a length.
LEMMA PlanType ==
  /\ DOMAIN Plan = 1 .. Len(Plan) /\ Len(Plan) \in Nat \ {0}
  /\ \A k \in DOMAIN Plan : Plan[k].mode \in {"hit", "miss"} /\ Plan[k].measured \in Nat
<1> DEFINE Arm == [name : STRING, mode : {"hit", "miss"}, measured : Nat]
<1>1. Plan \in Seq(Arm) /\ Plan # << >>
  BY HarnessAssumption
<1> HIDE DEF Arm
<1>2. DOMAIN Plan = 1 .. Len(Plan) /\ Len(Plan) \in Nat /\ Len(Plan) # 0
  BY <1>1, EmptySeq
<1>3. \A k \in DOMAIN Plan : Plan[k] \in Arm
  BY <1>1, <1>2, ElementOfSeq
<1> QED
  BY <1>2, <1>3 DEF Arm

LEMMA CountType ==
  ASSUME arm \in DOMAIN Plan, NEW ph
  PROVE  Count(ph) \in Nat
  BY PlanType, HarnessAssumption DEF Count

\* The record of an index in flight.
LEMMA RecordType ==
  ASSUME TypeOK, PoolOK, NEW v \in Workers, worker[v] \in Busy, NEW s \in {"200", "other", "none"}
  PROVE  KeyOf(v) \in Key /\ Rec(v, s) \in Record
<1>1. job[v] \in Nat /\ phase \in {"warmup", "measured"} /\ hits[v] \in BOOLEAN
  BY DEF TypeOK, PoolOK, Busy, Idle
<1>2. Plan[arm].mode \in {"hit", "miss"} /\ arm \in DOMAIN Plan
  BY PlanType DEF TypeOK
<1>3. KeyOf(v) \in Key
  <2> DEFINE name == Plan[arm].name
  <2>1. <<"measure", name, job[v]>> \in Key /\ <<"measure", name, 0>> \in Key
    BY <1>1, <1>2 DEF Key
  <2>2. <<"warm", "any_run", job[v]>> \in Key
    BY <1>1 DEF Key
  <2> HIDE DEF name
  <2>3. KeyOf(v) \in {<<"measure", name, job[v]>>, <<"measure", name, 0>>, <<"warm", "any_run", job[v]>>}
    BY <1>1, <1>2 DEF KeyOf, key_for, name
  <2> QED
    BY <2>1, <2>2, <2>3
<1> QED
  BY <1>1, <1>3 DEF Rec, Record


\* What every step of a thread leaves alone.
LEMMA ThreadKeeps ==
  ASSUME NEW v \in Workers, WorkerStep(v) \/ BuildRaises(v)
  PROVE  UNCHANGED <<arm, phase, warmed, results, exit>>
  BY DEF WorkerStep, BuildRaises, Connect, Take, Reconnect, ReconnectFails, Send, Answer, Fail, Finish

LEMMA RecordedType ==
  ASSUME TypeOK, PoolOK, NEW v \in Workers, worker[v] \in Busy,
         NEW s \in {"200", "other", "none"}, Recorded(v, s), UNCHANGED <<arm, phase, counter, sink>>
  PROVE  TypeOK' /\ PoolOK'
<1>1. Rec(v, s) \in Record
  BY RecordType
<1>2. phase \in {"warmup", "measured"}
  BY DEF PoolOK, Busy, Idle
<1> QED
  BY <1>1, <1>2 DEF Recorded, TypeOK, PoolOK, Busy, Idle

LEMMA ThreadType ==
  ASSUME TypeOK, PoolOK, NEW v \in Workers, WorkerStep(v) \/ BuildRaises(v)
  PROVE  TypeOK' /\ PoolOK'
<1>1. CASE Connect(v)
  BY <1>1 DEF Connect, TypeOK, PoolOK, Busy, Idle
<1>2. CASE Take(v)
  <2>1. phase \in {"warmup", "measured"} /\ counter + 1 \in Nat
    BY <1>2 DEF Take, TypeOK, PoolOK, Idle
  <2>2. job' = [job EXCEPT ![v] = counter] /\ counter' = counter + 1
    BY <1>2 DEF Take, take
  <2>3. \E b \in {"send", "reconnect"} : worker' = [worker EXCEPT ![v] = b]
    BY <1>2 DEF Take
  <2>4. worker[v] = "loop" /\ UNCHANGED <<arm, phase, local, sink, hits>>
    BY <1>2 DEF Take
  <2> QED
    BY <2>1, <2>2, <2>3, <2>4 DEF TypeOK, PoolOK, Busy, Idle
<1>3. CASE Reconnect(v)
  BY <1>3 DEF Reconnect, TypeOK, PoolOK, Busy, Idle
<1>4. CASE ReconnectFails(v)
  BY <1>4, RecordedType DEF ReconnectFails, Busy
<1>5. CASE Send(v)
  <2>1. (KeyOf(v) \in cache) \in BOOLEAN
    OBVIOUS
  <2>2. hits' \in [Workers -> BOOLEAN]
    BY <1>5, <2>1 DEF Send, TypeOK
  <2> QED
    BY <1>5, <2>2 DEF Send, TypeOK, PoolOK, Busy, Idle
<1>6. CASE Answer(v)
  BY <1>6, RecordedType DEF Answer, Busy
<1>7. CASE Fail(v)
  BY <1>7, RecordedType DEF Fail, Busy
<1>8. CASE Finish(v)
  BY <1>8 DEF Finish, TypeOK, PoolOK, Busy, Idle
<1>9. CASE BuildRaises(v)
  <2>1. job' = [job EXCEPT ![v] = counter] /\ counter' = counter + 1
    BY <1>9 DEF BuildRaises, take
  <2>2. counter + 1 \in Nat
    BY DEF TypeOK
  <2> QED
    BY <1>9, <2>1, <2>2 DEF BuildRaises, TypeOK, PoolOK, Busy, Idle
<1> QED
  BY <1>1, <1>2, <1>3, <1>4, <1>5, <1>6, <1>7, <1>8, <1>9 DEF WorkerStep

\* A phase that starts has an empty pool.
LEMMA DriveType ==
  ASSUME TypeOK, NEW ph \in {"warmup", "measured"}, Drive(ph)
  PROVE  /\ phase' = ph /\ counter' = 0 /\ sink' = {}
         /\ \A w \in Workers : worker'[w] \in {"ended", "connect"} /\ local'[w] = {}
         /\ worker' \in [Workers -> Idle \cup {"connect", "barrier", "loop"} \cup Busy]
         /\ job' \in [Workers -> Nat \cup {None}] /\ local' \in [Workers -> SUBSET Record]
  BY DEF Drive, Idle

\* The variables hold what the driver and its threads can put into them.
THEOREM TypesHold == Spec => [](TypeOK /\ PoolOK)
<1>1. Init => TypeOK /\ PoolOK
  <2> SUFFICES ASSUME Init PROVE TypeOK /\ PoolOK
    OBVIOUS
  <2>1. arm \in DOMAIN Plan
    BY PlanType DEF Init
  <2>2. worker \in [Workers -> Idle \cup {"connect", "barrier", "loop"} \cup Busy]
    BY DEF Init, Idle
  <2> QED
    BY <2>1, <2>2 DEF Init, TypeOK, PoolOK, Idle, Busy
<1>2. TypeOK /\ PoolOK /\ [Next]_vars => TypeOK' /\ PoolOK'
  <2> SUFFICES ASSUME TypeOK, PoolOK, [Next]_vars
               PROVE  TypeOK' /\ PoolOK'
    OBVIOUS
  <2>1. CASE StartWarmup \/ StartMeasured
    <3>1. PICK ph \in {"warmup", "measured"} : Drive(ph)
      BY <2>1 DEF StartWarmup, StartMeasured
    <3>2. UNCHANGED <<arm, hits>>
      BY <2>1 DEF StartWarmup, StartMeasured
    <3> QED
      BY <3>1, <3>2, DriveType DEF TypeOK, PoolOK, Idle, Busy
  <2>2. CASE Reduce
    <3>1. arm' \in DOMAIN Plan /\ phase' \in {"report", "setup"}
      BY <2>2, PlanType DEF Reduce, TypeOK
    <3>2. \A w \in Workers : local[w] = {}
      BY <2>2 DEF Reduce, Joined, PoolOK, Idle
    <3>3. worker' \in [Workers -> Idle \cup {"connect", "barrier", "loop"} \cup Busy]
      BY <2>2 DEF Reduce, Idle
    <3> QED
      BY <2>2, <3>1, <3>2, <3>3 DEF Reduce, TypeOK, PoolOK, Idle, Busy
  <2>3. CASE CallbackRaises \/ Report
    <3>1. \A w \in Workers : worker[w] \in Idle
      BY <2>3 DEF CallbackRaises, Report, Joined, PoolOK, Idle
    <3>2. UNCHANGED <<arm, pool, hits>> /\ phase' \in {"raised", "ended"}
      BY <2>3 DEF CallbackRaises, Report
    <3> QED
      BY <3>1, <3>2 DEF TypeOK, PoolOK, pool, Idle, Busy
  <2>4. CASE Barrier
    <3>1. Workers # {}
      BY HarnessAssumption
    <3>2. \A w \in Workers : worker'[w] = "loop" /\ worker[w] = "barrier"
      BY <2>4 DEF Barrier
    <3>3. worker' \in [Workers -> Idle \cup {"connect", "barrier", "loop"} \cup Busy]
      BY <2>4 DEF Barrier
    <3>4. UNCHANGED <<arm, phase, job, local, counter, sink, hits>>
      BY <2>4 DEF Barrier
    <3> QED
      BY <3>1, <3>2, <3>3, <3>4 DEF TypeOK, PoolOK, Idle, Busy
  <2>5. ASSUME NEW v \in Workers, WorkerStep(v) \/ BuildRaises(v)
        PROVE  TypeOK' /\ PoolOK'
    BY <2>5, ThreadType
  <2>6. CASE Ended \/ UNCHANGED vars
    BY <2>6 DEF Ended, TypeOK, PoolOK, vars, pool
  <2> QED
    BY <2>1, <2>2, <2>3, <2>4, <2>5, <2>6 DEF Next, Driver
<1> QED
  BY <1>1, <1>2, PTL DEF Spec


-----------------------------------------------------------------------------
(* The indices.                                                            *)

\* The indices in flight have been handed out, and no more than the phase has.
HandedOut ==
  /\ \A w \in InFlight : job[w] < counter
  /\ phase \in {"warmup", "measured"} => counter <= Count(phase)

\* What a step of a thread does to the pool: an index is taken, thrown away with
\* its thread's records, turned into a record, or stays where it is.
Moves(v) ==
  \/ /\ counter < Count(phase) /\ counter' = counter + 1
     /\ v \notin InFlight /\ InFlight' = InFlight \cup {v}
     /\ job'[v] = counter /\ \A w \in InFlight : job'[w] = job[w]
     /\ Seen' = Seen
  \/ /\ counter < Count(phase) /\ counter' = counter + 1
     /\ InFlight' = InFlight /\ \A w \in InFlight : job'[w] = job[w]
     /\ Seen' \subseteq Seen
  \/ /\ counter' = counter
     /\ v \in InFlight /\ InFlight' = InFlight \ {v}
     /\ \A w \in InFlight' : job'[w] = job[w]
     /\ \E s \in {"200", "other", "none"} : Seen' = Seen \cup {Rec(v, s)}
  \/ /\ counter' = counter /\ InFlight' = InFlight /\ Seen' = Seen
     /\ \A w \in InFlight : job'[w] = job[w]

LEMMA RecordedMoves ==
  ASSUME TypeOK, NEW v \in Workers, v \in InFlight, NEW s \in {"200", "other", "none"},
         Recorded(v, s), UNCHANGED <<counter, sink>>
  PROVE  Moves(v)
<1>1. /\ local' = [local EXCEPT ![v] = @ \cup {Rec(v, s)}]
      /\ job' = [job EXCEPT ![v] = None] /\ worker' = [worker EXCEPT ![v] = "loop"]
  BY DEF Recorded
<1>2. InFlight' = InFlight \ {v} /\ \A w \in InFlight' : job'[w] = job[w]
  BY <1>1 DEF InFlight, TypeOK
<1>3. Seen' = Seen \cup {Rec(v, s)}
  <2> DEFINE new == Rec(v, s)
  <2> HIDE DEF new
  <2>1. local' = [local EXCEPT ![v] = @ \cup {new}] /\ local \in [Workers -> SUBSET Record]
    BY <1>1 DEF new, TypeOK
  <2>2. UNION {local'[w] : w \in Workers} = (UNION {local[w] : w \in Workers}) \cup {new}
    BY <2>1
  <2> QED
    BY <2>2 DEF Seen, new
<1> QED
  BY <1>2, <1>3 DEF Moves

LEMMA ThreadMoves ==
  ASSUME TypeOK, PoolOK, NEW v \in Workers, WorkerStep(v) \/ BuildRaises(v)
  PROVE  Moves(v)
<1>1. CASE Connect(v)
  BY <1>1 DEF Connect, Moves, InFlight, Seen, TypeOK
<1>2. CASE Take(v)
  <2>1. /\ counter < Count(phase) /\ counter' = counter + 1
        /\ job' = [job EXCEPT ![v] = counter]
        /\ worker[v] = "loop" /\ UNCHANGED <<local, sink>>
    BY <1>2 DEF Take, take
  <2>2. PICK b \in {"send", "reconnect"} : worker' = [worker EXCEPT ![v] = b]
    BY <1>2 DEF Take
  <2>3. v \notin InFlight /\ InFlight' = InFlight \cup {v}
    BY <2>1, <2>2 DEF InFlight, TypeOK
  <2>4. job'[v] = counter /\ \A w \in InFlight : job'[w] = job[w]
    BY <2>1, <2>3 DEF TypeOK, InFlight
  <2>5. Seen' = Seen
    BY <2>1 DEF Seen
  <2> QED
    BY <2>1, <2>3, <2>4, <2>5 DEF Moves
<1>3. CASE Reconnect(v) \/ Send(v)
  <2>1. /\ worker[v] \in Busy /\ UNCHANGED <<job, local, sink, counter>>
        /\ \E b \in Busy : worker' = [worker EXCEPT ![v] = b]
    BY <1>3 DEF Reconnect, Send, Busy
  <2>2. InFlight' = InFlight
    BY <2>1 DEF InFlight, Busy, TypeOK
  <2> QED
    BY <2>1, <2>2 DEF Moves, Seen
<1>4. CASE ReconnectFails(v) \/ Answer(v) \/ Fail(v)
  <2>1. v \in InFlight /\ UNCHANGED <<counter, sink>>
    BY <1>4 DEF ReconnectFails, Answer, Fail, InFlight
  <2>2. \E s \in {"200", "other", "none"} : Recorded(v, s)
    BY <1>4 DEF ReconnectFails, Answer, Fail
  <2> QED
    BY <2>1, <2>2, RecordedMoves
<1>5. CASE Finish(v)
  <2>1. /\ sink' = sink \cup local[v] /\ local' = [local EXCEPT ![v] = {}]
        /\ worker[v] = "loop" /\ worker' = [worker EXCEPT ![v] = "ended"]
        /\ UNCHANGED <<job, counter>>
    BY <1>5 DEF Finish
  <2>2. InFlight' = InFlight
    BY <2>1 DEF InFlight, TypeOK
  <2>3. Seen' = Seen
    <3>1. local \in [Workers -> SUBSET Record]
      BY DEF TypeOK
    <3>2. UNION {local[w] : w \in Workers} = (UNION {local'[w] : w \in Workers}) \cup local[v]
      BY <2>1, <3>1
    <3> QED
      BY <2>1, <3>2 DEF Seen
  <2> QED
    BY <2>1, <2>2, <2>3 DEF Moves
<1>6. CASE BuildRaises(v)
  <2>1. /\ counter < Count(phase) /\ counter' = counter + 1
        /\ job' = [job EXCEPT ![v] = counter] /\ local' = [local EXCEPT ![v] = {}]
        /\ worker[v] = "loop" /\ worker' = [worker EXCEPT ![v] = "dead"] /\ UNCHANGED sink
    BY <1>6 DEF BuildRaises, take
  <2>2. InFlight' = InFlight /\ \A w \in InFlight : job'[w] = job[w]
    BY <2>1 DEF InFlight, TypeOK
  <2>3. Seen' \subseteq Seen
    BY <2>1 DEF Seen, TypeOK
  <2> QED
    BY <2>1, <2>2, <2>3 DEF Moves
<1> QED
  BY <1>1, <1>2, <1>3, <1>4, <1>5, <1>6 DEF WorkerStep

\* Whatever a thread does, no index gets into two places.
LEMMA MovesKeepIndices ==
  ASSUME TypeOK, PoolOK, EachIndexOnce, HandedOut, NEW v \in Workers, Moves(v),
         UNCHANGED <<arm, phase>>
  PROVE  EachIndexOnce' /\ HandedOut'
<1>0. counter \in Nat /\ \A w \in InFlight : job[w] \in Nat
  BY DEF TypeOK, PoolOK, InFlight, Busy
<1>1. \A r \in Seen : r.i \in Nat
  <2>1. Seen \subseteq Record
    BY DEF Seen, TypeOK
  <2> QED
    BY <2>1 DEF Record
<1>2. Count(phase) \in Nat /\ Count(phase)' = Count(phase)
  BY CountType DEF TypeOK, Count
<1>3. CASE Moves(v)!1
  BY <1>0, <1>1, <1>2, <1>3 DEF EachIndexOnce, HandedOut
<1>4. CASE Moves(v)!2
  BY <1>0, <1>1, <1>2, <1>4 DEF EachIndexOnce, HandedOut
<1>5. CASE Moves(v)!3
  <2>1. PICK s \in {"200", "other", "none"} : Seen' = Seen \cup {Rec(v, s)}
    BY <1>5
  <2>2. Rec(v, s).i = job[v]
    BY DEF Rec
  <2> DEFINE new == Rec(v, s)
  <2> HIDE DEF new
  <2>3. Seen' = Seen \cup {new} /\ new.i = job[v]
    BY <2>1, <2>2 DEF new
  <2>4. EachIndexOnce'
    BY <1>0, <1>1, <1>5, <2>3 DEF EachIndexOnce, HandedOut
  <2>5. HandedOut'
    BY <1>2, <1>5 DEF HandedOut
  <2> QED
    BY <2>4, <2>5
<1>6. CASE Moves(v)!4
  BY <1>2, <1>6 DEF EachIndexOnce, HandedOut
<1> QED
  BY <1>3, <1>4, <1>5, <1>6 DEF Moves

\* However many threads work on a phase, and whatever fails, an index is in one
\* record or in the hands of one thread.
THEOREM NoIndexTwice == Spec => [](EachIndexOnce /\ HandedOut)
<1>1. Init => EachIndexOnce /\ HandedOut
  <2> SUFFICES ASSUME Init PROVE EachIndexOnce /\ HandedOut
    OBVIOUS
  <2>1. InFlight = {} /\ Seen = {}
    BY DEF Init, InFlight, Seen
  <2> QED
    BY <2>1 DEF Init, EachIndexOnce, HandedOut
<1>2. TypeOK /\ PoolOK /\ EachIndexOnce /\ HandedOut /\ [Next]_vars => EachIndexOnce' /\ HandedOut'
  <2> SUFFICES ASSUME TypeOK, PoolOK, EachIndexOnce, HandedOut, [Next]_vars
               PROVE  EachIndexOnce' /\ HandedOut'
    OBVIOUS
  <2>1. CASE StartWarmup \/ StartMeasured
    <3>1. PICK ph \in {"warmup", "measured"} : Drive(ph)
      BY <2>1 DEF StartWarmup, StartMeasured
    <3>2. arm' = arm
      BY <2>1 DEF StartWarmup, StartMeasured
    <3>3. InFlight' = {} /\ Seen' = {} /\ counter' = 0
      BY <3>1, DriveType DEF InFlight, Seen
    <3>4. Count(phase)' \in Nat
      BY <3>2, CountType, PlanType, HarnessAssumption DEF TypeOK, Count
    <3> QED
      BY <3>3, <3>4 DEF EachIndexOnce, HandedOut
  <2>2. CASE Reduce
    <3>1. InFlight' = {}
      BY <2>2 DEF Reduce, InFlight
    <3>2. Seen' = {}
      <4>1. sink' = {} /\ \A w \in Workers : local'[w] = {}
        BY <2>2 DEF Reduce, Joined, PoolOK, Idle
      <4> QED
        BY <4>1 DEF Seen
    <3>3. phase' \in {"report", "setup"}
      BY <2>2 DEF Reduce
    <3> QED
      BY <3>1, <3>2, <3>3 DEF EachIndexOnce, HandedOut
  <2>3. CASE CallbackRaises \/ Report
    <3>1. UNCHANGED pool /\ phase' \in {"raised", "ended"}
      BY <2>3 DEF CallbackRaises, Report
    <3> QED
      BY <3>1 DEF EachIndexOnce, HandedOut, InFlight, Seen, pool
  <2>4. CASE Barrier
    <3>1. InFlight = {} /\ InFlight' = {}
      BY <2>4 DEF Barrier, InFlight, TypeOK
    <3>2. UNCHANGED <<arm, phase, local, sink, counter>>
      BY <2>4 DEF Barrier
    <3>3. Count(phase)' = Count(phase)
      BY <3>2 DEF Count
    <3> QED
      BY <3>1, <3>2, <3>3 DEF EachIndexOnce, HandedOut, Seen
  <2>5. ASSUME NEW v \in Workers, WorkerStep(v) \/ BuildRaises(v)
        PROVE  EachIndexOnce' /\ HandedOut'
    BY <2>5, ThreadMoves, ThreadKeeps, MovesKeepIndices
  <2>6. CASE Ended \/ UNCHANGED vars
    BY <2>6 DEF Ended, EachIndexOnce, HandedOut, InFlight, Seen, Count, vars, pool
  <2> QED
    BY <2>1, <2>2, <2>3, <2>4, <2>5, <2>6 DEF Next, Driver
<1> QED
  BY <1>1, <1>2, TypesHold, PTL DEF Spec

-----------------------------------------------------------------------------
(* A run goes forward, and does not get stuck.                             *)

\* How far the driver has to go: three phases of each arm, then the report.
Distance ==
  CASE phase \in {"ended", "raised"} -> 0
    [] phase = "report" -> 1
    [] phase = "measured" -> 3 * (Len(Plan) - arm) + 2
    [] phase = "warmup" -> 3 * (Len(Plan) - arm) + 3
    [] phase = "setup" -> 3 * (Len(Plan) - arm) + 4

\* How far a thread has to go with its index, and with the phase.
Ahead(w) ==
  CASE worker[w] = "reconnect" -> 3 [] worker[w] = "send" -> 2 [] worker[w] = "await" -> 1 [] OTHER -> 0

Stages(w) ==
  CASE worker[w] = "connect" -> 3 [] worker[w] = "barrier" -> 2 [] worker[w] \in Idle -> 0 [] OTHER -> 1

\* The work ahead in a phase: on its indices, of which those not handed out have all
\* their four steps ahead, and in its threads.
Work ==
  {p \in (0 .. Count(phase) - 1) \X (1 .. 4) :
     p[1] >= counter \/ \E w \in Workers : job[w] = p[1] /\ p[2] <= Ahead(w)}

Threads == {p \in Workers \X (1 .. 3) : p[2] <= Stages(p[1])}

LessWork ==
  Work' \subseteq Work /\ Threads' \subseteq Threads /\ (Work' # Work \/ Threads' # Threads)

Forward == Distance' < Distance \/ (Distance' = Distance /\ LessWork)

\* The work on indices gets less when one that is handed out, to one thread, gets on.
LEMMA IndexGetsOn ==
  ASSUME TypeOK, PoolOK, EachIndexOnce, HandedOut, NEW v \in InFlight,
         UNCHANGED <<arm, phase, counter>>, Ahead(v)' < Ahead(v), Ahead(v) \in 1 .. 3, Ahead(v)' \in 0 .. 2,
         job'[v] = job[v] \/ Ahead(v)' = 0,
         \A w \in Workers \ {v} : job'[w] = job[w] /\ worker'[w] = worker[w]
  PROVE  Work' \subseteq Work /\ Work' # Work
<1>1. /\ phase \in {"warmup", "measured"} /\ job[v] \in Nat /\ job[v] < counter
      /\ counter \in Nat /\ counter <= Count(phase) /\ Count(phase) \in Nat
  BY CountType DEF TypeOK, PoolOK, HandedOut, InFlight, Busy, Idle
<1>2. Count(phase)' = Count(phase)
  BY DEF Count
<1>3. \A w \in Workers \ {v} : Ahead(w)' = Ahead(w)
  BY DEF Ahead
<1>4. \A w \in Workers \ {v} : job[w] = job[v] => Ahead(w) = 0
  BY DEF EachIndexOnce, InFlight, Ahead
<1> DEFINE p == <<job[v], Ahead(v)>>
<1>5. p \in Work
  BY <1>1 DEF Work, InFlight
<1>6. p \notin Work'
  <2>1. \A w \in Workers : ~(job'[w] = job[v] /\ Ahead(v) <= Ahead(w)')
    BY <1>1, <1>3, <1>4
  <2> QED
    BY <1>1, <2>1 DEF Work
<1>7. \A q \in (0 .. Count(phase) - 1) \X (1 .. 4), w \in Workers :
        job'[w] = q[1] /\ q[2] <= Ahead(w)' => job[w] = q[1] /\ q[2] <= Ahead(w)
  BY <1>3
<1>8. Work' \subseteq Work
  BY <1>2, <1>7 DEF Work
<1> QED
  BY <1>5, <1>6, <1>8

\* Nothing but the thread itself changes the work that is ahead of it.
LEMMA OtherThreads ==
  ASSUME TypeOK, NEW v \in Workers, \A w \in Workers \ {v} : worker'[w] = worker[w],
         Stages(v)' <= Stages(v)
  PROVE  /\ Threads' \subseteq Threads
         /\ Stages(v)' < Stages(v) => Threads' # Threads
<1>1. \A w \in Workers \ {v} : Stages(w)' = Stages(w)
  BY DEF Stages
<1>2. Stages(v) \in 0 .. 3 /\ Stages(v)' \in 0 .. 3
  BY DEF Stages
<1>3. Threads' \subseteq Threads
  BY <1>1, <1>2 DEF Threads
<1>4. ASSUME Stages(v)' < Stages(v)
      PROVE  <<v, Stages(v)>> \in Threads /\ <<v, Stages(v)>> \notin Threads'
  BY <1>2, <1>4 DEF Threads
<1> QED
  BY <1>3, <1>4

\* Whatever a thread does, there is less ahead.
LEMMA ThreadForward ==
  ASSUME TypeOK, PoolOK, EachIndexOnce, HandedOut, NEW v \in Workers, WorkerStep(v) \/ BuildRaises(v)
  PROVE  Distance' = Distance /\ LessWork
<1>0. UNCHANGED <<arm, phase>>
  BY ThreadKeeps
<1>1. Distance' = Distance /\ Count(phase)' = Count(phase)
  BY <1>0 DEF Distance, Count
<1>2. \A w \in Workers \ {v} : worker'[w] = worker[w] /\ job'[w] = job[w]
  BY DEF WorkerStep, BuildRaises, Connect, Take, take, Reconnect, ReconnectFails, Send, Answer, Fail,
         Finish, Recorded, TypeOK
<1>3. counter \in Nat /\ Count(phase) \in Nat
  BY CountType DEF TypeOK
<1>4. CASE Connect(v) \/ Finish(v)
  <2>1. Stages(v)' < Stages(v)
    BY <1>4 DEF Connect, Finish, Stages, Idle, TypeOK
  <2>2. UNCHANGED <<job, counter>> /\ \A w \in Workers : Ahead(w)' = Ahead(w)
    BY <1>2, <1>4 DEF Connect, Finish, Ahead, TypeOK
  <2>3. Work' = Work
    BY <1>1, <2>2 DEF Work
  <2> QED
    BY <1>1, <1>2, <2>1, <2>3, OtherThreads DEF LessWork, Stages
<1>5. CASE Take(v) \/ BuildRaises(v)
  <2>1. counter < Count(phase) /\ counter' = counter + 1 /\ job'[v] = counter /\ worker[v] = "loop"
    BY <1>5 DEF Take, BuildRaises, take, TypeOK
  <2>2. worker'[v] \in {"send", "reconnect", "dead"}
    BY <1>5 DEF Take, BuildRaises, TypeOK
  <2>3. Ahead(v)' \in 0 .. 3 /\ \A w \in Workers \ {v} : Ahead(w)' = Ahead(w)
    BY <1>2, <2>2 DEF Ahead
  <2>4. <<counter, 4>> \in Work
    BY <1>3, <2>1 DEF Work
  <2>5. \A w \in Workers : Ahead(w)' \in 0 .. 3
    BY DEF Ahead
  <2>6. <<counter, 4>> \notin Work'
    BY <1>3, <2>1, <2>5 DEF Work
  <2>7. Work' \subseteq Work
    <3> SUFFICES ASSUME NEW q \in Work' PROVE q \in Work
      OBVIOUS
    <3>1. /\ q \in (0 .. Count(phase) - 1) \X (1 .. 4)
          /\ q[1] >= counter + 1 \/ \E w \in Workers : job'[w] = q[1] /\ q[2] <= Ahead(w)'
      BY <1>1, <2>1 DEF Work
    <3>2. q[1] >= counter \/ \E w \in Workers : job[w] = q[1] /\ q[2] <= Ahead(w)
      BY <1>2, <1>3, <2>1, <2>3, <3>1
    <3> QED
      BY <3>1, <3>2 DEF Work
  <2>8. Stages(v)' <= Stages(v)
    BY <2>1, <2>2 DEF Stages, Idle
  <2> QED
    BY <1>1, <1>2, <2>4, <2>6, <2>7, <2>8, OtherThreads DEF LessWork
<1>6. CASE Reconnect(v) \/ Send(v) \/ ReconnectFails(v) \/ Answer(v) \/ Fail(v)
  <2>1. /\ v \in InFlight /\ counter' = counter
        /\ job'[v] = job[v] \/ worker'[v] = "loop"
        /\ \/ worker[v] = "reconnect" /\ worker'[v] \in {"send", "loop"}
           \/ worker[v] = "send" /\ worker'[v] = "await"
           \/ worker[v] = "await" /\ worker'[v] = "loop"
    BY <1>6 DEF Reconnect, Send, ReconnectFails, Answer, Fail, Recorded, InFlight, TypeOK
  <2>2. /\ Ahead(v)' < Ahead(v) /\ Ahead(v) \in 1 .. 3 /\ Ahead(v)' \in 0 .. 2
        /\ worker'[v] = "loop" => Ahead(v)' = 0
    BY <2>1 DEF Ahead
  <2>3. Work' \subseteq Work /\ Work' # Work
    BY <1>0, <1>2, <2>1, <2>2, IndexGetsOn
  <2>4. Stages(v)' = 1 /\ Stages(v) = 1
    BY <2>1 DEF Stages, Idle
  <2> QED
    BY <1>1, <1>2, <2>3, <2>4, OtherThreads DEF LessWork
<1> QED
  BY <1>4, <1>5, <1>6 DEF WorkerStep

\* The driver's distance is a number, and every step of main goes on.
LEMMA DriverForward ==
  ASSUME TypeOK, StartWarmup \/ StartMeasured \/ Reduce \/ Report \/ CallbackRaises
  PROVE  Distance' < Distance
<1>1. Len(Plan) \in Nat /\ arm \in 1 .. Len(Plan)
  BY PlanType DEF TypeOK
<1>2. CASE StartWarmup
  BY <1>1, <1>2 DEF StartWarmup, Drive, Distance
<1>3. CASE StartMeasured
  BY <1>1, <1>3 DEF StartMeasured, Drive, Distance
<1>4. CASE Reduce
  <2>1. phase = "measured" /\ Distance = 3 * (Len(Plan) - arm) + 2
    BY <1>4 DEF Reduce, Distance
  <2>2. CASE arm = Len(Plan)
    BY <1>1, <1>4, <2>1, <2>2 DEF Reduce, Distance
  <2>3. CASE arm # Len(Plan)
    <3>1. phase' = "setup" /\ arm' = arm + 1
      BY <1>4, <2>3 DEF Reduce
    <3>2. Distance' = 3 * (Len(Plan) - (arm + 1)) + 4
      BY <3>1 DEF Distance
    <3> QED
      BY <1>1, <2>1, <3>2
  <2> QED
    BY <2>2, <2>3
<1>5. CASE Report
  BY <1>5 DEF Report, Distance
<1>6. CASE CallbackRaises
  BY <1>1, <1>6 DEF CallbackRaises, Distance
<1> QED
  BY <1>2, <1>3, <1>4, <1>5, <1>6

\* The barrier lets all threads through, and each has only its own stage ahead.
LEMMA BarrierForward ==
  ASSUME TypeOK, Barrier
  PROVE  Distance' = Distance /\ LessWork
<1>1. Workers # {} /\ \A w \in Workers : worker[w] = "barrier" /\ worker'[w] = "loop"
  BY HarnessAssumption DEF Barrier
<1>2. UNCHANGED <<arm, phase, job, counter>>
  BY DEF Barrier
<1>3. \A w \in Workers : Ahead(w)' = Ahead(w)
  BY <1>1 DEF Ahead
<1>4. Work' = Work
  BY <1>2, <1>3 DEF Work, Count
<1>5. \A w \in Workers : Stages(w) = 2 /\ Stages(w)' = 1
  BY <1>1 DEF Stages, Idle
<1>6. Threads' \subseteq Threads
  BY <1>5 DEF Threads
<1>7. PICK w \in Workers : TRUE
  BY <1>1
<1>8. <<w, 2>> \in Threads /\ <<w, 2>> \notin Threads'
  BY <1>5 DEF Threads
<1> QED
  BY <1>2, <1>4, <1>6, <1>8 DEF LessWork, Distance

\* What goes down has a least value: a number, and finite sets.
LEMMA LeftIsFinite ==
  ASSUME TypeOK
  PROVE  Distance \in Nat /\ IsFiniteSet(Work) /\ IsFiniteSet(Threads)
<1>1. /\ Len(Plan) \in Nat /\ arm \in 1 .. Len(Plan) /\ Count(phase) \in Nat
      /\ phase \in {"setup", "warmup", "measured", "report", "raised", "ended"}
  BY PlanType, CountType DEF TypeOK
<1>2. Distance \in Nat
  <2>1. /\ 3 * (Len(Plan) - arm) + 2 \in Nat /\ 3 * (Len(Plan) - arm) + 3 \in Nat
        /\ 3 * (Len(Plan) - arm) + 4 \in Nat
    BY <1>1
  <2>2. Distance \in {0, 1, 3 * (Len(Plan) - arm) + 2, 3 * (Len(Plan) - arm) + 3,
                     3 * (Len(Plan) - arm) + 4}
    BY <1>1 DEF Distance
  <2> QED
    BY <2>1, <2>2
<1>3. IsFiniteSet((0 .. Count(phase) - 1) \X (1 .. 4)) /\ IsFiniteSet(Workers \X (1 .. 3))
  <2> DEFINE last == Count(phase) - 1
  <2>1. last \in Int
    BY <1>1
  <2> HIDE DEF last
  <2>2. IsFiniteSet(0 .. last) /\ IsFiniteSet(1 .. 4) /\ IsFiniteSet(1 .. 3)
    <3>1. 0 \in Int /\ 1 \in Int /\ 3 \in Int /\ 4 \in Int
      OBVIOUS
    <3> QED
      BY <2>1, <3>1, FS_Interval, Zenon
  <2>3. IsFiniteSet((0 .. last) \X (1 .. 4))
    BY <2>2, FS_Product
  <2>4. IsFiniteSet(Workers \X (1 .. 3))
    BY <2>2, FS_Product, HarnessAssumption
  <2> QED
    BY <2>3, <2>4 DEF last
<1> QED
  BY <1>2, <1>3, FS_Subset DEF Work, Threads

\* A run goes forward: each of its steps brings the driver nearer to the end or leaves
\* less to do in the phase.  Both are finite, so that no run goes on for ever.
THEOREM RunsGoForward ==
  Spec => [][Forward]_vars /\ [](Distance \in Nat /\ IsFiniteSet(Work) /\ IsFiniteSet(Threads))
<1>1. TypeOK /\ PoolOK /\ EachIndexOnce /\ HandedOut /\ [Next]_vars => [Forward]_vars
  <2> SUFFICES ASSUME TypeOK, PoolOK, EachIndexOnce, HandedOut, Next PROVE Forward \/ UNCHANGED vars
    OBVIOUS
  <2>1. CASE StartWarmup \/ StartMeasured \/ Reduce \/ Report \/ CallbackRaises
    BY <2>1, DriverForward DEF Forward
  <2>2. CASE Barrier
    BY <2>2, BarrierForward DEF Forward
  <2>3. CASE \E v \in Workers : WorkerStep(v) \/ BuildRaises(v)
    BY <2>3, ThreadForward DEF Forward
  <2>4. CASE Ended
    BY <2>4 DEF Ended
  <2> QED
    BY <2>1, <2>2, <2>3, <2>4 DEF Next, Driver
<1> QED
  BY <1>1, TypesHold, NoIndexTwice, LeftIsFinite, PTL DEF Spec

\* The threads of a phase are all on this side of the barrier or all beyond it: a
\* failure to connect is remembered and takes no thread away.
BeforeBarrier == \A w \in Workers : worker[w] \in {"connect", "barrier"}

BeyondBarrier == \A w \in Workers : worker[w] \notin {"connect", "barrier"}

\* A step of the driver or of a thread that is possible, by its guard.
CanStep ==
  \/ phase \in {"setup", "report"}
  \/ phase \in {"warmup", "measured"} /\ Joined
  \/ \A w \in Workers : worker[w] = "barrier"
  \/ \E w \in Workers : worker[w] \in {"connect", "loop"} \cup Busy

\* A run that has not ended is never stuck, at the barrier or at a join, whatever
\* has failed and however many threads have died.
THEOREM NeverStuck ==
  Spec => [](BeforeBarrier \/ BeyondBarrier) /\ [](phase \in {"ended", "raised"} \/ CanStep)
<1>1. Init => BeyondBarrier
  BY DEF Init, BeyondBarrier
<1>2. TypeOK /\ (BeforeBarrier \/ BeyondBarrier) /\ [Next]_vars => (BeforeBarrier \/ BeyondBarrier)'
  <2> SUFFICES ASSUME TypeOK, BeforeBarrier \/ BeyondBarrier, [Next]_vars
               PROVE  BeforeBarrier' \/ BeyondBarrier'
    OBVIOUS
  <2>1. CASE StartWarmup \/ StartMeasured
    <3>1. (\A w \in Workers : worker'[w] = "ended") \/ (\A w \in Workers : worker'[w] = "connect")
      BY <2>1 DEF StartWarmup, StartMeasured, Drive
    <3> QED
      BY <3>1 DEF BeforeBarrier, BeyondBarrier
  <2>2. CASE Reduce \/ Barrier
    BY <2>2 DEF Reduce, Barrier, BeyondBarrier
  <2>3. CASE Report \/ CallbackRaises \/ Ended \/ UNCHANGED vars
    BY <2>3 DEF Report, CallbackRaises, Ended, vars, pool, BeforeBarrier, BeyondBarrier
  <2>4. ASSUME NEW v \in Workers, Connect(v)
        PROVE  BeforeBarrier' \/ BeyondBarrier'
    BY <2>4 DEF Connect, TypeOK, BeforeBarrier, BeyondBarrier
  <2>5. ASSUME NEW v \in Workers, WorkerStep(v) \/ BuildRaises(v), ~Connect(v)
        PROVE  BeforeBarrier' \/ BeyondBarrier'
    <3>1. worker[v] \notin {"connect", "barrier"} /\ \E b \in {"loop", "dead", "ended"} \cup Busy :
            worker' = [worker EXCEPT ![v] = b]
      BY <2>5 DEF WorkerStep, BuildRaises, Take, Reconnect, ReconnectFails, Send, Answer, Fail, Finish,
                  Recorded, Busy
    <3> QED
      BY <3>1 DEF TypeOK, BeforeBarrier, BeyondBarrier, Busy
  <2> QED
    BY <2>1, <2>2, <2>3, <2>4, <2>5 DEF Next, Driver
<1>3. TypeOK /\ PoolOK /\ (BeforeBarrier \/ BeyondBarrier) => phase \in {"ended", "raised"} \/ CanStep
  <2> SUFFICES ASSUME TypeOK, PoolOK, BeforeBarrier \/ BeyondBarrier, phase \in {"warmup", "measured"},
                      ~Joined, \A w \in Workers : worker[w] \notin {"connect", "loop"} \cup Busy
               PROVE  \A w \in Workers : worker[w] = "barrier"
    BY DEF CanStep, TypeOK
  <2>1. \A w \in Workers : worker[w] \in Idle \cup {"barrier"}
    BY DEF TypeOK
  <2>2. PICK v \in Workers : worker[v] = "barrier"
    BY <2>1 DEF Joined, Idle
  <2> QED
    BY <2>1, <2>2 DEF BeforeBarrier, BeyondBarrier, Idle
<1> QED
  BY <1>1, <1>2, <1>3, TypesHold, PTL DEF Spec

-----------------------------------------------------------------------------
(* The arms that pass.                                                     *)

Result == [name : {Plan[k].name : k \in DOMAIN Plan}, mode : {"hit", "miss"},
           warmup : SUBSET Record, records : SUBSET Record, passed : BOOLEAN]

\* The results on hand are those of the arms before the current one, in order.
ResultsInOrder ==
  /\ warmed \subseteq Record
  /\ results \in Seq(Result)
  /\ phase \in {"setup", "warmup", "measured"} => Len(results) = arm - 1
  /\ \A k \in DOMAIN results : k \in DOMAIN Plan /\ results[k].mode = Plan[k].mode

\* The result of the arm that is reduced.
Reduced == [name |-> Plan[arm].name, mode |-> Plan[arm].mode, warmup |-> warmed, records |-> sink,
            passed |-> harness_assertions(Plan[arm], warmed, sink)]

\* What closing the window of an arm adds to the results.
LEMMA ReduceAdds ==
  ASSUME TypeOK, PoolOK, ResultsInOrder, Reduce
  PROVE  /\ Reduced \in Result
         /\ results' = Append(results, Reduced) /\ results' \in Seq(Result)
         /\ DOMAIN results' = DOMAIN results \cup {arm}
         /\ results'[arm] = Reduced
         /\ \A k \in DOMAIN results : results'[k] = results[k] /\ k # arm
<1>1. Reduced \in Result
  <2>1. harness_assertions(Plan[arm], warmed, sink) \in BOOLEAN
    BY DEF harness_assertions
  <2>2. arm \in DOMAIN Plan /\ Plan[arm].mode \in {"hit", "miss"} /\ sink \subseteq Record
    BY PlanType DEF TypeOK
  <2> QED
    BY <2>1, <2>2 DEF Reduced, Result, ResultsInOrder
<1>2. results' = Append(results, Reduced) /\ results \in Seq(Result) /\ Len(results) = arm - 1
  BY DEF Reduce, Reduced, ResultsInOrder
<1>3. arm \in Nat \ {0}
  BY PlanType DEF TypeOK
<1> HIDE DEF Reduced
<1> QED
  BY <1>1, <1>2, <1>3

LEMMA ResultsHold == Spec => []ResultsInOrder
<1>1. Init => ResultsInOrder
  BY DEF Init, ResultsInOrder
<1>2. TypeOK /\ PoolOK /\ ResultsInOrder /\ [Next]_vars => ResultsInOrder'
  <2> SUFFICES ASSUME TypeOK, PoolOK, ResultsInOrder, [Next]_vars
               PROVE  ResultsInOrder'
    OBVIOUS
  <2>1. CASE Reduce
    <3>1. warmed' = {}
      BY <2>1 DEF Reduce
    <3>2. results' \in Seq(Result) /\ Len(results') = arm
      BY <2>1, ReduceAdds, PlanType DEF ResultsInOrder, TypeOK
    <3>3. phase' \in {"setup", "warmup", "measured"} => arm' = arm + 1
      BY <2>1 DEF Reduce
    <3>4. \A k \in DOMAIN results' : k \in DOMAIN Plan /\ results'[k].mode = Plan[k].mode
      BY <2>1, ReduceAdds DEF ResultsInOrder, TypeOK, Reduced
    <3> QED
      BY <3>1, <3>2, <3>3, <3>4, PlanType DEF ResultsInOrder, TypeOK
  <2>2. CASE StartWarmup \/ StartMeasured
    <3>1. /\ UNCHANGED <<arm, results>> /\ phase \in {"setup", "warmup"}
          /\ warmed' \subseteq Record
      BY <2>2 DEF StartWarmup, StartMeasured, ResultsInOrder, TypeOK
    <3> QED
      BY <3>1 DEF ResultsInOrder
  <2>3. CASE CallbackRaises \/ Report
    BY <2>3 DEF CallbackRaises, Report, ResultsInOrder
  <2>4. ASSUME NEW v \in Workers, WorkerStep(v) \/ BuildRaises(v)
        PROVE  ResultsInOrder'
    BY <2>4, ThreadKeeps DEF ResultsInOrder
  <2>5. CASE Barrier \/ Ended \/ UNCHANGED vars
    BY <2>5 DEF Barrier, Ended, ResultsInOrder, vars
  <2> QED
    BY <2>1, <2>2, <2>3, <2>4, <2>5 DEF Next, Driver
<1> QED
  BY <1>1, <1>2, TypesHold, PTL DEF Spec

\* As many records as there are indices, no two of one index, are one of each.
LEMMA FullWindow ==
  ASSUME NEW S, NEW n \in Nat, \A r \in S : r.i \in 0 .. n - 1,
         \A r, q \in S : r.i = q.i => r = q,
         Cardinality(S) = n
  PROVE  IsFiniteSet(S) /\ {r.i : r \in S} = 0 .. n - 1
<1> DEFINE f == [r \in S |-> r.i]
<1>1. f \in Injection(S, 0 .. n - 1)
  <2>1. f \in [S -> 0 .. n - 1] /\ \A r, q \in S : f[r] = f[q] => r = q
    OBVIOUS
  <2> HIDE DEF f
  <2> QED
    BY <2>1, Fun_IsInj
<1>2. IsFiniteSet(0 .. n - 1) /\ Cardinality(0 .. n - 1) = n
  BY FS_Interval
<1>3. f \in Surjection(S, 0 .. n - 1) /\ IsFiniteSet(S)
  <2> HIDE DEF f
  <2> QED
    BY <1>1, <1>2, FS_Injection
<1>4. \A m \in 0 .. n - 1 : \E r \in S : f[r] = m
  BY <1>3 DEF Surjection
<1> QED
  BY <1>3, <1>4

\* Of a full window all indices but those of the errors were answered with 200.
LEMMA AnsweredIndices ==
  ASSUME NEW S, NEW n \in Nat, IsFiniteSet(S), Cardinality(S) = n,
         \A r, q \in S : r.i = q.i => r = q,
         Errors(S) <= AllowErrors
  PROVE  Cardinality({r.i : r \in {q \in S : q.status = "200"}}) >= n - AllowErrors
<1> DEFINE Bad == {r \in S : r.status # "200"}
           Good == {q \in S : q.status = "200"}
           Indices == {r.i : r \in Good}
           f == [r \in Good |-> r.i]
<1>1. IsFiniteSet(Bad) /\ Cardinality(Bad) \in Nat /\ IsFiniteSet(Good) /\ Cardinality(Good) \in Nat
  <2>1. Bad \subseteq S /\ Good \subseteq S
    OBVIOUS
  <2> HIDE DEF Bad, Good
  <2> QED
    BY <2>1, FS_Subset, FS_CardinalityType
<1>2. Cardinality(Good) = n - Cardinality(Bad)
  <2>1. S = Good \cup Bad /\ Good \cap Bad = {}
    OBVIOUS
  <2> HIDE DEF Bad, Good
  <2>2. Cardinality(Good \cup Bad) = Cardinality(Good) + Cardinality(Bad) - Cardinality(Good \cap Bad)
    BY <1>1, FS_Union
  <2>3. Cardinality(Good \cap Bad) = 0
    BY <2>1, FS_EmptySet
  <2> QED
    BY <1>1, <2>1, <2>2, <2>3
<1>3. Cardinality(Indices) = Cardinality(Good)
  <2>1. f \in [Good -> Indices] /\ \A r, q \in Good : f[r] = f[q] => r = q
    OBVIOUS
  <2>2. \A m \in Indices : \E r \in Good : f[r] = m
    OBVIOUS
  <2> HIDE DEF f, Good, Indices
  <2>3. f \in Bijection(Good, Indices)
    BY <2>1, <2>2, Fun_IsBij
  <2>4. ExistsBijection(Good, Indices)
    BY <2>3 DEF ExistsBijection
  <2> QED
    BY <1>1, <2>4, FS_Bijection
<1>4. Cardinality(Bad) <= AllowErrors
  BY DEF Errors
<1>5. AllowErrors \in Nat
  BY HarnessAssumption
<1>6. Cardinality(Indices) >= n - AllowErrors
  <2> HIDE DEF Bad, Good, Indices
  <2> QED
    BY <1>1, <1>2, <1>3, <1>4, <1>5
<1> QED
  BY <1>6

\* Whatever fails and whichever threads die, an arm that passes its assertions
\* has one record for every index of its measured phase, an answer of 200 for
\* all but AllowErrors of them, and a full warmup.
THEOREM PassedArmsAreComplete == Spec => []PassedMeansComplete
<1>1. Init => PassedMeansComplete
  BY DEF Init, PassedMeansComplete
<1>2. TypeOK /\ PoolOK /\ EachIndexOnce /\ HandedOut /\ ResultsInOrder /\ PassedMeansComplete /\ [Next]_vars
        => PassedMeansComplete'
  <2> SUFFICES ASSUME TypeOK, PoolOK, EachIndexOnce, HandedOut, ResultsInOrder, PassedMeansComplete,
                      [Next]_vars
               PROVE  PassedMeansComplete'
    OBVIOUS
  <2>1. CASE Reduce
    <3> DEFINE n == Plan[arm].measured
    <3>1. n \in Nat /\ phase = "measured" /\ arm \in DOMAIN Plan
      BY <2>1, PlanType DEF Reduce, TypeOK
    <3>2. ASSUME Reduced.passed
          PROVE  /\ {r.i : r \in Reduced.records} = 0 .. n - 1
                 /\ Cardinality(Reduced.records) = n
                 /\ Cardinality({r.i : r \in {q \in Reduced.records : q.status = "200"}})
                      >= n - AllowErrors
                 /\ Cardinality(Reduced.warmup) = Warmup
      <4>1. Cardinality(sink) = n /\ Cardinality(warmed) = Warmup /\ Errors(sink) <= AllowErrors
        BY <3>2 DEF Reduced, harness_assertions
      <4>2. counter <= n /\ counter \in Nat
        BY <3>1 DEF HandedOut, Count, TypeOK
      <4>3. sink \subseteq Seen /\ sink \subseteq Record
        BY DEF Seen, TypeOK
      <4>4. \A r \in sink : r.i \in 0 .. n - 1
        BY <3>1, <4>2, <4>3 DEF EachIndexOnce, Record
      <4>5. \A r, q \in sink : r.i = q.i => r = q
        BY <4>3 DEF EachIndexOnce
      <4>6. IsFiniteSet(sink) /\ {r.i : r \in sink} = 0 .. n - 1
        <5> HIDE DEF n
        <5> QED
          BY <3>1, <4>1, <4>4, <4>5, FullWindow
      <4>7. Cardinality({r.i : r \in {q \in sink : q.status = "200"}}) >= n - AllowErrors
        <5> HIDE DEF n
        <5> QED
          BY <3>1, <4>1, <4>5, <4>6, AnsweredIndices
      <4> QED
        BY <4>1, <4>6, <4>7 DEF Reduced
    <3> QED
      BY <2>1, <3>2, ReduceAdds DEF PassedMeansComplete
  <2>2. CASE UNCHANGED results
    BY <2>2 DEF PassedMeansComplete
  <2>3. ASSUME NEW v \in Workers, WorkerStep(v) \/ BuildRaises(v)
        PROVE  UNCHANGED results
    BY <2>3, ThreadKeeps
  <2> QED
    BY <2>1, <2>2, <2>3
    DEF Next, Driver, StartWarmup, StartMeasured, Report, Barrier, CallbackRaises, Ended, vars
<1> QED
  BY <1>1, <1>2, TypesHold, NoIndexTwice, ResultsHold, PTL DEF Spec


-----------------------------------------------------------------------------
(* The cache.                                                              *)

\* Is the arm one whose requests must not be served from the cache.
Missing == Plan[arm].mode = "miss"

\* Only the requests made so far have left their measured keys in the cache: none
\* of a later arm's, and of those of a miss arm none whose request is still to
\* come or on its way.
KeysOfThePast ==
  /\ cache \subseteq Key
  /\ phase \in {"setup", "warmup", "measured"} =>
       \A key \in cache : key[1] = "measure" =>
         /\ \E k \in 1 .. arm : key[2] = Plan[k].name
         /\ Missing /\ key[2] = Plan[arm].name =>
              /\ phase = "measured" /\ key[3] < counter
              /\ \A w \in InFlight : job[w] # key[3]

\* A hit is known while its request is under way, and there are none in the
\* measured phase of a miss arm or in its result.
NoMissHits ==
  /\ \A w \in Workers : hits[w] => worker[w] = "await"
  /\ Missing /\ phase = "measured" => (\A w \in Workers : ~hits[w]) /\ (\A r \in Seen : ~r.hit)
  /\ \A k \in DOMAIN results : results[k].mode = "miss" => \A r \in results[k].records : ~r.hit

\* What a step of a thread does to the cache and to what is known of hits: the
\* key of a request that ends may be added, and a request that is sent hits if
\* its key is there.
LEMMA ThreadCache ==
  ASSUME TypeOK, PoolOK, NoMissHits, NEW v \in Workers, WorkerStep(v) \/ BuildRaises(v)
  PROVE  /\ cache' = cache \/ (v \in InFlight /\ v \notin InFlight' /\ cache' \subseteq cache \cup {KeyOf(v)})
         /\ \A w \in Workers : hits'[w] =>
              /\ worker'[w] = "await"
              /\ hits[w] \/ (w = v /\ v \in InFlight /\ KeyOf(v) \in cache)
         /\ \A r \in Seen' : r \in Seen \/ r.hit = hits[v]
<1>1. ASSUME NEW s \in {"200", "other", "none"}, Recorded(v, s), UNCHANGED sink,
             worker[v] \in Busy
      PROVE  /\ v \in InFlight /\ v \notin InFlight'
             /\ \A w \in Workers : hits'[w] => worker'[w] = "await" /\ hits[w]
             /\ \A r \in Seen' : r \in Seen \/ r.hit = hits[v]
  <2>1. v \in InFlight /\ v \notin InFlight'
    BY <1>1 DEF Recorded, InFlight, Busy, TypeOK
  <2>2. \A w \in Workers : hits'[w] => worker'[w] = "await" /\ hits[w]
    BY <1>1 DEF Recorded, TypeOK, NoMissHits
  <2>3. Rec(v, s).hit = hits[v]
    BY DEF Rec
  <2>4. \A r \in Seen' : r \in Seen \/ r = Rec(v, s)
    <3> DEFINE new == Rec(v, s)
    <3>1. local' = [local EXCEPT ![v] = @ \cup {new}] /\ local \in [Workers -> SUBSET Record]
      BY <1>1 DEF Recorded, TypeOK
    <3> HIDE DEF new
    <3>2. \A w \in Workers : local'[w] \subseteq local[w] \cup {new}
      BY <3>1
    <3>3. \A r \in Seen' : r \in Seen \/ r = new
      BY <1>1, <3>2 DEF Seen
    <3> QED
      BY <3>3 DEF new
  <2> QED
    BY <2>1, <2>2, <2>3, <2>4
<1>2. CASE Connect(v) \/ Take(v) \/ Reconnect(v)
  <2>1. UNCHANGED <<cache, hits, local, sink>>
    BY <1>2 DEF Connect, Take, Reconnect
  <2>2. worker[v] # "await" /\ \A w \in Workers : w # v => worker'[w] = worker[w]
    BY <1>2 DEF Connect, Take, Reconnect, TypeOK
  <2> QED
    BY <2>1, <2>2 DEF Seen, NoMissHits
<1>3. CASE ReconnectFails(v)
  BY <1>1, <1>3 DEF ReconnectFails, Busy
<1>4. CASE Send(v)
  <2>1. UNCHANGED <<cache, local, sink>> /\ v \in InFlight
    BY <1>4 DEF Send, InFlight
  <2>2. \A w \in Workers : w # v => worker'[w] = worker[w] /\ hits'[w] = hits[w]
    BY <1>4 DEF Send, TypeOK
  <2>3. worker'[v] = "await" /\ hits'[v] = (KeyOf(v) \in cache)
    BY <1>4 DEF Send, TypeOK
  <2> QED
    BY <2>1, <2>2, <2>3 DEF Seen, NoMissHits
<1>5. CASE Answer(v) \/ Fail(v)
  <2>1. PICK s \in {"200", "other", "none"} : Recorded(v, s)
    BY <1>5 DEF Answer, Fail
  <2>2. cache' \subseteq cache \cup {KeyOf(v)} /\ UNCHANGED sink /\ worker[v] \in Busy
    BY <1>5 DEF Answer, Fail, Busy
  <2> QED
    BY <1>1, <2>1, <2>2
<1>6. CASE Finish(v) \/ BuildRaises(v)
  <2>1. UNCHANGED <<cache, hits>> /\ worker[v] = "loop"
    BY <1>6 DEF Finish, BuildRaises
  <2>2. \A w \in Workers : w # v => worker'[w] = worker[w]
    BY <1>6 DEF Finish, BuildRaises, TypeOK
  <2>3. Seen' \subseteq Seen
    BY <1>6 DEF Finish, BuildRaises, Seen, TypeOK
  <2> QED
    BY <2>1, <2>2, <2>3 DEF NoMissHits
<1> QED
  BY <1>2, <1>3, <1>4, <1>5, <1>6 DEF WorkerStep

\* The key of a request that is under way.
LEMMA KeyInFlight ==
  ASSUME TypeOK, PoolOK, HandedOut, NEW v \in InFlight
  PROVE  /\ KeyOf(v) \in Key
         /\ KeyOf(v)[1] = "measure" =>
              /\ KeyOf(v)[2] = Plan[arm].name
              /\ Missing => phase = "measured" /\ KeyOf(v)[3] = job[v]
         /\ Missing /\ phase = "measured" =>
              KeyOf(v)[1] = "measure" /\ KeyOf(v)[2] = Plan[arm].name /\ KeyOf(v)[3] = job[v]
<1>1. v \in Workers /\ worker[v] \in Busy
  BY DEF InFlight, Busy
<1>2. KeyOf(v) \in Key
  BY <1>1, RecordType
<1>3. phase \in {"warmup", "measured"} /\ Plan[arm].mode \in {"hit", "miss"}
  BY <1>1, PlanType DEF PoolOK, TypeOK, Busy, Idle
<1> QED
  BY <1>2, <1>3 DEF KeyOf, key_for, Missing


\* No two arms of the plan have one name, as in every scenario of the bench: a
\* name is what the keys of an arm, and the comparison across arms, go by.
NamesDiffer == \A j, k \in DOMAIN Plan : Plan[j].name = Plan[k].name => j = k

\* A step of a thread.
LEMMA ThreadMisses ==
  ASSUME TypeOK, PoolOK, EachIndexOnce, HandedOut, KeysOfThePast, NoMissHits,
         NEW v \in Workers, WorkerStep(v) \/ BuildRaises(v)
  PROVE  KeysOfThePast' /\ NoMissHits'
<1>0. UNCHANGED <<arm, phase, results>> /\ Moves(v)
  BY ThreadKeeps, ThreadMoves
<1>1. /\ arm \in Nat \ {0} /\ counter \in Nat
      /\ \A w \in InFlight : job[w] \in Nat
  BY PlanType DEF TypeOK, PoolOK, InFlight, Busy
<1>2. \A w \in InFlight' : w = v \/ (w \in InFlight /\ job'[w] = job[w])
  BY <1>0 DEF Moves
<1>3. counter <= counter' /\ (v \in InFlight' /\ v \notin InFlight => job'[v] = counter)
  BY <1>0, <1>1 DEF Moves
<1>4. v \in InFlight /\ v \in InFlight' => job'[v] = job[v]
  BY <1>0 DEF Moves
<1>5. cache' \subseteq Key
  BY ThreadCache, KeyInFlight DEF KeysOfThePast
<1>6. counter' \in Nat
  BY ThreadType DEF TypeOK
<1>7. ASSUME phase \in {"setup", "warmup", "measured"}, NEW key \in cache', key[1] = "measure"
      PROVE  /\ \E k \in 1 .. arm : key[2] = Plan[k].name
             /\ Missing /\ key[2] = Plan[arm].name =>
                  /\ phase = "measured" /\ key[3] < counter'
                  /\ \A w \in InFlight' : job'[w] # key[3]
  <2>1. CASE key \in cache
    <3>1. key[3] \in Nat
      BY <2>1 DEF KeysOfThePast, Key
    <3> QED
      BY <1>1, <1>2, <1>3, <1>4, <1>6, <1>7, <2>1, <3>1 DEF KeysOfThePast
  <2>2. CASE key \notin cache
    <3>1. v \in InFlight /\ v \notin InFlight' /\ key = KeyOf(v)
      BY <2>2, ThreadCache
    <3>2. key[2] = Plan[arm].name /\ (Missing => phase = "measured" /\ key[3] = job[v])
      BY <1>7, <3>1, KeyInFlight
    <3>3. job[v] < counter /\ \A w \in InFlight : w # v => job[w] # job[v]
      BY <3>1 DEF EachIndexOnce, HandedOut
    <3> QED
      BY <1>1, <1>2, <1>3, <1>6, <3>1, <3>2, <3>3
  <2> QED
    BY <2>1, <2>2
<1>8. KeysOfThePast'
  BY <1>0, <1>5, <1>7 DEF KeysOfThePast, Missing
<1>9. ASSUME Missing, phase = "measured"
      PROVE  (\A w \in Workers : ~hits'[w]) /\ (\A r \in Seen' : ~r.hit)
  <2>1. v \in InFlight => KeyOf(v) \notin cache
    BY <1>9, KeyInFlight DEF KeysOfThePast
  <2> QED
    BY <1>9, <2>1, ThreadCache DEF NoMissHits
<1>10. NoMissHits'
  BY <1>0, <1>9, ThreadCache DEF NoMissHits, Missing
<1> QED
  BY <1>8, <1>10

LEMMA CacheHolds == ASSUME NamesDiffer PROVE Spec => [](KeysOfThePast /\ NoMissHits)
<1>1. Init => KeysOfThePast /\ NoMissHits
  <2> SUFFICES ASSUME Init PROVE KeysOfThePast /\ NoMissHits
    OBVIOUS
  <2>1. \A key \in cache : key \in Key /\ key[1] = "warm"
    BY HarnessAssumption DEF Init, Key
  <2>2. phase = "setup" /\ results = << >> /\ \A w \in Workers : hits[w] = FALSE
    BY DEF Init
  <2> QED
    BY <2>1, <2>2 DEF KeysOfThePast, NoMissHits
<1>2. /\ TypeOK /\ PoolOK /\ EachIndexOnce /\ HandedOut /\ ResultsInOrder
      /\ KeysOfThePast /\ NoMissHits /\ [Next]_vars
      => KeysOfThePast' /\ NoMissHits'
  <2> SUFFICES ASSUME TypeOK, PoolOK, EachIndexOnce, HandedOut, ResultsInOrder,
                      KeysOfThePast, NoMissHits, [Next]_vars
               PROVE  KeysOfThePast' /\ NoMissHits'
    OBVIOUS
  <2>1. CASE StartWarmup \/ StartMeasured
    <3>1. PICK ph \in {"warmup", "measured"} : Drive(ph)
      BY <2>1 DEF StartWarmup, StartMeasured
    <3>2. UNCHANGED <<arm, results, cache, hits>> /\ phase \in {"setup", "warmup"}
      BY <2>1 DEF StartWarmup, StartMeasured
    <3>3. \A w \in Workers : ~hits[w]
      BY <2>1 DEF StartWarmup, StartMeasured, Joined, NoMissHits, PoolOK, Idle
    <3>4. InFlight' = {} /\ Seen' = {}
      BY <3>1, DriveType DEF InFlight, Seen
    <3> QED
      BY <3>2, <3>3, <3>4 DEF KeysOfThePast, NoMissHits, Missing
  <2>2. CASE Reduce
    <3>1. UNCHANGED <<cache, hits>> /\ phase = "measured"
      BY <2>2 DEF Reduce
    <3>2. \A w \in Workers : ~hits[w]
      BY <2>2 DEF Reduce, Joined, NoMissHits
    <3>3. phase' = "report" \/ (phase' = "setup" /\ arm' = arm + 1)
      BY <2>2 DEF Reduce
    <3>4. KeysOfThePast'
      <4>1. ASSUME phase' = "setup", arm' = arm + 1, NEW key \in cache, key[1] = "measure"
            PROVE  /\ \E k \in 1 .. arm + 1 : key[2] = Plan[k].name
                   /\ key[2] # Plan[arm + 1].name
        <5>1. arm + 1 \in DOMAIN Plan /\ arm \in Nat \ {0} /\ 1 .. arm + 1 \subseteq DOMAIN Plan
          BY <2>2, <4>1, PlanType DEF Reduce, TypeOK
        <5>2. PICK k \in 1 .. arm : key[2] = Plan[k].name
          BY <3>1, <4>1 DEF KeysOfThePast
        <5>3. k \in 1 .. arm + 1 /\ k # arm + 1
          BY <5>1
        <5> QED
          BY <5>1, <5>2, <5>3 DEF NamesDiffer
      <4> QED
        BY <3>1, <3>3, <4>1 DEF KeysOfThePast
    <3>5. NoMissHits'
      <4>1. Reduced.mode = "miss" => \A r \in Reduced.records : ~r.hit
        BY <3>1 DEF Reduced, NoMissHits, Missing, Seen
      <4>2. \A k \in DOMAIN results' : results'[k].mode = "miss" => \A r \in results'[k].records : ~r.hit
        BY <2>2, <4>1, ReduceAdds DEF NoMissHits
      <4> QED
        BY <3>1, <3>2, <3>3, <4>2 DEF NoMissHits
    <3> QED
      BY <3>4, <3>5
  <2>3. CASE CallbackRaises \/ Report
    <3>1. /\ UNCHANGED <<arm, pool, results, cache, hits>> /\ phase' \in {"raised", "ended"}
      BY <2>3 DEF CallbackRaises, Report
    <3> QED
      BY <3>1 DEF KeysOfThePast, NoMissHits, pool
  <2>4. CASE Barrier
    <3>1. InFlight' = {} /\ \A w \in Workers : ~hits[w]
      BY <2>4 DEF Barrier, InFlight, NoMissHits
    <3>2. UNCHANGED <<arm, phase, local, sink, counter, results, cache, hits>>
      BY <2>4 DEF Barrier
    <3> QED
      BY <3>1, <3>2 DEF KeysOfThePast, NoMissHits, Seen, Missing
  <2>5. ASSUME NEW v \in Workers, WorkerStep(v) \/ BuildRaises(v)
        PROVE  KeysOfThePast' /\ NoMissHits'
    BY <2>5, ThreadMisses
  <2>6. CASE Ended \/ UNCHANGED vars
    BY <2>6 DEF Ended, KeysOfThePast, NoMissHits, InFlight, Seen, Missing, vars, pool
  <2> QED
    BY <2>1, <2>2, <2>3, <2>4, <2>5, <2>6 DEF Next, Driver
<1> QED
  BY <1>1, <1>2, TypesHold, NoIndexTwice, ResultsHold, PTL DEF Spec

\* No request of a miss arm is served from the cache, for any plan whose arms
\* have names of their own and whatever fails in the run.
THEOREM MissArmsMiss == ASSUME NamesDiffer PROVE Spec => []MissesMiss
<1>1. NoMissHits => MissesMiss
  BY DEF NoMissHits, MissesMiss
<1> QED
  BY <1>1, CacheHolds, PTL

-----------------------------------------------------------------------------
(* The page.                                                               *)

\* Types of the variables of Publish.
PublishTypes ==
  /\ stage \in [Runs -> {"new", "measured", "opened", "done", "dead"}]
  /\ unix \in [Runs -> Nat] /\ clock \in Nat /\ passed \in [Runs -> BOOLEAN]
  /\ files \in [Paths -> Runs \cup {"absent", "partial"}]
  /\ todo = NoRun \/ todo \subseteq Paths
  /\ best \in [Specs -> Runs \cup {NoRun}]
  /\ page \in [Specs -> Runs \cup {NoRun}]
  /\ intact \subseteq Runs /\ shown \subseteq Runs

\* Every run has a time stamp of its own, none later than the clock.
StampsDiffer ==
  /\ \A r \in Runs : stage[r] # "new" => unix[r] <= clock
  /\ \A q, r \in Runs : stage[q] # "new" /\ stage[r] # "new" /\ q # r => unix[q] # unix[r]

\* The runs of a table have written their JSON.
Written(table) == \A s \in Specs : table[s] # NoRun => stage[table[s]] = "done"

\* And so have those on disk, and those that stay there.
FilesWritten ==
  /\ \A p \in Paths : files[p] \in Runs => stage[files[p]] = "done"
  /\ \A r \in intact : files[path[r]] = r

TablesWritten == Written(best) /\ Written(page) /\ \A r \in shown : stage[r] = "done"

\* A table has run r of its spec, or a later one.
Covers(table, r) == table[spec[r]] # NoRun /\ unix[table[spec[r]]] >= unix[r]

\* A run that stays on disk while the report reads has been read or will be.
ReadSoFar == todo # NoRun => \A r \in intact : path[r] \in todo \/ Covers(best, r)

\* The runs that stayed are on the page.
PageCovers == \A r \in shown : Covers(page, r)

PublishInv ==
  PublishTypes /\ StampsDiffer /\ FilesWritten /\ TablesWritten /\ ReadSoFar /\ PageCovers

\* Each run has a place on disk and a chapter.
LEMMA Placed ==
  \A r \in Runs : path[r] \in Paths /\ path[r] \in Nat /\ spec[r] \in Specs
  BY PublishAssumption DEF Paths, Specs

\* A file without a run, and a chapter without one, is not taken for a run.
LEMMA NoneIsNoRun ==
  NoRun \notin Runs /\ "absent" \notin Runs /\ "partial" \notin Runs /\ NoRun # {}
  BY PublishAssumption

\* At first nothing is on disk.
LEMMA AtFirst ==
  ASSUME PublishInit
  PROVE  PublishInv
<1> USE NoneIsNoRun, Placed DEF PublishInit, NoChapters
<1>1. PublishTypes
  BY DEF PublishTypes
<1>2. StampsDiffer /\ FilesWritten /\ TablesWritten
  BY DEF StampsDiffer, FilesWritten, TablesWritten, Written
<1>3. ReadSoFar /\ PageCovers
  BY DEF ReadSoFar, PageCovers
<1> QED
  BY <1>1, <1>2, <1>3 DEF PublishInv

\* A run that writes, writes over another or breaks off leaves the invariant:
\* the time stamps of the runs that have been read are not touched any more.
LEMMA HarnessStep ==
  ASSUME PublishInv, NEW r \in Runs,
         build_manifest(r) \/ Open(r) \/ Dump(r) \/ Die(r)
  PROVE  PublishInv'
<1> USE NoneIsNoRun, Placed
<1>0. PublishTypes /\ StampsDiffer /\ FilesWritten /\ TablesWritten /\ ReadSoFar /\ PageCovers
  BY DEF PublishInv
<1>1. UNCHANGED <<todo, best, page, shown>>
  BY DEF build_manifest, Open, Dump, Die, report, publishVars
<1>2. PublishTypes'
  BY <1>0 DEF build_manifest, Open, Dump, Die, report, PublishTypes
<1>3. \A q \in Runs : stage[q] = "done" => stage'[q] = "done" /\ unix'[q] = unix[q]
  BY <1>0 DEF build_manifest, Open, Dump, Die, PublishTypes
<1>4. StampsDiffer'
  BY <1>0 DEF build_manifest, Open, Dump, Die, PublishTypes, StampsDiffer
<1>5. intact' \subseteq intact /\ \A q \in intact' : files'[path[q]] = q
  <2>1. CASE build_manifest(r) \/ Die(r)
    BY <1>0, <2>1 DEF build_manifest, Die, FilesWritten
  <2>2. CASE Open(r) \/ Dump(r)
    BY <1>0, <2>2 DEF Open, Dump, FilesWritten, PublishTypes
  <2> QED
    BY <2>1, <2>2
<1>6. \A p \in Paths : files'[p] \in Runs => stage'[files'[p]] = "done"
  <2>1. CASE build_manifest(r) \/ Die(r)
    BY <1>0, <1>3, <2>1 DEF build_manifest, Die, FilesWritten
  <2>2. CASE Open(r)
    BY <1>0, <1>3, <2>2 DEF Open, FilesWritten, PublishTypes
  <2>3. CASE Dump(r)
    BY <1>0, <1>3, <2>3 DEF Dump, FilesWritten, PublishTypes
  <2> QED
    BY <2>1, <2>2, <2>3
<1>7. FilesWritten'
  BY <1>5, <1>6 DEF FilesWritten
<1>8. ASSUME NEW table, table \in [Specs -> Runs \cup {NoRun}], Written(table)
      PROVE  /\ Written(table)'
             /\ \A q \in Runs : stage[q] = "done" /\ Covers(table, q) => Covers(table, q)'
  <2>1. \A s \in Specs : table[s] # NoRun =>
          stage[table[s]] = "done" /\ stage'[table[s]] = "done" /\ unix'[table[s]] = unix[table[s]]
    BY <1>3, <1>8 DEF Written
  <2> QED
    BY <1>3, <1>8, <2>1 DEF Written, Covers
<1>9. TablesWritten' /\ PageCovers'
  <2>1. Written(best)' /\ Written(page)'
    BY <1>0, <1>1, <1>8 DEF TablesWritten, PublishTypes
  <2>2. \A q \in shown : stage[q] = "done" /\ stage'[q] = "done"
    BY <1>0, <1>3 DEF TablesWritten, PublishTypes
  <2>3. \A q \in shown : Covers(page, q)'
    BY <1>0, <1>1, <1>8, <2>2 DEF TablesWritten, PublishTypes, PageCovers
  <2> QED
    BY <1>1, <2>1, <2>2, <2>3 DEF TablesWritten, PageCovers
<1>10. \A q \in intact : stage[q] = "done"
  BY <1>0 DEF FilesWritten, PublishTypes
<1>11. ReadSoFar'
  <2>1. \A q \in intact : Covers(best, q) => Covers(best, q)'
    BY <1>0, <1>1, <1>8, <1>10 DEF TablesWritten, PublishTypes
  <2> QED
    BY <1>0, <1>1, <1>5, <2>1 DEF ReadSoFar
<1> QED
  BY <1>2, <1>4, <1>7, <1>11, <1>9 DEF PublishInv

\* What reading one run more makes of the table.
LEMMA OneRunMore ==
  ASSUME PublishTypes, NEW d \in Runs
  PROVE  LET table == latest_by_spec(best, d) IN
         /\ table \in [Specs -> Runs \cup {NoRun}]
         /\ \A s \in Specs : table[s] = best[s] \/ table[s] = d
         /\ Covers(table, d)
         /\ \A r \in Runs : Covers(best, r) => Covers(table, r)
<1> USE NoneIsNoRun, Placed
<1>1. CASE best[spec[d]] = NoRun \/ unix[d] > unix[best[spec[d]]]
  <2>1. latest_by_spec(best, d) = [best EXCEPT ![spec[d]] = d]
    BY <1>1 DEF latest_by_spec
  <2> QED
    BY <1>1, <2>1 DEF PublishTypes, Covers
<1>2. CASE ~(best[spec[d]] = NoRun \/ unix[d] > unix[best[spec[d]]])
  <2>1. latest_by_spec(best, d) = best
    BY <1>2 DEF latest_by_spec
  <2> QED
    BY <1>2, <2>1 DEF PublishTypes, Covers
<1> QED
  BY <1>1, <1>2

\* So does the report, listing the directory, reading a file or writing the page.
LEMMA ReportStep ==
  ASSUME PublishInv,
         Glob \/ load_runs \/ Render
  PROVE  PublishInv'
<1> USE NoneIsNoRun, Placed
<1>0. PublishTypes /\ StampsDiffer /\ FilesWritten /\ TablesWritten /\ ReadSoFar /\ PageCovers
  BY DEF PublishInv
<1>1. UNCHANGED <<stage, unix, passed, clock, files>>
  BY DEF Glob, load_runs, Render, harness
<1>2. StampsDiffer'
  BY <1>0, <1>1 DEF StampsDiffer
<1>3. CASE Glob
  <2>1. PublishTypes'
    BY <1>0, <1>1, <1>3 DEF Glob, NoChapters, PublishTypes
  <2>2. FilesWritten' /\ TablesWritten'
    BY <1>0, <1>1, <1>3 DEF Glob, NoChapters, FilesWritten, TablesWritten, Written
  <2>3. ReadSoFar'
    BY <1>0, <1>1, <1>3 DEF Glob, ReadSoFar
  <2>4. PageCovers'
    BY <1>0, <1>1, <1>3 DEF Glob, PageCovers, Covers
  <2> QED
    BY <1>2, <2>1, <2>2, <2>3, <2>4 DEF PublishInv
<1>4. CASE load_runs
  <2>0. PICK p \in todo :
          /\ todo' = todo \ {p}
          /\ best' = IF files[p] \in Runs THEN latest_by_spec(best, files[p]) ELSE best
          /\ todo # NoRun /\ UNCHANGED <<page, intact, shown>>
    BY <1>4 DEF load_runs
  <2>1. p \in Paths
    BY <1>0, <1>4, <2>0 DEF PublishTypes
  <2>2. CASE files[p] \notin Runs
    <3>1. UNCHANGED best
      BY <2>0, <2>2
    <3>2. \A r \in intact : path[r] # p
      BY <1>0, <2>2 DEF FilesWritten, PublishTypes
    <3>3. PublishTypes'
      BY <1>0, <1>1, <2>0, <3>1 DEF PublishTypes
    <3>4. FilesWritten' /\ TablesWritten' /\ PageCovers'
      BY <1>0, <1>1, <2>0, <3>1 DEF FilesWritten, TablesWritten, Written, PageCovers, Covers
    <3>5. ReadSoFar'
      BY <1>0, <1>1, <2>0, <3>1, <3>2 DEF ReadSoFar, Covers
    <3> QED
      BY <1>2, <3>3, <3>4, <3>5 DEF PublishInv
  <2>3. CASE files[p] \in Runs
    <3> DEFINE d == files[p]
               table == latest_by_spec(best, d)
    <3>1. best' = table /\ stage[d] = "done"
      BY <1>0, <2>0, <2>1, <2>3 DEF FilesWritten
    <3>2. /\ table \in [Specs -> Runs \cup {NoRun}]
          /\ \A s \in Specs : table[s] = best[s] \/ table[s] = d
          /\ Covers(table, d)
          /\ \A r \in Runs : Covers(best, r) => Covers(table, r)
      BY <1>0, <2>3, OneRunMore
    <3> HIDE DEF table
    <3>3. PublishTypes'
      BY <1>0, <1>1, <2>0, <3>1, <3>2 DEF PublishTypes
    <3>4. FilesWritten' /\ PageCovers'
      BY <1>0, <1>1, <2>0 DEF FilesWritten, PageCovers, Covers
    <3>8. TablesWritten'
      <4>1. \A s \in Specs : table[s] # NoRun => stage[table[s]] = "done"
        BY <1>0, <3>1, <3>2 DEF TablesWritten, Written
      <4> QED
        BY <1>0, <1>1, <2>0, <3>1, <4>1 DEF TablesWritten, Written
    <3>5. \A r \in Runs : Covers(table, r) => Covers(best, r)'
      BY <1>1, <3>1 DEF Covers
    <3>6. \A r \in intact : path[r] = p => r = d
      BY <1>0 DEF FilesWritten
    <3>7. ReadSoFar'
      BY <1>0, <2>0, <3>2, <3>5, <3>6 DEF ReadSoFar, PublishTypes
    <3> QED
      BY <1>2, <3>3, <3>4, <3>7, <3>8 DEF PublishInv
  <2> QED
    BY <2>2, <2>3
<1>5. CASE Render
  <2>1. CASE best = NoChapters
    <3>1. UNCHANGED <<page, shown, best, intact>> /\ todo' = NoRun
      BY <1>5, <2>1 DEF Render
    <3> QED
      BY <1>0, <1>1, <1>2, <3>1
         DEF PublishInv, PublishTypes, FilesWritten, TablesWritten, Written, ReadSoFar, PageCovers,
             Covers
  <2>2. CASE best # NoChapters
    <3>1. /\ todo = {} /\ todo' = NoRun
          /\ page' = best /\ shown' = intact /\ UNCHANGED <<best, intact>>
      BY <1>5, <2>2 DEF Render
    <3>2. \A r \in intact : Covers(best, r)
      BY <1>0, <3>1, NoneIsNoRun DEF ReadSoFar
    <3>3. PublishTypes' /\ ReadSoFar'
      BY <1>0, <1>1, <3>1 DEF PublishTypes, ReadSoFar
    <3>4. FilesWritten' /\ TablesWritten'
      BY <1>0, <1>1, <3>1 DEF FilesWritten, TablesWritten, Written, PublishTypes
    <3>5. PageCovers'
      BY <1>1, <3>1, <3>2 DEF PageCovers, Covers
    <3> QED
      BY <1>2, <3>3, <3>4, <3>5 DEF PublishInv
  <2> QED
    BY <2>1, <2>2
<1> QED
  BY <1>3, <1>4, <1>5

\* PageIsLatest for any number of runs, specs, paths and reports: a run that stayed
\* on disk while the report read has its chapter, of itself or of a later run.
THEOREM PagesAreLatest ==
  PublishSpec => []PageIsLatest
<1>1. PublishInit => PublishInv
  BY AtFirst
<1>2. PublishInv /\ [PublishNext]_publishVars => PublishInv'
  <2> SUFFICES ASSUME PublishInv, [PublishNext]_publishVars PROVE PublishInv'
    OBVIOUS
  <2>1. CASE PublishNext
    BY <2>1, HarnessStep, ReportStep DEF PublishNext
  <2>2. CASE UNCHANGED publishVars
    BY <2>2 DEF publishVars, harness, report, PublishInv, PublishTypes,
                StampsDiffer, FilesWritten, TablesWritten, Written, ReadSoFar, PageCovers, Covers
  <2> QED
    BY <2>1, <2>2
<1>3. PublishInv => PageIsLatest
  <2> SUFFICES ASSUME PublishInv, NEW r \in shown
               PROVE  /\ spec[r] \notin not_yet_measured
                      /\ unix[page[spec[r]]] >= unix[r]
                      /\ Interpreted(spec[r]) /\ ~passed[r] =>
                           unix[page[spec[r]]] > unix[r]
    BY DEF PageIsLatest
  <2>0. r \in Runs /\ spec[r] \in Specs /\ stage[r] = "done" /\ Covers(page, r)
    BY Placed DEF PublishInv, PublishTypes, TablesWritten, PageCovers
  <2>1. /\ r \in Runs /\ spec[r] \in Specs /\ stage[r] = "done"
        /\ page[spec[r]] \in Runs /\ stage[page[spec[r]]] = "done"
        /\ unix[page[spec[r]]] >= unix[r]
    BY <2>0 DEF PublishInv, PublishTypes, TablesWritten, Written, Covers
  <2>2. passed[page[spec[r]]] /\ ~passed[r] => unix[page[spec[r]]] # unix[r]
    BY <2>1 DEF PublishInv, StampsDiffer
  <2> QED
    BY <2>1, <2>2, NoneIsNoRun
       DEF not_yet_measured, Interpreted, PublishInv, PublishTypes
<1> QED
  BY <1>1, <1>2, <1>3, PTL DEF PublishSpec

=============================================================================
