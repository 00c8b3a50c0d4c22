-------------------------- MODULE B5rIsolationProofs --------------------------
(***************************************************************************)
(* What the isolation claim of bench/b5r_isolated.py is worth, whatever    *)
(* the tolerances, the usage of our requests and the other tenants'        *)
(* generations; that stops and starts of the script leave the attempts on  *)
(* file in order, for any number of them; that every step of the script    *)
(* takes it nearer its end; and that an arm implements IsolatedCampaign.   *)
(***************************************************************************)
EXTENDS B5rIsolationRefinement, FiniteSetTheorems, TLAPS

-----------------------------------------------------------------------------
(* Types.                                                                  *)

Record == [attempt : Nat, prompt : Nat, isolated : BOOLEAN, intruded : Tokens, reset : BOOLEAN]

Running == {"loop", "gate", "before", "send", "await", "after", "append"}

TypeOK ==
  /\ pc \in Running \cup {"stopped", "concluded"}
  /\ before \in Tokens \cup {None} /\ after \in Tokens \cup {None} /\ usage \in {Ours, None}
  /\ attempt \in Nat /\ idx \in Nat /\ isolated \in Nat
  /\ checkpoint \in Seq(Record)
  /\ slot \in Generation \cup {None}
  /\ counters \in Tokens /\ intruded \in Tokens
  /\ reset \in BOOLEAN

\* Sums of token counts are token counts.
LEMMA PlusType == \A t, u \in Tokens : Plus(t, u) \in Tokens
  BY DEF Plus, Tokens

\* Whatever happens to our generation, the slot holds a generation or nothing.
LEMMA AbandonedType ==
  ASSUME slot \in Generation \cup {None}
  PROVE  Abandoned \subseteq Generation \cup {None}
<1>1. CASE Busy(TRUE)
  <2>1. slot \in Generation
    BY <1>1 DEF Busy
  <2>2. [slot EXCEPT !.ours = FALSE] \in Generation
    BY <2>1 DEF Generation
  <2> QED
    BY <1>1, <2>2 DEF Abandoned
<1>2. CASE ~Busy(TRUE)
  BY <1>2 DEF Abandoned
<1> QED
  BY <1>1, <1>2

\* The variables hold what the code can put into them.
THEOREM TypesHold == Spec => []TypeOK
<1> USE IsolationAssumption
<1>1. Init => TypeOK
  <2>1. Zero \in Tokens
    BY DEF Zero, Tokens
  <2>2. << >> \in Seq(Record)
    OBVIOUS
  <2> SUFFICES ASSUME Init PROVE TypeOK
    OBVIOUS
  <2> USE DEF Init
  <2>3. pc \in Running \cup {"stopped", "concluded"}
    OBVIOUS
  <2>4. /\ before \in Tokens \cup {None} /\ after \in Tokens \cup {None} /\ usage \in {Ours, None}
        /\ slot \in Generation \cup {None}
    OBVIOUS
  <2>5. attempt \in Nat /\ idx \in Nat /\ isolated \in Nat /\ reset \in BOOLEAN
    OBVIOUS
  <2>6. checkpoint \in Seq(Record)
    BY <2>2
  <2>7. counters \in Tokens /\ intruded \in Tokens
    BY <2>1
  <2> QED
    BY <2>3, <2>4, <2>5, <2>6, <2>7 DEF TypeOK
<1>2. TypeOK /\ [Next]_vars => TypeOK'
  <2> SUFFICES ASSUME TypeOK, [Next]_vars
               PROVE  TypeOK'
    OBVIOUS
  <2> USE DEF TypeOK, Running
  <2>1. CASE Start
    <3>1. IsolatedIn(checkpoint) \in Nat
      <4>1. IsFiniteSet(DOMAIN checkpoint)
        BY FS_Interval DEF Record
      <4> QED
        BY <4>1, FS_Subset, FS_CardinalityType DEF IsolatedIn
    <3>2. Len(checkpoint) % Prompts \in Nat
      BY DEF Record
    <3> QED
      BY <2>1, <3>1, <3>2 DEF Start, ReadCheckpoint, backend
  <2>2. CASE NextAttempt \/ Conclude \/ Poll \/ GateOpens
    BY <2>2 DEF NextAttempt, Conclude, Poll, GateOpens, backend
  <2>3. CASE SnapshotBefore
    <3>1. Zero \in Tokens
      BY DEF Zero, Tokens
    <3> QED
      BY <2>3, <3>1 DEF SnapshotBefore
  <2>4. CASE Send
    BY <2>4 DEF Send, Generation
  <2>5. CASE Respond
    BY <2>5, PlusType DEF Respond
  <2>6. CASE RequestFails
    BY <2>6, AbandonedType DEF RequestFails
  <2>7. CASE SnapshotAfter
    BY <2>7 DEF SnapshotAfter, backend
  <2>8. CASE append_checkpoint
    <3>1. reconcile(before, after, usage) \in BOOLEAN
      BY DEF reconcile
    <3>2. idx % Prompts \in Nat
      OBVIOUS
    <3>3. [attempt |-> attempt, prompt |-> idx % Prompts,
           isolated |-> reconcile(before, after, usage),
           intruded |-> intruded, reset |-> reset] \in Record
      BY <3>1, <3>2 DEF Record
    <3>4. checkpoint' \in Seq(Record)
      BY <2>8, <3>3 DEF append_checkpoint
    <3> QED
      BY <2>8, <3>4 DEF append_checkpoint, backend
  <2>9. CASE Stop
    BY <2>9, AbandonedType DEF Stop
  <2>10. CASE ForeignStarts
    BY <2>10 DEF ForeignStarts, Generation, script
  <2>11. CASE ForeignEnds
    <3>1. slot.tokens \in Tokens
      BY <2>11 DEF ForeignEnds, Busy, Generation
    <3> QED
      BY <2>11, <3>1, PlusType DEF ForeignEnds, script
  <2>12. CASE BackendRestarts
    <3>1. Zero \in Tokens
      BY DEF Zero, Tokens
    <3> QED
      BY <2>12, <3>1 DEF BackendRestarts
  <2>13. CASE UNCHANGED vars
    BY <2>13 DEF vars, script, backend
  <2> QED
    BY <2>1, <2>2, <2>3, <2>4, <2>5, <2>6, <2>7, <2>8, <2>9, <2>10, <2>11, <2>12, <2>13 DEF Next
<1> QED
  BY <1>1, <1>2, PTL DEF Spec


-----------------------------------------------------------------------------
(* The window of an attempt.                                               *)

\* While an attempt runs, the counters are its first snapshot and what other
\* tenants have had counted since; once our generation has been answered they
\* hold it as well, and so does the second snapshot.  A response whose usage is
\* known has been counted; no attempt has one before it is answered.
WindowAddsUp ==
  /\ Busy(TRUE) => pc = "await"
  /\ pc \notin {"after", "append"} => usage = None
  /\ before # None /\ ~reset =>
       /\ pc \in {"send", "await"} => counters = Plus(before, intruded)
       /\ pc = "after" /\ usage # None => counters = Plus(Plus(before, intruded), Ours)
       /\ pc = "append" /\ usage # None /\ after # None => after = Plus(Plus(before, intruded), Ours)

\* Adding another tenant's tokens to the counters and to what intruded keeps
\* the sums.
LEMMA PlusSums ==
  \A b, i, u, t \in Tokens :
    /\ Plus(Plus(b, i), t) = Plus(b, Plus(i, t))
    /\ Plus(Plus(Plus(b, i), u), t) = Plus(Plus(b, Plus(i, t)), u)
    /\ Plus(b, Zero) = b
  BY DEF Plus, Tokens, Zero

\* An attempt that reconciles had no more foreign tokens in its window than the
\* tolerance.
LEMMA ReconciledMeansAlone ==
  ASSUME NEW b \in Tokens, NEW i \in Tokens, Ours \in Tokens,
         Tolerance \in Nat, PromptTolerance \in Nat, PromptCounted \in BOOLEAN,
         reconcile(b, Plus(Plus(b, i), Ours), Ours)
  PROVE  Alone(i)
  BY DEF reconcile, Within, Alone, Plus, Tokens

LEMMA WindowHolds == Spec => []WindowAddsUp
<1> USE IsolationAssumption
<1>1. Init => WindowAddsUp
  BY DEF Init, WindowAddsUp, Busy
<1>2. TypeOK /\ WindowAddsUp /\ [Next]_vars => WindowAddsUp'
  <2> SUFFICES ASSUME TypeOK, WindowAddsUp, [Next]_vars
               PROVE  WindowAddsUp'
    OBVIOUS
  <2> USE DEF TypeOK, WindowAddsUp
  <2>1. CASE Start \/ NextAttempt \/ Conclude \/ Poll \/ GateOpens
    BY <2>1 DEF Start, NextAttempt, Conclude, Poll, GateOpens, backend, Busy
  <2>2. CASE SnapshotBefore
    BY <2>2, PlusSums DEF SnapshotBefore, Busy
  <2>3. CASE Send
    BY <2>3 DEF Send, Busy
  <2>4. CASE Respond
    BY <2>4 DEF Respond, Busy
  <2>5. CASE RequestFails
    <3>1. ~Busy(TRUE)'
      BY <2>5 DEF RequestFails, Abandoned, Busy, Generation
    <3> QED
      BY <2>5, <3>1 DEF RequestFails
  <2>6. CASE SnapshotAfter
    BY <2>6 DEF SnapshotAfter, backend, Busy
  <2>7. CASE append_checkpoint
    BY <2>7 DEF append_checkpoint, backend, Busy
  <2>8. CASE Stop
    <3>1. ~Busy(TRUE)'
      BY <2>8 DEF Stop, Abandoned, Busy, Generation
    <3> QED
      BY <2>8, <3>1 DEF Stop
  <2>9. CASE ForeignStarts
    BY <2>9 DEF ForeignStarts, Busy, script
  <2>10. CASE ForeignEnds
    <3>1. slot.tokens \in Tokens
      BY <2>10 DEF ForeignEnds, Busy, Generation
    <3>2. ~Busy(TRUE)'
      BY <2>10 DEF ForeignEnds, Busy
    <3>3. /\ counters' = Plus(counters, slot.tokens)
          /\ pc \in Window => intruded' = Plus(intruded, slot.tokens)
          /\ UNCHANGED <<pc, before, after, usage, reset>>
          /\ pc \notin Window => UNCHANGED intruded
      BY <2>10 DEF ForeignEnds, script
    <3>4. ASSUME before # None, ~reset, pc \in {"send", "await"}
          PROVE  counters' = Plus(before, intruded')
      BY <3>1, <3>3, <3>4, PlusSums DEF Window
    <3>5. ASSUME before # None, ~reset, pc = "after", usage # None
          PROVE  counters' = Plus(Plus(before, intruded'), Ours)
      BY <3>1, <3>3, <3>5, PlusSums DEF Window
    <3> QED
      BY <3>2, <3>3, <3>4, <3>5 DEF Window
  <2>11. CASE BackendRestarts
    BY <2>11 DEF BackendRestarts, Busy, Window
  <2>12. CASE UNCHANGED vars
    BY <2>12 DEF vars, script, backend, Busy
  <2> QED
    BY <2>1, <2>2, <2>3, <2>4, <2>5, <2>6, <2>7, <2>8, <2>9, <2>10, <2>11, <2>12 DEF Next
<1> QED
  BY <1>1, <1>2, TypesHold, PTL DEF Spec

\* Whatever the tolerances and the other tenants do, an observation on file as
\* isolated had no more of their tokens in its window than the tolerance allows,
\* unless the backend restarted in it.
THEOREM IsolationIsReal == Spec => []IsolatedMeansAlone
<1> USE IsolationAssumption
<1>1. Init => IsolatedMeansAlone
  BY DEF Init, IsolatedMeansAlone
<1>2. TypeOK /\ WindowAddsUp /\ IsolatedMeansAlone /\ [Next]_vars => IsolatedMeansAlone'
  <2> SUFFICES ASSUME TypeOK, WindowAddsUp, IsolatedMeansAlone, [Next]_vars
               PROVE  IsolatedMeansAlone'
    OBVIOUS
  <2>1. CASE append_checkpoint
    <3> DEFINE ok == reconcile(before, after, usage)
               rec == [attempt |-> attempt, prompt |-> idx % Prompts, isolated |-> ok,
                       intruded |-> intruded, reset |-> reset]
    <3>1. checkpoint' = Append(checkpoint, rec)
      BY <2>1 DEF append_checkpoint
    <3>2. ok /\ ~reset => Alone(intruded)
      <4> SUFFICES ASSUME ok, ~reset
                   PROVE  Alone(intruded)
        OBVIOUS
      <4>1. usage # None /\ before # None /\ after # None
        BY DEF reconcile
      <4>2. usage = Ours /\ before \in Tokens /\ intruded \in Tokens
        BY <4>1 DEF TypeOK
      <4>3. after = Plus(Plus(before, intruded), Ours)
        BY <2>1, <4>1 DEF append_checkpoint, WindowAddsUp
      <4> QED
        BY <4>2, <4>3, ReconciledMeansAlone
    <3>3. checkpoint \in Seq(Record)
      BY DEF TypeOK
    <3> HIDE DEF ok
    <3>4. ASSUME NEW k \in DOMAIN checkpoint',
                 checkpoint'[k].isolated, ~checkpoint'[k].reset
          PROVE  Alone(checkpoint'[k].intruded)
      <4>1. CASE k \in DOMAIN checkpoint
        <5>1. checkpoint'[k] = checkpoint[k]
          BY <3>1, <3>3, <4>1
        <5> QED
          BY <3>4, <4>1, <5>1 DEF IsolatedMeansAlone
      <4>2. CASE k \notin DOMAIN checkpoint
        <5>1. checkpoint'[k] = rec
          BY <3>1, <3>3, <4>2
        <5> QED
          BY <3>2, <3>4, <5>1
      <4> QED
        BY <4>1, <4>2
    <3> QED
      BY <3>4 DEF IsolatedMeansAlone
  <2>2. CASE UNCHANGED checkpoint
    BY <2>2 DEF IsolatedMeansAlone
  <2>3. append_checkpoint \/ UNCHANGED checkpoint
    BY DEF Next, Start, NextAttempt, Conclude, Poll, GateOpens, SnapshotBefore, Send, Respond,
           RequestFails, SnapshotAfter, Stop, ForeignStarts, ForeignEnds, BackendRestarts,
           vars, script
  <2> QED
    BY <2>1, <2>2, <2>3
<1> QED
  BY <1>1, <1>2, TypesHold, WindowHolds, PTL DEF Spec


-----------------------------------------------------------------------------
(* The order of the attempts.                                              *)

\* The remainder of a number one higher.
LEMMA NextRemainder ==
  ASSUME NEW P \in Nat \ {0}, NEW a \in Nat
  PROVE  (a + 1) % P = IF (a % P) + 1 = P THEN 0 ELSE (a % P) + 1
<1> DEFINE r == a % P
           s == (a + 1) % P
           d == (a + 1) \div P - (a \div P)
<1>1. /\ r \in 0 .. P - 1 /\ s \in 0 .. P - 1
      /\ a = P * (a \div P) + r /\ a + 1 = P * ((a + 1) \div P) + s
      /\ a \div P \in Int /\ (a + 1) \div P \in Int
  OBVIOUS
<1>2. d \in Int
  BY <1>1
<1>3. P * d = r + 1 - s
  <2>1. P * d = P * ((a + 1) \div P) - P * (a \div P)
    BY <1>1
  <2> QED
    BY <1>1, <2>1
<1> HIDE DEF d
<1>4. d < 2
  <2>1. d >= 2 => P * d >= P + P
    BY <1>2
  <2> QED
    BY <1>1, <1>2, <1>3, <2>1
<1>5. d > -1
  <2>1. d <= -1 => P * d <= -P
    BY <1>2
  <2> QED
    BY <1>1, <1>2, <1>3, <2>1
<1>6. CASE d = 0
  BY <1>1, <1>3, <1>6
<1>7. CASE d = 1
  BY <1>1, <1>3, <1>7
<1> QED
  BY <1>2, <1>4, <1>5, <1>6, <1>7

\* A record more is an isolated one more, or not.
LEMMA IsolatedGrows ==
  ASSUME NEW recs \in Seq(Record), NEW r \in Record
  PROVE  /\ IsolatedIn(recs) \in Nat
         /\ IsolatedIn(Append(recs, r)) = IF r.isolated THEN IsolatedIn(recs) + 1 ELSE IsolatedIn(recs)
<1> DEFINE n == Len(recs)
           more == Append(recs, r)
           I == {k \in DOMAIN recs : recs[k].isolated}
           J == {k \in DOMAIN more : more[k].isolated}
<1>1. /\ DOMAIN recs = 1 .. n /\ DOMAIN more = 1 .. n + 1 /\ n \in Nat
      /\ \A k \in 1 .. n : more[k] = recs[k]
      /\ more[n + 1] = r
  OBVIOUS
<1>2. IsFiniteSet(I) /\ Cardinality(I) \in Nat
  <2>1. IsFiniteSet(1 .. n) /\ I \subseteq 1 .. n
    BY <1>1, FS_Interval
  <2> HIDE DEF I, n
  <2> QED
    BY <2>1, FS_Subset, FS_CardinalityType
<1>3. J = IF r.isolated THEN I \cup {n + 1} ELSE I
  <2>1. n + 1 \in J <=> r.isolated
    BY <1>1
  <2>2. \A k \in 1 .. n : k \in J <=> k \in I
    BY <1>1
  <2>3. J \subseteq 1 .. n + 1 /\ I \subseteq 1 .. n
    BY <1>1
  <2>4. 1 .. n + 1 = (1 .. n) \cup {n + 1}
    BY <1>1
  <2>5. r.isolated \in BOOLEAN
    BY DEF Record
  <2> HIDE DEF I, J, more, n
  <2>6. CASE r.isolated
    BY <2>1, <2>2, <2>3, <2>4, <2>6
  <2>7. CASE ~r.isolated
    <3>1. n + 1 \notin J /\ J \subseteq (1 .. n) \cup {n + 1}
      BY <2>1, <2>3, <2>4, <2>7
    <3>2. J = I
      BY <2>2, <2>3, <3>1
    <3> QED
      BY <2>7, <3>2
  <2> QED
    BY <2>6, <2>7
<1>4. n + 1 \notin I
  BY <1>1
<1>5. IsolatedIn(recs) = Cardinality(I) /\ IsolatedIn(more) = Cardinality(J)
  BY DEF IsolatedIn
<1> HIDE DEF I, J, more, n
<1> QED
  BY <1>2, <1>3, <1>4, <1>5, FS_AddElement DEF more

\* Where the arm is, by the file and by the counters of its loop; an attempt
\* runs only while there is one to make and one to find.
LoopFollowsTheFile ==
  /\ pc \notin {"stopped", "concluded"} =>
       /\ attempt = Len(checkpoint)
       /\ idx % Prompts = Len(checkpoint) % Prompts
       /\ isolated = IsolatedIn(checkpoint)
  /\ pc \in Running \ {"loop"} => isolated < Target /\ attempt < MaxAttempts

\* Both hold.
LEMMA OrderHolds == Spec => [](AttemptsInOrder /\ LoopFollowsTheFile)
<1> DEFINE IInv == AttemptsInOrder /\ LoopFollowsTheFile
<1> USE IsolationAssumption
<1>1. Init => IInv
  <2> SUFFICES ASSUME Init PROVE IInv
    OBVIOUS
  <2>1. checkpoint = << >> /\ DOMAIN checkpoint = {} /\ Len(checkpoint) = 0
    BY DEF Init
  <2>2. IsolatedIn(checkpoint) = 0
    <3>1. {k \in DOMAIN checkpoint : checkpoint[k].isolated} = {}
      BY <2>1
    <3> QED
      BY <3>1, FS_EmptySet DEF IsolatedIn
  <2> QED
    BY <2>1, <2>2 DEF Init, AttemptsInOrder, LoopFollowsTheFile, Running
<1>2. TypeOK /\ TypeOK' /\ WindowAddsUp /\ IInv /\ [Next]_vars => IInv'
  <2> SUFFICES ASSUME TypeOK, TypeOK', WindowAddsUp, IInv, [Next]_vars
               PROVE  IInv'
    OBVIOUS
  <2>1. CASE append_checkpoint
    <3> DEFINE ok == reconcile(before, after, usage)
               n == Len(checkpoint)
               rec == [attempt |-> attempt, prompt |-> idx % Prompts, isolated |-> ok,
                       intruded |-> intruded, reset |-> reset]
    <3>1. /\ checkpoint' = Append(checkpoint, rec) /\ checkpoint \in Seq(Record)
          /\ attempt' = attempt + 1 /\ idx' = idx + 1 /\ pc' = "loop"
          /\ isolated' = IF ok THEN isolated + 1 ELSE isolated
      BY <2>1 DEF append_checkpoint, TypeOK
    <3>2. /\ attempt = n /\ idx % Prompts = n % Prompts /\ isolated = IsolatedIn(checkpoint)
          /\ isolated < Target /\ attempt < MaxAttempts
          /\ n \in Nat /\ idx \in Nat /\ isolated \in Nat
      BY <2>1, <3>1 DEF append_checkpoint, LoopFollowsTheFile, Running, TypeOK
    <3>3. rec \in Record
      BY <3>2 DEF Record, TypeOK, reconcile
    <3>4. IsolatedIn(checkpoint') = isolated'
      BY <3>1, <3>2, <3>3, IsolatedGrows
    <3>5. Len(checkpoint') = n + 1
      BY <3>1, <3>3
    <3>6. (idx + 1) % Prompts = (n + 1) % Prompts
      <4>1. \A a \in Nat : (a + 1) % Prompts = IF (a % Prompts) + 1 = Prompts THEN 0 ELSE (a % Prompts) + 1
        BY NextRemainder
      <4> HIDE DEF n
      <4> QED
        BY <3>2, <4>1
    <3>7. ASSUME NEW k \in DOMAIN checkpoint'
          PROVE  checkpoint'[k].attempt = k - 1 /\ checkpoint'[k].prompt = (k - 1) % Prompts
      <4>1. CASE k \in DOMAIN checkpoint
        <5>1. checkpoint'[k] = checkpoint[k]
          BY <3>1, <3>3, <4>1
        <5> QED
          BY <4>1, <5>1 DEF AttemptsInOrder
      <4>2. CASE k \notin DOMAIN checkpoint
        <5>1. k = n + 1 /\ checkpoint'[k] = rec
          BY <3>1, <3>3, <4>2
        <5>2. k - 1 = n
          BY <3>2, <5>1
        <5> QED
          BY <3>2, <5>1, <5>2
      <4> QED
        BY <4>1, <4>2
    <3>8. n + 1 <= MaxAttempts /\ isolated' <= Target
      BY <3>1, <3>2
    <3> QED
      BY <3>1, <3>2, <3>4, <3>5, <3>6, <3>7, <3>8 DEF AttemptsInOrder, LoopFollowsTheFile, Running
  <2>2. CASE UNCHANGED checkpoint
    <3>1. AttemptsInOrder'
      BY <2>2 DEF AttemptsInOrder, IsolatedIn
    <3>2. IsolatedIn(checkpoint)' = IsolatedIn(checkpoint)
      BY <2>2 DEF IsolatedIn
    <3>3. ASSUME Start PROVE LoopFollowsTheFile'
      <4>1. (Len(checkpoint) % Prompts) % Prompts = Len(checkpoint) % Prompts
        BY DEF TypeOK
      <4> QED
        BY <2>2, <3>2, <3>3, <4>1 DEF Start, ReadCheckpoint, LoopFollowsTheFile, Running
    <3>4. ASSUME NextAttempt PROVE LoopFollowsTheFile'
      BY <2>2, <3>2, <3>4 DEF NextAttempt, LoopFollowsTheFile, Running
    <3>5. ASSUME UNCHANGED <<attempt, idx, isolated>>,
                 \/ UNCHANGED pc
                 \/ pc \in Running \ {"loop"} /\ pc' \in Running
                 \/ pc' \in {"stopped", "concluded"}
          PROVE  LoopFollowsTheFile'
      BY <2>2, <3>2, <3>5 DEF LoopFollowsTheFile, Running
    <3>6. \/ Start \/ NextAttempt \/ append_checkpoint
          \/ /\ UNCHANGED <<attempt, idx, isolated>>
             /\ \/ UNCHANGED pc
                \/ pc \in Running \ {"loop"} /\ pc' \in Running
                \/ pc' \in {"stopped", "concluded"}
      BY DEF Next, Conclude, Poll, GateOpens, SnapshotBefore, Send, Respond,
             RequestFails, SnapshotAfter, Stop, ForeignStarts, ForeignEnds, BackendRestarts,
             vars, script, Running, WindowAddsUp
    <3>7. ASSUME append_checkpoint PROVE FALSE
      BY <2>2, <3>7 DEF append_checkpoint, TypeOK
    <3> QED
      BY <3>1, <3>3, <3>4, <3>5, <3>6, <3>7
  <2>3. append_checkpoint \/ UNCHANGED checkpoint
    BY DEF Next, Start, NextAttempt, Conclude, Poll, GateOpens, SnapshotBefore, Send, Respond,
           RequestFails, SnapshotAfter, Stop, ForeignStarts, ForeignEnds, BackendRestarts,
           vars, script
  <2> QED
    BY <2>1, <2>2, <2>3
<1> QED
  BY <1>1, <1>2, TypesHold, WindowHolds, PTL DEF Spec, AttemptsInOrder

\* However often the script is stopped and started, and whatever the bounds of
\* the arm, its attempts are on file in order, once each, no more than asked for.
THEOREM AttemptsStayInOrder == Spec => []AttemptsInOrder
  BY OrderHolds, PTL

-----------------------------------------------------------------------------
(* The arm comes to a conclusion.                                          *)

\* How many steps run_arm has left at most, but for polls of the gate: seven in
\* each attempt, and the attempts that are still allowed.
StepsLeft ==
  8 * (MaxAttempts - attempt)
    + [loop |-> 7, gate |-> 6, before |-> 5, send |-> 4, await |-> 3, after |-> 2, append |-> 1][pc]

\* An arm that runs gets nearer its end with everything the script does but a
\* poll of the idle gate, which leaves it where it is; no other tenant and no
\* restart of the backend takes it away from it, be the backend never idle; and
\* as long as it runs it has a step left.  With the fairness of FairSpec this is
\* what ImplementsCampaign asks of a running arm.
THEOREM ArmGetsToItsEnd ==
  Spec => /\ [](pc \in Running => StepsLeft \in Nat)
          /\ [][(pc \in Running /\ pc' \in Running) =>
                  StepsLeft' < StepsLeft \/ (StepsLeft' = StepsLeft /\ pc' = pc)]_vars
          /\ [][(pc \in Running /\ pc' \notin Running) => Conclude \/ Stop]_vars
<1> USE IsolationAssumption
<1>1. TypeOK /\ AttemptsInOrder /\ LoopFollowsTheFile => (pc \in Running => StepsLeft \in Nat)
  <2> SUFFICES ASSUME TypeOK, AttemptsInOrder, LoopFollowsTheFile, pc \in Running
               PROVE  StepsLeft \in Nat
    OBVIOUS
  <2>1. attempt \in Nat /\ attempt <= MaxAttempts
    BY DEF TypeOK, AttemptsInOrder, LoopFollowsTheFile, Running
  <2> QED
    BY <2>1 DEF Running, StepsLeft
<1>2. TypeOK /\ WindowAddsUp /\ [Next]_vars =>
        /\ pc \in Running /\ pc' \in Running =>
             StepsLeft' < StepsLeft \/ (StepsLeft' = StepsLeft /\ pc' = pc)
        /\ pc \in Running /\ pc' \notin Running => Conclude \/ Stop
  <2> SUFFICES ASSUME TypeOK, WindowAddsUp, [Next]_vars, pc \in Running
               PROVE  /\ pc' \in Running =>
                           StepsLeft' < StepsLeft \/ (StepsLeft' = StepsLeft /\ pc' = pc)
                      /\ pc' \notin Running => Conclude \/ Stop
    OBVIOUS
  <2>0. attempt \in Nat
    BY DEF TypeOK
  <2>1. CASE Conclude \/ Stop
    BY <2>1 DEF Conclude, Stop, Running
  <2>2. ASSUME NEW p \in Running, NEW q \in Running, pc = p, pc' = q, UNCHANGED attempt,
               <<p, q>> \in {<<"loop", "gate">>, <<"gate", "before">>, <<"before", "send">>,
                            <<"send", "await">>, <<"send", "after">>, <<"await", "after">>,
                            <<"after", "append">>}
        PROVE  StepsLeft' < StepsLeft
    BY <2>0, <2>2 DEF StepsLeft
  <2>3. ASSUME UNCHANGED <<pc, attempt>> PROVE StepsLeft' = StepsLeft
    BY <2>3 DEF StepsLeft
  <2>4. CASE append_checkpoint
    <3>1. pc = "append" /\ pc' = "loop" /\ attempt' = attempt + 1
      BY <2>4 DEF append_checkpoint
    <3> QED
      BY <2>0, <3>1 DEF StepsLeft, Running
  <2>5. CASE NextAttempt \/ SnapshotBefore \/ Send \/ Respond \/ RequestFails \/ SnapshotAfter \/ GateOpens
    BY <2>2, <2>5 DEF NextAttempt, SnapshotBefore, Send, Respond, RequestFails, SnapshotAfter, GateOpens, Running
  <2>6. CASE Poll
    <3>1. UNCHANGED <<pc, attempt>> \/ (pc = "gate" /\ pc' = "before" /\ UNCHANGED attempt)
      BY <2>6 DEF Poll
    <3> QED
      BY <2>2, <2>3, <3>1 DEF Running
  <2>7. CASE ForeignStarts \/ ForeignEnds \/ UNCHANGED vars
    BY <2>3, <2>7 DEF ForeignStarts, ForeignEnds, script, vars
  <2>8. CASE BackendRestarts
    <3>1. UNCHANGED <<pc, attempt>> \/ (pc = "await" /\ pc' = "after" /\ UNCHANGED attempt)
      BY <2>8 DEF BackendRestarts, WindowAddsUp
    <3> QED
      BY <2>2, <2>3, <3>1 DEF Running
  <2>9. ~Start
    BY DEF Start, Running
  <2> QED
    BY <2>1, <2>4, <2>5, <2>6, <2>7, <2>8, <2>9 DEF Next
<1> QED
  BY <1>1, <1>2, TypesHold, WindowHolds, OrderHolds, PTL DEF Spec

-----------------------------------------------------------------------------
(* The arm implements the campaign.                                        *)

LogOf(recs) == [k \in DOMAIN recs |-> Entry(recs[k])]

\* The log of the campaign is as long as the file, calls as many attempts
\* isolated, and grows with it.
LEMMA LogFollowsTheFile ==
  ASSUME NEW recs \in Seq(Record)
  PROVE  /\ Len(LogOf(recs)) = Len(recs)
         /\ Cardinality({k \in DOMAIN LogOf(recs) : LogOf(recs)[k].isolated}) = IsolatedIn(recs)
         /\ \A r \in Record : LogOf(Append(recs, r)) = Append(LogOf(recs), Entry(r))
<1> DEFINE E == [attempt : Nat, prompt : Nat, isolated : BOOLEAN, alone : BOOLEAN, reset : BOOLEAN]
           log == LogOf(recs)
<1>1. \A r \in Record : Entry(r) \in E /\ Entry(r).isolated = r.isolated
  BY DEF Record, Entry, Alone
<1>2. /\ DOMAIN log = DOMAIN recs /\ DOMAIN recs = 1 .. Len(recs) /\ Len(recs) \in Nat
      /\ \A k \in DOMAIN recs : log[k] = Entry(recs[k]) /\ recs[k] \in Record
  BY DEF LogOf
<1> HIDE DEF E
<1>3. log \in Seq(E) /\ Len(log) = Len(recs)
  <2>1. log \in [1 .. Len(recs) -> E]
    BY <1>1, <1>2 DEF LogOf
  <2> HIDE DEF log
  <2> QED
    BY <1>2, <2>1
<1>4. {k \in DOMAIN log : log[k].isolated} = {k \in DOMAIN recs : recs[k].isolated}
  BY <1>1, <1>2
<1>5. ASSUME NEW r \in Record
      PROVE  LogOf(Append(recs, r)) = Append(log, Entry(r))
  <2> DEFINE more == Append(recs, r)
             left == LogOf(more)
             right == Append(log, Entry(r))
             n == Len(recs)
  <2>1. /\ DOMAIN more = 1 .. n + 1 /\ more[n + 1] = r
        /\ \A k \in 1 .. n : more[k] = recs[k]
    BY <1>2
  <2>2. /\ right \in Seq(E) /\ DOMAIN right = 1 .. n + 1 /\ right[n + 1] = Entry(r)
        /\ \A k \in 1 .. n : right[k] = log[k]
    <3>1. Entry(r) \in E
      BY <1>1
    <3> HIDE DEF log
    <3> QED
      BY <1>3, <3>1
  <2> HIDE DEF right, more, n
  <2>3. left = [k \in 1 .. n + 1 |-> Entry(more[k])]
    BY <2>1 DEF LogOf
  <2>4. \A k \in 1 .. n + 1 : Entry(more[k]) = right[k]
    <3>1. n \in Nat
      BY <1>2 DEF n
    <3> SUFFICES ASSUME NEW k \in 1 .. n + 1 PROVE Entry(more[k]) = right[k]
      OBVIOUS
    <3>2. CASE k = n + 1
      BY <2>1, <2>2, <3>2
    <3>3. CASE k \in 1 .. n
      BY <1>2, <2>1, <2>2, <3>3 DEF n
    <3> QED
      BY <3>1, <3>2, <3>3
  <2>5. right = [k \in 1 .. n + 1 |-> right[k]]
    BY <2>2
  <2> HIDE DEF left
  <2>6. left = right
    BY <2>3, <2>4, <2>5
  <2> QED
    BY <2>6 DEF left, right, more
<1> QED
  BY <1>3, <1>4, <1>5 DEF IsolatedIn

\* Whatever its budget, its prompts and the other tenants, and however often
\* the script and the backend restart, an arm of b5r_isolated.py does what
\* IsolatedCampaign says: attempts on file in turn and in budget, none isolated
\* that was not, and a verdict that is true of the file although run_arm takes
\* it from its own counter.
THEOREM KeepsCampaign == Spec => Campaign!Spec
<1> USE IsolationAssumption
<1> DEFINE log == LogOf(checkpoint)
<1>1. Init => Campaign!Init
  BY DEF Init, Campaign!Init, ModeOf
<1>2. /\ TypeOK /\ TypeOK' /\ WindowAddsUp /\ LoopFollowsTheFile /\ IsolatedMeansAlone'
      /\ [Next]_vars
      => [Campaign!Next]_(Campaign!campaignVars)
  <2> SUFFICES ASSUME TypeOK, TypeOK', WindowAddsUp, LoopFollowsTheFile, IsolatedMeansAlone',
                      [Next]_vars
               PROVE  Campaign!Next \/ UNCHANGED Campaign!campaignVars
    OBVIOUS
  <2>0. checkpoint \in Seq(Record)
    BY DEF TypeOK
  <2>a. /\ Len(log) = Len(checkpoint)
        /\ Campaign!IsolatedSoFar = IsolatedIn(checkpoint)
        /\ UNCHANGED checkpoint => UNCHANGED log
    <3>1. /\ Len(log) = Len(checkpoint)
          /\ Cardinality({k \in DOMAIN log : log[k].isolated}) = IsolatedIn(checkpoint)
      BY <2>0, LogFollowsTheFile
    <3>2. Campaign!IsolatedSoFar = Cardinality({k \in DOMAIN log : log[k].isolated})
      BY Zenon DEF Campaign!IsolatedSoFar, Campaign!Cardinality, Cardinality, LogOf
    <3>3. UNCHANGED checkpoint => UNCHANGED log
      BY DEF LogOf
    <3> QED
      BY <3>1, <3>2, <3>3
  <2>b. pc \notin {"stopped", "concluded"} =>
          (Campaign!Wanted <=> isolated < Target /\ attempt < MaxAttempts)
    BY <2>a DEF LoopFollowsTheFile, Campaign!Wanted, LogOf
  <2>1. CASE Start
    <3>1. ModeOf = "stopped" /\ ModeOf' = "running" /\ UNCHANGED log
      BY <2>1, <2>a DEF Start, ModeOf
    <3> QED
      BY <3>1 DEF Campaign!Next, Campaign!Start, LogOf
  <2>2. CASE Stop
    <3>1. ModeOf = "running" /\ ModeOf' = "stopped" /\ UNCHANGED log
      BY <2>2, <2>a DEF Stop, ModeOf
    <3> QED
      BY <3>1 DEF Campaign!Next, Campaign!Stop, LogOf
  <2>3. CASE Conclude
    <3>1. /\ ModeOf = "running" /\ UNCHANGED log
          /\ ModeOf' = IF isolated < Target THEN "inconclusive" ELSE "ok"
          /\ isolated >= Target \/ attempt >= MaxAttempts
          /\ isolated = IsolatedIn(checkpoint)
          /\ pc = "loop"
      BY <2>3, <2>a DEF Conclude, ModeOf, LoopFollowsTheFile
    <3>2. isolated \in Nat /\ attempt \in Nat
      BY DEF TypeOK
    <3>3. ~Campaign!Wanted
      BY <2>b, <3>1, <3>2
    <3>4. ModeOf' = IF Campaign!IsolatedSoFar >= Target THEN "ok" ELSE "inconclusive"
      BY <2>a, <3>1, <3>2
    <3> QED
      BY <3>1, <3>3, <3>4 DEF Campaign!Next, Campaign!Conclude, LogOf
  <2>4. CASE append_checkpoint
    <3> DEFINE ok == reconcile(before, after, usage)
               n == Len(checkpoint)
               rec == [attempt |-> attempt, prompt |-> idx % Prompts, isolated |-> ok,
                       intruded |-> intruded, reset |-> reset]
    <3>1. checkpoint' = Append(checkpoint, rec) /\ pc = "append" /\ pc' = "loop"
      BY <2>4 DEF append_checkpoint
    <3>2. /\ attempt = n /\ idx % Prompts = n % Prompts
          /\ isolated < Target /\ attempt < MaxAttempts /\ n \in Nat
      BY <2>0, <3>1 DEF LoopFollowsTheFile, Running
    <3>3. rec \in Record /\ ok \in BOOLEAN /\ Alone(rec.intruded) \in BOOLEAN /\ reset \in BOOLEAN
      BY <3>2 DEF Record, TypeOK, reconcile, Alone
    <3>4. ok => Alone(rec.intruded) \/ reset
      <4>1. n + 1 \in DOMAIN checkpoint' /\ checkpoint'[n + 1] = rec
        BY <2>0, <3>1, <3>3
      <4> HIDE DEF ok
      <4> QED
        BY <4>1 DEF IsolatedMeansAlone, Alone
    <3> HIDE DEF ok
    <3>5. log' = Append(log, Entry(rec))
      <4>1. LogOf(checkpoint') = Append(LogOf(checkpoint), Entry(rec))
        BY <2>0, <3>1, <3>3, LogFollowsTheFile
      <4> QED
        BY <4>1 DEF LogOf
    <3>6. Entry(rec) = [attempt |-> Len(log), prompt |-> Len(log) % Prompts, isolated |-> ok,
                        alone |-> Alone(rec.intruded), reset |-> reset]
      BY <2>a, <3>2 DEF Entry
    <3>7. ModeOf = "running" /\ UNCHANGED ModeOf /\ Campaign!Wanted
      BY <2>b, <3>1, <3>2 DEF ModeOf
    <3>8. \E i, a, r \in BOOLEAN :
            /\ i => a \/ r
            /\ log' = Append(log, [attempt |-> Len(log), prompt |-> Len(log) % Prompts,
                                   isolated |-> i, alone |-> a, reset |-> r])
      BY <3>3, <3>4, <3>5, <3>6
    <3> QED
      BY <3>7, <3>8 DEF Campaign!Next, Campaign!Observe, LogOf
  <2>5. ASSUME UNCHANGED <<checkpoint, isolated>>,
               UNCHANGED pc \/ (pc \in Running /\ pc' \in Running)
        PROVE  UNCHANGED Campaign!campaignVars
    <3>1. UNCHANGED ModeOf /\ UNCHANGED log
      BY <2>5, <2>a DEF ModeOf, Running
    <3> QED
      BY <3>1 DEF Campaign!campaignVars, LogOf
  <2>6. \/ Start \/ Stop \/ Conclude \/ append_checkpoint
        \/ /\ UNCHANGED <<checkpoint, isolated>>
           /\ UNCHANGED pc \/ (pc \in Running /\ pc' \in Running)
    BY DEF Next, NextAttempt, Poll, GateOpens, SnapshotBefore, Send, Respond, RequestFails,
           SnapshotAfter, ForeignStarts, ForeignEnds, BackendRestarts, vars, script, Running,
           WindowAddsUp
  <2> QED
    BY <2>1, <2>2, <2>3, <2>4, <2>5, <2>6
<1> QED
  BY <1>1, <1>2, TypesHold, WindowHolds, OrderHolds, IsolationIsReal, PTL DEF Spec, Campaign!Spec

=============================================================================
