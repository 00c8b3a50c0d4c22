---------------------------- MODULE B5cArmsProofs ----------------------------
(***************************************************************************)
(* What the assertions of the in-cluster comparison (b5c) are worth: for   *)
(* any prompts, token counts, tenants and clients, an arm that passes had  *)
(* its backends to itself and its requests classified, unless they or the  *)
(* gateway restarted in it, and no arm is served from the cache because of *)
(* another.                                                                *)
(***************************************************************************)
EXTENDS B5cArms, FiniteSetTheorems, TLAPS

-----------------------------------------------------------------------------
(* Types.                                                                  *)

Request == [prompt : AllPrompts, classified : BOOLEAN, cached : BOOLEAN,
            model : backends \cup {"b7-static"}]

RecordType == [prompt : AllPrompts, ok : BOOLEAN, model : backends \cup {"b7-static"},
               classified : BOOLEAN, cached : BOOLEAN]

Generation == [ours : BOOLEAN, tokens : Nat]

Counts == [total : Nat, ok : Nat]

Reading == [praxis : Counts \cup {None}, backend : [backends -> Nat \cup {None}]]

TypeOK ==
  /\ arm \in 1 .. 4
  /\ pc \in {"idle", "between", "setup", "send", "queued", "await", "after"}
  /\ unread \subseteq backends /\ todo \subseteq AllPrompts
  /\ pc \in {"queued", "await"} => request \in Request
  /\ records \subseteq RecordType /\ IsFiniteSet(records)
  /\ before \in Reading /\ after \in Reading
  /\ classify \in Counts
  /\ slot \in [backends -> Generation \cup {None}]
  /\ tokens \in [backends -> Nat] /\ intruded \in [backends -> Nat]

LEMMA ArmsType ==
  ASSUME arm \in 1 .. 4
  PROVE  /\ name \in {"classify-probe", "always-large", "always-small", "classified"}
         /\ name = "classify-probe" <=> arm = 1
         /\ name = "classified" <=> arm = 4
         /\ Watched(name) \subseteq backends
<1>1. \/ arm = 1 /\ name = "classify-probe"
      \/ arm = 2 /\ name = "always-large"
      \/ arm = 3 /\ name = "always-small"
      \/ arm = 4 /\ name = "classified"
  BY DEF name, specs
<1> QED
  BY <1>1 DEF Watched, backends

LEMMA PromptsType == \A a : Prompts(a) \subseteq AllPrompts
  BY DEF Prompts, _slice, AllPrompts

\* What happens to a generation nobody waits for.
LEMMA SlotsType ==
  ASSUME slot \in [backends -> Generation \cup {None}], NEW s \in Slots
  PROVE  /\ s \in [backends -> Generation \cup {None}]
         /\ \A b \in backends : s[b] # None => ~s[b].ours
<1>1. \A b \in backends : s[b] \in Abandoned(b) /\ DOMAIN s = backends /\ s = [c \in backends |-> s[c]]
  BY DEF Slots
<1>2. ASSUME NEW b \in backends
      PROVE  s[b] \in Generation \cup {None} /\ (s[b] # None => ~s[b].ours)
  <2>1. CASE slot[b] # None /\ slot[b].ours
    <3>1. slot[b] \in Generation
      BY <2>1
    <3>2. [slot[b] EXCEPT !.ours = FALSE] \in Generation /\ ~[slot[b] EXCEPT !.ours = FALSE].ours
      BY <3>1 DEF Generation
    <3> QED
      BY <1>1, <2>1, <3>2 DEF Abandoned
  <2>2. CASE ~(slot[b] # None /\ slot[b].ours)
    BY <1>1, <2>2 DEF Abandoned
  <2> QED
    BY <2>1, <2>2
<1>3. DOMAIN s = backends /\ s = [c \in DOMAIN s |-> s[c]]
  BY DEF Slots
<1> QED
  BY <1>2, <1>3

\* One more record.
LEMMA RecordAdds ==
  ASSUME TypeOK, pc \in {"queued", "await"}, NEW ok \in BOOLEAN
  PROVE  /\ Record(ok) \in RecordType
         /\ IsFiniteSet(records \cup {Record(ok)})
<1>1. Record(ok) \in RecordType
  BY DEF TypeOK, Record, Request, RecordType
<1> QED
  BY <1>1, FS_AddElement DEF TypeOK

-----------------------------------------------------------------------------
(* The types are preserved.                                                *)

LEMMA InitTypes == Init => TypeOK
<1> SUFFICES ASSUME Init PROVE TypeOK
  OBVIOUS
<1>1. IsFiniteSet(records)
  BY FS_EmptySet DEF Init
<1>2. NoReading \in Reading
  BY DEF NoReading, Reading
<1> QED
  BY <1>1, <1>2 DEF Init, TypeOK, Counts

\* What is read is a reading.
LEMMA ReadingType ==
  ASSUME TypeOK, NEW b \in backends
  PROVE  /\ NoReading \in Reading
         /\ [NoReading EXCEPT !.praxis = classify] \in Reading
         /\ [before EXCEPT !.backend[b] = tokens[b]] \in Reading
         /\ [after EXCEPT !.backend[b] = tokens[b]] \in Reading
         /\ [after EXCEPT !.praxis = classify] \in Reading
<1>1. classify \in Counts /\ tokens[b] \in Nat /\ before \in Reading /\ after \in Reading
  BY DEF TypeOK
<1>2. NoReading \in Reading
  BY DEF NoReading, Reading
<1> QED
  BY <1>1, <1>2 DEF Reading

LEMMA ClassifyType ==
  ASSUME TypeOK, NEW p \in AllPrompts, Classify(p)
  PROVE  request' \in Request /\ classify' \in Counts
<1>1. classify \in Counts
  BY DEF TypeOK
<1>2. [classify EXCEPT !.total = @ + 1] \in Counts
      /\ [total |-> classify.total + 1, ok |-> classify.ok + 1] \in Counts
  BY <1>1 DEF Counts
<1>3. (p \in cache) \in BOOLEAN
  OBVIOUS
<1>4. CASE \E b \in backends :
             request' = [prompt |-> p, classified |-> TRUE, cached |-> p \in cache,
                         model |-> IF name = "classify-probe" THEN "b7-static" ELSE b]
  BY <1>2, <1>3, <1>4 DEF Classify, Request
<1>5. CASE request' = [prompt |-> p, classified |-> FALSE, cached |-> FALSE,
                       model |-> IF name = "classify-probe" THEN "b7-static" ELSE "small"]
  BY <1>2, <1>5 DEF Classify, Request, backends
<1> QED
  BY <1>4, <1>5 DEF Classify

LEMMA NextTypes == B5cAssumption /\ TypeOK /\ [Next]_vars => TypeOK'
<1> SUFFICES ASSUME B5cAssumption, TypeOK, [Next]_vars PROVE TypeOK'
  OBVIOUS
<1> USE DEF driver, world, bounds
<1>1. CASE Start
  BY <1>1 DEF Start, TypeOK
<1>2. CASE setup
  <2>1. before' \in Reading /\ after' \in Reading
    BY <1>2, ReadingType DEF setup, backends
  <2>2. unread' \subseteq backends /\ todo' \subseteq AllPrompts
    BY <1>2, ArmsType, PromptsType DEF setup, TypeOK
  <2>3. IsFiniteSet(records')
    BY <1>2, FS_EmptySet DEF setup
  <2> QED
    BY <1>2, <2>1, <2>2, <2>3 DEF setup, TypeOK
<1>3. CASE Drive
  BY <1>3 DEF Drive, TypeOK
<1>4. ASSUME NEW p \in todo, Send(p) PROVE TypeOK'
  <2>1. p \in AllPrompts
    BY DEF TypeOK
  <2>2. request' \in Request /\ classify' \in Counts
    <3>1. CASE Classifies(name)
      BY <1>4, <2>1, <3>1, ClassifyType DEF Send
    <3>2. CASE ~Classifies(name)
      <4>1. request' = [prompt |-> p, classified |-> FALSE, cached |-> FALSE,
                        model |-> IF name = "always-large" THEN "large" ELSE "small"]
            /\ classify' = classify
        BY <1>4, <3>2 DEF Send
      <4> QED
        BY <4>1, <2>1 DEF Request, backends, TypeOK
    <3> QED
      BY <3>1, <3>2
  <2> QED
    BY <1>4, <2>2 DEF Send, TypeOK
<1>5. ASSUME NEW b \in backends, SnapshotBefore(b) PROVE TypeOK'
  <2>1. before' \in Reading
    BY <1>5, ReadingType DEF SnapshotBefore, TypeOK
  <2>2. intruded' \in [backends -> Nat]
    BY <1>5 DEF SnapshotBefore, TypeOK
  <2> QED
    BY <1>5, <2>1, <2>2 DEF SnapshotBefore, TypeOK
<1>6. ASSUME NEW b \in backends, SnapshotAfter(b) PROVE TypeOK'
  <2>1. after' \in Reading
    BY <1>6, ReadingType DEF SnapshotAfter, TypeOK
  <2> QED
    BY <1>6, <2>1 DEF SnapshotAfter, TypeOK
<1>7. ASSUME NEW b \in backends, Serve(b) PROVE TypeOK'
  <2>1. slot' \in [backends -> Generation \cup {None}]
    BY <1>7 DEF Serve, TypeOK, Generation, B5cAssumption
  <2> QED
    BY <1>7, <2>1 DEF Serve, TypeOK
<1>8. ASSUME NEW b \in backends, Respond(b) PROVE TypeOK'
  <2>1. slot' \in [backends -> Generation \cup {None}] /\ tokens' \in [backends -> Nat]
    BY <1>8 DEF Respond, TypeOK, B5cAssumption
  <2>2. records' \subseteq RecordType /\ IsFiniteSet(records')
    BY <1>8, RecordAdds DEF Respond, TypeOK
  <2> QED
    BY <1>8, <2>1, <2>2 DEF Respond, TypeOK
<1>9. ASSUME NEW b \in backends, ForeignStarts(b) PROVE TypeOK'
  <2>1. slot' \in [backends -> Generation \cup {None}]
    BY <1>9 DEF ForeignStarts, TypeOK, Generation, B5cAssumption
  <2> QED
    BY <1>9, <2>1 DEF ForeignStarts, TypeOK
<1>10. ASSUME NEW b \in backends, ForeignEnds(b) PROVE TypeOK'
  <2>1. slot[b].tokens \in Nat
    BY <1>10 DEF ForeignEnds, TypeOK, Generation
  <2>2. slot' \in [backends -> Generation \cup {None}]
    BY <1>10 DEF ForeignEnds, TypeOK
  <2>3. tokens' \in [backends -> Nat]
    BY <1>10, <2>1 DEF ForeignEnds, TypeOK
  <2>4. intruded' \in [backends -> Nat]
    BY <1>10, <2>1 DEF ForeignEnds, TypeOK
  <2> QED
    BY <1>10, <2>2, <2>3, <2>4 DEF ForeignEnds, TypeOK
<1>11. CASE Static
  <2>1. records' \subseteq RecordType /\ IsFiniteSet(records')
    BY <1>11, RecordAdds DEF Static, TypeOK
  <2> QED
    BY <1>11, <2>1 DEF Static, TypeOK
<1>12. CASE Fail
  <2>1. records' \subseteq RecordType /\ IsFiniteSet(records')
    BY <1>12, RecordAdds DEF Fail, Broken, TypeOK
  <2>2. slot' \in [backends -> Generation \cup {None}]
    BY <1>12, SlotsType DEF Fail, TypeOK
  <2> QED
    BY <1>12, <2>1, <2>2 DEF Fail, Broken, TypeOK
<1>13. CASE Observe
  <2>1. after' \in Reading
    BY <1>13, ReadingType DEF Observe, backends
  <2>2. unread' \subseteq backends
    BY <1>13, ArmsType DEF Observe, TypeOK
  <2> QED
    BY <1>13, <2>1, <2>2 DEF Observe, TypeOK
<1>14. CASE Report
  <2>1. before' \in Reading /\ after' \in Reading
    BY <1>14, ReadingType DEF Report, backends
  <2>2. IsFiniteSet(records')
    BY <1>14, FS_EmptySet DEF Report
  <2>3. arm' \in 1 .. 4
    BY <1>14 DEF Report, TypeOK, specs
  <2> QED
    BY <1>14, <2>1, <2>2, <2>3 DEF Report, TypeOK
<1>15. CASE ScrapeRaises
  <2>1. before' \in Reading /\ after' \in Reading
    BY <1>15, ReadingType DEF ScrapeRaises, backends
  <2>2. IsFiniteSet(records')
    BY <1>15, FS_EmptySet DEF ScrapeRaises
  <2> QED
    BY <1>15, <2>1, <2>2 DEF ScrapeRaises, TypeOK
<1>16. CASE StrangerClassified
  <2>1. classify' \in Counts
    BY <1>16 DEF StrangerClassified, TypeOK, Counts
  <2> QED
    BY <1>16, <2>1 DEF StrangerClassified, TypeOK
<1>17. ASSUME NEW b \in backends, BackendRestarts(b) PROVE TypeOK'
  <2>1. slot' \in [backends -> Generation \cup {None}] /\ tokens' \in [backends -> Nat]
    BY <1>17 DEF BackendRestarts, TypeOK
  <2>2. records' \subseteq RecordType /\ IsFiniteSet(records')
    BY <1>17, RecordAdds DEF BackendRestarts, Broken, TypeOK
  <2>3. pc' = "send" \/ (pc' = pc /\ request' = request)
    BY <1>17 DEF BackendRestarts, Broken
  <2> QED
    BY <1>17, <2>1, <2>2, <2>3 DEF BackendRestarts, TypeOK
<1>18. CASE GatewayRestarts
  <2>1. slot' \in [backends -> Generation \cup {None}] /\ classify' \in Counts
    BY <1>18, SlotsType DEF GatewayRestarts, TypeOK, Counts
  <2>2. records' \subseteq RecordType /\ IsFiniteSet(records')
    BY <1>18, RecordAdds DEF GatewayRestarts, Broken, TypeOK
  <2>3. pc' = "send" \/ (pc' = pc /\ request' = request)
    BY <1>18 DEF GatewayRestarts, Broken
  <2> QED
    BY <1>18, <2>1, <2>2, <2>3 DEF GatewayRestarts, TypeOK
<1>19. CASE UNCHANGED vars
  BY <1>19 DEF vars, TypeOK
<1> QED
  BY <1>1, <1>2, <1>3, <1>4, <1>5, <1>6, <1>7, <1>8, <1>9, <1>10, <1>11, <1>12,
     <1>13, <1>14, <1>15, <1>16, <1>17, <1>18, <1>19 DEF Next

\* Every state has the types of TypeOK.
THEOREM TypesHold == Spec => []TypeOK
<1>1. Init => TypeOK
  BY InitTypes
<1>2. TypeOK /\ [Next]_vars => TypeOK'
  BY NextTypes, B5cAssumption
<1> QED
  BY <1>1, <1>2, PTL DEF Spec

-----------------------------------------------------------------------------
(* Every prompt is one request and one record, and a reading of a backend  *)
(* is made once.                                                           *)

PromptsOnce ==
  /\ pc \in {"idle", "between", "setup"} => records = {}
  /\ \A r \in records : r.prompt \notin todo
  /\ pc \in {"queued", "await"} =>
       /\ request.prompt \notin todo
       /\ \A r \in records : r.prompt # request.prompt

ReadOnce ==
  /\ pc = "setup" => \A b \in unread : before.backend[b] = None
  /\ pc \in {"setup", "send", "queued", "await"} => \A b \in backends : after.backend[b] = None
  /\ pc = "after" => \A b \in unread : after.backend[b] = None

\* The generations that are ours are the ones we wait for.
SlotIsOurs ==
  \A b \in backends :
    slot[b] # None /\ slot[b].ours => pc = "await" /\ request.model = b

Bookkeeping == PromptsOnce /\ ReadOnce /\ SlotIsOurs

\* A record has the request's prompt, model and classification.
LEMMA RecordFields ==
  ASSUME NEW ok
  PROVE  /\ Record(ok).prompt = request.prompt /\ Record(ok).ok = ok
         /\ Record(ok).model = request.model
         /\ Record(ok).classified = request.classified
         /\ Record(ok).cached = request.cached
  BY DEF Record

\* A request that is not classified is one the gateway counts as a failure,
\* and one answered from the cache was in it.
Asked(p) ==
  /\ request'.prompt = p
  /\ request'.cached => p \in cache
  /\ cache' \subseteq cache \cup {p}
  /\ classify'.total - classify'.ok =
       classify.total - classify.ok + IF request'.classified THEN 0 ELSE 1

LEMMA ClassifyRequest ==
  ASSUME TypeOK, NEW p, Classify(p)
  PROVE  Asked(p)
<1>1. classify.total \in Nat /\ classify.ok \in Nat /\ classify \in Counts
  BY DEF TypeOK, Counts
<1>2. ASSUME NEW m, cache' = cache \cup {p},
             classify' = [total |-> classify.total + 1, ok |-> classify.ok + 1],
             request' = [prompt |-> p, classified |-> TRUE, cached |-> p \in cache, model |-> m]
      PROVE  Asked(p)
  <2>1. request'.prompt = p /\ request'.classified /\ request'.cached = (p \in cache)
    BY <1>2
  <2>2. classify'.total - classify'.ok = classify.total - classify.ok
    BY <1>1, <1>2
  <2>3. classify.total - classify.ok + 0 = classify.total - classify.ok
    BY <1>1
  <2> QED
    BY <1>2, <2>1, <2>2, <2>3 DEF Asked
<1>3. ASSUME NEW m, cache' = cache, classify' = [classify EXCEPT !.total = @ + 1],
             request' = [prompt |-> p, classified |-> FALSE, cached |-> FALSE, model |-> m]
      PROVE  Asked(p)
  <2>1. request'.prompt = p /\ request'.classified = FALSE /\ request'.cached = FALSE
    BY <1>3
  <2>2. classify'.total - classify'.ok = classify.total - classify.ok + 1
    BY <1>1, <1>3 DEF Counts
  <2> QED
    BY <1>3, <2>1, <2>2 DEF Asked
<1> QED
  BY <1>2, <1>3 DEF Classify

LEMMA PromptsPreserved == TypeOK /\ PromptsOnce /\ [Next]_vars => PromptsOnce'
<1> SUFFICES ASSUME TypeOK, PromptsOnce, [Next]_vars PROVE PromptsOnce'
  OBVIOUS
<1> USE DEF driver, world, bounds
<1>1. CASE Start \/ setup \/ Drive
  BY <1>1 DEF Start, setup, Drive, PromptsOnce
<1>2. ASSUME NEW p \in todo, Send(p) PROVE PromptsOnce'
  <2>1. request'.prompt = p
    <3>1. CASE Classifies(name)
      BY <1>2, <3>1, ClassifyRequest DEF Send, Asked
    <3>2. CASE ~Classifies(name)
      BY <1>2, <3>2 DEF Send
    <3> QED
      BY <3>1, <3>2
  <2>2. /\ pc' = "queued" /\ todo' = todo \ {p} /\ records' = records
    BY <1>2 DEF Send
  <2> QED
    BY <2>1, <2>2 DEF PromptsOnce
<1>3. ASSUME NEW b \in backends,
             SnapshotBefore(b) \/ SnapshotAfter(b) \/ Serve(b) \/ ForeignStarts(b) \/ ForeignEnds(b)
      PROVE  PromptsOnce'
  BY <1>3 DEF SnapshotBefore, SnapshotAfter, Serve, ForeignStarts, ForeignEnds, PromptsOnce
<1>4. ASSUME NEW ok \in BOOLEAN, pc \in {"queued", "await"}, pc' = "send",
             records' = records \cup {Record(ok)}, todo' = todo
      PROVE  PromptsOnce'
  BY <1>4, RecordFields DEF PromptsOnce
<1>5. ASSUME NEW b \in backends, Respond(b) PROVE PromptsOnce'
  BY <1>4, <1>5 DEF Respond
<1>6. CASE Static \/ Fail
  BY <1>4, <1>6 DEF Static, Fail, Broken
<1>7. CASE Observe \/ Report \/ ScrapeRaises \/ StrangerClassified
  BY <1>7 DEF Observe, Report, ScrapeRaises, StrangerClassified, PromptsOnce
<1>8. ASSUME NEW b \in backends, BackendRestarts(b) \/ GatewayRestarts PROVE PromptsOnce'
  <2>1. CASE pc \in {"queued", "await"} /\ Broken
    BY <1>4, <1>8, <2>1 DEF BackendRestarts, GatewayRestarts, Broken
  <2>2. CASE UNCHANGED <<pc, request, records>>
    BY <1>8, <2>2 DEF BackendRestarts, GatewayRestarts, PromptsOnce
  <2> QED
    BY <1>8, <2>1, <2>2 DEF BackendRestarts, GatewayRestarts
<1>9. CASE UNCHANGED vars
  BY <1>9 DEF vars, PromptsOnce
<1> QED
  BY <1>1, <1>2, <1>3, <1>5, <1>6, <1>7, <1>8, <1>9 DEF Next, backends

LEMMA ReadingsPreserved == TypeOK /\ ReadOnce /\ [Next]_vars => ReadOnce'
<1> SUFFICES ASSUME TypeOK, ReadOnce, [Next]_vars PROVE ReadOnce'
  OBVIOUS
<1> USE DEF driver, world, bounds
<1>1. before \in Reading /\ after \in Reading /\ unread \subseteq backends
  BY DEF TypeOK
<1>2. CASE Start \/ Drive \/ Report \/ ScrapeRaises \/ Static \/ Fail \/ StrangerClassified
  BY <1>2 DEF Start, Drive, Report, ScrapeRaises, Static, Fail, Broken, StrangerClassified, ReadOnce
<1>3. CASE setup
  <2>1. Watched(name) \subseteq backends
    BY ArmsType DEF TypeOK
  <2>2. /\ pc' = "setup" /\ after' = NoReading /\ unread' = Watched(name)
        /\ before' = [NoReading EXCEPT !.praxis = classify]
    BY <1>3 DEF setup
  <2> QED
    BY <2>1, <2>2 DEF NoReading, ReadOnce
<1>4. ASSUME NEW p \in todo, Send(p) PROVE ReadOnce'
  BY <1>4 DEF Send, ReadOnce
<1>5. ASSUME NEW b \in backends, SnapshotBefore(b) PROVE ReadOnce'
  <2>1. \A c \in backends \ {b} : before'.backend[c] = before.backend[c]
    BY <1>1, <1>5 DEF SnapshotBefore, Reading
  <2> QED
    BY <1>1, <1>5, <2>1 DEF SnapshotBefore, ReadOnce
<1>6. ASSUME NEW b \in backends, SnapshotAfter(b) PROVE ReadOnce'
  <2>1. \A c \in backends \ {b} : after'.backend[c] = after.backend[c]
    BY <1>1, <1>6 DEF SnapshotAfter, Reading
  <2> QED
    BY <1>1, <1>6, <2>1 DEF SnapshotAfter, ReadOnce
<1>7. ASSUME NEW b \in backends, Serve(b) \/ Respond(b) \/ ForeignStarts(b) \/ ForeignEnds(b)
      PROVE  ReadOnce'
  BY <1>7 DEF Serve, Respond, ForeignStarts, ForeignEnds, ReadOnce
<1>8. CASE Observe
  <2>1. after'.backend = after.backend /\ Watched(name) \subseteq backends
    BY <1>1, <1>8, ArmsType DEF Observe, Reading, TypeOK
  <2> QED
    BY <1>8, <2>1 DEF Observe, ReadOnce
<1>9. ASSUME NEW b \in backends, BackendRestarts(b) \/ GatewayRestarts PROVE ReadOnce'
  BY <1>9 DEF BackendRestarts, GatewayRestarts, Broken, ReadOnce
<1>10. CASE UNCHANGED vars
  BY <1>10 DEF vars, ReadOnce
<1> QED
  BY <1>2, <1>3, <1>4, <1>5, <1>6, <1>7, <1>8, <1>9, <1>10 DEF Next, backends

LEMMA SlotPreserved == TypeOK /\ SlotIsOurs /\ [Next]_vars => SlotIsOurs'
<1> SUFFICES ASSUME TypeOK, SlotIsOurs, [Next]_vars PROVE SlotIsOurs'
  OBVIOUS
<1> USE DEF driver, world, bounds
<1>1. slot \in [backends -> Generation \cup {None}]
  BY DEF TypeOK
<1>2. CASE \/ Start \/ setup \/ Drive \/ Static \/ Observe \/ Report \/ ScrapeRaises
           \/ StrangerClassified
  BY <1>2 DEF Start, setup, Drive, Static, Observe, Report, ScrapeRaises, StrangerClassified,
     SlotIsOurs
<1>3. ASSUME NEW p \in todo, Send(p) PROVE SlotIsOurs'
  BY <1>3 DEF Send, SlotIsOurs
<1>4. ASSUME NEW b \in backends, SnapshotBefore(b) \/ SnapshotAfter(b) PROVE SlotIsOurs'
  BY <1>4 DEF SnapshotBefore, SnapshotAfter, SlotIsOurs
<1>5. ASSUME NEW b \in backends, Serve(b) \/ Respond(b) PROVE SlotIsOurs'
  BY <1>1, <1>5 DEF Serve, Respond, SlotIsOurs
<1>6. ASSUME NEW b \in backends, ForeignStarts(b) \/ ForeignEnds(b) PROVE SlotIsOurs'
  BY <1>1, <1>6 DEF ForeignStarts, ForeignEnds, SlotIsOurs
<1>7. CASE Fail
  BY <1>1, <1>7, SlotsType DEF Fail, SlotIsOurs
<1>8. ASSUME NEW b \in backends, BackendRestarts(b) PROVE SlotIsOurs'
  <2>1. slot'[b] = None /\ \A c \in backends \ {b} : slot'[c] = slot[c]
    BY <1>1, <1>8 DEF BackendRestarts
  <2> QED
    BY <1>8, <2>1 DEF BackendRestarts, Broken, SlotIsOurs
<1>9. CASE GatewayRestarts
  BY <1>1, <1>9, SlotsType DEF GatewayRestarts, Broken, SlotIsOurs
<1>10. CASE UNCHANGED vars
  BY <1>10 DEF vars, SlotIsOurs
<1> QED
  BY <1>2, <1>3, <1>4, <1>5, <1>6, <1>7, <1>8, <1>9, <1>10 DEF Next

LEMMA BookkeepingHolds == Spec => []Bookkeeping
<1>1. Init => Bookkeeping
  BY DEF Init, Bookkeeping, PromptsOnce, ReadOnce, SlotIsOurs
<1>2. TypeOK /\ Bookkeeping /\ [Next]_vars => Bookkeeping'
  BY PromptsPreserved, ReadingsPreserved, SlotPreserved DEF Bookkeeping
<1> QED
  BY <1>1, <1>2, TypesHold, PTL DEF Spec

-----------------------------------------------------------------------------
(* Contention.  Between its two readings the counter of a backend that     *)
(* does not restart moves by what it generated for the records and by what *)
(* ended there for others.                                                 *)

AddsUp ==
  \A b \in backends \ restarted : before.backend[b] # None =>
    LET sum == before.backend[b] + Generated(records, b) + intruded[b]
    IN  /\ Window(b) => tokens[b] = sum
        /\ pc = "after" /\ b \notin unread /\ after.backend[b] # None => after.backend[b] = sum

LEMMA GeneratedType ==
  ASSUME B5cAssumption, TypeOK, NEW b \in backends
  PROVE  Generated(records, b) \in Nat
<1>1. IsFiniteSet({r \in Ok(records) : r.model = b})
  BY FS_Subset DEF Ok, TypeOK
<1> QED
  BY <1>1, FS_CardinalityType DEF Generated, B5cAssumption

LEMMA NothingGenerated ==
  ASSUME B5cAssumption, NEW b
  PROVE  Generated({}, b) = 0
<1>1. {r \in Ok({}) : r.model = b} = {}
  BY DEF Ok
<1> QED
  BY <1>1, FS_EmptySet DEF Generated, B5cAssumption

\* One more record: its tokens are counted for the backend that made them.
LEMMA GeneratedAdds ==
  ASSUME B5cAssumption, TypeOK, PromptsOnce, pc \in {"queued", "await"},
         NEW ok \in BOOLEAN, NEW b \in backends
  PROVE  Generated(records \cup {Record(ok)}, b) =
           Generated(records, b) + IF ok /\ request.model = b THEN Ours ELSE 0
<1> DEFINE S == {r \in Ok(records) : r.model = b}
           T == {r \in Ok(records \cup {Record(ok)}) : r.model = b}
<1>1. IsFiniteSet(S) /\ Cardinality(S) \in Nat
  BY FS_Subset, FS_CardinalityType DEF Ok, TypeOK
<1>2. Record(ok) \notin S
  BY RecordFields DEF PromptsOnce, Ok
<1>3. CASE ok /\ request.model = b
  <2>1. T = S \cup {Record(ok)}
    BY <1>3, RecordFields DEF Ok
  <2>2. Cardinality(T) = Cardinality(S) + 1
    BY <1>1, <1>2, <2>1, FS_AddElement
  <2>3. Ours * (Cardinality(S) + 1) = Ours * Cardinality(S) + Ours
    BY <1>1 DEF B5cAssumption
  <2> QED
    BY <1>3, <2>2, <2>3 DEF Generated
<1>4. CASE ~(ok /\ request.model = b)
  <2>1. T = S
    BY <1>4, RecordFields DEF Ok
  <2>2. Ours * Cardinality(S) + 0 = Ours * Cardinality(S)
    BY <1>1 DEF B5cAssumption
  <2>3. (IF ok /\ request.model = b THEN Ours ELSE 0) = 0
    BY <1>4
  <2>4. Ours * Cardinality(T) = Ours * Cardinality(S) + IF ok /\ request.model = b THEN Ours ELSE 0
    BY <2>1, <2>2, <2>3, Zenon
  <2> QED
    BY <2>4 DEF Generated
<1> QED
  BY <1>3, <1>4

LEMMA SumsPreserved ==
  B5cAssumption /\ TypeOK /\ Bookkeeping /\ AddsUp /\ [Next]_vars => AddsUp'
<1> SUFFICES ASSUME B5cAssumption, TypeOK, Bookkeeping, AddsUp, [Next]_vars,
                    NEW c \in backends
             PROVE  c \notin restarted' /\ before'.backend[c] # None =>
                      LET sum == before'.backend[c] + Generated(records', c) + intruded'[c]
                      IN  /\ Window(c)' => tokens'[c] = sum
                          /\ /\ pc' = "after" /\ c \notin unread' /\ after'.backend[c] # None
                             => after'.backend[c] = sum
  BY DEF AddsUp
<1> DEFINE Sums ==
             c \notin restarted' /\ before'.backend[c] # None =>
               LET sum == before'.backend[c] + Generated(records', c) + intruded'[c]
               IN  /\ Window(c)' => tokens'[c] = sum
                   /\ /\ pc' = "after" /\ c \notin unread' /\ after'.backend[c] # None
                      => after'.backend[c] = sum
<1> USE DEF driver, world, bounds
<1>1. /\ unread \subseteq backends /\ before \in Reading /\ after \in Reading
      /\ tokens \in [backends -> Nat] /\ intruded \in [backends -> Nat]
      /\ slot \in [backends -> Generation \cup {None}]
      /\ Generated(records, c) \in Nat
      /\ Ours \in Nat
  BY GeneratedType DEF TypeOK, B5cAssumption
<1>2. c \notin restarted /\ before.backend[c] # None =>
        LET sum == before.backend[c] + Generated(records, c) + intruded[c]
        IN  /\ Window(c) => tokens[c] = sum
            /\ pc = "after" /\ c \notin unread /\ after.backend[c] # None => after.backend[c] = sum
  BY DEF AddsUp
<1>3. /\ before.backend[c] \in Nat \cup {None} /\ after.backend[c] \in Nat \cup {None}
      /\ tokens[c] \in Nat /\ intruded[c] \in Nat
  BY <1>1 DEF Reading
<1> HIDE DEF Sums
<1>4. CASE Start \/ ScrapeRaises
  BY <1>4 DEF Start, ScrapeRaises, Window, Sums
<1>5. CASE setup
  <2>1. before'.backend[c] = None
    BY <1>5 DEF setup, NoReading
  <2> QED
    BY <2>1 DEF Sums
<1>6. ASSUME NEW b \in backends, SnapshotBefore(b) PROVE Sums
  <2>1. pc = "setup" /\ pc' = "setup" /\ b \in unread /\ unread' = unread \ {b}
        /\ records = {} /\ records' = {} /\ before.backend[b] = None /\ tokens' = tokens
    BY <1>6 DEF SnapshotBefore, Bookkeeping, PromptsOnce, ReadOnce
  <2>2. Generated(records', c) = 0 /\ Generated(records, c) = 0
    BY <2>1, NothingGenerated
  <2>3. CASE b = c
    <3>1. intruded'[c] = 0
      BY <1>1, <1>6, <2>3 DEF SnapshotBefore
    <3>2. before'.backend[c] = tokens[c] \/ before'.backend[c] = None
      BY <1>1, <1>6, <2>1, <2>3 DEF SnapshotBefore, Reading
    <3> QED
      BY <1>3, <2>1, <2>2, <3>1, <3>2 DEF Sums
  <2>4. CASE b # c
    <3>1. intruded'[c] = intruded[c] /\ before'.backend[c] = before.backend[c]
          /\ (c \in restarted' <=> c \in restarted)
      BY <1>1, <1>6, <2>4 DEF SnapshotBefore, Reading
    <3>2. Window(c)' => Window(c)
      BY <2>1, <2>4 DEF Window
    <3> QED
      BY <1>2, <2>1, <3>1, <3>2 DEF Sums
  <2> QED
    BY <2>3, <2>4
<1>7. CASE Drive
  BY <1>2, <1>7 DEF Drive, Window, Sums
<1>8. ASSUME NEW p \in todo, Send(p) PROVE Sums
  BY <1>2, <1>8 DEF Send, Window, Sums
<1>9. ASSUME NEW b \in backends, Serve(b) PROVE Sums
  BY <1>2, <1>9 DEF Serve, Window, Sums
<1>10. ASSUME NEW b \in backends, ForeignStarts(b) PROVE Sums
  BY <1>2, <1>10 DEF ForeignStarts, Window, Sums
<1>11. CASE StrangerClassified \/ UNCHANGED vars
  BY <1>2, <1>11 DEF StrangerClassified, vars, Window, Sums
<1>12. ASSUME NEW ok \in BOOLEAN, pc \in {"queued", "await"}, pc' = "send",
              records' = records \cup {Record(ok)}, before' = before, intruded' = intruded,
              c \in restarted => c \in restarted',
              tokens'[c] = tokens[c] + IF ok /\ request.model = c THEN Ours ELSE 0
       PROVE  Sums
  <2>1. Generated(records', c) = Generated(records, c) + IF ok /\ request.model = c THEN Ours ELSE 0
    BY <1>12, GeneratedAdds DEF Bookkeeping
  <2>2. Window(c)
    BY <1>12 DEF Window
  <2>3. pc' # "after"
    BY <1>12
  <2>4. c \notin restarted' /\ before.backend[c] # None =>
          tokens[c] = before.backend[c] + Generated(records, c) + intruded[c]
    BY <1>2, <1>12, <2>2
  <2>5. CASE ok /\ request.model = c
    BY <1>1, <1>3, <1>12, <2>1, <2>3, <2>4, <2>5 DEF Sums
  <2>6. CASE ~(ok /\ request.model = c)
    BY <1>1, <1>3, <1>12, <2>1, <2>3, <2>4, <2>6 DEF Sums
  <2> QED
    BY <2>5, <2>6
<1>13. CASE Static
  <2>1. request.model # c
    BY <1>13 DEF Static, backends
  <2>2. tokens'[c] = tokens[c] + 0
    BY <1>3, <1>13 DEF Static
  <2> QED
    BY <1>12, <1>13, <2>1, <2>2 DEF Static, Sums
<1>14. ASSUME NEW b \in backends, Respond(b) PROVE Sums
  <2>1. tokens'[c] = tokens[c] + IF request.model = c THEN Ours ELSE 0
    BY <1>1, <1>3, <1>14 DEF Respond
  <2> QED
    BY <1>12, <1>14, <2>1 DEF Respond
<1>15. CASE Fail
  <2>1. tokens'[c] = tokens[c] + 0
    BY <1>3, <1>15 DEF Fail
  <2> QED
    BY <1>12, <1>15, <2>1 DEF Fail, Broken, Sums
<1>16. CASE Observe
  <2>1. after'.backend[c] = None
    BY <1>1, <1>16 DEF Observe, Reading, Bookkeeping, ReadOnce
  <2> QED
    BY <1>2, <1>16, <2>1 DEF Observe, Window, Sums
<1>17. ASSUME NEW b \in backends, SnapshotAfter(b) PROVE Sums
  <2>1. pc = "after" /\ pc' = "after" /\ b \in unread /\ unread' = unread \ {b}
        /\ records' = records /\ before' = before /\ intruded' = intruded /\ tokens' = tokens
        /\ restarted' = restarted
    BY <1>17 DEF SnapshotAfter
  <2>2. CASE b = c
    <3>1. Window(c)
      BY <2>1, <2>2 DEF Window
    <3>2. after'.backend[c] = tokens[c] \/ after'.backend[c] = None
      BY <1>1, <1>17, <2>1, <2>2 DEF SnapshotAfter, Reading, Bookkeeping, ReadOnce
    <3>3. ~Window(c)'
      BY <2>1, <2>2 DEF Window
    <3> QED
      BY <1>2, <2>1, <3>1, <3>2, <3>3 DEF Sums
  <2>3. CASE b # c
    <3>1. after'.backend[c] = after.backend[c]
      BY <1>1, <1>17, <2>3 DEF SnapshotAfter, Reading
    <3> QED
      BY <1>2, <2>1, <2>3, <3>1 DEF Window, Sums
  <2> QED
    BY <2>2, <2>3
<1>18. CASE Report
  <2>1. before'.backend[c] = None
    BY <1>18 DEF Report, NoReading
  <2> QED
    BY <2>1 DEF Sums
<1>19. ASSUME NEW b \in backends, ForeignEnds(b) PROVE Sums
  <2>1. /\ slot[b].tokens \in Nat
        /\ Window(c)' <=> Window(c)
        /\ pc' = pc /\ unread' = unread /\ after' = after /\ before' = before /\ records' = records
        /\ restarted' = restarted
    BY <1>1, <1>19 DEF ForeignEnds, Generation, Window
  <2>2. CASE b = c /\ Window(c)
    <3>1. tokens'[c] = tokens[c] + slot[b].tokens /\ intruded'[c] = intruded[c] + slot[b].tokens
      BY <1>1, <1>19, <2>2 DEF ForeignEnds
    <3>2. ~(pc = "after" /\ c \notin unread)
      BY <2>2 DEF Window
    <3> QED
      BY <1>1, <1>2, <1>3, <2>1, <2>2, <3>1, <3>2 DEF Sums
  <2>3. CASE b = c /\ ~Window(c)
    <3>1. intruded'[c] = intruded[c]
      BY <1>1, <1>19, <2>3 DEF ForeignEnds
    <3> QED
      BY <1>2, <2>1, <2>3, <3>1 DEF Sums
  <2>4. CASE b # c
    <3>1. tokens'[c] = tokens[c] /\ intruded'[c] = intruded[c]
      BY <1>1, <1>19, <2>4 DEF ForeignEnds
    <3> QED
      BY <1>2, <2>1, <3>1 DEF Sums
  <2> QED
    BY <2>2, <2>3, <2>4
<1>20. ASSUME NEW b \in backends, BackendRestarts(b) PROVE Sums
  <2>1. /\ before' = before /\ after' = after /\ unread' = unread /\ intruded' = intruded
        /\ restarted \subseteq restarted'
        /\ pc' # "after" \/ (pc' = pc /\ records' = records)
    BY <1>20 DEF BackendRestarts, Broken
  <2>2. CASE b = c /\ Window(c)
    <3>1. c \in restarted'
      BY <1>20, <2>2 DEF BackendRestarts
    <3> QED
      BY <3>1 DEF Sums
  <2>3. CASE b = c /\ ~Window(c)
    <3>1. UNCHANGED <<pc, request, records>> /\ ~Window(c)'
      BY <1>20, <2>1, <2>3 DEF BackendRestarts, Window
    <3> QED
      BY <1>2, <2>1, <3>1 DEF Sums
  <2>4. CASE b # c
    <3>1. tokens'[c] = tokens[c]
      BY <1>1, <1>20, <2>4 DEF BackendRestarts
    <3>2. CASE pc = "await" /\ Broken
      <4>1. tokens'[c] = tokens[c] + 0
        BY <1>3, <3>1
      <4> QED
        BY <1>12, <2>1, <3>2, <4>1 DEF Broken, Sums
    <3>3. CASE UNCHANGED <<pc, request, records>>
      BY <1>2, <2>1, <3>1, <3>3 DEF Window, Sums
    <3> QED
      BY <1>20, <3>2, <3>3 DEF BackendRestarts
  <2> QED
    BY <2>2, <2>3, <2>4
<1>21. CASE GatewayRestarts
  <2>1. /\ before' = before /\ after' = after /\ unread' = unread /\ intruded' = intruded
        /\ restarted \subseteq restarted' /\ tokens' = tokens
    BY <1>21 DEF GatewayRestarts
  <2>2. CASE pc \in {"queued", "await"} /\ Broken
    <3>1. tokens'[c] = tokens[c] + 0
      BY <1>3, <2>1
    <3> QED
      BY <1>12, <2>1, <2>2, <3>1 DEF Broken, Sums
  <2>3. CASE UNCHANGED <<pc, request, records>>
    BY <1>2, <2>1, <2>3 DEF Window, Sums
  <2> QED
    BY <1>21, <2>2, <2>3 DEF GatewayRestarts
<1> QED
  BY <1>4, <1>5, <1>6, <1>7, <1>8, <1>9, <1>10, <1>11, <1>13, <1>14, <1>15, <1>16, <1>17,
     <1>18, <1>19, <1>20, <1>21 DEF Next, Sums

LEMMA SumsHold == Spec => []AddsUp
<1>1. Init => AddsUp
  BY DEF Init, AddsUp, NoReading
<1>2. TypeOK /\ Bookkeeping /\ AddsUp /\ [Next]_vars => AddsUp'
  BY SumsPreserved, B5cAssumption
<1> QED
  BY <1>1, <1>2, TypesHold, BookkeepingHolds, PTL DEF Spec

LEMMA ReportChanges == [Next]_vars => Report \/ report' = report
  BY DEF Next, vars, driver, world, bounds, Start, setup, Drive, Send, SnapshotBefore,
     SnapshotAfter, Serve, Respond, ForeignStarts, ForeignEnds, Static, Fail, Observe, Report,
     ScrapeRaises, StrangerClassified, BackendRestarts, GatewayRestarts

\* An arm that passed had its backends to itself: what other tenants generated
\* between a backend's two snapshots is within the budget of the tokens the
\* backend generated for the arm, whatever failed and whoever was abandoned, if
\* the backend did not restart between them.
THEOREM PassedArmsAreUncontended == Spec => []PassedMeansUncontended
<1>1. Init => PassedMeansUncontended
  BY DEF Init, NoReport, PassedMeansUncontended
<1>2. TypeOK /\ AddsUp /\ PassedMeansUncontended /\ [Next]_vars => PassedMeansUncontended'
  <2> SUFFICES ASSUME TypeOK, AddsUp, PassedMeansUncontended, [Next]_vars
               PROVE  PassedMeansUncontended'
    OBVIOUS
  <2>1. CASE Report
    <3>1. SUFFICES ASSUME report'.passed, NEW b \in Watched(report'.arm) \ report'.restarted
                   PROVE  \/ report'.intruded[b] <= 1
                          \/ report'.intruded[b] * 20 <= Generated(report'.records, b)
      BY DEF PassedMeansUncontended
    <3>2. /\ report'.arm = name /\ report'.records = records /\ report'.intruded = intruded
          /\ report'.restarted = restarted /\ _assertions
      BY <2>1, <3>1 DEF Report
    <3>3. b \in Watched(name) /\ b \in backends \ restarted
      BY <3>1, <3>2, ArmsType DEF TypeOK
    <3>4. _contention_assertion(b, records)
      BY <3>2, <3>3 DEF _assertions
    <3>5. /\ before.backend[b] # None /\ after.backend[b] # None
          /\ before.backend[b] \in Nat /\ after.backend[b] \in Nat /\ intruded[b] \in Nat
          /\ Generated(records, b) \in Nat
      BY <3>3, <3>4, GeneratedType, B5cAssumption DEF _contention_assertion, TypeOK, Reading
    <3>6. after.backend[b] = before.backend[b] + Generated(records, b) + intruded[b]
      BY <2>1, <3>3, <3>5 DEF Report, AddsUp
    <3>7. after.backend[b] - before.backend[b] - Generated(records, b) = intruded[b]
      BY <3>5, <3>6
    <3>8. \/ intruded[b] <= 1 \/ intruded[b] * 20 <= Generated(records, b)
      BY <3>4, <3>7 DEF _contention_assertion
    <3> QED
      BY <3>2, <3>8
  <2>2. CASE report' = report
    BY <2>2 DEF PassedMeansUncontended
  <2> QED
    BY <2>1, <2>2, ReportChanges
<1> QED
  BY <1>1, <1>2, TypesHold, SumsHold, PTL DEF Spec

-----------------------------------------------------------------------------
(* Classification.  The gateway has counted a failure for every request of *)
(* the arm that was not classified, between its two readings, unless it    *)
(* restarted there.                                                        *)

Pending == pc \in {"queued", "await"} /\ ~request.classified

Unclassified == Cardinality({r \in records : ~r.classified}) + IF Pending THEN 1 ELSE 0

FailuresCounted ==
  Classifies(name) /\ before.praxis # None /\ "gateway" \notin restarted =>
    /\ pc \in {"setup", "send", "queued", "await"} =>
         classify.total - classify.ok >= before.praxis.total - before.praxis.ok + Unclassified
    /\ pc = "after" /\ after.praxis # None =>
         after.praxis.total - after.praxis.ok >= before.praxis.total - before.praxis.ok + Unclassified

LEMMA UnclassifiedType ==
  ASSUME TypeOK
  PROVE  /\ IsFiniteSet({r \in records : ~r.classified})
         /\ Cardinality({r \in records : ~r.classified}) \in Nat
         /\ Unclassified \in Nat
<1>1. IsFiniteSet({r \in records : ~r.classified})
  BY FS_Subset DEF TypeOK
<1>2. Cardinality({r \in records : ~r.classified}) \in Nat
  BY <1>1, FS_CardinalityType
<1> QED
  BY <1>1, <1>2 DEF Unclassified

\* When the request becomes a record nothing is lost, and no more is counted.
LEMMA RecordsUnclassified ==
  ASSUME TypeOK, NEW ok \in BOOLEAN, pc \in {"queued", "await"}, pc' = "send",
         records' = records \cup {Record(ok)}
  PROVE  Unclassified' \in Nat /\ Unclassified' <= Unclassified
<1> DEFINE S == {r \in records : ~r.classified}
           T == {r \in records' : ~r.classified}
<1>1. IsFiniteSet(S) /\ Cardinality(S) \in Nat
  BY UnclassifiedType
<1>2. Unclassified' = Cardinality(T) + 0
  BY DEF Unclassified, Pending
<1>3. CASE request.classified
  <2>1. T = S
    BY <1>3, RecordFields
  <2>2. Unclassified = Cardinality(S) + 0
    BY <1>3 DEF Unclassified, Pending
  <2>3. Cardinality(T) = Cardinality(S)
    BY <2>1
  <2> HIDE DEF S, T
  <2> QED
    BY <1>1, <1>2, <2>2, <2>3
<1>4. CASE ~request.classified
  <2>1. T = S \cup {Record(ok)}
    BY <1>4, RecordFields
  <2>2. Unclassified = Cardinality(S) + 1
    BY <1>4 DEF Unclassified, Pending
  <2>3. Cardinality(T) = Cardinality(S) \/ Cardinality(T) = Cardinality(S) + 1
    BY <1>1, <2>1, FS_AddElement
  <2>4. CASE Cardinality(T) = Cardinality(S)
    BY <1>1, <1>2, <2>2, <2>4
  <2>5. CASE Cardinality(T) = Cardinality(S) + 1
    BY <1>1, <1>2, <2>2, <2>5
  <2> QED
    BY <2>3, <2>4, <2>5
<1> QED
  BY <1>3, <1>4

LEMMA FailuresPreserved ==
  TypeOK /\ PromptsOnce /\ FailuresCounted /\ [Next]_vars => FailuresCounted'
<1> SUFFICES ASSUME TypeOK, PromptsOnce, FailuresCounted, [Next]_vars PROVE FailuresCounted'
  OBVIOUS
<1> USE DEF driver, world, bounds
<1>1. /\ classify \in Counts /\ classify.total \in Nat /\ classify.ok \in Nat
      /\ before \in Reading /\ after \in Reading /\ Unclassified \in Nat
      /\ before.praxis # None => before.praxis.total \in Nat /\ before.praxis.ok \in Nat
  BY UnclassifiedType DEF TypeOK, Counts, Reading
<1>2. CASE Start \/ ScrapeRaises
  BY <1>2 DEF Start, ScrapeRaises, FailuresCounted
<1>3. CASE Report
  BY <1>3 DEF Report, FailuresCounted
<1>4. CASE setup
  <2>1. Unclassified' = 0
    <3>1. {r \in records' : ~r.classified} = {}
      BY <1>4 DEF setup
    <3> QED
      BY <1>4, <3>1, FS_EmptySet DEF setup, Unclassified, Pending
  <2>2. before'.praxis = classify /\ classify' = classify /\ pc' = "setup"
    BY <1>4 DEF setup, NoReading
  <2> QED
    BY <1>1, <2>1, <2>2 DEF FailuresCounted
<1>5. ASSUME pc \in {"setup", "send", "queued", "await"}, pc' \in {"setup", "send", "queued", "await"},
             name' = name, before'.praxis = before.praxis, classify' = classify,
             "gateway" \in restarted => "gateway" \in restarted',
             Unclassified' \in Nat, Unclassified' <= Unclassified
      PROVE  FailuresCounted'
  BY <1>1, <1>5 DEF FailuresCounted
<1>6. ASSUME records' = records, Pending' <=> Pending
      PROVE  Unclassified' = Unclassified
  BY <1>6 DEF Unclassified
<1>7. CASE Drive
  <2>1. Unclassified' = Unclassified
    BY <1>6, <1>7 DEF Drive, Pending
  <2> QED
    BY <1>1, <1>5, <1>7, <2>1 DEF Drive, name
<1>8. ASSUME NEW b \in backends, SnapshotBefore(b) PROVE FailuresCounted'
  <2>1. Unclassified' = Unclassified
    BY <1>6, <1>8 DEF SnapshotBefore, Pending
  <2>2. before'.praxis = before.praxis /\ ("gateway" \in restarted => "gateway" \in restarted')
    BY <1>1, <1>8 DEF SnapshotBefore, Reading, backends
  <2> QED
    BY <1>1, <1>5, <1>8, <2>1, <2>2 DEF SnapshotBefore, name
<1>9. ASSUME NEW b \in backends, Serve(b) PROVE FailuresCounted'
  <2>1. Unclassified' = Unclassified
    BY <1>6, <1>9 DEF Serve, Pending
  <2> QED
    BY <1>1, <1>5, <1>9, <2>1 DEF Serve, name
<1>10. ASSUME NEW ok \in BOOLEAN, pc \in {"queued", "await"}, pc' = "send",
              records' = records \cup {Record(ok)}, name' = name, before' = before,
              classify' = classify, "gateway" \in restarted => "gateway" \in restarted'
       PROVE  FailuresCounted'
  <2>1. Unclassified' \in Nat /\ Unclassified' <= Unclassified
    BY <1>10, RecordsUnclassified
  <2> QED
    BY <1>5, <1>10, <2>1
<1>11. CASE Static \/ Fail
  BY <1>10, <1>11 DEF Static, Fail, Broken, name
<1>12. ASSUME NEW b \in backends, Respond(b) PROVE FailuresCounted'
  BY <1>10, <1>12 DEF Respond, name
<1>13. ASSUME NEW p \in todo, Send(p) PROVE FailuresCounted'
  <2> SUFFICES ASSUME Classifies(name) PROVE FailuresCounted'
    BY <1>13 DEF Send, name, FailuresCounted
  <2>1. Asked(p)
    BY <1>13, ClassifyRequest DEF Send
  <2>2. /\ pc = "send" /\ pc' = "queued" /\ records' = records /\ before' = before /\ name' = name
        /\ restarted' = restarted
    BY <1>13 DEF Send, name
  <2>3. Unclassified' = Unclassified + IF request'.classified THEN 0 ELSE 1
    <3>1. Cardinality({r \in records : ~r.classified}) \in Nat
      BY UnclassifiedType
    <3>2. ~Pending /\ (Pending' <=> ~request'.classified)
      BY <2>2 DEF Pending
    <3> QED
      BY <2>2, <3>1, <3>2 DEF Unclassified
  <2>4. classify'.total - classify'.ok = classify.total - classify.ok + IF request'.classified THEN 0 ELSE 1
    BY <2>1 DEF Asked
  <2>5. before.praxis # None /\ "gateway" \notin restarted =>
          classify.total - classify.ok >= before.praxis.total - before.praxis.ok + Unclassified
    BY <2>2 DEF FailuresCounted
  <2>6. before.praxis # None /\ "gateway" \notin restarted =>
          classify'.total - classify'.ok >= before.praxis.total - before.praxis.ok + Unclassified'
    <3>1. CASE request'.classified
      BY <1>1, <2>3, <2>4, <2>5, <3>1
    <3>2. CASE ~request'.classified
      BY <1>1, <2>3, <2>4, <2>5, <3>2
    <3> QED
      BY <3>1, <3>2
  <2> QED
    BY <2>2, <2>6 DEF FailuresCounted
<1>14. CASE Observe
  <2>1. Unclassified' = Unclassified
    BY <1>6, <1>14 DEF Observe, Pending
  <2>2. after'.praxis = classify
    BY <1>1, <1>14 DEF Observe, Reading
  <2> QED
    BY <1>1, <1>14, <2>1, <2>2 DEF Observe, FailuresCounted, name
<1>15. ASSUME NEW b \in backends, SnapshotAfter(b) PROVE FailuresCounted'
  <2>1. Unclassified' = Unclassified
    BY <1>6, <1>15 DEF SnapshotAfter, Pending
  <2>2. after'.praxis = after.praxis
    BY <1>1, <1>15 DEF SnapshotAfter, Reading
  <2> QED
    BY <1>15, <2>1, <2>2 DEF SnapshotAfter, FailuresCounted, name
<1>16. CASE StrangerClassified
  <2>1. Unclassified' = Unclassified
    BY <1>6, <1>16 DEF StrangerClassified, Pending
  <2>2. classify'.total - classify'.ok >= classify.total - classify.ok
        /\ classify'.total \in Nat /\ classify'.ok \in Nat
    <3>1. \/ classify' = [total |-> classify.total + 1, ok |-> classify.ok + 1]
          \/ classify' = [classify EXCEPT !.total = @ + 1]
      BY <1>16 DEF StrangerClassified
    <3>2. classify'.total = classify.total + 1 /\ classify'.ok \in {classify.ok, classify.ok + 1}
      BY <1>1, <3>1 DEF Counts
    <3> QED
      BY <1>1, <3>2
  <2>3. /\ pc' = pc /\ name' = name /\ before' = before /\ after' = after
        /\ restarted' = restarted
    BY <1>16 DEF StrangerClassified, name
  <2> QED
    BY <1>1, <2>1, <2>2, <2>3 DEF FailuresCounted
<1>17. ASSUME NEW b \in backends, ForeignStarts(b) \/ ForeignEnds(b) PROVE FailuresCounted'
  <2>1. Unclassified' = Unclassified
    BY <1>6, <1>17 DEF ForeignStarts, ForeignEnds, Pending
  <2> QED
    BY <1>17, <2>1 DEF ForeignStarts, ForeignEnds, FailuresCounted, name
<1>18. ASSUME NEW b \in backends, BackendRestarts(b) PROVE FailuresCounted'
  <2>1. /\ before' = before /\ after' = after /\ classify' = classify /\ name' = name
        /\ ("gateway" \in restarted => "gateway" \in restarted')
    BY <1>18 DEF BackendRestarts, name
  <2>2. CASE pc = "await" /\ Broken
    BY <1>10, <2>1, <2>2 DEF Broken
  <2>3. CASE UNCHANGED <<pc, request, records>>
    <3>1. Unclassified' = Unclassified
      BY <1>6, <2>3 DEF Pending
    <3> QED
      BY <2>1, <2>3, <3>1 DEF FailuresCounted
  <2> QED
    BY <1>18, <2>2, <2>3 DEF BackendRestarts
<1>19. CASE GatewayRestarts
  <2>1. CASE pc \in {"setup", "send", "queued", "await"}
    <3>1. "gateway" \in restarted'
      BY <1>19, <2>1 DEF GatewayRestarts
    <3> QED
      BY <3>1 DEF FailuresCounted
  <2>2. CASE pc \notin {"setup", "send", "queued", "await"}
    <3>1. /\ UNCHANGED <<pc, request, records>> /\ before' = before /\ after' = after
          /\ restarted' = restarted /\ name' = name
      BY <1>19, <2>2 DEF GatewayRestarts, name
    <3>2. Unclassified' = Unclassified
      BY <1>6, <3>1 DEF Pending
    <3> QED
      BY <2>2, <3>1, <3>2 DEF FailuresCounted
  <2> QED
    BY <2>1, <2>2
<1>20. CASE UNCHANGED vars
  <2>1. Unclassified' = Unclassified
    BY <1>6, <1>20 DEF vars, Pending
  <2> QED
    BY <1>20, <2>1 DEF vars, FailuresCounted, name
<1> QED
  BY <1>2, <1>3, <1>4, <1>7, <1>8, <1>9, <1>11, <1>12, <1>13, <1>14, <1>15, <1>16, <1>17,
     <1>18, <1>19, <1>20 DEF Next

\* In a classified arm that passed every request was classified: the gateway's
\* counters moved by as many successes as there were requests, and by no more
\* requests than that, whoever else used the gateway, if it did not restart
\* between the readings.
THEOREM PassedArmsAreClassified == Spec => []PassedMeansClassified
<1>1. Init => FailuresCounted /\ PassedMeansClassified
  BY DEF Init, NoReading, NoReport, FailuresCounted, PassedMeansClassified
<1>2. /\ TypeOK /\ Bookkeeping /\ FailuresCounted /\ PassedMeansClassified /\ [Next]_vars
      => (FailuresCounted /\ PassedMeansClassified)'
  <2> SUFFICES ASSUME TypeOK, Bookkeeping, FailuresCounted, PassedMeansClassified, [Next]_vars
               PROVE  FailuresCounted' /\ PassedMeansClassified'
    OBVIOUS
  <2>1. FailuresCounted'
    BY FailuresPreserved DEF Bookkeeping
  <2>2. CASE Report
    <3>1. SUFFICES ASSUME report'.passed, report'.arm = "classified",
                          "gateway" \notin report'.restarted
                   PROVE  \A r \in report'.records : r.classified
      BY <2>1 DEF PassedMeansClassified
    <3>2. name = "classified" /\ report'.records = records /\ _assertions /\ pc = "after"
          /\ "gateway" \notin restarted
      BY <2>2, <3>1 DEF Report
    <3> DEFINE n == Cardinality(Prompts(name))
    <3>3. /\ before.praxis # None /\ after.praxis # None
          /\ after.praxis.total - before.praxis.total = n
          /\ after.praxis.ok - before.praxis.ok = n
      BY <3>2 DEF _assertions, Counted, Classifies
    <3>4. after.praxis.total - after.praxis.ok >= before.praxis.total - before.praxis.ok + Unclassified
      BY <3>2, <3>3 DEF FailuresCounted, Classifies
    <3>5. /\ before.praxis.total \in Nat /\ before.praxis.ok \in Nat
          /\ after.praxis.total \in Nat /\ after.praxis.ok \in Nat
      BY <3>3 DEF TypeOK, Reading, Counts
    <3>6. Unclassified \in Nat
      BY UnclassifiedType
    <3> HIDE DEF n
    <3>7. Unclassified = 0
      BY <3>3, <3>4, <3>5, <3>6
    <3>8. Cardinality({r \in records : ~r.classified}) = 0
      BY <3>2, <3>7, UnclassifiedType DEF Unclassified, Pending
    <3>9. {r \in records : ~r.classified} = {}
      BY <3>8, UnclassifiedType, FS_EmptySet
    <3>10. \A r \in records : r.classified
      BY <3>9
    <3> QED
      BY <3>2, <3>10
  <2>3. CASE report' = report
    BY <2>1, <2>3 DEF PassedMeansClassified
  <2> QED
    BY <2>1, <2>2, <2>3, ReportChanges
<1> QED
  BY <1>1, <1>2, TypesHold, BookkeepingHolds, PTL DEF Spec

-----------------------------------------------------------------------------
(* The result cache.  It holds what the run found in it or other clients   *)
(* sent, the prompts of the probe, and in the classified arm the prompts   *)
(* already sent; the probe's prompts are other ones.                       *)

\* A held-out prompt stands once in the dataset.
PromptsDiffer ==
  \A l, m \in DOMAIN HeldOut : \A j \in DOMAIN HeldOut[l], k \in DOMAIN HeldOut[m] :
    HeldOut[l][j] = HeldOut[m][k] => l = m /\ j = k

Probe == Prompts("classify-probe")

CacheKnown ==
  /\ arm = 1 /\ pc = "between" => cache \subseteq inherited
  /\ pc # "idle" /\ (arm < 4 \/ pc = "between") => cache \subseteq inherited \cup Probe
  /\ pc \in {"setup", "send", "queued", "await", "after"} =>
       /\ todo \subseteq Prompts(name)
       /\ cache \cap todo \subseteq inherited
  /\ pc \in {"queued", "await"} /\ request.cached => request.prompt \in inherited

\* The offset gives the probe prompts no other arm sends.
LEMMA SlicesDiffer ==
  ASSUME PromptsDiffer, B5cAssumption
  PROVE  \A a : a # "classify-probe" => Prompts(a) \cap Probe = {}
<1>1. SUFFICES ASSUME NEW p \in _slice(0), p \in _slice(PerClass) PROVE FALSE
  BY DEF Probe, Prompts
<1>2. PICK l \in DOMAIN HeldOut :
        \E j \in (0 + 1 .. 0 + PerClass) \cap DOMAIN HeldOut[l] : p = HeldOut[l][j]
  BY DEF _slice
<1>3. PICK j \in (0 + 1 .. 0 + PerClass) \cap DOMAIN HeldOut[l] : p = HeldOut[l][j]
  BY <1>2
<1>4. PICK m \in DOMAIN HeldOut :
        \E k \in (PerClass + 1 .. PerClass + PerClass) \cap DOMAIN HeldOut[m] : p = HeldOut[m][k]
  BY <1>1 DEF _slice
<1>5. PICK k \in (PerClass + 1 .. PerClass + PerClass) \cap DOMAIN HeldOut[m] : p = HeldOut[m][k]
  BY <1>4
<1>6. j = k
  BY <1>3, <1>5 DEF PromptsDiffer
<1> QED
  BY <1>3, <1>5, <1>6 DEF B5cAssumption

LEMMA CachePreserved ==
  /\ PromptsDiffer /\ B5cAssumption
  /\ TypeOK /\ PromptsOnce /\ CacheKnown /\ ArmsDoNotFeedEachOther /\ [Next]_vars
  => (CacheKnown /\ ArmsDoNotFeedEachOther)'
<1> SUFFICES ASSUME PromptsDiffer, B5cAssumption, TypeOK, PromptsOnce, CacheKnown,
                    ArmsDoNotFeedEachOther, [Next]_vars
             PROVE  (CacheKnown /\ ArmsDoNotFeedEachOther)'
  OBVIOUS
<1> USE DEF driver, world, bounds
<1>1. CASE Start
  BY <1>1 DEF Start, CacheKnown, ArmsDoNotFeedEachOther, PromptsOnce
<1>2. CASE setup
  <2>1. pc' = "setup" /\ todo' = Prompts(name) /\ name' = name /\ records' = {}
        /\ arm' = arm /\ cache' = cache /\ inherited' = inherited /\ pc = "between"
    BY <1>2 DEF setup, name
  <2>2. cache \subseteq inherited \cup Probe
    BY <2>1 DEF CacheKnown
  <2>3. cache \cap Prompts(name) \subseteq inherited
    <3>1. CASE arm = 1
      BY <2>1, <3>1 DEF CacheKnown
    <3>2. CASE arm # 1
      BY <2>2, <3>2, ArmsType, SlicesDiffer DEF TypeOK
    <3> QED
      BY <3>1, <3>2
  <2> QED
    BY <2>1, <2>2, <2>3 DEF CacheKnown, ArmsDoNotFeedEachOther
<1>3. CASE Drive
  BY <1>3 DEF Drive, name, CacheKnown, ArmsDoNotFeedEachOther
<1>4. ASSUME NEW p \in todo, Send(p) PROVE (CacheKnown /\ ArmsDoNotFeedEachOther)'
  <2>1. pc = "send" /\ pc' = "queued" /\ todo' = todo \ {p} /\ name' = name /\ arm' = arm
        /\ records' = records /\ inherited' = inherited
    BY <1>4 DEF Send, name
  <2>2. todo \subseteq Prompts(name) /\ cache \cap todo \subseteq inherited
        /\ (arm < 4 => cache \subseteq inherited \cup Probe)
    BY <2>1 DEF CacheKnown
  <2>3. CASE Classifies(name)
    <3>1. Asked(p)
      BY <1>4, <2>3, ClassifyRequest DEF Send
    <3>2. arm < 4 => p \in Probe
      BY <2>2, <2>3, ArmsType DEF Classifies, Probe, TypeOK
    <3>3. cache' \subseteq cache \cup {p} /\ request'.prompt = p
          /\ (request'.cached => p \in cache)
      BY <3>1 DEF Asked
    <3> QED
      BY <2>1, <2>2, <3>2, <3>3 DEF CacheKnown, ArmsDoNotFeedEachOther
  <2>4. CASE ~Classifies(name)
    <3>1. cache' = cache /\ ~request'.cached
      BY <1>4, <2>4 DEF Send
    <3> QED
      BY <2>1, <2>2, <3>1 DEF CacheKnown, ArmsDoNotFeedEachOther
  <2> QED
    BY <2>3, <2>4
<1>5. ASSUME NEW b \in backends,
             \/ SnapshotBefore(b) \/ SnapshotAfter(b) \/ Serve(b)
             \/ ForeignStarts(b) \/ ForeignEnds(b)
      PROVE  (CacheKnown /\ ArmsDoNotFeedEachOther)'
  <2>1. /\ todo' = todo /\ cache' = cache /\ inherited' = inherited /\ arm' = arm
        /\ records' = records /\ request' = request
        /\ \/ pc' = pc
           \/ pc = "queued" /\ pc' = "await"
    BY <1>5 DEF SnapshotBefore, SnapshotAfter, Serve, ForeignStarts, ForeignEnds
  <2> QED
    BY <2>1 DEF name, CacheKnown, ArmsDoNotFeedEachOther
<1>6. ASSUME NEW ok \in BOOLEAN, pc \in {"queued", "await"}, pc' = "send",
             records' = records \cup {Record(ok)},
             arm' = arm, todo' = todo, cache' = cache, inherited' = inherited
      PROVE  (CacheKnown /\ ArmsDoNotFeedEachOther)'
  <2>1. ArmsDoNotFeedEachOther'
    BY <1>6, RecordFields DEF CacheKnown, ArmsDoNotFeedEachOther
  <2> QED
    BY <1>6, <2>1 DEF name, CacheKnown
<1>7. ASSUME NEW b \in backends, Respond(b) PROVE (CacheKnown /\ ArmsDoNotFeedEachOther)'
  BY <1>6, <1>7 DEF Respond
<1>8. CASE Static \/ Fail
  BY <1>6, <1>8 DEF Static, Fail, Broken
<1>9. CASE Observe
  BY <1>9 DEF Observe, name, CacheKnown, ArmsDoNotFeedEachOther
<1>10. CASE Report
  BY <1>10 DEF Report, specs, TypeOK, CacheKnown, ArmsDoNotFeedEachOther
<1>11. CASE ScrapeRaises
  BY <1>11 DEF ScrapeRaises, name, CacheKnown, ArmsDoNotFeedEachOther
<1>12. CASE StrangerClassified
  <2>1. PICK P : cache' = cache \cup P /\ inherited' = inherited \cup (P \ cache)
    <3>1. CASE UNCHANGED <<cache, inherited>>
      <4>1. cache' = cache \cup {} /\ inherited' = inherited \cup ({} \ cache)
        BY <3>1
      <4> QED
        BY <4>1
    <3>2. CASE \E p \in AllPrompts \cup {None} :
                 cache' = cache \cup {p} /\ inherited' = inherited \cup ({p} \ cache)
      BY <3>2
    <3> QED
      BY <1>12, <3>1, <3>2 DEF StrangerClassified
  <2>2. pc' = pc /\ arm' = arm /\ name' = name /\ todo' = todo /\ records' = records /\ request' = request
    BY <1>12 DEF StrangerClassified, name
  <2>3. CacheKnown'
    BY <2>1, <2>2 DEF CacheKnown
  <2> QED
    BY <2>1, <2>2, <2>3 DEF ArmsDoNotFeedEachOther
<1>13. ASSUME NEW b \in backends, BackendRestarts(b) \/ GatewayRestarts
       PROVE  (CacheKnown /\ ArmsDoNotFeedEachOther)'
  <2>1. CASE pc \in {"queued", "await"} /\ Broken
    BY <1>6, <1>13, <2>1 DEF BackendRestarts, GatewayRestarts, Broken
  <2>2. CASE UNCHANGED <<pc, request, records>>
    BY <1>13, <2>2 DEF BackendRestarts, GatewayRestarts, name, CacheKnown, ArmsDoNotFeedEachOther
  <2> QED
    BY <1>13, <2>1, <2>2 DEF BackendRestarts, GatewayRestarts
<1>14. CASE UNCHANGED vars
  BY <1>14 DEF vars, name, CacheKnown, ArmsDoNotFeedEachOther
<1> QED
  BY <1>1, <1>2, <1>3, <1>4, <1>5, <1>7, <1>8, <1>9, <1>10, <1>11, <1>12,
     <1>13, <1>14 DEF Next, backends

\* No arm is served from the result cache because of another arm of its run,
\* whatever the cache held when the run began and however runs break off: the
\* arms that classify have no prompt in common, if no prompt of the dataset
\* stands in it twice.
THEOREM ArmsAreIndependent ==
  ASSUME PromptsDiffer
  PROVE  Spec => []ArmsDoNotFeedEachOther
<1>1. Init => CacheKnown /\ ArmsDoNotFeedEachOther
  BY DEF Init, CacheKnown, ArmsDoNotFeedEachOther
<1>2. /\ TypeOK /\ Bookkeeping /\ CacheKnown /\ ArmsDoNotFeedEachOther /\ [Next]_vars
      => (CacheKnown /\ ArmsDoNotFeedEachOther)'
  BY PromptsDiffer, CachePreserved, B5cAssumption DEF Bookkeeping
<1> QED
  BY <1>1, <1>2, TypesHold, BookkeepingHolds, PTL DEF Spec

=============================================================================
