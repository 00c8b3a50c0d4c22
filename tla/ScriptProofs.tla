----------------------------- MODULE ScriptProofs -----------------------------
(***************************************************************************)
(* The shell programs: that hack/deploy-cluster.sh leaves no dead          *)
(* configuration behind and hack/teardown-cluster.sh reports no clean end  *)
(* it has not reached; that demo/run-demo.sh passes only a demo it has     *)
(* seen and leaves none of its processes behind; that                      *)
(* bench/run-local-bench.sh exits 0 only if every scenario has completed.  *)
(* For any number of runs, failing calls, signals, deaths and changes.     *)
(***************************************************************************)
EXTENDS Teardown, RunDemo, LocalBench, TLAPS

-----------------------------------------------------------------------------
(* Deployment and teardown: types.                                         *)

Steps == {"preflight", "apply", "manifests", "config", "credential", "image", "restart",
          "status", "ladder", "dead_endpoint", "dead_restart", "ask", "restore",
          "check", "blast_radius", "summary", "exited"}

TypeOK ==
  /\ pc \in Steps /\ options \in Options /\ failed \in BOOLEAN
  /\ trapped \in BOOLEAN /\ verifying \in BOOLEAN
  /\ namespace \in {"absent", "present", "terminating"}
  /\ configmap \in Configs \cup {None} /\ pod \in Configs \cup {None} /\ rolling \in BOOLEAN
  /\ protected \in Nat /\ baseline \in Nat \cup {None, Empty}
  /\ ignored \in Nat
  /\ step \in {"exited", "preflight", "delete", "wait", "verify"}
  /\ late \in BOOLEAN
  /\ origin \in Nat \cup {None} /\ renewed \in BOOLEAN

\* restore_config keeps the types.
LEMMA RestoreType ==
  ASSUME TypeOK, Restore
  PROVE  /\ configmap' \in Configs \cup {None} /\ pod' \in Configs \cup {None} /\ rolling' \in BOOLEAN
         /\ ignored' \in Nat /\ ignored <= ignored'
  BY DEF TypeOK, Restore, RestoreWith, Ignoring, Options

\* So does the end of the script, with or without the trap.
LEMMA ExitType ==
  ASSUME TypeOK, NEW rc, Exit(rc)
  PROVE  /\ pc' = "exited" /\ trapped' = FALSE
         /\ configmap' \in Configs \cup {None} /\ pod' \in Configs \cup {None} /\ rolling' \in BOOLEAN
         /\ ignored' \in Nat /\ ignored <= ignored'
<1>1. CASE trapped
  BY <1>1, RestoreType DEF Exit
<1>2. CASE ~trapped
  BY <1>2 DEF Exit, TypeOK, cluster
<1> QED
  BY <1>1, <1>2

\* What the script can set in a step, whatever else it does.
LEMMA DeployType ==
  ASSUME TypeOK, DeploySteps
  PROVE  /\ pc' \in Steps /\ options' \in Options /\ failed' \in BOOLEAN
         /\ trapped' \in BOOLEAN /\ verifying' \in BOOLEAN
         /\ namespace' \in {"absent", "present", "terminating"}
         /\ configmap' \in Configs \cup {None} /\ pod' \in Configs \cup {None} /\ rolling' \in BOOLEAN
         /\ protected' \in Nat /\ baseline' \in Nat \cup {None, Empty}
         /\ ignored' \in Nat /\ ignored <= ignored'
<1> USE DEF Goto, cluster, around, bounds
<1>1. CASE Run \/ Preflight \/ CaptureCut \/ ApplyNamespace
  <2>1. CASE Run
    <3>1. pc' \in Steps /\ options' \in Options
      BY <2>1 DEF Run, Steps
    <3>2. failed' \in BOOLEAN /\ trapped' \in BOOLEAN /\ verifying' \in BOOLEAN
      BY <2>1 DEF Run
    <3>3. UNCHANGED <<cluster, around, ignored>>
      BY <2>1 DEF Run
    <3> QED
      BY <3>1, <3>2, <3>3 DEF TypeOK
  <2>2. CASE Preflight
    <3>1. baseline' \in Nat \cup {None, Empty}
      BY <2>2 DEF TypeOK, Preflight
    <3>2. /\ pc' \in Steps
          /\ UNCHANGED <<options, failed, trapped, verifying, cluster, namespace, protected, bounds>>
      BY <2>2 DEF Preflight, Steps
    <3> QED
      BY <3>1, <3>2 DEF TypeOK
  <2>3. CASE CaptureCut
    BY <2>3 DEF TypeOK, CaptureCut, Steps
  <2>4. CASE ApplyNamespace
    BY <2>4 DEF TypeOK, ApplyNamespace, Steps
  <2> QED
    BY <1>1, <2>1, <2>2, <2>3, <2>4
<1>2. CASE Apply \/ SetConfig \/ Credential \/ Restart
  <2>1. CASE Apply
    <3>1. rolling' \in BOOLEAN
      BY <2>1 DEF TypeOK, Apply
    <3>2. pc' \in Steps /\ configmap' \in Configs
      BY <2>1 DEF Apply, Steps, Configs
    <3>3. UNCHANGED <<options, failed, trapped, verifying, pod, around, bounds>>
      BY <2>1 DEF Apply
    <3> QED
      BY <3>1, <3>2, <3>3 DEF TypeOK
  <2>2. CASE SetConfig
    BY <2>2 DEF TypeOK, SetConfig, Steps, Options
  <2>3. CASE Credential
    BY <2>3 DEF TypeOK, Credential, Steps
  <2>4. CASE Restart
    BY <2>4 DEF TypeOK, Restart, Steps
  <2> QED
    BY <1>2, <2>1, <2>2, <2>3, <2>4
<1>3. CASE Image
  <2>1. ASSUME Exit(0) PROVE pc' \in Steps /\ trapped' \in BOOLEAN /\ ignored' \in Nat /\ ignored <= ignored'
                             /\ configmap' \in Configs \cup {None} /\ pod' \in Configs \cup {None} /\ rolling' \in BOOLEAN
    BY <2>1, ExitType DEF Steps
  <2> QED
    BY <1>3, <2>1 DEF TypeOK, Image, Steps
<1>4. CASE Status \/ Ladder \/ DeadEndpoint \/ DeadRestart \/ Ask
  <2>1. CASE Status
    <3>1. failed' \in BOOLEAN
      BY <2>1 DEF TypeOK, Status
    <3>2. pc' \in Steps /\ UNCHANGED <<options, trapped, verifying, cluster, around, bounds>>
      BY <2>1 DEF Status, Steps
    <3> QED
      BY <3>1, <3>2 DEF TypeOK
  <2>2. CASE Ladder
    <3>1. failed' \in BOOLEAN
      BY <2>2 DEF TypeOK, Ladder
    <3>2. pc' \in Steps /\ UNCHANGED <<options, cluster, around, bounds>>
      BY <2>2 DEF Ladder, Steps
    <3>3. trapped' \in BOOLEAN /\ verifying' \in BOOLEAN
      BY <2>2 DEF TypeOK, Ladder
    <3> QED
      BY <3>1, <3>2, <3>3 DEF TypeOK
  <2>3. CASE DeadEndpoint
    BY <2>3 DEF TypeOK, DeadEndpoint, Steps, Configs
  <2>4. CASE DeadRestart
    BY <2>4 DEF TypeOK, DeadRestart, Steps
  <2>5. CASE Ask
    <3>1. failed' \in BOOLEAN
      BY <2>5 DEF TypeOK, Ask
    <3>2. pc' \in Steps /\ UNCHANGED <<options, trapped, verifying, cluster, around, bounds>>
      BY <2>5 DEF Ask, Steps
    <3> QED
      BY <3>1, <3>2 DEF TypeOK
  <2> QED
    BY <1>4, <2>1, <2>2, <2>3, <2>4, <2>5
<1>5. CASE RestoreConfig
  BY <1>5, RestoreType DEF TypeOK, RestoreConfig, Steps
<1>6. CASE Check \/ BlastRadius
  <2>1. failed' \in BOOLEAN
    BY <1>6 DEF Check, BlastRadius
  <2>2. ignored' \in Nat /\ ignored <= ignored'
    BY <1>6 DEF TypeOK, Check, BlastRadius, Ignoring
  <2>3. pc' \in Steps /\ UNCHANGED <<options, trapped, verifying, cluster, around>>
    BY <1>6 DEF Check, BlastRadius, Steps
  <2> QED
    BY <2>1, <2>2, <2>3 DEF TypeOK
<1>7. CASE Summary
  BY <1>7, ExitType DEF TypeOK, Summary, Steps
<1>8. ASSUME NEW s, Fails(s)
      PROVE  /\ pc' \in Steps /\ trapped' \in BOOLEAN /\ ignored' \in Nat /\ ignored <= ignored'
             /\ configmap' \in Configs \cup {None} /\ pod' \in Configs \cup {None} /\ rolling' \in BOOLEAN
             /\ UNCHANGED <<options, failed, verifying, around>>
  BY <1>8, ExitType DEF Fails, Steps
<1>9. CASE Interrupt
  <2>1. ASSUME Exit(130) PROVE pc' \in Steps /\ trapped' \in BOOLEAN /\ ignored' \in Nat /\ ignored <= ignored'
                               /\ configmap' \in Configs \cup {None} /\ pod' \in Configs \cup {None} /\ rolling' \in BOOLEAN
    BY <2>1, ExitType DEF Steps
  <2> QED
    BY <1>9, <2>1, RestoreType DEF TypeOK, Interrupt
<1>10. ASSUME NEW s, Fails(s)
       PROVE  /\ options' \in Options /\ failed' \in BOOLEAN /\ verifying' \in BOOLEAN
              /\ namespace' \in {"absent", "present", "terminating"}
              /\ protected' \in Nat /\ baseline' \in Nat \cup {None, Empty}
  BY <1>8, <1>10 DEF TypeOK
<1> QED
  BY <1>1, <1>2, <1>3, <1>4, <1>5, <1>6, <1>7, <1>8, <1>9, <1>10 DEF DeploySteps

\* The variables hold what the scripts and the cluster can put into them.
THEOREM TypesHold == Spec => []TypeOK
<1> USE DeployAssumption, TeardownAssumption
<1>1. Init => TypeOK
  <2> SUFFICES ASSUME Init PROVE TypeOK
    OBVIOUS
  <2> USE DEF Init, DeployInit
  <2>1. pc \in Steps /\ options \in Options /\ failed \in BOOLEAN
    BY DEF Steps, Options, Configs
  <2>2. trapped \in BOOLEAN /\ verifying \in BOOLEAN /\ namespace \in {"absent", "present", "terminating"}
    OBVIOUS
  <2>3. configmap \in Configs \cup {None} /\ pod \in Configs \cup {None} /\ rolling \in BOOLEAN
    OBVIOUS
  <2>4. protected \in Nat /\ baseline \in Nat \cup {None, Empty} /\ ignored \in Nat
    OBVIOUS
  <2>5. /\ step \in {"exited", "preflight", "delete", "wait", "verify"} /\ late \in BOOLEAN
        /\ origin \in Nat \cup {None} /\ renewed \in BOOLEAN
    OBVIOUS
  <2> QED
    BY <2>1, <2>2, <2>3, <2>4, <2>5 DEF TypeOK
<1>2. TypeOK /\ [Next]_vars => TypeOK'
  <2> SUFFICES ASSUME TypeOK, [Next]_vars
               PROVE  TypeOK'
    OBVIOUS
  <2>1. CASE Deploy
    <3>1. step' = step /\ late' = late /\ DeploySteps
      BY <2>1 DEF Deploy, teardown
    <3>2. origin' \in Nat \cup {None} /\ renewed' \in BOOLEAN
      BY <2>1 DEF Deploy, TypeOK
    <3> QED
      BY <3>1, <3>2, DeployType DEF TypeOK
  <2>2. CASE Cluster
    <3> USE DEF TypeOK, Cluster, script, cluster, around, bounds, teardown, history
    <3>1. CASE RolloutCompletes
      BY <2>2, <3>1 DEF RolloutCompletes
    <3>2. CASE Built
      BY <2>2, <3>2 DEF Built
    <3>3. CASE Deleted
      BY <2>2, <3>3 DEF Deleted
    <3>4. CASE OutsideChanges
      BY <2>2, <3>4 DEF OutsideChanges
    <3> QED
      BY <2>2, <3>1, <3>2, <3>3, <3>4 DEF ClusterSteps
  <2>3. CASE Delete
    BY <2>3 DEF TypeOK, Delete, Overlooks, script, cluster, history
  <2>4. CASE Await
    <3>1. late' \in BOOLEAN /\ step' = "verify"
      BY <2>4 DEF TypeOK, Await
    <3>2. ignored' \in Nat
      BY <2>4 DEF TypeOK, Await, Overlooks
    <3> QED
      BY <2>4, <3>1, <3>2 DEF TypeOK, Await, script, cluster, around, history
  <2>5. CASE Teardown \/ Confirm \/ Stops \/ Verify
    BY <2>5 DEF TypeOK, Teardown, Confirm, Stops, Verify, deployVars, script, cluster, around, bounds, history
  <2>6. CASE UNCHANGED vars
    BY <2>6 DEF TypeOK, vars, deployVars, script, cluster, around, bounds, teardown, history
  <2> QED
    BY <2>1, <2>2, <2>3, <2>4, <2>5, <2>6 DEF Next
<1> QED
  BY <1>1, <1>2, PTL DEF Spec


-----------------------------------------------------------------------------
(* The dead endpoint.                                                      *)

\* The steps at which the trap is set, and those from the fail-open rung on.
Trapped == {"dead_endpoint", "dead_restart", "ask", "restore"}
Verified == Trapped \cup {"check", "blast_radius", "summary", "exited"}

\* While the namespace is there, the live configuration is the one asked for
\* from the step that sets it on, and served from the restart on, except while the
\* trap is set: it can always be put back, and nothing else touches it.
LiveConfig ==
  /\ trapped <=> pc \in Trapped
  /\ verifying => pc \in Verified
  /\ namespace = "present" =>
       /\ pc \in {"credential", "image", "restart"} => configmap = options.config
       /\ pc \in {"status", "ladder", "dead_endpoint"} => Serving
       /\ verifying /\ ~trapped /\ ignored = 0 => Serving

\* restore_config, with both its calls answered, serves what was asked for.
LEMMA RestoreServes ==
  ASSUME TypeOK, Restore, namespace = "present", ignored' = 0, options' = options
  PROVE  ignored = 0 /\ Serving'
<1>1. PICK a, r \in BOOLEAN :
        RestoreWith(a, r) /\ Ignoring((IF a THEN 0 ELSE 1) + (IF r THEN 0 ELSE 1))
  BY DEF Restore
<1>2. a /\ r /\ ignored = 0
  BY <1>1 DEF Ignoring, TypeOK
<1> QED
  BY <1>1, <1>2 DEF RestoreWith, Serving

\* restore_config never takes the configuration away that was asked for.
LEMMA RestoreKeeps ==
  ASSUME TypeOK, Restore, Serving, options' = options
  PROVE  Serving'
  BY DEF Restore, RestoreWith, Serving, TypeOK

\* However a run ends, it leaves the configuration it was asked for.
LEMMA ExitServes ==
  ASSUME TypeOK, LiveConfig, NEW rc, Exit(rc), UNCHANGED <<options, verifying, namespace>>
  PROVE  LiveConfig'
<1>1. pc' = "exited" /\ ~trapped'
  BY DEF Exit
<1>2. ASSUME namespace' = "present", verifying', ignored' = 0
      PROVE  Serving'
  <2>1. CASE trapped
    BY <1>2, <2>1, RestoreServes DEF Exit
  <2>2. CASE ~trapped
    BY <1>2, <2>2 DEF Exit, LiveConfig, Serving, cluster
  <2> QED
    BY <2>1, <2>2
<1> QED
  BY <1>1, <1>2 DEF LiveConfig, Trapped, Verified

\* However a run ends, by itself, by a failing call or by a signal, the
\* deployment serves the configuration it was asked for, for any number of runs.
THEOREM DeadEndpointNeverStays == Spec => []NeverLeftDead
<1> USE DeployAssumption, TeardownAssumption
<1>1. Init => LiveConfig
  BY DEF Init, DeployInit, LiveConfig, Trapped, Verified
<1>2. TypeOK /\ LiveConfig /\ [Next]_vars => LiveConfig'
  <2> SUFFICES ASSUME TypeOK, LiveConfig, [Next]_vars
               PROVE  LiveConfig'
    OBVIOUS
  <2>1. ASSUME DeploySteps PROVE LiveConfig'
    <3> USE DEF Goto, cluster, around, bounds, Trapped, Verified
    <3>1. CASE Run
      BY <3>1 DEF Run, LiveConfig
    <3>2. CASE Preflight \/ CaptureCut \/ ApplyNamespace \/ Apply
      <4>1. /\ ~trapped /\ ~verifying /\ UNCHANGED <<trapped, verifying>>
            /\ pc' \in {"exited", "apply", "manifests", "config"}
        BY <3>2 DEF Preflight, CaptureCut, ApplyNamespace, Apply, LiveConfig
      <4> QED
        BY <4>1 DEF LiveConfig
    <3>3. CASE SetConfig \/ Credential
      BY <3>3 DEF SetConfig, Credential, LiveConfig
    <3>4. CASE Image
      <4>1. ASSUME Exit(0) PROVE LiveConfig'
        BY <3>4, <4>1, ExitServes DEF Image
      <4>2. CASE Goto("restart") /\ UNCHANGED <<trapped, cluster, ignored>>
        BY <3>4, <4>2 DEF Image, LiveConfig
      <4> QED
        BY <3>4, <4>1, <4>2 DEF Image
    <3>5. CASE Restart
      BY <3>5 DEF Restart, LiveConfig, Serving
    <3>6. CASE Status
      BY <3>6 DEF Status, LiveConfig, Serving
    <3>7. CASE Ladder
      BY <3>7 DEF Ladder, LiveConfig, Serving
    <3>8. CASE DeadEndpoint \/ DeadRestart \/ Ask
      BY <3>8 DEF DeadEndpoint, DeadRestart, Ask, LiveConfig
    <3>9. CASE RestoreConfig
      <4>1. namespace' = "present" /\ ignored' = 0 => Serving'
        BY <3>9, RestoreServes DEF RestoreConfig
      <4> QED
        BY <3>9, <4>1 DEF RestoreConfig, LiveConfig
    <3>10. CASE Check \/ BlastRadius
      <4>1. ignored' = 0 => ignored = 0
        BY <3>10 DEF Check, BlastRadius, Ignoring, TypeOK
      <4>2. /\ pc \in {"check", "blast_radius"} /\ pc' \in {"blast_radius", "summary"}
            /\ UNCHANGED <<options, trapped, verifying, cluster, around>>
        BY <3>10 DEF Check, BlastRadius
      <4> QED
        BY <4>1, <4>2 DEF LiveConfig, Serving
    <3>11. CASE Summary
      BY <3>11, ExitServes DEF Summary
    <3>12. ASSUME NEW s, Fails(s) PROVE LiveConfig'
      BY <3>12, ExitServes DEF Fails
    <3>13. CASE Interrupt
      <4>1. ASSUME Exit(130) PROVE LiveConfig'
        BY <3>13, <4>1, ExitServes DEF Interrupt
      <4>2. CASE trapped /\ Restore /\ UNCHANGED <<pc, trapped>>
        <5>1. pc \in Trapped /\ UNCHANGED <<options, verifying, namespace>>
          BY <3>13, <4>2 DEF Interrupt, LiveConfig
        <5>2. Serving => Serving'
          BY <4>2, <5>1, RestoreKeeps
        <5> QED
          BY <4>2, <5>1, <5>2 DEF LiveConfig
      <4> QED
        BY <3>13, <4>1, <4>2 DEF Interrupt
    <3> QED
      BY <2>1, <3>1, <3>2, <3>3, <3>4, <3>5, <3>6, <3>7, <3>8, <3>9, <3>10, <3>11, <3>12, <3>13 DEF DeploySteps
  <2>2. CASE Cluster
    <3> USE DEF script, cluster, around, bounds, Serving
    <3>1. CASE RolloutCompletes
      BY <3>1 DEF RolloutCompletes, LiveConfig
    <3>2. CASE Built \/ Deleted \/ OutsideChanges
      BY <3>2 DEF Built, Deleted, OutsideChanges, LiveConfig
    <3> QED
      BY <2>2, <3>1, <3>2 DEF Cluster, ClusterSteps
  <2>3. CASE Delete \/ Await
    <3>1. namespace' = "present" => namespace = "present"
      BY <2>3 DEF Delete, Await, around
    <3>2. ignored' = 0 => ignored = 0
      BY <2>3 DEF Delete, Await, Overlooks, TypeOK
    <3>3. UNCHANGED <<script, cluster>>
      BY <2>3 DEF Delete, Await
    <3> QED
      BY <3>1, <3>2, <3>3 DEF LiveConfig, Serving, script, cluster
  <2>4. CASE UNCHANGED deployVars
    BY <2>4 DEF LiveConfig, Serving, deployVars, script, cluster, around, bounds
  <2>5. DeploySteps \/ Cluster \/ Delete \/ Await \/ UNCHANGED deployVars
    BY DEF Next, Deploy, Teardown, Confirm, Stops, Verify, vars
  <2> QED
    BY <2>1, <2>2, <2>3, <2>4, <2>5
<1>3. LiveConfig => NeverLeftDead
  BY DEF LiveConfig, NeverLeftDead, Trapped
<1> QED
  BY <1>1, <1>2, <1>3, TypesHold, PTL DEF Spec

-----------------------------------------------------------------------------
(* The verdict of the teardown.                                            *)

\* What is on file as the baseline was there when it was taken, and was taken
\* before the namespace that is there now, unless it has been renewed; a teardown
\* that has waited has a reason for going on.
BaselineKnown ==
  /\ baseline \in Nat => baseline <= protected
  /\ pc \notin {"exited", "preflight"} => baseline # None
  /\ origin # None => origin <= protected
  /\ origin # None /\ ~renewed => baseline # None /\ (baseline \in Nat => baseline <= origin)
  /\ step = "verify" => late \/ ignored > 0 \/ namespace = "absent"

LEMMA BaselineHolds == Spec => []BaselineKnown
<1> USE DeployAssumption, TeardownAssumption
<1>1. Init => BaselineKnown
  BY DEF Init, DeployInit, BaselineKnown
<1>2. TypeOK /\ BaselineKnown /\ [Next]_vars => BaselineKnown'
  <2> SUFFICES ASSUME TypeOK, BaselineKnown, [Next]_vars
               PROVE  BaselineKnown'
    OBVIOUS
  <2>1. CASE Deploy
    <3>1. DeploySteps /\ step = "exited" /\ UNCHANGED teardown
      BY <2>1 DEF Deploy
    <3>2. step' # "verify"
      BY <3>1 DEF teardown
    <3>3. CASE Preflight
      <4>1. /\ pc = "preflight" /\ UNCHANGED <<namespace, protected>>
            /\ baseline' = IF Captures THEN protected ELSE baseline
        BY <3>3 DEF Preflight
      <4>2. origin' = origin /\ renewed' = (renewed \/ options.refresh)
        BY <2>1, <4>1 DEF Deploy
      <4>3. baseline' # None /\ (baseline' \in Nat => baseline' <= protected)
        BY <4>1 DEF Captures, TypeOK, BaselineKnown
      <4>4. origin # None /\ ~renewed' => baseline' = baseline
        BY <4>1, <4>2 DEF Captures, BaselineKnown
      <4> QED
        BY <3>2, <4>1, <4>2, <4>3, <4>4 DEF BaselineKnown
    <3>4. CASE CaptureCut
      <4>1. /\ pc = "preflight" /\ UNCHANGED <<namespace, protected>>
            /\ baseline' = Empty /\ pc' = "exited"
        BY <3>4 DEF CaptureCut
      <4>2. origin' = origin /\ renewed' = (renewed \/ options.refresh)
        BY <2>1, <4>1 DEF Deploy
      <4> QED
        BY <3>2, <4>1, <4>2 DEF BaselineKnown
    <3>5. CASE ApplyNamespace
      <4>1. pc = "apply" /\ UNCHANGED <<protected, baseline>>
        BY <3>5 DEF ApplyNamespace
      <4>2. \/ origin' = protected /\ renewed' = FALSE
            \/ origin' = origin /\ (~renewed' => ~renewed)
        BY <2>1 DEF Deploy, TypeOK
      <4> QED
        BY <3>2, <4>1, <4>2 DEF BaselineKnown, TypeOK
    <3>6. CASE ~(Preflight \/ CaptureCut \/ ApplyNamespace)
      <4>1. /\ UNCHANGED <<namespace, protected, baseline>>
            /\ pc' \notin {"exited", "preflight"} => pc \notin {"exited", "preflight"}
        <5>1. ASSUME NEW rc, Exit(rc) PROVE pc' = "exited"
          BY <5>1 DEF Exit
        <5> QED
          BY <3>1, <3>6, <5>1
          DEF DeploySteps, Goto, around, Run, Apply, SetConfig, Credential, Image, Restart, Status,
              Ladder, DeadEndpoint, DeadRestart, Ask, RestoreConfig, Check, BlastRadius, Summary,
              Fails, Interrupt
      <4>2. origin' = origin /\ (~renewed' => ~renewed)
        BY <2>1, <4>1 DEF Deploy, TypeOK
      <4> QED
        BY <3>2, <4>1, <4>2 DEF BaselineKnown
    <3> QED
      BY <3>3, <3>4, <3>5, <3>6
  <2>2. CASE Cluster
    <3>1. /\ UNCHANGED <<pc, step, late, ignored, baseline, origin, renewed>>
          /\ protected' \in {protected, protected + 1}
          /\ namespace = "absent" => namespace' = "absent"
      BY <2>2 DEF Cluster, ClusterSteps, RolloutCompletes, Built, Deleted, OutsideChanges,
                  script, around, bounds, teardown, history
    <3> QED
      BY <3>1 DEF BaselineKnown, TypeOK
  <2>3. CASE Delete
    BY <2>3 DEF Delete, BaselineKnown, script, history
  <2>4. CASE Await
    <3>1. late' \/ ignored' > 0 \/ namespace' = "absent"
      BY <2>4 DEF Await, Overlooks, around, TypeOK
    <3> QED
      BY <2>4, <3>1 DEF Await, BaselineKnown, script, around, history
  <2>5. CASE Teardown \/ Confirm \/ Stops \/ Verify
    <3>1. UNCHANGED <<deployVars, history>> /\ step' # "verify"
      BY <2>5 DEF Teardown, Confirm, Stops, Verify
    <3> QED
      BY <3>1 DEF BaselineKnown, deployVars, script, around, history
  <2>6. CASE UNCHANGED vars
    BY <2>6 DEF BaselineKnown, vars, deployVars, script, around, bounds, teardown, history
  <2> QED
    BY <2>1, <2>2, <2>3, <2>4, <2>5, <2>6 DEF Next
<1> QED
  BY <1>1, <1>2, TypesHold, PTL DEF Spec

\* A clean verdict is never given for a cluster that differs, outside praxis-poc,
\* from what was there when praxis-poc was created, nor before it is gone, but for
\* the exceptions CleanMeansUndone names.
THEOREM CleanVerdictIsTrue == Spec => CleanMeansUndone
<1> USE DeployAssumption, TeardownAssumption
<1> DEFINE Justified == /\ origin = None \/ renewed \/ protected = origin
                        /\ late \/ ignored > 0 \/ namespace = "absent"
<1>1. TypeOK /\ BaselineKnown /\ [Next]_vars
        => [verdict # "clean" /\ verdict' = "clean" => Justified]_vars
  <2> SUFFICES ASSUME TypeOK, BaselineKnown, Next, verdict # "clean", verdict' = "clean"
               PROVE  Justified
    OBVIOUS
  <2>1. Verify
    BY DEF Next, Deploy, Cluster, Teardown, Confirm, Stops, Delete, Await, teardown
  <2>2. protected = baseline /\ step = "verify"
    BY <2>1 DEF Verify
  <2>3. origin # None /\ ~renewed => protected = origin
    BY <2>2 DEF BaselineKnown, TypeOK
  <2> QED
    BY <2>2, <2>3 DEF BaselineKnown
<1> QED
  BY <1>1, TypesHold, BaselineHolds, PTL DEF Spec, CleanMeansUndone

-----------------------------------------------------------------------------
(* The demo.                                                               *)

\* What main does at each step, and to which process or check.
LEMMA DemoSteps ==
  /\ DOMAIN Program = 1 .. 17
  /\ \A k \in 1 .. 17 :
       /\ Program[k][1] = "spawn" <=> k \in {1, 2, 3, 7, 9}
       /\ Program[k][1] = "await" <=> k \in {4, 5, 6, 8, 10}
       /\ Program[k][1] = "check" <=> k \in {11, 12, 13, 16}
       /\ Program[k][1] = "stop" <=> k = 14
       /\ Program[k][1] = "closed" <=> k = 15
       /\ Program[k][1] = "result" <=> k = 17
  BY DEF Program

LEMMA DemoSubjects ==
  /\ \A k \in {1, 2, 3, 7, 9} : Program[k][2] \in Children
  /\ Program[11][2] = "simple" /\ Program[12][2] = "complex" /\ Program[13][2] = "reasoning"
  /\ Program[14][2] = "llm-d-sc"
  /\ Program[16][2] = "failopen"
<1>1. ToSet(Upstreams) = {"small", "large", "general"}
  BY DEF ToSet, Upstreams
<1>2. /\ Program[1][2] = "small" /\ Program[2][2] = "large" /\ Program[3][2] = "general"
      /\ Program[7][2] = "llm-d-sc" /\ Program[9][2] = "praxis"
  BY DEF Program
<1>3. Program[11][2] = "simple" /\ Program[12][2] = "complex" /\ Program[13][2] = "reasoning"
  BY DEF Program
<1>4. Program[14][2] = "llm-d-sc" /\ Program[16][2] = "failopen"
  BY DEF Program
<1> QED
  BY <1>1, <1>2, <1>3, <1>4 DEF Children

\* main's step at which each check is made.
Place == [simple |-> 11, complex |-> 12, reasoning |-> 13, failopen |-> 16]

\* The types the argument needs; what listens is alive.
DemoTypes ==
  /\ stage \in {"preflight", "main", "cleanup", "exited"} /\ line \in 1 .. 17
  /\ failures \in Nat /\ presses \in Nat
  /\ CHILD_PIDS \in Seq(Children) /\ unlisted \in Children \cup {Nothing}
  /\ alive \subseteq Children /\ ready \subseteq alive

\* The checks that are made are those main has passed, each with its verdict: the
\* right cluster was seen with the classifier up or, after it was stopped, down,
\* and it stays down.
ChecksInv ==
  /\ DOMAIN checks = {s \in Slugs : Place[s] < line}
  /\ \A s \in DOMAIN checks :
       checks[s].served = Expected[s] => checks[s].classifier = (s # "failopen")
  /\ failures = 0 => \A s \in DOMAIN checks : checks[s].served = Expected[s]
  /\ line > 14 => "llm-d-sc" \notin alive
  /\ demoExit = 0 => line = 17 /\ failures = 0 /\ stage \in {"cleanup", "exited"}

\* Whatever is alive is in the list, from its end on still to be stopped, or is
\* the one child that is spawned and not listed yet.
ChildrenInv ==
  /\ stage = "preflight" => unlisted = Nothing /\ alive = {}
  /\ stage = "main" /\ unlisted # Nothing => AtLine("spawn") /\ unlisted = Subject
  /\ stage \in {"preflight", "main"} => alive \subseteq {CHILD_PIDS[i] : i \in 1 .. Len(CHILD_PIDS)} \cup {unlisted}
  /\ stage \in {"cleanup", "exited"} =>
       /\ next \in 0 .. Len(CHILD_PIDS)
       /\ alive \subseteq {CHILD_PIDS[i] : i \in 1 .. next} \cup {unlisted}
       /\ presses = 0 => unlisted = Nothing
       /\ stage = "exited" /\ ~KeepRunning /\ presses = 0 => next = 0

\* A check takes the place of its own and no other check's.
LEMMA Taken ==
  ASSUME DemoTypes, AtLine("check")
  PROVE  /\ Subject \in Slugs /\ Place[Subject] = line
         /\ line > 14 <=> Subject = "failopen"
         /\ {s \in Slugs : Place[s] < line + 1} = {s \in Slugs : Place[s] < line} \cup {Subject}
         /\ line + 1 \in 1 .. 17
<1>1. line \in {11, 12, 13, 16}
  BY DemoSteps DEF DemoTypes, AtLine
<1> QED
  BY <1>1, DemoSubjects DEF Place, Slugs, Expected, Subject

\* The other steps take no check's place.
LEMMA Untaken ==
  ASSUME DemoTypes, AtLine("spawn") \/ AtLine("await") \/ AtLine("stop") \/ AtLine("closed")
  PROVE  /\ {s \in Slugs : Place[s] < line + 1} = {s \in Slugs : Place[s] < line}
         /\ line + 1 \in 1 .. 17
<1>1. line \in {1, 2, 3, 4, 5, 6, 7, 8, 9, 10, 14, 15}
  BY DemoSteps DEF DemoTypes, AtLine
<1> QED
  BY <1>1 DEF Place, Slugs, Expected

\* The types hold.
LEMMA DemoTypesHold == DemoSpec => []DemoTypes
<1>1. DemoInit => DemoTypes
  BY DEF DemoInit, DemoTypes
<1>2. DemoTypes /\ [DemoNext]_demoVars => DemoTypes'
  <2> SUFFICES ASSUME DemoTypes, [DemoNext]_demoVars
               PROVE  DemoTypes'
    OBVIOUS
  <2> USE DEF children, demo, ExitDemo, StopChild
  <2>1. CASE DemoPreflight
    BY <2>1 DEF DemoTypes, DemoPreflight
  <2>2. CASE Spawn
    <3>1. Subject \in Children
      BY <2>2, DemoSteps, DemoSubjects DEF Spawn, AtLine, Subject, DemoTypes
    <3> QED
      BY <2>2, <3>1 DEF DemoTypes, Spawn, AtLine
  <2>3. CASE Remember
    <3>1. Subject \in Children
      BY <2>3, DemoSteps, DemoSubjects DEF Remember, AtLine, Subject, DemoTypes
    <3>2. line + 1 \in 1 .. 17
      BY <2>3, Untaken DEF Remember
    <3> QED
      BY <2>3, <3>1, <3>2 DEF DemoTypes, Remember
  <2>4. CASE AwaitChild \/ PortClosed
    BY <2>4, Untaken DEF DemoTypes, AwaitChild, PortClosed
  <2>5. CASE Timeout \/ Result
    BY <2>5 DEF DemoTypes, Timeout, Result
  <2>6. CASE CheckPrompt
    <3>1. line' \in 1 .. 17
      BY <2>6, Taken DEF CheckPrompt
    <3>2. failures' \in Nat
      BY <2>6 DEF CheckPrompt, DemoTypes
    <3> QED
      BY <2>6, <3>1, <3>2 DEF DemoTypes, CheckPrompt
  <2>7. CASE StopClassifier
    BY <2>7, Untaken DEF DemoTypes, StopClassifier
  <2>8. CASE Cleanup
    BY <2>8 DEF DemoTypes, Cleanup
  <2>9. CASE CtrlC
    BY <2>9 DEF DemoTypes, CtrlC
  <2>10. ASSUME NEW c \in Children, ChildListens(c) \/ Dies(c) PROVE DemoTypes'
    BY <2>10 DEF DemoTypes, ChildListens, Dies
  <2>11. CASE UNCHANGED demoVars
    BY <2>11 DEF DemoTypes, demoVars
  <2> QED
    BY <2>1, <2>2, <2>3, <2>4, <2>5, <2>6, <2>7, <2>8, <2>9, <2>10, <2>11 DEF DemoNext
<1> QED
  BY <1>1, <1>2, PTL DEF DemoSpec

\* What a check that passes has seen.
LEMMA PassedFor ==
  ASSUME DemoTypes, AtLine("check"), line > 14 => "llm-d-sc" \notin alive,
         NEW served \in Answers(Subject), served = Expected[Subject]
  PROVE  ("llm-d-sc" \in ready) = (Subject # "failopen")
<1>1. Subject \in Slugs /\ (line > 14 <=> Subject = "failopen")
  BY Taken
<1>2. CASE Subject = "failopen"
  BY <1>1, <1>2 DEF DemoTypes
<1>3. CASE Subject # "failopen"
  <2>1. Expected[Subject] \in {"small", "large"}
    BY <1>1, <1>3 DEF Slugs, Expected
  <2>2. served \notin {"general", Nothing}
    BY <2>1, DemoAssumption DEF Children, Upstreams, ToSet
  <2> QED
    BY <1>3, <2>2 DEF Answers
<1> QED
  BY <1>2, <1>3

\* A demo that exits 0 has seen every prompt answered by its own cluster, the last
\* one with the classifier down, whatever dies and whenever it is interrupted.
THEOREM PassIsProof ==
  DemoSpec => []PassMeansProved
<1>1. DemoInit => ChecksInv
  BY DemoAssumption DEF DemoInit, ChecksInv, Place, Slugs, Expected
<1>2. DemoTypes /\ ChecksInv /\ [DemoNext]_demoVars => ChecksInv'
  <2> SUFFICES ASSUME DemoTypes, ChecksInv, [DemoNext]_demoVars
               PROVE  ChecksInv'
    OBVIOUS
  <2> USE DEF children, demo, ExitDemo, StopChild
  <2>1. CASE DemoPreflight
    BY <2>1 DEF ChecksInv, DemoPreflight
  <2>2. CASE Spawn
    <3>1. line < 14
      BY <2>2, DemoSteps DEF DemoTypes, Spawn, AtLine
    <3> QED
      BY <2>2, <3>1 DEF ChecksInv, Spawn, DemoTypes
  <2>3. CASE Remember \/ AwaitChild \/ PortClosed
    <3>1. line # 14 /\ line # 17
      BY <2>3, DemoSteps DEF DemoTypes, Remember, AwaitChild, PortClosed, AtLine
    <3>2. /\ line' = line + 1 /\ line' \in 1 .. 17 /\ DOMAIN checks = {s \in Slugs : Place[s] < line'}
          /\ UNCHANGED <<checks, failures, alive, demoExit, stage>>
      BY <2>3, Untaken DEF ChecksInv, Remember, AwaitChild, PortClosed
    <3>3. DOMAIN checks' = {s \in Slugs : Place[s] < line'} /\ (line' > 14 <=> line > 14)
      BY <3>1, <3>2 DEF DemoTypes
    <3> QED
      BY <3>1, <3>2, <3>3 DEF ChecksInv
  <2>4. CASE Timeout \/ CtrlC
    <3>1. /\ UNCHANGED <<line, checks, failures, alive>>
          /\ demoExit' \in {1, 130}
      BY <2>4 DEF Timeout, CtrlC
    <3> QED
      BY <3>1 DEF ChecksInv
  <2>5. CASE CheckPrompt
    <3>1. AtLine("check") /\ stage = "main" /\ line' = line + 1
      BY <2>5 DEF CheckPrompt, AtLine
    <3>2. PICK served \in Answers(Subject) :
            /\ checks' = [s \in DOMAIN checks \cup {Subject} |->
                            IF s = Subject
                            THEN [passed |-> Passes(Subject, served), served |-> served,
                                  classifier |-> "llm-d-sc" \in ready]
                            ELSE checks[s]]
            /\ failures' = IF Passes(Subject, served) THEN failures ELSE failures + 1
      BY <2>5 DEF CheckPrompt
    <3>3. DOMAIN checks' = {s \in Slugs : Place[s] < line'}
      BY <3>1, <3>2, Taken DEF ChecksInv
    <3>4. served = Expected[Subject] => ("llm-d-sc" \in ready) = (Subject # "failopen")
      BY <3>1, PassedFor DEF ChecksInv
    <3>5. \A s \in DOMAIN checks' :
            checks'[s].served = Expected[s] => checks'[s].classifier = (s # "failopen")
      <4> SUFFICES ASSUME NEW s \in DOMAIN checks', checks'[s].served = Expected[s]
                   PROVE  checks'[s].classifier = (s # "failopen")
        OBVIOUS
      <4>1. CASE s = Subject
        BY <3>2, <3>4, <4>1
      <4>2. CASE s # Subject
        BY <3>2, <4>2 DEF ChecksInv
      <4> QED
        BY <4>1, <4>2
    <3>6. failures' = 0 => \A s \in DOMAIN checks' : checks'[s].served = Expected[s]
      BY <3>2 DEF ChecksInv, DemoTypes, Passes
    <3>7. /\ line' > 14 => "llm-d-sc" \notin alive'
          /\ demoExit' # 0
      <4>1. line # 14
        BY <3>1, DemoSteps DEF DemoTypes, AtLine
      <4> QED
        BY <2>5, <3>1, <4>1 DEF ChecksInv, DemoTypes, CheckPrompt
    <3> QED
      BY <3>3, <3>5, <3>6, <3>7 DEF ChecksInv
  <2>6. CASE StopClassifier
    <3>1. Subject = "llm-d-sc"
      BY <2>6, DemoSteps, DemoSubjects DEF DemoTypes, StopClassifier, AtLine, Subject
    <3>2. line' = line + 1 /\ DOMAIN checks = {s \in Slugs : Place[s] < line'} /\ stage = "main"
      BY <2>6, Untaken DEF ChecksInv, StopClassifier, AtLine
    <3> QED
      BY <2>6, <3>1, <3>2 DEF ChecksInv, StopClassifier
  <2>7. CASE Result
    <3>1. line = 17
      BY <2>7, DemoSteps DEF DemoTypes, Result, AtLine
    <3> QED
      BY <2>7, <3>1 DEF ChecksInv, Result
  <2>8. CASE Cleanup
    <3>1. "llm-d-sc" \notin alive => "llm-d-sc" \notin alive'
      BY <2>8 DEF Cleanup
    <3>2. UNCHANGED <<line, checks, failures, demoExit>> /\ stage' \in {"cleanup", "exited"}
      BY <2>8 DEF Cleanup
    <3> QED
      BY <3>1, <3>2 DEF ChecksInv
  <2>9. ASSUME NEW c \in Children, ChildListens(c) \/ Dies(c) PROVE ChecksInv'
    BY <2>9 DEF ChecksInv, ChildListens, Dies
  <2>10. CASE UNCHANGED demoVars
    BY <2>10 DEF ChecksInv, demoVars
  <2> QED
    BY <2>1, <2>2, <2>3, <2>4, <2>5, <2>6, <2>7, <2>8, <2>9, <2>10 DEF DemoNext
<1>3. DemoTypes /\ ChecksInv => PassMeansProved
  <2> SUFFICES ASSUME DemoTypes, ChecksInv, demoExit = 0 PROVE PassMeansProved
    BY DEF PassMeansProved
  <2>1. DOMAIN checks = Slugs
    BY DEF ChecksInv, Place, Slugs, Expected
  <2> QED
    BY <2>1 DEF ChecksInv, PassMeansProved
<1> QED
  BY <1>1, <1>2, <1>3, DemoTypesHold, PTL DEF DemoSpec

\* exit leaves to the teardown all that is listed.
LEMMA ExitHandsOver ==
  ASSUME DemoTypes, NEW rc, ExitDemo(rc), stage \in {"preflight", "main"},
         alive \subseteq {CHILD_PIDS[i] : i \in 1 .. Len(CHILD_PIDS)} \cup {unlisted},
         unlisted = Nothing \/ presses' # 0,
         UNCHANGED <<line, unlisted, CHILD_PIDS, alive>>
  PROVE  ChildrenInv'
<1>1. stage' \in {"cleanup", "exited"} /\ next' = Len(CHILD_PIDS) /\ (stage' = "exited" => KeepRunning)
  BY DEF ExitDemo
<1>2. next' \in 0 .. Len(CHILD_PIDS) /\ CHILD_PIDS' = CHILD_PIDS
  BY <1>1 DEF DemoTypes
<1>3. alive' \subseteq {CHILD_PIDS'[i] : i \in 1 .. next'} \cup {unlisted'}
  BY <1>1
<1> QED
  BY <1>1, <1>2, <1>3 DEF ChildrenInv

\* The invariant holds.
LEMMA ChildrenHold == DemoSpec => []ChildrenInv
<1>1. DemoInit => ChildrenInv
  BY DEF DemoInit, ChildrenInv
<1>2. DemoTypes /\ ChildrenInv /\ [DemoNext]_demoVars => ChildrenInv'
  <2> SUFFICES ASSUME DemoTypes, ChildrenInv, [DemoNext]_demoVars
               PROVE  ChildrenInv'
    OBVIOUS
  <2> USE DEF children, demo
  <2>1. CASE DemoPreflight
    <3>1. CASE \E rc : ExitDemo(rc)
      <4>1. /\ UNCHANGED <<line, unlisted, CHILD_PIDS, alive>> /\ stage = "preflight"
        BY <2>1, <3>1 DEF DemoPreflight
      <4> QED
        BY <3>1, <4>1, ExitHandsOver DEF ChildrenInv
    <3>2. CASE stage' = "main"
      BY <2>1, <3>2 DEF DemoPreflight, ChildrenInv
    <3> QED
      BY <2>1, <3>1, <3>2 DEF DemoPreflight
  <2>2. CASE Spawn
    <3>1. alive' \subseteq {CHILD_PIDS'[i] : i \in 1 .. Len(CHILD_PIDS')} \cup {unlisted'}
      BY <2>2, DemoAssumption DEF Spawn, ChildrenInv, AtLine, DemoTypes
    <3> QED
      BY <2>2, <3>1 DEF Spawn, ChildrenInv, AtLine, Subject
  <2>3. CASE Remember
    <3>1. unlisted \in Children /\ unlisted = Subject /\ stage = "main"
      BY <2>3, DemoSteps, DemoSubjects DEF DemoTypes, Remember, AtLine, Subject
    <3>2. {CHILD_PIDS'[i] : i \in 1 .. Len(CHILD_PIDS')} = {CHILD_PIDS[i] : i \in 1 .. Len(CHILD_PIDS)} \cup {unlisted}
      <4>1. CHILD_PIDS' = Append(CHILD_PIDS, unlisted) /\ CHILD_PIDS \in Seq(Children)
        BY <2>3, <3>1 DEF Remember, DemoTypes
      <4>2. Len(CHILD_PIDS') = Len(CHILD_PIDS) + 1 /\ Len(CHILD_PIDS) \in Nat
        BY <3>1, <4>1
      <4>3. \A i \in 1 .. Len(CHILD_PIDS) : CHILD_PIDS'[i] = CHILD_PIDS[i]
        BY <3>1, <4>1
      <4>4. CHILD_PIDS'[Len(CHILD_PIDS) + 1] = unlisted
        BY <3>1, <4>1
      <4>5. 1 .. Len(CHILD_PIDS') = 1 .. Len(CHILD_PIDS) \cup {Len(CHILD_PIDS) + 1}
        BY <4>2
      <4> QED
        BY <4>3, <4>4, <4>5
    <3> QED
      BY <2>3, <3>1, <3>2 DEF Remember, ChildrenInv
  <2>4. CASE AwaitChild \/ CheckPrompt \/ PortClosed
    <3>1. /\ stage = "main" /\ stage' = "main" /\ ~AtLine("spawn")
          /\ UNCHANGED <<unlisted, CHILD_PIDS, alive>>
      BY <2>4 DEF AwaitChild, CheckPrompt, PortClosed, AtLine
    <3> QED
      BY <3>1 DEF ChildrenInv
  <2>5. CASE StopClassifier
    <3>1. stage = "main" /\ stage' = "main" /\ ~AtLine("spawn") /\ UNCHANGED <<unlisted, CHILD_PIDS>> /\ alive' \subseteq alive
      BY <2>5 DEF StopClassifier, AtLine, StopChild
    <3> QED
      BY <3>1 DEF ChildrenInv
  <2>6. CASE Timeout \/ Result
    <3>1. stage = "main" /\ ~AtLine("spawn") /\ UNCHANGED <<line, unlisted, CHILD_PIDS, alive>>
      BY <2>6 DEF Timeout, Result, AtLine
    <3>2. \E rc : ExitDemo(rc)
      BY <2>6 DEF Timeout, Result
    <3> QED
      BY <3>1, <3>2, ExitHandsOver DEF ChildrenInv
  <2>7. CASE Cleanup
    <3>1. CASE next = 0
      BY <2>7, <3>1 DEF Cleanup, ChildrenInv
    <3>2. CASE next # 0
      <4>1. /\ stage = "cleanup" /\ stage' = "cleanup" /\ next' = next - 1
            /\ alive' = alive \ {CHILD_PIDS[next]} /\ UNCHANGED <<unlisted, CHILD_PIDS, presses>>
        BY <2>7, <3>2 DEF Cleanup, StopChild
      <4>2. next \in 0 .. Len(CHILD_PIDS) /\ next' \in 0 .. Len(CHILD_PIDS)
        BY <3>2, <4>1 DEF ChildrenInv, DemoTypes
      <4>3. 1 .. next = 1 .. next' \cup {next}
        BY <3>2, <4>1, <4>2 DEF DemoTypes
      <4>4. alive' \subseteq {CHILD_PIDS[i] : i \in 1 .. next'} \cup {unlisted}
        BY <4>1, <4>3 DEF ChildrenInv
      <4> QED
        BY <4>1, <4>2, <4>4 DEF ChildrenInv
    <3> QED
      BY <3>1, <3>2
  <2>8. CASE CtrlC
    <3>1. presses' # 0 /\ UNCHANGED <<line, unlisted, CHILD_PIDS, alive>>
      BY <2>8 DEF CtrlC, DemoTypes
    <3>2. CASE stage = "cleanup"
      BY <2>8, <3>1, <3>2 DEF CtrlC, ChildrenInv
    <3>3. CASE stage # "cleanup"
      <4>1. stage \in {"preflight", "main"} /\ ExitDemo(130)
        BY <2>8, <3>3 DEF CtrlC, DemoTypes
      <4> QED
        BY <3>1, <4>1, ExitHandsOver DEF ChildrenInv
    <3> QED
      BY <3>2, <3>3
  <2>9. ASSUME NEW c \in Children, ChildListens(c) \/ Dies(c) PROVE ChildrenInv'
    <3>1. alive' \subseteq alive /\ UNCHANGED <<demo, presses>>
      BY <2>9 DEF ChildListens, Dies, StopChild
    <3> QED
      BY <3>1 DEF ChildrenInv, AtLine, Subject
  <2>10. CASE UNCHANGED demoVars
    BY <2>10 DEF ChildrenInv, demoVars, AtLine, Subject
  <2> QED
    BY <2>1, <2>2, <2>3, <2>4, <2>5, <2>6, <2>7, <2>8, <2>9, <2>10 DEF DemoNext
<1> QED
  BY <1>1, <1>2, DemoTypesHold, PTL DEF DemoSpec

\* The teardown of the demo leaves no process behind but the one a Ctrl-C finds
\* spawned and not listed, and those an interrupted teardown had not come to, for
\* any number of interrupts.
THEOREM NothingIsLeft ==
  DemoSpec => []EverythingTornDown
<1>1. DemoTypes /\ ChildrenInv => EverythingTornDown
  BY DemoAssumption DEF DemoTypes, ChildrenInv, EverythingTornDown
<1> QED
  BY <1>1, ChildrenHold, DemoTypesHold, PTL

ThreeFor(n) == 3 * n

\* How many steps the demo has left at most: for each of main's three, to start a
\* process, to list it and to stop it.
DemoLeft ==
  [preflight |-> ThreeFor(18 - line) + Len(CHILD_PIDS) + 3,
   main |-> ThreeFor(18 - line) + Len(CHILD_PIDS) + (IF unlisted = Nothing THEN 2 ELSE 1),
   cleanup |-> next + 1,
   exited |-> 0][stage]

\* What the script is at needs nothing of any process: start_bg finds the last
\* one listed, and the waits time out.
DemoCanGoOn ==
  \/ stage \in {"preflight", "cleanup"}
  \/ AtLine("spawn") /\ unlisted \in {Nothing, Subject}
  \/ \E op \in {"await", "check", "stop", "closed", "result"} : AtLine(op)

\* A step of main is worth three.
LEMMA ThreeFacts ==
  ASSUME NEW l \in 1 .. 17
  PROVE  /\ ThreeFor(18 - l) \in Nat /\ ThreeFor(18 - l) >= 3
         /\ ThreeFor(18 - (l + 1)) \in Nat /\ ThreeFor(18 - l) = ThreeFor(18 - (l + 1)) + 3
  BY DEF ThreeFor

\* The demo gets nearer its end with everything the script does, an interrupt
\* included, and no process that starts late, hangs or dies takes it away from
\* it; and at no point is it stuck.  With the fairness of FairDemoSpec this is
\* DemoEnds.
THEOREM DemoGetsToItsEnd ==
  DemoSpec => /\ [][UNCHANGED demo \/ DemoLeft' < DemoLeft]_demoVars
              /\ [](DemoLeft \in Nat /\ (DemoLeft = 0 <=> stage = "exited"))
              /\ [](stage # "exited" => DemoCanGoOn)
<1>1. DemoTypes /\ ChildrenInv /\ [DemoNext]_demoVars =>
        [UNCHANGED demo \/ DemoLeft' < DemoLeft]_demoVars
  <2> SUFFICES ASSUME DemoTypes, ChildrenInv, DemoNext
               PROVE  UNCHANGED demo \/ DemoLeft' < DemoLeft
    OBVIOUS
  <2>0. /\ Len(CHILD_PIDS) \in Nat
        /\ ThreeFor(18 - line) \in Nat /\ ThreeFor(18 - line) >= 3
        /\ ThreeFor(18 - (line + 1)) \in Nat /\ ThreeFor(18 - line) = ThreeFor(18 - (line + 1)) + 3
    <3>1. line \in 1 .. 17 /\ Len(CHILD_PIDS) \in Nat
      BY DEF DemoTypes
    <3> QED
      BY <3>1, ThreeFacts, Zenon
  <2>1. ASSUME NEW rc, ExitDemo(rc), stage \in {"preflight", "main"}, UNCHANGED CHILD_PIDS
        PROVE  DemoLeft' < DemoLeft
    <3>1. DemoLeft' <= Len(CHILD_PIDS) + 1 /\ DemoLeft' \in Nat
      BY <2>0, <2>1 DEF ExitDemo, DemoLeft
    <3>2. DemoLeft > Len(CHILD_PIDS) + 1 /\ DemoLeft \in Nat
      BY <2>0, <2>1 DEF DemoLeft
    <3> QED
      BY <2>0, <3>1, <3>2
  <2>2. CASE DemoPreflight
    <3>1. CASE stage' = "main"
      <4>1. stage = "preflight" /\ stage' = "main" /\ UNCHANGED <<line, CHILD_PIDS, unlisted>>
        BY <2>2, <3>1 DEF DemoPreflight
      <4> QED
        BY <2>0, <4>1 DEF DemoLeft
    <3> QED
      BY <2>1, <2>2, <3>1 DEF DemoPreflight
  <2>3. CASE Spawn
    <3>1. unlisted' # Nothing
      BY <2>3, DemoSteps, DemoSubjects, DemoAssumption DEF Spawn, AtLine, Subject, DemoTypes
    <3> QED
      <4>1. stage = "main" /\ unlisted = Nothing /\ UNCHANGED <<stage, line, CHILD_PIDS>>
        BY <2>3 DEF Spawn, AtLine
      <4> QED
        BY <2>0, <3>1, <4>1 DEF DemoLeft
  <2>4. CASE Remember
    <3>1. Len(CHILD_PIDS') = Len(CHILD_PIDS) + 1
      BY <2>4 DEF Remember, DemoTypes
    <3>2. unlisted # Nothing
      BY <2>4, DemoSteps, DemoSubjects, DemoAssumption DEF Remember, AtLine, Subject, DemoTypes
    <3> QED
      <4>1. stage = "main" /\ unlisted' = Nothing /\ line' = line + 1 /\ UNCHANGED stage
        BY <2>4 DEF Remember, AtLine
      <4> QED
        BY <2>0, <3>1, <3>2, <4>1 DEF DemoLeft
  <2>5. CASE AwaitChild \/ CheckPrompt \/ StopClassifier \/ PortClosed
    <3>1. stage = "main" /\ line' = line + 1 /\ UNCHANGED <<stage, CHILD_PIDS, unlisted>>
      BY <2>5 DEF AwaitChild, CheckPrompt, StopClassifier, PortClosed, AtLine
    <3> QED
      BY <2>0, <3>1 DEF DemoLeft
  <2>6. CASE Timeout \/ Result
    BY <2>1, <2>6 DEF Timeout, Result, AtLine
  <2>7. CASE Cleanup
    <3>1. stage = "cleanup" /\ next \in Nat
      BY <2>0, <2>7 DEF Cleanup, ChildrenInv
    <3> QED
      BY <2>7, <3>1 DEF Cleanup, DemoLeft
  <2>8. CASE CtrlC
    <3>1. CASE stage = "cleanup"
      <4>1. next \in Nat
        BY <2>0, <3>1 DEF ChildrenInv
      <4> QED
        BY <2>8, <3>1, <4>1 DEF CtrlC, DemoLeft
    <3>2. CASE stage # "cleanup"
      BY <2>1, <2>8, <3>2 DEF CtrlC, DemoTypes
    <3> QED
      BY <3>1, <3>2
  <2>9. ASSUME NEW c \in Children, ChildListens(c) \/ Dies(c) PROVE UNCHANGED demo
    BY <2>9 DEF ChildListens, Dies
  <2> QED
    BY <2>2, <2>3, <2>4, <2>5, <2>6, <2>7, <2>8, <2>9 DEF DemoNext
<1>2. DemoTypes /\ ChildrenInv => DemoLeft \in Nat /\ (DemoLeft = 0 <=> stage = "exited")
  <2> SUFFICES ASSUME DemoTypes, ChildrenInv
               PROVE  DemoLeft \in Nat /\ (DemoLeft = 0 <=> stage = "exited")
    OBVIOUS
  <2>1. Len(CHILD_PIDS) \in Nat /\ ThreeFor(18 - line) \in Nat
    <3>1. line \in 1 .. 17 /\ Len(CHILD_PIDS) \in Nat
      BY DEF DemoTypes
    <3> QED
      BY <3>1, ThreeFacts, Zenon
  <2>2. stage = "cleanup" => next \in Nat
    BY <2>1 DEF ChildrenInv
  <2>3. CASE stage \in {"preflight", "main"}
    BY <2>1, <2>3 DEF DemoLeft
  <2>4. CASE stage = "cleanup"
    <3>1. DemoLeft = next + 1
      BY <2>4 DEF DemoLeft
    <3> QED
      BY <2>2, <2>4, <3>1
  <2>5. CASE stage = "exited"
    BY <2>5 DEF DemoLeft
  <2> QED
    BY <2>3, <2>4, <2>5 DEF DemoTypes
<1>3. DemoTypes /\ ChildrenInv => (stage # "exited" => DemoCanGoOn)
  <2> SUFFICES ASSUME DemoTypes, ChildrenInv, stage = "main"
               PROVE  DemoCanGoOn
    BY DEF DemoTypes, DemoCanGoOn
  <2>1. unlisted # Nothing => AtLine("spawn") /\ unlisted = Subject
    BY DEF ChildrenInv
  <2>2. \E op \in {"spawn", "await", "check", "stop", "closed", "result"} : AtLine(op)
    <3>1. line \in {1, 2, 3, 7, 9} \/ line \in {4, 5, 6, 8, 10} \/ line \in {11, 12, 13, 16}
          \/ line = 14 \/ line = 15 \/ line = 17
      BY DEF DemoTypes
    <3> QED
      BY <3>1, DemoSteps DEF AtLine
  <2> QED
    BY <2>1, <2>2 DEF DemoCanGoOn
<1> QED
  BY <1>1, <1>2, <1>3, DemoTypesHold, ChildrenHold, PTL DEF DemoSpec

-----------------------------------------------------------------------------
(* The local benchmark.                                                    *)

\* The steps of program before the scenarios.
Before ==
  Started("stub-small") \o Started("stub-large")
    \o <<Step("wait", "stub-small"), Step("wait", "stub-large")>>
    \o Started("llm-d-sc") \o <<Step("wait", "llm-d-sc")>>
    \o Started("slow-classifier") \o <<Step("wait", "slow-classifier")>>
    \o Started("praxis") \o <<Step("wait", "praxis")>>
    \o <<Step("sane", "classified"), Step("sane", "steered")>>

\* What kinds of step these are.
BeforeSteps ==
  [kind : {"run", "list", "wait", "sane"}, what : Processes \cup {"classified", "steered"}]

\* There is no scenario among them.
LEMMA BeforeFacts == Before \in Seq(BeforeSteps)
<1>1. ASSUME NEW p \in Processes
      PROVE  Started(p) \in Seq(BeforeSteps) /\ <<Step("wait", p)>> \in Seq(BeforeSteps)
  <2>1. Step("run", p) \in BeforeSteps /\ Step("list", p) \in BeforeSteps /\ Step("wait", p) \in BeforeSteps
    BY DEF Step, BeforeSteps
  <2> HIDE DEF BeforeSteps, Step
  <2> QED
    BY <2>1 DEF Started
<1>2. <<Step("wait", "stub-small"), Step("wait", "stub-large")>> \in Seq(BeforeSteps)
  <2>1. Step("wait", "stub-small") \in BeforeSteps /\ Step("wait", "stub-large") \in BeforeSteps
    BY DEF Step, BeforeSteps, Processes
  <2> HIDE DEF BeforeSteps, Step
  <2> QED
    BY <2>1
<1>3. <<Step("sane", "classified"), Step("sane", "steered")>> \in Seq(BeforeSteps)
  <2>1. Step("sane", "classified") \in BeforeSteps /\ Step("sane", "steered") \in BeforeSteps
    BY DEF Step, BeforeSteps
  <2> HIDE DEF BeforeSteps, Step
  <2> QED
    BY <2>1
<1>4. \A s, t \in Seq(BeforeSteps) : s \o t \in Seq(BeforeSteps)
  OBVIOUS
<1> HIDE DEF BeforeSteps
<1>5. /\ Started("stub-small") \o Started("stub-large") \in Seq(BeforeSteps)
      /\ Started("llm-d-sc") \in Seq(BeforeSteps) /\ <<Step("wait", "llm-d-sc")>> \in Seq(BeforeSteps)
      /\ Started("slow-classifier") \in Seq(BeforeSteps) /\ <<Step("wait", "slow-classifier")>> \in Seq(BeforeSteps)
      /\ Started("praxis") \in Seq(BeforeSteps) /\ <<Step("wait", "praxis")>> \in Seq(BeforeSteps)
  BY <1>1, <1>4 DEF Processes
<1> HIDE DEF Started, Step
<1> QED
  BY <1>2, <1>3, <1>4, <1>5 DEF Before

\* Where the scenarios are.
First == Len(Before)

\* The elements of a concatenation.
LEMMA ConcatFacts ==
  ASSUME NEW S, NEW s \in Seq(S), NEW t \in Seq(S)
  PROVE  /\ s \o t \in Seq(S) /\ Len(s \o t) = Len(s) + Len(t) /\ Len(s) \in Nat /\ Len(t) \in Nat
         /\ \A k \in 1 .. Len(s) : (s \o t)[k] = s[k]
         /\ \A k \in 1 .. Len(t) : (s \o t)[Len(s) + k] = t[k]
  OBVIOUS

\* The same, of a sequence and one more element.
LEMMA LastFacts ==
  ASSUME NEW S, NEW s \in Seq(S), NEW e \in S
  PROVE  /\ Len(s \o <<e>>) = Len(s) + 1 /\ DOMAIN (s \o <<e>>) = 1 .. (Len(s) + 1)
         /\ \A k \in 1 .. Len(s) : (s \o <<e>>)[k] = s[k]
         /\ (s \o <<e>>)[Len(s) + 1] = e
  OBVIOUS

\* Two sequences and one more element.
Joined(a, b, e) == (a \o b) \o <<e>>

\* The elements of the whole.
LEMMA JoinedFacts ==
  ASSUME NEW S, NEW a \in Seq(S), NEW b \in Seq(S), NEW e \in S
  PROVE  /\ Len(a) \in Nat /\ Len(b) \in Nat
         /\ Len(Joined(a, b, e)) = Len(a) + Len(b) + 1
         /\ DOMAIN Joined(a, b, e) = 1 .. Len(Joined(a, b, e))
         /\ \A k \in 1 .. Len(a) : Joined(a, b, e)[k] = a[k]
         /\ \A k \in 1 .. Len(b) : Joined(a, b, e)[Len(a) + k] = b[k]
         /\ Joined(a, b, e)[Len(Joined(a, b, e))] = e
<1> DEFINE ab == a \o b
           p == ab \o <<e>>
<1>1. /\ ab \in Seq(S) /\ Len(ab) = Len(a) + Len(b) /\ Len(a) \in Nat /\ Len(b) \in Nat
      /\ \A k \in 1 .. Len(a) : ab[k] = a[k]
      /\ \A k \in 1 .. Len(b) : ab[Len(a) + k] = b[k]
  BY ConcatFacts
<1>2. Joined(a, b, e) = p
  BY DEF Joined
<1> HIDE DEF ab
<1>3. /\ Len(p) = Len(ab) + 1 /\ DOMAIN p = 1 .. (Len(ab) + 1)
      /\ \A k \in 1 .. Len(ab) : p[k] = ab[k]
      /\ p[Len(ab) + 1] = e
  BY <1>1, LastFacts, Zenon
<1> HIDE DEF p
<1>4. \A k \in 1 .. Len(a) : k \in 1 .. Len(ab)
  BY <1>1
<1>5. \A k \in 1 .. Len(b) : Len(a) + k \in 1 .. Len(ab)
  BY <1>1
<1> QED
  BY <1>1, <1>2, <1>3, <1>4, <1>5

\* The program: what comes first, the scenarios in their order, and the end.
LEMMA ProgramFacts ==
  /\ \A k \in 1 .. First : program[k] = Before[k]
  /\ First \in Nat /\ Len(Scenarios) \in Nat /\ DOMAIN Scenarios = 1 .. Len(Scenarios)
  /\ Len(program) = First + Len(Scenarios) + 1
  /\ DOMAIN program = 1 .. Len(program)
  /\ \A k \in 1 .. First : program[k].kind \in {"run", "list", "wait", "sane"}
  /\ \A k \in DOMAIN Scenarios :
       program[First + k].kind = "scenario" /\ program[First + k].what = Scenarios[k]
  /\ program[Len(program)].kind = "end"
<1> DEFINE Sc == [k \in DOMAIN Scenarios |-> Step("scenario", Scenarios[k])]
           EndStep == Step("end", "all")
           AnyStep == BeforeSteps \cup {Sc[k] : k \in DOMAIN Scenarios} \cup {EndStep}
<1>1. program = Joined(Before, Sc, EndStep)
  BY DEF program, Before, Joined
<1>2. Len(Scenarios) \in Nat /\ DOMAIN Scenarios = 1 .. Len(Scenarios)
  BY LocalAssumption
<1>3. Sc \in [1 .. Len(Scenarios) -> AnyStep] /\ BeforeSteps \subseteq AnyStep /\ EndStep \in AnyStep
  BY <1>2
<1>4. \A k \in DOMAIN Scenarios : Sc[k].kind = "scenario" /\ Sc[k].what = Scenarios[k]
  BY DEF Step
<1>5. EndStep.kind = "end"
  BY DEF Step
<1>6. \A s \in BeforeSteps : s.kind \in {"run", "list", "wait", "sane"}
  BY DEF BeforeSteps
<1> HIDE DEF Sc, AnyStep, EndStep
<1>7. Sc \in Seq(AnyStep) /\ Len(Sc) = Len(Scenarios)
  BY <1>2, <1>3
<1>8. Before \in Seq(AnyStep) /\ \A k \in 1 .. Len(Before) : Before[k] \in BeforeSteps
  BY <1>3, BeforeFacts
<1>9. /\ Len(Before) \in Nat
      /\ Len(program) = Len(Before) + Len(Sc) + 1 /\ DOMAIN program = 1 .. Len(program)
      /\ \A k \in 1 .. Len(Before) : program[k] = Before[k]
      /\ \A k \in 1 .. Len(Sc) : program[Len(Before) + k] = Sc[k]
      /\ program[Len(program)] = EndStep
  <2>1. Before \in Seq(AnyStep) /\ Sc \in Seq(AnyStep) /\ EndStep \in AnyStep
    BY <1>3, <1>7, <1>8
  <2>2. /\ Len(Before) \in Nat /\ Len(Joined(Before, Sc, EndStep)) = Len(Before) + Len(Sc) + 1
        /\ DOMAIN Joined(Before, Sc, EndStep) = 1 .. Len(Joined(Before, Sc, EndStep))
        /\ \A k \in 1 .. Len(Before) : Joined(Before, Sc, EndStep)[k] = Before[k]
        /\ \A k \in 1 .. Len(Sc) : Joined(Before, Sc, EndStep)[Len(Before) + k] = Sc[k]
        /\ Joined(Before, Sc, EndStep)[Len(Joined(Before, Sc, EndStep))] = EndStep
    BY <2>1, JoinedFacts
  <2> QED
    BY <1>1, <2>2
<1>10. \A k \in 1 .. First : program[k].kind \in {"run", "list", "wait", "sane"}
  BY <1>6, <1>8, <1>9 DEF First
<1>11. \A k \in DOMAIN Scenarios :
         program[First + k].kind = "scenario" /\ program[First + k].what = Scenarios[k]
  BY <1>2, <1>4, <1>7, <1>9 DEF First
<1> QED
  BY <1>2, <1>5, <1>7, <1>9, <1>10, <1>11 DEF First

\* The types the argument needs.
LocalTypes ==
  /\ position \in 1 .. Len(program) /\ FAILED \in Nat
  /\ mode \in {"script", "term", "kill", "wait", "exited"}
  /\ ran \subseteq {Scenarios[k] : k \in DOMAIN Scenarios}

\* As long as nothing is counted as failed, every scenario the script has passed
\* has completed; once the last cleanup runs the script does not go on.
ScenariosInv ==
  /\ FAILED = 0 => \A k \in DOMAIN Scenarios : First + k < position => Scenarios[k] \in ran
  /\ final => mode # "script"
  /\ benchExit = 0 => FAILED = 0 /\ position = Len(program) /\ final

\* What the step at pc is.
LEMMA Kinds ==
  ASSUME LocalTypes
  PROVE  /\ program[position].kind = "scenario" =>
              \E k \in DOMAIN Scenarios : position = First + k /\ what = Scenarios[k]
         /\ program[position].kind = "end" <=> position = Len(program)
         /\ program[position].kind # "end" => position + 1 \in 1 .. Len(program)
<1>0. Len(program) \in Nat /\ position \in 1 .. Len(program)
  BY ProgramFacts DEF LocalTypes
<1>1. CASE position \in 1 .. First
  BY <1>0, <1>1, ProgramFacts
<1>2. CASE position = Len(program)
  BY <1>0, <1>2, ProgramFacts
<1>3. CASE position \notin 1 .. First /\ position # Len(program)
  <2>1. position - First \in DOMAIN Scenarios /\ position = First + (position - First)
    BY <1>0, <1>3, ProgramFacts
  <2>2. program[position].kind = "scenario" /\ what = Scenarios[position - First]
    BY <2>1, ProgramFacts DEF what
  <2>3. position + 1 \in 1 .. Len(program)
    BY <1>0, <1>3
  <2> QED
    BY <1>3, <2>1, <2>2, <2>3
<1> QED
  BY <1>1, <1>2, <1>3

\* The types hold.
LEMMA LocalTypesHold ==
  BenchSpec => []LocalTypes
<1>1. BenchInit => LocalTypes
  BY ProgramFacts DEF BenchInit, LocalTypes
<1>2. LocalTypes /\ [BenchNext]_benchVars => LocalTypes'
  <2> SUFFICES ASSUME LocalTypes, [BenchNext]_benchVars
               PROVE  LocalTypes'
    OBVIOUS
  <2> USE DEF Continue, ExitBench, bench
  <2>1. CASE RunProcess \/ List \/ wait_port
    BY <2>1, Kinds DEF LocalTypes, RunProcess, List, wait_port, At
  <2>2. CASE TimedOut \/ End
    BY <2>2 DEF LocalTypes, TimedOut, End
  <2>3. CASE Sane
    BY <2>3, Kinds DEF LocalTypes, Sane, At
  <2>4. CASE RunScenario
    <3>1. position' \in 1 .. Len(program) /\ mode' = mode
      BY <2>4, Kinds DEF RunScenario, At
    <3>2. what \in {Scenarios[k] : k \in DOMAIN Scenarios}
      BY <2>4, Kinds DEF RunScenario, At
    <3>3. FAILED' \in Nat /\ ran' \subseteq {Scenarios[k] : k \in DOMAIN Scenarios}
      BY <2>4, <3>2 DEF RunScenario, LocalTypes
    <3> QED
      BY <3>1, <3>3 DEF LocalTypes
  <2>5. CASE Term \/ Kill \/ Wait
    BY <2>5 DEF LocalTypes, Term, Kill, Wait
  <2>6. CASE Signal
    <3>1. position' \in 1 .. Len(program) /\ FAILED' \in Nat
      BY <2>6, Kinds DEF LocalTypes, Signal, At
    <3> QED
      BY <2>6, <3>1 DEF LocalTypes, Signal
  <2>7. ASSUME NEW p \in Processes, Listens(p) \/ Breaks(p) \/ Refused(p) \/ LeftoverGoes(p) PROVE LocalTypes'
    BY <2>7 DEF LocalTypes, Listens, Breaks, Refused, LeftoverGoes, Become
  <2>8. CASE UNCHANGED benchVars
    BY <2>8 DEF LocalTypes, benchVars
  <2> QED
    BY <2>1, <2>2, <2>3, <2>4, <2>5, <2>6, <2>7, <2>8 DEF BenchNext, ScriptStep
<1> QED
  BY <1>1, <1>2, PTL DEF BenchSpec

\* A step that is not of a scenario leaves the account of the scenarios as it is.
LEMMA NotAScenario ==
  ASSUME LocalTypes, program[position].kind # "scenario", position' = position \/ position' = position + 1,
         NEW k \in DOMAIN Scenarios, First + k < position'
  PROVE  First + k < position
<1>1. position # First + k
  BY ProgramFacts
<1>2. position \in Nat /\ First + k \in Nat
  BY ProgramFacts DEF LocalTypes
<1> QED
  BY <1>1, <1>2

\* A local benchmark that exits 0 has completed every scenario, whatever signals
\* it goes on after and whatever processes die: a scenario that fails or that a
\* signal hits is counted.
THEOREM ZeroIsComplete ==
  BenchSpec => []ExitZeroMeansAllRan
<1>1. BenchInit => ScenariosInv
  BY ProgramFacts, LocalAssumption DEF BenchInit, ScenariosInv
<1>2. LocalTypes /\ ScenariosInv /\ [BenchNext]_benchVars => ScenariosInv'
  <2> SUFFICES ASSUME LocalTypes, ScenariosInv, [BenchNext]_benchVars
               PROVE  ScenariosInv'
    OBVIOUS
  <2> USE DEF Continue, ExitBench, bench
  <2>1. CASE RunProcess \/ List \/ wait_port \/ Sane
    <3>1. /\ mode = "script" /\ program[position].kind # "scenario" /\ UNCHANGED <<FAILED, ran>>
          /\ position' = position \/ position' = position + 1
      BY <2>1 DEF RunProcess, List, wait_port, Sane, At
    <3>2. FAILED' = 0 => \A k \in DOMAIN Scenarios : First + k < position' => Scenarios[k] \in ran'
      BY <3>1, NotAScenario DEF ScenariosInv
    <3>3. /\ UNCHANGED <<final, benchExit>> \/ (final' /\ benchExit' = 1 /\ mode' = "term")
          /\ UNCHANGED mode \/ mode' = "term"
      BY <2>1 DEF RunProcess, List, wait_port, Sane
    <3> QED
      BY <3>1, <3>2, <3>3 DEF ScenariosInv
  <2>2. CASE TimedOut
    BY <2>2 DEF ScenariosInv, TimedOut
  <2>3. CASE RunScenario
    <3>1. PICK n \in DOMAIN Scenarios : position = First + n /\ what = Scenarios[n]
      BY <2>3, Kinds DEF RunScenario, At
    <3>2. FAILED' = 0 => FAILED = 0 /\ ran' = ran \cup {what}
      BY <2>3 DEF RunScenario, LocalTypes
    <3>3. \A k \in DOMAIN Scenarios : First + k < position' => First + k < position \/ k = n
      BY <2>3, <3>1, ProgramFacts DEF RunScenario, LocalTypes
    <3>4. FAILED' = 0 => \A k \in DOMAIN Scenarios : First + k < position' => Scenarios[k] \in ran'
      BY <3>1, <3>2, <3>3 DEF ScenariosInv
    <3> QED
      BY <2>3, <3>4 DEF ScenariosInv, RunScenario, At
  <2>4. CASE End
    BY <2>4, Kinds DEF ScenariosInv, End, At
  <2>5. CASE Term \/ Kill \/ Wait
    BY <2>5 DEF ScenariosInv, Term, Kill, Wait
  <2>6. CASE Signal
    <3>1. CASE UNCHANGED <<position, FAILED>>
      BY <2>6, <3>1 DEF ScenariosInv, Signal
    <3>2. CASE At("scenario") /\ FAILED' = FAILED + 1
      <4>1. FAILED' # 0 /\ benchExit' # 0
        BY <2>6, <3>2 DEF ScenariosInv, Signal, At, LocalTypes
      <4> QED
        BY <2>6, <4>1 DEF ScenariosInv, Signal
    <3> QED
      BY <2>6, <3>1, <3>2 DEF Signal
  <2>7. ASSUME NEW p \in Processes, Listens(p) \/ Breaks(p) \/ Refused(p) \/ LeftoverGoes(p) PROVE ScenariosInv'
    BY <2>7 DEF ScenariosInv, Listens, Breaks, Refused, LeftoverGoes, Become
  <2>8. CASE UNCHANGED benchVars
    BY <2>8 DEF ScenariosInv, benchVars
  <2> QED
    BY <2>1, <2>2, <2>3, <2>4, <2>5, <2>6, <2>7, <2>8 DEF BenchNext, ScriptStep
<1>3. LocalTypes /\ ScenariosInv => ExitZeroMeansAllRan
  <2> SUFFICES ASSUME LocalTypes, ScenariosInv, benchExit = 0
               PROVE  ran = {Scenarios[k] : k \in DOMAIN Scenarios}
    BY DEF ExitZeroMeansAllRan
  <2>1. \A k \in DOMAIN Scenarios : First + k < position
    BY ProgramFacts DEF ScenariosInv
  <2> QED
    BY <2>1 DEF LocalTypes, ScenariosInv
<1> QED
  BY <1>1, <1>2, <1>3, LocalTypesHold, PTL DEF BenchSpec

-----------------------------------------------------------------------------
(* The local benchmark comes to its end.                                   *)

\* Whatever a part of the program runs it lists in the step after, before the
\* part is over.
Paired(s) ==
  \A k \in 1 .. Len(s) : s[k].kind = "run" => k + 1 \in 1 .. Len(s) /\ s[k + 1] = Step("list", s[k].what)

\* Then so do two parts one after the other.
LEMMA PairedConcat ==
  ASSUME NEW S, NEW s \in Seq(S), NEW t \in Seq(S), Paired(s), Paired(t)
  PROVE  Paired(s \o t)
<1> DEFINE st == s \o t
<1>1. /\ Len(st) = Len(s) + Len(t) /\ Len(s) \in Nat /\ Len(t) \in Nat
      /\ \A k \in 1 .. Len(s) : st[k] = s[k]
      /\ \A k \in 1 .. Len(t) : st[Len(s) + k] = t[k]
  BY ConcatFacts
<1> HIDE DEF st
<1> SUFFICES ASSUME NEW k \in 1 .. Len(st), st[k].kind = "run"
             PROVE  k + 1 \in 1 .. Len(st) /\ st[k + 1] = Step("list", st[k].what)
  BY DEF Paired, st
<1>2. CASE k \in 1 .. Len(s)
  <2>1. k + 1 \in 1 .. Len(s) /\ s[k + 1] = Step("list", s[k].what)
    BY <1>1, <1>2 DEF Paired
  <2> QED
    BY <1>1, <1>2, <2>1
<1>3. CASE k \notin 1 .. Len(s)
  <2> DEFINE j == k - Len(s)
  <2>1. j \in 1 .. Len(t) /\ k = Len(s) + j /\ k + 1 = Len(s) + (j + 1)
    BY <1>1, <1>3
  <2> HIDE DEF j
  <2>2. j + 1 \in 1 .. Len(t) /\ t[j + 1] = Step("list", t[j].what)
    BY <1>1, <2>1 DEF Paired
  <2> QED
    BY <1>1, <2>1, <2>2
<1> QED
  BY <1>2, <1>3

\* So does the program: a process that runs is listed by the next step.
LEMMA RunIsListed ==
  ASSUME LocalTypes, program[position].kind = "run"
  PROVE  /\ position + 1 \in 1 .. Len(program)
         /\ program[position + 1] = Step("list", what)
<1>1. ASSUME NEW p \in Processes
      PROVE  /\ Started(p) \in Seq(BeforeSteps) /\ Paired(Started(p))
             /\ <<Step("wait", p)>> \in Seq(BeforeSteps) /\ Paired(<<Step("wait", p)>>)
  <2>1. Step("run", p) \in BeforeSteps /\ Step("list", p) \in BeforeSteps /\ Step("wait", p) \in BeforeSteps
    BY DEF Step, BeforeSteps
  <2>2. Paired(Started(p)) /\ Paired(<<Step("wait", p)>>)
    BY DEF Paired, Started, Step
  <2> HIDE DEF BeforeSteps, Step
  <2> QED
    BY <2>1, <2>2 DEF Started
<1>2. /\ <<Step("wait", "stub-small"), Step("wait", "stub-large")>> \in Seq(BeforeSteps)
      /\ Paired(<<Step("wait", "stub-small"), Step("wait", "stub-large")>>)
  <2>1. Step("wait", "stub-small") \in BeforeSteps /\ Step("wait", "stub-large") \in BeforeSteps
    BY DEF Step, BeforeSteps, Processes
  <2>2. Paired(<<Step("wait", "stub-small"), Step("wait", "stub-large")>>)
    BY DEF Paired, Step
  <2> HIDE DEF BeforeSteps, Step
  <2> QED
    BY <2>1, <2>2
<1>3. /\ <<Step("sane", "classified"), Step("sane", "steered")>> \in Seq(BeforeSteps)
      /\ Paired(<<Step("sane", "classified"), Step("sane", "steered")>>)
  <2>1. Step("sane", "classified") \in BeforeSteps /\ Step("sane", "steered") \in BeforeSteps
    BY DEF Step, BeforeSteps
  <2>2. Paired(<<Step("sane", "classified"), Step("sane", "steered")>>)
    BY DEF Paired, Step
  <2> HIDE DEF BeforeSteps, Step
  <2> QED
    BY <2>1, <2>2
<1> DEFINE Part(s) == s \in Seq(BeforeSteps) /\ Paired(s)
<1>4. ASSUME NEW s, NEW t, Part(s), Part(t) PROVE Part(s \o t)
  BY <1>4, PairedConcat, ConcatFacts
<1>5. /\ \A p \in Processes : Part(Started(p)) /\ Part(<<Step("wait", p)>>)
      /\ Part(<<Step("wait", "stub-small"), Step("wait", "stub-large")>>)
      /\ Part(<<Step("sane", "classified"), Step("sane", "steered")>>)
  BY <1>1, <1>2, <1>3
<1>6. {"stub-small", "stub-large", "llm-d-sc", "slow-classifier", "praxis"} = Processes
  BY DEF Processes
<1> HIDE DEF Part
<1>7. Part(Before)
  <2> DEFINE a == Started("stub-small") \o Started("stub-large")
             b == a \o <<Step("wait", "stub-small"), Step("wait", "stub-large")>>
             c == b \o Started("llm-d-sc")
             d == c \o <<Step("wait", "llm-d-sc")>>
             e == d \o Started("slow-classifier")
             f == e \o <<Step("wait", "slow-classifier")>>
             g == f \o Started("praxis")
             h == g \o <<Step("wait", "praxis")>>
             i == h \o <<Step("sane", "classified"), Step("sane", "steered")>>
  <2>0. Before = i
    BY DEF Before
  <2>1. Part(a) /\ Part(Started("llm-d-sc")) /\ Part(<<Step("wait", "llm-d-sc")>>)
        /\ Part(Started("slow-classifier")) /\ Part(<<Step("wait", "slow-classifier")>>)
        /\ Part(Started("praxis")) /\ Part(<<Step("wait", "praxis")>>)
    BY <1>4, <1>5, <1>6
  <2> HIDE DEF a
  <2>2. Part(b)
    BY <2>1, <1>4, <1>5
  <2> HIDE DEF b
  <2>3. Part(c)
    BY <2>1, <2>2, <1>4
  <2> HIDE DEF c
  <2>4. Part(d)
    BY <2>1, <2>3, <1>4
  <2> HIDE DEF d
  <2>5. Part(e)
    BY <2>1, <2>4, <1>4
  <2> HIDE DEF e
  <2>6. Part(f)
    BY <2>1, <2>5, <1>4
  <2> HIDE DEF f
  <2>7. Part(g)
    BY <2>1, <2>6, <1>4
  <2> HIDE DEF g
  <2>8. Part(h)
    BY <2>1, <2>7, <1>4
  <2> HIDE DEF h
  <2>9. Part(i)
    BY <2>8, <1>4, <1>5
  <2> HIDE DEF i
  <2> QED
    BY <2>0, <2>9
<1>8. position \in 1 .. First
  <2>1. position \in 1 .. Len(program) /\ Len(program) \in Nat
    BY ProgramFacts DEF LocalTypes
  <2>2. CASE position = Len(program)
    BY <2>2, ProgramFacts
  <2>3. CASE position \notin 1 .. First /\ position # Len(program)
    <3>1. position - First \in DOMAIN Scenarios /\ position = First + (position - First)
      BY <2>1, <2>3, ProgramFacts
    <3>2. program[position].kind = "scenario"
      BY <3>1, ProgramFacts
    <3> QED
      BY <3>2
  <2> QED
    BY <2>2, <2>3
<1>9. position + 1 \in 1 .. First /\ Before[position + 1] = Step("list", Before[position].what)
  <2>1. Before[position].kind = "run"
    BY <1>8, ProgramFacts
  <2> QED
    BY <1>7, <1>8, <2>1 DEF Part, Paired, First
<1> QED
  BY <1>8, <1>9, ProgramFacts DEF what

\* A benchmark that no signal has hit has listed whatever runs, but for a process
\* it has just run, before cleanup kills what is listed; and cleanup is its end.
ListedInv ==
  /\ signals \in Nat /\ status \in [Processes -> {"absent", "starting", "up", "hung", "gone"}]
  /\ signals = 0 =>
       /\ final <=> mode # "script"
       /\ mode = "script" => \A p \in Processes : Running(p) => p \in PIDS \/ (At("list") /\ p = what)
       /\ mode \in {"term", "kill"} => \A p \in Processes : Running(p) => p \in PIDS
       /\ mode \in {"wait", "exited"} => \A p \in Processes : ~Running(p)

\* How many steps the script has left at most.
StepsLeft ==
  [script |-> Len(program) - position + 4, term |-> 3, kill |-> 2, wait |-> 1, exited |-> 0][mode]

\* The step the script is at does not wait for a process: wait_port times out,
\* and the wait of cleanup has nothing to wait for.
NothingToWaitFor ==
  \/ mode = "script" /\ program[position].kind \in {"run", "list", "wait", "sane", "scenario", "end"}
  \/ mode \in {"term", "kill"}
  \/ mode = "wait" /\ \A p \in Processes : ~Running(p)

\* What a step of the script does before cleanup.
LEMMA ScriptGoesOn ==
  ASSUME LocalTypes, RunProcess \/ List \/ wait_port \/ TimedOut \/ Sane \/ RunScenario \/ End
  PROVE  /\ mode = "script" /\ UNCHANGED signals
         /\ \/ /\ UNCHANGED <<mode, final>> /\ position' = position + 1 /\ position' \in 1 .. Len(program)
            \/ mode' = "term" /\ final' = TRUE
<1> USE DEF Continue, ExitBench
<1>1. CASE RunProcess \/ List \/ wait_port \/ RunScenario
  BY <1>1, Kinds DEF RunProcess, List, wait_port, RunScenario, At
<1>2. CASE TimedOut \/ End
  BY <1>2 DEF TimedOut, End, At
<1>3. CASE Sane
  BY <1>3, Kinds DEF Sane, At
<1> QED
  BY <1>1, <1>2, <1>3

\* The invariant holds.
LEMMA ListedHolds == BenchSpec => []ListedInv
<1>1. BenchInit => ListedInv
  BY DEF BenchInit, ListedInv, Running
<1>2. LocalTypes /\ ListedInv /\ [BenchNext]_benchVars => ListedInv'
  <2> SUFFICES ASSUME LocalTypes, ListedInv, [BenchNext]_benchVars
               PROVE  ListedInv'
    OBVIOUS
  <2> USE DEF bench
  <2>1. CASE RunProcess
    <3>1. /\ At("run") /\ mode' = "script"
          /\ position' = position + 1 /\ UNCHANGED <<mode, final, PIDS, signals>>
          /\ status' = [status EXCEPT ![what] = "starting"]
      BY <2>1 DEF RunProcess, Continue, At
    <3>2. program[position'] = Step("list", what)
      BY <3>1, RunIsListed DEF At
    <3>3. At("list")' /\ what' = what
      BY <3>1, <3>2 DEF At, what, Step
    <3>4. status' \in [Processes -> {"absent", "starting", "up", "hung", "gone"}]
      BY <3>1 DEF ListedInv
    <3>5. ASSUME NEW p \in Processes, Running(p)', signals = 0 PROVE p \in PIDS \/ p = what
      BY <3>1, <3>5 DEF ListedInv, Running, At
    <3> QED
      BY <3>1, <3>3, <3>4, <3>5 DEF ListedInv, At
  <2>2. CASE List
    <3>1. /\ At("list") /\ PIDS' = PIDS \cup {what} /\ mode' = "script"
          /\ UNCHANGED <<mode, final, status, signals>>
      BY <2>2 DEF List, Continue, At
    <3>2. ASSUME NEW p \in Processes, Running(p)', signals = 0 PROVE p \in PIDS'
      BY <3>1, <3>2 DEF ListedInv, Running, At
    <3> QED
      BY <3>1, <3>2 DEF ListedInv
  <2>3. CASE wait_port \/ TimedOut \/ Sane \/ RunScenario \/ End
    <3>1. /\ mode = "script" /\ UNCHANGED signals
          /\ UNCHANGED <<mode, final>> \/ (mode' = "term" /\ final' = TRUE)
      BY <2>3, ScriptGoesOn
    <3>2. UNCHANGED <<PIDS, status>> /\ ~At("list")
      BY <2>3 DEF wait_port, TimedOut, Sane, RunScenario, End, Continue, ExitBench, At
    <3>3. ASSUME NEW p \in Processes, Running(p)', signals = 0 PROVE p \in PIDS'
      BY <3>1, <3>2, <3>3 DEF ListedInv, Running
    <3> QED
      BY <3>1, <3>2, <3>3 DEF ListedInv
  <2>4. CASE Term
    <3>1. PICK deaf \in SUBSET {p \in PIDS : Running(p)} :
            status' = [p \in Processes |->
              IF p \in PIDS /\ Running(p) THEN IF p \in deaf THEN "hung" ELSE "gone" ELSE status[p]]
      BY <2>4 DEF Term
    <3>2. status' \in [Processes -> {"absent", "starting", "up", "hung", "gone"}]
      BY <3>1 DEF ListedInv
    <3>3. mode = "term" /\ mode' = "kill" /\ UNCHANGED <<final, PIDS, signals>>
      BY <2>4 DEF Term
    <3>4. ASSUME NEW p \in Processes, Running(p)', signals = 0 PROVE p \in PIDS
      BY <3>1, <3>3, <3>4 DEF ListedInv, Running
    <3> QED
      BY <3>2, <3>3, <3>4 DEF ListedInv
  <2>5. CASE Kill
    <3>1. /\ mode = "kill" /\ mode' = "wait" /\ UNCHANGED <<final, PIDS, signals>>
          /\ status' = [p \in Processes |-> IF p \in PIDS /\ Running(p) THEN "gone" ELSE status[p]]
      BY <2>5 DEF Kill
    <3>2. status' \in [Processes -> {"absent", "starting", "up", "hung", "gone"}]
      BY <3>1 DEF ListedInv
    <3>3. ASSUME NEW p \in Processes, signals = 0 PROVE ~Running(p)'
      BY <3>1, <3>3 DEF ListedInv, Running
    <3> QED
      BY <3>1, <3>2, <3>3 DEF ListedInv
  <2>6. CASE Wait
    <3>1. /\ mode = "wait" /\ mode' = IF final THEN "exited" ELSE "script"
          /\ UNCHANGED <<final, PIDS, status, signals>>
      BY <2>6 DEF Wait
    <3>2. ASSUME signals = 0 PROVE mode' = "exited" /\ \A p \in Processes : ~Running(p)'
      BY <3>1, <3>2 DEF ListedInv, Running
    <3> QED
      BY <3>1, <3>2 DEF ListedInv
  <2>7. CASE Signal
    BY <2>7 DEF ListedInv, Signal
  <2>8. ASSUME NEW q \in Processes, Listens(q) \/ Breaks(q) \/ Refused(q) \/ LeftoverGoes(q) PROVE ListedInv'
    <3>1. UNCHANGED <<position, mode, final, PIDS, signals>>
      BY <2>8 DEF Listens, Breaks, Refused, LeftoverGoes, Become
    <3>2. /\ status' \in [Processes -> {"absent", "starting", "up", "hung", "gone"}]
          /\ \A p \in Processes : Running(p)' => Running(p)
      BY <2>8 DEF Listens, Breaks, Refused, LeftoverGoes, Become, ListedInv, Running
    <3> QED
      BY <3>1, <3>2 DEF ListedInv, At, what
  <2>9. CASE UNCHANGED benchVars
    BY <2>9 DEF ListedInv, benchVars, At, what, Running
  <2> QED
    BY <2>1, <2>2, <2>3, <2>4, <2>5, <2>6, <2>7, <2>8, <2>9 DEF BenchNext, ScriptStep
<1> QED
  BY <1>1, <1>2, LocalTypesHold, PTL DEF BenchSpec

\* A local benchmark that no signal hits gets nearer its end with every step of
\* the script, and nothing else takes it away from it; at no point is it stuck on
\* a process, be it hung and deaf to TERM; and when it has ended no process is
\* left.  With the fairness of FairBenchSpec this is BenchEnds.
THEOREM BenchGetsToItsEnd ==
  BenchSpec => /\ [][signals' = 0 => StepsLeft' <= StepsLeft /\ (ScriptStep => StepsLeft' < StepsLeft)]_benchVars
               /\ [](StepsLeft \in Nat /\ (StepsLeft = 0 <=> mode = "exited"))
               /\ [](signals = 0 /\ mode # "exited" => NothingToWaitFor)
               /\ [](signals = 0 /\ mode = "exited" => \A p \in Processes : ~Running(p))
<1>0. Len(program) \in Nat
  BY ProgramFacts
<1>1. LocalTypes /\ ListedInv /\ [BenchNext]_benchVars =>
        [signals' = 0 => StepsLeft' <= StepsLeft /\ (ScriptStep => StepsLeft' < StepsLeft)]_benchVars
  <2> SUFFICES ASSUME LocalTypes, ListedInv, BenchNext, signals' = 0
               PROVE  StepsLeft' <= StepsLeft /\ (ScriptStep => StepsLeft' < StepsLeft)
    OBVIOUS
  <2>0. position \in 1 .. Len(program)
    BY DEF LocalTypes
  <2>1. ASSUME RunProcess \/ List \/ wait_port \/ TimedOut \/ Sane \/ RunScenario \/ End
        PROVE  StepsLeft' < StepsLeft /\ StepsLeft' <= StepsLeft
    <3>1. mode = "script" /\ ((mode' = "script" /\ position' = position + 1) \/ mode' = "term")
      BY <2>1, ScriptGoesOn, Zenon
    <3>2. StepsLeft = Len(program) - position + 4
      BY <3>1 DEF StepsLeft
    <3>3. CASE mode' = "script" /\ position' = position + 1
      <4>1. StepsLeft' = Len(program) - (position + 1) + 4
        BY <3>3 DEF StepsLeft
      <4> QED
        BY <1>0, <2>0, <3>2, <4>1
    <3>4. CASE mode' = "term"
      <4>1. StepsLeft' = 3
        BY <3>4 DEF StepsLeft
      <4> QED
        BY <1>0, <2>0, <3>2, <4>1
    <3> QED
      BY <3>1, <3>3, <3>4
  <2>2. ASSUME Term \/ Kill \/ Wait PROVE StepsLeft' < StepsLeft /\ StepsLeft' <= StepsLeft
    <3>1. signals = 0
      BY <2>2 DEF Term, Kill, Wait
    <3>2. CASE Term
      BY <3>2 DEF Term, StepsLeft
    <3>3. CASE Kill
      BY <3>3 DEF Kill, StepsLeft
    <3>4. CASE Wait
      <4>1. mode = "wait" /\ mode' = "exited"
        BY <3>1, <3>4 DEF Wait, ListedInv
      <4> QED
        BY <4>1 DEF StepsLeft
    <3> QED
      BY <2>2, <3>2, <3>3, <3>4
  <2>3. ~Signal
    BY DEF Signal, ListedInv
  <2>4. ASSUME NEW p \in Processes, Listens(p) \/ Breaks(p) \/ Refused(p) \/ LeftoverGoes(p) PROVE StepsLeft' = StepsLeft
    BY <2>4 DEF Listens, Breaks, Refused, LeftoverGoes, Become, bench, StepsLeft
  <2>5. StepsLeft \in Nat
    BY <1>0, <2>0 DEF LocalTypes, StepsLeft
  <2>6. ScriptStep => StepsLeft' < StepsLeft /\ StepsLeft' <= StepsLeft
    BY <2>1, <2>2 DEF ScriptStep
  <2> QED
    BY <2>3, <2>4, <2>5, <2>6 DEF BenchNext
<1>2. LocalTypes => StepsLeft \in Nat /\ (StepsLeft = 0 <=> mode = "exited")
  BY <1>0 DEF LocalTypes, StepsLeft
<1>3. LocalTypes /\ ListedInv => (signals = 0 /\ mode # "exited" => NothingToWaitFor)
  <2> SUFFICES ASSUME LocalTypes, ListedInv, signals = 0, mode # "exited"
               PROVE  NothingToWaitFor
    OBVIOUS
  <2>1. program[position].kind \in {"run", "list", "wait", "sane", "scenario", "end"}
    <3>1. position \in 1 .. Len(program)
      BY DEF LocalTypes
    <3>2. CASE position \in 1 .. First
      BY <3>2, ProgramFacts
    <3>3. CASE position = Len(program)
      BY <3>3, ProgramFacts
    <3>4. CASE position \notin 1 .. First /\ position # Len(program)
      <4>1. position - First \in DOMAIN Scenarios /\ position = First + (position - First)
        BY <1>0, <3>1, <3>4, ProgramFacts
      <4>2. program[position].kind = "scenario"
        BY <4>1, ProgramFacts
      <4> QED
        BY <4>2
    <3> QED
      BY <3>2, <3>3, <3>4
  <2> QED
    BY <2>1 DEF LocalTypes, ListedInv, NothingToWaitFor
<1>4. ListedInv => (signals = 0 /\ mode = "exited" => \A p \in Processes : ~Running(p))
  BY DEF ListedInv
<1> QED
  BY <1>1, <1>2, <1>3, <1>4, LocalTypesHold, ListedHolds, PTL DEF BenchSpec

=============================================================================
