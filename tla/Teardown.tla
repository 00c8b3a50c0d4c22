------------------------------ MODULE Teardown ------------------------------
(***************************************************************************)
(* hack/teardown-cluster.sh, run after hack/deploy-cluster.sh and before   *)
(* the next run of it: deletes the namespace praxis-poc, waits until it is *)
(* gone or a deadline has passed, and compares the namespaces that are     *)
(* off-limits with the baseline of before the first deploy.  It can be     *)
(* declined, interrupted, or ended by a call of oc that fails.             *)
(***************************************************************************)
EXTENDS DeployCluster

CONSTANT MaxTeardowns  \* bound: how often it is run

ASSUME TeardownAssumption == MaxTeardowns \in Nat

VARIABLES
  step,       \* the next step of the teardown
  late,       \* its deadline has passed
  verdict,    \* "clean", "failed", None without one
  teardowns,
  origin,     \* history: protected when praxis-poc was created, None before
  renewed     \* history: a deploy was told to renew the baseline since then

teardown == <<step, late, verdict, teardowns>>
history == <<origin, renewed>>
vars == <<deployVars, teardown, history>>

Init ==
  /\ DeployInit
  /\ step = "exited" /\ late = FALSE /\ verdict = None /\ teardowns = 0
  /\ origin = None /\ renewed = FALSE

Teardown ==
  /\ step = "exited" /\ pc = "exited" /\ teardowns < MaxTeardowns
  /\ teardowns' = teardowns + 1
  /\ step' = "preflight" /\ late' = FALSE /\ verdict' = None
  /\ UNCHANGED <<deployVars, history>>

\* Without a baseline there is nothing to verify against.
Confirm ==
  /\ step = "preflight" /\ baseline # None
  /\ step' = "delete"
  /\ UNCHANGED <<deployVars, late, verdict, teardowns, history>>

\* No login, no baseline, not confirmed, a signal, or a call that fails.
Stops ==
  /\ step # "exited"
  /\ step' = "exited"
  /\ UNCHANGED <<deployVars, late, verdict, teardowns, history>>

\* A call of oc fails and its failure is taken for an answer.
Overlooks == ignored < MaxIgnored /\ ignored' = ignored + 1

\* A namespace that oc get does not find is taken to be gone already, and an
\* oc delete that fails, or does not see the end of it, goes on to the wait.
Delete ==
  /\ step = "delete" /\ step' = "wait"
  /\ \/ namespace' = "terminating" /\ namespace # "absent" /\ UNCHANGED ignored
     \/ namespace = "absent" /\ UNCHANGED <<namespace, ignored>>
     \/ UNCHANGED namespace /\ Overlooks
  /\ UNCHANGED <<script, cluster, image, protected, baseline, runs, lost, interrupts>>
  /\ UNCHANGED <<late, verdict, teardowns, history>>

\* A bug to catch: the namespace is looked for once.
BugAwait ==
  /\ step = "wait" /\ step' = "verify"
  /\ UNCHANGED <<script, cluster, around, bounds, late, verdict, teardowns, history>>

\* The loop ends when oc get does not find the namespace, because it is gone or
\* because oc fails, or at the deadline.
Await ==
  /\ step = "wait" /\ step' = "verify"
  /\ \/ namespace = "absent" /\ UNCHANGED <<ignored, late>>
     \/ Overlooks /\ UNCHANGED late
     \/ namespace # "absent" /\ late' = TRUE /\ UNCHANGED ignored
  /\ UNCHANGED <<script, cluster, around, runs, lost, interrupts, verdict, teardowns, history>>

\* FAILED starts at 0 here, whatever the wait has seen; a snapshot that cannot be
\* taken is a failure.
Verify ==
  /\ step = "verify" /\ step' = "exited"
  /\ verdict' \in {"failed"} \cup (IF protected = baseline THEN {"clean"} ELSE {})
  /\ UNCHANGED <<deployVars, late, teardowns, history>>

\* A step of the deploy, with its history.
Deploy ==
  /\ step = "exited" /\ DeploySteps
  /\ IF namespace = "absent" /\ namespace' = "present"
       THEN origin' = protected /\ renewed' = FALSE
       ELSE /\ renewed' = (renewed \/ (pc = "preflight" /\ options.refresh))
            /\ UNCHANGED origin
  /\ UNCHANGED teardown

Cluster == ClusterSteps /\ UNCHANGED <<teardown, history>>

Next ==
  \/ Deploy \/ Cluster
  \/ Teardown \/ Confirm \/ Stops \/ Delete \/ Await \/ Verify

Spec == Init /\ [][Next]_vars

-----------------------------------------------------------------------------
(* Properties.                                                             *)

\* A teardown that reports itself clean is one after which nothing outside
\* praxis-poc differs from what was there when praxis-poc was created, however many
\* deploys came in between, were cut off or failed, unless one of them was told to
\* renew the baseline; and praxis-poc is gone, unless its deadline had passed or
\* a call of oc whose failure the script takes for an answer had failed.
CleanMeansUndone ==
  [][verdict # "clean" /\ verdict' = "clean" =>
       /\ origin = None \/ renewed \/ protected = origin
       /\ late \/ ignored > 0 \/ namespace = "absent"]_vars

=============================================================================
