--------------------------- MODULE DeployCluster ----------------------------
(***************************************************************************)
(* hack/deploy-cluster.sh: deploys the proof of concept into its namespace *)
(* and verifies it rung by rung.  The fail-open rung points the live       *)
(* configuration at a dead classifier endpoint and has to put it back,     *)
(* whatever happens in between.  The script runs under set -e; calls of    *)
(* oc may fail, and the user may interrupt it.  The cluster (external)     *)
(* rolls pods out in its own time: a pod reads the ConfigMap as it starts. *)
(* Before all that the script takes the baseline hack/teardown-cluster.sh  *)
(* compares with (module Teardown, which states the specification).        *)
(***************************************************************************)
EXTENDS Naturals, FiniteSets

CONSTANTS
  MaxRuns,        \* bound: how often the script is run
  MaxLost,        \* bound: calls of oc that fail and end the script
  MaxIgnored,     \* bound: calls of oc whose failure the script ignores
  MaxInterrupts,  \* bound: how often it is interrupted
  MaxChanges,     \* bound: changes in the namespaces that are off-limits
  Empty,          \* a snapshot file without content
  None

ASSUME DeployAssumption ==
  /\ {MaxRuns, MaxLost, MaxIgnored, MaxInterrupts, MaxChanges} \subseteq Nat
  /\ Empty \notin Nat \cup {None} /\ None \notin Nat \cup {"clean", "failed"}

Configs == {"real", "dead"}  \* by classifier endpoint

\* --config (classifier-down is the dead one), --prepare-only, --skip-failopen,
\* --refresh-snapshot.
Options == [config : Configs, prepare : BOOLEAN, skip : BOOLEAN, refresh : BOOLEAN]

VARIABLES
  pc,         \* the script's next step
  options,
  failed,     \* FAIL_COUNT > 0
  trapped,    \* restore_config is the trap of EXIT, INT and TERM
  verifying,  \* history: the run has come to the V-5 rung or past it
  exitCode,   \* of the last run, None while it runs
  namespace,  \* praxis-poc: "absent", "present" or "terminating"
  image,      \* the image has been built
  configmap,  \* praxis-config, None before the first deploy
  pod,        \* the configuration the ready pod runs with, None if there is none
  rolling,    \* a rollout is under way
  protected,  \* the state of llm-d-sc and homelab-maas, by version
  baseline,   \* pre-deploy-state.json: the version it holds, Empty, None without it
  runs, lost, ignored, interrupts

script == <<pc, options, failed, trapped, verifying, exitCode>>
cluster == <<configmap, pod, rolling>>
around == <<namespace, image, protected, baseline>>
bounds == <<runs, lost, ignored, interrupts>>
deployVars == <<script, cluster, around, bounds>>

DeployInit ==
  /\ pc = "exited"
  /\ options = [config |-> "real", prepare |-> FALSE, skip |-> FALSE, refresh |-> FALSE]
  /\ failed = FALSE /\ trapped = FALSE /\ verifying = FALSE
  /\ exitCode = None
  /\ namespace = "absent" /\ image = FALSE
  /\ protected = 0 /\ baseline \in {None, 0}
  /\ configmap = None /\ pod = None /\ rolling = FALSE
  /\ runs = 0 /\ lost = 0 /\ ignored = 0 /\ interrupts = 0

Run ==
  /\ pc = "exited" /\ runs < MaxRuns
  /\ runs' = runs + 1
  /\ options' \in Options
  /\ pc' = "preflight" /\ exitCode' = None
  /\ failed' = FALSE /\ trapped' = FALSE /\ verifying' = FALSE
  /\ UNCHANGED <<cluster, around, lost, ignored, interrupts>>

\* restore_config: apply, then restart; what fails is ignored.
RestoreWith(a, r) ==
  /\ configmap' = IF a THEN options.config ELSE configmap
  /\ rolling' = (rolling \/ r)

\* Calls that fail while the namespace is there are counted against a bound.
Ignoring(n) ==
  /\ ignored' = ignored + (IF namespace = "present" THEN n ELSE 0)
  /\ ignored' <= MaxIgnored

Restore ==
  /\ \E a, r \in BOOLEAN :
       /\ namespace = "absent" => ~a /\ ~r
       /\ RestoreWith(a, r)
       /\ Ignoring((IF a THEN 0 ELSE 1) + (IF r THEN 0 ELSE 1))
  /\ UNCHANGED pod

\* A bug to catch: the trap is set for signals only.
BugExit(rc) ==
  /\ pc' = "exited" /\ exitCode' = rc /\ trapped' = FALSE
  /\ UNCHANGED <<cluster, ignored>>

\* The script ends; the trap of EXIT runs if it is set.
Exit(rc) ==
  /\ pc' = "exited" /\ exitCode' = rc /\ trapped' = FALSE
  /\ IF trapped THEN Restore ELSE UNCHANGED <<cluster, ignored>>

\* set -e: a call that fails ends the script.  Calls into a namespace that is
\* going away may fail, into one that is gone they do.
Fails(step) ==
  /\ pc = step
  /\ lost' = lost + (IF namespace = "present" THEN 1 ELSE 0) /\ lost' <= MaxLost
  /\ Exit(1)
  /\ UNCHANGED <<options, failed, verifying, around, runs, interrupts>>

Goto(step) == pc' = step

\* A bug to catch: every deploy takes a baseline.
BugCaptures == TRUE

\* The baseline describes the cluster before the first deploy: it is taken once,
\* unless a run is told to take it again.
Captures == baseline = None \/ options.refresh

Preflight ==
  /\ pc = "preflight" /\ Goto("apply")
  /\ baseline' = IF Captures THEN protected ELSE baseline
  /\ UNCHANGED <<options, failed, trapped, verifying, exitCode, cluster, namespace, image, protected, bounds>>

\* The snapshot is cut off after the shell has emptied its file.
CaptureCut ==
  /\ pc = "preflight" /\ Captures /\ interrupts < MaxInterrupts
  /\ interrupts' = interrupts + 1
  /\ baseline' = Empty
  /\ pc' = "exited" /\ exitCode' = 1
  /\ UNCHANGED <<options, failed, trapped, verifying, cluster, namespace, image, protected, runs, lost, ignored>>

\* oc apply -k: the namespace first; one that is terminating stays so.
ApplyNamespace ==
  /\ pc = "apply" /\ Goto("manifests")
  /\ namespace' = IF namespace = "absent" THEN "present" ELSE namespace
  /\ UNCHANGED <<options, failed, trapped, verifying, exitCode, cluster, image, protected, baseline, bounds>>

\* The rest of it sets the ConfigMap to the default, and a Deployment that is new
\* or changed rolls out.
Apply ==
  /\ pc = "manifests" /\ namespace # "absent" /\ Goto("config")
  /\ configmap' = "real"
  /\ rolling' \in {rolling, TRUE}
  /\ UNCHANGED <<options, failed, trapped, verifying, exitCode, pod, around, bounds>>

SetConfig ==
  /\ pc = "config" /\ namespace # "absent" /\ Goto("credential")
  /\ configmap' = options.config
  /\ UNCHANGED <<options, failed, trapped, verifying, exitCode, pod, rolling, around, bounds>>

Credential ==
  /\ pc = "credential" /\ namespace # "absent" /\ Goto("image")
  /\ UNCHANGED <<options, failed, trapped, verifying, exitCode, cluster, around, bounds>>

\* Without an image, or with --prepare-only, that is all; a question for the
\* image that fails is taken for no image.
Image ==
  /\ pc = "image"
  /\ \/ (~image \/ options.prepare) /\ Exit(0) /\ UNCHANGED lost
     \/ lost < MaxLost /\ lost' = lost + 1 /\ Exit(0)
     \/ /\ image /\ ~options.prepare
        /\ Goto("restart")
        /\ UNCHANGED <<exitCode, trapped, cluster, ignored, lost>>
  /\ UNCHANGED <<options, failed, verifying, around, runs, interrupts>>

Restart ==
  /\ pc = "restart" /\ namespace # "absent" /\ Goto("status")
  /\ rolling' = TRUE
  /\ UNCHANGED <<options, failed, trapped, verifying, exitCode, configmap, pod, around, bounds>>

\* rollout status: done, or a failed rung.
Status ==
  /\ pc = "status" /\ Goto("ladder")
  /\ \/ ~rolling /\ pod # None /\ UNCHANGED failed
     \/ failed' = TRUE
  /\ UNCHANGED <<options, trapped, verifying, exitCode, cluster, around, bounds>>

\* V-1 to V-4 and V-6: each passes, fails or is skipped.  Then the trap is set
\* for V-5, unless that is skipped or there is no route, as without a namespace.
Ladder ==
  /\ pc = "ladder"
  /\ failed' \in (IF pod = None THEN {TRUE} ELSE {failed, TRUE})
  /\ verifying' = TRUE
  /\ \/ Goto("blast_radius") /\ UNCHANGED trapped
     \/ ~options.skip /\ namespace # "absent" /\ Goto("dead_endpoint") /\ trapped' = TRUE
  /\ UNCHANGED <<options, exitCode, cluster, around, bounds>>

DeadEndpoint ==
  /\ pc = "dead_endpoint" /\ namespace # "absent" /\ Goto("dead_restart")
  /\ configmap' = "dead"
  /\ UNCHANGED <<options, failed, trapped, verifying, exitCode, pod, rolling, around, bounds>>

DeadRestart ==
  /\ pc = "dead_restart" /\ namespace # "absent" /\ Goto("ask")
  /\ rolling' = TRUE
  /\ UNCHANGED <<options, failed, trapped, verifying, exitCode, configmap, pod, around, bounds>>

\* The rung passes if the request was answered without a classification; the
\* real classifier is taken to be up, so the pod must be the one without.
Ask ==
  /\ pc = "ask" /\ Goto("restore")
  /\ \/ pod = "dead" /\ UNCHANGED failed
     \/ failed' = TRUE
  /\ UNCHANGED <<options, trapped, verifying, exitCode, cluster, around, bounds>>

RestoreConfig ==
  /\ pc = "restore" /\ Goto("check")
  /\ Restore
  /\ trapped' = FALSE
  /\ UNCHANGED <<options, failed, verifying, exitCode, around, runs, lost, interrupts>>

\* grep -c on the ConfigMap read back: a read that fails counts no line.
Check ==
  /\ pc = "check" /\ Goto("blast_radius")
  /\ \E readable \in BOOLEAN :
       /\ namespace = "absent" => ~readable
       /\ Ignoring(IF readable THEN 0 ELSE 1)
       /\ failed' = (failed \/ (readable /\ configmap = "dead"))
  /\ UNCHANGED <<options, trapped, verifying, exitCode, cluster, around, runs, lost, interrupts>>

\* The comparison with the baseline: a snapshot that fails leaves its file empty.
BlastRadius ==
  /\ pc = "blast_radius" /\ Goto("summary")
  /\ \E snapshot \in {protected, Empty} :
       /\ Ignoring(IF snapshot = Empty THEN 1 ELSE 0)
       /\ failed' = (failed \/ snapshot # baseline)
  /\ UNCHANGED <<options, trapped, verifying, exitCode, cluster, around, runs, lost, interrupts>>

Summary ==
  /\ pc = "summary"
  /\ Exit(IF failed THEN 1 ELSE 0)
  /\ UNCHANGED <<options, failed, verifying, around, runs, lost, interrupts>>

\* A signal: without the trap it ends the script; with it restore_config runs
\* and the script goes on, unless the command it hit ends it under set -e.
Interrupt ==
  /\ pc # "exited" /\ interrupts < MaxInterrupts
  /\ interrupts' = interrupts + 1
  /\ \/ Exit(130)
     \/ trapped /\ Restore /\ UNCHANGED <<pc, exitCode, trapped>>
  /\ UNCHANGED <<options, failed, verifying, around, runs, lost>>

-----------------------------------------------------------------------------
(* The cluster (external).                                                 *)

RolloutCompletes ==
  /\ rolling /\ image /\ namespace = "present"
  /\ rolling' = FALSE
  /\ pod' = configmap
  /\ UNCHANGED <<script, configmap, around, bounds>>

Built ==
  /\ ~image /\ namespace = "present"
  /\ image' = TRUE
  /\ UNCHANGED <<script, cluster, namespace, protected, baseline, bounds>>

\* The deletion of the namespace ends, in its own time, with all it held.
Deleted ==
  /\ namespace = "terminating"
  /\ namespace' = "absent" /\ image' = FALSE
  /\ configmap' = None /\ pod' = None /\ rolling' = FALSE
  /\ UNCHANGED <<script, protected, baseline, bounds>>

\* Somebody changes a namespace that is off-limits; no state of it comes back.
OutsideChanges ==
  /\ protected < MaxChanges
  /\ protected' = protected + 1
  /\ UNCHANGED <<script, cluster, namespace, image, baseline, bounds>>

DeploySteps ==
  \/ Run
  \/ Preflight \/ CaptureCut \/ ApplyNamespace \/ Apply \/ SetConfig \/ Credential
  \/ Image \/ Restart \/ Status \/ Ladder
  \/ DeadEndpoint \/ DeadRestart \/ Ask \/ RestoreConfig \/ Check \/ BlastRadius \/ Summary
  \/ \E step \in {"preflight", "apply", "manifests", "config", "credential", "restart",
                  "ladder", "dead_endpoint", "dead_restart"} : Fails(step)
  \/ Interrupt

ClusterSteps == RolloutCompletes \/ Built \/ Deleted \/ OutsideChanges

-----------------------------------------------------------------------------
(* Properties.                                                             *)

Serving == configmap = options.config /\ (pod = options.config \/ rolling)

\* However a run that came to the fail-open rung ends, by itself, by a call that
\* fails or by a signal at any step, the deployment runs with the configuration
\* it was asked for, or is being rolled out to it; unless a call of oc failed
\* whose failure the script ignores, or a teardown is taking all of it away.
NeverLeftDead ==
  pc = "exited" /\ verifying /\ ignored = 0 /\ namespace = "present" => Serving

=============================================================================
