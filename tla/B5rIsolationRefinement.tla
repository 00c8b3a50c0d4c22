----------------------- MODULE B5rIsolationRefinement -----------------------
(***************************************************************************)
(* B5rIsolation implements IsolatedCampaign: an attempt is on the log when *)
(* it is on file, and the verdict is the one run_arm prints from its own   *)
(* counter.                                                                *)
(***************************************************************************)
EXTENDS B5rIsolation

Entry(rec) ==
  [attempt |-> rec.attempt, prompt |-> rec.prompt, isolated |-> rec.isolated,
   alone |-> Alone(rec.intruded), reset |-> rec.reset]

ModeOf ==
  IF pc = "stopped" THEN "stopped"
  ELSE IF pc # "concluded" THEN "running"
  ELSE IF isolated < Target THEN "inconclusive" ELSE "ok"

Campaign ==
  INSTANCE IsolatedCampaign
    WITH mode <- ModeOf, log <- [k \in DOMAIN checkpoint |-> Entry(checkpoint[k])]

\* The arm keeps its promise, whatever other tenants do and however often the
\* script and the backend are restarted: the file only grows, attempt by attempt
\* in their order and within the budget, with isolated on what was alone; the
\* verdict, which comes from a counter of the script's, is true of the file; and
\* an arm that is not stopped comes to it.
ImplementsCampaign == Campaign!FairSpec

=============================================================================
