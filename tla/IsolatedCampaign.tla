-------------------------- MODULE IsolatedCampaign --------------------------
(***************************************************************************)
(* What an arm of bench/b5r_isolated.py promises to who reads its file,    *)
(* with no backend, counter or other tenant in sight: a log of attempts    *)
(* that only grows, each in its turn and none above the budget; that calls *)
(* isolated none that was not; and a verdict that is true of the log,      *)
(* however often the script was stopped on the way.                        *)
(***************************************************************************)
EXTENDS Naturals, Sequences, FiniteSets

CONSTANTS
  Target,       \* isolated observations wanted
  MaxAttempts,  \* attempts allowed
  Prompts       \* number of prompts, taken in turn

VARIABLES
  mode,  \* "stopped", "running" or the verdict: "ok" or "inconclusive"
  log    \* the attempts so far

campaignVars == <<mode, log>>

IsolatedSoFar == Cardinality({k \in DOMAIN log : log[k].isolated})

\* There is something left to find and an attempt left to find it with.
Wanted == IsolatedSoFar < Target /\ Len(log) < MaxAttempts

Init == mode = "stopped" /\ log = << >>

Start == mode = "stopped" /\ mode' = "running" /\ UNCHANGED log

Stop == mode = "running" /\ mode' = "stopped" /\ UNCHANGED log

\* An attempt comes to its end.  Whether it was alone on the backend is not for
\* the arm to choose, nor whether the backend restarted meanwhile; what it calls
\* isolated was alone, but for a restart, which it cannot see.
Observe ==
  /\ mode = "running" /\ Wanted
  /\ \E isolated, alone, reset \in BOOLEAN :
       /\ isolated => alone \/ reset
       /\ log' = Append(log, [attempt |-> Len(log), prompt |-> Len(log) % Prompts,
                              isolated |-> isolated, alone |-> alone, reset |-> reset])
  /\ UNCHANGED mode

Conclude ==
  /\ mode = "running" /\ ~Wanted
  /\ mode' = IF IsolatedSoFar >= Target THEN "ok" ELSE "inconclusive"
  /\ UNCHANGED log

Next == Start \/ Stop \/ Observe \/ Conclude

Spec == Init /\ [][Next]_campaignVars

\* An arm that is not stopped goes on to its verdict.
FairSpec == Spec /\ WF_campaignVars(Observe) /\ WF_campaignVars(Conclude)

=============================================================================
