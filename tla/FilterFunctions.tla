--------------------------- MODULE FilterFunctions ---------------------------
(***************************************************************************)
(* The pure functions of the filter, called once with every input of an    *)
(* instance: from_config when it is built, extract_prompt and              *)
(* truncate_chars on a request body, decide on a classify outcome.  The    *)
(* properties compare each with what is promised of it, decide with the    *)
(* decision table of SPEC section 4.6 as RoutingContract states it.        *)
(***************************************************************************)
EXTENDS Decision, FiniteSets

CONSTANTS
  Policies,       \* validated configurations, Outcomes: what decide is given
  Outcomes,
  RawConfigs,     \* the configurations an operator may write
  Bodies,         \* the request bodies to consider
  Chars, Width, Space, Newline, MaxPromptChars,  \* see PromptExtraction
  MaxBodyBytes    \* see FilterConfig

ASSUME FunctionsAssumption ==
  /\ Policies \subseteq Config /\ Outcomes \subseteq Outcome
  /\ Space \subseteq Chars /\ Newline \in Space
  /\ \A c \in Chars : Width[c] \in 1 .. 4
  /\ MaxPromptChars \in Nat \ {0} /\ MaxBodyBytes \in Nat \ {0} /\ None \notin Nat

\* The routes an operator writes are a list.
ASSUME RawAssumption ==
  \A c \in RawConfigs : Len(c.routes) \in Nat /\ DOMAIN c.routes = 1 .. Len(c.routes)

Startup == INSTANCE FilterConfig
Prompt == INSTANCE PromptExtraction

\* What serde_json parses: an object has its fields, an array is a list.
ASSUME BodiesAssumption ==
  \A b \in Bodies : b.kind = "object" => b \in [kind : {"object"}, object : Prompt!Objects]

VARIABLES call, returned

functionVars == <<call, returned>>

Table == INSTANCE RoutingContract
           WITH Requests <- {}, Configs <- Policies, Evidence <- Outcomes, config <- call.config,
                evidence <- << >>, verdict <- << >>

FunctionsInit ==
  /\ call \in [fn : {"decide"}, config : Policies, outcome : Outcomes]
                \cup [fn : {"extract"}, body : Bodies]
                \cup [fn : {"from_config"}, raw : RawConfigs]
  /\ returned = None

Decide ==
  /\ call.fn = "decide"
  /\ returned' = decide(call.config, call.outcome)

Extract ==
  /\ call.fn = "extract"
  /\ returned' = [prompt |-> Prompt!extract_prompt(call.body), context |-> Prompt!Context(call.body)]

FromConfig ==
  /\ call.fn = "from_config"
  /\ returned' = Startup!from_config(call.raw)

FunctionsNext == returned = None /\ UNCHANGED call /\ (Decide \/ Extract \/ FromConfig)

FunctionsSpec == FunctionsInit /\ [][FunctionsNext]_functionVars

Returned(fn) == returned # None /\ call.fn = fn

-----------------------------------------------------------------------------
(* decide.                                                                 *)

Ranked ==
  /\ call.outcome.kind = "Response" /\ call.outcome.status = "OK"
  /\ call.outcome.ranked # << >>

\* The route is one the rows of SPEC 4.6 permit for the outcome, unless its
\* best score is a NaN.
TableHolds ==
  Returned("decide") /\ returned.score \notin NaNs => Table!Permitted(call.outcome, returned.route)

\* What is recorded explains the route, which is rejection or a cluster the
\* filter declared to Praxis (selected_clusters): a status of OK, and nothing
\* else, stands for a mapped cluster; label and score are those of one best
\* signal, revisions those of a response, and absent without one.  A NaN wins
\* over every score and is not below any threshold: f32::total_cmp ranks it
\* first, and `score < min_score` is false for it.
RecordExplainsRoute ==
  Returned("decide") =>
    /\ returned.route \in all_clusters(call.config) \cup {Reject}
    /\ returned.status = "OK" <=>
         Ranked /\ returned.route = call.config.routes[returned.label]
                /\ (returned.score \in NaNs \/ returned.score >= call.config.min_score)
    /\ IF Ranked
       THEN [label |-> returned.label, score |-> returned.score]
              \in Table!BestSignals(call.outcome.ranked)
       ELSE returned.label = None /\ returned.score = None
    /\ (returned.provenance # None) <=> call.outcome.kind = "Response"

-----------------------------------------------------------------------------
(* extract_prompt and truncate_chars.                                      *)

\* The context sent to the classifier is the trimmed prompt up to
\* max_prompt_chars characters (T-U4): a cut falls between characters, and
\* what it leaves is not white space only.
ContextIsThePrompt ==
  Returned("extract") /\ returned.prompt # None =>
    LET kept == IF Len(returned.prompt) < MaxPromptChars THEN Len(returned.prompt) ELSE MaxPromptChars
    IN  /\ returned.context = Prompt!bytes(SubSeq(returned.prompt, 1, kept))
        /\ returned.context # << >> /\ returned.context[1][1] \notin Space
        /\ returned.prompt[Len(returned.prompt)] \notin Space

\* Turns of the assistant or the system after the last user turn, and all
\* turns before it, have no influence; nor do prompt and input once that
\* turn has a text of its own, even a blank one.
LastUserTurnDecides ==
  Returned("extract") /\ call.body.kind = "object" /\ call.body.object.messages.kind = "array" =>
    LET turns == call.body.object.messages.items
        users == {i \in DOMAIN turns : turns[i].user}
        Only(turn) == [call.body EXCEPT !.object.messages = Prompt!Arr(<<turn>>)]
        Alone(b) == [b EXCEPT !.object.prompt = Prompt!Absent, !.object.input = Prompt!Absent]
    IN  \A k \in users :
          (\A i \in users : i <= k) =>
            /\ returned.prompt = Prompt!extract_prompt(Only(turns[k]))
            /\ Prompt!content_text(turns[k].content) # None =>
                 returned.prompt = Prompt!extract_prompt(Alone(Only(turns[k])))

-----------------------------------------------------------------------------
(* from_config.                                                            *)

Built == Returned("from_config") /\ returned.built

\* The tables are what the operator wrote: no route is shadowed by another
\* with the same label, and Praxis is told every cluster a decision may name,
\* the default first and included, each once (check_misaligned_clusters, T-U2).
TablesMatchTheConfig ==
  Built => LET told == returned.clusters IN
    /\ \A i \in DOMAIN call.raw.routes :
         returned.routes[call.raw.routes[i].label] = call.raw.routes[i].cluster
    /\ Cardinality(DOMAIN returned.routes) = Len(call.raw.routes)
    /\ {told[i] : i \in DOMAIN told}
         = {call.raw.default_cluster} \cup {returned.routes[l] : l \in DOMAIN returned.routes}
    /\ \A i, j \in DOMAIN told : told[i] = told[j] => i = j
    /\ told[1] = call.raw.default_cluster

=============================================================================
