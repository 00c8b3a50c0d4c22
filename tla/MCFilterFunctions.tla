-------------------------- MODULE MCFilterFunctions --------------------------
(***************************************************************************)
(* FilterFunctions for TLC.  decide: every configuration over three labels *)
(* and two mapped clusters, every response of at most MaxRanked signals    *)
(* and every failure.  from_config: at most three routes, each other field *)
(* at a good value, a bad one and its boundaries.  extract_prompt: at most *)
(* two messages of two parts each, over four short texts with a one-byte   *)
(* letter, a three-byte letter and white space.                            *)
(***************************************************************************)
EXTENDS FilterFunctions

SequencesOf == INSTANCE SequencesExt

CONSTANTS MaxRanked, DefaultCluster, simple, complex, other, small, large, general, v1

MCPolicies == {c \in Config : c.default_cluster = DefaultCluster /\ c.emit_headers}

MCRanked == UNION {[1 .. n -> Signal] : n \in 0 .. MaxRanked}

MCOutcomes ==
  { [kind |-> "Response", status |-> s, ranked |-> << >>, revision |-> v1] : s \in WireStatus }
  \cup { [kind |-> "Response", status |-> "OK", ranked |-> k, revision |-> v1] : k \in MCRanked }
  \cup { GrpcStatus(c) : c \in GrpcCode }
  \cup { Timeout }

-----------------------------------------------------------------------------

MCRoute == {[label |-> l, cluster |-> c] : l \in {"A", "A ", " "}, c \in {"small", "large", ""}}

\* The fields that are checked apart from routes.
MCScalars ==
  [ signal : {"unset", " ", "complexity"},
    status_on_reject : {99, 100, 599, 600},
    timeout_ms : {0, 1}, connect_timeout_ms : {0, 1},
    max_prompt_chars : {0, 1}, max_body_bytes : {0, MaxBodyBytes, MaxBodyBytes + 1},
    min_score_finite : BOOLEAN ]

MCRaw(endpoint, default, table, s) ==
  [ endpoint |-> endpoint, default_cluster |-> default, routes |-> table,
    signal |-> s.signal, status_on_reject |-> s.status_on_reject, timeout_ms |-> s.timeout_ms,
    connect_timeout_ms |-> s.connect_timeout_ms, max_prompt_chars |-> s.max_prompt_chars,
    max_body_bytes |-> s.max_body_bytes, min_score_finite |-> s.min_score_finite ]

GoodScalars ==
  [ signal |-> "unset", status_on_reject |-> 503, timeout_ms |-> 1, connect_timeout_ms |-> 1,
    max_prompt_chars |-> 1, max_body_bytes |-> MaxBodyBytes, min_score_finite |-> TRUE ]

\* Every route table with good scalars, every combination of scalars with
\* one good and one bad route table.
MCRawConfigs ==
  {MCRaw(e, d, rs, GoodScalars) :
     e \in Startup!Endpoints, d \in {"", "general", "small"},
     rs \in SequencesOf!SeqOf(MCRoute, 3)}
  \cup
  {MCRaw(e, "general", rs, s) :
     e \in {"host:port", "url"},
     rs \in {<< >>, <<[label |-> "A", cluster |-> "small"]>>}, s \in MCScalars}

-----------------------------------------------------------------------------

MCWidth == [c \in Chars |-> IF c = "w" THEN 3 ELSE 1]

Texts == { << >>, <<" ">>, <<"a">>, <<" ", "w", "a">> }

MCParts ==
  {Prompt!Part(TRUE, t) : t \in Texts} \cup {Prompt!Part(FALSE, <<"a">>), Prompt!Part(TRUE, None)}

MCContents ==
  {Prompt!Absent, Prompt!OtherValue} \cup {Prompt!Str(t) : t \in Texts}
    \cup {Prompt!Arr(p) : p \in SequencesOf!SeqOf(MCParts, 2)}

MCTurns ==
  {Prompt!Message(TRUE, c) : c \in MCContents} \cup {Prompt!Message(FALSE, Prompt!Str(<<"a">>))}

MCMessages ==
  {Prompt!Absent, Prompt!OtherValue} \cup {Prompt!Arr(m) : m \in SequencesOf!SeqOf(MCTurns, 2)}

MCFields ==
  {Prompt!Absent, Prompt!OtherValue, Prompt!Str(<<"a", "w">>), Prompt!Str(<<" ">>),
   Prompt!Arr(<<None, <<"w">>, << >>>>), Prompt!Arr(<<None>>)}

MCBodies ==
  {[kind |-> "invalid"], [kind |-> "not an object"]}
    \cup {[kind |-> "object", object |-> Prompt!Object(m, p, i)] :
             m \in MCMessages, p \in MCFields, i \in MCFields}

=============================================================================
