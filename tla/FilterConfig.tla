----------------------------- MODULE FilterConfig -----------------------------
(***************************************************************************)
(* Building the filter: LlmDScConfig::validate and the tables precomputed  *)
(* from an accepted configuration.  A string is one of a few names: "" is  *)
(* blank after trim; "A" and "A " differ although they trim to the same.   *)
(***************************************************************************)
EXTENDS Integers, Sequences, SequencesExt

CONSTANT MaxBodyBytes  \* ABSOLUTE_MAX_BODY_BYTES

Blank(s) == s \in {"", " "}

\* What becomes of endpoint: blank, a URL or a path, no URI, or host:port.
Endpoints == {"blank", "url", "unparsable", "host:port"}

-----------------------------------------------------------------------------
\* A bug to catch: labels are compared with their neighbours only.
BugNeighbourDuplicates(rs, i) ==
  CASE Blank(rs[i].label) -> "label"
    [] ~Blank(rs[i].label) /\ Blank(rs[i].cluster) -> "cluster"
    [] OTHER -> IF i > 1 /\ rs[i - 1].label = rs[i].label THEN "duplicate" ELSE "none"

\* for route in &self.routes: the first offending route names the error.
RouteError(rs, i) ==
  CASE Blank(rs[i].label) -> "label"
    [] ~Blank(rs[i].label) /\ Blank(rs[i].cluster) -> "cluster"
    [] OTHER -> IF \E j \in 1 .. i - 1 : rs[j].label = rs[i].label
                THEN "duplicate" ELSE "none"

RoutesError(rs) ==
  LET bad == {i \in DOMAIN rs : RouteError(rs, i) # "none"}
  IN  IF rs = << >> THEN "no_routes"
      ELSE IF bad = {} THEN "none" ELSE RouteError(rs, Min(bad))

\* The rules of validate in their order: what each says of a configuration.
Rules(c) ==
  << [error |-> "endpoint_empty", broken |-> c.endpoint = "blank"],
     [error |-> "endpoint_url", broken |-> c.endpoint = "url"],
     [error |-> "endpoint_authority", broken |-> c.endpoint = "unparsable"],
     [error |-> "default_cluster", broken |-> Blank(c.default_cluster)],
     [error |-> RoutesError(c.routes), broken |-> RoutesError(c.routes) # "none"],
     [error |-> "signal", broken |-> c.signal # "unset" /\ Blank(c.signal)],
     [error |-> "status_on_reject", broken |-> c.status_on_reject \notin 100 .. 599],
     [error |-> "timeout_ms", broken |-> c.timeout_ms = 0],
     [error |-> "connect_timeout_ms", broken |-> c.connect_timeout_ms = 0],
     [error |-> "max_prompt_chars", broken |-> c.max_prompt_chars = 0],
     [error |-> "max_body_bytes", broken |-> c.max_body_bytes = 0],
     [error |-> "max_body_bytes_ceiling", broken |-> c.max_body_bytes > MaxBodyBytes],
     [error |-> "min_score", broken |-> ~c.min_score_finite] >>

\* validate: the first broken rule is the error.
validate(c) ==
  LET broken == {i \in DOMAIN Rules(c) : Rules(c)[i].broken}
  IN  IF broken = {} THEN "none" ELSE Rules(c)[Min(broken)].error

\* route_map: collecting into a HashMap keeps the last entry of a key.
route_map(c) ==
  LET last(l) == Max({i \in DOMAIN c.routes : c.routes[i].label = l})
  IN  [l \in {c.routes[i].label : i \in DOMAIN c.routes} |-> c.routes[last(l)].cluster]

\* all_clusters: the default first, each cluster at its first mention.
all_clusters(c) ==
  LET names == <<c.default_cluster>> \o [i \in DOMAIN c.routes |-> c.routes[i].cluster]
      first == {i \in DOMAIN names : \A j \in 1 .. i - 1 : names[j] # names[i]}
  IN  [k \in 1 .. Cardinality(first) |->
         names[CHOOSE i \in first : Cardinality({j \in first : j < i}) = k - 1]]

-----------------------------------------------------------------------------

\* from_config: a bad configuration fails startup, and nothing is built; an
\* accepted one becomes the tables a request will be routed with.
Refused(error) == [built |-> FALSE, error |-> error]

new(c) == [built |-> TRUE, routes |-> route_map(c), clusters |-> all_clusters(c)]

from_config(c) == IF validate(c) = "none" THEN new(c) ELSE Refused(validate(c))

=============================================================================
