--------------------------- MODULE MCB5rIsolation ---------------------------
(***************************************************************************)
(* A small instance of B5rIsolation for TLC, with the campaign it          *)
(* implements.                                                             *)
(***************************************************************************)
EXTENDS B5rIsolationRefinement, TLC

MCOurs == [gen |-> 3, prompt |-> 2]

\* Generations at and just above each tolerance.
MCForeign == {[gen |-> 1, prompt |-> 2], [gen |-> 3, prompt |-> 2], [gen |-> 1, prompt |-> 5]}

=============================================================================
