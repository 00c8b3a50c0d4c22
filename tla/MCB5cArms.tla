----------------------------- MODULE MCB5cArms ------------------------------
(***************************************************************************)
(* B5cArms for TLC: two classes with two held-out prompts each, so that    *)
(* the probe and the other arms have a prompt of each class of their own.  *)
(***************************************************************************)
EXTENDS B5cArms, TLC

MCHeldOut == [SIMPLE |-> <<"s1", "s2">>, COMPLEX |-> <<"c1", "c2">>]

\* With 30 tokens a request, one foreign generation of 1 token is within any
\* budget and two of them on a backend are beyond that of a single request.
MCForeign == {1}

=============================================================================
