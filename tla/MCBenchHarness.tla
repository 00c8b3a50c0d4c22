--------------------------- MODULE MCBenchHarness ---------------------------
(***************************************************************************)
(* Small instances of BenchHarness for TLC.                                *)
(***************************************************************************)
EXTENDS BenchHarness, TLC

CONSTANTS w1, w2

\* B-3 at two prompt lengths.
TwoMissArms ==
  <<[name |-> "miss@32", mode |-> "miss", measured |-> 2],
    [name |-> "miss@64", mode |-> "miss", measured |-> 1]>>

=============================================================================
