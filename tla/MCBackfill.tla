----------------------------- MODULE MCBackfill -----------------------------
(* Threads of the script are alike.                                        *)
EXTENDS Backfill, TLC

Symmetry == Permutations(Threads)
=============================================================================
