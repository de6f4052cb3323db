---------------------------- MODULE MCRunStore ----------------------------
(* RunStore for TLC: two manifests of different length, workers alike.     *)
EXTENDS RunStore, TLC

CONSTANTS short, long

Sizes == [m \in Manifests |-> IF m = long THEN 2 ELSE 1]
WorkersAlike == Permutations(Workers)
===========================================================================
