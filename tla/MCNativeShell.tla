--------------------------- MODULE MCNativeShell ---------------------------
(* NativeShell for TLC: instances are alike.                               *)
EXTENDS NativeShell, TLC

InstancesAlike == Permutations(Instances)
============================================================================
