--------------------------- MODULE MCJuliaSession ---------------------------
(* Instances of JuliaSession for TLC: the constants are given in the cfgs. *)
EXTENDS JuliaSession, TLC

CallersAlike == Permutations(Clients)

=============================================================================
