--------------------------- MODULE MCCommandLine ---------------------------
(* CommandLine for TLC: two verbs that share a beginning, one with words   *)
(* and options; two columns; every name over two letters.                  *)
EXTENDS CommandLine

R == <<"r">>
X == <<"x">>
RX == <<"r", "x">>
XR == <<"x", "r">>
XX == <<"x", "x">>

MCVerbs == <<R, RX>>
MCGrammar ==
  [v \in {R, RX} |->
     IF v = R
     THEN [depvar |-> TRUE, choices |-> {},
           options |-> <<[name |-> X, required |-> FALSE, values |-> <<R, XX>>],
                         [name |-> XX, required |-> TRUE, values |-> << >>]>>]
     ELSE [depvar |-> FALSE, choices |-> {R}, options |-> << >>]]
MCCategorical == {XX}
MCColumns == <<[name |-> XR, continuous |-> TRUE], [name |-> XX, continuous |-> FALSE]>>
MCCommands == {R}
============================================================================
