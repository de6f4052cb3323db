--------------------------- MODULE RequestService ---------------------------
(***************************************************************************)
(* What the HTTP handlers may count on when they dispatch to the Julia     *)
(* session: every call is worked on at most once, it ends in the answer to *)
(* this very call or in an error, and an answer is only given for work     *)
(* that was begun.  A client may leave at any time; the work of its call   *)
(* may then be done all the same.                                          *)
(***************************************************************************)
EXTENDS Naturals

CONSTANTS Clients, MaxCalls

VARIABLES
  call,   \* per client: [busy, n, got], got one of "none", "own", "error"
  runs    \* how often the work of each command was begun

vars == <<call, runs>>

Commands == Clients \X (1..MaxCalls)

Init ==
  /\ call = [c \in Clients |-> [busy |-> FALSE, n |-> 0, got |-> "none"]]
  /\ runs = [k \in Commands |-> 0]

Ask(c) ==
  /\ ~call[c].busy /\ call[c].n < MaxCalls
  /\ call' = [call EXCEPT ![c] = [busy |-> TRUE, n |-> @.n + 1, got |-> "none"]]
  /\ UNCHANGED runs

(* Once, and only after it was asked for: possibly long after.             *)
Work(k) ==
  /\ k[2] <= call[k[1]].n /\ runs[k] = 0
  /\ runs' = [runs EXCEPT ![k] = 1]
  /\ UNCHANGED call

Answer(c) ==
  /\ call[c].busy /\ runs[<<c, call[c].n>>] = 1
  /\ call' = [call EXCEPT ![c].busy = FALSE, ![c].got = "own"]
  /\ UNCHANGED runs

(* Several calls fail at once when the runtime goes away.                  *)
Fail(S) ==
  /\ \A c \in S : call[c].busy
  /\ call' = [c \in Clients |->
                IF c \in S THEN [busy |-> FALSE, n |-> call[c].n, got |-> "error"]
                           ELSE call[c]]
  /\ UNCHANGED runs

Leave(c) ==
  /\ call[c].busy
  /\ call' = [call EXCEPT ![c].busy = FALSE]
  /\ UNCHANGED runs

Next ==
  \/ \E c \in Clients : Ask(c) \/ Answer(c) \/ Leave(c)
  \/ \E k \in Commands : Work(k)
  \/ \E S \in SUBSET Clients : Fail(S)

Spec == Init /\ [][Next]_vars

=============================================================================
