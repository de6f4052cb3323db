---------------------------- MODULE OneshotBridge ----------------------------
(***************************************************************************)
(* The fall-back mode of the runtime (serve --oneshot): julia_bridge.rs    *)
(* and the oneshot handlers.  Every request starts a Julia process of its  *)
(* own and waits for its end with Command::output, on the very thread that *)
(* polls the handler: the pool of tokio's worker threads is all there is,  *)
(* /health shares it, and nothing has a timeout.                           *)
(*                                                                         *)
(* Left out: routes that only touch files (RunStore has them), and what    *)
(* requests and answers say.                                               *)
(***************************************************************************)
EXTENDS Naturals, SequencesExt, FiniteSets

CONSTANTS
  Clients,
  Workers,      (* tokio's worker threads                                  *)
  MaxCalls,     (* calls per client: bounds the model                      *)
  Health,       (* the task of a health check                              *)
  Nothing,      (* what an idle thread works for; no answer yet            *)
  Error         (* an answer that tells of an error                        *)

Commands == Clients \X (1..MaxCalls)

ASSUME BridgeAssumption ==
  /\ MaxCalls \in Nat /\ Workers # {}
  /\ {Health, Nothing, Error} \cap (Clients \X Nat) = {}
  /\ Health # Nothing /\ Error # Nothing

VARIABLES
  serving,      \* connections are accepted
  up,           \* the runtime is alive
  caller,       \* per client: does it wait, its last call, what it got
  asked,        \* a health check waits for its answer
  ready,        \* tasks that wait for a thread: commands and health checks
  worker,       \* per thread: the command it is blocked for, or Nothing
  process,      \* per command: "none", "runs", or how its process ended
  runs          \* how often a process was started for each command

vars == <<serving, up, caller, asked, ready, worker, process, runs>>

Ended == {"answered", "garbled", "failed"}
Waits(k) == caller[k[1]].busy /\ caller[k[1]].n = k[2]
Idle == {w \in Workers : worker[w] = Nothing}

Init ==
  /\ serving = TRUE /\ up = TRUE
  /\ caller = [c \in Clients |-> [busy |-> FALSE, n |-> 0, got |-> Nothing]]
  /\ asked = FALSE /\ ready = << >>
  /\ worker = [w \in Workers |-> Nothing]
  /\ process = [k \in Commands |-> "none"] /\ runs = [k \in Commands |-> 0]

-----------------------------------------------------------------------------
(* Clients.                                                                *)
Call(c) ==
  /\ serving /\ ~caller[c].busy /\ caller[c].n < MaxCalls
  /\ caller' = [caller EXCEPT ![c] = [busy |-> TRUE, n |-> @.n + 1, got |-> Nothing]]
  /\ ready' = Append(ready, <<c, caller[c].n + 1>>)
  /\ UNCHANGED <<serving, up, asked, worker, process, runs>>

CheckHealth ==
  /\ serving /\ ~asked
  /\ asked' = TRUE /\ ready' = Append(ready, Health)
  /\ UNCHANGED <<serving, up, caller, worker, process, runs>>

(* The connection is gone; its task is dropped when hyper notices before a *)
(* thread runs it.  A thread already blocked stays blocked.                *)
HangUp(c) ==
  /\ caller[c].busy
  /\ caller' = [caller EXCEPT ![c].busy = FALSE]
  /\ \/ UNCHANGED ready
     \/ \E i \in 1..Len(ready) : /\ ready[i] = <<c, caller[c].n>>
                                 /\ ready' = RemoveAt(ready, i)
  /\ UNCHANGED <<serving, up, asked, worker, process, runs>>

Reply(k, got) ==
  caller' = IF Waits(k) THEN [caller EXCEPT ![k[1]].busy = FALSE, ![k[1]].got = got]
            ELSE caller

-----------------------------------------------------------------------------
(* The handlers, each from the moment a thread polls it.                   *)
AnswerHealth ==
  /\ ready # << >> /\ Head(ready) = Health /\ Idle # {}
  /\ ready' = Tail(ready) /\ asked' = FALSE
  /\ UNCHANGED <<serving, up, caller, worker, process, runs>>

(* execute_fit_model and execute_query_dataset up to Command::output.      *)
Begins == ready # << >> /\ Head(ready) # Health /\ Idle # {} /\ ready' = Tail(ready)

(* Not JSON, an unsupported action, refused by validation, or no julia.    *)
Refuse ==
  /\ Begins
  /\ Reply(Head(ready), Error)
  /\ UNCHANGED <<serving, up, asked, worker, process, runs>>

Spawn ==
  /\ Begins
  /\ \E w \in Idle : worker' = [worker EXCEPT ![w] = Head(ready)]
  /\ process' = [process EXCEPT ![Head(ready)] = "runs"]
  /\ runs' = [runs EXCEPT ![Head(ready)] = @ + 1]
  /\ UNCHANGED <<serving, up, caller, asked>>

(* output() returns: a non-zero exit and an unreadable answer are errors.  *)
Outcome(k) == IF process[k] = "answered" THEN k ELSE Error
RetryOnFailure(w) ==   \* mutant: one more process when the first one failed
  /\ worker[w] # Nothing /\ process[worker[w]] \in Ended
  /\ IF process[worker[w]] = "failed" /\ runs[worker[w]] < 2
     THEN /\ process' = [process EXCEPT ![worker[w]] = "runs"]
          /\ runs' = [runs EXCEPT ![worker[w]] = @ + 1]
          /\ UNCHANGED <<caller, worker>>
     ELSE /\ Reply(worker[w], Outcome(worker[w])) /\ UNCHANGED <<process, runs>>
          /\ worker' = [worker EXCEPT ![w] = Nothing]
  /\ UNCHANGED <<serving, up, asked, ready>>
GivesUp(w) ==   \* mutant: a timeout that leaves the process alone
  /\ worker[w] # Nothing
  /\ worker' = [worker EXCEPT ![w] = Nothing]
  /\ Reply(worker[w], Outcome(worker[w]))
  /\ UNCHANGED <<serving, up, asked, ready, process, runs>>
FailedNeverReturns(w) ==   \* mutant: a failed process is waited for again
  /\ worker[w] # Nothing /\ process[worker[w]] \in Ended \ {"failed"}
  /\ worker' = [worker EXCEPT ![w] = Nothing]
  /\ Reply(worker[w], Outcome(worker[w]))
  /\ UNCHANGED <<serving, up, asked, ready, process, runs>>
Return(w) ==
  /\ worker[w] # Nothing /\ process[worker[w]] \in Ended
  /\ worker' = [worker EXCEPT ![w] = Nothing]
  /\ Reply(worker[w], Outcome(worker[w]))
  /\ UNCHANGED <<serving, up, asked, ready, process, runs>>

-----------------------------------------------------------------------------
(* A Julia process runs julia_bridge_entry.jl once and exits; it may fail, *)
(* be killed, print something else than its answer, or never end.          *)
ProcessEnds(k) ==
  /\ process[k] = "runs"
  /\ \E how \in Ended : process' = [process EXCEPT ![k] = how]
  /\ UNCHANGED <<serving, up, caller, asked, ready, worker, runs>>

(* Ctrl-C: axum accepts no more connections and waits for those it has.    *)
StopServing ==
  /\ serving /\ serving' = FALSE
  /\ UNCHANGED <<up, caller, asked, ready, worker, process, runs>>

(* The runtime is done, or is killed: its Julia processes go on.           *)
Exit ==
  /\ up /\ up' = FALSE /\ serving' = FALSE
  /\ caller' = [c \in Clients |-> IF caller[c].busy
                                  THEN [caller[c] EXCEPT !.busy = FALSE, !.got = Error]
                                  ELSE caller[c]]
  /\ asked' = FALSE /\ ready' = << >>
  /\ worker' = [w \in Workers |-> Nothing]
  /\ UNCHANGED <<process, runs>>

Handler == AnswerHealth \/ Refuse \/ Spawn
Next ==
  \/ \E c \in Clients : Call(c) \/ HangUp(c)
  \/ CheckHealth \/ Handler
  \/ \E w \in Workers : Return(w)
  \/ \E k \in Commands : ProcessEnds(k)
  \/ StopServing \/ Exit

Spec == Init /\ [][Next]_vars

(* A thread that is free takes the next task, and leaves output() when the *)
(* process has ended.                                                      *)
FairSpec == Spec /\ WF_vars(Handler) /\ \A w \in Workers : WF_vars(Return(w))

-----------------------------------------------------------------------------
(* Properties.                                                             *)

(* Types, and a health check waits exactly as long as its task does.       *)
TypeOK ==
  /\ serving \in BOOLEAN /\ up \in BOOLEAN /\ asked \in BOOLEAN
  /\ caller \in [Clients -> [busy : BOOLEAN, n : 0..MaxCalls,
                            got : Commands \cup {Nothing, Error}]]
  /\ ready \in Seq(Commands \cup {Health})
  /\ asked <=> Health \in ToSet(ready)
  /\ worker \in [Workers -> Commands \cup {Nothing}]
  /\ process \in [Commands -> {"none", "runs"} \cup Ended]
  /\ runs \in [Commands -> Nat]

(* A client never gets what another client, or its own call before, asked  *)
(* for; no request is worked on twice, however processes end and callers   *)
(* hang up: this mode keeps RequestService too.                            *)
Told(got, own) ==
  CASE got = Nothing -> "none"
    [] got = Error -> "error"
    [] got = own -> "own"
    [] OTHER -> "another call's answer"
Seen == [c \in Clients |->
           [busy |-> caller[c].busy, n |-> caller[c].n,
            got |-> Told(caller[c].got, <<c, caller[c].n>>)]]
Service == INSTANCE RequestService WITH call <- Seen
ImplementsRequestService == Service!Spec

(* While the runtime is up no process computes that no thread waits for,   *)
(* and there are never more processes than threads: the pool is the only   *)
(* limit on how many Julias run at once.                                   *)
Running == {k \in Commands : process[k] = "runs"}
ProcessesAreWaitedFor ==
  up => \A k \in Running : Cardinality({w \in Workers : worker[w] = k}) = 1

(* Who waits for an answer has a task in line, or a thread that is blocked *)
(* for its process.                                                        *)
Placed(k) == (\E i \in 1..Len(ready) : ready[i] = k) \/ (\E w \in Workers : worker[w] = k)
NoCallForgotten == \A c \in Clients : caller[c].busy => Placed(<<c, caller[c].n>>)

(* As long as Julia processes come to an end every health check and every  *)
(* call is answered, although all threads may be blocked for a while.      *)
ProcessesEnd == \A k \in Commands : WF_vars(ProcessEnds(k))
EveryoneIsAnswered ==
  ProcessesEnd => /\ asked ~> ~asked
                  /\ \A c \in Clients : caller[c].busy ~> ~caller[c].busy

=============================================================================
