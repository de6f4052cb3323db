---------------------------- MODULE JuliaSession ----------------------------
(***************************************************************************)
(* The persistent Julia session of metrica-runtime, from the HTTP handlers *)
(* that dispatch to it down to the daemon process:                         *)
(*                                                                         *)
(*   handlers --mpsc(QueueCap)--> actor thread --stdin--> julia_daemon.jl  *)
(*      ^                            |  ^                      |           *)
(*      +--------- oneshot ----------+  +-- reader <-- stdout -+           *)
(*                                                                         *)
(* One command is in the actor's hands at a time; the daemon answers lines *)
(* in the order it reads them, but a request may be given up (timeout), a  *)
(* daemon may die and be replaced, and a caller may hang up at any moment. *)
(*                                                                         *)
(* A command <<c, n>> is the n-th call of client c.  The reader thread is  *)
(* merged with the pipe it drains: "stdout" holds what recv_timeout will   *)
(* return, in order.                                                       *)
(***************************************************************************)
EXTENDS Integers, Sequences, FiniteSets

CONSTANTS
  Clients,      (* concurrent callers of the HTTP service                  *)
  MaxCalls,     (* calls each client makes: bounds the model               *)
  QueueCap,     (* capacity of the mpsc channel, 64 in the code            *)
  PipeCap,      (* request lines the stdin pipe takes before write blocks  *)
  MaxRestarts,  (* MAX_RESTARTS, 3 in the code                             *)
  MaxNoise      (* lines that answer nothing: bounds the model             *)

ASSUME SessionAssumption ==
  /\ MaxCalls \in Nat /\ MaxRestarts \in Nat /\ MaxNoise \in Nat
  /\ QueueCap \in Nat \ {0} /\ PipeCap \in Nat \ {0}

VARIABLES
  caller,    \* HTTP handlers: [pc, n, got] per client
  queue,     \* commands in the mpsc channel
  serving,   \* the listener accepts connections
  pc,        \* program counter of the actor thread
  cont,      \* what a restart was started for: "boot", "write" or "eof"
  cmd,       \* the command in the actor's hands
  res,       \* the result send_request is about to return
  flag,      \* julia_healthy, the flag /health publishes
  healthy,   \* JuliaSession.healthy
  child,     \* JuliaSession.child: generation of the process, 0 for None
  restarts,  \* JuliaSession.restart_count
  counter,   \* JuliaSession.request_counter
  spawns,    \* generation of the newest process
  live,      \* generations the operating system still runs
  daemon,    \* the newest process: [state, id, cmd]
  stdin,     \* request lines written to the newest process, not read yet
  stdout,    \* what the newest reader thread has put in its channel
  reader,    \* "reading", or "gone" once it has sent EOF or an error
  noise,     \* lines printed so far that answer nothing
  runs       \* how often a daemon has begun each command

httpVars    == <<caller, queue, serving>>
actorVars   == <<pc, cont, cmd, res, flag>>
sessionVars == <<healthy, child, restarts, counter>>
procVars    == <<spawns, live, daemon, noise>>
pipeVars    == <<stdin, stdout, reader>>

vars == <<httpVars, actorVars, sessionVars, procVars, pipeVars, runs>>

-----------------------------------------------------------------------------
NoCmd    == <<>>
Commands == Clients \X (1..MaxCalls)

Result == [kind : {"none", "ok", "err", "timeout"}, of : Commands \cup {NoCmd}]
None    == [kind |-> "none",    of |-> NoCmd]
Err     == [kind |-> "err",     of |-> NoCmd]
TimedOut == [kind |-> "timeout", of |-> NoCmd]
Ok(k)   == [kind |-> "ok",      of |-> k]

(* A line of either pipe.  "id" is the number in "req-<n>", 0 when the     *)
(* line carries none; "cmd" is the command the line asks for or answers.   *)
Line == [kind : {"request", "shutdown", "ready", "answer", "stray", "eof", "ioerr"},
         id : Nat, cmd : Commands \cup {NoCmd}]
Request(i, k) == [kind |-> "request", id |-> i, cmd |-> k]
Answer(i, k)  == [kind |-> "answer",  id |-> i, cmd |-> k]
Plain(kind)   == [kind |-> kind, id |-> 0, cmd |-> NoCmd]

CallerState == [pc : {"idle", "sending", "waiting"}, n : 0..MaxCalls, got : Result]
DaemonState == [state : {"loading", "idle", "busy"}, id : Nat, cmd : Commands \cup {NoCmd}]
Loading == [state |-> "loading", id |-> 0, cmd |-> NoCmd]
Idle    == [state |-> "idle",    id |-> 0, cmd |-> NoCmd]

Alive == spawns \in live   \* the newest process runs

Init ==
  /\ caller   = [c \in Clients |-> [pc |-> "idle", n |-> 0, got |-> None]]
  /\ queue    = <<>>
  /\ serving  = FALSE
  /\ pc       = "ready" /\ cont = "boot" /\ cmd = NoCmd /\ res = None
  /\ flag     = FALSE
  /\ healthy  = FALSE /\ child = 0 /\ restarts = 0 /\ counter = 0
  /\ spawns   = 1 /\ live = {1} /\ daemon = Loading /\ noise = 0
  /\ stdin    = <<>> /\ stdout = <<>> /\ reader = "reading"
  /\ runs     = [k \in Commands |-> 0]

-----------------------------------------------------------------------------
(* HTTP handlers: dispatch_via_channel.                                    *)

(* A request arrives and its handler starts to send.                       *)
Call(c) ==
  /\ serving
  /\ caller[c].pc = "idle" /\ caller[c].n < MaxCalls
  /\ caller' = [caller EXCEPT ![c] = [pc |-> "sending", n |-> @.n + 1, got |-> None]]
  /\ UNCHANGED <<queue, serving, actorVars, sessionVars, procVars, pipeVars, runs>>

(* cmd_tx.send waits for a free slot of the bounded channel.               *)
Send(c) ==
  /\ caller[c].pc = "sending" /\ pc # "exited"
  /\ Len(queue) < QueueCap
  /\ queue' = Append(queue, <<c, caller[c].n>>)
  /\ caller' = [caller EXCEPT ![c].pc = "waiting"]
  /\ UNCHANGED <<serving, actorVars, sessionVars, procVars, pipeVars, runs>>

(* The client hangs up: the handler future is dropped with its oneshot     *)
(* receiver.  A command already in the channel stays there.                *)
HangUp(c) ==
  /\ caller[c].pc \in {"sending", "waiting"}
  /\ caller' = [caller EXCEPT ![c].pc = "idle"]
  /\ UNCHANGED <<queue, serving, actorVars, sessionVars, procVars, pipeVars, runs>>

(* ctrl-c: with_graceful_shutdown stops accepting, open handlers go on.    *)
StopServing ==
  /\ serving /\ serving' = FALSE
  /\ UNCHANGED <<caller, queue, actorVars, sessionVars, procVars, pipeVars, runs>>

InFlight == {c \in Clients : caller[c].pc # "idle"}

-----------------------------------------------------------------------------
(* The actor thread: spawn_julia_actor and JuliaSession::send_request.     *)

Recv ==
  /\ pc = "recv" /\ queue # <<>>
  /\ cmd' = Head(queue) /\ queue' = Tail(queue)
  /\ pc' = "check"
  /\ UNCHANGED <<caller, serving, cont, res, flag, sessionVars, procVars, pipeVars, runs>>

(* check_alive: try_wait on the child; a dead one marks the session.       *)
CheckAlive ==
  /\ pc = "check"
  /\ IF child # 0 /\ child \in live
     THEN pc' = "write" /\ UNCHANGED <<cont, healthy>>
     ELSE /\ pc' = "restart" /\ cont' = "write"
          /\ healthy' = (healthy /\ child = 0)
  /\ UNCHANGED <<httpVars, cmd, res, flag, child, restarts, counter,
                 procVars, pipeVars, runs>>

(* try_restart with the budget used up: nothing is touched.                *)
BudgetSpentUnsaid ==   \* mutant: back to the loop without a reply
  /\ pc = "restart" /\ restarts >= MaxRestarts
  /\ pc' = "recv" /\ cmd' = NoCmd
  /\ UNCHANGED <<httpVars, cont, res, flag, sessionVars, procVars, pipeVars, runs>>
BudgetSpent ==
  /\ pc = "restart" /\ restarts >= MaxRestarts
  /\ pc' = "reply" /\ res' = Err
  /\ UNCHANGED <<httpVars, cont, cmd, flag, sessionVars, procVars, pipeVars, runs>>

(* try_restart up to the spawn of JuliaSession::start: the old process is  *)
(* killed and reaped, its pipes dropped, the budget charged.               *)
KillOldAndChargeOffByOne ==   \* mutant
  /\ restarts <= MaxRestarts
  /\ restarts' = restarts + 1
  /\ child' = 0

KillOldAndCharge ==
  /\ restarts < MaxRestarts
  /\ restarts' = restarts + 1
  /\ child' = 0

NotKilled(g) == live   \* mutant
Killed(g)    == live \ {g}

FreshPipes == stdin' = <<>> /\ stdout' = <<>> /\ reader' = "reading"

Restart ==
  /\ pc = "restart" /\ KillOldAndCharge
  /\ spawns' = spawns + 1
  /\ live' = Killed(child) \cup {spawns + 1}
  /\ daemon' = Loading /\ FreshPipes
  /\ pc' = "ready"
  /\ UNCHANGED <<httpVars, cont, cmd, res, flag, healthy, counter, noise, runs>>

RestartSpawnFails ==
  /\ pc = "restart" /\ KillOldAndCharge
  /\ live' = Killed(child)
  /\ stdin' = <<>> /\ stdout' = <<>> /\ reader' = "gone"
  /\ pc' = "reply" /\ res' = Err
  /\ UNCHANGED <<httpVars, cont, cmd, flag, healthy, counter, spawns, daemon, noise, runs>>

(* What recv_timeout would return next. *)
NextLine(kinds) == stdout # <<>> /\ Head(stdout).kind \in kinds

(* The loop of JuliaSession::start.  "boot" is main's own call, before the *)
(* actor exists; "write" and "eof" are the two calls of try_restart.       *)
RetryAfterCrash(why) ==   \* mutant
  CASE why = "boot" -> "recv" [] OTHER -> "write"
AfterReady(why) ==
  CASE why = "boot" -> "recv" [] why = "write" -> "write" [] why = "eof" -> "reply"

GotReady ==
  /\ pc = "ready" /\ NextLine({"ready"})
  /\ stdout' = Tail(stdout)
  /\ child' = spawns /\ healthy' = TRUE
  /\ pc' = AfterReady(cont)
  /\ res' = IF cont = "eof" THEN Err ELSE res
  /\ IF cont = "boot" THEN flag' = TRUE /\ serving' = TRUE
                      ELSE UNCHANGED <<flag, serving>>
  /\ UNCHANGED <<caller, queue, cont, cmd, restarts, counter, procVars, stdin, reader, runs>>

SkipBeforeReady ==
  /\ pc = "ready" /\ NextLine({"answer", "stray"})
  /\ stdout' = Tail(stdout)
  /\ UNCHANGED <<httpVars, actorVars, sessionVars, procVars, stdin, reader, runs>>

(* EOF, a read error or the ready timeout: the process is killed, and with *)
(* it goes the session (restart) or the whole program (boot).              *)
NotReady ==
  /\ pc = "ready"
  /\ stdout = <<>> \/ NextLine({"eof", "ioerr"})
  /\ live' = Killed(spawns)
  /\ stdin' = <<>> /\ stdout' = <<>> /\ reader' = "gone"
  /\ IF cont = "boot" THEN pc' = "exited" /\ res' = res
                      ELSE pc' = "reply" /\ res' = Err
  /\ UNCHANGED <<httpVars, cont, cmd, flag, sessionVars, spawns, daemon, noise, runs>>

SameId == counter   \* mutant
NextId == counter + 1

(* writeln! and flush.  The write blocks while the pipe is full and fails  *)
(* with EPIPE when nobody holds its other end.                             *)
WriteRequest ==
  /\ pc = "write" /\ Alive
  /\ Len(stdin) < PipeCap
  /\ counter' = counter + 1
  /\ stdin' = Append(stdin, Request(NextId, cmd))
  /\ pc' = "await"
  /\ UNCHANGED <<httpVars, cont, cmd, res, flag, healthy, child, restarts, procVars,
                 stdout, reader, runs>>

BrokenPipe ==
  /\ pc = "write" /\ ~Alive
  /\ counter' = counter + 1
  /\ pc' = "reply" /\ res' = Err
  /\ UNCHANGED <<httpVars, cont, cmd, flag, healthy, child, restarts, procVars, pipeVars, runs>>

MatchesAnyAnswer(line) == line.kind = "answer"   \* mutant
Matches(line) == line.id = counter

(* One turn of the recv_timeout loop of send_request.                      *)
ReadAnswer ==
  /\ pc = "await" /\ NextLine({"ready", "answer", "stray"})
  /\ stdout' = Tail(stdout)
  /\ IF Matches(Head(stdout))
     THEN pc' = "reply" /\ res' = Ok(Head(stdout).cmd)
     ELSE UNCHANGED <<pc, res>>
  /\ UNCHANGED <<httpVars, cont, cmd, flag, sessionVars, procVars, stdin, reader, runs>>

ReadEof ==
  /\ pc = "await" /\ NextLine({"eof"})
  /\ stdout' = Tail(stdout)
  /\ healthy' = FALSE
  /\ pc' = "restart" /\ cont' = "eof"
  /\ UNCHANGED <<httpVars, cmd, res, flag, child, restarts, counter, procVars,
                 stdin, reader, runs>>

(* A read error (say a line that is not UTF-8) or a reader already gone.   *)
ReadFails ==
  /\ pc = "await"
  /\ \/ NextLine({"ioerr"}) /\ stdout' = Tail(stdout)
     \/ stdout = <<>> /\ reader = "gone" /\ stdout' = stdout
  /\ healthy' = FALSE
  /\ pc' = "reply" /\ res' = Err
  /\ UNCHANGED <<httpVars, cont, cmd, flag, child, restarts, counter, procVars,
                 stdin, reader, runs>>

(* No line for REQUEST_TIMEOUT_SECS.  The process is left running.         *)
ReadBlocks == FALSE   \* mutant: read_line without a timeout
ReadTimeout ==
  /\ pc = "await" /\ stdout = <<>> /\ reader = "reading"
  /\ healthy' = FALSE
  /\ pc' = "reply" /\ res' = TimedOut
  /\ UNCHANGED <<httpVars, cont, cmd, flag, child, restarts, counter, procVars,
                 pipeVars, runs>>

WaitsForAnyAnswer(k) == caller[k[1]].pc = "waiting"   \* mutant
StillWaits(k) == caller[k[1]].pc = "waiting" /\ caller[k[1]].n = k[2]

(* The actor publishes the health flag and sends the result to the oneshot *)
(* of this very command; a receiver already dropped is ignored.            *)
Reply ==
  /\ pc = "reply"
  /\ flag' = (res.kind = "ok")
  /\ caller' = IF StillWaits(cmd)
               THEN [caller EXCEPT ![cmd[1]].pc = "idle", ![cmd[1]].got = res]
               ELSE caller
  /\ pc' = "recv" /\ cmd' = NoCmd /\ res' = None
  /\ UNCHANGED <<queue, serving, cont, sessionVars, procVars, pipeVars, runs>>

(* Every sender is gone, blocking_recv returns None, the session is        *)
(* dropped: Drop calls shutdown, which asks the daemon to stop ...         *)
DropSession ==
  /\ pc = "recv" /\ queue = <<>> /\ ~serving /\ InFlight = {}
  /\ Len(stdin) < PipeCap \/ ~Alive
  /\ stdin' = IF Alive THEN Append(stdin, Plain("shutdown")) ELSE stdin
  /\ pc' = "closing"
  /\ UNCHANGED <<httpVars, cont, cmd, res, flag, sessionVars, procVars,
                 stdout, reader, runs>>

(* ... and waits for it, or kills it after SHUTDOWN_TIMEOUT_SECS.          *)
FinishShutdown ==
  /\ pc = "closing"
  /\ live' = Killed(child)
  /\ child' = 0 /\ healthy' = FALSE
  /\ stdin' = <<>> /\ stdout' = <<>> /\ reader' = "gone"
  /\ pc' = "closed"
  /\ UNCHANGED <<httpVars, cont, cmd, res, flag, restarts, counter, spawns, daemon,
                 noise, runs>>

(* The runtime process ends: main returns after the graceful shutdown, or  *)
(* the desktop shell kills it.  Its threads, sockets and pipe ends go.     *)
RuntimeExit ==
  /\ pc # "exited" /\ pc' = "exited"
  /\ caller' = [c \in Clients |->
                  IF caller[c].pc = "idle" THEN caller[c]
                  ELSE [caller[c] EXCEPT !.pc = "idle", !.got = Err]]
  /\ queue' = <<>> /\ serving' = FALSE
  /\ stdout' = <<>> /\ reader' = "gone"
  /\ UNCHANGED <<cont, cmd, res, flag, sessionVars, procVars, stdin, runs>>

-----------------------------------------------------------------------------
(* The daemon process (scripts/julia_daemon.jl) and its stdout reader.     *)

Say(line) ==
  IF reader = "reading"
  THEN stdout' = Append(stdout, line) /\ UNCHANGED <<reader, live>>
  ELSE live' = live \ {spawns} /\ UNCHANGED <<stdout, reader>>  \* println throws

DaemonReady ==
  /\ Alive /\ daemon.state = "loading"
  /\ Say(Plain("ready")) /\ daemon' = Idle
  /\ UNCHANGED <<httpVars, actorVars, sessionVars, spawns, noise, stdin, runs>>

DaemonRead ==
  /\ Alive /\ daemon.state = "idle" /\ stdin # <<>>
  /\ Head(stdin).kind = "request"
  /\ stdin' = Tail(stdin)
  /\ daemon' = [state |-> "busy", id |-> Head(stdin).id, cmd |-> Head(stdin).cmd]
  /\ runs' = [runs EXCEPT ![Head(stdin).cmd] = @ + 1]
  /\ UNCHANGED <<httpVars, actorVars, sessionVars, spawns, live, noise, stdout, reader>>

(* handle_request always prints exactly one line with the request's id.    *)
DaemonAnswer ==
  /\ Alive /\ daemon.state = "busy"
  /\ Say(Answer(daemon.id, daemon.cmd)) /\ daemon' = Idle
  /\ UNCHANGED <<httpVars, actorVars, sessionVars, spawns, noise, stdin, runs>>

(* The main loop ends on a shutdown line or at the end of stdin.           *)
DaemonIgnoresEof ==   \* mutant
  /\ Alive /\ daemon.state = "idle"
  /\ stdin # <<>> /\ Head(stdin).kind = "shutdown"
  /\ live' = live \ {spawns}
  /\ UNCHANGED <<httpVars, actorVars, sessionVars, spawns, daemon, noise, pipeVars, runs>>

DaemonQuits ==
  /\ Alive /\ daemon.state = "idle"
  /\ \/ stdin # <<>> /\ Head(stdin).kind = "shutdown"
     \/ stdin = <<>> /\ pc \in {"closed", "exited"}
  /\ live' = live \ {spawns}
  /\ UNCHANGED <<httpVars, actorVars, sessionVars, spawns, daemon, noise, pipeVars, runs>>

(* Whatever else prints to stdout: lines send_request must skip.           *)
DaemonStray ==
  /\ Alive /\ noise < MaxNoise /\ reader = "reading"
  /\ noise' = noise + 1
  /\ stdout' = Append(stdout, Plain("stray"))
  /\ UNCHANGED <<httpVars, actorVars, sessionVars, spawns, live, daemon, stdin, reader, runs>>

(* A line that is not UTF-8 (a column name in another encoding):           *)
(* read_line fails, the thread reports it once and ends.                   *)
DaemonUnreadable ==
  /\ Alive /\ noise < MaxNoise /\ reader = "reading" /\ daemon.state = "busy"
  /\ noise' = noise + 1 /\ daemon' = Idle
  /\ stdout' = Append(stdout, Plain("ioerr")) /\ reader' = "gone"
  /\ UNCHANGED <<httpVars, actorVars, sessionVars, spawns, live, stdin, runs>>

DaemonDies ==
  /\ Alive /\ live' = live \ {spawns}
  /\ UNCHANGED <<httpVars, actorVars, sessionVars, spawns, daemon, noise, pipeVars, runs>>

ReaderEof ==
  /\ ~Alive /\ reader = "reading"
  /\ stdout' = Append(stdout, Plain("eof")) /\ reader' = "gone"
  /\ UNCHANGED <<httpVars, actorVars, sessionVars, procVars, stdin, runs>>

-----------------------------------------------------------------------------
Handler(c) == Call(c) \/ Send(c) \/ HangUp(c)

SendRequest ==
  \/ CheckAlive \/ BudgetSpent \/ Restart \/ RestartSpawnFails
  \/ GotReady \/ SkipBeforeReady \/ NotReady
  \/ WriteRequest \/ BrokenPipe
  \/ ReadAnswer \/ ReadEof \/ ReadFails \/ ReadTimeout

Actor == Recv \/ SendRequest \/ Reply \/ DropSession \/ FinishShutdown

Daemon ==
  \/ DaemonReady \/ DaemonRead \/ DaemonAnswer \/ DaemonQuits
  \/ DaemonStray \/ DaemonUnreadable \/ DaemonDies

Next ==
  \/ \E c \in Clients : Handler(c)
  \/ Actor \/ Daemon \/ ReaderEof \/ StopServing \/ RuntimeExit

Spec == Init /\ [][Next]_vars

(* The actor thread never stops: each of its waits ends, in a line, an EOF *)
(* or a timeout.  tokio serves the waiting senders of a channel in turn.   *)
Fairness ==
  /\ WF_vars(Actor) /\ WF_vars(ReaderEof)
  /\ \A c \in Clients : SF_vars(Send(c))

(* Under FairSpec alone a daemon may hang for good, even before it reads.  *)
(* FairHungSpec: it keeps reading but may hang in a computation.           *)
FairSpec     == Spec /\ Fairness
FairHungSpec == FairSpec /\ WF_vars(DaemonReady) /\ WF_vars(DaemonRead)

(* A daemon that computes to the end of whatever it computes.              *)
DaemonFairness ==
  /\ WF_vars(DaemonReady) /\ WF_vars(DaemonRead)
  /\ WF_vars(DaemonAnswer) /\ WF_vars(DaemonQuits)

-----------------------------------------------------------------------------
(* Properties.                                                             *)

(* Type correctness, and the budget: a process is only ever spawned after  *)
(* a restart was charged (one may fail to spawn).                          *)
HttpTypes ==
  /\ caller \in [Clients -> CallerState]
  /\ \A c \in Clients : caller[c].pc = "sending" => caller[c].n > 0
  /\ queue \in Seq(Commands) /\ Len(queue) <= QueueCap
  /\ serving \in BOOLEAN
ActorTypes ==
  /\ pc \in {"ready", "recv", "check", "restart", "write", "await", "reply",
             "closing", "closed", "exited"}
  /\ cont \in {"boot", "write", "eof"}
  /\ cmd \in Commands \cup {NoCmd} /\ res \in Result
  /\ flag \in BOOLEAN
SessionTypes ==
  /\ healthy \in BOOLEAN
  /\ restarts \in 0..MaxRestarts /\ spawns \in 1..(restarts + 1)
  /\ child \in 0..spawns /\ live \subseteq 1..spawns
  /\ counter \in Nat
DaemonTypes == daemon \in DaemonState /\ noise \in 0..MaxNoise
PipeTypes ==
  /\ stdin \in Seq(Line) /\ stdout \in Seq(Line)
  /\ reader \in {"reading", "gone"}
RunsType == runs \in [Commands -> Nat]
TypeOK == HttpTypes /\ ActorTypes /\ SessionTypes /\ DaemonTypes /\ PipeTypes /\ RunsType

(* What makes AnswersOwnCommand inductive.  Request ids only grow, so a     *)
(* line still under way belongs to an earlier request, or to the current   *)
(* one and then carries its command.                                       *)
InHand ==   \* the actor works for a command
  \/ pc \in {"check", "restart", "write", "await", "reply"}
  \/ pc = "ready" /\ cont # "boot"
CommandInHand ==
  /\ InHand => cmd \in Commands
  /\ pc = "restart" => cont # "boot"
LineOK(line) ==
  /\ line.id <= counter
  /\ pc = "await" /\ line.id = counter => line.cmd = cmd
LinesOK ==
  /\ pc = "await" => counter > 0
  /\ \A i \in 1..Len(stdin) : LineOK(stdin[i])
  /\ \A i \in 1..Len(stdout) : LineOK(stdout[i])
  /\ LineOK(daemon)
ResultOwn == pc = "reply" /\ res.kind = "ok" => res.of = cmd

(* An answer that reaches a caller was computed for this very call, never  *)
(* for one that timed out before it, hung up, or died with its daemon: the *)
(* id check of send_request against late lines in a channel that outlives  *)
(* a timeout.                                                              *)
AnswersOwnCommand ==
  \A c \in Clients : caller[c].got.kind = "ok" =>
                       caller[c].got.of = <<c, caller[c].n>>

(* The part of the invariant about ids and answers (JuliaSessionProofs).    *)
LinesInv ==
  /\ TypeOK
  /\ CommandInHand /\ LinesOK /\ ResultOwn /\ AnswersOwnCommand

(* A command is begun at most once: after a crash the session restarts the *)
(* daemon but leaves the retry to the caller, so a transform that already  *)
(* wrote its output is not silently run again.                             *)
NeverReplayed == \A k \in Commands : runs[k] <= 1

(* No process survives its replacement: whatever path a failed start, a    *)
(* crash or a shutdown takes, at most the newest daemon runs.              *)
OneDaemon == live \subseteq {spawns}

(* What makes OneDaemon inductive: but for the time a daemon is started,   *)
(* the session holds the process that runs.                                *)
ProcessOwned == pc \notin {"ready", "exited"} => live \subseteq {child}

(* What makes NeverReplayed and NoAnswerDiscarded inductive.  A command is *)
(* in at most one of the places it passes through: its caller, the         *)
(* channel, the actor's hands, the pipe; only then has a daemon begun it.  *)
Unsent(k) ==
  \/ k[2] > caller[k[1]].n
  \/ k[2] = caller[k[1]].n /\ caller[k[1]].pc = "sending"
Queued(k) == \E i \in 1..Len(queue) : queue[i] = k
Unwritten ==   \* the actor holds a command it has not written to a pipe
  \/ pc \in {"check", "write"}
  \/ pc \in {"restart", "ready"} /\ cont = "write"
Written(k) ==
  \/ \E i \in 1..Len(stdin) : stdin[i].cmd = k
  \/ \E i \in 1..Len(stdout) : stdout[i].cmd = k
  \/ daemon.cmd = k
  \/ runs[k] > 0

UnsentFresh ==
  \A k \in Commands : Unsent(k) => ~Queued(k) /\ ~Written(k) /\ ~(Unwritten /\ cmd = k)
QueueFresh ==
  \A i \in 1..Len(queue) :
    /\ ~Written(queue[i]) /\ (Unwritten => cmd # queue[i])
    /\ \A j \in 1..Len(queue) : queue[i] = queue[j] => i = j
CmdFresh == Unwritten => ~Written(cmd)
RequestsFresh ==
  \A i \in 1..Len(stdin) : stdin[i].kind = "request" =>
    /\ stdin[i].cmd \in Commands /\ runs[stdin[i].cmd] = 0
    /\ \A j \in 1..Len(stdin) : stdin[j].cmd = stdin[i].cmd => i = j
Begun(k) == k \in Commands => runs[k] = 1
AnswersBegun ==
  /\ Begun(daemon.cmd)
  /\ \A i \in 1..Len(stdout) : Begun(stdout[i].cmd)
  /\ pc = "reply" => res.kind # "none" /\ (res.kind = "ok" => Begun(res.of))
AnswerKnown(line) == pc = "await" /\ line.cmd = cmd => line.id = counter
AnswersKnown ==
  /\ \A i \in 1..Len(stdin) : AnswerKnown(stdin[i])
  /\ \A i \in 1..Len(stdout) : AnswerKnown(stdout[i])
  /\ AnswerKnown(daemon)

(* The inductive invariant of the session (JuliaSessionProofs).            *)
OnceInv ==
  /\ UnsentFresh /\ QueueFresh /\ CmdFresh /\ RequestsFresh
  /\ AnswersBegun /\ AnswersKnown /\ NeverReplayed
IInv == LinesInv /\ OneDaemon /\ ProcessOwned /\ OnceInv

(* Who waits for an answer has his command in the channel or in the hands  *)
(* of the actor, which replies before it lets go of it: no early return of *)
(* send_request, failed restart or shutdown leaves a handler without the   *)
(* answer it waits for.                                                    *)
NoCallForgotten ==
  \A c \in Clients : caller[c].pc = "waiting" =>
    LET k == <<c, caller[c].n>> IN Queued(k) \/ (InHand /\ cmd = k)

(* What makes NoCallForgotten inductive: nobody calls before the first     *)
(* daemon is ready, nor after the actor has left its loop.                 *)
NobodyCalls ==
  (pc \in {"closing", "closed", "exited"} \/ (pc = "ready" /\ cont = "boot"))
    => ~serving /\ InFlight = {}

(* Skipping lines whose id does not match never throws away the answer the *)
(* actor is waiting for.                                                   *)
NoAnswerDiscarded ==
  [][ pc = "await" /\ pc' = "await" /\ stdout # <<>> /\ stdout' = Tail(stdout)
        => Head(stdout).cmd # cmd ]_vars

(* With the budget spent and the last daemon gone no daemon ever runs      *)
(* again: try_restart only ever counts up.                                 *)
BudgetSpentForGood ==
  [][ restarts = MaxRestarts /\ live = {} => live' = {} ]_vars

(* Every call that gets into a handler is answered, with an answer or an   *)
(* error, whatever the daemon and the other callers do.                    *)
EveryCallAnswered ==
  \A c \in Clients : caller[c].pc # "idle" ~> caller[c].pc = "idle"

(* A daemon that does not hang does not outlive the runtime, crashed or    *)
(* not: it finds its stdin at an end or its stdout closed.                 *)
DaemonGoesWithRuntime == DaemonFairness => (pc = "exited" ~> live = {})

(* The session implements RequestService: what its caller sees of a call.  *)
Told(got, own) ==
  CASE got.kind = "none" -> "none"
    [] got.kind \in {"err", "timeout"} -> "error"
    [] got = Ok(own) -> "own"
    [] OTHER -> "another call's answer"
Seen == [c \in Clients |->
           [busy |-> caller[c].pc # "idle", n |-> caller[c].n,
            got |-> Told(caller[c].got, <<c, caller[c].n>>)]]
Service == INSTANCE RequestService WITH call <- Seen
ImplementsRequestService == Service!Spec

=============================================================================
