------------------------- MODULE JuliaSessionProofs -------------------------
(***************************************************************************)
(* Theorems about JuliaSession for every number of clients and calls and   *)
(* every capacity and budget: what is answered, and that the session keeps *)
(* what RequestService promises, with no command begun twice, no answer    *)
(* thrown away, no caller forgotten and no process left behind its         *)
(* replacement.                                                            *)
(***************************************************************************)
EXTENDS JuliaSession, TLAPS

(* What Tail and Append do to the lines of a pipe.                         *)
LEMMA TailFacts ==
  ASSUME NEW S, NEW s \in Seq(S), s # <<>>
  PROVE  /\ Tail(s) \in Seq(S) /\ Head(s) \in S /\ Head(s) = s[1]
         /\ Len(s) \in Nat /\ Len(s) > 0 /\ Len(Tail(s)) = Len(s) - 1
         /\ \A i \in 1..Len(Tail(s)) : i + 1 \in 1..Len(s) /\ Tail(s)[i] = s[i + 1]
  OBVIOUS

LEMMA AppendFacts ==
  ASSUME NEW S, NEW s \in Seq(S), NEW e \in S
  PROVE  /\ Append(s, e) \in Seq(S) /\ Len(Append(s, e)) = Len(s) + 1
         /\ \A i \in 1..Len(Append(s, e)) :
              \/ i \in 1..Len(s) /\ Append(s, e)[i] = s[i]
              \/ i = Len(s) + 1 /\ Append(s, e)[i] = e
  OBVIOUS

(* The constructors yield values of their types.                           *)
LEMMA LineTypes ==
  /\ \A i \in Nat, k \in Commands \cup {NoCmd} : Request(i, k) \in Line /\ Answer(i, k) \in Line
  /\ \A kind \in {"shutdown", "ready", "stray", "eof", "ioerr"} : Plain(kind) \in Line
  /\ <<>> \in Seq(Line)
  BY DEF Line, Request, Answer, Plain

LEMMA ResultTypes ==
  /\ None \in Result /\ Err \in Result /\ TimedOut \in Result
  /\ \A k \in Commands \cup {NoCmd} : Ok(k) \in Result
  BY DEF None, Err, TimedOut, Ok, Result

LEMMA DaemonStateTypes ==
  /\ Loading \in DaemonState /\ Idle \in DaemonState
  /\ \A i \in Nat, k \in Commands \cup {NoCmd} :
       [state |-> "busy", id |-> i, cmd |-> k] \in DaemonState
  BY DEF Loading, Idle, DaemonState

-----------------------------------------------------------------------------
LEMMA InitLinesInv == Init => LinesInv
  <1> SUFFICES ASSUME Init PROVE LinesInv
    OBVIOUS
  <1>1. HttpTypes
    <2>1. caller \in [Clients -> CallerState]
      BY SessionAssumption, ResultTypes DEF Init, CallerState
    <2>2. queue \in Seq(Commands) /\ Len(queue) <= QueueCap
      BY SessionAssumption DEF Init
    <2>3. \A c \in Clients : caller[c].pc = "sending" => caller[c].n > 0
      BY DEF Init
    <2>4. QED
      BY <2>1, <2>2, <2>3 DEF Init, HttpTypes
  <1>2. ActorTypes
    BY ResultTypes DEF Init, ActorTypes
  <1>3. SessionTypes
    <2>1. restarts \in 0..MaxRestarts /\ spawns \in 1..(restarts + 1)
      BY SessionAssumption DEF Init
    <2>2. child \in 0..spawns /\ live \subseteq 1..spawns /\ counter \in Nat
      BY DEF Init
    <2>3. healthy \in BOOLEAN
      BY DEF Init
    <2>4. QED
      BY <2>1, <2>2, <2>3 DEF SessionTypes
  <1>4. DaemonTypes
    BY SessionAssumption, DaemonStateTypes DEF Init, DaemonTypes
  <1>5. PipeTypes /\ RunsType
    BY LineTypes DEF Init, PipeTypes, RunsType
  <1>6. CommandInHand /\ LinesOK /\ ResultOwn /\ AnswersOwnCommand
    BY DEF Init, CommandInHand, InHand, LinesOK, LineOK, Loading, ResultOwn,
           AnswersOwnCommand, None
  <1>7. QED
    BY <1>1, <1>2, <1>3, <1>4, <1>5, <1>6 DEF LinesInv, TypeOK

-----------------------------------------------------------------------------
(* The handlers, the channel and the listener keep their types.            *)
LEMMA HttpTypesStep == LinesInv /\ [Next]_vars => HttpTypes'
  <1> SUFFICES ASSUME HttpTypes, ActorTypes, [Next]_vars PROVE HttpTypes'
    BY DEF LinesInv, TypeOK
  <1> DEFINE CallersOK == /\ caller \in [Clients -> CallerState]
                          /\ \A c \in Clients : caller[c].pc = "sending" => caller[c].n > 0
             QueueOK   == queue \in Seq(Commands) /\ Len(queue) <= QueueCap
  <1>0. CallersOK /\ QueueOK /\ serving \in BOOLEAN
    BY DEF HttpTypes
  <1>1. ASSUME NEW c \in Clients, Call(c) PROVE HttpTypes'
    <2>1. CallersOK'
      BY <1>0, <1>1, ResultTypes, SessionAssumption DEF Call, CallerState
    <2>2. QED
      BY <1>0, <1>1, <2>1 DEF Call, HttpTypes
  <1>2. ASSUME NEW c \in Clients, Send(c) PROVE HttpTypes'
    <2>1. CallersOK'
      BY <1>0, <1>2 DEF Send, CallerState
    <2>2. caller[c].n \in 1..MaxCalls
      BY <1>0, <1>2, SessionAssumption DEF Send, CallerState
    <2>3. QueueOK'
      BY <1>0, <1>2, <2>2, SessionAssumption DEF Send, Commands
    <2>4. QED
      BY <1>0, <1>2, <2>1, <2>3 DEF Send, HttpTypes
  <1>3. ASSUME NEW c \in Clients, HangUp(c) PROVE HttpTypes'
    <2>1. CallersOK'
      BY <1>0, <1>3 DEF HangUp, CallerState
    <2>2. QED
      BY <1>0, <1>3, <2>1 DEF HangUp, HttpTypes
  <1>4. CASE StopServing
    BY <1>0, <1>4 DEF StopServing, HttpTypes
  <1>5. CASE Recv
    <2>1. QueueOK'
      BY <1>0, <1>5, SessionAssumption DEF Recv
    <2>2. QED
      BY <1>0, <1>5, <2>1 DEF Recv, HttpTypes
  <1>6. CASE GotReady
    <2>1. serving' \in BOOLEAN
      BY <1>0, <1>6 DEF GotReady
    <2>2. QED
      BY <1>0, <1>6, <2>1 DEF GotReady, HttpTypes
  <1>7. CASE Reply
    <2>1. res \in Result
      BY DEF ActorTypes
    <2>2. CASE ~StillWaits(cmd)
      BY <1>0, <1>7, <2>2 DEF Reply, HttpTypes
    <2>3. CASE StillWaits(cmd)
      <3>1. caller' = [caller EXCEPT ![cmd[1]].pc = "idle", ![cmd[1]].got = res]
        BY <1>7, <2>3 DEF Reply
      <3>2. caller' \in [Clients -> CallerState]
        BY <1>0, <2>1, <3>1 DEF CallerState
      <3>3. \A c \in Clients : caller'[c].pc = "sending" => caller'[c].n > 0
        BY <1>0, <3>1 DEF CallerState
      <3>4. QED
        BY <1>0, <1>7, <3>2, <3>3 DEF Reply, HttpTypes
    <2>4. QED
      BY <2>2, <2>3
  <1>8. CASE RuntimeExit
    <2>1. CallersOK'
      BY <1>0, <1>8, ResultTypes DEF RuntimeExit, CallerState
    <2>2. queue' = <<>> /\ serving' \in BOOLEAN
      BY <1>8 DEF RuntimeExit
    <2>3. QueueOK'
      BY <2>2, SessionAssumption
    <2>4. QED
      BY <2>1, <2>2, <2>3 DEF HttpTypes
  <1>9. CASE UNCHANGED httpVars
    BY <1>9 DEF HttpTypes, httpVars
  <1>10. QED
    BY <1>1, <1>2, <1>3, <1>4, <1>5, <1>6, <1>7, <1>8, <1>9
    DEF Next, Handler, Actor, SendRequest, Daemon, vars, CheckAlive, BudgetSpent,
        Restart, RestartSpawnFails, SkipBeforeReady, NotReady, WriteRequest,
        BrokenPipe, ReadAnswer, ReadEof, ReadFails, ReadTimeout, DropSession,
        FinishShutdown, DaemonReady, DaemonRead, DaemonAnswer, DaemonQuits,
        DaemonStray, DaemonUnreadable, DaemonDies, ReaderEof

(* The actor's registers keep their types.                                 *)
LEMMA ActorTypesStep == LinesInv /\ [Next]_vars => ActorTypes'
  <1> SUFFICES ASSUME HttpTypes, ActorTypes, PipeTypes, [Next]_vars PROVE ActorTypes'
    BY DEF LinesInv, TypeOK
  <1>0. flag \in BOOLEAN /\ res \in Result /\ Err \in Result /\ TimedOut \in Result
        /\ None \in Result /\ cmd \in Commands \cup {NoCmd}
    BY ResultTypes DEF ActorTypes
  <1>1. CASE Recv
    <2>1. cmd' \in Commands
      BY <1>1 DEF Recv, HttpTypes
    <2>2. QED
      BY <1>1, <2>1 DEF Recv, ActorTypes
  <1>2. CASE CheckAlive
    BY <1>2 DEF CheckAlive, ActorTypes
  <1>3. CASE BudgetSpent \/ RestartSpawnFails \/ BrokenPipe \/ ReadFails
    BY <1>0, <1>3 DEF BudgetSpent, RestartSpawnFails, BrokenPipe, ReadFails, ActorTypes
  <1>4. CASE Restart \/ WriteRequest \/ DropSession \/ FinishShutdown \/ RuntimeExit
    BY <1>4 DEF Restart, WriteRequest, DropSession, FinishShutdown, RuntimeExit, ActorTypes
  <1>5. CASE GotReady
    <2>1. flag' \in BOOLEAN /\ res' \in Result
      BY <1>0, <1>5 DEF GotReady
    <2>2. pc' \in {"recv", "write", "reply"} /\ cont' = cont /\ cmd' = cmd
      BY <1>5 DEF GotReady, AfterReady, ActorTypes
    <2>3. QED
      BY <2>1, <2>2 DEF ActorTypes
  <1>6. CASE NotReady
    <2>1. res' \in Result /\ pc' \in {"reply", "exited"}
      BY <1>0, <1>6 DEF NotReady
    <2>2. QED
      BY <1>6, <2>1 DEF NotReady, ActorTypes
  <1>7. CASE ReadAnswer
    <2>0. Head(stdout) \in Line
      BY <1>7 DEF ReadAnswer, NextLine, PipeTypes
    <2>1. Head(stdout).cmd \in Commands \cup {NoCmd}
      BY <2>0 DEF Line
    <2>2. res' \in Result
      BY <1>0, <1>7, <2>1, ResultTypes DEF ReadAnswer
    <2>3. pc' \in {"reply", "await"}
      BY <1>7 DEF ReadAnswer
    <2>4. QED
      BY <1>7, <2>2, <2>3 DEF ReadAnswer, ActorTypes
  <1>8. CASE ReadEof
    BY <1>8 DEF ReadEof, ActorTypes
  <1>9. CASE ReadTimeout
    BY <1>0, <1>9 DEF ReadTimeout, ActorTypes
  <1>10. CASE Reply
    <2>1. flag' \in BOOLEAN
      BY <1>10 DEF Reply
    <2>2. res' \in Result /\ cmd' \in Commands \cup {NoCmd}
      BY <1>0, <1>10 DEF Reply
    <2>3. QED
      BY <1>10, <2>1, <2>2 DEF Reply, ActorTypes
  <1>11. CASE UNCHANGED actorVars
    BY <1>11 DEF ActorTypes, actorVars
  <1>12. QED
    BY <1>1, <1>2, <1>3, <1>4, <1>5, <1>6, <1>7, <1>8, <1>9, <1>10, <1>11
    DEF Next, Handler, Actor, SendRequest, Daemon, vars,
        Call, Send, HangUp, StopServing, SkipBeforeReady, DaemonReady,
        DaemonRead, DaemonAnswer, DaemonQuits, DaemonStray,
        DaemonUnreadable, DaemonDies, ReaderEof

(* The session's fields and the processes: the budget bounds the spawns.   *)
LEMMA SessionTypesStep == LinesInv /\ [Next]_vars => SessionTypes'
  <1> SUFFICES ASSUME SessionTypes, [Next]_vars PROVE SessionTypes'
    BY DEF LinesInv, TypeOK
  <1> DEFINE Numbers == /\ restarts \in 0..MaxRestarts /\ spawns \in 1..(restarts + 1)
                        /\ child \in 0..spawns /\ live \subseteq 1..spawns
                        /\ counter \in Nat
  <1>0. Numbers /\ healthy \in BOOLEAN
    BY DEF SessionTypes
  <1>1. CASE CheckAlive
    <2>1. healthy' \in BOOLEAN
      BY <1>0, <1>1 DEF CheckAlive
    <2>2. Numbers'
      BY <1>0, <1>1 DEF CheckAlive, procVars
    <2>3. QED
      BY <2>1, <2>2 DEF SessionTypes
  <1>2. CASE Restart
    <2>1. Numbers'
      BY <1>0, <1>2, SessionAssumption DEF Restart, KillOldAndCharge, Killed
    <2>2. QED
      BY <1>0, <1>2, <2>1 DEF Restart, SessionTypes
  <1>3. CASE RestartSpawnFails
    <2>1. Numbers'
      BY <1>0, <1>3, SessionAssumption DEF RestartSpawnFails, KillOldAndCharge, Killed
    <2>2. QED
      BY <1>0, <1>3, <2>1 DEF RestartSpawnFails, SessionTypes
  <1>4. CASE GotReady
    <2>1. Numbers'
      BY <1>0, <1>4 DEF GotReady, procVars
    <2>2. healthy' \in BOOLEAN
      BY <1>4 DEF GotReady
    <2>3. QED
      BY <2>1, <2>2 DEF SessionTypes
  <1>5. CASE NotReady
    <2>1. Numbers'
      BY <1>0, <1>5 DEF NotReady, sessionVars, Killed
    <2>2. QED
      BY <1>0, <1>5, <2>1 DEF NotReady, sessionVars, SessionTypes
  <1>6. CASE WriteRequest
    <2>1. Numbers'
      BY <1>0, <1>6 DEF WriteRequest, procVars
    <2>2. QED
      BY <1>0, <1>6, <2>1 DEF WriteRequest, SessionTypes
  <1>7. CASE BrokenPipe
    <2>1. Numbers'
      BY <1>0, <1>7 DEF BrokenPipe, procVars
    <2>2. QED
      BY <1>0, <1>7, <2>1 DEF BrokenPipe, SessionTypes
  <1>8. CASE ReadEof \/ ReadFails \/ ReadTimeout
    <2>1. Numbers' /\ healthy' = FALSE
      BY <1>0, <1>8 DEF ReadEof, ReadFails, ReadTimeout, procVars
    <2>2. QED
      BY <2>1 DEF SessionTypes
  <1>9. CASE FinishShutdown
    <2>1. Numbers' /\ healthy' = FALSE
      BY <1>0, <1>9 DEF FinishShutdown, Killed
    <2>2. QED
      BY <2>1 DEF SessionTypes
  <1>10. CASE DaemonReady \/ DaemonAnswer \/ DaemonQuits \/ DaemonDies
    <2>1. UNCHANGED <<sessionVars, spawns>> /\ live' \subseteq live
      BY <1>10 DEF DaemonReady, DaemonAnswer, DaemonQuits, DaemonDies, Say
    <2>2. Numbers'
      BY <1>0, <2>1 DEF sessionVars
    <2>3. QED
      BY <1>0, <2>1, <2>2 DEF SessionTypes, sessionVars
  <1>11. CASE UNCHANGED <<sessionVars, spawns, live>>
    BY <1>11 DEF SessionTypes, sessionVars
  <1>12. QED
    BY <1>1, <1>2, <1>3, <1>4, <1>5, <1>6, <1>7, <1>8, <1>9, <1>10, <1>11
    DEF Next, Handler, Actor, SendRequest, Daemon, vars,
        Call, Send, HangUp, StopServing, Recv, BudgetSpent,
        SkipBeforeReady, ReadAnswer, Reply, DropSession, RuntimeExit,
        DaemonRead, DaemonStray, DaemonUnreadable, ReaderEof, procVars

(* The daemon, the pipes and the execution counts keep their types.        *)
LEMMA DaemonTypesStep == LinesInv /\ [Next]_vars => DaemonTypes' /\ PipeTypes' /\ RunsType'
  <1> SUFFICES ASSUME ActorTypes, SessionTypes, DaemonTypes, PipeTypes, RunsType, [Next]_vars
               PROVE DaemonTypes' /\ PipeTypes' /\ RunsType'
    BY DEF LinesInv, TypeOK
  <1>0. /\ stdin \in Seq(Line) /\ stdout \in Seq(Line) /\ reader \in {"reading", "gone"}
        /\ daemon \in DaemonState /\ noise \in 0..MaxNoise
        /\ counter \in Nat /\ cmd \in Commands \cup {NoCmd}
    BY DEF PipeTypes, DaemonTypes, SessionTypes, ActorTypes
  <1>1. CASE Restart
    BY <1>0, <1>1, LineTypes, DaemonStateTypes
    DEF Restart, FreshPipes, DaemonTypes, PipeTypes, RunsType
  <1>2. CASE RestartSpawnFails \/ NotReady \/ FinishShutdown
    BY <1>0, <1>2, LineTypes
    DEF RestartSpawnFails, NotReady, FinishShutdown, DaemonTypes, PipeTypes, RunsType
  <1>3. CASE GotReady \/ SkipBeforeReady \/ ReadAnswer \/ ReadEof
    <2>1. stdout' = Tail(stdout) /\ stdout # <<>>
          /\ UNCHANGED <<daemon, noise, stdin, reader, runs>>
      BY <1>3 DEF GotReady, SkipBeforeReady, ReadAnswer, ReadEof, NextLine, procVars
    <2>2. stdout' \in Seq(Line)
      BY <1>0, <2>1
    <2>3. QED
      BY <2>1, <2>2 DEF DaemonTypes, PipeTypes, RunsType
  <1>4. CASE ReadFails
    <2>1. (stdout # <<>> /\ stdout' = Tail(stdout)) \/ stdout' = stdout
      BY <1>4 DEF ReadFails, NextLine
    <2>2. stdout' \in Seq(Line)
      BY <1>0, <2>1
    <2>3. QED
      BY <1>4, <2>2 DEF ReadFails, procVars, DaemonTypes, PipeTypes, RunsType
  <1>5. CASE WriteRequest
    <2>1. stdin' \in Seq(Line)
      BY <1>0, <1>5, LineTypes DEF WriteRequest, NextId
    <2>2. QED
      BY <1>5, <2>1 DEF WriteRequest, procVars, DaemonTypes, PipeTypes, RunsType
  <1>6. CASE DropSession
    <2>1. stdin' \in Seq(Line)
      BY <1>0, <1>6, LineTypes DEF DropSession
    <2>2. QED
      BY <1>6, <2>1 DEF DropSession, procVars, DaemonTypes, PipeTypes, RunsType
  <1>7. CASE RuntimeExit
    BY <1>0, <1>7, LineTypes DEF RuntimeExit, procVars, DaemonTypes, PipeTypes, RunsType
  <1>8. CASE DaemonReady
    <2>1. stdout' \in Seq(Line)
      BY <1>0, <1>8, LineTypes DEF DaemonReady, Say
    <2>2. QED
      BY <1>0, <1>8, <2>1, DaemonStateTypes
      DEF DaemonReady, Say, DaemonTypes, PipeTypes, RunsType
  <1>9. CASE DaemonRead
    <2>1. stdin' \in Seq(Line) /\ Head(stdin) \in Line
      BY <1>0, <1>9 DEF DaemonRead
    <2>2. daemon' \in DaemonState
      <3>1. Head(stdin).id \in Nat /\ Head(stdin).cmd \in Commands \cup {NoCmd}
        BY <2>1 DEF Line
      <3>2. QED
        BY <1>9, <3>1, DaemonStateTypes DEF DaemonRead
    <2>3. runs' \in [Commands -> Nat]
      <3> DEFINE k == Head(stdin).cmd
      <3>1. runs \in [Commands -> Nat] /\ runs' = [runs EXCEPT ![k] = runs[k] + 1]
        BY <1>9 DEF DaemonRead, RunsType
      <3> HIDE DEF k
      <3>2. CASE k \in Commands
        BY <3>1, <3>2
      <3>3. CASE k \notin Commands
        BY <3>1, <3>3
      <3>4. QED
        BY <3>2, <3>3
    <2>4. QED
      BY <1>9, <2>1, <2>2, <2>3 DEF DaemonRead, DaemonTypes, PipeTypes, RunsType
  <1>10. CASE DaemonAnswer
    <2>1. daemon.id \in Nat /\ daemon.cmd \in Commands \cup {NoCmd}
      BY <1>0 DEF DaemonState
    <2>2. stdout' \in Seq(Line)
      <3>1. Answer(daemon.id, daemon.cmd) \in Line
        BY <2>1, LineTypes
      <3>2. QED
        BY <1>0, <1>10, <3>1, SMTT(30) DEF DaemonAnswer, Say
    <2>3. QED
      BY <1>0, <1>10, <2>2, DaemonStateTypes
      DEF DaemonAnswer, Say, DaemonTypes, PipeTypes, RunsType
  <1>11. CASE DaemonStray
    <2>1. stdout' \in Seq(Line) /\ noise' \in 0..MaxNoise
      BY <1>0, <1>11, LineTypes, SessionAssumption DEF DaemonStray
    <2>2. QED
      BY <1>11, <2>1 DEF DaemonStray, DaemonTypes, PipeTypes, RunsType
  <1>12. CASE DaemonUnreadable
    <2>1. stdout' \in Seq(Line) /\ noise' \in 0..MaxNoise
      BY <1>0, <1>12, LineTypes, SessionAssumption DEF DaemonUnreadable
    <2>2. QED
      BY <1>12, <2>1, DaemonStateTypes DEF DaemonUnreadable, DaemonTypes, PipeTypes, RunsType
  <1>13. CASE ReaderEof
    <2>1. stdout' \in Seq(Line)
      BY <1>0, <1>13, LineTypes DEF ReaderEof
    <2>2. QED
      BY <1>13, <2>1 DEF ReaderEof, procVars, DaemonTypes, PipeTypes, RunsType
  <1>14. CASE UNCHANGED <<daemon, noise, pipeVars, runs>>
    BY <1>14 DEF DaemonTypes, PipeTypes, RunsType, pipeVars
  <1>15. QED
    BY <1>1, <1>2, <1>3, <1>4, <1>5, <1>6, <1>7, <1>8, <1>9, <1>10, <1>11, <1>12, <1>13, <1>14
    DEF Next, Handler, Actor, SendRequest, Daemon, vars,
        Call, Send, HangUp, StopServing, Recv, CheckAlive, BudgetSpent,
        BrokenPipe, ReadTimeout, Reply, DaemonQuits, DaemonDies, procVars,
        pipeVars

-----------------------------------------------------------------------------
(* Somebody's command is in the actor's hands whenever it works.           *)
LEMMA InHandStep == LinesInv /\ [Next]_vars => CommandInHand'
  <1> SUFFICES ASSUME LinesInv, [Next]_vars PROVE CommandInHand'
    OBVIOUS
  <1>0. CommandInHand /\ HttpTypes /\ ActorTypes
    BY DEF LinesInv, TypeOK
  <1>1. CASE Recv
    <2>1. cmd' \in Commands
      BY <1>0, <1>1 DEF Recv, HttpTypes
    <2>2. QED
      BY <1>1, <2>1 DEF Recv, CommandInHand, InHand
  <1>2. CASE CheckAlive
    BY <1>0, <1>2 DEF CheckAlive, CommandInHand, InHand
  <1>3. CASE BudgetSpent \/ Restart \/ RestartSpawnFails
    BY <1>0, <1>3 DEF BudgetSpent, Restart, RestartSpawnFails, CommandInHand, InHand
  <1>4. CASE GotReady
    BY <1>0, <1>4 DEF GotReady, AfterReady, CommandInHand, InHand, ActorTypes
  <1>5. CASE NotReady
    BY <1>0, <1>5 DEF NotReady, CommandInHand, InHand
  <1>6. CASE WriteRequest \/ BrokenPipe
    BY <1>0, <1>6 DEF WriteRequest, BrokenPipe, CommandInHand, InHand
  <1>7. CASE ReadAnswer \/ ReadEof \/ ReadFails \/ ReadTimeout
    BY <1>0, <1>7 DEF ReadAnswer, ReadEof, ReadFails, ReadTimeout, CommandInHand, InHand
  <1>8. CASE Reply \/ DropSession \/ FinishShutdown \/ RuntimeExit
    BY <1>8 DEF Reply, DropSession, FinishShutdown, RuntimeExit, CommandInHand, InHand
  <1>9. CASE UNCHANGED <<pc, cont, cmd>>
    BY <1>0, <1>9 DEF CommandInHand, InHand
  <1>10. QED
    BY <1>1, <1>2, <1>3, <1>4, <1>5, <1>6, <1>7, <1>8, <1>9
    DEF Next, Handler, Actor, SendRequest, Daemon, vars,
        Call, Send, HangUp, StopServing, SkipBeforeReady, DaemonReady,
        DaemonRead, DaemonAnswer, DaemonQuits, DaemonStray,
        DaemonUnreadable, DaemonDies, ReaderEof, actorVars

(* While no new id is given out, lines move from stdin to the daemon and   *)
(* on to stdout, or come in without an id.                                 *)
LEMMA LinesKept ==
  ASSUME LinesOK, counter \in Nat, counter' = counter,
         pc' = "await" => pc = "await" /\ cmd' = cmd,
         \A i \in 1..Len(stdin') :
            stdin'[i].id = 0 \/ \E j \in 1..Len(stdin) : stdin'[i] = stdin[j],
         \A i \in 1..Len(stdout') :
            \/ stdout'[i].id = 0
            \/ stdout'[i].id = daemon.id /\ stdout'[i].cmd = daemon.cmd
            \/ \E j \in 1..Len(stdout) : stdout'[i] = stdout[j],
         \/ daemon'.id = 0
         \/ daemon' = daemon
         \/ \E j \in 1..Len(stdin) : daemon'.id = stdin[j].id /\ daemon'.cmd = stdin[j].cmd
  PROVE  LinesOK'
  <1>1. pc' = "await" => counter' > 0
    BY DEF LinesOK
  <1>2. ASSUME NEW i \in 1..Len(stdin') PROVE LineOK(stdin[i])'
    BY <1>1, <1>2 DEF LinesOK, LineOK
  <1>3. ASSUME NEW i \in 1..Len(stdout') PROVE LineOK(stdout[i])'
    BY <1>1, <1>3 DEF LinesOK, LineOK
  <1>4. LineOK(daemon)'
    BY <1>1 DEF LinesOK, LineOK
  <1>5. QED
    BY <1>1, <1>2, <1>3, <1>4 DEF LinesOK

LEMMA LinesOKStep == LinesInv /\ [Next]_vars => LinesOK'
  <1> SUFFICES ASSUME LinesInv, [Next]_vars PROVE LinesOK'
    OBVIOUS
  <1>0. /\ LinesOK /\ counter \in Nat /\ cmd \in Commands \cup {NoCmd}
        /\ stdin \in Seq(Line) /\ stdout \in Seq(Line)
    BY DEF LinesInv, TypeOK, SessionTypes, ActorTypes, PipeTypes
  <1> DEFINE Quiet   == counter' = counter /\ (pc' = "await" => pc = "await" /\ cmd' = cmd)
             SameIn  == \A i \in 1..Len(stdin') :
                          stdin'[i].id = 0 \/ \E j \in 1..Len(stdin) : stdin'[i] = stdin[j]
             SameOut == \A i \in 1..Len(stdout') :
                          \/ stdout'[i].id = 0
                          \/ stdout'[i].id = daemon.id /\ stdout'[i].cmd = daemon.cmd
                          \/ \E j \in 1..Len(stdout) : stdout'[i] = stdout[j]
             SameJob == \/ daemon'.id = 0
                        \/ daemon' = daemon
                        \/ \E j \in 1..Len(stdin) :
                             daemon'.id = stdin[j].id /\ daemon'.cmd = stdin[j].cmd
  <1>a. /\ stdin' = stdin => SameIn
        /\ stdout' = stdout => SameOut
        /\ daemon' = daemon => SameJob
        /\ stdin' = <<>> => SameIn
        /\ stdout' = <<>> => SameOut
    OBVIOUS
  <1>b. stdout # <<>> /\ stdout' = Tail(stdout) => SameOut
    BY <1>0, TailFacts
  <1>c. stdin # <<>> /\ stdin' = Tail(stdin) => SameIn
    BY <1>0, TailFacts
  <1>d. \A kind \in {"shutdown", "ready", "stray", "eof", "ioerr"} :
          /\ stdout' = Append(stdout, Plain(kind)) => SameOut
          /\ stdin' = Append(stdin, Plain(kind)) => SameIn
    <2> TAKE kind \in {"shutdown", "ready", "stray", "eof", "ioerr"}
    <2>1. Plain(kind) \in Line /\ Plain(kind).id = 0
      BY LineTypes DEF Plain
    <2>2. stdout' = Append(stdout, Plain(kind)) => SameOut
      BY <1>0, <2>1, AppendFacts
    <2>3. stdin' = Append(stdin, Plain(kind)) => SameIn
      BY <1>0, <2>1, AppendFacts
    <2>4. QED
      BY <2>2, <2>3
  <1>e. /\ daemon.id \in Nat
        /\ \A i \in 1..Len(stdin) : stdin[i].id \in Nat
        /\ \A i \in 1..Len(stdout) : stdout[i].id \in Nat
    <2>1. daemon \in DaemonState
      BY DEF LinesInv, TypeOK, DaemonTypes
    <2>2. \A i \in 1..Len(stdin) : stdin[i] \in Line
      BY <1>0
    <2>3. \A i \in 1..Len(stdout) : stdout[i] \in Line
      BY <1>0
    <2>4. QED
      BY <2>1, <2>2, <2>3 DEF DaemonState, Line
  <1>1. ASSUME NEW c \in Clients, Handler(c) PROVE LinesOK'
    <2>1. Quiet /\ SameIn /\ SameOut /\ SameJob
      BY <1>a, <1>1 DEF Handler, Call, Send, HangUp, actorVars, sessionVars, procVars, pipeVars
    <2>2. QED
      BY <1>0, <2>1, LinesKept
  <1>2. CASE StopServing \/ Recv \/ CheckAlive \/ BudgetSpent \/ ReadTimeout \/ Reply
    <2>1. Quiet /\ SameIn /\ SameOut /\ SameJob
      BY <1>a, <1>2 DEF StopServing, Recv, CheckAlive, BudgetSpent, ReadTimeout, Reply,
                        actorVars, sessionVars, procVars, pipeVars
    <2>2. QED
      BY <1>0, <2>1, LinesKept
  <1>3. CASE Restart
    <2>1. Quiet /\ SameIn /\ SameOut /\ SameJob
      BY <1>a, <1>3 DEF Restart, FreshPipes, Loading
    <2>2. QED
      BY <1>0, <2>1, LinesKept
  <1>4. CASE RestartSpawnFails \/ NotReady \/ FinishShutdown
    <2>1. Quiet /\ SameIn /\ SameOut /\ SameJob
      BY <1>a, <1>4 DEF RestartSpawnFails, NotReady, FinishShutdown, sessionVars
    <2>2. QED
      BY <1>0, <2>1, LinesKept
  <1>5. CASE GotReady \/ SkipBeforeReady \/ ReadAnswer \/ ReadEof
    <2>1. /\ stdout # <<>> /\ stdout' = Tail(stdout) /\ stdin' = stdin /\ daemon' = daemon
          /\ counter' = counter
      BY <1>5 DEF GotReady, SkipBeforeReady, ReadAnswer, ReadEof, NextLine,
                  sessionVars, procVars
    <2>2. Quiet
      <3>1. CASE GotReady
        BY <3>1 DEF GotReady, AfterReady, LinesInv, TypeOK, ActorTypes
      <3>2. CASE SkipBeforeReady
        BY <3>2 DEF SkipBeforeReady, actorVars, sessionVars
      <3>3. CASE ReadAnswer
        BY <3>3 DEF ReadAnswer, sessionVars
      <3>4. CASE ReadEof
        BY <3>4 DEF ReadEof
      <3>5. QED
        BY <1>5, <3>1, <3>2, <3>3, <3>4
    <2>3. QED
      BY <1>0, <1>a, <1>b, <2>1, <2>2, LinesKept
  <1>6. CASE ReadFails
    <2>1. Quiet /\ SameIn /\ SameOut /\ SameJob
      BY <1>a, <1>b, <1>6 DEF ReadFails, NextLine, procVars
    <2>2. QED
      BY <1>0, <2>1, LinesKept
  <1>7. CASE WriteRequest
    <2>1. /\ counter' = counter + 1 /\ cmd' = cmd /\ stdout' = stdout /\ daemon' = daemon
          /\ stdin' = Append(stdin, Request(counter + 1, cmd))
      BY <1>7 DEF WriteRequest, NextId, procVars
    <2>2. LineOK(daemon)' /\ \A i \in 1..Len(stdout') : LineOK(stdout[i])'
      BY <1>0, <1>e, <2>1 DEF LinesOK, LineOK
    <2>3. Request(counter + 1, cmd) \in Line
      BY <1>0, LineTypes
    <2>4. ASSUME NEW i \in 1..Len(stdin') PROVE LineOK(stdin[i])'
      <3>1. CASE i \in 1..Len(stdin) /\ stdin'[i] = stdin[i]
        BY <1>0, <1>e, <2>1, <3>1 DEF LinesOK, LineOK
      <3>2. CASE stdin'[i] = Request(counter + 1, cmd)
        BY <1>0, <2>1, <3>2 DEF LineOK, Request
      <3>3. QED
        BY <1>0, <2>1, <2>3, <2>4, <3>1, <3>2, AppendFacts
    <2>5. QED
      BY <1>0, <2>1, <2>2, <2>4 DEF LinesOK
  <1>8. CASE BrokenPipe
    <2>1. counter' = counter + 1 /\ pc' = "reply" /\ UNCHANGED <<stdin, stdout, daemon>>
      BY <1>8 DEF BrokenPipe, procVars, pipeVars
    <2>2. QED
      BY <1>0, <1>e, <2>1 DEF LinesOK, LineOK
  <1>9. CASE DropSession
    <2>1. Quiet /\ SameIn /\ SameOut /\ SameJob
      BY <1>a, <1>d, <1>9 DEF DropSession, sessionVars, procVars
    <2>2. QED
      BY <1>0, <2>1, LinesKept
  <1>10. CASE RuntimeExit
    <2>1. Quiet /\ SameIn /\ SameOut /\ SameJob
      BY <1>a, <1>10 DEF RuntimeExit, sessionVars, procVars
    <2>2. QED
      BY <1>0, <2>1, LinesKept
  <1>11. CASE DaemonReady \/ DaemonAnswer
    <2>1. Quiet /\ stdin' = stdin /\ daemon' = Idle
      BY <1>11 DEF DaemonReady, DaemonAnswer, actorVars, sessionVars
    <2>2. \/ stdout' = stdout
          \/ stdout' = Append(stdout, Plain("ready"))
          \/ stdout' = Append(stdout, Answer(daemon.id, daemon.cmd))
      BY <1>11 DEF DaemonReady, DaemonAnswer, Say
    <2>3. Answer(daemon.id, daemon.cmd) \in Line
      BY LineTypes DEF LinesInv, TypeOK, DaemonTypes, DaemonState
    <2>4. stdout' = Append(stdout, Answer(daemon.id, daemon.cmd)) => SameOut
      BY <1>0, <2>3, AppendFacts DEF Answer
    <2>5. SameIn /\ SameOut /\ SameJob
      BY <1>a, <1>d, <2>1, <2>2, <2>4 DEF Idle
    <2>6. QED
      BY <1>0, <2>1, <2>5, LinesKept
  <1>12. CASE DaemonRead
    <2>1. Quiet /\ stdin # <<>> /\ stdin' = Tail(stdin) /\ stdout' = stdout
      BY <1>12 DEF DaemonRead, actorVars, sessionVars
    <2>2. 1 \in 1..Len(stdin) /\ daemon'.id = stdin[1].id /\ daemon'.cmd = stdin[1].cmd
      BY <1>0, <1>12, <2>1, TailFacts DEF DaemonRead
    <2>3. QED
      BY <1>0, <1>a, <1>c, <2>1, <2>2, LinesKept
  <1>13. CASE DaemonStray \/ DaemonUnreadable \/ ReaderEof
    <2>1. Quiet /\ SameIn /\ SameOut /\ SameJob
      BY <1>a, <1>d, <1>13
      DEF DaemonStray, DaemonUnreadable, ReaderEof, actorVars, sessionVars, procVars, Idle
    <2>2. QED
      BY <1>0, <2>1, LinesKept
  <1>14. CASE DaemonQuits \/ DaemonDies \/ UNCHANGED vars
    <2>1. Quiet /\ SameIn /\ SameOut /\ SameJob
      BY <1>a, <1>14 DEF DaemonQuits, DaemonDies, vars, actorVars, sessionVars, procVars, pipeVars
    <2>2. QED
      BY <1>0, <2>1, LinesKept
  <1>15. QED
    BY <1>1, <1>2, <1>3, <1>4, <1>5, <1>6, <1>7, <1>8, <1>9, <1>10, <1>11, <1>12, <1>13, <1>14
    DEF Next, Actor, SendRequest, Daemon

(* The line send_request accepts answers the command in hand; every other  *)
(* way to "reply" carries an error.                                        *)
LEMMA ResultOwnStep == LinesInv /\ [Next]_vars => ResultOwn'
  <1> SUFFICES ASSUME LinesInv, [Next]_vars PROVE ResultOwn'
    OBVIOUS
  <1>0. ResultOwn /\ LinesOK /\ stdout \in Seq(Line)
    BY DEF LinesInv, TypeOK, PipeTypes
  <1>1. CASE ReadAnswer
    <2>1. stdout # <<>> /\ pc = "await" /\ cmd' = cmd
      BY <1>1 DEF ReadAnswer, NextLine
    <2>2. LineOK(Head(stdout))
      BY <1>0, <2>1, TailFacts DEF LinesOK
    <2>3. CASE Matches(Head(stdout))
      <3>1. Head(stdout).cmd = cmd
        BY <2>1, <2>2, <2>3 DEF LineOK, Matches
      <3>2. res' = Ok(cmd)
        BY <1>1, <2>3, <3>1 DEF ReadAnswer
      <3>3. QED
        BY <2>1, <3>2 DEF ResultOwn, Ok
    <2>4. CASE ~Matches(Head(stdout))
      BY <1>1, <2>1, <2>4 DEF ReadAnswer, ResultOwn
    <2>5. QED
      BY <2>3, <2>4
  <1>2. CASE BudgetSpent \/ RestartSpawnFails \/ BrokenPipe \/ ReadFails \/ ReadTimeout
    BY <1>2 DEF BudgetSpent, RestartSpawnFails, BrokenPipe, ReadFails, ReadTimeout,
                ResultOwn, Err, TimedOut
  <1>3. CASE GotReady
    <2>1. pc' = "reply" => res' = Err
      BY <1>3 DEF GotReady, AfterReady, LinesInv, TypeOK, ActorTypes
    <2>2. QED
      BY <2>1 DEF ResultOwn, Err
  <1>4. CASE NotReady
    BY <1>4 DEF NotReady, ResultOwn, Err
  <1>5. CASE pc' # "reply"
    BY <1>5 DEF ResultOwn
  <1>6. CASE UNCHANGED <<pc, cmd, res>>
    BY <1>0, <1>6 DEF ResultOwn
  <1>7. QED
    BY <1>1, <1>2, <1>3, <1>4, <1>5, <1>6
    DEF Next, Handler, Actor, SendRequest, Daemon, vars,
        Call, Send, HangUp, StopServing, Recv, CheckAlive, Restart,
        SkipBeforeReady, WriteRequest, ReadEof, Reply, DropSession,
        FinishShutdown, RuntimeExit, DaemonReady, DaemonRead,
        DaemonAnswer, DaemonQuits, DaemonStray, DaemonUnreadable,
        DaemonDies, ReaderEof, actorVars

(* The oneshot of a command reaches the handler that waits for it or none. *)
LEMMA AnswersOwnStep == LinesInv /\ [Next]_vars => AnswersOwnCommand'
  <1> SUFFICES ASSUME LinesInv, [Next]_vars PROVE AnswersOwnCommand'
    OBVIOUS
  <1>0. /\ AnswersOwnCommand /\ ResultOwn /\ CommandInHand
        /\ caller \in [Clients -> CallerState]
    BY DEF LinesInv, TypeOK, HttpTypes
  <1>1. ASSUME NEW c \in Clients, Call(c) PROVE AnswersOwnCommand'
    BY <1>0, <1>1 DEF Call, AnswersOwnCommand, None, CallerState
  <1>2. ASSUME NEW c \in Clients, Send(c) PROVE AnswersOwnCommand'
    BY <1>0, <1>2 DEF Send, AnswersOwnCommand, CallerState
  <1>3. ASSUME NEW c \in Clients, HangUp(c) PROVE AnswersOwnCommand'
    BY <1>0, <1>3 DEF HangUp, AnswersOwnCommand, CallerState
  <1>4. CASE Reply
    <2>1. cmd \in Commands /\ (res.kind = "ok" => res.of = cmd)
      BY <1>0, <1>4 DEF Reply, CommandInHand, InHand, ResultOwn
    <2>2. cmd = <<cmd[1], cmd[2]>> /\ cmd[1] \in Clients
      BY <2>1 DEF Commands
    <2>3. CASE StillWaits(cmd)
      <3>1. caller' = [caller EXCEPT ![cmd[1]].pc = "idle", ![cmd[1]].got = res]
        BY <1>4, <2>3 DEF Reply
      <3>2. caller[cmd[1]].n = cmd[2]
        BY <2>3 DEF StillWaits
      <3>3. ASSUME NEW c \in Clients, caller'[c].got.kind = "ok"
            PROVE  caller'[c].got.of = <<c, caller'[c].n>>
        <4>1. CASE c = cmd[1]
          <5>1. caller'[c].got = res /\ caller'[c].n = cmd[2]
            BY <1>0, <2>2, <3>1, <3>2, <4>1 DEF CallerState
          <5>2. QED
            BY <2>1, <2>2, <3>3, <4>1, <5>1
        <4>2. CASE c # cmd[1]
          <5>1. caller'[c] = caller[c]
            BY <1>0, <3>1, <4>2
          <5>2. QED
            BY <1>0, <3>3, <5>1 DEF AnswersOwnCommand
        <4>3. QED
          BY <4>1, <4>2
      <3>4. QED
        BY <3>3 DEF AnswersOwnCommand
    <2>4. CASE ~StillWaits(cmd)
      BY <1>0, <1>4, <2>4 DEF Reply, AnswersOwnCommand
    <2>5. QED
      BY <2>3, <2>4
  <1>5. CASE RuntimeExit
    <2>1. ASSUME NEW c \in Clients, caller'[c].got.kind = "ok"
          PROVE  caller'[c] = caller[c]
      BY <1>0, <1>5, <2>1 DEF RuntimeExit, Err, CallerState
    <2>2. QED
      BY <1>0, <2>1 DEF AnswersOwnCommand
  <1>6. CASE UNCHANGED caller
    BY <1>0, <1>6 DEF AnswersOwnCommand
  <1>7. QED
    BY <1>1, <1>2, <1>3, <1>4, <1>5, <1>6
    DEF Next, Handler, Actor, SendRequest, Daemon, vars,
        StopServing, Recv, CheckAlive, BudgetSpent, Restart,
        RestartSpawnFails, GotReady, SkipBeforeReady, NotReady,
        WriteRequest, BrokenPipe, ReadAnswer, ReadEof, ReadFails,
        ReadTimeout, DropSession, FinishShutdown, DaemonReady, DaemonRead,
        DaemonAnswer, DaemonQuits, DaemonStray, DaemonUnreadable,
        DaemonDies, ReaderEof, httpVars

-----------------------------------------------------------------------------
(* LinesInv holds in every reachable state of the session.                 *)
THEOREM LinesInvariance == Spec => []LinesInv
  <1>1. Init => LinesInv
    BY InitLinesInv
  <1>2. LinesInv /\ [Next]_vars => LinesInv'
    BY HttpTypesStep, ActorTypesStep, SessionTypesStep, DaemonTypesStep, InHandStep,
       LinesOKStep, ResultOwnStep, AnswersOwnStep DEF LinesInv, TypeOK
  <1>3. QED
    BY <1>1, <1>2, PTL DEF Spec

(* Types, and with them the restart budget: restarts never exceeds         *)
(* MaxRestarts and at most one process is spawned per charge (try_restart).*)
THEOREM TypeCorrect == Spec => []TypeOK
  <1>1. LinesInv => TypeOK
    BY DEF LinesInv
  <1>2. QED
    BY <1>1, LinesInvariance, PTL

(* An answer only ever reaches the call it was computed for: the id check  *)
(* of send_request, with ids that are never reused.                        *)
THEOREM OwnAnswers == Spec => []AnswersOwnCommand
  <1>1. LinesInv => AnswersOwnCommand
    BY DEF LinesInv
  <1>2. QED
    BY <1>1, LinesInvariance, PTL

(* With the restart budget spent and no daemon left none is ever started.  *)
THEOREM BudgetIsFinal == Spec => BudgetSpentForGood
  <1>1. LinesInv /\ [Next]_vars => [restarts = MaxRestarts /\ live = {} => live' = {}]_vars
    <2> SUFFICES ASSUME SessionTypes, [Next]_vars, restarts = MaxRestarts, live = {}
                 PROVE  live' = {}
      BY DEF LinesInv, TypeOK
    <2>1. ~Restart
      BY SessionAssumption DEF Restart, KillOldAndCharge
    <2>2. CASE RestartSpawnFails \/ NotReady \/ FinishShutdown
      BY <2>2 DEF RestartSpawnFails, NotReady, FinishShutdown, Killed
    <2>3. CASE DaemonReady \/ DaemonAnswer \/ DaemonQuits \/ DaemonDies
      BY <2>3 DEF DaemonReady, DaemonAnswer, DaemonQuits, DaemonDies, Say
    <2>4. CASE UNCHANGED live
      BY <2>4
    <2>5. QED
      BY <2>1, <2>2, <2>3, <2>4
      DEF Next, Handler, Actor, SendRequest, Daemon, vars, procVars, Call, Send, HangUp,
          StopServing, Recv, CheckAlive, BudgetSpent, GotReady, SkipBeforeReady,
          WriteRequest, BrokenPipe, ReadAnswer, ReadEof, ReadFails, ReadTimeout, Reply,
          DropSession, RuntimeExit, DaemonRead, DaemonStray, DaemonUnreadable, ReaderEof
  <1>2. QED
    BY <1>1, LinesInvariance, PTL DEF Spec, BudgetSpentForGood

-----------------------------------------------------------------------------
(* A line without a command is nobody's.                                   *)
LEMMA NoCmdApart == NoCmd \notin Commands
  BY DEF NoCmd, Commands

LEMMA CommandParts ==
  ASSUME NEW k \in Commands
  PROVE  k = <<k[1], k[2]>> /\ k[1] \in Clients /\ k[2] \in Nat
  BY SessionAssumption DEF Commands

-----------------------------------------------------------------------------
(* Processes.                                                              *)

(* Every path to a new process passes over the old one's body.             *)
LEMMA OwnedStep ==
  LinesInv /\ OneDaemon /\ ProcessOwned /\ [Next]_vars => OneDaemon' /\ ProcessOwned'
  <1> SUFFICES ASSUME LinesInv, OneDaemon, ProcessOwned, [Next]_vars
               PROVE  OneDaemon' /\ ProcessOwned'
    OBVIOUS
  <1>1. CASE Restart
    <2>1. live' = {spawns + 1} /\ spawns' = spawns + 1 /\ pc' = "ready"
      BY <1>1 DEF Restart, Killed, ProcessOwned
    <2>2. QED
      BY <2>1 DEF OneDaemon, ProcessOwned
  <1>2. CASE RestartSpawnFails \/ FinishShutdown
    <2>1. live' = {}
      BY <1>2 DEF RestartSpawnFails, FinishShutdown, Killed, ProcessOwned
    <2>2. QED
      BY <2>1 DEF OneDaemon, ProcessOwned
  <1>3. CASE NotReady
    <2>1. live' = {}
      BY <1>3 DEF NotReady, Killed, OneDaemon
    <2>2. QED
      BY <2>1 DEF OneDaemon, ProcessOwned
  <1>4. CASE GotReady
    <2>1. child' = spawns /\ spawns' = spawns /\ live' = live
      BY <1>4 DEF GotReady, procVars
    <2>2. QED
      BY <2>1 DEF OneDaemon, ProcessOwned
  <1>5. CASE RuntimeExit
    BY <1>5 DEF RuntimeExit, OneDaemon, ProcessOwned, sessionVars, procVars
  <1>6. CASE DaemonReady \/ DaemonAnswer \/ DaemonQuits \/ DaemonDies
    <2>1. spawns' = spawns /\ child' = child /\ pc' = pc /\ live' \subseteq live
      BY <1>6 DEF DaemonReady, DaemonAnswer, DaemonQuits, DaemonDies, Say, sessionVars, actorVars
    <2>2. QED
      BY <2>1 DEF OneDaemon, ProcessOwned
  <1>7. CASE /\ UNCHANGED <<spawns, child, live>>
             /\ pc' \notin {"ready", "exited"} => pc \notin {"ready", "exited"}
    BY <1>7 DEF OneDaemon, ProcessOwned
  <1>8. QED
    BY <1>1, <1>2, <1>3, <1>4, <1>5, <1>6, <1>7
    DEF Next, Handler, Actor, SendRequest, Daemon, vars, actorVars, sessionVars, procVars,
        Call, Send, HangUp, StopServing, Recv, CheckAlive, BudgetSpent, SkipBeforeReady,
        WriteRequest, BrokenPipe, ReadAnswer, ReadEof, ReadFails, ReadTimeout, Reply,
        DropSession, DaemonRead, DaemonStray, DaemonUnreadable, ReaderEof

-----------------------------------------------------------------------------
(* Where commands and lines move in a step.                                *)

(* stdin grows by one request or the shutdown line, shrinks at its head.   *)
LEMMA StdinMoves ==
  ASSUME LinesInv, [Next]_vars, ~WriteRequest
  PROVE  \E d \in {0, 1} : \A i \in 1..Len(stdin') :
           \/ stdin'[i] = Plain("shutdown")
           \/ i + d \in 1..Len(stdin) /\ stdin'[i] = stdin[i + d]
  <1>0. stdin \in Seq(Line) /\ Plain("shutdown") \in Line
    BY LineTypes DEF LinesInv, TypeOK, PipeTypes
  <1>1. \/ stdin' = stdin \/ stdin' = <<>>
        \/ stdin # <<>> /\ stdin' = Tail(stdin)
        \/ stdin' = Append(stdin, Plain("shutdown"))
    BY DEF Next, Handler, Actor, SendRequest, Daemon, vars, pipeVars, FreshPipes,
        Call, Send, HangUp, StopServing, Recv, CheckAlive, BudgetSpent, Restart,
        RestartSpawnFails, GotReady, SkipBeforeReady, NotReady, BrokenPipe, ReadAnswer,
        ReadEof, ReadFails, ReadTimeout, Reply, DropSession, FinishShutdown, RuntimeExit,
        DaemonReady, DaemonRead, DaemonAnswer, DaemonQuits, DaemonStray,
        DaemonUnreadable, DaemonDies, ReaderEof
  <1>2. CASE stdin' = stdin \/ stdin' = <<>>
    <2>1. \A i \in 1..Len(stdin') : i + 0 \in 1..Len(stdin) /\ stdin'[i] = stdin[i + 0]
      BY <1>0, <1>2
    <2>2. QED
      BY <2>1
  <1>3. CASE stdin # <<>> /\ stdin' = Tail(stdin)
    <2>1. \A i \in 1..Len(stdin') : i + 1 \in 1..Len(stdin) /\ stdin'[i] = stdin[i + 1]
      BY <1>0, <1>3, TailFacts
    <2>2. QED
      BY <2>1
  <1>4. CASE stdin' = Append(stdin, Plain("shutdown"))
    <2>1. \A i \in 1..Len(stdin') :
            \/ stdin'[i] = Plain("shutdown")
            \/ i + 0 \in 1..Len(stdin) /\ stdin'[i] = stdin[i + 0]
      BY <1>0, <1>4, AppendFacts
    <2>2. QED
      BY <2>1
  <1>5. QED
    BY <1>1, <1>2, <1>3, <1>4

LEMMA WriteMoves ==
  ASSUME LinesInv, WriteRequest
  PROVE  /\ \A i \in 1..Len(stdin') :
              \/ i \in 1..Len(stdin) /\ stdin'[i] = stdin[i]
              \/ i = Len(stdin) + 1 /\ stdin'[i] = Request(NextId, cmd)
         /\ Len(stdin) \in Nat
         /\ cmd \in Commands /\ Unwritten
         /\ stdout' = stdout /\ daemon' = daemon /\ runs' = runs
         /\ pc' = "await" /\ cmd' = cmd /\ counter' = NextId
  <1>1. stdin \in Seq(Line) /\ counter \in Nat /\ cmd \in Commands
    BY DEF LinesInv, TypeOK, PipeTypes, SessionTypes, CommandInHand, InHand, WriteRequest
  <1>2. Request(NextId, cmd) \in Line
    BY <1>1, LineTypes DEF NextId
  <1>3. stdin' = Append(stdin, Request(NextId, cmd))
    BY DEF WriteRequest
  <1>4. \A i \in 1..Len(stdin') :
          \/ i \in 1..Len(stdin) /\ stdin'[i] = stdin[i]
          \/ i = Len(stdin) + 1 /\ stdin'[i] = Request(NextId, cmd)
    BY <1>1, <1>2, <1>3, AppendFacts
  <1>5. Len(stdin) \in Nat
    BY <1>1
  <1>6. QED
    BY <1>1, <1>4, <1>5 DEF WriteRequest, Unwritten, NextId, procVars

LEMMA StdoutMoves ==
  ASSUME LinesInv, [Next]_vars
  PROVE  \A i \in 1..Len(stdout') :
           \/ stdout'[i].cmd = NoCmd
           \/ stdout'[i].id = daemon.id /\ stdout'[i].cmd = daemon.cmd
           \/ \E j \in 1..Len(stdout) : stdout'[i] = stdout[j]
  <1>0. stdout \in Seq(Line) /\ daemon \in DaemonState
    BY DEF LinesInv, TypeOK, PipeTypes, DaemonTypes
  <1>1. \/ stdout' = stdout \/ stdout' = <<>>
        \/ stdout # <<>> /\ stdout' = Tail(stdout)
        \/ \E kind \in {"ready", "stray", "eof", "ioerr"} : stdout' = Append(stdout, Plain(kind))
        \/ stdout' = Append(stdout, Answer(daemon.id, daemon.cmd))
    BY DEF Next, Handler, Actor, SendRequest, Daemon, vars, pipeVars, FreshPipes, NextLine, Say,
        Call, Send, HangUp, StopServing, Recv, CheckAlive, BudgetSpent, Restart,
        RestartSpawnFails, GotReady, SkipBeforeReady, NotReady, WriteRequest, BrokenPipe,
        ReadAnswer, ReadEof, ReadFails, ReadTimeout, Reply, DropSession, FinishShutdown,
        RuntimeExit, DaemonReady, DaemonRead, DaemonAnswer, DaemonQuits, DaemonStray,
        DaemonUnreadable, DaemonDies, ReaderEof
  <1>2. CASE stdout' = stdout \/ stdout' = <<>>
    BY <1>0, <1>2
  <1>3. CASE stdout # <<>> /\ stdout' = Tail(stdout)
    BY <1>0, <1>3, TailFacts
  <1>4. ASSUME NEW kind \in {"ready", "stray", "eof", "ioerr"},
               stdout' = Append(stdout, Plain(kind))
        PROVE  \A i \in 1..Len(stdout') :
                 stdout'[i].cmd = NoCmd \/ \E j \in 1..Len(stdout) : stdout'[i] = stdout[j]
    <2>1. Plain(kind) \in Line /\ Plain(kind).cmd = NoCmd
      BY LineTypes DEF Plain
    <2>2. QED
      BY <1>0, <1>4, <2>1, AppendFacts
  <1>5. CASE stdout' = Append(stdout, Answer(daemon.id, daemon.cmd))
    <2>1. Answer(daemon.id, daemon.cmd) \in Line
      BY <1>0, LineTypes DEF DaemonState
    <2>2. QED
      BY <1>0, <1>5, <2>1, AppendFacts DEF Answer
  <1>6. QED
    BY <1>1, <1>2, <1>3, <1>4, <1>5

LEMMA DaemonMoves ==
  ASSUME LinesInv, [Next]_vars, ~DaemonRead
  PROVE  runs' = runs /\ (daemon'.cmd = NoCmd \/ daemon' = daemon)
  <1>1. runs' = runs
    BY DEF Next, Handler, Actor, SendRequest, Daemon, vars, procVars,
        Call, Send, HangUp, StopServing, Recv, CheckAlive, BudgetSpent, Restart,
        RestartSpawnFails, GotReady, SkipBeforeReady, NotReady, WriteRequest, BrokenPipe,
        ReadAnswer, ReadEof, ReadFails, ReadTimeout, Reply, DropSession, FinishShutdown,
        RuntimeExit, DaemonReady, DaemonAnswer, DaemonQuits, DaemonStray,
        DaemonUnreadable, DaemonDies, ReaderEof
  <1>2. daemon' = Idle \/ daemon' = Loading \/ daemon' = daemon
    BY DEF Next, Handler, Actor, SendRequest, Daemon, vars, procVars,
        Call, Send, HangUp, StopServing, Recv, CheckAlive, BudgetSpent, Restart,
        RestartSpawnFails, GotReady, SkipBeforeReady, NotReady, WriteRequest, BrokenPipe,
        ReadAnswer, ReadEof, ReadFails, ReadTimeout, Reply, DropSession, FinishShutdown,
        RuntimeExit, DaemonReady, DaemonAnswer, DaemonQuits, DaemonStray,
        DaemonUnreadable, DaemonDies, ReaderEof
  <1>3. QED
    BY <1>1, <1>2 DEF Idle, Loading

LEMMA ReadMoves ==
  ASSUME LinesInv, RequestsFresh, DaemonRead
  PROVE  /\ 1 \in 1..Len(stdin) /\ stdin[1].kind = "request" /\ stdin[1].cmd \in Commands
         /\ daemon'.id = stdin[1].id /\ daemon'.cmd = stdin[1].cmd
         /\ runs[stdin[1].cmd] = 0 /\ runs' = [runs EXCEPT ![stdin[1].cmd] = 1]
         /\ runs \in [Commands -> Nat]
         /\ \A i \in 1..Len(stdin') : i + 1 \in 1..Len(stdin) /\ stdin'[i] = stdin[i + 1]
         /\ UNCHANGED <<caller, queue, pc, cont, cmd, res, counter, stdout>>
  <1>1. stdin \in Seq(Line) /\ stdin # <<>> /\ runs \in [Commands -> Nat]
    BY DEF DaemonRead, LinesInv, TypeOK, PipeTypes, RunsType
  <1>2. 1 \in 1..Len(stdin) /\ Head(stdin) = stdin[1]
    BY <1>1, TailFacts
  <1>3. stdin[1].kind = "request" /\ stdin[1].cmd \in Commands /\ runs[stdin[1].cmd] = 0
    BY <1>2 DEF DaemonRead, RequestsFresh
  <1>4. runs' = [runs EXCEPT ![stdin[1].cmd] = 1]
    <2>1. runs[stdin[1].cmd] + 1 = 1
      BY <1>3
    <2>2. runs' = [runs EXCEPT ![stdin[1].cmd] = runs[stdin[1].cmd] + 1]
      BY <1>2 DEF DaemonRead
    <2>3. QED
      BY <2>1, <2>2
  <1>5. \A i \in 1..Len(stdin') : i + 1 \in 1..Len(stdin) /\ stdin'[i] = stdin[i + 1]
    BY <1>1, TailFacts DEF DaemonRead
  <1>6. daemon'.id = stdin[1].id /\ daemon'.cmd = stdin[1].cmd
    BY <1>2 DEF DaemonRead
  <1>7. UNCHANGED <<caller, queue, pc, cont, cmd, res, counter, stdout>>
    BY DEF DaemonRead, httpVars, actorVars, sessionVars
  <1>8. QED
    BY <1>1, <1>2, <1>3, <1>4, <1>5, <1>6, <1>7

(* A command is written by WriteRequest and by nothing else.               *)
LEMMA WrittenStep ==
  ASSUME LinesInv, RequestsFresh, [Next]_vars, NEW k \in Commands, Written(k)'
  PROVE  Written(k) \/ (WriteRequest /\ cmd = k)
  <1>1. k # NoCmd /\ Plain("shutdown").cmd = NoCmd
    BY NoCmdApart DEF Plain
  <1>2. CASE WriteRequest
    <2>1. \A i \in 1..Len(stdin') :
            \/ i \in 1..Len(stdin) /\ stdin'[i] = stdin[i]
            \/ i = Len(stdin) + 1 /\ stdin'[i] = Request(NextId, cmd)
      BY <1>2, WriteMoves
    <2>2. stdout' = stdout /\ daemon' = daemon /\ runs' = runs
      BY <1>2, WriteMoves
    <2>3. CASE \E i \in 1..Len(stdin') : stdin'[i].cmd = k
      BY <1>2, <2>1, <2>3 DEF Written, Request
    <2>4. CASE ~\E i \in 1..Len(stdin') : stdin'[i].cmd = k
      BY <2>2, <2>4 DEF Written
    <2>5. QED
      BY <2>3, <2>4
  <1>3. CASE ~WriteRequest
    <2>1. CASE \E i \in 1..Len(stdin') : stdin'[i].cmd = k
      <3>1. \A i \in 1..Len(stdin') :
              stdin'[i].cmd = NoCmd \/ \E j \in 1..Len(stdin) : stdin'[i] = stdin[j]
        BY <1>1, <1>3, StdinMoves
      <3>2. QED
        BY <1>1, <2>1, <3>1 DEF Written
    <2>2. CASE \E i \in 1..Len(stdout') : stdout'[i].cmd = k
      BY <1>1, <2>2, StdoutMoves DEF Written
    <2>3. CASE daemon'.cmd = k \/ runs'[k] > 0
      <3>1. CASE DaemonRead
        BY <2>3, <3>1, ReadMoves DEF Written
      <3>2. CASE ~DaemonRead
        BY <1>1, <2>3, <3>2, DaemonMoves DEF Written
      <3>3. QED
        BY <3>1, <3>2
    <2>4. QED
      BY <2>1, <2>2, <2>3 DEF Written
  <1>4. QED
    BY <1>2, <1>3

(* A call that was sent is not sent again: calls are numbered.             *)
LEMMA UnsentStep ==
  ASSUME LinesInv, [Next]_vars, NEW k \in Commands, Unsent(k)'
  PROVE  Unsent(k) /\ \A c \in Clients : Send(c) => k # <<c, caller[c].n>>
  <1>0. /\ caller \in [Clients -> CallerState]
        /\ k = <<k[1], k[2]>> /\ k[1] \in Clients /\ k[2] \in Nat
    BY CommandParts DEF LinesInv, TypeOK, HttpTypes
  <1>1. caller[k[1]].n \in Nat
    BY <1>0, SessionAssumption DEF CallerState
  <1>2. ASSUME NEW c \in Clients, Call(c) PROVE Unsent(k)
    <2>1. caller' = [caller EXCEPT ![c] =
                       [pc |-> "sending", n |-> caller[c].n + 1, got |-> None]]
      BY <1>2 DEF Call
    <2>2. CASE k[1] = c
      <3>1. caller'[k[1]].n = caller[k[1]].n + 1
        BY <1>0, <2>1, <2>2
      <3>2. QED
        BY <1>0, <1>1, <3>1 DEF Unsent
    <2>3. CASE k[1] # c
      BY <1>0, <2>1, <2>3 DEF Unsent
    <2>4. QED
      BY <2>2, <2>3
  <1>3. ASSUME NEW c \in Clients, Send(c) PROVE Unsent(k) /\ k # <<c, caller[c].n>>
    <2>1. caller' = [caller EXCEPT ![c].pc = "waiting"]
      BY <1>3 DEF Send
    <2>2. CASE k[1] = c
      <3>1. caller'[k[1]].n = caller[k[1]].n /\ caller'[k[1]].pc = "waiting"
        BY <1>0, <2>1, <2>2 DEF CallerState
      <3>2. k[2] > caller[k[1]].n
        BY <3>1 DEF Unsent
      <3>3. QED
        BY <1>0, <1>1, <2>2, <3>2 DEF Unsent
    <2>3. CASE k[1] # c
      BY <1>0, <2>1, <2>3 DEF Unsent
    <2>4. QED
      BY <2>2, <2>3
  <1>4. ASSUME NEW c \in Clients, HangUp(c) PROVE Unsent(k)
    BY <1>0, <1>4 DEF HangUp, CallerState, Unsent
  <1>5. ASSUME Reply PROVE Unsent(k)
    <2>1. cmd \in Commands
      BY <1>5 DEF LinesInv, CommandInHand, InHand, Reply
    <2>2. QED
      BY <1>0, <1>5, <2>1, CommandParts DEF Reply, CallerState, Unsent
  <1>6. ASSUME RuntimeExit PROVE Unsent(k)
    BY <1>0, <1>6 DEF RuntimeExit, CallerState, Unsent
  <1>7. ASSUME UNCHANGED caller PROVE Unsent(k)
    BY <1>7 DEF Unsent
  <1>8. Unsent(k)
    BY <1>2, <1>3, <1>4, <1>5, <1>6, <1>7
    DEF Next, Handler, Actor, SendRequest, Daemon, vars, httpVars,
        StopServing, Recv, CheckAlive, BudgetSpent, Restart,
        RestartSpawnFails, GotReady, SkipBeforeReady, NotReady,
        WriteRequest, BrokenPipe, ReadAnswer, ReadEof, ReadFails,
        ReadTimeout, DropSession, FinishShutdown, DaemonReady, DaemonRead,
        DaemonAnswer, DaemonQuits, DaemonStray,
        DaemonUnreadable, DaemonDies, ReaderEof
  <1>9. QED
    BY <1>3, <1>8

(* The actor takes a command in hand with Recv and by nothing else.        *)
LEMMA HandStep ==
  ASSUME LinesInv, [Next]_vars, ~Recv, Unwritten'
  PROVE  Unwritten /\ cmd' = cmd /\ ~WriteRequest
  <1>1. CASE CheckAlive
    BY <1>1 DEF CheckAlive, Unwritten, WriteRequest
  <1>2. CASE Restart
    BY <1>2 DEF Restart, Unwritten, WriteRequest
  <1>3. CASE GotReady
    BY <1>3 DEF GotReady, AfterReady, Unwritten, WriteRequest, LinesInv, TypeOK, ActorTypes
  <1>4. CASE NotReady \/ ReadEof \/ WriteRequest
    BY <1>4 DEF NotReady, ReadEof, Unwritten, WriteRequest
  <1>5. CASE BudgetSpent \/ RestartSpawnFails \/ BrokenPipe \/ ReadFails \/ ReadTimeout
    BY <1>5 DEF BudgetSpent, RestartSpawnFails, BrokenPipe, ReadFails, ReadTimeout, Unwritten
  <1>6. CASE ReadAnswer
    BY <1>6 DEF ReadAnswer, Unwritten, WriteRequest
  <1>7. CASE Reply \/ DropSession \/ FinishShutdown \/ RuntimeExit
    BY <1>7 DEF Reply, DropSession, FinishShutdown, RuntimeExit, Unwritten
  <1>8. CASE UNCHANGED <<pc, cont, cmd>>
    BY <1>8 DEF Unwritten, WriteRequest
  <1>9. QED
    BY <1>1, <1>2, <1>3, <1>4, <1>5, <1>6, <1>7, <1>8
    DEF Next, Handler, Actor, SendRequest, Daemon, vars,
        Call, Send, HangUp, StopServing, SkipBeforeReady, DaemonReady,
        DaemonRead, DaemonAnswer, DaemonQuits, DaemonStray,
        DaemonUnreadable, DaemonDies, ReaderEof, actorVars

LEMMA QueueMoves ==
  ASSUME [Next]_vars, ~Recv, \A c \in Clients : ~Send(c)
  PROVE  queue' = queue \/ queue' = <<>>
  BY DEF Next, Handler, Actor, SendRequest, Daemon, vars, httpVars,
        Call, HangUp, StopServing, CheckAlive, BudgetSpent, Restart,
        RestartSpawnFails, GotReady, SkipBeforeReady, NotReady, WriteRequest, BrokenPipe,
        ReadAnswer, ReadEof, ReadFails, ReadTimeout, Reply, DropSession, FinishShutdown,
        RuntimeExit, DaemonReady, DaemonRead, DaemonAnswer, DaemonQuits, DaemonStray,
        DaemonUnreadable, DaemonDies, ReaderEof

-----------------------------------------------------------------------------
(* A command is in one place at a time.                                    *)
LEMMA FreshStep ==
  LinesInv /\ OnceInv /\ [Next]_vars => UnsentFresh' /\ QueueFresh' /\ CmdFresh'
  <1> SUFFICES ASSUME LinesInv, OnceInv, [Next]_vars
               PROVE  UnsentFresh' /\ QueueFresh' /\ CmdFresh'
    OBVIOUS
  <1>0. /\ UnsentFresh /\ QueueFresh /\ CmdFresh /\ RequestsFresh
        /\ queue \in Seq(Commands) /\ caller \in [Clients -> CallerState]
        /\ Len(queue) \in Nat
    BY DEF OnceInv, LinesInv, TypeOK, HttpTypes
  <1>1. ASSUME NEW k \in Commands, ~Written(k), Unwritten => cmd # k
        PROVE  ~Written(k)'
    BY <1>0, <1>1, WrittenStep, WriteMoves
  <1>2. queue' \in Seq(Commands) /\ (Unwritten' => cmd' \in Commands)
    <2>1. HttpTypes' /\ CommandInHand'
      BY HttpTypesStep, InHandStep
    <2>2. QED
      BY <2>1 DEF HttpTypes, CommandInHand, InHand, Unwritten
  <1>3. ASSUME \A i \in 1..Len(queue') : \A k \in Commands : queue'[i] = k =>
                 /\ ~Written(k)' /\ (Unwritten' => cmd' # k)
                 /\ \A j \in 1..Len(queue') : queue'[j] = k => i = j
        PROVE  QueueFresh'
    BY <1>2, <1>3 DEF QueueFresh, Written
  <1>4. ASSUME \A k \in Commands : Unwritten' /\ cmd' = k => ~Written(k)'
        PROVE  CmdFresh'
    BY <1>2, <1>4 DEF CmdFresh, Written
  <1>5. CASE Recv
    <2>1. /\ queue # <<>> /\ cmd' = Head(queue) /\ queue' = Tail(queue)
          /\ 1 \in 1..Len(queue) /\ Head(queue) = queue[1] /\ queue[1] \in Commands
      BY <1>0, <1>5, TailFacts DEF Recv
    <2>2. \A i \in 1..Len(queue') : i + 1 \in 1..Len(queue) /\ queue'[i] = queue[i + 1]
      BY <1>0, <2>1, TailFacts
    <2>3. ~Unwritten
      BY <1>5 DEF Recv, Unwritten
    <2>4. UnsentFresh'
      <3> SUFFICES ASSUME NEW k \in Commands, Unsent(k)'
                   PROVE  ~Queued(k)' /\ ~Written(k)' /\ cmd' # k
        BY DEF UnsentFresh
      <3>1. ~Queued(k) /\ ~Written(k)
        BY <1>0, UnsentStep DEF UnsentFresh
      <3>2. ~Written(k)'
        BY <1>1, <2>3, <3>1
      <3>3. ~Queued(k)' /\ cmd' # k
        BY <2>1, <2>2, <3>1 DEF Queued
      <3>4. QED
        BY <3>2, <3>3
    <2>5. ASSUME NEW i \in 1..Len(queue'), NEW k \in Commands, queue'[i] = k
          PROVE  /\ ~Written(k)' /\ (Unwritten' => cmd' # k)
                 /\ \A j \in 1..Len(queue') : queue'[j] = k => i = j
      <3>1. i + 1 \in 1..Len(queue) /\ queue[i + 1] = k
        BY <2>2, <2>5
      <3>2. ~Written(k)'
        <4>1. ~Written(k)
          BY <1>0, <3>1 DEF QueueFresh
        <4>2. QED
          BY <1>1, <2>3, <4>1
      <3>3. cmd' # k
        <4>1. queue[1] = k => 1 = i + 1
          BY <1>0, <2>1, <3>1 DEF QueueFresh
        <4>2. QED
          BY <2>1, <4>1
      <3>4. ASSUME NEW j \in 1..Len(queue'), queue'[j] = k PROVE i = j
        <4>1. j + 1 \in 1..Len(queue) /\ queue[j + 1] = k
          BY <2>2, <3>4
        <4>2. i + 1 = j + 1
          BY <1>0, <3>1, <4>1 DEF QueueFresh
        <4>3. QED
          BY <4>2
      <3>5. QED
        BY <3>2, <3>3, <3>4
    <2>6. ASSUME NEW k \in Commands, cmd' = k PROVE ~Written(k)'
      <3>1. ~Written(k)
        BY <1>0, <2>1, <2>6 DEF QueueFresh
      <3>2. QED
        BY <1>1, <2>3, <3>1
    <2>7. QED
      BY <1>3, <1>4, <2>4, <2>5, <2>6
  <1>6. CASE ~Recv
    <2>0. Unwritten' => Unwritten /\ cmd' = cmd /\ ~WriteRequest
      BY <1>6, HandStep
    <2>1. ASSUME NEW c \in Clients, Send(c)
          PROVE  /\ <<c, caller[c].n>> \in Commands /\ Unsent(<<c, caller[c].n>>)
                 /\ queue' = Append(queue, <<c, caller[c].n>>)
      BY <1>0, <2>1, SessionAssumption
      DEF Send, LinesInv, TypeOK, HttpTypes, CallerState, Commands, Unsent
    <2>2. \A i \in 1..Len(queue') :
            \/ i \in 1..Len(queue) /\ queue'[i] = queue[i]
            \/ i = Len(queue) + 1 /\ \E c \in Clients : Send(c) /\ queue'[i] = <<c, caller[c].n>>
      <3>1. ASSUME NEW c \in Clients, Send(c)
            PROVE  \A i \in 1..Len(queue') :
                     \/ i \in 1..Len(queue) /\ queue'[i] = queue[i]
                     \/ i = Len(queue) + 1 /\ queue'[i] = <<c, caller[c].n>>
        <4> DEFINE k == <<c, caller[c].n>>
        <4>1. k \in Commands /\ queue' = Append(queue, k)
          BY <2>1, <3>1
        <4> HIDE DEF k
        <4>2. \A i \in 1..Len(queue') :
                \/ i \in 1..Len(queue) /\ queue'[i] = queue[i]
                \/ i = Len(queue) + 1 /\ queue'[i] = k
          BY <1>0, <4>1, AppendFacts
        <4>3. QED
          BY <4>2 DEF k
      <3>2. CASE \A c \in Clients : ~Send(c)
        <4>1. queue' = queue \/ queue' = <<>>
          BY <1>6, <3>2, QueueMoves
        <4>2. QED
          BY <1>0, <4>1
      <3>3. QED
        BY <3>1, <3>2
    <2>3. UnsentFresh'
      <3> SUFFICES ASSUME NEW k \in Commands, Unsent(k)'
                   PROVE  ~Queued(k)' /\ ~Written(k)' /\ ~(Unwritten' /\ cmd' = k)
        BY DEF UnsentFresh
      <3>1. ~Queued(k) /\ ~Written(k) /\ ~(Unwritten /\ cmd = k)
        BY <1>0, UnsentStep DEF UnsentFresh
      <3>2. ~Written(k)'
        BY <1>1, <3>1
      <3>3. \A c \in Clients : Send(c) => k # <<c, caller[c].n>>
        BY UnsentStep
      <3>4. ~Queued(k)'
        BY <2>2, <3>1, <3>3 DEF Queued
      <3>5. QED
        BY <2>0, <3>1, <3>2, <3>4
    <2>4. ASSUME NEW i \in 1..Len(queue'), NEW k \in Commands, queue'[i] = k
          PROVE  /\ ~Written(k)' /\ (Unwritten' => cmd' # k)
                 /\ \A j \in 1..Len(queue') : queue'[j] = k => i = j
      <3>1. CASE i \in 1..Len(queue) /\ queue'[i] = queue[i]
        <4>1. Queued(k) /\ ~Written(k) /\ (Unwritten => cmd # k)
          BY <1>0, <2>4, <3>1 DEF QueueFresh, Queued
        <4>2. \A c \in Clients : Send(c) => k # <<c, caller[c].n>>
          BY <1>0, <2>1, <4>1 DEF UnsentFresh
        <4>3. \A j \in 1..Len(queue') : queue'[j] = k => i = j
          BY <1>0, <2>2, <2>4, <3>1, <4>2 DEF QueueFresh
        <4>4. QED
          BY <1>1, <2>0, <4>1, <4>3
      <3>2. CASE i = Len(queue) + 1 /\ \E c \in Clients : Send(c) /\ queue'[i] = <<c, caller[c].n>>
        <4>1. Unsent(k)
          BY <2>1, <2>4, <3>2
        <4>2. ~Queued(k) /\ ~Written(k) /\ (Unwritten => cmd # k)
          BY <1>0, <4>1 DEF UnsentFresh
        <4>3. \A j \in 1..Len(queue') : queue'[j] = k => i = j
          BY <2>2, <3>2, <4>2 DEF Queued
        <4>4. QED
          BY <1>1, <2>0, <4>2, <4>3
      <3>3. QED
        BY <2>2, <3>1, <3>2
    <2>5. ASSUME NEW k \in Commands, Unwritten', cmd' = k PROVE ~Written(k)'
      <3>1. ~WriteRequest /\ ~Written(k)
        BY <1>0, <2>0, <2>5 DEF CmdFresh
      <3>2. QED
        BY <1>0, <3>1, WrittenStep
    <2>6. QED
      BY <1>3, <1>4, <2>3, <2>4, <2>5
  <1>7. QED
    BY <1>5, <1>6

(* A request is read once: what follows it in the pipe is another command's. *)
LEMMA RequestsStep == LinesInv /\ OnceInv /\ [Next]_vars => RequestsFresh'
  <1> SUFFICES ASSUME LinesInv, OnceInv, [Next]_vars PROVE RequestsFresh'
    OBVIOUS
  <1>0. CmdFresh /\ RequestsFresh /\ runs \in [Commands -> Nat] /\ stdin \in Seq(Line)
    BY DEF OnceInv, LinesInv, TypeOK, RunsType, PipeTypes
  <1>s. Plain("shutdown").kind # "request" /\ Plain("shutdown").cmd = NoCmd
    BY DEF Plain
  <1> SUFFICES ASSUME NEW i \in 1..Len(stdin'), stdin'[i].kind = "request"
               PROVE  /\ stdin'[i].cmd \in Commands /\ runs'[stdin'[i].cmd] = 0
                      /\ \A j \in 1..Len(stdin') : stdin'[j].cmd = stdin'[i].cmd => i = j
    BY DEF RequestsFresh
  <1>1. CASE WriteRequest
    <2>1. /\ \A j \in 1..Len(stdin') :
               \/ j \in 1..Len(stdin) /\ stdin'[j] = stdin[j]
               \/ j = Len(stdin) + 1 /\ stdin'[j].cmd = cmd
          /\ cmd \in Commands /\ ~Written(cmd) /\ runs' = runs /\ Len(stdin) \in Nat
      BY <1>0, <1>1, WriteMoves DEF CmdFresh, Request
    <2>2. runs[cmd] = 0 /\ \A j \in 1..Len(stdin) : stdin[j].cmd # cmd
      BY <1>0, <2>1 DEF Written
    <2>3. QED
      BY <1>0, <2>1, <2>2 DEF RequestsFresh
  <1>2. CASE DaemonRead
    <2>1. /\ 1 \in 1..Len(stdin) /\ runs' = [runs EXCEPT ![stdin[1].cmd] = 1]
          /\ \A j \in 1..Len(stdin') : j + 1 \in 1..Len(stdin) /\ stdin'[j] = stdin[j + 1]
      BY <1>0, <1>2, ReadMoves
    <2>2. /\ stdin[i + 1].cmd \in Commands /\ runs[stdin[i + 1].cmd] = 0
          /\ \A j \in 1..Len(stdin) : stdin[j].cmd = stdin[i + 1].cmd => i + 1 = j
      BY <1>0, <2>1 DEF RequestsFresh
    <2>3. stdin[1].cmd # stdin[i + 1].cmd
      BY <2>1, <2>2
    <2>4. runs'[stdin'[i].cmd] = 0
      BY <1>0, <2>1, <2>2, <2>3
    <2>5. \A j \in 1..Len(stdin') : stdin'[j].cmd = stdin'[i].cmd => i = j
      BY <2>1, <2>2
    <2>6. QED
      BY <2>1, <2>2, <2>4, <2>5
  <1>3. CASE ~WriteRequest /\ ~DaemonRead
    <2>1. PICK d \in {0, 1} : \A j \in 1..Len(stdin') :
            \/ stdin'[j] = Plain("shutdown")
            \/ j + d \in 1..Len(stdin) /\ stdin'[j] = stdin[j + d]
      BY <1>3, StdinMoves
    <2>2. runs' = runs
      BY <1>3, DaemonMoves
    <2>3. i + d \in 1..Len(stdin) /\ stdin'[i] = stdin[i + d]
      BY <1>s, <2>1
    <2>4. /\ stdin[i + d].cmd \in Commands /\ runs[stdin[i + d].cmd] = 0
          /\ \A j \in 1..Len(stdin) : stdin[j].cmd = stdin[i + d].cmd => i + d = j
      BY <1>0, <2>3 DEF RequestsFresh
    <2>5. ASSUME NEW j \in 1..Len(stdin'), stdin'[j].cmd = stdin'[i].cmd PROVE i = j
      <3>1. stdin'[j].cmd # NoCmd
        BY <2>3, <2>4, <2>5, NoCmdApart
      <3>2. j + d \in 1..Len(stdin) /\ stdin'[j] = stdin[j + d]
        BY <1>s, <2>1, <3>1
      <3>3. i + d = j + d
        BY <2>3, <2>4, <2>5, <3>2
      <3>4. QED
        BY <3>3
    <2>6. QED
      BY <2>2, <2>3, <2>4, <2>5
  <1>4. QED
    BY <1>1, <1>2, <1>3

(* Whatever a daemon answers, and whatever the actor replies, was begun.   *)
LEMMA BegunStep == LinesInv /\ OnceInv /\ [Next]_vars => AnswersBegun' /\ NeverReplayed'
  <1> SUFFICES ASSUME LinesInv, OnceInv, [Next]_vars PROVE AnswersBegun' /\ NeverReplayed'
    OBVIOUS
  <1>0. /\ RequestsFresh /\ AnswersBegun /\ NeverReplayed
        /\ runs \in [Commands -> Nat] /\ stdout \in Seq(Line)
    BY DEF OnceInv, LinesInv, TypeOK, RunsType, PipeTypes
  <1>1. ASSUME NEW k, Begun(k) PROVE k \in Commands => runs'[k] = 1
    <2>1. CASE DaemonRead
      BY <1>0, <1>1, <2>1, ReadMoves DEF Begun
    <2>2. CASE ~DaemonRead
      BY <1>1, <2>2, DaemonMoves DEF Begun
    <2>3. QED
      BY <2>1, <2>2
  <1>2. daemon'.cmd \in Commands => runs'[daemon'.cmd] = 1
    <2>1. CASE DaemonRead
      BY <1>0, <2>1, ReadMoves
    <2>2. CASE ~DaemonRead
      BY <1>0, <1>1, <2>2, DaemonMoves, NoCmdApart DEF AnswersBegun
    <2>3. QED
      BY <2>1, <2>2
  <1>3. ASSUME NEW i \in 1..Len(stdout')
        PROVE  stdout'[i].cmd \in Commands => runs'[stdout'[i].cmd] = 1
    <2>1. CASE stdout'[i].cmd = NoCmd
      BY <2>1, NoCmdApart
    <2>2. CASE stdout'[i].cmd = daemon.cmd
      BY <1>0, <1>1, <2>2 DEF AnswersBegun
    <2>3. CASE \E j \in 1..Len(stdout) : stdout'[i] = stdout[j]
      BY <1>0, <1>1, <2>3 DEF AnswersBegun
    <2>4. QED
      BY <2>1, <2>2, <2>3, StdoutMoves
  <1>4. ASSUME pc' = "reply"
        PROVE  res'.kind # "none" /\ (res'.kind = "ok" => (res'.of \in Commands => runs'[res'.of] = 1))
    <2>1. CASE ReadAnswer
      <3>1. res' = Ok(Head(stdout).cmd) /\ stdout # <<>>
        BY <1>4, <2>1 DEF ReadAnswer, NextLine
      <3>2. Begun(Head(stdout).cmd)
        BY <1>0, <3>1, TailFacts DEF AnswersBegun
      <3>3. QED
        BY <1>1, <3>1, <3>2 DEF Ok
    <2>2. CASE BudgetSpent \/ RestartSpawnFails \/ BrokenPipe \/ ReadFails \/ ReadTimeout
      BY <2>2 DEF BudgetSpent, RestartSpawnFails, BrokenPipe, ReadFails, ReadTimeout, Err, TimedOut
    <2>3. CASE GotReady
      BY <1>4, <2>3 DEF GotReady, AfterReady, LinesInv, TypeOK, ActorTypes, Err
    <2>4. CASE NotReady
      BY <1>4, <2>4 DEF NotReady, Err
    <2>5. CASE UNCHANGED <<pc, res>>
      BY <1>0, <1>1, <1>4, <2>5 DEF AnswersBegun
    <2>6. QED
      BY <1>4, <2>1, <2>2, <2>3, <2>4, <2>5
      DEF Next, Handler, Actor, SendRequest, Daemon, vars,
        Call, Send, HangUp, StopServing, Recv, CheckAlive, Restart,
        SkipBeforeReady, WriteRequest, ReadEof, Reply, DropSession,
        FinishShutdown, RuntimeExit, DaemonReady, DaemonRead,
        DaemonAnswer, DaemonQuits, DaemonStray, DaemonUnreadable,
        DaemonDies, ReaderEof, actorVars
  <1>5. AnswersBegun'
    BY <1>2, <1>3, <1>4 DEF AnswersBegun, Begun
  <1>6. NeverReplayed'
    <2>1. CASE DaemonRead
      BY <1>0, <2>1, ReadMoves DEF NeverReplayed
    <2>2. CASE ~DaemonRead
      BY <1>0, <2>2, DaemonMoves DEF NeverReplayed
    <2>3. QED
      BY <2>1, <2>2
  <1>7. QED
    BY <1>5, <1>6

(* While the actor awaits an answer it holds one command and one id.       *)
LEMMA AwaitStep ==
  ASSUME LinesInv, [Next]_vars, ~WriteRequest, pc' = "await"
  PROVE  pc = "await" /\ cmd' = cmd /\ counter' = counter
  <1>1. CASE GotReady
    BY <1>1 DEF GotReady, AfterReady, LinesInv, TypeOK, ActorTypes
  <1>2. CASE ReadAnswer
    BY <1>2 DEF ReadAnswer, sessionVars
  <1>3. CASE UNCHANGED <<pc, cmd, counter>>
    BY <1>3
  <1>4. CASE pc' # "await"
    BY <1>4
  <1>5. QED
    BY <1>1, <1>2, <1>3, <1>4
    DEF Next, Handler, Actor, SendRequest, Daemon, vars,
        Call, Send, HangUp, StopServing, Recv, CheckAlive, BudgetSpent, Restart,
        RestartSpawnFails, SkipBeforeReady, NotReady, BrokenPipe, ReadEof, ReadFails,
        ReadTimeout, Reply, DropSession, FinishShutdown, RuntimeExit, DaemonReady,
        DaemonRead, DaemonAnswer, DaemonQuits, DaemonStray, DaemonUnreadable,
        DaemonDies, ReaderEof, actorVars, sessionVars

(* The only line that carries the awaited command carries the awaited id.  *)
LEMMA KnownStep == LinesInv /\ OnceInv /\ [Next]_vars => AnswersKnown'
  <1> SUFFICES ASSUME LinesInv, OnceInv, [Next]_vars PROVE AnswersKnown'
    OBVIOUS
  <1>0. CmdFresh /\ RequestsFresh /\ AnswersKnown /\ CommandInHand
    BY DEF OnceInv, LinesInv
  <1> SUFFICES ASSUME pc' = "await"
               PROVE  /\ \A i \in 1..Len(stdin') : stdin'[i].cmd = cmd' => stdin'[i].id = counter'
                      /\ \A i \in 1..Len(stdout') : stdout'[i].cmd = cmd' => stdout'[i].id = counter'
                      /\ daemon'.cmd = cmd' => daemon'.id = counter'
    BY DEF AnswersKnown, AnswerKnown
  <1>1. CASE WriteRequest
    <2>1. /\ ~Written(cmd) /\ cmd' = cmd /\ counter' = NextId
          /\ stdout' = stdout /\ daemon' = daemon
      BY <1>0, <1>1, WriteMoves DEF CmdFresh
    <2>2. \A i \in 1..Len(stdin') :
            \/ i \in 1..Len(stdin) /\ stdin'[i] = stdin[i]
            \/ stdin'[i].id = NextId
      BY <1>1, WriteMoves DEF Request
    <2>3. QED
      BY <2>1, <2>2 DEF Written
  <1>2. CASE ~WriteRequest
    <2>1. pc = "await" /\ cmd' = cmd /\ counter' = counter
      BY <1>2, AwaitStep
    <2>2. cmd # NoCmd
      BY <1>0, <2>1, NoCmdApart DEF CommandInHand, InHand
    <2>3. /\ \A i \in 1..Len(stdin) : stdin[i].cmd = cmd => stdin[i].id = counter
          /\ \A i \in 1..Len(stdout) : stdout[i].cmd = cmd => stdout[i].id = counter
          /\ daemon.cmd = cmd => daemon.id = counter
      BY <1>0, <2>1 DEF AnswersKnown, AnswerKnown
    <2>4. \A i \in 1..Len(stdin') :
            stdin'[i].cmd = NoCmd \/ \E j \in 1..Len(stdin) : stdin'[i] = stdin[j]
      BY <1>2, StdinMoves DEF Plain
    <2>5. \/ daemon'.cmd = NoCmd \/ daemon' = daemon
          \/ \E j \in 1..Len(stdin) : daemon'.id = stdin[j].id /\ daemon'.cmd = stdin[j].cmd
      BY <1>0, DaemonMoves, ReadMoves
    <2>6. \A i \in 1..Len(stdout') : stdout'[i].cmd = cmd => stdout'[i].id = counter
      BY <2>2, <2>3, StdoutMoves
    <2>7. \A i \in 1..Len(stdin') : stdin'[i].cmd = cmd => stdin'[i].id = counter
      BY <2>2, <2>3, <2>4
    <2>8. daemon'.cmd = cmd => daemon'.id = counter
      BY <2>2, <2>3, <2>5
    <2>9. QED
      BY <2>1, <2>6, <2>7, <2>8
  <1>3. QED
    BY <1>1, <1>2

-----------------------------------------------------------------------------
LEMMA InitIInv == Init => IInv
  <1> SUFFICES ASSUME Init PROVE IInv
    OBVIOUS
  <1>0. /\ pc = "ready" /\ cont = "boot" /\ queue = <<>> /\ stdin = <<>> /\ stdout = <<>>
        /\ daemon.cmd = NoCmd /\ runs = [k \in Commands |-> 0]
        /\ spawns = 1 /\ live = {1}
    BY DEF Init, Loading
  <1>1. OneDaemon /\ ProcessOwned
    BY <1>0 DEF OneDaemon, ProcessOwned
  <1>2. ~Unwritten /\ \A k \in Commands : ~Written(k) /\ ~Queued(k)
    BY <1>0, NoCmdApart DEF Unwritten, Written, Queued
  <1>3. UnsentFresh /\ QueueFresh /\ CmdFresh
    BY <1>0, <1>2 DEF UnsentFresh, QueueFresh, CmdFresh
  <1>4. RequestsFresh /\ NeverReplayed
    BY <1>0 DEF RequestsFresh, NeverReplayed
  <1>5. AnswersBegun /\ AnswersKnown
    BY <1>0, NoCmdApart DEF AnswersBegun, Begun, AnswersKnown, AnswerKnown
  <1>6. QED
    BY <1>1, <1>3, <1>4, <1>5, InitLinesInv DEF IInv, OnceInv

(* IInv holds in every reachable state of the session.                     *)
THEOREM Invariance == Spec => []IInv
  <1>1. IInv /\ [Next]_vars => OneDaemon' /\ ProcessOwned' /\ OnceInv'
    BY OwnedStep, FreshStep, RequestsStep, BegunStep, KnownStep DEF IInv, OnceInv
  <1>2. Init => OneDaemon /\ ProcessOwned /\ OnceInv
    BY InitIInv DEF IInv
  <1>3. IInv <=> LinesInv /\ OneDaemon /\ ProcessOwned /\ OnceInv
    BY DEF IInv
  <1>4. QED
    BY <1>1, <1>2, <1>3, LinesInvariance, PTL DEF Spec

(* However a start, a restart or a shutdown fails, no process outlives the *)
(* one that replaces it (JuliaSession::start, try_restart, shutdown).      *)
THEOREM OneDaemonOnly == Spec => []OneDaemon
  <1>1. IInv => OneDaemon
    BY DEF IInv
  <1>2. QED
    BY <1>1, Invariance, PTL

(* No daemon begins a command a second time: send_request restarts the     *)
(* daemon after a crash and fails the command instead of writing it again. *)
THEOREM BegunOnce == Spec => []NeverReplayed
  <1>1. IInv => NeverReplayed
    BY DEF IInv, OnceInv
  <1>2. QED
    BY <1>1, Invariance, PTL

-----------------------------------------------------------------------------
(* Nobody is forgotten.                                                    *)

(* Before the first daemon is ready nobody is served; the actor leaves its *)
(* loop when nobody is left.                                               *)
LEMMA QuietStep == LinesInv /\ NobodyCalls /\ [Next]_vars => NobodyCalls'
  <1> SUFFICES ASSUME LinesInv, NobodyCalls, [Next]_vars PROVE NobodyCalls'
    OBVIOUS
  <1> DEFINE Quiet == pc \in {"closing", "closed", "exited"} \/ (pc = "ready" /\ cont = "boot")
  <1>0. CommandInHand /\ ActorTypes /\ caller \in [Clients -> CallerState]
    BY DEF LinesInv, TypeOK, HttpTypes
  <1>1. ASSUME NEW c \in Clients, Handler(c) PROVE NobodyCalls'
    <2>1. ~Quiet
      BY <1>1 DEF Handler, Call, Send, HangUp, NobodyCalls, InFlight
    <2>2. ~Quiet'
      BY <1>1, <2>1 DEF Handler, Call, Send, HangUp, actorVars
    <2>3. QED
      BY <2>2 DEF NobodyCalls
  <1>2. CASE StopServing
    BY <1>2 DEF StopServing, NobodyCalls, InFlight, actorVars
  <1>3. CASE Restart
    BY <1>0, <1>3 DEF Restart, CommandInHand, NobodyCalls
  <1>4. CASE GotReady
    BY <1>0, <1>4 DEF GotReady, AfterReady, ActorTypes, NobodyCalls
  <1>5. CASE NotReady
    BY <1>5 DEF NotReady, NobodyCalls, InFlight, httpVars
  <1>6. CASE DropSession \/ FinishShutdown
    BY <1>6 DEF DropSession, FinishShutdown, NobodyCalls, InFlight, httpVars
  <1>7. CASE RuntimeExit
    <2>1. \A c \in Clients : caller'[c].pc = "idle"
      BY <1>0, <1>7 DEF RuntimeExit, CallerState
    <2>2. InFlight' = {} /\ ~serving'
      BY <1>7, <2>1 DEF RuntimeExit, InFlight
    <2>3. QED
      BY <2>2 DEF NobodyCalls
  <1>8. CASE pc' \in {"recv", "check", "restart", "write", "await", "reply"}
    BY <1>8 DEF NobodyCalls
  <1>9. CASE UNCHANGED <<pc, cont, caller, serving>>
    BY <1>9 DEF NobodyCalls, InFlight
  <1>10. QED
    BY <1>1, <1>2, <1>3, <1>4, <1>5, <1>6, <1>7, <1>8, <1>9
    DEF Next, Actor, SendRequest, Daemon, vars, actorVars, httpVars,
        Recv, CheckAlive, BudgetSpent, RestartSpawnFails, SkipBeforeReady, WriteRequest,
        BrokenPipe, ReadAnswer, ReadEof, ReadFails, ReadTimeout, Reply, DaemonReady,
        DaemonRead, DaemonAnswer, DaemonQuits, DaemonStray, DaemonUnreadable, DaemonDies,
        ReaderEof

(* A command leaves the channel for the actor's hands, and those only with *)
(* a reply.                                                                *)
LEMMA QueuedStep ==
  ASSUME LinesInv, [Next]_vars, NEW k, Queued(k)
  PROVE  Queued(k)' \/ (InHand /\ cmd = k)' \/ RuntimeExit
  <1>0. queue \in Seq(Commands)
    BY DEF LinesInv, TypeOK, HttpTypes
  <1>1. PICK i \in 1..Len(queue) : queue[i] = k
    BY DEF Queued
  <1>2. ASSUME NEW c \in Clients, Send(c) PROVE Queued(k)'
    <2>1. queue' = Append(queue, <<c, caller[c].n>>)
      BY <1>2 DEF Send
    <2>2. i \in 1..Len(queue') /\ queue'[i] = k
      BY <1>0, <1>1, <2>1
    <2>3. QED
      BY <2>2 DEF Queued
  <1>3. CASE Recv
    <2>1. queue # <<>> /\ cmd' = Head(queue) /\ queue' = Tail(queue) /\ pc' = "check"
      BY <1>3 DEF Recv
    <2>2. CASE i = 1
      BY <1>0, <1>1, <2>1, <2>2 DEF InHand
    <2>3. CASE i # 1
      <3>1. i - 1 \in 1..Len(queue') /\ queue'[i - 1] = queue[i]
        BY <1>0, <1>1, <2>1, <2>3
      <3>2. QED
        BY <1>1, <3>1 DEF Queued
    <2>4. QED
      BY <2>2, <2>3
  <1>4. CASE queue' = queue
    BY <1>1, <1>4 DEF Queued
  <1>5. QED
    BY <1>2, <1>3, <1>4
    DEF Next, Handler, Actor, SendRequest, Daemon, vars, httpVars,
        Call, HangUp, StopServing, CheckAlive, BudgetSpent, Restart,
        RestartSpawnFails, GotReady, SkipBeforeReady, NotReady, WriteRequest, BrokenPipe,
        ReadAnswer, ReadEof, ReadFails, ReadTimeout, Reply, DropSession, FinishShutdown,
        DaemonReady, DaemonRead, DaemonAnswer, DaemonQuits, DaemonStray,
        DaemonUnreadable, DaemonDies, ReaderEof

LEMMA InHandOn ==
  ASSUME LinesInv, [Next]_vars, InHand
  PROVE  (InHand' /\ cmd' = cmd) \/ Reply \/ RuntimeExit
  <1>0. CommandInHand /\ ActorTypes
    BY DEF LinesInv, TypeOK
  <1>1. CASE Recv \/ DropSession \/ FinishShutdown
    BY <1>1 DEF Recv, DropSession, FinishShutdown, InHand
  <1>2. CASE CheckAlive \/ BudgetSpent \/ RestartSpawnFails
    BY <1>2 DEF CheckAlive, BudgetSpent, RestartSpawnFails, InHand
  <1>3. CASE Restart
    BY <1>0, <1>3 DEF Restart, CommandInHand, InHand
  <1>4. CASE GotReady
    BY <1>0, <1>4 DEF GotReady, AfterReady, ActorTypes, InHand
  <1>5. CASE NotReady
    BY <1>5 DEF NotReady, InHand
  <1>6. CASE WriteRequest \/ BrokenPipe
    BY <1>6 DEF WriteRequest, BrokenPipe, InHand
  <1>7. CASE ReadAnswer \/ ReadEof \/ ReadFails \/ ReadTimeout
    BY <1>7 DEF ReadAnswer, ReadEof, ReadFails, ReadTimeout, InHand
  <1>8. CASE UNCHANGED <<pc, cont, cmd>>
    BY <1>8 DEF InHand
  <1>9. QED
    BY <1>1, <1>2, <1>3, <1>4, <1>5, <1>6, <1>7, <1>8
    DEF Next, Handler, Actor, SendRequest, Daemon, vars, actorVars,
        Call, Send, HangUp, StopServing, SkipBeforeReady, DaemonReady,
        DaemonRead, DaemonAnswer, DaemonQuits, DaemonStray,
        DaemonUnreadable, DaemonDies, ReaderEof

(* Only Send makes somebody wait, and the call he waits for stays the same.*)
LEMMA WaitedBefore ==
  ASSUME LinesInv, [Next]_vars, NEW c \in Clients, caller'[c].pc = "waiting", ~Send(c)
  PROVE  /\ caller[c].pc = "waiting" /\ caller'[c].n = caller[c].n
         /\ ~RuntimeExit /\ (Reply => cmd # <<c, caller[c].n>>)
  <1>0. caller \in [Clients -> CallerState] /\ CommandInHand
    BY DEF LinesInv, TypeOK, HttpTypes
  <1>1. ASSUME NEW d \in Clients, Call(d) PROVE caller'[c] = caller[c]
    BY <1>0, <1>1 DEF Call
  <1>2. ASSUME NEW d \in Clients, Send(d) PROVE caller'[c] = caller[c]
    BY <1>0, <1>2 DEF Send
  <1>3. ASSUME NEW d \in Clients, HangUp(d) PROVE caller'[c] = caller[c]
    BY <1>0, <1>3 DEF HangUp, CallerState
  <1>4. ASSUME Reply PROVE caller'[c] = caller[c] /\ cmd # <<c, caller[c].n>>
    <2>1. cmd \in Commands
      BY <1>0, <1>4 DEF CommandInHand, InHand, Reply
    <2>2. cmd = <<cmd[1], cmd[2]>> /\ cmd[1] \in Clients
      BY <2>1, CommandParts
    <2>3. CASE StillWaits(cmd)
      <3>1. caller' = [caller EXCEPT ![cmd[1]].pc = "idle", ![cmd[1]].got = res]
        BY <1>4, <2>3 DEF Reply
      <3>2. cmd[1] # c
        BY <1>0, <3>1 DEF CallerState
      <3>3. QED
        BY <1>0, <2>2, <3>1, <3>2
    <2>4. CASE ~StillWaits(cmd)
      <3>1. caller' = caller
        BY <1>4, <2>4 DEF Reply
      <3>2. cmd # <<c, caller[c].n>>
        BY <2>4, <3>1 DEF StillWaits
      <3>3. QED
        BY <3>1, <3>2
    <2>5. QED
      BY <2>3, <2>4
  <1>5. ~RuntimeExit
    <2>1. ASSUME RuntimeExit PROVE \A d \in Clients : caller'[d].pc = "idle"
      BY <1>0, <2>1 DEF RuntimeExit, CallerState
    <2>2. QED
      BY <2>1
  <1>6. caller'[c] = caller[c]
    BY <1>1, <1>2, <1>3, <1>4, <1>5
    DEF Next, Handler, Actor, SendRequest, Daemon, vars, httpVars,
        StopServing, Recv, CheckAlive, BudgetSpent, Restart,
        RestartSpawnFails, GotReady, SkipBeforeReady, NotReady,
        WriteRequest, BrokenPipe, ReadAnswer, ReadEof, ReadFails,
        ReadTimeout, DropSession, FinishShutdown, DaemonReady, DaemonRead,
        DaemonAnswer, DaemonQuits, DaemonStray,
        DaemonUnreadable, DaemonDies, ReaderEof
  <1>7. QED
    BY <1>4, <1>5, <1>6

LEMMA HeldStep == LinesInv /\ NoCallForgotten /\ [Next]_vars => NoCallForgotten'
  <1> SUFFICES ASSUME LinesInv, NoCallForgotten, [Next]_vars,
                      NEW c \in Clients, caller'[c].pc = "waiting"
               PROVE  \/ Queued(<<c, caller[c].n>>)'
                      \/ (InHand /\ cmd = <<c, caller[c].n>>)'
    BY DEF NoCallForgotten
  <1>1. CASE Send(c)
    <2>1. caller \in [Clients -> CallerState] /\ queue \in Seq(Commands)
      BY DEF LinesInv, TypeOK, HttpTypes
    <2>2. queue' = Append(queue, <<c, caller[c].n>>) /\ caller'[c].n = caller[c].n
      BY <1>1, <2>1 DEF Send, CallerState
    <2>3. Len(queue) + 1 \in 1..Len(queue') /\ queue'[Len(queue) + 1] = <<c, caller[c].n>>
      BY <2>1, <2>2
    <2>4. QED
      BY <2>2, <2>3 DEF Queued
  <1>2. CASE ~Send(c)
    <2> DEFINE k == <<c, caller[c].n>>
    <2>1. /\ caller[c].pc = "waiting" /\ caller'[c].n = caller[c].n
          /\ ~RuntimeExit /\ (Reply => cmd # k)
      BY <1>2, WaitedBefore
    <2>2. Queued(k) \/ (InHand /\ cmd = k)
      BY <2>1 DEF NoCallForgotten
    <2>3. k' = k
      BY <2>1
    <2> HIDE DEF k
    <2>4. Queued(k) => (\E i \in 1..Len(queue') : queue'[i] = k) \/ (InHand' /\ cmd' = k)
      BY <2>1, <2>3, QueuedStep DEF Queued
    <2>5. InHand /\ cmd = k => InHand' /\ cmd' = k
      BY <2>1, InHandOn
    <2>6. QED
      BY <2>2, <2>3, <2>4, <2>5 DEF Queued, k
  <1>3. QED
    BY <1>1, <1>2

(* For any number of callers, restarts and failures: who waits for an      *)
(* answer has his command in the channel or in the actor's hands, and the  *)
(* actor leaves its loop only when nobody calls.  No path through          *)
(* send_request, however it fails, lets go of a command without a reply.   *)
THEOREM NobodyForgotten == Spec => [](NoCallForgotten /\ NobodyCalls)
  <1>1. Init => NoCallForgotten /\ NobodyCalls
    BY DEF Init, NoCallForgotten, NobodyCalls, InFlight
  <1>2. QED
    BY <1>1, HeldStep, QuietStep, LinesInvariance, PTL DEF Spec

LEMMA TailShorter ==
  ASSUME NEW S, NEW s \in Seq(S), s # <<>>
  PROVE  Tail(s) # s /\ \A e \in S : Tail(s) # Append(s, e)
  <1>1. Len(Tail(s)) # Len(s) /\ \A e \in S : Len(Tail(s)) # Len(Append(s, e))
    BY TailFacts, AppendFacts
  <1>2. QED
    BY <1>1, Zenon

(* The loop of send_request that skips lines with another id never skips   *)
(* the answer it waits for.                                                *)
THEOREM AnswerKept == Spec => NoAnswerDiscarded
  <1>1. IInv /\ [Next]_vars =>
          [ pc = "await" /\ pc' = "await" /\ stdout # <<>> /\ stdout' = Tail(stdout)
              => Head(stdout).cmd # cmd ]_vars
    <2> SUFFICES ASSUME IInv, [Next]_vars, pc = "await", pc' = "await",
                        stdout # <<>>, stdout' = Tail(stdout), Head(stdout).cmd = cmd
                 PROVE  FALSE
      OBVIOUS
    <2>0. stdout \in Seq(Line) /\ AnswersKnown
      BY DEF IInv, OnceInv, LinesInv, TypeOK, PipeTypes
    <2>1. Head(stdout).id = counter
      BY <2>0, TailFacts DEF AnswersKnown, AnswerKnown
    <2>2. ~ReadAnswer
      BY <2>1 DEF ReadAnswer, Matches
    <2>3. stdout' # stdout /\ \A e \in Line : stdout' # Append(stdout, e)
      BY <2>0, TailShorter
    <2>4. /\ \A kind \in {"ready", "stray", "eof", "ioerr"} : Plain(kind) \in Line
          /\ Answer(daemon.id, daemon.cmd) \in Line
      BY LineTypes DEF IInv, LinesInv, TypeOK, DaemonTypes, DaemonState
    <2>5. QED
      BY <2>2, <2>3, <2>4
      DEF Next, Handler, Actor, SendRequest, Daemon, vars, actorVars, pipeVars, Say,
        Call, Send, HangUp, StopServing, Recv, CheckAlive, BudgetSpent, Restart,
        RestartSpawnFails, GotReady, SkipBeforeReady, NotReady, WriteRequest, BrokenPipe,
        ReadEof, ReadFails, ReadTimeout, Reply, DropSession, FinishShutdown, RuntimeExit,
        DaemonReady, DaemonRead, DaemonAnswer, DaemonQuits, DaemonStray,
        DaemonUnreadable, DaemonDies, ReaderEof
  <1>2. QED
    BY <1>1, Invariance, PTL DEF Spec, NoAnswerDiscarded

-----------------------------------------------------------------------------
(* The refinement: what the callers and the run counts show.               *)

LEMMA ToldCases ==
  ASSUME NEW got \in Result, NEW own
  PROVE  /\ got = None => Told(got, own) = "none"
         /\ got.kind \in {"err", "timeout"} => Told(got, own) = "error"
         /\ got = Ok(own) => Told(got, own) = "own"
  BY DEF Told, None, Ok, Result

LEMMA SeenSame == UNCHANGED caller => Seen' = Seen
  BY DEF Seen

LEMMA SeenAt ==
  /\ Seen = [c \in Clients |-> Seen[c]]
  /\ \A c \in Clients : /\ Seen[c].busy = (caller[c].pc # "idle")
                        /\ Seen[c].n = caller[c].n
                        /\ Seen[c].got = Told(caller[c].got, <<c, caller[c].n>>)
  BY DEF Seen

(* A client whose handler is untouched sees nothing.                       *)
LEMMA SeenApart ==
  ASSUME NEW c \in Clients, caller'[c] = caller[c]
  PROVE  Seen'[c] = Seen[c]
  BY DEF Seen

LEMMA InitRefines == Init => Service!Init
  <1> SUFFICES ASSUME Init PROVE Service!Init
    OBVIOUS
  <1>1. \A c \in Clients : caller[c] = [pc |-> "idle", n |-> 0, got |-> None]
    BY DEF Init
  <1>2. \A c \in Clients : Told(caller[c].got, <<c, caller[c].n>>) = "none"
    <2> TAKE c \in Clients
    <2>1. caller[c].got = None
      BY <1>1
    <2>2. caller[c].got \in Result
      BY <2>1, ResultTypes
    <2>3. QED
      BY <2>1, <2>2, ToldCases
  <1>3. Seen = [c \in Clients |-> [busy |-> FALSE, n |-> 0, got |-> "none"]]
    <2>1. ASSUME NEW c \in Clients
          PROVE  (caller[c].pc # "idle") = FALSE /\ caller[c].n = 0
                 /\ Told(caller[c].got, <<c, caller[c].n>>) = "none"
      BY <1>1, <1>2
    <2>2. QED
      BY <2>1, Zenon DEF Seen
  <1>4. QED
    BY <1>3 DEF Init, Service!Init, Service!Commands, Commands

LEMMA CallRefines ==
  ASSUME LinesInv, NEW c \in Clients, Call(c)
  PROVE  Service!Ask(c)
  <1>0. caller \in [Clients -> CallerState]
    BY DEF LinesInv, TypeOK, HttpTypes
  <1>1. caller'[c] = [pc |-> "sending", n |-> caller[c].n + 1, got |-> None]
    BY <1>0 DEF Call
  <1>2. \A d \in Clients \ {c} : Seen'[d] = Seen[d]
    BY <1>0, SeenApart DEF Call
  <1>3. Seen'[c] = [busy |-> TRUE, n |-> Seen[c].n + 1, got |-> "none"]
    <2>1. Told(caller'[c].got, <<c, caller'[c].n>>) = "none"
      <3>1. caller'[c].got = None
        BY <1>1
      <3>2. QED
        BY <3>1, ResultTypes, ToldCases
    <2>2. (caller'[c].pc # "idle") = TRUE /\ caller'[c].n = caller[c].n + 1
      BY <1>1
    <2>3. Seen[c].n = caller[c].n
      BY Zenon, SeenAt
    <2>4. QED
      BY <2>1, <2>2, <2>3, Zenon DEF Seen
  <1>4. Seen' = [Seen EXCEPT ![c] = [busy |-> TRUE, n |-> Seen[c].n + 1, got |-> "none"]]
    BY <1>2, <1>3 DEF Seen
  <1>5. ~Seen[c].busy /\ Seen[c].n < MaxCalls
    BY DEF Call, Seen
  <1>6. QED
    BY <1>4, <1>5 DEF Service!Ask, Call

LEMMA HangUpRefines ==
  ASSUME LinesInv, NEW c \in Clients, HangUp(c)
  PROVE  Service!Leave(c)
  <1>0. caller \in [Clients -> CallerState]
    BY DEF LinesInv, TypeOK, HttpTypes
  <1>1. caller'[c] = [caller[c] EXCEPT !.pc = "idle"]
    BY <1>0 DEF HangUp
  <1>2. \A d \in Clients \ {c} : Seen'[d] = Seen[d]
    BY <1>0, SeenApart DEF HangUp
  <1>3. Seen'[c] = [busy |-> FALSE, n |-> Seen[c].n, got |-> Seen[c].got]
    <2>1. caller'[c].pc = "idle" /\ caller'[c].n = caller[c].n /\ caller'[c].got = caller[c].got
      BY <1>0, <1>1 DEF CallerState
    <2>2. QED
      BY <2>1 DEF Seen
  <1>4. Seen' = [Seen EXCEPT ![c].busy = FALSE]
    BY <1>2, <1>3 DEF Seen
  <1>5. Seen[c].busy
    BY DEF HangUp, Seen
  <1>6. QED
    BY <1>4, <1>5 DEF Service!Leave, HangUp

(* A send changes where the call waits, which its client does not see.     *)
LEMMA SendRefines ==
  ASSUME LinesInv, NEW c \in Clients, Send(c)
  PROVE  UNCHANGED Service!vars
  <1>0. caller \in [Clients -> CallerState]
    BY DEF LinesInv, TypeOK, HttpTypes
  <1>1. caller'[c] = [caller[c] EXCEPT !.pc = "waiting"] /\ caller[c].pc = "sending"
    BY <1>0 DEF Send
  <1>2. \A d \in Clients \ {c} : Seen'[d] = Seen[d]
    BY <1>0, SeenApart DEF Send
  <1>3. Seen'[c] = Seen[c]
    <2>1. /\ caller'[c].pc = "waiting" /\ caller'[c].n = caller[c].n
          /\ caller'[c].got = caller[c].got
      BY <1>0, <1>1 DEF CallerState
    <2>2. QED
      BY <1>1, <2>1 DEF Seen
  <1>4. Seen' = Seen
    BY <1>2, <1>3 DEF Seen
  <1>5. QED
    BY <1>4 DEF Service!vars, Send

(* The oneshot: the caller gets its own answer, or an error.               *)
LEMMA ReplyRefines ==
  ASSUME LinesInv, OnceInv, Reply
  PROVE  [Service!Next]_(Service!vars)
  <1>0. /\ caller \in [Clients -> CallerState] /\ res \in Result /\ cmd \in Commands
        /\ AnswersBegun /\ ResultOwn /\ pc = "reply" /\ runs' = runs
    BY DEF LinesInv, TypeOK, HttpTypes, ActorTypes, CommandInHand, InHand, OnceInv, Reply
  <1>1. CASE ~StillWaits(cmd)
    <2>1. caller' = caller
      BY <1>1 DEF Reply
    <2>2. QED
      BY <1>0, <2>1, SeenSame DEF Service!vars
  <1>2. CASE StillWaits(cmd)
    <2> DEFINE c == cmd[1]
    <2>0. c \in Clients /\ cmd = <<c, caller[c].n>> /\ caller[c].pc = "waiting"
      BY <1>0, <1>2, CommandParts DEF StillWaits
    <2>1. caller' = [caller EXCEPT ![c].pc = "idle", ![c].got = res]
      BY <1>2 DEF Reply
    <2> HIDE DEF c
    <2>2. /\ caller'[c].pc = "idle" /\ caller'[c].n = caller[c].n /\ caller'[c].got = res
          /\ \A d \in Clients \ {c} : caller'[d] = caller[d]
      BY <1>0, <2>0, <2>1 DEF CallerState
    <2>3. \A d \in Clients \ {c} : Seen'[d] = Seen[d]
      BY <2>2, SeenApart
    <2>4. Seen[c].busy = TRUE /\ Seen[c].n = caller[c].n
      BY <2>0, SeenAt
    <2>5. Seen'[c] = [busy |-> FALSE, n |-> Seen[c].n, got |-> Told(res, <<c, caller[c].n>>)]
      <3>1. (caller'[c].pc # "idle") = FALSE
        BY <2>2
      <3>2. QED
        BY <2>0, <2>2, <2>4, <3>1, Zenon DEF Seen
    <2>6. CASE res.kind = "ok"
      <3>1. res = Ok(<<c, caller[c].n>>) /\ runs[<<c, caller[c].n>>] = 1
        BY <1>0, <2>0, <2>6 DEF ResultOwn, AnswersBegun, Begun, Ok, Result
      <3>2. Told(res, <<c, caller[c].n>>) = "own"
        BY <1>0, <3>1, ToldCases
      <3>3. Seen' = [Seen EXCEPT ![c].busy = FALSE, ![c].got = "own"]
        BY <2>3, <2>5, <3>2, ZenonT(60) DEF Seen
      <3>4. Service!Answer(c)
        BY <1>0, <2>4, <3>1, <3>3 DEF Service!Answer
      <3>5. QED
        BY <2>0, <3>4 DEF Service!Next
    <2>7. CASE res.kind # "ok"
      <3>1. res.kind \in {"err", "timeout"}
        BY <1>0, <2>7 DEF AnswersBegun, Result
      <3>2. Told(res, <<c, caller[c].n>>) = "error"
        BY <1>0, <3>1, ToldCases
      <3>3. Seen'[c] = [busy |-> FALSE, n |-> Seen[c].n, got |-> "error"]
        BY <2>5, <3>2
      <3>4. Seen' = [d \in Clients |->
                       IF d \in {c} THEN [busy |-> FALSE, n |-> Seen[d].n, got |-> "error"]
                                    ELSE Seen[d]]
        BY <2>3, <3>3 DEF Seen
      <3>5. Service!Fail({c})
        BY <1>0, <2>4, <3>4 DEF Service!Fail
      <3>6. {c} \in SUBSET Clients
        BY <2>0
      <3>7. QED
        BY <3>5, <3>6 DEF Service!Next
    <2>8. QED
      BY <2>6, <2>7
  <1>3. QED
    BY <1>1, <1>2

(* The runtime takes every open call with it.                              *)
LEMMA ExitRefines ==
  ASSUME LinesInv, RuntimeExit
  PROVE  Service!Fail(InFlight)
  <1>0. caller \in [Clients -> CallerState] /\ runs' = runs
    BY DEF LinesInv, TypeOK, HttpTypes, RuntimeExit
  <1>1. \A c \in Clients \ InFlight : Seen'[c] = Seen[c]
    BY SeenApart DEF RuntimeExit, InFlight
  <1>2. ASSUME NEW c \in InFlight
        PROVE  Seen'[c] = [busy |-> FALSE, n |-> Seen[c].n, got |-> "error"]
    <2>1. c \in Clients /\ caller'[c] = [caller[c] EXCEPT !.pc = "idle", !.got = Err]
      BY DEF InFlight, RuntimeExit
    <2>2. caller'[c].pc = "idle" /\ caller'[c].n = caller[c].n /\ caller'[c].got = Err
      BY <1>0, <2>1 DEF CallerState
    <2>3. Told(Err, <<c, caller[c].n>>) = "error"
      BY ResultTypes, ToldCases DEF Err
    <2>4. (caller'[c].pc # "idle") = FALSE
      BY <2>2
    <2>5. Seen'[c] = [busy |-> FALSE, n |-> caller[c].n, got |-> "error"]
      BY <2>1, <2>2, <2>3, <2>4, Zenon DEF Seen
    <2>6. QED
      BY <2>1, <2>5, SeenAt
  <1>3. Seen' = [c \in Clients |->
                   IF c \in InFlight THEN [busy |-> FALSE, n |-> Seen[c].n, got |-> "error"]
                                     ELSE Seen[c]]
    BY <1>1, <1>2 DEF Seen
  <1>4. \A c \in InFlight : Seen[c].busy
    BY DEF Seen, InFlight
  <1>5. QED
    BY <1>0, <1>3, <1>4 DEF Service!Fail

(* The daemon begins work that was asked for and was not begun before.     *)
LEMMA WorkRefines ==
  ASSUME LinesInv, OnceInv, DaemonRead
  PROVE  \E k \in Service!Commands : Service!Work(k)
  <1>0. /\ RequestsFresh /\ UnsentFresh /\ caller \in [Clients -> CallerState]
    BY DEF LinesInv, TypeOK, HttpTypes, OnceInv
  <1> DEFINE k == stdin[1].cmd
  <1>1. /\ k \in Commands /\ runs[k] = 0 /\ runs' = [runs EXCEPT ![k] = 1]
        /\ caller' = caller /\ Written(k)
    BY <1>0, ReadMoves DEF Written
  <1> HIDE DEF k
  <1>2. k[1] \in Clients /\ k[2] \in Nat /\ caller[k[1]].n \in Nat
    BY <1>0, <1>1, CommandParts, SessionAssumption DEF CallerState
  <1>3. k[2] <= caller[k[1]].n
    BY <1>0, <1>1, <1>2 DEF UnsentFresh, Unsent
  <1>4. Seen' = Seen /\ Seen[k[1]].n = caller[k[1]].n
    BY <1>1, <1>2, SeenSame, SeenAt
  <1>5. Service!Work(k)
    BY <1>1, <1>3, <1>4 DEF Service!Work
  <1>6. QED
    BY <1>1, <1>5 DEF Service!Commands, Commands

LEMMA NextRefines == IInv /\ [Next]_vars => [Service!Next]_(Service!vars)
  <1> SUFFICES ASSUME LinesInv, OnceInv, [Next]_vars PROVE [Service!Next]_(Service!vars)
    BY DEF IInv
  <1>1. ASSUME NEW c \in Clients, Handler(c) PROVE [Service!Next]_(Service!vars)
    BY <1>1, CallRefines, SendRefines, HangUpRefines DEF Handler, Service!Next
  <1>2. CASE Reply
    BY <1>2, ReplyRefines
  <1>3. CASE RuntimeExit
    <2>1. InFlight \in SUBSET Clients
      BY DEF InFlight
    <2>2. QED
      BY <1>3, <2>1, ExitRefines DEF Service!Next
  <1>4. CASE DaemonRead
    BY <1>4, WorkRefines DEF Service!Next
  <1>5. CASE UNCHANGED <<caller, runs>>
    BY <1>5, SeenSame DEF Service!vars
  <1>6. QED
    BY <1>1, <1>2, <1>3, <1>4, <1>5
    DEF Next, Actor, SendRequest, Daemon, vars, httpVars,
        StopServing, Recv, CheckAlive, BudgetSpent, Restart, RestartSpawnFails,
        GotReady, SkipBeforeReady, NotReady, WriteRequest, BrokenPipe, ReadAnswer,
        ReadEof, ReadFails, ReadTimeout, DropSession, FinishShutdown, DaemonReady,
        DaemonAnswer, DaemonQuits, DaemonStray, DaemonUnreadable, DaemonDies, ReaderEof

(* The session keeps every promise of RequestService to its callers:       *)
(* dispatch_via_channel, send_request, the daemon and whatever fails       *)
(* between them.                                                           *)
THEOREM Refinement == Spec => ImplementsRequestService
  BY InitRefines, NextRefines, Invariance, PTL
  DEF Spec, ImplementsRequestService, Service!Spec

=============================================================================
