------------------------- MODULE OneshotBridgeProofs -------------------------
(***************************************************************************)
(* The fall-back mode keeps RequestService for any number of clients,      *)
(* calls and threads: a command is in one place at a time, and a process   *)
(* is only ever started for a command that has none.  Nobody who waits is  *)
(* forgotten.                                                              *)
(***************************************************************************)
EXTENDS OneshotBridge, SequenceTheorems, FiniteSetTheorems, TLAPS

CallerState == [busy : BOOLEAN, n : 0..MaxCalls, got : Commands \cup {Nothing, Error}]

Types ==
  /\ caller \in [Clients -> CallerState]
  /\ ready \in Seq(Commands \cup {Health})
  /\ worker \in [Workers -> Commands \cup {Nothing}]
  /\ process \in [Commands -> {"none", "runs"} \cup Ended]
  /\ runs \in [Commands -> 0..1]

Asked(k) == k[2] <= caller[k[1]].n

(* A command that waits for a thread was asked for, has no process yet and *)
(* waits once.                                                             *)
ReadyFresh ==
  \A i \in 1..Len(ready) : ready[i] # Health => Asked(ready[i]) /\ runs[ready[i]] = 0
ReadyOnce ==
  \A i, j \in 1..Len(ready) : ready[i] = ready[j] /\ ready[i] # Health => i = j

(* A process belongs to a command that was asked for, and a thread that is *)
(* blocked waits for such a process, alone.                                *)
BegunAsked == \A k \in Commands : runs[k] # 0 => Asked(k)
BlockedBegun == \A w \in Workers : worker[w] # Nothing => runs[worker[w]] = 1
BlockedApart ==
  \A v, w \in Workers : worker[v] = worker[w] /\ worker[v] # Nothing => v = w
ProcessBegun == \A k \in Commands : process[k] # "none" => runs[k] = 1
RunsAreBlocked ==
  up => \A k \in Commands : process[k] = "runs" => \E w \in Workers : worker[w] = k

(* The answer a client holds is the one to its last call.                  *)
GotOwn ==
  \A c \in Clients : caller[c].got \in {Nothing, Error, <<c, caller[c].n>>}

BridgeInv ==
  /\ Types /\ ReadyFresh /\ ReadyOnce /\ BegunAsked /\ BlockedBegun /\ BlockedApart
  /\ ProcessBegun /\ RunsAreBlocked /\ GotOwn

-----------------------------------------------------------------------------
(* Commands, and the sequence of tasks.                                    *)

LEMMA Distinct ==
  /\ Health \notin Commands /\ Nothing \notin Commands /\ Error \notin Commands
  /\ Health # Nothing /\ Error # Nothing
  BY BridgeAssumption DEF Commands

LEMMA CommandParts ==
  ASSUME NEW k \in Commands
  PROVE  k = <<k[1], k[2]>> /\ k[1] \in Clients /\ k[2] \in Nat
  BY BridgeAssumption DEF Commands

LEMMA Pairs ==
  ASSUME NEW c \in Clients, NEW n \in 1..MaxCalls
  PROVE  <<c, n>> \in Commands /\ <<c, n>>[1] = c /\ <<c, n>>[2] = n
  BY DEF Commands

(* Taking a task out of the middle or from the front keeps the others, in  *)
(* their order.                                                            *)
LEMMA RemoveAtProperties ==
  ASSUME NEW S, NEW s \in Seq(S), NEW i \in 1..Len(s)
  PROVE  /\ RemoveAt(s, i) \in Seq(S)
         /\ Len(RemoveAt(s, i)) = Len(s) - 1
         /\ \A j \in 1..(Len(s) - 1) : RemoveAt(s, i)[j] = s[IF j < i THEN j ELSE j + 1]
  <1> DEFINE a == SubSeq(s, 1, i - 1)
             b == SubSeq(s, i + 1, Len(s))
  <1>0. Len(s) \in Nat /\ \A j \in 1..Len(s) : s[j] \in S
    OBVIOUS
  <1>1. /\ a \in Seq(S) /\ Len(a) = i - 1
        /\ \A j \in 1..(i - 1) : a[j] = s[j]
    <2>1. \A j \in 1..(i - 1) : s[j] \in S
      BY <1>0
    <2>2. QED
      BY <1>0, <2>1, SubSeqProperties
  <1>2. /\ b \in Seq(S) /\ Len(b) = Len(s) - i
        /\ \A j \in 1..(Len(s) - i) : b[j] = s[i + j]
    <2>1. \A j \in (i + 1)..Len(s) : s[j] \in S
      BY <1>0
    <2>2. /\ b \in Seq(S)
          /\ Len(b) = IF i + 1 <= Len(s) THEN Len(s) - (i + 1) + 1 ELSE 0
          /\ \A j \in 1..(Len(s) - (i + 1) + 1) : b[j] = s[(i + 1) + j - 1]
      BY <1>0, <2>1, SubSeqProperties
    <2>3. QED
      BY <1>0, <2>2
  <1>3. RemoveAt(s, i) = a \o b
    BY DEF RemoveAt
  <1> HIDE DEF a, b
  <1>4. /\ a \o b \in Seq(S) /\ Len(a \o b) = Len(s) - 1
        /\ \A j \in 1..(Len(s) - 1) : (a \o b)[j] = IF j <= i - 1 THEN a[j] ELSE b[j - (i - 1)]
    <2>1. /\ a \o b \in Seq(S) /\ Len(a \o b) = Len(a) + Len(b)
          /\ \A j \in 1..Len(a) + Len(b) :
               (a \o b)[j] = IF j <= Len(a) THEN a[j] ELSE b[j - Len(a)]
      BY <1>1, <1>2, ConcatProperties
    <2>2. QED
      BY <1>0, <1>1, <1>2, <2>1
  <1>5. ASSUME NEW j \in 1..(Len(s) - 1)
        PROVE  (a \o b)[j] = s[IF j < i THEN j ELSE j + 1]
    <2>1. CASE j < i
      <3>1. j \in 1..(i - 1) /\ j <= i - 1
        BY <1>0, <2>1
      <3>2. (a \o b)[j] = a[j] /\ a[j] = s[j]
        BY <1>1, <1>4, <3>1
      <3>3. QED
        BY <2>1, <3>2
    <2>2. CASE j >= i
      <3>1. (a \o b)[j] = b[j - (i - 1)] /\ j - (i - 1) \in 1..(Len(s) - i)
        BY <1>0, <1>4, <2>2
      <3>2. b[j - (i - 1)] = s[i + (j - (i - 1))]
        BY <1>2, <3>1
      <3>3. i + (j - (i - 1)) = j + 1 /\ ~(j < i)
        BY <1>0, <2>2
      <3>4. QED
        BY <3>1, <3>2, <3>3
    <2>3. j < i \/ j >= i
      BY <1>0
    <2>4. QED
      BY <2>1, <2>2, <2>3
  <1>6. QED
    BY <1>3, <1>4, <1>5

(* What all steps that only take a task away have in common.               *)
Fewer ==
  /\ ready' \in Seq(Commands \cup {Health})
  /\ \E f \in [1..Len(ready') -> 1..Len(ready)] :
       /\ \A i \in 1..Len(ready') : ready'[i] = ready[f[i]]
       /\ \A i, j \in 1..Len(ready') : f[i] = f[j] => i = j

LEMMA FewerRemoved ==
  ASSUME Types, NEW i \in 1..Len(ready), ready' = RemoveAt(ready, i)
  PROVE  Fewer
  <1>1. /\ ready' \in Seq(Commands \cup {Health}) /\ Len(ready') = Len(ready) - 1
        /\ \A j \in 1..(Len(ready) - 1) : ready'[j] = ready[IF j < i THEN j ELSE j + 1]
        /\ Len(ready) \in Nat
    BY RemoveAtProperties DEF Types
  <1> DEFINE f == [j \in 1..Len(ready') |-> IF j < i THEN j ELSE j + 1]
  <1>2. f \in [1..Len(ready') -> 1..Len(ready)]
    BY <1>1
  <1>3. \A j \in 1..Len(ready') : ready'[j] = ready[f[j]]
    BY <1>1
  <1>4. \A j, k \in 1..Len(ready') : f[j] = f[k] => j = k
    BY <1>1
  <1>5. QED
    BY <1>1, <1>2, <1>3, <1>4 DEF Fewer

LEMMA FewerPopped ==
  ASSUME Types, ready # << >>, ready' = Tail(ready)
  PROVE  /\ Fewer /\ Head(ready) = ready[1] /\ 1 \in 1..Len(ready)
         /\ Head(ready) \in Commands \cup {Health}
         /\ Len(ready') = Len(ready) - 1
         /\ \A i \in 1..Len(ready') : ready'[i] = ready[i + 1] /\ i + 1 \in 1..Len(ready)
  <1>1. /\ ready' \in Seq(Commands \cup {Health}) /\ Len(ready') = Len(ready) - 1
        /\ \A i \in 1..Len(ready') : ready'[i] = ready[i + 1]
        /\ Len(ready) \in Nat /\ Head(ready) = ready[1] /\ Len(ready) >= 1
        /\ Head(ready) \in Commands \cup {Health}
    BY HeadTailProperties DEF Types
  <1> DEFINE f == [i \in 1..Len(ready') |-> i + 1]
  <1>2. f \in [1..Len(ready') -> 1..Len(ready)]
    BY <1>1
  <1>3. \A j \in 1..Len(ready') : ready'[j] = ready[f[j]]
    BY <1>1
  <1>4. \A j, k \in 1..Len(ready') : f[j] = f[k] => j = k
    BY <1>1
  <1>5. Fewer
    BY <1>1, <1>2, <1>3, <1>4 DEF Fewer
  <1>6. QED
    BY <1>1, <1>5

LEMMA FewerNone ==
  ASSUME Types, ready' = << >>
  PROVE  Fewer
  <1>1. ready' \in Seq(Commands \cup {Health}) /\ Len(ready') = 0
    OBVIOUS
  <1> DEFINE f == [j \in 1..Len(ready') |-> 1]
  <1>2. 1..Len(ready') = {}
    BY <1>1
  <1>3. f \in [1..Len(ready') -> 1..Len(ready)]
    BY <1>2
  <1>4. QED
    BY <1>1, <1>2, <1>3 DEF Fewer

LEMMA FewerSame ==
  ASSUME Types, ready' = ready
  PROVE  Fewer
  <1> DEFINE f == [j \in 1..Len(ready') |-> j]
  <1>1. f \in [1..Len(ready') -> 1..Len(ready)]
    OBVIOUS
  <1>2. QED
    BY <1>1 DEF Fewer, Types

-----------------------------------------------------------------------------
(* The callers: what a step does to one of them.                           *)

LEMMA ReplyStep ==
  ASSUME Types, NEW k \in Commands, NEW got \in Commands \cup {Nothing, Error}, Reply(k, got)
  PROVE  /\ caller' \in [Clients -> CallerState]
         /\ \A c \in Clients : caller'[c].n = caller[c].n
         /\ \A c \in Clients : \/ caller'[c] = caller[c]
                               \/ Waits(k) /\ c = k[1] /\ caller'[c].got = got
  <1>1. caller \in [Clients -> CallerState] /\ k[1] \in Clients
    BY CommandParts DEF Types, CallerState
  <1>2. CASE ~Waits(k)
    BY <1>1, <1>2 DEF Reply
  <1>3. CASE Waits(k)
    <2>1. caller' = [caller EXCEPT ![k[1]].busy = FALSE, ![k[1]].got = got]
      BY <1>3 DEF Reply
    <2>2. caller' \in [Clients -> CallerState]
      BY <1>1, <2>1 DEF CallerState
    <2>3. /\ caller'[k[1]].n = caller[k[1]].n /\ caller'[k[1]].got = got
          /\ \A c \in Clients \ {k[1]} : caller'[c] = caller[c]
      BY <1>1, <2>1 DEF CallerState
    <2>4. QED
      BY <1>3, <2>2, <2>3
  <1>4. QED
    BY <1>2, <1>3

(* Calls are counted up, and everything but a call leaves the count alone. *)
LEMMA CallersStep ==
  ASSUME Types, Next
  PROVE  /\ caller' \in [Clients -> CallerState]
         /\ \A c \in Clients : caller'[c].n \in Nat /\ caller[c].n \in Nat
                               /\ caller'[c].n >= caller[c].n
  <1>0. /\ caller \in [Clients -> CallerState] /\ MaxCalls \in Nat
    BY BridgeAssumption DEF Types, CallerState
  <1> SUFFICES /\ caller' \in [Clients -> CallerState]
               /\ \A c \in Clients : caller'[c].n >= caller[c].n
    BY <1>0 DEF CallerState
  <1>1. ASSUME NEW c \in Clients, Call(c)
        PROVE  /\ caller' \in [Clients -> CallerState]
               /\ \A d \in Clients : caller'[d].n >= caller[d].n
    BY <1>0, <1>1 DEF Call, CallerState
  <1>2. ASSUME NEW c \in Clients, HangUp(c)
        PROVE  /\ caller' \in [Clients -> CallerState]
               /\ \A d \in Clients : caller'[d].n >= caller[d].n
    <2>1. caller' = [caller EXCEPT ![c].busy = FALSE]
      BY <1>2 DEF HangUp
    <2>2. ASSUME NEW d \in Clients
          PROVE  caller'[d] \in CallerState /\ caller'[d].n = caller[d].n
      BY <1>0, <2>1 DEF CallerState
    <2>3. caller' \in [Clients -> CallerState]
      BY <1>0, <2>1, <2>2
    <2>4. QED
      BY <1>0, <2>2, <2>3 DEF CallerState
  <1>3. CASE Refuse
    <2>1. Head(ready) \in Commands /\ Reply(Head(ready), Error)
      BY <1>3, FewerPopped DEF Refuse, Begins
    <2>2. QED
      BY <1>0, <2>1, ReplyStep DEF CallerState
  <1>4. ASSUME NEW w \in Workers, Return(w)
        PROVE  /\ caller' \in [Clients -> CallerState]
               /\ \A d \in Clients : caller'[d].n >= caller[d].n
    <2>1. worker[w] \in Commands /\ Reply(worker[w], Outcome(worker[w]))
      BY <1>4 DEF Return, Types
    <2>2. Outcome(worker[w]) \in Commands \cup {Nothing, Error}
      BY <2>1 DEF Outcome
    <2>3. QED
      BY <1>0, <2>1, <2>2, ReplyStep DEF CallerState
  <1>5. CASE Exit
    <2>1. ASSUME NEW c \in Clients
          PROVE  caller'[c] \in CallerState /\ caller'[c].n = caller[c].n
      BY <1>0, <1>5 DEF Exit, CallerState
    <2>2. caller' = [c \in Clients |-> caller'[c]]
      BY <1>5 DEF Exit
    <2>3. QED
      BY <1>0, <2>1, <2>2 DEF CallerState
  <1>6. CASE UNCHANGED caller
    BY <1>0, <1>6 DEF CallerState
  <1>7. QED
    BY <1>1, <1>2, <1>3, <1>4, <1>5, <1>6
    DEF Next, Handler, CheckHealth, AnswerHealth, Spawn, ProcessEnds, StopServing

-----------------------------------------------------------------------------
(* Tasks and processes.                                                    *)

(* What a step does to the tasks: a call or a health check is added at the *)
(* end, or some are taken away.                                            *)
Adds(t) == ready' = Append(ready, t)

LEMMA TasksStep ==
  ASSUME Types, Next
  PROVE  \/ Fewer
         \/ Adds(Health)
         \/ \E c \in Clients : Call(c)
  <1>1. ASSUME NEW c \in Clients, HangUp(c) PROVE Fewer
    BY <1>1, FewerSame, FewerRemoved DEF HangUp
  <1>2. CASE Handler
    BY <1>2, FewerPopped DEF Handler, AnswerHealth, Refuse, Spawn, Begins
  <1>3. CASE Exit
    BY <1>3, FewerNone DEF Exit
  <1>4. CASE UNCHANGED ready
    BY <1>4, FewerSame
  <1>5. QED
    BY <1>1, <1>2, <1>3, <1>4
    DEF Next, Adds, CheckHealth, Return, ProcessEnds, StopServing

(* A process starts for the first task in line, which had none.            *)
LEMMA SpawnStep ==
  ASSUME Types, ReadyFresh, Spawn
  PROVE  /\ Head(ready) \in Commands /\ runs[Head(ready)] = 0 /\ Asked(Head(ready))
         /\ runs' = [runs EXCEPT ![Head(ready)] = 1]
         /\ process' = [process EXCEPT ![Head(ready)] = "runs"]
         /\ \E w \in Workers : worker[w] = Nothing /\ worker' = [worker EXCEPT ![w] = Head(ready)]
         /\ ready # << >> /\ ready' = Tail(ready)
  <1>1. /\ ready # << >> /\ ready' = Tail(ready) /\ Head(ready) # Health
        /\ runs' = [runs EXCEPT ![Head(ready)] = @ + 1]
        /\ process' = [process EXCEPT ![Head(ready)] = "runs"]
        /\ \E w \in Workers : worker[w] = Nothing /\ worker' = [worker EXCEPT ![w] = Head(ready)]
    BY DEF Spawn, Begins, Idle
  <1>2. Head(ready) = ready[1] /\ 1 \in 1..Len(ready) /\ Head(ready) \in Commands
    BY <1>1, FewerPopped
  <1>3. runs[Head(ready)] = 0 /\ Asked(Head(ready))
    BY <1>1, <1>2 DEF ReadyFresh
  <1>4. runs' = [runs EXCEPT ![Head(ready)] = 1]
    BY <1>1, <1>3
  <1>5. QED
    BY <1>1, <1>2, <1>3, <1>4

LEMMA TypesStep ==
  ASSUME Types, ReadyFresh, Next
  PROVE  Types'
  <1>1. caller' \in [Clients -> CallerState]
    BY CallersStep
  <1>2. ready' \in Seq(Commands \cup {Health})
    <2>1. ASSUME NEW c \in Clients, Call(c) PROVE ready' \in Seq(Commands \cup {Health})
      <3>1. caller[c].n + 1 \in 1..MaxCalls
        BY <2>1, BridgeAssumption DEF Types, CallerState, Call
      <3>2. <<c, caller[c].n + 1>> \in Commands
        BY <3>1, Pairs
      <3>3. QED
        BY <2>1, <3>2 DEF Types, Call
    <2>2. CASE Adds(Health)
      BY <2>2 DEF Adds, Types
    <2>3. QED
      BY <2>1, <2>2, TasksStep DEF Fewer
  <1>3. /\ worker' \in [Workers -> Commands \cup {Nothing}]
        /\ process' \in [Commands -> {"none", "runs"} \cup Ended]
        /\ runs' \in [Commands -> 0..1]
    <2>1. CASE Spawn
      <3>1. /\ Head(ready) \in Commands
            /\ runs' = [runs EXCEPT ![Head(ready)] = 1]
            /\ process' = [process EXCEPT ![Head(ready)] = "runs"]
            /\ \E w \in Workers : worker' = [worker EXCEPT ![w] = Head(ready)]
        BY <2>1, SpawnStep
      <3>2. worker' \in [Workers -> Commands \cup {Nothing}]
        BY <3>1 DEF Types
      <3>3. process' \in [Commands -> {"none", "runs"} \cup Ended]
        BY <3>1 DEF Types
      <3>4. runs' \in [Commands -> 0..1]
        BY <3>1 DEF Types
      <3>5. QED
        BY <3>2, <3>3, <3>4
    <2>2. ASSUME NEW w \in Workers, Return(w)
          PROVE  worker' \in [Workers -> Commands \cup {Nothing}] /\ UNCHANGED <<process, runs>>
      BY <2>2 DEF Return, Types
    <2>3. ASSUME NEW k \in Commands, ProcessEnds(k)
          PROVE  process' \in [Commands -> {"none", "runs"} \cup Ended] /\ UNCHANGED <<worker, runs>>
      BY <2>3 DEF ProcessEnds, Types
    <2>4. CASE Exit
      BY <2>4 DEF Exit, Types
    <2>5. CASE UNCHANGED <<worker, process, runs>>
      BY <2>5 DEF Types
    <2>6. QED
      BY <2>1, <2>2, <2>3, <2>4, <2>5
      DEF Types, Next, Handler, Call, HangUp, CheckHealth, AnswerHealth, Refuse, StopServing
  <1>4. QED
    BY <1>1, <1>2, <1>3 DEF Types

(* What was asked for stays asked for.                                     *)
LEMMA AskedKept ==
  ASSUME Types, Next, NEW k \in Commands, Asked(k)
  PROVE  Asked(k)'
  <1>1. k[1] \in Clients /\ k[2] \in Nat
    BY CommandParts
  <1>2. k' = k
    OBVIOUS
  <1>3. QED
    BY <1>1, CallersStep DEF Asked

(* Nobody but a spawn begins a command.                                    *)
LEMMA RunsStep ==
  ASSUME Types, ReadyFresh, Next
  PROVE  \/ Spawn
         \/ runs' = runs /\ \A k \in Commands : process'[k] # "none" => process[k] # "none"
  BY DEF Next, Handler, Call, HangUp, CheckHealth, AnswerHealth, Refuse, Return,
         ProcessEnds, StopServing, Exit, Types

LEMMA BegunStep ==
  ASSUME Types, ReadyFresh, BegunAsked, ProcessBegun, Next
  PROVE  BegunAsked' /\ ProcessBegun'
  <1>1. CASE Spawn
    <2>1. \A k \in Commands : runs'[k] # 0 => Asked(k)
      BY <1>1, SpawnStep DEF BegunAsked, Types
    <2>2. \A k \in Commands : process'[k] # "none" => runs'[k] = 1
      BY <1>1, SpawnStep DEF ProcessBegun, Types
    <2>3. QED
      BY <2>1, <2>2, AskedKept DEF BegunAsked, ProcessBegun
  <1>2. CASE runs' = runs /\ \A k \in Commands : process'[k] # "none" => process[k] # "none"
    BY <1>2, AskedKept DEF BegunAsked, ProcessBegun
  <1>3. QED
    BY <1>1, <1>2, RunsStep

-----------------------------------------------------------------------------
(* A command is in one place at a time.                                    *)

LEMMA ReadyStep ==
  ASSUME Types, ReadyFresh, ReadyOnce, BegunAsked, Next
  PROVE  ReadyFresh' /\ ReadyOnce'
  <1>1. CASE Fewer /\ runs' = runs
    <2>1. PICK f \in [1..Len(ready') -> 1..Len(ready)] :
            /\ \A i \in 1..Len(ready') : ready'[i] = ready[f[i]]
            /\ \A i, j \in 1..Len(ready') : f[i] = f[j] => i = j
      BY <1>1 DEF Fewer
    <2>2. ASSUME NEW i \in 1..Len(ready'), ready'[i] # Health
          PROVE  Asked(ready[i])' /\ runs'[ready'[i]] = 0
      <3>1. /\ ready'[i] = ready[f[i]] /\ f[i] \in 1..Len(ready)
            /\ ready'[i] \in Commands
        BY <2>1, <2>2 DEF Types
      <3>2. Asked(ready[f[i]]) /\ runs[ready[f[i]]] = 0
        BY <2>2, <3>1 DEF ReadyFresh
      <3>3. \A k \in Commands : Asked(k) => k[2] <= caller'[k[1]].n
        BY AskedKept DEF Asked
      <3>4. QED
        BY <1>1, <3>1, <3>2, <3>3 DEF Asked
    <2>3. ReadyFresh'
      BY <2>2 DEF ReadyFresh
    <2>4. ASSUME NEW i \in 1..Len(ready'), NEW j \in 1..Len(ready'),
                 ready'[i] = ready'[j], ready'[i] # Health
          PROVE  i = j
      <3>1. /\ f[i] \in 1..Len(ready) /\ f[j] \in 1..Len(ready)
            /\ ready[f[i]] = ready[f[j]] /\ ready[f[i]] # Health
        BY <2>1, <2>4
      <3>2. f[i] = f[j]
        BY <3>1 DEF ReadyOnce
      <3>3. QED
        BY <2>1, <3>2
    <2>5. ReadyOnce'
      BY <2>4 DEF ReadyOnce
    <2>6. QED
      BY <2>3, <2>5
  <1>2. CASE Spawn
    <2>1. /\ Head(ready) \in Commands /\ runs' = [runs EXCEPT ![Head(ready)] = 1]
          /\ Head(ready) = ready[1] /\ 1 \in 1..Len(ready) /\ Head(ready) # Health
          /\ \A i \in 1..Len(ready') : ready'[i] = ready[i + 1] /\ i + 1 \in 1..Len(ready)
      BY <1>2, SpawnStep, FewerPopped, Distinct
    <2>2. ASSUME NEW i \in 1..Len(ready'), ready'[i] # Health
          PROVE  Asked(ready[i])' /\ runs'[ready'[i]] = 0
      <3>1. ready'[i] = ready[i + 1] /\ i + 1 \in 1..Len(ready) /\ ready'[i] \in Commands
        BY <2>1, <2>2 DEF Types
      <3>2. Asked(ready[i + 1]) /\ runs[ready[i + 1]] = 0
        BY <2>2, <3>1 DEF ReadyFresh
      <3>3. \A k \in Commands : Asked(k) => k[2] <= caller'[k[1]].n
        BY AskedKept DEF Asked
      <3>4. ready'[i] # Head(ready)
        BY <2>1, <3>1 DEF ReadyOnce
      <3>5. QED
        BY <2>1, <3>1, <3>2, <3>3, <3>4 DEF Asked, Types
    <2>3. ReadyFresh'
      BY <2>2 DEF ReadyFresh
    <2>4. ReadyOnce'
      BY <2>1 DEF ReadyOnce
    <2>5. QED
      BY <2>3, <2>4
  <1>3. ASSUME NEW t, Adds(t), runs' = runs, t \in Commands \cup {Health},
               t # Health => /\ t[2] <= caller'[t[1]].n /\ runs[t] = 0
                             /\ \A i \in 1..Len(ready) : ready[i] # t
        PROVE  ReadyFresh' /\ ReadyOnce'
    <2>1. /\ Len(ready') = Len(ready) + 1 /\ Len(ready) \in Nat
          /\ \A i \in 1..Len(ready) : ready'[i] = ready[i]
          /\ ready'[Len(ready) + 1] = t
      BY <1>3 DEF Adds, Types
    <2>2. \A k \in Commands : Asked(k) => k[2] <= caller'[k[1]].n
      BY AskedKept DEF Asked
    <2>3. ASSUME NEW i \in 1..Len(ready'), ready'[i] # Health
          PROVE  Asked(ready[i])' /\ runs'[ready'[i]] = 0
      <3>1. CASE i \in 1..Len(ready)
        <4>1. ready'[i] = ready[i] /\ ready[i] \in Commands
          BY <2>1, <2>3, <3>1 DEF Types
        <4>2. Asked(ready[i]) /\ runs[ready[i]] = 0
          BY <2>3, <3>1, <4>1 DEF ReadyFresh
        <4>3. QED
          BY <1>3, <2>2, <4>1, <4>2 DEF Asked
      <3>2. CASE i = Len(ready) + 1
        BY <1>3, <2>1, <2>3, <3>2 DEF Asked
      <3>3. QED
        BY <2>1, <3>1, <3>2
    <2>4. ReadyFresh'
      BY <2>3 DEF ReadyFresh
    <2>5. ASSUME NEW i \in 1..Len(ready'), NEW j \in 1..Len(ready'),
                 ready'[i] = ready'[j], ready'[i] # Health
          PROVE  i = j
      <3>1. /\ i \in 1..Len(ready) \/ i = Len(ready) + 1
            /\ j \in 1..Len(ready) \/ j = Len(ready) + 1
        BY <2>1
      <3>2. CASE i \in 1..Len(ready) /\ j \in 1..Len(ready)
        BY <2>1, <2>5, <3>2 DEF ReadyOnce
      <3>3. CASE i = Len(ready) + 1 /\ j \in 1..Len(ready)
        BY <1>3, <2>1, <2>5, <3>3
      <3>4. CASE j = Len(ready) + 1 /\ i \in 1..Len(ready)
        BY <1>3, <2>1, <2>5, <3>4
      <3>5. QED
        BY <3>1, <3>2, <3>3, <3>4
    <2>6. QED
      BY <2>4, <2>5 DEF ReadyOnce
  <1>4. ASSUME NEW c \in Clients, Call(c) PROVE ReadyFresh' /\ ReadyOnce'
    <2> DEFINE n == caller[c].n + 1
               t == <<c, n>>
    <2>1. /\ n \in 1..MaxCalls /\ n - 1 = caller[c].n /\ caller'[c].n = n
          /\ Adds(t) /\ runs' = runs
      BY <1>4, BridgeAssumption DEF Types, CallerState, Call, Adds
    <2> HIDE DEF n
    <2>2. t \in Commands /\ t[1] = c /\ t[2] = n
      BY <2>1, Pairs
    <2>3. ~Asked(t)
      BY <2>1, <2>2, BridgeAssumption DEF Asked
    <2>4. runs[t] = 0
      BY <2>2, <2>3 DEF BegunAsked
    <2>5. ASSUME NEW i \in 1..Len(ready), ready[i] = t PROVE FALSE
      BY <2>2, <2>3, <2>5, BridgeAssumption, Distinct DEF ReadyFresh
    <2>6. t[2] <= caller'[t[1]].n
      BY <2>1, <2>2, BridgeAssumption
    <2> HIDE DEF t
    <2>7. QED
      BY <1>3, <2>1, <2>2, <2>4, <2>5, <2>6
  <1>5. CASE Adds(Health) /\ runs' = runs
    BY <1>3, <1>5
  <1>6. QED
    BY <1>1, <1>2, <1>4, <1>5, TasksStep, RunsStep

LEMMA BlockedStep ==
  ASSUME Types, ReadyFresh, BlockedBegun, BlockedApart, Next
  PROVE  BlockedBegun' /\ BlockedApart'
  <1>1. CASE Spawn
    <2>1. PICK w \in Workers : worker[w] = Nothing /\ worker' = [worker EXCEPT ![w] = Head(ready)]
      BY <1>1, SpawnStep
    <2>2. /\ Head(ready) \in Commands /\ runs[Head(ready)] = 0
          /\ runs' = [runs EXCEPT ![Head(ready)] = 1]
      BY <1>1, SpawnStep
    <2>3. /\ worker'[w] = Head(ready) /\ \A v \in Workers \ {w} : worker'[v] = worker[v]
      BY <2>1 DEF Types
    <2>4. \A v \in Workers : worker[v] # Nothing => worker[v] # Head(ready) /\ worker[v] \in Commands
      BY <2>2 DEF BlockedBegun, Types
    <2>5. BlockedBegun'
      BY <2>2, <2>3, <2>4 DEF BlockedBegun, Types
    <2>6. BlockedApart'
      BY <2>3, <2>4 DEF BlockedApart
    <2>7. QED
      BY <2>5, <2>6
  <1>2. ASSUME \A w \in Workers : worker'[w] \in {worker[w], Nothing}, runs' = runs
        PROVE  BlockedBegun' /\ BlockedApart'
    BY <1>2 DEF BlockedBegun, BlockedApart
  <1>3. ASSUME NEW w \in Workers, Return(w) PROVE BlockedBegun' /\ BlockedApart'
    BY <1>2, <1>3 DEF Return, Types
  <1>4. CASE Exit
    BY <1>2, <1>4 DEF Exit
  <1>5. CASE UNCHANGED <<worker, runs>>
    BY <1>2, <1>5
  <1>6. QED
    BY <1>1, <1>3, <1>4, <1>5
    DEF Next, Handler, Call, HangUp, CheckHealth, AnswerHealth, Refuse, ProcessEnds, StopServing

(* A thread leaves its process only when it has ended.                     *)
LEMMA RunningStep ==
  ASSUME Types, ReadyFresh, BlockedBegun, ProcessBegun, RunsAreBlocked, Next
  PROVE  RunsAreBlocked'
  <1>1. CASE Spawn
    <2>1. PICK w \in Workers : worker[w] = Nothing /\ worker' = [worker EXCEPT ![w] = Head(ready)]
      BY <1>1, SpawnStep
    <2>2. /\ Head(ready) \in Commands
          /\ process' = [process EXCEPT ![Head(ready)] = "runs"] /\ up' = up
      BY <1>1, SpawnStep DEF Spawn
    <2>3. ASSUME up, NEW k \in Commands, process'[k] = "runs"
          PROVE  \E v \in Workers : worker'[v] = k
      <3>1. CASE k = Head(ready)
        BY <2>1, <3>1 DEF Types
      <3>2. CASE k # Head(ready)
        <4>1. process[k] = "runs"
          BY <2>2, <2>3, <3>2 DEF Types
        <4>2. PICK v \in Workers : worker[v] = k
          BY <2>3, <4>1 DEF RunsAreBlocked
        <4>3. v # w
          BY <2>1, <4>2, Distinct
        <4>4. QED
          BY <2>1, <4>2, <4>3 DEF Types
      <3>3. QED
        BY <3>1, <3>2
    <2>4. QED
      BY <2>2, <2>3 DEF RunsAreBlocked
  <1>2. ASSUME NEW w \in Workers, Return(w) PROVE RunsAreBlocked'
    <2>1. /\ worker' = [worker EXCEPT ![w] = Nothing] /\ process[worker[w]] # "runs"
          /\ process' = process /\ up' = up
      BY <1>2 DEF Return, Ended
    <2>2. QED
      BY <2>1 DEF RunsAreBlocked, Types
  <1>3. ASSUME NEW k \in Commands, ProcessEnds(k) PROVE RunsAreBlocked'
    BY <1>3 DEF ProcessEnds, RunsAreBlocked, Types, Ended
  <1>4. CASE Exit
    BY <1>4 DEF Exit, RunsAreBlocked
  <1>5. CASE UNCHANGED <<up, worker, process>>
    BY <1>5 DEF RunsAreBlocked
  <1>6. QED
    BY <1>1, <1>2, <1>3, <1>4, <1>5
    DEF Next, Handler, Call, HangUp, CheckHealth, AnswerHealth, Refuse, StopServing

(* A thread replies with the answer to its own command, and only the       *)
(* client that still waits for it takes it.                                *)
LEMMA GotStep ==
  ASSUME Types, GotOwn, Next
  PROVE  GotOwn'
  <1>0. caller \in [Clients -> CallerState] /\ MaxCalls \in Nat
    BY BridgeAssumption DEF Types
  <1>1. ASSUME NEW k \in Commands, NEW got \in {Error, k}, Reply(k, got) PROVE GotOwn'
    <2>1. k = <<k[1], k[2]>> /\ k[1] \in Clients
      BY CommandParts
    <2>2. ASSUME NEW c \in Clients
          PROVE  caller'[c].got \in {Nothing, Error, <<c, caller'[c].n>>}
      <3>1. caller'[c].n = caller[c].n
        BY <1>1, ReplyStep
      <3>2. caller'[c] = caller[c] \/ (Waits(k) /\ c = k[1] /\ caller'[c].got = got)
        BY <1>1, ReplyStep
      <3>3. CASE caller'[c] = caller[c]
        BY <3>3 DEF GotOwn
      <3>4. CASE Waits(k) /\ c = k[1] /\ caller'[c].got = got
        BY <1>1, <2>1, <3>1, <3>4 DEF Waits
      <3>5. QED
        BY <3>2, <3>3, <3>4
    <2>3. QED
      BY <2>2 DEF GotOwn
  <1>2. ASSUME NEW c \in Clients, Call(c) PROVE GotOwn'
    <2>1. caller' = [caller EXCEPT ![c] = [busy |-> TRUE, n |-> caller[c].n + 1, got |-> Nothing]]
      BY <1>2 DEF Call
    <2>2. QED
      BY <1>0, <2>1 DEF GotOwn
  <1>3. ASSUME NEW c \in Clients, HangUp(c) PROVE GotOwn'
    <2>1. caller' = [caller EXCEPT ![c].busy = FALSE]
      BY <1>3 DEF HangUp
    <2>2. \A d \in Clients : caller'[d].got = caller[d].got /\ caller'[d].n = caller[d].n
      BY <1>0, <2>1 DEF CallerState
    <2>3. QED
      BY <2>2 DEF GotOwn
  <1>4. CASE Refuse
    <2>1. Head(ready) \in Commands /\ Reply(Head(ready), Error)
      BY <1>4, FewerPopped DEF Refuse, Begins
    <2>2. QED
      BY <1>1, <2>1
  <1>5. ASSUME NEW w \in Workers, Return(w) PROVE GotOwn'
    <2>1. worker[w] \in Commands /\ Reply(worker[w], Outcome(worker[w]))
      BY <1>5 DEF Return, Types
    <2>2. Outcome(worker[w]) \in {Error, worker[w]}
      BY DEF Outcome
    <2>3. QED
      BY <1>1, <2>1, <2>2
  <1>6. CASE Exit
    <2>1. ASSUME NEW c \in Clients
          PROVE  caller'[c] = caller[c] \/ caller'[c].got = Error
      BY <1>0, <1>6 DEF Exit, CallerState
    <2>2. QED
      BY <2>1 DEF GotOwn
  <1>7. CASE UNCHANGED caller
    BY <1>7 DEF GotOwn
  <1>8. QED
    BY <1>2, <1>3, <1>4, <1>5, <1>6, <1>7
    DEF Next, Handler, CheckHealth, AnswerHealth, Spawn, ProcessEnds, StopServing

LEMMA InitInv == Init => BridgeInv
  BY BridgeAssumption
  DEF Init, BridgeInv, Types, CallerState, ReadyFresh, ReadyOnce, BegunAsked,
      BlockedBegun, BlockedApart, ProcessBegun, RunsAreBlocked, GotOwn

LEMMA NextInv == BridgeInv /\ [Next]_vars => BridgeInv'
  <1>1. ASSUME BridgeInv, Next PROVE BridgeInv'
    BY <1>1, TypesStep, ReadyStep, BegunStep, BlockedStep, RunningStep, GotStep DEF BridgeInv
  <1>2. ASSUME BridgeInv, UNCHANGED vars PROVE BridgeInv'
    BY <1>2
    DEF BridgeInv, Types, CallerState, ReadyFresh, ReadyOnce, BegunAsked, Asked,
        BlockedBegun, BlockedApart, ProcessBegun, RunsAreBlocked, GotOwn, vars
  <1>3. QED
    BY <1>1, <1>2

(* The inductive invariant of the fall-back mode: where each command is,   *)
(* from the call to the end of its process.                                *)
THEOREM Invariance == Spec => []BridgeInv
  BY InitInv, NextInv, PTL DEF Spec

(* While the runtime is up every Julia process has exactly one thread that *)
(* waits for it in Command::output, so the threads bound the processes.    *)
THEOREM OneThreadEach == Spec => []ProcessesAreWaitedFor
  <1>1. BridgeInv => ProcessesAreWaitedFor
    <2> SUFFICES ASSUME BridgeInv, up, NEW k \in Running
                 PROVE  Cardinality({w \in Workers : worker[w] = k}) = 1
      BY DEF ProcessesAreWaitedFor
    <2>1. PICK v \in Workers : worker[v] = k
      BY DEF BridgeInv, RunsAreBlocked, Running
    <2>2. k # Nothing
      BY Distinct DEF Running
    <2>3. {w \in Workers : worker[w] = k} = {v}
      BY <2>1, <2>2 DEF BridgeInv, BlockedApart
    <2>4. QED
      BY <2>3, FS_Singleton
  <1>2. QED
    BY <1>1, Invariance, PTL

-----------------------------------------------------------------------------
(* Nobody is forgotten.                                                    *)

OnlyWhileUp == ~up => ~serving /\ \A c \in Clients : ~caller[c].busy

LEMMA UpStep == Types /\ OnlyWhileUp /\ Next => OnlyWhileUp'
  <1> SUFFICES ASSUME Types, OnlyWhileUp, Next, ~up'
               PROVE  ~serving' /\ \A c \in Clients : ~caller'[c].busy
    BY DEF OnlyWhileUp
  <1>0. caller \in [Clients -> CallerState]
    BY DEF Types
  <1>1. CASE Exit
    BY <1>0, <1>1 DEF Exit, CallerState
  <1>2. CASE ~Exit
    <2>1. ~up
      BY <1>2 DEF Next, Handler, Call, HangUp, CheckHealth, AnswerHealth, Refuse, Spawn, Return,
                  ProcessEnds, StopServing
    <2>2. ~serving /\ \A c \in Clients : ~caller[c].busy
      BY <2>1 DEF OnlyWhileUp
    <2>3. ASSUME NEW c \in Clients, Call(c) \/ HangUp(c) PROVE FALSE
      BY <2>2, <2>3 DEF Call, HangUp
    <2>4. ~serving'
      BY <1>2, <2>2, <2>3
      DEF Next, Handler, CheckHealth, AnswerHealth, Refuse, Spawn, Return, ProcessEnds, StopServing
    <2>5. caller' = caller
      <3>1. ASSUME NEW k, NEW got, Reply(k, got), k[1] \in Clients PROVE caller' = caller
        BY <2>2, <3>1 DEF Reply, Waits
      <3>2. CASE Refuse
        <4>1. Head(ready) \in Commands /\ Reply(Head(ready), Error)
          BY <3>2, FewerPopped DEF Refuse, Begins
        <4>2. QED
          BY <3>1, <4>1, CommandParts
      <3>3. ASSUME NEW w \in Workers, Return(w) PROVE caller' = caller
        <4>1. worker[w] \in Commands /\ Reply(worker[w], Outcome(worker[w]))
          BY <3>3 DEF Return, Types
        <4>2. QED
          BY <3>1, <4>1, CommandParts
      <3>4. QED
        BY <1>2, <2>3, <3>2, <3>3
        DEF Next, Handler, CheckHealth, AnswerHealth, Spawn, ProcessEnds, StopServing
    <2>6. QED
      BY <2>2, <2>4, <2>5
  <1>3. QED
    BY <1>1, <1>2

(* Who goes on waiting was not replied to and did not hang up.             *)
LEMMA ReplyEnds ==
  ASSUME Types, NEW k \in Commands, NEW got, Reply(k, got), NEW c \in Clients, caller'[c].busy
  PROVE  caller'[c] = caller[c] /\ k # <<c, caller[c].n>>
  <1>0. caller \in [Clients -> CallerState] /\ k = <<k[1], k[2]>> /\ k[1] \in Clients
    BY CommandParts DEF Types
  <1>1. CASE Waits(k)
    <2>1. caller' = [caller EXCEPT ![k[1]].busy = FALSE, ![k[1]].got = got]
      BY <1>1 DEF Reply
    <2>2. k[1] # c
      BY <1>0, <2>1 DEF CallerState
    <2>3. QED
      BY <1>0, <2>1, <2>2
  <1>2. CASE ~Waits(k)
    <2>1. caller' = caller
      BY <1>2 DEF Reply
    <2>2. k # <<c, caller[c].n>>
      BY <1>2, <2>1 DEF Waits
    <2>3. QED
      BY <2>1, <2>2
  <1>3. QED
    BY <1>1, <1>2

LEMMA GoesOnWaiting ==
  ASSUME Types, Next, NEW c \in Clients, caller'[c].busy, ~Call(c)
  PROVE  /\ caller'[c] = caller[c] /\ ~Exit /\ ~HangUp(c)
         /\ Refuse => Head(ready) # <<c, caller[c].n>>
         /\ \A w \in Workers : Return(w) => worker[w] # <<c, caller[c].n>>
  <1>0. caller \in [Clients -> CallerState]
    BY DEF Types
  <1>1. ASSUME NEW d \in Clients, Call(d) PROVE caller'[c] = caller[c]
    BY <1>0, <1>1 DEF Call
  <1>2. ASSUME NEW d \in Clients, HangUp(d) PROVE caller'[c] = caller[c] /\ d # c
    <2>1. caller' = [caller EXCEPT ![d].busy = FALSE]
      BY <1>2 DEF HangUp
    <2>2. d # c
      BY <1>0, <2>1 DEF CallerState
    <2>3. QED
      BY <1>0, <2>1, <2>2
  <1>3. ASSUME Refuse PROVE caller'[c] = caller[c] /\ Head(ready) # <<c, caller[c].n>>
    <2>1. Head(ready) \in Commands /\ Reply(Head(ready), Error)
      BY <1>3, FewerPopped DEF Refuse, Begins
    <2>2. QED
      BY <2>1, ReplyEnds
  <1>4. ASSUME NEW w \in Workers, Return(w)
        PROVE  caller'[c] = caller[c] /\ worker[w] # <<c, caller[c].n>>
    <2>1. worker[w] \in Commands /\ Reply(worker[w], Outcome(worker[w]))
      BY <1>4 DEF Return, Types
    <2>2. QED
      BY <2>1, ReplyEnds
  <1>5. ~Exit
    <2>1. ASSUME Exit PROVE ~caller'[c].busy
      BY <1>0, <2>1 DEF Exit, CallerState
    <2>2. QED
      BY <2>1
  <1>6. caller'[c] = caller[c]
    BY <1>1, <1>2, <1>3, <1>4, <1>5
    DEF Next, Handler, CheckHealth, AnswerHealth, Spawn, ProcessEnds, StopServing
  <1>7. QED
    BY <1>2, <1>3, <1>4, <1>5, <1>6

(* A task leaves the line for a thread, with a reply or with its caller.   *)
LEMMA LineStep ==
  ASSUME Types, Next, ~Exit, NEW k \in Commands, NEW i \in 1..Len(ready), ready[i] = k
  PROVE  \/ Placed(k)'
         \/ Refuse /\ Head(ready) = k
         \/ \E c \in Clients : HangUp(c) /\ k = <<c, caller[c].n>>
  <1>0. ready \in Seq(Commands \cup {Health}) /\ Len(ready) \in Nat /\ k # Health
    BY Distinct DEF Types
  <1>1. ASSUME NEW t, ready' = Append(ready, t) PROVE Placed(k)'
    <2>1. i \in 1..Len(ready') /\ ready'[i] = k
      BY <1>0, <1>1
    <2>2. QED
      BY <2>1 DEF Placed
  <1>2. ASSUME NEW c \in Clients, HangUp(c), k # <<c, caller[c].n>> PROVE Placed(k)'
    <2>1. CASE ready' = ready
      BY <2>1 DEF Placed
    <2>2. CASE ready' # ready
      <3>1. PICK j \in 1..Len(ready) : ready[j] = <<c, caller[c].n>> /\ ready' = RemoveAt(ready, j)
        BY <1>2, <2>2 DEF HangUp
      <3>2. /\ Len(ready') = Len(ready) - 1
            /\ \A m \in 1..(Len(ready) - 1) : ready'[m] = ready[IF m < j THEN m ELSE m + 1]
        BY <1>0, <3>1, RemoveAtProperties
      <3>3. i # j
        BY <1>2, <3>1
      <3>4. CASE i < j
        <4>1. i \in 1..Len(ready') /\ ready'[i] = ready[i]
          BY <1>0, <3>2, <3>4
        <4>2. QED
          BY <4>1 DEF Placed
      <3>5. CASE i > j
        <4>1. j \in Nat /\ i \in Nat /\ i <= Len(ready) /\ 1 <= j
          BY <1>0, <3>1
        <4>2. i - 1 \in 1..(Len(ready) - 1) /\ ~(i - 1 < j) /\ (i - 1) + 1 = i
          BY <1>0, <4>1, <3>5
        <4> DEFINE m == i - 1
        <4> HIDE DEF m
        <4>3. m \in 1..(Len(ready) - 1) /\ ~(m < j) /\ m + 1 = i
          BY <4>2 DEF m
        <4>4. ready'[m] = ready[m + 1]
          BY <3>2, <4>3
        <4>5. m \in 1..Len(ready') /\ ready'[m] = k
          BY <3>2, <4>3, <4>4
        <4>6. QED
          BY <4>5 DEF Placed
      <3>6. QED
        BY <1>0, <3>3, <3>4, <3>5
    <2>3. QED
      BY <2>1, <2>2
  <1>3. ASSUME ready # << >>, ready' = Tail(ready), i # 1 PROVE Placed(k)'
    <2>1. i - 1 \in 1..Len(ready') /\ ready'[i - 1] = ready[i]
      BY <1>0, <1>3
    <2>2. QED
      BY <2>1 DEF Placed
  <1>4. ready # << >> => Head(ready) = ready[1]
    BY <1>0
  <1>5. CASE AnswerHealth
    <2>1. ready # << >> /\ ready' = Tail(ready) /\ Head(ready) = Health
      BY <1>5 DEF AnswerHealth
    <2>2. i # 1
      BY <1>0, <1>4, <2>1
    <2>3. QED
      BY <1>3, <2>1, <2>2
  <1>6. CASE Refuse
    <2>1. ready # << >> /\ ready' = Tail(ready)
      BY <1>6 DEF Refuse, Begins
    <2>2. QED
      BY <1>3, <1>4, <1>6, <2>1
  <1>7. CASE Spawn
    <2>1. ready # << >> /\ ready' = Tail(ready)
      BY <1>7 DEF Spawn, Begins
    <2>2. PICK w \in Workers : worker' = [worker EXCEPT ![w] = Head(ready)]
      BY <1>7 DEF Spawn, Idle
    <2>3. worker'[w] = Head(ready)
      BY <2>2 DEF Types
    <2>4. CASE i = 1
      BY <1>4, <2>1, <2>3, <2>4 DEF Placed
    <2>5. QED
      BY <1>3, <2>1, <2>4
  <1>8. CASE ready' = ready
    BY <1>8 DEF Placed
  <1>9. QED
    BY <1>1, <1>2, <1>5, <1>6, <1>7, <1>8
    DEF Next, Handler, Call, CheckHealth, Return, ProcessEnds, StopServing

(* A thread leaves its process with a reply.                               *)
LEMMA ThreadStep ==
  ASSUME Types, Next, ~Exit, NEW k \in Commands, NEW w \in Workers, worker[w] = k, ~Return(w)
  PROVE  Placed(k)'
  <1>1. worker'[w] = worker[w]
    <2>1. CASE Spawn
      <3>1. PICK v \in Idle : worker' = [worker EXCEPT ![v] = Head(ready)]
        BY <2>1 DEF Spawn
      <3>2. v # w /\ v \in Workers
        BY <3>1, Distinct DEF Idle
      <3>3. QED
        BY <3>1, <3>2 DEF Types
    <2>2. ASSUME NEW v \in Workers, Return(v) PROVE worker'[w] = worker[w]
      <3>1. worker' = [worker EXCEPT ![v] = Nothing] /\ v # w
        BY <2>2 DEF Return
      <3>2. QED
        BY <3>1 DEF Types
    <2>3. QED
      BY <2>1, <2>2
      DEF Next, Handler, Call, HangUp, CheckHealth, AnswerHealth, Refuse, ProcessEnds, StopServing
  <1>2. QED
    BY <1>1 DEF Placed

LEMMA HeldStep == BridgeInv /\ NoCallForgotten /\ Next => NoCallForgotten'
  <1> SUFFICES ASSUME Types, NoCallForgotten, Next, NEW c \in Clients, caller'[c].busy
               PROVE  Placed(<<c, caller[c].n>>)'
    BY DEF BridgeInv, NoCallForgotten
  <1>0. caller \in [Clients -> CallerState] /\ ready \in Seq(Commands \cup {Health})
    BY DEF Types
  <1>1. CASE Call(c)
    <2>1. ready' = Append(ready, <<c, caller[c].n + 1>>) /\ caller'[c].n = caller[c].n + 1
      BY <1>0, <1>1 DEF Call
    <2>2. Len(ready) + 1 \in 1..Len(ready') /\ ready'[Len(ready) + 1] = <<c, caller[c].n + 1>>
      BY <1>0, <2>1
    <2>3. QED
      BY <2>1, <2>2 DEF Placed
  <1>2. CASE ~Call(c)
    <2> DEFINE k == <<c, caller[c].n>>
    <2>1. /\ caller'[c] = caller[c] /\ ~Exit /\ ~HangUp(c)
          /\ Refuse => Head(ready) # k
          /\ \A w \in Workers : Return(w) => worker[w] # k
      BY <1>2, GoesOnWaiting
    <2>2. Placed(k)
      BY <2>1 DEF NoCallForgotten
    <2>3. k \in Commands
      <3>1. worker \in [Workers -> Commands \cup {Nothing}]
        BY DEF Types
      <3>2. k \in Commands \cup {Health, Nothing}
        BY <1>0, <2>2, <3>1 DEF Placed
      <3>3. caller[c].n \in Nat
        BY <1>0, BridgeAssumption DEF CallerState
      <3>4. k # Health /\ k # Nothing
        BY <3>3, BridgeAssumption
      <3>5. QED
        BY <3>2, <3>4
    <2>4. \A d \in Clients : HangUp(d) => k # <<d, caller[d].n>>
      BY <2>1
    <2>5. k' = k
      BY <2>1
    <2> HIDE DEF k
    <2>6. ASSUME NEW i \in 1..Len(ready), ready[i] = k PROVE Placed(k)'
      BY <2>1, <2>3, <2>4, <2>5, <2>6, LineStep DEF Placed
    <2>7. ASSUME NEW w \in Workers, worker[w] = k PROVE Placed(k)'
      BY <2>1, <2>3, <2>5, <2>7, ThreadStep DEF Placed
    <2>8. Placed(k)'
      BY <2>2, <2>6, <2>7 DEF Placed
    <2>9. QED
      BY <2>8 DEF k
  <1>3. QED
    BY <1>1, <1>2

(* For any number of clients and threads: who waits for an answer has a    *)
(* task in line or a thread that is blocked for his process, and nobody    *)
(* waits for a runtime that is gone.                                       *)
THEOREM NobodyForgotten == Spec => [](NoCallForgotten /\ OnlyWhileUp)
  <1>1. Init => NoCallForgotten /\ OnlyWhileUp
    BY DEF Init, NoCallForgotten, OnlyWhileUp
  <1>2. NoCallForgotten /\ OnlyWhileUp /\ UNCHANGED vars => (NoCallForgotten /\ OnlyWhileUp)'
    <2> SUFFICES ASSUME NoCallForgotten, OnlyWhileUp, UNCHANGED vars
                 PROVE  (NoCallForgotten /\ OnlyWhileUp)'
      OBVIOUS
    <2>1. caller' = caller /\ ready' = ready /\ worker' = worker /\ up' = up /\ serving' = serving
      BY DEF vars
    <2>3. ASSUME NEW c \in Clients, caller'[c].busy PROVE Placed(<<c, caller[c].n>>)
      BY <2>1, <2>3 DEF NoCallForgotten
    <2>4. ASSUME NEW c \in Clients, caller'[c].busy PROVE Placed(<<c, caller[c].n>>)'
      <3>1. Placed(<<c, caller[c].n>>)
        BY <2>3, <2>4
      <3>2. caller'[c].n = caller[c].n
        BY <2>1
      <3> DEFINE k == <<c, caller[c].n>>
      <3>3. k' = k
        BY <3>2
      <3>4. Placed(k)
        BY <3>1
      <3> HIDE DEF k
      <3>5. Placed(k)'
        BY <2>1, <3>3, <3>4 DEF Placed
      <3>6. QED
        BY <3>5 DEF k
    <2>5. NoCallForgotten'
      BY <2>4 DEF NoCallForgotten
    <2>6. OnlyWhileUp'
      BY <2>1 DEF OnlyWhileUp
    <2>7. QED
      BY <2>5, <2>6
  <1>3. BridgeInv => Types
    BY DEF BridgeInv
  <1>4. QED
    BY <1>1, <1>2, <1>3, HeldStep, UpStep, Invariance, PTL DEF Spec

-----------------------------------------------------------------------------
(* The abstract service.                                                   *)

LEMMA ToldCases ==
  ASSUME NEW c \in Clients, NEW n \in Nat
  PROVE  LET own == <<c, n>> IN
         /\ Told(Nothing, own) = "none"
         /\ Told(Error, own) = "error"
         /\ Told(own, own) = "own"
  <1>1. <<c, n>> # Nothing /\ <<c, n>> # Error /\ Error # Nothing
    BY BridgeAssumption
  <1>2. QED
    BY <1>1, Zenon DEF Told

LEMMA SeenAt ==
  ASSUME NEW c \in Clients
  PROVE  /\ Seen[c].busy = caller[c].busy /\ Seen[c].n = caller[c].n
         /\ Seen[c] = [busy |-> caller[c].busy, n |-> caller[c].n,
                       got |-> Told(caller[c].got, <<c, caller[c].n>>)]
  BY Zenon DEF Seen

LEMMA SeenApart ==
  ASSUME NEW c \in Clients, caller'[c] = caller[c]
  PROVE  Seen'[c] = Seen[c]
  BY DEF Seen

LEMMA SeenSame == UNCHANGED caller => Seen' = Seen
  BY DEF Seen

LEMMA InitRefines == Init => Service!Init
  <1> SUFFICES ASSUME Init PROVE Service!Init
    OBVIOUS
  <1>1. ASSUME NEW c \in Clients
        PROVE  caller[c].busy = FALSE /\ caller[c].n = 0
               /\ Told(caller[c].got, <<c, caller[c].n>>) = "none"
    <2>1. caller[c] = [busy |-> FALSE, n |-> 0, got |-> Nothing]
      BY DEF Init
    <2>2. Told(Nothing, <<c, 0>>) = "none"
      BY ToldCases
    <2>3. QED
      BY <2>1, <2>2
  <1>2. Seen = [c \in Clients |-> [busy |-> FALSE, n |-> 0, got |-> "none"]]
    BY <1>1, Zenon DEF Seen
  <1>3. QED
    BY <1>2 DEF Init, Service!Init, Service!Commands, Commands

LEMMA CallRefines ==
  ASSUME Types, NEW c \in Clients, Call(c)
  PROVE  Service!Ask(c)
  <1>0. caller[c].n \in Nat
    BY BridgeAssumption DEF Types, CallerState
  <1>1. /\ caller'[c] = [busy |-> TRUE, n |-> caller[c].n + 1, got |-> Nothing]
        /\ \A d \in Clients \ {c} : caller'[d] = caller[d]
        /\ ~caller[c].busy /\ caller[c].n < MaxCalls /\ runs' = runs
    BY DEF Types, Call
  <1>2. \A d \in Clients \ {c} : Seen'[d] = Seen[d]
    BY <1>1, SeenApart
  <1>3. Seen'[c] = [busy |-> TRUE, n |-> Seen[c].n + 1, got |-> "none"]
    <2>1. Told(Nothing, <<c, caller'[c].n>>) = "none"
      BY <1>0, <1>1, ToldCases
    <2>2. caller'[c].busy = TRUE /\ caller'[c].n = caller[c].n + 1 /\ caller'[c].got = Nothing
      BY <1>1
    <2>3. Seen[c].n = caller[c].n
      BY SeenAt
    <2>4. QED
      BY <2>1, <2>2, <2>3, Zenon DEF Seen
  <1>4. Seen' = [Seen EXCEPT ![c] = [busy |-> TRUE, n |-> Seen[c].n + 1, got |-> "none"]]
    BY <1>2, <1>3 DEF Seen
  <1>5. ~Seen[c].busy /\ Seen[c].n < MaxCalls
    BY <1>1, SeenAt
  <1>6. QED
    BY <1>1, <1>4, <1>5 DEF Service!Ask

LEMMA HangUpRefines ==
  ASSUME Types, NEW c \in Clients, HangUp(c)
  PROVE  Service!Leave(c)
  <1>1. caller' = [caller EXCEPT ![c].busy = FALSE] /\ caller[c].busy /\ runs' = runs
    BY DEF HangUp
  <1>2. /\ caller'[c].busy = FALSE /\ caller'[c].n = caller[c].n /\ caller'[c].got = caller[c].got
        /\ \A d \in Clients \ {c} : caller'[d] = caller[d]
    BY <1>1 DEF Types, CallerState
  <1>3. \A d \in Clients \ {c} : Seen'[d] = Seen[d]
    BY <1>2, SeenApart
  <1>4. Seen'[c] = [busy |-> FALSE, n |-> caller[c].n,
                    got |-> Told(caller[c].got, <<c, caller[c].n>>)]
    BY <1>2, Zenon DEF Seen
  <1>5. Seen' = [Seen EXCEPT ![c].busy = FALSE]
    BY <1>3, <1>4, SeenAt DEF Seen
  <1>6. QED
    BY <1>1, <1>5, SeenAt DEF Service!Leave

(* The answer of an ended process, or an error, reaches the client that    *)
(* still waits for it; everybody else sees nothing.                        *)
LEMMA ReplyRefines ==
  ASSUME Types, NEW k \in Commands, NEW got \in {Error, k}, Reply(k, got),
         got = k => runs[k] = 1, runs' = runs
  PROVE  [Service!Next]_(Service!vars)
  <1>1. CASE ~Waits(k)
    <2>1. caller' = caller
      BY <1>1 DEF Reply
    <2>2. QED
      BY <2>1, SeenSame DEF Service!vars
  <1>2. CASE Waits(k)
    <2> DEFINE c == k[1]
    <2>0. c \in Clients /\ k = <<c, caller[c].n>> /\ caller[c].busy /\ caller[c].n \in Nat
      BY <1>2, CommandParts, BridgeAssumption DEF Waits, Types, CallerState
    <2>1. caller' = [caller EXCEPT ![c].busy = FALSE, ![c].got = got]
      BY <1>2 DEF Reply
    <2> HIDE DEF c
    <2>2. /\ caller'[c].busy = FALSE /\ caller'[c].n = caller[c].n /\ caller'[c].got = got
          /\ \A d \in Clients \ {c} : caller'[d] = caller[d]
      BY <2>0, <2>1 DEF Types, CallerState
    <2>3. \A d \in Clients \ {c} : Seen'[d] = Seen[d]
      BY <2>2, SeenApart
    <2>4. Seen[c].busy /\ Seen[c].n = caller[c].n
      BY <2>0, SeenAt
    <2>5. Seen'[c] = [busy |-> FALSE, n |-> caller[c].n, got |-> Told(got, <<c, caller[c].n>>)]
      BY <2>0, <2>2, Zenon DEF Seen
    <2>6. CASE got = k
      <3>1. Told(got, <<c, caller[c].n>>) = "own"
        BY <2>0, <2>6, ToldCases
      <3>2. Seen'[c] = [busy |-> FALSE, n |-> Seen[c].n, got |-> "own"]
        BY <2>4, <2>5, <3>1
      <3>3. Seen' = [Seen EXCEPT ![c].busy = FALSE, ![c].got = "own"]
        BY <2>3, <3>2 DEF Seen
      <3>4. runs[<<c, Seen[c].n>>] = 1
        BY <2>0, <2>4, <2>6
      <3>5. Service!Answer(c)
        BY <2>4, <3>3, <3>4 DEF Service!Answer
      <3>6. QED
        BY <2>0, <3>5 DEF Service!Next
    <2>7. CASE got = Error
      <3>1. Told(got, <<c, caller[c].n>>) = "error"
        BY <2>0, <2>7, ToldCases
      <3>2. Seen'[c] = [busy |-> FALSE, n |-> Seen[c].n, got |-> "error"]
        BY <2>4, <2>5, <3>1
      <3>3. Seen' = [d \in Clients |->
                       IF d \in {c} THEN [busy |-> FALSE, n |-> Seen[d].n, got |-> "error"]
                                    ELSE Seen[d]]
        BY <2>3, <3>2 DEF Seen
      <3>4. Service!Fail({c})
        BY <2>4, <3>3 DEF Service!Fail
      <3>5. {c} \in SUBSET Clients
        BY <2>0
      <3>6. QED
        BY <3>4, <3>5 DEF Service!Next
    <2>8. QED
      BY <2>6, <2>7
  <1>3. QED
    BY <1>1, <1>2

LEMMA ExitRefines ==
  ASSUME Types, Exit
  PROVE  [Service!Next]_(Service!vars)
  <1> DEFINE S == {c \in Clients : caller[c].busy}
  <1>1. ASSUME NEW c \in Clients \ S PROVE Seen'[c] = Seen[c]
    <2>1. caller'[c] = caller[c]
      BY DEF Exit
    <2>2. QED
      BY <2>1, SeenApart
  <1>2. ASSUME NEW c \in S
        PROVE  Seen'[c] = [busy |-> FALSE, n |-> Seen[c].n, got |-> "error"]
    <2>1. caller'[c] = [caller[c] EXCEPT !.busy = FALSE, !.got = Error]
      BY DEF Exit
    <2>2. caller'[c].busy = FALSE /\ caller'[c].n = caller[c].n /\ caller'[c].got = Error
      BY <2>1 DEF Types, CallerState
    <2>3. Told(Error, <<c, caller[c].n>>) = "error"
      <3>1. caller[c].n \in Nat
        BY BridgeAssumption DEF Types, CallerState
      <3>2. QED
        BY <3>1, ToldCases
    <2>4. Seen'[c] = [busy |-> FALSE, n |-> caller[c].n, got |-> "error"]
      BY <2>2, <2>3, Zenon DEF Seen
    <2>5. QED
      BY <2>4, SeenAt
  <1>3. Seen' = [c \in Clients |->
                   IF c \in S THEN [busy |-> FALSE, n |-> Seen[c].n, got |-> "error"]
                              ELSE Seen[c]]
    BY <1>1, <1>2 DEF Seen
  <1>4. \A c \in S : Seen[c].busy
    BY SeenAt
  <1>5. Service!Fail(S)
    BY <1>3, <1>4 DEF Service!Fail, Exit
  <1>6. S \in SUBSET Clients
    OBVIOUS
  <1>7. QED
    BY <1>5, <1>6 DEF Service!Next

LEMMA SpawnRefines ==
  ASSUME Types, ReadyFresh, Spawn
  PROVE  [Service!Next]_(Service!vars)
  <1> DEFINE k == Head(ready)
  <1>1. /\ k \in Commands /\ runs[k] = 0 /\ Asked(k) /\ runs' = [runs EXCEPT ![k] = 1]
        /\ caller' = caller
    BY SpawnStep DEF Spawn
  <1> HIDE DEF k
  <1>2. k[1] \in Clients
    BY <1>1, CommandParts
  <1>3. Seen' = Seen /\ Seen[k[1]].n = caller[k[1]].n
    BY <1>1, <1>2, SeenSame, SeenAt
  <1>4. Service!Work(k)
    BY <1>1, <1>3 DEF Service!Work, Asked
  <1>5. QED
    BY <1>1, <1>4 DEF Service!Next, Service!Commands, Commands

LEMMA NextRefines == BridgeInv /\ [Next]_vars => [Service!Next]_(Service!vars)
  <1> SUFFICES ASSUME BridgeInv, [Next]_vars PROVE [Service!Next]_(Service!vars)
    OBVIOUS
  <1>0. Types /\ ReadyFresh /\ BlockedBegun /\ ProcessBegun
    BY DEF BridgeInv
  <1>1. ASSUME NEW c \in Clients, Call(c) \/ HangUp(c)
        PROVE  [Service!Next]_(Service!vars)
    BY <1>0, <1>1, CallRefines, HangUpRefines DEF Service!Next
  <1>2. CASE Refuse
    <2>1. /\ Head(ready) \in Commands /\ Reply(Head(ready), Error) /\ runs' = runs
      BY <1>0, <1>2, FewerPopped DEF Refuse, Begins
    <2>2. Error # Head(ready)
      BY <2>1, Distinct
    <2>3. QED
      BY <1>0, <2>1, <2>2, ReplyRefines
  <1>3. CASE Spawn
    BY <1>0, <1>3, SpawnRefines
  <1>4. ASSUME NEW w \in Workers, Return(w) PROVE [Service!Next]_(Service!vars)
    <2>1. /\ worker[w] \in Commands /\ Reply(worker[w], Outcome(worker[w])) /\ runs' = runs
          /\ runs[worker[w]] = 1 /\ Outcome(worker[w]) \in {Error, worker[w]}
      BY <1>0, <1>4 DEF Return, Types, BlockedBegun, Outcome
    <2>2. QED
      BY <1>0, <2>1, ReplyRefines
  <1>5. CASE Exit
    BY <1>0, <1>5, ExitRefines
  <1>6. CASE UNCHANGED <<caller, runs>>
    BY <1>6, SeenSame DEF Service!vars
  <1>7. QED
    BY <1>1, <1>2, <1>3, <1>4, <1>5, <1>6
    DEF Next, Handler, CheckHealth, AnswerHealth, ProcessEnds, StopServing, vars

(* No client of the fall-back mode gets the answer to another call, and no *)
(* call is computed twice, however processes end, threads block and        *)
(* clients hang up.                                                        *)
THEOREM Refinement == Spec => ImplementsRequestService
  BY InitRefines, NextRefines, Invariance, PTL
  DEF Spec, ImplementsRequestService, Service!Spec

=============================================================================
