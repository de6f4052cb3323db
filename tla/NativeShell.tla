----------------------------- MODULE NativeShell -----------------------------
(***************************************************************************)
(* src-tauri/lib.rs: the processes of the desktop application.  The socket *)
(* at LOCK_SOCKET_PATH makes the first one the only one: a later one asks  *)
(* whoever listens there to come to the front, and leaves.  An instance    *)
(* starts a metrica-runtime of its own.                                    *)
(***************************************************************************)
EXTENDS Naturals

CONSTANTS
  Instances,   (* processes the user starts, each once                     *)
  Nobody,      (* no file at LOCK_SOCKET_PATH, no owner of the port        *)
  Stale        (* a file whose process died before                         *)

ASSUME ShellAssumption == Nobody \notin Instances /\ Stale \notin Instances \cup {Nobody}

VARIABLES
  pc,          \* per instance: how far run() has come
  path,        \* whose socket the file at LOCK_SOCKET_PATH is
  asked,       \* per instance: whom notify_existing_instance reached
  focused,     \* per instance: it was asked to come to the front
  runtime,     \* per instance: the metrica-runtime it started
  port         \* whose runtime listens on 47821

shellVars == <<pc, path, asked, focused, runtime, port>>

(* An instance answers once its window is built and its thread runs.       *)
Up == {"window", "spawn", "running"}
Listens(i) == pc[i] \in {"spawn", "running"}
Step(i, from, to) == pc[i] = from /\ pc' = [pc EXCEPT ![i] = to]

InitShell ==
  /\ pc = [i \in Instances |-> "off"]
  /\ path \in {Nobody, Stale}
  /\ asked = [i \in Instances |-> Nobody]
  /\ focused = [i \in Instances |-> FALSE]
  /\ runtime = [i \in Instances |-> "none"]
  /\ port = Nobody

-----------------------------------------------------------------------------
(* notify_existing_instance: connect; write and wait 200 ms for the answer.*)
Connect(i) ==
  /\ pc[i] = "off"
  /\ IF path \in {Nobody, Stale}
     THEN Step(i, "off", "remove") /\ UNCHANGED asked
     ELSE Step(i, "off", "wait") /\ asked' = [asked EXCEPT ![i] = path]
  /\ UNCHANGED <<path, focused, runtime, port>>

(* The thread answers and run()'s event loop sets the focus.               *)
Acknowledged(i) ==
  /\ pc[i] = "wait" /\ Listens(asked[i])
  /\ Step(i, "wait", "left")
  /\ focused' = [focused EXCEPT ![asked[i]] = TRUE]
  /\ UNCHANGED <<path, asked, runtime, port>>

(* Nobody answers in time: the lock is taken for stale.  A thread that     *)
(* runs is taken to answer within the 200 ms.                              *)
NotAcknowledged(i) ==
  /\ pc[i] = "wait" /\ ~Listens(asked[i])
  /\ Step(i, "wait", "remove")
  /\ UNCHANGED <<path, asked, focused, runtime, port>>

(* try_acquire_lock: remove the file, whosever it is by now, and bind.     *)
KeepsFile(i) ==   \* mutant: the stale file stays
  Step(i, "remove", "bind") /\ UNCHANGED <<path, asked, focused, runtime, port>>
RemoveFile(i) ==
  /\ Step(i, "remove", "bind")
  /\ path' = Nobody
  /\ UNCHANGED <<asked, focused, runtime, port>>

Bind(i) ==
  /\ IF path = Nobody
     THEN Step(i, "bind", "window") /\ path' = i
     ELSE Step(i, "bind", "left") /\ UNCHANGED path
  /\ UNCHANGED <<asked, focused, runtime, port>>

BuildWindow(i) ==
  /\ Step(i, "window", "spawn")
  /\ UNCHANGED <<path, asked, focused, runtime, port>>

(* spawn_runtime; a failure is only reported.                              *)
SpawnRuntime(i) ==
  /\ Step(i, "spawn", "running")
  /\ \E r \in {"starting", "none"} : runtime' = [runtime EXCEPT ![i] = r]
  /\ UNCHANGED <<path, asked, focused, port>>

(* CloseRequested.  The event loop ends the process without returning, so  *)
(* nothing drops the RuntimeGuard that run() holds.                        *)
DropsGuard(i) ==   \* mutant: run() returns, and its runtime is killed
  /\ Step(i, "running", "closed")
  /\ path' = Nobody
  /\ runtime' = [runtime EXCEPT ![i] = "none"]
  /\ port' = IF port = i THEN Nobody ELSE port
  /\ UNCHANGED <<asked, focused>>
Close(i) ==
  /\ Step(i, "running", "closed")
  /\ path' = Nobody
  /\ UNCHANGED <<asked, focused, runtime, port>>

(* The runtime binds its port when its Julia is ready; it gives up when    *)
(* another one has it.  It may die before and after.                       *)
RuntimeBinds(i) ==
  /\ runtime[i] = "starting"
  /\ IF port = Nobody
     THEN runtime' = [runtime EXCEPT ![i] = "serving"] /\ port' = i
     ELSE runtime' = [runtime EXCEPT ![i] = "refused"] /\ UNCHANGED port
  /\ UNCHANGED <<pc, path, asked, focused>>

RuntimeDies(i) ==
  /\ runtime[i] \in {"starting", "serving"}
  /\ runtime' = [runtime EXCEPT ![i] = "dead"]
  /\ port' = IF port = i THEN Nobody ELSE port
  /\ UNCHANGED <<pc, path, asked, focused>>

NextShell == \E i \in Instances :
  \/ Connect(i) \/ Acknowledged(i) \/ NotAcknowledged(i) \/ RemoveFile(i) \/ Bind(i)
  \/ BuildWindow(i) \/ SpawnRuntime(i) \/ Close(i) \/ RuntimeBinds(i) \/ RuntimeDies(i)

SpecShell == InitShell /\ [][NextShell]_shellVars

-----------------------------------------------------------------------------
(* Properties.                                                             *)
ShellTypeOK ==
  /\ pc \in [Instances -> {"off", "wait", "remove", "bind", "left", "closed"} \cup Up]
  /\ path \in Instances \cup {Nobody, Stale}
  /\ asked \in [Instances -> Instances \cup {Nobody}]
  /\ focused \in [Instances -> BOOLEAN]
  /\ runtime \in [Instances -> {"none", "starting", "serving", "refused", "dead"}]
  /\ port \in Instances \cup {Nobody}

(* An instance leaves only while another one has, or is about to have, a   *)
(* window: the user never starts Metrica and gets none, not even when an   *)
(* earlier crash left its socket behind.                                   *)
LeavesToAnother ==
  [][\A i \in Instances : pc[i] # "left" /\ pc'[i] = "left" =>
       \E o \in Instances \ {i} : pc[o] \in Up]_pc

(* A window whose own runtime gave up is served by the one it gave up for  *)
(* even when that one's window has been closed; only a runtime that died   *)
(* by itself leaves windows without.  Closing takes no runtime away.       *)
WindowsAreServed ==
  \A i \in Instances : pc[i] = "running" /\ runtime[i] = "refused" =>
    \/ \E o \in Instances : port = o /\ runtime[o] = "serving"
    \/ \E o \in Instances : runtime[o] = "dead"

(* app-shell.md 19: single instance; the second one activates the window   *)
(* of the first and leaves.                                                *)
SingleInstance == \A i, o \in Instances : pc[i] \in Up /\ pc[o] \in Up => i = o

=============================================================================
