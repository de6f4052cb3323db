---------------------------- MODULE DesktopProofs ----------------------------
(***************************************************************************)
(* Theorems about the processes of the desktop application: HealthPolling  *)
(* in its window, for any number of polls under way, timer ids, outages    *)
(* and unmounts; and NativeShell around it, for any number of instances.   *)
(***************************************************************************)
EXTENDS HealthPolling, NativeShell, TLAPS


-----------------------------------------------------------------------------
(* Intervals.                                                              *)

(* What OneInterval and IntervalFollowsReadiness rest on: nothing polls    *)
(* before the module was started, so it starts at the fast pace.           *)
IntervalInv ==
  /\ pollingId \in Timers \cup {None}
  /\ OneInterval
  /\ IntervalFollowsReadiness
  /\ pollingId = None => isJuliaReady = FALSE

(* setInterval over no interval leaves exactly the new one.                *)
LEMMA SetIntervalAlone ==
  ASSUME NEW remaining, NEW kind, DOMAIN remaining = {},
         DOMAIN intervals \subseteq Timers, SetInterval(remaining, kind)
  PROVE  /\ pollingId' \in Timers /\ pollingId' # None
         /\ DOMAIN intervals' = {pollingId'} /\ intervals'[pollingId'] = kind
  <1>1. DOMAIN intervals # Timers /\ pollingId' = Unused
        /\ intervals' = [t \in DOMAIN remaining \cup {Unused} |->
                           IF t = Unused THEN kind ELSE remaining[t]]
    BY DEF SetInterval
  <1>2. \E t \in Timers : t \notin DOMAIN intervals
    BY <1>1
  <1>3. Unused \in Timers
    BY <1>2 DEF Unused
  <1>4. QED
    BY <1>1, <1>3, PollingAssumption DEF None

LEMMA IntervalStep == IntervalInv /\ [Next]_vars => IntervalInv'
  <1> SUFFICES ASSUME IntervalInv, [Next]_vars PROVE IntervalInv'
    OBVIOUS
  <1> USE DEF IntervalInv, OneInterval, IntervalFollowsReadiness
  <1>0. DOMAIN intervals \subseteq Timers
    OBVIOUS
  <1>1. CASE Start
    <2>1. DOMAIN intervals = {} /\ SetInterval(intervals, "startup") /\ isJuliaReady' = isJuliaReady
      BY <1>1 DEF Start
    <2>2. isJuliaReady = FALSE
      BY <1>1 DEF Start
    <2>3. QED
      BY <1>0, <2>1, <2>2, SetIntervalAlone
  <1>2. CASE Stop
    BY <1>2 DEF Stop, Cleared
  <1>3. ASSUME NEW p \in Polls, Arrive(p) PROVE IntervalInv'
    <2> DEFINE healthy == poll[p] = "healthy"
    <2>1. Rearm(healthy)
      BY <1>3 DEF Arrive
    <2>2. CASE healthy /\ ~isJuliaReady
      <3>1. isJuliaReady' = TRUE /\ SetInterval(Cleared(pollingId), "normal")
        BY <2>1, <2>2 DEF Rearm
      <3>2. DOMAIN Cleared(pollingId) = {}
        BY DEF Cleared
      <3>3. QED
        BY <1>0, <3>1, <3>2, SetIntervalAlone
    <2>3. CASE ~(healthy /\ ~isJuliaReady)
      BY <2>1, <2>3 DEF Rearm
    <2>4. QED
      BY <2>2, <2>3
  <1>4. CASE UNCHANGED <<intervals, pollingId, isJuliaReady>>
    BY <1>4
  <1>5. QED
    BY <1>1, <1>2, <1>3, <1>4
    DEF Next, vars, Fire, Answer, ArriveFailed, FlagChanges, Outage, Reachable

(* Whatever answers come late, in another order or after a stop, and       *)
(* however many are under way, the one interval that fires is the one      *)
(* stopHealthPolling clears.                                               *)
THEOREM IntervalInReach == Spec => []OneInterval
  <1>1. Init => IntervalInv
    BY DEF Init, IntervalInv, OneInterval, IntervalFollowsReadiness, NoIntervals
  <1>2. IntervalInv => OneInterval
    BY DEF IntervalInv
  <1>3. QED
    BY <1>1, <1>2, IntervalStep, PTL DEF Spec

(* The interval has the pace of the module's flag isJuliaReady: fast until *)
(* the first healthy answer and slow from then on, until polling stops.    *)
(* The flag is not what the store shows: it stays set when Julia is gone.  *)
THEOREM PaceIsRight == Spec => []IntervalFollowsReadiness
  <1>1. Init => IntervalInv
    BY DEF Init, IntervalInv, OneInterval, IntervalFollowsReadiness, NoIntervals
  <1>2. IntervalInv => IntervalFollowsReadiness
    BY DEF IntervalInv
  <1>3. QED
    BY <1>1, <1>2, IntervalStep, PTL DEF Spec

-----------------------------------------------------------------------------
(* The recovery.                                                           *)

(* prevJuliaHealthy never lags behind a shown "healthy"; and it is what is *)
(* shown as long as no poll ever failed and the App was never unmounted.   *)
Undisturbed == outages = 0 /\ stops = 0
HealthInv ==
  /\ juliaHealthy \in BOOLEAN /\ prevJuliaHealthy \in BOOLEAN
  /\ outages \in Nat /\ stops \in Nat
  /\ juliaHealthy => prevJuliaHealthy
  /\ Undisturbed => /\ reachable
                    /\ \A p \in Polls : poll[p] # "failed"
                    /\ healthChecked => (prevJuliaHealthy => juliaHealthy)

PollTypes == poll \in [Polls -> {"none", "sent"} \cup Answers]

LEMMA PollTypesStep == PollTypes /\ [Next]_vars => PollTypes'
  BY DEF PollTypes, Next, vars, Start, Stop, Fire, SendPoll, Answer, Answers, Arrive,
         ArriveFailed, FlagChanges, Outage, Reachable

LEMMA HealthStep == PollTypes /\ HealthInv /\ [Next]_vars => HealthInv'
  <1> SUFFICES ASSUME PollTypes, HealthInv, [Next]_vars PROVE HealthInv'
    OBVIOUS
  <1> USE DEF HealthInv, Undisturbed, PollTypes
  <1>1. CASE Start \/ Fire
    BY <1>1 DEF Start, Fire, SendPoll, serverVars, storeVars
  <1>2. CASE Stop
    BY <1>2 DEF Stop, serverVars, storeVars
  <1>3. ASSUME NEW p \in Polls, Answer(p) PROVE HealthInv'
    BY <1>3 DEF Answer, serverVars, storeVars
  <1>4. ASSUME NEW p \in Polls, Arrive(p) PROVE HealthInv'
    <2>1. /\ juliaHealthy' = (poll[p] = "healthy") /\ prevJuliaHealthy' = juliaHealthy'
          /\ UNCHANGED <<outages, stops, reachable>>
      BY <1>4 DEF Arrive, SetJuliaHealth, serverVars
    <2>2. \A q \in Polls : poll'[q] \in {poll[q], "none"}
      BY <1>4 DEF Arrive
    <2>3. QED
      BY <2>1, <2>2
  <1>5. ASSUME NEW p \in Polls, ArriveFailed(p) PROVE HealthInv'
    <2>1. ~Undisturbed
      BY <1>5 DEF ArriveFailed
    <2>2. juliaHealthy' = FALSE /\ UNCHANGED <<prevJuliaHealthy, outages, stops>>
      BY <1>5 DEF ArriveFailed, SetJuliaHealth, serverVars
    <2>3. QED
      BY <2>1, <2>2
  <1>6. CASE FlagChanges \/ Outage \/ Reachable
    BY <1>6 DEF FlagChanges, Outage, Reachable, storeVars
  <1>7. CASE UNCHANGED vars
    BY <1>7 DEF vars, serverVars, storeVars
  <1>8. QED
    BY <1>1, <1>2, <1>3, <1>4, <1>5, <1>6, <1>7 DEF Next

LEMMA HealthInvariance == Spec => [](PollTypes /\ HealthInv)
  <1>1. Init => PollTypes
    BY DEF Init, PollTypes
  <1>2. Init => HealthInv
    <2> SUFFICES ASSUME Init PROVE HealthInv
      OBVIOUS
    <2>1. outages = 0 /\ stops = 0 /\ \A p \in Polls : poll[p] # "failed"
      BY DEF Init
    <2>2. /\ reachable = TRUE /\ juliaHealthy = FALSE
          /\ prevJuliaHealthy = TRUE /\ healthChecked = FALSE
      BY DEF Init
    <2>3. QED
      BY <2>1, <2>2 DEF HealthInv, Undisturbed
  <1>3. QED
    BY <1>1, <1>2, PollTypesStep, HealthStep, PTL DEF Spec

(* One step can reload the project only when it turns the shown state from *)
(* not ready to ready, and must when nothing failed before.                *)
LEMMA ReloadStep ==
  ASSUME PollTypes, HealthInv, [Next]_vars
  PROVE  /\ ComesBack /\ outages = 0 /\ stops = 0 => recovered' # recovered
         /\ recovered' # recovered => ~juliaHealthy /\ juliaHealthy'
  <1>1. ASSUME NEW p \in Polls, Arrive(p)
        PROVE  /\ ComesBack /\ outages = 0 /\ stops = 0 => recovered' # recovered
               /\ recovered' # recovered => ~juliaHealthy /\ juliaHealthy'
    <2> DEFINE healthy == poll[p] = "healthy"
    <2>1. juliaHealthy' = healthy
      BY <1>1 DEF Arrive, SetJuliaHealth
    <2>2. recovered' = IF Returns(healthy) THEN ~recovered ELSE recovered
      BY <1>1 DEF Arrive
    <2>3. Returns(healthy) => ~juliaHealthy /\ juliaHealthy'
      BY <2>1 DEF Returns, HealthInv
    <2>4. ComesBack /\ outages = 0 /\ stops = 0 => Returns(healthy)
      BY <2>1 DEF Returns, HealthInv, ComesBack, Undisturbed
    <2>5. recovered' # recovered <=> Returns(healthy)
      BY <2>2
    <2>6. QED
      BY <2>3, <2>4, <2>5
  <1>2. CASE recovered' = recovered /\ (juliaHealthy' => juliaHealthy)
    BY <1>2 DEF ComesBack
  <1>3. ASSUME NEW p \in Polls, ArriveFailed(p)
        PROVE recovered' = recovered /\ (juliaHealthy' => juliaHealthy)
    BY <1>3 DEF ArriveFailed, SetJuliaHealth
  <1>4. QED
    BY <1>1, <1>2, <1>3
    DEF Next, vars, storeVars, Start, Stop, Fire, Answer, FlagChanges, Outage, Reachable

(* The project is reloaded whenever the app goes from showing Julia as     *)
(* gone to showing it as back, as long as no poll failed and the App was   *)
(* never unmounted, and only on such a step, in any order of the answers.  *)
THEOREM ReloadsOnReturn == Spec => RecoversOnReturn
  BY HealthInvariance, ReloadStep, PTL DEF Spec, RecoversOnReturn

-----------------------------------------------------------------------------
(* The instances of the native shell.                                      *)

LEMMA ShellTypeStep == ShellTypeOK /\ [NextShell]_shellVars => ShellTypeOK'
  <1> SUFFICES ASSUME ShellTypeOK, [NextShell]_shellVars PROVE ShellTypeOK'
    OBVIOUS
  <1> USE DEF ShellTypeOK, Step, Up
  <1>1. ASSUME NEW i \in Instances, Connect(i) PROVE ShellTypeOK'
    BY <1>1 DEF Connect
  <1>2. ASSUME NEW i \in Instances, Acknowledged(i) PROVE ShellTypeOK'
    BY <1>2 DEF Acknowledged
  <1>3. ASSUME NEW i \in Instances, NotAcknowledged(i) \/ RemoveFile(i) \/ Bind(i)
                                    \/ BuildWindow(i) \/ Close(i)
        PROVE ShellTypeOK'
    BY <1>3 DEF NotAcknowledged, RemoveFile, Bind, BuildWindow, Close
  <1>4. ASSUME NEW i \in Instances, SpawnRuntime(i) \/ RuntimeBinds(i) \/ RuntimeDies(i)
        PROVE ShellTypeOK'
    BY <1>4 DEF SpawnRuntime, RuntimeBinds, RuntimeDies
  <1>5. CASE UNCHANGED shellVars
    BY <1>5 DEF shellVars
  <1>6. QED
    BY <1>1, <1>2, <1>3, <1>4, <1>5 DEF NextShell

(* The values of the variables are what the definitions read them as.      *)
THEOREM ShellTypes == SpecShell => []ShellTypeOK
  <1>1. InitShell => ShellTypeOK
    BY DEF InitShell, ShellTypeOK
  <1>2. QED
    BY <1>1, ShellTypeStep, PTL DEF SpecShell

-----------------------------------------------------------------------------
(* Why a window is served: a runtime starts at spawn_runtime and not       *)
(* before, so none that gave up or died is ever overwritten; and what      *)
(* holds the port serves.                                                  *)
NotStarted == \A i \in Instances : pc[i] \notin {"running", "closed"} => runtime[i] = "none"
HolderServes == port # Nobody => runtime[port] = "serving"
Served ==
  (\E i \in Instances : runtime[i] = "refused") =>
    port # Nobody \/ \E o \in Instances : runtime[o] = "dead"
ServedInv == ShellTypeOK /\ NotStarted /\ HolderServes /\ Served

LEMMA ServedStep == ServedInv /\ [NextShell]_shellVars => ServedInv'
  <1> SUFFICES ASSUME ServedInv, [NextShell]_shellVars
               PROVE NotStarted' /\ HolderServes' /\ Served'
    BY ShellTypeStep DEF ServedInv
  <1> USE DEF NotStarted, HolderServes, Served, Step
  <1> DEFINE Goal == NotStarted' /\ HolderServes' /\ Served'
  <1>0. /\ NotStarted /\ HolderServes /\ Served
        /\ pc \in [Instances -> {"off", "wait", "remove", "bind", "left", "closed"} \cup Up]
        /\ runtime \in [Instances -> {"none", "starting", "serving", "refused", "dead"}]
        /\ port \in Instances \cup {Nobody}
    BY DEF ServedInv, ShellTypeOK
  <1>1. ASSUME NEW i \in Instances, SpawnRuntime(i) PROVE Goal
    <2>1. runtime[i] = "none" /\ pc' = [pc EXCEPT ![i] = "running"] /\ port' = port
      BY <1>0, <1>1 DEF SpawnRuntime
    <2>2. PICK r \in {"starting", "none"} : runtime' = [runtime EXCEPT ![i] = r]
      BY <1>1 DEF SpawnRuntime
    <2>3. QED
      BY <1>0, <2>1, <2>2
  <1>2. ASSUME NEW i \in Instances, RuntimeBinds(i) PROVE Goal
    <2>1. CASE port = Nobody
      BY <1>0, <1>2, <2>1, ShellAssumption DEF RuntimeBinds
    <2>2. CASE port # Nobody
      BY <1>0, <1>2, <2>2, ShellAssumption DEF RuntimeBinds
    <2>3. QED
      BY <2>1, <2>2
  <1>3. ASSUME NEW i \in Instances, RuntimeDies(i) PROVE Goal
    <2>1. runtime' = [runtime EXCEPT ![i] = "dead"] /\ pc' = pc
          /\ runtime[i] \in {"starting", "serving"}
          /\ port' = IF port = i THEN Nobody ELSE port
      BY <1>3 DEF RuntimeDies
    <2>2. runtime'[i] = "dead"
      BY <1>0, <2>1
    <2>3. QED
      BY <1>0, <2>1, <2>2, ShellAssumption
  <1>4. ASSUME NEW i \in Instances,
               Connect(i) \/ Acknowledged(i) \/ NotAcknowledged(i) \/ RemoveFile(i)
               \/ Bind(i) \/ BuildWindow(i) \/ Close(i)
        PROVE Goal
    <2>1. UNCHANGED <<runtime, port>>
      BY <1>4 DEF Connect, Acknowledged, NotAcknowledged, RemoveFile, Bind, BuildWindow, Close
    <2>2. \A o \in Instances :
            pc'[o] \notin {"running", "closed"} => pc[o] \notin {"running", "closed"}
      BY <1>0, <1>4
      DEF Connect, Acknowledged, NotAcknowledged, RemoveFile, Bind, BuildWindow, Close
    <2>3. QED
      BY <1>0, <2>1, <2>2
  <1>5. CASE UNCHANGED shellVars
    BY <1>0, <1>5 DEF shellVars
  <1>6. QED
    BY <1>1, <1>2, <1>3, <1>4, <1>5 DEF NextShell

(* However many instances start and close and runtimes die: a window whose *)
(* own runtime gave up has one that serves, its window open or closed,     *)
(* unless some runtime died by itself.                                     *)
THEOREM NobodyTakesTheRuntime == SpecShell => []WindowsAreServed
  <1>1. InitShell => ServedInv
    <2>1. InitShell => ShellTypeOK
      BY DEF InitShell, ShellTypeOK
    <2>2. InitShell => NotStarted /\ HolderServes /\ Served
      BY ShellAssumption DEF InitShell, NotStarted, HolderServes, Served
    <2>3. QED
      BY <2>1, <2>2 DEF ServedInv
  <1>2. ServedInv => WindowsAreServed
    BY DEF ServedInv, HolderServes, Served, WindowsAreServed, ShellTypeOK
  <1>3. QED
    BY <1>1, <1>2, ServedStep, PTL DEF SpecShell

-----------------------------------------------------------------------------
(* Why an instance that leaves leaves to another: the socket file is that  *)
(* of an instance on its way up (closing removes it), whoever waits for an *)
(* answer waits for another than itself, and a stale file does not survive *)
(* the removal.                                                            *)
FileOfOneUp == path \in Instances => pc[path] \in Up
WaitsForAnother == \A i \in Instances : pc[i] = "wait" => asked[i] \in Instances \ {i}
NoStaleAtBind == \A i \in Instances : pc[i] = "bind" => path # Stale
LeaveInv == ShellTypeOK /\ FileOfOneUp /\ WaitsForAnother /\ NoStaleAtBind

LEMMA LeaveStep == LeaveInv /\ [NextShell]_shellVars => LeaveInv'
  <1> SUFFICES ASSUME LeaveInv, [NextShell]_shellVars
               PROVE FileOfOneUp' /\ WaitsForAnother' /\ NoStaleAtBind'
    BY ShellTypeStep DEF LeaveInv
  <1> USE DEF FileOfOneUp, WaitsForAnother, NoStaleAtBind, Step, Up
  <1>0. /\ FileOfOneUp /\ WaitsForAnother /\ NoStaleAtBind
        /\ pc \in [Instances -> {"off", "wait", "remove", "bind", "left", "closed"} \cup Up]
        /\ path \in Instances \cup {Nobody, Stale}
        /\ asked \in [Instances -> Instances \cup {Nobody}]
    BY DEF LeaveInv, ShellTypeOK
  <1> DEFINE Goal == FileOfOneUp' /\ WaitsForAnother' /\ NoStaleAtBind'
  <1>1. ASSUME NEW i \in Instances, Connect(i) PROVE Goal
    BY <1>0, <1>1 DEF Connect
  <1>2. ASSUME NEW i \in Instances, Acknowledged(i) \/ NotAcknowledged(i) PROVE Goal
    BY <1>0, <1>2 DEF Acknowledged, NotAcknowledged
  <1>3. ASSUME NEW i \in Instances, RemoveFile(i) \/ Close(i) PROVE Goal
    BY <1>0, <1>3, ShellAssumption DEF RemoveFile, Close
  <1>4. ASSUME NEW i \in Instances, Bind(i) PROVE Goal
    BY <1>0, <1>4, ShellAssumption DEF Bind
  <1>5. ASSUME NEW i \in Instances, BuildWindow(i) \/ SpawnRuntime(i) PROVE Goal
    BY <1>0, <1>5 DEF BuildWindow, SpawnRuntime
  <1>6. CASE UNCHANGED <<pc, path, asked>>
    BY <1>0, <1>6
  <1>7. QED
    BY <1>1, <1>2, <1>3, <1>4, <1>5, <1>6 DEF NextShell, shellVars, RuntimeBinds, RuntimeDies

LEMMA LeavesStep ==
  ASSUME LeaveInv, [NextShell]_shellVars
  PROVE  [\A i \in Instances : pc[i] # "left" /\ pc'[i] = "left" =>
            \E o \in Instances \ {i} : pc[o] \in Up]_pc
  <1> SUFFICES ASSUME NEW i \in Instances, pc[i] # "left", pc'[i] = "left"
               PROVE \E o \in Instances \ {i} : pc[o] \in Up
    OBVIOUS
  <1> USE DEF Step, Up
  <1>0. pc \in [Instances -> {"off", "wait", "remove", "bind", "left", "closed"} \cup Up]
        /\ path \in Instances \cup {Nobody, Stale}
    BY DEF LeaveInv, ShellTypeOK
  <1>1. Acknowledged(i) \/ (Bind(i) /\ path # Nobody)
    BY <1>0
    DEF NextShell, shellVars, Connect, Acknowledged, NotAcknowledged, RemoveFile, Bind, BuildWindow,
        SpawnRuntime, Close, RuntimeBinds, RuntimeDies
  <1>2. CASE Acknowledged(i)
    BY <1>2 DEF Acknowledged, Listens, LeaveInv, WaitsForAnother
  <1>3. CASE Bind(i) /\ path # Nobody
    <2>1. pc[i] = "bind" /\ path \in Instances
      BY <1>0, <1>3 DEF Bind, LeaveInv, NoStaleAtBind
    <2>2. QED
      BY <2>1 DEF LeaveInv, FileOfOneUp
  <1>4. QED
    BY <1>1, <1>2, <1>3

(* Nobody who starts Metrica is left without a window, however many start  *)
(* together and whatever socket file they find.                            *)
THEOREM NobodyLeftAlone == SpecShell => LeavesToAnother
  <1>1. InitShell => LeaveInv
    <2>1. InitShell => ShellTypeOK
      BY DEF InitShell, ShellTypeOK
    <2>2. InitShell => FileOfOneUp /\ WaitsForAnother /\ NoStaleAtBind
      BY ShellAssumption DEF InitShell, FileOfOneUp, WaitsForAnother, NoStaleAtBind
    <2>3. QED
      BY <2>1, <2>2 DEF LeaveInv
  <1>2. QED
    BY <1>1, LeaveStep, LeavesStep, PTL DEF SpecShell, LeavesToAnother

=============================================================================
