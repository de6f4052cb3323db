---------------------------- MODULE HealthPolling ----------------------------
(***************************************************************************)
(* services/healthPolling.ts: the desktop app polls GET /health, shows     *)
(* what it hears and reloads the project when Julia comes back.            *)
(*                                                                         *)
(* A poll is a fetch and its continuation: answers may come late, in       *)
(* another order than the polls were sent, or after polling was stopped.   *)
(***************************************************************************)
EXTENDS Naturals, FiniteSets

CONSTANTS
  Polls,         (* polls that may be under way at once                    *)
  Timers,        (* ids setInterval returns                                *)
  MaxOutages,    (* times the runtime cannot be reached: bounds the model  *)
  MaxStops       (* times the App is unmounted: bounds the model           *)

ASSUME PollingAssumption ==
  /\ MaxOutages \in Nat /\ MaxStops \in Nat
  /\ Timers # {} /\ 0 \notin Timers

VARIABLES
  flag,          \* julia_healthy of the runtime
  reachable,     \* the runtime answers at all
  outages, stops,
  poll,          \* per poll: "none", "sent", or the answer under way
  intervals,     \* intervals that fire: id -> "startup" or "normal"
  pollingId,     \* 0 for null
  isJuliaReady, prevJuliaHealthy,             \* module variables
  juliaHealthy, healthChecked, restartCount,  \* appStore
  recovered      \* flips when recoverJuliaWorkspaceIfPossible is called

serverVars == <<flag, reachable, outages>>
storeVars  == <<juliaHealthy, healthChecked, restartCount>>
vars == <<serverVars, stops, poll, intervals, pollingId, isJuliaReady,
          prevJuliaHealthy, storeVars, recovered>>

-----------------------------------------------------------------------------
Answers == {"healthy", "degraded", "failed"}
None == 0
NoIntervals == [t \in {} |-> "normal"]

(* setInterval and clearInterval; the new id is one not in use.            *)
Unused == CHOOSE t \in Timers : t \notin DOMAIN intervals
Kept(old) == intervals   \* mutant
Cleared(old) == [t \in DOMAIN intervals \ {old} |-> intervals[t]]
SetInterval(remaining, kind) ==
  /\ DOMAIN intervals # Timers
  /\ intervals' = [t \in DOMAIN remaining \cup {Unused} |->
                     IF t = Unused THEN kind ELSE remaining[t]]
  /\ pollingId' = Unused

Init ==
  /\ flag \in BOOLEAN /\ reachable = TRUE /\ outages = 0 /\ stops = 0
  /\ poll = [p \in Polls |-> "none"]
  /\ intervals = NoIntervals /\ pollingId = None
  /\ isJuliaReady = FALSE /\ prevJuliaHealthy = TRUE
  /\ juliaHealthy = FALSE /\ healthChecked = FALSE /\ restartCount = "zero"
  /\ recovered = FALSE

-----------------------------------------------------------------------------
(* poll() up to its first await.                                           *)
SendPoll == \E p \in Polls : poll[p] = "none" /\ poll' = [poll EXCEPT ![p] = "sent"]

(* startHealthPolling: a first poll and the interval of the start-up.      *)
Start ==
  /\ pollingId = None
  /\ SendPoll
  /\ SetInterval(intervals, "startup")
  /\ UNCHANGED <<serverVars, stops, isJuliaReady, prevJuliaHealthy, storeVars, recovered>>

(* stopHealthPolling, the clean-up of App's effect.                        *)
Stop ==
  /\ pollingId # None /\ stops < MaxStops
  /\ stops' = stops + 1
  /\ intervals' = Cleared(pollingId) /\ pollingId' = None
  /\ isJuliaReady' = FALSE /\ prevJuliaHealthy' = TRUE
  /\ UNCHANGED <<serverVars, poll, storeVars, recovered>>

Fire ==
  /\ intervals # NoIntervals
  /\ SendPoll
  /\ UNCHANGED <<serverVars, stops, intervals, pollingId, isJuliaReady,
                 prevJuliaHealthy, storeVars, recovered>>

(* The runtime answers (health_handler), or fetch fails.                   *)
Answer(p) ==
  /\ poll[p] = "sent"
  /\ poll' = [poll EXCEPT ![p] = IF ~reachable THEN "failed"
                                 ELSE IF flag THEN "healthy" ELSE "degraded"]
  /\ UNCHANGED <<serverVars, stops, intervals, pollingId, isJuliaReady,
                 prevJuliaHealthy, storeVars, recovered>>

(* setJuliaHealth.  /health carries no restart_count.                      *)
SetJuliaHealth(healthy, count) ==
  /\ juliaHealthy' = healthy /\ restartCount' = count
  /\ healthChecked' = (healthChecked \/ healthy)

(* The rest of poll(): the switch to the normal interval comes with the    *)
(* first healthy answer.                                                   *)
NeverRearmed(healthy) ==   \* mutant: clearInterval without setInterval
  IF healthy /\ ~isJuliaReady
  THEN isJuliaReady' = TRUE /\ intervals' = Cleared(pollingId) /\ pollingId' = pollingId
  ELSE UNCHANGED <<isJuliaReady, intervals, pollingId>>
RearmAtOldPace(healthy) ==   \* mutant: the start-up pace is kept
  IF healthy /\ ~isJuliaReady
  THEN isJuliaReady' = TRUE /\ SetInterval(Cleared(pollingId), "startup")
  ELSE UNCHANGED <<isJuliaReady, intervals, pollingId>>
Rearm(healthy) ==
  IF healthy /\ ~isJuliaReady
  THEN isJuliaReady' = TRUE /\ SetInterval(Cleared(pollingId), "normal")
  ELSE UNCHANGED <<isJuliaReady, intervals, pollingId>>

NeverReturns(healthy) == FALSE   \* mutant: prevJuliaHealthy is set before it is read
Returns(healthy) == healthy /\ ~prevJuliaHealthy

Arrive(p) ==
  /\ poll[p] \in {"healthy", "degraded"}
  /\ poll' = [poll EXCEPT ![p] = "none"]
  /\ LET healthy == poll[p] = "healthy" IN
       /\ prevJuliaHealthy' = healthy
       /\ SetJuliaHealth(healthy, "undefined")
       /\ recovered' = IF Returns(healthy) THEN ~recovered ELSE recovered
       /\ Rearm(healthy)
  /\ UNCHANGED <<serverVars, stops>>

ArriveFailed(p) ==
  /\ poll[p] = "failed"
  /\ poll' = [poll EXCEPT ![p] = "none"]
  /\ SetJuliaHealth(FALSE, restartCount)
  /\ UNCHANGED <<serverVars, stops, intervals, pollingId, isJuliaReady,
                 prevJuliaHealthy, recovered>>

-----------------------------------------------------------------------------
(* The runtime: its flag follows the requests it serves.                   *)
FlagChanges ==
  /\ flag' = ~flag
  /\ UNCHANGED <<reachable, outages, stops, poll, intervals, pollingId,
                 isJuliaReady, prevJuliaHealthy, storeVars, recovered>>

Outage ==
  /\ reachable /\ outages < MaxOutages
  /\ reachable' = FALSE /\ outages' = outages + 1
  /\ UNCHANGED <<flag, stops, poll, intervals, pollingId, isJuliaReady,
                 prevJuliaHealthy, storeVars, recovered>>

Reachable ==
  /\ ~reachable /\ reachable' = TRUE
  /\ UNCHANGED <<flag, outages, stops, poll, intervals, pollingId, isJuliaReady,
                 prevJuliaHealthy, storeVars, recovered>>

Next ==
  \/ Start \/ Stop \/ Fire
  \/ \E p \in Polls : Answer(p) \/ Arrive(p) \/ ArriveFailed(p)
  \/ FlagChanges \/ Outage \/ Reachable

Spec == Init /\ [][Next]_vars

(* The App is mounted, intervals fire, and every fetch ends: the event     *)
(* loop runs each callback that is due.                                    *)
Fairness ==
  /\ WF_vars(Start) /\ WF_vars(Fire)
  /\ \A p \in Polls : WF_vars(Answer(p)) /\ WF_vars(Arrive(p)) /\ WF_vars(ArriveFailed(p))
FairSpec == Spec /\ Fairness

-----------------------------------------------------------------------------
(* Properties.                                                             *)

TypeOK ==
  /\ flag \in BOOLEAN /\ reachable \in BOOLEAN
  /\ outages \in 0..MaxOutages /\ stops \in 0..MaxStops
  /\ poll \in [Polls -> {"none", "sent"} \cup Answers]
  /\ DOMAIN intervals \subseteq Timers
  /\ \A t \in DOMAIN intervals : intervals[t] \in {"startup", "normal"}
  /\ pollingId \in Timers \cup {None}
  /\ isJuliaReady \in BOOLEAN /\ prevJuliaHealthy \in BOOLEAN
  /\ juliaHealthy \in BOOLEAN /\ healthChecked \in BOOLEAN
  /\ restartCount \in {"zero", "undefined"} /\ recovered \in BOOLEAN

(* However late polls cross stops and starts, the one interval that fires  *)
(* is the one pollingId can clear: nothing polls beyond the app's reach.   *)
OneInterval == DOMAIN intervals = {pollingId} \ {None}

(* Polling is fast until Julia was first heard to be ready and slow from   *)
(* then on, though the store may show Julia gone again: the pace is that   *)
(* of the module's flag, which only stopping takes back.                   *)
IntervalFollowsReadiness ==
  pollingId # None =>
    intervals[pollingId] = IF isJuliaReady THEN "normal" ELSE "startup"

(* What the app shows settles on the truth once the runtime settles,       *)
(* whatever order the answers come in.                                     *)
SettlesOnTruth ==
  /\ <>[](reachable /\ flag)  => <>[]juliaHealthy
  /\ <>[](reachable /\ ~flag) => <>[]~juliaHealthy
  /\ <>[]~reachable           => <>[]~juliaHealthy

(* As long as the runtime was always reachable and the App mounted, the    *)
(* project is reloaded whenever the app goes from showing Julia as gone to *)
(* showing it as back, and at any time only on a step that turns the shown *)
(* state from not ready to ready.                                          *)
ComesBack == healthChecked /\ ~juliaHealthy /\ juliaHealthy'
RecoversOnReturn ==
  [][/\ ComesBack /\ outages = 0 /\ stops = 0 => recovered' # recovered
     /\ recovered' # recovered => ~juliaHealthy /\ juliaHealthy']_vars

=============================================================================
