---------------------------- MODULE ResultViews ----------------------------
(***************************************************************************)
(* The result flow: which commands add the messages of MessageStore, and   *)
(* the registry of charts (services/chartExport.ts) that the plots of the  *)
(* shown event studies fill and empty, and export plot reads.  While data  *)
(* is browsed the flow is not rendered, and its charts are gone.           *)
(*                                                                         *)
(* The runs counted are event studies; a run is its number, which is its   *)
(* run_id.  Of what a message shows only the run whose chart it draws is   *)
(* kept.  The toolbar and the messages to click on go with the flow; here  *)
(* they stay within reach while data is browsed, which is more than the    *)
(* user can do.                                                            *)
(***************************************************************************)
EXTENDS MessageStore

CONSTANT Earlier   (* event studies recorded in earlier sessions          *)
ASSUME ResultViewsAssumption == Earlier \in Nat

VARIABLES
  draws,     \* per message: the run whose chart it draws, or NoChart
  runs,      \* event studies run so far; each has a number of its own
  browsing,  \* dataFullscreen
  mounted,   \* the messages of the last rendering
  charts     \* chartByRunId: the runs with a registered chart

vars == <<storeVars, draws, runs, browsing, mounted, charts>>
view == <<browsing, mounted, charts>>

NoChart == 0
Runs == 1..(Earlier + MaxMessages)

Init ==
  /\ InitStore
  /\ draws = << >> /\ runs = Earlier
  /\ browsing = FALSE /\ mounted = {} /\ charts = {}

-----------------------------------------------------------------------------
(* handleModel: an event study is answered, its run recorded.              *)
Fitted ==
  /\ AddMessage(FALSE)
  /\ runs' = runs + 1 /\ draws' = Append(draws, runs + 1)
  /\ UNCHANGED view

(* handleRerun: the message names the run that was made, not the one asked *)
(* for.                                                                    *)
RunAskedFor(old, new) == old   \* mutant
RunOfMessage(old, new) == new
Reran == \E old \in 1..runs :
  /\ AddMessage(FALSE)
  /\ runs' = runs + 1 /\ draws' = Append(draws, RunOfMessage(old, runs + 1))
  /\ UNCHANGED view

(* A message that draws no chart.                                          *)
Note(c) == AddMessage(c) /\ draws' = Append(draws, NoChart) /\ UNCHANGED runs

(* handleCompare.                                                          *)
Compared == Note(TRUE) /\ UNCHANGED view

(* handleExport, format plot.  findRunById looks in runHistory, where a    *)
(* rerun is put at once and a run that was fitted when the runs are listed *)
(* next, by the runs command or by opening the project: which needs no     *)
(* message, so any run that is recorded may be there.  Then the path is    *)
(* asked for; when it is answered the chart must be registered, and the    *)
(* message of the run may be in the trash.                                 *)
Found(run) == run \in 1..runs
Registered(run) == run \in charts
ExportedPlot == \E run \in Runs :
  /\ Found(run) /\ Registered(run)
  /\ Note(FALSE) /\ UNCHANGED view

(* Other models, data views, transforms, diagnostics, runs, exports of     *)
(* texts and the notes of the recovery.                                    *)
OtherAnswer == Note(FALSE) /\ UNCHANGED view

Arranged == Arrange /\ UNCHANGED <<draws, runs, view>>

(* handleDataView: browse is answered.                                     *)
Browse ==
  /\ ~browsing /\ browsing' = TRUE
  /\ UNCHANGED <<storeVars, draws, runs, mounted, charts>>

(* The button of the table, project close, use clear, a project that has   *)
(* been loaded; and use, which adds its message in the same breath.        *)
LeaveBrowsing ==
  /\ browsing /\ browsing' = FALSE
  /\ Note(FALSE) \/ UNCHANGED <<storeVars, draws, runs>>
  /\ UNCHANGED <<mounted, charts>>

(* React renders what is in the stores by now, the flow or the data: of    *)
(* the plots that went the effects are undone, then those of the plots     *)
(* that came are run.                                                      *)
Shown == IF browsing THEN {} ELSE ToSet(messages)
Drawn(ms) == {draws[m] : m \in ms} \ {NoChart}
Registry(left, come) == (charts \ Drawn(left)) \cup Drawn(come)
Render ==
  /\ mounted # Shown /\ mounted' = Shown
  /\ charts' = Registry(mounted \ mounted', mounted' \ mounted)
  /\ UNCHANGED <<storeVars, draws, runs, browsing>>

Next ==
  \/ Fitted \/ Reran \/ Compared \/ ExportedPlot \/ OtherAnswer
  \/ Arranged \/ Browse \/ LeaveBrowsing \/ Render

Spec == Init /\ [][Next]_vars

-----------------------------------------------------------------------------
(* Properties.                                                             *)
TypeOK ==
  /\ StoreTypeOK
  /\ draws \in [Ids -> Runs \cup {NoChart}] /\ runs \in Runs \cup {Earlier}
  /\ browsing \in BOOLEAN
  /\ mounted \subseteq Ids /\ charts \subseteq Runs

(* A chart is registered under its run, and whoever goes takes down what   *)
(* is registered there, be it his or not.  Still, once rendered, charts    *)
(* are registered exactly for the event studies in the flow, however often *)
(* they were run again, deleted, restored or cleared and the flow itself   *)
(* taken away and brought back, and none while data is browsed: then       *)
(* export plot finds nothing.                                              *)
ChartsAreShown ==
  mounted = Shown => charts = IF browsing THEN {} ELSE Drawn(ToSet(messages))

=============================================================================
