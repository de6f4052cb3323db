------------------------------ MODULE Workspace ------------------------------
(***************************************************************************)
(* The desktop app's workspace: commandExecutor.ts, dataOperationExecutor  *)
(* and the dataset, project, model and app stores they write.              *)
(*                                                                         *)
(* A command is an async function: it reads the stores, awaits the         *)
(* runtime, and goes on with what it read before.  Nothing keeps a second  *)
(* command, or the recovery that health polling starts, from running       *)
(* between two of its steps.                                               *)
(*                                                                         *)
(* A dataset is its source and the runs that derived it; its file lies in  *)
(* the .metrica/derived directory of its parent's directory.  Left out:    *)
(* messages, row counts, isDirty (never read), the runs that inspections   *)
(* record, and commands that only read (describe, browse, compare, export, *)
(* diagnostics).                                                           *)
(***************************************************************************)
EXTENDS Naturals, FiniteSets, SequencesExt

CONSTANTS
  Sources,         (* data files the user may open                         *)
  Jobs,            (* commands that may be under way at once               *)
  Background,      (* the recovery's own place among the jobs              *)
  MaxCommands, MaxRecoveries,   (* bound the model                         *)
  MaxFailures,     (* requests that fail: bounds the model                 *)
  NoData, NoManifest, NoAnswer, Failed, Nobody, Default

ASSUME WorkspaceAssumption ==
  /\ MaxCommands \in Nat /\ MaxRecoveries \in Nat /\ MaxFailures \in Nat
  /\ Background \notin Jobs /\ NoAnswer # Failed
  /\ NoData \notin [source : Sources, ops : Seq(Nat)]

VARIABLES
  sourcePath, activePath, summary,           \* datasetStore; summary: of which dataset
  manifest, projectWorkingDir, runHistory,   \* projectStore
  modelHistory,                              \* modelStore: a run and the data it is shown for
  isLoading,                                 \* appStore
  job,                                       \* the async functions under way
  files, records, manifests,                 \* disk: datasets, run records, project.json
  commands, recoveries, failures,            \* so many so far
  crossed                                    \* two of them were under way at once

datasetStore == <<sourcePath, activePath, summary>>
projectStore == <<manifest, projectWorkingDir, runHistory>>
disk == <<files, records, manifests>>
vars == <<datasetStore, projectStore, modelHistory, isLoading, job, disk,
          commands, recoveries, failures, crossed>>

-----------------------------------------------------------------------------
Source(s) == [source |-> s, ops |-> << >>]

(* inferWorkingDir: the directory of the file, apps/metrica-desktop when   *)
(* there is none.  A derived file lies as deep as it has operations.       *)
InferWorkingDir(d) == IF d = NoData THEN Default ELSE <<d.source, Len(d.ops)>>
Homes == {InferWorkingDir(Source(s)) : s \in Sources}

(* What runs, rerun and export take for the project's directory.           *)
WorkingDir ==
  IF projectWorkingDir # Default THEN projectWorkingDir ELSE InferWorkingDir(activePath)

Idle == [cmd |-> "none", step |-> "done", path |-> NoData, dir |-> Default,
         draft |-> NoManifest, run |-> Nobody, answer |-> NoAnswer]
Quiet == \A j \in DOMAIN job : job[j] = Idle
NewRun(action, d, dir, status) ==
  [id |-> Cardinality(records), action |-> action, dataset |-> d, dir |-> dir,
   status |-> status]
Derived(d, run) == [d EXCEPT !.ops = Append(@, run.id)]

Init ==
  /\ sourcePath = NoData /\ activePath = NoData /\ summary = NoData
  /\ manifest = NoManifest /\ projectWorkingDir = Default /\ runHistory = {}
  /\ modelHistory = {} /\ isLoading = FALSE
  /\ job = [j \in Jobs \cup {Background} |-> Idle]
  /\ files = {Source(s) : s \in Sources} /\ records = {}
  /\ manifests = [d \in Homes |-> NoManifest]
  /\ commands = 0 /\ recoveries = 0 /\ failures = 0 /\ crossed = FALSE

-----------------------------------------------------------------------------
(* Commands, up to their first await.  The places of jobs are alike: a     *)
(* command takes one that is free.                                         *)
FreePlace == CHOOSE j \in Jobs : job[j] = Idle
Crosses == crossed' = (crossed \/ ~Quiet)
Begin(j, start) ==
  /\ job[j] = Idle /\ j = FreePlace /\ commands < MaxCommands
  /\ commands' = commands + 1 /\ Crosses
  /\ job' = [job EXCEPT ![j] = start]
  /\ isLoading' = TRUE
  /\ UNCHANGED <<datasetStore, projectStore, modelHistory, disk, recoveries, failures>>

Use(j) == \E s \in Sources :
  Begin(j, [Idle EXCEPT !.cmd = "use", !.step = "inspect", !.path = Source(s)])

Load(j) == \E d \in Homes :
  Begin(j, [Idle EXCEPT !.cmd = "load", !.step = "load", !.dir = d])

Transform(j) ==
  /\ activePath # NoData
  /\ Begin(j, [Idle EXCEPT !.cmd = "transform", !.step = "transform", !.path = activePath])

Fit(j) ==
  /\ activePath # NoData
  /\ Begin(j, [Idle EXCEPT !.cmd = "fit", !.step = "fit", !.path = activePath])

Runs(j) == Begin(j, [Idle EXCEPT !.cmd = "runs", !.step = "list", !.dir = WorkingDir])

Rerun(j) == \E r \in runHistory :
  Begin(j, [Idle EXCEPT !.cmd = "rerun", !.step = "rerun", !.dir = WorkingDir, !.run = r])

(* The manifest is put together before the request is sent.                *)
NoLineage == [source |-> sourcePath, active |-> activePath, ops |-> << >>]
BaseLineage == IF manifest = NoManifest THEN NoLineage ELSE manifest.lineage
Draft == [source |-> sourcePath, active |-> activePath, lineage |-> BaseLineage]

Save(j) == \E d \in Homes :
  /\ activePath # NoData
  /\ Begin(j, [Idle EXCEPT !.cmd = "save", !.step = "save", !.dir = d, !.draft = Draft])

(* Health polling reloads the project when Julia is back; recoveries come  *)
(* 60 seconds apart, and one at a time here.                               *)
Recover ==
  /\ projectWorkingDir # Default
  /\ job[Background] = Idle /\ recoveries < MaxRecoveries
  /\ recoveries' = recoveries + 1 /\ Crosses
  /\ job' = [job EXCEPT ![Background] =
               [Idle EXCEPT !.cmd = "recover", !.step = "load", !.dir = projectWorkingDir]]
  /\ UNCHANGED <<datasetStore, projectStore, modelHistory, isLoading, disk, commands, failures>>

(* use clear, project close and project new: no await.                     *)
Clear ==
  /\ \E j \in Jobs : job[j] = Idle
  /\ commands < MaxCommands /\ commands' = commands + 1 /\ Crosses
  /\ \/ /\ sourcePath' = NoData /\ activePath' = NoData /\ summary' = NoData
        /\ UNCHANGED projectStore
     \/ /\ manifest' = NoManifest /\ projectWorkingDir' = Default /\ runHistory' = {}
        /\ \/ sourcePath' = NoData /\ activePath' = NoData /\ summary' = NoData
           \/ UNCHANGED datasetStore
  /\ UNCHANGED <<modelHistory, isLoading, job, disk, recoveries, failures>>

-----------------------------------------------------------------------------
(* The runtime serves the request of a job.                                *)
Asks(j, step) == job[j].step = step /\ job[j].answer = NoAnswer
Answer(j, a) == job' = [job EXCEPT ![j].answer = a]
Goes(j, a) == Answer(j, a) /\ UNCHANGED failures
Fails(j, a) == Answer(j, a) /\ failures < MaxFailures /\ failures' = failures + 1
NotServed == UNCHANGED <<datasetStore, projectStore, modelHistory, isLoading,
                         commands, recoveries, crossed>>

ServeRead(j) ==
  /\ \/ Asks(j, "inspect") /\ Goes(j, job[j].path)
     \/ Asks(j, "describe") /\ Goes(j, job[j].path)
     \/ Asks(j, "list") /\ Goes(j, {r \in records : r.dir = job[j].dir})
     \/ /\ Asks(j, "load")
        /\ Goes(j, IF manifests[job[j].dir] = NoManifest THEN Failed
                   ELSE manifests[job[j].dir])
  /\ UNCHANGED disk /\ NotServed

(* What was done is done, though its answer may get lost.  save_project    *)
(* refuses a manifest without a source dataset.                            *)
ServeSave(j) ==
  /\ Asks(j, "save")
  /\ IF job[j].draft.source = NoData
     THEN Goes(j, Failed) /\ UNCHANGED manifests
     ELSE /\ Goes(j, job[j].draft) \/ Fails(j, Failed)
          /\ manifests' = [manifests EXCEPT ![job[j].dir] = job[j].draft]
  /\ UNCHANGED <<files, records>> /\ NotServed

(* A run is recorded below the directory of the data it ran on, whether    *)
(* Julia succeeded or not.                                                 *)
Recorded(j, run) ==
  /\ records' = records \cup {run}
  /\ \/ run.status = "success" /\ Goes(j, run)
     \/ run.status = "error" /\ Fails(j, run)
     \/ Fails(j, Failed)
Outcomes == {"success", "error"}
ServeRun(j) ==
  /\ job[j].step \in {"transform", "fit"} /\ job[j].answer = NoAnswer
  /\ \E status \in Outcomes :
       LET run == NewRun(job[j].step, job[j].path, InferWorkingDir(job[j].path), status) IN
         /\ Recorded(j, run)
         /\ files' = IF run.action = "fit" \/ status = "error" THEN files
                     ELSE files \cup {Derived(run.dataset, run)}
  /\ UNCHANGED manifests /\ NotServed

(* rerun_task looks for the record below the directory it is given.  The   *)
(* table of a rerun transform is never opened and is left out.             *)
ServeRerun(j) ==
  /\ Asks(j, "rerun")
  /\ LET old == job[j].run IN
       IF old \in records /\ old.dir = job[j].dir
       THEN \E status \in Outcomes :
              Recorded(j, NewRun(old.action, old.dataset, job[j].dir, status))
       ELSE Goes(j, Failed) /\ UNCHANGED records
  /\ UNCHANGED <<files, manifests>> /\ NotServed

(* No answer, or an error that leaves nothing behind.                      *)
ServeFails(j) ==
  /\ job[j] # Idle /\ job[j].answer = NoAnswer
  /\ Fails(j, Failed)
  /\ UNCHANGED disk /\ NotServed

-----------------------------------------------------------------------------
(* The rest of a command, when its answer is there.                        *)
Got(j, cmd, step) ==
  job[j].cmd = cmd /\ job[j].step = step /\ job[j].answer \notin {NoAnswer, Failed}
GotRun(j, cmd, status) == Got(j, cmd, cmd) /\ job[j].answer.status = status
LeftLoading(j) == job' = [job EXCEPT ![j] = Idle] /\ UNCHANGED isLoading   \* mutant
Finish(j) ==
  /\ job' = [job EXCEPT ![j] = Idle]
  /\ isLoading' = (isLoading /\ j = Background)
Await(j, next) == job' = [job EXCEPT ![j] = next] /\ UNCHANGED isLoading
InBrowser == UNCHANGED <<disk, commands, recoveries, failures, crossed>>

UseInspected(j) ==
  /\ Got(j, "use", "inspect")
  /\ sourcePath' = job[j].path /\ activePath' = job[j].path /\ summary' = job[j].answer
  /\ Await(j, [job[j] EXCEPT !.step = "describe", !.answer = NoAnswer])
  /\ UNCHANGED <<projectStore, modelHistory>> /\ InBrowser

(* loadProjectIntoStores, for load, project open and the recovery.         *)
Loading(j, step) == \E cmd \in {"load", "recover"} : Got(j, cmd, step)
Loaded(j) ==
  /\ Loading(j, "load")
  /\ projectWorkingDir' = job[j].dir /\ manifest' = job[j].answer
  /\ Await(j, [job[j] EXCEPT !.step = "list", !.draft = job[j].answer, !.answer = NoAnswer])
  /\ UNCHANGED <<datasetStore, runHistory, modelHistory>> /\ InBrowser

Listed(j) ==
  /\ Loading(j, "list")
  /\ runHistory' = job[j].answer
  /\ sourcePath' = job[j].draft.source /\ activePath' = job[j].draft.active
  /\ Await(j, [job[j] EXCEPT !.step = "inspect", !.path = job[j].draft.active,
                             !.answer = NoAnswer])
  /\ UNCHANGED <<summary, manifest, projectWorkingDir, modelHistory>> /\ InBrowser

ShowsOld(j) == UNCHANGED summary   \* mutant: a failed inspection leaves the summary alone
LoadedSummary(j) == summary' = IF job[j].answer = Failed THEN NoData ELSE job[j].answer
LoadInspected(j) ==
  /\ job[j].cmd \in {"load", "recover"} /\ job[j].step = "inspect" /\ job[j].answer # NoAnswer
  /\ LoadedSummary(j)
  /\ Finish(j)
  /\ UNCHANGED <<sourcePath, activePath, projectStore, modelHistory>> /\ InBrowser

Saved(j) ==
  /\ Got(j, "save", "save")
  /\ projectWorkingDir' = job[j].dir /\ manifest' = job[j].answer
  /\ Finish(j)
  /\ UNCHANGED <<datasetStore, runHistory, modelHistory>> /\ InBrowser

(* executeDataOperations: without a manifest there is no lineage to extend.*)
AppendLineage(ops) ==
  manifest' = IF manifest = NoManifest THEN manifest
              ELSE [manifest EXCEPT !.lineage.ops = @ \o ops]
NextRunsPath(j) == [job[j].path EXCEPT !.ops = Append(@, job[j].answer.id + 1)]   \* mutant
DerivedPath(j) == Derived(job[j].path, job[j].answer)
Transformed(j) ==
  /\ GotRun(j, "transform", "success")
  /\ runHistory' = runHistory \cup {job[j].answer}
  /\ AppendLineage(<<job[j].answer.id>>)
  /\ activePath' = DerivedPath(j)
  /\ Await(j, [job[j] EXCEPT !.step = "inspect", !.path = activePath', !.answer = NoAnswer])
  /\ UNCHANGED <<sourcePath, summary, projectWorkingDir, modelHistory>> /\ InBrowser

(* A step of the chain failed: the record goes to the run history.  After  *)
(* an exception the answer has no payload, and Ends takes it.              *)
TransformRefused(j) ==
  /\ GotRun(j, "transform", "error")
  /\ runHistory' = runHistory \cup {job[j].answer}
  /\ Finish(j)
  /\ UNCHANGED <<datasetStore, manifest, projectWorkingDir, modelHistory>> /\ InBrowser

TransformInspected(j) ==
  /\ Got(j, "transform", "inspect")
  /\ summary' = job[j].answer
  /\ Finish(j)
  /\ UNCHANGED <<sourcePath, activePath, projectStore, modelHistory>> /\ InBrowser

(* The model's entry is labelled with the path read before the request.    *)
LabelActive(j) == activePath   \* mutant: the path is read after the await
Label(j) == job[j].path
Fitted(j) ==
  /\ GotRun(j, "fit", "success")
  /\ modelHistory' = modelHistory \cup {[run |-> job[j].answer, data |-> Label(j)]}
  /\ Finish(j)
  /\ UNCHANGED <<datasetStore, projectStore>> /\ InBrowser

RunsListed(j) ==
  /\ Got(j, "runs", "list")
  /\ runHistory' = job[j].answer
  /\ Finish(j)
  /\ UNCHANGED <<datasetStore, manifest, projectWorkingDir, modelHistory>> /\ InBrowser

(* Only a rerun fit is shown and remembered.                               *)
Reran(j) ==
  /\ GotRun(j, "rerun", "success")
  /\ LET run == job[j].answer IN
       IF run.action = "fit"
       THEN /\ runHistory' = runHistory \cup {run}
            /\ modelHistory' = modelHistory \cup {[run |-> run, data |-> run.dataset]}
       ELSE UNCHANGED <<runHistory, modelHistory>>
  /\ Finish(j)
  /\ UNCHANGED <<datasetStore, manifest, projectWorkingDir>> /\ InBrowser

(* describe after use, whatever it answers, a run that failed, and every   *)
(* catch block.                                                            *)
Ends(j) ==
  /\ \/ job[j].answer = Failed /\ ~(job[j].cmd \in {"load", "recover"} /\ job[j].step = "inspect")
     \/ Got(j, "use", "describe")
     \/ \E cmd \in {"transform", "fit", "rerun"} : GotRun(j, cmd, "error")
  /\ Finish(j)
  /\ UNCHANGED <<datasetStore, projectStore, modelHistory>> /\ InBrowser

-----------------------------------------------------------------------------
Command(j) ==
  \/ Use(j) \/ Load(j) \/ Transform(j) \/ Fit(j) \/ Runs(j) \/ Rerun(j) \/ Save(j)
Serve(j) == ServeRead(j) \/ ServeSave(j) \/ ServeRun(j) \/ ServeRerun(j) \/ ServeFails(j)
Continue(j) ==
  \/ UseInspected(j) \/ Loaded(j) \/ Listed(j) \/ LoadInspected(j) \/ Saved(j)
  \/ Transformed(j) \/ TransformRefused(j) \/ TransformInspected(j) \/ Fitted(j) \/ RunsListed(j)
  \/ Reran(j) \/ Ends(j)

Next ==
  \/ \E j \in Jobs : Command(j)
  \/ Clear \/ Recover
  \/ \E j \in Jobs \cup {Background} : Serve(j) \/ Continue(j)

Spec == Init /\ [][Next]_vars

(* The runtime answers every request (RequestService) and the event loop   *)
(* runs every continuation.  Commands are the user's own choice.           *)
FairSpec ==
  Spec /\ \A j \in Jobs \cup {Background} : WF_vars(Serve(j) \/ Continue(j))

-----------------------------------------------------------------------------
(* Properties.                                                             *)
Datasets == [source : Sources, ops : Seq(Nat)]
Dirs == (Sources \X Nat) \cup {Default}
Lineages == [source : Datasets \cup {NoData}, active : Datasets \cup {NoData}, ops : Seq(Nat)]
Manifests == [source : Datasets \cup {NoData}, active : Datasets, lineage : Lineages]
AllRuns == [id : Nat, action : {"transform", "fit"}, dataset : Datasets, dir : Dirs,
            status : {"success", "error"}]

TypeOK ==
  /\ {sourcePath, activePath, summary} \subseteq Datasets \cup {NoData}
  /\ manifest \in Manifests \cup {NoManifest}
  /\ projectWorkingDir \in Dirs
  /\ runHistory \subseteq records /\ records \subseteq AllRuns
  /\ modelHistory \subseteq [run : records, data : Datasets]
  /\ isLoading \in BOOLEAN
  /\ files \subseteq Datasets
  /\ \A d \in Homes : manifests[d] \in Manifests \cup {NoManifest}
  /\ commands \in 0..MaxCommands /\ recoveries \in 0..MaxRecoveries
  /\ failures \in 0..MaxFailures

(* However commands and recoveries cross, the active dataset is a file     *)
(* that exists, and so is the one any saved project opens with.            *)
ActiveIsReal ==
  /\ activePath # NoData => activePath \in files
  /\ \A d \in Homes : manifests[d] # NoManifest => manifests[d].active \in files

(* A model is shown with the data it was fitted on, whatever was opened    *)
(* while it was fitted, and only when it was fitted.                       *)
ModelsNameTheirData ==
  \A m \in modelHistory : m.data = m.run.dataset /\ m.run.status = "success"

(* One command at a time: the summary shown is that of the active dataset  *)
(* or, after a failed inspection, of the data it was derived from; never   *)
(* of other data.                                                          *)
SummaryTellsTheData ==
  Quiet /\ ~crossed /\ summary # NoData =>
    /\ activePath # NoData
    /\ summary.source = activePath.source
    /\ IsPrefix(summary.ops, activePath.ops)

(* Where the operations of the lineage may get lost.  A save writes all    *)
(* that are shown.                                                         *)
SavesAll ==
  \A d \in Homes : manifests'[d] # manifests[d] /\ manifest # NoManifest =>
                     IsPrefix(manifest.lineage.ops, manifests'[d].lineage.ops)
(* What is shown of the open project begins with what is saved of it.      *)
SavedIsShown ==
  manifest # NoManifest =>
    IsPrefix(manifests[projectWorkingDir].lineage.ops, manifest.lineage.ops)
(* Only a load takes operations out, a recovery's among them: by the two   *)
(* above these are the ones no save has written.                           *)
OnlyLoadsDrop ==
  manifest # NoManifest /\ manifest' # NoManifest /\ (\A j \in DOMAIN job : ~Loaded(j)) =>
    IsPrefix(manifest.lineage.ops, manifest'.lineage.ops)

(* As long as commands and recoveries run one at a time, no operation is   *)
(* lost but those a load finds unsaved.                                    *)
LineageGrows == [][crossed \/ (SavesAll /\ SavedIsShown /\ OnlyLoadsDrop)]_vars

(* Every command comes to its end: loading never stays on.                 *)
LoadingEnds == []<>(~isLoading)

(* commandExecutor.test.ts 212: a save loses no operation of the lineage.  *)
SavesKeepLineage ==
  [][\A j \in DOMAIN job : Saved(j) /\ manifest # NoManifest =>
        IsPrefix(manifest.lineage.ops, manifest'.lineage.ops)]_vars

===============================================================================
