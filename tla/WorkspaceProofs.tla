--------------------------- MODULE WorkspaceProofs ---------------------------
(***************************************************************************)
(* The workspace for any number of commands under way at once: the active  *)
(* dataset is a file, models are shown with the data they were fitted on,  *)
(* and loading has an end in sight.  And for any number of commands one    *)
(* after the other: the lineage only grows, and the summary tells the      *)
(* active dataset.                                                         *)
(***************************************************************************)
EXTENDS Workspace, SequenceTheorems, FiniteSetTheorems, TLAPS

Everyone == Jobs \cup {Background}
Fields == {"cmd", "step", "path", "dir", "draft", "run", "answer"}

(* What a job takes with it over an await is sound while the files are fs: *)
(* projects lie beside sources, the file it opens and the active file of   *)
(* the manifest it writes or has read are there, and an answer belongs to  *)
(* what was asked.                                                         *)
CarriesFiles(r, fs) ==
  /\ r.step \in {"load", "save"} => r.dir \in Homes
  /\ r.cmd = "use" /\ r.step = "inspect" => r.path \in fs
  /\ r.step = "save" => r.draft.active \in fs
  /\ r.cmd \in {"load", "recover"} /\ r.step = "list" => r.draft.active \in fs
AnswerFits(r, fs) ==
  r.answer \notin {NoAnswer, Failed} =>
    /\ r.step \in {"fit", "transform"} => r.answer.dataset = r.path
    /\ r.step = "transform" /\ r.answer.status = "success" => Derived(r.path, r.answer) \in fs
    /\ r.step = "load" => r.answer.active \in fs
Sound(r, fs) == DOMAIN r = Fields /\ CarriesFiles(r, fs) /\ AnswerFits(r, fs)

JobsSound == DOMAIN job = Everyone /\ \A j \in Everyone : Sound(job[j], files)

(* Where projects lie, and the files the user may open.                    *)
Places ==
  /\ DOMAIN manifests = Homes
  /\ projectWorkingDir \in Homes \cup {Default}
  /\ \A s \in Sources : Source(s) \in files

WorkspaceInv == JobsSound /\ Places /\ ActiveIsReal /\ ModelsNameTheirData

-----------------------------------------------------------------------------
LEMMA JobStep ==
  ASSUME JobsSound, NEW j \in Everyone, NEW r, job' = [job EXCEPT ![j] = r],
         files \subseteq files', Sound(r, files')
  PROVE  JobsSound'
  <1>1. ASSUME NEW i \in Everyone PROVE Sound(job'[i], files')
    <2>1. CASE i = j
      BY <2>1 DEF JobsSound
    <2>2. CASE i # j
      BY <2>2 DEF JobsSound, Sound, CarriesFiles, AnswerFits
    <2>3. QED
      BY <2>1, <2>2
  <1>2. QED
    BY <1>1 DEF JobsSound

LEMMA IdleSound == Sound(Idle, files')
  BY DEF Idle, Sound, CarriesFiles, AnswerFits, Fields

(* A step that leaves files and manifests alone and activates nothing.     *)
LEMMA QuietStep ==
  ASSUME WorkspaceInv, JobsSound',
         UNCHANGED <<activePath, disk, modelHistory>>,
         projectWorkingDir' \in Homes \cup {Default}
  PROVE  WorkspaceInv'
  BY DEF WorkspaceInv, Places, ActiveIsReal, ModelsNameTheirData, disk

-----------------------------------------------------------------------------
(* Commands.                                                               *)

LEMMA BeginStep ==
  ASSUME WorkspaceInv, NEW j \in Everyone, NEW r, Begin(j, r), Sound(r, files)
  PROVE  WorkspaceInv'
  <1>1. files' = files /\ job' = [job EXCEPT ![j] = r] /\ projectWorkingDir' = projectWorkingDir
    BY DEF Begin, disk, projectStore
  <1>2. JobsSound'
    BY <1>1, JobStep DEF WorkspaceInv
  <1>3. QED
    BY <1>1, <1>2, QuietStep DEF Begin, WorkspaceInv, Places, datasetStore

LEMMA CommandStep ==
  ASSUME WorkspaceInv, NEW j \in Everyone, Command(j)
  PROVE  WorkspaceInv'
  <1>1. CASE Use(j)
    <2>1. PICK s \in Sources :
            Begin(j, [Idle EXCEPT !.cmd = "use", !.step = "inspect", !.path = Source(s)])
      BY <1>1 DEF Use
    <2>2. Sound([Idle EXCEPT !.cmd = "use", !.step = "inspect", !.path = Source(s)], files)
      BY DEF Idle, Sound, CarriesFiles, AnswerFits, Fields, WorkspaceInv, Places
    <2>3. QED
      BY <2>1, <2>2, BeginStep
  <1>2. CASE Load(j)
    <2>1. PICK d \in Homes :
            Begin(j, [Idle EXCEPT !.cmd = "load", !.step = "load", !.dir = d])
      BY <1>2 DEF Load
    <2>2. Sound([Idle EXCEPT !.cmd = "load", !.step = "load", !.dir = d], files)
      BY DEF Idle, Sound, CarriesFiles, AnswerFits, Fields
    <2>3. QED
      BY <2>1, <2>2, BeginStep
  <1>3. CASE Transform(j)
    <2>1. Begin(j, [Idle EXCEPT !.cmd = "transform", !.step = "transform", !.path = activePath])
      BY <1>3 DEF Transform
    <2>2. Sound([Idle EXCEPT !.cmd = "transform", !.step = "transform", !.path = activePath], files)
      BY DEF Idle, Sound, CarriesFiles, AnswerFits, Fields
    <2>3. QED
      BY <2>1, <2>2, BeginStep
  <1>4. CASE Fit(j)
    <2>1. Begin(j, [Idle EXCEPT !.cmd = "fit", !.step = "fit", !.path = activePath])
      BY <1>4 DEF Fit
    <2>2. Sound([Idle EXCEPT !.cmd = "fit", !.step = "fit", !.path = activePath], files)
      BY DEF Idle, Sound, CarriesFiles, AnswerFits, Fields
    <2>3. QED
      BY <2>1, <2>2, BeginStep
  <1>5. CASE Runs(j)
    <2>1. Begin(j, [Idle EXCEPT !.cmd = "runs", !.step = "list", !.dir = WorkingDir])
      BY <1>5 DEF Runs
    <2>2. Sound([Idle EXCEPT !.cmd = "runs", !.step = "list", !.dir = WorkingDir], files)
      BY DEF Idle, Sound, CarriesFiles, AnswerFits, Fields
    <2>3. QED
      BY <2>1, <2>2, BeginStep
  <1>6. CASE Rerun(j)
    <2>1. PICK r \in runHistory :
            Begin(j, [Idle EXCEPT !.cmd = "rerun", !.step = "rerun", !.dir = WorkingDir, !.run = r])
      BY <1>6 DEF Rerun
    <2>2. Sound([Idle EXCEPT !.cmd = "rerun", !.step = "rerun", !.dir = WorkingDir, !.run = r], files)
      BY DEF Idle, Sound, CarriesFiles, AnswerFits, Fields
    <2>3. QED
      BY <2>1, <2>2, BeginStep
  <1>7. CASE Save(j)
    <2>1. PICK d \in Homes :
            /\ activePath # NoData
            /\ Begin(j, [Idle EXCEPT !.cmd = "save", !.step = "save", !.dir = d, !.draft = Draft])
      BY <1>7 DEF Save
    <2>2. Draft.active \in files
      BY <2>1 DEF Draft, WorkspaceInv, ActiveIsReal
    <2>3. Sound([Idle EXCEPT !.cmd = "save", !.step = "save", !.dir = d, !.draft = Draft], files)
      BY <2>2 DEF Idle, Sound, CarriesFiles, AnswerFits, Fields
    <2>4. QED
      BY <2>1, <2>3, BeginStep
  <1>8. QED
    BY <1>1, <1>2, <1>3, <1>4, <1>5, <1>6, <1>7 DEF Command

LEMMA RecoverStep ==
  ASSUME WorkspaceInv, Recover
  PROVE  WorkspaceInv'
  <1> DEFINE r == [Idle EXCEPT !.cmd = "recover", !.step = "load", !.dir = projectWorkingDir]
  <1>1. /\ files' = files /\ job' = [job EXCEPT ![Background] = r]
        /\ projectWorkingDir' = projectWorkingDir /\ projectWorkingDir \in Homes
    BY DEF Recover, disk, projectStore, WorkspaceInv, Places
  <1>2. Sound(r, files')
    BY <1>1 DEF Idle, Sound, CarriesFiles, AnswerFits, Fields
  <1> HIDE DEF r
  <1>3. Background \in Everyone
    BY DEF Everyone
  <1>4. JobsSound'
    BY <1>1, <1>2, <1>3, JobStep DEF WorkspaceInv
  <1>5. QED
    BY <1>1, <1>4, QuietStep DEF Recover, datasetStore

LEMMA ClearStep ==
  ASSUME WorkspaceInv, Clear
  PROVE  WorkspaceInv'
  <1>1. /\ UNCHANGED <<job, files, manifests, modelHistory>> /\ activePath' \in {activePath, NoData}
        /\ projectWorkingDir' \in {projectWorkingDir, Default}
    BY DEF Clear, disk, projectStore, datasetStore
  <1>2. QED
    BY <1>1 DEF WorkspaceInv, JobsSound, Sound, CarriesFiles, AnswerFits, Places,
                ActiveIsReal, ModelsNameTheirData

-----------------------------------------------------------------------------
(* The runtime.                                                            *)

(* Files only come; what was sound stays sound with an answer that fits.   *)
LEMMA AnswerStep ==
  ASSUME WorkspaceInv, NEW j \in Everyone, NEW a, Answer(j, a), files \subseteq files',
         AnswerFits([job[j] EXCEPT !.answer = a], files')
  PROVE  JobsSound'
  <1> DEFINE r == [job[j] EXCEPT !.answer = a]
  <1>1. job' = [job EXCEPT ![j] = r]
    BY DEF Answer
  <1>2. Sound(job[j], files)
    BY DEF WorkspaceInv, JobsSound
  <1>3. DOMAIN r = Fields /\ CarriesFiles(r, files')
    BY <1>2 DEF Sound, CarriesFiles, Fields
  <1>4. Sound(r, files')
    BY <1>3 DEF Sound
  <1> HIDE DEF r
  <1>5. QED
    BY <1>1, <1>4, JobStep DEF WorkspaceInv

LEMMA ServeStep ==
  ASSUME WorkspaceInv, NEW j \in Everyone, Serve(j)
  PROVE  WorkspaceInv'
  <1>0. /\ Sound(job[j], files) /\ DOMAIN job[j] = Fields
        /\ UNCHANGED <<activePath, modelHistory, projectWorkingDir>>
    BY DEF Serve, ServeRead, ServeSave, ServeRun, ServeRerun, ServeFails, NotServed,
           datasetStore, projectStore, WorkspaceInv, JobsSound, Sound
  <1>1. ASSUME NEW a, Answer(j, a),
               a = Failed \/ job[j].step \notin {"fit", "transform", "load"},
               files' = files
        PROVE  JobsSound'
    <2>1. AnswerFits([job[j] EXCEPT !.answer = a], files')
      BY <1>0, <1>1 DEF AnswerFits, Fields
    <2>2. QED
      BY <1>1, <2>1, AnswerStep
  <1>2. CASE ServeRead(j)
    <2>1. UNCHANGED <<files, manifests>> /\ UNCHANGED disk
      BY <1>2 DEF ServeRead, disk
    <2>2. ASSUME Asks(j, "load"),
                 Answer(j, IF manifests[job[j].dir] = NoManifest THEN Failed
                           ELSE manifests[job[j].dir])
          PROVE  JobsSound'
      <3> DEFINE a == IF manifests[job[j].dir] = NoManifest THEN Failed ELSE manifests[job[j].dir]
      <3>1. job[j].dir \in Homes
        BY <1>0, <2>2 DEF Sound, CarriesFiles, Asks
      <3>2. a # Failed => a.active \in files
        BY <3>1 DEF WorkspaceInv, ActiveIsReal
      <3> HIDE DEF a
      <3>3. AnswerFits([job[j] EXCEPT !.answer = a], files')
        BY <1>0, <2>1, <2>2, <3>2 DEF AnswerFits, Asks, Fields
      <3>4. QED
        BY <2>1, <2>2, <3>3, AnswerStep DEF a
    <2>3. JobsSound'
      BY <1>1, <1>2, <2>1, <2>2 DEF ServeRead, Asks, Goes
    <2>4. QED
      BY <1>0, <2>1, <2>3, QuietStep DEF WorkspaceInv, Places
  <1>3. CASE ServeSave(j)
    <2>1. files' = files /\ job[j].step = "save"
      BY <1>3 DEF ServeSave, Asks
    <2>2. JobsSound'
      BY <1>1, <1>3, <2>1 DEF ServeSave, Goes, Fails
    <2>3. \/ manifests' = manifests
          \/ manifests' = [manifests EXCEPT ![job[j].dir] = job[j].draft]
      BY <1>3 DEF ServeSave
    <2>4. job[j].draft.active \in files
      BY <1>0, <2>1 DEF Sound, CarriesFiles
    <2>5. DOMAIN manifests' = Homes
      BY <2>3 DEF WorkspaceInv, Places
    <2>6. ActiveIsReal'
      BY <1>0, <2>1, <2>3, <2>4 DEF WorkspaceInv, Places, ActiveIsReal
    <2>7. QED
      BY <1>0, <2>1, <2>2, <2>5, <2>6 DEF WorkspaceInv, Places, ModelsNameTheirData
  <1>4. CASE ServeRun(j)
    <2>1. PICK status \in Outcomes :
            LET run == NewRun(job[j].step, job[j].path, InferWorkingDir(job[j].path), status) IN
              /\ Recorded(j, run)
              /\ files' = IF run.action = "fit" \/ status = "error" THEN files
                          ELSE files \cup {Derived(run.dataset, run)}
      BY <1>4 DEF ServeRun
    <2> DEFINE a == NewRun(job[j].step, job[j].path, InferWorkingDir(job[j].path), status)
    <2>2. a.action = job[j].step /\ a.dataset = job[j].path /\ a.status = status
      BY DEF NewRun
    <2>3. /\ Answer(j, a) \/ Answer(j, Failed)
          /\ manifests' = manifests /\ job[j].step \in {"transform", "fit"}
          /\ files \subseteq files'
          /\ a.action # "fit" /\ a.status # "error" => Derived(a.dataset, a) \in files'
      BY <1>4, <2>1, <2>2 DEF ServeRun, Recorded, Goes, Fails
    <2> HIDE DEF a
    <2>4. AnswerFits([job[j] EXCEPT !.answer = a], files')
      BY <1>0, <2>2, <2>3 DEF AnswerFits, Fields
    <2>5. AnswerFits([job[j] EXCEPT !.answer = Failed], files')
      BY <1>0 DEF AnswerFits, Fields
    <2>6. JobsSound'
      BY <2>3, <2>4, <2>5, AnswerStep
    <2>7. QED
      BY <1>0, <2>3, <2>6 DEF WorkspaceInv, Places, ActiveIsReal, ModelsNameTheirData
  <1>5. CASE ServeRerun(j)
    <2>1. files' = files /\ manifests' = manifests /\ job[j].step = "rerun"
      BY <1>5 DEF ServeRerun, Asks
    <2>2. JobsSound'
      BY <1>1, <1>5, <2>1 DEF ServeRerun, Recorded, Goes, Fails
    <2>3. QED
      BY <1>0, <2>1, <2>2 DEF WorkspaceInv, Places, ActiveIsReal, ModelsNameTheirData
  <1>6. CASE ServeFails(j)
    <2>1. files' = files /\ manifests' = manifests /\ Answer(j, Failed)
      BY <1>6 DEF ServeFails, Fails, disk
    <2>2. AnswerFits([job[j] EXCEPT !.answer = Failed], files')
      BY <1>0 DEF AnswerFits, Fields
    <2>3. JobsSound'
      BY <2>1, <2>2, AnswerStep
    <2>4. QED
      BY <1>0, <2>1, <2>3 DEF WorkspaceInv, Places, ActiveIsReal, ModelsNameTheirData
  <1>7. QED
    BY <1>2, <1>3, <1>4, <1>5, <1>6 DEF Serve

-----------------------------------------------------------------------------
(* The continuations.                                                      *)

(* What the end of a command and the next await leave behind.              *)
LEMMA FinishStep ==
  ASSUME WorkspaceInv, NEW j \in Everyone, Finish(j), UNCHANGED disk
  PROVE  JobsSound'
  BY IdleSound, JobStep DEF Finish, disk, WorkspaceInv

LEMMA AwaitStep ==
  ASSUME WorkspaceInv, NEW j \in Everyone, NEW r, Await(j, r), UNCHANGED disk,
         Sound(r, files)
  PROVE  JobsSound'
  BY JobStep DEF Await, disk, WorkspaceInv

LEMMA ContinueStep ==
  ASSUME WorkspaceInv, NEW j \in Everyone, Continue(j)
  PROVE  WorkspaceInv'
  <1>0. /\ Sound(job[j], files) /\ DOMAIN job[j] = Fields
        /\ UNCHANGED disk /\ UNCHANGED <<files, manifests>>
    BY DEF Continue, UseInspected, Loaded, Listed, LoadInspected, Saved, Transformed,
           TransformRefused, TransformInspected, Fitted, RunsListed, Reran, Ends, InBrowser, disk,
           WorkspaceInv, JobsSound, Sound
  <1>1. CASE UseInspected(j)
    <2> DEFINE r == [job[j] EXCEPT !.step = "describe", !.answer = NoAnswer]
    <2>1. Sound(r, files)
      BY <1>0, <1>1 DEF Sound, CarriesFiles, AnswerFits, Fields
    <2>2. Await(j, r) /\ job[j].path \in files /\ activePath' = job[j].path
          /\ UNCHANGED <<projectWorkingDir, modelHistory>>
      BY <1>0, <1>1 DEF UseInspected, Got, Sound, CarriesFiles, projectStore
    <2> HIDE DEF r
    <2>3. JobsSound'
      BY <1>0, <2>1, <2>2, AwaitStep
    <2>4. QED
      BY <1>0, <2>2, <2>3 DEF WorkspaceInv, Places, ActiveIsReal, ModelsNameTheirData
  <1>2. CASE Loaded(j)
    <2> DEFINE r == [job[j] EXCEPT !.step = "list", !.draft = job[j].answer, !.answer = NoAnswer]
    <2>1. /\ job[j].step = "load" /\ job[j].answer.active \in files /\ job[j].dir \in Homes
      BY <1>0, <1>2 DEF Loaded, Loading, Got, Sound, CarriesFiles, AnswerFits
    <2>2. Sound(r, files)
      BY <1>0, <2>1 DEF Sound, CarriesFiles, AnswerFits, Fields
    <2>3. Await(j, r) /\ projectWorkingDir' = job[j].dir /\ UNCHANGED <<activePath, modelHistory>>
      BY <1>2 DEF Loaded, datasetStore
    <2> HIDE DEF r
    <2>4. JobsSound'
      BY <1>0, <2>2, <2>3, AwaitStep
    <2>5. QED
      BY <1>0, <2>1, <2>3, <2>4, QuietStep
  <1>3. CASE Listed(j)
    <2> DEFINE r == [job[j] EXCEPT !.step = "inspect", !.path = job[j].draft.active,
                                   !.answer = NoAnswer]
    <2>1. /\ job[j].cmd \in {"load", "recover"} /\ job[j].draft.active \in files
      BY <1>0, <1>3 DEF Listed, Loading, Got, Sound, CarriesFiles
    <2>2. Sound(r, files)
      BY <1>0, <2>1 DEF Sound, CarriesFiles, AnswerFits, Fields
    <2>3. /\ Await(j, r) /\ activePath' = job[j].draft.active
          /\ UNCHANGED <<projectWorkingDir, modelHistory>>
      BY <1>3 DEF Listed
    <2> HIDE DEF r
    <2>4. JobsSound'
      BY <1>0, <2>2, <2>3, AwaitStep
    <2>5. QED
      BY <1>0, <2>1, <2>3, <2>4 DEF WorkspaceInv, Places, ActiveIsReal, ModelsNameTheirData
  <1>4. CASE Saved(j)
    <2>1. /\ job[j].dir \in Homes /\ projectWorkingDir' = job[j].dir /\ Finish(j)
          /\ UNCHANGED <<activePath, modelHistory>>
      BY <1>0, <1>4 DEF Saved, Got, Sound, CarriesFiles, datasetStore
    <2>2. QED
      BY <1>0, <2>1, FinishStep, QuietStep
  <1>5. CASE Transformed(j)
    <2> DEFINE r == [job[j] EXCEPT !.step = "inspect", !.path = activePath', !.answer = NoAnswer]
    <2>1. /\ activePath' = Derived(job[j].path, job[j].answer)
          /\ Derived(job[j].path, job[j].answer) \in files
          /\ Await(j, r) /\ UNCHANGED <<projectWorkingDir, modelHistory>>
          /\ job[j].cmd = "transform"
      BY <1>0, <1>5 DEF Transformed, DerivedPath, GotRun, Got, Sound, AnswerFits
    <2>2. Sound(r, files)
      BY <1>0, <2>1 DEF Sound, CarriesFiles, AnswerFits, Fields
    <2> HIDE DEF r
    <2>3. JobsSound'
      BY <1>0, <2>1, <2>2, AwaitStep
    <2>4. QED
      BY <1>0, <2>1, <2>3 DEF WorkspaceInv, Places, ActiveIsReal, ModelsNameTheirData
  <1>6. CASE Fitted(j)
    <2>1. /\ modelHistory' = modelHistory \cup {[run |-> job[j].answer, data |-> job[j].path]}
          /\ job[j].answer.dataset = job[j].path /\ job[j].answer.status = "success"
          /\ Finish(j) /\ UNCHANGED <<activePath, projectWorkingDir>>
      BY <1>0, <1>6 DEF Fitted, Label, GotRun, Got, Sound, AnswerFits, datasetStore, projectStore
    <2>2. JobsSound'
      BY <1>0, <2>1, FinishStep
    <2>3. ModelsNameTheirData'
      BY <2>1 DEF WorkspaceInv, ModelsNameTheirData
    <2>4. QED
      BY <1>0, <2>1, <2>2, <2>3 DEF WorkspaceInv, Places, ActiveIsReal
  <1>7. CASE Reran(j)
    <2>1. /\ Finish(j) /\ UNCHANGED <<activePath, projectWorkingDir>>
          /\ job[j].answer.status = "success"
          /\ \/ UNCHANGED modelHistory
             \/ modelHistory' = modelHistory \cup
                  {[run |-> job[j].answer, data |-> job[j].answer.dataset]}
      BY <1>7 DEF Reran, GotRun, datasetStore
    <2>2. JobsSound'
      BY <1>0, <2>1, FinishStep
    <2>3. ModelsNameTheirData'
      BY <2>1 DEF WorkspaceInv, ModelsNameTheirData
    <2>4. QED
      BY <1>0, <2>1, <2>2, <2>3 DEF WorkspaceInv, Places, ActiveIsReal
  <1>8. CASE \/ LoadInspected(j) \/ TransformRefused(j) \/ TransformInspected(j)
             \/ RunsListed(j) \/ Ends(j)
    <2>1. Finish(j) /\ UNCHANGED <<activePath, projectWorkingDir, modelHistory>>
      BY <1>8 DEF LoadInspected, TransformRefused, TransformInspected, RunsListed, Ends,
                  datasetStore, projectStore
    <2>2. QED
      BY <1>0, <2>1, FinishStep, QuietStep DEF WorkspaceInv, Places
  <1>9. QED
    BY <1>1, <1>2, <1>3, <1>4, <1>5, <1>6, <1>7, <1>8 DEF Continue

LEMMA InitInv == Init => WorkspaceInv
  <1> SUFFICES ASSUME Init PROVE WorkspaceInv
    OBVIOUS
  <1>1. JobsSound
    <2>1. job = [j \in Everyone |-> Idle]
      BY DEF Init, Everyone
    <2>2. Sound(Idle, files)
      BY DEF Idle, Sound, CarriesFiles, AnswerFits, Fields
    <2>3. QED
      BY <2>1, <2>2 DEF JobsSound
  <1>2. QED
    BY <1>1 DEF Init, WorkspaceInv, Places, ActiveIsReal, ModelsNameTheirData

LEMMA NextInv == WorkspaceInv /\ [Next]_vars => WorkspaceInv'
  <1> SUFFICES ASSUME WorkspaceInv, [Next]_vars PROVE WorkspaceInv'
    OBVIOUS
  <1>1. CASE UNCHANGED vars
    BY <1>1 DEF vars, disk, datasetStore, projectStore, WorkspaceInv, JobsSound, Sound,
                CarriesFiles, AnswerFits, Places, ActiveIsReal, ModelsNameTheirData
  <1>2. QED
    BY <1>1, CommandStep, ClearStep, RecoverStep, ServeStep, ContinueStep DEF Next, Everyone

(* The inductive invariant: what every async function carries over its     *)
(* awaits is sound.                                                        *)
THEOREM Invariance == Spec => []WorkspaceInv
  BY InitInv, NextInv, PTL DEF Spec

(* However many commands and recoveries cross, in whatever order their     *)
(* answers come and whichever of them fail, the active dataset of the app  *)
(* and of every saved project is a file.                                   *)
THEOREM ActiveExists == Spec => []ActiveIsReal
  <1>1. WorkspaceInv => ActiveIsReal
    BY DEF WorkspaceInv
  <1>2. QED
    BY <1>1, Invariance, PTL

(* A model is never shown with the data another command opened while it    *)
(* was fitted.                                                             *)
THEOREM ModelsKeepTheirData == Spec => []ModelsNameTheirData
  <1>1. WorkspaceInv => ModelsNameTheirData
    BY DEF WorkspaceInv
  <1>2. QED
    BY <1>1, Invariance, PTL

-----------------------------------------------------------------------------
(* Loading.                                                                *)

(* What is safe about LoadingEnds: while the app shows that it is loading, *)
(* a command of the user has a step to go, so there is an answer that      *)
(* takes the sign away.                                                    *)
LoadingForSomebody == isLoading => \E j \in Jobs : job[j].step # "done"

LEMMA LoadingStep ==
  ASSUME WorkspaceInv, LoadingForSomebody, Next
  PROVE  LoadingForSomebody'
  <1>0. DOMAIN job = Everyone /\ (\A j \in Everyone : DOMAIN job[j] = Fields) /\ Idle.step = "done"
    BY DEF WorkspaceInv, JobsSound, Sound, Idle
  <1>1. ASSUME isLoading' <=> isLoading,
               NEW j \in Everyone, NEW r, job' = [job EXCEPT ![j] = r],
               r.step = job[j].step \/ r.step # "done" \/ j = Background
        PROVE  LoadingForSomebody'
    <2> SUFFICES ASSUME isLoading PROVE \E i \in Jobs : job'[i].step # "done"
      BY <1>1 DEF LoadingForSomebody
    <2>1. PICK i \in Jobs : job[i].step # "done"
      BY DEF LoadingForSomebody
    <2>2. i # Background /\ i \in Everyone
      BY WorkspaceAssumption DEF Everyone
    <2>3. job'[i].step # "done"
      BY <1>0, <1>1, <2>1, <2>2
    <2>4. QED
      BY <2>3
  <1>2. ASSUME NEW j \in Jobs, NEW r, Begin(j, r), r.step # "done" PROVE LoadingForSomebody'
    <2>1. job'[j] = r
      BY <1>0, <1>2 DEF Begin, Everyone
    <2>2. QED
      BY <1>2, <2>1 DEF LoadingForSomebody
  <1>3. ASSUME NEW j \in Everyone, Finish(j) PROVE LoadingForSomebody'
    <2>1. CASE j = Background
      <3>1. (isLoading' <=> isLoading) /\ job' = [job EXCEPT ![j] = Idle]
        BY <1>3, <2>1 DEF Finish
      <3>2. QED
        BY <1>1, <2>1, <3>1
    <2>2. CASE j # Background
      BY <1>3, <2>2 DEF Finish, LoadingForSomebody
    <2>3. QED
      BY <2>1, <2>2
  <1>4. ASSUME NEW j \in Everyone, NEW r, Await(j, r), r.step # "done" PROVE LoadingForSomebody'
    BY <1>1, <1>4 DEF Await
  <1>5. ASSUME NEW j \in Everyone, NEW a, Answer(j, a), NotServed PROVE LoadingForSomebody'
    <2>1. [job[j] EXCEPT !.answer = a].step = job[j].step
      BY <1>0
    <2>2. QED
      BY <1>1, <1>5, <2>1 DEF Answer, NotServed
  <1>6. ASSUME NEW j \in Jobs, Command(j) PROVE LoadingForSomebody'
    <2>1. CASE Use(j)
      BY <1>2, <2>1 DEF Use, Idle
    <2>2. CASE Load(j)
      BY <1>2, <2>2 DEF Load, Idle
    <2>3. CASE Transform(j)
      BY <1>2, <2>3 DEF Transform, Idle
    <2>4. CASE Fit(j)
      BY <1>2, <2>4 DEF Fit, Idle
    <2>5. CASE Runs(j)
      BY <1>2, <2>5 DEF Runs, Idle
    <2>6. CASE Rerun(j)
      BY <1>2, <2>6 DEF Rerun, Idle
    <2>7. CASE Save(j)
      BY <1>2, <2>7 DEF Save, Idle
    <2>8. QED
      BY <1>6, <2>1, <2>2, <2>3, <2>4, <2>5, <2>6, <2>7 DEF Command
  <1>7. CASE Clear
    BY <1>7 DEF Clear, LoadingForSomebody
  <1>8. CASE Recover
    BY <1>1, <1>8 DEF Recover, Everyone
  <1>9. ASSUME NEW j \in Everyone, Serve(j) PROVE LoadingForSomebody'
    <2>1. NotServed /\ \E a : Answer(j, a)
      BY <1>9 DEF Serve, ServeRead, ServeSave, ServeRun, ServeRerun, ServeFails,
                  Recorded, Goes, Fails
    <2>2. QED
      BY <1>5, <2>1
  <1>10. ASSUME NEW j \in Everyone, Continue(j) PROVE LoadingForSomebody'
    <2>1. CASE UseInspected(j)
      <3>1. Await(j, [job[j] EXCEPT !.step = "describe", !.answer = NoAnswer])
        BY <2>1 DEF UseInspected
      <3>2. [job[j] EXCEPT !.step = "describe", !.answer = NoAnswer].step # "done"
        BY <1>0 DEF Fields
      <3>3. QED
        BY <1>4, <3>1, <3>2
    <2>2. CASE Loaded(j)
      <3>1. Await(j, [job[j] EXCEPT !.step = "list", !.draft = job[j].answer, !.answer = NoAnswer])
        BY <2>2 DEF Loaded
      <3>2. [job[j] EXCEPT !.step = "list", !.draft = job[j].answer, !.answer = NoAnswer].step # "done"
        BY <1>0 DEF Fields
      <3>3. QED
        BY <1>4, <3>1, <3>2
    <2>3. CASE Listed(j)
      <3> DEFINE r == [job[j] EXCEPT !.step = "inspect", !.path = job[j].draft.active,
                                     !.answer = NoAnswer]
      <3>1. Await(j, r)
        BY <2>3 DEF Listed
      <3>2. r.step # "done"
        BY <1>0 DEF Fields
      <3>3. QED
        BY <1>4, <3>1, <3>2
    <2>4. CASE Transformed(j)
      <3> DEFINE r == [job[j] EXCEPT !.step = "inspect", !.path = activePath', !.answer = NoAnswer]
      <3>1. Await(j, r)
        BY <2>4 DEF Transformed
      <3>2. r.step # "done"
        BY <1>0 DEF Fields
      <3>3. QED
        BY <1>4, <3>1, <3>2
    <2>5. CASE Finish(j)
      BY <1>3, <2>5
    <2>6. QED
      BY <1>10, <2>1, <2>2, <2>3, <2>4, <2>5
      DEF Continue, LoadInspected, Saved, TransformRefused, TransformInspected, Fitted,
          RunsListed, Reran, Ends
  <1>11. QED
    BY <1>6, <1>7, <1>8, <1>9, <1>10 DEF Next, Everyone

(* However commands cross and whichever fail, the loading sign is never    *)
(* left on with no command under way whose finally takes it away.          *)
THEOREM LoadingHasAnEnd == Spec => []LoadingForSomebody
  <1>1. Init => LoadingForSomebody
    BY DEF Init, LoadingForSomebody
  <1>2. LoadingForSomebody /\ UNCHANGED vars => LoadingForSomebody'
    BY DEF LoadingForSomebody, vars
  <1>3. QED
    BY <1>1, <1>2, LoadingStep, Invariance, PTL DEF Spec

-----------------------------------------------------------------------------
(* The lineage, while commands run one at a time.                          *)

(* A manifest as the runtime and the store hold it.                        *)
ManifestOK(m) ==
  /\ DOMAIN m = {"source", "active", "lineage"}
  /\ DOMAIN m.lineage = {"source", "active", "ops"}
  /\ m.lineage.ops \in Seq(Nat)
ManifestsIn(r) ==
  /\ r.step = "save" => ManifestOK(r.draft)
  /\ r.answer \notin {NoAnswer, Failed} =>
       /\ r.step = "load" => ManifestOK(r.answer)
       /\ r.step = "save" => r.answer = r.draft
       /\ r.step = "transform" => r.answer.id \in Nat
ManifestsOK ==
  /\ manifest # NoManifest => ManifestOK(manifest)
  /\ \A d \in Homes : manifests[d] # NoManifest => ManifestOK(manifests[d])
  /\ \A j \in Everyone : ManifestsIn(job[j])
  /\ IsFiniteSet(records)

(* Nobody else is under way, and a save carries the lineage of the store.  *)
Alone == ~crossed => \A i, j \in Everyone : job[i] # Idle /\ job[j] # Idle => i = j
DraftIsFresh ==
  ~crossed => \A j \in Everyone :
    job[j].step = "save" /\ manifest # NoManifest => job[j].draft.lineage = manifest.lineage

Grown(s, t) == Len(s) <= Len(t) /\ \A i \in 1..Len(s) : s[i] = t[i]

(* What is shown of the open project begins with what is saved of it; the  *)
(* manifest a save or a load comes back with is the one on disk.           *)
ProjectShown ==
  manifest # NoManifest =>
    /\ projectWorkingDir \in Homes
    /\ ~crossed => /\ ManifestOK(manifests[projectWorkingDir])
                   /\ Grown(manifests[projectWorkingDir].lineage.ops, manifest.lineage.ops)
AnswerShown(r, ms) ==
  r.step \in {"load", "save"} /\ r.answer \notin {NoAnswer, Failed} => r.answer = ms[r.dir]
ShownInv == ProjectShown /\ (~crossed => \A j \in Everyone : AnswerShown(job[j], manifests))

LineageInv == ManifestsOK /\ Alone /\ DraftIsFresh /\ ShownInv

LEMMA GrownIsPrefix ==
  ASSUME NEW s \in Seq(Nat), NEW t \in Seq(Nat), Grown(s, t)
  PROVE  IsPrefix(s, t)
  <1>1. \A i \in 1..Len(s) : s[i] \in Nat /\ t[i] \in Nat
    BY DEF Grown
  <1>2. /\ SubSeq(s, 1, Len(s)) \in Seq(Nat) /\ Len(SubSeq(s, 1, Len(s))) = Len(s)
        /\ \A i \in 1..Len(s) : SubSeq(s, 1, Len(s))[i] = s[i]
    BY <1>1, SubSeqProperties
  <1>3. /\ SubSeq(t, 1, Len(s)) \in Seq(Nat) /\ Len(SubSeq(t, 1, Len(s))) = Len(s)
        /\ \A i \in 1..Len(s) : SubSeq(t, 1, Len(s))[i] = t[i]
    BY <1>1, SubSeqProperties DEF Grown
  <1>4. SubSeq(s, 1, Len(s)) = SubSeq(t, 1, Len(s))
    BY <1>2, <1>3, SeqEqual DEF Grown
  <1>5. QED
    BY <1>4 DEF IsPrefix, Grown

LEMMA GrownByOne ==
  ASSUME NEW s \in Seq(Nat), NEW x \in Nat
  PROVE  /\ s \o <<x>> \in Seq(Nat) /\ Len(s \o <<x>>) = Len(s) + 1
         /\ Grown(s, s) /\ Grown(s, s \o <<x>>)
  BY <<x>> \in Seq(Nat), ConcatProperties DEF Grown

LEMMA PrefixOfItself ==
  ASSUME NEW s \in Seq(Nat)
  PROVE  Grown(s, s) /\ IsPrefix(s, s)
  BY GrownIsPrefix DEF Grown

(* One job moves, and what is on disk stays there.                         *)
LEMMA ShownStep ==
  ASSUME JobsSound, ShownInv, NEW j \in Everyone, NEW r, job' = [job EXCEPT ![j] = r],
         ProjectShown', manifests' = manifests, crossed => crossed',
         ~crossed' => AnswerShown(r, manifests)
  PROVE  ShownInv'
  <1>1. job'[j] = r /\ \A i \in Everyone \ {j} : job'[i] = job[i]
    BY DEF JobsSound
  <1>2. QED
    BY <1>1 DEF ShownInv

LEMMA ProjectStays ==
  ASSUME ShownInv, UNCHANGED <<manifest, projectWorkingDir, manifests>>, crossed => crossed'
  PROVE  ProjectShown'
  BY DEF ShownInv, ProjectShown

(* One job moves; when commands do not cross, the others are idle.         *)
LEMMA LineageStep ==
  ASSUME JobsSound, LineageInv, NEW j \in Everyone, NEW r, job' = [job EXCEPT ![j] = r],
         ManifestsIn(r),
         ~crossed' => \A i \in Everyone \ {j} : job[i] = Idle,
         ~crossed' /\ r.step = "save" /\ manifest' # NoManifest =>
           r.draft.lineage = manifest'.lineage
  PROVE  /\ Alone' /\ DraftIsFresh'
         /\ \A i \in Everyone : ManifestsIn(job'[i])
  <1>1. job'[j] = r /\ \A i \in Everyone \ {j} : job'[i] = job[i]
    BY DEF JobsSound
  <1>2. Idle.step = "done"
    BY DEF Idle
  <1>3. Alone'
    BY <1>1 DEF Alone
  <1>4. DraftIsFresh'
    BY <1>1, <1>2 DEF DraftIsFresh
  <1>5. \A i \in Everyone : ManifestsIn(job'[i])
    BY <1>1 DEF LineageInv, ManifestsOK
  <1>6. QED
    BY <1>3, <1>4, <1>5

LEMMA OthersIdle ==
  ASSUME LineageInv, NEW j \in Everyone, Serve(j) \/ Continue(j)
  PROVE  crossed' = crossed /\ (~crossed => \A i \in Everyone \ {j} : job[i] = Idle)
  <1>1. Idle.step = "done" /\ Idle.answer = NoAnswer
    BY DEF Idle
  <1>2. crossed' = crossed
    BY DEF Serve, ServeRead, ServeSave, ServeRun, ServeRerun, ServeFails, NotServed,
           Continue, UseInspected, Loaded, Listed, LoadInspected, Saved, Transformed,
           TransformRefused, TransformInspected, Fitted, RunsListed, Reran, Ends, InBrowser
  <1>3. job[j] # Idle
    BY <1>1, WorkspaceAssumption
    DEF Serve, ServeRead, ServeSave, ServeRun, ServeRerun, ServeFails, Asks,
        Continue, UseInspected, Loaded, Listed, LoadInspected, Saved, Transformed,
        TransformRefused, TransformInspected, Fitted, RunsListed, Reran, Ends, Loading, Got, GotRun
  <1>4. QED
    BY <1>2, <1>3 DEF LineageInv, Alone

LEMMA LineageBegins ==
  ASSUME JobsSound, LineageInv, NEW j \in Everyone, NEW r, Begin(j, r),
         r.answer = NoAnswer, r.step = "save" => r.draft = Draft
  PROVE  LineageInv'
  <1>1. /\ job' = [job EXCEPT ![j] = r] /\ crossed' = (crossed \/ ~Quiet)
        /\ UNCHANGED <<manifest, projectWorkingDir, manifests, records>>
    BY DEF Begin, Crosses, projectStore, disk
  <1>2. ~crossed' => ~crossed /\ \A i \in Everyone \ {j} : job[i] = Idle
    BY <1>1 DEF Quiet, JobsSound
  <1>3. Draft.lineage = IF manifest = NoManifest THEN NoLineage ELSE manifest.lineage
    BY DEF Draft, BaseLineage
  <1>4. ManifestOK(Draft)
    <2>1. DOMAIN Draft = {"source", "active", "lineage"}
      BY DEF Draft
    <2>2. DOMAIN NoLineage = {"source", "active", "ops"} /\ NoLineage.ops \in Seq(Nat)
      BY DEF NoLineage
    <2>3. QED
      BY <1>3, <2>1, <2>2 DEF ManifestOK, LineageInv, ManifestsOK
  <1>5. ManifestsIn(r)
    BY <1>4 DEF ManifestsIn
  <1>6. Alone' /\ DraftIsFresh' /\ \A i \in Everyone : ManifestsIn(job'[i])
    BY <1>1, <1>2, <1>3, <1>5, LineageStep
  <1>7. ShownInv'
    BY <1>1, ProjectStays, ShownStep DEF LineageInv, AnswerShown
  <1>8. QED
    BY <1>1, <1>6, <1>7 DEF LineageInv, ManifestsOK

LEMMA LineageCommand ==
  ASSUME JobsSound, LineageInv, NEW j \in Everyone, Command(j)
  PROVE  LineageInv'
  <1>1. CASE Use(j)
    <2>1. PICK s \in Sources :
            Begin(j, [Idle EXCEPT !.cmd = "use", !.step = "inspect", !.path = Source(s)])
      BY <1>1 DEF Use
    <2> DEFINE new == [Idle EXCEPT !.cmd = "use", !.step = "inspect", !.path = Source(s)]
    <2>2. new.answer = NoAnswer /\ new.step # "save"
      BY DEF Idle
    <2>3. QED
      BY <2>1, <2>2, LineageBegins
  <1>2. CASE Load(j)
    <2>1. PICK d \in Homes :
            Begin(j, [Idle EXCEPT !.cmd = "load", !.step = "load", !.dir = d])
      BY <1>2 DEF Load
    <2> DEFINE new == [Idle EXCEPT !.cmd = "load", !.step = "load", !.dir = d]
    <2>2. new.answer = NoAnswer /\ new.step # "save"
      BY DEF Idle
    <2>3. QED
      BY <2>1, <2>2, LineageBegins
  <1>3. CASE Transform(j)
    <2>1. Begin(j, [Idle EXCEPT !.cmd = "transform", !.step = "transform", !.path = activePath])
      BY <1>3 DEF Transform
    <2> DEFINE new == [Idle EXCEPT !.cmd = "transform", !.step = "transform", !.path = activePath]
    <2>2. new.answer = NoAnswer /\ new.step # "save"
      BY DEF Idle
    <2>3. QED
      BY <2>1, <2>2, LineageBegins
  <1>4. CASE Fit(j)
    <2>1. Begin(j, [Idle EXCEPT !.cmd = "fit", !.step = "fit", !.path = activePath])
      BY <1>4 DEF Fit
    <2> DEFINE new == [Idle EXCEPT !.cmd = "fit", !.step = "fit", !.path = activePath]
    <2>2. new.answer = NoAnswer /\ new.step # "save"
      BY DEF Idle
    <2>3. QED
      BY <2>1, <2>2, LineageBegins
  <1>5. CASE Runs(j)
    <2>1. Begin(j, [Idle EXCEPT !.cmd = "runs", !.step = "list", !.dir = WorkingDir])
      BY <1>5 DEF Runs
    <2> DEFINE new == [Idle EXCEPT !.cmd = "runs", !.step = "list", !.dir = WorkingDir]
    <2>2. new.answer = NoAnswer /\ new.step # "save"
      BY DEF Idle
    <2>3. QED
      BY <2>1, <2>2, LineageBegins
  <1>6. CASE Rerun(j)
    <2>1. PICK r \in runHistory :
            Begin(j, [Idle EXCEPT !.cmd = "rerun", !.step = "rerun", !.dir = WorkingDir, !.run = r])
      BY <1>6 DEF Rerun
    <2> DEFINE new == [Idle EXCEPT !.cmd = "rerun", !.step = "rerun", !.dir = WorkingDir, !.run = r]
    <2>2. new.answer = NoAnswer /\ new.step # "save"
      BY DEF Idle
    <2>3. QED
      BY <2>1, <2>2, LineageBegins
  <1>7. CASE Save(j)
    <2>1. PICK d \in Homes :
            Begin(j, [Idle EXCEPT !.cmd = "save", !.step = "save", !.dir = d, !.draft = Draft])
      BY <1>7 DEF Save
    <2> DEFINE new == [Idle EXCEPT !.cmd = "save", !.step = "save", !.dir = d, !.draft = Draft]
    <2>2. new.answer = NoAnswer /\ new.draft = Draft
      BY DEF Idle
    <2>3. QED
      BY <2>1, <2>2, LineageBegins
  <1>8. QED
    BY <1>1, <1>2, <1>3, <1>4, <1>5, <1>6, <1>7 DEF Command

LEMMA LineageRecover ==
  ASSUME JobsSound, LineageInv, Recover
  PROVE  LineageInv'
  <1> DEFINE r == [Idle EXCEPT !.cmd = "recover", !.step = "load", !.dir = projectWorkingDir]
  <1>1. /\ job' = [job EXCEPT ![Background] = r] /\ crossed' = (crossed \/ ~Quiet)
        /\ UNCHANGED <<manifest, projectWorkingDir, manifests, records>>
    BY DEF Recover, Crosses, projectStore, disk
  <1>2. ~crossed' => ~crossed /\ \A i \in Everyone \ {Background} : job[i] = Idle
    BY <1>1 DEF Quiet, JobsSound
  <1>3. r.step = "load" /\ r.answer = NoAnswer
    BY DEF Idle
  <1> HIDE DEF r
  <1>4. ManifestsIn(r)
    BY <1>3 DEF ManifestsIn
  <1>5. Background \in Everyone
    BY DEF Everyone
  <1>6. Alone' /\ DraftIsFresh' /\ \A i \in Everyone : ManifestsIn(job'[i])
    BY <1>1, <1>2, <1>3, <1>4, <1>5, LineageStep
  <1>7. ShownInv'
    BY <1>1, <1>3, <1>5, ProjectStays, ShownStep DEF LineageInv, AnswerShown
  <1>8. QED
    BY <1>1, <1>6, <1>7 DEF LineageInv, ManifestsOK

LEMMA LineageClear ==
  ASSUME JobsSound, LineageInv, Clear
  PROVE  LineageInv'
  <1>1. /\ UNCHANGED <<job, manifests, records>> /\ crossed' = (crossed \/ ~Quiet)
        /\ manifest' = NoManifest \/ UNCHANGED <<manifest, projectWorkingDir>>
    BY DEF Clear, Crosses, disk, projectStore
  <1>2. ~crossed' => ~crossed /\ \A i \in Everyone : job[i] = Idle
    BY <1>1 DEF Quiet, JobsSound
  <1>3. Idle.step = "done"
    BY DEF Idle
  <1>4. Alone' /\ DraftIsFresh'
    BY <1>1, <1>2, <1>3 DEF Alone, DraftIsFresh
  <1>5. ManifestsOK'
    BY <1>1 DEF LineageInv, ManifestsOK, ManifestsIn
  <1>6. ShownInv'
    BY <1>1 DEF LineageInv, ShownInv, ProjectShown
  <1>7. QED
    BY <1>4, <1>5, <1>6 DEF LineageInv

(* What the runtime writes is the draft, which has the lineage shown.      *)
LEMMA LineageServe ==
  ASSUME WorkspaceInv, LineageInv, NEW j \in Everyone, Serve(j)
  PROVE  LineageInv' /\ (crossed \/ SavesAll)
  <1>0. /\ DOMAIN job[j] = Fields /\ ManifestsIn(job[j])
        /\ UNCHANGED <<manifest, projectWorkingDir>>
        /\ crossed' = crossed /\ (~crossed => \A i \in Everyone \ {j} : job[i] = Idle)
        /\ IsFiniteSet(records) /\ JobsSound
    BY OthersIdle
    DEF Serve, ServeRead, ServeSave, ServeRun, ServeRerun, ServeFails, NotServed,
        projectStore, WorkspaceInv, JobsSound, Sound, LineageInv, ManifestsOK
  <1>1. ASSUME NEW a, Answer(j, a),
               a \notin {NoAnswer, Failed} =>
                 /\ job[j].step = "load" => ManifestOK(a)
                 /\ job[j].step = "save" => a = job[j].draft
                 /\ job[j].step = "transform" => a.id \in Nat
        PROVE  Alone' /\ DraftIsFresh' /\ \A i \in Everyone : ManifestsIn(job'[i])
    <2> DEFINE r == [job[j] EXCEPT !.answer = a]
    <2>1. r.step = job[j].step /\ r.draft = job[j].draft /\ r.answer = a
      BY <1>0 DEF Fields
    <2>2. job' = [job EXCEPT ![j] = r]
      BY <1>1 DEF Answer
    <2> HIDE DEF r
    <2>3. ManifestsIn(r)
      BY <1>0, <1>1, <2>1 DEF ManifestsIn
    <2>4. ~crossed' /\ r.step = "save" /\ manifest' # NoManifest =>
            r.draft.lineage = manifest'.lineage
      BY <1>0, <2>1 DEF LineageInv, DraftIsFresh
    <2>5. QED
      BY <1>0, <2>2, <2>3, <2>4, LineageStep
  <1>a. ASSUME NEW a, Answer(j, a), manifests' = manifests,
               a \notin {NoAnswer, Failed} =>
                 job[j].step # "save" /\ (job[j].step = "load" => a = manifests[job[j].dir])
        PROVE  ShownInv'
    <2> DEFINE r == [job[j] EXCEPT !.answer = a]
    <2>1. r.step = job[j].step /\ r.dir = job[j].dir /\ r.answer = a
      BY <1>0 DEF Fields
    <2>2. job' = [job EXCEPT ![j] = r]
      BY <1>a DEF Answer
    <2>3. ProjectShown'
      BY <1>0, <1>a, ProjectStays DEF LineageInv
    <2> HIDE DEF r
    <2>4. AnswerShown(r, manifests)
      BY <1>a, <2>1 DEF AnswerShown
    <2>5. QED
      BY <1>0, <1>a, <2>2, <2>3, <2>4, ShownStep DEF LineageInv
  <1>b. manifests' = manifests => SavesAll
    BY DEF SavesAll
  <1>2. CASE ServeRead(j)
    <2>1. UNCHANGED <<records, manifests>>
      BY <1>2 DEF ServeRead, disk
    <2>2. CASE Asks(j, "load")
      <3>1. job[j].dir \in Homes /\ job[j].step = "load"
        BY <2>2 DEF WorkspaceInv, JobsSound, Sound, CarriesFiles, Asks
      <3>2. PICK a : Answer(j, a) /\ (a # Failed => ManifestOK(a) /\ a = manifests[job[j].dir])
        BY <1>2, <3>1 DEF ServeRead, Asks, Goes, LineageInv, ManifestsOK
      <3>3. ShownInv'
        BY <1>a, <2>1, <3>1, <3>2
      <3>4. QED
        BY <1>0, <1>1, <1>b, <2>1, <3>1, <3>2, <3>3 DEF LineageInv, ManifestsOK
    <2>3. CASE ~Asks(j, "load")
      <3>1. PICK a : Answer(j, a) /\ job[j].step \in {"inspect", "describe", "list"}
        BY <1>2, <2>3 DEF ServeRead, Asks, Goes
      <3>2. ShownInv'
        BY <1>a, <2>1, <3>1
      <3>3. QED
        BY <1>0, <1>1, <1>b, <2>1, <3>1, <3>2 DEF LineageInv, ManifestsOK
    <2>4. QED
      BY <2>2, <2>3
  <1>3. CASE ServeSave(j)
    <2>1. job[j].step = "save" /\ ManifestOK(job[j].draft) /\ records' = records
      BY <1>0, <1>3 DEF ServeSave, Asks, ManifestsIn
    <2>2. \/ Answer(j, Failed) /\ manifests' = manifests
          \/ /\ \E a \in {job[j].draft, Failed} : Answer(j, a)
             /\ manifests' = [manifests EXCEPT ![job[j].dir] = job[j].draft]
      BY <1>3 DEF ServeSave, Goes, Fails
    <2>3. Alone' /\ DraftIsFresh' /\ \A i \in Everyone : ManifestsIn(job'[i])
      BY <1>1, <2>1, <2>2
    <2>4. \A d \in Homes : manifests'[d] # NoManifest => ManifestOK(manifests'[d])
      BY <2>1, <2>2 DEF LineageInv, ManifestsOK, WorkspaceInv, Places
    <2>5. CASE manifests' = manifests /\ Answer(j, Failed)
      <3>1. ShownInv'
        BY <1>a, <2>5
      <3>2. QED
        BY <1>0, <1>b, <2>1, <2>3, <2>4, <2>5, <3>1 DEF LineageInv, ManifestsOK
    <2>6. CASE manifests' = [manifests EXCEPT ![job[j].dir] = job[j].draft]
      <3>1. DOMAIN manifests = Homes /\ job[j].dir \in Homes
        BY <2>1 DEF WorkspaceInv, Places, JobsSound, Sound, CarriesFiles
      <3>2. ~crossed /\ manifest # NoManifest =>
              /\ job[j].draft.lineage = manifest.lineage
              /\ Grown(manifest.lineage.ops, manifest.lineage.ops)
              /\ IsPrefix(manifest.lineage.ops, manifest.lineage.ops)
        BY <2>1, PrefixOfItself DEF LineageInv, DraftIsFresh, ManifestsOK, ManifestOK
      <3>3. ProjectShown'
        BY <1>0, <2>1, <2>6, <3>1, <3>2 DEF LineageInv, ShownInv, ProjectShown
      <3>4. ~crossed' => \A i \in Everyone : AnswerShown(job'[i], manifests')
        <4>1. \A i \in Everyone \ {j} : job'[i] = job[i]
          BY <1>0, <2>2 DEF Answer, JobsSound
        <4>2. /\ job'[j].dir = job[j].dir /\ job'[j].answer \in {Failed, job[j].draft}
          BY <1>0, <2>2 DEF Answer, JobsSound, Fields
        <4>3. Idle.step = "done"
          BY DEF Idle
        <4>4. QED
          BY <1>0, <2>6, <3>1, <4>1, <4>2, <4>3 DEF AnswerShown
      <3>5. crossed \/ SavesAll
        BY <2>6, <3>1, <3>2 DEF SavesAll
      <3>6. QED
        BY <1>0, <2>1, <2>3, <2>4, <3>3, <3>4, <3>5 DEF LineageInv, ManifestsOK, ShownInv
    <2>7. QED
      BY <2>2, <2>5, <2>6
  <1>4. CASE ServeRun(j)
    <2>1. PICK status \in Outcomes :
            Recorded(j, NewRun(job[j].step, job[j].path, InferWorkingDir(job[j].path), status))
      BY <1>4 DEF ServeRun
    <2> DEFINE a == NewRun(job[j].step, job[j].path, InferWorkingDir(job[j].path), status)
    <2>2. a.id \in Nat
      BY <1>0, FS_CardinalityType DEF NewRun
    <2>3. /\ Answer(j, a) \/ Answer(j, Failed)
          /\ manifests' = manifests /\ job[j].step \in {"transform", "fit"}
          /\ records' = records \cup {a}
      BY <1>4, <2>1 DEF ServeRun, Recorded, Goes, Fails
    <2> HIDE DEF a
    <2>4. Alone' /\ DraftIsFresh' /\ \A i \in Everyone : ManifestsIn(job'[i])
      BY <1>1, <2>2, <2>3
    <2>5. IsFiniteSet(records')
      BY <1>0, <2>3, FS_AddElement
    <2>6. ShownInv'
      BY <1>a, <2>3
    <2>7. QED
      BY <1>0, <1>b, <2>3, <2>4, <2>5, <2>6 DEF LineageInv, ManifestsOK
  <1>5. CASE ServeRerun(j)
    <2>1. /\ job[j].step = "rerun" /\ manifests' = manifests
          /\ \E a : Answer(j, a)
          /\ \E run : records' = records \/ records' = records \cup {run}
      BY <1>5 DEF ServeRerun, Asks, Recorded, Goes, Fails
    <2>2. Alone' /\ DraftIsFresh' /\ \A i \in Everyone : ManifestsIn(job'[i])
      BY <1>1, <2>1
    <2>3. IsFiniteSet(records')
      BY <1>0, <2>1, FS_AddElement
    <2>4. ShownInv'
      BY <1>a, <2>1
    <2>5. QED
      BY <1>0, <1>b, <2>1, <2>2, <2>3, <2>4 DEF LineageInv, ManifestsOK
  <1>6. CASE ServeFails(j)
    <2>1. Answer(j, Failed) /\ UNCHANGED <<records, manifests>>
      BY <1>6 DEF ServeFails, Fails, disk
    <2>2. ShownInv'
      BY <1>a, <2>1
    <2>3. QED
      BY <1>0, <1>1, <1>b, <2>1, <2>2 DEF LineageInv, ManifestsOK
  <1>7. QED
    BY <1>2, <1>3, <1>4, <1>5, <1>6 DEF Serve

(* What a continuation does to the manifest: a loaded one, the saved one,  *)
(* one operation more, or nothing.                                         *)
LEMMA LineageContinue ==
  ASSUME WorkspaceInv, LineageInv, NEW j \in Everyone, Continue(j)
  PROVE  LineageInv' /\ (crossed \/ OnlyLoadsDrop)
  <1>0. /\ DOMAIN job[j] = Fields /\ ManifestsIn(job[j]) /\ UNCHANGED <<manifests, records>>
        /\ crossed' = crossed /\ (~crossed => \A i \in Everyone \ {j} : job[i] = Idle)
        /\ IsFiniteSet(records) /\ JobsSound
        /\ (manifest # NoManifest => ManifestOK(manifest))
    BY OthersIdle
    DEF Continue, UseInspected, Loaded, Listed, LoadInspected, Saved, Transformed,
        TransformRefused, TransformInspected, Fitted, RunsListed, Reran, Ends, InBrowser, disk,
        WorkspaceInv, JobsSound, Sound, LineageInv, ManifestsOK
  <1>1. ASSUME NEW r, job' = [job EXCEPT ![j] = r], r.step # "save", r.answer = NoAnswer,
               manifest' # NoManifest => ManifestOK(manifest'), ProjectShown'
        PROVE  LineageInv'
    <2>1. ManifestsIn(r) /\ AnswerShown(r, manifests)
      BY <1>1 DEF ManifestsIn, AnswerShown
    <2>2. Alone' /\ DraftIsFresh' /\ \A i \in Everyone : ManifestsIn(job'[i])
      BY <1>0, <1>1, <2>1, LineageStep
    <2>3. ShownInv'
      BY <1>0, <1>1, <2>1, ShownStep DEF LineageInv
    <2>4. QED
      BY <1>0, <1>1, <2>2, <2>3 DEF LineageInv, ManifestsOK
  <1>2. ASSUME Finish(j), manifest' # NoManifest => ManifestOK(manifest'), ProjectShown'
        PROVE  LineageInv'
    <2>1. Idle.step # "save" /\ Idle.answer = NoAnswer
      BY DEF Idle
    <2>2. QED
      BY <1>1, <1>2, <2>1 DEF Finish
  <1>3. UNCHANGED <<manifest, projectWorkingDir>> => OnlyLoadsDrop /\ ProjectShown'
    BY <1>0, PrefixOfItself, ProjectStays DEF OnlyLoadsDrop, ManifestOK, LineageInv
  <1>c. ASSUME job[j].step \in {"load", "save"}, job[j].answer \notin {NoAnswer, Failed},
               manifest' = job[j].answer, projectWorkingDir' = job[j].dir,
               ManifestOK(job[j].answer)
        PROVE  ProjectShown'
    <2>1. job[j].dir \in Homes
      BY <1>c DEF WorkspaceInv, JobsSound, Sound, CarriesFiles
    <2>2. ~crossed => job[j].answer = manifests[job[j].dir]
      BY <1>c DEF LineageInv, ShownInv, AnswerShown
    <2>3. Grown(job[j].answer.lineage.ops, job[j].answer.lineage.ops)
      BY <1>c, PrefixOfItself DEF ManifestOK
    <2>4. QED
      BY <1>0, <1>c, <2>1, <2>2, <2>3 DEF ProjectShown
  <1>4. CASE UseInspected(j)
    <2> DEFINE r == [job[j] EXCEPT !.step = "describe", !.answer = NoAnswer]
    <2>1. r.step # "save" /\ r.answer = NoAnswer
      BY <1>0 DEF Fields
    <2>2. job' = [job EXCEPT ![j] = r] /\ UNCHANGED <<manifest, projectWorkingDir>>
      BY <1>4 DEF UseInspected, Await, projectStore
    <2> HIDE DEF r
    <2>3. QED
      BY <1>0, <1>1, <1>3, <2>1, <2>2
  <1>5. CASE Loaded(j)
    <2> DEFINE r == [job[j] EXCEPT !.step = "list", !.draft = job[j].answer, !.answer = NoAnswer]
    <2>1. r.step # "save" /\ r.answer = NoAnswer
      BY <1>0 DEF Fields
    <2>2. /\ job' = [job EXCEPT ![j] = r] /\ manifest' = job[j].answer
          /\ projectWorkingDir' = job[j].dir
      BY <1>5 DEF Loaded, Await
    <2>3. /\ ManifestOK(job[j].answer) /\ job[j].step = "load"
          /\ job[j].answer \notin {NoAnswer, Failed}
      BY <1>0, <1>5 DEF Loaded, Loading, Got, ManifestsIn
    <2> HIDE DEF r
    <2>4. LineageInv'
      BY <1>1, <1>c, <2>1, <2>2, <2>3
    <2>5. j \in DOMAIN job
      BY <1>0 DEF JobsSound
    <2>6. QED
      BY <1>5, <2>4, <2>5 DEF OnlyLoadsDrop
  <1>6. CASE Listed(j)
    <2> DEFINE r == [job[j] EXCEPT !.step = "inspect", !.path = job[j].draft.active,
                                   !.answer = NoAnswer]
    <2>1. r.step # "save" /\ r.answer = NoAnswer
      BY <1>0 DEF Fields
    <2>2. job' = [job EXCEPT ![j] = r] /\ UNCHANGED <<manifest, projectWorkingDir>>
      BY <1>6 DEF Listed, Await
    <2> HIDE DEF r
    <2>3. QED
      BY <1>0, <1>1, <1>3, <2>1, <2>2
  <1>7. CASE Saved(j)
    <2>1. /\ manifest' = job[j].draft /\ ManifestOK(job[j].draft) /\ Finish(j)
          /\ job[j].step = "save" /\ job[j].answer = job[j].draft
          /\ job[j].answer \notin {NoAnswer, Failed} /\ projectWorkingDir' = job[j].dir
      BY <1>0, <1>7 DEF Saved, Got, ManifestsIn
    <2>2. LineageInv'
      BY <1>2, <1>c, <2>1
    <2>3. CASE manifest = NoManifest
      BY <2>2, <2>3 DEF OnlyLoadsDrop
    <2>4. CASE manifest # NoManifest /\ ~crossed
      <3>1. manifest'.lineage = manifest.lineage
        BY <2>1, <2>4 DEF LineageInv, DraftIsFresh
      <3>2. IsPrefix(manifest.lineage.ops, manifest'.lineage.ops)
        BY <1>0, <2>4, <3>1, PrefixOfItself DEF ManifestOK
      <3>3. QED
        BY <2>2, <3>2 DEF OnlyLoadsDrop
    <2>5. QED
      BY <2>2, <2>3, <2>4
  <1>8. CASE Transformed(j)
    <2> DEFINE r == [job[j] EXCEPT !.step = "inspect", !.path = activePath', !.answer = NoAnswer]
    <2>1. r.step # "save" /\ r.answer = NoAnswer
      BY <1>0 DEF Fields
    <2>2. /\ job' = [job EXCEPT ![j] = r] /\ AppendLineage(<<job[j].answer.id>>)
          /\ job[j].answer.id \in Nat /\ projectWorkingDir' = projectWorkingDir
      BY <1>0, <1>8 DEF Transformed, Await, GotRun, Got, ManifestsIn
    <2> HIDE DEF r
    <2>3. CASE manifest = NoManifest
      <3>1. manifest' = manifest
        BY <2>2, <2>3 DEF AppendLineage
      <3>2. QED
        BY <1>0, <1>1, <1>3, <2>1, <2>2, <3>1
    <2>4. CASE manifest # NoManifest
      <3>1. manifest' = [manifest EXCEPT !.lineage.ops = @ \o <<job[j].answer.id>>]
        BY <2>2, <2>4 DEF AppendLineage
      <3>2. /\ manifest.lineage.ops \o <<job[j].answer.id>> \in Seq(Nat)
            /\ Len(manifest.lineage.ops \o <<job[j].answer.id>>) = Len(manifest.lineage.ops) + 1
            /\ Grown(manifest.lineage.ops, manifest.lineage.ops \o <<job[j].answer.id>>)
        BY <1>0, <2>2, <2>4, GrownByOne DEF ManifestOK
      <3>3. manifest'.lineage.ops = manifest.lineage.ops \o <<job[j].answer.id>>
        BY <1>0, <2>4, <3>1 DEF ManifestOK
      <3>4. ManifestOK(manifest')
        BY <1>0, <2>4, <3>1, <3>2, <3>3 DEF ManifestOK
      <3>5. IsPrefix(manifest.lineage.ops, manifest'.lineage.ops)
        BY <1>0, <2>4, <3>2, <3>3, GrownIsPrefix DEF ManifestOK
      <3>6. ProjectShown'
        <4>1. ASSUME NEW s \in Seq(Nat), NEW u \in Seq(Nat), NEW v \in Seq(Nat),
                     Grown(s, u), Grown(u, v)
              PROVE  Grown(s, v)
          BY <4>1 DEF Grown
        <4>2. QED
          BY <1>0, <2>2, <2>4, <3>2, <3>3, <4>1
          DEF LineageInv, ShownInv, ProjectShown, ManifestOK
      <3>7. QED
        BY <1>1, <2>1, <2>2, <3>4, <3>5, <3>6 DEF OnlyLoadsDrop
    <2>5. QED
      BY <2>3, <2>4
  <1>9. CASE \/ LoadInspected(j) \/ TransformRefused(j) \/ TransformInspected(j)
             \/ Fitted(j) \/ RunsListed(j) \/ Reran(j) \/ Ends(j)
    <2>1. Finish(j) /\ UNCHANGED <<manifest, projectWorkingDir>>
      BY <1>9 DEF LoadInspected, TransformRefused, TransformInspected, Fitted, RunsListed,
                  Reran, Ends, projectStore
    <2>2. QED
      BY <1>0, <1>2, <1>3, <2>1
  <1>10. QED
    BY <1>4, <1>5, <1>6, <1>7, <1>8, <1>9 DEF Continue

LEMMA InitLineage == Init => LineageInv
  <1> SUFFICES ASSUME Init PROVE LineageInv
    OBVIOUS
  <1>1. \A j \in Everyone : job[j] = Idle
    BY DEF Init, Everyone
  <1>2. Idle.step = "done" /\ Idle.answer = NoAnswer
    BY DEF Idle
  <1>3. QED
    BY <1>1, <1>2, FS_EmptySet
    DEF Init, LineageInv, ManifestsOK, ManifestsIn, Alone, DraftIsFresh,
        ShownInv, ProjectShown, AnswerShown

LEMMA NextLineage ==
  WorkspaceInv /\ LineageInv /\ [Next]_vars =>
    LineageInv' /\ [crossed \/ (SavesAll /\ SavedIsShown /\ OnlyLoadsDrop)]_vars
  <1> SUFFICES ASSUME WorkspaceInv, LineageInv, [Next]_vars
               PROVE  LineageInv' /\ [crossed \/ (SavesAll /\ SavedIsShown /\ OnlyLoadsDrop)]_vars
    OBVIOUS
  <1>0. JobsSound /\ (manifest # NoManifest => ManifestOK(manifest))
    BY DEF WorkspaceInv, LineageInv, ManifestsOK
  <1>1. manifest' \in {manifest, NoManifest} => OnlyLoadsDrop
    BY <1>0, PrefixOfItself DEF OnlyLoadsDrop, ManifestOK
  <1>2. manifests' = manifests => SavesAll
    BY DEF SavesAll
  <1>3. crossed \/ SavedIsShown
    BY <1>0, GrownIsPrefix DEF SavedIsShown, LineageInv, ShownInv, ProjectShown, ManifestOK
  <1>4. ASSUME NEW j \in Everyone, Command(j) PROVE UNCHANGED <<manifest, manifests>>
    BY <1>4 DEF Command, Use, Load, Transform, Fit, Runs, Rerun, Save, Begin, projectStore, disk
  <1>5. ASSUME NEW j \in Everyone, Serve(j) PROVE manifest' = manifest
    BY <1>5 DEF Serve, ServeRead, ServeSave, ServeRun, ServeRerun, ServeFails, NotServed,
                projectStore
  <1>6. ASSUME NEW j \in Everyone, Continue(j) PROVE manifests' = manifests
    BY <1>6 DEF Continue, UseInspected, Loaded, Listed, LoadInspected, Saved, Transformed,
                TransformRefused, TransformInspected, Fitted, RunsListed, Reran, Ends,
                InBrowser, disk
  <1>7. CASE Clear
    BY <1>0, <1>1, <1>2, <1>3, <1>7, LineageClear DEF Clear, projectStore, disk
  <1>8. CASE Recover
    BY <1>0, <1>1, <1>2, <1>3, <1>8, LineageRecover DEF Recover, projectStore, disk
  <1>9. CASE UNCHANGED vars
    BY <1>9 DEF vars, disk, projectStore, LineageInv, ManifestsOK, ManifestsIn, Alone,
                DraftIsFresh, ShownInv, ProjectShown, AnswerShown
  <1>10. QED
    BY <1>0, <1>1, <1>2, <1>3, <1>4, <1>5, <1>6, <1>7, <1>8, <1>9,
       LineageCommand, LineageServe, LineageContinue
    DEF Next, Everyone

(* As long as commands and recoveries run one at a time: a save writes     *)
(* every operation of the lineage that is shown, what is shown begins with *)
(* what the project has on disk, and only a load takes operations out,     *)
(* which are then operations no save has written.                          *)
THEOREM LineageOnlyGrows == Spec => LineageGrows
  BY InitInv, NextInv, InitLineage, NextLineage, PTL DEF Spec, LineageGrows

-----------------------------------------------------------------------------
(* The summary, while commands run one at a time.                          *)

Known(su, ap) ==
  su # NoData => ap # NoData /\ su.source = ap.source /\ Grown(su.ops, ap.ops)

(* A load between the new active path and its summary.                     *)
Loads(r) == r.cmd \in {"load", "recover"} /\ r.step = "inspect"
(* What a job reads is a dataset, what it is told is what it asked about.  *)
ReadOK(r) ==
  /\ r.step \in {"inspect", "transform"} => r.path \in Datasets
  /\ r.step = "inspect" /\ r.answer \notin {NoAnswer, Failed} => r.answer = r.path
(* It is about the active dataset.                                         *)
PathOK(r, ap) == r.cmd = "transform" \/ Loads(r) => r.path = ap

SummaryInv ==
  /\ files \subseteq Datasets
  /\ summary # NoData => summary \in Datasets
  /\ \A j \in Everyone : ReadOK(job[j])
  /\ ~crossed => /\ \A j \in Everyone : PathOK(job[j], activePath)
                 /\ Known(summary, activePath) \/ \E j \in Everyone : Loads(job[j])

LEMMA KnowsItself ==
  ASSUME NEW d \in Datasets
  PROVE  Known(d, d) /\ d # NoData
  BY WorkspaceAssumption DEF Known, Grown, Datasets

LEMMA DerivedData ==
  ASSUME NEW d \in Datasets, NEW run, run.id \in Nat
  PROVE  /\ Derived(d, run) \in Datasets
         /\ \A su \in Datasets : Known(su, d) => Known(su, Derived(d, run))
  <1> DEFINE ops == Append(d.ops, run.id)
  <1>1. /\ d.ops \in Seq(Nat) /\ ops \in Seq(Nat) /\ Len(ops) = Len(d.ops) + 1
        /\ \A i \in 1..Len(d.ops) : ops[i] = d.ops[i]
    BY AppendProperties DEF Datasets
  <1> HIDE DEF ops
  <1>2. LET n == [d EXCEPT !.ops = ops]
        IN  n \in Datasets /\ n.source = d.source /\ n.ops = ops
    BY <1>1 DEF Datasets
  <1>3. /\ Derived(d, run) \in Datasets /\ Derived(d, run) # NoData
        /\ Derived(d, run).source = d.source /\ Derived(d, run).ops = ops
    <2>1. Derived(d, run) = [d EXCEPT !.ops = ops]
      BY DEF Derived, ops
    <2>2. QED
      BY <1>2, <2>1, KnowsItself
  <1>4. ASSUME NEW su \in Datasets, Grown(su.ops, d.ops) PROVE Grown(su.ops, ops)
    <2>1. Len(su.ops) \in Nat /\ Len(d.ops) \in Nat
      BY <1>1 DEF Datasets
    <2>2. QED
      BY <1>1, <1>4, <2>1 DEF Grown
  <1>5. QED
    BY <1>3, <1>4 DEF Known

(* One job moves; when commands do not cross, the others are idle.         *)
LEMMA SummaryStep ==
  ASSUME JobsSound, SummaryInv, NEW j \in Everyone, NEW r, job' = [job EXCEPT ![j] = r],
         files' \subseteq Datasets, ReadOK(r),
         summary' # NoData => summary' \in Datasets,
         ~crossed' => /\ \A i \in Everyone \ {j} : job[i] = Idle
                      /\ PathOK(r, activePath')
                      /\ Known(summary', activePath') \/ Loads(r)
  PROVE  SummaryInv'
  <1>1. job'[j] = r /\ \A i \in Everyone \ {j} : job'[i] = job[i]
    BY DEF JobsSound
  <1>2. Idle.cmd = "none"
    BY DEF Idle
  <1>3. \A i \in Everyone : ReadOK(job'[i])
    BY <1>1 DEF SummaryInv
  <1>4. ~crossed' => \A i \in Everyone : PathOK(job'[i], activePath')
    BY <1>1, <1>2 DEF PathOK, Loads
  <1>5. ~crossed' => Known(summary', activePath') \/ \E i \in Everyone : Loads(job'[i])
    BY <1>1
  <1>6. QED
    BY <1>3, <1>4, <1>5 DEF SummaryInv

(* While the others are idle and this job does not load, the summary is    *)
(* that of the active dataset.                                             *)
LEMMA KnownAlone ==
  ASSUME SummaryInv, ~crossed, NEW j \in Everyone, \A i \in Everyone \ {j} : job[i] = Idle
  PROVE  Known(summary, activePath) \/ Loads(job[j])
  <1>1. ~Loads(Idle)
    BY DEF Idle, Loads
  <1>2. QED
    BY <1>1 DEF SummaryInv

LEMMA SummaryBegins ==
  ASSUME JobsSound, SummaryInv, NEW j \in Everyone, NEW r, job[j] = Idle,
         job' = [job EXCEPT ![j] = r], Crosses, UNCHANGED <<files, summary, activePath>>,
         ReadOK(r), PathOK(r, activePath)
  PROVE  SummaryInv'
  <1>1. ~crossed' => ~crossed /\ \A i \in Everyone : job[i] = Idle
    BY DEF Crosses, Quiet, JobsSound
  <1>2. ~Loads(Idle)
    BY DEF Idle, Loads
  <1>3. ~crossed' => Known(summary, activePath)
    BY <1>1, <1>2, KnownAlone
  <1>4. QED
    BY <1>1, <1>3, SummaryStep DEF SummaryInv

LEMMA SummaryCommand ==
  ASSUME WorkspaceInv, SummaryInv, NEW j \in Everyone, Command(j)
  PROVE  SummaryInv'
  <1>1. ASSUME NEW r, Begin(j, r), ReadOK(r), PathOK(r, activePath)
        PROVE  SummaryInv'
    BY <1>1, SummaryBegins DEF Begin, datasetStore, disk, WorkspaceInv
  <1>2. CASE Use(j)
    <2>1. PICK s \in Sources :
            Begin(j, [Idle EXCEPT !.cmd = "use", !.step = "inspect", !.path = Source(s)])
      BY <1>2 DEF Use
    <2> DEFINE new == [Idle EXCEPT !.cmd = "use", !.step = "inspect", !.path = Source(s)]
    <2>2. Source(s) \in Datasets
      BY DEF Source, Datasets
    <2>3. ReadOK(new) /\ PathOK(new, activePath)
      BY <2>2 DEF Idle, ReadOK, PathOK, Loads
    <2>4. QED
      BY <1>1, <2>1, <2>3
  <1>3. CASE Load(j)
    <2>1. PICK d \in Homes :
            Begin(j, [Idle EXCEPT !.cmd = "load", !.step = "load", !.dir = d])
      BY <1>3 DEF Load
    <2> DEFINE new == [Idle EXCEPT !.cmd = "load", !.step = "load", !.dir = d]
    <2>2. ReadOK(new) /\ PathOK(new, activePath)
      BY DEF Idle, ReadOK, PathOK, Loads
    <2>3. QED
      BY <1>1, <2>1, <2>2
  <1>4. CASE Transform(j)
    <2>1. Begin(j, [Idle EXCEPT !.cmd = "transform", !.step = "transform", !.path = activePath])
      BY <1>4 DEF Transform
    <2> DEFINE new == [Idle EXCEPT !.cmd = "transform", !.step = "transform", !.path = activePath]
    <2>2. activePath \in Datasets
      BY <1>4 DEF Transform, WorkspaceInv, ActiveIsReal, SummaryInv
    <2>3. ReadOK(new) /\ PathOK(new, activePath)
      BY <2>2 DEF Idle, ReadOK, PathOK, Loads
    <2>4. QED
      BY <1>1, <2>1, <2>3
  <1>5. CASE Fit(j)
    <2>1. Begin(j, [Idle EXCEPT !.cmd = "fit", !.step = "fit", !.path = activePath])
      BY <1>5 DEF Fit
    <2> DEFINE new == [Idle EXCEPT !.cmd = "fit", !.step = "fit", !.path = activePath]
    <2>2. ReadOK(new) /\ PathOK(new, activePath)
      BY DEF Idle, ReadOK, PathOK, Loads
    <2>3. QED
      BY <1>1, <2>1, <2>2
  <1>6. CASE Runs(j)
    <2>1. Begin(j, [Idle EXCEPT !.cmd = "runs", !.step = "list", !.dir = WorkingDir])
      BY <1>6 DEF Runs
    <2> DEFINE new == [Idle EXCEPT !.cmd = "runs", !.step = "list", !.dir = WorkingDir]
    <2>2. ReadOK(new) /\ PathOK(new, activePath)
      BY DEF Idle, ReadOK, PathOK, Loads
    <2>3. QED
      BY <1>1, <2>1, <2>2
  <1>7. CASE Rerun(j)
    <2>1. PICK r \in runHistory :
            Begin(j, [Idle EXCEPT !.cmd = "rerun", !.step = "rerun", !.dir = WorkingDir, !.run = r])
      BY <1>7 DEF Rerun
    <2> DEFINE new == [Idle EXCEPT !.cmd = "rerun", !.step = "rerun", !.dir = WorkingDir, !.run = r]
    <2>2. ReadOK(new) /\ PathOK(new, activePath)
      BY DEF Idle, ReadOK, PathOK, Loads
    <2>3. QED
      BY <1>1, <2>1, <2>2
  <1>8. CASE Save(j)
    <2>1. PICK d \in Homes :
            Begin(j, [Idle EXCEPT !.cmd = "save", !.step = "save", !.dir = d, !.draft = Draft])
      BY <1>8 DEF Save
    <2> DEFINE new == [Idle EXCEPT !.cmd = "save", !.step = "save", !.dir = d, !.draft = Draft]
    <2>2. ReadOK(new) /\ PathOK(new, activePath)
      BY DEF Idle, ReadOK, PathOK, Loads
    <2>3. QED
      BY <1>1, <2>1, <2>2
  <1>9. QED
    BY <1>2, <1>3, <1>4, <1>5, <1>6, <1>7, <1>8 DEF Command

LEMMA SummaryRecover ==
  ASSUME WorkspaceInv, SummaryInv, Recover
  PROVE  SummaryInv'
  <1> DEFINE r == [Idle EXCEPT !.cmd = "recover", !.step = "load", !.dir = projectWorkingDir]
  <1>1. job' = [job EXCEPT ![Background] = r] /\ Crosses /\ job[Background] = Idle
        /\ UNCHANGED <<files, summary, activePath>>
    BY DEF Recover, datasetStore, disk
  <1>2. ReadOK(r) /\ PathOK(r, activePath)
    BY DEF Idle, ReadOK, PathOK, Loads
  <1> HIDE DEF r
  <1>3. QED
    BY <1>1, <1>2, SummaryBegins DEF Everyone, WorkspaceInv

LEMMA SummaryClear ==
  ASSUME WorkspaceInv, SummaryInv, Clear
  PROVE  SummaryInv'
  <1>1. /\ UNCHANGED <<job, files>> /\ crossed' = (crossed \/ ~Quiet)
        /\ \/ UNCHANGED <<summary, activePath>>
           \/ summary' = NoData
    BY DEF Clear, Crosses, disk, datasetStore
  <1>2. ~crossed' => ~crossed /\ \A i \in Everyone : job[i] = Idle
    BY <1>1 DEF Quiet, JobsSound, WorkspaceInv
  <1>3. ~Loads(Idle) /\ Idle.cmd # "transform"
    BY DEF Idle, Loads
  <1>4. ~crossed' => Known(summary', activePath')
    BY <1>1, <1>2, <1>3 DEF SummaryInv, Known
  <1>5. ~crossed' => \A i \in Everyone : PathOK(job'[i], activePath')
    BY <1>1, <1>2, <1>3 DEF PathOK
  <1>6. QED
    BY <1>1, <1>4, <1>5 DEF SummaryInv, ReadOK

LEMMA SummaryServe ==
  ASSUME WorkspaceInv, LineageInv, SummaryInv, NEW j \in Everyone, Serve(j)
  PROVE  SummaryInv'
  <1>1. /\ UNCHANGED <<summary, activePath>> /\ DOMAIN job[j] = Fields
        /\ crossed' = crossed /\ (~crossed => \A i \in Everyone \ {j} : job[i] = Idle)
        /\ JobsSound /\ IsFiniteSet(records)
    BY OthersIdle
    DEF Serve, ServeRead, ServeSave, ServeRun, ServeRerun, ServeFails, NotServed,
        datasetStore, WorkspaceInv, JobsSound, Sound, LineageInv, ManifestsOK
  <1>2. ASSUME NEW a, Answer(j, a), files' \subseteq Datasets,
               job[j].step = "inspect" => a \in {job[j].path, Failed}
        PROVE  SummaryInv'
    <2> DEFINE r == [job[j] EXCEPT !.answer = a]
    <2>1. r.step = job[j].step /\ r.cmd = job[j].cmd /\ r.path = job[j].path /\ r.answer = a
      BY <1>1 DEF Fields
    <2>2. job' = [job EXCEPT ![j] = r]
      BY <1>2 DEF Answer
    <2> HIDE DEF r
    <2>3. ReadOK(r)
      BY <1>2, <2>1 DEF SummaryInv, ReadOK
    <2>4. ~crossed => PathOK(r, activePath) /\ (Known(summary, activePath) \/ Loads(r))
      BY <1>1, <2>1, KnownAlone DEF SummaryInv, PathOK, Loads
    <2>5. QED
      BY <1>1, <1>2, <2>2, <2>3, <2>4, SummaryStep DEF SummaryInv
  <1>3. CASE ServeRead(j)
    <2>1. \E a : Answer(j, a) /\ (job[j].step = "inspect" => a = job[j].path)
      BY <1>3 DEF ServeRead, Asks, Goes
    <2>2. files' = files
      BY <1>3 DEF ServeRead, disk
    <2>3. QED
      BY <1>2, <2>1, <2>2 DEF SummaryInv
  <1>4. CASE ServeRun(j)
    <2>1. PICK status \in Outcomes :
            LET run == NewRun(job[j].step, job[j].path, InferWorkingDir(job[j].path), status) IN
              /\ Recorded(j, run)
              /\ files' = IF run.action = "fit" \/ status = "error" THEN files
                          ELSE files \cup {Derived(run.dataset, run)}
      BY <1>4 DEF ServeRun
    <2> DEFINE a == NewRun(job[j].step, job[j].path, InferWorkingDir(job[j].path), status)
    <2>2. a.id \in Nat /\ a.action = job[j].step /\ a.dataset = job[j].path
      BY <1>1, FS_CardinalityType DEF NewRun
    <2>3. /\ Answer(j, a) \/ Answer(j, Failed)
          /\ job[j].step \in {"transform", "fit"}
          /\ \/ files' = files
             \/ a.action # "fit" /\ files' = files \cup {Derived(a.dataset, a)}
      BY <1>4, <2>1 DEF ServeRun, Recorded, Goes, Fails
    <2> HIDE DEF a
    <2>4. job[j].step = "transform" => job[j].path \in Datasets
      BY DEF SummaryInv, ReadOK
    <2>5. files' \subseteq Datasets
      BY <2>2, <2>3, <2>4, DerivedData DEF SummaryInv
    <2>6. QED
      BY <1>2, <2>3, <2>5
  <1>5. CASE ServeSave(j) \/ ServeRerun(j)
    <2>1. \E a : Answer(j, a) /\ job[j].step # "inspect" /\ files' = files
      BY <1>5 DEF ServeSave, ServeRerun, Asks, Recorded, Goes, Fails
    <2>2. QED
      BY <1>2, <2>1 DEF SummaryInv
  <1>6. CASE ServeFails(j)
    <2>1. Answer(j, Failed) /\ files' = files
      BY <1>6 DEF ServeFails, Fails, disk
    <2>2. QED
      BY <1>2, <2>1 DEF SummaryInv
  <1>7. QED
    BY <1>3, <1>4, <1>5, <1>6 DEF Serve

LEMMA SummaryContinue ==
  ASSUME WorkspaceInv, LineageInv, SummaryInv, NEW j \in Everyone, Continue(j)
  PROVE  SummaryInv'
  <1>1. /\ files' = files /\ DOMAIN job[j] = Fields /\ JobsSound
        /\ crossed' = crossed /\ (~crossed => \A i \in Everyone \ {j} : job[i] = Idle)
        /\ files \subseteq Datasets
        /\ CarriesFiles(job[j], files) /\ AnswerFits(job[j], files)
        /\ ManifestsIn(job[j]) /\ ReadOK(job[j])
    BY OthersIdle
    DEF Continue, UseInspected, Loaded, Listed, LoadInspected, Saved, Transformed,
        TransformRefused, TransformInspected, Fitted, RunsListed, Reran, Ends, InBrowser, disk,
        WorkspaceInv, JobsSound, Sound, LineageInv, ManifestsOK, SummaryInv
  <1>2. ~crossed => /\ PathOK(job[j], activePath)
                    /\ Known(summary, activePath) \/ Loads(job[j])
    BY <1>1, KnownAlone DEF SummaryInv
  <1>3. ReadOK(Idle) /\ (\A ap : PathOK(Idle, ap))
    BY DEF Idle, ReadOK, PathOK, Loads
  <1>4. ASSUME Finish(j), summary' # NoData => summary' \in Datasets,
               ~crossed => Known(summary', activePath')
        PROVE  SummaryInv'
    BY <1>1, <1>3, <1>4, SummaryStep DEF Finish
  <1>5. CASE UseInspected(j)
    <2> DEFINE r == [job[j] EXCEPT !.step = "describe", !.answer = NoAnswer]
    <2>1. r.step = "describe" /\ r.cmd = "use" /\ r.answer = NoAnswer
      BY <1>1, <1>5 DEF Fields, UseInspected, Got
    <2>2. job' = [job EXCEPT ![j] = r]
      BY <1>5 DEF UseInspected, Await
    <2>3. summary' = activePath' /\ activePath' \in Datasets
      BY <1>1, <1>5 DEF UseInspected, Got, ReadOK
    <2> HIDE DEF r
    <2>4. ReadOK(r) /\ PathOK(r, activePath')
      BY <2>1 DEF ReadOK, PathOK, Loads
    <2>5. Known(summary', activePath')
      BY <2>3, KnowsItself
    <2>6. QED
      BY <1>1, <2>2, <2>3, <2>4, <2>5, SummaryStep
  <1>6. CASE Loaded(j)
    <2> DEFINE r == [job[j] EXCEPT !.step = "list", !.draft = job[j].answer, !.answer = NoAnswer]
    <2>1. r.step = "list" /\ r.cmd = job[j].cmd /\ r.cmd \in {"load", "recover"}
      BY <1>1, <1>6 DEF Fields, Loaded, Loading, Got
    <2>2. job' = [job EXCEPT ![j] = r] /\ UNCHANGED <<summary, activePath>>
      BY <1>6 DEF Loaded, Await, datasetStore
    <2>3. ~Loads(job[j])
      BY <1>6 DEF Loaded, Loading, Got, Loads
    <2> HIDE DEF r
    <2>4. ReadOK(r) /\ PathOK(r, activePath)
      BY <2>1 DEF ReadOK, PathOK, Loads
    <2>5. QED
      BY <1>1, <1>2, <2>2, <2>3, <2>4, SummaryStep DEF SummaryInv
  <1>7. CASE Listed(j)
    <2> DEFINE r == [job[j] EXCEPT !.step = "inspect", !.path = job[j].draft.active,
                                   !.answer = NoAnswer]
    <2>1. /\ r.step = "inspect" /\ r.cmd = job[j].cmd /\ r.answer = NoAnswer
          /\ r.path = job[j].draft.active /\ r.cmd \in {"load", "recover"}
          /\ job[j].step = "list"
      BY <1>1, <1>7 DEF Fields, Listed, Loading, Got
    <2>2. job' = [job EXCEPT ![j] = r] /\ activePath' = job[j].draft.active /\ summary' = summary
      BY <1>7 DEF Listed, Await
    <2> HIDE DEF r
    <2>3. r.path \in Datasets
      BY <1>1, <2>1 DEF CarriesFiles
    <2>4. ReadOK(r) /\ PathOK(r, activePath') /\ Loads(r)
      BY <2>1, <2>2, <2>3 DEF ReadOK, PathOK, Loads
    <2>5. QED
      BY <1>1, <2>2, <2>4, SummaryStep DEF SummaryInv
  <1>8. CASE LoadInspected(j)
    <2>1. /\ Loads(job[j]) /\ Finish(j) /\ activePath' = activePath
          /\ summary' \in {NoData, job[j].path} /\ job[j].path \in Datasets
      BY <1>1, <1>8 DEF LoadInspected, LoadedSummary, Loads, ReadOK
    <2>2. ~crossed => job[j].path = activePath
      BY <1>2, <2>1 DEF PathOK
    <2>3. Known(job[j].path, job[j].path)
      BY <2>1, KnowsItself
    <2>4. Known(NoData, activePath)
      BY DEF Known
    <2>5. QED
      BY <1>4, <2>1, <2>2, <2>3, <2>4
  <1>9. CASE Transformed(j)
    <2> DEFINE d == Derived(job[j].path, job[j].answer)
               r == [job[j] EXCEPT !.step = "inspect", !.path = d, !.answer = NoAnswer]
    <2>1. r.step = "inspect" /\ r.cmd = "transform" /\ r.answer = NoAnswer /\ r.path = d
      BY <1>1, <1>9 DEF Fields, Transformed, GotRun, Got
    <2>2. job' = [job EXCEPT ![j] = r] /\ activePath' = d /\ summary' = summary
      BY <1>9 DEF Transformed, Await, DerivedPath
    <2>3. job[j].path \in Datasets /\ job[j].answer.id \in Nat /\ ~Loads(job[j])
          /\ job[j].cmd = "transform"
      BY <1>1, <1>9 DEF Transformed, GotRun, Got, ReadOK, ManifestsIn, Loads
    <2>4. d \in Datasets /\ \A su \in Datasets : Known(su, job[j].path) => Known(su, d)
      BY <2>3, DerivedData
    <2>5. ~crossed => Known(summary, job[j].path)
      BY <1>2, <2>3 DEF PathOK
    <2> HIDE DEF r, d
    <2>6. Known(NoData, d)
      BY DEF Known
    <2>7. ~crossed => Known(summary, d)
      BY <2>4, <2>5, <2>6 DEF SummaryInv
    <2>8. ReadOK(r) /\ PathOK(r, d)
      BY <2>1, <2>4 DEF ReadOK, PathOK
    <2>9. QED
      BY <1>1, <2>2, <2>7, <2>8, SummaryStep DEF SummaryInv
  <1>10. CASE TransformInspected(j)
    <2>1. /\ Finish(j) /\ activePath' = activePath /\ summary' = job[j].path
          /\ job[j].path \in Datasets /\ job[j].cmd = "transform"
      BY <1>1, <1>10 DEF TransformInspected, Got, ReadOK
    <2>2. ~crossed => job[j].path = activePath
      BY <1>2, <2>1 DEF PathOK
    <2>3. QED
      BY <1>4, <2>1, <2>2, KnowsItself
  <1>11. CASE \/ Saved(j) \/ TransformRefused(j) \/ Fitted(j) \/ RunsListed(j)
              \/ Reran(j) \/ Ends(j)
    <2>1. Finish(j) /\ UNCHANGED <<summary, activePath>>
      BY <1>11 DEF Saved, TransformRefused, Fitted, RunsListed, Reran, Ends, datasetStore
    <2>2. ~Loads(job[j])
      BY <1>11 DEF Saved, TransformRefused, Fitted, RunsListed, Reran, Ends, GotRun, Got, Loads
    <2>3. QED
      BY <1>2, <1>4, <2>1, <2>2 DEF SummaryInv
  <1>12. QED
    BY <1>5, <1>6, <1>7, <1>8, <1>9, <1>10, <1>11 DEF Continue

LEMMA InitSummary == Init => SummaryInv
  <1> SUFFICES ASSUME Init PROVE SummaryInv
    OBVIOUS
  <1>1. \A s \in Sources : Source(s) \in Datasets
    BY DEF Source, Datasets
  <1>2. \A j \in Everyone : job[j] = Idle
    BY DEF Init, Everyone
  <1>3. ReadOK(Idle) /\ (\A ap : PathOK(Idle, ap))
    BY DEF Idle, ReadOK, PathOK, Loads
  <1>4. QED
    BY <1>1, <1>2, <1>3 DEF Init, SummaryInv, Known

LEMMA NextSummary == WorkspaceInv /\ LineageInv /\ SummaryInv /\ [Next]_vars => SummaryInv'
  <1> SUFFICES ASSUME WorkspaceInv, LineageInv, SummaryInv, [Next]_vars PROVE SummaryInv'
    OBVIOUS
  <1>1. CASE UNCHANGED vars
    BY <1>1 DEF vars, disk, datasetStore, SummaryInv
  <1>2. QED
    BY <1>1, SummaryCommand, SummaryRecover, SummaryClear, SummaryServe, SummaryContinue
    DEF Next, Everyone

(* When nothing is under way and commands did not cross, the summary shown *)
(* is that of the active dataset or of data it was derived from, whichever *)
(* requests failed.                                                        *)
THEOREM SummaryIsOfTheData == Spec => []SummaryTellsTheData
  <1>1. ASSUME WorkspaceInv, SummaryInv
        PROVE  SummaryTellsTheData
    <2> SUFFICES ASSUME Quiet, ~crossed, summary # NoData
                 PROVE  /\ activePath # NoData
                        /\ summary.source = activePath.source
                        /\ IsPrefix(summary.ops, activePath.ops)
      BY DEF SummaryTellsTheData
    <2>1. \A j \in Everyone : ~Loads(job[j])
      BY <1>1 DEF Quiet, Idle, Loads, WorkspaceInv, JobsSound
    <2>2. Known(summary, activePath)
      BY <1>1, <2>1 DEF SummaryInv
    <2>3. summary \in Datasets /\ activePath \in Datasets
      BY <1>1, <2>2 DEF SummaryInv, WorkspaceInv, ActiveIsReal, Known
    <2>4. summary.ops \in Seq(Nat) /\ activePath.ops \in Seq(Nat)
      BY <2>3 DEF Datasets
    <2>5. QED
      BY <2>2, <2>4, GrownIsPrefix DEF Known
  <1>2. QED
    BY <1>1, InitInv, NextInv, InitLineage, NextLineage, InitSummary, NextSummary, PTL DEF Spec

=============================================================================
