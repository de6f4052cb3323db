------------------------------ MODULE RunStore ------------------------------
(***************************************************************************)
(* What metrica-runtime keeps on disk below <working_dir>/.metrica, and    *)
(* the handlers that read and write it side by side:                       *)
(*                                                                         *)
(*   runs/<run_id>.json      one record per answered run                   *)
(*   derived/<run_id>.csv    the table a transform produced                *)
(*   project.json            the manifest of the project                   *)
(*                                                                         *)
(* A worker of the HTTP server handles one request.  fit_model and         *)
(* transform go through the Julia daemon, which serves one command at a    *)
(* time, and only then write their record; rerun_task reads a record and   *)
(* starts the same work again under a new id.  Nothing locks a file and    *)
(* std::fs::write is two steps: it truncates the file, then writes it.     *)
(*                                                                         *)
(* A table is the sequence of the operations that made it out of the       *)
(* source data set, which nobody changes.                                  *)
(***************************************************************************)
EXTENDS Integers, Sequences, FiniteSets

CONSTANTS
  Workers,       (* requests handled at the same time                      *)
  Operations,    (* operations a transform may ask for                     *)
  Manifests,     (* project manifests a client may save                    *)
  ManifestSize,  (* their length when written, in blocks                   *)
  NoManifest,    (* no manifest                                            *)
  MaxTasks,      (* tasks clients submit: bounds the model                 *)
  MaxClock,      (* milliseconds that pass: bounds the model               *)
  MaxCrashes,    (* crashes of the runtime: bounds the model               *)
  SpacedReruns   (* no two reruns are asked for in the same millisecond    *)

ASSUME StoreAssumption ==
  /\ MaxTasks \in Nat /\ MaxClock \in Nat /\ MaxCrashes \in Nat
  /\ ManifestSize \in [Manifests -> Nat \ {0}] /\ NoManifest \notin Manifests
  /\ SpacedReruns \in BOOLEAN /\ "fit" \notin Operations

VARIABLES
  worker,     \* per worker: [pc, run, manifest]
  jobs,       \* commands handed to Julia, in order: [by, run, wanted]
  writing,    \* the daemon is inside CSV.write for the first of them
  records,    \* the files runs/<id>.json
  derived,    \* the files derived/<id>.csv
  project,    \* the file project.json
  answered,   \* the tables clients were told about: run id -> table
  saved,      \* a save_project was answered with success
  tasks,      \* tasks submitted so far; a task id is a fresh UUID
  clock,      \* current_timestamp_string
  lastRerun,  \* when the last rerun was asked for
  crashes

diskVars  == <<records, derived, project>>
boundVars == <<tasks, clock, lastRerun, crashes>>
vars == <<worker, jobs, writing, diskVars, answered, saved, boundVars>>

-----------------------------------------------------------------------------
(* Files.  A file is a sequence of blocks; each block knows the value it   *)
(* is a part of, its place in it and how many blocks the value has.        *)
Absent    == [exists |-> FALSE, blocks |-> <<>>]
Truncated == [exists |-> TRUE,  blocks |-> <<>>]
Blocks(v, n) == [i \in 1..n |-> <<v, i, n>>]
Whole(v, n)  == [exists |-> TRUE, blocks |-> Blocks(v, n)]

(* write_all at offset 0 of a file somebody else may have filled since it  *)
(* was truncated: what is longer than the new value stays.                 *)
Written(f, v, n) ==
  [exists |-> TRUE,
   blocks |-> Blocks(v, n) \o SubSeq(f.blocks, n + 1, Len(f.blocks))]

(* read_json_file takes exactly one whole value.  CSV.read would take a    *)
(* part of a table for a shorter one: OnlyWholeTablesAreUsed says that no  *)
(* run is ever given one, so Readable may stand for both.                  *)
Value(f) == f.blocks[1][1]
Readable(f) == f.blocks # <<>> /\ f.blocks = Blocks(Value(f), f.blocks[1][3])

(* Runs.                                                                   *)
TaskIds  == {"task"} \X (1..MaxTasks)
RerunIds == {"rerun"} \X (0..MaxClock)
Ids == TaskIds \cup RerunIds
NoId == <<>>   \* as "of": not a rerun; as "input": the source data set

Steps  == Operations \cup {"fit"}
Tables == Seq(Steps)
Run == [id : Ids, step : Steps, input : Ids \cup {NoId}, of : Ids \cup {NoId},
        status : {"open", "success", "error"}, result : Tables]
NewRun(id, step, input, of) ==
  [id |-> id, step |-> step, input |-> input, of |-> of, status |-> "open", result |-> <<>>]

Resting == [pc |-> "idle", run |-> NewRun(NoId, "fit", NoId, NoId), manifest |-> NoManifest]

(* An error record has no result_summary and is shorter.                   *)
RecordSize(run) == IF run.status = "success" THEN 2 ELSE 1

(* derived/<task_id>.csv                                                   *)
OutputOfOriginal(run) == IF run.of = NoId THEN run.id ELSE run.of   \* mutant
Output(run) == run.id

(* The table at a path, as Julia reads it when it starts.                  *)
TableExists(path)   == IF path = NoId THEN TRUE ELSE derived[path].exists
TableReadable(path) == IF path = NoId THEN TRUE ELSE Readable(derived[path])
TableAt(path)       == IF path = NoId THEN <<>> ELSE Value(derived[path])

Init ==
  /\ worker = [w \in Workers |-> Resting]
  /\ jobs = <<>> /\ writing = FALSE
  /\ records = [id \in Ids |-> Absent] /\ derived = [id \in Ids |-> Absent]
  /\ project = Absent
  /\ answered = {} /\ saved = FALSE
  /\ tasks = 0 /\ clock = 0 /\ lastRerun = -1 /\ crashes = 0

-----------------------------------------------------------------------------
(* transform_handler, handle_model_request: up to the dispatch.            *)

Dispatch(w, run) ==
  /\ worker' = [worker EXCEPT ![w].pc = "julia", ![w].run = run]
  /\ jobs' = Append(jobs, [by |-> w, run |-> run, wanted |-> TRUE])

(* A client uses the source or a table it was told about.                  *)
Submit(w) ==
  /\ worker[w].pc = "idle" /\ tasks < MaxTasks
  /\ tasks' = tasks + 1
  /\ \E step \in Steps, input \in answered \cup {NoId} :
       Dispatch(w, NewRun(<<"task", tasks + 1>>, step, input, NoId))
  /\ UNCHANGED <<writing, diskVars, answered, saved, clock, lastRerun, crashes>>

(* rerun_task_handler: a readable record whose data set is still there.    *)
ReusedRunId(id) == id   \* mutant
NewRunId(id) == <<"rerun", clock>>
RerunFromSource(run) == NoId   \* mutant
RerunInput(run) == run.input

Rerun(w) ==
  /\ worker[w].pc = "idle"
  /\ SpacedReruns => lastRerun < clock
  /\ \E id \in Ids :
       LET run == Value(records[id]) IN
         /\ Readable(records[id]) /\ TableExists(run.input)
         /\ Dispatch(w, NewRun(NewRunId(id), run.step, RerunInput(run), id))
  /\ lastRerun' = clock
  /\ UNCHANGED <<writing, diskVars, answered, saved, tasks, clock, crashes>>

(* The client hangs up, the request times out, or its daemon dies before   *)
(* it began: no record is written, the command stays where it is.          *)
Unwanted(w) ==
  [i \in 1..Len(jobs) |-> IF jobs[i].by = w THEN [jobs[i] EXCEPT !.wanted = FALSE]
                                            ELSE jobs[i]]
Leave(w) ==
  /\ worker[w].pc = "julia"
  /\ worker' = [worker EXCEPT ![w] = Resting]
  /\ jobs' = Unwanted(w)
  /\ UNCHANGED <<writing, diskVars, answered, saved, boundVars>>

-----------------------------------------------------------------------------
(* The daemon: operate_chain or fit for the first command.                 *)

(* The reply reaches the handler that still waits for it.                  *)
Deliver(status, result) ==
  LET job == Head(jobs) IN
    worker' = IF job.wanted
              THEN [worker EXCEPT ![job.by].pc = "record", ![job.by].run =
                      [job.run EXCEPT !.status = status, !.result = result]]
              ELSE worker

(* The reply to a command that failed is an answer like any other.         *)
AnswersError ==
  /\ Deliver("error", <<>>)
  /\ jobs' = Tail(jobs) /\ writing' = FALSE
  /\ UNCHANGED <<diskVars, answered, saved, boundVars>>

(* A step of the chain fails, the formula is wrong, a file cannot be opened. *)
ChainFails == jobs # <<>> /\ ~writing /\ AnswersError

(* CSV.write throws with the output open: what it wrote until then, which  *)
(* Truncated stands for, stays beside the answer.                          *)
OutputFails == writing /\ AnswersError

FitSucceeds ==
  /\ jobs # <<>> /\ Head(jobs).run.step = "fit"
  /\ TableReadable(Head(jobs).run.input)
  /\ Deliver("success", Append(TableAt(Head(jobs).run.input), "fit"))
  /\ jobs' = Tail(jobs)
  /\ UNCHANGED <<writing, diskVars, answered, saved, boundVars>>

(* Every step of the chain went well: CSV.write opens the output ...       *)
ChainSucceeds ==
  /\ jobs # <<>> /\ ~writing /\ Head(jobs).run.step # "fit"
  /\ TableReadable(Head(jobs).run.input)
  /\ writing' = TRUE
  /\ jobs' = [jobs EXCEPT ![1].run.result =
                Append(TableAt(Head(jobs).run.input), Head(jobs).run.step)]
  /\ derived' = [derived EXCEPT ![Output(Head(jobs).run)] = Truncated]
  /\ UNCHANGED <<worker, records, project, answered, saved, boundVars>>

(* ... and fills it, then the answer goes out.                             *)
OutputWritten ==
  /\ writing /\ writing' = FALSE
  /\ LET run == Head(jobs).run IN
       /\ derived' = [derived EXCEPT ![Output(run)] = Written(@, run.result, 1)]
       /\ Deliver("success", run.result)
  /\ jobs' = Tail(jobs)
  /\ UNCHANGED <<records, project, answered, saved, boundVars>>

(* The daemon dies and takes the command with it; send_request returns an  *)
(* error, and a half-written output stays.                                 *)
DaemonDies ==
  /\ jobs # <<>>
  /\ worker' = IF Head(jobs).wanted THEN [worker EXCEPT ![Head(jobs).by] = Resting]
                                    ELSE worker
  /\ jobs' = Tail(jobs) /\ writing' = FALSE
  /\ UNCHANGED <<diskVars, answered, saved, boundVars>>

-----------------------------------------------------------------------------
(* persist_run_record and the answer, which names the output file of a     *)
(* failed transform too; the client takes it from a success only.          *)

TellsOfAny(w) ==   \* mutant: the artifacts of an error are taken as well
  /\ worker' = [worker EXCEPT ![w] = Resting]
  /\ answered' = IF worker[w].run.step # "fit"
                 THEN answered \cup {worker[w].run.id} ELSE answered

Tell(w) ==
  /\ worker' = [worker EXCEPT ![w] = Resting]
  /\ answered' = IF worker[w].run.status = "success" /\ worker[w].run.step # "fit"
                 THEN answered \cup {worker[w].run.id} ELSE answered

OpenRecord(w) ==
  /\ worker[w].pc = "record"
  /\ records' = [records EXCEPT ![worker[w].run.id] = Truncated]
  /\ worker' = [worker EXCEPT ![w].pc = "recording"]
  /\ UNCHANGED <<jobs, writing, derived, project, answered, saved, boundVars>>

WriteRecord(w) ==
  /\ worker[w].pc = "recording"
  /\ records' = [records EXCEPT ![worker[w].run.id] =
                   Written(@, worker[w].run, RecordSize(worker[w].run))]
  /\ Tell(w)
  /\ UNCHANGED <<jobs, writing, derived, project, saved, boundVars>>

(* The result of persist_run_record is ignored: the answer is the same.    *)
RecordFails(w) ==
  /\ worker[w].pc \in {"record", "recording"}
  /\ Tell(w)
  /\ UNCHANGED <<jobs, writing, diskVars, saved, boundVars>>

(* save_project_handler.                                                   *)
SaveProject(w) ==
  /\ worker[w].pc = "idle"
  /\ \E m \in Manifests :
       worker' = [worker EXCEPT ![w].pc = "saving", ![w].manifest = m]
  /\ project' = Truncated
  /\ UNCHANGED <<jobs, writing, records, derived, answered, saved, boundVars>>

WriteManifest(w) ==
  /\ worker[w].pc = "saving"
  /\ project' = Written(project, worker[w].manifest, ManifestSize[worker[w].manifest])
  /\ saved' = TRUE
  /\ worker' = [worker EXCEPT ![w] = Resting]
  /\ UNCHANGED <<jobs, writing, records, derived, answered, boundVars>>

-----------------------------------------------------------------------------
(* The runtime is killed and started again; a daemon finishes the command  *)
(* it is writing the output of.                                            *)
Crash ==
  /\ crashes < MaxCrashes /\ crashes' = crashes + 1
  /\ worker' = [w \in Workers |-> Resting]
  /\ jobs' = IF writing THEN <<[Head(jobs) EXCEPT !.wanted = FALSE]>> ELSE <<>>
  /\ UNCHANGED <<writing, diskVars, answered, saved, tasks, clock, lastRerun>>

Tick ==
  /\ clock < MaxClock /\ clock' = clock + 1
  /\ UNCHANGED <<worker, jobs, writing, diskVars, answered, saved, tasks, lastRerun, crashes>>

Handler(w) ==
  \/ Submit(w) \/ Rerun(w) \/ Leave(w)
  \/ OpenRecord(w) \/ WriteRecord(w) \/ RecordFails(w)
  \/ SaveProject(w) \/ WriteManifest(w)

Daemon ==
  \/ ChainFails \/ FitSucceeds
  \/ ChainSucceeds \/ OutputWritten \/ OutputFails
  \/ DaemonDies

Next == (\E w \in Workers : Handler(w)) \/ Daemon \/ Crash \/ Tick

Spec == Init /\ [][Next]_vars

-----------------------------------------------------------------------------
(* Properties.                                                             *)

(* Types, and who waits for whom: a worker waits for Julia exactly as long *)
(* as one command of its own is still wanted.                              *)
Commands == {i \in 1..Len(jobs) : jobs[i].wanted}
TypeOK ==
  /\ \A w \in Workers :
       /\ worker[w].pc \in {"idle", "julia", "record", "recording", "saving"}
       /\ worker[w].pc \in {"julia", "record", "recording"} => worker[w].run \in Run
       /\ worker[w].pc = "saving" => worker[w].manifest \in Manifests
       /\ Cardinality({i \in Commands : jobs[i].by = w}) =
            IF worker[w].pc = "julia" THEN 1 ELSE 0
  /\ \A i \in 1..Len(jobs) : jobs[i].run \in Run
  /\ writing => jobs # <<>> /\ Head(jobs).run.step # "fit"
  /\ \A id \in Ids : Readable(records[id]) => Value(records[id]) \in Run
  /\ \A id \in Ids : Readable(derived[id]) => Value(derived[id]) \in Tables
  /\ answered \subseteq Ids /\ saved \in BOOLEAN

Record(id) == Value(records[id])
Recorded(id) == Readable(records[id])
Succeeded(id) == Recorded(id) /\ Record(id).status = "success"

(* A record on disk describes what is on disk: the table of a transform    *)
(* recorded as successful is complete and is the one its summary tells,    *)
(* although daemon and runtime write their files apart and may die between.*)
RecordTellsTheTable ==
  \A id \in Ids : Succeeded(id) /\ Record(id).step # "fit" =>
                    derived[id] = Whole(Record(id).result, 1)

(* A failed transform may leave a part of its table behind, under the name *)
(* its answer and its record give, and a daemon that died leaves one too:  *)
(* no failed run has a whole table, and no run that is queued, at work or  *)
(* on record was given a table that is not whole.                          *)
Sound(run) ==
  /\ run.status = "error" => ~Readable(derived[run.id])
  /\ TableReadable(run.input)
OnlyWholeTablesAreUsed ==
  /\ \A i \in 1..Len(jobs) : Sound(jobs[i].run)
  /\ \A w \in Workers : worker[w].pc \in {"record", "recording"} => Sound(worker[w].run)
  /\ \A id \in Ids : Recorded(id) => Sound(Record(id))

(* Rerunning a recorded run gives the result it gave the first time, over  *)
(* any number of runs built on each other's tables.                        *)
RerunReproduces ==
  \A id \in Ids : Succeeded(id) /\ Record(id).of # NoId =>
    (Succeeded(Record(id).of) => Record(id).result = Record(Record(id).of).result)

(* A run record is history: no later run, rerun or crash changes it.       *)
RecordsAreKept ==
  [][\A id \in Ids : Recorded(id) => records'[id] = records[id]]_vars

(* s3-reproducibility-and-reporting.md 41: a project once saved can be     *)
(* opened again.                                                           *)
SavedProjectOpens ==
  saved /\ (\A w \in Workers : worker[w].pc # "saving") => Readable(project)

=============================================================================
