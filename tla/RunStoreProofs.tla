--------------------------- MODULE RunStoreProofs ---------------------------
(***************************************************************************)
(* What the runtime keeps on disk, for any number of workers, runs, reruns *)
(* and crashes, as long as no two reruns fall into one millisecond: a run  *)
(* id is in one place at a time, so a file of a run is created once,       *)
(* filled once and never touched again.                                    *)
(***************************************************************************)
EXTENDS RunStore, SequenceTheorems, TLAPS

Job    == [by : Workers, run : Run, wanted : BOOLEAN]
Idling == NewRun(NoId, "fit", NoId, NoId)
Hand   == [pc : {"idle", "julia", "record", "recording", "saving"},
           run : Run \cup {Idling}, manifest : Manifests \cup {NoManifest}]

Types ==
  /\ jobs \in Seq(Job) /\ writing \in BOOLEAN
  /\ worker \in [Workers -> Hand]
  /\ answered \subseteq Ids
  /\ tasks \in 0..MaxTasks /\ clock \in 0..MaxClock /\ lastRerun \in -1..MaxClock

(* A file is not there, was just opened, or holds one whole value.         *)
RecordFile(id) ==
  \/ records[id] \in {Absent, Truncated}
  \/ /\ Value(records[id]) \in Run /\ Value(records[id]).id = id
     /\ records[id] = Whole(Value(records[id]), RecordSize(Value(records[id])))
TableFile(id) ==
  \/ derived[id] \in {Absent, Truncated}
  \/ Value(derived[id]) \in Tables /\ derived[id] = Whole(Value(derived[id]), 1)
Files ==
  /\ DOMAIN records = Ids /\ DOMAIN derived = Ids
  /\ \A id \in Ids : RecordFile(id) /\ TableFile(id)

(* Ids are given out in order: <<"task", n>> by a counter, <<"rerun", t>>  *)
(* by the clock.                                                           *)
Used(id) == IF id[1] = "task" THEN id[2] <= tasks ELSE id[2] <= lastRerun
DiskUsed == \A id \in Ids : records[id] # Absent \/ derived[id] # Absent => Used(id)

(* The life of an id: in the queue without a file, except for the output   *)
(* the daemon is writing; then in one worker's hands; then on disk.        *)
JobsFresh ==
  \A i \in 1..Len(jobs) :
    /\ Used(jobs[i].run.id) /\ records[jobs[i].run.id] = Absent
    /\ derived[jobs[i].run.id] = IF writing /\ i = 1 THEN Truncated ELSE Absent
JobsApart ==
  \A i, j \in 1..Len(jobs) : jobs[i].run.id = jobs[j].run.id => i = j
Holds(w) == worker[w].pc \in {"record", "recording"}
HandsFresh ==
  \A w \in Workers : Holds(w) =>
    /\ worker[w].run \in Run /\ Used(worker[w].run.id)
    /\ records[worker[w].run.id] = IF worker[w].pc = "record" THEN Absent ELSE Truncated
    /\ \A i \in 1..Len(jobs) : jobs[i].run.id # worker[w].run.id
HandsApart ==
  \A v, w \in Workers : Holds(v) /\ Holds(w) /\ worker[v].run.id = worker[w].run.id => v = w

(* The result of a run is what its step makes of the table it names, which *)
(* is whole and stays.                                                     *)
FollowsInput(run) ==
  TableReadable(run.input) /\ run.result = Append(TableAt(run.input), run.step)
Tells(run) ==
  /\ run.status = "success" => FollowsInput(run)
  /\ run.status = "success" /\ run.step # "fit" => derived[run.id] = Whole(run.result, 1)
  /\ run.status = "error" => derived[run.id] \in {Absent, Truncated}
(* A run was given a whole table, and a rerun the step and the input of a  *)
(* run that is on record.                                                  *)
Grounded(run) ==
  /\ TableReadable(run.input)
  /\ run.of # NoId => /\ Recorded(run.of)
                      /\ run.step = Record(run.of).step /\ run.input = Record(run.of).input

WritingOK == writing => jobs # <<>> /\ jobs[1].run.step # "fit" /\ FollowsInput(jobs[1].run)
JobsGrounded == \A i \in 1..Len(jobs) : Grounded(jobs[i].run)
HandsTell ==
  \A w \in Workers : Holds(w) => Tells(worker[w].run) /\ Grounded(worker[w].run)
DiskTells ==
  \A id \in Ids : Recorded(id) => Tells(Record(id)) /\ Grounded(Record(id))

Life == DiskUsed /\ JobsFresh /\ JobsApart /\ HandsFresh /\ HandsApart
AnsweredWhole == \A id \in answered : Readable(derived[id])
Story == WritingOK /\ JobsGrounded /\ HandsTell /\ DiskTells /\ AnsweredWhole
StoreInv == Types /\ Files /\ Life /\ Story

-----------------------------------------------------------------------------
LEMMA JobRuns ==
  ASSUME Types
  PROVE  \A i \in 1..Len(jobs) :
           jobs[i] \in Job /\ jobs[i].run \in Run /\ jobs[i].run.id \in Ids
<1>1. \A i \in 1..Len(jobs) : jobs[i] \in Job
  BY DEF Types
<1>2. \A i \in 1..Len(jobs) : jobs[i].run \in Run
  BY <1>1 DEF Job
<1> QED
  BY <1>1, <1>2 DEF Run

-----------------------------------------------------------------------------
(* Files.                                                                  *)

LEMMA NotReadable == ~Readable(Absent) /\ ~Readable(Truncated)
  BY DEF Readable, Absent, Truncated

LEMMA WholeFile ==
  ASSUME NEW v, NEW n \in Nat \ {0}
  PROVE  /\ Readable(Whole(v, n)) /\ Value(Whole(v, n)) = v /\ Whole(v, n).exists
         /\ Whole(v, n) # Absent /\ Whole(v, n) # Truncated
<1>1. Blocks(v, n) \in Seq({<<v, i, n>> : i \in 1..n}) /\ Len(Blocks(v, n)) = n
  BY DEF Blocks
<1>2. Blocks(v, n)[1] = <<v, 1, n>>
  BY DEF Blocks
<1>3. Blocks(v, n) # <<>>
  BY <1>1
<1> QED
  BY <1>2, <1>3 DEF Whole, Readable, Value, Absent, Truncated

(* An opened file takes the value as it is.                                *)
LEMMA WrittenWhole ==
  ASSUME NEW v, NEW n \in Nat \ {0}
  PROVE  Written(Truncated, v, n) = Whole(v, n)
<1>1. Blocks(v, n) \in Seq({<<v, i, n>> : i \in 1..n})
  BY DEF Blocks
<1>2. SubSeq(<<>>, n + 1, Len(<<>>)) = <<>>
  BY SubSeqProperties, EmptySeq
<1>3. Blocks(v, n) \o <<>> = Blocks(v, n)
  BY <1>1, ConcatEmptySeq
<1> QED
  BY <1>2, <1>3 DEF Written, Truncated, Whole

LEMMA RecordSizes == \A run : RecordSize(run) \in Nat \ {0}
  BY DEF RecordSize

(* Whole is what is readable.                                              *)
LEMMA ReadableFiles ==
  ASSUME Files, NEW id \in Ids
  PROVE  /\ Recorded(id) <=> records[id] \notin {Absent, Truncated}
         /\ Recorded(id) => Record(id) \in Run /\ Record(id).id = id
         /\ Readable(derived[id]) <=> derived[id] \notin {Absent, Truncated}
         /\ Readable(derived[id]) => Value(derived[id]) \in Tables
  BY NotReadable, WholeFile, RecordSizes DEF Files, RecordFile, TableFile, Recorded, Record

(* What is on disk stays: what was said about it stays true.               *)
DiskGrows ==
  /\ \A id \in Ids : Recorded(id) => records'[id] = records[id]
  /\ \A id \in Ids : Readable(derived[id]) => derived'[id] = derived[id]

LEMMA SaidStays ==
  ASSUME DiskGrows
  PROVE  \A run \in Run : /\ FollowsInput(run) => FollowsInput(run)'
                          /\ Grounded(run) => Grounded(run)'
                          /\ Tells(run) /\ derived'[run.id] = derived[run.id] => Tells(run)'
<1> SUFFICES ASSUME NEW run \in Run
             PROVE  /\ FollowsInput(run) => FollowsInput(run)'
                    /\ Grounded(run) => Grounded(run)'
                    /\ Tells(run) /\ derived'[run.id] = derived[run.id] => Tells(run)'
  OBVIOUS
<1>1. FollowsInput(run) => FollowsInput(run)'
  BY DEF FollowsInput, TableReadable, TableAt, Run, DiskGrows
<1>2. Grounded(run) => Grounded(run)'
  BY DEF Grounded, TableReadable, Recorded, Record, Run, DiskGrows
<1>3. Tells(run) /\ derived'[run.id] = derived[run.id] => Tells(run)'
  BY <1>1 DEF Tells
<1> QED
  BY <1>1, <1>2, <1>3

LEMMA AnsweredStay ==
  ASSUME DiskGrows, \A id \in answered' : id \in Ids /\ Readable(derived[id])
  PROVE  AnsweredWhole'
  BY DEF DiskGrows, AnsweredWhole

-----------------------------------------------------------------------------
(* Steps that only let go: the disk is as it was, nobody takes a run into  *)
(* hands, and the queue loses commands at its end or callers.              *)

LetsGo ==
  /\ Len(jobs') <= Len(jobs) /\ \A i \in 1..Len(jobs') : jobs'[i].run = jobs[i].run
  /\ \A w \in Workers : Holds(w)' => Holds(w) /\ worker'[w] = worker[w]
  /\ UNCHANGED <<records, derived, writing>>
  /\ \A id \in answered' : Readable(derived[id])
  /\ writing => jobs' # <<>>
  /\ \A id \in Ids : Used(id) => Used(id)'

LEMMA LetsGoStep ==
  ASSUME StoreInv, LetsGo, Types'
  PROVE  StoreInv'
<1> USE DEF StoreInv, Life, Story
<1>1. Files'
  BY DEF Files, RecordFile, TableFile, LetsGo
<1>2. DiskGrows
  BY DEF DiskGrows, LetsGo
<1>3. DiskUsed'
  BY DEF DiskUsed, LetsGo
<1>4. \A i \in 1..Len(jobs') : i \in 1..Len(jobs) /\ jobs[i].run \in Run /\ jobs[i].run.id \in Ids
  <2>1. Len(jobs') \in Nat /\ Len(jobs) \in Nat /\ Len(jobs') <= Len(jobs)
    BY DEF LetsGo, Types
  <2> QED
    BY <2>1, JobRuns
<1>5. \A w \in Workers : Holds(w) => worker[w].run \in Run /\ worker[w].run.id \in Ids
  BY DEF HandsFresh, Run
<1>6. JobsFresh' /\ JobsApart'
  <2>1. \A i \in 1..Len(jobs') :
          /\ i \in 1..Len(jobs) /\ jobs'[i].run = jobs[i].run
          /\ Used(jobs[i].run.id) /\ Used(jobs[i].run.id)'
    BY <1>4 DEF JobsFresh, LetsGo
  <2>2. JobsFresh'
    BY <2>1 DEF JobsFresh, LetsGo
  <2>3. JobsApart'
    BY <2>1 DEF JobsApart
  <2> QED
    BY <2>2, <2>3
<1>7. HandsFresh'
  <2>1. ASSUME NEW w \in Workers, Holds(w)'
        PROVE  /\ worker'[w] = worker[w] /\ worker[w].run \in Run /\ Used(worker[w].run.id)'
               /\ records[worker[w].run.id]
                    = IF worker[w].pc = "record" THEN Absent ELSE Truncated
               /\ \A i \in 1..Len(jobs) : jobs[i].run.id # worker[w].run.id
    BY <2>1, <1>5 DEF HandsFresh, LetsGo
  <2> QED
    BY <1>4, <2>1 DEF HandsFresh, LetsGo
<1>8. HandsApart'
  BY DEF HandsApart, LetsGo
<1>9. WritingOK'
  <2>1. writing' => jobs'[1].run = jobs[1].run /\ jobs[1].run \in Run
    BY <1>4 DEF LetsGo, Types
  <2> QED
    BY <2>1, <1>2, SaidStays DEF WritingOK, LetsGo
<1>10. JobsGrounded'
  BY <1>2, <1>4, SaidStays DEF JobsGrounded, LetsGo
<1>11. HandsTell'
  BY <1>2, <1>5, SaidStays DEF HandsTell, LetsGo
<1>12. DiskTells'
  BY <1>2, SaidStays, ReadableFiles DEF DiskTells, LetsGo, Recorded, Record
<1>13. AnsweredWhole'
  BY DEF AnsweredWhole, LetsGo
<1> QED
  BY <1>1, <1>3, <1>6, <1>7, <1>8, <1>9, <1>10, <1>11, <1>12, <1>13

(* A new run goes to the end of the queue under an id nobody had.          *)
LEMMA DispatchStep ==
  ASSUME StoreInv, NEW w \in Workers, NEW run \in Run, Dispatch(w, run), Types',
         ~Used(run.id), Used(run.id)', \A id \in Ids : Used(id) => Used(id)',
         Grounded(run), UNCHANGED <<records, derived, writing, answered>>
  PROVE  StoreInv'
<1> USE DEF StoreInv, Life, Story
<1> DEFINE job == [by |-> w, run |-> run, wanted |-> TRUE]
<1>a. run.id \in Ids
  BY DEF Run
<1>1. Files'
  BY DEF Files, RecordFile, TableFile
<1>2. DiskGrows
  BY DEF DiskGrows
<1>3. DiskUsed'
  BY DEF DiskUsed
<1>4. /\ Len(jobs') = Len(jobs) + 1 /\ Len(jobs) \in Nat
      /\ \A i \in 1..Len(jobs) : jobs'[i] = jobs[i]
      /\ jobs'[Len(jobs) + 1].run = run
  <2>1. jobs \in Seq(Job) /\ job \in Job /\ jobs' = Append(jobs, job)
    BY DEF Types, Job, Dispatch
  <2>2. /\ Len(jobs') = Len(jobs) + 1 /\ Len(jobs) \in Nat
        /\ \A i \in 1..Len(jobs) : jobs'[i] = jobs[i]
        /\ jobs'[Len(jobs) + 1] = job
    BY <2>1, AppendProperties
  <2> QED
    BY <2>2
<1>5. \A i \in 1..Len(jobs) : jobs[i].run \in Run /\ jobs[i].run.id \in Ids
  BY JobRuns
<1>6. \A i \in 1..Len(jobs') : i \in 1..Len(jobs) \/ i = Len(jobs) + 1
  BY <1>4
<1>7. \A v \in Workers : Holds(v)' => Holds(v) /\ worker'[v] = worker[v]
  BY DEF Dispatch, Types, Hand, Holds
<1>8. \A v \in Workers : Holds(v) => worker[v].run \in Run /\ worker[v].run.id \in Ids
  BY DEF HandsFresh, Run
<1>9. JobsFresh'
  <2>1. records[run.id] = Absent /\ derived[run.id] = Absent
    BY <1>a DEF DiskUsed
  <2>2. writing => Len(jobs) + 1 # 1
    BY <1>4 DEF WritingOK, Types
  <2> QED
    BY <1>4, <1>5, <1>6, <2>1, <2>2 DEF JobsFresh
<1>10. JobsApart'
  BY <1>4, <1>6 DEF JobsApart, JobsFresh
<1>11. HandsFresh'
  BY <1>4, <1>6, <1>7, <1>8 DEF HandsFresh
<1>12. HandsApart'
  BY <1>7 DEF HandsApart
<1>13. WritingOK'
  <2>1. writing => jobs' # <<>> /\ jobs'[1] = jobs[1] /\ jobs[1].run \in Run
    BY <1>4, <1>5 DEF WritingOK, Types
  <2> QED
    BY <2>1, <1>2, SaidStays DEF WritingOK
<1>14. JobsGrounded'
  <2>1. Grounded(run)'
    BY <1>2, SaidStays
  <2> QED
    BY <2>1, <1>2, <1>4, <1>5, <1>6, SaidStays DEF JobsGrounded
<1>15. HandsTell'
  BY <1>2, <1>7, <1>8, SaidStays DEF HandsTell
<1>16. DiskTells'
  BY <1>2, SaidStays, ReadableFiles DEF DiskTells, Recorded, Record
<1>17. AnsweredWhole'
  BY DEF AnsweredWhole
<1> QED
  BY <1>1, <1>3, <1>9, <1>10, <1>11, <1>12, <1>13, <1>14, <1>15, <1>16, <1>17

(* The first command leaves the queue.  If its handler still waits and the *)
(* daemon lives, it takes the run with its result; only the output of that *)
(* run was touched.                                                        *)
Leaves(run) ==
  /\ jobs # <<>> /\ jobs' = Tail(jobs) /\ writing' = FALSE
  /\ run \in Run /\ run.id = jobs[1].run.id
  /\ Grounded(run)
  /\ \/ \A w \in Workers : Holds(w)' => Holds(w) /\ worker'[w] = worker[w]
     \/ \E w \in Workers :
          /\ worker'[w].pc = "record" /\ worker'[w].run = run
          /\ \A v \in Workers \ {w} : worker'[v] = worker[v]
          /\ Tells(run)'
  /\ records' = records /\ DOMAIN derived' = Ids
  /\ \A id \in Ids : id # jobs[1].run.id => derived'[id] = derived[id]
  /\ TableFile(run.id)'
  /\ UNCHANGED <<tasks, lastRerun, answered>>

LEMMA LeavesStep ==
  ASSUME StoreInv, NEW run, Leaves(run), Types'
  PROVE  StoreInv'
<1> USE DEF StoreInv, Life, Story
<1> DEFINE first == jobs[1].run.id
<1>1. /\ Len(jobs) \in Nat /\ Len(jobs) >= 1 /\ Len(jobs') = Len(jobs) - 1
      /\ \A i \in 1..Len(jobs') : i + 1 \in 1..Len(jobs) /\ jobs'[i] = jobs[i + 1]
  BY HeadTailProperties DEF Types, Leaves
<1>2. first \in Ids /\ ~Recorded(first) /\ ~Readable(derived[first]) /\ Used(first)
  <2>1. first \in Ids
    BY <1>1, JobRuns
  <2>2. records[first] = Absent /\ derived[first] \in {Absent, Truncated} /\ Used(first)
    BY <1>1 DEF JobsFresh
  <2> QED
    BY <2>1, <2>2, NotReadable DEF Recorded
<1>3. DiskGrows
  BY <1>2 DEF DiskGrows, Leaves
<1>4. Files'
  <2>1. \A id \in Ids : RecordFile(id)'
    BY DEF Files, RecordFile, Leaves
  <2>2. \A id \in Ids : TableFile(id)'
    <3> SUFFICES ASSUME NEW id \in Ids
                 PROVE  TableFile(id)'
      OBVIOUS
    <3>1. CASE id = run.id
      BY <3>1 DEF Leaves, TableFile
    <3>2. CASE id # run.id
      BY <3>2 DEF Leaves, Files, TableFile
    <3> QED
      BY <3>1, <3>2
  <2> QED
    BY <2>1, <2>2 DEF Files, Leaves
<1>5. DiskUsed'
  <2>1. \A id \in Ids : Used(id)' <=> Used(id)
    BY DEF Used, Leaves
  <2> QED
    BY <1>2, <2>1 DEF DiskUsed, Leaves
<1>6. JobsApart'
  BY <1>1 DEF JobsApart
<1>7. \A i \in 1..Len(jobs') : jobs'[i].run \in Run /\ jobs'[i].run.id \in Ids
                               /\ jobs'[i].run.id # first
  BY <1>1, JobRuns DEF JobsApart
<1>8. JobsFresh'
  <2> SUFFICES ASSUME NEW i \in 1..Len(jobs')
               PROVE  /\ Used(jobs[i].run.id)' /\ records'[jobs'[i].run.id] = Absent
                      /\ derived'[jobs'[i].run.id] = Absent
    BY DEF JobsFresh, Leaves
  <2>1. /\ Used(jobs[i + 1].run.id) /\ records[jobs[i + 1].run.id] = Absent
        /\ derived[jobs[i + 1].run.id] = Absent
    BY <1>1 DEF JobsFresh
  <2>2. Used(jobs[i].run.id)'
    BY <1>1, <2>1 DEF Used, Leaves
  <2> QED
    BY <1>1, <1>7, <2>1, <2>2 DEF Leaves
<1>9. \A w \in Workers : Holds(w)' =>
        \/ Holds(w) /\ worker'[w] = worker[w]
        \/ /\ worker'[w].pc = "record" /\ worker'[w].run = run /\ Tells(run)'
           /\ \A v \in Workers \ {w} : worker'[v] = worker[v]
  BY DEF Leaves, Holds
<1>10. \A w \in Workers : Holds(w) => /\ worker[w].run \in Run /\ worker[w].run.id \in Ids
                                      /\ worker[w].run.id # first
  BY <1>1 DEF HandsFresh, Run
<1>11. HandsFresh'
  <2> SUFFICES ASSUME NEW w \in Workers, Holds(w)'
               PROVE  /\ worker'[w].run \in Run /\ Used(worker[w].run.id)'
                      /\ records'[worker'[w].run.id]
                           = IF worker'[w].pc = "record" THEN Absent ELSE Truncated
                      /\ \A i \in 1..Len(jobs') : jobs'[i].run.id # worker'[w].run.id
    BY DEF HandsFresh
  <2>1. \A id : Used(id)' <=> Used(id)
    BY DEF Used, Leaves
  <2>2. CASE Holds(w) /\ worker'[w] = worker[w]
    BY <1>1, <2>2 DEF HandsFresh, Used, Leaves
  <2>3. CASE worker'[w].pc = "record" /\ worker'[w].run = run
    <3>1. records[first] = Absent
      BY <1>1 DEF JobsFresh
    <3> QED
      BY <1>2, <1>7, <2>3, <3>1 DEF Used, Leaves
  <2> QED
    BY <1>9, <2>2, <2>3
<1>12. HandsApart'
  <2> SUFFICES ASSUME NEW v \in Workers, NEW w \in Workers, Holds(v)', Holds(w)', v # w,
                      worker'[v].run.id = worker'[w].run.id
               PROVE  FALSE
    BY DEF HandsApart
  <2>1. CASE worker'[v] = worker[v] /\ worker'[w] = worker[w] /\ Holds(v) /\ Holds(w)
    BY <2>1 DEF HandsApart
  <2>2. CASE worker'[v].run = run /\ worker'[w] = worker[w] /\ Holds(w)
    BY <1>10, <2>2 DEF Leaves
  <2>3. CASE worker'[w].run = run /\ worker'[v] = worker[v] /\ Holds(v)
    BY <1>10, <2>3 DEF Leaves
  <2> QED
    BY <1>9, <2>1, <2>2, <2>3 DEF Holds
<1>13. WritingOK'
  BY DEF WritingOK, Leaves
<1>14. JobsGrounded'
  BY <1>1, <1>3, <1>7, SaidStays DEF JobsGrounded
<1>15. HandsTell'
  <2> SUFFICES ASSUME NEW w \in Workers, Holds(w)'
               PROVE  Tells(worker[w].run)' /\ Grounded(worker[w].run)'
    BY DEF HandsTell
  <2>1. CASE Holds(w) /\ worker'[w] = worker[w]
    <3>1. derived'[worker[w].run.id] = derived[worker[w].run.id]
      BY <1>10, <2>1 DEF Leaves
    <3> QED
      BY <1>3, <1>10, <2>1, <3>1, SaidStays DEF HandsTell
  <2>2. CASE worker'[w].run = run /\ Tells(run)'
    <3>1. Grounded(run)'
      BY <1>3, SaidStays DEF Leaves
    <3> QED
      BY <2>2, <3>1 DEF Tells, FollowsInput, TableReadable, TableAt, Grounded,
                        Recorded, Record
  <2> QED
    BY <1>9, <2>1, <2>2
<1>16. DiskTells'
  <2> SUFFICES ASSUME NEW id \in Ids, Recorded(id)'
               PROVE  Tells(Record(id))' /\ Grounded(Record(id))'
    BY DEF DiskTells
  <2>1. Recorded(id) /\ Record(id)' = Record(id)
    BY DEF Recorded, Record, Leaves
  <2>2. Record(id) \in Run /\ Record(id).id = id /\ id # first
    BY <1>2, <2>1, ReadableFiles
  <2>3. derived'[id] = derived[id]
    BY <2>2 DEF Leaves
  <2> QED
    BY <1>3, <2>1, <2>2, <2>3, SaidStays DEF DiskTells
<1>17. AnsweredWhole'
  BY <1>3, AnsweredStay DEF AnsweredWhole, Leaves, Types
<1> QED
  BY <1>4, <1>5, <1>6, <1>8, <1>11, <1>12, <1>13, <1>14, <1>15, <1>16, <1>17

-----------------------------------------------------------------------------
(* Types.                                                                  *)

LEMMA RestingHand == Resting \in Hand
  BY DEF Resting, Hand, Idling

LEMMA HandTypes ==
  ASSUME Types, NEW w \in Workers
  PROVE  worker[w] \in Hand
  BY DEF Types

LEMMA TablesAt ==
  ASSUME Types, Files, NEW run \in Run, TableReadable(run.input)
  PROVE  Append(TableAt(run.input), run.step) \in Tables
<1>1. run.step \in Steps /\ (run.input = NoId \/ run.input \in Ids)
  BY DEF Run
<1>2. TableAt(run.input) \in Tables
  <2>1. CASE run.input = NoId
    BY <2>1 DEF TableAt, Tables
  <2>2. CASE run.input # NoId
    BY <1>1, <2>2, ReadableFiles DEF TableAt, TableReadable
  <2> QED
    BY <2>1, <2>2
<1> QED
  BY <1>1, <1>2 DEF Tables

LEMMA DispatchTypes ==
  ASSUME Types, NEW w \in Workers, NEW run \in Run, Dispatch(w, run)
  PROVE  jobs' \in Seq(Job) /\ worker' \in [Workers -> Hand]
<1>1. [by |-> w, run |-> run, wanted |-> TRUE] \in Job
  BY DEF Job
<1>2. jobs' \in Seq(Job)
  BY <1>1, AppendProperties DEF Types, Dispatch
<1>3. [worker[w] EXCEPT !.pc = "julia", !.run = run] \in Hand
  BY HandTypes DEF Hand
<1>4. worker' = [worker EXCEPT ![w] = [worker[w] EXCEPT !.pc = "julia", !.run = run]]
  BY DEF Dispatch, Types
<1> QED
  BY <1>2, <1>3, <1>4 DEF Types

LEMMA CounterTypes ==
  ASSUME StoreAssumption, Types, [Next]_vars
  PROVE  tasks' \in 0..MaxTasks /\ clock' \in 0..MaxClock /\ lastRerun' \in -1..MaxClock
<1> DEFINE C == tasks' \in 0..MaxTasks /\ clock' \in 0..MaxClock /\ lastRerun' \in -1..MaxClock
<1> USE DEF StoreAssumption, Types, boundVars
<1>1. ASSUME NEW w \in Workers, Handler(w)
      PROVE  C
  BY <1>1 DEF Handler, Submit, Rerun, Leave, OpenRecord, WriteRecord, RecordFails,
              SaveProject, WriteManifest
<1>2. CASE Daemon
  BY <1>2 DEF Daemon, ChainFails, FitSucceeds, ChainSucceeds, OutputWritten, OutputFails,
              AnswersError, DaemonDies
<1>3. CASE Crash
  BY <1>3 DEF Crash
<1>4. CASE Tick
  BY <1>4 DEF Tick
<1>5. CASE UNCHANGED vars
  BY <1>5 DEF vars
<1> QED
  BY <1>1, <1>2, <1>3, <1>4, <1>5 DEF Next

-----------------------------------------------------------------------------
(* The actions, each with the counters of CounterTypes.                    *)

Counted ==
  tasks' \in 0..MaxTasks /\ clock' \in 0..MaxClock /\ lastRerun' \in -1..MaxClock

LEMMA SubmitStep ==
  ASSUME StoreAssumption, StoreInv, Counted, NEW w \in Workers, Submit(w)
  PROVE  StoreInv'
<1>1. PICK step \in Steps, input \in answered \cup {NoId} :
        Dispatch(w, NewRun(<<"task", tasks + 1>>, step, input, NoId))
  BY DEF Submit
<1> DEFINE id == <<"task", tasks + 1>>
           run == NewRun(id, step, input, NoId)
<1>2. id \in Ids
  BY DEF StoreInv, Submit, Types, StoreAssumption, Ids, TaskIds
<1>3. run \in Run /\ run.id = id /\ run.of = NoId
  BY <1>2 DEF NewRun, Run, StoreInv, Types, Tables
<1>4. Types'
  BY <1>1, <1>3, DispatchTypes DEF StoreInv, Types, Counted, Submit
<1>5. ~Used(id) /\ (\A i \in Ids : Used(i) => Used(i)')
  BY DEF Used, Submit, StoreInv, Types, Ids, TaskIds, RerunIds
<1>6. Grounded(run)
  <2>1. TableReadable(input)
    BY DEF StoreInv, Story, AnsweredWhole, TableReadable
  <2>2. run.input = input
    BY DEF NewRun
  <2> QED
    BY <1>3, <2>1, <2>2 DEF Grounded
<1>7. PICK r \in Run : r = run
  BY <1>3
<1>8. Dispatch(w, r) /\ ~Used(r.id) /\ Grounded(r)
  BY <1>1, <1>3, <1>5, <1>6, <1>7
<1>9. Used(r.id)'
  <2>1. r.id = <<"task", tasks + 1>>
    BY <1>3, <1>7
  <2>2. tasks' = tasks + 1 /\ tasks \in Nat
    BY DEF Submit, StoreInv, Types
  <2> QED
    BY <2>1, <2>2 DEF Used
<1> QED
  BY <1>4, <1>5, <1>8, <1>9, DispatchStep DEF StoreInv, Submit, diskVars

LEMMA RerunStep ==
  ASSUME SpacedReruns, StoreAssumption, StoreInv, Counted, NEW w \in Workers, Rerun(w)
  PROVE  StoreInv'
<1>1. PICK of \in Ids :
        /\ Recorded(of)
        /\ Dispatch(w, NewRun(<<"rerun", clock>>, Record(of).step, Record(of).input, of))
  BY DEF Rerun, NewRunId, RerunInput, Recorded, Record
<1> DEFINE id == <<"rerun", clock>>
           run == NewRun(id, Record(of).step, Record(of).input, of)
<1>2. id \in Ids
  BY DEF StoreInv, Types, StoreAssumption, Ids, RerunIds
<1>3. Record(of) \in Run
  BY <1>1, ReadableFiles DEF StoreInv
<1>4. /\ run \in Run /\ run.id = id /\ run.of = of
      /\ run.step = Record(of).step /\ run.input = Record(of).input
  BY <1>2, <1>3 DEF NewRun, Run, Tables
<1>5. Types'
  BY <1>1, <1>4, DispatchTypes DEF StoreInv, Types, Counted, Rerun
<1>6. lastRerun < clock /\ lastRerun' = clock /\ tasks' = tasks
  BY DEF Rerun
<1>7. ~Used(id) /\ (\A i \in Ids : Used(i) => Used(i)')
  BY <1>6 DEF Used, StoreInv, Types, Ids, TaskIds, RerunIds
<1>8. Grounded(run)
  <2>1. TableReadable(Record(of).input)
    BY <1>1 DEF StoreInv, Story, DiskTells, Grounded
  <2> QED
    BY <1>1, <1>4, <2>1 DEF Grounded
<1>9. PICK r \in Run : r = run
  BY <1>4
<1>10. Dispatch(w, r) /\ ~Used(r.id) /\ Grounded(r)
  BY <1>1, <1>4, <1>7, <1>8, <1>9
<1>11. Used(r.id)'
  BY <1>4, <1>6, <1>9 DEF Used, StoreInv, Types
<1> QED
  BY <1>5, <1>7, <1>10, <1>11, DispatchStep DEF StoreInv, Rerun, diskVars

-----------------------------------------------------------------------------
(* Steps that let go.                                                      *)

(* A client is told of a table that is whole.                              *)
LEMMA Told ==
  ASSUME StoreInv, NEW w \in Workers, Holds(w), Tell(w)
  PROVE  answered' \subseteq Ids /\ \A id \in answered' : Readable(derived[id])
<1> USE DEF StoreInv
<1>1. PICK run \in Run : run = worker[w].run /\ Tells(run)
  BY DEF Life, HandsFresh, Story, HandsTell
<1>2. run.id \in Ids
  BY DEF Run
<1>3. run.status = "success" /\ run.step # "fit" => Readable(derived[run.id])
  BY <1>1, WholeFile DEF Tells
<1> QED
  BY <1>1, <1>2, <1>3 DEF Tell, Types, Story, AnsweredWhole

LEMMA LetGoActions ==
  ASSUME StoreAssumption, StoreInv, Counted, NEW w \in Workers,
         Leave(w) \/ RecordFails(w) \/ SaveProject(w) \/ WriteManifest(w)
  PROVE  StoreInv'
<1> USE DEF StoreInv, Life
<1>1. jobs' \in Seq(Job) /\ Len(jobs') = Len(jobs)
      /\ \A i \in 1..Len(jobs') : jobs'[i].run = jobs[i].run
  <2>1. CASE Leave(w)
    <3>1. \A i \in 1..Len(jobs) :
            LET j == IF jobs[i].by = w THEN [jobs[i] EXCEPT !.wanted = FALSE] ELSE jobs[i]
            IN  j \in Job /\ j.run = jobs[i].run
      BY JobRuns DEF Job
    <3> QED
      BY <2>1, <3>1 DEF Leave, Unwanted, Types
  <2>2. CASE ~Leave(w)
    BY <2>2 DEF Types, RecordFails, SaveProject, WriteManifest
  <2> QED
    BY <2>1, <2>2
<1>2. worker' \in [Workers -> Hand] /\ (\A v \in Workers : Holds(v)' => worker'[v] = worker[v])
  <2>1. CASE SaveProject(w)
    <3>1. PICK m \in Manifests :
            worker' = [worker EXCEPT ![w].pc = "saving", ![w].manifest = m]
      BY <2>1 DEF SaveProject
    <3>2. [worker[w] EXCEPT !.pc = "saving", !.manifest = m] \in Hand
      BY HandTypes DEF Hand
    <3>3. worker'[w].pc = "saving"
      BY <3>1, HandTypes DEF Types, Hand
    <3> QED
      BY <3>1, <3>2, <3>3 DEF Types, Holds
  <2>2. CASE ~SaveProject(w)
    <3>1. worker' = [worker EXCEPT ![w] = Resting]
      BY <2>2 DEF Leave, RecordFails, WriteManifest, Tell
    <3> QED
      BY <3>1, RestingHand DEF Types, Holds, Resting
  <2> QED
    BY <2>1, <2>2
<1>3. \A v \in Workers : Holds(v)' => Holds(v) /\ worker'[v] = worker[v]
  BY <1>2 DEF Holds
<1>4. answered' \subseteq Ids /\ \A id \in answered' : Readable(derived[id])
  <2>1. CASE RecordFails(w)
    BY <2>1, Told DEF RecordFails, Holds
  <2>2. CASE ~RecordFails(w)
    BY <2>2 DEF Types, Story, AnsweredWhole, Leave, SaveProject, WriteManifest
  <2> QED
    BY <2>1, <2>2
<1>5. UNCHANGED <<records, derived, writing, tasks, lastRerun>>
  BY DEF Leave, RecordFails, SaveProject, WriteManifest, diskVars, boundVars
<1>6. Types'
  BY <1>1, <1>2, <1>4, <1>5 DEF Types, Counted
<1>7. writing => jobs' # <<>>
  BY <1>1 DEF Story, WritingOK, Types
<1>8. LetsGo
  BY <1>1, <1>3, <1>4, <1>5, <1>7 DEF LetsGo, Used, Types
<1> QED
  BY <1>6, <1>8, LetsGoStep

LEMMA Unheard ==
  ASSUME NEW j \in Job
  PROVE  [j EXCEPT !.wanted = FALSE] \in Job /\ [j EXCEPT !.wanted = FALSE].run = j.run
  BY DEF Job

LEMMA CrashStep ==
  ASSUME StoreAssumption, StoreInv, Counted, Crash
  PROVE  StoreInv'
<1> USE DEF StoreInv
<1>1. ~writing => jobs' = <<>>
  BY DEF Crash
<1>2. writing => Len(jobs) >= 1 /\ Head(jobs) = jobs[1] /\ jobs[1] \in Job
  <2>1. writing => jobs # <<>>
    BY DEF Story, WritingOK
  <2> QED
    BY <2>1 DEF Types
<1>3. writing => /\ Len(jobs') = 1 /\ jobs'[1] \in Job /\ jobs'[1].run = jobs[1].run
                 /\ jobs' \in Seq(Job)
  <2>1. CASE writing
    <3>1. PICK j \in Job : j = [jobs[1] EXCEPT !.wanted = FALSE] /\ j.run = jobs[1].run
      BY <1>2, <2>1, Unheard
    <3>2. jobs' = <<j>>
      BY <1>2, <2>1, <3>1 DEF Crash
    <3>3. j \in Job /\ j.run = jobs[1].run
      BY <3>1
    <3>4. <<j>> \in Seq(Job) /\ Len(<<j>>) = 1 /\ <<j>>[1] = j
      BY <3>3
    <3> QED
      BY <3>2, <3>3, <3>4
  <2> QED
    BY <2>1
<1>4. jobs' \in Seq(Job) /\ Len(jobs') <= Len(jobs)
      /\ \A i \in 1..Len(jobs') : jobs'[i].run = jobs[i].run
  <2>1. CASE writing
    <3>1. Len(jobs) \in Nat /\ Len(jobs) >= 1
      BY <1>2, <2>1 DEF Types
    <3>2. \A i \in 1..1 : i = 1
      OBVIOUS
    <3> QED
      BY <1>3, <2>1, <3>1, <3>2
  <2>2. CASE ~writing
    BY <1>1, <2>2 DEF Types
  <2> QED
    BY <2>1, <2>2
<1>5. Types'
  BY <1>4, RestingHand DEF Types, Crash, Counted
<1>6. LetsGo
  BY <1>2, <1>4 DEF LetsGo, Crash, Holds, Resting, diskVars, Used, Story, AnsweredWhole
<1> QED
  BY <1>5, <1>6, LetsGoStep

LEMMA TickStep ==
  ASSUME StoreAssumption, StoreInv, Counted, Tick \/ UNCHANGED vars
  PROVE  StoreInv'
<1> USE DEF StoreInv
<1>1. UNCHANGED <<worker, jobs, writing, records, derived, answered, tasks, lastRerun>>
  BY DEF Tick, vars, diskVars, boundVars
<1>2. Types'
  BY <1>1 DEF Types, Counted
<1>3. LetsGo
  BY <1>1 DEF LetsGo, Used, Holds, Story, WritingOK, AnsweredWhole, Types
<1> QED
  BY <1>2, <1>3, LetsGoStep

-----------------------------------------------------------------------------
(* The first command ends.                                                 *)

(* The run of the first command, with its outcome.                         *)
Outcome(run, st, r) ==
  /\ run.status = st /\ run.result = r
  /\ run.id = jobs[1].run.id /\ run.step = jobs[1].run.step
  /\ run.input = jobs[1].run.input /\ run.of = jobs[1].run.of

LEMMA FirstJob ==
  ASSUME Types, jobs # <<>>
  PROVE  /\ Head(jobs) = jobs[1] /\ jobs[1] \in Job /\ jobs[1].run \in Run
         /\ jobs[1].by \in Workers /\ 1 \in 1..Len(jobs)
<1>1. 1 \in 1..Len(jobs)
  BY DEF Types
<1> QED
  BY <1>1, JobRuns DEF Types, Job

LEMMA Delivered ==
  ASSUME Types, jobs # <<>>, NEW st \in {"open", "success", "error"}, NEW r \in Tables,
         Deliver(st, r)
  PROVE  /\ worker' \in [Workers -> Hand]
         /\ \E run \in Run :
              /\ Outcome(run, st, r)
              /\ worker' = worker \/ \E w \in Workers :
                   /\ worker'[w].pc = "record" /\ worker'[w].run = run
                   /\ \A v \in Workers \ {w} : worker'[v] = worker[v]
<1>1. PICK run \in Run : /\ Outcome(run, st, r)
                         /\ run = [jobs[1].run EXCEPT !.status = st, !.result = r]
  <2>1. PICK first \in Run : first = jobs[1].run
    BY FirstJob
  <2> DEFINE n == [first EXCEPT !.status = st, !.result = r]
  <2>2. /\ n \in Run /\ n.status = st /\ n.result = r
        /\ n.id = first.id /\ n.step = first.step /\ n.input = first.input /\ n.of = first.of
    BY DEF Run
  <2>3. n = [jobs[1].run EXCEPT !.status = st, !.result = r]
    BY <2>1
  <2> HIDE DEF n
  <2>4. Outcome(n, st, r)
    BY <2>1, <2>2 DEF Outcome
  <2> QED
    BY <2>2, <2>3, <2>4
<1>2. CASE jobs[1].wanted
  <2> PICK w \in Workers : w = jobs[1].by
    BY FirstJob
  <2> DEFINE hand == [worker[w] EXCEPT !.pc = "record", !.run = run]
  <2>1. worker' = [worker EXCEPT ![w] = hand]
    BY <1>1, <1>2, FirstJob DEF Deliver, Types
  <2>2. hand \in Hand /\ hand.pc = "record" /\ hand.run = run
    BY FirstJob, HandTypes DEF Hand
  <2>3. worker' \in [Workers -> Hand] /\ worker'[w] = hand
        /\ \A v \in Workers \ {w} : worker'[v] = worker[v]
    BY FirstJob, <2>1, <2>2 DEF Types
  <2>4. Outcome(run, st, r)
    BY <1>1
  <2>5. worker'[w].pc = "record" /\ worker'[w].run = run
    BY <2>2, <2>3
  <2> HIDE DEF hand
  <2> QED
    BY <2>3, <2>4, <2>5
<1>3. CASE ~jobs[1].wanted
  <2>1. worker' = worker
    BY <1>3, FirstJob DEF Deliver
  <2> QED
    BY <1>1, <2>1 DEF Types
<1> QED
  BY <1>2, <1>3

(* A command ends with an answer; only its own output may have been        *)
(* touched, as the outcome tells.                                          *)
EndsWith(st, r) ==
  /\ jobs # <<>> /\ jobs' = Tail(jobs) /\ writing' = FALSE
  /\ Deliver(st, r)
  /\ DOMAIN derived' = Ids
  /\ \A id \in Ids : id # jobs[1].run.id => derived'[id] = derived[id]
  /\ UNCHANGED <<records, answered, tasks, lastRerun>>

LEMMA EndsStep ==
  ASSUME StoreInv, Counted, NEW st \in {"open", "success", "error"}, NEW r \in Tables,
         EndsWith(st, r),
         \A run \in Run : Outcome(run, st, r) => Tells(run)' /\ TableFile(run.id)'
  PROVE  StoreInv'
<1> USE DEF StoreInv
<1>1. worker' \in [Workers -> Hand]
  BY Delivered DEF EndsWith
<1>2. PICK run \in Run :
        /\ Outcome(run, st, r)
        /\ worker' = worker \/ \E w \in Workers :
             /\ worker'[w].pc = "record" /\ worker'[w].run = run
             /\ \A v \in Workers \ {w} : worker'[v] = worker[v]
  BY Delivered DEF EndsWith
<1>3. Tells(run)' /\ TableFile(run.id)'
  BY <1>2
<1>4. Grounded(run)
  BY <1>2, FirstJob DEF Story, JobsGrounded, Grounded, Outcome, EndsWith
<1>5. Types'
  <2>1. jobs' \in Seq(Job)
    BY HeadTailProperties DEF Types, EndsWith
  <2> QED
    BY <1>1, <2>1 DEF Types, EndsWith, Counted
<1>6. Leaves(run)
  BY <1>2, <1>3, <1>4 DEF Leaves, EndsWith, Outcome, Holds
<1> QED
  BY <1>5, <1>6, LeavesStep

(* An error leaves no table, or what CSV.write had written of it.          *)
LEMMA AnswersErrorStep ==
  ASSUME StoreInv, Counted, ChainFails \/ OutputFails
  PROVE  StoreInv'
<1> USE DEF StoreInv, Life
<1>1. <<>> \in Tables
  BY DEF Tables
<1>2. jobs # <<>> /\ AnswersError
  BY DEF ChainFails, OutputFails, Story, WritingOK
<1>3. EndsWith("error", <<>>)
  BY <1>2 DEF AnswersError, EndsWith, diskVars, boundVars, Files
<1>4. ASSUME NEW run \in Run, Outcome(run, "error", <<>>)
      PROVE  Tells(run)' /\ TableFile(run.id)'
  <2>1. run.id = jobs[1].run.id /\ run.status = "error"
    BY <1>4 DEF Outcome
  <2>2. derived[run.id] \in {Absent, Truncated} /\ derived' = derived
    BY <1>2, <2>1, FirstJob DEF AnswersError, JobsFresh, diskVars
  <2> QED
    BY <2>1, <2>2 DEF Tells, TableFile
<1> QED
  BY <1>1, <1>3, <1>4, EndsStep

LEMMA FitSucceedsStep ==
  ASSUME StoreInv, Counted, FitSucceeds
  PROVE  StoreInv'
<1> USE DEF StoreInv
<1>1. /\ Head(jobs) = jobs[1] /\ jobs[1].run \in Run /\ jobs[1].run.step = "fit"
      /\ TableReadable(jobs[1].run.input) /\ derived' = derived
  BY FirstJob DEF FitSucceeds, diskVars
<1>2. PICK r \in Tables : r = Append(TableAt(jobs[1].run.input), jobs[1].run.step)
  BY <1>1, TablesAt
<1>3. EndsWith("success", r)
  <2>1. writing' = FALSE
    BY <1>1 DEF FitSucceeds, Story, WritingOK, Types
  <2>2. Deliver("success", r)
    BY <1>1, <1>2 DEF FitSucceeds
  <2> QED
    BY <2>1, <2>2 DEF FitSucceeds, EndsWith, diskVars, boundVars, Files
<1>4. ASSUME NEW run \in Run, Outcome(run, "success", r)
      PROVE  Tells(run)' /\ TableFile(run.id)'
  <2>1. run.status = "success" /\ run.step = "fit" /\ FollowsInput(run)
    BY <1>1, <1>2, <1>4 DEF Outcome, FollowsInput
  <2>2. FollowsInput(run)'
    BY <1>1, <2>1 DEF FollowsInput, TableReadable, TableAt
  <2>3. TableFile(run.id)'
    BY <1>1 DEF Files, TableFile, Run
  <2> QED
    BY <2>1, <2>2, <2>3 DEF Tells
<1> QED
  BY <1>2, <1>3, <1>4, EndsStep

(* The output gets its one block, the first command's.                     *)
LEMMA OutputWrittenStep ==
  ASSUME StoreInv, Counted, OutputWritten
  PROVE  StoreInv'
<1> USE DEF StoreInv
<1>1. /\ jobs # <<>> /\ FollowsInput(jobs[1].run) /\ jobs[1].run.step # "fit"
      /\ Head(jobs) = jobs[1] /\ jobs[1].run \in Run
  BY FirstJob DEF OutputWritten, Story, WritingOK
<1>2. PICK r \in Tables : r = jobs[1].run.result
  BY <1>1 DEF Run
<1>3. PICK id \in Ids : id = jobs[1].run.id
  BY <1>1 DEF Run
<1>4. derived[id] = Truncated
  BY <1>1, <1>3, FirstJob DEF Life, JobsFresh, OutputWritten
<1>5. derived' = [derived EXCEPT ![id] = Whole(r, 1)]
  <2>1. derived' = [derived EXCEPT ![id] = Written(derived[id], r, 1)]
    BY <1>1, <1>2, <1>3 DEF OutputWritten, Output, Files
  <2>2. Written(derived[id], r, 1) = Whole(r, 1)
    BY <1>4, WrittenWhole
  <2> QED
    BY <2>1, <2>2
<1>6. EndsWith("success", r)
  BY <1>1, <1>2, <1>3, <1>5 DEF OutputWritten, EndsWith, boundVars, Files
<1>7. ASSUME NEW run \in Run, Outcome(run, "success", r)
      PROVE  Tells(run)' /\ TableFile(run.id)'
  <2>1. /\ run.status = "success" /\ run.id = id /\ run.result = r
        /\ FollowsInput(run)
    BY <1>1, <1>2, <1>3, <1>7 DEF Outcome, FollowsInput
  <2>2. derived'[id] = Whole(r, 1)
    BY <1>5 DEF Files
  <2>3. FollowsInput(run)'
    <3>1. run.input # NoId => run.input \in Ids /\ run.input # id
      BY <1>4, <2>1, NotReadable DEF FollowsInput, TableReadable, Run
    <3>2. run.input # NoId => derived'[run.input] = derived[run.input]
      BY <1>5, <3>1 DEF Files
    <3> QED
      BY <2>1, <3>2 DEF FollowsInput, TableReadable, TableAt
  <2>4. TableFile(run.id)'
    BY <2>1, <2>2, WholeFile DEF TableFile
  <2> QED
    BY <2>1, <2>2, <2>3, <2>4 DEF Tells
<1> QED
  BY <1>2, <1>6, <1>7, EndsStep

LEMMA DaemonDiesStep ==
  ASSUME StoreInv, Counted, DaemonDies
  PROVE  StoreInv'
<1> USE DEF StoreInv
<1>1. /\ Head(jobs) = jobs[1] /\ jobs[1].by \in Workers /\ jobs[1].run \in Run
      /\ derived' = derived /\ jobs' \in Seq(Job)
  BY FirstJob, HeadTailProperties DEF DaemonDies, diskVars, Types
<1>2. Types'
  BY <1>1, RestingHand DEF DaemonDies, Types, Counted, boundVars
<1>3. \A w \in Workers : Holds(w)' => Holds(w) /\ worker'[w] = worker[w]
  BY <1>1 DEF DaemonDies, Types, Holds, Resting
<1>4. PICK run \in Run : run = jobs[1].run
  BY <1>1
<1>5. Grounded(run)
  BY <1>4, FirstJob DEF DaemonDies, Story, JobsGrounded
<1>6. TableFile(run.id)'
  BY <1>1 DEF Files, TableFile, Run
<1>7. Leaves(run)
  BY <1>1, <1>3, <1>4, <1>5, <1>6 DEF Leaves, DaemonDies, diskVars, boundVars, Files
<1> QED
  BY <1>2, <1>7, LeavesStep

-----------------------------------------------------------------------------
(* The chain went well: the output is opened and the result noted.         *)

LEMMA Noted ==
  ASSUME Types, jobs # <<>>, NEW r \in Tables,
         jobs' = [jobs EXCEPT ![1].run.result = r]
  PROVE  /\ jobs' \in Seq(Job) /\ Len(jobs') = Len(jobs)
         /\ \A i \in 1..Len(jobs) : i # 1 => jobs'[i] = jobs[i]
         /\ jobs'[1].run \in Run /\ jobs'[1].run.result = r
         /\ jobs'[1].run.id = jobs[1].run.id /\ jobs'[1].run.step = jobs[1].run.step
         /\ jobs'[1].run.input = jobs[1].run.input /\ jobs'[1].run.of = jobs[1].run.of
<1>1. PICK j \in Job : j = jobs[1]
  BY FirstJob
<1>2. PICK run \in Run : run = j.run
  BY DEF Job
<1> DEFINE n == [run EXCEPT !.result = r]
           k == [j EXCEPT !.run = n]
<1>3. /\ n \in Run /\ n.result = r
      /\ n.id = run.id /\ n.step = run.step /\ n.input = run.input /\ n.of = run.of
  BY DEF Run
<1>4. jobs' = [jobs EXCEPT ![1] = k]
  BY <1>1, <1>2
<1> HIDE DEF n
<1>5. k \in Job /\ k.run = n
  BY <1>3 DEF Job
<1> HIDE DEF k
<1>6. jobs' \in Seq(Job) /\ Len(jobs') = Len(jobs) /\ jobs'[1] = k
      /\ \A i \in 1..Len(jobs) : i # 1 => jobs'[i] = jobs[i]
  BY <1>4, <1>5, FirstJob DEF Types
<1> QED
  BY <1>1, <1>2, <1>3, <1>5, <1>6

LEMMA ChainSucceedsStep ==
  ASSUME StoreInv, Counted, ChainSucceeds
  PROVE  StoreInv'
<1> USE DEF StoreInv, Life, Story
<1>1. /\ Head(jobs) = jobs[1] /\ jobs[1].run \in Run /\ jobs[1].run.step # "fit"
      /\ TableReadable(jobs[1].run.input) /\ jobs # <<>> /\ 1 \in 1..Len(jobs)
      /\ UNCHANGED <<worker, records, answered, tasks, lastRerun>>
      /\ writing' /\ ~writing
  BY FirstJob DEF ChainSucceeds, boundVars, Types
<1>2. PICK r \in Tables : r = Append(TableAt(jobs[1].run.input), jobs[1].run.step)
  BY <1>1, TablesAt
<1>3. /\ jobs' \in Seq(Job) /\ Len(jobs') = Len(jobs)
      /\ \A i \in 1..Len(jobs) : i # 1 => jobs'[i] = jobs[i]
      /\ jobs'[1].run \in Run /\ jobs'[1].run.result = r
      /\ jobs'[1].run.id = jobs[1].run.id /\ jobs'[1].run.step = jobs[1].run.step
      /\ jobs'[1].run.input = jobs[1].run.input /\ jobs'[1].run.of = jobs[1].run.of
  <2>1. jobs' = [jobs EXCEPT ![1].run.result = r]
    BY <1>1, <1>2 DEF ChainSucceeds
  <2> QED
    BY <1>1, <2>1, Noted
<1>4. PICK id \in Ids : id = jobs[1].run.id
  BY <1>1 DEF Run
<1>5. derived[id] = Absent /\ records[id] = Absent /\ Used(id)
  BY <1>1, <1>4 DEF JobsFresh
<1>6. /\ DOMAIN derived' = Ids /\ derived'[id] = Truncated
      /\ \A d \in Ids : d # id => derived'[d] = derived[d]
  BY <1>1, <1>4 DEF ChainSucceeds, Output, Files
<1>7. \A i \in 1..Len(jobs') : /\ i \in 1..Len(jobs) /\ jobs'[i].run.id = jobs[i].run.id
                               /\ jobs[i].run \in Run /\ jobs[i].run.id \in Ids
                               /\ i # 1 => jobs[i].run.id # id
  BY <1>1, <1>3, <1>4, JobRuns DEF JobsApart
<1>8. DiskGrows
  BY <1>1, <1>5, <1>6, NotReadable DEF DiskGrows
<1>9. Types'
  BY <1>1, <1>3 DEF Types, Counted
<1>10. Files'
  BY <1>1, <1>6 DEF Files, RecordFile, TableFile
<1>11. DiskUsed'
  BY <1>1, <1>5, <1>6 DEF DiskUsed, Used
<1>12. JobsFresh'
  <2> SUFFICES ASSUME NEW i \in 1..Len(jobs')
               PROVE  /\ Used(jobs[i].run.id)' /\ records'[jobs'[i].run.id] = Absent
                      /\ derived'[jobs'[i].run.id] = IF i = 1 THEN Truncated ELSE Absent
    BY <1>1 DEF JobsFresh
  <2>1. /\ Used(jobs[i].run.id) /\ records[jobs[i].run.id] = Absent
        /\ derived[jobs[i].run.id] = Absent
    BY <1>1, <1>7 DEF JobsFresh
  <2>2. Used(jobs[i].run.id)'
    BY <1>1, <1>7, <2>1 DEF Used
  <2> QED
    BY <1>1, <1>4, <1>6, <1>7, <2>1, <2>2
<1>13. JobsApart'
  BY <1>7 DEF JobsApart
<1>14. HandsFresh' /\ HandsApart'
  BY <1>1, <1>7 DEF HandsFresh, HandsApart, Holds, Used
<1>15. WritingOK'
  <2>1. jobs'[1].run.input # NoId => /\ jobs'[1].run.input \in Ids
                                     /\ jobs'[1].run.input # id
    BY <1>1, <1>3, <1>5, NotReadable DEF TableReadable, Run
  <2>2. FollowsInput(jobs[1].run)'
    BY <1>1, <1>2, <1>3, <1>6, <2>1 DEF FollowsInput, TableReadable, TableAt
  <2>3. jobs' # <<>>
    BY <1>1, <1>3
  <2> QED
    BY <1>1, <1>3, <2>2, <2>3 DEF WritingOK
<1>16. JobsGrounded'
  <2> SUFFICES ASSUME NEW i \in 1..Len(jobs')
               PROVE  Grounded(jobs[i].run)'
    BY DEF JobsGrounded
  <2>1. Grounded(jobs[i].run)
    BY <1>7 DEF JobsGrounded
  <2>3. PICK run \in Run : run = jobs[i].run
    BY <1>7
  <2>4. Grounded(run)'
    BY <1>8, <2>1, <2>3, SaidStays
  <2>2. /\ jobs'[i].run.of = jobs[i].run.of /\ jobs'[i].run.step = jobs[i].run.step
        /\ jobs'[i].run.input = jobs[i].run.input
    BY <1>3, <1>7
  <2> QED
    BY <2>2, <2>3, <2>4 DEF Grounded, TableReadable, Recorded, Record
<1>17. HandsTell'
  <2> SUFFICES ASSUME NEW w \in Workers, Holds(w)
               PROVE  Tells(worker[w].run)' /\ Grounded(worker[w].run)'
    BY <1>1 DEF HandsTell, Holds
  <2>1. PICK run \in Run : run = worker[w].run
    BY DEF HandsFresh
  <2>2. run.id # id /\ run.id \in Ids
    BY <1>1, <1>4, <2>1 DEF HandsFresh, Run
  <2>3. Tells(run)' /\ Grounded(run)'
    BY <1>6, <1>8, <2>1, <2>2, SaidStays DEF HandsTell
  <2> QED
    BY <1>1, <2>1, <2>3
<1>18. DiskTells'
  <2> SUFFICES ASSUME NEW d \in Ids, Recorded(d)'
               PROVE  Tells(Record(d))' /\ Grounded(Record(d))'
    BY DEF DiskTells
  <2>1. Recorded(d) /\ records'[d] = records[d]
    BY <1>1 DEF Recorded
  <2>2. PICK run \in Run : run = Record(d)
    BY <2>1, ReadableFiles
  <2>3. run.id = d /\ d # id
    BY <1>5, <2>1, <2>2, ReadableFiles
  <2>4. Tells(run)' /\ Grounded(run)'
    BY <1>6, <1>8, <2>1, <2>2, <2>3, SaidStays DEF DiskTells
  <2>5. Record(d)' = run
    BY <2>1, <2>2 DEF Record
  <2> QED
    BY <2>4, <2>5
<1>19. AnsweredWhole'
  BY <1>1, <1>8, AnsweredStay DEF AnsweredWhole, Types
<1> QED
  BY <1>9, <1>10, <1>11, <1>12, <1>13, <1>14, <1>15, <1>16, <1>17, <1>18, <1>19

-----------------------------------------------------------------------------
(* A record is opened, and written.                                        *)

LEMMA OpenRecordStep ==
  ASSUME StoreInv, Counted, NEW w \in Workers, OpenRecord(w)
  PROVE  StoreInv'
<1> USE DEF StoreInv, Life, Story
<1>1. /\ worker[w].run \in Run /\ Used(worker[w].run.id) /\ Holds(w)
      /\ records[worker[w].run.id] = Absent
      /\ \A i \in 1..Len(jobs) : jobs[i].run.id # worker[w].run.id
      /\ Tells(worker[w].run)
      /\ UNCHANGED <<jobs, writing, derived, answered, tasks, lastRerun>>
  BY DEF OpenRecord, HandsFresh, HandsTell, Holds, boundVars
<1>2. PICK id \in Ids : id = worker[w].run.id
  BY <1>1 DEF Run
<1>3. /\ DOMAIN records' = Ids /\ records'[id] = Truncated
      /\ \A d \in Ids : d # id => records'[d] = records[d]
  BY <1>2 DEF OpenRecord, Files
<1>4. /\ worker' \in [Workers -> Hand] /\ worker'[w].pc = "recording"
      /\ worker'[w].run = worker[w].run
      /\ \A v \in Workers : v # w => worker'[v] = worker[v]
  <2>1. [worker[w] EXCEPT !.pc = "recording"] \in Hand
    BY HandTypes DEF Hand
  <2> QED
    BY <2>1 DEF OpenRecord, Types, Hand
<1>5. DiskGrows
  BY <1>1, <1>2, <1>3, NotReadable DEF DiskGrows, Recorded
<1>6. \A v \in Workers : Holds(v)' => /\ Holds(v) /\ worker'[v].run = worker[v].run
                                      /\ worker[v].run \in Run /\ worker[v].run.id \in Ids
                                      /\ v # w => worker[v].run.id # id
  BY <1>1, <1>2, <1>4 DEF Holds, HandsFresh, HandsApart, Run
<1>7. Types'
  BY <1>1, <1>4 DEF Types, Counted
<1>8. Files'
  BY <1>1, <1>3 DEF Files, RecordFile, TableFile
<1>9. DiskUsed'
  BY <1>1, <1>2, <1>3 DEF DiskUsed, Used
<1>10. JobsFresh' /\ JobsApart'
  <2>1. \A i \in 1..Len(jobs) : jobs[i].run.id \in Ids /\ jobs[i].run.id # id
    BY <1>1, <1>2, JobRuns
  <2> QED
    BY <1>1, <1>3, <2>1 DEF JobsFresh, JobsApart, Used
<1>11. HandsFresh'
  <2> SUFFICES ASSUME NEW v \in Workers, Holds(v)'
               PROVE  /\ worker'[v].run \in Run /\ Used(worker[v].run.id)'
                      /\ records'[worker'[v].run.id]
                           = IF worker'[v].pc = "record" THEN Absent ELSE Truncated
                      /\ \A i \in 1..Len(jobs') : jobs'[i].run.id # worker'[v].run.id
    BY DEF HandsFresh
  <2>1. /\ worker'[v].run \in Run
        /\ \A i \in 1..Len(jobs') : jobs'[i].run.id # worker'[v].run.id
    BY <1>1, <1>6 DEF HandsFresh
  <2>2. Used(worker[v].run.id)'
    BY <1>1, <1>6 DEF HandsFresh, Used
  <2>3. records'[worker'[v].run.id]
          = IF worker'[v].pc = "record" THEN Absent ELSE Truncated
    BY <1>2, <1>3, <1>4, <1>6 DEF HandsFresh
  <2> QED
    BY <2>1, <2>2, <2>3
<1>12. HandsApart'
  BY <1>6 DEF HandsApart
<1>13. WritingOK'
  BY <1>1 DEF WritingOK, FollowsInput, TableReadable, TableAt
<1>14. JobsGrounded'
  BY <1>1, <1>5, JobRuns, SaidStays DEF JobsGrounded
<1>15. HandsTell'
  <2> SUFFICES ASSUME NEW v \in Workers, Holds(v)'
               PROVE  Tells(worker[v].run)' /\ Grounded(worker[v].run)'
    BY DEF HandsTell
  <2>1. PICK run \in Run : run = worker[v].run /\ Tells(run) /\ Grounded(run)
    BY <1>6 DEF HandsTell
  <2>2. Tells(run)' /\ Grounded(run)'
    BY <1>1, <1>5, <2>1, SaidStays
  <2>3. worker'[v].run = run
    BY <1>6, <2>1
  <2> QED
    BY <2>2, <2>3
<1>16. DiskTells'
  <2> SUFFICES ASSUME NEW d \in Ids, Recorded(d)'
               PROVE  Tells(Record(d))' /\ Grounded(Record(d))'
    BY DEF DiskTells
  <2>1. Recorded(d) /\ records'[d] = records[d]
    BY <1>3, NotReadable DEF Recorded
  <2>2. PICK run \in Run : run = Record(d)
    BY <2>1, ReadableFiles
  <2>3. Tells(run)' /\ Grounded(run)'
    BY <1>1, <1>5, <2>1, <2>2, SaidStays DEF DiskTells
  <2>4. Record(d)' = run
    BY <2>1, <2>2 DEF Record
  <2> QED
    BY <2>3, <2>4
<1>17. AnsweredWhole'
  BY <1>1 DEF AnsweredWhole
<1> QED
  BY <1>7, <1>8, <1>9, <1>10, <1>11, <1>12, <1>13, <1>14, <1>15, <1>16, <1>17

LEMMA WriteRecordStep ==
  ASSUME StoreInv, Counted, NEW w \in Workers, WriteRecord(w)
  PROVE  StoreInv'
<1> USE DEF StoreInv, Life, Story
<1>1. /\ worker[w].run \in Run /\ Used(worker[w].run.id) /\ Holds(w)
      /\ records[worker[w].run.id] = Truncated
      /\ \A i \in 1..Len(jobs) : jobs[i].run.id # worker[w].run.id
      /\ Tells(worker[w].run) /\ Grounded(worker[w].run)
      /\ UNCHANGED <<jobs, writing, derived, tasks, lastRerun>>
  BY DEF WriteRecord, HandsFresh, HandsTell, Holds, boundVars
<1>2. PICK r \in Run : r = worker[w].run
  BY <1>1
<1>3. PICK id \in Ids : id = r.id
  BY DEF Run
<1>4. /\ DOMAIN records' = Ids /\ records'[id] = Whole(r, RecordSize(r))
      /\ \A d \in Ids : d # id => records'[d] = records[d]
  <2>1. records' = [records EXCEPT ![id] = Written(records[id], r, RecordSize(r))]
    BY <1>2, <1>3 DEF WriteRecord, Files
  <2>2. Written(records[id], r, RecordSize(r)) = Whole(r, RecordSize(r))
    BY <1>1, <1>2, <1>3, WrittenWhole, RecordSizes
  <2> QED
    BY <2>1, <2>2 DEF Files
<1>5. /\ worker' \in [Workers -> Hand]
      /\ answered' \subseteq Ids /\ (\A e \in answered' : Readable(derived[e]))
      /\ \A v \in Workers : Holds(v)' => v # w /\ worker'[v] = worker[v]
  <2>1. answered' \subseteq Ids /\ \A e \in answered' : Readable(derived[e])
    BY <1>1, Told DEF WriteRecord
  <2> QED
    BY <2>1, RestingHand DEF WriteRecord, Tell, Types, Holds, Resting
<1>6. DiskGrows
  BY <1>1, <1>2, <1>3, <1>4, NotReadable DEF DiskGrows, Recorded
<1>7. \A v \in Workers : Holds(v)' => /\ Holds(v) /\ worker'[v] = worker[v]
                                      /\ worker[v].run \in Run /\ worker[v].run.id \in Ids
                                      /\ worker[v].run.id # id
  BY <1>1, <1>2, <1>3, <1>5 DEF Holds, HandsFresh, HandsApart, Run
<1>8. Types'
  BY <1>1, <1>5 DEF Types, Counted
<1>9. Files'
  <2>1. RecordFile(id)'
    BY <1>3, <1>4, WholeFile, RecordSizes DEF RecordFile
  <2>2. \A d \in Ids : d # id => RecordFile(d)'
    BY <1>4 DEF Files, RecordFile
  <2>3. \A d \in Ids : TableFile(d)'
    BY <1>1 DEF Files, TableFile
  <2> QED
    BY <1>1, <1>4, <2>1, <2>2, <2>3 DEF Files
<1>10. DiskUsed'
  BY <1>1, <1>2, <1>3, <1>4 DEF DiskUsed, Used
<1>11. JobsFresh' /\ JobsApart'
  <2>1. \A i \in 1..Len(jobs) : jobs[i].run.id \in Ids /\ jobs[i].run.id # id
    BY <1>1, <1>2, <1>3, JobRuns
  <2> QED
    BY <1>1, <1>4, <2>1 DEF JobsFresh, JobsApart, Used
<1>12. HandsFresh'
  BY <1>1, <1>4, <1>7 DEF HandsFresh, Used
<1>13. HandsApart'
  BY <1>7 DEF HandsApart
<1>14. WritingOK'
  BY <1>1 DEF WritingOK, FollowsInput, TableReadable, TableAt
<1>15. JobsGrounded'
  BY <1>1, <1>6, JobRuns, SaidStays DEF JobsGrounded
<1>16. HandsTell'
  BY <1>1, <1>6, <1>7, SaidStays DEF HandsTell
<1>17. DiskTells'
  <2> SUFFICES ASSUME NEW d \in Ids, Recorded(d)'
               PROVE  Tells(Record(d))' /\ Grounded(Record(d))'
    BY DEF DiskTells
  <2>1. CASE d = id
    <3>1. Record(d)' = r
      BY <1>4, <2>1, WholeFile, RecordSizes DEF Record
    <3>2. Tells(r)' /\ Grounded(r)'
      BY <1>1, <1>2, <1>6, SaidStays
    <3> QED
      BY <3>1, <3>2
  <2>2. CASE d # id
    <3>1. Recorded(d) /\ records'[d] = records[d]
      BY <1>4, <2>2 DEF Recorded
    <3>2. PICK run \in Run : run = Record(d)
      BY <3>1, ReadableFiles
    <3>3. Tells(run)' /\ Grounded(run)'
      BY <1>1, <1>6, <3>1, <3>2, SaidStays DEF DiskTells
    <3>4. Record(d)' = run
      BY <3>1, <3>2 DEF Record
    <3> QED
      BY <3>3, <3>4
  <2> QED
    BY <2>1, <2>2
<1>18. AnsweredWhole'
  BY <1>1, <1>5 DEF AnsweredWhole
<1> QED
  BY <1>8, <1>9, <1>10, <1>11, <1>12, <1>13, <1>14, <1>15, <1>16, <1>17, <1>18

-----------------------------------------------------------------------------
(* The theorems.                                                           *)

LEMMA StoreInit ==
  ASSUME StoreAssumption, Init
  PROVE  StoreInv
<1>1. Types
  <2>1. worker \in [Workers -> Hand]
    BY RestingHand DEF Init
  <2>2. jobs \in Seq(Job)
    BY DEF Init
  <2>3. writing \in BOOLEAN /\ answered \subseteq Ids
    BY DEF Init
  <2>4. tasks \in 0..MaxTasks /\ clock \in 0..MaxClock /\ lastRerun \in -1..MaxClock
    BY DEF Init, StoreAssumption
  <2> QED
    BY <2>1, <2>2, <2>3, <2>4 DEF Types
<1>2. Files
  BY DEF Init, Files, RecordFile, TableFile
<1>3. Life
  BY DEF Init, Life, DiskUsed, JobsFresh, JobsApart, HandsFresh, HandsApart, Holds, Resting
<1>4. Story
  BY NotReadable DEF Init, Story, WritingOK, JobsGrounded, HandsTell, DiskTells, Holds, Resting,
                     Recorded, AnsweredWhole
<1> QED
  BY <1>1, <1>2, <1>3, <1>4 DEF StoreInv

LEMMA StoreStep ==
  ASSUME SpacedReruns, StoreAssumption, StoreInv, [Next]_vars
  PROVE  StoreInv'
<1>1. Counted
  BY CounterTypes DEF Counted, StoreInv
<1>2. ASSUME NEW w \in Workers, Handler(w)
      PROVE  StoreInv'
  BY <1>1, <1>2, SubmitStep, RerunStep, LetGoActions, OpenRecordStep, WriteRecordStep
     DEF Handler
<1>3. CASE Daemon
  BY <1>1, <1>3, AnswersErrorStep, FitSucceedsStep, ChainSucceedsStep, OutputWrittenStep,
     DaemonDiesStep DEF Daemon
<1>4. CASE Crash
  BY <1>1, <1>4, CrashStep
<1>5. CASE Tick \/ UNCHANGED vars
  BY <1>1, <1>5, TickStep
<1> QED
  BY <1>2, <1>3, <1>4, <1>5 DEF Next

(* Whatever crosses, ids are in one place, files are created once, and     *)
(* what a run says of its input, its output and its original is true.      *)
THEOREM Invariance == SpacedReruns => (Spec => []StoreInv)
<1> SUFFICES ASSUME SpacedReruns
             PROVE  Spec => []StoreInv
  OBVIOUS
<1>1. Init => StoreInv
  BY StoreInit, StoreAssumption
<1>2. StoreInv /\ [Next]_vars => StoreInv'
  BY StoreStep, StoreAssumption
<1> QED
  BY <1>1, <1>2, PTL DEF Spec

(* persist_run_record: a record on disk describes the table on disk.       *)
THEOREM RecordsTell == SpacedReruns => (Spec => []RecordTellsTheTable)
<1> SUFFICES ASSUME SpacedReruns
             PROVE  Spec => []RecordTellsTheTable
  OBVIOUS
<1>1. StoreInv => RecordTellsTheTable
  BY ReadableFiles DEF StoreInv, Story, DiskTells, Tells, RecordTellsTheTable, Succeeded
<1> QED
  BY <1>1, Invariance, PTL

(* transform_handler, rerun_task_handler: whatever fails or dies, in       *)
(* CSV.write too, no failed run has a whole table and no run was given one *)
(* that is not whole, so a shortened table is never computed with.         *)
THEOREM PartialTablesStayUnused == SpacedReruns => (Spec => []OnlyWholeTablesAreUsed)
<1> SUFFICES ASSUME SpacedReruns
             PROVE  Spec => []OnlyWholeTablesAreUsed
  OBVIOUS
<1>1. ASSUME StoreInv
      PROVE  OnlyWholeTablesAreUsed
  <2> USE DEF StoreInv, Story
  <2>1. \A i \in 1..Len(jobs) : Sound(jobs[i].run)
    <3> SUFFICES ASSUME NEW i \in 1..Len(jobs)
                 PROVE  Sound(jobs[i].run)
      OBVIOUS
    <3>1. derived[jobs[i].run.id] \in {Absent, Truncated}
      BY <1>1 DEF Life, JobsFresh
    <3>2. TableReadable(jobs[i].run.input)
      BY <1>1 DEF JobsGrounded, Grounded
    <3> QED
      BY <3>1, <3>2, NotReadable DEF Sound
  <2>2. \A w \in Workers : Holds(w) => Sound(worker[w].run)
    BY <1>1, NotReadable DEF HandsTell, Tells, Grounded, Sound
  <2>3. \A id \in Ids : Recorded(id) => Sound(Record(id))
    BY <1>1, NotReadable DEF DiskTells, Tells, Grounded, Sound
  <2> QED
    BY <2>1, <2>2, <2>3 DEF OnlyWholeTablesAreUsed, Holds
<1> QED
  BY <1>1, Invariance, PTL

(* rerun_task_handler: a rerun gives what its original gave, because both  *)
(* follow from the same input, which is not written again.                 *)
THEOREM Reproducible == SpacedReruns => (Spec => []RerunReproduces)
<1> SUFFICES ASSUME SpacedReruns
             PROVE  Spec => []RerunReproduces
  OBVIOUS
<1>1. ASSUME StoreInv
      PROVE  RerunReproduces
  <2> SUFFICES ASSUME NEW id \in Ids, Succeeded(id), Record(id).of # NoId,
                      Succeeded(Record(id).of)
               PROVE  Record(id).result = Record(Record(id).of).result
    BY DEF RerunReproduces
  <2>1. Record(id) \in Run /\ Record(id).of \in Ids
    BY <1>1, ReadableFiles DEF StoreInv, Succeeded, Run
  <2>2. FollowsInput(Record(id)) /\ Grounded(Record(id))
    BY <1>1 DEF StoreInv, Story, DiskTells, Tells, Succeeded
  <2>3. FollowsInput(Record(Record(id).of))
    BY <1>1, <2>1 DEF StoreInv, Story, DiskTells, Tells, Succeeded
  <2> QED
    BY <2>2, <2>3 DEF FollowsInput, Grounded
<1> QED
  BY <1>1, Invariance, PTL

(* std::fs::write truncates, but only files of ids that are new: a record  *)
(* once on disk is not changed by later runs, reruns or crashes.           *)
THEOREM RecordsStay == SpacedReruns => (Spec => RecordsAreKept)
<1> SUFFICES ASSUME SpacedReruns
             PROVE  Spec => RecordsAreKept
  OBVIOUS
<1>1. ASSUME StoreInv, [Next]_vars
      PROVE  \A id \in Ids : Recorded(id) => records'[id] = records[id]
  <2>1. ASSUME NEW w \in Workers, OpenRecord(w) \/ WriteRecord(w)
        PROVE  \A id \in Ids : Recorded(id) => records'[id] = records[id]
    <3>1. records[worker[w].run.id] \in {Absent, Truncated}
      BY <1>1, <2>1 DEF StoreInv, Life, HandsFresh, Holds, OpenRecord, WriteRecord
    <3>2. ~Recorded(worker[w].run.id)
      BY <3>1, NotReadable DEF Recorded
    <3> QED
      BY <1>1, <2>1, <3>2 DEF OpenRecord, WriteRecord, StoreInv, Files
  <2>2. ASSUME ~\E w \in Workers : OpenRecord(w) \/ WriteRecord(w)
        PROVE  records' = records
    BY <1>1, <2>2 DEF Next, Handler, Submit, Rerun, Leave, RecordFails, SaveProject,
       WriteManifest, Daemon, ChainFails, FitSucceeds, ChainSucceeds, OutputWritten, OutputFails,
       AnswersError, DaemonDies, Crash, Tick, vars, diskVars
  <2> QED
    BY <2>1, <2>2
<1>2. StoreInv /\ [Next]_vars => [\A id \in Ids : Recorded(id) => records'[id] = records[id]]_vars
  BY <1>1
<1> QED
  BY <1>2, Invariance, PTL DEF Spec, RecordsAreKept

=============================================================================
