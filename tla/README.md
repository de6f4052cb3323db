# Metrica in TLA+

Metrica is a desktop application for econometrics. This directory specifies the
parts of it that are hard to test because several processes, threads or
asynchronous functions work on shared state: the runtime's Julia session, its
fall-back mode, the files it keeps, and the desktop's polling, workspace,
single-instance lock, command line, messages and charts; and the command language,
which four files in two programming languages describe and must agree on. The
estimators themselves are numeric code without state and are tested elsewhere in
the repository.

Line numbers below are those of the repository's files; `PROJECT.json` gives for
every definition the lines it models ("map"), for every run its question, and for
every hazard of the code the property that would catch it.

## 1. The system

```
 desktop (React in a Tauri window)                    metrica-runtime (Rust, axum/tokio)            Julia
 CommandLine -> commandExecutor -> stores                handlers --mpsc--> actor thread --stdin--> julia_daemon.jl
 healthPolling -------- HTTP 127.0.0.1:47821 ------->       |                    ^                      |
 src-tauri/lib.rs -- starts and should end ---------->      |                    +---- reader <-stdout--+
   (lock socket /tmp/metrica-desktop.lock)                  +-- .metrica/{runs,derived,project.json} <--+ CSV
```

| component | state it keeps | operations | what is hard | what makes it correct |
|---|---|---|---|---|
| Julia session and actor (`julia_session.rs`, `julia_actor.rs`, `server.rs`, `main.rs`, main loop of `julia_daemon.jl`) | bounded command channel, the child process, its pipes, `healthy`, `restart_count`, `request_counter` | dispatch, `send_request`, `try_restart`, `start`, `shutdown`; daemon: ready, read, answer, quit | late answers after a timeout, daemons that die or hang anywhere, stray output, callers that hang up, a restart budget, shutdown | an answer reaches the call it was computed for; no command runs twice; no process outlives its replacement; every call ends |
| One-shot bridge (`julia_bridge.rs`, `*_bridge_entry.jl`) | one process per request, tokio's threads | spawn, wait, reply | `Command::output` blocks an async thread, no timeout, `/health` shares the threads | the same promise as the session; everybody is answered as long as processes end |
| Run records, derived tables, project file (`handlers.rs`, `persistence.rs`, `serialize.jl`) | `runs/<id>.json`, `derived/<id>.csv`, `project.json` | fit, inspect, transform, rerun, save | two processes write related files; write = truncate + write; crashes; ids made of a clock | a record describes what is on disk; failures leave no table; reruns reproduce; records are not changed; a saved project opens |
| Health polling (`healthPolling.ts`, `appStore.ts`) | interval, `isJuliaReady`, `prevJuliaHealthy`, shown state | start, stop, poll | answers in another order, late, after a stop | one interval at the right pace; the shown state settles on the truth; a return of Julia reloads the project |
| Workspace (`commandExecutor.ts`, `dataOperationExecutor.ts`, dataset/project/model stores) | active dataset, summary, manifest with its lineage, run and model history, loading flag | use, load, project, save, runs, rerun, transforms, fits, recovery | state read before an await and used after it; the recovery runs beside commands; each request may fail | the active dataset exists; models are shown with their own data; the summary is of the active data; lineage is not lost; loading ends |
| Native shell (`src-tauri/src/lib.rs`) | lock socket, window, runtime process | start, focus, close | two starts at once, stale sockets, runtimes left over | one instance; nobody leaves without a window elsewhere; one runtime serves |
| Messages, selection and trash (`messageStore.ts`, toolbar, trash panel) | messages, trash, two selections | add, select, delete, restore, clear | long sequences with stale selections, equal times | nothing lost or doubled; chronological order; selection follows |
| Comparison, charts and exports (`chartExport.ts`, `ResultFlow`, `modelComparison.ts`) | the registry of charts by run | plots mount and unmount, compare, export | a plot that goes takes down what another registered | exactly the shown event studies have a chart |
| Command grammar and parser (`commandGrammar.ts`, `commandParser.ts`, `commandDataOps.ts`) | none | complete, parse | some sixty verbs, each described three times | every option given arrives; the hint for a missing one is right |
| Request validation (`validation/*.rs`), `buildFitModelRequest` (`runtimeClient.ts`) | none | build, check | a rule written once in TypeScript and once in Rust | the two agree; no parameter of another family is sent |
| Command line input and completion (`CommandLine.tsx`, `autocomplete.ts`, `commandStore.ts`) | text, caret, menu, ghost text, correction, history, commands under way | keys, accept, recall, submit, blur | state derived from an older text; a submit that ends late | menu, hint and text fit each other |
| Data operations (`MetricaData.jl`), estimators (17 packages), daemon's action registry, rendering, scripts, the archived former desktop | none between calls | | | not modelled, section 7 |

They interact by HTTP (desktop to runtime), one bounded channel and one-shot
replies (handlers to actor), lines on pipes (session to daemon), files below a
dataset's or project's directory (runtime, daemon), callbacks (polling starts the
workspace's recovery) and process life (shell, runtime, daemon).

## 2. The modules

| module | what it is | models |
|---|---|---|
| `RequestService` | abstract: each call is worked on at most once and ends in its own answer or an error | what handlers may rely on |
| `JuliaSession` | the session from HTTP handler to daemon process | implements `RequestService` |
| `OneshotBridge` | the `--oneshot` mode | implements `RequestService` |
| `RunStore` | files and the handlers on them | |
| `HealthPolling` | polling | |
| `Workspace` | async commands on the stores | |
| `NativeShell` | instances, lock socket, runtime processes | |
| `MessageStore` | messages, trash, selections | |
| `ResultViews` | the commands that add messages, and the charts the shown ones register | composes `MessageStore` |
| `CommandGrammar` | every verb with its words and options | what completion offers |
| `CommandParser` | from a line to a model, diagnostic or data specification | extends the grammar |
| `FitRequest` | from a specification to the request that is sent | extends the parser |
| `ModelRules` | what the runtime asks of a request | extends the request |
| `CommandLanguage` | a line from its first word to what becomes of it | composes the four above |
| `Autocomplete` | what completion makes of a text and a caret | |
| `CommandLine` | the input with its menu, hints, history and late submits | extends `Autocomplete` |
| `MCJuliaSession`, `MCRunStore`, `MCNativeShell`, `MCCommandLine` | symmetry sets and constants for TLC | |
| `JuliaSessionProofs`, `OneshotBridgeProofs`, `RunStoreProofs`, `DesktopProofs`, `WorkspaceProofs`, `CommandLineProofs`, `ResultViewsProofs`, `CommandLanguageProofs` | theorems, section 6 | `DesktopProofs` is about `HealthPolling` and `NativeShell` |

The session is the one place every computation passes through, so it came first.
`RequestService` is where the layers meet. The session and the bridge implement it,
and the modules above assume nothing more: a worker of `RunStore` waits for at most
one answer of its own or gets none (`Leave`), and a request of `Workspace` or
`HealthPolling` ends in its own answer or fails. Composing the state spaces
themselves would multiply them without adding a behaviour. The command language is
composed in full, because there the question is whether four descriptions agree.

### From code to state

- **JuliaSession.** A command is `<<client, n>>`, the n-th call of a client, so that
  "the answer to another call" is something a state can say. `pc` is the program
  counter of the actor thread: `recv`, `check` (`check_alive`), `restart`
  (`try_restart`), `ready` (waiting in `start` for the ready line), `write`, `await`
  (the `recv_timeout` loop), `reply`, `closing`, `closed`; `exited` when the runtime
  is gone. `start` is reached from the boot, before a write and after an EOF; `cont`
  says which, because the three continue differently. The reader thread is merged
  with its pipe: `stdout` is its channel, `reader` whether it still reads. A daemon is
  `loading`, `idle` or `busy`, and `live` holds the generations of processes the
  operating system still runs: a process that is not killed stays in it. A timeout is
  possible in any state with nothing to read, which covers all lengths of time.
- **OneshotBridge.** `ready` is the executor's queue of handlers and health checks,
  `worker` says for which process a thread is blocked. A dropped connection may or may
  not be noticed before its handler is polled.
- **RunStore.** A file is a sequence of blocks, each of which knows the value it
  belongs to, so that "the tail of the longer manifest" exists. A table is the sequence
  of operations that made it. `std::fs::write` is two steps. A crash loses the
  handlers' state but not the command whose output the daemon is writing. `Truncated`
  stands for any part of a table, and the daemon may die or fail with the file open.
- **HealthPolling.** A poll is a record of how far its fetch has come; `intervals` are
  those that fire, `pollingId` the one the module can clear.
- **Workspace.** A job is an async function between two awaits: its command, the step
  it waits in, and the local variables it read before (`path`, `dir`, `draft`, `run`).
  A dataset is its source and the ids of the runs that derived it. The runtime serves a
  request in one step, at any time, or fails it; the answer to what was done may get
  lost, and a run that failed leaves a record all the same. `crossed` is a history
  variable: it remembers that two jobs were under way at once and exists for two
  properties.
- **NativeShell.** `path` says whose socket the file is. A listener thread that runs is
  taken to answer within its 200 ms; one that does not run yet cannot.
- **MessageStore, ResultViews.** A message is its number, `created` its millisecond.
  A chart is the number of its run; `mounted` is what React last rendered, so that
  effects of plots that left and plots that came are one step behind the store.
  While data is browsed `DataFullscreen` is rendered in the place of the flow
  (`App.tsx:184`): no message is mounted and no chart registered, though the command
  line can add messages all the while; when the table is left the plots come back and
  register again. `export plot` needs its run in the run history (`Found`) and then
  reads the registry: it answers for a registered chart only, which between a deletion
  and the next rendering may be one already in the trash. The history itself is no
  variable: a rerun enters it at once, a fit when the runs are next listed, and that can
  happen at any time without a message, so `Found` admits every recorded run.
- **CommandGrammar to CommandLanguage.** A line is its verb, a sequence of words and a
  function from options to values. Words and values are the few texts their readers
  tell apart: a column, a pair of equations, the numbers at and beyond each boundary,
  an option without parentheses (`Bare`). Numbers are in hundredths, so that the
  boundaries of quantiles and shares exist; `LargestI32`, `OnesApart` and
  `LargestDouble` stand for the ends of `i32`, of exact and of finite doubles, which
  TLC's integers do not reach. A number too large for a double (`Infinity`) and negative
  integers are not among the texts. A request records for each parameter the
  option it was made of, which is what "the option arrives" means. Each `Enter...` and
  `handle...` action is one branch of `executeCommand` in `App.tsx`.
- **Autocomplete, CommandLine.** Here a text is a sequence of letters and marks, because
  where a word begins is the question. The closing parenthesis is left out: the
  model's options are never closed. The blur timer may fire at any time after the
  input lost the focus; a command under way may end, accepted or refused, at any time.

## 3. The runs

Every run finishes in minutes with two workers.

| run | bounds | what it shows |
|---|---|---|
| `session` | 2 clients, 2 calls each, channel of 1, pipe of 2, 2 restarts, 1 stray line | `AnswersOwnCommand`, `NeverReplayed`, `OneDaemon`, `NoAnswerDiscarded`, `BudgetSpentForGood`, `NoCallForgotten`, `TypeOK` and `IInv`, the invariant the proofs use |
| `session_fair` | as above with 1 call each, 1 restart | `EveryCallAnswered`, `DaemonGoesWithRuntime`, and that the session implements `RequestService` |
| `oneshot` | 2 clients, 2 calls each, 2 threads, health checks | `ProcessesAreWaitedFor`, `EveryoneIsAnswered`, and that the bridge implements `RequestService` |
| `store` | 2 workers, 2 tasks, 2 reruns, 1 crash, 1 manifest | `RecordTellsTheTable`, `OnlyWholeTablesAreUsed`, `RerunReproduces`, `RecordsAreKept` |
| `polling` | 2 polls in flight, 3 timer ids, 1 outage, 1 unmount | `OneInterval`, `IntervalFollowsReadiness`, `SettlesOnTruth`, `RecoversOnReturn` |
| `workspace` | 2 sources, 2 jobs and the recovery, 4 commands, any one request may fail or lose its answer | `ActiveIsReal`, `ModelsNameTheirData`, `LoadingEnds` in every order; `SummaryTellsTheData`, `LineageGrows` while commands do not cross |
| `workspace_lost_lineage` (violation) | 1 source, no failures | `SavesKeepLineage` fails when a transform ends during a save |
| `shell` | 3 instances, a stale socket or none | `LeavesToAnother`, `WindowsAreServed` |
| `results` | 3 messages, 2 milliseconds, 1 event study of an earlier session | `InOnePlace`, `Chronological`, `SelectionFollows`, `ChartsAreShown` |
| `language` | every verb, lines of up to 3 words and 4 options | `OptionsArrive`, `OnlyFamilyParams`, `RuntimeAgrees`, `HintIsRight` |
| `language_documented` (violation) | as `language` | `DocumentedCommandsAreFit` fails: a line the verification guide gives for `coint` is refused |
| `command_line` | names over 2 letters, 2 marks, 1 command kept, 1 under way | `CorrectionIsShown`, `NoMenuForOldText`, `AcceptedIsRecognized` |

Only `session` checks a type invariant as such: `IInv` contains it and a proof rests on
it. The other modules state a `TypeOK` as the documentation of their variables.

Why the bounds are enough for the questions asked:

- *session*: the mix-ups need a late answer of an earlier request beside the current
  one (2 commands), of the same and of another caller (2 clients with 2 calls), with
  the channel full (capacity 1) and a generation that was itself a replacement (2
  restarts). One stray line is enough to be skipped, to come first, or to end the
  reader. Further requests only repeat these situations; the theorems drop the bounds.
- *oneshot*: 2 threads can both be blocked while a health check and a call wait.
- *store*: a rerun of a rerun, two handlers between truncation and write, and a crash
  in each of these places. One kind of operation, because tables differ by how many
  were applied and to what.
- *polling*: 2 polls can overtake each other; 3 timer ids are one more than can fire.
- *workspace*: 4 commands are open, save, transform, and one more that crosses; the
  recovery adds a fifth. Two commands cross in every pair of steps. One failure
  (`MaxFailures`) falls on any request of any command, so that each partial result is
  met; the theorems take any number.
- *shell*: a third instance meets what two others left. With two, `LeavesToAnother`
  could only be about the same pair.
- *results*: three messages in two milliseconds have a tie and an order; two go to
  the trash in one step or in two. The message of a rerun and that of its original
  can both be shown, deleted and restored, and the third is a comparison that clears.
  Data is browsed and left as often as one likes, at any point of this.
- *language*: no verb reads a fourth word differently from a third, and no decision of
  parser, client or runtime reads more than four options together. All combinations
  of values are tried, also of options that have nothing to do with each other.
- *command_line*: two letters make names of which one begins another (`r`, `rx`), a
  column and a value that share a beginning, and a word one letter away from a column
  (`MinCorrected` is 1 here and 3 in the code, so that such words are short enough).
  Two marks separate verb, word and option. The values of an option stand behind a third
  (`verb ,opt(value`), which takes TLC past its time: the run offers none of them, and
  that what is accepted there is recognized rests on the theorem
  (`WhatIsAcceptedIsKnown`), which holds for any text. One command under way can end while
  the next line is typed or a menu is open; one in the history can be recalled into
  any text.

Every bound is a guard on a counter (`MaxCalls`, `MaxNoise`, `MaxTasks`, `MaxClock`,
`MaxCrashes`, `MaxOutages`, `MaxStops`, `MaxCommands`, `MaxRecoveries`,
`MaxMessages`, `MaxTime`, `MaxWords`, `MaxOptions`, `MaxLetters`, `MaxMarks`,
`MaxHistory`, `MaxRunning`). Systems that stop when a counter is used up, or when every
call is made and the runtime is gone, have `CHECK_DEADLOCK FALSE`; polling, results
and the two command modules are checked for deadlock. Symmetry is used only in runs
without liveness properties.

Each property is also run against a mutant of the code's definition it depends on (the
definitions marked `mutant`, listed in `PROJECT.json`): an answer taken without
comparing ids, a process that is not killed, a table named after the wrong run, a path
read after the await, a parameter that is not copied, a bound off by one, a menu kept by
a late `clearInput`, and so on. The property is violated in each.

## 4. Fairness

- `JuliaSession`: weak fairness of the actor thread, whose waits all end: in a line, an
  EOF or a timeout (`recv_timeout`), except the write to a full pipe, which is
  not enabled until there is room. Weak fairness of the reader's EOF. Strong fairness of `Send`, because
  tokio's bounded channel serves waiting senders in turn. No fairness at all for the
  daemon: it may hang for ever, and `EveryCallAnswered` holds all the same.
  `DaemonGoesWithRuntime` has its own premise, that the daemon's computations end; the
  code can do nothing about one that does not. `EveryCallAnswered` holds in
  `session_fair` because the pipe takes both requests; section 5 says what happens
  when it does not. `FairHungSpec`, for that question, is a daemon that reads but may
  hang in a computation.
- `OneshotBridge`: a free thread takes the next task and leaves `output()` when the
  process has ended. That processes end is a premise of `EveryoneIsAnswered`, not a
  part of the specification: the code has no timeout.
- `HealthPolling`: the event loop fires intervals and runs continuations; each fetch
  ends. The runtime's own changes have no fairness.
- `Workspace`: for each job, its request is answered or fails (what `RequestService`
  promises) and its continuation runs. Commands are the user's and have no fairness.
- The other modules state no liveness: their steps are the user's, or one function of
  a line.

## 5. What the checks show, and where code and documents part

The two violation runs:

1. **A transform that ends during a save is lost from the lineage**
   (`commandExecutor.ts:652`): the manifest read before the await replaces the newer one.
2. **Commands the verification guide lists are never fitted**
   (`validation/required.rs:41`): `coint y x, time(time)` is sent without the `ts_method`
   the runtime requires. The guide's lines for `eventstudy` (no `post`), `ipw`, `psm` and
   `aipw` (no propensity formula) fail the same way. `bayesreg`, `gwr`, `gtwr` and
   `spprobit` are completed and then refused, because `MODEL_VERBS` of the parser lacks
   them.

Three statements of the documents that do not hold stand in the modules without a run:

- `FairHungSpec` with `EveryCallAnswered` (`JuliaSession`, take `PipeCap = 1` and a
  second call): requests that time out leave their line in the pipe; when it is full,
  `writeln!` (`julia_session.rs:175`) blocks, and with it the only actor thread.
- `SavedProjectOpens` (`RunStore`, take two manifests of different length): of two saves
  at once, the shorter one written last does not cut off the longer
  (`persistence.rs:40`), and `project.json` does not parse.
- `SingleInstance` (`NativeShell`): between `bind` and the listener thread the window is
  built and nobody answers (`src-tauri/src/lib.rs:425`), so a second start replaces the
  first one's socket.

Seen while modelling, without a statement of their own.

Runtime:

- `CSV.write` may throw with the output open (`serialize.jl:124`; the daemon catches it,
  `julia_daemon.jl:547`): the run is recorded as failed and a part of its table stays at
  the path its answer and its record name (`handlers.rs:189`). That a failing step writes
  no table (`docs/architecture/runtime-protocol.md:540`) holds of the steps of the chain,
  not of the write. `OutputFails` of `RunStore` is this, and `OnlyWholeTablesAreUsed` that
  nobody computes with the part.
- `run_id` of a rerun is `rerun-` and a millisecond clock (`handlers.rs:379`). Two in
  one millisecond share record and table. The `store` run and the theorems about it
  assume they are further apart (`SpacedReruns`).
- A timed-out request leaves the daemon running (`julia_session.rs:207`), where
  `docs/architecture/runtime-protocol.md:369` speaks of killing it. The late answer is
  harmless (`AnswersOwnCommand`) but the next request waits behind it.
- A daemon that dies while idle is only noticed by the next request
  (`julia_session.rs:153`), though `runtime-protocol.md:370` reads as if by itself.
- `/health` (`handlers.rs:30`) sends no `restart_count`, which the desktop reads
  (`runtimeClient.ts:749`); after the first check no banner tells that Julia is down
  (`App.tsx:159`), against `docs/architecture/app-shell.md:37`.
- `EventLoop::run` never returns, so `RuntimeGuard` is not dropped on closing the
  window and the runtime stays (`src-tauri/src/lib.rs:482`). The next window's own
  runtime starts a Julia, finds the port taken and panics (`main.rs:52`); the window is
  served by the old one, whose restarts of Julia may be spent. `WindowsAreServed` says
  that no window loses its runtime to another's closing; it would not hold if the guard
  were dropped while two windows are open.

Polling and workspace:

- After a failed poll `prevJuliaHealthy` keeps its old value (`healthPolling.ts:36`), so
  the first healthy answer after an outage does not reload the project. After an
  unmount a late poll can arm a new interval. `RecoversOnReturn` is stated for the
  time without either.
- While commands cross, the summary shown can be that of another dataset.
- A load replaces the manifest without asking, that of the recovery after a restart of
  Julia as well (`commandExecutor.ts:81`): operations run since the last save are no
  longer in the lineage, though their tables and run records stay. `isDirty` is set and
  never read. Operations run before the first save are in no lineage at all
  (`projectStore.ts:92`). `LineageGrows` says that nothing else is lost while commands
  and recoveries do not cross.
- `handleModel` does not add its run to the run history. After a successful fit `export
  markdown` without an id answers that no model was fitted (`commandExecutor.ts:447`)
  until `runs` was entered, as the tutorials do; after a fit and a transform `runs` looks
  in another directory. `export plot` of a fresh fit is refused for the same reason
  (`commandExecutor.ts:397`), as a run without charts. A `runs` answer made before a
  rerun was recorded can replace the history that has it. `export` reads the working
  directory only after the save dialog has closed (`commandExecutor.ts:470`).
- Diagnostics refit the last formula on the dataset active by then. A model without a
  formula (`arima`, say) keeps the formula of the one before it and replaces its type
  (`applyModelSpec` in `modelStore.ts`), so the diagnostics after it join the two.
- While data is browsed the result flow is not there (`App.tsx:184`), and with it no
  chart is registered: `export plot` answers that the run has none until the table is
  left (`ChartsAreShown`).
- `compare clear` removes messages and leaves them selected (`messageStore.ts:85`):
  `SelectionFollows` names exactly this exception. `trash list` looks for deleted
  messages among the shown ones (`commandExecutor.ts:555`) and finds the trash empty
  always.

Command language (`LeftOut` in `CommandLanguage` lists what `OptionsArrive` excuses):

- `cluster` is dropped for `qreg`, `nls`, `threg`, `sur` and the spatial regressions,
  `method` for `xtivreg`; `maxiter` and `tol` are offered for `arch` and never read.
- "与 Runtime 校验一致" (`commandParser.ts:507`) is not so everywhere. `maxiter(...)`
  (`commandParser.ts:253`, `:420`, `:538`) and the `lags(...)` of a time series (`:485`)
  have no upper bound, and `kind.rs:25-38` refuses what is no `i32`. `grid(min max n)` is
  said to be expanded "为等距严格递增数组" (`commandParser.ts:203`), but nothing looks at
  the points: `grid(1e16 10000000000000002 5)` gives equal ones, which
  `model_rules.rs:187-199` refuses, and `grid(-1e308 1e308 5)` gives `NaN`, which is
  `null` in the JSON and does not parse. `RuntimeAgrees` excepts exactly these
  (`Unbounded`, `LostInExpansion`); the run holds a line of each.
- `endogenous` without parentheses throws a `TypeError` instead of a message.
- The protocol's type spells a panel method `hdfde` (`protocol.ts:656`), the grammar
  `hdfe`.

Command line (`CommandLine.tsx`):

- A column whose name holds a space, a comma or a parenthesis is taken over from the file
  as it is (`query.jl:64`) and completed, but the line cannot be parsed back into it.
  `NamesAreWords` leaves such names out.
- Text typed while a command runs is wiped when it ends (371); Enter twice submits
  twice. Ghost text is computed at the caret and put at the end of the line (436).
  ArrowDown below the newest entry wipes what was typed (452). The key-up that follows
  a key hides the correction (347). A rendering restarts the timer of the feedback (110).

## 6. Proofs

Every theorem holds for any value of the constants that the named assumption of its
module admits; the bounds of the runs are not among them.

| module | theorem | statement | assumes |
|---|---|---|---|
| `JuliaSessionProofs` | `TypeCorrect` | `Spec => []TypeOK`: types, and at most one process per restart charged, plus the first | `SessionAssumption`: bounds are numbers, channel and pipe hold at least one |
| | `OwnAnswers` | `Spec => []AnswersOwnCommand` | |
| | `BudgetIsFinal` | `Spec => BudgetSpentForGood` | |
| | `Invariance` | `Spec => []IInv` | |
| | `OneDaemonOnly` | `Spec => []OneDaemon` | |
| | `BegunOnce` | `Spec => []NeverReplayed` | |
| | `NobodyForgotten` | `Spec => [](NoCallForgotten /\ NobodyCalls)` | |
| | `AnswerKept` | `Spec => NoAnswerDiscarded` | |
| | `Refinement` | `Spec => ImplementsRequestService` | |
| `OneshotBridgeProofs` | `OneThreadEach` | `Spec => []ProcessesAreWaitedFor` | `BridgeAssumption`: there is a thread; the markers are no commands |
| | `NobodyForgotten` | `Spec => [](NoCallForgotten /\ OnlyWhileUp)` | |
| | `Refinement` | `Spec => ImplementsRequestService` | |
| `RunStoreProofs` | `RecordsTell` | `Spec => []RecordTellsTheTable` | `StoreAssumption` (numbers, sizes of manifests, markers apart) and, as the premise of each theorem, `SpacedReruns` |
| | `PartialTablesStayUnused` | `Spec => []OnlyWholeTablesAreUsed` | |
| | `Reproducible` | `Spec => []RerunReproduces` | |
| | `RecordsStay` | `Spec => RecordsAreKept` | |
| `DesktopProofs` | `IntervalInReach` | `Spec => []OneInterval` | `PollingAssumption`: timer ids are not 0 |
| | `PaceIsRight` | `Spec => []IntervalFollowsReadiness` | |
| | `ReloadsOnReturn` | `Spec => RecoversOnReturn` | |
| `WorkspaceProofs` | `ActiveExists` | `Spec => []ActiveIsReal` | `WorkspaceAssumption`: the recovery is no command; the markers are no data and no answers |
| | `ModelsKeepTheirData` | `Spec => []ModelsNameTheirData` | |
| | `LoadingHasAnEnd` | `Spec => []LoadingForSomebody` | |
| | `LineageOnlyGrows` | `Spec => LineageGrows` | |
| | `SummaryIsOfTheData` | `Spec => []SummaryTellsTheData` | |
| `DesktopProofs` | `NobodyTakesTheRuntime` | `SpecShell => []WindowsAreServed` | `ShellAssumption`: the markers are no instances |
| | `NobodyLeftAlone` | `SpecShell => LeavesToAnother` | |
| `CommandLineProofs` | `TypeCorrect` | `Spec => []TypeOK`: caret, history place and selected item are within what they point into | `BoundsAreNumbers`, `NamesAreWords`: letters are no marks, and verbs, options, values and columns are made of letters |
| | `HintFollowsMenu` | `Spec => []CorrectionIsShown` | |
| | `MenuFollowsText` | `Spec => NoMenuForOldText` | |
| | `WhatIsAcceptedIsKnown` | `Spec => AcceptedIsRecognized` | |
| `ResultViewsProofs` | `EachInOnePlace` | `Spec => []InOnePlace` | `MessageStoreAssumption`, `ResultViewsAssumption`: the bounds are numbers |
| | `InOrderOfTime` | `Spec => []Chronological` | |
| | `SelectionIsReal` | `Spec => []SelectionFollows` | |
| | `ChartsOfTheFlow` | `Spec => []ChartsAreShown` | |
| `CommandLanguageProofs` | `GivenOptionsArrive` | `Spec => []OptionsArrive` | none: lines of any length with any of the options |
| | `ParamsOfOwnFamily` | `Spec => []OnlyFamilyParams` | |
| | `ParserAndRuntimeAgree` | `Spec => []RuntimeAgrees` | |
| | `CompletionIsRight` | `Spec => []HintIsRight` | |

### The session

`IInv` is `LinesInv`, `OneDaemon`, `ProcessOwned` and `OnceInv`. TLC checks it as an
invariant of `session`; each part is there because the property it serves is not
inductive by itself.

**Answers (`LinesInv`).** `AnswersOwnCommand` speaks of what callers have received and
says nothing of the lines under way. `LinesInv` adds what the id check relies on:

- `LinesOK`: no line in either pipe, and no request in the daemon's hands, carries an
  id beyond `request_counter`; while the actor awaits the answer to request `counter`, a
  line with that very id carries the actor's command. `WriteRequest` establishes it:
  it counts up first, so every older line has a smaller id, and the one line it adds has
  the new id and the new command. A timeout keeps it: lines that stay in the channel
  are harmless because the next request gets a higher number. A restart keeps it: it
  empties the pipes and not the counter.
- `CommandInHand`: while the actor works, `cmd` is a command and a restart knows
  whether it came from a write or an EOF, never from the boot.
- `ResultOwn`: an ok result in the actor's hands is the answer to `cmd`. `ReadAnswer`
  gets it from `LinesOK` by the comparison of ids; `Reply` turns it into
  `AnswersOwnCommand` by `StillWaits`.

It is proved one lemma per part (`HttpTypesStep`, ..., `AnswersOwnStep`), each with a
step per action that can disturb it. `LinesKept` is the case of every step that only
removes lines or adds lines without an id.

**Processes (`ProcessOwned`).** `Restart` kills the session's child, not "the newest
process", so `OneDaemon` needs that the two are the same whenever the actor is not
inside `start`. `OwnedStep` is the whole argument.

**Once (`OnceInv`).** A command passes through its caller, the channel, the actor's
hands and the pipe. `UnsentFresh`, `QueueFresh` and `CmdFresh` say that it is in one of
these places at a time and that no line mentions it before it is written;
`RequestsFresh` that a request line still in `stdin` was not begun and is the only one
for its command. Calls are numbered, so a command sent is not sent again
(`UnsentStep`); only `Recv` brings a command into the actor's hands (`HandStep`), and
only `WriteRequest` writes one (`WrittenStep`), after which the actor no longer counts
as holding it unwritten: on an EOF it replies with an error instead of going back to
`write`. `BudgetSpent`, failed starts and broken pipes lose a command and never double
it. `BegunStep` draws `NeverReplayed` from it. `AnswersKnown` is the converse of
`LinesOK`: a line with the awaited command has the awaited id, because that command is
on one line only; `AnswerKept` follows from it.

**Refinement.** `Seen` shows of a call whether it is open, its number, and whether its
end was an error or its own answer. `Call`, `HangUp`, `RuntimeExit` and `DaemonRead`
are `Ask`, `Leave`, `Fail` of all open calls, and `Work`; `Reply` is `Answer`, `Fail`
of one call, or a stutter when its receiver is gone; the rest stutter. `Answer` needs
that the work was begun (`AnswersBegun`), `Work` that it was asked for and not begun
(`UnsentFresh`, `RequestsFresh`).

**Nobody is forgotten.** `NoCallForgotten` is the half of `EveryCallAnswered` that needs
no fairness: who waits has his command in the channel or in the actor's hands. A
command leaves the channel only for the hands (`QueuedStep`, `HeldStep`) and the hands
only with a reply; every return of `send_request` passes through `reply`. For the actor
that leaves its loop `NobodyCalls` is needed: before the first daemon is ready and after
the channel closes no handler is under way.

`BudgetIsFinal`: with `restarts = MaxRestarts` the only action that creates a process,
`Restart`, is not possible, since `KillOldAndCharge` would count past the budget.

### The one-shot bridge

`BridgeInv` follows a command from the call to the end of its process: waiting for a
thread it was asked for, has no process and waits once (`ReadyFresh`, `ReadyOnce`); a
blocked thread waits for a process that was begun, alone (`BlockedBegun`,
`BlockedApart`); while the runtime is up each running process has such a thread
(`RunsAreBlocked`); what a client holds is the answer to its last call (`GotOwn`). Each
part is what the next one needs when a thread takes a task or a process ends. The
refinement then maps each action to one of `RequestService`, as for the session.

`NoCallForgotten` here says that who waits has a task in line or a thread blocked for
his process. A task leaves the line refused, for a thread, or with its caller
(`LineStep`: a caller that hangs up takes its own task out of the middle); a thread is
freed by `Return`, which replies (`ThreadStep`).

### Files

`StoreInv` has four layers. `Types`. `Files`: a file is absent, truncated, or one whole
value; there is no mixture, because each file is created once. `Life`: why it is created
once: an id is in the queue, then in one worker's hands, then on disk, and in one place
at a time (`JobsFresh`, `JobsApart`, `HandsFresh`, `HandsApart`); ids come from a counter
or from the clock, and two reruns are further apart than the clock's tick
(`SpacedReruns`; without it `JobsApart` is false). `Story`: what a run says is true
(`FollowsInput`, `Tells`, `Grounded`) in each of these places, and so is what a client
was told (`AnsweredWhole`), which persists because the tables it speaks of are never
written again. TLC checked the parts on the
instance of the `store` run before they were proved. `RerunReproduces` follows because
a rerun and its original both follow from the same whole table.

### Polling, shell, command line

- `IntervalInv` joins `OneInterval` and `IntervalFollowsReadiness` and adds that without
  an interval in hand Julia counts as not ready, so that the next one starts fast. `HealthInv` relates, for the time without an outage
  and an unmount, `prevJuliaHealthy` to the shown state, so that a return is seen in one
  exactly when it is in the other.
  The pace is that of the flag `isJuliaReady`, which only `stopHealthPolling` takes
  back, not of what the store shows of Julia.
- `ServedInv` says that what was not started has no runtime, so that no runtime that
  gave up or died is forgotten, and that the holder of the port serves. `LeaveInv` says whose the
  socket file is: that of an instance on its way up (`FileOfOneUp`), that whoever waits
  for an answer waits for another (`WaitsForAnother`), and that a stale file does not
  survive the removal (`NoStaleAtBind`).
- `CorrectionIsShown` and `NoMenuForOldText` of the command line are inductive by
  themselves; the proofs go through every operation once, by how it changes the menu
  (`Edited`, `Kept`). `TypeCorrect` is proved separately: accepting, recalling and
  closing a menu move the caret and shorten the lists the places point into.
- `AcceptedIsRecognized` holds of a step from any state of the right types; the argument
  is about the functions of `Autocomplete`. An accepted item replaces the word before the caret, so
  the new text agrees with the old one up to the last mark (`AgreeTo`, `Completes`).
  Two texts that agree so far have the same last comma, the same starts of words, the
  same verb and the same open option, and completion is therefore in the same context
  (`SameContext`); in that context each name suggested before is one the line knows
  (`SuggestedAreKnown`). `Accepting` says that an accepted item makes such a text, `Recognizes`
  joins the three. That a name contains no mark (`NamesAreWords`) is what keeps the last
  mark where it was.

### Workspace

- `WorkspaceInv`: what an async function carries over its awaits is sound. The path it
  reads again, the draft it will write, the answer under way belong to files that
  exist and to what was asked (`CarriesFiles`, `AnswerFits`), and files never go away.
- `LineageInv`: as long as jobs did not cross, at most one is under way (`Alone`), and
  the draft of a save has the lineage of the store (`DraftIsFresh`). What the open
  project has on disk is the beginning of what is shown of it (`ProjectShown`), and the
  manifest a save or a load comes back with is still the one on disk (`AnswerShown`), so
  a load drops unsaved operations and no others.
- `SummaryInv`: as long as jobs did not cross, the summary is known to fit (`Known`) or
  a load stands between its two steps, and a job that holds a path holds the active one
  (`PathOK`).
- `LoadingForSomebody` is the half of `LoadingEnds` that needs no fairness: while the
  loading sign is on, a command of the user has a step to go. Any `Finish` of a command
  turns the sign off, also while another command runs, so the converse does not hold;
  the recovery's leaves it alone and is not a command.

### Messages and charts

`ViewInv` is inductive: `StoreInv`, what the messages' store keeps under every
operation, and two parts about charts.

- `StoreInv`: `StoreTypes`; `TimeGoesOn` (no message is younger than the clock, which
  `AddMessage` needs to stay in order); `InOnePlace`; `Chronological`;
  `SelectionFollows`. The operations filter and sort. The filters `In` and `Without` and
  the sort `ByCreation` are recursive functions, and what they return is shown from their
  defining equations: `LeastNat` (a non-empty set of numbers has a least one) picks the
  shortest prefix for which a statement would fail, and the equation refutes it. From
  this come what a filter contains, that it repeats nothing and keeps the order
  (`InKeeps...`), and that insertion into an ordered sequence is ordered.
- `OwnRuns`: the message of a fit or a rerun names a run of its own, so no two plots in
  the flow register under the same run. Without this a plot that leaves would take down
  the chart of another.
- `ChartsFollow`: the registered charts are those of the event studies mounted last. A
  rendering first lets the plots that left unregister, then registers those that came;
  by `OwnRuns` the two sets of runs are apart. What is mounted is the flow or, while data
  is browsed, nothing (`Shown`), so `ChartsAreShown` follows for both.

### The command language

`Answers` is inductive and says what a line and its answer are: `LineInv` (words and
options are of the grammar's verb and of the finite set of texts the readers tell apart;
nothing bounds how many), `Modelled` (the parameters of a request are those
`buildFitModelRequest` makes of the specification the parser makes of the line) and
`WithoutOption`. The four theorems are then about these functions, not about steps:

- *Families* (`ParamsOfOwnFamily`): a request is put together as layers of parameter
  tables with the grammar's own `@@` and `:>`; the domain of a layered table is the union
  of the domains of its layers, and each layer belongs to the family of its model type.
- *Agreement* (`ParserAndRuntimeAgree`): type by type, what the parser lets through is
  within what `model_rules.rs` and `model_params.rs` allow, but for three named sets: the
  parameters the parser leaves to the runtime (`LeftToTheRuntime`), the integers it does
  not bound that are no `i32` (`OrdersAreNarrow` shows that these are not the orders of
  the volatility models) and grids lost in their expansion.
- *Hints* (`CompletionIsRight`): each row of the grammar (`GrammarRows`) marks as
  required what the verb's handler asks for.
- *Arrival* (`GivenOptionsArrive`): an option that is given is read into a field of the
  specification (`OwnArrives`, verb by verb, `PlainArrives` for the options all
  estimators share), and the field is copied into the request under the parameter that
  names it (`WhatIsCopied`); a later layer does not hide it (`Carried`). What is left out
  is `LeftOut` and nothing else (`WhatIsLeftOut`).

### Only model-checked

Liveness under fairness and `ENABLED` are out of the prover's reach: `EveryCallAnswered`,
`DaemonGoesWithRuntime`, `EveryoneIsAnswered`, `SettlesOnTruth`, `LoadingEnds`. Of three
of them the half that needs no fairness is proved (the two `NobodyForgotten`,
`LoadingHasAnEnd`): whoever waits, somebody has his request in hand; that this somebody
goes on is what TLC checks. Every invariant and action property of a passing run is
stated by a theorem. `LoadingForSomebody` and the bridge's `NoCallForgotten` are in no
run; TLC checked them on the instances of `workspace` and `oneshot` before they were
proved. The library's induction theorems cannot be used either, which is why the proofs about
sequences go by a least counterexample. There is no `RECURSIVE` operator in any module;
recursion is by functions.

## 7. Not modelled, and why

- Estimators (17 packages): floating-point functions of their input, tested against
  golden datasets.
- Data operations on tables and the daemon's choice of a package function: functions of
  one input, whose results the modules take as nondeterministic outcomes.
- Of the validation: the file of spatial weights (`mod.rs:19`) and the rules of `gwr` and
  `gtwr` (`model_rules.rs:249`), whose requests no command line builds.
- `nativeHost.ts` and the rest of `runtimeClient.ts`: one request per call, no state.
- Which runs `compare` accepts and the tables it makes, diagnostics, exported texts: they read
  the stores and change nothing but messages, which `ResultViews` has.
- Rendering, translations, output files: formatting.
- In `Workspace`: message output, the transform history (in step with the run history),
  row counts, `isDirty` (never read), and commands that only show. In `RunStore`:
  requests refused before the dispatch, and handlers that only read. In `NativeShell`:
  dialogs and menus. In `CommandLine`: where the menu is drawn, selections of more than a
  caret, pasted text.
- `src-vanilla-archive`, scripts, benchmarks, data: not part of the running program.

## 8. What comes next

1. `DataOps`: `operate_chain` with transform, combine, join and reshape as operators on
   small tables, against reference definitions; then `RunStore`'s tables become these.
2. The model store with diagnostics, compare and export as commands of `Workspace`: the
   last model's formula, type and data beside the active dataset. A property needs a
   statement of which data a diagnostic is about, which the documents do not give.
3. Proofs: that `RequestService` is all `RunStore` and `Workspace` assume of the layer
   below, stated as a refinement of the handlers' use of it; the safety half of
   `SettlesOnTruth` (while the shown state is stale, a poll is in flight or an interval
   will start one).
