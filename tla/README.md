# Metrics Fetcher in TLA+

A verification project for `src/mscstat`, the Windows service that collects
performance counters into SQLite, runs user scripts, predicts, and serves a
local HTTP API. TLC checks small instances of the models; TLAPS proves the
theorems in the `*Proofs` modules for every value of the constants.

## 1. The system

| Part | State | Operations | Talks to |
|---|---|---|---|
| `ThreadManager` | one task queue per thread, `should_stop`, one condition variable | `AddTaskToThread`, `Stop`, destructor, `ThreadFunction` | runs everything below that is not on the main thread |
| `MetricsManager` | `isCollectingMetrics_`, `counter`, providers | `StartMetricsCollection` (thread 0), `StopMetricsCollection` | sends one task per provider per loop, calls `ScriptManager::Process` |
| Metric providers (CPU, RAM, Process, Storage, Network) | `latestValue`, a PDH query | `RetrieveMetricValue`, `Persist` | rows through `DataManager` |
| `ScriptManager` | the vector `scripts`, `should_stop`, the table of the same name | `Initialize`, `SaveScript`, `UpdateScript`, `DeleteScript`, `Process`, `Stop` | called by the server's handlers and by thread 0; sends one task per script |
| `Script` | Duktape context, `ctxMutex`, `metricCounter` | construct, execute, persist, destroy | rows through `DataManager` |
| `ConfigManager` | one `MyConfig` | `LoadConfig`, `ParseJSONString`, `GetConfig` | `Application`, `Server` |
| `Application`, `main` | pointers to the singletons, the signal flag | `Initialize`, `Run`, `Stop`, `SaveConfigData` | creates and stops all |
| `Server` | routes | handlers, one request at a time on the main thread (restbed's default) | `Application`, `ScriptManager`, `MetricsManager` |
| `IntelligenceManager` | `active`, an error count | `Start` (thread 1), `Predict` | a Python process, a message box |
| `DataManager`, `Row` | an SQLite handle | insert, upsert, update, delete, select | everyone |
| `Utils`, `LogManager`, `python/`, web client, libraries | none of interest | wrappers, logging, batch work, assets | |

What is hard here, and what makes each part correct:

* **Pool.** The wait uses a mutex of the thread's own, so a notification can be
  lost; the emptiness of a queue is tested before the lock; `Stop` wakes nobody.
  Correct means: no task lost, repeated or overtaken, `front()` never on an
  empty vector, few tasks after `Stop`, nobody inside when the members go.
* **Collection.** Tasks of one loop run during later loops, two tasks of one
  provider share `latestValue`, the flag is raised and lowered by different
  threads. Correct means: rows that belong to one task, counters that are never
  early, loops that are complete, a loop that ends.
* **Scripts.** Two stores, the table and the vector, changed one after the
  other with failures and deaths in between; a vector that requests change while
  tasks hold addresses of its slots. Correct means: the stores agree, answers
  are kept, a task works on one live script alone.
* **Configuration.** A document takes effect only at the next start, through
  three conversions, past an environment variable. Correct means: what is stored
  can be loaded, what was accepted takes effect, what is shown is what runs.
* **Life of the application.** Signals, an early failure of the server, static
  destruction, restarts over what an earlier start left on the disk. Correct
  means: it ends, nothing runs on what is destroyed, and what was extracted
  whole stays so.
* **Requests.** restbed calls a handler on one thread, but a body may come after
  the handler has returned, or never. Correct means: an answer says what was
  done, what was answered is over, and every request ends.
* **Predictions.** A retry loop with an error budget, a message box that holds
  its thread. Correct means: it never spins on a failure.

PROJECT.json lists the hazards line by line, and which property is aimed at each.

## 2. Modules

* **`TaskPool`** is the abstract specification of the pool: `Submit`, `Accept`,
  `Begin`, `Stop`, with queues and no locks.
* **`ThreadManager`** is the code: `pc` has one place per point of
  `ThreadFunction` where another thread can come in (`while`, `predicate`,
  `block`, `asleep`, `check`, `lockTasks`, `run`, `leave`, `exited`), `call`
  the same for callers of `AddTaskToThread`, `closing` and `joined` for the
  destructor, which also comes unstopped, when `main` has caught an exception.
  `accepted`, `begun`, `late`, `roaming`, `fresh` are history.
  `PoolSpec` instantiates `TaskPool` with `queue <- tasks`,
  `stopped <- should_stop`.
* **`PoolLife`** is the other abstract specification of the pool, of its beginning
  and end: threads begin with it, one that has found a task takes it though `Stop`
  comes in between, none looks again after `Stop`, and the pool goes when all have
  left. `ThreadManager` implements it (`LifeSpec`: a thread `waits`, `takes`, `runs`
  or has `left`), and so does the pool `Lifecycle` keeps, so that what `Lifecycle`
  leaves out of the pool is left out of something the real one was shown to be.
* **`MetricsManager`** composes `TaskPool` (INSTANCE, its actions change the
  pool's variables) with the main thread of `Application::Run` and `Stop`, the
  loop on thread 0, the providers' tasks and the scripts' tasks. The five
  providers have one shape, so a provider is a number. A script persists as often
  as it likes (`Persist`, up to `MaxPersists`), in its text, which runs before its
  task sets `metricCounter`, and in `execute()`. Of `Run` after the server has
  returned only the first `Stop` is here; the loop back to the server and the second
  `Stop` are in `Lifecycle`.
* **`QuotedNames`** is how SQLite reads a script's name between double quotes:
  `Hits(n, names)` are the rows that a `WHERE` clause about `n` may be true of. If
  the word is the column `name`, in any case, these are all rows; if it is another
  column, whichever happen to hold their own name there, usually none; else the row of
  `n`. Scripts, their store and the server use it.
* **`ScriptStore`** is the abstract specification of the script API: a text per
  stored name, a text per running name, and edits that change first the one and
  then the other, or get stuck between them. Which stored names a statement changes
  is `Hits`.
* **`ScriptManager`** has the table (`rows`), the vector (`slots`, `size`,
  `capacity`, `buffer`), the objects (`heap`), the request being handled, the
  walk of `Process`, and the tasks. A task holds a slot and a buffer number, and
  `Deref` reads the slot again at each statement, as `script->...` does. A
  null slot stops the task and the process is lost (`Crash`); an object that was
  destroyed is found as it was left, or the process is lost. `StoreSpec`
  instantiates `ScriptStore`: `TextIn` gives the text of a name in the table and
  in memory, and `request` gives the edit.
* **`Configuration`** follows a document from `putConfigHandler` to the table,
  to `LoadConfig` at the next start, to the managers and the server. `SaveConfigData`
  pastes the text between single quotes: with one in it, the row holds anything
  afterwards (`Pasted`), also when the statement is refused, since only a later part of
  it may be. `IntHalf` is 2^31, where `predictionInterval` becomes negative.
* **`Server`** has sessions: the head of a request, its body at once or late, the
  handler, the callback of `fetch` inside it or after it, `errorHandler`. The
  handlers change what `Configuration` and `ScriptManager` follow in detail, here
  a stored document and two sets of names; a deletion removes the rows its clause
  hits (`QuotedNames`) and succeeds whether these are one, all or none. Web pages are
  a tree of files;
  `GetAllFilePaths` says which paths have a route, and `getIndexHandler` which
  file a path gets.
* **`Deployment`** is the disk: a folder and its files per root, and the
  constructor of `IntelligenceManager` that extracts them with
  `Utils::ExtractZip`, which may fail or die at each entry.
* **`Intelligence`** is the loop of `IntelligenceManager::Start`.
* **`Lifecycle`** composes the two (INSTANCE, their variables are its own) with
  `main`, `Application::Initialize`, `Run` and `Stop`, the static objects in
  `built`, and the threads of the pool, start after start. Of `ThreadManager` it
  keeps what ending depends on: a thread that has decided to take a task takes it,
  one that sees the pool stopped leaves, and one that waits may wait for ever. Of a
  task it keeps the objects it uses (`UsedBy`). `LifeSpec` shows that this is a
  `PoolLife`, once per start of the program.
* `MC*` modules and `.cfg` files hold the instances; `ThreadManagerProofs`,
  `MetricsManagerProofs`, `CollectionProofs` (which goes on from it),
  `ScriptManagerProofs`, `ScriptTaskProofs` (likewise), `ConfigurationProofs`,
  `LifecycleProofs` and `ServerProofs` the proofs.

Operators marked "Mutant" are alternative bodies of the definition that
follows them, the way a plausible slip in the code would make it; each property
has one that breaks it, to show that the property depends on the code.

## 3. What the runs show

| Run | Instance | Result |
|---|---|---|
| `pool` | 2 threads, 2 tasks, one endless, fairness | 4 invariants, that `ThreadManager` implements `TaskPool` and `PoolLife`, that its threads wind down after `Stop`, which step alone strands one, and what a lost wake-up cannot prevent |
| `pool_lost_wakeup` | 2 threads | **violated** `WaitsOnlyIfEmpty`: a thread sleeps on a non-empty queue |
| `collect_providers` | 4 threads, 1 provider, 2 loops | rows (one per provider's task, of one task), counters and loops; two free threads let two tasks of one provider meet |
| `collect_scripts` | 3 threads, 1 script, 2 loops, 2 rows a task, fairness | rows that a script's `execute()` and its text persist; the loop ends, tasks return |
| `collect_torn` | 4 threads, 1 provider | **violated** `CounterOfSample`: shared `latestValue` |
| `config_safety` | 5 documents, 3 environments | 4 invariants of the configuration |
| `scripts_safety` | 2 of 3 names, 2 texts, 2 threads | table, vector, answers, tasks, and that `ScriptManager` implements `ScriptStore` |
| `life` | 3 threads, `MCLimits`, fairness | what can keep the program from ending, what outlives the threads, what stays on the disk, that predictions do not spin, that the pool is a `PoolLife` |
| `life_destroyed` | the same | **violated** `NothingUsedAfterDestruction`: scripts and AI are made after the pool, so they die before its threads are joined |
| `deploy_partial` | archives of 2 files | **violated** `RootsComplete`: half an extraction is taken for one |
| `server` | 2 sessions, `MCScenes`, fairness | what each answer has done to the stores, late bodies, pages |
| `server_late_body` | the same | **violated** `ValidConfigAccepted`: a body that comes late is taken for none |

A violated run states what a comment or message in the code says; PROJECT.json
quotes it under "findings".

Where the promise is conditional, the condition is in the property. `RowIntact`
excepts providers two of whose tasks have met, and says of what the text of a script
persists only that its counter is not ahead: there `metricCounter` is still what an
earlier task has left. `InStep` and `AnswersKept` hold until a statement about a
column's name has gone `amiss`: has hit the row of another script, or not its own.
`AnswersTrue` says what is left: a deletion answered 200 leaves no row of that name,
unless it is another column's, and touches no other row, unless it is a column's.
`StoredLoads`, `AcceptedTakesEffect` and `RefusedUnchanged` hold but after a document
with a single quote in its text. `UndisturbedTasks` speaks of tasks under
which no request has changed the vector. The checker found the last condition
to be needed twice over: a task that was disturbed strays into the object its
slot leads to now, without its mutex, and destroys the context of a later task
that was not disturbed. `strayed` remembers this. `OutlivesPool` leaves out the
two objects `life_destroyed` is about. `OnlyTheseHang` says of an ending program
what it can wait for, and nothing else: a server that does not return, a thread
that waits in the pool or predicts, a collection whose flag was raised after
`Stop` had lowered it.

### Bounds

* Pool: two tasks suffice for "two in one queue", "one in each", "one endless";
  two threads for one that calls or leaves and one that is called or asleep. The
  safety properties are proved for every number of threads and tasks (section 4).
* Collection: `Cycles = 2` loops, the least at which tasks of two loops meet;
  `CounterRange = 4` stands for the 65536 values of UINT16, and does not wrap
  within the runs. `MaxPersists = 2` rows per task of a script: two in its text, two
  in `execute()`, or one in each.
* Scripts: `Limits` is a set of bounds, one chosen per behaviour: three changes
  and two lives without tasks; three tasks beside one change (two tasks of one
  script and one of another); one task beside two changes (an erase followed by
  an append). The table starts with anything earlier lives can have left. The names are
  an ordinary one and `Name`, with which a deletion empties the table; or the ordinary
  one and `timestamp`, with which it removes what it may, here with two changes and two
  lives.
* Configuration: unbounded behaviours over five documents with fields absent,
  fitting short, fitting USHORT only, fitting neither nor an int, and one with a quote.
  `IntHalf = 400000` in place of 2^31, since TLC counts in ints of its own; the proofs
  need of it only that it is more than the initialisers.
* Life: `MCLimits` again chooses per behaviour: two starts without collection, the
  second over whatever the first has left on the disk; one start over extracted
  roots with a loop of the collection; one whose server returns once, so that
  both tasks are given a second time. Three threads are the least with one that
  neither collects nor predicts. One file per archive suffices for `life`, since
  what was extracted is proved to stay for any number; `deploy_partial` has two.
* Server: `MCScenes` chooses what is explored together. Three trees are read: a page
  and a folder of one name without an index, as in the archive; the same with an
  index and no 404 page; an empty file named like a page. Five scenes edit. Two
  sessions are one that waits for its body and one that is served meanwhile, and
  two bodies under way at once; the names are one that can be used, the empty one,
  and two that are columns', which two scenes use. Requests do not run out: a session
  asks again and again.
* `CHECK_DEADLOCK FALSE` is given where the program really stops: a pool that
  was destroyed or stranded, an application that was stopped, a process that died
  (in its last life, in `life`), a server whose process died.

### Fairness

`ThreadManager`: weak fairness of each thread's own next statement, of a call
that has begun, and of joining. The operating system justifies it; nobody is
obliged to call, to stop, or to wake spuriously. `MetricsManager`: weak fairness
of the main thread's statements once the server has ended and of each statement
of a running task, which assumes that scripts and inserts return. It is not
assumed that a task begins, since a thread can be stranded, nor that the server
ends, nor that predictions give up. `Lifecycle`: the same, that is the main
thread's statements (`MainStep`) and those of a running task (`TaskStep`); not
that the server returns, that the user closes a message box, that a waiting
thread wakes, or that a signal comes. `Server`: restbed calls the handler of a
request it has read, and a body that is awaited comes, or its client leaves: a
connection that neither sends nor closes is cut by restbed's timeout.

## 4. What is proved

**`ThreadManagerProofs`**, assuming only `PoolSize \in Nat` and
`Endless \subseteq Tasks`, for any number of threads and tasks. The invariant
is `IInv`, a conjunction of named parts that TLC evaluated first:

* `TypeOK /\ FrontExists /\ Fifo` go together: `Take` is well typed only because
  the queue is not empty, and that holds because only the thread itself takes
  from its queue between the test and the lock (`QueuesCorrect`, `TypesCorrect`,
  `FrontsExist`).
* `LateLeaves`: a thread that took a task after `Stop` is on its way out, hence
  `AtMostOneLate` (`StopIsPrompt`).
* `RunsOne /\ CallersLive /\ JoinedEnded`: a caller is a running task or the main
  thread outside the destructor, hence `DestroyedUnused` (`DestructionIsSafe`)
  and the action property `NoReturn` (`NoReturnHolds`).
* `Separate /\ AcceptedOnce /\ RoamingPlaced`: a task is not submitted yet, in
  one call, or accepted in one place (`PlacesCorrect`, `RoamersPlaced`).
* `Implements`: with these, each step is a step of `TaskPool` or a stutter;
  `LivesAsPromised`: each is one of `PoolLife`, which needs of the destructor that it
  joins before the members go, and of a thread that it tests before it takes.
* `StopWindsDown` (`WindsDown`): a rank on the places of `ThreadFunction` falls with
  every step after `Stop`. `OnlyWindowStrands` (`StrandedByWindow`): of all steps, only
  a task and its notification that come between a thread's test and its sleep leave
  it asleep beside a task; `WaitsOnlyIfEmpty` is violated by that one.

**`ConfigurationProofs`**, for any set of documents and environments and ints of any
width that holds the initialisers: `RowInv` (what is stored was promised, and is an
object, unless there was a quote in what was) gives `AlwaysLoads`; `HandedInv`
gives `ShownRuns`; `RefuseInv` gives `RefusalsKeep`; `RowInv` with `LoadInv` (the
configuration is the initialisers' or that of one document) and the arithmetic of
`Short` and `UShort` (`UShortOfShort`: a port up to 65535 survives the way to
short and back), `ToInt` and `ToUInt` gives `AcceptedRuns`. `TypesHold` adds the widths: what
`LoadConfig` has narrowed stays narrow in every state.

**`LifecycleProofs`**, for any pool of two threads or more, archives of one file
or more, and any bounds:

* every step of the program is one of `Deployment` or leaves the disk alone
  (`DiskStep`); `DiskInv` adds to the types that a root without its folder has no
  files, and that from the current entry on nothing is there in full while a root
  is extracted. So `ofstream` never empties a file of a whole root
  (`RootsStayWhole`), by any start, failure or death.
* `PoolInv`: what lives is a prefix of the order in which objects are made, and
  a thread that is neither gone nor yet to come implies that the first six of them
  live; it is inductive because `~ThreadManager` joins before the pool leaves
  `built`. Hence `OutlivesPool` (`ThreadsOutlived`).
* `TaskInv`: only the metrics thread collects, so the bound on loops it has tested
  still holds when it counts one, and a thread that has decided to take a task finds
  it, for only that thread takes from its queue. With `MainInv`, `FlagInv` and the
  two above it gives `TypeOK` (`LifeTyped`).
* `StageInv`: before the pool is made no thread has come, and none is left of an
  earlier start. With the two above each step is one of `PoolLife` (`PoolLives`).
* `SoleInv`: the prediction loop is on while its thread is in it, and only there, for
  `Run` gives the task to that thread only; so a second task finds the loop off
  (`OnePredicts`). `BudgetIsSpent`: a failing loop has ten steps; this is what
  `KeepsSucceeding` says without fairness. `DeploysOnly` is `DiskStep` as a property.

**`MetricsManagerProofs`**, for any pool of two threads or more, any providers and
scripts, any number of loops. Nothing is assumed of the pool but `TaskPool`, so that
with `Implements` it holds of the real one:

* `TypeInv`: types, which statements belong to which kind of task, and that the loop
  is only ever on the metrics thread (`CollectionTyped`). It is needed everywhere
  else, for a task's statement says which `latestValue` or `ctxMutex` it may touch.
* `CollectorInv`: the collection is begun once, so the counter is set to zero only
  while it is zero. `SentSoFar`: what the loop has passed was sent. Both give
  `FullLoops` (`LoopsComplete`).
* `InTime`: a task was sent by a loop the counter has reached, and what it has loaded
  lies between the two; what a provider's record and a script's `metricCounter` hold is
  never ahead (`Behind`). Hence `NeverEarly` (`CountersInTime`), while the counter
  fits its 16 bits.
* `RecordInv`: a provider whose tasks have not met has one in its record, and the
  record is what that task wrote. `ScriptInv`: who is past `ctxMutex` owns it, so what
  it has set it still finds. Hence `RowIntact` (`RowsUnmixed`).

**`CollectionProofs`** goes on from there, again for any of these:

* `ReservedInv`: what is in the queue of thread 0 is the loop, and what it runs
  (`MetricsReserved`), hence in a pool of two the tasks of a provider never meet and
  every row has the counter of its sample, but those a script's text persists
  (`CounterOfTask`, `TwoThreadsSuffice`, where `collect_torn` shows that two free
  threads are enough to break it).
* `HandInv`: a task in the hands of a caller was not accepted before, for the loop
  hands out its tasks in one order (`Ahead`). Hence the pool refuses neither the loop
  nor main (`NobodyRefused`), and the steps of this module are steps of `TaskPool`
  (`UsesPool`), so that it may stand on any pool that implements it.
* `OnceInv`: a task is in one queue or on one thread, a provider's has its row only when
  it is in neither, a script's its rows only from its text on (`RowsOnce`).
* `LoopWindsDown` (`LoopEnds`) and `TasksWindDown` with `MutexHeldInside`
  (`TasksEnd`, `NoMutexLeft`) are what `StopEndsLoop` and `TasksReturn` say without
  fairness: a rank falls with each statement, and who is at a script's lock waits for
  a task that is inside and waits for nothing.

**`ScriptManagerProofs`**, for any names, texts and threads and any number of edits,
tasks and lives of the process:

* `VInv`: one row and one object per name (`Single`), the slots below `size` lead to
  live objects, one each (`Vector`), and the request at work is one whose check has
  passed (`Pending`); `Down` is needed because a start replaces all that is in memory.
  The work is in what `remove_if` and `erase` do to the slots (`EraseEffect`). Hence
  `NamesUnique` (`NamesStayUnique`); with `Shape`, `TypeOK` (`ScriptsTyped`).
* Every step is then stated by what it does to the pairs of name and text
  (`SaveEffect`, `UpdateEffect`, `DeleteEffect`, `AnswerEffect`), the statements for any rows they hit. `Serving` and
  `Applying` say where table and vector agree between and within requests: `InStep`
  (`StoresAgree`) and `AnswersKept` (`AnswersHold`). The same lemmas map each step to
  one of `ScriptStore` or a stutter (`StepsStore`, `ImplementsStore`).
* `TInv`: a task as new as the vector is on its slot (`OnSlot`), wherever it waits or
  runs, one past `Lock` owns its mutex, and its context is open unless strayed into.
  Every answer makes all tasks older. Hence `UndisturbedTasks` (`TasksAlone`).

**`ScriptTaskProofs`** rests on `TInv`, for disturbed tasks too: `MutexHeldInside`, its
converse, says that a mutex that is held is held by a task past `Lock` on that very
object, though requests destroy objects under their tasks and tasks stray
(`NoMutexKept`; a change of the vector leaves owners alone, `OwnersKept`). Walk and
queued tasks lead to their script until a request comes (`NullsNeedRequests`). With no
script that bears a column's name nothing ever goes amiss (`NothingAmiss`), so `InStep`
and `AnswersKept` lose their condition.

**`ServerProofs`**, for any sessions, names, documents and scenes, assuming of a tree
only that its keys are files: `SInv` says of each session what it was asked and that it
has answered nothing while it is open (`Open`), and which page it got (`Paged`), beside
the types (`TypesHold`). From it and the outcomes of each edit
(`EditAnswered`) follow, of two states, `AnswersTrue` (`AnswersAgree`) and
`RefusedStays` (`AnsweredIsOver`). `PagesServed`
(`DeployedPagesServed`) rests on what `GetAllFilePaths` registers: the page behind a
path without .html is there, and a folder wins over it only with an index.

Some of what is proved no run lists, since a run would repeat on a small instance what
holds of all: `FrontExists`, `AtMostOneLate`, `AcceptedOnce`, `NoReturn`,
`RefusedUnchanged`, `NothingRefused`, `MetricsThreadReserved`, `LoopWindsDown`,
`MutexHeldInside`, `TasksWindDown`, `CounterOfTask`, the use of the pool (`PoolSpec`) in
`MetricsManager`, `NullsComeLate`, `PredictsAlone`, `BudgetSpends`, `OnlyDeploys`.
TLC evaluated each of them on the instances of section 3 before it was proved.

Only model-checked: all liveness (`QueuesDrain`, `NextCallRescues`,
`OneAwakeEndsAll`, `StopEndsLoop`, `TasksReturn`, `OnlyTheseHang`,
`KeepsSucceeding`, `EveryRequestEnds`), which rests on fairness and ENABLED, out
of the prover's reach.  Every invariant, action property and refinement of the
passing runs is a theorem.

## 5. Abstractions, and what is left out

* A push is one step; `std::map::operator[]` inserting beside a reader at
  start-up and `empty()` racing `emplace_back` are undefined in the code and not
  explored further. `poolSize <= 1` makes the distribution's bounds cross.
* A provider's fields are one sample, written in one step; the use of a freed
  record through the racing `shared_ptr` is seen as a lost write.
* A task that throws ends the process; the providers' and scripts' tasks catch
  or cannot. Duktape contexts that leak after a throw are not counted.
* `UINT metricCounter` narrows the counter of a script only after 2^32 loops.
* Which rows a statement hits when a script's name is another column's depends on what
  the rows hold there, and is left open. Names and texts of scripts that contain a
  double quote, which ends the word early, are left out; so are texts that are a
  column's name. In `Server` the documents are without a single quote, which
  `Configuration` has.
* Numbers of 2^31 and more in `poolSize` fail an assertion of rapidjson; the
  model narrows them. The exception texts built at `ConfigManager.h:81` and
  `ScriptManager.h:168,223` are undefined strings; only that they are thrown
  matters here. In `Configuration` a body that arrives late is an empty text;
  `Server` follows its late write to a dead string, as an arbitrary death.
* A log line says the configuration "has been set" (`Application.h:68`) though it
  takes effect at the next start, and a comment says the minimum interval is one
  second (`MetricsManager.cpp:24`) where the code has four: wording, no model.
* `scriptMutex` has no variable: its only takers, `Initialize` and `Process`,
  never meet.
* The pool in `ScriptManager` is its queues only; in the requests a refusal
  changes nothing and is therefore no step.
* In `Server` headers, content types and OPTIONS are left out, and what a report
  says. `Predict` reads five integers through a pointer to an array that is gone;
  in `Intelligence` whether it shows a box is an arbitrary choice.
* In `Lifecycle` a thread that waits is in one state, asleep or not; that it can
  sleep for ever is `ThreadManager`'s lost wake-up and the `Stop` that notifies
  nobody. `PoolLife` is what the two have in common.

The code departs from its comments in four more places no run is about, because
the models above show them in passing: `Stop` wakes no sleeper
(`ThreadManager.h:53`, against line 87; `OneAwakeEndsAll` needs one awake); rows of
one loop need not have one counter (`MetricsManager.cpp:17`, against
`MetricProviderBase.h:29-30`; `NeverEarly` is what is left); the flag of the
collection is raised by the task and so possibly after `Stop`
(`MetricsManager.cpp:7`; the last disjunct of `Hangs`); a stored port wins over the
environment's (`ConfigManager.h:88`, against lines 17-19, "Environmental variable
overrides whatever is set for this value"; `RunsWith` in `AcceptedTakesEffect` says
what the code does, and `config_safety` covers both ports).

### Not modelled

`LogManager` (a sink), the Python scripts and notebooks, the web client, the
bundled libraries and headers (`vcpkg_installed`, `include`: 300,000 of the
repository's 310,000 C++ lines, so the mapped lines are a small share of all and a
large one of the 3,500 in `src/mscstat` itself), the resources of SQLite, the
registry, network and string helpers of `Utils`, and the PDH queries inside the
providers: pure I/O, or without state of their own.

## 6. Plan

1. Done: pool and scripts, abstract and detailed; collection; configuration;
   the server; deployment, predictions and the life of the program; proofs for
   pool, configuration and life, collection, server and scripts.
2. Done: the pool of the life of the program linked to the real one (`PoolLife`);
   the safe halves of the liveness properties; the collection as a client of
   `TaskPool`.
3. Left: the statements of SQLite, never finalized, and the type of a column asked
   for with another (`DataManager.cpp:46`): both need a model of the database handle
   beside `DataManager`. No property covers this hazard; of the five others in
   PROJECT.json without one, each says why: undefined behaviour, a wait for the user, a
   counter past its 16 bits, a death like any other. An abstract collection
   that `MetricsManager` and the loop of `Lifecycle` both implement, as `PoolLife` is
   for the pool.
