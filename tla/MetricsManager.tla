--------------------------- MODULE MetricsManager ---------------------------
(***************************************************************************)
(* One start of the application's collection: the loop of                  *)
(* MetricsManager::StartMetricsCollection on thread 0 of the pool, the     *)
(* RetrieveMetricValue tasks it sends to "any thread" for every provider,  *)
(* the tasks ScriptManager::Process sends for every script, and the main   *)
(* thread that starts and stops all this in Application::Run.              *)
(*                                                                         *)
(* The pool is TaskPool, the specification ThreadManager is proved to      *)
(* implement: every change of its variables is one of its actions.         *)
(* Providers keep the record they fill in a member (latestValue) that all  *)
(* their tasks share; scripts are guarded by ctxMutex.  A record is what   *)
(* the rows must not mix up: a counter, and the sample of one task.        *)
(*                                                                         *)
(* A script may call persist from its text, which runs before the task     *)
(* sets metricCounter, and from execute(); any number of times, here up to *)
(* MaxPersists in one task.  What Run does after Stop (it may start the    *)
(* server again, and stop all a second time) is in Lifecycle.              *)
(***************************************************************************)
EXTENDS Integers, Sequences, FiniteSets

CONSTANTS
    PoolSize,       \* poolSize
    Providers,      \* metricProviders_.size(): the providers are 1 .. Providers
    Scripts,        \* scripts.size(): the scripts are 1 .. Scripts
    CounterRange,   \* the values a UINT16 has
    Cycles,         \* bound: how many loops are explored
    MaxPersists     \* bound: the calls of persist in one task

ASSUME PoolAssumption == PoolSize \in Nat /\ PoolSize >= 2
ASSUME SourcesAssumption == Providers \in Nat /\ Scripts \in Nat /\ Providers + Scripts > 0
ASSUME CounterAssumption == CounterRange \in Nat \ {0} /\ Cycles \in Nat /\ MaxPersists \in Nat

METRICS_MANAGER_THREAD == 0
INTELLIGENCE_MANAGER_THREAD == 1
Workers == 0 .. PoolSize - 1

Job(kind, source, cycle) == [kind |-> kind, source |-> source, cycle |-> cycle]
CollectorJob == Job("collector", 0, 0)      \* metricsManager->StartMetricsCollection()
AIJob        == Job("ai", 0, 0)             \* aiManager->Start()
NoJob        == Job("none", 0, 0)
ProviderJobs == {Job("provider", p, k) : p \in 1 .. Providers, k \in 0 .. Cycles - 1}
ScriptJobs   == {Job("script", s, k) : s \in 1 .. Scripts, k \in 0 .. Cycles - 1}
Jobs         == {CollectorJob, AIJob} \cup ProviderJobs \cup ScriptJobs

VARIABLES
    fresh, queue, begun, stopped, late,     \* the pool, as in TaskPool
    job,            \* job[w]: the task thread w runs
    stage,          \* stage[w]: the statement it is at
    arg,            \* arg[w]: the counter value its task has loaded
    isCollecting_,
    counter,
    next,           \* the provider, then script, the loop is at
    latest,         \* latest[p]: what latestValue of provider p points to
    ctxOwner,       \* ctxOwner[s]: the thread that holds ctxMutex of script s
    metricCounter,  \* metricCounter[s], a member of script s
    scriptsStop,    \* should_stop of the ScriptManager
    main,           \* where the main thread is in Application::Run
    rows,           \* the rows inserted, in id order
    overlapped      \* overlapped[p]: two tasks of p have been in latestValue at once

Pool == INSTANCE TaskPool WITH Tasks <- Jobs

tasksRun == <<job, stage, arg>>
loop     == <<isCollecting_, counter, next>>
shared   == <<latest, ctxOwner, metricCounter>>
pool     == <<fresh, queue, begun, stopped, late>>
vars     == <<pool, tasksRun, loop, shared, scriptsStop, main, rows, overlapped>>

Nobody   == -1
NoSample == [job |-> NoJob, arg |-> 0]
Blank    == [counter |-> 0, sample |-> NoSample]    \* make_shared<Metric>() zeroes it

Init ==
    /\ Pool!Init
    /\ job = [w \in Workers |-> NoJob]
    /\ stage = [w \in Workers |-> "idle"]
    /\ arg = [w \in Workers |-> 0]
    /\ isCollecting_ = FALSE
    /\ counter = 0
    /\ next = 1
    /\ latest = [p \in 1 .. Providers |-> Blank]
    /\ ctxOwner = [s \in 1 .. Scripts |-> Nobody]
    /\ metricCounter = [s \in 1 .. Scripts |-> 0]
    /\ scriptsStop = FALSE
    /\ main = "addCollector"
    /\ rows = <<>>
    /\ overlapped = [p \in 1 .. Providers |-> FALSE]

-----------------------------------------------------------------------------
(* The main thread: two calls of AddTaskToThread, then the server, which   *)
(* returns or throws at any time, then Application::Stop().                *)
Give(from, to, j) ==
    /\ main = from
    /\ main' = to
    /\ Pool!Submit(j)
    /\ UNCHANGED <<tasksRun, loop, shared, scriptsStop, rows, overlapped>>

Place(from, to, j, w) ==
    /\ main = from
    /\ main' = to
    /\ Pool!Accept(j, w)
    /\ UNCHANGED <<tasksRun, loop, shared, scriptsStop, rows, overlapped>>

AddCollector ==
    \/ Give("addCollector", "placeCollector", CollectorJob)
    \/ Place("placeCollector", "addAI", CollectorJob, METRICS_MANAGER_THREAD)

AddAI ==
    \/ Give("addAI", "placeAI", AIJob)
    \/ Place("placeAI", "server", AIJob, INTELLIGENCE_MANAGER_THREAD)

ServerEnds ==
    /\ main = "server"
    /\ main' = "stopMetrics"
    /\ UNCHANGED <<pool, tasksRun, loop, shared, scriptsStop, rows, overlapped>>

StopMetricsCollection ==
    /\ main = "stopMetrics"
    /\ main' = "stopScripts"
    /\ isCollecting_' = FALSE
    /\ UNCHANGED <<pool, tasksRun, counter, next, shared, scriptsStop, rows, overlapped>>

StopScripts ==
    /\ main = "stopScripts"
    /\ main' = "stopPool"
    /\ scriptsStop' = TRUE
    /\ UNCHANGED <<pool, tasksRun, loop, shared, rows, overlapped>>

StopPool ==
    /\ main = "stopPool"
    /\ main' = "stopped"
    /\ Pool!Stop
    /\ UNCHANGED <<tasksRun, loop, shared, scriptsStop, rows, overlapped>>

MainStep ==
    AddCollector \/ AddAI \/ ServerEnds \/ StopMetricsCollection \/ StopScripts \/ StopPool

-----------------------------------------------------------------------------
(* A thread of the pool takes the next task of its queue.                  *)
FirstStage ==
    [collector |-> "setFlag", ai |-> "predict", provider |-> "load", script |-> "lock"]

Begin(w) ==
    /\ stage[w] = "idle"
    /\ Pool!Begin(w)
    /\ job' = [job EXCEPT ![w] = Head(queue[w])]
    /\ stage' = [stage EXCEPT ![w] = FirstStage[Head(queue[w]).kind]]
    /\ UNCHANGED <<arg, loop, shared, scriptsStop, main, rows, overlapped>>

At(w, from) == stage[w] = from
Goto(w, to) == stage' = [stage EXCEPT ![w] = to] /\ UNCHANGED job
Return(w)   == stage' = [stage EXCEPT ![w] = "idle"] /\ job' = [job EXCEPT ![w] = NoJob]

(* IntelligenceManager::Start() returns when its errors add up.            *)
AIGivesUp(w) ==
    /\ At(w, "predict")
    /\ Return(w)
    /\ UNCHANGED <<pool, arg, loop, shared, scriptsStop, main, rows, overlapped>>

-----------------------------------------------------------------------------
(* StartMetricsCollection.                                                 *)
SetFlag(w) ==
    /\ At(w, "setFlag")
    /\ isCollecting_' = TRUE
    /\ Goto(w, "resetCounter")
    /\ UNCHANGED <<pool, arg, counter, next, shared, scriptsStop, main, rows, overlapped>>

ResetCounter(w) ==
    /\ At(w, "resetCounter")
    /\ counter' = 0
    /\ Goto(w, "testFlag")
    /\ UNCHANGED <<pool, arg, isCollecting_, next, shared, scriptsStop, main, rows, overlapped>>

(* Mutant: while (true).                                                   *)
TestNothing(w) ==
    /\ At(w, "testFlag")
    /\ counter < Cycles /\ Goto(w, "submit")
    /\ next' = 1
    /\ UNCHANGED <<pool, arg, isCollecting_, counter, shared, scriptsStop, main, rows, overlapped>>

TestFlag(w) ==
    /\ At(w, "testFlag")
    /\ \/ isCollecting_ /\ counter < Cycles /\ Goto(w, "submit")
       \/ ~isCollecting_ /\ Return(w)
    /\ next' = 1
    /\ UNCHANGED <<pool, arg, isCollecting_, counter, shared, scriptsStop, main, rows, overlapped>>

(* The providers in their order, then Process(counter) for the scripts.    *)
LoopJob ==
    IF next <= Providers THEN Job("provider", next, counter)
                         ELSE Job("script", next - Providers, counter)

SubmitNext(w) ==
    /\ At(w, "submit")
    /\ Pool!Submit(LoopJob)
    /\ Goto(w, "place")
    /\ UNCHANGED <<arg, loop, shared, scriptsStop, main, rows, overlapped>>

(* Mutant: the distribution starts at the metrics thread.                  *)
RandomIndexFromZero == METRICS_MANAGER_THREAD .. PoolSize - 1

RandomIndex == METRICS_MANAGER_THREAD + 1 .. PoolSize - 1

(* Mutant: the loop variable is advanced twice.                            *)
PlaceEveryOther(w) ==
    /\ At(w, "place")
    /\ \E v \in RandomIndex : Pool!Accept(LoopJob, v)
    /\ next' = next + 2
    /\ Goto(w, IF next + 1 < Providers + Scripts THEN "submit" ELSE "count")
    /\ UNCHANGED <<arg, isCollecting_, counter, shared, scriptsStop, main, rows, overlapped>>

PlaceNext(w) ==
    /\ At(w, "place")
    /\ \E v \in RandomIndex : Pool!Accept(LoopJob, v)
    /\ next' = next + 1
    /\ Goto(w, IF next < Providers + Scripts THEN "submit" ELSE "count")
    /\ UNCHANGED <<arg, isCollecting_, counter, shared, scriptsStop, main, rows, overlapped>>

(* Mutant: the counter is advanced twice.                                  *)
CountTwice(w) ==
    /\ At(w, "count")
    /\ counter' = counter + 2
    /\ Goto(w, "testFlag")
    /\ UNCHANGED <<pool, arg, isCollecting_, next, shared, scriptsStop, main, rows, overlapped>>

(* counter++; the sleep that follows lets anything happen.                 *)
Count(w) ==
    /\ At(w, "count")
    /\ counter' = counter + 1
    /\ Goto(w, "testFlag")
    /\ UNCHANGED <<pool, arg, isCollecting_, next, shared, scriptsStop, main, rows, overlapped>>

-----------------------------------------------------------------------------
(* A provider's task: provider->RetrieveMetricValue(counter.load()).       *)
Provider(w) == job[w].source

InRecord(v, p) ==
    /\ job[v].kind = "provider" /\ job[v].source = p
    /\ stage[v] \in {"setCounter", "collect", "persist"}

Overlaps(w) == \E v \in Workers \ {w} : InRecord(v, Provider(w))

(* Mutant: counter + 1, as in the log line of Process.                     *)
LoadNextCounter(w) ==
    /\ At(w, "load")
    /\ arg' = [arg EXCEPT ![w] = (counter + 1) % CounterRange]
    /\ Goto(w, "make")
    /\ UNCHANGED <<pool, loop, shared, scriptsStop, main, rows, overlapped>>

LoadCounter(w) ==
    /\ At(w, "load")
    /\ arg' = [arg EXCEPT ![w] = counter % CounterRange]
    /\ Goto(w, "make")
    /\ UNCHANGED <<pool, loop, shared, scriptsStop, main, rows, overlapped>>

MakeRecord(w) ==
    /\ At(w, "make")
    /\ latest' = [latest EXCEPT ![Provider(w)] = Blank]
    /\ overlapped' = [overlapped EXCEPT ![Provider(w)] = @ \/ Overlaps(w)]
    /\ Goto(w, "setCounter")
    /\ UNCHANGED <<pool, arg, loop, ctxOwner, metricCounter, scriptsStop, main, rows>>

(* A write through latestValue goes to the record of the moment, or, when  *)
(* another task replaces the pointer meanwhile, to the one just freed.     *)
WriteRecord(w, r) ==
    \/ latest' = [latest EXCEPT ![Provider(w)] = r]
    \/ Overlaps(w) /\ UNCHANGED latest

(* Mutant: the counter is read again instead of taken from the argument.   *)
SetRecordCounterAgain(w) ==
    /\ At(w, "setCounter")
    /\ WriteRecord(w, [latest[Provider(w)] EXCEPT !.counter = counter])
    /\ Goto(w, "collect")
    /\ UNCHANGED <<pool, arg, loop, ctxOwner, metricCounter, scriptsStop, main, rows, overlapped>>

SetRecordCounter(w) ==
    /\ At(w, "setCounter")
    /\ WriteRecord(w, [latest[Provider(w)] EXCEPT !.counter = arg[w]])
    /\ Goto(w, "collect")
    /\ UNCHANGED <<pool, arg, loop, ctxOwner, metricCounter, scriptsStop, main, rows, overlapped>>

(* CollectData() may fail, and then the record keeps its zeroes.           *)
Collect(w) ==
    /\ At(w, "collect")
    /\ \/ WriteRecord(w, [latest[Provider(w)] EXCEPT !.sample = [job |-> job[w], arg |-> arg[w]]])
       \/ UNCHANGED latest
    /\ Goto(w, "persist")
    /\ UNCHANGED <<pool, arg, loop, ctxOwner, metricCounter, scriptsStop, main, rows, overlapped>>

(* Mutant: an insert that reports an error is tried again, committed or not. *)
InsertAgain(row) ==
    \/ rows' \in {Append(rows, row), Append(Append(rows, row), row)}
    \/ UNCHANGED rows

(* Insert may fail, and nobody looks at what it returns.                   *)
Insert(row) == rows' = Append(rows, row) \/ UNCHANGED rows

PersistRecord(w) ==
    /\ At(w, "persist")
    /\ Insert([job |-> job[w], by |-> "record", arg |-> arg[w],
               counter |-> latest[Provider(w)].counter, sample |-> latest[Provider(w)].sample])
    /\ Return(w)
    /\ UNCHANGED <<pool, arg, loop, shared, scriptsStop, main, overlapped>>

-----------------------------------------------------------------------------
(* A script's task, under the script's ctxMutex.                           *)
(* Mutant: no lock_guard on ctxMutex.                                      *)
EnterScript(w) ==
    /\ At(w, "lock")
    /\ ctxOwner' = [ctxOwner EXCEPT ![job[w].source] = w]
    /\ Goto(w, "testStop")
    /\ UNCHANGED <<pool, arg, loop, latest, metricCounter, scriptsStop, main, rows, overlapped>>

LockScript(w) ==
    /\ At(w, "lock")
    /\ ctxOwner[job[w].source] = Nobody
    /\ ctxOwner' = [ctxOwner EXCEPT ![job[w].source] = w]
    /\ Goto(w, "testStop")
    /\ UNCHANGED <<pool, arg, loop, latest, metricCounter, scriptsStop, main, rows, overlapped>>

Unlock(w) == ctxOwner' = [ctxOwner EXCEPT ![job[w].source] = Nobody]

(* SetupJavascriptContext, which may throw before it runs anything.        *)
SetupScript(w) ==
    /\ At(w, "testStop")
    /\ \/ ~scriptsStop /\ Goto(w, "text") /\ UNCHANGED ctxOwner
       \/ Return(w) /\ Unlock(w)
    /\ UNCHANGED <<pool, arg, loop, latest, metricCounter, scriptsStop, main, rows, overlapped>>

(* Script::Persist.  The row has metricCounter as it is; a is the counter  *)
(* of the loop as its task knows it.  An insert that fails leaves nothing. *)
Persist(w, by, a) ==
    /\ Cardinality({i \in 1 .. Len(rows) : rows[i].job = job[w]}) < MaxPersists
    /\ rows' = Append(rows, [job |-> job[w], by |-> by, arg |-> a,
                             counter |-> metricCounter[job[w].source],
                             sample |-> [job |-> job[w], arg |-> a]])
    /\ UNCHANGED <<pool, tasksRun, loop, shared, scriptsStop, main, overlapped>>

(* The text of the script runs, and may persist what it likes before it    *)
(* ends or throws.                                                         *)
PersistInText(w) == At(w, "text") /\ Persist(w, "text", counter)

EndText(w) ==
    /\ At(w, "text")
    /\ \/ Goto(w, "setMetricCounter") /\ UNCHANGED ctxOwner
       \/ Return(w) /\ Unlock(w)
    /\ UNCHANGED <<pool, arg, loop, latest, metricCounter, scriptsStop, main, rows, overlapped>>

(* Mutant: counter + 1, as in the log line of Process.                     *)
SetNextCounter(w) ==
    /\ At(w, "setMetricCounter")
    /\ metricCounter' = [metricCounter EXCEPT ![job[w].source] = counter + 1]
    /\ arg' = [arg EXCEPT ![w] = counter + 1]
    /\ Goto(w, "execute")
    /\ UNCHANGED <<pool, loop, latest, ctxOwner, scriptsStop, main, rows, overlapped>>

SetMetricCounter(w) ==
    /\ At(w, "setMetricCounter")
    /\ metricCounter' = [metricCounter EXCEPT ![job[w].source] = counter]
    /\ arg' = [arg EXCEPT ![w] = counter]
    /\ Goto(w, "execute")
    /\ UNCHANGED <<pool, loop, latest, ctxOwner, scriptsStop, main, rows, overlapped>>

PersistInExecute(w) == At(w, "execute") /\ Persist(w, "execute", arg[w])

(* Mutant: ctxMutex locked and unlocked by hand, and a throw in between.   *)
ExecuteAndKeepLock(w) ==
    /\ At(w, "execute")
    /\ Return(w)
    /\ Unlock(w) \/ UNCHANGED ctxOwner
    /\ UNCHANGED <<pool, arg, loop, latest, metricCounter, scriptsStop, main, rows, overlapped>>

(* execute() returns or throws.                                            *)
ExecuteScript(w) ==
    /\ At(w, "execute")
    /\ Return(w)
    /\ Unlock(w)
    /\ UNCHANGED <<pool, arg, loop, latest, metricCounter, scriptsStop, main, rows, overlapped>>

-----------------------------------------------------------------------------
CollectorStep(w) ==
    SetFlag(w) \/ ResetCounter(w) \/ TestFlag(w) \/ SubmitNext(w) \/ PlaceNext(w) \/ Count(w)

ProviderStep(w) ==
    LoadCounter(w) \/ MakeRecord(w) \/ SetRecordCounter(w) \/ Collect(w) \/ PersistRecord(w)

ScriptStep(w) ==
    \/ LockScript(w) \/ SetupScript(w) \/ PersistInText(w) \/ EndText(w)
    \/ SetMetricCounter(w) \/ PersistInExecute(w) \/ ExecuteScript(w)

TaskStep(w) == CollectorStep(w) \/ ProviderStep(w) \/ ScriptStep(w)

Next == MainStep \/ \E w \in Workers : Begin(w) \/ TaskStep(w) \/ AIGivesUp(w)

Spec == Init /\ [][Next]_vars

(* Threads run.  The server need not end, the AI loop need not give up,    *)
(* and a task need not begin: ThreadManager can strand a thread.           *)
Fairness ==
    /\ WF_vars(AddCollector) /\ WF_vars(AddAI)
    /\ WF_vars(StopMetricsCollection) /\ WF_vars(StopScripts) /\ WF_vars(StopPool)
    /\ \A w \in Workers : WF_vars(TaskStep(w))

FairSpec == Spec /\ Fairness

-----------------------------------------------------------------------------
Rows == [job : Jobs, by : {"record", "text", "execute"}, arg : Nat, counter : Nat,
         sample : [job : Jobs \cup {NoJob}, arg : Nat]]

Stages == {"idle", "predict", "setFlag", "resetCounter", "testFlag", "submit", "place",
           "count", "load", "make", "setCounter", "collect", "persist",
           "lock", "testStop", "text", "setMetricCounter", "execute"}

(* The variables have the types of the members they stand for.             *)
TypeOK ==
    /\ fresh \subseteq Jobs /\ queue \in [Workers -> Seq(Jobs)]
    /\ job \in [Workers -> Jobs \cup {NoJob}]
    /\ stage \in [Workers -> Stages]
    /\ arg \in [Workers -> Nat]
    /\ isCollecting_ \in BOOLEAN /\ counter \in 0 .. Cycles
    /\ next \in 1 .. Providers + Scripts + 1
    /\ latest \in [1 .. Providers -> [counter : Nat, sample : [job : Jobs \cup {NoJob}, arg : Nat]]]
    /\ ctxOwner \in [1 .. Scripts -> Workers \cup {Nobody}]
    /\ metricCounter \in [1 .. Scripts -> Nat]
    /\ rows \in Seq(Rows)

(* A row has the counter its own task loaded and no other task's sample:   *)
(* for a provider as long as its tasks never met in latestValue, and for a *)
(* row that execute() persists always, because ctxMutex covers the         *)
(* metricCounter from the write to the insert.  What the text of a script  *)
(* persists has the counter an earlier task of that script left, which may *)
(* be behind the loop's but never ahead of it.                             *)
RowIntact ==
    \A i \in 1 .. Len(rows) :
        LET r == rows[i] IN
        /\ r.by = "execute" \/ (r.by = "record" /\ ~overlapped[r.job.source]) =>
              /\ r.counter = r.arg
              /\ r.sample \in {NoSample, [job |-> r.job, arg |-> r.arg]}
        /\ r.by = "text" => r.counter <= r.arg

(* The counter is loaded when the task runs, not when the loop sends it:   *)
(* it may be the number of a later loop, never of an earlier one, and      *)
(* never one the loop has not reached; nor does a row show such a number.  *)
NeverEarly ==
    Cycles < CounterRange =>
        \A i \in 1 .. Len(rows) :
            /\ rows[i].job.cycle <= rows[i].arg /\ rows[i].arg <= counter
            /\ rows[i].counter <= counter

(* A loop that was begun is carried through even when collection is        *)
(* stopped half-way: when the counter has passed a loop, every provider    *)
(* and every script has a task of it in some queue or begun.               *)
Sent(j) ==
    \E w \in Workers :
        \/ \E i \in 1 .. Len(queue[w]) : queue[w][i] = j
        \/ \E i \in 1 .. Len(begun[w]) : begun[w][i] = j

FullLoops ==
    \A j \in ProviderJobs \cup ScriptJobs :
        (j.cycle < counter => Sent(j)) /\ (j.cycle > counter => ~Sent(j))

(* Once the flag is down while the loop is on its way, the loop ends: it   *)
(* tests the flag once per cycle and nothing inside a cycle can block it.  *)
StopEndsLoop ==
    (~isCollecting_ /\ stage[METRICS_MANAGER_THREAD] \notin {"idle", "setFlag"})
        ~> stage[METRICS_MANAGER_THREAD] = "idle"

(* A task of a provider or of a script returns: a script that throws lets  *)
(* go of ctxMutex, so the next task of that script is not held for ever.   *)
TasksReturn ==
    \A w \in Workers :
        job[w].kind \in {"provider", "script"} ~> job[w] = NoJob

(* The pool holds up nobody: what the main thread and the loop hand to it  *)
(* is new to it each time, so the conditions of TaskPool, which the code   *)
(* does not have, never stand in the way of the code's next statement.     *)
NewToPool(j, given) ==
    /\ given <=> j \notin fresh
    /\ ~Sent(j)

NothingRefused ==
    /\ main = "addCollector" => NewToPool(CollectorJob, FALSE)
    /\ main = "placeCollector" => NewToPool(CollectorJob, TRUE)
    /\ main \in {"addCollector", "placeCollector", "addAI"} => NewToPool(AIJob, FALSE)
    /\ main = "placeAI" => NewToPool(AIJob, TRUE)
    /\ main = "stopPool" => ~stopped
    /\ stage[METRICS_MANAGER_THREAD] = "submit" => NewToPool(LoopJob, FALSE)
    /\ stage[METRICS_MANAGER_THREAD] = "place" => NewToPool(LoopJob, TRUE)

(* However many threads run the tasks of how many loops, no task runs in   *)
(* two places, a provider has one row of a loop at most, and a script has  *)
(* rows of a task only once that task runs its text.                       *)
Running(j)  == \E w \in Workers : job[w] = j
Recorded(j) == \E i \in 1 .. Len(rows) : rows[i].job = j

OneRowEach ==
    /\ \A v, w \in Workers : job[v] = job[w] /\ job[v] # NoJob => v = w
    /\ \A i, k \in 1 .. Len(rows) :
          rows[i].job = rows[k].job /\ rows[i].by = "record" => i = k
    /\ \A w \in Workers :
          stage[w] \notin {"text", "setMetricCounter", "execute"} => ~Recorded(job[w])

(* ThreadManager.h, lines 36-37: "we however do not want to use the thread *)
(* reserved for Metrics manager for other tasks".                          *)
MetricsThreadReserved ==
    LET M == METRICS_MANAGER_THREAD IN
    /\ job[M] \in {CollectorJob, NoJob}
    /\ \A i \in 1 .. Len(queue[M]) : queue[M][i] = CollectorJob

(* The statements the loop has before it when the flag is down: those of   *)
(* the cycle it is in.                                                     *)
LoopLeft ==
    LET at == stage[METRICS_MANAGER_THREAD]
        left == Providers + Scripts - next
    IN  CASE at = "submit"                    -> 2 * left + 4
          [] at = "place"                     -> 2 * left + 3
          [] at \in {"resetCounter", "count"} -> 2
          [] at = "testFlag"                  -> 1
          [] OTHER                            -> 0

(* Once the flag is down and the loop past raising it, nobody raises it    *)
(* again, and each statement of the loop brings it nearer to its end: it   *)
(* begins no cycle more, and sends what is left of the one it is in.       *)
Lowered == ~isCollecting_ /\ stage[METRICS_MANAGER_THREAD] \notin {"idle", "setFlag"}

LoopWindsDown ==
    [][Lowered =>
          /\ ~isCollecting_'
          /\ stage'[METRICS_MANAGER_THREAD] # stage[METRICS_MANAGER_THREAD] =>
                LoopLeft' < LoopLeft]_vars

(* A script's mutex is held by a task that is inside, and inside that      *)
(* script: none is left behind by a task that returned or threw, and a     *)
(* task that waits for one waits for a task that waits for none.           *)
MutexHeldInside ==
    \A s \in 1 .. Scripts : ctxOwner[s] # Nobody =>
        /\ stage[ctxOwner[s]] \in {"testStop", "text", "setMetricCounter", "execute"}
        /\ job[ctxOwner[s]].source = s

(* What a task of a provider or a script has before it.                    *)
TaskLeft(w) ==
    CASE stage[w] \in {"load", "lock"}                 -> 5
      [] stage[w] \in {"make", "testStop"}             -> 4
      [] stage[w] \in {"setCounter", "text"}           -> 3
      [] stage[w] \in {"collect", "setMetricCounter"}  -> 2
      [] stage[w] \in {"persist", "execute"}           -> 1
      [] OTHER                                         -> 0

(* Whatever the other threads do, a task that has begun only comes nearer  *)
(* to its end.                                                             *)
TasksWindDown ==
    [][\A w \in Workers :
          job[w].kind \in {"provider", "script"} /\ stage'[w] # stage[w] =>
              TaskLeft(w)' < TaskLeft(w)]_vars

(* All this is a use of the pool as TaskPool lets it be used.              *)
PoolSpec == Pool!Spec

-----------------------------------------------------------------------------
(* What a comment says and the code does not keep.                         *)

CounterOf(r) == r.sample # NoSample => r.counter = r.sample.arg

(* MetricsManager.cpp, lines 12-13: "each metric recorded will have        *)
(* insight to when the data was fetched": the counter beside a sample is   *)
(* the one the task that took the sample had.                              *)
CounterOfSample == \A i \in 1 .. Len(rows) : CounterOf(rows[i])
=============================================================================
