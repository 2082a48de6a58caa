---------------------------- MODULE ThreadManager ----------------------------
(***************************************************************************)
(* The thread pool of ThreadManager.h at the grain of its shared accesses. *)
(*                                                                         *)
(* A thread of the pool runs ThreadFunction: one value of pc per place     *)
(* where another thread can interleave.  The predicate of condition.wait   *)
(* is evaluated under the thread's own local mutex, not under tasksMutex,  *)
(* so the step that finds the queue empty ("predicate") and the step that  *)
(* goes to sleep ("block") are separate and a notify_all between the two   *)
(* finds nobody to wake.  Any running task may call AddTaskToThread, as    *)
(* the metrics task does, and so may the main thread, as Application::Run  *)
(* does; Stop() and the destructor belong to the main thread.              *)
(***************************************************************************)
EXTENDS Integers, Sequences

CONSTANTS
    PoolSize,   \* poolSize: the number of threads of the pool
    Tasks,      \* the task objects the program ever makes
    Endless     \* the tasks that never return (aiManager->Start is one)

ASSUME PoolSizeAssumption == PoolSize \in Nat
ASSUME EndlessAssumption == Endless \subseteq Tasks

RANDOM_THREAD == -1
METRICS_MANAGER_THREAD == 0
INTELLIGENCE_MANAGER_THREAD == 1

Workers == 0 .. PoolSize - 1
Main == -1                          \* the main thread, as a caller
Callers == {Main} \cup Workers
Idle == "idle"
Places == {"unborn", "while", "predicate", "block", "asleep", "check",
           "lockTasks", "run", "leave", "exited"}

VARIABLES
    tasks,          \* tasks[w]: the queue of thread w
    should_stop,
    pc,             \* pc[w]: where thread w is in ThreadFunction
    running,        \* running[w]: the task thread w runs, or Idle
    call,           \* call[c]: where caller c is in AddTaskToThread
    closing,        \* the destructor has begun
    joined,         \* how many threads the destructor has joined
    \* What the properties remember of the past:
    fresh,          \* tasks never given to AddTaskToThread
    roaming,        \* tasks given to it with RANDOM_THREAD
    accepted,       \* accepted[w]: all tasks ever put in tasks[w], in order
    begun,          \* begun[w]: all tasks thread w ever took, in order
    late            \* late[w]: how many of them it took after Stop()

state   == <<tasks, should_stop, pc, running, call, closing, joined>>
history == <<fresh, roaming, accepted, begun, late>>
vars    == <<state, history>>

NoCall == [at |-> Idle, task |-> Idle, index |-> 0]
Calls  == {NoCall} \cup [at : {"lock", "locked"}, task : Tasks, index : Workers]

Init ==
    /\ tasks = [w \in Workers |-> <<>>]
    /\ should_stop = FALSE
    /\ pc = [w \in Workers |-> "unborn"]
    /\ running = [w \in Workers |-> Idle]
    /\ call = [c \in Callers |-> NoCall]
    /\ closing = FALSE
    /\ joined = 0
    /\ fresh = Tasks
    /\ roaming = {}
    /\ accepted = [w \in Workers |-> <<>>]
    /\ begun = [w \in Workers |-> <<>>]
    /\ late = [w \in Workers |-> 0]

-----------------------------------------------------------------------------
(* The constructor starts the threads in order; the main thread goes on    *)
(* when all are started.                                                   *)
Built == \A w \in Workers : pc[w] # "unborn"

Spawn(w) ==
    /\ pc[w] = "unborn"
    /\ \A v \in 0 .. w - 1 : pc[v] # "unborn"
    /\ pc' = [pc EXCEPT ![w] = "while"]
    /\ UNCHANGED <<tasks, should_stop, running, call, closing, joined, history>>

(* Mutant: notify_one.                                                     *)
NotifyOne(p) ==
    [w \in Workers |-> IF p[w] = "asleep" /\ \A v \in 0 .. w - 1 : p[v] # "asleep"
                       THEN "predicate" ELSE p[w]]

(* condition.notify_all() moves every sleeper back to its predicate.       *)
NotifyAll(p) == [w \in Workers |-> IF p[w] = "asleep" THEN "predicate" ELSE p[w]]

(* tasksMutex is held from the push to the end of the notify; the pop is   *)
(* one step, so no other holder needs to be remembered.                    *)
TasksMutexFree == \A c \in Callers : call[c].at # "locked"

-----------------------------------------------------------------------------
(* AddTaskToThread.  uniform_int_distribution(1, poolSize - 1) has no      *)
(* meaning when poolSize <= 1: whatever it returns may come back.          *)
Indices == RANDOM_THREAD .. PoolSize

(* Mutant: the distribution starts at the metrics thread.                  *)
RandomIndexFromZero == IF PoolSize > 1 THEN METRICS_MANAGER_THREAD .. PoolSize - 1 ELSE Indices

RandomIndex ==
    IF PoolSize > 1 THEN METRICS_MANAGER_THREAD + 1 .. PoolSize - 1 ELSE Indices

MayCall(c) ==
    /\ call[c].at = Idle
    /\ IF c = Main THEN Built /\ ~closing ELSE pc[c] = "run"

(* Mutant: the index is used without a test of its range.                  *)
AddTaskUnchecked(c, t, threadIndex) ==
    /\ MayCall(c)
    /\ t \in fresh
    /\ fresh' = fresh \ {t}
    /\ roaming' = IF threadIndex = RANDOM_THREAD THEN roaming \cup {t} ELSE roaming
    /\ \E i \in IF threadIndex = RANDOM_THREAD THEN RandomIndex ELSE {threadIndex} :
          call' = [call EXCEPT ![c] = [at |-> "lock", task |-> t, index |-> i]]
    /\ UNCHANGED <<tasks, should_stop, pc, running, closing, joined, accepted, begun, late>>

(* Choosing the index, up to the test of its range.                        *)
AddTask(c, t, threadIndex) ==
    /\ MayCall(c)
    /\ t \in fresh
    /\ fresh' = fresh \ {t}
    /\ roaming' = IF threadIndex = RANDOM_THREAD THEN roaming \cup {t} ELSE roaming
    /\ \E i \in IF threadIndex = RANDOM_THREAD THEN RandomIndex ELSE {threadIndex} :
          call' = IF i \in Workers
                  THEN [call EXCEPT ![c] = [at |-> "lock", task |-> t, index |-> i]]
                  ELSE call                     \* "Invalid thread index."
    /\ UNCHANGED <<tasks, should_stop, pc, running, closing, joined, accepted, begun, late>>

(* lock_guard on tasksMutex, and emplace_back.                             *)
Push(c) ==
    /\ call[c].at = "lock"
    /\ TasksMutexFree
    /\ LET w == call[c].index IN
          /\ tasks' = [tasks EXCEPT ![w] = Append(@, call[c].task)]
          /\ accepted' = [accepted EXCEPT ![w] = Append(@, call[c].task)]
    /\ call' = [call EXCEPT ![c].at = "locked"]
    /\ UNCHANGED <<should_stop, pc, running, closing, joined, fresh, roaming, begun, late>>

(* notify_all under the lock, then the lock_guard's end.                   *)
Notify(c) ==
    /\ call[c].at = "locked"
    /\ pc' = NotifyAll(pc)
    /\ call' = [call EXCEPT ![c] = NoCall]
    /\ UNCHANGED <<tasks, should_stop, running, closing, joined, history>>

-----------------------------------------------------------------------------
(* Stop() stores the flag and notifies nobody.                             *)
Stop ==
    /\ Built /\ ~closing
    /\ call[Main].at = Idle
    /\ ~should_stop
    /\ should_stop' = TRUE
    /\ UNCHANGED <<tasks, pc, running, call, closing, joined, history>>

(* The destructor runs when main returns, after Application::Stop() or,    *)
(* when main has caught an exception, without it.                          *)
Close ==
    /\ ~closing
    /\ Built
    /\ call[Main].at = Idle
    /\ closing' = TRUE
    /\ UNCHANGED <<tasks, should_stop, pc, running, call, joined, history>>

(* Mutant: the destructor does not wait for the thread it joins.           *)
JoinWithoutWaiting ==
    /\ closing
    /\ joined < PoolSize
    /\ joined' = joined + 1
    /\ UNCHANGED <<tasks, should_stop, pc, running, call, closing, history>>

(* thread.join() of the next thread returns once that thread has ended.    *)
Join ==
    /\ closing
    /\ joined < PoolSize
    /\ pc[joined] = "exited"
    /\ joined' = joined + 1
    /\ UNCHANGED <<tasks, should_stop, pc, running, call, closing, history>>

-----------------------------------------------------------------------------
(* ThreadFunction.                                                         *)
Goto(w, from, to) ==
    /\ pc[w] = from
    /\ pc' = [pc EXCEPT ![w] = to]

(* while (!should_stop.load())                                             *)
TestLoop(w) ==
    /\ Goto(w, "while", IF should_stop THEN "leave" ELSE "predicate")
    /\ UNCHANGED <<tasks, should_stop, running, call, closing, joined, history>>

(* The predicate of the wait.  should_stop never returns to FALSE and only *)
(* w takes from tasks[w], so its two reads act as one.                     *)
TestPredicate(w) ==
    /\ Goto(w, "predicate", IF should_stop \/ tasks[w] # <<>> THEN "check" ELSE "block")
    /\ UNCHANGED <<tasks, should_stop, running, call, closing, joined, history>>

(* Inside wait: the thread releases its own mutex and sleeps.              *)
FallAsleep(w) ==
    /\ Goto(w, "block", "asleep")
    /\ UNCHANGED <<tasks, should_stop, running, call, closing, joined, history>>

(* A condition variable may wake up without being notified.                *)
WakeSpuriously(w) ==
    /\ Goto(w, "asleep", "predicate")
    /\ UNCHANGED <<tasks, should_stop, running, call, closing, joined, history>>

(* Mutants: the test of line 96 is left out, or has lost its negation.     *)
CheckNothing(w) ==
    /\ Goto(w, "check", "lockTasks")
    /\ UNCHANGED <<tasks, should_stop, running, call, closing, joined, history>>

CheckStopped(w) ==
    /\ Goto(w, "check", IF should_stop /\ tasks[w] # <<>> THEN "lockTasks" ELSE "while")
    /\ UNCHANGED <<tasks, should_stop, running, call, closing, joined, history>>

(* if (!should_stop.load() && !tasks[id].empty()); with neither, task is   *)
(* an empty function and the loop starts again.                            *)
CheckTask(w) ==
    /\ Goto(w, "check", IF ~should_stop /\ tasks[w] # <<>> THEN "lockTasks" ELSE "while")
    /\ UNCHANGED <<tasks, should_stop, running, call, closing, joined, history>>

(* Mutant: back() and pop_back().                                          *)
TakeLast(w) ==
    /\ TasksMutexFree
    /\ Goto(w, "lockTasks", "run")
    /\ LET n == Len(tasks[w]) IN
          /\ running' = [running EXCEPT ![w] = tasks[w][n]]
          /\ tasks' = [tasks EXCEPT ![w] = SubSeq(@, 1, n - 1)]
          /\ begun' = [begun EXCEPT ![w] = Append(@, tasks[w][n])]
    /\ late' = [late EXCEPT ![w] = IF should_stop THEN @ + 1 ELSE @]
    /\ UNCHANGED <<should_stop, call, closing, joined, fresh, roaming, accepted>>

(* lock_guard on tasksMutex, front() and erase(begin()).                   *)
Take(w) ==
    /\ TasksMutexFree
    /\ Goto(w, "lockTasks", "run")
    /\ running' = [running EXCEPT ![w] = Head(tasks[w])]
    /\ tasks' = [tasks EXCEPT ![w] = Tail(@)]
    /\ begun' = [begun EXCEPT ![w] = Append(@, Head(tasks[w]))]
    /\ late' = [late EXCEPT ![w] = IF should_stop THEN @ + 1 ELSE @]
    /\ UNCHANGED <<should_stop, call, closing, joined, fresh, roaming, accepted>>

(* Mutant: the thread empties its queue before it tests the flag again.    *)
FinishAndDrain(w) ==
    /\ running[w] \notin Endless
    /\ call[w].at = Idle
    /\ Goto(w, "run", IF tasks[w] # <<>> THEN "lockTasks" ELSE "while")
    /\ running' = [running EXCEPT ![w] = Idle]
    /\ UNCHANGED <<tasks, should_stop, call, closing, joined, history>>

(* task() returns.                                                         *)
Finish(w) ==
    /\ running[w] \notin Endless
    /\ call[w].at = Idle
    /\ Goto(w, "run", "while")
    /\ running' = [running EXCEPT ![w] = Idle]
    /\ UNCHANGED <<tasks, should_stop, call, closing, joined, history>>

(* Mutant: the thread ends without notifying.                              *)
LeaveQuietly(w) ==
    /\ Goto(w, "leave", "exited")
    /\ UNCHANGED <<tasks, should_stop, running, call, closing, joined, history>>

(* condition.notify_all() after the loop.                                  *)
Leave(w) ==
    /\ pc[w] = "leave"
    /\ pc' = [NotifyAll(pc) EXCEPT ![w] = "exited"]
    /\ UNCHANGED <<tasks, should_stop, running, call, closing, joined, history>>

-----------------------------------------------------------------------------
ThreadFunction(w) ==
    \/ TestLoop(w) \/ TestPredicate(w) \/ FallAsleep(w) \/ CheckTask(w)
    \/ Take(w) \/ Finish(w) \/ Leave(w)

Next ==
    \/ \E w \in Workers : Spawn(w) \/ ThreadFunction(w) \/ WakeSpuriously(w)
    \/ \E c \in Callers :
          \/ \E t \in Tasks, i \in Indices : AddTask(c, t, i)
          \/ Push(c)
          \/ Notify(c)
    \/ Stop
    \/ Close
    \/ Join

Spec == Init /\ [][Next]_vars

(* The operating system runs every thread that can run, and a call that    *)
(* was begun goes on.  Nobody is obliged to call, to stop, or to wake a    *)
(* sleeper without a notification.                                         *)
Fairness ==
    /\ \A w \in Workers : WF_vars(Spawn(w)) /\ WF_vars(ThreadFunction(w))
    /\ \A c \in Callers : WF_vars(Push(c)) /\ WF_vars(Notify(c))
    /\ WF_vars(Join)

FairSpec == Spec /\ Fairness

-----------------------------------------------------------------------------
(* Helpers of the properties.                                              *)
InSeq(t, s) == \E i \in 1 .. Len(s) : s[i] = t

(* The variables have the types of the members they stand for.             *)
TypeOK ==
    /\ tasks \in [Workers -> Seq(Tasks)]
    /\ should_stop \in BOOLEAN
    /\ pc \in [Workers -> Places]
    /\ running \in [Workers -> Tasks \cup {Idle}]
    /\ call \in [Callers -> Calls]
    /\ closing \in BOOLEAN
    /\ joined \in 0 .. PoolSize
    /\ fresh \subseteq Tasks
    /\ roaming \subseteq Tasks
    /\ accepted \in [Workers -> Seq(Tasks)]
    /\ begun \in [Workers -> Seq(Tasks)]
    /\ late \in [Workers -> Nat]

(* A thread that has decided to take a task still finds one when it has    *)
(* the lock: front() is never called on an empty vector, although the test *)
(* of line 96 is made before the lock of line 97.                          *)
FrontExists == \A w \in Workers : pc[w] = "lockTasks" => tasks[w] # <<>>

(* No accepted task is lost, skipped or overtaken: what a thread has begun,*)
(* followed by its queue, is what was ever pushed for it, in push order.   *)
Fifo == \A w \in Workers : accepted[w] = begun[w] \o tasks[w]

(* No task object is pushed twice, in one queue or in two, whatever the    *)
(* callers do at the same time; with Fifo, none begins twice.              *)
AcceptedOnce ==
    \A v, w \in Workers :
        \A i \in 1 .. Len(accepted[v]), j \in 1 .. Len(accepted[w]) :
            accepted[v][i] = accepted[w][j] => v = w /\ i = j

(* After Stop() a thread begins at most the one task it had already        *)
(* decided to take at line 96, however many are queued.                    *)
AtMostOneLate == \A w \in Workers : late[w] <= 1

(* With two threads or more, a task sent to "any thread" is neither lost   *)
(* nor given to the metrics thread: a call is placing it, or it is in the  *)
(* record of another thread.                                               *)
RoamingPlaced ==
    PoolSize > 1 =>
        \A t \in roaming :
            \/ \E c \in Callers : call[c].at = "lock" /\ call[c].task = t
                                  /\ call[c].index # METRICS_MANAGER_THREAD
            \/ \E w \in Workers \ {METRICS_MANAGER_THREAD} : InSeq(t, accepted[w])

(* When the destructor has joined the last thread and the members go away, *)
(* no thread is inside ThreadFunction or AddTaskToThread any more, so      *)
(* nobody touches the queues, the mutex or the condition variable again.   *)
DestroyedUnused ==
    closing /\ joined = PoolSize =>
        /\ \A w \in Workers : pc[w] = "exited"
        /\ \A c \in Callers : call[c] = NoCall

(* A task a thread has begun is the only one it runs until it returns, and *)
(* a thread that has left its loop never comes back for another.           *)
NoReturn ==
    [][\A w \in Workers :
          /\ begun'[w] # begun[w] => running[w] = Idle /\ joined <= w
          /\ pc[w] \in {"leave", "exited"} => begun'[w] = begun[w]]_vars

(* The statements a thread still has before it when the pool is stopped.   *)
StepsLeft(p) ==
    CASE p = "block"                     -> 6
      [] p = "asleep"                    -> 5
      [] p \in {"predicate", "lockTasks"} -> 4
      [] p \in {"check", "run"}          -> 3
      [] p = "while"                     -> 2
      [] p = "leave"                     -> 1
      [] p = "exited"                    -> 0

(* After Stop() no thread goes round its loop again: whatever it does, and *)
(* whatever wakes it, brings it nearer to its end.  It runs at most the    *)
(* one task it has already decided to take, however many are queued.       *)
StopWindsDown ==
    [][should_stop =>
          \A w \in Workers : pc'[w] # pc[w] => StepsLeft(pc'[w]) < StepsLeft(pc[w])]_vars

-----------------------------------------------------------------------------
(* The parts of the inductive invariant that are of no interest alone.     *)

(* A thread holds a task only while it runs it.                            *)
RunsOne == \A w \in Workers : pc[w] # "run" => running[w] = Idle

(* Only a running task and a main thread outside the destructor call.      *)
CallersLive ==
    /\ \A w \in Workers : call[w].at # Idle => pc[w] = "run"
    /\ call[Main].at # Idle => ~closing

(* A task is fresh, in one call that has not pushed it, or accepted.       *)
Separate ==
    /\ \A w \in Workers : \A i \in 1 .. Len(accepted[w]) : accepted[w][i] \notin fresh
    /\ \A c \in Callers : call[c].at = "lock" =>
          /\ call[c].task \notin fresh
          /\ \A w \in Workers : ~InSeq(call[c].task, accepted[w])
          /\ \A d \in Callers : call[d].at = "lock" /\ call[d].task = call[c].task => c = d

(* Where a thread that took a task after Stop() can be.                    *)
LateLeaves ==
    \A w \in Workers : late[w] > 0 =>
        late[w] = 1 /\ should_stop /\ pc[w] \in {"run", "while", "leave", "exited"}

(* The joined threads have ended, and joining is the destructor's.         *)
JoinedEnded ==
    /\ \A w \in Workers : w < joined => pc[w] = "exited"
    /\ joined > 0 => closing

IInv ==
    /\ TypeOK /\ FrontExists /\ Fifo /\ RunsOne
    /\ Separate /\ AcceptedOnce /\ RoamingPlaced
    /\ LateLeaves
    /\ CallersLive /\ JoinedEnded

-----------------------------------------------------------------------------
(* The sleeper that a lost notification leaves behind: its queue is not    *)
(* empty and no call is about to notify.                                   *)
Stranded(w) ==
    /\ pc[w] = "asleep"
    /\ tasks[w] # <<>>
    /\ \A c \in Callers : call[c].at # "locked"

(* A wake-up is lost in one way only: the notification finds the thread    *)
(* between its predicate and its sleep.  A thread that sleeps already is   *)
(* never passed over, whoever notifies and whatever queue the task is in.  *)
OnlyWindowStrands ==
    [][\A w \in Workers : ~Stranded(w) /\ Stranded(w)' => pc[w] = "block"]_vars

Busy(w) == running[w] \in Endless

(* Every queue drains, unless the pool is stopped, the thread is held by a *)
(* task that never returns, or the thread is stranded: losing the wake-up  *)
(* between the predicate and the sleep is the only way to be forgotten.    *)
QueuesDrain ==
    \A w \in Workers :
        tasks[w] # <<>> ~> tasks[w] = <<>> \/ should_stop \/ Busy(w) \/ Stranded(w)

(* The next call of AddTaskToThread, for whatever thread, rescues a        *)
(* stranded one: notify_all reaches every sleeper, so it begins its task.  *)
NextCallRescues ==
    \A w \in Workers :
        (pc[w] = "asleep" /\ tasks[w] # <<>> /\ \E c \in Callers : call[c].at = "locked")
            ~> (pc[w] = "run" \/ should_stop)

(* One thread that is on its way round the loop when Stop() is called      *)
(* takes all the others with it, except those an endless task holds and    *)
(* provided none is in the window between its predicate and its sleep.     *)
LeavesNext(w) ==
    pc[w] \in {"while", "predicate", "check", "leave"} \/ (pc[w] = "run" /\ ~Busy(w))

OneAwakeEndsAll ==
    (/\ should_stop
     /\ \A v \in Workers : pc[v] # "block"
     /\ \E w \in Workers : LeavesNext(w))
        ~> \A v \in Workers : pc[v] = "exited" \/ Busy(v)

-----------------------------------------------------------------------------
(* What a comment of ThreadManager.h says and the code does not keep.      *)

(* Line 85: "Wait for a task if the task queue is empty".  A thread should *)
(* not be waiting with a task in its queue and nobody about to notify it.  *)
WaitsOnlyIfEmpty == \A w \in Workers : ~Stranded(w)

-----------------------------------------------------------------------------
(* The pool implements its abstract specification.                         *)
Pool == INSTANCE TaskPool WITH queue <- tasks, stopped <- should_stop

(* Whatever the threads, the callers and the condition variable do, the    *)
(* queues behave as those of TaskPool: AddTaskToThread and ThreadFunction  *)
(* are its Submit, Accept and Begin, and every other step changes nothing. *)
PoolSpec == Pool!Spec

(* The same of its life.  The pool is up from the start of its first       *)
(* thread to the join of its last, and a thread that has not started waits *)
(* like one that has.                                                      *)
Began == \E w \in Workers : pc[w] # "unborn"
Ended == closing /\ joined = PoolSize

LifePlace(p) ==
    CASE p = "lockTasks"           -> "takes"
      [] p = "run"                 -> "runs"
      [] p \in {"leave", "exited"} -> "left"
      [] OTHER                     -> "waits"

LifeUp     == Began /\ ~Ended
LifeThread == [w \in Workers |-> IF Began THEN LifePlace(pc[w]) ELSE "none"]

Life == INSTANCE PoolLife WITH
    up <- LifeUp, thread <- LifeThread, queue <- tasks, stopped <- should_stop

(* The pool goes through its life as PoolLife says: a thread that has seen *)
(* a task finds it when it takes it, none looks for one after Stop(), and  *)
(* the destructor ends when all have left, and never before.               *)
LifeSpec == Life!Spec
=============================================================================
