----------------------------- MODULE Lifecycle ------------------------------
(***************************************************************************)
(* The life of the program, start after start: main, Application           *)
(* ::Initialize, Run and Stop, the signal handler, the singletons that     *)
(* GetInstance makes on the way, and their destruction when main returns.  *)
(*                                                                         *)
(* Deployment is instantiated for what the last constructor does to the    *)
(* disk, Intelligence for the prediction loop.  Of ThreadManager only what *)
(* ending depends on is here: a thread with work may decide to take it     *)
(* (line 96 of ThreadManager.h), and decide late; a thread that sees the   *)
(* pool stopped leaves; and it may do neither, for it may be asleep and    *)
(* nobody notifies it.  Of the tasks only their kind is here.              *)
(***************************************************************************)
EXTENDS Integers, Sequences

CONSTANTS
    PoolSize,       \* poolSize
    Entries,        \* files per archive
    Limits          \* bounds to explore: starts of the program (lives), in each of them
                    \* loops of the collection (loops) and returns of the server (rounds);
                    \* and whether an earlier start has made the roots (deployed)

ASSUME SizeAssumption == PoolSize \in Nat /\ PoolSize >= 2
ASSUME EntriesAssumption == Entries \in Nat \ {0}
ASSUME LimitsAssumption == Limits \subseteq 
    [lives : Nat, loops : Nat, rounds : Nat, deployed : BOOLEAN]

Workers == 0 .. PoolSize - 1
METRICS_MANAGER_THREAD == 0
INTELLIGENCE_MANAGER_THREAD == 1

VARIABLES
    folder, file, step, root, entry,    \* Deployment
    active, errorCount, loop,           \* Intelligence
    main,           \* where the main thread is
    built,          \* the static objects that live, in the order they were made
    again,          \* this Stop() is the one in the catch block
    g_signal_flag,
    collecting,     \* isCollectingMetrics_
    scriptsStop, poolStop,              \* the two should_stop
    thread,         \* thread[w]: where it is in ThreadFunction or in its task
    queue,          \* queue[w]: the tasks given to it, by their first place
    sent,           \* loops of the collection in this life
    rounds, lives,
    limits          \* the bounds of this behaviour

Files == INSTANCE Deployment
AI    == INSTANCE Intelligence

deployment == <<folder, file, step, root, entry>>
prediction == <<active, errorCount, loop>>
stops      == <<again, g_signal_flag, collecting, scriptsStop, poolStop>>
pool       == <<thread, queue>>
counts     == <<sent, rounds, lives, limits>>
vars == <<deployment, prediction, main, built, stops, pool, counts>>

-----------------------------------------------------------------------------
(* The static objects in the order in which they are made.  theApp is one  *)
(* from before main; the others are made by the first call of GetInstance. *)

\* Mutant of InitOrder: the pool before the objects its tasks use.
PoolFirst ==
    <<"app", "config", "log", "pool", "data", "metrics", "scripts", "ai">>

InitOrder ==
    <<"app", "config", "log", "data", "metrics", "pool", "scripts", "ai">>

Alive == {built[i] : i \in DOMAIN built}
Latest == built[Len(built)]

\* What a task uses while it runs.
UsedBy ==
    [sample  |-> {"app", "data", "metrics"},
     script  |-> {"log", "data", "scripts"},
     raise   |-> {"metrics"},
     test    |-> {"log", "metrics"},
     send    |-> {"app", "metrics", "pool"},
     process |-> {"app", "log", "scripts", "pool"},
     predict |-> {"app", "config", "log", "ai"}]

TaskPlaces == DOMAIN UsedBy
Kinds      == {"raise", "predict", "sample", "script"}      \* what a task begins with
Runs(w)    == thread[w] \in TaskPlaces

-----------------------------------------------------------------------------
(* What a process has before main.                                         *)
Fresh ==
    /\ main = "down" /\ built = <<>>
    /\ again = FALSE /\ g_signal_flag = FALSE /\ collecting = FALSE
    /\ scriptsStop = FALSE /\ poolStop = FALSE
    /\ thread = [w \in Workers |-> "none"]
    /\ queue = [w \in Workers |-> <<>>]
    /\ sent = 0 /\ rounds = 0

Init ==
    /\ Fresh /\ AI!Off
    /\ lives = 0
    /\ limits \in Limits
    /\ IF limits.deployed THEN Files!Deployed ELSE Files!Init

\* The process is gone with all it had, but for the disk.
Ends ==
    /\ main' = "down" /\ built' = <<>>
    /\ again' = FALSE /\ g_signal_flag' = FALSE /\ collecting' = FALSE
    /\ scriptsStop' = FALSE /\ poolStop' = FALSE
    /\ thread' = [w \in Workers |-> "none"]
    /\ queue' = [w \in Workers |-> <<>>]
    /\ sent' = 0 /\ rounds' = 0
    /\ active' = FALSE /\ errorCount' = 0 /\ loop' = "off"
    /\ Files!Leave
    /\ UNCHANGED <<lives, limits>>

Die == main # "down" /\ Ends

-----------------------------------------------------------------------------
(* main, CreateInstance and Initialize.                                    *)
CreateInstance ==
    /\ main = "down" /\ lives < limits.lives
    /\ main' = "initialize"
    /\ lives' = lives + 1
    /\ built' = <<InitOrder[1]>>
    /\ UNCHANGED <<deployment, prediction, stops, pool, sent, rounds, limits>>

NextObject == InitOrder[Len(built) + 1]

\* The constructor of the pool starts its threads; the last object is made when its
\* roots are, and the server after it, which is no static object and cannot fail here.
GetInstance ==
    /\ main = "initialize"
    /\ NextObject = "ai" => step = "ready"
    /\ built' = Append(built, NextObject)
    /\ main' = IF NextObject = "ai" THEN "addProviders" ELSE main
    /\ thread' = IF NextObject = "pool" THEN [w \in Workers |-> "waits"] ELSE thread
    /\ UNCHANGED <<deployment, prediction, stops, queue, counts>>

ConstructAI ==
    /\ main = "initialize" /\ NextObject = "ai"
    /\ Files!Construct
    /\ UNCHANGED <<prediction, main, built, stops, pool, counts>>

\* A logger without its file, a row LoadConfig throws on, a shell that does not open,
\* a provider without its PDH query, or a constructor of the AI that failed: the
\* exception reaches main, which returns.
Throws ==
    /\ \/ main = "initialize" /\ NextObject \in {"log", "metrics"}
       \/ main = "initialize" /\ NextObject = "ai" /\ step = "failed"
       \/ main = "addProviders"
    /\ main' = "exit"
    /\ UNCHANGED <<deployment, prediction, built, stops, pool, counts>>

\* The database does not open: Initialize returns, and Run uses managers it has not made.
RunWithoutManagers ==
    /\ main = "initialize" /\ NextObject = "metrics"
    /\ Ends

-----------------------------------------------------------------------------
(* Run.  A signal is noted by its handler once Run has installed it.       *)
Running == main \in {"addProviders", "while", "addAI", "serve", "stopMetrics",
                     "stopScripts", "stopPool"}

SignalHandler ==
    /\ Running /\ ~g_signal_flag
    /\ g_signal_flag' = TRUE
    /\ UNCHANGED <<deployment, prediction, main, built, again, collecting, scriptsStop,
                   poolStop, pool, counts>>

MainOnly == UNCHANGED <<deployment, prediction, built, g_signal_flag, thread, sent, lives, limits>>

Goto(from, to) == main = from /\ main' = to

AddProviders ==
    /\ Goto("addProviders", "while")
    /\ MainOnly /\ UNCHANGED <<again, collecting, scriptsStop, poolStop, queue, rounds>>

Give(w, j) == queue' = [queue EXCEPT ![w] = Append(@, j)]

\* while (!g_signal_flag), and the first task.
AddCollector ==
    /\ ~g_signal_flag /\ Goto("while", "addAI")
    /\ Give(METRICS_MANAGER_THREAD, "raise")
    /\ MainOnly /\ UNCHANGED <<again, collecting, scriptsStop, poolStop, rounds>>

AddAI ==
    /\ Goto("addAI", "serve")
    /\ Give(INTELLIGENCE_MANAGER_THREAD, "predict")
    /\ MainOnly /\ UNCHANGED <<again, collecting, scriptsStop, poolStop, rounds>>

ServerReturns ==
    /\ Goto("serve", "while")
    /\ rounds < limits.rounds /\ rounds' = rounds + 1
    /\ MainOnly /\ UNCHANGED <<again, collecting, scriptsStop, poolStop, queue>>

\* catch: Stop(), then break to the other Stop().
ServerThrows ==
    /\ Goto("serve", "stopMetrics")
    /\ again' = TRUE
    /\ MainOnly /\ UNCHANGED <<collecting, scriptsStop, poolStop, queue, rounds>>

SeesSignal ==
    /\ g_signal_flag /\ Goto("while", "stopMetrics")
    /\ MainOnly /\ UNCHANGED <<again, collecting, scriptsStop, poolStop, queue, rounds>>

StopMetrics ==
    /\ Goto("stopMetrics", "stopScripts")
    /\ collecting' = FALSE
    /\ MainOnly /\ UNCHANGED <<again, scriptsStop, poolStop, queue, rounds>>

\* scriptManager->Stop(); server->Stop() finds a server that does not run.
StopScripts ==
    /\ Goto("stopScripts", "stopPool")
    /\ scriptsStop' = TRUE
    /\ MainOnly /\ UNCHANGED <<again, collecting, poolStop, queue, rounds>>

StopPool ==
    /\ Goto("stopPool", IF again THEN "stopMetrics" ELSE "exit")
    /\ again' = FALSE
    /\ poolStop' = TRUE
    /\ MainOnly /\ UNCHANGED <<collecting, scriptsStop, queue, rounds>>

RunStep ==
    \/ AddProviders \/ AddCollector \/ AddAI \/ SeesSignal
    \/ StopMetrics \/ StopScripts \/ StopPool

-----------------------------------------------------------------------------
(* main has returned: what was made last is destroyed first.  The pool's   *)
(* destructor joins every thread before the pool is gone.                  *)

\* Mutant of Destroy: the threads are detached.
DestroyUnjoined ==
    /\ main = "exit" /\ Len(built) > 1
    /\ built' = SubSeq(built, 1, Len(built) - 1)
    /\ UNCHANGED <<deployment, prediction, main, stops, pool, counts>>

Destroy ==
    /\ main = "exit" /\ Len(built) > 1
    /\ Latest = "pool" => \A w \in Workers : thread[w] = "left"
    /\ built' = SubSeq(built, 1, Len(built) - 1)
    /\ UNCHANGED <<deployment, prediction, main, stops, pool, counts>>

\* theApp goes last, and with it the process.
Exit ==
    /\ main = "exit" /\ Len(built) = 1
    /\ Ends

-----------------------------------------------------------------------------
(* The threads of the pool.                                                *)
ThreadOnly == UNCHANGED <<deployment, main, built, again, g_signal_flag, scriptsStop,
                          poolStop, rounds, lives, limits>>

Becomes(w, from, to) == thread[w] = from /\ thread' = [thread EXCEPT ![w] = to]

Decide(w) ==
    /\ ~poolStop /\ queue[w] # <<>>
    /\ Becomes(w, "waits", "takes")
    /\ ThreadOnly /\ UNCHANGED <<prediction, collecting, queue, sent>>

LeaveLoop(w) ==
    /\ poolStop
    /\ Becomes(w, "waits", "left")
    /\ ThreadOnly /\ UNCHANGED <<prediction, collecting, queue, sent>>

Take(w) ==
    /\ Becomes(w, "takes", Head(queue[w]))
    /\ queue' = [queue EXCEPT ![w] = Tail(@)]
    /\ IF Head(queue[w]) = "predict" THEN AI!Start ELSE UNCHANGED prediction
    /\ ThreadOnly /\ UNCHANGED <<collecting, sent>>

\* The task of a provider or of a script; a script tests scriptsStop first.
RunTask(w) ==
    /\ thread[w] \in {"sample", "script"}
    /\ Becomes(w, thread[w], "waits")
    /\ ThreadOnly /\ UNCHANGED <<prediction, collecting, queue, sent>>

\* StartMetricsCollection.
Raise(w) ==
    /\ Becomes(w, "raise", "test")
    /\ collecting' = TRUE
    /\ ThreadOnly /\ UNCHANGED <<prediction, queue, sent>>

\* Mutant of Test: while (true).
TestNothing(w) ==
    /\ Becomes(w, "test", "send")
    /\ sent < limits.loops
    /\ ThreadOnly /\ UNCHANGED <<prediction, collecting, queue, sent>>

\* The sleep at the end of the loop precedes the test of the flag.
Test(w) ==
    /\ Becomes(w, "test", IF collecting THEN "send" ELSE "waits")
    /\ collecting => sent < limits.loops
    /\ ThreadOnly /\ UNCHANGED <<prediction, collecting, queue, sent>>

RandomIndex == METRICS_MANAGER_THREAD + 1 .. PoolSize - 1

\* The task of a provider, then that of a script, each to any thread.
Send(w) ==
    /\ Becomes(w, "send", "process")
    /\ \E v \in RandomIndex : Give(v, "sample")
    /\ ThreadOnly /\ UNCHANGED <<prediction, collecting, sent>>

Process(w) ==
    /\ Becomes(w, "process", "test")
    /\ \E v \in RandomIndex : Give(v, "script")
    /\ sent' = sent + 1
    /\ ThreadOnly /\ UNCHANGED <<prediction, collecting>>

AIStep(w) ==
    /\ thread[w] = "predict"
    /\ AI!Run
    /\ ThreadOnly /\ UNCHANGED <<collecting, pool, sent>>

AIBox(w) ==
    /\ thread[w] = "predict"
    /\ AI!CloseBox
    /\ ThreadOnly /\ UNCHANGED <<collecting, pool, sent>>

AIReturn(w) ==
    /\ Becomes(w, "predict", "waits")
    /\ AI!Return
    /\ ThreadOnly /\ UNCHANGED <<collecting, queue, sent>>

TaskStep(w) ==
    \/ Take(w) \/ RunTask(w) \/ Raise(w) \/ Test(w) \/ Send(w) \/ Process(w)
    \/ AIStep(w) \/ AIReturn(w)

-----------------------------------------------------------------------------
MainStep == GetInstance \/ ConstructAI \/ RunStep \/ Destroy \/ Exit

Next ==
    \/ CreateInstance \/ MainStep \/ Throws \/ RunWithoutManagers \/ Die
    \/ SignalHandler \/ ServerReturns \/ ServerThrows
    \/ \E w \in Workers : Decide(w) \/ LeaveLoop(w) \/ TaskStep(w) \/ AIBox(w)

Spec == Init /\ [][Next]_vars

(* The main thread goes on, except that the server need not end.  A thread *)
(* goes on with what it runs: statements, scripts, Python and sleeps come  *)
(* to an end, a message box need not.  A waiting thread need not wake up.  *)
Fairness == WF_vars(MainStep) /\ \A w \in Workers : WF_vars(TaskStep(w))

FairSpec == Spec /\ Fairness

-----------------------------------------------------------------------------
\* Every variable has its type, and what lives is what the order has made so far.
TypeOK ==
    /\ Files!TypeOK /\ AI!TypeOK
    /\ main \in {"down", "initialize", "addProviders", "while", "addAI", "serve",
                 "stopMetrics", "stopScripts", "stopPool", "exit"}
    /\ built = SubSeq(InitOrder, 1, Len(built))
    /\ \A b \in {again, g_signal_flag, collecting, scriptsStop, poolStop} : b \in BOOLEAN
    /\ thread \in [Workers -> {"none", "waits", "takes", "left"} \cup TaskPlaces]
    /\ \A w \in Workers : \A i \in DOMAIN queue[w] : queue[w][i] \in Kinds
    /\ sent <= limits.loops /\ rounds <= limits.rounds /\ lives <= limits.lives

\* Whatever a thread runs, and however the program came to its end, what the tasks use
\* of the objects made before the pool is alive: they are made in Initialize before the
\* pool is, so they outlive the join of its threads.  (Not scripts and ai, see
\* NothingUsedAfterDestruction.)
OutlivesPool ==
    \A w \in Workers : Runs(w) =>
        UsedBy[thread[w]] \ {"scripts", "ai"} \subseteq Alive

\* What can keep a program from ending that got a signal, or whose server failed, or
\* that never got so far as to run: a server that does not return, a thread asleep in
\* the pool (or never told to stop), predictions nobody stops, a collection whose flag
\* was raised after Stop() had lowered it.  Nothing else can.
Hangs ==
    \/ main = "serve"
    \/ \E w \in Workers : thread[w] \in {"waits", "predict"}
    \/ collecting

OnlyTheseHang == [](g_signal_flag \/ main = "exit" => <>(main = "down" \/ []Hangs))

\* The pool, as PoolLife has it: alive between its constructor and its destructor, and
\* one place for whatever a thread runs.
LifeUp     == "pool" \in Alive
LifeThread == [w \in Workers |-> IF Runs(w) THEN "runs" ELSE thread[w]]

Life == INSTANCE PoolLife WITH
    Tasks <- Kinds, up <- LifeUp, thread <- LifeThread, stopped <- poolStop

\* Start after start, and whatever ends the program, its pool is one that ThreadManager.h
\* can be: tasks are given to it only while it lives, and its threads begin and end as
\* those of ThreadFunction do.
LifeSpec == Life!Spec

\* A root once extracted whole stays whole over restarts, failures and deaths.
WholeStaysWhole == Files!WholeStaysWhole

\* Predictions that go on for ever succeed for ever, on a thread that other tasks share.
KeepsSucceeding == AI!KeepsSucceeding
BudgetSpends    == AI!BudgetSpends

\* However often Run gives the task of the predictions, they run on their own thread
\* only and one after the other: active and errorCount have one loop that uses them.
PredictsAlone ==
    /\ \A w \in Workers : thread[w] = "predict" => w = INTELLIGENCE_MANAGER_THREAD
    /\ thread[INTELLIGENCE_MANAGER_THREAD] = "predict" <=> loop # "off"
    /\ \A w \in Workers : thread[w] = "takes" /\ Head(queue[w]) = "predict" => loop = "off"

\* The disk changes as Deployment says, whatever else the program does.
OnlyDeploys == [][Files!Next]_(Files!vars)

-----------------------------------------------------------------------------
\* Application.cpp, lines 21-22: "This should be the final dependency required to startup
\* the application all other classes can be created in any order."  No task should use
\* an object that has been destroyed, whichever of them was created first.
NothingUsedAfterDestruction ==
    \A w \in Workers : Runs(w) => UsedBy[thread[w]] \subseteq Alive
=============================================================================
