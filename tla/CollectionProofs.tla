------------------------- MODULE CollectionProofs -------------------------
(***************************************************************************)
(* More proofs about the collection, on top of MetricsManagerProofs, for   *)
(* any number of threads, sources and loops.                               *)
(*                                                                         *)
(*   NobodyRefused       the pool holds up neither the loop nor main       *)
(*   RowsOnce            no task is in two places, or in two rows          *)
(*   MetricsReserved     thread 0 is for the loop alone                    *)
(*   LoopEnds            with the flag down the loop only comes nearer to  *)
(*                       its end                                           *)
(*   TwoThreadsSuffice   in a pool of two, rows are never mixed up         *)
(*   NoMutexLeft         a script's mutex is held inside that script       *)
(*   TasksEnd            a task only comes nearer to its end               *)
(*   UsesPool            all this is a TaskPool                            *)
(***************************************************************************)
EXTENDS MetricsManagerProofs

LoopThread == METRICS_MANAGER_THREAD
InLoop     == {"submit", "place", "count"}

-----------------------------------------------------------------------------
(* Thread 0.                                                               *)
ReservedInv ==
    /\ MetricsThreadReserved
    /\ stage[LoopThread] \in CollectorStages \cup {"idle"}

\* What comes into the queue of thread 0 is the loop.
LEMMA QueueOfLoop ==
    ASSUME TypeInv, [Next]_vars, NEW j \in Jobs, InQueue(j, LoopThread)'
    PROVE  InQueue(j, LoopThread) \/ j = CollectorJob
<1> USE Threads DEF LoopThread
<1>0. CollectorJob \in Jobs /\ AIJob \in Jobs
  BY JobFacts
<1>1. CASE UNCHANGED queue
  BY <1>1 DEF InQueue
<1>2. ASSUME NEW t \in Jobs, NEW w \in Workers, Pool!Accept(t, w),
             w = LoopThread => t = CollectorJob
      PROVE  InQueue(j, LoopThread) \/ j = CollectorJob
  BY <1>2, AcceptEffect
<1>3. CASE MainStep
  <2>1. CASE \E to \in {"addAI"} : Place("placeCollector", to, CollectorJob, METRICS_MANAGER_THREAD)
    BY <1>0, <1>2, <2>1 DEF Place
  <2>2. CASE Place("placeAI", "server", AIJob, INTELLIGENCE_MANAGER_THREAD)
    BY <1>0, <1>2, <2>2 DEF Place
  <2> QED
    BY <1>1, <1>3, <2>1, <2>2
       DEF MainStep, AddCollector, AddAI, Give, ServerEnds, StopMetricsCollection, StopScripts,
           StopPool, Pool!Submit, Pool!Stop, pool
<1>4. ASSUME NEW w \in Workers, Begin(w) PROVE InQueue(j, LoopThread)
  BY <1>4, BeginEffect DEF Begin
<1>5. ASSUME NEW w \in Workers, CollectorStep(w) PROVE InQueue(j, LoopThread) \/ j = CollectorJob
  <2>1. CASE PlaceNext(w)
    <3>1. PICK v \in RandomIndex : Pool!Accept(LoopJob, v)
      BY <2>1 DEF PlaceNext
    <3>2. LoopJob \in Jobs
      <4>1. counter \in 0 .. Cycles - 1 /\ next \in 1 .. Providers + Scripts
        <5>1. stage[METRICS_MANAGER_THREAD] = "place"
          BY <1>5, <2>1, LoopOnItsThread DEF PlaceNext, At
        <5>2. counter < Cycles /\ next <= Providers + Scripts
          BY <5>1 DEF TypeInv, LoopBounds
        <5> QED
          BY <5>2, CounterAssumption, SourcesAssumption DEF TypeInv, TypeOK
      <4> QED
        BY <4>1, LoopJobIs, PlaceFacts
    <3> QED
      BY <1>2, <3>1, <3>2
  <2> QED
    BY <1>1, <1>5, <2>1 DEF CollectorStep, SetFlag, ResetCounter, TestFlag, SubmitNext, Count,
                            Pool!Submit, pool
<1>6. CASE \E w \in Workers : ProviderStep(w) \/ ScriptStep(w) \/ AIGivesUp(w)
  BY <1>1, <1>6, LocalFrame DEF pool
<1>7. CASE UNCHANGED vars
  BY <1>1, <1>7 DEF vars, pool
<1> QED
  BY <1>3, <1>4, <1>5, <1>6, <1>7 DEF Next, TaskStep

LEMMA ReservedNext == ASSUME TypeInv, ReservedInv, [Next]_vars PROVE ReservedInv'
<1> DEFINE M == LoopThread
<1> USE Threads DEF LoopThread
<1>1. /\ stage \in [Workers -> Stages] /\ queue \in [Workers -> Seq(Jobs)]
      /\ job \in [Workers -> Jobs \cup {NoJob}]
      /\ \A j : InQueue(j, M) => j = CollectorJob
  BY DEF TypeInv, TypeOK, ReservedInv, MetricsThreadReserved, InQueue, Has
<1>2. \A i \in 1 .. Len(queue'[M]) : queue'[M][i] = CollectorJob
  <2>1. queue'[M] \in Seq(Jobs)
    BY TypeNext DEF TypeInv, TypeOK
  <2> SUFFICES ASSUME NEW i \in 1 .. Len(queue'[M]) PROVE queue'[M][i] = CollectorJob
    OBVIOUS
  <2>2. PICK j \in Jobs : j = queue'[M][i]
    BY <2>1
  <2>3. InQueue(j, M)'
    BY <2>2 DEF InQueue, Has
  <2> QED
    BY <1>1, <2>2, <2>3, QueueOfLoop
<1>3. job'[M] \in {CollectorJob, NoJob} /\ stage'[M] \in CollectorStages \cup {"idle"}
  <2>1. job[M] \in {CollectorJob, NoJob} /\ stage[M] \in CollectorStages \cup {"idle"}
    BY DEF ReservedInv, MetricsThreadReserved
  <2>2. CASE Begin(M)
    <3>1. Head(queue[M]) = CollectorJob
      BY <1>1, <2>2, BeginEffect DEF Begin
    <3> QED
      BY <1>1, <2>2, <3>1, JobFacts DEF Begin, FirstStage, CollectorStages
  <2>3. CASE CollectorStep(M)
    BY <1>1, <2>1, <2>3
       DEF CollectorStep, SetFlag, ResetCounter, TestFlag, SubmitNext, PlaceNext, Count,
           Goto, Return, CollectorStages
  <2>4. ASSUME ProviderStep(M) \/ ScriptStep(M) \/ AIGivesUp(M) PROVE FALSE
    BY <2>1, <2>4, LocalFrame, StageFacts DEF CollectorStages
  <2> QED
    BY <2>1, <2>2, <2>3, <2>4, OthersStay DEF TaskStep
<1> QED
  BY <1>2, <1>3 DEF ReservedInv, MetricsThreadReserved

LEMMA ReservedInit == Init => ReservedInv
  BY Threads DEF Init, Pool!Init, Pool!Workers, Workers, ReservedInv, MetricsThreadReserved,
                 LoopThread

\* MetricsThreadReserved: thread 0 runs and queues the loop and no other task, for tasks sent
\* to any thread go to the others (ThreadManager.h:34-40, MetricsManager.cpp:16, ScriptManager.cpp).
THEOREM MetricsReserved == Spec => []MetricsThreadReserved
<1>1. TypeInv /\ ReservedInv /\ [Next]_vars => (TypeInv /\ ReservedInv)'
  BY TypeNext, ReservedNext
<1>2. ReservedInv => MetricsThreadReserved
  BY DEF ReservedInv
<1> QED
  BY <1>1, <1>2, TypeInit, ReservedInit, PTL DEF Spec

-----------------------------------------------------------------------------
(* The end of the loop.                                                    *)
\* LoopWindsDown: once Stop has lowered the flag of a loop on its way, nobody raises it, and
\* each statement of the loop brings its end nearer (MetricsManager.cpp:7-31, MetricsManager.h:28).
THEOREM LoopEnds == Spec => LoopWindsDown
<1> DEFINE M == LoopThread
           Down == Lowered => /\ ~isCollecting_'
                              /\ stage'[METRICS_MANAGER_THREAD] # stage[METRICS_MANAGER_THREAD] =>
                                    LoopLeft' < LoopLeft
<1>1. TypeInv /\ ReservedInv /\ [Next]_vars => [Down]_vars
  <2> USE Threads DEF LoopThread
  <2> SUFFICES ASSUME TypeInv, ReservedInv, Next, Lowered PROVE Down
    OBVIOUS
  <2>1. /\ stage \in [Workers -> Stages] /\ isCollecting_ = FALSE
        /\ stage[M] \in {"resetCounter", "testFlag", "submit", "place", "count"}
        /\ next \in Nat /\ Providers \in Nat /\ Scripts \in Nat
        /\ stage[M] \in {"submit", "place"} => next <= Providers + Scripts
    BY SourcesAssumption DEF TypeInv, TypeOK, LoopBounds, ReservedInv, CollectorStages, Lowered
  <2>2. ASSUME UNCHANGED isCollecting_ \/ isCollecting_' = FALSE, UNCHANGED stage[M] PROVE Down
    BY <2>1, <2>2
  <2>3. CASE MainStep
    BY <2>2, <2>3
       DEF MainStep, AddCollector, AddAI, Give, Place, ServerEnds, StopMetricsCollection,
           StopScripts, StopPool, loop, tasksRun
  <2>4. ASSUME NEW w \in Workers, Begin(w) PROVE Down
    BY <2>1, <2>2, <2>4 DEF Begin, loop
  <2>5. ASSUME NEW w \in Workers, ProviderStep(w) \/ ScriptStep(w) \/ AIGivesUp(w) PROVE Down
    <3>1. w # M
      BY <2>1, <2>5, LocalFrame, StageFacts DEF CollectorStages
    <3> QED
      BY <2>1, <2>2, <2>5, <3>1, LocalFrame DEF loop
  <2>6. ASSUME NEW w \in Workers, CollectorStep(w) PROVE Down
    <3>0. w = M
      BY <2>6, LoopOnItsThread
    <3> USE <3>0 DEF Goto, Return, At, LoopLeft
    <3>1. CASE SetFlag(w)
      BY <2>1, <3>1 DEF SetFlag
    <3>2. CASE ResetCounter(w)
      BY <2>1, <3>2 DEF ResetCounter
    <3>3. CASE TestFlag(w)
      BY <2>1, <3>3 DEF TestFlag
    <3>4. CASE SubmitNext(w)
      BY <2>1, <3>4 DEF SubmitNext, loop
    <3>5. CASE PlaceNext(w)
      BY <2>1, <3>5 DEF PlaceNext
    <3>6. CASE Count(w)
      BY <2>1, <3>6 DEF Count
    <3> QED
      BY <2>6, <3>1, <3>2, <3>3, <3>4, <3>5, <3>6 DEF CollectorStep
  <2> QED
    BY <2>3, <2>4, <2>5, <2>6 DEF Next, TaskStep
<1>2. TypeInv /\ ReservedInv /\ [Next]_vars => (TypeInv /\ ReservedInv)'
  BY TypeNext, ReservedNext
<1> QED
  BY <1>1, <1>2, TypeInit, ReservedInit, PTL DEF Spec, LoopWindsDown

-----------------------------------------------------------------------------
(* A pool of two.                                                          *)
NoneMet == PoolSize = 2 => \A p \in 1 .. Providers : ~overlapped[p]

LEMMA MetNext ==
    ASSUME TypeInv, ReservedInv, RecordInv, NoneMet, [Next]_vars
    PROVE  NoneMet'
<1> SUFFICES ASSUME PoolSize = 2, NEW p \in 1 .. Providers PROVE ~overlapped'[p]
  BY DEF NoneMet
<1>1. overlapped \in [1 .. Providers -> BOOLEAN] /\ ~overlapped[p]
  BY DEF RecordInv, NoneMet
<1>2. CASE UNCHANGED overlapped
  BY <1>1, <1>2
<1>3. ASSUME NEW w \in Workers, MakeRecord(w) PROVE ~overlapped'[p]
  <2>1. \A v \in Workers : v = LoopThread \/ v = 1
    BY DEF Workers, LoopThread, METRICS_MANAGER_THREAD
  <2>2. \A v \in Workers : stage[v] \in ProviderStages => v = 1
    BY <2>1, StageFacts DEF ReservedInv, CollectorStages
  <2>3. stage[w] \in ProviderStages
    BY <1>3, StageFacts DEF MakeRecord, At
  <2>4. ~Overlaps(w)
    BY <2>2, <2>3, InRecordIs, StageFacts DEF Overlaps
  <2>5. overlapped' = [overlapped EXCEPT ![Provider(w)] = @ \/ Overlaps(w)]
    BY <1>3 DEF MakeRecord
  <2> QED
    BY <1>1, <2>4, <2>5
<1>4. CASE MainStep \/ UNCHANGED vars
  BY <1>2, <1>4 DEF MainStep, AddCollector, AddAI, Give, Place, ServerEnds, StopMetricsCollection,
                    StopScripts, StopPool, vars
<1>5. CASE \E w \in Workers : Begin(w) \/ CollectorStep(w) \/ AIGivesUp(w)
  BY <1>2, <1>5, LoopOnItsThread DEF Begin, AIGivesUp
<1>6. CASE \E w \in Workers : ProviderStep(w) \/ ScriptStep(w)
  BY <1>2, <1>3, <1>6, ScriptFrame
     DEF ProviderStep, LoadCounter, SetRecordCounter, Collect, PersistRecord
<1> QED
  BY <1>4, <1>5, <1>6 DEF Next, TaskStep

\* CounterOfSample, for every row but those the text of a script persists.
CounterOfTask == \A i \in 1 .. Len(rows) : rows[i].by # "text" => CounterOf(rows[i])

LEMMA WholeRows ==
    ASSUME TypeInv, RowIntact, RowsOfTasks, NoneMet, PoolSize = 2
    PROVE  CounterOfTask
<1> SUFFICES ASSUME NEW i \in 1 .. Len(rows), rows[i].by # "text", rows[i].sample # NoSample
             PROVE  rows[i].counter = rows[i].sample.arg
  BY DEF CounterOfTask, CounterOf
<1>1. rows[i].by \in {"record", "execute"}
  <2>1. rows[i] \in Rows
    BY DEF TypeInv, TypeOK
  <2> QED
    BY <2>1 DEF Rows
<1>2. rows[i].by = "record" => ~overlapped[rows[i].job.source]
  BY JobFacts DEF RowsOfTasks, NoneMet
<1> QED
  BY <1>1, <1>2 DEF RowIntact

\* CounterOfTask, the comment at MetricsManager.cpp:11-13 that collect_torn refutes, is true in
\* a pool of two threads: with one of them reserved no two tasks meet in a latestValue
\* (CPUMetricProvider.h:99, ThreadManager.h:38).  The rows a script's text persists are left
\* out: they show the counter of an earlier task in any pool (ScriptManager.cpp:15-16).
THEOREM TwoThreadsSuffice == ASSUME PoolSize = 2 PROVE Spec => []CounterOfTask
<1> DEFINE Two == /\ TypeInv /\ CollectorInv /\ FullLoops /\ SentSoFar /\ InTime /\ Behind
                  /\ ReservedInv /\ RecordInv /\ ScriptInv
                  /\ RowIntact /\ RowsOfTasks /\ NoneMet
<1>1. Init => Two
  <2>1. Init => NoneMet
    BY DEF Init, NoneMet
  <2> QED
    BY <2>1, TypeInit, CollectorInit, LoopInit, InTimeInit, BehindInit, ReservedInit, RecordInit,
       ScriptInit
<1>2. Two /\ [Next]_vars => Two'
  BY TypeNext, CollectorNext, LoopNext, InTimeNext, BehindNext, ReservedNext, RecordNext,
     ScriptNext, RowNext, OfTasksNext, MetNext
<1>3. Two => CounterOfTask
  BY WholeRows
<1> QED
  BY <1>1, <1>2, <1>3, PTL DEF Spec

-----------------------------------------------------------------------------
(* What the pool is handed.                                                *)

\* The tasks the loop has still to hand over.
Ahead(j) ==
    \/ j.cycle > counter
    \/ /\ j.cycle = counter
       /\ \/ stage[LoopThread] \notin InLoop
          \/ stage[LoopThread] = "submit" /\ PlaceOf(j) >= next
          \/ stage[LoopThread] = "place" /\ PlaceOf(j) > next

HandInv ==
    /\ \A j \in fresh : ~Sent(j)
    /\ \A j \in MetricJobs : Ahead(j) => j \in fresh
    /\ main # "stopped" => ~stopped
    /\ NothingRefused

LEMMA HandInit == Init => HandInv
<1> SUFFICES ASSUME Init PROVE HandInv
  OBVIOUS
<1>1. /\ queue = [w \in Workers |-> <<>>] /\ begun = [w \in Workers |-> <<>>] /\ fresh = Jobs
      /\ stopped = FALSE /\ main = "addCollector" /\ stage = [w \in Workers |-> "idle"]
  BY DEF Init, Pool!Init, Pool!Workers, Workers
<1>2. \A j : ~Sent(j)
  BY <1>1 DEF Sent
<1> QED
  BY <1>1, <1>2, Threads, JobFacts DEF HandInv, NothingRefused, NewToPool

\* The job the loop is at.
LEMMA AtJob ==
    ASSUME TypeInv, stage[LoopThread] \in {"submit", "place"}
    PROVE  /\ LoopJob \in MetricJobs /\ LoopJob \in Jobs
           /\ LoopJob.cycle = counter /\ PlaceOf(LoopJob) = next
           /\ LoopJob \notin {CollectorJob, AIJob}
<1>1. counter < Cycles /\ next <= Providers + Scripts
  BY DEF TypeInv, LoopBounds, LoopThread
<1>2. counter \in 0 .. Cycles - 1 /\ next \in 1 .. Providers + Scripts
  BY <1>1, CounterAssumption, SourcesAssumption DEF TypeInv, TypeOK
<1> QED
  BY <1>2, LoopJobIs, PlaceFacts

LEMMA AheadAtJob ==
    TypeInv /\ stage[LoopThread] = "submit" => \E j \in MetricJobs : j = LoopJob /\ Ahead(j)
<1>1. TypeInv => next \in Nat
  BY SourcesAssumption DEF TypeInv, TypeOK
<1> QED
  BY <1>1, AtJob DEF Ahead, InLoop

\* Steps on which the pool, the loop and the main thread keep still.
LEMMA HandQuiet ==
    ASSUME TypeInv, HandInv, UNCHANGED <<fresh, stopped, counter, next, main>>,
           \A j \in Jobs : Sent(j)' <=> Sent(j),
           UNCHANGED stage[LoopThread] \/ {stage[LoopThread], stage'[LoopThread]} \cap InLoop = {}
    PROVE  HandInv'
<1>1. /\ fresh \subseteq Jobs /\ CollectorJob \in Jobs /\ AIJob \in Jobs
      /\ \A j \in MetricJobs : Ahead(j)' => Ahead(j)
  BY JobFacts DEF TypeInv, TypeOK, Ahead, InLoop
<1>2. /\ LoopJob' = LoopJob
      /\ stage'[LoopThread] \in {"submit", "place"} => UNCHANGED stage[LoopThread]
  BY DEF LoopJob, InLoop
<1>3. /\ (\A j \in fresh : ~Sent(j))' /\ (\A j \in MetricJobs : Ahead(j) => j \in fresh)'
      /\ (main # "stopped" => ~stopped)'
  BY <1>1 DEF HandInv
<1>4. NothingRefused'
  <2>1. stage'[LoopThread] \in {"submit", "place"} => LoopJob' \in Jobs /\ UNCHANGED stage[LoopThread]
    BY <1>2, AtJob DEF InLoop
  <2> QED
    BY <1>1, <1>2, <2>1 DEF HandInv, NothingRefused, NewToPool, LoopThread
<1> QED
  BY <1>3, <1>4 DEF HandInv

\* A task is handed over: it is fresh no more.
LEMMA Handed ==
    ASSUME TypeInv, HandInv, NEW t \in Jobs, Pool!Submit(t)
    PROVE  /\ fresh' = fresh \ {t} /\ UNCHANGED stopped /\ t \in fresh /\ ~Sent(t)
           /\ \A j \in Jobs : Sent(j)' <=> Sent(j)
  BY DEF HandInv, Pool!Submit, Sent

\* A task is accepted: it is sent.
LEMMA Placed ==
    ASSUME TypeInv, NEW t \in Jobs, NEW w \in Workers, Pool!Accept(t, w)
    PROVE  /\ UNCHANGED <<fresh, stopped>> /\ t \notin fresh
           /\ \A j \in Jobs : Sent(j)' <=> Sent(j) \/ j = t
  BY AcceptEffect DEF Pool!Accept

LEMMA HandMain == ASSUME TypeInv, HandInv, MainStep PROVE HandInv'
<1> USE Threads
<1>0. /\ CollectorJob \in Jobs /\ AIJob \in Jobs /\ AIJob # CollectorJob
      /\ fresh \subseteq Jobs /\ MetricJobs \subseteq Jobs
      /\ CollectorJob \notin MetricJobs /\ AIJob \notin MetricJobs
  BY JobFacts, PlaceFacts DEF AIJob, CollectorJob, Job, TypeInv, TypeOK
<1>1. CASE UNCHANGED <<stage, counter, next>>
  <2>1. /\ \A j : Ahead(j)' <=> Ahead(j)
        /\ LoopJob' = LoopJob
    BY <1>1 DEF Ahead, LoopJob
  <2>2. stage[LoopThread] \in {"submit", "place"} => LoopJob \in Jobs \ {CollectorJob, AIJob}
    BY AtJob
  <2>3. ASSUME Give("addCollector", "placeCollector", CollectorJob) PROVE HandInv'
    <3>1. /\ fresh' = fresh \ {CollectorJob} /\ UNCHANGED stopped /\ ~Sent(CollectorJob)
          /\ \A j \in Jobs : Sent(j)' <=> Sent(j)
          /\ main = "addCollector" /\ main' = "placeCollector"
      BY <1>0, <2>3, Handed DEF Give
    <3> QED
      BY <1>0, <1>1, <2>1, <2>2, <3>1 DEF HandInv, NothingRefused, NewToPool, LoopThread
  <2>4. ASSUME Place("placeCollector", "addAI", CollectorJob, METRICS_MANAGER_THREAD) PROVE HandInv'
    <3>1. /\ UNCHANGED <<fresh, stopped>> /\ CollectorJob \notin fresh
          /\ \A j \in Jobs : Sent(j)' <=> Sent(j) \/ j = CollectorJob
          /\ main = "placeCollector" /\ main' = "addAI"
      BY <1>0, <2>4, Placed DEF Place
    <3> QED
      BY <1>0, <1>1, <2>1, <2>2, <3>1 DEF HandInv, NothingRefused, NewToPool, LoopThread
  <2>5. ASSUME Give("addAI", "placeAI", AIJob) PROVE HandInv'
    <3>1. /\ fresh' = fresh \ {AIJob} /\ UNCHANGED stopped /\ ~Sent(AIJob)
          /\ \A j \in Jobs : Sent(j)' <=> Sent(j)
          /\ main = "addAI" /\ main' = "placeAI"
      BY <1>0, <2>5, Handed DEF Give
    <3> QED
      BY <1>0, <1>1, <2>1, <2>2, <3>1 DEF HandInv, NothingRefused, NewToPool, LoopThread
  <2>6. ASSUME Place("placeAI", "server", AIJob, INTELLIGENCE_MANAGER_THREAD) PROVE HandInv'
    <3>1. /\ UNCHANGED <<fresh, stopped>> /\ AIJob \notin fresh
          /\ \A j \in Jobs : Sent(j)' <=> Sent(j) \/ j = AIJob
          /\ main = "placeAI" /\ main' = "server"
      BY <1>0, <2>6, Placed DEF Place
    <3> QED
      BY <1>0, <1>1, <2>1, <2>2, <3>1 DEF HandInv, NothingRefused, NewToPool, LoopThread
  <2>7. CASE ServerEnds \/ StopMetricsCollection \/ StopScripts
    <3>1. /\ UNCHANGED <<fresh, stopped>> /\ \A j : Sent(j)' <=> Sent(j)
          /\ main \in {"server", "stopMetrics", "stopScripts"}
          /\ main' \in {"stopMetrics", "stopScripts", "stopPool"}
      BY <2>7 DEF ServerEnds, StopMetricsCollection, StopScripts, pool, Sent
    <3> QED
      BY <1>0, <1>1, <2>1, <2>2, <3>1 DEF HandInv, NothingRefused, NewToPool, LoopThread
  <2>8. CASE StopPool
    <3>1. UNCHANGED fresh /\ main' = "stopped" /\ \A j : Sent(j)' <=> Sent(j)
      BY <2>8 DEF StopPool, Pool!Stop, Sent
    <3> QED
      BY <1>0, <1>1, <2>1, <2>2, <3>1 DEF HandInv, NothingRefused, NewToPool, LoopThread
  <2> QED
    BY <2>3, <2>4, <2>5, <2>6, <2>7, <2>8 DEF MainStep, AddCollector, AddAI
<1> QED
  BY <1>1 DEF MainStep, AddCollector, AddAI, Give, Place, ServerEnds, StopMetricsCollection,
              StopScripts, StopPool, loop, tasksRun

LEMMA HandLoop ==
    ASSUME TypeInv, CollectorInv, HandInv, NEW w \in Workers, CollectorStep(w)
    PROVE  HandInv'
<1> DEFINE M == LoopThread
<1> USE Threads DEF LoopThread
<1>1. w = M /\ UNCHANGED main /\ stage \in [Workers -> Stages]
  BY LoopOnItsThread DEF TypeInv, TypeOK
<1>2. /\ counter \in Nat /\ next \in Nat /\ fresh \subseteq Jobs
      /\ CollectorJob \in Jobs /\ AIJob \in Jobs
      /\ \A j \in MetricJobs : j \in Jobs /\ j.cycle \in Nat /\ PlaceOf(j) \in Nat /\ PlaceOf(j) >= 1
  <2>1. \A j \in MetricJobs : j.cycle \in 0 .. Cycles - 1 /\ PlaceOf(j) \in 1 .. Providers + Scripts
    BY PlaceFacts, JobFacts
  <2> QED
    BY <2>1, PlaceFacts, JobFacts, CounterAssumption, SourcesAssumption DEF TypeInv, TypeOK
<1>3. CASE SetFlag(w) \/ ResetCounter(w)
  <2>1. UNCHANGED <<fresh, stopped, counter, next, main>> /\ \A j \in Jobs : Sent(j)' <=> Sent(j)
    BY <1>1, <1>3 DEF SetFlag, ResetCounter, At, CollectorInv, pool, Sent
  <2>2. {stage[M], stage'[M]} \cap InLoop = {}
    BY <1>1, <1>3 DEF SetFlag, ResetCounter, At, Goto, InLoop
  <2> QED
    BY <2>1, <2>2, HandQuiet
<1>4. CASE TestFlag(w)
  <2>1. /\ UNCHANGED <<fresh, stopped, counter, main>> /\ next' = 1 /\ stage[M] = "testFlag"
        /\ stage'[M] \in {"submit", "idle"}
        /\ \A j \in Jobs : Sent(j)' <=> Sent(j)
    BY <1>1, <1>4 DEF TestFlag, At, Goto, Return, pool, Sent
  <2>2. \A j \in MetricJobs : Ahead(j)' => Ahead(j)
    BY <1>2, <2>1 DEF Ahead, InLoop
  <2>3. (stage[M] = "submit" => \E j \in MetricJobs : j = LoopJob /\ Ahead(j))'
    <3>1. TypeInv'
      BY TypeNext DEF Next, TaskStep
    <3> QED
      BY <3>1, AheadAtJob, PTL
  <2> QED
    BY <1>1, <1>2, <2>1, <2>2, <2>3 DEF HandInv, NothingRefused, NewToPool
<1>5. CASE SubmitNext(w)
  <2>1. /\ stage[M] = "submit" /\ stage'[M] = "place" /\ UNCHANGED <<counter, next, main>>
        /\ Pool!Submit(LoopJob)
    BY <1>1, <1>5 DEF SubmitNext, At, Goto, loop
  <2>2. /\ LoopJob \in Jobs \ {CollectorJob, AIJob} /\ LoopJob' = LoopJob
        /\ LoopJob.cycle = counter /\ PlaceOf(LoopJob) = next
    BY <2>1, AtJob DEF LoopJob
  <2>3. /\ fresh' = fresh \ {LoopJob} /\ UNCHANGED stopped /\ ~Sent(LoopJob)
        /\ \A j \in Jobs : Sent(j)' <=> Sent(j)
    BY <2>1, <2>2, Handed
  <2>4. \A j \in MetricJobs : Ahead(j)' => Ahead(j) /\ j # LoopJob
    BY <1>2, <2>1, <2>2 DEF Ahead, InLoop
  <2> QED
    BY <1>1, <1>2, <2>1, <2>2, <2>3, <2>4 DEF HandInv, NothingRefused, NewToPool
<1>6. CASE PlaceNext(w)
  <2>1. /\ stage[M] = "place" /\ stage'[M] \in {"submit", "count"} /\ next' = next + 1
        /\ UNCHANGED <<counter, main>>
    BY <1>1, <1>6 DEF PlaceNext, At, Goto
  <2>2. /\ LoopJob \in Jobs \ {CollectorJob, AIJob}
    BY <2>1, AtJob
  <2>3. /\ UNCHANGED <<fresh, stopped>> /\ LoopJob \notin fresh
        /\ \A j \in Jobs : Sent(j)' <=> Sent(j) \/ j = LoopJob
    BY <1>6, <2>2, Placed DEF PlaceNext
  <2>4. \A j \in MetricJobs : Ahead(j)' => Ahead(j)
    BY <1>2, <2>1 DEF Ahead, InLoop
  <2>5. (stage[M] = "submit" => \E j \in MetricJobs : j = LoopJob /\ Ahead(j))'
    <3>1. TypeInv'
      BY TypeNext DEF Next, TaskStep
    <3> QED
      BY <3>1, AheadAtJob, PTL
  <2> QED
    BY <1>1, <1>2, <2>1, <2>2, <2>3, <2>4, <2>5 DEF HandInv, NothingRefused, NewToPool
<1>7. CASE Count(w)
  <2>1. /\ UNCHANGED <<fresh, stopped, next, main>> /\ counter' = counter + 1
        /\ stage[M] = "count" /\ stage'[M] = "testFlag"
        /\ \A j \in Jobs : Sent(j)' <=> Sent(j)
    BY <1>1, <1>7 DEF Count, At, Goto, pool, Sent
  <2>2. \A j \in MetricJobs : Ahead(j)' => Ahead(j)
    BY <1>2, <2>1 DEF Ahead, InLoop
  <2> QED
    BY <1>1, <1>2, <2>1, <2>2 DEF HandInv, NothingRefused, NewToPool
<1> QED
  BY <1>3, <1>4, <1>5, <1>6, <1>7 DEF CollectorStep

LEMMA HandNext == ASSUME TypeInv, CollectorInv, HandInv, [Next]_vars PROVE HandInv'
<1> USE Threads
<1>1. ASSUME NEW w \in Workers, Begin(w) PROVE HandInv'
  <2>1. /\ UNCHANGED <<fresh, stopped, counter, next, main>>
        /\ \A j \in Jobs : Sent(j)' <=> Sent(j)
    BY <1>1, BeginEffect DEF Begin, Pool!Begin, loop
  <2>2. Head(queue[w]) \in Jobs
    BY <1>1, BeginEffect DEF Begin
  <2>3. FirstStage[Head(queue[w]).kind] \notin InLoop
    BY <2>2, JobFacts DEF FirstStage, InLoop
  <2>4. UNCHANGED stage[LoopThread] \/ {stage[LoopThread], stage'[LoopThread]} \cap InLoop = {}
    BY <1>1, <2>3 DEF Begin, InLoop, LoopThread, TypeInv, TypeOK
  <2> QED
    BY <2>1, <2>4, HandQuiet
<1>2. ASSUME NEW w \in Workers, ProviderStep(w) \/ ScriptStep(w) \/ AIGivesUp(w) PROVE HandInv'
  <2>1. /\ UNCHANGED <<fresh, stopped, counter, next, main>>
        /\ \A j \in Jobs : Sent(j)' <=> Sent(j)
    BY <1>2, LocalFrame DEF pool, loop, Sent
  <2>2. PICK to \in Stages \ CollectorStages : stage' = [stage EXCEPT ![w] = to]
    BY <1>2, LocalFrame
  <2>3. stage[w] \notin InLoop /\ to \notin InLoop
    BY <1>2, <2>2, LocalFrame, StageFacts DEF InLoop, CollectorStages
  <2>4. UNCHANGED stage[LoopThread] \/ {stage[LoopThread], stage'[LoopThread]} \cap InLoop = {}
    BY <2>2, <2>3 DEF LoopThread, TypeInv, TypeOK
  <2> QED
    BY <2>1, <2>4, HandQuiet
<1>3. CASE UNCHANGED vars
  BY <1>3, HandQuiet DEF vars, pool, loop, tasksRun, Sent
<1> QED
  BY <1>1, <1>2, <1>3, HandMain, HandLoop DEF Next, TaskStep

\* NothingRefused: what main and the loop hand to AddTaskToThread is new to the pool
\* (Application.cpp:66-78, MetricsManager.cpp:14-20, ThreadManager.h:33-50): the conditions
\* of TaskPool, which the code does not have, never hold the code up.
THEOREM NobodyRefused == Spec => []NothingRefused
<1>1. Init => TypeInv /\ CollectorInv /\ HandInv
  BY TypeInit, CollectorInit, HandInit
<1>2. TypeInv /\ CollectorInv /\ HandInv /\ [Next]_vars => (TypeInv /\ CollectorInv /\ HandInv)'
  BY TypeNext, CollectorNext, HandNext
<1>3. HandInv => NothingRefused
  BY DEF HandInv
<1> QED
  BY <1>1, <1>2, <1>3, PTL DEF Spec

-----------------------------------------------------------------------------
(* One place at a time.                                                    *)
PlacedOnce ==
    /\ \A w \in Workers, j \in Jobs : HasOnce(queue[w], j)
    /\ \A v, w \in Workers, j \in Jobs : InQueue(j, v) /\ InQueue(j, w) => v = w
    /\ \A w \in Workers, j \in Jobs : InQueue(j, w) => ~Running(j) /\ ~Recorded(j)
    /\ \A j \in Jobs : Running(j) \/ Recorded(j) => Sent(j)

OnceInv == PlacedOnce /\ OneRowEach /\ RowsOfTasks

\* The stages from which a script's task may have rows.
RowStages == {"text", "setMetricCounter", "execute"}

\* Nobody leaves them but by returning.
NoneLeaves ==
    \A v \in Workers : stage[v] \in RowStages => stage'[v] \in RowStages \/ job'[v] = NoJob

LEMMA OnceInit == Init => OnceInv
<1> SUFFICES ASSUME Init PROVE OnceInv
  OBVIOUS
<1>1. /\ queue = [w \in Workers |-> <<>>] /\ job = [w \in Workers |-> NoJob] /\ rows = <<>>
  BY DEF Init, Pool!Init, Pool!Workers, Workers
<1>2. /\ \A w \in Workers, j \in Jobs : ~InQueue(j, w) /\ HasOnce(queue[w], j)
      /\ \A j : ~Recorded(j)
      /\ \A j \in Jobs : ~Running(j)
  BY <1>1, JobFacts DEF InQueue, Has, HasOnce, Recorded, Running
<1> QED
  BY <1>1, <1>2 DEF OnceInv, PlacedOnce, OneRowEach, RowsOfTasks

\* NoJob is recorded nowhere, and what is recorded is a task.
LEMMA RecordedJobs ==
    ASSUME TypeInv, NEW j, Recorded(j)
    PROVE  j \in Jobs /\ j # NoJob
<1>1. PICK i \in 1 .. Len(rows) : rows[i].job = j
  BY DEF Recorded
<1>2. rows[i] \in Rows
  BY DEF TypeInv, TypeOK
<1> QED
  BY <1>1, <1>2, JobFacts DEF Rows

\* A task is queued where it was nowhere.
LEMMA OnceAccept ==
    ASSUME TypeInv, OnceInv, NEW t \in Jobs, NEW w \in Workers, Pool!Accept(t, w),
           UNCHANGED <<job, rows>>, NoneLeaves
    PROVE  OnceInv'
<1>1. /\ \A v \in Workers, j \in Jobs : InQueue(j, v)' <=> InQueue(j, v) \/ (v = w /\ j = t)
      /\ \A j \in Jobs : Sent(j)' <=> Sent(j) \/ j = t
      /\ \A v \in Workers, j \in Jobs : HasOnce(queue[v], j) => HasOnce(queue'[v], j)
  BY AcceptEffect
<1>2. ~Sent(t) /\ \A v \in Workers : ~InQueue(t, v)
  BY DEF Pool!Accept, Pool!Workers, Workers, Sent, InQueue, Has
<1>3. ~Running(t) /\ ~Recorded(t)
  BY <1>2 DEF OnceInv, PlacedOnce
<1>4. \A j : (Running(j)' <=> Running(j)) /\ (Recorded(j)' <=> Recorded(j))
  BY DEF Running, Recorded
<1>5. OneRowEach'
  <2>1. ~Recorded(NoJob)
    BY RecordedJobs
  <2> QED
    BY <1>4, <2>1 DEF OnceInv, OneRowEach, NoneLeaves, RowStages
<1>6. RowsOfTasks'
  BY DEF OnceInv, RowsOfTasks
<1> QED
  BY <1>1, <1>2, <1>3, <1>4, <1>5, <1>6 DEF OnceInv, PlacedOnce

\* A thread begins the task at the head of its queue, which is then in no queue.
LEMMA OnceBegin == ASSUME TypeInv, OnceInv, NEW w \in Workers, Begin(w) PROVE OnceInv'
<1>0. PICK h : h = Head(queue[w])
  OBVIOUS
<1>1. /\ h \in Jobs /\ InQueue(h, w)
      /\ \A v \in Workers, j \in Jobs : InQueue(j, v)' => InQueue(j, v)
      /\ \A j \in Jobs : Sent(j)' <=> Sent(j)
      /\ \A v \in Workers, j \in Jobs : HasOnce(queue[v], j) => HasOnce(queue'[v], j)
      /\ HasOnce(queue[w], h) => ~Has(queue'[w], h)
  BY <1>0, BeginEffect DEF Begin
<1>2. /\ job \in [Workers -> Jobs \cup {NoJob}] /\ job' = [job EXCEPT ![w] = h]
      /\ UNCHANGED rows /\ \A v \in Workers : v # w => UNCHANGED stage[v]
  BY <1>0 DEF Begin, TypeInv, TypeOK
<1>3. ~Running(h) /\ ~Recorded(h) /\ Sent(h) /\ \A v \in Workers : ~InQueue(h, v)'
  <2>1. ~Running(h) /\ ~Recorded(h) /\ HasOnce(queue[w], h)
    BY <1>1 DEF OnceInv, PlacedOnce
  <2>2. Sent(h)
    BY <1>1 DEF InQueue, Has, Sent
  <2>3. ~InQueue(h, w)'
    BY <1>1, <2>1 DEF InQueue
  <2>4. \A v \in Workers : InQueue(h, v)' => v = w
    BY <1>1 DEF OnceInv, PlacedOnce
  <2> QED
    BY <2>1, <2>2, <2>3, <2>4
<1>4. /\ \A j \in Jobs : Running(j)' => Running(j) \/ j = h
      /\ \A j : Recorded(j)' <=> Recorded(j)
  BY <1>2 DEF Running, Recorded
<1>5. OneRowEach'
  <2>1. \A v \in Workers : job'[v] = IF v = w THEN h ELSE job[v]
    BY <1>2
  <2>2. \A v \in Workers : job[v] # h
    BY <1>3 DEF Running
  <2> QED
    BY <1>1, <1>2, <1>3, <1>4, <2>1, <2>2 DEF OnceInv, OneRowEach
<1>6. RowsOfTasks'
  BY <1>2 DEF OnceInv, RowsOfTasks
<1> QED
  BY <1>1, <1>3, <1>4, <1>5, <1>6 DEF OnceInv, PlacedOnce

\* A task goes on, or returns.
LEMMA OnceGoes ==
    ASSUME TypeInv, OnceInv, NEW w \in Workers, UNCHANGED <<queue, begun, rows>>,
           UNCHANGED job \/ job' = [job EXCEPT ![w] = NoJob], NoneLeaves
    PROVE  OnceInv'
<1>1. /\ job \in [Workers -> Jobs \cup {NoJob}]
      /\ \A v \in Workers : job'[v] = job[v] \/ job'[v] = NoJob
  BY DEF TypeInv, TypeOK
<1>2. /\ \A j \in Jobs : Running(j)' => Running(j)
      /\ \A j : (Recorded(j)' <=> Recorded(j)) /\ (Sent(j)' <=> Sent(j))
      /\ \A v \in Workers, j \in Jobs : InQueue(j, v)' <=> InQueue(j, v)
  BY <1>1, JobFacts DEF Running, Recorded, Sent, InQueue
<1>3. OneRowEach'
  <2>1. ~Recorded(NoJob)
    BY RecordedJobs
  <2> QED
    BY <1>1, <1>2, <2>1 DEF OnceInv, OneRowEach, NoneLeaves, RowStages
<1>4. RowsOfTasks'
  BY DEF OnceInv, RowsOfTasks
<1> QED
  BY <1>2, <1>3, <1>4 DEF OnceInv, PlacedOnce

\* A provider's task inserts its row as the last thing it does; a script's goes on.
LEMMA OnceRow ==
    ASSUME TypeInv, OnceInv, [Next]_vars, NEW w \in Workers, Extended(w)
    PROVE  OnceInv'
<1>1. PICK r \in Rows : rows' = Append(rows, r) /\ RowOf(w, r)
  BY DEF Extended
<1>2. /\ job \in [Workers -> Jobs \cup {NoJob}] /\ stage \in [Workers -> Stages]
      /\ r.job = job[w] /\ job[w] \in Jobs /\ job[w] # NoJob
      /\ \/ r.by = "record" /\ stage[w] = "persist"
         \/ r.by # "record" /\ stage[w] \in RowStages /\ job[w] \notin ProviderJobs
  <2>1. CASE PersistRecord(w) /\ r.by = "record"
    BY <1>1, <2>1, StageFacts, JobFacts DEF RowOf, TypeInv, TypeOK, JobStages
  <2>2. CASE r.by \in {"text", "execute"}
    BY <1>1, <2>2, StageFacts, JobFacts DEF RowOf, TypeInv, TypeOK, JobStages, RowStages
  <2> QED
    BY <1>1, <2>1, <2>2 DEF RowOf
<1>3. /\ UNCHANGED <<queue, begun>>
      /\ \A v \in Workers : v # w => UNCHANGED <<stage[v], job[v]>>
      /\ job'[w] = NoJob \/ (r.by # "record" /\ UNCHANGED <<stage[w], job[w]>>)
  <2>1. CASE PersistRecord(w)
    BY <1>2, <2>1 DEF PersistRecord, Return, pool
  <2>2. CASE (PersistInText(w) \/ PersistInExecute(w)) /\ r.by # "record"
    BY <2>2, PersistFrame DEF pool
  <2> QED
    BY <1>1, <2>1, <2>2 DEF RowOf
<1>4. /\ rows \in Seq(Rows) /\ Len(rows) \in Nat /\ Len(rows') = Len(rows) + 1
      /\ rows'[Len(rows) + 1] = r /\ \A i \in 1 .. Len(rows) : rows'[i] = rows[i]
  <2>1. rows \in Seq(Rows)
    BY DEF TypeInv, TypeOK
  <2> QED
    BY <1>1, <2>1, AppendProperties
<1>5. /\ \A i \in 1 .. Len(rows') : i \in 1 .. Len(rows) \/ i = Len(rows) + 1
      /\ Len(rows) + 1 \in 1 .. Len(rows') /\ \A i \in 1 .. Len(rows) : i \in 1 .. Len(rows')
  BY <1>4
<1>6. \A j : Recorded(j)' <=> Recorded(j) \/ j = job[w]
  BY <1>2, <1>4, <1>5 DEF Recorded
<1>7. \A u, v \in Workers : job[u] = job[v] /\ job[u] # NoJob => u = v
  BY DEF OnceInv, OneRowEach
<1>8. PlacedOnce'
  <2>1. /\ \A j : Sent(j)' <=> Sent(j)
        /\ \A v \in Workers, j \in Jobs : InQueue(j, v)' <=> InQueue(j, v)
    BY <1>3 DEF Sent, InQueue
  <2>2. \A j \in Jobs : Running(j)' => Running(j)
    BY <1>3, JobFacts DEF Running
  <2>3. Running(job[w])
    BY DEF Running
  <2>4. Sent(job[w]) /\ \A v \in Workers : ~InQueue(job[w], v)
    BY <1>2, <2>3 DEF OnceInv, PlacedOnce
  <2> QED
    BY <1>3, <1>6, <2>1, <2>2, <2>4 DEF OnceInv, PlacedOnce
<1>9. OneRowEach'
  <2>1. ASSUME NEW i \in 1 .. Len(rows'), NEW k \in 1 .. Len(rows'),
               rows'[i].job = rows'[k].job, rows'[i].by = "record"
        PROVE  i = k
    <3>1. CASE i \in 1 .. Len(rows) /\ k \in 1 .. Len(rows)
      BY <1>4, <2>1, <3>1 DEF OnceInv, OneRowEach
    <3>2. \A n \in 1 .. Len(rows) : rows[n].by = "record" => rows[n].job # job[w]
      <4>1. CASE stage[w] = "persist"
        BY <4>1 DEF OnceInv, OneRowEach, Recorded
      <4>2. CASE job[w] \notin ProviderJobs
        BY <4>2 DEF OnceInv, RowsOfTasks
      <4> QED
        BY <1>2, <4>1, <4>2
    <3>3. \A n \in 1 .. Len(rows) : r.by = "record" => rows[n].job # job[w]
      BY <1>2 DEF OnceInv, OneRowEach, Recorded, RowStages
    <3>4. CASE i = Len(rows) + 1 /\ k \in 1 .. Len(rows)
      BY <1>2, <1>4, <2>1, <3>3, <3>4
    <3>5. CASE k = Len(rows) + 1 /\ i \in 1 .. Len(rows)
      BY <1>2, <1>4, <2>1, <3>2, <3>5
    <3> QED
      BY <1>5, <3>1, <3>4, <3>5
  <2>2. ASSUME NEW v \in Workers, stage'[v] \notin RowStages PROVE ~Recorded(job[v])'
    <3>1. CASE job'[v] = NoJob
      BY <1>2, <1>6, <3>1, RecordedJobs
    <3>2. CASE v = w /\ job'[w] # NoJob
      BY <1>2, <1>3, <2>2, <3>2
    <3>3. CASE v # w /\ job'[v] # NoJob
      <4>1. job'[v] = job[v] /\ job[v] # job[w] /\ ~Recorded(job[v])
        BY <1>3, <1>7, <2>2, <3>3 DEF OnceInv, OneRowEach, RowStages
      <4> QED
        BY <1>6, <4>1
    <3> QED
      BY <3>1, <3>2, <3>3
  <2>3. \A u, v \in Workers : job'[u] = job'[v] /\ job'[u] # NoJob => u = v
    BY <1>3, <1>7
  <2> QED
    BY <2>1, <2>2, <2>3 DEF OneRowEach, RowStages
<1>10. RowsOfTasks'
  BY OfTasksNext DEF OnceInv
<1> QED
  BY <1>8, <1>9, <1>10 DEF OnceInv

LEMMA OnceNext == ASSUME TypeInv, OnceInv, [Next]_vars PROVE OnceInv'
<1> USE Threads
<1>0. CollectorJob \in Jobs /\ AIJob \in Jobs
  BY JobFacts
<1>1. CASE MainStep
  <2>0. NoneLeaves
    BY <1>1 DEF MainStep, AddCollector, AddAI, Give, Place, ServerEnds, StopMetricsCollection,
                StopScripts, StopPool, tasksRun, NoneLeaves
  <2>1. CASE UNCHANGED <<queue, begun>>
    BY <1>1, <2>0, <2>1, OnceGoes
       DEF MainStep, AddCollector, AddAI, Give, Place, ServerEnds, StopMetricsCollection,
           StopScripts, StopPool, tasksRun
  <2>2. CASE \/ Place("placeCollector", "addAI", CollectorJob, METRICS_MANAGER_THREAD)
             \/ Place("placeAI", "server", AIJob, INTELLIGENCE_MANAGER_THREAD)
    BY <1>0, <2>0, <2>2, OnceAccept DEF Place, tasksRun
  <2> QED
    BY <1>1, <2>1, <2>2
       DEF MainStep, AddCollector, AddAI, Give, ServerEnds, StopMetricsCollection, StopScripts,
           StopPool, Pool!Submit, Pool!Stop, pool
<1>2. ASSUME NEW w \in Workers, Begin(w) PROVE OnceInv'
  BY <1>2, OnceBegin
<1>3. ASSUME NEW w \in Workers, CollectorStep(w) PROVE OnceInv'
  <2>1. UNCHANGED rows
    BY <1>3, LoopOnItsThread
  <2>0. NoneLeaves
    <3>1. stage[w] \notin RowStages
      BY <1>3, LoopOnItsThread DEF CollectorStages, RowStages
    <3>2. \A v \in Workers : v # w => UNCHANGED stage[v]
      BY <1>3 DEF CollectorStep, SetFlag, ResetCounter, TestFlag, SubmitNext, PlaceNext, Count,
                  Goto, Return, TypeInv, TypeOK
    <3> QED
      BY <3>1, <3>2 DEF NoneLeaves
  <2>2. CASE PlaceNext(w)
    <3>1. LoopJob \in Jobs
      BY <1>3, <2>2, LoopOnItsThread, AtJob DEF PlaceNext, At, LoopThread
    <3> QED
      BY <2>0, <2>1, <2>2, <3>1, OnceAccept DEF PlaceNext, Goto
  <2>3. CASE ~PlaceNext(w)
    <3>1. UNCHANGED <<queue, begun>> /\ (UNCHANGED job \/ job' = [job EXCEPT ![w] = NoJob])
      BY <1>3, <2>3 DEF CollectorStep, SetFlag, ResetCounter, TestFlag, SubmitNext, Count,
                        Pool!Submit, pool, Goto, Return
    <3> QED
      BY <2>0, <2>1, <3>1, OnceGoes
  <2> QED
    BY <2>2, <2>3
<1>4. ASSUME NEW w \in Workers, ProviderStep(w) \/ ScriptStep(w) \/ AIGivesUp(w) PROVE OnceInv'
  <2>1. UNCHANGED <<queue, begun>> /\ (UNCHANGED job \/ job' = [job EXCEPT ![w] = NoJob])
    BY <1>4, LocalFrame DEF pool
  <2>2. CASE UNCHANGED rows
    <3>1. PICK to \in Stages \ CollectorStages :
              /\ stage' = [stage EXCEPT ![w] = to]
              /\ job' = IF to = "idle" THEN [job EXCEPT ![w] = NoJob] ELSE job
      BY <1>4, LocalFrame
    <3>2. stage[w] \in RowStages => to \in RowStages \cup {"idle"}
      <4>1. CASE ProviderStep(w) \/ AIGivesUp(w)
        BY <4>1 DEF ProviderStep, LoadCounter, MakeRecord, SetRecordCounter, Collect,
                    PersistRecord, AIGivesUp, At, RowStages
      <4>2. CASE ScriptStep(w)
        BY <3>1, <4>2, PersistFrame
           DEF ScriptStep, LockScript, SetupScript, EndText, SetMetricCounter, ExecuteScript,
               At, Goto, Return, RowStages, TypeInv, TypeOK
      <4> QED
        BY <1>4, <4>1, <4>2
    <3>3. NoneLeaves
      BY <3>1, <3>2 DEF NoneLeaves, TypeInv, TypeOK
    <3> QED
      BY <2>1, <2>2, <3>3, OnceGoes
  <2>3. ASSUME NEW v \in Workers, Extended(v) PROVE OnceInv'
    BY <2>3, OnceRow
  <2> QED
    BY <2>2, <2>3, RowsGrow
<1>5. CASE UNCHANGED vars
  BY <1>5, OnceGoes DEF vars, pool, tasksRun, NoneLeaves
<1> QED
  BY <1>1, <1>2, <1>3, <1>4, <1>5 DEF Next, TaskStep

\* OneRowEach: a task runs on one thread at most, a provider's leaves one row at most, so a
\* provider has no two rows of one loop, and a script's leaves none before its text runs
\* (MetricsManager.cpp:15-20, ThreadManager.h:91-105, CPUMetricProvider.h:97-132,
\* ScriptManager.cpp:11-26).
THEOREM RowsOnce == Spec => []OneRowEach
<1>1. TypeInv /\ OnceInv /\ [Next]_vars => (TypeInv /\ OnceInv)'
  BY TypeNext, OnceNext
<1>2. OnceInv => OneRowEach
  BY DEF OnceInv
<1> QED
  BY <1>1, <1>2, TypeInit, OnceInit, PTL DEF Spec

-----------------------------------------------------------------------------
(* The scripts' mutexes, and the way of a task to its end.                 *)
LEMMA HeldInit == Init => MutexHeldInside
  BY DEF Init, MutexHeldInside

LEMMA HeldNext ==
    ASSUME TypeInv, ScriptInv, MutexHeldInside, [Next]_vars
    PROVE  MutexHeldInside'
<1> DEFINE Inside(v, s) == stage[v] \in LockedStages /\ job[v].source = s
<1>1. /\ stage \in [Workers -> Stages] /\ job \in [Workers -> Jobs \cup {NoJob}]
      /\ ctxOwner \in [1 .. Scripts -> Workers \cup {Nobody}] /\ Nobody \notin Workers
      /\ \A s \in 1 .. Scripts : ctxOwner[s] # Nobody => Inside(ctxOwner[s], s)
      /\ \A v \in Workers : stage[v] \in LockedStages => ctxOwner[job[v].source] = v
  BY PoolAssumption
     DEF TypeInv, TypeOK, MutexHeldInside, LockedStages, ScriptInv, OwnScript, Workers, Nobody
<1>2. SUFFICES ASSUME NEW s \in 1 .. Scripts, ctxOwner'[s] # Nobody
               PROVE  Inside(ctxOwner[s], s)'
  BY DEF MutexHeldInside, LockedStages
<1>3. ASSUME ctxOwner'[s] = ctxOwner[s], UNCHANGED <<stage[ctxOwner[s]], job[ctxOwner[s]]>>
      PROVE  Inside(ctxOwner[s], s)'
  BY <1>1, <1>2, <1>3
<1>4. CASE MainStep \/ UNCHANGED vars
  BY <1>3, <1>4 DEF MainStep, AddCollector, AddAI, Give, Place, ServerEnds, StopMetricsCollection,
                    StopScripts, StopPool, vars, tasksRun, shared
<1>5. ASSUME NEW w \in Workers, Begin(w) \/ CollectorStep(w) \/ ProviderStep(w) \/ AIGivesUp(w)
      PROVE  Inside(ctxOwner[s], s)'
  <2>1. UNCHANGED ctxOwner
    BY <1>5, LoopOnItsThread
       DEF Begin, AIGivesUp, ProviderStep, LoadCounter, MakeRecord, SetRecordCounter, Collect,
           PersistRecord, shared
  <2>2. stage[w] \notin LockedStages
    BY <1>5, LoopOnItsThread, StageFacts
       DEF Begin, AIGivesUp, ProviderStep, LoadCounter, MakeRecord, SetRecordCounter, Collect,
           PersistRecord, At, LockedStages, CollectorStages
  <2>3. \A v \in Workers : v # w => UNCHANGED <<stage[v], job[v]>>
    BY <1>1, <1>5
       DEF Begin, AIGivesUp, CollectorStep, SetFlag, ResetCounter, TestFlag, SubmitNext,
           PlaceNext, Count, ProviderStep, LoadCounter, MakeRecord, SetRecordCounter, Collect,
           PersistRecord, Goto, Return
  <2>4. ctxOwner[s] \in Workers /\ ctxOwner[s] # w
    BY <1>1, <1>2, <2>1, <2>2
  <2> QED
    BY <1>3, <2>1, <2>3, <2>4
<1>6. ASSUME NEW w \in Workers, ScriptStep(w) PROVE Inside(ctxOwner[s], s)'
  <2>1. job[w].source \in 1 .. Scripts /\ stage[w] \in ScriptStages
    BY <1>6, ScriptFrame, JobFacts DEF TypeInv, JobStages
  <2>2. \A v \in Workers : v # w => UNCHANGED <<stage[v], job[v]>>
    BY <1>6, ScriptFrame
  <2>3. CASE LockScript(w)
    BY <1>1, <1>2, <2>1, <2>2, <2>3 DEF LockScript, Goto, LockedStages
  <2>4. CASE SetupScript(w) \/ EndText(w) \/ SetMetricCounter(w) \/ ExecuteScript(w)
    <3>1. stage[w] \in LockedStages /\ ctxOwner[job[w].source] = w
      BY <1>1, <2>4 DEF SetupScript, EndText, SetMetricCounter, ExecuteScript, At, LockedStages
    <3>2. CASE UNCHANGED ctxOwner /\ stage'[w] \in LockedStages /\ UNCHANGED job
      BY <1>1, <1>2, <2>2, <3>2
    <3>3. CASE Unlock(w)
      <4>1. ctxOwner' = [ctxOwner EXCEPT ![job[w].source] = Nobody]
        BY <3>3 DEF Unlock
      <4>2. s # job[w].source /\ ctxOwner'[s] = ctxOwner[s]
        BY <1>1, <1>2, <2>1, <4>1
      <4>3. ctxOwner[s] \in Workers /\ ctxOwner[s] # w
        BY <1>1, <1>2, <4>2
      <4> QED
        BY <1>3, <2>2, <4>2, <4>3
    <3> QED
      BY <1>1, <2>4, <3>2, <3>3
         DEF SetupScript, EndText, SetMetricCounter, ExecuteScript, Goto, LockedStages
  <2>5. CASE PersistInText(w) \/ PersistInExecute(w)
    BY <1>3, <2>5, PersistFrame
  <2> QED
    BY <1>6, <2>3, <2>4, <2>5 DEF ScriptStep
<1> QED
  BY <1>4, <1>5, <1>6 DEF Next, TaskStep

\* MutexHeldInside: ctxMutex of a script is held by a task inside that script and by no other,
\* so that a task at the lock waits for one that waits for nothing (ScriptManager.cpp:11-26).
THEOREM NoMutexLeft == Spec => []MutexHeldInside
<1>1. TypeInv /\ ScriptInv /\ MutexHeldInside /\ [Next]_vars =>
          (TypeInv /\ ScriptInv /\ MutexHeldInside)'
  BY TypeNext, ScriptNext, HeldNext
<1> QED
  BY <1>1, TypeInit, ScriptInit, HeldInit, PTL DEF Spec

\* Who has nothing to do has no task, and who predicts has that one.
BusyInv ==
    \A w \in Workers : /\ stage[w] = "idle" => job[w] = NoJob
                       /\ stage[w] = "predict" => job[w] = AIJob

LEMMA BusyInit == Init => BusyInv
  BY DEF Init, BusyInv

LEMMA BusyNext == ASSUME TypeInv, BusyInv, [Next]_vars PROVE BusyInv'
<1> DEFINE Busy(w) == /\ stage[w] = "idle" => job[w] = NoJob
                      /\ stage[w] = "predict" => job[w] = AIJob
<1> SUFFICES ASSUME NEW w \in Workers PROVE Busy(w)'
  BY DEF BusyInv
<1>1. stage \in [Workers -> Stages] /\ job \in [Workers -> Jobs \cup {NoJob}] /\ Busy(w)
  BY DEF TypeInv, TypeOK, BusyInv
<1>2. CASE UNCHANGED <<stage[w], job[w]>>
  BY <1>1, <1>2
<1>3. CASE Begin(w)
  <2>1. PICK j \in Jobs : j = Head(queue[w])
    BY <1>3, BeginEffect DEF Begin
  <2>2. FirstStage[j.kind] # "idle" /\ (FirstStage[j.kind] = "predict" => j.kind = "ai")
    BY JobFacts DEF FirstStage
  <2>3. j.kind = "ai" => j = AIJob
    BY DEF Jobs, ProviderJobs, ScriptJobs, CollectorJob, Job
  <2> QED
    BY <1>1, <1>3, <2>1, <2>2, <2>3 DEF Begin
<1>4. CASE TaskStep(w) \/ AIGivesUp(w)
  <2> USE <1>1 DEF Goto, Return
  <2>1. CASE CollectorStep(w)
    BY <2>1 DEF CollectorStep, SetFlag, ResetCounter, TestFlag, SubmitNext, PlaceNext, Count
  <2>2. CASE ProviderStep(w)
    BY <2>2 DEF ProviderStep, LoadCounter, MakeRecord, SetRecordCounter, Collect, PersistRecord
  <2>3. CASE ScriptStep(w)
    BY <2>3, ScriptFrame, StageFacts DEF ScriptStages
  <2>4. CASE AIGivesUp(w)
    BY <2>4 DEF AIGivesUp
  <2> QED
    BY <1>4, <2>1, <2>2, <2>3, <2>4 DEF TaskStep
<1> QED
  BY <1>2, <1>3, <1>4, OthersStay

LEMMA TaskFalls ==
    ASSUME TypeInv, ReservedInv, BusyInv, [Next]_vars, NEW w \in Workers,
           job[w].kind \in {"provider", "script"}, stage'[w] # stage[w]
    PROVE  TaskLeft(w)' < TaskLeft(w)
<1>1. /\ stage \in [Workers -> Stages] /\ stage[w] \notin {"idle", "predict"}
      /\ job[w] # CollectorJob
  <2>1. /\ NoJob.kind \notin {"provider", "script"} /\ AIJob.kind \notin {"provider", "script"}
        /\ CollectorJob.kind \notin {"provider", "script"}
    BY DEF NoJob, AIJob, CollectorJob, Job
  <2> QED
    BY <2>1 DEF TypeInv, TypeOK, BusyInv
<1>2. stage[w] \notin CollectorStages
  BY <1>1, JobFacts DEF TypeInv, JobStages, ReservedInv, MetricsThreadReserved, LoopThread
<1>3. ProviderStep(w) \/ ScriptStep(w)
  BY <1>1, <1>2, OthersStay, LoopOnItsThread DEF Begin, TaskStep, AIGivesUp, At
<1> USE <1>1 DEF At, Goto, Return, TaskLeft
<1>4. CASE ProviderStep(w)
  BY <1>4 DEF ProviderStep, LoadCounter, MakeRecord, SetRecordCounter, Collect, PersistRecord
<1>5. CASE ScriptStep(w)
  BY <1>5, PersistFrame
     DEF ScriptStep, LockScript, SetupScript, EndText, SetMetricCounter, ExecuteScript
<1> QED
  BY <1>3, <1>4, <1>5

\* TasksWindDown: a task that has begun comes nearer to its end with each statement, and
\* nobody else moves it (CPUMetricProvider.h:97-114, ScriptManager.cpp:11-26).  With NoMutexLeft
\* this is the safe half of TasksReturn.
THEOREM TasksEnd == Spec => TasksWindDown
<1> DEFINE Falls == \A w \in Workers :
                       job[w].kind \in {"provider", "script"} /\ stage'[w] # stage[w] =>
                           TaskLeft(w)' < TaskLeft(w)
<1>1. TypeInv /\ ReservedInv /\ BusyInv /\ [Next]_vars => [Falls]_vars
  BY TaskFalls
<1>2. TypeInv /\ ReservedInv /\ BusyInv /\ [Next]_vars => (TypeInv /\ ReservedInv /\ BusyInv)'
  BY TypeNext, ReservedNext, BusyNext
<1> QED
  BY <1>1, <1>2, TypeInit, ReservedInit, BusyInit, PTL DEF Spec, TasksWindDown

-----------------------------------------------------------------------------
(* The pool.                                                               *)
LEMMA StepsPool == ASSUME TypeInv, [Next]_vars PROVE [Pool!Next]_Pool!vars
<1> USE Threads DEF Pool!vars
<1>0. /\ CollectorJob \in Jobs /\ AIJob \in Jobs /\ Pool!Workers = Workers
      /\ RandomIndex \subseteq Workers
  BY JobFacts DEF Pool!Workers, Workers
<1>1. CASE UNCHANGED pool
  BY <1>1 DEF pool
<1>2. ASSUME NEW t \in Jobs, Pool!Submit(t) PROVE Pool!Next
  BY <1>2 DEF Pool!Next
<1>3. ASSUME NEW t \in Jobs, NEW w \in Workers, Pool!Accept(t, w) PROVE Pool!Next
  BY <1>0, <1>3 DEF Pool!Next
<1>4. CASE MainStep
  <2>1. CASE AddCollector
    BY <1>0, <1>2, <1>3, <2>1 DEF AddCollector, Give, Place
  <2>2. CASE AddAI
    BY <1>0, <1>2, <1>3, <2>2 DEF AddAI, Give, Place
  <2>3. CASE StopPool
    BY <2>3 DEF StopPool, Pool!Next
  <2> QED
    BY <1>1, <1>4, <2>1, <2>2, <2>3 DEF MainStep, ServerEnds, StopMetricsCollection, StopScripts
<1>5. ASSUME NEW w \in Workers, Begin(w) PROVE Pool!Next
  BY <1>0, <1>5 DEF Begin, Pool!Next
<1>6. ASSUME NEW w \in Workers, CollectorStep(w) PROVE [Pool!Next]_Pool!vars
  <2>1. CASE SubmitNext(w) \/ PlaceNext(w)
    <3>1. LoopJob \in Jobs
      BY <1>6, <2>1, LoopOnItsThread, AtJob DEF SubmitNext, PlaceNext, At, LoopThread
    <3> QED
      BY <1>0, <1>2, <1>3, <2>1, <3>1 DEF SubmitNext, PlaceNext
  <2> QED
    BY <1>1, <1>6, <2>1 DEF CollectorStep, SetFlag, ResetCounter, TestFlag, Count
<1>7. CASE \E w \in Workers : ProviderStep(w) \/ ScriptStep(w) \/ AIGivesUp(w)
  BY <1>1, <1>7, LocalFrame
<1>8. CASE UNCHANGED vars
  BY <1>1, <1>8 DEF vars
<1> QED
  BY <1>4, <1>5, <1>6, <1>7, <1>8 DEF Next, TaskStep

\* PoolSpec: what main and the loop do to the pool is what TaskPool lets its callers do, so
\* what is proved here holds on top of ThreadManager, which implements TaskPool.
THEOREM UsesPool == Spec => PoolSpec
<1>1. Init => Pool!Init
  BY DEF Init
<1> QED
  BY <1>1, TypeInit, TypeNext, StepsPool, PTL DEF Spec, PoolSpec, Pool!Spec
=============================================================================
