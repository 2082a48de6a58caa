------------------------ MODULE MetricsManagerProofs ------------------------
(***************************************************************************)
(* Proofs about the collection, for any number of threads, providers and   *)
(* scripts and any bound on the loops.                                     *)
(*                                                                         *)
(*   CollectionTyped    types, and who may be at which statement           *)
(*   LoopsComplete      the loop sends every task of it, whatever stops it *)
(*   CountersInTime     a row's counter is none of an earlier loop         *)
(*   RowsUnmixed        a row belongs to one task                          *)
(***************************************************************************)
EXTENDS MetricsManager, SequenceTheorems, TLAPS

CollectorStages == {"setFlag", "resetCounter", "testFlag", "submit", "place", "count"}
RecordStages    == {"setCounter", "collect", "persist"}
ProviderStages  == {"load", "make", "setCounter", "collect", "persist"}
LockedStages    == {"testStop", "text", "setMetricCounter", "execute"}
ScriptStages    == {"lock", "testStop", "text", "setMetricCounter", "execute"}
MetricJobs      == ProviderJobs \cup ScriptJobs

\* A statement is reached by the kind of task it belongs to, and the collection's only on
\* the thread the metrics manager asks for.
JobStages ==
    \A w \in Workers :
        /\ stage[w] \in CollectorStages => w = METRICS_MANAGER_THREAD
        /\ stage[w] \in ProviderStages => job[w] \in ProviderJobs
        /\ stage[w] \in ScriptStages => job[w] \in ScriptJobs

LoopBounds ==
    /\ stage[METRICS_MANAGER_THREAD] \in {"submit", "place", "count"} => counter < Cycles
    /\ stage[METRICS_MANAGER_THREAD] \in {"submit", "place"} => next <= Providers + Scripts
    /\ stage[METRICS_MANAGER_THREAD] = "count" => next = Providers + Scripts + 1

Has(q, j)     == \E i \in 1 .. Len(q) : q[i] = j
HasOnce(q, j) == \A i, k \in 1 .. Len(q) : q[i] = j /\ q[k] = j => i = k
InQueue(j, w) == Has(queue[w], j)
InBegun(j, w) == Has(begun[w], j)

TypeInv ==
    /\ TypeOK /\ JobStages /\ LoopBounds
    /\ begun \in [Workers -> Seq(Jobs)]
    /\ \A w \in Workers : InQueue(CollectorJob, w) => w = METRICS_MANAGER_THREAD

\* The collection is begun once, and until then the counter is what it was made with.
CollectorInv ==
    /\ HasOnce(queue[METRICS_MANAGER_THREAD], CollectorJob)
    /\ main \in {"addCollector", "placeCollector"} =>
          ~InQueue(CollectorJob, METRICS_MANAGER_THREAD)
    /\ main \in {"addCollector", "placeCollector"} \/ InQueue(CollectorJob, METRICS_MANAGER_THREAD) =>
          counter = 0 /\ stage[METRICS_MANAGER_THREAD] \notin CollectorStages
    /\ stage[METRICS_MANAGER_THREAD] \in {"setFlag", "resetCounter"} => counter = 0

\* The place of a task in its loop; what the loop has passed has been sent.
PlaceOf(j) == IF j.kind = "provider" THEN j.source ELSE Providers + j.source

SentSoFar ==
    stage[METRICS_MANAGER_THREAD] \in {"submit", "place", "count"} =>
        \A j \in MetricJobs : j.cycle = counter /\ PlaceOf(j) < next => Sent(j)

\* What a task has loaded is no counter of an earlier loop than its own.
InTime ==
    \A w \in Workers :
        /\ stage[w] \in ProviderStages \cup ScriptStages => job[w].cycle <= counter
        /\ Cycles < CounterRange /\ stage[w] \in {"make", "execute"} \cup RecordStages =>
              job[w].cycle <= arg[w] /\ arg[w] <= counter

\* A provider whose tasks have not met has one in its record, and the record is its own.
OwnRecord(w) ==
    LET p == job[w].source IN
    stage[w] \in RecordStages /\ ~overlapped[p] =>
        /\ \A v \in Workers : InRecord(v, p) => v = w
        /\ stage[w] = "setCounter" => latest[p] = Blank
        /\ stage[w] \in {"collect", "persist"} => latest[p].counter = arg[w]
        /\ stage[w] = "collect" => latest[p].sample = NoSample
        /\ stage[w] = "persist" =>
              latest[p].sample \in {NoSample, [job |-> job[w], arg |-> arg[w]]}

RecordInv ==
    /\ overlapped \in [1 .. Providers -> BOOLEAN]
    /\ \A w \in Workers : OwnRecord(w)

\* A script's members belong to the task that holds ctxMutex.
OwnScript(w) ==
    LET s == job[w].source IN
    stage[w] \in LockedStages =>
        /\ ctxOwner[s] = w
        /\ stage[w] = "execute" => metricCounter[s] = arg[w]

ScriptInv == \A w \in Workers : OwnScript(w)

\* Rows are of tasks that collect, a provider's record of a provider.
RowsOfTasks ==
    \A i \in 1 .. Len(rows) :
        /\ rows[i].job \in MetricJobs
        /\ rows[i].by = "record" => rows[i].job \in ProviderJobs

\* No member shows a counter the loop has not reached.
Behind ==
    /\ \A s \in 1 .. Scripts : metricCounter[s] <= counter
    /\ Cycles < CounterRange => \A p \in 1 .. Providers : latest[p].counter <= counter


-----------------------------------------------------------------------------
(* Tasks and queues.                                                       *)
LEMMA JobFacts ==
    /\ CollectorJob \in Jobs /\ AIJob \in Jobs /\ MetricJobs \subseteq Jobs
    /\ \A j \in Jobs :
          /\ j # NoJob /\ j.kind \in {"collector", "ai", "provider", "script"}
          /\ j.kind = "collector" <=> j = CollectorJob
          /\ j.kind = "provider" <=> j \in ProviderJobs
          /\ j.kind = "script" <=> j \in ScriptJobs
    /\ \A j \in ProviderJobs : j.kind = "provider" /\ j.source \in 1 .. Providers
    /\ \A j \in ScriptJobs : j.kind = "script" /\ j.source \in 1 .. Scripts
    /\ \A j \in MetricJobs : j.cycle \in 0 .. Cycles - 1
    /\ NoJob.kind = "none"
<1>1. CollectorJob.kind = "collector" /\ AIJob.kind = "ai" /\ NoJob.kind = "none"
  BY DEF CollectorJob, AIJob, NoJob, Job
<1>2. \A j \in ProviderJobs : j.kind = "provider" /\ j.source \in 1 .. Providers
                              /\ j.cycle \in 0 .. Cycles - 1
  BY DEF ProviderJobs, Job
<1>3. \A j \in ScriptJobs : j.kind = "script" /\ j.source \in 1 .. Scripts
                            /\ j.cycle \in 0 .. Cycles - 1
  BY DEF ScriptJobs, Job
<1> QED
  BY <1>1, <1>2, <1>3 DEF Jobs, MetricJobs

LEMMA Taken ==
    ASSUME NEW S, NEW q \in Seq(S), q # <<>>
    PROVE  /\ Head(q) \in S /\ Tail(q) \in Seq(S) /\ Has(q, Head(q))
           /\ \A j : Has(q, j) <=> j = Head(q) \/ Has(Tail(q), j)
           /\ \A j : HasOnce(q, j) => HasOnce(Tail(q), j)
           /\ HasOnce(q, Head(q)) => ~Has(Tail(q), Head(q))
<1>1. /\ Head(q) \in S /\ Head(q) = q[1] /\ Tail(q) \in Seq(S)
      /\ Len(q) \in Nat /\ Len(q) >= 1 /\ Len(Tail(q)) = Len(q) - 1
      /\ \A i \in 1 .. Len(q) - 1 : Tail(q)[i] = q[i + 1]
  BY HeadTailProperties
<1>2. /\ 1 \in 1 .. Len(q)
      /\ \A i \in 1 .. Len(Tail(q)) : i \in Nat /\ i >= 1 /\ i + 1 \in 1 .. Len(q) /\ Tail(q)[i] = q[i + 1]
  BY <1>1
<1>3. \A k \in 1 .. Len(q) : k = 1 \/ (k - 1 \in 1 .. Len(Tail(q)) /\ q[k] = Tail(q)[k - 1])
  <2>1. ASSUME NEW k \in 1 .. Len(q), k # 1
        PROVE  k - 1 \in 1 .. Len(Tail(q)) /\ (k - 1) + 1 = k
    BY <1>1, <2>1
  <2> QED
    BY <1>2, <2>1
<1>4. ASSUME NEW j, Has(q, j), j # Head(q) PROVE Has(Tail(q), j)
  <2>1. PICK k \in 1 .. Len(q) : q[k] = j
    BY <1>4 DEF Has
  <2>2. k - 1 \in 1 .. Len(Tail(q)) /\ Tail(q)[k - 1] = j
    BY <1>1, <1>3, <1>4, <2>1
  <2> QED
    BY <2>2 DEF Has
<1>5. ASSUME NEW j, Has(Tail(q), j) PROVE Has(q, j)
  <2>1. PICK i \in 1 .. Len(Tail(q)) : Tail(q)[i] = j
    BY <1>5 DEF Has
  <2>2. i + 1 \in 1 .. Len(q) /\ q[i + 1] = j
    BY <1>2, <2>1
  <2> QED
    BY <2>2 DEF Has
<1>6. Has(q, Head(q))
  BY <1>1, <1>2 DEF Has
<1>7. ASSUME NEW j, HasOnce(q, j) PROVE HasOnce(Tail(q), j)
  <2>1. ASSUME NEW i \in 1 .. Len(Tail(q)), NEW k \in 1 .. Len(Tail(q)),
               Tail(q)[i] = j, Tail(q)[k] = j
        PROVE  i = k
    <3>1. i + 1 = k + 1
      BY <1>2, <1>7, <2>1 DEF HasOnce
    <3> QED
      BY <3>1
  <2> QED
    BY <2>1 DEF HasOnce
<1>8. ASSUME HasOnce(q, Head(q)), Has(Tail(q), Head(q)) PROVE FALSE
  <2>1. PICK i \in 1 .. Len(Tail(q)) : Tail(q)[i] = Head(q)
    BY <1>8 DEF Has
  <2>2. i + 1 = 1
    BY <1>1, <1>2, <1>8, <2>1 DEF HasOnce
  <2> QED
    BY <1>2, <2>2
<1> QED
  BY <1>1, <1>4, <1>5, <1>6, <1>7, <1>8

LEMMA Appended ==
    ASSUME NEW S, NEW q \in Seq(S), NEW t \in S
    PROVE  /\ Append(q, t) \in Seq(S)
           /\ \A j : Has(Append(q, t), j) <=> Has(q, j) \/ j = t
           /\ \A j : HasOnce(q, j) /\ (j = t => ~Has(q, j)) => HasOnce(Append(q, t), j)
<1> DEFINE n == Len(q)
           a == Append(q, t)
<1>1. /\ a \in Seq(S) /\ n \in Nat /\ Len(a) = n + 1
      /\ \A i \in 1 .. n : a[i] = q[i]
      /\ a[n + 1] = t
  BY AppendProperties
<1>2. /\ \A i \in 1 .. Len(a) : i \in 1 .. n \/ i = n + 1
      /\ n + 1 \in 1 .. Len(a) /\ \A i \in 1 .. n : i \in 1 .. Len(a)
  BY <1>1
<1> HIDE DEF n, a
<1>3. ASSUME NEW j PROVE Has(a, j) <=> Has(q, j) \/ j = t
  BY <1>1, <1>2 DEF Has, n
<1>4. ASSUME NEW j, HasOnce(q, j), j = t => ~Has(q, j) PROVE HasOnce(a, j)
  BY <1>1, <1>2, <1>4 DEF Has, HasOnce, n
<1> QED
  BY <1>1, <1>3, <1>4 DEF a

LEMMA AcceptEffect ==
    ASSUME TypeInv, NEW t \in Jobs, NEW w \in Workers, Pool!Accept(t, w)
    PROVE  /\ queue' \in [Workers -> Seq(Jobs)] /\ begun' = begun
           /\ \A v \in Workers, j \in Jobs :
                 InQueue(j, v)' <=> InQueue(j, v) \/ (v = w /\ j = t)
           /\ \A j \in Jobs : Sent(j)' <=> Sent(j) \/ j = t
           /\ \A v \in Workers, j \in Jobs : HasOnce(queue[v], j) => HasOnce(queue'[v], j)
<1>1. /\ queue \in [Workers -> Seq(Jobs)] /\ queue' = [queue EXCEPT ![w] = Append(@, t)]
      /\ begun' = begun /\ ~Has(queue[w], t)
  BY DEF TypeInv, TypeOK, Pool!Accept, Pool!Workers, Workers, Has
<1>2. queue[w] \in Seq(Jobs) /\ queue'[w] = Append(queue[w], t)
      /\ \A v \in Workers : v # w => queue'[v] = queue[v]
  BY <1>1
<1>3. queue' \in [Workers -> Seq(Jobs)]
  BY <1>1, <1>2, Appended
<1>4. ASSUME NEW v \in Workers, NEW j \in Jobs
      PROVE  /\ Has(queue'[v], j) <=> Has(queue[v], j) \/ (v = w /\ j = t)
             /\ HasOnce(queue[v], j) => HasOnce(queue'[v], j)
  <2>1. CASE v = w
    BY <1>1, <1>2, <2>1, Appended
  <2>2. CASE v # w
    BY <1>2, <2>2
  <2> QED
    BY <2>1, <2>2
<1>5. \A j \in Jobs : Sent(j)' <=> Sent(j) \/ j = t
  BY <1>1, <1>4 DEF Sent, Has
<1> QED
  BY <1>1, <1>3, <1>4, <1>5 DEF InQueue

LEMMA BeginEffect ==
    ASSUME TypeInv, NEW w \in Workers, Pool!Begin(w)
    PROVE  /\ queue' \in [Workers -> Seq(Jobs)] /\ begun' \in [Workers -> Seq(Jobs)]
           /\ Head(queue[w]) \in Jobs /\ InQueue(Head(queue[w]), w)
           /\ \A v \in Workers, j \in Jobs : InQueue(j, v)' => InQueue(j, v)
           /\ \A j \in Jobs : Sent(j)' <=> Sent(j)
           /\ \A v \in Workers, j \in Jobs : HasOnce(queue[v], j) => HasOnce(queue'[v], j)
           /\ HasOnce(queue[w], Head(queue[w])) => ~Has(queue'[w], Head(queue[w]))
<1>1. /\ queue \in [Workers -> Seq(Jobs)] /\ begun \in [Workers -> Seq(Jobs)]
      /\ queue[w] # <<>>
      /\ queue' = [queue EXCEPT ![w] = Tail(@)]
      /\ begun' = [begun EXCEPT ![w] = Append(@, Head(queue[w]))]
  BY DEF TypeInv, TypeOK, Pool!Begin
<1>2. /\ queue[w] \in Seq(Jobs) /\ begun[w] \in Seq(Jobs)
      /\ queue'[w] = Tail(queue[w]) /\ begun'[w] = Append(begun[w], Head(queue[w]))
      /\ \A v \in Workers : v # w => queue'[v] = queue[v] /\ begun'[v] = begun[v]
  BY <1>1
<1>3. Head(queue[w]) \in Jobs /\ Tail(queue[w]) \in Seq(Jobs)
      /\ Append(begun[w], Head(queue[w])) \in Seq(Jobs)
  BY <1>1, <1>2, Taken, Appended
<1>4. queue' \in [Workers -> Seq(Jobs)] /\ begun' \in [Workers -> Seq(Jobs)]
  BY <1>1, <1>3
<1>5. ASSUME NEW v \in Workers, NEW j \in Jobs
      PROVE  /\ Has(queue[v], j) <=> Has(queue'[v], j) \/ (v = w /\ j = Head(queue[w]))
             /\ Has(begun'[v], j) <=> Has(begun[v], j) \/ (v = w /\ j = Head(queue[w]))
             /\ HasOnce(queue[v], j) => HasOnce(queue'[v], j)
  <2>1. CASE v = w
    <3>1. Has(queue[w], j) <=> Has(queue'[w], j) \/ j = Head(queue[w])
      BY <1>1, <1>2, Taken
    <3>2. HasOnce(queue[w], j) => HasOnce(queue'[w], j)
      BY <1>1, <1>2, Taken
    <3>3. Has(begun'[w], j) <=> Has(begun[w], j) \/ j = Head(queue[w])
      BY <1>2, <1>3, Appended
    <3> QED
      BY <2>1, <3>1, <3>2, <3>3
  <2>2. CASE v # w
    BY <1>2, <2>2
  <2> QED
    BY <2>1, <2>2
<1>6. Has(queue[w], Head(queue[w]))
      /\ (HasOnce(queue[w], Head(queue[w])) => ~Has(queue'[w], Head(queue[w])))
  BY <1>1, <1>2, Taken
<1>7. \A j \in Jobs : Sent(j) <=> \E v \in Workers : Has(queue[v], j) \/ Has(begun[v], j)
  BY DEF Sent, Has
<1>8. \A j \in Jobs : Sent(j)' <=> \E v \in Workers : Has(queue'[v], j) \/ Has(begun'[v], j)
  BY DEF Sent, Has
<1>9. \A j \in Jobs : Sent(j)' <=> Sent(j)
  BY <1>5, <1>7, <1>8
<1> QED
  BY <1>3, <1>4, <1>5, <1>6, <1>9 DEF InQueue

LEMMA LoopJobIs ==
    ASSUME counter \in 0 .. Cycles - 1, next \in 1 .. Providers + Scripts
    PROVE  LoopJob \in MetricJobs /\ LoopJob.cycle = counter /\ PlaceOf(LoopJob) = next
<1>1. CASE next <= Providers
  <2>1. LoopJob = Job("provider", next, counter) /\ next \in 1 .. Providers
    BY <1>1, SourcesAssumption DEF LoopJob
  <2> QED
    BY <2>1 DEF Job, PlaceOf, MetricJobs, ProviderJobs
<1>2. CASE ~(next <= Providers)
  <2>1. LoopJob = Job("script", next - Providers, counter) /\ next - Providers \in 1 .. Scripts
    BY <1>2, SourcesAssumption DEF LoopJob
  <2>2. LoopJob.kind = "script" /\ LoopJob.source = next - Providers /\ LoopJob.cycle = counter
    BY <2>1 DEF Job
  <2>3. PlaceOf(LoopJob) = next
    BY <2>2, SourcesAssumption DEF PlaceOf
  <2> QED
    BY <2>1, <2>2, <2>3 DEF MetricJobs, ScriptJobs
<1> QED
  BY <1>1, <1>2

\* The threads that are given work.
LEMMA Threads ==
    /\ METRICS_MANAGER_THREAD \in Workers /\ INTELLIGENCE_MANAGER_THREAD \in Workers
    /\ METRICS_MANAGER_THREAD # INTELLIGENCE_MANAGER_THREAD
    /\ RandomIndex \subseteq Workers \ {METRICS_MANAGER_THREAD}
  BY PoolAssumption DEF METRICS_MANAGER_THREAD, INTELLIGENCE_MANAGER_THREAD, Workers, RandomIndex

-----------------------------------------------------------------------------
(* Types.                                                                  *)
LEMMA TypeInit == Init => TypeInv
<1> SUFFICES ASSUME Init PROVE TypeInv
  OBVIOUS
<1>1. queue = [w \in Workers |-> <<>>] /\ begun = [w \in Workers |-> <<>>] /\ fresh = Jobs
  BY DEF Init, Pool!Init, Pool!Workers, Workers
<1>2. TypeOK
  <2>1. /\ fresh \subseteq Jobs /\ queue \in [Workers -> Seq(Jobs)]
        /\ rows \in Seq(Rows)
    BY <1>1 DEF Init
  <2>2. /\ job \in [Workers -> Jobs \cup {NoJob}] /\ stage \in [Workers -> Stages]
        /\ arg \in [Workers -> Nat]
    BY DEF Init, Stages
  <2>3. /\ isCollecting_ \in BOOLEAN /\ counter \in 0 .. Cycles
        /\ next \in 1 .. Providers + Scripts + 1
    <3>1. isCollecting_ = FALSE /\ counter = 0 /\ next = 1
      BY DEF Init
    <3>2. 0 \in 0 .. Cycles
      BY CounterAssumption
    <3>3. 1 \in 1 .. Providers + Scripts + 1
      BY SourcesAssumption
    <3> QED
      BY <3>1, <3>2, <3>3
  <2>4. Blank \in [counter : Nat, sample : [job : Jobs \cup {NoJob}, arg : Nat]]
    BY DEF Blank, NoSample
  <2>5. /\ latest \in [1 .. Providers -> [counter : Nat, sample : [job : Jobs \cup {NoJob}, arg : Nat]]]
        /\ ctxOwner \in [1 .. Scripts -> Workers \cup {Nobody}]
        /\ metricCounter \in [1 .. Scripts -> Nat]
    BY <2>4 DEF Init
  <2> QED
    BY <2>1, <2>2, <2>3, <2>5 DEF TypeOK
<1>3. JobStages /\ LoopBounds
  BY Threads DEF Init, JobStages, LoopBounds, CollectorStages, ProviderStages, ScriptStages,
         RecordStages, LockedStages
<1> QED
  BY <1>1, <1>2, <1>3 DEF TypeInv, InQueue, Has

LEMMA SubmitType ==
    ASSUME TypeInv, NEW t \in Jobs, Pool!Submit(t)
    PROVE  fresh' \subseteq Jobs /\ UNCHANGED <<queue, begun>>
  BY DEF TypeInv, TypeOK, Pool!Submit

\* The main thread.
LEMMA MainType == ASSUME TypeInv, MainStep PROVE TypeInv'
<1>1. ASSUME NEW t \in Jobs, Pool!Submit(t), UNCHANGED <<tasksRun, loop, shared, rows>>
      PROVE  TypeInv'
  BY <1>1, SubmitType DEF TypeInv, TypeOK, JobStages, LoopBounds, InQueue, tasksRun, loop, shared
<1>2. ASSUME NEW t \in {CollectorJob, AIJob}, NEW w \in Workers, Pool!Accept(t, w),
             t = CollectorJob => w = METRICS_MANAGER_THREAD,
             UNCHANGED <<tasksRun, loop, shared, rows>>
      PROVE  TypeInv'
  <2>1. t \in Jobs /\ CollectorJob \in Jobs
    BY JobFacts
  <2>2. /\ queue' \in [Workers -> Seq(Jobs)] /\ begun' = begun /\ fresh' = fresh
        /\ \A v \in Workers : InQueue(CollectorJob, v)' => v = METRICS_MANAGER_THREAD
    BY <1>2, <2>1, AcceptEffect DEF TypeInv, Pool!Accept
  <2> QED
    BY <1>2, <2>2 DEF TypeInv, TypeOK, JobStages, LoopBounds, tasksRun, loop, shared
<1>3. CASE AddCollector
  BY <1>1, <1>2, <1>3, JobFacts, Threads DEF AddCollector, Give, Place
<1>4. CASE AddAI
  <2>1. AIJob # CollectorJob
    BY DEF AIJob, CollectorJob, Job
  <2> QED
    BY <1>1, <1>2, <1>4, <2>1, JobFacts, Threads DEF AddAI, Give, Place
<1>5. CASE ServerEnds \/ StopMetricsCollection \/ StopScripts \/ StopPool
  BY <1>5 DEF ServerEnds, StopMetricsCollection, StopScripts, StopPool, Pool!Stop,
              TypeInv, TypeOK, JobStages, LoopBounds, InQueue, tasksRun, loop, shared, pool
<1> QED
  BY <1>3, <1>4, <1>5 DEF MainStep

\* A thread takes a task.
LEMMA BeginType == ASSUME TypeInv, NEW w \in Workers, Begin(w) PROVE TypeInv'
<1> DEFINE j == Head(queue[w])
<1>1. /\ j \in Jobs /\ InQueue(j, w) /\ queue' \in [Workers -> Seq(Jobs)]
      /\ begun' \in [Workers -> Seq(Jobs)] /\ fresh' = fresh
      /\ \A v \in Workers : InQueue(CollectorJob, v)' => InQueue(CollectorJob, v)
  BY BeginEffect, JobFacts DEF Begin, Pool!Begin
<1>2. /\ job' = [job EXCEPT ![w] = j] /\ stage' = [stage EXCEPT ![w] = FirstStage[j.kind]]
      /\ stage[w] = "idle" /\ UNCHANGED <<arg, loop, shared, rows>>
  BY DEF Begin
<1>3. /\ FirstStage[j.kind] \in {"setFlag", "predict", "load", "lock"}
      /\ FirstStage[j.kind] = "setFlag" => j = CollectorJob
      /\ FirstStage[j.kind] = "load" => j \in ProviderJobs
      /\ FirstStage[j.kind] = "lock" => j \in ScriptJobs
  BY <1>1, JobFacts DEF FirstStage
<1>4. FirstStage[j.kind] = "setFlag" => w = METRICS_MANAGER_THREAD
  BY <1>1, <1>3 DEF TypeInv
<1>5. TypeOK'
  BY <1>1, <1>2, <1>3 DEF TypeInv, TypeOK, Stages, loop, shared
<1>6. JobStages'
  BY <1>2, <1>3, <1>4 DEF TypeInv, TypeOK, JobStages, CollectorStages, ProviderStages,
                          ScriptStages, RecordStages, LockedStages
<1>7. LoopBounds'
  BY <1>2, <1>3, Threads DEF TypeInv, TypeOK, LoopBounds, loop
<1> QED
  BY <1>1, <1>5, <1>6, <1>7 DEF TypeInv

\* The statements of a task that only read the loop's variables.
LEMMA StageFacts ==
    /\ ProviderStages \subseteq Stages \ CollectorStages
    /\ ScriptStages \subseteq Stages \ CollectorStages
    /\ {"idle", "predict"} \subseteq Stages \ CollectorStages
    /\ ProviderStages \cap ScriptStages = {}
    /\ "idle" \notin ProviderStages \cup ScriptStages
    /\ RecordStages \subseteq ProviderStages /\ {"load", "make"} \subseteq ProviderStages
    /\ LockedStages \subseteq ScriptStages /\ "lock" \in ScriptStages
    /\ {"setCounter", "collect", "persist"} \subseteq RecordStages
    /\ {"testStop", "text", "setMetricCounter", "execute"} \subseteq LockedStages
  BY DEF Stages, CollectorStages, ProviderStages, ScriptStages, RecordStages, LockedStages

\* What a script persists changes nothing but the rows.
LEMMA PersistFrame ==
    ASSUME NEW w \in Workers, PersistInText(w) \/ PersistInExecute(w)
    PROVE  /\ stage[w] \in {"text", "execute"}
           /\ UNCHANGED <<pool, stage, job, arg, loop, latest, ctxOwner, metricCounter,
                          scriptsStop, main, overlapped>>
  BY DEF PersistInText, PersistInExecute, Persist, At, tasksRun, shared

\* A script's task is moved by its own thread, which touches nothing that is not a script's.
LEMMA ScriptFrame ==
    ASSUME TypeInv, NEW w \in Workers, ScriptStep(w)
    PROVE  /\ stage[w] \in ScriptStages
           /\ UNCHANGED <<pool, loop, latest, scriptsStop, main, overlapped>>
           /\ \E to \in ScriptStages \cup {"idle"} :
                 /\ stage' = [stage EXCEPT ![w] = to]
                 /\ job' = IF to = "idle" THEN [job EXCEPT ![w] = NoJob] ELSE job
           /\ \A v \in Workers : v # w => UNCHANGED <<stage[v], job[v], arg[v]>>
<1> DEFINE Goes(to) == /\ stage' = [stage EXCEPT ![w] = to]
                       /\ job' = IF to = "idle" THEN [job EXCEPT ![w] = NoJob] ELSE job
<1> USE DEF At, Goto, Return
<1>0. stage \in [Workers -> Stages] /\ job \in [Workers -> Jobs \cup {NoJob}]
      /\ arg \in [Workers -> Nat]
  BY DEF TypeInv, TypeOK
<1>1. CASE PersistInText(w) \/ PersistInExecute(w)
  <2>1. stage[w] \in ScriptStages /\ stage[w] # "idle"
    BY <1>1, PersistFrame, StageFacts
  <2>2. Goes(stage[w])
    BY <1>0, <1>1, <2>1, PersistFrame
  <2> QED
    BY <1>1, <2>1, <2>2, PersistFrame
<1>2. ASSUME stage[w] \in ScriptStages,
             UNCHANGED <<pool, loop, latest, scriptsStop, main, overlapped>>,
             \E to \in ScriptStages \cup {"idle"} : Goes(to),
             \A v \in Workers : v # w => UNCHANGED arg[v]
      PROVE  \A v \in Workers : v # w => UNCHANGED <<stage[v], job[v], arg[v]>>
  BY <1>0, <1>2
<1>3. CASE LockScript(w)
  BY <1>0, <1>2, <1>3, StageFacts DEF LockScript
<1>4. CASE SetupScript(w)
  BY <1>0, <1>2, <1>4, StageFacts DEF SetupScript
<1>5. CASE EndText(w)
  BY <1>0, <1>2, <1>5, StageFacts DEF EndText
<1>6. CASE SetMetricCounter(w)
  BY <1>0, <1>2, <1>6, StageFacts DEF SetMetricCounter
<1>7. CASE ExecuteScript(w)
  BY <1>0, <1>2, <1>7, StageFacts DEF ExecuteScript
<1> QED
  BY <1>1, <1>3, <1>4, <1>5, <1>6, <1>7 DEF ScriptStep

LEMMA LocalFrame ==
    ASSUME TypeInv, NEW w \in Workers, ProviderStep(w) \/ ScriptStep(w) \/ AIGivesUp(w)
    PROVE  /\ UNCHANGED <<pool, loop, main>>
           /\ stage[w] \in ProviderStages \cup ScriptStages \cup {"predict"}
           /\ \E to \in Stages \ CollectorStages :
                 /\ stage' = [stage EXCEPT ![w] = to]
                 /\ to \in ProviderStages => stage[w] \in ProviderStages
                 /\ to \in ScriptStages => stage[w] \in ScriptStages
                 /\ job' = IF to = "idle" THEN [job EXCEPT ![w] = NoJob] ELSE job
<1> DEFINE Goes(to) == /\ stage' = [stage EXCEPT ![w] = to]
                       /\ job' = IF to = "idle" THEN [job EXCEPT ![w] = NoJob] ELSE job
<1> USE DEF At, Goto, Return
<1>1. CASE ProviderStep(w)
  <2>1. stage[w] \in ProviderStages /\ \E to \in ProviderStages \cup {"idle"} : Goes(to)
    <3>1. CASE LoadCounter(w)
      BY <3>1, StageFacts DEF LoadCounter
    <3>2. CASE MakeRecord(w)
      BY <3>2, StageFacts DEF MakeRecord
    <3>3. CASE SetRecordCounter(w)
      BY <3>3, StageFacts DEF SetRecordCounter
    <3>4. CASE Collect(w)
      BY <3>4, StageFacts DEF Collect
    <3>5. CASE PersistRecord(w)
      BY <3>5, StageFacts DEF PersistRecord
    <3> QED
      BY <1>1, <3>1, <3>2, <3>3, <3>4, <3>5 DEF ProviderStep
  <2>2. UNCHANGED <<pool, loop, main>>
    BY <1>1 DEF ProviderStep, LoadCounter, MakeRecord, SetRecordCounter, Collect, PersistRecord
  <2> QED
    BY <2>1, <2>2, StageFacts
<1>2. CASE ScriptStep(w)
  <2>1. /\ stage[w] \in ScriptStages /\ UNCHANGED <<pool, loop, main>>
        /\ \E to \in ScriptStages \cup {"idle"} : Goes(to)
    BY <1>2, ScriptFrame
  <2> QED
    BY <2>1, StageFacts
<1>3. CASE AIGivesUp(w)
  <2>1. stage[w] = "predict" /\ Goes("idle") /\ UNCHANGED <<pool, loop, main>>
    BY <1>3 DEF AIGivesUp
  <2> QED
    BY <2>1, StageFacts
<1> QED
  BY <1>1, <1>2, <1>3

\* What a task of a provider or a script writes.
LEMMA LocalData ==
    ASSUME TypeInv, NEW w \in Workers, ProviderStep(w) \/ ScriptStep(w) \/ AIGivesUp(w)
    PROVE  /\ arg' \in [Workers -> Nat]
           /\ latest' \in [1 .. Providers -> [counter : Nat, sample : [job : Jobs \cup {NoJob}, arg : Nat]]]
           /\ ctxOwner' \in [1 .. Scripts -> Workers \cup {Nobody}]
           /\ metricCounter' \in [1 .. Scripts -> Nat]
           /\ rows' \in Seq(Rows)
<1> DEFINE Samples == [job : Jobs \cup {NoJob}, arg : Nat]
           Records == [counter : Nat, sample : Samples]
<1>1. /\ arg \in [Workers -> Nat] /\ latest \in [1 .. Providers -> Records]
      /\ ctxOwner \in [1 .. Scripts -> Workers \cup {Nobody}]
      /\ metricCounter \in [1 .. Scripts -> Nat] /\ rows \in Seq(Rows)
      /\ counter \in Nat /\ arg[w] \in Nat /\ job[w] \in Jobs \cup {NoJob}
  BY CounterAssumption DEF TypeInv, TypeOK
<1>2. ASSUME NEW r \in Rows, Insert(r) PROVE rows' \in Seq(Rows)
  <2>1. Append(rows, r) \in Seq(Rows)
    BY <1>1, Appended
  <2> QED
    BY <1>1, <1>2, <2>1 DEF Insert
<1>3. CASE ProviderStep(w)
  <2>1. stage[w] \in ProviderStages
    BY <1>3 DEF ProviderStep, LoadCounter, MakeRecord, SetRecordCounter, Collect, PersistRecord,
                At, ProviderStages
  <2>2. job[w] \in ProviderJobs /\ job[w] \in Jobs /\ Provider(w) \in 1 .. Providers
    BY <2>1, JobFacts DEF TypeInv, JobStages, Provider, MetricJobs
  <2>3. latest[Provider(w)] \in Records
    BY <1>1, <2>2
  <2>4. NoSample \in Samples /\ [job |-> job[w], arg |-> arg[w]] \in Samples /\ Blank \in Records
    BY <1>1 DEF NoSample, Blank
  <2>5. ASSUME NEW r \in Records, WriteRecord(w, r) PROVE latest' \in [1 .. Providers -> Records]
    BY <1>1, <2>2, <2>5 DEF WriteRecord
  <2>6. CASE LoadCounter(w)
    <3>1. counter % CounterRange \in Nat
      BY <1>1, CounterAssumption
    <3> QED
      BY <1>1, <2>6, <3>1 DEF LoadCounter, loop, shared
  <2>7. CASE MakeRecord(w)
    BY <1>1, <2>2, <2>4, <2>7 DEF MakeRecord
  <2>8. CASE SetRecordCounter(w)
    <3>1. [latest[Provider(w)] EXCEPT !.counter = arg[w]] \in Records
      BY <1>1, <2>3
    <3> QED
      BY <1>1, <2>5, <2>8, <3>1 DEF SetRecordCounter
  <2>9. CASE Collect(w)
    <3>1. [latest[Provider(w)] EXCEPT !.sample = [job |-> job[w], arg |-> arg[w]]] \in Records
      BY <1>1, <2>3, <2>4
    <3> QED
      BY <1>1, <2>5, <2>9, <3>1 DEF Collect
  <2>10. CASE PersistRecord(w)
    <3>1. [job |-> job[w], by |-> "record", arg |-> arg[w],
           counter |-> latest[Provider(w)].counter, sample |-> latest[Provider(w)].sample] \in Rows
      BY <1>1, <2>2, <2>3 DEF Rows
    <3> QED
      BY <1>1, <1>2, <2>10, <3>1 DEF PersistRecord, shared
  <2> QED
    BY <1>3, <2>6, <2>7, <2>8, <2>9, <2>10 DEF ProviderStep
<1>4. CASE ScriptStep(w)
  <2>1. job[w] \in Jobs /\ job[w].source \in 1 .. Scripts
    BY <1>4, ScriptFrame, JobFacts DEF TypeInv, JobStages, MetricJobs
  <2>2. CASE LockScript(w)
    BY <1>1, <2>1, <2>2 DEF LockScript
  <2>3. CASE SetupScript(w) \/ EndText(w) \/ ExecuteScript(w)
    BY <1>1, <2>1, <2>3 DEF SetupScript, EndText, ExecuteScript, Unlock
  <2>4. CASE SetMetricCounter(w)
    BY <1>1, <2>1, <2>4 DEF SetMetricCounter
  <2>5. ASSUME NEW by \in {"text", "execute"}, NEW a \in Nat, Persist(w, by, a)
        PROVE  rows' \in Seq(Rows)
    <3>1. [job |-> job[w], by |-> by, arg |-> a, counter |-> metricCounter[job[w].source],
           sample |-> [job |-> job[w], arg |-> a]] \in Rows
      BY <1>1, <2>1 DEF Rows
    <3> QED
      BY <1>1, <2>5, <3>1, Appended DEF Persist
  <2>6. CASE PersistInText(w) \/ PersistInExecute(w)
    BY <1>1, <2>5, <2>6, PersistFrame DEF PersistInText, PersistInExecute
  <2> QED
    BY <1>4, <2>2, <2>3, <2>4, <2>6 DEF ScriptStep
<1>5. CASE AIGivesUp(w)
  BY <1>1, <1>5 DEF AIGivesUp, shared
<1> QED
  BY <1>3, <1>4, <1>5

LEMMA LocalType ==
    ASSUME TypeInv, NEW w \in Workers, ProviderStep(w) \/ ScriptStep(w) \/ AIGivesUp(w)
    PROVE  TypeInv'
<1>1. PICK to \in Stages \ CollectorStages :
          /\ stage' = [stage EXCEPT ![w] = to]
          /\ to \in ProviderStages => stage[w] \in ProviderStages
          /\ to \in ScriptStages => stage[w] \in ScriptStages
          /\ job' = IF to = "idle" THEN [job EXCEPT ![w] = NoJob] ELSE job
  BY LocalFrame
<1>2. /\ UNCHANGED <<fresh, queue, begun, isCollecting_, counter, next>>
      /\ stage \in [Workers -> Stages] /\ job \in [Workers -> Jobs \cup {NoJob}]
  BY LocalFrame DEF pool, loop, TypeInv, TypeOK
<1>3. job' \in [Workers -> Jobs \cup {NoJob}] /\ stage' \in [Workers -> Stages]
  BY <1>1, <1>2
<1>4. TypeOK'
  BY <1>2, <1>3, LocalData DEF TypeInv, TypeOK
<1>5. JobStages'
  <2>1. stage'[w] = to /\ (to # "idle" => job'[w] = job[w])
        /\ \A v \in Workers : v # w => stage'[v] = stage[v] /\ job'[v] = job[v]
    BY <1>1, <1>2
  <2>2. to # "idle" \/ to \notin ProviderStages \cup ScriptStages
    BY StageFacts
  <2> QED
    BY <1>1, <2>1, <2>2 DEF TypeInv, JobStages
<1>6. LoopBounds'
  <2>1. {"submit", "place", "count"} \subseteq CollectorStages
    BY DEF CollectorStages
  <2>2. stage'[METRICS_MANAGER_THREAD] \in CollectorStages =>
            stage'[METRICS_MANAGER_THREAD] = stage[METRICS_MANAGER_THREAD]
    BY <1>1, <1>2, Threads
  <2> QED
    BY <1>2, <2>1, <2>2 DEF TypeInv, LoopBounds
<1> QED
  BY <1>2, <1>4, <1>5, <1>6 DEF TypeInv, InQueue

\* A statement of the loop runs on the metrics manager's thread.
LEMMA LoopOnItsThread ==
    ASSUME TypeInv, NEW w \in Workers, CollectorStep(w)
    PROVE  /\ w = METRICS_MANAGER_THREAD /\ stage[w] \in CollectorStages
           /\ UNCHANGED <<arg, shared, scriptsStop, main, rows, overlapped>>
  BY DEF CollectorStep, SetFlag, ResetCounter, TestFlag, SubmitNext, PlaceNext, Count, At,
         TypeInv, JobStages, CollectorStages

LEMMA LoopType == ASSUME TypeInv, NEW w \in Workers, CollectorStep(w) PROVE TypeInv'
<1> DEFINE M == METRICS_MANAGER_THREAD
<1>1. /\ w = M /\ stage[w] \in CollectorStages /\ UNCHANGED <<arg, shared, rows>>
      /\ stage \in [Workers -> Stages] /\ job \in [Workers -> Jobs \cup {NoJob}]
      /\ counter \in 0 .. Cycles /\ next \in 1 .. Providers + Scripts + 1
  BY LoopOnItsThread DEF TypeInv, TypeOK
<1>2. ASSUME NEW to \in CollectorStages \cup {"idle"}, stage' = [stage EXCEPT ![w] = to],
             UNCHANGED job \/ job' = [job EXCEPT ![w] = NoJob],
             to = "idle" => job' = [job EXCEPT ![w] = NoJob],
             UNCHANGED <<queue, begun>>
                 \/ /\ queue' \in [Workers -> Seq(Jobs)] /\ begun' = begun
                    /\ \A v \in Workers : InQueue(CollectorJob, v)' => v = M,
             fresh' \subseteq Jobs, isCollecting_' \in BOOLEAN,
             counter' \in 0 .. Cycles, next' \in 1 .. Providers + Scripts + 1,
             to \in {"submit", "place", "count"} => counter' < Cycles,
             to \in {"submit", "place"} => next' <= Providers + Scripts,
             to = "count" => next' = Providers + Scripts + 1
      PROVE  TypeInv'
  <2>1. CollectorStages \cup {"idle"} \subseteq Stages
        /\ (CollectorStages \cup {"idle"}) \cap (ProviderStages \cup ScriptStages) = {}
    BY DEF CollectorStages, Stages, ProviderStages, ScriptStages, RecordStages, LockedStages
  <2>2. queue' \in [Workers -> Seq(Jobs)] /\ begun' \in [Workers -> Seq(Jobs)]
        /\ \A v \in Workers : InQueue(CollectorJob, v)' => v = M
    BY <1>2 DEF TypeInv, TypeOK, InQueue
  <2>3. job' \in [Workers -> Jobs \cup {NoJob}] /\ stage' \in [Workers -> Stages]
    BY <1>1, <1>2, <2>1
  <2>4. TypeOK'
    BY <1>1, <1>2, <2>2, <2>3 DEF TypeInv, TypeOK, shared
  <2>5. JobStages'
    <3>1. stage'[w] = to /\ \A v \in Workers : v # w => stage'[v] = stage[v] /\ job'[v] = job[v]
      BY <1>1, <1>2
    <3> QED
      BY <1>1, <1>2, <2>1, <3>1 DEF TypeInv, JobStages
  <2>6. LoopBounds'
    <3>1. stage'[M] = to
      BY <1>1, <1>2
    <3> QED
      BY <1>2, <3>1 DEF LoopBounds
  <2> QED
    BY <2>2, <2>4, <2>5, <2>6 DEF TypeInv
<1>3. /\ fresh \subseteq Jobs /\ isCollecting_ \in BOOLEAN
      /\ 0 \in 0 .. Cycles /\ 1 \in 1 .. Providers + Scripts + 1
      /\ 1 <= Providers + Scripts
  BY CounterAssumption, SourcesAssumption DEF TypeInv, TypeOK
<1>4. {"setFlag", "resetCounter", "testFlag", "submit", "place", "count"} \subseteq CollectorStages
  BY DEF CollectorStages
<1>5. CASE SetFlag(w)
  BY <1>1, <1>2, <1>3, <1>4, <1>5 DEF SetFlag, Goto, pool
<1>6. CASE ResetCounter(w)
  BY <1>1, <1>2, <1>3, <1>4, <1>6 DEF ResetCounter, Goto, pool
<1>7. CASE TestFlag(w)
  BY <1>1, <1>2, <1>3, <1>4, <1>7 DEF TestFlag, Goto, Return, pool
<1>8. ASSUME stage[w] \in {"submit", "place"}
      PROVE  counter \in 0 .. Cycles - 1 /\ next \in 1 .. Providers + Scripts /\ LoopJob \in MetricJobs
             /\ LoopJob \in Jobs /\ LoopJob # CollectorJob
  <2>1. counter < Cycles /\ next <= Providers + Scripts
    BY <1>1, <1>8 DEF TypeInv, LoopBounds
  <2>2. counter \in 0 .. Cycles - 1 /\ next \in 1 .. Providers + Scripts
    BY <1>1, <2>1, CounterAssumption, SourcesAssumption
  <2>3. LoopJob \in MetricJobs
    BY <2>2, LoopJobIs
  <2>4. \A j \in MetricJobs : j \in Jobs /\ j.kind \in {"provider", "script"}
    BY JobFacts DEF MetricJobs
  <2>5. CollectorJob.kind = "collector"
    BY JobFacts
  <2> QED
    BY <2>2, <2>3, <2>4, <2>5
<1>9. CASE SubmitNext(w)
  <2>1. stage[w] = "submit"
    BY <1>9 DEF SubmitNext, At
  <2>2. fresh' \subseteq Jobs /\ UNCHANGED <<queue, begun>>
    BY <1>8, <1>9, <2>1, SubmitType DEF SubmitNext
  <2>3. counter < Cycles /\ next <= Providers + Scripts
    BY <1>1, <2>1 DEF TypeInv, LoopBounds
  <2> QED
    BY <1>1, <1>2, <1>3, <1>4, <1>9, <2>2, <2>3 DEF SubmitNext, Goto, loop
<1>10. CASE PlaceNext(w)
  <2>1. stage[w] = "place"
    BY <1>10 DEF PlaceNext, At
  <2>2. PICK v \in RandomIndex : Pool!Accept(LoopJob, v)
    BY <1>10 DEF PlaceNext
  <2>3. v \in Workers /\ v # M
    BY Threads
  <2>4. /\ queue' \in [Workers -> Seq(Jobs)] /\ begun' = begun /\ fresh' = fresh
        /\ \A u \in Workers : InQueue(CollectorJob, u)' => InQueue(CollectorJob, u)
    BY <1>8, <2>1, <2>2, <2>3, AcceptEffect, JobFacts DEF Pool!Accept
  <2>5. \A u \in Workers : InQueue(CollectorJob, u)' => u = M
    BY <2>4 DEF TypeInv
  <2>6. /\ next \in 1 .. Providers + Scripts /\ counter < Cycles
        /\ next + 1 \in 1 .. Providers + Scripts + 1
        /\ next < Providers + Scripts => next + 1 <= Providers + Scripts
        /\ ~(next < Providers + Scripts) => next + 1 = Providers + Scripts + 1
    BY <1>8, <2>1, SourcesAssumption, CounterAssumption
  <2>7. CASE next < Providers + Scripts
    BY <1>1, <1>2, <1>3, <1>4, <1>10, <2>4, <2>5, <2>6, <2>7 DEF PlaceNext, Goto
  <2>8. CASE ~(next < Providers + Scripts)
    BY <1>1, <1>2, <1>3, <1>4, <1>10, <2>4, <2>5, <2>6, <2>8 DEF PlaceNext, Goto
  <2> QED
    BY <2>7, <2>8
<1>11. CASE Count(w)
  <2>1. stage[w] = "count"
    BY <1>11 DEF Count, At
  <2>2. counter < Cycles
    BY <1>1, <2>1 DEF TypeInv, LoopBounds
  <2>3. counter + 1 \in 0 .. Cycles
    BY <1>1, <2>2, CounterAssumption
  <2> QED
    BY <1>1, <1>2, <1>3, <1>4, <1>11, <2>3 DEF Count, Goto, pool
<1> QED
  BY <1>5, <1>6, <1>7, <1>9, <1>10, <1>11 DEF CollectorStep

LEMMA TypeStutter == ASSUME TypeInv, UNCHANGED vars PROVE TypeInv'
  BY DEF TypeInv, TypeOK, JobStages, LoopBounds, InQueue, vars, pool, tasksRun, loop, shared

LEMMA TypeNext == ASSUME TypeInv, [Next]_vars PROVE TypeInv'
  BY MainType, BeginType, LoopType, LocalType, TypeStutter DEF Next, TaskStep

\* TypeOK: the variables have the types of the members they stand for, whatever the loop,
\* its tasks and the main thread do (MetricsManager.cpp:7-31, ScriptManager.cpp:11-26).
THEOREM CollectionTyped == Spec => []TypeOK
<1>1. TypeInv => TypeOK
  BY DEF TypeInv
<1>2. TypeInv /\ [Next]_vars => TypeInv'
  BY TypeNext
<1> QED
  BY <1>1, <1>2, TypeInit, PTL DEF Spec

-----------------------------------------------------------------------------
(* The loop.                                                               *)
LEMMA SameStage ==
    ASSUME TypeInv, NEW w \in Workers, ProviderStep(w) \/ ScriptStep(w) \/ AIGivesUp(w)
    PROVE  \/ stage'[METRICS_MANAGER_THREAD] = stage[METRICS_MANAGER_THREAD]
           \/ stage'[METRICS_MANAGER_THREAD] \notin CollectorStages
<1>1. PICK to \in Stages \ CollectorStages : stage' = [stage EXCEPT ![w] = to]
  BY LocalFrame
<1> QED
  BY <1>1, Threads DEF TypeInv, TypeOK

LEMMA CollectorInit == Init => CollectorInv
<1> SUFFICES ASSUME Init PROVE CollectorInv
  OBVIOUS
<1>1. queue = [w \in Workers |-> <<>>] /\ counter = 0 /\ stage = [w \in Workers |-> "idle"]
  BY DEF Init, Pool!Init, Pool!Workers, Workers
<1> QED
  BY <1>1, Threads DEF CollectorInv, InQueue, Has, HasOnce, CollectorStages

LEMMA CollectorNext == ASSUME TypeInv, CollectorInv, [Next]_vars PROVE CollectorInv'
<1> DEFINE M == METRICS_MANAGER_THREAD
<1> USE Threads
<1>1. CollectorJob \in Jobs /\ AIJob \in Jobs /\ AIJob # CollectorJob
  BY JobFacts DEF AIJob, CollectorJob, Job
<1>2. stage \in [Workers -> Stages] /\ queue \in [Workers -> Seq(Jobs)]
  BY DEF TypeInv, TypeOK
<1>3. CASE MainStep
  <2>1. ASSUME UNCHANGED <<queue, stage, counter>>,
               main' \in {"addCollector", "placeCollector"} => main \in {"addCollector", "placeCollector"}
        PROVE  CollectorInv'
    BY <2>1 DEF CollectorInv, InQueue
  <2>2. CASE main = "placeCollector" /\ main' = "addAI" /\ Pool!Accept(CollectorJob, M)
             /\ UNCHANGED <<stage, counter>>
    <3>1. HasOnce(queue'[M], CollectorJob)
      BY <1>1, <2>2, AcceptEffect DEF CollectorInv
    <3> QED
      BY <2>2, <3>1 DEF CollectorInv
  <2>3. CASE main = "placeAI" /\ main' = "server" /\ UNCHANGED <<stage, counter>>
             /\ \E w \in Workers : Pool!Accept(AIJob, w)
    <3>1. PICK w \in Workers : Pool!Accept(AIJob, w)
      BY <2>3
    <3>2. InQueue(CollectorJob, M)' => InQueue(CollectorJob, M)
      BY <1>1, <3>1, AcceptEffect
    <3>3. HasOnce(queue'[M], CollectorJob)
      BY <1>1, <3>1, AcceptEffect DEF CollectorInv
    <3> QED
      BY <2>3, <3>2, <3>3 DEF CollectorInv
  <2>4. CASE AddCollector
    BY <2>1, <2>2, <2>4 DEF AddCollector, Give, Place, Pool!Submit, tasksRun, loop
  <2>5. CASE AddAI
    BY <2>1, <2>3, <2>5 DEF AddAI, Give, Place, Pool!Submit, tasksRun, loop
  <2>6. CASE ServerEnds \/ StopMetricsCollection \/ StopScripts \/ StopPool
    BY <2>1, <2>6 DEF ServerEnds, StopMetricsCollection, StopScripts, StopPool, Pool!Stop,
                      tasksRun, loop, pool
  <2> QED
    BY <1>3, <2>4, <2>5, <2>6 DEF MainStep
<1>4. ASSUME NEW w \in Workers, Begin(w) PROVE CollectorInv'
  <2> DEFINE j == Head(queue[w])
  <2>1. /\ Pool!Begin(w) /\ UNCHANGED <<counter, main>> /\ stage[w] = "idle"
        /\ stage' = [stage EXCEPT ![w] = FirstStage[j.kind]]
    BY <1>4 DEF Begin, loop
  <2>2. /\ InQueue(CollectorJob, M)' => InQueue(CollectorJob, M)
        /\ HasOnce(queue'[M], CollectorJob) /\ j \in Jobs /\ InQueue(j, w)
        /\ HasOnce(queue[w], j) => ~Has(queue'[w], j)
    BY <1>1, <2>1, BeginEffect DEF CollectorInv
  <2>3. CASE w # M
    BY <1>2, <2>1, <2>2, <2>3 DEF CollectorInv
  <2>4. CASE w = M /\ j = CollectorJob
    <3>1. /\ ~InQueue(CollectorJob, M)' /\ InQueue(CollectorJob, M)
      BY <2>2, <2>4 DEF CollectorInv, InQueue
    <3>2. counter = 0 /\ main \notin {"addCollector", "placeCollector"}
      BY <3>1 DEF CollectorInv
    <3> QED
      BY <2>1, <2>2, <3>1, <3>2 DEF CollectorInv
  <2>5. CASE w = M /\ j # CollectorJob
    <3>1. FirstStage[j.kind] \notin CollectorStages
      BY <2>2, <2>5, JobFacts DEF FirstStage, CollectorStages
    <3>2. stage'[M] \notin CollectorStages /\ {"setFlag", "resetCounter"} \subseteq CollectorStages
      BY <1>2, <2>1, <2>5, <3>1 DEF CollectorStages
    <3> QED
      BY <2>1, <2>2, <3>2 DEF CollectorInv
  <2> QED
    BY <2>3, <2>4, <2>5
<1>5. ASSUME NEW w \in Workers, CollectorStep(w) PROVE CollectorInv'
  <2>1. w = M /\ stage[M] \in CollectorStages /\ UNCHANGED main
    BY <1>5, LoopOnItsThread
  <2>2. main \notin {"addCollector", "placeCollector"} /\ ~InQueue(CollectorJob, M)
    BY <2>1 DEF CollectorInv
  <2>3. ~InQueue(CollectorJob, M)' /\ HasOnce(queue'[M], CollectorJob)
    <3>1. CASE UNCHANGED queue
      BY <2>2, <3>1 DEF CollectorInv, InQueue
    <3>2. CASE PlaceNext(w)
      <4>1. PICK v \in RandomIndex : Pool!Accept(LoopJob, v)
        BY <3>2 DEF PlaceNext
      <4>2. v \in Workers /\ v # M /\ queue'[M] = queue[M]
        BY <1>2, <4>1 DEF Pool!Accept
      <4> QED
        BY <2>2, <4>2 DEF CollectorInv, InQueue
    <3> QED
      BY <1>5, <3>1, <3>2 DEF CollectorStep, SetFlag, ResetCounter, TestFlag, SubmitNext, Count,
                              Pool!Submit, pool
  <2>4. stage'[M] \in {"setFlag", "resetCounter"} => counter' = 0
    BY <1>2, <1>5, <2>1 DEF CollectorInv, CollectorStep, SetFlag, ResetCounter, TestFlag,
                            SubmitNext, PlaceNext, Count, Goto, Return, At, loop
  <2> QED
    BY <2>1, <2>2, <2>3, <2>4 DEF CollectorInv
<1>6. ASSUME NEW w \in Workers, ProviderStep(w) \/ ScriptStep(w) \/ AIGivesUp(w)
      PROVE  CollectorInv'
  <2>1. UNCHANGED <<queue, counter, main>>
    BY <1>6, LocalFrame DEF pool, loop
  <2>2. {"setFlag", "resetCounter"} \subseteq CollectorStages
    BY DEF CollectorStages
  <2> QED
    BY <1>6, <2>1, <2>2, SameStage DEF CollectorInv, InQueue
<1>7. CASE UNCHANGED vars
  BY <1>7 DEF CollectorInv, InQueue, vars, pool, tasksRun, loop
<1> QED
  BY <1>3, <1>4, <1>5, <1>6, <1>7 DEF Next, TaskStep

\* What was sent stays sent, and a task of the loop is sent by the loop only.
LEMMA PlaceFacts ==
    /\ \A j \in MetricJobs : j \in Jobs /\ PlaceOf(j) \in 1 .. Providers + Scripts
    /\ \A i, j \in MetricJobs : PlaceOf(i) = PlaceOf(j) /\ i.cycle = j.cycle => i = j
    /\ CollectorJob \notin MetricJobs /\ AIJob \notin MetricJobs
<1>1. ASSUME NEW j \in ProviderJobs
      PROVE  PlaceOf(j) = j.source /\ j.source \in 1 .. Providers
             /\ j = Job("provider", j.source, j.cycle)
  BY DEF ProviderJobs, Job, PlaceOf
<1>2. ASSUME NEW j \in ScriptJobs
      PROVE  PlaceOf(j) = Providers + j.source /\ j.source \in 1 .. Scripts
             /\ j = Job("script", j.source, j.cycle)
  BY DEF ScriptJobs, Job, PlaceOf
<1>3. \A j \in MetricJobs : j \in Jobs /\ PlaceOf(j) \in 1 .. Providers + Scripts
  BY <1>1, <1>2, JobFacts, SourcesAssumption DEF MetricJobs
<1>4. ASSUME NEW i \in MetricJobs, NEW j \in MetricJobs,
             PlaceOf(i) = PlaceOf(j), i.cycle = j.cycle
      PROVE  i = j
  <2>1. CASE i \in ProviderJobs /\ j \in ProviderJobs
    BY <1>1, <1>4, <2>1
  <2>2. CASE i \in ScriptJobs /\ j \in ScriptJobs
    <3>1. i.source = j.source
      BY <1>2, <1>4, <2>2, SourcesAssumption
    <3> QED
      BY <1>2, <1>4, <2>2, <3>1
  <2>3. CASE i \in ProviderJobs /\ j \in ScriptJobs
    BY <1>1, <1>2, <1>4, <2>3, SourcesAssumption
  <2>4. CASE i \in ScriptJobs /\ j \in ProviderJobs
    BY <1>1, <1>2, <1>4, <2>4, SourcesAssumption
  <2> QED
    BY <2>1, <2>2, <2>3, <2>4 DEF MetricJobs
<1>5. CollectorJob \notin MetricJobs /\ AIJob \notin MetricJobs
  <2>1. CollectorJob.kind = "collector" /\ AIJob.kind = "ai"
    BY DEF CollectorJob, AIJob, Job
  <2> QED
    BY <2>1, JobFacts DEF MetricJobs
<1> QED
  BY <1>3, <1>4, <1>5

LEMMA SentFrame ==
    ASSUME TypeInv, [Next]_vars
    PROVE  \A j \in MetricJobs :
              Sent(j)' <=> Sent(j) \/ (j = LoopJob /\ PlaceNext(METRICS_MANAGER_THREAD))
<1> USE Threads
<1>1. CASE UNCHANGED <<queue, begun>> /\ ~PlaceNext(METRICS_MANAGER_THREAD)
  BY <1>1 DEF Sent
<1>2. ASSUME NEW w \in Workers, PlaceNext(w)
      PROVE  \A j \in MetricJobs :
                Sent(j)' <=> Sent(j) \/ (j = LoopJob /\ PlaceNext(METRICS_MANAGER_THREAD))
  <2>1. PICK v \in RandomIndex : Pool!Accept(LoopJob, v)
    BY <1>2 DEF PlaceNext
  <2>2. w = METRICS_MANAGER_THREAD /\ stage[w] = "place"
    BY <1>2, LoopOnItsThread DEF CollectorStep, PlaceNext, At
  <2>3. counter \in 0 .. Cycles - 1 /\ next \in 1 .. Providers + Scripts
    BY <2>2, CounterAssumption, SourcesAssumption DEF TypeInv, TypeOK, LoopBounds
  <2>4. LoopJob \in Jobs
    BY <2>3, LoopJobIs, PlaceFacts
  <2> QED
    BY <1>2, <2>1, <2>2, <2>4, AcceptEffect, PlaceFacts
<1>3. ASSUME NEW t \in {CollectorJob, AIJob}, NEW w \in Workers, Pool!Accept(t, w),
             UNCHANGED next
      PROVE  \A j \in MetricJobs :
                Sent(j)' <=> Sent(j) \/ (j = LoopJob /\ PlaceNext(METRICS_MANAGER_THREAD))
  <2>1. t \in Jobs /\ t \notin MetricJobs
    BY JobFacts, PlaceFacts
  <2>2. ~PlaceNext(METRICS_MANAGER_THREAD)
    BY <1>3, SourcesAssumption DEF PlaceNext, TypeInv, TypeOK
  <2> QED
    BY <1>3, <2>1, <2>2, AcceptEffect, PlaceFacts
<1>4. ASSUME NEW w \in Workers, Begin(w)
      PROVE  \A j \in MetricJobs :
                Sent(j)' <=> Sent(j) \/ (j = LoopJob /\ PlaceNext(METRICS_MANAGER_THREAD))
  <2>1. ~PlaceNext(METRICS_MANAGER_THREAD) /\ Pool!Begin(w)
    BY <1>4, SourcesAssumption DEF Begin, loop, PlaceNext, TypeInv, TypeOK
  <2> QED
    BY <2>1, BeginEffect, PlaceFacts
<1>5. CASE \E w \in Workers : ProviderStep(w) \/ ScriptStep(w) \/ AIGivesUp(w)
  <2>1. UNCHANGED <<pool, loop>>
    BY <1>5, LocalFrame
  <2>2. ~PlaceNext(METRICS_MANAGER_THREAD)
    BY <2>1, SourcesAssumption DEF loop, PlaceNext, TypeInv, TypeOK
  <2> QED
    BY <1>1, <2>1, <2>2 DEF pool
<1>6. CASE \E w \in Workers : CollectorStep(w) /\ ~PlaceNext(w)
  <2>1. UNCHANGED <<queue, begun>>
    BY <1>6 DEF CollectorStep, SetFlag, ResetCounter, TestFlag, SubmitNext, Count, Pool!Submit, pool
  <2> QED
    BY <1>1, <1>6, <2>1, LoopOnItsThread
<1>7. CASE MainStep
  <2>1. UNCHANGED next /\ ~PlaceNext(METRICS_MANAGER_THREAD)
    BY <1>7, SourcesAssumption
       DEF MainStep, AddCollector, AddAI, Give, Place, ServerEnds, StopMetricsCollection,
           StopScripts, StopPool, loop, PlaceNext, TypeInv, TypeOK
  <2> QED
    BY <1>1, <1>3, <1>7, <2>1
       DEF MainStep, AddCollector, AddAI, Give, Place, ServerEnds, StopMetricsCollection,
           StopScripts, StopPool, pool, Pool!Submit, Pool!Stop
<1>8. CASE UNCHANGED vars
  BY <1>1, <1>8, SourcesAssumption DEF vars, pool, loop, PlaceNext, TypeInv, TypeOK
<1> QED
  BY <1>2, <1>4, <1>5, <1>6, <1>7, <1>8 DEF Next, TaskStep

LEMMA LoopInit == Init => FullLoops /\ SentSoFar
<1> SUFFICES ASSUME Init PROVE FullLoops /\ SentSoFar
  OBVIOUS
<1>1. /\ queue = [w \in Workers |-> <<>>] /\ begun = [w \in Workers |-> <<>>] /\ counter = 0
      /\ stage = [w \in Workers |-> "idle"]
  BY DEF Init, Pool!Init, Pool!Workers, Workers
<1>2. \A j : ~Sent(j)
  BY <1>1 DEF Sent
<1>3. \A j \in ProviderJobs \cup ScriptJobs : ~(j.cycle < counter)
  BY <1>1, JobFacts, CounterAssumption DEF MetricJobs
<1> QED
  BY <1>1, <1>2, <1>3, Threads DEF FullLoops, SentSoFar

LEMMA LoopNext ==
    ASSUME TypeInv, CollectorInv, FullLoops, SentSoFar, [Next]_vars
    PROVE  (FullLoops /\ SentSoFar)'
<1> DEFINE M == METRICS_MANAGER_THREAD
           Sending == {"submit", "place", "count"}
<1> USE Threads
<1>1. /\ stage \in [Workers -> Stages] /\ counter \in Nat /\ next \in Nat
      /\ Sending \subseteq CollectorStages
      /\ \A j \in MetricJobs : /\ Sent(j)' <=> Sent(j) \/ (j = LoopJob /\ PlaceNext(M))
                               /\ j.cycle \in Nat /\ PlaceOf(j) \in Nat /\ PlaceOf(j) >= 1
  <2>1. \A j \in MetricJobs : j.cycle \in Nat /\ PlaceOf(j) \in Nat /\ PlaceOf(j) >= 1
    <3>1. \A j \in MetricJobs : j.cycle \in 0 .. Cycles - 1 /\ PlaceOf(j) \in 1 .. Providers + Scripts
      BY PlaceFacts, JobFacts
    <3> QED
      BY <3>1, CounterAssumption, SourcesAssumption
  <2>2. \A j \in MetricJobs : Sent(j)' <=> Sent(j) \/ (j = LoopJob /\ PlaceNext(M))
    BY SentFrame
  <2> QED
    BY <2>1, <2>2, CounterAssumption, SourcesAssumption DEF TypeInv, TypeOK, CollectorStages
\* Where the loop does not move.
<1>2. ASSUME UNCHANGED <<counter, next>>, ~PlaceNext(M),
             stage'[M] \in Sending => stage[M] \in Sending
      PROVE  (FullLoops /\ SentSoFar)'
  BY <1>1, <1>2 DEF FullLoops, SentSoFar, MetricJobs
<1>3. UNCHANGED next => ~PlaceNext(M)
  BY <1>1 DEF PlaceNext
<1>4. CASE MainStep \/ UNCHANGED vars
  BY <1>2, <1>3, <1>4
     DEF MainStep, AddCollector, AddAI, Give, Place, ServerEnds, StopMetricsCollection,
         StopScripts, StopPool, loop, tasksRun, vars
<1>5. ASSUME NEW w \in Workers, Begin(w) PROVE (FullLoops /\ SentSoFar)'
  <2>1. /\ UNCHANGED <<counter, next>> /\ Head(queue[w]) \in Jobs
        /\ stage' = [stage EXCEPT ![w] = FirstStage[Head(queue[w]).kind]]
    BY <1>5, BeginEffect DEF Begin, loop
  <2>2. FirstStage[Head(queue[w]).kind] \notin Sending
    BY <2>1, JobFacts DEF FirstStage
  <2> QED
    BY <1>1, <1>2, <1>3, <2>1, <2>2
<1>6. ASSUME NEW w \in Workers, ProviderStep(w) \/ ScriptStep(w) \/ AIGivesUp(w)
      PROVE  (FullLoops /\ SentSoFar)'
  BY <1>1, <1>2, <1>3, <1>6, LocalFrame, SameStage DEF loop
<1>7. ASSUME NEW w \in Workers, CollectorStep(w) PROVE (FullLoops /\ SentSoFar)'
  <2>1. w = M /\ stage[M] \in CollectorStages
    BY <1>7, LoopOnItsThread
  <2>2. CASE SetFlag(w)
    BY <1>1, <1>2, <1>3, <2>1, <2>2 DEF SetFlag, Goto
  <2>3. CASE ResetCounter(w)
    <3>1. counter = 0 /\ UNCHANGED <<counter, next>> /\ stage'[M] = "testFlag"
      BY <1>1, <2>1, <2>3 DEF ResetCounter, CollectorInv, At, Goto
    <3> QED
      BY <1>2, <1>3, <3>1
  <2>4. CASE TestFlag(w)
    <3>1. UNCHANGED <<counter, queue>> /\ next' = 1 /\ stage[M] = "testFlag"
      BY <2>1, <2>4 DEF TestFlag, At, pool
    <3>2. ~PlaceNext(M)
      BY <3>1 DEF PlaceNext, At
    <3>3. FullLoops'
      BY <1>1, <3>1, <3>2 DEF FullLoops, MetricJobs
    <3>4. \A j \in MetricJobs : ~(PlaceOf(j) < next')
      BY <1>1, <3>1
    <3>5. \A j \in MetricJobs : ~(PlaceOf(j) < next)'
      BY <3>4 DEF PlaceOf
    <3>6. SentSoFar'
      BY <3>5 DEF SentSoFar
    <3> QED
      BY <3>3, <3>6
  <2>5. CASE SubmitNext(w)
    BY <1>1, <1>2, <1>3, <2>1, <2>5 DEF SubmitNext, Goto, At, loop
  <2>6. CASE PlaceNext(w)
    <3>1. /\ stage[M] = "place" /\ UNCHANGED counter /\ next' = next + 1
          /\ stage[M] \in Sending
      BY <2>1, <2>6 DEF PlaceNext, At
    <3>2. counter \in 0 .. Cycles - 1 /\ next \in 1 .. Providers + Scripts
      BY <3>1, CounterAssumption, SourcesAssumption DEF TypeInv, TypeOK, LoopBounds
    <3>3. LoopJob \in MetricJobs /\ LoopJob.cycle = counter /\ PlaceOf(LoopJob) = next
      BY <3>2, LoopJobIs
    <3>4. \A j \in MetricJobs : Sent(j)' <=> Sent(j) \/ j = LoopJob
      BY <1>1, <2>1, <2>6
    <3>5. FullLoops'
      BY <1>1, <3>1, <3>3, <3>4 DEF FullLoops, MetricJobs
    <3>6. ASSUME NEW j \in MetricJobs, j.cycle = counter, PlaceOf(j) < next + 1 PROVE Sent(j)'
      <4>1. PlaceOf(j) < next \/ PlaceOf(j) = next
        BY <1>1, <3>6
      <4>2. CASE PlaceOf(j) < next
        BY <3>1, <3>4, <3>6, <4>2 DEF SentSoFar
      <4>3. CASE PlaceOf(j) = next
        BY <3>3, <3>4, <3>6, <4>3, PlaceFacts
      <4> QED
        BY <4>1, <4>2, <4>3
    <3>7. SentSoFar'
      BY <3>1, <3>6 DEF SentSoFar, PlaceOf
    <3> QED
      BY <3>5, <3>7
  <2>7. CASE Count(w)
    <3>1. /\ stage[M] = "count" /\ counter' = counter + 1 /\ stage'[M] = "testFlag"
          /\ stage[M] \in Sending /\ UNCHANGED <<next, queue, begun>>
      BY <1>1, <2>1, <2>7 DEF Count, Goto, At, pool
    <3>2. next = Providers + Scripts + 1
      BY <3>1 DEF TypeInv, LoopBounds
    <3>3. ASSUME NEW j \in MetricJobs
          PROVE  /\ j.cycle < counter' => Sent(j)'
                 /\ j.cycle > counter' => ~Sent(j)'
      <4>1. Sent(j)' <=> Sent(j)
        BY <3>1 DEF Sent
      <4>2. CASE j.cycle < counter
        BY <1>1, <3>1, <3>3, <4>1, <4>2 DEF FullLoops, MetricJobs
      <4>3. CASE j.cycle = counter
        <5>1. PlaceOf(j) < next
          BY <3>2, PlaceFacts, SourcesAssumption
        <5> QED
          BY <1>1, <3>1, <4>1, <4>3, <5>1 DEF SentSoFar
      <4>4. CASE j.cycle > counter
        BY <1>1, <3>1, <4>1, <4>4 DEF FullLoops, MetricJobs
      <4> QED
        BY <1>1, <4>2, <4>3, <4>4
    <3>4. FullLoops'
      BY <3>3 DEF FullLoops, MetricJobs
    <3>5. SentSoFar'
      BY <3>1 DEF SentSoFar
    <3> QED
      BY <3>4, <3>5
  <2> QED
    BY <1>7, <2>2, <2>3, <2>4, <2>5, <2>6, <2>7 DEF CollectorStep
<1> QED
  BY <1>4, <1>5, <1>6, <1>7 DEF Next, TaskStep

\* FullLoops: when the counter has passed a loop, every provider and every script has had a
\* task of it, also when the collection was stopped half-way through, and no task of a loop
\* is sent before its time (MetricsManager.cpp:14-31).
THEOREM LoopsComplete == Spec => []FullLoops
<1>1. Init => TypeInv /\ CollectorInv /\ FullLoops /\ SentSoFar
  BY TypeInit, CollectorInit, LoopInit
<1>2. TypeInv /\ CollectorInv /\ FullLoops /\ SentSoFar /\ [Next]_vars =>
          (TypeInv /\ CollectorInv /\ FullLoops /\ SentSoFar)'
  BY TypeNext, CollectorNext, LoopNext
<1> QED
  BY <1>1, <1>2, PTL DEF Spec

-----------------------------------------------------------------------------
(* The counters of the rows.                                               *)
LEMMA ModSmall ==
    ASSUME NEW n \in Nat, NEW m \in Nat, n < m
    PROVE  n % m = n
  OBVIOUS

LEMMA CounterGrows ==
    ASSUME TypeInv, CollectorInv, [Next]_vars
    PROVE  /\ counter \in Nat /\ counter' \in Nat /\ counter <= counter'
<1>1. counter \in Nat /\ counter' \in Nat
  BY TypeNext, CounterAssumption DEF TypeInv, TypeOK
<1>2. UNCHANGED counter => counter <= counter'
  BY <1>1
<1>3. CASE MainStep \/ UNCHANGED vars
  BY <1>1, <1>2, <1>3
     DEF MainStep, AddCollector, AddAI, Give, Place, ServerEnds, StopMetricsCollection,
         StopScripts, StopPool, loop, vars
<1>4. CASE \E w \in Workers : Begin(w)
  BY <1>1, <1>2, <1>4 DEF Begin, loop
<1>5. CASE \E w \in Workers : ProviderStep(w) \/ ScriptStep(w) \/ AIGivesUp(w)
  BY <1>1, <1>2, <1>5, LocalFrame DEF loop
<1>6. ASSUME NEW w \in Workers, CollectorStep(w) PROVE counter <= counter'
  <2>1. w = METRICS_MANAGER_THREAD
    BY <1>6, LoopOnItsThread
  <2>2. CASE ResetCounter(w)
    BY <1>2, <2>1, <2>2 DEF ResetCounter, At, CollectorInv
  <2>3. CASE Count(w)
    BY <1>1, <2>3 DEF Count
  <2>4. CASE SetFlag(w) \/ TestFlag(w) \/ SubmitNext(w) \/ PlaceNext(w)
    BY <1>2, <2>4 DEF SetFlag, TestFlag, SubmitNext, PlaceNext, loop
  <2> QED
    BY <1>6, <2>2, <2>3, <2>4 DEF CollectorStep
<1> QED
  BY <1>1, <1>3, <1>4, <1>5, <1>6 DEF Next, TaskStep

\* What the row of a task on thread w says.
RowOf(w, r) ==
    /\ r.job = job[w]
    /\ \/ /\ PersistRecord(w) /\ stage[w] = "persist"
          /\ r.by = "record" /\ r.arg = arg[w]
          /\ r.counter = latest[Provider(w)].counter /\ r.sample = latest[Provider(w)].sample
       \/ /\ PersistInText(w) /\ stage[w] = "text"
          /\ r.by = "text" /\ r.arg = counter
          /\ r.counter = metricCounter[job[w].source]
       \/ /\ PersistInExecute(w) /\ stage[w] = "execute"
          /\ r.by = "execute" /\ r.arg = arg[w]
          /\ r.counter = metricCounter[job[w].source]
          /\ r.sample = [job |-> job[w], arg |-> arg[w]]

Extended(w) == \E r \in Rows : rows' = Append(rows, r) /\ RowOf(w, r)

LEMMA RowsGrow ==
    ASSUME TypeInv, [Next]_vars
    PROVE  \/ UNCHANGED rows
           \/ \E w \in Workers : Extended(w)
<1>1. CASE MainStep \/ UNCHANGED vars
  BY <1>1 DEF MainStep, AddCollector, AddAI, Give, Place, ServerEnds, StopMetricsCollection,
              StopScripts, StopPool, vars
<1>2. CASE \E w \in Workers : Begin(w) \/ CollectorStep(w) \/ AIGivesUp(w)
  BY <1>2, LoopOnItsThread DEF Begin, AIGivesUp
<1>3. ASSUME NEW w \in Workers, ProviderStep(w) PROVE UNCHANGED rows \/ Extended(w)
  <2>1. CASE PersistRecord(w)
    <3>1. stage[w] = "persist" /\ stage[w] \in ProviderStages
      BY <2>1 DEF PersistRecord, At, ProviderStages
    <3>2. job[w] \in Jobs /\ Provider(w) \in 1 .. Providers /\ arg[w] \in Nat
      BY <3>1, JobFacts DEF TypeInv, TypeOK, JobStages, Provider, MetricJobs
    <3>3. latest[Provider(w)] \in [counter : Nat, sample : [job : Jobs \cup {NoJob}, arg : Nat]]
      BY <3>2 DEF TypeInv, TypeOK
    <3> DEFINE r == [job |-> job[w], by |-> "record", arg |-> arg[w],
                     counter |-> latest[Provider(w)].counter,
                     sample |-> latest[Provider(w)].sample]
    <3>4. r \in Rows /\ RowOf(w, r)
      BY <2>1, <3>1, <3>2, <3>3 DEF Rows, RowOf
    <3>5. rows' = Append(rows, r) \/ UNCHANGED rows
      BY <2>1 DEF PersistRecord, Insert
    <3> QED
      BY <3>4, <3>5 DEF Extended
  <2>2. CASE ~PersistRecord(w)
    BY <1>3, <2>2 DEF ProviderStep, LoadCounter, MakeRecord, SetRecordCounter, Collect
  <2> QED
    BY <2>1, <2>2
<1>4. ASSUME NEW w \in Workers, ScriptStep(w) PROVE UNCHANGED rows \/ Extended(w)
  <2>1. /\ job[w] \in Jobs /\ metricCounter[job[w].source] \in Nat
        /\ arg[w] \in Nat /\ counter \in Nat
    BY <1>4, ScriptFrame, JobFacts, CounterAssumption DEF TypeInv, TypeOK, JobStages, MetricJobs
  <2> DEFINE Row(by, a) == [job |-> job[w], by |-> by, arg |-> a,
                            counter |-> metricCounter[job[w].source],
                            sample |-> [job |-> job[w], arg |-> a]]
  <2>2. CASE PersistInText(w)
    <3>1. Row("text", counter) \in Rows
      BY <2>1 DEF Rows
    <3>2. RowOf(w, Row("text", counter)) /\ rows' = Append(rows, Row("text", counter))
      BY <2>2 DEF PersistInText, Persist, At, RowOf
    <3> QED
      BY <3>1, <3>2 DEF Extended
  <2>3. CASE PersistInExecute(w)
    <3>1. Row("execute", arg[w]) \in Rows
      BY <2>1 DEF Rows
    <3>2. RowOf(w, Row("execute", arg[w])) /\ rows' = Append(rows, Row("execute", arg[w]))
      BY <2>3 DEF PersistInExecute, Persist, At, RowOf
    <3> QED
      BY <3>1, <3>2 DEF Extended
  <2>4. CASE ~PersistInText(w) /\ ~PersistInExecute(w)
    BY <1>4, <2>4 DEF ScriptStep, LockScript, SetupScript, EndText, SetMetricCounter, ExecuteScript
  <2> QED
    BY <2>2, <2>3, <2>4
<1> QED
  BY <1>1, <1>2, <1>3, <1>4 DEF Next, TaskStep

LEMMA NewRow ==
    ASSUME TypeInv, NEW r \in Rows, rows' = Append(rows, r)
    PROVE  \A i \in 1 .. Len(rows)' : (i \in 1 .. Len(rows) /\ rows'[i] = rows[i]) \/ rows'[i] = r
<1>1. rows \in Seq(Rows) /\ Len(rows) \in Nat
  BY DEF TypeInv, TypeOK
<1>2. /\ Len(rows') = Len(rows) + 1 /\ rows'[Len(rows) + 1] = r
      /\ \A i \in 1 .. Len(rows) : rows'[i] = rows[i]
  BY <1>1, AppendProperties
<1>3. \A i \in 1 .. Len(rows) + 1 : i \in 1 .. Len(rows) \/ i = Len(rows) + 1
  BY <1>1
<1> QED
  BY <1>2, <1>3

\* The threads a step leaves where they are.
LEMMA OthersStay ==
    ASSUME TypeInv, [Next]_vars, NEW v \in Workers
    PROVE  \/ UNCHANGED <<stage[v], job[v], arg[v]>>
           \/ Begin(v) \/ TaskStep(v) \/ AIGivesUp(v)
<1>1. CASE MainStep \/ UNCHANGED vars
  BY <1>1 DEF MainStep, AddCollector, AddAI, Give, Place, ServerEnds, StopMetricsCollection,
              StopScripts, StopPool, vars, tasksRun
<1>2. ASSUME NEW w \in Workers, w # v, Begin(w) \/ TaskStep(w) \/ AIGivesUp(w)
      PROVE  UNCHANGED <<stage[v], job[v], arg[v]>>
  <2>1. /\ stage \in [Workers -> Stages] /\ job \in [Workers -> Jobs \cup {NoJob}]
        /\ arg \in [Workers -> Nat]
    BY DEF TypeInv, TypeOK
  <2> USE DEF Goto, Return
  <2>2. CASE Begin(w) \/ AIGivesUp(w)
    BY <1>2, <2>1, <2>2 DEF Begin, AIGivesUp
  <2>3. CASE CollectorStep(w)
    <3>1. UNCHANGED arg
      BY <2>3, LoopOnItsThread
    <3> QED
      BY <1>2, <2>1, <2>3, <3>1
         DEF CollectorStep, SetFlag, ResetCounter, TestFlag, SubmitNext, PlaceNext, Count
  <2>4. CASE ProviderStep(w)
    BY <1>2, <2>1, <2>4
       DEF ProviderStep, LoadCounter, MakeRecord, SetRecordCounter, Collect, PersistRecord
  <2>5. CASE ScriptStep(w)
    BY <1>2, <2>5, ScriptFrame
  <2> QED
    BY <1>2, <2>2, <2>3, <2>4, <2>5 DEF TaskStep
<1> QED
  BY <1>1, <1>2 DEF Next

LEMMA InTimeInit == Init => InTime /\ NeverEarly
  BY DEF Init, InTime, NeverEarly, ProviderStages, ScriptStages, RecordStages, LockedStages

LEMMA InTimeNext ==
    ASSUME TypeInv, CollectorInv, FullLoops, InTime, [Next]_vars
    PROVE  InTime'
<1> DEFINE Timely(w) == /\ stage[w] \in ProviderStages \cup ScriptStages => job[w].cycle <= counter
                        /\ Cycles < CounterRange /\ stage[w] \in {"make", "execute"} \cup RecordStages =>
                              job[w].cycle <= arg[w] /\ arg[w] <= counter
<1> SUFFICES ASSUME NEW w \in Workers PROVE Timely(w)'
  BY DEF InTime
<1>1. /\ counter \in Nat /\ counter' \in Nat /\ counter <= counter' /\ counter <= Cycles
      /\ arg \in [Workers -> Nat] /\ stage \in [Workers -> Stages]
      /\ job \in [Workers -> Jobs \cup {NoJob}] /\ Timely(w)
  BY CounterGrows, CounterAssumption DEF TypeInv, TypeOK, InTime
<1>2. {"make", "execute"} \cup RecordStages \subseteq ProviderStages \cup ScriptStages
  BY StageFacts
<1>3. stage[w] \in ProviderStages \cup ScriptStages => job[w].cycle \in Nat
  BY JobFacts, CounterAssumption DEF TypeInv, JobStages, MetricJobs
<1>4. CASE UNCHANGED <<stage[w], job[w], arg[w]>>
  <2>1. arg[w] \in Nat
    BY <1>1
  <2> QED
    BY <1>1, <1>2, <1>3, <1>4, <2>1
<1>5. CASE stage'[w] \notin ProviderStages \cup ScriptStages
  BY <1>2, <1>5
<1>6. CASE Begin(w)
  <2> DEFINE j == Head(queue[w])
  <2>1. /\ stage'[w] = FirstStage[j.kind] /\ job'[w] = j /\ UNCHANGED counter
        /\ j \in Jobs /\ InQueue(j, w)
    BY <1>1, <1>6, BeginEffect DEF Begin, loop
  <2>2. stage'[w] \in {"setFlag", "predict", "load", "lock"}
        /\ (stage'[w] \in {"load", "lock"} => j \in MetricJobs)
    BY <2>1, JobFacts DEF FirstStage, MetricJobs
  <2>3. stage'[w] \notin {"make", "execute"} \cup RecordStages
    BY <2>2 DEF RecordStages
  <2>4. CASE stage'[w] \in {"load", "lock"}
    <3>1. j \in MetricJobs /\ Sent(j) /\ j.cycle \in Nat
      BY <2>1, <2>2, <2>4, JobFacts, CounterAssumption DEF InQueue, Has, Sent
    <3>2. ~(j.cycle > counter)
      BY <3>1 DEF FullLoops, MetricJobs
    <3>3. j.cycle <= counter'
      BY <1>1, <2>1, <3>1, <3>2
    <3> QED
      BY <2>1, <2>3, <3>3
  <2>5. CASE stage'[w] \notin {"load", "lock"}
    BY <1>5, <2>2, <2>5, StageFacts DEF ProviderStages, ScriptStages, RecordStages, LockedStages
  <2> QED
    BY <2>4, <2>5
<1>7. CASE CollectorStep(w) \/ AIGivesUp(w)
  <2>1. stage'[w] \in CollectorStages \cup {"idle"}
    BY <1>1, <1>7 DEF CollectorStep, SetFlag, ResetCounter, TestFlag, SubmitNext, PlaceNext, Count,
                      AIGivesUp, Goto, Return, CollectorStages
  <2> QED
    BY <1>5, <2>1, StageFacts
<1>8. ASSUME stage[w] \in ProviderStages \cup ScriptStages, UNCHANGED <<job[w], counter>>,
             (/\ stage'[w] \in {"make", "execute"} \cup RecordStages
              /\ stage[w] \notin {"make", "execute"} \cup RecordStages
              /\ Cycles < CounterRange) => arg'[w] = counter,
             stage[w] \in {"make", "execute"} \cup RecordStages => UNCHANGED arg[w]
      PROVE  Timely(w)'
  BY <1>1, <1>2, <1>3, <1>8
<1>9. CASE ProviderStep(w)
  <2>1. stage[w] \in ProviderStages /\ UNCHANGED counter
    <3>1. UNCHANGED counter
      BY <1>9, LocalFrame DEF loop
    <3>2. stage[w] \in {"load", "make"} \cup RecordStages
      BY <1>9 DEF ProviderStep, LoadCounter, MakeRecord, SetRecordCounter, Collect,
                  PersistRecord, At, RecordStages
    <3> QED
      BY <3>1, <3>2, StageFacts
  <2>2. CASE LoadCounter(w)
    <3>1. stage[w] = "load" /\ UNCHANGED job /\ arg'[w] = counter % CounterRange
      BY <1>1, <2>2 DEF LoadCounter, At, Goto
    <3>2. ASSUME Cycles < CounterRange PROVE arg'[w] = counter
      <4>1. CounterRange \in Nat /\ counter < CounterRange
        BY <1>1, <3>2, CounterAssumption
      <4>2. counter % CounterRange = counter
        BY <1>1, <4>1, ModSmall
      <4> QED
        BY <3>1, <4>2
    <3>3. "load" \notin {"make", "execute"} \cup RecordStages
      BY DEF RecordStages
    <3> QED
      BY <1>8, <2>1, <3>1, <3>2, <3>3
  <2>3. CASE MakeRecord(w) \/ SetRecordCounter(w) \/ Collect(w)
    <3>1. stage[w] \in {"make", "execute"} \cup RecordStages /\ UNCHANGED <<job, arg>>
      BY <2>3 DEF MakeRecord, SetRecordCounter, Collect, At, Goto, RecordStages
    <3> QED
      BY <1>8, <2>1, <3>1
  <2>4. CASE PersistRecord(w)
    BY <1>1, <1>5, <2>4, StageFacts DEF PersistRecord, Return
  <2> QED
    BY <1>9, <2>2, <2>3, <2>4 DEF ProviderStep
<1>10. CASE ScriptStep(w)
  <2>1. stage[w] \in ScriptStages /\ UNCHANGED counter
    BY <1>10, ScriptFrame DEF loop
  <2>2. CASE LockScript(w) \/ SetupScript(w) \/ EndText(w)
    <3>1. \/ stage'[w] = "idle"
          \/ UNCHANGED job /\ stage'[w] \in {"testStop", "text", "setMetricCounter"}
      BY <1>1, <2>2 DEF LockScript, SetupScript, EndText, Goto, Return
    <3>2. /\ stage[w] \notin {"make", "execute"} \cup RecordStages
          /\ {"testStop", "text", "setMetricCounter"} \cap ({"make", "execute"} \cup RecordStages) = {}
      BY <2>2 DEF LockScript, SetupScript, EndText, At, RecordStages
    <3> QED
      BY <1>5, <1>8, <2>1, <3>1, <3>2, StageFacts
  <2>3. CASE SetMetricCounter(w)
    <3>1. stage[w] = "setMetricCounter" /\ UNCHANGED job /\ arg'[w] = counter
      BY <1>1, <2>3 DEF SetMetricCounter, At, Goto
    <3>2. "setMetricCounter" \notin {"make", "execute"} \cup RecordStages
      BY DEF RecordStages
    <3> QED
      BY <1>8, <2>1, <3>1, <3>2
  <2>4. CASE ExecuteScript(w)
    BY <1>1, <1>5, <2>4, StageFacts DEF ExecuteScript, Return
  <2>5. CASE PersistInText(w) \/ PersistInExecute(w)
    BY <1>4, <2>5, PersistFrame
  <2> QED
    BY <1>10, <2>2, <2>3, <2>4, <2>5 DEF ScriptStep
<1> QED
  BY <1>4, <1>6, <1>7, <1>9, <1>10, OthersStay DEF TaskStep

LEMMA BehindInit == Init => Behind
  BY DEF Init, Behind, Blank

LEMMA BehindNext ==
    ASSUME TypeInv, CollectorInv, InTime, Behind, [Next]_vars
    PROVE  Behind'
<1>1. /\ counter \in Nat /\ counter' \in Nat /\ counter <= counter'
      /\ metricCounter \in [1 .. Scripts -> Nat] /\ arg \in [Workers -> Nat]
      /\ latest \in [1 .. Providers -> [counter : Nat, sample : [job : Jobs \cup {NoJob}, arg : Nat]]]
  BY CounterGrows DEF TypeInv, TypeOK
<1>2. ASSUME UNCHANGED <<latest, metricCounter>> PROVE Behind'
  <2>1. ASSUME NEW s \in 1 .. Scripts PROVE metricCounter[s] <= counter'
    <3>1. metricCounter[s] \in Nat /\ metricCounter[s] <= counter
      BY <1>1 DEF Behind
    <3> QED
      BY <1>1, <3>1
  <2>2. ASSUME Cycles < CounterRange, NEW p \in 1 .. Providers PROVE latest[p].counter <= counter'
    <3>1. latest[p].counter \in Nat /\ latest[p].counter <= counter
      BY <1>1, <2>2 DEF Behind
    <3> QED
      BY <1>1, <3>1
  <2> QED
    BY <1>2, <2>1, <2>2 DEF Behind
<1>3. CASE MainStep \/ UNCHANGED vars
  BY <1>2, <1>3 DEF MainStep, AddCollector, AddAI, Give, Place, ServerEnds, StopMetricsCollection,
                    StopScripts, StopPool, vars, shared
<1>4. CASE \E w \in Workers : Begin(w) \/ CollectorStep(w) \/ AIGivesUp(w)
  BY <1>2, <1>4, LoopOnItsThread DEF Begin, AIGivesUp, shared
<1>5. ASSUME NEW w \in Workers, ScriptStep(w) PROVE Behind'
  <2>1. CASE SetMetricCounter(w)
    <3>1. UNCHANGED <<latest, counter>>
          /\ metricCounter' = [metricCounter EXCEPT ![job[w].source] = counter]
      BY <2>1 DEF SetMetricCounter, loop
    <3>2. \A s \in 1 .. Scripts : metricCounter'[s] = metricCounter[s] \/ metricCounter'[s] = counter
      BY <1>1, <3>1
    <3> QED
      BY <1>1, <3>1, <3>2 DEF Behind
  <2>2. CASE ~SetMetricCounter(w)
    BY <1>2, <1>5, <2>2, PersistFrame
       DEF ScriptStep, LockScript, SetupScript, EndText, ExecuteScript
  <2> QED
    BY <2>1, <2>2
<1>6. ASSUME NEW w \in Workers, ProviderStep(w) PROVE Behind'
  <2>1. UNCHANGED <<metricCounter, counter>> /\ stage[w] \in ProviderStages
    BY <1>6, LocalFrame, StageFacts
       DEF ProviderStep, LoadCounter, MakeRecord, SetRecordCounter, Collect, PersistRecord,
           shared, loop, At
  <2>2. PICK p \in 1 .. Providers : p = Provider(w)
    BY <2>1, JobFacts DEF TypeInv, JobStages, Provider
  <2>3. ASSUME \A q \in 1 .. Providers :
                  \/ latest'[q].counter = latest[q].counter
                  \/ Cycles < CounterRange => latest'[q].counter <= counter
        PROVE  Behind'
    <3>1. ASSUME Cycles < CounterRange, NEW q \in 1 .. Providers PROVE latest'[q].counter <= counter
      BY <2>3, <3>1 DEF Behind
    <3> QED
      BY <2>1, <3>1 DEF Behind
  <2>4. ASSUME NEW r, latest' = [latest EXCEPT ![p] = r], Cycles < CounterRange => r.counter <= counter
        PROVE  Behind'
    BY <1>1, <2>2, <2>3, <2>4
  <2>5. CASE UNCHANGED latest
    BY <1>2, <2>1, <2>5
  <2>6. CASE MakeRecord(w)
    <3>1. Blank.counter = 0 /\ latest' = [latest EXCEPT ![p] = Blank]
      BY <2>2, <2>6 DEF MakeRecord, Blank
    <3>2. Cycles < CounterRange => Blank.counter <= counter
      BY <1>1, <3>1
    <3> QED
      BY <2>4, <3>1, <3>2
  <2>7. CASE SetRecordCounter(w)
    <3>1. Cycles < CounterRange => arg[w] <= counter
      BY <2>7, StageFacts DEF SetRecordCounter, At, InTime
    <3>2. [latest[p] EXCEPT !.counter = arg[w]].counter = arg[w]
      BY <1>1
    <3> QED
      BY <2>2, <2>4, <2>5, <2>7, <3>1, <3>2 DEF SetRecordCounter, WriteRecord
  <2>8. CASE Collect(w)
    <3> DEFINE r == [latest[p] EXCEPT !.sample = [job |-> job[w], arg |-> arg[w]]]
    <3>1. r.counter = latest[p].counter
      BY <1>1
    <3>2. Cycles < CounterRange => r.counter <= counter
      BY <3>1 DEF Behind
    <3> QED
      BY <2>2, <2>4, <2>5, <2>8, <3>2 DEF Collect, WriteRecord
  <2>9. CASE LoadCounter(w) \/ PersistRecord(w)
    BY <2>5, <2>9 DEF LoadCounter, PersistRecord, shared
  <2> QED
    BY <1>6, <2>6, <2>7, <2>8, <2>9 DEF ProviderStep
<1> QED
  BY <1>3, <1>4, <1>5, <1>6 DEF Next, TaskStep

LEMMA EarlyNext ==
    ASSUME TypeInv, CollectorInv, InTime, Behind, NeverEarly, [Next]_vars
    PROVE  NeverEarly'
<1> DEFINE Timely(r, c) == r.job.cycle <= r.arg /\ r.arg <= c /\ r.counter <= c
<1> SUFFICES ASSUME Cycles < CounterRange, NEW i \in 1 .. Len(rows)'
             PROVE  Timely(rows'[i], counter')
  BY DEF NeverEarly
<1>1. /\ counter \in Nat /\ counter' \in Nat /\ counter <= counter'
      /\ rows \in Seq(Rows) /\ \A k \in 1 .. Len(rows) : rows[k] \in Rows
  BY CounterGrows DEF TypeInv, TypeOK
<1>2. ASSUME NEW r \in Rows, Timely(r, counter) PROVE Timely(r, counter')
  <2>1. r.arg \in Nat /\ r.counter \in Nat
    BY DEF Rows
  <2> QED
    BY <1>1, <1>2, <2>1
<1>3. CASE i \in 1 .. Len(rows) /\ rows'[i] = rows[i]
  BY <1>1, <1>2, <1>3 DEF NeverEarly
<1>4. ASSUME NEW w \in Workers, NEW r \in Rows, RowOf(w, r) PROVE Timely(r, counter)
  <2>1. CASE r.by = "record"
    <3>1. /\ stage[w] \in {"make", "execute"} \cup RecordStages /\ stage[w] \in ProviderStages
          /\ r.job = job[w] /\ r.arg = arg[w] /\ r.counter = latest[Provider(w)].counter
      BY <1>4, <2>1, StageFacts DEF RowOf
    <3>2. Provider(w) \in 1 .. Providers
      BY <3>1, JobFacts DEF TypeInv, JobStages, Provider
    <3> QED
      BY <3>1, <3>2 DEF InTime, Behind
  <2>2. CASE r.by = "text"
    <3>1. /\ stage[w] \in ScriptStages /\ r.job = job[w] /\ r.arg = counter
          /\ r.counter = metricCounter[job[w].source]
      BY <1>4, <2>2, StageFacts DEF RowOf
    <3>2. job[w].source \in 1 .. Scripts
      BY <3>1, JobFacts DEF TypeInv, JobStages
    <3> QED
      BY <1>1, <3>1, <3>2 DEF InTime, Behind
  <2>3. CASE r.by = "execute"
    <3>1. /\ stage[w] = "execute" /\ stage[w] \in ScriptStages /\ r.job = job[w] /\ r.arg = arg[w]
          /\ r.counter = metricCounter[job[w].source]
      BY <1>4, <2>3, StageFacts DEF RowOf
    <3>2. job[w].source \in 1 .. Scripts
      BY <3>1, JobFacts DEF TypeInv, JobStages
    <3> QED
      BY <3>1, <3>2 DEF InTime, Behind
  <2> QED
    BY <2>1, <2>2, <2>3 DEF Rows
<1>5. CASE UNCHANGED rows
  BY <1>3, <1>5
<1>6. CASE ~UNCHANGED rows
  <2>1. PICK w \in Workers, r \in Rows : rows' = Append(rows, r) /\ RowOf(w, r)
    BY <1>6, RowsGrow DEF Extended
  <2> QED
    BY <1>2, <1>3, <1>4, <2>1, NewRow
<1> QED
  BY <1>5, <1>6

\* NeverEarly: a row's task loads the number of the loop that sent it or of a later one the
\* loop has reached, never of an earlier one, and no row, a script's out of its text included,
\* shows a number the loop has not reached (MetricsManager.cpp:15-20, ScriptManager.cpp:11-26,
\* Script.h:145-158).
THEOREM CountersInTime == Spec => []NeverEarly
<1> DEFINE Early == /\ TypeInv /\ CollectorInv /\ FullLoops /\ SentSoFar
                    /\ InTime /\ Behind /\ NeverEarly
<1>1. Init => Early
  BY TypeInit, CollectorInit, LoopInit, InTimeInit, BehindInit
<1>2. Early /\ [Next]_vars => Early'
  BY TypeNext, CollectorNext, LoopNext, InTimeNext, BehindNext, EarlyNext
<1> QED
  BY <1>1, <1>2, PTL DEF Spec

-----------------------------------------------------------------------------
(* Whose record a row is of.                                               *)
LEMMA InRecordIs ==
    ASSUME TypeInv, NEW v \in Workers, NEW p
    PROVE  InRecord(v, p) <=> stage[v] \in RecordStages /\ job[v].source = p
  BY JobFacts, StageFacts DEF InRecord, RecordStages, TypeInv, JobStages

LEMMA RecordInit == Init => RecordInv
<1> SUFFICES ASSUME Init PROVE RecordInv
  OBVIOUS
<1>1. stage = [w \in Workers |-> "idle"] /\ overlapped = [p \in 1 .. Providers |-> FALSE]
  BY DEF Init
<1> QED
  BY <1>1, StageFacts DEF RecordInv, OwnRecord

\* A thread that stays, when no thread comes to its record and the record is not written.
LEMMA RecordKept ==
    ASSUME TypeInv, TypeInv', NEW v \in Workers, OwnRecord(v),
           UNCHANGED <<stage[v], job[v], arg[v]>>,
           stage[v] \in RecordStages /\ ~overlapped'[job[v].source] =>
               /\ ~overlapped[job[v].source] /\ UNCHANGED latest[job[v].source]
               /\ \A u \in Workers : u # v =>
                     stage'[u] \notin RecordStages \/ UNCHANGED <<stage[u], job[u]>>
    PROVE  OwnRecord(v)'
<1> SUFFICES ASSUME stage[v] \in RecordStages, ~overlapped'[job[v].source]
             PROVE  OwnRecord(v)'
  BY DEF OwnRecord
<1>1. ASSUME NEW u \in Workers, InRecord(u, job[v].source)' PROVE u = v
  <2>1. stage'[u] \in RecordStages /\ job'[u].source = job[v].source
    BY <1>1 DEF InRecord, RecordStages
  <2>2. u = v \/ InRecord(u, job[v].source)
    BY <2>1, InRecordIs
  <2> QED
    BY <2>2 DEF OwnRecord
<1> QED
  BY <1>1 DEF OwnRecord, InRecord

LEMMA RecordNext == ASSUME TypeInv, RecordInv, [Next]_vars PROVE RecordInv'
<1> USE TypeNext
<1>1. /\ stage \in [Workers -> Stages] /\ job \in [Workers -> Jobs \cup {NoJob}]
      /\ arg \in [Workers -> Nat] /\ overlapped \in [1 .. Providers -> BOOLEAN]
      /\ \A v \in Workers : OwnRecord(v)
  BY DEF TypeInv, TypeOK, RecordInv
<1>2. ASSUME UNCHANGED <<latest, overlapped>>,
             \A v \in Workers : stage'[v] \notin RecordStages \/ UNCHANGED <<stage[v], job[v], arg[v]>>
      PROVE  RecordInv'
  <2>1. ASSUME NEW v \in Workers PROVE OwnRecord(v)'
    <3>1. CASE stage'[v] \notin RecordStages
      BY <3>1 DEF OwnRecord
    <3>2. CASE UNCHANGED <<stage[v], job[v], arg[v]>>
      BY <1>1, <1>2, <3>2, RecordKept
    <3> QED
      BY <1>2, <3>1, <3>2
  <2> QED
    BY <1>1, <1>2, <2>1 DEF RecordInv
<1>3. CASE MainStep \/ UNCHANGED vars
  BY <1>2, <1>3 DEF MainStep, AddCollector, AddAI, Give, Place, ServerEnds, StopMetricsCollection,
                    StopScripts, StopPool, vars, tasksRun, shared
<1>4. ASSUME NEW w \in Workers, UNCHANGED <<latest, overlapped>>, stage'[w] \notin RecordStages,
             Begin(w) \/ TaskStep(w) \/ AIGivesUp(w)
      PROVE  RecordInv'
  <2>1. ASSUME NEW v \in Workers, v # w, ~ScriptStep(w) PROVE UNCHANGED <<stage[v], job[v]>>
    BY <1>1, <1>4, <2>1
       DEF Begin, TaskStep, AIGivesUp, CollectorStep, SetFlag, ResetCounter, TestFlag, SubmitNext,
           PlaceNext, Count, ProviderStep, LoadCounter, MakeRecord, SetRecordCounter, Collect,
           PersistRecord, Goto, Return
  <2>2. ASSUME NEW v \in Workers, v # w, ~ScriptStep(w) PROVE UNCHANGED arg[v]
    BY <1>1, <1>4, <2>2, LoopOnItsThread
       DEF Begin, TaskStep, AIGivesUp, ProviderStep, LoadCounter, MakeRecord, SetRecordCounter,
           Collect, PersistRecord
  <2> QED
    BY <1>2, <1>4, <2>1, <2>2, ScriptFrame
<1>5. ASSUME NEW w \in Workers, Begin(w) PROVE RecordInv'
  <2>1. Head(queue[w]) \in Jobs
    BY <1>5, BeginEffect DEF Begin
  <2>2. stage'[w] \in {"setFlag", "predict", "load", "lock"}
    BY <1>1, <1>5, <2>1, JobFacts DEF Begin, FirstStage
  <2> QED
    BY <1>4, <1>5, <2>2 DEF Begin, shared, RecordStages
<1>6. ASSUME NEW w \in Workers, CollectorStep(w) \/ ScriptStep(w) \/ AIGivesUp(w) PROVE RecordInv'
  <2>1. UNCHANGED <<latest, overlapped>>
    BY <1>6, LoopOnItsThread, ScriptFrame DEF AIGivesUp, shared
  <2>2. stage'[w] \notin RecordStages
    <3>1. CASE ScriptStep(w)
      BY <1>1, <3>1, ScriptFrame, StageFacts
    <3>2. CASE CollectorStep(w) \/ AIGivesUp(w)
      BY <1>1, <3>2 DEF CollectorStep, SetFlag, ResetCounter, TestFlag, SubmitNext, PlaceNext,
                        Count, AIGivesUp, Goto, Return, RecordStages
    <3> QED
      BY <1>6, <3>1, <3>2
  <2> QED
    BY <1>4, <1>6, <2>1, <2>2 DEF TaskStep
<1>7. ASSUME NEW w \in Workers, LoadCounter(w) \/ PersistRecord(w) PROVE RecordInv'
  <2>1. UNCHANGED <<latest, overlapped>> /\ stage'[w] \notin RecordStages
    BY <1>1, <1>7 DEF LoadCounter, PersistRecord, Goto, Return, shared, RecordStages
  <2> QED
    BY <1>4, <1>7, <2>1 DEF TaskStep, ProviderStep
<1>8. ASSUME NEW w \in Workers, MakeRecord(w) \/ SetRecordCounter(w) \/ Collect(w) PROVE RecordInv'
  <2>1. /\ UNCHANGED <<job, arg>> /\ stage[w] \in ProviderStages
        /\ \A v \in Workers : v # w => UNCHANGED stage[v]
    BY <1>1, <1>8 DEF MakeRecord, SetRecordCounter, Collect, Goto, At, ProviderStages, RecordStages
  <2>2. PICK p \in 1 .. Providers : p = Provider(w) /\ p = job[w].source
    BY <2>1, JobFacts DEF TypeInv, JobStages, Provider
  <2>3. \A v \in Workers : stage[v] \in RecordStages => job[v].source \in 1 .. Providers
    BY JobFacts, StageFacts DEF TypeInv, JobStages
  <2>4. latest \in [1 .. Providers -> [counter : Nat, sample : [job : Jobs \cup {NoJob}, arg : Nat]]]
    BY DEF TypeInv, TypeOK
  <2>5. Overlaps(w) <=> \E v \in Workers : v # w /\ stage[v] \in RecordStages /\ job[v].source = p
    BY <2>2, InRecordIs DEF Overlaps
  <2>6. CASE MakeRecord(w)
    <3>1. /\ stage'[w] = "setCounter" /\ latest' = [latest EXCEPT ![p] = Blank]
          /\ overlapped' = [overlapped EXCEPT ![p] = @ \/ Overlaps(w)]
      BY <1>1, <2>2, <2>6 DEF MakeRecord, Goto
    <3>2. overlapped' \in [1 .. Providers -> BOOLEAN]
      BY <1>1, <2>2, <2>4, <3>1 DEF Overlaps
    <3>3. ~overlapped'[p] => ~overlapped[p] /\ ~Overlaps(w)
      BY <1>1, <2>2, <2>4, <3>1
    <3>4. \A q \in 1 .. Providers : q # p => overlapped'[q] = overlapped[q] /\ latest'[q] = latest[q]
      BY <1>1, <2>2, <2>4, <3>1
    <3>5. ASSUME NEW v \in Workers, v # w PROVE OwnRecord(v)'
      <4>1. CASE stage[v] \in RecordStages /\ job[v].source = p
        BY <2>1, <2>5, <3>3, <3>5, <4>1 DEF OwnRecord
      <4>2. CASE stage[v] \in RecordStages /\ job[v].source # p /\ ~overlapped'[job[v].source]
        <5>1. \A u \in Workers : InRecord(u, job[v].source)' => InRecord(u, job[v].source)
          BY <2>1, <2>2, <2>4, <4>2 DEF InRecord
        <5> QED
          BY <1>1, <2>1, <2>3, <3>4, <3>5, <4>2, <5>1 DEF OwnRecord
      <4>3. CASE stage[v] \notin RecordStages \/ overlapped'[job[v].source]
        BY <2>1, <3>5, <4>3 DEF OwnRecord
      <4> QED
        BY <4>1, <4>2, <4>3
    <3>6. OwnRecord(w)'
      <4>1. CASE overlapped'[p]
        BY <2>1, <2>2, <2>4, <4>1 DEF OwnRecord
      <4>2. CASE ~overlapped'[p]
        <5>1. \A v \in Workers : InRecord(v, p)' => v = w
          BY <2>1, <2>5, <3>3, <4>2 DEF InRecord, RecordStages
        <5>2. latest'[p] = Blank /\ job'[w].source = p
          BY <2>1, <2>2, <2>4, <3>1
        <5> QED
          BY <3>1, <5>1, <5>2 DEF OwnRecord, InRecord
      <4> QED
        BY <4>1, <4>2
    <3> QED
      BY <3>2, <3>5, <3>6 DEF RecordInv
  <2>7. CASE SetRecordCounter(w) \/ Collect(w)
    <3>1. /\ UNCHANGED overlapped /\ stage[w] \in RecordStages
          /\ \A q \in 1 .. Providers : q # p => latest'[q] = latest[q]
          /\ stage'[w] \in RecordStages
      <4>1. \A r : WriteRecord(w, r) => \A q \in 1 .. Providers : q # p => latest'[q] = latest[q]
        BY <2>2, <2>4 DEF WriteRecord
      <4>2. CASE SetRecordCounter(w)
        BY <1>1, <4>1, <4>2 DEF SetRecordCounter, At, Goto, RecordStages
      <4>3. CASE Collect(w)
        BY <1>1, <4>1, <4>3 DEF Collect, At, Goto, RecordStages
      <4> QED
        BY <2>7, <4>2, <4>3
    <3>2. \A u \in Workers : \A q : InRecord(u, q)' => InRecord(u, q)
      BY <2>1, <3>1, InRecordIs DEF InRecord, RecordStages
    <3>3. ~overlapped[p] => ~Overlaps(w)
      <4>1. ~overlapped[p] => \A v \in Workers : InRecord(v, p) => v = w
        BY <1>1, <2>2, <3>1 DEF OwnRecord
      <4> QED
        BY <2>2, <4>1 DEF Overlaps
    <3>4. ASSUME NEW v \in Workers, v # w PROVE OwnRecord(v)'
      <4>1. stage[v] \in RecordStages /\ ~overlapped[job[v].source] => job[v].source # p
        BY <2>5, <3>3, <3>4
      <4> QED
        BY <1>1, <2>1, <2>3, <3>1, <3>2, <3>4, <4>1 DEF OwnRecord
    <3>5. OwnRecord(w)'
      <4> SUFFICES ASSUME ~overlapped[p] PROVE OwnRecord(w)'
        BY <2>1, <2>2, <2>4, <3>1 DEF OwnRecord
      <4>1. /\ \A v \in Workers : InRecord(v, p)' => v = w
            /\ stage[w] = "setCounter" => latest[p] = Blank
            /\ stage[w] = "collect" => latest[p].counter = arg[w] /\ latest[p].sample = NoSample
        BY <1>1, <2>2, <2>4, <3>1, <3>2 DEF OwnRecord
      <4>2. \A r : WriteRecord(w, r) => latest'[p] = r
        BY <2>2, <2>4, <3>3 DEF WriteRecord
      <4>3. CASE SetRecordCounter(w)
        <5>1. /\ stage[w] = "setCounter" /\ stage'[w] = "collect"
              /\ latest'[p] = [Blank EXCEPT !.counter = arg[w]]
          BY <1>1, <2>2, <4>1, <4>2, <4>3 DEF SetRecordCounter, At, Goto
        <5>2. latest'[p].counter = arg[w] /\ latest'[p].sample = NoSample
          BY <5>1 DEF Blank
        <5> QED
          BY <2>1, <2>2, <2>4, <4>1, <5>1, <5>2 DEF OwnRecord, InRecord
      <4>4. CASE Collect(w)
        <5>1. /\ stage[w] = "collect" /\ stage'[w] = "persist"
              /\ \/ latest'[p] = [latest[p] EXCEPT !.sample = [job |-> job[w], arg |-> arg[w]]]
                 \/ latest'[p] = latest[p]
          BY <1>1, <2>2, <4>2, <4>4 DEF Collect, At, Goto
        <5>2. latest[p] \in [counter : Nat, sample : [job : Jobs \cup {NoJob}, arg : Nat]]
          BY <2>2, <2>4
        <5>3. /\ latest'[p].counter = arg[w]
              /\ latest'[p].sample \in {NoSample, [job |-> job[w], arg |-> arg[w]]}
          BY <4>1, <5>1, <5>2
        <5> QED
          BY <2>1, <2>2, <2>4, <4>1, <5>1, <5>3 DEF OwnRecord, InRecord
      <4> QED
        BY <2>7, <4>3, <4>4
    <3> QED
      BY <1>1, <3>1, <3>4, <3>5 DEF RecordInv
  <2> QED
    BY <1>8, <2>6, <2>7
<1> QED
  BY <1>3, <1>5, <1>6, <1>7, <1>8 DEF Next, TaskStep, ProviderStep

LEMMA ScriptInit == Init => ScriptInv /\ RowIntact /\ RowsOfTasks
  BY StageFacts DEF Init, ScriptInv, OwnScript, LockedStages, RowIntact, RowsOfTasks

LEMMA ScriptNext == ASSUME TypeInv, ScriptInv, [Next]_vars PROVE ScriptInv'
<1>1. /\ stage \in [Workers -> Stages] /\ job \in [Workers -> Jobs \cup {NoJob}]
      /\ arg \in [Workers -> Nat] /\ ctxOwner \in [1 .. Scripts -> Workers \cup {Nobody}]
      /\ metricCounter \in [1 .. Scripts -> Nat] /\ Nobody \notin Workers
      /\ \A v \in Workers : OwnScript(v)
      /\ \A v \in Workers : stage[v] \in LockedStages => job[v].source \in 1 .. Scripts
  BY JobFacts, StageFacts, PoolAssumption DEF TypeInv, TypeOK, JobStages, ScriptInv, Workers, Nobody
<1>2. ASSUME UNCHANGED <<ctxOwner, metricCounter>>,
             \A v \in Workers : stage'[v] \notin LockedStages \/ UNCHANGED <<stage[v], job[v], arg[v]>>
      PROVE  ScriptInv'
  BY <1>1, <1>2 DEF ScriptInv, OwnScript
<1>3. CASE MainStep \/ UNCHANGED vars
  BY <1>2, <1>3 DEF MainStep, AddCollector, AddAI, Give, Place, ServerEnds, StopMetricsCollection,
                    StopScripts, StopPool, vars, tasksRun, shared
<1>4. ASSUME NEW w \in Workers, UNCHANGED <<ctxOwner, metricCounter>>, stage'[w] \notin LockedStages,
             Begin(w) \/ CollectorStep(w) \/ ProviderStep(w) \/ AIGivesUp(w)
      PROVE  ScriptInv'
  <2>1. ASSUME NEW v \in Workers, v # w PROVE UNCHANGED <<stage[v], job[v]>>
    BY <1>1, <1>4, <2>1
       DEF Begin, AIGivesUp, CollectorStep, SetFlag, ResetCounter, TestFlag, SubmitNext,
           PlaceNext, Count, ProviderStep, LoadCounter, MakeRecord, SetRecordCounter, Collect,
           PersistRecord, Goto, Return
  <2>2. ASSUME NEW v \in Workers, v # w PROVE UNCHANGED arg[v]
    BY <1>1, <1>4, <2>2, LoopOnItsThread
       DEF Begin, AIGivesUp, ProviderStep, LoadCounter, MakeRecord, SetRecordCounter, Collect,
           PersistRecord
  <2> QED
    BY <1>2, <1>4, <2>1, <2>2
<1>5. ASSUME NEW w \in Workers, Begin(w) PROVE ScriptInv'
  <2>1. Head(queue[w]) \in Jobs
    BY <1>5, BeginEffect DEF Begin
  <2>2. stage'[w] \in {"setFlag", "predict", "load", "lock"}
    BY <1>1, <1>5, <2>1, JobFacts DEF Begin, FirstStage
  <2> QED
    BY <1>4, <1>5, <2>2 DEF Begin, shared, LockedStages
<1>6. ASSUME NEW w \in Workers, CollectorStep(w) \/ ProviderStep(w) \/ AIGivesUp(w) PROVE ScriptInv'
  <2>1. UNCHANGED <<ctxOwner, metricCounter>>
    BY <1>6, LoopOnItsThread
       DEF AIGivesUp, ProviderStep, LoadCounter, MakeRecord, SetRecordCounter, Collect,
           PersistRecord, shared
  <2>2. stage'[w] \notin LockedStages
    BY <1>1, <1>6 DEF CollectorStep, SetFlag, ResetCounter, TestFlag, SubmitNext, PlaceNext, Count,
                      AIGivesUp, ProviderStep, LoadCounter, MakeRecord, SetRecordCounter, Collect,
                      PersistRecord, Goto, Return, LockedStages
  <2> QED
    BY <1>4, <1>6, <2>1, <2>2
<1>7. ASSUME NEW w \in Workers, ScriptStep(w) PROVE ScriptInv'
  <2>1. stage[w] \in ScriptStages /\ \A v \in Workers : v # w => UNCHANGED <<stage[v], job[v], arg[v]>>
    BY <1>7, ScriptFrame
  <2>2. PICK s \in 1 .. Scripts : s = job[w].source
    BY <2>1, JobFacts DEF TypeInv, JobStages
  <2>3. \A v \in Workers : v # w => UNCHANGED <<stage[v], job[v], arg[v]>>
    BY <2>1
  \* A script another thread holds is none of this one's.
  <2>4. ASSUME \A z \in 1 .. Scripts : z # s => /\ ctxOwner'[z] = ctxOwner[z]
                                                /\ metricCounter'[z] = metricCounter[z],
               ctxOwner[s] \in {w, Nobody}
        PROVE  \A v \in Workers : v # w => OwnScript(v)'
    <3> SUFFICES ASSUME NEW v \in Workers, v # w, stage[v] \in LockedStages PROVE OwnScript(v)'
      BY <2>3 DEF OwnScript
    <3>1. job[v].source \in 1 .. Scripts /\ job[v].source # s
      BY <1>1, <2>4 DEF OwnScript
    <3> QED
      BY <1>1, <2>3, <2>4, <3>1 DEF OwnScript
  <2>5. stage[w] \in LockedStages => ctxOwner[s] = w
    BY <1>1, <2>2 DEF OwnScript
  <2>6. CASE LockScript(w)
    <3>1. /\ ctxOwner[s] = Nobody /\ ctxOwner' = [ctxOwner EXCEPT ![s] = w]
          /\ UNCHANGED <<metricCounter, job>> /\ stage'[w] = "testStop"
      BY <1>1, <2>2, <2>6 DEF LockScript, Goto
    <3>2. OwnScript(w)'
      BY <1>1, <2>2, <3>1 DEF OwnScript
    <3> QED
      BY <1>1, <2>4, <3>1, <3>2 DEF ScriptInv
  <2>7. CASE SetupScript(w) \/ EndText(w)
    <3>1. /\ stage[w] \in {"testStop", "text"} /\ UNCHANGED metricCounter
          /\ \/ stage'[w] \in {"text", "setMetricCounter"} /\ UNCHANGED <<ctxOwner, job>>
             \/ stage'[w] = "idle" /\ ctxOwner' = [ctxOwner EXCEPT ![s] = Nobody]
      BY <1>1, <2>2, <2>7 DEF SetupScript, EndText, Goto, Return, At, Unlock
    <3>2. ctxOwner[s] = w
      BY <2>5, <3>1 DEF LockedStages
    <3>3. OwnScript(w)'
      BY <1>1, <2>2, <3>1, <3>2 DEF OwnScript, LockedStages
    <3> QED
      BY <1>1, <2>4, <3>1, <3>2, <3>3 DEF ScriptInv
  <2>8. CASE SetMetricCounter(w)
    <3>1. /\ stage[w] = "setMetricCounter" /\ stage'[w] = "execute" /\ UNCHANGED <<ctxOwner, job>>
          /\ metricCounter' = [metricCounter EXCEPT ![s] = counter] /\ arg'[w] = counter
      BY <1>1, <2>2, <2>8 DEF SetMetricCounter, Goto, At
    <3>2. ctxOwner[s] = w
      BY <2>5, <3>1 DEF LockedStages
    <3>3. OwnScript(w)'
      BY <1>1, <2>2, <3>1, <3>2 DEF OwnScript
    <3> QED
      BY <1>1, <2>4, <3>1, <3>2, <3>3 DEF ScriptInv
  <2>9. CASE ExecuteScript(w)
    <3>1. /\ stage[w] = "execute" /\ stage'[w] = "idle" /\ UNCHANGED metricCounter
          /\ ctxOwner' = [ctxOwner EXCEPT ![s] = Nobody]
      BY <1>1, <2>2, <2>9 DEF ExecuteScript, Return, At, Unlock
    <3>2. ctxOwner[s] = w
      BY <2>5, <3>1 DEF LockedStages
    <3>3. OwnScript(w)'
      BY <3>1 DEF OwnScript, LockedStages
    <3> QED
      BY <1>1, <2>4, <3>1, <3>2, <3>3 DEF ScriptInv
  <2>10. CASE PersistInText(w) \/ PersistInExecute(w)
    BY <1>2, <2>10, PersistFrame
  <2> QED
    BY <1>7, <2>6, <2>7, <2>8, <2>9, <2>10 DEF ScriptStep
<1> QED
  BY <1>3, <1>5, <1>6, <1>7 DEF Next, TaskStep

\* A flag that two tasks have met is not taken back.
LEMMA OverlapsStay ==
    ASSUME TypeInv, RecordInv, [Next]_vars, NEW p \in 1 .. Providers, overlapped[p]
    PROVE  overlapped'[p]
<1>1. overlapped \in [1 .. Providers -> BOOLEAN]
  BY DEF RecordInv
<1>2. CASE UNCHANGED overlapped
  BY <1>2
<1>3. CASE \E w \in Workers : MakeRecord(w)
  BY <1>1, <1>3 DEF MakeRecord
<1>4. CASE MainStep \/ UNCHANGED vars
  BY <1>2, <1>4 DEF MainStep, AddCollector, AddAI, Give, Place, ServerEnds, StopMetricsCollection,
                    StopScripts, StopPool, vars
<1>5. CASE \E w \in Workers : Begin(w) \/ CollectorStep(w) \/ AIGivesUp(w)
  BY <1>2, <1>5, LoopOnItsThread DEF Begin, AIGivesUp
<1>6. CASE \E w \in Workers : ProviderStep(w) \/ ScriptStep(w)
  BY <1>2, <1>3, <1>6, ScriptFrame
     DEF ProviderStep, LoadCounter, SetRecordCounter, Collect, PersistRecord
<1> QED
  BY <1>4, <1>5, <1>6 DEF Next, TaskStep

LEMMA OfTasksNext ==
    ASSUME TypeInv, RowsOfTasks, [Next]_vars
    PROVE  RowsOfTasks'
<1> DEFINE OfTask(r) == r.job \in MetricJobs /\ (r.by = "record" => r.job \in ProviderJobs)
<1>1. CASE UNCHANGED rows
  BY <1>1 DEF RowsOfTasks
<1>2. CASE ~UNCHANGED rows
  <2>1. PICK w \in Workers, r \in Rows : rows' = Append(rows, r) /\ RowOf(w, r)
    BY <1>2, RowsGrow DEF Extended
  <2>2. OfTask(r)
    BY <2>1, StageFacts DEF RowOf, TypeInv, JobStages, MetricJobs
  <2>3. \A i \in 1 .. Len(rows)' : OfTask(rows'[i])
    BY <2>1, <2>2, NewRow DEF RowsOfTasks
  <2> QED
    BY <2>3 DEF RowsOfTasks
<1> QED
  BY <1>1, <1>2

RowOK(r, met) ==
    /\ r.by = "execute" \/ (r.by = "record" /\ ~met[r.job.source]) =>
          /\ r.counter = r.arg
          /\ r.sample \in {NoSample, [job |-> r.job, arg |-> r.arg]}
    /\ r.by = "text" => r.counter <= r.arg

LEMMA RowNext ==
    ASSUME TypeInv, RecordInv, ScriptInv, Behind, RowIntact, RowsOfTasks, [Next]_vars
    PROVE  RowIntact'
<1>1. /\ rows \in Seq(Rows) /\ \A i \in 1 .. Len(rows) : RowOK(rows[i], overlapped)
      /\ \A i \in 1 .. Len(rows) : rows[i].by = "record" => rows[i].job.source \in 1 .. Providers
  BY JobFacts DEF TypeInv, TypeOK, RowIntact, RowsOfTasks, RowOK
<1>2. ASSUME NEW r, r.by = "record" => r.job.source \in 1 .. Providers, RowOK(r, overlapped)
      PROVE  RowOK(r, overlapped')
  BY <1>2, OverlapsStay DEF RowOK
<1>3. ASSUME NEW w \in Workers, NEW r \in Rows, RowOf(w, r)
      PROVE  RowOK(r, overlapped) /\ (r.by = "record" => r.job.source \in 1 .. Providers)
  <2>1. CASE r.by = "record"
    <3>1. /\ stage[w] = "persist" /\ stage[w] \in ProviderStages /\ stage[w] \in RecordStages
          /\ r.job = job[w] /\ r.arg = arg[w] /\ r.counter = latest[job[w].source].counter
          /\ r.sample = latest[job[w].source].sample
      BY <1>3, <2>1, StageFacts DEF RowOf, Provider
    <3>2. job[w].source \in 1 .. Providers
      BY <3>1, JobFacts DEF TypeInv, JobStages
    <3>3. ~overlapped[job[w].source] =>
              /\ latest[job[w].source].counter = arg[w]
              /\ latest[job[w].source].sample \in {NoSample, [job |-> job[w], arg |-> arg[w]]}
      BY <3>1 DEF RecordInv, OwnRecord
    <3> QED
      BY <2>1, <3>1, <3>2, <3>3 DEF RowOK
  <2>2. CASE r.by = "text"
    <3>1. /\ stage[w] \in ScriptStages /\ r.arg = counter /\ r.counter = metricCounter[job[w].source]
      BY <1>3, <2>2, StageFacts DEF RowOf
    <3>2. job[w].source \in 1 .. Scripts
      BY <3>1, JobFacts DEF TypeInv, JobStages
    <3> QED
      BY <2>2, <3>1, <3>2 DEF RowOK, Behind
  <2>3. CASE r.by = "execute"
    <3>1. /\ stage[w] = "execute" /\ stage[w] \in LockedStages
          /\ r.job = job[w] /\ r.arg = arg[w] /\ r.counter = metricCounter[job[w].source]
          /\ r.sample = [job |-> job[w], arg |-> arg[w]]
      BY <1>3, <2>3, StageFacts DEF RowOf
    <3>2. metricCounter[job[w].source] = arg[w]
      BY <3>1 DEF ScriptInv, OwnScript
    <3> QED
      BY <2>3, <3>1, <3>2 DEF RowOK
  <2> QED
    BY <2>1, <2>2, <2>3 DEF Rows
<1>4. CASE UNCHANGED rows
  BY <1>1, <1>2, <1>4 DEF RowIntact, RowOK
<1>5. CASE ~UNCHANGED rows
  <2>1. PICK w \in Workers, r \in Rows : rows' = Append(rows, r) /\ RowOf(w, r)
    BY <1>5, RowsGrow DEF Extended
  <2>2. RowOK(r, overlapped')
    BY <1>2, <1>3, <2>1
  <2>3. \A i \in 1 .. Len(rows)' : RowOK(rows'[i], overlapped')
    BY <1>1, <1>2, <2>1, <2>2, NewRow
  <2> QED
    BY <2>3 DEF RowIntact, RowOK
<1> QED
  BY <1>4, <1>5

\* RowIntact: a row has the counter its own task loaded and no other task's sample: of a
\* provider as long as its tasks never met in latestValue, and a row that execute() persists
\* always, because ctxMutex covers metricCounter until the insert.  A row that the text of a
\* script persists, before the task sets metricCounter, is never ahead of the loop
\* (ScriptManager.cpp:11-26, Script.h:145-158, CPUMetricProvider.h:97-132).
THEOREM RowsUnmixed == Spec => []RowIntact
<1> DEFINE Whole == /\ TypeInv /\ CollectorInv /\ FullLoops /\ SentSoFar /\ InTime /\ Behind
                    /\ RecordInv /\ ScriptInv /\ RowIntact /\ RowsOfTasks
<1>1. Init => Whole
  BY TypeInit, CollectorInit, LoopInit, InTimeInit, BehindInit, RecordInit, ScriptInit
<1>2. Whole /\ [Next]_vars => Whole'
  BY TypeNext, CollectorNext, LoopNext, InTimeNext, BehindNext, RecordNext, ScriptNext, RowNext,
     OfTasksNext
<1> QED
  BY <1>1, <1>2, PTL DEF Spec
=============================================================================
