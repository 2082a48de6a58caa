------------------------- MODULE ThreadManagerProofs -------------------------
(***************************************************************************)
(* Proofs about ThreadManager for every pool size, every set of tasks and  *)
(* every choice of endless tasks.                                          *)
(***************************************************************************)
EXTENDS ThreadManager, SequenceTheorems, TLAPS

-----------------------------------------------------------------------------
(* Moving the head of q to the end of b keeps their concatenation.         *)
LEMMA MoveHead ==
    ASSUME NEW S, NEW b \in Seq(S), NEW q \in Seq(S), q # <<>>
    PROVE  /\ Append(b, Head(q)) \in Seq(S)
           /\ Tail(q) \in Seq(S)
           /\ Append(b, Head(q)) \o Tail(q) = b \o q
<1>1. Head(q) \in S /\ Tail(q) \in Seq(S)
  BY HeadTailProperties
<1>2. Append(b, Head(q)) = b \o <<Head(q)>> /\ <<Head(q)>> \in Seq(S)
  BY <1>1, AppendIsConcat
<1>3. <<Head(q)>> \o Tail(q) = q
  BY <1>1
<1>4. (b \o <<Head(q)>>) \o Tail(q) = b \o (<<Head(q)>> \o Tail(q))
  BY <1>1, <1>2, ConcatAssociative
<1> QED
  BY <1>1, <1>2, <1>3, <1>4, AppendProperties

(* Appending to the queue q appends to what was accepted, b \o q.          *)
AppendsRight(b, q, t) == Append(b \o q, t) = b \o Append(q, t)

(* Pushing a task on the right of b \o q.                                   *)
LEMMA AppendRight ==
    ASSUME NEW S, NEW b \in Seq(S), NEW q \in Seq(S), NEW t \in S
    PROVE  AppendsRight(b, q, t)
<1>1. <<t>> \in Seq(S) /\ b \o q \in Seq(S)
  BY ConcatProperties
<1>2. (b \o q) \o <<t>> = b \o (q \o <<t>>)
  BY <1>1, ConcatAssociative
<1> QED
  BY <1>1, <1>2, AppendIsConcat DEF AppendsRight

-----------------------------------------------------------------------------
(* The queues: types, FrontExists and Fifo need one another, because Take  *)
(* is well typed only when the queue it takes from is not empty.           *)
QueueInv == TypeOK /\ FrontExists /\ Fifo

(* notify_all moves threads between places that exist.                     *)
LEMMA NotifyAllType ==
    ASSUME NEW p \in [Workers -> Places]
    PROVE  /\ NotifyAll(p) \in [Workers -> Places]
           /\ \A w \in Workers : NotifyAll(p)[w] # p[w] =>
                 p[w] = "asleep" /\ NotifyAll(p)[w] = "predicate"
BY DEF NotifyAll, Places

(* The queues are empty when the pool is built.                            *)
LEMMA QueueInit == Init => QueueInv
<1> SUFFICES ASSUME Init PROVE QueueInv
  OBVIOUS
<1> USE DEF Init
<1>1. TypeOK
  <2>1. pc \in [Workers -> Places] /\ call \in [Callers -> Calls]
    BY DEF Places, Calls
  <2>2. /\ tasks \in [Workers -> Seq(Tasks)]
        /\ accepted \in [Workers -> Seq(Tasks)]
        /\ begun \in [Workers -> Seq(Tasks)]
    BY EmptySeq
  <2>3. late \in [Workers -> Nat] /\ joined \in 0 .. PoolSize
    BY PoolSizeAssumption
  <2> QED
    BY <2>1, <2>2, <2>3 DEF TypeOK
<1>2. FrontExists
  BY DEF FrontExists
<1>3. Fifo
  BY DEF Fifo
<1> QED
  BY <1>1, <1>2, <1>3 DEF QueueInv

(* A step that only moves one thread along ThreadFunction.                 *)
LEMMA QueueGoto ==
    ASSUME QueueInv, NEW w \in Workers, NEW to \in Places,
           pc' = [pc EXCEPT ![w] = to],
           to = "lockTasks" => tasks[w] # <<>>,
           UNCHANGED <<tasks, should_stop, running, call, closing, joined, history>>
    PROVE  QueueInv'
<1> USE DEF QueueInv, history
<1>1. TypeOK'
  BY DEF TypeOK
<1>2. FrontExists'
  BY DEF FrontExists, TypeOK
<1>3. Fifo'
  BY DEF Fifo
<1> QED
  BY <1>1, <1>2, <1>3

(* emplace_back, lines 43-44, adds to the queue and to its record alike.   *)
LEMMA QueuePush ==
    ASSUME QueueInv, NEW c \in Callers, Push(c)
    PROVE  QueueInv'
<1> DEFINE w == call[c].index
           t == call[c].task
<1>1. t \in Tasks /\ w \in Workers /\ call[c].at = "lock"
  BY DEF QueueInv, TypeOK, Calls, NoCall, Idle, Push
<1>2. tasks' = [tasks EXCEPT ![w] = Append(tasks[w], t)]
      /\ accepted' = [accepted EXCEPT ![w] = Append(accepted[w], t)]
  BY DEF Push
<1>3. tasks[w] \in Seq(Tasks) /\ accepted[w] \in Seq(Tasks) /\ begun[w] \in Seq(Tasks)
  BY <1>1 DEF QueueInv, TypeOK
<1>4. /\ Append(tasks[w], t) \in Seq(Tasks) /\ Append(tasks[w], t) # <<>>
      /\ Append(accepted[w], t) \in Seq(Tasks)
  BY <1>1, <1>3, AppendProperties
<1>5. UNCHANGED <<should_stop, pc, running, closing, joined, fresh, roaming, begun, late>>
      /\ call' = [call EXCEPT ![c].at = "locked"]
  BY DEF Push
<1>6. call' \in [Callers -> Calls]
  <2>1. call[c] \in [at : {"lock", "locked"}, task : Tasks, index : Workers]
    BY <1>1 DEF QueueInv, TypeOK, Calls, NoCall, Idle
  <2> QED
    BY <1>5, <2>1 DEF QueueInv, TypeOK, Calls
<1>7. TypeOK'
  BY <1>1, <1>2, <1>4, <1>5, <1>6 DEF QueueInv, TypeOK
<1>8. FrontExists'
  BY <1>1, <1>2, <1>4, <1>5 DEF QueueInv, TypeOK, FrontExists
<1>9. Fifo'
  <2> SUFFICES ASSUME NEW v \in Workers PROVE accepted'[v] = begun'[v] \o tasks'[v]
    BY DEF Fifo
  <2>1. CASE v = w
    <3>1. accepted[w] = begun[w] \o tasks[w]
      BY <1>1 DEF QueueInv, Fifo
    <3>2. Append(begun[w] \o tasks[w], t) = begun[w] \o Append(tasks[w], t)
      <4>1. t \in Tasks /\ tasks[w] \in Seq(Tasks) /\ begun[w] \in Seq(Tasks)
        BY <1>1, <1>3
      <4>2. AppendsRight(begun[w], tasks[w], t)
        <5> HIDE DEF w, t
        <5> QED
          BY <4>1, AppendRight
      <4> QED
        BY <4>2 DEF AppendsRight
    <3> QED
      BY <1>1, <1>2, <1>5, <2>1, <3>1, <3>2 DEF QueueInv, TypeOK
  <2>2. CASE v # w
    BY <1>1, <1>2, <1>5, <2>2 DEF QueueInv, TypeOK, Fifo
  <2> QED
    BY <2>1, <2>2
<1> QED
  BY <1>7, <1>8, <1>9 DEF QueueInv

(* front() and erase(begin()), lines 97-99, find a task and move it.       *)
LEMMA QueueTake ==
    ASSUME QueueInv, NEW w \in Workers, Take(w)
    PROVE  QueueInv'
<1> DEFINE t == Head(tasks[w])
<1>1. pc[w] = "lockTasks" /\ pc' = [pc EXCEPT ![w] = "run"]
  BY DEF Take, Goto
<1>2. tasks[w] # <<>> /\ tasks[w] \in Seq(Tasks) /\ begun[w] \in Seq(Tasks)
  BY <1>1 DEF QueueInv, FrontExists, TypeOK
<1>3. t \in Tasks /\ Tail(tasks[w]) \in Seq(Tasks)
  BY <1>2, HeadTailProperties
<1>4. /\ Append(begun[w], t) \in Seq(Tasks)
      /\ Append(begun[w], t) \o Tail(tasks[w]) = begun[w] \o tasks[w]
  BY <1>2, MoveHead
<1>5. /\ running' = [running EXCEPT ![w] = t]
      /\ tasks' = [tasks EXCEPT ![w] = Tail(tasks[w])]
      /\ begun' = [begun EXCEPT ![w] = Append(begun[w], t)]
      /\ late' = [late EXCEPT ![w] = IF should_stop THEN late[w] + 1 ELSE late[w]]
      /\ UNCHANGED <<should_stop, call, closing, joined, fresh, roaming, accepted>>
  BY DEF Take
<1>6. TypeOK'
  <2>1. late' \in [Workers -> Nat]
    BY <1>5 DEF QueueInv, TypeOK
  <2> QED
    BY <1>1, <1>3, <1>4, <1>5, <2>1 DEF QueueInv, TypeOK, Places
<1>7. FrontExists'
  BY <1>1, <1>5 DEF QueueInv, TypeOK, FrontExists
<1>8. Fifo'
  BY <1>4, <1>5 DEF QueueInv, TypeOK, Fifo
<1> QED
  BY <1>6, <1>7, <1>8 DEF QueueInv

(* Every step of the pool keeps the queues in order, action by action.     *)
LEMMA QueueNext == QueueInv /\ [Next]_vars => QueueInv'
<1> SUFFICES ASSUME QueueInv, [Next]_vars PROVE QueueInv'
  OBVIOUS
<1>1. ASSUME NEW w \in Workers, Spawn(w) PROVE QueueInv'
  BY <1>1, QueueGoto DEF Spawn, Places
<1>2. ASSUME NEW w \in Workers, ThreadFunction(w) PROVE QueueInv'
  <2>1. CASE TestLoop(w)
    BY <2>1, QueueGoto DEF TestLoop, Goto, Places
  <2>2. CASE TestPredicate(w)
    BY <2>2, QueueGoto DEF TestPredicate, Goto, Places
  <2>3. CASE FallAsleep(w)
    BY <2>3, QueueGoto DEF FallAsleep, Goto, Places
  <2>4. CASE CheckTask(w)
    BY <2>4, QueueGoto DEF CheckTask, Goto, Places
  <2>5. CASE Take(w)
    BY <2>5, QueueTake
  <2>6. CASE Finish(w)
    BY <2>6 DEF Finish, Goto, QueueInv, TypeOK, FrontExists, Fifo, Places, history
  <2>7. CASE Leave(w)
    <3>1. TypeOK'
      BY <2>7, NotifyAllType DEF Leave, QueueInv, TypeOK, Places, history
    <3>2. FrontExists' /\ Fifo'
      BY <2>7 DEF Leave, NotifyAll, QueueInv, TypeOK, FrontExists, Fifo, history
    <3> QED
      BY <3>1, <3>2 DEF QueueInv
  <2> QED
    BY <1>2, <2>1, <2>2, <2>3, <2>4, <2>5, <2>6, <2>7 DEF ThreadFunction
<1>3. ASSUME NEW w \in Workers, WakeSpuriously(w) PROVE QueueInv'
  BY <1>3, QueueGoto DEF WakeSpuriously, Goto, Places
<1>4. ASSUME NEW c \in Callers, NEW t \in Tasks, NEW i \in Indices, AddTask(c, t, i)
      PROVE  QueueInv'
  <2>1. call' \in [Callers -> Calls]
    BY <1>4 DEF AddTask, QueueInv, TypeOK, Calls
  <2>2. TypeOK'
    BY <1>4, <2>1 DEF AddTask, QueueInv, TypeOK
  <2> QED
    BY <1>4, <2>2 DEF AddTask, QueueInv, FrontExists, Fifo
<1>5. ASSUME NEW c \in Callers, Push(c) PROVE QueueInv'
  BY <1>5, QueuePush
<1>6. ASSUME NEW c \in Callers, Notify(c) PROVE QueueInv'
  <2>1. call' \in [Callers -> Calls]
    BY <1>6 DEF Notify, QueueInv, TypeOK, Calls
  <2>2. TypeOK'
    BY <1>6, <2>1, NotifyAllType DEF Notify, QueueInv, TypeOK, history
  <2>3. FrontExists' /\ Fifo'
    BY <1>6 DEF Notify, NotifyAll, QueueInv, TypeOK, FrontExists, Fifo, history
  <2> QED
    BY <2>2, <2>3 DEF QueueInv
<1>7. CASE Stop
  BY <1>7 DEF Stop, QueueInv, TypeOK, FrontExists, Fifo, history
<1>8. CASE Close
  BY <1>8 DEF Close, QueueInv, TypeOK, FrontExists, Fifo, history
<1>9. CASE Join
  BY <1>9, PoolSizeAssumption DEF Join, QueueInv, TypeOK, FrontExists, Fifo, history
<1>10. CASE UNCHANGED vars
  BY <1>10 DEF vars, state, history, QueueInv, TypeOK, FrontExists, Fifo
<1> QED
  BY <1>1, <1>2, <1>3, <1>4, <1>5, <1>6, <1>7, <1>8, <1>9, <1>10 DEF Next

(* The queues hold tasks, a thread that goes for one finds it, and nothing *)
(* accepted is lost, skipped or overtaken: the counterpart of lines 42-45  *)
(* and 96-100 of ThreadManager.h for any number of threads and callers.    *)
THEOREM QueuesCorrect == Spec => [](TypeOK /\ FrontExists /\ Fifo)
<1>1. Spec => []QueueInv
  BY QueueInit, QueueNext, PTL DEF Spec
<1>2. QueueInv => TypeOK /\ FrontExists /\ Fifo
  BY DEF QueueInv
<1> QED
  BY <1>1, <1>2, PTL

(* The members of ThreadManager and of its threads keep their types.       *)
THEOREM TypesCorrect == Spec => []TypeOK
  BY QueuesCorrect, PTL

(* tasks[threadId].front() (lines 97-99 of ThreadManager.h) is called on a *)
(* queue that has a front, however the check and the call are separated.   *)
THEOREM FrontsExist == Spec => []FrontExists
  BY QueuesCorrect, PTL

-----------------------------------------------------------------------------
(* Stop().                                                                 *)
LEMMA LateNext == QueueInv /\ LateLeaves /\ [Next]_vars => LateLeaves'
<1> SUFFICES ASSUME QueueInv, LateLeaves, [Next]_vars PROVE LateLeaves'
  OBVIOUS
<1> USE DEF QueueInv, LateLeaves
<1>1. ASSUME NEW w \in Workers, Spawn(w) PROVE LateLeaves'
  BY <1>1 DEF Spawn, TypeOK, history
<1>2. ASSUME NEW w \in Workers, ThreadFunction(w) PROVE LateLeaves'
  <2>1. CASE TestLoop(w)
    BY <2>1 DEF TestLoop, Goto, TypeOK, history
  <2>2. CASE TestPredicate(w)
    BY <2>2 DEF TestPredicate, Goto, TypeOK, history
  <2>3. CASE FallAsleep(w)
    BY <2>3 DEF FallAsleep, Goto, TypeOK, history
  <2>4. CASE CheckTask(w)
    BY <2>4 DEF CheckTask, Goto, TypeOK, history
  <2>5. CASE Take(w)
    <3>1. pc[w] = "lockTasks" /\ pc' = [pc EXCEPT ![w] = "run"]
          /\ late' = [late EXCEPT ![w] = IF should_stop THEN late[w] + 1 ELSE late[w]]
          /\ should_stop' = should_stop
      BY <2>5 DEF Take, Goto
    <3>2. late[w] \in Nat
      BY DEF TypeOK
    <3>3. ~(late[w] > 0)
      BY <3>1
    <3>4. late[w] = 0
      BY <3>2, <3>3
    <3>5. late'[w] > 0 => late'[w] = 1 /\ should_stop' /\ pc'[w] = "run"
      BY <3>1, <3>4 DEF TypeOK
    <3>6. \A v \in Workers : v # w => late'[v] = late[v] /\ pc'[v] = pc[v]
      BY <3>1 DEF TypeOK
    <3> QED
      BY <3>1, <3>5, <3>6
  <2>6. CASE Finish(w)
    BY <2>6 DEF Finish, Goto, TypeOK, history
  <2>7. CASE Leave(w)
    BY <2>7 DEF Leave, NotifyAll, TypeOK, history
  <2> QED
    BY <1>2, <2>1, <2>2, <2>3, <2>4, <2>5, <2>6, <2>7 DEF ThreadFunction
<1>3. ASSUME NEW w \in Workers, WakeSpuriously(w) PROVE LateLeaves'
  BY <1>3 DEF WakeSpuriously, Goto, TypeOK, history
<1>4. ASSUME NEW c \in Callers, NEW t \in Tasks, NEW i \in Indices, AddTask(c, t, i)
      PROVE  LateLeaves'
  BY <1>4 DEF AddTask
<1>5. ASSUME NEW c \in Callers, Push(c) PROVE LateLeaves'
  BY <1>5 DEF Push
<1>6. ASSUME NEW c \in Callers, Notify(c) PROVE LateLeaves'
  BY <1>6 DEF Notify, NotifyAll, TypeOK, history
<1>7. CASE Stop \/ Close \/ Join
  BY <1>7 DEF Stop, Close, Join, TypeOK, history
<1>8. CASE UNCHANGED vars
  BY <1>8 DEF vars, state, history
<1> QED
  BY <1>1, <1>2, <1>3, <1>4, <1>5, <1>6, <1>7, <1>8 DEF Next

(* However many tasks are queued when Stop() is called, every thread takes *)
(* at most one more: the one it had decided on at line 96.                 *)
THEOREM StopIsPrompt == Spec => []AtMostOneLate
<1>1. Init => QueueInv /\ LateLeaves
  BY QueueInit DEF Init, LateLeaves
<1>2. QueueInv /\ LateLeaves /\ [Next]_vars => (QueueInv /\ LateLeaves)'
  BY QueueNext, LateNext
<1>3. QueueInv /\ LateLeaves => AtMostOneLate
  <2> SUFFICES ASSUME QueueInv, LateLeaves, NEW w \in Workers PROVE late[w] <= 1
    BY DEF AtMostOneLate
  <2>1. late[w] \in Nat
    BY DEF QueueInv, TypeOK
  <2>2. late[w] > 0 => late[w] = 1
    BY DEF LateLeaves
  <2> QED
    BY <2>1, <2>2
<1> QED
  BY <1>1, <1>2, <1>3, PTL DEF Spec

-----------------------------------------------------------------------------
(* The destructor.                                                         *)
EndInv == RunsOne /\ CallersLive /\ JoinedEnded

(* Joining, leaving and calling keep the end of the pool orderly: lines 24-29. *)
LEMMA EndNext == QueueInv /\ EndInv /\ [Next]_vars => EndInv'
<1> SUFFICES ASSUME QueueInv, EndInv, [Next]_vars PROVE EndInv'
  OBVIOUS
<1> USE DEF QueueInv, EndInv, RunsOne, CallersLive, JoinedEnded, Callers, Main, Workers
<1>1. ASSUME NEW w \in Workers, Spawn(w) PROVE EndInv'
  BY <1>1, PoolSizeAssumption DEF Spawn, TypeOK
<1>2. ASSUME NEW w \in Workers, ThreadFunction(w) PROVE EndInv'
  <2>1. CASE TestLoop(w)
    BY <2>1, PoolSizeAssumption DEF TestLoop, Goto, TypeOK
  <2>2. CASE TestPredicate(w)
    BY <2>2, PoolSizeAssumption DEF TestPredicate, Goto, TypeOK
  <2>3. CASE FallAsleep(w)
    BY <2>3, PoolSizeAssumption DEF FallAsleep, Goto, TypeOK
  <2>4. CASE CheckTask(w)
    BY <2>4, PoolSizeAssumption DEF CheckTask, Goto, TypeOK
  <2>5. CASE Take(w)
    BY <2>5, PoolSizeAssumption DEF Take, Goto, TypeOK
  <2>6. CASE Finish(w)
    BY <2>6, PoolSizeAssumption DEF Finish, Goto, TypeOK
  <2>7. CASE Leave(w)
    BY <2>7, PoolSizeAssumption DEF Leave, NotifyAll, TypeOK
  <2> QED
    BY <1>2, <2>1, <2>2, <2>3, <2>4, <2>5, <2>6, <2>7 DEF ThreadFunction
<1>3. ASSUME NEW w \in Workers, WakeSpuriously(w) PROVE EndInv'
  BY <1>3, PoolSizeAssumption DEF WakeSpuriously, Goto, TypeOK
<1>4. ASSUME NEW c \in Callers, NEW t \in Tasks, NEW i \in Indices, AddTask(c, t, i)
      PROVE  EndInv'
  <2>1. IF c = Main THEN ~closing ELSE pc[c] = "run"
    BY <1>4 DEF AddTask, MayCall
  <2>2. UNCHANGED <<pc, running, closing, joined>>
        /\ \A d \in Callers : d # c => call'[d] = call[d]
    BY <1>4 DEF AddTask, TypeOK
  <2>3. RunsOne' /\ JoinedEnded'
    BY <2>2
  <2>4. CallersLive'
    <3>1. CASE c = Main
      BY <2>1, <2>2, <3>1
    <3>2. CASE c \in Workers
      <4>1. c # Main /\ pc[c] = "run"
        BY <2>1, <3>2
      <4> QED
        BY <2>2, <3>2, <4>1
    <3> QED
      BY <3>1, <3>2
  <2> QED
    BY <2>3, <2>4
<1>5. ASSUME NEW c \in Callers, Push(c) PROVE EndInv'
  <2>1. call[c].at # Idle
    BY <1>5 DEF Push, Idle
  <2>2. UNCHANGED <<pc, running, closing, joined>>
        /\ \A d \in Callers : d # c => call'[d] = call[d]
    BY <1>5 DEF Push, TypeOK
  <2> QED
    BY <2>1, <2>2, PoolSizeAssumption DEF TypeOK
<1>6. ASSUME NEW c \in Callers, Notify(c) PROVE EndInv'
  <2>1. /\ UNCHANGED <<running, closing, joined>>
        /\ \A d \in Callers : call'[d].at # Idle => call[d].at # Idle
    BY <1>6 DEF Notify, TypeOK, NoCall
  <2>2. \A w \in Workers : /\ pc'[w] = "run" <=> pc[w] = "run"
                           /\ pc[w] = "exited" => pc'[w] = "exited"
    BY <1>6 DEF Notify, NotifyAll, TypeOK
  <2> QED
    BY <2>1, <2>2, PoolSizeAssumption DEF TypeOK
<1>7. CASE Stop
  BY <1>7 DEF Stop
<1>8. CASE Close
  BY <1>8 DEF Close
<1>9. CASE Join
  BY <1>9, PoolSizeAssumption DEF Join, TypeOK
<1>10. CASE UNCHANGED vars
  BY <1>10 DEF vars, state
<1> QED
  BY <1>1, <1>2, <1>3, <1>4, <1>5, <1>6, <1>7, <1>8, <1>9, <1>10 DEF Next

(* When ~ThreadManager has joined its last thread, nobody is left inside   *)
(* ThreadFunction or AddTaskToThread to touch the destroyed members.       *)
THEOREM DestructionIsSafe == Spec => []DestroyedUnused
<1>1. Init => QueueInv /\ EndInv
  <2>1. Init => EndInv
    BY PoolSizeAssumption
       DEF Init, EndInv, RunsOne, CallersLive, JoinedEnded, Workers, Callers, Main, NoCall, Idle
  <2> QED
    BY <2>1, QueueInit
<1>2. QueueInv /\ EndInv /\ [Next]_vars => (QueueInv /\ EndInv)'
  BY QueueNext, EndNext
<1>3. QueueInv /\ EndInv => DestroyedUnused
  <2> SUFFICES ASSUME QueueInv, EndInv, closing, joined = PoolSize
               PROVE  /\ \A w \in Workers : pc[w] = "exited"
                      /\ \A c \in Callers : call[c] = NoCall
    BY DEF DestroyedUnused
  <2>1. \A w \in Workers : pc[w] = "exited"
    BY PoolSizeAssumption DEF EndInv, JoinedEnded, Workers
  <2>2. \A c \in Callers : call[c].at = Idle
    BY <2>1 DEF EndInv, CallersLive, Callers
  <2> QED
    BY <2>1, <2>2 DEF QueueInv, TypeOK, Calls, Idle
<1> QED
  BY <1>1, <1>2, <1>3, PTL DEF Spec

(* A thread begins a task only when it holds none and has not been joined, *)
(* and never after it has left its loop.                                   *)
THEOREM NoReturnHolds == Spec => NoReturn
<1>1. QueueInv /\ EndInv /\ [Next]_vars =>
         [\A w \in Workers :
            /\ begun'[w] # begun[w] => running[w] = Idle /\ joined <= w
            /\ pc[w] \in {"leave", "exited"} => begun'[w] = begun[w]]_vars
  <2> SUFFICES ASSUME QueueInv, EndInv, Next, NEW w \in Workers, begun'[w] # begun[w]
               PROVE  /\ running[w] = Idle /\ joined <= w
                      /\ pc[w] \notin {"leave", "exited"}
    BY DEF vars
  <2>1. Take(w)
    BY DEF Next, ThreadFunction, Spawn, TestLoop, TestPredicate, FallAsleep, CheckTask, Take,
           Finish, Leave, WakeSpuriously, AddTask, Push, Notify, Stop, Close, Join, history,
           QueueInv, TypeOK
  <2>2. pc[w] = "lockTasks"
    BY <2>1 DEF Take, Goto
  <2> QED
    BY <2>2, PoolSizeAssumption
       DEF EndInv, RunsOne, JoinedEnded, QueueInv, TypeOK, Workers
<1>2. Init => QueueInv /\ EndInv
  <2>1. Init => EndInv
    BY PoolSizeAssumption
       DEF Init, EndInv, RunsOne, CallersLive, JoinedEnded, Workers, Callers, Main, NoCall, Idle
  <2> QED
    BY <2>1, QueueInit
<1>3. QueueInv /\ EndInv /\ [Next]_vars => (QueueInv /\ EndInv)'
  BY QueueNext, EndNext
<1> QED
  BY <1>1, <1>2, <1>3, PTL DEF Spec, NoReturn

-----------------------------------------------------------------------------
(* AddTaskToThread: every submitted task has one place.                    *)
PlaceInv == Separate /\ AcceptedOnce /\ RoamingPlaced

(* A step that submits and accepts nothing keeps the places.               *)
LEMMA PlaceFrame ==
    ASSUME PlaceInv, UNCHANGED <<fresh, roaming, accepted>>,
           \A d \in Callers : call'[d] = call[d] \/ (call[d].at # "lock" /\ call'[d].at # "lock")
    PROVE  PlaceInv'
<1>1. Separate'
  BY DEF PlaceInv, Separate, InSeq
<1>2. AcceptedOnce'
  BY DEF PlaceInv, AcceptedOnce
<1>3. RoamingPlaced'
  BY DEF PlaceInv, RoamingPlaced, InSeq
<1> QED
  BY <1>1, <1>2, <1>3 DEF PlaceInv

(* A call that chooses an index, lines 34-42, takes a task nobody else has. *)
LEMMA PlaceAddTask ==
    ASSUME QueueInv, PlaceInv,
           NEW c \in Callers, NEW t \in Tasks, NEW i \in Indices, AddTask(c, t, i)
    PROVE  PlaceInv'
<1>1. t \in fresh /\ fresh' = fresh \ {t} /\ accepted' = accepted /\ call[c].at # "lock"
  BY DEF AddTask, MayCall, Idle
<1>2. \A d \in Callers : d # c => call'[d] = call[d]
  BY DEF AddTask, QueueInv, TypeOK
<1>3. call'[c] = call[c] \/ (call'[c].at = "lock" /\ call'[c].task = t)
  BY DEF AddTask, QueueInv, TypeOK
<1>4. \A w \in Workers : ~InSeq(t, accepted[w])
  BY <1>1 DEF PlaceInv, Separate, InSeq
<1>5. Separate'
  <2>1. \A w \in Workers : \A k \in 1 .. Len(accepted'[w]) : accepted'[w][k] \notin fresh'
    BY <1>1 DEF PlaceInv, Separate
  <2>2. ASSUME NEW d \in Callers, call'[d].at = "lock"
        PROVE  /\ call'[d].task \notin fresh'
               /\ \A w \in Workers : ~InSeq(call'[d].task, accepted'[w])
    <3>1. CASE d = c
      BY <1>1, <1>3, <1>4, <2>2, <3>1 DEF InSeq
    <3>2. CASE d # c
      BY <1>1, <1>2, <2>2, <3>2 DEF PlaceInv, Separate, InSeq
    <3> QED
      BY <3>1, <3>2
  <2>3. ASSUME NEW d \in Callers, NEW e \in Callers,
               call'[d].at = "lock", call'[e].at = "lock", call'[e].task = call'[d].task
        PROVE  d = e
    <3>1. \A f \in Callers : f # c /\ call'[f].at = "lock" => call'[f].task # t
      BY <1>1, <1>2 DEF PlaceInv, Separate
    <3>2. CASE d # c /\ e # c
      BY <1>2, <2>3, <3>2 DEF PlaceInv, Separate
    <3>3. CASE d = c \/ e = c
      BY <1>1, <1>3, <2>3, <3>1, <3>3
    <3> QED
      BY <3>2, <3>3
  <2> QED
    BY <2>1, <2>2, <2>3 DEF Separate
<1>6. AcceptedOnce'
  BY <1>1 DEF PlaceInv, AcceptedOnce
<1>7. RoamingPlaced'
  <2> SUFFICES ASSUME PoolSize > 1, NEW r \in roaming'
               PROVE  \/ \E d \in Callers : call'[d].at = "lock" /\ call'[d].task = r
                                            /\ call'[d].index # METRICS_MANAGER_THREAD
                      \/ \E w \in Workers \ {METRICS_MANAGER_THREAD} : InSeq(r, accepted'[w])
    BY DEF RoamingPlaced, InSeq
  <2>1. CASE r \in roaming
    BY <1>1, <1>2, <2>1 DEF PlaceInv, RoamingPlaced, InSeq
  <2>2. CASE r \notin roaming
    <3>1. r = t /\ i = RANDOM_THREAD
      BY <2>2 DEF AddTask
    <3>2. \E k \in RandomIndex :
             call' = IF k \in Workers
                     THEN [call EXCEPT ![c] = [at |-> "lock", task |-> t, index |-> k]]
                     ELSE call
      BY <3>1 DEF AddTask
    <3>3. PICK k \in 1 .. PoolSize - 1 :
             call' = IF k \in Workers
                     THEN [call EXCEPT ![c] = [at |-> "lock", task |-> t, index |-> k]]
                     ELSE call
      BY <3>2 DEF RandomIndex, METRICS_MANAGER_THREAD
    <3>4. k \in Workers /\ k # METRICS_MANAGER_THREAD
      BY PoolSizeAssumption DEF Workers, METRICS_MANAGER_THREAD
    <3>5. call'[c] = [at |-> "lock", task |-> t, index |-> k]
      BY <3>3, <3>4 DEF QueueInv, TypeOK
    <3> QED
      BY <3>1, <3>4, <3>5
  <2> QED
    BY <2>1, <2>2
<1> QED
  BY <1>5, <1>6, <1>7 DEF PlaceInv

(* A push puts the task of its call in one place only: lines 43-44.        *)
LEMMA PlacePush ==
    ASSUME QueueInv, PlaceInv, NEW c \in Callers, Push(c)
    PROVE  PlaceInv'
<1> DEFINE w == call[c].index
           t == call[c].task
<1>1. call[c].at = "lock" /\ t \in Tasks /\ w \in Workers
  BY DEF QueueInv, TypeOK, Calls, NoCall, Idle, Push
<1>2. /\ accepted' = [accepted EXCEPT ![w] = Append(accepted[w], t)]
      /\ call' = [call EXCEPT ![c].at = "locked"]
      /\ UNCHANGED <<fresh, roaming>>
  BY DEF Push
<1>3. \A v \in Workers : accepted[v] \in Seq(Tasks)
  BY DEF QueueInv, TypeOK
<1>4. /\ Len(accepted'[w]) = Len(accepted[w]) + 1 /\ Len(accepted[w]) \in Nat
      /\ accepted'[w][Len(accepted[w]) + 1] = t
      /\ \A k \in 1 .. Len(accepted[w]) : accepted'[w][k] = accepted[w][k]
  <2>1. accepted'[w] = Append(accepted[w], t)
    BY <1>1, <1>2 DEF QueueInv, TypeOK
  <2>2. accepted[w] \in Seq(Tasks)
    BY <1>1, <1>3
  <2> HIDE DEF w, t
  <2> QED
    BY <1>1, <2>1, <2>2, AppendProperties, LenProperties
<1>5. \A v \in Workers : v # w => accepted'[v] = accepted[v]
  BY <1>1, <1>2 DEF QueueInv, TypeOK
<1>6. /\ \A d \in Callers : d # c => call'[d] = call[d]
      /\ call'[c].at # "lock"
  <2>1. call[c] \in [at : {"lock", "locked"}, task : Tasks, index : Workers]
    BY <1>1 DEF QueueInv, TypeOK, Calls, NoCall, Idle
  <2> QED
    BY <1>2, <2>1 DEF QueueInv, TypeOK
<1>7. /\ t \notin fresh
      /\ \A v \in Workers : \A k \in 1 .. Len(accepted[v]) : accepted[v][k] # t
      /\ \A d \in Callers : call[d].at = "lock" /\ d # c => call[d].task # t
  BY <1>1 DEF PlaceInv, Separate, InSeq
<1>8. ASSUME NEW v \in Workers, NEW k \in 1 .. Len(accepted'[v])
      PROVE  \/ v = w /\ k = Len(accepted[w]) + 1 /\ accepted'[v][k] = t
             \/ k \in 1 .. Len(accepted[v]) /\ accepted'[v][k] = accepted[v][k]
  <2>1. CASE v = w
    BY <1>4, <2>1
  <2>2. CASE v # w
    BY <1>5, <2>2
  <2> QED
    BY <2>1, <2>2
<1> HIDE DEF w, t
<1>9. Separate'
  <2>1. \A v \in Workers : \A k \in 1 .. Len(accepted'[v]) : accepted'[v][k] \notin fresh'
    BY <1>2, <1>7, <1>8 DEF PlaceInv, Separate
  <2>2. ASSUME NEW d \in Callers, call'[d].at = "lock"
        PROVE  /\ call'[d].task \notin fresh'
               /\ \A v \in Workers : ~InSeq(call'[d].task, accepted'[v])
               /\ \A e \in Callers :
                     call'[e].at = "lock" /\ call'[e].task = call'[d].task => d = e
    <3>1. d # c /\ call'[d] = call[d] /\ call[d].task # t
      BY <1>6, <1>7, <2>2
    <3>2. \A v \in Workers : ~InSeq(call[d].task, accepted'[v])
      BY <1>8, <2>2, <3>1 DEF PlaceInv, Separate, InSeq
    <3>3. \A e \in Callers : call'[e].at = "lock" => call'[e] = call[e]
      BY <1>6
    <3> QED
      BY <1>2, <2>2, <3>1, <3>2, <3>3 DEF PlaceInv, Separate
  <2> QED
    BY <2>1, <2>2 DEF Separate
<1>10. AcceptedOnce'
  <2> SUFFICES ASSUME NEW u \in Workers, NEW v \in Workers,
                      NEW i \in 1 .. Len(accepted'[u]), NEW j \in 1 .. Len(accepted'[v]),
                      accepted'[u][i] = accepted'[v][j]
               PROVE  u = v /\ i = j
    BY DEF AcceptedOnce
  <2>1. \/ u = w /\ i = Len(accepted[w]) + 1 /\ accepted'[u][i] = t
        \/ i \in 1 .. Len(accepted[u]) /\ accepted'[u][i] = accepted[u][i]
    BY <1>8
  <2>2. \/ v = w /\ j = Len(accepted[w]) + 1 /\ accepted'[v][j] = t
        \/ j \in 1 .. Len(accepted[v]) /\ accepted'[v][j] = accepted[v][j]
    BY <1>8
  <2> QED
    BY <1>7, <2>1, <2>2 DEF PlaceInv, AcceptedOnce
<1>11. RoamingPlaced'
  <2> SUFFICES ASSUME PoolSize > 1, NEW r \in roaming
               PROVE  \/ \E d \in Callers : call'[d].at = "lock" /\ call'[d].task = r
                                            /\ call'[d].index # METRICS_MANAGER_THREAD
                      \/ \E v \in Workers \ {METRICS_MANAGER_THREAD} : InSeq(r, accepted'[v])
    BY <1>2 DEF RoamingPlaced, InSeq
  <2>1. CASE \E v \in Workers \ {METRICS_MANAGER_THREAD} : InSeq(r, accepted[v])
    <3>1. PICK v \in Workers \ {METRICS_MANAGER_THREAD} : InSeq(r, accepted[v])
      BY <2>1
    <3>2. PICK k \in 1 .. Len(accepted[v]) : accepted[v][k] = r
      BY <3>1 DEF InSeq
    <3>3. k \in 1 .. Len(accepted'[v]) /\ accepted'[v][k] = r
      BY <1>4, <1>5, <3>2
    <3> QED
      BY <3>3 DEF InSeq
  <2>2. CASE \E d \in Callers : call[d].at = "lock" /\ call[d].task = r
                                /\ call[d].index # METRICS_MANAGER_THREAD
    <3>1. PICK d \in Callers : call[d].at = "lock" /\ call[d].task = r
                               /\ call[d].index # METRICS_MANAGER_THREAD
      BY <2>2
    <3>2. CASE d = c
      <4>1. r = t /\ w # METRICS_MANAGER_THREAD
        BY <3>1, <3>2 DEF w, t
      <4>2. InSeq(r, accepted'[w])
        BY <1>4, <4>1 DEF InSeq
      <4> QED
        BY <1>1, <4>1, <4>2
    <3>3. CASE d # c
      BY <1>6, <3>1, <3>3
    <3> QED
      BY <3>2, <3>3
  <2> QED
    BY <2>1, <2>2 DEF PlaceInv, RoamingPlaced
<1> QED
  BY <1>9, <1>10, <1>11 DEF PlaceInv

(* Every step keeps the places of the tasks apart.                         *)
LEMMA PlaceNext == QueueInv /\ PlaceInv /\ [Next]_vars => PlaceInv'
<1> SUFFICES ASSUME QueueInv, PlaceInv, [Next]_vars PROVE PlaceInv'
  OBVIOUS
<1>1. ASSUME NEW c \in Callers, NEW t \in Tasks, NEW i \in Indices, AddTask(c, t, i)
      PROVE  PlaceInv'
  BY <1>1, PlaceAddTask
<1>2. ASSUME NEW c \in Callers, Push(c) PROVE PlaceInv'
  BY <1>2, PlacePush
<1>3. ASSUME NEW c \in Callers, Notify(c) PROVE PlaceInv'
  <2>1. \A d \in Callers : call'[d] = call[d] \/ (call[d].at # "lock" /\ call'[d].at # "lock")
    BY <1>3 DEF Notify, QueueInv, TypeOK, NoCall, Idle
  <2> QED
    BY <1>3, <2>1, PlaceFrame DEF Notify, history
<1>4. CASE \/ \E w \in Workers : Spawn(w) \/ ThreadFunction(w) \/ WakeSpuriously(w)
           \/ Stop \/ Close \/ Join \/ UNCHANGED vars
  <2>1. UNCHANGED <<fresh, roaming, accepted, call>>
    BY <1>4 DEF Spawn, ThreadFunction, TestLoop, TestPredicate, FallAsleep, CheckTask, Take,
                Finish, Leave, WakeSpuriously, Stop, Close, Join, vars, state, history
  <2> QED
    BY <2>1, PlaceFrame
<1> QED
  BY <1>1, <1>2, <1>3, <1>4 DEF Next

(* Nothing has been submitted when the pool is built.                      *)
LEMMA PlaceInit == Init => PlaceInv
<1> SUFFICES ASSUME Init PROVE PlaceInv
  OBVIOUS
<1>1. \A w \in Workers : Len(accepted[w]) = 0
  BY DEF Init
<1>2. \A c \in Callers : call[c].at # "lock"
  BY DEF Init, NoCall, Idle
<1> QED
  BY <1>1, <1>2 DEF Init, PlaceInv, Separate, AcceptedOnce, RoamingPlaced, InSeq

(* No task is queued twice, and with two threads or more a task for "any   *)
(* thread" reaches the queue of a thread other than the metrics thread.    *)
THEOREM PlacesCorrect == Spec => [](AcceptedOnce /\ RoamingPlaced)
<1>1. Init => QueueInv /\ PlaceInv
  BY QueueInit, PlaceInit
<1>2. QueueInv /\ PlaceInv /\ [Next]_vars => (QueueInv /\ PlaceInv)'
  BY QueueNext, PlaceNext
<1>3. PlaceInv => AcceptedOnce /\ RoamingPlaced
  BY DEF PlaceInv
<1> QED
  BY <1>1, <1>2, <1>3, PTL DEF Spec

(* With two threads or more, a task for "any thread" is in the queue of a  *)
(* thread other than the metrics thread (lines 34-40 of ThreadManager.h).  *)
THEOREM RoamersPlaced == Spec => []RoamingPlaced
  BY PlacesCorrect, PTL

-----------------------------------------------------------------------------
(* Refinement.                                                             *)
(* What is in neither of two sequences is not in their concatenation.      *)
LEMMA InNeither ==
    ASSUME NEW S, NEW b \in Seq(S), NEW q \in Seq(S), NEW t, ~InSeq(t, b \o q)
    PROVE  ~InSeq(t, b) /\ ~InSeq(t, q)
<1>1. Len(b) \in Nat /\ Len(q) \in Nat
  BY LenProperties
<1>2. Len(b \o q) = Len(b) + Len(q)
  BY ConcatProperties
<1>3. ASSUME NEW i \in 1 .. Len(b) PROVE b[i] # t
  <2>1. i \in 1 .. Len(b \o q) /\ i <= Len(b)
    BY <1>1, <1>2
  <2>2. (b \o q)[i] = b[i]
    BY <1>1, <1>2, <2>1, ConcatProperties
  <2> QED
    BY <2>1, <2>2 DEF InSeq
<1>4. ASSUME NEW i \in 1 .. Len(q) PROVE q[i] # t
  <2>1. Len(b) + i \in 1 .. Len(b \o q) /\ ~(Len(b) + i <= Len(b))
    BY <1>1, <1>2
  <2>2. (b \o q)[Len(b) + i] = q[i]
    BY <1>1, <1>2, <2>1, ConcatProperties
  <2> QED
    BY <2>1, <2>2 DEF InSeq
<1> QED
  BY <1>3, <1>4 DEF InSeq

(* A task about to be pushed is in no queue and in no record of begun ones. *)
LEMMA NotQueued ==
    ASSUME QueueInv, PlaceInv, NEW c \in Callers, call[c].at = "lock", NEW v \in Workers
    PROVE  ~InSeq(call[c].task, begun[v]) /\ ~InSeq(call[c].task, tasks[v])
<1>1. begun[v] \in Seq(Tasks) /\ tasks[v] \in Seq(Tasks)
  BY DEF QueueInv, TypeOK
<1>2. ~InSeq(call[c].task, begun[v] \o tasks[v])
  BY DEF QueueInv, Fifo, PlaceInv, Separate
<1> QED
  BY <1>1, <1>2, InNeither

(* The pool as it is built is the abstract pool as it begins.              *)
LEMMA PoolInit == Init => Pool!Init
BY DEF Init, Pool!Init, Workers, Pool!Workers

(* A step of the pool is a step of the abstract pool, or none.             *)
LEMMA PoolNext ==
    ASSUME QueueInv, PlaceInv, LateLeaves, [Next]_vars
    PROVE  [Pool!Next]_(Pool!vars)
<1>1. ASSUME NEW c \in Callers, NEW t \in Tasks, NEW i \in Indices, AddTask(c, t, i)
      PROVE  Pool!Submit(t)
  BY <1>1 DEF AddTask, Pool!Submit
<1>2. ASSUME NEW c \in Callers, Push(c)
      PROVE  \E t \in Tasks : \E w \in Workers : Pool!Accept(t, w)
  <2> DEFINE w == call[c].index
             t == call[c].task
  <2>1. t \in Tasks /\ w \in Workers /\ call[c].at = "lock"
    BY <1>2 DEF QueueInv, TypeOK, Calls, NoCall, Idle, Push
  <2>2. t \notin fresh
    BY <2>1 DEF PlaceInv, Separate
  <2>3. \A v \in Workers : /\ \A i \in 1 .. Len(tasks[v]) : tasks[v][i] # t
                           /\ \A i \in 1 .. Len(begun[v]) : begun[v][i] # t
    BY <2>1, NotQueued DEF InSeq
  <2>4. tasks' = [tasks EXCEPT ![w] = Append(tasks[w], t)]
        /\ UNCHANGED <<fresh, begun, should_stop, late>>
    BY <1>2 DEF Push
  <2>5. Pool!Accept(t, w)
    BY <2>2, <2>3, <2>4 DEF Pool!Accept, Workers, Pool!Workers
  <2> QED
    BY <2>1, <2>5
<1>3. ASSUME NEW w \in Workers, Take(w) PROVE Pool!Begin(w)
  <2>1. pc[w] = "lockTasks"
    BY <1>3 DEF Take, Goto
  <2>2. tasks[w] # <<>>
    BY <2>1 DEF QueueInv, FrontExists
  <2>3. late[w] = 0
    <3>1. late[w] \in Nat
      BY DEF QueueInv, TypeOK
    <3>2. ~(late[w] > 0)
      BY <2>1 DEF LateLeaves
    <3> QED
      BY <3>1, <3>2
  <2> QED
    BY <1>3, <2>2, <2>3 DEF Take, Pool!Begin
<1>4. ASSUME Stop PROVE Pool!Stop
  BY <1>4 DEF Stop, Pool!Stop, history
<1>5. ASSUME NEW w \in Workers,
             Spawn(w) \/ TestLoop(w) \/ TestPredicate(w) \/ FallAsleep(w) \/ CheckTask(w)
             \/ Finish(w) \/ Leave(w) \/ WakeSpuriously(w)
      PROVE  UNCHANGED Pool!vars
  BY <1>5 DEF Spawn, TestLoop, TestPredicate, FallAsleep, CheckTask, Finish, Leave,
              WakeSpuriously, history, Pool!vars
<1>6. ASSUME NEW c \in Callers, Notify(c) PROVE UNCHANGED Pool!vars
  BY <1>6 DEF Notify, history, Pool!vars
<1>7. CASE Close \/ Join \/ UNCHANGED vars
  BY <1>7 DEF Close, Join, vars, state, history, Pool!vars
<1> QED
  BY <1>1, <1>2, <1>3, <1>4, <1>5, <1>6, <1>7
     DEF Next, ThreadFunction, Pool!Next, Workers, Pool!Workers

(* The pool of ThreadManager.h, with its mutexes, notifications and any    *)
(* number of concurrent callers, implements TaskPool: every one of its     *)
(* steps is a step of the abstract queues or leaves them as they are.      *)
THEOREM Implements == Spec => PoolSpec
<1>1. Init => QueueInv /\ PlaceInv /\ LateLeaves
  <2>1. Init => LateLeaves
    BY DEF Init, LateLeaves
  <2> QED
    BY <2>1, QueueInit, PlaceInit
<1>2. QueueInv /\ PlaceInv /\ LateLeaves /\ [Next]_vars => (QueueInv /\ PlaceInv /\ LateLeaves)'
  BY QueueNext, PlaceNext, LateNext
<1>3. QueueInv /\ PlaceInv /\ LateLeaves /\ [Next]_vars => [Pool!Next]_(Pool!vars)
  BY PoolNext
<1> QED
  BY <1>1, <1>2, <1>3, PoolInit, PTL DEF Spec, PoolSpec, Pool!Spec

-----------------------------------------------------------------------------
(* The end of the pool, step by step.                                      *)

(* The main thread calls, stops and destroys what it has built.            *)
BuiltInv ==
    /\ should_stop \/ closing => Built
    /\ call[Main].at # Idle => Built

(* Threads do not become unborn, and nobody stops or calls before all are  *)
(* started: GetInstance returns when the constructor has (lines 19-22).    *)
LEMMA BuiltNext == QueueInv /\ BuiltInv /\ [Next]_vars => BuiltInv'
<1> SUFFICES ASSUME QueueInv, BuiltInv, [Next]_vars PROVE BuiltInv'
  OBVIOUS
<1>0. pc \in [Workers -> Places] /\ call \in [Callers -> Calls] /\ Main \in Callers
  BY DEF QueueInv, TypeOK, Callers
<1>1. ASSUME NEW w \in Workers, Spawn(w) \/ ThreadFunction(w) \/ WakeSpuriously(w)
      PROVE  (Built => Built') /\ UNCHANGED <<should_stop, closing, call>>
  <2>1. CASE Spawn(w) \/ TestLoop(w) \/ TestPredicate(w) \/ FallAsleep(w) \/ CheckTask(w)
             \/ WakeSpuriously(w)
    BY <1>0, <2>1 DEF Spawn, TestLoop, TestPredicate, FallAsleep, CheckTask, WakeSpuriously,
                      Goto, Built
  <2>2. CASE Take(w) \/ Finish(w)
    BY <1>0, <2>2 DEF Take, Finish, Goto, Built
  <2>3. CASE Leave(w)
    BY <1>0, <2>3 DEF Leave, NotifyAll, Built
  <2> QED
    BY <1>1, <2>1, <2>2, <2>3 DEF ThreadFunction
<1>2. ASSUME NEW c \in Callers, NEW t \in Tasks, NEW i \in Indices, AddTask(c, t, i)
      PROVE  BuiltInv'
  <2>1. UNCHANGED <<pc, should_stop, closing>> /\ (c = Main => Built)
        /\ \A d \in Callers : d # c => call'[d] = call[d]
    BY <1>0, <1>2 DEF AddTask, MayCall
  <2> QED
    BY <1>0, <2>1 DEF BuiltInv, Built
<1>3. ASSUME NEW c \in Callers, Push(c) PROVE BuiltInv'
  <2>1. UNCHANGED <<pc, should_stop, closing>> /\ call[c].at # Idle
        /\ \A d \in Callers : d # c => call'[d] = call[d]
    BY <1>0, <1>3 DEF Push, Idle
  <2> QED
    BY <1>0, <2>1 DEF BuiltInv, Built
<1>4. ASSUME NEW c \in Callers, Notify(c) PROVE BuiltInv'
  <2>1. UNCHANGED <<should_stop, closing>> /\ call[c].at # Idle
        /\ \A d \in Callers : d # c => call'[d] = call[d]
    BY <1>0, <1>4 DEF Notify, Idle, history
  <2>2. Built => Built'
    BY <1>0, <1>4 DEF Notify, NotifyAll, Built
  <2> QED
    BY <1>0, <2>1, <2>2 DEF BuiltInv
<1>5. CASE Stop \/ Close \/ Join \/ UNCHANGED vars
  BY <1>5 DEF Stop, Close, Join, vars, state, BuiltInv, Built
<1> QED
  BY <1>1, <1>2, <1>3, <1>4, <1>5 DEF Next, BuiltInv

(* The edges of ThreadFunction that are left when the pool is stopped.     *)
EdgesDown ==
    {<<"while", "leave">>, <<"predicate", "check">>, <<"block", "asleep">>,
     <<"asleep", "predicate">>, <<"check", "while">>, <<"lockTasks", "run">>,
     <<"run", "while">>, <<"leave", "exited">>}

(* Where a step can take a thread of a stopped pool from, and to.          *)
LEMMA StepsDown ==
    ASSUME QueueInv, BuiltInv, [Next]_vars, should_stop, NEW w \in Workers, pc'[w] # pc[w]
    PROVE  StepsLeft(pc'[w]) < StepsLeft(pc[w])
<1>0. pc \in [Workers -> Places] /\ pc[w] # "unborn"
  BY DEF QueueInv, TypeOK, BuiltInv, Built
<1>1. ASSUME NEW v \in Workers, Spawn(v) \/ ThreadFunction(v) \/ WakeSpuriously(v)
      PROVE  <<pc[w], pc'[w]>> \in EdgesDown
  <2>1. CASE TestLoop(v) \/ TestPredicate(v) \/ FallAsleep(v) \/ CheckTask(v)
             \/ WakeSpuriously(v)
    BY <1>0, <2>1 DEF TestLoop, TestPredicate, FallAsleep, CheckTask, WakeSpuriously, Goto, EdgesDown
  <2>2. CASE Take(v) \/ Finish(v)
    BY <1>0, <2>2 DEF Take, Finish, Goto, EdgesDown
  <2>3. CASE Leave(v)
    BY <1>0, <2>3 DEF Leave, NotifyAll, EdgesDown
  <2>4. CASE Spawn(v)
    BY <1>0, <2>4 DEF Spawn
  <2> QED
    BY <1>1, <2>1, <2>2, <2>3, <2>4 DEF ThreadFunction
<1>2. ASSUME NEW c \in Callers, Notify(c)
      PROVE  <<pc[w], pc'[w]>> \in EdgesDown
  BY <1>0, <1>2 DEF Notify, NotifyAll, EdgesDown
<1>3. ASSUME \/ \E c \in Callers : Push(c) \/ \E t \in Tasks, i \in Indices : AddTask(c, t, i)
             \/ Stop \/ Close \/ Join \/ UNCHANGED vars
      PROVE  FALSE
  BY <1>3 DEF AddTask, Push, Stop, Close, Join, vars, state
<1>4. /\ StepsLeft("block") = 6 /\ StepsLeft("asleep") = 5 /\ StepsLeft("predicate") = 4
      /\ StepsLeft("lockTasks") = 4 /\ StepsLeft("check") = 3 /\ StepsLeft("run") = 3
      /\ StepsLeft("while") = 2 /\ StepsLeft("leave") = 1 /\ StepsLeft("exited") = 0
  BY DEF StepsLeft
<1>5. <<pc[w], pc'[w]>> \in EdgesDown
  BY <1>1, <1>2, <1>3 DEF Next
<1> QED
  BY <1>4, <1>5 DEF EdgesDown

(* After Stop() no thread goes round its loop again (lines 84-109): every  *)
(* statement of every thread brings it nearer to its end, and at most six  *)
(* are left to it, a task it has decided to take counting as one.          *)
THEOREM WindsDown == Spec => StopWindsDown
<1>1. Init => QueueInv /\ BuiltInv
  BY QueueInit DEF Init, BuiltInv, NoCall, Callers
<1>2. QueueInv /\ BuiltInv /\ [Next]_vars => (QueueInv /\ BuiltInv)'
  BY QueueNext, BuiltNext
<1>3. QueueInv /\ BuiltInv /\ [Next]_vars
      => [should_stop =>
             \A w \in Workers : pc'[w] # pc[w] => StepsLeft(pc'[w]) < StepsLeft(pc[w])]_vars
  BY StepsDown
<1> QED
  BY <1>1, <1>2, <1>3, PTL DEF Spec, StopWindsDown

-----------------------------------------------------------------------------
(* The lost wake-up.                                                       *)
LEMMA StrandedStep ==
    ASSUME QueueInv, [Next]_vars, NEW w \in Workers, ~Stranded(w), Stranded(w)'
    PROVE  pc[w] = "block"
<1>0. pc \in [Workers -> Places] /\ tasks \in [Workers -> Seq(Tasks)]
      /\ call \in [Callers -> Calls]
  BY DEF QueueInv, TypeOK
<1>1. pc'[w] = "asleep" /\ tasks'[w] # <<>> /\ \A c \in Callers : call'[c].at # "locked"
  BY DEF Stranded
<1>2. ASSUME NEW v \in Workers, Spawn(v) \/ ThreadFunction(v) \/ WakeSpuriously(v)
      PROVE  pc[w] = "block"
  <2>1. CASE Spawn(v) \/ TestLoop(v) \/ TestPredicate(v) \/ FallAsleep(v) \/ CheckTask(v)
             \/ WakeSpuriously(v) \/ Finish(v)
    <3>1. UNCHANGED <<tasks, call>>
      BY <2>1 DEF Spawn, TestLoop, TestPredicate, FallAsleep, CheckTask, WakeSpuriously, Finish
    <3>2. pc[w] # "asleep"
      BY <1>1, <3>1 DEF Stranded
    <3> QED
      BY <1>0, <1>1, <2>1, <3>2 DEF Spawn, TestLoop, TestPredicate, FallAsleep, CheckTask,
                              WakeSpuriously, Finish, Goto
  <2>2. CASE Take(v)
    <3>1. v # w /\ pc[w] = "asleep"
      BY <1>0, <1>1, <2>2 DEF Take, Goto
    <3>2. tasks'[w] = tasks[w] /\ call' = call
      BY <1>0, <2>2, <3>1 DEF Take
    <3> QED
      BY <1>1, <3>1, <3>2 DEF Stranded
  <2>3. CASE Leave(v)
    BY <1>0, <1>1, <2>3 DEF Leave, NotifyAll
  <2> QED
    BY <1>2, <2>1, <2>2, <2>3 DEF ThreadFunction
<1>3. ASSUME NEW c \in Callers, Notify(c) PROVE FALSE
  BY <1>0, <1>1, <1>3 DEF Notify, NotifyAll
<1>4. ASSUME NEW c \in Callers, Push(c) PROVE FALSE
  <2>1. call'[c].at = "locked"
    BY <1>0, <1>4 DEF Push, Calls
  <2> QED
    BY <1>1, <2>1
<1>5. ASSUME NEW c \in Callers, NEW t \in Tasks, NEW i \in Indices, AddTask(c, t, i)
      PROVE  FALSE
  <2>1. call[c].at # "locked" /\ UNCHANGED <<pc, tasks>>
        /\ \A d \in Callers : d # c => call'[d] = call[d]
    BY <1>0, <1>5 DEF AddTask, MayCall, Idle
  <2> QED
    BY <1>1, <2>1 DEF Stranded
<1>6. CASE Stop \/ Close \/ Join \/ UNCHANGED vars
  BY <1>1, <1>6 DEF Stop, Close, Join, vars, state, Stranded
<1> QED
  BY <1>2, <1>3, <1>4, <1>5, <1>6 DEF Next

(* Of all that the threads, the callers and the condition variable do at   *)
(* once, one thing only forgets a thread: it had found its queue empty and *)
(* was about to sleep (line 86) when the task and its notification came.   *)
THEOREM StrandedByWindow == Spec => OnlyWindowStrands
<1>1. QueueInv /\ [Next]_vars
      => [\A w \in Workers : ~Stranded(w) /\ Stranded(w)' => pc[w] = "block"]_vars
  BY StrandedStep
<1>2. Spec => []QueueInv
  BY QueueInit, QueueNext, PTL DEF Spec
<1> QED
  BY <1>1, <1>2, PTL DEF Spec, OnlyWindowStrands

-----------------------------------------------------------------------------
(* The life of the pool.                                                   *)

(* The places of ThreadFunction as PoolLife sees them.                     *)
LEMMA LifePlaces ==
    /\ \A p \in {"unborn", "while", "predicate", "block", "asleep", "check"} :
          LifePlace(p) = "waits"
    /\ LifePlace("lockTasks") = "takes" /\ LifePlace("run") = "runs"
    /\ LifePlace("leave") = "left" /\ LifePlace("exited") = "left"
BY DEF LifePlace

(* A thread that has not ended, or a call, keeps the pool up: the destructor *)
(* is still to join it, or to begin.                                       *)
LEMMA UpWhile ==
    ASSUME QueueInv, EndInv, BuiltInv
    PROVE  /\ \A w \in Workers : pc[w] \notin {"unborn", "exited"} => LifeUp
           /\ \A c \in Callers, w \in Workers : call[c].at # Idle => LifeUp
           /\ \A w \in Workers : pc[w] = "unborn" => ~closing
<1>1. ASSUME NEW w \in Workers, pc[w] \notin {"unborn", "exited"} PROVE LifeUp
  <2>1. ~(w < joined) /\ w < PoolSize
    BY <1>1, PoolSizeAssumption DEF EndInv, JoinedEnded, Workers
  <2> QED
    BY <1>1, <2>1 DEF LifeUp, Began, Ended
<1>2. ASSUME NEW c \in Callers, NEW w \in Workers, call[c].at # Idle PROVE LifeUp
  <2>1. CASE c = Main
    BY <1>2, <2>1 DEF EndInv, CallersLive, BuiltInv, Built, LifeUp, Began, Ended
  <2>2. CASE c \in Workers
    BY <1>1, <1>2, <2>2 DEF EndInv, CallersLive
  <2> QED
    BY <2>1, <2>2 DEF Callers
<1>3. \A w \in Workers : pc[w] = "unborn" => ~closing
  BY DEF BuiltInv, Built
<1> QED
  BY <1>1, <1>2, <1>3

(* A thread w that moves from p to q on its way, while the others keep     *)
(* their places or wake up.                                                *)
Moved(w) ==
    /\ Began /\ Began' /\ UNCHANGED <<closing, joined>>
    /\ \A v \in Workers : v # w => LifePlace(pc'[v]) = LifePlace(pc[v])

LEMMA MovedIs ==
    ASSUME NEW w \in Workers, Moved(w)
    PROVE  /\ LifeUp' = LifeUp
           /\ LifeThread[w] = LifePlace(pc[w])
           /\ LifeThread' = [LifeThread EXCEPT ![w] = LifePlace(pc'[w])]
<1>1. LifeUp' = LifeUp
  BY DEF Moved, LifeUp, Ended
<1>2. LifeThread = [v \in Workers |-> LifePlace(pc[v])]
      /\ LifeThread' = [v \in Workers |-> LifePlace(pc'[v])]
  BY DEF Moved, LifeThread
<1> QED
  BY <1>1, <1>2 DEF Moved

(* Every step of one thread is a move of that thread.                      *)
LEMMA ThreadMoves ==
    ASSUME QueueInv, NEW w \in Workers, ThreadFunction(w) \/ WakeSpuriously(w)
    PROVE  Moved(w)
<1>0. pc \in [Workers -> Places]
  BY DEF QueueInv, TypeOK
<1>1. CASE TestLoop(w) \/ TestPredicate(w) \/ FallAsleep(w) \/ CheckTask(w)
           \/ WakeSpuriously(w)
  BY <1>0, <1>1 DEF TestLoop, TestPredicate, FallAsleep, CheckTask, WakeSpuriously, Goto,
                    Moved, Began
<1>2. CASE Take(w) \/ Finish(w)
  BY <1>0, <1>2 DEF Take, Finish, Goto, Moved, Began
<1>3. CASE Leave(w)
  <2>1. \A v \in Workers : v # w => pc'[v] = pc[v] \/ (pc[v] = "asleep" /\ pc'[v] = "predicate")
    BY <1>0, <1>3 DEF Leave, NotifyAll
  <2>2. pc[w] = "leave" /\ pc'[w] = "exited" /\ UNCHANGED <<closing, joined>>
    BY <1>0, <1>3 DEF Leave, NotifyAll
  <2> QED
    BY <2>1, <2>2, LifePlaces DEF Moved, Began
<1> QED
  BY <1>1, <1>2, <1>3 DEF ThreadFunction

(* A step of ThreadFunction is one of PoolLife, or none.                   *)
LEMMA ThreadLives ==
    ASSUME QueueInv, EndInv, BuiltInv, NEW w \in Workers,
           ThreadFunction(w) \/ WakeSpuriously(w)
    PROVE  Life!Decide(w) \/ Life!Take(w) \/ Life!Return(w) \/ Life!LeaveLoop(w)
           \/ UNCHANGED Life!vars
<1>0. pc \in [Workers -> Places] /\ pc[w] # "unborn"
  <2>1. pc \in [Workers -> Places]
    BY DEF QueueInv, TypeOK
  <2>2. pc[w] # "unborn"
    BY DEF ThreadFunction, TestLoop, TestPredicate, FallAsleep, CheckTask, Take, Finish, Leave,
           WakeSpuriously, Goto
  <2> QED
    BY <2>1, <2>2
<1>1. /\ LifeUp' = LifeUp /\ LifeThread[w] = LifePlace(pc[w])
      /\ LifeThread' = [LifeThread EXCEPT ![w] = LifePlace(pc'[w])]
  BY ThreadMoves, MovedIs
<1>2. pc[w] # "exited" => LifeUp
  BY <1>0, UpWhile
<1>3. LifeThread \in [Workers -> {LifePlace(pc[v]) : v \in Workers} \cup {"none"}]
  BY DEF LifeThread
<1>4. ASSUME LifePlace(pc'[w]) = LifePlace(pc[w]), UNCHANGED <<tasks, should_stop>>
      PROVE  UNCHANGED Life!vars
  <2>1. LifeThread' = LifeThread
    BY <1>1, <1>3, <1>4
  <2> QED
    BY <1>1, <1>4, <2>1 DEF Life!vars
<1>5. CASE TestLoop(w)
  <2>1. pc[w] = "while" /\ pc'[w] = (IF should_stop THEN "leave" ELSE "predicate")
        /\ UNCHANGED <<tasks, should_stop>>
    BY <1>0, <1>5 DEF TestLoop, Goto
  <2>2. CASE should_stop
    <3>1. LifePlace(pc[w]) = "waits" /\ LifePlace(pc'[w]) = "left" /\ LifeUp
      BY <1>2, <2>1, <2>2, LifePlaces
    <3> QED
      BY <1>1, <2>1, <2>2, <3>1 DEF Life!LeaveLoop, Life!Becomes
  <2>3. CASE ~should_stop
    BY <1>4, <2>1, <2>3, LifePlaces
  <2> QED
    BY <2>2, <2>3
<1>6. CASE TestPredicate(w) \/ FallAsleep(w) \/ WakeSpuriously(w)
  <2>1. /\ pc[w] \in {"predicate", "block", "asleep"}
        /\ pc'[w] \in {"check", "block", "asleep", "predicate"}
        /\ UNCHANGED <<tasks, should_stop>>
    BY <1>0, <1>6 DEF TestPredicate, FallAsleep, WakeSpuriously, Goto
  <2> QED
    BY <1>4, <2>1, LifePlaces
<1>7. CASE CheckTask(w)
  <2>1. /\ pc[w] = "check" /\ UNCHANGED <<tasks, should_stop>>
        /\ pc'[w] = IF ~should_stop /\ tasks[w] # <<>> THEN "lockTasks" ELSE "while"
    BY <1>0, <1>7 DEF CheckTask, Goto
  <2>2. CASE ~should_stop /\ tasks[w] # <<>>
    <3>1. LifePlace(pc[w]) = "waits" /\ LifePlace(pc'[w]) = "takes" /\ LifeUp
      BY <1>2, <2>1, <2>2, LifePlaces
    <3> QED
      BY <1>1, <2>1, <2>2, <3>1 DEF Life!Decide, Life!Becomes
  <2>3. CASE ~(~should_stop /\ tasks[w] # <<>>)
    BY <1>4, <2>1, <2>3, LifePlaces
  <2> QED
    BY <2>2, <2>3
<1>8. CASE Take(w)
  <2>1. /\ pc[w] = "lockTasks" /\ pc'[w] = "run" /\ should_stop' = should_stop
        /\ tasks' = [tasks EXCEPT ![w] = Tail(@)]
    BY <1>0, <1>8 DEF Take, Goto
  <2>2. tasks[w] # <<>>
    BY <2>1 DEF QueueInv, FrontExists
  <2>3. LifePlace(pc[w]) = "takes" /\ LifePlace(pc'[w]) = "runs" /\ LifeUp
    BY <1>2, <2>1, LifePlaces
  <2> QED
    BY <1>1, <2>1, <2>2, <2>3 DEF Life!Take, Life!Becomes
<1>9. CASE Finish(w)
  <2>1. pc[w] = "run" /\ pc'[w] = "while" /\ UNCHANGED <<tasks, should_stop>>
    BY <1>0, <1>9 DEF Finish, Goto
  <2>2. LifePlace(pc[w]) = "runs" /\ LifePlace(pc'[w]) = "waits" /\ LifeUp
    BY <1>2, <2>1, LifePlaces
  <2> QED
    BY <1>1, <2>1, <2>2 DEF Life!Return, Life!Becomes
<1>10. CASE Leave(w)
  <2>1. pc[w] = "leave" /\ pc'[w] = "exited" /\ UNCHANGED <<tasks, should_stop>>
    BY <1>0, <1>10 DEF Leave, NotifyAll
  <2> QED
    BY <1>4, <2>1, LifePlaces
<1> QED
  BY <1>5, <1>6, <1>7, <1>8, <1>9, <1>10 DEF ThreadFunction

(* The first thread to start is the constructor of PoolLife.               *)
LEMMA SpawnConstructs ==
    ASSUME QueueInv, EndInv, BuiltInv, NEW w \in Workers, Spawn(w)
    PROVE  Life!Construct \/ UNCHANGED Life!vars
<1>1. /\ pc[w] = "unborn" /\ pc' = [pc EXCEPT ![w] = "while"]
      /\ UNCHANGED <<tasks, should_stop, closing, joined>>
  BY DEF Spawn
<1>2. ~closing /\ pc \in [Workers -> Places]
  BY <1>1, UpWhile DEF QueueInv, TypeOK
<1>3. Began' /\ LifeUp'
  BY <1>1, <1>2 DEF Began, LifeUp, Ended
<1>4. \A v \in Workers : LifePlace(pc'[v]) = LifePlace(pc[v])
  BY <1>1, <1>2, LifePlaces
<1>5. CASE Began
  <2>1. LifeUp /\ LifeThread' = LifeThread
    BY <1>2, <1>3, <1>4, <1>5 DEF LifeUp, Ended, LifeThread
  <2> QED
    BY <1>1, <1>3, <2>1 DEF Life!vars
<1>6. CASE ~Began
  <2>1. ~LifeUp /\ \A v \in Workers : LifeThread[v] = "none"
    BY <1>6 DEF LifeUp, LifeThread
  <2>2. \A v \in Workers : LifePlace(pc[v]) = "waits"
    BY <1>6, LifePlaces DEF Began
  <2>3. LifeThread' = [v \in Workers |-> "waits"]
    BY <1>3, <1>4, <2>2 DEF LifeThread
  <2> QED
    BY <1>1, <1>3, <2>1, <2>3 DEF Life!Construct
<1> QED
  BY <1>5, <1>6

(* A step of the pool is a step of its life, or none.                      *)
LEMMA LifeNext ==
    ASSUME QueueInv, EndInv, BuiltInv, [Next]_vars
    PROVE  [Life!Next]_(Life!vars)
<1>0. pc \in [Workers -> Places]
  BY DEF QueueInv, TypeOK
<1>1. ASSUME NEW w \in Workers, Spawn(w) PROVE [Life!Next]_(Life!vars)
  BY <1>1, SpawnConstructs DEF Life!Next
<1>2. ASSUME NEW w \in Workers, ThreadFunction(w) \/ WakeSpuriously(w)
      PROVE  [Life!Next]_(Life!vars)
  BY <1>2, ThreadLives DEF Life!Next
<1>3. ASSUME UNCHANGED <<pc, closing, joined>>
      PROVE  LifeUp' = LifeUp /\ LifeThread' = LifeThread
  BY <1>3 DEF LifeUp, Began, Ended, LifeThread
<1>4. ASSUME NEW c \in Callers, NEW t \in Tasks, NEW i \in Indices, AddTask(c, t, i)
      PROVE  UNCHANGED Life!vars
  BY <1>3, <1>4 DEF AddTask, Life!vars
<1>5. ASSUME NEW c \in Callers, Push(c) PROVE [Life!Next]_(Life!vars)
  <2> DEFINE w == call[c].index
             t == call[c].task
  <2>1. t \in Tasks /\ w \in Workers /\ call[c].at # Idle
    BY <1>5 DEF QueueInv, TypeOK, Calls, NoCall, Idle, Push
  <2>2. LifeUp
    BY <2>1, UpWhile
  <2>3. tasks' = [tasks EXCEPT ![w] = Append(tasks[w], t)]
        /\ UNCHANGED <<pc, closing, joined, should_stop>>
    BY <1>5 DEF Push
  <2>4. Life!Add(t, w)
    BY <1>3, <2>2, <2>3 DEF Life!Add
  <2> QED
    BY <2>1, <2>4 DEF Life!Next
<1>6. ASSUME NEW c \in Callers, Notify(c) PROVE UNCHANGED Life!vars
  <2>1. \A v \in Workers : pc'[v] = pc[v] \/ (pc[v] = "asleep" /\ pc'[v] = "predicate")
    BY <1>0, <1>6 DEF Notify, NotifyAll
  <2>2. Began' = Began /\ \A v \in Workers : LifePlace(pc'[v]) = LifePlace(pc[v])
    BY <2>1, LifePlaces DEF Began
  <2>3. UNCHANGED <<closing, joined, tasks, should_stop>>
    BY <1>6 DEF Notify
  <2>4. LifeUp' = LifeUp /\ LifeThread' = LifeThread
    BY <2>2, <2>3 DEF LifeUp, Ended, LifeThread
  <2> QED
    BY <2>3, <2>4 DEF Life!vars
<1>7. CASE Stop
  <2>1. UNCHANGED <<pc, closing, joined, tasks>> /\ should_stop' = TRUE
    BY <1>7 DEF Stop
  <2> QED
    BY <1>3, <2>1 DEF Life!Stop, Life!Next
<1>8. CASE Close
  <2>1. UNCHANGED <<pc, joined, tasks, should_stop>> /\ ~closing
    BY <1>8 DEF Close
  <2>2. Began => joined # PoolSize
    BY <2>1, PoolSizeAssumption DEF EndInv, JoinedEnded, Began, Workers, QueueInv, TypeOK
  <2>3. Began' = Began /\ LifeThread' = LifeThread
    BY <2>1 DEF Began, LifeThread
  <2>4. LifeUp' = LifeUp
    BY <2>1, <2>2, <2>3 DEF LifeUp, Ended
  <2> QED
    BY <2>1, <2>3, <2>4 DEF Life!vars
<1>9. CASE Join
  <2>1. /\ closing /\ joined < PoolSize /\ pc[joined] = "exited" /\ joined' = joined + 1
        /\ UNCHANGED <<pc, closing, tasks, should_stop>>
    BY <1>9 DEF Join
  <2>2. joined \in Nat /\ joined \in Workers
    BY <2>1, PoolSizeAssumption DEF QueueInv, TypeOK, Workers
  <2>3. LifeUp /\ Began /\ Began' /\ LifeThread' = LifeThread
    BY <2>1, <2>2, PoolSizeAssumption DEF LifeUp, Began, Ended, LifeThread
  <2>4. CASE joined' = PoolSize
    <3>1. \A w \in Workers : w < joined \/ w = joined
      BY <2>1, <2>2, <2>4, PoolSizeAssumption DEF Workers
    <3>2. \A w \in Workers : pc[w] = "exited"
      BY <2>1, <3>1 DEF EndInv, JoinedEnded
    <3>3. \A w \in Workers : LifeThread[w] = "left"
      BY <2>3, <3>2, LifePlaces DEF LifeThread
    <3>4. LifeUp' = FALSE
      BY <2>1, <2>4 DEF LifeUp, Ended
    <3> QED
      BY <2>1, <2>3, <3>3, <3>4 DEF Life!Destroy, Life!Next
  <2>5. CASE joined' # PoolSize
    <3>1. LifeUp'
      BY <2>1, <2>3, <2>5 DEF LifeUp, Ended
    <3> QED
      BY <2>1, <2>3, <3>1 DEF Life!vars
  <2> QED
    BY <2>4, <2>5
<1>10. CASE UNCHANGED vars
  BY <1>3, <1>10 DEF vars, state, Life!vars
<1> QED
  BY <1>1, <1>2, <1>4, <1>5, <1>6, <1>7, <1>8, <1>9, <1>10 DEF Next

(* The pool of ThreadManager.h, with the statements of its constructor,    *)
(* destructor and threads and with every way of waking up, implements      *)
(* PoolLife: no thread takes what is not there, looks again after Stop()   *)
(* or leaves before it, and the pool goes after the last of them.          *)
THEOREM LivesAsPromised == Spec => LifeSpec
<1>1. Init => QueueInv /\ EndInv /\ BuiltInv
  <2>1. Init => EndInv
    BY PoolSizeAssumption DEF Init, EndInv, RunsOne, CallersLive, JoinedEnded, NoCall, Callers, Workers
  <2>2. Init => BuiltInv
    BY DEF Init, BuiltInv, NoCall, Callers
  <2> QED
    BY <2>1, <2>2, QueueInit
<1>2. QueueInv /\ EndInv /\ BuiltInv /\ [Next]_vars => (QueueInv /\ EndInv /\ BuiltInv)'
  BY QueueNext, EndNext, BuiltNext
<1>3. QueueInv /\ EndInv /\ BuiltInv /\ [Next]_vars => [Life!Next]_(Life!vars)
  BY LifeNext
<1>4. Init => Life!Init
  <2>1. Init => ~Began
    BY DEF Init, Began
  <2> QED
    BY <2>1 DEF Init, Life!Init, LifeUp, LifeThread
<1> QED
  BY <1>1, <1>2, <1>3, <1>4, PTL DEF Spec, LifeSpec, Life!Spec
=============================================================================
