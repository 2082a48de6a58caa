------------------------------ MODULE TaskPool ------------------------------
(***************************************************************************)
(* What the thread pool of ThreadManager.h promises to the code that calls *)
(* AddTaskToThread: every accepted task goes to the queue of one thread,   *)
(* each thread begins the tasks of its own queue one at a time and in the  *)
(* order they were accepted, no task begins twice, and once Stop() has     *)
(* been called a thread begins at most one task more.  Mutexes, the        *)
(* condition variable and the program counters of the threads are left     *)
(* out; ThreadManager.tla has them and is shown to implement this module.  *)
(***************************************************************************)
EXTENDS Integers, Sequences

CONSTANTS
    PoolSize,   \* poolSize: the number of threads of the pool
    Tasks       \* the task objects the program ever makes

Workers == 0 .. PoolSize - 1

VARIABLES
    fresh,      \* tasks no call of AddTaskToThread has been given yet
    queue,      \* for each thread, its accepted tasks that have not begun
    begun,      \* for each thread, the tasks it has begun, in that order
    stopped,    \* Stop() has been called
    late        \* for each thread, the number of tasks begun after Stop()

vars == <<fresh, queue, begun, stopped, late>>

Init ==
    /\ fresh = Tasks
    /\ queue = [w \in Workers |-> <<>>]
    /\ begun = [w \in Workers |-> <<>>]
    /\ stopped = FALSE
    /\ late = [w \in Workers |-> 0]

-----------------------------------------------------------------------------
(* A caller hands a task over; from here on nobody else can submit it.     *)
Submit(t) ==
    /\ t \in fresh
    /\ fresh' = fresh \ {t}
    /\ UNCHANGED <<queue, begun, stopped, late>>

(* A submitted task joins the tail of one thread's queue, once.            *)
Accept(t, w) ==
    /\ t \notin fresh
    /\ \A v \in Workers :
          /\ \A i \in 1 .. Len(queue[v]) : queue[v][i] # t
          /\ \A i \in 1 .. Len(begun[v]) : begun[v][i] # t
    /\ queue' = [queue EXCEPT ![w] = Append(@, t)]
    /\ UNCHANGED <<fresh, begun, stopped, late>>

(* Thread w begins the task at the head of its queue.                      *)
Begin(w) ==
    /\ queue[w] # <<>>
    /\ stopped => late[w] = 0
    /\ begun' = [begun EXCEPT ![w] = Append(@, Head(queue[w]))]
    /\ queue' = [queue EXCEPT ![w] = Tail(@)]
    /\ late' = [late EXCEPT ![w] = IF stopped THEN @ + 1 ELSE @]
    /\ UNCHANGED <<fresh, stopped>>

Stop ==
    /\ ~stopped
    /\ stopped' = TRUE
    /\ UNCHANGED <<fresh, queue, begun, late>>

Next ==
    \/ \E t \in Tasks : Submit(t) \/ \E w \in Workers : Accept(t, w)
    \/ \E w \in Workers : Begin(w)
    \/ Stop

Spec == Init /\ [][Next]_vars
=============================================================================
