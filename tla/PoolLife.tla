------------------------------ MODULE PoolLife -------------------------------
(***************************************************************************)
(* What the thread pool of ThreadManager.h promises about its beginning    *)
(* and its end: its threads begin with it, one that has looked for a task  *)
(* and found one takes it even if Stop() comes in between, none looks      *)
(* again after Stop(), one leaves only after Stop(), and the pool goes     *)
(* when all have left.  What wakes a thread is left out, and so is who     *)
(* calls.  ThreadManager is shown to implement this module, statement by   *)
(* statement, and so is the pool as Lifecycle has it.                      *)
(***************************************************************************)
EXTENDS Integers, Sequences

CONSTANTS
    Workers,    \* the threads of the pool
    Tasks       \* what AddTaskToThread is given

VARIABLES
    up,         \* the pool lives: between its constructor and the end of its destructor
    thread,     \* thread[w]: where it is in ThreadFunction
    queue,      \* queue[w]: the tasks given to it that it has not taken
    stopped     \* should_stop

vars == <<up, thread, queue, stopped>>

Init ==
    /\ up = FALSE
    /\ thread = [w \in Workers |-> "none"]
    /\ queue = [w \in Workers |-> <<>>]
    /\ stopped = FALSE

-----------------------------------------------------------------------------
Construct ==
    /\ ~up /\ \A w \in Workers : thread[w] = "none"
    /\ up' = TRUE
    /\ thread' = [w \in Workers |-> "waits"]
    /\ UNCHANGED <<queue, stopped>>

(* A task of the pool or the main thread gives a task, also after Stop().  *)
Add(t, w) ==
    /\ up
    /\ queue' = [queue EXCEPT ![w] = Append(@, t)]
    /\ UNCHANGED <<up, thread, stopped>>

Stop ==
    /\ stopped' = TRUE
    /\ UNCHANGED <<up, thread, queue>>

(* The destructor has joined them all.                                     *)
Destroy ==
    /\ up /\ \A w \in Workers : thread[w] = "left"
    /\ up' = FALSE
    /\ UNCHANGED <<thread, queue, stopped>>

(* The process ends, whatever the pool is doing.                           *)
End ==
    /\ up' = FALSE
    /\ thread' = [w \in Workers |-> "none"]
    /\ queue' = [w \in Workers |-> <<>>]
    /\ stopped' = FALSE

-----------------------------------------------------------------------------
Becomes(w, from, to) ==
    /\ up /\ thread[w] = from
    /\ thread' = [thread EXCEPT ![w] = to]
    /\ UNCHANGED <<up, stopped>>

(* The test of line 96 finds a task, and no stop.                          *)
Decide(w) ==
    /\ ~stopped /\ queue[w] # <<>>
    /\ Becomes(w, "waits", "takes")
    /\ UNCHANGED queue

(* The task found is still there, whatever has happened since.             *)
Take(w) ==
    /\ queue[w] # <<>>
    /\ Becomes(w, "takes", "runs")
    /\ queue' = [queue EXCEPT ![w] = Tail(@)]

Return(w) ==
    /\ Becomes(w, "runs", "waits")
    /\ UNCHANGED queue

LeaveLoop(w) ==
    /\ stopped
    /\ Becomes(w, "waits", "left")
    /\ UNCHANGED queue

Next ==
    \/ Construct \/ Stop \/ Destroy \/ End
    \/ \E w \in Workers :
          \/ Decide(w) \/ Take(w) \/ Return(w) \/ LeaveLoop(w)
          \/ \E t \in Tasks : Add(t, w)

Spec == Init /\ [][Next]_vars
=============================================================================
