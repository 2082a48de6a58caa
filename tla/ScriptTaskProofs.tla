--------------------------- MODULE ScriptTaskProofs ---------------------------
(***************************************************************************)
(* Proofs about the mutexes of scripts and the null pointers of tasks, and *)
(* when the condition of InStep and AnswersKept is always met.             *)
(*                                                                         *)
(*   NoMutexKept        a mutex is held from Lock to Unlock and no longer  *)
(*   NullsNeedRequests  a null pointer is met only after a request         *)
(*   NothingAmiss       every statement hits the row it is about, unless   *)
(*                      some name is a column's                            *)
(***************************************************************************)
EXTENDS ScriptManagerProofs

-----------------------------------------------------------------------------
(* Mutexes.                                                                *)
MutexInv == TInv /\ MutexHeldInside

\* Objects keep their owners, and who is inside stays on its object.
LEMMA OwnersStay ==
    ASSUME MutexInv, UNCHANGED <<stage, target>>,
           \A o \in DOMAIN heap' : \/ o \in DOMAIN heap /\ heap'[o].owner = heap[o].owner
                                   \/ heap'[o].owner = Nobody
    PROVE  MutexHeldInside'
BY DEF MutexInv, MutexHeldInside

\* A task takes the mutex of its target when it enters, and gives back that one.
LEMMA TaskKeepsMutexes ==
    ASSUME MutexInv, NEW w \in Workers, ScriptTask(w)
    PROVE  MutexHeldInside'
<1>1. /\ heap \in Seq(Object) /\ DOMAIN heap = 1 .. Len(heap)
      /\ \A o \in DOMAIN heap : heap[o] \in Object
      /\ stage \in [Workers -> Stages] /\ target \in [Workers -> Nat]
      /\ stage[w] # "idle" => target[w] \in DOMAIN heap
  BY DEF MutexInv, TInv, VInv, Types, Targets
<1>2. \A o \in DOMAIN heap : heap[o].owner # Nobody =>
           /\ heap[o].owner \in Workers /\ target[heap[o].owner] = o
           /\ stage[heap[o].owner] \notin {"idle", "lock"}
  BY DEF MutexInv, MutexHeldInside
<1>3. CASE Begin(w)
  <2>1. /\ stage[w] = "idle" /\ heap' = heap /\ stage' = [stage EXCEPT ![w] = "lock"]
        /\ \A v \in Workers : v # w => target'[v] = target[v] /\ stage'[v] = stage[v]
    BY <1>1, <1>3 DEF Begin, Goes
  <2> QED
    BY <1>2, <2>1 DEF MutexHeldInside
<1>4. CASE Lock(w)
  <2>1. /\ stage[w] = "lock" /\ heap' = [heap EXCEPT ![target[w]].owner = w]
        /\ stage' = [stage EXCEPT ![w] = "setup"] /\ target' = target
    BY <1>4 DEF Lock, Goes
  <2>2. /\ target[w] \in DOMAIN heap /\ DOMAIN heap' = DOMAIN heap
        /\ heap'[target[w]].owner = w
        /\ \A o \in DOMAIN heap : o # target[w] => heap'[o].owner = heap[o].owner
    BY <1>1, <2>1 DEF Object
  <2>3. /\ stage'[w] = "setup"
        /\ \A v \in Workers : v # w => stage'[v] = stage[v]
    BY <1>1, <2>1
  <2> QED
    BY <1>2, <2>1, <2>2, <2>3 DEF MutexHeldInside
<1>5. CASE Stopping(w) \/ Call(w)
  <2>1. heap' = heap /\ target' = target /\ \E s \in {"clear", "unlock"} : Goes(w, s)
    BY <1>5 DEF Stopping, Call
  <2>2. \A v \in Workers : stage[v] \notin {"idle", "lock"} => stage'[v] \notin {"idle", "lock"}
    BY <1>1, <2>1 DEF Goes
  <2> QED
    BY <1>2, <2>1, <2>2 DEF MutexHeldInside
<1>6. CASE Setup(w) \/ Clear(w)
  <2>1. PICK c : Deref(w) # Null /\ SetContext(w, c)
    BY <1>6 DEF Setup, Clear
  <2>2. target' = target /\ \E s \in {"call", "unlock"} : Goes(w, s)
    BY <1>6 DEF Setup, Clear
  <2>3. \A v \in Workers : stage[v] \notin {"idle", "lock"} => stage'[v] \notin {"idle", "lock"}
    BY <1>1, <2>2 DEF Goes
  <2>4. Deref(w) \in DOMAIN heap
    BY <2>1, Found DEF Deref, MutexInv, TInv, VInv
  <2>5. /\ DOMAIN heap' = DOMAIN heap
        /\ \A o \in DOMAIN heap : heap'[o].owner = heap[o].owner
    BY <1>1, <2>1, <2>4 DEF SetContext, Object
  <2> QED
    BY <1>2, <2>2, <2>3, <2>5 DEF MutexHeldInside
<1>7. CASE Unlock(w)
  <2>1. /\ stage[w] = "unlock" /\ heap' = [heap EXCEPT ![target[w]].owner = Nobody]
        /\ stage' = [stage EXCEPT ![w] = "idle"] /\ target' = [target EXCEPT ![w] = Null]
    BY <1>7 DEF Unlock, Goes
  <2>2. /\ target[w] \in DOMAIN heap /\ DOMAIN heap' = DOMAIN heap
        /\ heap'[target[w]].owner = Nobody
        /\ \A o \in DOMAIN heap : o # target[w] => heap'[o].owner = heap[o].owner
    BY <1>1, <2>1 DEF Object
  <2>3. \A v \in Workers : v # w => target'[v] = target[v] /\ stage'[v] = stage[v]
    BY <1>1, <2>1
  <2> QED
    BY <1>2, <2>2, <2>3 DEF MutexHeldInside
<1> QED
  BY <1>3, <1>4, <1>5, <1>6, <1>7 DEF ScriptTask

LEMMA NextKeepsMutexes == MutexInv /\ [Next]_vars => MutexInv'
<1> SUFFICES ASSUME MutexInv, [Next]_vars PROVE MutexHeldInside'
  BY NextKeepsTInv DEF MutexInv
<1>1. CASE Crash
  BY <1>1 DEF Crash, MutexHeldInside
<1>2. ASSUME NEW skipped, Initialize(skipped) PROVE MutexHeldInside'
  <2>1. \A o \in DOMAIN heap' : heap'[o].owner = Nobody
    BY <1>2 DEF Initialize, NewScript
  <2> QED
    BY <2>1 DEF MutexHeldInside
<1>3. CASE \/ Stop \/ ConstructorThrows \/ ProcessBegin \/ UNCHANGED vars
           \/ \E op, n, t : Written(op, n, t)
           \/ \E w \in Workers : SubmitScript(w)
  <2>1. UNCHANGED <<heap, stage, target>>
    BY <1>3 DEF Stop, ConstructorThrows, ProcessBegin, SubmitScript, Written, vars, tasks
  <2> QED
    BY <2>1, OwnersStay
<1>4. CASE \/ \E n \in Names, t \in Texts : SaveScript(n, t) \/ UpdateScript(n, t)
           \/ \E n \in Names : DeleteScript(n)
  BY <1>3, <1>4 DEF SaveScript, UpdateScript, DeleteScript
<1>5. CASE EmplaceBack \/ Replace \/ Erase
  <2>1. UNCHANGED <<stage, target>>
    BY <1>5 DEF EmplaceBack, Replace, Erase, Answered, tasks
  <2>2. \A o \in DOMAIN heap' : \/ o \in DOMAIN heap /\ heap'[o].owner = heap[o].owner
                                \/ heap'[o].owner = Nobody
    BY <1>5, OwnersKept DEF MutexInv, TInv
  <2> QED
    BY <2>1, <2>2, OwnersStay
<1> QED
  BY <1>1, <1>2, <1>3, <1>4, <1>5, TaskKeepsMutexes DEF Next

\* Whatever its script throws, whatever a request destroys under it and wherever it
\* strays, a task gives back the one mutex it has taken: one that is held belongs to a
\* task that is past Lock, waits for no other mutex, and has that very object as target.
THEOREM NoMutexKept == Spec => []MutexHeldInside
<1>1. Init => MutexInv
  BY TInvStart DEF Init, MutexInv, MutexHeldInside
<1>2. MutexInv => MutexHeldInside
  BY DEF MutexInv
<1> QED
  BY <1>1, <1>2, NextKeepsMutexes, PTL DEF Spec

-----------------------------------------------------------------------------
(* Null pointers.                                                          *)

\* The walk of Process and the tasks it has sent find what they were made for, until a
\* request changes the vector: only a request can make ScriptManager::Process or a task
\* that waits meet a null pointer.
THEOREM NullsNeedRequests == Spec => []NullsComeLate
<1>1. TInv => NullsComeLate
  <2> SUFFICES ASSUME TInv PROVE NullsComeLate
    OBVIOUS
  <2>1. /\ size \in Nat /\ Len(slots) \in Nat /\ size <= Len(slots)
        /\ DOMAIN slots = 1 .. Len(slots) /\ Len(heap) \in Nat
        /\ \A i \in 1 .. size : slots[i] \in 1 .. Len(heap)
    BY ScriptsNow DEF TInv, VInv, Vector
  <2>2. \A i \in 1 .. size : At(buffer, i) = slots[i] /\ slots[i] # Null
    BY <2>1 DEF At, Null
  <2>3. ASSUME walk # NoWalk, walk.version = version
        PROVE  At(walk.buffer, walk.at) # Null
    <3>1. walk.buffer = buffer /\ walk.at \in 1 .. size
      BY <2>3 DEF TInv, Walking
    <3> QED
      BY <2>2, <3>1
  <2>4. ASSUME NEW w \in Workers, NEW i \in DOMAIN queue[w], queue[w][i].version = version
        PROVE  queue[w][i].for # Null
               /\ At(queue[w][i].buffer, queue[w][i].slot) = queue[w][i].for
    <3>1. OnSlot(queue[w][i])
      BY DEF TInv, Queued
    <3>2. /\ queue[w][i].buffer = buffer /\ queue[w][i].slot \in 1 .. size
          /\ queue[w][i].for = slots[queue[w][i].slot]
      BY <2>4, <3>1 DEF OnSlot
    <3> QED
      BY <2>2, <3>2
  <2> QED
    BY <2>3, <2>4 DEF NullsComeLate
<1> QED
  BY <1>1, TInvHolds, PTL

-----------------------------------------------------------------------------
(* Names.                                                                  *)

\* A statement about one name hits the row of that name and no other, if no name is also
\* a column's (ScriptManager.h, lines 241 and 267): then nothing ever goes amiss, and
\* InStep and AnswersKept hold without condition.
THEOREM NothingAmiss ==
    ASSUME Names \cap (NameWords \cup OtherWords) = {}
    PROVE  Spec => []~amiss
<1>1. Init => ~amiss
  BY DEF Init
<1>2. ASSUME NEW n \in Names, NEW hit, HitsRows(n, hit), ~amiss PROVE ~amiss'
  BY <1>2 DEF HitsRows, Hits
<1>3. ~amiss /\ [Next]_vars => ~amiss'
  <2> SUFFICES ASSUME ~amiss, [Next]_vars PROVE ~amiss'
    OBVIOUS
  <2>1. CASE \/ Stop \/ Crash \/ ConstructorThrows \/ ProcessBegin \/ UNCHANGED vars
             \/ EmplaceBack \/ Replace \/ Erase \/ \E skipped : Initialize(skipped)
             \/ \E w \in Workers : SubmitScript(w) \/ ScriptTask(w)
    BY <2>1 DEF Stop, Crash, ConstructorThrows, ProcessBegin, EmplaceBack, Replace, Erase,
                Answered, Initialize, SubmitScript, ScriptTask, Begin, Lock, Stopping,
                Setup, Call, Clear, Unlock, TaskOnly, vars, table
  <2>2. ASSUME NEW n \in Names, NEW t \in Texts, SaveScript(n, t) \/ UpdateScript(n, t)
        PROVE  ~amiss'
    BY <1>2, <2>2 DEF SaveScript, UpdateScript
  <2>3. ASSUME NEW n \in Names, DeleteScript(n) PROVE ~amiss'
    BY <1>2, <2>3 DEF DeleteScript
  <2> QED
    BY <2>1, <2>2, <2>3 DEF Next
<1> QED
  BY <1>1, <1>3, PTL DEF Spec
=============================================================================
