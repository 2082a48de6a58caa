---------------------------- MODULE ScriptManager ----------------------------
(***************************************************************************)
(* The scripts of the application: the table ScriptManager in the          *)
(* database, the vector `scripts` in memory, the requests that change both *)
(* one after the other on the server's thread, ScriptManager::Process on   *)
(* thread 0 of the pool, and the tasks it sends to the other threads.      *)
(*                                                                         *)
(* Process holds scriptMutex; SaveScript, UpdateScript and DeleteScript do *)
(* not take it, so it keeps nobody out and has no variable here.  A task   *)
(* captures its script by reference: what it holds is the address of a     *)
(* slot of the vector, and each of its statements reads that slot again.   *)
(* Slots are numbered; an address is a slot number and the number of the   *)
(* buffer the vector had.                                                  *)
(*                                                                         *)
(* The pool is reduced to its queues, which is what TaskPool guarantees.   *)
(* scriptText and metricName are one thing here, the text.  A statement of *)
(* SQLite may fail for a reason of its own; the code then changes nothing, *)
(* so the failure is no step.  Names and texts are those that end where    *)
(* their quotes do: without a double quote; and no text is a column's      *)
(* name.  The process may die at any moment.                               *)
(***************************************************************************)
EXTENDS QuotedNames, Integers, Sequences, FiniteSets

CONSTANTS
    Names, Texts,   \* what requests carry; a name may be empty
    Workers,        \* the pool's threads that take these tasks
    Limits          \* bounds to explore: names in use, changes of the vector (edits),
                    \* tasks that Process submits, and lives of the process (boots)

ASSUME NamesAssumption == Names \subseteq STRING
ASSUME LimitsAssumption ==
    Limits \subseteq [names : SUBSET Names, edits : Nat, tasks : Nat, boots : Nat]

Nobody  == "nobody"
Absent  == "absent"
Unknown == "unknown"
Null    == 0

ASSUME TextsAssumption == Absent \notin Texts /\ Unknown \notin Texts
ASSUME WorkersAssumption == Nobody \notin Workers

VARIABLES
    rows,       \* the table ScriptManager, in id order
    slots,      \* the vector's buffer as far as it was ever used: object or Null
    size, capacity, buffer,     \* scripts.size(), scripts.capacity(), which buffer
    heap,       \* the Script objects made since the start, by number
    version,    \* how often a request has changed the vector
    should_stop,
    main,       \* "down", "serve" (waiting for a request), "apply", "stopped"
    request,    \* what the handler works on while main = "apply"
    walk,       \* the range-for of Process
    submitted,  \* how many tasks Process has submitted
    queue,      \* queue[w]: the tasks in the queue of thread w
    task, stage, target,    \* the task w runs, its next statement, what it locked
    boots,
    limits,     \* the bounds of this behaviour
    promised,   \* promised[n]: what the last answer about n said
    astray,     \* names whose row was written or read, but no object made for it
    amiss,      \* a statement about one name has hit the row of another, or not its own
    strayed     \* objects whose context a task has changed without their mutex

table   == <<rows, promised, astray, amiss>>
vector  == <<slots, size, capacity, buffer, version>>
process == <<walk, submitted, limits>>
tasks   == <<queue, task, stage, target, strayed>>
vars    == <<table, vector, heap, should_stop, main, request, process, tasks, boots>>

NoRequest == [op |-> "none", name |-> "", text |-> Absent]
NoTask    == [slot |-> 0, buffer |-> 0, for |-> Null, version |-> 0]
NoWalk    == [at |-> 1, end |-> 0, buffer |-> 0, version |-> 0]

NewScript(n, t) ==
    [name |-> n, text |-> t, alive |-> TRUE, owner |-> Nobody, ctx |-> "null"]

NamesOf(seq) == {seq[i].name : i \in DOMAIN seq}
Scripts == [i \in 1 .. size |-> heap[slots[i]]]

\* What earlier lives can have left in the table.
Tables ==
    {t \in UNION {[1 .. k -> [name : limits.names, text : Texts]] :
                      k \in 0 .. Cardinality(limits.names)} :
       \A i, j \in DOMAIN t : t[i].name = t[j].name => i = j}

Init ==
    /\ limits \in Limits
    /\ rows \in Tables
    /\ slots = <<>> /\ size = 0 /\ capacity = 0 /\ buffer = 0 /\ version = 0
    /\ heap = <<>>
    /\ should_stop = FALSE
    /\ main = "down" /\ request = NoRequest
    /\ walk = NoWalk /\ submitted = 0
    /\ queue = [w \in Workers |-> <<>>]
    /\ task = [w \in Workers |-> NoTask]
    /\ stage = [w \in Workers |-> "idle"]
    /\ target = [w \in Workers |-> Null]
    /\ boots = 0
    /\ promised = [n \in Names |-> Unknown]
    /\ astray = {}
    /\ amiss = FALSE
    /\ strayed = {}

\* The rows at some positions, in their order.
RowsAt(positions) ==
    {[k \in DOMAIN f |-> rows[f[k]]] :
        f \in {g \in [1 .. Cardinality(positions) -> positions] :
                 /\ \A j, k \in DOMAIN g : j < k => g[j] < g[k]
                 /\ \A i \in positions : \E k \in DOMAIN g : g[k] = i}}

-----------------------------------------------------------------------------
(* Starting and dying.  Initialize makes an object for every row, except   *)
(* where the constructor throws: that row is skipped.                      *)

\* The buffer grows by a half, or to what is needed.
Grown(c, needed) ==
    IF c >= needed THEN c
    ELSE IF c + c \div 2 >= needed THEN c + c \div 2 ELSE needed

\* The capacities that n times emplace_back go through, from an empty vector.
Growths(n) ==
    {c \in [0 .. n -> 0 .. 2 * n] : c[0] = 0 /\ \A i \in 1 .. n : c[i] = Grown(c[i - 1], i)}

Initialize(skipped) ==
    \E loaded \in RowsAt({i \in DOMAIN rows : rows[i].name \notin skipped}) :
        /\ main = "down" /\ boots < limits.boots
        /\ heap' = [i \in DOMAIN loaded |-> NewScript(loaded[i].name, loaded[i].text)]
        /\ slots' = [i \in DOMAIN loaded |-> i]
        /\ size' = Len(loaded)
        /\ \E c \in Growths(Len(loaded)) : capacity' = c[Len(loaded)]
        /\ main' = "serve"
        /\ boots' = boots + 1
        /\ astray' = skipped
        /\ UNCHANGED <<rows, promised, amiss, buffer, version, should_stop, request,
                       process, tasks>>

\* What is in memory is gone, the table stays.
Crash ==
    /\ main # "down"
    /\ main' = "down" /\ request' = NoRequest
    /\ slots' = <<>> /\ size' = 0 /\ capacity' = 0 /\ buffer' = 0
    /\ heap' = <<>>
    /\ should_stop' = FALSE
    /\ walk' = NoWalk
    /\ queue' = [w \in Workers |-> <<>>]
    /\ task' = [w \in Workers |-> NoTask]
    /\ stage' = [w \in Workers |-> "idle"]
    /\ target' = [w \in Workers |-> Null]
    /\ strayed' = {}
    /\ UNCHANGED <<table, version, submitted, limits, boots>>

\* Application::Stop, once the server has returned.
Stop ==
    /\ main = "serve"
    /\ main' = "stopped"
    /\ should_stop' = TRUE
    /\ UNCHANGED <<table, vector, heap, request, process, tasks, boots>>

-----------------------------------------------------------------------------
(* Requests.  Each changes the table with one statement, then the vector;  *)
(* the answer follows.  A request the code refuses changes nothing and is  *)
(* no step: a name that is in use, is not in use, or is empty.             *)

\* A statement about n hits some rows; it goes amiss if these are not the row of n.
HitsRows(n, hit) ==
    /\ hit \in Hits(n, NamesOf(rows))
    /\ amiss' = (amiss \/ hit # NamesOf(rows) \cap {n})

MayEdit(n) == main = "serve" /\ n \in limits.names /\ version < limits.edits

\* The statement has been executed, the answer has not been given.
Written(op, n, t) ==
    /\ main' = "apply"
    /\ request' = [op |-> op, name |-> n, text |-> t]
    /\ promised' = [promised EXCEPT ![n] = Unknown]
    /\ UNCHANGED <<vector, heap, should_stop, process, tasks, boots, astray>>

InUse(n)   == n \in NamesOf(Scripts)
\* Mutant of IsUnique: the column is not UNIQUE.
AnyName(n) == n \in Names

IsUnique(n) == n \notin NamesOf(rows)       \* name TEXT UNIQUE NOT NULL

\* Mutant of SaveScript: the script is saved although the statement has failed.
SaveInMemory(n, t) ==
    /\ MayEdit(n) /\ ~InUse(n) /\ IsUnique(n)
    /\ UNCHANGED <<rows, amiss>>
    /\ Written("save", n, t)

SaveScript(n, t) ==
    /\ MayEdit(n) /\ ~InUse(n) /\ IsUnique(n)
    /\ rows' = Append(rows, [name |-> n, text |-> t])
    /\ UNCHANGED amiss
    /\ Written("save", n, t)

UpdateScript(n, t) ==
    /\ MayEdit(n) /\ InUse(n)
    /\ \E hit \in SUBSET NamesOf(rows) :
         /\ HitsRows(n, hit)
         /\ rows' = [i \in DOMAIN rows |->
                       IF rows[i].name \in hit THEN [rows[i] EXCEPT !.text = t] ELSE rows[i]]
    /\ Written("update", n, t)

DeleteScript(n) ==
    /\ MayEdit(n) /\ n # ""
    /\ \E hit \in SUBSET NamesOf(rows) :
         /\ HitsRows(n, hit)
         /\ rows' \in RowsAt({i \in DOMAIN rows : rows[i].name \notin hit})
    /\ Written("delete", n, Absent)

\* make_shared<Script> throws: the handler ends without success.
ConstructorThrows ==
    /\ main = "apply" /\ request.op \in {"save", "update"}
    /\ main' = "serve" /\ request' = NoRequest
    /\ astray' = astray \cup {request.name}
    /\ UNCHANGED <<rows, promised, amiss, vector, heap, should_stop, process, tasks,
                   boots>>

\* The vector is changed and {"success": true} is answered.
Answered ==
    /\ main' = "serve" /\ request' = NoRequest
    /\ promised' = [promised EXCEPT ![request.name] = request.text]
    /\ astray' = astray \ {request.name}
    /\ version' = version + 1
    /\ UNCHANGED <<rows, amiss, should_stop, process, tasks, boots>>

EmplaceBack ==
    /\ main = "apply" /\ request.op = "save"
    /\ heap' = Append(heap, NewScript(request.name, request.text))
    /\ size' = size + 1
    /\ capacity' = Grown(capacity, size + 1)
    /\ buffer' = IF size < capacity THEN buffer ELSE buffer + 1
    /\ slots' = [i \in 1 .. (IF size < Len(slots) /\ size < capacity
                              THEN Len(slots) ELSE size + 1) |->
                   IF i = size + 1 THEN Len(heap) + 1 ELSE slots[i]]
    /\ Answered

Slot(n) == CHOOSE i \in 1 .. size : Scripts[i].name = n

\* Mutant of Replace: the new object is not put into the vector.
ReplaceNothing ==
    /\ main = "apply" /\ request.op = "update"
    /\ heap' = Append(heap, NewScript(request.name, request.text))
    /\ UNCHANGED <<slots, size, capacity, buffer>>
    /\ Answered

\* *it = sc: the slot gets the new object and the old one is destroyed.
Replace ==
    /\ main = "apply" /\ request.op = "update"
    /\ LET i == Slot(request.name)
       IN  /\ heap' = Append([heap EXCEPT ![slots[i]].alive = FALSE],
                             NewScript(request.name, request.text))
           /\ slots' = [slots EXCEPT ![i] = Len(heap) + 1]
    /\ UNCHANGED <<size, capacity, buffer>>
    /\ Answered

\* Mutant of Erase: the pointer is reset, the slot stays in the vector.
ResetOnly ==
    /\ main = "apply" /\ request.op = "delete"
    /\ IF InUse(request.name)
       THEN LET i == Slot(request.name)
            IN  /\ heap' = [heap EXCEPT ![slots[i]].alive = FALSE]
                /\ slots' = [slots EXCEPT ![i] = Null]
       ELSE UNCHANGED <<heap, slots>>
    /\ UNCHANGED <<size, capacity, buffer>>
    /\ Answered

\* Mutant of Erase: the last slot is destroyed, whichever script was meant.
EraseLast ==
    /\ main = "apply" /\ request.op = "delete"
    /\ IF InUse(request.name)
       THEN /\ heap' = [heap EXCEPT ![slots[size]].alive = FALSE]
            /\ size' = size - 1
       ELSE UNCHANGED <<heap, size>>
    /\ UNCHANGED <<slots, capacity, buffer>>
    /\ Answered

\* remove_if moves what follows the script one slot down, erase destroys the
\* last slot: it is empty if it was moved from, else it still names its object.
Erase ==
    /\ main = "apply" /\ request.op = "delete"
    /\ IF InUse(request.name)
       THEN LET i == Slot(request.name)
            IN  /\ heap' = [heap EXCEPT ![slots[i]].alive = FALSE]
                /\ slots' = [j \in DOMAIN slots |->
                               IF j \in i .. size - 1 THEN slots[j + 1]
                               ELSE IF j = size /\ i < size THEN Null ELSE slots[j]]
                /\ size' = size - 1
       ELSE UNCHANGED <<heap, slots, size>>
    /\ UNCHANGED <<capacity, buffer>>
    /\ Answered

-----------------------------------------------------------------------------
(* Process, on thread 0.  The range-for reads begin and end once.          *)
ProcessBegin ==
    /\ main # "down" /\ walk = NoWalk /\ size > 0 /\ submitted < limits.tasks
    /\ walk' = [at |-> 1, end |-> size, buffer |-> buffer, version |-> version]
    /\ UNCHANGED <<table, vector, heap, should_stop, main, request, submitted, limits,
                   tasks, boots>>

\* What the address of a slot leads to.  A buffer that was given back holds the
\* null pointers its contents were moved out of.
At(b, i) == IF b = buffer /\ i \in DOMAIN slots THEN slots[i] ELSE Null

SubmitScript(w) ==
    /\ walk # NoWalk /\ submitted < limits.tasks
    /\ submitted' = submitted + 1
    /\ queue' = [queue EXCEPT ![w] = Append(@,
          [slot |-> walk.at, buffer |-> walk.buffer, for |-> At(walk.buffer, walk.at),
           version |-> walk.version])]
    /\ walk' = IF walk.at = walk.end THEN NoWalk ELSE [walk EXCEPT !.at = @ + 1]
    /\ UNCHANGED <<table, vector, heap, should_stop, main, request, limits,
                   task, stage, target, strayed, boots>>

-----------------------------------------------------------------------------
(* A task.  Through a null pointer no statement gets any further: the      *)
(* process dies, which Crash covers.  An object that was destroyed may     *)
(* still be found as it was left.                                          *)
Deref(w) == At(task[w].buffer, task[w].slot)

Goes(w, s) == stage' = [stage EXCEPT ![w] = s]
TaskOnly   == UNCHANGED <<table, vector, should_stop, main, request, process, boots>>

\* The task is taken, and lock_guard scriptLock(script->ctxMutex) looks its object up.
Begin(w) ==
    /\ stage[w] = "idle" /\ queue[w] # <<>>
    /\ At(Head(queue[w]).buffer, Head(queue[w]).slot) # Null
    /\ task' = [task EXCEPT ![w] = Head(queue[w])]
    /\ queue' = [queue EXCEPT ![w] = Tail(@)]
    /\ target' = [target EXCEPT ![w] = At(Head(queue[w]).buffer, Head(queue[w]).slot)]
    /\ Goes(w, "lock")
    /\ TaskOnly /\ UNCHANGED <<heap, strayed>>

\* Mutant of Lock: the mutex is taken whoever holds it.
EnterUnlocked(w) ==
    /\ stage[w] = "lock"
    /\ heap' = [heap EXCEPT ![target[w]].owner = w]
    /\ Goes(w, "setup")
    /\ TaskOnly /\ UNCHANGED <<queue, task, target, strayed>>

Lock(w) ==
    /\ stage[w] = "lock" /\ heap[target[w]].owner = Nobody
    /\ heap' = [heap EXCEPT ![target[w]].owner = w]
    /\ Goes(w, "setup")
    /\ TaskOnly /\ UNCHANGED <<queue, task, target, strayed>>

Stopping(w) ==
    /\ stage[w] = "setup" /\ should_stop
    /\ Goes(w, "unlock")
    /\ TaskOnly /\ UNCHANGED <<heap, queue, task, target, strayed>>

\* The task gives the object its slot leads to now the context c.
SetContext(w, c) ==
    /\ heap' = [heap EXCEPT ![Deref(w)].ctx = c]
    /\ strayed' = IF heap[Deref(w)].owner = w THEN strayed ELSE strayed \cup {Deref(w)}

\* SetupJavascriptContext: a new heap, then the text is evaluated, which may throw.
Setup(w) ==
    /\ stage[w] = "setup" /\ ~should_stop /\ Deref(w) # Null
    /\ SetContext(w, "open")
    /\ \/ Goes(w, "call")
       \/ Goes(w, "unlock")
    /\ TaskOnly /\ UNCHANGED <<queue, task, target>>

\* metricCounter is set; CallJavaScriptFunction throws if there is no context, or if
\* the script does.
Call(w) ==
    /\ stage[w] = "call" /\ Deref(w) # Null
    /\ \/ heap[Deref(w)].ctx # "null" /\ Goes(w, "clear")
       \/ Goes(w, "unlock")
    /\ TaskOnly /\ UNCHANGED <<heap, queue, task, target, strayed>>

\* ClearDuktapeStack destroys the context and leaves the pointer to it.
Clear(w) ==
    /\ stage[w] = "clear" /\ Deref(w) # Null /\ heap[Deref(w)].ctx # "null"
    /\ SetContext(w, "closed")
    /\ Goes(w, "unlock")
    /\ TaskOnly /\ UNCHANGED <<queue, task, target>>

Unlock(w) ==
    /\ stage[w] = "unlock"
    /\ heap' = [heap EXCEPT ![target[w]].owner = Nobody]
    /\ target' = [target EXCEPT ![w] = Null]
    /\ task' = [task EXCEPT ![w] = NoTask]
    /\ Goes(w, "idle")
    /\ TaskOnly /\ UNCHANGED <<queue, strayed>>

ScriptTask(w) ==
    \/ Begin(w) \/ Lock(w) \/ Stopping(w)
    \/ Setup(w) \/ Call(w) \/ Clear(w) \/ Unlock(w)

Next ==
    \/ \E skipped \in SUBSET NamesOf(rows) : Initialize(skipped)
    \/ Crash \/ Stop
    \/ \E n \in Names, t \in Texts : SaveScript(n, t) \/ UpdateScript(n, t)
    \/ \E n \in Names : DeleteScript(n)
    \/ ConstructorThrows \/ EmplaceBack \/ Replace \/ Erase
    \/ ProcessBegin
    \/ \E w \in Workers : SubmitScript(w) \/ ScriptTask(w)

Spec == Init /\ [][Next]_vars

-----------------------------------------------------------------------------
\* Every variable has its type, and the vector its shape.
TypeOK ==
    /\ \A i \in DOMAIN rows : rows[i].name \in Names /\ rows[i].text \in Texts
    /\ size <= capacity /\ size <= Len(slots)
    /\ \A i \in DOMAIN slots : slots[i] \in 0 .. Len(heap)
    /\ \A i \in 1 .. size : slots[i] # Null
    /\ promised \in [Names -> Texts \cup {Absent, Unknown}]
    /\ astray \subseteq Names /\ amiss \in BOOLEAN /\ should_stop \in BOOLEAN
    /\ main \in {"down", "serve", "apply", "stopped"}
    /\ target \in [Workers -> 0 .. Len(heap)]

\* "Script names must be unique": neither the table nor the vector ever holds two
\* scripts of one name, and the vector holds no object twice or after its end
\* (SaveScript's find_if, the UNIQUE of the table, Initialize, remove_if and erase).
NamesUnique ==
    /\ \A i, j \in DOMAIN rows : rows[i].name = rows[j].name => i = j
    /\ \A i, j \in 1 .. size : Scripts[i].name = Scripts[j].name => i = j
    /\ \A i \in 1 .. size : Scripts[i].alive

\* Between requests the vector and the table agree: a script that runs has its row,
\* and, but for names where the constructor threw between statement and vector, both
\* have the same scripts with the same text.  (Not once a statement about a
\* name that is also a column's has gone amiss, see QuotedNames.)
InStep ==
    main = "serve" /\ ~amiss =>
        /\ NamesOf(Scripts) \subseteq NamesOf(rows)
        /\ \A n \in Names \ astray :
             {rows[i].text : i \in {j \in DOMAIN rows : rows[j].name = n}}
               = {Scripts[i].text : i \in {j \in 1 .. size : Scripts[j].name = n}}

\* What a success answer has said of a script is what the table holds, and so what
\* the next start loads, whatever fails or dies in between, until another request
\* about that name has executed its statement.  (With the same exception: a deletion that
\* compared another column is answered with success, and the row is there at the next start.)
AnswersKept ==
    ~amiss => \A n \in Names :
        /\ promised[n] = Absent => n \notin NamesOf(rows)
        /\ promised[n] \in Texts =>
             \E i \in DOMAIN rows : rows[i] = [name |-> n, text |-> promised[n]]

\* A task no request has changed the vector under works on one live object, the one
\* it was made for, from end to end, and holds its mutex from Lock to Unlock; it finds
\* the context it has made open when it calls and clears it, unless a task under which
\* the vector did change has strayed into that object without its mutex.
UndisturbedTasks ==
    \A w \in Workers : stage[w] # "idle" /\ task[w].version = version =>
        LET o == task[w].for
        IN  /\ o # Null /\ heap[o].alive /\ Deref(w) = o /\ target[w] = o
            /\ stage[w] # "lock" => heap[o].owner = w
            /\ stage[w] \in {"call", "clear"} /\ o \notin strayed => heap[o].ctx = "open"

\* A mutex is held by a task that is between Lock and Unlock on that very object: no
\* task ends, throws or strays and leaves one locked that others would wait at for ever.
MutexHeldInside ==
    \A o \in DOMAIN heap : heap[o].owner # Nobody =>
        LET w == heap[o].owner
        IN  w \in Workers /\ stage[w] \notin {"idle", "lock"} /\ target[w] = o

\* A null pointer is met only after a request: the walk of Process, a task that waits in
\* a queue and one that runs find their script, unless the vector has changed since the
\* walk began.
NullsComeLate ==
    /\ walk # NoWalk /\ walk.version = version => At(walk.buffer, walk.at) # Null
    /\ \A w \in Workers : \A i \in DOMAIN queue[w] :
         LET t == queue[w][i]
         IN  t.version = version => t.for # Null /\ At(t.buffer, t.slot) = t.for

-----------------------------------------------------------------------------
\* The table and the vector, as what each has for a name.
TextIn(seq, n) ==
    IF n \in NamesOf(seq) THEN seq[CHOOSE i \in DOMAIN seq : seq[i].name = n].text ELSE Absent

Store == INSTANCE ScriptStore WITH
    stored  <- [n \in Names |-> TextIn(rows, n)],
    running <- [n \in Names |-> TextIn(Scripts, n)],
    edit    <- IF main = "apply" THEN {[name |-> request.name, text |-> request.text]} ELSE {},
    up      <- main # "down"

\* The slots and objects of the vector, with what remove_if and erase do to them, beside
\* tasks that work on them, are a store of scripts: an edit changes what is stored and
\* then what runs, for its name and no other, a start loads what is stored, and nothing
\* else ever changes either.
StoreSpec == Store!Spec
=============================================================================
