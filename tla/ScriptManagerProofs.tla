------------------------- MODULE ScriptManagerProofs -------------------------
(***************************************************************************)
(* Proofs about the scripts, for any names, texts and threads and any      *)
(* bounds on edits, tasks and lives of the process.                        *)
(*                                                                         *)
(*   NamesStayUnique    table and vector hold one script per name          *)
(*   StoresAgree        table and vector agree between requests            *)
(*   AnswersHold        what was answered is what the table holds          *)
(*   TasksAlone         an undisturbed task is alone in its live script    *)
(*   ImplementsStore    all this is a ScriptStore                          *)
(*   ScriptsTyped       every variable keeps its type                      *)
(***************************************************************************)
EXTENDS ScriptManager, SequenceTheorems, FiniteSetTheorems, TLAPS

Row      == [name : Names, text : Texts]
Object   == [name : Names, text : Texts, alive : BOOLEAN,
             owner : Workers \cup {Nobody}, ctx : {"null", "open", "closed"}]
Task     == [slot : Nat, buffer : Nat, for : Nat, version : Nat]
Walk     == [at : Nat, end : Nat, buffer : Nat, version : Nat]
Stages   == {"idle", "lock", "setup", "call", "clear", "unlock"}

Types ==
    /\ rows \in Seq(Row) /\ slots \in Seq(Nat) /\ heap \in Seq(Object)
    /\ size \in Nat /\ size <= Len(slots)
    /\ buffer \in Nat /\ version \in Nat
    /\ main \in {"down", "serve", "apply", "stopped"}
    /\ walk \in Walk
    /\ queue \in [Workers -> Seq(Task)] /\ task \in [Workers -> Task]
    /\ stage \in [Workers -> Stages] /\ target \in [Workers -> Nat]
    /\ promised \in [Names -> Texts \cup {Absent, Unknown}]

\* One script per name, in a sequence of rows or of objects.
Single(seq) == \A i, j \in DOMAIN seq : seq[i].name = seq[j].name => i = j

\* The slots up to size lead to live objects, one each.
Vector ==
    /\ \A i \in DOMAIN slots : slots[i] \in 0 .. Len(heap)
    /\ \A i \in 1 .. size : slots[i] \in 1 .. Len(heap) /\ heap[slots[i]].alive
    /\ \A i, j \in 1 .. size : slots[i] = slots[j] => i = j

\* The request whose statement has been executed.
Pending ==
    main = "apply" =>
        /\ request.name \in Names
        /\ \/ request.op = "save" /\ request.text \in Texts /\ ~InUse(request.name)
           \/ request.op = "update" /\ request.text \in Texts /\ InUse(request.name)
           \/ request.op = "delete" /\ request.text = Absent

\* Between two lives nothing is in memory.
Down ==
    main = "down" =>
        /\ slots = <<>> /\ size = 0 /\ heap = <<>> /\ walk = NoWalk
        /\ \A w \in Workers : queue[w] = <<>> /\ stage[w] = "idle"

\* A thread at work has looked an object up.
Targets == \A w \in Workers : stage[w] # "idle" => target[w] \in 1 .. Len(heap)

VInv == Types /\ Single(rows) /\ Single(Scripts) /\ Vector /\ Pending /\ Down /\ Targets

HasText(seq, n, t) == \E i \in DOMAIN seq : seq[i].name = n /\ seq[i].text = t

-----------------------------------------------------------------------------
(* Sequences.                                                              *)
LEMMA Appended ==
    ASSUME NEW S, NEW q \in Seq(S), NEW t \in S
    PROVE  /\ Append(q, t) \in Seq(S) /\ Len(Append(q, t)) = Len(q) + 1
           /\ DOMAIN Append(q, t) = 1 .. Len(q) + 1 /\ DOMAIN q = 1 .. Len(q)
           /\ \A i \in DOMAIN q : i \in DOMAIN Append(q, t) /\ Append(q, t)[i] = q[i]
           /\ Len(q) + 1 \in DOMAIN Append(q, t) /\ Append(q, t)[Len(q) + 1] = t
           /\ \A i \in DOMAIN Append(q, t) : i \in DOMAIN q \/ i = Len(q) + 1
<1>1. /\ Append(q, t) \in Seq(S) /\ Len(q) \in Nat /\ Len(Append(q, t)) = Len(q) + 1
      /\ \A i \in 1 .. Len(q) : Append(q, t)[i] = q[i]
      /\ Append(q, t)[Len(q) + 1] = t
  BY AppendProperties
<1>2. DOMAIN Append(q, t) = 1 .. Len(q) + 1 /\ DOMAIN q = 1 .. Len(q)
  BY <1>1
<1> QED
  BY <1>1, <1>2

LEMMA Taken ==
    ASSUME NEW S, NEW q \in Seq(S), q # <<>>
    PROVE  /\ Head(q) \in S /\ Tail(q) \in Seq(S)
           /\ 1 \in DOMAIN q /\ Head(q) = q[1]
           /\ \A i \in DOMAIN Tail(q) : i + 1 \in DOMAIN q /\ Tail(q)[i] = q[i + 1]
<1>1. /\ Head(q) \in S /\ Head(q) = q[1] /\ Tail(q) \in Seq(S)
      /\ Len(q) \in Nat /\ Len(q) >= 1 /\ Len(Tail(q)) = Len(q) - 1
      /\ \A i \in 1 .. Len(q) - 1 : Tail(q)[i] = q[i + 1]
  BY HeadTailProperties
<1>2. DOMAIN q = 1 .. Len(q) /\ DOMAIN Tail(q) = 1 .. Len(q) - 1
  BY <1>1
<1> QED
  BY <1>1, <1>2

\* What RowsAt takes out of the table.
LEMMA RowsAtFacts ==
    ASSUME rows \in Seq(Row), Single(rows), NEW keep \in SUBSET DOMAIN rows, NEW q \in RowsAt(keep)
    PROVE  /\ q \in Seq(Row) /\ Single(q)
           /\ \A i \in keep : \E k \in DOMAIN q : q[k] = rows[i]
           /\ \A k \in DOMAIN q : \E i \in keep : q[k] = rows[i]
<1>1. IsFiniteSet(keep) /\ Cardinality(keep) \in Nat
  <2>1. DOMAIN rows = 1 .. Len(rows) /\ Len(rows) \in Nat
    OBVIOUS
  <2>2. IsFiniteSet(DOMAIN rows)
    BY <2>1, FS_Interval
  <2> QED
    BY <2>2, FS_Subset, FS_CardinalityType
<1>2. PICK f \in [1 .. Cardinality(keep) -> keep] :
          /\ \A j, k \in DOMAIN f : j < k => f[j] < f[k]
          /\ \A i \in keep : \E k \in DOMAIN f : f[k] = i
          /\ q = [k \in DOMAIN f |-> rows[f[k]]]
  BY DEF RowsAt
<1>3. /\ DOMAIN f = 1 .. Cardinality(keep) /\ DOMAIN q = DOMAIN f
      /\ \A k \in DOMAIN f : f[k] \in keep /\ f[k] \in DOMAIN rows /\ rows[f[k]] \in Row
                             /\ q[k] = rows[f[k]]
  BY <1>2
<1>4. q \in Seq(Row)
  BY <1>1, <1>2, <1>3
<1>5. ASSUME NEW j \in DOMAIN q, NEW k \in DOMAIN q, q[j].name = q[k].name PROVE j = k
  <2>1. f[j] = f[k]
    BY <1>3, <1>5 DEF Single
  <2>2. j \in Nat /\ k \in Nat /\ f[j] \in Nat
    BY <1>1, <1>3
  <2> QED
    BY <1>2, <1>3, <2>1, <2>2
<1> QED
  BY <1>2, <1>3, <1>4, <1>5 DEF Single

-----------------------------------------------------------------------------
(* Rows and scripts as sets of names and texts.                            *)
LEMMA ScriptFacts ==
    ASSUME Types, Vector
    PROVE  /\ DOMAIN Scripts = 1 .. size
           /\ \A i \in 1 .. size : /\ i \in DOMAIN slots /\ Scripts[i] = heap[slots[i]]
                                   /\ slots[i] \in DOMAIN heap /\ Scripts[i] \in Object
           /\ \A n : InUse(n) <=> \E i \in 1 .. size : heap[slots[i]].name = n
<1>1. DOMAIN Scripts = 1 .. size /\ \A i \in 1 .. size : Scripts[i] = heap[slots[i]]
  BY DEF Scripts
<1>2. \A i \in 1 .. size : i \in DOMAIN slots /\ slots[i] \in DOMAIN heap /\ heap[slots[i]] \in Object
  BY DEF Types, Vector
<1> QED
  BY <1>1, <1>2 DEF InUse, NamesOf

\* What a step of a task leaves of the objects.
SameObjects ==
    /\ heap' \in Seq(Object) /\ Len(heap') = Len(heap)
    /\ \A o \in DOMAIN heap : /\ heap'[o].name = heap[o].name /\ heap'[o].text = heap[o].text
                              /\ heap'[o].alive = heap[o].alive

SameVector == UNCHANGED <<slots, size>> /\ SameObjects

LEMMA VectorKept ==
    ASSUME Types, Vector, SameVector
    PROVE  /\ Vector' /\ DOMAIN Scripts' = 1 .. size
           /\ \A i \in 1 .. size : /\ Scripts'[i].name = Scripts[i].name
                                   /\ Scripts'[i].text = Scripts[i].text
           /\ Single(Scripts) => Single(Scripts)'
           /\ \A n : InUse(n)' <=> InUse(n)
           /\ \A n, t : HasText(Scripts, n, t)' <=> HasText(Scripts, n, t)
<1>1. /\ heap \in Seq(Object) /\ DOMAIN heap = 1 .. Len(heap) /\ DOMAIN heap' = 1 .. Len(heap)
      /\ slots' = slots /\ size' = size /\ Len(heap') = Len(heap)
  BY DEF Types, SameVector, SameObjects
<1>2. Vector'
  BY <1>1 DEF Vector, SameVector, SameObjects
<1>3. /\ DOMAIN Scripts = 1 .. size /\ DOMAIN Scripts' = 1 .. size
      /\ \A i \in 1 .. size : /\ Scripts'[i].name = Scripts[i].name
                              /\ Scripts'[i].text = Scripts[i].text
  BY <1>1 DEF Vector, SameVector, SameObjects, Scripts
<1>4. /\ Single(Scripts) => Single(Scripts)'
      /\ \A n : InUse(n)' <=> InUse(n)
      /\ \A n, t : HasText(Scripts, n, t)' <=> HasText(Scripts, n, t)
  BY <1>3 DEF Single, InUse, NamesOf, HasText
<1> QED
  BY <1>2, <1>3, <1>4

LEMMA ObjectKept ==
    ASSUME Types, NEW o \in DOMAIN heap,
           \/ \E v \in Workers \cup {Nobody} : heap' = [heap EXCEPT ![o].owner = v]
           \/ \E c \in {"open", "closed"} : heap' = [heap EXCEPT ![o].ctx = c]
    PROVE  SameObjects
<1>1. heap \in Seq(Object) /\ heap[o] \in Object
  BY DEF Types
<1>2. \E x \in Object : /\ heap' = [heap EXCEPT ![o] = x]
                        /\ x.name = heap[o].name /\ x.text = heap[o].text /\ x.alive = heap[o].alive
  <2>1. CASE \E v \in Workers \cup {Nobody} : heap' = [heap EXCEPT ![o].owner = v]
    <3>1. PICK v \in Workers \cup {Nobody} : heap' = [heap EXCEPT ![o].owner = v]
      BY <2>1
    <3>2. [heap[o] EXCEPT !.owner = v] \in Object
      BY <1>1 DEF Object
    <3> QED
      BY <1>1, <3>1, <3>2 DEF Object
  <2>2. CASE \E c \in {"open", "closed"} : heap' = [heap EXCEPT ![o].ctx = c]
    <3>1. PICK c \in {"open", "closed"} : heap' = [heap EXCEPT ![o].ctx = c]
      BY <2>2
    <3>2. [heap[o] EXCEPT !.ctx = c] \in Object
      BY <1>1 DEF Object
    <3> QED
      BY <1>1, <3>1, <3>2 DEF Object
  <2> QED
    BY <2>1, <2>2
<1>3. PICK x \in Object : /\ heap' = [heap EXCEPT ![o] = x]
                          /\ x.name = heap[o].name /\ x.text = heap[o].text /\ x.alive = heap[o].alive
  BY <1>2
<1>4. heap' \in Seq(Object) /\ Len(heap') = Len(heap)
  BY <1>1, <1>3
<1>5. \A p \in DOMAIN heap : /\ heap'[p].name = heap[p].name /\ heap'[p].text = heap[p].text
                             /\ heap'[p].alive = heap[p].alive
  BY <1>1, <1>3
<1> QED
  BY <1>4, <1>5 DEF SameObjects

LEMMA Found ==
    ASSUME Types, Vector, NEW b, NEW i
    PROVE  At(b, i) \in 0 .. Len(heap) /\ (At(b, i) # Null => At(b, i) \in DOMAIN heap)
<1>1. Len(heap) \in Nat /\ DOMAIN heap = 1 .. Len(heap) /\ 0 \in 0 .. Len(heap)
  BY DEF Types
<1> QED
  BY <1>1 DEF At, Vector, Null

\* The statements of a task.
LEMMA TaskEffect ==
    ASSUME VInv, NEW w \in Workers, ScriptTask(w)
    PROVE  /\ UNCHANGED <<table, vector, should_stop, main, request, process, boots>>
           /\ SameVector
           /\ queue' \in [Workers -> Seq(Task)] /\ task' \in [Workers -> Task]
           /\ stage' \in [Workers -> Stages] /\ target' \in [Workers -> Nat]
           /\ \A v \in Workers : v # w =>
                 UNCHANGED <<queue[v], task[v], stage[v], target[v]>>
           /\ main # "down"
           /\ stage'[w] # "idle" => target'[w] \in 1 .. Len(heap)
<1>1. /\ heap \in Seq(Object) /\ DOMAIN heap = 1 .. Len(heap) /\ Len(heap) \in Nat
      /\ queue \in [Workers -> Seq(Task)] /\ task \in [Workers -> Task]
      /\ stage \in [Workers -> Stages] /\ target \in [Workers -> Nat]
      /\ stage[w] # "idle" => target[w] \in 1 .. Len(heap)
  BY DEF VInv, Types, Targets
<1>2. UNCHANGED <<table, vector, should_stop, main, request, process, boots>>
  BY DEF ScriptTask, Begin, Lock, Stopping, Setup, Call, Clear, Unlock, TaskOnly
<1>3. UNCHANGED heap => SameObjects
  BY <1>1 DEF SameObjects
<1>4. main # "down"
  BY DEF VInv, Down, ScriptTask, Begin, Lock, Stopping, Setup, Call, Clear, Unlock
<1>5. NoTask \in Task /\ Null \in Nat
  BY DEF NoTask, Task, Null
<1> USE DEF Goes, Stages
<1>6. CASE Begin(w)
  <2> DEFINE q == Head(queue[w])
  <2>1. q \in Task /\ Tail(queue[w]) \in Seq(Task)
    BY <1>1, <1>6, Taken DEF Begin
  <2>2. At(q.buffer, q.slot) \in DOMAIN heap
    BY <1>6, Found DEF Begin, VInv
  <2>3. /\ queue' = [queue EXCEPT ![w] = Tail(queue[w])] /\ task' = [task EXCEPT ![w] = q]
        /\ target' = [target EXCEPT ![w] = At(q.buffer, q.slot)]
        /\ stage' = [stage EXCEPT ![w] = "lock"] /\ UNCHANGED heap
    BY <1>1, <1>6 DEF Begin
  <2>4. At(q.buffer, q.slot) \in Nat
    BY <1>1, <2>2
  <2> QED
    BY <1>1, <1>2, <1>3, <1>4, <2>1, <2>2, <2>3, <2>4 DEF SameVector, vector
<1>7. CASE Lock(w)
  <2>1. SameObjects
    BY <1>1, <1>7, ObjectKept DEF Lock, VInv
  <2> QED
    BY <1>1, <1>2, <1>4, <1>7, <2>1 DEF Lock, SameVector, vector
<1>8. CASE Stopping(w)
  BY <1>1, <1>2, <1>3, <1>4, <1>8 DEF Stopping, SameVector, vector
<1>9. CASE Setup(w)
  <2>1. Deref(w) \in DOMAIN heap
    BY <1>9, Found DEF Setup, Deref, VInv
  <2>2. SameObjects
    BY <1>9, <2>1, ObjectKept DEF Setup, SetContext, VInv
  <2> QED
    BY <1>1, <1>2, <1>4, <1>9, <2>2 DEF Setup, SameVector, vector
<1>10. CASE Call(w)
  BY <1>1, <1>2, <1>3, <1>4, <1>10 DEF Call, SameVector, vector
<1>11. CASE Clear(w)
  <2>1. Deref(w) \in DOMAIN heap
    BY <1>11, Found DEF Clear, Deref, VInv
  <2>2. SameObjects
    BY <1>11, <2>1, ObjectKept DEF Clear, SetContext, VInv
  <2> QED
    BY <1>1, <1>2, <1>4, <1>11, <2>2 DEF Clear, SameVector, vector
<1>12. CASE Unlock(w)
  <2>1. SameObjects
    BY <1>1, <1>12, ObjectKept DEF Unlock, VInv
  <2> QED
    BY <1>1, <1>2, <1>4, <1>5, <1>12, <2>1 DEF Unlock, SameVector, vector
<1> QED
  BY <1>6, <1>7, <1>8, <1>9, <1>10, <1>11, <1>12 DEF ScriptTask

-----------------------------------------------------------------------------
(* VInv is inductive.                                                      *)
LEMMA VInvStart == Init => VInv
<1> SUFFICES ASSUME Init PROVE VInv
  OBVIOUS
<1>1. rows \in Seq(Row) /\ Single(rows)
  <2>0. limits.names \subseteq Names
    BY LimitsAssumption DEF Init
  <2>1. PICK k \in 0 .. Cardinality(limits.names) :
           rows \in [1 .. k -> [name : limits.names, text : Texts]]
    BY DEF Init, Tables
  <2>2. k \in Nat
    <3>1. CASE Cardinality(limits.names) \in Nat
      BY <3>1
    <3> QED
      BY <2>1
  <2>3. rows \in Seq(Row)
    <3>1. rows \in [1 .. k -> Row]
      BY <2>0, <2>1 DEF Row
    <3> QED
      BY <2>2, <3>1, SeqDef
  <2> QED
    BY <2>3 DEF Init, Tables, Single
<1>2. /\ NoWalk \in Walk /\ NoTask \in Task /\ Null \in Nat
      /\ <<>> \in Seq(Task) /\ <<>> \in Seq(Nat) /\ <<>> \in Seq(Object) /\ Len(slots) = 0
  BY DEF NoWalk, Walk, NoTask, Task, Null, Init
<1>3. Types
  BY <1>1, <1>2 DEF Init, Types, Stages
<1>4. Single(Scripts) /\ Vector
  BY DEF Init, Single, Scripts, Vector
<1>5. Pending /\ Down /\ Targets
  BY DEF Init, Pending, Down, Targets
<1> QED
  BY <1>1, <1>3, <1>4, <1>5 DEF VInv

LEMMA InitializeKeepsVInv ==
    ASSUME VInv, NEW skipped, Initialize(skipped)
    PROVE  /\ VInv'
           /\ \A n, t : HasText(Scripts', n, t) <=> HasText(rows, n, t) /\ n \notin skipped
<1> DEFINE keep == {i \in DOMAIN rows : rows[i].name \notin skipped}
<1>1. PICK loaded \in RowsAt(keep) :
        /\ main = "down"
        /\ heap' = [i \in DOMAIN loaded |-> NewScript(loaded[i].name, loaded[i].text)]
        /\ slots' = [i \in DOMAIN loaded |-> i]
        /\ size' = Len(loaded)
        /\ main' = "serve"
        /\ UNCHANGED <<rows, promised, buffer, version, process, tasks>>
  BY DEF Initialize
<1>2. rows \in Seq(Row) /\ Single(rows)
  BY DEF VInv, Types
<1>3. /\ loaded \in Seq(Row) /\ Single(loaded)
      /\ \A i \in keep : \E k \in DOMAIN loaded : loaded[k] = rows[i]
      /\ \A k \in DOMAIN loaded : \E i \in keep : loaded[k] = rows[i]
  <2>1. keep \in SUBSET DOMAIN rows
    OBVIOUS
  <2>2. loaded \in RowsAt(keep)
    BY <1>1
  <2> HIDE DEF keep
  <2> QED
    BY <1>2, <2>1, <2>2, RowsAtFacts
<1> HIDE DEF keep
<1>4. /\ Len(loaded) \in Nat /\ DOMAIN loaded = 1 .. Len(loaded)
      /\ \A i \in 1 .. Len(loaded) : loaded[i] \in Row
  BY <1>3
<1>5. \A i \in 1 .. Len(loaded) :
         /\ NewScript(loaded[i].name, loaded[i].text) \in Object
         /\ NewScript(loaded[i].name, loaded[i].text).name = loaded[i].name
         /\ NewScript(loaded[i].name, loaded[i].text).text = loaded[i].text
         /\ NewScript(loaded[i].name, loaded[i].text).alive
  BY <1>4 DEF NewScript, Object, Row
<1>6. /\ heap' \in Seq(Object) /\ Len(heap') = Len(loaded)
      /\ slots' \in Seq(Nat) /\ Len(slots') = Len(loaded)
      /\ \A i \in 1 .. Len(loaded) : /\ slots'[i] = i
                                     /\ heap'[i] = NewScript(loaded[i].name, loaded[i].text)
  BY <1>1, <1>4, <1>5
<1>7. Types'
  BY <1>1, <1>4, <1>6 DEF VInv, Types, process, tasks
<1>8. /\ DOMAIN Scripts' = 1 .. Len(loaded)
      /\ \A i \in 1 .. Len(loaded) : Scripts'[i] = NewScript(loaded[i].name, loaded[i].text)
  BY <1>1, <1>6 DEF Scripts
<1>9. Single(rows)' /\ Single(Scripts)' /\ Vector'
  <2>1. Single(Scripts)'
    BY <1>3, <1>4, <1>5, <1>8 DEF Single
  <2>2. Vector'
    BY <1>1, <1>4, <1>5, <1>6 DEF Vector
  <2> QED
    BY <1>1, <1>2, <2>1, <2>2 DEF Single
<1>10. Pending' /\ Down' /\ Targets'
  BY <1>1 DEF VInv, Pending, Down, Targets, tasks
<1>11. VInv'
  BY <1>7, <1>9, <1>10 DEF VInv
<1>12. \A i \in DOMAIN rows : i \in keep <=> rows[i].name \notin skipped
  BY DEF keep
<1>13. \A i \in keep : i \in DOMAIN rows
  BY DEF keep
<1>14. \A i \in keep : \E k \in DOMAIN Scripts' :
          Scripts'[k].name = rows[i].name /\ Scripts'[k].text = rows[i].text
  BY <1>3, <1>4, <1>5, <1>8
<1>15. \A k \in DOMAIN Scripts' : \E i \in keep :
          Scripts'[k].name = rows[i].name /\ Scripts'[k].text = rows[i].text
  BY <1>3, <1>4, <1>5, <1>8
<1>16. \A n, t : HasText(Scripts', n, t) <=> HasText(rows, n, t) /\ n \notin skipped
  BY <1>12, <1>13, <1>14, <1>15 DEF HasText
<1> QED
  BY <1>11, <1>16

LEMMA CrashKeepsVInv ==
    ASSUME VInv, Crash
    PROVE  VInv'
<1>1. /\ NoWalk \in Walk /\ NoTask \in Task /\ Null \in Nat
      /\ <<>> \in Seq(Task) /\ <<>> \in Seq(Nat) /\ <<>> \in Seq(Object) /\ Len(<<>>) = 0
  BY DEF NoWalk, Walk, NoTask, Task, Null
<1>2. Types'
  BY <1>1 DEF Crash, VInv, Types, Stages, table
<1>3. Single(rows)' /\ Single(Scripts)' /\ Vector'
  BY DEF VInv, Crash, Single, Scripts, Vector, table
<1>4. Pending' /\ Down' /\ Targets'
  BY DEF Crash, Pending, Down, Targets
<1> QED
  BY <1>2, <1>3, <1>4 DEF VInv

\* The statement of a request changes no object.
LEMMA WrittenKeepsVInv ==
    ASSUME VInv, NEW op, NEW n \in Names, NEW t, Written(op, n, t), main # "down",
           rows' \in Seq(Row), Single(rows'),
           \/ op = "save" /\ t \in Texts /\ ~InUse(n)
           \/ op = "update" /\ t \in Texts /\ InUse(n)
           \/ op = "delete" /\ t = Absent
    PROVE  VInv'
<1>1. UNCHANGED <<slots, size, buffer, version, heap, walk, queue, task, stage, target>>
  BY DEF Written, vector, process, tasks
<1>2. Types'
  <2>1. main' = "apply" /\ promised' \in [Names -> Texts \cup {Absent, Unknown}]
    BY DEF Written, VInv, Types
  <2> QED
    BY <1>1, <2>1 DEF VInv, Types
<1>3. Scripts' = Scripts
  BY <1>1 DEF Scripts
<1>4. Single(rows)' /\ Single(Scripts)' /\ Vector' /\ Targets'
  BY <1>1, <1>3 DEF VInv, Vector, Targets, Single
<1>5. Pending'
  <2>1. request'.op = op /\ request'.name = n /\ request'.text = t
    BY DEF Written
  <2>2. InUse(n)' <=> InUse(n)
    BY <1>3 DEF InUse, NamesOf
  <2>3. InUse(request.name)' <=> InUse(n)
    BY <2>1, <2>2 DEF InUse
  <2> QED
    BY <2>1, <2>3 DEF Pending
<1>6. Down'
  BY DEF Down, Written
<1> QED
  BY <1>2, <1>4, <1>5, <1>6 DEF VInv

-----------------------------------------------------------------------------
(* What the statements of the requests do to the table.                    *)
LEMMA NamesAreTexts ==
    ASSUME NEW seq, NEW n
    PROVE  /\ n \in NamesOf(seq) <=> \E i \in DOMAIN seq : seq[i].name = n
           /\ n \in NamesOf(seq) <=> \E x : HasText(seq, n, x)
BY DEF NamesOf, HasText

LEMMA SaveEffect ==
    ASSUME VInv, NEW n \in Names, NEW t \in Texts, SaveScript(n, t)
    PROVE  /\ VInv' /\ Written("save", n, t)
           /\ \A m, x : HasText(rows', m, x) <=> HasText(rows, m, x) \/ (m = n /\ x = t)
<1> DEFINE r == [name |-> n, text |-> t]
<1>1. /\ rows \in Seq(Row) /\ Single(rows) /\ r \in Row /\ r.name = n /\ r.text = t
      /\ rows' = Append(rows, r) /\ n \notin NamesOf(rows)
      /\ Written("save", n, t) /\ main # "down" /\ ~InUse(n)
  BY DEF SaveScript, MayEdit, IsUnique, VInv, Types, Row
<1> HIDE DEF r
<1>2. /\ rows' \in Seq(Row)
      /\ \A i \in DOMAIN rows : i \in DOMAIN rows' /\ rows'[i] = rows[i]
      /\ Len(rows) + 1 \in DOMAIN rows' /\ rows'[Len(rows) + 1] = r
      /\ \A i \in DOMAIN rows' : i \in DOMAIN rows \/ i = Len(rows) + 1
  BY <1>1, Appended
<1>3. Single(rows')
  BY <1>1, <1>2 DEF Single, NamesOf
<1>4. VInv'
  BY <1>1, <1>2, <1>3, WrittenKeepsVInv
<1>5. \A m, x : HasText(rows', m, x) <=> HasText(rows, m, x) \/ (m = n /\ x = t)
  BY <1>1, <1>2 DEF HasText
<1> QED
  BY <1>1, <1>4, <1>5

\* The rows that are hit: some of those there are, and that of n alone if all is well.
LEMMA HitsAre ==
    ASSUME NEW n, NEW hit \in Hits(n, NamesOf(rows))
    PROVE  /\ hit \subseteq NamesOf(rows)
           /\ hit = NamesOf(rows) \cap {n} =>
                 \A m : m \in hit <=> m = n /\ n \in NamesOf(rows)
BY DEF Hits

LEMMA UpdateEffect ==
    ASSUME VInv, NEW n \in Names, NEW t \in Texts, UpdateScript(n, t)
    PROVE  /\ VInv' /\ Written("update", n, t)
           /\ \E hit \in Hits(n, NamesOf(rows)) :
                 /\ amiss' = (amiss \/ hit # NamesOf(rows) \cap {n})
                 /\ \A m, x : HasText(rows', m, x) <=>
                                 IF m \in hit THEN x = t ELSE HasText(rows, m, x)
<1>1. PICK hit \in Hits(n, NamesOf(rows)) :
         /\ amiss' = (amiss \/ hit # NamesOf(rows) \cap {n})
         /\ rows' = [i \in DOMAIN rows |->
                       IF rows[i].name \in hit THEN [rows[i] EXCEPT !.text = t] ELSE rows[i]]
  BY DEF UpdateScript, HitsRows
<1>2. /\ rows \in Seq(Row) /\ Single(rows)
      /\ Written("update", n, t) /\ main # "down" /\ InUse(n)
  BY DEF UpdateScript, MayEdit, VInv, Types
<1>3. /\ rows' \in Seq(Row) /\ DOMAIN rows' = DOMAIN rows
      /\ \A i \in DOMAIN rows :
            /\ rows'[i].name = rows[i].name
            /\ rows'[i].text = IF rows[i].name \in hit THEN t ELSE rows[i].text
  <2>1. \A i \in DOMAIN rows : /\ rows[i] \in Row /\ [rows[i] EXCEPT !.text = t] \in Row
                               /\ [rows[i] EXCEPT !.text = t].name = rows[i].name
                               /\ [rows[i] EXCEPT !.text = t].text = t
    <3>1. ASSUME NEW r \in Row
          PROVE  /\ [r EXCEPT !.text = t] \in Row
                 /\ [r EXCEPT !.text = t].name = r.name /\ [r EXCEPT !.text = t].text = t
      BY DEF Row
    <3>2. \A i \in DOMAIN rows : rows[i] \in Row
      BY <1>2
    <3> QED
      BY <3>1, <3>2
  <2>2. Len(rows) \in Nat /\ DOMAIN rows = 1 .. Len(rows)
    BY <1>2
  <2>3. DOMAIN rows' = DOMAIN rows
    BY <1>1
  <2>4. rows' \in [1 .. Len(rows) -> Row]
    BY <1>1, <2>1, <2>2
  <2>5. rows' \in Seq(Row)
    BY <2>2, <2>4, SeqDef
  <2> QED
    BY <1>1, <2>1, <2>3, <2>5
<1>4. Single(rows')
  BY <1>2, <1>3 DEF Single
<1>5. VInv'
  BY <1>2, <1>3, <1>4, WrittenKeepsVInv
<1>6. \A m, x : HasText(rows', m, x) <=> IF m \in hit THEN x = t ELSE HasText(rows, m, x)
  BY <1>3, HitsAre DEF HasText, NamesOf
<1> QED
  BY <1>1, <1>2, <1>5, <1>6

LEMMA DeleteEffect ==
    ASSUME VInv, NEW n \in Names, DeleteScript(n)
    PROVE  /\ VInv' /\ Written("delete", n, Absent)
           /\ \E hit \in Hits(n, NamesOf(rows)) :
                 /\ amiss' = (amiss \/ hit # NamesOf(rows) \cap {n})
                 /\ \A m, x : HasText(rows', m, x) <=> m \notin hit /\ HasText(rows, m, x)
<1>1. PICK hit \in Hits(n, NamesOf(rows)) :
         /\ amiss' = (amiss \/ hit # NamesOf(rows) \cap {n})
         /\ rows' \in RowsAt({i \in DOMAIN rows : rows[i].name \notin hit})
  BY DEF DeleteScript, HitsRows
<1> DEFINE keep == {i \in DOMAIN rows : rows[i].name \notin hit}
<1>2. /\ rows \in Seq(Row) /\ Single(rows) /\ rows' \in RowsAt(keep)
      /\ Written("delete", n, Absent) /\ main # "down"
  BY <1>1 DEF DeleteScript, MayEdit, VInv, Types
<1>3. \A i : i \in keep <=> i \in DOMAIN rows /\ rows[i].name \notin hit
  OBVIOUS
<1> HIDE DEF keep
<1>4. /\ rows' \in Seq(Row) /\ Single(rows')
      /\ \A i \in keep : \E k \in DOMAIN rows' : rows'[k] = rows[i]
      /\ \A k \in DOMAIN rows' : \E i \in keep : rows'[k] = rows[i]
  <2>1. keep \in SUBSET DOMAIN rows
    BY <1>3
  <2> QED
    BY <1>2, <2>1, RowsAtFacts
<1>5. VInv'
  BY <1>2, <1>4, WrittenKeepsVInv
<1>6. \A m, x : HasText(rows', m, x) <=> m \notin hit /\ HasText(rows, m, x)
  BY <1>3, <1>4 DEF HasText
<1> QED
  BY <1>1, <1>2, <1>5, <1>6

-----------------------------------------------------------------------------
(* What the answers do to the vector.                                      *)
LEMMA ThrowEffect ==
    ASSUME VInv, ConstructorThrows
    PROVE  VInv' /\ UNCHANGED <<rows, Scripts>>
<1>1. UNCHANGED <<rows, promised, slots, size, buffer, version, heap, walk, queue, task,
                  stage, target>>
  BY DEF ConstructorThrows, vector, process, tasks
<1>2. Scripts' = Scripts /\ rows' = rows
  BY <1>1 DEF Scripts
<1>3. main' = "serve"
  BY DEF ConstructorThrows
<1>4. Types' /\ Single(rows)' /\ Single(Scripts)' /\ Vector' /\ Targets' /\ Pending' /\ Down'
  BY <1>1, <1>2, <1>3 DEF VInv, Types, Single, Vector, Targets, Pending, Down
<1> QED
  BY <1>2, <1>4 DEF VInv

\* An answer, once the vector is what it has to be.
LEMMA AnsweredKeepsVInv ==
    ASSUME VInv, main = "apply", Answered, Vector', Single(Scripts'),
           slots' \in Seq(Nat), heap' \in Seq(Object), size' \in Nat, size' <= Len(slots'),
           buffer' \in Nat, Len(heap') >= Len(heap)
    PROVE  VInv'
<1>1. /\ UNCHANGED <<rows, walk, queue, task, stage, target>>
      /\ main' = "serve" /\ version' = version + 1
      /\ promised' = [promised EXCEPT ![request.name] = request.text]
  BY DEF Answered, process, tasks
<1>2. request.name \in Names /\ request.text \in Texts \cup {Absent}
  BY DEF VInv, Pending
<1>3. promised' \in [Names -> Texts \cup {Absent, Unknown}] /\ version' \in Nat
  BY <1>1, <1>2 DEF VInv, Types
<1>4. Types'
  BY <1>1, <1>3 DEF VInv, Types
<1>5. Targets'
  <2>1. Len(heap) \in Nat /\ Len(heap') \in Nat
    BY DEF VInv, Types
  <2> QED
    BY <1>1, <2>1 DEF VInv, Targets
<1>6. Single(rows)' /\ Single(Scripts)' /\ Pending' /\ Down'
  BY <1>1 DEF VInv, Single, Pending, Down
<1> QED
  BY <1>4, <1>5, <1>6 DEF VInv

LEMMA ScriptsNow ==
    ASSUME Types, Vector
    PROVE  /\ \A i \in 1 .. size : /\ Scripts[i] = heap[slots[i]] /\ slots[i] \in 1 .. Len(heap)
                                   /\ heap[slots[i]] \in Object /\ i \in 1 .. Len(slots)
           /\ DOMAIN Scripts = 1 .. size
           /\ size \in Nat /\ Len(slots) \in Nat /\ size <= Len(slots) /\ Len(heap) \in Nat
           /\ DOMAIN slots = 1 .. Len(slots) /\ DOMAIN heap = 1 .. Len(heap)
<1>1. /\ size \in Nat /\ Len(slots) \in Nat /\ size <= Len(slots) /\ Len(heap) \in Nat
      /\ DOMAIN slots = 1 .. Len(slots) /\ DOMAIN heap = 1 .. Len(heap)
  BY DEF Types
<1> QED
  BY <1>1, ScriptFacts DEF Types, Vector

LEMMA EmplaceBackEffect ==
    ASSUME VInv, EmplaceBack
    PROVE  /\ VInv'
           /\ \A m, x : HasText(Scripts', m, x) <=>
                           \/ HasText(Scripts, m, x)
                           \/ m = request.name /\ x = request.text
<1> DEFINE new == NewScript(request.name, request.text)
           length == IF size < Len(slots) /\ size < capacity THEN Len(slots) ELSE size + 1
<1>1. /\ main = "apply" /\ Answered /\ size' = size + 1 /\ heap' = Append(heap, new)
      /\ buffer' \in Nat
      /\ slots' = [i \in 1 .. length |-> IF i = size + 1 THEN Len(heap) + 1 ELSE slots[i]]
      /\ request.name \in Names /\ request.text \in Texts /\ ~InUse(request.name)
  BY DEF EmplaceBack, VInv, Types, Pending
<1>2. new \in Object /\ new.name = request.name /\ new.text = request.text /\ new.alive
  BY <1>1 DEF NewScript, Object
<1>3. /\ \A i \in 1 .. size : /\ Scripts[i] = heap[slots[i]] /\ slots[i] \in 1 .. Len(heap)
                              /\ heap[slots[i]] \in Object /\ i \in 1 .. Len(slots)
      /\ DOMAIN Scripts = 1 .. size
      /\ size \in Nat /\ Len(slots) \in Nat /\ size <= Len(slots) /\ Len(heap) \in Nat
      /\ DOMAIN slots = 1 .. Len(slots) /\ DOMAIN heap = 1 .. Len(heap)
  BY ScriptsNow DEF VInv
<1>4. length \in Nat /\ size + 1 <= length /\ \A i \in 1 .. length : i = size + 1 \/ i \in DOMAIN slots
  BY <1>3
<1> HIDE DEF new, length
<1>5. /\ heap' \in Seq(Object) /\ Len(heap') = Len(heap) + 1 /\ heap'[Len(heap) + 1] = new
      /\ \A o \in 1 .. Len(heap) : heap'[o] = heap[o]
  BY <1>1, <1>2, Appended DEF VInv, Types
<1>6. /\ slots' \in Seq(Nat) /\ Len(slots') = length /\ DOMAIN slots' = 1 .. length
      /\ slots'[size + 1] = Len(heap) + 1
      /\ \A i \in 1 .. size : slots'[i] = slots[i]
      /\ \A i \in 1 .. length : slots'[i] \in 0 .. Len(heap) + 1
  <2>1. \A i \in DOMAIN slots : slots[i] \in 0 .. Len(heap)
    BY DEF VInv, Vector
  <2>2. \A i \in 1 .. length : slots'[i] \in 0 .. Len(heap) + 1
    BY <1>1, <1>3, <1>4, <2>1
  <2>3. slots' \in [1 .. length -> Nat]
    BY <1>1, <1>3, <2>2
  <2>4. slots' \in Seq(Nat)
    BY <1>4, <2>3, SeqDef
  <2>5. \A i \in 1 .. size : slots'[i] = slots[i]
    BY <1>1, <1>3, <1>4
  <2> QED
    BY <1>1, <1>3, <1>4, <2>2, <2>3, <2>4, <2>5
<1>7. /\ DOMAIN Scripts' = 1 .. size + 1
      /\ \A i \in 1 .. size : Scripts'[i] = Scripts[i]
      /\ Scripts'[size + 1] = new
  <2>1. Scripts' = [i \in 1 .. size + 1 |-> heap'[slots'[i]]]
    BY <1>1 DEF Scripts
  <2>2. \A i \in 1 .. size : i \in 1 .. size + 1 /\ heap'[slots'[i]] = Scripts[i]
    <3>1. ASSUME NEW i \in 1 .. size PROVE heap'[slots'[i]] = Scripts[i]
      <4>1. slots'[i] = slots[i] /\ slots[i] \in 1 .. Len(heap) /\ Scripts[i] = heap[slots[i]]
        BY <1>3, <1>6
      <4> QED
        BY <1>5, <4>1
    <3>2. \A i \in 1 .. size : i \in 1 .. size + 1
      BY <1>3
    <3> QED
      BY <3>1, <3>2
  <2>3. size + 1 \in 1 .. size + 1 /\ heap'[slots'[size + 1]] = new
    BY <1>3, <1>5, <1>6
  <2> QED
    BY <2>1, <2>2, <2>3
<1>8. \A i \in 1 .. size + 1 : i \in 1 .. size \/ i = size + 1
  BY <1>3
<1>9. \A i \in 1 .. size : Scripts[i].name # request.name
  BY <1>1, <1>3 DEF InUse, NamesOf
<1>10. Single(Scripts')
  BY <1>2, <1>3, <1>7, <1>8, <1>9 DEF Single, VInv
<1>11. Vector'
  <2>1. \A i \in 1 .. size : heap[slots[i]].alive
    BY DEF VInv, Vector
  <2>2. \A i, j \in 1 .. size : slots[i] = slots[j] => i = j
    BY DEF VInv, Vector
  <2>3. \A i \in 1 .. size + 1 : slots'[i] \in 1 .. Len(heap) + 1 /\ heap'[slots'[i]].alive
    BY <1>2, <1>3, <1>5, <1>6, <1>8, <2>1
  <2>4. \A i, j \in 1 .. size + 1 : slots'[i] = slots'[j] => i = j
    <3>1. ASSUME NEW i \in 1 .. size PROVE slots'[i] # slots'[size + 1]
      BY <1>3, <1>6
    <3>2. \A i, j \in 1 .. size : slots'[i] = slots'[j] => i = j
      BY <1>6, <2>2
    <3> QED
      BY <1>8, <3>1, <3>2
  <2> QED
    BY <1>1, <1>5, <1>6, <2>3, <2>4 DEF Vector
<1>12. size' \in Nat /\ size' <= Len(slots') /\ Len(heap') >= Len(heap)
  BY <1>1, <1>3, <1>4, <1>5, <1>6
<1>13. VInv'
  BY <1>1, <1>5, <1>6, <1>10, <1>11, <1>12, AnsweredKeepsVInv
<1>14. \A m, x : HasText(Scripts', m, x) <=>
                    HasText(Scripts, m, x) \/ (m = request.name /\ x = request.text)
  <2>1. \A i \in 1 .. size : i \in 1 .. size + 1
    BY <1>3
  <2>2. size + 1 \in 1 .. size + 1
    BY <1>3
  <2> QED
    BY <1>2, <1>3, <1>7, <1>8, <2>1, <2>2 DEF HasText
<1> QED
  BY <1>13, <1>14

LEMMA SlotFacts ==
    ASSUME VInv, InUse(request.name)
    PROVE  /\ Slot(request.name) \in 1 .. size
           /\ Scripts[Slot(request.name)].name = request.name
           /\ \A i \in 1 .. size : Scripts[i].name = request.name => i = Slot(request.name)
<1>1. DOMAIN Scripts = 1 .. size
  BY ScriptsNow DEF VInv
<1>2. \E i \in 1 .. size : Scripts[i].name = request.name
  BY <1>1 DEF InUse, NamesOf
<1>3. Slot(request.name) \in 1 .. size /\ Scripts[Slot(request.name)].name = request.name
  BY <1>2 DEF Slot
<1> QED
  BY <1>1, <1>3 DEF VInv, Single

LEMMA ReplaceEffect ==
    ASSUME VInv, Replace
    PROVE  /\ VInv'
           /\ InUse(request.name)
           /\ \A m, x : HasText(Scripts', m, x) <=>
                           IF m = request.name THEN x = request.text ELSE HasText(Scripts, m, x)
<1> DEFINE new == NewScript(request.name, request.text)
<1>0. InUse(request.name)
  BY DEF Replace, VInv, Pending
<1>1. PICK s : s = Slot(request.name)
  OBVIOUS
<1>2. /\ s \in 1 .. size /\ Scripts[s].name = request.name
      /\ \A i \in 1 .. size : Scripts[i].name = request.name => i = s
  BY <1>0, <1>1, SlotFacts
<1>3. /\ main = "apply" /\ Answered /\ UNCHANGED <<size, buffer>>
      /\ heap' = Append([heap EXCEPT ![slots[s]].alive = FALSE], new)
      /\ slots' = [slots EXCEPT ![s] = Len(heap) + 1]
      /\ request.name \in Names /\ request.text \in Texts
  BY <1>0, <1>1 DEF Replace, VInv, Pending
<1>4. new \in Object /\ new.name = request.name /\ new.text = request.text /\ new.alive
  BY <1>3 DEF NewScript, Object
<1>5. /\ \A i \in 1 .. size : /\ Scripts[i] = heap[slots[i]] /\ slots[i] \in 1 .. Len(heap)
                              /\ heap[slots[i]] \in Object /\ i \in 1 .. Len(slots)
      /\ DOMAIN Scripts = 1 .. size
      /\ size \in Nat /\ Len(slots) \in Nat /\ size <= Len(slots) /\ Len(heap) \in Nat
      /\ DOMAIN slots = 1 .. Len(slots) /\ DOMAIN heap = 1 .. Len(heap)
  BY ScriptsNow DEF VInv
<1> HIDE DEF new
<1>6. PICK old : old = [heap EXCEPT ![slots[s]].alive = FALSE]
  OBVIOUS
<1>7. /\ old \in Seq(Object) /\ Len(old) = Len(heap)
      /\ \A o \in 1 .. Len(heap) : o # slots[s] => old[o] = heap[o]
  <2>1. [heap[slots[s]] EXCEPT !.alive = FALSE] \in Object
    BY <1>2, <1>5 DEF Object
  <2>2. old = [heap EXCEPT ![slots[s]] = [heap[slots[s]] EXCEPT !.alive = FALSE]]
    BY <1>6
  <2>3. slots[s] \in 1 .. Len(heap) /\ heap \in Seq(Object)
    BY <1>2, <1>5 DEF VInv, Types
  <2> QED
    BY <2>1, <2>2, <2>3
<1>8. /\ heap' \in Seq(Object) /\ Len(heap') = Len(heap) + 1 /\ heap'[Len(heap) + 1] = new
      /\ \A o \in 1 .. Len(heap) : heap'[o] = old[o]
  <2>1. heap' = Append(old, new)
    BY <1>3, <1>6
  <2>2. DOMAIN old = 1 .. Len(heap)
    BY <1>7
  <2> QED
    BY <1>4, <1>7, <2>1, <2>2, Appended
<1>9. /\ slots' \in Seq(Nat) /\ Len(slots') = Len(slots) /\ DOMAIN slots' = DOMAIN slots
      /\ slots'[s] = Len(heap) + 1
      /\ \A i \in DOMAIN slots : i # s => slots'[i] = slots[i]
  <2>1. s \in DOMAIN slots /\ Len(heap) + 1 \in Nat /\ slots \in Seq(Nat)
    BY <1>2, <1>5 DEF VInv, Types
  <2> QED
    BY <1>3, <2>1
<1>10. ASSUME NEW i \in 1 .. size, i # s
       PROVE  /\ slots'[i] = slots[i] /\ slots[i] \in 1 .. Len(heap) /\ slots[i] # slots[s]
              /\ heap'[slots'[i]] = Scripts[i] /\ heap'[slots'[i]].alive
              /\ slots'[i] # slots'[s]
  <2>1. slots'[i] = slots[i] /\ slots[i] \in 1 .. Len(heap) /\ slots[i] # slots[s]
    BY <1>2, <1>5, <1>9, <1>10 DEF VInv, Vector
  <2>2. heap'[slots'[i]] = Scripts[i]
    BY <1>5, <1>7, <1>8, <2>1
  <2>3. Scripts[i].alive
    BY <1>5 DEF VInv, Vector
  <2>4. slots'[i] # slots'[s]
    BY <1>5, <1>9, <2>1
  <2> QED
    BY <2>1, <2>2, <2>3, <2>4
<1>11. heap'[slots'[s]] = new /\ slots'[s] \in 1 .. Len(heap')
  BY <1>5, <1>8, <1>9
<1>12. /\ DOMAIN Scripts' = 1 .. size
       /\ \A i \in 1 .. size : i # s => Scripts'[i] = Scripts[i]
       /\ Scripts'[s] = new
  <2>1. Scripts' = [i \in 1 .. size |-> heap'[slots'[i]]]
    BY <1>3 DEF Scripts
  <2> QED
    BY <1>2, <1>10, <1>11, <2>1
<1>13. Single(Scripts')
  BY <1>2, <1>4, <1>5, <1>12 DEF Single, VInv
<1>14. Vector'
  <2>1. \A i \in DOMAIN slots' : slots'[i] \in 0 .. Len(heap')
    <3>1. \A i \in DOMAIN slots : slots[i] \in 0 .. Len(heap)
      BY DEF VInv, Vector
    <3> QED
      BY <1>5, <1>8, <1>9, <3>1
  <2>2. \A i \in 1 .. size : slots'[i] \in 1 .. Len(heap') /\ heap'[slots'[i]].alive
    <3>1. ASSUME NEW i \in 1 .. size, i # s
          PROVE  slots'[i] \in 1 .. Len(heap') /\ heap'[slots'[i]].alive
      BY <1>5, <1>8, <1>10, <3>1
    <3> QED
      BY <1>4, <1>11, <3>1
  <2>3. \A i, j \in 1 .. size : slots'[i] = slots'[j] => i = j
    BY <1>10 DEF VInv, Vector
  <2> QED
    BY <1>3, <2>1, <2>2, <2>3 DEF Vector
<1>15. size' \in Nat /\ size' <= Len(slots') /\ Len(heap') >= Len(heap) /\ buffer' \in Nat
  BY <1>3, <1>5, <1>8, <1>9 DEF VInv, Types
<1>16. VInv'
  BY <1>3, <1>8, <1>9, <1>13, <1>14, <1>15, AnsweredKeepsVInv
<1>17. \A m, x : HasText(Scripts', m, x) <=>
                    IF m = request.name THEN x = request.text ELSE HasText(Scripts, m, x)
  BY <1>2, <1>4, <1>5, <1>12 DEF HasText
<1> QED
  BY <1>0, <1>16, <1>17

\* What is in the slots after remove_if and erase, around the slot s that it is about.
LEMMA EraseEffect ==
    ASSUME VInv, Erase
    PROVE  /\ VInv'
           /\ \A m, x : HasText(Scripts', m, x) <=>
                           m # request.name /\ HasText(Scripts, m, x)
<1>1. /\ main = "apply" /\ Answered /\ UNCHANGED buffer /\ buffer \in Nat
      /\ heap \in Seq(Object) /\ slots \in Seq(Nat)
      /\ \A i \in DOMAIN slots : slots[i] \in 0 .. Len(heap)
  BY DEF Erase, VInv, Types, Vector
<1>2. /\ \A i \in 1 .. size : /\ Scripts[i] = heap[slots[i]] /\ slots[i] \in 1 .. Len(heap)
                              /\ heap[slots[i]] \in Object /\ i \in 1 .. Len(slots)
      /\ DOMAIN Scripts = 1 .. size
      /\ size \in Nat /\ Len(slots) \in Nat /\ size <= Len(slots) /\ Len(heap) \in Nat
      /\ DOMAIN slots = 1 .. Len(slots) /\ DOMAIN heap = 1 .. Len(heap)
  BY ScriptsNow DEF VInv
<1>3. CASE ~InUse(request.name)
  <2>1. UNCHANGED <<heap, slots, size>> /\ Scripts' = Scripts
    BY <1>3 DEF Erase, Scripts
  <2>2. VInv'
    <3>1. Vector' /\ Single(Scripts')
      BY <2>1 DEF VInv, Vector
    <3> QED
      BY <1>1, <1>2, <2>1, <3>1, AnsweredKeepsVInv
  <2>3. \A m, x : HasText(Scripts, m, x) => m # request.name
    BY <1>3 DEF HasText, InUse, NamesOf
  <2> QED
    BY <2>1, <2>2, <2>3 DEF HasText
<1>4. CASE InUse(request.name)
  <2>1. PICK s : s = Slot(request.name)
    OBVIOUS
  <2>2. /\ s \in 1 .. size /\ Scripts[s].name = request.name
        /\ \A i \in 1 .. size : Scripts[i].name = request.name => i = s
    BY <1>4, <2>1, SlotFacts
  <2>3. /\ heap' = [heap EXCEPT ![slots[s]].alive = FALSE]
        /\ slots' = [j \in DOMAIN slots |->
                       IF j \in s .. size - 1 THEN slots[j + 1]
                       ELSE IF j = size /\ s < size THEN Null ELSE slots[j]]
        /\ size' = size - 1
    BY <1>4, <2>1 DEF Erase
  <2>4. PICK from \in [1 .. size - 1 -> 1 .. size] :
           \A i \in 1 .. size - 1 : from[i] = IF i < s THEN i ELSE i + 1
    <3>1. \A i \in 1 .. size - 1 : (IF i < s THEN i ELSE i + 1) \in 1 .. size
      BY <1>2, <2>2
    <3>2. [i \in 1 .. size - 1 |-> IF i < s THEN i ELSE i + 1] \in [1 .. size - 1 -> 1 .. size]
      BY <3>1
    <3> QED
      BY <3>2
  <2>5. /\ \A i \in 1 .. size - 1 : from[i] \in 1 .. size /\ from[i] # s
        /\ \A i, j \in 1 .. size - 1 : from[i] = from[j] => i = j
        /\ \A k \in 1 .. size : k # s => \E i \in 1 .. size - 1 : from[i] = k
    <3>1. \A i \in 1 .. size - 1 : from[i] \in 1 .. size /\ from[i] # s
      BY <1>2, <2>2, <2>4
    <3>2. \A i, j \in 1 .. size - 1 : from[i] = from[j] => i = j
      <4>1. ASSUME NEW i \in 1 .. size - 1, NEW j \in 1 .. size - 1, from[i] = from[j]
            PROVE  i = j
        <5>1. i \in Int /\ j \in Int /\ s \in Int
          BY <1>2, <2>2
        <5>2. from[i] = (IF i < s THEN i ELSE i + 1) /\ from[j] = (IF j < s THEN j ELSE j + 1)
          BY <2>4
        <5>3. (IF i < s THEN i ELSE i + 1) = (IF j < s THEN j ELSE j + 1)
          BY <4>1, <5>2
        <5> QED
          BY <5>1, <5>3
      <4> QED
        BY <4>1
    <3>3. ASSUME NEW k \in 1 .. size, k # s
          PROVE  \E i \in 1 .. size - 1 : from[i] = k
      <4>1. CASE k < s
        BY <1>2, <2>2, <2>4, <4>1
      <4>2. CASE k > s
        <5>1. k - 1 \in 1 .. size - 1 /\ ~(k - 1 < s) /\ (k - 1) + 1 = k
          BY <1>2, <2>2, <4>2
        <5> QED
          BY <2>4, <5>1
      <4> QED
        BY <1>2, <2>2, <3>3, <4>1, <4>2
    <3> QED
      BY <3>1, <3>2, <3>3
  <2>6. /\ DOMAIN slots' = DOMAIN slots /\ slots' \in Seq(Nat) /\ Len(slots') = Len(slots)
        /\ \A i \in 1 .. size - 1 : slots'[i] = slots[from[i]]
        /\ \A i \in DOMAIN slots : slots'[i] \in 0 .. Len(heap)
    <3>1. DOMAIN slots' = DOMAIN slots
      BY <2>3
    <3>2. \A i \in 1 .. size - 1 : slots'[i] = slots[from[i]]
      BY <1>2, <2>2, <2>3, <2>4
    <3>3. ASSUME NEW i \in DOMAIN slots PROVE slots'[i] \in 0 .. Len(heap)
      <4>1. CASE i \in s .. size - 1
        <5>1. i + 1 \in DOMAIN slots /\ slots'[i] = slots[i + 1]
          BY <1>2, <2>2, <2>3, <4>1
        <5> QED
          BY <1>1, <5>1
      <4>2. CASE i \notin s .. size - 1
        BY <1>1, <1>2, <2>3, <4>2 DEF Null
      <4> QED
        BY <4>1, <4>2
    <3>4. slots' \in [1 .. Len(slots) -> Nat]
      <4>1. \A i \in DOMAIN slots : slots'[i] \in Nat
        BY <1>2, <3>3
      <4>2. slots' = [j \in 1 .. Len(slots) |-> slots'[j]]
        BY <1>2, <2>3
      <4> QED
        BY <1>2, <4>1, <4>2
    <3>5. slots' \in Seq(Nat)
      BY <1>2, <3>4, SeqDef
    <3> QED
      BY <1>2, <3>1, <3>2, <3>3, <3>4, <3>5
  <2>7. /\ heap' \in Seq(Object) /\ Len(heap') = Len(heap)
        /\ \A o \in 1 .. Len(heap) : o # slots[s] => heap'[o] = heap[o]
    <3>1. [heap[slots[s]] EXCEPT !.alive = FALSE] \in Object
      BY <1>2, <2>2 DEF Object
    <3>2. heap' = [heap EXCEPT ![slots[s]] = [heap[slots[s]] EXCEPT !.alive = FALSE]]
      BY <2>3
    <3>3. slots[s] \in 1 .. Len(heap)
      BY <1>2, <2>2
    <3> QED
      BY <1>1, <3>1, <3>2, <3>3
  <2>8. ASSUME NEW i \in 1 .. size - 1
        PROVE  /\ slots'[i] = slots[from[i]] /\ slots'[i] \in 1 .. Len(heap')
               /\ heap'[slots'[i]] = Scripts[from[i]] /\ heap'[slots'[i]].alive
    <3>1. from[i] \in 1 .. size /\ from[i] # s /\ slots'[i] = slots[from[i]]
      BY <2>5, <2>6
    <3>2. slots[from[i]] \in 1 .. Len(heap) /\ slots[from[i]] # slots[s]
      BY <1>2, <2>2, <3>1 DEF VInv, Vector
    <3>3. heap'[slots'[i]] = Scripts[from[i]]
      BY <1>2, <2>7, <3>1, <3>2
    <3>4. Scripts[from[i]].alive
      BY <1>2, <3>1 DEF VInv, Vector
    <3> QED
      BY <2>7, <3>1, <3>2, <3>3, <3>4
  <2>9. /\ DOMAIN Scripts' = 1 .. size - 1
        /\ \A i \in 1 .. size - 1 : Scripts'[i] = Scripts[from[i]]
    <3>1. Scripts' = [i \in 1 .. size - 1 |-> heap'[slots'[i]]]
      BY <2>3 DEF Scripts
    <3> QED
      BY <2>8, <3>1
  <2>10. Single(Scripts')
    <3>1. ASSUME NEW i \in 1 .. size - 1, NEW j \in 1 .. size - 1,
                 Scripts'[i].name = Scripts'[j].name
          PROVE  i = j
      <4>1. Scripts[from[i]].name = Scripts[from[j]].name
        BY <2>9, <3>1
      <4>2. from[i] \in DOMAIN Scripts /\ from[j] \in DOMAIN Scripts
        BY <1>2, <2>5
      <4>3. from[i] = from[j]
        BY <4>1, <4>2 DEF VInv, Single
      <4> QED
        BY <2>5, <4>3
    <3> QED
      BY <2>9, <3>1 DEF Single
  <2>11. Vector'
    <3>1. \A i \in DOMAIN slots' : slots'[i] \in 0 .. Len(heap')
      BY <2>6, <2>7
    <3>2. \A i, j \in 1 .. size - 1 : slots'[i] = slots'[j] => i = j
      BY <2>5, <2>6 DEF VInv, Vector
    <3> QED
      BY <2>3, <2>8, <3>1, <3>2 DEF Vector
  <2>12. size' \in Nat /\ size' <= Len(slots') /\ Len(heap') >= Len(heap)
    BY <1>2, <2>2, <2>3, <2>6, <2>7
  <2>13. VInv'
    BY <1>1, <2>6, <2>7, <2>10, <2>11, <2>12, AnsweredKeepsVInv
  <2>14. \A m, x : HasText(Scripts', m, x) <=> m # request.name /\ HasText(Scripts, m, x)
    <3>1. ASSUME NEW m, NEW x, HasText(Scripts', m, x)
          PROVE  m # request.name /\ HasText(Scripts, m, x)
      <4>1. PICK i \in 1 .. size - 1 : Scripts'[i].name = m /\ Scripts'[i].text = x
        BY <2>9, <3>1 DEF HasText
      <4>2. Scripts'[i] = Scripts[from[i]] /\ from[i] \in 1 .. size /\ from[i] # s
        BY <2>5, <2>9
      <4> QED
        BY <1>2, <2>2, <4>1, <4>2 DEF HasText
    <3>2. ASSUME NEW m, NEW x, HasText(Scripts, m, x), m # request.name
          PROVE  HasText(Scripts', m, x)
      <4>1. PICK k \in 1 .. size : Scripts[k].name = m /\ Scripts[k].text = x
        BY <1>2, <3>2 DEF HasText
      <4>2. PICK i \in 1 .. size - 1 : from[i] = k
        BY <2>2, <2>5, <3>2, <4>1
      <4> QED
        BY <2>9, <4>1, <4>2 DEF HasText
    <3> QED
      BY <3>1, <3>2
  <2> QED
    BY <2>13, <2>14
<1> QED
  BY <1>3, <1>4

-----------------------------------------------------------------------------
(* The remaining steps, and the first theorem.                             *)
LEMMA OtherSteps ==
    ASSUME VInv,
           \/ Stop \/ ProcessBegin
           \/ \E w \in Workers : SubmitScript(w) \/ ScriptTask(w)
           \/ UNCHANGED vars
    PROVE  /\ VInv' /\ UNCHANGED table
           /\ \A n, t : HasText(Scripts, n, t)' <=> HasText(Scripts, n, t)
<1>1. UNCHANGED heap => SameObjects
  BY DEF VInv, Types, SameObjects
<1>2. ASSUME SameVector, UNCHANGED table, Types'
      PROVE  /\ \A n, t : HasText(Scripts, n, t)' <=> HasText(Scripts, n, t)
             /\ \A n : InUse(n)' <=> InUse(n)
             /\ Single(rows)' /\ Single(Scripts)' /\ Vector'
  BY <1>2, VectorKept DEF VInv, table, Single
<1>3. CASE Stop
  <2>1. /\ SameVector /\ main' = "stopped"
        /\ UNCHANGED <<table, heap, vector, request, process, tasks>>
    BY <1>1, <1>3 DEF Stop, SameVector, vector
  <2>2. Types'
    BY <2>1 DEF VInv, Types, table, vector, process, tasks
  <2>3. Pending' /\ Down' /\ Targets'
    BY <2>1 DEF VInv, Pending, Down, Targets, tasks
  <2> QED
    BY <1>2, <2>1, <2>2, <2>3 DEF VInv
<1>4. CASE ProcessBegin
  <2>1. /\ SameVector /\ main # "down" /\ walk' \in Walk
        /\ UNCHANGED <<table, heap, vector, main, request, tasks>>
    BY <1>1, <1>4 DEF ProcessBegin, SameVector, vector, Walk, VInv, Types
  <2>2. Types'
    BY <2>1 DEF VInv, Types, table, vector, tasks
  <2>3. Pending'
    BY <1>2, <2>1, <2>2 DEF VInv, Pending, InUse
  <2>4. Down' /\ Targets'
    BY <2>1 DEF VInv, Down, Targets, tasks
  <2> QED
    BY <1>2, <2>1, <2>2, <2>3, <2>4 DEF VInv
<1>5. ASSUME NEW w \in Workers, SubmitScript(w)
      PROVE  /\ VInv' /\ UNCHANGED table
             /\ \A n, t : HasText(Scripts, n, t)' <=> HasText(Scripts, n, t)
  <2>1. /\ SameVector /\ walk # NoWalk
        /\ UNCHANGED <<table, heap, vector, main, request, task, stage, target>>
    BY <1>1, <1>5 DEF SubmitScript, SameVector, vector
  <2>2. main # "down"
    BY <2>1 DEF VInv, Down
  <2> DEFINE new == [slot |-> walk.at, buffer |-> walk.buffer,
                     for |-> At(walk.buffer, walk.at), version |-> walk.version]
  <2>3. walk \in Walk /\ new \in Task
    <3>1. At(walk.buffer, walk.at) \in Nat
      BY Found DEF VInv, Types
    <3> QED
      BY <3>1 DEF VInv, Types, Walk, Task
  <2> HIDE DEF new
  <2>4. walk' \in Walk
    <3>1. NoWalk \in Walk /\ [walk EXCEPT !.at = @ + 1] \in Walk
      BY <2>3 DEF Walk, NoWalk
    <3> QED
      BY <1>5, <3>1 DEF SubmitScript
  <2>5. queue' \in [Workers -> Seq(Task)]
    <3>1. queue' = [queue EXCEPT ![w] = Append(queue[w], new)]
      BY <1>5 DEF SubmitScript, new
    <3>2. Append(queue[w], new) \in Seq(Task)
      BY <2>3, Appended DEF VInv, Types
    <3> QED
      BY <3>1, <3>2 DEF VInv, Types
  <2>6. Types'
    BY <2>1, <2>4, <2>5 DEF VInv, Types, table, vector
  <2>7. Pending'
    BY <1>2, <2>1, <2>6 DEF VInv, Pending, InUse
  <2>8. Down' /\ Targets'
    BY <2>1, <2>2 DEF VInv, Down, Targets
  <2> QED
    BY <1>2, <2>1, <2>6, <2>7, <2>8 DEF VInv
<1>6. ASSUME NEW w \in Workers, ScriptTask(w)
      PROVE  /\ VInv' /\ UNCHANGED table
             /\ \A n, t : HasText(Scripts, n, t)' <=> HasText(Scripts, n, t)
  <2>1. /\ UNCHANGED <<table, vector, should_stop, main, request, process, boots>>
        /\ SameVector
        /\ queue' \in [Workers -> Seq(Task)] /\ task' \in [Workers -> Task]
        /\ stage' \in [Workers -> Stages] /\ target' \in [Workers -> Nat]
        /\ \A v \in Workers : v # w => UNCHANGED <<queue[v], task[v], stage[v], target[v]>>
        /\ main # "down"
        /\ stage'[w] # "idle" => target'[w] \in 1 .. Len(heap)
    BY <1>6, TaskEffect
  <2>2. heap' \in Seq(Object) /\ Len(heap') = Len(heap)
    BY <2>1 DEF SameVector, SameObjects
  <2>3. Types'
    BY <2>1, <2>2 DEF VInv, Types, table, vector, process
  <2>4. Pending'
    BY <1>2, <2>1, <2>3 DEF VInv, Pending, InUse
  <2>5. Down'
    BY <2>1 DEF Down
  <2>6. Targets'
    BY <2>1, <2>2 DEF VInv, Targets
  <2> QED
    BY <1>2, <2>1, <2>3, <2>4, <2>5, <2>6 DEF VInv
<1>7. CASE UNCHANGED vars
  <2>1. UNCHANGED <<table, vector, heap, main, request, process, tasks>>
    BY <1>7 DEF vars
  <2>2. SameVector /\ Types'
    BY <1>1, <2>1 DEF VInv, Types, SameVector, vector, table, process, tasks
  <2>3. Pending'
    BY <1>2, <2>1, <2>2 DEF VInv, Pending, InUse
  <2>4. Down' /\ Targets'
    BY <2>1 DEF VInv, Down, Targets, vector, process, tasks
  <2> QED
    BY <1>2, <2>1, <2>2, <2>3, <2>4 DEF VInv
<1> QED
  BY <1>3, <1>4, <1>5, <1>6, <1>7

LEMMA NextKeepsVInv == VInv /\ [Next]_vars => VInv'
<1> SUFFICES ASSUME VInv, [Next]_vars PROVE VInv'
  OBVIOUS
<1>1. ASSUME NEW skipped, Initialize(skipped) PROVE VInv'
  BY <1>1, InitializeKeepsVInv
<1>2. ASSUME NEW n \in Names, NEW t \in Texts, SaveScript(n, t) \/ UpdateScript(n, t) PROVE VInv'
  BY <1>2, SaveEffect, UpdateEffect
<1>3. ASSUME NEW n \in Names, DeleteScript(n) PROVE VInv'
  BY <1>3, DeleteEffect
<1> QED
  BY <1>1, <1>2, <1>3, CrashKeepsVInv, ThrowEffect, EmplaceBackEffect, ReplaceEffect,
     EraseEffect, OtherSteps DEF Next

LEMMA VInvHolds == Spec => []VInv
BY VInvStart, NextKeepsVInv, PTL DEF Spec

\* Whatever requests, tasks, crashes and starts do, neither the table nor the vector
\* ever holds two scripts of one name, and the vector holds no destroyed script and no
\* script twice (SaveScript, UpdateScript, DeleteScript, Initialize).
THEOREM NamesStayUnique == Spec => []NamesUnique
<1>1. VInv => NamesUnique
  <2> SUFFICES ASSUME VInv PROVE NamesUnique
    OBVIOUS
  <2>1. /\ DOMAIN Scripts = 1 .. size
        /\ \A i \in 1 .. size : Scripts[i] = heap[slots[i]]
    BY ScriptsNow DEF VInv
  <2> QED
    BY <2>1 DEF VInv, Single, Vector, NamesUnique
<1> QED
  BY <1>1, VInvHolds, PTL

-----------------------------------------------------------------------------
(* Table and vector.  While a request is at work they may differ for its   *)
(* name; what it has written waits in the table to be answered.            *)
Agree(n) == \A t : HasText(rows, n, t) <=> HasText(Scripts, n, t)

InRows(n) == \E t : HasText(rows, n, t)

Serving ==
    main = "serve" =>
        /\ \A n \in Names \ astray : Agree(n)
        /\ \A n, t : HasText(Scripts, n, t) => InRows(n)

Applying ==
    main = "apply" =>
        /\ \A n \in Names \ astray : n # request.name => Agree(n)
        /\ \A n, t : HasText(Scripts, n, t) /\ n # request.name => InRows(n)
        /\ \A t : HasText(rows, request.name, t) <=> t \in Texts /\ t = request.text

Promises ==
    \A n \in Names : /\ promised[n] = Absent => ~InRows(n)
                     /\ promised[n] \in Texts => HasText(rows, n, promised[n])

AInv == VInv /\ (~amiss => Serving /\ Applying /\ Promises)

LEMMA Typed ==
    ASSUME VInv
    PROVE  /\ \A n, t : HasText(rows, n, t) => n \in Names /\ t \in Texts
           /\ \A n, t : HasText(Scripts, n, t) => n \in Names /\ t \in Texts
           /\ \A n : InUse(n) <=> \E t : HasText(Scripts, n, t)
           /\ \A n, t, u : HasText(rows, n, t) /\ HasText(rows, n, u) => t = u
           /\ \A n, t, u : HasText(Scripts, n, t) /\ HasText(Scripts, n, u) => t = u
<1>1. \A i \in DOMAIN rows : rows[i].name \in Names /\ rows[i].text \in Texts
  <2>1. \A i \in DOMAIN rows : rows[i] \in Row
    BY DEF VInv, Types
  <2> QED
    BY <2>1 DEF Row
<1>2. \A i \in DOMAIN Scripts : Scripts[i].name \in Names /\ Scripts[i].text \in Texts
  BY ScriptsNow DEF VInv, Object
<1>3. \A n : InUse(n) <=> \E t : HasText(Scripts, n, t)
  BY NamesAreTexts DEF InUse
<1>4. \A n, t, u : HasText(rows, n, t) /\ HasText(rows, n, u) => t = u
  BY DEF VInv, Single, HasText
<1>5. \A n, t, u : HasText(Scripts, n, t) /\ HasText(Scripts, n, u) => t = u
  BY DEF VInv, Single, HasText
<1> QED
  BY <1>1, <1>2, <1>3, <1>4, <1>5 DEF HasText

\* An answer brings the vector, for its name, to what the request has written.
LEMMA AnswerEffect ==
    ASSUME VInv, EmplaceBack \/ Replace \/ Erase
    PROVE  /\ VInv' /\ main = "apply" /\ Answered
           /\ request.name \in Names /\ request.text \in Texts \cup {Absent}
           /\ \A m, x : HasText(Scripts', m, x) <=>
                           IF m = request.name THEN x \in Texts /\ x = request.text
                           ELSE HasText(Scripts, m, x)
<1>1. /\ main = "apply" /\ Answered
      /\ request.name \in Names /\ request.text \in Texts \cup {Absent}
      /\ EmplaceBack => request.text \in Texts /\ ~InUse(request.name)
      /\ Replace => request.text \in Texts
      /\ Erase => request.text = Absent
  BY DEF EmplaceBack, Replace, Erase, VInv, Pending
<1>2. CASE EmplaceBack
  <2>1. \A x : ~HasText(Scripts, request.name, x)
    BY <1>1, <1>2, Typed
  <2> QED
    BY <1>1, <1>2, <2>1, EmplaceBackEffect
<1>3. CASE Replace
  BY <1>1, <1>3, ReplaceEffect
<1>4. CASE Erase
  BY <1>1, <1>4, EraseEffect, TextsAssumption
<1> QED
  BY <1>2, <1>3, <1>4

LEMMA AInvStart == Init => AInv
<1> SUFFICES ASSUME Init PROVE AInv
  OBVIOUS
<1>1. \A n \in Names : promised[n] = Unknown
  BY DEF Init
<1>2. Unknown # Absent /\ Unknown \notin Texts
  BY TextsAssumption DEF Unknown, Absent
<1>3. Serving /\ Applying
  BY DEF Init, Serving, Applying
<1>4. Promises
  BY <1>1, <1>2 DEF Promises
<1> QED
  BY <1>3, <1>4, VInvStart DEF AInv

\* The statement of a request, where it reaches no row of another name.
LEMMA WrittenKeepsAInv ==
    ASSUME AInv, NEW op, NEW n \in Names, NEW t, Written(op, n, t), main = "serve",
           VInv', ~amiss, t \in Texts \cup {Absent},
           \A m, x : m # n => (HasText(rows', m, x) <=> HasText(rows, m, x)),
           \A x : HasText(rows', n, x) <=> x \in Texts /\ x = t
    PROVE  AInv'
<1>1. /\ Scripts' = Scripts /\ astray' = astray /\ main' = "apply"
      /\ request'.name = n /\ request'.text = t
      /\ promised' = [promised EXCEPT ![n] = Unknown]
  BY DEF Written, vector, Scripts
<1>2. Serving /\ Promises /\ promised \in [Names -> Texts \cup {Absent, Unknown}]
  BY DEF AInv, VInv, Types
<1>3. \A m : m # n => (InRows(m)' <=> InRows(m))
  BY DEF InRows
<1>4. Serving'
  BY <1>1 DEF Serving
<1>5. Applying'
  <2>1. \A m \in Names \ astray : m # n => Agree(m)'
    BY <1>1, <1>2 DEF Agree, Serving
  <2>2. \A m, x : HasText(Scripts, m, x)' /\ m # n => InRows(m)'
    BY <1>1, <1>2, <1>3 DEF Serving
  <2>3. \A x : HasText(rows, request.name, x)' <=> HasText(rows', n, x)
    BY <1>1
  <2> QED
    BY <1>1, <2>1, <2>2, <2>3 DEF Applying
<1>6. Promises'
  <2>1. ASSUME NEW m \in Names
        PROVE  /\ promised'[m] = Absent => ~InRows(m)'
               /\ promised'[m] \in Texts => HasText(rows, m, promised[m])'
    <3>1. CASE m = n
      BY <1>1, <1>2, <3>1, TextsAssumption DEF Unknown, Absent
    <3>2. CASE m # n
      <4>1. promised'[m] = promised[m]
        BY <1>1, <1>2, <3>2
      <4>2. HasText(rows, m, promised[m])' <=> HasText(rows', m, promised'[m])
        OBVIOUS
      <4> QED
        BY <1>2, <1>3, <3>2, <4>1, <4>2 DEF Promises
    <3> QED
      BY <3>1, <3>2
  <2> QED
    BY <2>1 DEF Promises
<1> QED
  BY <1>4, <1>5, <1>6 DEF AInv

\* What a step that keeps the table keeps of the promises.
LEMMA SamePromises ==
    ASSUME Promises, UNCHANGED <<rows, promised>>
    PROVE  Promises' /\ \A n : InRows(n)' <=> InRows(n)
BY DEF Promises, InRows, HasText

LEMMA NextKeepsAInv == AInv /\ [Next]_vars => AInv'
<1> SUFFICES ASSUME AInv, [Next]_vars PROVE AInv'
  OBVIOUS
<1>1. VInv /\ VInv'
  BY NextKeepsVInv DEF AInv
<1>2. ASSUME NEW skipped, Initialize(skipped) PROVE AInv'
  <2>1. UNCHANGED <<rows, promised, amiss>> /\ main' = "serve" /\ astray' = skipped
    BY <1>2 DEF Initialize
  <2>2. \A n, t : HasText(Scripts', n, t) <=> HasText(rows, n, t) /\ n \notin skipped
    BY <1>1, <1>2, InitializeKeepsVInv
  <2>3. Serving' /\ Applying'
    BY <2>1, <2>2 DEF Serving, Applying, Agree, InRows
  <2> QED
    BY <1>1, <2>1, <2>3, SamePromises DEF AInv
<1>3. CASE Crash
  <2>1. UNCHANGED <<rows, promised, amiss>> /\ main' = "down"
    BY <1>3 DEF Crash, table
  <2>2. Serving' /\ Applying'
    BY <2>1 DEF Serving, Applying
  <2> QED
    BY <1>1, <2>1, <2>2, SamePromises DEF AInv
<1>4. ASSUME NEW n \in Names, NEW t \in Texts, SaveScript(n, t) PROVE AInv'
  <2>1. Written("save", n, t) /\ main = "serve" /\ amiss' = amiss /\ n \notin NamesOf(rows)
    BY <1>4 DEF SaveScript, MayEdit, IsUnique
  <2>2. \A m, x : HasText(rows', m, x) <=> HasText(rows, m, x) \/ (m = n /\ x = t)
    BY <1>1, <1>4, SaveEffect
  <2>3. \A x : ~HasText(rows, n, x)
    BY <2>1, NamesAreTexts
  <2> QED
    BY <1>1, <2>1, <2>2, <2>3, WrittenKeepsAInv DEF AInv
<1>5. ASSUME NEW n \in Names, NEW t \in Texts, UpdateScript(n, t) PROVE AInv'
  <2>1. Written("update", n, t) /\ main = "serve" /\ InUse(n)
    BY <1>5 DEF UpdateScript, MayEdit
  <2>2. PICK hit \in Hits(n, NamesOf(rows)) :
           /\ amiss' = (amiss \/ hit # NamesOf(rows) \cap {n})
           /\ \A m, x : HasText(rows', m, x) <=> IF m \in hit THEN x = t ELSE HasText(rows, m, x)
    BY <1>1, <1>5, UpdateEffect
  <2>3. ASSUME ~amiss' PROVE AInv'
    <3>1. ~amiss /\ Serving /\ \A m : m \in hit <=> m = n /\ n \in NamesOf(rows)
      BY <2>1, <2>2, <2>3, HitsAre DEF AInv
    <3>2. ASSUME NEW m, NEW x, m # n PROVE HasText(rows', m, x) <=> HasText(rows, m, x)
      BY <2>2, <3>1, <3>2
    <3>3. n \in NamesOf(rows)
      BY <1>1, <2>1, <3>1, Typed, NamesAreTexts DEF Serving, InRows
    <3>4. ASSUME NEW x PROVE HasText(rows', n, x) <=> x \in Texts /\ x = t
      BY <2>2, <3>1, <3>3
    <3> QED
      BY <1>1, <2>1, <3>1, <3>2, <3>4, WrittenKeepsAInv
  <2> QED
    BY <1>1, <2>3 DEF AInv
<1>6. ASSUME NEW n \in Names, DeleteScript(n) PROVE AInv'
  <2>1. Written("delete", n, Absent) /\ main = "serve"
    BY <1>6 DEF DeleteScript, MayEdit
  <2>2. PICK hit \in Hits(n, NamesOf(rows)) :
           /\ amiss' = (amiss \/ hit # NamesOf(rows) \cap {n})
           /\ \A m, x : HasText(rows', m, x) <=> m \notin hit /\ HasText(rows, m, x)
    BY <1>1, <1>6, DeleteEffect
  <2>3. ASSUME ~amiss' PROVE AInv'
    <3>1. ~amiss /\ \A m : m \in hit <=> m = n /\ n \in NamesOf(rows)
      BY <2>2, <2>3, HitsAre
    <3>2. ASSUME NEW m, NEW x, m # n PROVE HasText(rows', m, x) <=> HasText(rows, m, x)
      BY <2>2, <3>1, <3>2
    <3>3. ASSUME NEW x PROVE HasText(rows', n, x) <=> x \in Texts /\ x = Absent
      BY <2>2, <3>1, NamesAreTexts, TextsAssumption
    <3> QED
      BY <1>1, <2>1, <3>1, <3>2, <3>3, WrittenKeepsAInv
  <2> QED
    BY <1>1, <2>3 DEF AInv
<1>7. CASE ConstructorThrows
  <2>1. /\ main = "apply" /\ main' = "serve" /\ request.op \in {"save", "update"}
        /\ astray' = astray \cup {request.name} /\ UNCHANGED <<rows, promised, amiss>>
    BY <1>7 DEF ConstructorThrows
  <2>2. Scripts' = Scripts
    BY <1>1, <1>7, ThrowEffect
  <2>3. ASSUME ~amiss PROVE Serving'
    <3>1. Applying /\ request.text \in Texts
      BY <1>1, <2>1, <2>3 DEF AInv, VInv, Pending
    <3>2. \A m \in Names \ astray' : Agree(m)'
      BY <2>1, <2>2, <3>1 DEF Applying, Agree
    <3>3. InRows(request.name)
      BY <2>1, <3>1 DEF Applying, InRows
    <3>4. \A m, x : HasText(Scripts, m, x)' => InRows(m)'
      BY <2>1, <2>2, <3>1, <3>3 DEF Applying, InRows
    <3> QED
      BY <3>2, <3>4 DEF Serving
  <2>4. Applying'
    BY <2>1 DEF Applying
  <2> QED
    BY <1>1, <2>1, <2>3, <2>4, SamePromises DEF AInv
<1>8. CASE EmplaceBack \/ Replace \/ Erase
  <2>1. /\ main = "apply" /\ Answered
        /\ request.name \in Names /\ request.text \in Texts \cup {Absent}
        /\ \A m, x : HasText(Scripts', m, x) <=>
                        IF m = request.name THEN x \in Texts /\ x = request.text
                        ELSE HasText(Scripts, m, x)
    BY <1>1, <1>8, AnswerEffect
  <2>2. /\ main' = "serve" /\ astray' = astray \ {request.name} /\ UNCHANGED <<rows, amiss>>
        /\ promised' = [promised EXCEPT ![request.name] = request.text]
    BY <2>1 DEF Answered
  <2>3. ASSUME ~amiss PROVE Serving' /\ Promises'
    <3>1. Applying /\ Promises /\ promised \in [Names -> Texts \cup {Absent, Unknown}]
      BY <1>1, <2>3 DEF AInv, VInv, Types
    <3>2. \A m \in Names \ astray' : Agree(m)'
      BY <2>1, <2>2, <3>1 DEF Applying, Agree
    <3>3. \A m, x : HasText(Scripts, m, x)' => InRows(m)'
      BY <2>1, <2>2, <3>1 DEF Applying, InRows
    <3>4. Serving'
      BY <3>2, <3>3 DEF Serving
    <3>5. ASSUME NEW m \in Names
          PROVE  /\ promised'[m] = Absent => ~InRows(m)'
                 /\ promised'[m] \in Texts => HasText(rows', m, promised'[m])
      <4>1. CASE m = request.name
        BY <2>1, <2>2, <3>1, <4>1, TextsAssumption DEF Applying, InRows
      <4>2. CASE m # request.name
        BY <2>1, <2>2, <3>1, <4>2 DEF Promises, InRows
      <4> QED
        BY <4>1, <4>2
    <3> QED
      BY <3>4, <3>5 DEF Promises
  <2>4. Applying'
    BY <2>2 DEF Applying
  <2> QED
    BY <1>1, <2>2, <2>3, <2>4 DEF AInv
<1>9. CASE \/ Stop \/ ProcessBegin
           \/ \E w \in Workers : SubmitScript(w) \/ ScriptTask(w)
           \/ UNCHANGED vars
  <2>1. /\ UNCHANGED table
        /\ \A n, t : HasText(Scripts, n, t)' <=> HasText(Scripts, n, t)
    BY <1>1, <1>9, OtherSteps
  <2>2. main' = "stopped" \/ UNCHANGED <<main, request>>
    BY <1>1, <1>9, TaskEffect DEF Stop, ProcessBegin, SubmitScript, vars
  <2>3. ASSUME ~amiss PROVE Serving' /\ Applying'
    <3>1. /\ \A n, t : HasText(rows, n, t)' <=> HasText(rows, n, t)
          /\ \A n : Agree(n)' <=> Agree(n)
          /\ \A n : InRows(n)' <=> InRows(n)
      <4>1. \A n, t : HasText(rows, n, t)' <=> HasText(rows, n, t)
        BY <2>1 DEF HasText, table
      <4> QED
        BY <2>1, <4>1 DEF Agree, InRows
    <3>2. CASE main' = "stopped"
      BY <3>2 DEF Serving, Applying
    <3>3. CASE UNCHANGED <<main, request>>
      <4>1. Serving /\ Applying /\ astray' = astray
        BY <2>1, <2>3 DEF AInv, table
      <4>2. Serving'
        BY <2>1, <3>1, <3>3, <4>1 DEF Serving
      <4>3. \A t : HasText(rows, request.name, t)' <=> HasText(rows, request.name, t)
        BY <2>1, <3>3 DEF table, HasText
      <4>4. Applying'
        BY <2>1, <3>1, <3>3, <4>1, <4>3 DEF Applying
      <4> QED
        BY <4>2, <4>4
    <3> QED
      BY <2>2, <3>2, <3>3
  <2> QED
    BY <1>1, <2>1, <2>3, SamePromises DEF AInv, table
<1> QED
  BY <1>2, <1>3, <1>4, <1>5, <1>6, <1>7, <1>8, <1>9 DEF Next

LEMMA AInvHolds == Spec => []AInv
BY AInvStart, NextKeepsAInv, PTL DEF Spec

\* Between requests a script that runs has its row, and table and vector have the same
\* texts, except for names whose object could not be made and unless a statement about a
\* column's name has gone amiss (QuotedNames; ScriptManager.h, lines 241 and 267).
THEOREM StoresAgree == Spec => []InStep
<1>1. AInv => InStep
  <2> SUFFICES ASSUME AInv, main = "serve", ~amiss
      PROVE /\ NamesOf(Scripts) \subseteq NamesOf(rows)
            /\ \A n \in Names \ astray :
                 {rows[i].text : i \in {j \in DOMAIN rows : rows[j].name = n}}
                   = {Scripts[i].text : i \in {j \in 1 .. size : Scripts[j].name = n}}
    BY DEF InStep
  <2>1. Serving /\ VInv
    BY DEF AInv
  <2>2. NamesOf(Scripts) \subseteq NamesOf(rows)
    BY <2>1, NamesAreTexts DEF Serving, InRows
  <2>3. DOMAIN Scripts = 1 .. size
    BY <2>1, ScriptsNow DEF VInv
  <2>4. ASSUME NEW n \in Names \ astray
        PROVE  {rows[i].text : i \in {j \in DOMAIN rows : rows[j].name = n}}
                 = {Scripts[i].text : i \in {j \in 1 .. size : Scripts[j].name = n}}
    <3>1. Agree(n)
      BY <2>1 DEF Serving
    <3>2. {rows[i].text : i \in {j \in DOMAIN rows : rows[j].name = n}} = {t \in Texts : HasText(rows, n, t)}
      BY <2>1, Typed DEF HasText
    <3>3. {Scripts[i].text : i \in {j \in 1 .. size : Scripts[j].name = n}} = {t \in Texts : HasText(Scripts, n, t)}
      BY <2>1, <2>3, Typed DEF HasText
    <3> QED
      BY <3>1, <3>2, <3>3 DEF Agree
  <2> QED
    BY <2>2, <2>4
<1> QED
  BY <1>1, AInvHolds, PTL

\* A success answer about a script is kept: until another request about that name has
\* executed its statement, the table holds what was answered, across every failure,
\* crash and start, unless a statement about a column's name has gone amiss.
THEOREM AnswersHold == Spec => []AnswersKept
<1>1. AInv => AnswersKept
  <2> SUFFICES ASSUME AInv, ~amiss, NEW n \in Names
      PROVE /\ promised[n] = Absent => n \notin NamesOf(rows)
            /\ promised[n] \in Texts =>
                 \E i \in DOMAIN rows : rows[i] = [name |-> n, text |-> promised[n]]
    BY DEF AnswersKept
  <2>1. Promises /\ \A i \in DOMAIN rows : rows[i] \in Row
    BY DEF AInv, VInv, Types
  <2>2. promised[n] = Absent => n \notin NamesOf(rows)
    BY <2>1, NamesAreTexts DEF Promises, InRows
  <2>3. ASSUME promised[n] \in Texts
        PROVE  \E i \in DOMAIN rows : rows[i] = [name |-> n, text |-> promised[n]]
    <3>1. PICK i \in DOMAIN rows : rows[i].name = n /\ rows[i].text = promised[n]
      BY <2>1, <2>3 DEF Promises, HasText
    <3>2. rows[i] = [name |-> n, text |-> promised[n]]
      BY <2>1, <3>1 DEF Row
    <3> QED
      BY <3>2
  <2> QED
    BY <2>2, <2>3
<1> QED
  BY <1>1, AInvHolds, PTL

-----------------------------------------------------------------------------
(* The abstract store.                                                     *)
Stored  == [n \in Names |-> TextIn(rows, n)]
Running == [n \in Names |-> TextIn(Scripts, n)]
Edit    == IF main = "apply" THEN {[name |-> request.name, text |-> request.text]} ELSE {}

LEMMA TextFacts ==
    ASSUME NEW seq, Single(seq), \A n, t : HasText(seq, n, t) => t \in Texts
    PROVE  \A n : /\ TextIn(seq, n) \in Texts \cup {Absent}
                  /\ \A t : HasText(seq, n, t) <=> t \in Texts /\ TextIn(seq, n) = t
                  /\ TextIn(seq, n) = Absent <=> \A t : ~HasText(seq, n, t)
<1> TAKE n
<1>1. CASE n \in NamesOf(seq)
  <2>1. \E i \in DOMAIN seq : seq[i].name = n
    BY <1>1, NamesAreTexts
  <2>2. PICK i : i = CHOOSE j \in DOMAIN seq : seq[j].name = n
    OBVIOUS
  <2>3. i \in DOMAIN seq /\ seq[i].name = n
    BY <2>1, <2>2
  <2>4. TextIn(seq, n) = seq[i].text
    BY <1>1, <2>2 DEF TextIn
  <2>5. HasText(seq, n, seq[i].text)
    BY <2>3 DEF HasText
  <2>6. \A t : HasText(seq, n, t) => t = seq[i].text
    BY <2>3 DEF HasText, Single
  <2> QED
    BY <2>4, <2>5, <2>6, TextsAssumption
<1>2. CASE n \notin NamesOf(seq)
  <2>1. TextIn(seq, n) = Absent /\ \A t : ~HasText(seq, n, t)
    BY <1>2, NamesAreTexts DEF TextIn
  <2> QED
    BY <2>1, TextsAssumption
<1> QED
  BY <1>1, <1>2

TextsOfStore ==
    /\ Stored \in [Names -> Texts \cup {Absent}]
    /\ Running \in [Names -> Texts \cup {Absent}]
    /\ \A n \in Names :
          /\ \A t : HasText(rows, n, t) <=> t \in Texts /\ Stored[n] = t
          /\ \A t : HasText(Scripts, n, t) <=> t \in Texts /\ Running[n] = t
          /\ Stored[n] = Absent <=> n \notin NamesOf(rows)
          /\ Running[n] = Absent <=> ~InUse(n)

LEMMA StoreFacts == VInv => TextsOfStore
<1> SUFFICES ASSUME VInv PROVE TextsOfStore
  OBVIOUS
<1>1. \A n : /\ TextIn(rows, n) \in Texts \cup {Absent}
             /\ \A t : HasText(rows, n, t) <=> t \in Texts /\ TextIn(rows, n) = t
             /\ TextIn(rows, n) = Absent <=> \A t : ~HasText(rows, n, t)
  BY TextFacts, Typed DEF VInv
<1>2. \A n : /\ TextIn(Scripts, n) \in Texts \cup {Absent}
             /\ \A t : HasText(Scripts, n, t) <=> t \in Texts /\ TextIn(Scripts, n) = t
             /\ TextIn(Scripts, n) = Absent <=> \A t : ~HasText(Scripts, n, t)
  BY TextFacts, Typed DEF VInv
<1> QED
  BY <1>1, <1>2, NamesAreTexts DEF Stored, Running, InUse, TextsOfStore

LEMMA StoreFactsNext == VInv' => TextsOfStore'
BY StoreFacts, PTL

\* A text that the step gives to the rows or scripts of a name.
LEMMA Becomes ==
    ASSUME VInv, VInv'
    PROVE  \A n \in Names, v \in Texts \cup {Absent} :
              /\ (\A t : HasText(rows', n, t) <=> t \in Texts /\ t = v) => Stored'[n] = v
              /\ (\A t : HasText(Scripts', n, t) <=> t \in Texts /\ t = v) => Running'[n] = v
              /\ (\A t : HasText(rows', n, t) <=> HasText(rows, n, t)) => Stored'[n] = Stored[n]
              /\ (\A t : HasText(Scripts', n, t) <=> HasText(Scripts, n, t)) => Running'[n] = Running[n]
<1> TAKE n \in Names, v \in Texts \cup {Absent}
<1>1. /\ Stored'[n] \in Texts \cup {Absent} /\ Running'[n] \in Texts \cup {Absent}
      /\ \A t : HasText(rows', n, t) <=> t \in Texts /\ Stored'[n] = t
      /\ \A t : HasText(Scripts', n, t) <=> t \in Texts /\ Running'[n] = t
  BY StoreFactsNext DEF TextsOfStore
<1>2. /\ Stored[n] \in Texts \cup {Absent} /\ Running[n] \in Texts \cup {Absent}
      /\ \A t : HasText(rows, n, t) <=> t \in Texts /\ Stored[n] = t
      /\ \A t : HasText(Scripts, n, t) <=> t \in Texts /\ Running[n] = t
  BY StoreFacts DEF TextsOfStore
<1> QED
  BY <1>1, <1>2, TextsAssumption

LEMMA StoreStarts == Init => Store!Init
<1> SUFFICES ASSUME Init PROVE Store!Init
  OBVIOUS
<1>1. Stored \in [Names -> Texts \cup {Absent}] /\ \A n \in Names : Running[n] = Absent
  <2>1. VInv /\ TextsOfStore
    BY VInvStart, StoreFacts
  <2>2. \A n : ~InUse(n)
    BY <2>1, ScriptsNow DEF Init, InUse, NamesOf, VInv
  <2> QED
    BY <2>1, <2>2 DEF TextsOfStore
<1>2. Running = [n \in Names |-> Absent]
  BY <1>1 DEF Running
<1>3. main = "down"
  BY DEF Init
<1> QED
  BY <1>1, <1>2, <1>3 DEF Store!Init, Store!Nowhere, Stored, Running

\* The statement of a request.
LEMMA WrittenStores ==
    ASSUME NEW op, NEW n, NEW t, Written(op, n, t), main = "serve"
    PROVE  /\ Running' = Running /\ Edit = {} /\ Edit' = {[name |-> n, text |-> t]}
           /\ main # "down" /\ main' # "down"
<1>1. /\ UNCHANGED <<slots, size, heap>> /\ main' = "apply"
      /\ request' = [op |-> op, name |-> n, text |-> t]
  BY DEF Written, vector
<1>2. Scripts' = Scripts
  BY <1>1 DEF Scripts
<1>3. request'.name = n /\ request'.text = t
  BY <1>1
<1> QED
  BY <1>1, <1>2, <1>3 DEF Running, Edit

\* The names the store keeps are those of the rows.
LEMMA KeptAreRows == ASSUME VInv, TextsOfStore PROVE Store!Kept = NamesOf(rows)
<1>1. NamesOf(rows) \subseteq Names
  BY Typed, NamesAreTexts
<1>2. \A n \in Names : Stored[n] = Absent <=> n \notin NamesOf(rows)
  BY DEF TextsOfStore
<1> QED
  BY <1>1, <1>2 DEF Store!Kept, Stored

LEMMA StepsStore == VInv /\ [Next]_vars => [Store!Next]_Store!vars
<1> SUFFICES ASSUME VInv, [Next]_vars PROVE [Store!Next]_Store!vars
  OBVIOUS
<1>1. VInv' /\ TextsOfStore
  BY NextKeepsVInv, StoreFacts
<1>2. /\ Absent \in Texts \cup {Absent} /\ Absent \notin Texts
      /\ \A t \in Texts : t \in Texts \cup {Absent}
  BY TextsAssumption
<1>3. ASSUME NEW skipped \in SUBSET NamesOf(rows), Initialize(skipped) PROVE Store!Start
  <2>1. UNCHANGED rows /\ main = "down" /\ main' = "serve"
    BY <1>3 DEF Initialize
  <2>2. \A n, t : HasText(Scripts', n, t) <=> HasText(rows, n, t) /\ n \notin skipped
    BY <1>3, InitializeKeepsVInv
  <2>3. ASSUME NEW n \in Names
        PROVE  Running'[n] = IF n \in skipped THEN Absent ELSE Stored[n]
    <3>1. Stored[n] \in Texts \cup {Absent} /\ \A t : HasText(rows, n, t) <=> t \in Texts /\ Stored[n] = t
      BY <1>1 DEF TextsOfStore
    <3>2. CASE n \in skipped
      BY <1>1, <1>2, <2>2, <3>2, Becomes
    <3>3. CASE n \notin skipped
      BY <1>1, <2>2, <3>1, <3>3, Becomes
    <3> QED
      BY <3>2, <3>3
  <2>4. Running' = [n \in Names |-> IF n \in skipped THEN Absent ELSE Stored[n]]
    BY <2>3 DEF Running
  <2>5. skipped \in SUBSET Names
    BY <1>1, Typed, NamesAreTexts
  <2>6. Stored' = Stored /\ Edit = {} /\ Edit' = {}
    BY <2>1 DEF Stored, Edit
  <2> QED
    BY <2>1, <2>4, <2>5, <2>6 DEF Store!Start, Stored, Running, Edit
<1>4. CASE Crash
  <2>1. UNCHANGED rows /\ main # "down" /\ main' = "down" /\ size' = 0
    BY <1>4 DEF Crash, table
  <2>2. \A n \in Names : Running'[n] = Absent
    <3>1. \A n, t : ~HasText(Scripts', n, t)
      BY <2>1 DEF Scripts, HasText
    <3> QED
      BY <1>1, <1>2, <3>1, Becomes
  <2>3. Running' = [n \in Names |-> Absent]
    BY <2>2 DEF Running
  <2>4. Stored' = Stored /\ Edit' = {}
    BY <2>1 DEF Stored, Edit
  <2>5. Store!Die
    BY <2>1, <2>3, <2>4 DEF Store!Die, Store!Nowhere, Stored, Running, Edit
  <2> QED
    BY <2>5 DEF Store!Next
<1>5. ASSUME NEW n \in Names, NEW t \in Texts, SaveScript(n, t) PROVE Store!Save(n, t)
  <2>1. /\ Written("save", n, t) /\ main = "serve" /\ ~InUse(n) /\ n \notin NamesOf(rows)
    BY <1>5 DEF SaveScript, MayEdit, IsUnique
  <2>2. /\ \A m, x : HasText(rows', m, x) <=> HasText(rows, m, x) \/ (m = n /\ x = t)
        /\ \A x : ~HasText(rows, n, x)
    BY <1>5, <2>1, SaveEffect, NamesAreTexts
  <2>3. Stored[n] = Absent /\ Running[n] = Absent
    BY <1>1, <2>1 DEF TextsOfStore
  <2>4. \A m \in Names : Stored'[m] = IF m = n THEN t ELSE Stored[m]
    BY <1>1, <1>2, <2>2, Becomes
  <2>5. Stored' = [Stored EXCEPT ![n] = t]
    BY <2>4 DEF Stored
  <2> QED
    BY <2>1, <2>3, <2>5, WrittenStores DEF Store!Save, Store!Store, Stored, Running, Edit
<1>6. ASSUME NEW n \in Names, NEW t \in Texts, UpdateScript(n, t) PROVE Store!Update(n, t)
  <2>1. /\ Written("update", n, t) /\ main = "serve" /\ InUse(n)
    BY <1>6 DEF UpdateScript, MayEdit
  <2>2. PICK hit \in Hits(n, NamesOf(rows)) :
           \A m, x : HasText(rows', m, x) <=> IF m \in hit THEN x = t ELSE HasText(rows, m, x)
    BY <1>6, UpdateEffect
  <2>3. Running[n] # Absent
    BY <1>1, <2>1 DEF TextsOfStore
  <2>4. hit \in Store!Hits(n, Store!Kept)
    BY <1>1, <2>2, KeptAreRows DEF Hits, Store!Hits
  <2>5. ASSUME NEW m \in Names
        PROVE  Stored'[m] = IF m \in hit THEN t ELSE Stored[m]
    <3>1. CASE m \in hit
      BY <1>1, <1>2, <2>2, <3>1, Becomes
    <3>2. CASE m \notin hit
      BY <1>1, <1>2, <2>2, <3>2, Becomes
    <3> QED
      BY <3>1, <3>2
  <2>6. Stored' = [m \in Names |-> IF m \in hit THEN t ELSE Stored[m]]
    BY <2>5 DEF Stored
  <2> QED
    BY <2>1, <2>3, <2>4, <2>6, WrittenStores DEF Store!Update, Store!Store, Stored, Running, Edit
<1>7. ASSUME NEW n \in Names, DeleteScript(n) PROVE Store!Delete(n)
  <2>1. Written("delete", n, Absent) /\ main = "serve"
    BY <1>7 DEF DeleteScript, MayEdit
  <2>2. PICK hit \in Hits(n, NamesOf(rows)) :
           \A m, x : HasText(rows', m, x) <=> m \notin hit /\ HasText(rows, m, x)
    BY <1>7, DeleteEffect
  <2>3. hit \in Store!Hits(n, Store!Kept)
    BY <1>1, <2>2, KeptAreRows DEF Hits, Store!Hits
  <2>4. ASSUME NEW m \in Names
        PROVE  Stored'[m] = IF m \in hit THEN Absent ELSE Stored[m]
    <3>1. CASE m \in hit
      BY <1>1, <1>2, <2>2, <3>1, Becomes
    <3>2. CASE m \notin hit
      BY <1>1, <1>2, <2>2, <3>2, Becomes
    <3> QED
      BY <3>1, <3>2
  <2>5. Stored' = [m \in Names |-> IF m \in hit THEN Absent ELSE Stored[m]]
    BY <2>4 DEF Stored
  <2> QED
    BY <2>1, <2>3, <2>5, WrittenStores DEF Store!Delete, Store!Store, Stored, Running, Edit
<1>8. CASE ConstructorThrows
  <2>1. main = "apply" /\ main' = "serve" /\ rows' = rows /\ Scripts' = Scripts
    BY <1>8, ThrowEffect DEF ConstructorThrows
  <2>2. Stored' = Stored /\ Running' = Running /\ Edit # {} /\ Edit' = {}
    BY <2>1 DEF Stored, Running, Edit
  <2>3. Store!GiveUp
    BY <2>1, <2>2 DEF Store!GiveUp, Stored, Running, Edit
  <2> QED
    BY <2>3 DEF Store!Next
<1>9. CASE EmplaceBack \/ Replace \/ Erase
  <2>1. /\ main = "apply" /\ Answered
        /\ request.name \in Names /\ request.text \in Texts \cup {Absent}
        /\ \A m, x : HasText(Scripts', m, x) <=>
                        IF m = request.name THEN x \in Texts /\ x = request.text
                        ELSE HasText(Scripts, m, x)
    BY <1>9, AnswerEffect
  <2>2. main' = "serve" /\ rows' = rows
    BY <2>1 DEF Answered
  <2>3. \A m \in Names : Running'[m] = IF m = request.name THEN request.text ELSE Running[m]
    BY <1>1, <1>2, <2>1, Becomes
  <2>4. Running' = [Running EXCEPT ![request.name] = request.text]
    BY <2>3 DEF Running
  <2>5. Stored' = Stored /\ Edit' = {}
    BY <2>2 DEF Stored, Edit
  <2>6. PICK e : e = [name |-> request.name, text |-> request.text]
    OBVIOUS
  <2>7. e \in Edit /\ e.name = request.name /\ e.text = request.text
    BY <2>1, <2>6 DEF Edit
  <2>8. Store!Finish
    BY <2>1, <2>2, <2>4, <2>5, <2>7 DEF Store!Finish, Stored, Running, Edit
  <2> QED
    BY <2>8 DEF Store!Next
<1>10. CASE \/ Stop \/ ProcessBegin
            \/ \E w \in Workers : SubmitScript(w) \/ ScriptTask(w)
            \/ UNCHANGED vars
  <2>1. /\ rows' = rows
        /\ \A n, t : HasText(Scripts', n, t) <=> HasText(Scripts, n, t)
    BY <1>10, OtherSteps DEF table, HasText
  <2>2. \/ main = "serve" /\ main' = "stopped"
        \/ UNCHANGED <<main, request>>
    BY <1>10, TaskEffect DEF Stop, ProcessBegin, SubmitScript, vars
  <2>3. \A m \in Names : Running'[m] = Running[m]
    BY <1>1, <1>2, <2>1, Becomes
  <2>4. Stored' = Stored /\ Running' = Running
    BY <2>1, <2>3 DEF Stored, Running
  <2>5. Edit' = Edit /\ (main' # "down") = (main # "down")
    BY <2>2 DEF Edit
  <2> QED
    BY <2>4, <2>5 DEF Store!vars, Stored, Running, Edit
<1>11. CASE \E skipped \in SUBSET NamesOf(rows) : Initialize(skipped)
  BY <1>3, <1>11 DEF Store!Next
<1>12. CASE \E n \in Names, t \in Texts : SaveScript(n, t) \/ UpdateScript(n, t)
  BY <1>5, <1>6, <1>12 DEF Store!Next
<1>13. CASE \E n \in Names : DeleteScript(n)
  BY <1>7, <1>13 DEF Store!Next
<1> QED
  BY <1>4, <1>8, <1>9, <1>10, <1>11, <1>12, <1>13 DEF Next

\* Whatever the slots, the objects and the tasks do, the table and the vector together
\* are a store of scripts: a statement changes the rows its WHERE clause hits, its answer
\* what runs, a start loads what is stored, and no other step changes either (ScriptStore).
THEOREM ImplementsStore == Spec => StoreSpec
<1>1. Init => Store!Init
  BY StoreStarts
<1>2. VInv /\ [Next]_vars => [Store!Next]_Store!vars
  BY StepsStore
<1> QED
  BY <1>1, <1>2, VInvHolds, PTL DEF Spec, StoreSpec, Store!Spec

-----------------------------------------------------------------------------
(* Tasks.  One whose version is the vector's is on a slot of the vector;   *)
(* every other one is older, and stays so.                                 *)
OnSlot(t) ==
    /\ t.version <= version
    /\ t.version = version =>
          t.buffer = buffer /\ t.slot \in 1 .. size /\ t.for = slots[t.slot]

Queued == \A w \in Workers : \A i \in DOMAIN queue[w] : OnSlot(queue[w][i])

Walking ==
    walk # NoWalk =>
        /\ walk.at \in 1 .. walk.end /\ walk.version <= version
        /\ walk.version = version => walk.buffer = buffer /\ walk.end = size

Busy ==
    \A w \in Workers : stage[w] # "idle" =>
        OnSlot(task[w]) /\ (task[w].version = version => target[w] = task[w].for)

\* The mutex is held from Lock to Unlock.
Locked == \A w \in Workers : stage[w] \notin {"idle", "lock"} => heap[target[w]].owner = w

Opened ==
    \A w \in Workers :
        /\ stage[w] \in {"call", "clear"} /\ task[w].version = version
        /\ target[w] \notin strayed
        => heap[target[w]].ctx = "open"

TInv == VInv /\ Queued /\ Walking /\ Busy /\ Locked /\ Opened

LEMMA TInvStart == Init => TInv
BY VInvStart DEF Init, TInv, Queued, Walking, Busy, Locked, Opened

\* Nothing that runs or waits is touched by what leaves the vector and the tasks alone.
LEMMA QuietKeepsTInv ==
    ASSUME TInv, VInv',
           UNCHANGED <<slots, size, buffer, version, heap, walk, queue, task, stage, target, strayed>>
    PROVE  TInv'
BY DEF TInv, Queued, Walking, Busy, Locked, Opened, OnSlot

\* A change of the vector takes no mutex and leaves none: objects are destroyed as they
\* are, and the new one is free.
LEMMA OwnersKept ==
    ASSUME VInv, EmplaceBack \/ Replace \/ Erase
    PROVE  /\ \A o \in DOMAIN heap : o \in DOMAIN heap' /\ heap'[o].owner = heap[o].owner
           /\ \A o \in DOMAIN heap' : o \in DOMAIN heap \/ heap'[o].owner = Nobody
<1>0. /\ heap \in Seq(Object) /\ DOMAIN heap = 1 .. Len(heap) /\ main = "apply"
  BY DEF VInv, Types, EmplaceBack, Replace, Erase
<1>1. CASE EmplaceBack
  <2>1. NewScript(request.name, request.text) \in Object
    BY <1>1 DEF EmplaceBack, VInv, Pending, NewScript, Object
  <2>2. NewScript(request.name, request.text).owner = Nobody
    BY DEF NewScript
  <2> QED
    BY <1>0, <1>1, <2>1, <2>2, Appended DEF EmplaceBack
<1>2. ASSUME NEW s \in 1 .. size, NEW q, q = [heap EXCEPT ![slots[s]].alive = FALSE]
      PROVE  /\ q \in Seq(Object) /\ DOMAIN q = DOMAIN heap
             /\ \A o \in DOMAIN heap : q[o].owner = heap[o].owner
  <2>1. slots[s] \in DOMAIN heap /\ heap[slots[s]] \in Object
    BY ScriptsNow DEF VInv
  <2>2. [heap[slots[s]] EXCEPT !.alive = FALSE] \in Object
    BY <1>0, <2>1 DEF Object
  <2>3. [heap[slots[s]] EXCEPT !.alive = FALSE].owner = heap[slots[s]].owner
    BY <1>0, <2>1 DEF Object
  <2>4. q = [heap EXCEPT ![slots[s]] = [heap[slots[s]] EXCEPT !.alive = FALSE]]
    BY <1>2
  <2> QED
    BY <1>0, <2>1, <2>2, <2>3, <2>4
<1>3. CASE Replace
  <2>1. PICK s : s = Slot(request.name)
    OBVIOUS
  <2>2. s \in 1 .. size /\ request.name \in Names /\ request.text \in Texts
    BY <1>0, <1>3, <2>1, SlotFacts DEF Replace, VInv, Pending
  <2>3. PICK q : q = [heap EXCEPT ![slots[s]].alive = FALSE]
    OBVIOUS
  <2>4. NewScript(request.name, request.text) \in Object
    BY <2>2 DEF NewScript, Object
  <2>5. heap' = Append(q, NewScript(request.name, request.text))
    BY <1>3, <2>1, <2>3 DEF Replace
  <2>6. /\ q \in Seq(Object) /\ DOMAIN q = DOMAIN heap
        /\ \A o \in DOMAIN heap : q[o].owner = heap[o].owner
    BY <1>2, <2>2, <2>3
  <2>7. NewScript(request.name, request.text).owner = Nobody
    BY DEF NewScript
  <2> QED
    BY <1>0, <2>4, <2>5, <2>6, <2>7, Appended
<1>4. CASE Erase
  <2>1. CASE InUse(request.name)
    <3>1. PICK s : s = Slot(request.name)
      OBVIOUS
    <3>2. s \in 1 .. size
      BY <2>1, <3>1, SlotFacts
    <3>3. heap' = [heap EXCEPT ![slots[s]].alive = FALSE]
      BY <1>4, <2>1, <3>1 DEF Erase
    <3> QED
      BY <1>2, <3>2, <3>3
  <2>2. CASE ~InUse(request.name)
    BY <1>4, <2>2 DEF Erase
  <2> QED
    BY <2>1, <2>2
<1> QED
  BY <1>1, <1>3, <1>4

\* A change of the vector leaves every task behind.
LEMMA AnswerKeepsTInv ==
    ASSUME TInv, VInv', EmplaceBack \/ Replace \/ Erase
    PROVE  TInv'
<1>1. /\ UNCHANGED <<walk, queue, task, stage, target, strayed>>
      /\ version' = version + 1 /\ main = "apply"
  BY DEF EmplaceBack, Replace, Erase, Answered, process, tasks
<1>2. /\ version \in Nat /\ walk \in Walk
      /\ queue \in [Workers -> Seq(Task)] /\ task \in [Workers -> Task]
      /\ heap \in Seq(Object) /\ DOMAIN heap = 1 .. Len(heap)
  BY DEF TInv, VInv, Types
<1>3. \A o \in DOMAIN heap : heap'[o].owner = heap[o].owner
  BY OwnersKept DEF TInv
<1>4. Queued'
  <2>1. ASSUME NEW w \in Workers, NEW i \in DOMAIN queue[w]
        PROVE  queue[w][i].version <= version /\ queue[w][i].version \in Nat
    <3>1. queue[w] \in Seq(Task)
      BY <1>2
    <3>2. queue[w][i] \in Task
      BY <3>1
    <3> QED
      BY <3>2 DEF TInv, Queued, OnSlot, Task
  <2> QED
    BY <1>1, <1>2, <2>1 DEF Queued, OnSlot
<1>5. Walking'
  BY <1>1, <1>2 DEF TInv, Walking, Walk
<1>6. ASSUME NEW w \in Workers, stage[w] # "idle"
      PROVE  task[w].version <= version /\ task[w].version \in Nat
  BY <1>2, <1>6 DEF TInv, Busy, OnSlot, Task
<1>7. Busy'
  BY <1>1, <1>2, <1>6 DEF Busy, OnSlot
<1>8. Locked'
  BY <1>1, <1>2, <1>3 DEF TInv, Locked, VInv, Targets
<1>9. Opened'
  BY <1>1, <1>2, <1>6 DEF Opened
<1> QED
  BY <1>4, <1>5, <1>7, <1>8, <1>9 DEF TInv

\* A step of a task: of the objects only those it holds change owner, and only the one
\* its slot leads to gets another context.
LEMMA TaskKeepsTInv ==
    ASSUME TInv, VInv', NEW w \in Workers, ScriptTask(w)
    PROVE  TInv'
<1>1. /\ UNCHANGED <<slots, size, buffer, version, walk>>
      /\ version \in Nat /\ heap \in Seq(Object) /\ DOMAIN heap = 1 .. Len(heap)
      /\ queue \in [Workers -> Seq(Task)] /\ task \in [Workers -> Task]
      /\ stage \in [Workers -> Stages] /\ target \in [Workers -> Nat]
      /\ \A v \in Workers : v # w => UNCHANGED <<queue[v], task[v], stage[v], target[v]>>
      /\ \A v \in Workers : stage[v] # "idle" => target[v] \in DOMAIN heap
  <2>1. VInv
    BY DEF TInv
  <2>2. /\ UNCHANGED <<vector, process>>
        /\ \A v \in Workers : v # w => UNCHANGED <<queue[v], task[v], stage[v], target[v]>>
    BY <2>1, TaskEffect
  <2>3. /\ version \in Nat /\ heap \in Seq(Object) /\ DOMAIN heap = 1 .. Len(heap)
        /\ queue \in [Workers -> Seq(Task)] /\ task \in [Workers -> Task]
        /\ stage \in [Workers -> Stages] /\ target \in [Workers -> Nat]
    BY <2>1 DEF VInv, Types
  <2>4. \A v \in Workers : stage[v] # "idle" => target[v] \in DOMAIN heap
    BY <2>1, <2>3 DEF VInv, Targets
  <2> QED
    BY <2>2, <2>3, <2>4 DEF vector, process
<1>2. \A t : OnSlot(t) <=>
               /\ t.version <= version'
               /\ t.version = version' =>
                     t.buffer = buffer' /\ t.slot \in 1 .. size' /\ t.for = slots'[t.slot]
  BY <1>1 DEF OnSlot
<1>3. Walking'
  BY <1>1 DEF TInv, Walking
<1>4. \A o \in DOMAIN heap : heap[o] \in Object
  BY <1>1
<1>5. size <= Len(slots) /\ DOMAIN slots = 1 .. Len(slots) /\ size \in Nat /\ Len(slots) \in Nat
  BY ScriptsNow DEF TInv, VInv
<1>6. ASSUME NEW t, OnSlot(t), t.version = version PROVE At(t.buffer, t.slot) = t.for
  <2>1. t.buffer = buffer /\ t.slot \in 1 .. size /\ t.for = slots[t.slot]
    BY <1>6 DEF OnSlot
  <2>2. t.slot \in DOMAIN slots
    BY <1>5, <2>1
  <2> QED
    BY <2>1, <2>2 DEF At
<1>7. CASE Begin(w)
  <2>1. /\ stage[w] = "idle" /\ queue[w] # <<>> /\ UNCHANGED <<heap, strayed>>
        /\ task' = [task EXCEPT ![w] = Head(queue[w])]
        /\ queue' = [queue EXCEPT ![w] = Tail(queue[w])]
        /\ target' = [target EXCEPT ![w] = At(Head(queue[w]).buffer, Head(queue[w]).slot)]
        /\ stage' = [stage EXCEPT ![w] = "lock"]
    BY <1>7 DEF Begin, Goes
  <2>2. /\ queue[w] \in Seq(Task)
        /\ 1 \in DOMAIN queue[w] /\ Head(queue[w]) = queue[w][1]
        /\ \A i \in DOMAIN Tail(queue[w]) : i + 1 \in DOMAIN queue[w] /\ Tail(queue[w])[i] = queue[w][i + 1]
    <3>1. queue[w] \in Seq(Task)
      BY <1>1
    <3> QED
      BY <2>1, <3>1, Taken
  <2>3. OnSlot(Head(queue[w])) /\ \A i \in DOMAIN Tail(queue[w]) : OnSlot(Tail(queue[w])[i])
    BY <2>2 DEF TInv, Queued
  <2>4. \A i \in DOMAIN queue'[w] : OnSlot(queue'[w][i])
    BY <1>1, <2>1, <2>3
  <2>5. Queued'
    <3>1. ASSUME NEW v \in Workers, NEW i \in DOMAIN queue'[v] PROVE OnSlot(queue'[v][i])
      <4>1. CASE v = w
        BY <2>4, <4>1
      <4>2. CASE v # w
        BY <1>1, <4>2 DEF TInv, Queued
      <4> QED
        BY <4>1, <4>2
    <3> QED
      BY <1>2, <3>1 DEF Queued, OnSlot
  <2>6. task'[w] = Head(queue[w]) /\ target'[w] = At(Head(queue[w]).buffer, Head(queue[w]).slot)
    BY <1>1, <2>1
  <2>7. OnSlot(task'[w]) /\ (task'[w].version = version => target'[w] = task'[w].for)
    BY <1>6, <2>3, <2>6
  <2>8. Busy'
    BY <1>1, <1>2, <2>7 DEF TInv, Busy, OnSlot
  <2>9. \A v \in Workers : stage'[v] \notin {"idle", "lock"} => v # w
    BY <1>1, <2>1
  <2>10. Locked' /\ Opened'
    BY <1>1, <2>1, <2>9 DEF TInv, Locked, Opened
  <2> QED
    BY <1>3, <2>5, <2>8, <2>10 DEF TInv
<1>8. ASSUME UNCHANGED <<queue, task, target>>, stage[w] # "idle" PROVE Queued' /\ Busy'
  <2>1. Queued'
    BY <1>1, <1>8 DEF TInv, Queued, OnSlot
  <2>2. \A v \in Workers : stage'[v] # "idle" => stage[v] # "idle"
    BY <1>1, <1>8
  <2> QED
    BY <1>1, <1>8, <2>1, <2>2 DEF TInv, Busy, OnSlot
<1>9. CASE Lock(w)
  <2>1. /\ stage[w] = "lock" /\ heap[target[w]].owner = Nobody
        /\ heap' = [heap EXCEPT ![target[w]].owner = w]
        /\ stage' = [stage EXCEPT ![w] = "setup"]
        /\ UNCHANGED <<queue, task, target, strayed>>
    BY <1>9 DEF Lock, Goes
  <2>2. target[w] \in DOMAIN heap
    BY <1>1, <2>1
  <2>3. /\ heap'[target[w]].owner = w /\ heap'[target[w]].ctx = heap[target[w]].ctx
        /\ \A o \in DOMAIN heap : o # target[w] => heap'[o] = heap[o]
    BY <1>4, <2>1, <2>2 DEF Object
  <2>4. \A v \in Workers : stage[v] \notin {"idle", "lock"} => target[v] # target[w]
    BY <2>1, WorkersAssumption DEF TInv, Locked
  <2>5. Locked'
    BY <1>1, <2>1, <2>3, <2>4 DEF TInv, Locked
  <2>6. Opened'
    BY <1>1, <2>1, <2>3, <2>4 DEF TInv, Opened
  <2> QED
    BY <1>3, <1>8, <2>1, <2>5, <2>6 DEF TInv
<1>10. CASE Stopping(w) \/ Call(w)
  <2>1. /\ stage[w] \in {"setup", "call"} /\ UNCHANGED <<heap, queue, task, target, strayed>>
        /\ \E s \in {"clear", "unlock"} : stage' = [stage EXCEPT ![w] = s] /\ (s = "clear" => stage[w] = "call")
    BY <1>10 DEF Stopping, Call, Goes
  <2>2. /\ \A v \in Workers : stage'[v] \notin {"idle", "lock"} => stage[v] \notin {"idle", "lock"}
        /\ \A v \in Workers : stage'[v] \in {"call", "clear"} => stage[v] \in {"call", "clear"}
    BY <1>1, <2>1
  <2>3. Locked' /\ Opened'
    BY <1>1, <2>1, <2>2 DEF TInv, Locked, Opened
  <2> QED
    BY <1>3, <1>8, <2>1, <2>3 DEF TInv
<1>11. CASE Setup(w) \/ Clear(w)
  <2>1. PICK c \in {"open", "closed"}, s \in {"call", "unlock"} :
           /\ stage[w] \in {"setup", "clear"} /\ Deref(w) # Null
           /\ SetContext(w, c) /\ stage' = [stage EXCEPT ![w] = s]
           /\ s = "call" => c = "open"
           /\ UNCHANGED <<queue, task, target>>
    BY <1>11 DEF Setup, Clear, Goes
  <2>2. PICK d : d = Deref(w)
    OBVIOUS
  <2>3. /\ d \in DOMAIN heap
        /\ heap' = [heap EXCEPT ![d].ctx = c]
        /\ strayed' = IF heap[d].owner = w THEN strayed ELSE strayed \cup {d}
    BY <2>1, <2>2, Found DEF Deref, SetContext, TInv, VInv
  <2>4. /\ \A o \in DOMAIN heap : heap'[o].owner = heap[o].owner
        /\ \A o \in DOMAIN heap : o # d => heap'[o] = heap[o]
        /\ heap'[d].ctx = c
    BY <1>4, <2>3 DEF Object
  <2>5. Locked'
    <3>1. \A v \in Workers : stage'[v] \notin {"idle", "lock"} => stage[v] \notin {"idle", "lock"}
      BY <1>1, <2>1
    <3> QED
      BY <1>1, <2>1, <2>4, <3>1 DEF TInv, Locked
  <2>6. ASSUME NEW v \in Workers, stage'[v] \in {"call", "clear"}, task[v].version = version,
               target[v] \notin strayed'
        PROVE  heap'[target[v]].ctx = "open"
    <3>1. CASE v = w
      <4>1. s = "call" /\ c = "open"
        BY <1>1, <2>1, <2>6, <3>1
      <4>2. OnSlot(task[w]) /\ target[w] = task[w].for
        BY <2>1, <2>6, <3>1 DEF TInv, Busy
      <4>3. target[w] = d
        BY <1>6, <2>2, <2>6, <3>1, <4>2 DEF Deref
      <4> QED
        BY <2>4, <3>1, <4>1, <4>3
    <3>2. CASE v # w
      <4>1. stage[v] \in {"call", "clear"} /\ target[v] \in DOMAIN heap
        BY <1>1, <2>6, <3>2
      <4>2. heap[target[v]].owner = v
        BY <4>1 DEF TInv, Locked
      <4>3. target[v] # d /\ target[v] \notin strayed
        BY <2>3, <2>6, <3>2, <4>2
      <4>4. heap[target[v]].ctx = "open"
        BY <2>6, <4>1, <4>3 DEF TInv, Opened
      <4> QED
        BY <2>4, <4>1, <4>3, <4>4
    <3> QED
      BY <3>1, <3>2
  <2>7. Opened'
    BY <1>1, <2>1, <2>6 DEF Opened
  <2> QED
    BY <1>3, <1>8, <2>1, <2>5, <2>7 DEF TInv
<1>12. CASE Unlock(w)
  <2>1. /\ stage[w] = "unlock" /\ heap' = [heap EXCEPT ![target[w]].owner = Nobody]
        /\ target' = [target EXCEPT ![w] = Null] /\ task' = [task EXCEPT ![w] = NoTask]
        /\ stage' = [stage EXCEPT ![w] = "idle"] /\ UNCHANGED <<queue, strayed>>
    BY <1>12 DEF Unlock, Goes
  <2>2. target[w] \in DOMAIN heap /\ heap[target[w]].owner = w
    BY <1>1, <2>1 DEF TInv, Locked
  <2>3. /\ heap'[target[w]].ctx = heap[target[w]].ctx
        /\ \A o \in DOMAIN heap : o # target[w] => heap'[o] = heap[o]
    BY <1>4, <2>1, <2>2 DEF Object
  <2>4. \A v \in Workers : v # w /\ stage[v] \notin {"idle", "lock"} => target[v] # target[w]
    BY <2>2 DEF TInv, Locked
  <2>5. stage'[w] = "idle"
    BY <1>1, <2>1
  <2>6. Locked'
    BY <1>1, <2>3, <2>4, <2>5 DEF TInv, Locked
  <2>7. Opened'
    BY <1>1, <2>1, <2>3, <2>4, <2>5 DEF TInv, Opened
  <2>8. Queued'
    BY <1>1, <2>1 DEF TInv, Queued, OnSlot
  <2>9. Busy'
    BY <1>1, <2>5 DEF TInv, Busy, OnSlot
  <2> QED
    BY <1>3, <2>6, <2>7, <2>8, <2>9 DEF TInv
<1> QED
  BY <1>7, <1>9, <1>10, <1>11, <1>12 DEF ScriptTask

LEMMA NextKeepsTInv == TInv /\ [Next]_vars => TInv'
<1> SUFFICES ASSUME TInv, [Next]_vars PROVE TInv'
  OBVIOUS
<1>1. VInv /\ VInv'
  BY NextKeepsVInv DEF TInv
<1>2. CASE Crash \/ \E skipped : Initialize(skipped)
  <2>1. \A w \in Workers : queue'[w] = <<>> /\ stage'[w] = "idle"
    BY <1>1, <1>2 DEF Crash, Initialize, VInv, Down, tasks
  <2>2. walk' = NoWalk
    BY <1>1, <1>2 DEF Crash, Initialize, VInv, Down, process
  <2>3. Queued' /\ Walking' /\ Busy' /\ Locked' /\ Opened'
    BY <2>1, <2>2 DEF Queued, Walking, Busy, Locked, Opened
  <2> QED
    BY <1>1, <2>3 DEF TInv
<1>3. CASE \/ Stop \/ ConstructorThrows \/ UNCHANGED vars
           \/ \E op, n, t : Written(op, n, t)
  <2>1. UNCHANGED <<slots, size, buffer, version, heap, walk, queue, task, stage, target, strayed>>
    BY <1>3 DEF Stop, ConstructorThrows, vars, Written, vector, process, tasks
  <2> QED
    BY <1>1, <2>1, QuietKeepsTInv
<1>4. CASE \/ \E n \in Names, t \in Texts : SaveScript(n, t) \/ UpdateScript(n, t)
           \/ \E n \in Names : DeleteScript(n)
  BY <1>3, <1>4 DEF SaveScript, UpdateScript, DeleteScript
<1>5. CASE EmplaceBack \/ Replace \/ Erase
  BY <1>1, <1>5, AnswerKeepsTInv
<1>6. CASE ProcessBegin
  <2>1. /\ walk' = [at |-> 1, end |-> size, buffer |-> buffer, version |-> version] /\ size > 0
        /\ UNCHANGED <<slots, size, buffer, version, heap, queue, task, stage, target, strayed>>
    BY <1>6 DEF ProcessBegin, vector, tasks
  <2>2. size \in Nat /\ version \in Nat
    BY <1>1 DEF VInv, Types
  <2>3. Walking'
    BY <2>1, <2>2 DEF Walking
  <2> QED
    BY <1>1, <2>1, <2>3 DEF TInv, Queued, Busy, Locked, Opened, OnSlot
<1>7. ASSUME NEW w \in Workers, SubmitScript(w) PROVE TInv'
  <2>1. PICK new : new = [slot |-> walk.at, buffer |-> walk.buffer,
                          for |-> At(walk.buffer, walk.at), version |-> walk.version]
    OBVIOUS
  <2>2. /\ walk # NoWalk /\ queue' = [queue EXCEPT ![w] = Append(queue[w], new)]
        /\ walk' = IF walk.at = walk.end THEN NoWalk ELSE [walk EXCEPT !.at = @ + 1]
        /\ UNCHANGED <<slots, size, buffer, version, heap, task, stage, target, strayed>>
    BY <1>7, <2>1 DEF SubmitScript, vector
  <2>3. /\ walk \in Walk /\ walk.at \in 1 .. walk.end /\ walk.version <= version
        /\ walk.version = version => walk.buffer = buffer /\ walk.end = size
        /\ size <= Len(slots) /\ DOMAIN slots = 1 .. Len(slots) /\ size \in Nat
        /\ Len(slots) \in Nat /\ queue \in [Workers -> Seq(Task)]
    BY <1>1, <2>2, ScriptsNow DEF TInv, Walking, VInv, Types
  <2>4. OnSlot(new)
    <3>1. ASSUME walk.version = version
          PROVE  walk.buffer = buffer /\ walk.at \in 1 .. size /\ At(walk.buffer, walk.at) = slots[walk.at]
      <4>1. walk.buffer = buffer /\ walk.at \in 1 .. size /\ walk.at \in DOMAIN slots
        BY <2>3, <3>1
      <4> QED
        BY <4>1 DEF At
    <3> QED
      BY <2>1, <2>3, <3>1 DEF OnSlot
  <2>5. Walking'
    <3>1. CASE walk.at = walk.end
      BY <2>2, <3>1 DEF Walking
    <3>2. CASE walk.at # walk.end
      <4>1. /\ walk'.at = walk.at + 1 /\ walk'.end = walk.end
            /\ walk'.buffer = walk.buffer /\ walk'.version = walk.version
        BY <2>2, <2>3, <3>2 DEF Walk
      <4>2. walk.at + 1 \in 1 .. walk.end
        BY <2>3, <3>2 DEF Walk
      <4> QED
        BY <2>2, <2>3, <4>1, <4>2 DEF Walking
    <3> QED
      BY <3>1, <3>2
  <2>6. new \in Task
    <3>1. At(walk.buffer, walk.at) \in Nat
      BY <1>1, Found DEF VInv, Types
    <3> QED
      BY <2>1, <2>3, <3>1 DEF Task, Walk
  <2>7. ASSUME NEW v \in Workers, NEW i \in DOMAIN queue'[v] PROVE OnSlot(queue'[v][i])
    <3>1. CASE v = w
      <4>1. queue'[w] = Append(queue[w], new) /\ queue[w] \in Seq(Task)
        BY <2>2, <2>3
      <4>2. \/ i \in DOMAIN queue[w] /\ queue'[w][i] = queue[w][i]
            \/ queue'[w][i] = new
        BY <2>6, <2>7, <3>1, <4>1, Appended
      <4> QED
        BY <2>4, <3>1, <4>2 DEF TInv, Queued
    <3>2. CASE v # w
      <4>1. queue'[v] = queue[v]
        BY <2>2, <2>3, <3>2
      <4> QED
        BY <2>7, <4>1 DEF TInv, Queued
    <3> QED
      BY <3>1, <3>2
  <2>8. Queued'
    BY <2>2, <2>7 DEF Queued, OnSlot
  <2> QED
    BY <1>1, <2>2, <2>5, <2>8 DEF TInv, Busy, Locked, Opened, OnSlot
<1> QED
  BY <1>1, <1>2, <1>3, <1>4, <1>5, <1>6, <1>7, TaskKeepsTInv DEF Next

LEMMA TInvHolds == Spec => []TInv
BY TInvStart, NextKeepsTInv, PTL DEF Spec

\* A task that no request has changed the vector under works from end to end on the one
\* live object it was made for, alone from Lock to Unlock, and in a context that is open
\* when it calls and clears it, unless another task has strayed into that object.
THEOREM TasksAlone == Spec => []UndisturbedTasks
<1>1. TInv => UndisturbedTasks
  <2> SUFFICES ASSUME TInv, NEW w \in Workers, stage[w] # "idle", task[w].version = version
      PROVE LET o == task[w].for
            IN  /\ o # Null /\ heap[o].alive /\ Deref(w) = o /\ target[w] = o
                /\ stage[w] # "lock" => heap[o].owner = w
                /\ stage[w] \in {"call", "clear"} /\ o \notin strayed => heap[o].ctx = "open"
    BY DEF UndisturbedTasks
  <2>1. /\ task[w].buffer = buffer /\ task[w].slot \in 1 .. size
        /\ task[w].for = slots[task[w].slot] /\ target[w] = task[w].for
    BY DEF TInv, Busy, OnSlot
  <2>2. task[w].slot \in DOMAIN slots /\ slots[task[w].slot] \in 1 .. Len(heap) /\ Len(heap) \in Nat
    BY <2>1, ScriptsNow DEF TInv, VInv
  <2>3. Deref(w) = task[w].for
    BY <2>1, <2>2 DEF Deref, At
  <2>4. task[w].for # Null /\ heap[task[w].for].alive
    BY <2>1, <2>2 DEF TInv, VInv, Vector, Null
  <2>5. stage[w] # "lock" => heap[task[w].for].owner = w
    BY <2>1 DEF TInv, Locked
  <2>6. stage[w] \in {"call", "clear"} /\ task[w].for \notin strayed => heap[task[w].for].ctx = "open"
    BY <2>1 DEF TInv, Opened
  <2> QED
    BY <2>1, <2>3, <2>4, <2>5, <2>6
<1> QED
  BY <1>1, TInvHolds, PTL

-----------------------------------------------------------------------------
(* The type invariant.                                                     *)
Shape ==
    /\ capacity \in Nat /\ size <= capacity
    /\ astray \subseteq Names
    /\ \A w \in Workers : stage[w] = "idle" => target[w] = Null

Flags == amiss \in BOOLEAN /\ should_stop \in BOOLEAN

YInv == VInv /\ Shape /\ Flags

LEMMA GrownFacts ==
    ASSUME NEW c \in Nat, NEW n \in Nat
    PROVE  Grown(c, n) \in Nat /\ Grown(c, n) >= n
BY DEF Grown

LEMMA YInvStart == Init => YInv
<1>1. Init => Shape
  BY DEF Init, Shape
<1>2. Init => Flags
  BY DEF Init, Flags
<1> QED
  BY <1>1, <1>2, VInvStart DEF YInv

LEMMA NextKeepsFlags == VInv /\ Flags /\ [Next]_vars => Flags'
<1> SUFFICES ASSUME VInv, Flags, [Next]_vars PROVE Flags'
  OBVIOUS
<1>1. amiss' = amiss \/ amiss' \in BOOLEAN
  <2>1. \A w \in Workers : ScriptTask(w) => amiss' = amiss
    BY TaskEffect DEF table
  <2>2. ASSUME NEW n, NEW hit, HitsRows(n, hit) PROVE amiss' \in BOOLEAN
    BY <2>2 DEF HitsRows
  <2>3. \A n, t : UpdateScript(n, t) => amiss' \in BOOLEAN
    BY <2>2 DEF UpdateScript
  <2>4. \A n : DeleteScript(n) => amiss' \in BOOLEAN
    BY <2>2 DEF DeleteScript
  <2> QED
    BY <2>1, <2>3, <2>4 DEF Next, Initialize, Crash, Stop, SaveScript,
       ConstructorThrows, EmplaceBack, Replace, Erase, Answered, ProcessBegin, SubmitScript,
       table, vars
<1>3. \/ should_stop' = should_stop
      \/ should_stop' = TRUE
      \/ should_stop' = FALSE
  <2>1. \A w \in Workers : ScriptTask(w) => should_stop' = should_stop
    BY TaskEffect
  <2> QED
    BY <2>1 DEF Next, Initialize, Crash, Stop, SaveScript, UpdateScript, DeleteScript, Written,
       ConstructorThrows, EmplaceBack, Replace, Erase, Answered, ProcessBegin, SubmitScript, vars
<1> QED
  BY <1>1, <1>3 DEF Flags

LEMMA NextKeepsYInv == YInv /\ [Next]_vars => YInv'
<1> SUFFICES ASSUME YInv, [Next]_vars PROVE YInv'
  OBVIOUS
<1>1. VInv /\ VInv' /\ Shape /\ size \in Nat /\ Flags'
  BY NextKeepsVInv, NextKeepsFlags DEF YInv, VInv, Types
<1>2. ASSUME NEW skipped \in SUBSET NamesOf(rows), Initialize(skipped) PROVE Shape'
  <2>1. PICK loaded \in RowsAt({i \in DOMAIN rows : rows[i].name \notin skipped}) :
           /\ main = "down" /\ size' = Len(loaded) /\ astray' = skipped
           /\ \E c \in Growths(Len(loaded)) : capacity' = c[Len(loaded)]
           /\ UNCHANGED <<stage, target>>
    BY <1>2 DEF Initialize, tasks
  <2>2. PICK c \in Growths(Len(loaded)) : capacity' = c[Len(loaded)]
    BY <2>1
  <2>3. Len(loaded) \in Nat
    BY <1>1, <2>1 DEF VInv, Types
  <2>4. /\ c \in [0 .. Len(loaded) -> 0 .. 2 * Len(loaded)] /\ c[0] = 0
        /\ \A i \in 1 .. Len(loaded) : c[i] = Grown(c[i - 1], i)
    BY DEF Growths
  <2>5. capacity' \in Nat /\ size' <= capacity'
    <3>1. CASE Len(loaded) = 0
      BY <2>1, <2>2, <2>4, <3>1
    <3>2. CASE Len(loaded) # 0
      <4>1. Len(loaded) \in 1 .. Len(loaded) /\ Len(loaded) - 1 \in 0 .. Len(loaded)
        BY <2>3, <3>2
      <4>2. c[Len(loaded) - 1] \in Nat
        BY <2>3, <2>4, <4>1
      <4> QED
        BY <2>1, <2>2, <2>3, <2>4, <4>1, <4>2, GrownFacts
    <3> QED
      BY <3>1, <3>2
  <2>6. skipped \subseteq Names
    BY <1>1, Typed, NamesAreTexts
  <2> QED
    BY <1>1, <2>1, <2>5, <2>6 DEF Shape
<1>3. CASE Crash
  <2>1. size' = 0 /\ capacity' = 0 /\ target' = [w \in Workers |-> Null] /\ astray' = astray
    BY <1>3 DEF Crash, table
  <2> QED
    BY <1>1, <2>1 DEF YInv, Shape
<1>4. ASSUME NEW n \in Names, NEW t,
             \/ t \in Texts /\ (SaveScript(n, t) \/ UpdateScript(n, t))
             \/ DeleteScript(n)
      PROVE  Shape'
  <2>1. UNCHANGED <<capacity, size, astray, stage, target>>
    BY <1>4 DEF SaveScript, UpdateScript, DeleteScript, Written, vector, tasks
  <2> QED
    BY <1>1, <2>1 DEF Shape
<1>5. CASE ConstructorThrows
  <2>1. /\ UNCHANGED <<capacity, size, stage, target>>
        /\ astray' = astray \cup {request.name} /\ request.name \in Names
    BY <1>1, <1>5 DEF ConstructorThrows, vector, tasks, VInv, Pending
  <2> QED
    BY <1>1, <2>1 DEF YInv, Shape
<1>6. CASE EmplaceBack \/ Replace \/ Erase
  <2>1. /\ UNCHANGED <<stage, target>> /\ astray' = astray \ {request.name}
    BY <1>6 DEF EmplaceBack, Replace, Erase, Answered, tasks
  <2>2. capacity' \in Nat /\ size' <= capacity'
    <3>1. CASE EmplaceBack
      <4>1. capacity' = Grown(capacity, size + 1) /\ size' = size + 1
        BY <3>1 DEF EmplaceBack
      <4> QED
        BY <1>1, <4>1, GrownFacts DEF Shape
    <3>2. CASE Replace
      BY <1>1, <3>2 DEF Replace, Shape
    <3>3. CASE Erase
      BY <1>1, <3>3 DEF Erase, Shape
    <3> QED
      BY <1>6, <3>1, <3>2, <3>3
  <2> QED
    BY <1>1, <2>1, <2>2 DEF YInv, Shape
<1>7. CASE Stop \/ ProcessBegin \/ UNCHANGED vars
  <2>1. UNCHANGED <<capacity, size, astray, stage, target>>
    BY <1>7 DEF Stop, ProcessBegin, vars, table, vector, tasks
  <2> QED
    BY <1>1, <2>1 DEF YInv, Shape
<1>8. ASSUME NEW w \in Workers, SubmitScript(w) PROVE Shape'
  BY <1>1, <1>8 DEF SubmitScript, table, vector, Shape
<1>9. ASSUME NEW w \in Workers, ScriptTask(w) PROVE Shape'
  <2>1. UNCHANGED <<capacity, size, astray>>
    BY <1>1, <1>9, TaskEffect DEF table, vector
  <2>2. /\ stage \in [Workers -> Stages] /\ target \in [Workers -> Nat]
        /\ \A v \in Workers : v # w => UNCHANGED <<stage[v], target[v]>>
    BY <1>1, <1>9, TaskEffect DEF VInv, Types
  <2>3. stage'[w] = "idle" => target'[w] = Null
    BY <1>9, <2>2 DEF ScriptTask, Begin, Lock, Stopping, Setup, Call, Clear, Unlock, Goes
  <2> QED
    BY <1>1, <2>1, <2>2, <2>3 DEF Shape
<1> QED
  BY <1>1, <1>2, <1>3, <1>4, <1>5, <1>6, <1>7, <1>8, <1>9 DEF Next, YInv

LEMMA YInvHolds == Spec => []YInv
BY YInvStart, NextKeepsYInv, PTL DEF Spec

\* Every variable keeps its type, and the vector its shape: no more scripts than it has
\* slots or room for, and an object in each.
THEOREM ScriptsTyped == Spec => []TypeOK
<1>1. YInv => TypeOK
  <2> SUFFICES ASSUME YInv PROVE TypeOK
    OBVIOUS
  <2>1. VInv /\ Shape /\ Flags
    BY DEF YInv
  <2>2. \A i \in DOMAIN rows : rows[i] \in Row
    BY <2>1 DEF VInv, Types
  <2>3. \A i \in 1 .. size : slots[i] # Null
    BY <2>1 DEF VInv, Vector, Null
  <2>4. target \in [Workers -> 0 .. Len(heap)]
    <3>1. \A w \in Workers : target[w] \in 0 .. Len(heap)
      <4>1. Len(heap) \in Nat
        BY <2>1 DEF VInv, Types
      <4> QED
        BY <2>1, <4>1 DEF VInv, Targets, Shape, Null
    <3> QED
      BY <2>1, <3>1 DEF VInv, Types
  <2> QED
    <3>1. /\ \A i \in DOMAIN rows : rows[i].name \in Names /\ rows[i].text \in Texts
          /\ size <= capacity /\ size <= Len(slots)
          /\ \A i \in DOMAIN slots : slots[i] \in 0 .. Len(heap)
          /\ promised \in [Names -> Texts \cup {Absent, Unknown}]
          /\ astray \subseteq Names /\ main \in {"down", "serve", "apply", "stopped"}
      BY <2>1, <2>2 DEF VInv, Types, Vector, Shape, Row
    <3> QED
      BY <2>1, <2>3, <2>4, <3>1 DEF TypeOK, Flags
<1> QED
  BY <1>1, YInvHolds, PTL
=============================================================================
