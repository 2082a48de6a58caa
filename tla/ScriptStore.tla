----------------------------- MODULE ScriptStore ------------------------------
(***************************************************************************)
(* What the script API promises, whatever is in the vector and however its *)
(* slots move: a text for every name that is stored, one for every name    *)
(* that runs, and an edit that changes first the one, then the other, and  *)
(* in both nothing but what it is about, unless its name is a column's     *)
(* (QuotedNames): then what is stored changes for other names.  An edit    *)
(* may get stuck half way, and a start may leave out what is stored.       *)
(*                                                                         *)
(* ScriptManager implements this; it says so at its end.                   *)
(***************************************************************************)
EXTENDS QuotedNames

CONSTANTS Names, Texts, Absent

VARIABLES
    stored,     \* stored[n]: the text in the table, or Absent
    running,    \* running[n]: the text of the script in memory, or Absent
    edit,       \* what is stored and does not run yet: its name and text, or {}
    up          \* the process is there

vars == <<stored, running, edit, up>>

Nowhere == [n \in Names |-> Absent]

Init ==
    /\ stored \in [Names -> Texts \cup {Absent}]
    /\ running = Nowhere
    /\ edit = {}
    /\ up = FALSE

Start ==
    /\ ~up /\ up' = TRUE
    /\ \E skipped \in SUBSET Names :
          running' = [n \in Names |-> IF n \in skipped THEN Absent ELSE stored[n]]
    /\ UNCHANGED <<stored, edit>>

\* The names that have a text.
Kept == {n \in Names : stored[n] # Absent}

Store(n, t) ==
    /\ up /\ edit = {}
    /\ edit' = {[name |-> n, text |-> t]}
    /\ UNCHANGED <<up, running>>

Save(n, t) ==
    /\ Store(n, t)
    /\ stored[n] = Absent /\ running[n] = Absent
    /\ stored' = [stored EXCEPT ![n] = t]

Update(n, t) ==
    /\ Store(n, t)
    /\ running[n] # Absent
    /\ \E hit \in Hits(n, Kept) :
         stored' = [m \in Names |-> IF m \in hit THEN t ELSE stored[m]]

Delete(n) ==
    /\ Store(n, Absent)
    /\ \E hit \in Hits(n, Kept) :
         stored' = [m \in Names |-> IF m \in hit THEN Absent ELSE stored[m]]

\* The edit is answered with success, or given up.
Finish ==
    \E e \in edit :
        /\ running' = [running EXCEPT ![e.name] = e.text]
        /\ edit' = {}
        /\ UNCHANGED <<stored, up>>

GiveUp ==
    /\ edit # {} /\ edit' = {}
    /\ UNCHANGED <<stored, running, up>>

Die ==
    /\ up /\ up' = FALSE
    /\ running' = Nowhere /\ edit' = {}
    /\ UNCHANGED stored

Next ==
    \/ Start \/ Finish \/ GiveUp \/ Die
    \/ \E n \in Names, t \in Texts : Save(n, t) \/ Update(n, t)
    \/ \E n \in Names : Delete(n)

Spec == Init /\ [][Next]_vars
=============================================================================
