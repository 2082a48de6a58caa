---------------------------- MODULE Intelligence ----------------------------
(***************************************************************************)
(* The prediction loop, IntelligenceManager::Start on thread 1 of the      *)
(* pool, with its budget of errors: a prediction that throws is tried      *)
(* again at once, and only a prediction that succeeds and the sleep after  *)
(* it set errorCount back.                                                 *)
(*                                                                         *)
(* Predict runs a Python program, which may fail (it throws), and then     *)
(* reads five integers through a pointer to an array that is gone, so      *)
(* whether it shows the user a message box is anybody's guess.  The box    *)
(* stays until the user closes it.                                         *)
(***************************************************************************)
EXTENDS Naturals

VARIABLES
    active,
    errorCount,
    loop        \* where Start is; "off" when no thread runs it

vars == <<active, errorCount, loop>>

TypeOK ==
    /\ active \in BOOLEAN
    /\ errorCount \in 0 .. 4
    /\ loop \in {"off", "predict", "catch", "box", "sleep", "over"}
    /\ loop \in {"predict", "catch", "box", "sleep"} <=> active

Off == active = FALSE /\ errorCount = 0 /\ loop = "off"

-----------------------------------------------------------------------------
Start ==
    /\ loop = "off"
    /\ active' = TRUE
    /\ errorCount' = 0
    /\ loop' = "predict"

\* ExecutePythonFile throws; or Predict returns, and the five numbers asked for a
\* message box, or did not.
Predict ==
    /\ loop = "predict"
    /\ loop' \in {"catch", "box", "sleep"}
    /\ UNCHANGED <<active, errorCount>>

\* Mutants of Catch: the error is not counted, and one more is allowed.
CatchUncounted ==
    /\ loop = "catch"
    /\ active' = (errorCount <= 3)
    /\ loop' = IF active' THEN "predict" ELSE "over"
    /\ UNCHANGED errorCount

CatchOnceMore ==
    /\ loop = "catch"
    /\ IF errorCount > 4
       THEN active' = FALSE /\ loop' = "over" /\ UNCHANGED errorCount
       ELSE errorCount' = errorCount + 1 /\ loop' = "predict" /\ UNCHANGED active

\* The fifth error in a row ends the loop.
Catch ==
    /\ loop = "catch"
    /\ IF errorCount > 3
       THEN active' = FALSE /\ loop' = "over" /\ UNCHANGED errorCount
       ELSE errorCount' = errorCount + 1 /\ loop' = "predict" /\ UNCHANGED active

\* The user closes the message box of NotifyUser.
CloseBox ==
    /\ loop = "box"
    /\ loop' = "sleep"
    /\ UNCHANGED <<active, errorCount>>

\* sleep_for(interval), errorCount = 0, and while (active) again: only the loop itself
\* lowers active, for nothing calls IntelligenceManager::Stop.
Sleep ==
    /\ loop = "sleep"
    /\ errorCount' = 0
    /\ loop' = "predict"
    /\ UNCHANGED active

\* Start returns to the thread that ran it.
Return ==
    /\ loop = "over"
    /\ loop' = "off"
    /\ UNCHANGED <<active, errorCount>>

\* What the thread does by itself; closing the box is up to the user.
Run == Predict \/ Catch \/ Sleep

-----------------------------------------------------------------------------
\* Predictions that go on for ever succeed for ever: the loop cannot spin on a
\* prediction that keeps failing, as the error budget ends it.
KeepsSucceeding == []<>(loop = "predict") => []<>(loop = "sleep")

\* What a loop that fails has left: two steps per error it may still make.
Failing == loop \in {"predict", "catch"}
Budget  == 2 * (4 - errorCount) + (IF loop = "predict" THEN 2 ELSE 1)

\* Every step of a loop that fails costs budget, which begins at ten: nothing but a
\* prediction that succeeds, or the end of the loop, gives any back.
BudgetSpends == [][Failing /\ Failing' => Budget' < Budget]_vars
=============================================================================
