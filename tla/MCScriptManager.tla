--------------------------- MODULE MCScriptManager ---------------------------
(***************************************************************************)
(* A small instance.  One run explores several kinds of behaviour: many    *)
(* changes across a restart without tasks, with a script called like the   *)
(* column name and with one called like another column; and in one life of *)
(* the process three tasks beside one change, and one task beside two.     *)
(* Threads are interchangeable, and so are texts.                          *)
(***************************************************************************)
EXTENDS ScriptManager, TLC

MCLimits ==
    {[names |-> {"cpu", "Name"}, edits |-> 3, tasks |-> 0, boots |-> 2],
     [names |-> {"cpu", "timestamp"}, edits |-> 2, tasks |-> 0, boots |-> 2],
     [names |-> {"cpu", "Name"}, edits |-> 1, tasks |-> 3, boots |-> 1],
     [names |-> {"cpu", "Name"}, edits |-> 2, tasks |-> 1, boots |-> 1]}

Interchangeable == Permutations(Workers) \cup Permutations(Texts)
=============================================================================
