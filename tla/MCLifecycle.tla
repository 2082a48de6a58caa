---------------------------- MODULE MCLifecycle -----------------------------
(***************************************************************************)
(* A small instance.  One run explores three kinds of behaviour: a restart *)
(* over whatever the first start has left on the disk, a life in which     *)
(* collection sends its tasks, and one in which the server returns and the *)
(* loop of Run gives both tasks a second time.                             *)
(***************************************************************************)
EXTENDS Lifecycle

MCLimits ==
    {[lives |-> 2, loops |-> 0, rounds |-> 0, deployed |-> FALSE],
     [lives |-> 1, loops |-> 1, rounds |-> 0, deployed |-> TRUE],
     [lives |-> 1, loops |-> 0, rounds |-> 1, deployed |-> TRUE]}
=============================================================================
