----------------------------- MODULE QuotedNames ------------------------------
(***************************************************************************)
(* How SQLite reads the name of a script in the WHERE clauses of           *)
(* UpdateScript and DeleteScript, where it stands between double quotes.   *)
(* If the table has a column of that name, in whatever case, the word is   *)
(* the column, else it is the text.  The columns are id, name, scriptText, *)
(* metricName and timestamp, and rowid under its three names.  In the      *)
(* VALUES of an INSERT there is no column to be had: it is always the text. *)
(***************************************************************************)
CONSTANTS
    NameWords,      \* spellings of the column name: "name", "Name", "NAME", ...
    OtherWords      \* those of the other columns

ASSUME WordsAssumption == NameWords \cap OtherWords = {}

\* The names of the rows a clause about n can be true of, in a table with these names:
\* every row if its name is compared with itself; if it is compared with another column,
\* whatever rows happen to hold their own name there, usually none; else the row of n.
Hits(n, names) ==
    {hit \in SUBSET names :
        /\ n \in NameWords => hit = names
        /\ n \notin NameWords \cup OtherWords => hit = names \cap {n}}
=============================================================================
