------------------------------ MODULE MCServer ------------------------------
(***************************************************************************)
(* A small instance: a tree like the archive's (a page and a folder of one *)
(* name, the folder without an index), one where the folder has an index,  *)
(* and one with a file that is empty and a file named like a page.  Each   *)
(* tree is read in a scene of its own; the others edit, two of them with a *)
(* script that has a column's name, and in the last pages are asked for    *)
(* while a script is awaited.                                              *)
(***************************************************************************)
EXTENDS Server, TLC

Scripting == File(<<"scripting">>, TRUE)
Details   == File(<<"scripting", "details">>, TRUE)
Plain     == File(<<"plain">>, FALSE)
PlainPage == File(<<"plain">>, TRUE)

Archive  == (Scripting :> "text") @@ (Details :> "text") @@ (Page404 :> "text")
Indexed  == (Scripting :> "text") @@ (Index(<<"scripting">>) :> "text")
LikeNamed == (Plain :> "empty") @@ (PlainPage :> "text") @@ (Page404 :> "text")

Reads == {"read", "providers", "aggregate", "page"}

Usual == Names \ {"Name", "timestamp"}

MCScenes ==
    {[tree |-> t, kinds |-> Reads, names |-> {}] : t \in {Archive, Indexed, LikeNamed}}
        \cup {[tree |-> Archive, kinds |-> {"putConfig", "post"}, names |-> Usual],
              [tree |-> Archive, kinds |-> {"post", "patch", "delete"}, names |-> Usual],
              [tree |-> Archive, kinds |-> {"post", "delete"}, names |-> {"cpu", "Name"}],
              [tree |-> Archive, kinds |-> {"post", "delete"}, names |-> {"cpu", "timestamp"}],
              [tree |-> Archive, kinds |-> {"post", "page"}, names |-> Usual]}
=============================================================================
