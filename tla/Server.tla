------------------------------- MODULE Server -------------------------------
(***************************************************************************)
(* The HTTP side: sessions, the handlers of Server.cpp, and what they do   *)
(* to the stored configuration and to the scripts.                         *)
(*                                                                         *)
(* restbed runs one thread, so a handler is one step, but not one request: *)
(* session->fetch calls its callback at once if the body is already in the *)
(* buffer, and otherwise after the handler has returned.  An exception of  *)
(* the callback then reaches the error handler and no longer the catch of  *)
(* the handler, which catches no more than runtime_error anyway.           *)
(*                                                                         *)
(* Tables and vector are what Configuration and ScriptManager say in       *)
(* detail; here a script is a name, in the table, in memory, or both.      *)
(* A web page is a file in the tree below the web root.                    *)
(***************************************************************************)
EXTENDS QuotedNames, Naturals, Sequences

CONSTANTS
    Sessions,
    Names,      \* of scripts; "" is the empty one
    Documents,  \* configurations that ParseJSONString accepts, without a single quote,
                \* which would make SaveConfigData store something else (Configuration)
    Scenes      \* what to explore together: a tree of files below the web root, the kinds of
                \* request that clients send, and the names they use

Nothing == "nothing"

Kinds == {"putConfig", "post", "patch", "delete", "read", "providers", "aggregate", "page"}

ASSUME NothingAssumption == Nothing \notin Documents

VARIABLES
    stored,     \* the configuration in the database, or Nothing
    rows,       \* the names in the table ScriptManager
    scripts,    \* the names in the vector
    tree,       \* the files below the web root
    kinds,      \* the kinds of request in this behaviour
    names,      \* the names of scripts in it
    request,    \* request[s]: what session s asks
    at,         \* at[s]: how far it is
    late,       \* late[s]: its body was not there when its head was
    status,     \* status[s]: the answer, 0 if there is none
    broke,      \* broke[s]: a statement or a constructor failed on its way
    served,     \* served[s]: the file it was given
    dangling,   \* dangling[s]: its callback can still be called, its string is gone
    dead        \* the process is

store   == <<stored, rows, scripts>>
session == <<request, at, late, status, broke, served, dangling>>
scene   == <<tree, kinds, names>>
vars    == <<store, scene, session, dead>>

OK == 200
BAD_REQUEST == 400
INTERNAL_SERVER_ERROR == 500

-----------------------------------------------------------------------------
(* Web pages.  A file has the segments of its path and may end in .html; a *)
(* path that is asked for may also end in a slash.  A tree gives a file    *)
(* the content "none", "empty" or "text".                                  *)
File(segs, html) == [segs |-> segs, html |-> html]
Page404          == File(<<"404">>, TRUE)

ASSUME ScenesAssumption ==
    \A c \in Scenes :
        /\ c.kinds \subseteq Kinds /\ c.names \subseteq Names
        /\ \A f \in DOMAIN c.tree : f.html \in BOOLEAN /\ f = File(f.segs, f.html)

Nowhere          == File(<<"nowhere">>, FALSE)      \* a path without a route
Index(segs)      == File(Append(segs, "index"), TRUE)

Content(f)    == IF f \in DOMAIN tree THEN tree[f] ELSE "none"
FileExists(f) == Content(f) # "none"
FolderExists(segs) ==
    \E f \in DOMAIN tree : FileExists(f) /\ Len(f.segs) > Len(segs)
                           /\ SubSeq(f.segs, 1, Len(segs)) = segs

\* Utils::GetAllFilePaths, for SetupWebPaths: every file, and pages without their .html.
GetAllFilePaths ==
    LET files == {f \in DOMAIN tree : FileExists(f)}
    IN  files \cup {File(f.segs, FALSE) : f \in {g \in files : g.html}}

\* Mutant of getIndexHandler: a folder is taken to have an index.
FolderFirst(f, slash) ==
    IF ~slash /\ Content(f) = "text" THEN f
    ELSE IF ~f.html /\ FolderExists(f.segs) THEN Index(f.segs)
    ELSE IF ~f.html /\ ~slash /\ FileExists(File(f.segs, TRUE)) THEN File(f.segs, TRUE)
    ELSE Page404

\* The file itself if there is anything in it, else the index of a folder, else the page
\* of that name, else 404.html; all with status OK.
getIndexHandler(f, slash) ==
    IF ~slash /\ Content(f) = "text" THEN f
    ELSE IF ~f.html /\ FolderExists(f.segs) /\ FileExists(Index(f.segs)) THEN Index(f.segs)
    ELSE IF ~f.html /\ ~slash /\ FileExists(File(f.segs, TRUE)) THEN File(f.segs, TRUE)
    ELSE Page404

-----------------------------------------------------------------------------
(* What is asked.  A script body may be broken or empty, a configuration   *)
(* too; a number may not be one, or not fit an int; a column may be none.  *)
NoRequest == [kind |-> "none"]

ConfigRequests == {[kind |-> "putConfig", doc |-> d] : d \in Documents \cup {Nothing}}

ScriptRequests ==
    {[kind |-> k, name |-> n] : k \in {"post", "patch", "delete"}, n \in Names}
        \cup {[kind |-> k, name |-> Nothing] : k \in {"post", "patch"}}

ReportRequests ==
    {[kind |-> "read"]}
        \cup {[kind |-> "providers", limit |-> l] : l \in {"fits", "none", "tooLarge"}}
        \cup {[kind |-> "aggregate", of |-> o] :
                o \in {"column", "none", "noProvider", "noNumber", "noColumn"}}

PageRequests ==
    {[kind |-> "page", file |-> f, slash |-> b] :
        f \in GetAllFilePaths \cup {Nowhere}, b \in BOOLEAN}

Requests == ConfigRequests \cup ScriptRequests \cup ReportRequests \cup PageRequests

HasBody(r) == r.kind \in {"putConfig", "post", "patch"}

Init ==
    /\ stored = Nothing /\ rows = {} /\ scripts = {}
    /\ \E c \in Scenes : tree = c.tree /\ kinds = c.kinds /\ names = c.names
    /\ request = [s \in Sessions |-> NoRequest]
    /\ at = [s \in Sessions |-> "idle"]
    /\ late = [s \in Sessions |-> FALSE]
    /\ status = [s \in Sessions |-> 0]
    /\ broke = [s \in Sessions |-> FALSE]
    /\ served = [s \in Sessions |-> Page404]
    /\ dangling = [s \in Sessions |-> FALSE]
    /\ dead = FALSE

-----------------------------------------------------------------------------
(* A client connects, or connects again, and sends the head of a request   *)
(* with its body or without.                                               *)
Receive(s, r) ==
    /\ ~dead /\ at[s] \in {"idle", "ended"} /\ ~dangling[s]
    /\ r.kind \in kinds
    /\ r.kind \in {"post", "patch", "delete"} => r.name \in names \cup {Nothing}
    /\ request' = [request EXCEPT ![s] = r]
    /\ at' = [at EXCEPT ![s] = "head"]
    /\ \E b \in BOOLEAN : late' = [late EXCEPT ![s] = b /\ HasBody(r)]
    /\ status' = [status EXCEPT ![s] = 0]
    /\ broke' = [broke EXCEPT ![s] = FALSE]
    /\ served' = [served EXCEPT ![s] = Page404]
    /\ UNCHANGED <<store, scene, dangling, dead>>

\* session->close.
Close(s, code) ==
    /\ status' = [status EXCEPT ![s] = code]
    /\ at' = [at EXCEPT ![s] = "ended"]

Breaks(s, b) == broke' = [broke EXCEPT ![s] = b]

Handles(s, kind) == ~dead /\ at[s] = "head" /\ request[s].kind = kind

-----------------------------------------------------------------------------
(* Reading.  stoi throws what no handler catches; an aggregate over a      *)
(* column that is none reads the first of no rows, which is undefined.     *)
Unchanged(s) == UNCHANGED <<store, scene, request, late, broke, dangling>>

Read(s) ==
    /\ ~dead /\ at[s] = "head"
    /\ \/ request[s].kind = "read" /\ Close(s, OK)
       \/ /\ request[s].kind = "providers"
          /\ Close(s, IF request[s].limit = "fits" THEN OK ELSE INTERNAL_SERVER_ERROR)
       \/ /\ request[s].kind = "aggregate"
          /\ \/ request[s].of = "column" /\ Close(s, OK)
             \/ request[s].of \in {"none", "noProvider"} /\ Close(s, BAD_REQUEST)
             \/ request[s].of = "noNumber" /\ Close(s, INTERNAL_SERVER_ERROR)
             \/ request[s].of = "noColumn" /\ \E c \in {OK, INTERNAL_SERVER_ERROR} : Close(s, c)
    /\ Unchanged(s) /\ UNCHANGED <<served, dead>>

ReadFirstOfNone(s) ==
    /\ Handles(s, "aggregate") /\ request[s].of = "noColumn"
    /\ dead' = TRUE
    /\ UNCHANGED <<store, scene, session>>

ServePage(s) ==
    /\ Handles(s, "page")
    /\ served' = [served EXCEPT ![s] = getIndexHandler(request[s].file, request[s].slash)]
    /\ Close(s, OK)
    /\ Unchanged(s) /\ UNCHANGED dead

-----------------------------------------------------------------------------
(* PUT /api/config/save.  json_data is looked at when fetch has returned.  *)
Body(s) == IF late[s] THEN Nothing ELSE request[s].doc

putConfigHandler(s) ==
    /\ Handles(s, "putConfig")
    /\ dangling' = [dangling EXCEPT ![s] = late[s]]
    /\ \/ /\ Body(s) = Nothing
          /\ Close(s, BAD_REQUEST)
          /\ UNCHANGED <<stored, broke>>
       \/ /\ Body(s) # Nothing
          /\ stored' = Body(s)
          /\ Close(s, OK) /\ UNCHANGED broke
       \/ /\ Body(s) # Nothing                      \* Upsert fails
          /\ Breaks(s, TRUE) /\ Close(s, BAD_REQUEST) /\ UNCHANGED stored
    /\ UNCHANGED <<rows, scripts, scene, request, late, served, dead>>

\* Mutant of LateConfig: what comes late is saved.
SaveLateConfig(s) ==
    /\ ~dead /\ dangling[s]
    /\ dangling' = [dangling EXCEPT ![s] = FALSE]
    /\ stored' = request[s].doc
    /\ UNCHANGED <<rows, scripts, scene, request, at, late, status, broke, served, dead>>

\* The body comes after all, if the closed session still takes it: the callback writes to
\* a string that is no more.
LateConfig(s) ==
    /\ ~dead /\ dangling[s]
    /\ dangling' = [dangling EXCEPT ![s] = FALSE]
    /\ dead' \in BOOLEAN
    /\ UNCHANGED <<store, scene, request, at, late, status, broke, served>>

-----------------------------------------------------------------------------
(* Scripts.  What the callback, or DeleteScript, comes to: an outcome.     *)
Outcome(r, s, d, b) == [rows |-> r, scripts |-> s, done |-> d, broke |-> b]

Refused == Outcome(rows, scripts, FALSE, FALSE)
Failed  == Outcome(rows, scripts, FALSE, TRUE)      \* the statement fails

SaveScript(n) ==
    IF n \in scripts THEN {Refused}
    ELSE IF n \in rows THEN {Failed}                \* UNIQUE
    ELSE {Failed, Outcome(rows \cup {n}, scripts, FALSE, TRUE),  \* the constructor throws
          Outcome(rows \cup {n}, scripts \cup {n}, TRUE, FALSE)}

UpdateScript(n) ==
    IF n \notin scripts THEN {Refused}
    ELSE {Failed,                                   \* or the constructor throws
          Outcome(rows, scripts, TRUE, FALSE)}

\* Mutant of DeleteScript: the vector is left as it is.
DeleteRow(n) ==
    IF n = "" THEN {Refused}
    ELSE {Failed} \cup {Outcome(rows \ hit, scripts, TRUE, FALSE) : hit \in Hits(n, rows)}

\* Whatever rows the WHERE clause hits, none at all included, the statement succeeds.
DeleteScript(n) ==
    IF n = "" THEN {Refused}
    ELSE {Failed} \cup {Outcome(rows \ hit, scripts \ {n}, TRUE, FALSE) : hit \in Hits(n, rows)}

Outcomes(r) ==
    IF r.name = Nothing THEN {Refused}              \* an empty body, or no JSON
    ELSE CASE r.kind = "post"   -> SaveScript(r.name)
           [] r.kind = "patch"  -> UpdateScript(r.name)
           [] r.kind = "delete" -> DeleteScript(r.name)

\* Mutant of Apply: what SaveScript and the others return is not looked at.
ApplyUnlooked(s, refusal) ==
    \E o \in Outcomes(request[s]) :
        /\ rows' = o.rows /\ scripts' = o.scripts
        /\ Breaks(s, o.broke)
        /\ Close(s, IF ~o.done /\ ~o.broke THEN refusal ELSE OK)
        /\ UNCHANGED <<stored, scene, request, late, served, dangling, dead>>

\* The edit, and the answer: OK, or what the exception comes to where it is caught.
Apply(s, refusal) ==
    \E o \in Outcomes(request[s]) :
        /\ rows' = o.rows /\ scripts' = o.scripts
        /\ Breaks(s, o.broke)
        /\ Close(s, IF o.done THEN OK ELSE refusal)
        /\ UNCHANGED <<stored, scene, request, late, served, dangling, dead>>

scriptHandler(s) ==
    /\ ~dead /\ at[s] = "head" /\ request[s].kind \in {"post", "patch", "delete"}
    /\ ~late[s]
    /\ Apply(s, BAD_REQUEST)

Fetch(s) ==
    /\ ~dead /\ at[s] = "head" /\ request[s].kind \in {"post", "patch"}
    /\ late[s]
    /\ at' = [at EXCEPT ![s] = "fetching"]
    /\ UNCHANGED <<store, scene, request, late, status, broke, served, dangling, dead>>

\* Mutant of BodyArrives: what the callback throws is answered by nobody.
ArrivesUncaught(s) ==
    /\ ~dead /\ at[s] = "fetching"
    /\ \E o \in Outcomes(request[s]) :
          /\ rows' = o.rows /\ scripts' = o.scripts
          /\ Breaks(s, o.broke)
          /\ IF o.done THEN Close(s, OK)
             ELSE at' = [at EXCEPT ![s] = "lost"] /\ UNCHANGED status
    /\ UNCHANGED <<stored, scene, request, late, served, dangling, dead>>

\* The callback runs outside its handler, and errorHandler answers for it.
BodyArrives(s) ==
    /\ ~dead /\ at[s] = "fetching"
    /\ Apply(s, INTERNAL_SERVER_ERROR)

ClientLeaves(s) ==
    /\ ~dead /\ at[s] = "fetching"
    /\ at' = [at EXCEPT ![s] = "ended"]
    /\ UNCHANGED <<store, scene, request, late, status, broke, served, dangling, dead>>

-----------------------------------------------------------------------------
Handler(s) == Read(s) \/ ReadFirstOfNone(s) \/ ServePage(s) \/ putConfigHandler(s)
              \/ scriptHandler(s) \/ Fetch(s)

Next ==
    \E s \in Sessions :
        \/ \E r \in Requests : Receive(s, r)
        \/ Handler(s) \/ LateConfig(s) \/ BodyArrives(s) \/ ClientLeaves(s)

Spec == Init /\ [][Next]_vars

(* restbed calls the handler of every head it has read, and a client sends *)
(* the rest of its request or goes away.                                   *)
Fairness ==
    \A s \in Sessions : WF_vars(Handler(s)) /\ WF_vars(BodyArrives(s) \/ ClientLeaves(s))

FairSpec == Spec /\ Fairness

-----------------------------------------------------------------------------
ColumnNamed(n) == n \in NameWords \cup OtherWords

\* Every variable has its type; only scripts in the table are in memory, unless there can
\* be one with a column's name, whose deletion hits other rows.
TypeOK ==
    /\ stored \in Documents \cup {Nothing}
    /\ names \subseteq Names /\ rows \subseteq Names /\ scripts \subseteq Names
    /\ (\A n \in names : ~ColumnNamed(n)) => scripts \subseteq rows
    /\ at \in [Sessions -> {"idle", "head", "fetching", "ended"}]
    /\ status \in [Sessions -> {0, OK, BAD_REQUEST, INTERNAL_SERVER_ERROR}]
    /\ broke \in [Sessions -> BOOLEAN]
    /\ \A s \in Sessions : status[s] # 0 => at[s] = "ended"

Edits(s) == request[s].kind \in {"putConfig", "post", "patch", "delete"}

\* What a success promises.  A document is what is stored now.  A script that was saved was
\* in neither store and is in both; one that was updated runs; one that was deleted does
\* not run, and has no row unless its name is another column's, whether it was there or
\* not.  No other script starts or stops to run, and no other row comes or goes, but with
\* the deletion of a column's name.
Accomplished(s) ==
    LET r == request[s]
        n == r.name
    IN  IF r.kind = "putConfig" THEN stored' = r.doc /\ UNCHANGED <<rows, scripts>>
        ELSE /\ r.kind = "post" => /\ n \notin rows \cup scripts
                                   /\ n \in rows' /\ n \in scripts'
             /\ r.kind = "patch" => n \in scripts /\ n \in scripts'
             /\ r.kind = "delete" => /\ n \notin scripts'
                                     /\ n \notin OtherWords => n \notin rows'
             /\ scripts' \ {n} = scripts \ {n} /\ stored' = stored
             /\ r.kind # "delete" \/ ~ColumnNamed(n) => rows' \ {n} = rows \ {n}

\* An answer is true of the stores at its moment, whichever of the two ways the callback
\* came to run, and whatever other sessions did between the head of a request and its body:
\* a success has done what it promises, and a refusal has changed nothing but, if a
\* constructor threw after its statement, the row of that statement.
AnswersTrue ==
    [][\A s \in Sessions : status[s] = 0 /\ status'[s] # 0 /\ Edits(s) =>
          IF status'[s] = OK THEN Accomplished(s)
          ELSE /\ UNCHANGED <<stored, scripts>>
               /\ rows' # rows => broke'[s] /\ rows' = rows \cup {request[s].name}]_vars

\* A session that has its answer keeps it and changes nothing any more, although its body,
\* or its callback, may still be to come: what changes the stores is a session that had no
\* answer and has one now.
RefusedStays ==
    [][/\ \A s \in Sessions : at[s] = "ended" /\ at'[s] = "ended" => status'[s] = status[s]
       /\ store' # store => \E s \in Sessions : at[s] # "ended" /\ status'[s] # 0]_vars

\* Whatever is asked, however its body comes and whoever else keeps the server waiting for
\* one, a request ends, unless undefined behaviour ends the process.
EveryRequestEnds ==
    \A s \in Sessions : at[s] # "idle" ~> at[s] = "ended" \/ dead

\* A page that was deployed is served under its own path and without its .html, also where
\* a folder of that name exists, but for the folder's index and for a file that is named so:
\* no path SetupWebPaths has registered gets 404.html for an answer (or an empty one, if
\* its file has text).
PagesServed ==
    \A s \in Sessions :
        at[s] = "ended" /\ request[s].kind = "page" /\ ~request[s].slash =>
            LET f == request[s].file
                page == File(f.segs, TRUE)
            IN  /\ Content(f) = "text" => served[s] = f
                /\ Content(page) = "text" =>
                      served[s] \in {f, page, Index(f.segs)} /\ FileExists(served[s])

-----------------------------------------------------------------------------
\* Server.cpp, line 62: "You must provide a valid configuration".  One who provides it
\* should not be told so: unless a statement fails, a valid configuration is accepted.
ValidConfigAccepted ==
    \A s \in Sessions :
        at[s] = "ended" /\ request[s].kind = "putConfig" /\ ~broke[s] /\ status[s] # 0 =>
            (request[s].doc \in Documents => status[s] = OK)
=============================================================================
