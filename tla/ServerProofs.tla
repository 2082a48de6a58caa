---------------------------- MODULE ServerProofs ----------------------------
(***************************************************************************)
(* Proofs about the HTTP side, for any number of sessions, names and       *)
(* documents and for any tree of web pages.                                *)
(*                                                                         *)
(*   TypesHold            the sessions, and only stored scripts run        *)
(*   AnswersAgree         an answer says what was done                     *)
(*   AnsweredIsOver       what is answered changes nothing more            *)
(*   DeployedPagesServed  a registered path gets its page                  *)
(***************************************************************************)
EXTENDS Server, TLAPS

\* What a session has to do with the rest while it is open: it was asked something the
\* store can take, and it has answered nothing; only the callback of a script handler is
\* waited for.
Open(s) ==
    /\ request[s].kind = "putConfig" => request[s].doc \in Documents \cup {Nothing}
    /\ request[s].kind \in {"post", "patch", "delete"} => request[s].name \in names \cup {Nothing}
    /\ at[s] # "ended" => status[s] = 0
    /\ at[s] = "fetching" => request[s].kind \in {"post", "patch"}

\* A page that has been served.
Paged(s) ==
    /\ request[s].kind = "page" => /\ request[s].file.html \in BOOLEAN
                                   /\ request[s].file = File(request[s].file.segs, request[s].file.html)
    /\ at[s] = "ended" /\ request[s].kind = "page" =>
          served[s] = getIndexHandler(request[s].file, request[s].slash)

Fields ==
    /\ DOMAIN request = Sessions /\ DOMAIN served = Sessions
    /\ \A f \in DOMAIN tree : f.html \in BOOLEAN /\ f = File(f.segs, f.html)

SInv == TypeOK /\ Fields /\ \A s \in Sessions : Open(s) /\ Paged(s)

LEMMA ServerInit == Init => SInv
<1> SUFFICES ASSUME Init PROVE SInv
  OBVIOUS
<1>1. TypeOK
  BY ScenesAssumption DEF Init, TypeOK, OK, BAD_REQUEST, INTERNAL_SERVER_ERROR
<1>2. Fields
  BY ScenesAssumption DEF Init, Fields
<1>3. \A s \in Sessions : Open(s) /\ Paged(s)
  BY DEF Init, Open, Paged, Edits, NoRequest
<1> QED
  BY <1>1, <1>2, <1>3 DEF SInv

\* What is asked.
LEMMA Asked ==
    ASSUME Fields, NEW r \in Requests
    PROVE  /\ r.kind = "putConfig" => r.doc \in Documents \cup {Nothing}
           /\ r.kind \in {"post", "patch", "delete"} => r.name \in Names \cup {Nothing}
           /\ r.kind = "page" => r.file.html \in BOOLEAN /\ r.file = File(r.file.segs, r.file.html)
<1>1. \A f \in GetAllFilePaths \cup {Nowhere} :
         f.html \in BOOLEAN /\ f = File(f.segs, f.html)
  <2>1. \A q : File(q, FALSE).html = FALSE /\ File(q, FALSE).segs = q
    BY DEF File
  <2>2. ASSUME NEW f \in GetAllFilePaths, f \notin DOMAIN tree
        PROVE  \E q : f = File(q, FALSE)
    BY <2>2 DEF GetAllFilePaths
  <2>3. \A q : File(q, FALSE).html \in BOOLEAN
                /\ File(q, FALSE) = File(File(q, FALSE).segs, File(q, FALSE).html)
    BY <2>1
  <2>4. \A f \in DOMAIN tree : f.html \in BOOLEAN /\ f = File(f.segs, f.html)
    BY DEF Fields
  <2> SUFFICES ASSUME NEW f \in GetAllFilePaths \cup {Nowhere}
               PROVE  f.html \in BOOLEAN /\ f = File(f.segs, f.html)
    OBVIOUS
  <2>5. CASE f \in DOMAIN tree
    BY <2>4, <2>5
  <2>6. CASE f \notin DOMAIN tree
    <3>1. PICK q : f = File(q, FALSE)
      BY <2>2, <2>6 DEF Nowhere
    <3> QED
      BY <2>3, <3>1
  <2> QED
    BY <2>5, <2>6
<1>2. CASE r \in ConfigRequests
  BY <1>2 DEF ConfigRequests
<1>3. CASE r \in ScriptRequests
  BY <1>3 DEF ScriptRequests
<1>4. CASE r \in ReportRequests
  BY <1>4 DEF ReportRequests
<1>5. CASE r \in PageRequests
  <2>1. PICK f \in GetAllFilePaths \cup {Nowhere}, b \in BOOLEAN :
           r = [kind |-> "page", file |-> f, slash |-> b]
    BY <1>5 DEF PageRequests
  <2>2. r.kind = "page" /\ r.file = f
    BY <2>1
  <2> QED
    BY <1>1, <2>2
<1> QED
  BY <1>2, <1>3, <1>4, <1>5 DEF Requests

\* What an edit of a script can come to.
LEMMA OutcomeType ==
    ASSUME TypeOK, NEW s \in Sessions, Open(s), request[s].kind \in {"post", "patch", "delete"},
           NEW o \in Outcomes(request[s])
    PROVE  /\ o.rows \subseteq Names /\ o.scripts \subseteq Names
           /\ (\A n \in names : ~ColumnNamed(n)) => o.scripts \subseteq o.rows
           /\ o.broke \in BOOLEAN
<1> DEFINE n == request[s].name
           plain == \A m \in names : ~ColumnNamed(m)
           Fits(r, sc) == r \subseteq Names /\ sc \subseteq Names /\ (plain => sc \subseteq r)
<1>1. Fits(rows, scripts) /\ n \in names \cup {Nothing} /\ names \subseteq Names
  BY DEF TypeOK, Open
<1>2. \A r, sc : \A d, b \in BOOLEAN :
         LET q == Outcome(r, sc, d, b)
         IN  q.rows = r /\ q.scripts = sc /\ q.done = d /\ q.broke = b
  BY DEF Outcome
<1>3. SUFFICES \E r, sc : \E d, b \in BOOLEAN : Fits(r, sc) /\ o = Outcome(r, sc, d, b)
  BY <1>2
<1>4. CASE o \in {Refused, Failed}
  BY <1>1, <1>4 DEF Refused, Failed
<1>5. CASE o \notin {Refused, Failed}
  <2>1. n # Nothing
    BY <1>5 DEF Outcomes
  <2>2. n \in names /\ n \in Names
    BY <1>1, <2>1
  <2>3. CASE request[s].kind = "post"
    <3>1. o \in {Outcome(rows \cup {n}, scripts, FALSE, TRUE),
                 Outcome(rows \cup {n}, scripts \cup {n}, TRUE, FALSE)}
      BY <1>5, <2>1, <2>3 DEF Outcomes, SaveScript
    <3>2. Fits(rows \cup {n}, scripts) /\ Fits(rows \cup {n}, scripts \cup {n})
      BY <1>1, <2>2
    <3> HIDE DEF Fits
    <3> QED
      BY <3>1, <3>2
  <2>4. CASE request[s].kind = "patch"
    <3>1. o = Outcome(rows, scripts, TRUE, FALSE)
      BY <1>5, <2>1, <2>4 DEF Outcomes, UpdateScript
    <3> HIDE DEF Fits
    <3> QED
      BY <1>1, <3>1
  <2>5. CASE request[s].kind = "delete"
    <3>1. PICK hit \in Hits(n, rows) : o = Outcome(rows \ hit, scripts \ {n}, TRUE, FALSE)
      BY <1>5, <2>1, <2>5 DEF Outcomes, DeleteScript
    <3>2. ~ColumnNamed(n) => hit \subseteq {n}
      BY DEF Hits, ColumnNamed
    <3>3. Fits(rows \ hit, scripts \ {n})
      BY <1>1, <2>2, <3>2
    <3> HIDE DEF Fits
    <3> QED
      BY <3>1, <3>3
  <2> QED
    BY <2>3, <2>4, <2>5
<1> QED
  BY <1>4, <1>5

\* The pages do not change.
LEMMA SamePage ==
    ASSUME tree' = tree, NEW f, NEW b
    PROVE  getIndexHandler(f, b)' = getIndexHandler(f, b)
<1>1. \A g : Content(g)' = Content(g)
  BY DEF Content
<1>2. \A g : FileExists(g)' = FileExists(g)
  BY <1>1 DEF FileExists
<1>3. \A q : FolderExists(q)' = FolderExists(q)
  BY <1>2 DEF FolderExists
<1> QED
  BY <1>1, <1>2, <1>3 DEF getIndexHandler

\* A step of one session leaves the others as they are.
LEMMA Others ==
    ASSUME SInv, NEW s \in Sessions, NEW u \in Sessions \ {s}, tree' = tree, names' = names,
           request'[u] = request[u], at'[u] = at[u], status'[u] = status[u],
           served'[u] = served[u]
    PROVE  (Open(u) /\ Paged(u))'
<1>1. (Open(u))'
  BY DEF SInv, Open, Edits
<1>2. Paged(u)'
  BY SamePage DEF SInv, Paged
<1> QED
  BY <1>1, <1>2

\* A step of one session keeps the invariant if it keeps that session's part and the store.
LEMMA OneSession ==
    ASSUME SInv, NEW s \in Sessions, scene' = scene,
           NEW nr, NEW na, NEW nt, NEW nv,
           request' = [request EXCEPT ![s] = nr] \/ request' = request,
           at' = [at EXCEPT ![s] = na] \/ at' = at,
           status' = [status EXCEPT ![s] = nt] \/ status' = status,
           served' = [served EXCEPT ![s] = nv] \/ served' = served,
           TypeOK', (Open(s) /\ Paged(s))'
    PROVE  SInv'
<1>1. tree' = tree /\ names' = names
  BY DEF scene
<1>2. Fields'
  BY <1>1 DEF SInv, Fields
<1>3. ASSUME NEW u \in Sessions \ {s} PROVE (Open(u) /\ Paged(u))'
  <2>1. /\ request'[u] = request[u] /\ at'[u] = at[u] /\ status'[u] = status[u]
        /\ served'[u] = served[u]
    BY DEF SInv, TypeOK, Fields
  <2> QED
    BY <1>1, <2>1, Others
<1> QED
  BY <1>2, <1>3 DEF SInv

LEMMA ReceiveKeeps ==
    ASSUME SInv, NEW s \in Sessions, NEW r \in Requests, Receive(s, r)
    PROVE  SInv'
<1>1. /\ request' = [request EXCEPT ![s] = r] /\ at' = [at EXCEPT ![s] = "head"]
      /\ status' = [status EXCEPT ![s] = 0]
      /\ broke' = [broke EXCEPT ![s] = FALSE] /\ served' = [served EXCEPT ![s] = Page404]
      /\ UNCHANGED <<stored, rows, scripts, scene, names>>
      /\ r.kind \in {"post", "patch", "delete"} => r.name \in names \cup {Nothing}
  BY DEF Receive, store, scene
<1>2. TypeOK'
  BY <1>1 DEF SInv, TypeOK
<1>3. request'[s] = r /\ at'[s] = "head" /\ status'[s] = 0
  BY <1>1 DEF SInv, TypeOK, Fields
<1>4. (Open(s) /\ Paged(s))'
  BY <1>1, <1>3, Asked DEF SInv, Open, Paged
<1> QED
  BY <1>1, <1>2, <1>4, OneSession

LEMMA ReadKeeps == ASSUME SInv, NEW s \in Sessions, Read(s) PROVE SInv'
<1>1. PICK c \in {OK, BAD_REQUEST, INTERNAL_SERVER_ERROR} :
         /\ at' = [at EXCEPT ![s] = "ended"] /\ status' = [status EXCEPT ![s] = c]
         /\ request[s].kind \in {"read", "providers", "aggregate"}
         /\ UNCHANGED <<stored, rows, scripts, scene, names, request, broke, served>>
  BY DEF Read, Close, Unchanged, store, scene
<1>2. TypeOK'
  BY <1>1 DEF SInv, TypeOK
<1>3. request'[s] = request[s] /\ at'[s] = "ended"
  BY <1>1 DEF SInv, TypeOK
<1>4. (Open(s) /\ Paged(s))'
  BY <1>1, <1>3 DEF SInv, Open, Paged, Edits
<1> QED
  BY <1>1, <1>2, <1>4, OneSession

LEMMA PageKeeps == ASSUME SInv, NEW s \in Sessions, ServePage(s) PROVE SInv'
<1> DEFINE page == getIndexHandler(request[s].file, request[s].slash)
<1>1. /\ at' = [at EXCEPT ![s] = "ended"] /\ status' = [status EXCEPT ![s] = OK]
      /\ served' = [served EXCEPT ![s] = page]
      /\ request[s].kind = "page" /\ tree' = tree /\ names' = names
      /\ UNCHANGED <<stored, rows, scripts, scene, request, broke>>
  BY DEF ServePage, Handles, Close, Unchanged, store, scene
<1>2. TypeOK'
  BY <1>1 DEF SInv, TypeOK
<1>3. request'[s] = request[s] /\ at'[s] = "ended" /\ served'[s] = page
  BY <1>1 DEF SInv, TypeOK, Fields
<1>4. (Open(s))'
  BY <1>1, <1>3 DEF SInv, Open, Edits
<1>5. Paged(s)'
  BY <1>1, <1>3, SamePage DEF SInv, Paged
<1> QED
  BY <1>1, <1>2, <1>4, <1>5, OneSession

LEMMA ConfigKeeps == ASSUME SInv, NEW s \in Sessions, putConfigHandler(s) PROVE SInv'
<1>1. /\ request[s].kind = "putConfig" /\ at[s] = "head"
      /\ at' = [at EXCEPT ![s] = "ended"]
      /\ UNCHANGED <<rows, scripts, scene, names, request, served>>
  BY DEF putConfigHandler, Handles, Close, scene
<1>2. Body(s) \in Documents \cup {Nothing}
  BY <1>1 DEF Body, SInv, Open
<1>3. PICK c \in {OK, BAD_REQUEST} :
         /\ status' = [status EXCEPT ![s] = c]
         /\ stored' \in Documents \cup {Nothing}
         /\ broke' = broke \/ broke' = [broke EXCEPT ![s] = TRUE]
  BY <1>2 DEF putConfigHandler, Close, Breaks, SInv, TypeOK
<1>4. TypeOK'
  BY <1>1, <1>3 DEF SInv, TypeOK
<1>5. request'[s] = request[s] /\ at'[s] = "ended"
  BY <1>1 DEF SInv, TypeOK
<1>6. (Open(s) /\ Paged(s))'
  BY <1>1, <1>5 DEF SInv, Open, Paged
<1> QED
  BY <1>1, <1>3, <1>4, <1>6, OneSession

LEMMA ApplyKeeps ==
    ASSUME SInv, NEW s \in Sessions, NEW c \in {BAD_REQUEST, INTERNAL_SERVER_ERROR},
           request[s].kind \in {"post", "patch", "delete"}, Apply(s, c)
    PROVE  SInv'
<1>1. PICK o \in Outcomes(request[s]) :
         /\ rows' = o.rows /\ scripts' = o.scripts
         /\ broke' = [broke EXCEPT ![s] = o.broke]
         /\ at' = [at EXCEPT ![s] = "ended"]
         /\ status' = [status EXCEPT ![s] = IF o.done THEN OK ELSE c]
         /\ UNCHANGED <<stored, scene, names, request, served>>
  BY DEF Apply, Close, Breaks, scene
<1>2. /\ o.rows \subseteq Names /\ o.scripts \subseteq Names
      /\ (\A n \in names : ~ColumnNamed(n)) => o.scripts \subseteq o.rows
      /\ o.broke \in BOOLEAN
  BY OutcomeType DEF SInv
<1>3. TypeOK'
  BY <1>1, <1>2 DEF SInv, TypeOK
<1>4. /\ request'[s] = request[s] /\ at'[s] = "ended"
  BY <1>1 DEF SInv, TypeOK
<1>5. (Open(s) /\ Paged(s))'
  BY <1>1, <1>2, <1>4 DEF SInv, Open, Paged
<1> QED
  BY <1>1, <1>3, <1>5, OneSession

LEMMA WaitKeeps == ASSUME SInv, NEW s \in Sessions, Fetch(s) \/ ClientLeaves(s) PROVE SInv'
<1>1. PICK a \in {"fetching", "ended"} :
         /\ at' = [at EXCEPT ![s] = a] /\ at[s] \in {"head", "fetching"}
         /\ request[s].kind \in {"post", "patch"}
         /\ UNCHANGED <<stored, rows, scripts, scene, names, request, status, broke, served>>
  BY DEF Fetch, ClientLeaves, SInv, Open, store, scene
<1>2. status[s] = 0
  BY <1>1 DEF SInv, Open
<1>3. TypeOK'
  BY <1>1, <1>2 DEF SInv, TypeOK
<1>4. request'[s] = request[s] /\ at'[s] = a /\ status'[s] = 0
  BY <1>1, <1>2 DEF SInv, TypeOK
<1>5. (Open(s) /\ Paged(s))'
  BY <1>1, <1>4 DEF SInv, Open, Paged
<1> QED
  BY <1>1, <1>3, <1>5, OneSession

\* What changes neither the store nor a session's answer.
LEMMA QuietKeeps ==
    ASSUME SInv, UNCHANGED <<store, scene, request, at, status, broke, served>>
    PROVE  SInv'
<1>1. tree' = tree /\ names' = names
  BY DEF scene
<1>2. TypeOK' /\ Fields'
  BY <1>1 DEF SInv, TypeOK, Fields, store
<1>3. ASSUME NEW u \in Sessions PROVE (Open(u) /\ Paged(u))'
  <2>1. (Open(u))'
    BY <1>1 DEF SInv, Open, Edits
  <2>2. Paged(u)'
    BY <1>1, SamePage DEF SInv, Paged
  <2> QED
    BY <2>1, <2>2
<1> QED
  BY <1>2, <1>3 DEF SInv

LEMMA ServerNext == SInv /\ [Next]_vars => SInv'
<1> SUFFICES ASSUME SInv, [Next]_vars PROVE SInv'
  OBVIOUS
<1>1. ASSUME NEW s \in Sessions, NEW r \in Requests, Receive(s, r) PROVE SInv'
  BY <1>1, ReceiveKeeps
<1>2. ASSUME NEW s \in Sessions, Read(s) \/ ServePage(s) \/ putConfigHandler(s) PROVE SInv'
  BY <1>2, ReadKeeps, PageKeeps, ConfigKeeps
<1>3. ASSUME NEW s \in Sessions, scriptHandler(s) \/ BodyArrives(s) PROVE SInv'
  <2>1. CASE scriptHandler(s)
    BY <2>1, ApplyKeeps DEF scriptHandler
  <2>2. CASE BodyArrives(s)
    <3>1. request[s].kind \in {"post", "patch", "delete"}
      BY <2>2 DEF BodyArrives, SInv, Open
    <3> QED
      BY <2>2, <3>1, ApplyKeeps DEF BodyArrives
  <2> QED
    BY <1>3, <2>1, <2>2
<1>4. ASSUME NEW s \in Sessions, Fetch(s) \/ ClientLeaves(s) PROVE SInv'
  BY <1>4, WaitKeeps
<1>5. ASSUME NEW s \in Sessions, ReadFirstOfNone(s) \/ LateConfig(s) PROVE SInv'
  BY <1>5, QuietKeeps DEF ReadFirstOfNone, LateConfig, session
<1>6. CASE UNCHANGED vars
  BY <1>6, QuietKeeps DEF vars, session
<1> QED
  BY <1>1, <1>2, <1>3, <1>4, <1>5, <1>6 DEF Next, Handler

(* The inductive invariant holds, whatever handlers, callbacks, bodies and *)
(* clients do (Server.cpp).                                                *)
THEOREM ServerCorrect == Spec => []SInv
  BY ServerInit, ServerNext, PTL DEF Spec

-----------------------------------------------------------------------------
(* Sessions are where the code can leave them, and as long as no script    *)
(* has the name of a column only those in the table run (lines 152-278 of  *)
(* ScriptManager.h).                                                       *)
THEOREM TypesHold == Spec => []TypeOK
<1>1. SInv => TypeOK
  BY DEF SInv
<1> QED
  BY <1>1, ServerCorrect, PTL

\* What an edit of a script has come to when its answer is given.
LEMMA EditAnswered ==
    ASSUME SInv, NEW s \in Sessions, NEW c \in {BAD_REQUEST, INTERNAL_SERVER_ERROR},
           request[s].kind \in {"post", "patch", "delete"}, Apply(s, c)
    PROVE  /\ status' = [status EXCEPT ![s] = status'[s]]
           /\ IF status'[s] = OK THEN Accomplished(s)
              ELSE /\ UNCHANGED <<stored, scripts>>
                   /\ rows' # rows => broke'[s] /\ rows' = rows \cup {request[s].name}
<1>1. PICK o \in Outcomes(request[s]) :
         /\ rows' = o.rows /\ scripts' = o.scripts /\ stored' = stored
         /\ broke' = [broke EXCEPT ![s] = o.broke]
         /\ status' = [status EXCEPT ![s] = IF o.done THEN OK ELSE c]
  BY DEF Apply, Close, Breaks
<1>2. status'[s] = (IF o.done THEN OK ELSE c) /\ broke'[s] = o.broke
  BY <1>1 DEF SInv, TypeOK
<1>3. c # OK
  BY DEF OK, BAD_REQUEST, INTERNAL_SERVER_ERROR
<1>4. status' = [status EXCEPT ![s] = status'[s]]
  BY <1>1, <1>2
<1>5. CASE o \in {Refused, Failed}
  BY <1>1, <1>2, <1>3, <1>4, <1>5 DEF Refused, Failed, Outcome
<1>6. CASE o \notin {Refused, Failed} /\ request[s].kind = "post"
  BY <1>1, <1>2, <1>3, <1>4, <1>6 DEF Outcomes, SaveScript, Outcome, Accomplished
<1>7. CASE o \notin {Refused, Failed} /\ request[s].kind = "patch"
  BY <1>1, <1>2, <1>3, <1>4, <1>7 DEF Outcomes, UpdateScript, Outcome, Accomplished
<1>8. CASE o \notin {Refused, Failed} /\ request[s].kind = "delete"
  <2>1. PICK hit \in Hits(request[s].name, rows) :
           o = Outcome(rows \ hit, scripts \ {request[s].name}, TRUE, FALSE)
    BY <1>8 DEF Outcomes, DeleteScript
  <2>2. o.done /\ rows' = rows \ hit /\ scripts' = scripts \ {request[s].name}
    BY <1>1, <2>1 DEF Outcome
  <2>3. request[s].name \notin OtherWords => request[s].name \notin rows'
    BY <2>2 DEF Hits
  <2>4. ~ColumnNamed(request[s].name) => rows' \ {request[s].name} = rows \ {request[s].name}
    BY <2>2 DEF Hits, ColumnNamed
  <2>5. Accomplished(s)
    BY <1>1, <1>8, <2>2, <2>3, <2>4 DEF Accomplished
  <2> QED
    BY <1>2, <1>4, <2>2, <2>5
<1> QED
  BY <1>5, <1>6, <1>7, <1>8

(* An answer is true of the stores at its moment, whether the callback     *)
(* throws inside the handler's try or after it (lines 49-196 of            *)
(* Server.cpp), for any number of sessions and whatever they do between.   *)
THEOREM AnswersAgree == Spec => AnswersTrue
<1> DEFINE True(s) == status[s] = 0 /\ status'[s] # 0 /\ Edits(s) =>
                         IF status'[s] = OK THEN Accomplished(s)
                         ELSE /\ UNCHANGED <<stored, scripts>>
                              /\ rows' # rows =>
                                    broke'[s] /\ rows' = rows \cup {request[s].name}
<1>1. SInv /\ [Next]_vars => [\A s \in Sessions : True(s)]_vars
  <2> SUFFICES ASSUME SInv, Next, NEW u \in Sessions, status[u] = 0, status'[u] # 0, Edits(u)
               PROVE  True(u)
    OBVIOUS
  <2>0. DOMAIN at = Sessions /\ DOMAIN status = Sessions /\ DOMAIN broke = Sessions
    BY DEF SInv, TypeOK
  <2>1. ASSUME NEW s \in Sessions, NEW r \in Requests, Receive(s, r) PROVE FALSE
    BY <2>0, <2>1 DEF Receive
  <2>2. ASSUME NEW s \in Sessions, Read(s) \/ ServePage(s) PROVE FALSE
    BY <2>0, <2>2 DEF Read, ServePage, Handles, Close, Edits
  <2>3. ASSUME NEW s \in Sessions, putConfigHandler(s) PROVE True(u)
    <3>1. u = s /\ request[u].kind = "putConfig"
      BY <2>0, <2>3 DEF putConfigHandler, Handles, Close
    <3>2. UNCHANGED <<rows, scripts>>
      BY <2>3 DEF putConfigHandler
    <3>3. CASE Close(s, OK) /\ Body(s) # Nothing /\ stored' = Body(s)
      <4>1. status'[u] = OK /\ stored' = request[u].doc
        BY <2>0, <3>1, <3>3 DEF Close, Body
      <4> QED
        BY <3>1, <3>2, <4>1 DEF Accomplished
    <3>4. CASE Close(s, BAD_REQUEST) /\ stored' = stored
      BY <2>0, <3>1, <3>2, <3>4 DEF Close, OK, BAD_REQUEST
    <3> QED
      BY <2>3, <3>3, <3>4 DEF putConfigHandler
  <2>4. ASSUME NEW s \in Sessions, scriptHandler(s) \/ BodyArrives(s) PROVE True(u)
    <3>1. request[s].kind \in {"post", "patch", "delete"}
      BY <2>4 DEF scriptHandler, BodyArrives, SInv, Open
    <3>2. PICK c \in {BAD_REQUEST, INTERNAL_SERVER_ERROR} : Apply(s, c)
      BY <2>4 DEF scriptHandler, BodyArrives
    <3>3. u = s
      BY <2>0, <3>2 DEF Apply, Close
    <3> QED
      BY <3>1, <3>2, <3>3, EditAnswered
  <2>5. ASSUME NEW s \in Sessions, Fetch(s) \/ ClientLeaves(s) PROVE FALSE
    BY <2>0, <2>5 DEF Fetch, ClientLeaves
  <2>6. ASSUME NEW s \in Sessions, ReadFirstOfNone(s) \/ LateConfig(s) PROVE FALSE
    BY <2>6 DEF ReadFirstOfNone, LateConfig, session
  <2> QED
    BY <2>1, <2>2, <2>3, <2>4, <2>5, <2>6 DEF Next, Handler
<1> QED
  BY <1>1, ServerCorrect, PTL DEF Spec, AnswersTrue

(* Every path that SetupWebPaths registers gets the page it stands for     *)
(* from getIndexHandler (lines 4-37 of Server.cpp), in any tree.           *)
THEOREM DeployedPagesServed == Spec => []PagesServed
<1>1. SInv => PagesServed
  <2> SUFFICES ASSUME SInv, NEW s \in Sessions, at[s] = "ended", request[s].kind = "page",
                      ~request[s].slash
               PROVE  LET f == request[s].file
                          page == File(f.segs, TRUE)
                      IN  /\ Content(f) = "text" => served[s] = f
                          /\ Content(page) = "text" =>
                                served[s] \in {f, page, Index(f.segs)} /\ FileExists(served[s])
    BY DEF PagesServed
  <2> DEFINE f == request[s].file
             page == File(f.segs, TRUE)
  <2>1. served[s] = getIndexHandler(f, request[s].slash)
        /\ f.html \in BOOLEAN /\ f = File(f.segs, f.html)
    BY DEF SInv, Paged
  <2>2. CASE Content(f) = "text"
    <3>1. getIndexHandler(f, request[s].slash) = f
      BY <2>2 DEF getIndexHandler
    <3>2. FileExists(f)
      BY <2>2 DEF FileExists
    <3> QED
      BY <2>1, <3>1, <3>2
  <2>3. CASE Content(f) # "text"
    <3>1. SUFFICES ASSUME Content(page) = "text"
                   PROVE  served[s] \in {f, page, Index(f.segs)} /\ FileExists(served[s])
      BY <2>3
    <3>2. ~f.html
      BY <2>1, <2>3, <3>1
    <3>3. FileExists(page)
      BY <3>1 DEF FileExists
    <3> QED
      BY <2>1, <2>3, <3>2, <3>3 DEF getIndexHandler
  <2> QED
    BY <2>2, <2>3
<1> QED
  BY <1>1, ServerCorrect, PTL

(* An answered session changes nothing more, and nothing is changed but on *)
(* the way to an answer, however late bodies and callbacks come.           *)
THEOREM AnsweredIsOver == Spec => RefusedStays
<1> DEFINE Over == /\ \A s \in Sessions : at[s] = "ended" /\ at'[s] = "ended" =>
                          status'[s] = status[s]
                   /\ store' # store => \E s \in Sessions : at[s] # "ended" /\ status'[s] # 0
<1>1. SInv /\ [Next]_vars => [Over]_vars
  <2> SUFFICES ASSUME SInv, Next PROVE Over
    OBVIOUS
  <2>0. DOMAIN at = Sessions /\ DOMAIN status = Sessions
    BY DEF SInv, TypeOK
  <2>1. ASSUME NEW s \in Sessions, NEW r \in Requests, Receive(s, r) PROVE Over
    BY <2>0, <2>1 DEF Receive
  <2>2. ASSUME NEW s \in Sessions, Read(s) \/ ServePage(s) PROVE Over
    BY <2>0, <2>2 DEF Read, ServePage, Handles, Close, Unchanged
  <2>3. ASSUME NEW s \in Sessions, putConfigHandler(s) PROVE Over
    <3>1. PICK c \in {OK, BAD_REQUEST} :
             at[s] = "head" /\ status' = [status EXCEPT ![s] = c]
      BY <2>3 DEF putConfigHandler, Handles, Close
    <3>2. status'[s] # 0 /\ at[s] # "ended"
      BY <2>0, <3>1 DEF OK, BAD_REQUEST
    <3>3. \A u \in Sessions \ {s} : status'[u] = status[u]
      BY <2>0, <3>1
    <3> QED
      BY <3>2, <3>3
  <2>4. ASSUME NEW s \in Sessions, scriptHandler(s) \/ BodyArrives(s) PROVE Over
    <3>1. PICK c \in {OK, BAD_REQUEST, INTERNAL_SERVER_ERROR} :
             /\ at[s] # "ended" /\ status' = [status EXCEPT ![s] = c]
             /\ at' = [at EXCEPT ![s] = "ended"]
      BY <2>4 DEF scriptHandler, BodyArrives, Apply, Close
    <3> QED
      BY <2>0, <3>1 DEF OK, BAD_REQUEST, INTERNAL_SERVER_ERROR
  <2>5. ASSUME NEW s \in Sessions, Fetch(s) \/ ClientLeaves(s) PROVE Over
    BY <2>0, <2>5 DEF Fetch, ClientLeaves
  <2>6. ASSUME NEW s \in Sessions, ReadFirstOfNone(s) \/ LateConfig(s) PROVE Over
    BY <2>6 DEF ReadFirstOfNone, LateConfig, session
  <2> QED
    BY <2>1, <2>2, <2>3, <2>4, <2>5, <2>6 DEF Next, Handler
<1> QED
  BY <1>1, ServerCorrect, PTL DEF Spec, RefusedStays
=============================================================================
