---------------------------- MODULE Configuration ----------------------------
(***************************************************************************)
(* The configuration on its way round the program: a client sends a        *)
(* document with PUT /api/config/save, SaveConfigData stores it under the  *)
(* key "config", and the next start of the program loads it and hands its  *)
(* fields to the managers that Application::Initialize creates.            *)
(*                                                                         *)
(* Everything here runs on the main thread (the server handles requests on *)
(* the thread that calls service->start), so the steps are separated only  *)
(* where the process can end.  A document is the four fields the program   *)
(* looks at, and whether there is a single quote in its text: SaveConfig-  *)
(* Data pastes the text between single quotes, where one of its own ends   *)
(* it early and the rest is read as SQL.                                   *)
(***************************************************************************)
EXTENDS Integers

CONSTANTS
    Objects,    \* the JSON objects clients send
    EnvPorts,   \* the values METRICS_FETCHER_PORT has, NoEnv among them
    IntHalf     \* ints go from -IntHalf to IntHalf - 1: 2^31, or less for TLC

Absent == -1            \* no such member, or IsUint() is false
NoEnv  == -1
Field  == 0 .. 2 * IntHalf - 1 \cup {Absent}

ASSUME ObjectsAssumption ==
    Objects \subseteq [poolSize : Field, port : Field, metricFetchInterval : Field,
                       predictionInterval : Field, quoted : BOOLEAN]
ASSUME IntAssumption == IntHalf \in Nat /\ IntHalf > 300000
ASSUME EnvAssumption == EnvPorts \subseteq Nat \cup {NoEnv}

VARIABLES
    env,            \* METRICS_FETCHER_PORT of the running process
    stored,         \* the value of the row with the key "config"
    phase,          \* how far Application::Initialize has come
    config,         \* ConfigManager::config
    intervalMS_,    \* of the MetricsManager
    poolSize,       \* of the ThreadManager
    port,           \* of the Server
    request,        \* the document putConfigHandler is at, if any
    \* What the properties remember of the past:
    before,         \* stored, when the request came
    answer,         \* the last answer to a PUT
    promised,       \* the last document answered with OK, and those written after it
    booted          \* promised, when the row was loaded; none if there was none to be had

server  == <<request, before, answer>>
running == <<intervalMS_, poolSize, port>>
vars    == <<env, stored, phase, config, running, server, promised, booted>>

Empty     == [kind |-> "empty"]         \* no text, or text that has not arrived yet
Malformed == [kind |-> "malformed"]     \* not JSON, or not an object
NoRow     == [kind |-> "no row"]
NoRequest == [kind |-> "no request"]
Documents == Objects \cup {Empty, Malformed}

(* Conversions to short and to USHORT, and from UINT to int and back.      *)
Short(n)  == ((n + 32768) % 65536) - 32768
UShort(n) == n % 65536
ToInt(n)  == IF n < IntHalf THEN n ELSE n - 2 * IntHalf
ToUInt(n) == IF n < 0 THEN n + 2 * IntHalf ELSE n

(* MyConfig's initialisers.                                                *)
MyConfig(e) ==
    [poolSize            |-> 4,
     port                |-> IF e = NoEnv THEN 8080 ELSE Short(e),
     metricFetchInterval |-> 10000,
     predictionInterval  |-> 300000]

Init ==
    /\ env = NoEnv
    /\ stored = NoRow
    /\ phase = "down"
    /\ config = MyConfig(NoEnv)
    /\ intervalMS_ = 0 /\ poolSize = 0 /\ port = 0
    /\ request = NoRequest /\ before = NoRow /\ answer = "none"
    /\ promised = {} /\ booted = {}

-----------------------------------------------------------------------------
(* ParseJSONString of a text that is not refused.                          *)
Given(v, default)      == IF v = Absent THEN default ELSE v
GivenShort(v, default) == IF v = Absent THEN default ELSE Short(v)
GivenInt(v, default)   == IF v = Absent THEN default ELSE ToInt(v)

(* Mutants: the fields are as wide as the numbers of the document; the     *)
(* interval is looked up under another name.                               *)
ParseUnnarrowed(d) ==
    LET c == MyConfig(env) IN
    IF d = Empty THEN c
    ELSE [poolSize            |-> Given(d.poolSize, c.poolSize),
          port                |-> Given(d.port, c.port),
          metricFetchInterval |-> Given(d.metricFetchInterval, c.metricFetchInterval),
          predictionInterval  |-> Given(d.predictionInterval, c.predictionInterval)]

ParseWithoutInterval(d) ==
    LET c == MyConfig(env) IN
    IF d = Empty THEN c
    ELSE [c EXCEPT !.poolSize = GivenShort(d.poolSize, @),
                   !.port = GivenShort(d.port, @),
                   !.predictionInterval = GivenInt(d.predictionInterval, @)]

ParseJSONString(d) ==
    LET c == MyConfig(env) IN
    IF d = Empty THEN c
    ELSE [poolSize            |-> GivenShort(d.poolSize, c.poolSize),
          port                |-> GivenShort(d.port, c.port),
          metricFetchInterval |-> GivenShort(d.metricFetchInterval, c.metricFetchInterval),
          predictionInterval  |-> GivenInt(d.predictionInterval, c.predictionInterval)]

Throws(d) == d = Malformed

-----------------------------------------------------------------------------
(* The process starts, by whoever starts it, with the environment it gets. *)
Start(e) ==
    /\ phase = "down"
    /\ phase' = "initialize"
    /\ env' = e
    /\ config' = MyConfig(e)
    /\ UNCHANGED <<stored, running, server, promised, booted>>

(* The process ends, wherever it is: killed, an exception that main        *)
(* catches, or the null metricsManager when the database did not open.     *)
Crash ==
    /\ phase # "down"
    /\ phase' = "down"
    /\ request' = NoRequest
    /\ UNCHANGED <<env, stored, config, running, before, answer, promised, booted>>

(* LoadConfig(FetchConfigData()).  A SELECT that fails gives no rows, and  *)
(* then the initialisers stay.                                             *)
LoadConfig ==
    /\ phase = "initialize"
    /\ \/ /\ stored # NoRow
          /\ booted' = promised
          /\ IF Throws(stored)
             THEN phase' = "down" /\ UNCHANGED config
             ELSE phase' = "loaded" /\ config' = ParseJSONString(stored)
       \/ phase' = "loaded" /\ booted' = {} /\ UNCHANGED config
    /\ UNCHANGED <<env, stored, running, server, promised>>

(* The singletons of MetricsManager and ThreadManager get their parameter. *)
CreateManagers ==
    /\ phase = "loaded"
    /\ phase' = "managers"
    /\ intervalMS_' = config.metricFetchInterval
    /\ poolSize' = config.poolSize
    /\ UNCHANGED <<env, stored, config, port, server, promised, booted>>

(* new Server(port), whose parameter is a USHORT, and Run() starts it.     *)
CreateServer ==
    /\ phase = "managers"
    /\ phase' = "serving"
    /\ port' = UShort(config.port)
    /\ UNCHANGED <<env, stored, config, intervalMS_, poolSize, server, promised, booted>>

-----------------------------------------------------------------------------
(* putConfigHandler.  When the body has not arrived at fetch, its callback *)
(* comes too late for this call, which has found an empty text.            *)
PutConfig(d) ==
    /\ phase = "serving"
    /\ request = NoRequest
    /\ \E text \in {d, Empty} : request' = [at |-> "fetched", text |-> text]
    /\ before' = stored
    /\ answer' = "none"
    /\ UNCHANGED <<env, stored, phase, config, running, promised, booted>>

Fetched == request # NoRequest /\ request.at = "fetched"

(* What the row may hold when the statement with this text has run.        *)
Pasted(d) == IF d.quoted THEN Documents \cup {NoRow} ELSE {d}

(* An empty text, a throwing parse, or a statement that SQLite refuses, of *)
(* which a quote may have made several, the first of them carried out.     *)
Refuse ==
    /\ Fetched
    /\ request' = NoRequest
    /\ answer' = "BAD_REQUEST"
    /\ \/ UNCHANGED <<stored, promised>>
       \/ /\ request.text \in Objects /\ request.text.quoted
          /\ stored' \in Pasted(request.text)
          /\ promised' = promised \cup {request.text}
    /\ UNCHANGED <<env, phase, config, running, before, booted>>

(* Mutants: the text is stored unparsed; the live configuration is set.    *)
SaveUnparsed ==
    /\ Fetched
    /\ request.text # Empty
    /\ stored' \in IF request.text = Malformed THEN {Malformed} ELSE Pasted(request.text)
    /\ promised' = promised \cup {request.text}
    /\ request' = [request EXCEPT !.at = "saved"]
    /\ UNCHANGED <<env, phase, config, running, before, answer, booted>>

SaveAndApply ==
    /\ Fetched
    /\ request.text \in Objects
    /\ stored' \in Pasted(request.text)
    /\ config' = ParseJSONString(request.text)
    /\ promised' = promised \cup {request.text}
    /\ request' = [request EXCEPT !.at = "saved"]
    /\ UNCHANGED <<env, phase, running, before, answer, booted>>

(* SaveConfigData: parse, drop the result, INSERT OR REPLACE.              *)
SaveConfigData ==
    /\ Fetched
    /\ request.text \in Objects
    /\ stored' \in Pasted(request.text)
    /\ promised' = promised \cup {request.text}
    /\ request' = [request EXCEPT !.at = "saved"]
    /\ UNCHANGED <<env, phase, config, running, before, answer, booted>>

Succeed ==
    /\ request # NoRequest /\ request.at = "saved"
    /\ request' = NoRequest
    /\ answer' = "OK"
    /\ promised' = {request.text}
    /\ UNCHANGED <<env, stored, phase, config, running, before, booted>>

Next ==
    \/ \E e \in EnvPorts : Start(e)
    \/ Crash
    \/ LoadConfig \/ CreateManagers \/ CreateServer
    \/ \E d \in Documents : PutConfig(d)
    \/ Refuse \/ SaveConfigData \/ Succeed

Spec == Init /\ [][Next]_vars

-----------------------------------------------------------------------------
Configs == [poolSize : Int, port : Int, metricFetchInterval : Int, predictionInterval : Int]

(* The variables have the types of what they stand for; shorts are narrow. *)
TypeOK ==
    /\ env \in EnvPorts \cup {NoEnv}
    /\ stored \in Documents \cup {NoRow}
    /\ phase \in {"down", "initialize", "loaded", "managers", "serving"}
    /\ config \in Configs
    /\ \A n \in {config.poolSize, config.port, config.metricFetchInterval} :
          -32768 <= n /\ n <= 32767
    /\ -IntHalf <= config.predictionInterval /\ config.predictionInterval < IntHalf
    /\ intervalMS_ \in Int /\ poolSize \in Int /\ port \in Nat /\ port <= 65535
    /\ request \in {NoRequest} \cup [at : {"fetched", "saved"}, text : Documents]
    /\ before \in Documents \cup {NoRow}
    /\ answer \in {"none", "OK", "BAD_REQUEST"}
    /\ promised \subseteq Documents /\ booted \subseteq Documents

Quoted(docs) == \E d \in docs : d \in Objects /\ d.quoted

(* Wherever the process dies, no PUT leaves a row that LoadConfig throws   *)
(* on, and that would keep the program from ever starting again, but a     *)
(* document with a single quote in it.                                     *)
StoredLoads == stored # NoRow /\ Throws(stored) => Quoted(promised)

(* What GET /api/config shows (GetConfigAsJSON reads config) is what the   *)
(* managers run with, although PUTs come while they run.                   *)
ShownIsRunning ==
    phase = "serving" =>
        /\ intervalMS_ = config.metricFetchInterval
        /\ poolSize = config.poolSize
        /\ port = UShort(config.port)

(* A document answered with OK takes effect whole at the next start that   *)
(* reads the row: the program runs with every value that fits its field    *)
(* and the initialiser for every field left out, but after a document with *)
(* a quote in it.  A start that finds no row runs with all initialisers.   *)
(* A port above 32767 is negative in config and right in the server; a     *)
(* prediction interval above IntHalf is negative and right in the loop of  *)
(* the AI (line 12 of IntelligenceManager.cpp).  A port in the document    *)
(* takes the place of the environment's, which only initialises the field, *)
(* although line 17 of ConfigManager.h says "Environmental variable        *)
(* overrides whatever is set for this value".                              *)
TakesEffect(v, lim, default, actual) ==
    /\ v = Absent => actual = default
    /\ v \in 0 .. lim => actual = v

RunsWith(d) ==
    LET c == MyConfig(env) IN
    /\ TakesEffect(d.poolSize, 32767, c.poolSize, poolSize)
    /\ TakesEffect(d.port, 65535, UShort(c.port), port)
    /\ TakesEffect(d.metricFetchInterval, 32767, c.metricFetchInterval, intervalMS_)
    /\ TakesEffect(d.predictionInterval, 2 * IntHalf - 1, c.predictionInterval,
                   ToUInt(config.predictionInterval))

AcceptedTakesEffect ==
    phase = "serving" =>
        IF booted = {} THEN config = MyConfig(env)
        ELSE Quoted(booted) \/ \E d \in booted : RunsWith(d)

(* A PUT that is refused has changed nothing that outlives the process,    *)
(* unless there was a quote in its document.                               *)
RefusedUnchanged == answer = "BAD_REQUEST" => stored = before \/ Quoted(promised)
=============================================================================
