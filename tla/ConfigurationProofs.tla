------------------------- MODULE ConfigurationProofs -------------------------
(***************************************************************************)
(* What holds of Configuration for all documents and all environments.     *)
(***************************************************************************)
EXTENDS Configuration, TLAPS

(* What was promised are objects, and one of them is in the row, or may    *)
(* have made the row something else because there is a quote in it.        *)
RowInv ==
    /\ promised \subseteq Objects
    /\ booted \subseteq Objects
    /\ stored \in Documents \cup {NoRow}
    /\ stored # NoRow => stored \in promised \/ Quoted(promised)
    /\ request # NoRequest => request \in [at : {"fetched", "saved"}, text : Documents]
    /\ request # NoRequest /\ request.at = "saved" =>
          request.text \in Objects /\ stored \in Pasted(request.text)

(* Once loaded, config is made of the initialisers or of one document,     *)
(* unless a document with a quote was among those the row could hold.      *)
LoadInv ==
    /\ phase = "initialize" => config = MyConfig(env)
    /\ phase \in {"loaded", "managers", "serving"} =>
          IF booted = {} THEN config = MyConfig(env)
          ELSE Quoted(booted) \/ \E d \in booted : config = ParseJSONString(d)

(* The managers hold what config held when they were created.              *)
HandedInv ==
    /\ phase \in {"managers", "serving"} =>
          intervalMS_ = config.metricFetchInterval /\ poolSize = config.poolSize
    /\ phase = "serving" => port = UShort(config.port)

(* A request has no answer yet, and until it is saved, nothing has changed. *)
RefuseInv ==
    /\ request # NoRequest => answer = "none"
    /\ request # NoRequest /\ request.at = "fetched" => stored = before
    /\ answer = "BAD_REQUEST" => stored = before \/ Quoted(promised)

-----------------------------------------------------------------------------
(* An object is none of the texts the program refuses or ignores.          *)
LEMMA ObjectsDiffer == NoRow \notin Objects /\ Malformed \notin Objects /\ Empty \notin Objects
<1> DEFINE R == [poolSize : Field, port : Field, metricFetchInterval : Field,
                 predictionInterval : Field, quoted : BOOLEAN]
<1>1. \A d \in Objects : "kind" \notin DOMAIN d
  BY ObjectsAssumption
<1>2. "kind" \in DOMAIN NoRow /\ "kind" \in DOMAIN Malformed /\ "kind" \in DOMAIN Empty
  BY DEF NoRow, Malformed, Empty
<1> QED
  BY <1>1, <1>2

(* What the statement leaves in the row.                                   *)
LEMMA PastedRow ==
    ASSUME NEW d \in Objects, NEW row \in Pasted(d)
    PROVE  /\ row \in Documents \cup {NoRow}
           /\ ~d.quoted => row = d /\ row # NoRow
           /\ \A docs : d \in docs => (row \in docs \/ Quoted(docs))
BY ObjectsDiffer DEF Pasted, Documents, Quoted

(* SaveConfigData stores only what it has parsed: every step keeps the row *)
(* an object that was promised, or what a quote made of one.               *)
LEMMA RowNext == RowInv /\ [Next]_vars => RowInv'
<1> SUFFICES ASSUME RowInv, [Next]_vars PROVE RowInv'
  OBVIOUS
<1> USE DEF RowInv
<1>1. CASE SaveConfigData
  <2>1. request \in [at : {"fetched", "saved"}, text : Documents] /\ request.text \in Objects
    BY <1>1 DEF SaveConfigData, Fetched
  <2>2. /\ request' \in [at : {"fetched", "saved"}, text : Documents]
        /\ request'.text = request.text
        /\ promised' = promised \cup {request.text}
        /\ stored' \in Pasted(request.text) /\ stored' \in Pasted(request.text)'
        /\ booted' = booted
    BY <1>1, <2>1 DEF SaveConfigData, Pasted
  <2>3. stored' \in Documents \cup {NoRow} /\ (stored' \in promised' \/ Quoted(promised)')
    BY <2>1, <2>2, PastedRow DEF Quoted
  <2> QED
    BY <2>1, <2>2, <2>3 DEF Pasted
<1>2. CASE Succeed
  <2>1. request.text \in Objects /\ stored \in Pasted(request.text)
    BY <1>2 DEF Succeed
  <2>2. promised' = {request.text} /\ stored' = stored /\ booted' = booted /\ request' = NoRequest
    BY <1>2 DEF Succeed
  <2>3. stored' \in promised' \/ Quoted(promised)'
    BY <2>1, <2>2, PastedRow DEF Quoted
  <2> QED
    BY <2>1, <2>2, <2>3
<1>3. CASE LoadConfig
  BY <1>3 DEF LoadConfig, server, Quoted, Pasted
<1>4. CASE Crash
  BY <1>4 DEF Crash, Quoted
<1>5. CASE Refuse
  <2>1. request' = NoRequest /\ booted' = booted
    BY <1>5 DEF Refuse
  <2>2. CASE UNCHANGED <<stored, promised>>
    BY <2>1, <2>2 DEF Quoted
  <2>3. CASE /\ request.text \in Objects
             /\ stored' \in Pasted(request.text)
             /\ promised' = promised \cup {request.text}
    <3>1. stored' \in Documents \cup {NoRow} /\ (stored' \in promised' \/ Quoted(promised)')
      BY <2>3, PastedRow DEF Quoted
    <3> QED
      BY <2>1, <2>3, <3>1
  <2> QED
    BY <1>5, <2>2, <2>3 DEF Refuse
<1>6. ASSUME NEW d \in Documents, PutConfig(d) PROVE RowInv'
  <2>1. /\ request' \in [at : {"fetched", "saved"}, text : Documents] /\ request'.at = "fetched"
        /\ UNCHANGED <<stored, promised, booted>>
    BY <1>6 DEF PutConfig, Documents
  <2> QED
    BY <2>1 DEF Quoted
<1>7. ASSUME UNCHANGED <<stored, request, promised, booted>> PROVE RowInv'
  BY <1>7 DEF Quoted, Pasted
<1>8. ASSUME NEW e \in EnvPorts, Start(e) PROVE RowInv'
  BY <1>7, <1>8 DEF Start, server
<1>9. CASE CreateManagers \/ CreateServer \/ UNCHANGED vars
  BY <1>7, <1>9 DEF CreateManagers, CreateServer, vars, server
<1> QED
  BY <1>1, <1>2, <1>3, <1>4, <1>5, <1>6, <1>7, <1>8, <1>9 DEF Next

(* Loading is the only step of a running process that changes config.      *)
LEMMA LoadNext == RowInv /\ LoadInv /\ [Next]_vars => LoadInv'
<1> SUFFICES ASSUME RowInv, LoadInv, [Next]_vars PROVE LoadInv'
  OBVIOUS
<1>1. CASE LoadConfig
  <2>1. env' = env /\ phase = "initialize"
    BY <1>1 DEF LoadConfig
  <2>2. MyConfig(env)' = MyConfig(env) /\ \A d : ParseJSONString(d)' = ParseJSONString(d)
    BY <2>1 DEF MyConfig, ParseJSONString
  <2>3. CASE /\ stored # NoRow /\ booted' = promised
             /\ config' = ParseJSONString(stored) /\ phase' = "loaded"
    <3>1. Quoted(booted') \/ \E d \in booted' : config' = ParseJSONString(d)
      BY <2>3 DEF RowInv
    <3>2. booted' # {}
      BY <3>1 DEF Quoted
    <3> QED
      BY <2>2, <2>3, <3>1, <3>2 DEF LoadInv, Quoted
  <2>4. CASE phase' = "loaded" /\ booted' = {} /\ config' = config
    BY <2>1, <2>2, <2>4 DEF LoadInv
  <2>5. CASE phase' = "down"
    BY <2>5 DEF LoadInv
  <2> QED
    BY <1>1, <2>3, <2>4, <2>5 DEF LoadConfig
<1>2. ASSUME NEW e \in EnvPorts, Start(e) PROVE LoadInv'
  BY <1>2 DEF Start, LoadInv, MyConfig
<1>3. CASE Crash
  BY <1>3 DEF Crash, LoadInv
<1>4. ASSUME UNCHANGED <<env, config, booted>>,
             phase' = phase \/ <<phase, phase'>> \in {<<"loaded", "managers">>, <<"managers", "serving">>}
      PROVE  LoadInv'
  <2>1. MyConfig(env)' = MyConfig(env) /\ \A d : ParseJSONString(d)' = ParseJSONString(d)
    BY <1>4 DEF MyConfig, ParseJSONString
  <2> QED
    BY <1>4, <2>1 DEF LoadInv, Quoted
<1>5. CASE CreateManagers \/ CreateServer
  BY <1>4, <1>5 DEF CreateManagers, CreateServer
<1>6. ASSUME NEW d \in Documents, PutConfig(d) PROVE LoadInv'
  BY <1>4, <1>6 DEF PutConfig
<1>7. CASE Refuse \/ SaveConfigData \/ Succeed
  BY <1>4, <1>7 DEF Refuse, SaveConfigData, Succeed
<1>8. CASE UNCHANGED vars
  BY <1>4, <1>8 DEF vars
<1> QED
  BY <1>1, <1>2, <1>3, <1>5, <1>6, <1>7, <1>8 DEF Next

(* Nothing changes the live configuration under the managers.              *)
LEMMA HandedNext == HandedInv /\ [Next]_vars => HandedInv'
<1> SUFFICES ASSUME HandedInv, [Next]_vars PROVE HandedInv'
  OBVIOUS
<1> USE DEF HandedInv
<1>1. CASE LoadConfig
  BY <1>1 DEF LoadConfig
<1>2. ASSUME NEW e \in EnvPorts, Start(e) PROVE HandedInv'
  BY <1>2 DEF Start
<1>3. CASE Crash
  BY <1>3 DEF Crash
<1>4. CASE CreateManagers
  BY <1>4 DEF CreateManagers
<1>5. CASE CreateServer
  BY <1>5 DEF CreateServer, UShort
<1>6. ASSUME UNCHANGED <<phase, config, running>> PROVE HandedInv'
  BY <1>6 DEF running, UShort
<1>7. ASSUME NEW d \in Documents, PutConfig(d) PROVE HandedInv'
  BY <1>6, <1>7 DEF PutConfig
<1>8. CASE Refuse \/ SaveConfigData \/ Succeed
  BY <1>6, <1>8 DEF Refuse, SaveConfigData, Succeed
<1>9. CASE UNCHANGED vars
  BY <1>6, <1>9 DEF vars
<1> QED
  BY <1>1, <1>2, <1>3, <1>4, <1>5, <1>7, <1>8, <1>9 DEF Next

(* Between the arrival of a request and its refusal nothing is written.    *)
LEMMA RefuseNext == RowInv /\ RefuseInv /\ [Next]_vars => RefuseInv'
<1> SUFFICES ASSUME RowInv, RefuseInv, [Next]_vars PROVE RefuseInv'
  OBVIOUS
<1> USE DEF RefuseInv
<1>1. CASE SaveConfigData
  <2>1. request # NoRequest /\ request \in [at : {"fetched", "saved"}, text : Documents]
    BY <1>1 DEF SaveConfigData, Fetched, RowInv
  <2>2. request'.at = "saved" /\ answer' = "none"
    BY <1>1, <2>1 DEF SaveConfigData
  <2> QED
    BY <2>2
<1>2. CASE Succeed
  BY <1>2 DEF Succeed
<1>3. CASE Refuse
  BY <1>3 DEF Refuse, Fetched, Quoted
<1>4. CASE Crash
  BY <1>4 DEF Crash, Quoted
<1>5. ASSUME NEW d \in Documents, PutConfig(d) PROVE RefuseInv'
  BY <1>5 DEF PutConfig
<1>6. ASSUME UNCHANGED <<stored, server, promised>> PROVE RefuseInv'
  BY <1>6 DEF server, Quoted
<1>7. ASSUME NEW e \in EnvPorts, Start(e) PROVE RefuseInv'
  BY <1>6, <1>7 DEF Start
<1>8. CASE LoadConfig \/ CreateManagers \/ CreateServer
  BY <1>6, <1>8 DEF LoadConfig, CreateManagers, CreateServer
<1>9. CASE UNCHANGED vars
  BY <1>6, <1>9 DEF vars
<1> QED
  BY <1>1, <1>2, <1>3, <1>4, <1>5, <1>7, <1>8, <1>9 DEF Next

-----------------------------------------------------------------------------
(* Wherever the process dies, the stored row is one that LoadConfig        *)
(* (ConfigManager.h, 34-43) does not throw on, whatever clients send that  *)
(* has no single quote in it (Application.h, 65-71).                       *)
THEOREM AlwaysLoads == Spec => []StoredLoads
<1>1. Init => RowInv
  BY DEF Init, RowInv
<1>2. RowInv => StoredLoads
  BY ObjectsDiffer DEF RowInv, StoredLoads, Throws
<1> QED
  BY <1>1, <1>2, RowNext, PTL DEF Spec

(* What GET /api/config shows is what the managers run with, for as long   *)
(* as the server serves.                                                   *)
THEOREM ShownRuns == Spec => []ShownIsRunning
<1>1. Init => HandedInv
  BY DEF Init, HandedInv
<1>2. HandedInv => ShownIsRunning
  BY DEF HandedInv, ShownIsRunning
<1> QED
  BY <1>1, <1>2, HandedNext, PTL DEF Spec

(* A PUT answered with BAD_REQUEST (putConfigHandler, Server.cpp, 77-82)   *)
(* has left the row as it was, if its document has no quote.               *)
THEOREM RefusalsKeep == Spec => []RefusedUnchanged
<1>1. Init => RowInv /\ RefuseInv
  BY DEF Init, RowInv, RefuseInv
<1>2. RefuseInv => RefusedUnchanged
  BY DEF RefuseInv, RefusedUnchanged
<1> QED
  BY <1>1, <1>2, RowNext, RefuseNext, PTL DEF Spec

-----------------------------------------------------------------------------
(* Taking the remainder of a number that is small enough changes nothing.  *)
LEMMA SmallMod == ASSUME NEW n \in Int, NEW m \in Int, 0 <= n, n < m PROVE n % m = n
OBVIOUS

(* A number that fits a short survives it.                                 *)
LEMMA ShortFits == ASSUME NEW n \in Int, 0 <= n, n <= 32767 PROVE Short(n) = n
<1>1. (n + 32768) % 65536 = n + 32768
  BY SmallMod
<1> QED
  BY <1>1 DEF Short

(* A number that fits a USHORT survives being kept in a short on the way.  *)
LEMMA UShortOfShort == ASSUME NEW n \in Int, 0 <= n, n <= 65535 PROVE UShort(Short(n)) = n
<1>1. CASE n <= 32767
  <2>1. Short(n) = n
    BY <1>1, ShortFits
  <2>2. n % 65536 = n
    BY SmallMod
  <2> QED
    BY <2>1, <2>2 DEF UShort
<1>2. CASE n > 32767
  <2>1. (n + 32768) % 65536 = n - 32768
    BY <1>2
  <2>2. Short(n) = n - 65536
    BY <2>1 DEF Short
  <2>3. (n - 65536) % 65536 = n
    OBVIOUS
  <2> QED
    BY <2>2, <2>3 DEF UShort
<1> QED
  BY <1>1, <1>2

(* A short field takes the value it is given, or keeps its default.        *)
LEMMA ShortTakesEffect ==
    ASSUME NEW v \in Field, NEW default
    PROVE  TakesEffect(v, 32767, default, GivenShort(v, default))
<1>1. ASSUME v \in 0 .. 32767 PROVE GivenShort(v, default) = v
  <2>1. v \in Int /\ 0 <= v /\ v <= 32767 /\ v # -1
    BY <1>1
  <2> QED
    BY <2>1, ShortFits DEF GivenShort, Absent
<1> QED
  BY <1>1 DEF TakesEffect, GivenShort

(* So does the port, as the server uses it.                                *)
LEMMA PortTakesEffect ==
    ASSUME NEW v \in Field, NEW lim \in Int, lim <= 65535, NEW default
    PROVE  TakesEffect(v, lim, UShort(default), UShort(GivenShort(v, default)))
<1>1. ASSUME v \in 0 .. lim PROVE UShort(GivenShort(v, default)) = v
  <2>1. v \in Int /\ 0 <= v /\ v <= 65535 /\ v # -1
    BY <1>1
  <2>2. GivenShort(v, default) = Short(v)
    BY <2>1 DEF GivenShort, Absent
  <2> QED
    BY <2>1, <2>2, UShortOfShort
<1>2. ASSUME v = Absent PROVE UShort(GivenShort(v, default)) = UShort(default)
  BY <1>2 DEF GivenShort
<1> QED
  BY <1>1, <1>2 DEF TakesEffect

(* An int takes every unsigned value, as the loop that reads it back sees it. *)
LEMMA IntTakesEffect ==
    ASSUME NEW v \in Field, NEW default \in Nat
    PROVE  TakesEffect(v, 2 * IntHalf - 1, default, ToUInt(GivenInt(v, default)))
<1>1. CASE v = Absent
  BY <1>1, IntAssumption DEF TakesEffect, GivenInt, ToUInt, Absent
<1>2. CASE v # Absent
  BY <1>2, IntAssumption DEF TakesEffect, GivenInt, ToUInt, ToInt, Absent, Field
<1> QED
  BY <1>1, <1>2

(* The managers of a program that has loaded d run with d.                 *)
LEMMA LoadedRuns ==
    ASSUME NEW d \in Objects, phase = "serving", HandedInv, config = ParseJSONString(d)
    PROVE  RunsWith(d)
<1> DEFINE c == MyConfig(env)
<1>1. d # Empty /\ d \in [poolSize : Field, port : Field, metricFetchInterval : Field,
                          predictionInterval : Field, quoted : BOOLEAN]
  BY ObjectsDiffer, ObjectsAssumption
<1>2. /\ config.poolSize = GivenShort(d.poolSize, c.poolSize)
      /\ config.port = GivenShort(d.port, c.port)
      /\ config.metricFetchInterval = GivenShort(d.metricFetchInterval, c.metricFetchInterval)
      /\ config.predictionInterval = GivenInt(d.predictionInterval, c.predictionInterval)
      /\ c.predictionInterval = 300000
  BY <1>1 DEF MyConfig, ParseJSONString
<1>3. /\ intervalMS_ = config.metricFetchInterval
      /\ poolSize = config.poolSize
      /\ port = UShort(config.port)
  BY DEF HandedInv
<1> HIDE DEF c
<1>4. /\ d.poolSize \in Field /\ d.port \in Field
      /\ d.metricFetchInterval \in Field /\ d.predictionInterval \in Field
  BY <1>1
<1>5. TakesEffect(d.poolSize, 32767, c.poolSize, poolSize)
  BY <1>2, <1>3, <1>4, ShortTakesEffect
<1>6. TakesEffect(d.port, 65535, UShort(c.port), port)
  BY <1>2, <1>3, <1>4, PortTakesEffect
<1>7. TakesEffect(d.metricFetchInterval, 32767, c.metricFetchInterval, intervalMS_)
  BY <1>2, <1>3, <1>4, ShortTakesEffect
<1>8. TakesEffect(d.predictionInterval, 2 * IntHalf - 1, c.predictionInterval,
                  ToUInt(config.predictionInterval))
  BY <1>2, <1>4, IntTakesEffect
<1> QED
  BY <1>5, <1>6, <1>7, <1>8 DEF RunsWith, c

(* A document answered with OK takes effect whole at the next start that   *)
(* can read it, for every unsigned number its fields can hold and ints of  *)
(* any width that holds the initialisers, unless there is a quote in it.   *)
THEOREM AcceptedRuns == Spec => []AcceptedTakesEffect
<1>1. Init => RowInv /\ LoadInv /\ HandedInv
  BY DEF Init, RowInv, LoadInv, HandedInv
<1>2. RowInv /\ LoadInv /\ HandedInv => AcceptedTakesEffect
  BY LoadedRuns DEF RowInv, LoadInv, AcceptedTakesEffect
<1> QED
  BY <1>1, <1>2, RowNext, LoadNext, HandedNext, PTL DEF Spec

-----------------------------------------------------------------------------
(* Types.  What goes through a short or an int comes out narrow.           *)
Narrow(c) ==
    /\ c \in Configs
    /\ -IntHalf <= c.predictionInterval /\ c.predictionInterval < IntHalf
    /\ \A n \in {c.poolSize, c.port, c.metricFetchInterval} : -32768 <= n /\ n <= 32767

LEMMA ShortNarrow ==
    ASSUME NEW n \in Int
    PROVE  Short(n) \in Int /\ -32768 <= Short(n) /\ Short(n) <= 32767
<1>1. PICK m \in Int : m = n + 32768
  OBVIOUS
<1>2. m % 65536 \in Int /\ 0 <= m % 65536 /\ m % 65536 <= 65535
  OBVIOUS
<1> QED
  BY <1>1, <1>2 DEF Short

LEMMA InitialisersNarrow == ASSUME NEW e \in EnvPorts \cup {NoEnv} PROVE Narrow(MyConfig(e))
<1>1. e \in Int
  BY EnvAssumption DEF NoEnv
<1>2. Short(e) \in Int /\ -32768 <= Short(e) /\ Short(e) <= 32767
  BY <1>1, ShortNarrow
<1> QED
  BY <1>2, IntAssumption DEF Narrow, MyConfig, Configs

LEMMA ParsedNarrow ==
    ASSUME env \in EnvPorts \cup {NoEnv}, NEW d \in Objects
    PROVE  Narrow(ParseJSONString(d))
<1>1. PICK c : c = MyConfig(env)
  OBVIOUS
<1>2. Narrow(c) /\ d # Empty
  BY <1>1, InitialisersNarrow, ObjectsDiffer
<1>3. /\ d.poolSize \in Int /\ d.port \in Int /\ d.metricFetchInterval \in Int
      /\ d.predictionInterval \in Field
  <2>1. d \in [poolSize : Field, port : Field, metricFetchInterval : Field,
               predictionInterval : Field, quoted : BOOLEAN]
    BY ObjectsAssumption
  <2>2. \A v \in Field : v \in Int
    BY IntAssumption DEF Field, Absent
  <2> QED
    BY <2>1, <2>2
<1>4. /\ GivenShort(d.poolSize, c.poolSize) \in Int
      /\ GivenShort(d.port, c.port) \in Int
      /\ GivenShort(d.metricFetchInterval, c.metricFetchInterval) \in Int
      /\ \A n \in {GivenShort(d.poolSize, c.poolSize), GivenShort(d.port, c.port),
                  GivenShort(d.metricFetchInterval, c.metricFetchInterval)} :
            -32768 <= n /\ n <= 32767
  BY <1>2, <1>3, ShortNarrow DEF GivenShort, Narrow, Configs
<1>5. LET g == GivenInt(d.predictionInterval, c.predictionInterval)
      IN  g \in Int /\ -IntHalf <= g /\ g < IntHalf
  <2>1. CASE d.predictionInterval = Absent
    BY <1>2, <2>1 DEF GivenInt, Narrow, Configs
  <2>2. CASE d.predictionInterval # Absent
    BY <1>3, <2>2, IntAssumption DEF GivenInt, ToInt, Field
  <2> QED
    BY <2>1, <2>2
<1>6. ParseJSONString(d) =
         [poolSize            |-> GivenShort(d.poolSize, c.poolSize),
          port                |-> GivenShort(d.port, c.port),
          metricFetchInterval |-> GivenShort(d.metricFetchInterval, c.metricFetchInterval),
          predictionInterval  |-> GivenInt(d.predictionInterval, c.predictionInterval)]
  BY <1>1, <1>2 DEF ParseJSONString
<1> QED
  BY <1>4, <1>5, <1>6 DEF Narrow, Configs

TypesInv ==
    /\ env \in EnvPorts \cup {NoEnv}
    /\ phase \in {"down", "initialize", "loaded", "managers", "serving"}
    /\ Narrow(config)
    /\ intervalMS_ \in Int /\ poolSize \in Int /\ port \in Nat /\ port <= 65535
    /\ before \in Documents \cup {NoRow}
    /\ answer \in {"none", "OK", "BAD_REQUEST"}

LEMMA TypesNext == RowInv /\ TypesInv /\ [Next]_vars => TypesInv'
<1> SUFFICES ASSUME RowInv, TypesInv, [Next]_vars PROVE TypesInv'
  OBVIOUS
<1>1. ASSUME NEW e \in EnvPorts, Start(e) PROVE TypesInv'
  <2>1. Narrow(MyConfig(e))
    BY InitialisersNarrow
  <2> QED
    BY <1>1, <2>1 DEF Start, TypesInv, server, running
<1>2. CASE LoadConfig
  <2>1. Narrow(config')
    <3>1. CASE config' = config
      BY <3>1 DEF TypesInv
    <3>2. CASE config' = ParseJSONString(stored) /\ stored \in Objects
      BY <3>2, ParsedNarrow DEF TypesInv
    <3>3. CASE config' = ParseJSONString(Empty)
      <4>1. config' = MyConfig(env)
        BY <3>3 DEF ParseJSONString
      <4> QED
        BY <4>1, InitialisersNarrow DEF TypesInv
    <3> QED
      BY <1>2, <3>1, <3>2, <3>3 DEF LoadConfig, RowInv, Documents, Throws
  <2> QED
    BY <1>2, <2>1 DEF LoadConfig, TypesInv, server, running
<1>3. CASE CreateManagers
  BY <1>3 DEF CreateManagers, TypesInv, Narrow, Configs, server
<1>4. CASE CreateServer
  <2>1. config.port \in Int
    BY DEF TypesInv, Narrow, Configs
  <2>2. UShort(config.port) \in Nat /\ UShort(config.port) <= 65535
    BY <2>1 DEF UShort
  <2> QED
    BY <1>4, <2>2 DEF CreateServer, TypesInv, server
<1>5. ASSUME NEW d \in Documents, PutConfig(d) PROVE TypesInv'
  <2>1. stored \in Documents \cup {NoRow}
    BY DEF RowInv, Documents
  <2> QED
    BY <1>5, <2>1 DEF PutConfig, TypesInv, running
<1>6. CASE Crash \/ Refuse \/ SaveConfigData \/ Succeed \/ UNCHANGED vars
  BY <1>6 DEF Crash, Refuse, SaveConfigData, Succeed, vars, TypesInv, running, server
<1> QED
  BY <1>1, <1>2, <1>3, <1>4, <1>5, <1>6 DEF Next

(* Whatever clients send and whatever the environment holds, every variable *)
(* has its type: a configuration that was loaded is as narrow as MyConfig's *)
(* fields, the server's port fits 16 bits.                                 *)
THEOREM TypesHold == Spec => []TypeOK
<1>1. Init => RowInv /\ TypesInv
  <2>1. Init => RowInv
    BY DEF Init, RowInv, NoRequest, NoRow
  <2>2. ASSUME Init PROVE TypesInv
    <3>1. Narrow(MyConfig(NoEnv))
      BY InitialisersNarrow
    <3> QED
      BY <2>2, <3>1 DEF Init, TypesInv
  <2> QED
    BY <2>1, <2>2
<1>2. RowInv /\ TypesInv /\ [Next]_vars => RowInv' /\ TypesInv'
  BY RowNext, TypesNext
<1>3. RowInv /\ TypesInv => TypeOK
  BY DEF RowInv, TypesInv, TypeOK, Narrow, Documents
<1> QED
  BY <1>1, <1>2, <1>3, PTL DEF Spec
=============================================================================
