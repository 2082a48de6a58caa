-------------------------- MODULE LifecycleProofs ---------------------------
(***************************************************************************)
(* Proofs about the life of the program, for every number of threads and   *)
(* of files in an archive, and with no bound on starts, loops and rounds   *)
(* that matters.                                                           *)
(*                                                                         *)
(*   RootsStayWhole              what is on the disk, over all starts and  *)
(*                               deaths (the steps of Deployment)          *)
(*   ThreadsOutlived             what outlives the threads of the pool     *)
(*   LifeTyped                   the variables and their bounds            *)
(*   PoolLives                   its pool is one that PoolLife allows      *)
(*   OnePredicts, BudgetIsSpent  the loop of the predictions               *)
(*   DeploysOnly                 the disk changes as Deployment says       *)
(***************************************************************************)
EXTENDS Lifecycle, SequenceTheorems, TLAPS

-----------------------------------------------------------------------------
(* The disk.  Every step of the program is one of Deployment.              *)
LEMMA DiskStep ==
    ASSUME [Next]_vars
    PROVE  Files!Construct \/ Files!Leave \/ UNCHANGED deployment
<1>1. CASE CreateInstance \/ MainStep \/ Throws \/ SignalHandler \/ ServerReturns \/ ServerThrows
  <2>1. CASE CreateInstance \/ Throws \/ SignalHandler \/ ServerReturns \/ ServerThrows
    BY <2>1 DEF CreateInstance, Throws, SignalHandler, ServerReturns, ServerThrows, MainOnly
  <2>2. CASE GetInstance \/ ConstructAI \/ Destroy
    BY <2>2 DEF GetInstance, ConstructAI, Destroy
  <2>3. CASE RunStep
    BY <2>3 DEF RunStep, AddProviders, AddCollector, AddAI, SeesSignal, StopMetrics,
                StopScripts, StopPool, MainOnly
  <2>4. CASE Exit
    BY <2>4 DEF Exit, Ends
  <2> QED
    BY <1>1, <2>1, <2>2, <2>3, <2>4 DEF MainStep
<1>2. CASE RunWithoutManagers \/ Die
  BY <1>2 DEF RunWithoutManagers, Die, Ends
<1>3. ASSUME NEW w \in Workers, Decide(w) \/ LeaveLoop(w) \/ TaskStep(w) \/ AIBox(w)
      PROVE  UNCHANGED deployment
  <2>1. CASE Decide(w) \/ LeaveLoop(w) \/ AIBox(w)
    BY <2>1 DEF Decide, LeaveLoop, AIBox, ThreadOnly
  <2>2. CASE TaskStep(w)
    BY <2>2 DEF TaskStep, Take, RunTask, Raise, Test, Send, Process, AIStep, AIReturn, ThreadOnly
  <2> QED
    BY <1>3, <2>1, <2>2
<1>4. CASE UNCHANGED vars
  BY <1>4 DEF vars
<1> QED
  BY <1>1, <1>2, <1>3, <1>4 DEF Next

(* A root without its folder has no files; of the root that is being       *)
(* extracted, the entries from the current one on are not there in full.   *)
DiskInv ==
    /\ Files!TypeOK
    /\ \A r \in {"www", "model"} : ~folder[r] => \A e \in 1 .. Entries : file[r][e] = "none"
    /\ step \in {"folder", "open", "write"} =>
          \A e \in 1 .. Entries : e >= entry => file[Files!Here][e] # "whole"
    /\ step \in {"open", "write"} => folder[Files!Here]

LEMMA HereIsRoot ==
    ASSUME Files!TypeOK
    PROVE  /\ Files!Here \in {"www", "model"}
           /\ Entries \in Nat /\ 1 \in 1 .. Entries
  BY EntriesAssumption DEF Files!TypeOK, Files!Here, Files!Roots

LEMMA DiskInit == Init => DiskInv
<1> SUFFICES ASSUME Init PROVE DiskInv
  OBVIOUS
<1>1. 1 \in 1 .. Entries
  BY EntriesAssumption
<1>2. step = "off" /\ root = 1 /\ entry = 1
      /\ \/ Files!Deployed
         \/ Files!Init
  BY DEF Init, Files!Deployed, Files!Init, Files!Off
<1>3. Files!TypeOK
  <2>1. CASE Files!Deployed
    BY <1>1, <1>2, <2>1 DEF Files!Deployed, Files!TypeOK
  <2>2. CASE Files!Init
    BY <1>1, <1>2, <2>2 DEF Files!Init, Files!TypeOK
  <2> QED
    BY <1>2, <2>1, <2>2
<1>4. \A r \in {"www", "model"} : ~folder[r] => \A e \in 1 .. Entries : file[r][e] = "none"
  <2>1. CASE Files!Deployed
    BY <2>1 DEF Files!Deployed
  <2>2. CASE Files!Init
    BY <2>2 DEF Files!Init
  <2> QED
    BY <1>2, <2>1, <2>2
<1> QED
  BY <1>2, <1>3, <1>4 DEF DiskInv

LEMMA NextRootType ==
    ASSUME Files!TypeOK, Files!NextRoot
    PROVE  step' \in {"python", "look"} /\ root' \in 1 .. 2 /\ entry' \in 1 .. Entries
  BY HereIsRoot DEF Files!TypeOK, Files!NextRoot

LEMMA DiskNext == DiskInv /\ [Next]_vars => DiskInv'
<1> SUFFICES ASSUME DiskInv, [Next]_vars PROVE DiskInv'
  OBVIOUS
<1>0. /\ Files!TypeOK /\ Files!Here \in {"www", "model"}
      /\ Entries \in Nat /\ 1 \in 1 .. Entries
  BY HereIsRoot DEF DiskInv
<1>1. CASE Files!Enter \/ Files!CheckPython \/ Files!Fail
  BY <1>0, <1>1 DEF Files!Enter, Files!CheckPython, Files!Fail, Files!disk, DiskInv, Files!TypeOK
<1>2. CASE Files!Look
  <2>1. CASE folder[Files!Here] /\ Files!NextRoot
    BY <1>0, <1>2, <2>1, NextRootType DEF Files!Look, Files!disk, DiskInv, Files!TypeOK
  <2>2. CASE ~folder[Files!Here] /\ step' = "folder" /\ UNCHANGED <<root, entry>>
    <3>1. Files!Here' = Files!Here /\ UNCHANGED <<folder, file>>
      BY <1>2, <2>2 DEF Files!Look, Files!disk, Files!Here
    <3>2. \A e \in 1 .. Entries : file[Files!Here][e] = "none"
      BY <1>0, <2>2 DEF DiskInv
    <3> QED
      BY <1>0, <2>2, <3>1, <3>2 DEF DiskInv, Files!TypeOK
  <2> QED
    BY <1>2, <2>1, <2>2 DEF Files!Look
<1>3. CASE Files!MakeFolder
  BY <1>0, <1>3 DEF Files!MakeFolder, DiskInv, Files!TypeOK, Files!Here, Files!Roots
<1>4. CASE Files!OpenFile
  <2>1. /\ UNCHANGED <<folder, root, entry>> /\ Files!Here' = Files!Here
        /\ step = "open" /\ step' = "write"
        /\ file' = [file EXCEPT ![Files!Here][entry] = "part"]
    BY <1>4 DEF Files!OpenFile, Files!Here
  <2>2. entry \in 1 .. Entries
    BY <1>0 DEF Files!TypeOK
  <2>3. file' \in [{"www", "model"} -> [1 .. Entries -> {"none", "part", "whole"}]]
    BY <1>0, <2>1, <2>2 DEF Files!TypeOK
  <2>4. Files!TypeOK'
    BY <1>0, <2>1, <2>3 DEF Files!TypeOK
  <2> QED
    BY <1>0, <2>1, <2>2, <2>4 DEF DiskInv, Files!TypeOK
<1>5. CASE Files!WriteFile
  <2>1. /\ UNCHANGED folder /\ step = "write"
        /\ \/ file' = [file EXCEPT ![Files!Here][entry] = "whole"]
           \/ file' = file
    BY <1>5 DEF Files!WriteFile
  <2>2. entry \in 1 .. Entries
    BY <1>0 DEF Files!TypeOK
  <2>3. file' \in [{"www", "model"} -> [1 .. Entries -> {"none", "part", "whole"}]]
    <3>1. CASE file' = [file EXCEPT ![Files!Here][entry] = "whole"]
      BY <1>0, <2>2, <3>1 DEF Files!TypeOK
    <3>2. CASE file' = file
      BY <1>0, <3>2 DEF Files!TypeOK
    <3> QED
      BY <2>1, <3>1, <3>2
  <2>4. folder[Files!Here]
    BY <2>1 DEF DiskInv
  <2>5. \A r \in {"www", "model"} : ~folder'[r] => \A e \in 1 .. Entries : file'[r][e] = "none"
    BY <1>0, <2>1, <2>2, <2>4 DEF DiskInv, Files!TypeOK
  <2>6. CASE entry < Entries
    <3>1. step' = "folder" /\ entry' = entry + 1 /\ root' = root
      BY <1>5, <2>6 DEF Files!WriteFile
    <3>2. Files!Here' = Files!Here
      BY <3>1 DEF Files!Here
    <3>3. Files!TypeOK'
      BY <1>0, <2>1, <2>2, <2>3, <2>6, <3>1 DEF Files!TypeOK
    <3>4. \A e \in 1 .. Entries : e >= entry' => file'[Files!Here][e] # "whole"
      BY <1>0, <2>1, <2>2, <3>1 DEF DiskInv, Files!TypeOK
    <3> QED
      BY <2>5, <3>1, <3>2, <3>3, <3>4 DEF DiskInv
  <2>7. CASE ~(entry < Entries)
    <3>1. Files!NextRoot
      BY <1>5, <2>7 DEF Files!WriteFile
    <3>2. Files!TypeOK'
      BY <1>0, <2>1, <2>3, <3>1, NextRootType DEF Files!TypeOK
    <3> QED
      BY <1>0, <2>5, <3>1, <3>2, NextRootType DEF DiskInv
  <2> QED
    BY <2>6, <2>7
<1>6. CASE Files!Leave
  BY <1>0, <1>6 DEF Files!Leave, Files!disk, DiskInv, Files!TypeOK
<1>7. CASE UNCHANGED deployment
  BY <1>7 DEF deployment, DiskInv, Files!TypeOK, Files!Here
<1> QED
  BY DiskStep, <1>1, <1>2, <1>3, <1>4, <1>5, <1>6, <1>7 DEF Files!Construct

\* The files of a root that is whole are written by no step.
LEMMA WholeKept ==
    ASSUME DiskInv, [Next]_vars, NEW r \in {"www", "model"}, Files!Whole(r)
    PROVE  Files!Whole(r)'
<1>0. /\ Files!TypeOK /\ Files!Here \in {"www", "model"} /\ entry \in 1 .. Entries
  BY HereIsRoot DEF DiskInv, Files!TypeOK
<1>1. CASE UNCHANGED <<folder, file>>
  BY <1>1 DEF Files!Whole
<1>2. CASE Files!MakeFolder
  BY <1>0, <1>2 DEF Files!MakeFolder, Files!Whole, Files!TypeOK
<1>3. CASE Files!OpenFile \/ Files!WriteFile
  <2>1. step \in {"open", "write"}
    BY <1>3 DEF Files!OpenFile, Files!WriteFile
  <2>2. file[Files!Here][entry] # "whole"
    BY <1>0, <2>1 DEF DiskInv, Files!TypeOK
  <2>3. r # Files!Here
    BY <1>0, <2>2 DEF Files!Whole
  <2>4. folder' = folder /\ file'[r] = file[r]
    BY <1>0, <1>3, <2>3 DEF Files!OpenFile, Files!WriteFile, Files!TypeOK
  <2> QED
    BY <2>4 DEF Files!Whole
<1>4. CASE Files!Enter \/ Files!Look \/ Files!CheckPython \/ Files!Fail \/ Files!Leave
           \/ UNCHANGED deployment
  BY <1>1, <1>4 DEF Files!Enter, Files!Look, Files!CheckPython, Files!Fail, Files!Leave,
                    Files!disk, deployment
<1> QED
  BY DiskStep, <1>2, <1>3, <1>4 DEF Files!Construct

(* FolderExists (lines 60-73 of IntelligenceManager.h) keeps ExtractZip    *)
(* from a root that was extracted whole, over all starts, failures and     *)
(* deaths of the program and for archives of any size.                     *)
THEOREM RootsStayWhole == Spec => WholeStaysWhole
<1>1. Spec => []DiskInv
  BY DiskInit, DiskNext, PTL DEF Spec
<1>2. DiskInv /\ [Next]_vars
      => [\A r \in {"www", "model"} : Files!Whole(r) => Files!Whole(r)']_(Files!disk)
  BY WholeKept
<1> QED
  BY <1>1, <1>2, PTL DEF Spec, WholeStaysWhole, Files!WholeStaysWhole

-----------------------------------------------------------------------------
(* The threads.  While one of them is neither gone nor yet to come, the    *)
(* first six objects live, the pool the last of them.                      *)
Objects == {InitOrder[i] : i \in 1 .. 8}

PoolInv ==
    /\ DOMAIN thread = Workers
    /\ Len(built) \in 0 .. 8
    /\ \A i \in 1 .. Len(built) : built[i] = InitOrder[i]
    /\ main = "initialize" => Len(built) < 8
    /\ \A w \in Workers : thread[w] \notin {"none", "left"} => Len(built) >= 6
    /\ main = "down" => Len(built) = 0
    /\ built \in Seq(Objects)

LEMMA OrderOfPool ==
    /\ \A i \in 1 .. 8 : InitOrder[i] = "pool" <=> i = 6
    /\ \A i \in 1 .. 8 : InitOrder[i] = "ai" <=> i = 8
<1> SUFFICES ASSUME NEW i \in 1 .. 8
             PROVE  /\ InitOrder[i] = "pool" <=> i = 6
                    /\ InitOrder[i] = "ai" <=> i = 8
  OBVIOUS
<1>1. i = 1 \/ i = 2 \/ i = 3 \/ i = 4 \/ i = 5 \/ i = 6 \/ i = 7 \/ i = 8
  OBVIOUS
<1>2. /\ InitOrder[1] = "app"  /\ InitOrder[2] = "config"  /\ InitOrder[3] = "log"
      /\ InitOrder[4] = "data" /\ InitOrder[5] = "metrics" /\ InitOrder[6] = "pool"
      /\ InitOrder[7] = "scripts" /\ InitOrder[8] = "ai"
  BY DEF InitOrder
<1> QED
  BY <1>1, <1>2

LEMMA PoolNext == PoolInv /\ [Next]_vars => PoolInv'
<1> SUFFICES ASSUME PoolInv, [Next]_vars PROVE PoolInv'
  OBVIOUS
<1>1. CASE CreateInstance
  <2>1. /\ built' = <<InitOrder[1]>> /\ thread' = thread /\ main' = "initialize"
        /\ \A w \in Workers : thread[w] \in {"none", "left"}
    BY <1>1 DEF CreateInstance, PoolInv, pool
  <2>2. Len(built') = 1 /\ built'[1] = InitOrder[1] /\ built' \in Seq(Objects)
    BY <2>1 DEF Objects
  <2> QED
    BY <2>1, <2>2 DEF PoolInv
<1>2. CASE GetInstance
  <2>1. /\ built' = Append(built, InitOrder[Len(built) + 1]) /\ Len(built) < 8
        /\ thread' = IF NextObject = "pool" THEN [w \in Workers |-> "waits"] ELSE thread
        /\ main' = IF NextObject = "ai" THEN "addProviders" ELSE main
    BY <1>2 DEF GetInstance, NextObject, PoolInv
  <2>2. Len(built) + 1 \in 1 .. 8 /\ InitOrder[Len(built) + 1] \in Objects
    BY <2>1 DEF PoolInv, Objects
  <2>3. /\ built' \in Seq(Objects) /\ Len(built') = Len(built) + 1
        /\ \A i \in 1 .. Len(built) : built'[i] = built[i]
        /\ built'[Len(built) + 1] = InitOrder[Len(built) + 1]
    BY <2>1, <2>2 DEF PoolInv
  <2>4. \A i \in 1 .. Len(built') : built'[i] = InitOrder[i]
    BY <2>2, <2>3 DEF PoolInv
  <2>5. NextObject = "pool" => Len(built) = 5
    BY <2>1, <2>2, OrderOfPool DEF NextObject, PoolInv
  <2>6. NextObject # "ai" => Len(built) # 7
    <3>1. InitOrder[8] = "ai"
      BY OrderOfPool
    <3>2. Len(built) = 7 => NextObject = InitOrder[8]
      BY DEF NextObject
    <3> QED
      BY <3>1, <3>2
  <2>7. main' = "initialize" => Len(built') < 8
    <3>1. main' = "initialize" => NextObject # "ai"
      BY <2>1
    <3>2. Len(built) \in 0 .. 7
      BY <2>1 DEF PoolInv
    <3> QED
      BY <2>3, <2>6, <3>1, <3>2
  <2>8. main' # "down" /\ DOMAIN thread' = Workers
    BY <1>2, <2>1 DEF GetInstance, PoolInv
  <2>9. \A w \in Workers : thread'[w] \notin {"none", "left"} => Len(built') >= 6
    BY <2>1, <2>2, <2>3, <2>5 DEF PoolInv
  <2> QED
    BY <2>2, <2>3, <2>4, <2>7, <2>8, <2>9 DEF PoolInv
<1>3. CASE ConstructAI \/ RunStep \/ Throws \/ SignalHandler \/ ServerReturns \/ ServerThrows
  <2>1. UNCHANGED <<built, thread>> /\ (main' = main \/ main' \notin {"initialize", "down"})
    BY <1>3 DEF ConstructAI, RunStep, Throws, SignalHandler, ServerReturns, ServerThrows,
                AddProviders, AddCollector, AddAI, SeesSignal, StopMetrics, StopScripts,
                StopPool, MainOnly, Goto, pool
  <2> QED
    BY <2>1 DEF PoolInv
<1>4. CASE Destroy
  <2>1. /\ main = "exit" /\ main' = main /\ UNCHANGED thread
        /\ Len(built) \in 2 .. 8 /\ built \in Seq(Objects)
        /\ built' = SubSeq(built, 1, Len(built) - 1)
        /\ Len(built) - 1 \in 1 .. 7 /\ Len(built) - 1 \in 1 .. Len(built)
    BY <1>4 DEF Destroy, PoolInv, pool
  <2>2. /\ built' \in Seq(Objects) /\ Len(built') = Len(built) - 1
        /\ \A i \in 1 .. Len(built') : built'[i] = built[i]
    BY <2>1, SubSeqProperties
  <2>3. Len(built) = 6 => \A w \in Workers : thread[w] = "left"
    BY <1>4, <2>1, OrderOfPool DEF Destroy, Latest, PoolInv
  <2>4. \A i \in 1 .. Len(built') : built'[i] = InitOrder[i]
    BY <2>1, <2>2 DEF PoolInv
  <2>5. \A w \in Workers : thread'[w] \notin {"none", "left"} => Len(built') >= 6
    <3>1. Len(built) > 6 => Len(built') >= 6
      BY <2>1, <2>2
    <3>2. Len(built) > 6 \/ \A w \in Workers : thread[w] \in {"none", "left"}
      <4>1. ASSUME NEW w \in Workers, thread[w] \notin {"none", "left"}
            PROVE  Len(built) > 6
        <5>1. Len(built) >= 6 /\ Len(built) # 6 /\ Len(built) \in 2 .. 8
          BY <2>1, <2>3, <4>1 DEF PoolInv
        <5>2. \A n \in 2 .. 8 : n >= 6 /\ n # 6 => n > 6
          OBVIOUS
        <5> QED
          BY <5>1, <5>2, Zenon
      <4> QED
        BY <4>1
    <3> QED
      BY <2>1, <3>1, <3>2
  <2>6. DOMAIN thread' = Workers
    BY <2>1 DEF PoolInv
  <2>7. Len(built') \in 0 .. 8
    <3>1. Len(built') \in 1 .. 7
      BY <2>1, <2>2
    <3> QED
      BY <3>1
  <2>8. main' = "exit"
    BY <2>1
  <2> QED
    BY <2>2, <2>4, <2>5, <2>6, <2>7, <2>8 DEF PoolInv
<1>5. CASE Exit \/ RunWithoutManagers \/ Die
  <2>1. built' = <<>> /\ main' = "down" /\ thread' = [w \in Workers |-> "none"]
    BY <1>5 DEF Exit, RunWithoutManagers, Die, Ends
  <2>2. Len(built') = 0 /\ built' \in Seq(Objects)
    BY <2>1
  <2> QED
    BY <2>1, <2>2 DEF PoolInv
<1>6. ASSUME NEW w \in Workers, Decide(w) \/ LeaveLoop(w) \/ TaskStep(w) \/ AIBox(w)
      PROVE  PoolInv'
  <2>1. UNCHANGED <<main, built>>
    BY <1>6 DEF Decide, LeaveLoop, AIBox, TaskStep, Take, RunTask, Raise, Test, Send, Process,
                AIStep, AIReturn, ThreadOnly
  <2>2. \/ thread' = thread
        \/ /\ thread[w] \notin {"none", "left"}
           /\ \E to : thread' = [thread EXCEPT ![w] = to]
    BY <1>6 DEF Decide, LeaveLoop, AIBox, TaskStep, Take, RunTask, Raise, Test, Send, Process,
                AIStep, AIReturn, Becomes, pool
  <2> QED
    BY <2>1, <2>2 DEF PoolInv
<1>7. CASE UNCHANGED vars
  BY <1>7 DEF vars, pool, PoolInv
<1> QED
  BY <1>1, <1>2, <1>3, <1>4, <1>5, <1>6, <1>7 DEF Next, MainStep

(* What the tasks use of the objects that Application::Initialize makes    *)
(* before the pool (lines 15-34 of Application.cpp) is alive while they    *)
(* run, for any number of threads, and however the program ends.           *)
THEOREM ThreadsOutlived == Spec => []OutlivesPool
<1>1. Init => PoolInv
  BY DEF Init, Fresh, PoolInv
<1>2. PoolInv => OutlivesPool
  <2> SUFFICES ASSUME PoolInv, NEW w \in Workers, Runs(w)
               PROVE  UsedBy[thread[w]] \ {"scripts", "ai"} \subseteq Alive
    BY DEF OutlivesPool
  <2>1. Len(built) \in 6 .. 8
    BY DEF PoolInv, Runs, TaskPlaces, UsedBy
  <2>2. {"app", "config", "log", "data", "metrics", "pool"} \subseteq Alive
    <3>1. DOMAIN built = 1 .. Len(built)
      BY DEF PoolInv
    <3>2. \A i \in 1 .. 6 : built[i] = InitOrder[i] /\ i \in DOMAIN built
      BY <2>1, <3>1 DEF PoolInv
    <3> QED
      BY <3>2 DEF Alive, InitOrder
  <2>3. UsedBy[thread[w]] \ {"scripts", "ai"}
           \subseteq {"app", "config", "log", "data", "metrics", "pool"}
    BY DEF Runs, TaskPlaces, UsedBy
  <2> QED
    BY <2>2, <2>3
<1> QED
  BY <1>1, <1>2, PoolNext, PTL DEF Spec

-----------------------------------------------------------------------------
(* The types.  Only the metrics thread collects, so the bound on loops is  *)
(* tested and used by one thread; who has decided to take a task finds it. *)
KindsFor(w) ==
    {"sample", "script"}
      \cup (IF w = METRICS_MANAGER_THREAD THEN {"raise"} ELSE {})
      \cup (IF w = INTELLIGENCE_MANAGER_THREAD THEN {"predict"} ELSE {})

Places == {"none", "waits", "takes", "left"} \cup TaskPlaces

TaskInv ==
    /\ thread \in [Workers -> Places]
    /\ DOMAIN queue = Workers
    /\ \A w \in Workers : queue[w] \in Seq(KindsFor(w))
    /\ \A w \in Workers : thread[w] = "takes" => queue[w] # <<>>
    /\ \A w \in Workers : thread[w] \in {"raise", "test", "send", "process"}
                          => w = METRICS_MANAGER_THREAD
    /\ \A w \in Workers : thread[w] = "predict" => w = INTELLIGENCE_MANAGER_THREAD
    /\ \A w \in Workers : thread[w] \in {"send", "process"} => sent < limits.loops
    /\ sent \in Nat /\ sent <= limits.loops
    /\ limits \in [lives : Nat, loops : Nat, rounds : Nat, deployed : BOOLEAN]

MainInv ==
    /\ main \in {"down", "initialize", "addProviders", "while", "addAI", "serve",
                 "stopMetrics", "stopScripts", "stopPool", "exit"}
    /\ rounds \in Nat /\ rounds <= limits.rounds
    /\ lives \in Nat /\ lives <= limits.lives
    /\ limits \in [lives : Nat, loops : Nat, rounds : Nat, deployed : BOOLEAN]

FlagInv == {again, g_signal_flag, collecting, scriptsStop, poolStop} \subseteq BOOLEAN

LEMMA FirstPlaces ==
    /\ METRICS_MANAGER_THREAD \in Workers /\ INTELLIGENCE_MANAGER_THREAD \in Workers
    /\ RandomIndex \subseteq Workers /\ METRICS_MANAGER_THREAD \notin RandomIndex
  BY SizeAssumption DEF METRICS_MANAGER_THREAD, INTELLIGENCE_MANAGER_THREAD, Workers, RandomIndex

LEMMA PlacesAre ==
    Places = {"none", "waits", "takes", "left", "sample", "script", "raise", "test", "send",
              "process", "predict"}
  BY DEF Places, TaskPlaces, UsedBy

(* What a step does to the prediction.                                     *)
LEMMA PredictionStep ==
    ASSUME [Next]_vars
    PROVE  \/ UNCHANGED prediction \/ AI!Start \/ AI!Run \/ AI!CloseBox \/ AI!Return
           \/ active' = FALSE /\ errorCount' = 0 /\ loop' = "off"
<1>1. CASE CreateInstance \/ GetInstance \/ ConstructAI \/ Throws \/ SignalHandler
           \/ ServerReturns \/ ServerThrows \/ Destroy
  BY <1>1 DEF CreateInstance, GetInstance, ConstructAI, Throws, SignalHandler,
              ServerReturns, ServerThrows, Destroy, MainOnly
<1>2. CASE RunStep
  BY <1>2 DEF RunStep, AddProviders, AddCollector, AddAI, SeesSignal, StopMetrics,
              StopScripts, StopPool, MainOnly
<1>3. CASE Exit \/ RunWithoutManagers \/ Die
  BY <1>3 DEF Exit, RunWithoutManagers, Die, Ends
<1>4. ASSUME NEW w \in Workers, Decide(w) \/ LeaveLoop(w) \/ TaskStep(w) \/ AIBox(w)
      PROVE  UNCHANGED prediction \/ AI!Start \/ AI!Run \/ AI!CloseBox \/ AI!Return
  BY <1>4 DEF Decide, LeaveLoop, AIBox, TaskStep, Take, RunTask, Raise, Test, Send, Process,
              AIStep, AIReturn
<1>5. CASE UNCHANGED vars
  BY <1>5 DEF vars
<1> QED
  BY <1>1, <1>2, <1>3, <1>4, <1>5 DEF Next, MainStep

LEMMA PredictionNext == AI!TypeOK /\ [Next]_vars => AI!TypeOK'
<1> SUFFICES ASSUME AI!TypeOK, [Next]_vars PROVE AI!TypeOK'
  OBVIOUS
<1>1. CASE UNCHANGED prediction
  BY <1>1 DEF prediction, AI!TypeOK
<1>2. CASE AI!Start
  BY <1>2 DEF AI!Start, AI!TypeOK
<1>3. CASE AI!Run
  <2>1. CASE AI!Predict \/ AI!Sleep
    BY <2>1 DEF AI!Predict, AI!Sleep, AI!TypeOK
  <2>2. CASE AI!Catch
    <3>0. loop = "catch" /\ errorCount \in 0 .. 4
      BY <2>2, Zenon DEF AI!Catch, AI!TypeOK
    <3>1. CASE errorCount > 3
      <4>1. active' = FALSE /\ loop' = "over" /\ errorCount' = errorCount
        BY <2>2, <3>1, Zenon DEF AI!Catch
      <4> QED
        BY <3>0, <4>1, Zenon DEF AI!TypeOK
    <3>2. CASE ~(errorCount > 3)
      <4>1. active' = active /\ loop' = "predict" /\ errorCount' = errorCount + 1
        BY <2>2, <3>2, Zenon DEF AI!Catch
      <4>2. errorCount' \in 0 .. 4
        <5>1. errorCount' = errorCount + 1
          BY <4>1, Zenon
        <5> QED
          BY <3>0, <3>2, <5>1
      <4> QED
        BY <3>0, <4>1, <4>2, Zenon DEF AI!TypeOK
    <3> QED
      BY <3>1, <3>2, Zenon
  <2> QED
    BY <1>3, <2>1, <2>2 DEF AI!Run
<1>4. CASE AI!CloseBox \/ AI!Return
  BY <1>4 DEF AI!CloseBox, AI!Return, AI!TypeOK
<1>5. CASE active' = FALSE /\ errorCount' = 0 /\ loop' = "off"
  <2>1. errorCount' \in 0 .. 4
    BY <1>5
  <2> QED
    BY <1>5, <2>1, Zenon DEF AI!TypeOK
<1> QED
  BY <1>1, <1>2, <1>3, <1>4, <1>5, PredictionStep

LEMMA MainNext == MainInv /\ [Next]_vars => MainInv'
<1> SUFFICES ASSUME MainInv, [Next]_vars PROVE MainInv'
  OBVIOUS
<1>1. CASE CreateInstance
  BY <1>1 DEF CreateInstance, MainInv
<1>2. CASE GetInstance \/ ConstructAI \/ Throws \/ SignalHandler \/ Destroy
  BY <1>2 DEF GetInstance, ConstructAI, Throws, SignalHandler, Destroy, counts, MainInv
<1>3. CASE ServerReturns \/ ServerThrows
  BY <1>3 DEF ServerReturns, ServerThrows, MainOnly, Goto, MainInv
<1>4. CASE RunStep
  BY <1>4 DEF RunStep, AddProviders, AddCollector, AddAI, SeesSignal, StopMetrics,
              StopScripts, StopPool, MainOnly, Goto, MainInv
<1>5. CASE Exit \/ RunWithoutManagers \/ Die
  BY <1>5 DEF Exit, RunWithoutManagers, Die, Ends, MainInv
<1>6. ASSUME NEW w \in Workers, Decide(w) \/ LeaveLoop(w) \/ TaskStep(w) \/ AIBox(w)
      PROVE  MainInv'
  <2>1. UNCHANGED <<main, rounds, lives, limits>>
    BY <1>6 DEF Decide, LeaveLoop, AIBox, TaskStep, Take, RunTask, Raise, Test, Send, Process,
                AIStep, AIReturn, ThreadOnly
  <2> QED
    BY <2>1 DEF MainInv
<1>7. CASE UNCHANGED vars
  BY <1>7 DEF vars, counts, MainInv
<1> QED
  BY <1>1, <1>2, <1>3, <1>4, <1>5, <1>6, <1>7 DEF Next, MainStep

\* A flag keeps its value, or is set or cleared.
LEMMA FlagNext == FlagInv /\ [Next]_vars => FlagInv'
<1> SUFFICES ASSUME FlagInv, [Next]_vars PROVE FlagInv'
  OBVIOUS
<1>1. /\ again' \in {again, TRUE, FALSE}
      /\ g_signal_flag' \in {g_signal_flag, TRUE, FALSE}
      /\ collecting' \in {collecting, TRUE, FALSE}
      /\ scriptsStop' \in {scriptsStop, TRUE, FALSE}
      /\ poolStop' \in {poolStop, TRUE, FALSE}
  <2>1. CASE CreateInstance \/ GetInstance \/ ConstructAI \/ Throws \/ SignalHandler \/ Destroy
    BY <2>1, Zenon DEF CreateInstance, GetInstance, ConstructAI, Throws, SignalHandler, Destroy, stops
  <2>2. CASE ServerReturns \/ ServerThrows \/ RunStep
    BY <2>2, Zenon DEF ServerReturns, ServerThrows, RunStep, AddProviders, AddCollector, AddAI,
                SeesSignal, StopMetrics, StopScripts, StopPool, MainOnly
  <2>3. CASE Exit \/ RunWithoutManagers \/ Die
    BY <2>3, Zenon DEF Exit, RunWithoutManagers, Die, Ends
  <2>4. ASSUME NEW w \in Workers, Decide(w) \/ LeaveLoop(w) \/ TaskStep(w) \/ AIBox(w)
        PROVE  /\ UNCHANGED <<again, g_signal_flag, scriptsStop, poolStop>>
               /\ collecting' \in {collecting, TRUE}
    BY <2>4, Zenon DEF Decide, LeaveLoop, AIBox, TaskStep, Take, RunTask, Raise, Test, Send, Process,
                AIStep, AIReturn, ThreadOnly
  <2>5. CASE UNCHANGED vars
    BY <2>5, Zenon DEF vars, stops
  <2> QED
    BY <2>1, <2>2, <2>3, <2>4, <2>5, Zenon DEF Next, MainStep
<1> QED
  BY <1>1, Zenon DEF FlagInv

\* A task is appended to the queue of one thread.
LEMMA Given ==
    ASSUME TaskInv, NEW v \in Workers, NEW j \in KindsFor(v),
           queue' = [queue EXCEPT ![v] = Append(@, j)]
    PROVE  /\ DOMAIN queue' = Workers
           /\ \A w \in Workers : queue'[w] \in Seq(KindsFor(w))
           /\ \A w \in Workers : queue[w] # <<>> => queue'[w] # <<>>
<1>1. ASSUME NEW w \in Workers
      PROVE  queue'[w] \in Seq(KindsFor(w)) /\ (queue[w] # <<>> => queue'[w] # <<>>)
  <2>1. CASE w = v
    <3>1. queue'[w] = Append(queue[w], j) /\ queue[w] \in Seq(KindsFor(w))
      BY <2>1 DEF TaskInv
    <3> QED
      BY <2>1, <3>1
  <2>2. CASE w # v
    BY <2>2 DEF TaskInv
  <2> QED
    BY <2>1, <2>2
<1> QED
  BY <1>1 DEF TaskInv

LEMMA TaskNext == TaskInv /\ [Next]_vars => TaskInv'
<1> SUFFICES ASSUME TaskInv, [Next]_vars PROVE TaskInv'
  OBVIOUS
<1> USE FirstPlaces, PlacesAre
<1>1. CASE CreateInstance \/ ConstructAI \/ Throws \/ SignalHandler \/ Destroy \/ UNCHANGED vars
  <2>1. UNCHANGED <<thread, queue, sent, limits>>
    BY <1>1 DEF CreateInstance, ConstructAI, Throws, SignalHandler, Destroy, vars, pool, counts
  <2> QED
    BY <2>1 DEF TaskInv
<1>2. CASE GetInstance
  <2>1. /\ UNCHANGED <<queue, sent, limits>>
        /\ thread' = [w \in Workers |-> "waits"] \/ thread' = thread
    BY <1>2 DEF GetInstance, counts
  <2> QED
    BY <2>1 DEF TaskInv
<1>3. CASE ServerReturns \/ ServerThrows \/ AddProviders \/ SeesSignal \/ StopMetrics
           \/ StopScripts \/ StopPool
  <2>1. UNCHANGED <<thread, queue, sent, limits>>
    BY <1>3 DEF ServerReturns, ServerThrows, AddProviders, SeesSignal, StopMetrics,
                StopScripts, StopPool, MainOnly
  <2> QED
    BY <2>1 DEF TaskInv
<1>4. CASE AddCollector \/ AddAI
  <2>1. /\ UNCHANGED <<thread, sent, limits>>
        /\ \E v \in Workers, j \in {"raise", "predict"} :
              j \in KindsFor(v) /\ queue' = [queue EXCEPT ![v] = Append(@, j)]
    BY <1>4 DEF AddCollector, AddAI, MainOnly, Give, KindsFor
  <2> QED
    BY <2>1, Given DEF TaskInv
<1>5. CASE Exit \/ RunWithoutManagers \/ Die
  <2>1. /\ thread' = [w \in Workers |-> "none"] /\ queue' = [w \in Workers |-> <<>>]
        /\ sent' = 0 /\ limits' = limits
    BY <1>5 DEF Exit, RunWithoutManagers, Die, Ends
  <2> QED
    BY <2>1 DEF TaskInv
<1>6. ASSUME NEW w \in Workers, Decide(w) \/ LeaveLoop(w) \/ TaskStep(w) \/ AIBox(w)
      PROVE  TaskInv'
  <2>1. CASE Take(w)
    <3>1. /\ thread[w] = "takes" /\ thread' = [thread EXCEPT ![w] = Head(queue[w])]
          /\ queue' = [queue EXCEPT ![w] = Tail(@)] /\ UNCHANGED <<sent, limits>>
      BY <2>1 DEF Take, Becomes, ThreadOnly
    <3>2. queue[w] \in Seq(KindsFor(w)) /\ queue[w] # <<>>
      BY <3>1 DEF TaskInv
    <3>3. Head(queue[w]) \in KindsFor(w) /\ Tail(queue[w]) \in Seq(KindsFor(w))
      BY <3>2
    <3>4. /\ Head(queue[w]) \in {"raise", "predict", "sample", "script"}
          /\ Head(queue[w]) = "raise" => w = METRICS_MANAGER_THREAD
          /\ Head(queue[w]) = "predict" => w = INTELLIGENCE_MANAGER_THREAD
      BY <3>3 DEF KindsFor
    <3>5. /\ DOMAIN queue' = Workers
          /\ \A v \in Workers : queue'[v] \in Seq(KindsFor(v))
          /\ \A v \in Workers : v # w => queue'[v] = queue[v]
      BY <3>1, <3>3 DEF TaskInv
    <3>6. thread' \in [Workers -> Places]
      BY <3>1, <3>4 DEF TaskInv
    <3>7. /\ thread'[w] = Head(queue[w])
          /\ \A v \in Workers : v # w => thread'[v] = thread[v]
      BY <3>1 DEF TaskInv
    <3> QED
      BY <3>1, <3>4, <3>5, <3>6, <3>7 DEF TaskInv
  <2>2. CASE Send(w) \/ Process(w)
    <3>1. /\ \E v \in RandomIndex, j \in {"sample", "script"} :
                queue' = [queue EXCEPT ![v] = Append(@, j)]
          /\ limits' = limits
      BY <2>2 DEF Send, Process, Give, ThreadOnly
    <3>2. /\ DOMAIN queue' = Workers
          /\ \A v \in Workers : queue'[v] \in Seq(KindsFor(v))
          /\ \A v \in Workers : queue[v] # <<>> => queue'[v] # <<>>
      BY <3>1, Given DEF KindsFor
    <3>3. CASE Send(w)
      BY <3>1, <3>2, <3>3 DEF Send, Becomes, TaskInv
    <3>4. CASE Process(w)
      <4>1. /\ thread[w] = "process" /\ thread' = [thread EXCEPT ![w] = "test"]
            /\ sent' = sent + 1
        BY <3>4 DEF Process, Becomes
      <4>2. w = METRICS_MANAGER_THREAD /\ sent < limits.loops
        BY <4>1 DEF TaskInv
      <4>3. sent' \in Nat /\ sent' <= limits.loops
        BY <4>1, <4>2 DEF TaskInv
      <4>4. \A v \in Workers : thread'[v] \notin {"send", "process"}
        BY <4>1, <4>2 DEF TaskInv
      <4> QED
        BY <3>1, <3>2, <4>1, <4>2, <4>3, <4>4 DEF TaskInv
    <3> QED
      BY <2>2, <3>3, <3>4
  <2>3. CASE Test(w)
    <3>1. /\ thread[w] = "test" /\ UNCHANGED <<queue, sent, limits>>
          /\ \/ thread' = [thread EXCEPT ![w] = "waits"]
             \/ sent < limits.loops /\ thread' = [thread EXCEPT ![w] = "send"]
      BY <2>3 DEF Test, Becomes, ThreadOnly
    <3> QED
      BY <3>1 DEF TaskInv
  <2>4. CASE Decide(w)
    BY <2>4 DEF Decide, Becomes, ThreadOnly, TaskInv
  <2>5. CASE LeaveLoop(w) \/ RunTask(w) \/ Raise(w) \/ AIReturn(w)
    <3>1. /\ UNCHANGED <<queue, sent, limits>>
          /\ \/ thread' = [thread EXCEPT ![w] = "left"]
             \/ thread' = [thread EXCEPT ![w] = "waits"]
             \/ thread[w] = "raise" /\ thread' = [thread EXCEPT ![w] = "test"]
      BY <2>5 DEF LeaveLoop, RunTask, Raise, AIReturn, Becomes, ThreadOnly
    <3> QED
      BY <3>1 DEF TaskInv
  <2>6. CASE AIStep(w) \/ AIBox(w)
    <3>1. UNCHANGED <<thread, queue, sent, limits>>
      BY <2>6 DEF AIStep, AIBox, pool, ThreadOnly
    <3> QED
      BY <3>1 DEF TaskInv
  <2> QED
    BY <1>6, <2>1, <2>2, <2>3, <2>4, <2>5, <2>6 DEF TaskStep
<1> QED
  BY <1>1, <1>2, <1>3, <1>4, <1>5, <1>6 DEF Next, MainStep, RunStep

(* The variables of main, of the static objects, of the threads and of the *)
(* prediction keep their types and their bounds, start after start.        *)
THEOREM LifeTyped == Spec => []TypeOK
<1>1. Init => DiskInv /\ PoolInv /\ AI!TypeOK /\ MainInv /\ FlagInv /\ TaskInv
  <2> SUFFICES ASSUME Init
               PROVE  PoolInv /\ AI!TypeOK /\ MainInv /\ FlagInv /\ TaskInv
    BY DiskInit
  <2>1. limits \in [lives : Nat, loops : Nat, rounds : Nat, deployed : BOOLEAN]
    BY LimitsAssumption DEF Init
  <2>2. PoolInv
    BY DEF Init, Fresh, PoolInv
  <2>3. AI!TypeOK
    <3>1. errorCount \in 0 .. 4
      BY DEF Init, AI!Off
    <3> QED
      BY <3>1, Zenon DEF Init, AI!Off, AI!TypeOK
  <2>4. MainInv
    BY <2>1 DEF Init, Fresh, MainInv
  <2>5. FlagInv
    BY Zenon DEF Init, Fresh, FlagInv
  <2>6. TaskInv
    BY <2>1, PlacesAre DEF Init, Fresh, TaskInv
  <2> QED
    BY <2>2, <2>3, <2>4, <2>5, <2>6
<1>2. DiskInv /\ PoolInv /\ AI!TypeOK /\ MainInv /\ FlagInv /\ TaskInv => TypeOK
  <2> SUFFICES ASSUME DiskInv, PoolInv, AI!TypeOK, MainInv, FlagInv, TaskInv PROVE TypeOK
    OBVIOUS
  <2>1. built = SubSeq(InitOrder, 1, Len(built))
    <3>1. /\ Len(built) \in 0 .. 8 /\ built \in Seq(Objects)
          /\ 1 \in Int /\ Len(built) \in Int
      BY DEF PoolInv
    <3>2. \A i \in 1 .. Len(built) : InitOrder[i] \in Objects
      <4>1. \A n \in 0 .. 8 : \A i \in 1 .. n : i \in 1 .. 8
        OBVIOUS
      <4> QED
        BY <3>1, <4>1, Zenon DEF Objects
    <3>3. /\ SubSeq(InitOrder, 1, Len(built)) \in Seq(Objects)
          /\ Len(SubSeq(InitOrder, 1, Len(built))) = Len(built)
          /\ \A i \in 1 .. Len(built) : SubSeq(InitOrder, 1, Len(built))[i] = InitOrder[i]
      BY <3>1, <3>2, SubSeqProperties
    <3> QED
      BY <3>1, <3>3, SeqEqual DEF PoolInv
  <2>2. \A w \in Workers : \A i \in DOMAIN queue[w] : queue[w][i] \in Kinds
    <3>1. \A w \in Workers : KindsFor(w) \subseteq Kinds
      BY DEF KindsFor, Kinds
    <3> QED
      BY <3>1 DEF TaskInv
  <2>3. \A b \in {again, g_signal_flag, collecting, scriptsStop, poolStop} : b \in BOOLEAN
    BY Zenon DEF FlagInv
  <2> QED
    BY <2>1, <2>2, <2>3 DEF DiskInv, MainInv, TaskInv, Places, TypeOK
<1> QED
  BY <1>1, <1>2, DiskNext, PoolNext, PredictionNext, MainNext, FlagNext, TaskNext, PTL DEF Spec

-----------------------------------------------------------------------------
(* The pool in the life of the program.                                    *)

(* Run and what follows it have all objects; before the pool is made no    *)
(* thread has come, and none is left of an earlier start.                  *)
Serving == {"addProviders", "while", "addAI", "serve", "stopMetrics", "stopScripts", "stopPool"}

StageInv ==
    /\ main \in Serving => Len(built) = 8
    /\ main \in {"down", "initialize"} /\ Len(built) < 6
          => \A w \in Workers : thread[w] = "none"

(* Counting objects.                                                       *)
LEMMA Objects8 ==
    \A n \in 0 .. 8 :
       /\ n < 8 => n + 1 \in 1 .. 8 /\ n \in 0 .. 7
       /\ n + 1 = 8 <=> n = 7
       /\ n + 1 = 6 <=> n = 5
       /\ n + 1 < 6 => n < 6 /\ n # 5
       /\ n # 5 => (n + 1 >= 6 <=> n >= 6)
       /\ n # 6 /\ n > 1 => (n - 1 >= 6 <=> n >= 6)
       /\ n = 8 => n >= 6
OBVIOUS

(* The object made next is told by how many there are.                     *)
LEMMA NextIs ==
    ASSUME Len(built) \in 0 .. 8, Len(built) < 8
    PROVE  /\ NextObject = "ai" <=> Len(built) = 7
           /\ NextObject = "pool" <=> Len(built) = 5
<1>1. Len(built) + 1 \in 1 .. 8
  BY Objects8, Zenon
<1>2. /\ NextObject = "ai" <=> Len(built) + 1 = 8
      /\ NextObject = "pool" <=> Len(built) + 1 = 6
  BY <1>1, OrderOfPool, Zenon DEF NextObject
<1> QED
  BY <1>2, Objects8, Zenon

LEMMA StageNext == PoolInv /\ StageInv /\ [Next]_vars => StageInv'
<1> SUFFICES ASSUME PoolInv, StageInv, [Next]_vars PROVE StageInv'
  OBVIOUS
<1>1. CASE CreateInstance
  <2>1. main = "down" /\ main' = "initialize" /\ thread' = thread
    BY <1>1 DEF CreateInstance, pool
  <2>2. \A w \in Workers : thread[w] = "none"
    BY <2>1 DEF PoolInv, StageInv
  <2> QED
    BY <2>1, <2>2 DEF StageInv, Serving
<1>2. CASE GetInstance
  <2>1. /\ main = "initialize" /\ Len(built) \in 0 .. 8 /\ Len(built) < 8
        /\ built' = Append(built, NextObject)
        /\ main' = IF NextObject = "ai" THEN "addProviders" ELSE main
        /\ thread' = IF NextObject = "pool" THEN [w \in Workers |-> "waits"] ELSE thread
        /\ Len(built') = Len(built) + 1
    BY <1>2 DEF GetInstance, PoolInv
  <2>2. /\ NextObject = "ai" <=> Len(built) = 7
        /\ NextObject = "pool" <=> Len(built) = 5
    BY <2>1, NextIs
  <2>3. main' \in Serving => Len(built') = 8
    <3>1. main' \in Serving => Len(built) = 7
      BY <2>1, <2>2, Zenon DEF Serving
    <3> QED
      BY <2>1, <3>1, Objects8, Zenon
  <2>4. main' \in {"down", "initialize"} /\ Len(built') < 6
           => \A w \in Workers : thread'[w] = "none"
    <3>1. Len(built') < 6 => Len(built) < 6 /\ Len(built) # 5
      BY <2>1, Objects8, Zenon
    <3> QED
      BY <2>1, <2>2, <3>1, Zenon DEF StageInv
  <2> QED
    BY <2>3, <2>4 DEF StageInv
<1>3. CASE ConstructAI \/ RunStep \/ Throws \/ SignalHandler \/ ServerReturns \/ ServerThrows
  <2>1. /\ UNCHANGED <<built, thread>>
        /\ \/ main' = main \/ main' = "exit"
           \/ main \in Serving /\ main' \in Serving
    BY <1>3 DEF ConstructAI, RunStep, Throws, SignalHandler, ServerReturns, ServerThrows,
                AddProviders, AddCollector, AddAI, SeesSignal, StopMetrics, StopScripts,
                StopPool, MainOnly, Goto, pool, Serving
  <2> QED
    BY <2>1 DEF StageInv, Serving
<1>4. CASE Destroy
  <2>1. main' = "exit"
    BY <1>4 DEF Destroy
  <2> QED
    BY <2>1 DEF StageInv, Serving
<1>5. CASE Exit \/ RunWithoutManagers \/ Die
  <2>1. main' = "down" /\ thread' = [w \in Workers |-> "none"]
    BY <1>5 DEF Exit, RunWithoutManagers, Die, Ends
  <2> QED
    BY <2>1 DEF StageInv, Serving
<1>6. ASSUME NEW w \in Workers, Decide(w) \/ LeaveLoop(w) \/ TaskStep(w) \/ AIBox(w)
      PROVE  StageInv'
  <2>1. UNCHANGED <<main, built>>
    BY <1>6 DEF Decide, LeaveLoop, AIBox, TaskStep, Take, RunTask, Raise, Test, Send, Process,
                AIStep, AIReturn, ThreadOnly
  <2>2. \/ thread' = thread
        \/ /\ thread[w] \notin {"none", "left"}
           /\ \E to : thread' = [thread EXCEPT ![w] = to]
    BY <1>6 DEF Decide, LeaveLoop, AIBox, TaskStep, Take, RunTask, Raise, Test, Send, Process,
                AIStep, AIReturn, Becomes, pool
  <2>3. CASE thread' = thread
    BY <2>1, <2>3 DEF StageInv
  <2>4. CASE thread[w] \notin {"none", "left"}
    <3>1. Len(built) >= 6 /\ Len(built) \in 0 .. 8
      BY <2>4 DEF PoolInv
    <3>2. ~(Len(built') < 6)
      BY <2>1, <3>1
    <3> QED
      BY <2>1, <3>2 DEF StageInv
  <2> QED
    BY <2>2, <2>3, <2>4
<1>7. CASE UNCHANGED vars
  BY <1>7 DEF vars, pool, StageInv
<1> QED
  BY <1>1, <1>2, <1>3, <1>4, <1>5, <1>6, <1>7 DEF Next, MainStep

(* The pool lives while six objects do.                                    *)
LEMMA PoolIsSixth ==
    ASSUME PoolInv
    PROVE  LifeUp <=> Len(built) >= 6
<1>1. DOMAIN built = 1 .. Len(built) /\ Len(built) \in 0 .. 8
  BY DEF PoolInv
<1>2. \A i \in 1 .. Len(built) : i \in 1 .. 8 /\ built[i] = InitOrder[i]
  <2>1. \A n \in 0 .. 8 : \A i \in 1 .. n : i \in 1 .. 8
    OBVIOUS
  <2> QED
    BY <1>1, <2>1, Zenon DEF PoolInv
<1>3. \A i \in 1 .. Len(built) : built[i] = "pool" <=> i = 6
  BY <1>2, OrderOfPool
<1>4. LifeUp <=> 6 \in 1 .. Len(built)
  BY <1>1, <1>3 DEF LifeUp, Alive
<1> QED
  BY <1>1, <1>4

(* The six again, after a step.                                            *)
LEMMA PoolIsSixthNext == PoolInv' => (LifeUp <=> Len(built) >= 6)'
<1>1. PoolInv => (LifeUp <=> Len(built) >= 6)
  BY PoolIsSixth
<1> QED
  BY <1>1, PTL

(* A thread that moves from one place to another, as PoolLife sees it.     *)
LEMMA PlaceMoved ==
    ASSUME TaskInv, NEW w \in Workers, NEW to, thread' = [thread EXCEPT ![w] = to]
    PROVE  LifeThread' = [LifeThread EXCEPT ![w] = IF to \in TaskPlaces THEN "runs" ELSE to]
BY DEF TaskInv, LifeThread, Runs

LEMMA PlacesApart ==
    /\ Kinds \subseteq TaskPlaces
    /\ {"sample", "script", "raise", "test", "send", "process", "predict"} \subseteq TaskPlaces
    /\ "none" \notin TaskPlaces /\ "waits" \notin TaskPlaces
    /\ "takes" \notin TaskPlaces /\ "left" \notin TaskPlaces
  BY DEF Kinds, TaskPlaces, UsedBy

(* A step of a thread is one of PoolLife, or none.                         *)
LEMMA ThreadLives ==
    ASSUME PoolInv, PoolInv', TaskInv, NEW w \in Workers,
           Decide(w) \/ LeaveLoop(w) \/ TaskStep(w) \/ AIBox(w)
    PROVE  [Life!Next]_(Life!vars)
<1> USE PlacesApart, FirstPlaces
<1>0. UNCHANGED <<built, poolStop>> /\ LifeUp' = LifeUp
  <2>1. UNCHANGED <<built, poolStop>>
    BY DEF Decide, LeaveLoop, AIBox, TaskStep, Take, RunTask, Raise, Test, Send, Process,
           AIStep, AIReturn, ThreadOnly
  <2> QED
    BY <2>1 DEF LifeUp, Alive
<1>1. thread[w] \notin {"none", "left"} => LifeUp
  BY PoolIsSixth DEF PoolInv
<1>2. LifeThread[w] = IF thread[w] \in TaskPlaces THEN "runs" ELSE thread[w]
  BY DEF LifeThread, Runs
<1>3. CASE Decide(w)
  BY <1>0, <1>1, <1>2, <1>3, PlaceMoved
     DEF Decide, Becomes, ThreadOnly, Life!Decide, Life!Becomes, Life!Next
<1>4. CASE LeaveLoop(w)
  BY <1>0, <1>1, <1>2, <1>4, PlaceMoved
     DEF LeaveLoop, Becomes, ThreadOnly, Life!LeaveLoop, Life!Becomes, Life!Next
<1>5. CASE Take(w)
  <2>1. /\ thread[w] = "takes" /\ thread' = [thread EXCEPT ![w] = Head(queue[w])]
        /\ queue' = [queue EXCEPT ![w] = Tail(@)]
    BY <1>5 DEF Take, Becomes
  <2>2. queue[w] # <<>> /\ queue[w] \in Seq(KindsFor(w))
    BY <2>1 DEF TaskInv
  <2>3. Head(queue[w]) \in TaskPlaces
    BY <2>2 DEF KindsFor, Kinds
  <2>4. LifeThread' = [LifeThread EXCEPT ![w] = "runs"]
    BY <2>1, <2>3, PlaceMoved
  <2> QED
    BY <1>0, <1>1, <1>2, <2>1, <2>2, <2>4 DEF Life!Take, Life!Becomes, Life!Next
<1>6. CASE RunTask(w) \/ AIReturn(w) \/ (Test(w) /\ thread'[w] = "waits")
  <2>1. /\ thread[w] \in TaskPlaces /\ thread' = [thread EXCEPT ![w] = "waits"]
        /\ queue' = queue
    BY <1>6 DEF RunTask, AIReturn, Test, Becomes, TaskInv
  <2>2. LifeThread' = [LifeThread EXCEPT ![w] = "waits"]
    BY <2>1, PlaceMoved
  <2> QED
    BY <1>0, <1>1, <1>2, <2>1, <2>2 DEF Life!Return, Life!Becomes, Life!Next
<1>7. ASSUME NEW to \in TaskPlaces, Becomes(w, thread[w], to), thread[w] \in TaskPlaces
      PROVE  LifeThread' = LifeThread
  BY <1>7 DEF Becomes, LifeThread, Runs, TaskInv
<1>8. CASE Raise(w) \/ (Test(w) /\ thread'[w] = "send")
  <2>1. queue' = queue /\ LifeThread' = LifeThread
    BY <1>7, <1>8 DEF Raise, Test, Becomes, TaskInv
  <2> QED
    BY <1>0, <2>1 DEF Life!vars
<1>9. CASE Send(w) \/ Process(w)
  <2>1. LifeThread' = LifeThread /\ LifeUp
    BY <1>1, <1>7, <1>9 DEF Send, Process, Becomes
  <2>2. \E v \in Workers, j \in Kinds : queue' = [queue EXCEPT ![v] = Append(@, j)]
    BY <1>9 DEF Send, Process, Give, Kinds
  <2> QED
    BY <1>0, <2>1, <2>2 DEF Life!Add, Life!Next
<1>10. CASE AIStep(w) \/ AIBox(w)
  BY <1>0, <1>10 DEF AIStep, AIBox, pool, LifeThread, Runs, Life!vars
<1>11. Test(w) => thread'[w] \in {"waits", "send"}
  BY DEF Test, Becomes, TaskInv
<1> QED
  BY <1>3, <1>4, <1>5, <1>6, <1>8, <1>9, <1>10, <1>11 DEF TaskStep

(* A step of the program is one of PoolLife, or none.                      *)
LEMMA LifeNext ==
    ASSUME PoolInv, PoolInv', TaskInv, StageInv, [Next]_vars
    PROVE  [Life!Next]_(Life!vars)
<1>0. /\ LifeUp <=> Len(built) >= 6
      /\ LifeUp' <=> Len(built') >= 6
      /\ Len(built) \in 0 .. 8 /\ LifeUp \in BOOLEAN /\ LifeUp' \in BOOLEAN
  BY PoolIsSixth, PoolIsSixthNext DEF PoolInv, LifeUp
<1>1. thread' = thread => LifeThread' = LifeThread
  BY DEF LifeThread, Runs
<1>2. built' = built => LifeUp' = LifeUp
  BY DEF LifeUp, Alive
<1>3. CASE CreateInstance
  <2>1. UNCHANGED <<thread, queue, poolStop>> /\ Len(built') = 1 /\ Len(built) = 0
    BY <1>3 DEF CreateInstance, pool, stops, PoolInv
  <2> QED
    BY <1>0, <1>1, <2>1 DEF Life!vars
<1>4. CASE GetInstance
  <2>1. /\ main = "initialize" /\ Len(built) \in 0 .. 8 /\ Len(built) < 8
        /\ thread' = IF NextObject = "pool" THEN [w \in Workers |-> "waits"] ELSE thread
        /\ Len(built') = Len(built) + 1 /\ UNCHANGED <<queue, poolStop>>
    BY <1>4 DEF GetInstance, PoolInv, stops
  <2>2. NextObject = "pool" <=> Len(built) = 5
    BY <2>1, NextIs
  <2>3. CASE Len(built) = 5
    <3>1. ~LifeUp /\ LifeUp'
      BY <1>0, <2>1, <2>3
    <3>2. \A w \in Workers : LifeThread[w] = "none"
      <4>1. \A w \in Workers : thread[w] = "none"
        BY <2>1, <2>3 DEF StageInv
      <4> QED
        BY <4>1, PlacesApart DEF LifeThread, Runs
    <3>3. LifeThread' = [w \in Workers |-> "waits"]
      BY <2>1, <2>2, <2>3, PlacesApart DEF LifeThread, Runs
    <3> QED
      BY <2>1, <3>1, <3>2, <3>3 DEF Life!Construct, Life!Next
  <2>4. CASE Len(built) # 5
    <3>1. Len(built) + 1 >= 6 <=> Len(built) >= 6
      BY <2>1, <2>4, Objects8, Zenon
    <3>2. Len(built') >= 6 <=> Len(built) >= 6
      BY <2>1, <3>1
    <3>3. LifeUp' = LifeUp
      BY <1>0, <3>2
    <3> QED
      BY <1>1, <2>1, <2>2, <2>4, <3>3 DEF Life!vars
  <2> QED
    BY <2>3, <2>4
<1>5. CASE ConstructAI \/ Throws \/ SignalHandler \/ ServerReturns \/ ServerThrows
           \/ AddProviders \/ SeesSignal \/ StopMetrics \/ StopScripts
  <2>1. UNCHANGED <<built, thread, queue, poolStop>>
    BY <1>5 DEF ConstructAI, Throws, SignalHandler, ServerReturns, ServerThrows,
                AddProviders, SeesSignal, StopMetrics, StopScripts, MainOnly, pool, stops
  <2> QED
    BY <1>1, <1>2, <2>1 DEF Life!vars
<1>6. CASE AddCollector \/ AddAI
  <2>1. /\ UNCHANGED <<built, thread, poolStop>> /\ main \in Serving
        /\ \E v \in Workers, j \in Kinds : queue' = [queue EXCEPT ![v] = Append(@, j)]
    BY <1>6, FirstPlaces DEF AddCollector, AddAI, MainOnly, Goto, Give, Kinds, Serving
  <2>2. LifeUp
    BY <1>0, <2>1, Objects8, Zenon DEF StageInv
  <2> QED
    BY <1>1, <1>2, <2>1, <2>2 DEF Life!Add, Life!Next
<1>7. CASE StopPool
  <2>1. UNCHANGED <<built, thread, queue>> /\ poolStop' = TRUE
    BY <1>7 DEF StopPool, MainOnly
  <2> QED
    BY <1>1, <1>2, <2>1 DEF Life!Stop, Life!Next
<1>8. CASE Destroy
  <2>1. /\ UNCHANGED <<thread, queue, poolStop>> /\ Len(built) \in 2 .. 8
        /\ Len(built') = Len(built) - 1
    <3>1. /\ UNCHANGED <<thread, queue, poolStop>> /\ Len(built) \in 2 .. 8
          /\ built \in Seq(Objects)
          /\ built' = SubSeq(built, 1, Len(built) - 1)
          /\ Len(built) - 1 \in 1 .. Len(built)
      BY <1>8 DEF Destroy, pool, stops, PoolInv
    <3> QED
      BY <3>1, SubSeqProperties
  <2>2. CASE Len(built) = 6
    <3>1. \A w \in Workers : thread[w] = "left"
      BY <1>8, <2>2, OrderOfPool DEF Destroy, Latest, PoolInv
    <3>2. \A w \in Workers : LifeThread[w] = "left"
      BY <3>1, PlacesApart DEF LifeThread, Runs
    <3>3. LifeUp /\ LifeUp' = FALSE
      BY <1>0, <2>1, <2>2
    <3> QED
      BY <1>1, <2>1, <3>2, <3>3 DEF Life!Destroy, Life!Next
  <2>3. CASE Len(built) # 6
    <3>1. LifeUp' = LifeUp
      BY <1>0, <2>1, <2>3
    <3> QED
      BY <1>1, <2>1, <3>1 DEF Life!vars
  <2> QED
    BY <2>2, <2>3
<1>9. CASE Exit \/ RunWithoutManagers \/ Die
  <2>1. /\ built' = <<>> /\ thread' = [w \in Workers |-> "none"]
        /\ queue' = [w \in Workers |-> <<>>] /\ poolStop' = FALSE
    BY <1>9, Zenon DEF Exit, RunWithoutManagers, Die, Ends
  <2>2. LifeThread' = [w \in Workers |-> "none"]
    BY <2>1, PlacesApart DEF LifeThread, Runs
  <2>3. LifeUp' = FALSE
    BY <1>0, <2>1
  <2> QED
    BY <2>1, <2>2, <2>3 DEF Life!End, Life!Next
<1>10. ASSUME NEW w \in Workers, Decide(w) \/ LeaveLoop(w) \/ TaskStep(w) \/ AIBox(w)
       PROVE  [Life!Next]_(Life!vars)
  BY <1>10, ThreadLives
<1>11. CASE UNCHANGED vars
  BY <1>1, <1>2, <1>11 DEF vars, pool, stops, Life!vars
<1> QED
  BY <1>3, <1>4, <1>5, <1>6, <1>7, <1>8, <1>9, <1>10, <1>11 DEF Next, MainStep, RunStep

(* The pool that Application makes, gives tasks to, stops and destroys     *)
(* goes through the life that ThreadManager is proved to go through        *)
(* (LivesAsPromised): what Lifecycle leaves out of it, its condition       *)
(* variable and its callers, does not change how it begins and ends.       *)
THEOREM PoolLives == Spec => LifeSpec
<1>1. Init => PoolInv /\ TaskInv /\ StageInv
  <2> SUFFICES ASSUME Init PROVE PoolInv /\ TaskInv /\ StageInv
    OBVIOUS
  <2>1. limits \in [lives : Nat, loops : Nat, rounds : Nat, deployed : BOOLEAN]
    BY LimitsAssumption DEF Init
  <2>2. PoolInv /\ StageInv
    BY DEF Init, Fresh, PoolInv, StageInv, Serving
  <2>3. TaskInv
    BY <2>1, PlacesAre DEF Init, Fresh, TaskInv
  <2> QED
    BY <2>2, <2>3
<1>2. Init => Life!Init
  BY PlacesApart DEF Init, Fresh, Life!Init, LifeUp, Alive, LifeThread, Runs
<1>3. PoolInv /\ TaskInv /\ StageInv /\ [Next]_vars => (PoolInv /\ TaskInv /\ StageInv)'
  BY PoolNext, TaskNext, StageNext
<1>4. PoolInv /\ TaskInv /\ StageInv /\ PoolInv' /\ [Next]_vars => [Life!Next]_(Life!vars)
  BY LifeNext
<1> QED
  BY <1>1, <1>2, <1>3, <1>4, PTL DEF Spec, LifeSpec, Life!Spec

-----------------------------------------------------------------------------
(* Predictions.                                                            *)

(* The loop is on while its thread is in it.                               *)
SoleInv == thread[INTELLIGENCE_MANAGER_THREAD] = "predict" <=> loop # "off"

LEMMA SoleNext ==
    ASSUME PoolInv, TaskInv, StageInv, SoleInv, [Next]_vars
    PROVE  SoleInv'
<1> USE FirstPlaces
<1>1. CASE CreateInstance \/ ConstructAI \/ Throws \/ SignalHandler \/ ServerReturns
           \/ ServerThrows \/ RunStep \/ Destroy \/ UNCHANGED vars
  <2>1. UNCHANGED <<thread, prediction>>
    BY <1>1 DEF CreateInstance, ConstructAI, Throws, SignalHandler, ServerReturns, ServerThrows,
                RunStep, AddProviders, AddCollector, AddAI, SeesSignal, StopMetrics,
                StopScripts, StopPool, Destroy, MainOnly, vars, pool
  <2> QED
    BY <2>1 DEF SoleInv, prediction
<1>2. CASE GetInstance
  <2>1. CASE NextObject = "pool"
    <3>1. main = "initialize" /\ Len(built) \in 0 .. 8 /\ Len(built) < 8
      BY <1>2 DEF GetInstance, PoolInv
    <3>2. Len(built) = 5
      BY <2>1, <3>1, NextIs
    <3>3. thread[INTELLIGENCE_MANAGER_THREAD] = "none"
      BY <3>1, <3>2 DEF StageInv
    <3> QED
      BY <1>2, <2>1, <3>3 DEF GetInstance, SoleInv, prediction
  <2>2. CASE NextObject # "pool"
    BY <1>2, <2>2 DEF GetInstance, SoleInv, prediction
  <2> QED
    BY <2>1, <2>2
<1>3. CASE Exit \/ RunWithoutManagers \/ Die
  BY <1>3 DEF Exit, RunWithoutManagers, Die, Ends, SoleInv
<1>4. ASSUME NEW w \in Workers, Decide(w) \/ LeaveLoop(w) \/ TaskStep(w) \/ AIBox(w)
      PROVE  SoleInv'
  <2>1. CASE Take(w)
    <3>1. /\ thread[w] = "takes" /\ thread' = [thread EXCEPT ![w] = Head(queue[w])]
          /\ IF Head(queue[w]) = "predict" THEN AI!Start ELSE UNCHANGED prediction
      BY <2>1 DEF Take, Becomes
    <3>2. /\ queue[w] \in Seq(KindsFor(w)) /\ queue[w] # <<>>
          /\ thread \in [Workers -> Places]
      BY <3>1 DEF TaskInv
    <3>3. Head(queue[w]) = "predict" => w = INTELLIGENCE_MANAGER_THREAD
      BY <3>2 DEF KindsFor
    <3>4. CASE Head(queue[w]) = "predict"
      BY <3>1, <3>2, <3>3, <3>4 DEF AI!Start, SoleInv
    <3>5. CASE Head(queue[w]) # "predict"
      BY <3>1, <3>2, <3>5 DEF SoleInv, prediction
    <3> QED
      BY <3>4, <3>5
  <2>2. CASE AIReturn(w)
    BY <2>2 DEF AIReturn, Becomes, AI!Return, TaskInv, SoleInv
  <2>3. CASE AIStep(w) \/ AIBox(w)
    <3>1. thread' = thread /\ thread[w] = "predict" /\ w = INTELLIGENCE_MANAGER_THREAD
      BY <2>3 DEF AIStep, AIBox, ThreadOnly, pool, TaskInv
    <3>2. AI!Run \/ AI!CloseBox
      BY <2>3 DEF AIStep, AIBox
    <3>3. loop' # "off"
      BY <3>2 DEF AI!Run, AI!Predict, AI!Catch, AI!Sleep, AI!CloseBox
    <3> QED
      BY <3>1, <3>3 DEF SoleInv
  <2>4. CASE Decide(w) \/ LeaveLoop(w) \/ RunTask(w) \/ Raise(w) \/ Test(w) \/ Send(w) \/ Process(w)
    <3>1. /\ UNCHANGED prediction
          /\ \E to \in Places \ {"predict"} : thread' = [thread EXCEPT ![w] = to]
          /\ thread[w] # "predict"
      BY <2>4, PlacesAre DEF Decide, LeaveLoop, RunTask, Raise, Test, Send, Process, Becomes
    <3> QED
      BY <3>1 DEF SoleInv, TaskInv, prediction
  <2> QED
    BY <1>4, <2>1, <2>2, <2>3, <2>4 DEF TaskStep
<1> QED
  BY <1>1, <1>2, <1>3, <1>4 DEF Next, MainStep

(* The loop of the predictions runs on its thread only, and a second task  *)
(* for it, which Run gives when the server has returned, waits for the     *)
(* first: active and errorCount never serve two loops.                     *)
THEOREM OnePredicts == Spec => []PredictsAlone
<1>1. Init => PoolInv /\ TaskInv /\ StageInv /\ SoleInv
  <2> SUFFICES ASSUME Init PROVE PoolInv /\ TaskInv /\ StageInv /\ SoleInv
    OBVIOUS
  <2>1. PoolInv /\ StageInv
    BY DEF Init, Fresh, PoolInv, StageInv, Serving
  <2>2. limits \in [lives : Nat, loops : Nat, rounds : Nat, deployed : BOOLEAN]
    BY LimitsAssumption DEF Init
  <2>3. TaskInv
    BY <2>2, PlacesAre DEF Init, Fresh, TaskInv
  <2>4. SoleInv
    BY FirstPlaces DEF Init, Fresh, AI!Off, SoleInv
  <2> QED
    BY <2>1, <2>3, <2>4
<1>2. TaskInv /\ SoleInv => PredictsAlone
  <2> SUFFICES ASSUME TaskInv, SoleInv PROVE PredictsAlone
    OBVIOUS
  <2>1. ASSUME NEW w \in Workers, thread[w] = "takes", Head(queue[w]) = "predict"
        PROVE  loop = "off"
    <3>1. queue[w] \in Seq(KindsFor(w)) /\ queue[w] # <<>>
      BY <2>1 DEF TaskInv
    <3>2. w = INTELLIGENCE_MANAGER_THREAD
      BY <2>1, <3>1 DEF KindsFor
    <3> QED
      BY <2>1, <3>2 DEF SoleInv
  <2> QED
    BY <2>1 DEF TaskInv, SoleInv, PredictsAlone
<1>3. PoolInv /\ TaskInv /\ StageInv /\ SoleInv /\ [Next]_vars
      => (PoolInv /\ TaskInv /\ StageInv /\ SoleInv)'
  BY PoolNext, TaskNext, StageNext, SoleNext
<1> QED
  BY <1>1, <1>2, <1>3, PTL DEF Spec

(* A prediction that throws is tried again at once, but each try and each  *)
(* catch costs the budget: ten steps after it has begun to fail the loop   *)
(* has slept or ended.                                                     *)
THEOREM BudgetIsSpent == Spec => BudgetSpends
<1>1. Init => AI!TypeOK
  <2>1. 0 \in 0 .. 4
    OBVIOUS
  <2> QED
    BY <2>1, Zenon DEF Init, AI!Off, AI!TypeOK
<1>2. AI!TypeOK /\ [Next]_vars
      => [AI!Failing /\ AI!Failing' => AI!Budget' < AI!Budget]_(AI!vars)
  <2> SUFFICES ASSUME AI!TypeOK, [Next]_vars, AI!Failing, AI!Failing', ~UNCHANGED AI!vars
               PROVE  AI!Budget' < AI!Budget
    OBVIOUS
  <2>1. errorCount \in 0 .. 4 /\ loop \in {"predict", "catch"} /\ loop' \in {"predict", "catch"}
    BY Zenon DEF AI!TypeOK, AI!Failing
  <2>2. AI!Run
    BY <2>1, PredictionStep DEF prediction, AI!vars, AI!Start, AI!CloseBox, AI!Return
  <2>3. \/ loop = "predict" /\ loop' = "catch" /\ errorCount' = errorCount
        \/ loop = "catch" /\ loop' = "predict" /\ errorCount' = errorCount + 1
    BY <2>1, <2>2, Zenon DEF AI!Run, AI!Predict, AI!Catch, AI!Sleep
  <2> QED
    BY <2>1, <2>3 DEF AI!Budget
<1> QED
  BY <1>1, <1>2, PredictionNext, PTL DEF Spec, BudgetSpends, AI!BudgetSpends

(* Whatever main, the signals and the threads do, the disk sees steps of   *)
(* Deployment only: what is proved of it needs no other part of the        *)
(* program.                                                                *)
THEOREM DeploysOnly == Spec => OnlyDeploys
<1>1. [Next]_vars => [Files!Next]_(Files!vars)
  BY DiskStep DEF Files!Next, Files!vars, Files!disk, deployment
<1> QED
  BY <1>1, PTL DEF Spec, OnlyDeploys
=============================================================================
