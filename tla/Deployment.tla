----------------------------- MODULE Deployment -----------------------------
(***************************************************************************)
(* What the constructor of IntelligenceManager puts on the disk: a root    *)
(* folder for the web pages and one for the model, each extracted from an  *)
(* archive by Utils::ExtractZip if FolderExists finds no such folder.  The *)
(* disk outlives the process; the constructor may stop anywhere, because   *)
(* a call fails and it throws, or because the process dies.                *)
(*                                                                         *)
(* Start and Die belong to the process around it; Lifecycle instantiates   *)
(* this module and gives its own.                                          *)
(***************************************************************************)
EXTENDS Naturals

CONSTANT Entries    \* how many files each archive has


Roots == <<"www", "model">>     \* in the order of the constructor

VARIABLES
    folder,     \* folder[r]: the folder of root r exists
    file,       \* file[r][e]: what is in it of entry e of the archive
    step,       \* where the constructor is
    root,       \* the root it looks at or extracts, by its place in Roots
    entry       \* the entry it extracts

disk == <<folder, file>>
vars == <<disk, step, root, entry>>

Here == Roots[root]

TypeOK ==
    /\ folder \in [{"www", "model"} -> BOOLEAN]
    /\ file \in [{"www", "model"} -> [1 .. Entries -> {"none", "part", "whole"}]]
    /\ step \in {"off", "look", "folder", "open", "write", "python", "ready", "failed"}
    /\ root \in 1 .. 2
    /\ entry \in 1 .. Entries

Off == step = "off" /\ root = 1 /\ entry = 1

Init ==
    /\ folder = [r \in {"www", "model"} |-> FALSE]
    /\ file = [r \in {"www", "model"} |-> [e \in 1 .. Entries |-> "none"]]
    /\ Off

\* The disk after a start in which all went well.
Deployed ==
    /\ folder = [r \in {"www", "model"} |-> TRUE]
    /\ file = [r \in {"www", "model"} |-> [e \in 1 .. Entries |-> "whole"]]
    /\ Off

-----------------------------------------------------------------------------
Enter ==
    /\ step = "off"
    /\ step' = "look"
    /\ UNCHANGED <<disk, root, entry>>

\* The next root, or SetupPythonDependencies after the last.
NextRoot ==
    /\ step' = IF root = 2 THEN "python" ELSE "look"
    /\ root' = IF root = 2 THEN root ELSE root + 1
    /\ entry' = 1

\* Mutant of Look: the root is extracted whether or not it is there.
LookAtNothing ==
    /\ step = "look"
    /\ step' = "folder"
    /\ UNCHANGED <<disk, root, entry>>

\* if (!Utils::FolderExists(webRoot)), and the same for the model.
Look ==
    /\ step = "look"
    /\ \/ folder[Here] /\ NextRoot
       \/ ~folder[Here] /\ step' = "folder" /\ UNCHANGED <<root, entry>>
    /\ UNCHANGED disk

\* create_directories for the entry's path makes the root as well.
MakeFolder ==
    /\ step = "folder"
    /\ folder' = [folder EXCEPT ![Here] = TRUE]
    /\ step' = "open"
    /\ UNCHANGED <<file, root, entry>>

\* The ofstream creates the file, or empties it.
OpenFile ==
    /\ step = "open"
    /\ file' = [file EXCEPT ![Here][entry] = "part"]
    /\ step' = "write"
    /\ UNCHANGED <<folder, root, entry>>

\* zip_fread until it returns nothing, which is also how it reports an error:
\* then the file ends there and extraction goes on.
WriteFile ==
    /\ step = "write"
    /\ \/ file' = [file EXCEPT ![Here][entry] = "whole"]
       \/ UNCHANGED file
    /\ IF entry < Entries
       THEN step' = "folder" /\ entry' = entry + 1 /\ UNCHANGED root
       ELSE NextRoot
    /\ UNCHANGED folder

\* py is missing or its packages cannot be installed, or all is well.
CheckPython ==
    /\ step = "python"
    /\ step' \in {"ready", "failed"}
    /\ UNCHANGED <<disk, root, entry>>

\* The archive or an entry of it does not open, a folder or file cannot be made:
\* ExtractZip returns false or create_directories throws, and so the constructor does.
Fail ==
    /\ step \in {"folder", "open"}
    /\ step' = "failed"
    /\ UNCHANGED <<disk, root, entry>>

Construct == Enter \/ Look \/ MakeFolder \/ OpenFile \/ WriteFile \/ CheckPython \/ Fail

\* The process ends, however it does; the disk stays.
Leave == step' = "off" /\ root' = 1 /\ entry' = 1 /\ UNCHANGED disk

Next == Construct \/ Leave

Spec == Init /\ [][Next]_vars

-----------------------------------------------------------------------------
Whole(r) == folder[r] /\ \A e \in 1 .. Entries : file[r][e] = "whole"

\* A root that was extracted whole is never touched again, however often the program
\* starts and wherever it stops: FolderExists guards CreateWebRoot and CreateModelRoot,
\* whose ofstream would empty the files before it fills them.
WholeStaysWhole == [][\A r \in {"www", "model"} : Whole(r) => Whole(r)']_disk

\* IntelligenceManager.h, line 60: "Check if web root has been created, creat otherwise".
\* When the constructor is done both roots should be there with all their files.
RootsComplete == step = "ready" => \A r \in {"www", "model"} : Whole(r)
=============================================================================
