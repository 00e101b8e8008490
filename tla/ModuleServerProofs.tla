-------------------------- MODULE ModuleServerProofs --------------------------
(***************************************************************************)
(* A Server downloads as Downloader says, whatever its callers do; and a   *)
(* Server that does not force fetches gives consistent answers.            *)
(***************************************************************************)
EXTENDS ModuleServer, DownloaderProofs

Locked     == {"check", "resolve", "callback", "download"}
Reading    == {"stat", "load", "ephemeral", "store", "list"}
Inspecting == Reading \cup {"returned"}

\* One goroutine at a time is between Lock and Unlock; Fetch runs for it.
LockInv ==
  /\ \A p \in Callers : pc[p] \in Locked <=> mu = p
  /\ \A p \in Callers : pc[p] = "download" => fetch # "idle"
  /\ fetch # "idle" => mu \in Callers /\ pc[mu] = "download"

\* Only GetModule and GetSubmodule look at the memo and inspect a directory; nothing
\* is read before the inspection.
OpInv ==
  \A p \in Callers :
    /\ pc[p] \in {"lookup", "stat", "load", "ephemeral", "store"} => op[p] # List
    /\ pc[p] = "list" => op[p] = List
    /\ pc[p] \in {"idle", "lookup", "lock", "stat", "load", "list"} \cup Locked =>
         answer[p] = Blank

\* While no entry is misread, an entry is only downloaded when there is none, so it
\* never changes.
DestInv ==
  /\ backup = NoDir /\ ~haveBackup
  /\ fetch \notin {"idle", "ok"} => dest = NoDir
  /\ fetch = "ok" => dest # NoDir
  /\ \A p \in Callers :
       /\ pc[p] = "resolve" => dest = NoDir
       /\ pc[p] = "callback" => (status[p] = "hit" <=> dest # NoDir)
       /\ pc[p] \in Inspecting => dest # NoDir

\* What a call has read so far is what the entry on disk says,
ReadInv(p) ==
  /\ pc[p] \in {"load", "ephemeral", "store"} => HasDir(op[p])
  /\ pc[p] \in {"ephemeral", "store"} => Promise!Gives(dest, op[p], answer[p])

\* so are the answers
ReturnInv(p) == pc[p] = "returned" => Promise!Gives(dest, op[p], answer[p])

\* and what was remembered.
MemoInv ==
  \A d \in Files : memo[d] # None => dest # NoDir /\ Promise!Gives(dest, d, memo[d])

AnswerInv == MemoInv /\ \A p \in Callers : ReadInv(p) /\ ReturnInv(p)

SInv ==
  /\ ServerTypeOK /\ OpInv /\ LockInv
  /\ ~Forced /\ ~misread => DestInv /\ AnswerInv

-------------------------------------------------------------------------------

\* Every step of the Server is a step of Fetch or leaves Fetch alone.
LEMMA StepFetches == [ServerNext]_vars => [FetchNext]_fvars
<1> SUFFICES ASSUME ServerNext PROVE FetchNext \/ UNCHANGED fvars
  BY DEF vars
<1>1. ASSUME NEW p \in Callers, Call(p) \/ Waiting(p) \/ Moving(p)
      PROVE  FetchNext \/ UNCHANGED fvars
  BY <1>1 DEF Call, Waiting, Lookup, Lock, Store, Moving, Check, Resolve, Callback,
       Fetched, Stat, LoadModule, ephemeralVariables, listSubmoduleDirs, Return,
       FetchNext
<1>2. CASE FetchStep
  BY <1>2 DEF FetchStep, FetchNext
<1>3. CASE Crash
  BY <1>3 DEF Crash, FetchNext
<1> QED BY <1>1, <1>2, <1>3 DEF ServerNext

THEOREM ServerFetches == Spec => FetchSpec
BY StepFetches, PTL DEF Spec, ServerInit, FetchSpec

LEMMA BlankType == Blank \in Answers
BY DEF Blank, Answers

\* What the inspection adds to an answer.
LEMMA AddType ==
  ASSUME NEW a \in Answers, NEW found \in SUBSET Found, NEW told \in BOOLEAN,
         NEW subs \in SUBSET Files
  PROVE  /\ [a EXCEPT !.tf = found, !.diags = told] \in Answers
         /\ [a EXCEPT !.eph = found] \in Answers
         /\ [a EXCEPT !.subs = subs] \in Answers
BY DEF Answers

LEMMA InitSInv == ServerInit => SInv
<1> SUFFICES ASSUME ServerInit PROVE SInv
  OBVIOUS
<1>1. TypeOK
  BY InitIInv DEF ServerInit, IInv
<1> USE RootAssumption, FreeAssumption DEF ServerInit
<1>2. ServerTypeOK
  <2>1. answer \in [Callers -> Answers] /\ readErrors \in 0 .. MaxReadErrors
    BY BlankType, ReadingAssumption
  <2> QED BY <1>1, <2>1 DEF ServerTypeOK, Stages, Ops
<1>3. OpInv /\ LockInv /\ DestInv /\ AnswerInv
  BY DEF FetchInit, OpInv, LockInv, DestInv, AnswerInv, MemoInv, ReadInv, ReturnInv,
         Locked, Reading, Inspecting
<1> QED BY <1>2, <1>3 DEF SInv

\* The steps of Fetch are inside one call of it.
LEMMA WorkInside == Work => fetch \in InFlight /\ fetch' # "idle"
BY DEF Work, MkdirParent, RemovePartial, PartialRemoved, LstatDest, RemoveBackup,
       BackupRemoved, LstatBackup, RestoreBackup, GetStart, Extract, GetDone,
       LstatOld, Park, Publish, Rollback, FsError, OnError, AfterAbort, Goto,
       InFlight, Recovering, Downloading

LEMMA StepOp == ServerTypeOK /\ OpInv /\ [ServerNext]_vars => OpInv'
<1> SUFFICES ASSUME ServerTypeOK, OpInv, [ServerNext]_vars PROVE OpInv'
  OBVIOUS
<1> USE DEF ServerTypeOK, Stages, OpInv, Locked, Move
<1>1. ASSUME NEW p \in Callers, Call(p) \/ Return(p) PROVE OpInv'
  BY <1>1 DEF Call, Return
<1>2. ASSUME NEW p \in Callers, Waiting(p) PROVE OpInv'
  BY <1>2 DEF Waiting, Lookup, Lock, Store
<1>3. ASSUME NEW p \in Callers,
             Check(p) \/ Resolve(p) \/ Callback(p) \/ Fetched(p) PROVE OpInv'
  BY <1>3 DEF Check, Resolve, Callback, Fetched, AfterFetch
<1>4. ASSUME NEW p \in Callers,
             Stat(p) \/ LoadModule(p) \/ ephemeralVariables(p) \/ listSubmoduleDirs(p)
      PROVE  OpInv'
  BY <1>4 DEF Stat, LoadModule, ephemeralVariables, listSubmoduleDirs
<1>5. CASE FetchStep \/ UNCHANGED vars
  BY <1>5 DEF FetchStep, vars, svars
<1>6. CASE Crash
  BY <1>6 DEF Crash
<1> QED BY <1>1, <1>2, <1>3, <1>4, <1>5, <1>6 DEF ServerNext, Moving

LEMMA StepServerType ==
  ServerTypeOK /\ OpInv /\ TypeOK' /\ [ServerNext]_vars => ServerTypeOK'
<1> SUFFICES ASSUME ServerTypeOK, OpInv, TypeOK', [ServerNext]_vars
             PROVE  ServerTypeOK'
  OBVIOUS
<1> USE DEF ServerTypeOK, Stages, Move, ErrorIf, history
<1>1. ASSUME NEW p \in Callers, Call(p) PROVE ServerTypeOK'
  BY <1>1 DEF Call, Ops
<1>2. ASSUME NEW p \in Callers, Lookup(p) PROVE ServerTypeOK'
  BY <1>2 DEF Lookup, OpInv, Ops
<1>3. ASSUME NEW p \in Callers, Lock(p) PROVE ServerTypeOK'
  BY <1>3 DEF Lock
<1>4. ASSUME NEW p \in Callers, Check(p) PROVE ServerTypeOK'
  <2>1. unread' \in BOOLEAN /\ misread' \in BOOLEAN
    BY <1>4 DEF Check
  <2>2. readErrors' \in 0 .. MaxReadErrors
    BY <1>4, ReadingAssumption DEF Check
  <2>3. pc' \in [Callers -> Stages]
        /\ status' \in [Callers -> {"none", "hit", "miss"}]
    BY <1>4 DEF Check
  <2> QED BY <1>4, <2>1, <2>2, <2>3 DEF Check
<1>5. ASSUME NEW p \in Callers, Resolve(p) PROVE ServerTypeOK'
  BY <1>5 DEF Resolve
<1>6. ASSUME NEW p \in Callers, Callback(p) PROVE ServerTypeOK'
  BY <1>6 DEF Callback, AfterFetch
<1>7. ASSUME NEW p \in Callers, Fetched(p) PROVE ServerTypeOK'
  BY <1>7 DEF Fetched, FetchReturn, AfterFetch, TypeOK
<1>8. ASSUME NEW p \in Callers, Stat(p) PROVE ServerTypeOK'
  BY <1>8, ReadingAssumption DEF Stat
<1>9. ASSUME NEW p \in Callers, LoadModule(p) PROVE ServerTypeOK'
  <2>1. PICK found \in SUBSET Read(op[p]) :
          /\ ErrorIf(found # Read(op[p]))
          /\ answer' = [answer EXCEPT ![p] =
                [@ EXCEPT !.tf = found, !.diags = (found # Read(op[p]) \/ ~HasDir(op[p]))]]
    BY <1>9 DEF LoadModule
  <2>2. answer' \in [Callers -> Answers]
    <3> DEFINE told == found # Read(op[p]) \/ ~HasDir(op[p])
               new == [answer[p] EXCEPT !.tf = found, !.diags = told]
    <3>1. found \in SUBSET Found /\ told \in BOOLEAN
      BY <2>1 DEF Read, Found
    <3> HIDE DEF told
    <3>2. new \in Answers
      BY <3>1, AddType
    <3>3. answer' = [answer EXCEPT ![p] = new]
      BY <2>1 DEF told
    <3> HIDE DEF new
    <3> QED BY <3>2, <3>3
  <2>3. readErrors' \in 0 .. MaxReadErrors
    BY <2>1, ReadingAssumption
  <2>4. pc' = [pc EXCEPT ![p] = "ephemeral"]
        /\ UNCHANGED <<fvars, mode, mu, memo, op, status, history>>
    BY <1>9 DEF LoadModule
  <2> HIDE DEF ErrorIf
  <2> QED BY <2>2, <2>3, <2>4
<1>10. ASSUME NEW p \in Callers, ephemeralVariables(p) PROVE ServerTypeOK'
  <2>1. PICK found \in SUBSET Read(op[p]) :
          /\ ErrorIf(found # Read(op[p]))
          /\ answer' = [answer EXCEPT ![p].eph = found]
    BY <1>10 DEF ephemeralVariables
  <2>2. answer' \in [Callers -> Answers]
    <3> DEFINE new == [answer[p] EXCEPT !.eph = found]
    <3>1. found \in SUBSET Found
      BY <2>1 DEF Read, Found
    <3>2. new \in Answers
      BY <3>1, AddType
    <3>3. answer' = [answer EXCEPT ![p] = new]
      BY <2>1
    <3> HIDE DEF new
    <3> QED BY <3>2, <3>3
  <2>3. readErrors' \in 0 .. MaxReadErrors
    BY <2>1, ReadingAssumption
  <2>4. pc' = [pc EXCEPT ![p] = "store"]
        /\ UNCHANGED <<fvars, mode, mu, memo, op, status, history>>
    BY <1>10 DEF ephemeralVariables
  <2> HIDE DEF ErrorIf
  <2> QED BY <2>2, <2>3, <2>4
<1>11. ASSUME NEW p \in Callers, Store(p) PROVE ServerTypeOK'
  BY <1>11 DEF Store
<1>12. ASSUME NEW p \in Callers, listSubmoduleDirs(p) PROVE ServerTypeOK'
  <2>1. CASE \E subs \in SUBSET Submodules : answer' = [answer EXCEPT ![p].subs = subs]
    <3>1. PICK subs \in SUBSET Submodules : answer' = [answer EXCEPT ![p].subs = subs]
      BY <2>1
    <3> DEFINE new == [answer[p] EXCEPT !.subs = subs]
    <3>2. new \in Answers
      BY AddType DEF Submodules
    <3>3. answer' = [answer EXCEPT ![p] = new]
      BY <3>1
    <3> HIDE DEF new
    <3>4. answer' \in [Callers -> Answers]
      BY <3>2, <3>3
    <3>5. readErrors' \in 0 .. MaxReadErrors /\ pc' \in [Callers -> Stages]
      BY <1>12, ReadingAssumption DEF listSubmoduleDirs
    <3> HIDE DEF ErrorIf
    <3>6. UNCHANGED <<fvars, mode, mu, memo, op, status, history>>
      BY <1>12 DEF listSubmoduleDirs
    <3> QED BY <3>4, <3>5, <3>6
  <2>2. CASE UNCHANGED answer
    BY <1>12, <2>2, ReadingAssumption DEF listSubmoduleDirs
  <2> QED BY <1>12, <2>1, <2>2 DEF listSubmoduleDirs
<1>13. ASSUME NEW p \in Callers, Return(p) PROVE ServerTypeOK'
  BY <1>13, RootAssumption, BlankType DEF Return, Ops
<1>14. CASE FetchStep
  BY <1>14 DEF FetchStep, svars
<1>15. CASE Crash
  BY <1>15, RootAssumption, BlankType DEF Crash, Ops
<1>16. CASE UNCHANGED vars
  BY <1>16 DEF vars, svars
<1> QED
  BY <1>1, <1>2, <1>3, <1>4, <1>5, <1>6, <1>7, <1>8, <1>9, <1>10, <1>11, <1>12, <1>13, <1>14, <1>15, <1>16
     DEF ServerNext, Waiting, Moving

LEMMA StepLock ==
  TypeOK /\ ServerTypeOK /\ LockInv /\ [ServerNext]_vars => LockInv'
<1> SUFFICES ASSUME TypeOK, ServerTypeOK, LockInv, [ServerNext]_vars PROVE LockInv'
  OBVIOUS
<1> USE FreeAssumption DEF ServerTypeOK, Stages, LockInv, Locked, Move
<1>1. ASSUME NEW p \in Callers, Call(p) PROVE LockInv'
  BY <1>1 DEF Call, fvars
<1>2. ASSUME NEW p \in Callers, Lookup(p) PROVE LockInv'
  BY <1>2 DEF Lookup, fvars
<1>3. ASSUME NEW p \in Callers, Lock(p) PROVE LockInv'
  BY <1>3 DEF Lock, fvars
<1>4. ASSUME NEW p \in Callers, Check(p) PROVE LockInv'
  BY <1>4 DEF Check, fvars
<1>5. ASSUME NEW p \in Callers, Resolve(p) PROVE LockInv'
  BY <1>5 DEF Resolve, fvars
<1>6. ASSUME NEW p \in Callers, Callback(p) PROVE LockInv'
  BY <1>6 DEF Callback, FetchBegin, AfterFetch, fvars
<1>7. ASSUME NEW p \in Callers, Fetched(p) PROVE LockInv'
  BY <1>7 DEF Fetched, FetchReturn, Goto, AfterFetch
<1>8. ASSUME NEW p \in Callers, Stat(p) PROVE LockInv'
  BY <1>8 DEF Stat, fvars
<1>9. ASSUME NEW p \in Callers, LoadModule(p) PROVE LockInv'
  BY <1>9 DEF LoadModule, fvars
<1>10. ASSUME NEW p \in Callers, ephemeralVariables(p) PROVE LockInv'
  BY <1>10 DEF ephemeralVariables, fvars
<1>11. ASSUME NEW p \in Callers, Store(p) PROVE LockInv'
  BY <1>11 DEF Store, fvars
<1>12. ASSUME NEW p \in Callers, listSubmoduleDirs(p) PROVE LockInv'
  BY <1>12 DEF listSubmoduleDirs, fvars
<1>13. ASSUME NEW p \in Callers, Return(p) PROVE LockInv'
  BY <1>13 DEF Return, fvars
<1>14. CASE FetchStep
  BY <1>14, WorkInside DEF FetchStep, svars, InFlight, Recovering, Downloading
<1>15. CASE Crash
  BY <1>15 DEF Crash, FetchCrash, FetchReturn, Goto, fvars
<1>16. CASE UNCHANGED vars
  BY <1>16 DEF vars, svars, fvars
<1> QED
  BY <1>1, <1>2, <1>3, <1>4, <1>5, <1>6, <1>7, <1>8, <1>9, <1>10, <1>11, <1>12, <1>13, <1>14, <1>15, <1>16
     DEF ServerNext, Waiting, Moving

-------------------------------------------------------------------------------

\* A whole module is a directory with something in it.
LEMMA EntryNonEmpty == DiskInv => (EntryThere <=> dest # NoDir)
<1> SUFFICES ASSUME DiskInv, dest # NoDir PROVE dest # {}
  BY DEF EntryThere
<1>1. PICK c \in Contents : dest = FilesOf[c] \X {c}
  BY DEF DiskInv, Modules, Module
<1>2. PICK f \in FilesOf[c] : TRUE
  BY ArchivesAssumption
<1>3. <<f, c>> \in dest
  BY <1>1, <1>2
<1> QED BY <1>3

\* When there is no entry, Fetch moves nothing aside and publishes once.
LEMMA WorkUnforced ==
  IInv /\ DestInv /\ Work =>
    /\ backup' = NoDir /\ ~haveBackup'
    /\ fetch' \notin {"idle", "ok"} => dest' = NoDir
    /\ fetch' = "ok" => dest' # NoDir
<1> SUFFICES ASSUME IInv, DestInv, Work
             PROVE  /\ backup' = NoDir /\ ~haveBackup'
                    /\ fetch' \notin {"idle", "ok"} => dest' = NoDir
                    /\ fetch' = "ok" => dest' # NoDir
  OBVIOUS
<1> USE DEF IInv, PointInv, DestInv, InFlight, Recovering, Downloading, paths, Goto
<1>1. fetch \in InFlight /\ dest = NoDir
  BY WorkInside
<1>0. fetch # "dropBackup"
  BY <1>1, ModuleFacts
<1>2. CASE MkdirParent \/ RemovePartial \/ PartialRemoved \/ LstatDest \/ LstatBackup
  BY <1>1, <1>2 DEF MkdirParent, RemovePartial, PartialRemoved, AfterAbort,
                    LstatDest, LstatBackup
<1>3. CASE RemoveBackup \/ BackupRemoved \/ RestoreBackup \/ Park \/ Rollback
  BY <1>0, <1>1, <1>3 DEF RemoveBackup, BackupRemoved, RestoreBackup, Park, Rollback, Movable
<1>4. CASE GetStart \/ Extract \/ GetDone \/ LstatOld
  BY <1>1, <1>4 DEF GetStart, Extract, GetDone, LstatOld
<1>5. CASE Publish
  BY <1>1, <1>5, ModuleFacts DEF Publish
<1>6. CASE FsError
  BY <1>0, <1>1, <1>6 DEF FsError, OnError, AfterAbort
<1> QED BY <1>2, <1>3, <1>4, <1>5, <1>6 DEF Work

LEMMA StepDest ==
  (/\ ~Forced /\ IInv /\ ServerTypeOK /\ OpInv /\ LockInv /\ DestInv /\ AnswerInv
   /\ [ServerNext]_vars /\ ~misread')
     => DestInv'
<1> SUFFICES ASSUME ~Forced, IInv, ServerTypeOK, OpInv, LockInv, DestInv, AnswerInv,
                    [ServerNext]_vars, ~misread'
             PROVE  DestInv'
  OBVIOUS
<1>0. EntryThere <=> dest # NoDir
  BY EntryNonEmpty DEF IInv
<1> USE FreeAssumption DEF ServerTypeOK, Stages, LockInv, DestInv, Locked, Reading, Inspecting, Move
<1>1. ASSUME NEW p \in Callers, Call(p) PROVE DestInv'
  BY <1>1 DEF Call, fvars
<1>2. ASSUME NEW p \in Callers, Lookup(p) PROVE DestInv'
  BY <1>2 DEF Lookup, OpInv, AnswerInv, MemoInv, Ops, fvars
<1>3. ASSUME NEW p \in Callers, Lock(p) PROVE DestInv'
  BY <1>3 DEF Lock, fvars
<1>4. ASSUME NEW p \in Callers, Check(p) PROVE DestInv'
  BY <1>0, <1>4 DEF Check, cacheDirExistsNonEmpty, fvars
<1>5. ASSUME NEW p \in Callers, Resolve(p) PROVE DestInv'
  BY <1>5 DEF Resolve, fvars
<1>6. ASSUME NEW p \in Callers, Callback(p) PROVE DestInv'
  BY <1>6 DEF Callback, FetchBegin, AfterFetch, paths, fvars
<1>7. ASSUME NEW p \in Callers, Fetched(p) PROVE DestInv'
  BY <1>7 DEF Fetched, FetchReturn, Goto, AfterFetch, paths
<1>8. ASSUME NEW p \in Callers, Stat(p) PROVE DestInv'
  BY <1>8 DEF Stat, HasDir, fvars
<1>9. ASSUME NEW p \in Callers, LoadModule(p) PROVE DestInv'
  BY <1>9 DEF LoadModule, fvars
<1>10. ASSUME NEW p \in Callers, ephemeralVariables(p) PROVE DestInv'
  BY <1>10 DEF ephemeralVariables, fvars
<1>11. ASSUME NEW p \in Callers, Store(p) PROVE DestInv'
  BY <1>11 DEF Store, fvars
<1>12. ASSUME NEW p \in Callers, listSubmoduleDirs(p) PROVE DestInv'
  BY <1>12 DEF listSubmoduleDirs, fvars
<1>13. ASSUME NEW p \in Callers, Return(p) PROVE DestInv'
  BY <1>13 DEF Return, fvars
<1>14. CASE FetchStep
  BY <1>14, WorkInside, WorkUnforced
     DEF FetchStep, svars, InFlight, Recovering, Downloading
<1>15. CASE Crash
  BY <1>15 DEF Crash, FetchCrash, FetchReturn, Goto, paths, fvars
<1>16. CASE UNCHANGED vars
  BY <1>16 DEF vars, svars, fvars
<1> QED
  BY <1>1, <1>2, <1>3, <1>4, <1>5, <1>6, <1>7, <1>8, <1>9, <1>10, <1>11, <1>12, <1>13, <1>14, <1>15, <1>16
     DEF ServerNext, Waiting, Moving

-------------------------------------------------------------------------------
(* What a call reads is what the entry on disk says of the module.         *)

\* As long as dest stays, what it gives to a reader stays.
LEMMA ReadStays ==
  UNCHANGED dest => /\ \A x : Read(x)' = Read(x)
                    /\ \A x : HasDir(x)' <=> HasDir(x)
                    /\ Submodules' = Submodules
<1> SUFFICES ASSUME UNCHANGED dest
             PROVE  /\ \A x : Read(x)' = Read(x)
                    /\ \A x : HasDir(x)' <=> HasDir(x)
                    /\ Submodules' = Submodules
  OBVIOUS
<1>1. \A x : Read(x)' = Read(x)
  BY DEF Read
<1> QED BY <1>1 DEF HasDir, Submodules

\* A reader of the directory d finds in an entry the part of d, and finds the
\* directories it has.
LEMMA ReadIsPart ==
  ASSUME DiskInv, dest # NoDir
  PROVE  /\ \A d : Read(d) = Promise!Part(dest, d)
         /\ \A d \in Files : HasDir(d) <=> d \in Promise!Dirs(dest) \cup {Root}
         /\ Submodules = Promise!Dirs(dest) \ {Root}
<1>1. PICK c \in Contents : dest = Module(c)
  BY DEF DiskInv, Modules
<1>2. \A d : Read(d) = Promise!Part(dest, d)
  BY <1>1 DEF Read, Promise!Part, Module
<1>3. \A d \in Files : d \in Promise!Dirs(dest) <=> Read(d) # {}
  BY <1>2 DEF Promise!Dirs
<1>4. \A d : d \in Promise!Dirs(dest) => d \in Files
  BY DEF Promise!Dirs
<1> HIDE DEF Read
<1>5. Submodules = Promise!Dirs(dest) \ {Root}
  BY <1>3, <1>4 DEF Submodules
<1>6. \A d \in Files : HasDir(d) <=> d \in Promise!Dirs(dest) \cup {Root}
  BY <1>3 DEF HasDir
<1> QED BY <1>2, <1>5, <1>6

\* What LoadModule, ephemeralVariables and listSubmoduleDirs make of the answer is one
\* the entry gives.
LEMMA InspectionGives ==
  ASSUME DiskInv, NEW o \in Files, HasDir(o), NEW found \in SUBSET Read(o)
  PROVE  /\ Promise!Gives(dest, o,
              [Blank EXCEPT !.tf = found, !.diags = (found # Read(o) \/ ~HasDir(o))])
         /\ \A a \in Answers : Promise!Gives(dest, o, a) =>
              Promise!Gives(dest, o, [a EXCEPT !.eph = found])
<1>1. Read(o) = Promise!Part(dest, o) /\ o \in Promise!Dirs(dest) \cup {Root} /\ o # List
  BY ReadIsPart, RootAssumption DEF HasDir
<1> DEFINE told == found # Read(o) \/ ~HasDir(o)
           b == [Blank EXCEPT !.tf = found, !.diags = told]
<1>2. Promise!Gives(dest, o, b)
  <2>1. b.tf = found /\ b.diags = told /\ b.eph = {} /\ b.subs = {}
    BY DEF Blank
  <2>2. found = Promise!Part(dest, o) \/ told
    BY <1>1
  <2> HIDE DEF b, told
  <2> QED BY <1>1, <2>1, <2>2 DEF Promise!Gives
<1>3. ASSUME NEW a \in Answers, Promise!Gives(dest, o, a)
      PROVE  Promise!Gives(dest, o, [a EXCEPT !.eph = found])
  <2> DEFINE e == [a EXCEPT !.eph = found]
  <2>1. e.tf = a.tf /\ e.diags = a.diags /\ e.eph = found /\ e.subs = a.subs
    BY DEF Answers
  <2> HIDE DEF e
  <2>2. Promise!Gives(dest, o, e)
    BY <1>1, <1>3, <2>1 DEF Promise!Gives
  <2> QED BY <2>2 DEF e
<1> QED BY <1>2, <1>3

LEMMA ListGives ==
  ASSUME DiskInv, NEW subs \in SUBSET Submodules
  PROVE  Promise!Gives(dest, List, [Blank EXCEPT !.subs = subs])
<1> DEFINE b == [Blank EXCEPT !.subs = subs]
<1>1. b.tf = {} /\ b.eph = {} /\ b.subs = subs
  BY DEF Blank
<1>2. subs \subseteq Promise!Dirs(dest) \ {Root}
  <2>1. CASE dest # NoDir
    BY <2>1, ReadIsPart
  <2>2. CASE dest = NoDir
    BY <2>2 DEF Submodules, Read
  <2> QED BY <2>1, <2>2
<1> HIDE DEF b
<1>3. Promise!Gives(dest, List, b)
  BY <1>1, <1>2 DEF Promise!Gives
<1> QED BY <1>3 DEF b

\* A step of the caller p that leaves the entry alone keeps to what the entry says; an
\* answer it returns is remembered or read from the entry.
LEMMA CallerReads ==
  ASSUME DiskInv, ServerTypeOK, OpInv, NEW p \in Callers, ReadInv(p), UNCHANGED dest,
         Call(p) \/ Waiting(p) \/ Moving(p)
  PROVE  /\ ReadInv(p)'
         /\ pc'[p] = "returned" =>
              \/ /\ Lookup(p) /\ UNCHANGED op /\ op[p] \in Files
                 /\ memo[op[p]] # None /\ answer'[p] = memo[op[p]]
              \/ pc[p] \in Reading /\ UNCHANGED op /\ Promise!Gives(dest, op[p], answer'[p])
<1> USE ReadStays DEF ServerTypeOK, Stages, OpInv, ReadInv, Reading, Locked, Move
<1>1. CASE Call(p) \/ Return(p) \/ Lock(p) \/ Check(p) \/ Resolve(p)
  BY <1>1 DEF Call, Return, Lock, Check, Resolve
<1>2. CASE Callback(p) \/ Fetched(p)
  BY <1>2 DEF Callback, Fetched, AfterFetch
<1>3. CASE Lookup(p)
  BY <1>3 DEF Lookup, Ops
<1>4. CASE Stat(p)
  BY <1>4 DEF Stat
<1>5. CASE LoadModule(p)
  <2>1. pc[p] = "load" /\ pc'[p] = "ephemeral" /\ UNCHANGED op /\ op[p] \in Files
    BY <1>5 DEF LoadModule, Ops
  <2>2. HasDir(op[p]) /\ answer[p] = Blank
    BY <2>1
  <2>3. PICK found \in SUBSET Read(op[p]) :
          answer' = [answer EXCEPT ![p] =
            [@ EXCEPT !.tf = found, !.diags = (found # Read(op[p]) \/ ~HasDir(op[p]))]]
    BY <1>5 DEF LoadModule
  <2> HIDE DEF Blank, Read, HasDir
  <2> DEFINE new == [Blank EXCEPT !.tf = found,
                                  !.diags = (found # Read(op[p]) \/ ~HasDir(op[p]))]
  <2>4. answer'[p] = new
    BY <2>2, <2>3
  <2>5. Promise!Gives(dest, op[p], new)
    BY <2>1, <2>2, InspectionGives
  <2> HIDE DEF new
  <2> QED BY <2>1, <2>2, <2>4, <2>5
<1>6. CASE ephemeralVariables(p)
  <2>1. pc[p] = "ephemeral" /\ pc'[p] = "store" /\ UNCHANGED op /\ op[p] \in Files
    BY <1>6 DEF ephemeralVariables, Ops
  <2>2. HasDir(op[p]) /\ Promise!Gives(dest, op[p], answer[p]) /\ answer[p] \in Answers
    BY <2>1
  <2>3. PICK found \in SUBSET Read(op[p]) : answer' = [answer EXCEPT ![p].eph = found]
    BY <1>6 DEF ephemeralVariables
  <2> DEFINE new == [answer[p] EXCEPT !.eph = found]
  <2>4. answer'[p] = new
    BY <2>3
  <2>5. Promise!Gives(dest, op[p], new)
    BY <2>1, <2>2, InspectionGives
  <2> HIDE DEF new
  <2> QED BY <2>1, <2>2, <2>4, <2>5
<1>7. CASE Store(p)
  BY <1>7 DEF Store
<1>8. CASE listSubmoduleDirs(p)
  <2>1. pc[p] = "list" /\ op[p] = List /\ UNCHANGED op /\ answer[p] = Blank
    BY <1>8 DEF listSubmoduleDirs
  <2>2. CASE pc'[p] = "returned"
    <3>1. PICK subs \in SUBSET Submodules : answer' = [answer EXCEPT ![p].subs = subs]
      BY <1>8, <2>2 DEF listSubmoduleDirs
    <3> DEFINE new == [Blank EXCEPT !.subs = subs]
    <3>2. answer'[p] = new
      BY <2>1, <3>1
    <3>3. Promise!Gives(dest, List, new)
      BY ListGives
    <3> HIDE DEF new
    <3> QED BY <2>1, <2>2, <3>2, <3>3
  <2>3. CASE pc'[p] = "uninspected"
    BY <2>3
  <2> QED BY <1>8, <2>2, <2>3 DEF listSubmoduleDirs
<1> QED BY <1>1, <1>2, <1>3, <1>4, <1>5, <1>6, <1>7, <1>8 DEF Waiting, Moving

\* A caller's step is its own.
LEMMA CallersApart ==
  ASSUME ServerTypeOK, NEW p \in Callers, Call(p) \/ Waiting(p) \/ Moving(p)
  PROVE  /\ UNCHANGED dest
         /\ ~Store(p) => UNCHANGED memo
         /\ \A q \in Callers \ {p} : UNCHANGED <<pc[q], op[q], answer[q], own[q]>>
<1> USE DEF ServerTypeOK, Stages, Move, history
<1>1. UNCHANGED dest /\ (~Store(p) => UNCHANGED memo)
  BY DEF Waiting, Moving, Call, Lookup, Lock, Store, Check, Resolve, Callback, Fetched,
         Stat, LoadModule, ephemeralVariables, listSubmoduleDirs, Return, FetchBegin,
         FetchReturn, paths, fvars
<1>2. ASSUME NEW q \in Callers \ {p}
      PROVE  UNCHANGED <<pc[q], op[q], answer[q], own[q]>>
  <2>1. CASE Call(p) \/ Waiting(p) \/ Return(p)
    BY <2>1 DEF Call, Waiting, Lookup, Lock, Store, Return
  <2>2. CASE Check(p) \/ Resolve(p) \/ Callback(p) \/ Fetched(p) \/ Stat(p)
    BY <2>2 DEF Check, Resolve, Callback, Fetched, Stat
  <2>3. CASE LoadModule(p) \/ ephemeralVariables(p) \/ listSubmoduleDirs(p)
    BY <2>3 DEF LoadModule, ephemeralVariables, listSubmoduleDirs
  <2> QED BY <2>1, <2>2, <2>3 DEF Moving
<1> QED BY <1>1, <1>2

\* A step that leaves the entry and a caller alone keeps what is said of the caller.
LEMMA OthersStay ==
  ASSUME UNCHANGED dest, NEW q, UNCHANGED <<pc[q], op[q], answer[q]>>
  PROVE  (ReadInv(q) => ReadInv(q)') /\ (ReturnInv(q) => ReturnInv(q)')
BY ReadStays DEF ReadInv, ReturnInv

LEMMA StepAnswer ==
  (/\ IInv /\ ServerTypeOK /\ OpInv /\ LockInv /\ DestInv /\ AnswerInv
   /\ [ServerNext]_vars)
     => AnswerInv'
<1> SUFFICES ASSUME IInv, ServerTypeOK, OpInv, LockInv, DestInv, AnswerInv,
                    [ServerNext]_vars
             PROVE  AnswerInv'
  OBVIOUS
<1>1. ASSUME NEW p \in Callers, Call(p) \/ Waiting(p) \/ Moving(p)
      PROVE  AnswerInv'
  <2>1. /\ UNCHANGED dest
        /\ ~Store(p) => UNCHANGED memo
        /\ \A q \in Callers \ {p} : UNCHANGED <<pc[q], op[q], answer[q]>>
    BY <1>1, CallersApart
  <2>2. MemoInv'
    <3>1. CASE Store(p)
      <4>1. op[p] \in Files /\ Promise!Gives(dest, op[p], answer[p]) /\ dest # NoDir
        BY <3>1
           DEF Store, Move, DestInv, Inspecting, Reading, ServerTypeOK, OpInv, Ops,
               AnswerInv, ReadInv
      <4>2. memo' = [memo EXCEPT ![op[p]] = answer[p]]
        BY <3>1 DEF Store
      <4> QED BY <2>1, <4>1, <4>2 DEF AnswerInv, MemoInv, ServerTypeOK
    <3>2. CASE ~Store(p)
      BY <2>1, <3>2 DEF AnswerInv, MemoInv
    <3> QED BY <3>1, <3>2
  <2>3. ASSUME NEW q \in Callers \ {p} PROVE (ReadInv(q) /\ ReturnInv(q))'
    BY <2>1, OthersStay DEF AnswerInv
  <2>4. (ReadInv(p) /\ ReturnInv(p))'
    <3>1. ReadInv(p) /\ DiskInv
      BY DEF AnswerInv, IInv
    <3>2. /\ ReadInv(p)'
          /\ pc'[p] = "returned" =>
               \/ /\ Lookup(p) /\ UNCHANGED op /\ op[p] \in Files
                  /\ memo[op[p]] # None /\ answer'[p] = memo[op[p]]
               \/ UNCHANGED op /\ Promise!Gives(dest, op[p], answer'[p])
      BY <1>1, <2>1, <3>1, CallerReads
    <3>3. pc'[p] = "returned" => UNCHANGED op /\ Promise!Gives(dest, op[p], answer'[p])
      BY <3>2 DEF AnswerInv, MemoInv
    <3> QED BY <2>1, <3>2, <3>3 DEF ReturnInv
  <2> QED BY <2>2, <2>3, <2>4 DEF AnswerInv
<1>2. CASE FetchStep
  <2>1. fetch \notin {"idle", "ok"} /\ UNCHANGED <<pc, memo, op, answer>>
    BY <1>2, WorkInside DEF FetchStep, InFlight, Recovering, Downloading
  <2>2. dest = NoDir
    BY <2>1 DEF DestInv
  <2>3. MemoInv'
    BY <2>1, <2>2 DEF AnswerInv, MemoInv
  <2>4. ASSUME NEW p \in Callers PROVE (ReadInv(p) /\ ReturnInv(p))'
    BY <2>1, <2>2, <2>4 DEF ReadInv, ReturnInv, DestInv, Inspecting, Reading
  <2> QED BY <2>3, <2>4 DEF AnswerInv
<1>3. CASE Crash
  BY <1>3 DEF Crash, AnswerInv, MemoInv, ReadInv, ReturnInv
<1>4. CASE UNCHANGED vars
  <2>1. UNCHANGED <<dest, memo, pc, op, answer>>
    BY <1>4 DEF vars, svars, fvars
  <2>2. MemoInv'
    BY <2>1 DEF AnswerInv, MemoInv
  <2>3. ASSUME NEW p \in Callers PROVE (ReadInv(p) /\ ReturnInv(p))'
    BY <2>1, OthersStay DEF AnswerInv
  <2> QED BY <2>2, <2>3 DEF AnswerInv
<1> QED BY <1>1, <1>2, <1>3, <1>4 DEF ServerNext

-------------------------------------------------------------------------------

LEMMA ServerInductive == Spec => [](IInv /\ SInv)
<1>1. ServerInit => IInv /\ SInv
  BY InitSInv, InitIInv DEF ServerInit
<1>2. IInv /\ SInv /\ [ServerNext]_vars => (IInv /\ SInv)'
  <2> SUFFICES ASSUME IInv, SInv, [ServerNext]_vars PROVE (IInv /\ SInv)'
    OBVIOUS
  <2>1. IInv'
    BY StepFetches, StepIInv
  <2>2. OpInv' /\ LockInv' /\ ServerTypeOK'
    BY <2>1, StepOp, StepLock, StepServerType DEF SInv, IInv
  <2>3. ~misread' => ~misread
    BY DEF ServerNext, Waiting, Moving, Call, Lookup, Lock, Store, Check, Resolve,
           Callback, Fetched, Stat, LoadModule, ephemeralVariables, listSubmoduleDirs,
           Return, FetchStep, Crash, vars, svars, history
  <2>4. ~Forced /\ ~misread' => DestInv' /\ AnswerInv'
    BY <2>3, StepDest, StepAnswer DEF SInv
  <2> QED BY <2>1, <2>2, <2>4 DEF SInv
<1> QED BY <1>1, <1>2, PTL DEF Spec

\* The type invariant holds for any number of callers.
THEOREM ServerTypeCorrect == Spec => []ServerTypeOK
<1>1. SInv => ServerTypeOK
  BY DEF SInv
<1> QED BY <1>1, ServerInductive, PTL

\* The Server maintains one cache entry that is never torn and never lost, with
\* or without forced fetches, whatever its callers do and wherever it crashes.
THEOREM ServerKeepsLastGood == Spec => KeepsLastGood
BY ServerFetches, FetchKeepsLastGood, PTL

\* A Server that does not force fetches gives all its callers answers that come
\* from one archive, but for what could not be read, until an entry is misread.
THEOREM ServerAnswersConsistently == ~Forced => (Spec => []AnswersConsistent)
<1> SUFFICES ASSUME ~Forced PROVE Spec => []AnswersConsistent
  OBVIOUS
<1>1. IInv /\ SInv => AnswersConsistent
  <2> SUFFICES ASSUME IInv, SInv, ~misread
               PROVE  \E c \in Contents : \A p \in Callers :
                        pc[p] = "returned" => Promise!Gives(Module(c), op[p], answer[p])
    BY DEF AnswersConsistent
  <2>1. CASE \A p \in Callers : pc[p] # "returned"
    BY <2>1, ArchivesAssumption
  <2>2. CASE \E p \in Callers : pc[p] = "returned"
    <3>1. PICK c \in Contents : dest = Module(c)
      BY <2>2 DEF SInv, DestInv, Inspecting, IInv, DiskInv, Modules
    <3> QED BY <3>1 DEF SInv, AnswerInv, ReturnInv
  <2> QED BY <2>1, <2>2
<1> QED BY <1>1, ServerInductive, PTL

\* Its memo never says anything else than the entry on disk.
THEOREM ServerRemembersDisk == ~Forced => (Spec => []MemoIsDisk)
<1> SUFFICES ASSUME ~Forced PROVE Spec => []MemoIsDisk
  OBVIOUS
<1>1. IInv /\ SInv => MemoIsDisk
  BY DEF SInv, AnswerInv, MemoInv, IInv, DiskInv, MemoIsDisk
<1> QED BY <1>1, ServerInductive, PTL

\* The directory its callers inspect without the mutex is there.
THEOREM ServerKeepsAvailable == ~Forced => (Spec => []AvailableOnDisk)
<1> SUFFICES ASSUME ~Forced PROVE Spec => []AvailableOnDisk
  OBVIOUS
<1>1. IInv /\ SInv => AvailableOnDisk
  BY EntryNonEmpty DEF IInv, SInv, DestInv, Inspecting, Reading, AvailableOnDisk
<1> QED BY <1>1, ServerInductive, PTL

-------------------------------------------------------------------------------
(* The mutex: what its holder has seen, and that it is given back.         *)

\* Who is about to download has seen no entry, or could not read the one there is; as
\* long as it holds the mutex that remains so.
LookInv ==
  \A p \in Callers :
    (/\ pc[p] = "resolve" \/ (pc[p] = "callback" /\ status[p] = "miss")
     /\ EntryThere) => unread

LEMMA StepLook ==
  ~Forced /\ SInv /\ LookInv /\ [ServerNext]_vars => LookInv'
<1> SUFFICES ASSUME ~Forced, SInv, LookInv, [ServerNext]_vars PROVE LookInv'
  OBVIOUS
<1> USE DEF SInv, ServerTypeOK, Stages, LockInv, Locked, LookInv, Move
<1>1. ASSUME NEW p \in Callers, Call(p) \/ Waiting(p) \/ Moving(p) PROVE LookInv'
  <2>1. EntryThere' <=> EntryThere
    BY <1>1, CallersApart DEF EntryThere
  <2> HIDE DEF EntryThere
  <2>2. CASE Call(p) \/ Waiting(p) \/ Return(p)
    BY <2>1, <2>2 DEF Call, Waiting, Lookup, Lock, Store, Return, history
  <2>3. CASE Check(p)
    BY <2>1, <2>3 DEF Check, cacheDirExistsNonEmpty
  <2>4. CASE Resolve(p) \/ Callback(p) \/ Fetched(p)
    BY <2>1, <2>4 DEF Resolve, Callback, Fetched, AfterFetch
  <2>5. CASE Stat(p) \/ LoadModule(p) \/ ephemeralVariables(p) \/ listSubmoduleDirs(p)
    BY <2>1, <2>5 DEF Stat, LoadModule, ephemeralVariables, listSubmoduleDirs, history
  <2> QED BY <1>1, <2>2, <2>3, <2>4, <2>5 DEF Moving
<1>2. CASE FetchStep
  BY <1>2, WorkInside DEF FetchStep, InFlight, Recovering, Downloading
<1>3. CASE Crash
  BY <1>3 DEF Crash
<1>4. CASE UNCHANGED vars
  BY <1>4 DEF vars, svars, fvars, history, EntryThere
<1> QED BY <1>1, <1>2, <1>3, <1>4 DEF ServerNext

\* It never downloads an entry that is there and could be read, however its callers
\* interleave, whatever has been misread before.
THEOREM ServerDownloadsOnce == ~Forced => (Spec => DownloadsOnce)
<1> SUFFICES ASSUME ~Forced PROVE Spec => DownloadsOnce
  OBVIOUS
<1>1. ServerInit => LookInv
  BY DEF ServerInit, LookInv
<1>2. SInv /\ LookInv /\ [ServerNext]_vars => LookInv'
  BY StepLook
<1>3. SInv /\ LookInv /\ [ServerNext]_vars =>
        [fetch = "idle" /\ fetch' = "mkdirParent" /\ EntryThere => unread]_vars
  <2> SUFFICES ASSUME SInv, LookInv, ServerNext, fetch = "idle", fetch' = "mkdirParent",
                      EntryThere
               PROVE  unread
    OBVIOUS
  <2>1. ASSUME NEW p \in Callers, Callback(p) PROVE unread
    BY <2>1 DEF Callback, Move, fvars, LookInv
  <2>2. ASSUME NEW p \in Callers, Call(p) \/ Waiting(p) \/ Moving(p), ~Callback(p)
        PROVE  FALSE
    BY <2>2 DEF Call, Waiting, Lookup, Lock, Store, Moving, Check, Resolve, Fetched,
         FetchReturn, Stat, LoadModule, ephemeralVariables, listSubmoduleDirs, Return,
         fvars
  <2>3. CASE FetchStep
    BY <2>3, WorkInside DEF FetchStep, InFlight, Recovering, Downloading
  <2>4. CASE Crash
    BY <2>4 DEF Crash, FetchCrash, FetchReturn, fvars
  <2> QED BY <2>1, <2>2, <2>3, <2>4 DEF ServerNext
<1> QED BY <1>1, <1>2, <1>3, ServerInductive, PTL DEF Spec, DownloadsOnce

\* Who holds the mutex is at a point where it waits for nobody: it looks at the disk,
\* has asked the registry, runs the callback, or has Fetch at work for it.
HolderMoves ==
  mu # Free =>
    \/ pc[mu] \in {"check", "resolve"}
    \/ pc[mu] = "callback" /\ status[mu] = "hit"
    \/ pc[mu] = "callback" /\ status[mu] = "miss" /\ fetch = "idle"
    \/ pc[mu] = "download" /\ fetch # "idle"

ToldInv == \A p \in Callers : pc[p] = "callback" => status[p] \in {"hit", "miss"}

\* No way out of the critical section, by success, a failing registry or a failing
\* download, leaves the mutex taken: there is always somebody at work who will give it
\* back (server.go:303-332, 334-341), for any number of callers, forcing or not.
THEOREM MutexIsGivenBack == Spec => []HolderMoves
<1>1. ServerInit => ToldInv
  BY DEF ServerInit, ToldInv
<1>2. ServerTypeOK /\ ToldInv /\ [ServerNext]_vars => ToldInv'
  <2> SUFFICES ASSUME ServerTypeOK, ToldInv, [ServerNext]_vars PROVE ToldInv'
    OBVIOUS
  <2> USE DEF ServerTypeOK, Stages, ToldInv, Move
  <2>1. ASSUME NEW p \in Callers, Call(p) \/ Waiting(p) PROVE ToldInv'
    BY <2>1 DEF Call, Waiting, Lookup, Lock, Store
  <2>2. ASSUME NEW p \in Callers, Check(p) \/ Resolve(p) PROVE ToldInv'
    BY <2>2 DEF Check, Resolve
  <2>3. ASSUME NEW p \in Callers, Moving(p), ~Check(p), ~Resolve(p) PROVE ToldInv'
    BY <2>3
       DEF Moving, Callback, AfterFetch, Fetched, Stat, LoadModule, ephemeralVariables,
           listSubmoduleDirs, Return
  <2>4. CASE FetchStep \/ Crash \/ UNCHANGED vars
    BY <2>4 DEF FetchStep, Crash, vars, svars
  <2> QED BY <2>1, <2>2, <2>3, <2>4 DEF ServerNext
<1>3. SInv /\ ToldInv => HolderMoves
  BY DEF SInv, ServerTypeOK, Stages, LockInv, Locked, ToldInv, HolderMoves
<1>4. SInv => ServerTypeOK
  BY DEF SInv
<1>5. Spec => []ToldInv
  BY <1>1, <1>2, <1>4, ServerInductive, PTL DEF Spec
<1> QED BY <1>3, <1>5, ServerInductive, PTL

-------------------------------------------------------------------------------
(* What a call downloaded is what it answers from.                         *)

\* As long as nobody touches the entry, a call that downloaded finds in it what it
\* downloaded; once it has returned, its answer remains one of that archive.
OwnInv ==
  \A p \in Callers : own[p] # None =>
    /\ pc[p] \in Inspecting \cup {"uninspected"}
    /\ pc[p] \in Reading => dest = Module(own[p]) /\ ReadInv(p)
    /\ pc[p] = "returned" => Promise!Gives(Module(own[p]), op[p], answer[p])

LEMMA StepOwn ==
  IInv /\ SInv /\ OwnInv /\ [ServerNext]_vars => OwnInv'
<1> SUFFICES ASSUME IInv, SInv, OwnInv, [ServerNext]_vars PROVE OwnInv'
  OBVIOUS
<1>0. ServerTypeOK /\ OpInv /\ DiskInv
  BY DEF SInv, IInv
<1>1. ASSUME NEW p \in Callers, Call(p) \/ Waiting(p) \/ Moving(p) PROVE OwnInv'
  <2>1. /\ UNCHANGED dest
        /\ \A q \in Callers \ {p} : UNCHANGED <<pc[q], op[q], answer[q], own[q]>>
    BY <1>0, <1>1, CallersApart
  <2>2. ASSUME NEW q \in Callers \ {p}, own'[q] # None
        PROVE  /\ pc'[q] \in Inspecting \cup {"uninspected"}
               /\ pc'[q] \in Reading => dest' = Module(own'[q]) /\ ReadInv(q)'
               /\ pc'[q] = "returned" =>
                    Promise!Gives(Module(own'[q]), op'[q], answer'[q])
    BY <2>1, <2>2, OthersStay DEF OwnInv
  <2>3. ASSUME own'[p] # None
        PROVE  /\ pc'[p] \in Inspecting \cup {"uninspected"}
               /\ pc'[p] \in Reading => dest' = Module(own'[p]) /\ ReadInv(p)'
               /\ pc'[p] = "returned" =>
                    Promise!Gives(Module(own'[p]), op'[p], answer'[p])
    <3>1. CASE Fetched(p)
      <4>1. fetch = "ok" => dest = Module(got)
        BY DEF IInv, PointInv
      <4>2. fetch = "ok" /\ own'[p] = got /\ pc'[p] \in {"stat", "list"}
        BY <1>0, <2>3, <3>1
           DEF Fetched, Move, AfterFetch, ServerTypeOK, OwnInv, Inspecting, Reading
      <4> QED BY <2>1, <4>1, <4>2 DEF Inspecting, Reading, ReadInv
    <3>2. CASE ~Fetched(p)
      <4>1. own'[p] = own[p] /\ ~Return(p)
        BY <1>0, <1>1, <2>3, <3>2
           DEF Waiting, Moving, Call, Lookup, Lock, Store, Check, Resolve, Callback, Stat,
               LoadModule, ephemeralVariables, listSubmoduleDirs, Return, ServerTypeOK,
               history
      <4>2. pc[p] \in Reading /\ pc'[p] \in Inspecting \cup {"uninspected"}
        <5>1. pc[p] \in Inspecting \cup {"uninspected"}
          BY <2>3, <4>1 DEF OwnInv
        <5> QED
          BY <1>0, <1>1, <3>2, <4>1, <5>1
             DEF Waiting, Moving, Call, Lookup, Lock, Store, Check, Resolve, Callback,
                 Stat, LoadModule, ephemeralVariables, listSubmoduleDirs, Move,
                 Inspecting, Reading, ServerTypeOK
      <4>3. dest = Module(own[p]) /\ ReadInv(p)
        BY <2>3, <4>1, <4>2 DEF OwnInv
      <4>4. /\ ReadInv(p)'
            /\ pc'[p] = "returned" =>
                 \/ Lookup(p)
                 \/ UNCHANGED op /\ Promise!Gives(dest, op[p], answer'[p])
        BY <1>0, <1>1, <2>1, <4>3, CallerReads
      <4>5. ~Lookup(p)
        BY <4>2 DEF Lookup, Reading
      <4> QED BY <2>1, <4>1, <4>2, <4>3, <4>4, <4>5
    <3> QED BY <3>1, <3>2
  <2> QED BY <2>2, <2>3 DEF OwnInv
<1>2. CASE FetchStep
  <2>1. UNCHANGED <<pc, op, answer>>
    BY <1>2 DEF FetchStep
  <2>2. ASSUME NEW q \in Callers, own'[q] # None
        PROVE  own'[q] = own[q] /\ (dest' = dest \/ pc[q] = "returned")
    BY <1>2, <2>2 DEF FetchStep
  <2> QED BY <2>1, <2>2, OthersStay DEF OwnInv, Reading
<1>3. CASE Crash
  BY <1>3 DEF Crash, OwnInv
<1>4. CASE UNCHANGED vars
  <2>1. UNCHANGED <<dest, pc, op, answer, own>>
    BY <1>4 DEF vars, svars, fvars, history, paths
  <2> QED BY <2>1, OthersStay DEF OwnInv
<1> QED BY <1>1, <1>2, <1>3, <1>4 DEF ServerNext

\* For any number of goroutines, with forced fetches or without, an answer to a call
\* that downloaded is one of what it downloaded, unless another goroutine's Fetch has
\* touched the entry in the meantime.
THEOREM ServerAnswersFromOwn == Spec => []OwnDownload
<1>1. ServerInit => OwnInv
  BY DEF ServerInit, OwnInv
<1>2. OwnInv => OwnDownload
  BY DEF OwnInv, OwnDownload
<1> QED BY <1>1, <1>2, StepOwn, ServerInductive, PTL DEF Spec

Alone == \A p, q \in Callers : p = q

\* Whoever goes on to inspect the entry has it there.
AloneInv ==
  \A p \in Callers :
    (\/ pc[p] = "callback" /\ status[p] = "hit"
     \/ pc[p] \in {"stat", "load", "ephemeral", "list"}) => EntryThere

LEMMA StepAlone ==
  Alone /\ IInv /\ SInv /\ AloneInv /\ [ServerNext]_vars => AloneInv'
<1> SUFFICES ASSUME Alone, IInv, SInv, AloneInv, [ServerNext]_vars PROVE AloneInv'
  OBVIOUS
<1> USE DEF SInv, ServerTypeOK, Stages, AloneInv, Move
<1>1. ASSUME NEW p \in Callers, Call(p) \/ Waiting(p) \/ Moving(p) PROVE AloneInv'
  <2>1. (EntryThere' <=> EntryThere) /\ \A q \in Callers : q = p
    BY <1>1, CallersApart DEF EntryThere, Alone
  <2>2. fetch = "ok" => EntryThere
    BY EntryNonEmpty, ModuleFacts DEF IInv, PointInv
  <2> HIDE DEF EntryThere
  <2>3. CASE Call(p) \/ Waiting(p) \/ Return(p)
    BY <2>1, <2>3 DEF Call, Waiting, Lookup, Lock, Store, Return
  <2>4. CASE Check(p) \/ Resolve(p)
    BY <2>1, <2>4 DEF Check, Resolve, cacheDirExistsNonEmpty
  <2>5. CASE Callback(p) \/ Fetched(p)
    BY <2>1, <2>2, <2>5 DEF Callback, Fetched, AfterFetch
  <2>6. CASE Stat(p) \/ LoadModule(p) \/ ephemeralVariables(p) \/ listSubmoduleDirs(p)
    BY <2>1, <2>6 DEF Stat, LoadModule, ephemeralVariables, listSubmoduleDirs
  <2> QED BY <1>1, <2>3, <2>4, <2>5, <2>6 DEF Moving
<1>2. CASE FetchStep
  <2>1. UNCHANGED <<pc, status>> /\ \A p \in Callers : pc[p] = "download"
    BY <1>2, WorkInside
       DEF FetchStep, LockInv, Alone, InFlight, Recovering, Downloading
  <2> QED BY <2>1
<1>3. CASE Crash
  BY <1>3 DEF Crash
<1>4. CASE UNCHANGED vars
  BY <1>4 DEF vars, svars, fvars, paths, EntryThere
<1> QED BY <1>1, <1>2, <1>3, <1>4 DEF ServerNext

\* With one goroutine the directory that is inspected without the mutex is there, also
\* when every call replaces it; with two it need not be (run force_at_once).
THEOREM ServerKeepsAvailableAlone == Alone => (Spec => []AvailableOnDisk)
<1> SUFFICES ASSUME Alone PROVE Spec => []AvailableOnDisk
  OBVIOUS
<1>1. ServerInit => AloneInv
  BY DEF ServerInit, AloneInv
<1>2. IInv /\ SInv /\ AloneInv /\ [ServerNext]_vars => AloneInv'
  BY StepAlone
<1>3. AloneInv => AvailableOnDisk
  BY DEF AloneInv, AvailableOnDisk
<1> QED BY <1>1, <1>2, <1>3, ServerInductive, PTL DEF Spec

-------------------------------------------------------------------------------
(* A Server that does not force fetches implements ModuleStore.            *)

\* The callers of the store.
SeenAnswer(p) == IF pc[p] = "returned" THEN answer[p] ELSE Blank
Calls == [p \in Callers |-> Progress(p)]
Seen  == [p \in Callers |-> SeenAnswer(p)]

LEMMA OneMoves ==
  ASSUME NEW p \in Callers, \A q \in Callers \ {p} : UNCHANGED <<pc[q], answer[q]>>
  PROVE  /\ Calls' = [Calls EXCEPT ![p] = Progress(p)']
         /\ Seen' = [Seen EXCEPT ![p] = SeenAnswer(p)']
         /\ Progress(p)' = Progress(p) => Calls' = Calls
         /\ SeenAnswer(p)' = SeenAnswer(p) => Seen' = Seen
<1>1. \A q \in Callers \ {p} : Progress(q)' = Progress(q) /\ SeenAnswer(q)' = SeenAnswer(q)
  BY DEF Progress, SeenAnswer
<1> QED BY <1>1 DEF Calls, Seen

\* The points of a call that is under way, to its caller.
UnderWay == Stages \ {"idle", "returned", "unfetched", "uninspected"}

\* A step inside a call is not seen, one that ends it does so as the store says.
LEMMA EndsAsStore ==
  ASSUME NEW p \in Callers, UNCHANGED <<dest, misread, op>>,
         \A q \in Callers \ {p} : UNCHANGED <<pc[q], answer[q]>>,
         pc[p] \in UnderWay
  PROVE  /\ pc'[p] \in UnderWay => UNCHANGED <<Calls, Seen>>
         /\ (/\ pc'[p] = "returned"
             /\ (dest # NoDir /\ Promise!Gives(dest, op[p], answer'[p])) \/ misread)
               => Promise!Answer(p)
         /\ pc'[p] = "unfetched" /\ (dest = NoDir \/ misread) => Promise!Unfetched(p)
         /\ pc'[p] = "uninspected" /\ (dest # NoDir \/ misread) => Promise!Uninspected(p)
<1>1. /\ Calls' = [Calls EXCEPT ![p] = Progress(p)']
      /\ Seen' = [Seen EXCEPT ![p] = SeenAnswer(p)']
      /\ Progress(p)' = Progress(p) => Calls' = Calls
      /\ SeenAnswer(p)' = SeenAnswer(p) => Seen' = Seen
  BY OneMoves
<1>2. Progress(p) = "asked" /\ SeenAnswer(p) = Blank /\ Calls[p] = "asked"
  BY DEF UnderWay, Progress, SeenAnswer, Calls
<1>3. pc'[p] \in UnderWay => UNCHANGED <<Calls, Seen>>
  BY <1>1, <1>2 DEF UnderWay, Progress, SeenAnswer
<1>4. ASSUME pc'[p] = "returned",
             (dest # NoDir /\ Promise!Gives(dest, op[p], answer'[p])) \/ misread
      PROVE  Promise!Answer(p)
  <2>1. Progress(p)' = "answered" /\ SeenAnswer(p)' = answer'[p]
    BY <1>4 DEF Progress, SeenAnswer
  <2>2. Calls' = [Calls EXCEPT ![p] = "answered"]
    BY <1>1, <2>1
  <2>3. Seen' = [Seen EXCEPT ![p] = answer'[p]] /\ Seen'[p] = answer'[p]
    BY <1>1, <2>1 DEF Seen
  <2> QED BY <1>2, <1>4, <2>2, <2>3 DEF Promise!Answer, Calls, Seen, SeenAnswer
<1>5. ASSUME pc'[p] \in {"unfetched", "uninspected"}
      PROVE  Calls' = [Calls EXCEPT ![p] = pc'[p]] /\ Seen' = Seen
  <2>1. Progress(p)' = pc'[p] /\ SeenAnswer(p)' = Blank
    BY <1>5 DEF Progress, SeenAnswer
  <2> QED BY <1>1, <1>2, <2>1
<1>6. pc'[p] = "unfetched" /\ (dest = NoDir \/ misread) => Promise!Unfetched(p)
  BY <1>2, <1>5 DEF Promise!Unfetched, Calls, Seen, SeenAnswer
<1>7. pc'[p] = "uninspected" /\ (dest # NoDir \/ misread) => Promise!Uninspected(p)
  BY <1>2, <1>5 DEF Promise!Uninspected, Calls, Seen, SeenAnswer
<1> QED BY <1>3, <1>4, <1>6, <1>7

LEMMA StepStore ==
  ~Forced /\ IInv /\ SInv /\ SInv' /\ [ServerNext]_vars =>
    [Promise!Next]_(Promise!svars)
<1> SUFFICES ASSUME ~Forced, IInv, SInv, SInv', [ServerNext]_vars
             PROVE  Promise!Next \/ UNCHANGED <<dest, misread, Calls, op, Seen>>
  BY DEF Promise!svars, Calls, Seen, SeenAnswer
<1>0. ServerTypeOK /\ OpInv
  BY DEF SInv
<1>1. ASSUME NEW p \in Callers, Call(p) \/ Waiting(p) \/ Moving(p)
      PROVE  Promise!Next \/ UNCHANGED <<dest, misread, Calls, op, Seen>>
  <2>1. /\ UNCHANGED dest
        /\ \A q \in Callers \ {p} : UNCHANGED <<pc[q], answer[q]>>
    BY <1>0, <1>1, CallersApart
  <2>2. CASE Call(p)
    <3>1. Progress(p) = "idle" /\ Progress(p)' = "asked" /\ SeenAnswer(p)' = SeenAnswer(p)
      <4>1. pc[p] = "idle" /\ pc'[p] \in {"lock", "lookup"}
        BY <1>0, <2>2 DEF Call, Move, ServerTypeOK
      <4> QED BY <4>1 DEF Progress, SeenAnswer
    <3>2. /\ Calls' = [Calls EXCEPT ![p] = "asked"] /\ Seen' = Seen
          /\ Calls[p] = "idle"
      BY <2>1, <3>1, OneMoves DEF Calls
    <3>3. \E o \in Files \cup {List} : op' = [op EXCEPT ![p] = o]
      BY <2>2 DEF Call, Ops
    <3>4. UNCHANGED misread
      BY <2>2 DEF Call, history
    <3>5. Promise!Ask(p)
      BY <2>1, <3>2, <3>3, <3>4 DEF Promise!Ask, Calls, Seen, SeenAnswer
    <3> QED BY <3>5 DEF Promise!Next
  <2>3. CASE Return(p)
    <3>1. /\ pc[p] \in {"returned", "unfetched", "uninspected"} /\ pc'[p] = "idle"
          /\ op' = [op EXCEPT ![p] = Root] /\ UNCHANGED misread
      BY <1>0, <2>3 DEF Return, Move, ServerTypeOK
    <3>2. /\ Progress(p)' = "idle" /\ SeenAnswer(p)' = Blank
          /\ Calls[p] \in {"answered", "unfetched", "uninspected"}
      BY <3>1 DEF Progress, SeenAnswer, Calls
    <3>3. Calls' = [Calls EXCEPT ![p] = "idle"] /\ Seen' = [Seen EXCEPT ![p] = Blank]
      BY <2>1, <3>2, OneMoves
    <3>4. Promise!Return(p)
      BY <2>1, <3>1, <3>2, <3>3
         DEF Promise!Return, Promise!Blank, Blank, Calls, Seen, SeenAnswer
    <3> QED BY <3>4 DEF Promise!Next
  <2>4. CASE Check(p)
    <3>1. /\ pc[p] \in UnderWay /\ pc'[p] \in UnderWay /\ UNCHANGED op
          /\ misread' = misread \/ (misread' = TRUE /\ dest # NoDir)
      BY <1>0, <2>4 DEF Check, Move, EntryThere, UnderWay, ServerTypeOK, Stages
    <3>2. UNCHANGED <<Calls, Seen>>
      <4>1. /\ Progress(p)' = Progress(p) /\ SeenAnswer(p)' = SeenAnswer(p)
        BY <3>1 DEF UnderWay, Progress, SeenAnswer
      <4> QED BY <2>1, <4>1, OneMoves
    <3>3. CASE misread' = misread
      BY <2>1, <3>1, <3>2, <3>3
    <3>4. CASE misread' = TRUE /\ dest # NoDir
      <4>1. Promise!Misread
        BY <2>1, <3>1, <3>2, <3>4 DEF Promise!Misread, Calls, Seen, SeenAnswer
      <4> QED BY <4>1 DEF Promise!Next
    <3> QED BY <3>1, <3>3, <3>4
  <2>5. ASSUME ~Call(p), ~Return(p), ~Check(p)
        PROVE  Promise!Next \/ UNCHANGED <<dest, misread, Calls, op, Seen>>
    <3>1. UNCHANGED <<misread, op>> /\ pc[p] \in UnderWay
      BY <1>0, <1>1, <2>5
         DEF Waiting, Moving, Lookup, Lock, Store, Resolve, Callback, Fetched, Stat,
             LoadModule, ephemeralVariables, listSubmoduleDirs, Move, history, UnderWay,
             ServerTypeOK, Stages
    <3>2. pc'[p] \in UnderWay \cup {"returned", "unfetched", "uninspected"}
      BY <1>0, <1>1, <2>5
         DEF Waiting, Moving, Lookup, Lock, Store, Resolve, Callback, AfterFetch, Fetched,
             Stat, LoadModule, ephemeralVariables, listSubmoduleDirs, Move, UnderWay,
             ServerTypeOK, Stages
    <3>3. CASE pc'[p] = "returned"
      <4>1. (dest # NoDir /\ Promise!Gives(dest, op[p], answer'[p])) \/ misread
        BY <2>1, <3>1, <3>3
           DEF SInv, DestInv, Inspecting, AnswerInv, ReturnInv
      <4>2. Promise!Answer(p)
        BY <2>1, <3>1, <3>3, <4>1, EndsAsStore
      <4> QED BY <4>2 DEF Promise!Next
    <3>4. CASE pc'[p] = "unfetched"
      <4>1. Resolve(p) \/ (Fetched(p) /\ fetch = "failed")
        BY <1>0, <1>1, <2>5, <3>4
           DEF Waiting, Moving, Lookup, Lock, Store, Callback, AfterFetch, Fetched,
               Stat, LoadModule, ephemeralVariables, listSubmoduleDirs, Move, ServerTypeOK
      <4>2. ~misread => dest = NoDir
        BY <4>1 DEF SInv, DestInv, Resolve, Move
      <4>3. Promise!Unfetched(p)
        BY <2>1, <3>1, <3>4, <4>2, EndsAsStore
      <4> QED BY <4>3 DEF Promise!Next
    <3>5. CASE pc'[p] = "uninspected"
      <4>1. pc[p] \in {"stat", "list"}
        BY <1>0, <1>1, <2>5, <3>5
           DEF Waiting, Moving, Lookup, Lock, Store, Resolve, Callback, AfterFetch,
               Fetched, Stat, LoadModule, ephemeralVariables, listSubmoduleDirs, Move,
               ServerTypeOK
      <4>2. ~misread => dest # NoDir
        BY <4>1 DEF SInv, DestInv, Inspecting, Reading
      <4>3. Promise!Uninspected(p)
        BY <2>1, <3>1, <3>5, <4>2, EndsAsStore
      <4> QED BY <4>3 DEF Promise!Next
    <3>6. CASE pc'[p] \in UnderWay
      BY <2>1, <3>1, <3>6, EndsAsStore
    <3> QED BY <3>2, <3>3, <3>4, <3>5, <3>6
  <2> QED BY <2>2, <2>3, <2>4, <2>5
<1>2. CASE FetchStep
  <2>1. UNCHANGED <<misread, pc, op, answer>> /\ (~misread => dest = NoDir)
    BY <1>2, WorkInside
       DEF FetchStep, SInv, DestInv, InFlight, Recovering, Downloading
  <2>2. UNCHANGED <<Calls, Seen>>
    BY <2>1 DEF Calls, Seen, Progress, SeenAnswer
  <2>3. dest' \in Modules \cup {NoDir}
    <3>1. FetchNext
      BY <1>2 DEF FetchStep, FetchNext
    <3>2. DiskInv'
      BY <3>1, StepIInv DEF IInv
    <3> QED BY <3>2 DEF DiskInv
  <2>4. CASE dest' = dest
    BY <2>1, <2>2, <2>4
  <2>5. CASE dest' # dest
    <3>1. Promise!Fill
      BY <2>1, <2>2, <2>3, <2>5 DEF Promise!Fill, Calls, Seen, SeenAnswer
    <3> QED BY <3>1 DEF Promise!Next
  <2> QED BY <2>4, <2>5
<1>3. CASE Crash
  <2>1. UNCHANGED <<dest, misread>>
    BY <1>3 DEF Crash, FetchCrash, FetchReturn, paths, fvars
  <2>2. /\ Calls' = [p \in Callers |-> "idle"]
        /\ Seen' = [p \in Callers |-> Blank]
        /\ op' = [p \in Callers |-> Root]
    BY <1>3 DEF Crash, Calls, Seen, Progress, SeenAnswer
  <2>3. Promise!Restart
    BY <2>1, <2>2
       DEF Promise!Restart, Promise!Blank, Blank, Calls, Seen, SeenAnswer
  <2> QED BY <2>3 DEF Promise!Next
<1>4. CASE UNCHANGED vars
  BY <1>4 DEF vars, svars, fvars, paths, history, Calls, Seen, Progress, SeenAnswer
<1> QED BY <1>1, <1>2, <1>3, <1>4 DEF ServerNext

\* A Server that does not force fetches acts, for any number of callers, as a store
\* that is filled once and answers each call in one step, until it misreads the entry.
THEOREM ServerActsAsStore == ~Forced => (Spec => ActsAsStore)
<1> SUFFICES ASSUME ~Forced PROVE Spec => ActsAsStore
  OBVIOUS
<1>1. ServerInit => Promise!Init
  BY DEF ServerInit, FetchInit, Promise!Init, Promise!Blank, Progress, Blank
<1>2. IInv /\ SInv /\ SInv' /\ [ServerNext]_vars => [Promise!Next]_(Promise!svars)
  BY StepStore
<1> QED BY <1>1, <1>2, ServerInductive, PTL DEF Spec, ActsAsStore, Promise!Spec
===============================================================================
