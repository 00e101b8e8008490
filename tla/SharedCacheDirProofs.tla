------------------------- MODULE SharedCacheDirProofs -------------------------
(***************************************************************************)
(* A call that nobody disturbs tells the truth whatever overlapping calls  *)
(* left behind, and downloaders that do not overlap at all keep one entry. *)
(* P1 and P2 are the proofs of Downloader about the two calls.             *)
(***************************************************************************)
EXTENDS SharedCacheDir, TLAPS

P1 == INSTANCE DownloaderProofs
        WITH fetch <- fetch1, got <- got1, todo <- todo1,
             haveBackup <- haveBackup1, before <- before1
P2 == INSTANCE DownloaderProofs
        WITH fetch <- fetch2, got <- got2, todo <- todo2,
             haveBackup <- haveBackup2, before <- before2

\* The invariants of both calls, of which one is not under way.
IInv ==
  /\ P1!IInv /\ P2!IInv
  /\ fetch1 = "idle" \/ fetch2 = "idle"

LEMMA Assumed ==
  /\ P1!FilesAssumption /\ P1!NoDirAssumption
  /\ P1!NoneAssumption /\ P1!FaultsAssumption
  /\ P2!FilesAssumption /\ P2!NoDirAssumption
  /\ P2!NoneAssumption /\ P2!FaultsAssumption
BY FilesAssumption, NoDirAssumption, NoneAssumption, FaultsAssumption
   DEF P1!Trees, P2!Trees

\* D1 and P1 name the same steps, and so do D2 and P2.
LEMMA SameSteps1 == D1!FetchNext => P1!FetchNext
<1>1. D1!OnError = P1!OnError
  BY DEF D1!OnError, P1!OnError, D1!AfterAbort, P1!AfterAbort,
         D1!Recovering, P1!Recovering, D1!Downloading, P1!Downloading
<1>2. D1!Blocked = P1!Blocked
  BY DEF D1!Blocked, P1!Blocked, D1!Movable, P1!Movable
<1>3. D1!FsError => P1!FsError
  BY <1>1, <1>2
     DEF D1!FsError, P1!FsError, D1!InFlight, P1!InFlight,
         D1!Recovering, P1!Recovering, D1!Downloading, P1!Downloading,
         D1!paths, P1!paths
<1> QED
  BY <1>3
     DEF D1!FetchBegin, P1!FetchBegin, D1!MkdirParent, P1!MkdirParent,
         D1!RemovePartial, P1!RemovePartial, D1!PartialRemoved, P1!PartialRemoved,
         D1!LstatDest, P1!LstatDest, D1!RemoveBackup, P1!RemoveBackup,
         D1!BackupRemoved, P1!BackupRemoved, D1!LstatBackup, P1!LstatBackup,
         D1!RestoreBackup, P1!RestoreBackup, D1!GetStart, P1!GetStart,
         D1!Extract, P1!Extract, D1!GetDone, P1!GetDone, D1!LstatOld, P1!LstatOld,
         D1!Park, P1!Park, D1!Publish, P1!Publish, D1!Rollback, P1!Rollback,
         D1!FetchReturn, P1!FetchReturn, D1!FetchCrash, P1!FetchCrash,
         D1!Work, P1!Work, D1!FetchNext, P1!FetchNext, D1!Goto, P1!Goto,
         D1!Unlinked, P1!Unlinked, D1!AfterAbort, P1!AfterAbort,
         D1!Movable, P1!Movable, D1!Written, P1!Written, D1!InFlight, P1!InFlight,
         D1!Recovering, P1!Recovering, D1!Downloading, P1!Downloading,
         D1!paths, P1!paths, D1!Entry, P1!Entry

LEMMA SameSteps2 == D2!FetchNext => P2!FetchNext
<1>1. D2!OnError = P2!OnError
  BY DEF D2!OnError, P2!OnError, D2!AfterAbort, P2!AfterAbort,
         D2!Recovering, P2!Recovering, D2!Downloading, P2!Downloading
<1>2. D2!Blocked = P2!Blocked
  BY DEF D2!Blocked, P2!Blocked, D2!Movable, P2!Movable
<1>3. D2!FsError => P2!FsError
  BY <1>1, <1>2
     DEF D2!FsError, P2!FsError, D2!InFlight, P2!InFlight,
         D2!Recovering, P2!Recovering, D2!Downloading, P2!Downloading,
         D2!paths, P2!paths
<1> QED
  BY <1>3
     DEF D2!FetchBegin, P2!FetchBegin, D2!MkdirParent, P2!MkdirParent,
         D2!RemovePartial, P2!RemovePartial, D2!PartialRemoved, P2!PartialRemoved,
         D2!LstatDest, P2!LstatDest, D2!RemoveBackup, P2!RemoveBackup,
         D2!BackupRemoved, P2!BackupRemoved, D2!LstatBackup, P2!LstatBackup,
         D2!RestoreBackup, P2!RestoreBackup, D2!GetStart, P2!GetStart,
         D2!Extract, P2!Extract, D2!GetDone, P2!GetDone, D2!LstatOld, P2!LstatOld,
         D2!Park, P2!Park, D2!Publish, P2!Publish, D2!Rollback, P2!Rollback,
         D2!FetchReturn, P2!FetchReturn, D2!FetchCrash, P2!FetchCrash,
         D2!Work, P2!Work, D2!FetchNext, P2!FetchNext, D2!Goto, P2!Goto,
         D2!Unlinked, P2!Unlinked, D2!AfterAbort, P2!AfterAbort,
         D2!Movable, P2!Movable, D2!Written, P2!Written, D2!InFlight, P2!InFlight,
         D2!Recovering, P2!Recovering, D2!Downloading, P2!Downloading,
         D2!paths, P2!paths, D2!Entry, P2!Entry

LEMMA InitIInv == Init => IInv
<1> SUFFICES ASSUME Init PROVE IInv
  OBVIOUS
<1>1. P1!FetchInit /\ P2!FetchInit
  BY DEF Init, P1!FetchInit, P2!FetchInit, D1!FetchInit, D2!FetchInit
<1>2. P1!IInv
  BY <1>1, P1!InitIInv, Assumed
<1>3. P2!IInv
  BY <1>1, P2!InitIInv, Assumed
<1> QED BY <1>1, <1>2, <1>3 DEF IInv, P1!FetchInit

\* A step of call 1 takes nothing away from call 2, which is not under way.
LEMMA StepIInv1 ==
  ASSUME IInv, Step1, ~Overlap
  PROVE  IInv' /\ fetch2 = "idle"
<1>1. P1!FetchNext
  BY SameSteps1 DEF Step1
<1>2. P1!IInv'
  BY <1>1, P1!StepIInv, Assumed DEF IInv
<1>3. fetch2 = "idle" /\ UNCHANGED local2
  BY DEF IInv, Step1
<1>4. P2!IInv'
  <2>1. /\ got2' = got2 /\ todo2' = todo2 /\ fetch2' = "idle"
        /\ haveBackup2' = haveBackup2 /\ before2' = before2
    BY <1>3 DEF local2
  <2>2. P2!TypeOK
    BY DEF IInv, P2!IInv
  <2>3. P2!TypeOK'
    BY <1>2, <2>1, <2>2
       DEF P1!IInv, P1!TypeOK, P1!Trees, P2!TypeOK, P2!Trees, P2!Points
  <2>4. P2!DiskInv'
    BY <1>2 DEF P1!IInv, P1!DiskInv, P2!DiskInv, P1!Modules, P2!Modules,
           P1!Module, P2!Module
  <2>5. P2!PointInv' /\ P2!HistoryInv'
    <3>1. P2!PointInv'
      BY <1>3, <2>1, <2>2 DEF P2!PointInv, P2!Recovering, P2!Downloading
    <3>2. P2!HistoryInv'
      BY <2>1 DEF P2!HistoryInv, P2!InFlight, P2!Recovering, P2!Downloading
    <3> QED BY <3>1, <3>2
  <2> QED BY <2>3, <2>4, <2>5 DEF P2!IInv
<1> QED BY <1>2, <1>3, <1>4 DEF IInv, local2

\* A step of call 2 takes nothing away from call 1, which is not under way.
LEMMA StepIInv2 ==
  ASSUME IInv, Step2, ~Overlap
  PROVE  IInv' /\ fetch1 = "idle"
<1>1. P2!FetchNext
  BY SameSteps2 DEF Step2
<1>2. P2!IInv'
  BY <1>1, P2!StepIInv, Assumed DEF IInv
<1>3. fetch1 = "idle" /\ UNCHANGED local1
  BY DEF IInv, Step2
<1>4. P1!IInv'
  <2>1. /\ got1' = got1 /\ todo1' = todo1 /\ fetch1' = "idle"
        /\ haveBackup1' = haveBackup1 /\ before1' = before1
    BY <1>3 DEF local1
  <2>2. P1!TypeOK
    BY DEF IInv, P1!IInv
  <2>3. P1!TypeOK'
    BY <1>2, <2>1, <2>2
       DEF P2!IInv, P2!TypeOK, P2!Trees, P1!TypeOK, P1!Trees, P1!Points
  <2>4. P1!DiskInv'
    BY <1>2 DEF P2!IInv, P2!DiskInv, P1!DiskInv, P2!Modules, P1!Modules,
           P2!Module, P1!Module
  <2>5. P1!PointInv' /\ P1!HistoryInv'
    <3>1. P1!PointInv'
      BY <1>3, <2>1, <2>2 DEF P1!PointInv, P1!Recovering, P1!Downloading
    <3>2. P1!HistoryInv'
      BY <2>1 DEF P1!HistoryInv, P1!InFlight, P1!Recovering, P1!Downloading
    <3> QED BY <3>1, <3>2
  <2> QED BY <2>3, <2>4, <2>5 DEF P1!IInv
<1> QED BY <1>2, <1>3, <1>4 DEF IInv, local1

LEMMA StepIInv == ~Overlap /\ IInv /\ [Next]_vars => IInv'
<1> SUFFICES ASSUME ~Overlap, IInv, [Next]_vars PROVE IInv'
  OBVIOUS
<1>1. CASE Step1
  BY <1>1, StepIInv1
<1>2. CASE Step2
  BY <1>2, StepIInv2
<1>3. CASE UNCHANGED vars
  <2>1. UNCHANGED <<dest, partial, backup, faults, local1, local2>>
    BY <1>3 DEF vars
  <2>2. P1!IInv'
    <3>1. UNCHANGED P1!fvars
      BY <2>1 DEF local1, P1!fvars
    <3> QED BY <3>1, P1!StepIInv, Assumed DEF IInv
  <2>3. P2!IInv'
    <3>1. UNCHANGED P2!fvars
      BY <2>1 DEF local2, P2!fvars
    <3> QED BY <3>1, P2!StepIInv, Assumed DEF IInv
  <2> QED BY <2>1, <2>2, <2>3 DEF IInv, local1, local2
<1> QED BY <1>1, <1>2, <1>3 DEF Next

LEMMA Inductive == ~Overlap => (Spec => []IInv)
<1> SUFFICES ASSUME ~Overlap PROVE Spec => []IInv
  OBVIOUS
<1>1. IInv /\ [Next]_vars => IInv'
  BY StepIInv
<1> QED BY <1>1, InitIInv, PTL DEF Spec

\* While calls do not overlap, the promise of the README (370-372) is kept, whoever
\* downloads and wherever one of them died: the overlap alone breaks it.
THEOREM ApartNeverHalfPopulated == ~Overlap => (Spec => []NeverHalfPopulated)
<1> SUFFICES ASSUME ~Overlap PROVE Spec => []NeverHalfPopulated
  OBVIOUS
<1>1. IInv => NeverHalfPopulated
  BY DEF IInv, P1!IInv, P1!DiskInv, P1!Modules, P1!Module,
         NeverHalfPopulated, D1!NeverTorn, D1!Modules, D1!Module
<1>2. Spec => []IInv
  BY Inductive
<1> QED BY <1>1, <1>2, PTL

\* A step of either call replaces the entry by a whole module, or leaves it alone.
LEMMA StepRefines ==
  ~Overlap /\ IInv /\ [Next]_vars => [D1!Cache!Replace]_(D1!Entry)
<1> SUFFICES ASSUME ~Overlap, IInv, [Next]_vars
             PROVE  D1!Cache!Replace \/ D1!Entry' = D1!Entry
  OBVIOUS
<1>1. CASE Step1
  <2>1. P1!FetchNext
    BY <1>1, SameSteps1 DEF Step1
  <2>2. P1!Cache!Replace \/ P1!Entry' = P1!Entry
    BY <2>1, P1!StepRefines, Assumed DEF IInv
  <2> QED BY <2>2 DEF P1!Entry, D1!Entry, P1!Cache!Replace, D1!Cache!Replace,
                 P1!Modules, D1!Modules, P1!Module, D1!Module
<1>2. CASE Step2
  <2>1. P2!FetchNext
    BY <1>2, SameSteps2 DEF Step2
  <2>2. P2!Cache!Replace \/ P2!Entry' = P2!Entry
    BY <2>1, P2!StepRefines, Assumed DEF IInv
  <2> QED BY <2>2 DEF P2!Entry, D1!Entry, P2!Cache!Replace, D1!Cache!Replace,
                 P2!Modules, D1!Modules, P2!Module, D1!Module
<1>3. CASE UNCHANGED vars
  BY <1>3 DEF vars, D1!Entry
<1> QED BY <1>1, <1>2, <1>3 DEF Next

\* Both calls together keep one cache entry that is never torn and never lost
\* (download.go:12-27), while they do not overlap.
THEOREM SharedEntryKept == ~Overlap => (Spec => D1!KeepsLastGood)
<1> SUFFICES ASSUME ~Overlap PROVE Spec => D1!KeepsLastGood
  OBVIOUS
<1>1. Init => D1!Cache!Init
  BY DEF Init, D1!FetchInit, D1!Cache!Init, D1!Entry
<1>2. Spec => []IInv
  BY Inductive
<1>3. IInv /\ [Next]_vars => [D1!Cache!Replace]_(D1!Entry)
  BY StepRefines
<1> QED
  BY <1>1, <1>2, <1>3, PTL
     DEF Spec, D1!KeepsLastGood, D1!Cache!Spec

-------------------------------------------------------------------------------

\* What holds however the calls overlap: the types, and of a call that is alone
\* what its own steps saw to.
AloneInv ==
  /\ P1!TypeOK /\ P1!ChosenInv
  /\ P2!TypeOK /\ P2!ChosenInv
  /\ alone1 \in BOOLEAN /\ alone2 \in BOOLEAN
  /\ alone1 => P1!CallInv
  /\ alone2 => P2!CallInv

LEMMA InitAlone == Init => AloneInv
<1> SUFFICES ASSUME Init PROVE AloneInv
  OBVIOUS
<1>1. P1!FetchInit /\ P2!FetchInit
  BY DEF Init, P1!FetchInit, P2!FetchInit, D1!FetchInit, D2!FetchInit
<1>2. P1!TypeOK
  BY <1>1, P1!InitIInv, Assumed DEF P1!IInv
<1>3. P2!TypeOK
  BY <1>1, P2!InitIInv, Assumed DEF P2!IInv
<1>4. P1!ChosenInv /\ P2!ChosenInv
  BY <1>1 DEF P1!FetchInit, P2!FetchInit, P1!ChosenInv, P2!ChosenInv
<1> QED BY <1>2, <1>3, <1>4 DEF AloneInv, Init

\* A step of call 1 builds on what call 1 knows, and ends the solitude of call 2.
LEMMA StepAlone1 == ASSUME AloneInv, Step1 PROVE AloneInv'
<1>1. P1!FetchNext
  BY SameSteps1 DEF Step1
<1>2. P1!TypeOK' /\ P1!ChosenInv'
  BY <1>1, P1!StepType, Assumed DEF AloneInv
<1>3. /\ got2' = got2 /\ todo2' = todo2 /\ fetch2' = fetch2
      /\ haveBackup2' = haveBackup2 /\ before2' = before2
  BY DEF Step1, local2
<1>4. P2!TypeOK' /\ P2!ChosenInv'
  BY <1>2, <1>3
     DEF AloneInv, P1!TypeOK, P1!Trees, P2!TypeOK, P2!Trees, P2!Points, P2!ChosenInv
<1>5. alone1' => P1!CallInv'
  <2>1. CASE fetch1 = "idle"
    <3>1. P1!FetchBegin
      BY <1>1, <2>1
         DEF P1!FetchNext, P1!Work, P1!MkdirParent, P1!RemovePartial,
             P1!PartialRemoved, P1!LstatDest, P1!RemoveBackup, P1!BackupRemoved,
             P1!LstatBackup, P1!RestoreBackup, P1!GetStart, P1!Extract, P1!GetDone,
             P1!LstatOld, P1!Park, P1!Publish, P1!Rollback, P1!FsError,
             P1!FetchReturn, P1!FetchCrash, P1!InFlight, P1!Recovering,
             P1!Downloading
    <3> QED BY <3>1, P1!BeginCall, Assumed
  <2>2. CASE fetch1 # "idle" /\ alone1
    BY <2>2, <1>1, P1!StepCall, Assumed DEF AloneInv
  <2> QED BY <2>1, <2>2 DEF Step1
<1> QED BY <1>2, <1>4, <1>5 DEF AloneInv, Step1

\* A step of call 2 builds on what call 2 knows, and ends the solitude of call 1.
LEMMA StepAlone2 == ASSUME AloneInv, Step2 PROVE AloneInv'
<1>1. P2!FetchNext
  BY SameSteps2 DEF Step2
<1>2. P2!TypeOK' /\ P2!ChosenInv'
  BY <1>1, P2!StepType, Assumed DEF AloneInv
<1>3. /\ got1' = got1 /\ todo1' = todo1 /\ fetch1' = fetch1
      /\ haveBackup1' = haveBackup1 /\ before1' = before1
  BY DEF Step2, local1
<1>4. P1!TypeOK' /\ P1!ChosenInv'
  BY <1>2, <1>3
     DEF AloneInv, P2!TypeOK, P2!Trees, P1!TypeOK, P1!Trees, P1!Points, P1!ChosenInv
<1>5. alone2' => P2!CallInv'
  <2>1. CASE fetch2 = "idle"
    <3>1. P2!FetchBegin
      BY <1>1, <2>1
         DEF P2!FetchNext, P2!Work, P2!MkdirParent, P2!RemovePartial,
             P2!PartialRemoved, P2!LstatDest, P2!RemoveBackup, P2!BackupRemoved,
             P2!LstatBackup, P2!RestoreBackup, P2!GetStart, P2!Extract, P2!GetDone,
             P2!LstatOld, P2!Park, P2!Publish, P2!Rollback, P2!FsError,
             P2!FetchReturn, P2!FetchCrash, P2!InFlight, P2!Recovering,
             P2!Downloading
    <3> QED BY <3>1, P2!BeginCall, Assumed
  <2>2. CASE fetch2 # "idle" /\ alone2
    BY <2>2, <1>1, P2!StepCall, Assumed DEF AloneInv
  <2> QED BY <2>1, <2>2 DEF Step2
<1> QED BY <1>2, <1>4, <1>5 DEF AloneInv, Step2

LEMMA StepAlone == AloneInv /\ [Next]_vars => AloneInv'
<1> SUFFICES ASSUME AloneInv, [Next]_vars PROVE AloneInv'
  OBVIOUS
<1>1. CASE UNCHANGED vars
  <2>1. /\ UNCHANGED <<dest, partial, backup, faults, alone1, alone2>>
        /\ UNCHANGED <<fetch1, got1, todo1, haveBackup1, before1>>
        /\ UNCHANGED <<fetch2, got2, todo2, haveBackup2, before2>>
    BY <1>1 DEF vars, local1, local2
  <2>2. P1!TypeOK' /\ P1!ChosenInv' /\ P2!TypeOK' /\ P2!ChosenInv'
    BY <2>1 DEF AloneInv, P1!TypeOK, P1!ChosenInv, P2!TypeOK, P2!ChosenInv
  <2>3. alone1' => P1!CallInv'
    BY <2>1, P1!StepCall, Assumed DEF AloneInv, P1!fvars
  <2>4. alone2' => P2!CallInv'
    BY <2>1, P2!StepCall, Assumed DEF AloneInv, P2!fvars
  <2> QED BY <2>1, <2>2, <2>3, <2>4 DEF AloneInv
<1> QED BY <1>1, StepAlone1, StepAlone2 DEF Next

\* Overlapping calls can ruin an entry, never the word of a later call that they
\* leave alone (download.go:20-27).
THEOREM UndisturbedTellTheTruth == Spec => []Undisturbed
<1>1. AloneInv => Undisturbed
  <2>1. P1!CallInv => D1!OutcomeTold
    BY P1!CallTold, Assumed
       DEF P1!OutcomeTold, D1!OutcomeTold, P1!Entry, D1!Entry, P1!Module, D1!Module
  <2>2. P2!CallInv => D2!OutcomeTold
    BY P2!CallTold, Assumed
       DEF P2!OutcomeTold, D2!OutcomeTold, P2!Entry, D2!Entry, P2!Module, D2!Module
  <2> QED BY <2>1, <2>2 DEF AloneInv, Undisturbed
<1> QED BY <1>1, InitAlone, StepAlone, PTL DEF Spec
===============================================================================
