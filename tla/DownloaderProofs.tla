--------------------------- MODULE DownloaderProofs ---------------------------
(***************************************************************************)
(* Fetch keeps its promises for every set of files and archives and any    *)
(* number of faults.                                                       *)
(***************************************************************************)
EXTENDS Downloader, TLAPS

\* Where the last known-good entry is, and that it is whole.
DiskInv ==
  /\ dest \in {NoDir} \cup Modules
  /\ dest = NoDir => backup \in {NoDir} \cup Modules

\* What each control point may rely on about the three paths.
PointInv ==
  /\ fetch \in Recovering \cup Downloading => ~haveBackup
  /\ fetch \in {"lstatDest", "clearBackup", "lstatBackup", "restore", "get"}
       => partial = NoDir
  /\ fetch = "clearBackup" => dest # NoDir
  /\ fetch \in {"lstatBackup", "restore"} => dest = NoDir
  /\ fetch = "restore" => backup # NoDir
  /\ fetch \in Downloading => backup = NoDir
  /\ fetch \in {"extract", "lstatOld", "park", "publish", "dropBackup", "ok"}
       => got \in Contents
  /\ fetch = "extract" => /\ todo \subseteq FilesOf[got]
                          /\ partial = (FilesOf[got] \ todo) \X {got}
  /\ fetch \in {"lstatOld", "park", "publish"} => partial = Module(got)
  /\ fetch = "park" => dest # NoDir
  /\ fetch = "publish" => dest = NoDir /\ (haveBackup <=> backup # NoDir)
  /\ fetch = "abort" /\ haveBackup => dest = NoDir /\ backup # NoDir
  /\ fetch = "rollback" => dest = NoDir /\ backup # NoDir
  /\ fetch \in {"dropBackup", "ok"} => dest = Module(got)

\* The entry does not change before the new archive is published.
HistoryInv ==
  fetch \in InFlight \cup {"failed"} /\ fetch # "dropBackup" => Entry = before

IInv == TypeOK /\ DiskInv /\ PointInv /\ HistoryInv

\* The part of it that a call builds up by itself, on whatever paths it finds.
CallInv == PointInv /\ HistoryInv

\* The archive being extracted has been chosen.
ChosenInv == fetch = "extract" => got \in Contents
-------------------------------------------------------------------------------

\* Writing one more file of the archive being extracted.
LEMMA ExtractOne ==
  ASSUME NEW S, NEW T, NEW c, T \subseteq S, NEW f \in T
  PROVE  {g \in (S \ T) \X {c} : g[1] # f} \cup {<<f, c>>}
           = (S \ (T \ {f})) \X {c}
<1> DEFINE L == {g \in (S \ T) \X {c} : g[1] # f} \cup {<<f, c>>}
           R == (S \ (T \ {f})) \X {c}
<1>1. ASSUME NEW p \in L PROVE p \in R
  OBVIOUS
<1>2. ASSUME NEW p \in R PROVE p \in L
  <2>1. PICK a \in S \ (T \ {f}) : p = <<a, c>>
    OBVIOUS
  <2>2. CASE a = f
    BY <2>1, <2>2
  <2>3. CASE a # f
    BY <2>1, <2>3
  <2> QED BY <2>2, <2>3
<1> HIDE DEF L, R
<1>3. L = R
  BY <1>1, <1>2
<1> QED BY <1>3 DEF L, R

\* A directory made of the files of one archive is a tree, and a directory.
LEMMA ModuleFacts ==
  ASSUME NEW c \in Contents
  PROVE  /\ FilesOf[c] \subseteq Files
         /\ Module(c) \in Trees
         /\ Module(c) \in Modules
         /\ Module(c) # NoDir
<1>1. FilesOf[c] \subseteq Files
  BY FilesAssumption
<1>2. Module(c) \in Trees
  BY <1>1 DEF Module, Trees
<1>3. Module(c) \in Modules
  BY DEF Modules
<1> QED BY <1>1, <1>2, <1>3, NoDirAssumption

\* os.RemoveAll only ever leaves a smaller tree, or nothing.
LEMMA UnlinkedType ==
  ASSUME NEW t \in Trees, NEW u \in Unlinked(t)
  PROVE  u \in {NoDir} \cup Trees
BY DEF Unlinked, Trees

LEMMA InitIInv == FetchInit => IInv
<1> SUFFICES ASSUME FetchInit PROVE IInv
  OBVIOUS
<1> USE DEF FetchInit
<1>1. TypeOK
  <2>1. faults \in 0 .. MaxFaults
    BY FaultsAssumption
  <2>2. todo \subseteq Files
    OBVIOUS
  <2> QED BY <2>1, <2>2 DEF TypeOK, Points
<1>2. DiskInv /\ PointInv /\ HistoryInv
  BY DEF DiskInv, PointInv, HistoryInv, InFlight, Recovering, Downloading
<1> QED BY <1>1, <1>2 DEF IInv

\* Types hold at every step, whatever is at the three paths.
LEMMA StepType ==
  TypeOK /\ ChosenInv /\ [FetchNext]_fvars => TypeOK' /\ ChosenInv'
<1> SUFFICES ASSUME TypeOK, ChosenInv, [FetchNext]_fvars PROVE TypeOK' /\ ChosenInv'
  OBVIOUS
<1> USE DEF TypeOK, ChosenInv, Points, InFlight, Recovering, Downloading, paths, Goto
<1>1. CASE FetchBegin
  BY <1>1 DEF FetchBegin, Entry
<1>2. CASE MkdirParent \/ PartialRemoved \/ LstatDest \/ BackupRemoved \/ LstatBackup
             \/ GetDone \/ LstatOld
  BY <1>2 DEF MkdirParent, PartialRemoved, AfterAbort, LstatDest, BackupRemoved,
         LstatBackup, GetDone, LstatOld
<1>3. CASE RemovePartial
  <2>1. partial' \in {NoDir} \cup Trees
    BY <1>3, UnlinkedType DEF RemovePartial
  <2> QED BY <1>3, <2>1 DEF RemovePartial
<1>4. CASE RemoveBackup
  <2>1. backup' \in {NoDir} \cup Trees
    BY <1>4, UnlinkedType DEF RemoveBackup
  <2> QED BY <1>4, <2>1 DEF RemoveBackup
<1>5. CASE RestoreBackup \/ Park \/ Publish \/ Rollback
  BY <1>5 DEF RestoreBackup, Park, Publish, Rollback, Movable
<1>6. CASE GetStart
  <2>1. PICK c \in Contents : got' = c /\ todo' = FilesOf[c]
    BY <1>6 DEF GetStart
  <2>2. todo' \subseteq Files
    BY <2>1, ModuleFacts
  <2>3. partial' \in {NoDir} \cup Trees
    BY <1>6 DEF GetStart, Trees
  <2> QED BY <1>6, <2>1, <2>2, <2>3 DEF GetStart
<1>7. CASE Extract
  <2>1. PICK f \in todo : partial' = Written(partial, f) /\ todo' = todo \ {f}
    BY <1>7 DEF Extract
  <2>2. <<f, got>> \in Files \X Contents
    BY <1>7, <2>1 DEF Extract
  <2>3. Written(partial, f) \in Trees
    BY <2>2 DEF Written, Trees
  <2> QED BY <1>7, <2>1, <2>3 DEF Extract
<1>8. CASE FsError \/ FetchReturn \/ FetchCrash
  BY <1>8 DEF FsError, OnError, AfterAbort, FetchReturn, FetchCrash
<1>9. CASE UNCHANGED fvars
  BY <1>9 DEF fvars
<1> QED
  BY <1>1, <1>2, <1>3, <1>4, <1>5, <1>6, <1>7, <1>8, <1>9 DEF FetchNext, Work

\* A call relies on nothing it did not see to itself: from its first step on, what
\* it knows of the paths holds whatever was there before.
LEMMA StepCall == TypeOK /\ CallInv /\ [FetchNext]_fvars => CallInv'
<1> SUFFICES ASSUME TypeOK, CallInv, [FetchNext]_fvars PROVE CallInv'
  OBVIOUS
<1> USE DEF CallInv, TypeOK, PointInv, HistoryInv, Entry, Points,
            InFlight, Recovering, Downloading, paths, Goto
<1>1. CASE FetchBegin
  BY <1>1 DEF FetchBegin
<1>2. CASE MkdirParent
  BY <1>2 DEF MkdirParent
<1>3. CASE RemovePartial
  BY <1>3 DEF RemovePartial
<1>4. CASE PartialRemoved
  BY <1>4 DEF PartialRemoved, AfterAbort
<1>5. CASE LstatDest
  BY <1>5 DEF LstatDest
<1>6. CASE RemoveBackup
  <2>1. dest # NoDir
    BY <1>6, ModuleFacts DEF RemoveBackup
  <2> QED BY <1>6, <2>1 DEF RemoveBackup
<1>7. CASE BackupRemoved
  BY <1>7 DEF BackupRemoved
<1>8. CASE LstatBackup
  BY <1>8 DEF LstatBackup
<1>9. CASE RestoreBackup
  BY <1>9 DEF RestoreBackup, Movable
<1>10. CASE GetStart
  <2>1. PICK c \in Contents : got' = c /\ todo' = FilesOf[c]
    BY <1>10 DEF GetStart
  <2>2. partial' = {}
    BY <1>10 DEF GetStart
  <2> QED BY <1>10, <2>1, <2>2 DEF GetStart
<1>11. CASE Extract
  <2>1. PICK f \in todo : partial' = Written(partial, f) /\ todo' = todo \ {f}
    BY <1>11 DEF Extract
  <2>2. /\ got \in Contents /\ todo \subseteq FilesOf[got]
        /\ partial = (FilesOf[got] \ todo) \X {got}
    BY <1>11 DEF Extract
  <2>3. partial # NoDir
    BY <2>2, ModuleFacts, NoDirAssumption DEF Trees
  <2>4. partial' = (FilesOf[got] \ todo') \X {got}
    BY <2>1, <2>2, <2>3, ExtractOne DEF Written
  <2> QED BY <1>11, <2>1, <2>2, <2>4 DEF Extract
<1>12. CASE GetDone
  <2>1. partial = Module(got)
    BY <1>12 DEF GetDone, Module
  <2> QED BY <1>12, <2>1 DEF GetDone
<1>13. CASE LstatOld
  BY <1>13 DEF LstatOld
<1>14. CASE Park
  BY <1>14 DEF Park, Movable
<1>15. CASE Publish
  <2>1. dest' = Module(got) /\ dest' # NoDir
    BY <1>15, ModuleFacts DEF Publish
  <2> QED BY <1>15, <2>1 DEF Publish
<1>16. CASE Rollback
  BY <1>16 DEF Rollback, Movable
<1>17. CASE FsError
  BY <1>17 DEF FsError, OnError, AfterAbort
<1>18. CASE FetchReturn
  BY <1>18 DEF FetchReturn
<1>19. CASE FetchCrash
  BY <1>19 DEF FetchCrash
<1>20. CASE UNCHANGED fvars
  BY <1>20 DEF fvars
<1> QED
  BY <1>1, <1>2, <1>3, <1>4, <1>5, <1>6, <1>7, <1>8, <1>9, <1>10,
     <1>11, <1>12, <1>13, <1>14, <1>15, <1>16, <1>17, <1>18, <1>19, <1>20
     DEF FetchNext, Work

LEMMA BeginCall == FetchBegin => CallInv'
BY DEF FetchBegin, CallInv, PointInv, HistoryInv, Entry, InFlight, Recovering,
       Downloading, paths

LEMMA CallTold == CallInv => OutcomeTold
BY DEF CallInv, PointInv, HistoryInv, InFlight, Recovering, Downloading, OutcomeTold

\* The entry stays whole because a call only ever moves whole modules to dest.
LEMMA StepDisk == IInv /\ [FetchNext]_fvars => DiskInv'
<1> SUFFICES ASSUME IInv, [FetchNext]_fvars PROVE DiskInv'
  OBVIOUS
<1> USE DEF IInv, DiskInv, PointInv, Recovering, Downloading, paths, Goto
<1>1. CASE Publish
  BY <1>1, ModuleFacts DEF Publish
<1>2. CASE RestoreBackup \/ Rollback \/ Park
  BY <1>2 DEF RestoreBackup, Rollback, Park, Movable
<1>3. CASE RemoveBackup
  BY <1>3, ModuleFacts DEF RemoveBackup
<1>4. CASE UNCHANGED <<dest, backup>>
  BY <1>4
<1>5. CASE FetchBegin \/ MkdirParent \/ RemovePartial \/ PartialRemoved
             \/ LstatDest \/ BackupRemoved \/ LstatBackup \/ GetStart
  BY <1>5, <1>4 DEF FetchBegin, MkdirParent, RemovePartial, PartialRemoved,
         LstatDest, BackupRemoved, LstatBackup, GetStart
<1>6. CASE Extract \/ GetDone \/ LstatOld \/ FsError \/ FetchReturn \/ FetchCrash
  BY <1>6, <1>4 DEF Extract, GetDone, LstatOld, FsError, FetchReturn, FetchCrash
<1> QED
  BY <1>1, <1>2, <1>3, <1>4, <1>5, <1>6 DEF FetchNext, Work, fvars

LEMMA StepIInv == IInv /\ [FetchNext]_fvars => IInv'
<1> SUFFICES ASSUME IInv, [FetchNext]_fvars PROVE IInv'
  OBVIOUS
<1>1. ChosenInv
  BY DEF IInv, PointInv, ChosenInv
<1>2. TypeOK'
  BY <1>1, StepType DEF IInv
<1>3. PointInv' /\ HistoryInv'
  BY StepCall DEF IInv, CallInv
<1>4. DiskInv'
  BY StepDisk
<1> QED BY <1>2, <1>3, <1>4 DEF IInv

LEMMA Inductive == FetchSpec => []IInv
BY InitIInv, StepIInv, PTL DEF FetchSpec

\* The type invariant holds for every set of files and archives.
THEOREM FetchTypeCorrect == FetchSpec => []TypeOK
<1>1. IInv => TypeOK
  BY DEF IInv
<1> QED BY <1>1, Inductive, PTL

\* Nobody ever reads a torn module at dest.
THEOREM FetchNeverTears == FetchSpec => []NeverTorn
<1>1. IInv => NeverTorn
  BY DEF IInv, DiskInv, NeverTorn
<1> QED BY <1>1, Inductive, PTL

\* What Fetch returns is the truth about the entry.
THEOREM FetchTellsOutcome == FetchSpec => []OutcomeTold
<1>1. IInv => OutcomeTold
  BY DEF IInv, PointInv, HistoryInv, InFlight, Recovering, Downloading, OutcomeTold
<1> QED BY <1>1, Inductive, PTL

\* The entry stays at dest for as long as the download lasts.
THEOREM FetchServesWhileDownloading == FetchSpec => []ServedWhileDownloading
<1>1. IInv => ServedWhileDownloading
  BY DEF IInv, PointInv, HistoryInv, Entry, InFlight, Recovering, Downloading,
         ServedWhileDownloading
<1> QED BY <1>1, Inductive, PTL

\* A step of Fetch replaces the entry by a whole module, or leaves it alone.
LEMMA StepRefines ==
  IInv /\ [FetchNext]_fvars => [Cache!Replace]_Entry
<1> SUFFICES ASSUME IInv, [FetchNext]_fvars PROVE Cache!Replace \/ Entry' = Entry
  OBVIOUS
<1> USE DEF IInv, PointInv, Entry, InFlight, Recovering, Downloading, paths, Goto
<1>1. CASE Publish
  BY <1>1, ModuleFacts DEF Publish, Cache!Replace
<1>2. CASE RestoreBackup \/ Rollback \/ Park
  BY <1>2 DEF RestoreBackup, Rollback, Park, Movable
<1>3. CASE RemoveBackup
  BY <1>3, ModuleFacts DEF RemoveBackup, DiskInv
<1>4. CASE UNCHANGED <<dest, backup>>
  BY <1>4
<1>5. CASE FetchBegin \/ MkdirParent \/ RemovePartial \/ PartialRemoved
             \/ LstatDest \/ BackupRemoved \/ LstatBackup \/ GetStart
  BY <1>5, <1>4 DEF FetchBegin, MkdirParent, RemovePartial, PartialRemoved,
         LstatDest, BackupRemoved, LstatBackup, GetStart
<1>6. CASE Extract \/ GetDone \/ LstatOld \/ FsError \/ FetchReturn \/ FetchCrash
  BY <1>6, <1>4 DEF Extract, GetDone, LstatOld, FsError, FetchReturn, FetchCrash
<1> QED
  BY <1>1, <1>2, <1>3, <1>4, <1>5, <1>6 DEF FetchNext, Work, fvars

\* The three paths implement one entry that is never torn and never lost.
THEOREM FetchKeepsLastGood == FetchSpec => KeepsLastGood
<1>1. FetchInit => Cache!Init
  BY DEF FetchInit, Cache!Init, Entry
<1> QED BY <1>1, Inductive, StepRefines, PTL DEF FetchSpec, KeepsLastGood, Cache!Spec
===============================================================================
