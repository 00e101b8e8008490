------------------------------ MODULE Downloader ------------------------------
(***************************************************************************)
(* downloader.Fetch (download.go) for one cache entry: the three paths     *)
(* "<dest>", "<dest>.partial" and "<dest>.backup" on disk, and the control *)
(* point of the call.  Every file-system call is a step of its own, so     *)
(* that a crash may fall between any two of them; os.RemoveAll and the     *)
(* extraction go-getter performs work file by file, so that a crash or an  *)
(* error may fall in the middle of them.                                   *)
(*                                                                         *)
(* A tree is a set of <<file, content>> pairs: a file of the module and    *)
(* the archive it was extracted from.                                      *)
(***************************************************************************)
EXTENDS Naturals

CONSTANTS
  Files,        \* the files a module may be made of
  Contents,     \* the archives the download location may serve over time
  FilesOf,      \* the files of each archive
  NoDir,        \* nothing exists at the path
  None,         \* no archive chosen
  MaxFaults     \* bound: file-system and network errors, and crashes

Trees == SUBSET (Files \X Contents)

ASSUME FilesAssumption  == FilesOf \in [Contents -> SUBSET Files]
ASSUME NoDirAssumption  == \A t \in Trees : t # NoDir
ASSUME NoneAssumption   == None \notin Contents
ASSUME FaultsAssumption == MaxFaults \in Nat

VARIABLES
  dest, partial, backup,    \* what is at the three paths
  fetch,                    \* the next call Fetch makes
  got, todo,                \* go-getter: the archive, the files left to write
  haveBackup,               \* the Go variable
  before,                   \* history: the entry when Fetch was called
  faults                    \* how many faults have happened

paths == <<dest, partial, backup>>
fvars == <<dest, partial, backup, fetch, got, todo, haveBackup, before, faults>>

Module(c) == FilesOf[c] \X {c}
Modules   == {Module(c) : c \in Contents}

\* The last known-good entry: dest, or the backup that recovery would restore.
Entry == IF dest # NoDir THEN dest ELSE backup

\* The control points of a call under way, each named for the call it makes next.
Recovering  == {"mkdirParent", "clearPartial", "lstatDest", "clearBackup",
                "lstatBackup", "restore"}
Downloading == {"get", "extract", "lstatOld", "park"}
InFlight    == Recovering \cup Downloading
                 \cup {"publish", "abort", "rollback", "dropBackup"}
Points      == InFlight \cup {"idle", "ok", "failed"}

-------------------------------------------------------------------------------

FetchInit ==
  /\ dest = NoDir /\ partial = NoDir /\ backup = NoDir
  /\ fetch = "idle"
  /\ got = None /\ todo = {}
  /\ haveBackup = FALSE
  /\ before = NoDir
  /\ faults = 0

FetchBegin ==
  /\ fetch = "idle"
  /\ fetch' = "mkdirParent"
  /\ got' = None /\ todo' = {} /\ haveBackup' = FALSE
  /\ before' = Entry
  /\ UNCHANGED <<paths, faults>>

Goto(p) == fetch' = p /\ UNCHANGED <<before, faults>>

\* Variant: a stale partial is not removed.
MkdirParentOnly ==
  /\ fetch = "mkdirParent"
  /\ Goto("lstatDest")
  /\ UNCHANGED <<paths, got, todo, haveBackup>>

MkdirParent ==
  /\ fetch = "mkdirParent"
  /\ Goto("clearPartial")
  /\ UNCHANGED <<paths, got, todo, haveBackup>>

\* os.RemoveAll goes one entry at a time, the directory itself last.
Unlinked(tree) == IF tree = {} THEN {NoDir} ELSE {tree \ {f} : f \in tree}

RemovePartial ==
  /\ fetch \in {"clearPartial", "abort"}
  /\ partial # NoDir
  /\ partial' \in Unlinked(partial)
  /\ UNCHANGED <<dest, backup, fetch, got, todo, haveBackup, before, faults>>

RemoveBackup ==
  /\ fetch \in {"clearBackup", "dropBackup"}
  /\ backup # NoDir
  /\ backup' \in Unlinked(backup)
  /\ UNCHANGED <<dest, partial, fetch, got, todo, haveBackup, before, faults>>

\* A publish that failed puts the parked entry back.
AfterAbort == IF haveBackup THEN "rollback" ELSE "failed"

PartialRemoved ==
  /\ partial = NoDir
  /\ \/ fetch = "clearPartial" /\ Goto("lstatDest")
     \/ fetch = "abort" /\ Goto(AfterAbort)
  /\ UNCHANGED <<paths, got, todo, haveBackup>>

BackupRemoved ==
  /\ backup = NoDir
  /\ \/ fetch = "clearBackup" /\ Goto("get")
     \/ fetch = "dropBackup" /\ Goto("ok")
  /\ UNCHANGED <<paths, got, todo, haveBackup>>

\* Variant: the backup is taken for garbage although there is no entry.
LstatNothing ==
  /\ fetch = "lstatDest"
  /\ Goto("clearBackup")
  /\ UNCHANGED <<paths, got, todo, haveBackup>>

LstatDest ==
  /\ fetch = "lstatDest"
  /\ Goto(IF dest # NoDir THEN "clearBackup" ELSE "lstatBackup")
  /\ UNCHANGED <<paths, got, todo, haveBackup>>

\* Variant: the backup is not restored.
LstatBackupIgnored ==
  /\ fetch = "lstatBackup"
  /\ Goto("get")
  /\ UNCHANGED <<paths, got, todo, haveBackup>>

\* Variant: a backup without an entry is an error.
LstatBackupRefused ==
  /\ fetch = "lstatBackup"
  /\ Goto(IF backup # NoDir THEN "failed" ELSE "get")
  /\ UNCHANGED <<paths, got, todo, haveBackup>>

LstatBackup ==
  /\ fetch = "lstatBackup"
  /\ Goto(IF backup # NoDir THEN "restore" ELSE "get")
  /\ UNCHANGED <<paths, got, todo, haveBackup>>

\* os.Rename moves an existing directory to a path where there is none.
Movable(from, to) == from # NoDir /\ to = NoDir

RestoreBackup ==
  /\ fetch = "restore"
  /\ Movable(backup, dest)
  /\ dest' = backup /\ backup' = NoDir
  /\ Goto("get")
  /\ UNCHANGED <<partial, got, todo, haveBackup>>

\* go-getter: create the directory, write the files in any order.
GetStart ==
  /\ fetch = "get"
  /\ got' \in Contents
  /\ todo' = FilesOf[got']
  /\ partial' = IF partial = NoDir THEN {} ELSE partial
  /\ Goto("extract")
  /\ UNCHANGED <<dest, backup, haveBackup>>

\* Variant: the file is created and nothing is written to it.
WrittenEmpty(tree, f) ==
  {g \in (IF tree = NoDir THEN {} ELSE tree) : g[1] # f} \cup {<<f, None>>}

Written(tree, f) ==
  {g \in (IF tree = NoDir THEN {} ELSE tree) : g[1] # f} \cup {<<f, got>>}

Extract ==
  /\ fetch = "extract"
  /\ \E f \in todo : /\ partial' = Written(partial, f)
                     /\ todo' = todo \ {f}
  /\ UNCHANGED <<dest, backup, fetch, got, haveBackup, before, faults>>

GetDone ==
  /\ fetch = "extract"
  /\ todo = {}
  /\ Goto("lstatOld")
  /\ UNCHANGED <<paths, got, todo, haveBackup>>

LstatOld ==
  /\ fetch = "lstatOld"
  /\ Goto(IF dest # NoDir THEN "park" ELSE "publish")
  /\ UNCHANGED <<paths, got, todo, haveBackup>>

Park ==
  /\ fetch = "park"
  /\ Movable(dest, backup)
  /\ backup' = dest /\ dest' = NoDir
  /\ haveBackup' = TRUE
  /\ Goto("publish")
  /\ UNCHANGED <<partial, got, todo>>

Publish ==
  /\ fetch = "publish"
  /\ Movable(partial, dest)
  /\ dest' = partial /\ partial' = NoDir
  /\ Goto(IF haveBackup THEN "dropBackup" ELSE "ok")
  /\ UNCHANGED <<backup, got, todo, haveBackup>>

\* Variant: the publish error is lost once the rollback succeeds.
RollbackSwallows ==
  /\ fetch = "rollback"
  /\ Movable(backup, dest)
  /\ dest' = backup /\ backup' = NoDir
  /\ Goto("ok")
  /\ UNCHANGED <<partial, got, todo, haveBackup>>

Rollback ==
  /\ fetch = "rollback"
  /\ Movable(backup, dest)
  /\ dest' = backup /\ backup' = NoDir
  /\ Goto("failed")
  /\ UNCHANGED <<partial, got, todo, haveBackup>>

\* Variant: the error is lost when the rollback fails too.
OnErrorSwallowed ==
  CASE fetch \in Recovering                  -> "failed"
    [] fetch \in Downloading \cup {"publish"} -> "abort"
    [] fetch = "abort"                        -> AfterAbort
    [] fetch \in {"dropBackup", "rollback"}   -> "ok"

\* Where the call goes on when the call it was about to make fails.
OnError ==
  CASE fetch \in Recovering \cup {"rollback"} -> "failed"
    [] fetch \in Downloading \cup {"publish"} -> "abort"
    [] fetch = "abort"                        -> AfterAbort
    [] fetch = "dropBackup"                   -> "ok"

\* A rename the file system refuses whatever the weather.
Blocked ==
  CASE fetch \in {"restore", "rollback"} -> ~Movable(backup, dest)
    [] fetch = "park"                    -> ~Movable(dest, backup)
    [] fetch = "publish"                 -> ~Movable(partial, dest)
    [] OTHER                             -> FALSE

FsError ==
  /\ fetch \in InFlight
  /\ fetch' = OnError
  /\ faults' = IF Blocked THEN faults ELSE faults + 1
  /\ faults' <= MaxFaults
  /\ UNCHANGED <<paths, got, todo, haveBackup, before>>

FetchReturn ==
  /\ fetch \in {"ok", "failed"}
  /\ Goto("idle")
  /\ UNCHANGED <<paths, got, todo, haveBackup>>

\* The process dies: the disk is all that is left.
FetchCrash ==
  /\ fetch \in InFlight
  /\ fetch' = "idle"
  /\ faults' = faults + 1 /\ faults' <= MaxFaults
  /\ UNCHANGED <<paths, got, todo, haveBackup, before>>

Work ==
  \/ MkdirParent    \/ RemovePartial \/ PartialRemoved \/ LstatDest
  \/ RemoveBackup   \/ BackupRemoved \/ LstatBackup    \/ RestoreBackup
  \/ GetStart       \/ Extract       \/ GetDone        \/ LstatOld
  \/ Park           \/ Publish       \/ Rollback       \/ FsError

FetchNext == FetchBegin \/ Work \/ FetchReturn \/ FetchCrash

FetchSpec == FetchInit /\ [][FetchNext]_fvars

\* The goroutine that called Fetch keeps running.
Running == WF_fvars(Work \/ FetchReturn)

FairFetchSpec == FetchSpec /\ Running

\* A program that calls Fetch again whenever the last call is over.
KeepsCalling == WF_fvars(FetchBegin)

-------------------------------------------------------------------------------

\* Type invariant of the state of Fetch and of the three paths it works on.
TypeOK ==
  /\ dest \in {NoDir} \cup Trees
  /\ partial \in {NoDir} \cup Trees
  /\ backup \in {NoDir} \cup Trees
  /\ before \in {NoDir} \cup Trees
  /\ fetch \in Points
  /\ got \in Contents \cup {None}
  /\ todo \subseteq Files
  /\ haveBackup \in BOOLEAN
  /\ faults \in 0 .. MaxFaults

\* What a reader finds at dest is one whole module, at every instant: no
\* interrupted extraction, interrupted os.RemoveAll or interrupted swap shows
\* (download.go:12-15).
NeverTorn == dest \in {NoDir} \cup Modules

\* A call that returns an error leaves the last known-good entry as it found
\* it, at dest or in the backup the next call restores; a call that returns nil
\* leaves the archive it downloaded at dest (download.go:20-27).
OutcomeTold ==
  /\ fetch = "failed" => Entry = before
  /\ fetch = "ok" => dest = Module(got)

\* Recovery comes before the download: whatever entry there was stays readable
\* at dest for as long as the download lasts (download.go:48-68, 78-79).
ServedWhileDownloading ==
  fetch \in Downloading => dest = before

\* The three paths together implement one cache entry that is never torn and
\* never lost, through failed renames, failed rollbacks and crashes.
Cache == INSTANCE CacheEntry WITH entry <- Entry
KeepsLastGood == Cache!Spec

\* An entry that a crash or a failed rollback left parked in the backup is
\* back at dest sooner or later, if Fetch keeps being called and faults end.
ParkedComesBack ==
  KeepsCalling => ((dest = NoDir /\ backup # NoDir) ~> (dest # NoDir))

===============================================================================
