---------------------------- MODULE SharedCacheDir ----------------------------
(***************************************************************************)
(* Two downloaders at work on one cache entry: two Servers of a process,   *)
(* or two processes (two runs of the command line tool), configured with   *)
(* the same cache directory, which is the default.  Each Server has a      *)
(* mutex of its own, so nothing orders the calls of one with those of the  *)
(* other.  The paths are shared, everything else is local to a call.       *)
(***************************************************************************)
EXTENDS Naturals

CONSTANTS Files, Contents, FilesOf, NoDir, None, MaxFaults,
          Overlap       \* FALSE: the environment keeps the two calls apart

ASSUME FilesAssumption   == FilesOf \in [Contents -> SUBSET Files]
ASSUME NoDirAssumption   == \A t \in SUBSET (Files \X Contents) : t # NoDir
ASSUME NoneAssumption    == None \notin Contents
ASSUME FaultsAssumption  == MaxFaults \in Nat
ASSUME OverlapAssumption == Overlap \in BOOLEAN

VARIABLES dest, partial, backup, faults,
          fetch1, got1, todo1, haveBackup1, before1,
          fetch2, got2, todo2, haveBackup2, before2,
          alone1, alone2      \* history: the other made no step during the call

local1 == <<fetch1, got1, todo1, haveBackup1, before1>>
local2 == <<fetch2, got2, todo2, haveBackup2, before2>>
vars   == <<dest, partial, backup, faults, local1, local2, alone1, alone2>>

D1 == INSTANCE Downloader WITH fetch <- fetch1, got <- got1, todo <- todo1,
                               haveBackup <- haveBackup1, before <- before1
D2 == INSTANCE Downloader WITH fetch <- fetch2, got <- got2, todo <- todo2,
                               haveBackup <- haveBackup2, before <- before2

Init ==
  /\ D1!FetchInit /\ D2!FetchInit
  /\ alone1 = FALSE /\ alone2 = FALSE

Step1 ==
  /\ D1!FetchNext
  /\ fetch1 = "idle" => Overlap \/ fetch2 = "idle"
  /\ alone1' = (fetch1 = "idle" \/ alone1) /\ alone2' = FALSE
  /\ UNCHANGED local2

Step2 ==
  /\ D2!FetchNext
  /\ fetch2 = "idle" => Overlap \/ fetch1 = "idle"
  /\ alone2' = (fetch2 = "idle" \/ alone2) /\ alone1' = FALSE
  /\ UNCHANGED local1

Next == Step1 \/ Step2

Spec == Init /\ [][Next]_vars

\* "... atomically renamed into place, so an interrupted download never leaves a
\* half-populated cache entry" (README.md:370-372), whoever downloads.
NeverHalfPopulated == D1!NeverTorn

\* Whatever wreckage the overlap left before (an entry of two archives, a half
\* removed backup, a partial another call is still filling), a call that nobody
\* disturbs any more tells the truth (download.go:20-27): nil only with the whole
\* archive at dest, an error only with the entry as the call found it.
Undisturbed ==
  /\ alone1 => D1!OutcomeTold
  /\ alone2 => D2!OutcomeTold
===============================================================================
