------------------------------ MODULE CacheEntry ------------------------------
(***************************************************************************)
(* What the cache promises for ONE entry, whatever happens to the process  *)
(* that maintains it: at any time the entry is either absent or one whole  *)
(* module, and the only thing that ever happens to it is that it is        *)
(* replaced by another whole module.  It is never torn and never lost.     *)
(* (The promise is worded in the comments of download.go:12-27.)           *)
(***************************************************************************)
CONSTANTS
  Modules,      \* the whole modules: complete trees of files
  NoDir         \* the absence of a directory

VARIABLE entry

Init == entry = NoDir

\* A download that succeeded took the place of whatever was there.
Replace == entry' \in Modules

Spec == Init /\ [][Replace]_entry
===============================================================================
