----------------------------- MODULE ModuleServer -----------------------------
(***************************************************************************)
(* One Server (server.go, schema.go) and the goroutines that call it for   *)
(* one module version: the in-memory memo, the read-write mutex, the disk  *)
(* cache entry maintained by Fetch (module Downloader), and the inspection *)
(* of the module, which reads the disk without the mutex.                  *)
(*                                                                         *)
(* A file of Downloader stands here for the Terraform source of one        *)
(* directory of the module: Root, or a submodule.  A call is GetModule     *)
(* (op = Root), GetSubmodule (op = the submodule) or ListSubmodules        *)
(* (op = List).  Critical sections that only read or write the memo are    *)
(* one step: they wait for the mutex but hold it across nothing else.      *)
(* Each reading of the disk may fail, or miss a file, for an error of the  *)
(* file system that says nothing of what is there.                         *)
(***************************************************************************)
EXTENDS Downloader

CONSTANTS
  Callers,            \* goroutines
  Root,               \* the root directory of the module
  List,               \* the operation ListSubmodules
  Free,               \* nobody holds the mutex
  Forced,             \* Server.forceFetch
  MaxReadErrors       \* bound: readings of the disk that fail

ASSUME RootAssumption     == Root \in Files /\ List \notin Files
ASSUME FreeAssumption     == Free \notin Callers
ASSUME OptionsAssumption  == Forced \in BOOLEAN
ASSUME ReadingAssumption  == MaxReadErrors \in Nat
\* An archive without a file would never be a cache hit: the code then downloads
\* at every call.  Left out here.
ASSUME ArchivesAssumption ==
  Contents # {} /\ \A c \in Contents : FilesOf[c] # {}

VARIABLES
  mode,       \* "registry" (Request.Source is empty) or "source"; never changes
  mu,         \* who holds the write lock of Server.mu
  memo,       \* Server.moduleCache, by directory of the module
  pc, op,     \* of each caller
  status,     \* what the call reported through cacheStatusFn
  answer,     \* what the call has read so far, or returned
  readErrors, \* how many readings of the disk have failed
  unread,     \* history: who holds the mutex could not read the entry there is
  misread,    \* history: that has happened
  own         \* history: the archive the call downloaded, if nobody has touched
              \* the entry since

history == <<unread, misread, own>>
svars   == <<mode, mu, memo, pc, op, status, answer, readErrors, history>>
vars    == <<fvars, svars>>

Ops == Files \cup {List}

\* What LoadModule found (tf), whether it had errors to tell (diags: they become
\* Module.Diagnostics), what ephemeralVariables found (eph), each by the directory
\* and the archive it came from, and the list of submodules.
Found   == Ops \X Contents
Answers == [tf : SUBSET Found, diags : BOOLEAN, eph : SUBSET Found, subs : SUBSET Files]
Blank   == [tf |-> {}, diags |-> FALSE, eph |-> {}, subs |-> {}]

\* What the directory d of the entry on disk holds at this instant.
Read(d)    == {t \in {d} \X Contents : dest # NoDir /\ t \in dest}
HasDir(d)  == dest # NoDir /\ (d = Root \/ Read(d) # {})
Submodules == {d \in Files \ {Root} : Read(d) # {}}

EntryThere == dest # NoDir /\ dest # {}

\* A directory that cannot be read counts as no entry.
cacheDirExistsNonEmpty(readable) == readable /\ EntryThere

\* A reading of the disk fails, if the condition holds.
ErrorIf(failed) ==
  /\ readErrors' = IF failed THEN readErrors + 1 ELSE readErrors
  /\ readErrors' <= MaxReadErrors

-------------------------------------------------------------------------------

ServerInit ==
  /\ FetchInit
  /\ mode \in {"registry", "source"}
  /\ mu = Free
  /\ memo = [d \in Files |-> None]
  /\ pc = [p \in Callers |-> "idle"]
  /\ op = [p \in Callers |-> Root]
  /\ status = [p \in Callers |-> "none"]
  /\ answer = [p \in Callers |-> Blank]
  /\ readErrors = 0
  /\ unread = FALSE /\ misread = FALSE
  /\ own = [p \in Callers |-> None]

Move(p, from, to) == pc[p] = from /\ pc' = [pc EXCEPT ![p] = to]

Call(p) ==
  /\ \E o \in Ops : /\ op' = [op EXCEPT ![p] = o]
                    /\ Move(p, "idle", IF o = List THEN "lock" ELSE "lookup")
  /\ UNCHANGED <<fvars, mode, mu, memo, status, answer, readErrors, history>>

\* Variant: the zero value of the map is returned on a miss.
LookupAlways(p) ==
  /\ mu = Free
  /\ Move(p, "lookup", "returned")
  /\ answer' = [answer EXCEPT ![p] = memo[op[p]]]
  /\ UNCHANGED <<fvars, mode, mu, memo, op, status, readErrors, history>>

\* The memo, under the read lock: consulted even by a Server that forces fetches.
Lookup(p) ==
  /\ pc[p] = "lookup" /\ mu = Free
  /\ LET m == memo[op[p]] IN
       \/ m = None /\ Move(p, "lookup", "lock") /\ UNCHANGED answer
       \/ m # None /\ Move(p, "lookup", "returned")
                   /\ answer' = [answer EXCEPT ![p] = m]
  /\ UNCHANGED <<fvars, mode, mu, memo, op, status, readErrors, history>>

Lock(p) ==
  /\ mu = Free
  /\ mu' = p
  /\ Move(p, "lock", "check")
  /\ UNCHANGED <<fvars, mode, memo, op, status, answer, readErrors, history>>

\* Variant: the disk cache is not consulted again under the lock.
CheckNothing(p) ==
  /\ \/ mode = "source" /\ Move(p, "check", "callback")
                        /\ status' = [status EXCEPT ![p] = "miss"]
     \/ mode = "registry" /\ Move(p, "check", "resolve") /\ UNCHANGED status
  /\ UNCHANGED <<fvars, mode, mu, memo, op, answer, readErrors, history>>

\* The disk cache, under the write lock, if fetches are not forced.  Source mode has
\* nothing to resolve.
Check(p) ==
  /\ \E readable \in BOOLEAN :
       LET hit == ~Forced /\ cacheDirExistsNonEmpty(readable) IN
       /\ unread' = (~Forced /\ EntryThere /\ ~readable)
       /\ \/ hit /\ Move(p, "check", "callback")
                 /\ status' = [status EXCEPT ![p] = "hit"]
          \/ ~hit /\ mode = "source" /\ Move(p, "check", "callback")
                  /\ status' = [status EXCEPT ![p] = "miss"]
          \/ ~hit /\ mode = "registry" /\ Move(p, "check", "resolve")
                  /\ UNCHANGED status
  /\ ErrorIf(unread')
  /\ misread' = (misread \/ unread')
  /\ UNCHANGED <<fvars, mode, mu, memo, op, answer, own>>

\* Variant: the error path does not unlock.
ResolveLocked(p) ==
  /\ \/ /\ Move(p, "resolve", "callback")
        /\ status' = [status EXCEPT ![p] = "miss"]
     \/ Move(p, "resolve", "unfetched") /\ UNCHANGED status
  /\ UNCHANGED <<fvars, mode, mu, memo, op, answer, readErrors, history>>

\* Registry.ResolveDownload answers, or fails, while the mutex is held.
Resolve(p) ==
  /\ \/ /\ Move(p, "resolve", "callback")
        /\ status' = [status EXCEPT ![p] = "miss"]
        /\ UNCHANGED <<mu, unread>>
     \/ /\ Move(p, "resolve", "unfetched")
        /\ mu' = Free /\ unread' = FALSE
        /\ UNCHANGED status
  /\ UNCHANGED <<fvars, mode, memo, op, answer, readErrors, misread, own>>

AfterFetch(p) == IF op[p] = List THEN "list" ELSE "stat"

\* cacheStatusFn, a function that does not call the Server, runs while p holds
\* the mutex.  Then a hit is over and a miss calls Fetch.
Callback(p) ==
  /\ \/ /\ status[p] = "hit"
        /\ Move(p, "callback", AfterFetch(p))
        /\ mu' = Free
        /\ UNCHANGED fvars
     \/ /\ status[p] = "miss"
        /\ Move(p, "callback", "download")
        /\ FetchBegin
        /\ UNCHANGED mu
  /\ unread' = FALSE
  /\ UNCHANGED <<mode, memo, op, status, answer, readErrors, misread, own>>

\* A step of Fetch, which works for the holder of the mutex.  When it touches the
\* entry, the calls that are still to read it no longer read what they downloaded.
FetchStep ==
  /\ Work
  /\ own' = [p \in Callers |->
               IF dest' # dest /\ pc[p] # "returned" THEN None ELSE own[p]]
  /\ UNCHANGED <<mode, mu, memo, pc, op, status, answer, readErrors, unread, misread>>

\* Variant: the error of Fetch is ignored.
FetchedAnyway(p) ==
  /\ FetchReturn
  /\ Move(p, "download", AfterFetch(p))
  /\ mu' = Free
  /\ own' = [own EXCEPT ![p] = got]
  /\ UNCHANGED <<mode, memo, op, status, answer, readErrors, unread, misread>>

Fetched(p) ==
  /\ FetchReturn
  /\ \/ /\ fetch = "ok"
        /\ Move(p, "download", AfterFetch(p))
        /\ own' = [own EXCEPT ![p] = got]
     \/ /\ fetch = "failed"
        /\ Move(p, "download", "unfetched")
        /\ UNCHANGED own
  /\ mu' = Free
  /\ UNCHANGED <<mode, memo, op, status, answer, readErrors, unread, misread>>

\* inspectDir, without the mutex: stat, LoadModule, ephemeralVariables.
Stat(p) ==
  /\ \/ HasDir(op[p]) /\ Move(p, "stat", "load") /\ ErrorIf(FALSE)
     \/ Move(p, "stat", "uninspected") /\ ErrorIf(HasDir(op[p]))
  /\ UNCHANGED <<fvars, mode, mu, memo, op, status, answer, history>>

\* tfconfig tells what it could not read (or parse) in its diagnostics.
LoadModule(p) ==
  /\ Move(p, "load", "ephemeral")
  /\ \E found \in SUBSET Read(op[p]) :
       /\ ErrorIf(found # Read(op[p]))
       /\ answer' = [answer EXCEPT ![p] =
                       [@ EXCEPT !.tf = found,
                                 !.diags = (found # Read(op[p]) \/ ~HasDir(op[p]))]]
  /\ UNCHANGED <<fvars, mode, mu, memo, op, status, history>>

\* What cannot be read (or parsed) is left out, and nobody is told.
ephemeralVariables(p) ==
  /\ Move(p, "ephemeral", "store")
  /\ \E found \in SUBSET Read(op[p]) :
       /\ ErrorIf(found # Read(op[p]))
       /\ answer' = [answer EXCEPT ![p].eph = found]
  /\ UNCHANGED <<fvars, mode, mu, memo, op, status, history>>

\* Variant: the key of the memo lacks the subpath.
StoreAtRoot(p) ==
  /\ pc[p] = "store" /\ mu = Free
  /\ Move(p, "store", "returned")
  /\ memo' = [memo EXCEPT ![Root] = answer[p]]
  /\ UNCHANGED <<fvars, mode, mu, op, status, answer, readErrors, history>>

Store(p) ==
  /\ pc[p] = "store" /\ mu = Free
  /\ Move(p, "store", "returned")
  /\ memo' = [memo EXCEPT ![op[p]] = answer[p]]
  /\ UNCHANGED <<fvars, mode, mu, op, status, answer, readErrors, history>>

\* Variant: every directory of the module is listed.
listEveryDir(p) ==
  /\ Move(p, "list", "returned")
  /\ answer' = [answer EXCEPT ![p].subs = {d \in Files : Read(d) # {}}]
  /\ UNCHANGED <<fvars, mode, mu, memo, op, status, readErrors, history>>

\* A missing modules/ directory is an empty list, one that cannot be read an error;
\* a submodule that cannot be read (tfconfig.IsModuleDir) is left out.
listSubmoduleDirs(p) ==
  /\ \/ \E subs \in SUBSET Submodules :
          /\ Move(p, "list", "returned")
          /\ ErrorIf(subs # Submodules)
          /\ answer' = [answer EXCEPT ![p].subs = subs]
     \/ Move(p, "list", "uninspected") /\ ErrorIf(TRUE) /\ UNCHANGED answer
  /\ UNCHANGED <<fvars, mode, mu, memo, op, status, history>>

Return(p) ==
  /\ \E end \in {"returned", "unfetched", "uninspected"} : Move(p, end, "idle")
  /\ op' = [op EXCEPT ![p] = Root]
  /\ status' = [status EXCEPT ![p] = "none"]
  /\ answer' = [answer EXCEPT ![p] = Blank]
  /\ own' = [own EXCEPT ![p] = None]
  /\ UNCHANGED <<fvars, mode, mu, memo, readErrors, unread, misread>>

\* The process dies and is started again: only the disk is left.
Crash ==
  /\ FetchCrash \/ FetchReturn \/ (fetch = "idle" /\ UNCHANGED fvars)
  /\ mu' = Free
  /\ memo' = [d \in Files |-> None]
  /\ pc' = [p \in Callers |-> "idle"]
  /\ op' = [p \in Callers |-> Root]
  /\ status' = [p \in Callers |-> "none"]
  /\ answer' = [p \in Callers |-> Blank]
  /\ unread' = FALSE
  /\ own' = [p \in Callers |-> None]
  /\ UNCHANGED <<mode, readErrors, misread>>

\* The steps a call takes once it is made; the first three wait for the mutex.
Waiting(p) == Lookup(p) \/ Lock(p) \/ Store(p)
Moving(p) ==
  \/ Check(p) \/ Resolve(p)    \/ Callback(p)           \/ Fetched(p)
  \/ Stat(p)  \/ LoadModule(p) \/ ephemeralVariables(p) \/ listSubmoduleDirs(p)
  \/ Return(p)

ServerNext ==
  \/ \E p \in Callers : Call(p) \/ Waiting(p) \/ Moving(p)
  \/ FetchStep
  \/ Crash

Spec == ServerInit /\ [][ServerNext]_vars

\* Goroutines keep running; sync.RWMutex lets no waiter starve (a waiting writer
\* stops new readers, and a waiter passed over for 1ms is handed the mutex).  Of the
\* world outside it is assumed that the registry (Resolve) and go-getter (FetchStep)
\* answer or fail some time; the code sets no time limit of its own.
Fairness ==
  /\ WF_vars(FetchStep)
  /\ \A p \in Callers : WF_vars(Moving(p)) /\ SF_vars(Waiting(p))

FairSpec == Spec /\ Fairness

-------------------------------------------------------------------------------

Stages == {"idle", "lookup", "lock", "check", "resolve", "callback", "download", "stat",
           "load", "ephemeral", "store", "list", "returned", "unfetched", "uninspected"}

\* Type invariant of the Server and its callers.
ServerTypeOK ==
  /\ TypeOK
  /\ mode \in {"registry", "source"}
  /\ mu \in Callers \cup {Free}
  /\ memo \in [Files -> {None} \cup Answers]
  /\ pc \in [Callers -> Stages]
  /\ op \in [Callers -> Ops]
  /\ status \in [Callers -> {"none", "hit", "miss"}]
  /\ answer \in [Callers -> Answers]
  /\ readErrors \in 0 .. MaxReadErrors
  /\ unread \in BOOLEAN /\ misread \in BOOLEAN
  /\ own \in [Callers -> Contents \cup {None}]

\* What a caller can tell of its call.
Progress(p) ==
  CASE pc[p] = "idle"                       -> "idle"
    [] pc[p] = "returned"                   -> "answered"
    [] pc[p] \in {"unfetched", "uninspected"} -> pc[p]
    [] OTHER                                -> "asked"

Promise ==
  INSTANCE ModuleStore WITH
    entry  <- dest,
    blind  <- misread,
    call   <- [p \in Callers |-> Progress(p)],
    answer <- [p \in Callers |-> IF pc[p] = "returned" THEN answer[p] ELSE Blank]

\* Whatever the download location serves over time, all the answers the Server
\* has given to the calls at hand (root, submodules, lists of submodules; from
\* the memo, the disk cache or a download) come from one archive, what could not be
\* read left out (schema.go:130-155: what is inspected outside the mutex is memoised).
\* It holds until an entry that is there cannot be read (cache.go:179-182).
AnswersConsistent ==
  ~misread =>
    \E c \in Contents :
      \A p \in Callers :
        pc[p] = "returned" => Promise!Gives(Module(c), op[p], answer[p])

\* The memo never says anything else than the entry on disk does, also when the
\* entry outlives the process that downloaded it.
MemoIsDisk ==
  ~misread =>
    \A d \in Files : memo[d] # None =>
      dest \in Modules /\ Promise!Gives(dest, d, memo[d])

\* The directory fetchModule returned is there for as long as the caller inspects
\* it without the mutex (server.go:285-287: "ensures that the module source
\* for req is available on disk").
AvailableOnDisk ==
  ~misread =>
    \A p \in Callers : pc[p] \in {"stat", "load", "ephemeral", "list"} => EntryThere

\* A call that downloaded answers from what it downloaded, not from what was there
\* before nor from the backup, unless another goroutine's Fetch has touched the entry
\* while the call inspected it: with forced fetches and unreadable entries too.
OwnDownload ==
  \A p \in Callers : pc[p] = "returned" /\ own[p] # None =>
    Promise!Gives(Module(own[p]), op[p], answer[p])

\* No call downloads what another one has already put in the cache, in whatever
\* order they found the memo empty (server.go:303-310: the check is under the lock),
\* unless it could not itself read the entry.
DownloadsOnce ==
  [][fetch = "idle" /\ fetch' = "mkdirParent" /\ EntryThere => unread]_vars

\* Every call returns: the mutex is always given back and no caller is passed
\* over for ever (server.go:334-341: "simple and deadlock-free").
CallsReturn == \A p \in Callers : pc[p] # "idle" ~> pc[p] = "idle"

\* To its callers the Server is a store that is filled once and answers each call in
\* one step from what it holds; a call fails for want of a module, or because the
\* directory asked for is not in it or cannot be read, never for a registry or a
\* download that was not needed (schema.go:12-75, server.go:285-310).  This holds of
\* the whole course of the calls, where AnswersConsistent compares those at hand.
ActsAsStore == Promise!Spec
===============================================================================
