---------------------------- MODULE CustomRegistry ----------------------------
(***************************************************************************)
(* The custom registry of a Server, from several goroutines at once:       *)
(* Server.registryFor materialises one LazyCustom on first use, with a     *)
(* second look under the write lock (server.go:172-204); LazyCustom        *)
(* resolves its endpoint by service discovery on first use, under a        *)
(* sync.Once whose outcome, good or bad, is final (lazy_custom.go:105-141).*)
(*                                                                         *)
(* A call is GetModule: registryFor, then ListVersions unless the version  *)
(* is concrete, then (fetchModule) registryFor again and ResolveDownload,  *)
(* the latter with Server.mu held, unless the memo or the disk cache has   *)
(* the module.                                                             *)
(* A LazyCustom is named by the goroutine that constructed it.             *)
(***************************************************************************)
EXTENDS Naturals

CONSTANTS
  Callers,      \* goroutines
  None          \* no registry; nobody

ASSUME NoneAssumption == None \notin Callers

VARIABLES
  pending,      \* whether WithCustomRegistry was applied; never changes
  mu,           \* who holds the write lock of Server.mu
  registry,     \* Server.registries[RegistryTypeCustom]
  once,         \* of each LazyCustom: its sync.Once
  outcome,      \* of each LazyCustom: err is nil ("ok") or not ("error")
  pc, stage,    \* of each caller: control point, and what it is about to ask
  reg,          \* of each caller: the registry that registryFor returned
  told,         \* of each caller: the last outcome of discovery it was told
  asked         \* history: how many discoveries were performed

vars == <<pending, mu, registry, once, outcome, pc, stage, reg, told, asked>>

Init ==
  /\ pending \in BOOLEAN
  /\ mu = None /\ registry = None
  /\ once = [r \in Callers |-> "fresh"]
  /\ outcome = [r \in Callers |-> "none"]
  /\ pc = [p \in Callers |-> "idle"]
  /\ stage = [p \in Callers |-> "versions"]
  /\ reg = [p \in Callers |-> None]
  /\ told = [p \in Callers |-> "none"]
  /\ asked = 0

Move(p, from, to) == pc[p] = from /\ pc' = [pc EXCEPT ![p] = to]

\* A constraint, or a concrete version that needs no list of versions.
Call(p) ==
  /\ Move(p, "idle", "find")
  /\ \E s \in {"versions", "download"} : stage' = [stage EXCEPT ![p] = s]
  /\ UNCHANGED <<pending, mu, registry, once, outcome, reg, told, asked>>

\* ListVersions is called without the mutex, ResolveDownload with it.
Ready(p) == IF stage[p] = "versions" THEN "once" ELSE "lock"

\* Variant: what the map holds is returned without asking whether it holds any.
FindAnything(p) ==
  /\ mu = None
  /\ Move(p, "find", Ready(p))
  /\ reg' = [reg EXCEPT ![p] = registry]
  /\ UNCHANGED <<pending, mu, registry, once, outcome, stage, told, asked>>

\* registryFor: the look under the read lock, ...
Find(p) ==
  /\ mu = None
  /\ IF registry # None
       THEN Move(p, "find", Ready(p)) /\ reg' = [reg EXCEPT ![p] = registry]
       ELSE Move(p, "find", "create") /\ UNCHANGED reg
  /\ UNCHANGED <<pending, mu, registry, once, outcome, stage, told, asked>>

\* Variant: no second look under the write lock.
CreateAnother(p) ==
  /\ pending
  /\ mu = None
  /\ Move(p, "create", Ready(p))
  /\ registry' = p
  /\ reg' = [reg EXCEPT ![p] = registry']
  /\ UNCHANGED <<pending, mu, once, outcome, stage, told, asked>>

\* ... and the look under the write lock, before NewLazyCustom.
Create(p) ==
  /\ pending
  /\ mu = None
  /\ Move(p, "create", Ready(p))
  /\ registry' = IF registry # None THEN registry ELSE p
  /\ reg' = [reg EXCEPT ![p] = registry']
  /\ UNCHANGED <<pending, mu, once, outcome, stage, told, asked>>

\* "no custom registry configured".
Refuse(p) ==
  /\ ~pending
  /\ Move(p, "create", "idle")
  /\ UNCHANGED <<pending, mu, registry, once, outcome, stage, reg, told, asked>>

Lock(p) ==
  /\ mu = None
  /\ mu' = p
  /\ Move(p, "lock", "locked")
  /\ UNCHANGED <<pending, registry, once, outcome, stage, reg, told, asked>>

Unlock(p) == mu' = IF mu = p THEN None ELSE mu

\* Variant: the mutex is kept.
FinishLocked(p, from) ==
  /\ Move(p, from, "idle")
  /\ reg' = [reg EXCEPT ![p] = None]
  /\ UNCHANGED mu

\* The call is over; its deferred Unlock runs if it took the lock.
Finish(p, from) ==
  /\ Move(p, from, "idle")
  /\ Unlock(p)
  /\ reg' = [reg EXCEPT ![p] = None]

\* getModule looks in the memo first, under the read lock.
MemoHit(p) ==
  /\ mu = None
  /\ Finish(p, "lock")
  /\ UNCHANGED <<pending, registry, once, outcome, stage, told, asked>>

DiskHit(p) ==
  /\ Finish(p, "locked")
  /\ UNCHANGED <<pending, registry, once, outcome, stage, told, asked>>

DiskMiss(p) ==
  /\ Move(p, "locked", "once")
  /\ UNCHANGED <<pending, mu, registry, once, outcome, stage, reg, told, asked>>

\* Variant: whoever comes after the discovery performs it again.
EnterAgain(p) ==
  /\ Move(p, "once", "discover")
  /\ once[reg[p]] # "running"
  /\ once' = [once EXCEPT ![reg[p]] = "running"]
  /\ asked' = asked + 1
  /\ UNCHANGED <<pending, mu, registry, outcome, stage, reg, told>>

\* once.Do: the first caller runs the function, the others wait for it.
Enter(p) ==
  /\ Move(p, "once", "discover")
  /\ once[reg[p]] = "fresh"
  /\ once' = [once EXCEPT ![reg[p]] = "running"]
  /\ asked' = asked + 1
  /\ UNCHANGED <<pending, mu, registry, outcome, stage, reg, told>>

\* Discovery fails on the network, on a bad document, or because the context of
\* this one caller is cancelled; NewCustom may refuse the discovered URL.
Discover(p) ==
  /\ Move(p, "discover", "once")
  /\ once' = [once EXCEPT ![reg[p]] = "done"]
  /\ \E o \in {"ok", "error"} : outcome' = [outcome EXCEPT ![reg[p]] = o]
  /\ UNCHANGED <<pending, mu, registry, stage, reg, told, asked>>

\* Variant: only the caller that performed the discovery is told its error.
AnsweredAnyway(p) ==
  /\ pc[p] = "once" /\ once[reg[p]] = "done"
  /\ told' = [told EXCEPT ![p] = "ok"]
  /\ Finish(p, "once")
  /\ UNCHANGED <<pending, registry, once, outcome, stage, asked>>

\* resolve returns l.err to everybody.
Failed(p) ==
  /\ pc[p] = "once" /\ once[reg[p]] = "done" /\ outcome[reg[p]] = "error"
  /\ told' = [told EXCEPT ![p] = "error"]
  /\ Finish(p, "once")
  /\ UNCHANGED <<pending, registry, once, outcome, stage, asked>>

\* The registry answers the question, or fails to.
Answered(p) ==
  /\ pc[p] = "once" /\ once[reg[p]] = "done" /\ outcome[reg[p]] = "ok"
  /\ told' = [told EXCEPT ![p] = "ok"]
  /\ \/ /\ stage[p] = "versions"
        /\ Move(p, "once", "find")
        /\ stage' = [stage EXCEPT ![p] = "download"]
        /\ UNCHANGED <<mu, reg>>
     \/ Finish(p, "once") /\ UNCHANGED stage
  /\ UNCHANGED <<pending, registry, once, outcome, asked>>

Waiting(p) == Find(p) \/ Create(p) \/ Lock(p) \/ MemoHit(p)
Moving(p) ==
  \/ Refuse(p)   \/ DiskHit(p) \/ DiskMiss(p) \/ Enter(p)
  \/ Discover(p) \/ Failed(p)  \/ Answered(p)

Next == \E p \in Callers : Call(p) \/ Waiting(p) \/ Moving(p)

Spec == Init /\ [][Next]_vars

\* Goroutines keep running and sync.RWMutex lets no waiter starve.
FairSpec ==
  Spec /\ \A p \in Callers : WF_vars(Moving(p)) /\ SF_vars(Waiting(p))

-------------------------------------------------------------------------------

\* Type invariant.  A caller past registryFor holds a registry, never the zero value
\* of Server.registries (server.go:172-204).
TypeOK ==
  /\ pending \in BOOLEAN
  /\ mu \in Callers \cup {None}
  /\ registry \in Callers \cup {None}
  /\ once \in [Callers -> {"fresh", "running", "done"}]
  /\ outcome \in [Callers -> {"none", "ok", "error"}]
  /\ pc \in [Callers -> {"idle", "find", "create", "lock", "locked", "once", "discover"}]
  /\ stage \in [Callers -> {"versions", "download"}]
  /\ reg \in [Callers -> Callers \cup {None}]
  /\ told \in [Callers -> {"none", "ok", "error"}]
  /\ asked \in Nat
  /\ \A p \in Callers :
       pc[p] \in {"lock", "locked", "once", "discover"} => reg[p] \in Callers

\* Goroutines that find the registry missing at the same time all end up with
\* the one that is installed, and it is never replaced under a call
\* (server.go:187-193: "avoid racing constructors").
OneRegistry == \A p \in Callers : reg[p] # None => reg[p] = registry

\* The host is asked for its services at most once in the life of a Server,
\* however many goroutines arrive before the answer does.
OneDiscovery == asked <= 1

\* All calls, at any time, are told the same outcome of discovery: the failure
\* met by the first caller (its cancelled context, say) is everybody's for good.
SameOutcome ==
  \A p, q \in Callers : told[p] # "none" /\ told[q] # "none" => told[p] = told[q]

\* Nobody waits for ever, although a goroutine may hold Server.mu while it waits
\* for the discovery that another one performs (custom_registry_test.go:270-275).
NobodyWaitsForEver == \A p \in Callers : pc[p] # "idle" ~> pc[p] = "idle"
===============================================================================
