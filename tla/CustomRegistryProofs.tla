------------------------- MODULE CustomRegistryProofs -------------------------
(***************************************************************************)
(* For any number of goroutines: one LazyCustom, one discovery, one        *)
(* outcome.                                                                *)
(***************************************************************************)
EXTENDS CustomRegistry, TLAPS

\* Only the registered LazyCustom is ever resolved, by one goroutine, and its
\* outcome is known exactly when its sync.Once is done.
OnceInv ==
  /\ \A r \in Callers : once[r] # "fresh" => r = registry
  /\ \A r \in Callers : once[r] = "done" <=> outcome[r] # "none"
  /\ \A p \in Callers : pc[p] = "discover" => once[reg[p]] = "running"
  /\ \A p, q \in Callers : pc[p] = "discover" /\ pc[q] = "discover" => p = q

AskedInv ==
  /\ asked \in {0, 1}
  /\ asked = 1 => \E r \in Callers : once[r] # "fresh"

\* What anybody was told is what the registered LazyCustom still says.
ToldInv ==
  \A p \in Callers : told[p] # "none" =>
    registry # None /\ told[p] = outcome[registry]

IInv == TypeOK /\ OneRegistry /\ OnceInv /\ AskedInv /\ ToldInv

-------------------------------------------------------------------------------

LEMMA InitIInv == Init => IInv
BY NoneAssumption
   DEF Init, IInv, TypeOK, OneRegistry, OnceInv, AskedInv, ToldInv

LEMMA StepIInv == IInv /\ [Next]_vars => IInv'
<1> SUFFICES ASSUME IInv, [Next]_vars PROVE IInv'
  OBVIOUS
<1> USE NoneAssumption
    DEF IInv, TypeOK, OneRegistry, OnceInv, AskedInv, ToldInv, Move
<1>1. ASSUME NEW p \in Callers, Call(p) PROVE IInv'
  BY <1>1 DEF Call
<1>2. ASSUME NEW p \in Callers, Find(p) PROVE IInv'
  BY <1>2 DEF Find, Ready
<1>3. ASSUME NEW p \in Callers, Create(p) PROVE IInv'
  BY <1>3 DEF Create, Ready
<1>4. ASSUME NEW p \in Callers, Refuse(p) PROVE IInv'
  BY <1>4 DEF Refuse
<1>5. ASSUME NEW p \in Callers, Lock(p) PROVE IInv'
  BY <1>5 DEF Lock
<1>6. ASSUME NEW p \in Callers, DiskHit(p) PROVE IInv'
  BY <1>6 DEF DiskHit, Finish, Unlock
<1>7. ASSUME NEW p \in Callers, DiskMiss(p) PROVE IInv'
  BY <1>7 DEF DiskMiss
<1>8. ASSUME NEW p \in Callers, Enter(p) PROVE IInv'
  BY <1>8 DEF Enter
<1>9. ASSUME NEW p \in Callers, Discover(p) PROVE IInv'
  BY <1>9 DEF Discover
<1>10. ASSUME NEW p \in Callers, Failed(p) PROVE IInv'
  BY <1>10 DEF Failed, Finish, Unlock
<1>11. ASSUME NEW p \in Callers, Answered(p) PROVE IInv'
  BY <1>11 DEF Answered, Finish, Unlock
<1>12. ASSUME NEW p \in Callers, MemoHit(p) PROVE IInv'
  BY <1>12 DEF MemoHit, Finish, Unlock
<1>13. CASE UNCHANGED vars
  BY <1>13 DEF vars
<1> QED
  BY <1>1, <1>2, <1>3, <1>4, <1>5, <1>6, <1>7, <1>8, <1>9, <1>10, <1>11, <1>12,
     <1>13
     DEF Next, Waiting, Moving

LEMMA Inductive == Spec => []IInv
BY InitIInv, StepIInv, PTL DEF Spec

\* The type invariant holds for any number of goroutines: nobody asks a registry that
\* is not there.
THEOREM TypeCorrect == Spec => []TypeOK
<1>1. IInv => TypeOK
  BY DEF IInv
<1> QED BY <1>1, Inductive, PTL

\* All goroutines use the registry that is installed.
THEOREM RegistryIsOne == Spec => []OneRegistry
<1>1. IInv => OneRegistry
  BY DEF IInv
<1> QED BY <1>1, Inductive, PTL

\* The host is asked at most once.
THEOREM DiscoveryIsOne == Spec => []OneDiscovery
<1>1. IInv => OneDiscovery
  BY DEF IInv, AskedInv, OneDiscovery
<1> QED BY <1>1, Inductive, PTL

\* Nobody is ever told another outcome than anybody else.
THEOREM OutcomeIsOne == Spec => []SameOutcome
<1>1. IInv => SameOutcome
  BY DEF IInv, ToldInv, SameOutcome
<1> QED BY <1>1, Inductive, PTL
-------------------------------------------------------------------------------

\* Where a goroutine waits for another one: for Server.mu, or in once.Do.
Blocked(p) ==
  \/ /\ mu # None
     /\ pc[p] \in {"find", "lock"} \/ (pc[p] = "create" /\ pending)
  \/ pc[p] = "once" /\ once[reg[p]] = "running"

\* Whoever is waited for is still there: a mutex that is held has a holder between
\* Lock and Unlock, and a sync.Once that runs has a goroutine that runs it.  The list
\* of versions is never asked for with the mutex held.
WaitInv ==
  /\ mu # None => pc[mu] \in {"locked", "once", "discover"} /\ stage[mu] = "download"
  /\ \A p \in Callers : pc[p] \in {"lock", "locked"} => stage[p] = "download"
  /\ \A r \in Callers : once[r] = "running" =>
       \E p \in Callers : pc[p] = "discover" /\ reg[p] = r

\* When somebody waits, somebody is under way who waits for nobody.
NoCycle ==
  \A p \in Callers : Blocked(p) =>
    \E q \in Callers : pc[q] \in {"locked", "once", "discover"} /\ ~Blocked(q)

LEMMA InitWaitInv == Init => WaitInv
BY DEF Init, WaitInv

LEMMA StepWaitInv == IInv /\ WaitInv /\ [Next]_vars => WaitInv'
<1> SUFFICES ASSUME IInv, WaitInv, [Next]_vars PROVE WaitInv'
  OBVIOUS
<1> USE NoneAssumption DEF IInv, TypeOK, OnceInv, WaitInv, Move
<1>1. ASSUME NEW p \in Callers, Call(p) PROVE WaitInv'
  BY <1>1 DEF Call
<1>2. ASSUME NEW p \in Callers, Find(p) PROVE WaitInv'
  BY <1>2 DEF Find, Ready
<1>3. ASSUME NEW p \in Callers, Create(p) PROVE WaitInv'
  BY <1>3 DEF Create, Ready
<1>4. ASSUME NEW p \in Callers, Refuse(p) PROVE WaitInv'
  BY <1>4 DEF Refuse
<1>5. ASSUME NEW p \in Callers, Lock(p) PROVE WaitInv'
  BY <1>5 DEF Lock
<1>6. ASSUME NEW p \in Callers, DiskHit(p) PROVE WaitInv'
  BY <1>6 DEF DiskHit, Finish, Unlock
<1>7. ASSUME NEW p \in Callers, DiskMiss(p) PROVE WaitInv'
  BY <1>7 DEF DiskMiss
<1>8. ASSUME NEW p \in Callers, Enter(p) PROVE WaitInv'
  BY <1>8 DEF Enter
<1>9. ASSUME NEW p \in Callers, Discover(p) PROVE WaitInv'
  BY <1>9 DEF Discover
<1>10. ASSUME NEW p \in Callers, Failed(p) PROVE WaitInv'
  BY <1>10 DEF Failed, Finish, Unlock
<1>11. ASSUME NEW p \in Callers, Answered(p) PROVE WaitInv'
  <2>1. CASE Finish(p, "once") /\ UNCHANGED stage
    BY <1>11, <2>1 DEF Answered, Finish, Unlock
  <2>2. CASE stage[p] = "versions" /\ ~(Finish(p, "once") /\ UNCHANGED stage)
    <3>1. mu # p
      BY <2>2
    <3> QED BY <1>11, <2>2, <3>1 DEF Answered
  <2> QED BY <1>11, <2>1, <2>2 DEF Answered
<1>12. ASSUME NEW p \in Callers, MemoHit(p) PROVE WaitInv'
  BY <1>12 DEF MemoHit, Finish, Unlock
<1>13. CASE UNCHANGED vars
  BY <1>13 DEF vars
<1> QED
  BY <1>1, <1>2, <1>3, <1>4, <1>5, <1>6, <1>7, <1>8, <1>9, <1>10, <1>11, <1>12,
     <1>13
     DEF Next, Waiting, Moving

\* Although a goroutine holds Server.mu while it waits in once.Do for the discovery
\* another one performs, there is never a cycle of waiting: discovery takes no lock of
\* the Server (lazy_custom.go:124-141, server.go:334-341).
THEOREM NobodyWaitsInACycle == Spec => []NoCycle
<1>1. IInv /\ WaitInv => NoCycle
  <2> SUFFICES ASSUME IInv, WaitInv, NEW p \in Callers, Blocked(p)
               PROVE  \E q \in Callers :
                        pc[q] \in {"locked", "once", "discover"} /\ ~Blocked(q)
    BY DEF NoCycle
  <2>1. ASSUME NEW r \in Callers, once[r] = "running"
        PROVE  \E q \in Callers :
                 pc[q] \in {"locked", "once", "discover"} /\ ~Blocked(q)
    BY <2>1 DEF WaitInv, Blocked
  <2>2. ASSUME NEW q \in Callers, pc[q] = "once", once[reg[q]] = "running"
        PROVE  \E r \in Callers : once[r] = "running"
    BY <2>2 DEF IInv, TypeOK
  <2>3. CASE mu # None
    <3>1. mu \in Callers /\ pc[mu] \in {"locked", "once", "discover"}
      BY <2>3 DEF IInv, TypeOK, WaitInv
    <3>2. CASE pc[mu] = "once" /\ once[reg[mu]] = "running"
      BY <3>1, <3>2, <2>1, <2>2
    <3>3. CASE ~(pc[mu] = "once" /\ once[reg[mu]] = "running")
      BY <3>1, <3>3 DEF Blocked
    <3> QED BY <3>2, <3>3
  <2>4. CASE mu = None
    BY <2>4, <2>1, <2>2 DEF Blocked
  <2> QED BY <2>3, <2>4
<1>2. IInv /\ WaitInv /\ [Next]_vars => WaitInv'
  BY StepWaitInv
<1>3. Spec => []WaitInv
  BY <1>2, InitWaitInv, Inductive, PTL DEF Spec
<1> QED BY <1>1, <1>3, Inductive, PTL
===============================================================================
