------------------------------ MODULE ModuleStore ------------------------------
(***************************************************************************)
(* What a Server that does not force fetches promises its callers, for one *)
(* module version: it behaves as a store that is filled once and answers   *)
(* each call in one step, from the archive it was filled with.             *)
(* Neither the mutex, the memo, the steps of a download nor those of an    *)
(* inspection can be told from outside; only that some file of the module  *)
(* could not be read.  Once the Server is blind, having failed to read the *)
(* entry that is there, it may replace it, and promises no more than that  *)
(* the store holds a whole module or none.  The request is one a Server    *)
(* takes (see CommandLine), for a concrete version.                        *)
(* (Worded in schema.go:12-18, 40-75 and server.go:285-291.)               *)
(***************************************************************************)
CONSTANTS
  Callers, Files,     \* a file stands for one directory of the module
  Root, List,         \* the root directory; the operation ListSubmodules
  Modules, NoDir      \* the whole modules; none

VARIABLES
  entry,              \* the module in the store
  blind,              \* it could not be read when it was looked for
  call, op, answer    \* of each caller

svars == <<entry, blind, call, op, answer>>

Blank == [tf |-> {}, diags |-> FALSE, eph |-> {}, subs |-> {}]

Part(m, d) == {t \in m : t[1] = d}
Dirs(m)    == {d \in Files : Part(m, d) # {}}

\* The answer a is one the module m gives to the operation o: of a directory it has,
\* all the configuration, unless the diagnostics say otherwise, and of the ephemeral
\* variables, as of the submodules, those that could be read.
Gives(m, o, a) ==
  \/ /\ o = List
     /\ a.tf = {} /\ a.eph = {} /\ a.subs \subseteq Dirs(m) \ {Root}
  \/ /\ o \in Dirs(m) \cup {Root}
     /\ a.tf \subseteq Part(m, o) /\ (a.tf = Part(m, o) \/ a.diags)
     /\ a.eph \subseteq Part(m, o)
     /\ a.subs = {}

Init ==
  /\ entry = NoDir
  /\ blind = FALSE
  /\ call = [p \in Callers |-> "idle"]
  /\ op = [p \in Callers |-> Root]
  /\ answer = [p \in Callers |-> Blank]

Fill ==
  /\ \/ entry = NoDir /\ entry' \in Modules
     \/ blind /\ entry' \in Modules \cup {NoDir}
  /\ UNCHANGED <<blind, call, op, answer>>

Misread ==
  /\ entry # NoDir
  /\ blind' = TRUE
  /\ UNCHANGED <<entry, call, op, answer>>

Ask(p) ==
  /\ call[p] = "idle"
  /\ call' = [call EXCEPT ![p] = "asked"]
  /\ \E o \in Files \cup {List} : op' = [op EXCEPT ![p] = o]
  /\ UNCHANGED <<entry, blind, answer>>

Answer(p) ==
  /\ call[p] = "asked"
  /\ (entry # NoDir /\ Gives(entry, op[p], answer'[p])) \/ blind
  /\ call' = [call EXCEPT ![p] = "answered"]
  /\ answer' = [answer EXCEPT ![p] = answer'[p]]
  /\ UNCHANGED <<entry, blind, op>>

\* No registry and no download that fails is noticed once the store is filled.
Unfetched(p) ==
  /\ call[p] = "asked"
  /\ entry = NoDir \/ blind
  /\ call' = [call EXCEPT ![p] = "unfetched"]
  /\ UNCHANGED <<entry, blind, op, answer>>

\* The directory asked for is not in the module, or cannot be read.
Uninspected(p) ==
  /\ call[p] = "asked"
  /\ entry # NoDir \/ blind
  /\ call' = [call EXCEPT ![p] = "uninspected"]
  /\ UNCHANGED <<entry, blind, op, answer>>

Return(p) ==
  /\ call[p] \in {"answered", "unfetched", "uninspected"}
  /\ call' = [call EXCEPT ![p] = "idle"]
  /\ op' = [op EXCEPT ![p] = Root]
  /\ answer' = [answer EXCEPT ![p] = Blank]
  /\ UNCHANGED <<entry, blind>>

\* The process is started again: the store is on disk.
Restart ==
  /\ call' = [p \in Callers |-> "idle"]
  /\ op' = [p \in Callers |-> Root]
  /\ answer' = [p \in Callers |-> Blank]
  /\ UNCHANGED <<entry, blind>>

Next ==
  \/ Fill \/ Misread \/ Restart
  \/ \E p \in Callers :
       Ask(p) \/ Answer(p) \/ Unfetched(p) \/ Uninspected(p) \/ Return(p)

Spec == Init /\ [][Next]_svars
===============================================================================
