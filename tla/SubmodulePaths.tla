---------------------------- MODULE SubmodulePaths ----------------------------
(***************************************************************************)
(* Paths of submodules, as typed after --submodule (main.go:238-275) and   *)
(* as GetSubmodule takes them (inspect.go:192-209), on a Unix system.      *)
(*                                                                         *)
(* A path is its kind and its components: "backslash" has a backslash in   *)
(* it, "volume" begins with a drive letter; both are file names like any   *)
(* other to path/filepath here.                                            *)
(***************************************************************************)
EXTENDS Integers, Sequences

CONSTANTS
  Components,         \* components of paths: ".", ".." and names
  DotDotNames         \* the names that begin with ".."

ASSUME ComponentsAssumption ==
  /\ {".", ".."} \cup DotDotNames \subseteq Components
  /\ {".", ".."} \cap DotDotNames = {}

Kinds == {"relative", "absolute", "backslash", "volume"}
Paths == [kind : Kinds, parts : Seq(Components)]
Root  == [kind |-> "relative", parts |-> <<>>]

First(s) == IF s = <<>> THEN "." ELSE s[1]
Last(s)  == s[Len(s)]
Front(s) == SubSeq(s, 1, Len(s) - 1)

\* path.Clean: "." goes, ".." takes the name before it away.
Push(stack, c) ==
  CASE c = "." -> stack
    [] c = ".." /\ stack # <<>> /\ Last(stack) # ".." -> Front(stack)
    [] OTHER -> Append(stack, c)

\* The stack after each component.
Stacks(parts) ==
  LET upTo[i \in 0..Len(parts)] ==
        IF i = 0 THEN <<>> ELSE Push(upTo[i - 1], parts[i])
  IN  upTo

Clean(parts) == Stacks(parts)[Len(parts)]

\* --submodule is a path the command line accepts; the Server is given Clean of it.
submoduleFromCmd(raw) ==
  raw.kind = "relative" /\ First(Clean(raw.parts)) \notin {".", ".."}

\* Variant: no path is turned down.
resolveAnyPath(sub) == sub.kind \in Kinds

\* Every prefix ".." is turned down, that of "..name" too.
resolveSubmodulePath(sub) ==
  sub.kind # "absolute" /\ First(Clean(sub.parts)) \notin {".."} \cup DotDotNames

\* One step of the operating system from the directory d; the root is its own parent.
StepTo(d, c) ==
  CASE c = "." -> d
    [] c = ".." /\ d # <<>> -> Front(d)
    [] c = ".." /\ d = <<>> -> d
    [] OTHER -> Append(d, c)

\* The directory after each component.
Stops(base, parts) ==
  LET after[i \in 0..Len(parts)] ==
        IF i = 0 THEN base ELSE StepTo(after[i - 1], parts[i])
  IN  after

\* Where the operating system arrives from the directory base: the reference
\* resolveSubmodulePath is judged by.
Walk(base, parts) == Stops(base, parts)[Len(parts)]

\* The directory d is base or below it.
Within(base, d) ==
  Len(base) <= Len(d) /\ \A i \in 1..Len(base) : d[i] = base[i]
===============================================================================
