--------------------------- MODULE VersionResolution ---------------------------
(***************************************************************************)
(* How one Request.Version becomes a concrete version (resolveVersion,     *)
(* GetLatestVersionMatch in versions.go; listVersions in registry/http.go; *)
(* GetAvailableVersions in schema.go), asked again and again of a registry *)
(* that publishes new versions meanwhile.                                  *)
(*                                                                         *)
(* A version is what go-version parsed a string into; Precedence is its    *)
(* Compare, which two versions may share ("1.0", "1.0.0", "1.0.0+x").      *)
(***************************************************************************)
EXTENDS Naturals, Sequences

CONSTANTS
  Versions,       \* the versions the registry may come to publish
  Precedence,     \* of each version
  Prerelease,     \* the versions with a prerelease part
  Junk,           \* an entry that go-version cannot parse
  MaxEntries      \* bound: length of the registry's answer

ASSUME PrecedenceAssumption ==
  Precedence \in [Versions -> Nat] /\ Prerelease \subseteq Versions
ASSUME BoundAssumption == MaxEntries \in Nat

\* What a caller may ask: no version at all, a concrete version, a constraint
\* (the versions it admits: Constraints.Check goes by Compare), a string that is
\* neither; or GetAvailableVersions.
SamePrecedence(v, w) == Precedence[v] = Precedence[w]
Constraints ==
  {S \in SUBSET Versions :
     \A v \in S, w \in Versions : SamePrecedence(v, w) => w \in S}
Requests ==
  [kind : {"latest"}, admits : {Versions}]
    \cup [kind : {"concrete"}, admits : {{v} : v \in Versions}]
    \cup [kind : {"constraint"}, admits : Constraints]
    \cup [kind : {"malformed", "available"}, admits : {{}}]

Errors == {"moduleNotFound", "registryAPI", "transport", "badConstraint",
           "noMatchingVersion"}
None == "none"

ASSUME JunkAssumption == Versions \cap (Errors \cup {None, Junk}) = {}

VARIABLES
  request,      \* the request; never changes
  published,    \* the versions the registry has published
  pc,
  entries,      \* modules[0].versions of the registry's answer
  k,            \* the entries parsed so far
  available,    \* the Collection that listVersions returns
  sorted, i,    \* the sorted copy, and the index of the scan
  result,       \* of the call: a version, an error, or none yet
  last          \* history: the last version this request was resolved to

vars == <<request, published, pc, entries, k, available, sorted, i, result, last>>

-------------------------------------------------------------------------------

Init ==
  /\ request \in Requests
  /\ published = {}
  /\ pc = "idle"
  /\ entries = <<>> /\ k = 0 /\ available = <<>>
  /\ sorted = <<>> /\ i = 0
  /\ result = None /\ last = None

\* A registry never takes a version back.
Publish ==
  /\ \E v \in Versions \ published : published' = published \cup {v}
  /\ UNCHANGED <<request, pc, entries, k, available, sorted, i, result, last>>

Begin ==
  /\ pc = "idle"
  /\ pc' = "asked"
  /\ last' = IF result \in Versions THEN result ELSE last
  /\ result' = None
  /\ entries' = <<>> /\ k' = 0 /\ available' = <<>> /\ sorted' = <<>> /\ i' = 0
  /\ UNCHANGED <<request, published>>

Return(r) == pc' = "idle" /\ result' = r

\* A version that parses is taken as it is; the registry is not asked.
Concrete ==
  /\ pc = "asked" /\ request.kind = "concrete"
  /\ \E v \in request.admits : Return(v)
  /\ UNCHANGED <<request, published, entries, k, available, sorted, i, last>>

\* Variant: a registry that fails to answer has no versions.
ListFailsEmpty ==
  /\ pc = "asked" /\ request.kind # "concrete"
  /\ Return("noMatchingVersion")
  /\ UNCHANGED <<request, published, entries, k, available, sorted, i, last>>

ListFails ==
  /\ pc = "asked" /\ request.kind # "concrete"
  /\ \E e \in {"moduleNotFound", "registryAPI", "transport"} : Return(e)
  /\ UNCHANGED <<request, published, entries, k, available, sorted, i, last>>

\* The registry lists what it has published, in any order, and may list strings
\* that are no versions, or a version twice.
Listings ==
  {s \in UNION {[1 .. n -> published \cup {Junk}] : n \in 0 .. MaxEntries} :
     \A v \in published : \E j \in DOMAIN s : s[j] = v}

List ==
  /\ pc = "asked" /\ request.kind # "concrete"
  /\ entries' \in Listings
  /\ pc' = "parse"
  /\ UNCHANGED <<request, published, k, available, sorted, i, result, last>>

\* Variant: what go-version cannot parse is kept.
ParseAll ==
  /\ pc = "parse" /\ k < Len(entries)
  /\ k' = k + 1
  /\ available' = Append(available, entries[k'])
  /\ UNCHANGED <<request, published, pc, entries, sorted, i, result, last>>

Parse ==
  /\ pc = "parse" /\ k < Len(entries)
  /\ k' = k + 1
  /\ available' = IF entries[k'] = Junk THEN available
                                        ELSE Append(available, entries[k'])
  /\ UNCHANGED <<request, published, pc, entries, sorted, i, result, last>>

Parsed(kind) == pc = "parse" /\ k = Len(entries) /\ request.kind = kind

Available ==
  /\ Parsed("available")
  /\ pc' = "idle"
  /\ UNCHANGED <<request, published, entries, k, available, sorted, i, result, last>>

NoVersions ==
  /\ \E kind \in {"latest", "constraint", "malformed"} : Parsed(kind)
  /\ available = <<>>
  /\ Return("noMatchingVersion")
  /\ UNCHANGED <<request, published, entries, k, available, sorted, i, last>>

Malformed ==
  /\ Parsed("malformed") /\ available # <<>>
  /\ Return("badConstraint")
  /\ UNCHANGED <<request, published, entries, k, available, sorted, i, last>>

\* sort.Sort is not stable: versions of one precedence come in any order.
Orders(n) ==
  {p \in [1 .. n -> 1 .. n] : \A x \in 1 .. n : \E y \in 1 .. n : p[y] = x}
Reordered(s, p) == [x \in 1 .. Len(s) |-> s[p[x]]]
Ascending(s) ==
  \A x, y \in DOMAIN s : x < y => Precedence[s[x]] <= Precedence[s[y]]

\* Variant: the order of the registry is kept.
SortNothing ==
  /\ \E kind \in {"latest", "constraint"} : Parsed(kind)
  /\ available # <<>>
  /\ sorted' = available
  /\ i' = Len(available)
  /\ pc' = "sorted"
  /\ UNCHANGED <<request, published, entries, k, available, result, last>>

Sort ==
  /\ \E kind \in {"latest", "constraint"} : Parsed(kind)
  /\ available # <<>>
  /\ \E p \in Orders(Len(available)) : sorted' = Reordered(available, p)
  /\ Ascending(sorted')
  /\ i' = Len(available)
  /\ pc' = "sorted"
  /\ UNCHANGED <<request, published, entries, k, available, result, last>>

Latest ==
  /\ pc = "sorted" /\ request.kind = "latest"
  /\ Return(sorted[Len(sorted)])
  /\ UNCHANGED <<request, published, entries, k, available, sorted, i, last>>

\* for i := len(sorted) - 1; i >= 0; i-- (one lower: sequences begin at 1).
Scan ==
  /\ pc = "sorted" /\ request.kind = "constraint" /\ i >= 1
  /\ IF sorted[i] \in request.admits
       THEN Return(sorted[i]) /\ UNCHANGED i
       ELSE i' = i - 1 /\ UNCHANGED <<pc, result>>
  /\ UNCHANGED <<request, published, entries, k, available, sorted, last>>

\* Variant: the loop ends before the lowest version.
NoMatchEarly ==
  /\ pc = "sorted" /\ request.kind = "constraint" /\ i <= 1
  /\ Return("noMatchingVersion")
  /\ UNCHANGED <<request, published, entries, k, available, sorted, i, last>>

NoMatch ==
  /\ pc = "sorted" /\ request.kind = "constraint" /\ i = 0
  /\ Return("noMatchingVersion")
  /\ UNCHANGED <<request, published, entries, k, available, sorted, i, last>>

Resolve == Concrete \/ ListFails \/ List \/ Parse \/ Available \/ NoVersions
             \/ Malformed \/ Sort \/ Latest \/ Scan \/ NoMatch

Next == Publish \/ Begin \/ Resolve

Spec == Init /\ [][Next]_vars

-------------------------------------------------------------------------------

\* Type invariant.
TypeOK ==
  /\ request \in Requests
  /\ published \subseteq Versions
  /\ pc \in {"idle", "asked", "parse", "sorted"}
  /\ entries \in Seq(Versions \cup {Junk})
  /\ k \in 0 .. Len(entries)
  /\ available \in Seq(Versions)
  /\ sorted \in Seq(Versions)
  /\ i \in 0 .. Len(sorted)
  /\ result \in Versions \cup Errors \cup {None}
  /\ last \in Versions \cup {None}

\* The versions the registry's answer offers to this request.
Offered == {entries[x] : x \in DOMAIN entries} \cap request.admits

Selecting == request.kind \in {"latest", "constraint"}

\* The version chosen is one the registry listed and the request admits, and
\* none that it listed and the request admits is higher (versions.go:18-20).
HighestMatch ==
  Selecting /\ result \in Versions =>
    /\ result \in Offered
    /\ \A v \in Offered : Precedence[v] <= Precedence[result]

\* "No matching version" is only said when the answer holds none, whatever
\* unparseable strings it also holds.
NoMatchIsTrue ==
  Selecting /\ result = "noMatchingVersion" => Offered = {}

\* A program that asks again is never sent back to a lower version, nor told
\* that there is none, whatever the registry publishes in between and in
\* whatever order it lists it.
NeverGoesBack ==
  Selecting /\ last \in Versions =>
    /\ result # "noMatchingVersion"
    /\ result \in Versions => Precedence[last] <= Precedence[result]

\* 'empty for "latest stable"' (README.md:244).
LatestIsStable ==
  request.kind = "latest" /\ result \in Prerelease => Offered \subseteq Prerelease
===============================================================================
