------------------------ MODULE VersionResolutionProofs ------------------------
(***************************************************************************)
(* For all versions, all constraints and answers of any length: the        *)
(* version chosen is the highest that matches, and never goes back.        *)
(***************************************************************************)
EXTENDS VersionResolution, TLAPS

Elems(s) == {s[x] : x \in DOMAIN s}

\* While parsing, available holds the versions among the first k entries.
ParseInv ==
  /\ pc = "asked" => k = 0 /\ entries = <<>> /\ available = <<>>
  /\ pc = "parse" =>
       Elems(available) = {entries[x] : x \in 1 .. k} \cap Versions

\* While scanning, sorted is the answer's versions in order, and what is above
\* the index has been turned down.
SortedInv ==
  pc = "sorted" =>
    /\ Selecting
    /\ Elems(sorted) = Elems(entries) \cap Versions
    /\ Ascending(sorted)
    /\ sorted # <<>>
    /\ \A j \in i + 1 .. Len(sorted) : sorted[j] \notin request.admits

\* What a request was resolved to before is published, hence listed again.
HistoryInv ==
  /\ pc # "idle" => result = None
  /\ Elems(entries) \subseteq published \cup {Junk}
  /\ Selecting /\ last \in Versions =>
       /\ last \in published \cap request.admits
       /\ pc \in {"parse", "sorted"} \/ result \in Versions \cup {"noMatchingVersion"}
            => last \in Offered

IInv == TypeOK /\ ParseInv /\ SortedInv /\ HistoryInv /\ HighestMatch /\ NoMatchIsTrue

-------------------------------------------------------------------------------

LEMMA AppendElems ==
  ASSUME NEW S, NEW s \in Seq(S), NEW e \in S
  PROVE  Elems(Append(s, e)) = Elems(s) \cup {e}
<1>1. DOMAIN Append(s, e) = 1 .. Len(s) + 1 /\ DOMAIN s = 1 .. Len(s) /\ Len(s) \in Nat
  OBVIOUS
<1>2. Append(s, e)[Len(s) + 1] = e /\ \A x \in 1 .. Len(s) : Append(s, e)[x] = s[x]
  OBVIOUS
<1>3. ASSUME NEW x \in 1 .. Len(s) + 1 PROVE x \in 1 .. Len(s) \/ x = Len(s) + 1
  BY <1>1, <1>3
<1>4. Elems(Append(s, e)) \subseteq Elems(s) \cup {e}
  BY <1>1, <1>2, <1>3 DEF Elems
<1>5. Elems(s) \cup {e} \subseteq Elems(Append(s, e))
  BY <1>1, <1>2 DEF Elems
<1> QED BY <1>4, <1>5

\* Sorting loses nothing and adds nothing.
LEMMA ReorderedElems ==
  ASSUME NEW S, NEW s \in Seq(S), NEW p \in Orders(Len(s))
  PROVE  /\ Reordered(s, p) \in Seq(S)
         /\ Len(Reordered(s, p)) = Len(s)
         /\ Elems(Reordered(s, p)) = Elems(s)
<1>1. Len(s) \in Nat /\ DOMAIN s = 1 .. Len(s) /\ \A x \in 1 .. Len(s) : s[x] \in S
  OBVIOUS
<1>2. /\ \A x \in 1 .. Len(s) : p[x] \in 1 .. Len(s)
      /\ \A x \in 1 .. Len(s) : \E y \in 1 .. Len(s) : p[y] = x
  BY DEF Orders
<1>3. Reordered(s, p) \in [1 .. Len(s) -> S]
  BY <1>1, <1>2 DEF Reordered
<1>4. Reordered(s, p) \in Seq(S) /\ Len(Reordered(s, p)) = Len(s)
  BY <1>1, <1>3
<1>5. Elems(Reordered(s, p)) = Elems(s)
  BY <1>1, <1>2 DEF Elems, Reordered
<1> QED BY <1>4, <1>5

LEMMA NoElems == Elems(<<>>) = {}
BY DEF Elems

LEMMA InitIInv == Init => IInv
BY NoElems, JunkAssumption
   DEF Init, IInv, TypeOK, ParseInv, SortedInv, HistoryInv, HighestMatch, NoMatchIsTrue,
       Selecting, Errors, None

\* The top of a sorted sequence, below what was turned down, is the highest.
LEMMA TopIsHighest ==
  ASSUME TypeOK, SortedInv, pc = "sorted", i \in 1 .. Len(sorted),
         sorted[i] \in request.admits
  PROVE  /\ sorted[i] \in Offered
         /\ \A v \in Offered : Precedence[v] <= Precedence[sorted[i]]
<1>1. request.admits \subseteq Versions
  BY DEF TypeOK, Requests, Constraints
<1>2. Offered = Elems(sorted) \cap request.admits
  BY <1>1 DEF SortedInv, Offered, Elems
<1>3. DOMAIN sorted = 1 .. Len(sorted) /\ \A j \in 1 .. Len(sorted) : sorted[j] \in Versions
  BY DEF TypeOK
<1>4. sorted[i] \in Offered
  BY <1>2, <1>3 DEF Elems
<1>5. ASSUME NEW v \in Offered PROVE Precedence[v] <= Precedence[sorted[i]]
  <2>1. PICK j \in 1 .. Len(sorted) : sorted[j] = v
    BY <1>2, <1>3 DEF Elems
  <2>2. j <= i
    BY <2>1, <1>2 DEF SortedInv, TypeOK
  <2>3. j < i \/ j = i
    BY <2>2
  <2>4. Precedence[v] \in Nat
    BY <1>3, <2>1, PrecedenceAssumption
  <2> QED BY <1>3, <2>1, <2>3, <2>4 DEF SortedInv, Ascending
<1> QED BY <1>4, <1>5

LEMMA StepType == TypeOK /\ ParseInv /\ SortedInv /\ [Next]_vars => TypeOK'
<1> SUFFICES ASSUME TypeOK, ParseInv, SortedInv, [Next]_vars PROVE TypeOK'
  OBVIOUS
<1> USE DEF TypeOK
<1>0. \A n \in Nat : \A S : [1 .. n -> S] \subseteq Seq(S)
  OBVIOUS
<1>1. CASE Publish
  BY <1>1 DEF Publish
<1>2. CASE Begin
  BY <1>2 DEF Begin
<1>3. CASE Concrete
  BY <1>3 DEF Concrete, Return, Requests
<1>4. CASE ListFails \/ Available \/ NoVersions \/ Malformed \/ NoMatch
  BY <1>4 DEF ListFails, Available, NoVersions, Malformed, NoMatch, Return, Errors
<1>5. CASE List
  <2>1. PICK n \in 0 .. MaxEntries : entries' \in [1 .. n -> published \cup {Junk}]
    BY <1>5 DEF List, Listings
  <2>2. n \in Nat
    BY <2>1, BoundAssumption
  <2>3. entries' \in [1 .. n -> Versions \cup {Junk}]
    BY <2>1
  <2>4. entries' \in Seq(Versions \cup {Junk}) /\ Len(entries') \in Nat
    BY <2>2, <2>3
  <2> QED BY <1>5, <2>4 DEF List, ParseInv
<1>6. CASE Parse
  BY <1>6 DEF Parse
<1>7. CASE Sort
  BY <1>7, ReorderedElems DEF Sort
<1>8. CASE Latest
  BY <1>8 DEF Latest, Return, SortedInv
<1>9. CASE Scan
  BY <1>9 DEF Scan, Return
<1>10. CASE UNCHANGED vars
  BY <1>10 DEF vars
<1> QED BY <1>1, <1>2, <1>3, <1>4, <1>5, <1>6, <1>7, <1>8, <1>9, <1>10 DEF Next, Resolve

LEMMA StepParse == TypeOK /\ ParseInv /\ [Next]_vars => ParseInv'
<1> SUFFICES ASSUME TypeOK, ParseInv, [Next]_vars PROVE ParseInv'
  OBVIOUS
<1> USE DEF ParseInv
<1>1. CASE Begin
  BY <1>1 DEF Begin
<1>2. CASE List
  <2>1. k' = 0 /\ available' = <<>>
    BY <1>2 DEF List
  <2>2. {entries'[x] : x \in 1 .. k'} = {}
    BY <2>1
  <2> QED BY <1>2, <2>1, <2>2, NoElems DEF List
<1>3. CASE Parse
  <2>1. k + 1 \in DOMAIN entries /\ k' = k + 1 /\ UNCHANGED <<pc, entries>> /\ pc = "parse"
    BY <1>3 DEF Parse, TypeOK
  <2>2. {entries[x] : x \in 1 .. k + 1} = {entries[x] : x \in 1 .. k} \cup {entries[k + 1]}
    <3>1. 1 .. k + 1 = (1 .. k) \cup {k + 1}
      BY DEF TypeOK
    <3> QED BY <3>1
  <2>3. CASE entries[k + 1] = Junk
    BY <1>3, <2>1, <2>2, <2>3, JunkAssumption DEF Parse
  <2>4. CASE entries[k + 1] # Junk
    <3>1. entries[k + 1] \in Versions
      BY <2>1, <2>4 DEF TypeOK
    <3>2. available' = Append(available, entries[k + 1])
      BY <1>3, <2>4 DEF Parse
    <3>3. Elems(available') = Elems(available) \cup {entries[k + 1]}
      BY <3>1, <3>2, AppendElems DEF TypeOK
    <3> QED BY <2>1, <2>2, <3>1, <3>3
  <2> QED BY <2>3, <2>4
<1>4. CASE Concrete \/ ListFails \/ Available \/ NoVersions \/ Malformed \/ Sort
             \/ Latest \/ Scan \/ NoMatch
  BY <1>4 DEF Concrete, ListFails, Available, NoVersions, Malformed, Sort, Latest, Scan,
       NoMatch, Return, TypeOK
<1>5. CASE Publish \/ UNCHANGED vars
  BY <1>5 DEF Publish, vars
<1> QED BY <1>1, <1>2, <1>3, <1>4, <1>5 DEF Next, Resolve

LEMMA AllParsed ==
  ASSUME TypeOK, ParseInv, pc = "parse", k = Len(entries)
  PROVE  Elems(available) = Elems(entries) \cap Versions
<1>1. DOMAIN entries = 1 .. k
  BY DEF TypeOK
<1> QED BY <1>1 DEF ParseInv, Elems

LEMMA StepSorted == TypeOK /\ ParseInv /\ SortedInv /\ [Next]_vars => SortedInv'
<1> SUFFICES ASSUME TypeOK, ParseInv, SortedInv, [Next]_vars PROVE SortedInv'
  OBVIOUS
<1>1. CASE Sort
  <2>1. PICK p \in Orders(Len(available)) : sorted' = Reordered(available, p)
    BY <1>1 DEF Sort
  <2>2. Elems(sorted') = Elems(available) /\ Len(sorted') = Len(available)
    BY <2>1, ReorderedElems DEF TypeOK
  <2>3. /\ pc = "parse" /\ k = Len(entries) /\ available # <<>> /\ Selecting
        /\ i' = Len(available) /\ Ascending(sorted')
        /\ UNCHANGED <<request, entries, available>>
    BY <1>1 DEF Sort, Parsed, Selecting
  <2>4. sorted' # <<>>
    BY <2>2, <2>3 DEF TypeOK
  <2>5. i' + 1 .. Len(sorted') = {}
    BY <2>2, <2>3 DEF TypeOK
  <2>6. Ascending(sorted)'
    BY <2>3 DEF Ascending
  <2>7. Elems(sorted') = Elems(entries') \cap Versions
    BY <2>2, <2>3, AllParsed
  <2> QED BY <2>3, <2>4, <2>5, <2>6, <2>7 DEF SortedInv, Selecting, Elems
<1>2. CASE Scan
  <2>1. /\ pc = "sorted" /\ UNCHANGED <<request, entries, sorted>>
        /\ pc' = "sorted" => i' = i - 1 /\ sorted[i] \notin request.admits
    BY <1>2 DEF Scan, Return
  <2>2. pc' = "sorted" => \A j \in i' + 1 .. Len(sorted') : sorted'[j] \notin request'.admits
    <3>1. ASSUME pc' = "sorted", NEW j \in i' + 1 .. Len(sorted)
          PROVE  j = i \/ j \in i + 1 .. Len(sorted)
      BY <2>1, <3>1 DEF TypeOK
    <3> QED BY <2>1, <3>1 DEF SortedInv
  <2> QED BY <2>1, <2>2 DEF SortedInv, Selecting, Ascending, Elems
<1>3. CASE Begin \/ List \/ Concrete \/ ListFails \/ Available \/ NoVersions
             \/ Malformed \/ Latest \/ NoMatch
  BY <1>3 DEF Begin, List, Concrete, ListFails, Available, NoVersions, Malformed,
       Latest, NoMatch, Return, SortedInv
<1>4. CASE Parse
  BY <1>4 DEF Parse, SortedInv
<1>5. CASE Publish \/ UNCHANGED vars
  BY <1>5 DEF Publish, vars, SortedInv, Selecting, Ascending, Elems
<1> QED BY <1>1, <1>2, <1>3, <1>4, <1>5 DEF Next, Resolve

\* How a call that selects a version ends.
LEMMA StepResult ==
  (/\ TypeOK /\ ParseInv /\ SortedInv /\ HighestMatch /\ NoMatchIsTrue
   /\ (pc # "idle" => result = None) /\ [Next]_vars)
     => HighestMatch' /\ NoMatchIsTrue'
<1> SUFFICES ASSUME TypeOK, ParseInv, SortedInv, HighestMatch, NoMatchIsTrue,
                    pc # "idle" => result = None, [Next]_vars
             PROVE  HighestMatch' /\ NoMatchIsTrue'
  OBVIOUS
<1>0. /\ None \notin Versions /\ None # "noMatchingVersion"
      /\ Versions \cap Errors = {}
  BY JunkAssumption DEF None
<1>1. CASE UNCHANGED <<request, entries>> /\ (UNCHANGED result \/ result' = None)
  BY <1>0, <1>1 DEF HighestMatch, NoMatchIsTrue, Offered, Selecting
<1>2. CASE Publish \/ Begin \/ Parse \/ Available \/ Sort \/ UNCHANGED vars
  <2>1. CASE Begin
    BY <1>0, <2>1 DEF Begin, HighestMatch, NoMatchIsTrue
  <2>2. CASE ~Begin
    BY <1>1, <1>2, <2>2 DEF Publish, Parse, Available, Sort, vars
  <2> QED BY <2>1, <2>2
<1>3. CASE Concrete \/ ListFails \/ Malformed
  BY <1>0, <1>3 DEF Concrete, ListFails, Malformed, Parsed, Return, HighestMatch,
       NoMatchIsTrue, Selecting, Errors
<1>4. CASE List
  BY <1>0, <1>4 DEF List, HighestMatch, NoMatchIsTrue
<1>5. CASE NoVersions
  <2>1. Elems(entries) \cap Versions = {}
    BY <1>5, AllParsed, NoElems DEF NoVersions, Parsed
  <2>2. request.admits \subseteq Versions
    BY DEF TypeOK, Requests, Constraints
  <2>3. Offered = {}
    BY <2>1, <2>2 DEF Offered, Elems
  <2>4. UNCHANGED <<request, entries>> /\ result' = "noMatchingVersion"
    BY <1>5 DEF NoVersions, Return
  <2> QED
    BY <1>0, <2>3, <2>4 DEF HighestMatch, NoMatchIsTrue, Offered, Selecting, Errors
<1>6. CASE Latest
  <2>1. /\ pc = "sorted" /\ request.admits = Versions /\ sorted # <<>>
        /\ result' = sorted[Len(sorted)] /\ UNCHANGED <<request, entries>>
    BY <1>6 DEF Latest, Return, TypeOK, Requests, SortedInv
  <2>2. /\ DOMAIN sorted = 1 .. Len(sorted)
        /\ Len(sorted) \in Nat /\ Len(sorted) \in 1 .. Len(sorted)
        /\ \A x \in 1 .. Len(sorted) : sorted[x] \in Versions
    BY <2>1 DEF TypeOK
  <2>3. Offered = Elems(sorted)
    BY <2>1 DEF SortedInv, Offered, Elems
  <2>4. ASSUME NEW v \in Offered PROVE Precedence[v] <= Precedence[sorted[Len(sorted)]]
    <3>1. PICK x \in 1 .. Len(sorted) : v = sorted[x]
      BY <2>2, <2>3 DEF Elems
    <3>2. x = Len(sorted) \/ x < Len(sorted)
      <4>1. \A n \in Nat : \A y \in 1 .. n : y = n \/ y < n
        OBVIOUS
      <4> QED BY <4>1, <2>2
    <3>3. Precedence[v] \in Nat
      BY <2>2, <3>1, PrecedenceAssumption
    <3>4. Ascending(sorted)
      BY <2>1 DEF SortedInv
    <3>5. x < Len(sorted) => Precedence[sorted[x]] <= Precedence[sorted[Len(sorted)]]
      BY <2>2, <3>1, <3>4 DEF Ascending
    <3> QED BY <3>1, <3>2, <3>3, <3>5
  <2>5. result' \in Offered /\ \A v \in Offered : Precedence[v] <= Precedence[result']
    BY <2>1, <2>2, <2>3, <2>4 DEF Elems
  <2>6. result' # "noMatchingVersion"
    BY <1>0, <2>1, <2>2 DEF Errors
  <2> QED BY <2>1, <2>5, <2>6 DEF HighestMatch, NoMatchIsTrue, Offered
<1>7. CASE Scan
  <2>1. CASE sorted[i] \in request.admits
    <3>1. i \in 1 .. Len(sorted) /\ pc = "sorted"
      BY <1>7 DEF Scan, TypeOK
    <3>2. result' = sorted[i] /\ UNCHANGED <<request, entries>>
      BY <1>7, <2>1 DEF Scan, Return
    <3>3. result' # "noMatchingVersion"
      BY <1>0, <3>1, <3>2 DEF TypeOK, Errors
    <3>4. /\ sorted[i] \in Offered
          /\ \A v \in Offered : Precedence[v] <= Precedence[sorted[i]]
      BY <2>1, <3>1, TopIsHighest
    <3> QED BY <3>2, <3>3, <3>4 DEF HighestMatch, NoMatchIsTrue, Offered
  <2>2. CASE sorted[i] \notin request.admits
    BY <1>1, <1>7, <2>2 DEF Scan
  <2> QED BY <2>1, <2>2
<1>8. CASE NoMatch
  <2>1. /\ pc = "sorted" /\ i = 0 /\ UNCHANGED <<request, entries>>
        /\ result' = "noMatchingVersion"
    BY <1>8 DEF NoMatch, Return
  <2>2. \A v \in Elems(sorted) : v \notin request.admits
    BY <2>1 DEF SortedInv, TypeOK, Elems
  <2>3. request.admits \subseteq Versions
    BY DEF TypeOK, Requests, Constraints
  <2>4. Offered = {}
    BY <2>1, <2>2, <2>3 DEF SortedInv, Offered, Elems
  <2> QED
    BY <1>0, <2>1, <2>4 DEF HighestMatch, NoMatchIsTrue, Offered, Selecting, Errors
<1> QED BY <1>1, <1>2, <1>3, <1>4, <1>5, <1>6, <1>7, <1>8 DEF Next, Resolve

LEMMA StepHistory ==
  (/\ TypeOK /\ SortedInv /\ HistoryInv /\ HighestMatch /\ HighestMatch'
   /\ [Next]_vars) => HistoryInv'
<1> SUFFICES ASSUME TypeOK, SortedInv, HistoryInv, HighestMatch, HighestMatch',
                    [Next]_vars
             PROVE  HistoryInv'
  OBVIOUS
<1>0. Versions \cap (Errors \cup {None, Junk}) = {} /\ None \notin Errors
  BY JunkAssumption DEF None, Errors
<1> USE DEF HistoryInv, Selecting
<1>1. CASE Publish
  BY <1>1 DEF Publish, Offered
<1>2. CASE Begin
  <2>1. Elems(entries') = {}
    BY <1>2, NoElems DEF Begin
  <2>2. Selecting /\ result \in Versions => result \in published \cap request.admits
    BY <1>0 DEF HighestMatch, Offered, Elems
  <2> QED BY <1>0, <1>2, <2>1, <2>2 DEF Begin, Errors
<1>3. CASE List
  <2>1. /\ pc = "asked" /\ UNCHANGED <<request, published, result, last>>
        /\ pc' = "parse" /\ entries' \in Listings
    BY <1>3 DEF List
  <2>2. Elems(entries') \subseteq published \cup {Junk}
    BY <2>1 DEF Listings, Elems
  <2>3. published \subseteq Elems(entries')
    BY <2>1 DEF Listings, Elems
  <2> QED BY <2>1, <2>2, <2>3 DEF Offered, Elems
<1>4. CASE Concrete \/ ListFails \/ Malformed \/ Available
  BY <1>0, <1>4 DEF Concrete, ListFails, Malformed, Available, Parsed, Return, Errors,
       Elems
<1>5. CASE Parse \/ Sort
  BY <1>5 DEF Parse, Parsed, Sort, Offered, Elems
<1>6. CASE NoVersions \/ Latest \/ Scan \/ NoMatch
  BY <1>6 DEF NoVersions, Latest, Scan, NoMatch, Parsed, Return, Offered, Elems
<1>7. CASE UNCHANGED vars
  BY <1>7 DEF vars, Offered, Elems
<1> QED BY <1>1, <1>2, <1>3, <1>4, <1>5, <1>6, <1>7 DEF Next, Resolve

LEMMA Inductive == Spec => []IInv
<1>1. IInv /\ [Next]_vars => IInv'
  <2> SUFFICES ASSUME IInv, [Next]_vars PROVE IInv'
    OBVIOUS
  <2>1. TypeOK' /\ ParseInv' /\ SortedInv'
    BY StepType, StepParse, StepSorted DEF IInv
  <2>2. HighestMatch' /\ NoMatchIsTrue'
    BY StepResult DEF IInv, HistoryInv
  <2>3. HistoryInv'
    BY <2>2, StepHistory DEF IInv
  <2> QED BY <2>1, <2>2, <2>3 DEF IInv
<1> QED BY <1>1, InitIInv, PTL DEF Spec

\* The types of the resolution, for any list the registry answers with.
THEOREM ResolutionTypeCorrect == Spec => []TypeOK
<1>1. IInv => TypeOK
  BY DEF IInv
<1> QED BY <1>1, Inductive, PTL

\* The version chosen is the highest one listed that the request admits.
THEOREM ChoosesHighest == Spec => []HighestMatch
<1>1. IInv => HighestMatch
  BY DEF IInv
<1> QED BY <1>1, Inductive, PTL

\* "No matching version" is never said of an answer that holds one.
THEOREM MissesNothing == Spec => []NoMatchIsTrue
<1>1. IInv => NoMatchIsTrue
  BY DEF IInv
<1> QED BY <1>1, Inductive, PTL

\* As long as registries only publish, resolution never goes back.
THEOREM ResolvesForward == Spec => []NeverGoesBack
<1>1. IInv => NeverGoesBack
  BY DEF IInv, HistoryInv, HighestMatch, NoMatchIsTrue, NeverGoesBack
<1> QED BY <1>1, Inductive, PTL
===============================================================================
