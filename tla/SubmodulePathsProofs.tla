------------------------- MODULE SubmodulePathsProofs -------------------------
(***************************************************************************)
(* For paths of any length: cleaning a path changes neither where it leads *)
(* nor, a second time, the path; and a path that resolveSubmodulePath      *)
(* accepts stays inside the directory it starts from.                      *)
(*                                                                         *)
(* Clean and Walk are recursive functions.  What they compute is proved by *)
(* induction on a set of numbers (lemma Induction), which rests on finite  *)
(* sets being well-founded under strict inclusion.                         *)
(***************************************************************************)
EXTENDS SubmodulePaths, FiniteSetTheorems, SequenceTheorems, TLAPS

-------------------------------------------------------------------------------
(* Induction and recursion.                                                *)

Below(n) == 0 .. n - 1

LEMMA LeastNatural ==
  ASSUME NEW T \in SUBSET Nat, T # {}
  PROVE  \E m \in T : \A n \in T : m <= n
<1> DEFINE B == {Below(n) : n \in T}
<1>1. B \subseteq FiniteSubsetsOf(Nat)
  <2> SUFFICES ASSUME NEW n \in T PROVE Below(n) \in FiniteSubsetsOf(Nat)
    OBVIOUS
  <2>1. IsFiniteSet(Below(n))
    BY FS_Interval DEF Below
  <2>2. Below(n) \in SUBSET Nat
    BY DEF Below
  <2> QED BY <2>1, <2>2 DEF FiniteSubsetsOf
<1>2. PICK x \in B : \A y \in B : ~(<<y, x>> \in StrictSubsetOrdering(Nat))
  <2>1. B # {}
    OBVIOUS
  <2> HIDE DEF B
  <2> QED BY <1>1, <2>1, FS_StrictSubsetOrderingWellFounded, WFMin
<1>3. PICK m \in T : x = Below(m)
  OBVIOUS
<1>4. ASSUME NEW n \in T PROVE m <= n
  <2> SUFFICES ASSUME n < m PROVE FALSE
    OBVIOUS
  <2>1. Below(n) \in SUBSET Nat /\ Below(m) \in SUBSET Nat
    BY DEF Below
  <2>2. Below(n) \subseteq Below(m) /\ Below(n) # Below(m)
    <3>1. n \in Below(m) /\ n \notin Below(n)
      BY DEF Below
    <3> QED BY <3>1 DEF Below
  <2>3. <<Below(n), Below(m)>> \in StrictSubsetOrdering(Nat)
    BY <2>1, <2>2 DEF StrictSubsetOrdering
  <2> QED BY <1>2, <1>3, <2>3
<1> QED BY <1>4

LEMMA Induction ==
  ASSUME NEW T \in SUBSET Nat, 0 \in T, \A i \in T : i + 1 \in T
  PROVE  T = Nat
<1> SUFFICES ASSUME Nat \ T # {} PROVE FALSE
  OBVIOUS
<1>1. PICK m \in Nat \ T : \A n \in Nat \ T : m <= n
  BY LeastNatural
<1>2. m - 1 \in Nat /\ m - 1 \in T
  BY <1>1
<1> QED BY <1>2

\* Up to a bound, as it is used below.
LEMMA InductionUpTo ==
  ASSUME NEW n \in Nat, NEW T \in SUBSET (0..n), 0 \in T,
         \A i \in T : i < n => i + 1 \in T
  PROVE  \A i \in 0..n : i \in T
<1> DEFINE U == T \cup {i \in Nat : i > n}
<1>1. 0 \in U /\ U \in SUBSET Nat
  <2>1. \A i \in T : i \in Nat
    OBVIOUS
  <2> QED BY <2>1
<1>2. ASSUME NEW i \in U PROVE i + 1 \in U
  <2>1. CASE i \in T /\ i < n
    BY <2>1
  <2>2. CASE ~(i \in T /\ i < n)
    <3>1. i \in Nat /\ i >= n
      BY <2>2
    <3> QED BY <3>1
  <2> QED BY <2>1, <2>2
<1>3. U = Nat
  <2> HIDE DEF U
  <2> QED BY <1>1, <1>2, Induction
<1> QED BY <1>3

\* g begins with c and goes on by the steps.
Recursive(g, c, n, step) == g[0] = c /\ \A i \in 1..n : g[i] = step[i][g[i - 1]]

LEMMA BoundedRecursion ==
  ASSUME NEW S, NEW c \in S, NEW n \in Nat, NEW step \in [1..n -> [S -> S]]
  PROVE  \E g \in [0..n -> S] : Recursive(g, c, n, step)
<1> DEFINE Good(g, k) == Recursive(g, c, k, step)
           T == {k \in 0..n : \E g \in [0..k -> S] : Good(g, k)}
<1>1. 0 \in T
  <2>1. [i \in 0..0 |-> c] \in [0..0 -> S]
    OBVIOUS
  <2>2. Good([i \in 0..0 |-> c], 0)
    BY DEF Recursive
  <2>3. 0 \in 0..n
    OBVIOUS
  <2> HIDE DEF Good
  <2> QED BY <2>1, <2>2, <2>3
<1>2. ASSUME NEW k \in T, k < n PROVE k + 1 \in T
  <2>1. k \in 0..n /\ k + 1 \in 0..n /\ k + 1 \in 1..n
    BY <1>2
  <2>2. PICK g \in [0..k -> S] : Good(g, k)
    OBVIOUS
  <2> DEFINE h == [i \in 0..(k + 1) |-> IF i = k + 1 THEN step[k + 1][g[k]] ELSE g[i]]
  <2>3. g[k] \in S
    BY <2>1
  <2>4. step[k + 1][g[k]] \in S
    BY <2>1, <2>3
  <2>5. h \in [0..(k + 1) -> S]
    BY <2>1, <2>4
  <2>6. h[0] = c
    BY <2>1, <2>2 DEF Recursive
  <2>7. ASSUME NEW i \in 1..(k + 1) PROVE h[i] = step[i][h[i - 1]]
    <3>1. CASE i = k + 1
      <4>1. h[k + 1] = step[k + 1][g[k]] /\ h[k] = g[k]
        BY <2>1
      <4>2. i - 1 = k
        BY <2>1, <3>1
      <4> QED BY <3>1, <4>1, <4>2
    <3>2. CASE i # k + 1
      <4>1. i \in 1..k /\ i \in 0..(k + 1) /\ i - 1 \in 0..(k + 1) /\ i - 1 # k + 1
        BY <2>1, <3>2
      <4>2. h[i] = g[i] /\ h[i - 1] = g[i - 1]
        BY <3>2, <4>1
      <4> QED BY <2>2, <4>1, <4>2 DEF Recursive
    <3> QED BY <3>1, <3>2
  <2>8. Good(h, k + 1)
    <3> HIDE DEF h
    <3> QED BY <2>6, <2>7 DEF Recursive
  <2> HIDE DEF h, Good
  <2> QED BY <2>1, <2>5, <2>8
<1>3. n \in T
  <2>1. T \in SUBSET (0..n)
    OBVIOUS
  <2>2. \A i \in T : i < n => i + 1 \in T
    BY <1>2
  <2>3. \A i \in 0..n : i \in T
    <3> HIDE DEF T
    <3> QED BY <1>1, <2>1, <2>2, InductionUpTo
  <2>4. n \in 0..n
    OBVIOUS
  <2> HIDE DEF T
  <2> QED BY <2>3, <2>4
<1> QED BY <1>3

-------------------------------------------------------------------------------
(* Push and StepTo, case by case.                                          *)

LEMMA PushCases ==
  ASSUME NEW s \in Seq(Components), NEW c \in Components
  PROVE  /\ Push(s, c) \in Seq(Components)
         /\ c = "." => Push(s, c) = s
         /\ c = ".." /\ s # <<>> /\ Last(s) # ".." => Push(s, c) = Front(s)
         /\ c = ".." /\ (s = <<>> \/ Last(s) = "..") => Push(s, c) = Append(s, c)
         /\ c \notin {".", ".."} => Push(s, c) = Append(s, c)
<1>1. CASE c = "."
  BY <1>1 DEF Push
<1>2. CASE c = ".." /\ s # <<>> /\ Last(s) # ".."
  <2>1. Push(s, c) = Front(s)
    BY <1>2 DEF Push
  <2>2. Front(s) \in Seq(Components)
    BY <1>2 DEF Front
  <2> QED BY <1>2, <2>1, <2>2
<1>3. CASE c = ".." /\ (s = <<>> \/ Last(s) = "..")
  BY <1>3 DEF Push
<1>4. CASE c \notin {".", ".."}
  BY <1>4 DEF Push
<1> QED BY <1>1, <1>2, <1>3, <1>4

LEMMA StepToCases ==
  ASSUME NEW d \in Seq(Components), NEW c \in Components
  PROVE  /\ StepTo(d, c) \in Seq(Components)
         /\ c = "." => StepTo(d, c) = d
         /\ c = ".." /\ d # <<>> => StepTo(d, c) = Front(d)
         /\ c \notin {".", ".."} => StepTo(d, c) = Append(d, c)
<1>1. CASE c = "."
  BY <1>1 DEF StepTo
<1>2. CASE c = ".." /\ d # <<>>
  <2>1. StepTo(d, c) = Front(d)
    BY <1>2 DEF StepTo
  <2>2. Front(d) \in Seq(Components)
    BY <1>2 DEF Front
  <2> QED BY <1>2, <2>1, <2>2
<1>3. CASE c = ".." /\ d = <<>>
  BY <1>3 DEF StepTo
<1>4. CASE c \notin {".", ".."}
  BY <1>4 DEF StepTo
<1> QED BY <1>1, <1>2, <1>3, <1>4

-------------------------------------------------------------------------------
(* The recursive functions, step by step.                                  *)

\* What the definitions of Stacks and Stops say, which needs that there is such a
\* function.
LEMMA StacksSteps ==
  ASSUME NEW parts \in Seq(Components)
  PROVE  /\ Stacks(parts) \in [0..Len(parts) -> Seq(Components)]
         /\ Stacks(parts)[0] = <<>>
         /\ \A i \in 1..Len(parts) :
              Stacks(parts)[i] = Push(Stacks(parts)[i - 1], parts[i])
<1> DEFINE n == Len(parts)
           S == Seq(Components)
           step == [i \in 1..n |-> [s \in S |-> Push(s, parts[i])]]
           f == CHOOSE h : h = [i \in 0..n |->
                                  IF i = 0 THEN <<>> ELSE Push(h[i - 1], parts[i])]
<1>1. step \in [1..n -> [S -> S]]
  <2>1. ASSUME NEW i \in 1..n, NEW s \in S PROVE Push(s, parts[i]) \in S
    <3>1. parts[i] \in Components
      OBVIOUS
    <3> QED BY <3>1, PushCases
  <2> QED BY <2>1
<1>2. n \in Nat /\ <<>> \in S
  OBVIOUS
<1>3. PICK g \in [0..n -> S] : g[0] = <<>> /\ \A i \in 1..n : g[i] = step[i][g[i - 1]]
  <2> HIDE DEF n, S, step
  <2>1. \E g \in [0..n -> S] : Recursive(g, <<>>, n, step)
    BY <1>1, <1>2, BoundedRecursion
  <2> QED BY <2>1 DEF Recursive
<1>4. \A i \in 1..n : g[i] = Push(g[i - 1], parts[i])
  <2> SUFFICES ASSUME NEW i \in 1..n PROVE g[i] = Push(g[i - 1], parts[i])
    OBVIOUS
  <2>1. g[i - 1] \in S
    <3>1. i - 1 \in 0..n
      BY <1>2
    <3> QED BY <1>3, <3>1
  <2>2. step[i][g[i - 1]] = Push(g[i - 1], parts[i])
    BY <2>1
  <2> HIDE DEF step
  <2> QED BY <1>3, <2>2
<1>5. g = [i \in 0..n |-> IF i = 0 THEN <<>> ELSE Push(g[i - 1], parts[i])]
  <2>1. \A i \in 0..n : g[i] = IF i = 0 THEN <<>> ELSE Push(g[i - 1], parts[i])
    <3> SUFFICES ASSUME NEW i \in 0..n
                 PROVE  g[i] = IF i = 0 THEN <<>> ELSE Push(g[i - 1], parts[i])
      OBVIOUS
    <3>1. i = 0 \/ (i \in 1..n /\ i # 0)
      <4> HIDE DEF n
      <4> QED BY <1>2
    <3> QED BY <1>3, <1>4, <3>1
  <2> QED BY <1>3, <2>1
<1>6. f = [i \in 0..n |-> IF i = 0 THEN <<>> ELSE Push(f[i - 1], parts[i])]
  BY <1>5, Zenon
<1>7. Stacks(parts) = f
  BY DEF Stacks
<1>8. f[0] = <<>> /\ \A i \in 1..n : f[i] = Push(f[i - 1], parts[i])
  <2> HIDE DEF f
  <2> QED BY <1>6
<1>9. \A i \in 0..n : f[i] \in S
  <2> DEFINE T == {i \in 0..n : f[i] \in S}
  <2>1. 0 \in T
    <3>1. 0 \in 0..n
      BY <1>2
    <3>2. f[0] \in S
      <4> HIDE DEF f
      <4> QED BY <1>2, <1>8
    <3> QED BY <3>1, <3>2
  <2>2. ASSUME NEW i \in T, i < n PROVE i + 1 \in T
    <3> HIDE DEF f
    <3>1. i + 1 \in 1..n /\ i + 1 \in 0..n /\ f[i] \in S /\ parts[i + 1] \in Components
      BY <2>2
    <3>2. f[i + 1] = Push(f[i], parts[i + 1])
      BY <1>8, <3>1
    <3> QED BY <3>1, <3>2, PushCases
  <2>3. T \in SUBSET (0..n)
    OBVIOUS
  <2>4. \A i \in 0..n : i \in T
    <3> HIDE DEF T
    <3> QED BY <1>2, <2>1, <2>2, <2>3, InductionUpTo
  <2> QED BY <2>4
<1>10. f \in [0..n -> S]
  <2> HIDE DEF f
  <2> QED BY <1>6, <1>9
<1> QED BY <1>7, <1>8, <1>10

LEMMA StopsSteps ==
  ASSUME NEW base \in Seq(Components), NEW parts \in Seq(Components)
  PROVE  /\ Stops(base, parts) \in [0..Len(parts) -> Seq(Components)]
         /\ Stops(base, parts)[0] = base
         /\ \A i \in 1..Len(parts) :
              Stops(base, parts)[i] = StepTo(Stops(base, parts)[i - 1], parts[i])
<1> DEFINE n == Len(parts)
           S == Seq(Components)
           step == [i \in 1..n |-> [s \in S |-> StepTo(s, parts[i])]]
           f == CHOOSE h : h = [i \in 0..n |->
                                  IF i = 0 THEN base ELSE StepTo(h[i - 1], parts[i])]
<1>1. step \in [1..n -> [S -> S]]
  <2>1. ASSUME NEW i \in 1..n, NEW s \in S PROVE StepTo(s, parts[i]) \in S
    <3>1. parts[i] \in Components
      OBVIOUS
    <3> QED BY <3>1, StepToCases
  <2> QED BY <2>1
<1>2. n \in Nat /\ base \in S
  OBVIOUS
<1>3. PICK g \in [0..n -> S] : g[0] = base /\ \A i \in 1..n : g[i] = step[i][g[i - 1]]
  <2> HIDE DEF n, S, step
  <2>1. \E g \in [0..n -> S] : Recursive(g, base, n, step)
    BY <1>1, <1>2, BoundedRecursion
  <2> QED BY <2>1 DEF Recursive
<1>4. \A i \in 1..n : g[i] = StepTo(g[i - 1], parts[i])
  <2> SUFFICES ASSUME NEW i \in 1..n PROVE g[i] = StepTo(g[i - 1], parts[i])
    OBVIOUS
  <2>1. g[i - 1] \in S
    <3>1. i - 1 \in 0..n
      BY <1>2
    <3> QED BY <1>3, <3>1
  <2>2. step[i][g[i - 1]] = StepTo(g[i - 1], parts[i])
    BY <2>1
  <2> HIDE DEF step
  <2> QED BY <1>3, <2>2
<1>5. g = [i \in 0..n |-> IF i = 0 THEN base ELSE StepTo(g[i - 1], parts[i])]
  <2>1. \A i \in 0..n : g[i] = IF i = 0 THEN base ELSE StepTo(g[i - 1], parts[i])
    <3> SUFFICES ASSUME NEW i \in 0..n
                 PROVE  g[i] = IF i = 0 THEN base ELSE StepTo(g[i - 1], parts[i])
      OBVIOUS
    <3>1. i = 0 \/ (i \in 1..n /\ i # 0)
      <4> HIDE DEF n
      <4> QED BY <1>2
    <3> QED BY <1>3, <1>4, <3>1
  <2> QED BY <1>3, <2>1
<1>6. f = [i \in 0..n |-> IF i = 0 THEN base ELSE StepTo(f[i - 1], parts[i])]
  BY <1>5, Zenon
<1>7. Stops(base, parts) = f
  BY DEF Stops
<1>8. f[0] = base /\ \A i \in 1..n : f[i] = StepTo(f[i - 1], parts[i])
  <2> HIDE DEF f
  <2> QED BY <1>6
<1>9. \A i \in 0..n : f[i] \in S
  <2> DEFINE T == {i \in 0..n : f[i] \in S}
  <2>1. 0 \in T
    <3>1. 0 \in 0..n
      BY <1>2
    <3>2. f[0] \in S
      <4> HIDE DEF f
      <4> QED BY <1>2, <1>8
    <3> QED BY <3>1, <3>2
  <2>2. ASSUME NEW i \in T, i < n PROVE i + 1 \in T
    <3> HIDE DEF f
    <3>1. i + 1 \in 1..n /\ i + 1 \in 0..n /\ f[i] \in S /\ parts[i + 1] \in Components
      BY <2>2
    <3>2. f[i + 1] = StepTo(f[i], parts[i + 1])
      BY <1>8, <3>1
    <3> QED BY <3>1, <3>2, StepToCases
  <2>3. T \in SUBSET (0..n)
    OBVIOUS
  <2>4. \A i \in 0..n : i \in T
    <3> HIDE DEF T
    <3> QED BY <1>2, <2>1, <2>2, <2>3, InductionUpTo
  <2> QED BY <2>4
<1>10. f \in [0..n -> S]
  <2> HIDE DEF f
  <2> QED BY <1>6, <1>9
<1> QED BY <1>7, <1>8, <1>10

-------------------------------------------------------------------------------
(* What Clean returns.                                                     *)

\* No "." is left, and ".." only at the beginning.
Cleaned(s) ==
  \A j \in 1..Len(s) :
    s[j] # "." /\ (s[j] = ".." /\ j > 1 => s[j - 1] = "..")

LEMMA PushKeepsCleaned ==
  ASSUME NEW s \in Seq(Components), NEW c \in Components, Cleaned(s)
  PROVE  Cleaned(Push(s, c))
<1>1. CASE c = "."
  BY <1>1, PushCases
<1>2. CASE c = ".." /\ s # <<>> /\ Last(s) # ".."
  <2>1. Push(s, c) = SubSeq(s, 1, Len(s) - 1)
    BY <1>2, PushCases DEF Front
  <2> QED BY <1>2, <2>1 DEF Cleaned
<1>3. CASE c = ".." /\ (s = <<>> \/ Last(s) = "..")
  <2>1. Push(s, c) = Append(s, c)
    BY <1>3, PushCases
  <2> DEFINE t == Append(s, c)
  <2>2. Len(t) = Len(s) + 1 /\ t[Len(s) + 1] = c /\ \A j \in 1..Len(s) : t[j] = s[j]
    OBVIOUS
  <2>3. Len(s) > 0 => s[Len(s)] = ".."
    BY <1>3 DEF Last
  <2> HIDE DEF t
  <2>4. ASSUME NEW j \in 1..Len(t)
        PROVE  t[j] # "." /\ (t[j] = ".." /\ j > 1 => t[j - 1] = "..")
    <3>1. CASE j = Len(s) + 1
      <4>1. t[j] = ".."
        BY <1>3, <2>2, <3>1
      <4>2. j > 1 => t[j - 1] = s[Len(s)]
        BY <2>2, <3>1
      <4> QED BY <2>3, <3>1, <4>1, <4>2
    <3>2. CASE j # Len(s) + 1
      <4>1. j \in 1..Len(s)
        BY <2>2, <3>2
      <4>2. j > 1 => j - 1 \in 1..Len(s)
        BY <4>1
      <4> QED BY <2>2, <4>1, <4>2 DEF Cleaned
    <3> QED BY <3>1, <3>2
  <2> QED BY <2>1, <2>4 DEF Cleaned, t
<1>4. CASE c \notin {".", ".."}
  <2>1. Push(s, c) = Append(s, c)
    BY <1>4, PushCases
  <2> QED BY <1>4, <2>1 DEF Cleaned
<1> QED BY <1>1, <1>2, <1>3, <1>4

LEMMA CleanIsCleaned ==
  ASSUME NEW parts \in Seq(Components)
  PROVE  Clean(parts) \in Seq(Components) /\ Cleaned(Clean(parts))
<1> DEFINE n == Len(parts)
           f == Stacks(parts)
           T == {i \in 0..n : Cleaned(f[i])}
<1>1. /\ f \in [0..n -> Seq(Components)] /\ f[0] = <<>>
      /\ \A i \in 1..n : f[i] = Push(f[i - 1], parts[i])
  BY StacksSteps
<1> HIDE DEF f
<1>2. n \in Nat /\ 0 \in T
  BY <1>1 DEF Cleaned
<1>3. ASSUME NEW i \in T, i < n PROVE i + 1 \in T
  <2>1. i + 1 \in 1..n /\ i + 1 \in 0..n /\ f[i] \in Seq(Components)
        /\ parts[i + 1] \in Components
    BY <1>1, <1>3
  <2>2. f[i + 1] = Push(f[i], parts[i + 1])
    BY <1>1, <2>1
  <2> QED BY <2>1, <2>2, PushKeepsCleaned
<1>4. \A i \in 0..n : i \in T
  <2>1. T \in SUBSET (0..n) /\ \A i \in T : i < n => i + 1 \in T
    BY <1>3
  <2> HIDE DEF T
  <2> QED BY <1>2, <2>1, InductionUpTo
<1>5. Clean(parts) = f[n] /\ n \in 0..n
  BY DEF Clean, f
<1> QED BY <1>1, <1>4, <1>5

LEMMA CleanKeepsCleaned ==
  ASSUME NEW s \in Seq(Components), Cleaned(s)
  PROVE  Clean(s) = s
<1> DEFINE n == Len(s)
           f == Stacks(s)
           T == {i \in 0..n : Len(f[i]) = i /\ \A j \in 1..i : f[i][j] = s[j]}
<1>1. /\ f \in [0..n -> Seq(Components)] /\ f[0] = <<>>
      /\ \A i \in 1..n : f[i] = Push(f[i - 1], s[i])
  BY StacksSteps
<1> HIDE DEF f
<1>2. n \in Nat /\ 0 \in T
  BY <1>1
<1>3. ASSUME NEW i \in T, i < n PROVE i + 1 \in T
  <2>1. i + 1 \in 1..n /\ i + 1 \in 0..n /\ f[i] \in Seq(Components)
        /\ s[i + 1] \in Components
    BY <1>1, <1>3
  <2>2. f[i + 1] = Push(f[i], s[i + 1])
    BY <1>1, <2>1
  <2>3. s[i + 1] # "." /\ (s[i + 1] = ".." /\ i # 0 => s[i] = "..")
    BY <2>1 DEF Cleaned
  <2>4. s[i + 1] = ".." => f[i] = <<>> \/ Last(f[i]) = ".."
    BY <2>1, <2>3 DEF Last
  <2>5. f[i + 1] = Append(f[i], s[i + 1])
    BY <2>1, <2>2, <2>3, <2>4, PushCases
  <2>6. Len(f[i + 1]) = i + 1 /\ f[i + 1][i + 1] = s[i + 1]
    BY <2>1, <2>5
  <2>7. \A j \in 1..i : f[i + 1][j] = s[j]
    BY <2>1, <2>5
  <2>8. \A j \in 1..(i + 1) : j \in 1..i \/ j = i + 1
    BY <2>1
  <2> QED BY <2>1, <2>6, <2>7, <2>8
<1>4. \A i \in 0..n : i \in T
  <2>1. T \in SUBSET (0..n) /\ \A i \in T : i < n => i + 1 \in T
    BY <1>3
  <2> HIDE DEF T
  <2> QED BY <1>2, <2>1, InductionUpTo
<1>5. Clean(s) = f[n] /\ n \in 0..n
  BY DEF Clean, f
<1>6. Clean(s) \in Seq(Components) /\ Len(Clean(s)) = Len(s)
      /\ \A j \in 1..Len(Clean(s)) : Clean(s)[j] = s[j]
  BY <1>1, <1>4, <1>5
<1> QED BY <1>6, SeqEqual

-------------------------------------------------------------------------------
(* Where a path leads.                                                     *)

\* The two things a stack can be: it leads up, or it holds names only.
LeadsUp(s) == s # <<>> /\ s[1] = ".."
Names(s)   == \A j \in 1..Len(s) : s[j] \notin {".", ".."}

LEMMA PushKeepsLeadsUp ==
  ASSUME NEW s \in Seq(Components), NEW c \in Components, LeadsUp(s)
  PROVE  LeadsUp(Push(s, c))
<1>1. CASE c = "."
  BY <1>1, PushCases
<1>2. CASE c = ".." /\ Last(s) # ".."
  <2>1. Push(s, c) = SubSeq(s, 1, Len(s) - 1)
    BY <1>2, PushCases DEF Front, LeadsUp
  <2>2. Len(s) >= 2
    <3>1. Len(s) # 0 /\ Len(s) \in Nat
      BY DEF LeadsUp
    <3>2. Len(s) # 1
      BY <1>2 DEF LeadsUp, Last
    <3> DEFINE k == Len(s)
    <3>3. k \in Nat /\ k # 0 /\ k # 1
      BY <3>1, <3>2
    <3>4. k >= 2
      <4> HIDE DEF k
      <4> QED BY <3>3
    <3> QED BY <3>4
  <2> DEFINE t == SubSeq(s, 1, Len(s) - 1)
  <2>3. t \in Seq(Components) /\ Len(t) >= 1 /\ t[1] = s[1]
    BY <2>2
  <2>4. t # <<>>
    <3> HIDE DEF t
    <3> QED BY <2>3
  <2> QED BY <2>1, <2>3, <2>4 DEF LeadsUp
<1>3. CASE c # "." /\ ~(c = ".." /\ Last(s) # "..")
  <2>1. Push(s, c) = Append(s, c)
    BY <1>3, PushCases
  <2>2. Append(s, c)[1] = s[1] /\ Append(s, c) # <<>>
    BY DEF LeadsUp
  <2> QED BY <2>1, <2>2 DEF LeadsUp
<1> QED BY <1>1, <1>2, <1>3

\* One component, after the stack and after where the system is: base \o s.
LEMMA PushFollowsStepTo ==
  ASSUME NEW base \in Seq(Components), NEW s \in Seq(Components), NEW c \in Components,
         Names(s)
  PROVE  \/ LeadsUp(Push(s, c))
         \/ Names(Push(s, c)) /\ StepTo(base \o s, c) = base \o Push(s, c)
<1>1. base \o s \in Seq(Components)
  OBVIOUS
<1>2. CASE c = "."
  BY <1>1, <1>2, PushCases, StepToCases
<1>3. CASE c = ".." /\ s = <<>>
  <2>1. Push(s, c) = Append(s, c)
    BY <1>3, PushCases
  <2>2. Append(s, c)[1] = c /\ Append(s, c) # <<>>
    BY <1>3
  <2> QED BY <1>3, <2>1, <2>2 DEF LeadsUp
<1>4. CASE c = ".." /\ s # <<>>
  <2>1. Len(s) >= 1 /\ Last(s) # ".."
    <3>1. Len(s) # 0 /\ Len(s) \in Nat
      BY <1>4
    <3>2. Len(s) \in 1..Len(s)
      BY <3>1
    <3> QED BY <3>1, <3>2 DEF Names, Last
  <2>2. Push(s, c) = SubSeq(s, 1, Len(s) - 1)
    BY <1>4, <2>1, PushCases DEF Front
  <2>3. Names(SubSeq(s, 1, Len(s) - 1))
    BY <2>1 DEF Names
  <2>4. Len(base \o s) = Len(base) + Len(s) /\ base \o s # <<>>
    BY <2>1
  <2>5. StepTo(base \o s, c) = SubSeq(base \o s, 1, Len(base \o s) - 1)
    BY <1>1, <1>4, <2>4, StepToCases DEF Front
  <2>6. SubSeq(base \o s, 1, Len(base \o s) - 1) = base \o SubSeq(s, 1, Len(s) - 1)
    <3> DEFINE a == SubSeq(base \o s, 1, Len(base \o s) - 1)
               b == base \o SubSeq(s, 1, Len(s) - 1)
    <3>1. a \in Seq(Components) /\ b \in Seq(Components)
      BY <2>1, <2>4
    <3>2. Len(a) = Len(base) + Len(s) - 1 /\ Len(b) = Len(base) + Len(s) - 1
      BY <2>1, <2>4
    <3>3. ASSUME NEW j \in 1..Len(a) PROVE a[j] = b[j]
      <4>1. a[j] = (base \o s)[j]
        BY <2>1, <2>4, <3>2
      <4>2. CASE j <= Len(base)
        BY <2>1, <3>2, <4>1, <4>2
      <4>3. CASE j > Len(base)
        <5>1. j - Len(base) \in 1 .. Len(s) - 1
          BY <2>1, <3>2, <4>3
        <5>2. b[j] = SubSeq(s, 1, Len(s) - 1)[j - Len(base)]
          BY <2>1, <4>3, <5>1
        <5>3. (base \o s)[j] = s[j - Len(base)]
          BY <4>3, <5>1
        <5> QED BY <2>1, <4>1, <5>1, <5>2, <5>3
      <4> QED BY <4>2, <4>3
    <3> HIDE DEF a, b
    <3>4. a = b
      BY <3>1, <3>2, <3>3, SeqEqual
    <3> QED BY <3>4 DEF a, b
  <2> QED BY <2>2, <2>3, <2>5, <2>6
<1>5. CASE c \notin {".", ".."}
  <2>1. Push(s, c) = Append(s, c) /\ StepTo(base \o s, c) = Append(base \o s, c)
    BY <1>1, <1>5, PushCases, StepToCases
  <2>2. Names(Append(s, c))
    BY <1>5 DEF Names
  <2>3. Append(base \o s, c) = base \o Append(s, c)
    <3>2. Append(base \o s, c) = (base \o s) \o <<c>>
      BY <1>1, AppendIsConcat
    <3>3. Append(s, c) = s \o <<c>>
      BY AppendIsConcat
    <3>4. (base \o s) \o <<c>> = base \o (s \o <<c>>)
      <4> DEFINE last == <<c>>
      <4>1. last \in Seq(Components)
        OBVIOUS
      <4> HIDE DEF last
      <4>2. (base \o s) \o last = base \o (s \o last)
        BY <4>1, ConcatAssociative
      <4> QED BY <4>2 DEF last
    <3> QED BY <3>2, <3>3, <3>4, Zenon
  <2> QED BY <2>1, <2>2, <2>3
<1> QED BY <1>2, <1>3, <1>4, <1>5

\* A path whose stack never leads up leads to that stack below the base.
LEMMA StacksFollowStops ==
  ASSUME NEW base \in Seq(Components), NEW parts \in Seq(Components)
  PROVE  \/ LeadsUp(Clean(parts))
         \/ Names(Clean(parts)) /\ Walk(base, parts) = base \o Clean(parts)
<1> DEFINE n == Len(parts)
           f == Stacks(parts)
           g == Stops(base, parts)
           Either(i) == LeadsUp(f[i]) \/ (Names(f[i]) /\ g[i] = base \o f[i])
           T == {i \in 0..n : Either(i)}
<1>1. /\ f \in [0..n -> Seq(Components)] /\ f[0] = <<>>
      /\ \A i \in 1..n : f[i] = Push(f[i - 1], parts[i])
  BY StacksSteps
<1>2. /\ g \in [0..n -> Seq(Components)] /\ g[0] = base
      /\ \A i \in 1..n : g[i] = StepTo(g[i - 1], parts[i])
  BY StopsSteps
<1> HIDE DEF f, g
<1>3. n \in Nat /\ 0 \in T
  <2>1. Names(f[0])
    BY <1>1 DEF Names
  <2>2. base \o <<>> = base
    BY ConcatEmptySeq
  <2> QED BY <1>1, <1>2, <2>1, <2>2
<1>4. ASSUME NEW i \in T, i < n PROVE i + 1 \in T
  <2>1. /\ i + 1 \in 1..n /\ i + 1 \in 0..n /\ (i + 1) - 1 = i
        /\ f[i] \in Seq(Components) /\ parts[i + 1] \in Components
    BY <1>1, <1>4
  <2>2. f[i + 1] = Push(f[i], parts[i + 1]) /\ g[i + 1] = StepTo(g[i], parts[i + 1])
    BY <1>1, <1>2, <2>1
  <2>3. CASE LeadsUp(f[i])
    BY <2>1, <2>2, <2>3, PushKeepsLeadsUp
  <2>4. CASE Names(f[i]) /\ g[i] = base \o f[i]
    <3>1. \/ LeadsUp(Push(f[i], parts[i + 1]))
          \/ /\ Names(Push(f[i], parts[i + 1]))
             /\ StepTo(base \o f[i], parts[i + 1]) = base \o Push(f[i], parts[i + 1])
      BY <2>1, <2>4, PushFollowsStepTo, Zenon
    <3>2. Either(i + 1)
      BY <2>2, <2>4, <3>1, Zenon
    <3> HIDE DEF Either
    <3> QED BY <2>1, <3>2
  <2> QED BY <2>3, <2>4
<1>5. \A i \in 0..n : i \in T
  <2>1. T \in SUBSET (0..n) /\ \A i \in T : i < n => i + 1 \in T
    BY <1>4
  <2> HIDE DEF T
  <2> QED BY <1>3, <2>1, InductionUpTo
<1>6. Clean(parts) = f[n] /\ Walk(base, parts) = g[n] /\ n \in 0..n
  BY DEF Clean, Walk, f, g
<1> QED BY <1>5, <1>6

LEMMA FirstOfLeadsUp ==
  ASSUME NEW s, LeadsUp(s)
  PROVE  First(s) = ".."
BY DEF LeadsUp, First

-------------------------------------------------------------------------------

\* Cleaning twice changes nothing: the path that main.go:252 cleans is taken by
\* GetSubmodule (inspect.go:196) as it is.
THEOREM CleanTwice ==
  ASSUME NEW parts \in Seq(Components)
  PROVE  Clean(Clean(parts)) = Clean(parts)
BY CleanIsCleaned, CleanKeepsCleaned

\* A path that does not begin with ".." once it is cleaned leads, from any directory,
\* where the cleaned one leads: to the names it is made of, below that directory.
\* Cleaning takes "a/.." away before the system could find that there is no a, and
\* still arrives at the same place.
THEOREM CleanKeepsPlace ==
  ASSUME NEW base \in Seq(Components), NEW parts \in Seq(Components),
         First(Clean(parts)) # ".."
  PROVE  /\ Walk(base, parts) = base \o Clean(parts)
         /\ Walk(base, Clean(parts)) = Walk(base, parts)
<1>1. Clean(parts) \in Seq(Components)
  BY CleanIsCleaned
<1>2. Clean(Clean(parts)) = Clean(parts)
  BY CleanTwice
<1>3. Walk(base, parts) = base \o Clean(parts)
  BY StacksFollowStops, FirstOfLeadsUp
<1>4. Walk(base, Clean(parts)) = base \o Clean(Clean(parts))
  BY <1>1, <1>2, StacksFollowStops, FirstOfLeadsUp
<1> QED BY <1>2, <1>3, <1>4

LEMMA BelowIsWithin ==
  ASSUME NEW base \in Seq(Components), NEW s \in Seq(Components)
  PROVE  Within(base, base \o s)
<1>1. Len(base \o s) = Len(base) + Len(s) /\ Len(base) \in Nat /\ Len(s) \in Nat
  OBVIOUS
<1>2. \A i \in 1..Len(base) : (base \o s)[i] = base[i]
  OBVIOUS
<1> QED BY <1>1, <1>2 DEF Within

\* A path that resolveSubmodulePath accepts leads to a directory inside the module,
\* whatever its length and wherever the module is (inspect.go:192-209).
THEOREM StaysWithin ==
  ASSUME NEW base \in Seq(Components), NEW sub \in Paths, resolveSubmodulePath(sub)
  PROVE  /\ Walk(base, Clean(sub.parts)) = Walk(base, sub.parts)
         /\ Within(base, Walk(base, sub.parts))
<1>1. sub.parts \in Seq(Components)
  BY DEF Paths
<1>2. First(Clean(sub.parts)) # ".."
  BY DEF resolveSubmodulePath
<1>3. Clean(sub.parts) \in Seq(Components)
  BY <1>1, CleanIsCleaned
<1> QED BY <1>1, <1>2, <1>3, CleanKeepsPlace, BelowIsWithin

\* What the command line hands over is what was typed, cleaned, and GetSubmodule
\* turns it down only for a name that begins with ".." (main.go:252-270).
THEOREM CommandLineIsStricter ==
  ASSUME NEW raw \in Paths, submoduleFromCmd(raw)
  PROVE  LET sub == [kind |-> "relative", parts |-> Clean(raw.parts)] IN
           /\ sub \in Paths
           /\ resolveSubmodulePath(sub) <=> First(sub.parts) \notin DotDotNames
<1>1. raw.parts \in Seq(Components)
  BY DEF Paths
<1>2. Clean(raw.parts) \in Seq(Components) /\ Clean(Clean(raw.parts)) = Clean(raw.parts)
  BY <1>1, CleanIsCleaned, CleanTwice
<1>3. First(Clean(raw.parts)) # ".."
  BY DEF submoduleFromCmd
<1> QED BY <1>2, <1>3 DEF resolveSubmodulePath, Paths, Kinds
===============================================================================
