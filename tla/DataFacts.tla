----------------------------- MODULE DataFacts -----------------------------
(***************************************************************************)
(* Lemmas on the data the models keep: induction over numbers and          *)
(* sequences, functions defined by recursion, sums, and sequences without  *)
(* repetition, as used for the queues of spans of the transport and of the *)
(* ingest buffer.                                                          *)
(*                                                                         *)
(* The induction theorems of the library speak of an operator, which the   *)
(* provers cannot instantiate.  Here they speak of a set: to show P(n) for *)
(* every number, apply NatInductionOnSet to {n \in Nat : P(n)}.            *)
(***************************************************************************)
EXTENDS Integers, Sequences, Functions, FiniteSets, SequenceTheorems, FiniteSetTheorems, TLAPS

-----------------------------------------------------------------------------
(* Induction.                                                              *)

\* Every set of natural numbers that is not empty has a least one.
LEMMA LeastNatural ==
    ASSUME NEW T \in SUBSET Nat, T # {}
    PROVE  \E m \in T : \A k \in T : m <= k
<1> DEFINE R == {ss \in Nat \X Nat : ss[1] < ss[2]}
<1>1. IsWellFoundedOn(R, Nat)
  BY NatLessThanWellFounded DEF OpToRel
<1> HIDE DEF R
<1>2. PICK m \in T : \A k \in T : ~(<<k, m>> \in R)
  BY <1>1, WFMin
<1>3. ASSUME NEW k \in T PROVE m <= k
  <2>1. ~(<<k, m>> \in R) /\ k \in Nat /\ m \in Nat
    BY <1>2
  <2>2. ~(k < m)
    BY <2>1 DEF R
  <2> QED BY <2>1, <2>2
<1> QED BY <1>3

\* What 0 has and each number hands on to the next one, every number has.
LEMMA NatInductionOnSet ==
    ASSUME NEW T \in SUBSET Nat, 0 \in T, \A n \in T : n + 1 \in T
    PROVE  T = Nat
<1> SUFFICES ASSUME Nat \ T # {} PROVE FALSE
  OBVIOUS
<1>1. PICK m \in Nat \ T : \A k \in Nat \ T : m <= k
  BY LeastNatural
<1>2. m - 1 \in Nat /\ m - 1 \notin Nat \ T
  BY <1>1
<1>3. m - 1 \in T
  BY <1>2
<1> QED BY <1>1, <1>3

\* The same over sequences, by their last elements.
LEMMA SeqInductionOnSet ==
    ASSUME NEW S, NEW T \in SUBSET Seq(S), <<>> \in T,
           \A q \in T, x \in S : Append(q, x) \in T
    PROVE  T = Seq(S)
<1> DEFINE N == {n \in Nat : \A q \in Seq(S) : Len(q) = n => q \in T}
<1>1. 0 \in N
  BY EmptySeq
<1>2. ASSUME NEW n \in N PROVE n + 1 \in N
  <2> SUFFICES ASSUME NEW q \in Seq(S), Len(q) = n + 1 PROVE q \in T
    OBVIOUS
  <2>1. q # <<>>
    BY EmptySeq
  <2>2. PICK r \in Seq(S), x \in S : q = Append(r, x)
    BY <2>1, SequenceEmptyOrAppend
  <2>3. Len(r) = n
    BY <2>2, AppendProperties
  <2> QED BY <2>2, <2>3
<1>3. N = Nat
  <2> HIDE DEF N
  <2>1. N \in SUBSET Nat
    BY DEF N
  <2> QED BY <1>1, <1>2, <2>1, NatInductionOnSet
<1> QED BY <1>3, LenProperties

\* A function given by its value at 0 and by steps from each value to the next.
StepsOn(n, A) == [1..n -> [A -> A]]
Follows(f, n, A, start, step) ==
    /\ f \in [0..n -> A]
    /\ f[0] = start
    /\ \A i \in 1..n : f[i] = step[i][f[i - 1]]

LEMMA StepsDefine ==
    ASSUME NEW n \in Nat, NEW A, NEW start \in A, NEW step \in StepsOn(n, A)
    PROVE  \E f : Follows(f, n, A, start, step)
<1> USE DEF StepsOn
<1> DEFINE Reaches(k) == \E f \in [0..k -> A] :
                            f[0] = start /\ \A i \in 1..k : f[i] = step[i][f[i - 1]]
           N == {k \in Nat : k <= n => Reaches(k)}
<1>1. Reaches(0)
  <2> DEFINE f == [i \in 0..0 |-> start]
  <2>1. f \in [0..0 -> A] /\ f[0] = start /\ \A i \in 1..0 : f[i] = step[i][f[i - 1]]
    OBVIOUS
  <2> QED BY <2>1
<1>2. ASSUME NEW k \in Nat, k + 1 <= n, Reaches(k) PROVE Reaches(k + 1)
  <2>1. PICK g \in [0..k -> A] : g[0] = start /\ \A i \in 1..k : g[i] = step[i][g[i - 1]]
    BY <1>2
  <2> DEFINE f == [i \in 0..(k + 1) |-> IF i = k + 1 THEN step[k + 1][g[k]] ELSE g[i]]
  <2>2. step[k + 1] \in [A -> A] /\ g[k] \in A
    BY <1>2
  <2>3. f \in [0..(k + 1) -> A] /\ f[0] = start
    BY <2>1, <2>2
  <2>4. ASSUME NEW i \in 1..(k + 1) PROVE f[i] = step[i][f[i - 1]]
    <3>1. i - 1 \in 0..k /\ f[i - 1] = g[i - 1]
      BY <2>4
    <3>2. CASE i = k + 1
      BY <3>1, <3>2
    <3>3. CASE i # k + 1
      <4>1. i \in 1..k /\ f[i] = g[i]
        BY <3>3
      <4> QED BY <2>1, <3>1, <4>1
    <3> QED BY <3>2, <3>3
  <2> HIDE DEF f
  <2> QED BY <2>3, <2>4
<1> HIDE DEF Reaches
<1>3. n \in N
  <2>1. N \in SUBSET Nat /\ 0 \in N
    BY <1>1
  <2>2. ASSUME NEW k \in N PROVE k + 1 \in N
    <3>1. k + 1 <= n => Reaches(k)
      OBVIOUS
    <3> QED BY <1>2, <3>1
  <2> HIDE DEF N
  <2>3. N = Nat
    BY <2>1, <2>2, NatInductionOnSet
  <2> QED BY <2>3
<1> QED BY <1>3 DEF Reaches, Follows

-----------------------------------------------------------------------------
(* SumFunction, of functions with a finite domain.                         *)

\* The element a fold takes next, and the sums over the subsets of S that it makes.
TakenNext(s) == CHOOSE x \in s : TRUE
Sums(h, f, S) ==
    h = [s \in SUBSET S |-> IF s = {} THEN 0 ELSE f[TakenNext(s)] + h[s \ {TakenNext(s)}]]
SumsOfInts(h, f, S) == h \in [SUBSET S -> Int] /\ Sums(h, f, S)

\* What the sum of a set needs of the element taken out of it.
LEMMA TakeOneOut ==
    ASSUME NEW S, IsFiniteSet(S), NEW s \in SUBSET S
    PROVE  /\ IsFiniteSet(s) /\ Cardinality(s) \in Nat
           /\ s = {} <=> Cardinality(s) = 0
           /\ s # {} => TakenNext(s) \in s
           /\ \A x \in s : /\ s \ {x} \in SUBSET S
                           /\ Cardinality(s \ {x}) = Cardinality(s) - 1
<1>1. IsFiniteSet(s)
  BY FS_Subset
<1>2. s # {} => TakenNext(s) \in s
  BY DEF TakenNext
<1> QED BY <1>1, <1>2, FS_CardinalityType, FS_EmptySet, FS_RemoveElement

\* There are such sums, and they are numbers.
LEMMA SumsExist ==
    ASSUME NEW S, IsFiniteSet(S), NEW f \in [S -> Int]
    PROVE  \E h \in [SUBSET S -> Int] : Sums(h, f, S)
<1> DEFINE Small(n) == {s \in SUBSET S : Cardinality(s) <= n}
           Value(h, s) == IF s = {} THEN 0 ELSE f[TakenNext(s)] + h[s \ {TakenNext(s)}]
           Reaches(n) == \E h \in [Small(n) -> Int] : \A s \in Small(n) : h[s] = Value(h, s)
           N == {n \in Nat : Reaches(n)}
<1>1. Reaches(0)
  <2> DEFINE h == [s \in Small(0) |-> 0]
  <2>1. \A s \in Small(0) : s = {}
    BY TakeOneOut
  <2>2. h \in [Small(0) -> Int] /\ \A s \in Small(0) : h[s] = Value(h, s)
    BY <2>1
  <2> QED BY <2>2
<1>2. ASSUME NEW n \in Nat, Reaches(n) PROVE Reaches(n + 1)
  <2>1. PICK g \in [Small(n) -> Int] : \A s \in Small(n) : g[s] = Value(g, s)
    BY <1>2
  <2> DEFINE h == [s \in Small(n + 1) |-> Value(g, s)]
  <2>2. ASSUME NEW s \in Small(n + 1), s # {}
        PROVE  TakenNext(s) \in S /\ s \ {TakenNext(s)} \in Small(n)
    BY <2>2, TakeOneOut
  <2>3. h \in [Small(n + 1) -> Int]
    <3>1. ASSUME NEW s \in Small(n + 1) PROVE Value(g, s) \in Int
      BY <2>2
    <3> QED BY <3>1
  <2>4. ASSUME NEW s \in Small(n) PROVE s \in Small(n + 1) /\ h[s] = g[s]
    <3>1. s \in Small(n + 1)
      <4>1. s \in SUBSET S /\ Cardinality(s) <= n
        OBVIOUS
      <4> QED BY <4>1, TakeOneOut
    <3> HIDE DEF Small, Value
    <3> QED BY <2>1, <3>1
  <2>5. ASSUME NEW s \in Small(n + 1) PROVE h[s] = Value(h, s)
    <3>1. s # {} => h[s \ {TakenNext(s)}] = g[s \ {TakenNext(s)}]
      BY <2>2, <2>4
    <3> HIDE DEF Small
    <3> QED BY <3>1
  <2> HIDE DEF h
  <2> QED BY <2>3, <2>5
<1> HIDE DEF Reaches
<1>3. N = Nat
  <2>1. N \in SUBSET Nat /\ 0 \in N /\ \A n \in N : n + 1 \in N
    BY <1>1, <1>2
  <2> HIDE DEF N
  <2> QED BY <2>1, NatInductionOnSet
<1>4. PICK h \in [Small(Cardinality(S)) -> Int] :
          \A s \in Small(Cardinality(S)) : h[s] = Value(h, s)
  <2>1. Cardinality(S) \in Nat
    BY FS_CardinalityType
  <2> QED BY <1>3, <2>1 DEF Reaches
<1>5. Small(Cardinality(S)) = SUBSET S
  BY FS_Subset, FS_CardinalityType
<1>6. h \in [SUBSET S -> Int] /\ \A s \in SUBSET S : h[s] = Value(h, s)
  BY <1>4, <1>5
<1>7. h = [s \in SUBSET S |-> Value(h, s)]
  BY <1>6
<1> QED BY <1>6, <1>7 DEF Sums

\* There are no others.
LEMMA SumsUnique ==
    ASSUME NEW S, IsFiniteSet(S), NEW f \in [S -> Int], NEW g, NEW h,
           Sums(g, f, S), Sums(h, f, S)
    PROVE  g = h
<1> DEFINE N == {n \in Nat : \A s \in SUBSET S : Cardinality(s) = n => g[s] = h[s]}
<1>1. /\ g = [s \in SUBSET S |-> IF s = {} THEN 0 ELSE f[TakenNext(s)] + g[s \ {TakenNext(s)}]]
      /\ h = [s \in SUBSET S |-> IF s = {} THEN 0 ELSE f[TakenNext(s)] + h[s \ {TakenNext(s)}]]
  BY DEF Sums
<1>2. /\ DOMAIN g = SUBSET S /\ DOMAIN h = SUBSET S
      /\ \A s \in SUBSET S :
           /\ g[s] = IF s = {} THEN 0 ELSE f[TakenNext(s)] + g[s \ {TakenNext(s)}]
           /\ h[s] = IF s = {} THEN 0 ELSE f[TakenNext(s)] + h[s \ {TakenNext(s)}]
  <2>1. DOMAIN g = SUBSET S /\ DOMAIN h = SUBSET S
    BY <1>1
  <2>2. ASSUME NEW s \in SUBSET S
        PROVE  /\ g[s] = IF s = {} THEN 0 ELSE f[TakenNext(s)] + g[s \ {TakenNext(s)}]
               /\ h[s] = IF s = {} THEN 0 ELSE f[TakenNext(s)] + h[s \ {TakenNext(s)}]
    BY <1>1
  <2> QED BY <2>1, <2>2
<1>3. 0 \in N
  BY <1>2, TakeOneOut
<1>4. ASSUME NEW n \in N PROVE n + 1 \in N
  <2> SUFFICES ASSUME NEW s \in SUBSET S, Cardinality(s) = n + 1 PROVE g[s] = h[s]
    OBVIOUS
  <2>1. s # {} /\ s \ {TakenNext(s)} \in SUBSET S /\ Cardinality(s \ {TakenNext(s)}) = n
    BY TakeOneOut
  <2>2. g[s \ {TakenNext(s)}] = h[s \ {TakenNext(s)}]
    BY <2>1
  <2> QED BY <1>2, <2>1, <2>2
<1>5. N = Nat
  <2>1. N \in SUBSET Nat
    OBVIOUS
  <2> HIDE DEF N
  <2> QED BY <1>3, <1>4, <2>1, NatInductionOnSet
<1>6. \A s \in SUBSET S : g[s] = h[s]
  BY <1>5, TakeOneOut
<1> QED BY <1>1, <1>2, <1>6

\* They are what SumFunction adds up.
LEMMA SumIsTheirs ==
    ASSUME NEW S, IsFiniteSet(S), NEW f \in [S -> Int], NEW h, Sums(h, f, S)
    PROVE  SumFunction(f) = h[S]
<1> DEFINE g == CHOOSE iter : iter = [s \in SUBSET S |->
                  IF s = {} THEN 0
                  ELSE f[CHOOSE x \in s : TRUE] + iter[s \ {CHOOSE x \in s : TRUE}]]
<1>1. DOMAIN f = S
  OBVIOUS
<1>2. SumFunction(f) = g[S]
  BY <1>1 DEF SumFunction, SumFunctionOnSet, FoldFunctionOnSet, MapThenFoldSet
<1>3. g = [s \in SUBSET S |->
              IF s = {} THEN 0
              ELSE f[CHOOSE x \in s : TRUE] + g[s \ {CHOOSE x \in s : TRUE}]]
  BY DEF Sums, TakenNext
<1>4. Sums(g, f, S)
  BY <1>3 DEF Sums, TakenNext
<1> QED BY <1>2, <1>4, SumsUnique

\* Whichever element is taken out first.
LEMMA SumsTakeAny ==
    ASSUME NEW S, IsFiniteSet(S), NEW f \in [S -> Int],
           NEW h, SumsOfInts(h, f, S), NEW t \in SUBSET S, NEW z \in t
    PROVE  h[t] = f[z] + h[t \ {z}]
<1> USE DEF SumsOfInts
<1> DEFINE N == {n \in Nat : \A s \in SUBSET S : Cardinality(s) = n
                                => \A x \in s : h[s] = f[x] + h[s \ {x}]}
<1>1. \A s \in SUBSET S : s # {} => h[s] = f[TakenNext(s)] + h[s \ {TakenNext(s)}]
  BY DEF Sums
<1>2. 0 \in N
  BY TakeOneOut
<1>3. ASSUME NEW n \in N PROVE n + 1 \in N
  <2> SUFFICES ASSUME NEW s \in SUBSET S, Cardinality(s) = n + 1, NEW x \in s
               PROVE  h[s] = f[x] + h[s \ {x}]
    OBVIOUS
  <2> DEFINE c == TakenNext(s)
  <2>1. c \in s /\ h[s] = f[c] + h[s \ {c}]
    BY <1>1, TakeOneOut
  <2> HIDE DEF c
  <2>2. /\ s \ {c} \in SUBSET S /\ Cardinality(s \ {c}) = n
        /\ s \ {x} \in SUBSET S /\ Cardinality(s \ {x}) = n
    BY <2>1, TakeOneOut
  <2>3. CASE x = c
    BY <2>1, <2>3
  <2>4. CASE x # c
    <3>1. h[s \ {c}] = f[x] + h[(s \ {c}) \ {x}]
      BY <2>1, <2>2, <2>4
    <3>2. h[s \ {x}] = f[c] + h[(s \ {x}) \ {c}]
      BY <2>1, <2>2, <2>4
    <3> DEFINE rest == (s \ {c}) \ {x}
    <3>3. h[s \ {x}] = f[c] + h[rest] /\ h[s \ {c}] = f[x] + h[rest]
      <4>1. (s \ {x}) \ {c} = rest
        OBVIOUS
      <4> QED BY <3>1, <3>2, <4>1
    <3>4. /\ f[x] \in Int /\ f[c] \in Int
          /\ h[rest] \in Int
      BY <2>1
    <3> HIDE DEF rest
    <3> QED BY <2>1, <3>3, <3>4
  <2> QED BY <2>3, <2>4
<1>4. N = Nat
  <2>1. N \in SUBSET Nat
    OBVIOUS
  <2> HIDE DEF N
  <2> QED BY <1>2, <1>3, <2>1, NatInductionOnSet
<1> QED BY <1>4, TakeOneOut

\* Induction over the subsets of a finite set, by taking elements out.
LEMMA SubsetInduction ==
    ASSUME NEW S, IsFiniteSet(S), NEW T \in SUBSET SUBSET S, {} \in T,
           \A s \in SUBSET S, x \in S : s \in T /\ x \notin s => s \cup {x} \in T
    PROVE  T = SUBSET S
<1> DEFINE N == {n \in Nat : \A s \in SUBSET S : Cardinality(s) = n => s \in T}
<1>1. 0 \in N
  BY TakeOneOut
<1>2. ASSUME NEW n \in N PROVE n + 1 \in N
  <2> SUFFICES ASSUME NEW s \in SUBSET S, Cardinality(s) = n + 1 PROVE s \in T
    OBVIOUS
  <2>1. PICK x \in s : TRUE
    BY TakeOneOut
  <2>2. s \ {x} \in SUBSET S /\ Cardinality(s \ {x}) = n
    BY TakeOneOut
  <2>3. (s \ {x}) \cup {x} = s /\ x \in S /\ x \notin s \ {x}
    OBVIOUS
  <2> QED BY <2>2, <2>3
<1>3. N = Nat
  <2>1. N \in SUBSET Nat
    OBVIOUS
  <2> HIDE DEF N
  <2> QED BY <1>1, <1>2, <2>1, NatInductionOnSet
<1> QED BY <1>3, TakeOneOut

\* A sum, taken up one element at a time, in any order.
Adds(h, f, S) ==
    /\ h \in [SUBSET S -> Int]
    /\ h[{}] = 0
    /\ \A s \in SUBSET S, x \in S : x \notin s => h[s \cup {x}] = f[x] + h[s]

LEMMA SumsAdd ==
    ASSUME NEW S, IsFiniteSet(S), NEW f \in [S -> Int]
    PROVE  \E h : Adds(h, f, S) /\ SumFunction(f) = h[S]
<1>1. PICK h \in [SUBSET S -> Int] : Sums(h, f, S)
  BY SumsExist
<1>2. SumFunction(f) = h[S]
  BY <1>1, SumIsTheirs
<1>3. h[{}] = 0
  BY <1>1 DEF Sums
<1>4. ASSUME NEW s \in SUBSET S, NEW x \in S, x \notin s
      PROVE  h[s \cup {x}] = f[x] + h[s]
  <2> DEFINE t == s \cup {x}
  <2>1. t \in SUBSET S /\ x \in t /\ t \ {x} = s
    BY <1>4
  <2> HIDE DEF t
  <2>2. SumsOfInts(h, f, S)
    BY <1>1 DEF SumsOfInts
  <2>3. h[t] = f[x] + h[t \ {x}]
    BY <2>1, <2>2, SumsTakeAny
  <2> QED BY <2>1, <2>3 DEF t
<1> QED BY <1>1, <1>2, <1>3, <1>4 DEF Adds

\* A sum of naturals is one, no less than each of them; zeroes add up to zero.
LEMMA SumOfNaturals ==
    ASSUME NEW S, IsFiniteSet(S), NEW f \in [S -> Nat]
    PROVE  /\ SumFunction(f) \in Nat
           /\ \A x \in S : f[x] <= SumFunction(f)
           /\ (\A x \in S : f[x] = 0) => SumFunction(f) = 0
<1>1. f \in [S -> Int]
  OBVIOUS
<1>2. PICK h : Adds(h, f, S) /\ SumFunction(f) = h[S]
  BY <1>1, SumsAdd
<1> DEFINE T == {s \in SUBSET S : h[s] \in Nat /\ ((\A x \in S : f[x] = 0) => h[s] = 0)}
<1>3. T = SUBSET S
  <2>1. T \in SUBSET SUBSET S /\ {} \in T
    BY <1>2 DEF Adds
  <2>2. \A s \in SUBSET S, x \in S : s \in T /\ x \notin s => s \cup {x} \in T
    BY <1>2 DEF Adds
  <2> HIDE DEF T
  <2> QED BY <2>1, <2>2, SubsetInduction
<1>4. ASSUME NEW x \in S PROVE f[x] <= h[S]
  <2>1. h[(S \ {x}) \cup {x}] = f[x] + h[S \ {x}]
    BY <1>2 DEF Adds
  <2>2. (S \ {x}) \cup {x} = S /\ S \ {x} \in T
    BY <1>3
  <2>3. f[x] \in Nat /\ h[S \ {x}] \in Nat
    BY <2>2
  <2> QED BY <2>1, <2>2, <2>3
<1>5. S \in T
  BY <1>3
<1> QED BY <1>2, <1>4, <1>5

\* Where each number is at most b, the sum is at most b for each element.
LEMMA SumIsBounded ==
    ASSUME NEW S, IsFiniteSet(S), NEW f \in [S -> Nat], NEW b \in Nat,
           \A x \in S : f[x] <= b
    PROVE  SumFunction(f) <= b * Cardinality(S)
<1>1. f \in [S -> Int]
  OBVIOUS
<1>2. PICK h : Adds(h, f, S) /\ SumFunction(f) = h[S]
  BY <1>1, SumsAdd
<1> DEFINE T == {s \in SUBSET S : h[s] <= b * Cardinality(s)}
<1>3. T = SUBSET S
  <2>1. T \in SUBSET SUBSET S /\ {} \in T
    BY <1>2, FS_EmptySet DEF Adds
  <2>2. ASSUME NEW s \in SUBSET S, NEW x \in S, s \in T, x \notin s
        PROVE  s \cup {x} \in T
    <3>1. h[s \cup {x}] = f[x] + h[s] /\ h[s] \in Int
      BY <1>2, <2>2 DEF Adds
    <3>2. Cardinality(s) \in Nat /\ Cardinality(s \cup {x}) = Cardinality(s) + 1
      BY <2>2, TakeOneOut, FS_AddElement
    <3>3. b * (Cardinality(s) + 1) = b * Cardinality(s) + b /\ b * Cardinality(s) \in Nat
      <4>1. \A n \in Nat : b * (n + 1) = b * n + b /\ b * n \in Nat
        OBVIOUS
      <4> QED BY <3>2, <4>1
    <3>4. f[x] \in Nat /\ f[x] <= b /\ h[s] <= b * Cardinality(s)
      BY <2>2
    <3> QED BY <3>1, <3>2, <3>3, <3>4
  <2>3. \A s \in SUBSET S, x \in S : s \in T /\ x \notin s => s \cup {x} \in T
    BY <2>2
  <2> HIDE DEF T
  <2> QED BY <2>1, <2>3, SubsetInduction
<1>4. S \in T
  BY <1>3
<1> QED BY <1>2, <1>4

\* f gives each element of S an integer.
Integral(f, S) == f \in [S -> Int]

\* Two functions add up to the sum of their sums.
LEMMA SumOfTwo ==
    ASSUME NEW S, IsFiniteSet(S), NEW f, NEW g, NEW k,
           Integral(f, S), Integral(g, S), Integral(k, S),
           \A x \in S : k[x] = f[x] + g[x]
    PROVE  SumFunction(k) = SumFunction(f) + SumFunction(g)
<1> USE DEF Integral
<1>1. PICK h : Adds(h, f, S) /\ SumFunction(f) = h[S]
  BY SumsAdd
<1>2. PICK i : Adds(i, g, S) /\ SumFunction(g) = i[S]
  BY SumsAdd
<1>3. PICK j : Adds(j, k, S) /\ SumFunction(k) = j[S]
  BY SumsAdd
<1> DEFINE T == {s \in SUBSET S : j[s] = h[s] + i[s]}
<1>4. T = SUBSET S
  <2>1. T \in SUBSET SUBSET S /\ {} \in T
    BY <1>1, <1>2, <1>3 DEF Adds
  <2>2. ASSUME NEW s \in SUBSET S, NEW x \in S, s \in T, x \notin s
        PROVE  s \cup {x} \in T
    <3>1. /\ h[s \cup {x}] = f[x] + h[s] /\ h[s] \in Int
          /\ i[s \cup {x}] = g[x] + i[s] /\ i[s] \in Int
          /\ j[s \cup {x}] = k[x] + j[s]
      BY <1>1, <1>2, <1>3, <2>2 DEF Adds
    <3>2. f[x] \in Int /\ g[x] \in Int /\ j[s] = h[s] + i[s] /\ k[x] = f[x] + g[x]
      BY <2>2
    <3> QED BY <3>1, <3>2
  <2>3. \A s \in SUBSET S, x \in S : s \in T /\ x \notin s => s \cup {x} \in T
    BY <2>2
  <2> HIDE DEF T
  <2> QED BY <2>1, <2>3, SubsetInduction
<1>5. S \in T
  BY <1>4
<1> QED BY <1>1, <1>2, <1>3, <1>5

\* A change of one of the numbers is the change of the sum.
LEMMA SumWithOneChanged ==
    ASSUME NEW S, IsFiniteSet(S), NEW f, NEW g, Integral(f, S), Integral(g, S),
           NEW x \in S, \A y \in S : y # x => g[y] = f[y]
    PROVE  SumFunction(g) = SumFunction(f) + (g[x] - f[x])
<1> USE DEF Integral
<1>1. PICK h : Adds(h, f, S) /\ SumFunction(f) = h[S]
  BY SumsAdd
<1>2. PICK i : Adds(i, g, S) /\ SumFunction(g) = i[S]
  BY SumsAdd
<1> DEFINE T == {s \in SUBSET S : x \notin s => h[s] = i[s]}
<1>3. T = SUBSET S
  <2>1. T \in SUBSET SUBSET S /\ {} \in T
    BY <1>1, <1>2 DEF Adds
  <2>2. ASSUME NEW s \in SUBSET S, NEW y \in S, s \in T, y \notin s
        PROVE  s \cup {y} \in T
    <3>1. h[s \cup {y}] = f[y] + h[s] /\ i[s \cup {y}] = g[y] + i[s]
      BY <1>1, <1>2, <2>2 DEF Adds
    <3> QED BY <2>2, <3>1
  <2>3. \A s \in SUBSET S, y \in S : s \in T /\ y \notin s => s \cup {y} \in T
    BY <2>2
  <2> HIDE DEF T
  <2> QED BY <2>1, <2>3, SubsetInduction
<1>4. S \ {x} \in T /\ (S \ {x}) \cup {x} = S
  BY <1>3
<1>5. /\ h[(S \ {x}) \cup {x}] = f[x] + h[S \ {x}] /\ h[S \ {x}] \in Int
      /\ i[(S \ {x}) \cup {x}] = g[x] + i[S \ {x}]
  BY <1>1, <1>2 DEF Adds
<1> QED BY <1>1, <1>2, <1>4, <1>5

-----------------------------------------------------------------------------
(* Sequences.                                                              *)

\* The elements of a sequence are the values at its positions.
LEMMA RangeMember ==
    ASSUME NEW S, NEW q \in Seq(S), NEW x
    PROVE  x \in Range(q) <=> \E i \in 1..Len(q) : q[i] = x
BY DEF Range

\* Cutting a sequence in two splits its elements, and splits them disjointly
\* when there is no repetition.
LEMMA CutSequence ==
    ASSUME NEW S, NEW q \in Seq(S), NEW n \in 0..Len(q)
    PROVE  /\ SubSeq(q, 1, n) \in Seq(S) /\ Len(SubSeq(q, 1, n)) = n
           /\ SubSeq(q, n + 1, Len(q)) \in Seq(S)
           /\ Len(SubSeq(q, n + 1, Len(q))) = Len(q) - n
           /\ Range(q) = Range(SubSeq(q, 1, n)) \cup Range(SubSeq(q, n + 1, Len(q)))
           /\ IsInjective(q) =>
                 /\ IsInjective(SubSeq(q, 1, n))
                 /\ IsInjective(SubSeq(q, n + 1, Len(q)))
                 /\ Range(SubSeq(q, 1, n)) \cap Range(SubSeq(q, n + 1, Len(q))) = {}
<1> DEFINE front == SubSeq(q, 1, n)
           back == SubSeq(q, n + 1, Len(q))
<1>1. /\ front \in Seq(S) /\ Len(front) = n
      /\ \A i \in 1..n : front[i] = q[i]
  OBVIOUS
<1>2. /\ back \in Seq(S) /\ Len(back) = Len(q) - n
      /\ \A i \in 1..(Len(q) - n) : back[i] = q[n + i]
  OBVIOUS
<1> HIDE DEF front, back
<1>d. DOMAIN front = 1..n /\ DOMAIN back = 1..(Len(q) - n) /\ DOMAIN q = 1..Len(q)
  BY <1>1, <1>2
<1>3. Range(q) \subseteq Range(front) \cup Range(back)
  <2> SUFFICES ASSUME NEW i \in 1..Len(q)
               PROVE  q[i] \in Range(front) \cup Range(back)
    BY RangeMember
  <2>1. CASE i <= n
    <3>1. i \in 1..n /\ front[i] = q[i]
      BY <2>1, <1>1
    <3> QED BY <3>1, <1>d DEF Range
  <2>2. CASE ~(i <= n)
    <3>1. i - n \in 1..(Len(q) - n) /\ back[i - n] = q[i]
      BY <2>2, <1>2
    <3> QED BY <3>1, <1>d DEF Range
  <2> QED BY <2>1, <2>2
<1>4. Range(front) \subseteq Range(q) /\ Range(back) \subseteq Range(q)
  <2>1. ASSUME NEW i \in 1..n PROVE front[i] \in Range(q)
    <3>1. i \in DOMAIN q /\ front[i] = q[i]
      BY <1>1, <1>d
    <3> QED BY <3>1 DEF Range
  <2>2. ASSUME NEW i \in 1..(Len(q) - n) PROVE back[i] \in Range(q)
    <3>1. n + i \in DOMAIN q /\ back[i] = q[n + i]
      BY <1>2, <1>d
    <3> QED BY <3>1 DEF Range
  <2> QED BY <2>1, <2>2, <1>d DEF Range
<1>5. ASSUME IsInjective(q)
      PROVE  IsInjective(front) /\ IsInjective(back)
  <2>1. ASSUME NEW i \in 1..n, NEW j \in 1..n, front[i] = front[j]
        PROVE  i = j
    <3>1. i \in DOMAIN q /\ j \in DOMAIN q /\ q[i] = q[j]
      BY <2>1, <1>1, <1>d
    <3> QED BY <3>1, <1>5 DEF IsInjective
  <2>2. ASSUME NEW i \in 1..(Len(q) - n), NEW j \in 1..(Len(q) - n), back[i] = back[j]
        PROVE  i = j
    <3>1. n + i \in DOMAIN q /\ n + j \in DOMAIN q /\ q[n + i] = q[n + j]
      BY <2>2, <1>2, <1>d
    <3>2. n + i = n + j
      BY <3>1, <1>5 DEF IsInjective
    <3> QED BY <3>2
  <2> QED BY <2>1, <2>2, <1>d DEF IsInjective
<1>6. ASSUME IsInjective(q) PROVE Range(front) \cap Range(back) = {}
  <2> SUFFICES ASSUME NEW i \in 1..n, NEW j \in 1..(Len(q) - n), front[i] = back[j]
               PROVE  FALSE
    BY <1>d DEF Range
  <2>1. i \in DOMAIN q /\ n + j \in DOMAIN q /\ q[i] = q[n + j]
    BY <1>1, <1>2, <1>d
  <2> QED BY <2>1, <1>6 DEF IsInjective
<1> QED BY <1>1, <1>2, <1>3, <1>4, <1>5, <1>6 DEF front, back

\* Joining two sequences that share no element and repeat none.
LEMMA JoinSequences ==
    ASSUME NEW S, NEW q \in Seq(S), NEW r \in Seq(S)
    PROVE  /\ q \o r \in Seq(S) /\ Len(q \o r) = Len(q) + Len(r)
           /\ Range(q \o r) = Range(q) \cup Range(r)
           /\ (IsInjective(q) /\ IsInjective(r) /\ Range(q) \cap Range(r) = {})
                 => IsInjective(q \o r)
<1>1. /\ q \o r \in Seq(S) /\ Len(q \o r) = Len(q) + Len(r)
      /\ \A i \in 1..(Len(q) + Len(r)) :
            (q \o r)[i] = IF i <= Len(q) THEN q[i] ELSE r[i - Len(q)]
  BY ConcatProperties
<1>2. Range(q \o r) = Range(q) \cup Range(r)
  BY RangeConcatenation
<1>3. ASSUME IsInjective(q), IsInjective(r), Range(q) \cap Range(r) = {}
      PROVE  IsInjective(q \o r)
  <2> SUFFICES ASSUME NEW i \in 1..(Len(q) + Len(r)), NEW j \in 1..(Len(q) + Len(r)),
                      (q \o r)[i] = (q \o r)[j]
               PROVE  i = j
    BY <1>1 DEF IsInjective
  <2>1. CASE i <= Len(q) /\ j <= Len(q)
    BY <2>1, <1>1, <1>3 DEF IsInjective
  <2>2. CASE ~(i <= Len(q)) /\ ~(j <= Len(q))
    BY <2>2, <1>1, <1>3 DEF IsInjective
  <2>3. ASSUME NEW x \in 1..Len(q), NEW y \in 1..Len(r) PROVE q[x] # r[y]
    <3>1. q[x] \in Range(q) /\ r[y] \in Range(r)
      BY RangeMember
    <3> QED BY <3>1, <1>3
  <2>4. CASE i <= Len(q) /\ ~(j <= Len(q))
    BY <2>3, <2>4, <1>1
  <2>5. CASE ~(i <= Len(q)) /\ j <= Len(q)
    BY <2>3, <2>5, <1>1
  <2> QED BY <2>1, <2>2, <2>4, <2>5
<1> QED BY <1>1, <1>2, <1>3

\* What a cut no longer than q takes from the head of q \o r comes from q.
LEMMA CutOfJoin ==
    ASSUME NEW S, NEW q \in Seq(S), NEW r \in Seq(S), NEW n \in 0..Len(q)
    PROVE  Range(SubSeq(q \o r, 1, n)) \subseteq Range(q)
<1>1. /\ q \o r \in Seq(S) /\ Len(q \o r) = Len(q) + Len(r)
      /\ \A i \in 1..Len(q) : (q \o r)[i] = q[i]
  BY ConcatProperties
<1> DEFINE whole == q \o r
           front == SubSeq(whole, 1, n)
<1> HIDE DEF whole
<1>2. whole \in Seq(S) /\ n \in 0..Len(whole)
  BY <1>1 DEF whole
<1>3. front \in Seq(S) /\ Len(front) = n /\ \A i \in 1..n : front[i] = whole[i]
  BY <1>2
<1> HIDE DEF front
<1>4. ASSUME NEW i \in 1..n PROVE front[i] \in Range(q)
  <2>1. i \in DOMAIN q /\ front[i] = q[i]
    BY <1>1, <1>3 DEF whole
  <2> QED BY <2>1 DEF Range
<1>5. DOMAIN front = 1..n
  BY <1>3
<1> QED BY <1>4, <1>5 DEF Range, front, whole

\* Appending a new element.
LEMMA AppendNew ==
    ASSUME NEW S, NEW q \in Seq(S), NEW x \in S
    PROVE  /\ Append(q, x) \in Seq(S) /\ Len(Append(q, x)) = Len(q) + 1
           /\ Range(Append(q, x)) = Range(q) \cup {x}
           /\ IsInjective(q) /\ x \notin Range(q) => IsInjective(Append(q, x))
<1>1. /\ Append(q, x) \in Seq(S) /\ Len(Append(q, x)) = Len(q) + 1
      /\ \A i \in 1..(Len(q) + 1) :
            Append(q, x)[i] = IF i <= Len(q) THEN q[i] ELSE x
  BY AppendProperties
<1>2. Range(Append(q, x)) = Range(q) \cup {x}
  <2>1. Append(q, x)[Len(q) + 1] = x
    BY <1>1
  <2> QED BY <1>1, <2>1 DEF Range
<1>3. IsInjective(q) /\ x \notin Range(q) => IsInjective(Append(q, x))
  BY <1>1 DEF IsInjective, Range
<1> QED BY <1>1, <1>2, <1>3

\* A non-empty sequence is its head and its tail.
LEMMA HeadAndTail ==
    ASSUME NEW S, NEW q \in Seq(S), q # <<>>
    PROVE  /\ Head(q) \in S /\ Tail(q) \in Seq(S) /\ Len(Tail(q)) = Len(q) - 1
           /\ Range(q) = {Head(q)} \cup Range(Tail(q))
           /\ IsInjective(q) => IsInjective(Tail(q)) /\ Head(q) \notin Range(Tail(q))
<1>1. /\ Head(q) \in S /\ Tail(q) \in Seq(S) /\ Len(Tail(q)) = Len(q) - 1
      /\ Len(q) \in Nat \ {0} /\ Head(q) = q[1]
      /\ \A i \in 1..(Len(q) - 1) : Tail(q)[i] = q[i + 1]
  BY HeadTailProperties, ElementOfSeq
<1>d. DOMAIN q = 1..Len(q) /\ DOMAIN Tail(q) = 1..(Len(q) - 1)
  BY <1>1
<1>2. Range(q) \subseteq {Head(q)} \cup Range(Tail(q))
  <2> SUFFICES ASSUME NEW i \in 1..Len(q), i # 1 PROVE q[i] \in Range(Tail(q))
    BY <1>1, <1>d DEF Range
  <2>1. i - 1 \in 1..(Len(q) - 1) /\ Tail(q)[i - 1] = q[i]
    BY <1>1
  <2> QED BY <2>1, <1>d DEF Range
<1>3. {Head(q)} \cup Range(Tail(q)) \subseteq Range(q)
  <2>1. Head(q) \in Range(q)
    <3>1. 1 \in DOMAIN q
      BY <1>1, <1>d
    <3> QED BY <3>1, <1>1 DEF Range
  <2>2. ASSUME NEW i \in 1..(Len(q) - 1) PROVE Tail(q)[i] \in Range(q)
    <3>1. i + 1 \in DOMAIN q /\ Tail(q)[i] = q[i + 1]
      BY <1>1, <1>d
    <3> QED BY <3>1 DEF Range
  <2> QED BY <2>1, <2>2, <1>d DEF Range
<1>4. ASSUME IsInjective(q) PROVE IsInjective(Tail(q))
  <2> SUFFICES ASSUME NEW i \in 1..(Len(q) - 1), NEW j \in 1..(Len(q) - 1),
                      Tail(q)[i] = Tail(q)[j]
               PROVE  i = j
    BY <1>d DEF IsInjective
  <2>1. i + 1 \in DOMAIN q /\ j + 1 \in DOMAIN q /\ q[i + 1] = q[j + 1]
    BY <1>1, <1>d
  <2>2. i + 1 = j + 1
    BY <2>1, <1>4 DEF IsInjective
  <2> QED BY <2>2
<1>5. ASSUME IsInjective(q) PROVE Head(q) \notin Range(Tail(q))
  <2> SUFFICES ASSUME NEW i \in 1..(Len(q) - 1), Tail(q)[i] = Head(q) PROVE FALSE
    BY <1>d DEF Range
  <2>1. 1 \in DOMAIN q /\ i + 1 \in DOMAIN q /\ q[i + 1] = q[1]
    BY <1>1, <1>d
  <2>2. i + 1 = 1
    BY <2>1, <1>5 DEF IsInjective
  <2> QED BY <2>2
<1> QED BY <1>1, <1>2, <1>3, <1>4, <1>5

\* Picking distinct positions of a sequence without repetition.
LEMMA PickDistinct ==
    ASSUME NEW S, NEW q \in Seq(S), NEW k \in Nat,
           NEW o \in [1..k -> 1..Len(q)], IsInjective(o), IsInjective(q),
           NEW p \in [1..k -> S], \A i \in 1..k : p[i] = q[o[i]]
    PROVE  /\ p \in Seq(S) /\ Len(p) = k
           /\ IsInjective(p)
           /\ Range(p) \subseteq Range(q)
<1>1. p \in Seq(S) /\ Len(p) = k
  OBVIOUS
<1>2. IsInjective(p)
  BY DEF IsInjective
<1>3. Range(p) \subseteq Range(q)
  BY SMTT(30) DEF Range
<1> QED BY <1>1, <1>2, <1>3

\* As many values as there are indices, if no two indices share one.
LEMMA ImageCounted ==
    ASSUME NEW n \in Nat, NEW f, NEW T, T = {f[j] : j \in 1..n},
           \A i, j \in 1..n : f[i] = f[j] => i = j
    PROVE  IsFiniteSet(T) /\ Cardinality(T) = n
<1> DEFINE g == [j \in 1..n |-> f[j]]
<1>1. g \in Bijection(1..n, T)
  BY DEF Bijection, Injection, Surjection, IsInjective
<1>2. IsFiniteSet(1..n) /\ Cardinality(1..n) = n
  BY FS_Interval
<1>3. ExistsBijection(1..n, T)
  BY <1>1 DEF ExistsBijection
<1> QED BY <1>2, <1>3, FS_Bijection
=============================================================================
