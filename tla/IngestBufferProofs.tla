------------------------ MODULE IngestBufferProofs ------------------------
(***************************************************************************)
(* Proofs about IngestBuffer, for any rows, partitions, batches, capacity, *)
(* chunk size and number of drainers.                                      *)
(*                                                                         *)
(* The model's operators on sequences are recursive functions; what they   *)
(* return is shown first, by the induction lemmas of DataFacts.            *)
(***************************************************************************)
EXTENDS IngestBuffer, DataFacts

-----------------------------------------------------------------------------
(* The rows of a sequence that are in a set.                               *)

LEMMA ToSetIsRange ==
    ASSUME NEW S, NEW q \in Seq(S)
    PROVE  /\ ToSet(q) = Range(q) /\ ToSet(q) \subseteq S
           /\ \A x : x \in ToSet(q) <=> \E i \in 1..Len(q) : q[i] = x
<1>1. ToSet(q) = Range(q)
  BY DEF ToSet, Range
<1>2. \A x : x \in Range(q) <=> \E i \in 1..Len(q) : q[i] = x
  BY RangeMember
<1> QED BY <1>1, <1>2

\* Only is well defined: it walks over the sequence, one row after the other.
WalksOver(walk, q, A, S) ==
    /\ walk \in [0..Len(q) -> Seq(S)]
    /\ walk[0] = <<>>
    /\ \A i \in 1..Len(q) : walk[i] = IF q[i] \in A THEN Append(walk[i - 1], q[i])
                                      ELSE walk[i - 1]

LEMMA OnlyWalks ==
    ASSUME NEW S, NEW q \in Seq(S), NEW A
    PROVE  \E walk : WalksOver(walk, q, A, S) /\ Only(q, A) = walk[Len(q)]
<1> DEFINE n == Len(q)
           Value(f, i) == IF i = 0 THEN <<>>
                          ELSE IF q[i] \in A THEN Append(f[i - 1], q[i]) ELSE f[i - 1]
           step == [i \in 1..n |-> [w \in Seq(S) |-> IF q[i] \in A THEN Append(w, q[i]) ELSE w]]
           only == CHOOSE f : f = [i \in 0..n |-> Value(f, i)]
<1>1. n \in Nat /\ <<>> \in Seq(S) /\ \A i \in 1..n : q[i] \in S
  BY EmptySeq, LenProperties, ElementOfSeq
<1>2. step \in StepsOn(n, Seq(S))
  BY <1>1, AppendProperties DEF StepsOn
<1>3. PICK f : Follows(f, n, Seq(S), <<>>, step)
  <2> HIDE DEF n, step
  <2> QED BY <1>1, <1>2, StepsDefine
<1>4. f = [i \in 0..n |-> Value(f, i)]
  <2>1. /\ f \in [0..n -> Seq(S)] /\ f[0] = <<>>
        /\ \A i \in 1..n : f[i] = step[i][f[i - 1]]
    BY <1>3 DEF Follows
  <2>2. ASSUME NEW i \in 0..n PROVE f[i] = Value(f, i)
    <3>1. CASE i = 0
      BY <2>1, <3>1
    <3>2. CASE i # 0
      <4>1. i \in 1..n /\ f[i - 1] \in Seq(S)
        BY <1>1, <2>1, <3>2, SMTT(30)
      <4> QED BY <2>1, <3>2, <4>1
    <3> QED BY <3>1, <3>2
  <2> QED BY <2>1, <2>2
<1>5. only = [i \in 0..n |-> Value(only, i)]
  BY <1>4
<1>6. Only(q, A) = only[n]
  BY DEF Only
<1> HIDE DEF only, n
<1>7. only[0] = <<>>
  BY <1>1, <1>5
<1>8. ASSUME NEW i \in 1..n
      PROVE  only[i] = IF q[i] \in A THEN Append(only[i - 1], q[i]) ELSE only[i - 1]
  <2>1. i \in 0..n /\ i # 0
    BY <1>1
  <2> QED BY <1>5, <2>1
<1>9. only \in [0..n -> Seq(S)]
  <2> DEFINE N == {i \in Nat : i <= n => only[i] \in Seq(S)}
  <2>1. N \in SUBSET Nat /\ 0 \in N
    BY <1>1, <1>7
  <2>2. ASSUME NEW i \in N PROVE i + 1 \in N
    <3> SUFFICES ASSUME i + 1 <= n PROVE only[i + 1] \in Seq(S)
      OBVIOUS
    <3>1. only[i] \in Seq(S) /\ i + 1 \in 1..n /\ (i + 1) - 1 = i
      BY <1>1
    <3>2. q[i + 1] \in S
      BY <1>1, <3>1
    <3>3. only[i + 1] = IF q[i + 1] \in A THEN Append(only[i], q[i + 1]) ELSE only[i]
      BY <1>8, <3>1
    <3> QED BY <3>1, <3>2, <3>3, AppendProperties
  <2>3. N = Nat
    <3> HIDE DEF N
    <3> QED BY <2>1, <2>2, NatInductionOnSet
  <2>4. \A i \in 0..n : only[i] \in Seq(S)
    BY <1>1, <2>3
  <2> QED BY <1>5, <2>4
<1> QED BY <1>6, <1>7, <1>8, <1>9 DEF WalksOver, n

LEMMA OnlyOfAppend ==
    ASSUME NEW S, NEW q \in Seq(S), NEW x \in S, NEW A
    PROVE  Only(Append(q, x), A) = IF x \in A THEN Append(Only(q, A), x) ELSE Only(q, A)
<1> DEFINE n == Len(q)
           t == Append(q, x)
<1>1. /\ n \in Nat /\ t \in Seq(S) /\ Len(t) = n + 1
      /\ \A i \in 1..n : t[i] = q[i]
      /\ t[n + 1] = x
  BY AppendProperties, LenProperties
<1> HIDE DEF n, t
<1>2. PICK f : WalksOver(f, t, A, S) /\ Only(t, A) = f[Len(t)]
  BY <1>1, OnlyWalks
<1>3. PICK g : WalksOver(g, q, A, S) /\ Only(q, A) = g[Len(q)]
  BY OnlyWalks
<1>4. /\ f[0] = <<>> /\ g[0] = <<>>
      /\ \A i \in 1..(n + 1) : f[i] = IF t[i] \in A THEN Append(f[i - 1], t[i]) ELSE f[i - 1]
      /\ \A i \in 1..n : g[i] = IF q[i] \in A THEN Append(g[i - 1], q[i]) ELSE g[i - 1]
  BY <1>1, <1>2, <1>3 DEF WalksOver, n
<1> DEFINE N == {i \in Nat : i <= n => f[i] = g[i]}
<1>5. N = Nat
  <2>1. N \in SUBSET Nat /\ 0 \in N
    BY <1>4
  <2>2. ASSUME NEW i \in N PROVE i + 1 \in N
    <3> SUFFICES ASSUME i + 1 <= n PROVE f[i + 1] = g[i + 1]
      OBVIOUS
    <3>1. f[i] = g[i] /\ (i + 1) - 1 = i /\ i + 1 \in 1..n /\ i + 1 \in 1..(n + 1)
      BY <1>1
    <3>2. t[i + 1] = q[i + 1]
      BY <1>1, <3>1
    <3>3. f[i + 1] = IF t[i + 1] \in A THEN Append(f[i], t[i + 1]) ELSE f[i]
      <4> HIDE DEF N
      <4> QED BY <1>4, <3>1
    <3>4. g[i + 1] = IF q[i + 1] \in A THEN Append(g[i], q[i + 1]) ELSE g[i]
      <4> HIDE DEF N
      <4> QED BY <1>4, <3>1
    <3> QED BY <3>1, <3>2, <3>3, <3>4
  <2> HIDE DEF N
  <2> QED BY <2>1, <2>2, NatInductionOnSet
<1>6. f[n] = g[n]
  BY <1>1, <1>5
<1>7. f[n + 1] = IF x \in A THEN Append(f[n], x) ELSE f[n]
  <2>1. n + 1 \in 1..(n + 1) /\ (n + 1) - 1 = n
    BY <1>1
  <2> QED BY <1>1, <1>4, <2>1
<1> QED BY <1>1, <1>2, <1>3, <1>6, <1>7 DEF t, n

LEMMA OnlyOfNone == ASSUME NEW A PROVE Only(<<>>, A) = <<>>
<1>1. <<>> \in Seq({}) /\ Len(<<>>) = 0
  BY EmptySeq
<1>2. PICK f : WalksOver(f, <<>>, A, {}) /\ Only(<<>>, A) = f[Len(<<>>)]
  BY <1>1, OnlyWalks
<1> QED BY <1>1, <1>2 DEF WalksOver

\* What is kept: the rows that are in the set.
LEMMA OnlyKeeps ==
    ASSUME NEW S, NEW q \in Seq(S), NEW A
    PROVE  /\ Only(q, A) \in Seq(S)
           /\ ToSet(Only(q, A)) = ToSet(q) \cap A
           /\ Len(Only(q, A)) <= Len(q)
<1> DEFINE Good(w) == /\ Only(w, A) \in Seq(S)
                      /\ Range(Only(w, A)) = Range(w) \cap A
                      /\ Len(Only(w, A)) <= Len(w)
           T == {w \in Seq(S) : Good(w)}
<1>1. T \in SUBSET Seq(S)
  OBVIOUS
<1>2. <<>> \in T
  <2>1. Range(<<>>) = {}
    BY DEF Range
  <2>2. Only(<<>>, A) = <<>>
    BY OnlyOfNone
  <2>3. <<>> \in Seq(S) /\ Len(<<>>) <= Len(<<>>)
    BY EmptySeq
  <2>4. Good(<<>>)
    <3>1. Only(<<>>, A) \in Seq(S) /\ Len(Only(<<>>, A)) <= Len(<<>>)
      BY <2>2, <2>3
    <3>2. Range(Only(<<>>, A)) = Range(<<>>) \cap A
      BY <2>1, <2>2
    <3> QED BY <3>1, <3>2
  <2> HIDE DEF Good
  <2> QED BY <2>3, <2>4
<1>3. ASSUME NEW w \in T, NEW x \in S PROVE Append(w, x) \in T
  <2>1. /\ w \in Seq(S) /\ Only(w, A) \in Seq(S)
        /\ Range(Only(w, A)) = Range(w) \cap A
        /\ Len(Only(w, A)) <= Len(w)
    OBVIOUS
  <2>2. /\ Append(w, x) \in Seq(S) /\ Len(Append(w, x)) = Len(w) + 1
        /\ Range(Append(w, x)) = Range(w) \cup {x}
    BY <2>1, AppendNew
  <2>3. /\ Append(Only(w, A), x) \in Seq(S)
        /\ Len(Append(Only(w, A), x)) = Len(Only(w, A)) + 1
        /\ Range(Append(Only(w, A), x)) = Range(Only(w, A)) \cup {x}
    BY <2>1, AppendNew
  <2>4. Only(Append(w, x), A) = IF x \in A THEN Append(Only(w, A), x) ELSE Only(w, A)
    BY <2>1, OnlyOfAppend
  <2>5. Len(w) \in Nat /\ Len(Only(w, A)) \in Nat
    BY <2>1, LenProperties
  <2>6. CASE x \in A
    <3>1. Only(Append(w, x), A) = Append(Only(w, A), x)
      BY <2>4, <2>6
    <3>2. Range(Only(Append(w, x), A)) = (Range(w) \cup {x}) \cap A
      BY <2>1, <2>3, <2>6, <3>1
    <3>3. Len(Only(Append(w, x), A)) <= Len(Append(w, x))
      BY <2>1, <2>2, <2>3, <2>5, <3>1
    <3> QED BY <2>2, <2>3, <3>1, <3>2, <3>3
  <2>7. CASE x \notin A
    BY <2>1, <2>2, <2>4, <2>5, <2>7
  <2> QED BY <2>6, <2>7
<1>4. Good(q)
  <2> HIDE DEF Good
  <2>1. T = Seq(S)
    <3> HIDE DEF T
    <3> QED BY <1>1, <1>2, <1>3, SeqInductionOnSet
  <2> QED BY <2>1
<1> QED BY <1>4, ToSetIsRange

LEMMA JoinAppend ==
    ASSUME NEW S, NEW q \in Seq(S), NEW r \in Seq(S), NEW x \in S
    PROVE  q \o Append(r, x) = Append(q \o r, x)
<1>1. Append(r, x) = r \o <<x>> /\ q \o r \in Seq(S)
  BY AppendIsConcat, ConcatProperties
<1>2. Append(q \o r, x) = (q \o r) \o <<x>>
  BY <1>1, AppendIsConcat
<1>3. <<x>> \in Seq(S)
  OBVIOUS
<1> QED BY <1>1, <1>2, <1>3, ConcatAssociative

LEMMA OnlyOfJoin ==
    ASSUME NEW S, NEW q \in Seq(S), NEW r \in Seq(S), NEW A
    PROVE  Only(q \o r, A) = Only(q, A) \o Only(r, A)
<1> DEFINE Good(w) == Only(q \o w, A) = Only(q, A) \o Only(w, A)
           T == {w \in Seq(S) : Good(w)}
<1>1. T \in SUBSET Seq(S)
  OBVIOUS
<1>2. <<>> \in T
  <2>1. <<>> \in Seq(S) /\ q \o <<>> = q /\ Only(<<>>, A) = <<>>
    BY EmptySeq, ConcatEmptySeq, OnlyOfNone
  <2>2. Only(q, A) \in Seq(S)
    BY OnlyKeeps
  <2>3. Only(q, A) \o <<>> = Only(q, A)
    BY <2>2, ConcatEmptySeq
  <2>4. Good(<<>>)
    BY <2>1, <2>3
  <2> HIDE DEF Good
  <2> QED BY <2>1, <2>4
<1>3. ASSUME NEW w \in T, NEW x \in S PROVE Append(w, x) \in T
  <2>1. w \in Seq(S) /\ Append(w, x) \in Seq(S)
    BY AppendProperties
  <2>2. q \o Append(w, x) = Append(q \o w, x) /\ q \o w \in Seq(S)
    BY <2>1, JoinAppend, ConcatProperties
  <2> DEFINE v == q \o w
  <2>3. Only(Append(v, x), A) = IF x \in A THEN Append(Only(v, A), x) ELSE Only(v, A)
    <3>1. v \in Seq(S)
      BY <2>2
    <3> HIDE DEF v
    <3> QED BY <3>1, OnlyOfAppend
  <2>7. Only(Append(w, x), A) = IF x \in A THEN Append(Only(w, A), x) ELSE Only(w, A)
    BY <2>1, OnlyOfAppend
  <2>4. Only(q \o w, A) = Only(q, A) \o Only(w, A)
    OBVIOUS
  <2>5. Only(q, A) \in Seq(S) /\ Only(w, A) \in Seq(S)
    BY <2>1, OnlyKeeps
  <2>6. Only(q, A) \o Append(Only(w, A), x) = Append(Only(q, A) \o Only(w, A), x)
    BY <2>5, JoinAppend
  <2> QED BY <2>1, <2>2, <2>3, <2>4, <2>6, <2>7
<1>4. T = Seq(S)
  <2> HIDE DEF T
  <2> QED BY <1>1, <1>2, <1>3, SeqInductionOnSet
<1> QED BY <1>4

-----------------------------------------------------------------------------
(* The order of first occurrences.                                         *)

\* r comes before the first s, which need not come at all.
Before(q, r, s) == \E i \in 1..Len(q) : q[i] = r /\ \A j \in 1..i : q[j] # s

LEMMA BeforeInAppend ==
    ASSUME NEW S, NEW q \in Seq(S), NEW x \in S, NEW r, NEW s
    PROVE  Before(Append(q, x), r, s)
             <=> Before(q, r, s) \/ (s \notin ToSet(q) /\ x = r /\ x # s)
<1> DEFINE t == Append(q, x)
           n == Len(q)
<1>1. /\ n \in Nat /\ Len(t) = n + 1 /\ t[n + 1] = x
      /\ \A i \in 1..n : t[i] = q[i]
  BY AppendProperties, LenProperties
<1>2. s \in ToSet(q) <=> \E i \in 1..n : q[i] = s
  BY ToSetIsRange
<1> HIDE DEF t, n
<1>3. ASSUME NEW i \in 1..n, q[i] = r, \A j \in 1..i : q[j] # s PROVE Before(t, r, s)
  <2>1. i \in 1..Len(t) /\ t[i] = r
    BY <1>1, <1>3
  <2>2. \A j \in 1..i : t[j] # s
    BY <1>1, <1>3
  <2> QED BY <2>1, <2>2 DEF Before
<1>4. ASSUME s \notin ToSet(q), x = r, x # s PROVE Before(t, r, s)
  <2>1. n + 1 \in 1..Len(t) /\ t[n + 1] = r
    BY <1>1, <1>4
  <2>2. \A j \in 1..(n + 1) : t[j] # s
    BY <1>1, <1>2, <1>4
  <2> QED BY <2>1, <2>2 DEF Before
<1>5. ASSUME NEW i \in 1..Len(t), t[i] = r, \A j \in 1..i : t[j] # s
      PROVE  Before(q, r, s) \/ (s \notin ToSet(q) /\ x = r /\ x # s)
  <2>1. CASE i = n + 1
    BY <1>1, <1>2, <1>5, <2>1
  <2>2. CASE i # n + 1
    <3>1. i \in 1..n /\ q[i] = r /\ \A j \in 1..i : q[j] # s
      BY <1>1, <1>5, <2>2
    <3> QED BY <3>1 DEF Before, n
  <2> QED BY <2>1, <2>2
<1> QED BY <1>3, <1>4, <1>5 DEF Before, t, n

LEMMA BeforeInJoin ==
    ASSUME NEW S, NEW q \in Seq(S), NEW w \in Seq(S), NEW r, NEW s
    PROVE  Before(q \o w, r, s)
             <=> Before(q, r, s) \/ (s \notin ToSet(q) /\ Before(w, r, s))
<1> DEFINE t == q \o w
           n == Len(q)
           m == Len(w)
<1>1. /\ n \in Nat /\ m \in Nat /\ Len(t) = n + m
      /\ \A i \in 1..n : t[i] = q[i]
      /\ \A i \in 1..m : t[n + i] = w[i]
  <2>1. n \in Nat /\ m \in Nat /\ Len(t) = n + m
    BY ConcatProperties, LenProperties
  <2>2. \A i \in 1..(n + m) : t[i] = IF i <= n THEN q[i] ELSE w[i - n]
    BY <2>1, ConcatProperties
  <2> HIDE DEF t, n, m
  <2>3. ASSUME NEW i \in 1..m PROVE t[n + i] = w[i]
    <3>1. n + i \in 1..(n + m) /\ ~(n + i <= n) /\ (n + i) - n = i
      BY <2>1
    <3> QED BY <2>2, <3>1
  <2> QED BY <2>1, <2>2, <2>3
<1>2. s \in ToSet(q) <=> \E i \in 1..n : q[i] = s
  BY ToSetIsRange
<1> HIDE DEF t, n, m
<1>3. ASSUME NEW i \in 1..n, q[i] = r, \A j \in 1..i : q[j] # s PROVE Before(t, r, s)
  <2>1. i \in 1..Len(t) /\ t[i] = r
    BY <1>1, <1>3
  <2>2. \A j \in 1..i : t[j] # s
    BY <1>1, <1>3
  <2> QED BY <2>1, <2>2 DEF Before
<1>4. ASSUME s \notin ToSet(q), NEW i \in 1..m, w[i] = r, \A j \in 1..i : w[j] # s
      PROVE  Before(t, r, s)
  <2>1. n + i \in 1..Len(t) /\ t[n + i] = r
    BY <1>1, <1>4
  <2>2. ASSUME NEW j \in 1..(n + i) PROVE t[j] # s
    <3>1. CASE j \in 1..n
      BY <1>1, <1>2, <1>4, <3>1
    <3>2. CASE j \notin 1..n
      <4>1. j - n \in 1..i /\ j - n \in 1..m /\ n + (j - n) = j
        BY <1>1, <3>2
      <4> QED BY <1>1, <1>4, <4>1
    <3> QED BY <3>1, <3>2
  <2> QED BY <2>1, <2>2 DEF Before
<1>5. ASSUME NEW i \in 1..Len(t), t[i] = r, \A j \in 1..i : t[j] # s
      PROVE  Before(q, r, s) \/ (s \notin ToSet(q) /\ Before(w, r, s))
  <2>1. CASE i \in 1..n
    <3>1. q[i] = r /\ \A j \in 1..i : q[j] # s
      BY <1>1, <1>5, <2>1
    <3> QED BY <2>1, <3>1 DEF Before, n
  <2>2. CASE i \notin 1..n
    <3>1. i - n \in 1..m /\ n + (i - n) = i
      BY <1>1, <2>2
    <3>2. s \notin ToSet(q)
      BY <1>1, <1>2, <1>5, <2>2
    <3>3. w[i - n] = r
      BY <1>1, <1>5, <3>1
    <3>4. ASSUME NEW j \in 1..(i - n) PROVE w[j] # s
      <4>1. n + j \in 1..i /\ j \in 1..m
        BY <1>1, <3>1
      <4> QED BY <1>1, <1>5, <4>1
    <3> QED BY <3>1, <3>2, <3>3, <3>4 DEF Before, m
  <2> QED BY <2>1, <2>2
<1> QED BY <1>3, <1>4, <1>5 DEF Before, t, n, m

\* Picking the rows of a set keeps their order.
LEMMA BeforeInOnly ==
    ASSUME NEW S, NEW q \in Seq(S), NEW A, NEW r \in A, NEW s \in A
    PROVE  Before(Only(q, A), r, s) <=> Before(q, r, s)
<1> DEFINE Good(w) == Before(Only(w, A), r, s) <=> Before(w, r, s)
           T == {w \in Seq(S) : Good(w)}
<1>1. T \in SUBSET Seq(S)
  OBVIOUS
<1>2. <<>> \in T
  <2>1. <<>> \in Seq(S) /\ Only(<<>>, A) = <<>>
    BY EmptySeq, OnlyOfNone
  <2> QED BY <2>1
<1>3. ASSUME NEW w \in T, NEW x \in S PROVE Append(w, x) \in T
  <2>1. w \in Seq(S) /\ Append(w, x) \in Seq(S)
    BY AppendProperties
  <2>2. Only(w, A) \in Seq(S) /\ ToSet(Only(w, A)) = ToSet(w) \cap A
    BY <2>1, OnlyKeeps
  <2>3. Only(Append(w, x), A) = IF x \in A THEN Append(Only(w, A), x) ELSE Only(w, A)
    BY <2>1, OnlyOfAppend
  <2>4. Before(Append(w, x), r, s)
          <=> Before(w, r, s) \/ (s \notin ToSet(w) /\ x = r /\ x # s)
    BY <2>1, BeforeInAppend
  <2>5. Before(Append(Only(w, A), x), r, s)
          <=> Before(Only(w, A), r, s) \/ (s \notin ToSet(Only(w, A)) /\ x = r /\ x # s)
    BY <2>2, BeforeInAppend
  <2>6. Before(Only(w, A), r, s) <=> Before(w, r, s)
    OBVIOUS
  <2> QED BY <2>1, <2>2, <2>3, <2>4, <2>5, <2>6
<1>4. T = Seq(S)
  <2> HIDE DEF T
  <2> QED BY <1>1, <1>2, <1>3, SeqInductionOnSet
<1> QED BY <1>4

-----------------------------------------------------------------------------
(* The queues.                                                             *)

\* Each row is in the queue of its partition.
InPlace(qs) ==
    /\ qs \in [Parts -> Seq(Rows)]
    /\ \A p \in Parts : ToSet(qs[p]) \subseteq In(p)

LEMMA PartsAreFinite == IsFiniteSet(Parts) /\ Parts \subseteq Nat
<1>1. 0 \in Int /\ Partitions \in Int /\ 1 \in Int
  BY ConstantsAssumption
<1>2. IsFiniteSet(1..Partitions)
  BY <1>1, FS_Interval
<1> QED BY <1>2, ConstantsAssumption DEF Parts

LEMMA PartsAdd ==
    ASSUME NEW f, NEW g, NEW k, Integral(f, Parts), Integral(g, Parts), Integral(k, Parts)
    PROVE  /\ (\A p \in Parts : k[p] = f[p] + g[p])
                 => SumFunction(k) = SumFunction(f) + SumFunction(g)
           /\ \A p \in Parts :
                (\A o \in Parts : o # p => g[o] = f[o])
                   => SumFunction(g) = SumFunction(f) + (g[p] - f[p])
<1>1. IsFiniteSet(Parts)
  BY PartsAreFinite
<1>2. (\A p \in Parts : k[p] = f[p] + g[p]) => SumFunction(k) = SumFunction(f) + SumFunction(g)
  BY <1>1, SumOfTwo
<1>3. ASSUME NEW p \in Parts, \A o \in Parts : o # p => g[o] = f[o]
      PROVE  SumFunction(g) = SumFunction(f) + (g[p] - f[p])
  BY <1>1, <1>3, SumWithOneChanged
<1> QED BY <1>2, <1>3

LEMMA DepthIsASum ==
    ASSUME NEW qs \in [Parts -> Seq(Rows)]
    PROVE  /\ [p \in Parts |-> Len(qs[p])] \in [Parts -> Nat]
           /\ DepthOf(qs) = SumFunction([p \in Parts |-> Len(qs[p])])
           /\ DepthOf(qs) \in Nat
           /\ (\A p \in Parts : qs[p] = <<>>) => DepthOf(qs) = 0
<1> DEFINE f == [p \in Parts |-> Len(qs[p])]
<1>1. f \in [Parts -> Nat]
  BY LenProperties
<1>2. DepthOf(qs) = SumFunction(f)
  BY DEF DepthOf
<1>3. (\A p \in Parts : qs[p] = <<>>) => \A p \in Parts : f[p] = 0
  BY EmptySeq
<1> HIDE DEF f
<1>4. /\ SumFunction(f) \in Nat
      /\ (\A p \in Parts : f[p] = 0) => SumFunction(f) = 0
  BY <1>1, PartsAreFinite, SumOfNaturals
<1> QED BY <1>1, <1>2, <1>3, <1>4 DEF f

\* A change of one queue changes the depth by its length.
LEMMA DepthOfOneChanged ==
    ASSUME NEW qs \in [Parts -> Seq(Rows)], NEW ts \in [Parts -> Seq(Rows)],
           NEW p \in Parts, \A o \in Parts : o # p => ts[o] = qs[o]
    PROVE  DepthOf(ts) = DepthOf(qs) + (Len(ts[p]) - Len(qs[p]))
<1> DEFINE f == [o \in Parts |-> Len(qs[o])]
           g == [o \in Parts |-> Len(ts[o])]
<1>1. Integral(f, Parts) /\ Integral(g, Parts)
  BY LenProperties DEF Integral
<1>2. f[p] = Len(qs[p]) /\ g[p] = Len(ts[p]) /\ \A o \in Parts : o # p => g[o] = f[o]
  OBVIOUS
<1>3. DepthOf(qs) = SumFunction(f) /\ DepthOf(ts) = SumFunction(g)
  BY DepthIsASum
<1> HIDE DEF f, g
<1>4. SumFunction(g) = SumFunction(f) + (g[p] - f[p])
  BY <1>1, <1>2, PartsAdd
<1> QED BY <1>2, <1>3, <1>4

\* Every row is in one partition.
LEMMA RowsAreSplit ==
    ASSUME NEW rows \in Seq(Rows)
    PROVE  DepthOf([p \in Parts |-> Only(rows, In(p))]) = Len(rows)
<1> DEFINE Split(w) == [p \in Parts |-> Only(w, In(p))]
           Good(w) == DepthOf(Split(w)) = Len(w)
           T == {w \in Seq(Rows) : Good(w)}
<1>1. T \in SUBSET Seq(Rows)
  OBVIOUS
<1>2. <<>> \in T
  <2>1. Split(<<>>) \in [Parts -> Seq(Rows)] /\ \A p \in Parts : Split(<<>>)[p] = <<>>
    BY OnlyOfNone, EmptySeq
  <2>2. DepthOf(Split(<<>>)) = 0
    <3> HIDE DEF Split
    <3> QED BY <2>1, DepthIsASum
  <2> QED BY <2>2, EmptySeq
<1>3. ASSUME NEW w \in T, NEW x \in Rows PROVE Append(w, x) \in T
  <2>1. w \in Seq(Rows) /\ Append(w, x) \in Seq(Rows) /\ Len(Append(w, x)) = Len(w) + 1
    BY AppendProperties
  <2>2. \A p \in Parts : Only(w, In(p)) \in Seq(Rows)
    BY <2>1, OnlyKeeps
  <2>3. \A p \in Parts : Only(Append(w, x), In(p)) = IF x \in In(p) THEN Append(Only(w, In(p)), x)
                                                     ELSE Only(w, In(p))
    BY <2>1, OnlyOfAppend
  <2>4. Partition[x] \in Parts /\ \A p \in Parts : x \in In(p) <=> p = Partition[x]
    BY ConstantsAssumption DEF Parts, In
  <2>5. Split(w) \in [Parts -> Seq(Rows)] /\ Split(Append(w, x)) \in [Parts -> Seq(Rows)]
    BY <2>1, OnlyKeeps
  <2>6. \A p \in Parts : p # Partition[x] => Split(Append(w, x))[p] = Split(w)[p]
    BY <2>3, <2>4
  <2>7. Len(Split(Append(w, x))[Partition[x]]) = Len(Split(w)[Partition[x]]) + 1
    BY <2>2, <2>3, <2>4, AppendProperties
  <2>8. Len(Split(w)[Partition[x]]) \in Nat /\ Len(w) \in Nat
    BY <2>1, <2>4, <2>5, LenProperties
  <2>9. DepthOf(Split(w)) = Len(w)
    OBVIOUS
  <2> HIDE DEF Split
  <2>10. DepthOf(Split(Append(w, x)))
           = DepthOf(Split(w)) + (Len(Split(Append(w, x))[Partition[x]]) - Len(Split(w)[Partition[x]]))
    BY <2>4, <2>5, <2>6, DepthOfOneChanged
  <2> QED BY <2>1, <2>7, <2>8, <2>9, <2>10
<1>4. T = Seq(Rows)
  <2> HIDE DEF T
  <2> QED BY <1>1, <1>2, <1>3, SeqInductionOnSet
<1> QED BY <1>4

LEMMA EnqueueKeeps ==
    ASSUME NEW qs, InPlace(qs), NEW rows \in Seq(Rows)
    PROVE  /\ InPlace(Enqueue(qs, rows))
           /\ DepthOf(Enqueue(qs, rows)) = DepthOf(qs) + Len(rows)
           /\ \A p \in Parts : /\ Enqueue(qs, rows)[p] = qs[p] \o Only(rows, In(p))
                               /\ ToSet(Enqueue(qs, rows)[p])
                                    = ToSet(qs[p]) \cup (ToSet(rows) \cap In(p))
<1> DEFINE ts == Enqueue(qs, rows)
           new == [p \in Parts |-> Only(rows, In(p))]
<1>1. /\ qs \in [Parts -> Seq(Rows)] /\ new \in [Parts -> Seq(Rows)]
      /\ \A p \in Parts : new[p] = Only(rows, In(p))
  BY OnlyKeeps DEF InPlace
<1>2. \A p \in Parts : ts[p] = qs[p] \o Only(rows, In(p))
  BY DEF Enqueue
<1>3. ASSUME NEW p \in Parts
      PROVE  /\ ts[p] \in Seq(Rows)
             /\ Len(ts[p]) = Len(qs[p]) + Len(new[p])
             /\ ToSet(ts[p]) = ToSet(qs[p]) \cup (ToSet(rows) \cap In(p))
  <2>1. qs[p] \in Seq(Rows) /\ Only(rows, In(p)) \in Seq(Rows)
    BY <1>1
  <2>2. /\ ts[p] \in Seq(Rows)
        /\ Len(ts[p]) = Len(qs[p]) + Len(new[p])
        /\ Range(ts[p]) = Range(qs[p]) \cup Range(Only(rows, In(p)))
    <3> DEFINE u == qs[p]
               v == Only(rows, In(p))
    <3>1. u \in Seq(Rows) /\ v \in Seq(Rows) /\ new[p] = v /\ ts[p] = u \o v
      BY <1>1, <1>2, <2>1
    <3> HIDE DEF u, v, ts, new
    <3>2. u \o v \in Seq(Rows) /\ Len(u \o v) = Len(u) + Len(v) /\ Range(u \o v) = Range(u) \cup Range(v)
      BY <3>1, JoinSequences
    <3> QED BY <3>1, <3>2 DEF u, v
  <2>3. ToSet(Only(rows, In(p))) = ToSet(rows) \cap In(p)
    BY OnlyKeeps
  <2> QED BY <2>1, <2>2, <2>3, ToSetIsRange
<1>4. ts \in [Parts -> Seq(Rows)]
  BY <1>3 DEF Enqueue
<1>5. InPlace(ts)
  BY <1>3, <1>4 DEF InPlace
<1>6. DepthOf(ts) = DepthOf(qs) + Len(rows)
  <2> DEFINE f == [p \in Parts |-> Len(qs[p])]
             g == [p \in Parts |-> Len(new[p])]
             k == [p \in Parts |-> Len(ts[p])]
  <2>1. Integral(f, Parts) /\ Integral(g, Parts) /\ Integral(k, Parts)
    BY <1>1, <1>4, LenProperties DEF Integral
  <2>2. \A p \in Parts : k[p] = f[p] + g[p]
    BY <1>3
  <2> HIDE DEF ts, new
  <2>3. DepthOf(qs) = SumFunction(f) /\ DepthOf(new) = SumFunction(g) /\ DepthOf(ts) = SumFunction(k)
    BY <1>1, <1>4, DepthIsASum
  <2> HIDE DEF f, g, k
  <2>4. SumFunction(k) = SumFunction(f) + SumFunction(g)
    BY <2>1, <2>2, PartsAdd
  <2>5. DepthOf(new) = Len(rows)
    BY RowsAreSplit DEF new
  <2> QED BY <2>3, <2>4, <2>5
<1> QED BY <1>2, <1>3, <1>5, <1>6

-----------------------------------------------------------------------------
(* Draining.                                                               *)

Tenants == {Tenant[r] : r \in Rows}
TenantsOf(q) == {Tenant[r] : r \in ToSet(q)}

\* The drains, and those that came from the queues qs: what is out and what is
\* left make up each queue, in its order.
Drainings == [queues : [Parts -> Seq(Rows)], out : Seq(Rows), next : Nat \ {0},
              served : SUBSET Tenants]
DrainedFrom(st, qs) ==
    /\ st \in Drainings
    /\ InPlace(st.queues)
    /\ \A p \in Parts : qs[p] = Only(st.out, In(p)) \o st.queues[p]
    /\ DepthOf(qs) = Len(st.out) + DepthOf(st.queues)

\* After n pops either every tenant at a head of qs is served, or the first round
\* is still on: each pop has served another one of them, and each of the others
\* is at the head of a partition that the round has yet to reach.
FirstRound(st, qs, n) ==
    \/ Heads(qs) \subseteq TenantsOf(st.out)
    \/ /\ st.served = TenantsOf(st.out) /\ st.served \subseteq Heads(qs)
       /\ IsFiniteSet(st.served) /\ Cardinality(st.served) = n
       /\ \A p \in st.next..Partitions : st.queues[p] = qs[p]
       /\ \A t \in Heads(qs) \ st.served :
             \E p \in st.next..Partitions : qs[p] # <<>> /\ Tenant[Head(qs[p])] = t

LEMMA LeastIsLeast ==
    ASSUME NEW S \in SUBSET Nat, S # {}
    PROVE  Least(S) \in S /\ \A x \in S : Least(S) <= x
<1>1. \E m \in S : \A k \in S : m <= k
  BY LeastNatural
<1> QED BY <1>1 DEF Least

LEMMA HeadOfQueue ==
    ASSUME NEW qs, InPlace(qs), NEW p \in Parts, qs[p] # <<>>
    PROVE  /\ Head(qs[p]) \in Rows /\ Head(qs[p]) \in In(p) /\ Head(qs[p]) \in ToSet(qs[p])
           /\ Tail(qs[p]) \in Seq(Rows) /\ ToSet(Tail(qs[p])) \subseteq ToSet(qs[p])
           /\ Len(Tail(qs[p])) = Len(qs[p]) - 1 /\ Len(qs[p]) \in Nat
<1> DEFINE q == qs[p]
<1>1. q \in Seq(Rows) /\ q # <<>> /\ ToSet(q) \subseteq In(p)
  BY DEF InPlace
<1> HIDE DEF q
<1>2. /\ Head(q) \in Rows /\ Tail(q) \in Seq(Rows) /\ Len(Tail(q)) = Len(q) - 1
      /\ Range(q) = {Head(q)} \cup Range(Tail(q))
  BY <1>1, HeadAndTail
<1>3. ToSet(q) = Range(q) /\ ToSet(Tail(q)) = Range(Tail(q)) /\ Len(q) \in Nat
  BY <1>1, <1>2, ToSetIsRange, LenProperties
<1> QED BY <1>1, <1>2, <1>3 DEF q

\* t is the drain st after the pop of the head of p.
Pops(t, st, p, served) ==
    p \in Parts /\ st.queues[p] # <<>> /\ served \subseteq Tenants /\ t = PopFrom(st, p, served)

\* A pop keeps what a drain has, and adds its row to what is out.
LEMMA PopKeeps ==
    ASSUME NEW qs, NEW st, DrainedFrom(st, qs), NEW t, NEW p, NEW served, Pops(t, st, p, served)
    PROVE  /\ DrainedFrom(t, qs)
           /\ Len(t.out) = Len(st.out) + 1
           /\ TenantsOf(t.out) = TenantsOf(st.out) \cup {Tenant[Head(st.queues[p])]}
           /\ t.served = served \cup {Tenant[Head(st.queues[p])]} /\ t.next = p + 1
           /\ \A o \in Parts : o # p => t.queues[o] = st.queues[o]
<1> USE DEF Pops
<1> DEFINE row == Head(st.queues[p])
<1>1. /\ st.queues \in [Parts -> Seq(Rows)] /\ st.out \in Seq(Rows)
      /\ InPlace(st.queues)
  BY DEF DrainedFrom, Drainings
<1>2. /\ row \in Rows /\ row \in In(p)
      /\ Tail(st.queues[p]) \in Seq(Rows) /\ ToSet(Tail(st.queues[p])) \subseteq ToSet(st.queues[p])
      /\ Len(Tail(st.queues[p])) = Len(st.queues[p]) - 1 /\ Len(st.queues[p]) \in Nat
  BY <1>1, HeadOfQueue
<1>3. /\ t.queues = [st.queues EXCEPT ![p] = Tail(@)] /\ t.out = Append(st.out, row)
      /\ t.next = p + 1 /\ t.served = served \cup {Tenant[row]}
      /\ t = [queues |-> t.queues, out |-> t.out, next |-> t.next, served |-> t.served]
  BY DEF PopFrom
<1> HIDE DEF row
<1>4. /\ t.out \in Seq(Rows) /\ Len(t.out) = Len(st.out) + 1
      /\ ToSet(t.out) = ToSet(st.out) \cup {row}
  <2>1. /\ Append(st.out, row) \in Seq(Rows) /\ Len(Append(st.out, row)) = Len(st.out) + 1
        /\ Range(Append(st.out, row)) = Range(st.out) \cup {row}
    BY <1>1, <1>2, AppendNew
  <2> QED BY <1>1, <1>3, <2>1, ToSetIsRange, ZenonT(60)
<1>5. /\ t.queues \in [Parts -> Seq(Rows)]
      /\ t.queues[p] = Tail(st.queues[p])
      /\ \A o \in Parts : o # p => t.queues[o] = st.queues[o]
  BY <1>1, <1>2, <1>3
<1>6. InPlace(t.queues)
  BY <1>1, <1>2, <1>5 DEF InPlace
<1>7. t \in Drainings
  <2>1. t.next \in Nat \ {0}
    BY <1>3 DEF Parts
  <2>2. t.served \in SUBSET Tenants
    BY <1>2, <1>3 DEF Tenants
  <2> QED BY <1>3, <1>4, <1>5, <2>1, <2>2 DEF Drainings
<1>8. ASSUME NEW o \in Parts PROVE qs[o] = Only(t.out, In(o)) \o t.queues[o]
  <2>1. qs[o] = Only(st.out, In(o)) \o st.queues[o]
    BY DEF DrainedFrom
  <2>2. Only(t.out, In(o)) = IF row \in In(o) THEN Append(Only(st.out, In(o)), row)
                             ELSE Only(st.out, In(o))
    <3> DEFINE w == st.out
    <3>1. w \in Seq(Rows) /\ t.out = Append(w, row)
      BY <1>1, <1>3
    <3> HIDE DEF w
    <3>2. Only(Append(w, row), In(o)) = IF row \in In(o) THEN Append(Only(w, In(o)), row)
                                        ELSE Only(w, In(o))
      BY <1>2, <3>1, OnlyOfAppend
    <3> QED BY <3>1, <3>2 DEF w
  <2>3. row \in In(o) <=> o = p
    BY <1>2 DEF In
  <2>4. CASE o # p
    BY <1>5, <2>1, <2>2, <2>3, <2>4
  <2>5. CASE o = p
    <3> DEFINE u == Only(st.out, In(p))
               v == st.queues[p]
    <3>1. u \in Seq(Rows) /\ v \in Seq(Rows) /\ v # <<>>
      BY <1>1, OnlyKeeps
    <3>2. row = Head(v)
      BY DEF row
    <3>3. Append(u, row) \o Tail(v) = u \o v
      <4> HIDE DEF u, v
      <4>1. v = <<row>> \o Tail(v) /\ <<row>> \in Seq(Rows) /\ Tail(v) \in Seq(Rows)
        BY <3>1, <3>2, HeadTailProperties
      <4>2. Append(u, row) = u \o <<row>>
        BY <3>1, <3>2, <1>2, AppendIsConcat
      <4>3. (u \o <<row>>) \o Tail(v) = u \o (<<row>> \o Tail(v))
        BY <3>1, <4>1, ConcatAssociative
      <4> QED BY <4>1, <4>2, <4>3
    <3> QED BY <1>5, <2>1, <2>2, <2>3, <2>5, <3>3
  <2> QED BY <2>4, <2>5
<1>9. DepthOf(qs) = Len(t.out) + DepthOf(t.queues)
  <2>1. DepthOf(t.queues)
          = DepthOf(st.queues) + (Len(t.queues[p]) - Len(st.queues[p]))
    BY <1>1, <1>5, DepthOfOneChanged
  <2>2. DepthOf(st.queues) \in Nat /\ Len(st.out) \in Nat
    BY <1>1, DepthIsASum, LenProperties
  <2>3. DepthOf(qs) = Len(st.out) + DepthOf(st.queues)
    BY DEF DrainedFrom
  <2> QED BY <1>2, <1>4, <1>5, <2>1, <2>2, <2>3
<1>10. TenantsOf(t.out) = TenantsOf(st.out) \cup {Tenant[row]}
  BY <1>4 DEF TenantsOf
<1>11. DrainedFrom(t, qs)
  BY <1>6, <1>7, <1>8, <1>9 DEF DrainedFrom
<1> QED BY <1>3, <1>4, <1>5, <1>10, <1>11 DEF row

\* The next row comes from some queue, or all of them are empty.
LEMMA PopNextPops ==
    ASSUME NEW st \in Drainings
    PROVE  \/ PopNext(st) = st
           \/ \E p, served : Pops(PopNext(st), st, p, served)
<1> DEFINE nonempty == {p \in Parts : st.queues[p] # <<>>}
           round == RoundOfTenants(st)
<1>1. st.next \in Nat \ {0} /\ st.served \in SUBSET Tenants
  BY DEF Drainings
<1>2. /\ round \in SUBSET Nat /\ round \subseteq nonempty
      /\ nonempty \in SUBSET Nat
  BY <1>1, ConstantsAssumption DEF RoundOfTenants, Parts
<1>3. CASE nonempty = {}
  BY <1>3 DEF PopNext
<1>4. CASE nonempty # {} /\ round # {}
  <2>1. Least(round) \in round
    BY <1>2, <1>4, LeastIsLeast
  <2>2. Least(round) \in Parts /\ st.queues[Least(round)] # <<>>
    BY <1>2, <2>1
  <2>3. PopNext(st) = PopFrom(st, Least(round), st.served)
    BY <1>4 DEF PopNext
  <2> QED BY <1>1, <2>2, <2>3 DEF Pops
<1>5. CASE nonempty # {} /\ round = {}
  <2>1. Least(nonempty) \in nonempty
    BY <1>2, <1>5, LeastIsLeast
  <2>2. Least(nonempty) \in Parts /\ st.queues[Least(nonempty)] # <<>>
    BY <2>1
  <2>3. PopNext(st) = PopFrom(st, Least(nonempty), {})
    BY <1>5 DEF PopNext
  <2> QED BY <2>2, <2>3 DEF Pops
<1> QED BY <1>3, <1>4, <1>5

LEMMA PopNextKeeps ==
    ASSUME NEW qs, NEW st, DrainedFrom(st, qs)
    PROVE  /\ DrainedFrom(PopNext(st), qs)
           /\ Len(PopNext(st).out) <= Len(st.out) + 1
           /\ TenantsOf(st.out) \subseteq TenantsOf(PopNext(st).out)
<1>1. st \in Drainings /\ Len(st.out) \in Nat
  BY LenProperties DEF DrainedFrom, Drainings
<1>2. CASE PopNext(st) = st
  BY <1>1, <1>2
<1>3. ASSUME NEW p, NEW served, Pops(PopNext(st), st, p, served)
      PROVE  /\ DrainedFrom(PopNext(st), qs)
             /\ Len(PopNext(st).out) <= Len(st.out) + 1
             /\ TenantsOf(st.out) \subseteq TenantsOf(PopNext(st).out)
  BY <1>1, <1>3, PopKeeps
<1> QED BY <1>1, <1>2, <1>3, PopNextPops

\* The first round of a drain: a pop serves one more tenant or finds them all served.
LEMMA PopInFirstRound ==
    ASSUME NEW qs, InPlace(qs), NEW st, DrainedFrom(st, qs), NEW n \in Nat,
           FirstRound(st, qs, n)
    PROVE  FirstRound(PopNext(st), qs, n + 1)
<1> DEFINE nonempty == {p \in Parts : st.queues[p] # <<>>}
           round == RoundOfTenants(st)
<1>1. /\ st.queues \in [Parts -> Seq(Rows)] /\ InPlace(st.queues)
      /\ st.next \in Nat \ {0} /\ st.served \in SUBSET Tenants
  BY DEF DrainedFrom, Drainings
<1>2. round \in SUBSET Parts /\ round \in SUBSET Nat /\ round \subseteq nonempty
  BY <1>1, ConstantsAssumption DEF RoundOfTenants, Parts
<1>3. CASE Heads(qs) \subseteq TenantsOf(st.out)
  <2>1. TenantsOf(st.out) \subseteq TenantsOf(PopNext(st).out)
    BY PopNextKeeps
  <2> QED BY <1>3, <2>1 DEF FirstRound
<1>4. CASE ~(Heads(qs) \subseteq TenantsOf(st.out))
  <2>1. /\ st.served = TenantsOf(st.out) /\ st.served \subseteq Heads(qs)
        /\ IsFiniteSet(st.served) /\ Cardinality(st.served) = n
        /\ \A p \in st.next..Partitions : st.queues[p] = qs[p]
        /\ \A t \in Heads(qs) \ st.served :
              \E p \in st.next..Partitions : qs[p] # <<>> /\ Tenant[Head(qs[p])] = t
    BY <1>4 DEF FirstRound
  <2>2. round # {}
    BY <1>1, <1>4, <2>1 DEF RoundOfTenants
  <2> DEFINE p == Least(round)
             t == PopNext(st)
             tenant == Tenant[Head(st.queues[p])]
  <2>3. p \in round /\ \A o \in round : p <= o
    BY <1>2, <2>2, LeastIsLeast
  <2>4. t = PopFrom(st, p, st.served)
    BY <1>2, <2>2 DEF PopNext
  <2>5. /\ p \in st.next..Partitions /\ p \in Parts /\ p \in Nat /\ st.queues[p] # <<>>
        /\ tenant \notin st.served
    BY <1>2, <2>3 DEF RoundOfTenants
  <2> HIDE DEF p, t, round, tenant
  <2>6. /\ TenantsOf(t.out) = TenantsOf(st.out) \cup {tenant}
        /\ t.served = st.served \cup {tenant} /\ t.next = p + 1
        /\ \A o \in Parts : o # p => t.queues[o] = st.queues[o]
    <3>1. Pops(t, st, p, st.served)
      BY <1>1, <2>4, <2>5 DEF Pops
    <3> QED BY <3>1, PopKeeps DEF tenant
  <2>7. tenant \in Heads(qs)
    BY <2>1, <2>5 DEF Heads, tenant
  <2>8. IsFiniteSet(t.served) /\ Cardinality(t.served) = n + 1
    <3> DEFINE s == st.served
    <3>1. IsFiniteSet(s) /\ Cardinality(s) = n /\ tenant \notin s
      BY <2>1, <2>5
    <3> HIDE DEF s
    <3>2. IsFiniteSet(s \cup {tenant}) /\ Cardinality(s \cup {tenant}) = n + 1
      BY <3>1, FS_AddElement
    <3> QED BY <2>6, <3>2 DEF s
  <2>9. ASSUME NEW o \in (p + 1)..Partitions PROVE t.queues[o] = qs[o]
    <3>1. o \in st.next..Partitions /\ o \in Parts /\ o # p
      BY <1>1, <2>5, ConstantsAssumption, SMTT(30) DEF Parts
    <3> QED BY <2>1, <2>6, <3>1
  <2>10. ASSUME NEW u \in Heads(qs) \ t.served
         PROVE  \E o \in (p + 1)..Partitions : qs[o] # <<>> /\ Tenant[Head(qs[o])] = u
    <3>1. u \in Heads(qs) \ st.served /\ u # tenant
      BY <2>6
    <3>2. PICK o \in st.next..Partitions : qs[o] # <<>> /\ Tenant[Head(qs[o])] = u
      BY <2>1, <3>1
    <3>3. st.queues[o] = qs[o]
      BY <2>1
    <3>4. o \in round
      BY <3>1, <3>2, <3>3 DEF round, RoundOfTenants
    <3>5. o # p
      BY <3>1, <3>2, <3>3 DEF tenant
    <3>6. p <= o /\ p \in Int /\ o \in Int /\ Partitions \in Int
      BY <1>1, <2>3, <2>5, <3>4, ConstantsAssumption
    <3>7. o \in (p + 1)..Partitions
      BY <3>2, <3>5, <3>6
    <3> QED BY <3>2, <3>7
  <2> QED BY <2>1, <2>6, <2>7, <2>8, <2>9, <2>10 DEF FirstRound, t
<1> QED BY <1>3, <1>4

\* What a drain of up to DrainBatch rows gives.
LEMMA DrainsKeep ==
    ASSUME NEW qs, InPlace(qs), NEW drained \in Drains(qs)
    PROVE  /\ DrainedFrom(drained, qs)
           /\ Len(drained.out) <= DrainBatch
           /\ FirstRound(drained, qs, DrainBatch)
<1> DEFINE Good == {st \in Drainings : DrainedFrom(st, qs)}
           A == SUBSET Good
           start == {Draining(qs)}
           step == [i \in 1..DrainBatch |-> [X \in A |-> {PopNext(st) : st \in X}]]
           Value(f, i) == IF i = 0 THEN {Draining(qs)} ELSE {PopNext(st) : st \in f[i - 1]}
           after == CHOOSE f : f = [i \in 0..DrainBatch |-> Value(f, i)]
<1>1. /\ DrainBatch \in Nat /\ qs \in [Parts -> Seq(Rows)]
      /\ \A p \in Parts : ToSet(qs[p]) \subseteq In(p)
  BY ConstantsAssumption DEF InPlace
<1>2. DrainedFrom(Draining(qs), qs) /\ Draining(qs) \in Drainings
  <2> DEFINE st == Draining(qs)
  <2>1. st.queues = qs /\ st.out = <<>> /\ st.next = 1 /\ st.served = {} /\ st \in Drainings
    BY <1>1, EmptySeq DEF Draining, Drainings
  <2>2. ASSUME NEW p \in Parts PROVE qs[p] = Only(<<>>, In(p)) \o qs[p]
    <3>1. Only(<<>>, In(p)) = <<>> /\ qs[p] \in Seq(Rows)
      BY <1>1, OnlyOfNone
    <3> QED BY <3>1, ConcatEmptySeq
  <2>3. DepthOf(qs) = Len(<<>>) + DepthOf(qs)
    <3>1. DepthOf(qs) \in Nat
      BY <1>1, DepthIsASum
    <3>2. Len(<<>>) = 0
      BY EmptySeq
    <3> QED BY <3>1, <3>2
  <2> HIDE DEF st
  <2>4. DrainedFrom(st, qs)
    BY <1>1, <2>1, <2>2, <2>3 DEF DrainedFrom
  <2> QED BY <2>1, <2>4 DEF st
<1>3. start \in A
  BY <1>2
<1>4. ASSUME NEW st \in Good PROVE PopNext(st) \in Good
  <2>1. DrainedFrom(PopNext(st), qs)
    BY PopNextKeeps
  <2> QED BY <2>1 DEF DrainedFrom
<1>5. step \in StepsOn(DrainBatch, A)
  BY <1>4 DEF StepsOn
<1>6. PICK f : Follows(f, DrainBatch, A, start, step)
  <2> HIDE DEF A, start, step
  <2> QED BY <1>1, <1>3, <1>5, StepsDefine
<1>7. f = [i \in 0..DrainBatch |-> Value(f, i)]
  <2>1. /\ f \in [0..DrainBatch -> A] /\ f[0] = start
        /\ \A i \in 1..DrainBatch : f[i] = step[i][f[i - 1]]
    BY <1>6 DEF Follows
  <2>2. ASSUME NEW i \in 0..DrainBatch PROVE f[i] = Value(f, i)
    <3>1. CASE i = 0
      BY <2>1, <3>1
    <3>2. CASE i # 0
      <4>1. i \in 1..DrainBatch /\ i - 1 \in 0..DrainBatch
        BY <1>1, <3>2
      <4>2. f[i] = step[i][f[i - 1]] /\ f[i - 1] \in A
        BY <2>1, <4>1
      <4> HIDE DEF A
      <4> QED BY <3>2, <4>1, <4>2
    <3> QED BY <3>1, <3>2
  <2> HIDE DEF Value
  <2> QED BY <2>1, <2>2
<1>8. after = [i \in 0..DrainBatch |-> Value(after, i)]
  BY <1>7
<1>9. Drains(qs) = after[DrainBatch]
  BY DEF Drains
<1> HIDE DEF after, A, start, step
<1> DEFINE Popped(i) == {st \in Good : Len(st.out) <= i /\ FirstRound(st, qs, i)}
           N == {i \in Nat : i <= DrainBatch => after[i] \subseteq Popped(i)}
<1>10. 0 \in N
  <2>1. after[0] = {Draining(qs)}
    BY <1>1, <1>8
  <2>2. Draining(qs).out = <<>> /\ Draining(qs).served = {} /\ Draining(qs).next = 1
        /\ Draining(qs).queues = qs
    BY DEF Draining
  <2>3. TenantsOf(<<>>) = {} /\ Len(<<>>) = 0
    BY EmptySeq DEF TenantsOf, ToSet
  <2>4. \A t \in Heads(qs) : \E p \in 1..Partitions : qs[p] # <<>> /\ Tenant[Head(qs[p])] = t
    BY DEF Heads, Parts
  <2>5. FirstRound(Draining(qs), qs, 0)
    BY <2>2, <2>3, <2>4, FS_EmptySet DEF FirstRound
  <2> QED BY <1>2, <2>1, <2>2, <2>3, <2>5
<1>11. ASSUME NEW i \in N PROVE i + 1 \in N
  <2> SUFFICES ASSUME i + 1 <= DrainBatch PROVE after[i + 1] \subseteq Popped(i + 1)
    OBVIOUS
  <2>1. after[i] \subseteq Popped(i) /\ i \in Nat
    BY <1>1
  <2>2. after[i + 1] = {PopNext(st) : st \in after[i]}
    <3>1. i + 1 \in 0..DrainBatch /\ i + 1 # 0 /\ (i + 1) - 1 = i
      BY <1>1, <2>1
    <3> HIDE DEF N
    <3> QED BY <1>8, <3>1
  <2>3. ASSUME NEW st \in Popped(i) PROVE PopNext(st) \in Popped(i + 1)
    <3>1. st \in Good /\ DrainedFrom(st, qs) /\ Len(st.out) <= i /\ FirstRound(st, qs, i)
      OBVIOUS
    <3>2. PopNext(st) \in Good /\ Len(PopNext(st).out) <= Len(st.out) + 1
      BY <1>4, <3>1, PopNextKeeps
    <3>3. FirstRound(PopNext(st), qs, i + 1)
      BY <2>1, <3>1, PopInFirstRound
    <3>4. Len(st.out) \in Nat /\ Len(PopNext(st).out) \in Nat
      BY <3>1, <3>2, LenProperties DEF Drainings
    <3> QED BY <2>1, <3>1, <3>2, <3>3, <3>4
  <2> QED BY <2>1, <2>2, <2>3
<1>12. N = Nat
  <2>1. N \in SUBSET Nat
    OBVIOUS
  <2> HIDE DEF N
  <2> QED BY <1>10, <1>11, <2>1, NatInductionOnSet
<1>13. drained \in Popped(DrainBatch)
  BY <1>1, <1>9, <1>12
<1> QED BY <1>13

-----------------------------------------------------------------------------
(* The inductive invariant.                                                *)

\* A thread inside consume holds _consume_lock and has the rows of its chunk that
\* are unknown to the store now, not just when it looked.
StagesHold ==
    \A d \in Drainers :
       /\ pc[d] = "inserting" <=> consumeLock = d
       /\ fresh[d] = IF pc[d] = "inserting" THEN Only(chunk[d], Rows \ seen) ELSE <<>>
       /\ pc[d] = "idle" => chunk[d] = <<>>
       /\ Len(chunk[d]) <= DrainBatch

\* The rows accepted in a partition are those done with, those of the loop's chunk
\* and those queued, in this order; what is done with is in the store, and first
\* came there in this order.
Settled(p, done) ==
    /\ done \in Seq(Rows)
    /\ Only(accepted, In(p)) = (done \o Only(chunk[Loop], In(p))) \o queues[p]
    /\ ToSet(done) = ToSet(stored) \cap In(p)
    /\ \A r, s \in In(p) : s \in ToSet(done) /\ Before(done, r, s) => Before(stored, r, s)

InOrder ==
    ~disturbed =>
       /\ \A d \in Drainers \ {Loop} : pc[d] = "idle"
       /\ seen = ToSet(stored)
       /\ \A p \in Parts : \E done : Settled(p, done)

BufferInv ==
    /\ TypeOK
    /\ StagesHold
    /\ NothingLost
    /\ BoundedDepth
    /\ InOrder

LEMMA InPlaceMeans ==
    ASSUME NEW qs \in [Parts -> Seq(Rows)]
    PROVE  InPlace(qs)
             <=> \A p \in Parts : \A i \in DOMAIN qs[p] : Partition[qs[p][i]] = p
<1>1. ASSUME NEW p \in Parts
      PROVE  ToSet(qs[p]) \subseteq In(p) <=> \A i \in DOMAIN qs[p] : Partition[qs[p][i]] = p
  <2> DEFINE q == qs[p]
  <2>1. q \in Seq(Rows) /\ DOMAIN q = 1..Len(q) /\ \A i \in 1..Len(q) : q[i] \in Rows
    BY LenProperties, ElementOfSeq
  <2> HIDE DEF q
  <2>2. \A x : x \in ToSet(q) <=> \E i \in 1..Len(q) : q[i] = x
    BY <2>1, ToSetIsRange
  <2> QED BY <2>1, <2>2 DEF In, q
<1> QED BY <1>1 DEF InPlace

LEMMA TypeMeans ==
    TypeOK <=> /\ InPlace(queues)
               /\ seen \subseteq ToSet(stored)
               /\ consumeLock \in Drainers \cup {NoOne}
               /\ pc \in [Drainers -> {"idle", "drained", "inserting"}]
               /\ chunk \in [Drainers -> Seq(Rows)]
               /\ fresh \in [Drainers -> Seq(Rows)]
               /\ phase \in {"running", "stopping", "flushing", "stopped"}
               /\ calls \in 0..MaxCalls /\ failures \in 0..MaxFailures
               /\ accepted \in Seq(Rows) /\ stored \in Seq(Rows)
               /\ disturbed \in BOOLEAN
<1>1. InPlace(queues) => queues \in [Parts -> Seq(Rows)]
  BY DEF InPlace
<1> QED BY <1>1, InPlaceMeans DEF TypeOK

LEMMA TypeMeansNext ==
    TypeOK' <=> /\ InPlace(queues')
                /\ seen' \subseteq ToSet(stored')
                /\ consumeLock' \in Drainers \cup {NoOne}
                /\ pc' \in [Drainers -> {"idle", "drained", "inserting"}]
                /\ chunk' \in [Drainers -> Seq(Rows)]
                /\ fresh' \in [Drainers -> Seq(Rows)]
                /\ phase' \in {"running", "stopping", "flushing", "stopped"}
                /\ calls' \in 0..MaxCalls /\ failures' \in 0..MaxFailures
                /\ accepted' \in Seq(Rows) /\ stored' \in Seq(Rows)
                /\ disturbed' \in BOOLEAN
<1>1. InPlace(queues') => queues' \in [Parts -> Seq(Rows)]
  BY DEF InPlace
<1> QED BY <1>1, InPlaceMeans DEF TypeOK

\* How many rows the drainers hold, and what a change of one chunk does to it.
Held(c) == SumFunction([d \in Drainers |-> Len(c[d])])

LEMMA HeldIsBounded ==
    ASSUME NEW c \in [Drainers -> Seq(Rows)], \A d \in Drainers : Len(c[d]) <= DrainBatch
    PROVE  Held(c) \in Nat /\ Held(c) <= DrainBatch * Cardinality(Drainers)
<1> DEFINE f == [d \in Drainers |-> Len(c[d])]
<1>1. f \in [Drainers -> Nat] /\ \A d \in Drainers : f[d] <= DrainBatch
  BY LenProperties
<1>2. IsFiniteSet(Drainers) /\ DrainBatch \in Nat /\ Held(c) = SumFunction(f)
  BY ConstantsAssumption DEF Held
<1> HIDE DEF f
<1>3. SumFunction(f) \in Nat
  BY <1>1, <1>2, SumOfNaturals
<1>4. SumFunction(f) <= DrainBatch * Cardinality(Drainers)
  BY <1>1, <1>2, SumIsBounded
<1> QED BY <1>2, <1>3, <1>4

LEMMA DrainersAdd ==
    ASSUME NEW f, NEW g, Integral(f, Drainers), Integral(g, Drainers), NEW d \in Drainers,
           \A e \in Drainers : e # d => g[e] = f[e]
    PROVE  SumFunction(g) = SumFunction(f) + (g[d] - f[d])
<1>1. IsFiniteSet(Drainers)
  BY ConstantsAssumption
<1> QED BY <1>1, SumWithOneChanged

LEMMA HeldOneChanged ==
    ASSUME NEW c \in [Drainers -> Seq(Rows)], NEW d \in Drainers, NEW q \in Seq(Rows)
    PROVE  Held([c EXCEPT ![d] = q]) = Held(c) + (Len(q) - Len(c[d]))
<1> DEFINE f == [e \in Drainers |-> Len(c[e])]
           g == [e \in Drainers |-> Len([c EXCEPT ![d] = q][e])]
<1>1. Integral(f, Drainers) /\ Integral(g, Drainers)
  BY LenProperties DEF Integral
<1>2. f[d] = Len(c[d]) /\ g[d] = Len(q) /\ \A e \in Drainers : e # d => g[e] = f[e]
  OBVIOUS
<1>3. Held(c) = SumFunction(f) /\ Held([c EXCEPT ![d] = q]) = SumFunction(g)
  BY DEF Held
<1> HIDE DEF f, g
<1>4. SumFunction(g) = SumFunction(f) + (g[d] - f[d])
  BY <1>1, <1>2, DrainersAdd
<1> QED BY <1>2, <1>3, <1>4

LEMMA InitHolds == Init => BufferInv
<1> SUFFICES ASSUME Init PROVE BufferInv
  OBVIOUS
<1>1. /\ queues = [p \in Parts |-> <<>>] /\ seen = {} /\ consumeLock = NoOne
      /\ pc = [d \in Drainers |-> "idle"] /\ chunk = [d \in Drainers |-> <<>>]
      /\ fresh = [d \in Drainers |-> <<>>]
      /\ phase = "running" /\ calls = 0 /\ failures = 0
      /\ accepted = <<>> /\ stored = <<>> /\ disturbed = FALSE
  BY DEF Init
<1>2. <<>> \in Seq(Rows) /\ Len(<<>>) = 0 /\ ToSet(<<>>) = {} /\ \A A : Only(<<>>, A) = <<>>
  BY EmptySeq, OnlyOfNone DEF ToSet
<1>3. queues \in [Parts -> Seq(Rows)] /\ chunk \in [Drainers -> Seq(Rows)] /\ InPlace(queues)
  BY <1>1, <1>2 DEF InPlace
<1>4. TypeOK
  <2>1. /\ pc \in [Drainers -> {"idle", "drained", "inserting"}]
        /\ fresh \in [Drainers -> Seq(Rows)]
        /\ calls \in 0..MaxCalls /\ failures \in 0..MaxFailures
    BY <1>1, <1>2, ConstantsAssumption
  <2>2. /\ seen \subseteq ToSet(stored) /\ consumeLock \in Drainers \cup {NoOne}
        /\ phase \in {"running", "stopping", "flushing", "stopped"}
        /\ accepted \in Seq(Rows) /\ stored \in Seq(Rows) /\ disturbed \in BOOLEAN
    BY <1>1, <1>2
  <2> QED BY <1>3, <2>1, <2>2, TypeMeans
<1>5. StagesHold
  BY <1>1, <1>2, ConstantsAssumption DEF StagesHold
<1>6. NothingLost
  BY <1>1, <1>2 DEF NothingLost
<1>7. BoundedDepth
  <2>1. DepthOf(queues) = 0
    <3>1. \A p \in Parts : queues[p] = <<>>
      BY <1>1
    <3> QED BY <1>3, <3>1, DepthIsASum
  <2>2. \A d \in Drainers : chunk[d] = <<>>
    BY <1>1
  <2>3. Held(chunk) = 0
    <3> DEFINE f == [d \in Drainers |-> Len(chunk[d])]
    <3>1. f \in [Drainers -> Nat] /\ \A d \in Drainers : f[d] = 0
      BY <1>2, <2>2
    <3>2. IsFiniteSet(Drainers) /\ Held(chunk) = SumFunction(f)
      BY ConstantsAssumption DEF Held
    <3> HIDE DEF f
    <3> QED BY <3>1, <3>2, SumOfNaturals
  <2>4. Cardinality(Drainers) \in Nat /\ DrainBatch \in Nat /\ Capacity \in Nat
    BY ConstantsAssumption, FS_CardinalityType
  <2>5. DrainBatch * Cardinality(Drainers) \in Nat
    BY <2>4
  <2> QED BY <2>1, <2>3, <2>4, <2>5 DEF BoundedDepth, Depth, InHands, Held
<1>8. InOrder
  <2>1. \A p \in Parts : Settled(p, <<>>)
    <3> SUFFICES ASSUME NEW p \in Parts PROVE Settled(p, <<>>)
      OBVIOUS
    <3>1. queues[p] = <<>> /\ chunk[Loop] = <<>>
      BY <1>1, ConstantsAssumption
    <3>2. (<<>> \o <<>>) \o <<>> = <<>>
      OBVIOUS
    <3> QED BY <1>1, <1>2, <3>1, <3>2 DEF Settled
  <2> QED BY <1>1, <1>2, <2>1 DEF InOrder
<1> QED BY <1>4, <1>5, <1>6, <1>7, <1>8 DEF BufferInv

-----------------------------------------------------------------------------
(* Every action keeps the invariant.                                       *)

LEMMA ToSetOfJoin ==
    ASSUME NEW S, NEW q \in Seq(S), NEW r \in Seq(S)
    PROVE  q \o r \in Seq(S) /\ ToSet(q \o r) = ToSet(q) \cup ToSet(r)
<1>1. q \o r \in Seq(S) /\ Range(q \o r) = Range(q) \cup Range(r)
  BY JoinSequences
<1>2. ToSet(q) = Range(q) /\ ToSet(r) = Range(r) /\ ToSet(q \o r) = Range(q \o r)
  <2> DEFINE w == q \o r
  <2>1. w \in Seq(S)
    BY <1>1
  <2> HIDE DEF w
  <2>2. ToSet(w) = Range(w)
    BY <2>1, ToSetIsRange
  <2> QED BY <2>2, ToSetIsRange DEF w
<1> QED BY <1>1, <1>2

\* What the invariant says of the parts the actions change.
LEMMA InvariantFacts ==
    ASSUME BufferInv
    PROVE  /\ InPlace(queues) /\ queues \in [Parts -> Seq(Rows)] /\ Depth \in Nat
           /\ chunk \in [Drainers -> Seq(Rows)] /\ Held(chunk) \in Nat
           /\ Held(chunk) <= DrainBatch * Cardinality(Drainers)
           /\ DrainBatch * Cardinality(Drainers) \in Nat
           /\ Depth + Held(chunk) <= Capacity + DrainBatch * Cardinality(Drainers)
           /\ \A d \in Drainers : Len(chunk[d]) \in Nat
<1>1. TypeOK /\ StagesHold /\ BoundedDepth
  BY DEF BufferInv
<1>2. InPlace(queues) /\ queues \in [Parts -> Seq(Rows)] /\ chunk \in [Drainers -> Seq(Rows)]
  BY <1>1, TypeMeans DEF InPlace
<1>3. Depth \in Nat
  BY <1>2, DepthIsASum DEF Depth
<1>4. \A d \in Drainers : Len(chunk[d]) <= DrainBatch
  BY <1>1 DEF StagesHold
<1>5. Held(chunk) \in Nat /\ Held(chunk) <= DrainBatch * Cardinality(Drainers)
  BY <1>2, <1>4, HeldIsBounded
<1>6. DrainBatch * Cardinality(Drainers) \in Nat
  <2>1. DrainBatch \in Nat /\ Cardinality(Drainers) \in Nat
    BY ConstantsAssumption, FS_CardinalityType
  <2> QED BY <2>1
<1>7. \A d \in Drainers : Len(chunk[d]) \in Nat
  BY <1>2, LenProperties
<1> QED BY <1>1, <1>2, <1>3, <1>5, <1>6, <1>7 DEF BoundedDepth, InHands, Held

LEMMA ProduceKeeps ==
    ASSUME BufferInv, NEW rows \in Batches, ProduceRows(rows)
    PROVE  BufferInv'
<1> DEFINE k == IF Len(rows) < Free THEN Len(rows) ELSE Free
           taken == SubSeq(rows, 1, k)
<1>1. /\ calls < MaxCalls /\ calls' = calls + 1
      /\ queues' = Enqueue(queues, taken) /\ accepted' = accepted \o taken
      /\ UNCHANGED <<seen, consumeLock, pc, chunk, fresh, phase, failures, stored, disturbed>>
  BY DEF ProduceRows
<1>2. TypeOK /\ StagesHold /\ NothingLost /\ InOrder
  BY DEF BufferInv
<1>3. rows \in Seq(Rows) /\ Len(rows) \in Nat /\ Capacity \in Nat
  BY ConstantsAssumption, LenProperties
<1>4. k \in 0..Len(rows) /\ (k = 0 \/ Depth + k <= Capacity)
  BY <1>3, InvariantFacts DEF Free
<1> HIDE DEF k
<1>5. taken \in Seq(Rows) /\ Len(taken) = k
  BY <1>3, <1>4, CutSequence
<1> HIDE DEF taken
<1>6. /\ InPlace(queues') /\ Depth' = Depth + k
      /\ \A p \in Parts : /\ queues'[p] = queues[p] \o Only(taken, In(p))
                          /\ ToSet(queues'[p]) = ToSet(queues[p]) \cup (ToSet(taken) \cap In(p))
  <2>1. InPlace(queues) /\ taken \in Seq(Rows)
    BY <1>5, InvariantFacts
  <2>2. /\ InPlace(Enqueue(queues, taken))
        /\ DepthOf(Enqueue(queues, taken)) = DepthOf(queues) + Len(taken)
        /\ \A p \in Parts : /\ Enqueue(queues, taken)[p] = queues[p] \o Only(taken, In(p))
                            /\ ToSet(Enqueue(queues, taken)[p])
                                 = ToSet(queues[p]) \cup (ToSet(taken) \cap In(p))
    BY <2>1, EnqueueKeeps
  <2> QED BY <1>1, <1>5, <2>2 DEF Depth
<1>7. /\ accepted \in Seq(Rows) /\ accepted' \in Seq(Rows)
      /\ ToSet(accepted') = ToSet(accepted) \cup ToSet(taken)
  BY <1>1, <1>2, <1>5, TypeMeans, ToSetOfJoin
<1>8. TypeOK'
  <2>1. calls' \in 0..MaxCalls
    BY <1>1, <1>2, ConstantsAssumption, SMTT(30) DEF TypeOK
  <2> QED BY <1>1, <1>2, <1>6, <1>7, <2>1, TypeMeans, TypeMeansNext
<1>9. StagesHold'
  BY <1>1, <1>2 DEF StagesHold
<1>10. NothingLost'
  <2>1. \A p \in Parts : ToSet(queues[p]) \subseteq ToSet(queues'[p])
    BY <1>6
  <2>2. Queued \subseteq Queued' /\ Drained' = Drained /\ stored' = stored
    BY <1>1, <2>1 DEF Queued, Drained
  <2>3. ToSet(taken) \subseteq Queued'
    <3> SUFFICES ASSUME NEW r \in ToSet(taken) PROVE r \in Queued'
      OBVIOUS
    <3>1. r \in Rows
      BY <1>5, ToSetIsRange
    <3>2. Partition[r] \in Parts /\ r \in In(Partition[r])
      BY <3>1, ConstantsAssumption DEF Parts, In
    <3>3. r \in ToSet(queues'[Partition[r]])
      BY <1>6, <3>2
    <3> QED BY <3>2, <3>3 DEF Queued
  <2> QED BY <1>2, <1>7, <2>2, <2>3 DEF NothingLost
<1>11. BoundedDepth'
  <2>1. Held(chunk') = Held(chunk) /\ InHands' = Held(chunk')
    BY <1>1 DEF InHands, Held
  <2>2. Depth' + Held(chunk) <= Capacity + DrainBatch * Cardinality(Drainers)
    BY <1>3, <1>4, <1>6, InvariantFacts
  <2> QED BY <2>1, <2>2 DEF BoundedDepth
<1>12. InOrder'
  <2> SUFFICES ASSUME ~disturbed PROVE (/\ \A d \in Drainers \ {Loop} : pc[d] = "idle"
                                        /\ seen = ToSet(stored)
                                        /\ \A p \in Parts : \E done : Settled(p, done))'
    BY <1>1 DEF InOrder
  <2>1. /\ \A d \in Drainers \ {Loop} : pc[d] = "idle"
        /\ seen = ToSet(stored)
    BY <1>2 DEF InOrder
  <2>2. ASSUME NEW p \in Parts PROVE \E done : Settled(p, done)'
    <3>1. PICK done : Settled(p, done)
      BY <1>2 DEF InOrder
    <3>2. /\ done \in Seq(Rows)
          /\ Only(accepted, In(p)) = (done \o Only(chunk[Loop], In(p))) \o queues[p]
      BY <3>1 DEF Settled
    <3>3. Only(accepted', In(p)) = (done \o Only(chunk'[Loop], In(p))) \o queues'[p]
      <4> DEFINE a == done \o Only(chunk[Loop], In(p))
                 b == queues[p]
                 c == Only(taken, In(p))
      <4>1. Only(accepted', In(p)) = Only(accepted, In(p)) \o c
        BY <1>1, <1>5, <1>7, OnlyOfJoin
      <4>2. a \in Seq(Rows) /\ b \in Seq(Rows) /\ c \in Seq(Rows)
        <5>1. chunk[Loop] \in Seq(Rows)
          BY InvariantFacts, ConstantsAssumption
        <5>2. Only(chunk[Loop], In(p)) \in Seq(Rows)
          BY <5>1, OnlyKeeps
        <5>3. a \in Seq(Rows)
          BY <3>2, <5>2, ToSetOfJoin
        <5>4. c \in Seq(Rows)
          BY <1>5, OnlyKeeps
        <5> QED BY <5>3, <5>4, InvariantFacts
      <4>3. Only(accepted, In(p)) = a \o b /\ queues'[p] = b \o c
            /\ a = done \o Only(chunk'[Loop], In(p))
        BY <1>1, <1>6, <3>2
      <4> HIDE DEF a, b, c
      <4>4. (a \o b) \o c = a \o (b \o c)
        BY <4>2, ConcatAssociative
      <4> QED BY <4>1, <4>3, <4>4
    <3>4. Settled(p, done)'
      BY <1>1, <3>1, <3>3 DEF Settled
    <3> QED BY <3>4
  <2> QED BY <1>1, <2>1, <2>2
<1> QED BY <1>8, <1>9, <1>10, <1>11, <1>12 DEF BufferInv

LEMMA TakeChunkKeeps ==
    ASSUME BufferInv, NEW d \in Drainers, TakeChunk(d)
    PROVE  BufferInv'
<1>1. PICK drained \in Drains(queues) :
         queues' = drained.queues /\ chunk' = [chunk EXCEPT ![d] = drained.out]
  BY DEF TakeChunk
<1>2. /\ pc[d] = "idle" /\ pc' = [pc EXCEPT ![d] = "drained"]
      /\ disturbed' = (disturbed \/ d # Loop)
      /\ UNCHANGED <<seen, consumeLock, fresh, phase, calls, failures, accepted, stored>>
  BY DEF TakeChunk
<1>3. TypeOK /\ StagesHold /\ NothingLost /\ InOrder
  BY DEF BufferInv
<1>4. DrainedFrom(drained, queues) /\ Len(drained.out) <= DrainBatch
  BY InvariantFacts, DrainsKeep
<1> DEFINE out == drained.out
<1>5. /\ out \in Seq(Rows) /\ Len(out) \in Nat /\ InPlace(queues')
      /\ queues' \in [Parts -> Seq(Rows)]
      /\ \A p \in Parts : queues[p] = Only(out, In(p)) \o queues'[p]
      /\ Depth = Len(out) + Depth' /\ Depth' \in Nat
  <2>1. /\ out \in Seq(Rows) /\ InPlace(queues')
        /\ \A p \in Parts : queues[p] = Only(out, In(p)) \o queues'[p]
        /\ Depth = Len(out) + Depth'
    BY <1>1, <1>4 DEF DrainedFrom, Drainings, Depth
  <2>2. queues' \in [Parts -> Seq(Rows)]
    BY <2>1 DEF InPlace
  <2> QED BY <2>1, <2>2, DepthIsASum, LenProperties DEF Depth
<1>6. chunk' = [chunk EXCEPT ![d] = out] /\ Len(out) <= DrainBatch
  BY <1>1, <1>4
<1> HIDE DEF out
<1>7. /\ chunk \in [Drainers -> Seq(Rows)] /\ chunk[d] = <<>> /\ Len(chunk[d]) = 0
      /\ pc \in [Drainers -> {"idle", "drained", "inserting"}]
  <2>1. chunk[d] = <<>>
    BY <1>2, <1>3 DEF StagesHold
  <2> QED BY <1>3, <2>1, TypeMeans, EmptySeq
<1>8. /\ chunk' \in [Drainers -> Seq(Rows)] /\ chunk'[d] = out
      /\ \A e \in Drainers : e # d => chunk'[e] = chunk[e]
      /\ pc'[d] = "drained" /\ \A e \in Drainers : e # d => pc'[e] = pc[e]
      /\ pc' \in [Drainers -> {"idle", "drained", "inserting"}]
  BY <1>2, <1>5, <1>6, <1>7
<1>9. TypeOK'
  <2>1. disturbed' \in BOOLEAN
    BY <1>2
  <2> QED BY <1>2, <1>3, <1>5, <1>8, <2>1, TypeMeans, TypeMeansNext
<1>10. StagesHold'
  BY <1>2, <1>3, <1>6, <1>8 DEF StagesHold
<1>11. NothingLost'
  <2>1. ToSet(chunk[d]) = {} /\ out \in Seq(Rows)
    BY <1>5, <1>7 DEF ToSet
  <2>2. Drained \subseteq Drained'
    BY <1>8, <2>1 DEF Drained
  <2>3. ToSet(out) \subseteq Drained'
    BY <1>8 DEF Drained
  <2>4. ASSUME NEW p \in Parts PROVE ToSet(queues[p]) \subseteq ToSet(out) \cup Queued'
    <3>1. Only(out, In(p)) \in Seq(Rows) /\ ToSet(Only(out, In(p))) \subseteq ToSet(out)
      BY <1>5, OnlyKeeps
    <3>2. ToSet(queues[p]) = ToSet(Only(out, In(p))) \cup ToSet(queues'[p])
      <4> DEFINE a == Only(out, In(p))
                 b == queues'[p]
      <4>1. a \in Seq(Rows) /\ b \in Seq(Rows)
        BY <1>5, <3>1
      <4>2. queues[p] = a \o b
        BY <1>5
      <4> HIDE DEF a, b
      <4>3. ToSet(a \o b) = ToSet(a) \cup ToSet(b)
        BY <4>1, ToSetOfJoin
      <4> QED BY <4>2, <4>3 DEF a, b
    <3> QED BY <3>1, <3>2 DEF Queued
  <2>5. Queued \subseteq Queued' \cup Drained'
    BY <2>3, <2>4 DEF Queued
  <2> QED BY <1>2, <1>3, <2>2, <2>5 DEF NothingLost
<1>12. BoundedDepth'
  <2>1. Held(chunk') = Held(chunk) + Len(out)
    <3>1. Held([chunk EXCEPT ![d] = out]) = Held(chunk) + (Len(out) - Len(chunk[d]))
      BY <1>5, <1>7, HeldOneChanged
    <3> QED BY <1>5, <1>6, <1>7, <3>1, InvariantFacts
  <2>2. Depth' + Held(chunk') <= Capacity + DrainBatch * Cardinality(Drainers)
    BY <1>5, <2>1, InvariantFacts
  <2> QED BY <2>2 DEF BoundedDepth, InHands, Held
<1>13. InOrder'
  <2> SUFFICES ASSUME ~disturbed' PROVE (/\ \A e \in Drainers \ {Loop} : pc[e] = "idle"
                                         /\ seen = ToSet(stored)
                                         /\ \A p \in Parts : \E done : Settled(p, done))'
    BY DEF InOrder
  <2>1. ~disturbed /\ d = Loop
    BY <1>2
  <2>2. /\ \A e \in Drainers \ {Loop} : pc[e] = "idle"
        /\ seen = ToSet(stored)
    BY <1>3, <2>1 DEF InOrder
  <2>3. ASSUME NEW p \in Parts PROVE \E done : Settled(p, done)'
    <3>1. PICK done : Settled(p, done)
      BY <1>3, <2>1 DEF InOrder
    <3>2. /\ done \in Seq(Rows)
          /\ Only(accepted, In(p)) = (done \o Only(<<>>, In(p))) \o queues[p]
      BY <1>7, <2>1, <3>1 DEF Settled
    <3>3. Only(accepted', In(p)) = (done \o Only(chunk'[Loop], In(p))) \o queues'[p]
      <4> DEFINE b == Only(out, In(p))
                 c == queues'[p]
      <4>1. b \in Seq(Rows) /\ c \in Seq(Rows) /\ queues[p] = b \o c
        BY <1>5, OnlyKeeps
      <4>2. done \o Only(<<>>, In(p)) = done
        BY <3>2, OnlyOfNone, ConcatEmptySeq
      <4>3. chunk'[Loop] = out /\ accepted' = accepted
        BY <1>2, <1>8, <2>1
      <4>4. Only(accepted', In(p)) = done \o (b \o c)
        BY <3>2, <4>1, <4>2, <4>3
      <4>5. done \o (b \o c) = (done \o b) \o c
        <5>1. done \in Seq(Rows) /\ b \in Seq(Rows) /\ c \in Seq(Rows)
          BY <3>2, <4>1
        <5> HIDE DEF b, c
        <5> QED BY <5>1, ConcatAssociative
      <4> QED BY <4>3, <4>4, <4>5
    <3>4. Settled(p, done)'
      BY <1>2, <3>1, <3>3 DEF Settled
    <3> QED BY <3>4
  <2> QED BY <1>2, <1>8, <2>1, <2>2, <2>3
<1> QED BY <1>9, <1>10, <1>11, <1>12, <1>13 DEF BufferInv

LEMMA PickFreshKeeps ==
    ASSUME BufferInv, NEW d \in Drainers, PickFresh(d)
    PROVE  BufferInv'
<1>1. /\ pc[d] = "drained" /\ consumeLock = NoOne /\ consumeLock' = d
      /\ fresh' = [fresh EXCEPT ![d] = Only(chunk[d], Rows \ seen)]
      /\ pc' = [pc EXCEPT ![d] = "inserting"]
      /\ UNCHANGED <<queues, seen, chunk, phase, calls, failures, accepted, stored, disturbed>>
  BY DEF PickFresh, ConsumeLockFree
<1>2. TypeOK /\ StagesHold /\ NothingLost /\ BoundedDepth /\ InOrder
  BY DEF BufferInv
<1>3. /\ chunk \in [Drainers -> Seq(Rows)] /\ fresh \in [Drainers -> Seq(Rows)]
      /\ pc \in [Drainers -> {"idle", "drained", "inserting"}]
  BY <1>2, TypeMeans
<1>4. /\ pc'[d] = "inserting" /\ \A e \in Drainers : e # d => pc'[e] = pc[e]
      /\ fresh'[d] = Only(chunk[d], Rows \ seen)
      /\ \A e \in Drainers : e # d => fresh'[e] = fresh[e]
      /\ pc' \in [Drainers -> {"idle", "drained", "inserting"}]
      /\ fresh' \in [Drainers -> Seq(Rows)]
  <2>1. Only(chunk[d], Rows \ seen) \in Seq(Rows)
    BY <1>3, OnlyKeeps
  <2> QED BY <1>1, <1>3, <2>1
<1>5. TypeOK'
  BY <1>1, <1>2, <1>4, TypeMeans, TypeMeansNext
<1>6. StagesHold'
  <2>1. \A e \in Drainers : pc[e] # "inserting"
    BY <1>1, <1>2, ConstantsAssumption DEF StagesHold
  <2> QED BY <1>1, <1>2, <1>4, <2>1 DEF StagesHold
<1>7. NothingLost' /\ BoundedDepth'
  BY <1>1, <1>2 DEF NothingLost, Queued, Drained, BoundedDepth, Depth, InHands
<1>8. InOrder'
  <2> SUFFICES ASSUME ~disturbed PROVE (/\ \A e \in Drainers \ {Loop} : pc[e] = "idle"
                                        /\ seen = ToSet(stored)
                                        /\ \A p \in Parts : \E done : Settled(p, done))'
    BY <1>1 DEF InOrder
  <2>1. /\ \A e \in Drainers \ {Loop} : pc[e] = "idle"
        /\ seen = ToSet(stored)
        /\ \A p \in Parts : \E done : Settled(p, done)
    BY <1>2 DEF InOrder
  <2>2. \A p \in Parts : \E done : Settled(p, done)'
    BY <1>1, <2>1 DEF Settled
  <2> QED BY <1>1, <1>4, <2>1, <2>2
<1> QED BY <1>5, <1>6, <1>7, <1>8 DEF BufferInv

\* What a thread leaves behind when drain_once is over.
LEMMA ReturnLeaves ==
    ASSUME BufferInv, NEW d \in Drainers, NEW written, pc[d] = "inserting", Return(d, written)
    PROVE  /\ consumeLock' = NoOne
           /\ phase' \in {"running", "stopping", "flushing", "stopped"}
           /\ pc' \in [Drainers -> {"idle", "drained", "inserting"}]
           /\ chunk' \in [Drainers -> Seq(Rows)] /\ fresh' \in [Drainers -> Seq(Rows)]
           /\ pc'[d] = "idle" /\ chunk'[d] = <<>> /\ fresh'[d] = <<>>
           /\ \A e \in Drainers : e # d =>
                /\ pc'[e] = pc[e] /\ chunk'[e] = chunk[e] /\ fresh'[e] = fresh[e]
                /\ pc[e] # "inserting"
           /\ Held(chunk') = Held(chunk) - Len(chunk[d])
           /\ fresh[d] = Only(chunk[d], Rows \ seen) /\ fresh[d] \in Seq(Rows)
           /\ ToSet(fresh[d]) = ToSet(chunk[d]) \ seen
<1>1. TypeOK /\ StagesHold
  BY DEF BufferInv
<1>2. /\ pc' = [pc EXCEPT ![d] = "idle"]
      /\ chunk' = [chunk EXCEPT ![d] = <<>>] /\ fresh' = [fresh EXCEPT ![d] = <<>>]
      /\ consumeLock' = NoOne
      /\ phase' = IF d = Loop /\ LoopEnds(written) THEN "stopped" ELSE phase
  BY DEF Return, LockAfter
<1>3. /\ pc \in [Drainers -> {"idle", "drained", "inserting"}]
      /\ chunk \in [Drainers -> Seq(Rows)] /\ fresh \in [Drainers -> Seq(Rows)]
      /\ phase \in {"running", "stopping", "flushing", "stopped"}
  BY <1>1, TypeMeans
<1>4. <<>> \in Seq(Rows) /\ Len(<<>>) = 0
  BY EmptySeq
<1>5. Held(chunk') = Held(chunk) - Len(chunk[d])
  <2>1. Held([chunk EXCEPT ![d] = <<>>]) = Held(chunk) + (Len(<<>>) - Len(chunk[d]))
    BY <1>3, <1>4, HeldOneChanged
  <2> QED BY <1>2, <1>4, <2>1, InvariantFacts
<1>6. \A e \in Drainers : e # d => pc[e] # "inserting"
  BY <1>1 DEF StagesHold
<1>7. fresh[d] = Only(chunk[d], Rows \ seen)
  BY <1>1 DEF StagesHold
<1>8. ToSet(fresh[d]) = ToSet(chunk[d]) \ seen /\ fresh[d] \in Seq(Rows)
  <2>1. ToSet(Only(chunk[d], Rows \ seen)) = ToSet(chunk[d]) \cap (Rows \ seen)
    BY <1>3, OnlyKeeps
  <2>2. ToSet(chunk[d]) \subseteq Rows
    BY <1>3, ToSetIsRange
  <2> QED BY <1>3, <1>7, <2>1, <2>2
<1>9. phase' \in {"running", "stopping", "flushing", "stopped"}
  BY <1>2, <1>3
<1>10. /\ pc'[d] = "idle" /\ chunk'[d] = <<>> /\ fresh'[d] = <<>>
       /\ \A e \in Drainers : e # d =>
             pc'[e] = pc[e] /\ chunk'[e] = chunk[e] /\ fresh'[e] = fresh[e]
       /\ pc' \in [Drainers -> {"idle", "drained", "inserting"}]
       /\ chunk' \in [Drainers -> Seq(Rows)] /\ fresh' \in [Drainers -> Seq(Rows)]
  BY <1>2, <1>3, <1>4
<1> QED BY <1>2, <1>5, <1>6, <1>7, <1>8, <1>9, <1>10

LEMMA StagesAfterReturn ==
    ASSUME BufferInv, NEW d \in Drainers, NEW written, pc[d] = "inserting", Return(d, written)
    PROVE  StagesHold'
<1>1. StagesHold
  BY DEF BufferInv
<1>2. /\ consumeLock' = NoOne /\ NoOne \notin Drainers
      /\ pc'[d] = "idle" /\ chunk'[d] = <<>> /\ fresh'[d] = <<>> /\ Len(<<>>) = 0
      /\ 0 <= DrainBatch
      /\ \A e \in Drainers : e # d =>
           /\ pc'[e] = pc[e] /\ chunk'[e] = chunk[e] /\ fresh'[e] = fresh[e]
           /\ pc[e] # "inserting"
  BY ReturnLeaves, ConstantsAssumption, EmptySeq
<1> QED BY <1>1, <1>2 DEF StagesHold

LEMMA InsertKeeps ==
    ASSUME BufferInv, NEW d \in Drainers, Insert(d)
    PROVE  BufferInv'
<1>1. /\ pc[d] = "inserting" /\ Return(d, Len(fresh[d]))
      /\ stored' = stored \o fresh[d] /\ seen' = seen \cup ToSet(fresh[d])
      /\ UNCHANGED <<queues, calls, failures, accepted, disturbed>>
  BY DEF Insert
<1>2. TypeOK /\ StagesHold /\ NothingLost /\ BoundedDepth /\ InOrder
  BY DEF BufferInv
<1>3. /\ consumeLock' = NoOne
      /\ phase' \in {"running", "stopping", "flushing", "stopped"}
      /\ pc' \in [Drainers -> {"idle", "drained", "inserting"}]
      /\ chunk' \in [Drainers -> Seq(Rows)] /\ fresh' \in [Drainers -> Seq(Rows)]
      /\ pc'[d] = "idle" /\ chunk'[d] = <<>>
      /\ \A e \in Drainers : e # d => pc'[e] = pc[e] /\ chunk'[e] = chunk[e]
      /\ Held(chunk') = Held(chunk) - Len(chunk[d])
      /\ fresh[d] = Only(chunk[d], Rows \ seen) /\ fresh[d] \in Seq(Rows)
      /\ ToSet(fresh[d]) = ToSet(chunk[d]) \ seen
  BY <1>1, ReturnLeaves
<1>4. /\ stored \in Seq(Rows) /\ stored' \in Seq(Rows)
      /\ ToSet(stored') = ToSet(stored) \cup ToSet(fresh[d])
      /\ seen \subseteq ToSet(stored)
  <2>1. stored \in Seq(Rows) /\ seen \subseteq ToSet(stored)
    BY <1>2, TypeMeans
  <2> DEFINE w == fresh[d]
  <2>2. w \in Seq(Rows) /\ stored' = stored \o w
    BY <1>1, <1>3
  <2> HIDE DEF w
  <2>3. stored \o w \in Seq(Rows) /\ ToSet(stored \o w) = ToSet(stored) \cup ToSet(w)
    BY <2>1, <2>2, ToSetOfJoin
  <2> QED BY <2>1, <2>2, <2>3 DEF w
<1>5. TypeOK'
  <2>1. seen' \subseteq ToSet(stored')
    BY <1>1, <1>4
  <2> QED BY <1>1, <1>2, <1>3, <1>4, <2>1, TypeMeans, TypeMeansNext
<1>6. StagesHold'
  BY <1>1, StagesAfterReturn
<1>7. NothingLost'
  <2>1. ToSet(chunk[d]) \subseteq ToSet(stored')
    BY <1>3, <1>4
  <2>2. Drained \subseteq Drained' \cup ToSet(stored')
    BY <1>3, <2>1 DEF Drained
  <2>3. Queued' = Queued /\ accepted' = accepted
    BY <1>1 DEF Queued
  <2> QED BY <1>2, <1>4, <2>2, <2>3 DEF NothingLost
<1>8. BoundedDepth'
  <2>1. Depth' = Depth
    BY <1>1 DEF Depth
  <2>2. Depth' + Held(chunk') <= Capacity + DrainBatch * Cardinality(Drainers)
    BY <1>3, <2>1, InvariantFacts, ConstantsAssumption
  <2> QED BY <2>2 DEF BoundedDepth, InHands, Held
<1>9. InOrder'
  <2> SUFFICES ASSUME ~disturbed PROVE (/\ \A e \in Drainers \ {Loop} : pc[e] = "idle"
                                        /\ seen = ToSet(stored)
                                        /\ \A p \in Parts : \E done : Settled(p, done))'
    BY <1>1 DEF InOrder
  <2>1. /\ \A e \in Drainers \ {Loop} : pc[e] = "idle"
        /\ seen = ToSet(stored)
        /\ \A p \in Parts : \E done : Settled(p, done)
    BY <1>2 DEF InOrder
  <2>2. d = Loop
    BY <1>1, <2>1
  <2>3. seen' = ToSet(stored')
    BY <1>1, <1>4, <2>1
  <2>4. ASSUME NEW p \in Parts PROVE \E done : Settled(p, done)'
    <3>1. PICK done : Settled(p, done)
      BY <2>1
    <3>2. /\ done \in Seq(Rows)
          /\ Only(accepted, In(p)) = (done \o Only(chunk[Loop], In(p))) \o queues[p]
          /\ ToSet(done) = ToSet(stored) \cap In(p)
          /\ \A r, s \in In(p) : s \in ToSet(done) /\ Before(done, r, s) => Before(stored, r, s)
      BY <3>1 DEF Settled
    <3> DEFINE c == chunk[Loop]
               a == Only(c, In(p))
               new == fresh[d]
               after == done \o a
    <3>3. /\ c \in Seq(Rows) /\ a \in Seq(Rows) /\ ToSet(a) = ToSet(c) \cap In(p)
          /\ new \in Seq(Rows) /\ new = Only(c, Rows \ seen)
      BY <1>3, <2>2, InvariantFacts, OnlyKeeps
    <3>4. after \in Seq(Rows) /\ ToSet(after) = ToSet(done) \cup ToSet(a)
      <4> HIDE DEF a
      <4> QED BY <3>2, <3>3, ToSetOfJoin
    <3>5. Only(accepted', In(p)) = (after \o Only(chunk'[Loop], In(p))) \o queues'[p]
      <4>1. Only(chunk'[Loop], In(p)) = <<>>
        BY <1>3, <2>2, OnlyOfNone
      <4>2. after \o <<>> = after
        <5> HIDE DEF after
        <5> QED BY <3>4, ConcatEmptySeq
      <4> QED BY <1>1, <3>2, <4>1, <4>2
    <3>6. ToSet(after) = ToSet(stored') \cap In(p)
      <4>1. ToSet(new) = ToSet(c) \ ToSet(stored)
        BY <1>3, <2>1, <2>2
      <4> QED BY <1>4, <3>2, <3>3, <3>4, <4>1
    <3>7. ASSUME NEW r \in In(p), NEW s \in In(p), s \in ToSet(after), Before(after, r, s)
          PROVE  Before(stored', r, s)
      <4>1. Before(after, r, s) <=> Before(done, r, s) \/ (s \notin ToSet(done) /\ Before(a, r, s))
        <5> HIDE DEF a
        <5> QED BY <3>2, <3>3, BeforeInJoin
      <4>2. Before(stored', r, s)
              <=> Before(stored, r, s) \/ (s \notin ToSet(stored) /\ Before(new, r, s))
        <5> HIDE DEF new
        <5>1. new \in Seq(Rows) /\ stored \in Seq(Rows) /\ stored' = stored \o new
          BY <1>1, <1>4, <3>3 DEF new
        <5>2. Before(stored \o new, r, s)
                <=> Before(stored, r, s) \/ (s \notin ToSet(stored) /\ Before(new, r, s))
          BY <5>1, BeforeInJoin
        <5> QED BY <5>1, <5>2
      <4>3. Before(a, r, s) <=> Before(c, r, s)
        <5> HIDE DEF c
        <5> QED BY <3>3, BeforeInOnly
      <4>4. CASE s \in ToSet(done)
        BY <3>2, <3>7, <4>1, <4>2, <4>4
      <4>5. CASE s \notin ToSet(done)
        <5>1. s \notin ToSet(stored) /\ r \in Rows /\ s \in Rows
          BY <3>2, <4>5 DEF In
        <5>2. CASE r \in ToSet(stored)
          <6>1. PICK i \in 1..Len(stored) : stored[i] = r
            BY <1>4, <5>2, ToSetIsRange
          <6>2. \A j \in 1..i : j \in 1..Len(stored)
            BY <1>4, LenProperties
          <6>3. \A j \in 1..i : stored[j] # s
            BY <1>4, <5>1, <6>2, ToSetIsRange
          <6> QED BY <4>2, <6>1, <6>3 DEF Before
        <5>3. CASE r \notin ToSet(stored)
          <6>1. ~Before(done, r, s)
            <7>1. Before(done, r, s) => r \in ToSet(done)
              BY <3>2, ToSetIsRange DEF Before
            <7> QED BY <3>2, <5>3, <7>1
          <6>2. Before(c, r, s)
            BY <3>7, <4>1, <4>3, <6>1
          <6>3. r \in Rows \ seen /\ s \in Rows \ seen
            BY <2>1, <5>1, <5>3
          <6>4. Before(Only(c, Rows \ seen), r, s) <=> Before(c, r, s)
            <7> HIDE DEF c
            <7> QED BY <3>3, <6>3, BeforeInOnly
          <6>5. Before(new, r, s)
            BY <3>3, <6>2, <6>4
          <6> QED BY <4>2, <5>1, <6>5
        <5> QED BY <5>2, <5>3
      <4> QED BY <4>4, <4>5
    <3>8. PICK q : q = after
      OBVIOUS
    <3>9. \A r, s \in In(p) : s \in ToSet(q) /\ Before(q, r, s) => Before(stored', r, s)
      BY <3>7, <3>8
    <3>10. /\ q \in Seq(Rows) /\ ToSet(q) = ToSet(stored') \cap In(p)
           /\ Only(accepted', In(p)) = (q \o Only(chunk'[Loop], In(p))) \o queues'[p]
      BY <3>4, <3>5, <3>6, <3>8
    <3>11. Settled(p, q)'
      BY <3>9, <3>10 DEF Settled
    <3> QED BY <3>11
  <2>5. \A e \in Drainers \ {Loop} : pc'[e] = "idle"
    BY <1>3, <2>1, <2>2
  <2> QED BY <2>3, <2>4, <2>5
<1> QED BY <1>5, <1>6, <1>7, <1>8, <1>9 DEF BufferInv

LEMMA InsertFailsKeeps ==
    ASSUME BufferInv, NEW d \in Drainers, InsertFails(d)
    PROVE  BufferInv'
<1>1. /\ pc[d] = "inserting" /\ Return(d, 0)
      /\ failures < MaxFailures /\ failures' = failures + 1
      /\ queues' = Enqueue(queues, chunk[d])
      /\ stored' \in {stored, stored \o fresh[d]} /\ disturbed' = TRUE
      /\ UNCHANGED <<seen, calls, accepted>>
  BY DEF InsertFails, PutBack
<1>2. TypeOK /\ NothingLost /\ BoundedDepth
  BY DEF BufferInv
<1>3. /\ consumeLock' = NoOne
      /\ phase' \in {"running", "stopping", "flushing", "stopped"}
      /\ pc' \in [Drainers -> {"idle", "drained", "inserting"}]
      /\ chunk' \in [Drainers -> Seq(Rows)] /\ fresh' \in [Drainers -> Seq(Rows)]
      /\ \A e \in Drainers : e # d => chunk'[e] = chunk[e]
      /\ Held(chunk') = Held(chunk) - Len(chunk[d])
      /\ fresh[d] \in Seq(Rows)
  BY <1>1, ReturnLeaves
<1>4. /\ stored \in Seq(Rows) /\ stored' \in Seq(Rows)
      /\ ToSet(stored) \subseteq ToSet(stored')
  <2>1. stored \in Seq(Rows)
    BY <1>2, TypeMeans
  <2> DEFINE w == fresh[d]
  <2>2. w \in Seq(Rows)
    BY <1>3
  <2> HIDE DEF w
  <2>3. stored \o w \in Seq(Rows) /\ ToSet(stored \o w) = ToSet(stored) \cup ToSet(w)
    BY <2>1, <2>2, ToSetOfJoin
  <2> QED BY <1>1, <2>1, <2>3 DEF w
<1>5. /\ chunk[d] \in Seq(Rows) /\ InPlace(queues')
      /\ Depth' = Depth + Len(chunk[d])
      /\ \A p \in Parts :
            ToSet(queues'[p]) = ToSet(queues[p]) \cup (ToSet(chunk[d]) \cap In(p))
  <2> DEFINE c == chunk[d]
  <2>1. c \in Seq(Rows) /\ InPlace(queues)
    BY InvariantFacts
  <2> HIDE DEF c
  <2>2. /\ InPlace(Enqueue(queues, c))
        /\ DepthOf(Enqueue(queues, c)) = DepthOf(queues) + Len(c)
        /\ \A p \in Parts : ToSet(Enqueue(queues, c)[p])
                               = ToSet(queues[p]) \cup (ToSet(c) \cap In(p))
    BY <2>1, EnqueueKeeps
  <2> QED BY <1>1, <2>1, <2>2 DEF c, Depth
<1>6. TypeOK'
  <2>1. seen' \subseteq ToSet(stored')
    BY <1>1, <1>2, <1>4, TypeMeans
  <2>2. failures' \in 0..MaxFailures
    BY <1>1, <1>2, ConstantsAssumption DEF TypeOK
  <2> QED BY <1>1, <1>2, <1>3, <1>4, <1>5, <2>1, <2>2, TypeMeans, TypeMeansNext
<1>7. StagesHold'
  BY <1>1, StagesAfterReturn
<1>8. NothingLost'
  <2>1. ToSet(chunk[d]) \subseteq Queued'
    <3> SUFFICES ASSUME NEW r \in ToSet(chunk[d]) PROVE r \in Queued'
      OBVIOUS
    <3>1. r \in Rows
      BY <1>5, ToSetIsRange
    <3>2. Partition[r] \in Parts /\ r \in In(Partition[r])
      BY <3>1, ConstantsAssumption DEF Parts, In
    <3> QED BY <1>5, <3>2 DEF Queued
  <2>2. Drained \subseteq Drained' \cup Queued'
    BY <1>3, <2>1 DEF Drained
  <2>3. Queued \subseteq Queued'
    BY <1>5 DEF Queued
  <2> QED BY <1>1, <1>2, <1>4, <2>2, <2>3 DEF NothingLost
<1>9. BoundedDepth'
  <2>1. Depth' + Held(chunk') <= Capacity + DrainBatch * Cardinality(Drainers)
    BY <1>3, <1>5, InvariantFacts, ConstantsAssumption
  <2> QED BY <2>1 DEF BoundedDepth, InHands, Held
<1>10. InOrder'
  BY <1>1 DEF InOrder
<1> QED BY <1>6, <1>7, <1>8, <1>9, <1>10 DEF BufferInv

\* The loop's phases, and steps that change nothing.
LEMMA PhaseKeeps ==
    ASSUME BufferInv,
           UNCHANGED <<queues, seen, consumeLock, pc, chunk, fresh, calls, failures,
                       accepted, stored, disturbed>>,
           phase' \in {"running", "stopping", "flushing", "stopped"}
    PROVE  BufferInv'
<1>1. TypeOK /\ StagesHold /\ NothingLost /\ BoundedDepth /\ InOrder
  BY DEF BufferInv
<1>2. TypeOK'
  BY <1>1, TypeMeans, TypeMeansNext
<1>3. StagesHold'
  BY <1>1 DEF StagesHold
<1>4. NothingLost' /\ BoundedDepth'
  BY <1>1 DEF NothingLost, Queued, Drained, BoundedDepth, Depth, InHands
<1>5. InOrder'
  BY <1>1 DEF InOrder, Settled
<1> QED BY <1>2, <1>3, <1>4, <1>5 DEF BufferInv

LEMMA NextKeeps == BufferInv /\ [Next]_vars => BufferInv'
<1> SUFFICES ASSUME BufferInv, [Next]_vars PROVE BufferInv'
  OBVIOUS
<1>1. ASSUME NEW rows \in Batches, ProduceRows(rows) PROVE BufferInv'
  BY <1>1, ProduceKeeps
<1>2. ASSUME NEW d \in Drainers, DrainOnce(d) PROVE BufferInv'
  <2>1. CASE TakeChunk(d)
    BY <2>1, TakeChunkKeeps
  <2>2. CASE PickFresh(d)
    BY <2>2, PickFreshKeeps
  <2>3. CASE Insert(d)
    BY <2>3, InsertKeeps
  <2>4. CASE InsertFails(d)
    BY <2>4, InsertFailsKeeps
  <2> QED BY <1>2, <2>1, <2>2, <2>3, <2>4 DEF DrainOnce
<1>3. phase \in {"running", "stopping", "flushing", "stopped"}
  BY DEF BufferInv, TypeOK
<1>4. CASE Stop
  BY <1>4, PhaseKeeps DEF Stop
<1>5. CASE LoopWinds
  BY <1>5, PhaseKeeps DEF LoopWinds
<1>6. CASE UNCHANGED vars
  BY <1>3, <1>6, PhaseKeeps DEF vars
<1> QED BY <1>1, <1>2, <1>4, <1>5, <1>6 DEF Next

-----------------------------------------------------------------------------
(* The theorems.                                                           *)

LEMMA InvariantHolds == Spec => []BufferInv
BY InitHolds, NextKeeps, PTL DEF Spec

\* The buffer's state is of its type: each row queued in its own partition and
\* _seen never ahead of the store, whatever fails and whoever drains.
THEOREM BufferTypeHolds == Spec => []TypeOK
<1>1. BufferInv => TypeOK
  BY DEF BufferInv
<1> QED BY <1>1, InvariantHolds, PTL

\* Nothing acknowledged is lost (produce, drain_once): for any number of threads
\* and failures, every row produce_rows took is stored, queued or in hand.
THEOREM NothingLostHolds == Spec => []NothingLost
<1>1. BufferInv => NothingLost
  BY DEF BufferInv
<1> QED BY <1>1, InvariantHolds, PTL

\* The memory of the buffer (produce_rows, drain_once): chunks put back exceed the
\* capacity by no more than what the drainers can hold.
THEOREM BoundedDepthHolds == Spec => []BoundedDepth
<1>1. BufferInv => BoundedDepth
  BY DEF BufferInv
<1> QED BY <1>1, InvariantHolds, PTL

\* What consume picked stays unknown to the store until it inserts it: the check
\* of _seen and the insert are one step to the other threads (_consume_lock).
THEOREM FreshIsFreshHolds == Spec => []FreshIsFresh
<1>1. ASSUME BufferInv PROVE FreshIsFresh
  <2> SUFFICES ASSUME NEW d \in Drainers PROVE ToSet(fresh[d]) \cap seen = {}
    BY DEF FreshIsFresh
  <2>1. chunk[d] \in Seq(Rows)
    BY <1>1, InvariantFacts
  <2>2. fresh[d] = IF pc[d] = "inserting" THEN Only(chunk[d], Rows \ seen) ELSE <<>>
    BY <1>1 DEF BufferInv, StagesHold
  <2>3. CASE pc[d] = "inserting"
    <3>1. ToSet(Only(chunk[d], Rows \ seen)) = ToSet(chunk[d]) \cap (Rows \ seen)
      BY <2>1, OnlyKeeps
    <3> QED BY <2>2, <2>3, <3>1
  <2>4. CASE pc[d] # "inserting"
    <3>1. ToSet(<<>>) = {}
      BY DEF ToSet
    <3> QED BY <2>2, <2>4, <3>1
  <2> QED BY <2>3, <2>4
<1> QED BY <1>1, InvariantHolds, PTL

LEMMA FirstAtIsFirst ==
    ASSUME NEW S, NEW q \in Seq(S), NEW r \in ToSet(q)
    PROVE  /\ FirstAt(q, r) \in 1..Len(q) /\ q[FirstAt(q, r)] = r
           /\ \A i \in 1..Len(q) : q[i] = r => FirstAt(q, r) <= i
<1> DEFINE T == {i \in DOMAIN q : q[i] = r}
<1>1. DOMAIN q = 1..Len(q) /\ Len(q) \in Nat /\ \E i \in 1..Len(q) : q[i] = r
  BY ToSetIsRange, LenProperties
<1>2. T \in SUBSET Nat /\ T # {}
  BY <1>1
<1>3. FirstAt(q, r) = Least(T)
  BY DEF FirstAt
<1> HIDE DEF T
<1>4. Least(T) \in T /\ \A i \in T : Least(T) <= i
  BY <1>2, LeastIsLeast
<1> QED BY <1>1, <1>3, <1>4 DEF T

LEMMA FirstMeansBefore ==
    ASSUME NEW S, NEW q \in Seq(S), NEW r \in ToSet(q), NEW s \in ToSet(q)
    PROVE  FirstAt(q, r) < FirstAt(q, s) <=> Before(q, r, s)
<1> DEFINE m == FirstAt(q, r)
           n == FirstAt(q, s)
<1>1. /\ m \in 1..Len(q) /\ q[m] = r /\ \A i \in 1..Len(q) : q[i] = r => m <= i
      /\ n \in 1..Len(q) /\ q[n] = s /\ \A i \in 1..Len(q) : q[i] = s => n <= i
      /\ Len(q) \in Nat
  BY FirstAtIsFirst, LenProperties
<1> HIDE DEF m, n
<1>2. ASSUME m < n PROVE Before(q, r, s)
  <2>1. ASSUME NEW j \in 1..m PROVE q[j] # s
    <3>1. j \in 1..Len(q) /\ j < n
      BY <1>1, <1>2
    <3> QED BY <1>1, <3>1
  <2> QED BY <1>1, <2>1 DEF Before
<1>3. ASSUME Before(q, r, s) PROVE m < n
  <2>1. PICK i \in 1..Len(q) : q[i] = r /\ \A j \in 1..i : q[j] # s
    BY <1>3 DEF Before
  <2>2. m <= i /\ ~(n \in 1..i)
    BY <1>1, <2>1
  <2> QED BY <1>1, <2>1, <2>2
<1> QED BY <1>2, <1>3 DEF m, n

\* "Every span of a trace hashes to the same partition, so a consumer sees them in
\* produce order" (partition.py): as long as the loop drains alone and no insert
\* failed, two rows of a partition reach the store first in the order they were
\* first accepted in, for any batches and any chunk size.
THEOREM OrderKeptHolds == Spec => []OrderKept
<1>1. ASSUME BufferInv PROVE OrderKept
  <2> SUFFICES ASSUME ~disturbed, NEW r \in ToSet(accepted), NEW s \in ToSet(accepted),
                      Partition[r] = Partition[s],
                      FirstAt(accepted, r) < FirstAt(accepted, s), s \in ToSet(stored)
               PROVE  r \in ToSet(stored) /\ FirstAt(stored, r) < FirstAt(stored, s)
    BY DEF OrderKept
  <2>1. accepted \in Seq(Rows) /\ stored \in Seq(Rows)
    BY <1>1, TypeMeans DEF BufferInv
  <2> DEFINE p == Partition[r]
  <2>2. r \in Rows /\ s \in Rows
    BY <2>1, ToSetIsRange
  <2>3. p \in Parts /\ r \in In(p) /\ s \in In(p)
    BY <2>2, ConstantsAssumption DEF Parts, In
  <2> HIDE DEF p
  <2>4. PICK done : Settled(p, done)
    BY <1>1, <2>3 DEF BufferInv, InOrder
  <2> DEFINE a == Only(chunk[Loop], In(p))
             b == queues[p]
  <2>5. /\ done \in Seq(Rows) /\ ToSet(done) = ToSet(stored) \cap In(p)
        /\ Only(accepted, In(p)) = (done \o a) \o b
        /\ s \in ToSet(done) /\ Before(done, r, s) => Before(stored, r, s)
    BY <2>3, <2>4 DEF Settled
  <2>6. a \in Seq(Rows) /\ b \in Seq(Rows)
    <3>1. chunk[Loop] \in Seq(Rows)
      BY <1>1, InvariantFacts, ConstantsAssumption
    <3>2. a \in Seq(Rows)
      BY <3>1, OnlyKeeps
    <3> QED BY <1>1, <2>3, <3>2, InvariantFacts
  <2> HIDE DEF a, b
  <2>7. s \in ToSet(done)
    BY <2>3, <2>5
  <2>8. Before(Only(accepted, In(p)), r, s)
    <3>1. Before(accepted, r, s)
      BY <2>1, FirstMeansBefore
    <3> QED BY <2>1, <2>3, <3>1, BeforeInOnly
  <2> DEFINE u == done \o a
  <2>9. u \in Seq(Rows) /\ ToSet(u) = ToSet(done) \cup ToSet(a)
    BY <2>5, <2>6, ToSetOfJoin
  <2>10. Before(u, r, s)
    <3>1. Before(u \o b, r, s) <=> Before(u, r, s) \/ (s \notin ToSet(u) /\ Before(b, r, s))
      <4> HIDE DEF u
      <4> QED BY <2>6, <2>9, BeforeInJoin
    <3> QED BY <2>5, <2>7, <2>8, <2>9, <3>1
  <2>11. Before(done, r, s)
    <3>1. Before(done \o a, r, s)
            <=> Before(done, r, s) \/ (s \notin ToSet(done) /\ Before(a, r, s))
      BY <2>5, <2>6, BeforeInJoin
    <3> QED BY <2>7, <2>10, <3>1
  <2>12. r \in ToSet(stored)
    BY <2>5, <2>11, ToSetIsRange DEF Before
  <2>13. Before(stored, r, s)
    BY <2>5, <2>7, <2>11
  <2> QED BY <2>1, <2>12, <2>13, FirstMeansBefore
<1> QED BY <1>1, InvariantHolds, PTL

LEMMA ChunkServesHeads ==
    ASSUME BufferInv, [Next]_vars, NEW d \in Drainers,
           chunk[d] = <<>>, chunk'[d] # <<>>, Cardinality(Heads(queues)) <= DrainBatch
    PROVE  Heads(queues) \subseteq Served(d)'
<1>1. chunk \in [Drainers -> Seq(Rows)]
  BY InvariantFacts
<1>2. ASSUME NEW e \in Drainers, e # d, DrainOnce(e) PROVE FALSE
  <2>1. chunk'[d] = chunk[d]
    BY <1>1, <1>2 DEF DrainOnce, TakeChunk, PickFresh, Insert, InsertFails, Return
  <2> QED BY <2>1
<1>3. ~PickFresh(d) /\ ~Insert(d) /\ ~InsertFails(d)
  BY <1>1 DEF PickFresh, Insert, InsertFails, Return
<1>4. TakeChunk(d)
  <2>1. ~(\E rows \in Batches : ProduceRows(rows)) /\ ~Stop /\ ~LoopWinds /\ ~(UNCHANGED vars)
    BY DEF ProduceRows, Stop, LoopWinds, vars
  <2> QED BY <1>2, <1>3, <2>1 DEF Next, DrainOnce
<1>5. PICK drained \in Drains(queues) : chunk' = [chunk EXCEPT ![d] = drained.out]
  BY <1>4 DEF TakeChunk
<1> DEFINE out == drained.out
           H == Heads(queues)
<1>6. FirstRound(drained, queues, DrainBatch) /\ out \in Seq(Rows) /\ chunk'[d] = out
  <2>1. DrainedFrom(drained, queues) /\ FirstRound(drained, queues, DrainBatch)
    BY InvariantFacts, DrainsKeep
  <2> QED BY <1>1, <1>5, <2>1 DEF DrainedFrom, Drainings
<1>7. Served(d)' = TenantsOf(out)
  BY <1>6 DEF Served, TenantsOf, ToSet
<1>8. IsFiniteSet(H)
  <2> DEFINE Q == {p \in Parts : queues[p] # <<>>}
             f == [p \in Q |-> Tenant[Head(queues[p])]]
  <2>1. IsFiniteSet(Q)
    BY PartsAreFinite, FS_Subset
  <2>2. H = {f[p] : p \in Q}
    BY DEF Heads
  <2>3. f \in Surjection(Q, H)
    BY <2>2 DEF Surjection
  <2> HIDE DEF Q, f, H
  <2> QED BY <2>1, <2>3, FS_Surjection
<1> HIDE DEF H
<1>9. H \subseteq TenantsOf(out)
  <2>1. CASE drained.served \subseteq H /\ IsFiniteSet(drained.served)
             /\ Cardinality(drained.served) = DrainBatch /\ drained.served = TenantsOf(out)
    <3> DEFINE s == drained.served
    <3>1. /\ s \subseteq H /\ IsFiniteSet(s) /\ Cardinality(s) = DrainBatch
          /\ s = TenantsOf(out) /\ Cardinality(H) <= DrainBatch
      BY <2>1 DEF H
    <3> HIDE DEF s, out
    <3>2. Cardinality(s) <= Cardinality(H) /\ (Cardinality(s) = Cardinality(H) => s = H)
      BY <1>8, <3>1, FS_Subset
    <3>3. Cardinality(s) \in Nat /\ Cardinality(H) \in Nat
      BY <1>8, <3>1, FS_CardinalityType
    <3> QED BY <3>1, <3>2, <3>3
  <2> QED BY <1>6, <2>1 DEF FirstRound, H
<1> QED BY <1>7, <1>9 DEF H

\* A drain is fair between tenants (InMemoryBuffer.drain): every tenant with a row
\* at the head of a partition is in the chunk, when the chunk has room for as many
\* tenants; for any partitions, queues and chunk size.
THEOREM HeadsServedHolds == Spec => HeadsServed
<1>1. ASSUME BufferInv, [Next]_vars
      PROVE  \A d \in Drainers :
               chunk[d] = <<>> /\ chunk'[d] # <<>> /\ Cardinality(Heads(queues)) <= DrainBatch
                 => Heads(queues) \subseteq Served(d)'
  BY <1>1, ChunkServesHeads
<1> QED BY <1>1, InvariantHolds, PTL DEF Spec, HeadsServed
=============================================================================
