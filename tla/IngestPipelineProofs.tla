------------------------ MODULE IngestPipelineProofs ------------------------
(***************************************************************************)
(* The handler of the gateway and the client's reading of its answers,     *)
(* for applications, batches, buffers and faults of any number and kind.   *)
(*                                                                         *)
(* The client numbers a batch as the handler does, so the ack it reads is  *)
(* the truth about the attempt, and the two together are the honest        *)
(* gateway of SdkTransport.  What is proved there holds here.  On top of   *)
(* that, PipelineInv follows each span through the handler to its row.     *)
(***************************************************************************)
EXTENDS IngestPipeline, SdkTransportProofs

-----------------------------------------------------------------------------
(* Listings and their numbers.                                             *)

\* A listing has each member in its place.
InPlace(q, S, m) ==
    /\ Len(q) \in 0..m /\ Len(q) = Cardinality(S)
    /\ DOMAIN q = 1..Len(q) /\ q \in Seq(S)
    /\ \A i \in 1..Len(q) : q[i] \in S /\ q[i] \in 1..m
    /\ \A x \in S : \E i \in 1..Len(q) : q[i] = x
    /\ \A i, j \in 1..Len(q) : i < j <=> q[i] < q[j]
    /\ \A i, j \in 1..Len(q) : q[i] = q[j] => i = j

LEMMA Listed ==
    ASSUME NEW m \in Nat, NEW S, S \subseteq 1..m, NEW q \in Listings(S)
    PROVE  InPlace(q, S, m)
<1>1. IsFiniteSet(S) /\ Cardinality(S) \in 0..m
  BY PositionsCounted
<1>2. /\ q \in [1..Cardinality(S) -> S] /\ Range(q) = S
      /\ \A i, j \in DOMAIN q : i < j => q[i] < q[j]
  BY DEF Listings
<1>3. /\ Len(q) = Cardinality(S) /\ DOMAIN q = 1..Len(q) /\ q \in Seq(S)
  BY <1>1, <1>2
<1>4. \A x \in S : \E i \in 1..Len(q) : q[i] = x
  BY <1>2, <1>3 DEF Range
<1>5. \A i \in 1..Len(q) : q[i] \in S /\ q[i] \in 1..m /\ q[i] \in Nat
  <2>1. \A x \in S : x \in 1..m /\ x \in Nat
    OBVIOUS
  <2>2. \A i \in 1..Cardinality(S) : q[i] \in S
    BY <1>2
  <2> QED BY <2>1, <2>2, <1>3
<1>6. \A i, j \in 1..Len(q) : i < j => q[i] < q[j]
  BY <1>2, <1>3
<1>7. \A i, j \in 1..Len(q) : i < j \/ i = j \/ j < i
  BY <1>1, <1>3
<1>8. \A i, j \in 1..Len(q) : (i < j <=> q[i] < q[j]) /\ (q[i] = q[j] => i = j)
  BY <1>5, <1>6, <1>7
<1> QED BY <1>1, <1>3, <1>4, <1>5, <1>8 DEF InPlace

\* An index is one more than the number of members before its own.
LEMMA Numbered ==
    ASSUME NEW m \in Nat, NEW S, S \subseteq 1..m, NEW q \in Listings(S),
           NEW k \in 1..Len(q)
    PROVE  Cardinality({x \in S : x < q[k]}) = k - 1
<1> DEFINE T == {x \in S : x < q[k]}
<1>1. /\ InPlace(q, S, m) /\ Len(q) \in Nat
      /\ \A i \in 1..Len(q) : q[i] \in Nat
  <2>1. InPlace(q, S, m)
    BY Listed
  <2> QED BY <2>1 DEF InPlace
<1>2. k - 1 \in Nat /\ \A i \in 1..(k - 1) : i \in 1..Len(q) /\ i < k
  BY <1>1
<1>3. T = {q[j] : j \in 1..(k - 1)}
  <2>1. ASSUME NEW x \in T PROVE x \in {q[j] : j \in 1..(k - 1)}
    <3>1. PICK i \in 1..Len(q) : q[i] = x
      BY <1>1 DEF InPlace
    <3>2. i < k
      BY <1>1, <3>1 DEF InPlace
    <3> QED BY <3>1, <3>2, <1>1
  <2>2. ASSUME NEW j \in 1..(k - 1) PROVE q[j] \in T
    BY <1>1, <1>2 DEF InPlace
  <2> QED BY <2>1, <2>2
<1>4. \A i, j \in 1..(k - 1) : q[i] = q[j] => i = j
  BY <1>1, <1>2 DEF InPlace
<1> HIDE DEF T
<1>5. Cardinality(T) = k - 1
  BY <1>2, <1>3, <1>4, ImageCounted
<1> QED BY <1>5 DEF T
-----------------------------------------------------------------------------
(* The two numberings of a batch.                                          *)

LEMMA KeptPositions ==
    ASSUME NEW sent \in Seq(Span)
    PROVE  /\ Kept(sent) \subseteq 1..Len(sent) /\ Len(sent) \in Nat
           /\ KeptByClient(sent) = Kept(sent)
BY DEF Kept, KeptByClient

LEMMA KeptListed ==
    ASSUME NEW sent \in Seq(Span), NEW list \in Listings(Kept(sent))
    PROVE  /\ InPlace(list, Kept(sent), Len(sent))
           /\ \A k \in 1..Len(list) :
                  Cardinality({q \in Kept(sent) : q < list[k]}) = k - 1
BY KeptPositions, Listed, Numbered

\* Dedup leaves one span of each identity.
LEMMA KeptOnce ==
    ASSUME NEW sent \in Seq(Span), NEW p \in Kept(sent), NEW q \in Kept(sent),
           app.id[sent[p]] # NoId, SameIds(sent[p], sent[q])
    PROVE  p = q
<1>1. p \in 1..Len(sent) /\ q \in 1..Len(sent) /\ Len(sent) \in Nat
  BY KeptPositions
<1>2. app.id[sent[q]] # NoId /\ SameIds(sent[q], sent[p])
  BY DEF SameIds
<1>3. ~(p < q)
  BY <1>1, <1>2 DEF Kept
<1>4. ~(q < p)
  BY <1>1, <1>2 DEF Kept
<1> QED BY <1>1, <1>3, <1>4

\* CTO-407: no two spans of a deduplicated batch share an item id.
LEMMA NamesDiffer ==
    ASSUME NEW sent \in Seq(Span), NEW list \in Listings(Kept(sent)),
           NEW j \in 1..Len(list), NEW k \in 1..Len(list),
           ItemId(sent[list[j]], j - 1) = ItemId(sent[list[k]], k - 1)
    PROVE  j = k
<1>1. /\ Len(list) \in 0..Len(sent) /\ Len(sent) \in Nat
      /\ list[j] \in Kept(sent) /\ list[k] \in Kept(sent)
      /\ list[j] = list[k] => j = k
  BY KeptPositions, KeptListed DEF InPlace
<1> DEFINE s == sent[list[j]]
           r == sent[list[k]]
<1>2. CASE HasIds(s) /\ HasIds(r)
  <2>1. <<"ids", app.trace[s], app.id[s]>> = <<"ids", app.trace[r], app.id[r]>>
    BY <1>2 DEF ItemId
  <2>2. app.id[s] # NoId /\ SameIds(s, r)
    BY <1>2, <2>1 DEF HasIds, SameIds
  <2> QED BY <1>1, <2>2, KeptOnce
<1>3. CASE ~HasIds(s) /\ ~HasIds(r)
  <2>1. <<"#", j - 1>> = <<"#", k - 1>>
    BY <1>3 DEF ItemId
  <2> QED BY <2>1, <1>1
<1>4. \A a, b, c : <<"ids", a, b>> # <<"#", c>>
  OBVIOUS
<1>5. CASE HasIds(s) /\ ~HasIds(r)
  BY <1>4, <1>5 DEF ItemId
<1>6. CASE ~HasIds(s) /\ HasIds(r)
  BY <1>4, <1>6 DEF ItemId
<1> QED BY <1>2, <1>3, <1>5, <1>6

\* CTO-407: the client places the gateway's name of a span at that span, whatever
\* duplicates stand before it.
LEMMA PlacedRight ==
    ASSUME NEW sent \in Seq(Span), NEW list \in Listings(Kept(sent)),
           NEW k \in 1..Len(list)
    PROVE  /\ Positions(sent, ItemId(sent[list[k]], k - 1)) = {list[k]}
           /\ Place(sent, ItemId(sent[list[k]], k - 1)) = list[k]
<1> DEFINE name == ItemId(sent[list[k]], k - 1)
<1>1. /\ Kept(sent) \subseteq 1..Len(sent) /\ Len(sent) \in Nat
      /\ KeptByClient(sent) = Kept(sent)
  BY KeptPositions
<1>2. /\ \A i \in 1..Len(list) : list[i] \in Kept(sent) /\ list[i] \in Nat
      /\ \A p \in Kept(sent) : \E i \in 1..Len(list) : list[i] = p
  <2>1. InPlace(list, Kept(sent), Len(sent))
    BY KeptListed
  <2> QED BY <2>1, <1>1 DEF InPlace
<1>3. \A i \in 1..Len(list) : ClientItemId(sent, list[i]) = ItemId(sent[list[i]], i - 1)
  <2> SUFFICES ASSUME NEW i \in 1..Len(list)
               PROVE  ClientItemId(sent, list[i]) = ItemId(sent[list[i]], i - 1)
    OBVIOUS
  <2>1. Cardinality({q \in KeptByClient(sent) : q < list[i]}) = i - 1
    BY <1>1, KeptListed
  <2> QED BY <2>1 DEF ClientItemId
<1>4. Positions(sent, name) = {list[k]}
  <2>1. list[k] \in Positions(sent, name)
    BY <1>1, <1>2, <1>3 DEF Positions
  <2>2. ASSUME NEW p \in Positions(sent, name) PROVE p = list[k]
    <3>1. p \in Kept(sent) /\ ClientItemId(sent, p) = name
      BY <1>1 DEF Positions
    <3>2. PICK i \in 1..Len(list) : list[i] = p
      BY <3>1, <1>2
    <3>3. ItemId(sent[list[i]], i - 1) = ItemId(sent[list[k]], k - 1)
      BY <3>1, <3>2, <1>3
    <3>4. i = k
      BY <3>3, NamesDiffer
    <3> QED BY <3>2, <3>4
  <2> QED BY <2>1, <2>2
<1> HIDE DEF name
<1>5. Place(sent, name) = list[k]
  BY <1>2, <1>4 DEF Place
<1> QED BY <1>4, <1>5 DEF name
-----------------------------------------------------------------------------
(* One attempt.                                                            *)

\* What an attempt makes of a batch: the arguments of Attempt's disjuncts.
Tried(sent, list, keep, rows, n) ==
    /\ sent \in Seq(Span)
    /\ list \in Listings(Kept(sent))
    /\ keep \in Keeps(list)
    /\ rows \in Listings(Rows(sent, list, keep))
    /\ n \in 0..Len(rows)

LEMMA TriedInPlace ==
    ASSUME NEW sent, NEW list, NEW keep, NEW rows, NEW n, Tried(sent, list, keep, rows, n)
    PROVE  /\ Len(sent) \in Nat /\ Len(list) \in 0..Len(sent) /\ keep \in 0..Len(list)
           /\ Len(rows) \in 0..keep /\ n \in 0..Len(rows)
           /\ Kept(sent) \subseteq 1..Len(sent)
           /\ InPlace(list, Kept(sent), Len(sent))
           /\ InPlace(rows, Rows(sent, list, keep), keep)
<1>1. /\ sent \in Seq(Span) /\ list \in Listings(Kept(sent)) /\ keep \in Keeps(list)
      /\ rows \in Listings(Rows(sent, list, keep)) /\ n \in 0..Len(rows)
  BY DEF Tried
<1>2. Len(sent) \in Nat /\ Kept(sent) \subseteq 1..Len(sent)
  BY <1>1, KeptPositions
<1>3. InPlace(list, Kept(sent), Len(sent))
  BY <1>1, KeptListed
<1>4. Len(list) \in 0..Len(sent)
  BY <1>3 DEF InPlace
<1>5. keep \in 0..Len(list)
  BY <1>1, <1>2, <1>4, PipelineAssumption DEF Keeps, LesserOf
<1>6. Rows(sent, list, keep) \subseteq 1..keep /\ keep \in Nat
  BY <1>2, <1>4, <1>5 DEF Rows
<1>7. InPlace(rows, Rows(sent, list, keep), keep)
  BY <1>1, <1>6, Listed
<1>8. Len(rows) \in 0..keep
  BY <1>7 DEF InPlace
<1> QED BY <1>1, <1>2, <1>3, <1>4, <1>5, <1>7, <1>8

\* What is named RATE_LIMITED: the overflow and the rows that were not taken, each
\* once and nothing else.
Shedding(q, list, keep, rows, n) ==
    /\ Len(q) \in 0..Len(list) /\ DOMAIN q = 1..Len(q)
    /\ \A i \in 1..Len(q) : q[i] \in 1..Len(list)
    /\ \A i, j \in 1..Len(q) : q[i] = q[j] => i = j
    /\ \A k \in 1..Len(list) :
         (\E i \in 1..Len(q) : q[i] = k)
           <=> k > keep \/ \E j \in (n + 1)..Len(rows) : rows[j] = k

LEMMA ShedInPlace ==
    ASSUME NEW sent, NEW list, NEW keep, NEW rows, NEW n, Tried(sent, list, keep, rows, n)
    PROVE  Shedding(ShedIndices(list, keep, rows, n), list, keep, rows, n)
<1> DEFINE P == 1..Len(list)
           over == Overflow(list, keep)
           rest == SubSeq(rows, n + 1, Len(rows))
           all == over \o rest
<1>1. /\ Len(list) \in Nat /\ keep \in 0..Len(list) /\ Len(rows) \in 0..keep
      /\ n \in 0..Len(rows) /\ InPlace(rows, Rows(sent, list, keep), keep)
  BY TriedInPlace
<1>2. /\ over \in Seq(P) /\ Len(over) = Len(list) - keep
      /\ \A i \in 1..Len(over) : over[i] = keep + i
  BY <1>1 DEF Overflow
<1>3. /\ rows \in Seq(P) /\ DOMAIN rows = 1..Len(rows)
      /\ \A i \in 1..Len(rows) : rows[i] \in 1..keep
      /\ \A i, j \in 1..Len(rows) : rows[i] = rows[j] => i = j
  <2>1. /\ DOMAIN rows = 1..Len(rows) /\ rows \in Seq(Rows(sent, list, keep))
        /\ \A i \in 1..Len(rows) : rows[i] \in 1..keep
        /\ \A i, j \in 1..Len(rows) : rows[i] = rows[j] => i = j
    BY <1>1 DEF InPlace
  <2>2. \A i \in 1..Len(rows) : rows[i] \in P
    BY <1>1, <2>1
  <2> QED BY <2>1, <2>2
<1>4. /\ rest \in Seq(P) /\ Len(rest) = Len(rows) - n
      /\ \A i \in 1..Len(rest) : rest[i] = rows[n + i]
  <2>1. n \in Nat /\ n + 1 \in Int /\ Len(rows) \in Int /\ n <= Len(rows)
    BY <1>1
  <2>2. \A i \in (n + 1)..Len(rows) : rows[i] \in P
    BY <1>3, <2>1
  <2> HIDE DEF P
  <2>3. /\ rest \in Seq(P)
        /\ Len(rest) = IF n + 1 <= Len(rows) THEN Len(rows) - (n + 1) + 1 ELSE 0
        /\ \A i \in 1..(Len(rows) - (n + 1) + 1) : rest[i] = rows[n + 1 + i - 1]
    BY <2>1, <2>2, SubSeqProperties
  <2>4. Len(rest) = Len(rows) - n
    BY <2>1, <2>3
  <2>5. \A i \in 1..Len(rest) : n + 1 + i - 1 = n + i /\ i \in 1..(Len(rows) - (n + 1) + 1)
    BY <2>1, <2>4
  <2> QED BY <2>3, <2>4, <2>5
<1>5. /\ all \in Seq(P) /\ Len(all) = Len(over) + Len(rest)
      /\ \A i \in 1..(Len(over) + Len(rest)) :
           all[i] = IF i <= Len(over) THEN over[i] ELSE rest[i - Len(over)]
  BY <1>2, <1>4, ConcatProperties
<1> HIDE DEF all, over, rest, P
<1> DEFINE a == Len(list) - keep
           l == Len(all)
<1>6. /\ a \in Nat /\ Len(over) = a /\ l = a + (Len(rows) - n)
      /\ l \in 0..Len(list) /\ DOMAIN all = 1..l
      /\ n \in Nat /\ Len(rows) \in Nat /\ keep \in Nat /\ n <= Len(rows)
  <2>1. /\ n \in Nat /\ Len(rows) \in Nat /\ keep \in Nat /\ n <= Len(rows)
        /\ Len(list) \in Nat /\ keep <= Len(list) /\ Len(rows) <= keep
    BY <1>1
  <2>2. DOMAIN all = 1..l
    BY <1>5
  <2>3. Len(over) = a /\ l = a + (Len(rows) - n)
    BY <1>2, <1>4, <1>5
  <2> QED BY <2>1, <2>2, <2>3
<1>7. \A i \in 1..l : all[i] \in 1..Len(list)
  <2>1. \A i \in 1..l : all[i] \in P
    BY <1>5
  <2> QED BY <2>1 DEF P
<1> HIDE DEF l, a
<1>8. /\ \A i \in 1..l : i <= a => all[i] = keep + i
      /\ \A i \in 1..l : i > a => i - a + n \in 1..Len(rows) /\ all[i] = rows[i - a + n]
  <2>1. ASSUME NEW i \in 1..l, i <= a PROVE all[i] = keep + i
    <3>1. i \in 1..(Len(over) + Len(rest)) /\ i <= Len(over) /\ i \in 1..Len(over)
      BY <2>1, <1>4, <1>6
    <3> QED BY <3>1, <1>2, <1>5
  <2>2. ASSUME NEW i \in 1..l, i > a
        PROVE  i - a + n \in 1..Len(rows) /\ all[i] = rows[i - a + n]
    <3>1. i \in 1..(Len(over) + Len(rest)) /\ ~(i <= Len(over)) /\ i - a \in 1..Len(rest)
      BY <2>2, <1>4, <1>6
    <3>2. all[i] = rest[i - a] /\ rest[i - a] = rows[n + (i - a)]
      BY <3>1, <1>4, <1>5, <1>6
    <3>3. n + (i - a) = i - a + n /\ i - a + n \in 1..Len(rows)
      BY <3>1, <1>4, <1>6, SMTT(30)
    <3> QED BY <3>2, <3>3
  <2> QED BY <2>1, <2>2
<1>9. \A i, j \in 1..l : all[i] = all[j] => i = j
  <2> SUFFICES ASSUME NEW i \in 1..l, NEW j \in 1..l, all[i] = all[j] PROVE i = j
    OBVIOUS
  <2>1. CASE i <= a /\ j <= a
    BY <2>1, <1>6, <1>8
  <2>2. CASE i > a /\ j > a
    <3>1. i - a + n = j - a + n
      BY <2>2, <1>3, <1>8
    <3> QED BY <3>1, <1>6
  <2>3. ASSUME NEW x \in 1..l, NEW y \in 1..l, x <= a, y > a PROVE all[x] # all[y]
    <3>1. all[x] = keep + x /\ x > 0
      BY <2>3, <1>6, <1>8
    <3>2. all[y] \in 1..keep
      BY <2>3, <1>3, <1>8
    <3> QED BY <3>1, <3>2, <1>6
  <2> QED BY <2>1, <2>2, <2>3, <1>6
<1>10. ASSUME NEW k \in 1..Len(list), k > keep
       PROVE  \E i \in 1..l : all[i] = k
  <2>1. k - keep \in 1..l /\ k - keep <= a /\ keep + (k - keep) = k
    BY <1>1, <1>6, <1>10 DEF a
  <2>2. all[k - keep] = k
    BY <2>1, <1>8
  <2> QED BY <2>1, <2>2
<1>11. ASSUME NEW j \in (n + 1)..Len(rows)
       PROVE  \E i \in 1..l : all[i] = rows[j]
  <2>1. j - n + a \in 1..l /\ j - n + a > a /\ (j - n + a) - a + n = j
    BY <1>6
  <2>2. all[j - n + a] = rows[(j - n + a) - a + n]
    BY <2>1, <1>8
  <2> QED BY <2>1, <2>2
<1>12. ASSUME NEW k \in 1..Len(list), NEW i \in 1..l, all[i] = k
       PROVE  k > keep \/ \E j \in (n + 1)..Len(rows) : rows[j] = k
  <2>1. CASE i <= a
    BY <2>1, <1>6, <1>8, <1>12
  <2>2. CASE i > a
    <3>1. i - a + n \in (n + 1)..Len(rows) /\ rows[i - a + n] = k
      BY <2>2, <1>6, <1>8, <1>12
    <3> QED BY <3>1
  <2> QED BY <2>1, <2>2, <1>6
<1>13. all = ShedIndices(list, keep, rows, n)
  BY DEF all, over, rest, ShedIndices
<1>14. Shedding(all, list, keep, rows, n)
  <2>1. \A k \in 1..Len(list) : k > keep => \E i \in 1..l : all[i] = k
    BY <1>10
  <2>2. \A k \in 1..Len(list), i \in 1..l :
          all[i] = k => k > keep \/ \E j \in (n + 1)..Len(rows) : rows[j] = k
    BY <1>12
  <2> QED BY <2>1, <2>2, <1>6, <1>7, <1>9, <1>11 DEF Shedding, l
<1> QED BY <1>13, <1>14

\* What became of each span of the batch.
JudgedSo(v, sent, list, keep, rows, n) ==
    /\ v \in [1..Len(sent) -> {"accepted", "retry", "dead", "duplicate"}]
    /\ \A p \in 1..Len(sent) : v[p] = "duplicate" <=> p \notin Kept(sent)
    /\ \A k \in 1..Len(list) :
         /\ v[list[k]] = "dead" <=> k \in RefusedIndices(sent, list, keep)
         /\ v[list[k]] = "accepted" <=> \E j \in 1..n : rows[j] = k
         /\ v[list[k]] = "retry"
              <=> \E i \in 1..Len(ShedIndices(list, keep, rows, n)) :
                    ShedIndices(list, keep, rows, n)[i] = k

LEMMA JudgedAs ==
    ASSUME NEW sent, NEW list, NEW keep, NEW rows, NEW n, Tried(sent, list, keep, rows, n)
    PROVE  JudgedSo(Judgement(sent, list, keep, rows, n), sent, list, keep, rows, n)
<1> DEFINE v == Judgement(sent, list, keep, rows, n)
           refused == RefusedIndices(sent, list, keep)
           shedIndices == ShedIndices(list, keep, rows, n)
<1>1. /\ Len(sent) \in Nat /\ Len(list) \in 0..Len(sent) /\ keep \in 0..Len(list)
      /\ Len(rows) \in 0..keep /\ n \in 0..Len(rows)
      /\ Kept(sent) \subseteq 1..Len(sent)
      /\ InPlace(list, Kept(sent), Len(sent))
      /\ InPlace(rows, Rows(sent, list, keep), keep)
  BY TriedInPlace
<1>2. sent \in Seq(Span) /\ DOMAIN sent = 1..Len(sent)
  BY DEF Tried
<1>3. /\ Range(list) = Kept(sent)
      /\ \A k \in 1..Len(list) : list[k] \in 1..Len(sent) /\ list[k] \in Kept(sent)
      /\ \A j, k \in 1..Len(list) : list[j] = list[k] => j = k
  <2>1. /\ DOMAIN list = 1..Len(list)
        /\ \A k \in 1..Len(list) : list[k] \in Kept(sent)
        /\ \A p \in Kept(sent) : \E k \in 1..Len(list) : list[k] = p
    BY <1>1 DEF InPlace
  <2>2. Range(list) = Kept(sent)
    BY <2>1 DEF Range
  <2> QED BY <2>2, <1>1 DEF InPlace
<1>4. /\ \A j \in 1..Len(rows) : rows[j] \in 1..keep /\ ~Invalid(sent, list, rows[j])
      /\ \A k \in 1..keep : ~Invalid(sent, list, k) => \E j \in 1..Len(rows) : rows[j] = k
      /\ \A i, j \in 1..Len(rows) : rows[i] = rows[j] => i = j
  <2>1. Rows(sent, list, keep) = {k \in 1..keep : ~Invalid(sent, list, k)}
    BY DEF Rows
  <2> QED BY <2>1, <1>1 DEF InPlace
<1>5. \A k \in 1..Len(list) : (\E i \in 1..Len(shedIndices) : shedIndices[i] = k)
                                <=> k > keep \/ \E j \in (n + 1)..Len(rows) : rows[j] = k
  <2>1. Shedding(shedIndices, list, keep, rows, n)
    BY ShedInPlace
  <2> QED BY <2>1 DEF Shedding
<1>6. \A k \in refused : k \in 1..keep /\ Invalid(sent, list, k)
  BY DEF RefusedIndices
<1>7. \A p \in 1..Len(sent) :
        v[p] = CASE p \notin Kept(sent) -> "duplicate"
                 [] \E k \in refused : list[k] = p -> "dead"
                 [] \E j \in 1..n : list[rows[j]] = p -> "accepted"
                 [] OTHER -> "retry"
  BY <1>2, <1>3 DEF Judgement
<1>8. v = [p \in 1..Len(sent) |-> v[p]]
  BY <1>2 DEF Judgement
<1> HIDE DEF v
<1>9. ASSUME NEW k \in 1..Len(list)
      PROVE  /\ (\E j \in refused : list[j] = list[k]) <=> k \in refused
             /\ (\E j \in 1..n : list[rows[j]] = list[k]) <=> \E j \in 1..n : rows[j] = k
             /\ ~(k \in refused /\ \E j \in 1..n : rows[j] = k)
  <2>1. \A j \in refused : j \in 1..Len(list)
    BY <1>1, <1>6
  <2>2. \A j \in 1..n : j \in 1..Len(rows) /\ rows[j] \in 1..Len(list)
    BY <1>1, <1>4
  <2> QED BY <2>1, <2>2, <1>3, <1>4, <1>6
<1> HIDE DEF refused, shedIndices
<1>10. ASSUME NEW k \in 1..Len(list)
       PROVE  v[list[k]] = IF k \in refused THEN "dead"
                           ELSE IF \E j \in 1..n : rows[j] = k THEN "accepted"
                           ELSE "retry"
  <2>1. list[k] \in 1..Len(sent) /\ list[k] \in Kept(sent)
    BY <1>3
  <2>2. v[list[k]] = CASE list[k] \notin Kept(sent) -> "duplicate"
                       [] \E j \in refused : list[j] = list[k] -> "dead"
                       [] \E j \in 1..n : list[rows[j]] = list[k] -> "accepted"
                       [] OTHER -> "retry"
    BY <2>1, <1>7
  <2>3. CASE k \in refused
    <3>1. (\E j \in refused : list[j] = list[k]) /\ ~\E j \in 1..n : list[rows[j]] = list[k]
      BY <1>9, <2>3
    <3> QED BY <2>1, <2>2, <2>3, <3>1
  <2>4. CASE k \notin refused /\ \E j \in 1..n : rows[j] = k
    <3>1. ~(\E j \in refused : list[j] = list[k]) /\ \E j \in 1..n : list[rows[j]] = list[k]
      BY <1>9, <2>4
    <3> QED BY <2>1, <2>2, <2>4, <3>1
  <2>5. CASE k \notin refused /\ ~\E j \in 1..n : rows[j] = k
    <3>1. /\ ~\E j \in refused : list[j] = list[k]
          /\ ~\E j \in 1..n : list[rows[j]] = list[k]
      BY <1>9, <2>5
    <3> QED BY <2>1, <2>2, <2>5, <3>1
  <2> QED BY <2>3, <2>4, <2>5
<1>11. \A p \in 1..Len(sent) :
         /\ v[p] \in {"accepted", "retry", "dead", "duplicate"}
         /\ v[p] = "duplicate" <=> p \notin Kept(sent)
  <2> SUFFICES ASSUME NEW p \in 1..Len(sent)
               PROVE  /\ v[p] \in {"accepted", "retry", "dead", "duplicate"}
                      /\ v[p] = "duplicate" <=> p \notin Kept(sent)
    OBVIOUS
  <2>1. CASE p \notin Kept(sent)
    <3>1. ~(\E k \in refused : list[k] = p) /\ ~\E j \in 1..n : list[rows[j]] = p
      <4>1. \A j \in refused : j \in 1..Len(list)
        BY <1>1, <1>6
      <4>2. \A j \in 1..n : j \in 1..Len(rows) /\ rows[j] \in 1..Len(list)
        BY <1>1, <1>4
      <4> QED BY <2>1, <1>3, <4>1, <4>2
    <3> QED BY <1>7, <2>1, <3>1
  <2>2. CASE p \in Kept(sent)
    <3>1. PICK k \in 1..Len(list) : list[k] = p
      BY <2>2, <1>1 DEF InPlace
    <3>2. v[list[k]] \in {"accepted", "retry", "dead"}
      BY <3>1, <1>10
    <3>3. v[p] \in {"accepted", "retry", "dead"}
      BY <3>1, <3>2
    <3> QED BY <2>2, <3>3
  <2> QED BY <2>1, <2>2
<1>12. ASSUME NEW k \in 1..Len(list)
       PROVE  (k \notin refused /\ ~\E j \in 1..n : rows[j] = k)
                 <=> k > keep \/ \E j \in (n + 1)..Len(rows) : rows[j] = k
  <2>1. k \in refused <=> k <= keep /\ Invalid(sent, list, k)
    BY <1>1 DEF refused, RefusedIndices
  <2>2. \A j \in 1..Len(rows) : j \in 1..n <=> ~(j \in (n + 1)..Len(rows))
    BY <1>1
  <2>3. \A j \in 1..n : j \in 1..Len(rows)
    BY <1>1
  <2>4. \A j \in (n + 1)..Len(rows) : j \in 1..Len(rows)
    BY <1>1
  <2> QED BY <2>1, <2>2, <2>3, <2>4, <1>1, <1>4
<1>13. ASSUME NEW k \in 1..Len(list)
       PROVE  /\ v[list[k]] = "dead" <=> k \in refused
              /\ v[list[k]] = "accepted" <=> \E j \in 1..n : rows[j] = k
              /\ v[list[k]] = "retry" <=> \E i \in 1..Len(shedIndices) : shedIndices[i] = k
  BY <1>5, <1>9, <1>10, <1>12
<1>14. v \in [1..Len(sent) -> {"accepted", "retry", "dead", "duplicate"}]
  BY <1>8, <1>11
<1>15. JudgedSo(v, sent, list, keep, rows, n)
  BY <1>11, <1>13, <1>14 DEF JudgedSo, refused, shedIndices
<1> QED BY <1>15 DEF v

\* An attempt's answer, read by the client, is the truth about the attempt.
LEMMA AnswersTruthfully ==
    ASSUME NEW sent, NEW list, NEW keep, NEW rows, NEW n, Tried(sent, list, keep, rows, n),
           NEW ack \in Answers(sent, list, keep, rows, n)
    PROVE  ack \in TruthfulAcks(Judgement(sent, list, keep, rows, n))
<1> DEFINE v == Judgement(sent, list, keep, rows, n)
           L == Len(sent)
           ix == ShedIndices(list, keep, rows, n)
           M == Len(ix)
           names == Names(sent, list, ix)
           refused == RefusedIndices(sent, list, keep)
           item(k) == ItemId(sent[list[k]], k - 1)
           bad == {item(k) : k \in refused}
<1>1. /\ L \in Nat /\ Len(list) \in 0..L /\ keep \in 0..Len(list)
      /\ Len(rows) \in 0..keep /\ n \in 0..Len(rows)
      /\ Kept(sent) \subseteq 1..L /\ InPlace(list, Kept(sent), L)
      /\ InPlace(rows, Rows(sent, list, keep), keep)
  BY TriedInPlace
<1>2. JudgedSo(v, sent, list, keep, rows, n)
  BY JudgedAs
<1>3. Shedding(ix, list, keep, rows, n)
  BY ShedInPlace
<1>4. \A k \in 1..Len(list) : /\ Positions(sent, item(k)) = {list[k]}
                               /\ Place(sent, item(k)) = list[k]
  <2>1. sent \in Seq(Span) /\ list \in Listings(Kept(sent))
    BY DEF Tried
  <2> QED BY <2>1, PlacedRight
<1>5. refused \subseteq 1..Len(list)
  BY <1>1 DEF RefusedIndices
<1>6. DOMAIN names = 1..M /\ Len(names) = M /\ \A j \in 1..M : names[j] = item(ix[j])
  BY <1>3 DEF Shedding, Names
<1> HIDE DEF v, ix, names, refused, item
<1>7. /\ M \in Nat /\ M <= Len(list) /\ M <= L
      /\ \A j \in 1..M : ix[j] \in 1..Len(list)
  BY <1>1, <1>3 DEF Shedding
<1>8. {j \in DOMAIN names : Positions(sent, names[j]) # {}} = 1..M
  <2>1. \A j \in 1..M : Positions(sent, names[j]) # {}
    BY <1>4, <1>6, <1>7
  <2> QED BY <2>1, <1>6
<1>9. {i \in bad : Positions(sent, i) # {}} = bad
  BY <1>4, <1>5
<1> HIDE DEF bad
<1>10. PICK o \in Listings(1..M) :
         ack = [accepted |-> n,
                retry |-> [j \in DOMAIN o |-> Place(sent, names[o[j]])],
                dead |-> {Place(sent, i) : i \in bad},
                unplacedRetry |-> M - Len(o),
                unplacedDead |-> Cardinality(bad \ bad),
                unknown |-> 0,
                hint |-> 0]
  <2>1. ack \in PlacedAcks(sent, n, names, bad)
    BY DEF Answers, names, bad, ix, refused, item
  <2> QED BY <2>1, <1>6, <1>8, <1>9 DEF PlacedAcks
<1>11. InPlace(o, 1..M, M) /\ Len(o) = M
  <2>1. InPlace(o, 1..M, M)
    BY <1>7, Listed
  <2>2. Cardinality(1..M) = M
    <3>1. 1 \in Int /\ M \in Int
      BY <1>7
    <3>2. Cardinality(1..M) = IF 1 > M THEN 0 ELSE M - 1 + 1
      BY <3>1, FS_Interval
    <3> QED BY <3>2, <1>7
  <2> QED BY <2>1, <2>2 DEF InPlace
<1> DEFINE again == [j \in DOMAIN o |-> Place(sent, names[o[j]])]
           spot(j) == list[ix[o[j]]]
<1>12. /\ DOMAIN o = 1..M
       /\ \A j \in 1..M : o[j] \in 1..M
       /\ \A k \in 1..M : \E j \in 1..M : o[j] = k
       /\ \A j, k \in 1..M : o[j] = o[k] => j = k
  BY <1>11 DEF InPlace
<1>13. /\ DOMAIN again = 1..M
       /\ \A j \in 1..M : again[j] = spot(j) /\ spot(j) \in 1..L
  <2>1. DOMAIN again = 1..M
    BY <1>12
  <2>2. ASSUME NEW j \in 1..M PROVE again[j] = spot(j) /\ spot(j) \in 1..L
    <3>1. o[j] \in 1..M /\ ix[o[j]] \in 1..Len(list) /\ names[o[j]] = item(ix[o[j]])
      BY <1>6, <1>7, <1>12
    <3>2. Place(sent, item(ix[o[j]])) = list[ix[o[j]]]
      BY <3>1, <1>4
    <3>3. list[ix[o[j]]] \in 1..L
      BY <3>1, <1>1 DEF InPlace
    <3> QED BY <3>1, <3>2, <3>3, <1>12
  <2> QED BY <2>1, <2>2
<1>14. \A j, k \in 1..M : spot(j) = spot(k) => j = k
  <2> SUFFICES ASSUME NEW j \in 1..M, NEW k \in 1..M, spot(j) = spot(k) PROVE j = k
    OBVIOUS
  <2>1. ix[o[j]] = ix[o[k]]
    <3>1. ix[o[j]] \in 1..Len(list) /\ ix[o[k]] \in 1..Len(list)
      BY <1>7, <1>12
    <3>2. \A x, y \in 1..Len(list) : list[x] = list[y] => x = y
      BY <1>1 DEF InPlace
    <3> QED BY <3>1, <3>2
  <2>2. o[j] = o[k]
    BY <2>1, <1>3, <1>12, SMTT(30) DEF Shedding
  <2> QED BY <2>2, <1>12
<1>15. {spot(j) : j \in 1..M} = {p \in DOMAIN v : v[p] = "retry"}
  <2>1. ASSUME NEW j \in 1..M PROVE spot(j) \in DOMAIN v /\ v[spot(j)] = "retry"
    <3>1. ix[o[j]] \in 1..Len(list) /\ o[j] \in 1..M
      BY <1>7, <1>12
    <3> QED BY <3>1, <1>2, <1>13 DEF JudgedSo, ix
  <2>2. ASSUME NEW p \in DOMAIN v, v[p] = "retry" PROVE \E j \in 1..M : spot(j) = p
    <3>1. p \in 1..L /\ p \in Kept(sent)
      BY <1>2, <2>2 DEF JudgedSo
    <3>2. PICK k \in 1..Len(list) : list[k] = p
      BY <3>1, <1>1 DEF InPlace
    <3>3. PICK i \in 1..M : ix[i] = k
      BY <3>2, <2>2, <1>2 DEF JudgedSo, ix
    <3>4. PICK j \in 1..M : o[j] = i
      BY <1>12
    <3> QED BY <3>2, <3>3, <3>4
  <2> QED BY <2>1, <2>2
<1>16. Len(v) = L /\ DOMAIN v = 1..L
  BY <1>1, <1>2 DEF JudgedSo
<1> HIDE DEF spot, again
<1>17. again \in {q \in Orders(Len(v)) : Range(q) = {p \in DOMAIN v : v[p] = "retry"}}
  <2>1. again \in [1..M -> 1..L]
    <3>1. again = [j \in 1..M |-> again[j]]
      BY <1>12 DEF again
    <3> QED BY <3>1, <1>13
  <2>2. IsInjective(again)
    BY <1>13, <1>14 DEF IsInjective
  <2>3. M \in 0..L
    BY <1>1, <1>7
  <2>4. again \in Orders(L)
    BY <2>1, <2>2, <2>3 DEF Orders
  <2>5. Range(again) = {spot(j) : j \in 1..M}
    BY <1>13 DEF Range
  <2> QED BY <2>4, <2>5, <1>15, <1>16
<1>18. n = Count(v, {"accepted", "unknownFlag"})
  <2> DEFINE T == {i \in DOMAIN v : v[i] \in {"accepted", "unknownFlag"}}
  <2>1. /\ n \in Nat /\ \A j \in 1..n : j \in 1..Len(rows) /\ rows[j] \in 1..Len(list)
        /\ \A i, j \in 1..Len(rows) : rows[i] = rows[j] => i = j
        /\ \A i, j \in 1..Len(list) : list[i] = list[j] => i = j
        /\ \A k \in 1..Len(list) : list[k] \in 1..L /\ list[k] \in Kept(sent)
        /\ \A p \in Kept(sent) : \E k \in 1..Len(list) : list[k] = p
    <3>1. /\ \A k \in 1..Len(list) : list[k] \in 1..L /\ list[k] \in Kept(sent)
          /\ \A p \in Kept(sent) : \E k \in 1..Len(list) : list[k] = p
          /\ \A i, j \in 1..Len(list) : list[i] = list[j] => i = j
      BY <1>1 DEF InPlace
    <3>2. /\ \A j \in 1..Len(rows) : rows[j] \in 1..keep
          /\ \A i, j \in 1..Len(rows) : rows[i] = rows[j] => i = j
      BY <1>1 DEF InPlace
    <3>3. n \in Nat /\ \A j \in 1..n : j \in 1..Len(rows)
      BY <1>1
    <3>4. \A k \in 1..keep : k \in 1..Len(list)
      BY <1>1
    <3> QED BY <3>1, <3>2, <3>3, <3>4
  <2>2. T = {[k \in 1..n |-> list[rows[k]]][j] : j \in 1..n}
    <3>1. ASSUME NEW p \in T PROVE \E j \in 1..n : list[rows[j]] = p
      <4>1. p \in 1..L /\ v[p] = "accepted"
        BY <3>1, <1>2, <1>16 DEF JudgedSo
      <4>2. p \in Kept(sent)
        BY <4>1, <1>2 DEF JudgedSo
      <4>3. PICK k \in 1..Len(list) : list[k] = p
        BY <4>2, <2>1
      <4>4. \E j \in 1..n : rows[j] = k
        BY <4>1, <4>3, <1>2 DEF JudgedSo
      <4> QED BY <4>3, <4>4
    <3>2. ASSUME NEW j \in 1..n PROVE list[rows[j]] \in T
      <4>1. rows[j] \in 1..Len(list) /\ list[rows[j]] \in 1..L
        BY <2>1
      <4>2. v[list[rows[j]]] = "accepted"
        BY <4>1, <1>2 DEF JudgedSo
      <4> QED BY <4>1, <4>2, <1>16
    <3> QED BY <3>1, <3>2
  <2>3. \A i, j \in 1..n : [k \in 1..n |-> list[rows[k]]][i] = [k \in 1..n |-> list[rows[k]]][j]
                              => i = j
    BY <2>1
  <2> HIDE DEF T
  <2>4. Cardinality(T) = n
    BY <2>1, <2>2, <2>3, ImageCounted
  <2> QED BY <2>4 DEF Count, T
<1>19. {Place(sent, i) : i \in bad} = {i \in DOMAIN v : v[i] = "dead"}
  <2>1. {Place(sent, i) : i \in bad} = {list[k] : k \in refused}
    BY <1>4, <1>5 DEF bad
  <2>2. ASSUME NEW k \in refused PROVE list[k] \in DOMAIN v /\ v[list[k]] = "dead"
    <3>1. k \in 1..Len(list) /\ list[k] \in 1..L
      BY <1>1, <1>5 DEF InPlace
    <3> QED BY <3>1, <1>2, <1>16 DEF JudgedSo, refused
  <2>3. ASSUME NEW p \in DOMAIN v, v[p] = "dead" PROVE \E k \in refused : list[k] = p
    <3>1. p \in 1..L /\ p \in Kept(sent)
      BY <1>2, <1>16, <2>3 DEF JudgedSo
    <3>2. PICK k \in 1..Len(list) : list[k] = p
      BY <3>1, <1>1 DEF InPlace
    <3> QED BY <3>2, <2>3, <1>2 DEF JudgedSo, refused
  <2>4. {list[k] : k \in refused} = {i \in DOMAIN v : v[i] = "dead"}
    BY <2>2, <2>3
  <2> QED BY <2>1, <2>4
<1>20. /\ Count(v, {"unplacedRetry"}) = 0 /\ Count(v, {"unplacedDead"}) = 0
       /\ Count(v, {"unknownFlag", "unknownRefusal"}) = 0
       /\ M - Len(o) = 0 /\ Cardinality(bad \ bad) = 0
  <2>1. /\ {i \in DOMAIN v : v[i] \in {"unplacedRetry"}} = {}
        /\ {i \in DOMAIN v : v[i] \in {"unplacedDead"}} = {}
        /\ {i \in DOMAIN v : v[i] \in {"unknownFlag", "unknownRefusal"}} = {}
    BY <1>2, <1>16 DEF JudgedSo
  <2>2. bad \ bad = {} /\ M - Len(o) = 0
    BY <1>7, <1>11
  <2> QED BY <2>1, <2>2, FS_EmptySet DEF Count
<1>21. ack = [accepted |-> n, retry |-> again, dead |-> {Place(sent, i) : i \in bad},
              unplacedRetry |-> 0, unplacedDead |-> 0, unknown |-> 0, hint |-> 0]
  BY <1>10, <1>20 DEF again
<1>22. ack \in TruthfulAcks(v)
  BY <1>17, <1>18, <1>19, <1>20, <1>21, PipelineAssumption DEF TruthfulAcks
<1> QED BY <1>22 DEF v
-----------------------------------------------------------------------------
(* The handler is the honest gateway.                                      *)

\* While the client holds the batch an attempt is on, the batch is the pinned one
\* and has no receipt; an attempt that has decided knows what it will record.
HandlerInv ==
    /\ handler = [stage |-> handler.stage, spans |-> handler.spans,
                  heard |-> handler.heard, late |-> handler.late,
                  answer |-> handler.answer, verdict |-> handler.verdict,
                  ack |-> handler.ack, taken |-> handler.taken]
    /\ handler.stage \in {"idle", "claimed", "decided"}
    /\ handler.late \in BOOLEAN
    /\ handler.stage # "idle" => handler.spans \in Seq(Span)
    /\ handler.stage # "idle" /\ ~handler.late =>
           /\ pending.encoded
           /\ handler.spans = pending.spans
           /\ receipt = NoReceipt
    /\ handler.stage = "decided" =>
           /\ handler.verdict \in [1..Len(handler.spans) -> Verdicts]
           /\ handler.ack \in Acks(handler.verdict)

LEMMA IdleHandler == ASSUME handler = NoHandler PROVE HandlerInv
BY DEF NoHandler, HandlerInv

\* The steps that leave the attempt alone, and the batch it is on.
LEMMA SameBatch ==
    ASSUME HandlerInv, handler' = handler,
           pending.encoded => /\ pending'.encoded /\ pending'.spans = pending.spans
                              /\ receipt' = receipt
    PROVE  HandlerInv'
BY DEF HandlerInv

LEMMA ClientHandler ==
    ASSUME HeldInv, HandlerInv, ClientMoves \/ Sends PROVE HandlerInv'
<1>1. handler' = handler
  BY DEF ClientMoves, Sends, gatewayVars
<1>2. CASE Export \/ Start \/ Stop \/ DaemonWinds
  BY <1>1, <1>2, SameBatch DEF Export, Start, Stop, DaemonWinds
<1>3. ASSUME NEW t \in Flushers, TakeBatch(t) PROVE HandlerInv'
  <2>1. receipt' = receipt /\ (pending' = pending \/ pending = NoBatch)
    BY <1>3 DEF TakeBatch
  <2>2. pending = NoBatch => ~pending.encoded
    BY DEF NoBatch
  <2> QED BY <2>1, <2>2, <1>1, SameBatch
<1>4. ASSUME NEW t \in Flushers, EncodeRaises(t) PROVE HandlerInv'
  BY <1>1, <1>4, SameBatch DEF EncodeRaises, StaysPinned
<1>5. ASSUME NEW t \in Flushers, Encode(t) PROVE HandlerInv'
  <2>1. /\ receipt' = receipt
        /\ pending' = pending \/ pending' = [pending EXCEPT !.encoded = TRUE]
    BY <1>5 DEF Encode
  <2>2. pending \in [spans : Seq(Span), encoded : BOOLEAN, attempts : Nat]
    BY DEF HeldInv, TypeOK
  <2>3. pending'.spans = pending.spans /\ (pending.encoded => pending'.encoded)
    BY <2>1, <2>2
  <2> QED BY <2>1, <2>3, <1>1, SameBatch
<1> QED BY <1>2, <1>3, <1>4, <1>5 DEF ClientMoves, Sends

LEMMA SettlesHandler ==
    ASSUME HeldInv, HandlerInv, Settles PROVE HandlerInv'
<1>1. PICK t \in Flushers :
        \/ SettleRetryable(t) \/ SettleRefused(t) \/ SettleUnreadable(t)
        \/ SettleTruncated(t) \/ SettleDistrusted(t) \/ SettleRequeue(t)
        \/ SettleClear(t)
  BY DEF Settles
<1>2. \/ pending' = NoBatch
      \/ /\ pending'.encoded /\ pending'.spans = pending.spans
         /\ receipt' = receipt
  <2>1. CASE SettleRetryable(t)
    <3>1. flight[t] = pending /\ pending.encoded
      BY <2>1 DEF SettleRetryable, HeldInv, OneFlight
    <3>2. pending \in [spans : Seq(Span), encoded : BOOLEAN, attempts : Nat]
      BY DEF HeldInv, TypeOK
    <3>3. \/ pending' = NoBatch
          \/ receipt' = receipt /\ pending' = [pending EXCEPT !.attempts = pending.attempts + 1]
      BY <2>1, <3>1 DEF SettleRetryable, ShedBatch, Unpin, Repin
    <3> QED BY <3>1, <3>2, <3>3
  <2> QED BY <1>1, <2>1 DEF SettleRefused, SettleUnreadable, SettleTruncated,
        SettleDistrusted, SettleRequeue, SettleClear, ShedBatch, Unpin
<1>3. CASE handler.stage = "idle"
  <2>1. handler' = handler
    BY <1>3 DEF Settles
  <2> QED BY <2>1, <1>3 DEF HandlerInv
<1>4. CASE handler.stage # "idle"
  <2>1. handler' = [handler EXCEPT !.heard = FALSE, !.late = @ \/ pending' = NoBatch]
    BY <1>4 DEF Settles
  <2>2. handler' = [stage |-> handler.stage, spans |-> handler.spans,
                    heard |-> FALSE, late |-> handler.late \/ pending' = NoBatch,
                    answer |-> handler.answer, verdict |-> handler.verdict,
                    ack |-> handler.ack, taken |-> handler.taken]
    BY <2>1 DEF HandlerInv
  <2>3. ~handler'.late => ~handler.late /\ pending' # NoBatch
    BY <2>2
  <2> QED BY <2>2, <2>3, <1>2, <1>4 DEF HandlerInv
<1> QED BY <1>3, <1>4

\* The arguments of Attempt's arms are an attempt on the batch.
LEMMA AttemptTries ==
    ASSUME HandlerInv, Attempt
    PROVE  \E list, keep, rows :
              /\ \A n \in 0..Len(rows) : Tried(handler.spans, list, keep, rows, n)
              /\ Len(rows) \in Nat
              /\ \/ RejectAll(list, keep, rows) \/ InsertSpans(list, keep, rows)
                 \/ ProduceRows(list, keep, rows) \/ WriteFails(list, keep, rows)
<1>1. handler.spans \in Seq(Span)
  BY DEF Attempt, HandlerInv
<1>2. PICK list \in Listings(Kept(handler.spans)) :
        \E keep \in Keeps(list) :
          \E rows \in Listings(Rows(handler.spans, list, keep)) :
             \/ RejectAll(list, keep, rows) \/ InsertSpans(list, keep, rows)
             \/ ProduceRows(list, keep, rows) \/ WriteFails(list, keep, rows)
  BY DEF Attempt
<1>3. PICK keep \in Keeps(list) :
        \E rows \in Listings(Rows(handler.spans, list, keep)) :
           \/ RejectAll(list, keep, rows) \/ InsertSpans(list, keep, rows)
           \/ ProduceRows(list, keep, rows) \/ WriteFails(list, keep, rows)
  BY <1>2
<1>4. PICK rows \in Listings(Rows(handler.spans, list, keep)) :
        \/ RejectAll(list, keep, rows) \/ InsertSpans(list, keep, rows)
        \/ ProduceRows(list, keep, rows) \/ WriteFails(list, keep, rows)
  BY <1>3
<1>5. Len(rows) \in Nat
  <2>1. rows \in [1..Cardinality(Rows(handler.spans, list, keep)) ->
                  Rows(handler.spans, list, keep)]
    BY DEF Listings
  <2>2. Kept(handler.spans) \subseteq 1..Len(handler.spans) /\ Len(handler.spans) \in Nat
    BY <1>1, KeptPositions
  <2>3. Len(list) \in 0..Len(handler.spans)
    BY <1>1, KeptListed DEF InPlace
  <2>4. keep \in Nat
    BY <2>2, <2>3, PipelineAssumption DEF Keeps, LesserOf
  <2>5. Rows(handler.spans, list, keep) \subseteq 1..keep
    BY DEF Rows
  <2>6. Cardinality(Rows(handler.spans, list, keep)) \in Nat
    BY <2>4, <2>5, PositionsCounted
  <2> QED BY <2>1, <2>6
<1>6. \A n \in 0..Len(rows) : Tried(handler.spans, list, keep, rows, n)
  BY <1>1 DEF Tried
<1> QED BY <1>4, <1>5, <1>6

\* Every arm of Attempt decides, or gives the attempt up.
LEMMA AttemptDecides ==
    ASSUME HandlerInv, Attempt
    PROVE  \/ handler' = NoHandler
           \/ \E list, keep, rows, n :
                 /\ Tried(handler.spans, list, keep, rows, n)
                 /\ Decides(list, keep, rows, n)
<1>1. PICK list, keep, rows :
        /\ \A n \in 0..Len(rows) : Tried(handler.spans, list, keep, rows, n)
        /\ Len(rows) \in Nat
        /\ \/ RejectAll(list, keep, rows) \/ InsertSpans(list, keep, rows)
           \/ ProduceRows(list, keep, rows) \/ WriteFails(list, keep, rows)
  BY AttemptTries
<1>2. CASE RejectAll(list, keep, rows)
  <2>1. 0 \in 0..Len(rows) /\ Decides(list, keep, rows, 0)
    BY <1>1, <1>2 DEF RejectAll
  <2> QED BY <2>1, <1>1
<1>3. CASE InsertSpans(list, keep, rows)
  <2>1. Len(rows) \in 0..Len(rows) /\ Decides(list, keep, rows, Len(rows))
    BY <1>1, <1>3 DEF InsertSpans
  <2> QED BY <2>1, <1>1
<1>4. CASE ProduceRows(list, keep, rows)
  <2>1. PICK room \in 0..(Capacity - Len(queue)) :
          Decides(list, keep, rows, LesserOf(Len(rows), room))
    BY <1>4 DEF ProduceRows
  <2>2. LesserOf(Len(rows), room) \in 0..Len(rows)
    BY <1>1, <2>1 DEF LesserOf
  <2> QED BY <2>1, <2>2, <1>1
<1>5. CASE WriteFails(list, keep, rows)
  BY <1>5 DEF WriteFails
<1> QED BY <1>1, <1>2, <1>3, <1>4, <1>5

LEMMA AttemptHandler ==
    ASSUME HandlerInv, Attempt PROVE HandlerInv'
<1>1. UNCHANGED vars /\ handler.stage = "claimed"
  BY DEF Attempt
<1>2. CASE handler' = NoHandler
  BY <1>2 DEF NoHandler, HandlerInv
<1>3. ASSUME NEW list, NEW keep, NEW rows, NEW n,
             Tried(handler.spans, list, keep, rows, n), Decides(list, keep, rows, n)
      PROVE  HandlerInv'
  <2> DEFINE v == Judgement(handler.spans, list, keep, rows, n)
  <2>1. PICK ack \in Answers(handler.spans, list, keep, rows, n) :
          handler' = [handler EXCEPT
            !.stage = "decided",
            !.answer = IF rows = <<>> THEN "unprocessable" ELSE "ok",
            !.verdict = v,
            !.ack = ack,
            !.taken = SpansOf(handler.spans, list, rows, n)]
    BY <1>3 DEF Decides
  <2>2. ack \in Acks(v)
    BY <1>3, AnswersTruthfully, PipelineAssumption DEF Acks
  <2>3. v \in [1..Len(handler.spans) -> Verdicts]
    <3>1. v \in [1..Len(handler.spans) -> {"accepted", "retry", "dead", "duplicate"}]
      BY <1>3, JudgedAs DEF JudgedSo
    <3> QED BY <3>1, PipelineAssumption
  <2> HIDE DEF v
  <2>4. /\ handler'.stage = "decided" /\ handler'.spans = handler.spans
        /\ handler'.late = handler.late /\ handler'.verdict = v /\ handler'.ack = ack
        /\ handler' = [stage |-> handler'.stage, spans |-> handler'.spans,
                       heard |-> handler'.heard, late |-> handler'.late,
                       answer |-> handler'.answer, verdict |-> handler'.verdict,
                       ack |-> handler'.ack, taken |-> handler'.taken]
    BY <2>1 DEF HandlerInv
  <2> QED BY <2>2, <2>3, <2>4, <1>1 DEF HandlerInv, vars
<1> QED BY <1>2, <1>3, AttemptDecides

LEMMA GatewayHandler ==
    ASSUME HeldInv, HandlerInv, Replay \/ Claim \/ Record \/ Drain \/ Crash PROVE HandlerInv'
<1>1. CASE Replay \/ Drain
  <2>1. handler' = handler /\ UNCHANGED vars
    BY <1>1 DEF Replay, Drain
  <2> QED BY <2>1, SameBatch DEF vars
<1>2. CASE Record \/ Crash
  <2>1. handler' = NoHandler
    BY <1>2 DEF Record, Crash
  <2> QED BY <2>1 DEF NoHandler, HandlerInv
<1>3. CASE Claim
  <2>1. pending.spans \in Seq(Span)
    BY DEF HeldInv, TypeOK
  <2>2. handler' = [NoHandler EXCEPT !.stage = "claimed", !.spans = pending.spans,
                                    !.heard = SendInFlight /\ reply = "none"]
    BY <1>3 DEF Claim
  <2> DEFINE heard == SendInFlight /\ reply = "none"
  <2>3. handler' = [stage |-> "claimed", spans |-> pending.spans, heard |-> heard,
                    late |-> FALSE, answer |-> "none", verdict |-> <<>>, ack |-> NoAck,
                    taken |-> {}]
    BY <2>2 DEF NoHandler
  <2>4. pending.encoded /\ receipt = NoReceipt /\ UNCHANGED <<pending, receipt>>
    BY <1>3 DEF Claim, vars
  <2> HIDE DEF heard
  <2> QED BY <2>1, <2>3, <2>4 DEF HandlerInv
<1> QED BY <1>1, <1>2, <1>3

\* Every step of the pipeline is a step of the transport in front of an honest
\* gateway, or none of its business: the receipt is the only thing it decides.
LEMMA PipelineStep ==
    ASSUME HandlerInv, [NextPipeline]_allVars PROVE [Next]_vars
<1>1. CASE UNCHANGED allVars
  BY <1>1 DEF allVars
<1>2. CASE ClientMoves \/ Sends \/ Settles
  BY <1>2 DEF ClientMoves, Sends, Settles, Next, Flush, Settle
<1>3. CASE Replay \/ Claim \/ Attempt \/ Drain \/ Crash
  BY <1>3 DEF Replay, Claim, Attempt, Drain, Crash
<1>4. CASE Record /\ handler.late
  BY <1>4 DEF Record, codeVars, vars
<1>5. CASE Record /\ ~handler.late
  <2>1. /\ pending.encoded /\ handler.spans = pending.spans /\ receipt = NoReceipt
        /\ handler.verdict \in [1..Len(pending.spans) -> Verdicts]
        /\ handler.ack \in Acks(handler.verdict)
    BY <1>5 DEF Record, HandlerInv
  <2>2. pending # NoBatch
    BY <2>1 DEF NoBatch
  <2>3. /\ receipt' = [verdict |-> handler.verdict, ack |-> handler.ack]
        /\ landed' = landed \cup
             {pending.spans[i] : i \in {j \in DOMAIN handler.verdict :
                                          Written(handler.verdict[j])}}
        /\ UNCHANGED codeVars /\ UNCHANGED fate
    BY <1>5, <2>1 DEF Record
  <2>4. GatewayDecides
    BY <2>1, <2>2, <2>3 DEF GatewayDecides
  <2> QED BY <2>4 DEF Next
<1> QED BY <1>1, <1>2, <1>3, <1>4, <1>5 DEF NextPipeline

LEMMA HandlerStep ==
    ASSUME HeldInv, HandlerInv, [NextPipeline]_allVars PROVE HandlerInv'
<1>1. CASE UNCHANGED allVars
  BY <1>1, SameBatch DEF allVars, vars, gatewayVars
<1> QED BY <1>1, ClientHandler, SettlesHandler, AttemptHandler, GatewayHandler
        DEF NextPipeline

\* CTO-405, CTO-407: for every application, batch, room in the buffer and fault,
\* the handler of app.py and the client's own numbering together are the honest
\* gateway of SdkTransport, so what is proved of that transport holds here.
THEOREM PipelineImplementsHonestTransport == Pipeline => ImplementsHonestTransport
<1>1. InitPipeline => Init /\ HeldInv /\ HandlerInv
  <2>1. InitPipeline => Init /\ handler = NoHandler
    BY DEF InitPipeline
  <2> QED BY <2>1, HeldInvInit, IdleHandler
<1>2. HeldInv /\ HandlerInv /\ [NextPipeline]_allVars
        => [Next]_vars /\ HeldInv' /\ HandlerInv'
  BY PipelineStep, HandlerStep, HeldInvStep
<1> QED BY <1>1, <1>2, PTL DEF Pipeline, ImplementsHonestTransport, Spec

\* #311 end to end: no span that a receipt calls written goes back to the buffer.
THEOREM PipelineNeverSendsTwice == Pipeline => []NoDoubleSend
<1>1. Honest
  BY PipelineAssumption
<1>2. Spec => []NoDoubleSend
  BY <1>1, NoDoubleSendHolds
<1> QED BY <1>2, PipelineImplementsHonestTransport, PTL DEF ImplementsHonestTransport

\* CTO-391, CTO-406 end to end: with the handler of app.py at the other end the
\* counters of shed_counts() are what became of the spans, and none is lost silently.
THEOREM PipelineCountsTheTruth == Pipeline => [](CountersTellTheTruth /\ NoSilentLoss)
<1>1. Honest
  BY PipelineAssumption
<1>2. Spec => []CountersTellTheTruth
  BY <1>1, CountersTellTheTruthHolds
<1>3. Spec => []NoSilentLoss
  BY <1>1, NoSilentLossHolds
<1> QED BY <1>2, <1>3, PipelineImplementsHonestTransport, PTL DEF ImplementsHonestTransport

-----------------------------------------------------------------------------
(* What an attempt hands to the store or the buffer.                       *)

\* An attempt hands on spans of its batch, and says "accepted" of exactly these.
LEMMA TakenAreAccepted ==
    ASSUME NEW sent, NEW list, NEW keep, NEW rows, NEW n, Tried(sent, list, keep, rows, n)
    PROVE  LET v == Judgement(sent, list, keep, rows, n)
               S == SpansOf(sent, list, rows, n)
           IN  /\ S \subseteq Range(sent) /\ S \subseteq Span
               /\ S \subseteq {sent[i] : i \in {j \in DOMAIN v : v[j] = "accepted"}}
               /\ \A i \in 1..Len(sent) : v[i] = "accepted" => sent[i] \in S
<1> DEFINE v == Judgement(sent, list, keep, rows, n)
           S == SpansOf(sent, list, rows, n)
<1>1. /\ Len(list) \in 0..Len(sent) /\ Len(sent) \in Nat /\ keep \in 0..Len(list)
      /\ Len(rows) \in 0..keep /\ n \in 0..Len(rows)
      /\ InPlace(list, Kept(sent), Len(sent))
      /\ InPlace(rows, Rows(sent, list, keep), keep)
  BY TriedInPlace
<1>2. sent \in Seq(Span) /\ DOMAIN sent = 1..Len(sent)
  BY DEF Tried
<1>3. JudgedSo(v, sent, list, keep, rows, n)
  BY JudgedAs
<1>4. S = {sent[list[rows[j]]] : j \in 1..n}
  BY DEF SpansOf
<1> HIDE DEF v, S
<1>5. \A j \in 1..n : rows[j] \in 1..Len(list) /\ list[rows[j]] \in 1..Len(sent)
  <2> SUFFICES ASSUME NEW j \in 1..n
               PROVE  rows[j] \in 1..Len(list) /\ list[rows[j]] \in 1..Len(sent)
    OBVIOUS
  <2>1. j \in 1..Len(rows)
    BY <1>1
  <2>2. rows[j] \in 1..keep
    BY <2>1, <1>1 DEF InPlace
  <2>3. rows[j] \in 1..Len(list)
    BY <2>2, <1>1
  <2> QED BY <2>3, <1>1 DEF InPlace
<1>6. \A j \in 1..n : v[list[rows[j]]] = "accepted"
  BY <1>3, <1>5 DEF JudgedSo
<1>7. DOMAIN v = 1..Len(sent)
  BY <1>3 DEF JudgedSo
<1>8. S \subseteq Range(sent) /\ S \subseteq Span
  BY <1>2, <1>4, <1>5 DEF Range
<1>9. S \subseteq {sent[i] : i \in {j \in DOMAIN v : v[j] = "accepted"}}
  BY <1>4, <1>5, <1>6, <1>7
<1>10. ASSUME NEW i \in 1..Len(sent), v[i] = "accepted" PROVE sent[i] \in S
  <2>1. i \in Kept(sent)
    BY <1>3, <1>10 DEF JudgedSo
  <2>2. PICK k \in 1..Len(list) : list[k] = i
    BY <2>1, <1>1 DEF InPlace
  <2>3. PICK j \in 1..n : rows[j] = k
    BY <2>2, <1>3, <1>10 DEF JudgedSo
  <2> QED BY <2>2, <2>3, <1>4
<1> QED BY <1>8, <1>9, <1>10 DEF v, S

\* A span is called a duplicate when the batch holds another of the same ids.
LEMMA DuplicateOfAnother ==
    ASSUME NEW sent, NEW list, NEW keep, NEW rows, NEW n, Tried(sent, list, keep, rows, n),
           IsInjective(sent), NEW i \in 1..Len(sent),
           Judgement(sent, list, keep, rows, n)[i] = "duplicate"
    PROVE  \E r \in Span \ {sent[i]} : SameIds(r, sent[i])
<1>1. sent \in Seq(Span) /\ DOMAIN sent = 1..Len(sent) /\ Len(sent) \in Nat
  BY DEF Tried
<1>2. i \notin Kept(sent)
  BY JudgedAs DEF JudgedSo
<1>3. PICK q \in 1..(i - 1) : SameIds(sent[q], sent[i])
  BY <1>1, <1>2 DEF Kept
<1>4. q \in DOMAIN sent /\ q # i
  BY <1>1, <1>3
<1>5. sent[q] # sent[i] /\ sent[q] \in Span
  BY <1>1, <1>4 DEF IsInjective
<1> QED BY <1>3, <1>5

\* CTO-402: the row of a span is found by the span's ids, or by its index in a
\* batch no longer than max_batch_size.
LEMMA TakenHaveRows ==
    ASSUME NEW sent, NEW list, NEW keep, NEW rows, NEW n, Tried(sent, list, keep, rows, n),
           Len(sent) <= MaxBatch, NEW s \in SpansOf(sent, list, rows, n),
           NEW Q, Range(RowsOf(sent, list, rows, n)) \subseteq Q
    PROVE  HasRow(s, Q)
<1>1. PICK j \in 1..n : s = sent[list[rows[j]]]
  BY DEF SpansOf
<1>2. /\ Len(list) \in 0..Len(sent) /\ Len(sent) \in Nat /\ keep \in 0..Len(list)
      /\ Len(rows) \in 0..keep /\ n \in 0..Len(rows)
      /\ InPlace(rows, Rows(sent, list, keep), keep)
  BY TriedInPlace
<1>3. rows[j] \in 1..keep
  <2>1. j \in 1..Len(rows)
    BY <1>2
  <2> QED BY <2>1, <1>2 DEF InPlace
<1>4. rows[j] - 1 \in 0..(MaxBatch - 1)
  BY <1>2, <1>3, ConstantsAssumption
<1>5. Row(s, rows[j] - 1) \in Q
  BY <1>1 DEF RowsOf, Range
<1> QED BY <1>4, <1>5 DEF Row, HasRow

\* More rows, and the span still has its own.
LEMMA HasRowGrows ==
    ASSUME NEW s, NEW Q, NEW Q2, Q \subseteq Q2, HasRow(s, Q) PROVE HasRow(s, Q2)
BY DEF HasRow

\* Rows are kept in a sequence, each span is handed on a number of times, and the
\* batch under way is one the client cut.
StoreInv ==
    /\ takes \in [Span -> Nat]
    /\ queue \in Seq(Range(queue))
    /\ handler.stage # "idle" => /\ Len(handler.spans) <= MaxBatch
                                 /\ IsInjective(handler.spans)

\* A sequence of its own values, joined to another.
LEMMA QueueJoins ==
    ASSUME NEW q, NEW r, q \in Seq(Range(q)), r \in Seq(Range(r))
    PROVE  q \o r \in Seq(Range(q \o r)) /\ Range(q \o r) = Range(q) \cup Range(r)
<1> DEFINE S == Range(q) \cup Range(r)
<1>1. \A A, B : \A x \in Seq(A) : A \subseteq B => x \in Seq(B)
  OBVIOUS
<1>2. q \in Seq(S) /\ r \in Seq(S)
  BY <1>1
<1> HIDE DEF S
<1>3. q \o r \in Seq(S) /\ Range(q \o r) = Range(q) \cup Range(r)
  BY <1>2, JoinSequences
<1> QED BY <1>3 DEF S

LEMMA QueueDrains ==
    ASSUME NEW q, q \in Seq(Range(q)), q # <<>>
    PROVE  Tail(q) \in Seq(Range(Tail(q))) /\ Range(q) = {Head(q)} \cup Range(Tail(q))
<1>1. Tail(q) \in Seq(Range(q)) /\ Range(q) = {Head(q)} \cup Range(Tail(q))
  BY HeadAndTail
<1> DEFINE r == Tail(q)
<1>2. r \in Seq(Range(r))
  <2>1. r \in Seq(Range(q))
    BY <1>1
  <2> HIDE DEF r
  <2>2. \A i \in 1..Len(r) : r[i] \in Range(r)
    BY <2>1, RangeMember
  <2> QED BY <2>1, <2>2
<1> QED BY <1>1, <1>2

\* What an attempt adds to the rows and to the history.
Hands(S, Q) ==
    /\ takes' \in [Span -> Nat]
    /\ \A s \in Span : takes'[s] = takes[s] + (IF s \in S THEN 1 ELSE 0)
    /\ queue' \in Seq(Range(queue'))
    /\ stored' \cup Range(queue') = stored \cup Range(queue) \cup Q

LEMMA AttemptEffects ==
    ASSUME HandlerInv, StoreInv, Attempt
    PROVE  \E list, keep, rows, n :
              /\ Tried(handler.spans, list, keep, rows, n)
              /\ Hands(SpansOf(handler.spans, list, rows, n),
                       Range(RowsOf(handler.spans, list, rows, n)))
              /\ \/ /\ Decides(list, keep, rows, n)
                    /\ unsure' = unsure
                    /\ billed' = billed \cup Metered(list, rows, n)
                 \/ /\ handler' = NoHandler
                    /\ unsure' = unsure \cup SpansOf(handler.spans, list, rows, n)
                    /\ billed' = billed
<1>1. /\ takes \in [Span -> Nat] /\ queue \in Seq(Range(queue))
  BY DEF StoreInv
<1>2. PICK list, keep, rows :
        /\ \A n \in 0..Len(rows) : Tried(handler.spans, list, keep, rows, n)
        /\ Len(rows) \in Nat
        /\ \/ RejectAll(list, keep, rows) \/ InsertSpans(list, keep, rows)
           \/ ProduceRows(list, keep, rows) \/ WriteFails(list, keep, rows)
  BY AttemptTries
<1> DEFINE S(n) == SpansOf(handler.spans, list, rows, n)
           R(n) == RowsOf(handler.spans, list, rows, n)
<1>3. /\ S(0) = {} /\ R(0) = <<>> /\ Range(R(0)) = {}
      /\ Metered(list, rows, 0) = {}
  BY DEF SpansOf, RowsOf, Range, Metered
<1>4. ASSUME NEW n \in 0..Len(rows) PROVE R(n) \in Seq(Range(R(n)))
  BY <1>2, <1>4 DEF RowsOf, Range
<1>5. ASSUME NEW T, Bump(T) PROVE /\ takes' \in [Span -> Nat]
                                 /\ \A s \in Span : takes'[s] = takes[s] + (IF s \in T THEN 1 ELSE 0)
  BY <1>1, <1>5 DEF Bump
<1>6. takes' = takes => /\ takes' \in [Span -> Nat]
                        /\ \A s \in Span : takes'[s] = takes[s] + (IF s \in {} THEN 1 ELSE 0)
  BY <1>1
<1>7. queue' = queue => queue' \in Seq(Range(queue'))
  BY <1>1
<1>8. ASSUME NEW n \in 0..Len(rows), queue' = queue \o R(n)
      PROVE  queue' \in Seq(Range(queue')) /\ Range(queue') = Range(queue) \cup Range(R(n))
  <2> HIDE DEF R
  <2> QED BY <1>1, <1>4, <1>8, QueueJoins
<1>9. 0 \in 0..Len(rows) /\ Len(rows) \in 0..Len(rows)
  BY <1>2
<1>10. CASE RejectAll(list, keep, rows)
  <2>1. /\ Decides(list, keep, rows, 0)
        /\ UNCHANGED <<queue, stored, billed, takes, unsure>>
    BY <1>10 DEF RejectAll
  <2>2. Hands(S(0), Range(R(0)))
    BY <2>1, <1>3, <1>6, <1>7 DEF Hands
  <2> QED BY <2>1, <2>2, <1>2, <1>3, <1>9
<1>11. CASE InsertSpans(list, keep, rows)
  <2> DEFINE n == Len(rows)
  <2>1. /\ Decides(list, keep, rows, n) /\ Bump(S(n)) /\ queue' = queue
        /\ stored' = stored \cup Range(R(n)) /\ unsure' = unsure
        /\ billed' = billed \cup Metered(list, rows, n)
    BY <1>11 DEF InsertSpans
  <2> HIDE DEF S, R, n
  <2>2. Hands(S(n), Range(R(n)))
    BY <2>1, <1>5, <1>7 DEF Hands
  <2> QED BY <2>1, <2>2, <1>2, <1>9 DEF S, R, n
<1>12. CASE ProduceRows(list, keep, rows)
  <2>1. PICK room \in 0..(Capacity - Len(queue)) :
          LET n == LesserOf(Len(rows), room)
          IN  /\ Decides(list, keep, rows, n) /\ Bump(S(n))
              /\ queue' = queue \o R(n) /\ billed' = billed \cup Metered(list, rows, n)
    BY <1>12 DEF ProduceRows
  <2> DEFINE n == LesserOf(Len(rows), room)
  <2>2. n \in 0..Len(rows)
    BY <1>2, <2>1 DEF LesserOf
  <2>3. stored' = stored /\ unsure' = unsure
    BY <1>12 DEF ProduceRows
  <2>4. /\ Decides(list, keep, rows, n) /\ Bump(S(n))
        /\ queue' = queue \o R(n) /\ billed' = billed \cup Metered(list, rows, n)
    BY <2>1
  <2> HIDE DEF S, R, n
  <2>5. Hands(S(n), Range(R(n)))
    BY <2>2, <2>3, <2>4, <1>5, <1>8 DEF Hands
  <2> QED BY <2>2, <2>3, <2>4, <2>5, <1>2 DEF S, R
<1>13. CASE WriteFails(list, keep, rows)
  <2>1. handler' = NoHandler /\ billed' = billed
    BY <1>13 DEF WriteFails
  <2>2. CASE /\ queue' = queue \o R(0) /\ Bump(S(0)) /\ stored' = stored /\ unsure' = unsure
    <3>1. Hands(S(0), Range(R(0)))
      <4> HIDE DEF S, R
      <4> QED BY <2>2, <1>3, <1>5, <1>8, <1>9 DEF Hands
    <3> QED BY <2>1, <2>2, <3>1, <1>2, <1>3, <1>9
  <2>3. CASE UNCHANGED <<queue, stored, takes, unsure>>
    <3>1. Hands(S(0), Range(R(0)))
      BY <2>3, <1>3, <1>6, <1>7 DEF Hands
    <3> QED BY <2>1, <2>3, <3>1, <1>2, <1>3, <1>9
  <2>4. CASE /\ queue' = queue /\ stored' = stored \cup Range(R(Len(rows)))
             /\ Bump(S(Len(rows))) /\ unsure' = unsure \cup S(Len(rows))
    <3>1. Hands(S(Len(rows)), Range(R(Len(rows))))
      <4> HIDE DEF S, R
      <4> QED BY <2>4, <1>5, <1>7 DEF Hands
    <3> QED BY <2>1, <2>4, <3>1, <1>2, <1>9
  <2> QED BY <1>13, <2>2, <2>3, <2>4 DEF WriteFails, EnqueuedBefore
<1> QED BY <1>2, <1>10, <1>11, <1>12, <1>13

\* What is left of the attempt when it has decided, and when the client settles.
LEMMA DecidedHandler ==
    ASSUME HandlerInv, NEW list, NEW keep, NEW rows, NEW n, Decides(list, keep, rows, n)
    PROVE  /\ handler'.stage = "decided" /\ handler'.spans = handler.spans
           /\ handler'.late = handler.late
           /\ handler'.verdict = Judgement(handler.spans, list, keep, rows, n)
           /\ handler'.taken = SpansOf(handler.spans, list, rows, n)
BY DEF Decides, HandlerInv

LEMMA SettledHandler ==
    ASSUME HandlerInv, Settles
    PROVE  /\ handler'.stage = handler.stage /\ handler'.spans = handler.spans
           /\ handler'.verdict = handler.verdict /\ handler'.taken = handler.taken
           /\ handler.stage # "idle" =>
                 handler'.late = (handler.late \/ pending' = NoBatch)
<1>1. CASE handler.stage = "idle"
  BY <1>1 DEF Settles
<1>2. CASE handler.stage # "idle"
  <2>1. handler' = [handler EXCEPT !.heard = FALSE, !.late = @ \/ pending' = NoBatch]
    BY <1>2 DEF Settles
  <2> QED BY <2>1 DEF HandlerInv
<1> QED BY <1>1, <1>2

LEMMA NoHandlerIdle ==
    ASSUME handler' = NoHandler
    PROVE  handler'.stage = "idle" /\ handler'.taken = {}
BY DEF NoHandler

LEMMA ClaimedHandler ==
    ASSUME Claim
    PROVE  /\ handler'.stage = "claimed" /\ handler'.spans = pending.spans
           /\ handler'.late = FALSE /\ handler.stage = "idle"
           /\ pending.encoded /\ receipt = NoReceipt
BY DEF Claim, NoHandler

LEMMA StoreStep ==
    ASSUME HeldInv, HandlerInv, StoreInv, [NextPipeline]_allVars PROVE StoreInv'
<1>1. CASE UNCHANGED gatewayVars
  BY <1>1 DEF gatewayVars, StoreInv
<1>2. CASE Sends \/ Replay
  BY <1>2 DEF Sends, Replay, StoreInv
<1>3. CASE Settles
  <2>1. takes' = takes /\ queue' = queue
    BY <1>3 DEF Settles
  <2> QED BY <1>3, <2>1, SettledHandler DEF StoreInv
<1>4. CASE Claim
  <2>1. Len(pending.spans) <= MaxBatch /\ IsInjective(pending.spans)
    BY DEF HeldInv, BoundedMemory, HeldExactlyOnce
  <2>2. takes' = takes /\ queue' = queue
    BY <1>4 DEF Claim
  <2> QED BY <1>4, <2>1, <2>2, ClaimedHandler DEF StoreInv
<1>5. CASE Attempt
  <2>1. takes' \in [Span -> Nat] /\ queue' \in Seq(Range(queue'))
    BY <1>5, AttemptEffects DEF Hands
  <2>2. handler.stage # "idle"
    BY <1>5 DEF Attempt
  <2>3. handler'.stage = "idle" \/ handler'.spans = handler.spans
    BY <1>5, AttemptEffects, DecidedHandler, NoHandlerIdle
  <2> QED BY <2>1, <2>2, <2>3 DEF StoreInv
<1>6. CASE Record
  <2>1. handler' = NoHandler /\ takes' = takes /\ queue' = queue
    BY <1>6 DEF Record
  <2> QED BY <2>1, NoHandlerIdle DEF StoreInv
<1>7. CASE Drain
  <2>1. queue # <<>> /\ queue' = Tail(queue) /\ takes' = takes /\ handler' = handler
    BY <1>7 DEF Drain
  <2> QED BY <2>1, QueueDrains DEF StoreInv
<1>8. CASE Crash
  <2>1. handler' = NoHandler /\ takes' = takes /\ queue' = <<>>
    BY <1>8 DEF Crash
  <2> QED BY <2>1, NoHandlerIdle DEF StoreInv
<1> QED BY <1>1, <1>2, <1>3, <1>4, <1>5, <1>6, <1>7, <1>8
        DEF NextPipeline, ClientMoves, allVars

-----------------------------------------------------------------------------
(* CTO-389: the meter.                                                     *)

\* A row a span has is its row after any step that keeps the rows.
LEMMA RowStays ==
    ASSUME app' = app, NEW s, NEW Q, NEW Q2, Q \subseteq Q2, HasRow(s, Q)
    PROVE  HasRow(s, Q2)'
BY DEF HasRow, HasIds

LEMMA AppStays ==
    ASSUME [NextPipeline]_allVars PROVE app' = app
BY DEF NextPipeline, allVars, gatewayVars, ClientMoves, Sends, Settles, Replay, Claim,
       Attempt, Record, Drain, Crash

LEMMA BilledStep ==
    ASSUME HeldInv, HandlerInv, StoreInv, BilledAreTaken, [NextPipeline]_allVars
    PROVE  BilledAreTaken'
<1> DEFINE kept == stored \cup Range(queue)
<1>1. app' = app
  BY AppStays
<1>2. ASSUME billed' = billed, stored \cup Range(queue) \subseteq stored' \cup Range(queue'),
             handler'.stage = "decided" => /\ handler.stage = "decided"
                                           /\ handler'.taken = handler.taken
      PROVE  BilledAreTaken'
  BY <1>1, <1>2, RowStays DEF BilledAreTaken
<1>3. CASE UNCHANGED gatewayVars \/ Sends \/ Replay
  BY <1>2, <1>3 DEF gatewayVars, Sends, Replay
<1>4. CASE Settles
  <2>1. billed' = billed /\ stored' = stored /\ queue' = queue
    BY <1>4 DEF Settles
  <2> QED BY <1>2, <1>4, <2>1, SettledHandler
<1>5. CASE Claim
  <2>1. billed' = billed /\ stored' = stored /\ queue' = queue
    BY <1>5 DEF Claim
  <2> QED BY <1>2, <1>5, <2>1, ClaimedHandler
<1>6. CASE Record
  <2>1. billed' = billed /\ stored' = stored /\ queue' = queue /\ handler' = NoHandler
    BY <1>6 DEF Record
  <2> QED BY <1>2, <2>1, NoHandlerIdle
<1>7. CASE Drain
  <2>1. /\ queue # <<>> /\ queue' = Tail(queue) /\ stored' = stored \cup {Head(queue)}
        /\ billed' = billed /\ handler' = handler
    BY <1>7 DEF Drain
  <2>2. Range(queue) = {Head(queue)} \cup Range(Tail(queue))
    BY <2>1, QueueDrains DEF StoreInv
  <2> QED BY <1>2, <2>1, <2>2
<1>8. CASE Crash
  <2>1. billed' = {} /\ handler' = NoHandler
    BY <1>8 DEF Crash
  <2> QED BY <2>1, NoHandlerIdle DEF BilledAreTaken
<1>9. CASE Attempt
  <2>1. PICK list, keep, rows, n :
          /\ Tried(handler.spans, list, keep, rows, n)
          /\ Hands(SpansOf(handler.spans, list, rows, n),
                   Range(RowsOf(handler.spans, list, rows, n)))
          /\ \/ /\ Decides(list, keep, rows, n)
                /\ billed' = billed \cup Metered(list, rows, n)
             \/ handler' = NoHandler /\ billed' = billed
    BY <1>9, AttemptEffects
  <2> DEFINE S == SpansOf(handler.spans, list, rows, n)
  <2>2. stored' \cup Range(queue') = kept \cup Range(RowsOf(handler.spans, list, rows, n))
    BY <2>1 DEF Hands
  <2>3. CASE handler' = NoHandler /\ billed' = billed
    BY <1>2, <2>2, <2>3, NoHandlerIdle
  <2>4. CASE /\ Decides(list, keep, rows, n)
             /\ billed' = billed \cup Metered(list, rows, n)
    <3>1. Metered(list, rows, n) = {s \in S : app.sort[s] # "closed"}
      BY DEF Metered
    <3>2. handler'.taken = S
      BY <2>4, DecidedHandler
    <3>3. ASSUME NEW s \in billed' PROVE HasRow(s, stored \cup Range(queue))'
      <4> DEFINE Q == kept \cup Range(RowsOf(handler.spans, list, rows, n))
      <4>1. HasRow(s, Q)
        <5>1. CASE s \in billed
          <6>1. HasRow(s, kept)
            BY <5>1 DEF BilledAreTaken
          <6> QED BY <6>1, HasRowGrows
        <5>2. CASE s \in S
          <6>1. Len(handler.spans) <= MaxBatch
            BY <1>9 DEF Attempt, StoreInv
          <6> QED BY <2>1, <5>2, <6>1, TakenHaveRows
        <5> QED BY <2>4, <3>1, <5>1, <5>2
      <4>2. Q = (stored \cup Range(queue))'
        BY <2>2
      <4> HIDE DEF Q
      <4> QED BY <1>1, <4>1, <4>2, RowStays
    <3> QED BY <1>1, <2>4, <3>1, <3>2, <3>3 DEF BilledAreTaken
  <2> QED BY <2>1, <2>3, <2>4
<1> QED BY <1>3, <1>4, <1>5, <1>6, <1>7, <1>8, <1>9 DEF NextPipeline, ClientMoves, allVars

-----------------------------------------------------------------------------
(* CTO-389, #311: no span is handed on twice.                              *)

\* The span has met its end in the transport.
Final(s) == fate[s] \notin {"none", "held"}

\* A span that was handed on is written, or about to be called written, or the
\* client has given it up; so no attempt that is due to hand it on meets it again.
TakesInv ==
    /\ \A s \in Span \ unsure :
          \/ takes[s] = 0
          \/ /\ takes[s] = 1
             /\ \/ s \in landed \/ Final(s)
                \/ handler.stage = "decided" /\ s \in handler.taken
    /\ handler.stage = "claimed" =>
          \A s \in Range(handler.spans) \ unsure : takes[s] = 0
    /\ handler.stage # "idle" /\ handler.late =>
          \A s \in Range(handler.spans) : Final(s)
    /\ handler.stage = "decided" =>
          handler.taken \subseteq
            {handler.spans[i] : i \in {j \in DOMAIN handler.verdict :
                                         handler.verdict[j] = "accepted"}}

LEMMA EndsStay ==
    ASSUME HeldInv, [Next]_vars
    PROVE  /\ \A s \in Span : Final(s) => Final(s)'
           /\ landed \subseteq landed'
<1>1. ASSUME NEW s \in Span, Final(s) PROVE Final(s)'
  BY <1>1, FateStep DEF Final
<1>2. landed \subseteq landed'
  BY DEF Next, vars, Export, Start, Stop, DaemonWinds, GatewayDecides, Flush, TakeBatch,
         Encode, EncodeRaises, Settle, SettleRefused, SettleRetryable, SettleUnreadable,
         SettleTruncated, SettleDistrusted, SettleRequeue, SettleClear
<1> QED BY <1>1, <1>2

\* The batch of an undecided attempt is given up only as a whole.
LEMMA GivenUp ==
    ASSUME HeldInv, Settles, receipt = NoReceipt, pending' = NoBatch,
           NEW s \in Range(pending.spans)
    PROVE  Final(s)'
<1>1. PICK t \in Flushers : SettleRetryable(t) \/ SettleRefused(t)
  BY DEF Settles, SettleUnreadable, SettleTruncated, SettleDistrusted, SettleRequeue,
         SettleClear, Delivered
<1>2. /\ flight[t] = pending /\ pending.encoded /\ s \in Span
      /\ pending \in [spans : Seq(Span), encoded : BOOLEAN, attempts : Nat]
  BY <1>1, Sending, InHandHeld DEF SettleRetryable, SettleRefused
<1>3. ASSUME NEW b, NEW f \in {"undelivered", "refused"}, ShedBatch(t, b, f) PROVE Final(s)'
  BY <1>2, <1>3 DEF ShedBatch, Meet, Final
<1>4. ~(SettleRetryable(t) /\ Repin(t, flight[t].attempts + 1))
  BY <1>2 DEF Repin, NoBatch
<1> QED BY <1>1, <1>3, <1>4 DEF SettleRetryable, SettleRefused

LEMMA TakesStep ==
    ASSUME HeldInv, WrittenInv, HandlerInv, StoreInv, TakesInv, [NextPipeline]_allVars
    PROVE  TakesInv'
<1>1. [Next]_vars
  BY PipelineStep
<1>2. /\ \A s \in Span : Final(s) => Final(s)'
      /\ landed \subseteq landed'
  BY <1>1, EndsStay
<1>3. handler.stage # "idle" => Range(handler.spans) \subseteq Span
  BY RangeMember DEF HandlerInv
<1>4. ASSUME handler' = handler, takes' = takes, unsure' = unsure PROVE TakesInv'
  BY <1>2, <1>3, <1>4 DEF TakesInv
<1>5. CASE UNCHANGED gatewayVars \/ Sends \/ Replay \/ Drain
  BY <1>4, <1>5 DEF gatewayVars, Sends, Replay, Drain
<1>6. CASE Settles
  <2>1. takes' = takes /\ unsure' = unsure
    BY <1>6 DEF Settles
  <2>2. ASSUME handler.stage # "idle", ~handler.late, pending' = NoBatch,
               NEW s \in Range(handler.spans)
        PROVE  Final(s)'
    <3>1. handler.spans = pending.spans /\ receipt = NoReceipt
      BY <2>2 DEF HandlerInv
    <3> QED BY <1>6, <2>2, <3>1, GivenUp
  <2>3. /\ handler'.stage = handler.stage /\ handler'.spans = handler.spans
        /\ handler'.verdict = handler.verdict /\ handler'.taken = handler.taken
        /\ handler.stage # "idle" => handler'.late = (handler.late \/ pending' = NoBatch)
    BY <1>6, SettledHandler
  <2> QED BY <1>2, <1>3, <2>1, <2>2, <2>3, ZenonT(60) DEF TakesInv
<1>7. CASE Claim
  <2>1. takes' = takes /\ unsure' = unsure
    BY <1>7 DEF Claim
  <2>2. ASSUME NEW s \in Range(pending.spans), s \notin unsure PROVE takes[s] = 0
    <3>1. s \in Span /\ ~Final(s)
      BY InHandHeld DEF Final
    <3>2. s \notin landed
      BY <1>7, ClaimedHandler DEF WrittenInv
    <3> QED BY <1>7, <2>2, <3>1, <3>2, ClaimedHandler DEF TakesInv
  <2> QED BY <1>2, <1>7, <2>1, <2>2, ClaimedHandler DEF TakesInv
<1>8. CASE Attempt
  <2>1. PICK list, keep, rows, n :
          /\ Tried(handler.spans, list, keep, rows, n)
          /\ Hands(SpansOf(handler.spans, list, rows, n),
                   Range(RowsOf(handler.spans, list, rows, n)))
          /\ \/ Decides(list, keep, rows, n) /\ unsure' = unsure
             \/ /\ handler' = NoHandler
                /\ unsure' = unsure \cup SpansOf(handler.spans, list, rows, n)
    BY <1>8, AttemptEffects
  <2> DEFINE S == SpansOf(handler.spans, list, rows, n)
             v == Judgement(handler.spans, list, keep, rows, n)
  <2>2. /\ S \subseteq Range(handler.spans)
        /\ S \subseteq {handler.spans[i] : i \in {j \in DOMAIN v : v[j] = "accepted"}}
    BY <2>1, TakenAreAccepted
  <2>3. handler.stage = "claimed" /\ UNCHANGED <<landed, fate>>
    BY <1>8 DEF Attempt, vars
  <2>4. \A s \in Span : takes'[s] = takes[s] + (IF s \in S THEN 1 ELSE 0)
    BY <2>1 DEF Hands
  <2>5. \A s \in S \ unsure : s \in Span /\ takes[s] = 0
    BY <1>3, <2>2, <2>3 DEF TakesInv
  <2>6. takes \in [Span -> Nat]
    BY DEF StoreInv
  <2>7. CASE Decides(list, keep, rows, n) /\ unsure' = unsure
    <3>1. /\ handler'.stage = "decided" /\ handler'.spans = handler.spans
          /\ handler'.late = handler.late /\ handler'.verdict = v /\ handler'.taken = S
      BY <2>7, DecidedHandler
    <3> HIDE DEF S, v
    <3> QED BY <1>2, <1>3, <2>2, <2>3, <2>4, <2>5, <2>6, <2>7, <3>1 DEF TakesInv
  <2>8. CASE handler' = NoHandler /\ unsure' = unsure \cup S
    <3>1. handler'.stage = "idle"
      BY <2>8, NoHandlerIdle
    <3> HIDE DEF S
    <3> QED BY <1>2, <2>3, <2>4, <2>6, <2>8, <3>1 DEF TakesInv
  <2> QED BY <2>1, <2>7, <2>8
<1>9. CASE Record
  <2>1. /\ handler' = NoHandler /\ takes' = takes /\ unsure' = unsure
        /\ handler.stage = "decided"
    BY <1>9 DEF Record
  <2>2. ASSUME NEW s \in handler.taken PROVE s \in landed' \/ Final(s)'
    <3>1. PICK i \in DOMAIN handler.verdict :
            handler.spans[i] = s /\ handler.verdict[i] = "accepted"
      BY <2>1 DEF TakesInv
    <3>2. i \in 1..Len(handler.spans) /\ handler.spans \in Seq(Span)
      BY <2>1, <3>1 DEF HandlerInv
    <3>3. s \in Range(handler.spans) /\ s \in Span
      BY <3>1, <3>2 DEF Range
    <3>4. CASE handler.late
      BY <1>2, <2>1, <3>3, <3>4 DEF TakesInv
    <3>5. CASE ~handler.late
      BY <1>9, <3>1, <3>5 DEF Record, Written
    <3> QED BY <3>4, <3>5
  <2>3. handler'.stage = "idle"
    BY <2>1, NoHandlerIdle
  <2> QED BY <1>2, <2>1, <2>2, <2>3 DEF TakesInv
<1>10. CASE Crash
  <2>1. /\ handler'.stage = "idle" /\ takes' = takes
        /\ unsure' = unsure \cup handler.taken
    BY <1>10, NoHandlerIdle DEF Crash
  <2> QED BY <1>2, <2>1 DEF TakesInv
<1> QED BY <1>5, <1>6, <1>7, <1>8, <1>9, <1>10 DEF NextPipeline, ClientMoves, allVars

-----------------------------------------------------------------------------
(* Every exported span, from export() to the rows.                         *)

Rowed == stored \cup Range(queue) \cup lost

\* The gateway's word on a span, and what it has to show for it.
Fits(s, word) ==
    \/ word \in {"retry", "dead"}
    \/ word = "duplicate" /\ \E r \in Span \ {s} : SameIds(r, s)
    \/ word = "accepted" /\ HasRow(s, Rowed)

\* The words of a decided attempt and of a receipt are as good as those that have
\* already become a span's fate.
AccountInv ==
    /\ AccountedFor
    /\ handler.stage = "decided" =>
          \A i \in DOMAIN handler.spans : Fits(handler.spans[i], handler.verdict[i])
    /\ receipt # NoReceipt =>
          \A i \in DOMAIN pending.spans : Fits(pending.spans[i], receipt.verdict[i])

LEMMA RowsStay ==
    ASSUME HandlerInv, StoreInv, [NextPipeline]_allVars PROVE Rowed \subseteq Rowed'
<1>1. CASE UNCHANGED gatewayVars \/ Sends \/ Settles \/ Replay \/ Claim \/ Record
  BY <1>1 DEF gatewayVars, Sends, Settles, Replay, Claim, Record, Rowed
<1>2. CASE Attempt
  <2>1. lost' = lost
    BY <1>2 DEF Attempt
  <2>2. stored \cup Range(queue) \subseteq stored' \cup Range(queue')
    BY <1>2, AttemptEffects DEF Hands
  <2> QED BY <2>1, <2>2 DEF Rowed
<1>3. CASE Drain
  <2>1. /\ queue # <<>> /\ queue' = Tail(queue) /\ stored' = stored \cup {Head(queue)}
        /\ lost' = lost
    BY <1>3 DEF Drain
  <2>2. Range(queue) = {Head(queue)} \cup Range(Tail(queue))
    BY <2>1, QueueDrains DEF StoreInv
  <2> QED BY <2>1, <2>2 DEF Rowed
<1>4. CASE Crash
  BY <1>4 DEF Crash, Rowed
<1> QED BY <1>1, <1>2, <1>3, <1>4 DEF NextPipeline, ClientMoves, allVars

LEMMA FitStays ==
    ASSUME app' = app, Rowed \subseteq Rowed', NEW s, NEW word, Fits(s, word)
    PROVE  Fits(s, word)'
<1>1. CASE word \in {"retry", "dead"}
  BY <1>1 DEF Fits
<1>2. CASE word = "duplicate" /\ \E r \in Span \ {s} : SameIds(r, s)
  BY <1>2 DEF Fits, SameIds
<1>3. CASE word = "accepted" /\ HasRow(s, Rowed)
  <2>1. HasRow(s, Rowed)'
    BY <1>3, RowStays
  <2> QED BY <1>3, <2>1 DEF Fits
<1> QED BY <1>1, <1>2, <1>3 DEF Fits

\* A receipt stays with its batch, goes with it, or is a new one.
LEMMA ReceiptStep ==
    ASSUME HeldInv, HandlerInv, HeldInv', [NextPipeline]_allVars, receipt' # NoReceipt
    PROVE  \/ receipt' = receipt /\ pending'.spans = pending.spans
           \/ /\ Record /\ handler.stage = "decided"
              /\ pending'.spans = handler.spans /\ receipt'.verdict = handler.verdict
<1>1. [Next]_vars
  BY PipelineStep
<1>2. pending'.spans # <<>>
  BY DEF HeldInv, ReceiptOfPinned
<1>3. pending' # NoBatch
  BY <1>2 DEF NoBatch
<1>4. receipt # NoReceipt => pending.encoded
  BY DEF HeldInv, ReceiptOfPinned
<1>5. pending.encoded => pending'.spans = pending.spans
  <2>1. CASE UNCHANGED vars
    BY <2>1 DEF vars
  <2>2. CASE ~UNCHANGED vars
    BY <1>1, <1>3, <2>2, ResendStep
  <2> QED BY <2>1, <2>2
<1>6. CASE receipt' = receipt
  BY <1>4, <1>5, <1>6
<1>7. CASE Record /\ ~handler.late
  <2>1. /\ handler.stage = "decided" /\ pending' = pending
        /\ receipt' = [verdict |-> handler.verdict, ack |-> handler.ack]
    BY <1>7 DEF Record, codeVars
  <2>2. handler.spans = pending.spans
    BY <1>7, <2>1 DEF HandlerInv
  <2> QED BY <1>7, <2>1, <2>2
<1>8. CASE Settles
  <2>1. PICK t \in Flushers : SettleRetryable(t)
    BY <1>8 DEF Settles, SettleRefused, SettleUnreadable, SettleTruncated,
       SettleDistrusted, SettleRequeue, SettleClear, ShedBatch, Unpin
  <2>2. receipt' = receipt
    BY <2>1 DEF SettleRetryable, ShedBatch, Unpin
  <2> QED BY <1>6, <2>2
<1>9. CASE ClientMoves \/ Sends \/ UNCHANGED vars \/ (Record /\ handler.late)
  <2>1. receipt' = receipt
    BY <1>9 DEF ClientMoves, Sends, vars, Record, Export, Start, Stop, DaemonWinds,
       TakeBatch, EncodeRaises, Encode
  <2> QED BY <1>6, <2>1
<1> QED BY <1>7, <1>8, <1>9 DEF NextPipeline, allVars, Replay, Claim, Attempt, Drain, Crash

LEMMA FateAccounted ==
    ASSUME HeldInv, HeldInv', AccountInv, [Next]_vars, app' = app, Rowed \subseteq Rowed'
    PROVE  AccountedFor'
<1>1. Honest
  BY PipelineAssumption
<1> SUFFICES ASSUME NEW s \in 1..exported'
             PROVE  \/ fate'[s] \in Confessed \cup {"held"}
                    \/ fate'[s] = "duplicate" /\ \E r \in Span \ {s} : SameIds(r, s)'
                    \/ fate'[s] = "accepted" /\ HasRow(s, Rowed)'
  BY DEF AccountedFor, Rowed
<1>2. exported' \in 0..NumSpans /\ exported \in 0..NumSpans
  BY DEF HeldInv, TypeOK
<1>3. s \in Span /\ fate'[s] # "none"
  <2>1. s \in Span
    BY <1>2, ConstantsAssumption DEF Span
  <2> QED BY <2>1, <1>2 DEF HeldInv, NumberedInOrder
<1>4. CASE fate'[s] = fate[s]
  <2>1. s \in 1..exported
    BY <1>2, <1>3, <1>4 DEF HeldInv, NumberedInOrder
  <2>2. \/ fate[s] \in Confessed \cup {"held"}
        \/ fate[s] = "duplicate" /\ \E r \in Span \ {s} : SameIds(r, s)
        \/ fate[s] = "accepted" /\ HasRow(s, Rowed)
    BY <2>1 DEF AccountInv, AccountedFor, Rowed
  <2>3. HasRow(s, Rowed) => HasRow(s, Rowed)'
    BY RowStays
  <2> QED BY <1>4, <2>2, <2>3 DEF SameIds
<1>5. CASE fate'[s] \in {"held", "overflow", "undelivered", "refused", "cut", "blind"}
  BY <1>5 DEF Confessed
<1>6. ASSUME NEW t \in Flushers, NEW i \in DOMAIN pending.spans,
             Delivered(t), pending.spans[i] = s, fate'[s] = receipt.verdict[i],
             i \notin Range(receipt.ack.retry)
      PROVE  \/ fate'[s] \in Confessed
             \/ fate'[s] = "duplicate" /\ \E r \in Span \ {s} : SameIds(r, s)'
             \/ fate'[s] = "accepted" /\ HasRow(s, Rowed)'
  <2>4. PICK word : word = receipt.verdict[i]
    OBVIOUS
  <2>1. Fits(s, word)
    BY <2>4, <1>6 DEF AccountInv, Delivered
  <2>2. Fits(s, word)'
    BY <2>1, FitStays
  <2>3. word # "retry" /\ fate'[s] = word
    BY <2>4, <1>1, <1>6, RetriesNamed
  <2> QED BY <1>6, <2>2, <2>3 DEF Fits, Confessed
<1> QED BY <1>1, <1>3, <1>4, <1>5, <1>6, FateStep, TruthConsistent

\* A decided attempt can show what it is about to say.
LEMMA AttemptFits ==
    ASSUME HandlerInv, StoreInv, Attempt, handler'.stage = "decided", app' = app,
           NEW i \in DOMAIN handler'.spans
    PROVE  Fits(handler.spans[i], handler.verdict[i])'
<1>1. PICK list, keep, rows, n :
        /\ Tried(handler.spans, list, keep, rows, n)
        /\ Hands(SpansOf(handler.spans, list, rows, n),
                 Range(RowsOf(handler.spans, list, rows, n)))
        /\ Decides(list, keep, rows, n)
  BY AttemptEffects, NoHandlerIdle
<1> DEFINE S == SpansOf(handler.spans, list, rows, n)
           v == Judgement(handler.spans, list, keep, rows, n)
           Q == Range(RowsOf(handler.spans, list, rows, n))
<1>2. /\ handler'.spans = handler.spans /\ handler'.verdict = v
  BY <1>1, DecidedHandler
<1>3. /\ handler.stage = "claimed" /\ handler.spans \in Seq(Span)
      /\ Len(handler.spans) <= MaxBatch /\ IsInjective(handler.spans)
  BY DEF Attempt, HandlerInv, StoreInv
<1>4. i \in 1..Len(handler.spans)
  BY <1>2, <1>3
<1>5. PICK s, word : s = handler.spans[i] /\ word = v[i]
  OBVIOUS
<1>6. Fits(s, word)'
  <2>1. v[i] \in {"accepted", "retry", "dead", "duplicate"}
    BY <1>1, <1>4, JudgedAs DEF JudgedSo
  <2>2. CASE v[i] \in {"retry", "dead"}
    BY <1>5, <2>2 DEF Fits
  <2>3. CASE v[i] = "duplicate"
    <3>1. \E r \in Span \ {s} : SameIds(r, s)
      BY <1>1, <1>3, <1>4, <1>5, <2>3, DuplicateOfAnother
    <3> QED BY <1>5, <2>3, <3>1 DEF Fits, SameIds
  <2>4. CASE v[i] = "accepted"
    <3>1. s \in S
      BY <1>1, <1>4, <1>5, <2>4, TakenAreAccepted
    <3>2. HasRow(s, Q)
      BY <1>1, <1>3, <3>1, TakenHaveRows
    <3>3. Q \subseteq Rowed'
      BY <1>1 DEF Hands, Rowed
    <3> HIDE DEF Q
    <3>4. HasRow(s, Rowed)'
      BY <3>2, <3>3, RowStays
    <3> QED BY <1>5, <2>4, <3>4 DEF Fits
  <2> QED BY <2>1, <2>2, <2>3, <2>4
<1>7. s = handler'.spans[i] /\ word = handler'.verdict[i]
  BY <1>2, <1>5
<1> HIDE DEF S, v, Q
<1> QED BY <1>6, <1>7 DEF Fits, SameIds, HasRow, HasIds

LEMMA AccountStep ==
    ASSUME HeldInv, HeldInv', HandlerInv, StoreInv, AccountInv, [NextPipeline]_allVars
    PROVE  AccountInv'
<1>1. app' = app /\ Rowed \subseteq Rowed' /\ [Next]_vars
  BY AppStays, RowsStay, PipelineStep
<1>2. AccountedFor'
  BY <1>1, FateAccounted
<1>3. ASSUME NEW s, NEW word, Fits(s, word) PROVE Fits(s, word)'
  BY <1>1, <1>3, FitStays
<1>4. ASSUME handler'.stage = "decided", NEW i \in DOMAIN handler'.spans
      PROVE  Fits(handler.spans[i], handler.verdict[i])'
  <2>1. CASE Attempt
    BY <1>1, <1>4, <2>1, AttemptFits
  <2>2. CASE ~Attempt
    <3>1. /\ handler.stage = "decided" /\ handler'.spans = handler.spans
          /\ handler'.verdict = handler.verdict
      <4>1. CASE UNCHANGED gatewayVars \/ Sends \/ Replay \/ Drain
        BY <1>4, <4>1 DEF gatewayVars, Sends, Replay, Drain
      <4>2. CASE Settles
        BY <1>4, <4>2, SettledHandler
      <4>3. CASE Claim
        BY <1>4, <4>3, ClaimedHandler
      <4>4. CASE Record \/ Crash
        BY <1>4, <4>4, NoHandlerIdle DEF Record, Crash
      <4> QED BY <2>2, <4>1, <4>2, <4>3, <4>4 DEF NextPipeline, ClientMoves, allVars
    <3>2. PICK s, word : s = handler.spans[i] /\ word = handler.verdict[i]
      OBVIOUS
    <3>3. Fits(s, word)'
      BY <1>3, <1>4, <3>1, <3>2 DEF AccountInv
    <3>4. s = handler'.spans[i] /\ word = handler'.verdict[i]
      BY <3>1, <3>2
    <3> QED BY <3>3, <3>4 DEF Fits, SameIds, HasRow, HasIds
  <2> QED BY <2>1, <2>2
<1>5. ASSUME receipt' # NoReceipt, NEW i \in DOMAIN pending'.spans
      PROVE  Fits(pending.spans[i], receipt.verdict[i])'
  <2>1. PICK s, word : s = pending'.spans[i] /\ word = receipt'.verdict[i]
    OBVIOUS
  <2>2. Fits(s, word)
    BY <1>5, <2>1, ReceiptStep DEF AccountInv
  <2>3. Fits(s, word)'
    BY <1>3, <2>2
  <2> QED BY <2>1, <2>3 DEF Fits, SameIds, HasRow, HasIds
<1> QED BY <1>2, <1>4, <1>5 DEF AccountInv

-----------------------------------------------------------------------------
(* The invariant of the pipeline.                                          *)

PipelineInv == /\ HeldInv /\ WrittenInv
               /\ HandlerInv /\ StoreInv
               /\ BilledAreTaken /\ TakesInv /\ AccountInv

LEMMA PipelineInvInit == ASSUME InitPipeline PROVE PipelineInv
<1>1. /\ Init /\ handler = NoHandler /\ queue = <<>> /\ billed = {}
      /\ takes = [s \in Span |-> 0]
  BY DEF InitPipeline
<1>2. HeldInv /\ WrittenInv /\ HandlerInv
  BY <1>1, HeldInvInit, WrittenInit, IdleHandler
<1>3. handler.stage = "idle"
  BY <1>1 DEF NoHandler
<1>4. StoreInv /\ BilledAreTaken
  BY <1>1, <1>3 DEF StoreInv, BilledAreTaken
<1>5. TakesInv
  BY <1>1, <1>3 DEF TakesInv
<1>6. AccountInv
  <2>1. exported = 0 /\ receipt = NoReceipt
    BY <1>1 DEF Init
  <2> QED BY <1>3, <2>1 DEF AccountInv, AccountedFor
<1> QED BY <1>2, <1>4, <1>5, <1>6 DEF PipelineInv

LEMMA PipelineInvStep ==
    ASSUME PipelineInv, [NextPipeline]_allVars PROVE PipelineInv'
<1>1. Honest
  BY PipelineAssumption
<1>2. /\ HeldInv /\ WrittenInv /\ HandlerInv /\ StoreInv
      /\ BilledAreTaken /\ TakesInv /\ AccountInv
  BY DEF PipelineInv
<1>3. [Next]_vars
  BY <1>2, PipelineStep
<1>4. HeldInv' /\ WrittenInv'
  BY <1>1, <1>2, <1>3, HeldInvStep, WrittenStep
<1>5. HandlerInv' /\ StoreInv' /\ BilledAreTaken'
  BY <1>2, HandlerStep, StoreStep, BilledStep
<1>6. TakesInv' /\ AccountInv'
  BY <1>2, <1>4, TakesStep, AccountStep
<1> QED BY <1>4, <1>5, <1>6 DEF PipelineInv

\* The parts are inductive together: HandlerInv needs HeldInv for the pinned batch,
\* TakesInv needs WrittenInv at the claim and HandlerInv at the record, AccountInv
\* needs HeldInv on both sides of the step.
THEOREM PipelineInvHolds == Pipeline => []PipelineInv
<1>1. InitPipeline => PipelineInv
  BY PipelineInvInit
<1>2. PipelineInv /\ [NextPipeline]_allVars => PipelineInv'
  BY PipelineInvStep
<1> QED BY <1>1, <1>2, PTL DEF Pipeline

\* CTO-389: the meter never records a span that has no row, and an answer that is
\* about to leave has all its spans of open periods on the meter.
THEOREM PipelineBillsWhatItTook == Pipeline => []BilledAreTaken
<1>1. PipelineInv => BilledAreTaken
  BY DEF PipelineInv
<1> QED BY <1>1, PipelineInvHolds, PTL

\* #311, CTO-389: whatever is resent, put back, shed or given up, no span is handed
\* on twice but after an attempt that left no receipt.
THEOREM PipelineTakesOnce == Pipeline => []TakenOnce
<1>1. PipelineInv => TakenOnce
  <2> SUFFICES ASSUME TakesInv, NEW s \in Span, takes[s] > 1 PROVE s \in unsure
    BY DEF PipelineInv, TakenOnce
  <2> QED BY DEF TakesInv
<1> QED BY <1>1, PipelineInvHolds, PTL

\* End to end: a span the client calls accepted has a row, and any other that is
\* not in hand is on a counter or has a namesake in its batch.
THEOREM PipelineAccounts == Pipeline => []AccountedFor
<1>1. PipelineInv => AccountedFor
  BY DEF PipelineInv, AccountInv
<1> QED BY <1>1, PipelineInvHolds, PTL
=============================================================================
