------------------------- MODULE SdkTransportProofs -------------------------
(***************************************************************************)
(* What holds of BatchingTransport for every buffer size, batch size,      *)
(* retry budget, number of spans and number of flushing threads.           *)
(*                                                                         *)
(* HeldInv is the inductive invariant behind TypeOK, HeldExactlyOnce and   *)
(* BoundedMemory: none of the three is inductive alone.  WrittenInv, for a *)
(* gateway that reports truthfully, is the one behind NoDoubleSend.  On    *)
(* top of HeldInv, LossInv counts what is lost and what is in hand against *)
(* what was exported, for the loss figures of CTO-391.  Its last part      *)
(* counts spans by fate and verdicts by kind, and so proves each counter   *)
(* of shed_counts() against what became of the spans of an honest gateway. *)
(***************************************************************************)
EXTENDS SdkTransport, DataFacts, FiniteSetTheorems

\* _flush_lock serialises flush_once: only its holder is inside, and what the
\* holder took is still the pinned batch.
OneFlight ==
    /\ \A t \in Flushers : pc[t] # "idle" <=> flushLock = t
    /\ \A t \in Flushers : pc[t] # "idle" =>
           /\ flight[t] = pending
           /\ pending.spans # <<>>
    /\ \A t \in Flushers : pc[t] = "sending" => pending.encoded

\* The spans without a history are exactly those not exported yet.
NumberedInOrder == \A s \in Span : fate[s] = "none" <=> s > exported

\* The receipt is the pinned batch's, and an empty pin is exactly NoBatch.
ReceiptOfPinned ==
    /\ pending.spans = <<>> => pending = NoBatch /\ receipt = NoReceipt
    /\ receipt.verdict = <<>> => receipt = NoReceipt
    /\ receipt # NoReceipt =>
           /\ receipt.verdict \in [1..Len(pending.spans) -> Verdict]
           /\ receipt.ack \in Acks(receipt.verdict)
           /\ pending.encoded

HeldInv == /\ TypeOK
           /\ OneFlight
           /\ NumberedInOrder
           /\ ReceiptOfPinned
           /\ HeldExactlyOnce
           /\ BoundedMemory

\* The written spans of a decided batch are those its receipt says, and no
\* undecided, buffered or future span was ever written.
WrittenInv ==
    /\ landed \cap Range(buf) = {}
    /\ receipt = NoReceipt => landed \cap Range(pending.spans) = {}
    /\ receipt # NoReceipt =>
           \A i \in DOMAIN pending.spans :
               pending.spans[i] \in landed => Written(receipt.verdict[i])
    /\ landed \subseteq 1..exported

-----------------------------------------------------------------------------
(* Lemmas on the acks.                                                     *)

\* A set of positions of a sequence is finite, and its size is at most n.
LEMMA PositionsCounted ==
    ASSUME NEW n \in Nat, NEW D, D \subseteq 1..n
    PROVE  IsFiniteSet(D) /\ Cardinality(D) \in 0..n
<1>1. IsFiniteSet(1..n) /\ Cardinality(1..n) = n
  BY FS_Interval
<1>2. IsFiniteSet(D) /\ Cardinality(D) <= n
  BY <1>1, FS_Subset
<1> QED BY <1>2, FS_CardinalityType

\* Whatever ack the gateway sends, truthful or not, is a readable one.
LEMMA AcksTyped ==
    ASSUME NEW n \in Nat, NEW v \in [1..n -> Verdict], NEW a \in Acks(v)
    PROVE  a \in Ack(n)
<1>0. Len(v) = n /\ DOMAIN v = 1..n
  OBVIOUS
<1>1. CASE Honest
  <2>1. ASSUME NEW kinds PROVE Count(v, kinds) \in 0..n
    BY PositionsCounted DEF Count
  <2>2. a \in TruthfulAcks(v)
    BY <1>1 DEF Acks
  <2>3. {i \in DOMAIN v : v[i] = "dead"} \in SUBSET (1..n)
    BY <1>0
  <2> QED BY <2>1, <2>2, <2>3, <1>0 DEF TruthfulAcks, Ack
<1>2. CASE ~Honest
  BY <1>2, <1>0 DEF Acks
<1> QED BY <1>1, <1>2

\* An order names distinct positions.
LEMMA OrdersTyped ==
    ASSUME NEW n \in Nat, NEW o \in Orders(n)
    PROVE  IsInjective(o) /\ \E k \in 0..n : o \in [1..k -> 1..n]
BY DEF Orders

\* A counter that grows is still a counter.
LEMMA CounterAdds ==
    ASSUME NEW c \in [Buckets -> Nat], NEW b \in Buckets, NEW k \in Nat
    PROVE  [c EXCEPT ![b] = @ + k] \in [Buckets -> Nat]
OBVIOUS

-----------------------------------------------------------------------------
(* The initial states.                                                     *)

LEMMA HeldInvInit == Init => HeldInv
<1> SUFFICES ASSUME Init PROVE HeldInv
  OBVIOUS
<1> USE ConstantsAssumption
<1>1. TypeOK
  <2>1. /\ pending \in [spans : Seq(Span), encoded : BOOLEAN, attempts : Nat]
        /\ flight \in [Flushers ->
                         [spans : Seq(Span), encoded : BOOLEAN, attempts : Nat]]
    BY DEF Init, NoBatch
  <2>2. receipt.verdict = <<>> /\ receipt.verdict \in Seq(Verdict)
    BY DEF Init, NoReceipt
  <2>3. /\ pc \in [Flushers -> {"idle", "taken", "sending"}]
        /\ shed \in [Buckets -> Nat]
        /\ fate \in [Span -> Fate]
    BY DEF Init, Fate
  <2>4. buf \in Seq(Span)
    BY DEF Init
  <2>5. exported \in 0..NumSpans /\ batchLimit \in 1..MaxBatch /\ rounds \in 0..RetryMax
    BY DEF Init
  <2>6. /\ flushLock \in Flushers \cup {NoOne}
        /\ daemon \in {"none", "running", "draining", "done", "died"}
        /\ stopping \in BOOLEAN
        /\ failing \in BOOLEAN
        /\ dropped \in Nat
        /\ landed \subseteq Span
    BY DEF Init
  <2> QED BY <2>1, <2>2, <2>3, <2>4, <2>5, <2>6 DEF TypeOK
<1>2. OneFlight
  BY DEF Init, OneFlight
<1>3. NumberedInOrder
  BY DEF Init, NumberedInOrder, Span
<1>4. ReceiptOfPinned
  BY DEF Init, ReceiptOfPinned, NoReceipt
<1>5. HeldExactlyOnce
  BY DEF Init, HeldExactlyOnce, InHand, NoBatch, IsInjective, Range
<1>6. BoundedMemory
  BY DEF Init, BoundedMemory, NoBatch
<1> QED BY <1>1, <1>2, <1>3, <1>4, <1>5, <1>6 DEF HeldInv

-----------------------------------------------------------------------------
(* The application's and the gateway's steps.                              *)

LEMMA ExportHeld == HeldInv /\ Export => HeldInv'
<1> SUFFICES ASSUME HeldInv, Export PROVE HeldInv'
  OBVIOUS
<1> USE ConstantsAssumption
<1> DEFINE x == exported + 1
<1>1. /\ x \in Span /\ exported \in 0..NumSpans /\ exported' = x
      /\ exported' \in 0..NumSpans
      /\ fate \in [Span -> Fate] /\ buf \in Seq(Span) /\ pending.spans \in Seq(Span)
  BY DEF HeldInv, TypeOK, Export, Span
<1>2. fate[x] = "none" /\ x \notin Range(buf) /\ x \notin Range(pending.spans)
  BY <1>1 DEF HeldInv, NumberedInOrder, HeldExactlyOnce, InHand
<1>3. OneFlight' /\ ReceiptOfPinned'
  BY DEF HeldInv, OneFlight, ReceiptOfPinned, Export
<1>4. CASE Len(buf) < MaxBuffer
  <2>1. /\ buf' = Append(buf, x) /\ fate' = [fate EXCEPT ![x] = "held"]
        /\ UNCHANGED <<shed, dropped>>
    BY <1>4, <1>1 DEF Export
  <2>2. /\ buf' \in Seq(Span) /\ Len(buf') = Len(buf) + 1 /\ IsInjective(buf')
        /\ Range(buf') = Range(buf) \cup {x}
    BY <2>1, <1>1, <1>2, AppendNew DEF HeldInv, HeldExactlyOnce
  <2>3. fate' \in [Span -> Fate]
    BY <2>1, <1>1 DEF Fate
  <2>4. TypeOK'
    BY <2>1, <2>2, <2>3, <1>1 DEF HeldInv, TypeOK, Export
  <2>5. NumberedInOrder'
    BY <2>1, <1>1 DEF HeldInv, NumberedInOrder, Span
  <2>6. HeldExactlyOnce'
    BY <2>1, <2>2, <1>1, <1>2 DEF HeldInv, HeldExactlyOnce, InHand, Export
  <2>7. BoundedMemory'
    BY <2>2, <1>1, <1>4 DEF HeldInv, BoundedMemory, Export
  <2> QED BY <1>3, <2>4, <2>5, <2>6, <2>7 DEF HeldInv
<1>5. CASE Len(buf) >= MaxBuffer
  <2>0. buf # <<>>
    BY <1>5
  <2>1. /\ buf' = Append(Tail(buf), x)
        /\ fate' = [fate EXCEPT ![x] = "held", ![Head(buf)] = "overflow"]
        /\ shed' = [shed EXCEPT !["bufferOverflow"] = @ + 1]
        /\ dropped' = dropped + 1
    BY <1>5, <1>1 DEF Export
  <2>2. /\ Head(buf) \in Span /\ Tail(buf) \in Seq(Span)
        /\ Len(Tail(buf)) = Len(buf) - 1 /\ IsInjective(Tail(buf))
        /\ Range(buf) = {Head(buf)} \cup Range(Tail(buf))
        /\ Head(buf) \notin Range(Tail(buf))
    BY <2>0, <1>1, HeadAndTail DEF HeldInv, HeldExactlyOnce
  <2>3. /\ buf' \in Seq(Span) /\ Len(buf') = Len(buf) /\ IsInjective(buf')
        /\ Range(buf') = Range(Tail(buf)) \cup {x}
    <3> DEFINE rest == Tail(buf)
    <3>1. rest \in Seq(Span) /\ IsInjective(rest) /\ x \notin Range(rest)
      BY <2>2, <1>2
    <3> HIDE DEF rest
    <3>2. /\ Append(rest, x) \in Seq(Span) /\ Len(Append(rest, x)) = Len(rest) + 1
          /\ Range(Append(rest, x)) = Range(rest) \cup {x}
          /\ IsInjective(Append(rest, x))
      BY <3>1, <1>1, AppendNew
    <3> QED BY <3>2, <2>1, <2>2, <1>1 DEF rest
  <2>4. fate' \in [Span -> Fate]
    BY <2>1, <2>2, <1>1 DEF Fate
  <2>10. shed' \in [Buckets -> Nat] /\ dropped' \in Nat
    <3>1. shed \in [Buckets -> Nat] /\ dropped \in Nat
      BY DEF HeldInv, TypeOK
    <3>2. shed' \in [Buckets -> Nat]
      BY <3>1, <2>1, CounterAdds DEF Buckets
    <3> QED BY <3>1, <3>2, <2>1
  <2>5. TypeOK'
    BY <2>3, <2>4, <2>10, <1>1 DEF HeldInv, TypeOK, Export
  <2>6. fate[Head(buf)] = "held" /\ Head(buf) # x
    BY <2>2, <1>2 DEF HeldInv, HeldExactlyOnce, InHand
  <2>7. NumberedInOrder'
    BY <2>1, <2>2, <2>6, <1>1 DEF HeldInv, NumberedInOrder, Span
  <2>8. HeldExactlyOnce'
    <3>1. /\ InHand = {s \in Span : fate[s] = "held"}
          /\ Range(buf) \cap Range(pending.spans) = {}
          /\ IsInjective(pending.spans)
          /\ pending' = pending
      BY DEF HeldInv, HeldExactlyOnce, Export
    <3>2. InHand' = (InHand \ {Head(buf)}) \cup {x}
      BY <3>1, <2>2, <2>3 DEF InHand
    <3>3. {s \in Span : fate'[s] = "held"} =
              ({s \in Span : fate[s] = "held"} \ {Head(buf)}) \cup {x}
      BY <2>1, <2>2, <2>6, <1>1
    <3> QED BY <3>1, <3>2, <3>3, <2>2, <2>3, <1>2 DEF HeldExactlyOnce
  <2>9. BoundedMemory'
    BY <2>3, <1>5 DEF HeldInv, BoundedMemory, Export
  <2> QED BY <1>3, <2>5, <2>7, <2>8, <2>9 DEF HeldInv
<1> QED BY <1>4, <1>5, <1>1

\* Starting, stopping and winding down the worker touch no span.
LEMMA WorkerHeld == HeldInv /\ (Start \/ Stop \/ DaemonWinds) => HeldInv'
<1> SUFFICES ASSUME HeldInv, Start \/ Stop \/ DaemonWinds PROVE HeldInv'
  OBVIOUS
<1>1. UNCHANGED <<exported, buf, pending, flushLock, pc, flight, batchLimit,
                  rounds, failing, shed, dropped, receipt, landed, fate>>
  BY DEF Start, Stop, DaemonWinds
<1>2. /\ stopping' \in BOOLEAN
      /\ daemon' \in {"none", "running", "draining", "done", "died"}
  BY DEF Start, Stop, DaemonWinds, HeldInv, TypeOK
<1>3. TypeOK'
  BY <1>1, <1>2 DEF HeldInv, TypeOK
<1>4. OneFlight' /\ NumberedInOrder' /\ ReceiptOfPinned'
  BY <1>1 DEF HeldInv, OneFlight, NumberedInOrder, ReceiptOfPinned
<1>5. HeldExactlyOnce' /\ BoundedMemory'
  BY <1>1 DEF HeldInv, HeldExactlyOnce, InHand, BoundedMemory
<1> QED BY <1>3, <1>4, <1>5 DEF HeldInv

LEMMA GatewayHeld == HeldInv /\ GatewayDecides => HeldInv'
<1> SUFFICES ASSUME HeldInv, GatewayDecides PROVE HeldInv'
  OBVIOUS
<1> USE ConstantsAssumption
<1>1. UNCHANGED <<exported, buf, pending, flushLock, pc, flight, daemon, stopping,
                  batchLimit, rounds, failing, shed, dropped, fate>>
  BY DEF GatewayDecides, codeVars
<1>2. PICK v \in [1..Len(pending.spans) -> Verdicts] :
          /\ \E a \in Acks(v) : receipt' = [verdict |-> v, ack |-> a]
          /\ landed' = landed \cup
                {pending.spans[i] : i \in {j \in DOMAIN v : Written(v[j])}}
  BY DEF GatewayDecides
<1>3. PICK a \in Acks(v) : receipt' = [verdict |-> v, ack |-> a]
  BY <1>2
<1>4. /\ pending.spans \in Seq(Span) /\ pending.spans # <<>>
      /\ Len(pending.spans) \in Nat \ {0} /\ pending.encoded
  BY DEF HeldInv, TypeOK, ReceiptOfPinned, GatewayDecides
<1>5. v \in [1..Len(pending.spans) -> Verdict]
  BY <1>2
<1>6. a \in Ack(Len(pending.spans))
  BY <1>3, <1>4, <1>5, AcksTyped
<1>7. v \in Seq(Verdict) /\ Len(v) = Len(pending.spans) /\ v # <<>>
  BY <1>4, <1>5
<1>8. landed' \subseteq Span
  <2>1. \A j \in DOMAIN v : pending.spans[j] \in Span
    BY <1>4, <1>5, ElementOfSeq
  <2> QED BY <2>1, <1>2 DEF HeldInv, TypeOK
<1>9. TypeOK'
  BY <1>1, <1>3, <1>6, <1>7, <1>8 DEF HeldInv, TypeOK
<1>10. ReceiptOfPinned'
  BY <1>1, <1>3, <1>4, <1>5, <1>7 DEF HeldInv, ReceiptOfPinned
<1>11. OneFlight' /\ NumberedInOrder'
  BY <1>1 DEF HeldInv, OneFlight, NumberedInOrder
<1>12. HeldExactlyOnce' /\ BoundedMemory'
  BY <1>1 DEF HeldInv, HeldExactlyOnce, InHand, BoundedMemory
<1> QED BY <1>9, <1>10, <1>11, <1>12 DEF HeldInv

-----------------------------------------------------------------------------
(* flush_once, up to the send.                                             *)

LEMMA TakeBatchHeld ==
    ASSUME HeldInv, NEW t \in Flushers, TakeBatch(t)
    PROVE  HeldInv'
<1> USE ConstantsAssumption
<1>1. /\ UNCHANGED <<exported, daemon, stopping, batchLimit, rounds, failing,
                     shed, dropped, receipt, landed, fate>>
      /\ flushLock = NoOne /\ flushLock' = t
      /\ pc[t] = "idle" /\ pc' = [pc EXCEPT ![t] = "taken"]
  BY DEF TakeBatch, FlushLockFree
<1>2. /\ pc \in [Flushers -> {"idle", "taken", "sending"}]
      /\ flight \in [Flushers -> [spans : Seq(Span), encoded : BOOLEAN, attempts : Nat]]
      /\ pending \in [spans : Seq(Span), encoded : BOOLEAN, attempts : Nat]
      /\ buf \in Seq(Span) /\ batchLimit \in 1..MaxBatch
  BY DEF HeldInv, TypeOK
<1>3. ASSUME pending' \in [spans : Seq(Span), encoded : BOOLEAN, attempts : Nat],
             pending'.spans # <<>>, buf' \in Seq(Span),
             flight' = [flight EXCEPT ![t] = pending']
      PROVE  TypeOK' /\ OneFlight'
  <2>1. /\ pc' \in [Flushers -> {"idle", "taken", "sending"}]
        /\ flight' \in [Flushers -> [spans : Seq(Span), encoded : BOOLEAN, attempts : Nat]]
    BY <1>1, <1>2, <1>3
  <2>2. TypeOK'
    BY <2>1, <1>1, <1>3 DEF HeldInv, TypeOK
  <2>3. \A u \in Flushers : pc[u] = "idle"
    BY <1>1 DEF HeldInv, OneFlight
  <2>4. OneFlight'
    BY <2>3, <1>1, <1>2, <1>3 DEF OneFlight
  <2> QED BY <2>2, <2>4
<1>4. NumberedInOrder'
  BY <1>1 DEF HeldInv, NumberedInOrder
<1>5. CASE pending # NoBatch
  <2>1. UNCHANGED <<buf, pending>> /\ flight' = [flight EXCEPT ![t] = pending']
    BY <1>5 DEF TakeBatch
  <2>2. pending.spans # <<>>
    BY <1>5 DEF HeldInv, ReceiptOfPinned
  <2>3. TypeOK' /\ OneFlight'
    BY <2>1, <2>2, <1>2, <1>3
  <2>4. ReceiptOfPinned' /\ HeldExactlyOnce' /\ BoundedMemory'
    BY <2>1, <1>1
    DEF HeldInv, ReceiptOfPinned, HeldExactlyOnce, InHand, BoundedMemory
  <2> QED BY <2>3, <2>4, <1>4 DEF HeldInv
<1>6. CASE pending = NoBatch
  <2> DEFINE n == LesserOf(batchLimit, Len(buf))
             front == SubSeq(buf, 1, n)
             back == SubSeq(buf, n + 1, Len(buf))
  <2>1. /\ buf # <<>> /\ buf' = back /\ pending' = [NoBatch EXCEPT !.spans = front]
        /\ flight' = [flight EXCEPT ![t] = pending']
    BY <1>6 DEF TakeBatch
  <2>2. n \in 1..Len(buf) /\ n \in 0..Len(buf) /\ n <= MaxBatch
    BY <2>1, <1>2 DEF LesserOf
  <2>3. IsInjective(buf)
    BY DEF HeldInv, HeldExactlyOnce
  <2> HIDE DEF n
  <2>4. /\ front \in Seq(Span) /\ Len(front) = n
        /\ back \in Seq(Span) /\ Len(back) = Len(buf) - n
        /\ Range(buf) = Range(front) \cup Range(back)
        /\ IsInjective(front) /\ IsInjective(back)
        /\ Range(front) \cap Range(back) = {}
    BY <1>2, <2>2, <2>3, CutSequence
  <2> HIDE DEF front, back
  <2>5. /\ pending' = [spans |-> front, encoded |-> FALSE, attempts |-> 0]
        /\ pending'.spans = front
    BY <2>1 DEF NoBatch
  <2>6. front # <<>>
    BY <2>2, <2>4
  <2>7. TypeOK' /\ OneFlight'
    <3>1. pending' \in [spans : Seq(Span), encoded : BOOLEAN, attempts : Nat]
      BY <2>4, <2>5
    <3> QED BY <3>1, <2>1, <2>4, <2>5, <2>6, <1>3
  <2>8. receipt = NoReceipt /\ receipt' = NoReceipt
    BY <1>6, <1>1 DEF HeldInv, ReceiptOfPinned, NoBatch
  <2>9. ReceiptOfPinned'
    BY <2>5, <2>6, <2>8 DEF ReceiptOfPinned
  <2>10. Range(pending.spans) = {}
    BY <1>6 DEF NoBatch, Range
  <2>11. HeldExactlyOnce'
    BY <2>1, <2>4, <2>5, <2>10, <1>1 DEF HeldInv, HeldExactlyOnce, InHand
  <2>12. BoundedMemory'
    BY <2>1, <2>2, <2>4, <2>5, <1>2, SMTT(30) DEF HeldInv, BoundedMemory
  <2> QED BY <2>7, <2>9, <2>11, <2>12, <1>4 DEF HeldInv
<1> QED BY <1>5, <1>6

LEMMA EncodeHeld ==
    ASSUME HeldInv, NEW t \in Flushers, Encode(t)
    PROVE  HeldInv'
<1>1. /\ UNCHANGED <<exported, buf, flushLock, daemon, stopping, batchLimit,
                     rounds, failing, shed, dropped, receipt, landed, fate>>
      /\ pc[t] = "taken" /\ pc' = [pc EXCEPT ![t] = "sending"]
      /\ flight' = [flight EXCEPT ![t].encoded = TRUE]
  BY DEF Encode
<1>2. flight[t] = pending /\ pending' = [pending EXCEPT !.encoded = TRUE]
  BY <1>1 DEF HeldInv, OneFlight, Encode
<1>3. /\ pc \in [Flushers -> {"idle", "taken", "sending"}]
      /\ flight \in [Flushers -> [spans : Seq(Span), encoded : BOOLEAN, attempts : Nat]]
      /\ pending \in [spans : Seq(Span), encoded : BOOLEAN, attempts : Nat]
  BY DEF HeldInv, TypeOK
<1>4. /\ pending' \in [spans : Seq(Span), encoded : BOOLEAN, attempts : Nat]
      /\ pending'.spans = pending.spans /\ pending'.encoded
      /\ flight' = [flight EXCEPT ![t] = pending']
  BY <1>1, <1>2, <1>3
<1>5. TypeOK'
  BY <1>1, <1>3, <1>4, ZenonT(60) DEF HeldInv, TypeOK
<1>6. OneFlight'
  BY <1>1, <1>3, <1>4 DEF HeldInv, OneFlight
<1>7. pending.spans # <<>>
  BY <1>1 DEF HeldInv, OneFlight
<1>8. ReceiptOfPinned' /\ NumberedInOrder'
  BY <1>1, <1>4, <1>7 DEF HeldInv, ReceiptOfPinned, NumberedInOrder
<1>9. HeldExactlyOnce' /\ BoundedMemory'
  BY <1>1, <1>4 DEF HeldInv, HeldExactlyOnce, InHand, BoundedMemory
<1> QED BY <1>5, <1>6, <1>8, <1>9 DEF HeldInv

LEMMA EncodeRaisesHeld ==
    ASSUME HeldInv, NEW t \in Flushers, EncodeRaises(t)
    PROVE  HeldInv'
<1> USE ConstantsAssumption
<1>1. /\ UNCHANGED <<exported, buf, pending, stopping, batchLimit,
                     rounds, failing, shed, dropped, receipt, landed, fate>>
      /\ pc[t] = "taken" /\ pc' = [pc EXCEPT ![t] = "idle"]
      /\ flight' = [flight EXCEPT ![t] = NoBatch]
      /\ flushLock' = NoOne
      /\ daemon' \in {daemon, "died"}
  BY DEF EncodeRaises, StaysPinned
<1>2. /\ pc \in [Flushers -> {"idle", "taken", "sending"}]
      /\ flight \in [Flushers -> [spans : Seq(Span), encoded : BOOLEAN, attempts : Nat]]
      /\ NoBatch \in [spans : Seq(Span), encoded : BOOLEAN, attempts : Nat]
  BY DEF HeldInv, TypeOK, NoBatch
<1>3. /\ pc' \in [Flushers -> {"idle", "taken", "sending"}]
      /\ flight' \in [Flushers -> [spans : Seq(Span), encoded : BOOLEAN, attempts : Nat]]
  BY <1>1, <1>2
<1>4. TypeOK'
  BY <1>1, <1>3 DEF HeldInv, TypeOK
<1>5. \A u \in Flushers : pc'[u] = "idle"
  BY <1>1, <1>2 DEF HeldInv, OneFlight
<1>6. OneFlight'
  BY <1>1, <1>5 DEF OneFlight
<1>7. ReceiptOfPinned' /\ NumberedInOrder'
  BY <1>1 DEF HeldInv, ReceiptOfPinned, NumberedInOrder
<1>8. HeldExactlyOnce' /\ BoundedMemory'
  BY <1>1 DEF HeldInv, HeldExactlyOnce, InHand, BoundedMemory
<1> QED BY <1>4, <1>6, <1>7, <1>8 DEF HeldInv

-----------------------------------------------------------------------------
(* flush_once, from the answer on.                                         *)

\* What every settling step starts from: its batch is the pinned one.
LEMMA Sending ==
    ASSUME HeldInv, NEW t \in Flushers, pc[t] = "sending"
    PROVE  /\ flight[t] = pending /\ pending.encoded
           /\ pending \in [spans : Seq(Span), encoded : BOOLEAN, attempts : Nat]
           /\ Len(pending.spans) \in Nat \ {0}
           /\ Range(pending.spans) \subseteq Span
           /\ shed \in [Buckets -> Nat] /\ dropped \in Nat /\ buf \in Seq(Span)
           /\ fate \in [Span -> Fate]
<1>1. /\ flight[t] = pending /\ pending.encoded /\ pending.spans # <<>>
      /\ pending \in [spans : Seq(Span), encoded : BOOLEAN, attempts : Nat]
  BY DEF HeldInv, OneFlight, TypeOK
<1>2. Len(pending.spans) \in Nat \ {0}
  BY <1>1
<1>3. Range(pending.spans) \subseteq Span
  BY <1>1, RangeMember
<1> QED BY <1>1, <1>2, <1>3 DEF HeldInv, TypeOK

\* A finished flush leaves nobody inside.
LEMMA FinishHeld ==
    ASSUME HeldInv, NEW t \in Flushers, pc[t] = "sending",
           NEW delivered, Finish(t, delivered)
    PROVE  /\ OneFlight'
           /\ flushLock' \in Flushers \cup {NoOne}
           /\ pc' \in [Flushers -> {"idle", "taken", "sending"}]
           /\ flight' \in [Flushers ->
                             [spans : Seq(Span), encoded : BOOLEAN, attempts : Nat]]
           /\ daemon' \in {"none", "running", "draining", "done", "died"}
<1> USE ConstantsAssumption
<1>1. /\ pc \in [Flushers -> {"idle", "taken", "sending"}]
      /\ flight \in [Flushers -> [spans : Seq(Span), encoded : BOOLEAN, attempts : Nat]]
      /\ daemon \in {"none", "running", "draining", "done", "died"}
      /\ NoBatch \in [spans : Seq(Span), encoded : BOOLEAN, attempts : Nat]
  BY DEF HeldInv, TypeOK, NoBatch
<1>2. /\ pc' = [pc EXCEPT ![t] = "idle"]
      /\ flight' = [flight EXCEPT ![t] = NoBatch]
      /\ flushLock' = NoOne
      /\ daemon' \in {daemon, "done"}
  BY DEF Finish
<1>3. /\ pc' \in [Flushers -> {"idle", "taken", "sending"}]
      /\ flight' \in [Flushers ->
                        [spans : Seq(Span), encoded : BOOLEAN, attempts : Nat]]
  BY <1>1, <1>2
<1>4. \A u \in Flushers : pc'[u] = "idle"
  BY <1>1, <1>2 DEF HeldInv, OneFlight
<1>5. OneFlight'
  BY <1>2, <1>4 DEF OneFlight
<1> QED BY <1>1, <1>2, <1>3, <1>5

\* A step that ends the batch, gives each of its spans an end and touches no
\* other span.
LEMMA BatchOver ==
    ASSUME HeldInv, Unpin, buf' = buf, exported' = exported,
           fate' \in [Span -> Fate],
           \A s \in Span \ Range(pending.spans) : fate'[s] = fate[s],
           \A s \in Range(pending.spans) : fate'[s] \notin {"none", "held"}
    PROVE  /\ NumberedInOrder' /\ ReceiptOfPinned'
           /\ HeldExactlyOnce' /\ BoundedMemory'
           /\ pending' \in [spans : Seq(Span), encoded : BOOLEAN, attempts : Nat]
           /\ receipt'.verdict = <<>>
<1>1. /\ pending' = NoBatch /\ receipt' = NoReceipt
      /\ pending'.spans = <<>> /\ receipt'.verdict = <<>>
  BY DEF Unpin, NoBatch, NoReceipt
<1>2. pending' \in [spans : Seq(Span), encoded : BOOLEAN, attempts : Nat]
  BY <1>1 DEF NoBatch
<1>3. ReceiptOfPinned'
  BY <1>1 DEF ReceiptOfPinned
<1>4. BoundedMemory'
  BY <1>1, ConstantsAssumption DEF HeldInv, BoundedMemory
<1>5. /\ InHand = {s \in Span : fate[s] = "held"}
      /\ Range(buf) \cap Range(pending.spans) = {}
      /\ Range(pending.spans) \subseteq InHand
      /\ IsInjective(buf)
  BY DEF HeldInv, HeldExactlyOnce, InHand
<1>6. NumberedInOrder'
  <2> SUFFICES ASSUME NEW s \in Span PROVE fate'[s] = "none" <=> s > exported
    BY DEF NumberedInOrder
  <2>1. CASE s \in Range(pending.spans)
    BY <2>1, <1>5 DEF HeldInv, NumberedInOrder
  <2>2. CASE s \notin Range(pending.spans)
    BY <2>2 DEF HeldInv, NumberedInOrder
  <2> QED BY <2>1, <2>2
<1>7. Range(pending'.spans) = {} /\ IsInjective(pending'.spans)
  BY <1>1 DEF Range, IsInjective
<1>8. InHand' = Range(buf)
  BY <1>7 DEF InHand
<1>9. {s \in Span : fate'[s] = "held"} = Range(buf)
  BY <1>5 DEF InHand
<1>10. HeldExactlyOnce'
  BY <1>5, <1>7, <1>8, <1>9 DEF HeldExactlyOnce
<1> QED BY <1>1, <1>2, <1>3, <1>4, <1>6, <1>10

\* The same for a step whose spans all meet one end.
LEMMA BatchMeets ==
    ASSUME HeldInv, Unpin, buf' = buf, exported' = exported,
           NEW f \in Fate \ {"none", "held"}, Meet(Range(pending.spans), f),
           Range(pending.spans) \subseteq Span
    PROVE  /\ NumberedInOrder' /\ ReceiptOfPinned'
           /\ HeldExactlyOnce' /\ BoundedMemory'
           /\ pending' \in [spans : Seq(Span), encoded : BOOLEAN, attempts : Nat]
           /\ receipt'.verdict = <<>>
           /\ fate' \in [Span -> Fate]
<1>1. /\ fate' = [s \in Span |-> IF s \in Range(pending.spans) THEN f ELSE fate[s]]
      /\ fate \in [Span -> Fate]
  BY DEF Meet, HeldInv, TypeOK
<1>2. fate' \in [Span -> Fate]
  BY <1>1
<1>3. /\ \A s \in Span \ Range(pending.spans) : fate'[s] = fate[s]
      /\ \A s \in Range(pending.spans) : fate'[s] \notin {"none", "held"}
  BY <1>1
<1> QED BY <1>2, <1>3, BatchOver

LEMMA ShedHeld ==
    ASSUME HeldInv, NEW t \in Flushers, pc[t] = "sending",
           NEW bucket \in Buckets, NEW f \in Fate \ {"none", "held"},
           ShedBatch(t, bucket, f), buf' = buf, exported' = exported
    PROVE  /\ NumberedInOrder' /\ ReceiptOfPinned'
           /\ HeldExactlyOnce' /\ BoundedMemory'
           /\ pending' \in [spans : Seq(Span), encoded : BOOLEAN, attempts : Nat]
           /\ receipt'.verdict = <<>>
           /\ fate' \in [Span -> Fate]
           /\ shed' \in [Buckets -> Nat] /\ dropped' \in Nat
<1>1. /\ Unpin /\ Meet(Range(pending.spans), f)
      /\ shed' = [shed EXCEPT ![bucket] = @ + Len(pending.spans)]
      /\ dropped' = dropped + Len(pending.spans)
  BY Sending DEF ShedBatch
<1>2. shed' \in [Buckets -> Nat] /\ dropped' \in Nat
  BY <1>1, Sending, CounterAdds
<1> QED BY <1>1, <1>2, Sending, BatchMeets

\* A settling step that ends the batch leaves every variable with its type.
LEMMA SettledTyped ==
    ASSUME HeldInv, UNCHANGED <<exported, stopping, landed>>,
           flushLock' \in Flushers \cup {NoOne},
           pc' \in [Flushers -> {"idle", "taken", "sending"}],
           flight' \in [Flushers ->
                          [spans : Seq(Span), encoded : BOOLEAN, attempts : Nat]],
           daemon' \in {"none", "running", "draining", "done", "died"},
           pending' \in [spans : Seq(Span), encoded : BOOLEAN, attempts : Nat],
           receipt'.verdict = <<>>,
           buf' \in Seq(Span), batchLimit' \in 1..MaxBatch, rounds' \in 0..RetryMax,
           failing' \in BOOLEAN, shed' \in [Buckets -> Nat], dropped' \in Nat,
           fate' \in [Span -> Fate]
    PROVE  TypeOK'
<1>1. /\ exported' \in 0..NumSpans /\ stopping' \in BOOLEAN /\ landed' \subseteq Span
  BY DEF HeldInv, TypeOK
<1>2. receipt'.verdict \in Seq(Verdict)
  OBVIOUS
<1> QED BY <1>1, <1>2 DEF TypeOK

LEMMA RefusedHeld ==
    ASSUME HeldInv, NEW t \in Flushers, SettleRefused(t)
    PROVE  HeldInv'
<1>1. /\ pc[t] = "sending" /\ Finish(t, FALSE)
      /\ ShedBatch(t, "rejected", "refused") /\ failing' = TRUE
      /\ UNCHANGED <<exported, buf, stopping, batchLimit, rounds, landed>>
  BY DEF SettleRefused
<1>2. "rejected" \in Buckets /\ "refused" \in Fate \ {"none", "held"}
  BY DEF Buckets, Fate
<1>3. /\ NumberedInOrder' /\ ReceiptOfPinned' /\ HeldExactlyOnce' /\ BoundedMemory'
      /\ pending' \in [spans : Seq(Span), encoded : BOOLEAN, attempts : Nat]
      /\ receipt'.verdict = <<>> /\ fate' \in [Span -> Fate]
      /\ shed' \in [Buckets -> Nat] /\ dropped' \in Nat
  BY <1>1, <1>2, ShedHeld
<1>4. /\ OneFlight' /\ flushLock' \in Flushers \cup {NoOne}
      /\ pc' \in [Flushers -> {"idle", "taken", "sending"}]
      /\ flight' \in [Flushers ->
                        [spans : Seq(Span), encoded : BOOLEAN, attempts : Nat]]
      /\ daemon' \in {"none", "running", "draining", "done", "died"}
  BY <1>1, FinishHeld
<1>5. /\ failing' \in BOOLEAN /\ buf' \in Seq(Span)
      /\ batchLimit' \in 1..MaxBatch /\ rounds' \in 0..RetryMax
  BY <1>1 DEF HeldInv, TypeOK
<1>6. TypeOK'
  BY <1>1, <1>3, <1>4, <1>5, SettledTyped
<1> QED BY <1>3, <1>4, <1>6 DEF HeldInv

LEMMA RetryableHeld ==
    ASSUME HeldInv, NEW t \in Flushers, SettleRetryable(t)
    PROVE  HeldInv'
<1> DEFINE attempts == flight[t].attempts + 1
<1>1. /\ pc[t] = "sending" /\ Finish(t, FALSE) /\ failing' = TRUE
      /\ UNCHANGED <<exported, buf, stopping, batchLimit, rounds, landed>>
  BY DEF SettleRetryable
<1>2. /\ OneFlight' /\ flushLock' \in Flushers \cup {NoOne}
      /\ pc' \in [Flushers -> {"idle", "taken", "sending"}]
      /\ flight' \in [Flushers ->
                        [spans : Seq(Span), encoded : BOOLEAN, attempts : Nat]]
      /\ daemon' \in {"none", "running", "draining", "done", "died"}
  BY <1>1, FinishHeld
<1>3. CASE ShedBatch(t, "undelivered", "undelivered")
  <2>1. "undelivered" \in Buckets /\ "undelivered" \in Fate \ {"none", "held"}
    BY DEF Buckets, Fate
  <2>2. /\ NumberedInOrder' /\ ReceiptOfPinned' /\ HeldExactlyOnce' /\ BoundedMemory'
        /\ pending' \in [spans : Seq(Span), encoded : BOOLEAN, attempts : Nat]
        /\ receipt'.verdict = <<>> /\ fate' \in [Span -> Fate]
        /\ shed' \in [Buckets -> Nat] /\ dropped' \in Nat
    BY <1>1, <1>3, <2>1, ShedHeld
  <2>3. /\ failing' \in BOOLEAN /\ buf' \in Seq(Span)
        /\ batchLimit' \in 1..MaxBatch /\ rounds' \in 0..RetryMax
    BY <1>1 DEF HeldInv, TypeOK
  <2>4. TypeOK'
    BY <1>1, <1>2, <2>2, <2>3, SettledTyped
  <2> QED BY <1>2, <2>2, <2>4 DEF HeldInv
<1>4. CASE Repin(t, attempts) /\ UNCHANGED <<shed, dropped, receipt, fate>>
  <2>0. /\ flight[t] = pending /\ Len(pending.spans) \in Nat \ {0}
        /\ pending \in [spans : Seq(Span), encoded : BOOLEAN, attempts : Nat]
    BY <1>1, Sending
  <2>1. attempts \in Nat /\ pending' = [pending EXCEPT !.attempts = attempts]
    BY <2>0, <1>4 DEF Repin
  <2> HIDE DEF attempts
  <2>2. /\ pending' \in [spans : Seq(Span), encoded : BOOLEAN, attempts : Nat]
        /\ pending'.spans = pending.spans /\ pending'.encoded = pending.encoded
        /\ pending.spans # <<>>
    BY <2>0, <2>1
  <2>3. TypeOK'
    <3>1. /\ exported' \in 0..NumSpans /\ stopping' \in BOOLEAN
          /\ landed' \subseteq Span /\ failing' \in BOOLEAN /\ buf' \in Seq(Span)
          /\ batchLimit' \in 1..MaxBatch /\ rounds' \in 0..RetryMax
      BY <1>1 DEF HeldInv, TypeOK
    <3>2. /\ shed' \in [Buckets -> Nat] /\ dropped' \in Nat
          /\ fate' \in [Span -> Fate]
          /\ receipt'.verdict \in Seq(Verdict)
          /\ receipt'.verdict # <<>> =>
                 receipt'.ack \in Ack(Len(receipt'.verdict))
      BY <1>4 DEF HeldInv, TypeOK
    <3> QED BY <1>2, <2>2, <3>1, <3>2 DEF TypeOK
  <2>4. NumberedInOrder' /\ ReceiptOfPinned'
    BY <1>1, <1>4, <2>2 DEF HeldInv, NumberedInOrder, ReceiptOfPinned
  <2>5. HeldExactlyOnce' /\ BoundedMemory'
    BY <1>1, <1>4, <2>2 DEF HeldInv, HeldExactlyOnce, InHand, BoundedMemory
  <2> QED BY <1>2, <2>3, <2>4, <2>5 DEF HeldInv
<1> QED BY <1>3, <1>4 DEF SettleRetryable

\* A hint only ever moves the batch size below the configured one.
LEMMA HintBounded ==
    ASSUME HeldInv, NEW hint \in Nat, ApplyHints(hint)
    PROVE  batchLimit' \in 1..MaxBatch
BY ConstantsAssumption DEF HeldInv, TypeOK, ApplyHints, GreaterOf, LesserOf

\* The receipt of a delivered batch is one ack and one verdict per span.
LEMMA ReceiptTyped ==
    ASSUME HeldInv, NEW t \in Flushers, Delivered(t)
    PROVE  /\ pc[t] = "sending"
           /\ receipt.ack \in Ack(Len(pending.spans))
           /\ receipt.ack \in Acks(receipt.verdict)
           /\ receipt.verdict \in [1..Len(pending.spans) -> Verdict]
           /\ receipt.ack.hint \in Nat
<1>1. /\ pc[t] = "sending" /\ receipt # NoReceipt
  BY DEF Delivered
<1>2. /\ receipt.verdict \in [1..Len(pending.spans) -> Verdict]
      /\ receipt.ack \in Acks(receipt.verdict)
  BY <1>1 DEF HeldInv, ReceiptOfPinned
<1>3. Len(pending.spans) \in Nat
  BY <1>1, Sending
<1>4. receipt.ack \in Ack(Len(pending.spans))
  BY <1>2, <1>3, AcksTyped
<1>5. receipt.ack.hint \in Nat
  BY <1>4, ConstantsAssumption DEF Ack
<1> QED BY <1>1, <1>2, <1>4, <1>5

LEMMA ReadableHintBounded ==
    ASSUME HeldInv, NEW t \in Flushers, Delivered(t), ApplyReadableHints
    PROVE  batchLimit' \in 1..MaxBatch
BY ReceiptTyped, HintBounded DEF ApplyReadableHints

LEMMA UnreadableHeld ==
    ASSUME HeldInv, NEW t \in Flushers, SettleUnreadable(t)
    PROVE  HeldInv'
<1>1. /\ pc[t] = "sending" /\ Finish(t, TRUE) /\ failing' = FALSE /\ rounds' = 0
      /\ Unpin /\ Meet(Range(flight[t].spans), "blind")
      /\ UNCHANGED <<exported, buf, stopping, shed, dropped, landed>>
  BY DEF SettleUnreadable, Delivered, ClearPacing
<1>8. batchLimit' \in 1..MaxBatch
  BY ReadableHintBounded DEF SettleUnreadable
<1>2. Meet(Range(pending.spans), "blind") /\ "blind" \in Fate \ {"none", "held"}
  BY <1>1, Sending DEF Fate
<1>3. /\ NumberedInOrder' /\ ReceiptOfPinned' /\ HeldExactlyOnce' /\ BoundedMemory'
      /\ pending' \in [spans : Seq(Span), encoded : BOOLEAN, attempts : Nat]
      /\ receipt'.verdict = <<>> /\ fate' \in [Span -> Fate]
  BY <1>1, <1>2, Sending, BatchMeets
<1>4. /\ OneFlight' /\ flushLock' \in Flushers \cup {NoOne}
      /\ pc' \in [Flushers -> {"idle", "taken", "sending"}]
      /\ flight' \in [Flushers ->
                        [spans : Seq(Span), encoded : BOOLEAN, attempts : Nat]]
      /\ daemon' \in {"none", "running", "draining", "done", "died"}
  BY <1>1, FinishHeld
<1>5. rounds' \in 0..RetryMax
  BY <1>1, ConstantsAssumption
<1>7. /\ failing' \in BOOLEAN /\ buf' \in Seq(Span)
      /\ shed' \in [Buckets -> Nat] /\ dropped' \in Nat
  BY <1>1 DEF HeldInv, TypeOK
<1>6. TypeOK'
  BY <1>1, <1>3, <1>4, <1>5, <1>7, <1>8, SettledTyped
<1> QED BY <1>3, <1>4, <1>6 DEF HeldInv

LEMMA TruncatedHeld ==
    ASSUME HeldInv, NEW t \in Flushers, SettleTruncated(t)
    PROVE  HeldInv'
<1>1. /\ pc[t] = "sending" /\ Finish(t, TRUE) /\ failing' = FALSE /\ rounds' = 0
      /\ ShedBatch(t, "rejectedByGateway", "cut")
      /\ UNCHANGED <<exported, buf, stopping, landed>>
  BY DEF SettleTruncated, Delivered, ClearPacing
<1>8. batchLimit' \in 1..MaxBatch
  BY ReadableHintBounded DEF SettleTruncated
<1>2. "rejectedByGateway" \in Buckets /\ "cut" \in Fate \ {"none", "held"}
  BY DEF Buckets, Fate
<1>3. /\ NumberedInOrder' /\ ReceiptOfPinned' /\ HeldExactlyOnce' /\ BoundedMemory'
      /\ pending' \in [spans : Seq(Span), encoded : BOOLEAN, attempts : Nat]
      /\ receipt'.verdict = <<>> /\ fate' \in [Span -> Fate]
      /\ shed' \in [Buckets -> Nat] /\ dropped' \in Nat
  BY <1>1, <1>2, ShedHeld
<1>4. /\ OneFlight' /\ flushLock' \in Flushers \cup {NoOne}
      /\ pc' \in [Flushers -> {"idle", "taken", "sending"}]
      /\ flight' \in [Flushers ->
                        [spans : Seq(Span), encoded : BOOLEAN, attempts : Nat]]
      /\ daemon' \in {"none", "running", "draining", "done", "died"}
  BY <1>1, FinishHeld
<1>5. rounds' \in 0..RetryMax
  BY <1>1, ConstantsAssumption
<1>7. failing' \in BOOLEAN /\ buf' \in Seq(Span)
  BY <1>1 DEF HeldInv, TypeOK
<1>6. TypeOK'
  BY <1>1, <1>3, <1>4, <1>5, <1>7, <1>8, SettledTyped
<1> QED BY <1>3, <1>4, <1>6 DEF HeldInv

LEMMA DistrustedHeld ==
    ASSUME HeldInv, NEW t \in Flushers, SettleDistrusted(t)
    PROVE  HeldInv'
<1>1. /\ Delivered(t) /\ Finish(t, TRUE) /\ failing' = FALSE /\ rounds' = 0
      /\ Unpin /\ Meet(Range(flight[t].spans), "distrusted")
      /\ ApplyHints(receipt.ack.hint)
      /\ UNCHANGED <<exported, buf, stopping, shed, dropped, landed>>
  BY DEF SettleDistrusted, ClearPacing
<1>0. pc[t] = "sending" /\ receipt.ack.hint \in Nat
  BY <1>1, ReceiptTyped
<1>2. /\ Meet(Range(pending.spans), "distrusted")
      /\ "distrusted" \in Fate \ {"none", "held"}
  BY <1>1, <1>0, Sending DEF Fate
<1>3. /\ NumberedInOrder' /\ ReceiptOfPinned' /\ HeldExactlyOnce' /\ BoundedMemory'
      /\ pending' \in [spans : Seq(Span), encoded : BOOLEAN, attempts : Nat]
      /\ receipt'.verdict = <<>> /\ fate' \in [Span -> Fate]
  BY <1>1, <1>0, <1>2, Sending, BatchMeets
<1>4. /\ OneFlight' /\ flushLock' \in Flushers \cup {NoOne}
      /\ pc' \in [Flushers -> {"idle", "taken", "sending"}]
      /\ flight' \in [Flushers ->
                        [spans : Seq(Span), encoded : BOOLEAN, attempts : Nat]]
      /\ daemon' \in {"none", "running", "draining", "done", "died"}
  BY <1>1, <1>0, FinishHeld
<1>5. rounds' \in 0..RetryMax
  BY <1>1, ConstantsAssumption
<1>6. batchLimit' \in 1..MaxBatch
  BY <1>0, <1>1, HintBounded
<1>7. /\ failing' \in BOOLEAN /\ buf' \in Seq(Span)
      /\ shed' \in [Buckets -> Nat] /\ dropped' \in Nat
  BY <1>1 DEF HeldInv, TypeOK
<1>8. TypeOK'
  BY <1>1, <1>3, <1>4, <1>5, <1>6, <1>7, SettledTyped
<1> QED BY <1>3, <1>4, <1>8 DEF HeldInv

\* What an ack asks for again: distinct spans of the pinned batch.
LEMMA AgainOfPinned ==
    ASSUME HeldInv, NEW t \in Flushers, Delivered(t)
    PROVE  /\ Again(t) \in Seq(Span) /\ IsInjective(Again(t))
           /\ Len(Again(t)) = Len(receipt.ack.retry)
           /\ Len(receipt.ack.retry) \in Nat
           /\ Range(Again(t)) \subseteq Range(pending.spans)
<1>1. /\ flight[t] = pending /\ pending.spans \in Seq(Span)
      /\ Len(pending.spans) \in Nat
      /\ IsInjective(pending.spans)
  BY Sending, ReceiptTyped DEF HeldInv, HeldExactlyOnce
<1>2. receipt.ack.retry \in Orders(Len(pending.spans))
  BY ReceiptTyped DEF Ack
<1>3. IsInjective(receipt.ack.retry)
  BY <1>1, <1>2, OrdersTyped
<1>4. PICK k \in 0..Len(pending.spans) :
          receipt.ack.retry \in [1..k -> 1..Len(pending.spans)]
  BY <1>1, <1>2, OrdersTyped
<1>5. k \in Nat /\ Len(receipt.ack.retry) = k
  BY <1>1, <1>4
<1> DEFINE p == [j \in DOMAIN receipt.ack.retry |-> pending.spans[receipt.ack.retry[j]]]
<1>6. /\ p \in Seq(Span) /\ Len(p) = k /\ IsInjective(p)
      /\ Range(p) \subseteq Range(pending.spans)
  <2> DEFINE o == receipt.ack.retry
             q == pending.spans
  <2>1. /\ q \in Seq(Span) /\ IsInjective(q)
        /\ o \in [1..k -> 1..Len(q)] /\ IsInjective(o) /\ k \in Nat
        /\ p \in [1..k -> Span] /\ \A j \in 1..k : p[j] = q[o[j]]
    BY <1>1, <1>3, <1>4, <1>5, ElementOfSeq
  <2> HIDE DEF o, q, p
  <2>2. /\ p \in Seq(Span) /\ Len(p) = k /\ IsInjective(p)
        /\ Range(p) \subseteq Range(q)
    BY <2>1, PickDistinct, SMTT(60)
  <2> QED BY <2>2 DEF q
<1>7. Again(t) = p
  BY <1>1 DEF Again
<1> QED BY <1>5, <1>6, <1>7

\* The counts an ack books are counts.
LEMMA BookedTyped ==
    ASSUME HeldInv, NEW n \in Nat, NEW a \in Ack(n)
    PROVE  /\ Booked(n, a) \in [Buckets -> Nat]
           /\ BookedDrops(n, a) \in Nat
<1>1. /\ shed \in [Buckets -> Nat] /\ dropped \in Nat
  BY DEF HeldInv, TypeOK
<1>2. /\ a.accepted \in Nat /\ a.unplacedRetry \in Nat /\ a.unplacedDead \in Nat
      /\ a.unknown \in Nat /\ a.dead \subseteq 1..n /\ a.retry \in Orders(n)
  BY DEF Ack
<1>3. Cardinality(a.dead) \in Nat /\ Len(a.retry) \in Nat
  <2>1. PICK k \in 0..n : a.retry \in [1..k -> 1..n]
    BY <1>2, OrdersTyped
  <2> QED BY <2>1, <1>2, PositionsCounted
<1>4. LostForGood(n, a) \in Nat
  <2>1. Named(a) \in Nat
    <3> DEFINE r == Len(a.retry)
               d == Cardinality(a.dead)
    <3>1. r \in Nat /\ d \in Nat
      BY <1>3
    <3>2. Named(a) = r + d + a.unplacedRetry + a.unplacedDead
      BY DEF Named
    <3> HIDE DEF r, d
    <3> QED BY <1>2, <3>1, <3>2
  <2>2. Unattributed(n, a) \in Nat
    BY <2>1, <1>2 DEF Unattributed, GreaterOf
  <2> QED BY <2>2, <1>2, <1>3 DEF LostForGood
<1> DEFINE lost == LostForGood(n, a)
<1>5. BookedDrops(n, a) \in Nat
  BY <1>1, <1>2, <1>4 DEF BookedDrops
<1>6. Booked(n, a) = [shed EXCEPT !["rejectedByGateway"] = @ + lost,
                                  !["unmappedRetryable"] = @ + a.unplacedRetry,
                                  !["unknownCode"] = @ + a.unknown]
  BY DEF Booked
<1> HIDE DEF lost
<1>7. Booked(n, a) \in [Buckets -> Nat]
  <2>1. lost \in Nat
    BY <1>4 DEF lost
  <2> DEFINE c1 == [shed EXCEPT !["rejectedByGateway"] = @ + lost]
             c2 == [c1 EXCEPT !["unmappedRetryable"] = @ + a.unplacedRetry]
             c3 == [c2 EXCEPT !["unknownCode"] = @ + a.unknown]
  <2>2. /\ "rejectedByGateway" \in Buckets /\ "unmappedRetryable" \in Buckets
        /\ "unknownCode" \in Buckets
    BY DEF Buckets
  <2>3. c1 \in [Buckets -> Nat]
    BY <1>1, <2>1, <2>2, CounterAdds
  <2>4. c2 \in [Buckets -> Nat]
    <3> HIDE DEF c1
    <3> QED BY <1>2, <2>3, <2>2, CounterAdds
  <2>5. c3 \in [Buckets -> Nat]
    <3> HIDE DEF c2
    <3> QED BY <1>2, <2>4, <2>2, CounterAdds
  <2> QED BY <1>6, <2>5
<1> QED BY <1>5, <1>7

\* Where the ack leaves the spans of a decided batch: each of those it did not
\* ask for again has an end.
LEMMA JudgedTyped ==
    ASSUME HeldInv, NEW t \in Flushers, Delivered(t),
           NEW again \in [Span -> Fate], Judged(t, again)
    PROVE  /\ fate' \in [Span -> Fate]
           /\ \A s \in Range(Again(t)) : fate'[s] = again[s]
           /\ \A s \in Range(pending.spans) \ Range(Again(t)) :
                  fate'[s] \notin {"none", "held"}
           /\ \A s \in Span \ Range(pending.spans) : fate'[s] = fate[s]
<1>1. /\ flight[t] = pending /\ pending.spans \in Seq(Span)
      /\ Range(pending.spans) \subseteq Span
      /\ Range(Again(t)) \subseteq Range(pending.spans)
      /\ fate \in [Span -> Fate]
  BY ReceiptTyped, Sending, AgainOfPinned
<1> DEFINE at(s) == CHOOSE j \in DOMAIN pending.spans : pending.spans[j] = s
           verdict(s) == receipt.verdict[at(s)]
<1>2. \A s \in Range(pending.spans) : verdict(s) \in Verdict
  <2> SUFFICES ASSUME NEW s \in Range(pending.spans) PROVE verdict(s) \in Verdict
    OBVIOUS
  <2>1. \E j \in DOMAIN pending.spans : pending.spans[j] = s
    BY DEF Range
  <2>2. at(s) \in 1..Len(pending.spans)
    BY <2>1, <1>1
  <2> QED BY <2>2, ReceiptTyped
<1>3. fate' = [s \in Span |->
          IF s \in Range(Again(t)) THEN again[s]
          ELSE IF s \in Range(pending.spans) THEN verdict(s) ELSE fate[s]]
  BY <1>1 DEF Judged
<1> HIDE DEF at, verdict
<1>4. \A x \in Verdict : x \in Fate /\ x \notin {"none", "held"}
  BY DEF Verdict, Fate
<1>5. fate' \in [Span -> Fate]
  BY <1>1, <1>2, <1>3, <1>4
<1> QED BY <1>1, <1>2, <1>3, <1>4, <1>5

LEMMA ClearHeld ==
    ASSUME HeldInv, NEW t \in Flushers, SettleClear(t)
    PROVE  HeldInv'
<1> DEFINE a == receipt.ack
           n == Len(pending.spans)
           again == [s \in Span |-> "undelivered"]
<1>0. /\ Delivered(t) /\ pc[t] = "sending" /\ flight[t] = pending
      /\ a \in Ack(n) /\ a.hint \in Nat /\ n \in Nat /\ Len(a.retry) \in Nat
      /\ Range(pending.spans) \subseteq Span
  BY ReceiptTyped, Sending, AgainOfPinned DEF SettleClear
<1>1. /\ Finish(t, TRUE) /\ failing' = FALSE /\ rounds' = 0
      /\ Unpin /\ Judged(t, again) /\ ApplyHints(a.hint)
      /\ shed' = [Booked(n, a) EXCEPT !["undelivered"] = @ + Len(a.retry)]
      /\ dropped' = BookedDrops(n, a) + Len(a.retry)
      /\ UNCHANGED <<exported, buf, stopping, landed>>
  BY <1>0 DEF SettleClear, ClearPacing
<1>2. again \in [Span -> Fate] /\ "undelivered" \in Buckets
  BY DEF Fate, Buckets
<1>3. /\ fate' \in [Span -> Fate]
      /\ \A s \in Span \ Range(pending.spans) : fate'[s] = fate[s]
      /\ \A s \in Range(pending.spans) : fate'[s] \notin {"none", "held"}
  <2>1. /\ fate' \in [Span -> Fate]
        /\ \A s \in Range(Again(t)) : fate'[s] = again[s]
        /\ \A s \in Range(pending.spans) \ Range(Again(t)) :
               fate'[s] \notin {"none", "held"}
        /\ \A s \in Span \ Range(pending.spans) : fate'[s] = fate[s]
    BY <1>0, <1>1, <1>2, JudgedTyped
  <2>2. Range(Again(t)) \subseteq Span
    BY <1>0, AgainOfPinned
  <2> QED BY <2>1, <2>2
<1>4. /\ NumberedInOrder' /\ ReceiptOfPinned' /\ HeldExactlyOnce' /\ BoundedMemory'
      /\ pending' \in [spans : Seq(Span), encoded : BOOLEAN, attempts : Nat]
      /\ receipt'.verdict = <<>>
  BY <1>1, <1>3, BatchOver
<1>5. /\ OneFlight' /\ flushLock' \in Flushers \cup {NoOne}
      /\ pc' \in [Flushers -> {"idle", "taken", "sending"}]
      /\ flight' \in [Flushers ->
                        [spans : Seq(Span), encoded : BOOLEAN, attempts : Nat]]
      /\ daemon' \in {"none", "running", "draining", "done", "died"}
  BY <1>1, <1>0, FinishHeld
<1>6. shed' \in [Buckets -> Nat] /\ dropped' \in Nat
  <2>1. Booked(n, a) \in [Buckets -> Nat] /\ BookedDrops(n, a) \in Nat
    BY <1>0, BookedTyped
  <2> HIDE DEF a, n
  <2> QED BY <2>1, <1>0, <1>1, <1>2, CounterAdds
<1>7. rounds' \in 0..RetryMax
  BY <1>1, ConstantsAssumption
<1>8. batchLimit' \in 1..MaxBatch
  BY <1>0, <1>1, HintBounded
<1>9. failing' \in BOOLEAN /\ buf' \in Seq(Span)
  BY <1>1 DEF HeldInv, TypeOK
<1>10. TypeOK'
  BY <1>1, <1>3, <1>4, <1>5, <1>6, <1>7, <1>8, <1>9, SettledTyped
<1> QED BY <1>4, <1>5, <1>10 DEF HeldInv

\* A re-enqueue: what comes back joins the buffer, and the cap takes its excess
\* from what came back, never from what was already buffered.
LEMMA RefillHeld ==
    ASSUME HeldInv, NEW t \in Flushers, Delivered(t)
    PROVE  LET front == SubSeq(Refilled(t), 1, Excess(t))
               back == SubSeq(Refilled(t), Excess(t) + 1, Len(Refilled(t)))
           IN  /\ back \in Seq(Span) /\ Len(back) <= MaxBuffer
               /\ Excess(t) \in Nat
               /\ IsInjective(back)
               /\ Range(front) \subseteq Range(Again(t))
               /\ Range(back) = (Range(Again(t)) \ Range(front)) \cup Range(buf)
<1> DEFINE q == Again(t)
           whole == Refilled(t)
           cut == Excess(t)
           front == SubSeq(whole, 1, cut)
           back == SubSeq(whole, cut + 1, Len(whole))
<1>1. /\ q \in Seq(Span) /\ IsInjective(q) /\ Range(q) \subseteq Range(pending.spans)
      /\ buf \in Seq(Span) /\ IsInjective(buf) /\ Range(buf) \cap Range(pending.spans) = {}
      /\ Len(buf) <= MaxBuffer /\ MaxBuffer \in Nat /\ Len(buf) \in Nat /\ Len(q) \in Nat
  BY AgainOfPinned, ConstantsAssumption, SMTT(30)
  DEF HeldInv, TypeOK, HeldExactlyOnce, BoundedMemory
<1>2. whole = q \o buf
  BY DEF Refilled
<1>3. cut = GreaterOf(0, Len(whole) - MaxBuffer)
  BY DEF Excess
<1> HIDE DEF q, whole, cut
<1>4. Range(q) \cap Range(buf) = {}
  BY <1>1
<1>5. /\ whole \in Seq(Span) /\ Len(whole) = Len(q) + Len(buf)
      /\ Range(whole) = Range(q) \cup Range(buf) /\ IsInjective(whole)
  BY <1>1, <1>2, <1>4, JoinSequences
<1>6. /\ cut \in 0..Len(whole) /\ cut \in 0..Len(q) /\ cut \in Nat
      /\ Len(whole) - cut <= MaxBuffer
  BY <1>1, <1>3, <1>5 DEF GreaterOf
<1>7. /\ back \in Seq(Span) /\ Len(back) = Len(whole) - cut /\ IsInjective(back)
      /\ Range(whole) = Range(front) \cup Range(back)
      /\ Range(front) \cap Range(back) = {}
  <2>1. whole \in Seq(Span) /\ IsInjective(whole) /\ cut \in 0..Len(whole)
    BY <1>5, <1>6
  <2> QED BY ONLY <2>1, CutSequence
<1>8. Range(front) \subseteq Range(q)
  BY <1>1, <1>2, <1>6, CutOfJoin
<1> HIDE DEF front, back
<1>9. Range(back) = (Range(q) \ Range(front)) \cup Range(buf)
  BY <1>4, <1>5, <1>7, <1>8
<1> QED BY <1>6, <1>7, <1>8, <1>9 DEF q, whole, cut, front, back

LEMMA RequeueHeld ==
    ASSUME HeldInv, NEW t \in Flushers, SettleRequeue(t)
    PROVE  HeldInv'
<1> DEFINE a == receipt.ack
           n == Len(pending.spans)
           cut == Excess(t)
           front == SubSeq(Refilled(t), 1, cut)
           back == SubSeq(Refilled(t), cut + 1, Len(Refilled(t)))
           again == [s \in Span |-> IF s \in Range(front) THEN "overflow" ELSE "held"]
<1>0. /\ Delivered(t) /\ pc[t] = "sending" /\ flight[t] = pending
      /\ a \in Ack(n) /\ a.hint \in Nat /\ n \in Nat /\ Len(a.retry) \in Nat
      /\ Range(pending.spans) \subseteq Span
      /\ Range(Again(t)) \subseteq Range(pending.spans)
  BY ReceiptTyped, Sending, AgainOfPinned DEF SettleRequeue
<1>1. /\ Finish(t, TRUE) /\ rounds < RetryMax
      /\ Unpin /\ Judged(t, again) /\ ApplyHints(a.hint)
      /\ buf' = back
      /\ shed' = [Booked(n, a) EXCEPT !["bufferOverflow"] = @ + cut]
      /\ dropped' = BookedDrops(n, a) + cut
      /\ SpendRound(cut < Len(a.retry)) /\ failing' = (cut < Len(a.retry))
      /\ UNCHANGED <<exported, stopping, landed>>
  BY <1>0 DEF SettleRequeue, PaceRequeue
<1>2. /\ back \in Seq(Span) /\ Len(back) <= MaxBuffer /\ cut \in Nat
      /\ IsInjective(back)
      /\ Range(front) \subseteq Range(Again(t))
      /\ Range(back) = (Range(Again(t)) \ Range(front)) \cup Range(buf)
  BY <1>0, RefillHeld
<1>3. again \in [Span -> Fate] /\ "bufferOverflow" \in Buckets
  BY DEF Fate, Buckets
<1>4. /\ fate' \in [Span -> Fate]
      /\ \A s \in Range(Again(t)) : fate'[s] = again[s]
      /\ \A s \in Range(pending.spans) \ Range(Again(t)) : fate'[s] \notin {"none", "held"}
      /\ \A s \in Span \ Range(pending.spans) : fate'[s] = fate[s]
  BY <1>0, <1>1, <1>3, JudgedTyped
<1>5. /\ pending' = NoBatch /\ receipt' = NoReceipt
      /\ pending'.spans = <<>> /\ receipt'.verdict = <<>>
      /\ pending' \in [spans : Seq(Span), encoded : BOOLEAN, attempts : Nat]
  BY <1>1 DEF Unpin, NoBatch, NoReceipt
<1>6. /\ OneFlight' /\ flushLock' \in Flushers \cup {NoOne}
      /\ pc' \in [Flushers -> {"idle", "taken", "sending"}]
      /\ flight' \in [Flushers ->
                        [spans : Seq(Span), encoded : BOOLEAN, attempts : Nat]]
      /\ daemon' \in {"none", "running", "draining", "done", "died"}
  BY <1>1, <1>0, FinishHeld
<1>7. shed' \in [Buckets -> Nat] /\ dropped' \in Nat
  <2>1. Booked(n, a) \in [Buckets -> Nat] /\ BookedDrops(n, a) \in Nat
    BY <1>0, BookedTyped
  <2> HIDE DEF a, n, cut
  <2> QED BY <2>1, <1>1, <1>2, <1>3, CounterAdds
<1>8. rounds' \in 0..RetryMax
  <2>1. rounds \in 0..RetryMax /\ RetryMax \in Nat
    BY ConstantsAssumption DEF HeldInv, TypeOK
  <2> QED BY <2>1, <1>1 DEF SpendRound
<1>9. batchLimit' \in 1..MaxBatch
  BY <1>0, <1>1, HintBounded
<1>10. failing' \in BOOLEAN /\ buf' \in Seq(Span)
  BY <1>1, <1>2
<1>11. TypeOK'
  BY <1>1, <1>4, <1>5, <1>6, <1>7, <1>8, <1>9, <1>10, SettledTyped
<1>12. /\ InHand = {s \in Span : fate[s] = "held"}
       /\ Range(buf) \cap Range(pending.spans) = {}
       /\ Range(buf) \subseteq InHand /\ Range(pending.spans) \subseteq InHand
       /\ InHand = Range(buf) \cup Range(pending.spans)
  BY DEF HeldInv, HeldExactlyOnce, InHand
<1> HIDE DEF front, back, cut
<1>13. \A s \in Range(Again(t)) :
          fate'[s] = IF s \in Range(front) THEN "overflow" ELSE "held"
  BY <1>0, <1>4
<1>14. NumberedInOrder'
  <2> SUFFICES ASSUME NEW s \in Span PROVE fate'[s] = "none" <=> s > exported
    BY <1>1 DEF NumberedInOrder
  <2>1. CASE s \in Range(pending.spans)
    <3>1. fate'[s] # "none"
      BY <2>1, <1>4, <1>13
    <3>2. fate[s] = "held"
      BY <2>1, <1>12
    <3> QED BY <3>1, <3>2 DEF HeldInv, NumberedInOrder
  <2>2. CASE s \notin Range(pending.spans)
    BY <2>2, <1>4 DEF HeldInv, NumberedInOrder
  <2> QED BY <2>1, <2>2
<1>15. {s \in Span : fate'[s] = "held"} = Range(back)
  <2> SUFFICES ASSUME NEW s \in Span PROVE fate'[s] = "held" <=> s \in Range(back)
    BY <1>0, <1>2, <1>12
  <2>1. CASE s \in Range(Again(t))
    BY <2>1, <1>0, <1>2, <1>12, <1>13
  <2>2. CASE s \in Range(pending.spans) \ Range(Again(t))
    BY <2>2, <1>2, <1>4, <1>12
  <2>3. CASE s \notin Range(pending.spans)
    BY <2>3, <1>0, <1>2, <1>4, <1>12
  <2> QED BY <2>1, <2>2, <2>3
<1>16. HeldExactlyOnce'
  <2>1. Range(pending'.spans) = {} /\ IsInjective(pending'.spans)
    BY <1>5 DEF Range, IsInjective
  <2>2. InHand' = Range(back)
    BY <1>1, <2>1 DEF InHand
  <2> QED BY <1>1, <1>2, <1>15, <2>1, <2>2 DEF HeldExactlyOnce
<1>17. BoundedMemory'
  BY <1>1, <1>2, <1>5, ConstantsAssumption DEF BoundedMemory
<1>18. ReceiptOfPinned'
  BY <1>5 DEF ReceiptOfPinned
<1> QED BY <1>6, <1>11, <1>14, <1>16, <1>17, <1>18 DEF HeldInv

-----------------------------------------------------------------------------
(* The invariant, and what follows from it.                                *)

LEMMA HeldInvStep == HeldInv /\ [Next]_vars => HeldInv'
<1> SUFFICES ASSUME HeldInv, [Next]_vars PROVE HeldInv'
  OBVIOUS
<1>1. CASE Export
  BY <1>1, ExportHeld
<1>2. CASE Start \/ Stop \/ DaemonWinds
  BY <1>2, WorkerHeld
<1>3. CASE GatewayDecides
  BY <1>3, GatewayHeld
<1>4. ASSUME NEW t \in Flushers, Flush(t) PROVE HeldInv'
  <2>1. CASE TakeBatch(t)
    BY <2>1, TakeBatchHeld
  <2>2. CASE Encode(t)
    BY <2>2, EncodeHeld
  <2>3. CASE EncodeRaises(t)
    BY <2>3, EncodeRaisesHeld
  <2>4. CASE SettleRefused(t)
    BY <2>4, RefusedHeld
  <2>5. CASE SettleRetryable(t)
    BY <2>5, RetryableHeld
  <2>6. CASE SettleUnreadable(t)
    BY <2>6, UnreadableHeld
  <2>7. CASE SettleTruncated(t)
    BY <2>7, TruncatedHeld
  <2>8. CASE SettleDistrusted(t)
    BY <2>8, DistrustedHeld
  <2>9. CASE SettleRequeue(t)
    BY <2>9, RequeueHeld
  <2>10. CASE SettleClear(t)
    BY <2>10, ClearHeld
  <2> QED
    BY <1>4, <2>1, <2>2, <2>3, <2>4, <2>5, <2>6, <2>7, <2>8, <2>9, <2>10
    DEF Flush, Settle
<1>5. CASE UNCHANGED vars
  <2>1. TypeOK' /\ OneFlight' /\ NumberedInOrder'
    BY <1>5 DEF HeldInv, TypeOK, OneFlight, NumberedInOrder, vars
  <2>2. ReceiptOfPinned' /\ HeldExactlyOnce' /\ BoundedMemory'
    BY <1>5
    DEF HeldInv, ReceiptOfPinned, HeldExactlyOnce, InHand, BoundedMemory, vars
  <2> QED BY <2>1, <2>2 DEF HeldInv
<1> QED BY <1>1, <1>2, <1>3, <1>4, <1>5 DEF Next

\* HeldInv is an invariant of every instance of the transport.
THEOREM HeldInvHolds == Spec => []HeldInv
<1>1. Init => HeldInv
  BY HeldInvInit
<1>2. HeldInv /\ [Next]_vars => HeldInv'
  BY HeldInvStep
<1> QED BY <1>1, <1>2, PTL DEF Spec

\* Every variable of the transport keeps its type: in particular a server hint
\* leaves max_batch_size within 1..MaxBatch and the rounds stay within budget.
THEOREM TypeCorrect == Spec => []TypeOK
<1>1. HeldInv => TypeOK
  BY DEF HeldInv
<1> QED BY <1>1, HeldInvHolds, PTL

\* CTO-260 section 5: no flush interleaving and no answer of the gateway loses
\* an exported span without an end, or puts one in two places.
THEOREM HeldExactlyOnceHolds == Spec => []HeldExactlyOnce
<1>1. HeldInv => HeldExactlyOnce
  BY DEF HeldInv
<1> QED BY <1>1, HeldInvHolds, PTL

\* max_buffer and max_batch_size bound what the exporter holds, re-enqueues
\* and hints included.
THEOREM BoundedMemoryHolds == Spec => []BoundedMemory
<1>1. HeldInv => BoundedMemory
  BY DEF HeldInv
<1> QED BY <1>1, HeldInvHolds, PTL

-----------------------------------------------------------------------------
(* #315: the bytes of a pinned batch.                                      *)

LEMMA ResendStep ==
    HeldInv /\ [Next]_vars =>
        [pending.encoded => \/ pending' = NoBatch
                            \/ /\ pending'.spans = pending.spans
                               /\ pending'.encoded]_vars
<1> SUFFICES ASSUME HeldInv, [Next]_vars, pending.encoded, pending' # pending
             PROVE  \/ pending' = NoBatch
                    \/ pending'.spans = pending.spans /\ pending'.encoded
  OBVIOUS
<1>1. pending # NoBatch
  BY DEF NoBatch
<1>2. PICK t \in Flushers : Flush(t)
  <2>1. ~(Export \/ Start \/ Stop \/ DaemonWinds \/ GatewayDecides)
    BY DEF Export, Start, Stop, DaemonWinds, GatewayDecides, codeVars
  <2>2. ~(UNCHANGED vars)
    BY DEF vars
  <2> QED BY <2>1, <2>2 DEF Next
<1>3. CASE TakeBatch(t)
  BY <1>1, <1>3 DEF TakeBatch
<1>4. CASE Encode(t)
  <2>1. pending.spans = flight[t].spans
    BY <1>4 DEF Encode, HeldInv, OneFlight
  <2>2. pending' = [pending EXCEPT !.encoded = TRUE]
    BY <2>1, <1>4 DEF Encode
  <2>3. pending \in [spans : Seq(Span), encoded : BOOLEAN, attempts : Nat]
    BY DEF HeldInv, TypeOK
  <2> QED BY <2>2, <2>3
<1>5. CASE EncodeRaises(t)
  BY <1>5 DEF EncodeRaises, StaysPinned
<1>6. CASE SettleRetryable(t)
  <2>1. /\ flight[t] = pending
        /\ pending \in [spans : Seq(Span), encoded : BOOLEAN, attempts : Nat]
    BY <1>6, Sending DEF SettleRetryable
  <2>2. CASE ShedBatch(t, "undelivered", "undelivered")
    BY <2>2 DEF ShedBatch, Unpin
  <2>3. CASE Repin(t, flight[t].attempts + 1)
    BY <2>1, <2>3 DEF Repin
  <2> QED BY <1>6, <2>2, <2>3 DEF SettleRetryable
<1>7. CASE \/ SettleRefused(t) \/ SettleUnreadable(t) \/ SettleTruncated(t)
           \/ SettleDistrusted(t) \/ SettleRequeue(t) \/ SettleClear(t)
  BY <1>7 DEF SettleRefused, ShedBatch, SettleUnreadable, SettleTruncated,
              SettleDistrusted, SettleRequeue, SettleClear, Unpin
<1> QED BY <1>2, <1>3, <1>4, <1>5, <1>6, <1>7 DEF Flush, Settle

\* A pinned batch is resent with the same spans and the same bytes until it is
\* answered or shed, so that the gateway's batch_id receipt answers the resend.
THEOREM ResendsIdenticalHolds == Spec => ResendsIdentical
<1>1. HeldInv /\ [Next]_vars =>
          [pending.encoded => \/ pending' = NoBatch
                              \/ /\ pending'.spans = pending.spans
                                 /\ pending'.encoded]_vars
  BY ResendStep
<1> QED BY <1>1, HeldInvHolds, PTL DEF Spec, ResendsIdentical

-----------------------------------------------------------------------------
(* #311: what a truthful gateway has written is never sent afresh.         *)

\* A truthful ack asks again only for spans that were not written.
LEMMA AgainUnwritten ==
    ASSUME Honest, HeldInv, WrittenInv, NEW t \in Flushers, Delivered(t)
    PROVE  Range(Again(t)) \cap landed = {}
<1>1. /\ flight[t] = pending /\ receipt # NoReceipt
      /\ receipt.verdict \in [1..Len(pending.spans) -> Verdict]
      /\ DOMAIN pending.spans = 1..Len(pending.spans)
  BY ReceiptTyped, Sending DEF Delivered
<1>2. receipt.ack \in TruthfulAcks(receipt.verdict)
  BY ReceiptTyped DEF Acks
<1>3. Range(receipt.ack.retry) = {j \in DOMAIN receipt.verdict : receipt.verdict[j] = "retry"}
  BY <1>2 DEF TruthfulAcks
<1> SUFFICES ASSUME NEW k \in DOMAIN receipt.ack.retry PROVE Again(t)[k] \notin landed
  BY DEF Again, Range
<1> DEFINE j == receipt.ack.retry[k]
<1>4. Again(t)[k] = pending.spans[j]
  BY <1>1 DEF Again
<1>5. j \in Range(receipt.ack.retry)
  BY DEF Range
<1> HIDE DEF j
<1>6. j \in DOMAIN pending.spans /\ receipt.verdict[j] = "retry"
  BY <1>1, <1>3, <1>5
<1>7. ~Written(receipt.verdict[j])
  BY <1>6 DEF Written
<1> QED BY <1>1, <1>4, <1>6, <1>7 DEF WrittenInv

LEMMA WrittenInit == Init => WrittenInv
BY DEF Init, WrittenInv

\* Once the batch is over, only the buffer can hold a written span, and a step
\* that leaves or shrinks the buffer to unwritten spans does not.
LEMMA WrittenUnpinned ==
    ASSUME WrittenInv, Unpin, UNCHANGED <<landed, exported>>,
           Range(buf') \cap landed = {}
    PROVE  WrittenInv'
<1>1. receipt' = NoReceipt /\ Range(pending'.spans) = {}
  BY DEF Unpin, NoBatch, Range
<1> QED BY <1>1 DEF WrittenInv

LEMMA WrittenStep ==
    ASSUME Honest PROVE HeldInv /\ WrittenInv /\ [Next]_vars => WrittenInv'
<1> SUFFICES ASSUME HeldInv, WrittenInv, [Next]_vars PROVE WrittenInv'
  OBVIOUS
<1>1. CASE Export
  <2>1. /\ exported \in Nat /\ exported' = exported + 1 /\ buf \in Seq(Span)
        /\ exported + 1 \in Span
        /\ UNCHANGED <<pending, receipt, landed>>
    BY <1>1, ConstantsAssumption DEF Export, HeldInv, TypeOK, Span
  <2>2. exported + 1 \notin landed /\ landed \subseteq 1..exported'
    BY <2>1 DEF WrittenInv
  <2>3. Range(buf') \subseteq Range(buf) \cup {exported + 1}
    <3>1. CASE buf' = Append(buf, exported + 1)
      BY <3>1, <2>1, AppendNew
    <3>2. CASE buf' = Append(Tail(buf), exported + 1) /\ Len(buf) >= MaxBuffer
      <4>1. buf # <<>>
        BY <3>2, <2>1, ConstantsAssumption
      <4> DEFINE rest == Tail(buf)
      <4>2. rest \in Seq(Span) /\ Range(rest) \subseteq Range(buf)
        BY <4>1, <2>1, HeadAndTail
      <4> HIDE DEF rest
      <4>3. Range(Append(rest, exported + 1)) = Range(rest) \cup {exported + 1}
        BY <4>2, <2>1, AppendNew
      <4> QED BY <3>2, <4>2, <4>3 DEF rest
    <3> QED BY <1>1, <3>1, <3>2 DEF Export
  <2> QED BY <2>1, <2>2, <2>3 DEF WrittenInv
<1>2. CASE Start \/ Stop \/ DaemonWinds
  <2>1. UNCHANGED <<exported, buf, pending, receipt, landed>>
    BY <1>2 DEF Start, Stop, DaemonWinds
  <2> QED BY <2>1 DEF WrittenInv
<1>3. CASE GatewayDecides
  <2>1. /\ receipt = NoReceipt /\ pending.spans \in Seq(Span)
        /\ UNCHANGED <<exported, buf, pending>>
        /\ pending.spans # <<>> /\ Len(pending.spans) \in Nat \ {0}
        /\ DOMAIN pending.spans = 1..Len(pending.spans)
    BY <1>3 DEF GatewayDecides, codeVars, HeldInv, TypeOK, ReceiptOfPinned
  <2>2. PICK v \in [1..Len(pending.spans) -> Verdicts] :
            /\ \E a \in Acks(v) : receipt' = [verdict |-> v, ack |-> a]
            /\ landed' = landed \cup
                  {pending.spans[i] : i \in {j \in DOMAIN v : Written(v[j])}}
    BY <1>3 DEF GatewayDecides
  <2>3. receipt'.verdict = v /\ DOMAIN v = DOMAIN pending.spans
    BY <2>1, <2>2
  <2>4. receipt' # NoReceipt
    <3>1. 1 \in DOMAIN v
      BY <2>1, <2>3
    <3> QED BY <2>3, <3>1 DEF NoReceipt
  <2>5. landed' \subseteq landed \cup Range(pending.spans)
    BY <2>2, <2>3 DEF Range
  <2>6. Range(pending.spans) \subseteq 1..exported
    <3> SUFFICES ASSUME NEW s \in Range(pending.spans) PROVE s \in 1..exported
      OBVIOUS
    <3>1. s \in Span /\ fate[s] = "held"
      BY DEF HeldInv, HeldExactlyOnce, InHand
    <3>2. ~(s > exported)
      BY <3>1 DEF HeldInv, NumberedInOrder
    <3> QED BY <3>1, <3>2, ConstantsAssumption DEF Span, HeldInv, TypeOK
  <2>7. landed' \cap Range(buf') = {}
    BY <2>1, <2>5 DEF WrittenInv, HeldInv, HeldExactlyOnce
  <2>8. ASSUME NEW i \in DOMAIN pending.spans, pending.spans[i] \in landed'
        PROVE  Written(receipt'.verdict[i])
    <3>1. pending.spans[i] \notin landed
      BY <2>1 DEF WrittenInv, Range
    <3>2. PICK j \in DOMAIN v : Written(v[j]) /\ pending.spans[i] = pending.spans[j]
      BY <3>1, <2>2, <2>8
    <3>3. i = j
      BY <3>2, <2>3 DEF HeldInv, HeldExactlyOnce, IsInjective
    <3> QED BY <3>2, <3>3, <2>3
  <2> QED BY <2>1, <2>4, <2>5, <2>6, <2>7, <2>8 DEF WrittenInv
<1>4. ASSUME NEW t \in Flushers, TakeBatch(t) PROVE WrittenInv'
  <2>1. UNCHANGED <<exported, receipt, landed>>
    BY <1>4 DEF TakeBatch
  <2>2. CASE pending # NoBatch
    BY <1>4, <2>1, <2>2 DEF TakeBatch, WrittenInv
  <2>3. CASE pending = NoBatch
    <3> DEFINE n == LesserOf(batchLimit, Len(buf))
               front == SubSeq(buf, 1, n)
               back == SubSeq(buf, n + 1, Len(buf))
    <3>1. /\ buf' = back /\ pending' = [NoBatch EXCEPT !.spans = front]
          /\ receipt = NoReceipt
      BY <1>4, <2>3 DEF TakeBatch, HeldInv, ReceiptOfPinned, NoBatch
    <3>2. n \in 0..Len(buf) /\ buf \in Seq(Span)
      BY ConstantsAssumption DEF LesserOf, HeldInv, TypeOK
    <3> HIDE DEF n
    <3>3. Range(buf) = Range(front) \cup Range(back)
      BY <3>2, CutSequence
    <3> HIDE DEF front, back
    <3>4. pending'.spans = front
      BY <3>1 DEF NoBatch
    <3> QED BY <2>1, <3>1, <3>3, <3>4 DEF WrittenInv
  <2> QED BY <2>2, <2>3
<1>5. ASSUME NEW t \in Flushers, Encode(t) PROVE WrittenInv'
  <2>1. UNCHANGED <<exported, buf, receipt, landed>>
    BY <1>5 DEF Encode
  <2>2. pending \in [spans : Seq(Span), encoded : BOOLEAN, attempts : Nat]
    BY DEF HeldInv, TypeOK
  <2>3. pending'.spans = pending.spans
    BY <1>5, <2>2 DEF Encode
  <2> QED BY <2>1, <2>3 DEF WrittenInv
<1>6. ASSUME NEW t \in Flushers, EncodeRaises(t) PROVE WrittenInv'
  BY <1>6 DEF EncodeRaises, StaysPinned, WrittenInv
<1>7. ASSUME NEW t \in Flushers, SettleRetryable(t) PROVE WrittenInv'
  <2>0. UNCHANGED <<exported, buf, landed>> /\ pc[t] = "sending"
    BY <1>7 DEF SettleRetryable
  <2>1. CASE ShedBatch(t, "undelivered", "undelivered")
    <3>1. Range(buf') \cap landed = {}
      BY <2>0 DEF WrittenInv
    <3> QED BY <2>0, <2>1, <3>1, WrittenUnpinned DEF ShedBatch
  <2>2. CASE Repin(t, flight[t].attempts + 1) /\ UNCHANGED receipt
    <3>1. pending'.spans = pending.spans
      BY <2>0, <2>2, Sending DEF Repin
    <3> QED BY <2>0, <2>2, <3>1 DEF WrittenInv
  <2> QED BY <1>7, <2>1, <2>2 DEF SettleRetryable
<1>8. ASSUME NEW t \in Flushers,
             \/ SettleRefused(t) \/ SettleUnreadable(t) \/ SettleTruncated(t)
             \/ SettleDistrusted(t) \/ SettleClear(t)
      PROVE  WrittenInv'
  <2>1. Unpin /\ UNCHANGED <<exported, buf, landed>>
    BY <1>8 DEF SettleRefused, ShedBatch, SettleUnreadable, SettleTruncated,
                SettleDistrusted, SettleClear
  <2>2. Range(buf') \cap landed = {}
    BY <2>1 DEF WrittenInv
  <2> QED BY <2>1, <2>2, WrittenUnpinned
<1>9. ASSUME NEW t \in Flushers, SettleRequeue(t) PROVE WrittenInv'
  <2>1. /\ Delivered(t) /\ Unpin /\ UNCHANGED <<exported, landed>>
        /\ buf' = SubSeq(Refilled(t), Excess(t) + 1, Len(Refilled(t)))
    BY <1>9 DEF SettleRequeue
  <2>2. Range(buf') \subseteq Range(Again(t)) \cup Range(buf)
    BY <2>1, RefillHeld
  <2>3. Range(Again(t)) \cap landed = {}
    BY <2>1, AgainUnwritten
  <2>4. Range(buf') \cap landed = {}
    BY <2>2, <2>3 DEF WrittenInv
  <2> QED BY <2>1, <2>4, WrittenUnpinned
<1>10. CASE UNCHANGED vars
  BY <1>10 DEF WrittenInv, vars
<1> QED
  BY <1>1, <1>2, <1>3, <1>4, <1>5, <1>6, <1>7, <1>8, <1>9, <1>10
  DEF Next, Flush, Settle

\* #311, CTO-391: with a gateway that reports what it did, a written span never
\* re-enters the buffer, whatever is lost, delayed or cut short in between.
THEOREM NoDoubleSendHolds == ASSUME Honest PROVE Spec => []NoDoubleSend
<1>1. Init => WrittenInv
  BY WrittenInit
<1>2. HeldInv /\ WrittenInv /\ [Next]_vars => WrittenInv'
  BY WrittenStep
<1>3. WrittenInv => NoDoubleSend
  BY DEF WrittenInv, NoDoubleSend
<1> QED BY <1>1, <1>2, <1>3, HeldInvHolds, PTL DEF Spec

-----------------------------------------------------------------------------
(* CTO-391: the loss figures and the backoff.                              *)

\* What is lost and what is in hand were exported, each span counted once.  The
\* lengths stand for the spans in hand: no span is in hand twice.
LossInv ==
    /\ Losses + Len(buf) + Len(pending.spans) <= exported
    /\ dropped = Losses

\* The five figures, of any counters.
LossesOf(c) == c["undelivered"] + c["rejected"] + c["rejectedByGateway"]
               + c["unmappedRetryable"] + c["bufferOverflow"]

LossBuckets == Buckets \ {"unknownCode"}

\* What the sums below are taken of.
LEMMA LossTyped ==
    ASSUME HeldInv
    PROVE  /\ shed \in [Buckets -> Nat] /\ Losses = LossesOf(shed) /\ Losses \in Nat
           /\ Losses' = LossesOf(shed')
           /\ buf \in Seq(Span) /\ Len(buf) \in Nat
           /\ pending.spans \in Seq(Span) /\ Len(pending.spans) \in Nat
           /\ exported \in Nat /\ dropped \in Nat
<1>1. /\ shed \in [Buckets -> Nat] /\ buf \in Seq(Span) /\ exported \in 0..NumSpans
      /\ pending \in [spans : Seq(Span), encoded : BOOLEAN, attempts : Nat]
      /\ dropped \in Nat
  BY DEF HeldInv, TypeOK
<1>2. \A b \in Buckets : shed[b] \in Nat
  BY <1>1
<1>3. /\ "undelivered" \in Buckets /\ "rejected" \in Buckets
      /\ "rejectedByGateway" \in Buckets /\ "unmappedRetryable" \in Buckets
      /\ "bufferOverflow" \in Buckets
  BY DEF Buckets
<1>4. Losses = LossesOf(shed) /\ Losses' = LossesOf(shed')
  BY DEF Losses, LossesOf
<1>5. Losses \in Nat
  BY <1>2, <1>3 DEF Losses
<1>6. pending.spans \in Seq(Span) /\ exported \in Nat
  BY <1>1, ConstantsAssumption
<1>7. Len(buf) \in Nat /\ Len(pending.spans) \in Nat
  BY <1>1, <1>6, LenProperties
<1> QED  BY <1>1, <1>4, <1>5, <1>6, <1>7

\* A figure that grows by k makes the losses grow by k.
LEMMA LossAdds ==
    ASSUME NEW c \in [Buckets -> Nat], NEW b \in LossBuckets, NEW k \in Nat
    PROVE  /\ [c EXCEPT ![b] = @ + k] \in [Buckets -> Nat]
           /\ LossesOf([c EXCEPT ![b] = @ + k]) = LossesOf(c) + k
           /\ LossesOf(c) \in Nat
<1> DEFINE d == [c EXCEPT ![b] = @ + k]
<1>1. b \in Buckets /\ d \in [Buckets -> Nat] /\ d[b] = c[b] + k
      /\ \A x \in Buckets \ {b} : d[x] = c[x]
  BY DEF LossBuckets
<1>2. \A x \in Buckets : c[x] \in Nat
  OBVIOUS
<1>3. /\ "undelivered" \in Buckets /\ "rejected" \in Buckets
      /\ "rejectedByGateway" \in Buckets /\ "unmappedRetryable" \in Buckets
      /\ "bufferOverflow" \in Buckets
  BY DEF Buckets
<1> HIDE DEF d
<1>4. LossesOf(d) = LossesOf(c) + k /\ LossesOf(c) \in Nat
  BY <1>1, <1>2, <1>3 DEF LossesOf, LossBuckets, Buckets
<1> QED  BY <1>1, <1>4 DEF d

\* An unknown code is on neither side.
LEMMA UnknownIsNoLoss ==
    ASSUME NEW c \in [Buckets -> Nat], NEW k \in Nat
    PROVE  /\ [c EXCEPT !["unknownCode"] = @ + k] \in [Buckets -> Nat]
           /\ LossesOf([c EXCEPT !["unknownCode"] = @ + k]) = LossesOf(c)
  BY DEF LossesOf, Buckets

LEMMA LossStart == Init => LossInv
<1> SUFFICES ASSUME Init PROVE LossInv
  OBVIOUS
<1>1. \A b \in Buckets : shed[b] = 0
  BY DEF Init
<1>2. Losses = 0
  BY <1>1 DEF Losses, Buckets
<1>3. Len(buf) = 0 /\ Len(pending.spans) = 0 /\ exported = 0 /\ dropped = 0
  BY DEF Init, NoBatch
<1> QED  BY <1>2, <1>3 DEF LossInv

LEMMA ExportLoss == ASSUME HeldInv, LossInv, Export PROVE LossInv'
<1>0. /\ exported \in 0..NumSpans /\ NumSpans \in Nat /\ exported < NumSpans
  BY ConstantsAssumption DEF HeldInv, TypeOK, Export
<1>1. /\ exported + 1 \in Span /\ "bufferOverflow" \in LossBuckets
      /\ pending' = pending /\ exported' = exported + 1
      /\ MaxBuffer \in Nat \ {0}
  BY <1>0, ConstantsAssumption DEF Export, Span, LossBuckets, Buckets
<1> USE LossTyped
<1>2. CASE Len(buf) < MaxBuffer
  <2>1. buf' = Append(buf, exported + 1) /\ UNCHANGED <<shed, dropped>>
    BY <1>1, <1>2 DEF Export
  <2>2. Len(buf') = Len(buf) + 1
    BY <1>1, <2>1, AppendNew
  <2>3. Losses' = Losses
    BY <2>1 DEF Losses
  <2> QED  BY <1>1, <2>1, <2>2, <2>3 DEF LossInv
<1>3. CASE ~(Len(buf) < MaxBuffer)
  <2>1. /\ buf' = Append(Tail(buf), exported + 1)
        /\ shed' = [shed EXCEPT !["bufferOverflow"] = @ + 1] /\ dropped' = dropped + 1
    BY <1>3 DEF Export
  <2>2. buf # <<>>
    BY <1>1, <1>3
  <2>3. Tail(buf) \in Seq(Span) /\ Len(Tail(buf)) = Len(buf) - 1 /\ Len(buf) \in Nat
    BY <1>1, <2>2, HeadAndTail
  <2>4. Len(buf') = Len(buf)
    BY <1>1, <2>1, <2>3, AppendNew
  <2>5. Losses' = Losses + 1
    <3>1. /\ shed \in [Buckets -> Nat] /\ Losses = LossesOf(shed)
          /\ Losses' = LossesOf(shed') /\ 1 \in Nat
      BY LossTyped
    <3>2. LossesOf([shed EXCEPT !["bufferOverflow"] = @ + 1]) = LossesOf(shed) + 1
      BY <1>1, <3>1, LossAdds
    <3> QED  BY <2>1, <3>1, <3>2
  <2>6. Losses + Len(buf) + Len(pending.spans) <= exported /\ dropped = Losses
    BY DEF LossInv
  <2>7. exported' = exported + 1 /\ pending' = pending
    BY DEF Export
  <2>8. /\ Losses \in Nat /\ Len(buf) \in Nat /\ Len(pending.spans) \in Nat
        /\ exported \in Nat /\ Len(pending'.spans) = Len(pending.spans)
    BY <2>3, <2>7
  <2>9. Losses' + Len(buf') + Len(pending'.spans) <= exported' /\ dropped' = Losses'
    <3> DEFINE x == Losses
               y == Len(buf)
               z == Len(pending.spans)
    <3> HIDE DEF x, y, z
    <3>1. /\ x \in Nat /\ y \in Nat /\ z \in Nat /\ exported \in Nat
          /\ x + y + z <= exported /\ dropped = x
      BY <2>6, <2>8 DEF x, y, z
    <3>2. (x + 1) + y + z <= exported + 1 /\ dropped + 1 = x + 1
      BY <3>1
    <3> QED BY <2>1, <2>4, <2>5, <2>7, <2>8, <3>2 DEF x, y, z
  <2> QED  BY ONLY <2>9 DEF LossInv
<1> QED  BY <1>2, <1>3

LEMMA TakeLoss ==
    ASSUME HeldInv, LossInv, NEW t \in Flushers, TakeBatch(t)
    PROVE  LossInv'
<1>1. UNCHANGED <<exported, shed, dropped>> /\ batchLimit \in Nat
  BY ConstantsAssumption DEF TakeBatch, HeldInv, TypeOK
<1> USE LossTyped
<1>2. CASE UNCHANGED <<buf, pending>>
  BY <1>1, <1>2 DEF LossInv, Losses
<1>3. ASSUME pending = NoBatch, NEW n, n = LesserOf(batchLimit, Len(buf)),
             pending' = [NoBatch EXCEPT !.spans = SubSeq(buf, 1, n)],
             buf' = SubSeq(buf, n + 1, Len(buf))
      PROVE  LossInv'
  <2>1. n \in 0..Len(buf)
    BY <1>1, <1>3 DEF LesserOf
  <2>2. Len(pending.spans) = 0 /\ pending'.spans = SubSeq(buf, 1, n)
    BY <1>3 DEF NoBatch
  <2>3. Len(pending'.spans) = n /\ Len(buf') = Len(buf) - n
    BY <1>1, <1>3, <2>1, <2>2, CutSequence, SMTT(30)
  <2>4. Losses' = Losses
    BY <1>1 DEF Losses
  <2> QED  BY <1>1, <2>1, <2>2, <2>3, <2>4 DEF LossInv
<1> QED  BY <1>2, <1>3 DEF TakeBatch

\* A batch that is over, and is lost as a whole or not at all.
LEMMA UnpinLoss ==
    ASSUME HeldInv, LossInv, Unpin, UNCHANGED <<exported, buf>>,
           NEW k \in Nat, k <= Len(pending.spans), Losses' = Losses + k, dropped' = dropped + k
    PROVE  LossInv'
<1>1. Len(pending'.spans) = 0
  BY DEF Unpin, NoBatch
<1> QED  BY <1>1, LossTyped DEF LossInv

LEMMA ShedLoss ==
    ASSUME HeldInv, LossInv, NEW t \in Flushers, pc[t] = "sending",
           NEW bucket \in LossBuckets, NEW f, ShedBatch(t, bucket, f), UNCHANGED <<exported, buf>>
    PROVE  LossInv'
<1> DEFINE k == Len(pending.spans)
<1>1. /\ k \in Nat /\ shed \in [Buckets -> Nat] /\ Unpin
      /\ shed' = [shed EXCEPT ![bucket] = @ + k] /\ dropped' = dropped + k
      /\ Losses = LossesOf(shed) /\ Losses' = LossesOf(shed')
  BY Sending DEF ShedBatch, Losses, LossesOf
<1> HIDE DEF k
<1>2. Losses' = Losses + k
  BY <1>1, LossAdds
<1>3. k <= Len(pending.spans)
  BY <1>1 DEF k
<1> QED  BY <1>1, <1>2, <1>3, UnpinLoss

\* What a trusted ack books, with what it asks for again, is within the batch.
LEMMA BookedLoss ==
    ASSUME HeldInv, LossInv, NEW n \in Nat, NEW a \in Ack(n), Consistent(n, a)
    PROVE  /\ Booked(n, a) \in [Buckets -> Nat]
           /\ \E k \in Nat :
                /\ LossesOf(Booked(n, a)) = Losses + k
                /\ BookedDrops(n, a) = dropped + k
                /\ k + Len(a.retry) <= n
<1>1. /\ shed \in [Buckets -> Nat] /\ dropped \in Nat /\ Losses = LossesOf(shed)
  BY LossTyped
<1>2. /\ a.accepted \in Nat /\ a.unplacedRetry \in Nat /\ a.unplacedDead \in Nat
      /\ a.unknown \in Nat /\ a.dead \subseteq 1..n /\ a.retry \in Orders(n)
  BY DEF Ack
<1>3. Cardinality(a.dead) \in Nat /\ Len(a.retry) \in Nat
  <2>1. PICK k \in 0..n : a.retry \in [1..k -> 1..n]
    BY <1>2, OrdersTyped
  <2> QED BY <2>1, <1>2, PositionsCounted
<1> DEFINE lost == LostForGood(n, a)
           c1 == [shed EXCEPT !["rejectedByGateway"] = @ + lost]
           c2 == [c1 EXCEPT !["unmappedRetryable"] = @ + a.unplacedRetry]
           c3 == [c2 EXCEPT !["unknownCode"] = @ + a.unknown]
<1>4. lost \in Nat /\ lost + a.unplacedRetry + Len(a.retry) <= n
  <2> DEFINE r == Len(a.retry)
             d == Cardinality(a.dead)
             u == Unattributed(n, a)
  <2>1. a.accepted + (r + d + a.unplacedRetry + a.unplacedDead) <= n
    BY DEF Consistent, Named
  <2>2. u = GreaterOf(0, n - a.accepted - (r + d + a.unplacedRetry + a.unplacedDead) - a.unknown)
    BY DEF Unattributed, Named
  <2>3. lost = d + a.unplacedDead + u
    BY DEF LostForGood
  <2> HIDE DEF r, d, u, lost
  <2>4. r \in Nat /\ d \in Nat
    BY <1>3 DEF r, d
  <2>5. u \in Nat /\ u + (r + d + a.unplacedRetry + a.unplacedDead) <= n
    <3> DEFINE m == r + d + a.unplacedRetry + a.unplacedDead
               w == n - a.accepted - m - a.unknown
    <3>1. m \in Nat /\ a.accepted + m <= n /\ u = GreaterOf(0, w) /\ w \in Int
      BY <1>2, <2>1, <2>2, <2>4
    <3>2. w + m <= n
      BY <1>2, <3>1
    <3> HIDE DEF m, w
    <3>3. u \in Nat /\ u + m <= n
      BY <1>2, <3>1, <3>2 DEF GreaterOf
    <3> QED  BY <3>3 DEF m
  <2>6. a.unplacedRetry \in Nat /\ a.unplacedDead \in Nat
    BY <1>2
  <2>7. lost \in Nat /\ lost + a.unplacedRetry + r <= n
    BY <2>3, <2>4, <2>5, <2>6
  <2> QED  BY <2>7 DEF r
<1>5. Booked(n, a) = c3 /\ BookedDrops(n, a) = dropped + lost + a.unplacedRetry
  BY DEF Booked, BookedDrops
<1> HIDE DEF lost
<1>6. "rejectedByGateway" \in LossBuckets /\ "unmappedRetryable" \in LossBuckets
  BY DEF LossBuckets, Buckets
<1>7. c1 \in [Buckets -> Nat] /\ LossesOf(c1) = Losses + lost /\ Losses \in Nat
  BY <1>1, <1>4, <1>6, LossAdds
<1> HIDE DEF c1
<1>8. c2 \in [Buckets -> Nat] /\ LossesOf(c2) = LossesOf(c1) + a.unplacedRetry
  <2>1. a.unplacedRetry \in Nat
    BY <1>2
  <2> DEFINE u == a.unplacedRetry
             b == "unmappedRetryable"
  <2>2. u \in Nat /\ b \in LossBuckets /\ c1 \in [Buckets -> Nat]
    BY <1>6, <1>7, <2>1
  <2> HIDE DEF u, b
  <2>3. /\ [c1 EXCEPT ![b] = @ + u] \in [Buckets -> Nat]
        /\ LossesOf([c1 EXCEPT ![b] = @ + u]) = LossesOf(c1) + u
    BY <2>2, LossAdds
  <2> QED  BY <2>3 DEF u, b
<1> HIDE DEF c2
<1>9. c3 \in [Buckets -> Nat] /\ LossesOf(c3) = LossesOf(c2)
  BY <1>2, <1>8, UnknownIsNoLoss
<1> HIDE DEF c3
<1>10. lost + a.unplacedRetry \in Nat
  BY <1>2, <1>4
<1>11. /\ LossesOf(Booked(n, a)) = Losses + (lost + a.unplacedRetry)
       /\ BookedDrops(n, a) = dropped + (lost + a.unplacedRetry)
       /\ (lost + a.unplacedRetry) + Len(a.retry) <= n
  BY <1>1, <1>2, <1>3, <1>4, <1>5, <1>7, <1>8, <1>9, SMTT(30)
<1> QED  BY <1>5, <1>9, <1>10, <1>11

LEMMA ClearLoss ==
    ASSUME HeldInv, LossInv, NEW t \in Flushers, SettleClear(t)
    PROVE  LossInv'
<1> DEFINE a == receipt.ack
           n == Len(pending.spans)
<1>1. /\ Delivered(t) /\ flight[t] = pending /\ a \in Ack(n) /\ n \in Nat
      /\ Len(a.retry) \in Nat
  BY ReceiptTyped, Sending, AgainOfPinned DEF SettleClear
<1>2. /\ Unpin /\ Consistent(n, a) /\ UNCHANGED <<exported, buf>>
      /\ shed' = [Booked(n, a) EXCEPT !["undelivered"] = @ + Len(a.retry)]
      /\ dropped' = BookedDrops(n, a) + Len(a.retry)
      /\ Losses' = LossesOf(shed')
  BY <1>1 DEF SettleClear, Losses, LossesOf
<1>3. PICK k \in Nat : /\ LossesOf(Booked(n, a)) = Losses + k
                       /\ BookedDrops(n, a) = dropped + k
                       /\ k + Len(a.retry) <= n
  BY <1>1, <1>2, BookedLoss
<1>4. Booked(n, a) \in [Buckets -> Nat] /\ "undelivered" \in LossBuckets
  BY <1>1, <1>2, BookedLoss DEF LossBuckets, Buckets
<1>5. Losses \in Nat /\ dropped \in Nat
  BY LossTyped
<1> HIDE DEF a
<1>6. Losses' = LossesOf(Booked(n, a)) + Len(a.retry)
  BY <1>1, <1>2, <1>4, LossAdds
<1>7. /\ Losses' = Losses + (k + Len(a.retry)) /\ dropped' = dropped + (k + Len(a.retry))
      /\ k + Len(a.retry) \in Nat
  <2>1. Len(a.retry) \in Nat /\ dropped' = BookedDrops(n, a) + Len(a.retry)
    BY <1>1, <1>2
  <2> DEFINE r == Len(a.retry)
  <2> HIDE DEF r, n
  <2>2. r \in Nat /\ dropped' = BookedDrops(n, a) + r
        /\ Losses' = LossesOf(Booked(n, a)) + r
    BY <1>6, <2>1 DEF r
  <2>3. /\ Losses' = Losses + (k + r) /\ dropped' = dropped + (k + r) /\ k + r \in Nat
    BY <1>3, <1>5, <2>2
  <2> QED  BY <2>3 DEF r
<1> QED  BY <1>2, <1>3, <1>7, UnpinLoss

LEMMA RequeueLoss ==
    ASSUME HeldInv, LossInv, NEW t \in Flushers, SettleRequeue(t)
    PROVE  LossInv'
<1> DEFINE a == receipt.ack
           n == Len(pending.spans)
           cut == Excess(t)
<1>1. /\ Delivered(t) /\ flight[t] = pending /\ a \in Ack(n) /\ n \in Nat
      /\ Len(a.retry) \in Nat /\ Again(t) \in Seq(Span) /\ Len(Again(t)) = Len(a.retry)
  BY ReceiptTyped, Sending, AgainOfPinned DEF SettleRequeue
<1>2. /\ Unpin /\ Consistent(n, a) /\ exported' = exported
      /\ buf' = SubSeq(Refilled(t), cut + 1, Len(Refilled(t)))
      /\ shed' = [Booked(n, a) EXCEPT !["bufferOverflow"] = @ + cut]
      /\ dropped' = BookedDrops(n, a) + cut
      /\ Losses' = LossesOf(shed')
  BY <1>1 DEF SettleRequeue, Losses, LossesOf
<1>3. PICK k \in Nat : /\ LossesOf(Booked(n, a)) = Losses + k
                       /\ BookedDrops(n, a) = dropped + k
                       /\ k + Len(a.retry) <= n
  BY <1>1, <1>2, BookedLoss
<1>4. Booked(n, a) \in [Buckets -> Nat] /\ "bufferOverflow" \in LossBuckets
  BY <1>1, <1>2, BookedLoss DEF LossBuckets, Buckets
<1>5. /\ Losses \in Nat /\ dropped \in Nat /\ exported \in Nat
      /\ buf \in Seq(Span) /\ Len(buf) \in Nat /\ Len(buf) <= MaxBuffer /\ MaxBuffer \in Nat
  BY ConstantsAssumption, LossTyped DEF HeldInv, BoundedMemory
<1>6. Refilled(t) \in Seq(Span) /\ Len(Refilled(t)) = Len(a.retry) + Len(buf)
  BY <1>1, <1>5, JoinSequences, SMTT(30) DEF Refilled
<1>7. cut \in 0..Len(Refilled(t))
  BY <1>1, <1>5, <1>6 DEF Excess, GreaterOf
<1> HIDE DEF a, cut
<1>8. Len(buf') = Len(a.retry) + Len(buf) - cut
  BY <1>2, <1>6, <1>7, CutSequence
<1>9. cut \in Nat
  BY <1>1, <1>5, <1>6, <1>7
<1>10. Losses' = LossesOf(Booked(n, a)) + cut
  BY <1>2, <1>4, <1>9, LossAdds
<1>11. Len(pending'.spans) = 0
  BY <1>2 DEF Unpin, NoBatch
<1>12. Losses + Len(buf) + n <= exported /\ dropped = Losses
  BY DEF LossInv
<1> HIDE DEF n
<1> QED  BY <1>1, <1>2, <1>3, <1>5, <1>8, <1>9, <1>10, <1>11, <1>12 DEF LossInv

LEMMA LossStep == ASSUME HeldInv, LossInv, [Next]_vars PROVE LossInv'
<1>1. CASE Export
  BY <1>1, ExportLoss
<1>2. CASE UNCHANGED <<exported, buf, pending, shed, dropped>>
  BY <1>2 DEF LossInv, Losses
<1>3. CASE Start \/ Stop \/ DaemonWinds \/ GatewayDecides \/ UNCHANGED vars
  BY <1>2, <1>3 DEF Start, Stop, DaemonWinds, GatewayDecides, codeVars, vars
<1>4. ASSUME NEW t \in Flushers, Flush(t) PROVE LossInv'
  <2>1. CASE TakeBatch(t)
    BY <2>1, TakeLoss
  <2>2. CASE \/ Encode(t)
             \/ EncodeRaises(t)
             \/ /\ SettleRetryable(t)
                /\ Repin(t, flight[t].attempts + 1)
                /\ UNCHANGED <<shed, dropped>>
    <3>1. pending'.spans = pending.spans /\ UNCHANGED <<exported, buf, shed, dropped>>
      <4>1. CASE Encode(t)
        <5>1. pending \in [spans : Seq(Span), encoded : BOOLEAN, attempts : Nat]
          BY DEF HeldInv, TypeOK
        <5> QED  BY <4>1, <5>1 DEF Encode
      <4>2. CASE EncodeRaises(t)
        BY <4>2 DEF EncodeRaises, StaysPinned
      <4>3. CASE SettleRetryable(t) /\ Repin(t, flight[t].attempts + 1) /\ UNCHANGED <<shed, dropped>>
        BY <4>3, Sending DEF SettleRetryable, Repin
      <4> QED  BY <2>2, <4>1, <4>2, <4>3
    <3> QED  BY <3>1 DEF LossInv, Losses
  <2>3. CASE SettleRetryable(t) /\ ShedBatch(t, "undelivered", "undelivered")
    BY <2>3, ShedLoss DEF SettleRetryable, LossBuckets, Buckets
  <2>4. CASE SettleRefused(t)
    BY <2>4, ShedLoss DEF SettleRefused, LossBuckets, Buckets
  <2>5. CASE SettleTruncated(t)
    BY <2>5, ShedLoss DEF SettleTruncated, Delivered, LossBuckets, Buckets
  <2>6. CASE SettleUnreadable(t) \/ SettleDistrusted(t)
    <3>1. Unpin /\ UNCHANGED <<exported, buf, shed, dropped>>
      BY <2>6 DEF SettleUnreadable, SettleDistrusted
    <3>2. Losses \in Nat /\ dropped \in Nat /\ Len(pending.spans) \in Nat
      BY LossTyped
    <3>3. Losses' = Losses + 0 /\ dropped' = dropped + 0
      BY <3>1, <3>2 DEF Losses
    <3> QED  BY <3>1, <3>2, <3>3, UnpinLoss
  <2>7. CASE SettleRequeue(t)
    BY <2>7, RequeueLoss
  <2>8. CASE SettleClear(t)
    BY <2>8, ClearLoss
  <2>9. CASE SettleRetryable(t)
    <3>1. CASE BudgetSpent(flight[t].attempts + 1)
      BY <2>3, <2>9, <3>1 DEF SettleRetryable
    <3>2. CASE ~BudgetSpent(flight[t].attempts + 1)
      BY <2>2, <2>9, <3>2 DEF SettleRetryable
    <3> QED  BY <3>1, <3>2
  <2>10. CASE Encode(t) \/ EncodeRaises(t)
    BY <2>2, <2>10
  <2>11. CASE Settle(t)
    BY <2>4, <2>5, <2>6, <2>7, <2>8, <2>9, <2>11 DEF Settle
  <2> QED  BY <1>4, <2>1, <2>10, <2>11 DEF Flush
<1> QED  BY <1>1, <1>3, <1>4 DEF Next

\* A range is no larger than its sequence.
LEMMA RangeCounted ==
    ASSUME NEW S, NEW q \in Seq(S)
    PROVE  IsFiniteSet(Range(q)) /\ Cardinality(Range(q)) <= Len(q) /\ Cardinality(Range(q)) \in Nat
<1>1. IsFiniteSet(1..Len(q)) /\ Cardinality(1..Len(q)) = Len(q)
  <2>1. Len(q) \in Nat
    BY LenProperties
  <2> QED  BY <2>1, FS_Interval, SMTT(30)
<1>2. q \in Surjection(1..Len(q), Range(q))
  BY DEF Surjection, Range
<1>3. IsFiniteSet(Range(q)) /\ Cardinality(Range(q)) <= Cardinality(1..Len(q))
  BY <1>1, <1>2, FS_Surjection
<1> QED  BY <1>1, <1>3, FS_CardinalityType

\* Whatever a gateway answers, no span is counted under two causes, none is counted
\* while it is still in hand, and the dropped count is the sum of the figures.
THEOREM NoLossCountedTwiceHolds == Spec => []NoLossCountedTwice
<1>1. Init => LossInv
  BY LossStart
<1>2. HeldInv /\ LossInv /\ [Next]_vars => LossInv'
  BY LossStep
<1>3. ASSUME HeldInv, LossInv PROVE NoLossCountedTwice
  <2>1. /\ buf \in Seq(Span) /\ pending.spans \in Seq(Span) /\ Losses \in Nat /\ exported \in Nat
    BY <1>3, LossTyped
  <2>2. /\ IsFiniteSet(Range(buf)) /\ Cardinality(Range(buf)) <= Len(buf)
        /\ IsFiniteSet(Range(pending.spans))
        /\ Cardinality(Range(pending.spans)) <= Len(pending.spans)
        /\ Cardinality(Range(buf)) \in Nat /\ Cardinality(Range(pending.spans)) \in Nat
        /\ Len(buf) \in Nat /\ Len(pending.spans) \in Nat
    BY <2>1, RangeCounted
  <2>3. /\ Cardinality(InHand) \in Nat
        /\ Cardinality(InHand) <= Cardinality(Range(buf)) + Cardinality(Range(pending.spans))
    <3>1. Range(buf) \cap Range(pending.spans) = {}
      BY <1>3 DEF HeldInv, HeldExactlyOnce
    <3>2. /\ IsFiniteSet(InHand)
          /\ Cardinality(InHand) = Cardinality(Range(buf)) + Cardinality(Range(pending.spans))
                                       - Cardinality({})
      BY <2>2, <3>1, FS_Union DEF InHand
    <3>3. Cardinality({}) = 0
      BY FS_EmptySet
    <3> QED  BY <2>2, <3>2, <3>3
  <2>4. Losses + Len(buf) + Len(pending.spans) <= exported /\ dropped = Losses
    BY <1>3 DEF LossInv
  <2>5. Losses + Cardinality(InHand) <= exported
    <3> DEFINE inHand == Cardinality(InHand)
               inBuf == Cardinality(Range(buf))
               inPin == Cardinality(Range(pending.spans))
               bufLen == Len(buf)
               pinLen == Len(pending.spans)
               lost == Losses
    <3>1. /\ inHand \in Nat /\ inBuf \in Nat /\ inPin \in Nat
          /\ bufLen \in Nat /\ pinLen \in Nat /\ lost \in Nat /\ exported \in Nat
      BY <2>1, <2>2, <2>3
    <3>2. inHand <= inBuf + inPin /\ inBuf <= bufLen /\ inPin <= pinLen
          /\ lost + bufLen + pinLen <= exported
      BY <2>2, <2>3, <2>4
    <3> HIDE DEF inHand, inBuf, inPin, bufLen, pinLen, lost
    <3>3. lost + inHand <= exported
      BY <3>1, <3>2
    <3> QED  BY <3>3 DEF lost, inHand
  <2> QED  BY <2>4, <2>5 DEF NoLossCountedTwice
<1> QED  BY <1>1, <1>2, <1>3, HeldInvHolds, PTL DEF Spec

\* When a batch is over, its attempts are; what is left to pace are the spans put
\* back, and a failing transport stays failing.
LEMMA UnpinnedPace ==
    ASSUME pending' = NoBatch, failing' \/ rounds' = 0
    PROVE  BackoffOwed'
BY ConstantsAssumption DEF NoBatch, BackoffOwed

LEMMA BackoffStep == ASSUME HeldInv, BackoffOwed, [Next]_vars PROVE BackoffOwed'
<1>1. CASE UNCHANGED <<pending, rounds, failing>>
  BY <1>1 DEF BackoffOwed
<1>2. CASE \/ Export \/ Start \/ Stop \/ DaemonWinds \/ GatewayDecides \/ UNCHANGED vars
           \/ \E t \in Flushers : EncodeRaises(t)
  BY <1>1, <1>2
  DEF Export, Start, Stop, DaemonWinds, GatewayDecides, codeVars, vars, EncodeRaises, StaysPinned
<1>3. ASSUME NEW t \in Flushers, TakeBatch(t) \/ Encode(t) PROVE BackoffOwed'
  <2>1. pending \in [spans : Seq(Span), encoded : BOOLEAN, attempts : Nat]
    BY DEF HeldInv, TypeOK
  <2>2. /\ pending'.attempts \in {0, pending.attempts}
        /\ UNCHANGED <<failing, rounds>>
    BY <1>3, <2>1 DEF TakeBatch, Encode, NoBatch
  <2> QED  BY <2>1, <2>2, ConstantsAssumption DEF BackoffOwed
<1>4. ASSUME NEW t \in Flushers, SettleRetryable(t) PROVE BackoffOwed'
  <2>1. flight[t] \in [spans : Seq(Span), encoded : BOOLEAN, attempts : Nat]
    BY <1>4 DEF HeldInv, TypeOK
  <2>2. failing' = TRUE
    BY <1>4 DEF SettleRetryable
  <2>3. CASE Unpin
    BY <2>2, <2>3, UnpinnedPace DEF Unpin
  <2>4. CASE ~Unpin
    <3>1. /\ pending' = [flight[t] EXCEPT !.attempts = flight[t].attempts + 1]
          /\ ~(flight[t].attempts + 1 >= RetryMax)
      BY <1>4, <2>4 DEF SettleRetryable, ShedBatch, Repin, BudgetSpent
    <3> QED  BY <2>1, <2>2, <3>1, ConstantsAssumption DEF BackoffOwed
  <2> QED  BY <2>3, <2>4
<1>5. ASSUME NEW t \in Flushers, SettleRefused(t) PROVE BackoffOwed'
  BY <1>5, UnpinnedPace DEF SettleRefused, ShedBatch, Unpin
<1>6. ASSUME NEW t \in Flushers,
             \/ SettleUnreadable(t) \/ SettleTruncated(t)
             \/ SettleDistrusted(t) \/ SettleClear(t)
      PROVE  BackoffOwed'
  BY <1>6, UnpinnedPace
  DEF SettleUnreadable, SettleTruncated, SettleDistrusted, SettleClear, ShedBatch,
      Unpin, ClearPacing
<1>7. ASSUME NEW t \in Flushers, SettleRequeue(t) PROVE BackoffOwed'
  BY <1>7, UnpinnedPace DEF SettleRequeue, SpendRound, PaceRequeue, Unpin
<1> QED  BY <1>2, <1>3, <1>4, <1>5, <1>6, <1>7 DEF Next, Flush, Settle

\* A batch waiting for its next attempt, and spans a 200 put back, keep a backoff owed
\* until an answer asks for nothing, whichever threads flush and export in between;
\* and the attempts stay within the budget.  Who waits the backoff out is not said.
THEOREM BackoffOwedHolds == Spec => []BackoffOwed
<1>1. Init => BackoffOwed
  BY ConstantsAssumption DEF Init, NoBatch, BackoffOwed
<1>2. HeldInv /\ BackoffOwed /\ [Next]_vars => BackoffOwed'
  BY BackoffStep
<1> QED  BY <1>1, <1>2, HeldInvHolds, PTL DEF Spec

-----------------------------------------------------------------------------
(* What a step of the transport can do to a span's fate.                   *)

\* What is in the buffer or in the pinned batch has met no end.
LEMMA InHandHeld ==
    ASSUME HeldInv, NEW s \in Range(pending.spans) \cup Range(buf)
    PROVE  s \in Span /\ fate[s] = "held"
<1>1. InHand = {x \in Span : fate[x] = "held"}
  BY DEF HeldInv, HeldExactlyOnce
<1> QED BY <1>1 DEF InHand

\* A whole-batch settlement gives its fate to the spans of the pinned batch.
LEMMA BatchFate ==
    ASSUME HeldInv, NEW t \in Flushers, pc[t] = "sending", NEW f,
           Meet(Range(flight[t].spans), f), NEW s \in Span, fate'[s] # fate[s]
    PROVE  fate[s] = "held" /\ fate'[s] = f /\ s \in Range(pending.spans)
<1>1. flight[t] = pending
  BY Sending
<1>2. s \in Range(pending.spans) /\ fate'[s] = f
  BY <1>1 DEF Meet
<1> QED BY <1>2, InHandHeld

\* A trusted ack gives a span of its batch the verdict on it, unless it named the
\* span for a resend.
LEMMA JudgedFate ==
    ASSUME HeldInv, NEW t \in Flushers, Delivered(t), NEW again,
           Judged(t, again), NEW s \in Span, fate'[s] # fate[s]
    PROVE  /\ fate[s] = "held"
           /\ \/ fate'[s] = again[s]
              \/ \E i \in DOMAIN pending.spans :
                    /\ pending.spans[i] = s /\ fate'[s] = receipt.verdict[i]
                    /\ i \notin Range(receipt.ack.retry)
<1>1. flight[t] = pending /\ Range(Again(t)) \subseteq Range(pending.spans)
  BY ReceiptTyped, Sending, AgainOfPinned
<1> DEFINE at == CHOOSE i \in DOMAIN pending.spans : pending.spans[i] = s
<1>2. fate'[s] = IF s \in Range(Again(t)) THEN again[s]
                 ELSE IF s \in Range(pending.spans) THEN receipt.verdict[at]
                 ELSE fate[s]
  BY <1>1 DEF Judged
<1>3. s \in Range(pending.spans)
  BY <1>1, <1>2
<1>4. fate[s] = "held"
  BY <1>3, InHandHeld
<1>5. at \in DOMAIN pending.spans /\ pending.spans[at] = s
  <2>1. \E i \in DOMAIN pending.spans : pending.spans[i] = s
    BY <1>3 DEF Range
  <2> QED BY <2>1
<1> HIDE DEF at
<1>6. ASSUME at \in Range(receipt.ack.retry) PROVE s \in Range(Again(t))
  <2>1. PICK k \in DOMAIN receipt.ack.retry : receipt.ack.retry[k] = at
    BY <1>6 DEF Range
  <2>2. k \in DOMAIN Again(t) /\ Again(t)[k] = s
    BY <1>1, <1>5, <2>1 DEF Again
  <2> QED BY <2>2 DEF Range
<1> QED BY <1>2, <1>3, <1>4, <1>5, <1>6

\* The span an export takes is one nothing has happened to.
LEMMA NextIsNew ==
    ASSUME HeldInv, Export
    PROVE  /\ fate \in [Span -> Fate] /\ exported + 1 \in Span
           /\ fate[exported + 1] = "none"
<1>1. exported \in 0..NumSpans /\ fate \in [Span -> Fate] /\ exported < NumSpans
  BY DEF Export, HeldInv, TypeOK
<1>2. exported + 1 \in 1..NumSpans /\ exported + 1 > exported
  BY <1>1, ConstantsAssumption
<1> QED BY <1>1, <1>2 DEF HeldInv, NumberedInOrder, Span

LEMMA FateStep ==
    ASSUME HeldInv, [Next]_vars, NEW s \in Span, fate'[s] # fate[s]
    PROVE  /\ fate[s] \in {"none", "held"}
           /\ \/ fate'[s] \in {"held", "overflow", "undelivered", "refused", "cut", "blind"}
              \/ \E t \in Flushers : SettleDistrusted(t)
              \/ \E t \in Flushers, i \in DOMAIN pending.spans :
                    /\ Delivered(t)
                    /\ pending.spans[i] = s /\ fate'[s] = receipt.verdict[i]
                    /\ i \notin Range(receipt.ack.retry)
<1>1. CASE UNCHANGED vars \/ Start \/ Stop \/ DaemonWinds \/ GatewayDecides
  BY <1>1 DEF vars, Start, Stop, DaemonWinds, GatewayDecides
<1>2. CASE Export
  <2>1. /\ fate \in [Span -> Fate] /\ exported + 1 \in Span
        /\ fate[exported + 1] = "none"
    BY <1>2, NextIsNew
  <2>2. CASE fate' = [fate EXCEPT ![exported + 1] = "held"]
    BY <2>1, <2>2
  <2>3. CASE Len(buf) >= MaxBuffer /\ fate' = [fate EXCEPT ![exported + 1] = "held",
                                                         ![Head(buf)] = "overflow"]
    <3>1. buf \in Seq(Span) /\ buf # <<>>
      BY <2>3, ConstantsAssumption DEF HeldInv, TypeOK
    <3>2. Head(buf) \in Range(buf)
      BY <3>1, HeadAndTail DEF Range
    <3>3. fate[Head(buf)] = "held"
      BY <3>2, InHandHeld
    <3> QED BY <2>1, <2>3, <3>3
  <2> QED BY <1>2, <2>2, <2>3 DEF Export
<1>3. ASSUME NEW t \in Flushers, TakeBatch(t) \/ Encode(t) \/ EncodeRaises(t)
      PROVE  FALSE
  BY <1>3 DEF TakeBatch, Encode, EncodeRaises
<1>4. ASSUME NEW t \in Flushers, SettleRefused(t) \/ SettleRetryable(t)
      PROVE  fate[s] = "held" /\ fate'[s] \in {"refused", "undelivered"}
  BY <1>4, BatchFate DEF SettleRefused, SettleRetryable, ShedBatch
<1>5. ASSUME NEW t \in Flushers, SettleUnreadable(t) \/ SettleTruncated(t)
      PROVE  fate[s] = "held" /\ fate'[s] \in {"blind", "cut"}
  BY <1>5, BatchFate DEF SettleUnreadable, SettleTruncated, ShedBatch, Delivered
<1>6. ASSUME NEW t \in Flushers, SettleDistrusted(t)
      PROVE  fate[s] = "held"
  BY <1>6, BatchFate DEF SettleDistrusted, Delivered
<1>7. ASSUME NEW t \in Flushers, SettleRequeue(t) \/ SettleClear(t)
      PROVE  /\ fate[s] = "held"
             /\ \/ fate'[s] \in {"overflow", "held", "undelivered"}
                \/ \E i \in DOMAIN pending.spans :
                      /\ Delivered(t) /\ pending.spans[i] = s
                      /\ fate'[s] = receipt.verdict[i]
                      /\ i \notin Range(receipt.ack.retry)
  <2>1. CASE SettleClear(t)
    <3>1. Delivered(t) /\ Judged(t, [x \in Span |-> "undelivered"])
      BY <2>1 DEF SettleClear
    <3> QED BY <3>1, JudgedFate
  <2>2. CASE SettleRequeue(t)
    <3> DEFINE again == [x \in Span |-> IF x \in Range(SubSeq(Refilled(t), 1, Excess(t)))
                                        THEN "overflow" ELSE "held"]
    <3>1. Delivered(t) /\ Judged(t, again) /\ again[s] \in {"overflow", "held"}
      BY <2>2 DEF SettleRequeue
    <3> HIDE DEF again
    <3> QED BY <3>1, JudgedFate
  <2> QED BY <1>7, <2>1, <2>2
<1> QED BY <1>1, <1>2, <1>3, <1>4, <1>5, <1>6, <1>7 DEF Next, Flush, Settle

\* A truthful ack names no more outcomes than the batch has spans: it is never
\* distrusted.
LEMMA TruthConsistent ==
    ASSUME Honest, HeldInv, NEW t \in Flushers PROVE ~SettleDistrusted(t)
<1> SUFFICES ASSUME Delivered(t) PROVE Consistent(Len(flight[t].spans), receipt.ack)
  BY DEF SettleDistrusted
<1> DEFINE v == receipt.verdict
           n == Len(pending.spans)
           S(kinds) == {i \in DOMAIN v : v[i] \in kinds}
           retry == receipt.ack.retry
<1>1. /\ flight[t] = pending /\ n \in Nat /\ v \in [1..n -> Verdict]
      /\ receipt.ack \in TruthfulAcks(v)
  BY ReceiptTyped, Sending DEF Acks
<1>2. /\ receipt.ack.accepted = Cardinality(S({"accepted", "unknownFlag"}))
      /\ retry \in Orders(n) /\ Range(retry) = {i \in DOMAIN v : v[i] = "retry"}
      /\ receipt.ack.dead = {i \in DOMAIN v : v[i] = "dead"}
      /\ receipt.ack.unplacedRetry = Cardinality(S({"unplacedRetry"}))
      /\ receipt.ack.unplacedDead = Cardinality(S({"unplacedDead"}))
  BY <1>1 DEF TruthfulAcks, Count
<1>3. Len(retry) = Cardinality(S({"retry"}))
  <2>1. PICK k \in 0..n : retry \in [1..k -> 1..n] /\ IsInjective(retry)
    BY <1>2 DEF Orders
  <2>2. k \in Nat /\ Len(retry) = k /\ \A i, j \in 1..k : retry[i] = retry[j] => i = j
    BY <1>1, <2>1 DEF IsInjective
  <2>3. S({"retry"}) = {retry[j] : j \in 1..k}
    <3>1. S({"retry"}) = Range(retry)
      BY <1>2
    <3> QED BY <3>1, <2>1 DEF Range
  <2> HIDE DEF S
  <2> QED BY <2>2, <2>3, ImageCounted
<1>4. Cardinality(receipt.ack.dead) = Cardinality(S({"dead"}))
  <2>1. S({"dead"}) = {i \in DOMAIN v : v[i] = "dead"}
    OBVIOUS
  <2> QED BY <2>1, <1>2
<1>5. ASSUME NEW K, NEW L, K \cap L = {}
      PROVE  /\ Cardinality(S(K)) \in Nat /\ Cardinality(S(L)) \in Nat
             /\ Cardinality(S(K \cup L)) = Cardinality(S(K)) + Cardinality(S(L))
  <2>1. S(K) \subseteq 1..n /\ S(L) \subseteq 1..n
    BY <1>1
  <2>2. S(K \cup L) = S(K) \cup S(L) /\ S(K) \cap S(L) = {}
    BY <1>5
  <2> HIDE DEF S
  <2>3. /\ IsFiniteSet(S(K)) /\ IsFiniteSet(S(L))
        /\ Cardinality(S(K)) \in Nat /\ Cardinality(S(L)) \in Nat
    BY <2>1, <1>1, PositionsCounted
  <2>4. Cardinality(S(K) \cup S(L))
          = Cardinality(S(K)) + Cardinality(S(L)) - Cardinality(S(K) \cap S(L))
    BY <2>3, FS_Union
  <2>5. Cardinality(S(K) \cap S(L)) = 0
    BY <2>2, FS_EmptySet
  <2>6. Cardinality(S(K \cup L)) = Cardinality(S(K) \cup S(L))
    BY <2>2
  <2> DEFINE k == Cardinality(S(K))
             l == Cardinality(S(L))
             m == Cardinality(S(K \cup L))
  <2>7. m = k + l - 0 /\ k \in Nat /\ l \in Nat
    BY <2>3, <2>4, <2>5, <2>6
  <2>8. m = k + l
    <3> HIDE DEF k, l, m
    <3> QED BY <2>7
  <2> QED BY <2>7, <2>8
<1> DEFINE c(kinds) == Cardinality(S(kinds))
           K1 == {"accepted", "unknownFlag"}
           K2 == K1 \cup {"retry"}
           K3 == K2 \cup {"dead"}
           K4 == K3 \cup {"unplacedRetry"}
           K5 == K4 \cup {"unplacedDead"}
<1>6. c(K5) \in 0..n
  <2>1. S(K5) \subseteq 1..n
    BY <1>1
  <2> HIDE DEF S, K5
  <2> QED BY <2>1, <1>1, PositionsCounted
<1> HIDE DEF S, v, retry
<1>7. /\ c(K2) = c(K1) + c({"retry"}) /\ c(K3) = c(K2) + c({"dead"})
      /\ c(K4) = c(K3) + c({"unplacedRetry"}) /\ c(K5) = c(K4) + c({"unplacedDead"})
      /\ c(K1) \in Nat /\ c({"retry"}) \in Nat /\ c({"dead"}) \in Nat
      /\ c({"unplacedRetry"}) \in Nat /\ c({"unplacedDead"}) \in Nat
  <2>1. K1 \cap {"retry"} = {} /\ K2 \cap {"dead"} = {} /\ K3 \cap {"unplacedRetry"} = {}
        /\ K4 \cap {"unplacedDead"} = {}
    OBVIOUS
  <2> QED BY <2>1, <1>5
<1>8. c(K1) + (c({"retry"}) + c({"dead"}) + c({"unplacedRetry"}) + c({"unplacedDead"})) <= n
  <2> HIDE DEF c, K1, K2, K3, K4, K5
  <2> QED BY <1>1, <1>6, <1>7
<1> QED BY <1>1, <1>2, <1>3, <1>4, <1>8 DEF Consistent, Named, retry

\* A truthful receipt names again every span it calls retryable.
LEMMA RetriesNamed ==
    ASSUME Honest, HeldInv, NEW t \in Flushers, Delivered(t),
           NEW i \in DOMAIN pending.spans, i \notin Range(receipt.ack.retry)
    PROVE  receipt.verdict[i] # "retry"
<1>1. /\ receipt.verdict \in [1..Len(pending.spans) -> Verdict]
      /\ receipt.ack \in TruthfulAcks(receipt.verdict)
      /\ DOMAIN pending.spans = 1..Len(pending.spans)
  BY ReceiptTyped, Sending DEF Acks
<1>2. Range(receipt.ack.retry)
        = {j \in DOMAIN receipt.verdict : receipt.verdict[j] = "retry"}
  BY <1>1 DEF TruthfulAcks
<1> QED BY <1>1, <1>2

-----------------------------------------------------------------------------
(* Counting spans by fate, and positions by verdict.                       *)

\* How many spans a history gives one of some fates.
MetIn(g, fates) == Cardinality({s \in Span : g[s] \in fates})

LEMMA SpansFinite ==
    ASSUME NEW S \in SUBSET Span
    PROVE  IsFiniteSet(S) /\ Cardinality(S) \in Nat
<1>1. IsFiniteSet(1..NumSpans)
  BY FS_Interval, ConstantsAssumption
<1>2. IsFiniteSet(S)
  BY <1>1, FS_Subset DEF Span
<1> QED BY <1>2, FS_CardinalityType

LEMMA DisjointAdd ==
    ASSUME NEW A, NEW B, IsFiniteSet(A), IsFiniteSet(B), A \cap B = {}
    PROVE  /\ Cardinality(A) \in Nat /\ Cardinality(B) \in Nat
           /\ Cardinality(A \cup B) = Cardinality(A) + Cardinality(B)
<1> DEFINE k == Cardinality(A)
           l == Cardinality(B)
           m == Cardinality(A \cup B)
<1>1. k \in Nat /\ l \in Nat
  BY FS_CardinalityType
<1>2. m = k + l - Cardinality(A \cap B)
  BY FS_Union
<1>3. Cardinality(A \cap B) = 0
  BY FS_EmptySet
<1>4. m = k + l - 0
  BY <1>2, <1>3
<1>5. m = k + l
  <2> HIDE DEF k, l, m
  <2> QED BY <1>1, <1>4
<1> QED BY <1>1, <1>5

\* The same of the spans of a set.
Gain(B, h, fates) == Cardinality({s \in B : h[s] \in fates})

\* Spans that had none of some fates and get them are so many more.
Changes(g, h, B, fates) ==
    /\ B \in SUBSET Span
    /\ \A s \in Span \ B : h[s] = g[s]
    /\ \A s \in B : g[s] \notin fates

LEMMA MetAdds ==
    ASSUME NEW g, NEW h, NEW B, NEW fates, Changes(g, h, B, fates)
    PROVE  /\ MetIn(g, fates) \in Nat /\ Gain(B, h, fates) \in Nat
           /\ MetIn(h, fates) = MetIn(g, fates) + Gain(B, h, fates)
<1> DEFINE old == {s \in Span : g[s] \in fates}
           gain == {s \in B : h[s] \in fates}
           new == {s \in Span : h[s] \in fates}
<1>1. new = old \cup gain /\ old \cap gain = {}
  BY DEF Changes
<1>2. old \in SUBSET Span /\ gain \in SUBSET Span
  BY DEF Changes
<1> HIDE DEF old, gain, new
<1>3. IsFiniteSet(old) /\ IsFiniteSet(gain)
  BY <1>2, SpansFinite
<1>4. /\ Cardinality(old) \in Nat /\ Cardinality(gain) \in Nat
      /\ Cardinality(new) = Cardinality(old) + Cardinality(gain)
  BY <1>1, <1>3, DisjointAdd
<1> QED BY <1>4 DEF MetIn, Gain, old, gain, new

\* Different fates are different spans.
LEMMA MetJoin ==
    ASSUME NEW g, NEW K, NEW L, K \cap L = {}
    PROVE  /\ MetIn(g, K) \in Nat /\ MetIn(g, L) \in Nat
           /\ MetIn(g, K \cup L) = MetIn(g, K) + MetIn(g, L)
<1> DEFINE A == {s \in Span : g[s] \in K}
           B == {s \in Span : g[s] \in L}
           C == {s \in Span : g[s] \in K \cup L}
<1>1. C = A \cup B /\ A \cap B = {} /\ A \in SUBSET Span /\ B \in SUBSET Span
  OBVIOUS
<1> HIDE DEF A, B, C
<1>2. IsFiniteSet(A) /\ IsFiniteSet(B)
  BY <1>1, SpansFinite
<1>3. /\ Cardinality(A) \in Nat /\ Cardinality(B) \in Nat
      /\ Cardinality(C) = Cardinality(A) + Cardinality(B)
  BY <1>1, <1>2, DisjointAdd
<1> QED BY <1>3 DEF MetIn, A, B, C

\* Different verdicts are different positions.
LEMMA CountJoin ==
    ASSUME NEW n \in Nat, NEW v \in [1..n -> Verdict], NEW K, NEW L, K \cap L = {}
    PROVE  /\ Count(v, K) \in Nat /\ Count(v, L) \in Nat
           /\ Count(v, K \cup L) = Count(v, K) + Count(v, L)
<1> DEFINE A == {i \in DOMAIN v : v[i] \in K}
           B == {i \in DOMAIN v : v[i] \in L}
           C == {i \in DOMAIN v : v[i] \in K \cup L}
<1>1. C = A \cup B /\ A \cap B = {} /\ A \subseteq 1..n /\ B \subseteq 1..n
  OBVIOUS
<1> HIDE DEF A, B, C
<1>2. IsFiniteSet(A) /\ IsFiniteSet(B)
  BY <1>1, PositionsCounted
<1>3. /\ Cardinality(A) \in Nat /\ Cardinality(B) \in Nat
      /\ Cardinality(C) = Cardinality(A) + Cardinality(B)
  BY <1>1, <1>2, DisjointAdd
<1> QED BY <1>3 DEF Count, A, B, C

\* Distinct positions of a batch are distinct spans.
LEMMA PositionsAreSpans ==
    ASSUME NEW q \in Seq(Span), IsInjective(q), NEW D, D \subseteq 1..Len(q)
    PROVE  Cardinality({q[i] : i \in D}) = Cardinality(D)
<1> DEFINE T == {q[i] : i \in D}
           g == [i \in D |-> q[i]]
<1>1. \A i, j \in D : q[i] = q[j] => i = j
  <2>1. DOMAIN q = 1..Len(q)
    BY LenProperties
  <2> QED BY <2>1 DEF IsInjective
<1>2. g \in [D -> T] /\ (\A x \in T : \E i \in D : g[i] = x) /\ (\A i, j \in D : g[i] = g[j] => i = j)
  BY <1>1
<1>3. g \in Bijection(D, T)
  BY <1>2 DEF Bijection, Injection, Surjection, IsInjective
<1>4. ExistsBijection(D, T)
  BY <1>3 DEF ExistsBijection
<1>5. IsFiniteSet(D)
  <2>1. Len(q) \in Nat
    BY LenProperties
  <2> QED BY <2>1, PositionsCounted
<1> HIDE DEF T, g
<1>6. Cardinality(T) = Cardinality(D)
  BY <1>4, <1>5, FS_Bijection
<1> QED BY <1>6 DEF T

LEMMA SpansOfBatch ==
    ASSUME NEW q \in Seq(Span), IsInjective(q)
    PROVE  IsFiniteSet(Range(q)) /\ Cardinality(Range(q)) = Len(q)
<1>1. Len(q) \in Nat /\ DOMAIN q = 1..Len(q)
  BY LenProperties
<1>2. Range(q) = {q[i] : i \in 1..Len(q)}
  BY <1>1 DEF Range
<1>3. \A i, j \in 1..Len(q) : q[i] = q[j] => i = j
  BY <1>1 DEF IsInjective
<1> QED BY <1>1, <1>2, <1>3, ImageCounted

-----------------------------------------------------------------------------
(* What each step adds to the spans that met some fates.                   *)

\* The whole pinned batch meets one fate.
LEMMA BatchGains ==
    ASSUME HeldInv, NEW t \in Flushers, pc[t] = "sending", NEW f,
           Meet(Range(flight[t].spans), f), NEW fates, "held" \notin fates
    PROVE  /\ MetIn(fate, fates) \in Nat /\ Len(pending.spans) \in Nat
           /\ MetIn(fate', fates)
                = MetIn(fate, fates) + IF f \in fates THEN Len(pending.spans) ELSE 0
<1> DEFINE q == pending.spans
           B == Range(q)
           gain == {s \in B : fate'[s] \in fates}
<1>1. flight[t] = pending /\ q \in Seq(Span) /\ IsInjective(q) /\ B \in SUBSET Span
  BY Sending DEF HeldInv, HeldExactlyOnce
<1>2. /\ \A s \in Span \ B : fate'[s] = fate[s]
      /\ \A s \in B : fate'[s] = f
      /\ \A s \in B : fate[s] \notin fates
  BY <1>1, InHandHeld DEF Meet
<1>3. Cardinality(B) = Len(q) /\ Len(q) \in Nat
  BY <1>1, SpansOfBatch, LenProperties
<1>4. Cardinality(gain) = IF f \in fates THEN Len(q) ELSE 0
  <2>1. CASE f \in fates
    <3>1. gain = B
      BY <1>2, <2>1
    <3> QED BY <1>3, <2>1, <3>1
  <2>2. CASE f \notin fates
    <3>1. gain = {}
      BY <1>2, <2>2
    <3> QED BY <2>2, <3>1, FS_EmptySet
  <2> QED BY <2>1, <2>2
<1> DEFINE h == fate'
<1>5. /\ MetIn(fate, fates) \in Nat
      /\ MetIn(h, fates) = MetIn(fate, fates) + Gain(B, h, fates)
  <2>1. Changes(fate, h, B, fates)
    BY <1>1, <1>2 DEF Changes
  <2> HIDE DEF h, B
  <2> QED BY <2>1, MetAdds
<1> QED BY <1>3, <1>4, <1>5 DEF Gain

\* An export: the span it shuts out of the full buffer, if it does.
LEMMA ExportGains ==
    ASSUME HeldInv, Export, NEW fates, "held" \notin fates, "none" \notin fates
    PROVE  /\ MetIn(fate, fates) \in Nat
           /\ \/ shed' = shed /\ MetIn(fate', fates) = MetIn(fate, fates)
              \/ /\ shed' = [shed EXCEPT !["bufferOverflow"] = @ + 1]
                 /\ MetIn(fate', fates)
                      = MetIn(fate, fates) + IF "overflow" \in fates THEN 1 ELSE 0
<1> DEFINE x == exported + 1
           h == fate'
<1>1. /\ x \in Span /\ fate \in [Span -> Fate] /\ fate[x] = "none"
  BY NextIsNew
<1>2. CASE fate' = [fate EXCEPT ![exported + 1] = "held"] /\ shed' = shed
  <2> DEFINE B == {x}
  <2>1. B \in SUBSET Span /\ h[x] = "held" /\ \A s \in Span \ B : h[s] = fate[s]
    BY <1>1, <1>2
  <2>2. {s \in B : h[s] \in fates} = {}
    BY <2>1
  <2>3. \A s \in B : fate[s] \notin fates
    BY <1>1
  <2> HIDE DEF h, x, B
  <2>4. /\ MetIn(fate, fates) \in Nat
        /\ MetIn(h, fates) = MetIn(fate, fates) + Gain(B, h, fates)
    <3>1. Changes(fate, h, B, fates)
      BY <2>1, <2>3 DEF Changes
    <3> QED BY <3>1, MetAdds
  <2>5. Gain(B, h, fates) = 0
    BY <2>2, FS_EmptySet DEF Gain
  <2>6. MetIn(h, fates) = MetIn(fate, fates)
    BY <2>4, <2>5
  <2> QED BY <1>2, <2>4, <2>6 DEF h
<1>3. CASE /\ Len(buf) >= MaxBuffer
           /\ fate' = [fate EXCEPT ![exported + 1] = "held", ![Head(buf)] = "overflow"]
           /\ shed' = [shed EXCEPT !["bufferOverflow"] = @ + 1]
  <2> DEFINE y == Head(buf)
             B == {x, y}
             gain == {s \in B : h[s] \in fates}
  <2>1. y \in Span /\ fate[y] = "held"
    <3>1. buf \in Seq(Span) /\ buf # <<>>
      BY <1>3, ConstantsAssumption DEF HeldInv, TypeOK
    <3>2. y \in Range(buf)
      BY <3>1, HeadAndTail DEF Range
    <3> QED BY <3>2, InHandHeld
  <2>2. /\ B \in SUBSET Span /\ h[x] = "held" /\ h[y] = "overflow"
        /\ \A s \in Span \ B : h[s] = fate[s]
    BY <1>1, <1>3, <2>1
  <2>3. \A s \in B : fate[s] \notin fates
    BY <1>1, <2>1
  <2>4. gain = IF "overflow" \in fates THEN {y} ELSE {}
    BY <2>2
  <2> HIDE DEF h, x, y
  <2>5. /\ MetIn(fate, fates) \in Nat
        /\ MetIn(h, fates) = MetIn(fate, fates) + Gain(B, h, fates)
    <3>1. Changes(fate, h, B, fates)
      BY <2>2, <2>3 DEF Changes
    <3> HIDE DEF B
    <3> QED BY <3>1, MetAdds
  <2>6. Cardinality(gain) = IF "overflow" \in fates THEN 1 ELSE 0
    <3>1. CASE "overflow" \in fates
      <4>1. gain = {y}
        BY <2>4, <3>1
      <4> HIDE DEF gain
      <4> QED BY <3>1, <4>1, FS_Singleton
    <3>2. CASE "overflow" \notin fates
      <4>1. gain = {}
        BY <2>4, <3>2
      <4> HIDE DEF gain
      <4> QED BY <3>2, <4>1, FS_EmptySet
    <3> QED BY <3>1, <3>2
  <2>7. Gain(B, h, fates) = Cardinality(gain)
    BY DEF Gain
  <2> QED BY <1>3, <2>5, <2>6, <2>7 DEF h
<1> QED BY <1>2, <1>3 DEF Export

\* A trusted ack of a truthful gateway: the positions with such a verdict, and what
\* became of the spans it asked for again.
LEMMA JudgedGains ==
    ASSUME Honest, HeldInv, NEW t \in Flushers, Delivered(t), NEW again, Judged(t, again),
           NEW fates, "held" \notin fates, "retry" \notin fates
    PROVE  /\ MetIn(fate, fates) \in Nat /\ Count(receipt.verdict, fates) \in Nat
           /\ Gain(Range(Again(t)), again, fates) \in Nat
           /\ MetIn(fate', fates) = MetIn(fate, fates) + Count(receipt.verdict, fates)
                                     + Gain(Range(Again(t)), again, fates)
<1> DEFINE q == pending.spans
           v == receipt.verdict
           o == receipt.ack.retry
           B == Range(q)
           R == Range(Again(t))
           D == {i \in DOMAIN v : v[i] \in fates}
           P == {q[i] : i \in D}
           A == {s \in R : again[s] \in fates}
           h == fate'
<1>1. /\ flight[t] = pending /\ q \in Seq(Span) /\ IsInjective(q) /\ B \in SUBSET Span
      /\ Len(q) \in Nat /\ DOMAIN q = 1..Len(q) /\ R \subseteq B
      /\ v \in [1..Len(q) -> Verdict] /\ receipt.ack \in TruthfulAcks(v)
  <2>1. /\ flight[t] = pending /\ q \in Seq(Span) /\ B \in SUBSET Span /\ R \subseteq B
    BY ReceiptTyped, Sending, AgainOfPinned
  <2>2. IsInjective(q)
    BY DEF HeldInv, HeldExactlyOnce
  <2>3. Len(q) \in Nat /\ DOMAIN q = 1..Len(q)
    BY <2>1, LenProperties
  <2>4. v \in [1..Len(q) -> Verdict] /\ receipt.ack \in TruthfulAcks(v)
    BY ReceiptTyped DEF Acks
  <2> QED BY <2>1, <2>2, <2>3, <2>4
<1>2. Range(o) = {i \in DOMAIN v : v[i] = "retry"}
  BY <1>1 DEF TruthfulAcks
<1>3. ASSUME NEW i \in 1..Len(q) PROVE q[i] \in R <=> v[i] = "retry"
  <2>1. ASSUME q[i] \in R PROVE v[i] = "retry"
    <3>1. PICK k \in DOMAIN o : q[o[k]] = q[i]
      BY <1>1, <2>1 DEF Again, Range
    <3>2. o[k] \in Range(o)
      BY DEF Range
    <3>3. o[k] \in 1..Len(q) /\ v[o[k]] = "retry"
      BY <1>1, <1>2, <3>2
    <3>4. o[k] = i
      BY <1>1, <3>1, <3>3 DEF IsInjective
    <3> QED BY <3>3, <3>4
  <2>2. ASSUME v[i] = "retry" PROVE q[i] \in R
    <3>1. i \in Range(o)
      BY <1>1, <1>2, <2>2
    <3>2. PICK k \in DOMAIN o : o[k] = i
      BY <3>1 DEF Range
    <3>3. k \in DOMAIN Again(t) /\ Again(t)[k] = q[i]
      BY <1>1, <3>2 DEF Again
    <3> QED BY <3>3 DEF Range
  <2> QED BY <2>1, <2>2
<1>4. \A i \in 1..Len(q) : h[q[i]] = IF q[i] \in R THEN again[q[i]] ELSE v[i]
  <2> SUFFICES ASSUME NEW i \in 1..Len(q)
               PROVE  h[q[i]] = IF q[i] \in R THEN again[q[i]] ELSE v[i]
    OBVIOUS
  <2>1. q[i] \in B /\ q[i] \in Span
    BY <1>1 DEF Range
  <2> DEFINE at == CHOOSE j \in DOMAIN q : q[j] = q[i]
  <2>2. at = i
    <3>1. at \in DOMAIN q /\ q[at] = q[i]
      BY <1>1
    <3> HIDE DEF at
    <3> QED BY <1>1, <3>1 DEF IsInjective
  <2>3. h[q[i]] = IF q[i] \in R THEN again[q[i]] ELSE v[at]
    <3>1. h = [s \in Span |-> IF s \in R THEN again[s]
                              ELSE IF s \in B THEN v[CHOOSE j \in DOMAIN q : q[j] = s]
                              ELSE fate[s]]
      BY <1>1 DEF Judged
    <3>2. h[q[i]] = IF q[i] \in R THEN again[q[i]]
                    ELSE IF q[i] \in B THEN v[CHOOSE j \in DOMAIN q : q[j] = q[i]]
                    ELSE fate[q[i]]
      BY <2>1, <3>1, Zenon
    <3> QED BY <2>1, <3>2
  <2> QED BY <2>2, <2>3
<1>5. \A s \in Span \ B : h[s] = fate[s]
  BY <1>1 DEF Judged
<1>6. \A s \in B : fate[s] \notin fates
  BY InHandHeld
<1>7. \A s \in B : \E i \in 1..Len(q) : q[i] = s
  BY <1>1 DEF Range
<1> HIDE DEF h, v, o, R
<1>8. \A i \in D : i \in 1..Len(q) /\ v[i] \in fates /\ v[i] # "retry"
  BY <1>1
<1>9. {s \in B : h[s] \in fates} = P \cup A
  <2>1. ASSUME NEW s \in B, h[s] \in fates PROVE s \in P \cup A
    <3>1. PICK i \in 1..Len(q) : q[i] = s
      BY <1>7
    <3>2. CASE s \in R
      BY <1>4, <2>1, <3>1, <3>2
    <3>3. CASE s \notin R
      <4>1. v[i] \in fates
        BY <1>4, <2>1, <3>1, <3>3
      <4>2. i \in D
        BY <1>1, <4>1
      <4> QED BY <3>1, <4>2
    <3> QED BY <3>2, <3>3
  <2>2. ASSUME NEW s \in P PROVE s \in B /\ h[s] \in fates
    <3>1. PICK i \in D : s = q[i]
      OBVIOUS
    <3>2. i \in 1..Len(q) /\ v[i] \in fates /\ q[i] \notin R
      BY <1>3, <1>8
    <3>3. q[i] \in B
      BY <1>1, <3>2 DEF Range
    <3> QED BY <1>4, <3>1, <3>2, <3>3
  <2>3. ASSUME NEW s \in A PROVE s \in B /\ h[s] \in fates
    <3>1. s \in B /\ s \in R /\ again[s] \in fates
      BY <1>1
    <3>2. PICK i \in 1..Len(q) : q[i] = s
      BY <1>7, <3>1
    <3> QED BY <1>4, <3>1, <3>2
  <2> QED BY <2>1, <2>2, <2>3
<1>10. P \cap A = {}
  BY <1>3, <1>8
<1>11. P \in SUBSET Span /\ A \in SUBSET Span
  <2>1. \A i \in D : q[i] \in Span
    BY <1>1, <1>8, ElementOfSeq
  <2> QED BY <1>1, <2>1
<1>12. Cardinality(P) = Cardinality(D)
  <2>1. D \subseteq 1..Len(q)
    BY <1>8
  <2> HIDE DEF D
  <2> QED BY <1>1, <2>1, PositionsAreSpans
<1>13. Count(v, fates) = Cardinality(D)
  BY DEF Count
<1> HIDE DEF P, A, D
<1>14. /\ Cardinality(P) \in Nat /\ Cardinality(A) \in Nat
       /\ Cardinality(P \cup A) = Cardinality(P) + Cardinality(A)
  <2>1. IsFiniteSet(P) /\ IsFiniteSet(A)
    BY <1>11, SpansFinite
  <2> QED BY <1>10, <2>1, DisjointAdd
<1>15. /\ MetIn(fate, fates) \in Nat
       /\ MetIn(h, fates) = MetIn(fate, fates) + Gain(B, h, fates)
  <2>1. Changes(fate, h, B, fates)
    BY <1>1, <1>5, <1>6 DEF Changes
  <2> QED BY <2>1, MetAdds
<1>16. MetIn(h, fates) = MetIn(fate, fates) + (Cardinality(P) + Cardinality(A))
  BY <1>9, <1>14, <1>15 DEF Gain
<1>17. MetIn(h, fates) = MetIn(fate, fates) + Count(v, fates) + Cardinality(A)
  BY <1>12, <1>13, <1>14, <1>15, <1>16
<1> QED BY <1>12, <1>13, <1>14, <1>15, <1>17 DEF Gain, h, v, A, R

-----------------------------------------------------------------------------
(* What a truthful ack books.                                              *)

Refusals == {"dead", "unplacedDead", "duplicate", "cut"}

LEMMA RetryCounted ==
    ASSUME Honest, HeldInv, NEW t \in Flushers, Delivered(t)
    PROVE  Len(receipt.ack.retry) = Count(receipt.verdict, {"retry"})
<1> DEFINE v == receipt.verdict
           n == Len(pending.spans)
           retry == receipt.ack.retry
           S == {i \in DOMAIN v : v[i] \in {"retry"}}
<1>1. n \in Nat /\ v \in [1..n -> Verdict] /\ receipt.ack \in TruthfulAcks(v)
  BY ReceiptTyped, Sending DEF Acks
<1>2. retry \in Orders(n) /\ Range(retry) = {i \in DOMAIN v : v[i] = "retry"}
  BY <1>1 DEF TruthfulAcks
<1>3. PICK k \in 0..n : retry \in [1..k -> 1..n] /\ IsInjective(retry)
  BY <1>2 DEF Orders
<1>4. k \in Nat /\ Len(retry) = k /\ \A i, j \in 1..k : retry[i] = retry[j] => i = j
  BY <1>1, <1>3 DEF IsInjective
<1>5. S = {retry[j] : j \in 1..k}
  <2>1. S = Range(retry)
    BY <1>2
  <2> QED BY <2>1, <1>3 DEF Range
<1>6. Cardinality(S) = k
  <2> HIDE DEF S, retry
  <2> QED BY <1>4, <1>5, ImageCounted
<1> QED BY <1>4, <1>6 DEF Count

\* The verdicts on a batch by kind.
LEMMA CountsAddUp ==
    ASSUME NEW n \in Nat, NEW v \in [1..n -> Verdict]
    PROVE  /\ \A x \in Verdict \cup {"cut"} : Count(v, {x}) \in Nat
           /\ Count(v, {"accepted", "unknownFlag"})
                = Count(v, {"accepted"}) + Count(v, {"unknownFlag"})
           /\ Count(v, {"unknownFlag", "unknownRefusal"})
                = Count(v, {"unknownFlag"}) + Count(v, {"unknownRefusal"})
           /\ Count(v, Refusals) = Count(v, {"dead"}) + Count(v, {"unplacedDead"})
                                   + Count(v, {"duplicate"}) + Count(v, {"cut"})
           /\ n = Count(v, {"accepted"}) + Count(v, {"unknownFlag"}) + Count(v, {"retry"})
                  + Count(v, {"unplacedRetry"}) + Count(v, {"unknownRefusal"})
                  + Count(v, Refusals)
<1> DEFINE c(K) == Count(v, K)
           K1 == {"accepted", "unknownFlag"}
           K2 == {"unknownFlag", "unknownRefusal"}
           R2 == {"dead", "unplacedDead"}
           R3 == R2 \cup {"duplicate"}
           Q1 == K1 \cup {"retry"}
           Q2 == Q1 \cup {"unplacedRetry"}
           Q3 == Q2 \cup {"unknownRefusal"}
           All == Q3 \cup Refusals
<1>1. \A x \in Verdict \cup {"cut"} : Count(v, {x}) \in Nat
  <2> SUFFICES ASSUME NEW x PROVE Count(v, {x}) \in Nat
    OBVIOUS
  <2>1. {x} \cap {} = {}
    OBVIOUS
  <2> QED BY <2>1, CountJoin
<1>2. /\ K1 = {"accepted"} \cup {"unknownFlag"} /\ {"accepted"} \cap {"unknownFlag"} = {}
      /\ K2 = {"unknownFlag"} \cup {"unknownRefusal"}
      /\ {"unknownFlag"} \cap {"unknownRefusal"} = {}
      /\ R2 = {"dead"} \cup {"unplacedDead"} /\ {"dead"} \cap {"unplacedDead"} = {}
      /\ Refusals = R3 \cup {"cut"} /\ R3 \cap {"cut"} = {} /\ R2 \cap {"duplicate"} = {}
      /\ K1 \cap {"retry"} = {} /\ Q1 \cap {"unplacedRetry"} = {}
      /\ Q2 \cap {"unknownRefusal"} = {} /\ Q3 \cap Refusals = {}
  BY DEF Refusals
<1>3. c(All) = n
  <2>1. {i \in DOMAIN v : v[i] \in All} = 1..n
    BY DEF Verdict, Refusals
  <2>2. Cardinality(1..n) = n
    BY FS_Interval
  <2> QED BY <2>1, <2>2 DEF Count
<1>4. c(K1) = c({"accepted"}) + c({"unknownFlag"})
  BY <1>2, CountJoin
<1>5. c(K2) = c({"unknownFlag"}) + c({"unknownRefusal"})
  BY <1>2, CountJoin
<1>6. c(R2) = c({"dead"}) + c({"unplacedDead"})
  BY <1>2, CountJoin
<1> HIDE DEF K1, K2, R2
<1>7. c(R3) = c(R2) + c({"duplicate"})
  BY <1>2, CountJoin
<1>8. c(Q1) = c(K1) + c({"retry"})
  BY <1>2, CountJoin
<1> HIDE DEF R3, Q1
<1>9. c(Refusals) = c(R3) + c({"cut"}) /\ c(Refusals) \in Nat
  BY <1>2, CountJoin
<1>10. c(Q2) = c(Q1) + c({"unplacedRetry"})
  BY <1>2, CountJoin
<1> HIDE DEF Q2
<1>11. c(Q3) = c(Q2) + c({"unknownRefusal"})
  BY <1>2, CountJoin
<1> HIDE DEF Q3
<1>12. c(All) = c(Q3) + c(Refusals)
  BY <1>2, CountJoin
<1>13. /\ c({"accepted"}) \in Nat /\ c({"unknownFlag"}) \in Nat /\ c({"retry"}) \in Nat
       /\ c({"unplacedRetry"}) \in Nat /\ c({"unknownRefusal"}) \in Nat
       /\ c({"dead"}) \in Nat /\ c({"unplacedDead"}) \in Nat /\ c({"duplicate"}) \in Nat
       /\ c({"cut"}) \in Nat
  BY <1>1 DEF Verdict
<1>14. c(Refusals) = c({"dead"}) + c({"unplacedDead"}) + c({"duplicate"}) + c({"cut"})
  <2> HIDE DEF c, All
  <2> QED BY <1>6, <1>7, <1>9, <1>13
<1>15. n = c({"accepted"}) + c({"unknownFlag"}) + c({"retry"}) + c({"unplacedRetry"})
           + c({"unknownRefusal"}) + c(Refusals)
  <2> HIDE DEF c, All
  <2> QED BY <1>3, <1>4, <1>8, <1>9, <1>10, <1>11, <1>12, <1>13
<1> QED BY <1>1, <1>4, <1>5, <1>14, <1>15 DEF K1, K2

\* The counters once it is booked: the refusals exactly but for unknown flags, which
\* are taken out of the unattributed loss and are written spans.
LEMMA BookedTruly ==
    ASSUME Honest, HeldInv, NEW t \in Flushers, Delivered(t)
    PROVE  LET b == Booked(Len(pending.spans), receipt.ack)
               v == receipt.verdict
           IN  /\ b \in [Buckets -> Nat]
               /\ \A k \in {"undelivered", "rejected", "bufferOverflow"} : b[k] = shed[k]
               /\ b["unmappedRetryable"] = shed["unmappedRetryable"] + Count(v, {"unplacedRetry"})
               /\ b["unknownCode"]
                    = shed["unknownCode"] + Count(v, {"unknownFlag", "unknownRefusal"})
               /\ b["rejectedByGateway"] <= shed["rejectedByGateway"] + Count(v, Refusals)
               /\ b["rejectedByGateway"] + Count(v, {"unknownFlag"})
                    >= shed["rejectedByGateway"] + Count(v, Refusals)
               /\ Count(v, Refusals) \in Nat /\ Count(v, {"unknownFlag"}) \in Nat
<1> DEFINE v == receipt.verdict
           n == Len(pending.spans)
           a == receipt.ack
           c(K) == Count(v, K)
           lost == LostForGood(n, a)
           b == Booked(n, a)
<1>1. /\ n \in Nat /\ v \in [1..n -> Verdict] /\ a \in TruthfulAcks(v) /\ a \in Ack(n)
      /\ shed \in [Buckets -> Nat]
  BY ReceiptTyped, Sending DEF Acks
<1>2. /\ \A x \in Verdict \cup {"cut"} : c({x}) \in Nat
      /\ c({"accepted", "unknownFlag"}) = c({"accepted"}) + c({"unknownFlag"})
      /\ c({"unknownFlag", "unknownRefusal"}) = c({"unknownFlag"}) + c({"unknownRefusal"})
      /\ c(Refusals) = c({"dead"}) + c({"unplacedDead"}) + c({"duplicate"}) + c({"cut"})
      /\ n = c({"accepted"}) + c({"unknownFlag"}) + c({"retry"}) + c({"unplacedRetry"})
             + c({"unknownRefusal"}) + c(Refusals)
  <2> HIDE DEF n, v
  <2> QED BY <1>1, CountsAddUp
<1>3. /\ a.accepted = c({"accepted", "unknownFlag"}) /\ a.unplacedRetry = c({"unplacedRetry"})
      /\ a.unplacedDead = c({"unplacedDead"})
      /\ a.unknown = c({"unknownFlag", "unknownRefusal"})
      /\ a.dead = {i \in DOMAIN v : v[i] = "dead"}
  BY <1>1 DEF TruthfulAcks
<1>4. Cardinality(a.dead) = c({"dead"})
  <2>1. {i \in DOMAIN v : v[i] = "dead"} = {i \in DOMAIN v : v[i] \in {"dead"}}
    OBVIOUS
  <2> QED BY <1>3, <2>1 DEF Count
<1>5. Len(a.retry) = c({"retry"})
  BY RetryCounted
<1>6. /\ c({"accepted"}) \in Nat /\ c({"unknownFlag"}) \in Nat /\ c({"retry"}) \in Nat
      /\ c({"unplacedRetry"}) \in Nat /\ c({"unknownRefusal"}) \in Nat
      /\ c({"dead"}) \in Nat /\ c({"unplacedDead"}) \in Nat /\ c({"duplicate"}) \in Nat
      /\ c({"cut"}) \in Nat
  BY <1>2 DEF Verdict
<1> HIDE DEF c, n, v, a
<1>7. Named(a) = c({"retry"}) + c({"dead"}) + c({"unplacedRetry"}) + c({"unplacedDead"})
  BY <1>3, <1>4, <1>5 DEF Named
<1>8. Unattributed(n, a) = GreaterOf(0, c({"duplicate"}) + c({"cut"}) - c({"unknownFlag"}))
  <2>1. n - a.accepted - Named(a) - a.unknown
          = c({"duplicate"}) + c({"cut"}) - c({"unknownFlag"})
    BY <1>2, <1>3, <1>6, <1>7
  <2> QED BY <2>1 DEF Unattributed
<1>9. lost = c({"dead"}) + c({"unplacedDead"})
             + GreaterOf(0, c({"duplicate"}) + c({"cut"}) - c({"unknownFlag"}))
  BY <1>3, <1>4, <1>8 DEF LostForGood
<1>10. /\ lost \in Nat /\ lost <= c(Refusals) /\ lost + c({"unknownFlag"}) >= c(Refusals)
       /\ c(Refusals) \in Nat
  <2> HIDE DEF lost
  <2> QED BY <1>2, <1>6, <1>9 DEF GreaterOf
<1>11. b \in [Buckets -> Nat]
  BY <1>1, BookedTyped
<1>12. b = [shed EXCEPT !["rejectedByGateway"] = @ + lost,
                        !["unmappedRetryable"] = @ + a.unplacedRetry,
                        !["unknownCode"] = @ + a.unknown]
  BY DEF Booked
<1> HIDE DEF lost, b
<1>13. /\ \A k \in {"undelivered", "rejected", "bufferOverflow"} : b[k] = shed[k]
       /\ b["unmappedRetryable"] = shed["unmappedRetryable"] + a.unplacedRetry
       /\ b["unknownCode"] = shed["unknownCode"] + a.unknown
       /\ b["rejectedByGateway"] = shed["rejectedByGateway"] + lost
       /\ shed["rejectedByGateway"] \in Nat
  BY <1>1, <1>12 DEF Buckets
<1>14. /\ b["unmappedRetryable"] = shed["unmappedRetryable"] + c({"unplacedRetry"})
       /\ b["unknownCode"] = shed["unknownCode"] + c({"unknownFlag", "unknownRefusal"})
  BY <1>3, <1>13
<1>15. /\ b["rejectedByGateway"] <= shed["rejectedByGateway"] + c(Refusals)
       /\ b["rejectedByGateway"] + c({"unknownFlag"}) >= shed["rejectedByGateway"] + c(Refusals)
  BY <1>6, <1>10, <1>13
<1> QED BY <1>6, <1>10, <1>11, <1>13, <1>14, <1>15 DEF a, b, c, n, v

\* What comes back: spent, all of it is undelivered; put back, the cap throws so
\* many away and the rest is in hand again.
LEMMA AgainSpent ==
    ASSUME HeldInv, NEW t \in Flushers, Delivered(t), NEW fates
    PROVE  /\ Gain(Range(Again(t)), [s \in Span |-> "undelivered"], fates)
                = IF "undelivered" \in fates THEN Len(receipt.ack.retry) ELSE 0
           /\ Len(receipt.ack.retry) \in Nat
<1> DEFINE R == Range(Again(t))
           again == [s \in Span |-> "undelivered"]
           gain == {s \in R : again[s] \in fates}
<1>1. /\ Again(t) \in Seq(Span) /\ IsInjective(Again(t))
      /\ Len(Again(t)) = Len(receipt.ack.retry) /\ Len(receipt.ack.retry) \in Nat
  BY AgainOfPinned
<1>2. R \subseteq Span
  BY <1>1, RangeMember
<1>3. Cardinality(R) = Len(receipt.ack.retry)
  BY <1>1, SpansOfBatch
<1>4. gain = IF "undelivered" \in fates THEN R ELSE {}
  BY <1>2
<1> HIDE DEF R, gain
<1>5. Cardinality(gain) = IF "undelivered" \in fates THEN Len(receipt.ack.retry) ELSE 0
  <2>1. CASE "undelivered" \in fates
    BY <1>3, <1>4, <2>1
  <2>2. CASE "undelivered" \notin fates
    BY <1>4, <2>2, FS_EmptySet
  <2> QED BY <2>1, <2>2
<1> QED BY <1>1, <1>5 DEF Gain, gain, R

LEMMA AgainKept ==
    ASSUME HeldInv, NEW t \in Flushers, Delivered(t), NEW fates, "held" \notin fates
    PROVE  /\ Gain(Range(Again(t)),
                   [s \in Span |-> IF s \in Range(SubSeq(Refilled(t), 1, Excess(t)))
                                   THEN "overflow" ELSE "held"], fates)
                = IF "overflow" \in fates THEN Excess(t) ELSE 0
           /\ Excess(t) \in Nat
<1> DEFINE R == Range(Again(t))
           whole == Refilled(t)
           cut == Excess(t)
           front == SubSeq(whole, 1, cut)
           O == Range(front)
           again == [s \in Span |-> IF s \in O THEN "overflow" ELSE "held"]
           gain == {s \in R : again[s] \in fates}
<1>1. /\ Again(t) \in Seq(Span) /\ IsInjective(Again(t)) /\ Len(Again(t)) \in Nat
      /\ buf \in Seq(Span) /\ IsInjective(buf) /\ R \cap Range(buf) = {} /\ O \subseteq R
  <2>1. /\ Again(t) \in Seq(Span) /\ IsInjective(Again(t)) /\ Len(Again(t)) \in Nat
        /\ R \subseteq Range(pending.spans)
    BY AgainOfPinned, LenProperties
  <2>2. O \subseteq R
    BY RefillHeld
  <2>3. buf \in Seq(Span) /\ IsInjective(buf) /\ Range(buf) \cap Range(pending.spans) = {}
    BY DEF HeldInv, TypeOK, HeldExactlyOnce
  <2> QED BY <2>1, <2>2, <2>3
<1>2. R \subseteq Span
  BY <1>1, RangeMember
<1>3. /\ whole \in Seq(Span) /\ Len(whole) = Len(Again(t)) + Len(buf) /\ IsInjective(whole)
  BY <1>1, JoinSequences DEF Refilled
<1>4. cut \in 0..Len(whole) /\ cut \in Nat
  <2>1. Len(whole) \in Nat /\ MaxBuffer \in Nat
    BY <1>3, ConstantsAssumption, LenProperties
  <2>2. cut = GreaterOf(0, Len(whole) - MaxBuffer)
    BY DEF Excess
  <2> HIDE DEF whole, cut
  <2> QED BY <2>1, <2>2 DEF GreaterOf
<1> HIDE DEF whole, cut
<1>5. front \in Seq(Span) /\ IsInjective(front) /\ Len(front) = cut
  <2>1. whole \in Seq(Span) /\ IsInjective(whole) /\ cut \in 0..Len(whole)
    BY <1>3, <1>4
  <2> QED BY ONLY <2>1, CutSequence
<1> HIDE DEF front
<1>6. Cardinality(O) = cut
  BY <1>5, SpansOfBatch
<1>7. gain = IF "overflow" \in fates THEN O ELSE {}
  BY <1>1, <1>2
<1> HIDE DEF O, gain
<1>8. Cardinality(gain) = IF "overflow" \in fates THEN cut ELSE 0
  <2>1. CASE "overflow" \in fates
    BY <1>6, <1>7, <2>1
  <2>2. CASE "overflow" \notin fates
    BY <1>7, <2>2, FS_EmptySet
  <2> QED BY <2>1, <2>2
<1> QED BY <1>4, <1>8 DEF Gain, gain, R, O, front, whole, cut

-----------------------------------------------------------------------------
(* CountersTellTheTruth.                                                   *)

\* It, of a history and some counters.
Truth(g, c) ==
    /\ c["undelivered"] = MetIn(g, {"undelivered"})
    /\ c["rejected"] = MetIn(g, {"refused"})
    /\ c["bufferOverflow"] = MetIn(g, {"overflow"})
    /\ c["unmappedRetryable"] = MetIn(g, {"unplacedRetry"})
    /\ c["unknownCode"] = MetIn(g, {"unknownFlag", "unknownRefusal"})
    /\ MetIn(g, {"distrusted"}) = 0
    /\ c["rejectedByGateway"] <= MetIn(g, Refusals)
    /\ c["rejectedByGateway"] + MetIn(g, {"unknownFlag"}) >= MetIn(g, Refusals)

LEMMA TruthIsTold ==
    /\ CountersTellTheTruth <=> Truth(fate, shed)
    /\ CountersTellTheTruth' <=> Truth(fate', shed')
BY DEF CountersTellTheTruth, Truth, Met, MetIn, Refusals

\* The initial history: no fate these counters count.
LEMMA TruthInit == Init => CountersTellTheTruth
<1> SUFFICES ASSUME Init PROVE CountersTellTheTruth
  OBVIOUS
<1>1. ASSUME NEW F, "none" \notin F PROVE MetIn(fate, F) = 0
  <2>1. {s \in Span : fate[s] \in F} = {}
    BY <1>1 DEF Init
  <2> QED BY <2>1, FS_EmptySet DEF MetIn
<1>2. /\ MetIn(fate, {"undelivered"}) = 0 /\ MetIn(fate, {"refused"}) = 0
      /\ MetIn(fate, {"overflow"}) = 0 /\ MetIn(fate, {"unplacedRetry"}) = 0
      /\ MetIn(fate, {"unknownFlag", "unknownRefusal"}) = 0
      /\ MetIn(fate, {"distrusted"}) = 0 /\ MetIn(fate, {"unknownFlag"}) = 0
  BY <1>1
<1>3. MetIn(fate, Refusals) = 0
  BY <1>1 DEF Refusals
<1>4. \A b \in Buckets : shed[b] = 0
  BY DEF Init
<1> QED BY <1>2, <1>3, <1>4, TruthIsTold DEF Truth, Buckets

\* A whole-batch loss goes to the counter of its cause.
LEMMA ShedTruth ==
    ASSUME HeldInv, CountersTellTheTruth, NEW t \in Flushers, pc[t] = "sending",
           NEW bucket, NEW f, ShedBatch(t, bucket, f),
           \/ bucket = "rejected" /\ f = "refused"
           \/ bucket = "undelivered" /\ f = "undelivered"
           \/ bucket = "rejectedByGateway" /\ f = "cut"
    PROVE  CountersTellTheTruth'
<1> DEFINE n == Len(pending.spans)
           g == fate
           h == fate'
           c == shed
           d == shed'
<1>1. /\ n \in Nat /\ c \in [Buckets -> Nat] /\ Meet(Range(flight[t].spans), f)
      /\ d = [c EXCEPT ![bucket] = @ + n]
  BY Sending DEF ShedBatch
<1>2. ASSUME NEW F, "held" \notin F
      PROVE  MetIn(g, F) \in Nat /\ MetIn(h, F) = MetIn(g, F) + IF f \in F THEN n ELSE 0
  BY <1>1, <1>2, BatchGains
<1>3. Truth(g, c)
  BY TruthIsTold
<1> HIDE DEF g, h, c, d, n
<1>4. /\ MetIn(h, {"undelivered"}) = MetIn(g, {"undelivered"}) + IF f = "undelivered" THEN n ELSE 0
      /\ MetIn(h, {"refused"}) = MetIn(g, {"refused"}) + IF f = "refused" THEN n ELSE 0
      /\ MetIn(h, {"overflow"}) = MetIn(g, {"overflow"}) + IF f = "overflow" THEN n ELSE 0
      /\ MetIn(h, {"unplacedRetry"}) = MetIn(g, {"unplacedRetry"}) + IF f = "unplacedRetry" THEN n ELSE 0
      /\ MetIn(h, {"unknownFlag", "unknownRefusal"})
           = MetIn(g, {"unknownFlag", "unknownRefusal"})
               + IF f \in {"unknownFlag", "unknownRefusal"} THEN n ELSE 0
      /\ MetIn(h, {"distrusted"}) = MetIn(g, {"distrusted"}) + IF f = "distrusted" THEN n ELSE 0
      /\ MetIn(h, {"unknownFlag"}) = MetIn(g, {"unknownFlag"}) + IF f = "unknownFlag" THEN n ELSE 0
  BY <1>2
<1>5. MetIn(h, Refusals) = MetIn(g, Refusals) + IF f \in Refusals THEN n ELSE 0
  BY <1>2 DEF Refusals
<1>6. \A F \in {{"undelivered"}, {"refused"}, {"overflow"}, {"unplacedRetry"}, {"distrusted"},
                {"unknownFlag", "unknownRefusal"}, {"unknownFlag"}, Refusals} : MetIn(g, F) \in Nat
  BY <1>2 DEF Refusals
<1>7. Truth(h, d)
  <2>1. CASE bucket = "rejected" /\ f = "refused"
    BY <1>1, <1>3, <1>4, <1>5, <1>6, <2>1 DEF Truth, Buckets, Refusals
  <2>2. CASE bucket = "undelivered" /\ f = "undelivered"
    BY <1>1, <1>3, <1>4, <1>5, <1>6, <2>2 DEF Truth, Buckets, Refusals
  <2>3. CASE bucket = "rejectedByGateway" /\ f = "cut"
    BY <1>1, <1>3, <1>4, <1>5, <1>6, <2>3 DEF Truth, Buckets, Refusals
  <2> QED BY <2>1, <2>2, <2>3
<1> QED BY <1>7, TruthIsTold DEF h, d

LEMMA ExportTruth ==
    ASSUME HeldInv, CountersTellTheTruth, Export PROVE CountersTellTheTruth'
<1> DEFINE g == fate
           h == fate'
           c == shed
           d == shed'
<1>0. d = c \/ d = [c EXCEPT !["bufferOverflow"] = @ + 1]
  BY DEF Export
<1>1. c \in [Buckets -> Nat] /\ Truth(g, c)
  BY TruthIsTold DEF HeldInv, TypeOK
<1>2. ASSUME NEW F, "held" \notin F, "none" \notin F
      PROVE  /\ MetIn(g, F) \in Nat
             /\ \/ d = c /\ MetIn(h, F) = MetIn(g, F)
                \/ /\ d = [c EXCEPT !["bufferOverflow"] = @ + 1]
                   /\ MetIn(h, F) = MetIn(g, F) + IF "overflow" \in F THEN 1 ELSE 0
  BY <1>2, ExportGains
<1>3. \A b \in Buckets : c[b] \in Nat
  BY <1>1
<1> HIDE DEF g, h, c, d
<1>5. "bufferOverflow" \in Buckets /\ [c EXCEPT !["bufferOverflow"] = @ + 1] # c
  <2> DEFINE e == [c EXCEPT !["bufferOverflow"] = @ + 1]
  <2>1. "bufferOverflow" \in Buckets
    BY DEF Buckets
  <2>2. e["bufferOverflow"] = c["bufferOverflow"] + 1 /\ c["bufferOverflow"] \in Nat
    BY <1>1, <2>1
  <2> HIDE DEF e
  <2>3. e # c
    BY <2>2
  <2> QED BY <2>1, <2>3 DEF e
<1>4. \/ d = c
      \/ d = [c EXCEPT !["bufferOverflow"] = @ + 1] /\ d # c
  BY <1>0, <1>5
<1>6. ASSUME NEW F, "held" \notin F, "none" \notin F
      PROVE  /\ MetIn(g, F) \in Nat
             /\ d = c => MetIn(h, F) = MetIn(g, F)
             /\ d # c => MetIn(h, F) = MetIn(g, F) + IF "overflow" \in F THEN 1 ELSE 0
  BY <1>2, <1>5, <1>6
<1>7. /\ MetIn(g, {"undelivered"}) \in Nat /\ MetIn(g, {"refused"}) \in Nat
      /\ MetIn(g, {"overflow"}) \in Nat /\ MetIn(g, {"unplacedRetry"}) \in Nat
      /\ MetIn(g, {"unknownFlag", "unknownRefusal"}) \in Nat
      /\ MetIn(g, {"distrusted"}) \in Nat /\ MetIn(g, {"unknownFlag"}) \in Nat
      /\ MetIn(h, {"undelivered"}) = MetIn(g, {"undelivered"})
      /\ MetIn(h, {"refused"}) = MetIn(g, {"refused"})
      /\ MetIn(h, {"overflow"}) = MetIn(g, {"overflow"}) + IF d # c THEN 1 ELSE 0
      /\ MetIn(h, {"unplacedRetry"}) = MetIn(g, {"unplacedRetry"})
      /\ MetIn(h, {"unknownFlag", "unknownRefusal"}) = MetIn(g, {"unknownFlag", "unknownRefusal"})
      /\ MetIn(h, {"distrusted"}) = MetIn(g, {"distrusted"})
      /\ MetIn(h, {"unknownFlag"}) = MetIn(g, {"unknownFlag"})
  BY <1>6
<1>8. MetIn(g, Refusals) \in Nat /\ MetIn(h, Refusals) = MetIn(g, Refusals)
  BY <1>6 DEF Refusals
<1>9. Truth(h, d)
  BY <1>1, <1>3, <1>4, <1>5, <1>7, <1>8 DEF Truth, Buckets
<1> QED BY <1>9, TruthIsTold DEF h, d

\* An ack nobody could read is counted nowhere.
LEMMA UnreadableTruth ==
    ASSUME HeldInv, CountersTellTheTruth, NEW t \in Flushers, SettleUnreadable(t)
    PROVE  CountersTellTheTruth'
<1> DEFINE g == fate
           h == fate'
<1>1. pc[t] = "sending" /\ Meet(Range(flight[t].spans), "blind") /\ shed' = shed
  BY DEF SettleUnreadable, Delivered
<1>2. ASSUME NEW F, "held" \notin F, "blind" \notin F PROVE MetIn(h, F) = MetIn(g, F)
  BY <1>1, <1>2, BatchGains
<1>3. Truth(g, shed)
  BY TruthIsTold
<1> HIDE DEF g, h
<1>4. /\ MetIn(h, {"undelivered"}) = MetIn(g, {"undelivered"})
      /\ MetIn(h, {"refused"}) = MetIn(g, {"refused"})
      /\ MetIn(h, {"overflow"}) = MetIn(g, {"overflow"})
      /\ MetIn(h, {"unplacedRetry"}) = MetIn(g, {"unplacedRetry"})
      /\ MetIn(h, {"unknownFlag", "unknownRefusal"}) = MetIn(g, {"unknownFlag", "unknownRefusal"})
      /\ MetIn(h, {"distrusted"}) = MetIn(g, {"distrusted"})
      /\ MetIn(h, {"unknownFlag"}) = MetIn(g, {"unknownFlag"})
  BY <1>2
<1>5. MetIn(h, Refusals) = MetIn(g, Refusals)
  BY <1>2 DEF Refusals
<1>6. Truth(h, shed')
  BY <1>1, <1>3, <1>4, <1>5 DEF Truth
<1> QED BY <1>6, TruthIsTold DEF h

\* A trusted ack: what it decided, and what came back and was lost or kept.
LEMMA JudgedTruth ==
    ASSUME Honest, HeldInv, CountersTellTheTruth, NEW t \in Flushers, Delivered(t),
           NEW again, Judged(t, again), NEW f, NEW k \in Nat, NEW bucket,
           \/ bucket = "undelivered" /\ f = "undelivered"
           \/ bucket = "bufferOverflow" /\ f = "overflow",
           shed' = [Booked(Len(pending.spans), receipt.ack) EXCEPT ![bucket] = @ + k],
           \A F : "held" \notin F => Gain(Range(Again(t)), again, F) = IF f \in F THEN k ELSE 0
    PROVE  CountersTellTheTruth'
<1> DEFINE g == fate
           h == fate'
           c == shed
           d == shed'
           v == receipt.verdict
           b == Booked(Len(pending.spans), receipt.ack)
<1>1. /\ b \in [Buckets -> Nat]
      /\ \A x \in {"undelivered", "rejected", "bufferOverflow"} : b[x] = c[x]
      /\ b["unmappedRetryable"] = c["unmappedRetryable"] + Count(v, {"unplacedRetry"})
      /\ b["unknownCode"] = c["unknownCode"] + Count(v, {"unknownFlag", "unknownRefusal"})
      /\ b["rejectedByGateway"] <= c["rejectedByGateway"] + Count(v, Refusals)
      /\ b["rejectedByGateway"] + Count(v, {"unknownFlag"})
           >= c["rejectedByGateway"] + Count(v, Refusals)
      /\ Count(v, Refusals) \in Nat /\ Count(v, {"unknownFlag"}) \in Nat
  BY BookedTruly
<1>2. /\ Truth(g, c) /\ c \in [Buckets -> Nat] /\ d = [b EXCEPT ![bucket] = @ + k]
  BY TruthIsTold DEF HeldInv, TypeOK
<1>3. ASSUME NEW F, "held" \notin F, "retry" \notin F
      PROVE  /\ MetIn(g, F) \in Nat /\ Count(v, F) \in Nat
             /\ f \in F => MetIn(h, F) = MetIn(g, F) + Count(v, F) + k
             /\ f \notin F => MetIn(h, F) = MetIn(g, F) + Count(v, F)
  <2>1. /\ MetIn(g, F) \in Nat /\ Count(v, F) \in Nat
        /\ MetIn(h, F) = MetIn(g, F) + Count(v, F) + Gain(Range(Again(t)), again, F)
    BY <1>3, JudgedGains
  <2>2. Gain(Range(Again(t)), again, F) = IF f \in F THEN k ELSE 0
    BY <1>3
  <2> DEFINE x == MetIn(g, F)
             y == MetIn(h, F)
             w == Count(v, F)
             e == Gain(Range(Again(t)), again, F)
  <2> HIDE DEF x, y, w, e
  <2>3. x \in Nat /\ w \in Nat /\ y = x + w + e /\ e = IF f \in F THEN k ELSE 0
    BY <2>1, <2>2 DEF x, y, w, e
  <2>4. (f \in F => y = x + w + k) /\ (f \notin F => y = x + w)
    BY <2>3
  <2> QED BY <2>3, <2>4 DEF x, y, w
<1>4. ASSUME NEW F, F \cap Verdict = {} PROVE Count(v, F) = 0
  <2>1. v \in [1..Len(pending.spans) -> Verdict]
    BY ReceiptTyped
  <2>2. {i \in DOMAIN v : v[i] \in F} = {}
    BY <1>4, <2>1
  <2> QED BY <2>2, FS_EmptySet DEF Count
<1>5. /\ Count(v, {"undelivered"}) = 0 /\ Count(v, {"refused"}) = 0
      /\ Count(v, {"overflow"}) = 0 /\ Count(v, {"distrusted"}) = 0
  BY <1>4 DEF Verdict
<1> HIDE DEF g, h, c, d, v, b
<1>6. /\ MetIn(g, {"undelivered"}) \in Nat /\ MetIn(g, {"refused"}) \in Nat
      /\ MetIn(g, {"overflow"}) \in Nat /\ MetIn(g, {"unplacedRetry"}) \in Nat
      /\ MetIn(g, {"unknownFlag", "unknownRefusal"}) \in Nat
      /\ MetIn(g, {"unknownFlag"}) \in Nat /\ MetIn(g, {"distrusted"}) \in Nat
      /\ Count(v, {"unplacedRetry"}) \in Nat
      /\ Count(v, {"unknownFlag", "unknownRefusal"}) \in Nat
  BY <1>3
<1>7. /\ MetIn(h, {"undelivered"}) = MetIn(g, {"undelivered"}) + IF f = "undelivered" THEN k ELSE 0
      /\ MetIn(h, {"refused"}) = MetIn(g, {"refused"})
      /\ MetIn(h, {"overflow"}) = MetIn(g, {"overflow"}) + IF f = "overflow" THEN k ELSE 0
      /\ MetIn(h, {"distrusted"}) = MetIn(g, {"distrusted"})
  <2>1. ASSUME NEW x, x \in {"undelivered", "refused", "overflow", "distrusted"}
        PROVE  MetIn(h, {x}) = MetIn(g, {x}) + IF f = x THEN k ELSE 0
    <3>1. "held" \notin {x} /\ "retry" \notin {x} /\ (f \in {x} <=> f = x)
      BY <2>1
    <3>2. /\ MetIn(g, {x}) \in Nat
          /\ f = x => MetIn(h, {x}) = MetIn(g, {x}) + Count(v, {x}) + k
          /\ f # x => MetIn(h, {x}) = MetIn(g, {x}) + Count(v, {x})
      BY <1>3, <3>1
    <3>3. Count(v, {x}) = 0
      BY <1>5, <2>1
    <3> QED BY <3>2, <3>3
  <2>2. f # "refused" /\ f # "distrusted"
    OBVIOUS
  <2>3. MetIn(h, {"refused"}) = MetIn(g, {"refused"}) + 0
    BY <2>1, <2>2
  <2>4. MetIn(h, {"distrusted"}) = MetIn(g, {"distrusted"}) + 0
    BY <2>1, <2>2
  <2>5. MetIn(h, {"undelivered"}) = MetIn(g, {"undelivered"}) + IF f = "undelivered" THEN k ELSE 0
    BY <2>1
  <2>6. MetIn(h, {"overflow"}) = MetIn(g, {"overflow"}) + IF f = "overflow" THEN k ELSE 0
    BY <2>1
  <2> QED BY <1>6, <2>3, <2>4, <2>5, <2>6
<1>8. /\ MetIn(h, {"unplacedRetry"}) = MetIn(g, {"unplacedRetry"}) + Count(v, {"unplacedRetry"})
      /\ MetIn(h, {"unknownFlag", "unknownRefusal"})
           = MetIn(g, {"unknownFlag", "unknownRefusal"})
               + Count(v, {"unknownFlag", "unknownRefusal"})
      /\ MetIn(h, {"unknownFlag"}) = MetIn(g, {"unknownFlag"}) + Count(v, {"unknownFlag"})
  BY <1>3, <1>6
<1>9. MetIn(g, Refusals) \in Nat /\ MetIn(h, Refusals) = MetIn(g, Refusals) + Count(v, Refusals)
  BY <1>1, <1>3 DEF Refusals
<1>10. \A x \in Buckets : c[x] \in Nat /\ b[x] \in Nat
  BY <1>1, <1>2
<1>11. /\ \A x \in Buckets \ {bucket} : d[x] = b[x]
       /\ bucket \in Buckets /\ d[bucket] = b[bucket] + k
  BY <1>1, <1>2 DEF Buckets
<1>12. /\ d["rejected"] = c["rejected"]
       /\ d["undelivered"] = c["undelivered"] + IF f = "undelivered" THEN k ELSE 0
       /\ d["bufferOverflow"] = c["bufferOverflow"] + IF f = "overflow" THEN k ELSE 0
       /\ d["unmappedRetryable"] = b["unmappedRetryable"]
       /\ d["unknownCode"] = b["unknownCode"]
       /\ d["rejectedByGateway"] = b["rejectedByGateway"]
  <2>1. /\ b["rejected"] = c["rejected"] /\ b["undelivered"] = c["undelivered"]
        /\ b["bufferOverflow"] = c["bufferOverflow"]
    BY <1>1
  <2>3. \A x \in Buckets : d[x] = b[x] + IF x = bucket THEN k ELSE 0
    BY <1>10, <1>11
  <2>4. /\ d["rejected"] = b["rejected"] /\ d["unmappedRetryable"] = b["unmappedRetryable"]
        /\ d["unknownCode"] = b["unknownCode"]
        /\ d["rejectedByGateway"] = b["rejectedByGateway"]
    BY <1>11 DEF Buckets
  <2>5. /\ d["undelivered"] = b["undelivered"] + IF "undelivered" = bucket THEN k ELSE 0
        /\ d["bufferOverflow"] = b["bufferOverflow"] + IF "bufferOverflow" = bucket THEN k ELSE 0
    BY <2>3 DEF Buckets
  <2> QED BY <2>1, <2>4, <2>5
<1>13. \A x \in Buckets : c[x] \in Nat /\ d[x] \in Nat
  BY <1>10, <1>11
<1>14. Truth(h, d)
  <2>1. c["rejectedByGateway"] \in Nat /\ d["rejectedByGateway"] \in Nat
    BY <1>13 DEF Buckets
  <2>2. d["rejectedByGateway"] <= MetIn(h, Refusals)
        /\ d["rejectedByGateway"] + MetIn(h, {"unknownFlag"}) >= MetIn(h, Refusals)
    <3> DEFINE x == c["rejectedByGateway"]
               y == d["rejectedByGateway"]
               m == MetIn(g, Refusals)
               w == Count(v, Refusals)
               u == MetIn(g, {"unknownFlag"})
               e == Count(v, {"unknownFlag"})
    <3>1. /\ x \in Nat /\ y \in Nat /\ m \in Nat /\ w \in Nat /\ u \in Nat /\ e \in Nat
          /\ x <= m /\ x + u >= m /\ y <= x + w /\ y + e >= x + w
      BY <1>1, <1>2, <1>6, <1>9, <1>12, <2>1 DEF Truth
    <3>2. MetIn(h, Refusals) = m + w /\ MetIn(h, {"unknownFlag"}) = u + e
      BY <1>8, <1>9
    <3> HIDE DEF x, y, m, w, u, e
    <3>3. y <= m + w /\ y + (u + e) >= m + w
      BY <3>1
    <3> QED BY <3>2, <3>3 DEF y
  <2> QED BY <1>1, <1>2, <1>7, <1>8, <1>12, <2>2 DEF Truth
<1> QED BY <1>14, TruthIsTold DEF h, d

LEMMA ClearTruth ==
    ASSUME Honest, HeldInv, CountersTellTheTruth, NEW t \in Flushers,
           SettleClear(t) \/ SettleRequeue(t)
    PROVE  CountersTellTheTruth'
<1>1. Delivered(t) /\ flight[t] = pending
  BY ReceiptTyped, Sending DEF SettleClear, SettleRequeue
<1>2. CASE SettleClear(t)
  <2> DEFINE again == [s \in Span |-> "undelivered"]
             k == Len(receipt.ack.retry)
  <2>1. /\ Judged(t, again)
        /\ shed' = [Booked(Len(pending.spans), receipt.ack) EXCEPT !["undelivered"] = @ + k]
    BY <1>1, <1>2 DEF SettleClear
  <2>2. k \in Nat
    BY <1>1, AgainOfPinned
  <2>3. ASSUME NEW F
        PROVE  Gain(Range(Again(t)), again, F) = IF "undelivered" \in F THEN k ELSE 0
    BY <1>1, AgainSpent
  <2> HIDE DEF again, k
  <2> QED BY <1>1, <2>1, <2>2, <2>3, JudgedTruth
<1>3. CASE SettleRequeue(t)
  <2> DEFINE again == [s \in Span |-> IF s \in Range(SubSeq(Refilled(t), 1, Excess(t)))
                                      THEN "overflow" ELSE "held"]
             k == Excess(t)
  <2>1. /\ Judged(t, again)
        /\ shed' = [Booked(Len(pending.spans), receipt.ack) EXCEPT !["bufferOverflow"] = @ + k]
    BY <1>1, <1>3 DEF SettleRequeue
  <2>2. k \in Nat
    <3>1. "held" \notin {}
      OBVIOUS
    <3> QED BY <1>1, <3>1, AgainKept
  <2>3. ASSUME NEW F, "held" \notin F
        PROVE  Gain(Range(Again(t)), again, F) = IF "overflow" \in F THEN k ELSE 0
    BY <1>1, <2>3, AgainKept
  <2> HIDE DEF again, k
  <2> QED BY <1>1, <2>1, <2>2, <2>3, JudgedTruth
<1> QED BY <1>2, <1>3

LEMMA TruthStep ==
    ASSUME Honest, HeldInv, CountersTellTheTruth, [Next]_vars PROVE CountersTellTheTruth'
<1>1. CASE Export
  BY <1>1, ExportTruth
<1>2. ASSUME fate' = fate, shed' = shed PROVE CountersTellTheTruth'
  BY <1>2, TruthIsTold
<1>3. CASE UNCHANGED vars \/ Start \/ Stop \/ DaemonWinds \/ GatewayDecides
  BY <1>2, <1>3 DEF vars, codeVars, Start, Stop, DaemonWinds, GatewayDecides
<1>4. ASSUME NEW t \in Flushers, TakeBatch(t) \/ Encode(t) \/ EncodeRaises(t)
      PROVE  CountersTellTheTruth'
  BY <1>2, <1>4 DEF TakeBatch, Encode, EncodeRaises
<1>5. ASSUME NEW t \in Flushers, SettleRefused(t) PROVE CountersTellTheTruth'
  BY <1>5, ShedTruth DEF SettleRefused
<1>6. ASSUME NEW t \in Flushers, SettleRetryable(t) PROVE CountersTellTheTruth'
  BY <1>2, <1>6, ShedTruth DEF SettleRetryable
<1>7. ASSUME NEW t \in Flushers, SettleTruncated(t) PROVE CountersTellTheTruth'
  BY <1>7, ShedTruth DEF SettleTruncated, Delivered
<1> QED
  BY <1>1, <1>3, <1>4, <1>5, <1>6, <1>7, UnreadableTruth, TruthConsistent, ClearTruth
  DEF Next, Flush, Settle

\* CTO-391, CTO-406: with a gateway that reports what it did, every counter of
\* shed_counts() is the number of spans that met its fate.  Only the in-200
\* refusals may be fewer, by no more than the written spans with an unknown flag.
THEOREM CountersTellTheTruthHolds == ASSUME Honest PROVE Spec => []CountersTellTheTruth
<1>1. Init => CountersTellTheTruth
  BY TruthInit
<1>2. HeldInv /\ CountersTellTheTruth /\ [Next]_vars => CountersTellTheTruth'
  BY TruthStep
<1> QED BY <1>1, <1>2, HeldInvHolds, PTL DEF Spec

-----------------------------------------------------------------------------
(* NoSilentLoss.                                                           *)

\* What a truthful gateway says of a span: a span said to be written is written,
\* and one it wants again is not left behind.
WordInv ==
    /\ \A s \in Span : fate[s] # "retry" /\ (Written(fate[s]) => s \in landed)
    /\ receipt # NoReceipt =>
           \A i \in DOMAIN pending.spans :
               Written(receipt.verdict[i]) => pending.spans[i] \in landed

LEMMA WordInit == Init => WordInv
BY DEF Init, WordInv, Written

\* While a receipt stands its batch stays pinned, and nothing written is unwritten.
LEMMA ReceiptStands ==
    ASSUME HeldInv, [Next]_vars
    PROVE  /\ landed \subseteq landed'
           /\ \/ receipt' = NoReceipt
              \/ receipt' = receipt /\ receipt # NoReceipt /\ pending'.spans = pending.spans
              \/ GatewayDecides
<1>1. CASE UNCHANGED vars \/ Export \/ Start \/ Stop \/ DaemonWinds
  BY <1>1 DEF vars, Export, Start, Stop, DaemonWinds
<1>2. CASE GatewayDecides
  BY <1>2 DEF GatewayDecides
<1>3. ASSUME NEW t \in Flushers, TakeBatch(t)
      PROVE  /\ landed' = landed /\ receipt' = receipt
             /\ receipt # NoReceipt => pending' = pending
  <2>1. pending = NoBatch => receipt = NoReceipt
    BY DEF HeldInv, ReceiptOfPinned, NoBatch
  <2> QED BY <1>3, <2>1 DEF TakeBatch
<1>4. ASSUME NEW t \in Flushers, Encode(t) \/ EncodeRaises(t)
      PROVE  landed' = landed /\ receipt' = receipt /\ pending'.spans = pending.spans
  BY <1>4 DEF Encode, EncodeRaises, StaysPinned, HeldInv, TypeOK
<1>5. ASSUME NEW t \in Flushers, Settle(t), ~SettleRetryable(t)
      PROVE  landed' = landed /\ receipt' = NoReceipt
  BY <1>5 DEF Settle, SettleRefused, SettleUnreadable, SettleTruncated, SettleDistrusted,
              SettleRequeue, SettleClear, ShedBatch, Unpin
<1>6. ASSUME NEW t \in Flushers, SettleRetryable(t)
      PROVE  /\ landed' = landed
             /\ \/ receipt' = NoReceipt
                \/ receipt' = receipt /\ pending'.spans = pending.spans
  <2>1. flight[t] = pending /\ pending \in [spans : Seq(Span), encoded : BOOLEAN, attempts : Nat]
    BY <1>6, Sending DEF SettleRetryable
  <2> QED BY <1>6, <2>1 DEF SettleRetryable, ShedBatch, Unpin, Repin
<1> QED BY <1>1, <1>2, <1>3, <1>4, <1>5, <1>6 DEF Next, Flush, Settle

LEMMA WordStep == ASSUME Honest, HeldInv, WordInv, [Next]_vars PROVE WordInv'
<1>1. landed \subseteq landed'
  BY ReceiptStands
<1>2. ASSUME NEW s \in Span
      PROVE  fate'[s] # "retry" /\ (Written(fate'[s]) => s \in landed')
  <2>1. CASE fate'[s] = fate[s]
    BY <1>1, <2>1 DEF WordInv
  <2>2. CASE fate'[s] # fate[s]
    <3>1. \/ fate'[s] \in {"held", "overflow", "undelivered", "refused", "cut", "blind"}
          \/ \E t \in Flushers, i \in DOMAIN pending.spans :
                /\ Delivered(t)
                /\ pending.spans[i] = s /\ fate'[s] = receipt.verdict[i]
                /\ i \notin Range(receipt.ack.retry)
      BY <2>2, FateStep, TruthConsistent
    <3>2. ASSUME NEW t \in Flushers, NEW i \in DOMAIN pending.spans, Delivered(t),
                 pending.spans[i] = s, fate'[s] = receipt.verdict[i],
                 i \notin Range(receipt.ack.retry)
          PROVE  fate'[s] # "retry" /\ (Written(fate'[s]) => s \in landed')
      <4>1. receipt.verdict[i] # "retry"
        BY <3>2, RetriesNamed
      <4>2. receipt # NoReceipt
        BY <3>2 DEF Delivered
      <4>3. Written(receipt.verdict[i]) => s \in landed
        BY <3>2, <4>2 DEF WordInv
      <4> QED BY <1>1, <3>2, <4>1, <4>3
    <3> QED BY <3>1, <3>2 DEF Written
  <2> QED BY <2>1, <2>2
<1>3. ASSUME receipt' # NoReceipt, NEW i \in DOMAIN pending'.spans, Written(receipt'.verdict[i])
      PROVE  pending'.spans[i] \in landed'
  <2>1. CASE receipt' = receipt /\ receipt # NoReceipt /\ pending'.spans = pending.spans
    BY <1>1, <1>3, <2>1 DEF WordInv
  <2>2. CASE GatewayDecides
    <3>1. /\ pending' = pending /\ pending.spans \in Seq(Span)
      BY <2>2 DEF GatewayDecides, codeVars, HeldInv, TypeOK
    <3>2. PICK v \in [1..Len(pending.spans) -> Verdicts] :
              /\ landed' = landed \cup
                    {pending.spans[j] : j \in {k \in DOMAIN v : Written(v[k])}}
              /\ receipt'.verdict = v
      BY <2>2 DEF GatewayDecides
    <3>3. i \in DOMAIN v /\ Written(v[i])
      BY <1>3, <3>1, <3>2
    <3> QED BY <3>1, <3>2, <3>3
  <2> QED BY <1>3, <2>1, <2>2, ReceiptStands
<1> QED BY <1>2, <1>3 DEF WordInv

\* The fates of a span that is gone for good and was not written.
Gone == {"undelivered", "refused", "overflow", "unplacedRetry", "unknownRefusal", "blind"}
            \cup Refusals

LEMMA GoneCounted ==
    ASSUME NEW g
    PROVE  /\ MetIn(g, Gone)
                = MetIn(g, {"undelivered"}) + MetIn(g, {"refused"}) + MetIn(g, {"overflow"})
                  + MetIn(g, {"unplacedRetry"}) + MetIn(g, {"unknownRefusal"})
                  + MetIn(g, {"blind"}) + MetIn(g, Refusals)
           /\ MetIn(g, {"unknownFlag", "unknownRefusal"})
                = MetIn(g, {"unknownFlag"}) + MetIn(g, {"unknownRefusal"})
           /\ \A K \in {{"undelivered"}, {"refused"}, {"overflow"}, {"unplacedRetry"},
                        {"unknownRefusal"}, {"unknownFlag"}, {"blind"}, Refusals} :
                  MetIn(g, K) \in Nat
<1> DEFINE m(K) == MetIn(g, K)
           K1 == {"undelivered"} \cup {"refused"}
           K2 == K1 \cup {"overflow"}
           K3 == K2 \cup {"unplacedRetry"}
           K4 == K3 \cup {"unknownRefusal"}
           K5 == K4 \cup {"blind"}
           K6 == K5 \cup Refusals
           F == {"unknownFlag"} \cup {"unknownRefusal"}
<1>1. Gone = K6 /\ {"unknownFlag", "unknownRefusal"} = F
  BY DEF Gone
<1>2. /\ {"undelivered"} \cap {"refused"} = {} /\ K1 \cap {"overflow"} = {}
      /\ K2 \cap {"unplacedRetry"} = {} /\ K3 \cap {"unknownRefusal"} = {}
      /\ K4 \cap {"blind"} = {} /\ K5 \cap Refusals = {}
      /\ {"unknownFlag"} \cap {"unknownRefusal"} = {}
  BY DEF Refusals
<1>3. /\ m(K1) = m({"undelivered"}) + m({"refused"})
      /\ m({"undelivered"}) \in Nat /\ m({"refused"}) \in Nat
  BY <1>2, MetJoin
<1>4. /\ m(F) = m({"unknownFlag"}) + m({"unknownRefusal"})
      /\ m({"unknownFlag"}) \in Nat /\ m({"unknownRefusal"}) \in Nat
  BY <1>2, MetJoin
<1> HIDE DEF K1, F
<1>5. m(K2) = m(K1) + m({"overflow"}) /\ m({"overflow"}) \in Nat
  BY <1>2, MetJoin
<1> HIDE DEF K2
<1>6. m(K3) = m(K2) + m({"unplacedRetry"}) /\ m({"unplacedRetry"}) \in Nat
  BY <1>2, MetJoin
<1> HIDE DEF K3
<1>7. m(K4) = m(K3) + m({"unknownRefusal"})
  BY <1>2, MetJoin
<1> HIDE DEF K4
<1>8. m(K5) = m(K4) + m({"blind"}) /\ m({"blind"}) \in Nat
  BY <1>2, MetJoin
<1> HIDE DEF K5
<1>9. m(K6) = m(K5) + m(Refusals) /\ m(Refusals) \in Nat
  BY <1>2, MetJoin
<1>10. m(K6) = m({"undelivered"}) + m({"refused"}) + m({"overflow"}) + m({"unplacedRetry"})
                + m({"unknownRefusal"}) + m({"blind"}) + m(Refusals)
  <2> HIDE DEF m, K6
  <2> QED BY <1>3, <1>4, <1>5, <1>6, <1>7, <1>8, <1>9
<1>11. \A K \in {{"undelivered"}, {"refused"}, {"overflow"}, {"unplacedRetry"},
                 {"unknownRefusal"}, {"unknownFlag"}, {"blind"}, Refusals} : m(K) \in Nat
  BY <1>3, <1>4, <1>5, <1>6, <1>8, <1>9
<1> QED BY <1>1, <1>4, <1>10, <1>11

LEMMA SilentNot ==
    ASSUME HeldInv, CountersTellTheTruth, WordInv PROVE NoSilentLoss
<1> DEFINE lost == {s \in 1..exported : s \notin InHand /\ s \notin landed}
           gone == {s \in Span : fate[s] \in Gone}
           m(K) == MetIn(fate, K)
<1>1. Truth(fate, shed) /\ shed \in [Buckets -> Nat]
  BY TruthIsTold DEF HeldInv, TypeOK
<1>2. \A s \in Span : fate[s] # "distrusted"
  <2> DEFINE D == {s \in Span : fate[s] \in {"distrusted"}}
  <2>1. Cardinality(D) = 0
    BY <1>1 DEF Truth, MetIn
  <2>2. IsFiniteSet(D)
    <3>1. D \in SUBSET Span
      OBVIOUS
    <3> HIDE DEF D
    <3> QED BY <3>1, SpansFinite
  <2>3. D = {}
    BY <2>1, <2>2, FS_EmptySet
  <2> QED BY <2>3
<1>3. lost \subseteq gone
  <2> SUFFICES ASSUME NEW s \in 1..exported, s \notin InHand, s \notin landed
               PROVE  s \in Span /\ fate[s] \in Gone
    OBVIOUS
  <2>1. s \in Span /\ fate[s] \in Fate /\ fate[s] # "none"
    <3>1. exported \in 0..NumSpans /\ fate \in [Span -> Fate] /\ NumSpans \in Nat
      BY ConstantsAssumption DEF HeldInv, TypeOK
    <3>2. s \in Span /\ ~(s > exported)
      BY <3>1 DEF Span
    <3> QED BY <3>1, <3>2 DEF HeldInv, NumberedInOrder
  <2>2. fate[s] # "held"
    BY <2>1 DEF HeldInv, HeldExactlyOnce
  <2>3. fate[s] # "retry" /\ fate[s] \notin {"accepted", "unknownFlag"} /\ fate[s] # "distrusted"
    BY <1>2, <2>1 DEF WordInv, Written
  <2> QED BY <2>1, <2>2, <2>3 DEF Fate, Verdict, Gone, Refusals
<1>4. Cardinality(lost) <= m(Gone) /\ Cardinality(lost) \in Nat
  <2>1. gone \in SUBSET Span /\ lost \in SUBSET Span
    BY <1>3
  <2>2. m(Gone) = Cardinality(gone)
    BY DEF MetIn
  <2> HIDE DEF lost, gone
  <2>3. IsFiniteSet(gone) /\ Cardinality(gone) \in Nat /\ Cardinality(lost) \in Nat
    BY <2>1, SpansFinite
  <2> QED BY <1>3, <2>2, <2>3, FS_Subset
<1>5. /\ m(Gone) = m({"undelivered"}) + m({"refused"}) + m({"overflow"}) + m({"unplacedRetry"})
                   + m({"unknownRefusal"}) + m({"blind"}) + m(Refusals)
      /\ m({"unknownFlag", "unknownRefusal"}) = m({"unknownFlag"}) + m({"unknownRefusal"})
      /\ m({"undelivered"}) \in Nat /\ m({"refused"}) \in Nat /\ m({"overflow"}) \in Nat
      /\ m({"unplacedRetry"}) \in Nat /\ m({"unknownRefusal"}) \in Nat
      /\ m({"unknownFlag"}) \in Nat /\ m({"blind"}) \in Nat /\ m(Refusals) \in Nat
  BY GoneCounted
<1>6. Met({"blind"}) = m({"blind"})
  BY DEF Met, MetIn
<1>7. shed["rejectedByGateway"] \in Nat
  BY <1>1 DEF Buckets
<1>8. m(Gone) <= shed["undelivered"] + shed["rejected"] + shed["rejectedByGateway"]
                  + shed["unmappedRetryable"] + shed["bufferOverflow"]
                  + shed["unknownCode"] + m({"blind"})
  <2>1. /\ shed["undelivered"] = m({"undelivered"}) /\ shed["rejected"] = m({"refused"})
        /\ shed["bufferOverflow"] = m({"overflow"})
        /\ shed["unmappedRetryable"] = m({"unplacedRetry"})
        /\ shed["unknownCode"] = m({"unknownFlag", "unknownRefusal"})
        /\ shed["rejectedByGateway"] + m({"unknownFlag"}) >= m(Refusals)
    BY <1>1 DEF Truth
  <2> HIDE DEF m
  <2> QED BY <1>5, <1>7, <2>1
<1> HIDE DEF lost, m
<1>9. Cardinality(lost) <= shed["undelivered"] + shed["rejected"] + shed["rejectedByGateway"]
                            + shed["unmappedRetryable"] + shed["bufferOverflow"]
                            + shed["unknownCode"] + Met({"blind"})
  <2> DEFINE total == shed["undelivered"] + shed["rejected"] + shed["rejectedByGateway"]
                      + shed["unmappedRetryable"] + shed["bufferOverflow"]
                      + shed["unknownCode"] + m({"blind"})
  <2>1. total \in Nat /\ m(Gone) \in Nat
    BY <1>1, <1>5 DEF Buckets
  <2> HIDE DEF total
  <2>2. Cardinality(lost) <= total
    BY <1>4, <1>8, <2>1 DEF total
  <2> QED BY <1>6, <2>2 DEF total
<1> QED BY <1>9 DEF NoSilentLoss, lost

\* CTO-391: with a gateway that reports what it did, a span that has left the
\* transport and was not written is on some counter, unless its batch was cleared on
\* the status of an answer nobody could read.
THEOREM NoSilentLossHolds == ASSUME Honest PROVE Spec => []NoSilentLoss
<1>1. Init => WordInv
  BY WordInit
<1>2. HeldInv /\ WordInv /\ [Next]_vars => WordInv'
  BY WordStep
<1>3. HeldInv /\ CountersTellTheTruth /\ WordInv => NoSilentLoss
  BY SilentNot
<1> QED BY <1>1, <1>2, <1>3, HeldInvHolds, CountersTellTheTruthHolds, PTL DEF Spec
=============================================================================
