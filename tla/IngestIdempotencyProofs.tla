----------------------- MODULE IngestIdempotencyProofs -----------------------
(***************************************************************************)
(* Proofs about IngestIdempotency, for any number of processes, deliveries *)
(* and faults.                                                             *)
(*                                                                         *)
(* The argument: a process never runs two handlers of the batch, because   *)
(* the reservation of the first one answers the second; so the token a     *)
(* process holds is its handler's own, and its release can only delete its *)
(* own claim.  Hence the row keeps the newest token from the moment it is  *)
(* claimed until that claim is outlived or its holder releases it, and     *)
(* nobody else can claim the batch in between.                             *)
(***************************************************************************)
EXTENDS IngestIdempotency, TLAPS

\* What a process knows of the batch is what its one handler put there.
OwnClaim ==
    \A r \in Processing :
      /\ cache[req[r].at] = [kind |-> "provisional", token |-> req[r].token]
      /\ claims[req[r].at] = req[r].token
      /\ \A s \in Processing : req[s].at = req[r].at => s = r

\* Tokens are not reused, and the row carries the newest one.
FreshTokens ==
    /\ \A r, s \in Processing : req[r].token = req[s].token => r = s
    /\ \A r \in Processing : req[r].token \notin aged
    /\ row.state # "none" => row.token = issued

\* The row still belongs to the claim t.
Kept(t) == row.state # "none" /\ row.token = t

\* A claim in use, and a write nobody disowned, keep the row until outlived.
RowKept ==
    /\ \A r \in Processing : req[r].token \notin outlived => Kept(req[r].token)
    /\ \A t \in landed \ (outlived \cup disowned) : Kept(t)

\* How far the handler of a claim has come.
Progress ==
    /\ metered \cap disowned = {}
    /\ \A r \in Processing :
         /\ req[r].pc \in {"awaiting", "writing"} => req[r].token \notin landed
         /\ req[r].pc = "releasing" =>
              req[r].token \notin landed \ disowned
         /\ req[r].pc = "recording" /\ req[r].outcome = "accepted" =>
              req[r].token \in landed

ClaimInv ==
    /\ TypeOK /\ OwnClaim /\ FreshTokens /\ RowKept /\ Progress
    /\ ReceiptMeansWritten

\* An outcome has been given: to the client, to a cache or to the row.
Settled(o) ==
    o \in told \/ row.outcome = o \/ \E g \in Gateways : cache[g].kind = o

\* While nothing is outlived, an outcome is unique and ends all processing.
AgreeInv ==
    outlived = {} =>
      \A o \in Outcome : Settled(o) =>
        /\ row.state # "none"
        /\ Processing = {}
        /\ \A p \in Outcome : Settled(p) => o = p

-----------------------------------------------------------------------------
(* Types.                                                                  *)

\* What TypeOK says of a handler, spelled out.
LEMMA HandlerFacts ==
  ASSUME TypeOK, NEW r \in Requests
  PROVE  /\ req[r].token \in 0..issued
         /\ req[r].pc \in {"idle", "reading", "awaiting", "writing",
                           "recording", "releasing"}
         /\ req[r].pc = "idle" => req[r].token = 0 /\ req[r].at = Nowhere
         /\ req[r].pc = "reading" => req[r].token = 0
         /\ req[r].pc \notin {"idle", "reading"} =>
              /\ req[r].token \in 1..issued
              /\ req[r].at \in Gateways
         /\ req[r].pc = "recording" => req[r].outcome \in Outcome
         /\ req[r].pc # "recording" => req[r].outcome = "none"
         /\ req[r] = [pc |-> req[r].pc, at |-> req[r].at,
                      token |-> req[r].token, outcome |-> req[r].outcome]
  BY DEF TypeOK, Idle

\* What TypeOK says of the row and of the caches.
LEMMA RowFacts ==
  ASSUME TypeOK
  PROVE  /\ row.state \in {"none", "in_flight", "complete"}
         /\ row.state = "none" => row = NoRow
         /\ row.state # "none" => row.token \in 1..issued
         /\ row.state = "complete" => row.outcome \in Outcome
         /\ row.state # "complete" => row.outcome = "none"
<1>1. \/ row = NoRow
      \/ row \in [state : {"in_flight"}, outcome : {"none"}, token : 1..issued]
      \/ row \in [state : {"complete"}, outcome : Outcome, token : 1..issued]
  BY DEF TypeOK
<1>2. CASE row = NoRow
  BY <1>2 DEF NoRow
<1>3. CASE row \in [state : {"in_flight"}, outcome : {"none"}, token : 1..issued]
  BY <1>3
<1>4. CASE row \in [state : {"complete"}, outcome : Outcome, token : 1..issued]
  BY <1>4 DEF Outcome
<1> QED
  BY <1>1, <1>2, <1>3, <1>4

\* The initial state has the right types.
LEMMA TypeInit == Init => TypeOK
  BY ConstantsAssumption DEF Init, TypeOK, NoRow, NoEntry, Idle, TokenOrNone

\* Every step keeps the types.
LEMMA TypeStep == TypeOK /\ [Next]_vars => TypeOK'
<1> SUFFICES ASSUME TypeOK, [Next]_vars PROVE TypeOK'
  OBVIOUS
<1> USE ConstantsAssumption
<1>1. CASE UNCHANGED vars
  BY <1>1 DEF TypeOK, TokenOrNone, vars
<1>2. ASSUME NEW r \in Requests, NEW g \in Gateways, Replay(r, g) PROVE TypeOK'
  BY <1>2, HandlerFacts DEF Replay, Arrives, Answer, Fails, TypeOK, TokenOrNone, Idle, NoEntry
<1>3. ASSUME NEW r \in Requests, NEW g \in Gateways, ClaimWon(r, g) PROVE TypeOK'
  BY <1>3, HandlerFacts DEF ClaimWon, ClaimedRow, TypeOK, TokenOrNone, Idle
<1>4. ASSUME NEW r \in Requests, NEW g \in Gateways, ClaimLost(r, g) PROVE TypeOK'
  BY <1>4 DEF ClaimLost, TypeOK, TokenOrNone, Idle
<1>5. ASSUME NEW r \in Requests, NEW g \in Gateways, ClaimFails(r, g) PROVE TypeOK'
  BY <1>5 DEF ClaimFails, Fails, ClaimedRow, TypeOK, TokenOrNone, Idle
<1>6. ASSUME NEW r \in Requests, ReadRow(r) PROVE TypeOK'
  BY <1>6 DEF ReadRow, Answer, AnswerRetry, Fails, TypeOK, TokenOrNone, Idle, NoRow
<1>7. ASSUME NEW r \in Requests, Resume(r) PROVE TypeOK'
  BY <1>7, HandlerFacts DEF Resume, TypeOK, TokenOrNone
<1>8. ASSUME NEW r \in Requests, RejectAll(r) PROVE TypeOK'
  BY <1>8, HandlerFacts DEF RejectAll, Decide, TypeOK, TokenOrNone, Outcome
<1>9. ASSUME NEW r \in Requests, Write(r) PROVE TypeOK'
  BY <1>9, HandlerFacts DEF Write, Decide, TypeOK, TokenOrNone, Outcome
<1>10. ASSUME NEW r \in Requests, WriteFails(r) PROVE TypeOK'
  BY <1>10, HandlerFacts DEF WriteFails, GiveUp, Fails, TypeOK, TokenOrNone
<1>11. ASSUME NEW r \in Requests, Record(r) PROVE TypeOK'
  <2>1. row' \in {NoRow} \cup
               [state : {"in_flight"}, outcome : {"none"}, token : 1..issued] \cup
               [state : {"complete"}, outcome : Outcome, token : 1..issued]
    <3>1. req[r].outcome \in Outcome
      BY <1>11, HandlerFacts DEF Record
    <3>2. CASE UNCHANGED row
      BY <3>2 DEF TypeOK
    <3>3. CASE Complete(req[r].outcome)
      <4>1. CASE row.state = "none"
        BY <3>3, <4>1, RowFacts DEF Complete
      <4>2. CASE row.state # "none"
        BY <3>1, <3>3, <4>2, RowFacts DEF Complete
      <4> QED
        BY <4>1, <4>2
    <3> QED
      BY <1>11, <3>2, <3>3 DEF Record
  <2> QED
    BY <1>11, <2>1, HandlerFacts DEF Record, Answer, Fails, TypeOK, TokenOrNone, Idle
<1>12. ASSUME NEW r \in Requests, Release(r) PROVE TypeOK'
  BY <1>12, HandlerFacts DEF Release, Mine, AnswerRetry, Fails, TypeOK, TokenOrNone
<1>13. ASSUME NEW g \in Gateways, Crash(g) PROVE TypeOK'
  BY <1>13 DEF Crash, Fails, TypeOK, TokenOrNone
<1>14. ASSUME NEW g \in Gateways, CacheExpires(g) PROVE TypeOK'
  BY <1>14 DEF CacheExpires, TypeOK, TokenOrNone
<1>15. CASE LeaseLapses
  <2>1. row.token \in 1..issued
    BY <1>15, RowFacts DEF LeaseLapses
  <2>2. lapses' \in 0..MaxLapses
    BY <1>15 DEF LeaseLapses, TypeOK
  <2> QED
    BY <1>15, <2>1, <2>2 DEF LeaseLapses, TypeOK, TokenOrNone
<1>16. CASE WindowEnds
  <2>1. row.token \in 1..issued
    BY <1>16, RowFacts DEF WindowEnds
  <2>2. lapses' \in 0..MaxLapses
    BY <1>16 DEF WindowEnds, TypeOK
  <2> QED
    BY <1>16, <2>1, <2>2 DEF WindowEnds, TypeOK, TokenOrNone
<1> QED
  BY <1>1, <1>2, <1>3, <1>4, <1>5, <1>6, <1>7, <1>8, <1>9, <1>10, <1>11,
     <1>12, <1>13, <1>14, <1>15, <1>16 DEF Next, Arrive, Handle

-----------------------------------------------------------------------------
(* The claim and the row.                                                  *)

\* A handler that ends leaves the others as they were.
LEMMA HandlerEnds ==
  ASSUME TypeOK, NEW r \in Requests, req' = [req EXCEPT ![r] = Idle]
  PROVE  /\ Processing' = Processing \ {r}
         /\ \A s \in Requests \ {r} : req'[s] = req[s]
  BY DEF TypeOK, Processing, Idle

\* A handler that only moves on keeps its place and its token.
LEMMA HandlerMoves ==
  ASSUME TypeOK, NEW r \in Requests, NEW pc, NEW outcome,
         \/ req' = [req EXCEPT ![r].pc = pc]
         \/ req' = [req EXCEPT ![r].pc = pc, ![r].outcome = outcome]
  PROVE  /\ Processing' = Processing
         /\ \A s \in Requests \ {r} : req'[s] = req[s]
         /\ req'[r].pc = pc /\ req'[r].at = req[r].at
         /\ req'[r].token = req[r].token
<1>1. req \in [Requests -> [pc : {"idle", "reading", "awaiting", "writing",
                                 "recording", "releasing"},
                           at : Gateways \cup {Nowhere}, token : Nat,
                           outcome : Outcome \cup {"none"}]]
  BY DEF TypeOK, Idle
<1> QED
  BY <1>1 DEF Processing

\* Which processes and tokens the handlers in progress have.
LEMMA ProcessingFacts ==
  ASSUME TypeOK, NEW r \in Processing
  PROVE  /\ r \in Requests
         /\ req[r].at \in Gateways
         /\ req[r].token \in 1..issued
         /\ req[r].pc \in {"awaiting", "writing", "recording", "releasing"}
  BY HandlerFacts DEF Processing

\* A handler past the claim is in progress.
LEMMA InProgress ==
  ASSUME TypeOK, NEW r \in Requests, req[r].pc \notin {"idle", "reading"}
  PROVE  r \in Processing
<1>1. req[r].token \in 1..issued
  BY HandlerFacts
<1> QED
  BY <1>1 DEF Processing, TypeOK

\* Rejected or not, nobody can claim a batch whose row is kept.
LEMMA KeptNotClaimable ==
  ASSUME TypeOK, NEW t, Kept(t), t \notin outlived
  PROVE  ~Claimable
  BY DEF Kept, Claimable, TypeOK

ClaimRest == OwnClaim /\ FreshTokens /\ RowKept /\ Progress /\ ReceiptMeansWritten

\* Every step keeps the claim invariant.
LEMMA ClaimStep == ClaimInv /\ TypeOK' /\ [Next]_vars => ClaimRest'
<1> SUFFICES ASSUME ClaimInv, TypeOK', [Next]_vars PROVE ClaimRest'
  OBVIOUS
<1>a. TypeOK /\ OwnClaim /\ FreshTokens /\ RowKept /\ Progress /\ ReceiptMeansWritten
  BY DEF ClaimInv
<1> USE <1>a
<1>1. CASE UNCHANGED vars
  BY <1>1 DEF vars, ClaimRest, OwnClaim, FreshTokens, RowKept, Kept, Progress,
              ReceiptMeansWritten, Processing
<1>2. ASSUME NEW r \in Requests, NEW g \in Gateways, Replay(r, g) PROVE ClaimRest'
  <2>1. Processing' = Processing \ {r} /\ \A s \in Requests \ {r} : req'[s] = req[s]
    BY <1>2, HandlerEnds DEF Replay, Answer
  <2>2. OwnClaim'
    BY <1>2, <2>1, ProcessingFacts DEF OwnClaim, Replay, Answer, TypeOK, NoEntry
  <2>3. FreshTokens'
    BY <1>2, <2>1, ProcessingFacts DEF FreshTokens, Replay, Answer, TypeOK, NoEntry
  <2>4. RowKept'
    BY <1>2, <2>1, ProcessingFacts DEF RowKept, Kept, Replay, Answer, TypeOK, NoEntry
  <2>5. Progress'
    BY <1>2, <2>1, ProcessingFacts DEF Progress, Replay, Answer, TypeOK, NoEntry
  <2>6. ReceiptMeansWritten'
    BY <1>2, <2>1, ProcessingFacts DEF ReceiptMeansWritten, Progress, Replay, Answer, TypeOK, NoEntry
  <2> QED
    BY <2>2, <2>3, <2>4, <2>5, <2>6 DEF ClaimRest
<1>3. ASSUME NEW r \in Requests, NEW g \in Gateways, ClaimWon(r, g) PROVE ClaimRest'
  <2>1. /\ r \notin Processing
        /\ Processing' = Processing \cup {r}
        /\ \A s \in Processing : req'[s] = req[s]
    BY <1>3, HandlerFacts DEF ClaimWon, Arrives, Processing, TypeOK
  <2>2. /\ req'[r].at = g /\ req'[r].token = issued + 1
        /\ req'[r].pc \in {"awaiting", "writing"}
    BY <1>3 DEF ClaimWon, TypeOK
  <2>3. \A s \in Processing : req[s].at # g
    <3>1. cache[g].kind = "none"
      BY <1>3 DEF ClaimWon
    <3> SUFFICES ASSUME NEW s \in Processing, req[s].at = g PROVE FALSE
      OBVIOUS
    <3>2. cache[g] = [kind |-> "provisional", token |-> req[s].token]
      BY DEF OwnClaim
    <3> QED
      BY <3>1, <3>2
  <2>4. issued + 1 \notin landed /\ issued + 1 \notin outlived
    BY DEF TypeOK
  <2>5. ~ (\E t : Kept(t) /\ t \notin outlived)
    BY <1>3, KeptNotClaimable DEF ClaimWon
  <2>6. /\ cache'[g] = [kind |-> "provisional", token |-> issued + 1]
        /\ claims'[g] = issued + 1
        /\ \A h \in Gateways \ {g} : cache'[h] = cache[h] /\ claims'[h] = claims[h]
    BY <1>3 DEF ClaimWon, TypeOK
  <2>7. OwnClaim'
    BY <2>1, <2>2, <2>3, <2>6, ProcessingFacts DEF OwnClaim
  <2>8. FreshTokens'
    BY <1>3, <2>1, <2>2, <2>4, ProcessingFacts DEF ClaimWon, ClaimedRow, FreshTokens, TypeOK
  <2>9. RowKept'
    BY <1>3, <2>1, <2>2, <2>5, ProcessingFacts DEF ClaimWon, ClaimedRow, RowKept, Kept
  <2>10. Progress'
    BY <1>3, <2>1, <2>2, <2>4, ProcessingFacts DEF ClaimWon, Progress
  <2>11. ReceiptMeansWritten'
    BY <1>3, <2>6 DEF ClaimWon, ClaimedRow, ReceiptMeansWritten
  <2> QED
    BY <2>7, <2>8, <2>9, <2>10, <2>11 DEF ClaimRest
<1>4. ASSUME NEW r \in Requests, NEW g \in Gateways, ClaimLost(r, g) PROVE ClaimRest'
  <2>1. Processing' = Processing /\ \A s \in Processing : req'[s] = req[s]
    BY <1>4 DEF ClaimLost, Arrives, Idle, Processing, TypeOK
  <2>2. UNCHANGED <<row, cache, claims, issued, outlived, aged, landed,
                    disowned, metered, told>>
    BY <1>4 DEF ClaimLost
  <2>3. OwnClaim'
    BY <2>1, <2>2 DEF OwnClaim
  <2>4. FreshTokens'
    BY <2>1, <2>2 DEF FreshTokens
  <2>5. RowKept'
    BY <2>1, <2>2 DEF RowKept, Kept
  <2>6. Progress'
    BY <2>1, <2>2 DEF Progress
  <2>7. ReceiptMeansWritten'
    BY <2>2 DEF ReceiptMeansWritten
  <2> QED
    BY <2>3, <2>4, <2>5, <2>6, <2>7 DEF ClaimRest
<1>5. ASSUME NEW r \in Requests, NEW g \in Gateways, ClaimFails(r, g) PROVE ClaimRest'
  <2>1. Processing' = Processing /\ \A s \in Processing : req'[s] = req[s]
    BY <1>5 DEF ClaimFails, Processing, TypeOK
  <2>2. row' # row => ~ (\E t : Kept(t) /\ t \notin outlived)
    BY <1>5, <2>1, KeptNotClaimable DEF ClaimFails
  <2>3. OwnClaim'
    BY <1>5, <2>1, <2>2, ProcessingFacts DEF OwnClaim, ClaimFails, ClaimedRow, TypeOK, Kept
  <2>4. FreshTokens'
    BY <1>5, <2>1, <2>2, ProcessingFacts DEF FreshTokens, ClaimFails, ClaimedRow, TypeOK, Kept
  <2>5. RowKept'
    BY <1>5, <2>1, <2>2, ProcessingFacts DEF RowKept, Kept, ClaimFails, ClaimedRow, TypeOK, Kept
  <2>6. Progress'
    BY <1>5, <2>1, <2>2, ProcessingFacts DEF Progress, ClaimFails, ClaimedRow, TypeOK, Kept
  <2>7. ReceiptMeansWritten'
    BY <1>5, <2>1, <2>2, ProcessingFacts DEF ReceiptMeansWritten, Progress, ClaimFails, ClaimedRow, TypeOK, Kept
  <2> QED
    BY <2>3, <2>4, <2>5, <2>6, <2>7 DEF ClaimRest
<1>6. ASSUME NEW r \in Requests, ReadRow(r) PROVE ClaimRest'
  <2>1. Processing' = Processing \ {r} /\ \A s \in Requests \ {r} : req'[s] = req[s]
    BY <1>6, HandlerEnds DEF ReadRow, Answer, AnswerRetry
  <2>2. OwnClaim'
    BY <1>6, <2>1, ProcessingFacts DEF OwnClaim, ReadRow, Answer, AnswerRetry, TypeOK
  <2>3. FreshTokens'
    BY <1>6, <2>1, ProcessingFacts DEF FreshTokens, ReadRow, Answer, AnswerRetry, TypeOK
  <2>4. RowKept'
    BY <1>6, <2>1, ProcessingFacts DEF RowKept, Kept, ReadRow, Answer, AnswerRetry, TypeOK
  <2>5. Progress'
    BY <1>6, <2>1, ProcessingFacts DEF Progress, ReadRow, Answer, AnswerRetry, TypeOK
  <2>6. ReceiptMeansWritten'
    BY <1>6, <2>1, ProcessingFacts DEF ReceiptMeansWritten, Progress, ReadRow, Answer, AnswerRetry, TypeOK
  <2> QED
    BY <2>2, <2>3, <2>4, <2>5, <2>6 DEF ClaimRest
<1>7. ASSUME NEW r \in Requests, Resume(r) PROVE ClaimRest'
  <2>1. Processing' = Processing /\ \A s \in Requests \ {r} : req'[s] = req[s]
    BY <1>7, HandlerMoves DEF Resume
  <2>2. req'[r].at = req[r].at /\ req'[r].token = req[r].token /\ req'[r].pc = "writing"
    BY <1>7, <2>1, HandlerMoves DEF Resume
  <2>3. r \in Processing
    BY <1>7, InProgress DEF Resume
  <2>4. OwnClaim'
    BY <1>7, <2>1, <2>2, <2>3, ProcessingFacts DEF OwnClaim, Resume, TypeOK
  <2>5. FreshTokens'
    BY <1>7, <2>1, <2>2, <2>3, ProcessingFacts DEF FreshTokens, Resume, TypeOK
  <2>6. RowKept'
    BY <1>7, <2>1, <2>2, <2>3, ProcessingFacts DEF RowKept, Kept, Resume, TypeOK
  <2>7. Progress'
    BY <1>7, <2>1, <2>2, <2>3, ProcessingFacts DEF Progress, Resume, TypeOK
  <2>8. ReceiptMeansWritten'
    BY <1>7, <2>1, <2>2, <2>3, ProcessingFacts DEF ReceiptMeansWritten, Progress, Resume, TypeOK
  <2> QED
    BY <2>4, <2>5, <2>6, <2>7, <2>8 DEF ClaimRest
<1>8. ASSUME NEW r \in Requests, RejectAll(r) PROVE ClaimRest'
  <2>1. Processing' = Processing /\ \A s \in Requests \ {r} : req'[s] = req[s]
    BY <1>8, HandlerMoves DEF RejectAll, Decide
  <2>2. req'[r].at = req[r].at /\ req'[r].token = req[r].token /\ req'[r].pc = "recording"
    BY <1>8, <2>1, HandlerMoves DEF RejectAll, Decide
  <2>3. r \in Processing
    BY <1>8, InProgress DEF RejectAll, Decide
  <2>4. req'[r].outcome = "rejected"
    BY <1>8, <2>1, <2>2, <2>3 DEF RejectAll, Decide, TypeOK
  <2>5. OwnClaim'
    BY <1>8, <2>1, <2>2, <2>3, <2>4, ProcessingFacts DEF OwnClaim, RejectAll, Decide, TypeOK
  <2>6. FreshTokens'
    BY <1>8, <2>1, <2>2, <2>3, <2>4, ProcessingFacts DEF FreshTokens, RejectAll, Decide, TypeOK
  <2>7. RowKept'
    BY <1>8, <2>1, <2>2, <2>3, <2>4, ProcessingFacts DEF RowKept, Kept, RejectAll, Decide, TypeOK
  <2>8. Progress'
    BY <1>8, <2>1, <2>2, <2>3, <2>4, ProcessingFacts DEF Progress, RejectAll, Decide, TypeOK
  <2>9. ReceiptMeansWritten'
    BY <1>8, <2>1, <2>2, <2>3, <2>4, ProcessingFacts DEF ReceiptMeansWritten, Progress, RejectAll, Decide, TypeOK
  <2> QED
    BY <2>5, <2>6, <2>7, <2>8, <2>9 DEF ClaimRest
<1>9. ASSUME NEW r \in Requests, Write(r) PROVE ClaimRest'
  <2>1. Processing' = Processing /\ \A s \in Requests \ {r} : req'[s] = req[s]
    BY <1>9, HandlerMoves DEF Write, Decide
  <2>2. req'[r].at = req[r].at /\ req'[r].token = req[r].token /\ req'[r].pc = "recording"
    BY <1>9, <2>1, HandlerMoves DEF Write, Decide
  <2>3. r \in Processing
    BY <1>9, InProgress DEF Write, Decide
  <2>4. req'[r].outcome = "accepted"
    BY <1>9, <2>1, <2>2, <2>3 DEF Write, Decide, TypeOK
  <2>5. OwnClaim'
    BY <1>9, <2>1, <2>2, <2>3, <2>4, ProcessingFacts DEF OwnClaim, Write, Decide, TypeOK
  <2>6. FreshTokens'
    BY <1>9, <2>1, <2>2, <2>3, <2>4, ProcessingFacts DEF FreshTokens, Write, Decide, TypeOK
  <2>7. RowKept'
    BY <1>9, <2>1, <2>2, <2>3, <2>4, ProcessingFacts DEF RowKept, Kept, Write, Decide, TypeOK
  <2>8. Progress'
    <3>1. landed' = landed \cup {req[r].token} /\ metered' = metered \cup {req[r].token}
      BY <1>9 DEF Write
    <3>2. req[r].token \notin landed /\ UNCHANGED disowned
      BY <1>9, <2>3 DEF Write, Progress
    <3>3. (metered \cap disowned)' = {}
      BY <3>1, <3>2 DEF Progress, TypeOK
    <3>4. \A s \in Processing \ {r} : req[s].token # req[r].token
      BY <2>3 DEF FreshTokens
    <3> QED
      BY <2>1, <2>2, <2>3, <2>4, <3>1, <3>2, <3>3, <3>4, ProcessingFacts DEF Progress
  <2>9. ReceiptMeansWritten'
    BY <1>9, <2>1, <2>2, <2>3, <2>4, ProcessingFacts DEF ReceiptMeansWritten, Progress, Write, Decide, TypeOK
  <2> QED
    BY <2>5, <2>6, <2>7, <2>8, <2>9 DEF ClaimRest
<1>10. ASSUME NEW r \in Requests, WriteFails(r) PROVE ClaimRest'
  <2>1. Processing' = Processing /\ \A s \in Requests \ {r} : req'[s] = req[s]
    BY <1>10, HandlerMoves DEF WriteFails, GiveUp
  <2>2. req'[r].at = req[r].at /\ req'[r].token = req[r].token /\ req'[r].pc = "releasing"
    BY <1>10, <2>1, HandlerMoves DEF WriteFails, GiveUp
  <2>3. r \in Processing
    BY <1>10, InProgress DEF WriteFails, GiveUp
  <2>4. OwnClaim'
    BY <1>10, <2>1, <2>2, <2>3, ProcessingFacts DEF OwnClaim, WriteFails, GiveUp, TypeOK
  <2>5. FreshTokens'
    BY <1>10, <2>1, <2>2, <2>3, ProcessingFacts DEF FreshTokens, WriteFails, GiveUp, TypeOK
  <2>6. RowKept'
    BY <1>10, <2>1, <2>2, <2>3, ProcessingFacts DEF RowKept, Kept, WriteFails, GiveUp, TypeOK
  <2>7. Progress'
    <3>1. PICK spans \in SUBSET {req[r].token} :
            landed' = landed \cup spans /\ disowned' = disowned \cup spans
      BY <1>10 DEF WriteFails
    <3>2. req[r].token \notin landed /\ UNCHANGED metered
      BY <1>10, <2>3 DEF WriteFails, Progress
    <3>3. (metered \cap disowned)' = {}
      BY <3>1, <3>2 DEF Progress, TypeOK
    <3>4. \A s \in Processing \ {r} : req[s].token # req[r].token
      BY <2>3 DEF FreshTokens
    <3> QED
      BY <2>1, <2>2, <2>3, <3>1, <3>2, <3>3, <3>4, ProcessingFacts DEF Progress
  <2>8. ReceiptMeansWritten'
    BY <1>10, <2>1, <2>2, <2>3, ProcessingFacts DEF ReceiptMeansWritten, Progress, WriteFails, GiveUp, TypeOK
  <2> QED
    BY <2>4, <2>5, <2>6, <2>7, <2>8 DEF ClaimRest
<1>11. ASSUME NEW r \in Requests, Record(r) PROVE ClaimRest'
  <2>1. Processing' = Processing \ {r} /\ \A s \in Requests \ {r} : req'[s] = req[s]
    BY <1>11, HandlerEnds DEF Record, Answer
  <2>2. r \in Processing
    BY <1>11, InProgress DEF Record
  <2>3. /\ row'.token = row.token
        /\ (row'.state = "none" <=> row.state = "none")
        /\ row'.outcome \in {row.outcome, req[r].outcome}
    BY <1>11, <2>1, <2>2 DEF Record, Complete
  <2>4. \A g \in Gateways : g # req[r].at => cache'[g] = cache[g] /\ claims'[g] = claims[g]
    BY <1>11, <2>1, <2>2, <2>3 DEF Record, TypeOK
  <2>5. cache'[req[r].at].kind = req[r].outcome
    BY <1>11, <2>1, <2>2, <2>3, <2>4, ProcessingFacts DEF Record, TypeOK
  <2>6. OwnClaim'
    BY <1>11, <2>1, <2>2, <2>3, <2>4, <2>5, ProcessingFacts DEF OwnClaim, Record, Answer, TypeOK, OwnClaim
  <2>7. FreshTokens'
    BY <1>11, <2>1, <2>2, <2>3, <2>4, <2>5, ProcessingFacts DEF FreshTokens, Record, Answer, TypeOK, OwnClaim
  <2>8. RowKept'
    BY <1>11, <2>1, <2>2, <2>3, <2>4, <2>5, ProcessingFacts DEF RowKept, Kept, Record, Answer, TypeOK, OwnClaim
  <2>9. Progress'
    BY <1>11, <2>1, <2>2, <2>3, <2>4, <2>5, ProcessingFacts DEF Progress, Record, Answer, TypeOK, OwnClaim
  <2>10. ReceiptMeansWritten'
    BY <1>11, <2>1, <2>2, <2>3, <2>4, <2>5, ProcessingFacts DEF ReceiptMeansWritten, Progress, Record, Answer, TypeOK, OwnClaim
  <2> QED
    BY <2>6, <2>7, <2>8, <2>9, <2>10 DEF ClaimRest
<1>12. ASSUME NEW r \in Requests, Release(r) PROVE ClaimRest'
  <2>1. Processing' = Processing \ {r} /\ \A s \in Requests \ {r} : req'[s] = req[s]
    BY <1>12, HandlerEnds DEF Release, AnswerRetry
  <2>2. r \in Processing
    BY <1>12, InProgress DEF Release
  <2>3. claims[req[r].at] = req[r].token
    BY <1>12, <2>1, <2>2 DEF OwnClaim
  <2>4. row' = row \/ (row.token = req[r].token /\ row' = NoRow)
    BY <1>12, <2>1, <2>2, <2>3 DEF Release, Mine
  <2>5. \A g \in Gateways : g # req[r].at => cache'[g] = cache[g] /\ claims'[g] = claims[g]
    BY <1>12, <2>1, <2>2, <2>3, <2>4 DEF Release, TypeOK
  <2>6. \A g \in Gateways : cache'[g] \in {cache[g], NoEntry}
    BY <1>12, <2>1, <2>2, <2>3, <2>4, <2>5 DEF Release, TypeOK
  <2>7. OwnClaim'
    BY <1>12, <2>1, <2>2, <2>3, <2>4, <2>5, <2>6, ProcessingFacts DEF OwnClaim, Release, AnswerRetry, TypeOK, OwnClaim, NoRow, NoEntry
  <2>8. FreshTokens'
    BY <1>12, <2>1, <2>2, <2>3, <2>4, <2>5, <2>6, ProcessingFacts DEF FreshTokens, Release, AnswerRetry, TypeOK, OwnClaim, NoRow, NoEntry
  <2>9. RowKept'
    <3>1. UNCHANGED <<outlived, landed, disowned>>
      BY <1>12 DEF Release
    <3>2. \A s \in Processing \ {r} : req[s].token # req[r].token
      BY <2>2 DEF FreshTokens
    <3>3. req[r].token \notin landed \ disowned
      BY <1>12, <2>2 DEF Release, Progress
    <3>4. \A s \in Processing' : s \in Processing \ {r} /\ req'[s] = req[s]
      BY <2>1, ProcessingFacts
    <3>5. CASE row' = row
      BY <3>1, <3>4, <3>5 DEF RowKept, Kept
    <3>6. CASE row.token = req[r].token
      BY <3>1, <3>2, <3>3, <3>4, <3>6 DEF RowKept, Kept
    <3> QED
      BY <2>4, <3>5, <3>6
  <2>10. Progress'
    BY <1>12, <2>1, <2>2, <2>3, <2>4, <2>5, <2>6, ProcessingFacts DEF Progress, Release, AnswerRetry, TypeOK, OwnClaim, NoRow, NoEntry
  <2>11. ReceiptMeansWritten'
    BY <1>12, <2>1, <2>2, <2>3, <2>4, <2>5, <2>6, ProcessingFacts DEF ReceiptMeansWritten, Progress, Release, AnswerRetry, TypeOK, OwnClaim, NoRow, NoEntry
  <2> QED
    BY <2>7, <2>8, <2>9, <2>10, <2>11 DEF ClaimRest
<1>13. ASSUME NEW g \in Gateways, Crash(g) PROVE ClaimRest'
  <2>1. Processing' = {s \in Processing : req[s].at # g} /\ \A s \in Processing' : req'[s] = req[s]
    BY <1>13, HandlerFacts DEF Crash, Processing, Idle, TypeOK
  <2>2. \A h \in Gateways : cache'[h] = (IF h = g THEN NoEntry ELSE cache[h]) /\ claims'[h] = (IF h = g THEN 0 ELSE claims[h])
    BY <1>13, <2>1 DEF Crash, TypeOK
  <2>3. OwnClaim'
    BY <1>13, <2>1, <2>2, ProcessingFacts DEF OwnClaim, Crash, TypeOK, NoEntry
  <2>4. FreshTokens'
    BY <1>13, <2>1, <2>2, ProcessingFacts DEF FreshTokens, Crash, TypeOK, NoEntry
  <2>5. RowKept'
    BY <1>13, <2>1, <2>2, ProcessingFacts DEF RowKept, Kept, Crash, TypeOK, NoEntry
  <2>6. Progress'
    BY <1>13, <2>1, <2>2, ProcessingFacts DEF Progress, Crash, TypeOK, NoEntry
  <2>7. ReceiptMeansWritten'
    BY <1>13, <2>1, <2>2, ProcessingFacts DEF ReceiptMeansWritten, Progress, Crash, TypeOK, NoEntry
  <2> QED
    BY <2>3, <2>4, <2>5, <2>6, <2>7 DEF ClaimRest
<1>14. ASSUME NEW g \in Gateways, CacheExpires(g) PROVE ClaimRest'
  <2>1. Processing' = Processing /\ \A s \in Processing : req'[s] = req[s]
    BY <1>14 DEF CacheExpires, Processing
  <2>2. \A h \in Gateways : cache'[h] = (IF h = g THEN NoEntry ELSE cache[h])
    BY <1>14, <2>1 DEF CacheExpires, TypeOK
  <2>3. \A s \in Processing : req[s].at # g
    <3>1. cache[g].token \in aged
      BY <1>14 DEF CacheExpires
    <3> SUFFICES ASSUME NEW s \in Processing, req[s].at = g PROVE FALSE
      OBVIOUS
    <3>2. cache[g] = [kind |-> "provisional", token |-> req[s].token]
      BY DEF OwnClaim
    <3> QED
      BY <3>1, <3>2 DEF FreshTokens
  <2>4. OwnClaim'
    BY <1>14, <2>1, <2>2, <2>3, ProcessingFacts DEF OwnClaim, CacheExpires, TypeOK, NoEntry
  <2>5. FreshTokens'
    BY <1>14, <2>1, <2>2, <2>3, ProcessingFacts DEF FreshTokens, CacheExpires, TypeOK, NoEntry
  <2>6. RowKept'
    BY <1>14, <2>1, <2>2, <2>3, ProcessingFacts DEF RowKept, Kept, CacheExpires, TypeOK, NoEntry
  <2>7. Progress'
    BY <1>14, <2>1, <2>2, <2>3, ProcessingFacts DEF Progress, CacheExpires, TypeOK, NoEntry
  <2>8. ReceiptMeansWritten'
    BY <1>14, <2>1, <2>2, <2>3, ProcessingFacts DEF ReceiptMeansWritten, Progress, CacheExpires, TypeOK, NoEntry
  <2> QED
    BY <2>4, <2>5, <2>6, <2>7, <2>8 DEF ClaimRest
<1>15. CASE LeaseLapses
  <2>1. Processing' = Processing /\ \A s \in Processing : req'[s] = req[s]
    BY <1>15 DEF LeaseLapses, Processing
  <2>2. OwnClaim'
    BY <1>15, <2>1, ProcessingFacts DEF OwnClaim, LeaseLapses, TypeOK
  <2>3. FreshTokens'
    BY <1>15, <2>1, ProcessingFacts DEF FreshTokens, LeaseLapses, TypeOK
  <2>4. RowKept'
    BY <1>15, <2>1, ProcessingFacts DEF RowKept, Kept, LeaseLapses, TypeOK
  <2>5. Progress'
    BY <1>15, <2>1, ProcessingFacts DEF Progress, LeaseLapses, TypeOK
  <2>6. ReceiptMeansWritten'
    BY <1>15, <2>1, ProcessingFacts DEF ReceiptMeansWritten, Progress, LeaseLapses, TypeOK
  <2> QED
    BY <2>2, <2>3, <2>4, <2>5, <2>6 DEF ClaimRest
<1>16. CASE WindowEnds
  <2>1. Processing' = Processing /\ \A s \in Processing : req'[s] = req[s]
    BY <1>16 DEF WindowEnds, Processing
  <2>2. \A s \in Processing : req[s].token # row.token
    BY <1>16, <2>1 DEF WindowEnds, Live
  <2>3. OwnClaim'
    BY <1>16, <2>1, <2>2, ProcessingFacts DEF OwnClaim, WindowEnds, TypeOK
  <2>4. FreshTokens'
    BY <1>16, <2>1, <2>2, ProcessingFacts DEF FreshTokens, WindowEnds, TypeOK
  <2>5. RowKept'
    BY <1>16, <2>1, <2>2, ProcessingFacts DEF RowKept, Kept, WindowEnds, TypeOK
  <2>6. Progress'
    BY <1>16, <2>1, <2>2, ProcessingFacts DEF Progress, WindowEnds, TypeOK
  <2>7. ReceiptMeansWritten'
    BY <1>16, <2>1, <2>2, ProcessingFacts DEF ReceiptMeansWritten, Progress, WindowEnds, TypeOK
  <2> QED
    BY <2>3, <2>4, <2>5, <2>6, <2>7 DEF ClaimRest
<1> QED
  BY <1>1, <1>2, <1>3, <1>4, <1>5, <1>6, <1>7, <1>8, <1>9, <1>10, <1>11,
     <1>12, <1>13, <1>14, <1>15, <1>16 DEF Next, Arrive, Handle

-----------------------------------------------------------------------------
(* The outcome.                                                            *)

\* The claim invariant makes claims exclusive and every second write paid for.
LEMMA ClaimInvConsequences ==
  ClaimInv => ClaimsExclusive /\ WritesPaidFor /\ BilledOnce
<1> SUFFICES ASSUME ClaimInv PROVE ClaimsExclusive /\ WritesPaidFor /\ BilledOnce
  OBVIOUS
<1>1. ClaimsExclusive
  BY DEF ClaimInv, ClaimsExclusive, FreshTokens, RowKept, Kept
<1>2. ASSUME NEW s \in landed, NEW t \in landed, s < t, s \notin outlived \cup disowned
      PROVE  FALSE
  <2>1. s = issued
    BY <1>2 DEF ClaimInv, RowKept, Kept, FreshTokens
  <2>2. t \in 1..issued /\ issued \in Nat
    BY <1>2 DEF ClaimInv, TypeOK
  <2> QED
    BY <1>2, <2>1, <2>2
<1>3. WritesPaidFor
  BY <1>2 DEF WritesPaidFor
<1>4. BilledOnce
  <2>1. metered \subseteq landed /\ metered \cap disowned = {}
    BY DEF ClaimInv, TypeOK, Progress
  <2> QED
    BY <1>2, <2>1 DEF BilledOnce
<1> QED
  BY <1>1, <1>3, <1>4

\* Every step keeps the outcome unique while no claim is outlived.
LEMMA AgreeStep == ClaimInv /\ AgreeInv /\ TypeOK' /\ [Next]_vars => AgreeInv'
<1> SUFFICES ASSUME ClaimInv, AgreeInv, TypeOK', [Next]_vars, outlived' = {}
             PROVE  \A o \in Outcome : Settled(o)' =>
                      /\ row'.state # "none"
                      /\ Processing' = {}
                      /\ \A p \in Outcome : Settled(p)' => o = p
  BY DEF AgreeInv
<1>a. TypeOK /\ outlived = {} /\ aged = {}
  BY DEF ClaimInv, TypeOK, Next, vars, Arrive, Handle, Replay, ClaimWon, ClaimLost,
         ClaimFails, ReadRow, Resume, RejectAll, Write, WriteFails, Record,
         Release, Crash, CacheExpires, LeaseLapses, WindowEnds
<1>b. \A o \in Outcome : Settled(o) =>
        /\ row.state # "none"
        /\ Processing = {}
        /\ \A p \in Outcome : Settled(p) => o = p
  BY <1>a DEF AgreeInv
\* A step that settles nothing new, starts no handler and keeps the row.
<1>c. ASSUME \A o \in Outcome : Settled(o)' => Settled(o),
             Processing' \subseteq Processing,
             row.state # "none" => row'.state # "none"
      PROVE  \A o \in Outcome : Settled(o)' =>
               /\ row'.state # "none"
               /\ Processing' = {}
               /\ \A p \in Outcome : Settled(p)' => o = p
  BY <1>b, <1>c
\* A step of a handler in progress that settles nothing.
<1>d. ASSUME NEW r \in Processing, \A o \in Outcome : Settled(o)' => Settled(o)
      PROVE  \A o \in Outcome : ~Settled(o)'
  BY <1>b, <1>d
<1>1. CASE UNCHANGED vars
  BY <1>1, <1>c DEF vars, Settled, Processing
<1>2. ASSUME NEW r \in Requests, NEW g \in Gateways, Replay(r, g)
      PROVE  /\ \A o \in Outcome : Settled(o)' => Settled(o)
             /\ Processing' \subseteq Processing
             /\ UNCHANGED row
  BY <1>2, <1>a, HandlerEnds DEF Replay, Answer, Settled
<1>3. ASSUME Claimable
      PROVE  row.state = "none"
  BY <1>3, <1>a DEF Claimable
<1>4. ASSUME NEW r \in Requests, NEW g \in Gateways, ClaimWon(r, g)
      PROVE  \A o \in Outcome : ~Settled(o)'
  <2>1. row.state = "none"
    BY <1>3, <1>4 DEF ClaimWon
  <2>2. \A o \in Outcome : Settled(o)' => Settled(o)
    BY <1>4, <1>a DEF ClaimWon, ClaimedRow, Settled, Outcome, TypeOK
  <2> QED
    BY <1>b, <2>1, <2>2
<1>5. ASSUME NEW r \in Requests, NEW g \in Gateways, ClaimLost(r, g)
      PROVE  /\ \A o \in Outcome : Settled(o)' => Settled(o)
             /\ Processing' \subseteq Processing
             /\ UNCHANGED row
  BY <1>5, <1>a DEF ClaimLost, Settled, Processing, Idle, TypeOK
<1>6. ASSUME NEW r \in Requests, NEW g \in Gateways, ClaimFails(r, g)
      PROVE  /\ \A o \in Outcome : Settled(o)' => Settled(o)
             /\ Processing' \subseteq Processing
             /\ row'.state # "none" \/ UNCHANGED row
  BY <1>6, <1>a DEF ClaimFails, ClaimedRow, Settled, Outcome, Processing
<1>7. ASSUME NEW r \in Requests, ReadRow(r)
      PROVE  /\ \A o \in Outcome : Settled(o)' => Settled(o)
             /\ Processing' \subseteq Processing
             /\ UNCHANGED row
  BY <1>7, <1>a, HandlerEnds DEF ReadRow, Answer, AnswerRetry, Settled
<1>8. ASSUME NEW r \in Requests, Resume(r) \/ RejectAll(r) \/ Write(r) \/ WriteFails(r)
      PROVE  /\ \A o \in Outcome : Settled(o)' => Settled(o)
             /\ Processing' \subseteq Processing
             /\ UNCHANGED row
  <2>1. UNCHANGED <<row, cache, told>>
    BY <1>8 DEF Resume, RejectAll, Write, WriteFails
  <2>2. Processing' = Processing
    BY <1>8, <1>a, HandlerMoves DEF Resume, RejectAll, Write, WriteFails, Decide, GiveUp
  <2> QED
    BY <2>1, <2>2 DEF Settled
<1>9. ASSUME NEW r \in Requests, Record(r)
      PROVE  \A o \in Outcome : Settled(o)' =>
               /\ row'.state # "none"
               /\ Processing' = {}
               /\ \A p \in Outcome : Settled(p)' => o = p
  <2>1. r \in Processing
    BY <1>9, <1>a, InProgress DEF Record
  <2>2. Processing' = {}
    <3>1. Processing' = Processing \ {r}
      BY <1>9, <1>a, HandlerEnds DEF Record, Answer
    <3>2. \A s \in Processing : s = r
      BY <1>a, <2>1, ClaimInvConsequences DEF ClaimsExclusive
    <3> QED
      BY <3>1, <3>2
  <2>3. row'.state # "none"
    <3>1. row.state # "none"
      BY <1>a, <2>1 DEF ClaimInv, RowKept, Kept
    <3> QED
      BY <1>9, <3>1 DEF Record, Complete
  <2>4. \A o \in Outcome : Settled(o)' => o = req[r].outcome
    <3>1. \A o \in Outcome : ~Settled(o)
      BY <1>b, <2>1
    <3> QED
      BY <1>9, <1>a, <3>1 DEF Record, Complete, Answer, Settled, TypeOK
  <2> QED
    BY <2>2, <2>3, <2>4
<1>10. ASSUME NEW r \in Requests, Release(r)
       PROVE  \A o \in Outcome : ~Settled(o)'
  <2>1. r \in Processing
    BY <1>10, <1>a, InProgress DEF Release
  <2>2. \A o \in Outcome : Settled(o)' => Settled(o)
    BY <1>10, <1>a DEF Release, AnswerRetry, Settled, NoRow, NoEntry, Outcome, TypeOK
  <2> QED
    BY <1>d, <2>1, <2>2
<1>11. ASSUME NEW g \in Gateways, Crash(g) \/ CacheExpires(g)
       PROVE  /\ \A o \in Outcome : Settled(o)' => Settled(o)
              /\ Processing' \subseteq Processing
              /\ UNCHANGED row
  <2>1. UNCHANGED <<row, told>>
    BY <1>11 DEF Crash, CacheExpires
  <2>2. \A h \in Gateways : cache'[h] \in {cache[h], NoEntry}
    BY <1>11, <1>a DEF Crash, CacheExpires, TypeOK
  <2>3. Processing' \subseteq Processing
    BY <1>11, <1>a DEF Crash, CacheExpires, Processing, Idle
  <2> QED
    BY <2>1, <2>2, <2>3 DEF Settled, NoEntry, Outcome
<1>12. CASE LeaseLapses \/ WindowEnds
  BY <1>12 DEF LeaseLapses, WindowEnds
<1> QED
  BY <1>1, <1>2, <1>4, <1>5, <1>6, <1>7, <1>8, <1>9, <1>10, <1>11, <1>12, <1>c
     DEF Next, Arrive, Handle

-----------------------------------------------------------------------------
(* The theorems.                                                           *)

IInv == ClaimInv /\ AgreeInv

\* The invariant the others follow from.
THEOREM InvariantHolds == Spec => []IInv
<1>1. Init => IInv
  <2> SUFFICES ASSUME Init PROVE IInv
    OBVIOUS
  <2>1. Processing = {}
    BY DEF Init, Processing, Idle
  <2>2. ClaimInv
    BY <2>1, TypeInit DEF Init, ClaimInv, OwnClaim, FreshTokens, RowKept, Progress,
       ReceiptMeansWritten, NoRow, NoEntry
  <2>3. AgreeInv
    BY <2>1 DEF Init, AgreeInv, Settled, NoRow, NoEntry, Outcome
  <2> QED
    BY <2>2, <2>3 DEF IInv
<1>2. IInv /\ [Next]_vars => IInv'
  BY TypeStep, ClaimStep, AgreeStep DEF IInv, ClaimInv, ClaimRest
<1> QED
  BY <1>1, <1>2, PTL DEF Spec

\* Every variable keeps its type.
THEOREM TypeCorrect == Spec => []TypeOK
<1>1. IInv => TypeOK
  BY DEF IInv, ClaimInv
<1> QED
  BY <1>1, InvariantHolds, PTL

\* At most one handler at a time processes the batch under a claim that has
\* not outlived its lease, on any number of gateway processes.
THEOREM ClaimsExclusiveHolds == Spec => []ClaimsExclusive
<1>1. IInv => ClaimsExclusive
  BY ClaimInvConsequences DEF IInv
<1> QED
  BY <1>1, InvariantHolds, PTL

\* A second write of the spans is always paid for by an outlived claim or by a
\* write that was reported as failed.
THEOREM WritesPaidForHolds == Spec => []WritesPaidFor
<1>1. IInv => WritesPaidFor
  BY ClaimInvConsequences DEF IInv
<1> QED
  BY <1>1, InvariantHolds, PTL

\* A second bill for the batch is always paid for by an outlived claim.
THEOREM BilledOnceHolds == Spec => []BilledOnce
<1>1. IInv => BilledOnce
  BY ClaimInvConsequences DEF IInv
<1> QED
  BY <1>1, InvariantHolds, PTL

\* A receipt that says "accepted" is never there before the spans are written.
THEOREM ReceiptMeansWrittenHolds == Spec => []ReceiptMeansWritten
<1>1. IInv => ReceiptMeansWritten
  BY DEF IInv, ClaimInv
<1> QED
  BY <1>1, InvariantHolds, PTL

\* Until a claim is outlived, every delivery gets the same outcome.
THEOREM AnswersAgreeHolds == Spec => []AnswersAgree
<1>1. IInv => AnswersAgree
  BY DEF IInv, AgreeInv, AnswersAgree, Settled
<1> QED
  BY <1>1, InvariantHolds, PTL

=============================================================================
