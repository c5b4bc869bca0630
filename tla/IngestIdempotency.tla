-------------------------- MODULE IngestIdempotency --------------------------
(***************************************************************************)
(* One batch and all its deliveries: the durable (tenant_id, batch_id)     *)
(* idempotency of the ingest gateway (infra/gateway/src/gateway/           *)
(* batch_idempotency.py), the in-process cache in front of it (the SDK's   *)
(* wire.IdempotencyCache) and the handler between them (_run_pipeline in   *)
(* app.py, the synchronous write path).                                    *)
(*                                                                         *)
(* The client may deliver the batch any number of times, to any gateway    *)
(* process.  A process runs its handlers on one event loop, so a handler   *)
(* has the process to itself except where it awaits; processes interleave  *)
(* between any two of its calls.  Every claim of the batch gets a token,   *)
(* numbered from 1: the updated_at that claim stamped on the row.          *)
(***************************************************************************)
EXTENDS Integers

CONSTANTS Gateways,    \* the gateway processes
          Requests,    \* the deliveries that may be in progress at once
          Nowhere,     \* where a delivery that is not in progress runs
          FaultKinds,  \* what may go wrong, out of Fault below
          MaxFaults,   \* how many faults a behaviour has
          MaxLapses    \* how many claims a behaviour makes too old while
                       \* their holder still runs, or by the 24 h window

Fault == {"crash",    \* a process dies and restarts
          "claim",    \* Postgres fails during claim()
          "write",    \* ClickHouse fails during the inserts
          "receipt",  \* Postgres fails in all the attempts of record()
          "release",  \* Postgres fails during release()
          "reply"}    \* the answer does not reach the client

ASSUME ConstantsAssumption ==
    /\ Nowhere \notin Gateways
    /\ FaultKinds \subseteq Fault
    /\ MaxFaults \in Nat
    /\ MaxLapses \in Nat

VARIABLES
    row,       \* the row of ingest_batch_idempotency
    cache,     \* each process's entry of IdempotencyCache._store
    claims,    \* each process's PostgresIdempotencyStore._claims entry; 0: none
    req,       \* the handler of each delivery
    issued,    \* the tokens stamped so far are 1..issued
    outlived,  \* the tokens older than IN_FLIGHT_LEASE_S
    aged,      \* the tokens whose row is older than the idempotency window
    landed,    \* the claims under which the spans reached ClickHouse
    disowned,  \* those of them whose handler reported a failed write
    metered,   \* the claims under which the batch was billed
    told,      \* the answers other than RETRY the client has received
    faults,    \* faults so far
    lapses     \* bounded lapses so far

vars == <<row, cache, claims, req, issued, outlived, aged, landed, disowned,
          metered, told, faults, lapses>>

-----------------------------------------------------------------------------
Outcome == {"accepted", "rejected"}

NoRow == [state |-> "none", outcome |-> "none", token |-> 0]
NoEntry == [kind |-> "none", token |-> 0]
Idle == [pc |-> "idle", at |-> Nowhere, token |-> 0, outcome |-> "none"]

\* The handlers that hold, or believe they hold, the claim on the batch.
Processing == {r \in Requests : req[r].token # 0}

Live(t) == \E r \in Processing : req[r].token = t

\* Between two awaits a handler has the event loop of its process.
LoopFree(g) ==
    \A r \in Requests : req[r].at = g => req[r].pc \in {"idle", "awaiting"}

Init ==
    /\ row = NoRow
    /\ cache = [g \in Gateways |-> NoEntry]
    /\ claims = [g \in Gateways |-> 0]
    /\ req = [r \in Requests |-> Idle]
    /\ issued = 0
    /\ outlived = {} /\ aged = {}
    /\ landed = {} /\ disowned = {} /\ metered = {}
    /\ told = {}
    /\ faults = 0 /\ lapses = 0

Fails(kind) ==
    /\ kind \in FaultKinds
    /\ faults < MaxFaults
    /\ faults' = faults + 1

\* The handler ends with a RETRY, which tells the client nothing.
AnswerRetry(r) == req' = [req EXCEPT ![r] = Idle] /\ UNCHANGED told

\* The handler ends with an outcome, which the client receives or not.
Answer(r, outcome) ==
    /\ req' = [req EXCEPT ![r] = Idle]
    /\ \/ told' = told \cup {outcome} /\ UNCHANGED faults
       \/ told' = told /\ Fails("reply")

-----------------------------------------------------------------------------
(* check_or_store: the cache, then the durable claim.                      *)

Arrives(r, g) == req[r].pc = "idle" /\ LoopFree(g)

\* A cache hit is the answer.  A reservation holds a provisional ACCEPTED.
Replay(r, g) ==
    /\ Arrives(r, g)
    /\ cache[g].kind # "none"
    /\ Answer(r, cache[g].kind)
    /\ UNCHANGED <<row, cache, claims, issued, outlived, aged, landed,
                   disowned, metered, lapses>>

\* Ways for the claim statement to be wrong: a cache miss means a new batch; a
\* claim in flight is always up for grabs; it never is.
MissMeansNew == TRUE
NoLease == row.state \in {"none", "in_flight"} \/ row.token \in aged
NeverReclaimed == row.state = "none" \/ row.token \in aged

\* The claim statement takes a row that is missing, is past the window, or is
\* in flight past the lease.
Claimable ==
    \/ row.state = "none"
    \/ row.token \in aged
    \/ row.state = "in_flight" /\ row.token \in outlived

ClaimedRow(t) == [state |-> "in_flight", outcome |-> "none", token |-> t]

\* The claim is won and the reservation mirrored; the handler then awaits the
\* price refresh, which gives the loop away only if the prices are stale.
ClaimWon(r, g) ==
    /\ Arrives(r, g)
    /\ cache[g].kind = "none"
    /\ Claimable
    /\ issued' = issued + 1
    /\ row' = ClaimedRow(issued + 1)
    /\ claims' = [claims EXCEPT ![g] = issued + 1]
    /\ cache' = [cache EXCEPT ![g] = [kind |-> "provisional", token |-> issued + 1]]
    /\ \E pc \in {"awaiting", "writing"} :
         req' = [req EXCEPT ![r] = [pc |-> pc, at |-> g, token |-> issued + 1,
                                    outcome |-> "none"]]
    /\ UNCHANGED <<outlived, aged, landed, disowned, metered, told, faults, lapses>>

\* The row belongs to someone else; a second statement will read it.
ClaimLost(r, g) ==
    /\ Arrives(r, g)
    /\ cache[g].kind = "none"
    /\ ~Claimable
    /\ req' = [req EXCEPT ![r] = [Idle EXCEPT !.pc = "reading", !.at = g]]
    /\ UNCHANGED <<row, cache, claims, issued, outlived, aged, landed,
                   disowned, metered, told, faults, lapses>>

\* A store that cannot answer lets the batch through.
FailOpen(r, g) ==
    /\ Arrives(r, g)
    /\ cache[g].kind = "none"
    /\ Fails("claim")
    /\ issued' = issued + 1
    /\ req' = [req EXCEPT ![r] = [pc |-> "writing", at |-> g, token |-> issued + 1,
                                 outcome |-> "none"]]
    /\ UNCHANGED <<row, cache, claims, outlived, aged, landed, disowned,
                   metered, told, lapses>>

\* IdempotencyStoreUnavailable: the batch is refused, though the claim may
\* have been committed before the connection broke.
ClaimFails(r, g) ==
    /\ Arrives(r, g)
    /\ cache[g].kind = "none"
    /\ Fails("claim")
    /\ \/ UNCHANGED <<row, issued>>
       \/ Claimable /\ issued' = issued + 1 /\ row' = ClaimedRow(issued + 1)
    /\ UNCHANGED <<cache, claims, req, outlived, aged, landed, disowned,
                   metered, told, lapses>>

\* The second statement of claim(): a stored outcome is the answer; a row that
\* is in flight or gone, or a failing SELECT, is answered with RETRY.
ReadRow(r) ==
    /\ req[r].pc = "reading"
    /\ \/ row.state = "complete" /\ Answer(r, row.outcome)
       \/ row.state # "complete" /\ AnswerRetry(r) /\ UNCHANGED faults
       \/ Fails("claim") /\ AnswerRetry(r)
    /\ UNCHANGED <<row, cache, claims, issued, outlived, aged, landed,
                   disowned, metered, lapses>>

-----------------------------------------------------------------------------
(* The handler that won the claim.                                         *)

\* ensure_fresh returns and the handler gets the loop back.
Resume(r) ==
    /\ req[r].pc = "awaiting"
    /\ LoopFree(req[r].at)
    /\ req' = [req EXCEPT ![r].pc = "writing"]
    /\ UNCHANGED <<row, cache, claims, issued, outlived, aged, landed,
                   disowned, metered, told, faults, lapses>>

Decide(r, outcome) ==
    req' = [req EXCEPT ![r].pc = "recording", ![r].outcome = outcome]

\* Every span fails validation.  The verdict may differ between deliveries:
\* under load the overflow of the batch is shed before it is validated.
RejectAll(r) ==
    /\ req[r].pc = "writing"
    /\ Decide(r, "rejected")
    /\ UNCHANGED <<row, cache, claims, issued, outlived, aged, landed,
                   disowned, metered, told, faults, lapses>>

\* The three inserts succeed and the batch is metered.
Write(r) ==
    /\ req[r].pc = "writing"
    /\ landed' = landed \cup {req[r].token}
    /\ metered' = metered \cup {req[r].token}
    /\ Decide(r, "accepted")
    /\ UNCHANGED <<row, cache, claims, issued, outlived, aged, disowned, told,
                   faults, lapses>>

\* A failed write taken for the batch's answer.
RecordsAccepted(r) == Decide(r, "accepted")

\* What follows a failed write: the claim is released, never recorded.
GiveUp(r) == req' = [req EXCEPT ![r].pc = "releasing"]

\* One of insert_spans, insert_business_events and insert_identity_links
\* raises: the spans may be in ClickHouse all the same.
WriteFails(r) ==
    /\ req[r].pc = "writing"
    /\ Fails("write")
    /\ \E spans \in SUBSET {req[r].token} :
         landed' = landed \cup spans /\ disowned' = disowned \cup spans
    /\ GiveUp(r)
    /\ UNCHANGED <<row, cache, claims, issued, outlived, aged, metered, told, lapses>>

\* record: the cache first, then an UPDATE by key alone, which finds whatever
\* row is there now.  The token is forgotten only if the UPDATE is known to
\* have worked; either way the client gets the outcome.
Complete(outcome) ==
    row' = IF row.state = "none" THEN row
           ELSE [state |-> "complete", outcome |-> outcome, token |-> row.token]

Record(r) ==
    LET g == req[r].at
        outcome == req[r].outcome
    IN  /\ req[r].pc = "recording"
        /\ cache' = [cache EXCEPT ![g] = [kind |-> outcome, token |-> req[r].token]]
        /\ \/ /\ Complete(outcome)
              /\ claims' = [claims EXCEPT ![g] = 0]
              /\ Answer(r, outcome)
           \/ /\ Complete(outcome) \/ UNCHANGED row
              /\ Fails("receipt")
              /\ req' = [req EXCEPT ![r] = Idle]
              /\ told' = told \cup {outcome}
              /\ UNCHANGED claims
        /\ UNCHANGED <<issued, outlived, aged, landed, disowned, metered, lapses>>

\* A DELETE of whatever row is in flight now.
AnyInFlight(t) == row.state = "in_flight"

\* The DELETE of release(), scoped to the claim this process holds.
Mine(t) == row.state = "in_flight" /\ row.token = t

\* release: a reservation leaves the cache, the token is popped, and the row is
\* deleted if it is still this claim; without a token it is left alone.
Release(r) ==
    LET g == req[r].at
        deleted == IF claims[g] # 0 /\ Mine(claims[g]) THEN NoRow ELSE row
    IN  /\ req[r].pc = "releasing"
        /\ cache' = IF cache[g].kind = "provisional"
                    THEN [cache EXCEPT ![g] = NoEntry] ELSE cache
        /\ claims' = [claims EXCEPT ![g] = 0]
        /\ \/ row' = deleted /\ UNCHANGED faults
           \/ row' \in {row, deleted} /\ Fails("release")
        /\ AnswerRetry(r)
        /\ UNCHANGED <<issued, outlived, aged, landed, disowned, metered, lapses>>

-----------------------------------------------------------------------------
(* Crashes and the passing of time.                                        *)

\* A process dies: its memory and the handlers it ran are gone.
Crash(g) ==
    /\ Fails("crash")
    /\ cache' = [cache EXCEPT ![g] = NoEntry]
    /\ claims' = [claims EXCEPT ![g] = 0]
    /\ req' = [r \in Requests |-> IF req[r].at = g THEN Idle ELSE req[r]]
    /\ UNCHANGED <<row, issued, outlived, aged, landed, disowned, metered, told, lapses>>

\* The claim becomes older than the lease.  Its holder is gone, or stalls.
LeaseLapses ==
    /\ row.state = "in_flight" /\ row.token \notin outlived
    /\ \/ ~Live(row.token) /\ UNCHANGED lapses
       \/ Live(row.token) /\ lapses < MaxLapses /\ lapses' = lapses + 1
    /\ outlived' = outlived \cup {row.token}
    /\ UNCHANGED <<row, cache, claims, req, issued, aged, landed, disowned,
                   metered, told, faults>>

\* The row becomes older than the idempotency window, which no handler's run
\* is assumed to outlast.
WindowEnds ==
    /\ row.state # "none" /\ row.token \notin aged /\ ~Live(row.token)
    /\ lapses < MaxLapses /\ lapses' = lapses + 1
    /\ outlived' = outlived \cup {row.token}
    /\ aged' = aged \cup {row.token}
    /\ UNCHANGED <<row, cache, claims, req, issued, landed, disowned, metered,
                   told, faults>>

\* A cache entry is stamped no earlier than its row, so it expires after it.
CacheExpires(g) ==
    /\ cache[g].token \in aged
    /\ cache' = [cache EXCEPT ![g] = NoEntry]
    /\ UNCHANGED <<row, claims, req, issued, outlived, aged, landed, disowned,
                   metered, told, faults, lapses>>

-----------------------------------------------------------------------------
Arrive(r, g) ==
    Replay(r, g) \/ ClaimWon(r, g) \/ ClaimLost(r, g) \/ ClaimFails(r, g)

Handle(r) ==
    ReadRow(r) \/ Resume(r) \/ RejectAll(r) \/ Write(r) \/ WriteFails(r)
    \/ Record(r) \/ Release(r)

Next ==
    \/ \E r \in Requests, g \in Gateways : Arrive(r, g)
    \/ \E r \in Requests : Handle(r)
    \/ \E g \in Gateways : Crash(g) \/ CacheExpires(g)
    \/ LeaseLapses \/ WindowEnds

Spec == Init /\ [][Next]_vars

\* Handlers make progress and the clock runs.  Nothing is asked of the client:
\* BatchingTransport gives a batch up after retry_max answers of RETRY, which may
\* be long before a lease has lapsed.
Fairness ==
    /\ \A r \in Requests : WF_vars(Handle(r))
    /\ WF_vars(LeaseLapses /\ ~Live(row.token))

FairSpec == Spec /\ Fairness

-----------------------------------------------------------------------------
TokenOrNone == 0..issued

\* Every variable stays in its range: in particular a row has an outcome
\* exactly when it is complete, and a claim clears the outcome it replaces.
TypeOK ==
    /\ row \in {NoRow} \cup
               [state : {"in_flight"}, outcome : {"none"}, token : 1..issued] \cup
               [state : {"complete"}, outcome : Outcome, token : 1..issued]
    /\ cache \in [Gateways -> {NoEntry} \cup
                    [kind : Outcome \cup {"provisional"}, token : 1..issued]]
    /\ claims \in [Gateways -> TokenOrNone]
    /\ req \in [Requests ->
                  {Idle} \cup
                  [pc : {"reading"}, at : Gateways, token : {0}, outcome : {"none"}] \cup
                  [pc : {"awaiting", "writing", "releasing"}, at : Gateways,
                   token : 1..issued, outcome : {"none"}] \cup
                  [pc : {"recording"}, at : Gateways, token : 1..issued,
                   outcome : Outcome]]
    /\ issued \in Nat
    /\ aged \subseteq outlived /\ outlived \subseteq 1..issued
    /\ disowned \subseteq landed /\ metered \subseteq landed /\ landed \subseteq 1..issued
    /\ told \subseteq Outcome \cup {"provisional"}
    /\ faults \in 0..MaxFaults /\ lapses \in 0..MaxLapses

\* Two handlers never both process the batch, on any processes, unless the
\* claim of one of them has outlived its lease (what the single-statement
\* claim and the token-scoped release of batch_idempotency.py are for).
ClaimsExclusive ==
    \A r, s \in Processing :
      r # s => req[r].token \in outlived \/ req[s].token \in outlived

\* The spans are written a second time only if the earlier write was reported
\* as failed, or the claim it was made under has outlived its lease or window.
WritesPaidFor ==
    \A s, t \in landed : s < t => s \in outlived \cup disowned

\* The customer is billed twice for the batch only past a lease or the window:
\* a write that failed after its spans landed never bills them.
BilledOnce ==
    \A s, t \in metered : s < t => s \in outlived

\* "Accepted", in the durable receipt, in a cache or at the client, means that
\* the spans were written: a failed or pending write leaves no receipt.
ReceiptMeansWritten ==
    \/ landed # {}
    \/ /\ row.outcome # "accepted"
       /\ \A g \in Gateways : cache[g].kind # "accepted"
       /\ "accepted" \notin told

\* All the deliveries of the batch get the same outcome, although each attempt
\* decides afresh, as long as no claim has outlived its lease or window.
AnswersAgree ==
    outlived = {} => \A o, p \in told \cap Outcome : o = p

\* Does a delivery to this process meet an outcome, or win the claim?  Neither a
\* provisional reply nor a RETRY is an answer.
Decidable(g) ==
    \/ cache[g].kind \in Outcome
    \/ cache[g].kind = "none" /\ (Claimable \/ row.state = "complete")

\* IN_FLIGHT_LEASE_S bounds how long a dead worker "can block a legitimate retry":
\* no crash, stalled holder, lost claim, release or receipt blocks the batch for
\* ever.  Again and again it is decidable in every process, so a client that
\* resends for long enough is answered.  BatchingTransport need not be one.
NeverBlocked == []<>(\A g \in Gateways : Decidable(g))

\* "claiming acceptance for spans we have not seen land would be a fabricated
\* success" (_in_flight_response): a client is told its spans are accepted only
\* after they have been written.
NoFabricatedSuccess ==
    told \cap {"accepted", "provisional"} # {} => landed # {}

\* "SYNCHRONOUS path: billed and stored are the same set by construction"
\* (_run_pipeline): when no delivery is in progress the spans are stored, once
\* or more, exactly if the batch has been billed.
StoredAreBilled ==
    Processing = {} => (landed # {} <=> metered # {})
=============================================================================
