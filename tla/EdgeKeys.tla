------------------------------ MODULE EdgeKeys ------------------------------
(***************************************************************************)
(* The edge proxy's view of the API keys and how it is kept current:       *)
(* the writers of api_keys and tenant_proxy_config in the gateway          *)
(* (tenant_api_keys.py, tenant_proxy.py), the delta feed                   *)
(* (gateway/edge_keys.py) and the cache that polls it                      *)
(* (infra/edge-proxy/internal/edgekeys/edgekeys.go).                       *)
(*                                                                         *)
(* now() is the start of a transaction, while its rows are seen when it    *)
(* commits: rows become visible out of the order of their watermarks.  The *)
(* feed answers only with rows at least Lag old.                           *)
(***************************************************************************)
EXTENDS Integers, FiniteSets

CONSTANTS Keys,        \* the keys, named by their ids, of which only the order matters
          Orgs,
          OrgOf,       \* the organization of each key
          Existing,    \* the keys that are there from the start
          Lag,         \* edge_key_safe_lag_seconds
          TxTime,      \* the longest a transaction on the keys is open
          Limit,       \* rows per answer
          NoRow,       \* the key is not in api_keys
          NoAnswer,    \* no answer is on its way
          MaxTime,     \* how far the clock goes
          MaxChanges,  \* how many transactions there are
          MaxFaults    \* failed polls and restarts of the proxy

ASSUME EdgeKeysConstants ==
    /\ Keys \subseteq Nat
    /\ OrgOf \in [Keys -> Orgs]
    /\ Existing \subseteq Keys
    /\ TxTime \in Nat /\ Lag \in Nat
    \* The lag is sized above the longest write transaction.
    /\ TxTime < Lag
    /\ Limit \in Nat \ {0}
    /\ MaxTime \in Nat /\ MaxChanges \in Nat /\ MaxFaults \in Nat
    /\ NoRow \notin [created : Nat, revoked : Nat, touched : Nat]
    /\ NoAnswer \notin [changes : UNION {[page -> {"on", "off", "gone"}] : page \in SUBSET Keys},
                        cursor : Nat \X Nat]

VARIABLES
    now,         \* the clock of the database
    rows,        \* api_keys, as committed
    switch,      \* tenant_proxy_config.enabled, as committed
    changing,    \* open transactions that create and revoke keys
    toggling,    \* open transactions that set the switch of an organization
    cache,       \* the proxy's map: what each key is in it, "gone" being absent
    cursor,      \* the position the next poll asks from
    answer,      \* the feed's answer on its way, or NoAnswer
    overlooked,  \* history: keys the feed read before a switch that did not see them
    changes,     \* transactions so far
    faults       \* failures so far

database == <<rows, switch, changing, toggling, changes>>
proxy == <<cache, cursor, answer>>
vars == <<now, database, proxy, overlooked, faults>>

Row == [created : Nat, revoked : Nat, touched : Nat]  \* 0 is NULL
Entry == {"on", "off", "gone"}

Committed == {k \in Keys : rows[k] # NoRow}
Live(k) == rows[k].revoked = 0

-----------------------------------------------------------------------------
(* The feed.                                                               *)

Latest(a, b) == IF a > b THEN a ELSE b

\* Without revoked_at.
WatermarkOfLiveKey(row) == Latest(row.created, row.touched)

\* GREATEST(created_at, revoked_at, edge_updated_at)
Watermark(row) == Latest(row.created, Latest(row.revoked, row.touched))

Position(k) == <<Watermark(rows[k]), k>>

\* The keyset comparison of (watermark, id).
After(p, q) == p[1] > q[1] \/ (p[1] = q[1] /\ p[2] > q[2])

\* An empty cursor: the epoch and the zero UUID.
FromTheTop == <<0, 0>>

\* The newest watermark the feed answers with, with no lag and with it.
UpToNow == now
Horizon == now - Lag

\* The rows past a cursor that are old enough.
Fresh(since) ==
    {k \in Committed : After(Position(k), since) /\ Watermark(rows[k]) <= Horizon}

\* ORDER BY wm, id LIMIT: the first rows, as many as fit.
IsPage(page, fresh) ==
    /\ \A k \in page, j \in fresh \ page : ~After(Position(k), Position(j))
    /\ \/ page = fresh /\ Cardinality(fresh) <= Limit
       \/ Cardinality(page) = Limit

\* What a row says: revoked, or live under the switch of its organization.
Says(k) == IF ~Live(k) THEN "gone" ELSE IF switch[OrgOf[k]] THEN "on" ELSE "off"

\* changes_since: one SELECT, and the position of its last row; or the same cursor.
FeedAnswers ==
    /\ answer = NoAnswer
    /\ \E page \in SUBSET Fresh(cursor) :
         /\ IsPage(page, Fresh(cursor))
         /\ \/ page = {} /\ answer' = [changes |-> <<>>, cursor |-> cursor]
            \/ \E last \in page :
                 /\ \A k \in page : k = last \/ After(Position(last), Position(k))
                 /\ answer' = [changes |-> [k \in page |-> Says(k)], cursor |-> Position(last)]
    /\ UNCHANGED <<now, database, cache, cursor, overlooked, faults>>

-----------------------------------------------------------------------------
(* The cache.                                                              *)

\* Refresh applies an answer: upserts, deletions, and then the cursor.
Apply ==
    /\ answer # NoAnswer
    /\ cache' = [k \in Keys |-> IF k \in DOMAIN answer.changes THEN answer.changes[k] ELSE cache[k]]
    /\ cursor' = answer.cursor
    /\ answer' = NoAnswer
    /\ UNCHANGED <<now, database, overlooked, faults>>

Fault == faults < MaxFaults /\ faults' = faults + 1

\* The answer is lost or unreadable: the map and the cursor stay for the next tick.
PollFails ==
    /\ answer # NoAnswer
    /\ Fault
    /\ answer' = NoAnswer
    /\ UNCHANGED <<now, database, cache, cursor, overlooked>>

\* The proxy starts over, with neither map nor cursor.
Restart ==
    /\ Fault
    /\ cache' = [k \in Keys |-> "gone"]
    /\ cursor' = FromTheTop
    /\ answer' = NoAnswer
    /\ overlooked' = {}
    /\ UNCHANGED <<now, database>>

-----------------------------------------------------------------------------
(* The writers.                                                            *)

\* One more transaction, early enough for the feed to show it by MaxTime.
Begins == now + Lag <= MaxTime /\ changes < MaxChanges /\ changes' = changes + 1

\* create, revoke and rotate: the keys to come and the keys to go.  The old key of
\* a rotation was seen live; that of a revoke is whatever the caller names.
BeginChange(new, old) ==
    /\ Begins
    /\ new \cup old # {} /\ Cardinality(new) <= 1 /\ Cardinality(old) <= 1
    /\ new \cap Committed = {} /\ \A t \in changing : new \cap t.new = {}
    /\ old \subseteq {k \in Committed : Live(k)}
    /\ \A n \in new, o \in old : OrgOf[n] = OrgOf[o]
    /\ changing' = changing \cup {[stamp |-> now, new |-> new, old |-> old]}
    /\ UNCHANGED <<now, rows, switch, toggling, proxy, overlooked, faults>>

\* The row of the new key, and revoked_at on the old one, if it still is live.
ChangedRows(t) ==
    [k \in Keys |->
       IF k \in t.new THEN [created |-> t.stamp, revoked |-> 0, touched |-> 0]
       ELSE IF k \in t.old /\ Live(k) THEN [rows[k] EXCEPT !.revoked = t.stamp]
       ELSE rows[k]]

CommitChange(t) ==
    /\ rows' = ChangedRows(t)
    /\ changing' = changing \ {t}
    /\ UNCHANGED <<now, switch, toggling, changes, proxy, overlooked, faults>>

\* set_enabled begins; its now() is this instant.
BeginToggle(org, enabled) ==
    /\ Begins
    /\ toggling' = toggling \cup
         {[stamp |-> now, org |-> org, enabled |-> enabled, looked |-> FALSE, seen |-> {}]}
    /\ UNCHANGED <<now, rows, switch, changing, proxy, overlooked, faults>>

\* Its UPDATE of api_keys takes a snapshot: keys not yet committed are not in it.
Look(t) ==
    /\ ~t.looked
    /\ toggling' = (toggling \ {t}) \cup
         {[t EXCEPT !.looked = TRUE, !.seen = {k \in Committed : OrgOf[k] = t.org}]}
    /\ UNCHANGED <<now, rows, switch, changing, changes, proxy, overlooked, faults>>

\* The switch alone.
UntouchedRows(t) == rows

\* edge_updated_at on the keys it saw that still are live.
TouchedRows(t) ==
    [k \in Keys |-> IF k \in t.seen /\ Live(k) THEN [rows[k] EXCEPT !.touched = t.stamp]
                    ELSE rows[k]]

\* The live keys of the organization it did not see, and the feed has read by now.
PassedBy(t) ==
    {k \in Committed \ t.seen :
       /\ OrgOf[k] = t.org /\ Live(k)
       /\ \/ ~After(Position(k), cursor)
          \/ answer # NoAnswer /\ k \in DOMAIN answer.changes}

CommitToggle(t) ==
    /\ t.looked
    /\ switch' = [switch EXCEPT ![t.org] = t.enabled]
    /\ rows' = TouchedRows(t)
    /\ toggling' = toggling \ {t}
    /\ overlooked' = (overlooked \ t.seen) \cup PassedBy(t)
    /\ UNCHANGED <<now, changing, changes, proxy, faults>>

\* A transaction comes to nothing.
Rollback ==
    /\ \/ \E t \in changing : changing' = changing \ {t} /\ UNCHANGED toggling
       \/ \E t \in toggling : toggling' = toggling \ {t} /\ UNCHANGED changing
    /\ UNCHANGED <<now, rows, switch, changes, proxy, overlooked, faults>>

\* Time passes; no transaction is open for longer than TxTime.
Tick ==
    /\ now < MaxTime
    /\ \A t \in changing \cup toggling : now - t.stamp < TxTime
    /\ now' = now + 1
    /\ UNCHANGED <<database, proxy, overlooked, faults>>

-----------------------------------------------------------------------------
Init ==
    /\ now = 1
    /\ rows = [k \in Keys |-> IF k \in Existing THEN [created |-> 1, revoked |-> 0, touched |-> 0]
                              ELSE NoRow]
    /\ switch = [o \in Orgs |-> FALSE]
    /\ changing = {} /\ toggling = {}
    /\ cache = [k \in Keys |-> "gone"]
    /\ cursor = FromTheTop
    /\ answer = NoAnswer
    /\ overlooked = {}
    /\ changes = 0 /\ faults = 0

Ends ==
    \/ \E t \in changing : CommitChange(t)
    \/ \E t \in toggling : Look(t) \/ CommitToggle(t)
    \/ Rollback

Next ==
    \/ FeedAnswers \/ Apply \/ PollFails \/ Restart
    \/ \E new, old \in SUBSET Keys : BeginChange(new, old)
    \/ \E org \in Orgs, enabled \in BOOLEAN : BeginToggle(org, enabled)
    \/ Ends
    \/ Tick

Spec == Init /\ [][Next]_vars

\* The clock runs, transactions end, and the proxy polls on: the feed answers and
\* answers arrive, but for the failures counted in faults.
FairSpec ==
    Spec /\ WF_vars(Tick) /\ WF_vars(Ends) /\ WF_vars(FeedAnswers) /\ WF_vars(Apply)

-----------------------------------------------------------------------------
ChangeTx == [stamp : Nat, new : SUBSET Keys, old : SUBSET Keys]
ToggleTx == [stamp : Nat, org : Orgs, enabled : BOOLEAN, looked : BOOLEAN, seen : SUBSET Keys]
Answer == [changes : UNION {[page -> Entry] : page \in SUBSET Keys}, cursor : Nat \X Nat]

EdgeTypeOK ==
    /\ now \in Nat
    /\ rows \in [Keys -> Row \cup {NoRow}]
    /\ switch \in [Orgs -> BOOLEAN]
    /\ changing \subseteq ChangeTx /\ toggling \subseteq ToggleTx
    /\ \A t \in changing : t.old \subseteq Committed
    /\ \A t \in toggling : t.seen \subseteq Committed
    /\ cache \in [Keys -> Entry]
    /\ cursor \in Nat \X Nat
    /\ answer \in Answer \cup {NoAnswer}
    /\ overlooked \subseteq Committed
    /\ changes \in 0..MaxChanges /\ faults \in 0..MaxFaults

\* No key is lost between two polls, in spite of rows that commit out of the order
\* of their watermarks, of watermarks that many rows share, of short pages and of
\* failed polls: whatever the cursor has passed is in the map if it is live and is
\* not if it is revoked, and the rest is still ahead of the cursor.
KeysNotStranded ==
    \A k \in Committed : After(Position(k), cursor) \/ (cache[k] = "gone" <=> ~Live(k))

\* Nor is an organization's switch: each key the cursor has passed carries it, but
\* for the keys that were committed too late for the switch to see them and read
\* too early for the feed to see the switch.
SwitchNotStranded ==
    \A k \in Committed \ overlooked : After(Position(k), cursor) \/ cache[k] = Says(k)

\* A revoked key leaves the map for good, whatever answers were on their way when
\* it was revoked, whichever polls failed, and whether the proxy starts over.
RevocationArrives ==
    \A k \in Keys : (k \in Committed /\ ~Live(k)) ~> [](cache[k] = "gone")
=============================================================================
