--------------------------- MODULE EdgeKeysProofs ---------------------------
(***************************************************************************)
(* Proofs about EdgeKeys, for any keys, any lag above the length of the    *)
(* longest transaction, any page size and any number of changes.           *)
(*                                                                         *)
(* The argument: a cursor is at least Lag behind the clock, and what       *)
(* commits now bears a stamp at most TxTime behind it.  So a row that a    *)
(* transaction writes is ahead of the proxy's cursor and of the cursor of  *)
(* the answer on its way, whatever came before; and a row that stays as it *)
(* is keeps its place.                                                     *)
(***************************************************************************)
EXTENDS EdgeKeys, TLAPS

\* A time that nothing about to commit lies behind.
Lagging(position) == position[1] = 0 \/ position[1] + Lag <= now

\* Stamps begin at 1, and an open transaction began no longer ago than TxTime.
Stamped ==
    /\ now >= 1
    /\ \A k \in Committed : rows[k].created >= 1
    /\ \A t \in changing \cup toggling : t.stamp >= 1 /\ now - t.stamp <= TxTime

CursorsLag ==
    /\ Lagging(cursor)
    /\ answer # NoAnswer => Lagging(answer.cursor)

\* An entry that tells the truth about a key, or about all but its switch.
Shown(k, entry) ==
    /\ entry = "gone" <=> ~Live(k)
    /\ k \in overlooked \/ entry = Says(k)

\* A key is ahead of the cursor or in the map, and will be when the answer is applied.
InPlace(k) ==
    /\ After(Position(k), cursor) \/ Shown(k, cache[k])
    /\ answer # NoAnswer =>
         \/ After(Position(k), answer.cursor)
         \/ k \in DOMAIN answer.changes /\ Shown(k, answer.changes[k])
         \/ k \notin DOMAIN answer.changes /\ ~After(Position(k), cursor)

EdgeInv ==
    /\ EdgeTypeOK /\ Stamped /\ CursorsLag
    /\ \A k \in Committed : InPlace(k)

USE EdgeKeysConstants

-----------------------------------------------------------------------------
(* Types.                                                                  *)

LEMMA RowTyped ==
    ASSUME EdgeTypeOK, NEW k \in Committed
    PROVE  /\ k \in Keys /\ k \in Nat /\ rows[k] \in Row
           /\ Watermark(rows[k]) \in Nat
           /\ Position(k) \in Nat \X Nat
           /\ Position(k)[1] = Watermark(rows[k]) /\ Position(k)[2] = k
<1>1. k \in Keys /\ k \in Nat /\ rows[k] \in Row
  BY DEF EdgeTypeOK, Committed
<1>2. Watermark(rows[k]) \in Nat
  BY <1>1 DEF Row, Watermark, Latest
<1> QED  BY <1>1, <1>2 DEF Position

LEMMA AnswerTyped ==
    ASSUME EdgeTypeOK, answer # NoAnswer
    PROVE  /\ answer \in Answer /\ answer.cursor \in Nat \X Nat
           /\ DOMAIN answer.changes \subseteq Keys
           /\ \A k \in DOMAIN answer.changes : answer.changes[k] \in Entry
<1>1. answer \in Answer
  BY DEF EdgeTypeOK
<1>2. PICK page \in SUBSET Keys : answer.changes \in [page -> Entry]
  BY <1>1 DEF Answer
<1> QED  BY <1>1, <1>2 DEF Answer

\* A watermark is no earlier than any of the three stamps.
LEMMA WatermarkIsLatest ==
    ASSUME NEW row \in Row
    PROVE  /\ Watermark(row) \in Nat
           /\ Watermark(row) >= row.created
           /\ Watermark(row) >= row.revoked
           /\ Watermark(row) >= row.touched
  BY DEF Row, Watermark, Latest

LEMMA LaterIsAfter ==
    ASSUME NEW p \in Nat \X Nat, NEW q \in Nat \X Nat, p[1] > q[1]
    PROVE  After(p, q)
  BY DEF After

-----------------------------------------------------------------------------
(* Rows that move and rows that stay.                                      *)

\* A row with the stamp of a transaction that commits now is ahead of the cursor and
\* of the answer's.
LEMMA CommittedIsAhead ==
    ASSUME EdgeInv, NEW t \in changing \cup toggling, NEW k \in Keys, NEW row \in Row,
           Watermark(row) >= t.stamp
    PROVE  /\ After(<<Watermark(row), k>>, cursor)
           /\ answer # NoAnswer => After(<<Watermark(row), k>>, answer.cursor)
<1>1. t.stamp \in Nat /\ t.stamp >= 1 /\ now - t.stamp <= TxTime /\ now \in Nat
  BY DEF EdgeInv, EdgeTypeOK, Stamped, ChangeTx, ToggleTx
<1>2. <<Watermark(row), k>> \in Nat \X Nat /\ <<Watermark(row), k>>[1] = Watermark(row)
  BY WatermarkIsLatest
<1>3. ASSUME NEW c \in Nat \X Nat, Lagging(c)
      PROVE  After(<<Watermark(row), k>>, c)
  <2>1. Watermark(row) > c[1]
    BY <1>1, <1>3, WatermarkIsLatest DEF Lagging
  <2> QED  BY <1>2, <1>3, <2>1, LaterIsAfter
<1>4. cursor \in Nat \X Nat /\ Lagging(cursor)
  BY DEF EdgeInv, EdgeTypeOK, CursorsLag
<1>5. answer # NoAnswer => answer.cursor \in Nat \X Nat /\ Lagging(answer.cursor)
  BY AnswerTyped DEF EdgeInv, CursorsLag
<1> QED  BY <1>3, <1>4, <1>5

\* A key that is ahead of both cursors is in its place.
LEMMA AheadInPlace ==
    ASSUME NEW k, After(Position(k), cursor),
           answer # NoAnswer => After(Position(k), answer.cursor)
    PROVE  InPlace(k)
  BY DEF InPlace

\* From the top every key is ahead.
LEMMA TopIsBehind ==
    ASSUME EdgeTypeOK, Stamped, NEW k \in Committed
    PROVE  After(Position(k), FromTheTop)
<1>1. Position(k)[1] >= 1
  BY RowTyped, WatermarkIsLatest DEF Stamped, Row
<1>2. FromTheTop \in Nat \X Nat /\ FromTheTop[1] = 0
  BY DEF FromTheTop
<1> QED  BY <1>1, <1>2, RowTyped, LaterIsAfter

-----------------------------------------------------------------------------
LEMMA InvStarts == Init => EdgeInv
<1> SUFFICES ASSUME Init PROVE EdgeInv
  OBVIOUS
<1>1. EdgeTypeOK
  <2>1. rows \in [Keys -> Row \cup {NoRow}]
    BY DEF Init, Row
  <2>2. cursor \in Nat \X Nat
    BY DEF Init, FromTheTop
  <2> QED  BY <2>1, <2>2 DEF Init, EdgeTypeOK, Entry
<1>2. Stamped
  BY DEF Init, Stamped, Committed
<1>3. CursorsLag
  BY DEF Init, CursorsLag, Lagging, FromTheTop
<1>4. \A k \in Committed : InPlace(k)
  BY <1>1, <1>2, TopIsBehind DEF Init, InPlace
<1> QED  BY <1>1, <1>2, <1>3, <1>4 DEF EdgeInv

-----------------------------------------------------------------------------
(* The proxy.                                                              *)

\* What an answer carries is what there is, up to the answer's cursor.
LEMMA AnswerInPlace ==
    ASSUME EdgeInv, NEW page \in SUBSET Fresh(cursor), IsPage(page, Fresh(cursor)),
           NEW last \in page, \A k \in page : k = last \/ After(Position(last), Position(k)),
           NEW j \in Committed, j \notin page
    PROVE  After(Position(j), Position(last)) \/ ~After(Position(j), cursor)
<1>1. /\ last \in Committed /\ Watermark(rows[last]) <= Horizon
      /\ Horizon \in Int /\ j # last
  BY DEF Fresh, Horizon, EdgeInv, EdgeTypeOK
<1>2. /\ Position(j) \in Nat \X Nat /\ Position(last) \in Nat \X Nat
      /\ Position(j)[1] = Watermark(rows[j]) /\ Position(j)[2] = j
      /\ Position(last)[1] = Watermark(rows[last]) /\ Position(last)[2] = last
      /\ j \in Nat /\ last \in Nat
  BY <1>1, RowTyped DEF EdgeInv
<1>3. CASE j \in Fresh(cursor)
  <2>1. ~After(Position(last), Position(j))
    BY <1>3 DEF IsPage
  <2> QED  BY <1>1, <1>2, <2>1 DEF After
<1>4. CASE j \notin Fresh(cursor) /\ After(Position(j), cursor)
  <2>1. ~(Watermark(rows[j]) <= Horizon)
    BY <1>4 DEF Fresh
  <2>2. Position(j)[1] > Position(last)[1]
    BY <1>1, <1>2, <2>1
  <2> QED  BY <1>2, <2>2, LaterIsAfter
<1> QED  BY <1>3, <1>4

LEMMA FeedKeeps == ASSUME EdgeInv, FeedAnswers PROVE EdgeInv'
<1>1. PICK page \in SUBSET Fresh(cursor) :
        /\ IsPage(page, Fresh(cursor))
        /\ \/ page = {} /\ answer' = [changes |-> <<>>, cursor |-> cursor]
           \/ \E last \in page :
                /\ \A k \in page : k = last \/ After(Position(last), Position(k))
                /\ answer' = [changes |-> [k \in page |-> Says(k)], cursor |-> Position(last)]
  BY DEF FeedAnswers
<1>2. UNCHANGED <<now, database, cache, cursor, overlooked, faults>> /\ answer = NoAnswer
  BY DEF FeedAnswers
<1>3. Committed' = Committed
  BY <1>2 DEF Committed, database
<1>4. Stamped'
  BY <1>2, <1>3 DEF EdgeInv, Stamped, database
<1>5. SUFFICES /\ answer' \in Answer
               /\ Lagging(answer'.cursor)
               /\ \A k \in Committed :
                    \/ After(Position(k), answer'.cursor)
                    \/ k \in DOMAIN answer'.changes /\ answer'.changes[k] = Says(k)
                    \/ k \notin DOMAIN answer'.changes /\ ~After(Position(k), cursor)
  <2>1. EdgeTypeOK'
    BY <1>2, <1>3, <1>5 DEF EdgeInv, EdgeTypeOK, database
  <2>2. CursorsLag'
    BY <1>2, <1>5 DEF EdgeInv, CursorsLag, Lagging
  <2>3. ASSUME NEW k \in Committed
        PROVE  InPlace(k)'
    <3>1. Says(k) = "gone" <=> ~Live(k)
      BY DEF Says
    <3>2. UNCHANGED <<rows, switch, cache, cursor, overlooked>>
      BY <1>2 DEF database
    <3>3. /\ Position(k)' = Position(k) /\ Live(k)' = Live(k) /\ Says(k)' = Says(k)
      BY <3>2 DEF Position, Live, Says
    <3> QED  BY <1>5, <3>1, <3>2, <3>3 DEF EdgeInv, InPlace, Shown
  <2> QED  BY <1>3, <1>4, <2>1, <2>2, <2>3 DEF EdgeInv
<1>6. CASE page = {} /\ answer' = [changes |-> <<>>, cursor |-> cursor]
  <2>1. <<>> \in [{} -> Entry]
    OBVIOUS
  <2>2. answer' \in Answer
    BY <1>6, <2>1 DEF Answer, EdgeInv, EdgeTypeOK
  <2>3. DOMAIN answer'.changes = {} /\ answer'.cursor = cursor
    BY <1>6
  <2> QED  BY <2>2, <2>3 DEF EdgeInv, CursorsLag
<1>7. ASSUME NEW last \in page,
             \A k \in page : k = last \/ After(Position(last), Position(k)),
             answer' = [changes |-> [k \in page |-> Says(k)], cursor |-> Position(last)]
      PROVE  /\ answer' \in Answer
             /\ Lagging(answer'.cursor)
             /\ \A k \in Committed :
                  \/ After(Position(k), answer'.cursor)
                  \/ k \in DOMAIN answer'.changes /\ answer'.changes[k] = Says(k)
                  \/ k \notin DOMAIN answer'.changes /\ ~After(Position(k), cursor)
  <2>1. last \in Committed /\ page \subseteq Keys /\ Watermark(rows[last]) <= now - Lag
    BY DEF Fresh, Committed, Horizon
  <2>2. /\ answer'.cursor = Position(last) /\ DOMAIN answer'.changes = page
        /\ \A k \in page : answer'.changes[k] = Says(k)
    BY <1>7
  <2>3. answer' \in Answer
    <3>1. [k \in page |-> Says(k)] \in [page -> Entry]
      BY DEF Says, Entry
    <3>2. Position(last) \in Nat \X Nat
      BY <2>1, RowTyped DEF EdgeInv
    <3> QED  BY <1>7, <2>1, <3>1, <3>2 DEF Answer
  <2>4. Lagging(Position(last))
    BY <2>1, RowTyped DEF Lagging, EdgeInv, EdgeTypeOK
  <2>5. \A k \in Committed \ page : After(Position(k), Position(last)) \/ ~After(Position(k), cursor)
    BY <1>1, <1>7, AnswerInPlace
  <2> QED  BY <2>2, <2>3, <2>4, <2>5
<1> QED  BY <1>1, <1>6, <1>7

LEMMA ApplyKeeps == ASSUME EdgeInv, Apply PROVE EdgeInv'
<1>1. /\ UNCHANGED <<now, rows, switch, changing, toggling, changes, overlooked, faults>>
      /\ answer # NoAnswer /\ answer' = NoAnswer /\ cursor' = answer.cursor
      /\ cache' = [k \in Keys |-> IF k \in DOMAIN answer.changes THEN answer.changes[k]
                                  ELSE cache[k]]
  BY DEF Apply, database
<1>2. Committed' = Committed
  BY <1>1 DEF Committed
<1>3. EdgeTypeOK'
  <2>1. cache' \in [Keys -> Entry] /\ cursor' \in Nat \X Nat
    BY <1>1, AnswerTyped DEF EdgeInv, EdgeTypeOK
  <2> QED  BY <1>1, <1>2, <2>1 DEF EdgeInv, EdgeTypeOK
<1>4. Stamped'
  BY <1>1, <1>2 DEF EdgeInv, Stamped
<1>5. CursorsLag'
  BY <1>1 DEF EdgeInv, CursorsLag, Lagging
<1>6. ASSUME NEW k \in Committed
      PROVE  InPlace(k)'
  <2>1. /\ Position(k)' = Position(k) /\ Live(k)' = Live(k) /\ Says(k)' = Says(k)
        /\ k \in Keys /\ InPlace(k)
    BY <1>1 DEF Position, Live, Says, Committed, EdgeInv
  <2> QED  BY <1>1, <2>1 DEF InPlace, Shown
<1> QED  BY <1>2, <1>3, <1>4, <1>5, <1>6 DEF EdgeInv

LEMMA PollFailsKeeps == ASSUME EdgeInv, PollFails PROVE EdgeInv'
<1>1. /\ UNCHANGED <<now, rows, switch, changing, toggling, changes, cache, cursor, overlooked>>
      /\ answer' = NoAnswer /\ faults < MaxFaults /\ faults' = faults + 1
  BY DEF PollFails, Fault, database
<1>2. Committed' = Committed
  BY <1>1 DEF Committed
<1>3. EdgeTypeOK'
  BY <1>1, <1>2 DEF EdgeInv, EdgeTypeOK
<1>4. Stamped' /\ CursorsLag'
  BY <1>1, <1>2 DEF EdgeInv, Stamped, CursorsLag, Lagging
<1>5. ASSUME NEW k \in Committed
      PROVE  InPlace(k)'
  <2>1. /\ Position(k)' = Position(k) /\ Live(k)' = Live(k) /\ Says(k)' = Says(k)
        /\ InPlace(k)
    BY <1>1 DEF Position, Live, Says, EdgeInv
  <2> QED  BY <1>1, <2>1 DEF InPlace, Shown
<1> QED  BY <1>2, <1>3, <1>4, <1>5 DEF EdgeInv

LEMMA RestartKeeps == ASSUME EdgeInv, Restart PROVE EdgeInv'
<1>1. /\ UNCHANGED <<now, rows, switch, changing, toggling, changes>>
      /\ answer' = NoAnswer /\ faults < MaxFaults /\ faults' = faults + 1
      /\ cache' = [k \in Keys |-> "gone"] /\ cursor' = FromTheTop /\ overlooked' = {}
  BY DEF Restart, Fault, database
<1>2. Committed' = Committed
  BY <1>1 DEF Committed
<1>3. FromTheTop \in Nat \X Nat /\ FromTheTop[1] = 0
  BY DEF FromTheTop
<1>4. EdgeTypeOK'
  BY <1>1, <1>2, <1>3 DEF EdgeInv, EdgeTypeOK, Entry
<1>5. Stamped' /\ CursorsLag'
  BY <1>1, <1>2, <1>3 DEF EdgeInv, Stamped, CursorsLag, Lagging
<1>6. ASSUME NEW k \in Committed
      PROVE  InPlace(k)'
  <2>1. Position(k)' = Position(k) /\ After(Position(k), FromTheTop)
    BY <1>1, TopIsBehind DEF Position, EdgeInv
  <2> QED  BY <1>1, <2>1 DEF InPlace
<1> QED  BY <1>2, <1>4, <1>5, <1>6 DEF EdgeInv

-----------------------------------------------------------------------------
(* The writers.                                                            *)

\* A transaction is as its type says and its stamp is fresh.
LEMMA ChangeTyped ==
    ASSUME EdgeInv, NEW t \in changing
    PROVE  /\ t.stamp \in Nat /\ t.stamp >= 1
           /\ t.new \subseteq Keys /\ t.old \subseteq Committed
  BY DEF EdgeInv, EdgeTypeOK, Stamped, ChangeTx

LEMMA ToggleTyped ==
    ASSUME EdgeInv, NEW t \in toggling
    PROVE  /\ t \in ToggleTx /\ t.stamp \in Nat /\ t.stamp >= 1
           /\ t.org \in Orgs /\ t.enabled \in BOOLEAN /\ t.seen \subseteq Committed
  BY DEF EdgeInv, EdgeTypeOK, Stamped, ToggleTx

\* While the data stay, so does everything that is said about it.
LEMMA DataStay ==
    ASSUME EdgeInv, UNCHANGED <<rows, switch, proxy, overlooked>>
    PROVE  Committed' = Committed /\ \A k \in Committed : InPlace(k)'
<1>1. UNCHANGED <<rows, switch, cache, cursor, answer, overlooked>>
  BY DEF proxy
<1>2. Committed' = Committed
  BY <1>1 DEF Committed
<1>3. ASSUME NEW k \in Committed
      PROVE  InPlace(k)'
  <2>1. /\ Position(k)' = Position(k) /\ Live(k)' = Live(k) /\ Says(k)' = Says(k)
        /\ InPlace(k)
    BY <1>1 DEF Position, Live, Says, EdgeInv
  <2> QED  BY <1>1, <2>1 DEF InPlace, Shown
<1> QED  BY <1>2, <1>3

LEMMA BeginKeeps ==
    ASSUME EdgeInv,
           \/ \E new, old \in SUBSET Keys : BeginChange(new, old)
           \/ \E org \in Orgs, enabled \in BOOLEAN : BeginToggle(org, enabled)
    PROVE  EdgeInv'
<1>1. /\ UNCHANGED <<now, rows, switch, proxy, cache, cursor, answer, overlooked, faults>>
      /\ changes' = changes + 1 /\ changes < MaxChanges
  BY DEF BeginChange, BeginToggle, Begins, proxy
<1>2. Committed' = Committed /\ \A k \in Committed : InPlace(k)'
  BY <1>1, DataStay
<1>3. now \in Nat /\ now >= 1 /\ now - now <= TxTime
  BY DEF EdgeInv, EdgeTypeOK, Stamped
<1>4. ASSUME NEW new \in SUBSET Keys, NEW old \in SUBSET Keys, BeginChange(new, old)
      PROVE  EdgeTypeOK' /\ Stamped'
  <2> DEFINE t == [stamp |-> now, new |-> new, old |-> old]
  <2>1. changing' = changing \cup {t} /\ toggling' = toggling /\ old \subseteq Committed
    BY <1>4 DEF BeginChange
  <2>2. t \in ChangeTx /\ t.stamp = now /\ t.old = old
    BY <1>3 DEF ChangeTx
  <2> HIDE DEF t
  <2>3. EdgeTypeOK'
    <3>1. changing' \subseteq ChangeTx /\ \A u \in changing' : u.old \subseteq Committed'
      BY <1>2, <2>1, <2>2 DEF EdgeInv, EdgeTypeOK
    <3> QED  BY <1>1, <1>2, <2>1, <3>1 DEF EdgeInv, EdgeTypeOK
  <2>4. Stamped'
    BY <1>1, <1>2, <1>3, <2>1, <2>2 DEF EdgeInv, Stamped
  <2> QED  BY <2>3, <2>4
<1>5. ASSUME NEW org \in Orgs, NEW enabled \in BOOLEAN, BeginToggle(org, enabled)
      PROVE  EdgeTypeOK' /\ Stamped'
  <2> DEFINE t == [stamp |-> now, org |-> org, enabled |-> enabled, looked |-> FALSE, seen |-> {}]
  <2>1. toggling' = toggling \cup {t} /\ changing' = changing
    BY <1>5 DEF BeginToggle
  <2>2. t \in ToggleTx /\ t.stamp = now /\ t.seen = {}
    BY <1>3 DEF ToggleTx
  <2> HIDE DEF t
  <2>3. EdgeTypeOK'
    <3>1. toggling' \subseteq ToggleTx /\ \A u \in toggling' : u.seen \subseteq Committed'
      BY <1>2, <2>1, <2>2 DEF EdgeInv, EdgeTypeOK
    <3> QED  BY <1>1, <1>2, <2>1, <3>1 DEF EdgeInv, EdgeTypeOK
  <2>4. Stamped'
    BY <1>1, <1>2, <1>3, <2>1, <2>2 DEF EdgeInv, Stamped
  <2> QED  BY <2>3, <2>4
<1>6. CursorsLag'
  BY <1>1 DEF EdgeInv, CursorsLag, Lagging
<1> QED  BY <1>2, <1>4, <1>5, <1>6 DEF EdgeInv

LEMMA LookKeeps == ASSUME EdgeInv, NEW t \in toggling, Look(t) PROVE EdgeInv'
<1> DEFINE u == [t EXCEPT !.looked = TRUE, !.seen = {k \in Committed : OrgOf[k] = t.org}]
<1>1. /\ UNCHANGED <<now, rows, switch, changing, changes, proxy, cache, cursor, answer,
                     overlooked, faults>>
      /\ toggling' = (toggling \ {t}) \cup {u}
  BY DEF Look, proxy
<1>2. Committed' = Committed /\ \A k \in Committed : InPlace(k)'
  BY <1>1, DataStay
<1>3. u \in ToggleTx /\ u.stamp = t.stamp /\ u.seen \subseteq Committed
  BY ToggleTyped DEF ToggleTx, Committed
<1> HIDE DEF u
<1>4. EdgeTypeOK'
  BY <1>1, <1>2, <1>3 DEF EdgeInv, EdgeTypeOK
<1>5. Stamped' /\ CursorsLag'
  BY <1>1, <1>2, <1>3 DEF EdgeInv, Stamped, CursorsLag, Lagging
<1> QED  BY <1>2, <1>4, <1>5 DEF EdgeInv

LEMMA RollbackKeeps == ASSUME EdgeInv, Rollback PROVE EdgeInv'
<1>1. /\ UNCHANGED <<now, rows, switch, changes, proxy, cache, cursor, answer, overlooked, faults>>
      /\ changing' \subseteq changing /\ toggling' \subseteq toggling
  BY DEF Rollback, proxy
<1>2. Committed' = Committed /\ \A k \in Committed : InPlace(k)'
  BY <1>1, DataStay
<1>3. EdgeTypeOK'
  BY <1>1, <1>2 DEF EdgeInv, EdgeTypeOK
<1>4. Stamped' /\ CursorsLag'
  BY <1>1, <1>2 DEF EdgeInv, Stamped, CursorsLag, Lagging
<1> QED  BY <1>2, <1>3, <1>4 DEF EdgeInv

\* A tick leaves nothing open for longer than TxTime, and cursors fall further back.
LEMMA TickKeeps == ASSUME EdgeInv, Tick PROVE EdgeInv'
<1>1. /\ UNCHANGED <<rows, switch, changing, toggling, changes, proxy, cache, cursor, answer,
                     overlooked, faults>>
      /\ now' = now + 1 /\ now \in Nat
      /\ \A t \in changing \cup toggling : now - t.stamp < TxTime
  BY DEF Tick, database, proxy, EdgeInv, EdgeTypeOK
<1>2. Committed' = Committed /\ \A k \in Committed : InPlace(k)'
  BY <1>1, DataStay
<1>3. EdgeTypeOK'
  BY <1>1, <1>2 DEF EdgeInv, EdgeTypeOK
<1>4. Stamped'
  <2>1. \A t \in changing \cup toggling : t.stamp \in Nat /\ t.stamp >= 1
    BY ChangeTyped, ToggleTyped
  <2> QED  BY <1>1, <1>2, <2>1 DEF EdgeInv, Stamped
<1>5. CursorsLag'
  <2>1. cursor[1] \in Nat /\ (answer # NoAnswer => answer.cursor[1] \in Nat)
    BY AnswerTyped DEF EdgeInv, EdgeTypeOK
  <2> QED  BY <1>1, <2>1 DEF EdgeInv, CursorsLag, Lagging
<1> QED  BY <1>2, <1>3, <1>4, <1>5 DEF EdgeInv

\* What a commit does to the rows, for both kinds of transaction: a row is as it was,
\* or new or rewritten with the transaction's stamp.
RowsMove(t) ==
    /\ rows' \in [Keys -> Row \cup {NoRow}]
    /\ \A k \in Keys :
         \/ rows'[k] = rows[k]
         \/ rows'[k] \in Row /\ rows'[k].created >= 1 /\ Watermark(rows'[k]) >= t.stamp

\* A row that moved is ahead of both cursors.
LEMMA MovedIsAhead ==
    ASSUME EdgeInv, NEW t \in changing \cup toggling, RowsMove(t), UNCHANGED proxy,
           NEW k \in Keys, rows'[k] # rows[k]
    PROVE  InPlace(k)'
<1>1. rows'[k] \in Row /\ Watermark(rows'[k]) >= t.stamp
  BY DEF RowsMove
<1>2. /\ After(<<Watermark(rows'[k]), k>>, cursor)
      /\ answer # NoAnswer => After(<<Watermark(rows'[k]), k>>, answer.cursor)
  BY <1>1, CommittedIsAhead
<1> QED  BY <1>2 DEF InPlace, Position, proxy

\* No row goes, and none gets a stamp out of time.
LEMMA MoveKeepsStamps ==
    ASSUME EdgeInv, NEW t \in changing \cup toggling, RowsMove(t), now' = now,
           changing' \subseteq changing, toggling' \subseteq toggling
    PROVE  Stamped' /\ Committed \subseteq Committed'
<1>1. NoRow \notin Row
  BY DEF Row
<1>2. Committed \subseteq Committed'
  BY <1>1 DEF RowsMove, Committed
<1>3. ASSUME NEW k \in Committed'
      PROVE  rows'[k].created >= 1
  BY <1>3 DEF EdgeInv, RowsMove, Stamped, Committed
<1> QED  BY <1>2, <1>3 DEF EdgeInv, Stamped

LEMMA ChangeKeeps == ASSUME EdgeInv, NEW t \in changing, CommitChange(t) PROVE EdgeInv'
<1>1. /\ UNCHANGED <<now, switch, toggling, changes, proxy, cache, cursor, answer,
                     overlooked, faults>>
      /\ changing' = changing \ {t} /\ rows' = ChangedRows(t)
  BY DEF CommitChange, proxy
<1>2. ASSUME NEW k \in Keys
      PROVE  /\ rows'[k] \in Row \cup {NoRow}
             /\ \/ rows'[k] = rows[k]
                \/ rows'[k] \in Row /\ rows'[k].created >= 1 /\ Watermark(rows'[k]) >= t.stamp
  <2>1. CASE k \in t.new
    <3>1. rows'[k] = [created |-> t.stamp, revoked |-> 0, touched |-> 0]
      BY <1>1, <2>1 DEF ChangedRows
    <3>2. rows'[k] \in Row /\ rows'[k].created = t.stamp
      BY <3>1, ChangeTyped DEF Row
    <3> QED  BY <3>2, ChangeTyped, WatermarkIsLatest
  <2>2. CASE k \notin t.new /\ k \in t.old /\ Live(k)
    <3>1. rows[k] \in Row /\ rows[k].created >= 1
      BY <2>2, ChangeTyped, RowTyped DEF EdgeInv, Stamped
    <3>2. rows'[k] = [rows[k] EXCEPT !.revoked = t.stamp]
      BY <1>1, <2>2 DEF ChangedRows
    <3>3. rows'[k] \in Row /\ rows'[k].created = rows[k].created /\ rows'[k].revoked = t.stamp
      BY <3>1, <3>2, ChangeTyped DEF Row
    <3> QED  BY <3>1, <3>3, WatermarkIsLatest
  <2>3. CASE k \notin t.new /\ ~(k \in t.old /\ Live(k))
    <3>1. rows'[k] = rows[k]
      BY <1>1, <2>3 DEF ChangedRows
    <3> QED  BY <3>1 DEF EdgeInv, EdgeTypeOK
  <2> QED  BY <2>1, <2>2, <2>3
<1>3. RowsMove(t)
  <2>1. rows' = [k \in Keys |-> rows'[k]]
    BY <1>1 DEF ChangedRows
  <2> QED  BY <1>2, <2>1 DEF RowsMove
<1>4. Stamped' /\ Committed \subseteq Committed'
  BY <1>1, <1>3, MoveKeepsStamps
<1>5. EdgeTypeOK'
  BY <1>1, <1>3, <1>4 DEF EdgeInv, EdgeTypeOK, RowsMove
<1>6. CursorsLag'
  BY <1>1 DEF EdgeInv, CursorsLag, Lagging
<1>7. ASSUME NEW k \in Committed'
      PROVE  InPlace(k)'
  <2>1. CASE rows'[k] # rows[k]
    BY <1>1, <1>3, <2>1, MovedIsAhead DEF Committed
  <2>2. CASE rows'[k] = rows[k]
    <3>1. k \in Committed /\ InPlace(k)
      BY <2>2 DEF Committed, EdgeInv
    <3>2. Position(k)' = Position(k) /\ Live(k)' = Live(k) /\ Says(k)' = Says(k)
      BY <1>1, <2>2 DEF Position, Live, Says
    <3> QED  BY <1>1, <3>1, <3>2 DEF InPlace, Shown
  <2> QED  BY <2>1, <2>2
<1> QED  BY <1>4, <1>5, <1>6, <1>7 DEF EdgeInv

\* What a switch does to the keys whose rows stay: it changes what the live ones of
\* its organization say, and those of them that anybody has read are overlooked.
LEMMA ToggleKeepsOthers ==
    ASSUME EdgeInv, NEW t \in toggling, CommitToggle(t),
           NEW k \in Committed, rows'[k] = rows[k]
    PROVE  InPlace(k)'
<1>1. /\ UNCHANGED <<cache, cursor, answer>>
      /\ switch' = [switch EXCEPT ![t.org] = t.enabled] /\ rows' = TouchedRows(t)
      /\ overlooked' = (overlooked \ t.seen) \cup PassedBy(t)
  BY DEF CommitToggle, proxy
<1>2. /\ Position(k)' = Position(k) /\ Live(k)' = Live(k)
      /\ k \in Keys /\ rows[k] \in Row /\ OrgOf[k] \in Orgs /\ InPlace(k)
  BY RowTyped DEF Position, Live, EdgeInv
<1>3. CASE ~Live(k)
  <2>1. Says(k) = "gone" /\ Says(k)' = "gone" /\ ~Live(k)'
    BY <1>2, <1>3 DEF Says
  <2> QED  BY <1>1, <1>2, <1>3, <2>1 DEF InPlace, Shown
<1>4. CASE Live(k) /\ k \in t.seen
  <2>1. rows'[k] = [rows[k] EXCEPT !.touched = t.stamp]
    BY <1>1, <1>2, <1>4 DEF TouchedRows
  <2>2. Watermark(rows'[k]) >= t.stamp /\ rows'[k] \in Row
    BY <1>2, <2>1, ToggleTyped, WatermarkIsLatest DEF Row
  <2>3. /\ After(<<Watermark(rows'[k]), k>>, cursor)
        /\ answer # NoAnswer => After(<<Watermark(rows'[k]), k>>, answer.cursor)
    BY <1>2, <2>2, CommittedIsAhead
  <2> QED  BY <1>1, <2>3 DEF InPlace, Position
<1>5. CASE Live(k) /\ k \notin t.seen /\ OrgOf[k] # t.org
  <2>1. Says(k)' = Says(k)
    BY <1>1, <1>2, <1>5 DEF Says, EdgeInv, EdgeTypeOK
  <2>2. k \in overlooked => k \in overlooked'
    BY <1>1, <1>5
  <2> QED  BY <1>1, <1>2, <2>1, <2>2 DEF InPlace, Shown
<1>6. CASE Live(k) /\ k \notin t.seen /\ OrgOf[k] = t.org
  <2>1. CASE k \in PassedBy(t)
    <3>1. k \in overlooked'
      BY <1>1, <2>1
    <3> QED  BY <1>1, <1>2, <3>1 DEF InPlace, Shown
  <2>2. CASE k \notin PassedBy(t)
    <3>1. After(Position(k), cursor) /\ (answer # NoAnswer => k \notin DOMAIN answer.changes)
      BY <1>6, <2>2 DEF PassedBy
    <3> QED  BY <1>1, <1>2, <3>1 DEF InPlace
  <2> QED  BY <2>1, <2>2
<1> QED  BY <1>3, <1>4, <1>5, <1>6

LEMMA ToggleKeeps == ASSUME EdgeInv, NEW t \in toggling, CommitToggle(t) PROVE EdgeInv'
<1>1. /\ UNCHANGED <<now, changing, changes, proxy, cache, cursor, answer, faults>>
      /\ switch' = [switch EXCEPT ![t.org] = t.enabled]
      /\ toggling' = toggling \ {t} /\ rows' = TouchedRows(t)
      /\ overlooked' = (overlooked \ t.seen) \cup PassedBy(t)
  BY DEF CommitToggle, proxy
<1>2. ASSUME NEW k \in Keys
      PROVE  /\ rows'[k] \in Row \cup {NoRow}
             /\ \/ rows'[k] = rows[k]
                \/ rows'[k] \in Row /\ rows'[k].created >= 1 /\ Watermark(rows'[k]) >= t.stamp
  <2>1. CASE k \in t.seen /\ Live(k)
    <3>1. rows[k] \in Row /\ rows[k].created >= 1
      BY <2>1, ToggleTyped, RowTyped DEF EdgeInv, Stamped
    <3>2. rows'[k] = [rows[k] EXCEPT !.touched = t.stamp]
      BY <1>1, <2>1 DEF TouchedRows
    <3>3. rows'[k] \in Row /\ rows'[k].created = rows[k].created /\ rows'[k].touched = t.stamp
      BY <3>1, <3>2, ToggleTyped DEF Row
    <3> QED  BY <3>1, <3>3, WatermarkIsLatest
  <2>2. CASE ~(k \in t.seen /\ Live(k))
    <3>1. rows'[k] = rows[k]
      BY <1>1, <2>2 DEF TouchedRows
    <3> QED  BY <3>1 DEF EdgeInv, EdgeTypeOK
  <2> QED  BY <2>1, <2>2
<1>3. RowsMove(t)
  <2>1. rows' = [k \in Keys |-> rows'[k]]
    BY <1>1 DEF TouchedRows
  <2> QED  BY <1>2, <2>1 DEF RowsMove
<1>4. Stamped' /\ Committed \subseteq Committed'
  BY <1>1, <1>3, MoveKeepsStamps
<1>5. EdgeTypeOK'
  <2>1. overlooked' \subseteq Committed /\ switch' \in [Orgs -> BOOLEAN]
    BY <1>1, ToggleTyped DEF EdgeInv, EdgeTypeOK, PassedBy
  <2> QED  BY <1>1, <1>3, <1>4, <2>1 DEF EdgeInv, EdgeTypeOK, RowsMove
<1>6. CursorsLag'
  BY <1>1 DEF EdgeInv, CursorsLag, Lagging
<1>7. ASSUME NEW k \in Committed'
      PROVE  InPlace(k)'
  <2>1. CASE rows'[k] # rows[k]
    BY <1>1, <1>3, <2>1, MovedIsAhead DEF Committed
  <2>2. CASE rows'[k] = rows[k]
    BY <2>2, ToggleKeepsOthers DEF Committed
  <2> QED  BY <2>1, <2>2
<1> QED  BY <1>4, <1>5, <1>6, <1>7 DEF EdgeInv

-----------------------------------------------------------------------------
LEMMA InvKept == ASSUME EdgeInv, [Next]_vars PROVE EdgeInv'
<1>1. CASE FeedAnswers \/ Apply \/ PollFails \/ Restart
  BY <1>1, FeedKeeps, ApplyKeeps, PollFailsKeeps, RestartKeeps
<1>2. CASE \/ \E new, old \in SUBSET Keys : BeginChange(new, old)
           \/ \E org \in Orgs, enabled \in BOOLEAN : BeginToggle(org, enabled)
  BY <1>2, BeginKeeps
<1>3. CASE Ends
  BY <1>3, ChangeKeeps, LookKeeps, ToggleKeeps, RollbackKeeps DEF Ends
<1>4. CASE Tick
  BY <1>4, TickKeeps
<1>5. CASE UNCHANGED vars
  <2>1. /\ UNCHANGED <<now, rows, switch, changing, toggling, changes, proxy, cache, cursor,
                       answer, overlooked, faults>>
    BY <1>5 DEF vars, database, proxy
  <2>2. Committed' = Committed /\ \A k \in Committed : InPlace(k)'
    BY <2>1, DataStay
  <2>3. EdgeTypeOK' /\ Stamped' /\ CursorsLag'
    BY <2>1, <2>2 DEF EdgeInv, EdgeTypeOK, Stamped, CursorsLag, Lagging
  <2> QED  BY <2>2, <2>3 DEF EdgeInv
<1> QED  BY <1>1, <1>2, <1>3, <1>4, <1>5 DEF Next

\* Cursors lag behind every open transaction, and pages say what is still true.
THEOREM EdgeInvHolds == Spec => []EdgeInv
<1>1. Init => EdgeInv
  BY InvStarts
<1>2. EdgeInv /\ [Next]_vars => EdgeInv'
  BY InvKept
<1> QED  BY <1>1, <1>2, PTL DEF Spec

\* Between polls that fail, proxies that start over and transactions that commit in any
\* order, no key falls behind the cursor, for every lag above TxTime.
THEOREM KeysNotStrandedHolds == Spec => []KeysNotStranded
<1>1. EdgeInv => KeysNotStranded
  BY DEF EdgeInv, InPlace, Shown, KeysNotStranded
<1> QED  BY <1>1, EdgeInvHolds, PTL

\* Nor does an organization's switch, but on the keys that a change committed too late
\* for the transaction of the switch to see and too early for the feed to wait for it.
THEOREM SwitchNotStrandedHolds == Spec => []SwitchNotStranded
<1>1. EdgeInv => SwitchNotStranded
  BY DEF EdgeInv, InPlace, Shown, SwitchNotStranded
<1> QED  BY <1>1, EdgeInvHolds, PTL
=============================================================================
