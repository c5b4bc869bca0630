------------------------ MODULE BackgroundJobsProofs ------------------------
(***************************************************************************)
(* Proofs about BackgroundJobs, for any replicas, units, series, events,   *)
(* clocks and bounds.                                                      *)
(*                                                                         *)
(* A cycle that asks from some instant on relies on everything before that *)
(* instant being dealt with, and the overlap makes it true of the instant  *)
(* it leaves in the cursor, but for the events its own answer lacked.  A   *)
(* span is doubled only by a body that looked before another one inserted, *)
(* and but for one such bodies are astray.  What a cost job has still to   *)
(* emit comes in turn, so that whatever stops it leaves no hole, and it    *)
(* forgets nothing that is due unless it failed.                           *)
(***************************************************************************)
EXTENDS BackgroundJobs, DataFacts

USE BackgroundJobsConstants

\* What a body carries, by the job it does.
CostFields == {"job", "held", "stage", "newest", "unit", "todo", "due", "failed"}
WindowFields == {"job", "held", "stage"}
FetchFields == {"job", "held", "stage", "since", "until", "missed"}

Shaped(b) ==
    \/ b = Idle
    \/ /\ b.job = "cost" /\ DOMAIN b = CostFields
       /\ b.stage \in {"plan", "check", "insert"}
    \/ /\ b.job = "ingest"
       /\ \/ b.stage = "window" /\ DOMAIN b = WindowFields
          \/ /\ b.stage \in {"fetch", "advance"} /\ DOMAIN b = FetchFields
             /\ b.since \in Int /\ b.until \in Int

BodiesShaped ==
    /\ DOMAIN body = Replicas
    /\ \A r \in Replicas : Shaped(body[r]) /\ (body[r] # Idle => body[r].held \in BOOLEAN)

\* Events that need no more attention.
Done(e) == e \in ingested \cup waived \cup unmapped \cup overlooked

\* What is before the window of a cycle is done, and once it has fetched so is what
\* is before the cursor it will leave, if its answer did not lack it.
CyclesInOrder ==
    \A r \in Replicas :
      /\ At(r, "ingest", "fetch") =>
           /\ body[r].until <= now + Skew[r]
           /\ \A e \in Events : Time[e] < body[r].since => Done(e)
      /\ At(r, "ingest", "advance") =>
           \A e \in Events :
             Time[e] <= NextCursor(body[r].until) => Done(e) \/ e \in body[r].missed

CursorInv ==
    /\ now \in Nat /\ cursor \in Nat \cup {Never}
    /\ BodiesShaped
    /\ CyclesInOrder
    /\ CursorSkipsNothing

\* The bodies that go on without their lock, and those about to insert a given day.
Strays == {r \in Replicas : body[r] # Idle /\ ~body[r].held}
Inserting(s, d) ==
    {r \in Replicas : /\ At(r, "cost", "insert")
                      /\ Head(body[r].todo)[1] = s /\ Head(body[r].todo)[2] = d}

OneHeld ==
    \A r, q \in Replicas :
      body[r].job = "cost" /\ body[q].job = "cost" /\ body[r].held /\ body[q].held => r = q

StraysCounted == IsFiniteSet(Strays) /\ Cardinality(Strays) <= astray /\ astray \in Nat

\* With the inserts that are under way a day has no more spans than bodies that may
\* not have seen one another.
InsertsCounted ==
    \A s \in Series : \A d \in Days :
      /\ IsFiniteSet(Inserting(s, d))
      /\ spans[s][d] + Cardinality(Inserting(s, d)) <= 1 + astray

BilledInv ==
    /\ spans \in [Series -> [Days -> Nat]]
    /\ BodiesShaped
    /\ OneHeld
    /\ StraysCounted
    /\ InsertsCounted

-----------------------------------------------------------------------------
(* The bodies keep their shape.                                            *)

\* A body that becomes b.
Becomes(r, b) ==
    /\ Become(r, b) /\ Shaped(b)
    /\ b # Idle => b.held \in BOOLEAN

\* It is the work of the same body: its lock is where it was.
SameLock(r, b) ==
    b = Idle \/ (body[r] # Idle /\ b.job = body[r].job /\ b.held = body[r].held)

LEMMA OneBecomes ==
    ASSUME BodiesShaped, NEW r \in Replicas, NEW b, Becomes(r, b)
    PROVE  /\ BodiesShaped' /\ body'[r] = b
           /\ \A q \in Replicas \ {r} : body'[q] = body[q]
<1>1. DOMAIN body = Replicas /\ body' = [body EXCEPT ![r] = b]
  BY DEF BodiesShaped, Becomes, Become
<1>2. DOMAIN body' = Replicas /\ body'[r] = b /\ \A q \in Replicas \ {r} : body'[q] = body[q]
  BY <1>1
<1>3. ASSUME NEW q \in Replicas
      PROVE  Shaped(body'[q]) /\ (body'[q] # Idle => body'[q].held \in BOOLEAN)
  <2>1. CASE q = r
    BY <1>2, <2>1 DEF Becomes
  <2>2. CASE q # r
    BY <1>2, <2>2 DEF BodiesShaped
  <2> QED  BY <2>1, <2>2
<1> QED  BY <1>2, <1>3 DEF BodiesShaped

\* The fields of a cost job and of a cycle.
LEMMA CostBody ==
    ASSUME BodiesShaped, NEW r \in Replicas, body[r].job = "cost"
    PROVE  /\ DOMAIN body[r] = CostFields /\ body[r].held \in BOOLEAN /\ body[r] # Idle
           /\ body[r].stage \in {"plan", "check", "insert"}
  BY DEF BodiesShaped, Shaped, Idle

LEMMA IngestBody ==
    ASSUME BodiesShaped, NEW r \in Replicas, body[r].job = "ingest"
    PROVE  /\ body[r].held \in BOOLEAN /\ body[r] # Idle
           /\ body[r].stage \in {"window", "fetch", "advance"}
           /\ body[r].stage = "window" => DOMAIN body[r] = WindowFields
           /\ body[r].stage # "window" =>
                /\ DOMAIN body[r] = FetchFields
                /\ body[r].since \in Int /\ body[r].until \in Int
  BY DEF BodiesShaped, Shaped, Idle

\* A cost job that goes on to another stage, with other things to do.
LEMMA CostGoesOn ==
    ASSUME BodiesShaped, NEW r \in Replicas, body[r].job = "cost",
           NEW b, DOMAIN b = CostFields, b.job = body[r].job, b.held = body[r].held,
           b.stage \in {"plan", "check", "insert"}, Become(r, b)
    PROVE  Becomes(r, b) /\ SameLock(r, b)
<1>1. body[r] # Idle /\ body[r].held \in BOOLEAN
  BY CostBody
<1> QED  BY <1>1 DEF Becomes, SameLock, Shaped

LEMMA IdleBecomes ==
    ASSUME NEW r \in Replicas, Become(r, Idle)
    PROVE  Becomes(r, Idle) /\ SameLock(r, Idle)
  BY DEF Becomes, SameLock, Shaped

LEMMA PlanBecomes ==
    ASSUME BodiesShaped, NEW r \in Replicas, PlanUnit(r)
    PROVE  \E b : Becomes(r, b) /\ SameLock(r, b) /\ b.job = "cost" /\ b.stage = "check"
<1>1. DOMAIN body[r] = CostFields /\ body[r].job = "cost"
  BY CostBody DEF PlanUnit, At
<1>2. PICK todo, due, failed :
        Become(r, [body[r] EXCEPT !.stage = "check", !.todo = todo, !.due = due, !.failed = failed])
  BY DEF PlanUnit
<1> DEFINE b == [body[r] EXCEPT !.stage = "check", !.todo = todo, !.due = due, !.failed = failed]
<1>3. DOMAIN b = CostFields /\ b.job = "cost" /\ b.held = body[r].held /\ b.stage = "check"
  BY <1>1 DEF CostFields
<1> HIDE DEF b
<1>4. Become(r, b)
  BY <1>2 DEF b
<1> QED  BY <1>1, <1>3, <1>4, CostGoesOn

\* The other steps of a cost job that insert nothing and are not about to.
LEMMA CostBecomes ==
    ASSUME BodiesShaped, NEW r \in Replicas,
           NextUnit(r) \/ CostJobEnds(r) \/ (CheckSpan(r) /\ AlreadyThere(Head(body[r].todo)))
    PROVE  \E b : Becomes(r, b) /\ SameLock(r, b) /\ (b = Idle \/ (b.job = "cost" /\ b.stage # "insert"))
<1>0. body[r].job = "cost" /\ body[r].stage \in {"plan", "check"}
  BY DEF NextUnit, CostJobEnds, CheckSpan, At
<1>1. DOMAIN body[r] = CostFields /\ body[r].job = "cost" /\ body[r].stage \in {"plan", "check"}
  BY <1>0, CostBody
<1>2. CASE CostJobEnds(r)
  BY <1>2, IdleBecomes DEF CostJobEnds
<1>3. CASE NextUnit(r)
  <2> DEFINE b == [body[r] EXCEPT !.stage = "plan", !.unit = @ + 1]
  <2>1. DOMAIN b = CostFields /\ b.job = "cost" /\ b.held = body[r].held /\ b.stage = "plan"
    BY <1>1 DEF CostFields
  <2> HIDE DEF b
  <2>2. Become(r, b)
    BY <1>3 DEF NextUnit, b
  <2> QED  BY <1>1, <2>1, <2>2, CostGoesOn
<1>4. CASE CheckSpan(r) /\ AlreadyThere(Head(body[r].todo))
  <2> DEFINE b == [body[r] EXCEPT !.todo = Tail(@)]
  <2>1. DOMAIN b = CostFields /\ b.job = "cost" /\ b.held = body[r].held /\ b.stage \in {"plan", "check"}
    BY <1>1 DEF CostFields
  <2> HIDE DEF b
  <2>2. Become(r, b)
    BY <1>4 DEF CheckSpan, b
  <2> QED  BY <1>1, <2>1, <2>2, CostGoesOn
<1> QED  BY <1>2, <1>3, <1>4

\* A check that finds nothing.
LEMMA CheckBecomes ==
    ASSUME BodiesShaped, NEW r \in Replicas, CheckSpan(r), ~AlreadyThere(Head(body[r].todo))
    PROVE  \E b : /\ Becomes(r, b) /\ SameLock(r, b) /\ b.job = "cost" /\ b.stage = "insert"
                  /\ b.todo = body[r].todo
<1>1. DOMAIN body[r] = CostFields /\ body[r].job = "cost"
  BY CostBody DEF CheckSpan, At
<1> DEFINE b == [body[r] EXCEPT !.stage = "insert"]
<1>2. /\ DOMAIN b = CostFields /\ b.job = "cost" /\ b.held = body[r].held /\ b.stage = "insert"
      /\ b.todo = body[r].todo
  BY <1>1 DEF CostFields
<1> HIDE DEF b
<1>3. Become(r, b)
  BY <1>1 DEF CheckSpan, b
<1> QED  BY <1>1, <1>2, <1>3, CostGoesOn

\* After an insert, done or failed.
LEMMA InsertBecomes ==
    ASSUME BodiesShaped, NEW r \in Replicas, InsertSpan(r) \/ EmitRaises(r)
    PROVE  \E b : Becomes(r, b) /\ SameLock(r, b) /\ b.job = "cost" /\ b.stage # "insert"
<1>1. DOMAIN body[r] = CostFields /\ body[r].job = "cost"
  BY CostBody DEF InsertSpan, EmitRaises, At
<1>2. CASE InsertSpan(r)
  <2> DEFINE b == [body[r] EXCEPT !.stage = "check", !.todo = Tail(@)]
  <2>1. DOMAIN b = CostFields /\ b.job = "cost" /\ b.held = body[r].held /\ b.stage = "check"
    BY <1>1 DEF CostFields
  <2> HIDE DEF b
  <2>2. Become(r, b)
    BY <1>2 DEF InsertSpan, b
  <2> QED  BY <1>1, <2>1, <2>2, CostGoesOn
<1>3. CASE EmitRaises(r)
  <2> DEFINE b == Caught(body[r])
  <2>1. DOMAIN b = CostFields /\ b.job = "cost" /\ b.held = body[r].held /\ b.stage = "plan"
    BY <1>1 DEF CostFields, Caught
  <2>2. Become(r, b)
    BY <1>3 DEF EmitRaises
  <2> HIDE DEF b
  <2> QED  BY <1>1, <2>1, <2>2, CostGoesOn
<1> QED  BY <1>2, <1>3

\* The steps of a cycle.
LEMMA MinOfTwo ==
    ASSUME NEW x \in Int, NEW y \in Int
    PROVE  Min({x, y}) = IF x <= y THEN x ELSE y
<1> DEFINE m == IF x <= y THEN x ELSE y
<1>1. m \in {x, y} /\ \A z \in {x, y} : m <= z
  OBVIOUS
<1>2. ASSUME NEW z \in {x, y}, \A w \in {x, y} : z <= w PROVE z = m
  BY <1>2
<1> HIDE DEF m
<1>3. (CHOOSE z \in {x, y} : \A w \in {x, y} : z <= w) = m
  BY <1>1, <1>2
<1> QED  BY <1>3 DEF Min, m

\* The window a cycle asks for.
LEMMA WindowBecomes ==
    ASSUME BodiesShaped, now \in Nat, cursor \in Nat \cup {Never},
           NEW r \in Replicas, Window(r)
    PROVE  \E since \in Int :
             LET b == [job |-> "ingest", held |-> body[r].held, stage |-> "fetch",
                       since |-> since, until |-> now + Skew[r], missed |-> {}]
             IN  /\ Becomes(r, b) /\ SameLock(r, b)
                 /\ \/ cursor # Never /\ since <= cursor /\ waived' = waived
                    \/ waived' = waived \cup {e \in Events : Time[e] < since}
<1>1. body[r].job = "ingest" /\ body[r].held \in BOOLEAN /\ body[r] # Idle
  BY IngestBody DEF Window, At
<1>2. Skew[r] \in Nat /\ now + Skew[r] \in Int /\ InitialLookback \in Nat
  OBVIOUS
<1> DEFINE B(since) == [job |-> "ingest", held |-> body[r].held, stage |-> "fetch",
                        since |-> since, until |-> now + Skew[r], missed |-> {}]
<1>3. ASSUME NEW since \in Int, Asks(r, since)
      PROVE  Becomes(r, B(since)) /\ SameLock(r, B(since))
  <2> DEFINE b == B(since)
  <2>1. /\ DOMAIN b = FetchFields /\ b.job = "ingest" /\ b.stage = "fetch"
        /\ b.held = body[r].held /\ b.since = since /\ b.until = now + Skew[r]
    BY DEF FetchFields
  <2>2. Become(r, b)
    BY <1>3 DEF Asks, LocalTime
  <2> HIDE DEF b
  <2>3. Becomes(r, b) /\ SameLock(r, b)
    BY <1>1, <1>2, <2>1, <2>2 DEF Becomes, SameLock, Shaped
  <2> QED  BY <2>3 DEF b
<1> HIDE DEF B
<1>4. CASE cursor # Never /\ Asks(r, Min({cursor, LocalTime(r)})) /\ waived' = waived
  <2> DEFINE since == Min({cursor, LocalTime(r)})
  <2>1. since \in Int /\ since <= cursor
    <3>1. cursor \in Int /\ LocalTime(r) \in Int
      BY <1>2, <1>4 DEF LocalTime
    <3>2. since = IF cursor <= LocalTime(r) THEN cursor ELSE LocalTime(r)
      BY <3>1, MinOfTwo
    <3> HIDE DEF since
    <3> QED BY <3>1, <3>2
  <2> HIDE DEF since
  <2>2. Asks(r, since)
    BY <1>4 DEF since
  <2> QED  BY <1>3, <1>4, <2>1, <2>2 DEF B
<1>5. CASE Asks(r, InitialSince(r)) /\ waived' = waived \cup {e \in Events : Time[e] < InitialSince(r)}
  <2> DEFINE since == InitialSince(r)
  <2>1. since \in Int
    BY <1>2 DEF InitialSince, LocalTime
  <2> HIDE DEF since
  <2>2. Asks(r, since) /\ waived' = waived \cup {e \in Events : Time[e] < since}
    BY <1>5 DEF since
  <2> QED  BY <1>3, <2>1, <2>2 DEF B
<1> QED  BY <1>4, <1>5 DEF Window

\* What a fetch has brought, and what it leaves its cycle to miss.
Brought(r, b) ==
    \E seen \in SUBSET Shown(body[r].since, body[r].until) :
      /\ b.missed = Shown(body[r].since, body[r].until) \ seen
      /\ ingested' = ingested \cup (seen \ Unmappable)
      /\ unmapped' = unmapped \cup (seen \cap Unmappable)

LEMMA FetchBecomes ==
    ASSUME BodiesShaped, NEW r \in Replicas, Ingest(r)
    PROVE  \E b : /\ Becomes(r, b) /\ SameLock(r, b) /\ b.job = "ingest" /\ b.stage = "advance"
                  /\ b.until = body[r].until
                  /\ Brought(r, b)
<1>1. /\ DOMAIN body[r] = FetchFields /\ body[r].job = "ingest" /\ body[r].held \in BOOLEAN
      /\ body[r].since \in Int /\ body[r].until \in Int /\ body[r] # Idle
  BY IngestBody DEF Ingest, At
<1>5. PICK shown : shown = Shown(body[r].since, body[r].until)
  OBVIOUS
<1>6. PICK seen \in SUBSET shown :
        /\ ingested' = ingested \cup (seen \ Unmappable)
        /\ unmapped' = unmapped \cup (seen \cap Unmappable)
        /\ Become(r, [body[r] EXCEPT !.stage = "advance", !.missed = shown \ seen])
  BY <1>5 DEF Ingest
<1> DEFINE b == [body[r] EXCEPT !.stage = "advance", !.missed = shown \ seen]
<1>2. /\ DOMAIN b = FetchFields /\ b.job = "ingest" /\ b.held = body[r].held /\ b.stage = "advance"
      /\ b.since = body[r].since /\ b.until = body[r].until /\ b.missed = shown \ seen
  BY <1>1 DEF FetchFields
<1>3. Become(r, b)
  BY <1>6
<1> HIDE DEF b
<1>4. Becomes(r, b) /\ SameLock(r, b)
  BY <1>1, <1>2, <1>3 DEF Becomes, SameLock, Shaped
<1> QED  BY <1>2, <1>4, <1>5, <1>6 DEF Brought

\* A body whose lock is gone is the same body.
LEMMA StrayBecomes ==
    ASSUME BodiesShaped, NEW r \in Replicas, LoseLock(r)
    PROVE  \E b : /\ Becomes(r, b) /\ b # Idle /\ b.held = FALSE
                  /\ \A f \in {"job", "stage"} : b[f] = body[r][f]
                  /\ b.job = "cost" => b.todo = body[r].todo
                  /\ (b.job = "ingest" /\ b.stage # "window") =>
                       /\ b.since = body[r].since /\ b.until = body[r].until
                       /\ b.missed = body[r].missed
<1>1. body[r] # Idle /\ body[r].held
  BY DEF LoseLock
<1> DEFINE b == [body[r] EXCEPT !.held = FALSE]
<1>2. Become(r, b)
  BY DEF LoseLock
<1>3. CASE body[r].job = "cost"
  <2>1. DOMAIN body[r] = CostFields /\ body[r].stage \in {"plan", "check", "insert"}
    BY <1>3, CostBody
  <2>2. /\ DOMAIN b = CostFields /\ b.held = FALSE /\ b.job = "cost"
        /\ b.stage = body[r].stage /\ b.todo = body[r].todo
    BY <1>3, <2>1 DEF CostFields
  <2> HIDE DEF b
  <2>3. b # Idle
    BY <2>2 DEF Idle
  <2> QED  BY <1>2, <1>3, <2>1, <2>2, <2>3 DEF Becomes, Shaped
<1>4. CASE body[r].job = "ingest"
  <2>1. /\ body[r].stage \in {"window", "fetch", "advance"}
        /\ body[r].stage = "window" => DOMAIN body[r] = WindowFields
        /\ body[r].stage # "window" =>
             /\ DOMAIN body[r] = FetchFields
             /\ body[r].since \in Int /\ body[r].until \in Int
    BY <1>4, IngestBody
  <2>2. /\ DOMAIN b = DOMAIN body[r] /\ b.held = FALSE /\ b.job = "ingest"
        /\ b.stage = body[r].stage
        /\ b.stage # "window" => /\ b.since = body[r].since /\ b.until = body[r].until
                                 /\ b.missed = body[r].missed
    BY <1>4, <2>1 DEF WindowFields, FetchFields
  <2> HIDE DEF b
  <2>3. b # Idle
    BY <2>2 DEF Idle
  <2>4. b.stage # "window" => b.since \in Int /\ b.until \in Int
    BY <2>1, <2>2
  <2>5. Becomes(r, b)
    BY <1>2, <2>1, <2>2, <2>4 DEF Becomes, Shaped
  <2> QED  BY <1>4, <2>2, <2>3, <2>5
<1> QED  BY <1>1, <1>3, <1>4 DEF BodiesShaped, Shaped

-----------------------------------------------------------------------------
(* The cursor.                                                             *)

\* Bodies that are at nothing the cursor depends on, the rest being as before.
LEMMA CursorElsewhere ==
    ASSUME CursorInv, UNCHANGED <<now, ingestVars>>, NEW r \in Replicas, NEW b,
           Becomes(r, b), b = Idle \/ b.job = "cost" \/ b.stage = "window"
    PROVE  CursorInv'
<1>1. /\ BodiesShaped' /\ body'[r] = b
      /\ \A q \in Replicas \ {r} : body'[q] = body[q]
  BY OneBecomes DEF CursorInv
<1>2. UNCHANGED <<now, cursor, ingested, waived, unmapped, overlooked>>
  BY DEF ingestVars
<1>3. ASSUME NEW q \in Replicas, At(q, "ingest", "fetch")' \/ At(q, "ingest", "advance")'
      PROVE  q # r /\ body'[q] = body[q]
  <2>1. b.job # "ingest" \/ b.stage \notin {"fetch", "advance"}
    BY DEF Idle
  <2> QED  BY <1>1, <1>3, <2>1 DEF At
<1>4. CyclesInOrder'
  BY <1>2, <1>3 DEF CursorInv, CyclesInOrder, At, Done, NextCursor
<1> QED  BY <1>1, <1>2, <1>4 DEF CursorInv, CursorSkipsNothing

\* A cycle at work that becomes b: what is asked of it alone is enough.
LEMMA CycleGoesOn ==
    ASSUME CursorInv, now' = now, ingested \subseteq ingested', waived \subseteq waived',
           unmapped \subseteq unmapped', overlooked' = overlooked, cursor' = cursor, NEW r \in Replicas, NEW b, Becomes(r, b),
           (b.job = "ingest" /\ b.stage = "fetch") =>
             /\ b.until <= now + Skew[r]
             /\ \A e \in Events : Time[e] < b.since => Done(e)',
           (b.job = "ingest" /\ b.stage = "advance") =>
             \A e \in Events : Time[e] <= NextCursor(b.until) => Done(e)' \/ e \in b.missed
    PROVE  CursorInv'
<1>1. /\ BodiesShaped' /\ body'[r] = b
      /\ \A q \in Replicas \ {r} : body'[q] = body[q]
  BY OneBecomes DEF CursorInv
<1>2. \A e \in Events : Done(e) => Done(e)'
  BY DEF Done
<1>3. ASSUME NEW q \in Replicas
      PROVE  /\ At(q, "ingest", "fetch")' =>
                  /\ body'[q].until <= now' + Skew[q]
                  /\ \A e \in Events : Time[e] < body'[q].since => Done(e)'
             /\ At(q, "ingest", "advance")' =>
                  \A e \in Events :
                    Time[e] <= NextCursor(body'[q].until) => Done(e)' \/ e \in body'[q].missed
  <2>1. CASE q = r
    BY <1>1, <2>1 DEF At
  <2>2. CASE q # r
    BY <1>1, <1>2, <2>2 DEF CursorInv, CyclesInOrder, At
  <2> QED  BY <2>1, <2>2
<1>4. CyclesInOrder'
  BY <1>3 DEF CyclesInOrder, NextCursor
<1>5. CursorSkipsNothing'
  BY <1>2 DEF CursorInv, CursorSkipsNothing, Done
<1> QED  BY <1>1, <1>4, <1>5 DEF CursorInv

LEMMA WindowCursor ==
    ASSUME CursorInv, NEW r \in Replicas, Window(r)
    PROVE  CursorInv'
<1>1. UNCHANGED <<now, cursor, ingested, unmapped, overlooked>> /\ waived \subseteq waived'
  BY DEF Window
<1>2. PICK since \in Int :
        LET b == [job |-> "ingest", held |-> body[r].held, stage |-> "fetch",
                  since |-> since, until |-> now + Skew[r], missed |-> {}]
        IN  /\ Becomes(r, b)
            /\ \/ cursor # Never /\ since <= cursor /\ waived' = waived
               \/ waived' = waived \cup {e \in Events : Time[e] < since}
  BY WindowBecomes DEF CursorInv
<1> DEFINE b == [job |-> "ingest", held |-> body[r].held, stage |-> "fetch",
                 since |-> since, until |-> now + Skew[r], missed |-> {}]
<1>3. b.job = "ingest" /\ b.stage = "fetch" /\ b.since = since /\ b.until = now + Skew[r]
  OBVIOUS
<1>4. ASSUME NEW e \in Events, Time[e] < since PROVE Done(e)'
  <2>1. CASE cursor # Never /\ since <= cursor
    <3>1. Time[e] <= cursor
      BY <1>4, <2>1 DEF CursorInv
    <3> QED  BY <1>1, <2>1, <3>1 DEF CursorInv, CursorSkipsNothing, Done
  <2>2. CASE waived' = waived \cup {f \in Events : Time[f] < since}
    BY <1>4, <2>2 DEF Done
  <2> QED  BY <1>2, <2>1, <2>2
<1>5. b.until <= now + Skew[r]
  BY <1>3 DEF CursorInv
<1>6. Becomes(r, b)
  BY <1>2
<1> HIDE DEF b
<1> QED  BY <1>1, <1>3, <1>4, <1>5, <1>6, CycleGoesOn

\* The overlap: what the provider does not show yet is behind the cursor to come.
LEMMA FetchedInTime ==
    ASSUME CursorInv, NEW r \in Replicas, At(r, "ingest", "fetch"),
           NEW e \in Events, Time[e] <= NextCursor(body[r].until), ~Done(e)
    PROVE  e \in Shown(body[r].since, body[r].until)
<1>1. /\ body[r].until \in Int /\ body[r].since \in Int
      /\ body[r].until <= now + Skew[r] /\ ~(Time[e] < body[r].since)
      /\ now \in Nat
  BY IngestBody DEF CursorInv, CyclesInOrder, At
<1>2. /\ Time[e] \in Nat /\ Lag[e] \in Nat /\ Skew[r] \in Nat /\ Overlap \in Nat
      /\ Lag[e] + Skew[r] <= Overlap
  OBVIOUS
<1>3. Time[e] <= body[r].until - Overlap
  BY DEF NextCursor
<1>4. body[r].since <= Time[e] /\ Time[e] <= body[r].until /\ Time[e] + Lag[e] <= now
  BY <1>1, <1>2, <1>3
<1> QED  BY <1>4 DEF Shown

LEMMA IngestCursor ==
    ASSUME CursorInv, NEW r \in Replicas, Ingest(r)
    PROVE  CursorInv'
<1>1. UNCHANGED <<now, cursor, waived, overlooked>> /\ At(r, "ingest", "fetch")
  BY DEF Ingest
<1>2. PICK b : /\ Becomes(r, b) /\ b.job = "ingest" /\ b.stage = "advance"
               /\ b.until = body[r].until /\ Brought(r, b)
  BY FetchBecomes DEF CursorInv
<1>3. ingested \subseteq ingested' /\ unmapped \subseteq unmapped'
  BY <1>2 DEF Brought
<1>4. ASSUME NEW e \in Events, Time[e] <= NextCursor(b.until)
      PROVE  Done(e)' \/ e \in b.missed
  <2>1. CASE Done(e)
    BY <1>1, <1>3, <2>1 DEF Done
  <2>2. CASE ~Done(e)
    <3>1. e \in Shown(body[r].since, body[r].until)
      BY <1>1, <1>2, <1>4, <2>2, FetchedInTime
    <3>2. e \in ingested' \/ e \in unmapped' \/ e \in b.missed
      BY <1>2, <3>1 DEF Brought
    <3> QED  BY <3>2 DEF Done
  <2> QED  BY <2>1, <2>2
<1> QED  BY <1>1, <1>2, <1>3, <1>4, CycleGoesOn

LEMMA AdvanceCursor ==
    ASSUME CursorInv, NEW r \in Replicas, Advance(r)
    PROVE  CursorInv'
<1>1. /\ UNCHANGED <<now, ingested, waived, unmapped>>
      /\ At(r, "ingest", "advance") /\ Become(r, Idle)
      /\ \/ /\ cursor' = Advanced(body[r].until)
            /\ overlooked' = overlooked \cup {e \in body[r].missed : Time[e] <= cursor'}
         \/ UNCHANGED <<cursor, overlooked>>
  BY DEF Advance
<1>2. /\ BodiesShaped' /\ body'[r] = Idle
      /\ \A q \in Replicas \ {r} : body'[q] = body[q]
  BY <1>1, IdleBecomes, OneBecomes DEF CursorInv
<1>3. body[r].until \in Int /\ NextCursor(body[r].until) \in Int /\ Overlap \in Nat
  BY <1>1, IngestBody DEF CursorInv, At, NextCursor
<1>4. \/ cursor' = cursor
      \/ /\ cursor' = NextCursor(body[r].until) /\ cursor' > cursor
         /\ \A e \in body[r].missed : Time[e] <= cursor' => e \in overlooked'
  <2>1. CASE UNCHANGED cursor
    BY <2>1
  <2>2. CASE cursor' # cursor
    <3>1. /\ cursor' = Advanced(body[r].until)
          /\ overlooked' = overlooked \cup {e \in body[r].missed : Time[e] <= cursor'}
      BY <1>1, <2>2
    <3>2. cursor' = NextCursor(body[r].until) /\ cursor' > cursor
      BY <2>2, <3>1 DEF Advanced
    <3>3. \A e \in body[r].missed : Time[e] <= cursor' => e \in overlooked'
      BY <3>1
    <3> QED BY <3>2, <3>3
  <2> QED BY <2>1, <2>2
<1>5. cursor' \in Nat \cup {Never}
  BY <1>3, <1>4 DEF CursorInv, Never
<1>6. \A e \in Events :
        Time[e] <= NextCursor(body[r].until) => Done(e) \/ e \in body[r].missed
  BY <1>1 DEF CursorInv, CyclesInOrder
<1>9. overlooked \subseteq overlooked' /\ \A e \in Events : Done(e) => Done(e)'
  BY <1>1 DEF Done
<1>7. CursorSkipsNothing'
  <2> SUFFICES ASSUME NEW e \in Events, cursor' # Never, Time[e] <= cursor' PROVE Done(e)'
    BY DEF CursorSkipsNothing, Done
  <2>1. CASE cursor' = cursor
    BY <1>9, <2>1 DEF CursorInv, CursorSkipsNothing, Done
  <2>2. CASE cursor' # cursor
    <3>1. Done(e) \/ e \in overlooked'
      BY <1>4, <1>6, <2>2
    <3> QED  BY <1>9, <3>1 DEF Done
  <2> QED  BY <2>1, <2>2
<1>8. CyclesInOrder'
  <2>1. ASSUME NEW q \in Replicas, At(q, "ingest", "fetch")' \/ At(q, "ingest", "advance")'
        PROVE  body'[q] = body[q]
    BY <1>2, <2>1 DEF At, Idle
  <2> QED  BY <1>1, <1>9, <2>1 DEF CursorInv, CyclesInOrder, At, NextCursor
<1> QED  BY <1>1, <1>2, <1>5, <1>7, <1>8 DEF CursorInv

LEMMA StrayCursor ==
    ASSUME CursorInv, NEW r \in Replicas, LoseLock(r)
    PROVE  CursorInv'
<1>1. UNCHANGED <<now, cursor, ingested, waived, unmapped, overlooked>>
  BY DEF LoseLock, ingestVars
<1>2. PICK b : /\ Becomes(r, b) /\ b.job = body[r].job /\ b.stage = body[r].stage
               /\ (b.job = "ingest" /\ b.stage # "window") =>
                     /\ b.since = body[r].since /\ b.until = body[r].until
                     /\ b.missed = body[r].missed
  BY StrayBecomes DEF CursorInv
<1>3. (b.job = "ingest" /\ b.stage = "fetch") =>
        /\ b.until <= now + Skew[r]
        /\ \A e \in Events : Time[e] < b.since => Done(e)'
  <2> SUFFICES ASSUME b.job = "ingest", b.stage = "fetch"
               PROVE  /\ b.until <= now + Skew[r]
                      /\ \A e \in Events : Time[e] < b.since => Done(e)'
    OBVIOUS
  <2>1. b.since = body[r].since /\ b.until = body[r].until /\ At(r, "ingest", "fetch")
    BY <1>2 DEF At
  <2> QED  BY <1>1, <2>1 DEF CursorInv, CyclesInOrder, Done
<1>4. (b.job = "ingest" /\ b.stage = "advance") =>
        \A e \in Events : Time[e] <= NextCursor(b.until) => Done(e)' \/ e \in b.missed
  <2> SUFFICES ASSUME b.job = "ingest", b.stage = "advance"
               PROVE  \A e \in Events :
                        Time[e] <= NextCursor(b.until) => Done(e)' \/ e \in b.missed
    OBVIOUS
  <2>1. /\ b.until = body[r].until /\ b.missed = body[r].missed
        /\ At(r, "ingest", "advance")
    BY <1>2 DEF At
  <2> QED  BY <1>1, <2>1 DEF CursorInv, CyclesInOrder, Done
<1> QED  BY <1>1, <1>2, <1>3, <1>4, CycleGoesOn

\* A body that begins holds its lock, and is at its first stage.
LEMMA BeginBecomes ==
    ASSUME BodiesShaped, NEW r \in Replicas, NEW job \in {"cost", "ingest"}, Begin(r, job)
    PROVE  \E b : /\ Becomes(r, b) /\ b # Idle /\ b.job = job /\ b.held
                  /\ b.stage = IF job = "cost" THEN "plan" ELSE "window"
<1>1. CASE job = "cost"
  <2> DEFINE b == [job |-> "cost", held |-> TRUE, stage |-> "plan", newest |-> TargetDay,
                   unit |-> 1, todo |-> <<>>, due |-> {}, failed |-> FALSE]
  <2>1. DOMAIN b = CostFields /\ b.job = "cost" /\ b.held = TRUE /\ b.stage = "plan"
    BY DEF CostFields
  <2>2. Become(r, b)
    BY <1>1 DEF Begin
  <2> HIDE DEF b
  <2>3. b # Idle
    BY <2>1 DEF Idle
  <2> QED  BY <1>1, <2>1, <2>2, <2>3 DEF Becomes, Shaped
<1>2. CASE job = "ingest"
  <2> DEFINE b == [job |-> "ingest", held |-> TRUE, stage |-> "window"]
  <2>1. DOMAIN b = WindowFields /\ b.job = "ingest" /\ b.held = TRUE /\ b.stage = "window"
    BY DEF WindowFields
  <2>2. Become(r, b)
    BY <1>2 DEF Begin
  <2> HIDE DEF b
  <2>3. b # Idle
    BY <2>1 DEF Idle
  <2> QED  BY <1>2, <2>1, <2>2, <2>3 DEF Becomes, Shaped
<1> QED  BY <1>1, <1>2

\* The steps that are none of a cycle's own.
LEMMA OtherCursor ==
    ASSUME CursorInv, NEW r \in Replicas,
           \/ \E job \in {"cost", "ingest"} : Begin(r, job)
           \/ PlanUnit(r) \/ CheckSpan(r) \/ InsertSpan(r) \/ EmitRaises(r)
           \/ NextUnit(r) \/ CostJobEnds(r) \/ Crash(r)
    PROVE  CursorInv'
<1>1. BodiesShaped
  BY DEF CursorInv
<1>2. UNCHANGED <<now, ingestVars>>
  BY Zenon DEF Begin, PlanUnit, CheckSpan, InsertSpan, EmitRaises, NextUnit, CostJobEnds, Crash
<1>3. \E b : Becomes(r, b) /\ (b = Idle \/ b.job = "cost" \/ b.stage = "window")
  <2>1. CASE \E job \in {"cost", "ingest"} : Begin(r, job)
    BY <1>1, <2>1, BeginBecomes
  <2>2. CASE PlanUnit(r)
    BY <1>1, <2>2, PlanBecomes
  <2>3. CASE NextUnit(r) \/ CostJobEnds(r)
    BY <1>1, <2>3, CostBecomes
  <2>4. CASE CheckSpan(r)
    BY <1>1, <2>4, CostBecomes, CheckBecomes
  <2>5. CASE InsertSpan(r) \/ EmitRaises(r)
    BY <1>1, <2>5, InsertBecomes
  <2>6. CASE Crash(r)
    BY <2>6, IdleBecomes DEF Crash
  <2> QED  BY <2>1, <2>2, <2>3, <2>4, <2>5, <2>6
<1> QED  BY <1>2, <1>3, CursorElsewhere

LEMMA FailedCursor ==
    ASSUME CursorInv, NEW r \in Replicas, IngestFails(r)
    PROVE  CursorInv'
<1>1. UNCHANGED <<now, cursor, waived, unmapped, overlooked>> /\ Become(r, Idle)
      /\ ingested \subseteq ingested'
  BY DEF IngestFails, GiveUp
<1>2. Becomes(r, Idle) /\ Idle.job = "none"
  BY <1>1, IdleBecomes DEF Idle
<1> QED  BY <1>1, <1>2, CycleGoesOn

LEMMA CursorStep == ASSUME CursorInv, [Next]_vars PROVE CursorInv'
<1>1. CASE Tick
  <2>1. now' = now + 1 /\ UNCHANGED <<body, cursor, ingested, waived, unmapped, overlooked>>
    BY <1>1 DEF Tick, ingestVars
  <2>2. now \in Nat /\ BodiesShaped
    BY DEF CursorInv
  <2>3. ASSUME NEW r \in Replicas, At(r, "ingest", "fetch")'
        PROVE  body'[r].until <= now' + Skew[r]
    <3>1. At(r, "ingest", "fetch") /\ body'[r] = body[r]
      BY <2>1, <2>3 DEF At
    <3>2. body[r].until \in Int /\ Skew[r] \in Nat /\ body[r].until <= now + Skew[r]
      BY <2>2, <3>1, IngestBody DEF CursorInv, CyclesInOrder, At
    <3> QED  BY <2>1, <2>2, <3>1, <3>2
  <2>4. CyclesInOrder'
    BY <2>1, <2>3 DEF CursorInv, CyclesInOrder, At, Done, NextCursor
  <2>5. BodiesShaped' /\ CursorSkipsNothing' /\ now' \in Nat /\ cursor' \in Nat \cup {Never}
    BY <2>1, <2>2 DEF CursorInv, BodiesShaped, CursorSkipsNothing
  <2> QED  BY <2>4, <2>5 DEF CursorInv
<1>2. CASE UNCHANGED vars
  <2>1. UNCHANGED <<now, body, cursor, ingested, waived, unmapped, overlooked>>
    BY <1>2 DEF vars, ingestVars
  <2> QED  BY <2>1 DEF CursorInv, BodiesShaped, CyclesInOrder, CursorSkipsNothing, At, Done, NextCursor
<1>3. ASSUME NEW r \in Replicas,
             \/ \E job \in {"cost", "ingest"} : Begin(r, job)
             \/ PlanUnit(r) \/ CheckSpan(r) \/ InsertSpan(r) \/ EmitRaises(r)
             \/ NextUnit(r) \/ CostJobEnds(r)
             \/ Window(r) \/ Ingest(r) \/ IngestFails(r) \/ Advance(r)
             \/ Crash(r) \/ LoseLock(r)
      PROVE  CursorInv'
  BY <1>3, OtherCursor, WindowCursor, IngestCursor, FailedCursor, AdvanceCursor, StrayCursor
<1> QED  BY <1>1, <1>2, <1>3 DEF Next

LEMMA ShapedAtStart == Init => BodiesShaped
  BY DEF Init, BodiesShaped, Shaped

LEMMA CursorStart == Init => CursorInv
<1> SUFFICES ASSUME Init PROVE CursorInv
  OBVIOUS
<1>1. now \in Nat /\ cursor = Never
  BY DEF Init
<1>2. CyclesInOrder
  BY DEF Init, CyclesInOrder, At, Idle
<1> QED  BY <1>1, <1>2, ShapedAtStart DEF CursorInv, CursorSkipsNothing

\* An event behind the cursor was stored, or counted as failed to map, or given up by
\* design, or lacking in the answer of the cycle that moved the cursor past it: so it
\* is however late the provider shows it within the overlap, however the replicas'
\* clocks differ, whatever else fails or overlaps.
THEOREM CursorSkipsNothingHolds == Spec => []CursorSkipsNothing
<1>1. Init => CursorInv
  BY CursorStart
<1>2. CursorInv /\ [Next]_vars => CursorInv'
  BY CursorStep
<1>3. CursorInv => CursorSkipsNothing
  BY DEF CursorInv
<1> QED  BY <1>1, <1>2, <1>3, PTL DEF Spec

-----------------------------------------------------------------------------
(* The billed days.                                                        *)

\* The cost jobs at work are few: the strays, and one more.
CostBodies == {r \in Replicas : body[r].job = "cost"}

LEMMA FewCostBodies ==
    ASSUME BilledInv
    PROVE  /\ IsFiniteSet(CostBodies)
           /\ Cardinality(CostBodies) \in Nat /\ Cardinality(CostBodies) <= 1 + astray
<1>1. /\ IsFiniteSet(Strays) /\ Cardinality(Strays) <= astray /\ astray \in Nat
      /\ Cardinality(Strays) \in Nat
  BY FS_CardinalityType DEF BilledInv, StraysCounted
<1>2. ASSUME NEW r \in CostBodies PROVE body[r] # Idle /\ body[r].held \in BOOLEAN
  BY CostBody DEF BilledInv, CostBodies
<1>3. CASE \E h \in CostBodies : body[h].held
  <2>1. PICK h \in CostBodies : body[h].held
    BY <1>3
  <2>2. CostBodies \subseteq Strays \cup {h}
    BY <1>2, <2>1 DEF CostBodies, Strays, BilledInv, OneHeld
  <2>3. IsFiniteSet(Strays \cup {h}) /\ Cardinality(Strays \cup {h}) <= 1 + astray
    <3>1. /\ IsFiniteSet(Strays \cup {h})
          /\ Cardinality(Strays \cup {h}) = IF h \in Strays THEN Cardinality(Strays)
                                             ELSE Cardinality(Strays) + 1
      BY <1>1, FS_AddElement, Zenon
    <3> QED  BY <1>1, <3>1
  <2>4. /\ IsFiniteSet(CostBodies) /\ Cardinality(CostBodies) \in Nat
        /\ Cardinality(CostBodies) <= Cardinality(Strays \cup {h})
        /\ Cardinality(Strays \cup {h}) \in Nat
    BY <2>2, <2>3, FS_Subset, FS_CardinalityType
  <2> QED  BY <1>1, <2>3, <2>4
<1>4. CASE ~\E h \in CostBodies : body[h].held
  <2>1. CostBodies \subseteq Strays
    BY <1>2, <1>4 DEF CostBodies, Strays
  <2>2. /\ IsFiniteSet(CostBodies) /\ Cardinality(CostBodies) \in Nat
        /\ Cardinality(CostBodies) <= Cardinality(Strays)
    BY <1>1, <2>1, FS_Subset, FS_CardinalityType
  <2> QED  BY <1>1, <2>2
<1> QED  BY <1>3, <1>4

\* Counts of what was, and of what is no more than that.
LEMMA CountOfFewer ==
    ASSUME NEW S, IsFiniteSet(S), NEW T, T \subseteq S
    PROVE  /\ IsFiniteSet(T) /\ Cardinality(T) \in Nat /\ Cardinality(S) \in Nat
           /\ Cardinality(T) <= Cardinality(S)
  BY FS_Subset, FS_CardinalityType

\* The same body goes on: what is known of locks stays true.
LEMMA LocksStay ==
    ASSUME BilledInv, NEW r \in Replicas, NEW b, Becomes(r, b), SameLock(r, b), astray' = astray
    PROVE  OneHeld' /\ StraysCounted' /\ BodiesShaped' /\ CostBodies' \subseteq CostBodies
<1>1. /\ BodiesShaped' /\ body'[r] = b
      /\ \A q \in Replicas \ {r} : body'[q] = body[q]
  BY OneBecomes DEF BilledInv
<1>2. Idle.job = "none"
  BY DEF Idle
<1>3. OneHeld'
  BY <1>1, <1>2 DEF BilledInv, OneHeld, SameLock
<1>4. Strays' \subseteq Strays
  BY <1>1 DEF Strays, SameLock
<1>5. StraysCounted'
  BY <1>4, CountOfFewer DEF BilledInv, StraysCounted
<1>6. CostBodies' \subseteq CostBodies
  BY <1>1, <1>2 DEF CostBodies, SameLock
<1> QED  BY <1>1, <1>3, <1>5, <1>6

\* A body that is not about to insert afterwards leaves the other inserts as they are.
LEMMA InsertsLeft ==
    ASSUME BodiesShaped, NEW r \in Replicas, NEW b, Becomes(r, b),
           b.job # "cost" \/ b.stage # "insert", NEW s, NEW d
    PROVE  Inserting(s, d)' \subseteq Inserting(s, d) \ {r}
<1>1. /\ body'[r] = b /\ \A q \in Replicas \ {r} : body'[q] = body[q]
  BY OneBecomes
<1> QED  BY <1>1 DEF Inserting, At

LEMMA FewerInserts ==
    ASSUME BilledInv, spans' = spans, astray' \in Nat, astray' >= astray,
           \A s \in Series : \A d \in Days : Inserting(s, d)' \subseteq Inserting(s, d)
    PROVE  InsertsCounted'
<1> SUFFICES ASSUME NEW s \in Series, NEW d \in Days
             PROVE  /\ IsFiniteSet(Inserting(s, d)')
                    /\ spans[s][d] + Cardinality(Inserting(s, d)') <= 1 + astray'
  BY DEF InsertsCounted
<1>1. /\ IsFiniteSet(Inserting(s, d)) /\ spans[s][d] \in Nat /\ astray \in Nat
      /\ spans[s][d] + Cardinality(Inserting(s, d)) <= 1 + astray
  BY DEF BilledInv, InsertsCounted, StraysCounted
<1>2. /\ IsFiniteSet(Inserting(s, d)')
      /\ Cardinality(Inserting(s, d)') <= Cardinality(Inserting(s, d))
      /\ Cardinality(Inserting(s, d)') \in Nat /\ Cardinality(Inserting(s, d)) \in Nat
  BY <1>1, CountOfFewer
<1> QED  BY <1>1, <1>2

LEMMA QuietBilled ==
    ASSUME BilledInv, UNCHANGED <<spans, astray>>, NEW r \in Replicas, NEW b,
           Becomes(r, b), SameLock(r, b), b.job # "cost" \/ b.stage # "insert"
    PROVE  BilledInv'
<1>1. OneHeld' /\ StraysCounted' /\ BodiesShaped'
  BY LocksStay
<1>2. \A s \in Series : \A d \in Days : Inserting(s, d)' \subseteq Inserting(s, d)
  BY InsertsLeft DEF BilledInv
<1>3. InsertsCounted'
  BY <1>2, FewerInserts DEF BilledInv, StraysCounted
<1> QED  BY <1>1, <1>3 DEF BilledInv

\* A look that finds nothing: the day has no span yet, and its inserts are cost jobs.
LEMMA CheckBilled ==
    ASSUME BilledInv, NEW r \in Replicas, CheckSpan(r), ~AlreadyThere(Head(body[r].todo))
    PROVE  BilledInv'
<1>1. UNCHANGED <<spans, astray>>
  BY DEF CheckSpan, costVars
<1>2. PICK b : /\ Becomes(r, b) /\ SameLock(r, b) /\ b.job = "cost" /\ b.stage = "insert"
               /\ b.todo = body[r].todo
  BY CheckBecomes DEF BilledInv
<1>3. OneHeld' /\ StraysCounted' /\ BodiesShaped' /\ CostBodies' \subseteq CostBodies
  BY <1>1, <1>2, LocksStay
<1>4. body'[r] = b /\ \A q \in Replicas \ {r} : body'[q] = body[q]
  BY <1>2, OneBecomes DEF BilledInv
<1>5. ASSUME NEW s \in Series, NEW d \in Days
      PROVE  /\ IsFiniteSet(Inserting(s, d)')
             /\ spans'[s][d] + Cardinality(Inserting(s, d)') <= 1 + astray'
  <2>1. /\ IsFiniteSet(Inserting(s, d)) /\ spans[s][d] \in Nat /\ astray \in Nat
        /\ spans[s][d] + Cardinality(Inserting(s, d)) <= 1 + astray
    BY DEF BilledInv, InsertsCounted, StraysCounted
  <2>2. CASE Head(body[r].todo)[1] = s /\ Head(body[r].todo)[2] = d
    <3>1. spans[s][d] = 0
      BY <2>1, <2>2 DEF AlreadyThere, Billed
    <3>2. Inserting(s, d)' \subseteq CostBodies
      BY <1>3 DEF Inserting, CostBodies, At
    <3>3. /\ IsFiniteSet(Inserting(s, d)') /\ Cardinality(Inserting(s, d)') \in Nat
          /\ Cardinality(Inserting(s, d)') <= 1 + astray
      BY <2>1, <3>2, FewCostBodies, CountOfFewer
    <3> QED  BY <1>1, <2>1, <3>1, <3>3
  <2>3. CASE ~(Head(body[r].todo)[1] = s /\ Head(body[r].todo)[2] = d)
    <3>1. Inserting(s, d)' \subseteq Inserting(s, d)
      BY <1>2, <1>4, <2>3 DEF Inserting, At
    <3>2. /\ IsFiniteSet(Inserting(s, d)') /\ Cardinality(Inserting(s, d)') \in Nat
          /\ Cardinality(Inserting(s, d)') <= Cardinality(Inserting(s, d))
          /\ Cardinality(Inserting(s, d)) \in Nat
      BY <2>1, <3>1, CountOfFewer
    <3> QED  BY <1>1, <2>1, <3>2
  <2> QED  BY <2>2, <2>3
<1> QED  BY <1>1, <1>3, <1>5 DEF BilledInv, InsertsCounted

\* An insert is one span more and one body about to insert less.
LEMMA InsertBilled ==
    ASSUME BilledInv, NEW r \in Replicas, InsertSpan(r) \/ EmitRaises(r)
    PROVE  BilledInv'
<1>1. astray' = astray
  BY DEF InsertSpan, EmitRaises
<1>2. PICK b : /\ Becomes(r, b) /\ SameLock(r, b) /\ b.job = "cost" /\ b.stage # "insert"
  BY InsertBecomes DEF BilledInv
<1>3. OneHeld' /\ StraysCounted' /\ BodiesShaped'
  BY <1>1, <1>2, LocksStay
<1>4. \A s \in Series : \A d \in Days : Inserting(s, d)' \subseteq Inserting(s, d) \ {r}
  BY <1>2, InsertsLeft DEF BilledInv
<1>5. CASE spans' = spans
  <2>1. InsertsCounted'
    BY <1>1, <1>4, <1>5, FewerInserts DEF BilledInv, StraysCounted
  <2> QED  BY <1>3, <1>5, <2>1 DEF BilledInv
<1>6. CASE At(r, "cost", "insert") /\ spans' = Inserted(Head(body[r].todo))
  <2> DEFINE x == Head(body[r].todo)
  <2>1. /\ spans \in [Series -> [Days -> Nat]]
        /\ spans' = [spans EXCEPT ![x[1]][x[2]] = @ + 1]
    BY <1>6 DEF BilledInv, Inserted
  <2>2. At(r, "cost", "insert")
    BY <1>6
  <2> HIDE DEF x
  <2>3. spans' \in [Series -> [Days -> Nat]]
    <3>1. CASE x[1] \in Series
      <4> DEFINE row == [spans[x[1]] EXCEPT ![x[2]] = @ + 1]
      <4>1. spans[x[1]] \in [Days -> Nat]
        BY <2>1, <3>1
      <4>2. row \in [Days -> Nat]
        <5> DEFINE f == spans[x[1]]
        <5>1. f \in [Days -> Nat]
          BY <4>1
        <5> HIDE DEF f
        <5>2. CASE x[2] \in Days
          <6>1. f[x[2]] + 1 \in Nat
            BY <5>1, <5>2
          <6>2. [f EXCEPT ![x[2]] = f[x[2]] + 1] \in [Days -> Nat]
            BY <5>1, <6>1
          <6> QED  BY <6>2 DEF f
        <5>3. CASE x[2] \notin Days
          <6>1. [f EXCEPT ![x[2]] = f[x[2]] + 1] = f
            BY <5>1, <5>3
          <6> QED  BY <5>1, <6>1 DEF f
        <5> QED  BY <5>2, <5>3
      <4>3. spans' = [spans EXCEPT ![x[1]] = row]
        BY <2>1
      <4> HIDE DEF row
      <4> QED  BY <2>1, <4>2, <4>3
    <3>2. CASE x[1] \notin Series
      <4>1. spans' = spans
        BY <2>1, <3>2
      <4> QED  BY <2>1, <4>1
    <3> QED  BY <3>1, <3>2
  <2>4. ASSUME NEW s \in Series, NEW d \in Days
        PROVE  /\ IsFiniteSet(Inserting(s, d)')
               /\ spans'[s][d] + Cardinality(Inserting(s, d)') <= 1 + astray'
    <3>1. /\ IsFiniteSet(Inserting(s, d)) /\ spans[s][d] \in Nat /\ astray \in Nat
          /\ spans[s][d] + Cardinality(Inserting(s, d)) <= 1 + astray
          /\ Cardinality(Inserting(s, d)) \in Nat
      BY FS_CardinalityType DEF BilledInv, InsertsCounted, StraysCounted
    <3>2. /\ IsFiniteSet(Inserting(s, d) \ {r})
          /\ Cardinality(Inserting(s, d) \ {r}) =
               IF r \in Inserting(s, d) THEN Cardinality(Inserting(s, d)) - 1
               ELSE Cardinality(Inserting(s, d))
      BY <3>1, FS_RemoveElement
    <3>3. /\ IsFiniteSet(Inserting(s, d)') /\ Cardinality(Inserting(s, d)') \in Nat
          /\ Cardinality(Inserting(s, d)') <= Cardinality(Inserting(s, d) \ {r})
          /\ Cardinality(Inserting(s, d) \ {r}) \in Nat
      BY <1>4, <3>2, CountOfFewer
    <3>4. CASE x[1] = s /\ x[2] = d
      <4>1. r \in Inserting(s, d)
        BY <2>2, <3>4 DEF Inserting, x
      <4>2. spans'[s][d] = spans[s][d] + 1
        BY <2>1, <3>4
      <4> QED  BY <1>1, <3>1, <3>2, <3>3, <4>1, <4>2
    <3>5. CASE ~(x[1] = s /\ x[2] = d)
      <4>1. spans'[s][d] = spans[s][d]
        BY <2>1, <3>5
      <4> QED  BY <1>1, <3>1, <3>2, <3>3, <4>1
    <3> QED  BY <3>4, <3>5
  <2> QED  BY <1>3, <2>3, <2>4 DEF BilledInv, InsertsCounted
<1> QED  BY <1>5, <1>6 DEF InsertSpan, EmitRaises, costVars

\* One more body, that has not looked yet.
LEMMA BeginBilled ==
    ASSUME BilledInv, NEW r \in Replicas, NEW job \in {"cost", "ingest"}, Begin(r, job)
    PROVE  BilledInv'
<1>1. UNCHANGED <<spans, astray>> /\ body[r] = Idle /\ ~Protected(job)
  BY DEF Begin, costVars
<1>2. PICK b : /\ Becomes(r, b) /\ b # Idle /\ b.job = job /\ b.held
               /\ b.stage = IF job = "cost" THEN "plan" ELSE "window"
  BY BeginBecomes DEF BilledInv
<1>3. /\ BodiesShaped' /\ body'[r] = b /\ \A q \in Replicas \ {r} : body'[q] = body[q]
  BY <1>2, OneBecomes DEF BilledInv
<1>4. OneHeld'
  <2>1. ASSUME NEW q \in Replicas \ {r}, b.job = "cost", body'[q].job = "cost", body'[q].held
        PROVE  FALSE
    BY <1>1, <1>2, <1>3, <2>1 DEF Protected
  <2> QED  BY <1>3, <2>1 DEF BilledInv, OneHeld
<1>5. Strays' \subseteq Strays
  BY <1>2, <1>3 DEF Strays
<1>6. StraysCounted'
  BY <1>1, <1>5, CountOfFewer DEF BilledInv, StraysCounted
<1>7. \A s \in Series : \A d \in Days : Inserting(s, d)' \subseteq Inserting(s, d)
  BY <1>2, InsertsLeft DEF BilledInv
<1>8. InsertsCounted'
  BY <1>1, <1>7, FewerInserts DEF BilledInv, StraysCounted
<1> QED  BY <1>1, <1>3, <1>4, <1>6, <1>8 DEF BilledInv

\* One more stray.
LEMMA StrayBilled ==
    ASSUME BilledInv, NEW r \in Replicas, LoseLock(r)
    PROVE  BilledInv'
<1>1. spans' = spans /\ astray' = astray + 1
  BY DEF LoseLock, costVars
<1>2. PICK b : /\ Becomes(r, b) /\ b # Idle /\ b.held = FALSE
               /\ b.job = body[r].job /\ b.stage = body[r].stage
               /\ b.job = "cost" => b.todo = body[r].todo
  BY StrayBecomes DEF BilledInv
<1>3. /\ BodiesShaped' /\ body'[r] = b /\ \A q \in Replicas \ {r} : body'[q] = body[q]
  BY <1>2, OneBecomes DEF BilledInv
<1>4. OneHeld'
  BY <1>2, <1>3 DEF BilledInv, OneHeld
<1>5. Strays' \subseteq Strays \cup {r}
  BY <1>3 DEF Strays
<1>6. StraysCounted'
  <2>1. IsFiniteSet(Strays) /\ Cardinality(Strays) <= astray /\ astray \in Nat
        /\ Cardinality(Strays) \in Nat
    BY FS_CardinalityType DEF BilledInv, StraysCounted
  <2>2. IsFiniteSet(Strays \cup {r}) /\ Cardinality(Strays \cup {r}) <= astray + 1
    <3>1. /\ IsFiniteSet(Strays \cup {r})
          /\ Cardinality(Strays \cup {r}) = IF r \in Strays THEN Cardinality(Strays)
                                             ELSE Cardinality(Strays) + 1
      BY <2>1, FS_AddElement, Zenon
    <3> QED  BY <2>1, <3>1
  <2>3. /\ IsFiniteSet(Strays') /\ Cardinality(Strays') <= Cardinality(Strays \cup {r})
        /\ Cardinality(Strays') \in Nat /\ Cardinality(Strays \cup {r}) \in Nat
    BY <1>5, <2>2, CountOfFewer
  <2> QED  BY <1>1, <2>1, <2>2, <2>3 DEF StraysCounted
<1>7. ASSUME NEW s \in Series, NEW d \in Days PROVE Inserting(s, d)' \subseteq Inserting(s, d)
  BY <1>2, <1>3 DEF Inserting, At
<1>8. InsertsCounted'
  BY <1>1, <1>7, FewerInserts DEF BilledInv, StraysCounted
<1> QED  BY <1>1, <1>3, <1>4, <1>6, <1>8 DEF BilledInv

\* The steps that neither insert nor look.
LEMMA OtherBilled ==
    ASSUME BilledInv, now \in Nat, cursor \in Nat \cup {Never}, NEW r \in Replicas,
           \/ PlanUnit(r) \/ NextUnit(r) \/ CostJobEnds(r)
           \/ CheckSpan(r) /\ AlreadyThere(Head(body[r].todo))
           \/ Window(r) \/ Ingest(r) \/ IngestFails(r) \/ Advance(r) \/ Crash(r)
    PROVE  BilledInv'
<1>1. BodiesShaped /\ Idle.job = "none"
  BY DEF BilledInv, Idle
<1>2. UNCHANGED <<spans, astray>>
  BY DEF PlanUnit, NextUnit, CostJobEnds, CheckSpan, Window, Ingest, IngestFails, Advance, Crash,
         costVars
<1>3. \E b : Becomes(r, b) /\ SameLock(r, b) /\ (b.job # "cost" \/ b.stage # "insert")
  <2>1. CASE PlanUnit(r)
    BY <1>1, <2>1, PlanBecomes
  <2>2. CASE \/ NextUnit(r) \/ CostJobEnds(r)
             \/ CheckSpan(r) /\ AlreadyThere(Head(body[r].todo))
    <3>1. PICK b : /\ Becomes(r, b) /\ SameLock(r, b)
                   /\ b = Idle \/ (b.job = "cost" /\ b.stage # "insert")
      BY <1>1, <2>2, CostBecomes
    <3> QED  BY <1>1, <3>1
  <2>3. CASE Window(r)
    <3>1. PICK since \in Int :
            LET b == [job |-> "ingest", held |-> body[r].held, stage |-> "fetch",
                      since |-> since, until |-> now + Skew[r], missed |-> {}]
            IN  Becomes(r, b) /\ SameLock(r, b)
      BY <1>1, <2>3, WindowBecomes
    <3> DEFINE b == [job |-> "ingest", held |-> body[r].held, stage |-> "fetch",
                     since |-> since, until |-> now + Skew[r], missed |-> {}]
    <3>2. b.job # "cost"
      OBVIOUS
    <3>3. Becomes(r, b) /\ SameLock(r, b)
      BY <3>1
    <3> HIDE DEF b
    <3> QED  BY <3>2, <3>3
  <2>4. CASE Ingest(r)
    BY <1>1, <2>4, FetchBecomes
  <2>5. CASE IngestFails(r) \/ Advance(r) \/ Crash(r)
    BY <1>1, <2>5, IdleBecomes DEF IngestFails, GiveUp, Advance, Crash
  <2> QED  BY <2>1, <2>2, <2>3, <2>4, <2>5
<1> QED  BY <1>2, <1>3, QuietBilled

LEMMA BilledStep == ASSUME BilledInv, CursorInv, [Next]_vars PROVE BilledInv'
<1>1. CASE UNCHANGED <<body, spans, astray>>
  <2>1. BodiesShaped' /\ OneHeld'
    BY <1>1 DEF BilledInv, BodiesShaped, OneHeld
  <2>2. StraysCounted'
    BY <1>1 DEF BilledInv, StraysCounted, Strays
  <2>3. InsertsCounted'
    <3>1. \A s \in Series : \A d \in Days : Inserting(s, d)' = Inserting(s, d)
      BY <1>1 DEF Inserting, At
    <3> QED BY <1>1, <3>1 DEF BilledInv, InsertsCounted
  <2> QED BY <1>1, <2>1, <2>2, <2>3 DEF BilledInv
<1>2. CASE Tick \/ UNCHANGED vars
  BY <1>1, <1>2 DEF Tick, vars, costVars
<1>3. ASSUME NEW r \in Replicas,
             \/ \E job \in {"cost", "ingest"} : Begin(r, job)
             \/ PlanUnit(r) \/ CheckSpan(r) \/ InsertSpan(r) \/ EmitRaises(r)
             \/ NextUnit(r) \/ CostJobEnds(r)
             \/ Window(r) \/ Ingest(r) \/ IngestFails(r) \/ Advance(r)
             \/ Crash(r) \/ LoseLock(r)
      PROVE  BilledInv'
  <2>1. now \in Nat /\ cursor \in Nat \cup {Never}
    BY DEF CursorInv
  <2> QED  BY <1>3, <2>1, BeginBilled, OtherBilled, CheckBilled, InsertBilled, StrayBilled
<1> QED  BY <1>2, <1>3 DEF Next

LEMMA BilledStart == Init => BilledInv
<1> SUFFICES ASSUME Init PROVE BilledInv
  OBVIOUS
<1>1. Strays = {} /\ \A s, d : Inserting(s, d) = {}
  BY DEF Init, Strays, Inserting, At, Idle
<1>2. spans \in [Series -> [Days -> Nat]] /\ astray = 0
      /\ \A s \in Series : \A d \in Days : spans[s][d] = 0
  BY DEF Init
<1>3. StraysCounted /\ InsertsCounted
  <2>1. IsFiniteSet({}) /\ Cardinality({}) = 0
    BY FS_EmptySet
  <2>2. StraysCounted
    BY <1>1, <1>2, <2>1 DEF StraysCounted
  <2>3. ASSUME NEW s \in Series, NEW d \in Days
        PROVE  IsFiniteSet(Inserting(s, d)) /\ spans[s][d] + Cardinality(Inserting(s, d)) <= 1 + astray
    <3>1. Inserting(s, d) = {} /\ spans[s][d] = 0 /\ astray = 0
      BY <1>1, <1>2
    <3>2. IsFiniteSet(Inserting(s, d)) /\ Cardinality(Inserting(s, d)) = 0
      BY <2>1, <3>1, Zenon
    <3> QED  BY <3>1, <3>2
  <2> QED  BY <2>2, <2>3 DEF InsertsCounted
<1>4. OneHeld
  BY DEF Init, OneHeld, Idle
<1> QED  BY <1>2, <1>3, <1>4, ShapedAtStart DEF BilledInv

\* A day is billed once for all the bodies that kept their locks, and at most once
\* more for each that lost its own, through any failures, crashes and overlaps.
THEOREM DayBilledOnceHolds == Spec => []DayBilledOnce
<1>1. Init => CursorInv /\ BilledInv
  BY CursorStart, BilledStart
<1>2. CursorInv /\ BilledInv /\ [Next]_vars => (CursorInv /\ BilledInv)'
  BY CursorStep, BilledStep
<1>3. ASSUME BilledInv PROVE DayBilledOnce
  <2> SUFFICES ASSUME NEW s \in Series, NEW d \in Days PROVE spans[s][d] <= 1 + astray
    BY DEF DayBilledOnce
  <2>1. /\ IsFiniteSet(Inserting(s, d)) /\ spans[s][d] \in Nat /\ astray \in Nat
        /\ spans[s][d] + Cardinality(Inserting(s, d)) <= 1 + astray
    BY <1>3 DEF BilledInv, InsertsCounted, StraysCounted
  <2>2. Cardinality(Inserting(s, d)) \in Nat
    BY <2>1, FS_CardinalityType
  <2> QED  BY <2>1, <2>2
<1> QED  BY <1>1, <1>2, <1>3, PTL DEF Spec

-----------------------------------------------------------------------------
(* What a unit has to emit.                                                *)

\* The elements of a sequence of sequences one after another: what the empty one and
\* the parts have, and joining keeps, the whole has.
LEMMA FlattenHas ==
    ASSUME NEW S, NEW seqs \in Seq(Seq(S)), NEW T \in SUBSET Seq(S), <<>> \in T,
           \A p, q \in T : p \o q \in T, \A i \in 1..Len(seqs) : seqs[i] \in T
    PROVE  /\ FlattenSeq(seqs) \in T
           /\ \A i \in 1..Len(seqs) : Range(seqs[i]) \subseteq Range(FlattenSeq(seqs))
<1> DEFINE n == Len(seqs)
           Value(f, i) == IF i = 1 THEN seqs[i] ELSE f[i - 1] \o seqs[i]
           flatten == CHOOSE f : f = [i \in 1..n |-> Value(f, i)]
<1>1. n \in Nat
  BY LenProperties
<1>2. CASE n = 0
  <2>1. seqs = <<>> /\ FlattenSeq(seqs) = seqs
    BY <1>2, EmptySeq DEF FlattenSeq
  <2> QED BY <1>2, <2>1
<1>3. CASE n # 0
  <2> DEFINE step == [i \in 1..n |-> [w \in T |-> w \o seqs[i]]]
  <2>1. step \in StepsOn(n, T)
    BY DEF StepsOn
  <2>2. PICK g : Follows(g, n, T, <<>>, step)
    <3> HIDE DEF n, step
    <3> QED BY <1>1, <2>1, StepsDefine
  <2>3. /\ g \in [0..n -> T] /\ g[0] = <<>>
        /\ \A i \in 1..n : g[i] = g[i - 1] \o seqs[i]
    <3>1. /\ g \in [0..n -> T] /\ g[0] = <<>>
          /\ \A i \in 1..n : g[i] = step[i][g[i - 1]]
      BY <2>2 DEF Follows
    <3>2. ASSUME NEW i \in 1..n PROVE g[i] = g[i - 1] \o seqs[i]
      <4>1. i - 1 \in 0..n
        BY <1>1
      <4>2. g[i - 1] \in T
        BY <3>1, <4>1
      <4> QED BY <3>1, <4>2
    <3> QED BY <3>1, <3>2
  <2> DEFINE f == [i \in 1..n |-> g[i]]
  <2>4. f = [i \in 1..n |-> Value(f, i)]
    <3>1. ASSUME NEW i \in 1..n PROVE f[i] = Value(f, i)
      <4>1. CASE i = 1
        <5>1. 1 \in 1..n /\ 1 - 1 = 0
          BY <1>1, <1>3
        <5>2. g[1] = <<>> \o seqs[1]
          BY <2>3, <5>1
        <5>3. seqs[1] \in Seq(S)
          BY <5>1, ElementOfSeq
        <5>4. g[1] = seqs[1]
          BY <5>2, <5>3, ConcatEmptySeq
        <5> QED BY <4>1, <5>4
      <4>2. CASE i # 1
        <5>1. i - 1 \in 1..n
          BY <1>1, <4>2
        <5> QED BY <2>3, <4>2, <5>1
      <4> QED BY <4>1, <4>2
    <3> QED BY <3>1
  <2>5. flatten = [i \in 1..n |-> Value(flatten, i)]
    BY <2>4
  <2>6. FlattenSeq(seqs) = flatten[n]
    BY <1>3 DEF FlattenSeq
  <2> HIDE DEF flatten, n
  <2>7. ASSUME NEW i \in 1..n
        PROVE  flatten[i] = IF i = 1 THEN seqs[i] ELSE flatten[i - 1] \o seqs[i]
    BY <2>5
  <2> DEFINE Holds(k) == /\ flatten[k] \in T
                         /\ \A i \in 1..k : Range(seqs[i]) \subseteq Range(flatten[k])
             N == {k \in Nat : k + 1 <= n => Holds(k + 1)}
  <2>8. N \in SUBSET Nat
    OBVIOUS
  <2>9. 0 \in N
    <3>1. 1 \in 1..n
      BY <1>1, <1>3
    <3>2. flatten[1] = seqs[1]
      BY <2>7, <3>1
    <3>3. Holds(1)
      BY <3>1, <3>2 DEF n
    <3> QED BY <3>3
  <2>10. ASSUME NEW k \in N PROVE k + 1 \in N
    <3> SUFFICES ASSUME (k + 1) + 1 <= n PROVE Holds((k + 1) + 1)
      OBVIOUS
    <3>1. k + 2 \in 1..n /\ k + 2 # 1 /\ (k + 2) - 1 = k + 1 /\ (k + 1) + 1 = k + 2
      BY <1>1
    <3>0. k \in Nat
      OBVIOUS
    <3>2. Holds(k + 1)
      BY <1>1
    <3> DEFINE p == flatten[k + 1]
               q == seqs[k + 2]
    <3>3. p \in T /\ q \in T /\ p \in Seq(S) /\ q \in Seq(S)
      BY <3>1, <3>2 DEF n
    <3>4. flatten[k + 2] = p \o q
      BY <2>7, <3>1
    <3>5. \A i \in 1..(k + 1) : Range(seqs[i]) \subseteq Range(p)
      BY <3>2
    <3> HIDE DEF p, N, Holds
    <3>6. Range(p \o q) = Range(p) \cup Range(q)
      BY <3>3, JoinSequences
    <3>7. ASSUME NEW i \in 1..(k + 2) PROVE Range(seqs[i]) \subseteq Range(p \o q)
      <4>1. CASE i = k + 2
        BY <3>6, <4>1 DEF q
      <4>2. CASE i # k + 2
        <5>1. i \in 1..(k + 1)
          BY <3>0, <4>2
        <5> QED BY <3>5, <3>6, <5>1
      <4> QED BY <4>1, <4>2
    <3> QED BY <3>1, <3>3, <3>4, <3>7 DEF Holds
  <2> HIDE DEF N
  <2>11. N = Nat
    BY <2>8, <2>9, <2>10, NatInductionOnSet
  <2>12. Holds(n)
    <3>1. n - 1 \in N /\ (n - 1) + 1 = n
      BY <1>1, <1>3, <2>11
    <3> QED BY <1>1, <3>1 DEF N
  <2> QED BY <2>6, <2>12 DEF n
<1> QED BY <1>2, <1>3

\* Least and greatest elements are what they are called.
LEMMA MinIsLeast ==
    ASSUME NEW T \in SUBSET Nat, T # {}
    PROVE  Min(T) \in T /\ \A x \in T : Min(T) <= x
  BY LeastNatural DEF Min

LEMMA MaxIsGreatest ==
    ASSUME NEW T \in SUBSET Nat, T # {}, NEW top \in Nat, \A x \in T : x <= top
    PROVE  Max(T) \in T /\ \A x \in T : x <= Max(T)
<1> DEFINE down == {top - x : x \in T}
<1>1. down \in SUBSET Nat /\ down # {}
  <2>1. ASSUME NEW x \in T PROVE top - x \in Nat
    OBVIOUS
  <2> QED BY <2>1
<1> HIDE DEF down
<1>2. PICK m \in down : \A k \in down : m <= k
  BY <1>1, LeastNatural
<1>3. PICK x \in T : m = top - x
  BY <1>2 DEF down
<1>4. ASSUME NEW y \in T PROVE x >= y
  <2>1. top - y \in down
    BY DEF down
  <2> QED BY <1>2, <1>3, <2>1
<1> QED BY <1>4 DEF Max

\* The days of a set in their order, each of them there: what daily_costs returns.
InOrder(q, days) ==
    /\ q \in Seq(days)
    /\ \A d \in days : \E i \in 1..Len(q) : q[i] = d
    /\ \A i \in 1..Len(q) : \A d \in days : d < q[i] => \E j \in 1..(i - 1) : q[j] = d

LEMMA LaterDay ==
    ASSUME NEW days \in SUBSET Nat, NEW q, InOrder(q, days), NEW day \in Nat,
           \A d \in days : d < day
    PROVE  InOrder(Append(q, day), days \cup {day})
<1> DEFINE t == Append(q, day)
           more == days \cup {day}
<1>1. q \in Seq(days) /\ q \in Seq(more) /\ day \in more
  BY DEF InOrder
<1>2. /\ t \in Seq(more) /\ Len(t) = Len(q) + 1 /\ Len(q) \in Nat
      /\ \A i \in 1..Len(q) : t[i] = q[i] /\ q[i] \in days
      /\ t[Len(q) + 1] = day
  <2>1. \A i \in 1..Len(q) : q[i] \in days
    BY <1>1, ElementOfSeq
  <2> HIDE DEF more
  <2> QED BY <1>1, <2>1, AppendProperties, LenProperties
<1> HIDE DEF t
<1>3. ASSUME NEW d \in more PROVE \E i \in 1..Len(t) : t[i] = d
  <2>1. CASE d = day
    <3>1. Len(q) + 1 \in 1..Len(t)
      BY <1>2
    <3> QED BY <1>2, <2>1, <3>1
  <2>2. CASE d \in days
    <3>1. PICK i \in 1..Len(q) : q[i] = d
      BY <2>2 DEF InOrder
    <3>2. i \in 1..Len(t) /\ t[i] = d
      BY <1>2, <3>1
    <3> QED BY <3>2
  <2> QED BY <2>1, <2>2
<1>4. ASSUME NEW i \in 1..Len(t), NEW d \in more, d < t[i] PROVE \E j \in 1..(i - 1) : t[j] = d
  <2>1. CASE i = Len(q) + 1
    <3>1. d \in days
      BY <1>2, <1>4, <2>1
    <3>2. PICK j \in 1..Len(q) : q[j] = d
      BY <3>1 DEF InOrder
    <3>3. j \in 1..(i - 1) /\ t[j] = d
      BY <1>2, <2>1, <3>2
    <3> QED BY <3>3
  <2>2. CASE i # Len(q) + 1
    <3>1. i \in 1..Len(q) /\ t[i] = q[i] /\ q[i] \in days
      BY <1>2, <2>2
    <3>2. d \in days
      <4>1. q[i] < day /\ q[i] \in Nat /\ d < q[i]
        BY <1>4, <3>1
      <4>2. d # day
        BY <4>1
      <4> QED BY <4>2
    <3>3. PICK j \in 1..(i - 1) : q[j] = d
      BY <1>4, <3>1, <3>2 DEF InOrder
    <3>4. j \in 1..Len(q) /\ t[j] = d
      BY <1>2, <3>1, <3>3
    <3> QED BY <3>3, <3>4
  <2> QED BY <2>1, <2>2
<1> QED BY <1>2, <1>3, <1>4 DEF InOrder, t

\* So the days of a window are worked through in order.
LEMMA CostsInOrder ==
    ASSUME NEW s \in Series, NEW lo \in Nat, NEW hi \in Nat, lo <= hi
    PROVE  InOrder(DailyCosts(s, lo..hi), Spend[s] \cap (lo..hi))
<1> DEFINE window == lo..hi
           n == Cardinality(window)
           Day(i) == Min(window) + (i - 1)
           Value(f, i) == LET day == Min(window) + (i - 1)
                          IN  IF i = 0 THEN <<>>
                              ELSE IF day \in Spend[s] THEN Append(f[i - 1], day) ELSE f[i - 1]
           costs == CHOOSE f : f = [i \in 0..n |-> Value(f, i)]
<1>1. n \in Nat /\ n = hi - lo + 1
  BY FS_Interval
<1>2. Min(window) = lo
  <2>1. window \in SUBSET Nat /\ window # {} /\ lo \in window /\ \A x \in window : lo <= x
    <3>1. \A x \in window : x \in Nat /\ lo <= x
      OBVIOUS
    <3>2. lo \in window
      OBVIOUS
    <3> QED BY <3>1, <3>2
  <2> HIDE DEF window
  <2>2. Min(window) \in window /\ \A x \in window : Min(window) <= x
    BY <2>1, MinIsLeast
  <2>3. Min(window) <= lo /\ lo <= Min(window) /\ Min(window) \in Nat
    BY <2>1, <2>2
  <2> QED BY <2>3
<1>3. DailyCosts(s, window) = costs[n]
  BY DEF DailyCosts
<1> HIDE DEF n
<1>4. \A i \in 1..n : lo + (i - 1) \in Nat
  BY <1>1
<1>5. Spend[s] \in SUBSET Nat /\ Spend[s] \subseteq Days
  BY DEF Days
<1> DEFINE A == Seq(Nat)
           step == [i \in 1..n |-> [w \in A |-> IF lo + (i - 1) \in Spend[s]
                                                THEN Append(w, lo + (i - 1)) ELSE w]]
<1>6. <<>> \in A /\ step \in StepsOn(n, A)
  BY <1>4, EmptySeq, AppendProperties DEF StepsOn
<1>7. PICK g : Follows(g, n, A, <<>>, step)
  <2> HIDE DEF A, step
  <2> QED BY <1>1, <1>6, StepsDefine
<1>8. g = [i \in 0..n |-> Value(g, i)]
  <2>1. /\ g \in [0..n -> A] /\ g[0] = <<>>
        /\ \A i \in 1..n : g[i] = step[i][g[i - 1]]
    BY <1>7 DEF Follows
  <2>2. ASSUME NEW i \in 0..n PROVE g[i] = Value(g, i)
    <3>1. CASE i = 0
      BY <2>1, <3>1
    <3>2. CASE i # 0
      <4>1. i \in 1..n /\ g[i - 1] \in A
        BY <1>1, <2>1, <3>2
      <4> QED BY <1>2, <2>1, <3>2, <4>1
    <3> QED BY <3>1, <3>2
  <2> QED BY <2>1, <2>2
<1>9. costs = [i \in 0..n |-> Value(costs, i)]
  BY <1>8
<1> HIDE DEF costs
<1>10. costs[0] = <<>>
  BY <1>1, <1>9
<1>11. ASSUME NEW i \in 1..n
       PROVE  costs[i] = IF lo + (i - 1) \in Spend[s] THEN Append(costs[i - 1], lo + (i - 1))
                         ELSE costs[i - 1]
  <2>1. i \in 0..n /\ i # 0
    BY <1>1
  <2>2. costs[i] = Value(costs, i)
    BY <1>9, <2>1
  <2> QED BY <1>2, <2>1, <2>2
<1> DEFINE Upto(i) == Spend[s] \cap (lo..(lo + (i - 1)))
           N == {i \in Nat : i <= n => InOrder(costs[i], Upto(i))}
<1>12. N \in SUBSET Nat
  OBVIOUS
<1>13. 0 \in N
  <2>1. Upto(0) = {}
    OBVIOUS
  <2>2. InOrder(<<>>, {})
    BY EmptySeq DEF InOrder
  <2> QED BY <1>10, <2>1, <2>2
<1>14. ASSUME NEW i \in N PROVE i + 1 \in N
  <2>0. i \in Nat /\ (i <= n => InOrder(costs[i], Upto(i)))
    <3> HIDE DEF Upto
    <3> QED OBVIOUS
  <2> SUFFICES ASSUME i + 1 <= n PROVE InOrder(costs[i + 1], Upto(i + 1))
    <3> HIDE DEF Upto
    <3> QED BY <2>0
  <2> HIDE DEF N
  <2>1. i \in Nat /\ InOrder(costs[i], Upto(i)) /\ i + 1 \in 1..n /\ (i + 1) - 1 = i
    BY <2>0, <1>1
  <2> DEFINE day == lo + i
  <2>2. day \in Nat /\ costs[i + 1] = IF day \in Spend[s] THEN Append(costs[i], day) ELSE costs[i]
    BY <1>11, <2>1
  <2>3. Upto(i + 1) = IF day \in Spend[s] THEN Upto(i) \cup {day} ELSE Upto(i)
    <3>1. \A d \in Spend[s] : d \in lo..(lo + ((i + 1) - 1)) <=> d \in lo..(lo + (i - 1)) \/ d = day
      <4> SUFFICES ASSUME NEW d \in Nat
                   PROVE  d \in lo..(lo + ((i + 1) - 1)) <=> d \in lo..(lo + (i - 1)) \/ d = day
        BY <1>5
      <4> QED BY <2>1
    <3> HIDE DEF day
    <3> QED BY <3>1
  <2>4. Upto(i) \in SUBSET Nat /\ \A d \in Upto(i) : d < day
    BY <1>5, <2>1
  <2> HIDE DEF day, Upto
  <2>5. InOrder(Append(costs[i], day), Upto(i) \cup {day})
    BY <2>1, <2>2, <2>4, LaterDay
  <2> QED BY <2>1, <2>2, <2>3, <2>5
<1>15. n \in N
  <2> HIDE DEF N
  <2>1. N = Nat
    BY <1>12, <1>13, <1>14, NatInductionOnSet
  <2> QED BY <1>1, <2>1
<1>16. Upto(n) = Spend[s] \cap (lo..hi) /\ InOrder(costs[n], Upto(n))
  BY <1>1, <1>15
<1> QED BY <1>3, <1>16

\* A sequence of days of a unit's series, in its window: each comes after the days
\* before it that its series owes.
Emits(q, unit, window) ==
    /\ q \in Seq(Series \X Days)
    /\ \A i \in 1..Len(q) :
         /\ q[i][1] \in Range(unit) /\ q[i][2] \in window
         /\ \A d \in Spend[q[i][1]] \cap window :
              d < q[i][2] => \E j \in 1..(i - 1) : q[j] = <<q[i][1], d>>

LEMMA EmitsJoined ==
    ASSUME NEW unit, NEW window, NEW p, NEW q, Emits(p, unit, window), Emits(q, unit, window)
    PROVE  Emits(p \o q, unit, window)
<1> DEFINE t == p \o q
           m == Len(p)
<1>1. /\ t \in Seq(Series \X Days) /\ Len(t) = m + Len(q) /\ m \in Nat /\ Len(q) \in Nat
      /\ \A i \in 1..(m + Len(q)) : t[i] = IF i <= m THEN p[i] ELSE q[i - m]
  <2>1. p \in Seq(Series \X Days) /\ q \in Seq(Series \X Days)
    BY DEF Emits
  <2> QED BY <2>1, ConcatProperties, LenProperties
<1> HIDE DEF t
<1>2. ASSUME NEW i \in 1..Len(t)
      PROVE  /\ t[i][1] \in Range(unit) /\ t[i][2] \in window
             /\ \A d \in Spend[t[i][1]] \cap window :
                  d < t[i][2] => \E j \in 1..(i - 1) : t[j] = <<t[i][1], d>>
  <2>1. CASE i <= m
    <3>1. i \in 1..m /\ t[i] = p[i]
      BY <1>1, <2>1
    <3>2. p[i][1] \in Range(unit) /\ p[i][2] \in window
      BY <3>1 DEF Emits
    <3>3. ASSUME NEW d \in Spend[p[i][1]] \cap window, d < p[i][2]
          PROVE  \E j \in 1..(i - 1) : t[j] = <<p[i][1], d>>
      <4>1. PICK j \in 1..(i - 1) : p[j] = <<p[i][1], d>>
        BY <3>1, <3>3 DEF Emits
      <4>2. j \in 1..(m + Len(q)) /\ j <= m
        BY <1>1, <3>1, <4>1
      <4>3. t[j] = p[j]
        BY <1>1, <4>2
      <4> QED BY <4>1, <4>3
    <3> QED BY <3>1, <3>2, <3>3
  <2>2. CASE ~(i <= m)
    <3> DEFINE k == i - m
    <3>1. k \in 1..Len(q) /\ t[i] = q[k] /\ i = k + m
      <4>1. i \in 1..(m + Len(q)) /\ ~(i <= m)
        BY <1>1, <2>2
      <4>2. t[i] = q[i - m]
        BY <1>1, <4>1
      <4>3. i - m \in 1..Len(q) /\ i = (i - m) + m
        BY <1>1, <4>1
      <4> QED BY <4>2, <4>3
    <3> HIDE DEF k
    <3>2. q[k][1] \in Range(unit) /\ q[k][2] \in window
      BY <3>1 DEF Emits
    <3>3. ASSUME NEW d \in Spend[q[k][1]] \cap window, d < q[k][2]
          PROVE  \E j \in 1..(i - 1) : t[j] = <<q[k][1], d>>
      <4>1. PICK j \in 1..(k - 1) : q[j] = <<q[k][1], d>>
        BY <3>1, <3>3 DEF Emits
      <4>2. j + m \in 1..(m + Len(q)) /\ ~(j + m <= m) /\ (j + m) - m = j /\ j + m \in 1..(i - 1)
        BY <1>1, <3>1, <4>1
      <4>3. t[j + m] = q[j]
        BY <1>1, <4>2
      <4> QED BY <4>1, <4>2, <4>3
    <3> QED BY <3>1, <3>2, <3>3
  <2> QED BY <2>1, <2>2
<1> QED BY <1>1, <1>2 DEF Emits, t

\* The days of one series.
DaysOf(s, costs) == [j \in DOMAIN costs |-> <<s, costs[j]>>]

LEMMA SeriesEmits ==
    ASSUME NEW unit \in Seq(Series), NEW s \in Range(unit), NEW lo \in Nat, NEW hi \in Nat, lo <= hi
    PROVE  LET q == DaysOf(s, DailyCosts(s, lo..hi))
           IN  /\ Emits(q, unit, lo..hi)
               /\ \A d \in Spend[s] \cap (lo..hi) : <<s, d>> \in Range(q)
<1> DEFINE costs == DailyCosts(s, lo..hi)
           window == lo..hi
           days == Spend[s] \cap window
           q == DaysOf(s, costs)
<1>1. s \in Series
  BY DEF Range
<1>2. InOrder(costs, days)
  BY <1>1, CostsInOrder
<1>3. days \subseteq Days /\ days \subseteq window
  BY <1>1
<1> HIDE DEF costs, days, window
<1>4. /\ costs \in Seq(days) /\ DOMAIN costs = 1..Len(costs) /\ Len(costs) \in Nat
      /\ \A j \in 1..Len(costs) : costs[j] \in days
  BY <1>2, ElementOfSeq, LenProperties DEF InOrder
<1>5. \A j \in 1..Len(costs) : q[j] = <<s, costs[j]>> /\ q[j] \in Series \X Days
  BY <1>1, <1>3, <1>4 DEF DaysOf
<1>6. q \in Seq(Series \X Days) /\ Len(q) = Len(costs) /\ DOMAIN q = 1..Len(costs)
  <2> DEFINE Pairs == Series \X Days
             n == Len(costs)
  <2>1. q \in [1..n -> Pairs] /\ n \in Nat
    BY <1>4, <1>5 DEF DaysOf
  <2> HIDE DEF q, Pairs, n
  <2>2. q \in Seq(Pairs) /\ Len(q) = n /\ DOMAIN q = 1..n
    BY <2>1
  <2> QED BY <2>2 DEF Pairs, n
<1> HIDE DEF q
<1>7. ASSUME NEW i \in 1..Len(q)
      PROVE  /\ q[i][1] \in Range(unit) /\ q[i][2] \in window
             /\ \A d \in Spend[q[i][1]] \cap window :
                  d < q[i][2] => \E j \in 1..(i - 1) : q[j] = <<q[i][1], d>>
  <2>1. q[i][1] = s /\ q[i][2] = costs[i] /\ i \in 1..Len(costs) /\ costs[i] \in window
    BY <1>3, <1>4, <1>5, <1>6
  <2>2. ASSUME NEW d \in Spend[s] \cap window, d < costs[i]
        PROVE  \E j \in 1..(i - 1) : q[j] = <<s, d>>
    <3>1. d \in days
      BY DEF days
    <3>2. PICK j \in 1..(i - 1) : costs[j] = d
      BY <1>2, <2>1, <2>2, <3>1 DEF InOrder
    <3>3. j \in 1..Len(costs)
      BY <1>4, <2>1, <3>2
    <3> QED BY <1>5, <3>2, <3>3
  <2> QED BY <2>1, <2>2
<1>8. ASSUME NEW d \in days PROVE <<s, d>> \in Range(q)
  <2>1. PICK j \in 1..Len(costs) : costs[j] = d
    BY <1>2 DEF InOrder
  <2>2. q[j] = <<s, d>> /\ j \in DOMAIN q
    BY <1>5, <1>6, <2>1
  <2> QED BY <2>2 DEF Range
<1> QED BY <1>6, <1>7, <1>8 DEF Emits, q, costs, days, window

\* What a unit emits is in order, and when no fetch failed it is all it owes.
LEMMA UnitEmits ==
    ASSUME NEW unit \in Seq(Series), NEW lo \in Nat, NEW hi \in Nat, lo <= hi, NEW broken
    PROVE  /\ Emits(ToEmit(unit, lo..hi, broken), unit, lo..hi)
           /\ broken = {} => Owed(unit, lo..hi) \subseteq Range(ToEmit(unit, lo..hi, broken))
<1> DEFINE window == lo..hi
           Pairs == Series \X Days
           piece == [i \in DOMAIN unit |-> IF unit[i] \in broken THEN <<>>
                                           ELSE DaysOf(unit[i], DailyCosts(unit[i], window))]
           T == {q \in Seq(Pairs) : Emits(q, unit, window)}
           all == FlattenSeq(piece)
<1>1. ToEmit(unit, window, broken) = all
  BY DEF ToEmit, DaysOf
<1>2. DOMAIN unit = 1..Len(unit) /\ Len(unit) \in Nat /\ \A i \in 1..Len(unit) : unit[i] \in Range(unit)
  <2>1. DOMAIN unit = 1..Len(unit) /\ Len(unit) \in Nat
    BY LenProperties
  <2> QED BY <2>1 DEF Range
<1>3. <<>> \in T
  <2>1. <<>> \in Seq(Pairs) /\ Len(<<>>) = 0
    BY EmptySeq
  <2> QED BY <2>1 DEF Emits
<1>4. ASSUME NEW i \in 1..Len(unit)
      PROVE  /\ piece[i] \in T
             /\ unit[i] \notin broken => \A d \in Spend[unit[i]] \cap window : <<unit[i], d>> \in Range(piece[i])
  <2>1. unit[i] \in Range(unit) /\ i \in DOMAIN unit
    BY <1>2
  <2> DEFINE s == unit[i]
             q == DaysOf(s, DailyCosts(s, window))
  <2>2. /\ Emits(q, unit, window)
        /\ \A d \in Spend[s] \cap window : <<s, d>> \in Range(q)
    BY <2>1, SeriesEmits
  <2>3. piece[i] = IF s \in broken THEN <<>> ELSE q
    BY <2>1
  <2> HIDE DEF q, window, piece, s
  <2>4. q \in T
    BY <2>2 DEF Emits
  <2> QED BY <1>3, <2>2, <2>3, <2>4 DEF s
<1>5. piece \in Seq(Seq(Pairs)) /\ Len(piece) = Len(unit)
  <2>1. \A i \in 1..Len(unit) : piece[i] \in Seq(Pairs)
    BY <1>4
  <2> DEFINE n == Len(unit)
             Parts == Seq(Pairs)
  <2>2. piece \in [1..n -> Parts] /\ n \in Nat
    BY <1>2, <2>1
  <2> HIDE DEF piece, n, Parts
  <2>3. piece \in Seq(Parts) /\ Len(piece) = n
    BY <2>2
  <2> QED BY <2>3 DEF Parts, n
<1>6. \A p, q \in T : p \o q \in T
  <2> SUFFICES ASSUME NEW p \in T, NEW q \in T PROVE p \o q \in T
    OBVIOUS
  <2>1. Emits(p \o q, unit, window)
    <3> HIDE DEF window
    <3> QED BY EmitsJoined
  <2> QED BY <2>1 DEF Emits
<1> HIDE DEF piece
<1>7. T \in SUBSET Seq(Pairs) /\ \A i \in 1..Len(piece) : piece[i] \in T
  BY <1>4, <1>5
<1>8. all \in T /\ \A i \in 1..Len(piece) : Range(piece[i]) \subseteq Range(all)
  <2> HIDE DEF T, Pairs
  <2> QED BY <1>3, <1>5, <1>6, <1>7, FlattenHas
<1> HIDE DEF all
<1>9. ASSUME broken = {}, NEW day \in Owed(unit, window) PROVE day \in Range(all)
  <2>1. PICK s \in Range(unit), d \in window : day = <<s, d>> /\ d \in Spend[s]
    BY DEF Owed
  <2>2. PICK i \in 1..Len(unit) : unit[i] = s
    BY <1>2 DEF Range
  <2>3. <<s, d>> \in Range(piece[i])
    <3> HIDE DEF window
    <3> QED BY <1>4, <1>9, <2>1, <2>2
  <2> QED BY <1>5, <1>8, <2>1, <2>2, <2>3
<1> QED BY <1>1, <1>8, <1>9

\* The window of a unit starts at the day after the newest billed one of each of its
\* series that is in sight, or before.
LEMMA UnitWindow ==
    ASSUME NEW unit, NEW newest \in Nat
    PROVE  \E lo, hi \in Nat :
             /\ lo <= hi /\ BillingWindow(unit, newest) = lo..hi
             /\ \A s \in Range(unit) : InSight(s, newest) # {} =>
                  Max(InSight(s, newest)) \in InSight(s, newest) /\ lo <= Max(InSight(s, newest)) + 1
<1> DEFINE seen == {x \in Range(unit) : InSight(x, newest) # {}}
           known == {Max(InSight(s, newest)) : s \in seen}
           lo == IF known = {} THEN newest ELSE Min({newest, Min(known) + 1})
           hi == Min({lo + CatchUp - 1, newest})
<1>1. ASSUME NEW s \in seen
      PROVE  /\ Max(InSight(s, newest)) \in InSight(s, newest)
             /\ Max(InSight(s, newest)) \in Nat
  <2> DEFINE I == InSight(s, newest)
  <2>1. I \in SUBSET Nat /\ I # {} /\ \A x \in I : x <= newest
    BY DEF InSight, Days
  <2> HIDE DEF I
  <2>2. Max(I) \in I
    BY <2>1, MaxIsGreatest
  <2> QED BY <2>1, <2>2 DEF I
<1>2. known \in SUBSET Nat
  BY <1>1
<1> HIDE DEF seen
<1>3. \A s \in seen : Max(InSight(s, newest)) \in known
  OBVIOUS
<1> HIDE DEF known
<1>4. known # {} => Min(known) \in Nat /\ \A x \in known : Min(known) <= x
  BY <1>2, MinIsLeast
<1>5. lo \in Nat /\ lo <= newest /\ (known # {} => lo <= Min(known) + 1)
  <2>1. CASE known = {}
    BY <2>1
  <2>2. CASE known # {}
    <3>1. Min(known) + 1 \in Nat
      BY <1>4, <2>2
    <3> DEFINE next == Min(known) + 1
    <3>2. next \in Int /\ lo = Min({newest, next})
      BY <2>2, <3>1
    <3> HIDE DEF next, lo
    <3>3. lo = IF newest <= next THEN newest ELSE next
      <4>1. newest \in Int
        OBVIOUS
      <4>2. Min({newest, next}) = IF newest <= next THEN newest ELSE next
        BY <3>2, <4>1, MinOfTwo, Zenon
      <4> QED BY <3>2, <4>2
    <3>4. next \in Nat /\ next = Min(known) + 1
      BY <3>1 DEF next
    <3> QED BY <3>3, <3>4
  <2> QED BY <2>1, <2>2
<1>6. BillingWindow(unit, newest) = lo..hi
  BY DEF BillingWindow, known, seen
<1> HIDE DEF lo
<1>7. hi \in Nat /\ lo <= hi
  <2>1. lo + CatchUp - 1 \in Nat /\ lo <= lo + CatchUp - 1
    BY <1>5
  <2> DEFINE last == lo + CatchUp - 1
  <2> HIDE DEF last
  <2>2. last \in Nat /\ lo <= last /\ hi = Min({last, newest})
    BY <2>1 DEF last
  <2>3. Min({last, newest}) = IF last <= newest THEN last ELSE newest
    <3>1. last \in Int /\ newest \in Int
      BY <2>2
    <3> QED BY <3>1, MinOfTwo, Zenon
  <2> QED BY <1>5, <2>2, <2>3
<1> HIDE DEF hi
<1>8. ASSUME NEW s \in Range(unit), InSight(s, newest) # {}
      PROVE  Max(InSight(s, newest)) \in InSight(s, newest) /\ lo <= Max(InSight(s, newest)) + 1
  <2>1. s \in seen
    BY <1>8 DEF seen
  <2>2. Max(InSight(s, newest)) \in known /\ Max(InSight(s, newest)) \in Nat
    BY <1>1, <1>3, <2>1
  <2>3. Min(known) \in Nat /\ Min(known) <= Max(InSight(s, newest)) /\ lo <= Min(known) + 1
    BY <1>4, <1>5, <2>2
  <2> QED BY <1>1, <1>5, <2>1, <2>2, <2>3
<1> QED BY <1>5, <1>6, <1>7, <1>8

-----------------------------------------------------------------------------
(* Holes and successes.                                                    *)

\* A day that is billed or given up.
Closed(s, d) == Billed(s, d) \/ <<s, d>> \in given

\* What a job still has to emit comes in turn: the days of a series before each are
\* closed, or come before it.
InTurn(todo) ==
    \A i \in 1..Len(todo) : \A d \in Spend[todo[i][1]] :
      d < todo[i][2] =>
        Closed(todo[i][1], d) \/ \E j \in 1..(i - 1) : todo[j] = <<todo[i][1], d>>

\* As long as nothing failed, what a job found due is billed or still to be emitted.
DueRemembered(b) ==
    ~b.failed => \A span \in b.due : Billed(span[1], span[2]) \/ span \in Range(b.todo)

JobTyped(b) ==
    /\ b.newest \in Nat /\ b.unit \in Nat \ {0} /\ b.failed \in BOOLEAN
    /\ b.todo \in Seq(Series \X Days) /\ b.due \in SUBSET (Series \X Days)
    /\ b.stage = "plan" => b.todo = <<>>
    /\ b.stage = "insert" => b.todo # <<>>

JobInOrder(b) == JobTyped(b) /\ InTurn(b.todo) /\ DueRemembered(b)

JobsInOrder == \A r \in Replicas : body[r].job = "cost" => JobInOrder(body[r])

HoleInv ==
    /\ now \in Nat \ {0}
    /\ JobsInOrder
    /\ NoHoleBehind

\* Spans stay, and so does what was given up.
Grown ==
    /\ \A s \in Series : \A d \in Days : Billed(s, d) => Billed(s, d)'
    /\ given \subseteq given'

LEMMA ClosedStays ==
    ASSUME Grown, NEW s \in Series, NEW d \in Days, Closed(s, d)
    PROVE  Closed(s, d)'
  BY DEF Grown, Closed

LEMMA StaysInOrder ==
    ASSUME Grown, NEW b, JobInOrder(b)
    PROVE  JobInOrder(b)'
<1>1. JobTyped(b) /\ JobTyped(b)'
  BY DEF JobInOrder, JobTyped
<1>2. \A i \in 1..Len(b.todo) : b.todo[i][1] \in Series /\ b.todo[i][2] \in Days
  <2>1. b.todo \in Seq(Series \X Days)
    BY <1>1 DEF JobTyped
  <2> DEFINE Pairs == Series \X Days
             todo == b.todo
  <2> HIDE DEF Pairs, todo
  <2>2. \A i \in 1..Len(todo) : todo[i] \in Pairs
    BY <2>1, ElementOfSeq DEF Pairs, todo
  <2> QED BY <2>2 DEF Pairs, todo
<1>3. InTurn(b.todo)'
  <2> SUFFICES ASSUME NEW i \in 1..Len(b.todo), NEW d \in Spend[b.todo[i][1]], d < b.todo[i][2]
               PROVE  Closed(b.todo[i][1], d)' \/ \E j \in 1..(i - 1) : b.todo[j] = <<b.todo[i][1], d>>
    BY DEF InTurn
  <2>1. Closed(b.todo[i][1], d) \/ \E j \in 1..(i - 1) : b.todo[j] = <<b.todo[i][1], d>>
    BY DEF JobInOrder, InTurn
  <2>2. b.todo[i][1] \in Series /\ d \in Days
    BY <1>2
  <2> QED BY <2>1, <2>2, ClosedStays
<1>4. DueRemembered(b)'
  <2> SUFFICES ASSUME ~b.failed, NEW span \in b.due
               PROVE  Billed(span[1], span[2])' \/ span \in Range(b.todo)
    BY DEF DueRemembered
  <2>1. Billed(span[1], span[2]) \/ span \in Range(b.todo)
    BY DEF JobInOrder, DueRemembered
  <2>2. span[1] \in Series /\ span[2] \in Days
    BY <1>1 DEF JobTyped
  <2> QED BY <2>1, <2>2 DEF Grown
<1> QED BY <1>1, <1>3, <1>4 DEF JobInOrder

\* What a body has become.
LEMMA InOrderThere ==
    ASSUME NEW q, NEW c, c = body'[q], JobInOrder(c)'
    PROVE  JobInOrder(body[q])'
<1>1. JobTyped(c)' /\ InTurn(c.todo)' /\ DueRemembered(c)'
  BY DEF JobInOrder
<1>2. JobTyped(body[q])'
  BY <1>1 DEF JobTyped
<1>3. InTurn(body[q].todo)'
  BY <1>1 DEF InTurn
<1>4. DueRemembered(body[q])'
  BY <1>1 DEF DueRemembered
<1> QED BY <1>2, <1>3, <1>4 DEF JobInOrder

\* One body goes on to be b, the others are as they were.
LEMMA OneInOrder ==
    ASSUME HoleInv, BodiesShaped, Grown, now' \in Nat \ {0}, NoHoleBehind', NEW r \in Replicas,
           NEW b, Becomes(r, b), b.job = "cost" => JobInOrder(b)'
    PROVE  HoleInv'
<1>1. body'[r] = b /\ \A q \in Replicas \ {r} : body'[q] = body[q]
  BY OneBecomes
<1>2. ASSUME NEW q \in Replicas, body'[q].job = "cost"
      PROVE  JobInOrder(body[q])'
  <2>1. PICK c : c = body'[q]
    OBVIOUS
  <2>2. JobInOrder(c)'
    <3>1. CASE q = r
      BY <1>1, <1>2, <2>1, <3>1
    <3>2. CASE q # r
      <4>1. c = body[q] /\ body[q].job = "cost"
        BY <1>1, <1>2, <2>1, <3>2
      <4>2. JobInOrder(body[q])
        BY <4>1 DEF HoleInv, JobsInOrder
      <4>3. JobInOrder(c)
        BY <4>1, <4>2
      <4> QED BY <4>3, StaysInOrder
    <3> QED BY <3>1, <3>2
  <2> QED BY <2>1, <2>2, InOrderThere
<1> QED BY <1>2 DEF HoleInv, JobsInOrder

\* A span more bills one day.
LEMMA InsertBills ==
    ASSUME spans \in [Series -> [Days -> Nat]], NEW x \in Series \X Days, spans' = Inserted(x),
           given' = given
    PROVE  /\ \A s \in Series : \A d \in Days :
                Billed(s, d)' <=> Billed(s, d) \/ (s = x[1] /\ d = x[2])
           /\ Grown
<1> DEFINE row == [spans[x[1]] EXCEPT ![x[2]] = @ + 1]
<1>1. x[1] \in Series /\ x[2] \in Days /\ spans[x[1]] \in [Days -> Nat]
  OBVIOUS
<1>2. spans' = [spans EXCEPT ![x[1]] = row]
  BY DEF Inserted
<1>3. row[x[2]] = spans[x[1]][x[2]] + 1 /\ \A d \in Days : d # x[2] => row[d] = spans[x[1]][d]
  BY <1>1
<1> HIDE DEF row
<1>4. spans'[x[1]] = row /\ \A s \in Series : s # x[1] => spans'[s] = spans[s]
  BY <1>1, <1>2
<1>5. ASSUME NEW s \in Series, NEW d \in Days
      PROVE  spans'[s][d] > 0 <=> spans[s][d] > 0 \/ (s = x[1] /\ d = x[2])
  <2>1. spans[s][d] \in Nat
    OBVIOUS
  <2>2. CASE s = x[1] /\ d = x[2]
    <3>1. spans'[s][d] = spans[s][d] + 1
      BY <1>3, <1>4, <2>2
    <3> QED BY <2>1, <2>2, <3>1
  <2>3. CASE ~(s = x[1] /\ d = x[2])
    <3>1. spans'[s][d] = spans[s][d]
      BY <1>3, <1>4, <2>3
    <3> QED BY <2>3, <3>1
  <2> QED BY <2>2, <2>3
<1>6. \A s \in Series : \A d \in Days :
        Billed(s, d)' <=> Billed(s, d) \/ (s = x[1] /\ d = x[2])
  BY <1>5 DEF Billed
<1> QED BY <1>6 DEF Grown

\* The job of a body.
LEMMA JobOf ==
    ASSUME HoleInv, BodiesShaped, NEW r \in Replicas, body[r].job = "cost"
    PROVE  /\ JobInOrder(body[r]) /\ JobTyped(body[r]) /\ DOMAIN body[r] = CostFields
           /\ body[r].held \in BOOLEAN /\ body[r] # Idle
  BY CostBody DEF HoleInv, JobsInOrder, JobInOrder

\* A job that begins has nothing to do yet.
LEMMA BeginsInOrder ==
    ASSUME HoleInv, BodiesShaped, NEW r \in Replicas, NEW job \in {"cost", "ingest"}, Begin(r, job)
    PROVE  HoleInv'
<1>1. UNCHANGED <<now, spans, given>>
  BY DEF Begin, costVars
<1>2. Grown /\ NoHoleBehind' /\ now' \in Nat \ {0}
  BY <1>1 DEF HoleInv, Grown, NoHoleBehind, Billed
<1>3. CASE job = "cost"
  <2>1. PICK b : b = [job |-> "cost", held |-> TRUE, stage |-> "plan", newest |-> TargetDay,
                      unit |-> 1, todo |-> <<>>, due |-> {}, failed |-> FALSE]
    OBVIOUS
  <2>2. /\ DOMAIN b = CostFields /\ b.job = "cost" /\ b.held = TRUE /\ b.stage = "plan"
        /\ b.newest = now - 1 /\ b.unit = 1 /\ b.todo = <<>> /\ b.due = {} /\ b.failed = FALSE
    BY <2>1 DEF CostFields, TargetDay
  <2>3. Become(r, b)
    BY <1>3, <2>1 DEF Begin
  <2>4. b # Idle
    BY <2>2 DEF Idle
  <2>5. Becomes(r, b)
    BY <2>2, <2>3, <2>4 DEF Becomes, Shaped
  <2>6. JobTyped(b)'
    <3>1. <<>> \in Seq(Series \X Days)
      BY EmptySeq
    <3>2. now - 1 \in Nat
      BY DEF HoleInv
    <3>3. b.newest \in Nat /\ b.todo \in Seq(Series \X Days)
      BY <2>2, <3>1, <3>2
    <3>4. b.stage # "insert"
      BY <2>2
    <3>5. b.unit \in Nat \ {0}
      BY <2>2
    <3>9. b.failed \in BOOLEAN
      BY <2>2, Zenon
    <3>6. b.due \in SUBSET (Series \X Days)
      BY <2>2
    <3>7. b.stage = "plan" => b.todo = <<>>
      BY <2>2
    <3>8. JobTyped(b)
      BY <3>3, <3>4, <3>5, <3>6, <3>7, <3>9 DEF JobTyped
    <3> QED BY <3>8 DEF JobTyped
  <2>7. InTurn(b.todo)' /\ DueRemembered(b)'
    <3>1. Len(<<>>) = 0
      BY EmptySeq
    <3> QED BY <2>2, <3>1 DEF InTurn, DueRemembered
  <2>8. JobInOrder(b)'
    BY <2>6, <2>7 DEF JobInOrder
  <2> QED BY <1>2, <2>5, <2>8, OneInOrder
<1>4. CASE job = "ingest"
  <2>1. PICK b : /\ Becomes(r, b) /\ b.job = job
    BY BeginBecomes
  <2>2. b.job # "cost"
    BY <1>4, <2>1
  <2> QED BY <1>2, <2>1, <2>2, OneInOrder
<1> QED BY <1>3, <1>4

\* The steps of a cycle, and the ends of a body, have nothing to do with spans.
LEMMA ElsewhereInOrder ==
    ASSUME HoleInv, BodiesShaped, now \in Nat, cursor \in Nat \cup {Never}, NEW r \in Replicas,
           \/ Window(r) \/ Ingest(r) \/ IngestFails(r) \/ Advance(r) \/ Crash(r) \/ CostJobEnds(r)
    PROVE  HoleInv'
<1>1. UNCHANGED <<now, spans, given>>
  BY DEF Window, Ingest, IngestFails, Advance, Crash, CostJobEnds, costVars
<1>2. Grown /\ NoHoleBehind' /\ now' \in Nat \ {0}
  BY <1>1 DEF HoleInv, Grown, NoHoleBehind, Billed
<1>3. \E b : Becomes(r, b) /\ b.job # "cost"
  <2>1. CASE Window(r)
    <3>1. PICK since \in Int :
            LET b == [job |-> "ingest", held |-> body[r].held, stage |-> "fetch",
                      since |-> since, until |-> now + Skew[r], missed |-> {}]
            IN  Becomes(r, b)
      BY <2>1, WindowBecomes
    <3> DEFINE b == [job |-> "ingest", held |-> body[r].held, stage |-> "fetch",
                     since |-> since, until |-> now + Skew[r], missed |-> {}]
    <3>2. Becomes(r, b) /\ b.job # "cost"
      BY <3>1
    <3> HIDE DEF b
    <3> QED BY <3>2
  <2>2. CASE Ingest(r)
    <3>1. PICK b : Becomes(r, b) /\ b.job = "ingest"
      BY <2>2, FetchBecomes
    <3> QED BY <3>1
  <2>3. CASE IngestFails(r) \/ Advance(r) \/ Crash(r) \/ CostJobEnds(r)
    <3>1. Become(r, Idle)
      BY <2>3 DEF IngestFails, GiveUp, Advance, Crash, CostJobEnds
    <3>2. Becomes(r, Idle) /\ Idle.job # "cost"
      BY <3>1, IdleBecomes DEF Idle
    <3> QED BY <3>2
  <2> QED BY <2>1, <2>2, <2>3
<1> QED BY <1>2, <1>3, OneInOrder

\* A job that goes on as b, everything else staying as it is.
LEMMA GoesOnInOrder ==
    ASSUME HoleInv, BodiesShaped, UNCHANGED <<now, spans, given>>,
           NEW r \in Replicas, NEW b, Becomes(r, b), JobInOrder(b)
    PROVE  HoleInv'
<1>1. Grown /\ NoHoleBehind' /\ now' \in Nat \ {0}
  BY DEF HoleInv, Grown, NoHoleBehind, Billed
<1>2. JobInOrder(b)'
  BY <1>1, StaysInOrder
<1> QED BY <1>1, <1>2, OneInOrder

\* With the head closed the rest is in turn, whichever days those are.
InTurnBut(todo, closed) ==
    \A i \in 1..Len(todo) : \A d \in Spend[todo[i][1]] :
      d < todo[i][2] =>
        <<todo[i][1], d>> \in closed \/ \E j \in 1..(i - 1) : todo[j] = <<todo[i][1], d>>

LEMMA RestInTurn ==
    ASSUME NEW todo \in Seq(Series \X Days), todo # <<>>, NEW closed, InTurnBut(todo, closed),
           Head(todo) \in closed
    PROVE  InTurnBut(Tail(todo), closed)
<1> DEFINE Pairs == Series \X Days
           rest == Tail(todo)
<1>1. /\ rest \in Seq(Pairs) /\ Len(rest) = Len(todo) - 1 /\ Len(todo) \in Nat /\ Head(todo) = todo[1]
      /\ \A i \in 1..Len(rest) : rest[i] = todo[i + 1]
  BY HeadTailProperties, LenProperties
<1> HIDE DEF rest
<1>2. ASSUME NEW i \in 1..Len(rest), NEW d \in Spend[rest[i][1]], d < rest[i][2]
      PROVE  <<rest[i][1], d>> \in closed \/ \E j \in 1..(i - 1) : rest[j] = <<rest[i][1], d>>
  <2> DEFINE s == rest[i][1]
  <2>1. i + 1 \in 1..Len(todo) /\ todo[i + 1] = rest[i] /\ i \in Nat
    BY <1>1
  <2>2. <<s, d>> \in closed \/ \E j \in 1..((i + 1) - 1) : todo[j] = <<s, d>>
    BY <1>2, <2>1 DEF InTurnBut
  <2>3. ASSUME NEW j \in 1..((i + 1) - 1), todo[j] = <<s, d>>
        PROVE  <<s, d>> \in closed \/ \E k \in 1..(i - 1) : rest[k] = <<s, d>>
    <3>1. CASE j = 1
      <4>1. Head(todo) = <<s, d>>
        BY <1>1, <2>3, <3>1
      <4> QED BY <4>1
    <3>2. CASE j # 1
      <4>1. j - 1 \in 1..(i - 1) /\ j - 1 \in 1..Len(rest) /\ (j - 1) + 1 = j
        BY <1>1, <2>1, <3>2
      <4> QED BY <1>1, <2>3, <4>1
    <3> QED BY <3>1, <3>2
  <2> QED BY <2>2, <2>3
<1> QED BY <1>2 DEF InTurnBut, rest

LEMMA InTurnBy ==
    ASSUME NEW todo \in Seq(Series \X Days)
    PROVE  InTurn(todo) <=> InTurnBut(todo, {x \in Series \X Days : Closed(x[1], x[2])})
<1> DEFINE Pairs == Series \X Days
<1>1. \A i \in 1..Len(todo) : todo[i][1] \in Series
  <2> HIDE DEF Pairs
  <2>1. \A i \in 1..Len(todo) : todo[i] \in Pairs
    BY ElementOfSeq DEF Pairs
  <2> QED BY <2>1 DEF Pairs
<1>2. \A s \in Series : \A d \in Spend[s] :
        <<s, d>> \in {x \in Pairs : Closed(x[1], x[2])} <=> Closed(s, d)
  <2> SUFFICES ASSUME NEW s \in Series, NEW d \in Spend[s]
               PROVE  <<s, d>> \in {x \in Pairs : Closed(x[1], x[2])} <=> Closed(s, d)
    OBVIOUS
  <2>1. <<s, d>> \in Pairs /\ <<s, d>>[1] = s /\ <<s, d>>[2] = d
    OBVIOUS
  <2> QED BY <2>1
<1> QED BY <1>1, <1>2 DEF InTurn, InTurnBut

\* A job whose head is billed drops it.
LEMMA TailInOrder ==
    ASSUME NEW a, JobInOrder(a), a.todo # <<>>, NEW b,
           \A f \in {"newest", "unit", "failed", "due"} : b[f] = a[f],
           b.todo = Tail(a.todo), b.stage = "check",
           Billed(Head(a.todo)[1], Head(a.todo)[2])
    PROVE  JobInOrder(b)
<1>1. JobTyped(a) /\ InTurn(a.todo) /\ DueRemembered(a)
  BY DEF JobInOrder
<1> DEFINE Pairs == Series \X Days
           todo == a.todo
<1>2. todo \in Seq(Pairs) /\ todo # <<>>
  BY <1>1 DEF JobTyped
<1>3. Tail(todo) \in Seq(Pairs) /\ Range(todo) = {Head(todo)} \cup Range(Tail(todo))
  <2> HIDE DEF Pairs, todo
  <2> QED BY <1>2, HeadAndTail
<1>4. JobTyped(b)
  BY <1>1, <1>3 DEF JobTyped
<1>5. InTurn(b.todo)
  <2> DEFINE closed == {x \in Pairs : Closed(x[1], x[2])}
  <2>1. InTurnBut(todo, closed)
    BY <1>1, <1>2, InTurnBy
  <2>2. Head(todo) \in closed
    <3>1. Head(todo) \in Pairs
      <4> HIDE DEF Pairs, todo
      <4> QED BY <1>2, HeadAndTail
    <3> QED BY <3>1 DEF Closed
  <2> HIDE DEF closed
  <2>3. InTurnBut(Tail(todo), closed)
    BY <1>2, <2>1, <2>2, RestInTurn
  <2>4. Tail(todo) \in Seq(Series \X Days)
    BY <1>3
  <2> QED BY <2>3, <2>4, InTurnBy DEF closed
<1>6. DueRemembered(b)
  BY <1>1, <1>3 DEF DueRemembered
<1> QED BY <1>4, <1>5, <1>6 DEF JobInOrder

\* A job with nothing left to emit, between its units or in front of one.
LEMMA EmptyInOrder ==
    ASSUME NEW b, b.todo = <<>>, b.stage \in {"plan", "check"}, b.newest \in Nat,
           b.unit \in Nat \ {0}, b.due \in SUBSET (Series \X Days), b.failed \in BOOLEAN,
           ~b.failed => \A span \in b.due : Billed(span[1], span[2])
    PROVE  JobInOrder(b)
<1>1. <<>> \in Seq(Series \X Days) /\ Len(<<>>) = 0
  BY EmptySeq
<1> QED BY <1>1 DEF JobInOrder, JobTyped, InTurn, DueRemembered

\* The days before a window are closed: behind what is in sight there is no hole, and
\* where nothing is in sight they are given up.
LEMMA BeforeWindow ==
    ASSUME NoHoleBehind, NEW unit \in Seq(Series), NEW newest \in Nat, NEW lo \in Nat, NEW hi \in Nat,
           lo <= hi,
           \A s \in Range(unit) : InSight(s, newest) # {} =>
              Max(InSight(s, newest)) \in InSight(s, newest) /\ lo <= Max(InSight(s, newest)) + 1,
           NEW s \in Range(unit), NEW d \in Spend[s], d < lo
    PROVE  Closed(s, d) \/ <<s, d>> \in GivenUp(unit, lo..hi, newest)
<1>1. s \in Series /\ d \in Days /\ d \in Nat
  BY DEF Range, Days
<1>2. Min(lo..hi) = lo
  <2> DEFINE window == lo..hi
  <2>1. window \in SUBSET Nat /\ window # {} /\ lo \in window /\ \A x \in window : lo <= x
    <3>1. \A x \in window : x \in Nat /\ lo <= x
      OBVIOUS
    <3>2. lo \in window
      OBVIOUS
    <3> QED BY <3>1, <3>2
  <2> HIDE DEF window
  <2>2. Min(window) \in window /\ \A x \in window : Min(window) <= x
    BY <2>1, MinIsLeast
  <2>3. Min(window) <= lo /\ lo <= Min(window) /\ Min(window) \in Nat
    BY <2>1, <2>2
  <2>4. Min(window) = lo
    BY <2>3
  <2> QED BY <2>4 DEF window
<1>3. CASE InSight(s, newest) = {}
  <2>1. <<s, d>> \in Range(unit) \X Days
    BY <1>1
  <2>2. CASE ~Billed(s, d)
    BY <1>2, <1>3, <2>1, <2>2 DEF GivenUp
  <2> QED BY <2>2 DEF Closed
<1>4. CASE InSight(s, newest) # {}
  <2> DEFINE m == Max(InSight(s, newest))
  <2>1. m \in InSight(s, newest) /\ lo <= m + 1
    BY <1>4
  <2> HIDE DEF m
  <2>2. m \in Days /\ m \in Nat /\ Billed(s, m) /\ lo <= m + 1
    BY <2>1 DEF InSight, Days
  <2>3. CASE d = m
    BY <2>2, <2>3 DEF Closed
  <2>4. CASE d # m
    <3>1. d < m
      BY <1>1, <2>2, <2>4
    <3> QED BY <1>1, <2>2, <3>1 DEF NoHoleBehind, Closed
  <2> QED BY <2>3, <2>4
<1> QED BY <1>3, <1>4

\* So what a plan brings comes in turn, with all that is due unless a fetch failed.
Planned(todo, unit, window, newest, broken) ==
    /\ todo \in Seq(Series \X Days)
    /\ broken = {} => Owed(unit, window) \subseteq Range(todo)
    /\ \A i \in 1..Len(todo) : \A d \in Spend[todo[i][1]] :
         d < todo[i][2] =>
           \/ Closed(todo[i][1], d)
           \/ <<todo[i][1], d>> \in GivenUp(unit, window, newest)
           \/ \E j \in 1..(i - 1) : todo[j] = <<todo[i][1], d>>

LEMMA PlannedInTurn ==
    ASSUME NoHoleBehind, NEW unit \in Seq(Series), NEW newest \in Nat, NEW broken,
           NEW window, window = BillingWindow(unit, newest)
    PROVE  Planned(ToEmit(unit, window, broken), unit, window, newest, broken)
<1>1. PICK lo, hi \in Nat :
        /\ lo <= hi /\ BillingWindow(unit, newest) = lo..hi
        /\ \A s \in Range(unit) : InSight(s, newest) # {} =>
             Max(InSight(s, newest)) \in InSight(s, newest) /\ lo <= Max(InSight(s, newest)) + 1
  BY UnitWindow
<1> DEFINE todo == ToEmit(unit, lo..hi, broken)
<1>2. Emits(todo, unit, lo..hi) /\ (broken = {} => Owed(unit, lo..hi) \subseteq Range(todo))
  BY <1>1, UnitEmits
<1> HIDE DEF todo
<1>3. ASSUME NEW i \in 1..Len(todo), NEW d \in Spend[todo[i][1]], d < todo[i][2]
      PROVE  \/ Closed(todo[i][1], d)
             \/ <<todo[i][1], d>> \in GivenUp(unit, lo..hi, newest)
             \/ \E j \in 1..(i - 1) : todo[j] = <<todo[i][1], d>>
  <2> DEFINE s == todo[i][1]
             e == todo[i][2]
  <2>1. /\ s \in Range(unit) /\ e \in lo..hi
        /\ \A x \in Spend[s] \cap (lo..hi) : x < e => \E j \in 1..(i - 1) : todo[j] = <<s, x>>
    BY <1>2, <1>3 DEF Emits
  <2>2. s \in Series /\ d \in Spend[s] /\ d < e
    BY <1>3, <2>1 DEF Range
  <2> HIDE DEF s, e
  <2>3. d \in Nat
    BY <2>2 DEF Days
  <2>4. CASE d < lo
    <3>1. Closed(s, d) \/ <<s, d>> \in GivenUp(unit, lo..hi, newest)
      BY <1>1, <2>1, <2>2, <2>4, BeforeWindow
    <3> QED BY <3>1 DEF s
  <2>5. CASE lo <= d
    <3>1. d \in Spend[s] \cap (lo..hi)
      BY <2>1, <2>2, <2>3, <2>5
    <3>2. \E j \in 1..(i - 1) : todo[j] = <<s, d>>
      BY <2>1, <2>2, <3>1
    <3> QED BY <3>2 DEF s
  <2> QED BY <1>1, <2>3, <2>4, <2>5
<1>4. Planned(todo, unit, lo..hi, newest, broken)
  BY <1>2, <1>3 DEF Emits, Planned
<1> QED BY <1>1, <1>4 DEF todo

\* A job that plans its next unit.
LEMMA PlanInOrder ==
    ASSUME HoleInv, BodiesShaped, NEW r \in Replicas, PlanUnit(r)
    PROVE  HoleInv'
<1>1. body[r].job = "cost" /\ body[r].stage = "plan" /\ body[r].unit <= Len(Units)
  BY DEF PlanUnit, At
<1>2. PICK a : a = body[r]
  OBVIOUS
<1>3. /\ JobTyped(a) /\ DueRemembered(a) /\ DOMAIN a = CostFields /\ a.job = "cost"
      /\ a.held = body[r].held /\ a.stage = "plan" /\ a.unit <= Len(Units)
  BY <1>1, <1>2, JobOf DEF JobInOrder
<1>4. PICK unit : unit = Units[a.unit]
  OBVIOUS
<1>5. unit \in Seq(Series)
  <2>1. a.unit \in 1..Len(Units)
    BY <1>3, LenProperties DEF JobTyped
  <2> QED BY <1>4, <2>1, ElementOfSeq
<1>6. PICK newest : newest = a.newest
  OBVIOUS
<1>7. PICK window : window = BillingWindow(unit, newest)
  OBVIOUS
<1>8. PICK broken :
        /\ Become(r, [a EXCEPT !.stage = "check", !.todo = ToEmit(unit, window, broken),
                               !.due = @ \cup Owed(unit, window), !.failed = @ \/ broken # {}])
        /\ given' = given \cup GivenUp(unit, window, newest)
        /\ UNCHANGED <<now, spans>>
  BY <1>2, <1>4, <1>6, <1>7 DEF PlanUnit
<1>9. PICK todo : todo = ToEmit(unit, window, broken)
  OBVIOUS
<1>10. Planned(todo, unit, window, newest, broken)
  <2>1. newest \in Nat /\ NoHoleBehind
    BY <1>3, <1>6 DEF JobTyped, HoleInv
  <2>2. Planned(ToEmit(unit, window, broken), unit, window, newest, broken)
    BY <1>5, <1>7, <2>1, PlannedInTurn
  <2> QED BY <1>9, <2>2
<1>11. PICK owed : owed = Owed(unit, window)
  OBVIOUS
<1>12. PICK b : b = [a EXCEPT !.stage = "check", !.todo = todo, !.due = @ \cup owed,
                              !.failed = @ \/ broken # {}]
  OBVIOUS
<1>13. Become(r, b)
  BY <1>8, <1>9, <1>11, <1>12
<1>14. /\ DOMAIN b = CostFields /\ b.job = a.job /\ b.held = a.held /\ b.stage = "check"
       /\ b.todo = todo /\ b.due = a.due \cup owed /\ b.newest = a.newest /\ b.unit = a.unit
  BY <1>3, <1>12 DEF CostFields
<1>15. b.failed = (a.failed \/ broken # {})
  BY <1>3, <1>12 DEF CostFields
<1>16. Becomes(r, b)
  BY <1>2, <1>3, <1>13, <1>14, CostGoesOn
<1>17. Grown /\ NoHoleBehind' /\ now' \in Nat \ {0}
  BY <1>8 DEF HoleInv, Grown, NoHoleBehind, Billed
<1>18. JobTyped(b)'
  <2>1. b.newest \in Nat /\ b.unit \in Nat \ {0}
    BY <1>3, <1>14 DEF JobTyped
  <2>2. b.failed \in BOOLEAN
    BY <1>15, Zenon
  <2>3. b.todo \in Seq(Series \X Days)
    BY <1>10, <1>14 DEF Planned
  <2>4. b.due \in SUBSET (Series \X Days)
    <3>1. owed \in SUBSET (Series \X Days)
      <4> SUFFICES ASSUME NEW x \in owed PROVE x \in Series \X Days
        OBVIOUS
      <4>1. x \in Range(unit) \X window /\ x[2] \in Spend[x[1]]
        BY <1>11 DEF Owed
      <4>2. x[1] \in Series /\ x = <<x[1], x[2]>>
        BY <1>5, <4>1 DEF Range
      <4> QED BY <4>1, <4>2
    <3>2. a.due \in SUBSET (Series \X Days)
      BY <1>3 DEF JobTyped
    <3> QED BY <1>14, <3>1, <3>2
  <2>5. b.stage # "plan" /\ b.stage # "insert"
    BY <1>14
  <2>6. JobTyped(b)
    BY <2>1, <2>2, <2>3, <2>4, <2>5 DEF JobTyped
  <2> QED BY <2>6 DEF JobTyped
<1>19. InTurn(todo)'
  <2> SUFFICES ASSUME NEW i \in 1..Len(todo), NEW d \in Spend[todo[i][1]], d < todo[i][2]
               PROVE  Closed(todo[i][1], d)' \/ \E j \in 1..(i - 1) : todo[j] = <<todo[i][1], d>>
    BY DEF InTurn
  <2>1. \/ Closed(todo[i][1], d)
        \/ <<todo[i][1], d>> \in GivenUp(unit, window, newest)
        \/ \E j \in 1..(i - 1) : todo[j] = <<todo[i][1], d>>
    BY <1>10 DEF Planned
  <2>2. <<todo[i][1], d>> \in GivenUp(unit, window, newest) => Closed(todo[i][1], d)'
    BY <1>8 DEF Closed
  <2>3. Closed(todo[i][1], d) => Closed(todo[i][1], d)'
    BY <1>8 DEF Closed, Billed
  <2> QED BY <2>1, <2>2, <2>3
<1>20. DueRemembered(b)'
  <2> SUFFICES ASSUME ~b.failed, NEW x \in b.due
               PROVE  Billed(x[1], x[2])' \/ x \in Range(b.todo)
    BY DEF DueRemembered
  <2>1. ~a.failed /\ broken = {}
    BY <1>15, Zenon
  <2>2. CASE x \in owed
    BY <1>10, <1>11, <1>14, <2>1, <2>2 DEF Planned
  <2>3. CASE x \in a.due
    <3>1. a.todo = <<>>
      BY <1>3 DEF JobTyped
    <3>2. Range(a.todo) = {}
      BY <3>1 DEF Range
    <3>3. Billed(x[1], x[2])
      BY <1>3, <2>1, <2>3, <3>2 DEF DueRemembered
    <3> QED BY <1>8, <3>3 DEF Billed
  <2> QED BY <1>14, <2>2, <2>3
<1>21. JobInOrder(b)'
  <2>1. InTurn(b.todo)'
    BY <1>14, <1>19
  <2> QED BY <1>18, <1>20, <2>1 DEF JobInOrder
<1> QED BY <1>16, <1>17, <1>21, OneInOrder

\* A job that has looked: the day is there, or its span is to be inserted.
LEMMA CheckInOrder ==
    ASSUME HoleInv, BodiesShaped, NEW r \in Replicas, CheckSpan(r)
    PROVE  HoleInv'
<1>1. body[r].job = "cost" /\ body[r].stage = "check" /\ body[r].todo # <<>>
      /\ UNCHANGED <<now, spans, given>>
  BY DEF CheckSpan, At, costVars
<1>2. PICK a : a = body[r]
  OBVIOUS
<1>3. JobInOrder(a) /\ DOMAIN a = CostFields /\ a.job = "cost" /\ a.stage = "check" /\ a.todo # <<>>
  BY <1>1, <1>2, JobOf
<1>4. CASE AlreadyThere(Head(body[r].todo))
  <2> DEFINE b == [a EXCEPT !.todo = Tail(@)]
  <2>1. /\ DOMAIN b = CostFields /\ b.job = a.job /\ b.held = a.held /\ b.stage = "check"
        /\ b.todo = Tail(a.todo)
        /\ \A f \in {"newest", "unit", "failed", "due"} : b[f] = a[f]
    BY <1>3 DEF CostFields
  <2>2. Become(r, b)
    BY <1>2, <1>4 DEF CheckSpan
  <2> HIDE DEF b
  <2>3. Becomes(r, b)
    BY <1>2, <1>3, <2>1, <2>2, CostGoesOn
  <2>4. Billed(Head(a.todo)[1], Head(a.todo)[2])
    BY <1>2, <1>4 DEF AlreadyThere
  <2>5. JobInOrder(b)
    BY <1>3, <2>1, <2>4, TailInOrder
  <2> QED BY <1>1, <2>3, <2>5, GoesOnInOrder
<1>5. CASE ~AlreadyThere(Head(body[r].todo))
  <2> DEFINE b == [a EXCEPT !.stage = "insert"]
  <2>1. /\ DOMAIN b = CostFields /\ b.job = a.job /\ b.held = a.held /\ b.stage = "insert"
        /\ b.todo = a.todo
        /\ \A f \in {"newest", "unit", "failed", "due"} : b[f] = a[f]
    BY <1>3 DEF CostFields
  <2>2. Become(r, b)
    BY <1>2, <1>5 DEF CheckSpan
  <2> HIDE DEF b
  <2>3. Becomes(r, b)
    BY <1>2, <1>3, <2>1, <2>2, CostGoesOn
  <2>4. JobTyped(b)
    BY <1>3, <2>1 DEF JobInOrder, JobTyped
  <2>5. InTurn(b.todo) /\ DueRemembered(b)
    BY <1>3, <2>1 DEF JobInOrder, DueRemembered
  <2>6. JobInOrder(b)
    BY <2>4, <2>5 DEF JobInOrder
  <2> QED BY <1>1, <2>3, <2>6, GoesOnInOrder
<1> QED BY <1>4, <1>5

\* A job done with a unit, for good or not.
LEMMA UnitInOrder ==
    ASSUME HoleInv, BodiesShaped, NEW r \in Replicas, NextUnit(r)
    PROVE  HoleInv'
<1>1. body[r].job = "cost" /\ body[r].stage = "check" /\ body[r].todo = <<>>
      /\ UNCHANGED <<now, spans, given>>
  BY DEF NextUnit, At, costVars
<1>2. PICK a : a = body[r]
  OBVIOUS
<1>3. JobInOrder(a) /\ DOMAIN a = CostFields /\ a.job = "cost" /\ a.todo = <<>>
  BY <1>1, <1>2, JobOf
<1> DEFINE b == [a EXCEPT !.stage = "plan", !.unit = @ + 1]
<1>4. /\ DOMAIN b = CostFields /\ b.job = a.job /\ b.held = a.held /\ b.stage = "plan"
      /\ b.todo = <<>> /\ b.unit = a.unit + 1
      /\ \A f \in {"newest", "failed", "due"} : b[f] = a[f]
  BY <1>3 DEF CostFields
<1>5. Become(r, b)
  BY <1>2 DEF NextUnit
<1> HIDE DEF b
<1>6. Becomes(r, b)
  BY <1>2, <1>3, <1>4, <1>5, CostGoesOn
<1>7. JobInOrder(b)
  <2>1. Range(a.todo) = {}
    BY <1>3 DEF Range
  <2>2. ~a.failed => \A span \in a.due : Billed(span[1], span[2])
    BY <1>3, <2>1 DEF JobInOrder, DueRemembered
  <2>3. b.newest \in Nat /\ b.unit \in Nat \ {0} /\ b.due \in SUBSET (Series \X Days)
    BY <1>3, <1>4 DEF JobInOrder, JobTyped
  <2>4. b.failed \in BOOLEAN
    BY <1>3, <1>4 DEF JobInOrder, JobTyped
  <2> QED BY <1>4, <2>2, <2>3, <2>4, EmptyInOrder
<1> QED BY <1>1, <1>6, <1>7, GoesOnInOrder

\* The first span of what is in turn leaves no hole behind it.
LEMMA InsertLeavesNoHole ==
    ASSUME NoHoleBehind, spans \in [Series -> [Days -> Nat]],
           NEW todo \in Seq(Series \X Days), todo # <<>>, InTurn(todo),
           spans' = Inserted(Head(todo)), given' = given
    PROVE  /\ NoHoleBehind' /\ Grown
           /\ Head(todo) \in Series \X Days /\ Billed(Head(todo)[1], Head(todo)[2])'
<1> DEFINE Pairs == Series \X Days
<1>1. PICK x : x = Head(todo)
  OBVIOUS
<1>2. x \in Pairs /\ x = todo[1] /\ 1 \in 1..Len(todo)
  <2>1. todo \in Seq(Pairs)
    OBVIOUS
  <2> HIDE DEF Pairs
  <2>2. Len(todo) \in Nat \ {0} /\ Head(todo) = todo[1] /\ Head(todo) \in Pairs
    BY <2>1, HeadTailProperties, LenProperties, HeadAndTail
  <2>3. 1 \in 1..Len(todo)
    BY <2>2
  <2> QED BY <1>1, <2>2, <2>3
<1>3. spans' = Inserted(x)
  BY <1>1
<1>4. /\ \A s \in Series : \A d \in Days :
           Billed(s, d)' <=> Billed(s, d) \/ (s = x[1] /\ d = x[2])
      /\ Grown
  BY <1>2, <1>3, InsertBills
<1>5. ASSUME NEW s \in Series, NEW d \in Spend[s], NEW newer \in Days, d < newer,
             Billed(s, newer)'
      PROVE  Closed(s, d)'
  <2>1. d \in Days
    OBVIOUS
  <2>2. Closed(s, d)
    <3>1. CASE Billed(s, newer)
      BY <1>5, <3>1 DEF NoHoleBehind, Closed
    <3>2. CASE s = x[1] /\ newer = x[2]
      <4>1. s = todo[1][1] /\ d \in Spend[todo[1][1]] /\ d < todo[1][2]
        BY <1>2, <1>5, <3>2
      <4>2. Closed(todo[1][1], d) \/ \E j \in 1..(1 - 1) : todo[j] = <<todo[1][1], d>>
        BY <1>2, <4>1 DEF InTurn
      <4> QED BY <4>1, <4>2
    <3> QED BY <1>4, <1>5, <3>1, <3>2
  <2> QED BY <1>4, <2>1, <2>2, ClosedStays
<1>6. NoHoleBehind'
  BY <1>5 DEF NoHoleBehind, Closed
<1> QED BY <1>1, <1>2, <1>4, <1>6

\* A job that inserts.
LEMMA InsertInOrder ==
    ASSUME HoleInv, BodiesShaped, spans \in [Series -> [Days -> Nat]], NEW r \in Replicas,
           InsertSpan(r)
    PROVE  HoleInv'
<1>1. body[r].job = "cost" /\ body[r].stage = "insert" /\ UNCHANGED <<now, given>>
  BY DEF InsertSpan, At
<1>2. PICK a : a = body[r]
  OBVIOUS
<1>3. /\ JobInOrder(a) /\ DOMAIN a = CostFields /\ a.job = "cost"
      /\ a.todo \in Seq(Series \X Days) /\ a.todo # <<>> /\ InTurn(a.todo)
  <2>1. JobInOrder(a) /\ DOMAIN a = CostFields /\ a.job = "cost" /\ a.stage = "insert"
    BY <1>1, <1>2, JobOf
  <2> QED BY <2>1 DEF JobInOrder, JobTyped
<1>4. PICK todo : todo = a.todo
  OBVIOUS
<1>5. spans' = Inserted(Head(todo))
  BY <1>2, <1>4 DEF InsertSpan
<1>6. NoHoleBehind' /\ Grown /\ Billed(Head(todo)[1], Head(todo)[2])'
  BY <1>1, <1>3, <1>4, <1>5, InsertLeavesNoHole DEF HoleInv
<1>7. PICK b : b = [a EXCEPT !.stage = "check", !.todo = Tail(@)]
  OBVIOUS
<1>8. /\ DOMAIN b = CostFields /\ b.job = a.job /\ b.held = a.held /\ b.stage = "check"
      /\ b.todo = Tail(a.todo)
      /\ \A f \in {"newest", "unit", "failed", "due"} : b[f] = a[f]
  BY <1>3, <1>7 DEF CostFields
<1>9. Become(r, b)
  BY <1>2, <1>7 DEF InsertSpan
<1>10. Becomes(r, b)
  BY <1>2, <1>3, <1>8, <1>9, CostGoesOn
<1>11. JobInOrder(a)'
  BY <1>3, <1>6, StaysInOrder
<1>12. JobInOrder(b)'
  <2> DEFINE Pairs == Series \X Days
             closed == {x \in Pairs : Closed(x[1], x[2])'}
  <2>1. todo \in Seq(Pairs) /\ todo # <<>> /\ Head(todo) \in Pairs
    BY <1>3, <1>4, <1>6
  <2>2. /\ Tail(todo) \in Seq(Pairs) /\ Range(todo) = {Head(todo)} \cup Range(Tail(todo))
        /\ \A i \in 1..Len(todo) : todo[i] \in Pairs
        /\ \A i \in 1..Len(Tail(todo)) : Tail(todo)[i] \in Pairs
    <3> HIDE DEF Pairs
    <3>1. Tail(todo) \in Seq(Pairs) /\ Range(todo) = {Head(todo)} \cup Range(Tail(todo))
      BY <2>1, HeadAndTail
    <3> QED BY <2>1, <3>1, ElementOfSeq
  <2>3. JobTyped(b)'
    <3>1. JobTyped(b)
      BY <1>3, <1>4, <1>8, <2>2 DEF JobInOrder, JobTyped
    <3> QED BY <3>1 DEF JobTyped
  <2>4. \A s \in Series : \A d \in Spend[s] : <<s, d>> \in closed <=> Closed(s, d)'
    <3> SUFFICES ASSUME NEW s \in Series, NEW d \in Spend[s]
                 PROVE  <<s, d>> \in closed <=> Closed(s, d)'
      OBVIOUS
    <3>1. <<s, d>> \in Pairs /\ <<s, d>>[1] = s /\ <<s, d>>[2] = d
      OBVIOUS
    <3> QED BY <3>1
  <2>5. Head(todo) \in closed
    BY <1>6, <2>1 DEF Closed
  <2> HIDE DEF closed
  <2>6. InTurnBut(todo, closed)
    <3>1. InTurn(todo)'
      BY <1>4, <1>11 DEF JobInOrder
    <3>2. \A i \in 1..Len(todo) : todo[i][1] \in Series
      BY <2>2
    <3> QED BY <2>4, <3>1, <3>2 DEF InTurn, InTurnBut
  <2>7. InTurnBut(Tail(todo), closed)
    BY <2>1, <2>5, <2>6, RestInTurn
  <2>8. InTurn(Tail(todo))'
    <3>1. \A i \in 1..Len(Tail(todo)) : Tail(todo)[i][1] \in Series
      BY <2>2
    <3> QED BY <2>4, <2>7, <3>1 DEF InTurn, InTurnBut
  <2>9. DueRemembered(b)'
    <3> SUFFICES ASSUME ~b.failed, NEW x \in b.due
                 PROVE  Billed(x[1], x[2])' \/ x \in Range(b.todo)
      BY DEF DueRemembered
    <3>1. Billed(x[1], x[2])' \/ x \in Range(todo)
      BY <1>4, <1>8, <1>11 DEF JobInOrder, DueRemembered
    <3> QED BY <1>4, <1>6, <1>8, <2>2, <3>1
  <2> QED BY <1>4, <1>8, <2>3, <2>8, <2>9 DEF JobInOrder
<1>13. now' \in Nat \ {0}
  BY <1>1 DEF HoleInv
<1> QED BY <1>6, <1>10, <1>12, <1>13, OneInOrder

\* A job whose look or insert raises: it knows it failed.
LEMMA RaiseInOrder ==
    ASSUME HoleInv, BodiesShaped, spans \in [Series -> [Days -> Nat]], NEW r \in Replicas,
           EmitRaises(r)
    PROVE  HoleInv'
<1>1. body[r].job = "cost" /\ UNCHANGED <<now, given>>
  BY DEF EmitRaises, At
<1>2. PICK a : a = body[r]
  OBVIOUS
<1>3. /\ JobInOrder(a) /\ DOMAIN a = CostFields /\ a.job = "cost" /\ JobTyped(a)
  BY <1>1, <1>2, JobOf DEF JobInOrder
<1>4. NoHoleBehind' /\ Grown
  <2>1. CASE spans' = spans
    BY <1>1, <2>1 DEF HoleInv, Grown, NoHoleBehind, Billed
  <2>2. CASE At(r, "cost", "insert") /\ spans' = Inserted(Head(body[r].todo))
    <3>1. /\ a.todo \in Seq(Series \X Days) /\ a.todo # <<>> /\ InTurn(a.todo)
      BY <1>2, <1>3, <2>2 DEF JobInOrder, JobTyped, At
    <3>2. PICK todo : todo = a.todo
      OBVIOUS
    <3>3. spans' = Inserted(Head(todo))
      BY <1>2, <2>2, <3>2
    <3> QED BY <1>1, <3>1, <3>2, <3>3, InsertLeavesNoHole DEF HoleInv
  <2> QED BY <2>1, <2>2 DEF EmitRaises
<1>5. PICK b : b = Caught(a)
  OBVIOUS
<1>6. /\ DOMAIN b = CostFields /\ b.job = a.job /\ b.held = a.held /\ b.stage = "plan"
      /\ b.todo = <<>> /\ b.unit = a.unit + 1 /\ b.failed = TRUE
      /\ \A f \in {"newest", "due"} : b[f] = a[f]
  BY <1>3, <1>5 DEF CostFields, Caught
<1>7. Become(r, b)
  BY <1>2, <1>5 DEF EmitRaises
<1>8. Becomes(r, b)
  BY <1>2, <1>3, <1>6, <1>7, CostGoesOn
<1>9. JobInOrder(b)'
  <2>1. b.newest \in Nat /\ b.unit \in Nat \ {0} /\ b.due \in SUBSET (Series \X Days)
    BY <1>3, <1>6 DEF JobTyped
  <2>2. b.failed \in BOOLEAN
    BY <1>6, Zenon
  <2>3. <<>> \in Seq(Series \X Days) /\ Len(<<>>) = 0
    BY EmptySeq
  <2>4. JobTyped(b)
    BY <1>6, <2>1, <2>2, <2>3 DEF JobTyped
  <2>5. JobTyped(b)'
    BY <2>4 DEF JobTyped
  <2>6. InTurn(b.todo)' /\ DueRemembered(b)'
    BY <1>6, <2>3 DEF InTurn, DueRemembered
  <2> QED BY <2>5, <2>6 DEF JobInOrder
<1>10. now' \in Nat \ {0}
  BY <1>1 DEF HoleInv
<1> QED BY <1>4, <1>8, <1>9, <1>10, OneInOrder

\* A body whose lock is gone has the same things to do.
LEMMA StrayInOrder ==
    ASSUME HoleInv, BodiesShaped, NEW r \in Replicas, LoseLock(r)
    PROVE  HoleInv'
<1>1. UNCHANGED <<now, spans, given>>
  BY DEF LoseLock, costVars
<1>2. CASE body[r].job = "cost"
  <2>1. PICK a : a = body[r]
    OBVIOUS
  <2>2. JobInOrder(a) /\ DOMAIN a = CostFields /\ a.job = "cost"
        /\ a.stage \in {"plan", "check", "insert"}
    BY <1>2, <2>1, JobOf, CostBody
  <2>3. PICK b : b = [a EXCEPT !.held = FALSE]
    OBVIOUS
  <2>4. /\ DOMAIN b = CostFields /\ b.held = FALSE /\ b.job = "cost"
        /\ \A f \in {"stage", "todo", "newest", "unit", "failed", "due"} : b[f] = a[f]
    BY <2>2, <2>3 DEF CostFields
  <2>5. Become(r, b)
    BY <2>1, <2>3 DEF LoseLock
  <2>6. Becomes(r, b)
    <3>1. b.held \in BOOLEAN
      BY <2>4, Zenon
    <3>2. Shaped(b)
      BY <2>2, <2>4 DEF Shaped
    <3> QED BY <2>5, <3>1, <3>2 DEF Becomes
  <2>7. JobInOrder(b)
    BY <2>2, <2>4 DEF JobInOrder, JobTyped, DueRemembered
  <2> QED BY <1>1, <2>6, <2>7, GoesOnInOrder
<1>3. CASE body[r].job # "cost"
  <2>1. PICK b : Becomes(r, b) /\ b["job"] = body[r]["job"]
    BY StrayBecomes
  <2>2. b.job # "cost"
    BY <1>3, <2>1
  <2>3. Grown /\ NoHoleBehind' /\ now' \in Nat \ {0}
    BY <1>1 DEF HoleInv, Grown, NoHoleBehind, Billed
  <2> QED BY <2>1, <2>2, <2>3, OneInOrder
<1> QED BY <1>2, <1>3

\* The clock alone.
LEMMA TickInOrder ==
    ASSUME HoleInv, UNCHANGED <<body, spans, given>>, now' \in Nat \ {0}
    PROVE  HoleInv'
<1>0. body' = body
  OBVIOUS
<1>1. Grown /\ NoHoleBehind'
  BY DEF HoleInv, Grown, NoHoleBehind, Billed
<1>2. ASSUME NEW q \in Replicas, body'[q].job = "cost" PROVE JobInOrder(body[q])'
  <2>1. PICK c : c = body'[q]
    OBVIOUS
  <2>2. c = body[q] /\ body[q].job = "cost"
    BY <1>0, <1>2, <2>1
  <2>3. JobInOrder(body[q])
    BY <2>2 DEF HoleInv, JobsInOrder
  <2>4. JobInOrder(c)
    BY <2>2, <2>3
  <2>5. JobInOrder(c)'
    BY <1>1, <2>4, StaysInOrder
  <2> QED BY <2>1, <2>5, InOrderThere
<1> QED BY <1>1, <1>2 DEF HoleInv, JobsInOrder

LEMMA HoleStep == ASSUME HoleInv, BilledInv, CursorInv, [Next]_vars PROVE HoleInv'
<1>1. /\ BodiesShaped /\ spans \in [Series -> [Days -> Nat]]
      /\ now \in Nat /\ cursor \in Nat \cup {Never}
  BY DEF BilledInv, CursorInv
<1>2. CASE Tick \/ UNCHANGED vars
  <2>1. UNCHANGED <<body, spans, given>> /\ (now' = now \/ now' = now + 1)
    BY <1>2 DEF Tick, vars, costVars
  <2>2. now' \in Nat \ {0}
    BY <2>1 DEF HoleInv
  <2> QED BY <2>1, <2>2, TickInOrder
<1>3. ASSUME NEW r \in Replicas,
             \/ \E job \in {"cost", "ingest"} : Begin(r, job)
             \/ PlanUnit(r) \/ CheckSpan(r) \/ InsertSpan(r) \/ EmitRaises(r)
             \/ NextUnit(r) \/ CostJobEnds(r)
             \/ Window(r) \/ Ingest(r) \/ IngestFails(r) \/ Advance(r)
             \/ Crash(r) \/ LoseLock(r)
      PROVE  HoleInv'
  BY <1>1, <1>3, BeginsInOrder, PlanInOrder, CheckInOrder, InsertInOrder, RaiseInOrder,
     UnitInOrder, ElsewhereInOrder, StrayInOrder
<1> QED BY <1>2, <1>3 DEF Next

LEMMA HoleStart == Init => HoleInv
<1> SUFFICES ASSUME Init PROVE HoleInv
  OBVIOUS
<1>1. JobsInOrder /\ now \in Nat \ {0}
  BY DEF Init, JobsInOrder, Idle
<1>2. \A s \in Series : \A d \in Days : ~Billed(s, d)
  BY DEF Init, Billed
<1>3. NoHoleBehind
  BY <1>2 DEF NoHoleBehind
<1> QED BY <1>1, <1>3 DEF HoleInv

\* No day with spend is left behind a newer billed day of its series, whatever fetches
\* and inserts fail, whatever dies and however runs overlap, but for days given up
\* when their series had nothing in sight.
THEOREM NoHoleBehindHolds == Spec => []NoHoleBehind
<1>1. Init => CursorInv /\ BilledInv /\ HoleInv
  BY CursorStart, BilledStart, HoleStart
<1>2. CursorInv /\ BilledInv /\ HoleInv /\ [Next]_vars => (CursorInv /\ BilledInv /\ HoleInv)'
  BY CursorStep, BilledStep, HoleStep
<1>3. HoleInv => NoHoleBehind
  BY DEF HoleInv
<1> QED BY <1>1, <1>2, <1>3, PTL DEF Spec

\* A cost job that comes to its end without a failure has billed each day that any
\* of its windows found due.
THEOREM SuccessMeansBilledHolds == Spec => []SuccessMeansBilled
<1>1. Init => CursorInv /\ BilledInv /\ HoleInv
  BY CursorStart, BilledStart, HoleStart
<1>2. CursorInv /\ BilledInv /\ HoleInv /\ [Next]_vars => (CursorInv /\ BilledInv /\ HoleInv)'
  BY CursorStep, BilledStep, HoleStep
<1>3. ASSUME HoleInv PROVE SuccessMeansBilled
  <2> SUFFICES ASSUME NEW r \in Replicas, At(r, "cost", "plan"), ~body[r].failed,
                      NEW span \in body[r].due
               PROVE  Billed(span[1], span[2])
    BY DEF SuccessMeansBilled
  <2>1. JobTyped(body[r]) /\ DueRemembered(body[r]) /\ body[r].stage = "plan"
    BY <1>3 DEF HoleInv, JobsInOrder, JobInOrder, At
  <2>2. Range(body[r].todo) = {}
    BY <2>1 DEF JobTyped, Range
  <2> QED BY <2>1, <2>2 DEF DueRemembered
<1> QED BY <1>1, <1>2, <1>3, PTL DEF Spec
=============================================================================
