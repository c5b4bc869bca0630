--------------------------- MODULE BackgroundJobs ---------------------------
(***************************************************************************)
(* Two bodies the scheduler runs for a tenant:                             *)
(*   the cost connector job (gateway/cost_connector_job.py with            *)
(*     connectors/base.py), which turns each billed day of each cost       *)
(*     series into one synthetic span, and                                 *)
(*   an integration's ingest cycle (gateway/integration_workers.py with    *)
(*     gateway/ingest_cursors.py), which pulls events up to a cursor.      *)
(* Neither keeps state between its runs but in the stores: what is owed    *)
(* is worked out again from the spans and from the cursor.                 *)
(*                                                                         *)
(* When bodies start is left open.  Of the scheduler only what JobRuns     *)
(* promises is used: while its lock lives, a body is alone with its pair.  *)
(***************************************************************************)
EXTENDS Integers, FiniteSets, SequencesExt

CONSTANTS Replicas,        \* gateway processes
          Skew,            \* how far the clock of each is ahead
          Configurations,  \* the jobs a tenant may have configured: sets of job names
          MaxTime,         \* how far the clock goes; its unit is the day of the cost job
          MaxMishaps,      \* failures of anything, crashes, and locks lost, in all
          \* the cost connector job
          Units,           \* its connectors in turn, each the sequence of its series
          Spend,           \* the days each series costs something
          CatchUp,         \* MAX_CATCHUP_DAYS
          Lookback,        \* LOOKBACK_DAYS
          \* the ingest cycle
          Events,          \* those a mapper turns into something to store, or chokes on
          Unmappable,      \* those it chokes on, every time it is shown them
          Time,            \* when each event happened
          Lag,             \* how much later the provider shows it
          Overlap,         \* CURSOR_OVERLAP_S
          InitialLookback  \* INITIAL_LOOKBACK_S

Series == UNION {Range(Units[u]) : u \in DOMAIN Units}
Days == 0..MaxTime

ASSUME BackgroundJobsConstants ==
    /\ Skew \in [Replicas -> Nat]
    /\ Units \in Seq(Seq(Series))
    /\ \A c \in Configurations : c \subseteq {"cost", "ingest"}
    /\ Spend \in [Series -> SUBSET Days]
    /\ MaxTime \in Nat /\ MaxMishaps \in Nat
    /\ CatchUp \in Nat /\ Lookback \in Nat /\ 0 < CatchUp /\ CatchUp < Lookback
    /\ Overlap \in Nat /\ InitialLookback \in Nat
    /\ Unmappable \subseteq Events
    /\ Time \in [Events -> Nat] /\ Lag \in [Events -> Nat]
    \* The overlap is sized to the provider's lateness and to clock skew.
    /\ \A e \in Events, r \in Replicas : Lag[e] + Skew[r] <= Overlap

VARIABLES
    now,         \* the true time
    configured,  \* the jobs this tenant has configured
    body,        \* what each replica is at
    mishaps,     \* failures so far
    astray,      \* bodies that have gone on without their lock so far
    spans,       \* otel_spans: how many synthetic spans a (series, day) has
    given,       \* history: the (series, day) pairs that were given up
    cursor,      \* tenant_ingest_cursors: the watermark, or Never
    ingested,    \* business_events: the events stored
    waived,      \* history: events before the initial window of a cycle that knew no cursor
    unmapped,    \* history: events a cycle counted as failed to map
    overlooked   \* history: events the cursor passed by, missing in the answer of its cycle

costVars == <<spans, given>>
ingestVars == <<cursor, ingested, waived, unmapped, overlooked>>
vars == <<now, configured, body, mishaps, astray, costVars, ingestVars>>

Never == -1
Idle == [job |-> "none"]

-----------------------------------------------------------------------------
(* The window of a connector.                                              *)

\* target_day: the newest day that is over, when the run begins.
TargetDay == now - 1

Billed(s, d) == spans[s][d] > 0

\* last_billed_day: the probe goes back Lookback days and no further.
InSight(s, newest) == {d \in Days : newest - Lookback < d /\ d <= newest /\ Billed(s, d)}

\* Taking the series that is furthest ahead.
WindowOfNewest(unit, newest) ==
    LET known == {Max(InSight(s, newest)) : s \in {x \in Range(unit) : InSight(x, newest) # {}}}
        start == IF known = {} THEN newest ELSE Min({newest, Max(known) + 1})
    IN  start .. Min({start + CatchUp - 1, newest})

\* billing_window: from the day after the oldest of the last billed days.
BillingWindow(unit, newest) ==
    LET known == {Max(InSight(s, newest)) : s \in {x \in Range(unit) : InSight(x, newest) # {}}}
        start == IF known = {} THEN newest ELSE Min({newest, Min(known) + 1})
    IN  start .. Min({start + CatchUp - 1, newest})

\* What the provider answers for a window: the days with spend, in order.
DailyCosts(s, window) ==
    LET costs[n \in 0..Cardinality(window)] ==
          LET day == Min(window) + (n - 1)
          IN  IF n = 0 THEN <<>>
              ELSE IF day \in Spend[s] THEN Append(costs[n - 1], day) ELSE costs[n - 1]
    IN  costs[Cardinality(window)]

\* The days a unit has to bill.
Owed(unit, window) == {day \in Range(unit) \X window : day[2] \in Spend[day[1]]}

\* The answers of a unit's series one after another, those of failed fetches missing.
ToEmit(unit, window, broken) ==
    FlattenSeq([i \in DOMAIN unit |->
                  IF unit[i] \in broken THEN <<>>
                  ELSE LET costs == DailyCosts(unit[i], window)
                       IN  [j \in DOMAIN costs |-> <<unit[i], costs[j]>>]])

-----------------------------------------------------------------------------
Init ==
    /\ now = 1
    /\ configured \in Configurations
    /\ body = [r \in Replicas |-> Idle]
    /\ mishaps = 0
    /\ astray = 0
    /\ spans = [s \in Series |-> [d \in Days |-> 0]]
    /\ given = {}
    /\ cursor = Never /\ ingested = {}
    /\ waived = {} /\ unmapped = {} /\ overlooked = {}

\* One more thing goes wrong.
Mishap == mishaps < MaxMishaps /\ mishaps' = mishaps + 1

Protected(job) == \E r \in Replicas : body[r].job = job /\ body[r].held

Become(r, b) == body' = [body EXCEPT ![r] = b]

At(r, job, stage) == body[r].job = job /\ body[r].stage = stage

\* The scheduler starts a body.  (A job that is not configured raises JobSkipped.)
Begin(r, job) ==
    /\ body[r] = Idle /\ ~Protected(job) /\ job \in configured
    /\ Become(r, IF job = "cost"
                 THEN [job |-> "cost", held |-> TRUE, stage |-> "plan", newest |-> TargetDay,
                       unit |-> 1, todo |-> <<>>, due |-> {}, failed |-> FALSE]
                 ELSE [job |-> "ingest", held |-> TRUE, stage |-> "window"])
    /\ UNCHANGED <<now, configured, mishaps, astray, costVars, ingestVars>>

-----------------------------------------------------------------------------
(* The cost connector job.                                                 *)

\* What a window gives up: days before it that its series never billed, if that
\* series has nothing in sight, being new or long dead.
GivenUp(unit, window, newest) ==
    {day \in Range(unit) \X Days :
       /\ day[2] \in Spend[day[1]] /\ ~Billed(day[1], day[2])
       /\ day[2] < Min(window) /\ InSight(day[1], newest) = {}}

\* __call__ turns to the next unit: its window is worked out from the spans and
\* its series are fetched.  A failed fetch is a failed sub-run; the others go on.
PlanUnit(r) ==
    /\ At(r, "cost", "plan") /\ body[r].unit <= Len(Units)
    /\ LET unit == Units[body[r].unit]
           window == BillingWindow(unit, body[r].newest)
       IN  \E broken \in SUBSET Range(unit) :
             /\ IF broken = {} THEN UNCHANGED mishaps ELSE Mishap
             /\ Become(r, [body[r] EXCEPT !.stage = "check",
                                          !.todo = ToEmit(unit, window, broken),
                                          !.due = @ \cup Owed(unit, window),
                                          !.failed = @ \/ broken # {}])
             /\ given' = given \cup GivenUp(unit, window, body[r].newest)
    /\ UNCHANGED <<now, configured, astray, spans, ingestVars>>

NeverThere(span) == FALSE
AlreadyThere(span) == Billed(span[1], span[2])

\* emit_cost_span asks whether the day has its span.
CheckSpan(r) ==
    /\ At(r, "cost", "check") /\ body[r].todo # <<>>
    /\ Become(r, IF AlreadyThere(Head(body[r].todo))
                 THEN [body[r] EXCEPT !.todo = Tail(@)]
                 ELSE [body[r] EXCEPT !.stage = "insert"])
    /\ UNCHANGED <<now, configured, mishaps, astray, costVars, ingestVars>>

Inserted(span) == [spans EXCEPT ![span[1]][span[2]] = @ + 1]

\* It inserts the span.
InsertSpan(r) ==
    /\ At(r, "cost", "insert")
    /\ spans' = Inserted(Head(body[r].todo))
    /\ Become(r, [body[r] EXCEPT !.stage = "check", !.todo = Tail(@)])
    /\ UNCHANGED <<now, configured, mishaps, astray, given, ingestVars>>

\* _attempt catches what was raised and notes it in failures.
CaughtUnnoticed(b) == [b EXCEPT !.stage = "plan", !.unit = @ + 1, !.todo = <<>>]
Caught(b) == [b EXCEPT !.stage = "plan", !.unit = @ + 1, !.todo = <<>>, !.failed = TRUE]

\* The look or the insert raises, with the span stored or not; the rest of the
\* unit is off.
EmitRaises(r) ==
    /\ Mishap
    /\ \/ At(r, "cost", "check") /\ body[r].todo # <<>> /\ UNCHANGED spans
       \/ At(r, "cost", "insert") /\ UNCHANGED spans
       \/ At(r, "cost", "insert") /\ spans' = Inserted(Head(body[r].todo))
    /\ Become(r, Caught(body[r]))
    /\ UNCHANGED <<now, configured, astray, given, ingestVars>>

\* A unit is through.
NextUnit(r) ==
    /\ At(r, "cost", "check") /\ body[r].todo = <<>>
    /\ Become(r, [body[r] EXCEPT !.stage = "plan", !.unit = @ + 1])
    /\ UNCHANGED <<now, configured, mishaps, astray, costVars, ingestVars>>

\* Every unit had its turn: CostConnectorRunError, or a success.
CostJobEnds(r) ==
    /\ At(r, "cost", "plan") /\ body[r].unit > Len(Units)
    /\ Become(r, Idle)
    /\ UNCHANGED <<now, configured, mishaps, astray, costVars, ingestVars>>

-----------------------------------------------------------------------------
(* The ingest cycle.                                                       *)

LocalTime(r) == now + Skew[r]
InitialSince(r) == LocalTime(r) - InitialLookback

Asks(r, since) ==
    Become(r, [job |-> "ingest", held |-> body[r].held, stage |-> "fetch",
               since |-> since, until |-> LocalTime(r), missed |-> {}])

\* _window: from the cursor, which may be ahead of this replica's clock; with no
\* cursor, or one that cannot be read, from InitialLookback ago.
Window(r) ==
    /\ At(r, "ingest", "window")
    /\ \/ /\ cursor # Never
          /\ Asks(r, Min({cursor, LocalTime(r)}))
          /\ UNCHANGED <<mishaps, waived>>
       \/ /\ cursor = Never \/ mishaps < MaxMishaps
          /\ mishaps' = IF cursor = Never THEN mishaps ELSE mishaps + 1
          /\ Asks(r, InitialSince(r))
          /\ waived' = waived \cup {e \in Events : Time[e] < InitialSince(r)}
    /\ UNCHANGED <<now, configured, astray, costVars, cursor, ingested, unmapped, overlooked>>

\* The events of a window that the provider knows by now.
Shown(since, until) ==
    {e \in Events : since <= Time[e] /\ Time[e] <= until /\ Time[e] + Lag[e] <= now}

\* _ingest: one fetch, and the insert of what it brought and could be mapped.  What
\* cannot makes the cycle partial and is counted.  as_event_list takes a body of
\* another shape for no events, and of a body with one page of many it takes the page.
Ingest(r) ==
    /\ At(r, "ingest", "fetch")
    /\ LET shown == Shown(body[r].since, body[r].until)
       IN  \E seen \in SUBSET shown :
             /\ IF seen = shown THEN UNCHANGED mishaps ELSE Mishap
             /\ ingested' = ingested \cup (seen \ Unmappable)
             /\ unmapped' = unmapped \cup (seen \cap Unmappable)
             /\ Become(r, [body[r] EXCEPT !.stage = "advance", !.missed = shown \ seen])
    /\ UNCHANGED <<now, configured, astray, costVars, cursor, waived, overlooked>>

\* A failed cycle goes on to move the cursor.
GiveUpAdvancing(b) == [b EXCEPT !.stage = "advance"]

\* A failed cycle ends, and the cursor stays.
GiveUp(b) == Idle

\* The fetch raises, or an insert does with any part of the events stored.
IngestFails(r) ==
    /\ At(r, "ingest", "fetch")
    /\ Mishap
    /\ \E stored \in SUBSET (Shown(body[r].since, body[r].until) \ Unmappable) :
         ingested' = ingested \cup stored
    /\ Become(r, GiveUp(body[r]))
    /\ UNCHANGED <<now, configured, astray, costVars, cursor, waived, unmapped, overlooked>>

\* next_cursor.
NextCursorAtEnd(until) == until
NextCursor(until) == until - Overlap

Advanced(until) == IF NextCursor(until) > cursor THEN NextCursor(until) ELSE cursor

\* _advance_cursor, after a success and after a partial cycle: never backwards.  The
\* cycle ends as it would whether this works or not.
Advance(r) ==
    /\ At(r, "ingest", "advance")
    /\ \/ /\ cursor' = Advanced(body[r].until)
          /\ overlooked' = overlooked \cup {e \in body[r].missed : Time[e] <= cursor'}
          /\ UNCHANGED mishaps
       \/ UNCHANGED <<cursor, overlooked>> /\ Mishap
    /\ Become(r, Idle)
    /\ UNCHANGED <<now, configured, astray, costVars, ingested, waived, unmapped>>

-----------------------------------------------------------------------------
(* The world around the bodies.                                            *)

Tick ==
    /\ now < MaxTime
    /\ now' = now + 1
    /\ UNCHANGED <<configured, body, mishaps, astray, costVars, ingestVars>>

\* The process of a body dies; or a body raises outside of what it catches, as when
\* working out a window fails.
Crash(r) ==
    /\ body[r] # Idle
    /\ Mishap
    /\ Become(r, Idle)
    /\ UNCHANGED <<now, configured, astray, costVars, ingestVars>>

\* The session that is its lock ends.
LoseLock(r) ==
    /\ body[r] # Idle /\ body[r].held
    /\ Mishap
    /\ astray' = astray + 1
    /\ Become(r, [body[r] EXCEPT !.held = FALSE])
    /\ UNCHANGED <<now, configured, costVars, ingestVars>>

Next ==
    \/ \E r \in Replicas :
         \/ \E job \in {"cost", "ingest"} : Begin(r, job)
         \/ PlanUnit(r) \/ CheckSpan(r) \/ InsertSpan(r) \/ EmitRaises(r)
         \/ NextUnit(r) \/ CostJobEnds(r)
         \/ Window(r) \/ Ingest(r) \/ IngestFails(r) \/ Advance(r)
         \/ Crash(r) \/ LoseLock(r)
    \/ Tick

Spec == Init /\ [][Next]_vars

-----------------------------------------------------------------------------
\* A day of a series is billed once: failed, cut off and repeated runs add nothing.
\* Looking for the span and inserting it are two steps, so each body that went on
\* without its lock may have doubled what another one billed.
DayBilledOnce == \A s \in Series : \A d \in Days : spans[s][d] <= 1 + astray

\* No hole is left behind the newest span of a series: the series that is behind
\* holds the window of its unit back, and failed fetches, failed inserts, crashes
\* and overlapping runs leave days owed at the end only, where the next window
\* starts.  Given up are days of a series with nothing in sight, and no others.
NoHoleBehind ==
    \A s \in Series : \A d \in Spend[s], newer \in Days :
      d < newer /\ Billed(s, newer) => Billed(s, d) \/ <<s, d>> \in given

\* A run that ends as a success has left no day of any of its windows unbilled.
SuccessMeansBilled ==
    \A r \in Replicas :
      At(r, "cost", "plan") /\ body[r].unit > Len(Units) /\ ~body[r].failed
        => \A span \in body[r].due : Billed(span[1], span[2])

\* What is behind the cursor was dealt with.  Each event up to it is stored or was
\* counted as failed to map, unless it was too old for the initial window of a cycle
\* that knew no cursor, or the answer of the very cycle that moved the cursor past it
\* lacked it, as a body of unknown shape or a first page does: such an event is
\* skipped for good, by a cycle that calls itself a success.  Nothing else skips one:
\* not late events, failed cycles and inserts, partial cycles, dropped advances,
\* skewed clocks or overlapping cycles.
CursorSkipsNothing ==
    \A e \in Events :
      cursor # Never /\ Time[e] <= cursor => e \in ingested \cup waived \cup unmapped \cup overlooked
=============================================================================
