------------------------------ MODULE JobRuns ------------------------------
(***************************************************************************)
(* What the gateway's background scheduler promises to its jobs, without   *)
(* ticks, locks or sessions: over one run history per (job, tenant) pair   *)
(* (the table scheduler_runs), a body is started only when the history     *)
(* says its pair is due, in one step with looking at it, and never while   *)
(* another body of the pair is protected by its lock.                      *)
(*                                                                         *)
(* The due calculation is the one of                                       *)
(* infra/gateway/src/gateway/scheduler.py.  Scheduler implements this      *)
(* module; BackgroundJobs fills the bodies in.                             *)
(***************************************************************************)
EXTENDS Integers, Sequences, FiniteSets

CONSTANTS Replicas,     \* gateway processes with the scheduler enabled
          Pairs,        \* the (job, tenant) pairs
          Interval,     \* interval_s of the job of each pair
          BackoffBase,  \* backoff_base_s
          BackoffCap,   \* backoff_cap_s
          MaxTime       \* how far the clock goes

\* What the constants have to be; the theorems take it as a hypothesis.
JobRunsConstants ==
    /\ Interval \in [Pairs -> Nat \ {0}]
    /\ BackoffBase \in Nat /\ BackoffCap \in Nat
    /\ MaxTime \in Nat

VARIABLES
    now,      \* the clock
    runs,     \* scheduler_runs: per pair, its rows in the order of their INSERT
    running   \* the bodies that are being run

jobRunsVars == <<now, runs, running>>

Statuses == {"success", "skipped", "failed"}
Settling == {"success", "skipped"}

\* A row of scheduler_runs.  held is no column of it: it says that the lock was
\* there until the row was.
Row == [status : Statuses, started : Nat, finished : Nat, held : BOOLEAN]

\* A body at work: by which replica, for which pair, since when, and whether
\* the session that is its lock still lives.
Body == [by : Replicas, pair : Pairs, started : Nat, held : BOOLEAN]

-----------------------------------------------------------------------------
(* The due calculation, of the rows h of one pair.                         *)

Settled(h) == {i \in DOMAIN h : h[i].status \in Settling}

\* get_state counts the failures after the last settled run.
FailuresInARow(h) ==
    {i \in DOMAIN h : h[i].status = "failed"
                      /\ \A j \in Settled(h) : h[j].finished < h[i].finished}

\* backoff_delay_s: nothing after the first failure, then doubling up to a cap.
BackoffDelay(failures) ==
    IF failures <= 1 THEN 0
    ELSE LET doubled == BackoffBase * 2 ^ (failures - 2)
         IN  IF doubled < BackoffCap THEN doubled ELSE BackoffCap

\* The backoff is counted from the last attempt, hence from all of them.
BackoffServed(h, t) ==
    \A i \in DOMAIN h : t - h[i].finished >= BackoffDelay(Cardinality(FailuresInARow(h)))

\* Counting from the last success only.
WindowSinceSuccess(p, h, t) ==
    \A i \in DOMAIN h : h[i].status = "success" => t - h[i].finished >= Interval[p]

\* A full cadence window since the pair last settled, if it ever has; a skipped
\* run settles its window.
WindowPassed(p, h, t) == \A i \in Settled(h) : t - h[i].finished >= Interval[p]

\* is_due, of the state get_state reads.
IsDue(p) == BackoffServed(runs[p], now) /\ WindowPassed(p, runs[p], now)

-----------------------------------------------------------------------------
Init ==
    /\ now = 0
    /\ runs = [p \in Pairs |-> <<>>]
    /\ running = {}

Busy(r) == \E b \in running : b.by = r
Protected(p) == \E b \in running : b.pair = p /\ b.held

\* A body starts, its pair being due at that instant.
Begin(r, p, held) ==
    /\ ~Busy(r)
    /\ IsDue(p)
    /\ held => ~Protected(p)
    /\ running' = running \cup {[by |-> r, pair |-> p, started |-> now, held |-> held]}
    /\ UNCHANGED <<now, runs>>

\* The lock of a body is gone; the body is not.
LoseLock(b) ==
    /\ b.held
    /\ running' = (running \ {b})
         \cup {[by |-> b.by, pair |-> b.pair, started |-> b.started, held |-> FALSE]}
    /\ UNCHANGED <<now, runs>>

\* A body has ended and its row is there.
Finish(b, status, finished) ==
    /\ runs' = [runs EXCEPT ![b.pair] =
                  Append(@, [status |-> status, started |-> b.started,
                             finished |-> finished, held |-> b.held])]
    /\ running' = running \ {b}
    /\ UNCHANGED now

\* A body is cut off, or has ended and no row says so.
Abandon(b) ==
    /\ running' = running \ {b}
    /\ UNCHANGED <<now, runs>>

Tick ==
    /\ now < MaxTime
    /\ now' = now + 1
    /\ UNCHANGED <<runs, running>>

Next ==
    \/ \E r \in Replicas, p \in Pairs, held \in BOOLEAN : Begin(r, p, held)
    \/ \E b \in running :
         \/ LoseLock(b)
         \/ Abandon(b)
         \/ \E status \in Statuses, finished \in b.started..now : Finish(b, status, finished)
    \/ Tick

Spec == Init /\ [][Next]_jobRunsVars

-----------------------------------------------------------------------------
JobRunsTypeOK ==
    /\ now \in 0..MaxTime
    /\ runs \in [Pairs -> Seq(Row)]
    /\ running \subseteq Body

\* At most one body of a pair is under the protection of its lock, and a replica
\* runs one body at a time.
OneAtATime ==
    \A a, b \in running :
      \/ a = b
      \/ a.by # b.by /\ ~(a.pair = b.pair /\ a.held /\ b.held)

\* However the replicas' looks at the history interleave, two settled runs that
\* kept their locks are a full cadence window apart: no window is settled twice.
WindowSettledOnce ==
    \A p \in Pairs : \A i, j \in Settled(runs[p]) :
      i < j /\ runs[p][i].held /\ runs[p][j].held
        => runs[p][j].started - runs[p][i].finished >= Interval[p]

\* While no lock was lost, every recorded attempt waited for the backoff that the
\* failures before it call for, whichever replicas they happened on.
BackoffKept ==
    \A p \in Pairs :
      (\A i \in DOMAIN runs[p] : runs[p][i].held)
        => \A j \in DOMAIN runs[p] :
             BackoffServed(SubSeq(runs[p], 1, j - 1), runs[p][j].started)
=============================================================================
