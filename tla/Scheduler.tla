----------------------------- MODULE Scheduler -----------------------------
(***************************************************************************)
(* The tick loop of the gateway's background scheduler                     *)
(* (infra/gateway/src/gateway/scheduler.py), run by several replicas over  *)
(* one Postgres: the run history scheduler_runs and one advisory lock per  *)
(* (job, tenant) pair, each held by a database session of its own.         *)
(*                                                                         *)
(* A replica walks the pairs in order.  Every call that leaves the event   *)
(* loop (asyncio.to_thread) is a step, and the other replicas act between  *)
(* the steps.  What a job does is left open: a body ends with any status.  *)
(***************************************************************************)
EXTENDS Integers, Sequences

CONSTANTS Replicas,     \* gateway processes with the scheduler enabled
          NoOne,        \* "no session holds the lock"
          Walk,         \* the (job, tenant) pairs in the order of the walk
          Interval,     \* interval_s of the job of each pair
          Endings,      \* the statuses bodies end with
          BackoffBase,  \* backoff_base_s
          BackoffCap,   \* backoff_cap_s
          MaxTime,      \* how far the clock goes
          MaxDeaths,    \* how many times a replica is stopped or dies
          MaxFaults     \* how many times Postgres fails a replica

Pairs == {Walk[i] : i \in DOMAIN Walk}

ASSUME SchedulerConstants ==
    /\ NoOne \notin Replicas
    /\ Walk \in Seq(Pairs)
    /\ \A i, j \in DOMAIN Walk : Walk[i] = Walk[j] => i = j
    /\ Interval \in [Pairs -> Nat \ {0}]
    /\ Endings \subseteq {"success", "skipped", "failed"}
    /\ BackoffBase \in Nat /\ BackoffCap \in Nat
    /\ MaxTime \in Nat /\ MaxDeaths \in Nat /\ MaxFaults \in Nat

VARIABLES
    now,      \* the clock
    pc,       \* where each replica is in tick_once
    at,       \* the position of its walk
    begun,    \* started_at of the body it is in
    outcome,  \* how and when that body ended
    stop,     \* the replicas whose _stop event is set
    lock,     \* the replica whose session holds each pair's lock, or NoOne
    runs,     \* scheduler_runs: per pair, its rows
    deaths,   \* replicas stopped or dead so far
    faults    \* failures of Postgres so far

loopVars == <<pc, at, begun, outcome, lock, runs>>
worldVars == <<stop, deaths, faults>>
schedulerVars == <<now, loopVars, worldVars>>

AtPair(r) == Walk[at[r]]
Walking(r) == at[r] <= Len(Walk)
Holds(r) == lock[AtPair(r)] = r

InBody == {"running", "recording"}
Holding == {"reread", "release"} \cup InBody

\* The bodies at work, as the promise of the scheduler sees them.
Bodies == {[by |-> r, pair |-> AtPair(r), started |-> begun[r], held |-> Holds(r)] :
             r \in {s \in Replicas : pc[s] \in InBody}}

\* The due calculation is the one of the promise, and implementing it is a theorem.
Promise == INSTANCE JobRuns WITH running <- Bodies

IsDue(p) == Promise!IsDue(p)

-----------------------------------------------------------------------------
NotYet == [status |-> "skipped", finished |-> 0]

Init ==
    /\ now = 0
    /\ pc = [r \in Replicas |-> "asleep"]
    /\ at = [r \in Replicas |-> 1]
    /\ begun = [r \in Replicas |-> 0]
    /\ outcome = [r \in Replicas |-> NotYet]
    /\ stop = {}
    /\ lock = [p \in Pairs |-> NoOne]
    /\ runs = [p \in Pairs |-> <<>>]
    /\ deaths = 0 /\ faults = 0

GoTo(r, where) == pc' = [pc EXCEPT ![r] = where]

\* On to the next pair; what was known of the last one is forgotten.
NextPair(r) == /\ GoTo(r, "walk")
               /\ at' = [at EXCEPT ![r] = @ + 1]

\* Postgres fails this replica once more.
Fault == faults < MaxFaults /\ faults' = faults + 1

\* _run: a tick begins.  (A tenant listing that raises ends it at once.)
WakeTick(r) ==
    /\ pc[r] = "asleep" /\ r \notin stop
    /\ GoTo(r, "walk")
    /\ UNCHANGED <<now, at, begun, outcome, lock, runs, worldVars>>

\* The walk is over, or broken off by the stop event; the loop sleeps or ends.
EndTick(r) ==
    /\ \/ pc[r] = "walk" /\ (~Walking(r) \/ r \in stop)
       \/ pc[r] = "asleep" /\ r \in stop
    /\ GoTo(r, IF r \in stop THEN "down" ELSE "asleep")
    /\ at' = [at EXCEPT ![r] = 1]
    /\ UNCHANGED <<now, begun, outcome, lock, runs, worldVars>>

\* The cheap look at the history.  An unreadable one is passed over.
ReadState(r) ==
    /\ pc[r] = "walk" /\ Walking(r) /\ r \notin stop
    /\ \/ IsDue(AtPair(r)) /\ GoTo(r, "acquire") /\ UNCHANGED <<at, faults>>
       \/ ~IsDue(AtPair(r)) /\ NextPair(r) /\ UNCHANGED faults
       \/ Fault /\ NextPair(r)
    /\ UNCHANGED <<now, begun, outcome, lock, runs, stop, deaths>>

\* pg_try_advisory_lock on a session of its own; no lock, for any reason, no run.
Acquire(r) ==
    /\ pc[r] = "acquire"
    /\ \/ /\ lock[AtPair(r)] = NoOne
          /\ lock' = [lock EXCEPT ![AtPair(r)] = r]
          /\ GoTo(r, "reread") /\ UNCHANGED <<at, faults>>
       \/ lock[AtPair(r)] # NoOne /\ NextPair(r) /\ UNCHANGED <<lock, faults>>
       \/ Fault /\ NextPair(r) /\ UNCHANGED lock
    /\ UNCHANGED <<now, begun, outcome, runs, stop, deaths>>

\* Starting on the strength of the first look.
StillDueAsBefore(p) == TRUE

\* The second look, with the lock held.
StillDue(p) == IsDue(p)

\* What it finds: due, and the body starts; no longer due; unreadable.
Reread(r) ==
    /\ pc[r] = "reread"
    /\ \/ /\ StillDue(AtPair(r))
          /\ GoTo(r, "running")
          /\ begun' = [begun EXCEPT ![r] = now]
          /\ UNCHANGED faults
       \/ ~StillDue(AtPair(r)) /\ GoTo(r, "release") /\ UNCHANGED <<begun, faults>>
       \/ Fault /\ GoTo(r, "release") /\ UNCHANGED begun
    /\ UNCHANGED <<now, at, outcome, lock, runs, stop, deaths>>

\* _invoke: the body returns, raises JobSkipped, or raises.
BodyEnds(r, status) ==
    /\ pc[r] = "running"
    /\ GoTo(r, "recording")
    /\ outcome' = [outcome EXCEPT ![r] = [status |-> status, finished |-> now]]
    /\ UNCHANGED <<now, at, begun, lock, runs, worldVars>>

\* record_run: one INSERT.
WriteRow(r) ==
    runs' = [runs EXCEPT ![AtPair(r)] =
               Append(@, [status |-> outcome[r].status, started |-> begun[r],
                          finished |-> outcome[r].finished, held |-> Holds(r)])]

\* Nothing is kept of the body once it is recorded or given up.
BodyForgotten(r) == /\ begun' = [begun EXCEPT ![r] = 0]
                    /\ outcome' = [outcome EXCEPT ![r] = NotYet]

\* The row is written, still under the lock.
Record(r) ==
    /\ pc[r] = "recording"
    /\ WriteRow(r) /\ BodyForgotten(r)
    /\ GoTo(r, "release")
    /\ UNCHANGED <<now, at, lock, worldVars>>

\* record_run raises, with the row committed or not; the loop goes on.
RecordFails(r) ==
    /\ pc[r] = "recording"
    /\ Fault
    /\ WriteRow(r) \/ UNCHANGED runs
    /\ BodyForgotten(r)
    /\ GoTo(r, "release")
    /\ UNCHANGED <<now, at, lock, stop, deaths>>

\* The locks when the sessions of a replica are over: Postgres lets go of them.
SessionOutlives(r) == lock
Unlocked(r) == [p \in Pairs |-> IF lock[p] = r THEN NoOne ELSE lock[p]]

\* The finally: unlock and close the session, alive or not.
Release(r) ==
    /\ pc[r] = "release"
    /\ lock' = Unlocked(r)
    /\ NextPair(r)
    /\ UNCHANGED <<now, begun, outcome, runs, worldVars>>

-----------------------------------------------------------------------------
(* The world around the loop.                                              *)

Tick ==
    /\ now < MaxTime
    /\ now' = now + 1
    /\ UNCHANGED <<loopVars, worldVars>>

\* stop(): the event is set.  A tick that outlives the bound is left to die with
\* the process, which is Die.
Stop(r) ==
    /\ pc[r] # "down" /\ r \notin stop
    /\ deaths < MaxDeaths /\ deaths' = deaths + 1
    /\ stop' = stop \cup {r}
    /\ UNCHANGED <<now, loopVars, faults>>

\* The process ends, and all its sessions with it.  A row not written is lost.
Die(r) ==
    /\ pc[r] # "down"
    /\ deaths < MaxDeaths /\ deaths' = deaths + 1
    /\ GoTo(r, "down")
    /\ at' = [at EXCEPT ![r] = 1]
    /\ BodyForgotten(r)
    /\ lock' = Unlocked(r)
    /\ UNCHANGED <<now, runs, stop, faults>>

\* A new process in its place.
Boot(r) ==
    /\ pc[r] = "down"
    /\ GoTo(r, "asleep")
    /\ stop' = stop \ {r}
    /\ UNCHANGED <<now, at, begun, outcome, lock, runs, deaths, faults>>

\* The session that is the lock ends (network, Postgres restart) and the
\* replica, in the middle of its run, does not notice.
SessionDies(r) ==
    /\ pc[r] \in Holding /\ Holds(r)
    /\ Fault
    /\ lock' = Unlocked(r)
    /\ UNCHANGED <<now, pc, at, begun, outcome, runs, stop, deaths>>

-----------------------------------------------------------------------------
Loop(r) ==
    \/ WakeTick(r) \/ EndTick(r) \/ ReadState(r) \/ Acquire(r) \/ Reread(r)
    \/ \E status \in Endings : BodyEnds(r, status)
    \/ Record(r) \/ RecordFails(r) \/ Release(r)

Next ==
    \/ \E r \in Replicas : Loop(r) \/ Stop(r) \/ Die(r) \/ Boot(r) \/ SessionDies(r)
    \/ Tick

Spec == Init /\ [][Next]_schedulerVars

\* The event loop runs what is runnable, calls on other threads return and job
\* bodies end.  Nobody is obliged to start a process anew, and the clock may stop.
FairSpec == Spec /\ \A r \in Replicas : WF_schedulerVars(Loop(r))

-----------------------------------------------------------------------------
SchedulerTypeOK ==
    /\ now \in 0..MaxTime
    /\ pc \in [Replicas -> {"asleep", "walk", "acquire", "down"} \cup Holding]
    /\ at \in [Replicas -> 1..(Len(Walk) + 1)]
    /\ \A r \in Replicas : pc[r] \in {"acquire"} \cup Holding => at[r] \in DOMAIN Walk
    /\ begun \in [Replicas -> 0..MaxTime]
    /\ outcome \in [Replicas -> [status : Promise!Statuses, finished : 0..MaxTime]]
    /\ stop \subseteq Replicas
    /\ lock \in [Pairs -> Replicas \cup {NoOne}]
    /\ runs \in [Pairs -> Seq(Promise!Row)]
    /\ deaths \in 0..MaxDeaths /\ faults \in 0..MaxFaults

\* A held lock is in use: by the replica whose session it is, for the pair it is at.
\* No exit from the walk, no death and no failure leaves one behind, so no pair is
\* shut to the other replicas for longer than somebody works on it.
LocksHeldInPlace ==
    \A p \in Pairs, r \in Replicas :
      lock[p] = r => pc[r] \in Holding /\ AtPair(r) = p

\* No cadence window is settled twice under its lock, by whatever replicas.
WindowSettledOnce == Promise!WindowSettledOnce

\* While no lock was lost, the failures one replica recorded hold the others off.
BackoffKept == Promise!BackoffKept

\* Looking at the history, locking, looking again and starting are as good as one
\* atomic step, and ending, recording and unlocking as another: the loop
\* implements JobRuns, with all that follows for it.
KeepsPromise == Promise!Spec

\* A due pair is not forgotten: as long as one replica lives, its body is started,
\* whichever replica died or was stopped with the pair's lock in its hands,
\* and whatever lookups, locks and records failed.
DueIsRun ==
    \A p \in Pairs :
      IsDue(p) ~> (\E r \in Replicas : pc[r] \in InBody /\ AtPair(r) = p)
=============================================================================
