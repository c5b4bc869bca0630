--------------------------- MODULE SchedulerProofs ---------------------------
(***************************************************************************)
(* Proofs about Scheduler, for any number of replicas and pairs and any    *)
(* bounds on time and faults.                                              *)
(*                                                                         *)
(* A held lock names its replica and the replica is at the lock's pair;    *)
(* from that every step is a step of JobRuns or leaves its state alone, so *)
(* the loop implements JobRuns and inherits what is proved of it.          *)
(*                                                                         *)
(* What is proved of JobRuns: when a body starts, its pair is due by all   *)
(* the rows there are.  As long as its lock lives no other body of the     *)
(* pair is protected, so every row that comes in between is of a body that *)
(* lost its lock, and such rows are outside of what is promised.           *)
(***************************************************************************)
EXTENDS Scheduler, SequenceTheorems, TLAPS

\* The clock runs on from the start of a body to its end and to its record.
BodiesInTime ==
    \A r \in Replicas :
      /\ begun[r] <= now
      /\ pc[r] = "recording" => outcome[r].finished \in begun[r]..now

SchedulerInv == SchedulerTypeOK /\ LocksHeldInPlace /\ BodiesInTime

\* The body a replica is in, as the promise sees it.
BodyOf(r) == [by |-> r, pair |-> AtPair(r), started |-> begun[r], held |-> Holds(r)]

USE DEF InBody, Holding

-----------------------------------------------------------------------------
LEMMA InvStarts == Init => SchedulerInv
<1> SUFFICES ASSUME Init PROVE SchedulerInv
  OBVIOUS
<1>1. Len(Walk) \in Nat /\ DOMAIN Walk = 1..Len(Walk)
  BY SchedulerConstants
<1>2. SchedulerTypeOK
  BY <1>1, SchedulerConstants DEF Init, SchedulerTypeOK, NotYet, Promise!Statuses
<1>3. LocksHeldInPlace
  BY SchedulerConstants DEF Init, LocksHeldInPlace
<1>4. BodiesInTime
  <2>1. now = 0 /\ \A r \in Replicas : begun[r] = 0
    BY DEF Init
  <2>2. \A r \in Replicas : pc[r] # "recording"
    BY DEF Init
  <2>3. ASSUME NEW r \in Replicas PROVE begun[r] <= now
    <3>1. begun[r] = 0 /\ now = 0
      BY <2>1
    <3> QED  BY <3>1, SMT
  <2> QED  BY <2>2, <2>3 DEF BodiesInTime
<1> QED  BY <1>2, <1>3, <1>4 DEF SchedulerInv

\* What the type invariant says of one replica.
LEMMA Typed ==
    ASSUME SchedulerTypeOK, NEW r \in Replicas
    PROVE  /\ Len(Walk) \in Nat /\ DOMAIN Walk = 1..Len(Walk)
           /\ at[r] \in 1..(Len(Walk) + 1)
           /\ Walking(r) => at[r] \in DOMAIN Walk /\ AtPair(r) \in Pairs
           /\ pc[r] \in {"acquire"} \cup Holding => at[r] \in DOMAIN Walk /\ AtPair(r) \in Pairs
           /\ begun[r] \in Nat /\ now \in Nat
<1>1. Len(Walk) \in Nat /\ DOMAIN Walk = 1..Len(Walk)
  BY SchedulerConstants
<1>2. at[r] \in DOMAIN Walk => AtPair(r) \in Pairs
  BY DEF AtPair, Pairs
<1> QED  BY <1>1, <1>2, SchedulerConstants DEF SchedulerTypeOK, Walking

\* The row a recording replica writes is a row.
LEMMA RowTyped ==
    ASSUME SchedulerTypeOK, NEW r \in Replicas, pc[r] = "recording", WriteRow(r)
    PROVE  /\ runs' \in [Pairs -> Seq(Promise!Row)]
           /\ AtPair(r) \in Pairs
<1> DEFINE x == [status |-> outcome[r].status, started |-> begun[r],
                 finished |-> outcome[r].finished, held |-> Holds(r)]
<1>1. AtPair(r) \in Pairs /\ begun[r] \in Nat
  BY Typed
<1>2. x \in Promise!Row
  <2>1. outcome[r].status \in Promise!Statuses /\ outcome[r].finished \in Nat
    BY SchedulerConstants DEF SchedulerTypeOK
  <2> QED  BY <1>1, <2>1 DEF Promise!Row, Holds
<1> HIDE DEF x
<1>3. runs' = [runs EXCEPT ![AtPair(r)] = Append(@, x)]
  BY DEF WriteRow, x
<1> QED  BY <1>1, <1>2, <1>3 DEF SchedulerTypeOK

\* Where the replicas are, as the type invariant has it.
Places ==
    /\ pc \in [Replicas -> {"asleep", "walk", "acquire", "down"} \cup Holding]
    /\ at \in [Replicas -> 1..(Len(Walk) + 1)]
    /\ \A r \in Replicas : pc[r] \in {"acquire"} \cup Holding => at[r] \in DOMAIN Walk

\* A replica goes on to another step of the same pair,
LEMMA GoToInPlace ==
    ASSUME SchedulerTypeOK, NEW r \in Replicas,
           NEW where \in {"asleep", "walk", "acquire", "down"} \cup Holding,
           GoTo(r, where), at' = at,
           where \in {"acquire"} \cup Holding => at[r] \in DOMAIN Walk
    PROVE  Places'
  BY DEF SchedulerTypeOK, GoTo, Places

\* to the next pair,
LEMMA NextPairInPlace ==
    ASSUME SchedulerTypeOK, NEW r \in Replicas, at[r] \in DOMAIN Walk, NextPair(r)
    PROVE  Places'
<1>1. pc' = [pc EXCEPT ![r] = "walk"] /\ at' = [at EXCEPT ![r] = @ + 1]
  BY DEF NextPair, GoTo
<1>2. at[r] + 1 \in 1..(Len(Walk) + 1)
  BY Typed
<1> QED  BY <1>1, <1>2 DEF SchedulerTypeOK, Places

\* or back to the first.
LEMMA StartInPlace ==
    ASSUME SchedulerTypeOK, NEW r \in Replicas, NEW where \in {"asleep", "down"},
           GoTo(r, where), at' = [at EXCEPT ![r] = 1]
    PROVE  Places'
<1>1. 1 \in 1..(Len(Walk) + 1)
  BY Typed
<1> QED  BY <1>1 DEF SchedulerTypeOK, Places, GoTo

LEMMA UnlockedTyped ==
    ASSUME SchedulerTypeOK, NEW r
    PROVE  Unlocked(r) \in [Pairs -> Replicas \cup {NoOne}]
  BY DEF SchedulerTypeOK, Unlocked

LEMMA ForgottenTyped ==
    ASSUME SchedulerTypeOK, NEW r, BodyForgotten(r)
    PROVE  /\ begun' \in [Replicas -> 0..MaxTime]
           /\ outcome' \in [Replicas -> [status : Promise!Statuses, finished : 0..MaxTime]]
<1>1. NotYet \in [status : Promise!Statuses, finished : 0..MaxTime] /\ 0 \in 0..MaxTime
  BY SchedulerConstants DEF NotYet, Promise!Statuses
<1> QED  BY <1>1 DEF SchedulerTypeOK, BodyForgotten

LEMMA FaultTyped ==
    ASSUME SchedulerTypeOK, Fault \/ UNCHANGED faults
    PROVE  faults' \in 0..MaxFaults
  BY SchedulerConstants DEF SchedulerTypeOK, Fault

LEMMA LoopKeepsTypes ==
    ASSUME SchedulerTypeOK, NEW r \in Replicas, Loop(r)
    PROVE  SchedulerTypeOK'
<1> USE SchedulerConstants, Typed
<1>1. CASE WakeTick(r)
  BY <1>1, GoToInPlace DEF WakeTick, worldVars, SchedulerTypeOK, Places
<1>2. CASE EndTick(r)
  BY <1>2, StartInPlace DEF EndTick, worldVars, SchedulerTypeOK, Places
<1>3. CASE ReadState(r)
  <2>1. Places'
    BY <1>3, GoToInPlace, NextPairInPlace DEF ReadState
  <2> QED  BY <1>3, <2>1, FaultTyped DEF ReadState, SchedulerTypeOK, Places
<1>4. CASE Acquire(r)
  <2>1. Places'
    BY <1>4, GoToInPlace, NextPairInPlace DEF Acquire
  <2>2. lock' \in [Pairs -> Replicas \cup {NoOne}]
    BY <1>4 DEF Acquire, SchedulerTypeOK
  <2> QED  BY <1>4, <2>1, <2>2, FaultTyped DEF Acquire, SchedulerTypeOK, Places
<1>5. CASE Reread(r)
  <2>1. Places'
    BY <1>5, GoToInPlace DEF Reread
  <2>2. begun' \in [Replicas -> 0..MaxTime]
    BY <1>5 DEF Reread, SchedulerTypeOK
  <2> QED  BY <1>5, <2>1, <2>2, FaultTyped DEF Reread, SchedulerTypeOK, Places
<1>6. ASSUME NEW status \in Endings, BodyEnds(r, status)
      PROVE  SchedulerTypeOK'
  <2>1. Places'
    BY <1>6, GoToInPlace DEF BodyEnds
  <2>2. outcome' \in [Replicas -> [status : Promise!Statuses, finished : 0..MaxTime]]
    BY <1>6 DEF BodyEnds, SchedulerTypeOK, Promise!Statuses
  <2> QED  BY <1>6, <2>1, <2>2 DEF BodyEnds, worldVars, SchedulerTypeOK, Places
<1>7. CASE Record(r)
  <2>1. Places'
    BY <1>7, GoToInPlace DEF Record
  <2>2. runs' \in [Pairs -> Seq(Promise!Row)]
    BY <1>7, RowTyped DEF Record
  <2>3. /\ begun' \in [Replicas -> 0..MaxTime]
        /\ outcome' \in [Replicas -> [status : Promise!Statuses, finished : 0..MaxTime]]
    BY <1>7, ForgottenTyped DEF Record
  <2> QED  BY <1>7, <2>1, <2>2, <2>3 DEF Record, worldVars, SchedulerTypeOK, Places
<1>8. CASE RecordFails(r)
  <2>1. Places'
    BY <1>8, GoToInPlace DEF RecordFails
  <2>2. runs' \in [Pairs -> Seq(Promise!Row)]
    BY <1>8, RowTyped DEF RecordFails, SchedulerTypeOK
  <2>3. /\ begun' \in [Replicas -> 0..MaxTime]
        /\ outcome' \in [Replicas -> [status : Promise!Statuses, finished : 0..MaxTime]]
    BY <1>8, ForgottenTyped DEF RecordFails
  <2> QED  BY <1>8, <2>1, <2>2, <2>3, FaultTyped DEF RecordFails, SchedulerTypeOK, Places
<1>9. CASE Release(r)
  <2>1. Places'
    BY <1>9, NextPairInPlace DEF Release
  <2> QED  BY <1>9, <2>1, UnlockedTyped DEF Release, worldVars, SchedulerTypeOK, Places
<1> QED  BY <1>1, <1>2, <1>3, <1>4, <1>5, <1>6, <1>7, <1>8, <1>9 DEF Loop

\* The steps of the world around a replica.
World(r) == Stop(r) \/ Die(r) \/ Boot(r) \/ SessionDies(r)

LEMMA WorldKeepsTypes ==
    ASSUME SchedulerTypeOK, NEW r \in Replicas, World(r)
    PROVE  SchedulerTypeOK'
<1> USE SchedulerConstants
<1>1. CASE Stop(r)
  BY <1>1 DEF Stop, loopVars, SchedulerTypeOK
<1>2. CASE Die(r)
  <2>1. Places'
    BY <1>2, StartInPlace DEF Die
  <2>2. lock' \in [Pairs -> Replicas \cup {NoOne}]
    BY <1>2, UnlockedTyped DEF Die
  <2>3. /\ begun' \in [Replicas -> 0..MaxTime]
        /\ outcome' \in [Replicas -> [status : Promise!Statuses, finished : 0..MaxTime]]
    BY <1>2, ForgottenTyped DEF Die
  <2> QED  BY <1>2, <2>1, <2>2, <2>3 DEF Die, SchedulerTypeOK, Places
<1>3. CASE Boot(r)
  <2>1. Places'
    BY <1>3, GoToInPlace DEF Boot
  <2> QED  BY <1>3, <2>1 DEF Boot, SchedulerTypeOK, Places
<1>4. CASE SessionDies(r)
  BY <1>4, UnlockedTyped, FaultTyped DEF SessionDies, SchedulerTypeOK
<1> QED  BY <1>1, <1>2, <1>3, <1>4 DEF World

-----------------------------------------------------------------------------
(* The locks and the clock.                                                *)

LEMMA LoopKeepsLocks ==
    ASSUME SchedulerTypeOK, LocksHeldInPlace, NEW r \in Replicas, Loop(r) \/ World(r)
    PROVE  LocksHeldInPlace'
<1> SUFFICES ASSUME NEW p \in Pairs, NEW s \in Replicas, lock'[p] = s
             PROVE  pc'[s] \in Holding /\ Walk[at'[s]] = p
  BY DEF LocksHeldInPlace, AtPair
<1>0. /\ \A q \in Pairs, u \in Replicas : lock[q] = u => pc[u] \in Holding /\ Walk[at[u]] = q
      /\ pc \in [Replicas -> {"asleep", "walk", "acquire", "down"} \cup Holding]
      /\ at \in [Replicas -> 1..(Len(Walk) + 1)]
      /\ lock \in [Pairs -> Replicas \cup {NoOne}]
      /\ NoOne \notin Replicas
      /\ \A u : \A q \in Pairs : Unlocked(u)[q] = s => s # u /\ lock[q] = s
  BY SchedulerConstants DEF LocksHeldInPlace, AtPair, SchedulerTypeOK, Unlocked
<1>1. CASE WakeTick(r) \/ EndTick(r) \/ ReadState(r)
  BY <1>0, <1>1 DEF WakeTick, EndTick, ReadState, GoTo, NextPair
<1>2. CASE Acquire(r)
  BY <1>0, <1>2 DEF Acquire, GoTo, NextPair, AtPair
<1>3. CASE Reread(r)
  BY <1>0, <1>3 DEF Reread, GoTo
<1>4. ASSUME NEW status \in Endings, BodyEnds(r, status)
      PROVE  pc'[s] \in Holding /\ Walk[at'[s]] = p
  BY <1>0, <1>4 DEF BodyEnds, GoTo
<1>5. CASE Record(r) \/ RecordFails(r)
  BY <1>0, <1>5 DEF Record, RecordFails, GoTo
<1>6. CASE Release(r) \/ Die(r)
  BY <1>0, <1>6 DEF Release, Die, GoTo, NextPair
<1>7. CASE Stop(r) \/ Boot(r)
  BY <1>0, <1>7 DEF Stop, Boot, loopVars, GoTo
<1>8. CASE SessionDies(r)
  BY <1>0, <1>8 DEF SessionDies
<1> QED  BY <1>1, <1>2, <1>3, <1>4, <1>5, <1>6, <1>7, <1>8 DEF Loop, World

LEMMA LoopKeepsTime ==
    ASSUME SchedulerTypeOK, BodiesInTime, NEW r \in Replicas, Loop(r) \/ World(r)
    PROVE  BodiesInTime'
<1> SUFFICES ASSUME NEW s \in Replicas
             PROVE  /\ begun'[s] <= now'
                    /\ pc'[s] = "recording" => outcome'[s].finished \in begun'[s]..now'
  BY DEF BodiesInTime
<1>0. /\ begun[s] <= now /\ begun[s] \in Nat /\ now \in Nat
      /\ pc[s] = "recording" => outcome[s].finished \in begun[s]..now
      /\ pc \in [Replicas -> {"asleep", "walk", "acquire", "down"} \cup Holding]
      /\ begun \in [Replicas -> 0..MaxTime]
      /\ outcome \in [Replicas -> [status : Promise!Statuses, finished : 0..MaxTime]]
  BY Typed DEF BodiesInTime, SchedulerTypeOK
<1> HIDE DEF Holding, InBody
<1>1. CASE WakeTick(r) \/ EndTick(r) \/ ReadState(r)
  BY <1>0, <1>1 DEF WakeTick, EndTick, ReadState, GoTo, NextPair
<1>2. CASE Acquire(r) \/ Release(r)
  BY <1>0, <1>2 DEF Acquire, Release, GoTo, NextPair
<1>3. CASE Reread(r)
  BY <1>0, <1>3 DEF Reread, GoTo
<1>4. ASSUME NEW status \in Endings, BodyEnds(r, status)
      PROVE  /\ begun'[s] <= now'
             /\ pc'[s] = "recording" => outcome'[s].finished \in begun'[s]..now'
  BY <1>0, <1>4 DEF BodyEnds, GoTo
<1>5. CASE Record(r) \/ RecordFails(r) \/ Die(r)
  BY <1>0, <1>5 DEF Record, RecordFails, Die, GoTo, BodyForgotten
<1>6. CASE Stop(r) \/ Boot(r) \/ SessionDies(r)
  BY <1>0, <1>6 DEF Stop, Boot, SessionDies, loopVars, GoTo
<1> QED  BY <1>1, <1>2, <1>3, <1>4, <1>5, <1>6 DEF Loop, World

LEMMA InvKept == ASSUME SchedulerInv, [Next]_schedulerVars PROVE SchedulerInv'
<1> USE DEF SchedulerInv
<1>1. ASSUME NEW r \in Replicas, Loop(r) \/ World(r)
      PROVE  SchedulerInv'
  BY <1>1, LoopKeepsTypes, WorldKeepsTypes, LoopKeepsLocks, LoopKeepsTime
<1>2. CASE Tick
  <2>1. SchedulerTypeOK'
    BY <1>2, SchedulerConstants DEF Tick, loopVars, worldVars, SchedulerTypeOK
  <2>2. LocksHeldInPlace'
    BY <1>2 DEF Tick, loopVars, LocksHeldInPlace, AtPair
  <2>3. BodiesInTime'
    <3> SUFFICES ASSUME NEW s \in Replicas
                 PROVE  /\ begun'[s] <= now'
                        /\ pc'[s] = "recording" => outcome'[s].finished \in begun'[s]..now'
      BY DEF BodiesInTime
    <3>1. /\ begun[s] <= now /\ begun[s] \in Nat /\ now \in Nat
          /\ pc[s] = "recording" => outcome[s].finished \in begun[s]..now
      BY Typed DEF BodiesInTime
    <3> QED  BY <1>2, <3>1 DEF Tick, loopVars
  <2> QED  BY <2>1, <2>2, <2>3
<1>3. CASE UNCHANGED schedulerVars
  <2>1. SchedulerTypeOK'
    BY <1>3 DEF schedulerVars, loopVars, worldVars, SchedulerTypeOK
  <2>2. LocksHeldInPlace' /\ BodiesInTime'
    BY <1>3 DEF schedulerVars, loopVars, LocksHeldInPlace, BodiesInTime, AtPair
  <2> QED  BY <2>1, <2>2
<1> QED  BY <1>1, <1>2, <1>3 DEF Next, World

-----------------------------------------------------------------------------
(* Every step is a step of the promise or leaves its state alone.          *)

\* The body of r, if it is in one.
Share(r) == IF pc[r] \in InBody THEN {BodyOf(r)} ELSE {}

\* The other replicas, as the promise sees them, are where they were.
OthersStay(r) ==
    \A s \in Replicas \ {r} :
      /\ pc'[s] = pc[s] /\ at'[s] = at[s] /\ begun'[s] = begun[s]
      /\ pc[s] \in InBody => Holds(s)' = Holds(s)

LEMMA BodiesMove ==
    ASSUME SchedulerTypeOK, NEW r \in Replicas, OthersStay(r)
    PROVE  Bodies' = (Bodies \ Share(r)) \cup Share(r)'
<1>1. \A s \in Replicas : BodyOf(s).by = s /\ BodyOf(s)'.by = s
  BY DEF BodyOf
<1>2. ASSUME NEW s \in Replicas, s # r
      PROVE  (pc'[s] \in InBody <=> pc[s] \in InBody)
             /\ (pc[s] \in InBody => BodyOf(s)' = BodyOf(s))
  BY <1>2 DEF OthersStay, BodyOf, AtPair
<1>3. Bodies = {BodyOf(s) : s \in {u \in Replicas : pc[u] \in InBody}}
  BY DEF Bodies, BodyOf
<1>4. Bodies' = {BodyOf(s)' : s \in {u \in Replicas : pc'[u] \in InBody}}
  BY DEF Bodies, BodyOf
<1> DEFINE Others == {BodyOf(s) : s \in {u \in Replicas \ {r} : pc[u] \in InBody}}
           OthersNext == {BodyOf(s)' : s \in {u \in Replicas \ {r} : pc'[u] \in InBody}}
<1> HIDE DEF InBody
<1>5. OthersNext = Others
  BY <1>2
<1>6. Others = Bodies \ Share(r)
  BY <1>1, <1>3 DEF Share
<1>7. Bodies' = OthersNext \cup Share(r)'
  BY <1>4 DEF Share
<1> QED  BY <1>5, <1>6, <1>7

\* In a step of its own, or of its process or session, a replica moves no other.
LEMMA OneMoves ==
    ASSUME SchedulerInv, NEW r \in Replicas, Loop(r) \/ World(r)
    PROVE  OthersStay(r)
<1> SUFFICES ASSUME NEW s \in Replicas, s # r
             PROVE  /\ pc'[s] = pc[s] /\ at'[s] = at[s] /\ begun'[s] = begun[s]
                    /\ pc[s] \in InBody => (lock'[Walk[at'[s]]] = s <=> lock[Walk[at[s]]] = s)
  BY DEF OthersStay, Holds, AtPair
<1>0. /\ pc \in [Replicas -> {"asleep", "walk", "acquire", "down"} \cup Holding]
      /\ at \in [Replicas -> 1..(Len(Walk) + 1)]
      /\ begun \in [Replicas -> 0..MaxTime]
      /\ lock \in [Pairs -> Replicas \cup {NoOne}]
      /\ NoOne \notin Replicas
      /\ pc[s] \in InBody => Walk[at[s]] \in Pairs
      /\ \A q \in Pairs : Unlocked(r)[q] = s <=> lock[q] = s
  BY SchedulerConstants, Typed, SMTT(30) DEF SchedulerInv, SchedulerTypeOK, Unlocked, AtPair
<1> HIDE DEF InBody, Holding
<1>1. CASE WakeTick(r) \/ EndTick(r) \/ ReadState(r)
  BY <1>0, <1>1 DEF WakeTick, EndTick, ReadState, GoTo, NextPair
<1>2. CASE Acquire(r)
  BY <1>0, <1>2 DEF Acquire, GoTo, NextPair, AtPair
<1>3. CASE Reread(r)
  BY <1>0, <1>3 DEF Reread, GoTo
<1>4. ASSUME NEW status \in Endings, BodyEnds(r, status)
      PROVE  /\ pc'[s] = pc[s] /\ at'[s] = at[s] /\ begun'[s] = begun[s]
             /\ pc[s] \in InBody => (lock'[Walk[at'[s]]] = s <=> lock[Walk[at[s]]] = s)
  BY <1>0, <1>4 DEF BodyEnds, GoTo
<1>5. CASE Record(r) \/ RecordFails(r)
  BY <1>0, <1>5 DEF Record, RecordFails, GoTo, BodyForgotten
<1>6. CASE Release(r) \/ Die(r)
  BY <1>0, <1>6 DEF Release, Die, GoTo, NextPair, BodyForgotten
<1>7. CASE Stop(r) \/ Boot(r) \/ SessionDies(r)
  BY <1>0, <1>7 DEF Stop, Boot, SessionDies, loopVars, GoTo
<1> QED  BY <1>1, <1>2, <1>3, <1>4, <1>5, <1>6, <1>7 DEF Loop, World

\* The state of the promise does not move.
Stutters == UNCHANGED <<now, runs, Bodies>>

LEMMA StepKeepsPromise ==
    ASSUME SchedulerInv, NEW r \in Replicas, Loop(r) \/ World(r)
    PROVE  Promise!Next \/ Stutters
<1>0. /\ pc \in [Replicas -> {"asleep", "walk", "acquire", "down"} \cup Holding]
      /\ at \in [Replicas -> 1..(Len(Walk) + 1)]
      /\ begun \in [Replicas -> 0..MaxTime]
      /\ lock \in [Pairs -> Replicas \cup {NoOne}]
      /\ pc[r] \in Holding => AtPair(r) \in Pairs
  BY Typed DEF SchedulerInv, SchedulerTypeOK
<1>1. Bodies' = (Bodies \ Share(r)) \cup Share(r)'
  BY OneMoves, BodiesMove DEF SchedulerInv
<1>2. pc[r] \in InBody => BodyOf(r) \in Bodies
  BY DEF Bodies, BodyOf
<1>3. ASSUME Share(r)' = Share(r), now' = now, runs' = runs
      PROVE  Stutters
  <2>1. Share(r) \subseteq Bodies
    BY <1>2 DEF Share
  <2> QED  BY <1>1, <1>3, <2>1 DEF Stutters
\* Outside of a body, before and after.
<1>4. CASE WakeTick(r) \/ EndTick(r) \/ ReadState(r) \/ Acquire(r) \/ Release(r) \/ Boot(r)
  <2>1. pc[r] \notin InBody /\ pc'[r] \notin InBody
    BY <1>0, <1>4 DEF WakeTick, EndTick, ReadState, Acquire, Release, Boot, GoTo, NextPair
  <2> QED  BY <1>3, <1>4, <2>1
           DEF Share, WakeTick, EndTick, ReadState, Acquire, Release, Boot
\* A body ends or its replica is told to stop: the body is the same.
<1>5. ASSUME Stop(r) \/ \E status \in Endings : BodyEnds(r, status)
      PROVE  Stutters
  <2>1. /\ pc'[r] \in InBody <=> pc[r] \in InBody
        /\ UNCHANGED <<now, runs, at, begun, lock>>
    BY <1>0, <1>5 DEF Stop, BodyEnds, GoTo, loopVars
  <2> QED  BY <1>3, <2>1 DEF Share, BodyOf, AtPair, Holds
\* A body starts, or does not.
<1>6. CASE Reread(r)
  <2>1. CASE ~(IsDue(AtPair(r)) /\ pc'[r] = "running")
    <3>1. pc[r] \notin InBody /\ pc'[r] \notin InBody /\ now' = now /\ runs' = runs
      BY <1>0, <1>6, <2>1 DEF Reread, StillDue, GoTo
    <3> QED  BY <1>3, <3>1 DEF Share
  <2>2. CASE IsDue(AtPair(r)) /\ pc'[r] = "running"
    <3>1. /\ pc[r] = "reread" /\ begun'[r] = now
          /\ UNCHANGED <<now, at, lock, runs>>
      BY <1>0, <1>6, <2>2 DEF Reread, GoTo
    <3>2. Share(r) = {} /\ Share(r)' = {[by |-> r, pair |-> AtPair(r), started |-> now, held |-> Holds(r)]}
      BY <2>2, <3>1 DEF Share, BodyOf, AtPair, Holds
    <3>3. ~Promise!Busy(r)
      BY <3>1 DEF Promise!Busy, Bodies
    <3>4. Holds(r) => ~Promise!Protected(AtPair(r))
      <4> SUFFICES ASSUME Holds(r), NEW s \in Replicas, pc[s] \in InBody,
                          AtPair(s) = AtPair(r), Holds(s)
                   PROVE  FALSE
        BY DEF Promise!Protected, Bodies
      <4>1. s = r
        BY DEF Holds
      <4> QED  BY <3>1, <4>1
    <3>5. Promise!Begin(r, AtPair(r), Holds(r))
      BY <1>1, <2>2, <3>1, <3>2, <3>3, <3>4 DEF Promise!Begin, IsDue
    <3> QED  BY <1>0, <3>1, <3>5 DEF Promise!Next, Holds
  <2> QED  BY <2>1, <2>2
\* A row is written, or is not; the body is over in either case.
<1>7. ASSUME pc[r] = "recording", pc'[r] \notin InBody, now' = now,
             WriteRow(r) \/ UNCHANGED runs
      PROVE  Promise!Next
  <2> DEFINE b == BodyOf(r)
  <2>1. b \in Bodies /\ Bodies' = Bodies \ {b}
    BY <1>1, <1>2, <1>7 DEF Share
  <2>2. /\ outcome[r].status \in Promise!Statuses
        /\ outcome[r].finished \in b.started..now
    BY <1>7 DEF SchedulerInv, SchedulerTypeOK, BodiesInTime, BodyOf
  <2>3. CASE WriteRow(r)
    <3>1. Promise!Finish(b, outcome[r].status, outcome[r].finished)
      BY <1>7, <2>1, <2>3 DEF WriteRow, Promise!Finish, BodyOf
    <3> QED  BY <2>1, <2>2, <3>1 DEF Promise!Next
  <2>4. CASE UNCHANGED runs
    BY <1>7, <2>1, <2>4 DEF Promise!Next, Promise!Abandon
  <2> QED  BY <1>7, <2>3, <2>4
<1>8. CASE Record(r) \/ RecordFails(r)
  BY <1>0, <1>7, <1>8 DEF Record, RecordFails, GoTo
\* The process dies, with or without a body.
<1>9. CASE Die(r)
  <2>1. pc'[r] = "down" /\ now' = now /\ runs' = runs
    BY <1>0, <1>9 DEF Die, GoTo
  <2>2. CASE pc[r] \in InBody
    <3>1. Promise!Abandon(BodyOf(r))
      BY <1>1, <2>1, <2>2 DEF Promise!Abandon, Share
    <3> QED  BY <1>2, <2>2, <3>1 DEF Promise!Next
  <2>3. CASE pc[r] \notin InBody
    BY <1>3, <2>1, <2>3 DEF Share
  <2> QED  BY <2>2, <2>3
\* The session dies under its replica.
<1>10. CASE SessionDies(r)
  <2>1. /\ UNCHANGED <<now, pc, at, begun, runs>> /\ Holds(r)
        /\ AtPair(r) \in Pairs /\ lock'[AtPair(r)] # r
    BY <1>0, <1>10, SchedulerConstants DEF SessionDies, Unlocked
  <2>2. CASE pc[r] \in InBody
    <3>1. /\ BodyOf(r).by = r /\ BodyOf(r).pair = AtPair(r)
          /\ BodyOf(r).started = begun[r] /\ BodyOf(r).held
      BY <2>1 DEF BodyOf
    <3>2. Share(r)' = {[by |-> r, pair |-> AtPair(r), started |-> begun[r], held |-> FALSE]}
      BY <2>1, <2>2 DEF Share, BodyOf, AtPair, Holds
    <3>3. Promise!LoseLock(BodyOf(r))
      BY <1>1, <2>1, <2>2, <3>1, <3>2 DEF Promise!LoseLock, Share
    <3> QED  BY <1>2, <2>2, <3>3 DEF Promise!Next
  <2>3. CASE pc[r] \notin InBody
    BY <1>3, <2>1, <2>3 DEF Share
  <2> QED  BY <2>2, <2>3
<1> QED  BY <1>4, <1>5, <1>6, <1>8, <1>9, <1>10 DEF Loop, World

LEMMA NextKeepsPromise ==
    ASSUME SchedulerInv, [Next]_schedulerVars
    PROVE  Promise!Next \/ Stutters
<1>1. CASE Tick
  BY <1>1 DEF Tick, loopVars, Promise!Next, Promise!Tick, Bodies, AtPair, Holds
<1>2. CASE UNCHANGED schedulerVars
  BY <1>2 DEF schedulerVars, loopVars, Stutters, Bodies, AtPair, Holds
<1>3. ASSUME NEW r \in Replicas, Loop(r) \/ World(r)
      PROVE  Promise!Next \/ Stutters
  BY <1>3, StepKeepsPromise
<1> QED  BY <1>1, <1>2, <1>3 DEF Next, World

-----------------------------------------------------------------------------
(* What JobRuns promises, whatever loop keeps the promise.                 *)

\* All the rows of a pair were written under the lock.
AllHeld(p) == \A i \in DOMAIN runs[p] : runs[p][i].held

\* What a protected body relies on while it works: still a window away from each
\* run that settled under the lock, and past the backoff of the rows there are.
BodiesDue ==
    \A b \in Bodies : b.held =>
      /\ \A i \in Promise!Settled(runs[b.pair]) :
           runs[b.pair][i].held => b.started - runs[b.pair][i].finished >= Interval[b.pair]
      /\ AllHeld(b.pair) => Promise!BackoffServed(runs[b.pair], b.started)

RunsInv ==
    /\ Promise!JobRunsTypeOK /\ Promise!OneAtATime /\ BodiesDue
    /\ Promise!WindowSettledOnce /\ Promise!BackoffKept

-----------------------------------------------------------------------------
(* Appending a row to the rows of a pair.                                  *)

\* The rows that were there keep their places, and prefixes stay what they were.
LEMMA RowAppended ==
    ASSUME NEW h \in Seq(Promise!Row), NEW x \in Promise!Row
    PROVE  /\ Append(h, x) \in Seq(Promise!Row)
           /\ DOMAIN Append(h, x) = DOMAIN h \cup {Len(h) + 1}
           /\ DOMAIN h = 1..Len(h) /\ Len(h) \in Nat
           /\ \A i \in DOMAIN h : Append(h, x)[i] = h[i]
           /\ Append(h, x)[Len(h) + 1] = x
           /\ \A j \in 1..(Len(h) + 1) : SubSeq(Append(h, x), 1, j - 1) = SubSeq(h, 1, j - 1)
           /\ SubSeq(h, 1, Len(h)) = h
<1> DEFINE g == Append(h, x)
<1>1. /\ g \in Seq(Promise!Row) /\ Len(g) = Len(h) + 1 /\ DOMAIN g = 1..(Len(h) + 1)
      /\ DOMAIN h = 1..Len(h) /\ Len(h) \in Nat
      /\ \A i \in 1..Len(h) : g[i] = h[i]
      /\ g[Len(h) + 1] = x
  OBVIOUS
<1>2. ASSUME NEW j \in 1..(Len(h) + 1)
      PROVE  SubSeq(g, 1, j - 1) = SubSeq(h, 1, j - 1)
  <2>1. /\ SubSeq(g, 1, j - 1) = [i \in 1..(j - 1) |-> g[i]]
        /\ SubSeq(h, 1, j - 1) = [i \in 1..(j - 1) |-> h[i]]
    BY <1>1, SubSeqProperties
  <2>2. \A i \in 1..(j - 1) : g[i] = h[i]
    BY <1>1
  <2> QED  BY <2>1, <2>2, Zenon
<1>3. SubSeq(h, 1, Len(h)) = h
  BY SubSeqProperties
<1> QED  BY <1>1, <1>2, <1>3

\* The settled rows with one more.
LEMMA SettledAppended ==
    ASSUME NEW h \in Seq(Promise!Row), NEW x \in Promise!Row
    PROVE  \A i \in Promise!Settled(Append(h, x)) :
             i \in Promise!Settled(h) \/ i = Len(h) + 1
  BY RowAppended DEF Promise!Settled

-----------------------------------------------------------------------------
(* The invariant holds from the start and by every step.                   *)

LEMMA PromiseStarts == ASSUME Promise!JobRunsConstants, Promise!Init PROVE RunsInv
<1>1. Promise!JobRunsTypeOK
  BY DEF Promise!JobRunsConstants, Promise!Init, Promise!JobRunsTypeOK
<1>2. Promise!OneAtATime /\ BodiesDue
  BY DEF Promise!Init, Promise!OneAtATime, BodiesDue
<1>3. Promise!WindowSettledOnce /\ Promise!BackoffKept
  BY DEF Promise!Init, Promise!WindowSettledOnce, Promise!BackoffKept, Promise!Settled
<1> QED  BY <1>1, <1>2, <1>3 DEF RunsInv

\* Where no row is written and no clock moves back, what was settled stays settled.
LEMMA HistoryKept ==
    ASSUME RunsInv, runs' = runs
    PROVE  Promise!WindowSettledOnce' /\ Promise!BackoffKept'
<1>1. Promise!WindowSettledOnce'
  BY DEF RunsInv, Promise!WindowSettledOnce, Promise!Settled
<1>2. Promise!BackoffKept'
  <2> SUFFICES ASSUME NEW q \in Pairs, \A i \in DOMAIN runs'[q] : runs'[q][i].held,
                      NEW j \in DOMAIN runs'[q]
               PROVE  Promise!BackoffServed(SubSeq(runs'[q], 1, j - 1), runs'[q][j].started)
    BY DEF Promise!BackoffKept
  <2> QED  BY DEF RunsInv, Promise!BackoffKept
<1> QED  BY <1>1, <1>2

LEMMA BeginKeeps ==
    ASSUME Promise!JobRunsConstants, RunsInv,
           NEW r \in Replicas, NEW p \in Pairs, NEW held \in BOOLEAN, Promise!Begin(r, p, held)
    PROVE  RunsInv'
<1> DEFINE b == [by |-> r, pair |-> p, started |-> now, held |-> held]
<1>1. /\ Bodies' = Bodies \cup {b} /\ runs' = runs /\ now' = now
      /\ ~Promise!Busy(r) /\ Promise!IsDue(p) /\ (held => ~Promise!Protected(p))
      /\ b.by = r /\ b.pair = p /\ b.held = held /\ b.started = now
  BY DEF Promise!Begin
<1>2. Promise!JobRunsTypeOK'
  <2>1. b \in Promise!Body
    BY DEF RunsInv, Promise!JobRunsTypeOK, Promise!Body, Promise!JobRunsConstants
  <2> QED  BY <1>1, <2>1 DEF RunsInv, Promise!JobRunsTypeOK
<1> HIDE DEF b
<1>3. Promise!OneAtATime'
  BY <1>1 DEF RunsInv, Promise!OneAtATime, Promise!Busy, Promise!Protected
<1>4. BodiesDue'
  <2>1. ASSUME b.held
        PROVE  /\ \A i \in Promise!Settled(runs[p]) :
                    runs[p][i].held => now - runs[p][i].finished >= Interval[p]
               /\ AllHeld(p) => Promise!BackoffServed(runs[p], now)
    BY <1>1 DEF Promise!IsDue, Promise!WindowPassed
  <2>2. \A q : AllHeld(q)' <=> AllHeld(q)
    BY <1>1 DEF AllHeld
  <2> QED  BY <1>1, <2>1, <2>2 DEF RunsInv, BodiesDue
<1> QED  BY <1>1, <1>2, <1>3, <1>4, HistoryKept DEF RunsInv

LEMMA LoseLockKeeps ==
    ASSUME Promise!JobRunsConstants, RunsInv, NEW b \in Bodies, Promise!LoseLock(b)
    PROVE  RunsInv'
<1> DEFINE c == [by |-> b.by, pair |-> b.pair, started |-> b.started, held |-> FALSE]
<1>1. /\ Bodies' = (Bodies \ {b}) \cup {c} /\ runs' = runs /\ now' = now
  BY DEF Promise!LoseLock
<1>2. /\ b \in Promise!Body /\ c \in Promise!Body /\ c.held = FALSE /\ c.by = b.by /\ c.pair = b.pair
  BY DEF RunsInv, Promise!JobRunsTypeOK, Promise!Body
<1>3. Promise!JobRunsTypeOK'
  BY <1>1, <1>2 DEF RunsInv, Promise!JobRunsTypeOK
<1> HIDE DEF c
<1>4. Promise!OneAtATime'
  BY <1>1, <1>2 DEF RunsInv, Promise!OneAtATime
<1>5. BodiesDue'
  <2>1. \A q : AllHeld(q)' <=> AllHeld(q)
    BY <1>1 DEF AllHeld
  <2> QED  BY <1>1, <1>2, <2>1 DEF RunsInv, BodiesDue
<1> QED  BY <1>1, <1>3, <1>4, <1>5, HistoryKept DEF RunsInv

LEMMA AbandonKeeps ==
    ASSUME Promise!JobRunsConstants, RunsInv, NEW b \in Bodies, Promise!Abandon(b)
    PROVE  RunsInv'
<1>1. /\ Bodies' = Bodies \ {b} /\ runs' = runs /\ now' = now
  BY DEF Promise!Abandon
<1>2. Promise!JobRunsTypeOK' /\ Promise!OneAtATime'
  BY <1>1 DEF RunsInv, Promise!JobRunsTypeOK, Promise!OneAtATime
<1>3. BodiesDue'
  <2>1. \A q : AllHeld(q)' <=> AllHeld(q)
    BY <1>1 DEF AllHeld
  <2> QED  BY <1>1, <2>1 DEF RunsInv, BodiesDue
<1> QED  BY <1>1, <1>2, <1>3, HistoryKept DEF RunsInv

LEMMA TickKeeps ==
    ASSUME Promise!JobRunsConstants, RunsInv, Promise!Tick \/ UNCHANGED Promise!jobRunsVars
    PROVE  RunsInv'
<1>1. Bodies' = Bodies /\ runs' = runs /\ now' \in 0..MaxTime
  BY DEF Promise!Tick, Promise!jobRunsVars, RunsInv, Promise!JobRunsTypeOK, Promise!JobRunsConstants
<1>2. Promise!JobRunsTypeOK' /\ Promise!OneAtATime'
  BY <1>1 DEF RunsInv, Promise!JobRunsTypeOK, Promise!OneAtATime
<1>3. BodiesDue'
  <2>1. \A q : AllHeld(q)' <=> AllHeld(q)
    BY <1>1 DEF AllHeld
  <2> QED  BY <1>1, <2>1 DEF RunsInv, BodiesDue
<1> QED  BY <1>1, <1>2, <1>3, HistoryKept DEF RunsInv

\* The step that matters: a row is written.
LEMMA FinishKeeps ==
    ASSUME Promise!JobRunsConstants, RunsInv, NEW b \in Bodies, NEW status \in Promise!Statuses,
           NEW finished \in b.started..now, Promise!Finish(b, status, finished)
    PROVE  RunsInv'
<1> DEFINE p == b.pair
           h == runs[p]
           x == [status |-> status, started |-> b.started, finished |-> finished, held |-> b.held]
           n == Len(h) + 1
<1>1. /\ b \in Promise!Body /\ p \in Pairs /\ b.started \in Nat /\ b.held \in BOOLEAN
      /\ h \in Seq(Promise!Row) /\ x \in Promise!Row /\ finished \in Nat
  <2>1. b \in Promise!Body /\ runs \in [Pairs -> Seq(Promise!Row)] /\ now \in Nat
    BY DEF RunsInv, Promise!JobRunsTypeOK, Promise!JobRunsConstants
  <2>2. /\ p \in Pairs /\ b.started \in Nat /\ b.held \in BOOLEAN
        /\ h \in Seq(Promise!Row) /\ finished \in Nat
    BY <2>1 DEF Promise!Body
  <2>3. x \in Promise!Row
    BY <2>2 DEF Promise!Row
  <2> QED  BY <2>1, <2>2, <2>3
<1>2. /\ Bodies' = Bodies \ {b} /\ now' = now
      /\ runs' = [runs EXCEPT ![p] = Append(h, x)]
      /\ runs'[p] = Append(h, x)
      /\ \A q \in Pairs : q # p => runs'[q] = runs[q]
  BY <1>1 DEF Promise!Finish, RunsInv, Promise!JobRunsTypeOK
<1>3. Promise!JobRunsTypeOK'
  BY <1>1, <1>2, RowAppended DEF RunsInv, Promise!JobRunsTypeOK
<1>4. Promise!OneAtATime'
  BY <1>2 DEF RunsInv, Promise!OneAtATime
<1> HIDE DEF x
<1>5. BodiesDue'
  <2> SUFFICES ASSUME NEW a \in Bodies, a # b, a.held
               PROVE  /\ \A i \in Promise!Settled(runs'[a.pair]) :
                           runs'[a.pair][i].held
                             => a.started - runs'[a.pair][i].finished >= Interval[a.pair]
                      /\ AllHeld(a.pair)' => Promise!BackoffServed(runs'[a.pair], a.started)
    BY <1>2 DEF BodiesDue
  <2>1. a \in Promise!Body /\ a.pair \in Pairs
    BY DEF RunsInv, Promise!JobRunsTypeOK, Promise!Body
  <2>2. CASE a.pair # p
    <3>1. runs'[a.pair] = runs[a.pair]
      BY <1>2, <2>1, <2>2
    <3> QED  BY <3>1 DEF RunsInv, BodiesDue, AllHeld
  <2>3. CASE a.pair = p
    <3>1. ~x.held
      BY <2>3, <1>1 DEF RunsInv, Promise!OneAtATime, x
    <3>2. ~AllHeld(p)'
      BY <1>1, <1>2, <3>1, RowAppended DEF AllHeld
    <3>3. ASSUME NEW i \in Promise!Settled(Append(h, x)), Append(h, x)[i].held
          PROVE  a.started - Append(h, x)[i].finished >= Interval[p]
      <4>1. i \in DOMAIN h /\ Append(h, x)[i] = h[i] /\ i \in Promise!Settled(h)
        BY <1>1, <3>1, <3>3, RowAppended, SettledAppended DEF Promise!Settled
      <4> QED  BY <2>3, <3>3, <4>1 DEF RunsInv, BodiesDue
    <3> QED  BY <1>2, <2>3, <3>2, <3>3
  <2> QED  BY <2>2, <2>3
<1>6. Promise!WindowSettledOnce'
  <2> SUFFICES ASSUME NEW q \in Pairs, NEW i \in Promise!Settled(runs'[q]), NEW j \in Promise!Settled(runs'[q]),
                      i < j, runs'[q][i].held, runs'[q][j].held
               PROVE  runs'[q][j].started - runs'[q][i].finished >= Interval[q]
    BY DEF Promise!WindowSettledOnce
  <2>1. CASE q # p
    BY <1>2, <2>1 DEF RunsInv, Promise!WindowSettledOnce
  <2>2. CASE q = p
    <3>1. i \in DOMAIN h /\ i \in Promise!Settled(h) /\ runs'[p][i] = h[i]
      BY <1>1, <1>2, <2>2, RowAppended, SettledAppended DEF Promise!Settled
    <3>2. CASE j = n
      <4>1. runs'[p][j] = x /\ x.held = b.held /\ x.started = b.started
        BY <1>1, <1>2, <3>2, RowAppended DEF x
      <4> QED  BY <2>2, <3>1, <4>1 DEF RunsInv, BodiesDue
    <3>3. CASE j # n
      <4>1. j \in Promise!Settled(h) /\ runs'[p][j] = h[j]
        BY <1>1, <1>2, <2>2, <3>3, RowAppended, SettledAppended DEF Promise!Settled
      <4> QED  BY <1>1, <2>2, <3>1, <4>1 DEF RunsInv, Promise!WindowSettledOnce
    <3> QED  BY <3>2, <3>3
  <2> QED  BY <2>1, <2>2
<1>7. Promise!BackoffKept'
  <2> SUFFICES ASSUME NEW q \in Pairs, \A i \in DOMAIN runs'[q] : runs'[q][i].held,
                      NEW j \in DOMAIN runs'[q]
               PROVE  Promise!BackoffServed(SubSeq(runs'[q], 1, j - 1), runs'[q][j].started)
    BY DEF Promise!BackoffKept
  <2>1. CASE q # p
    BY <1>2, <2>1 DEF RunsInv, Promise!BackoffKept
  <2>2. CASE q = p
    <3>1. /\ AllHeld(p) /\ x.held
          /\ j \in 1..n /\ SubSeq(runs'[p], 1, j - 1) = SubSeq(h, 1, j - 1)
      BY <1>1, <1>2, <2>2, RowAppended DEF AllHeld
    <3>2. CASE j = n
      <4>1. runs'[p][j] = x /\ x.held = b.held /\ x.started = b.started
        BY <1>1, <1>2, <3>2, RowAppended DEF x
      <4>2. SubSeq(h, 1, j - 1) = h
        BY <1>1, <3>2, RowAppended
      <4> QED  BY <2>2, <3>1, <4>1, <4>2 DEF RunsInv, BodiesDue
    <3>3. CASE j # n
      <4>1. j \in DOMAIN h /\ runs'[p][j] = h[j]
        BY <1>1, <1>2, <3>1, <3>3, RowAppended
      <4> QED  BY <1>1, <2>2, <3>1, <4>1 DEF RunsInv, Promise!BackoffKept, AllHeld
    <3> QED  BY <3>2, <3>3
  <2> QED  BY <2>1, <2>2
<1> QED  BY <1>3, <1>4, <1>5, <1>6, <1>7 DEF RunsInv

LEMMA PromiseKept == ASSUME Promise!JobRunsConstants, RunsInv, [Promise!Next]_(Promise!jobRunsVars) PROVE RunsInv'
<1>1. ASSUME NEW r \in Replicas, NEW p \in Pairs, NEW held \in BOOLEAN, Promise!Begin(r, p, held)
      PROVE  RunsInv'
  BY <1>1, BeginKeeps
<1>2. ASSUME NEW b \in Bodies, Promise!LoseLock(b)
      PROVE  RunsInv'
  BY <1>2, LoseLockKeeps
<1>3. ASSUME NEW b \in Bodies, Promise!Abandon(b)
      PROVE  RunsInv'
  BY <1>3, AbandonKeeps
<1>4. ASSUME NEW b \in Bodies, NEW status \in Promise!Statuses, NEW finished \in b.started..now,
             Promise!Finish(b, status, finished)
      PROVE  RunsInv'
  BY <1>4, FinishKeeps
<1>5. CASE Promise!Tick \/ UNCHANGED Promise!jobRunsVars
  BY <1>5, TickKeeps
<1> QED  BY <1>1, <1>2, <1>3, <1>4, <1>5 DEF Promise!Next

-----------------------------------------------------------------------------
\* The invariant of the promise: types, one protected body per pair, and bodies that
\* were due by everything the history said and says.
THEOREM RunsInvHolds == ASSUME Promise!JobRunsConstants PROVE Promise!Spec => []RunsInv
<1>1. Promise!Init => RunsInv
  BY PromiseStarts
<1>2. RunsInv /\ [Promise!Next]_(Promise!jobRunsVars) => RunsInv'
  BY PromiseKept
<1> QED  BY <1>1, <1>2, PTL DEF Promise!Spec

\* A scheduler that keeps the promise never settles a window twice under the lock
\* and keeps every backoff, whatever the number of its replicas and pairs.
THEOREM PromiseSettlesOnce ==
    ASSUME Promise!JobRunsConstants
    PROVE  Promise!Spec => [](Promise!OneAtATime /\ Promise!WindowSettledOnce /\ Promise!BackoffKept)
<1>1. RunsInv => Promise!OneAtATime /\ Promise!WindowSettledOnce /\ Promise!BackoffKept
  BY DEF RunsInv
<1> QED  BY <1>1, RunsInvHolds, PTL

-----------------------------------------------------------------------------
\* Types, and locks that are held only where they are used, by whatever path a
\* replica left its walk.
THEOREM LocksAreInUse == Spec => [](SchedulerTypeOK /\ LocksHeldInPlace)
<1>1. Init => SchedulerInv
  BY InvStarts
<1>2. SchedulerInv /\ [Next]_schedulerVars => SchedulerInv'
  BY InvKept
<1>3. SchedulerInv => SchedulerTypeOK /\ LocksHeldInPlace
  BY DEF SchedulerInv
<1> QED  BY <1>1, <1>2, <1>3, PTL DEF Spec

\* The tick loop implements the promise: looking, locking, looking again and starting
\* amount to one atomic start, and so on for the end.
THEOREM LoopKeepsPromise == Spec => KeepsPromise
<1>1. Init => SchedulerInv /\ Promise!Init
  BY InvStarts DEF Init, Promise!Init, Bodies
<1>2. SchedulerInv /\ [Next]_schedulerVars => SchedulerInv'
  BY InvKept
<1>3. SchedulerInv /\ [Next]_schedulerVars => [Promise!Next]_(Promise!jobRunsVars)
  BY NextKeepsPromise DEF Stutters, Promise!jobRunsVars
<1> QED  BY <1>1, <1>2, <1>3, PTL DEF Spec, KeepsPromise, Promise!Spec

\* What the promise says of the bodies holds of the loop's.
LEMMA LoopInherits == Spec => [](WindowSettledOnce /\ BackoffKept)
<1>1. Promise!JobRunsConstants
  BY SchedulerConstants DEF Promise!JobRunsConstants
<1>2. Promise!WindowSettledOnce /\ Promise!BackoffKept => WindowSettledOnce /\ BackoffKept
  BY DEF WindowSettledOnce, BackoffKept
<1> QED  BY <1>1, <1>2, PromiseSettlesOnce, LoopKeepsPromise, PTL DEF KeepsPromise

\* So no window is settled twice by runs that kept their lock, whatever replicas
\* race, die, or lose their sessions.
THEOREM WindowsSettledOnce == Spec => []WindowSettledOnce
BY LoopInherits, PTL

\* While no lock was lost, an attempt waits for the backoff that the failures of
\* its pair call for, on whichever replicas they happened.
THEOREM BackoffsKept == Spec => []BackoffKept
BY LoopInherits, PTL
=============================================================================
