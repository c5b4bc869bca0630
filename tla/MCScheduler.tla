---------------------------- MODULE MCScheduler ----------------------------
(***************************************************************************)
(* A small instance of Scheduler for TLC: two replicas and one pair, which *)
(* is where they meet.                                                     *)
(***************************************************************************)
EXTENDS Scheduler, TLC

CONSTANTS r1, r2

OnePair == <<"cost">>
Cadence == "cost" :> 1
=============================================================================
