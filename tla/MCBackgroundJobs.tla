-------------------------- MODULE MCBackgroundJobs --------------------------
(***************************************************************************)
(* A small instance of BackgroundJobs for TLC: one connector of its own    *)
(* and one that shares a window between two series; events that show up    *)
(* at once and late, one of which its mapper chokes on, and a replica      *)
(* whose clock is ahead.                                                   *)
(***************************************************************************)
EXTENDS BackgroundJobs, TLC

OneJob == {{"cost"}, {"ingest"}}

TwoUnits == <<<<"aws">>, <<"vercel", "bandwidth">>>>
SpendDays == "aws" :> {0} @@ "vercel" :> {0, 1, 3} @@ "bandwidth" :> {0, 1, 2}

CONSTANTS r1, r2, e1, e2, e3, e4
ClockSkew == r1 :> 0 @@ r2 :> 1
EventTimes == e1 :> 0 @@ e2 :> 2 @@ e3 :> 3 @@ e4 :> 1
EventLags == e1 :> 0 @@ e2 :> 1 @@ e3 :> 0 @@ e4 :> 0
=============================================================================
