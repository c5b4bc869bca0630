----------------------------- MODULE MCEdgeKeys -----------------------------
(***************************************************************************)
(* A small instance of EdgeKeys for TLC: one organization, which is where  *)
(* keys and the switch meet.                                               *)
(***************************************************************************)
EXTENDS EdgeKeys

OneOrg == [k \in Keys |-> "acme"]
=============================================================================
