------------------------- MODULE MCIngestIdempotency -------------------------
(***************************************************************************)
(* Small instances of IngestIdempotency for TLC.                           *)
(***************************************************************************)
EXTENDS IngestIdempotency

EveryFault == Fault
OnlyWriteFails == {"write"}
NoFault == {}
=============================================================================
