--------------------------- MODULE MCIngestBuffer ---------------------------
(***************************************************************************)
(* Small instances of IngestBuffer for TLC: tenant a has a row in each of  *)
(* the first two partitions, tenant b one behind a's and one of its own.   *)
(***************************************************************************)
EXTENDS IngestBuffer

RowSet == {"a1", "a2", "b1", "b3"}
TenantOfRow == [r \in RowSet |-> IF r \in {"a1", "a2"} THEN "a" ELSE "b"]
PartitionOfRow == [r \in RowSet |->
    CASE r \in {"a1", "b1"} -> 1 [] r = "a2" -> 2 [] r = "b3" -> 3]
BatchSet == {<<"a1", "a2">>, <<"b1", "b3">>}
OneRowEach == {<<"a1">>, <<"b1">>}
=============================================================================
