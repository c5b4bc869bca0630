-------------------------- MODULE MCIngestPipeline --------------------------
(***************************************************************************)
(* A small instance of IngestPipeline for TLC: three spans and a few       *)
(* applications, chosen so that the numbering of a batch can shift.        *)
(***************************************************************************)
EXTENDS IngestPipeline

NoSpans == {}
NoHints == {0}
HandlerVerdicts == {"accepted", "retry", "dead", "duplicate"}

Like(trace, id, sort) == [trace |-> trace, id |-> id, sort |-> sort]

\* Two spans of one span id and no trace in front of a span without ids, so
\* that the numbering shifts; an invalid span, one in a closed period, and an
\* incomplete identity.
SomeApps ==
    {Like(<<"-", "-", "-">>, <<"i", "i", "-">>, <<"valid", "valid", "valid">>),
     Like(<<"t", "-", "t">>, <<"i", "-", "-">>, <<"invalid", "closed", "valid">>)}
=============================================================================
