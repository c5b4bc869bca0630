--------------------------- MODULE MCSdkTransport ---------------------------
(***************************************************************************)
(* Small instances of SdkTransport for TLC.  d is the worker thread, c a   *)
(* thread of the application inside flush().                               *)
(***************************************************************************)
EXTENDS SdkTransport

NoSpans == {}
FirstSpan == {1}
LastSpan == {NumSpans}
NoHints == {0}
OneHint == {0, 1}
OnlyAccepts == {"accepted"}
=============================================================================
