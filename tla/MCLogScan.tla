----------------------------- MODULE MCLogScan -----------------------------
(***************************************************************************)
(* LogScan over every file of at most MaxFile bytes.  A chunk is shorter   *)
(* than the delimiter, so that a delimiter can lie across three chunks.    *)
(***************************************************************************)
EXTENDS LogScan

CONSTANTS S, a, x, MaxFile

MCDelim == <<S, a, a>>
Files == UNION {[1 .. n -> Char] : n \in 0 .. MaxFile}
=============================================================================
