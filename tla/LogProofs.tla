------------------------------ MODULE LogProofs ------------------------------
(***************************************************************************)
(* Proofs about the log.  Logger, for any records and any number of calls: *)
(* which logs are whole.  LogScan, for any file, chunk size and delimiter  *)
(* whose first byte does not recur: the first delimiter is found.          *)
(***************************************************************************)
EXTENDS Logger, LogScan, SequenceTheorems, TLAPS

LEMMA InitialPart ==
  ASSUME NEW S, NEW s \in Seq(S), NEW n \in Nat, n <= Len(s)
  PROVE  /\ SubSeq(s, 1, n) \in Seq(S) /\ Len(SubSeq(s, 1, n)) = n
         /\ \A x \in 1 .. n : SubSeq(s, 1, n)[x] = s[x]
<1>1. \A x \in 1 .. n : s[x] \in S
  BY LenProperties, ElementOfSeq
<1> QED
  BY <1>1, SubSeqProperties

LEMMA FinalPart ==
  ASSUME NEW S, NEW s \in Seq(S), NEW n \in Nat, n <= Len(s)
  PROVE  /\ SubSeq(s, n + 1, Len(s)) \in Seq(S) /\ Len(SubSeq(s, n + 1, Len(s))) = Len(s) - n
         /\ \A x \in 1 .. (Len(s) - n) : SubSeq(s, n + 1, Len(s))[x] = s[n + x]
<1>1. Len(s) \in Nat /\ n + 1 \in Int
  BY LenProperties
<1>2. \A x \in (n + 1) .. Len(s) : s[x] \in S
  BY <1>1, ElementOfSeq
<1> DEFINE m == Len(s)
<1>3. /\ SubSeq(s, n + 1, m) \in Seq(S)
      /\ Len(SubSeq(s, n + 1, m)) = IF n + 1 <= m THEN m - (n + 1) + 1 ELSE 0
      /\ \A x \in 1 .. (m - (n + 1) + 1) : SubSeq(s, n + 1, m)[x] = s[(n + 1) + x - 1]
  <2> HIDE DEF m
  <2> QED
    BY <1>1, <1>2, SubSeqProperties DEF m
<1>4. \A x \in 1 .. (m - n) : (n + 1) + x - 1 = n + x
  BY <1>1
<1>5. m \in Nat /\ n <= m
  BY <1>1
<1> HIDE DEF m
<1>6. m - (n + 1) + 1 = m - n /\ (IF n + 1 <= m THEN m - (n + 1) + 1 ELSE 0) = m - n
  BY <1>5
<1>7. /\ Len(SubSeq(s, n + 1, m)) = m - n
      /\ \A x \in 1 .. (m - n) : SubSeq(s, n + 1, m)[x] = s[n + x]
  BY <1>3, <1>4, <1>6
<1> QED
  BY <1>3, <1>7 DEF m

LEMMA PrefixByElement ==
  ASSUME NEW S, NEW s \in Seq(S), NEW t \in Seq(S)
  PROVE  IsPrefix(s, t) <=> Len(s) <= Len(t) /\ \A x \in 1 .. Len(s) : s[x] = t[x]
<1>1. Len(s) \in Nat /\ Len(t) \in Nat /\ SubSeq(s, 1, Len(s)) = s
  BY LenProperties, SubSeqFull
<1>2. CASE Len(s) <= Len(t)
  <2>1. /\ SubSeq(t, 1, Len(s)) \in Seq(S) /\ Len(SubSeq(t, 1, Len(s))) = Len(s)
        /\ \A x \in 1 .. Len(s) : SubSeq(t, 1, Len(s))[x] = t[x]
    BY <1>1, <1>2, InitialPart
  <2>2. s = SubSeq(t, 1, Len(s)) <=> \A x \in 1 .. Len(s) : s[x] = t[x]
    BY <2>1, SeqEqual
  <2> QED
    BY <1>1, <1>2, <2>2 DEF IsPrefix
<1> QED
  BY <1>1, <1>2 DEF IsPrefix

-----------------------------------------------------------------------------
(* The file and the log.                                                   *)

LEMMA OverwriteIs ==
  ASSUME NEW d \in Seq(Unit), NEW off \in Nat, NEW s \in Seq(Unit)
  PROVE  /\ Overwrite(d, off, s) \in Seq(Unit)
         /\ Len(Overwrite(d, off, s)) = IF Len(d) > off + Len(s) THEN Len(d) ELSE off + Len(s)
         /\ \A k \in 1 .. (IF Len(d) > off + Len(s) THEN Len(d) ELSE off + Len(s)) :
              Overwrite(d, off, s)[k] = IF k \in (off + 1) .. (off + Len(s)) THEN s[k - off]
                                        ELSE IF k <= Len(d) THEN d[k] ELSE Hole
<1> DEFINE len == IF Len(d) > off + Len(s) THEN Len(d) ELSE off + Len(s)
           e(k) == IF k \in (off + 1) .. (off + Len(s)) THEN s[k - off]
                   ELSE IF k <= Len(d) THEN d[k] ELSE Hole
<1>1. Len(d) \in Nat /\ Len(s) \in Nat /\ len \in Nat
  BY LenProperties
<1>2. Overwrite(d, off, s) = [k \in 1 .. len |-> e(k)]
  BY DEF Overwrite
<1>3. \A k \in 1 .. len : e(k) \in Unit
  <2>1. Hole \in Unit
    BY DEF Unit
  <2>2. \A k \in 1 .. Len(d) : d[k] \in Unit
    BY ElementOfSeq
  <2>3. \A k \in 1 .. Len(s) : s[k] \in Unit
    BY ElementOfSeq
  <2>4. ASSUME NEW k \in 1 .. len PROVE e(k) \in Unit
    <3>1. CASE k \in (off + 1) .. (off + Len(s))
      <4>1. k - off \in 1 .. Len(s)
        BY <1>1, <3>1
      <4> QED
        BY <2>3, <3>1, <4>1
    <3>2. CASE k \notin (off + 1) .. (off + Len(s))
      BY <1>1, <2>1, <2>2, <3>2
    <3> QED
      BY <3>1, <3>2
  <2> QED
    BY <2>4
<1>4. [k \in 1 .. len |-> e(k)] \in Seq(Unit)
  <2> HIDE DEF len, e
  <2> QED
    BY <1>1, <1>3, IsASeq
<1>5. Len([k \in 1 .. len |-> e(k)]) = len
  <2> HIDE DEF len, e
  <2> QED
    BY <1>1
<1> QED
  BY <1>2, <1>4, <1>5

LEMMA HeaderIs ==
  /\ Header \in Seq(Unit) /\ Len(Header) = 2 /\ Delimiter \in Seq(Unit) /\ Len(Delimiter) = 1
  /\ Header[1] = "header1" /\ Header[2] = "header2" /\ Delimiter[1] = "delimiter"
BY DEF Header, Delimiter, Unit

LEMMA PackedIs ==
  ASSUME NEW r \in Record
  PROVE  Packed(r) \in Seq(Unit) /\ Len(Packed(r)) = 2
BY DEF Packed, Unit

LEMMA RecordsAre ==
  ASSUME NEW rs \in Seq(Record)
  PROVE  /\ Records(rs) \in Seq(Unit) /\ Len(Records(rs)) = 2 * Len(rs)
         /\ \A k \in 1 .. (2 * Len(rs)) :
              Records(rs)[k] = Packed(rs[(k + 1) \div 2])[2 - (k % 2)]
<1>1. Len(rs) \in Nat /\ 2 * Len(rs) \in Nat
  BY LenProperties
<1> DEFINE n == 2 * Len(rs)
           e(k) == Packed(rs[(k + 1) \div 2])[2 - (k % 2)]
<1>2. ASSUME NEW k \in 1 .. n PROVE e(k) \in Unit
  <2>1. (k + 1) \div 2 \in 1 .. Len(rs) /\ 2 - (k % 2) \in 1 .. 2
    BY <1>1
  <2>2. rs[(k + 1) \div 2] \in Record
    BY <2>1, ElementOfSeq
  <2> QED
    BY <2>1, <2>2, PackedIs, ElementOfSeq
<1>3. Records(rs) = [k \in 1 .. n |-> e(k)]
  BY DEF Records
<1>4. [k \in 1 .. n |-> e(k)] \in Seq(Unit) /\ Len([k \in 1 .. n |-> e(k)]) = n
  <2> HIDE DEF n, e
  <2>1. n \in Nat
    BY <1>1 DEF n
  <2> QED
    BY <1>2, <2>1, IsASeq
<1> QED
  BY <1>3, <1>4

\* The intended log of records rs, and what one more record adds to it.
LogOf(rs) == Header \o Delimiter \o Records(rs)

LEMMA IntendedIs ==
  ASSUME NEW rs \in Seq(Record)
  PROVE  /\ LogOf(rs) \in Seq(Unit) /\ Len(LogOf(rs)) = 3 + 2 * Len(rs)
         /\ LogOf(rs)[1] = "header1" /\ LogOf(rs)[2] = "header2" /\ LogOf(rs)[3] = "delimiter"
         /\ \A k \in 1 .. (2 * Len(rs)) : LogOf(rs)[3 + k] = Records(rs)[k]
<1> DEFINE h == Header \o Delimiter
<1>1. /\ h \in Seq(Unit) /\ Len(h) = 3
      /\ h[1] = "header1" /\ h[2] = "header2" /\ h[3] = "delimiter"
  <2>1. /\ h \in Seq(Unit) /\ Len(h) = Len(Header) + Len(Delimiter)
        /\ \A k \in 1 .. (Len(Header) + Len(Delimiter)) :
             h[k] = IF k <= Len(Header) THEN Header[k] ELSE Delimiter[k - Len(Header)]
    BY HeaderIs, ConcatProperties
  <2> HIDE DEF h
  <2>2. Len(h) = 3 /\ h[1] = Header[1] /\ h[2] = Header[2] /\ h[3] = Delimiter[1]
    BY <2>1, HeaderIs
  <2> QED
    BY <2>1, <2>2, HeaderIs
<1>2. Records(rs) \in Seq(Unit) /\ Len(Records(rs)) = 2 * Len(rs) /\ Len(rs) \in Nat
  BY RecordsAre, LenProperties
<1> HIDE DEF h
<1>3. /\ h \o Records(rs) \in Seq(Unit) /\ Len(h \o Records(rs)) = 3 + 2 * Len(rs)
      /\ \A k \in 1 .. (3 + 2 * Len(rs)) :
           (h \o Records(rs))[k] = IF k <= 3 THEN h[k] ELSE Records(rs)[k - 3]
  <2> DEFINE t == Records(rs)
  <2>1. t \in Seq(Unit) /\ Len(t) = 2 * Len(rs)
    BY <1>2
  <2> HIDE DEF t
  <2>2. /\ h \o t \in Seq(Unit) /\ Len(h \o t) = Len(h) + Len(t)
        /\ \A k \in 1 .. (Len(h) + Len(t)) :
             (h \o t)[k] = IF k <= Len(h) THEN h[k] ELSE t[k - Len(h)]
    BY <1>1, <2>1, ConcatProperties
  <2> QED
    BY <1>1, <2>1, <2>2 DEF t
<1>4. \A k \in 1 .. (2 * Len(rs)) : (h \o Records(rs))[3 + k] = Records(rs)[k]
  BY <1>2, <1>3
<1>5. (h \o Records(rs))[1] = h[1] /\ (h \o Records(rs))[2] = h[2] /\ (h \o Records(rs))[3] = h[3]
  BY <1>2, <1>3
<1> QED
  BY <1>1, <1>3, <1>4, <1>5 DEF h, LogOf

LEMMA IntendedGrows ==
  ASSUME NEW rs \in Seq(Record), NEW r \in Record
  PROVE  /\ Append(rs, r) \in Seq(Record)
         /\ Len(LogOf(Append(rs, r))) = Len(LogOf(rs)) + 2
         /\ \A k \in 1 .. Len(LogOf(rs)) : LogOf(Append(rs, r))[k] = LogOf(rs)[k]
         /\ \A k \in 1 .. 2 : LogOf(Append(rs, r))[Len(LogOf(rs)) + k] = Packed(r)[k]
<1> DEFINE more == Append(rs, r)
<1>1. /\ more \in Seq(Record) /\ Len(more) = Len(rs) + 1 /\ Len(rs) \in Nat
      /\ \A k \in 1 .. Len(rs) : more[k] = rs[k]
      /\ more[Len(rs) + 1] = r
  BY AppendProperties, LenProperties
<1> HIDE DEF more
<1>2. /\ Len(LogOf(rs)) = 3 + 2 * Len(rs) /\ Len(LogOf(more)) = 5 + 2 * Len(rs)
  BY <1>1, IntendedIs
<1>3. ASSUME NEW k \in 1 .. (2 * Len(rs)) PROVE LogOf(more)[3 + k] = LogOf(rs)[3 + k]
  <2>1. (k + 1) \div 2 \in 1 .. Len(rs) /\ k \in 1 .. (2 * Len(more))
    BY <1>1
  <2>2. Records(more)[k] = Records(rs)[k]
    BY <1>1, <2>1, RecordsAre
  <2> QED
    BY <1>1, <2>1, <2>2, IntendedIs
<1>4. ASSUME NEW k \in 1 .. 2 PROVE LogOf(more)[3 + 2 * Len(rs) + k] = Packed(r)[k]
  <2> DEFINE m == 2 * Len(rs) + k
  <2>1. /\ m \in 1 .. (2 * Len(more)) /\ (m + 1) \div 2 = Len(rs) + 1 /\ 2 - (m % 2) = k
        /\ 3 + m = 3 + 2 * Len(rs) + k
    BY <1>1
  <2>2. Records(more)[m] = Packed(r)[k]
    BY <1>1, <2>1, RecordsAre
  <2> QED
    BY <1>1, <2>1, <2>2, IntendedIs
<1>5. LogOf(more)[1] = LogOf(rs)[1] /\ LogOf(more)[2] = LogOf(rs)[2] /\ LogOf(more)[3] = LogOf(rs)[3]
  BY <1>1, IntendedIs
<1>6. ASSUME NEW k \in 1 .. (3 + 2 * Len(rs)) PROVE LogOf(more)[k] = LogOf(rs)[k]
  <2>1. CASE k \in 1 .. 3
    BY <1>5, <2>1
  <2>2. CASE k > 3
    <3>1. k - 3 \in 1 .. (2 * Len(rs)) /\ 3 + (k - 3) = k
      BY <1>1, <2>2
    <3> QED
      BY <1>3, <3>1
  <2> QED
    BY <1>1, <2>1, <2>2
<1> QED
  BY <1>1, <1>2, <1>4, <1>6 DEF more

-----------------------------------------------------------------------------
(* Writing.                                                                *)

Stream == [state : {"free", "open", "freed"}, buf : Seq(Unit), off : Nat]

LEMMA ResultsAre ==
  ASSUME setting \in Setting, NEW s \in Seq(Unit), NEW n \in WriteResults(s)
  PROVE  n \in Int /\ n <= Len(s) /\ (Reported => n = Len(s) \/ n = -1)
<1>1. setting.write \in {"none", "whole", "short"} /\ Len(s) \in Nat
  BY LoggerAssumption, LenProperties DEF LoggerAssumption
<1> QED
  BY <1>1 DEF WriteResults, Reported

LEMMA TakenIs ==
  ASSUME NEW f \in Stream, NEW s \in Seq(Unit), NEW n \in Int, n <= Len(s)
  PROVE  /\ Taken(f, s, n) \in Stream
         /\ Taken(f, s, n).state = f.state /\ Taken(f, s, n).off = f.off
         /\ n < 0 => Taken(f, s, n).buf = f.buf
         /\ n = Len(s) => Taken(f, s, n).buf = f.buf \o s
<1>1. CASE n < 0
  <2>1. Len(s) \in Nat
    BY LenProperties
  <2> QED
    BY <1>1, <2>1 DEF Taken
<1>2. CASE ~(n < 0)
  <2>1. SubSeq(s, 1, n) \in Seq(Unit)
    BY <1>2, InitialPart
  <2>2. f.buf \o SubSeq(s, 1, n) \in Seq(Unit)
    BY <2>1, ConcatProperties DEF Stream
  <2>3. n = Len(s) => SubSeq(s, 1, n) = s
    BY SubSeqFull
  <2> QED
    BY <1>2, <2>2, <2>3 DEF Taken, Stream
<1> QED
  BY <1>1, <1>2

\* SsWriteLogHeader on a fresh stream.
LEMMA HeaderWriteIs ==
  ASSUME setting \in Setting, NEW y \in WriteResults(Header), NEW d \in WriteResults(Delimiter)
  PROVE  LET w == HeaderWrite(y, d)
         IN  /\ w.file \in Stream /\ w.file.state = "open" /\ w.file.off = 0
             /\ w.ret = 3 => w.file.buf = Header \o Delimiter
             /\ Reported => w.ret = 3 \/ (w.ret = -1 /\ w.file.buf \in {<<>>, Header})
<1>0. /\ y \in Int /\ y <= Len(Header) /\ d \in Int /\ d <= Len(Delimiter)
      /\ Reported => (y = Len(Header) \/ y = -1) /\ (d = Len(Delimiter) \/ d = -1)
  BY HeaderIs, ResultsAre
<1>1. /\ y \in Int /\ y <= 2 /\ (Reported => y = 2 \/ y = -1)
      /\ d \in Int /\ d <= 1 /\ (Reported => d = 1 \/ d = -1)
  BY <1>0, HeaderIs
<1>2. /\ Opened \in Stream /\ Opened.state = "open" /\ Opened.off = 0 /\ Opened.buf = <<>>
      /\ <<>> \o Header = Header
  BY HeaderIs, EmptySeq, ConcatEmptySeq DEF Opened, Stream
<1> DEFINE f == Taken(Opened, Header, y)
           g == Taken(f, Delimiter, d)
<1>3. /\ f \in Stream /\ f.state = "open" /\ f.off = 0
      /\ y < 0 => f.buf = <<>>
      /\ y = 2 => f.buf = Header
  <2>1. /\ f \in Stream /\ f.state = Opened.state /\ f.off = Opened.off
        /\ y < 0 => f.buf = Opened.buf
        /\ y = Len(Header) => f.buf = Opened.buf \o Header
    BY <1>0, <1>2, HeaderIs, TakenIs
  <2> HIDE DEF f
  <2> QED
    BY <1>2, <2>1, HeaderIs
<1>4. /\ g \in Stream /\ g.state = "open" /\ g.off = 0
      /\ d = 1 => g.buf = f.buf \o Delimiter
  <2> HIDE DEF f
  <2>1. /\ g \in Stream /\ g.state = f.state /\ g.off = f.off
        /\ d = Len(Delimiter) => g.buf = f.buf \o Delimiter
    BY <1>0, <1>3, HeaderIs, TakenIs
  <2> HIDE DEF g
  <2> QED
    BY <1>3, <2>1, HeaderIs
<1>5. HeaderWrite(y, d) = IF y < 0 \/ d < 0 THEN [file |-> f, ret |-> -1]
                          ELSE [file |-> g, ret |-> y + d]
  BY DEF HeaderWrite
<1> HIDE DEF f, g
<1>6. CASE y < 0 \/ d < 0
  BY <1>1, <1>3, <1>5, <1>6
<1>7. CASE ~(y < 0 \/ d < 0)
  <2>1. HeaderWrite(y, d).file = g /\ HeaderWrite(y, d).ret = y + d
    BY <1>5, <1>7
  <2>2. y + d = 3 => y = 2 /\ d = 1
    BY <1>1
  <2>3. Reported => y + d = 3
    BY <1>1, <1>7
  <2> QED
    BY <1>3, <1>4, <2>1, <2>2, <2>3
<1> QED
  BY <1>6, <1>7

\* What stdio writes out of a stream, and what it keeps.
LEMMA FlushedIs ==
  ASSUME NEW f \in Stream, NEW n \in 0 .. Len(f.buf)
  PROVE  /\ Len(f.buf) \in Nat
         /\ SubSeq(f.buf, 1, n) \in Seq(Unit) /\ Len(SubSeq(f.buf, 1, n)) = n
         /\ \A x \in 1 .. n : SubSeq(f.buf, 1, n)[x] = f.buf[x]
         /\ Flushed(f, n) \in Stream /\ Flushed(f, n).state = f.state
         /\ Flushed(f, n).off = f.off + n /\ Len(Flushed(f, n).buf) = Len(f.buf) - n
         /\ \A x \in 1 .. (Len(f.buf) - n) : Flushed(f, n).buf[x] = f.buf[n + x]
         /\ ClosedStream(f, n) \in Stream /\ ClosedStream(f, n).state = "freed"
<1>1. f.buf \in Seq(Unit) /\ Len(f.buf) \in Nat /\ f.off \in Nat /\ n \in Nat /\ n <= Len(f.buf)
  BY LenProperties DEF Stream
<1>2. /\ SubSeq(f.buf, 1, n) \in Seq(Unit) /\ Len(SubSeq(f.buf, 1, n)) = n
      /\ \A x \in 1 .. n : SubSeq(f.buf, 1, n)[x] = f.buf[x]
  BY <1>1, InitialPart
<1>3. /\ SubSeq(f.buf, n + 1, Len(f.buf)) \in Seq(Unit)
      /\ Len(SubSeq(f.buf, n + 1, Len(f.buf))) = Len(f.buf) - n
      /\ \A x \in 1 .. (Len(f.buf) - n) : SubSeq(f.buf, n + 1, Len(f.buf))[x] = f.buf[n + x]
  BY <1>1, FinalPart
<1>4. /\ Flushed(f, n) \in Stream /\ Flushed(f, n).state = f.state
      /\ Flushed(f, n).off = f.off + n /\ Flushed(f, n).buf = SubSeq(f.buf, n + 1, Len(f.buf))
  <2>1. f.off + n \in Nat
    BY <1>1
  <2> QED
    BY <1>3, <2>1 DEF Flushed, Stream
<1>5. ClosedStream(f, n) \in Stream /\ ClosedStream(f, n).state = "freed"
  BY <1>4 DEF ClosedStream, Stream
<1> QED
  BY <1>1, <1>2, <1>3, <1>4, <1>5

-----------------------------------------------------------------------------
(* Types and handles.                                                      *)

TypeInv ==
  /\ setting \in Setting
  /\ file_p \in Handle \cup {None}
  /\ stream \in [Handle -> Stream]
  /\ file_p # None => stream[file_p].state # "free"
  /\ disk \in Seq(Unit)
  /\ proc \in {"running", "exited", "undefined"}
  /\ within \in BOOLEAN /\ closed \in BOOLEAN
  /\ logged \in Seq(Record)
  /\ faults \subseteq FaultKind

\* The Logger owns an open stream except after a close that failed; in a "with" block
\* it always does.
HandleInv ==
  /\ file_p # None /\ ~IsOpen(stream[file_p]) => "close" \in faults
  /\ proc = "undefined" => setting.client = "free" /\ "close" \in faults
  /\ within /\ setting.client = "with" => file_p # None /\ IsOpen(stream[file_p])
  /\ closed => file_p = None
  /\ proc = "undefined" => ~within \/ setting.client = "free"

\* A stream that fopen returns.
LEMMA FreshHandle ==
  ASSUME Unused # {}
  PROVE  (CHOOSE h \in Unused : TRUE) \in Unused /\ Unused \subseteq Handle
BY DEF Unused

\* What an open does, in terms of the result of writing the header.
LEMMA OpenIs ==
  ASSUME TypeInv, Open
  PROVE  \E h \in Handle, y \in WriteResults(Header), d \in WriteResults(Delimiter) :
           LET w == HeaderWrite(y, d)
           IN  /\ stream[h].state = "free"
               /\ stream' = [stream EXCEPT ![h] = w.file] /\ within' = (w.ret > 0)
               /\ faults' = {k \in FaultKind : \/ k = "header" /\ w.ret # 3
                                               \/ k = "reopen" /\ \E g \in Handle : IsOpen(stream[g])}
               /\ file_p' = h /\ disk' = <<>> /\ logged' = <<>> /\ closed' = FALSE
               /\ UNCHANGED <<setting, proc>>
               /\ proc = "running" /\ (setting.client = "with" => ~within)
<1> DEFINE h == CHOOSE g \in Unused : TRUE
<1>1. h \in Handle /\ stream[h] = Free /\ OpenOn(h)
  BY FreshHandle DEF Open, Unused
<1>2. stream[h].state = "free"
  BY <1>1 DEF Free
<1>3. Len(Header) + Len(Delimiter) = 3
  BY HeaderIs
<1> HIDE DEF h
<1>4. PICK y \in WriteResults(Header), d \in WriteResults(Delimiter) :
        /\ stream' = [stream EXCEPT ![h] = HeaderWrite(y, d).file]
        /\ within' = (HeaderWrite(y, d).ret > 0)
        /\ faults' = {k \in FaultKind :
                        \/ k = "header" /\ HeaderWrite(y, d).ret # Len(Header) + Len(Delimiter)
                        \/ k = "reopen" /\ \E g \in Handle : IsOpen(stream[g])}
  BY <1>1 DEF OpenOn
<1>5. /\ file_p' = h /\ disk' = <<>> /\ logged' = <<>> /\ closed' = FALSE
      /\ UNCHANGED <<setting, proc>>
      /\ proc = "running" /\ (setting.client = "with" => ~within)
  BY <1>1 DEF OpenOn, Open
<1> QED
  BY <1>1, <1>2, <1>3, <1>4, <1>5

LEMMA TypeInvInit == Init => TypeInv /\ HandleInv
<1> SUFFICES ASSUME Init PROVE TypeInv /\ HandleInv
  OBVIOUS
<1>1. Free \in Stream
  BY EmptySeq DEF Free, Stream
<1>2. stream \in [Handle -> Stream]
  BY <1>1 DEF Init
<1>3. disk \in Seq(Unit) /\ logged \in Seq(Record)
  BY EmptySeq DEF Init
<1> QED
  BY <1>2, <1>3 DEF Init, TypeInv, HandleInv

LEMMA TypeInvNext == TypeInv /\ HandleInv /\ [Next]_vars => TypeInv' /\ HandleInv'
<1> SUFFICES ASSUME TypeInv, HandleInv, [Next]_vars PROVE TypeInv' /\ HandleInv'
  OBVIOUS
<1>0. 0 \notin Handle
  BY LoggerAssumption DEF Handle, LoggerAssumption
<1>1. ASSUME Open PROVE TypeInv' /\ HandleInv'
  <2> DEFINE w(y, d) == HeaderWrite(y, d)
  <2>1. PICK h \in Handle, y \in WriteResults(Header), d \in WriteResults(Delimiter) :
          /\ stream[h].state = "free"
          /\ stream' = [stream EXCEPT ![h] = w(y, d).file] /\ within' = (w(y, d).ret > 0)
          /\ faults' = {k \in FaultKind : \/ k = "header" /\ w(y, d).ret # 3
                                          \/ k = "reopen" /\ \E g \in Handle : IsOpen(stream[g])}
          /\ file_p' = h /\ disk' = <<>> /\ logged' = <<>> /\ closed' = FALSE
          /\ UNCHANGED <<setting, proc>>
          /\ proc = "running" /\ (setting.client = "with" => ~within)
    BY <1>1, OpenIs
  <2>2. w(y, d).file \in Stream /\ w(y, d).file.state = "open"
    BY HeaderWriteIs DEF TypeInv
  <2> HIDE DEF w
  <2>3. stream' \in [Handle -> Stream] /\ stream'[h] = w(y, d).file
    BY <2>1, <2>2 DEF TypeInv
  <2>4. disk' \in Seq(Unit) /\ logged' \in Seq(Record)
    BY <2>1, EmptySeq
  <2>5. within' \in BOOLEAN /\ closed' \in BOOLEAN /\ faults' \subseteq FaultKind
    <3>1. (w(y, d).ret > 0) \in BOOLEAN
      OBVIOUS
    <3>2. faults' \subseteq FaultKind
      BY <2>1
    <3> QED
      BY <2>1, <3>1, <3>2, Zenon
  <2>6. TypeInv'
    BY <2>1, <2>2, <2>3, <2>4, <2>5 DEF TypeInv
  <2>7. file_p' # None /\ IsOpen(stream'[file_p'])
    BY <1>0, <2>1, <2>2, <2>3 DEF None, IsOpen
  <2>8. HandleInv'
    BY <2>1, <2>7 DEF HandleInv, IsOpen
  <2> QED
    BY <2>6, <2>8
<1>2. ASSUME Log PROVE TypeInv' /\ HandleInv'
  <2>1. /\ file_p \in Handle /\ file_p # None /\ proc = "running"
        /\ UNCHANGED <<setting, file_p, disk, within, closed>>
        /\ setting.client = "with" => within
    BY <1>2 DEF Log, TypeInv
  <2>2. CASE IsOpen(stream[file_p]) /\ proc' = proc
    <3>0. PICK r \in Record : \E n \in WriteResults(Packed(r)) :
            /\ stream' = [stream EXCEPT ![file_p] = Taken(stream[file_p], Packed(r), n)]
            /\ logged' = IF n > 0 THEN Append(logged, r) ELSE logged
            /\ faults' = IF n = Len(Packed(r)) THEN faults ELSE faults \cup {"write"}
      BY <1>2, <2>2 DEF Log
    <3>1. PICK n \in WriteResults(Packed(r)) :
            /\ stream' = [stream EXCEPT ![file_p] = Taken(stream[file_p], Packed(r), n)]
            /\ logged' = IF n > 0 THEN Append(logged, r) ELSE logged
            /\ faults' = IF n = Len(Packed(r)) THEN faults ELSE faults \cup {"write"}
      BY <3>0
    <3>2. n \in Int /\ n <= Len(Packed(r)) /\ Packed(r) \in Seq(Unit)
      BY PackedIs, ResultsAre DEF TypeInv
    <3>3. /\ Taken(stream[file_p], Packed(r), n) \in Stream
          /\ Taken(stream[file_p], Packed(r), n).state = stream[file_p].state
      BY <2>1, <3>2, TakenIs DEF TypeInv
    <3>4. /\ stream' \in [Handle -> Stream] /\ stream'[file_p].state = stream[file_p].state
      BY <2>1, <3>1, <3>3 DEF TypeInv
    <3>5. logged' \in Seq(Record) /\ faults' \subseteq FaultKind /\ faults \subseteq faults'
      BY <3>1, AppendProperties DEF TypeInv, FaultKind
    <3>6. TypeInv'
      BY <2>1, <2>2, <3>4, <3>5 DEF TypeInv
    <3>7. HandleInv'
      BY <2>1, <2>2, <3>4, <3>5 DEF HandleInv, IsOpen
    <3> QED
      BY <3>6, <3>7
  <2>3. CASE ~IsOpen(stream[file_p]) /\ proc' = "undefined" /\ UNCHANGED <<stream, logged, faults>>
    <3>1. TypeInv'
      BY <2>1, <2>3 DEF TypeInv
    <3>2. setting.client = "free"
      <4>1. setting.client \in {"with", "free"}
        BY LoggerAssumption DEF TypeInv, LoggerAssumption
      <4> QED
        BY <2>1, <2>3, <4>1 DEF HandleInv
    <3>3. HandleInv'
      BY <2>1, <2>3, <3>2 DEF HandleInv, IsOpen
    <3> QED
      BY <3>1, <3>3
  <2> QED
    BY <1>2, <2>2, <2>3 DEF Log
<1>3. ASSUME Close PROVE TypeInv' /\ HandleInv'
  <2>1. /\ proc = "running" /\ within' = FALSE /\ UNCHANGED <<setting, logged>>
        /\ setting.client = "with" => within
    BY <1>3 DEF Close
  <2>2. CASE file_p = None /\ UNCHANGED <<file_p, stream, disk, proc, faults, closed>>
    <3>1. TypeInv'
      BY <2>1, <2>2 DEF TypeInv
    <3>2. HandleInv'
      BY <2>1, <2>2 DEF HandleInv, IsOpen
    <3> QED
      BY <3>1, <3>2
  <2>3. CASE /\ file_p # None /\ ~IsOpen(stream[file_p]) /\ proc' = "undefined"
             /\ UNCHANGED <<file_p, stream, disk, faults, closed>>
    <3>1. TypeInv'
      BY <2>1, <2>3 DEF TypeInv
    <3>2. setting.client = "free"
      <4>1. setting.client \in {"with", "free"}
        BY LoggerAssumption DEF TypeInv, LoggerAssumption
      <4> QED
        BY <2>1, <2>3, <4>1 DEF HandleInv
    <3>3. HandleInv'
      BY <2>1, <2>3, <3>2 DEF HandleInv, IsOpen
    <3> QED
      BY <3>1, <3>3
  <2>4. ASSUME file_p # None, IsOpen(stream[file_p]), proc' = proc,
               NEW n \in 0 .. Len(stream[file_p].buf), Fclose(n)
        PROVE  TypeInv' /\ HandleInv'
    <3> DEFINE f == stream[file_p]
    <3>1. file_p \in Handle /\ f \in Stream
      BY <2>4 DEF TypeInv
    <3>2. /\ disk' = Overwrite(disk, f.off, SubSeq(f.buf, 1, n))
          /\ stream' = [stream EXCEPT ![file_p] = ClosedStream(f, n)]
          /\ \/ file_p' = None /\ closed' = TRUE /\ faults' = faults
             \/ faults' = faults \cup {"close"} /\ UNCHANGED <<file_p, closed>>
      BY <2>4 DEF Fclose
    <3>3. disk' \in Seq(Unit)
      BY <3>1, <3>2, FlushedIs, OverwriteIs DEF TypeInv, Stream
    <3>4. stream' \in [Handle -> Stream] /\ stream'[file_p].state = "freed"
      BY <3>1, <3>2, FlushedIs DEF TypeInv
    <3> HIDE DEF f
    <3>5. faults' \subseteq FaultKind /\ faults \subseteq faults'
      BY <3>2 DEF TypeInv, FaultKind
    <3>6. TypeInv'
      BY <2>1, <2>4, <3>2, <3>3, <3>4, <3>5 DEF TypeInv
    <3>7. HandleInv'
      BY <2>1, <2>4, <3>2, <3>4, <3>5 DEF HandleInv, IsOpen
    <3> QED
      BY <3>6, <3>7
  <2> QED
    BY <1>3, <2>2, <2>3, <2>4 DEF Close
<1>4. ASSUME Flush PROVE TypeInv' /\ HandleInv'
  <2>0. PICK h \in Handle :
          /\ IsOpen(stream[h])
          /\ \E n \in 1 .. Len(stream[h].buf) :
               /\ disk' = Overwrite(disk, stream[h].off, SubSeq(stream[h].buf, 1, n))
               /\ stream' = [stream EXCEPT ![h] = Flushed(stream[h], n)]
    BY <1>4 DEF Flush
  <2>1. PICK n \in 1 .. Len(stream[h].buf) :
          /\ IsOpen(stream[h])
          /\ disk' = Overwrite(disk, stream[h].off, SubSeq(stream[h].buf, 1, n))
          /\ stream' = [stream EXCEPT ![h] = Flushed(stream[h], n)]
    BY <2>0
  <2>2. UNCHANGED <<setting, file_p, proc, within, logged, faults, closed>>
    BY <1>4 DEF Flush
  <2>3. stream[h] \in Stream /\ stream[h].off \in Nat /\ n \in 0 .. Len(stream[h].buf)
    BY DEF TypeInv, Stream
  <2>4. disk' \in Seq(Unit)
    BY <2>1, <2>3, FlushedIs, OverwriteIs DEF TypeInv
  <2>5. /\ stream' \in [Handle -> Stream]
        /\ \A g \in Handle : stream'[g].state = stream[g].state
    BY <2>1, <2>3, FlushedIs DEF TypeInv
  <2>6. TypeInv'
    BY <2>2, <2>4, <2>5 DEF TypeInv
  <2>7. HandleInv'
    BY <2>2, <2>5 DEF HandleInv, IsOpen, TypeInv
  <2> QED
    BY <2>6, <2>7
<1>5. ASSUME Exit PROVE TypeInv' /\ HandleInv'
  <2>1. TypeInv'
    BY <1>5 DEF Exit, TypeInv
  <2>2. HandleInv'
    BY <1>5 DEF Exit, HandleInv, IsOpen
  <2> QED
    BY <2>1, <2>2
<1>6. CASE UNCHANGED vars
  <2>1. TypeInv'
    BY <1>6 DEF vars, TypeInv
  <2>2. HandleInv'
    BY <1>6 DEF vars, HandleInv, IsOpen
  <2> QED
    BY <2>1, <2>2
<1> QED
  BY <1>1, <1>2, <1>3, <1>4, <1>5, <1>6 DEF Next

LEMMA TypeInvariant == Spec => [](TypeInv /\ HandleInv)
BY TypeInvInit, TypeInvNext, PTL DEF Spec

-----------------------------------------------------------------------------
(* What a stream will write is what the log has at that place.             *)

Carries(f, t) ==
  /\ f.off + Len(f.buf) <= Len(t)
  /\ \A x \in 1 .. Len(f.buf) : f.buf[x] = t[f.off + x]
Agrees(d, n, t) == n <= Len(d) /\ \A x \in 1 .. n : d[x] = t[x]

LEMMA FlushedCarries ==
  ASSUME NEW f \in Stream, NEW t \in Seq(Unit), Carries(f, t), NEW n \in 0 .. Len(f.buf)
  PROVE  /\ Carries(Flushed(f, n), t)
         /\ Flushed(f, n).off + Len(Flushed(f, n).buf) = f.off + Len(f.buf)
<1>1. Len(f.buf) \in Nat /\ f.off \in Nat /\ Len(t) \in Nat
  BY LenProperties DEF Stream
<1>2. /\ Flushed(f, n).off = f.off + n /\ Len(Flushed(f, n).buf) = Len(f.buf) - n
      /\ \A x \in 1 .. (Len(f.buf) - n) : Flushed(f, n).buf[x] = f.buf[n + x]
  BY FlushedIs
<1>3. ASSUME NEW x \in 1 .. (Len(f.buf) - n)
      PROVE  Flushed(f, n).buf[x] = t[(f.off + n) + x]
  <2>1. n + x \in 1 .. Len(f.buf) /\ f.off + (n + x) = (f.off + n) + x
    BY <1>1
  <2> QED
    BY <1>2, <2>1 DEF Carries
<1> DEFINE g == Flushed(f, n)
<1>4. /\ g.off = f.off + n /\ Len(g.buf) = Len(f.buf) - n
      /\ \A x \in 1 .. (Len(f.buf) - n) : g.buf[x] = t[(f.off + n) + x]
  BY <1>2, <1>3
<1> HIDE DEF g
<1>5. f.off + Len(f.buf) <= Len(t)
  BY DEF Carries
<1>6. g.off + Len(g.buf) = f.off + Len(f.buf)
  BY <1>1, <1>4
<1>7. \A x \in 1 .. Len(g.buf) : g.buf[x] = t[g.off + x]
  BY <1>4
<1> QED
  BY <1>5, <1>6, <1>7 DEF Carries, g

\* The file after a stream that carries t was flushed over it.
LEMMA FlushAgrees ==
  ASSUME NEW d \in Seq(Unit), NEW f \in Stream, NEW t \in Seq(Unit), Carries(f, t),
         NEW n \in 0 .. Len(f.buf), NEW m \in Nat, Agrees(d, m, t),
         NEW e, e = Overwrite(d, f.off, SubSeq(f.buf, 1, n))
  PROVE  /\ e \in Seq(Unit) /\ Len(e) = IF Len(d) > f.off + n THEN Len(d) ELSE f.off + n
         /\ Agrees(e, m, t)
         /\ f.off <= m => Agrees(e, f.off + n, t)
<1> DEFINE s == SubSeq(f.buf, 1, n)
<1>1. /\ Len(f.buf) \in Nat /\ f.off \in Nat /\ Len(t) \in Nat /\ Len(d) \in Nat
      /\ s \in Seq(Unit) /\ Len(s) = n
      /\ \A x \in 1 .. n : s[x] = f.buf[x]
  BY LenProperties, FlushedIs DEF Stream
<1> HIDE DEF s
<1>2. /\ e \in Seq(Unit) /\ Len(e) = IF Len(d) > f.off + n THEN Len(d) ELSE f.off + n
      /\ \A k \in 1 .. Len(e) : e[k] = IF k \in (f.off + 1) .. (f.off + n) THEN s[k - f.off]
                                       ELSE IF k <= Len(d) THEN d[k] ELSE Hole
  <2> DEFINE o == f.off
  <2>1. e = Overwrite(d, o, s) /\ o \in Nat
    BY <1>1 DEF s
  <2> HIDE DEF o
  <2>2. /\ e \in Seq(Unit) /\ Len(e) = IF Len(d) > o + Len(s) THEN Len(d) ELSE o + Len(s)
        /\ \A k \in 1 .. (IF Len(d) > o + Len(s) THEN Len(d) ELSE o + Len(s)) :
             e[k] = IF k \in (o + 1) .. (o + Len(s)) THEN s[k - o]
                    ELSE IF k <= Len(d) THEN d[k] ELSE Hole
    BY <1>1, <2>1, OverwriteIs
  <2>3. /\ Len(e) = IF Len(d) > o + n THEN Len(d) ELSE o + n
        /\ \A k \in 1 .. Len(e) :
             e[k] = IF k \in (o + 1) .. (o + n) THEN s[k - o]
                    ELSE IF k <= Len(d) THEN d[k] ELSE Hole
    BY <1>1, <2>2
  <2> QED
    BY <2>2, <2>3 DEF o
<1>3. ASSUME NEW k \in (f.off + 1) .. (f.off + n) PROVE e[k] = t[k] /\ k \in 1 .. Len(e)
  <2>1. /\ k \in 1 .. Len(e) /\ k - f.off \in 1 .. n /\ k - f.off \in 1 .. Len(f.buf)
        /\ f.off + (k - f.off) = k
    BY <1>1, <1>2
  <2> QED
    BY <1>1, <1>2, <2>1 DEF Carries
<1>4. ASSUME NEW k \in 1 .. m PROVE e[k] = t[k] /\ k \in 1 .. Len(e)
  <2>1. k \in 1 .. Len(e) /\ k <= Len(d)
    BY <1>1, <1>2 DEF Agrees
  <2>2. CASE k \in (f.off + 1) .. (f.off + n)
    BY <1>3, <2>2
  <2>3. CASE k \notin (f.off + 1) .. (f.off + n)
    BY <1>2, <2>1, <2>3 DEF Agrees
  <2> QED
    BY <2>2, <2>3
<1>5. m <= Len(e) /\ f.off + n <= Len(e)
  BY <1>1, <1>2 DEF Agrees
<1>6. ASSUME f.off <= m, NEW k \in 1 .. (f.off + n) PROVE e[k] = t[k]
  <2>1. k \in 1 .. m \/ k \in (f.off + 1) .. (f.off + n)
    BY <1>1, <1>6
  <2> QED
    BY <1>3, <1>4, <2>1
<1> QED
  BY <1>2, <1>4, <1>5, <1>6 DEF Agrees

\* What carries the header carries every log.
LEMMA HeaderOfLog ==
  ASSUME NEW rs \in Seq(Record)
  PROVE  /\ LogOf(rs) \in Seq(Unit) /\ Len(LogOf(rs)) \in Nat /\ Len(LogOf(rs)) >= 3
         /\ \A x \in 1 .. 2 : Header[x] = LogOf(rs)[x]
         /\ \A f \in Stream : Carries(f, Header) => Carries(f, LogOf(rs)) /\ f.off + Len(f.buf) <= 2
<1>1. /\ LogOf(rs) \in Seq(Unit) /\ Len(LogOf(rs)) \in Nat /\ Len(LogOf(rs)) >= 3
      /\ LogOf(rs)[1] = Header[1] /\ LogOf(rs)[2] = Header[2]
  BY IntendedIs, HeaderIs, LenProperties
<1>2. \A x \in 1 .. 2 : Header[x] = LogOf(rs)[x]
  BY <1>1
<1>3. ASSUME NEW f \in Stream, Carries(f, Header)
      PROVE  Carries(f, LogOf(rs)) /\ f.off + Len(f.buf) <= 2
  <2>1. Len(f.buf) \in Nat /\ f.off \in Nat /\ f.off + Len(f.buf) <= 2
    BY <1>3, HeaderIs, LenProperties DEF Carries, Stream
  <2>2. \A x \in 1 .. Len(f.buf) : f.off + x \in 1 .. 2
    BY <2>1
  <2>3. \A x \in 1 .. Len(f.buf) : f.buf[x] = LogOf(rs)[f.off + x]
    BY <1>2, <1>3, <2>2 DEF Carries
  <2> QED
    BY <1>1, <2>1, <2>3 DEF Carries
<1> QED
  BY <1>1, <1>2, <1>3

\* The stream of a new log, with its header written or not.
LEMMA NewCarries ==
  ASSUME setting \in Setting, NEW y \in WriteResults(Header), NEW d \in WriteResults(Delimiter)
  PROVE  LET w == HeaderWrite(y, d)
         IN  /\ w.ret = 3 => /\ Carries(w.file, LogOf(<<>>)) /\ w.file.off = 0
                             /\ w.file.off + Len(w.file.buf) = Len(LogOf(<<>>))
             /\ Reported /\ w.ret # 3 => w.ret = -1 /\ Carries(w.file, Header) /\ w.file.off = 0
<1> DEFINE w == HeaderWrite(y, d)
           t == LogOf(<<>>)
<1>1. /\ w.file.off = 0
      /\ w.ret = 3 => w.file.buf = Header \o Delimiter
      /\ Reported => w.ret = 3 \/ (w.ret = -1 /\ w.file.buf \in {<<>>, Header})
  BY HeaderWriteIs
<1>2. Len(t) = 3 /\ t[1] = "header1" /\ t[2] = "header2" /\ t[3] = "delimiter"
  <2> DEFINE rs == <<>>
  <2>1. rs \in Seq(Record) /\ Len(rs) = 0
    BY EmptySeq
  <2> HIDE DEF rs
  <2>2. /\ Len(LogOf(rs)) = 3 + 2 * Len(rs) /\ LogOf(rs)[1] = "header1"
        /\ LogOf(rs)[2] = "header2" /\ LogOf(rs)[3] = "delimiter"
    BY <2>1, IntendedIs
  <2>3. 3 + 2 * Len(rs) = 3
    BY <2>1
  <2> QED
    BY <2>2, <2>3 DEF rs
<1> DEFINE b == Header \o Delimiter
<1>3. /\ Len(b) = Len(Header) + Len(Delimiter)
      /\ \A k \in 1 .. (Len(Header) + Len(Delimiter)) :
           b[k] = IF k <= Len(Header) THEN Header[k] ELSE Delimiter[k - Len(Header)]
  BY HeaderIs, ConcatProperties
<1> HIDE DEF w, t, b
<1>4. Len(b) = 3 /\ b[1] = "header1" /\ b[2] = "header2" /\ b[3] = "delimiter"
  BY <1>3, HeaderIs
<1>5. \A k \in 1 .. 3 : b[k] = t[0 + k]
  <2>1. \A k \in 1 .. 3 : (k = 1 \/ k = 2 \/ k = 3) /\ 0 + k = k
    OBVIOUS
  <2> QED
    BY <1>2, <1>4, <2>1
<1>6. ASSUME w.ret = 3 PROVE Carries(w.file, t) /\ w.file.off + Len(w.file.buf) = Len(t)
  <2>1. w.file.off = 0 /\ w.file.buf = b
    BY <1>1, <1>6 DEF b
  <2>2. Len(w.file.buf) = 3 /\ w.file.off + Len(w.file.buf) = 3
    BY <1>4, <2>1
  <2>3. \A k \in 1 .. 3 : w.file.buf[k] = t[w.file.off + k]
    BY <1>5, <2>1
  <2>4. 3 <= Len(t)
    BY <1>2
  <2> QED
    BY <1>2, <2>2, <2>3, <2>4 DEF Carries
<1>7. ASSUME Reported, w.ret # 3 PROVE w.ret = -1 /\ Carries(w.file, Header)
  <2>1. CASE w.file.buf = <<>>
    <3>1. Len(w.file.buf) = 0
      BY <2>1
    <3> QED
      BY <1>1, <1>7, <3>1, HeaderIs DEF Carries
  <2>2. CASE w.file.buf = Header
    BY <1>1, <1>7, <2>2, HeaderIs DEF Carries
  <2> QED
    BY <1>1, <1>7, <2>1, <2>2
<1> QED
  BY <1>1, <1>6, <1>7 DEF w, t

\* A record taken whole by a stream that carries the log to its end.
LEMMA RecordCarries ==
  ASSUME NEW f \in Stream, NEW rs \in Seq(Record), NEW r \in Record,
         Carries(f, LogOf(rs)), f.off + Len(f.buf) = Len(LogOf(rs)),
         NEW g \in Stream, g.off = f.off, g.buf = f.buf \o Packed(r)
  PROVE  Carries(g, LogOf(Append(rs, r))) /\ g.off + Len(g.buf) = Len(LogOf(Append(rs, r)))
<1> DEFINE t == LogOf(rs)
           u == LogOf(Append(rs, r))
           p == Packed(r)
<1>1. /\ Len(t) \in Nat /\ Len(u) = Len(t) + 2
      /\ \A k \in 1 .. Len(t) : u[k] = t[k]
      /\ \A k \in 1 .. 2 : u[Len(t) + k] = p[k]
  BY HeaderOfLog, IntendedGrows
<1>2. f.off \in Nat /\ f.buf \in Seq(Unit) /\ Len(f.buf) \in Nat /\ p \in Seq(Unit) /\ Len(p) = 2
  BY PackedIs, LenProperties DEF Stream
<1>3. /\ f.off + Len(f.buf) = Len(t)
      /\ \A x \in 1 .. Len(f.buf) : f.buf[x] = t[f.off + x]
  BY DEF Carries
<1>4. g.off = f.off /\ g.buf = f.buf \o p
  OBVIOUS
<1> HIDE DEF t, u, p
<1>5. /\ Len(g.buf) = Len(f.buf) + 2
      /\ \A x \in 1 .. (Len(f.buf) + 2) :
           g.buf[x] = IF x <= Len(f.buf) THEN f.buf[x] ELSE p[x - Len(f.buf)]
  <2> DEFINE b == f.buf
             c == g.buf
  <2>1. b \in Seq(Unit) /\ c = b \o p
    BY <1>2, <1>4
  <2> HIDE DEF b, c
  <2>2. /\ Len(c) = Len(b) + Len(p)
        /\ \A x \in 1 .. (Len(b) + Len(p)) : c[x] = IF x <= Len(b) THEN b[x] ELSE p[x - Len(b)]
    BY <1>2, <2>1, ConcatProperties
  <2>3. /\ Len(c) = Len(b) + 2
        /\ \A x \in 1 .. (Len(b) + 2) : c[x] = IF x <= Len(b) THEN b[x] ELSE p[x - Len(b)]
    BY <1>2, <2>2
  <2> QED
    BY <2>3 DEF b, c
<1>6. ASSUME NEW x \in 1 .. (Len(f.buf) + 2) PROVE g.buf[x] = u[f.off + x]
  <2>1. CASE x <= Len(f.buf)
    <3>1. x \in 1 .. Len(f.buf) /\ f.off + x \in 1 .. Len(t)
      BY <1>2, <1>3, <2>1
    <3> QED
      BY <1>1, <1>3, <1>5, <2>1, <3>1
  <2>2. CASE ~(x <= Len(f.buf))
    <3> DEFINE n == Len(f.buf)
    <3>1. n \in Nat /\ x \in 1 .. (n + 2) /\ ~(x <= n) /\ f.off + n = Len(t) /\ f.off \in Nat
      BY <1>2, <1>3, <2>2
    <3>2. g.buf[x] = p[x - n]
      BY <1>5, <2>2
    <3> DEFINE o == f.off
               m == Len(t)
    <3>3. n \in Nat /\ o \in Nat /\ m = o + n /\ x \in 1 .. (n + 2) /\ ~(x <= n)
      BY <3>1
    <3> HIDE DEF n, o, m
    <3>4. x - n \in 1 .. 2 /\ o + x = m + (x - n)
      BY <3>3
    <3>5. f.off + x = Len(t) + (x - n)
      BY <3>4 DEF o, m
    <3> QED
      BY <1>1, <3>2, <3>4, <3>5
  <2> QED
    BY <2>1, <2>2
<1>7. g.off + Len(g.buf) = Len(u)
  <2>1. g.off = f.off /\ Len(g.buf) = Len(f.buf) + 2 /\ Len(u) = Len(t) + 2
    BY <1>1, <1>4, <1>5
  <2>2. f.off \in Nat /\ Len(f.buf) \in Nat /\ f.off + Len(f.buf) = Len(t)
    BY <1>2, <1>3
  <2> HIDE DEF Carries
  <2>3. f.off + (Len(f.buf) + 2) = Len(t) + 2
    BY <2>2
  <2> QED
    BY <2>1, <2>3
<1>8. Len(u) \in Nat
  BY <1>1
<1> QED
  BY <1>4, <1>5, <1>6, <1>7, <1>8 DEF Carries, t, u, p

-----------------------------------------------------------------------------
(* The inductive invariants.                                               *)

\* No other stream is around, and the file and the stream the Logger owns hold the
\* log between them, for as long as what went wrong leaves that true.
Good ==
  /\ "reopen" \notin faults
  /\ Reported \/ faults = {}
  /\ setting.client = "with" \/ "header" \notin faults

GoodInv ==
  Good =>
    /\ \A h \in Handle : IsOpen(stream[h]) => h = file_p
    /\ Len(disk) <= Len(LogOf(logged)) /\ Agrees(disk, Len(disk), LogOf(logged))
    /\ file_p # None /\ IsOpen(stream[file_p]) =>
         /\ Carries(stream[file_p], LogOf(logged))
         /\ stream[file_p].off = Len(disk)
         /\ "header" \notin faults =>
              stream[file_p].off + Len(stream[file_p].buf) = Len(LogOf(logged))
    /\ "header" \in faults => ~within
    /\ closed => Len(disk) = Len(LogOf(logged))

\* In a "with" block the owned stream carries the rest of the log; every other stream
\* carries a part of the header at most, which any log begins with.
WithInv ==
  setting.client = "with" /\ Reported =>
    /\ \A h \in Handle :
         IsOpen(stream[h]) /\ (within => h # file_p) => Carries(stream[h], Header)
    /\ within =>
         /\ Carries(stream[file_p], LogOf(logged))
         /\ stream[file_p].off + Len(stream[file_p].buf) = Len(LogOf(logged))
         /\ Agrees(disk, stream[file_p].off, LogOf(logged))
         /\ Len(disk) <= Len(LogOf(logged))
    /\ closed =>
         /\ ~within
         /\ Agrees(disk, Len(LogOf(logged)), LogOf(logged))
         /\ Len(disk) = Len(LogOf(logged))

\* What log() does to the stream, by the result of the write.
LEMMA LogIs ==
  ASSUME TypeInv, Log
  PROVE  /\ file_p \in Handle /\ UNCHANGED <<setting, file_p, disk, within, closed>>
         /\ setting.client = "with" => within
         /\ \/ UNCHANGED <<stream, logged, faults>>
            \/ /\ IsOpen(stream[file_p])
               /\ \E r \in Record, g \in Stream :
                    /\ stream' = [stream EXCEPT ![file_p] = g]
                    /\ g.state = "open" /\ g.off = stream[file_p].off
                    /\ \/ /\ logged' = Append(logged, r) /\ faults' = faults
                          /\ g.buf = stream[file_p].buf \o Packed(r)
                       \/ /\ faults' = faults \cup {"write"}
                          /\ Reported => logged' = logged /\ g.buf = stream[file_p].buf
<1>1. /\ file_p \in Handle /\ UNCHANGED <<setting, file_p, disk, within, closed>>
      /\ setting.client = "with" => within
  BY DEF Log, TypeInv
<1>2. ASSUME NEW r \in Record, NEW n \in WriteResults(Packed(r)), IsOpen(stream[file_p]),
             stream' = [stream EXCEPT ![file_p] = Taken(stream[file_p], Packed(r), n)],
             logged' = IF n > 0 THEN Append(logged, r) ELSE logged,
             faults' = IF n = Len(Packed(r)) THEN faults ELSE faults \cup {"write"}
      PROVE  \E g \in Stream :
               /\ stream' = [stream EXCEPT ![file_p] = g]
               /\ g.state = "open" /\ g.off = stream[file_p].off
               /\ \/ /\ logged' = Append(logged, r) /\ faults' = faults
                     /\ g.buf = stream[file_p].buf \o Packed(r)
                  \/ /\ faults' = faults \cup {"write"}
                     /\ Reported => logged' = logged /\ g.buf = stream[file_p].buf
  <2> DEFINE f == stream[file_p]
             s == Packed(r)
             g == Taken(f, s, n)
  <2>1. s \in Seq(Unit) /\ Len(s) = 2 /\ f \in Stream /\ f.state = "open"
    BY <1>1, <1>2, PackedIs DEF TypeInv, IsOpen
  <2>2. n \in Int /\ n <= Len(s) /\ (Reported => n = Len(s) \/ n = -1)
    BY <2>1, ResultsAre DEF TypeInv
  <2> HIDE DEF s, f
  <2>3. /\ g \in Stream /\ g.state = "open" /\ g.off = f.off
        /\ n < 0 => g.buf = f.buf
        /\ n = Len(s) => g.buf = f.buf \o s
    BY <2>1, <2>2, TakenIs
  <2>4. stream' = [stream EXCEPT ![file_p] = g]
    BY <1>2 DEF f, s
  <2> HIDE DEF g
  <2>5. CASE n = Len(s)
    <3>1. logged' = Append(logged, r) /\ faults' = faults
      BY <1>2, <2>1, <2>5 DEF s
    <3> QED
      BY <2>3, <2>4, <2>5, <3>1 DEF f, s
  <2>6. CASE n # Len(s)
    <3>1. faults' = faults \cup {"write"}
      BY <1>2, <2>6 DEF s
    <3>2. Reported => n < 0 /\ logged' = logged
      BY <1>2, <2>1, <2>2, <2>6
    <3> QED
      BY <2>3, <2>4, <3>1, <3>2 DEF f, s
  <2> QED
    BY <2>5, <2>6
<1>3. CASE ~IsOpen(stream[file_p]) /\ UNCHANGED <<stream, logged, faults>>
  BY <1>1, <1>3
<1>4. CASE /\ IsOpen(stream[file_p])
           /\ \E r \in Record : \E n \in WriteResults(Packed(r)) :
                /\ stream' = [stream EXCEPT ![file_p] = Taken(stream[file_p], Packed(r), n)]
                /\ logged' = IF n > 0 THEN Append(logged, r) ELSE logged
                /\ faults' = IF n = Len(Packed(r)) THEN faults ELSE faults \cup {"write"}
  <2>1. PICK r \in Record : \E n \in WriteResults(Packed(r)) :
          /\ stream' = [stream EXCEPT ![file_p] = Taken(stream[file_p], Packed(r), n)]
          /\ logged' = IF n > 0 THEN Append(logged, r) ELSE logged
          /\ faults' = IF n = Len(Packed(r)) THEN faults ELSE faults \cup {"write"}
    BY <1>4
  <2>2. PICK n \in WriteResults(Packed(r)) :
          /\ stream' = [stream EXCEPT ![file_p] = Taken(stream[file_p], Packed(r), n)]
          /\ logged' = IF n > 0 THEN Append(logged, r) ELSE logged
          /\ faults' = IF n = Len(Packed(r)) THEN faults ELSE faults \cup {"write"}
    BY <2>1
  <2> QED
    BY <1>1, <1>2, <1>4, <2>2
<1> QED
  BY <1>3, <1>4 DEF Log

\* What close() does: nothing to the file unless the Logger owns an open stream.
LEMMA CloseIs ==
  ASSUME TypeInv, Close
  PROVE  /\ within' = FALSE /\ UNCHANGED <<setting, logged>>
         /\ setting.client = "with" => within
         /\ \/ /\ file_p = None \/ ~IsOpen(stream[file_p])
               /\ UNCHANGED <<file_p, stream, disk, faults, closed>>
            \/ /\ file_p \in Handle /\ IsOpen(stream[file_p]) /\ stream[file_p] \in Stream
               /\ \E n \in 0 .. Len(stream[file_p].buf), g \in Stream :
                    /\ disk' = Overwrite(disk, stream[file_p].off, SubSeq(stream[file_p].buf, 1, n))
                    /\ stream' = [stream EXCEPT ![file_p] = g] /\ g.state = "freed"
                    /\ \/ /\ n = Len(stream[file_p].buf)
                          /\ file_p' = None /\ closed' = TRUE /\ faults' = faults
                       \/ /\ faults' = faults \cup {"close"}
                          /\ UNCHANGED <<file_p, closed>>
<1>1. /\ within' = FALSE /\ UNCHANGED <<setting, logged>>
      /\ setting.client = "with" => within
  BY DEF Close
<1>2. ASSUME file_p # None, IsOpen(stream[file_p]),
             NEW n \in 0 .. Len(stream[file_p].buf), Fclose(n)
      PROVE  /\ file_p \in Handle /\ stream[file_p] \in Stream
             /\ \E g \in Stream :
                  /\ disk' = Overwrite(disk, stream[file_p].off, SubSeq(stream[file_p].buf, 1, n))
                  /\ stream' = [stream EXCEPT ![file_p] = g] /\ g.state = "freed"
                  /\ \/ /\ n = Len(stream[file_p].buf)
                        /\ file_p' = None /\ closed' = TRUE /\ faults' = faults
                     \/ /\ faults' = faults \cup {"close"}
                        /\ UNCHANGED <<file_p, closed>>
  <2>1. file_p \in Handle /\ stream[file_p] \in Stream
    BY <1>2 DEF TypeInv
  <2>2. /\ ClosedStream(stream[file_p], n) \in Stream
        /\ ClosedStream(stream[file_p], n).state = "freed"
    BY <2>1, FlushedIs
  <2>3. stream' = [stream EXCEPT ![file_p] = ClosedStream(stream[file_p], n)]
    BY <1>2 DEF Fclose
  <2>4. disk' = Overwrite(disk, stream[file_p].off, SubSeq(stream[file_p].buf, 1, n))
    BY <1>2 DEF Fclose
  <2>5. \/ /\ n = Len(stream[file_p].buf)
           /\ file_p' = None /\ closed' = TRUE /\ faults' = faults
        \/ /\ faults' = faults \cup {"close"}
           /\ UNCHANGED <<file_p, closed>>
    BY <1>2 DEF Fclose
  <2> QED
    BY <2>1, <2>2, <2>3, <2>4, <2>5
<1>3. CASE /\ file_p = None \/ ~IsOpen(stream[file_p])
           /\ UNCHANGED <<file_p, stream, disk, faults, closed>>
  BY <1>1, <1>3
<1>4. CASE /\ file_p # None /\ IsOpen(stream[file_p])
           /\ \E n \in 0 .. Len(stream[file_p].buf) : Fclose(n)
  BY <1>1, <1>2, <1>4
<1> QED
  BY <1>3, <1>4 DEF Close

\* What stdio does to a stream by itself.
LEMMA FlushIs ==
  ASSUME TypeInv, Flush
  PROVE  /\ UNCHANGED <<setting, file_p, within, logged, faults, closed>>
         /\ \E h \in Handle : \E n \in 0 .. Len(stream[h].buf) :
              /\ IsOpen(stream[h]) /\ stream[h] \in Stream
              /\ disk' = Overwrite(disk, stream[h].off, SubSeq(stream[h].buf, 1, n))
              /\ stream' = [stream EXCEPT ![h] = Flushed(stream[h], n)]
<1>1. PICK h \in Handle :
        /\ IsOpen(stream[h])
        /\ \E n \in 1 .. Len(stream[h].buf) :
             /\ disk' = Overwrite(disk, stream[h].off, SubSeq(stream[h].buf, 1, n))
             /\ stream' = [stream EXCEPT ![h] = Flushed(stream[h], n)]
  BY DEF Flush
<1>2. stream[h] \in Stream /\ Len(stream[h].buf) \in Nat
  BY LenProperties DEF TypeInv, Stream
<1>3. \A n \in 1 .. Len(stream[h].buf) : n \in 0 .. Len(stream[h].buf)
  BY <1>2
<1> QED
  BY <1>1, <1>2, <1>3 DEF Flush

\* The lengths the invariants compare are numbers.
LEMMA Lengths ==
  ASSUME TypeInv
  PROVE  /\ Len(disk) \in Nat /\ LogOf(logged) \in Seq(Unit)
         /\ Len(LogOf(logged)) \in Nat /\ Len(LogOf(logged)) >= 3
         /\ \A h \in Handle : /\ stream[h] \in Stream /\ stream[h].off \in Nat
                              /\ Len(stream[h].buf) \in Nat
         /\ 0 \notin Handle /\ None = 0
<1>1. Len(disk) \in Nat
  BY LenProperties DEF TypeInv
<1>2. LogOf(logged) \in Seq(Unit) /\ Len(LogOf(logged)) \in Nat /\ Len(LogOf(logged)) >= 3
  BY HeaderOfLog DEF TypeInv
<1>3. \A h \in Handle : stream[h] \in Stream /\ stream[h].off \in Nat /\ Len(stream[h].buf) \in Nat
  BY LenProperties DEF TypeInv, Stream
<1>4. 0 \notin Handle /\ None = 0
  BY LoggerAssumption DEF Handle, None, LoggerAssumption
<1> QED
  BY <1>1, <1>2, <1>3, <1>4

LEMMA InvInit == Init => GoodInv /\ WithInv
<1> SUFFICES ASSUME Init PROVE GoodInv /\ WithInv
  OBVIOUS
<1>1. TypeInv
  BY TypeInvInit
<1>2. /\ \A h \in Handle : ~IsOpen(stream[h])
      /\ file_p = None /\ Len(disk) = 0 /\ ~within /\ ~closed /\ faults = {}
  BY DEF Init, Free, IsOpen
<1>3. Agrees(disk, Len(disk), LogOf(logged)) /\ Len(disk) <= Len(LogOf(logged))
  BY <1>1, <1>2, Lengths DEF Agrees
<1>4. GoodInv
  BY <1>2, <1>3 DEF GoodInv
<1>5. WithInv
  BY <1>2 DEF WithInv
<1> QED
  BY <1>4, <1>5

\* What opening does to the two invariants: the new log is empty.
LEMMA OpenKeeps ==
  ASSUME TypeInv, GoodInv, WithInv, Open
  PROVE  GoodInv' /\ WithInv'
<1> DEFINE w(y, d) == HeaderWrite(y, d)
           t == LogOf(<<>>)
<1>1. PICK h \in Handle, y \in WriteResults(Header), d \in WriteResults(Delimiter) :
        /\ stream[h].state = "free"
        /\ stream' = [stream EXCEPT ![h] = w(y, d).file] /\ within' = (w(y, d).ret > 0)
        /\ faults' = {k \in FaultKind : \/ k = "header" /\ w(y, d).ret # 3
                                        \/ k = "reopen" /\ \E g \in Handle : IsOpen(stream[g])}
        /\ file_p' = h /\ disk' = <<>> /\ logged' = <<>> /\ closed' = FALSE
        /\ UNCHANGED <<setting, proc>>
        /\ proc = "running" /\ (setting.client = "with" => ~within)
  BY OpenIs
<1> DEFINE f == w(y, d).file
           r == w(y, d).ret
<1>2. /\ f \in Stream /\ f.state = "open" /\ f.off = 0
      /\ r = 3 => Carries(f, t) /\ f.off + Len(f.buf) = Len(t)
      /\ Reported /\ r # 3 => r = -1 /\ Carries(f, Header)
  BY HeaderWriteIs, NewCarries DEF TypeInv
<1>3. Len(disk') = 0 /\ <<>> \in Seq(Record)
  BY <1>1, EmptySeq
<1>4. /\ t \in Seq(Unit) /\ Len(t) \in Nat /\ Len(t) >= 3
      /\ Carries(f, Header) => Carries(f, t)
  BY <1>2, <1>3, HeaderOfLog
<1>5. /\ stream' = [stream EXCEPT ![h] = f] /\ within' = (r > 0) /\ file_p' = h
      /\ stream'[h] = f
      /\ \A j \in Handle : j # h => stream'[j] = stream[j]
      /\ "header" \in faults' <=> r # 3
      /\ "reopen" \in faults' <=> \E g \in Handle : IsOpen(stream[g])
  BY <1>1 DEF FaultKind, TypeInv
<1>6. /\ LogOf(logged)' = t /\ closed' = FALSE
      /\ setting' = setting /\ (setting.client = "with" => ~within)
      /\ Reported' <=> Reported
  BY <1>1 DEF Reported, LogOf, Records
<1> HIDE DEF w, t, f, r
<1>7. Agrees(disk', 0, t)
  BY <1>3 DEF Agrees
<1>8. (r = 3 => within') /\ (r = -1 => ~within')
  <2>1. (r = 3 => r > 0) /\ (r = -1 => ~(r > 0))
    OBVIOUS
  <2>2. within' = (r > 0)
    BY <1>5
  <2> QED
    BY <2>1, <2>2, Zenon
<1>9. GoodInv'
  <2> SUFFICES ASSUME Good' PROVE
        /\ \A j \in Handle : IsOpen(stream'[j]) => j = file_p'
        /\ Len(disk') <= Len(t) /\ Agrees(disk', Len(disk'), t)
        /\ /\ Carries(stream'[file_p'], t)
           /\ stream'[file_p'].off = Len(disk')
           /\ "header" \notin faults' =>
                stream'[file_p'].off + Len(stream'[file_p'].buf) = Len(t)
        /\ "header" \in faults' => ~within'
    BY <1>6 DEF GoodInv
  <2>1. \A j \in Handle : IsOpen(stream'[j]) => j = file_p'
    BY <1>5 DEF Good
  <2>2. Len(disk') <= Len(t) /\ Agrees(disk', Len(disk'), t)
    BY <1>3, <1>4, <1>7
  <2>3. r # 3 => Reported
    BY <1>5, <1>6 DEF Good
  <2>4. Carries(f, t) /\ f.off = 0 /\ (r = 3 => f.off + Len(f.buf) = Len(t))
    BY <1>2, <1>4, <2>3
  <2>5. "header" \in faults' => ~within'
    BY <1>2, <1>5, <1>8, <2>3
  <2> QED
    BY <1>3, <1>5, <2>1, <2>2, <2>4, <2>5
<1>10. WithInv'
  <2> SUFFICES ASSUME setting.client = "with", Reported PROVE
        /\ \A j \in Handle :
             IsOpen(stream'[j]) /\ (within' => j # file_p') => Carries(stream'[j], Header)
        /\ within' =>
             /\ Carries(stream'[file_p'], t)
             /\ stream'[file_p'].off + Len(stream'[file_p'].buf) = Len(t)
             /\ Agrees(disk', stream'[file_p'].off, t)
             /\ Len(disk') <= Len(t)
    BY <1>6 DEF WithInv
  <2>1. \A j \in Handle : IsOpen(stream[j]) => Carries(stream[j], Header)
    BY <1>6 DEF WithInv
  <2>2. r # 3 => ~within' /\ Carries(f, Header)
    BY <1>2, <1>8
  <2>3. CASE r = 3
    <3>1. \A j \in Handle : j # file_p' /\ IsOpen(stream'[j]) => Carries(stream'[j], Header)
      BY <1>5, <2>1
    <3>2. /\ Carries(stream'[file_p'], t)
          /\ stream'[file_p'].off + Len(stream'[file_p'].buf) = Len(t)
          /\ Agrees(disk', stream'[file_p'].off, t)
      BY <1>2, <1>5, <1>7, <2>3
    <3>3. Len(disk') <= Len(t)
      BY <1>3, <1>4
    <3> QED
      BY <1>8, <2>3, <3>1, <3>2, <3>3
  <2>4. CASE r # 3
    <3>1. \A j \in Handle : IsOpen(stream'[j]) => Carries(stream'[j], Header)
      BY <1>5, <2>1, <2>2, <2>4
    <3> QED
      BY <2>2, <2>4, <3>1
  <2> QED
    BY <2>3, <2>4
<1> QED
  BY <1>9, <1>10

\* What log() does: a record that is accepted reaches both the log and the stream.
LEMMA LogKeeps ==
  ASSUME TypeInv, HandleInv, GoodInv, WithInv, Log
  PROVE  GoodInv' /\ WithInv'
<1>1. /\ file_p \in Handle /\ UNCHANGED <<setting, file_p, disk, within, closed>>
      /\ setting.client = "with" => within
  BY LogIs
<1>2. CASE UNCHANGED <<stream, logged, faults>>
  <2>1. UNCHANGED <<setting, file_p, stream, disk, within, logged, faults, closed>>
    BY <1>1, <1>2
  <2>2. GoodInv'
    BY <2>1 DEF GoodInv, Good, Reported, LogOf, Records, IsOpen
  <2>3. WithInv'
    BY <2>1 DEF WithInv, Reported, LogOf, Records, IsOpen
  <2> QED
    BY <2>2, <2>3
<1>3. ASSUME IsOpen(stream[file_p]), NEW r \in Record, NEW g \in Stream,
             stream' = [stream EXCEPT ![file_p] = g],
             g.state = "open", g.off = stream[file_p].off,
             \/ /\ logged' = Append(logged, r) /\ faults' = faults
                /\ g.buf = stream[file_p].buf \o Packed(r)
             \/ /\ faults' = faults \cup {"write"}
                /\ Reported => logged' = logged /\ g.buf = stream[file_p].buf
      PROVE  GoodInv' /\ WithInv'
  <2> DEFINE f == stream[file_p]
             t == LogOf(logged)
             u == LogOf(logged')
  <2>1. /\ f \in Stream /\ t \in Seq(Unit) /\ Len(t) \in Nat /\ Len(disk) \in Nat
        /\ f.off \in Nat /\ file_p # None /\ closed = FALSE /\ closed' = FALSE
        /\ stream'[file_p] = g
        /\ \A h \in Handle : h # file_p => stream'[h] = stream[h]
        /\ \A h \in Handle : IsOpen(stream'[h]) <=> IsOpen(stream[h])
    BY <1>1, <1>3, Lengths DEF TypeInv, HandleInv, IsOpen
  <2>2. /\ LogOf(logged)' = u
        /\ Reported' <=> Reported
    BY <1>1 DEF LogOf, Records, Reported
  <2>3. CASE /\ logged' = Append(logged, r) /\ faults' = faults
             /\ g.buf = f.buf \o Packed(r)
    <3>1. /\ u \in Seq(Unit) /\ Len(u) = Len(t) + 2 /\ \A k \in 1 .. Len(t) : u[k] = t[k]
      BY <2>3, IntendedGrows, IntendedIs DEF TypeInv
    <3>2. ASSUME Carries(f, t), f.off + Len(f.buf) = Len(t)
          PROVE  Carries(g, u) /\ g.off + Len(g.buf) = Len(u)
      <4>1. /\ f \in Stream /\ logged \in Seq(Record)
            /\ Carries(f, LogOf(logged)) /\ f.off + Len(f.buf) = Len(LogOf(logged))
            /\ g.off = f.off /\ g.buf = f.buf \o Packed(r)
        BY <1>3, <2>1, <2>3, <3>2 DEF TypeInv
      <4> HIDE DEF f
      <4>2. /\ Carries(g, LogOf(Append(logged, r)))
            /\ g.off + Len(g.buf) = Len(LogOf(Append(logged, r)))
        BY <4>1, RecordCarries
      <4> QED
        BY <2>3, <4>2
    <3> HIDE DEF f, t, u
    <3>3. ASSUME NEW n \in Nat, n <= Len(t), Agrees(disk, n, t) PROVE Agrees(disk, n, u)
      BY <2>1, <3>1, <3>3 DEF Agrees
    <3>4. ASSUME Good PROVE GoodInv'
      <4>1. /\ \A h \in Handle : IsOpen(stream[h]) => h = file_p
            /\ Len(disk) <= Len(t) /\ Agrees(disk, Len(disk), t)
            /\ Carries(f, t) /\ f.off = Len(disk)
            /\ "header" \notin faults => f.off + Len(f.buf) = Len(t)
            /\ "header" \in faults => ~within
        BY <1>3, <2>1, <3>4 DEF GoodInv, f, t
      <4>2. "header" \notin faults
        BY <1>1, <3>4, <4>1 DEF Good
      <4>3. /\ Carries(g, u) /\ g.off + Len(g.buf) = Len(u)
            /\ Agrees(disk, Len(disk), u) /\ Len(disk) <= Len(u)
        BY <2>1, <3>1, <3>2, <3>3, <4>1, <4>2
      <4>4. g.off = Len(disk)
        BY <1>3, <4>1 DEF f
      <4> QED
        BY <1>1, <2>1, <2>2, <2>3, <4>1, <4>2, <4>3, <4>4 DEF GoodInv
    <3>5. Good' => Good
      BY <1>1, <2>2, <2>3 DEF Good
    <3>6. GoodInv'
      BY <3>4, <3>5 DEF GoodInv
    <3>7. ASSUME setting.client = "with", Reported PROVE WithInv'
      <4>1. /\ \A h \in Handle : IsOpen(stream[h]) /\ h # file_p => Carries(stream[h], Header)
            /\ Carries(f, t) /\ f.off + Len(f.buf) = Len(t)
            /\ Agrees(disk, f.off, t) /\ Len(disk) <= Len(t) /\ within
        BY <1>1, <3>7 DEF WithInv, f, t
      <4>2. f.off <= Len(t)
        BY <2>1, <4>1 DEF Agrees
      <4>3. Carries(g, u) /\ g.off + Len(g.buf) = Len(u) /\ Agrees(disk, f.off, u)
        BY <2>1, <3>2, <3>3, <4>1, <4>2
      <4>4. g.off = f.off /\ Len(disk) <= Len(u)
        BY <1>3, <2>1, <3>1, <4>1 DEF f
      <4> QED
        BY <1>1, <2>1, <2>2, <4>1, <4>3, <4>4 DEF WithInv
    <3>8. WithInv'
      BY <1>1, <2>2, <3>7 DEF WithInv
    <3> QED
      BY <3>6, <3>8
  <2>4. CASE /\ faults' = faults \cup {"write"}
             /\ Reported => logged' = logged /\ g.buf = f.buf
    <3>1. ASSUME Reported PROVE u = t /\ g.off = f.off /\ g.buf = f.buf
      BY <1>3, <2>4, <3>1
    <3>2. ASSUME Reported, NEW v PROVE Carries(g, v) <=> Carries(f, v)
      BY <3>1, <3>2 DEF Carries
    <3>3. ASSUME Good' PROVE GoodInv'
      <4>1. Reported /\ Good /\ ("header" \in faults' <=> "header" \in faults)
        BY <1>1, <2>2, <2>4, <3>3 DEF Good
      <4>2. /\ \A h \in Handle : IsOpen(stream[h]) => h = file_p
            /\ Len(disk) <= Len(t) /\ Agrees(disk, Len(disk), t)
            /\ Carries(f, t) /\ f.off = Len(disk)
            /\ "header" \notin faults => f.off + Len(f.buf) = Len(t)
            /\ "header" \in faults => ~within
        BY <1>3, <2>1, <4>1 DEF GoodInv
      <4> HIDE DEF f, t, u
      <4>3. /\ Carries(g, u) /\ g.off = Len(disk) /\ u = t
            /\ "header" \notin faults => g.off + Len(g.buf) = Len(u)
        BY <3>1, <3>2, <4>1, <4>2
      <4> QED
        BY <1>1, <2>1, <2>2, <4>1, <4>2, <4>3 DEF GoodInv
    <3>4. ASSUME setting.client = "with", Reported PROVE WithInv'
      <4>1. /\ \A h \in Handle : IsOpen(stream[h]) /\ h # file_p => Carries(stream[h], Header)
            /\ Carries(f, t) /\ f.off + Len(f.buf) = Len(t)
            /\ Agrees(disk, f.off, t) /\ Len(disk) <= Len(t) /\ within
        BY <1>1, <3>4 DEF WithInv
      <4> HIDE DEF f, t, u
      <4>2. Carries(g, u) /\ g.off = f.off /\ u = t /\ g.off + Len(g.buf) = Len(u)
        BY <3>1, <3>2, <3>4, <4>1
      <4> QED
        BY <1>1, <2>1, <2>2, <4>1, <4>2 DEF WithInv
    <3>5. GoodInv'
      BY <3>3 DEF GoodInv
    <3>6. WithInv'
      BY <1>1, <2>2, <3>4 DEF WithInv
    <3> QED
      BY <3>5, <3>6
  <2> QED
    BY <1>3, <2>3, <2>4
<1> QED
  BY <1>2, <1>3, LogIs

\* What closing does: when fclose succeeds, all that the stream carried is in the file.
LEMMA CloseKeeps ==
  ASSUME TypeInv, HandleInv, GoodInv, WithInv, Close
  PROVE  GoodInv' /\ WithInv'
<1>1. /\ within' = FALSE /\ UNCHANGED <<setting, logged>>
      /\ setting.client = "with" => within
  BY CloseIs
<1>2. CASE /\ file_p = None \/ ~IsOpen(stream[file_p])
           /\ UNCHANGED <<file_p, stream, disk, faults, closed>>
  <2>1. /\ UNCHANGED <<setting, file_p, stream, disk, logged, faults, closed>>
        /\ within' = FALSE
    BY <1>1, <1>2
  <2>2. GoodInv'
    BY <2>1 DEF GoodInv, Good, Reported, LogOf, Records, IsOpen
  <2>3. setting.client # "with"
    BY <1>1, <1>2 DEF HandleInv
  <2>4. WithInv'
    BY <2>1, <2>3 DEF WithInv
  <2> QED
    BY <2>2, <2>4
<1>3. ASSUME file_p \in Handle, IsOpen(stream[file_p]), stream[file_p] \in Stream,
             NEW n \in 0 .. Len(stream[file_p].buf), NEW g \in Stream,
             disk' = Overwrite(disk, stream[file_p].off, SubSeq(stream[file_p].buf, 1, n)),
             stream' = [stream EXCEPT ![file_p] = g], g.state = "freed",
             \/ /\ n = Len(stream[file_p].buf)
                /\ file_p' = None /\ closed' = TRUE /\ faults' = faults
             \/ faults' = faults \cup {"close"} /\ UNCHANGED <<file_p, closed>>
      PROVE  GoodInv' /\ WithInv'
  <2> DEFINE f == stream[file_p]
             t == LogOf(logged)
  <2>1. /\ f \in Stream /\ t \in Seq(Unit) /\ Len(t) \in Nat /\ Len(disk) \in Nat
        /\ f.off \in Nat /\ Len(f.buf) \in Nat /\ n \in Nat /\ n <= Len(f.buf)
        /\ disk \in Seq(Unit) /\ file_p # None /\ ~closed
        /\ disk' = Overwrite(disk, f.off, SubSeq(f.buf, 1, n))
        /\ n \in 0 .. Len(f.buf)
    BY <1>3, Lengths DEF TypeInv, HandleInv
  <2>2. /\ LogOf(logged)' = t /\ (Reported' <=> Reported) /\ setting' = setting
        /\ "header" \in faults' <=> "header" \in faults
        /\ Good' => Good
    BY <1>1, <1>3 DEF LogOf, Records, Reported, Good
  <2>3. \A h \in Handle : IsOpen(stream'[h]) => h # file_p /\ stream'[h] = stream[h]
    BY <1>3 DEF TypeInv, IsOpen
  <2>4. closed' => n = Len(f.buf)
    BY <1>3, <2>1
  <2>5. ASSUME file_p' # None PROVE ~IsOpen(stream'[file_p'])
    BY <1>3, <2>3, <2>5
  <2> DEFINE e == disk'
  <2> HIDE DEF f, t, e
  <2>6. ASSUME Carries(f, t), NEW m \in Nat, Agrees(disk, m, t)
        PROVE  /\ Len(e) = IF Len(disk) > f.off + n THEN Len(disk) ELSE f.off + n
               /\ f.off <= m => Agrees(e, f.off + n, t)
    BY <2>1, <2>6, FlushAgrees DEF e
  <2>7. ASSUME Good' PROVE GoodInv'
    <3>1. /\ \A h \in Handle : IsOpen(stream[h]) => h = file_p
          /\ Agrees(disk, Len(disk), t) /\ Carries(f, t) /\ f.off = Len(disk)
          /\ "header" \notin faults => f.off + Len(f.buf) = Len(t)
          /\ "header" \notin faults
      <4>1. /\ \A h \in Handle : IsOpen(stream[h]) => h = file_p
            /\ Agrees(disk, Len(disk), t) /\ Carries(f, t) /\ f.off = Len(disk)
            /\ "header" \notin faults => f.off + Len(f.buf) = Len(t)
            /\ "header" \in faults => ~within
        BY <1>3, <2>1, <2>2, <2>7 DEF GoodInv, f, t
      <4>2. "header" \notin faults
        BY <1>1, <2>2, <2>7, <4>1 DEF Good
      <4> QED
        BY <4>1, <4>2
    <3>2. Len(e) = f.off + n /\ Agrees(e, f.off + n, t)
      BY <2>1, <2>6, <3>1
    <3>3. f.off + n <= Len(t)
      BY <2>1, <3>1
    <3>4. closed' => Len(e) = Len(t)
      BY <2>4, <3>1, <3>2
    <3> QED
      BY <1>1, <2>2, <2>3, <2>5, <3>1, <3>2, <3>3, <3>4 DEF GoodInv, e
  <2>8. ASSUME setting.client = "with", Reported PROVE WithInv'
    <3>1. /\ \A h \in Handle : IsOpen(stream[h]) /\ h # file_p => Carries(stream[h], Header)
          /\ Carries(f, t) /\ f.off + Len(f.buf) = Len(t)
          /\ Agrees(disk, f.off, t) /\ Len(disk) <= Len(t)
      BY <1>1, <2>8 DEF WithInv, f, t
    <3>2. ASSUME closed' PROVE Agrees(e, Len(t), t) /\ Len(e) = Len(t)
      <4>1. f.off + n = Len(t)
        BY <2>4, <3>1, <3>2
      <4>2. f.off <= f.off
        BY <2>1
      <4>3. /\ Len(e) = IF Len(disk) > f.off + n THEN Len(disk) ELSE f.off + n
            /\ Agrees(e, f.off + n, t)
        BY <2>1, <2>6, <3>1, <4>2
      <4>4. ~(Len(disk) > Len(t))
        BY <2>1, <3>1
      <4> QED
        BY <4>1, <4>3, <4>4
    <3> QED
      BY <1>1, <2>2, <2>3, <3>1, <3>2 DEF WithInv, e
  <2>9. GoodInv'
    BY <2>7 DEF GoodInv
  <2>10. WithInv'
    BY <2>2, <2>8 DEF WithInv
  <2> QED
    BY <2>9, <2>10
<1> QED
  BY <1>2, <1>3, CloseIs

\* What stdio does by itself: a stream that another open left behind writes at most a
\* part of the header, where the header belongs.
LEMMA FlushKeeps ==
  ASSUME TypeInv, HandleInv, GoodInv, WithInv, Flush
  PROVE  GoodInv' /\ WithInv'
<1>1. UNCHANGED <<setting, file_p, within, logged, faults, closed>>
  BY FlushIs
<1>2. ASSUME NEW h \in Handle, NEW n \in 0 .. Len(stream[h].buf),
             IsOpen(stream[h]), stream[h] \in Stream,
             disk' = Overwrite(disk, stream[h].off, SubSeq(stream[h].buf, 1, n)),
             stream' = [stream EXCEPT ![h] = Flushed(stream[h], n)]
      PROVE  GoodInv' /\ WithInv'
  <2> DEFINE f == stream[h]
             g == Flushed(f, n)
             t == LogOf(logged)
  <2>1. /\ f \in Stream /\ t \in Seq(Unit) /\ Len(t) \in Nat /\ Len(t) >= 3 /\ Len(disk) \in Nat
        /\ f.off \in Nat /\ Len(f.buf) \in Nat /\ n \in Nat /\ n <= Len(f.buf)
        /\ disk \in Seq(Unit) /\ h # None
        /\ disk' = Overwrite(disk, f.off, SubSeq(f.buf, 1, n))
        /\ n \in 0 .. Len(f.buf) /\ IsOpen(f)
    BY <1>2, Lengths DEF TypeInv
  <2>2. /\ LogOf(logged)' = t /\ (Reported' <=> Reported)
        /\ Good' <=> Good
    BY <1>1 DEF LogOf, Records, Reported, Good
  <2>3. /\ stream'[h] = g /\ \A j \in Handle : j # h => stream'[j] = stream[j]
        /\ g.off = f.off + n
        /\ \A j \in Handle : IsOpen(stream'[j]) <=> IsOpen(stream[j])
    BY <1>2, FlushedIs DEF TypeInv, IsOpen
  <2> DEFINE e == disk'
  <2> HIDE DEF f, g, t, e
  <2>4. ASSUME NEW v \in Seq(Unit), Carries(f, v)
        PROVE  Carries(g, v) /\ g.off + Len(g.buf) = f.off + Len(f.buf)
    BY <2>1, <2>4, FlushedCarries DEF g
  <2>5. ASSUME Carries(f, t), NEW m \in Nat, Agrees(disk, m, t)
        PROVE  /\ Len(e) = IF Len(disk) > f.off + n THEN Len(disk) ELSE f.off + n
               /\ Agrees(e, m, t)
               /\ f.off <= m => Agrees(e, f.off + n, t)
    BY <2>1, <2>5, FlushAgrees DEF e
  <2>6. ASSUME Good PROVE GoodInv'
    <3>1. /\ \A j \in Handle : IsOpen(stream[j]) => j = file_p
          /\ "header" \in faults => ~within
      BY <2>6 DEF GoodInv
    <3>2. h = file_p /\ ~closed
      BY <2>1, <3>1 DEF f, HandleInv
    <3>3. /\ Agrees(disk, Len(disk), t) /\ Carries(f, t) /\ f.off = Len(disk)
          /\ "header" \notin faults => f.off + Len(f.buf) = Len(t)
      BY <2>1, <2>6, <3>2 DEF GoodInv, f, t
    <3>4. Len(e) = f.off + n /\ Agrees(e, f.off + n, t)
      BY <2>1, <2>5, <3>3
    <3>5. f.off + n <= Len(t)
      BY <2>1, <3>3 DEF Carries
    <3>6. /\ Carries(g, t) /\ g.off = Len(e)
          /\ "header" \notin faults => g.off + Len(g.buf) = Len(t)
      BY <2>1, <2>3, <2>4, <3>3, <3>4
    <3> QED
      BY <1>1, <2>2, <2>3, <3>1, <3>2, <3>4, <3>5, <3>6 DEF GoodInv, e
  <2>7. ASSUME setting.client = "with", Reported PROVE WithInv'
    <3>1. /\ \A j \in Handle :
               IsOpen(stream[j]) /\ (within => j # file_p) => Carries(stream[j], Header)
          /\ within =>
               /\ Carries(stream[file_p], t)
               /\ stream[file_p].off + Len(stream[file_p].buf) = Len(t)
               /\ Agrees(disk, stream[file_p].off, t)
               /\ Len(disk) <= Len(t)
          /\ closed =>
               /\ ~within
               /\ Agrees(disk, Len(t), t)
               /\ Len(disk) = Len(t)
      BY <2>7 DEF WithInv, t
    <3>2. CASE within /\ h = file_p
      <4>1. /\ Carries(f, t) /\ f.off + Len(f.buf) = Len(t)
            /\ Agrees(disk, f.off, t) /\ Len(disk) <= Len(t) /\ ~closed
        BY <3>1, <3>2 DEF f
      <4>2. /\ Len(e) = IF Len(disk) > f.off + n THEN Len(disk) ELSE f.off + n
            /\ Agrees(e, f.off + n, t)
        <5>1. f.off <= f.off
          BY <2>1
        <5> QED
          BY <2>1, <2>5, <4>1, <5>1
      <4>3. f.off + n <= Len(t) /\ Len(e) <= Len(t)
        BY <2>1, <4>1, <4>2
      <4>4. Carries(g, t) /\ g.off + Len(g.buf) = Len(t)
        BY <2>1, <2>4, <4>1
      <4>5. \A j \in Handle :
              IsOpen(stream'[j]) /\ j # file_p => Carries(stream'[j], Header)
        BY <2>3, <3>1, <3>2
      <4> QED
        BY <1>1, <2>2, <2>3, <3>2, <4>1, <4>2, <4>3, <4>4, <4>5 DEF WithInv, e
    <3>3. CASE within => h # file_p
      <4>1. Carries(f, Header)
        BY <2>1, <3>1, <3>3 DEF f
      <4>2. Carries(f, t) /\ f.off + Len(f.buf) <= 2
        BY <2>1, <4>1, HeaderOfLog DEF TypeInv, t
      <4>3. Carries(g, Header)
        BY <2>4, <4>1, HeaderIs
      <4>4. \A j \in Handle :
              IsOpen(stream'[j]) /\ (within => j # file_p) => Carries(stream'[j], Header)
        BY <2>3, <3>1, <4>3
      <4>5. ASSUME NEW m \in Nat, Agrees(disk, m, t), Len(disk) <= Len(t)
            PROVE  Agrees(e, m, t) /\ Len(e) <= Len(t)
        <5>1. /\ Len(e) = IF Len(disk) > f.off + n THEN Len(disk) ELSE f.off + n
              /\ Agrees(e, m, t)
          BY <2>5, <4>2, <4>5
        <5> QED
          BY <2>1, <4>2, <4>5, <5>1
      <4>6. ASSUME within
            PROVE  /\ Carries(stream'[file_p], t)
                   /\ stream'[file_p].off + Len(stream'[file_p].buf) = Len(t)
                   /\ Agrees(e, stream'[file_p].off, t)
                   /\ Len(e) <= Len(t)
        <5>1. file_p \in Handle /\ stream'[file_p] = stream[file_p] /\ stream[file_p].off \in Nat
          BY <2>3, <2>7, <3>3, <4>6, Lengths DEF TypeInv, HandleInv
        <5> QED
          BY <3>1, <4>5, <4>6, <5>1
      <4>7. ASSUME closed PROVE Agrees(e, Len(t), t) /\ Len(e) = Len(t) /\ ~within
        <5>1. Agrees(disk, Len(t), t) /\ Len(disk) = Len(t) /\ ~within
          BY <3>1, <4>7
        <5>2. Len(disk) <= Len(t)
          BY <2>1, <5>1
        <5>3. Agrees(e, Len(t), t) /\ Len(e) <= Len(t)
          BY <2>1, <4>5, <5>1, <5>2
        <5>4. Len(e) = IF Len(disk) > f.off + n THEN Len(disk) ELSE f.off + n
          BY <2>1, <2>5, <4>2, <5>1
        <5>5. Len(e) = Len(t)
          BY <2>1, <5>1, <5>3, <5>4
        <5> QED
          BY <5>1, <5>3, <5>5
      <4> QED
        BY <1>1, <2>2, <4>4, <4>6, <4>7 DEF WithInv, e
    <3> QED
      BY <3>2, <3>3
  <2>8. GoodInv'
    BY <2>2, <2>6 DEF GoodInv
  <2>9. WithInv'
    BY <1>1, <2>2, <2>7 DEF WithInv
  <2> QED
    BY <2>8, <2>9
<1>3. PICK h \in Handle : \E n \in 0 .. Len(stream[h].buf) :
        /\ IsOpen(stream[h]) /\ stream[h] \in Stream
        /\ disk' = Overwrite(disk, stream[h].off, SubSeq(stream[h].buf, 1, n))
        /\ stream' = [stream EXCEPT ![h] = Flushed(stream[h], n)]
  BY FlushIs
<1> QED
  BY <1>2, <1>3

LEMMA InvNext ==
  TypeInv /\ HandleInv /\ GoodInv /\ WithInv /\ [Next]_vars => GoodInv' /\ WithInv'
<1> SUFFICES ASSUME TypeInv, HandleInv, GoodInv, WithInv, [Next]_vars
             PROVE  GoodInv' /\ WithInv'
  OBVIOUS
<1>1. CASE Open
  BY <1>1, OpenKeeps
<1>2. CASE Log
  BY <1>2, LogKeeps
<1>3. CASE Close
  BY <1>3, CloseKeeps
<1>4. CASE Flush
  BY <1>4, FlushKeeps
<1>5. CASE Exit \/ UNCHANGED vars
  <2>1. UNCHANGED <<setting, file_p, stream, disk, within, logged, faults, closed>>
    BY <1>5 DEF Exit, vars
  <2>2. GoodInv'
    BY <2>1 DEF GoodInv, Good, Reported, LogOf, Records, IsOpen
  <2>3. WithInv'
    BY <2>1 DEF WithInv, Reported, LogOf, Records, IsOpen
  <2> QED
    BY <2>2, <2>3
<1> QED
  BY <1>1, <1>2, <1>3, <1>4, <1>5 DEF Next

LEMMA Invariant == Spec => [](TypeInv /\ HandleInv /\ GoodInv /\ WithInv)
<1>1. Init => TypeInv /\ HandleInv /\ GoodInv /\ WithInv
  BY TypeInvInit, InvInit
<1>2. TypeInv /\ HandleInv /\ GoodInv /\ WithInv /\ [Next]_vars
      => (TypeInv /\ HandleInv /\ GoodInv /\ WithInv)'
  BY TypeInvNext, InvNext
<1> QED
  BY <1>1, <1>2, PTL DEF Spec

-----------------------------------------------------------------------------
(* The theorems.                                                           *)

\* Every variable keeps its type, and the stream that the Logger owns is one fopen
\* returned: file_p is set by open() alone.
THEOREM TypeCorrect == Spec => []TypeOK
<1>1. TypeInv => TypeOK
  <2> SUFFICES ASSUME TypeInv PROVE TypeOK
    OBVIOUS
  <2>1. \A h \in Handle : /\ stream[h].state \in {"free", "open", "freed"}
                          /\ stream[h].buf \in Seq(Unit) /\ stream[h].off \in Nat
    BY DEF TypeInv, Stream
  <2>2. file_p # None => stream[file_p] # Free
    BY DEF TypeInv, Free
  <2> QED
    BY <2>1, <2>2 DEF TypeInv, TypeOK
<1> QED
  BY <1>1, TypeInvariant, PTL

\* A freed FILE reaches stdio only from calls outside "with" blocks, after a close()
\* whose fclose failed: whatever the number of opens and the writes that fail.
THEOREM NoDeadHandleInWith == Spec => []DeadHandleAfterFailedClose
<1>1. HandleInv => DeadHandleAfterFailedClose
  BY DEF HandleInv, DeadHandleAfterFailedClose
<1> QED
  BY <1>1, TypeInvariant, PTL

\* The file of a process that died holds the log cut at one point, if a write that
\* fails writes nothing: two streams on one file, and a headerless stream that a
\* failed open() left, are the only ways out.
THEOREM TornAtEnd == Spec => []TornOnlyAtEnd
<1>1. TypeInv /\ GoodInv => TornOnlyAtEnd
  <2> SUFFICES ASSUME TypeInv, GoodInv, Good PROVE IsPrefix(disk, Intended)
    BY DEF TornOnlyAtEnd, Good
  <2>1. Len(disk) <= Len(LogOf(logged)) /\ Agrees(disk, Len(disk), LogOf(logged))
    BY DEF GoodInv
  <2>2. disk \in Seq(Unit) /\ LogOf(logged) \in Seq(Unit)
    BY Lengths DEF TypeInv
  <2>3. IsPrefix(disk, LogOf(logged))
    BY <2>1, <2>2, PrefixByElement DEF Agrees
  <2> QED
    BY <2>3 DEF Intended, LogOf
<1> QED
  BY <1>1, Invariant, PTL

\* With no short write, no failed fclose and no second open, any sequence of calls of
\* open(), log() and close() makes the log it should, and a closed one is complete.
THEOREM SoundWithoutFaults == Spec => []SoundUnlessFaulty
<1>1. TypeInv /\ GoodInv => SoundUnlessFaulty
  <2> SUFFICES ASSUME TypeInv, GoodInv, faults = {}
               PROVE  IsPrefix(disk, Intended) /\ ClosedLogIsComplete
    BY DEF SoundUnlessFaulty
  <2>1. /\ Len(disk) <= Len(LogOf(logged)) /\ Agrees(disk, Len(disk), LogOf(logged))
        /\ closed => Len(disk) = Len(LogOf(logged))
    BY DEF GoodInv, Good
  <2>2. disk \in Seq(Unit) /\ LogOf(logged) \in Seq(Unit)
    BY Lengths DEF TypeInv
  <2>3. IsPrefix(disk, LogOf(logged))
    BY <2>1, <2>2, PrefixByElement DEF Agrees
  <2>4. closed => disk = LogOf(logged)
    BY <2>1, <2>2, SeqEqual DEF Agrees
  <2> QED
    BY <2>3, <2>4 DEF Intended, LogOf, ClosedLogIsComplete
<1> QED
  BY <1>1, Invariant, PTL

\* A client of "with logger:" blocks that gets past the end of one without OSError has
\* every record in the file, although streams of opens that failed are still flushed
\* over it: they can only repeat the header.
THEOREM WithBlocksAreComplete == Spec => []WithBlockLogIsComplete
<1>1. TypeInv /\ WithInv => WithBlockLogIsComplete
  <2> SUFFICES ASSUME TypeInv, WithInv, setting.client = "with", Reported, closed
               PROVE  disk = Intended
    BY DEF WithBlockLogIsComplete, ClosedLogIsComplete
  <2>1. Len(disk) = Len(LogOf(logged)) /\ Agrees(disk, Len(LogOf(logged)), LogOf(logged))
    BY DEF WithInv
  <2>2. disk \in Seq(Unit) /\ LogOf(logged) \in Seq(Unit)
    BY Lengths DEF TypeInv
  <2>3. disk = LogOf(logged)
    BY <2>1, <2>2, SeqEqual DEF Agrees
  <2> QED
    BY <2>3 DEF Intended, LogOf
<1> QED
  BY <1>1, Invariant, PTL

-----------------------------------------------------------------------------
-----------------------------------------------------------------------------
(* The matcher.                                                            *)

\* After n bytes of f, d of which are still matched: those d are the beginning
\* of the delimiter, and no delimiter starts before them.
Progress(f, n, d) ==
  /\ d <= n
  /\ \A j \in 1 .. d : f[n - d + j] = Delim[j]
  /\ \A k \in 0 .. (n - d - 1) : ~OccursAt(f, k)

LEMMA DelimFacts ==
  /\ N \in Nat /\ N > 0
  /\ \A j \in 1 .. N : Delim[j] \in Char
  /\ \A j \in 2 .. N : Delim[j] # Delim[1]
BY DelimAssumption DEF N

\* One byte of the scan keeps the progress, because a byte that was matched
\* beyond the first cannot start another delimiter.
LEMMA MatchedKeepsProgress ==
  ASSUME NEW f \in Seq(Char), NEW n \in 0 .. (Len(f) - 1),
         NEW d \in 0 .. (N - 1), Progress(f, n, d)
  PROVE  /\ Matched(d, f[n + 1]) \in 0 .. N
         /\ Progress(f, n + 1, Matched(d, f[n + 1]))
<1> DEFINE c == f[n + 1]
<1>0. n \in Nat /\ d \in Nat /\ N \in Nat /\ N > 0 /\ d <= n /\ Len(f) \in Nat
  BY DelimFacts DEF Progress
<1>1. CASE c = Delim[d + 1]
  <2>1. Matched(d, c) = d + 1
    BY <1>1 DEF Matched
  <2>2. \A j \in 1 .. (d + 1) : f[(n + 1) - (d + 1) + j] = Delim[j]
    <3> SUFFICES ASSUME NEW j \in 1 .. (d + 1) PROVE f[n - d + j] = Delim[j]
      BY <1>0
    <3>1. CASE j = d + 1
      BY <1>0, <1>1, <3>1
    <3>2. CASE j # d + 1
      BY <1>0, <3>2 DEF Progress
    <3> QED
      BY <3>1, <3>2
  <2>3. \A k \in 0 .. ((n + 1) - (d + 1) - 1) : ~OccursAt(f, k)
    BY <1>0 DEF Progress
  <2> QED
    BY <1>0, <2>1, <2>2, <2>3 DEF Progress
<1>2. CASE c # Delim[d + 1]
  \* The start of the broken match, and the starts within it, are ruled out.
  <2>1. \A k \in 0 .. (n - 1) : ~OccursAt(f, k)
    <3> SUFFICES ASSUME NEW k \in 0 .. (n - 1), OccursAt(f, k) PROVE FALSE
      OBVIOUS
    <3>1. CASE k < n - d
      BY <1>0, <3>1 DEF Progress
    <3>2. CASE k = n - d
      <4>1. f[k + (d + 1)] = Delim[d + 1]
        BY <1>0 DEF OccursAt
      <4> QED
        BY <1>0, <1>2, <3>2, <4>1
    <3>3. CASE k > n - d
      <4> DEFINE m == k + 1 - (n - d)
      <4>1. m \in 2 .. d /\ m \in 2 .. N /\ n - d + m = k + 1
        BY <1>0, <3>3
      <4>2. f[k + 1] = Delim[m]
        BY <1>0, <4>1 DEF Progress
      <4>3. f[k + 1] = Delim[1]
        BY <1>0 DEF OccursAt
      <4> QED
        BY <4>1, <4>2, <4>3, DelimFacts
    <3> QED
      BY <1>0, <3>1, <3>2, <3>3
  <2>2. CASE c = Delim[1]
    <3>1. Matched(d, c) = 1
      BY <1>2, <2>2 DEF Matched
    <3> QED
      BY <1>0, <2>1, <2>2, <3>1 DEF Progress
  <2>3. CASE c # Delim[1]
    <3>1. Matched(d, c) = 0
      BY <1>2, <2>3 DEF Matched
    <3>2. ~OccursAt(f, n)
      <4>1. OccursAt(f, n) => f[n + 1] = Delim[1]
        BY <1>0 DEF OccursAt
      <4> QED
        BY <2>3, <4>1
    <3> QED
      BY <1>0, <2>1, <3>1, <3>2 DEF Progress
  <2> QED
    BY <2>2, <2>3
<1> QED
  BY <1>1, <1>2

-----------------------------------------------------------------------------
(* The inductive invariant.                                                *)

\* buf holds the file_index-th byte at i, and the bytes around it.
BufferIsWindow ==
  /\ Len(buf) <= pos
  /\ file_index = pos - Len(buf) + i
  /\ \A j \in 1 .. Len(buf) : buf[j] = file[pos - Len(buf) + j]
  /\ pc = "read" => i = Len(buf)

\* A short chunk without a fault is the end of the file.
ShortIsEnd ==
  pc = "scan" /\ ~faulty /\ Len(buf) # Chunk => pos = Len(file)

Scanning ==
  pc # "done" => delim_index < N /\ Progress(file, file_index, delim_index)

Returned ==
  pc = "done" => \/ /\ result > 0 /\ result >= N
                    /\ Progress(file, result, N)
                 \/ /\ result = -1
                    /\ ~faulty => /\ delim_index < N
                                  /\ Progress(file, Len(file), delim_index)

ScanInv ==
  /\ ScanTypeOK /\ BufferIsWindow /\ ShortIsEnd /\ Scanning /\ Returned
  /\ pc = "done" /\ result > 0 => result <= Len(file)

LEMMA TypeFacts ==
  ASSUME ScanTypeOK
  PROVE  /\ file \in Seq(Char) /\ Len(file) \in Nat
         /\ pos \in Nat /\ pos <= Len(file)
         /\ Len(buf) \in Nat /\ i \in Nat /\ i <= Len(buf)
         /\ Chunk \in Nat /\ Chunk > 0
BY FileAssumption, ChunkAssumption DEF ScanTypeOK

\* The bytes that a read of n bytes delivers.
LEMMA BytesRead ==
  ASSUME NEW f \in Seq(Char), NEW q \in Nat, NEW n \in Nat, q + n <= Len(f)
  PROVE  /\ SubSeq(f, q + 1, q + n) \in Seq(Char)
         /\ Len(SubSeq(f, q + 1, q + n)) = n
         /\ \A j \in 1 .. n : SubSeq(f, q + 1, q + n)[j] = f[q + j]
<1>1. \A j \in (q + 1) .. (q + n) : f[j] \in Char
  OBVIOUS
<1> DEFINE s == SubSeq(f, q + 1, q + n)
<1>2. /\ s \in Seq(Char)
      /\ Len(s) = IF q + 1 <= q + n THEN (q + n) - (q + 1) + 1 ELSE 0
      /\ \A j \in 1 .. ((q + n) - (q + 1) + 1) : s[j] = f[(q + 1) + j - 1]
  BY <1>1, SubSeqProperties
<1> HIDE DEF s
<1>3. Len(s) = n
  BY <1>2
<1>4. \A j \in 1 .. n : s[j] = f[q + j]
  BY <1>2
<1> QED
  BY <1>2, <1>3, <1>4 DEF s

LEMMA InitScanInv == ScanInit => ScanInv
<1> SUFFICES ASSUME ScanInit PROVE ScanInv
  OBVIOUS
<1>1. file \in Seq(Char) /\ Len(file) \in Nat
  BY FileAssumption DEF ScanInit
<1>2. buf \in Seq(Char) /\ Len(buf) = 0
  BY EmptySeq DEF ScanInit
<1>a. /\ file \in File /\ pos = 0 /\ pc = "read" /\ i = 0 /\ file_index = 0
      /\ delim_index = 0 /\ result = 0 /\ faulty = FALSE
  BY DEF ScanInit
<1>3. ScanTypeOK
  <2>1. 0 \in Nat /\ 0 \in Int /\ 0 \in 0 .. Len(file) /\ 0 \in 0 .. Len(buf) /\ 0 \in 0 .. N
    BY <1>1, <1>2, DelimFacts
  <2>2. faulty \in BOOLEAN
    BY <1>a
  <2> QED
    BY <1>2, <1>a, <2>1, <2>2, Zenon DEF ScanTypeOK
<1>4. BufferIsWindow
  BY <1>2, <1>a DEF BufferIsWindow
<1>5. ShortIsEnd /\ Scanning /\ Returned
  BY DelimFacts DEF ScanInit, ShortIsEnd, Scanning, Returned, Progress
<1> QED
  BY <1>3, <1>4, <1>5 DEF ScanInit, ScanInv

LEMMA NextScanInv == ScanInv /\ [ScanNext]_scanVars => ScanInv'
<1> SUFFICES ASSUME ScanInv, [ScanNext]_scanVars PROVE ScanInv'
  OBVIOUS
<1>0. ScanTypeOK
  BY DEF ScanInv
<1> USE TypeFacts, DelimFacts
<1>1. CASE Read
  <2>1. PICK n \in 0 .. Available : /\ buf' = SubSeq(file, pos + 1, pos + n)
                                    /\ pos' = pos + n
                                    /\ faulty' = (faulty \/ n < Available)
    BY <1>1 DEF Read
  <2>2. Available \in Nat /\ Available <= Len(file) - pos /\ Available <= Chunk
        /\ (Available # Chunk => Available = Len(file) - pos)
    BY <1>0 DEF Available
  <2>3. n \in Nat /\ pos + n <= Len(file)
    BY <1>0, <2>2
  <2>4. /\ buf' \in Seq(Char) /\ Len(buf') = n
        /\ \A j \in 1 .. n : buf'[j] = file[pos + j]
    <3>1. file \in Seq(Char) /\ pos \in Nat
      BY <1>0
    <3>2. buf' = SubSeq(file, pos + 1, pos + n)
      BY <2>1
    <3> QED
      BY <2>3, <3>1, <3>2, BytesRead
  <2>5. ScanTypeOK'
    BY <1>0, <1>1, <2>1, <2>3, <2>4 DEF Read, ScanTypeOK
  <2>6. file_index = pos
    <3>1. pc = "read"
      BY <1>1 DEF Read
    <3>2. file_index = pos - Len(buf) + i /\ i = Len(buf)
      BY <3>1 DEF ScanInv, BufferIsWindow
    <3> QED
      BY <1>0, <3>2
  <2>7. BufferIsWindow'
    <3>1. /\ i' = 0 /\ pc' = "scan" /\ file' = file /\ file_index' = file_index
      BY <1>1 DEF Read
    <3>2. pos' = pos + n /\ pos \in Nat
      BY <1>0, <2>1
    <3>3. pos' - Len(buf') = pos /\ Len(buf') <= pos'
      BY <2>3, <2>4, <3>2
    <3> QED
      BY <2>4, <2>6, <3>1, <3>2, <3>3 DEF BufferIsWindow
  <2>8. ShortIsEnd'
    <3>1. ~faulty' => ~(n < Available)
      BY <2>1
    <3>2. ~(n < Available) => n = Available
      BY <2>2
    <3> DEFINE m == Len(buf')
    <3>a. m = n /\ pos' = pos + n
      BY <2>1, <2>4
    <3> HIDE DEF m
    <3>3. n = Available /\ m # Chunk => pos' = Len(file)
      BY <1>0, <2>2, <3>a
    <3>4. file' = file
      BY <1>1 DEF Read
    <3> QED
      BY <3>1, <3>2, <3>3, <3>4 DEF ShortIsEnd, m
  <2>9. Scanning' /\ Returned'
    BY <1>1 DEF ScanInv, Scanning, Returned, Read
  <2> QED
    BY <1>1, <2>5, <2>7, <2>8, <2>9 DEF ScanInv, Read
<1>2. CASE ReadFails
  <2>1. ScanTypeOK'
    BY <1>0, <1>2 DEF ReadFails, Return, ScanTypeOK
  <2>2. BufferIsWindow' /\ ShortIsEnd' /\ Scanning' /\ Returned'
    BY <1>2 DEF ReadFails, Return, ScanInv, BufferIsWindow, ShortIsEnd, Scanning,
                Returned
  <2> QED
    BY <1>2, <2>1, <2>2 DEF ScanInv, ReadFails, Return
<1>3. CASE ScanByte
  <2> DEFINE d == Matched(delim_index, buf[i + 1])
  <2>1. /\ i < Len(buf) /\ delim_index' = d
        /\ UNCHANGED <<file, pos, buf, faulty>> /\ pc = "scan"
    BY <1>3 DEF ScanByte
  <2>2. /\ file_index \in 0 .. (Len(file) - 1)
        /\ buf[i + 1] = file[file_index + 1]
    <3>1. /\ Len(buf) <= pos /\ file_index = pos - Len(buf) + i
          /\ \A j \in 1 .. Len(buf) : buf[j] = file[pos - Len(buf) + j]
      BY DEF ScanInv, BufferIsWindow
    <3>2. i + 1 \in 1 .. Len(buf) /\ pos - Len(buf) + (i + 1) = file_index + 1
      BY <1>0, <2>1, <3>1
    <3>3. buf[i + 1] = file[pos - Len(buf) + (i + 1)]
      BY ONLY <3>1, <3>2, Zenon
    <3>4. buf[i + 1] = file[file_index + 1]
      BY ONLY <3>2, <3>3, Zenon
    <3>5. file_index \in 0 .. (Len(file) - 1)
      <4>1. i < Len(buf) /\ Len(buf) <= pos /\ file_index = pos - Len(buf) + i
        BY <2>1, <3>1
      <4> HIDE DEF d
      <4>2. /\ Len(file) \in Nat /\ pos \in Nat /\ pos <= Len(file)
            /\ Len(buf) \in Nat /\ i \in Nat
        BY <1>0, TypeFacts
      <4> QED
        BY ONLY <4>1, <4>2
    <3> QED
      BY <3>4, <3>5
  <2>3. delim_index \in 0 .. (N - 1) /\ Progress(file, file_index, delim_index)
    BY <1>0, <2>1 DEF ScanInv, Scanning, ScanTypeOK
  <2>4. d \in 0 .. N /\ Progress(file, file_index + 1, d)
    BY <1>0, <2>2, <2>3, MatchedKeepsProgress
  <2>5. CASE /\ delim_index' >= N /\ Return(file_index + 1)
             /\ UNCHANGED <<i, file_index>>
    <3>1. d = N /\ result' = file_index + 1 /\ pc' = "done"
      BY <2>1, <2>4, <2>5 DEF Return
    <3>2. ScanTypeOK'
      BY <1>0, <2>1, <2>2, <2>4, <2>5, <3>1 DEF ScanTypeOK
    <3>3. BufferIsWindow' /\ ShortIsEnd' /\ Scanning'
      BY <2>1, <2>5, <3>1 DEF ScanInv, BufferIsWindow, ShortIsEnd, Scanning
    <3>4. Progress(file', result', N) /\ result' >= N /\ result' > 0
      BY <2>1, <2>2, <2>4, <3>1 DEF Progress
    <3>5. result' <= Len(file')
      BY <1>0, <2>1, <2>2, <3>1
    <3> QED
      BY <3>2, <3>3, <3>4, <3>5 DEF ScanInv, Returned
  <2>6. CASE /\ delim_index' < N /\ i' = i + 1 /\ file_index' = file_index + 1
             /\ UNCHANGED <<pc, result>>
    <3>1. ScanTypeOK'
      BY <1>0, <2>1, <2>2, <2>4, <2>6 DEF ScanTypeOK
    <3>2. BufferIsWindow'
      BY <1>0, <2>1, <2>6 DEF ScanInv, BufferIsWindow
    <3>3. ShortIsEnd'
      BY <2>1, <2>6 DEF ScanInv, ShortIsEnd
    <3>4. Scanning'
      BY <2>1, <2>4, <2>6 DEF Scanning
    <3>5. pc' # "done"
      BY <2>1, <2>6
    <3> QED
      BY <3>1, <3>2, <3>3, <3>4, <3>5 DEF ScanInv, Returned
  <2> QED
    BY <1>3, <2>5, <2>6 DEF ScanByte
<1>4. CASE ChunkDone
  <2>1. /\ pc = "scan" /\ i = Len(buf)
        /\ UNCHANGED <<file, pos, buf, i, file_index, delim_index, faulty>>
    BY <1>4 DEF ChunkDone
  <2>2. delim_index < N /\ Progress(file, file_index, delim_index)
    BY <2>1 DEF ScanInv, Scanning
  <2>3. file_index = pos
    BY <1>0, <2>1 DEF ScanInv, BufferIsWindow
  <2>4. CASE Len(buf) # Chunk /\ Return(-1)
    <3>1. ScanTypeOK'
      BY <1>0, <2>1, <2>4 DEF ScanTypeOK, Return
    <3>2. BufferIsWindow' /\ ShortIsEnd' /\ Scanning'
      BY <2>1, <2>4 DEF ScanInv, BufferIsWindow, ShortIsEnd, Scanning, Return
    <3>3. ~faulty => file_index = Len(file)
      BY <2>1, <2>3, <2>4 DEF ScanInv, ShortIsEnd
    <3>4. Returned'
      BY <2>1, <2>2, <2>4, <3>3 DEF Returned, Return
    <3> QED
      BY <2>4, <3>1, <3>2, <3>4 DEF ScanInv, Return
  <2>5. CASE Len(buf) = Chunk /\ pc' = "read" /\ UNCHANGED result
    <3>1. ScanTypeOK'
      BY <1>0, <2>1, <2>5 DEF ScanTypeOK
    <3>2. BufferIsWindow' /\ ShortIsEnd' /\ Scanning' /\ Returned'
      BY <2>1, <2>2, <2>5
      DEF ScanInv, BufferIsWindow, ShortIsEnd, Scanning, Returned
    <3> QED
      BY <2>5, <3>1, <3>2 DEF ScanInv
  <2> QED
    BY <1>4, <2>4, <2>5 DEF ChunkDone
<1>5. CASE UNCHANGED scanVars
  BY <1>5 DEF scanVars, ScanInv, ScanTypeOK, BufferIsWindow, ShortIsEnd, Scanning, Returned
<1> QED
  BY <1>1, <1>2, <1>3, <1>4, <1>5 DEF ScanNext

LEMMA ScanInvariance == ScanSpec => []ScanInv
BY InitScanInv, NextScanInv, PTL DEF ScanSpec

-----------------------------------------------------------------------------
(* The theorems.                                                           *)

\* The scan never indexes outside its chunk or its delimiter.
THEOREM ScanTypeCorrect == ScanSpec => []ScanTypeOK
<1>1. ScanInv => ScanTypeOK
  BY DEF ScanInv
<1> QED
  BY <1>1, ScanInvariance, PTL

LEMMA FoundStep == ScanInv => FoundIsFirst
<1> SUFFICES ASSUME ScanInv, pc = "done", result > 0
             PROVE  /\ OccursAt(file, result - N)
                    /\ \A k \in 0 .. (result - N - 1) : ~OccursAt(file, k)
  BY DEF FoundIsFirst
<1>1. ScanTypeOK /\ result <= Len(file) /\ result \in Nat
  BY DEF ScanInv, ScanTypeOK
<1>2. Progress(file, result, N) /\ result >= N
  BY DEF ScanInv, Returned
<1>3. file \in Seq(Char) /\ Len(file) \in Nat
  BY <1>1, TypeFacts
<1>4. result - N \in 0 .. (Len(file) - N)
  BY <1>1, <1>2, <1>3, DelimFacts
<1>5. \A j \in 1 .. N : file[(result - N) + j] = Delim[j]
  BY <1>2 DEF Progress
<1> QED
  BY <1>2, <1>4, <1>5 DEF Progress, OccursAt

LEMMA NotFoundStep == ScanInv => NotFoundIsAbsent
<1> SUFFICES ASSUME ScanInv, pc = "done", result <= 0
             PROVE  /\ result = -1
                    /\ ~faulty => \A k \in 0 .. Len(file) : ~OccursAt(file, k)
  BY DEF NotFoundIsAbsent
<1>1. ScanTypeOK /\ result \in Int
  BY DEF ScanInv, ScanTypeOK
<1>2. /\ result = -1
      /\ ~faulty => delim_index < N /\ Progress(file, Len(file), delim_index)
  BY <1>1 DEF ScanInv, Returned
<1>3. ASSUME ~faulty, NEW k \in 0 .. Len(file), OccursAt(file, k) PROVE FALSE
  <2>1. k <= Len(file) - N
    BY <1>1, TypeFacts, DelimFacts, <1>3 DEF OccursAt
  <2>2. k \in 0 .. (Len(file) - delim_index - 1)
    BY <1>1, <1>2, <1>3, <2>1, TypeFacts, DelimFacts DEF ScanTypeOK
  <2> QED
    BY <1>2, <1>3, <2>2 DEF Progress
<1> QED
  BY <1>2, <1>3

\* The offset returned is the end of the first delimiter of the file.
THEOREM FirstDelimiterFound == ScanSpec => []FoundIsFirst
BY FoundStep, ScanInvariance, PTL

\* The result -1 of an undisturbed scan means that there is no delimiter.
THEOREM AbsenceReported == ScanSpec => []NotFoundIsAbsent
BY NotFoundStep, ScanInvariance, PTL

\* Two delimiters never overlap.
LEMMA NoOverlap ==
  ASSUME NEW f \in Seq(Char), NEW k, NEW m, OccursAt(f, k), OccursAt(f, m), k < m
  PROVE  k + N <= m
<1> SUFFICES ASSUME m < k + N PROVE FALSE
  BY DelimFacts DEF OccursAt
<1> DEFINE j == m - k + 1
<1>1. j \in 2 .. N /\ k + j = m + 1
  BY DelimFacts DEF OccursAt
<1>2. f[m + 1] = Delim[j] /\ f[m + 1] = Delim[1]
  BY <1>1, DelimFacts DEF OccursAt
<1> QED
  BY <1>1, <1>2, DelimFacts

\* A log file is split where the embedded specification and its delimiter end.
THEOREM LogFileSplit == ScanSpec => []LogIsSplit
<1>1. ScanInv => LogIsSplit
  <2> SUFFICES ASSUME ScanInv, pc = "done", ~faulty, NEW m \in 0 .. Len(file),
                      OccursAt(file, m),
                      \A k \in 0 .. (m - N) : ~OccursAt(file, k)
               PROVE  result = m + N
    BY DEF LogIsSplit
  <2>1. ScanTypeOK /\ FoundIsFirst /\ NotFoundIsAbsent /\ result \in Int
    BY FoundStep, NotFoundStep DEF ScanInv, ScanTypeOK
  <2>2. result > 0
    BY <2>1 DEF NotFoundIsAbsent
  <2> DEFINE s == result - N
  <2>3. OccursAt(file, s) /\ \A k \in 0 .. (s - 1) : ~OccursAt(file, k)
    BY <2>1, <2>2 DEF FoundIsFirst
  <2>4. s \in Nat /\ m \in Nat
    BY <2>1, <2>3, TypeFacts, DelimFacts DEF OccursAt
  <2>5. ~(m < s)
    BY <2>3, <2>4
  <2>6. ~(s < m)
    <3> SUFFICES ASSUME s < m PROVE FALSE
      OBVIOUS
    <3>1. s + N <= m
      BY <2>1, <2>3, NoOverlap, TypeFacts
    <3> QED
      BY <2>3, <2>4, <3>1, DelimFacts
  <2> QED
    BY <2>1, <2>4, <2>5, <2>6, DelimFacts
<1> QED
  BY <1>1, ScanInvariance, PTL

=============================================================================
