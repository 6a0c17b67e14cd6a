------------------------------- MODULE Logger -------------------------------
(***************************************************************************)
(* The Python Logger: an object that owns a C stream (a FILE of stdio),    *)
(* writes the log header through SsWriteLogHeader and messages through     *)
(* SsLogX, and closes the stream.  The stream buffers what it is given;    *)
(* its process may be killed, and a write may fail.                        *)
(*                                                                         *)
(* The bytes of a log are abstracted to units: those of the header (the    *)
(* embedded specification), of the delimiter, and of each record, which is *)
(* a packed message.                                                       *)
(***************************************************************************)
EXTENDS Integers, Sequences, SequencesExt

CONSTANTS
  Record,      \* messages to log
  Setting,     \* [client, write, close]: a client that uses only "with logger:"
               \* blocks ("with") or makes any calls ("free"); how SsWriteFile
               \* fails: not, with an error and nothing written ("whole"), or
               \* with a short count, as fwrite ("short"); may fclose fail
  MaxOpen,     \* bound: streams opened
  MaxLog       \* bound: records logged between two opens

ASSUME LoggerAssumption ==
  /\ Setting \subseteq [client : {"with", "free"}, write : {"none", "whole", "short"},
                        close : BOOLEAN]
  /\ MaxOpen \in Nat /\ MaxLog \in Nat

Header == <<"header1", "header2">>
Delimiter == <<"delimiter">>
Hole == "hole"
Packed(r) == <<<<r, 1>>, <<r, 2>>>>

VARIABLES
  setting,    \* the client and the faults
  file_p,     \* the stream the Logger owns, or None
  stream,     \* stream[h]: the FILE h, allocated by fopen, freed by fclose
  disk,       \* the contents of the file
  proc,       \* "running", "exited" or "undefined" after a use of a freed FILE
  within,     \* whether the client is inside its "with" block
  \* History, for the properties:
  logged,     \* the records log() accepted since the latest fopen
  faults,     \* what went wrong since the latest fopen
  closed      \* the latest close() returned without an error

vars == <<setting, file_p, stream, disk, proc, within, logged, faults, closed>>

None == 0
Handle == 1 .. MaxOpen
Free == [state |-> "free", buf |-> <<>>, off |-> 0]
Opened == [state |-> "open", buf |-> <<>>, off |-> 0]

IsOpen(f) == f.state = "open"

FaultKind == {"header", "write", "close", "reopen"}

\* Records one after the other, each of two units.
Records(rs) == [k \in 1 .. (2 * Len(rs)) |-> Packed(rs[(k + 1) \div 2])[2 - (k % 2)]]

\* The log the calls so far should have made.
Intended == Header \o Delimiter \o Records(logged)

-----------------------------------------------------------------------------
(* The stream.                                                             *)

\* The contents d after s was written over it from offset off.
Overwrite(d, off, s) ==
  [k \in 1 .. (IF Len(d) > off + Len(s) THEN Len(d) ELSE off + Len(s)) |->
     IF k \in (off + 1) .. (off + Len(s)) THEN s[k - off]
     ELSE IF k <= Len(d) THEN d[k] ELSE Hole]

Flushed(f, n) ==
  [f EXCEPT !.buf = SubSeq(f.buf, n + 1, Len(f.buf)), !.off = f.off + n]

\* What a call of SsWriteFile that is to write s may return.
WriteResults(s) ==
  CASE setting.write = "none"  -> {Len(s)}
    [] setting.write = "whole" -> {Len(s), -1}
    [] setting.write = "short" -> 0 .. Len(s)

Taken(f, s, n) ==
  IF n < 0 THEN f ELSE [f EXCEPT !.buf = @ \o SubSeq(s, 1, n)]

\* Mutants: the delimiter is written although the specification was not; the
\* result of writing the delimiter is not checked; the order is swapped.
HeaderWriteOn(y, d) ==
  [file |-> Taken(Taken(Opened, Header, y), Delimiter, d), ret |-> y + d]
HeaderWriteUnchecked(y, d) ==
  LET f == Taken(Opened, Header, y)
  IN  IF y < 0 THEN [file |-> f, ret |-> -1]
      ELSE [file |-> Taken(f, Delimiter, d), ret |-> y]
HeaderWriteSwapped(y, d) ==
  LET f == Taken(Opened, Delimiter, d)
  IN  IF y < 0 \/ d < 0 THEN [file |-> f, ret |-> -1]
      ELSE [file |-> Taken(f, Header, y), ret |-> y + d]

\* SsWriteLogHeader on a fresh stream, when its two writes return y and d: an
\* error is returned at once, else the sum.
HeaderWrite(y, d) ==
  LET f == Taken(Opened, Header, y)
  IN  IF y < 0 \/ d < 0 THEN [file |-> f, ret |-> -1]
      ELSE [file |-> Taken(f, Delimiter, d), ret |-> y + d]

-----------------------------------------------------------------------------
(* The calls of the client.                                                *)

Init ==
  /\ setting \in Setting
  /\ file_p = None
  /\ stream = [h \in Handle |-> Free]
  /\ disk = <<>>
  /\ proc = "running"
  /\ within = FALSE
  /\ logged = <<>>
  /\ faults = {}
  /\ closed = FALSE

Unused == {h \in Handle : stream[h] = Free}

\* SsWriteLogHeader on the stream h that fopen has just made, of a file it has
\* just truncated: the Logger holds h whether or not the header is written.
OpenOn(h) ==
  /\ \E y \in WriteResults(Header), d \in WriteResults(Delimiter) :
       LET w == HeaderWrite(y, d)
       IN  /\ stream' = [stream EXCEPT ![h] = w.file]
           /\ within' = (w.ret > 0)
           /\ faults' = {k \in FaultKind :
                           \/ k = "header" /\ w.ret # Len(Header) + Len(Delimiter)
                           \/ k = "reopen" /\ \E j \in Handle : IsOpen(stream[j])}
  /\ file_p' = h
  /\ disk' = <<>>
  /\ logged' = <<>>
  /\ closed' = FALSE
  /\ UNCHANGED <<setting, proc>>

\* open(): when the header cannot be written OSError is raised, which leaves the
\* client outside its block.
Open ==
  /\ proc = "running"
  /\ setting.client = "with" => ~within
  /\ Unused # {}
  /\ OpenOn(CHOOSE h \in Unused : TRUE)

\* log(msg): RuntimeError without a stream; otherwise SsLogX packs the message
\* and writes it, and a result of zero or less is a RuntimeError.
Log ==
  /\ proc = "running"
  /\ setting.client = "with" => within
  /\ Len(logged) < MaxLog
  /\ file_p # None
  /\ \/ /\ IsOpen(stream[file_p])
        /\ \E r \in Record : \E n \in WriteResults(Packed(r)) :
             /\ stream' = [stream EXCEPT ![file_p] = Taken(@, Packed(r), n)]
             /\ logged' = IF n > 0 THEN Append(logged, r) ELSE logged
             /\ faults' = IF n = Len(Packed(r)) THEN faults
                          ELSE faults \cup {"write"}
        /\ UNCHANGED proc
     \/ /\ ~IsOpen(stream[file_p])
        /\ proc' = "undefined"
        /\ UNCHANGED <<stream, logged, faults>>
  /\ UNCHANGED <<setting, file_p, disk, within, closed>>

\* Mutant: the FILE is handed out again at once.
RecycledStream(f, n) == Free

\* The stream f after fclose wrote out n units of its buffer and freed it.
ClosedStream(f, n) == [Flushed(f, n) EXCEPT !.state = "freed"]

\* Mutant: file_p is not cleared.
FcloseKeeping(n) ==
  LET f == stream[file_p]
  IN  /\ disk' = Overwrite(disk, f.off, SubSeq(f.buf, 1, n))
      /\ stream' = [stream EXCEPT ![file_p] = ClosedStream(f, n)]
      /\ n = Len(f.buf) /\ closed' = TRUE
      /\ UNCHANGED <<file_p, faults>>

\* fclose(self.file_p) when stdio writes out n units, and what close() does
\* after it: the FILE is freed whether or not fclose succeeds, but when it
\* fails OSError is raised before file_p is cleared.
Fclose(n) ==
  LET f == stream[file_p]
  IN  /\ disk' = Overwrite(disk, f.off, SubSeq(f.buf, 1, n))
      /\ stream' = [stream EXCEPT ![file_p] = ClosedStream(f, n)]
      /\ \/ /\ n = Len(f.buf)
            /\ file_p' = None /\ closed' = TRUE
            /\ UNCHANGED faults
         \/ /\ setting.close
            /\ faults' = faults \cup {"close"}
            /\ UNCHANGED <<file_p, closed>>

\* close().
Close ==
  /\ proc = "running"
  /\ setting.client = "with" => within
  /\ within' = FALSE
  /\ \/ /\ file_p = None
        /\ UNCHANGED <<file_p, stream, disk, proc, faults, closed>>
     \/ /\ file_p # None /\ ~IsOpen(stream[file_p])
        /\ proc' = "undefined"
        /\ UNCHANGED <<file_p, stream, disk, faults, closed>>
     \/ /\ file_p # None /\ IsOpen(stream[file_p])
        /\ \E n \in 0 .. Len(stream[file_p].buf) : Fclose(n)
        /\ UNCHANGED proc
  /\ UNCHANGED <<setting, logged>>

-----------------------------------------------------------------------------
(* What happens around the calls.                                          *)

\* stdio writes out part of the buffer of a stream, also of one that the
\* Logger has forgotten: when the buffer is full, or at the exit.
Flush ==
  /\ proc = "running"
  /\ \E h \in Handle :
       LET f == stream[h]
       IN  /\ IsOpen(f)
           /\ \E n \in 1 .. Len(f.buf) :
                /\ disk' = Overwrite(disk, f.off, SubSeq(f.buf, 1, n))
                /\ stream' = [stream EXCEPT ![h] = Flushed(f, n)]
  /\ UNCHANGED <<setting, file_p, proc, within, logged, faults, closed>>

\* The process ends, killed or by itself: what is still buffered is lost.
Exit ==
  /\ proc = "running"
  /\ proc' = "exited"
  /\ UNCHANGED <<setting, file_p, stream, disk, within, logged, faults, closed>>

Next == Open \/ Log \/ Close \/ Flush \/ Exit

Spec == Init /\ [][Next]_vars

-----------------------------------------------------------------------------
(* Properties.                                                             *)

Unit == {Header[k] : k \in DOMAIN Header} \cup {Delimiter[1], Hole}
          \cup (Record \X {1, 2})

\* The variables keep their types, and the stream that the Logger owns was
\* once opened.
TypeOK ==
  /\ setting \in Setting
  /\ file_p \in Handle \cup {None}
  /\ \A h \in Handle :
       /\ stream[h].state \in {"free", "open", "freed"}
       /\ stream[h].buf \in Seq(Unit) /\ stream[h].off \in Nat
  /\ file_p # None => stream[file_p] # Free
  /\ disk \in Seq(Unit)
  /\ proc \in {"running", "exited", "undefined"}
  /\ within \in BOOLEAN /\ closed \in BOOLEAN
  /\ logged \in Seq(Record)
  /\ faults \subseteq FaultKind

\* Writes that fail report an error.
Reported == setting.write # "short"

\* Whenever the process dies, the file holds the header, the delimiter and the
\* accepted records in order, cut at one point: a reader loses at most its tail.
\* There are two exceptions.  A file opened while a stream of an earlier open is
\* still around, such as the one open() forgets when the header cannot be written:
\* that stream may yet be flushed over the file.  And a Logger whose open() has
\* raised, which nevertheless owns a stream, and logs to it if it is asked to.
TornOnlyAtEnd ==
  /\ Reported /\ "reopen" \notin faults
  /\ setting.client = "with" \/ "header" \notin faults
  => IsPrefix(disk, Intended)

\* A log that was closed without an error holds every record that log()
\* accepted, whole, after the whole header and delimiter.
ClosedLogIsComplete == closed => disk = Intended

\* So it is for a client that only uses "with" blocks if failing writes report an
\* error: whichever of them failed, and whatever happened to earlier streams.
WithBlockLogIsComplete == setting.client = "with" /\ Reported => ClosedLogIsComplete

\* For any sequence of calls, the two guarantees on the file hold as long as no
\* write fell short, no fclose failed and no open was made over another.
SoundUnlessFaulty == faults = {} => IsPrefix(disk, Intended) /\ ClosedLogIsComplete

\* Only calls outside a "with" block, after a close() that raised, hand a freed FILE
\* to stdio: close() leaves file_p set when fclose fails, and __exit__ is the last
\* call of a block.
DeadHandleAfterFailedClose ==
  proc = "undefined" => setting.client = "free" /\ "close" \in faults
=============================================================================
