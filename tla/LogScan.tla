------------------------------ MODULE LogScan ------------------------------
(***************************************************************************)
(* SsFindLogDelimiter: the generated reader of a log file looks for the    *)
(* delimiter that separates the embedded specification from the records.   *)
(* It reads the file in chunks, and one step of the model scans one byte.  *)
(* SsReadFile may be the fread of src/logging.c or another port's.         *)
(***************************************************************************)
EXTENDS Integers, Sequences

CONSTANTS
  Char,       \* bytes
  Delim,      \* kSsLogDelimiter, without its final NUL
  Chunk,      \* sizeof(buf): 4 * kDelimLen in the generated code
  File        \* what may be left of the file from where the stream stands

\* The first byte of the delimiter, the S of "SsLogFileDelimiter", occurs
\* nowhere else in it.
ASSUME DelimAssumption ==
  /\ Delim \in Seq(Char) /\ Delim # <<>>
  /\ \A j \in 2 .. Len(Delim) : Delim[j] # Delim[1]

ASSUME ChunkAssumption == Chunk \in Nat /\ Chunk > 0

ASSUME FileAssumption == File \subseteq Seq(Char)

N == Len(Delim)

VARIABLES
  file,         \* the bytes of the file
  pos,          \* bytes the stream has delivered
  pc,           \* "read", "scan" or "done"
  buf,          \* the bytes of buf that the latest read filled
  i,            \* index into buf
  file_index,
  delim_index,
  result,       \* what SsFindLogDelimiter returned
  faulty        \* history: some read delivered less than it could

scanVars == <<file, pos, pc, buf, i, file_index, delim_index, result, faulty>>

ScanInit ==
  /\ file \in File
  /\ pos = 0
  /\ pc = "read"
  /\ buf = <<>>
  /\ i = 0
  /\ file_index = 0
  /\ delim_index = 0
  /\ result = 0
  /\ faulty = FALSE

Return(r) == result' = r /\ pc' = "done"

Available == IF Len(file) - pos < Chunk THEN Len(file) - pos ELSE Chunk

\* Mutant: a partial match is forgotten at the end of a chunk.
ReadAfresh ==
  /\ pc = "read"
  /\ \E n \in 0 .. Available :
       /\ buf' = SubSeq(file, pos + 1, pos + n)
       /\ pos' = pos + n
       /\ faulty' = (faulty \/ n < Available)
  /\ i' = 0 /\ delim_index' = 0
  /\ pc' = "scan"
  /\ UNCHANGED <<file, file_index, result>>

\* Mutant: the index into the chunk is not reset.
ReadKeepingIndex ==
  /\ pc = "read"
  /\ buf' = SubSeq(file, pos + 1, pos + Available)
  /\ pos' = pos + Available
  /\ pc' = "scan"
  /\ UNCHANGED <<file, i, file_index, delim_index, result, faulty>>

\* const int ret = SsReadFile(fd, buf, sizeof(buf)), with ret >= 0.
Read ==
  /\ pc = "read"
  /\ \E n \in 0 .. Available :
       /\ buf' = SubSeq(file, pos + 1, pos + n)
       /\ pos' = pos + n
       /\ faulty' = (faulty \/ n < Available)
  /\ i' = 0
  /\ pc' = "scan"
  /\ UNCHANGED <<file, file_index, delim_index, result>>

\* if (ret < 0) return ret.
ReadFails ==
  /\ pc = "read"
  /\ Return(-1)
  /\ faulty' = TRUE
  /\ UNCHANGED <<file, pos, buf, i, file_index, delim_index>>

\* Mutants: a mismatch does not reset the match; a mismatched byte is not tried
\* as the first of a new match.
MatchedOn(k, c) == IF c = Delim[k + 1] THEN k + 1 ELSE k
MatchedNoRetry(k, c) == IF c = Delim[k + 1] THEN k + 1 ELSE 0

\* The length of the delimiter prefix matched after byte c, when k were before:
\* a mismatch starts over, with c as the first candidate.
Matched(k, c) ==
  LET start == IF c # Delim[k + 1] THEN 0 ELSE k
  IN  IF c = Delim[start + 1] THEN start + 1 ELSE start

\* One iteration of the for loop.
ScanByte ==
  /\ pc = "scan"
  /\ i < Len(buf)
  /\ delim_index' = Matched(delim_index, buf[i + 1])
  /\ \/ /\ delim_index' >= N
        /\ Return(file_index + 1)
        /\ UNCHANGED <<i, file_index>>
     \/ /\ delim_index' < N
        /\ i' = i + 1
        /\ file_index' = file_index + 1
        /\ UNCHANGED <<pc, result>>
  /\ UNCHANGED <<file, pos, buf, faulty>>

\* Mutant: the end of the file is not noticed.
ChunkDoneReadOn ==
  /\ pc = "scan"
  /\ i = Len(buf)
  /\ pc' = "read"
  /\ UNCHANGED <<file, pos, buf, i, file_index, delim_index, result, faulty>>

\* if (ret != sizeof(buf)) return -1; otherwise read on.
ChunkDone ==
  /\ pc = "scan"
  /\ i = Len(buf)
  /\ \/ /\ Len(buf) # Chunk
        /\ Return(-1)
     \/ /\ Len(buf) = Chunk
        /\ pc' = "read"
        /\ UNCHANGED result
  /\ UNCHANGED <<file, pos, buf, i, file_index, delim_index, faulty>>

ScanNext == Read \/ ReadFails \/ ScanByte \/ ChunkDone

\* The function runs to its return; nothing is assumed of the reads.
ScanSpec == ScanInit /\ [][ScanNext]_scanVars /\ WF_scanVars(ScanNext)

-----------------------------------------------------------------------------
(* Properties.                                                             *)

\* The variables keep their types.
ScanTypeOK ==
  /\ file \in File
  /\ pos \in 0 .. Len(file)
  /\ pc \in {"read", "scan", "done"}
  /\ buf \in Seq(Char)
  /\ i \in 0 .. Len(buf)
  /\ file_index \in Nat
  /\ delim_index \in 0 .. N
  /\ result \in Int
  /\ faulty \in BOOLEAN

\* The delimiter stands in the file after its first k bytes.
OccursAt(f, k) ==
  /\ k \in 0 .. (Len(f) - N)
  /\ \A j \in 1 .. N : f[k + j] = Delim[j]

\* A positive result is the offset just after the first delimiter of the file,
\* although the scan never goes back after a partial match and a delimiter may
\* lie across two chunks.
FoundIsFirst ==
  pc = "done" /\ result > 0 =>
    /\ OccursAt(file, result - N)
    /\ \A k \in 0 .. (result - N - 1) : ~OccursAt(file, k)

\* A negative result means, when every read delivered what it could, that the
\* file holds no delimiter; and there is no third kind of result.
NotFoundIsAbsent ==
  pc = "done" /\ result <= 0 =>
    /\ result = -1
    /\ ~faulty => \A k \in 0 .. Len(file) : ~OccursAt(file, k)

\* A log written as an embedded specification, the delimiter and the records
\* is split at the end of the delimiter, whatever bytes the records hold, when
\* the specification does not hold the delimiter itself.
LogIsSplit ==
  pc = "done" /\ ~faulty =>
    \A m \in 0 .. Len(file) :
      (/\ OccursAt(file, m)
       /\ \A k \in 0 .. (m - N) : ~OccursAt(file, k)) => result = m + N

\* The search ends, found or not.
Terminates == <>(pc = "done")
=============================================================================
