---------------------------- MODULE CappedBuffer ----------------------------
(***************************************************************************)
(* cappedBuffer (src/internal/pipery/capped_buffer.go), the writer behind  *)
(* the stdin, stdout and stderr fields of a log entry: it keeps the first  *)
(* `limit` bytes of what is written to it and says whether there were more.*)
(***************************************************************************)
EXTENDS Integers, Sequences

CONSTANTS
  Byte,      \* what a stream is made of
  Limits,    \* values of -max-capture-bytes, and what a caller may pass
  Chunks,    \* arguments of Write
  MaxTotal   \* BOUND: bytes written in one behaviour

ASSUME LimitsAssumption == Limits \subseteq Int
ASSUME ChunksAssumption == Chunks \subseteq Seq(Byte)
ASSUME MaxTotalAssumption == MaxTotal \in Nat

VARIABLES
  limit, buf, totalBytes, truncated,  \* the struct
  stream                              \* history: everything written

vars == <<limit, buf, totalBytes, truncated, stream>>

\* newCappedBuffer
Init ==
  /\ limit \in Limits
  /\ buf = <<>> /\ totalBytes = 0 /\ truncated = FALSE
  /\ stream = <<>>

Remaining == limit - Len(buf)

\* Write counts its whole argument, and claims to have taken it, on every path.
Counts(p) ==
  /\ totalBytes + Len(p) <= MaxTotal
  /\ totalBytes' = totalBytes + Len(p)
  /\ stream' = stream \o p
  /\ UNCHANGED limit

\* A limit of zero or less, or a full buffer: only the truncation is recorded,
\* and an empty argument is none.
StoreNothing(p) ==
  /\ limit <= 0 \/ Remaining <= 0
  /\ truncated' = (truncated \/ Len(p) > 0)
  /\ UNCHANGED buf

\* len(p) <= remaining: the chunk fits.
StoreAllOffByOne(p) ==
  /\ limit > 0 /\ Remaining > 0 /\ Len(p) <= Remaining + 1
  /\ buf' = buf \o p
  /\ UNCHANGED truncated

StoreAll(p) ==
  /\ limit > 0 /\ Remaining > 0 /\ Len(p) <= Remaining
  /\ buf' = buf \o p
  /\ UNCHANGED truncated

\* p = p[:remaining]
StoreSomeSilently(p) ==
  /\ limit > 0 /\ Remaining > 0 /\ Len(p) > Remaining
  /\ buf' = buf \o SubSeq(p, 1, Remaining)
  /\ UNCHANGED truncated

StoreSomeFromTheEnd(p) ==
  /\ limit > 0 /\ Remaining > 0 /\ Len(p) > Remaining
  /\ buf' = buf \o SubSeq(p, Len(p) - Remaining + 1, Len(p))
  /\ truncated' = TRUE

StoreSome(p) ==
  /\ limit > 0 /\ Remaining > 0 /\ Len(p) > Remaining
  /\ buf' = buf \o SubSeq(p, 1, Remaining)
  /\ truncated' = TRUE

Write(p) == (StoreNothing(p) \/ StoreAll(p) \/ StoreSome(p)) /\ Counts(p)

Next == \E p \in Chunks : Write(p)

Spec == Init /\ [][Next]_vars

-----------------------------------------------------------------------------
\* The limit as a number of bytes.
Capacity == IF limit > 0 THEN limit ELSE 0

\* Type correctness: the buffer never outgrows its limit.
TypeOK ==
  /\ limit \in Limits
  /\ buf \in Seq(Byte) /\ Len(buf) <= Capacity
  /\ stream \in Seq(Byte)
  /\ totalBytes \in Nat
  /\ truncated \in BOOLEAN

\* The capture is the beginning of the stream, as long as the limit allows: the
\* logged output is never a sample with a hole in it, however the stream is cut
\* into writes.
KeepsThePrefix ==
  /\ Len(buf) = IF Len(stream) <= Capacity THEN Len(stream) ELSE Capacity
  /\ \A i \in 1..Len(buf) : buf[i] = stream[i]

\* The entry is marked truncated exactly when a byte is missing: a stream that
\* just fills the buffer is not, and an empty write after that changes nothing.
TruncatedIffLost == truncated <=> Len(stream) > Len(buf)
=============================================================================
