----------------------------- MODULE RespReader -----------------------------
(***************************************************************************)
(* The decoder of internal/resp: ReadCommand turns a stream of bytes into  *)
(* request frames, arrays of bulk strings, under limits.  The stream is    *)
(* taken from its source in pieces of any size by a bufio.Reader; a frame  *)
(* is gathered in one buffer that grows chunk by chunk and is kept from    *)
(* frame to frame.                                                         *)
(*                                                                         *)
(* A byte is a string of one character.  capacity is cap(r.buf): the room  *)
(* that is allocated, whatever part of it holds data.                      *)
(***************************************************************************)
EXTENDS Integers, Sequences

CONSTANTS MaxArrayElements, MaxBulkLength,
          MaxCommandBytes,    \* 0: no limit
          MaxPreallocation, MaxRetainedBuffer,
          BufSize,            \* size of the bufio.Reader
          FillSizes,          \* bytes one read of the source may give
          MaxParsed           \* bound of parseInt, 2^30: far from the ends of an int64

ASSUME LimitsAssumption ==
  /\ MaxArrayElements \in Nat /\ MaxBulkLength \in Nat /\ MaxCommandBytes \in Nat
ASSUME BufferAssumption ==
  /\ MaxPreallocation \in Nat \ {0} /\ MaxRetainedBuffer \in Nat
  /\ BufSize \in Nat \ {0} /\ FillSizes \subseteq Nat \ {0} /\ MaxParsed \in Nat

VARIABLES
  input,      \* every byte the source will give before its end
  fetched,    \* how many of them the bufio.Reader has taken
  consumed,   \* how many of these have been decoded
  rpc,        \* "header", "bulk" or "payload" of a frame, or "returned"
  result,     \* once returned: "frame", "eof", "incomplete" or "malformed"
  left,       \* bulk strings of the frame still to come
  buf, capacity, offsets,  \* r.buf and its cap, r.offsets
  remaining,  \* bytes of this payload and its CRLF still to come
  chunk       \* of these, bytes that room has been made for

readerVars == <<fetched, consumed, rpc, result, left, buf, capacity, offsets,
                remaining, chunk>>

ReaderInit ==
  /\ fetched = 0 /\ consumed = 0 /\ rpc = "header" /\ result = "none"
  /\ left = 0 /\ buf = <<>> /\ capacity = 0 /\ offsets = <<>>
  /\ remaining = 0 /\ chunk = 0

CR == "\r"
LF == "\n"
Digits == <<"0", "1", "2", "3", "4", "5", "6", "7", "8", "9">>

Least(a, b) == IF a <= b THEN a ELSE b
Greatest(a, b) == IF a >= b THEN a ELSE b

----------------------------------------------------------------------------
(***************************************************************************)
(* Lines and numbers.                                                      *)
(***************************************************************************)
\* What the bufio.Reader holds: Buffered() is its length.
Pending == SubSeq(input, consumed + 1, fetched)
AtEOF == fetched = Len(input)

LineEnds == {i \in 1..Len(Pending) : Pending[i] = LF}
LineEnd == CHOOSE i \in LineEnds : \A j \in LineEnds : i <= j
Terminated == LineEnd >= 2 /\ Pending[LineEnd - 1] = CR
Line == SubSeq(Pending, 1, LineEnd - 2)

\* parseInt, which callers let through only from 0 or 1 up: what is no number,
\* or too large, is as good as a negative one.
NotANumber == -1
ParseInt(b) ==
  LET neg == b # <<>> /\ b[1] = "-"
      digits == IF neg THEN Tail(b) ELSE b
      value[i \in 0..Len(digits)] ==
        IF i = 0 THEN 0
        ELSE IF value[i - 1] = NotANumber \/ \A d \in 1..10 : Digits[d] # digits[i]
        THEN NotANumber
        ELSE LET n == value[i - 1] * 10 + (CHOOSE d \in 1..10 : Digits[d] = digits[i]) - 1
             IN IF n > MaxParsed THEN NotANumber ELSE n
  IN IF digits = <<>> \/ value[Len(digits)] = NotANumber THEN NotANumber
     ELSE IF neg THEN -value[Len(digits)] ELSE value[Len(digits)]

Returns(r) == /\ rpc' = "returned" /\ result' = r
              /\ UNCHANGED <<fetched, left, buf, capacity, offsets, remaining, chunk>>

\* readLine fails: at the end of the stream, on a line the bufio.Reader cannot
\* hold, or for want of a CR.  Inside a frame (bulkReadErr) no end is clean.
AtCleanEnd == rpc = "header" /\ Pending = <<>>
ReadLineFails ==
  /\ rpc \in {"header", "bulk"}
  /\ \/ /\ LineEnds = {} /\ Len(Pending) >= BufSize /\ UNCHANGED consumed
        /\ Returns("malformed")
     \/ /\ LineEnds = {} /\ Len(Pending) < BufSize /\ AtEOF /\ UNCHANGED consumed
        /\ Returns(IF AtCleanEnd THEN "eof" ELSE "incomplete")
     \/ /\ LineEnds # {} /\ ~Terminated /\ consumed' = consumed + LineEnd
        /\ Returns("malformed")
  /\ UNCHANGED input

\* A line of the kind that prefix announces, and the number on it.
Announces(prefix) == Line # <<>> /\ Line[1] = prefix
Number == ParseInt(Tail(Line))

----------------------------------------------------------------------------
(***************************************************************************)
(* ReadCommand and readBulk.                                               *)
(***************************************************************************)
\* bufio: a read of the source, only when what is held does not do.  (A large
\* read that bypasses the buffer is a fill that is consumed at once.)
Starved == \/ rpc \in {"header", "bulk"} /\ LineEnds = {} /\ Len(Pending) < BufSize
           \/ rpc = "payload" /\ chunk > 0 /\ Pending = <<>>
Fill == /\ Starved /\ ~AtEOF
        /\ \E n \in FillSizes :
             fetched' = Least(fetched + Least(n, BufSize - Len(Pending)), Len(input))
        /\ UNCHANGED <<input, consumed, rpc, result, left, buf, capacity, offsets,
                       remaining, chunk>>

\* The array header.  A buffer that has grown large is let go of here, when
\* the caller can no longer hold slices of it.
ArrayHeader ==
  /\ rpc = "header" /\ LineEnds # {} /\ Terminated
  /\ consumed' = consumed + LineEnd
  /\ IF Announces("*") /\ Number \in 1..MaxArrayElements
     THEN /\ rpc' = "bulk" /\ left' = Number
          /\ buf' = <<>> /\ offsets' = <<>>
          /\ capacity' = IF capacity > MaxRetainedBuffer THEN 0 ELSE capacity
          /\ UNCHANGED <<fetched, result, remaining, chunk>>
     ELSE Returns("malformed")
  /\ UNCHANGED input

\* The header of a bulk string: its length is checked before any of it is read.
Fits(ln) == /\ ln \in 0..MaxBulkLength
            /\ MaxCommandBytes > 0 => ln <= MaxCommandBytes - Len(buf)
BulkHeader ==
  /\ rpc = "bulk" /\ LineEnds # {} /\ Terminated
  /\ consumed' = consumed + LineEnd
  /\ IF Announces("$") /\ Fits(Number)
     THEN /\ rpc' = "payload" /\ remaining' = Number + 2
          /\ UNCHANGED <<fetched, result, left, buf, capacity, offsets, chunk>>
     ELSE Returns("malformed")
  /\ UNCHANGED input

\* growBuf: doubling, but not past the limit, and never short of need.
GrownUncapped(need) ==
  IF capacity >= need THEN capacity ELSE Greatest(2 * capacity, need)
Grown(need) ==
  LET size == Greatest(2 * capacity, need)
  IN IF capacity >= need THEN capacity
     ELSE IF MaxCommandBytes > 0 /\ size > MaxCommandBytes
     THEN Greatest(MaxCommandBytes, need) ELSE size

BeginChunkWhole ==
  /\ rpc = "payload" /\ remaining > 0 /\ chunk = 0
  /\ chunk' = remaining
  /\ capacity' = Grown(Len(buf) + chunk')
  /\ UNCHANGED <<input, fetched, consumed, rpc, result, left, buf, offsets, remaining>>
BeginChunk ==
  /\ rpc = "payload" /\ remaining > 0 /\ chunk = 0
  /\ chunk' = Least(remaining, MaxPreallocation)
  /\ capacity' = Grown(Len(buf) + chunk')
  /\ UNCHANGED <<input, fetched, consumed, rpc, result, left, buf, offsets, remaining>>

\* io.ReadFull takes what there is, and fails if the stream ends before it is full.
ReadChunk ==
  /\ rpc = "payload" /\ chunk > 0 /\ Pending # <<>>
  /\ LET n == Least(Len(Pending), chunk)
     IN /\ consumed' = consumed + n /\ buf' = buf \o SubSeq(Pending, 1, n)
        /\ remaining' = remaining - n /\ chunk' = chunk - n
  /\ UNCHANGED <<input, fetched, rpc, result, left, capacity, offsets>>

ReadChunkRetries == /\ rpc = "payload" /\ chunk > 0 /\ Pending = <<>> /\ AtEOF
                    /\ UNCHANGED <<input, readerVars>>
ReadChunkFails == /\ rpc = "payload" /\ chunk > 0 /\ Pending = <<>> /\ AtEOF
                  /\ Returns("incomplete") /\ UNCHANGED <<input, consumed>>

\* The end of a bulk string: its CRLF is checked and dropped.
Start == IF offsets = <<>> THEN 0 ELSE offsets[Len(offsets)][2]
BulkEnds ==
  /\ rpc = "payload" /\ remaining = 0
  /\ LET end == Len(buf) - 2
     IN IF buf[end + 1] = CR /\ buf[end + 2] = LF
        THEN /\ buf' = SubSeq(buf, 1, end) /\ offsets' = Append(offsets, <<Start, end>>)
             /\ left' = left - 1
             /\ rpc' = IF left = 1 THEN "returned" ELSE "bulk"
             /\ result' = IF left = 1 THEN "frame" ELSE result
             /\ UNCHANGED <<fetched, capacity, remaining, chunk>>
        ELSE Returns("malformed")
  /\ UNCHANGED <<input, consumed>>

ReaderStep == \/ Fill \/ ReadLineFails \/ ArrayHeader \/ BulkHeader
              \/ BeginChunk \/ ReadChunk \/ ReadChunkFails \/ BulkEnds

\* The slices ReadCommand returns, and a caller that asks for the next frame: no
\* caller asks again after an error.
Args == [i \in 1..Len(offsets) |-> SubSeq(buf, offsets[i][1] + 1, offsets[i][2])]
NextFrame == /\ rpc = "returned" /\ result = "frame" /\ rpc' = "header" /\ result' = "none"
             /\ UNCHANGED <<fetched, consumed, left, buf, capacity, offsets, remaining, chunk>>

\* The decoder by itself, on any stream.
ReaderNext == ReaderStep \/ (NextFrame /\ UNCHANGED input)
ReaderSpec == /\ input \in Seq(STRING) /\ ReaderInit
              /\ [][ReaderNext]_<<input, readerVars>>

----------------------------------------------------------------------------
(***************************************************************************)
(* Properties.                                                             *)
(***************************************************************************)
\* The comment on growBuf and SECURITY.md: the buffer is capped at the limit.
\* The CRLF read with the last payload is all that may exceed it.
BufferCapped == MaxCommandBytes > 0 => capacity <= MaxCommandBytes + 2

\* The comment in readBulk: "memory grows with data that arrived rather than
\* with the peer's claim about what is coming".  While a frame is read, twice
\* what has arrived of it and one chunk is all that is allocated, beyond what a
\* connection may retain from frame to frame.
MemoryFollowsData ==
  rpc \in {"bulk", "payload"} =>
    capacity <= Greatest(MaxRetainedBuffer, 2 * (Len(buf) + MaxPreallocation + 2))
=============================================================================
