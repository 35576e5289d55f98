----------------------------- MODULE WireProofs -----------------------------
(***************************************************************************)
(* Proofs about the two ends of one connection: the handler, for a reply   *)
(* buffer of any size from two bytes and any number of commands; and the   *)
(* memory that the decoder of internal/resp takes, for every stream, every *)
(* set of limits and every way the stream is cut into reads.               *)
(***************************************************************************)
EXTENDS Connection, RespReader, SequenceTheorems, WellFoundedInduction, TLAPS

----------------------------------------------------------------------------
(***************************************************************************)
(* The handler.                                                            *)
(***************************************************************************)
\* A connection starts with nothing read, nothing executed and nothing due.
LEMMA ReplyInvInit == Init => ReplyInv
<1> SUFFICES ASSUME Init PROVE ReplyInv
  OBVIOUS
<1>1. ConnectionTypeOK
  BY Zenon DEF Init, ConnectionTypeOK
<1>2. pc = "top" /\ sent = 0 /\ arrived = 0 /\ handled = 0 /\ encoded = 0 /\ delivered = 0
  BY DEF Init
<1>3. ~failed /\ ~complained /\ ~panicked
  BY DEF Init
<1> QED
  BY <1>1, <1>2, <1>3 DEF ReplyInv, Due

\* Encoding a reply sends no byte twice and none that is not there yet, whether
\* the writer keeps the reply, flushes itself or fails in the middle.
LEMMA EncodeDelivers ==
  ASSUME NEW next, Encode(next), encoded \in Nat, delivered \in Nat, delivered <= encoded
  PROVE  /\ delivered' \in delivered..encoded + 2
         /\ \/ pc' = next /\ failed' = failed
            \/ pc' = "leave" /\ failed'
<1>1. delivered \in delivered..encoded + 2
  OBVIOUS
<1>2. CASE encoded + 2 - delivered <= ReplyBufSize
  BY <1>1, <1>2 DEF Encode
<1>3. CASE ~(encoded + 2 - delivered <= ReplyBufSize)
  <2>1. delivered + ReplyBufSize \in delivered..encoded + 2
    BY <1>3, ReplyBufSizeAssumption
  <2>2. \A d \in delivered..delivered + ReplyBufSize - 1 : d \in delivered..encoded + 2
    BY <1>3, ReplyBufSizeAssumption
  <2> QED
    BY <1>3, <2>1, <2>2 DEF Encode, Deliver
<1> QED
  BY <1>2, <1>3

\* Every step of the handler, of its client and of a shutdown keeps the account
\* of replies due, encoded and delivered.
LEMMA ReplyInvStep == ReplyInv /\ [Next]_vars => ReplyInv'
<1> SUFFICES ASSUME ReplyInv, [Next]_vars PROVE ReplyInv'
  OBVIOUS
<1>1. CASE ClientSends
  BY <1>1 DEF ClientSends, ReplyInv, ConnectionTypeOK, Due
<1>2. CASE ClientHangsUp
  BY <1>2 DEF ClientHangsUp, ReplyInv, ConnectionTypeOK, Due
<1>3. CASE Drain
  BY <1>3 DEF Drain, ReplyInv, ConnectionTypeOK, Due
<1>4. CASE ServeTop
  BY <1>4 DEF ServeTop, streamVars, ReplyInv, ConnectionTypeOK, Due
<1>5. CASE Decode
  BY <1>5 DEF Decode, streamVars, ReplyInv, ConnectionTypeOK, Due
<1>6. CASE Malformed
  BY <1>6 DEF Malformed, streamVars, ReplyInv, ConnectionTypeOK, Due
<1>7. CASE FlushBeforeRead
  <2> USE DEF ReplyInv, ConnectionTypeOK, Due
  <2>1. ~failed /\ pc = "decode" /\ UNCHANGED <<streamVars, encoded, complained, panicked>>
    BY <1>7 DEF FlushBeforeRead
  <2>2. CASE pc' = "read" /\ delivered' = encoded /\ failed' = failed
    BY <2>1, <2>2 DEF streamVars
  <2>3. CASE pc' = "leave" /\ failed' /\ delivered' \in delivered..encoded - 1
    BY <2>1, <2>3 DEF streamVars
  <2> QED
    BY <1>7, <2>1, <2>2, <2>3 DEF FlushBeforeRead, Flush, Deliver
<1>8. CASE SocketRead
  BY <1>8 DEF SocketRead, ReplyInv, ConnectionTypeOK, Due
<1>9. CASE ReadEOF
  BY <1>9 DEF ReadEOF, streamVars, ReplyInv, ConnectionTypeOK, Due
<1>10. CASE Dispatch
  BY <1>10 DEF Dispatch, ReplyInv, ConnectionTypeOK, Due
<1>11. CASE DispatchPanics
  BY <1>11 DEF DispatchPanics, streamVars, ReplyInv, ConnectionTypeOK, Due
<1>12. CASE WriteReply
  <2>1. pc = "reply" /\ encoded' = encoded + 2
        /\ UNCHANGED <<streamVars, complained, panicked>>
    BY <1>12 DEF WriteReply, Encode
  <2>2. CASE pc' = "top" /\ delivered' \in delivered..encoded + 2 /\ failed' = failed
    BY <2>1, <2>2 DEF streamVars, ReplyInv, ConnectionTypeOK, Due
  <2>3. CASE pc' = "leave" /\ failed' /\ delivered' \in delivered..encoded + 2
    BY <2>1, <2>3 DEF streamVars, ReplyInv, ConnectionTypeOK, Due
  <2> QED
    BY <1>12, <2>2, <2>3, EncodeDelivers DEF WriteReply, ReplyInv, ConnectionTypeOK
<1>13. CASE WriteReplyFails
  BY <1>13 DEF WriteReplyFails, streamVars, ReplyInv, ConnectionTypeOK, Due
<1>14. CASE ReportReadError
  <2>1. pc = "complain" /\ encoded' = encoded + 2 /\ complained'
        /\ UNCHANGED <<streamVars, panicked>>
    BY <1>14 DEF ReportReadError, Encode
  <2>2. CASE pc' = "leave" /\ delivered' \in delivered..encoded + 2 /\ failed' = failed
    BY <2>1, <2>2 DEF streamVars, ReplyInv, ConnectionTypeOK, Due
  <2>3. CASE pc' = "leave" /\ failed' /\ delivered' \in delivered..encoded + 2
    BY <2>1, <2>3 DEF streamVars, ReplyInv, ConnectionTypeOK, Due
  <2> QED
    BY <1>14, <2>2, <2>3, EncodeDelivers DEF ReportReadError, ReplyInv, ConnectionTypeOK
<1>15. CASE Leave
  <2> USE DEF ReplyInv, ConnectionTypeOK, Due
  <2>1. pc = "leave" /\ pc' = "closed"
        /\ UNCHANGED <<streamVars, encoded, complained, panicked>>
    BY <1>15 DEF Leave, Flush, Deliver
  <2>2. CASE failed /\ failed' /\ delivered' = delivered
    BY <2>1, <2>2 DEF streamVars
  <2>3. CASE delivered' = encoded /\ failed' = failed
    BY <2>1, <2>3 DEF streamVars
  <2>4. CASE failed' /\ delivered' \in delivered..encoded - 1
    BY <2>1, <2>4 DEF streamVars
  <2> QED
    BY <1>15, <2>1, <2>2, <2>3, <2>4 DEF Leave, Flush, Deliver
<1>16. CASE ReadError
  BY <1>16 DEF ReadError, streamVars, ReplyInv, ConnectionTypeOK, Due
<1>17. CASE UNCHANGED vars
  BY <1>17 DEF vars, streamVars, ReplyInv, ConnectionTypeOK, Due
<1> QED
  BY <1>1, <1>2, <1>3, <1>4, <1>5, <1>6, <1>7, <1>8, <1>9, <1>10, <1>11, <1>12, <1>13,
     <1>14, <1>15, <1>16, <1>17 DEF Next, Serve

\* One whole reply per command executed, held or delivered, as long as no write
\* has failed: the account that serve, the writer and the flusher keep together.
THEOREM ReplyInvariance == Spec => []ReplyInv
  BY ReplyInvInit, ReplyInvStep, PTL DEF Spec

\* ADR 0006 for any buffer: flushBeforeRead lets the handler block in a read only
\* when every reply has gone out.
THEOREM NothingWithheld == Spec => []NoReplyWithheld
<1>1. ReplyInv => NoReplyWithheld
  <2> SUFFICES ASSUME ReplyInv, pc = "read" PROVE delivered = 2 * handled
    BY DEF NoReplyWithheld
  <2> QED
    BY DEF ReplyInv, ConnectionTypeOK, Due
<1> QED
  BY <1>1, ReplyInvariance, PTL

\* However serve returns, what was executed is answered before the connection is
\* closed, unless a write failed or the handler panicked.
THEOREM AllAnswered == Spec => []ExecutedIsAnswered
<1>1. ReplyInv => ExecutedIsAnswered
  <2> SUFFICES ASSUME ReplyInv, pc = "closed", ~failed, ~panicked
               PROVE  delivered = 2 * handled + (IF complained THEN 2 ELSE 0)
    BY DEF ExecutedIsAnswered
  <2> QED
    BY DEF ReplyInv, ConnectionTypeOK, Due
<1> QED
  BY <1>1, ReplyInvariance, PTL

\* connFlusher's latch: after a failed write no step sends another byte.
THEOREM SilenceHolds == Spec => SilentAfterFailure
<1>1. ReplyInv /\ [Next]_vars => [failed => delivered' = delivered]_vars
  <2> SUFFICES ASSUME ReplyInv, Next, failed PROVE delivered' = delivered
    OBVIOUS
  <2>1. pc \in {"leave", "closed"}
    BY DEF ReplyInv
  <2>2. CASE ClientSends \/ ClientHangsUp \/ Drain
    BY Zenon, <2>2 DEF ClientSends, ClientHangsUp, Drain
  <2>3. CASE Leave
    BY <2>3 DEF Leave, Flush
  <2> QED
    BY Zenon, <2>1, <2>2, <2>3 DEF Next, Serve, ServeTop, Decode, Malformed,
       FlushBeforeRead, SocketRead, ReadEOF, ReadError, Dispatch, DispatchPanics, WriteReply,
       WriteReplyFails, ReportReadError
<1> QED
  BY <1>1, ReplyInvariance, PTL DEF Spec, SilentAfterFailure

----------------------------------------------------------------------------
(***************************************************************************)
(* The decoder.                                                            *)
(***************************************************************************)
Types ==
  /\ input \in Seq(STRING) /\ buf \in Seq(STRING)
  /\ fetched \in 0..Len(input) /\ consumed \in 0..fetched
  /\ capacity \in Nat /\ remaining \in Nat /\ chunk \in Nat

\* A chunk is part of what is still to come, and never more than may be
\* allocated ahead of the data.
ChunkInv == /\ chunk <= remaining /\ chunk <= MaxPreallocation
            /\ rpc \in {"header", "bulk"} \/ result = "frame" => remaining = 0 /\ chunk = 0
            /\ rpc = "payload" => Len(buf) + remaining >= 2
            /\ result = "frame" => rpc = "returned"

\* Between bulk strings a frame is within the limit; inside one, what is still
\* to come has been checked against it.
LimitInv == MaxCommandBytes > 0 =>
              /\ capacity <= MaxCommandBytes + 2
              /\ rpc \in {"bulk", "payload"} => Len(buf) + remaining <= MaxCommandBytes + 2
              /\ rpc = "bulk" => Len(buf) <= MaxCommandBytes

\* The buffer was last grown to hold what had arrived and a chunk, at most
\* twice over.  When the CRLF of a bulk string is dropped two bytes are lost,
\* and the next bulk string brings at least as many.
GrowthInv ==
  /\ rpc = "bulk" => capacity <= MaxRetainedBuffer \/ capacity <= 2 * (Len(buf) + 2)
  /\ rpc = "payload" =>
       /\ capacity <= MaxRetainedBuffer \/ capacity <= 2 * (Len(buf) + remaining)
       /\ \/ capacity <= MaxRetainedBuffer
          \/ capacity <= 2 * (Len(buf) + 2)
          \/ capacity <= 2 * (Len(buf) + chunk)

RInv == Types /\ ChunkInv /\ LimitInv /\ GrowthInv

\* What the bufio.Reader holds is a sequence of the bytes fetched and not consumed.
LEMMA PendingType == ASSUME Types
                     PROVE  Pending \in Seq(STRING) /\ Len(Pending) = fetched - consumed
<1>1. consumed + 1 \in 1..Len(input) + 1 /\ fetched \in consumed..Len(input)
  BY DEF Types
<1> QED
  BY <1>1, SubSeqProperties DEF Types, Pending

\* A line that ends within what is held can be consumed.
LEMMA LineEndType == ASSUME Types, LineEnds # {}
                     PROVE  consumed + LineEnd \in 0..fetched
<1>1. LineEnds \subseteq 1..Len(Pending) /\ Len(Pending) = fetched - consumed
  BY PendingType DEF LineEnds
<1>2. \E i \in LineEnds : \A j \in LineEnds : i <= j
  <2>1. LineEnds \subseteq Nat
    BY <1>1
  <2>2. PICK i \in LineEnds : \A j \in LineEnds : ~(<<j, i>> \in OpToRel(<, Nat))
    BY Zenon, <2>1, WFMin, NatLessThanWellFounded
  <2>3. i \in LineEnds /\ \A j \in LineEnds : ~(j < i)
    BY Zenon, <2>1, <2>2 DEF OpToRel
  <2>4. i \in LineEnds /\ \A j \in LineEnds : i <= j
    BY <2>1, <2>3
  <2> QED
    BY Zenon, <2>4
<1>3. LineEnd \in LineEnds
  BY <1>2 DEF LineEnd
<1> QED
  BY <1>1, <1>3 DEF Types

\* growBuf makes room, at most doubles, and stays within the limit.
LEMMA GrownBounds ==
  ASSUME NEW need \in Nat, Types, MaxCommandBytes \in Nat,
         MaxCommandBytes > 0 => need <= MaxCommandBytes + 2 /\ capacity <= MaxCommandBytes + 2
  PROVE  /\ Grown(need) \in Nat
         /\ Grown(need) <= capacity \/ Grown(need) <= 2 * need
         /\ MaxCommandBytes > 0 => Grown(need) <= MaxCommandBytes + 2
BY DEF Grown, Greatest, Types

\* A new reader satisfies the invariant.
LEMMA InitRInv == input \in Seq(STRING) /\ ReaderInit => RInv
<1> SUFFICES ASSUME input \in Seq(STRING), ReaderInit PROVE RInv
  OBVIOUS
<1>1. Len(input) \in Nat /\ <<>> \in Seq(STRING) /\ Len(<<>>) = 0
  OBVIOUS
<1>2. Types
  BY <1>1 DEF Types, ReaderInit
<1>3. ChunkInv /\ LimitInv /\ GrowthInv
  BY BufferAssumption, LimitsAssumption DEF ChunkInv, LimitInv, GrowthInv, ReaderInit
<1> QED
  BY <1>2, <1>3 DEF RInv

\* An action that ends the frame with an error keeps everything but consumed.
LEMMA ReturnsKeeps ==
  ASSUME NEW r, r # "frame", RInv, Returns(r), input' = input, consumed' \in 0..fetched
  PROVE  RInv'
<1>1. Types'
  BY DEF RInv, Types, Returns
<1>2. ChunkInv' /\ LimitInv' /\ GrowthInv'
  BY DEF RInv, ChunkInv, LimitInv, GrowthInv, Returns
<1> QED
  BY <1>1, <1>2 DEF RInv

\* A frame begins with an empty buffer, and one that is not large.
LEMMA ArrayHeaderKeeps == ASSUME RInv, ArrayHeader PROVE RInv'
<1>1. Types /\ consumed' \in 0..fetched /\ input' = input
  BY LineEndType DEF RInv, ArrayHeader
<1>2. CASE Returns("malformed")
  BY <1>1, <1>2, ReturnsKeeps
<1>3. CASE /\ rpc' = "bulk" /\ buf' = <<>> /\ UNCHANGED <<fetched, remaining, chunk>>
           /\ capacity' = IF capacity > MaxRetainedBuffer THEN 0 ELSE capacity
           /\ remaining = 0 /\ chunk = 0 /\ result' # "frame"
  <2>1. <<>> \in Seq(STRING) /\ Len(<<>>) = 0
    OBVIOUS
  <2>2. Types'
    BY <1>1, <1>3, <2>1 DEF Types
  <2>3. ChunkInv'
    BY <1>3, <2>1, BufferAssumption DEF ChunkInv
  <2>4. LimitInv'
    BY <1>1, <1>3, <2>1, LimitsAssumption DEF LimitInv, RInv, Types
  <2>5. GrowthInv'
    BY <1>1, <1>3, <2>1, BufferAssumption DEF GrowthInv, Types
  <2> QED
    BY <2>2, <2>3, <2>4, <2>5 DEF RInv
<1>4. remaining = 0 /\ chunk = 0 /\ result # "frame"
  BY DEF RInv, ChunkInv, ArrayHeader
<1> QED
  BY <1>2, <1>3, <1>4 DEF ArrayHeader

\* The length of a bulk string is within what the limit leaves.
LEMMA BulkHeaderKeeps == ASSUME RInv, BulkHeader PROVE RInv'
<1>1. Types /\ consumed' \in 0..fetched /\ input' = input
  BY LineEndType DEF RInv, BulkHeader
<1>2. CASE Returns("malformed")
  BY <1>1, <1>2, ReturnsKeeps
<1>3. CASE /\ Fits(Number) /\ rpc' = "payload" /\ remaining' = Number + 2
           /\ UNCHANGED <<fetched, result, buf, capacity, chunk>>
  <2>1. rpc = "bulk" /\ remaining = 0 /\ chunk = 0 /\ result # "frame"
    BY DEF RInv, ChunkInv, BulkHeader
  <2>2. PICK ln \in Nat : Fits(ln) /\ remaining' = ln + 2
    BY <1>3, LimitsAssumption DEF Fits
  <2>3. Len(buf) \in Nat
    BY DEF RInv, Types
  <2>4. Types'
    BY <1>1, <1>3, <2>2 DEF Types
  <2>5. ChunkInv'
    BY <1>3, <2>1, <2>2, <2>3, BufferAssumption DEF ChunkInv, RInv
  <2>6. LimitInv'
    BY <1>3, <2>1, <2>2, <2>3, LimitsAssumption DEF LimitInv, RInv, Fits
  <2>7. GrowthInv'
    BY <1>1, <1>3, <2>1, <2>2, <2>3, BufferAssumption DEF GrowthInv, RInv, Types
  <2> QED
    BY <2>4, <2>5, <2>6, <2>7 DEF RInv
<1> QED
  BY <1>2, <1>3 DEF BulkHeader

\* Room is made for one chunk more.
LEMMA BeginChunkKeeps == ASSUME RInv, BeginChunk PROVE RInv'
<1>1. Types /\ Len(buf) \in Nat /\ MaxPreallocation \in Nat \ {0} /\ rpc = "payload"
  BY BufferAssumption DEF RInv, Types, BeginChunk
<1>2. chunk' \in Nat /\ chunk' <= remaining /\ chunk' <= MaxPreallocation
  BY <1>1 DEF BeginChunk, Least, Types
<1>3. UNCHANGED <<input, fetched, consumed, rpc, result, buf, remaining>>
  BY DEF BeginChunk
<1>4. /\ capacity' \in Nat
      /\ capacity' <= capacity \/ capacity' <= 2 * (Len(buf) + chunk')
      /\ MaxCommandBytes > 0 => capacity' <= MaxCommandBytes + 2
  <2>1. MaxCommandBytes > 0 => /\ Len(buf) + chunk' <= MaxCommandBytes + 2
                               /\ capacity <= MaxCommandBytes + 2
    BY <1>1, <1>2, LimitsAssumption DEF RInv, LimitInv, Types
  <2> QED
    BY <1>1, <1>2, <2>1, GrownBounds, LimitsAssumption DEF BeginChunk
<1>5. Types'
  BY <1>1, <1>2, <1>3, <1>4 DEF Types
<1>6. ChunkInv'
  <2>1. result # "frame"
    BY <1>1 DEF RInv, ChunkInv, BeginChunk, Types
  <2> QED
    BY <1>1, <1>2, <1>3, <2>1 DEF ChunkInv, RInv
<1>7. LimitInv'
  BY <1>1, <1>3, <1>4 DEF LimitInv, RInv
<1>8. GrowthInv'
  <2>1. /\ capacity \in Nat /\ remaining \in Nat /\ MaxRetainedBuffer \in Nat /\ chunk = 0
        /\ capacity <= MaxRetainedBuffer \/ capacity <= 2 * (Len(buf) + remaining)
        /\ capacity <= MaxRetainedBuffer \/ capacity <= 2 * (Len(buf) + 2)
    BY <1>1, BufferAssumption DEF GrowthInv, RInv, Types, BeginChunk
  <2>2. capacity' <= MaxRetainedBuffer \/ capacity' <= 2 * (Len(buf) + remaining)
    BY <1>1, <1>2, <1>4, <2>1
  <2>3. \/ capacity' <= MaxRetainedBuffer
        \/ capacity' <= 2 * (Len(buf) + 2)
        \/ capacity' <= 2 * (Len(buf) + chunk')
    BY <1>1, <1>2, <1>4, <2>1
  <2> QED
    BY <1>1, <1>3, <2>2, <2>3 DEF GrowthInv
<1> QED
  BY <1>5, <1>6, <1>7, <1>8 DEF RInv

\* What is read of a chunk moves from what is to come to what has arrived.
LEMMA ReadChunkKeeps == ASSUME RInv, ReadChunk PROVE RInv'
<1>1. Types /\ rpc = "payload" /\ result # "frame" /\ Len(buf) \in Nat
  BY DEF RInv, ChunkInv, ReadChunk, Types
<1> DEFINE n == Least(Len(Pending), chunk)
<1>2. Pending \in Seq(STRING) /\ Len(Pending) = fetched - consumed
  BY <1>1, PendingType
<1>3. n \in 0..Len(Pending) /\ n <= chunk /\ n \in Nat
  BY <1>1, <1>2 DEF Least, Types
<1>4. SubSeq(Pending, 1, n) \in Seq(STRING) /\ Len(SubSeq(Pending, 1, n)) = n
  <2> HIDE DEF n
  <2> QED
    BY <1>2, <1>3, SubSeqProperties
<1>5. /\ consumed' = consumed + n /\ buf' = buf \o SubSeq(Pending, 1, n)
      /\ remaining' = remaining - n /\ chunk' = chunk - n
      /\ UNCHANGED <<input, fetched, rpc, result, capacity>>
  BY DEF ReadChunk
<1> HIDE DEF n
<1>6. buf' \in Seq(STRING) /\ Len(buf') = Len(buf) + n
  BY <1>1, <1>4, <1>5, ConcatProperties DEF Types
<1>7. Types'
  BY <1>1, <1>2, <1>3, <1>5, <1>6, chunk <= remaining DEF Types, RInv, ChunkInv
<1>8. ChunkInv'
  BY <1>1, <1>3, <1>5, <1>6, BufferAssumption DEF ChunkInv, RInv, Types
<1>9. LimitInv'
  <2>1. remaining' = remaining - n /\ remaining \in Nat /\ rpc' = rpc /\ capacity' = capacity
    BY <1>1, <1>5 DEF Types
  <2>2. Len(buf') + remaining' = Len(buf) + remaining
    BY <1>1, <1>3, <1>6, <2>1
  <2> QED
    BY <1>1, <2>1, <2>2 DEF LimitInv, RInv
<1>10. GrowthInv'
  BY <1>1, <1>3, <1>5, <1>6, BufferAssumption DEF GrowthInv, RInv, Types
<1> QED
  BY <1>7, <1>8, <1>9, <1>10 DEF RInv

\* The CRLF is dropped: the payload is what remains.
LEMMA BulkEndsKeeps == ASSUME RInv, BulkEnds PROVE RInv'
<1>1. /\ Types /\ rpc = "payload" /\ result # "frame" /\ Len(buf) \in Nat
      /\ remaining = 0 /\ chunk = 0 /\ Len(buf) >= 2
      /\ UNCHANGED <<input, consumed>> /\ consumed \in 0..fetched
  BY DEF RInv, ChunkInv, BulkEnds, Types
<1>2. CASE Returns("malformed")
  BY <1>1, <1>2, ReturnsKeeps
<1>3. CASE /\ buf' = SubSeq(buf, 1, Len(buf) - 2) /\ rpc' \in {"returned", "bulk"}
           /\ rpc' = "bulk" => result' = result
           /\ UNCHANGED <<fetched, capacity, remaining, chunk>>
  <2>1. buf' \in Seq(STRING) /\ Len(buf') = Len(buf) - 2
    <3> DEFINE e == Len(buf) - 2
    <3>1. e \in Nat /\ \A i \in 1..e : buf[i] \in STRING
      BY <1>1 DEF Types
    <3> HIDE DEF e
    <3>2. SubSeq(buf, 1, e) \in Seq(STRING) /\ Len(SubSeq(buf, 1, e)) = e
      BY <3>1, SubSeqProperties
    <3> QED
      BY <1>3, <3>2 DEF e
  <2>2. Types'
    BY <1>1, <1>3, <2>1 DEF Types
  <2>3. ChunkInv'
    BY <1>1, <1>3, BufferAssumption DEF ChunkInv
  <2>4. LimitInv'
    BY <1>1, <1>3, <2>1, LimitsAssumption DEF LimitInv, RInv
  <2>5. GrowthInv'
    BY <1>1, <1>3, <2>1 DEF GrowthInv, RInv
  <2> QED
    BY <2>2, <2>3, <2>4, <2>5 DEF RInv
<1> QED
  BY <1>2, <1>3 DEF BulkEnds

\* A read of the source brings some of what is left of it.
LEMMA FillKeeps == ASSUME RInv, Fill PROVE RInv'
<1>1. /\ Types /\ fetched # Len(input)
      /\ UNCHANGED <<input, consumed, rpc, result, buf, capacity, remaining, chunk>>
  BY DEF RInv, Fill, AtEOF
<1>2. Len(Pending) \in Nat /\ Len(Pending) = fetched - consumed
  BY <1>1, PendingType DEF Types
<1>3. fetched' \in fetched..Len(input)
  <2>1. Len(Pending) <= BufSize
    BY <1>1, <1>2, BufferAssumption DEF Fill, Starved, RInv
  <2>2. PICK n \in FillSizes :
          fetched' = Least(fetched + Least(n, BufSize - Len(Pending)), Len(input))
    BY DEF Fill
  <2>3. n \in Nat /\ BufSize - Len(Pending) \in Nat
    BY <1>2, <2>1, BufferAssumption
  <2> QED
    BY <1>1, <1>2, <2>2, <2>3 DEF Least, Types
<1>4. Types'
  BY <1>1, <1>3 DEF Types
<1>5. ChunkInv' /\ LimitInv' /\ GrowthInv'
  BY <1>1 DEF RInv, ChunkInv, LimitInv, GrowthInv
<1> QED
  BY <1>4, <1>5 DEF RInv

\* Every step of the decoder keeps the invariant.
LEMMA NextRInv == RInv /\ [ReaderNext]_<<input, readerVars>> => RInv'
<1> SUFFICES ASSUME RInv, [ReaderNext]_<<input, readerVars>> PROVE RInv'
  OBVIOUS
<1>1. Types /\ consumed \in 0..fetched
  BY DEF RInv, Types
<1>2. CASE ReadLineFails
  <2>1. PICK r \in {"malformed", "eof", "incomplete"} : Returns(r)
    BY <1>2 DEF ReadLineFails
  <2>2. consumed' \in 0..fetched /\ input' = input
    BY <1>1, <1>2, LineEndType DEF ReadLineFails
  <2> QED
    BY <2>1, <2>2, ReturnsKeeps
<1>3. CASE ReadChunkFails
  BY <1>1, <1>3, ReturnsKeeps DEF ReadChunkFails
<1>4. CASE NextFrame /\ UNCHANGED input
  <2>1. Types'
    BY <1>1, <1>4 DEF Types, NextFrame
  <2>2. ChunkInv' /\ LimitInv' /\ GrowthInv'
    BY <1>4 DEF RInv, ChunkInv, LimitInv, GrowthInv, NextFrame
  <2> QED
    BY <2>1, <2>2 DEF RInv
<1>5. CASE UNCHANGED <<input, readerVars>>
  <2>1. Types'
    BY <1>1, <1>5 DEF Types, readerVars
  <2>2. ChunkInv' /\ LimitInv' /\ GrowthInv'
    BY <1>5 DEF RInv, ChunkInv, LimitInv, GrowthInv, readerVars
  <2> QED
    BY <2>1, <2>2 DEF RInv
<1> QED
  BY <1>2, <1>3, <1>4, <1>5, FillKeeps, ArrayHeaderKeeps, BulkHeaderKeeps, BeginChunkKeeps,
     ReadChunkKeeps, BulkEndsKeeps DEF ReaderNext, ReaderStep

\* RInv holds for every stream, limits and arrival of the bytes.
LEMMA ReaderInvariance == ReaderSpec => []RInv
BY InitRInv, NextRInv, PTL DEF ReaderSpec

\* Whatever a client claims about what it will send, the buffer of ReadCommand
\* never outgrows -max-command-bytes by more than the CRLF read with a payload.
THEOREM BufferIsCapped == ReaderSpec => []BufferCapped
<1>1. RInv => BufferCapped
  BY DEF RInv, LimitInv, BufferCapped
<1> QED
  BY <1>1, ReaderInvariance, PTL

\* growBuf and the chunks of readBulk: while a frame is read, what is allocated
\* is bounded by what has arrived of it, not by the lengths it announces.
THEOREM AllocationFollowsData == ReaderSpec => []MemoryFollowsData
<1>1. RInv => MemoryFollowsData
  <2> SUFFICES ASSUME RInv, rpc \in {"bulk", "payload"}
               PROVE  capacity <= Greatest(MaxRetainedBuffer,
                                           2 * (Len(buf) + MaxPreallocation + 2))
    BY DEF MemoryFollowsData
  <2>1. Len(buf) \in Nat /\ capacity \in Nat /\ chunk \in Nat /\ chunk <= MaxPreallocation
    BY DEF RInv, Types, ChunkInv
  <2>2. \/ capacity <= MaxRetainedBuffer
        \/ capacity <= 2 * (Len(buf) + 2)
        \/ capacity <= 2 * (Len(buf) + chunk)
    BY DEF RInv, GrowthInv
  <2> QED
    BY <2>1, <2>2, BufferAssumption DEF Greatest
<1> QED
  BY <1>1, ReaderInvariance, PTL
=============================================================================
