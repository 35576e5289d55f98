------------------------------ MODULE Recovery ------------------------------
(***************************************************************************)
(* From commands to the bytes of the append-only file and back.  A server  *)
(* accepts commands within its configured limits and the engine records    *)
(* their effects (codec.go, Encode); the process stops and leaves the      *)
(* file, cut anywhere or with a byte that went bad; OpenFile replays it    *)
(* with the decoder of RespReader and the default limits of the protocol,  *)
(* truncates it to the last whole record and the server goes on.           *)
(*                                                                         *)
(* input, the stream of the decoder, is the file.                          *)
(***************************************************************************)
EXTENDS RespReader, SequencesExt

CONSTANTS Commands,         \* the requests that clients may send
          MaxRecords,       \* bound on the records in the file
          ServerMaxArray, ServerMaxBulk, ServerMaxCommand,  \* the -max- flags
          DamagedBytes,     \* what a byte that went bad may read as
          None              \* no value, no deadline

ASSUME ServerAssumption == MaxRecords \in Nat
  /\ ServerMaxArray \in Nat /\ ServerMaxBulk \in Nat /\ ServerMaxCommand \in Nat

VARIABLES phase,     \* "serving", "recovering" or "replayed"
          memory,    \* what each key holds
          written,   \* the records in the file
          damaged,   \* the position of the byte that went bad, or 0
          records,   \* the records Replay has applied
          offset,    \* LastValidOffset
          outcome    \* "none", "new", "clean", "torn" or "refused"

vars == <<input, readerVars, phase, memory, written, damaged, records, offset, outcome>>

----------------------------------------------------------------------------
(***************************************************************************)
(* Writer, and Encode over it.                                             *)
(***************************************************************************)
CRLF == <<CR, LF>>
Decimal[n \in Nat] == IF n < 10 THEN <<Digits[n + 1]>>
                      ELSE Append(Decimal[n \div 10], Digits[(n % 10) + 1])

WriteArrayHeader(n) == <<"*">> \o Decimal[n] \o CRLF
WriteBulk(s) == <<"$">> \o Decimal[Len(s)] \o CRLF \o s \o CRLF

SET == <<"S", "E", "T">>
DEL == <<"D", "E", "L">>
PXAT == <<"P", "X", "A", "T">>
EXPIRE == <<"E", "X", "P", "I", "R", "E">>

SetRecord(k, v, at) == [kind |-> "set", key |-> k, value |-> v, at |-> at]
DelRecord(ks) == [kind |-> "del", keys |-> ks]

Parts(rec) ==
  IF rec.kind = "del" THEN <<DEL>> \o rec.keys
  ELSE IF rec.at = None THEN <<SET, rec.key, rec.value>>
  ELSE <<SET, rec.key, rec.value, PXAT, Decimal[rec.at]>>

Encode(rec) == WriteArrayHeader(Len(Parts(rec)))
                 \o FlattenSeq([i \in DOMAIN Parts(rec) |-> WriteBulk(Parts(rec)[i])])

\* EncodeHeader: magic, format version, reserved bytes.
Header == <<"M", "1", "0">>
HeaderSize == Len(Header)

\* Where the first i records end.
End(i) == HeaderSize + Len(FlattenSeq([j \in 1..i |-> Encode(written[j])]))

----------------------------------------------------------------------------
(***************************************************************************)
(* The server, as far as it decides what is written.                       *)
(***************************************************************************)
Keys == {c[2] : c \in Commands}

Total(args) == Len(FlattenSeq(args))
Accepted(args) == /\ Len(args) <= ServerMaxArray
                  /\ \A i \in DOMAIN args : Len(args[i]) <= ServerMaxBulk
                  /\ ServerMaxCommand > 0 => Total(args) <= ServerMaxCommand

Init == /\ phase = "recovering" /\ memory = [k \in Keys |-> None]
        /\ written = <<>> /\ damaged = 0 /\ input = <<>> /\ ReaderInit
        /\ records = <<>> /\ offset = 0 /\ outcome = "none"

Record(rec) == /\ written' = Append(written, rec) /\ input' = input \o Encode(rec)
               /\ UNCHANGED <<readerVars, phase, damaged, records, offset, outcome>>

\* The live keys a DEL names, each once.
Live(args) ==
  LET first == {i \in 2..Len(args) : /\ memory[args[i]] # None
                                     /\ \A h \in 2..i - 1 : args[h] # args[i]}
      order == SetToSortSeq(first, <)
  IN [j \in DOMAIN order |-> args[order[j]]]

\* SET key value, EXPIRE key seconds and DEL key ..., with one deadline for all.
Deadline == 7
Execute ==
  /\ phase = "serving" /\ Len(written) < MaxRecords
  /\ \E args \in Commands :
       /\ Accepted(args)
       /\ \/ /\ args[1] = SET
             /\ memory' = [memory EXCEPT ![args[2]] = args[3]]
             /\ Record(SetRecord(args[2], args[3], None))
          \/ /\ args[1] = EXPIRE /\ memory[args[2]] # None /\ UNCHANGED memory
             /\ Record(SetRecord(args[2], memory[args[2]], Deadline))
          \/ LET live == Live(args)
             IN /\ args[1] = DEL /\ live # <<>>
                /\ memory' = [k \in DOMAIN memory |->
                                IF k \in ToSet(live) THEN None ELSE memory[k]]
                /\ Record(DelRecord(live))

\* The process ends and leaves the first n bytes of the file, or all of them
\* but one as they were.
Stops ==
  /\ phase = "serving" /\ phase' = "recovering"
  /\ \/ /\ \E n \in 0..Len(input) : input' = SubSeq(input, 1, n)
        /\ UNCHANGED damaged
     \/ \E i \in 1..Len(input), b \in DamagedBytes :
          input[i] # b /\ input' = [input EXCEPT ![i] = b] /\ damaged' = i
  /\ UNCHANGED <<readerVars, memory, written, records, offset, outcome>>

----------------------------------------------------------------------------
(***************************************************************************)
(* Replay.                                                                 *)
(***************************************************************************)
Ends(how) == outcome' = how /\ phase' = "replayed" /\ UNCHANGED <<input, memory, written, damaged>>

\* ReadHeader reads the header past the bufio.Reader, which is not there yet.
ReadHeader ==
  /\ phase = "recovering" /\ fetched = 0 /\ offset = 0
  /\ IF IsPrefix(Header, input)
     THEN /\ offset' = HeaderSize /\ fetched' = HeaderSize /\ consumed' = HeaderSize
          /\ UNCHANGED <<input, rpc, result, left, buf, capacity, offsets, remaining, chunk,
                         phase, memory, written, damaged, records, outcome>>
     ELSE /\ Ends(IF input = <<>> THEN "new" ELSE "refused")
          /\ UNCHANGED <<readerVars, records, offset>>

Reads == /\ phase = "recovering" /\ offset > 0 /\ ReaderStep
         /\ UNCHANGED <<phase, memory, written, damaged, records, offset, outcome>>

\* Decode: is this frame a record, and which?
IsRecord == \/ Args[1] = SET /\ Len(Args) = 3
            \/ Args[1] = SET /\ Len(Args) = 5 /\ Args[4] = PXAT /\ ParseInt(Args[5]) # NotANumber
            \/ Args[1] = DEL /\ Len(Args) >= 2
Decoded == IF Args[1] = DEL THEN DelRecord(Tail(Args))
           ELSE SetRecord(Args[2], Args[3], IF Len(Args) = 3 THEN None ELSE ParseInt(Args[5]))

\* The loop of Replay.  How much of the stream has been decoded is what the
\* source has given less what the bufio.Reader still holds.
OffsetNow == fetched - Len(Pending)
ReplayRecord ==
  /\ phase = "recovering" /\ rpc = "returned" /\ result = "frame" /\ IsRecord
  /\ records' = Append(records, Decoded) /\ offset' = OffsetNow
  /\ NextFrame
  /\ UNCHANGED <<input, phase, memory, written, damaged, outcome>>

ReplayEndsLate ==
  /\ phase = "recovering" /\ rpc = "returned" /\ (result = "frame" => ~IsRecord)
  /\ Ends(CASE result = "eof" -> "clean"
            [] result = "incomplete" -> "torn"
            [] OTHER -> "refused")
  /\ offset' = IF result \in {"eof", "incomplete"} THEN offset ELSE OffsetNow
  /\ UNCHANGED <<readerVars, records>>
ReplayEnds ==
  /\ phase = "recovering" /\ rpc = "returned" /\ (result = "frame" => ~IsRecord)
  /\ Ends(CASE result = "eof" -> "clean"
            [] result = "incomplete" -> "torn"
            [] OTHER -> "refused")
  /\ UNCHANGED <<readerVars, records, offset>>

\* apply.  A deadline that has passed leaves the key absent.
Apply(m, rec, passed) ==
  IF rec.kind = "del" THEN [k \in DOMAIN m |-> IF k \in ToSet(rec.keys) THEN None ELSE m[k]]
  ELSE [m EXCEPT ![rec.key] = IF rec.at # None /\ passed THEN None ELSE rec.value]

\* OpenFile writes the header of a new file, truncates the file to the last
\* whole record and opens it there.  A damaged file is followed no further.
OpenFileKeepsTail ==
  /\ phase = "replayed" /\ outcome # "refused" /\ damaged = 0
  /\ phase' = "serving" /\ outcome' = "none" /\ records' = <<>> /\ offset' = 0
  /\ written' = records
  /\ \E passed \in BOOLEAN :
       memory' = FoldLeft(LAMBDA m, rec : Apply(m, rec, passed), [k \in Keys |-> None], records)
  /\ input' = IF outcome = "new" THEN Header ELSE input
  /\ fetched' = 0 /\ consumed' = 0 /\ rpc' = "header" /\ result' = "none" /\ left' = 0
  /\ buf' = <<>> /\ capacity' = 0 /\ offsets' = <<>> /\ remaining' = 0 /\ chunk' = 0
  /\ UNCHANGED damaged
OpenFile ==
  /\ phase = "replayed" /\ outcome # "refused" /\ damaged = 0
  /\ phase' = "serving" /\ outcome' = "none" /\ records' = <<>> /\ offset' = 0
  /\ written' = records
  /\ \E passed \in BOOLEAN :
       memory' = FoldLeft(LAMBDA m, rec : Apply(m, rec, passed), [k \in Keys |-> None], records)
  /\ input' = IF outcome = "new" THEN Header ELSE SubSeq(input, 1, offset)
  /\ fetched' = 0 /\ consumed' = 0 /\ rpc' = "header" /\ result' = "none" /\ left' = 0
  /\ buf' = <<>> /\ capacity' = 0 /\ offsets' = <<>> /\ remaining' = 0 /\ chunk' = 0
  /\ UNCHANGED damaged

Next == Execute \/ Stops \/ ReadHeader \/ Reads \/ ReplayRecord \/ ReplayEnds \/ OpenFile

Spec == Init /\ [][Next]_vars
FairSpec == Spec /\ WF_vars(ReadHeader \/ Reads \/ ReplayRecord \/ ReplayEnds)

----------------------------------------------------------------------------
(***************************************************************************)
(* Properties.                                                             *)
(***************************************************************************)
\* How many records a file of n bytes holds in full.
Whole(n) == CHOOSE i \in 0..Len(written) :
              End(i) <= n /\ (i < Len(written) => End(i + 1) > n)

\* The comment on Replay: a file that ends between records is replayed in full,
\* one that ends part-way through a record is truncated to the last complete
\* one.  A cut is never taken for corruption, and the offset at which the file
\* is reopened is the end of the last record applied, however the bytes came:
\* so also after the next crash ("cannot find two half-records", OpenFile).
CutIsRecovered ==
  phase = "replayed" /\ damaged = 0 /\ Len(input) >= HeaderSize =>
    LET i == Whole(Len(input))
    IN /\ records = SubSeq(written, 1, i) /\ offset = End(i)
       /\ outcome = IF Len(input) = End(i) THEN "clean" ELSE "torn"

\* The table of docs/architecture.md: every record before a byte that went bad
\* is read as it was written, and a file that cannot be read further is refused
\* with the offset of the record that holds that byte, or cut there.
DamageIsContained ==
  damaged > HeaderSize =>
    LET i == Whole(damaged - 1)
    IN /\ \A j \in 1..Least(i, Len(records)) : records[j] = written[j]
       /\ phase = "replayed" => /\ Len(records) >= i
                                /\ Len(records) = i => offset = End(i)

\* Recovery ends, whatever is in the file.
RecoveryEnds == phase = "recovering" ~> phase = "replayed"

\* replay_test.go: "the property the whole file format exists for: what the
\* engine writes, replay reads back into the same state."
WrittenIsReadBack ==
  phase = "replayed" /\ damaged = 0 /\ Len(input) = End(Len(written)) =>
    outcome = "clean" /\ records = written
=============================================================================
