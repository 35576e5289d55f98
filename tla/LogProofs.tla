----------------------------- MODULE LogProofs ------------------------------
(***************************************************************************)
(* Proofs about the append-only file, for any number of callers, records,  *)
(* record lengths and crashes: a running log keeps each part of Inv,       *)
(* restarts and crashes keep it, what follows from it, and the refinement  *)
(* of DurableLog.                                                          *)
(***************************************************************************)
EXTENDS Log, Integers, TLAPS

----------------------------------------------------------------------------
(***************************************************************************)
(* Sequences of entries, what a Write delivers, types, and the parts of Inv*)
(* a step of a running log keeps whatever the file holds.                  *)
(***************************************************************************)
\* Counting, apart from the flags of the log: arithmetic with 0 as Open leaves the
\* markers, ...
LEMMA Zeros == (\A b \in Nat : b + 0 = b) /\ 0 <= 0 /\ 0 - 0 = 0 /\ 0 + 0 = 0
  OBVIOUS

\* ... one more record, as Append counts it, ...
LEMMA OneMore == \A a, b \in Nat : (a + b) + 1 = a + (b + 1)
  OBVIOUS

\* ... and the position of a record that is not one of the first n.
LEMMA LastOf == \A n \in Nat : \A i \in 1..n + 1 : i \in 1..n \/ i = n + 1
  OBVIOUS

\* A buffer delivered up to the end of its last frame leaves nothing over.
LEMMA EndsThere ==
  ASSUME NEW b, NEW k, NEW t \in Nat, k = Len(b), Len(b) # 0, t = b[Len(b)].end
  PROVE  ~(t > IF k = 0 THEN 0 ELSE b[k].end)
  OBVIOUS

\* The fields of an entry, for proofs that keep Entry folded.
LEMMA EntryFields ==
  ASSUME NEW e \in Entry
  PROVE e.seq \in Nat \ {0} /\ e.end \in Nat \ {0} /\ e.rec \in Records
  BY DEF Entry

\* An entry (pending) is made of a sequence number, the offset of its end and its record.
LEMMA EntryIntro ==
  ASSUME NEW seq \in Nat \ {0}, NEW end \in Nat \ {0}, NEW rec \in Records
  PROVE [seq |-> seq, end |-> end, rec |-> rec] \in Entry
  BY DEF Entry

\* The batch that flush leaves behind and the history of a new log are sequences.
LEMMA Empties == <<>> \in Seq(Entry) /\ <<>> \in Seq(Records)
  OBVIOUS

\* The length of the batch, len(l.buf) in Append, is a natural number.
LEMMA BufLenType == ASSUME NEW es \in Seq(Entry) PROVE BufLen(es) \in Nat
<1>1. es # <<>> => es[Len(es)] \in Entry
  OBVIOUS
<1> QED
  BY <1>1, EntryFields DEF BufLen

\* cond.Broadcast changes where callers are, and only to places Await knows.
LEMMA BroadcastType ==
  ASSUME cpc \in [Callers -> {"idle", "await", "parked"}], Broadcast
  PROVE  cpc' \in [Callers -> {"idle", "await", "parked"}]
  BY DEF Broadcast

\* It moves nobody into or out of Await.
LEMMA BroadcastKeeps ==
  ASSUME cpc \in [Callers -> {"idle", "await", "parked"}], Broadcast, NEW c \in Callers
  PROVE  cpc'[c] # "idle" => cpc[c] # "idle"
  BY DEF Broadcast

\* The records that a call of Write delivers, as a sequence.
LEMMA SegmentType ==
  ASSUME NEW S, NEW m \in Int, NEW f(_), \A i \in 1..m : f(i) \in S
  PROVE  [i \in 1..m |-> f(i)] \in Seq(S)
<1>1. CASE m \in Nat
  BY <1>1
<1>2. CASE m \notin Nat
  <2>1. 1..m = 1..0
    BY <1>2
  <2> QED
    BY <2>1
<1> QED
  BY <1>1, <1>2

\* Append extends the buffer by what it adds to the history, and a longer
\* history still has what the batch holds.
LEMMA HoldsAppend ==
  ASSUME NEW es \in Seq(Entry), NEW n \in Nat, NEW h \in Seq(Records), NEW b \in Nat,
         NEW e \in Entry, Len(h) = b + n + Len(es), Holds(es, n, h, b),
         e.seq = n + Len(es) + 1, e.end > BufLen(es)
  PROVE  Holds(Append(es, e), n, Append(h, e.rec), b)
<1>0. e.rec \in Records
  BY EntryFields
<1>1. PICK fs : fs = Append(es, e)
  BY Zenon
<1>2. PICK g : g = Append(h, e.rec)
  BY Zenon
<1>3. /\ Len(fs) = Len(es) + 1 /\ fs[Len(es) + 1] = e
      /\ \A i \in 1..Len(es) : fs[i] = es[i]
  BY <1>1
<1>4. /\ \A i \in 1..Len(es) : g[b + n + i] = h[b + n + i]
      /\ g[b + n + Len(es) + 1] = e.rec
  BY <1>0, <1>2
<1>5. \A i \in 1..Len(es) : es[i].end <= BufLen(es)
  <2> SUFFICES ASSUME NEW i \in 1..Len(es) PROVE es[i].end <= BufLen(es)
    OBVIOUS
  <2>1. es # <<>> /\ es[i] \in Entry /\ es[Len(es)] \in Entry
    OBVIOUS
  <2>2. es[i].end \in Nat /\ es[Len(es)].end \in Nat
    BY <2>1, EntryFields
  <2>3. i < Len(es) => es[i].end < es[Len(es)].end
    BY DEF Holds
  <2>4. BufLen(es) = es[Len(es)].end
    BY <2>1 DEF BufLen
  <2> QED
    BY <2>2, <2>3, <2>4
<1>6. \A i \in 1..Len(fs) : fs[i].seq = n + i /\ fs[i].rec = g[b + n + i]
  <2>1. \A i \in 1..Len(es) : fs[i].seq = n + i /\ fs[i].rec = g[b + n + i]
    BY Zenon, <1>3, <1>4 DEF Holds
  <2>2. fs[Len(es) + 1].seq = n + (Len(es) + 1)
    BY <1>3
  <2>3. fs[Len(es) + 1].rec = g[b + n + (Len(es) + 1)]
    BY <1>3, <1>4
  <2>4. \A i \in 1..Len(fs) : i \in 1..Len(es) \/ i = Len(es) + 1
    BY <1>3
  <2> QED
    BY Zenon, <2>1, <2>2, <2>3, <2>4
<1>7. \A i, j \in 1..Len(fs) : i < j => fs[i].end < fs[j].end
  <2> SUFFICES ASSUME NEW i \in 1..Len(fs), NEW j \in 1..Len(fs), i < j
               PROVE  fs[i].end < fs[j].end
    OBVIOUS
  <2>1. i \in 1..Len(es) /\ es[i] \in Entry /\ fs[i] = es[i]
    BY <1>3
  <2>2. CASE j \in 1..Len(es)
    BY Zenon, <1>3, <2>1, <2>2 DEF Holds
  <2>3. CASE j = Len(es) + 1
    BY <1>3, <1>5, <2>1, <2>3, EntryFields, BufLenType
  <2>4. j \in 1..Len(es) \/ j = Len(es) + 1
    <3>1. Len(fs) = Len(es) + 1
      BY <1>3
    <3>2. Len(es) \in Nat
      OBVIOUS
    <3> QED
      BY <3>1, <3>2, LastOf, Zenon
  <2> QED
    BY <2>2, <2>3, <2>4
<1> QED
  BY Zenon, <1>1, <1>2, <1>6, <1>7 DEF Holds

\* The i-th entry that Append left in a batch has the i-th sequence number and record.
LEMMA HoldsSeq ==
  ASSUME NEW es, NEW n, NEW h, NEW b, Holds(es, n, h, b), NEW i \in 1..Len(es)
  PROVE  es[i].seq = n + i /\ es[i].rec = h[b + n + i]
  BY DEF Holds

\* What a batch holds of the history it still holds once Append has made that longer.
LEMMA HoldsLonger ==
  ASSUME NEW es \in Seq(Entry), NEW n \in Nat, NEW h \in Seq(Records), NEW b \in Nat,
         NEW r \in Records, b + n + Len(es) <= Len(h), Holds(es, n, h, b)
  PROVE  Holds(es, n, Append(h, r), b)
<1>1. \A i \in 1..Len(es) : Append(h, r)[b + n + i] = h[b + n + i]
  OBVIOUS
<1> QED
  BY <1>1 DEF Holds

\* A number of bytes delivers one number of entries, and more bytes no fewer.
LEMMA DeliversMono ==
  ASSUME NEW es \in Seq(Entry), NEW m \in Nat, NEW n \in Nat, m <= n,
         NEW k0 \in 0..Len(es), NEW k1 \in 0..Len(es),
         Delivers(es, k0, m), Delivers(es, k1, n)
  PROVE  k0 <= k1
<1> SUFFICES ASSUME k0 > k1 PROVE FALSE
  OBVIOUS
<1>1. es[k0] \in Entry /\ k0 \in 1..k0 /\ k0 \in k1+1..Len(es)
  OBVIOUS
<1>2. es[k0].end \in Nat
  BY <1>1, EntryFields
<1>3. es[k0].end <= m /\ es[k0].end > n
  BY <1>1 DEF Delivers
<1> QED
  BY <1>2, <1>3

\* advanceWritten finds one marker: a number of bytes delivers one number of records.
LEMMA DeliversUnique ==
  ASSUME NEW es \in Seq(Entry), NEW n \in Nat, NEW k0 \in 0..Len(es),
         NEW k1 \in 0..Len(es), Delivers(es, k0, n), Delivers(es, k1, n)
  PROVE  k0 = k1
<1>1. k0 <= k1 /\ k1 <= k0
  BY DeliversMono
<1> QED
  BY <1>1

\* All the bytes deliver all the entries.
LEMMA DeliversAll ==
  ASSUME NEW es \in Seq(Entry), es # <<>>, NEW k \in 0..Len(es), NEW n \in Nat,
         n = BufLen(es), Delivers(es, k, n)
  PROVE  k = Len(es) /\ n = es[Len(es)].end
<1>1. n = es[Len(es)].end /\ Len(es) \in 1..Len(es)
  BY DEF BufLen
<1>2. ~(es[Len(es)].end > n)
  BY <1>1
<1>3. Len(es) \notin k+1..Len(es)
  BY <1>2 DEF Delivers
<1> QED
  BY <1>1, <1>3

\* Every step of callers, writer, Close, OpenFile and crashes keeps the types.
LEMMA FlagsStep == TypeOK /\ [Next]_vars => FlagsOK'
<1> SUFFICES ASSUME TypeOK, [Next]_vars PROVE FlagsOK'
  OBVIOUS
<1>1. ASSUME NEW c \in Callers, NEW r \in Records, LogAppend(c, r) PROVE FlagsOK'
  BY <1>1 DEF LogAppend, TypeOK, FlagsOK, writerVars, diskVars
<1>2. ASSUME NEW c \in Callers, Await(c) PROVE FlagsOK'
  BY <1>2 DEF Await, AwaitError, AwaitReached, AwaitParks, AwaitReturns, TypeOK,
     FlagsOK, markers, flags, writerVars, diskVars, histVars
<1>3. CASE RunNotify
  BY Zenon, <1>3 DEF RunNotify, StartFlush, TypeOK, FlagsOK, markers, callVars,
     diskVars, histVars
<1>4. CASE RunTick
  BY Zenon, <1>4 DEF RunTick, StartFlush, TypeOK, FlagsOK, markers, callVars, diskVars,
     histVars
<1>5. CASE RunClose
  BY <1>5 DEF RunClose, StartFlush, TypeOK, FlagsOK, markers, callVars, diskVars,
     histVars
<1>6. CASE FlushSwap
  BY Zenon, <1>6 DEF FlushSwap, TypeOK, FlagsOK, markers, flags, callVars, diskVars,
     histVars
<1>7. CASE WriteCall
  BY <1>7 DEF WriteCall, TypeOK, FlagsOK, markers, flags, callVars, histVars
<1>8. CASE AdvanceWritten
  BY <1>8 DEF AdvanceWritten, TypeOK, FlagsOK, flags, diskVars, histVars
<1>9. CASE SyncCall
  BY ZenonT(30), <1>9 DEF SyncCall, TypeOK, FlagsOK, markers, flags, callVars, histVars
<1>10. CASE AdvanceSynced
  BY <1>10 DEF AdvanceSynced, TypeOK, FlagsOK, flags, diskVars, histVars
<1>11. CASE Fail
  BY <1>11 DEF Fail, TypeOK, FlagsOK, markers, diskVars, histVars
<1>12. CASE Report
  BY <1>12 DEF Report, TypeOK, FlagsOK, markers, callVars, diskVars, histVars
<1>13. CASE Finish
  BY <1>13 DEF Finish, TypeOK, FlagsOK, markers, diskVars, histVars
<1>14. CASE CloseBegins
  BY <1>14 DEF CloseBegins, CloseStep, TypeOK, FlagsOK, markers, writerVars, callVars,
     diskVars, histVars
<1>15. CASE CloseSignals
  BY <1>15 DEF CloseSignals, CloseStep, TypeOK, FlagsOK, markers, writerVars, callVars,
     diskVars, histVars
<1>16. CASE CloseReturns
  BY <1>16 DEF CloseReturns, CloseStep, TypeOK, FlagsOK, markers, writerVars, callVars,
     diskVars, histVars
<1>17. CASE CloseTimesOut
  BY <1>17 DEF CloseTimesOut, CloseStep, TypeOK, FlagsOK, markers, writerVars,
     callVars, diskVars, histVars
<1>18. CASE OpenNew
  BY <1>18 DEF OpenNew, Opened, TypeOK, FlagsOK, markers, flags, writerVars, callVars
<1>19. CASE OpenExisting
  BY Zenon, <1>19 DEF OpenExisting, Opened, TypeOK, FlagsOK, markers, flags,
     writerVars, callVars
<1>20. CASE OpenNewFails
  BY <1>20 DEF OpenNewFails, TypeOK, FlagsOK, markers, flags, writerVars, callVars,
     histVars
<1>21. CASE OpenRefused
  BY <1>21 DEF OpenRefused, TypeOK, FlagsOK, markers, flags, writerVars, callVars,
     diskVars, histVars
<1>22. CASE ProcessCrash
  BY Zenon, <1>22 DEF ProcessCrash, Reset, TypeOK, FlagsOK, diskVars
<1>23. CASE PowerLoss
  BY Zenon, <1>23 DEF PowerLoss, Reset, TypeOK, FlagsOK
<1>24. CASE UNCHANGED vars
  BY <1>24 DEF vars, TypeOK, FlagsOK, markers, flags, writerVars, callVars, diskVars,
     histVars
<1> QED
  BY <1>1, <1>2, <1>3, <1>4, <1>5, <1>6, <1>7, <1>8, <1>9, <1>10, <1>11, <1>12, <1>13,
     <1>14, <1>15, <1>16, <1>17, <1>18, <1>19, <1>20, <1>21, <1>22, <1>23, <1>24
     DEF Next, Writer, Flushing, LogClose, OpenFile, Crash

\* Every step keeps where callers, writer and Close are within what the code can reach.
LEMMA ControlStep == TypeOK /\ [Next]_vars => ControlOK'
<1> SUFFICES ASSUME TypeOK, [Next]_vars PROVE ControlOK'
  OBVIOUS
<1>1. ASSUME NEW c \in Callers, NEW r \in Records, LogAppend(c, r) PROVE ControlOK'
  BY <1>1 DEF LogAppend, TypeOK, ControlOK, writerVars, diskVars, Resume, SyncOrResume
<1>2. ASSUME NEW c \in Callers, Await(c) PROVE ControlOK'
  BY <1>2 DEF Await, AwaitError, AwaitReached, AwaitParks, AwaitReturns, TypeOK,
     ControlOK, markers, flags, writerVars, diskVars, histVars, Resume, SyncOrResume
<1>3. CASE RunNotify
  BY <1>3 DEF RunNotify, StartFlush, TypeOK, ControlOK, markers, callVars, diskVars,
     histVars, Resume, SyncOrResume
<1>4. CASE RunTick
  BY <1>4 DEF RunTick, StartFlush, TypeOK, ControlOK, markers, callVars, diskVars,
     histVars, Resume, SyncOrResume
<1>5. CASE RunClose
  BY <1>5 DEF RunClose, StartFlush, TypeOK, ControlOK, markers, callVars, diskVars,
     histVars, Resume, SyncOrResume
<1>6. CASE FlushSwap
  BY <1>6 DEF FlushSwap, TypeOK, ControlOK, markers, flags, callVars, diskVars,
     histVars, Resume, SyncOrResume
<1>7. CASE WriteCall
  BY <1>7 DEF WriteCall, TypeOK, ControlOK, markers, flags, callVars, histVars, Resume,
     SyncOrResume
<1>8. CASE AdvanceWritten
  BY <1>8 DEF AdvanceWritten, TypeOK, ControlOK, flags, diskVars, histVars, Resume,
     SyncOrResume
<1>9. CASE SyncCall
  BY <1>9 DEF SyncCall, TypeOK, ControlOK, markers, flags, callVars, histVars, Resume,
     SyncOrResume
<1>10. CASE AdvanceSynced
  BY <1>10 DEF AdvanceSynced, TypeOK, ControlOK, flags, diskVars, histVars, Resume,
     SyncOrResume
<1>11. CASE Fail
  BY <1>11 DEF Fail, TypeOK, ControlOK, markers, diskVars, histVars, Resume,
     SyncOrResume
<1>12. CASE Report
  BY <1>12 DEF Report, TypeOK, ControlOK, markers, callVars, diskVars, histVars,
     Resume, SyncOrResume
<1>13. CASE Finish
  BY <1>13 DEF Finish, TypeOK, ControlOK, markers, diskVars, histVars, Resume,
     SyncOrResume
<1>14. CASE CloseBegins
  BY <1>14 DEF CloseBegins, CloseStep, TypeOK, ControlOK, markers, writerVars,
     callVars, diskVars, histVars, Resume, SyncOrResume
<1>15. CASE CloseSignals
  BY <1>15 DEF CloseSignals, CloseStep, TypeOK, ControlOK, markers, writerVars,
     callVars, diskVars, histVars, Resume, SyncOrResume
<1>16. CASE CloseReturns
  BY <1>16 DEF CloseReturns, CloseStep, TypeOK, ControlOK, markers, writerVars,
     callVars, diskVars, histVars, Resume, SyncOrResume
<1>17. CASE CloseTimesOut
  BY <1>17 DEF CloseTimesOut, CloseStep, TypeOK, ControlOK, markers, writerVars,
     callVars, diskVars, histVars, Resume, SyncOrResume
<1>18. CASE OpenNew
  BY <1>18 DEF OpenNew, Opened, TypeOK, ControlOK, markers, flags, writerVars,
     callVars, Resume, SyncOrResume
<1>19. CASE OpenExisting
  BY <1>19 DEF OpenExisting, Opened, TypeOK, ControlOK, markers, flags, writerVars,
     callVars, Resume, SyncOrResume
<1>20. CASE OpenNewFails
  BY <1>20 DEF OpenNewFails, TypeOK, ControlOK, markers, flags, writerVars, callVars,
     histVars, Resume, SyncOrResume
<1>21. CASE OpenRefused
  BY <1>21 DEF OpenRefused, TypeOK, ControlOK, markers, flags, writerVars, callVars,
     diskVars, histVars
<1>22. CASE ProcessCrash
  BY <1>22 DEF ProcessCrash, Reset, TypeOK, ControlOK, diskVars, Resume, SyncOrResume
<1>23. CASE PowerLoss
  BY <1>23 DEF PowerLoss, Reset, TypeOK, ControlOK, Resume, SyncOrResume
<1>24. CASE UNCHANGED vars
  BY <1>24 DEF vars, TypeOK, ControlOK, markers, flags, writerVars, callVars, diskVars,
     histVars
<1> QED
  BY <1>1, <1>2, <1>3, <1>4, <1>5, <1>6, <1>7, <1>8, <1>9, <1>10, <1>11, <1>12, <1>13,
     <1>14, <1>15, <1>16, <1>17, <1>18, <1>19, <1>20, <1>21, <1>22, <1>23, <1>24
     DEF Next, Writer, Flushing, LogClose, OpenFile, Crash

\* Every step keeps the batch, the file and the markers in their types.
LEMMA DataStep == TypeOK /\ [Next]_vars => DataOK'
<1> SUFFICES ASSUME TypeOK, [Next]_vars PROVE DataOK'
  OBVIOUS
<1>1. ASSUME NEW c \in Callers, NEW r \in Records, LogAppend(c, r) PROVE DataOK'
  <2> USE <1>1 DEF LogAppend
  <2>1. PICK n \in RecLens : records' = Append(records,
          [seq |-> appended + 1, end |-> BufLen(records) + n, rec |-> r])
    OBVIOUS
  <2>2. BufLen(records) + n \in Nat \ {0}
    <3>1. BufLen(records) \in Nat
      BY BufLenType DEF TypeOK, DataOK
    <3>2. n \in Nat \ {0}
      BY RecLensAssumption
    <3> QED
      BY <3>1, <3>2
  <2>3. records' \in Seq(Entry)
    BY <2>1, <2>2, EntryIntro DEF TypeOK, DataOK
  <2>4. UNCHANGED <<batch, written, synced, total, file, durable, base, acked, crashes>>
    BY DEF TypeOK, DataOK, markers, flags, writerVars, callVars, diskVars, histVars
  <2>5. hist' \in Seq(Records) /\ appended' \in Nat
    BY DEF TypeOK, DataOK
  <2>6. cpc' \in [Callers -> {"idle", "await", "parked"}] /\ cseq' \in [Callers -> Nat]
    BY DEF TypeOK, DataOK
  <2> QED
    BY <2>3, <2>4, <2>5, <2>6 DEF TypeOK, DataOK
<1>2. ASSUME NEW c \in Callers, Await(c) PROVE DataOK'
  <2> USE <1>2 DEF Await, AwaitError, AwaitReached, AwaitParks, AwaitReturns
  <2>1. UNCHANGED <<records, batch, appended, written, synced, total, cseq, file,
                    durable, base, hist, crashes>>
    BY DEF TypeOK, DataOK, markers, flags, writerVars, callVars, diskVars, histVars
  <2>2. cpc' \in [Callers -> {"idle", "await", "parked"}]
    BY Zenon DEF TypeOK, DataOK
  <2>3. base + cseq[c] \in Nat
    BY DEF TypeOK, DataOK
  <2>4. acked' \in {acked, acked \cup {base + cseq[c]}}
    BY DEF TypeOK, DataOK, markers, flags, writerVars, callVars, diskVars, histVars
  <2> QED
    BY <2>1, <2>2, <2>3, <2>4 DEF TypeOK, DataOK
<1>3. CASE RunNotify
  BY <1>3 DEF RunNotify, StartFlush, TypeOK, DataOK, markers, callVars, diskVars,
     histVars
<1>4. CASE RunTick
  BY <1>4 DEF RunTick, StartFlush, TypeOK, DataOK, markers, callVars, diskVars, histVars
<1>5. CASE RunClose
  BY <1>5 DEF RunClose, StartFlush, TypeOK, DataOK, markers, callVars, diskVars,
     histVars
<1>6. CASE FlushSwap
  <2> USE <1>6 DEF FlushSwap
  <2>1. UNCHANGED <<appended, written, synced, cpc, cseq, file, durable, base, hist,
                    acked, crashes>>
    BY DEF TypeOK, DataOK, markers, flags, writerVars, callVars, diskVars, histVars
  <2>2. records' \in Seq(Entry) /\ batch' \in Seq(Entry)
    BY Zenon, Empties DEF TypeOK, DataOK
  <2>3. total' \in Nat
    BY DEF TypeOK, DataOK
  <2> QED
    BY <2>1, <2>2, <2>3 DEF TypeOK, DataOK
<1>7. CASE WriteCall
  <2>1. PICK n \in 0..BufLen(batch) - total, k0 \in 0..Len(batch), k1 \in 0..Len(batch) :
          /\ total' = total + n
          /\ file' = file \o [i \in 1..k1 - k0 |-> batch[k0 + i].rec]
    BY Zenon, <1>7 DEF WriteCall, TypeOK, DataOK, markers, flags, callVars, histVars
  <2>2. UNCHANGED <<records, batch, appended, written, synced, cpc, cseq, durable,
                    base, hist, acked, crashes>>
    BY <1>7 DEF WriteCall, TypeOK, DataOK, markers, flags, callVars, histVars
  <2>3. \A i \in 1..k1 - k0 : batch[k0 + i].rec \in Records
    BY EntryFields DEF TypeOK, DataOK
  <2>4. [i \in 1..k1 - k0 |-> batch[k0 + i].rec] \in Seq(Records)
    BY <2>3, SegmentType
  <2>5. file' \in Seq(Records)
    BY <2>1, <2>4 DEF TypeOK, DataOK
  <2>6. total' \in Nat
    BY <2>1, BufLenType DEF TypeOK, DataOK
  <2> QED
    BY <2>2, <2>5, <2>6 DEF TypeOK, DataOK
<1>8. CASE AdvanceWritten
  <2>1. PICK k \in 0..Len(batch) : written' = IF k = 0 THEN written ELSE batch[k].seq
    BY <1>8 DEF AdvanceWritten, TypeOK, DataOK, flags, diskVars, histVars
  <2>2. written' \in Nat
    BY <2>1, EntryFields DEF TypeOK, DataOK
  <2> QED
    BY <1>8, <2>2, BroadcastType DEF AdvanceWritten, TypeOK, DataOK, flags, diskVars,
       histVars
<1>9. CASE SyncCall
  BY <1>9 DEF SyncCall, TypeOK, DataOK, markers, flags, callVars, histVars
<1>10. CASE AdvanceSynced
  BY <1>10, BroadcastType DEF AdvanceSynced, TypeOK, DataOK, flags, diskVars, histVars
<1>11. CASE Fail
  BY <1>11, BroadcastType DEF Fail, TypeOK, DataOK, markers, diskVars, histVars
<1>12. CASE Report
  BY <1>12 DEF Report, TypeOK, DataOK, markers, callVars, diskVars, histVars
<1>13. CASE Finish
  BY <1>13, BroadcastType DEF Finish, TypeOK, DataOK, markers, diskVars, histVars
<1>14. CASE CloseBegins
  BY <1>14 DEF CloseBegins, CloseStep, TypeOK, DataOK, markers, writerVars, callVars,
     diskVars, histVars
<1>15. CASE CloseSignals
  BY <1>15 DEF CloseSignals, CloseStep, TypeOK, DataOK, markers, writerVars, callVars,
     diskVars, histVars
<1>16. CASE CloseReturns
  BY <1>16 DEF CloseReturns, CloseStep, TypeOK, DataOK, markers, writerVars, callVars,
     diskVars, histVars
<1>17. CASE CloseTimesOut
  BY <1>17 DEF CloseTimesOut, CloseStep, TypeOK, DataOK, markers, writerVars, callVars,
     diskVars, histVars
<1>18. CASE OpenNew
  BY <1>18 DEF OpenNew, Opened, TypeOK, DataOK, markers, flags, writerVars, callVars
<1>19. CASE OpenExisting
  BY <1>19 DEF OpenExisting, Opened, TypeOK, DataOK, markers, flags, writerVars,
     callVars
<1>20. CASE OpenNewFails
  BY <1>20 DEF OpenNewFails, TypeOK, DataOK, markers, flags, writerVars, callVars,
     histVars
<1>21. CASE OpenRefused
  BY <1>21 DEF OpenRefused, TypeOK, DataOK, markers, flags, writerVars, callVars,
     diskVars, histVars
<1>22. CASE ProcessCrash
  BY <1>22 DEF ProcessCrash, Reset, TypeOK, DataOK, diskVars
<1>23. CASE PowerLoss
  BY <1>23 DEF PowerLoss, Reset, TypeOK, DataOK
<1>24. CASE UNCHANGED vars
  BY <1>24 DEF vars, TypeOK, DataOK, markers, flags, writerVars, callVars, diskVars,
     histVars
<1> QED
  BY Zenon, <1>1, <1>2, <1>3, <1>4, <1>5, <1>6, <1>7, <1>8, <1>9, <1>10, <1>11, <1>12,
     <1>13,
     <1>14, <1>15, <1>16, <1>17, <1>18, <1>19, <1>20, <1>21, <1>22, <1>23, <1>24
     DEF Next, Writer, Flushing, LogClose, OpenFile, Crash

\* The steps of a running process: everything but OpenFile and crashes.
RunningStep == \/ \E c \in Callers : Await(c) \/ \E r \in Records : LogAppend(c, r)
           \/ Writer \/ LogClose

\* In a running log that failed the writer never writes again, and fail reports a failure only.
LEMMA FailInvStep ==
  ASSUME TypeOK, FailInv, proc = "up", RunningStep
  PROVE  FailInv'
<1>1. ASSUME NEW c \in Callers, NEW r \in Records, LogAppend(c, r) PROVE FailInv'
  BY <1>1 DEF LogAppend, TypeOK, FlagsOK, ControlOK, FailInv, Resume, SyncOrResume,
     writerVars, diskVars
<1>2. ASSUME NEW c \in Callers, Await(c) PROVE FailInv'
  BY <1>2 DEF Await, AwaitError, AwaitReached, AwaitParks, AwaitReturns, TypeOK,
     FlagsOK, ControlOK, FailInv, Resume, SyncOrResume, markers, flags, writerVars,
     diskVars, histVars
<1>3. CASE RunNotify
  BY <1>3 DEF RunNotify, StartFlush, TypeOK, FlagsOK, ControlOK, FailInv, Resume,
     SyncOrResume, markers, callVars, diskVars, histVars
<1>4. CASE RunTick
  BY <1>4 DEF RunTick, StartFlush, TypeOK, FlagsOK, ControlOK, FailInv, Resume,
     SyncOrResume, markers, callVars, diskVars, histVars
<1>5. CASE RunClose
  BY <1>5 DEF RunClose, StartFlush, TypeOK, FlagsOK, ControlOK, FailInv, Resume,
     SyncOrResume, markers, callVars, diskVars, histVars
<1>6. CASE FlushSwap
  BY <1>6 DEF FlushSwap, TypeOK, FlagsOK, ControlOK, FailInv, Resume, SyncOrResume,
     markers, flags, callVars, diskVars, histVars
<1>7. CASE WriteCall
  BY <1>7 DEF WriteCall, TypeOK, FlagsOK, ControlOK, FailInv, Resume, SyncOrResume,
     markers, flags, callVars, histVars
<1>8. CASE AdvanceWritten
  BY <1>8 DEF AdvanceWritten, TypeOK, FlagsOK, ControlOK, FailInv, Resume,
     SyncOrResume, flags, diskVars, histVars
<1>9. CASE SyncCall
  BY <1>9 DEF SyncCall, TypeOK, FlagsOK, ControlOK, FailInv, Resume, SyncOrResume,
     markers, flags, callVars, histVars
<1>10. CASE AdvanceSynced
  BY <1>10 DEF AdvanceSynced, TypeOK, FlagsOK, ControlOK, FailInv, Resume,
     SyncOrResume, flags, diskVars, histVars
<1>11. CASE Fail
  BY <1>11 DEF Fail, TypeOK, FlagsOK, ControlOK, FailInv, Resume, SyncOrResume,
     markers, diskVars, histVars
<1>12. CASE Report
  BY <1>12 DEF Report, TypeOK, FlagsOK, ControlOK, FailInv, Resume, SyncOrResume,
     markers, callVars, diskVars, histVars
<1>13. CASE Finish
  BY <1>13 DEF Finish, TypeOK, FlagsOK, ControlOK, FailInv, Resume, SyncOrResume,
     markers, diskVars, histVars
<1>14. CASE LogClose
  BY <1>14 DEF LogClose, CloseBegins, CloseSignals, CloseReturns, CloseTimesOut,
     CloseStep, TypeOK, FlagsOK, ControlOK, FailInv, Resume, SyncOrResume, markers,
     writerVars, callVars, diskVars, histVars
<1> QED
  BY <1>1, <1>2, <1>3, <1>4, <1>5, <1>6, <1>7, <1>8, <1>9, <1>10, <1>11, <1>12, <1>13,
     <1>14 DEF RunningStep, Writer, Flushing

\* A step of a running log keeps what Append returned to each caller in range.
LEMMA CallerInvStep ==
  ASSUME TypeOK, CallerInv, proc = "up", RunningStep
  PROVE  CallerInv'
<1>1. ASSUME NEW c \in Callers, NEW r \in Records, LogAppend(c, r) PROVE CallerInv'
  BY <1>1 DEF LogAppend, TypeOK, DataOK, CallerInv, writerVars, diskVars
<1>2. ASSUME NEW c \in Callers, Await(c) PROVE CallerInv'
  BY <1>2 DEF Await, AwaitError, AwaitReached, AwaitParks, AwaitReturns, TypeOK,
     DataOK, CallerInv, markers, flags, writerVars, diskVars, histVars
<1>3. CASE RunNotify
  BY <1>3 DEF RunNotify, StartFlush, TypeOK, DataOK, CallerInv, markers, callVars,
     diskVars, histVars
<1>4. CASE RunTick
  BY <1>4 DEF RunTick, StartFlush, TypeOK, DataOK, CallerInv, markers, callVars,
     diskVars, histVars
<1>5. CASE RunClose
  BY <1>5 DEF RunClose, StartFlush, TypeOK, DataOK, CallerInv, markers, callVars,
     diskVars, histVars
<1>6. CASE FlushSwap
  BY <1>6 DEF FlushSwap, TypeOK, DataOK, CallerInv, markers, flags, callVars, diskVars,
     histVars
<1>7. CASE WriteCall
  BY <1>7 DEF WriteCall, TypeOK, DataOK, CallerInv, markers, flags, callVars, histVars
<1>8. CASE AdvanceWritten
  BY <1>8, BroadcastKeeps DEF AdvanceWritten, TypeOK, DataOK, CallerInv, flags,
     diskVars, histVars
<1>9. CASE SyncCall
  BY <1>9 DEF SyncCall, TypeOK, DataOK, CallerInv, markers, flags, callVars, histVars
<1>10. CASE AdvanceSynced
  BY <1>10, BroadcastKeeps DEF AdvanceSynced, TypeOK, DataOK, CallerInv, flags,
     diskVars, histVars
<1>11. CASE Fail
  BY <1>11, BroadcastKeeps DEF Fail, TypeOK, DataOK, CallerInv, markers, diskVars,
     histVars
<1>12. CASE Report
  BY <1>12 DEF Report, TypeOK, DataOK, CallerInv, markers, callVars, diskVars, histVars
<1>13. CASE Finish
  BY <1>13, BroadcastKeeps DEF Finish, TypeOK, DataOK, CallerInv, markers, diskVars,
     histVars
<1>14. CASE LogClose
  BY <1>14 DEF LogClose, CloseBegins, CloseSignals, CloseReturns, CloseTimesOut,
     CloseStep, TypeOK, DataOK, CallerInv, markers, writerVars, callVars, diskVars,
     histVars
<1> QED
  BY <1>1, <1>2, <1>3, <1>4, <1>5, <1>6, <1>7, <1>8, <1>9, <1>10, <1>11, <1>12, <1>13,
     <1>14 DEF RunningStep, Writer, Flushing

\* A step of a running log keeps the stages of Close and of the last flush in order.
LEMMA CloseInvStep ==
  ASSUME TypeOK, CloseInv, FailInv, MarkerInv, proc = "up", RunningStep
  PROVE  CloseInv'
<1>1. ASSUME NEW c \in Callers, NEW r \in Records, LogAppend(c, r) PROVE CloseInv'
  <2>1. ~closing /\ ~closed /\ ~exiting /\ wpc \notin {"finish", "done"}
    BY <1>1 DEF LogAppend, Refusing, TypeOK, FlagsOK, ControlOK, CloseInv, FailInv,
       MarkerInv, Resume, SyncOrResume, writerVars, diskVars
  <2>2. UNCHANGED <<failed, closing, closed, closeCh, closer, wpc, forceSync,
                    exiting>>
    BY <1>1 DEF LogAppend, TypeOK, FlagsOK, ControlOK, CloseInv, FailInv, MarkerInv,
       Resume, SyncOrResume, writerVars, diskVars
  <2> QED
    BY <2>1, <2>2 DEF CloseInv, FailInv, MarkerInv, Resume, SyncOrResume
<1>2. ASSUME NEW c \in Callers, Await(c) PROVE CloseInv'
  BY <1>2 DEF Await, AwaitError, AwaitReached, AwaitParks, AwaitReturns, TypeOK,
     FlagsOK, ControlOK, CloseInv, FailInv, MarkerInv, Resume, SyncOrResume, markers,
     flags, writerVars, diskVars, histVars
<1>3. CASE RunNotify
  BY <1>3 DEF RunNotify, StartFlush, TypeOK, FlagsOK, ControlOK, CloseInv, FailInv,
     MarkerInv, Resume, SyncOrResume, markers, callVars, diskVars, histVars
<1>4. CASE RunTick
  BY <1>4 DEF RunTick, StartFlush, TypeOK, FlagsOK, ControlOK, CloseInv, FailInv,
     MarkerInv, Resume, SyncOrResume, markers, callVars, diskVars, histVars
<1>5. CASE RunClose
  BY <1>5 DEF RunClose, StartFlush, TypeOK, FlagsOK, ControlOK, CloseInv, FailInv,
     MarkerInv, Resume, SyncOrResume, markers, callVars, diskVars, histVars
<1>6. CASE FlushSwap
  BY <1>6 DEF FlushSwap, TypeOK, FlagsOK, ControlOK, CloseInv, FailInv, MarkerInv,
     Resume, SyncOrResume, markers, flags, callVars, diskVars, histVars
<1>7. CASE WriteCall
  BY <1>7 DEF WriteCall, TypeOK, FlagsOK, ControlOK, CloseInv, FailInv, MarkerInv,
     Resume, SyncOrResume, markers, flags, callVars, histVars
<1>8. CASE AdvanceWritten
  BY <1>8 DEF AdvanceWritten, TypeOK, FlagsOK, ControlOK, CloseInv, FailInv, MarkerInv,
     Resume, SyncOrResume, flags, diskVars, histVars
<1>9. CASE SyncCall
  BY <1>9 DEF SyncCall, TypeOK, FlagsOK, ControlOK, CloseInv, FailInv, MarkerInv,
     Resume, SyncOrResume, markers, flags, callVars, histVars
<1>10. CASE AdvanceSynced
  BY <1>10 DEF AdvanceSynced, TypeOK, FlagsOK, ControlOK, CloseInv, FailInv, MarkerInv,
     Resume, SyncOrResume, flags, diskVars, histVars
<1>11. CASE Fail
  BY <1>11 DEF Fail, TypeOK, FlagsOK, ControlOK, CloseInv, FailInv, MarkerInv, Resume,
     SyncOrResume, markers, diskVars, histVars
<1>12. CASE Report
  BY <1>12 DEF Report, TypeOK, FlagsOK, ControlOK, CloseInv, FailInv, MarkerInv,
     Resume, SyncOrResume, markers, callVars, diskVars, histVars
<1>13. CASE Finish
  BY <1>13 DEF Finish, TypeOK, FlagsOK, ControlOK, CloseInv, FailInv, MarkerInv,
     Resume, SyncOrResume, markers, diskVars, histVars
<1>14. CASE LogClose
  <2>1. UNCHANGED <<failed, closed, wpc, forceSync, exiting, records, synced, written,
                    durable, file>>
    BY <1>14 DEF LogClose, CloseBegins, CloseSignals, CloseReturns, CloseTimesOut,
       CloseStep, TypeOK, FlagsOK, ControlOK, CloseInv, FailInv, MarkerInv, Resume,
       SyncOrResume, markers, writerVars, callVars, diskVars, histVars
  <2>2. (closing => closing') /\ (closer' # "idle" => closing')
    BY <1>14 DEF LogClose, CloseBegins, CloseSignals, CloseReturns, CloseTimesOut,
       CloseStep, TypeOK, FlagsOK, ControlOK, CloseInv, FailInv, MarkerInv, Resume,
       SyncOrResume, markers, writerVars, callVars, diskVars, histVars
  <2>3. closeCh' => closing'
    BY Zenon, <1>14 DEF LogClose, CloseBegins, CloseSignals, CloseReturns,
       CloseTimesOut, CloseStep, TypeOK, FlagsOK, ControlOK, CloseInv, FailInv,
       MarkerInv, Resume, SyncOrResume, markers, writerVars, callVars, diskVars,
       histVars
  <2> QED
    BY <2>1, <2>2, <2>3 DEF CloseInv, FailInv, MarkerInv, Resume, SyncOrResume
<1> QED
  BY ZenonT(30), <1>1, <1>2, <1>3, <1>4, <1>5, <1>6, <1>7, <1>8, <1>9, <1>10, <1>11,
     <1>12, <1>13,
     <1>14 DEF RunningStep, Writer, Flushing

\* written moves past the entries delivered.
LEMMA WrittenAdvances ==
  ASSUME TypeOK, BufferInv, AdvanceWritten
  PROVE  /\ Holds(batch, written, hist, base) /\ batch # <<>>
         /\ written + Len(batch) + Len(records) = appended
         /\ \E k \in 0..Len(batch) : Delivers(batch, k, total) /\ written' = written + k
<1>1. /\ Holds(batch, written, hist, base) /\ batch # <<>>
      /\ written + Len(batch) + Len(records) = appended
  BY DEF AdvanceWritten, BufferInv, Delivering
<1>2. PICK k \in 0..Len(batch) : /\ Delivers(batch, k, total)
                                 /\ written' = IF k = 0 THEN written ELSE batch[k].seq
  BY DEF AdvanceWritten
<1>3. written' = written + k
  <2>1. CASE k = 0
    BY <1>2, <2>1 DEF TypeOK, DataOK
  <2>2. CASE k # 0
    <3>1. k \in 1..Len(batch)
      BY <2>2 DEF TypeOK, DataOK
    <3> QED
      BY <1>1, <1>2, <2>2, <3>1, HoldsSeq
  <2> QED
    BY <2>1, <2>2
<1> QED
  BY <1>1, <1>2, <1>3

\* A step of a running log keeps synced, written and appended in order.
LEMMA MarkerInvStep ==
  ASSUME TypeOK, MarkerInv, BufferInv, FileInv, DiskInv, proc = "up", RunningStep
  PROVE  MarkerInv'
<1>1. ASSUME NEW c \in Callers, NEW r \in Records, LogAppend(c, r) PROVE MarkerInv'
  BY <1>1 DEF LogAppend, TypeOK, DataOK, MarkerInv, Resume, SyncOrResume, writerVars,
     diskVars
<1>2. ASSUME NEW c \in Callers, Await(c) PROVE MarkerInv'
  BY <1>2 DEF Await, AwaitError, AwaitReached, AwaitParks, AwaitReturns, TypeOK,
     DataOK, MarkerInv, Resume, SyncOrResume, markers, flags, writerVars, diskVars,
     histVars
<1>3. CASE RunNotify
  BY <1>3 DEF RunNotify, StartFlush, TypeOK, DataOK, MarkerInv, Resume, SyncOrResume,
     markers, callVars, diskVars, histVars
<1>4. CASE RunTick
  BY <1>4 DEF RunTick, StartFlush, TypeOK, DataOK, MarkerInv, Resume, SyncOrResume,
     markers, callVars, diskVars, histVars
<1>5. CASE RunClose
  BY <1>5 DEF RunClose, StartFlush, TypeOK, DataOK, MarkerInv, Resume, SyncOrResume,
     markers, callVars, diskVars, histVars
<1>6. CASE FlushSwap
  BY <1>6 DEF FlushSwap, TypeOK, DataOK, MarkerInv, Resume, SyncOrResume, markers,
     flags, callVars, diskVars, histVars
<1>7. CASE WriteCall
  BY <1>7 DEF WriteCall, TypeOK, DataOK, MarkerInv, Resume, SyncOrResume, markers,
     flags, callVars, histVars
<1>8. CASE AdvanceWritten
  <2>1. PICK k \in 0..Len(batch) : written' = written + k
    BY <1>8, WrittenAdvances
  <2>3. written + Len(batch) + Len(records) = appended
    BY <1>8, WrittenAdvances
  <2>4. wpc' # "advanceSynced"
    BY <1>8 DEF AdvanceWritten, TypeOK, DataOK, MarkerInv, Resume, SyncOrResume, flags,
       diskVars, histVars
  <2>5. UNCHANGED <<appended, synced, base, durable>>
    BY <1>8 DEF AdvanceWritten, TypeOK, DataOK, MarkerInv, Resume, SyncOrResume, flags,
       diskVars, histVars
  <2> QED
    BY <2>1, <2>3, <2>4, <2>5 DEF TypeOK, DataOK, MarkerInv, Resume, SyncOrResume
<1>9. CASE SyncCall
  BY <1>9 DEF SyncCall, DiskInv, Delivering, FileInv, TypeOK, DataOK, MarkerInv,
     Resume, SyncOrResume, markers, flags, callVars, histVars
<1>10. CASE AdvanceSynced
  <2>1. synced' = written /\ wpc' # "advanceSynced" /\ UNCHANGED <<written, appended, base, durable>>
    BY <1>10 DEF AdvanceSynced, Resume, TypeOK, DataOK, MarkerInv, SyncOrResume, flags,
       diskVars, histVars
  <2>2. durable = Len(file) /\ Len(file) = base + written
    BY <1>10 DEF AdvanceSynced, FileInv, Delivering, TypeOK, DataOK, MarkerInv, Resume,
       SyncOrResume, flags, diskVars, histVars
  <2>3. written <= appended
    BY DEF MarkerInv, Resume, SyncOrResume
  <2> QED
    BY <2>1, <2>2, <2>3 DEF TypeOK, DataOK, MarkerInv, Resume, SyncOrResume
<1>11. CASE Fail
  BY <1>11 DEF Fail, TypeOK, DataOK, MarkerInv, Resume, SyncOrResume, markers,
     diskVars, histVars
<1>12. CASE Report
  BY <1>12 DEF Report, TypeOK, DataOK, MarkerInv, Resume, SyncOrResume, markers,
     callVars, diskVars, histVars
<1>13. CASE Finish
  BY <1>13 DEF Finish, TypeOK, DataOK, MarkerInv, Resume, SyncOrResume, markers,
     diskVars, histVars
<1>14. CASE LogClose
  BY <1>14 DEF LogClose, CloseBegins, CloseSignals, CloseReturns, CloseTimesOut,
     CloseStep, TypeOK, DataOK, MarkerInv, Resume, SyncOrResume, markers, writerVars,
     callVars, diskVars, histVars
<1> QED
  BY <1>1, <1>2, <1>3, <1>4, <1>5, <1>6, <1>7, <1>8, <1>9, <1>10, <1>11, <1>12, <1>13,
     <1>14 DEF RunningStep, Writer, Flushing

----------------------------------------------------------------------------
(***************************************************************************)
(* The buffer, the batch and the file: a step of a running log keeps       *)
(* BufferInv, FileInv and DiskInv.                                         *)
(***************************************************************************)
\* Steps that leave the records where they are.
LEMMA BufferKept ==
  ASSUME BufferInv, UNCHANGED <<records, appended, hist, base, batch, written>>,
         Delivering' => Delivering,
         wpc' \notin {"write", "advanceWritten", "fail"} /\ ~failed' =>
           wpc \notin {"write", "advanceWritten", "fail"} /\ ~failed
  PROVE  BufferInv'
  BY DEF BufferInv

\* A step of a running log keeps the batches what follows the written records.
LEMMA BufferInvStep ==
  ASSUME TypeOK, BufferInv, FileInv, FailInv, proc = "up", RunningStep
  PROVE  BufferInv'
<1>1. ASSUME NEW c \in Callers, NEW r \in Records, LogAppend(c, r) PROVE BufferInv'
  <2>1. PICK n \in RecLens : records' = Append(records,
          [seq |-> appended + 1, end |-> BufLen(records) + n, rec |-> r])
    BY <1>1 DEF LogAppend, TypeOK, DataOK, FlagsOK, ControlOK, writerVars, diskVars
  <2>2. /\ appended' = appended + 1 /\ hist' = Append(hist, r)
        /\ UNCHANGED <<base, batch, written, wpc, failed>>
    BY <1>1 DEF LogAppend, TypeOK, DataOK, FlagsOK, ControlOK, writerVars, diskVars
  <2>0. /\ Len(hist) = base + appended /\ Len(records) <= appended
        /\ Holds(records, appended - Len(records), hist, base)
        /\ Delivering => written + Len(batch) + Len(records) = appended
        /\ wpc \notin {"write", "advanceWritten", "fail"} /\ ~failed =>
             written + Len(records) = appended
    BY DEF BufferInv, TypeOK, DataOK, FlagsOK, ControlOK
  <2>3. BufLen(records) \in Nat
    BY BufLenType DEF TypeOK, DataOK, FlagsOK, ControlOK
  <2>4. [seq |-> appended + 1, end |-> BufLen(records) + n, rec |-> r] \in Entry
    <3>1. n \in Nat \ {0}
      BY RecLensAssumption
    <3>2. appended + 1 \in Nat \ {0} /\ BufLen(records) + n \in Nat \ {0}
      BY <2>3, <3>1 DEF TypeOK, DataOK, FlagsOK, ControlOK
    <3> QED
      BY <3>2, EntryIntro
  <2>5. Len(hist') = base' + appended' /\ Len(records') = Len(records) + 1
    <3>1. Len(Append(hist, r)) = Len(hist) + 1
      OBVIOUS
    <3>2. Len(records') = Len(records) + 1
      BY <2>1, <2>4
    <3>3. Len(hist) = base + appended /\ base \in Nat /\ appended \in Nat
      BY <2>0 DEF TypeOK, DataOK, FlagsOK, ControlOK
    <3>4. hist' = Append(hist, r) /\ base' = base /\ appended' = appended + 1
      BY <2>2
    <3> QED
      BY <3>1, <3>2, <3>3, <3>4, OneMore, Zenon
  <2>6. Holds(records, appended - Len(records), hist, base)'
    <3> DEFINE e == [seq |-> appended + 1, end |-> BufLen(records) + n, rec |-> r]
    <3>1. PICK m \in Nat : m = appended - Len(records)
      <4>1. Len(records) <= appended
        BY <2>0
      <4>2. Len(records) \in Nat /\ appended \in Nat
        BY DEF TypeOK, DataOK, FlagsOK, ControlOK
      <4>3. appended - Len(records) \in Nat
        BY <4>1, <4>2
      <4> QED
        BY Zenon, <4>3
    <3>2. Holds(records, m, hist, base) /\ Len(hist) = base + m + Len(records)
      BY <2>0, <3>1 DEF TypeOK, DataOK, FlagsOK, ControlOK
    <3>3. e.end > BufLen(records) /\ e.seq = m + Len(records) + 1 /\ e.rec = r
      <4>1. n \in Nat \ {0}
        BY RecLensAssumption
      <4>2. BufLen(records) + n > BufLen(records)
        BY <2>3, <4>1
      <4>3. Len(records) \in Nat /\ appended \in Nat
        BY DEF TypeOK, DataOK, FlagsOK, ControlOK
      <4>4. appended + 1 = m + Len(records) + 1
        BY <3>1, <4>3
      <4> QED
        BY <4>2, <4>4
    <3> HIDE DEF e
    <3>4. Holds(Append(records, e), m, Append(hist, r), base)
      BY Zenon, <2>4, <3>2, <3>3, HoldsAppend DEF e, TypeOK, DataOK, FlagsOK, ControlOK
    <3>5. m = appended' - Len(records')
      BY <2>2, <2>5, <3>1 DEF TypeOK, DataOK, FlagsOK, ControlOK
    <3> QED
      BY <2>1, <2>2, <3>4, <3>5 DEF e
  <2>7. Delivering => Holds(batch, written, hist, base)'
    BY <2>2, HoldsLonger DEF BufferInv, TypeOK, DataOK, FlagsOK, ControlOK
  <2>8. Delivering => written + Len(batch) + Len(records') = appended'
    BY <2>0, <2>2, <2>5 DEF TypeOK, DataOK, FlagsOK, ControlOK
  <2>9. wpc \notin {"write", "advanceWritten", "fail"} /\ ~failed =>
          written + Len(records') = appended'
    <3>1. written + Len(records) = appended => written + Len(records') = appended'
      BY <2>2, <2>5 DEF TypeOK, DataOK, FlagsOK, ControlOK
    <3> QED
      BY <2>0, <3>1
  <2>10. Len(records') <= appended'
    BY <2>2, <2>5 DEF BufferInv, TypeOK, DataOK, FlagsOK, ControlOK
  <2> QED
    BY <2>2, <2>5, <2>6, <2>7, <2>8, <2>9, <2>10 DEF BufferInv, Delivering
<1>2. ASSUME NEW c \in Callers, Await(c) PROVE BufferInv'
  BY <1>2, BufferKept DEF Await, AwaitError, AwaitReached, AwaitParks, AwaitReturns,
     Delivering, Resume, SyncOrResume, TypeOK, DataOK, FlagsOK, ControlOK, markers,
     flags, writerVars, diskVars, histVars
<1>3. CASE RunNotify
  BY <1>3, BufferKept DEF RunNotify, StartFlush, Delivering, Resume, SyncOrResume,
     TypeOK, DataOK, FlagsOK, ControlOK, markers, callVars, diskVars, histVars
<1>4. CASE RunTick
  BY <1>4, BufferKept DEF RunTick, StartFlush, Delivering, Resume, SyncOrResume,
     TypeOK, DataOK, FlagsOK, ControlOK, markers, callVars, diskVars, histVars
<1>5. CASE RunClose
  BY <1>5, BufferKept DEF RunClose, StartFlush, Delivering, Resume, SyncOrResume,
     TypeOK, DataOK, FlagsOK, ControlOK, markers, callVars, diskVars, histVars
<1>6. CASE FlushSwap
  <2>1. CASE failed
    BY <1>6, <2>1, BufferKept DEF FlushSwap, Delivering, Resume, TypeOK, DataOK,
       FlagsOK, ControlOK, markers, flags, callVars, diskVars, histVars
  <2>2. CASE ~failed
    <3>1. /\ batch' = records /\ records' = <<>> /\ wpc' # "advanceWritten"
          /\ wpc' = "write" => records # <<>>
          /\ UNCHANGED <<appended, written, hist, base, failed>>
      BY <1>6, <2>2 DEF FlushSwap, Resume, SyncOrResume, TypeOK, DataOK, FlagsOK,
         ControlOK, markers, flags, callVars, diskVars, histVars
    <3>2. written + Len(records) = appended
      BY <1>6, <2>2 DEF FlushSwap, BufferInv, TypeOK, DataOK, FlagsOK, ControlOK,
         markers, flags, callVars, diskVars, histVars
    <3>3. Holds(<<>>, appended, hist, base)
      BY DEF Holds, TypeOK, DataOK, FlagsOK, ControlOK
    <3>4. appended - Len(records) = written /\ appended - Len(<<>>) = appended
      BY <3>2 DEF TypeOK, DataOK, FlagsOK, ControlOK
    <3>5. Holds(records, written, hist, base) /\ Len(hist) = base + appended
      BY <3>4 DEF BufferInv, TypeOK, DataOK, FlagsOK, ControlOK
    <3>6. Holds(records, appended - Len(records), hist, base)' /\ Len(records') = 0
      BY <3>1, <3>3, <3>4
    <3>7. Delivering' => Holds(batch, written, hist, base)' /\ batch' # <<>>
      BY <3>1, <3>5 DEF Delivering, TypeOK, DataOK, FlagsOK, ControlOK
    <3>8. written' + Len(batch') + Len(records') = appended'
      BY <3>1, <3>2, <3>6 DEF TypeOK, DataOK, FlagsOK, ControlOK
    <3>9. wpc' \notin {"write", "advanceWritten", "fail"} => written' + Len(records') = appended'
      BY <1>6, <2>2, <3>1, <3>2, <3>6 DEF FlushSwap, TypeOK, DataOK, FlagsOK,
         ControlOK, markers, flags, callVars, diskVars, histVars
    <3> QED
      BY <3>1, <3>5, <3>6, <3>7, <3>8, <3>9 DEF BufferInv, TypeOK, DataOK, FlagsOK,
         ControlOK
  <2> QED
    BY <2>1, <2>2
<1>7. CASE WriteCall
  BY <1>7, BufferKept DEF WriteCall, Delivering, Resume, SyncOrResume, TypeOK, DataOK,
     FlagsOK, ControlOK, markers, flags, callVars, histVars
<1>8. CASE AdvanceWritten
  <2>1. PICK k \in 0..Len(batch) : Delivers(batch, k, total) /\ written' = written + k
    BY <1>8, WrittenAdvances
  <2>2. Holds(batch, written, hist, base) /\ batch # <<>>
        /\ written + Len(batch) + Len(records) = appended
    BY <1>8, WrittenAdvances
  <2>4. ~werr => k = Len(batch)
    <3>1. ~werr => total = BufLen(batch)
      BY <1>8 DEF AdvanceWritten, FileInv, TypeOK, DataOK, FlagsOK, ControlOK, flags,
         diskVars, histVars
    <3> QED
      BY <2>1, <2>2, <3>1, DeliversAll DEF TypeOK, DataOK, FlagsOK, ControlOK
  <2>5. UNCHANGED <<records, appended, base, hist, batch, failed>>
    BY <1>8 DEF AdvanceWritten, TypeOK, DataOK, FlagsOK, ControlOK, flags, diskVars,
       histVars
  <2>6. wpc' = "fail" \/ (~werr /\ wpc' \in {"sync", "finish", "select"})
    BY <1>8 DEF AdvanceWritten, Resume, SyncOrResume, TypeOK, DataOK, FlagsOK,
       ControlOK, flags, diskVars, histVars
  <2> QED
    BY Zenon, <2>2, <2>1, <2>4, <2>5, <2>6 DEF BufferInv, Delivering
<1>9. CASE SyncCall
  BY <1>9, BufferKept DEF SyncCall, Delivering, Resume, SyncOrResume, TypeOK, DataOK,
     FlagsOK, ControlOK, markers, flags, callVars, histVars
<1>10. CASE AdvanceSynced
  BY <1>10, BufferKept DEF AdvanceSynced, Delivering, Resume, SyncOrResume, TypeOK,
     DataOK, FlagsOK, ControlOK, flags, diskVars, histVars
<1>11. CASE Fail
  BY <1>11, BufferKept DEF Fail, Delivering, Resume, SyncOrResume, TypeOK, DataOK,
     FlagsOK, ControlOK, markers, diskVars, histVars
<1>12. CASE Report
  BY <1>12, BufferKept DEF Report, Delivering, Resume, SyncOrResume, TypeOK, DataOK,
     FlagsOK, ControlOK, markers, callVars, diskVars, histVars
<1>13. CASE Finish
  BY <1>13, BufferKept DEF Finish, Delivering, Resume, SyncOrResume, TypeOK, DataOK,
     FlagsOK, ControlOK, markers, diskVars, histVars
<1>14. CASE LogClose
  BY Zenon, <1>14, BufferKept DEF LogClose, CloseBegins, CloseSignals, CloseReturns,
     CloseTimesOut, CloseStep, Delivering, Resume, SyncOrResume, TypeOK, DataOK,
     FlagsOK, ControlOK, markers, writerVars, callVars, diskVars, histVars
<1> QED
  BY <1>1, <1>2, <1>3, <1>4, <1>5, <1>6, <1>7, <1>8, <1>9, <1>10, <1>11, <1>12, <1>13,
     <1>14 DEF RunningStep, Writer, Flushing

\* Steps that leave the file and the batch alone, and no delivery unfinished.
LEMMA FileKept ==
  ASSUME FileInv, UNCHANGED <<base, written, file, torn, batch, total, werr>>,
         wpc' = wpc \/ (~Delivering /\ ~Delivering'),
         wpc' \notin {"write", "advanceWritten", "fail"} /\ ~failed' =>
           wpc \notin {"write", "advanceWritten", "fail"} /\ ~failed
  PROVE  FileInv'
<1>1. CASE wpc' = wpc
  BY ZenonT(30), <1>1 DEF FileInv, Delivering
<1>2. CASE ~Delivering /\ ~Delivering'
  BY <1>2 DEF FileInv, Delivering
<1> QED
  BY <1>1, <1>2

\* A call of Write continues the file with the next entries of the batch.
LEMMA WriteDelivers ==
  ASSUME TypeOK, BufferInv, FileInv, WriteCall
  PROVE  /\ total' \in Nat /\ total' <= BufLen(batch) /\ BufLen(batch) \in Nat
         /\ \E k0, k1 \in 0..Len(batch), seg \in Seq(Records) :
              /\ k0 <= k1 /\ Len(file) = base + written + k0
              /\ Len(seg) = k1 - k0 /\ \A i \in 1..k1 - k0 : seg[i] = batch[k0 + i].rec
              /\ file' = file \o seg /\ Len(file') = base + written + k1
              /\ Delivers(batch, k1, total')
              /\ torn' <=> total' > IF k1 = 0 THEN 0 ELSE batch[k1].end
<1>1. PICK n \in 0..BufLen(batch) - total, k0 \in 0..Len(batch), k1 \in 0..Len(batch) :
        /\ Delivers(batch, k0, total) /\ Delivers(batch, k1, total + n)
        /\ total' = total + n
        /\ file' = file \o [i \in 1..k1 - k0 |-> batch[k0 + i].rec]
        /\ torn' = (total + n > IF k1 = 0 THEN 0 ELSE batch[k1].end)
  BY Zenon DEF WriteCall
<1>2. BufLen(batch) \in Nat /\ total < BufLen(batch)
  BY BufLenType DEF WriteCall, FileInv, TypeOK, DataOK
<1>3. n \in Nat /\ total + n \in Nat /\ total + n <= BufLen(batch)
  BY <1>2 DEF TypeOK, DataOK
<1>4. Len(file) = base + written + k0
  <2>1. PICK k \in 0..Len(batch) : Delivers(batch, k, total) /\ Len(file) = base + written + k
    BY Zenon DEF WriteCall, FileInv, Delivering
  <2> QED
    BY <1>1, <2>1, DeliversUnique DEF TypeOK, DataOK
<1>5. k0 <= k1
  <2>1. batch \in Seq(Entry) /\ total \in Nat /\ total <= total + n
    BY <1>3 DEF TypeOK, DataOK
  <2>2. Delivers(batch, k0, total) /\ Delivers(batch, k1, total + n)
    BY Zenon, <1>1
  <2> QED
    BY <1>3, <2>1, <2>2, DeliversMono
<1> DEFINE seg == [i \in 1..k1 - k0 |-> batch[k0 + i].rec]
<1>6. seg \in Seq(Records)
  <2>1. \A i \in 1..k1 - k0 : batch[k0 + i].rec \in Records
    BY EntryFields DEF TypeOK, DataOK
  <2> QED
    BY <2>1, SegmentType
<1>7. k1 - k0 \in Nat
  BY <1>5
<1>8. Len(seg) = k1 - k0 /\ \A i \in 1..k1 - k0 : seg[i] = batch[k0 + i].rec
  BY <1>7
<1>9. file' = file \o seg
  BY <1>1
<1> HIDE DEF seg
<1>10. Len(file') = Len(file) + Len(seg)
  BY <1>6, <1>9
<1>11. Len(file') = base + written + k1
  <2>1. Len(seg) = k1 - k0
    BY <1>8
  <2> QED
    BY <1>4, <1>10, <2>1 DEF TypeOK, DataOK
<1>12. torn' <=> total' > IF k1 = 0 THEN 0 ELSE batch[k1].end
  BY ZenonT(30), <1>1
<1>13. total' \in Nat /\ total' <= BufLen(batch) /\ Delivers(batch, k1, total')
  BY <1>1, <1>3
<1> QED
  BY Zenon, <1>2, <1>4, <1>5, <1>6, <1>8, <1>9, <1>11, <1>12, <1>13

\* A step of a running log keeps the file a prefix of the history with at most a torn tail.
LEMMA FileInvStep ==
  ASSUME TypeOK, BufferInv, FileInv, FailInv, proc = "up", RunningStep
  PROVE  FileInv'
<1>1. ASSUME NEW c \in Callers, NEW r \in Records, LogAppend(c, r) PROVE FileInv'
  BY <1>1, FileKept DEF LogAppend, Delivering, Resume, SyncOrResume, TypeOK, DataOK,
     FlagsOK, ControlOK, writerVars, diskVars
<1>2. ASSUME NEW c \in Callers, Await(c) PROVE FileInv'
  BY ZenonT(30), <1>2, FileKept DEF Await, AwaitError, AwaitReached, AwaitParks,
     AwaitReturns, Delivering, Resume, SyncOrResume, TypeOK, DataOK, FlagsOK,
     ControlOK, markers, flags, writerVars, diskVars, histVars
<1>3. CASE RunNotify
  BY <1>3, FileKept DEF RunNotify, StartFlush, Delivering, Resume, SyncOrResume,
     TypeOK, DataOK, FlagsOK, ControlOK, markers, callVars, diskVars, histVars
<1>4. CASE RunTick
  BY <1>4, FileKept DEF RunTick, StartFlush, Delivering, Resume, SyncOrResume, TypeOK,
     DataOK, FlagsOK, ControlOK, markers, callVars, diskVars, histVars
<1>5. CASE RunClose
  BY <1>5, FileKept DEF RunClose, StartFlush, Delivering, Resume, SyncOrResume, TypeOK,
     DataOK, FlagsOK, ControlOK, markers, callVars, diskVars, histVars
<1>6. CASE FlushSwap
  <2>1. CASE failed
    <3>1. ~Delivering /\ ~Delivering'
      BY <1>6, <2>1 DEF FlushSwap, Delivering, Resume, TypeOK, DataOK, FlagsOK,
         ControlOK, markers, flags, callVars, diskVars, histVars
    <3> QED
      BY Zenon, <1>6, <2>1, <3>1 DEF FlushSwap, FileInv, Delivering, Resume, markers, flags,
         callVars, diskVars, histVars
  <2>2. CASE ~failed
    <3>1. /\ batch' = records /\ total' = 0 /\ wpc' # "advanceWritten"
          /\ wpc' = "write" => records # <<>>
          /\ UNCHANGED <<written, base, file, torn, failed>>
      BY <1>6, <2>2 DEF FlushSwap, Resume, SyncOrResume, TypeOK, DataOK, FlagsOK,
         ControlOK, markers, flags, callVars, diskVars, histVars
    <3>2. Len(file) = base + written /\ ~torn
      BY <1>6, <2>2 DEF FlushSwap, FileInv, Delivering, TypeOK, DataOK, FlagsOK,
         ControlOK, markers, flags, callVars, diskVars, histVars
    <3>3. Delivers(records, 0, 0)
      BY EntryFields DEF Delivers, TypeOK, DataOK, FlagsOK, ControlOK
    <3>4. wpc' = "write" => 0 < BufLen(records)
      <4>1. records # <<>> => records[Len(records)] \in Entry
        BY DEF TypeOK, DataOK, FlagsOK, ControlOK
      <4> QED
        BY <3>1, <4>1, EntryFields DEF BufLen
    <3>5. 0 \in 0..Len(records) /\ Len(file) = base + written + 0
      BY <3>2
    <3>6. \E k \in 0..Len(records) :
            /\ Delivers(records, k, 0) /\ Len(file) = base + written + k
            /\ torn <=> 0 > IF k = 0 THEN 0 ELSE records[k].end
      BY <3>2, <3>3, <3>5
    <3> QED
      BY Zenon, <3>1, <3>2, <3>4, <3>6 DEF FileInv, Delivering
  <2> QED
    BY <2>1, <2>2
<1>7. CASE WriteCall
  <2>1. \E k \in 0..Len(batch) :
          /\ Delivers(batch, k, total') /\ Len(file') = base + written + k
          /\ torn' <=> total' > IF k = 0 THEN 0 ELSE batch[k].end
    BY Zenon, <1>7, WriteDelivers
  <2>2. total' \in Nat /\ total' <= BufLen(batch) /\ BufLen(batch) \in Nat
    BY <1>7, WriteDelivers
  <2>3. UNCHANGED <<base, written, batch>>
    BY Zenon, <1>7 DEF WriteCall, TypeOK, DataOK, FlagsOK, ControlOK, markers, flags,
       callVars, histVars
  <2>4. wpc' \in {"write", "advanceWritten"}
    BY <1>7 DEF WriteCall, TypeOK, DataOK, FlagsOK, ControlOK, markers, flags,
       callVars, histVars
  <2>5. wpc' = "write" => total' # BufLen(batch)
    BY <1>7 DEF WriteCall, TypeOK, DataOK, FlagsOK, ControlOK, markers, flags,
       callVars, histVars
  <2>6. wpc' = "advanceWritten" /\ ~werr' => total' = BufLen(batch)
    BY ZenonT(30), <1>7 DEF WriteCall, TypeOK, DataOK, FlagsOK, ControlOK, markers,
       flags, callVars, histVars
  <2>7. wpc' = "write" => total' < BufLen(batch)
    <3>1. \A a, b \in Nat : a <= b /\ a # b => a < b
      OBVIOUS
    <3> QED
      BY <2>2, <2>5, <3>1
  <2> QED
    BY <2>1, <2>2, <2>3, <2>4, <2>6, <2>7 DEF FileInv, Delivering
<1>8. CASE AdvanceWritten
  <2>1. PICK k \in 0..Len(batch) : Delivers(batch, k, total) /\ written' = written + k
    BY <1>8, WrittenAdvances
  <2>2. Holds(batch, written, hist, base) /\ batch # <<>>
    BY <1>8, WrittenAdvances
  <2>4. PICK k0 \in 0..Len(batch) :
          /\ Delivers(batch, k0, total) /\ Len(file) = base + written + k0
          /\ torn <=> total > IF k0 = 0 THEN 0 ELSE batch[k0].end
    BY ZenonT(30), <1>8 DEF AdvanceWritten, FileInv, Delivering, TypeOK, DataOK,
       FlagsOK, ControlOK, flags, diskVars, histVars
  <2>5. k0 = k
    BY ZenonT(30), <2>1, <2>4, DeliversUnique DEF TypeOK, DataOK, FlagsOK, ControlOK
  <2>6. ~werr => ~torn
    <3>1. ~werr => total = BufLen(batch)
      BY <1>8 DEF AdvanceWritten, FileInv, TypeOK, DataOK, FlagsOK, ControlOK, flags,
         diskVars, histVars
    <3>2. ~werr => k0 = Len(batch) /\ total = batch[Len(batch)].end
      BY ZenonT(30), <2>2, <2>4, <3>1, DeliversAll DEF TypeOK, DataOK, FlagsOK,
         ControlOK
    <3>3. total \in Nat /\ Len(batch) # 0
      BY <2>2 DEF TypeOK, DataOK, FlagsOK, ControlOK
    <3>4. ~werr => ~(total > IF k0 = 0 THEN 0 ELSE batch[k0].end)
      BY Zenon, <3>2, <3>3, EndsThere
    <3> QED
      BY <2>4, <3>4
  <2>7. wpc' = "fail" \/ (~werr /\ wpc' \in {"sync", "finish", "select"})
    BY <1>8 DEF AdvanceWritten, Resume, SyncOrResume, TypeOK, DataOK, FlagsOK,
       ControlOK, flags, diskVars, histVars
  <2>8. UNCHANGED <<base, file, torn, failed>>
    BY <1>8 DEF AdvanceWritten, TypeOK, DataOK, FlagsOK, ControlOK, flags, diskVars,
       histVars
  <2>9. Len(file') = base' + written'
    BY <2>1, <2>4, <2>5, <2>8 DEF TypeOK, DataOK, FlagsOK, ControlOK
  <2> QED
    BY <2>6, <2>7, <2>8, <2>9 DEF FileInv, Delivering
<1>9. CASE SyncCall
  BY <1>9, FileKept DEF SyncCall, Delivering, Resume, SyncOrResume, TypeOK, DataOK,
     FlagsOK, ControlOK, markers, flags, callVars, histVars
<1>10. CASE AdvanceSynced
  BY <1>10, FileKept DEF AdvanceSynced, Delivering, Resume, SyncOrResume, TypeOK,
     DataOK, FlagsOK, ControlOK, flags, diskVars, histVars
<1>11. CASE Fail
  BY <1>11, FileKept DEF Fail, Delivering, Resume, SyncOrResume, TypeOK, DataOK,
     FlagsOK, ControlOK, markers, diskVars, histVars
<1>12. CASE Report
  BY <1>12, FileKept DEF Report, Delivering, Resume, SyncOrResume, TypeOK, DataOK,
     FlagsOK, ControlOK, markers, callVars, diskVars, histVars
<1>13. CASE Finish
  BY <1>13, FileKept DEF Finish, Delivering, Resume, SyncOrResume, TypeOK, DataOK,
     FlagsOK, ControlOK, markers, diskVars, histVars
<1>14. CASE LogClose
  BY Zenon, <1>14, FileKept DEF LogClose, CloseBegins, CloseSignals, CloseReturns,
     CloseTimesOut, CloseStep, Delivering, Resume, SyncOrResume, TypeOK, DataOK,
     FlagsOK, ControlOK, markers, writerVars, callVars, diskVars, histVars
<1> QED
  BY <1>1, <1>2, <1>3, <1>4, <1>5, <1>6, <1>7, <1>8, <1>9, <1>10, <1>11, <1>12, <1>13,
     <1>14 DEF RunningStep, Writer, Flushing

\* The file is no shorter than the marker says, in or out of a delivery.
LEMMA FileLen == ASSUME TypeOK, FileInv PROVE base + written <= Len(file)
<1>1. base \in Nat /\ written \in Nat /\ Len(file) \in Nat /\ Len(batch) \in Nat
  BY DEF TypeOK, DataOK
<1>2. CASE Delivering
  <2>1. PICK k \in 0..Len(batch) : Len(file) = base + written + k
    BY <1>2 DEF FileInv
  <2> QED
    BY <1>1, <2>1
<1>3. CASE ~Delivering
  <2>1. Len(file) = base + written
    BY <1>3 DEF FileInv
  <2> QED
    BY <1>1, <2>1
<1> QED
  BY <1>2, <1>3

\* What the file guarantees stays true when neither it nor the history changes.
LEMMA DiskKept ==
  ASSUME DiskInv, UNCHANGED <<hist, file, durable, acked, header, headerSynced, torn>>
  PROVE  DiskInv'
  BY DEF DiskInv

\* A step of a running log keeps every confirmed record where a crash leaves it.
LEMMA DiskInvStep ==
  ASSUME TypeOK, DiskInv, BufferInv, FileInv, MarkerInv, CallerInv, header = "ok", proc = "up", RunningStep
  PROVE  DiskInv'
<1>0. /\ hist \in Seq(Records) /\ file \in Seq(Records) /\ batch \in Seq(Entry)
      /\ base \in Nat /\ written \in Nat /\ synced \in Nat /\ appended \in Nat
      /\ durable \in Nat /\ acked \subseteq Nat /\ cseq \in [Callers -> Nat]
  BY DEF TypeOK, DataOK
<1>1. ASSUME NEW c \in Callers, NEW r \in Records, LogAppend(c, r) PROVE DiskInv'
  <2>1. hist' = Append(hist, r)
        /\ UNCHANGED <<file, durable, acked, header, headerSynced, torn>>
    BY <1>1 DEF LogAppend, diskVars
  <2>2. Len(Append(hist, r)) = Len(hist) + 1
        /\ \A i \in 1..Len(hist) : Append(hist, r)[i] = hist[i]
    BY <1>0
  <2>3. Len(file) <= Len(hist) /\ \A i \in 1..Len(file) : file[i] = hist[i]
    BY DEF DiskInv
  <2>4. Len(file) \in Nat /\ Len(hist) \in Nat
    BY <1>0
  <2>5. Len(file) <= Len(hist') /\ \A i \in 1..Len(file) : file[i] = hist'[i]
    BY <2>1, <2>2, <2>3, <2>4
  <2> QED
    BY <2>1, <2>5 DEF DiskInv
<1>2. ASSUME NEW c \in Callers, Await(c) PROVE DiskInv'
  <2>1. UNCHANGED <<hist, diskVars>>
    BY Zenon, <1>2 DEF Await, AwaitError, AwaitReached, AwaitParks, AwaitReturns,
       diskVars, histVars, markers
  <2>2. CASE UNCHANGED acked
    BY <2>1, <2>2, DiskKept DEF diskVars, histVars, markers
  <2>3. CASE AwaitReached(c)
    <3>1. acked' = acked \cup {base + cseq[c]} /\ Reached(cseq[c]) /\ cseq[c] \in 1..appended
      BY <1>0, <2>3 DEF AwaitReached, CallerInv
    <3>2. Len(file) \in Nat /\ base + written <= Len(file)
      BY <1>0, FileLen
    <3>3. synced <= written /\ (synced > 0 => base + synced <= durable)
      BY DEF MarkerInv
    <3>4. cseq[c] \in Nat /\ cseq[c] > 0
      BY <1>0, <3>1
    <3>5. cseq[c] <= written /\ (Policy = "always" => cseq[c] <= synced)
      BY <1>0, <3>1, <3>3, <3>4 DEF Reached
    <3>6. base + cseq[c] > 0 /\ base + cseq[c] <= Len(file)
      BY <1>0, <3>2, <3>4, <3>5
    <3>7. Policy = "always" => base + cseq[c] <= durable
      BY <1>0, <3>3, <3>4, <3>5
    <3> QED
      BY <2>1, <3>1, <3>6, <3>7 DEF DiskInv, diskVars, histVars, markers
  <2> QED
    BY ZenonT(30), <1>2, <2>2, <2>3 DEF Await, AwaitError, AwaitParks, histVars,
       diskVars, markers
<1>3. CASE RunNotify
  BY <1>3, DiskKept DEF RunNotify, StartFlush, diskVars, histVars, markers
<1>4. CASE RunTick
  BY <1>4, DiskKept DEF RunTick, StartFlush, diskVars, histVars, markers
<1>5. CASE RunClose
  BY <1>5, DiskKept DEF RunClose, StartFlush, diskVars, histVars, markers
<1>6. CASE FlushSwap
  BY <1>6, DiskKept DEF FlushSwap, diskVars, histVars, markers
<1>7. CASE WriteCall
  <2>1. PICK k0 \in 0..Len(batch), k1 \in 0..Len(batch), seg \in Seq(Records) :
          /\ k0 <= k1 /\ Len(file) = base + written + k0
          /\ Len(seg) = k1 - k0 /\ \A i \in 1..k1 - k0 : seg[i] = batch[k0 + i].rec
          /\ file' = file \o seg /\ Len(file') = base + written + k1
    BY <1>7, WriteDelivers
  <2>2. UNCHANGED <<hist, base, written, durable, acked, header, headerSynced>>
    BY Zenon, <1>7 DEF WriteCall, histVars, markers
  <2>3. Holds(batch, written, hist, base) /\ Len(hist) >= base + written + Len(batch)
    <3>1. Holds(batch, written, hist, base) /\ written + Len(batch) + Len(records) = appended
      BY Zenon, <1>7 DEF WriteCall, BufferInv, Delivering, histVars, markers
    <3>2. Len(hist) = base + appended
      BY DEF BufferInv
    <3>3. Len(records) \in Nat /\ Len(batch) \in Nat
      BY <1>0 DEF TypeOK, DataOK
    <3> QED
      BY <1>0, <3>1, <3>2, <3>3
  <2>4. Len(file') <= Len(hist) /\ Len(file) <= Len(file')
    <3>1. Len(batch) \in Nat /\ Len(hist) \in Nat /\ k0 \in Nat /\ k1 \in Nat /\ k1 <= Len(batch)
      BY <1>0
    <3>2. Len(file) = base + written + k0 /\ Len(file') = base + written + k1 /\ k0 <= k1
      BY <2>1
    <3>3. Len(hist) >= base + written + Len(batch)
      BY <2>3
    <3> QED
      BY <1>0, <3>1, <3>2, <3>3
  <2>5. \A i \in 1..Len(file) : file'[i] = hist[i]
    <3>1. \A i \in 1..Len(file) : (file \o seg)[i] = file[i]
      BY <1>0
    <3>2. file' = file \o seg
      BY <2>1
    <3> QED
      BY <3>1, <3>2 DEF DiskInv
  <2>6. \A i \in Len(file)+1..Len(file') : file'[i] = hist[i]
    <3> SUFFICES ASSUME NEW i \in Len(file)+1..Len(file') PROVE file'[i] = hist[i]
      OBVIOUS
    <3>1. PICK j \in 1..k1 - k0 : i = Len(file) + j
      BY <1>0, <2>1
    <3>2. file'[i] = seg[j]
      <4>1. j \in 1..Len(seg)
        BY <2>1
      <4>2. (file \o seg)[Len(file) + j] = seg[j]
        BY <1>0, <4>1
      <4> QED
        BY <2>1, <3>1, <4>2
    <3>3. PICK m \in 1..Len(batch) : m = k0 + j
      BY <1>0, <2>1
    <3>4. seg[j] = batch[m].rec
      BY <2>1, <3>3
    <3>5. batch[m].rec = hist[base + written + m]
      BY <2>3, HoldsSeq
    <3>6. base + written + m = i
      <4>1. Len(file) = base + written + k0
        BY <2>1
      <4> QED
        BY <1>0, <3>1, <3>3, <4>1
    <3> QED
      BY <3>2, <3>4, <3>5, <3>6
  <2>7. Len(file) \in Nat /\ Len(file') \in Nat
    <3>1. file \o seg \in Seq(Records)
      BY <1>0
    <3> QED
      BY <1>0, <2>1, <3>1
  <2>8. \A i \in 1..Len(file') : i \in 1..Len(file) \/ i \in Len(file)+1..Len(file')
    BY <2>7
  <2>9. \A i \in 1..Len(file') : file'[i] = hist[i]
    BY <2>5, <2>6, <2>8
  <2>10. durable <= Len(file') /\ \A i \in acked : i <= Len(file) => i <= Len(file')
    BY <1>0, <2>4, <2>7 DEF DiskInv
  <2> QED
    BY <2>2, <2>4, <2>9, <2>10 DEF DiskInv
<1>8. CASE AdvanceWritten
  BY <1>8, DiskKept DEF AdvanceWritten, diskVars, histVars
<1>9. CASE SyncCall
  BY <1>0, <1>9 DEF SyncCall, DiskInv, histVars, markers
<1>10. CASE AdvanceSynced
  BY <1>10, DiskKept DEF AdvanceSynced, diskVars, histVars
<1>11. CASE Fail
  BY <1>11, DiskKept DEF Fail, diskVars, histVars, markers
<1>12. CASE Report
  BY <1>12, DiskKept DEF Report, diskVars, histVars, markers
<1>13. CASE Finish
  BY <1>13, DiskKept DEF Finish, diskVars, histVars, markers
<1>14. CASE LogClose
  BY <1>14, DiskKept DEF LogClose, CloseBegins, CloseSignals, CloseReturns,
     CloseTimesOut, CloseStep, diskVars, histVars, markers
<1> QED
  BY <1>1, <1>2, <1>3, <1>4, <1>5, <1>6, <1>7, <1>8, <1>9, <1>10, <1>11, <1>12, <1>13,
     <1>14 DEF RunningStep, Writer, Flushing

----------------------------------------------------------------------------
(***************************************************************************)
(* Restarts and crashes, what follows from Inv, and the refinement.        *)
(***************************************************************************)
\* A process that ends leaves a log as Open makes it, for the next one.
LEMMA ResetFresh == Reset => FreshLog'
  BY DEF Reset, FreshLog

\* What OpenFile hands over to the first callers.
LEMMA OpenedInv ==
  ASSUME TypeOK, FreshLog, hist = file, Opened, torn' = FALSE
  PROVE  BufferInv' /\ FileInv' /\ MarkerInv' /\ FailInv' /\ CallerInv' /\ CloseInv'
<1>1. /\ records' = <<>> /\ appended' = 0 /\ written' = 0 /\ synced' = 0
      /\ wpc' = "select"
  BY DEF FreshLog, Opened, markers, writerVars
<1>a. Len(hist') = base' /\ Len(file') = base'
  BY DEF Opened
<1>b. Len(file) \in Nat
  BY DEF TypeOK, DataOK
<1>2. base' \in Nat /\ Len(records') = 0
  BY <1>1, <1>b DEF Opened
<1>d. appended' = 0 /\ written' = 0
  BY <1>1
<1>c. ~Delivering'
  BY <1>1 DEF Delivering
<1>3. BufferInv'
  <2>1. Holds(<<>>, 0, hist', base')
    BY DEF Holds
  <2>2. Len(hist') = base' + appended' /\ Len(records') <= appended'
        /\ appended' - Len(records') = 0 /\ written' + Len(records') = appended'
    BY <1>a, <1>d, <1>2, Zeros, Zenon
  <2> QED
    BY <1>1, <1>c, <2>1, <2>2 DEF BufferInv
<1>4. FileInv'
  <2>1. Len(file') = base' + written'
    BY <1>a, <1>d, <1>2, Zeros, Zenon
  <2>2. wpc' # "write" /\ wpc' # "advanceWritten"
    BY <1>1
  <2> QED
    BY Zenon, <1>c, <2>1, <2>2 DEF FileInv
<1>5. MarkerInv' /\ FailInv'
  BY <1>1 DEF MarkerInv, FailInv, TypeOK, DataOK, FreshLog, Opened
<1>6. CallerInv'
  BY DEF CallerInv, TypeOK, DataOK, FreshLog, Opened, markers, flags, writerVars,
     callVars
<1>7. CloseInv'
  BY <1>1 DEF CloseInv, TypeOK, DataOK, FreshLog, Opened, markers, flags, writerVars,
     callVars
<1> QED
  BY <1>3, <1>4, <1>5, <1>6, <1>7

\* OpenFile, after truncating a torn tail, starts from a file that holds the history.
LEMMA InvOpen == Inv /\ OpenFile => DiskInv' /\ (proc' # "up" => DownInv') /\
  (proc' = "up" => /\ header' = "ok" /\ BufferInv' /\ FileInv' /\ MarkerInv'
                   /\ FailInv' /\ CallerInv' /\ CloseInv')
<1> SUFFICES ASSUME TypeOK, DiskInv, DownInv, proc = "down", OpenFile
             PROVE  /\ DiskInv' /\ (proc' # "up" => DownInv')
                    /\ proc' = "up" => /\ header' = "ok" /\ BufferInv' /\ FileInv' /\ MarkerInv'
                                       /\ FailInv' /\ CallerInv' /\ CloseInv'
  BY Zenon DEF Inv, OpenFile, OpenNew, OpenNewFails, OpenExisting, OpenRefused
<1>1. CASE OpenNew
  <2>1. torn' = FALSE
    BY <1>1 DEF OpenNew, DiskInv, TypeOK, FlagsOK
  <2>2. DiskInv'
    BY <1>1 DEF OpenNew, Opened, DiskInv, markers, flags, writerVars, callVars
  <2> QED
    BY Zenon, <1>1, <2>1, <2>2, OpenedInv DEF OpenNew, Opened, DownInv, markers, flags,
       writerVars, callVars
<1>2. CASE OpenExisting
  <2>1. DiskInv'
    BY <1>2 DEF OpenExisting, Opened, DiskInv, markers, flags, writerVars, callVars
  <2> QED
    BY ZenonT(30), <1>2, <2>1, OpenedInv DEF OpenExisting, Opened, DownInv, markers,
       flags, writerVars, callVars
<1>3. CASE OpenNewFails
  BY <1>3 DEF OpenNewFails, DiskInv, DownInv, FreshLog, markers, flags, writerVars,
     callVars, histVars
<1>4. CASE OpenRefused
  BY <1>4 DEF OpenRefused, DiskInv, DownInv, FreshLog, markers, flags, writerVars,
     callVars, diskVars, histVars
<1> QED
  BY <1>1, <1>2, <1>3, <1>4 DEF OpenFile

\* A crash of the process or of the machine leaves a file that recovery accounts for.
LEMMA InvCrash == Inv /\ Crash => DiskInv' /\ DownInv' /\ proc' = "down"
<1> SUFFICES ASSUME TypeOK, DiskInv, Crash PROVE DiskInv' /\ DownInv' /\ proc' = "down"
  BY DEF Inv
<1>0. file \in Seq(Records) /\ durable \in Nat /\ acked \subseteq Nat /\ Len(file) \in Nat
  BY DEF TypeOK, DataOK
<1>1. CASE ProcessCrash
  <2>1. DownInv' /\ proc' = "down"
    BY <1>1, ResetFresh DEF ProcessCrash, DownInv, diskVars
  <2>2. hist' = file /\ UNCHANGED <<diskVars, acked>>
    BY <1>1 DEF ProcessCrash
  <2>3. UNCHANGED <<file, torn, durable, header, headerSynced, acked>>
    BY <2>2 DEF diskVars
  <2>4. Len(file) <= Len(hist') /\ \A i \in 1..Len(file) : file[i] = hist'[i]
    BY <1>0, <2>2
  <2> QED
    BY <2>1, <2>3, <2>4 DEF DiskInv
<1>2. CASE PowerLoss
  <2>1. PICK n \in durable..Len(file) :
          /\ file' = SubSeq(file, 1, n) /\ hist' = file' /\ durable' = n
          /\ torn' => (torn \/ n < Len(file))
          /\ \/ header' = header
             \/ ~headerSynced /\ n = 0 /\ ~torn'
          /\ headerSynced' = (header' = "ok")
    BY <1>2, PowerLossAssumption DEF PowerLoss
  <2>2. DownInv' /\ proc' = "down"
    BY <1>2, <2>1, ResetFresh DEF PowerLoss, DownInv
  <2>3. acked' = acked /\ Policy = "always"
    BY <1>2, PowerLossAssumption DEF PowerLoss
  <2>4. durable <= Len(file) /\ n \in Nat /\ n <= Len(file)
    BY <1>0 DEF DiskInv
  <2>5. Len(file') = n
    BY <1>0, <2>1, <2>4
  <2>6. \A i \in acked : i \in Nat /\ i > 0 /\ i <= durable
    BY <1>0, <2>3 DEF DiskInv
  <2>7. \A i \in acked' : i > 0 /\ i <= Len(file') /\ i <= durable'
    <3>1. durable' = n
      BY <2>1
    <3>2. durable <= n
      BY <1>0
    <3>3. acked' = acked
      BY <2>3
    <3> QED
      BY <1>0, <2>4, <2>5, <2>6, <3>1, <3>2, <3>3
  <2>8. header' # "ok" => n = 0 /\ ~torn' /\ acked = {}
    <3>1. CASE header' = header
      <4>1. header # "ok" => file = <<>> /\ ~torn /\ acked = {}
        BY DEF DiskInv
      <4>2. file = <<>> => n = 0 /\ ~(n < Len(file))
        BY <1>0, <2>4
      <4>3. torn' => (torn \/ n < Len(file))
        BY <2>1
      <4> QED
        BY <3>1, <4>1, <4>2, <4>3
    <3>2. CASE ~headerSynced /\ n = 0 /\ ~torn'
      <4>1. durable = 0
        BY <3>2 DEF DiskInv
      <4>2. acked = {}
        BY <1>0, <2>6, <4>1
      <4> QED
        BY <3>2, <4>2
    <3> QED
      BY <2>1, <3>1, <3>2
  <2>9. header' # "ok" => file' = <<>> /\ ~torn' /\ acked' = {}
    BY <2>1, <2>3, <2>8
  <2>10. headerSynced' \/ durable' = 0
    BY Zenon, <2>1, <2>8
  <2>11. /\ Len(file') <= Len(hist') /\ \A i \in 1..Len(file') : file'[i] = hist'[i]
         /\ durable' <= Len(file')
    BY <2>1, <2>4, <2>5
  <2> QED
    BY <2>2, <2>7, <2>9, <2>10, <2>11 DEF DiskInv
<1> QED
  BY <1>1, <1>2 DEF Crash

\* The first state, with no file and no process, satisfies the invariant.
LEMMA InvInit == Init => Inv
<1> SUFFICES ASSUME Init PROVE Inv
  OBVIOUS
<1>1. FlagsOK /\ ControlOK
  BY Zenon DEF FlagsOK, ControlOK, Init, FreshLog
<1>2. DataOK
  BY Empties DEF DataOK, Init, FreshLog
<1>3. DiskInv
  BY DEF DiskInv, Init, FreshLog
<1> QED
  BY <1>1, <1>2, <1>3 DEF Inv, TypeOK, DownInv, Init, FreshLog

\* Every step of callers, writer, Close, recovery and crashes keeps the invariant.
LEMMA InvNext == Inv /\ [Next]_vars => Inv'
<1> SUFFICES ASSUME Inv, [Next]_vars PROVE Inv'
  OBVIOUS
<1>1. TypeOK'
  BY FlagsStep, DataStep, ControlStep DEF Inv, TypeOK
<1>2. CASE proc = "up" /\ RunningStep
  <2>1. proc' = "up" /\ header' = "ok"
    BY ZenonT(30), <1>2 DEF Inv, RunningStep, Await, AwaitError, AwaitReached, AwaitParks, AwaitReturns,
                LogAppend, Writer, Flushing, RunNotify, RunTick, RunClose, StartFlush, FlushSwap,
                WriteCall, AdvanceWritten, SyncCall, AdvanceSynced, Fail, Report, Finish,
                LogClose, CloseBegins, CloseSignals, CloseReturns, CloseTimesOut, CloseStep,
                diskVars
  <2>2. DiskInv' /\ BufferInv' /\ FileInv' /\ MarkerInv' /\ FailInv' /\ CallerInv' /\ CloseInv'
    BY <1>2, DiskInvStep, BufferInvStep, FileInvStep, MarkerInvStep, FailInvStep,
       CallerInvStep, CloseInvStep DEF Inv
  <2> QED
    BY <1>1, <2>1, <2>2 DEF Inv
<1>3. CASE OpenFile
  BY <1>1, <1>3, InvOpen DEF Inv
<1>4. CASE Crash
  BY <1>1, <1>4, InvCrash DEF Inv
<1>5. CASE UNCHANGED vars
  <2> USE <1>5 DEF vars, markers, flags, writerVars, callVars, diskVars, histVars
  <2>1. DiskInv => DiskInv'
    BY DEF DiskInv
  <2>2. DownInv => DownInv'
    BY DEF DownInv, FreshLog
  <2>3. BufferInv => BufferInv'
    BY DEF BufferInv, Delivering
  <2>4. FileInv => FileInv'
    BY ZenonT(30) DEF FileInv, Delivering
  <2>5. MarkerInv /\ FailInv => MarkerInv' /\ FailInv'
    BY DEF MarkerInv, FailInv
  <2>6. CallerInv /\ CloseInv => CallerInv' /\ CloseInv'
    BY ZenonT(30) DEF CallerInv, CloseInv
  <2>7. proc' = proc /\ header' = header
    OBVIOUS
  <2> HIDE <1>5
  <2> QED
    BY <1>1, <2>1, <2>2, <2>3, <2>4, <2>5, <2>6, <2>7 DEF Inv
<1>6. RunningStep => proc = "up"
  BY Zenon DEF RunningStep, Await, AwaitError, AwaitReached, AwaitParks, LogAppend, Writer, Flushing,
         RunNotify, RunTick, RunClose, StartFlush, FlushSwap, WriteCall, AdvanceWritten,
         SyncCall, AdvanceSynced, Fail, Report, Finish, LogClose, CloseBegins, CloseSignals,
         CloseReturns, CloseTimesOut, CloseStep
<1> QED
  BY <1>2, <1>3, <1>4, <1>5, <1>6 DEF Next, RunningStep

----------------------------------------------------------------------------
\* The inductive invariant holds in every reachable state.
THEOREM Invariance == Spec => []Inv
  BY InvInit, InvNext, PTL DEF Spec

\* The variables keep their types, whatever callers, writer and crashes do.
THEOREM TypeCorrect == Spec => []TypeOK
<1>1. Inv => TypeOK
  BY DEF Inv
<1> QED
  BY <1>1, Invariance, PTL

\* The three markers of Log never invert and never run ahead of the file, for
\* any number of callers and any pattern of short writes and failures.
THEOREM MarkersHold == Spec => []MarkersTellTheTruth
<1>1. Inv => MarkersTellTheTruth
  <2> SUFFICES ASSUME Inv, proc = "up"
               PROVE  /\ synced <= written /\ written <= appended
                      /\ base + written <= Len(file)
                      /\ synced > 0 => base + synced <= durable
    BY DEF MarkersTellTheTruth
  <2>1. FileInv /\ MarkerInv /\ TypeOK
    BY DEF Inv
  <2>2. base + written <= Len(file)
    BY <2>1, FileLen
  <2> QED
    BY <2>1, <2>2 DEF MarkerInv
<1> QED
  BY <1>1, Invariance, PTL

\* No crash loses a record that Await confirmed: of the process under either
\* policy, of the machine under "always".
THEOREM AckedSurvives == Spec => []AckedDurable
<1>1. Inv => AckedDurable
  BY DEF Inv, DiskInv, AckedDurable
<1> QED
  BY <1>1, Invariance, PTL

\* The file is a prefix of the records accepted, in their order.
THEOREM PrefixHolds == Spec => []FileIsPrefixOfHistory
<1>1. Inv => FileIsPrefixOfHistory
  <2> SUFFICES ASSUME Inv PROVE FileIsPrefixOfHistory
    OBVIOUS
  <2>1. /\ Len(file) <= Len(hist) /\ \A i \in 1..Len(file) : file[i] = hist[i]
        /\ file \in Seq(Records) /\ hist \in Seq(Records)
    BY DEF Inv, DiskInv, TypeOK, DataOK
  <2>2. file = SubSeq(hist, 1, Len(file))
    BY <2>1
  <2> QED
    BY <2>1, <2>2 DEF FileIsPrefixOfHistory
<1> QED
  BY <1>1, Invariance, PTL

\* Part of a record is never followed by another record.
THEOREM TornTailHolds == Spec => []TornTailIsLast
<1>1. Inv => TornTailIsLast
  BY Zenon DEF Inv, FileInv, TornTailIsLast
<1> QED
  BY <1>1, Invariance, PTL

\* A close without a failure leaves nothing accepted out of the file.
LEMMA CleanClose == Inv => CleanCloseIsComplete
<1> SUFFICES ASSUME Inv, closed, ~failed
             PROVE  file = hist /\ durable = Len(hist) /\ ~torn /\ synced = appended
  BY DEF CleanCloseIsComplete
<1>1. proc = "up" /\ TypeOK
  BY DEF Inv, DownInv, FreshLog
<1>2. wpc = "done" /\ records = <<>> /\ synced = written /\ durable = Len(file)
  BY <1>1 DEF Inv, CloseInv
<1>3. /\ written + Len(records) = appended /\ Len(hist) = base + appended
      /\ Len(file) = base + written
  BY <1>1, <1>2 DEF Inv, BufferInv, FileInv, Delivering
<1>4. ~torn
  BY <1>1, <1>2 DEF Inv, FileInv
<1>5. Len(file) = Len(hist) /\ written = appended
  BY <1>1, <1>2, <1>3 DEF TypeOK, DataOK
<1>6. \A i \in 1..Len(file) : file[i] = hist[i]
  BY DEF Inv, DiskInv
<1>7. file = hist
  <2>1. file \in Seq(Records) /\ hist \in Seq(Records)
    BY <1>1 DEF TypeOK, DataOK
  <2> QED
    BY <1>5, <1>6, <2>1
<1> QED
  BY <1>2, <1>4, <1>5, <1>7

\* A log that finished closing without a failure left nothing accepted out of its synced file.
THEOREM CleanCloseHolds == Spec => []CleanCloseIsComplete
  BY CleanClose, Invariance, PTL

\* A file refused for its torn header never held a confirmed record.
THEOREM RefusalHolds == Spec => []RefusalLosesNothing
<1>1. Inv => RefusalLosesNothing
  BY DEF Inv, DiskInv, RefusalLosesNothing
<1> QED
  BY <1>1, Invariance, PTL

\* Once the log has failed, the writer never touches the file or the markers.
THEOREM FailureIsFinal == Spec => FailedLogStopsWriting
<1> DEFINE A == failed /\ failed' => UNCHANGED <<file, torn, durable, written, synced>>
<1>1. Inv /\ [Next]_vars => [A]_vars
  <2> SUFFICES ASSUME Inv, Next, failed, failed'
               PROVE  UNCHANGED <<file, torn, durable, written, synced>>
    OBVIOUS
  <2>1. proc = "up" /\ wpc \notin {"write", "advanceWritten", "sync", "advanceSynced"}
    BY DEF Inv, DownInv, FreshLog, FailInv
  <2>2. ~WriteCall /\ ~AdvanceWritten /\ ~SyncCall /\ ~AdvanceSynced /\ ~OpenFile
    BY ZenonT(30), <2>1 DEF WriteCall, AdvanceWritten, SyncCall, AdvanceSynced, OpenFile, OpenNew,
                OpenNewFails, OpenExisting, OpenRefused
  <2>3. ~Crash
    BY DEF Crash, ProcessCrash, PowerLoss, Reset
  <2> QED
    BY ZenonT(30), <2>2, <2>3
    DEF Next, LogAppend, Await, AwaitError, AwaitReached, AwaitParks, AwaitReturns, Writer,
        RunNotify, RunTick, RunClose, StartFlush, Flushing, FlushSwap, Fail, Report, Finish,
        LogClose, CloseBegins, CloseSignals, CloseReturns, CloseTimesOut, CloseStep,
        markers, diskVars
<1> QED
  BY <1>1, Invariance, PTL DEF Spec, FailedLogStopsWriting

----------------------------------------------------------------------------
\* The steps of the log that DurableLog does not see.
LEMMA Stutters ==
  ASSUME UNCHANGED <<proc, failed, closed, closing, hist, acked>>
  PROVE  UNCHANGED Abstract!logVars
  BY DEF Abstract!logVars, Running, Status

\* A crash, of the process or the machine, keeps an initial part of the history
\* that has every confirmed record in it, and all of it after a clean close.
LEMMA CrashRefines == Inv /\ Crash => Abstract!Crash
<1> SUFFICES ASSUME Inv, Crash PROVE Abstract!Crash
  OBVIOUS
<1>1. /\ file \in Seq(Records) /\ hist \in Seq(Records) /\ durable \in Nat
      /\ Len(file) <= Len(hist) /\ \A i \in 1..Len(file) : file[i] = hist[i]
      /\ durable <= Len(file)
  BY DEF Inv, TypeOK, DataOK, DiskInv
<1>2. Status = "closed" => Len(file) = Len(hist) /\ durable = Len(hist)
  BY CleanClose DEF Status, CleanCloseIsComplete
<1>3. PICK n \in 0..Len(file) : /\ hist' = SubSeq(file, 1, n) /\ durable <= n
                                /\ n = Len(file) \/ Policy = "always"
  <2>1. CASE ProcessCrash
    <3>1. hist' = SubSeq(file, 1, Len(file))
      <4>1. hist' = file
        BY <2>1 DEF ProcessCrash
      <4>2. SubSeq(file, 1, Len(file)) = file
        BY <1>1
      <4> QED
        BY <4>1, <4>2
    <3> QED
      BY <1>1, <3>1
  <2>2. CASE PowerLoss
    <3>1. PICK n \in durable..Len(file) : hist' = SubSeq(file, 1, n)
      BY <2>2, PowerLossAssumption DEF PowerLoss
    <3>2. Policy = "always"
      BY <2>2, PowerLossAssumption DEF PowerLoss
    <3>3. n \in 0..Len(file) /\ durable <= n
      BY <1>1
    <3> QED
      BY <3>1, <3>2, <3>3
  <2> QED
    BY <2>1, <2>2 DEF Crash
<1>4. SubSeq(file, 1, n) = SubSeq(hist, 1, n)
  BY <1>1
<1>5. \A i \in acked : i <= n
  <2> SUFFICES ASSUME NEW i \in acked PROVE i <= n
    OBVIOUS
  <2>1. i \in Nat /\ i <= Len(file) /\ (Policy = "always" => i <= durable)
    BY DEF Inv, DiskInv, TypeOK, DataOK
  <2>2. CASE n = Len(file)
    BY <2>1, <2>2
  <2>3. CASE Policy = "always"
    BY <1>1, <1>3, <2>1, <2>3
  <2> QED
    BY <1>3, <2>2, <2>3
<1>6. Status = "closed" => n = Len(hist)
  BY <1>1, <1>2, <1>3
<1>7. proc' = "down" /\ ~failed' /\ ~closed' /\ ~closing' /\ acked' = acked
  BY DEF Crash, ProcessCrash, PowerLoss, Reset
<1>8. n \in 0..Len(hist)
  BY <1>1
<1> QED
  BY <1>3, <1>4, <1>5, <1>6, <1>7, <1>8 DEF Abstract!Crash, Running, Status

\* Every step of the log is a step of DurableLog or leaves its variables alone.
LEMMA NextRefines == Inv /\ [Next]_vars => [Abstract!LogNext]_(Abstract!logVars)
<1> SUFFICES ASSUME Inv, [Next]_vars
             PROVE  Abstract!LogNext \/ UNCHANGED Abstract!logVars
  OBVIOUS
<1>1. ASSUME NEW c \in Callers, NEW r \in Records, LogAppend(c, r) PROVE Abstract!Accept(r)
  <2>1. Running /\ Status = "open" /\ Running' = Running /\ Status' = Status
    BY <1>1 DEF LogAppend, Refusing, Running, Status, writerVars, diskVars
  <2> QED
    BY <1>1, <2>1 DEF LogAppend, Abstract!Accept, writerVars, diskVars
<1>2. ASSUME NEW c \in Callers, AwaitReached(c) PROVE \E i \in 1..Len(hist) : Abstract!Confirm(i)
  <2>1. Running /\ Status # "failed" /\ UNCHANGED <<Running, Status, hist>>
    BY <1>2 DEF AwaitReached, AwaitReturns, Running, Status, markers, flags,
       writerVars, diskVars
  <2>2. acked' = acked \cup {base + cseq[c]}
    BY <1>2 DEF AwaitReached
  <2>3. base + cseq[c] \in 1..Len(hist)
    <3>1. cseq[c] \in 1..appended /\ Len(hist) = base + appended
      BY Zenon, <1>2 DEF AwaitReached, Inv, CallerInv, BufferInv
    <3>2. base \in Nat /\ appended \in Nat
      BY DEF Inv, TypeOK, DataOK
    <3> QED
      BY <3>1, <3>2
  <2> QED
    BY <2>1, <2>2, <2>3 DEF Abstract!Confirm
<1>3. ASSUME NEW c \in Callers, AwaitError(c) \/ AwaitParks(c) PROVE UNCHANGED Abstract!logVars
  BY ZenonT(30), <1>3, Stutters DEF AwaitError, AwaitParks, AwaitReturns, markers,
     flags, writerVars, diskVars, histVars
<1>4. CASE RunNotify \/ RunTick \/ RunClose
  BY <1>4, Stutters DEF RunNotify, RunTick, RunClose, StartFlush, markers, callVars,
     diskVars, histVars
<1>5. CASE FlushSwap \/ WriteCall \/ AdvanceWritten \/ SyncCall \/ AdvanceSynced \/ Report
  BY ZenonT(30), <1>5, Stutters DEF FlushSwap, WriteCall, AdvanceWritten, SyncCall,
     AdvanceSynced, Report, markers, flags, callVars, diskVars, histVars
<1>6. CASE Fail
  <2>1. ~failed /\ ~closed /\ Running
    BY <1>6 DEF Fail, Inv, FailInv, CloseInv, Running, markers, diskVars, histVars
  <2>2. Status' = "failed" /\ UNCHANGED <<Running, hist, acked>>
    BY <1>6 DEF Fail, Status, Running, markers, diskVars, histVars
  <2> QED
    BY <2>1, <2>2 DEF Status, Abstract!Fails, Abstract!Becomes, Abstract!LogNext
<1>7. CASE Finish
  <2>1. ~closed /\ closing /\ Running
    BY <1>7 DEF Finish, Inv, CloseInv, Running, markers, diskVars, histVars
  <2>2. closed' /\ failed' = failed /\ UNCHANGED <<Running, hist, acked>>
    BY <1>7 DEF Finish, Running, markers, diskVars, histVars
  <2>3. CASE failed
    BY <2>2, <2>3 DEF Status, Abstract!logVars
  <2>4. CASE ~failed
    BY <2>1, <2>2, <2>4 DEF Status, Abstract!EndClose, Abstract!Becomes,
       Abstract!LogNext
  <2> QED
    BY <2>3, <2>4
<1>8. CASE CloseBegins
  <2>1. /\ closing' /\ failed' = failed /\ closed' = closed /\ Running
        /\ UNCHANGED <<Running, hist, acked>>
    BY <1>8 DEF CloseBegins, CloseStep, Running, markers, writerVars, callVars,
       diskVars, histVars
  <2>2. CASE failed \/ closed \/ closing
    BY <2>1, <2>2 DEF Status, Abstract!logVars
  <2>3. CASE ~(failed \/ closed \/ closing)
    BY <2>1, <2>3 DEF Status, Abstract!BeginClose, Abstract!Becomes, Abstract!LogNext
  <2> QED
    BY <2>2, <2>3
<1>9. CASE CloseSignals \/ CloseReturns \/ CloseTimesOut
  BY Zenon, <1>9, Stutters DEF CloseSignals, CloseReturns, CloseTimesOut, CloseStep,
     markers, writerVars, callVars, diskVars, histVars
<1>10. CASE OpenNew \/ OpenExisting
  <2>1. ~Running /\ Running' /\ Status' = Status /\ UNCHANGED <<hist, acked>>
    <3>1. proc = "down" /\ proc' = "up"
      BY <1>10 DEF OpenNew, OpenExisting, Opened
    <3>2. UNCHANGED <<failed, closing, closed, hist, acked>>
      BY Zenon, <1>10 DEF OpenNew, OpenExisting, Opened, flags
    <3> QED
      BY <3>1, <3>2 DEF Running, Status
  <2> QED
    BY <2>1 DEF Abstract!Open, Abstract!LogNext
<1>11. CASE OpenNewFails \/ OpenRefused
  <2>1. UNCHANGED <<hist, acked, Running, Status>>
    <3>1. CASE OpenNewFails
      BY <3>1 DEF OpenNewFails, Running, Status, markers, flags, writerVars, callVars,
         histVars
    <3>2. CASE OpenRefused
      BY <3>2 DEF OpenRefused, Running, Status, markers, flags, writerVars, callVars,
         diskVars, histVars
    <3> QED
      BY <1>11, <3>1, <3>2
  <2> QED
    BY <2>1 DEF Abstract!logVars
<1>12. CASE Crash
  BY <1>12, CrashRefines DEF Abstract!LogNext
<1>13. CASE UNCHANGED vars
  BY <1>13, Stutters DEF vars, markers, flags, writerVars, callVars, diskVars, histVars
<1> QED
  BY Zenon, <1>1, <1>2, <1>3, <1>4, <1>5, <1>6, <1>7, <1>8, <1>9, <1>10, <1>11, <1>12, <1>13
     DEF Next, Await, Writer, Flushing, LogClose, OpenFile, Abstract!LogNext

\* The log of internal/aof implements DurableLog: the engine may rely on the
\* abstract log whatever the number of callers, the batches and the crashes.
THEOREM Refinement == Spec => ImplementsDurableLog
<1>1. Init => Abstract!LogInit
  BY DEF Init, FreshLog, Abstract!LogInit, Running, Status
<1> QED
  BY <1>1, NextRefines, Invariance, PTL DEF Spec, ImplementsDurableLog, Abstract!LogSpec
=============================================================================
