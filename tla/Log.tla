-------------------------------- MODULE Log --------------------------------
(***************************************************************************)
(* The append-only file of internal/aof: the callers of Append and Await,  *)
(* the writer goroutine, Close, the file under them, and the crashes and   *)
(* restarts (OpenFile) the file exists for.                                *)
(*                                                                         *)
(* The mutex makes each critical section one step; I/O happens outside it, *)
(* one step per Write or Sync call.  A record is abstract here.  It has an *)
(* encoded length, so that a Write may deliver part of it.                 *)
(***************************************************************************)
EXTENDS Naturals, Sequences

CONSTANTS Callers,            \* goroutines that append and wait
          Records,            \* records they may append
          RecLens,            \* encoded lengths a record may have
          Policy,             \* "everysec" or "always"
          PowerLossPossible,  \* may unsynced bytes be lost?
          MaxHist,            \* bound on the records in the log
          MaxCrashes          \* bound on crashes

ASSUME RecLensAssumption == RecLens \subseteq Nat \ {0}
ASSUME PolicyAssumption == Policy \in {"everysec", "always"}
ASSUME BoundsAssumption == MaxHist \in Nat /\ MaxCrashes \in Nat

\* Only "always" promises anything about a loss of power.
ASSUME PowerLossAssumption ==
  PowerLossPossible \in BOOLEAN /\ (PowerLossPossible => Policy = "always")

VARIABLES
  proc,         \* "down", "up", or "refused" (OpenFile returned an error for good)
  records,      \* Log.buf and Log.records: entries not yet taken by the writer
  appended, written, synced,                             \* the three markers
  failed, closing, closed,
  notify,       \* the one-slot channel: does it hold a token?
  closeCh,      \* has it been closed?
  wpc,          \* where the writer goroutine is
  batch,        \* the entries it took
  total,        \* bytes of the batch delivered so far
  werr,         \* did writeFull stop at an error?
  forceSync,    \* the argument of flush
  exiting,      \* is it serving the closeCh case of run?
  fatal,        \* has onFatal been called?
  cpc, cseq,    \* per caller: idle, await or parked (in cond.Wait); sequence awaited
  closer,       \* the caller of Close
  header,       \* "empty", "torn" or "ok"
  headerSynced,
  file,         \* the complete records in the file
  torn,         \* is there part of a record after them?
  durable,      \* how many of them survive a loss of power
  base,         \* how many of them were there when the log was opened
  hist,         \* history: every record accepted and not lost, in order
  acked,        \* history: the positions of hist that Await confirmed
  crashes

diskVars == <<header, headerSynced, file, torn, durable>>
callVars == <<cpc, cseq>>
markers == <<appended, written, synced>>
flags == <<failed, closing, closed, notify, closeCh, fatal>>
writerVars == <<wpc, batch, total, werr, forceSync, exiting>>
histVars == <<base, hist, acked, crashes>>
vars == <<proc, records, markers, flags, writerVars, callVars, closer,
          diskVars, histVars>>

Entry == [seq : Nat \ {0}, end : Nat \ {0}, rec : Records]

FlagsOK ==
  /\ failed \in BOOLEAN /\ closing \in BOOLEAN /\ closed \in BOOLEAN
  /\ notify \in BOOLEAN /\ closeCh \in BOOLEAN /\ fatal \in BOOLEAN
  /\ werr \in BOOLEAN /\ forceSync \in BOOLEAN /\ exiting \in BOOLEAN
  /\ headerSynced \in BOOLEAN /\ torn \in BOOLEAN

DataOK ==
  /\ records \in Seq(Entry) /\ batch \in Seq(Entry)
  /\ appended \in Nat /\ written \in Nat /\ synced \in Nat /\ total \in Nat
  /\ cpc \in [Callers -> {"idle", "await", "parked"}]
  /\ cseq \in [Callers -> Nat]
  /\ file \in Seq(Records) /\ durable \in Nat
  /\ base \in Nat /\ hist \in Seq(Records) /\ acked \subseteq Nat
  /\ crashes \in Nat

ControlOK ==
  /\ proc \in {"down", "up", "refused"}
  /\ wpc \in {"select", "flush", "write", "advanceWritten", "sync",
              "advanceSynced", "fail", "report", "finish", "done"}
  /\ closer \in {"idle", "closing", "waiting", "ok", "failed", "timeout"}
  /\ header \in {"empty", "torn", "ok"}

TypeOK == FlagsOK /\ DataOK /\ ControlOK

----------------------------------------------------------------------------
(***************************************************************************)
(* Helpers.                                                                *)
(***************************************************************************)
\* Bytes in the buffer whose entries are es.
BufLen(es) == IF es = <<>> THEN 0 ELSE es[Len(es)].end

\* The first k entries of es, and no more, lie within its first n bytes.
Delivers(es, k, n) == /\ \A i \in 1..k : es[i].end <= n
                      /\ \A i \in k+1..Len(es) : es[i].end > n

\* cond.Broadcast: every parked caller checks again.
Broadcast == cpc' = [c \in Callers |-> IF cpc[c] = "parked" THEN "await" ELSE cpc[c]]

\* reached, as a caller that passes the log's own policy sees it.
ReachedWritten(seq) == written >= seq
Reached(seq) == IF Policy = "always" THEN synced >= seq ELSE written >= seq

\* The values Open gives a new Log; the writer goroutine has just started.
FreshLog ==
  /\ records = <<>> /\ batch = <<>>
  /\ appended = 0 /\ written = 0 /\ synced = 0
  /\ failed = FALSE /\ closing = FALSE /\ closed = FALSE
  /\ notify = FALSE /\ closeCh = FALSE /\ fatal = FALSE
  /\ wpc = "select" /\ total = 0 /\ werr = FALSE
  /\ forceSync = FALSE /\ exiting = FALSE
  /\ cpc = [c \in Callers |-> "idle"] /\ cseq = [c \in Callers |-> 0]
  /\ closer = "idle"

\* The same, as the effect of a process that ends.
Reset ==
  /\ records' = <<>> /\ batch' = <<>>
  /\ appended' = 0 /\ written' = 0 /\ synced' = 0
  /\ failed' = FALSE /\ closing' = FALSE /\ closed' = FALSE
  /\ notify' = FALSE /\ closeCh' = FALSE /\ fatal' = FALSE
  /\ wpc' = "select" /\ total' = 0 /\ werr' = FALSE
  /\ forceSync' = FALSE /\ exiting' = FALSE
  /\ cpc' = [c \in Callers |-> "idle"] /\ cseq' = [c \in Callers |-> 0]
  /\ closer' = "idle"

Init ==
  /\ proc = "down" /\ FreshLog
  /\ header = "empty" /\ headerSynced = FALSE
  /\ file = <<>> /\ torn = FALSE /\ durable = 0
  /\ base = 0 /\ hist = <<>> /\ acked = {} /\ crashes = 0

----------------------------------------------------------------------------
(***************************************************************************)
(* Callers: Append under the caller's own lock, Await outside it.          *)
(***************************************************************************)
\* Append refuses, and changes nothing, once the log failed or began to close.
Refusing == failed \/ closing \/ closed

LogAppend(c, r) ==
  /\ proc = "up" /\ cpc[c] = "idle" /\ ~Refusing
  /\ Len(hist) < MaxHist
  /\ \E n \in RecLens :
       records' = Append(records, [seq |-> appended + 1,
                                   end |-> BufLen(records) + n, rec |-> r])
  /\ appended' = appended + 1
  /\ notify' = TRUE
  /\ cpc' = [cpc EXCEPT ![c] = "await"]
  /\ cseq' = [cseq EXCEPT ![c] = appended + 1]
  /\ hist' = Append(hist, r)
  /\ UNCHANGED <<proc, written, synced, failed, closing, closed, closeCh, fatal,
                 writerVars, closer, diskVars, base, acked, crashes>>

\* The ways through the loop of Await, in the order it tests them: failed,
\* reached, closed, and cond.Wait.  The first and the third return an error.
AwaitReturns(c) == /\ cpc' = [cpc EXCEPT ![c] = "idle"]
                   /\ UNCHANGED <<proc, records, markers, flags, writerVars, cseq,
                                  closer, diskVars, base, hist, crashes>>

AwaitError(c) == /\ proc = "up" /\ cpc[c] = "await"
                 /\ (Reached(cseq[c]) \/ ~closed) => failed
                 /\ AwaitReturns(c) /\ UNCHANGED acked

AwaitReached(c) == /\ proc = "up" /\ cpc[c] = "await" /\ ~failed /\ Reached(cseq[c])
                   /\ AwaitReturns(c)
                   /\ acked' = acked \cup {base + cseq[c]}

AwaitParks(c) == /\ proc = "up" /\ cpc[c] = "await" /\ ~failed
                 /\ ~Reached(cseq[c]) /\ ~closed
                 /\ cpc' = [cpc EXCEPT ![c] = "parked"]
                 /\ UNCHANGED <<proc, records, markers, flags, writerVars, cseq,
                                closer, diskVars, histVars>>

Await(c) == AwaitError(c) \/ AwaitReached(c) \/ AwaitParks(c)

----------------------------------------------------------------------------
(***************************************************************************)
(* The writer goroutine: run, flush, writeFull and the critical sections   *)
(* they end in.                                                            *)
(***************************************************************************)
\* A case of run's select starts a flush.
StartFlush(force, exit) ==
  /\ proc = "up" /\ wpc = "select"
  /\ wpc' = "flush" /\ forceSync' = force /\ exiting' = exit
  /\ UNCHANGED <<proc, records, markers, failed, closing, closed, closeCh, fatal,
                 batch, total, werr, callVars, closer, diskVars, histVars>>

RunNotify == notify /\ notify' = FALSE /\ StartFlush(FALSE, FALSE)

\* A tick at least syncInterval after the last one acted on; earlier ticks do nothing.
RunTickNoForce == StartFlush(FALSE, FALSE) /\ UNCHANGED notify
RunTick == StartFlush(TRUE, FALSE) /\ UNCHANGED notify

RunCloseNoForce == closeCh /\ StartFlush(FALSE, TRUE) /\ UNCHANGED notify
RunClose == closeCh /\ StartFlush(TRUE, TRUE) /\ UNCHANGED notify

\* Where flush's caller continues.
Resume == IF exiting THEN "finish" ELSE "select"
SyncOrResume == IF forceSync \/ Policy = "always" THEN "sync" ELSE Resume

FlushSwapUnchecked ==
  /\ proc = "up" /\ wpc = "flush"
  /\ batch' = records /\ records' = <<>>
  /\ total' = 0 /\ werr' = FALSE
  /\ wpc' = IF records # <<>> THEN "write" ELSE SyncOrResume
  /\ UNCHANGED <<proc, markers, flags, forceSync, exiting, callVars, closer,
                 diskVars, histVars>>

FlushSwap ==
  /\ proc = "up" /\ wpc = "flush"
  /\ IF failed
     THEN wpc' = Resume /\ UNCHANGED <<batch, records, total, werr>>
     ELSE /\ batch' = records /\ records' = <<>>
          /\ total' = 0 /\ werr' = FALSE
          /\ wpc' = IF records # <<>> THEN "write" ELSE SyncOrResume
  /\ UNCHANGED <<proc, markers, flags, forceSync, exiting, callVars, closer,
                 diskVars, histVars>>

\* One call of f.Write, which delivers n of the remaining bytes, with or
\* without an error.  No progress is an error of writeFull's own.
WriteCall ==
  /\ proc = "up" /\ wpc = "write"
  /\ \E n \in 0..BufLen(batch) - total, err \in BOOLEAN,
        k0 \in 0..Len(batch), k1 \in 0..Len(batch) :
       /\ Delivers(batch, k0, total) /\ Delivers(batch, k1, total + n)
       /\ total' = total + n
       /\ file' = file \o [i \in 1..k1 - k0 |-> batch[k0 + i].rec]
       /\ torn' = (total + n > IF k1 = 0 THEN 0 ELSE batch[k1].end)
       /\ werr' = (err \/ n = 0)
       /\ wpc' = IF err \/ n = 0 \/ total + n = BufLen(batch)
                 THEN "advanceWritten" ELSE "write"
  /\ UNCHANGED <<proc, records, markers, flags, batch, forceSync, exiting, callVars,
                 closer, header, headerSynced, durable, histVars>>

AdvanceWritten ==
  /\ proc = "up" /\ wpc = "advanceWritten"
  /\ \E k \in 0..Len(batch) :
       /\ Delivers(batch, k, total)
       /\ written' = IF k = 0 THEN written ELSE batch[k].seq
  /\ Broadcast
  /\ wpc' = IF werr THEN "fail" ELSE SyncOrResume
  /\ UNCHANGED <<proc, records, appended, synced, flags, batch, total, werr,
                 forceSync, exiting, cseq, closer, diskVars, histVars>>

\* f.Sync makes everything in the file survive a loss of power, or fails.
SyncCall ==
  /\ proc = "up" /\ wpc = "sync"
  /\ \/ /\ durable' = Len(file) /\ headerSynced' = TRUE
        /\ wpc' = "advanceSynced"
     \/ /\ wpc' = "fail" /\ UNCHANGED <<durable, headerSynced>>
  /\ UNCHANGED <<proc, records, markers, flags, batch, total, werr, forceSync,
                 exiting, callVars, closer, header, file, torn, histVars>>

AdvanceSyncedAll ==
  /\ proc = "up" /\ wpc = "advanceSynced"
  /\ synced' = appended
  /\ Broadcast
  /\ wpc' = Resume
  /\ UNCHANGED <<proc, records, appended, written, flags, batch, total, werr,
                 forceSync, exiting, cseq, closer, diskVars, histVars>>

AdvanceSynced ==
  /\ proc = "up" /\ wpc = "advanceSynced"
  /\ synced' = written
  /\ Broadcast
  /\ wpc' = Resume
  /\ UNCHANGED <<proc, records, appended, written, flags, batch, total, werr,
                 forceSync, exiting, cseq, closer, diskVars, histVars>>

\* fail: the state first, under the mutex; the report after it is released.
FailSilently ==
  /\ proc = "up" /\ wpc = "fail"
  /\ failed' = TRUE /\ wpc' = "report"
  /\ UNCHANGED <<proc, records, markers, closing, closed, notify, closeCh, fatal,
                 batch, total, werr, forceSync, exiting, callVars, closer, diskVars,
                 histVars>>

Fail ==
  /\ proc = "up" /\ wpc = "fail"
  /\ failed' = TRUE /\ Broadcast /\ wpc' = "report"
  /\ UNCHANGED <<proc, records, markers, closing, closed, notify, closeCh, fatal,
                 batch, total, werr, forceSync, exiting, cseq, closer, diskVars,
                 histVars>>

ReportDropped ==
  /\ proc = "up" /\ wpc = "report"
  /\ wpc' = Resume
  /\ UNCHANGED <<proc, records, markers, flags, batch, total, werr, forceSync, exiting,
                 callVars, closer, diskVars, histVars>>

Report ==
  /\ proc = "up" /\ wpc = "report"
  /\ fatal' = TRUE /\ wpc' = Resume
  /\ UNCHANGED <<proc, records, markers, failed, closing, closed, notify, closeCh,
                 batch, total, werr, forceSync, exiting, callVars, closer, diskVars,
                 histVars>>

Finish ==
  /\ proc = "up" /\ wpc = "finish"
  /\ closed' = TRUE /\ Broadcast /\ wpc' = "done"
  /\ UNCHANGED <<proc, records, markers, failed, closing, notify, closeCh, fatal,
                 batch, total, werr, forceSync, exiting, cseq, closer, diskVars,
                 histVars>>

Flushing == FlushSwap \/ WriteCall \/ AdvanceWritten \/ SyncCall \/ AdvanceSynced
              \/ Fail \/ Report \/ Finish
Writer == RunNotify \/ RunTick \/ RunClose \/ Flushing

----------------------------------------------------------------------------
(***************************************************************************)
(* Close: the flag under the mutex, then the channel, then the wait.       *)
(***************************************************************************)
CloseStep(from, to) ==
  /\ proc = "up" /\ closer = from /\ closer' = to
  /\ UNCHANGED <<proc, records, markers, failed, closed, notify, fatal, writerVars,
                 callVars, diskVars, histVars>>

CloseBegins == CloseStep("idle", "closing") /\ closing' = TRUE /\ UNCHANGED closeCh
CloseSignalsNothing == CloseStep("closing", "waiting") /\ UNCHANGED <<closing, closeCh>>
CloseSignals == CloseStep("closing", "waiting") /\ closeCh' = TRUE /\ UNCHANGED closing
CloseReturns == /\ wpc = "done"
                /\ CloseStep("waiting", IF failed THEN "failed" ELSE "ok")
                /\ UNCHANGED <<closing, closeCh>>
CloseTimesOut == CloseStep("waiting", "timeout") /\ UNCHANGED <<closing, closeCh>>

LogClose == CloseBegins \/ CloseSignals \/ CloseReturns \/ CloseTimesOut

----------------------------------------------------------------------------
(***************************************************************************)
(* OpenFile, and the ends a process can come to.                           *)
(***************************************************************************)
Opened ==
  /\ proc' = "up" /\ base' = Len(file)
  /\ UNCHANGED <<records, markers, flags, writerVars, callVars, closer,
                 headerSynced, file, durable, hist, acked, crashes>>

\* An empty file gets its header first.
OpenNew == proc = "down" /\ header = "empty" /\ header' = "ok" /\ Opened /\ UNCHANGED torn

\* WriteAt fails, or the process dies in it: part of a header may stay behind.
OpenNewFails ==
  /\ proc = "down" /\ header = "empty" /\ header' = "torn"
  /\ UNCHANGED <<proc, records, markers, flags, writerVars, callVars, closer,
                 headerSynced, file, torn, durable, histVars>>

\* Replay, then truncation to the last complete record.
OpenExistingNoTruncate == proc = "down" /\ header = "ok" /\ Opened /\ UNCHANGED <<header, torn>>
OpenExisting == proc = "down" /\ header = "ok" /\ torn' = FALSE /\ Opened /\ UNCHANGED header

\* ReadHeader: 1 to 15 bytes are not a header, and the server will not start.
OpenRefused ==
  /\ proc = "down" /\ header = "torn" /\ proc' = "refused"
  /\ UNCHANGED <<records, markers, flags, writerVars, callVars, closer, diskVars,
                 histVars>>

OpenFile == OpenNew \/ OpenNewFails \/ OpenExisting \/ OpenRefused

\* The process ends; what Write accepted is in the file.
ProcessCrash ==
  /\ proc = "up" /\ crashes < MaxCrashes
  /\ proc' = "down" /\ crashes' = crashes + 1
  /\ Reset
  /\ hist' = file
  /\ UNCHANGED <<diskVars, base, acked>>

\* Power fails: of the bytes not synced any prefix may survive, the header's
\* included, and the last record of it may be torn.
PowerLoss ==
  /\ PowerLossPossible /\ proc # "refused" /\ crashes < MaxCrashes
  /\ proc' = "down" /\ crashes' = crashes + 1
  /\ Reset
  /\ \E n \in durable..Len(file) :
       /\ file' = SubSeq(file, 1, n) /\ hist' = file' /\ durable' = n
       /\ torn' \in {t \in BOOLEAN : t => (torn \/ n < Len(file))}
       /\ header' \in {h \in {"empty", "torn", "ok"} :
                         h = header \/ (header # "empty" /\ ~headerSynced
                                          /\ n = 0 /\ ~torn' /\ h # "ok")}
       /\ headerSynced' = (header' = "ok")
  /\ UNCHANGED <<base, acked>>

Crash == ProcessCrash \/ PowerLoss

Next == \/ \E c \in Callers : Await(c) \/ \E r \in Records : LogAppend(c, r)
        \/ Writer \/ LogClose \/ OpenFile \/ Crash

\* The Go scheduler runs every runnable goroutine, Write and Sync return, and
\* select picks at random among its ready cases, so that none is passed over
\* for ever.  Nothing forces a caller to append or Close to be called.
Fairness == /\ \A c \in Callers : WF_vars(Await(c))
            /\ SF_vars(RunNotify) /\ SF_vars(RunClose) /\ WF_vars(Flushing)
            /\ WF_vars(CloseSignals) /\ WF_vars(CloseReturns)

Spec == Init /\ [][Next]_vars
FairSpec == Spec /\ Fairness
\* The ticker ticks as well.
TickingSpec == FairSpec /\ SF_vars(RunTick)

----------------------------------------------------------------------------
(***************************************************************************)
(* Properties.                                                             *)
(***************************************************************************)
\* The markers never invert (the comment on Log, "synced <= written <= appended
\* always"), and they never run ahead of the file: written counts records the
\* file holds whole, synced records that a Sync covered.
MarkersTellTheTruth ==
  proc = "up" => /\ synced <= written /\ written <= appended
                 /\ base + written <= Len(file)
                 /\ synced > 0 => base + synced <= durable

\* Await confirms a record only when the file holds it, and under "always" only
\* when a loss of power would leave it there: no crash at any later point, of
\* the process or (under "always") of the machine, loses a confirmed record.
AckedDurable ==
  \A i \in acked : i <= Len(file) /\ (Policy = "always" => i <= durable)

\* The file is a prefix of the records accepted, in the order they were
\* accepted: batches, short writes and failures leave no gap and no duplicate,
\* so that replay sees an initial part of what was applied.
FileIsPrefixOfHistory == Len(file) <= Len(hist) /\ file = SubSeq(hist, 1, Len(file))

\* Part of a record is only ever the very end of the file: it is left there by
\* a write in progress or by a write after which the log has failed (or is
\* about to), and OpenFile removes it before anything is appended after it.
TornTailIsLast ==
  proc = "up" /\ torn =>
    wpc \in {"write", "advanceWritten", "fail"} \/ failed

\* A log that closes without having failed has put every accepted record on
\* stable storage, under either policy, whether or not Close still waits for
\* it; so Await never has to answer ErrClosed for a record it accepted.
CleanCloseIsComplete ==
  closed /\ ~failed =>
    file = hist /\ durable = Len(hist) /\ ~torn /\ synced = appended

\* A server that refuses its own file (a torn header) has never had a record
\* in it that it confirmed.
RefusalLosesNothing == header = "torn" => acked = {} /\ file = <<>>

\* A failed log writes nothing more: the file stays as the failure left it
\* until the next start.
FailedLogStopsWriting ==
  [][failed /\ failed' => UNCHANGED <<file, torn, durable, written, synced>>]_vars

\* The log as DurableLog sees it.
Running == proc = "up"
Status == IF failed THEN "failed" ELSE IF closed THEN "closed"
          ELSE IF closing THEN "closing" ELSE "open"
Abstract == INSTANCE DurableLog WITH up <- Running, status <- Status

\* Append, Await, Close and the crashes of this log are those of DurableLog:
\* what was confirmed is never lost, a clean close loses nothing, and what
\* survives is an initial part, in order, of what was accepted.
ImplementsDurableLog == Abstract!LogSpec

\* No caller waits for ever: Await returns on progress, on failure and on close,
\* or the process ends.
AwaitAlwaysReturns == \A c \in Callers : cpc[c] # "idle" ~> cpc[c] = "idle"

\* A failed log tells the supervisor (or the process ends first).
FailureIsReported == failed ~> fatal \/ proc = "down"

\* Close returns once its caller reached the wait.
CloseTerminates == closer = "closing" ~> closer \in {"ok", "failed", "timeout", "idle"}

\* With the ticker running, every record accepted is synced in the end, under
\* everysec too, unless the log fails or the process ends.
AcceptedGetsSynced ==
  \A n \in 1..MaxHist :
    (proc = "up" /\ Len(hist) >= n) ~> (durable >= n \/ failed \/ proc = "down")
----------------------------------------------------------------------------
(***************************************************************************)
(* The invariant that makes the safety properties inductive.               *)
(***************************************************************************)
\* The writer has taken a batch and not yet reported how much it delivered.
Delivering == wpc \in {"write", "advanceWritten"}

\* es holds the records of history h that follow the first b + n, where b is the
\* number of them that were there before this process numbered its own from 1.
Holds(es, n, h, b) ==
  /\ \A i \in 1..Len(es) : es[i].seq = n + i /\ es[i].rec = h[b + n + i]
  /\ \A i, j \in 1..Len(es) : i < j => es[i].end < es[j].end

\* Nothing accepted is outside file, batch and buffer, while the log works.
BufferInv ==
  /\ Len(hist) = base + appended
  /\ Len(records) <= appended /\ Holds(records, appended - Len(records), hist, base)
  /\ Delivering => /\ batch # <<>> /\ Holds(batch, written, hist, base)
                   /\ written + Len(batch) + Len(records) = appended
  /\ wpc \notin {"write", "advanceWritten", "fail"} /\ ~failed =>
       written + Len(records) = appended

\* The file holds what the marker says, and during a delivery the delivered
\* part of the batch as well.
FileInv ==
  /\ Delivering => \E k \in 0..Len(batch) :
       /\ Delivers(batch, k, total) /\ Len(file) = base + written + k
       /\ torn <=> total > IF k = 0 THEN 0 ELSE batch[k].end
  /\ ~Delivering => Len(file) = base + written
  /\ wpc = "write" => total < BufLen(batch)
  /\ wpc = "advanceWritten" => total <= BufLen(batch) /\ (~werr => total = BufLen(batch))
  /\ wpc \notin {"write", "advanceWritten", "fail"} /\ ~failed => ~torn

MarkerInv ==
  /\ synced <= written /\ written <= appended
  /\ synced > 0 => base + synced <= durable
  /\ wpc = "advanceSynced" => durable = Len(file)

FailInv == /\ failed => wpc \in {"select", "flush", "report", "finish", "done"}
           /\ wpc = "report" => failed

CallerInv == \A c \in Callers : cpc[c] # "idle" => cseq[c] \in 1..appended

\* The flush that Close asks for takes all there will ever be, and syncs it.
CloseInv ==
  /\ closer # "idle" => closing
  /\ closeCh => closing
  /\ exiting => closing /\ forceSync
  /\ wpc = "select" => ~exiting
  /\ wpc \in {"finish", "done"} => exiting
  /\ closed <=> wpc = "done"
  /\ exiting /\ wpc \notin {"flush", "fail"} /\ ~failed => records = <<>>
  /\ wpc \in {"finish", "done"} /\ ~failed => synced = written /\ durable = Len(file)

\* What the file guarantees in every state.
DiskInv ==
  /\ Len(file) <= Len(hist) /\ \A i \in 1..Len(file) : file[i] = hist[i]
  /\ durable <= Len(file)
  /\ \A i \in acked : i > 0 /\ i <= Len(file) /\ (Policy = "always" => i <= durable)
  /\ headerSynced \/ durable = 0
  /\ header # "ok" => file = <<>> /\ ~torn /\ acked = {}

DownInv == FreshLog /\ hist = file

Inv == /\ TypeOK /\ DiskInv
       /\ proc # "up" => DownInv
       /\ proc = "up" => /\ header = "ok" /\ BufferInv /\ FileInv /\ MarkerInv
                         /\ FailInv /\ CallerInv /\ CloseInv
=============================================================================
