# A TLA+ model of go-kv-store

This directory models the server from the bytes of a request to the bytes of its
append-only file and back: the decoder, the command layer and its glob matcher,
the engine with its store and expiry, scan sessions, the log with its writer and
recovery, one connection, and the life of the whole process. TLC checks small
instances; for every instance TLAPS proves the safety of the log, of the engine
and its recovery, of scan sessions, of the command layer, of the decoder's memory,
of a connection's replies and of the server's shutdown, and the two refinements.

## The system

| Part | Code | What it does | Goroutines and locks |
|---|---|---|---|
| process | `cmd/kv-server` | flags, recovery, signals, exit status | main |
| server | `internal/server/server.go`, `supervisor.go` | listens, admits up to `MaxClients`, shuts down gracefully or fatally | lifecycle goroutine, accept loop, `s.mu`, one WaitGroup, a broadcast channel for fatal conditions |
| connection | `internal/server/conn.go`, `flush_on_block.go` | reads commands, dispatches them, buffers replies | one handler per client |
| RESP | `internal/resp` | frames and limits | none |
| commands | `internal/command`, `internal/glob` | arity, options, patterns | none |
| engine | `internal/engine` | commands under one `RWMutex`, the commit path, the expiration worker | callers, one worker |
| scan sessions | `internal/engine/scan_sessions.go` | snapshots that SCAN pages through, within a budget | own mutex |
| store | `internal/store` | data, and the index of deadlines | under the engine's lock |
| append-only file | `internal/aof` | batches records, writes and syncs them, replays them | callers, one writer, `l.mu`, a condition variable |

A mutation is admitted, appended to the log's buffer and applied to the store in
one critical section of the engine. Its caller then waits outside the lock until
the log's writer reports the record written (`everysec`) or synced (`always`).
Replies collect in a buffer which is flushed when the reader is about to block.
A failure of the log goes to the supervisor, which ends the server.

State that outlives a step of one goroutine, and the hazards it brings, are
listed in `PROJECT.json` under `hazards`, each at the line where it bites.

## Modules

| Module | Models | Composes |
|---|---|---|
| `DurableLog` | what the engine relies on of the append-only file (abstract) | |
| `Log` | `internal/aof`: `Append`, `Await`, writer, `Close`, `OpenFile`, crashes | implements `DurableLog` |
| `LogProofs` | theorems about `Log` | `Log` |
| `Store` | `internal/store`, one operator per method | |
| `StoredInt` | the text of a counter, `parseStoredInt`, the overflow test | |
| `Effects` | `DeriveSet`, `DeriveDel`, `apply`, `Replay` | `Store`, `StoredInt` |
| `KV` | what clients are promised (abstract) | `StoredInt` |
| `Engine` | `internal/engine` without SCAN | `DurableLog`, `Effects`; implements `KV` |
| `EngineProofs` | theorems about `Effects` and `Engine`; that `Engine` implements `KV` | `Induction` |
| `ScanSessions` | SCAN and its session manager | |
| `ScanProofs` | theorems about `ScanSessions` | `Induction` |
| `RespReader` | `ReadCommand`: lines, numbers, limits, chunks, buffer growth, error classes | |
| `Recovery` | the bytes of the log file: `Encode`, header, `Decode`, `Replay`, truncation | `RespReader` |
| `Glob` | `internal/glob`, and a declarative definition of matching | |
| `Commands` | `internal/command`: table, arity, options, handlers, replies | `Store`, `StoredInt`, `Glob` |
| `CommandsProofs` | theorems about `Commands` | `Induction` |
| `KeysProofs` | theorems about `Glob`, and KEYS in `Commands` | `Induction` |
| `Connection` | one handler, its reader and its reply buffer | |
| `WireProofs` | theorems about `Connection` and `RespReader` | |
| `Server` | lifecycle, accept loop, handlers, supervisor | `DurableLog` |
| `ServerProofs` | theorems about `Server` | |
| `Induction` | induction and recursion over the naturals, for the proofs | |
| `MC*` | the instances for TLC | |

`Engine` and `Server` use the log only through `DurableLog`, so what is shown of
`Log` carries over to them: every step of theirs that touches `up`, `status`,
`hist` and `acked` is a step of `DurableLog`. `Server` in turn keeps of the
engine the admission gate, the log and whether a scan session exists, and of a
connection where its handler is; what goes over the wire is `Connection`'s.

The append-only file appears three times, at three grains: `DurableLog` knows
records and confirmations, `Log` the goroutines, batches and lengths, `Recovery`
the bytes. What `Log` assumes of a restart (a partial record at the end is cut
off, whole ones are kept) is what `Recovery` shows of the code that does it.
`Commands` runs each engine call as one step over `Store`; that the engine's
calls behave like that, under concurrency and crashes, is `Engine`'s refinement
of `KV`.

### How code becomes steps

- A critical section under a mutex is one step. Two consecutive lock
  acquisitions, or an operation outside a lock, are two steps: `flush` is
  `FlushSwap`, one `WriteCall` per call of `Write`, `AdvanceWritten`,
  `SyncCall`, `AdvanceSynced`, and `fail` is `Fail` then `Report`.
- A `select` is one action per case. A timeout is an action that is always
  possible while its wait lasts, so every race with it is explored.
- `cond.Wait` parks a caller; `Broadcast` makes every parked caller runnable,
  and it tests its loop again.
- A handler between its draining check and `SetReadDeadline` is at a step of its
  own (`deadline` in `Server`), and so is the accept loop between `admit` and
  `wg.Add` (`spawn`).
- Calls that run while the engine's lock is held (a whole command, a whole
  sweep) are one step of `Engine`. `Engine` shows an answer in `out` for the one
  state after it; `Delivered` clears it.

### What the data is abstracted to

- A record in `Log` is a model value with an encoded length; a `Write` delivers
  any number of bytes of what is left, with or without an error. In `Engine` it
  is the effect itself (`EffectRecords`).
- Time is a counter. `TicksPerMs` ticks make a millisecond, so a deadline can
  fall inside one. The clock does not go back.
- The text of a value is abstracted to a number with how it is written, in or
  out of the range `MinInt..MaxInt`, so `parseStoredInt` rejects what it rejects
  and 64-bit arithmetic becomes arithmetic on a short range.
- Commands and replies in `Connection` are two bytes each: enough to be cut in
  the middle, by a read, by a write error or by a buffer of three bytes.
- In `RespReader` and `Recovery` a byte is a one-character string, and numbers,
  lengths, CRLF and the verbs of a record are spelled out: they are what can be
  cut or damaged. Limits, chunks and the reader's buffer are a few bytes long.
- In `Commands` a word of a request is a model string; `Upper`, `IntOf`, `UintOf`,
  `TextOf` and `Bytes` say what `strings.ToUpper`, `strconv` and the store make
  of it. Patterns and the names they are matched with are sequences of byte
  values. A `time.Duration` is a six-bit integer that wraps. Errors are their
  class, not their wording.
- In `ScanSessions` a key is a number with a length, a pattern the set of keys
  it matches, and a `uint64` ends at `MaxUint`.

## Runs

Every run has `CHECK_DEADLOCK FALSE`: clients may fall silent, a closed log and a
stopped server do nothing more, and the bounds end the rest.

| Run | Instance | Question |
|---|---|---|
| `log_always` | 2 callers, 2 records of 1 or 2 bytes, 3 in the log, 2 crashes, power loss | Do the markers tell the truth, does the file stay a prefix of what was accepted, does everything confirmed survive, is a torn tail always last, does a failed log fall silent? Is every step one of `DurableLog`? |
| `log_everysec` | 1 record of 2 bytes, no power loss, 1 crash, a ticking ticker | Does `Close` sync although writes did not, and is everything synced in the end with no traffic after it? |
| `log_live` | 2 callers, fair scheduling, `always` | Does `Await` always return, is a failure always reported, does `Close` end? |
| `engine_memory` | 2 keys, 3 texts, 1 caller who also reads, clock to 3, a sweep sample of 1 | Is every answer that of a map in which expired keys do not exist? Is every expired key removed in the end? |
| `engine_log` | the same with a log: 2 records, 1 crash | Do memory and log agree at every later instant, after a replay too? Does every indexed key have data? Is nothing admitted after `BeginDrain`? Does a restart bring back what some mutation left, no older than the last one answered? |
| `server` | 2 connections, 1 client at most, no read timeout (the default) | Does the registry cover every handler, is a clean exit clean, is no scan session left behind? Does a shutdown always end, and every handler? |
| `connection` | 4 commands, a reply buffer of 3 bytes | Is no reply withheld, lost or continued after a failure? |
| `scan_sessions` | 2 scanners, 4 names, a 5-bit word | Does the budget hold, is every name returned once, does a cursor live as long as promised? |
| `recovery` | 2 records of up to 5 parts with CR, LF and `*` in the values, cut at every byte, or a bad byte (`x` or a digit) anywhere; reads of 2 and 8 bytes | Is a cut file recovered to its last whole record, also after a second crash? Are the records before a bad byte kept? Does the decoder's memory follow the data? Does recovery end? |
| `commands` | 3 requests out of about 180, clock to 6 | Are SET, TTL, KEYS and SCAN answered as the protocol says, for good and bad requests, and do errors change nothing? |

Two runs state what a document or a test says and show that the code does
otherwise:

- `server_idle`: `docs/architecture.md` says that shutdown releases parked reads
  by setting a deadline. A handler between its draining check (`conn.go:47`) and
  its own `SetReadDeadline` (`conn.go:51`, `53`) undoes that deadline and parks.
  The shutdown then waits for its timeout. `server` shows that it ends.
- `recovery_limits`: `replay_test.go:261` says that what the engine writes, replay
  reads back. Replay uses `resp.DefaultLimits()` (`replay.go:79`), and a record
  can be longer than the command behind it: EXPIRE is recorded as SET with the
  value and PXAT. In the run both sides have the same limit, as with the default
  flags; a value that just fits, given a deadline, makes a record that does not,
  and the next start refuses the file. A server whose `-max-*` flags are above
  the defaults writes such records without EXPIRE.

`docs/protocol.md` also promises that an expiry survives a crash exactly, while
`DeriveSet` keeps milliseconds only (`record.go:48`), so a recovered key can go up
to a millisecond early. `LogMatchesMemory` and `KV` are stated up to that rounding.

### Bounds

`MaxHist`, `MaxCrashes`, `MaxTime` and `MaxCommands` bound what otherwise grows.
Three records are the fewest with one in the file, one in the batch and one in
the buffer; two crashes let a recovery be interrupted by the next. Lengths 1 and
2 give records that can and cannot be torn. Two callers show a wakeup taken by
the wrong one. A clock of 3 with time-to-live 1 and 2 (or 3) passes a deadline
before, on and after a millisecond. `MaxClients = 1` of 2 connections has one
refused while the other is served or leaving. A 5-bit word with a name of nearly its
size makes the session arithmetic saturate. In `recovery` a chunk is 2 bytes and
the reader's buffer 8, so that payloads take several chunks, records several
reads and one read several records; a damaged digit announces more than follows,
within the limits and beyond them; the limit of replay is above the server's
there, and equal to it in `recovery_limits`. In `commands` 3 seconds and 15
milliseconds are the longest durations, and patterns are all those of up to three
of `*?ab`, with longer ones for backtracking, classes and escapes. Callers, records, connections and
scanners are interchangeable in the specifications and the safety properties,
which makes the symmetry sound; runs with liveness properties use none.

### Fairness

- `Log`: every goroutine that can run does (weak fairness of `Await`, of the
  writer's steps, of `Close`), and `Write` and `Sync` return. `select` chooses
  at random among ready cases, so a case that is ready again and again is taken
  (strong fairness of `RunNotify` and `RunClose`; of `RunTick` only in
  `log_everysec`). Nobody is made to append or to close.
- `Engine`: the worker's ticker ticks. Go's map iteration starts at a random
  place, so a key that stays in the index is examined again and again (strong
  fairness per key).
- `Server`: handlers, accept loop, lifecycle and log go on; timers fire. Clients
  and the operator are free to do nothing. That `Await` returns and that a
  failure is reported is what `log_live` shows of `Log`.
- `Recovery`: `OpenFile` goes on, and reads of the file return.
- `Connection`: the handler goes on; writes end, by their deadline if need be.

## Proofs

`LogProofs` proves, for any callers, records, record lengths, policy, bound and
number of crashes, from the assumptions stated in `Log` only:

| Theorem | States |
|---|---|
| `Invariance` | `Spec => []Inv` |
| `TypeCorrect` | `Spec => []TypeOK` |
| `MarkersHold`, `AckedSurvives`, `PrefixHolds`, `TornTailHolds`, `CleanCloseHolds`, `RefusalHolds` | the safety invariants of `log_always` and `log_everysec` |
| `FailureIsFinal` | `FailedLogStopsWriting`, an action property |
| `Refinement` | `Spec => Abstract!LogSpec` |

The safety invariants are not inductive. That a confirmed record is in the file
depends on the marker being right, and that on what the writer has in its hands.
`Inv` adds the missing parts:

- `BufferInv`: history = what the file held at the start, then what is written,
  then the batch, then the buffer, with consecutive sequence numbers and growing
  ends;
- `FileInv`: while a batch is being delivered the file is ahead of the marker by
  exactly the `k` entries whose ends the delivered bytes have reached, and has a
  partial record exactly when more bytes than that were delivered;
- `MarkerInv`: the order of the markers, and what `synced` covers;
- `FailInv`, `CallerInv`, `CloseInv`: where the writer can be after a failure,
  what a caller can be waiting for, and that the flush `Close` asks for takes
  everything and syncs;
- `DiskInv`, `DownInv`: what the file guarantees in every state, and that a
  process that is down has no other state.

Each part has a lemma that a step of a running log preserves it, with one case
per action; `InvOpen` and `InvCrash` do the restarts. `DeliversUnique`,
`HoldsAppend` and `WriteDelivers` carry the arithmetic of partial writes.
`Refinement` uses `Inv`: a confirmation is a `Confirm` of `DurableLog` because
the awaited number is in the history, and a crash is a `Crash` because what is
confirmed is in the file, and after a clean close everything is.

`WireProofs` proves, for a reply buffer of any size from two bytes (the
length of a reply in the model) and any number of commands:

| Theorem | States |
|---|---|
| `ReplyInvariance` | `Spec => []ReplyInv` |
| `NothingWithheld`, `AllAnswered` | `NoReplyWithheld`, `ExecutedIsAnswered` |
| `SilenceHolds` | `SilentAfterFailure`, an action property |

`ReplyInv` is inductive as it stands. It relates the bytes encoded to the commands
executed (`Due`), which neither property mentions and both need: a reply may be
partly on the wire and partly in the buffer at any step.

It also proves, of `RespReader` and for any stream of bytes, any limits, any chunk and
buffer sizes and any way the bytes arrive, `BufferIsCapped`
(`ReaderSpec => []BufferCapped`) and `AllocationFollowsData`
(`ReaderSpec => []MemoryFollowsData`). Neither is inductive: `RInv` adds that what
is buffered and what remains of a payload together stay within the limit and its
CRLF (`LimitInv`), that a chunk is never more than what remains of the payload or
than one preallocation (`ChunkInv`), and that the capacity was reached by growing
from what had arrived or is what a connection may retain (`GrowthInv`).

`ServerProofs` proves, for any finite set of connections, any `MaxClients` and with
or without read timeouts:

| Theorem | States |
|---|---|
| `ServerInvariance` | `ServerSpec => []ServerInv` |
| `RegistryHolds`, `CleanExitHolds`, `SessionsEnd` | `RegistryCoversHandlers`, `CleanExitIsComplete`, `NoSessionOutlivesServer` |

`ServerInv` adds who holds a connection between `admit` and its handler
(`AdmissionInv`), that the server is draining in every phase after the gate, that
after `wg.Wait` has returned no handler is at work although late ones come
and go (`DrainInv`), and that a log found closed stays so (`OutcomeInv`). Each
part has a lemma; what a goroutine leaves alone (`LifecycleFrame`, `LogFrame`,
`AcceptFrame`, `HandlerFrame`) is stated once for all of them.

`ScanProofs` proves, for any scanners, finite set of keys, lengths, patterns,
counts, cursors, limits and word length:

| Theorem | States |
|---|---|
| `ScanInvariance` | `Spec => [](ScanTypeOK /\ ScanInv)` |
| `NamesOnce`, `CursorsLast` | `EveryNameOnce`, `CursorStaysValid` |
| `BudgetInvariance`, `BudgetKept` | `BudgetHolds`, with what `start` relies on |

`ScanInv` says that a cursor is valid or retired, never both, and held by one
scanner (`CursorsInv`), that the session behind a scanner's cursor stands where the
scanner stands and was used when it was (`TraversalInv`), and that a request carries
a clock reading of the past (`RequestInv`): that last part is why a stale reading
expires nothing early. `CallEnds` does all calls that return at once, from what they
leave of the sessions (`Leaves`). `RanksCover` shows that `Sorted` is a list of the
whole set.

The budget needs one thing more: the slice of a scan that starts has room for its
names (`SnapshotsFit`). Then `ScanSessionBytes` of a session that was admitted did
not saturate, as the limit is below the largest word, and covers what the names
really take (`Cost`). `SumOfRest` says what a sum over sessions loses with some of
them, so neither the subtractions of `expireLocked` and `next` nor the addition of
`start` wrap around, and the counter is the exact sum.

`EngineProofs` proves, for any keys, callers, values, deltas,
deadlines, sample size and clock resolution, with and without a log:

| Theorem | States |
|---|---|
| `ReplayIsLastWord` | from the instant of a replay on, what the store shows is what the last record about each key says |
| `EngineInvariance` | `EngineSpec => []EngineInv` |
| `IndexedHaveData`, `LogMatches` | `IndexedKeysHaveData`, `LogMatchesMemory` |
| `DrainHolds` | `DrainIsFinal`, an action property |
| `EngineImplementsKV` | `EngineSpec => ImplementsKV` |

`LogMatchesMemory` is not inductive, because it ends at the bound of the clock and
says nothing of keys that are indexed without data. `EngineInv` says for every later
instant that the log and the store, with its deadlines rounded as the log rounds
them, show the same (`Matches`), and that every deadline belongs to a value
(`Stores`). A mutation keeps it because its record says of its keys what the store
then shows (`MatchesSet` and the lemmas beside it), a sweep because what it removes
had expired, and a restart by `ReplayIsLastWord`, an induction over the log. The
refinement maps the store to what it shows now, and each prefix of the log to what it
would bring back. Rounding twice is rounding once (`RecordedOnce`), and what expires
between an operation and a restart expires in the abstract map too (`AsMapLater`,
`LastWordLater`).

`CommandsProofs` proves, for any requests, clock, names, and lengths of a second and a
millisecond:

| Theorem | States |
|---|---|
| `CommandsInvariance` | `Spec => []CommandsInv` |
| `ErrorsLeaveTheStore` | `ErrorsChangeNothing`, an action property |
| `SetAnswers`, `TTLAnswers`, `ScanAnswers` | `SetIsAsAsked`, `TTLIsNearest`, `ScanIsAsAsked` |

`CommandsInv` says what the store holds, and that nothing is asked once a reply has
been sent. Every handler ends in an `Outcome`: an answer, and an unchanged store with
an error other than the one about persistence. The two option parsers are inductions
over the words of the request: `SetKnown` and `ScanKnown` say what the parser knows
after `j` rounds without an error. `ProductFits` and `Int64IsExact` show that the
bound on an expiry keeps the product of an `int64` exact, `RoundsToNearest` that
TTL's rounding is off by half a second at most.

`KeysProofs` proves, for any finite set of names, any patterns and any requests:

| Theorem | States |
|---|---|
| `MatchIsMatches` | `Match(p, v) <=> Matches(p, v)`, for sequences of bytes |
| `KeysAnswers` | `KeysAreThoseMatching` |

`Match` is a loop over two indices and the last star, modelled as so many rounds
(`MatchRounds`) from any place of the loop. Its invariant says why only the last star
needs to be tried again (`Hoped`, `Reached`): if the name matches at all, it matches from
the last star at the byte marked or a later one, since what an earlier star would take
more, the later one can take instead. A measure that every round lowers (`Ahead`) shows that the
rounds suffice. KEYS then sorts and filters: names are totally ordered by their bytes
(`PrecedesOrders`), `Sorted` lists a finite set in that order and is the only list that
does, and a filtered list of names is the list of those that match.

TLAPS cannot instantiate the library's induction theorems, which take an operator.
`Induction` states them for sets instead (`NatInductionSet`, `UptoInductionSet`), with
the existence of a function that iterates a step (`IterationExists`). A recursive
function is then shown to be that iteration, and what it computes is proved position
by position. The assumptions on the constants are those that TLC evaluates on every
run: marks such as `Absent` are no data, an `int64` has a sign, `strconv` accepts no
empty word and returns what fits, half a second is a whole number of milliseconds,
the keys of a map are finitely many.

Only model-checked:

- liveness under fairness (`log_live`, `AcceptedGetsSynced`,
  `ExpiredKeysAreReclaimed`, `ShutdownEnds`, `HandlersEnd`, `CommandIsAnswered`,
  `RecoveryEnds`), which is out of the prover's reach;
- `CutIsRecovered` and `DamageIsContained`, which need that decoding inverts encoding
  for a record of any length, over the bytes of the file.

## Assumptions and what is left out

- A power loss keeps a prefix of the bytes that were not synced, and all that
  were. The file system's own metadata is not modelled; nor is a crash between
  `Truncate` and the first append of a recovery, which leaves the same file.
- A header cut short makes every later start fail, by design; the model keeps
  that state (`refused`), and `RefusalLosesNothing` says what it costs.
- An I/O error while opening an existing file changes nothing and is no step.
- An error of `Encode` in `Append` is left out, as is `appliedSeq`, which nothing
  reads.
- `Finalize` in `Engine` is the beginning and the end of the log's `Close`; its
  timeout is in `Server`.
- `Server` has persistence on. Stopping the expiration worker is in `Engine`. A
  panic of that worker ends the process, as a panic of any goroutine without a
  `recover` does.
- `Connection` leaves out `flushEveryReply`, which only benchmarks set.
- In `ScanSessions` a random 64-bit cursor never repeats one that was retired.
- `parseInt` stops at 2^30, far from the ends of a 64-bit `int`; the model's
  integers do not wrap there.
- `Glob`'s reference definition shares `matchOne` and `matchClass` with `Match`:
  it settles the stars, not what a class means.
- A bad byte in a length can make the rest of a file look like a torn record,
  which is then cut off: records have no checksum, as `docs/architecture.md` says.
  `DamageIsContained` states what holds all the same.
- `Recovery` gives all keys one deadline, passed or not when the file is replayed.
- In `Commands` SCAN ends with the request passed to the engine; the page, or the
  error that comes back, is `ScanSessions`'.

Not modelled: the replacement of CR and LF in one-line replies and the wording of
errors; logging, flag parsing and the choice of log level; the test tooling
(`cmdgen`, `conformance`, `durability`) and the example client.
