------------------------------ MODULE Commands ------------------------------
(***************************************************************************)
(* The command layer (internal/command): what a request asks the engine    *)
(* for, and what it is answered.  The engine's calls are one step each     *)
(* here, over the operations of Store; Engine models how they run.         *)
(*                                                                         *)
(* A request is a sequence of words.  All that the layer does with a word  *)
(* is to fold its case (Upper), to read it as an integer (IntOf and        *)
(* UintOf, defined on the words strconv accepts), to store it as a value   *)
(* (TextOf) and to use it as a name (Bytes) or a pattern, which is a       *)
(* sequence of bytes.  An int64 is a member of MinInt..MaxInt, and a       *)
(* time.Duration is an int64.                                              *)
(***************************************************************************)
EXTENDS Store, StoredInt, Glob, Functions

CONSTANTS Requests, Upper, TextOf, Bytes,
          IntOf,                 \* ParseInt
          UintOf,                \* ParseUint, one leading + dropped
          Second, Millisecond,   \* as durations
          MaxCommands, MaxTime   \* bounds on the requests and on the clock

ASSUME DurationAssumption ==
  /\ {Second, Millisecond} \subseteq Nat \ {0} /\ Second % (2 * Millisecond) = 0
  /\ Second <= MaxInt /\ MaxCommands \in Nat /\ MaxTime \in Nat

\* strconv accepts no empty word, and what it returns is an int64.
ASSUME WordsAssumption == "" \notin DOMAIN IntOf /\ \A w \in DOMAIN IntOf : IntOf[w] \in MinInt..MaxInt

\* A request is a sequence with a first word, and what it uses as a name is one.
ASSUME RequestsAssumption == \A args \in Requests :
  /\ args = [i \in 1..Len(args) |-> args[i]] /\ Len(args) \in Nat \ {0}
  /\ Len(args) >= 2 /\ Upper[args[1]] \in {"SET", "INCR", "DECR", "EXPIRE", "TTL", "PERSIST"}
       => args[2] \in Keys
  /\ Len(args) >= 3 /\ Upper[args[1]] = "SET" => TextOf[args[3]] \in Text
  /\ Len(args) >= 2 /\ Upper[args[1]] = "KEYS" => args[2] \in Seq(0..255)

\* A name is its bytes, and the maps of the store are finite.
ASSUME NamesAssumption ==
  /\ IsFiniteSet(Keys) /\ \A k \in Keys : Bytes[k] \in Seq(0..255)
  /\ \A k, l \in Keys : Bytes[k] = Bytes[l] => k = l

VARIABLES store, now,
          req, reply,  \* the last request and its answer
          count        \* requests so far

vars == <<store, now, req, reply, count>>

NoReply == [kind |-> "none"]

Init == store = EmptyStore /\ now = 0 /\ req = <<>> /\ reply = NoReply /\ count = 0

----------------------------------------------------------------------------
(***************************************************************************)
(* Parsing.                                                                *)
(***************************************************************************)
\* int64 arithmetic, and time.Duration(n) * step with it.
Int64(n) == ((n - MinInt) % (MaxInt - MinInt + 1)) + MinInt
Step(unit) == IF unit = "EX" THEN Second ELSE Millisecond
Duration(n, unit) == Int64(n * Step(unit))

\* The tests that keep the product in range: maxExpireSeconds, maxExpireMillis.
ExpirableUnbounded(n, unit) == n > 0
Expirable(n, unit) == n > 0 /\ n <= MaxInt \div Step(unit)

\* parseSetOptions, after j options: an error, or the unit and TTL so far.
SetOption(p, opts, i) ==
  LET unit == Upper[opts[i]]
  IN IF unit \notin {"EX", "PX"} \/ p.unit \notin {"", unit} \/ i = Len(opts)
     THEN [p EXCEPT !.error = "syntax"]
     ELSE IF opts[i + 1] \notin DOMAIN IntOf THEN [p EXCEPT !.error = "not an integer"]
     ELSE IF ~Expirable(IntOf[opts[i + 1]], unit) THEN [p EXCEPT !.error = "invalid expire"]
     ELSE [error |-> "", unit |-> unit, ttl |-> Duration(IntOf[opts[i + 1]], unit)]

ParseSetOptions(opts) ==
  LET after[j \in 0..Len(opts)] ==
        IF j = 0 THEN [error |-> "", unit |-> "", ttl |-> NoDeadline]
        ELSE IF after[j - 1].error # "" \/ 2 * j - 1 > Len(opts) THEN after[j - 1]
        ELSE SetOption(after[j - 1], opts, 2 * j - 1)
  IN after[Len(opts)]

\* parseScan: the options, from the third word on, and the cursor.
ScanOptionCountZero(p, args, i) ==
  LET name == Upper[args[i]]
  IN IF name \notin {"MATCH", "COUNT"} \/ i = Len(args) THEN [p EXCEPT !.error = "syntax"]
     ELSE IF name = "MATCH" THEN [p EXCEPT !.pattern = args[i + 1], !.patternSet = TRUE]
     ELSE IF args[i + 1] \notin DOMAIN IntOf THEN [p EXCEPT !.error = "not an integer"]
     ELSE [p EXCEPT !.count = IntOf[args[i + 1]]]
ScanOption(p, args, i) ==
  LET name == Upper[args[i]]
  IN IF name \notin {"MATCH", "COUNT"} \/ i = Len(args) THEN [p EXCEPT !.error = "syntax"]
     ELSE IF name = "MATCH" THEN [p EXCEPT !.pattern = args[i + 1], !.patternSet = TRUE]
     ELSE IF args[i + 1] \notin DOMAIN IntOf THEN [p EXCEPT !.error = "not an integer"]
     ELSE IF IntOf[args[i + 1]] <= 0 THEN [p EXCEPT !.error = "syntax"]
     ELSE [p EXCEPT !.count = IntOf[args[i + 1]]]

DefaultScanCount == 10
ParseScan(args) ==
  LET known == args[2] \in DOMAIN UintOf
      first == [error |-> IF known THEN "" ELSE "invalid cursor",
                cursor |-> IF known THEN UintOf[args[2]] ELSE 0, count |-> DefaultScanCount,
                pattern |-> "", patternSet |-> FALSE]
      after[j \in 0..Len(args)] ==
        IF j = 0 THEN first
        ELSE IF after[j - 1].error # "" \/ 2 * j + 1 > Len(args) THEN after[j - 1]
        ELSE ScanOption(after[j - 1], args, 2 * j + 1)
  IN after[Len(args)]

----------------------------------------------------------------------------
(***************************************************************************)
(* Replies, and the engine as the handlers see it.                         *)
(***************************************************************************)
Simple(s) == [kind |-> "simple", str |-> s]
IntReply(n) == [kind |-> "int", n |-> n]
BoolInt(b) == IntReply(IF b THEN 1 ELSE 0)
Bulk(v) == IF v = Absent THEN [kind |-> "null"] ELSE [kind |-> "bulk", v |-> v]
Array(items) == [kind |-> "array", items |-> items]
Err(class) == [kind |-> "error", class |-> class]

Answers(r) == reply' = r /\ UNCHANGED store

\* A mutation that is recorded and applied; mutationError otherwise.  When the
\* log fails after the mutation was applied, the client is told it failed.
Commits(s, r) == \/ store' = s /\ reply' = r
                 \/ Answers(Err("shutting down"))
                 \/ store' \in {store, s} /\ reply' = Err("persistence unavailable")

\* A mutation with nothing to do.
Finds(s, r) == \/ store' = s /\ reply' = r
               \/ Answers(Err("shutting down"))

Live(k) == IsLive(store, k, now)
Read(k) == StoreGet(store, k, now)
Names(args) == Tail(args)

\* sort.Strings.  A name precedes another when it is over, or has the smaller
\* byte, where they differ first; the i-th of the names has i - 1 before it.
Precedes(a, b) ==
  \E i \in 1..Len(Bytes[b]) :
    /\ \A h \in 1..i - 1 : h <= Len(Bytes[a]) /\ Bytes[a][h] = Bytes[b][h]
    /\ i > Len(Bytes[a]) \/ Bytes[a][i] < Bytes[b][i]
Sorted(ks) == [i \in 1..Cardinality(ks) |->
                 CHOOSE k \in ks : Cardinality({j \in ks : Precedes(j, k)}) = i - 1]

Delete(ks, r) == IF \E k \in Range(ks) : Live(k)
                 THEN Commits(StoreDelete(store, Range(ks)), r)
                 ELSE Finds(StoreDelete(store, Range(ks)), r)
Removed(ks) == Cardinality({k \in Range(ks) : Live(k)})

----------------------------------------------------------------------------
(***************************************************************************)
(* The handlers.                                                           *)
(***************************************************************************)
CmdPing(args) == Answers(IF Len(args) = 2 THEN Bulk(args[2]) ELSE Simple("PONG"))

CmdSetEager(args) ==
  LET p == ParseSetOptions(SubSeq(args, 4, Len(args)))
      at == IF p.ttl = NoDeadline THEN NoDeadline ELSE now + p.ttl
  IN IF p.error # ""
     THEN store' = StoreSet(store, args[2], TextOf[args[3]], at) /\ reply' = Err(p.error)
     ELSE Commits(StoreSet(store, args[2], TextOf[args[3]], at), Simple("OK"))
CmdSet(args) ==
  LET p == ParseSetOptions(SubSeq(args, 4, Len(args)))
      at == IF p.ttl = NoDeadline THEN NoDeadline ELSE now + p.ttl
  IN IF p.error # "" THEN Answers(Err(p.error))
     ELSE Commits(StoreSet(store, args[2], TextOf[args[3]], at), Simple("OK"))

\* INCR and DECR.  The counter keeps its deadline; a missing one starts at 0.
CmdIncrBy(args, delta) ==
  LET k == args[2]
      at == IF Live(k) THEN store.expires[k] ELSE NoDeadline
      nums == IF Live(k) THEN ParseStoredInt(Read(k)) ELSE {0}
  IN \/ nums = {} /\ Finds(store, Err("not an integer"))
     \/ \E n \in nums :
          IF Overflows(n, delta) THEN Finds(store, Err("overflow"))
          ELSE Commits(StoreSet(store, k, FormatInt(n + delta), at), IntReply(n + delta))

\* EXPIRE: what is not positive deletes.
CmdExpire(args) ==
  LET k == args[2]
      n == IntOf[args[3]]
  IN IF args[3] \notin DOMAIN IntOf THEN Answers(Err("not an integer"))
     ELSE IF n <= 0 THEN Delete(<<k>>, IntReply(Removed(<<k>>)))
     ELSE IF ~Expirable(n, "EX") THEN Answers(Err("invalid expire"))
     ELSE IF Live(k)
     THEN Commits(StoreExpire(store, k, now + Duration(n, "EX"), now), BoolInt(TRUE))
     ELSE Finds(store, BoolInt(FALSE))

CmdPersist(args) ==
  LET has == Live(args[2]) /\ store.expires[args[2]] # NoDeadline
  IN IF has THEN Commits(StorePersist(store, args[2], now), BoolInt(TRUE))
            ELSE Finds(store, BoolInt(FALSE))

\* TTL: whole seconds, of whole milliseconds, to the nearest.
RoundUp(ms) == (ms * Millisecond + Second - 1) \div Second
RoundSeconds(ms) == (ms * Millisecond + Second \div 2) \div Second
CmdTTL(args) ==
  LET d == StoreTTL(store, args[2], now)
  IN Answers(IntReply(IF d = Absent THEN -2 ELSE IF d = NoDeadline THEN -1
                  ELSE RoundSeconds(d \div Millisecond)))

CmdGet(args) == Answers(Bulk(Read(args[2])))
CmdMGet(args) == Answers(Array([i \in DOMAIN Names(args) |-> Bulk(Read(Names(args)[i]))]))
CmdDel(args) == Delete(Names(args), IntReply(Removed(Names(args))))
CmdExists(args) ==
  Answers(IntReply(Cardinality({i \in DOMAIN Names(args) : Live(Names(args)[i])})))

FilterSnapshot(keys, pattern) ==
  LET out[i \in 0..Len(keys)] ==
        IF i = 0 THEN <<>>
        ELSE IF Match(pattern, Bytes[keys[i]]) THEN Append(out[i - 1], keys[i]) ELSE out[i - 1]
  IN out[Len(keys)]
CmdKeys(args) == Answers(Array(FilterSnapshot(Sorted(LiveKeys(store, now)), args[2])))
CmdDBSize == Answers(IntReply(StoreLen(store, now)))

\* SCAN, up to the request that the engine gets.  Which page or error of
\* scanError comes back is the matter of ScanSessions.
Page(p) == [kind |-> "page", of |-> p]
ScanErrors(p) == {"internal"} \cup (IF p.cursor = 0 THEN {"session limit"} ELSE {"invalid cursor"})
                   \cup (IF p.cursor # 0 /\ p.patternSet THEN {"match changed"} ELSE {})
CmdScan(args) == LET p == ParseScan(args)
                 IN IF p.error # "" THEN Answers(Err(p.error))
                    ELSE \E r \in {Page(p)} \cup {Err(e) : e \in ScanErrors(p)} : Answers(r)

----------------------------------------------------------------------------
(***************************************************************************)
(* Dispatch.                                                               *)
(***************************************************************************)
Unbounded == MaxInt
Table == [PING |-> 1..2, SET |-> 3..Unbounded, GET |-> 2..2, MGET |-> 2..Unbounded,
          DEL |-> 2..Unbounded, EXISTS |-> 2..Unbounded, INCR |-> 2..2, DECR |-> 2..2,
          EXPIRE |-> 3..3, TTL |-> 2..2, PERSIST |-> 2..2, KEYS |-> 2..2,
          SCAN |-> 2..Unbounded, DBSIZE |-> 1..1]

Run(name, args) ==
  \/ name = "PING" /\ CmdPing(args)
  \/ name = "SET" /\ CmdSet(args)
  \/ name = "GET" /\ CmdGet(args)
  \/ name = "MGET" /\ CmdMGet(args)
  \/ name = "DEL" /\ CmdDel(args)
  \/ name = "EXISTS" /\ CmdExists(args)
  \/ name = "INCR" /\ CmdIncrBy(args, 1)
  \/ name = "DECR" /\ CmdIncrBy(args, -1)
  \/ name = "EXPIRE" /\ CmdExpire(args)
  \/ name = "TTL" /\ CmdTTL(args)
  \/ name = "PERSIST" /\ CmdPersist(args)
  \/ name = "KEYS" /\ CmdKeys(args)
  \/ name = "SCAN" /\ CmdScan(args)
  \/ name = "DBSIZE" /\ CmdDBSize

Dispatch(args) ==
  LET name == Upper[args[1]]
  IN IF name \notin DOMAIN Table THEN Answers(Err("unknown command"))
     ELSE IF Len(args) \notin Table[name] THEN Answers(Err("arity"))
     ELSE Run(name, args)

Request == /\ reply = NoReply /\ count < MaxCommands /\ count' = count + 1 /\ UNCHANGED now
           /\ \E args \in Requests : req' = args /\ Dispatch(args)

\* The reply goes to the client.
Sent == /\ reply # NoReply /\ req' = <<>> /\ reply' = NoReply
        /\ UNCHANGED <<store, now, count>>

Tick == /\ reply = NoReply /\ now < MaxTime /\ now' = now + 1
        /\ UNCHANGED <<store, req, reply, count>>

\* The expiration worker.
Reclaim == /\ reply = NoReply
           /\ store' = ReclaimExpired(store, now, Keys) /\ store' # store
           /\ UNCHANGED <<now, req, reply, count>>

Next == Request \/ Sent \/ Tick \/ Reclaim
Spec == Init /\ [][Next]_vars

----------------------------------------------------------------------------
(***************************************************************************)
(* Properties.                                                             *)
(***************************************************************************)
Asked(name) == req # <<>> /\ Upper[req[1]] = name /\ Len(req) \in Table[name]

\* docs/protocol.md on SET: options of one unit, each with a positive number
\* that a Duration can hold; the last one wins, and none clears the deadline.
\* SET is answered OK only to such a request, and then the key holds the value
\* and expires exactly as asked.
GoodOptions(opts) ==
  /\ Len(opts) % 2 = 0
  /\ \E unit \in {"EX", "PX"} : \A j \in 1..Len(opts) :
       IF j % 2 = 1 THEN Upper[opts[j]] = unit
       ELSE opts[j] \in DOMAIN IntOf /\ IntOf[opts[j]] > 0
              /\ IntOf[opts[j]] * Step(unit) <= MaxInt
SetIsAsAsked ==
  LET opts == SubSeq(req, 4, Len(req))
      at == IF opts = <<>> THEN NoDeadline
            ELSE now + IntOf[opts[Len(opts)]] * Step(Upper[opts[1]])
  IN Asked("SET") =>
       /\ reply = Simple("OK") =>
            /\ GoodOptions(opts) /\ store.data[req[2]] = TextOf[req[3]]
            /\ store.expires[req[2]] = at
       /\ GoodOptions(opts) =>
            reply \in {Simple("OK"), Err("shutting down"), Err("persistence unavailable")}

\* docs/protocol.md: an error changes nothing ("the value and its expiry are
\* left as they were"), unless it says that persistence failed.
ErrorsChangeNothing ==
  [][reply'.kind = "error" /\ reply' # Err("persistence unavailable") => UNCHANGED store]_vars

\* TTL is within half a second (and the millisecond it drops) of the time that
\* is left, and tells a key that is gone from one that never expires.
TTLIsNearest ==
  Asked("TTL") =>
    LET k == req[2]
        off == reply.n * Second - (store.expires[k] - now)
    IN IF ~Live(k) THEN reply.n = -2
       ELSE IF store.expires[k] = NoDeadline THEN reply.n = -1
       ELSE reply.n >= 0 /\ 2 * off <= Second /\ 2 * off >= -Second - 2 * Millisecond

\* KEYS answers with every live name that the pattern matches by the reference
\* definition, and no other, in order.
KeysAreThoseMatching ==
  Asked("KEYS") =>
    reply.items = Sorted({k \in LiveKeys(store, now) : Matches(req[2], Bytes[k])})

\* docs/protocol.md on SCAN: COUNT must be positive, MATCH and COUNT each take
\* the word after them, and the last of each kind wins.
OptionsAt(args, name) == {i \in 3..Len(args) : i % 2 = 1 /\ Upper[args[i]] = name}
LastOption(args, name, default) ==
  LET at == OptionsAt(args, name)
  IN IF at = {} THEN default ELSE args[1 + CHOOSE i \in at : \A h \in at : h <= i]
ScanIsAsAsked ==
  Asked("SCAN") /\ reply.kind = "page" =>
    LET p == reply.of
        counted == LastOption(req, "COUNT", "")
    IN /\ Len(req) % 2 = 0 /\ req[2] \in DOMAIN UintOf /\ p.cursor = UintOf[req[2]]
       /\ p.count > 0 /\ p.count = IF counted = "" THEN DefaultScanCount ELSE IntOf[counted]
       /\ p.pattern = LastOption(req, "MATCH", "")
       /\ p.patternSet <=> OptionsAt(req, "MATCH") # {}
=============================================================================
