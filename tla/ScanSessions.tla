---------------------------- MODULE ScanSessions ----------------------------
(***************************************************************************)
(* SCAN (internal/engine/discovery.go and scan_sessions.go): the session   *)
(* manager, under its own mutex, and the handlers that call it with what   *)
(* they captured, or with a clock they read, before they had that mutex.   *)
(* A key is a number, in sorting order; a pattern is the set of the keys   *)
(* it matches.  Sizes are uint64, which here ends at MaxUint.              *)
(***************************************************************************)
EXTENDS Integers, Sequences, FiniteSetsExt

CONSTANTS Scanners,         \* client connections that scan
          Keys,             \* a set of numbers
          KeyLen,           \* key -> length of its name
          LiveSets,         \* sets of keys that may be live at some instant
          Patterns,         \* a set of sets of keys
          Counts,           \* values of COUNT
          Tokens,           \* nonzero cursors the random source may produce
          SessionTTL, MaxSessions, MaxBytes,
          StringBytes, SessionOverhead, PatternLen,
          MaxUint,
          MaxTime           \* bound on the clock

ASSUME KeysAssumption == Keys \subseteq Nat /\ IsFiniteSet(Keys) /\ KeyLen \in [Keys -> Nat]
ASSUME LiveSetsAssumption == LiveSets \cup Patterns \subseteq SUBSET Keys
ASSUME CountsAssumption == Counts \subseteq Nat \ {0}
ASSUME TokensAssumption == 0 \notin Tokens /\ IsFiniteSet(Tokens)
ASSUME LimitsAssumption ==
  /\ {SessionTTL, MaxSessions, MaxBytes, StringBytes, SessionOverhead, PatternLen, MaxTime}
       \subseteq Nat
  /\ MaxUint \in Nat /\ MaxBytes < MaxUint

VARIABLES sessions,  \* cursor -> [keys, pattern, position, lastUsed, bytes]
          bytes,     \* the bytes they retain
          now,
          retired,   \* cursors that were issued and are not valid any more
          cleared,   \* of them, those that clear() removed
          scan       \* per scanner: its request, and what it has seen of its traversal

vars == <<sessions, bytes, now, retired, cleared, scan>>

\* A scanner is idle, has captured the keys of a SCAN 0, or is about to go on
\* with a cursor; at is the clock it read.  Of its traversal it remembers the
\* names captured and returned, the cursor it holds (0 after the last page),
\* and the clock reading of the last page.
NoScan == [pc |-> "idle", snap |-> <<>>, cap |-> 0, pattern |-> {}, at |-> 0,
           presented |-> 0, got |-> <<>>, cursor |-> 0, used |-> 0]

Init == /\ sessions = <<>> /\ bytes = 0 /\ now = 0 /\ retired = {} /\ cleared = {}
        /\ scan = [c \in Scanners |-> NoScan]

----------------------------------------------------------------------------
(***************************************************************************)
(* Arithmetic.                                                             *)
(***************************************************************************)
ScanWrappingAdd(a, b) == (a + b) % (MaxUint + 1)
ScanSaturatingAdd(a, b) == IF MaxUint - a < b THEN MaxUint ELSE a + b
ScanSaturatingMultiply(a, b) == IF a # 0 /\ b > MaxUint \div a THEN MaxUint ELSE a * b

\* scanSessionBytes and scanSessionRetainedBytes.
ScanSessionBytes(keys, cap) ==
  LET sum[i \in 0..Len(keys)] ==
        IF i = 0 THEN 0 ELSE ScanSaturatingAdd(sum[i - 1], KeyLen[keys[i]])
      keyBytes == sum[Len(keys)]
      headers == ScanSaturatingMultiply(cap, StringBytes)
  IN ScanSaturatingAdd(ScanSaturatingAdd(ScanSaturatingAdd(headers, keyBytes), PatternLen),
                       SessionOverhead)

\* count is compared with what remains before anything is added to start.
ScanPageEnd(start, length, count) ==
  IF count >= length - start THEN length ELSE start + count

Minus(a, b) == (a + MaxUint + 1 - b) % (MaxUint + 1)

----------------------------------------------------------------------------
(***************************************************************************)
(* The manager.                                                            *)
(***************************************************************************)
Without(ss, ts) == [t \in DOMAIN ss \ ts |-> ss[t]]
With(ss, t, session) == [u \in DOMAIN ss \cup {t} |-> IF u = t THEN session ELSE ss[u]]

SumBytes(ss, ts) == MapThenSumSet(LAMBDA t : ss[t].bytes, ts)

\* expireLocked, as the set of cursors it removes.
Expirable(at) == {t \in DOMAIN sessions : at >= sessions[t].lastUsed + SessionTTL}

\* nextTokenLocked: any cursor but 0 and the valid ones.  That the random source
\* repeats one of the past is left out (one in 2^64).
Past(valid) == retired \cup (DOMAIN sessions \ valid)
NextTokenUnchecked(valid) == Tokens \ Past(valid)
NextToken(valid) == Tokens \ (Past(valid) \cup valid)

\* The state after expireLocked.
Kept(at) == Without(sessions, Expirable(at))
KeptBytes(at) == Minus(bytes, SumBytes(sessions, Expirable(at)))

\* How a call ends: with the sessions ss, sz bytes retained, the cursors gone.
Ends(c, ss, sz, gone, outcome) ==
  /\ sessions' = ss /\ bytes' = sz /\ retired' = retired \cup gone
  /\ scan' = [scan EXCEPT ![c] = outcome]
  /\ UNCHANGED <<now, cleared>>

\* sortSnapshot: the i-th of the keys is the one with i - 1 below it.
Sorted(S) ==
  [i \in 1..Cardinality(S) |-> CHOOSE k \in S : Cardinality({j \in S : j < k}) = i - 1]

\* SCAN 0, first half: captureLiveKeys under the engine's read lock, then the
\* filter and the sort.  The slice keeps the capacity of all stored keys.
Capture(c, live, stored, pattern) ==
  /\ scan[c].pc = "idle"
  /\ scan' = [scan EXCEPT ![c] =
       [NoScan EXCEPT !.pc = "start", !.at = now, !.pattern = pattern,
                      !.snap = Sorted(live \cap pattern),
                      !.cap = Cardinality(stored)]]
  /\ UNCHANGED <<sessions, bytes, now, retired, cleared>>

\* The three tests of start, the second of which keeps the third from wrapping.
Full(kept, retained, size) ==
  \/ Cardinality(DOMAIN kept) >= MaxSessions
  \/ size > MaxBytes
  \/ retained > Minus(MaxBytes, size)

\* start: the page, and a session for the rest if there is one, room for it and
\* a cursor to be had; else ErrScanSessionLimit, or an error for want of random
\* bytes.
Start(c, count) ==
  LET s == scan[c]
      end == ScanPageEnd(0, Len(s.snap), count)
      size == ScanSessionBytes(s.snap, s.cap)
      kept == Kept(s.at)
      retained == KeptBytes(s.at)
      page == [NoScan EXCEPT !.snap = s.snap, !.got = SubSeq(s.snap, 1, end), !.used = s.at]
      session == [keys |-> s.snap, pattern |-> s.pattern, position |-> end,
                  lastUsed |-> s.at, bytes |-> size]
  IN /\ s.pc = "start"
     /\ IF end = Len(s.snap) THEN Ends(c, kept, retained, Expirable(s.at), page)
        ELSE \/ Ends(c, kept, retained, Expirable(s.at), NoScan)
             \/ /\ ~Full(kept, retained, size)
                /\ \E t \in NextToken(DOMAIN kept) :
                     Ends(c, With(kept, t, session), (retained + size) % (MaxUint + 1),
                          Expirable(s.at), [page EXCEPT !.cursor = t])

\* SCAN with a cursor: the one the scanner holds or, as when a client repeats a
\* request whose answer it lost, one that is not valid any more.
Present(c, t) ==
  /\ scan[c].pc = "idle" /\ t # 0
  /\ scan' = [scan EXCEPT ![c].pc = "next", ![c].at = now, ![c].presented = t]
  /\ UNCHANGED <<sessions, bytes, now, retired, cleared>>

\* The sessions once cursor u has replaced cursor t.
ReplaceKeepsOld(kept, t, u, session) == With(kept, u, session)
Replace(kept, t, u, session) == With(Without(kept, {t}), u, session)

\* next.  An invalid cursor, another pattern (given is the MATCH of the request,
\* as a set of at most one), or no random bytes: an error, and the session stays
\* as it was.
NextPage(c, count, given) ==
  LET s == scan[c]
      t == s.presented
      kept == Kept(s.at)
      retained == KeptBytes(s.at)
      gone == Expirable(s.at)
      error == [s EXCEPT !.pc = "idle", !.presented = 0, !.at = 0]
  IN /\ s.pc = "next"
     /\ IF t \notin DOMAIN kept \/ (t \in DOMAIN kept /\ given \ {kept[t].pattern} # {})
        THEN Ends(c, kept, retained, gone, error)
        ELSE LET session == kept[t]
                 end == ScanPageEnd(session.position, Len(session.keys), count)
                 page == [error EXCEPT !.used = s.at,
                            !.got = @ \o SubSeq(session.keys, session.position + 1, end)]
             IN IF end = Len(session.keys)
                THEN Ends(c, Without(kept, {t}), Minus(retained, session.bytes),
                          gone \cup {t}, [page EXCEPT !.cursor = 0])
                ELSE \/ Ends(c, kept, retained, gone, error)
                     \/ \E u \in NextToken(DOMAIN kept) :
                          Ends(c, Replace(kept, t, u, [session EXCEPT !.position = end,
                                                                      !.lastUsed = s.at]),
                               retained, gone \cup {t}, [page EXCEPT !.cursor = u])

Clear == /\ sessions' = <<>> /\ bytes' = 0
         /\ retired' = retired \cup DOMAIN sessions
         /\ cleared' = cleared \cup DOMAIN sessions
         /\ UNCHANGED <<now, scan>>

Tick == now < MaxTime /\ now' = now + 1 /\ UNCHANGED <<sessions, bytes, retired, cleared, scan>>

Next == \/ Clear \/ Tick
        \/ \E c \in Scanners :
             \/ \E live \in LiveSets : \E stored \in {live, Keys}, p \in Patterns :
                  Capture(c, live, stored, p)
             \/ \E t \in {scan[c].cursor} \cup retired : Present(c, t)
             \/ \E count \in Counts :
                  \/ Start(c, count)
                  \/ \E given \in {{}} \cup {{p} : p \in Patterns} : NextPage(c, count, given)

Spec == Init /\ [][Next]_vars

----------------------------------------------------------------------------
(***************************************************************************)
(* Properties.                                                             *)
(***************************************************************************)
\* What a session really retains, in numbers that do not wrap.
Cost(session) ==
  LET cost[i \in 0..Len(session.keys)] ==
        IF i = 0 THEN 0 ELSE cost[i - 1] + KeyLen[session.keys[i]] + StringBytes
  IN cost[Len(session.keys)]

\* The bounds of ADR 0008 hold at all times: the counter is the sum of what the
\* sessions account for, through expiry, replacement and completion; their
\* number and that sum stay within the limits, and no session costs more than it
\* accounts for, not even where the size of its keys overflows.
BudgetHolds ==
  /\ Cardinality(DOMAIN sessions) <= MaxSessions
  /\ bytes = SumBytes(sessions, DOMAIN sessions) /\ bytes <= MaxBytes
  /\ \A t \in DOMAIN sessions : Cost(sessions[t]) <= sessions[t].bytes

\* docs/protocol.md: "Follow every replacement cursor to 0 and every captured
\* matching name is returned exactly once", whatever other scanners do, whatever
\* requests fail or are repeated, and with any COUNT for each page.
EveryNameOnce ==
  \A c \in Scanners :
    /\ \E n \in 0..Len(scan[c].snap) : scan[c].got = SubSeq(scan[c].snap, 1, n)
    /\ scan[c].pc = "idle" /\ scan[c].cursor = 0 => scan[c].got = scan[c].snap

\* A scanner that was given a cursor can use it until SessionTTL has passed since
\* the page it came with (or the server shuts down): failed requests, other
\* scanners and sessions that expire never take it away.
CursorStaysValid ==
  \A c \in Scanners :
    LET t == scan[c].cursor
    IN t # 0 /\ now < scan[c].used + SessionTTL /\ t \notin cleared => t \in DOMAIN sessions

\* What the two above need to be inductive.  A cursor is valid or retired, never
\* both, and no two scanners hold the same.
CursorsInv ==
  /\ retired \cap DOMAIN sessions = {}
  /\ \A c, d \in Scanners : c # d /\ scan[c].cursor = scan[d].cursor => scan[c].cursor = 0

\* A scanner has received the beginning of its snapshot; the session of its
\* cursor is where it is itself; and without a session the cursor is too old or
\* was cleared.
TraversalInv(c) ==
  /\ \E n \in 0..Len(scan[c].snap) : scan[c].got = SubSeq(scan[c].snap, 1, n)
  /\ scan[c].pc # "start" /\ scan[c].cursor = 0 => scan[c].got = scan[c].snap
  /\ scan[c].cursor # 0 => scan[c].cursor \in DOMAIN sessions \cup retired
  /\ scan[c].cursor \in DOMAIN sessions =>
       LET session == sessions[scan[c].cursor]
       IN /\ session.keys = scan[c].snap /\ session.lastUsed = scan[c].used
          /\ session.position \in 0..Len(scan[c].snap)
          /\ scan[c].got = SubSeq(scan[c].snap, 1, session.position)
  /\ scan[c].cursor # 0 /\ now < scan[c].used + SessionTTL /\ scan[c].cursor \notin cleared =>
       scan[c].cursor \in DOMAIN sessions

\* A request was made by its scanner, with a clock reading of the past.
RequestInv(c) ==
  /\ scan[c].at <= now
  /\ scan[c].pc = "start" => scan[c].cursor = 0 /\ scan[c].got = <<>>
  /\ scan[c].pc = "next" => scan[c].presented \in {scan[c].cursor} \cup retired

ScanInv == CursorsInv /\ \A c \in Scanners : TraversalInv(c) /\ RequestInv(c)
=============================================================================
