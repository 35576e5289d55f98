------------------------------ MODULE Effects ------------------------------
(***************************************************************************)
(* The records of the append-only file (internal/aof) and what replay      *)
(* makes of them.  A record states an effect, never a command: a complete  *)
(* SET with an absolute deadline in milliseconds, or a DEL of the keys     *)
(* that were there.                                                        *)
(***************************************************************************)
EXTENDS Store, StoredInt, Sequences, FiniteSetsExt

CONSTANT TicksPerMs    \* resolution of the clock, per millisecond

ASSUME TicksPerMsAssumption == TicksPerMs \in Nat \ {0}

\* What a key that is there shows: a value and a deadline.
Entries == [value : Text, at : Int \cup {NoDeadline}]

ASSUME AbsentAssumption == Absent \notin Text \cup Entries

\* time.UnixMilli in both directions; towards the log it rounds down.
ToMilli(at) == IF at = NoDeadline THEN NoDeadline ELSE at \div TicksPerMs
FromMilli(ms) == IF ms = NoDeadline THEN NoDeadline ELSE ms * TicksPerMs

EffectRecords ==
  [kind : {"set"}, key : Keys, value : Text, at : Int \cup {NoDeadline}]
    \cup [kind : {"del"}, keys : SUBSET Keys]

DeriveSet(k, value, deadline) ==
  [kind |-> "set", key |-> k, value |-> value, at |-> ToMilli(deadline)]

DeriveDel(ks) == [kind |-> "del", keys |-> ks]

\* apply: an expired SET is not skipped, it removes the key.
ApplySkipsExpired(s, rec, now) ==
  IF rec.kind = "del" THEN StoreDelete(s, rec.keys)
  ELSE IF rec.at = NoDeadline \/ now < FromMilli(rec.at)
  THEN StoreSet(s, rec.key, rec.value, FromMilli(rec.at))
  ELSE s
Apply(s, rec, now) ==
  IF rec.kind = "del" THEN StoreDelete(s, rec.keys)
  ELSE IF rec.at = NoDeadline \/ now < FromMilli(rec.at)
  THEN StoreSet(s, rec.key, rec.value, FromMilli(rec.at))
  ELSE StoreDelete(s, {rec.key})

\* Replay of complete records into a new store, all at one instant.
Replay(recs, now) ==
  LET s[i \in 0..Len(recs)] ==
        IF i = 0 THEN EmptyStore ELSE Apply(s[i - 1], recs[i], now)
  IN s[Len(recs)]

\* What a store shows callers at instant t: per key, Absent or its value and
\* deadline.
AsMap(s, t) == [k \in Keys |->
  IF IsLive(s, k, t) THEN [value |-> s.data[k], at |-> s.expires[k]] ELSE Absent]

\* The same for the records of a log, without replaying them: the last record
\* about a key decides.
About(rec, k) == IF rec.kind = "del" THEN k \in rec.keys ELSE k = rec.key

Shows(rec, t) ==
  IF rec.kind = "del" \/ (rec.at # NoDeadline /\ FromMilli(rec.at) <= t) THEN Absent
  ELSE [value |-> rec.value, at |-> FromMilli(rec.at)]

LastWord(recs, t) == [k \in Keys |->
  LET is == {i \in DOMAIN recs : About(recs[i], k)}
  IN IF is = {} THEN Absent ELSE Shows(recs[Max(is)], t)]

\* A store with the deadlines of the log.
AsRecorded(s) ==
  [s EXCEPT !.expires = [k \in Keys |-> FromMilli(ToMilli(s.expires[k]))]]
=============================================================================
