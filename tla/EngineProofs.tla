---------------------------- MODULE EngineProofs ----------------------------
(***************************************************************************)
(* Proofs about the engine, for any keys, callers, values, deadlines and   *)
(* arguments, with and without the append-only file.  First what replay    *)
(* makes of records: it leaves what the last record about each key says,   *)
(* for any log, and a record that the engine derives says of the key what  *)
(* the store shows, up to the rounding of deadlines.  Then the engine: the *)
(* log and the store agree, and BeginDrain is final.  Then the refinement: *)
(* every operation, tick, crash and recovery of the engine is a step of    *)
(* the map with deadlines that KV describes.                               *)
(***************************************************************************)
EXTENDS Engine, Induction

----------------------------------------------------------------------------
(***************************************************************************)
(* Deadlines and stores.                                                   *)
(***************************************************************************)
Deadlines == Int \cup {NoDeadline}

\* The stores in which a key with a deadline has a value.
Stores == {s \in [data : [Keys -> Text \cup {Absent}], expires : [Keys -> Deadlines]] :
             \A k \in Keys : s.expires[k] # NoDeadline => s.data[k] # Absent}

\* A deadline as the log gives it back.
Recorded(at) == FromMilli(ToMilli(at))

\* Rounding never moves a deadline forward.
LEMMA RecordedProperties ==
  ASSUME NEW at \in Deadlines
  PROVE  /\ ToMilli(at) \in Deadlines /\ Recorded(at) \in Deadlines
         /\ ToMilli(at) = NoDeadline <=> at = NoDeadline
         /\ Recorded(at) = NoDeadline <=> at = NoDeadline
         /\ at # NoDeadline => Recorded(at) <= at
<1>1. CASE at = NoDeadline
  BY <1>1, MarksAssumption DEF Recorded, FromMilli, ToMilli, Deadlines
<1>2. CASE at # NoDeadline
  <2>1. at \in Int
    BY <1>2 DEF Deadlines
  <2>2. at \div TicksPerMs \in Int /\ (at \div TicksPerMs) * TicksPerMs <= at
    BY <2>1, TicksPerMsAssumption
  <2>3. (at \div TicksPerMs) * TicksPerMs \in Int
    BY <2>2, TicksPerMsAssumption
  <2> QED
    BY <1>2, <2>2, <2>3, MarksAssumption DEF Recorded, FromMilli, ToMilli, Deadlines
<1> QED
  BY <1>1, <1>2

\* A deadline that comes back from the log is not rounded again.
LEMMA RecordedOnce ==
  ASSUME NEW ms \in Deadlines
  PROVE  FromMilli(ms) \in Deadlines /\ Recorded(FromMilli(ms)) = FromMilli(ms)
<1>1. CASE ms = NoDeadline
  BY <1>1, MarksAssumption DEF Recorded, FromMilli, ToMilli, Deadlines
<1>2. CASE ms # NoDeadline
  <2>1. ms \in Int
    BY <1>2 DEF Deadlines
  <2>2. ms * TicksPerMs \in Int /\ (ms * TicksPerMs) \div TicksPerMs = ms
    BY <2>1, TicksPerMsAssumption
  <2> QED
    BY <1>2, <2>2, MarksAssumption DEF Recorded, FromMilli, ToMilli, Deadlines
<1> QED
  BY <1>1, <1>2

----------------------------------------------------------------------------
(***************************************************************************)
(* What the operations of the store do to one key.                         *)
(***************************************************************************)
\* The parts of a store, one key at a time.
LEMMA StoreParts ==
  ASSUME NEW s \in Stores
  PROVE  /\ s = [data |-> s.data, expires |-> s.expires]
         /\ s.data \in [Keys -> Text \cup {Absent}] /\ s.expires \in [Keys -> Deadlines]
         /\ \A k \in Keys : s.expires[k] # NoDeadline => s.data[k] # Absent
  BY DEF Stores

\* The operations of the store give stores: the empty one, ...
LEMMA EmptyStoreIsStore == EmptyStore \in Stores
  BY DEF EmptyStore, Stores, Deadlines

\* ... StoreSet, ...
LEMMA StoreSetProperties ==
  ASSUME NEW s \in Stores, NEW k \in Keys, NEW value \in Text, NEW deadline \in Deadlines
  PROVE  /\ StoreSet(s, k, value, deadline) \in Stores
         /\ \A j \in Keys :
              /\ StoreSet(s, k, value, deadline).data[j] = IF j = k THEN value ELSE s.data[j]
              /\ StoreSet(s, k, value, deadline).expires[j] =
                   IF j = k THEN deadline ELSE s.expires[j]
  BY Zenon, AbsentAssumption DEF StoreSet, Stores

\* ... and StoreDelete.
LEMMA StoreDeleteProperties ==
  ASSUME NEW s \in Stores, NEW ks
  PROVE  /\ StoreDelete(s, ks) \in Stores
         /\ \A j \in Keys :
              /\ StoreDelete(s, ks).data[j] = IF j \in ks THEN Absent ELSE s.data[j]
              /\ StoreDelete(s, ks).expires[j] = IF j \in ks THEN NoDeadline ELSE s.expires[j]
  BY Zenon DEF StoreDelete, Stores, Deadlines

\* A live key has a value, and StoreGet returns it.
LEMMA LiveKey ==
  ASSUME NEW s \in Stores, NEW k \in Keys, NEW t, IsLive(s, k, t)
  PROVE  /\ s.data[k] \in Text /\ s.data[k] # Absent /\ StoreGet(s, k, t) = s.data[k]
         /\ s.expires[k] \in Deadlines
         /\ ~Expired(s, k, t)
  BY StoreParts DEF IsLive, StoreGet

\* EXPIRE and PERSIST do to the store what a SET of the value held does.
LEMMA ExpireIsSet ==
  ASSUME NEW s \in Stores, NEW k \in Keys, NEW t, NEW at, IsLive(s, k, t)
  PROVE  /\ StoreExpire(s, k, at, t) = StoreSet(s, k, StoreGet(s, k, t), at)
         /\ StorePersist(s, k, t) = StoreSet(s, k, StoreGet(s, k, t), NoDeadline)
<1>1. StoreGet(s, k, t) = s.data[k]
  BY LiveKey
<1>2. s.data = [s.data EXCEPT ![k] = s.data[k]] /\ s = [data |-> s.data, expires |-> s.expires]
  BY StoreParts
<1> QED
  BY Zenon, <1>1, <1>2 DEF StoreExpire, StorePersist, StoreSet

----------------------------------------------------------------------------
(***************************************************************************)
(* What a store shows.                                                     *)
(***************************************************************************)
\* One key of AsMap: its value and deadline, until the deadline.
ShownAt(value, at, t) ==
  IF value = Absent \/ (at # NoDeadline /\ at <= t) THEN Absent
  ELSE [value |-> value, at |-> at]

\* AsMap, key by key.
LEMMA AsMapAt ==
  ASSUME NEW s \in Stores, NEW t
  PROVE  /\ AsMap(s, t) = [k \in Keys |-> ShownAt(s.data[k], s.expires[k], t)]
         /\ \A k \in Keys : IsLive(s, k, t) <=> ShownAt(s.data[k], s.expires[k], t) # Absent
<1>1. ASSUME NEW k \in Keys
      PROVE  /\ IsLive(s, k, t) => ShownAt(s.data[k], s.expires[k], t) =
                                     [value |-> s.data[k], at |-> s.expires[k]]
             /\ ~IsLive(s, k, t) => ShownAt(s.data[k], s.expires[k], t) = Absent
             /\ s.data[k] # Absent => [value |-> s.data[k], at |-> s.expires[k]] # Absent
  <2>1. s.data[k] \in Text \cup {Absent} /\ s.expires[k] \in Deadlines
    BY StoreParts
  <2>2. s.data[k] # Absent => [value |-> s.data[k], at |-> s.expires[k]] \in Entries
    BY <2>1 DEF Entries, Deadlines
  <2> QED
    BY <2>2, AbsentAssumption DEF IsLive, StoreGet, Expired, ShownAt
<1>2. ASSUME NEW k \in Keys
      PROVE  IsLive(s, k, t) => s.data[k] # Absent
  BY LiveKey
<1> QED
  BY Zenon, <1>1, <1>2 DEF AsMap

\* The store with the deadlines of the log shows each key until its rounded deadline.
LEMMA AsRecordedAt ==
  ASSUME NEW s \in Stores, NEW t
  PROVE  AsMap(AsRecorded(s), t) = [k \in Keys |-> ShownAt(s.data[k], Recorded(s.expires[k]), t)]
<1> DEFINE r == AsRecorded(s)
<1>1. /\ r.data = s.data /\ r.expires = [k \in Keys |-> Recorded(s.expires[k])]
      /\ r = [data |-> s.data, expires |-> [k \in Keys |-> Recorded(s.expires[k])]]
  BY StoreParts DEF AsRecorded, Recorded
<1>2. r \in Stores
  <2>1. \A k \in Keys : s.expires[k] \in Deadlines
    BY StoreParts
  <2>2. \A k \in Keys : /\ Recorded(s.expires[k]) \in Deadlines
                        /\ Recorded(s.expires[k]) = NoDeadline <=> s.expires[k] = NoDeadline
    BY <2>1, RecordedProperties
  <2> QED
    BY <1>1, <2>2, StoreParts DEF Stores
<1> QED
  BY <1>1, <1>2, AsMapAt

----------------------------------------------------------------------------
(***************************************************************************)
(* What the records of a log show.                                         *)
(***************************************************************************)
\* The two kinds of record.
LEMMA RecordKinds ==
  ASSUME NEW rec \in EffectRecords
  PROVE  \/ rec.kind = "del" /\ rec.keys \subseteq Keys
         \/ /\ rec.kind = "set" /\ rec.key \in Keys /\ rec.value \in Text
            /\ rec.at \in Deadlines
  BY DEF EffectRecords, Deadlines

\* The records that the engine derives, what they are about and what they show.
LEMMA DerivedRecords ==
  /\ \A k \in Keys, value \in Text, deadline \in Deadlines :
       /\ DeriveSet(k, value, deadline) \in EffectRecords
       /\ \A j \in Keys : About(DeriveSet(k, value, deadline), j) <=> j = k
       /\ \A t : Shows(DeriveSet(k, value, deadline), t) =
                   ShownAt(value, Recorded(deadline), t)
  /\ \A ks \in SUBSET Keys :
       /\ DeriveDel(ks) \in EffectRecords
       /\ \A j \in Keys : About(DeriveDel(ks), j) <=> j \in ks
       /\ \A t : Shows(DeriveDel(ks), t) = Absent
<1>1. ASSUME NEW k \in Keys, NEW value \in Text, NEW deadline \in Deadlines
      PROVE  /\ DeriveSet(k, value, deadline) \in EffectRecords
             /\ \A j \in Keys : About(DeriveSet(k, value, deadline), j) <=> j = k
             /\ \A t : Shows(DeriveSet(k, value, deadline), t) =
                         ShownAt(value, Recorded(deadline), t)
  <2>1. /\ ToMilli(deadline) \in Deadlines
        /\ ToMilli(deadline) = NoDeadline <=> Recorded(deadline) = NoDeadline
        /\ value # Absent
    BY RecordedProperties, AbsentAssumption
  <2> QED
    BY <2>1 DEF DeriveSet, EffectRecords, About, Shows, ShownAt, Recorded, Deadlines
<1>2. ASSUME NEW ks \in SUBSET Keys
      PROVE  /\ DeriveDel(ks) \in EffectRecords
             /\ \A j \in Keys : About(DeriveDel(ks), j) <=> j \in ks
             /\ \A t : Shows(DeriveDel(ks), t) = Absent
  BY DEF DeriveDel, EffectRecords, About, Shows
<1> QED
  BY Zenon, <1>1, <1>2

\* A bounded set of positions has a greatest element.
LEMMA MaxOfPrefix ==
  ASSUME NEW n \in Nat, NEW S \in SUBSET (1..n), S # {}
  PROVE  Max(S) \in S /\ \A i \in S : i <= Max(S)
<1> DEFINE B == {m \in Nat : \A i \in S : i <= m}
<1>1. B # {} /\ B \subseteq Nat
  OBVIOUS
<1>2. PICK m \in B : \A j \in B : ~(<<j, m>> \in OpToRel(<, Nat))
  BY Zenon, <1>1, WFMin, NatLessThanWellFounded
<1>3. m \in Nat /\ (\A i \in S : i <= m) /\ \A j \in B : ~(j < m)
  BY Zenon, <1>1, <1>2 DEF OpToRel
<1>4. m \in S
  <2>1. SUFFICES ASSUME m \notin S PROVE FALSE
    OBVIOUS
  <2>2. m # 0
    <3>1. PICK i \in S : TRUE
      BY Zenon
    <3> QED
      BY <1>3, <3>1
  <2>3. m - 1 \in B /\ m - 1 < m
    BY <1>3, <2>1, <2>2
  <2> QED
    BY <1>3, <2>3
<1> QED
  BY Zenon, <1>3, <1>4 DEF Max

\* The last record has the last word on the keys it is about.
LEMMA LastWordAppend ==
  ASSUME NEW recs \in Seq(EffectRecords), NEW rec, NEW t, NEW k \in Keys
  PROVE  LastWord(Append(recs, rec), t)[k] =
           IF About(rec, k) THEN Shows(rec, t) ELSE LastWord(recs, t)[k]
<1> DEFINE n == Len(recs)
           more == Append(recs, rec)
           old == {i \in DOMAIN recs : About(recs[i], k)}
           new == {i \in DOMAIN more : About(more[i], k)}
<1>1. /\ n \in Nat /\ DOMAIN recs = 1..n /\ DOMAIN more = 1..(n + 1)
      /\ more[n + 1] = rec /\ \A i \in 1..n : more[i] = recs[i]
  OBVIOUS
<1>2. CASE About(rec, k)
  <2>1. n + 1 \in new /\ \A i \in new : i <= n + 1 /\ i \in Int
    BY <1>1, <1>2
  <2>2. Max(new) = n + 1
    <3> HIDE DEF new, n
    <3> QED
      BY <1>1, <2>1 DEF Max
  <2>3. new # {} /\ more[Max(new)] = rec
    BY Zenon, <1>1, <2>1, <2>2
  <2> QED
    BY Zenon, <1>2, <2>3 DEF LastWord
<1>3. CASE ~About(rec, k)
  <2>1. new = old /\ \A i \in old : more[i] = recs[i]
    BY <1>1, <1>3
  <2>2. old # {} => Max(old) \in old
    <3>1. old \subseteq 1..n
      BY <1>1
    <3> HIDE DEF old
    <3> QED
      BY Zenon, <1>1, <3>1, MaxOfPrefix
  <2>3. LastWord(more, t)[k] = LastWord(recs, t)[k]
    <3> HIDE DEF old, new, more
    <3>1. /\ LastWord(more, t)[k] = IF new = {} THEN Absent ELSE Shows(more[Max(new)], t)
          /\ LastWord(recs, t)[k] = IF old = {} THEN Absent ELSE Shows(recs[Max(old)], t)
      BY DEF LastWord, old, new
    <3> QED
      BY <2>1, <2>2, <3>1
  <2> QED
    BY <1>3, <2>3
<1> QED
  BY <1>2, <1>3

\* Nothing is said in an empty log.
LEMMA LastWordEmpty ==
  ASSUME NEW t
  PROVE  LastWord(<<>>, t) = [k \in Keys |-> Absent]
  BY DEF LastWord

\* A prefix is the next shorter one and a record.
LEMMA PrefixGrows ==
  ASSUME NEW R, NEW recs \in Seq(R), NEW i \in 1..Len(recs)
  PROVE  /\ SubSeq(recs, 1, i - 1) \in Seq(R) /\ recs[i] \in R
         /\ SubSeq(recs, 1, i) = Append(SubSeq(recs, 1, i - 1), recs[i])
<1>1. Len(recs) \in Nat /\ i \in Int /\ 1 <= i /\ i <= Len(recs) /\ recs[i] \in R
  OBVIOUS
<1> DEFINE p == SubSeq(recs, 1, i - 1)
           q == SubSeq(recs, 1, i)
<1>2. p \in Seq(R) /\ Len(p) = i - 1 /\ \A j \in 1..(i - 1) : p[j] = recs[j]
  BY <1>1
<1>3. q \in Seq(R) /\ Len(q) = i /\ \A j \in 1..i : q[j] = recs[j]
  BY <1>1
<1> HIDE DEF p, q
<1>4. /\ Append(p, recs[i]) \in Seq(R) /\ Len(Append(p, recs[i])) = i
      /\ \A j \in 1..i : Append(p, recs[i])[j] = recs[j]
  BY <1>1, <1>2
<1>5. q = Append(p, recs[i])
  BY <1>1, <1>3, <1>4
<1> QED
  BY <1>1, <1>2, <1>5 DEF p, q

----------------------------------------------------------------------------
(***************************************************************************)
(* Replay.                                                                 *)
(***************************************************************************)
\* The stores replay works on: their deadlines come from the log.
RecordedStores == {s \in Stores : \A k \in Keys : Recorded(s.expires[k]) = s.expires[k]}

\* Applying a record makes the store show what the record says, from that
\* instant on, and changes nothing else.
LEMMA ApplyProperties ==
  ASSUME NEW s \in RecordedStores, NEW rec \in EffectRecords, NEW at \in Int
  PROVE  /\ Apply(s, rec, at) \in RecordedStores
         /\ \A t \in Int : t >= at => \A k \in Keys :
              AsMap(Apply(s, rec, at), t)[k] =
                IF About(rec, k) THEN Shows(rec, t) ELSE AsMap(s, t)[k]
<1>1. s \in Stores /\ \A k \in Keys : Recorded(s.expires[k]) = s.expires[k]
  BY DEF RecordedStores
<1>2. Recorded(NoDeadline) = NoDeadline
  BY DEF Recorded, FromMilli, ToMilli
<1>3. ASSUME NEW ks, Apply(s, rec, at) = StoreDelete(s, ks),
             \A k \in Keys : About(rec, k) <=> k \in ks,
             \A t \in Int : t >= at => Shows(rec, t) = Absent
      PROVE  /\ Apply(s, rec, at) \in RecordedStores
             /\ \A t \in Int : t >= at => \A k \in Keys :
                  AsMap(Apply(s, rec, at), t)[k] =
                    IF About(rec, k) THEN Shows(rec, t) ELSE AsMap(s, t)[k]
  <2> DEFINE d == StoreDelete(s, ks)
  <2>1. /\ d \in Stores
        /\ \A j \in Keys : /\ d.data[j] = IF j \in ks THEN Absent ELSE s.data[j]
                           /\ d.expires[j] = IF j \in ks THEN NoDeadline ELSE s.expires[j]
    BY <1>1, StoreDeleteProperties
  <2> HIDE DEF d
  <2>2. d \in RecordedStores
    BY <1>1, <1>2, <2>1 DEF RecordedStores
  <2>3. ASSUME NEW t \in Int, t >= at, NEW k \in Keys
        PROVE  AsMap(d, t)[k] = IF About(rec, k) THEN Shows(rec, t) ELSE AsMap(s, t)[k]
    <3>1. /\ AsMap(d, t)[k] = ShownAt(d.data[k], d.expires[k], t)
          /\ AsMap(s, t)[k] = ShownAt(s.data[k], s.expires[k], t)
      BY <1>1, <2>1, AsMapAt
    <3>2. Shows(rec, t) = Absent
      BY <1>3, <2>3
    <3> QED
      BY <1>3, <2>1, <3>1, <3>2 DEF ShownAt
  <2> QED
    BY <1>3, <2>2, <2>3 DEF d
<1>4. CASE rec.kind = "del"
  <2>1. Apply(s, rec, at) = StoreDelete(s, rec.keys)
    BY <1>4 DEF Apply
  <2>2. (\A k \in Keys : About(rec, k) <=> k \in rec.keys) /\ \A t : Shows(rec, t) = Absent
    BY <1>4 DEF About, Shows
  <2> QED
    BY <1>3, <2>1, <2>2
<1>5. CASE rec.kind # "del"
  <2> DEFINE deadline == FromMilli(rec.at)
  <2>1. /\ rec.key \in Keys /\ rec.value \in Text /\ rec.at \in Deadlines
        /\ \A k \in Keys : About(rec, k) <=> k = rec.key
    BY <1>5, RecordKinds DEF About
  <2>2. /\ deadline \in Deadlines /\ Recorded(deadline) = deadline
        /\ deadline = NoDeadline <=> rec.at = NoDeadline
    <3>1. deadline \in Deadlines /\ Recorded(deadline) = deadline
      BY <2>1, RecordedOnce
    <3>2. rec.at # NoDeadline => deadline \in Int
      BY <2>1, TicksPerMsAssumption DEF FromMilli, Deadlines
    <3>3. rec.at = NoDeadline => deadline = NoDeadline
      BY DEF FromMilli
    <3> QED
      BY <3>1, <3>2, <3>3, MarksAssumption
  <2>3. \A t : Shows(rec, t) = ShownAt(rec.value, deadline, t)
    BY <1>5, <2>1, <2>2, AbsentAssumption DEF Shows, ShownAt
  <2> HIDE DEF deadline
  <2>4. CASE rec.at = NoDeadline \/ at < deadline
    <3> DEFINE d == StoreSet(s, rec.key, rec.value, deadline)
    <3>1. Apply(s, rec, at) = d
      BY <1>5, <2>4 DEF Apply, deadline
    <3>2. /\ d \in Stores
          /\ \A j \in Keys : /\ d.data[j] = IF j = rec.key THEN rec.value ELSE s.data[j]
                             /\ d.expires[j] = IF j = rec.key THEN deadline ELSE s.expires[j]
      BY <1>1, <2>1, <2>2, StoreSetProperties
    <3> HIDE DEF d
    <3>3. d \in RecordedStores
      BY <1>1, <2>2, <3>2 DEF RecordedStores
    <3>4. ASSUME NEW t \in Int, NEW k \in Keys
          PROVE  AsMap(d, t)[k] = IF About(rec, k) THEN Shows(rec, t) ELSE AsMap(s, t)[k]
      <4>1. /\ AsMap(d, t)[k] = ShownAt(d.data[k], d.expires[k], t)
            /\ AsMap(s, t)[k] = ShownAt(s.data[k], s.expires[k], t)
        BY <1>1, <3>2, AsMapAt
      <4> QED
        BY <2>1, <2>3, <3>2, <4>1
    <3> QED
      BY <3>1, <3>3, <3>4
  <2>5. CASE rec.at # NoDeadline /\ ~(at < deadline)
    <3>1. Apply(s, rec, at) = StoreDelete(s, {rec.key})
      BY <1>5, <2>5 DEF Apply, deadline
    <3>2. \A t \in Int : t >= at => Shows(rec, t) = Absent
      BY <2>2, <2>3, <2>5 DEF ShownAt, Deadlines
    <3>3. \A k \in Keys : About(rec, k) <=> k \in {rec.key}
      BY <2>1
    <3> QED
      BY <1>3, <3>1, <3>2, <3>3
  <2> QED
    BY <2>4, <2>5
<1> QED
  BY <1>4, <1>5

\* Replay is the iteration of Apply over the records, and the stores it goes
\* through are well formed.
LEMMA ReplayIterates ==
  ASSUME NEW recs \in Seq(EffectRecords), NEW at \in Int
  PROVE  \E f \in [0..Len(recs) -> RecordedStores] :
           /\ f[0] = EmptyStore
           /\ \A i \in 1..Len(recs) : f[i] = Apply(f[i - 1], recs[i], at)
           /\ Replay(recs, at) = f[Len(recs)]
<1> DEFINE n == Len(recs)
           step == [p \in RecordedStores \X (1..n) |-> Apply(p[1], recs[p[2]], at)]
           Unfold(f) == [i \in 0..n |->
                           IF i = 0 THEN EmptyStore ELSE Apply(f[i - 1], recs[i], at)]
           r == CHOOSE f : f = Unfold(f)
<1>1. n \in Nat /\ \A i \in 1..n : recs[i] \in EffectRecords
  OBVIOUS
<1>2. EmptyStore \in RecordedStores
  BY EmptyStoreIsStore DEF RecordedStores, EmptyStore, Recorded, ToMilli, FromMilli
<1>3. Replay(recs, at) = r[n]
  BY Zenon DEF Replay
<1> HIDE DEF n
<1>4. r = Unfold(r)
  <2>1. step \in Steps(RecordedStores, n)
    <3>1. \A s \in RecordedStores, i \in 1..n : Apply(s, recs[i], at) \in RecordedStores
      BY <1>1, ApplyProperties
    <3> QED
      BY <3>1 DEF Steps
  <2>2. \A s \in RecordedStores, i \in 1..n : step[<<s, i>>] = Apply(s, recs[i], at)
    OBVIOUS
  <2> HIDE DEF step
  <2>3. PICK f : Iterates(f, RecordedStores, EmptyStore, step, n)
    BY Zenon, <1>1, <1>2, <2>1, IterationExists
  <2>4. /\ f \in [0..n -> RecordedStores] /\ f[0] = EmptyStore
        /\ \A i \in 1..n : f[i] = step[<<f[i - 1], i>>]
    BY Zenon, <2>3 DEF Iterates
  <2>5. \A i \in 1..n : f[i] = Apply(f[i - 1], recs[i], at)
    <3>1. \A i \in 1..n : f[i - 1] \in RecordedStores
      BY <1>1, <2>4
    <3> QED
      BY Zenon, <2>2, <2>4, <3>1
  <2>6. f = Unfold(f)
    BY <1>1, <2>4, <2>5
  <2> HIDE DEF Unfold
  <2> QED
    BY Zenon, <2>6
<1> HIDE DEF r
<1>5. r[0] = EmptyStore /\ \A i \in 1..n : r[i] = Apply(r[i - 1], recs[i], at)
  BY <1>1, <1>4
<1>6. \A i \in 0..n : r[i] \in RecordedStores
  <2> DEFINE A == {i \in 0..n : r[i] \in RecordedStores}
  <2>1. 0 \in A
    BY <1>1, <1>2, <1>5
  <2>2. ASSUME NEW i \in 1..n, i - 1 \in A
        PROVE  i \in A
    <3>1. r[i - 1] \in RecordedStores /\ i \in 0..n
      BY <1>1, <2>2
    <3>2. r[i] \in RecordedStores
      BY Zenon, <1>1, <1>5, <3>1, ApplyProperties
    <3> QED
      BY <3>1, <3>2
  <2>3. 0..n \subseteq A
    <3> HIDE DEF A
    <3> QED
      BY Zenon, <1>1, <2>1, <2>2, UptoInductionSet
  <2> QED
    BY <2>3
<1>7. r \in [0..n -> RecordedStores]
  BY <1>4, <1>6
<1> QED
  BY Zenon, <1>3, <1>5, <1>7 DEF n

\* Recovery agrees with the log: from the instant of replay on, the store that
\* comes out of it shows, of every key, what the last record about it says.
THEOREM ReplayIsLastWord ==
  ASSUME NEW recs \in Seq(EffectRecords), NEW at \in Int
  PROVE  /\ Replay(recs, at) \in RecordedStores
         /\ \A t \in Int : t >= at => AsMap(Replay(recs, at), t) = LastWord(recs, t)
<1>1. PICK f \in [0..Len(recs) -> RecordedStores] :
           /\ f[0] = EmptyStore
           /\ \A i \in 1..Len(recs) : f[i] = Apply(f[i - 1], recs[i], at)
           /\ Replay(recs, at) = f[Len(recs)]
  BY Zenon, ReplayIterates
<1> DEFINE n == Len(recs)
<1>2. n \in Nat
  OBVIOUS
<1>3. ASSUME NEW t \in Int, t >= at
      PROVE  AsMap(Replay(recs, at), t) = LastWord(recs, t)
  <2> DEFINE A == {i \in 0..n : AsMap(f[i], t) = LastWord(SubSeq(recs, 1, i), t)}
  <2>1. 0 \in A
    <3>1. SubSeq(recs, 1, 0) = <<>>
      OBVIOUS
    <3>2. AsMap(EmptyStore, t) = [k \in Keys |-> Absent]
      BY EmptyStoreIsStore, AsMapAt DEF EmptyStore, ShownAt
    <3> QED
      BY <1>1, <1>2, <3>1, <3>2, LastWordEmpty
  <2>2. ASSUME NEW i \in 1..n, i - 1 \in A
        PROVE  i \in A
    <3>1. /\ f[i - 1] \in RecordedStores /\ f[i] = Apply(f[i - 1], recs[i], at)
          /\ AsMap(f[i - 1], t) = LastWord(SubSeq(recs, 1, i - 1), t)
      BY <1>1, <1>2, <2>2
    <3>2. /\ SubSeq(recs, 1, i - 1) \in Seq(EffectRecords) /\ recs[i] \in EffectRecords
          /\ SubSeq(recs, 1, i) = Append(SubSeq(recs, 1, i - 1), recs[i])
      BY PrefixGrows
    <3>3. ASSUME NEW k \in Keys
          PROVE  AsMap(f[i], t)[k] = LastWord(SubSeq(recs, 1, i), t)[k]
      <4>1. AsMap(f[i], t)[k] =
              IF About(recs[i], k) THEN Shows(recs[i], t) ELSE AsMap(f[i - 1], t)[k]
        <5>1. AsMap(Apply(f[i - 1], recs[i], at), t)[k] =
                IF About(recs[i], k) THEN Shows(recs[i], t) ELSE AsMap(f[i - 1], t)[k]
          BY Zenon, <1>3, <3>1, <3>2, ApplyProperties
        <5> QED
          BY Zenon, <3>1, <5>1
      <4>2. LastWord(SubSeq(recs, 1, i), t)[k] =
              IF About(recs[i], k) THEN Shows(recs[i], t)
                                   ELSE LastWord(SubSeq(recs, 1, i - 1), t)[k]
        BY <3>2, LastWordAppend
      <4> QED
        BY <3>1, <4>1, <4>2
    <3>4. AsMap(f[i], t) = LastWord(SubSeq(recs, 1, i), t)
      BY Zenon, <3>3 DEF AsMap, LastWord
    <3> QED
      BY <1>2, <3>4
  <2>3. n \in A
    <3>1. 0..n \subseteq A
      <4> HIDE DEF A, n
      <4> QED
        BY Zenon, <1>2, <2>1, <2>2, UptoInductionSet
    <3> QED
      BY <1>2, <3>1
  <2>4. SubSeq(recs, 1, n) = recs
    OBVIOUS
  <2> QED
    BY Zenon, <1>1, <2>3, <2>4
<1> QED
  BY <1>1, <1>2, <1>3

----------------------------------------------------------------------------
(***************************************************************************)
(* Memory and log stay in step.                                            *)
(***************************************************************************)
\* From instant n on, the log h says of every key what the store s shows, up to
\* the rounding of deadlines.
Matches(h, s, n) ==
  \A t \in Int : t >= n => LastWord(h, t) = AsMap(AsRecorded(s), t)

\* The same, for one key at one instant.
LEMMA MatchesAt ==
  ASSUME NEW h, NEW s \in Stores, NEW n
  PROVE  Matches(h, s, n) <=>
           \A t \in Int : t >= n => \A k \in Keys :
             LastWord(h, t)[k] = ShownAt(s.data[k], Recorded(s.expires[k]), t)
<1>1. ASSUME NEW t
      PROVE  LastWord(h, t) = AsMap(AsRecorded(s), t) <=>
               \A k \in Keys : LastWord(h, t)[k] =
                                 ShownAt(s.data[k], Recorded(s.expires[k]), t)
  <2>1. AsMap(AsRecorded(s), t) = [k \in Keys |-> ShownAt(s.data[k], Recorded(s.expires[k]), t)]
    BY AsRecordedAt
  <2>2. PICK f : LastWord(h, t) = [k \in Keys |-> f[k]]
    <3> DEFINE f == [k \in Keys |-> LET is == {i \in DOMAIN h : About(h[i], k)}
                                    IN IF is = {} THEN Absent ELSE Shows(h[Max(is)], t)]
    <3>1. LastWord(h, t) = f
      BY Zenon DEF LastWord
    <3>2. f = [k \in Keys |-> f[k]]
      BY Zenon
    <3> QED
      BY Zenon, <3>1, <3>2
  <2> QED
    BY Zenon, <2>1, <2>2
<1> QED
  BY Zenon, <1>1 DEF Matches

\* A key that is not live shows nothing from then on, whatever the rounding.
LEMMA DeadStaysDead ==
  ASSUME NEW s \in Stores, NEW k \in Keys, NEW n \in Int, ~IsLive(s, k, n),
         NEW t \in Int, t >= n
  PROVE  ShownAt(s.data[k], Recorded(s.expires[k]), t) = Absent
<1>1. CASE s.data[k] = Absent
  BY <1>1 DEF ShownAt
<1>2. CASE s.data[k] # Absent
  <2>1. s.expires[k] # NoDeadline /\ s.expires[k] <= n
    BY <1>2 DEF IsLive, StoreGet, Expired
  <2>2. s.expires[k] \in Deadlines
    BY StoreParts
  <2>3. /\ Recorded(s.expires[k]) # NoDeadline /\ Recorded(s.expires[k]) \in Deadlines
        /\ Recorded(s.expires[k]) <= s.expires[k]
    BY <2>1, <2>2, RecordedProperties
  <2> QED
    BY <2>1, <2>2, <2>3 DEF ShownAt, Deadlines
<1> QED
  BY <1>1, <1>2

\* commitSet keeps memory and log in step.
LEMMA MatchesSet ==
  ASSUME NEW h \in Seq(EffectRecords), NEW s \in Stores, NEW n \in Int, Matches(h, s, n),
         NEW k \in Keys, NEW value \in Text, NEW deadline \in Deadlines
  PROVE  Matches(Append(h, DeriveSet(k, value, deadline)),
                 StoreSet(s, k, value, deadline), n)
<1> DEFINE d == StoreSet(s, k, value, deadline)
           rec == DeriveSet(k, value, deadline)
<1>1. /\ d \in Stores
      /\ \A j \in Keys : /\ d.data[j] = IF j = k THEN value ELSE s.data[j]
                         /\ d.expires[j] = IF j = k THEN deadline ELSE s.expires[j]
  BY StoreSetProperties
<1>2. /\ \A j \in Keys : About(rec, j) <=> j = k
      /\ \A t : Shows(rec, t) = ShownAt(value, Recorded(deadline), t)
  BY DerivedRecords
<1> HIDE DEF d, rec
<1>3. ASSUME NEW t \in Int, t >= n, NEW j \in Keys
      PROVE  LastWord(Append(h, rec), t)[j] = ShownAt(d.data[j], Recorded(d.expires[j]), t)
  <2>1. LastWord(Append(h, rec), t)[j] = IF About(rec, j) THEN Shows(rec, t)
                                                          ELSE LastWord(h, t)[j]
    BY Zenon, LastWordAppend
  <2>2. LastWord(h, t)[j] = ShownAt(s.data[j], Recorded(s.expires[j]), t)
    BY Zenon, <1>3, MatchesAt
  <2> QED
    BY <1>1, <1>2, <2>1, <2>2
<1>4. Matches(Append(h, rec), d, n)
  BY Zenon, <1>1, <1>3, MatchesAt
<1> QED
  BY <1>4 DEF d, rec

\* commitDel records the live keys among those it deletes, which is enough.
LEMMA MatchesDel ==
  ASSUME NEW h \in Seq(EffectRecords), NEW s \in Stores, NEW n \in Int, Matches(h, s, n),
         NEW ks, NEW live \in SUBSET Keys, \A j \in Keys : j \in live => j \in ks,
         \A j \in Keys : j \in ks /\ IsLive(s, j, n) => j \in live
  PROVE  Matches(Append(h, DeriveDel(live)), StoreDelete(s, ks), n)
<1> DEFINE d == StoreDelete(s, ks)
           rec == DeriveDel(live)
<1>1. /\ d \in Stores
      /\ \A j \in Keys : /\ d.data[j] = IF j \in ks THEN Absent ELSE s.data[j]
                         /\ d.expires[j] = IF j \in ks THEN NoDeadline ELSE s.expires[j]
  BY StoreDeleteProperties
<1>2. /\ \A j \in Keys : About(rec, j) <=> j \in live
      /\ \A t : Shows(rec, t) = Absent
  BY Zenon, DerivedRecords
<1> HIDE DEF d, rec
<1>3. ASSUME NEW t \in Int, t >= n, NEW j \in Keys
      PROVE  LastWord(Append(h, rec), t)[j] = ShownAt(d.data[j], Recorded(d.expires[j]), t)
  <2>1. LastWord(Append(h, rec), t)[j] = IF About(rec, j) THEN Shows(rec, t)
                                                          ELSE LastWord(h, t)[j]
    BY Zenon, LastWordAppend
  <2>2. LastWord(h, t)[j] = ShownAt(s.data[j], Recorded(s.expires[j]), t)
    BY Zenon, <1>3, MatchesAt
  <2>3. CASE j \in ks
    <3>1. ShownAt(d.data[j], Recorded(d.expires[j]), t) = Absent
      BY <1>1, <2>3 DEF ShownAt
    <3>2. j \notin live => LastWord(h, t)[j] = Absent
      BY <1>3, <2>2, <2>3, DeadStaysDead
    <3> QED
      BY <1>2, <2>1, <3>1, <3>2
  <2>4. CASE j \notin ks
    BY <1>1, <1>2, <2>1, <2>2, <2>4
  <2> QED
    BY <2>3, <2>4
<1>4. Matches(Append(h, rec), d, n)
  BY Zenon, <1>1, <1>3, MatchesAt
<1> QED
  BY <1>4 DEF d, rec

\* A delete that is not recorded, of keys none of which is live, disturbs nothing.
LEMMA MatchesReclaim ==
  ASSUME NEW h, NEW s \in Stores, NEW n \in Int, Matches(h, s, n),
         NEW ks, \A j \in Keys : j \in ks => ~IsLive(s, j, n)
  PROVE  Matches(h, StoreDelete(s, ks), n)
<1> DEFINE d == StoreDelete(s, ks)
<1>1. /\ d \in Stores
      /\ \A j \in Keys : /\ d.data[j] = IF j \in ks THEN Absent ELSE s.data[j]
                         /\ d.expires[j] = IF j \in ks THEN NoDeadline ELSE s.expires[j]
  BY StoreDeleteProperties
<1> HIDE DEF d
<1>2. ASSUME NEW t \in Int, t >= n, NEW j \in Keys
      PROVE  LastWord(h, t)[j] = ShownAt(d.data[j], Recorded(d.expires[j]), t)
  <2>1. LastWord(h, t)[j] = ShownAt(s.data[j], Recorded(s.expires[j]), t)
    BY Zenon, <1>2, MatchesAt
  <2>2. CASE j \in ks
    <3>1. ShownAt(d.data[j], Recorded(d.expires[j]), t) = Absent
      BY <1>1, <2>2 DEF ShownAt
    <3> QED
      BY <1>2, <2>1, <2>2, <3>1, DeadStaysDead
  <2>3. CASE j \notin ks
    BY <1>1, <2>1, <2>3
  <2> QED
    BY <2>2, <2>3
<1>3. Matches(h, d, n)
  BY Zenon, <1>1, <1>2, MatchesAt
<1> QED
  BY <1>3 DEF d

\* Recovery starts memory and log in step.
LEMMA MatchesReplay ==
  ASSUME NEW h \in Seq(EffectRecords), NEW n \in Int
  PROVE  Replay(h, n) \in Stores /\ Matches(h, Replay(h, n), n)
<1> DEFINE s == Replay(h, n)
<1>1. s \in RecordedStores /\ \A t \in Int : t >= n => AsMap(s, t) = LastWord(h, t)
  BY Zenon, ReplayIsLastWord
<1>2. s \in Stores /\ \A k \in Keys : Recorded(s.expires[k]) = s.expires[k]
  BY <1>1 DEF RecordedStores
<1> HIDE DEF s
<1>3. ASSUME NEW t \in Int, t >= n, NEW k \in Keys
      PROVE  LastWord(h, t)[k] = ShownAt(s.data[k], Recorded(s.expires[k]), t)
  <2>1. AsMap(s, t)[k] = ShownAt(s.data[k], s.expires[k], t)
    BY <1>2, AsMapAt
  <2> QED
    BY <1>1, <1>2, <1>3, <2>1
<1>4. Matches(h, s, n)
  BY Zenon, <1>2, <1>3, MatchesAt
<1> QED
  BY <1>2, <1>4 DEF s

\* Deleting live keys and expired ones looks like deleting the live ones.
LEMMA DeleteIsRemoval ==
  ASSUME NEW s \in Stores, NEW n \in Int, NEW ks, NEW live,
         \A k \in Keys : k \in live <=> k \in ks /\ IsLive(s, k, n)
  PROVE  AsMap(StoreDelete(s, ks), n) =
           [k \in Keys |-> IF k \in live THEN Absent ELSE AsMap(s, n)[k]]
<1> DEFINE d == StoreDelete(s, ks)
<1>1. /\ d \in Stores
      /\ \A j \in Keys : /\ d.data[j] = IF j \in ks THEN Absent ELSE s.data[j]
                         /\ d.expires[j] = IF j \in ks THEN NoDeadline ELSE s.expires[j]
  BY StoreDeleteProperties
<1> HIDE DEF d
<1>2. ASSUME NEW k \in Keys
      PROVE  AsMap(d, n)[k] = IF k \in live THEN Absent ELSE AsMap(s, n)[k]
  <2>1. /\ AsMap(d, n)[k] = ShownAt(d.data[k], d.expires[k], n)
        /\ AsMap(s, n)[k] = ShownAt(s.data[k], s.expires[k], n)
        /\ IsLive(s, k, n) <=> ShownAt(s.data[k], s.expires[k], n) # Absent
    BY <1>1, AsMapAt
  <2>2. CASE k \in ks
    <3>1. ShownAt(d.data[k], d.expires[k], n) = Absent
      BY <1>1, <2>2 DEF ShownAt
    <3> QED
      BY Zenon, <2>1, <2>2, <3>1
  <2>3. CASE k \notin ks
    BY <1>1, <2>1, <2>3
  <2> QED
    BY <2>2, <2>3
<1>3. AsMap(d, n) = [k \in Keys |-> IF k \in live THEN Absent ELSE AsMap(s, n)[k]]
  BY Zenon, <1>2 DEF AsMap
<1> QED
  BY <1>3 DEF d

----------------------------------------------------------------------------
(***************************************************************************)
(* The inductive invariant.                                                *)
(***************************************************************************)
EngineInv ==
  /\ up \in BOOLEAN /\ accepting \in BOOLEAN /\ now \in Nat
  /\ store \in Stores /\ hist \in Seq(EffectRecords)
  /\ ~accepting => up
  /\ ~AppendOnly => hist = <<>>
  /\ AppendOnly /\ up => Matches(hist, store, now)

\* The engine starts empty, with an empty log.
LEMMA EngineInitially == EngineInit => EngineInv
<1>1. SUFFICES ASSUME EngineInit PROVE EngineInv
  OBVIOUS
<1>2. up = FALSE /\ accepting = TRUE /\ now = 0 /\ store = EmptyStore /\ hist = <<>>
  BY <1>1 DEF EngineInit, LogInit
<1>3. <<>> \in Seq(EffectRecords) /\ 0 \in Nat
  OBVIOUS
<1> QED
  BY Zenon, <1>2, <1>3, EmptyStoreIsStore DEF EngineInv

\* readNow's shortcut is invisible: with no deadline anywhere, no instant matters.
LEMMA ReadNowIsNow ==
  ASSUME EngineInv, NEW k \in Keys
  PROVE  /\ StoreGet(store, k, ReadNow) = StoreGet(store, k, now)
         /\ IsLive(store, k, ReadNow) <=> IsLive(store, k, now)
         /\ StoreTTL(store, k, ReadNow) = StoreTTL(store, k, now)
<1>1. CASE HasExpirations(store)
  BY <1>1 DEF ReadNow
<1>2. CASE ~HasExpirations(store)
  <2>1. store.expires[k] = NoDeadline
    BY <1>2 DEF HasExpirations, Indexed
  <2> QED
    BY <2>1 DEF StoreGet, IsLive, StoreTTL, Expired
<1> QED
  BY <1>1, <1>2

\* A mutation keeps the invariant when its record says what it does to the store.
LEMMA CommitKeepsInv ==
  ASSUME EngineInv, NEW c, NEW rec \in EffectRecords, NEW s \in Stores, NEW reply,
         Commit(c, rec, s, reply),
         Matches(hist, store, now) => Matches(Append(hist, rec), s, now)
  PROVE  EngineInv'
<1>1. CASE ~AppendOnly
  BY <1>1 DEF Commit, EngineInv, logVars
<1>2. CASE AppendOnly /\ status # "open"
  BY <1>2 DEF Commit, Answer, Reply, EngineInv, logVars
<1>3. CASE AppendOnly /\ status = "open"
  <2>1. /\ up /\ up' = up /\ hist' = Append(hist, rec) /\ store' = s
        /\ now' = now /\ accepting' = accepting
    BY <1>3 DEF Commit, Accept, Idle
  <2>2. hist' \in Seq(EffectRecords)
    BY <2>1 DEF EngineInv
  <2>3. Matches(hist', store', now')
    BY <1>3, <2>1 DEF EngineInv
  <2> QED
    BY <1>3, <2>1, <2>2, <2>3 DEF EngineInv
<1> QED
  BY <1>1, <1>2, <1>3

\* A step that leaves alone what the invariant is about.
LEMMA EngineInvFrame ==
  ASSUME EngineInv, UNCHANGED <<up, accepting, now, store, hist>>
  PROVE  EngineInv'
  BY DEF EngineInv

\* Each mutation keeps the invariant: what a SET stores, ...
LEMMA SetStoresKeepInv ==
  ASSUME EngineInv, NEW c, NEW k \in Keys, NEW value \in Text, NEW deadline \in Deadlines,
         NEW reply,
         Commit(c, DeriveSet(k, value, deadline), StoreSet(store, k, value, deadline), reply)
  PROVE  EngineInv'
<1>1. /\ DeriveSet(k, value, deadline) \in EffectRecords
      /\ StoreSet(store, k, value, deadline) \in Stores
  BY StoreSetProperties, DerivedRecords DEF EngineInv
<1>2. Matches(hist, store, now) =>
        Matches(Append(hist, DeriveSet(k, value, deadline)),
                StoreSet(store, k, value, deadline), now)
  BY MatchesSet DEF EngineInv
<1> QED
  BY Zenon, <1>1, <1>2, CommitKeepsInv

\* ... an answer that changes nothing, ...
LEMMA AnswerKeepsInv ==
  ASSUME EngineInv, NEW c, NEW reply, Answer(c, reply)
  PROVE  EngineInv'
  BY EngineInvFrame DEF Answer, Reply, logVars

\* ... Set, ...
LEMMA SetKeepsInv ==
  ASSUME EngineInv, NEW c, NEW k \in Keys, NEW value \in Values,
         NEW d \in TTLs \cup {NoDeadline}, Set(c, k, value, d)
  PROVE  EngineInv'
<1> DEFINE deadline == IF d = NoDeadline THEN NoDeadline ELSE now + d
<1>1. value \in Text /\ deadline \in Deadlines
  BY ArgumentsAssumption, TTLsAssumption DEF Deadlines, EngineInv
<1>2. Commit(c, DeriveSet(k, value, deadline), StoreSet(store, k, value, deadline),
             <<"set", k>>)
  BY DEF Set
<1> HIDE DEF deadline
<1> QED
  BY Zenon, <1>1, <1>2, SetStoresKeepInv

\* ... Expire, ...
LEMMA ExpireKeepsInv ==
  ASSUME EngineInv, NEW c, NEW k \in Keys, NEW d \in TTLs, Expire(c, k, d)
  PROVE  EngineInv'
<1>1. CASE IsLive(store, k, now)
  <2>1. /\ StoreGet(store, k, now) \in Text /\ now + d \in Deadlines
        /\ StoreExpire(store, k, now + d, now) =
             StoreSet(store, k, StoreGet(store, k, now), now + d)
    BY <1>1, LiveKey, ExpireIsSet, TTLsAssumption DEF Deadlines, EngineInv
  <2>2. Commit(c, DeriveSet(k, StoreGet(store, k, now), now + d),
               StoreSet(store, k, StoreGet(store, k, now), now + d), <<"expire", k, 1>>)
    BY Zenon, <1>1, <2>1 DEF Expire
  <2> QED
    BY Zenon, <2>1, <2>2, SetStoresKeepInv
<1>2. CASE ~IsLive(store, k, now)
  BY Zenon, <1>2, AnswerKeepsInv DEF Expire
<1> QED
  BY <1>1, <1>2

\* ... Persist, ...
LEMMA PersistKeepsInv ==
  ASSUME EngineInv, NEW c, NEW k \in Keys, Persist(c, k)
  PROVE  EngineInv'
<1>1. CASE IsLive(store, k, now) /\ StoreTTL(store, k, now) # NoDeadline
  <2>1. /\ StoreGet(store, k, now) \in Text /\ NoDeadline \in Deadlines
        /\ StorePersist(store, k, now) =
             StoreSet(store, k, StoreGet(store, k, now), NoDeadline)
    BY <1>1, LiveKey, ExpireIsSet DEF Deadlines, EngineInv
  <2>2. Commit(c, DeriveSet(k, StoreGet(store, k, now), NoDeadline),
               StoreSet(store, k, StoreGet(store, k, now), NoDeadline), <<"persist", k, 1>>)
    BY Zenon, <1>1, <2>1 DEF Persist
  <2> QED
    BY Zenon, <2>1, <2>2, SetStoresKeepInv
<1>2. CASE ~(IsLive(store, k, now) /\ StoreTTL(store, k, now) # NoDeadline)
  BY Zenon, <1>2, AnswerKeepsInv DEF Persist
<1> QED
  BY <1>1, <1>2

\* What INCRBY may read: an integer, so that what it writes is one too.
LEMMA ParsedInt ==
  ASSUME NEW t, NEW n \in ParseStoredInt(t)
  PROVE  n \in MinInt..MaxInt
  BY DEF ParseStoredInt

\* ... IncrBy, ...
LEMMA IncrByKeepsInv ==
  ASSUME EngineInv, NEW c, NEW k \in Keys, NEW delta \in Deltas, IncrBy(c, k, delta)
  PROVE  EngineInv'
<1> DEFINE live == IsLive(store, k, ReadNow)
           nums == IF live THEN ParseStoredInt(store.data[k]) ELSE {0}
           deadline == IF live THEN store.expires[k] ELSE NoDeadline
<1>1. deadline \in Deadlines
  <2>1. store.expires[k] \in Deadlines
    BY StoreParts DEF EngineInv
  <2> QED
    BY <2>1 DEF Deadlines
<1>2. \A n \in nums : FormatInt(n + delta) \in Text
  <2>1. \A n \in nums : n \in Int
    BY ParsedInt, IntAssumption
  <2> HIDE DEF nums
  <2> QED
    BY <2>1, ArgumentsAssumption DEF FormatInt, Text
<1>3. \/ \E reply : Answer(c, reply)
      \/ \E n \in nums : \E reply :
           Commit(c, DeriveSet(k, FormatInt(n + delta), deadline),
                  StoreSet(store, k, FormatInt(n + delta), deadline), reply)
  BY Zenon DEF IncrBy
<1> HIDE DEF live, nums, deadline
<1>4. ASSUME NEW reply, Answer(c, reply) PROVE EngineInv'
  BY Zenon, <1>4, AnswerKeepsInv
<1>5. ASSUME NEW n \in nums, NEW reply,
             Commit(c, DeriveSet(k, FormatInt(n + delta), deadline),
                    StoreSet(store, k, FormatInt(n + delta), deadline), reply)
      PROVE  EngineInv'
  BY Zenon, <1>1, <1>2, <1>5, SetStoresKeepInv
<1> QED
  BY Zenon, <1>3, <1>4, <1>5

\* The keys a DEL records: those of its arguments that are live.
LEMMA DeleteKeepsInv ==
  ASSUME EngineInv, NEW c, NEW ks \in KeyLists, Delete(c, ks)
  PROVE  EngineInv'
<1> DEFINE live == {k \in Range(ks) : IsLive(store, k, ReadNow)}
           deleted == StoreDelete(store, Range(ks))
<1>1. Range(ks) \subseteq Keys
  BY ArgumentsAssumption DEF Range
<1>2. \A k \in Keys : k \in live <=> k \in Range(ks) /\ IsLive(store, k, now)
  BY ReadNowIsNow
<1>3. deleted \in Stores
  BY StoreDeleteProperties DEF EngineInv
<1>4. CASE live = {}
  <2>1. store' = deleted /\ UNCHANGED <<up, hist, now, accepting>>
    BY <1>4 DEF Delete, logVars
  <2>2. Matches(hist, store, now) => Matches(hist, deleted, now)
    <3>1. \A j \in Keys : j \in Range(ks) => ~IsLive(store, j, now)
      BY <1>2, <1>4
    <3> QED
      BY <3>1, MatchesReclaim DEF EngineInv
  <2> HIDE DEF deleted
  <2> QED
    BY <1>3, <2>1, <2>2 DEF EngineInv
<1>5. CASE live # {}
  <2>1. \E reply : Commit(c, DeriveDel(live), deleted, reply)
    BY Zenon, <1>5 DEF Delete
  <2>2. live \in SUBSET Keys
    BY <1>1
  <2> HIDE DEF live
  <2>3. DeriveDel(live) \in EffectRecords
    BY <2>2, DerivedRecords
  <2>4. Matches(hist, store, now) => Matches(Append(hist, DeriveDel(live)), deleted, now)
    <3>1. hist \in Seq(EffectRecords) /\ store \in Stores /\ now \in Int
      BY DEF EngineInv
    <3> QED
      BY Zenon, <1>2, <2>2, <3>1, MatchesDel
  <2> HIDE DEF deleted
  <2> QED
    BY Zenon, <1>3, <2>1, <2>3, <2>4, CommitKeepsInv
<1> QED
  BY <1>4, <1>5

\* ... hence every mutation, ...
LEMMA MutationKeepsInv ==
  ASSUME EngineInv, NEW c, Mutation(c)
  PROVE  EngineInv'
<1>1. CASE RefuseDraining(c)
  BY Zenon, <1>1, AnswerKeepsInv DEF RefuseDraining
<1>2. CASE \E k \in Keys, v \in Values, d \in TTLs \cup {NoDeadline} : Set(c, k, v, d)
  BY Zenon, <1>2, SetKeepsInv
<1>3. CASE \E k \in Keys, d \in TTLs : Expire(c, k, d)
  BY Zenon, <1>3, ExpireKeepsInv
<1>4. CASE \E k \in Keys : Persist(c, k)
  BY Zenon, <1>4, PersistKeepsInv
<1>5. CASE \E k \in Keys, delta \in Deltas : IncrBy(c, k, delta)
  BY Zenon, <1>5, IncrByKeepsInv
<1>6. CASE \E ks \in KeyLists : Delete(c, ks)
  BY Zenon, <1>6, DeleteKeepsInv
<1> QED
  BY Zenon, <1>1, <1>2, <1>3, <1>4, <1>5, <1>6 DEF Mutation

\* A sweep removes only keys that no caller can see any more.
LEMMA SweepKeepsInv ==
  ASSUME EngineInv, NEW examined, Sweep(examined)
  PROVE  EngineInv'
<1> DEFINE ks == {k \in examined : Expired(store, k, now)}
<1>1. store' = StoreDelete(store, ks) /\ UNCHANGED <<up, hist, now, accepting>>
  BY DEF Sweep, WorkerStep, ReclaimExpired, logVars
<1>2. \A j \in Keys : j \in ks => ~IsLive(store, j, now)
  BY DEF IsLive, StoreGet
<1> HIDE DEF ks
<1>3. StoreDelete(store, ks) \in Stores
  BY StoreDeleteProperties DEF EngineInv
<1>4. Matches(hist, store, now) => Matches(hist, StoreDelete(store, ks), now)
  BY <1>2, MatchesReclaim DEF EngineInv
<1> QED
  BY <1>1, <1>3, <1>4 DEF EngineInv

\* ... and every step of the engine, the crash and the recovery included.
LEMMA EngineStepKeepsInv ==
  ASSUME EngineInv, [EngineNext]_allVars
  PROVE  EngineInv'
<1>1. CASE UNCHANGED allVars
  BY <1>1, EngineInvFrame DEF allVars, logVars
<1>2. CASE Delivered
  BY <1>2, EngineInvFrame DEF Delivered, logVars
<1>3. ASSUME NEW c \in Callers, Mutation(c) PROVE EngineInv'
  BY Zenon, <1>3, MutationKeepsInv
<1>4. ASSUME NEW c \in Callers, Return(c) PROVE EngineInv'
  BY <1>4, EngineInvFrame DEF Return, Confirm, logVars
<1>5. CASE Read
  BY Zenon, <1>5, EngineInvFrame
     DEF Read, Get, TTL, MGet, Exists, KeysCommand, DBSize, Reply, logVars
<1>6. CASE StartExpiration \/ StopExpiration \/ WorkerExits
  BY <1>6, EngineInvFrame DEF StartExpiration, StopExpiration, WorkerExits, WorkerStep, logVars
<1>7. CASE ReclaimOnce
  BY Zenon, <1>7, SweepKeepsInv DEF ReclaimOnce
<1>8. CASE BeginDrain
  BY Zenon, <1>8 DEF BeginDrain, EngineInv, logVars
<1>9. CASE Finalize
  BY <1>9, EngineInvFrame DEF Finalize, BeginClose, EndClose, Becomes, logVars
<1>10. CASE LogFails
  BY <1>10, EngineInvFrame DEF LogFails, Fails, Becomes, logVars
<1>11. CASE Tick
  <2>1. now' = now + 1 /\ UNCHANGED <<up, hist, store, accepting>>
    BY <1>11 DEF Tick, logVars
  <2>2. Matches(hist, store, now) => Matches(hist, store, now + 1)
    BY DEF EngineInv, Matches
  <2> QED
    BY <2>1, <2>2 DEF EngineInv
<1>12. CASE OpenLog
  <2>1. up' = TRUE /\ store' = Replay(hist, now) /\ UNCHANGED <<hist, now, accepting>>
    BY <1>12 DEF OpenLog, Open
  <2>2. Replay(hist, now) \in Stores /\ Matches(hist, Replay(hist, now), now)
    BY MatchesReplay DEF EngineInv
  <2> QED
    BY <2>1, <2>2 DEF EngineInv
<1>13. CASE ProcessEnds
  <2>1. /\ up' = FALSE /\ store' = EmptyStore /\ accepting' = TRUE /\ now' = now
        /\ \E n \in 0..Len(hist) : hist' = SubSeq(hist, 1, n)
    BY <1>13 DEF ProcessEnds, Crash
  <2>2. hist' \in Seq(EffectRecords) /\ (hist = <<>> => hist' = <<>>)
    BY <2>1 DEF EngineInv
  <2> QED
    BY Zenon, <2>1, <2>2, EmptyStoreIsStore DEF EngineInv
<1> QED
  BY <1>1, <1>2, <1>3, <1>4, <1>5, <1>6, <1>7, <1>8, <1>9, <1>10, <1>11, <1>12, <1>13
     DEF EngineNext, EngineStep

\* The engine keeps the invariant: while it runs, replaying its log would give
\* the store it answers from, for any callers, arguments and crashes.
THEOREM EngineInvariance == EngineSpec => []EngineInv
  BY EngineInitially, EngineStepKeepsInv, PTL DEF EngineSpec

\* keys(expires) is a subset of keys(data), whatever is set, deleted, swept or
\* recovered.
THEOREM IndexedHaveData == EngineSpec => []IndexedKeysHaveData
<1>1. EngineInv => IndexedKeysHaveData
  BY DEF EngineInv, IndexedKeysHaveData, Stores, Indexed, Deadlines
<1> QED
  BY <1>1, EngineInvariance, PTL

\* Memory and log never diverge.
THEOREM LogMatches == EngineSpec => []LogMatchesMemory
<1>1. EngineInv => LogMatchesMemory
  BY EngineBoundsAssumption DEF EngineInv, LogMatchesMemory, Matches
<1> QED
  BY <1>1, EngineInvariance, PTL

\* Once BeginDrain has returned, nothing is recorded and callers see no change
\* but expiry, until the process ends.
THEOREM DrainHolds == EngineSpec => DrainIsFinal
<1>1. ASSUME EngineInv, [EngineNext]_allVars, ~accepting, ~accepting'
      PROVE  /\ hist' = hist
             /\ \A k \in Keys : StoreGet(store', k, now') \in {StoreGet(store, k, now), Absent}
  <2>1. up /\ store \in Stores /\ now \in Nat
    BY <1>1 DEF EngineInv
  <2>2. CASE UNCHANGED <<hist, store, now>>
    BY <2>2
  <2>3. CASE Tick
    <3>1. hist' = hist /\ store' = store /\ now' = now + 1
      BY <2>3 DEF Tick, logVars
    <3>2. ASSUME NEW k \in Keys
          PROVE  StoreGet(store, k, now + 1) \in {StoreGet(store, k, now), Absent}
      <4>1. store.expires[k] \in Deadlines
        BY <2>1, StoreParts
      <4> QED
        BY <2>1, <4>1 DEF StoreGet, Expired, Deadlines
    <3> QED
      BY <3>1, <3>2
  <2>4. ASSUME NEW examined, Sweep(examined)
        PROVE  /\ hist' = hist
               /\ \A k \in Keys :
                    StoreGet(store', k, now') \in {StoreGet(store, k, now), Absent}
    <3> DEFINE ks == {k \in examined : Expired(store, k, now)}
    <3>1. hist' = hist /\ now' = now /\ store' = StoreDelete(store, ks)
      BY <2>4 DEF Sweep, WorkerStep, ReclaimExpired, logVars
    <3> HIDE DEF ks
    <3>2. ASSUME NEW k \in Keys
          PROVE  StoreGet(StoreDelete(store, ks), k, now) \in {StoreGet(store, k, now), Absent}
      BY <2>1, StoreDeleteProperties DEF StoreGet, Expired
    <3> QED
      BY <3>1, <3>2
  <2>5. ASSUME NEW c \in Callers, Mutation(c) PROVE UNCHANGED <<hist, store, now>>
    <3>1. RefuseDraining(c)
      BY Zenon, <1>1, <2>5 DEF Mutation, Set, Expire, Persist, IncrBy, Delete
    <3> QED
      BY <3>1 DEF RefuseDraining, Answer, Reply, logVars
  <2>6. ASSUME NEW c \in Callers, Return(c) PROVE UNCHANGED <<hist, store, now>>
    BY <2>6 DEF Return, Confirm, logVars
  <2>7. CASE Read
    BY Zenon, <2>2, <2>7
       DEF Read, Get, TTL, MGet, Exists, KeysCommand, DBSize, Reply, logVars
  <2>8. CASE StartExpiration \/ StopExpiration \/ WorkerExits
    BY <2>2, <2>8 DEF StartExpiration, StopExpiration, WorkerExits, WorkerStep, logVars
  <2>9. CASE Finalize \/ LogFails
    BY <2>2, <2>9 DEF Finalize, LogFails, Fails, BeginClose, EndClose, Becomes
  <2>10. CASE BeginDrain \/ OpenLog \/ ProcessEnds
    BY Zenon, <1>1, <2>1, <2>10 DEF BeginDrain, OpenLog, Open, ProcessEnds
  <2>11. CASE Delivered \/ UNCHANGED allVars
    BY <2>2, <2>11 DEF Delivered, allVars, logVars
  <2> QED
    BY Zenon, <1>1, <2>2, <2>3, <2>4, <2>5, <2>6, <2>7, <2>8, <2>9, <2>10, <2>11
       DEF EngineNext, EngineStep, ReclaimOnce
<1> QED
  BY <1>1, EngineInvariance, PTL DEF EngineSpec, DrainIsFinal

----------------------------------------------------------------------------
(***************************************************************************)
(* The engine implements KV.                                               *)
(***************************************************************************)
\* The mapping: what a restart would bring back, for each position of the log.
Recoverable(h, t) == [i \in 1..Len(h) |-> LastWord(SubSeq(h, 1, i), t)]

\* A map that shows, of a key, a value with its deadline.
Showing(m, k, value, at, n) ==
  /\ k \in Keys /\ value \in Text \cup {Absent} /\ at \in Deadlines
  /\ m[k] = ShownAt(value, at, n)

\* A key of the abstract map, as of a later instant.
LEMMA AsOfShown ==
  ASSUME NEW n \in Int, NEW t \in Int, n <= t,
         NEW m, NEW k, NEW value, NEW at, Showing(m, k, value, at, n)
  PROVE  Promise!AsOf(m, t)[k] = ShownAt(value, at, t)
<1>0. k \in Keys /\ value \in Text \cup {Absent} /\ at \in Deadlines /\ m[k] = ShownAt(value, at, n)
  BY Zenon DEF Showing
<1>1. CASE ShownAt(value, at, n) = Absent
  BY <1>0, <1>1, AbsentAssumption DEF Promise!AsOf, ShownAt, Deadlines, Entries
<1>2. CASE ShownAt(value, at, n) # Absent
  BY <1>0, <1>2 DEF Promise!AsOf, ShownAt, Deadlines
<1> QED
  BY <1>1, <1>2

\* Expiry in memory is expiry in the abstract map.
LEMMA AsMapLater ==
  ASSUME NEW s \in Stores, NEW n \in Int, NEW t \in Int, n <= t
  PROVE  AsMap(s, t) = Promise!AsOf(AsMap(s, n), t)
<1>1. ASSUME NEW k \in Keys
      PROVE  AsMap(s, t)[k] = Promise!AsOf(AsMap(s, n), t)[k]
  <2>1. s.data[k] \in Text \cup {Absent} /\ s.expires[k] \in Deadlines
    BY StoreParts
  <2>2. /\ AsMap(s, n)[k] = ShownAt(s.data[k], s.expires[k], n)
        /\ AsMap(s, t)[k] = ShownAt(s.data[k], s.expires[k], t)
    BY AsMapAt
  <2>3. Showing(AsMap(s, n), k, s.data[k], s.expires[k], n)
    BY Zenon, <2>1, <2>2 DEF Showing
  <2> QED
    BY <2>2, <2>3, AsOfShown
<1> QED
  BY Zenon, <1>1 DEF AsMap, Promise!AsOf

\* So is that of what the log says.
LEMMA LastWordLater ==
  ASSUME NEW h \in Seq(EffectRecords), NEW n \in Int, NEW t \in Int, n <= t
  PROVE  LastWord(h, t) = Promise!AsOf(LastWord(h, n), t)
<1>1. ASSUME NEW k \in Keys
      PROVE  LastWord(h, t)[k] = Promise!AsOf(LastWord(h, n), t)[k]
  <2> DEFINE is == {i \in DOMAIN h : About(h[i], k)}
  <2>1. \A u : LastWord(h, u)[k] = IF is = {} THEN Absent ELSE Shows(h[Max(is)], u)
    BY Zenon DEF LastWord
  <2>2. is \subseteq 1..Len(h) /\ Len(h) \in Nat
    OBVIOUS
  <2> HIDE DEF is
  <2>3. PICK value \in Text \cup {Absent}, at \in Deadlines :
           \A u : LastWord(h, u)[k] = ShownAt(value, at, u)
    <3>1. CASE is = {}
      <4>1. Absent \in Text \cup {Absent} /\ NoDeadline \in Deadlines
        BY DEF Deadlines
      <4>2. \A u : LastWord(h, u)[k] = ShownAt(Absent, NoDeadline, u)
        BY <2>1, <3>1 DEF ShownAt
      <4> QED
        BY Zenon, <4>1, <4>2
    <3>2. CASE is # {}
      <4> DEFINE rec == h[Max(is)]
      <4>1. rec \in EffectRecords
        <5>1. Max(is) \in 1..Len(h)
          BY Zenon, <2>2, <3>2, MaxOfPrefix
        <5> QED
          BY <5>1
      <4>2. \A u : LastWord(h, u)[k] = Shows(rec, u)
        BY Zenon, <2>1, <3>2
      <4> HIDE DEF rec
      <4>3. CASE rec.kind = "del"
        <5>1. Absent \in Text \cup {Absent} /\ NoDeadline \in Deadlines
          BY DEF Deadlines
        <5>2. \A u : LastWord(h, u)[k] = ShownAt(Absent, NoDeadline, u)
          BY <4>2, <4>3 DEF ShownAt, Shows
        <5> QED
          BY Zenon, <5>1, <5>2
      <4>4. CASE rec.kind # "del"
        <5>1. rec.value \in Text \cup {Absent} /\ rec.value # Absent /\ rec.at \in Deadlines
          BY <4>1, <4>4, RecordKinds, AbsentAssumption
        <5>2. FromMilli(rec.at) \in Deadlines
          BY <5>1, RecordedOnce
        <5>3. FromMilli(rec.at) = NoDeadline <=> rec.at = NoDeadline
          <6>1. rec.at # NoDeadline => FromMilli(rec.at) \in Int
            BY <5>1, TicksPerMsAssumption DEF FromMilli, Deadlines
          <6>2. rec.at = NoDeadline => FromMilli(rec.at) = NoDeadline
            BY DEF FromMilli
          <6> QED
            BY <6>1, <6>2, MarksAssumption
        <5>4. \A u : LastWord(h, u)[k] = ShownAt(rec.value, FromMilli(rec.at), u)
          BY <4>2, <4>4, <5>1, <5>3 DEF ShownAt, Shows
        <5> QED
          BY Zenon, <5>1, <5>2, <5>4
      <4> QED
        BY <4>3, <4>4
    <3> QED
      BY <3>1, <3>2
  <2>4. LastWord(h, n)[k] = ShownAt(value, at, n) /\ LastWord(h, t)[k] = ShownAt(value, at, t)
    BY Zenon, <2>3
  <2>5. Showing(LastWord(h, n), k, value, at, n)
    BY Zenon, <2>3, <2>4 DEF Showing
  <2>6. Promise!AsOf(LastWord(h, n), t)[k] = ShownAt(value, at, t)
    BY <2>5, AsOfShown
  <2> QED
    BY Zenon, <2>4, <2>6
<1> QED
  BY Zenon, <1>1 DEF LastWord, Promise!AsOf

\* A SET in memory is a Put in the abstract map.
LEMMA SetIsPut ==
  ASSUME NEW s \in Stores, NEW n \in Int,
         NEW k \in Keys, NEW value \in Text, NEW deadline \in Deadlines
  PROVE  AsMap(StoreSet(s, k, value, deadline), n) =
           Promise!AsOf([AsMap(s, n) EXCEPT ![k] = [value |-> value, at |-> deadline]], n)
<1> DEFINE d == StoreSet(s, k, value, deadline)
           m == [AsMap(s, n) EXCEPT ![k] = [value |-> value, at |-> deadline]]
<1>1. /\ d \in Stores
      /\ \A j \in Keys : /\ d.data[j] = IF j = k THEN value ELSE s.data[j]
                         /\ d.expires[j] = IF j = k THEN deadline ELSE s.expires[j]
  BY StoreSetProperties
<1>2. \A j \in Keys : m[j] = IF j = k THEN [value |-> value, at |-> deadline]
                                      ELSE AsMap(s, n)[j]
  BY DEF AsMap
<1> HIDE DEF d, m
<1>3. ASSUME NEW j \in Keys
      PROVE  AsMap(d, n)[j] = Promise!AsOf(m, n)[j]
  <2>1. AsMap(d, n)[j] = ShownAt(d.data[j], d.expires[j], n)
    BY <1>1, AsMapAt
  <2>2. CASE j = k
    <3>1. m[j] \in Entries /\ m[j].at = deadline /\ m[j].value = value /\ value # Absent
      BY <1>2, <2>2, AbsentAssumption DEF Entries, Deadlines
    <3>2. m[j] # Absent /\ m[j] = [value |-> value, at |-> deadline]
      BY <1>2, <2>2, <3>1, AbsentAssumption
    <3> QED
      BY <1>1, <2>1, <2>2, <3>1, <3>2 DEF Promise!AsOf, ShownAt
  <2>3. CASE j # k
    <3>1. d.data[j] = s.data[j] /\ d.expires[j] = s.expires[j] /\ m[j] = AsMap(s, n)[j]
      BY <1>1, <1>2, <2>3
    <3>2. m[j] = ShownAt(s.data[j], s.expires[j], n)
      BY <3>1, AsMapAt
    <3>3. s.data[j] \in Text \cup {Absent} /\ s.expires[j] \in Deadlines /\ n <= n
      BY StoreParts
    <3>4. Showing(m, j, s.data[j], s.expires[j], n)
      BY Zenon, <3>2, <3>3 DEF Showing
    <3>5. Promise!AsOf(m, n)[j] = ShownAt(s.data[j], s.expires[j], n)
      BY <3>3, <3>4, AsOfShown
    <3> QED
      BY <2>1, <3>1, <3>5
  <2> QED
    BY <2>2, <2>3
<1>4. AsMap(d, n) = Promise!AsOf(m, n)
  BY Zenon, <1>3 DEF AsMap, Promise!AsOf
<1> QED
  BY <1>4 DEF d, m

\* KV's rounding of a map, key by key.
LEMMA RoundedAt ==
  ASSUME NEW m, NEW k \in Keys, m[k] # Absent => m[k].at \in Deadlines
  PROVE  Promise!Rounded(m)[k] = IF m[k] = Absent THEN Absent
                                 ELSE [m[k] EXCEPT !.at = Recorded(m[k].at)]
<1>1. \A at \in Deadlines : Promise!InMillis(at) = Recorded(at)
  BY MarksAssumption, TicksPerMsAssumption
     DEF Promise!InMillis, FromMilli, ToMilli, Recorded, Deadlines
<1> QED
  BY <1>1 DEF Promise!Rounded

\* What the log would bring back after a mutation is the abstract map with its
\* deadlines rounded.
LEMMA RecordedIsRounded ==
  ASSUME NEW s \in Stores, NEW n \in Int
  PROVE  AsMap(AsRecorded(s), n) = Promise!AsOf(Promise!Rounded(AsMap(s, n)), n)
<1> DEFINE m == Promise!Rounded(AsMap(s, n))
<1>1. ASSUME NEW k \in Keys
      PROVE  AsMap(AsRecorded(s), n)[k] = Promise!AsOf(m, n)[k]
  <2>1. /\ s.data[k] \in Text \cup {Absent} /\ s.expires[k] \in Deadlines
        /\ Recorded(s.expires[k]) \in Deadlines
        /\ s.expires[k] # NoDeadline =>
             Recorded(s.expires[k]) # NoDeadline /\ Recorded(s.expires[k]) <= s.expires[k]
        /\ Recorded(NoDeadline) = NoDeadline
    <3>1. s.data[k] \in Text \cup {Absent} /\ s.expires[k] \in Deadlines
      BY StoreParts
    <3>2. Recorded(NoDeadline) = NoDeadline
      BY DEF Recorded, FromMilli, ToMilli
    <3> QED
      BY <3>1, <3>2, RecordedProperties
  <2>2. AsMap(AsRecorded(s), n)[k] = ShownAt(s.data[k], Recorded(s.expires[k]), n)
    BY AsRecordedAt
  <2>3. AsMap(s, n)[k] = ShownAt(s.data[k], s.expires[k], n)
    BY AsMapAt
  <2>4. m[k] = IF AsMap(s, n)[k] = Absent THEN Absent
               ELSE [AsMap(s, n)[k] EXCEPT !.at = Recorded(AsMap(s, n)[k].at)]
    <3>1. AsMap(s, n)[k] # Absent => AsMap(s, n)[k].at \in Deadlines
      BY <2>1, <2>3 DEF ShownAt
    <3> QED
      BY Zenon, <3>1, RoundedAt
  <2> HIDE DEF m
  <2>5. CASE AsMap(s, n)[k] = Absent
    <3>1. m[k] = Absent
      BY <2>4, <2>5
    <3>2. Promise!AsOf(m, n)[k] = Absent
      BY <3>1 DEF Promise!AsOf
    <3>3. ~IsLive(s, k, n) /\ n <= n
      BY <2>3, <2>5, AsMapAt
    <3>4. ShownAt(s.data[k], Recorded(s.expires[k]), n) = Absent
      BY <3>3, DeadStaysDead
    <3> QED
      BY <2>2, <3>2, <3>4
  <2>6. CASE AsMap(s, n)[k] # Absent
    <3>1. /\ AsMap(s, n)[k] = [value |-> s.data[k], at |-> s.expires[k]]
          /\ s.data[k] # Absent
      BY <2>3, <2>6 DEF ShownAt
    <3>2. m[k] = [value |-> s.data[k], at |-> Recorded(s.expires[k])]
      BY <2>4, <2>6, <3>1
    <3>3. m[k] # Absent
      BY <2>1, <3>1, <3>2, AbsentAssumption DEF Entries, Deadlines
    <3>4. Promise!AsOf(m, n)[k] = ShownAt(s.data[k], Recorded(s.expires[k]), n)
      BY <3>1, <3>2, <3>3 DEF Promise!AsOf, ShownAt
    <3> QED
      BY <2>2, <3>4
  <2> QED
    BY <2>5, <2>6
<1>2. AsMap(AsRecorded(s), n) = Promise!AsOf(m, n)
  <2> HIDE DEF m
  <2> QED
    BY Zenon, <1>1 DEF AsMap, Promise!AsOf
<1> QED
  BY <1>2

\* Sequences that agree up to the last element.
LEMMA IsAppend ==
  ASSUME NEW S, NEW old \in Seq(S), NEW x \in S, NEW new \in Seq(S),
         Len(new) = Len(old) + 1, \A i \in 1..Len(old) : new[i] = old[i],
         new[Len(old) + 1] = x
  PROVE  new = Append(old, x)
  OBVIOUS

\* What replay can leave, one map for each prefix of the log.
LEMMA RecoverableIsSeq ==
  ASSUME NEW h \in Seq(EffectRecords), NEW t, NEW S,
         \A i \in 1..Len(h) : LastWord(SubSeq(h, 1, i), t) \in S
  PROVE  /\ Recoverable(h, t) \in Seq(S) /\ Len(Recoverable(h, t)) = Len(h)
         /\ \A i \in 1..Len(h) : Recoverable(h, t)[i] = LastWord(SubSeq(h, 1, i), t)
<1>1. Len(h) \in Nat
  OBVIOUS
<1> DEFINE f == Recoverable(h, t)
<1>2. f \in [1..Len(h) -> S] /\ \A i \in 1..Len(h) : f[i] = LastWord(SubSeq(h, 1, i), t)
  BY DEF Recoverable
<1> HIDE DEF f
<1>3. f \in Seq(S) /\ Len(f) = Len(h)
  BY <1>1, <1>2
<1> QED
  BY <1>2, <1>3 DEF f

\* One record more, one recoverable state more.
LEMMA RecoverableAppend ==
  ASSUME NEW h \in Seq(EffectRecords), NEW rec \in EffectRecords, NEW t
  PROVE  Recoverable(Append(h, rec), t) =
           Append(Recoverable(h, t), LastWord(Append(h, rec), t))
<1> DEFINE n == Len(h)
           more == Append(h, rec)
           S == {LastWord(SubSeq(more, 1, i), t) : i \in 1..(n + 1)}
           x == LastWord(more, t)
           old == Recoverable(h, t)
           new == Recoverable(more, t)
<1>1. n \in Nat /\ Len(more) = n + 1 /\ more \in Seq(EffectRecords)
  OBVIOUS
<1>2. /\ SubSeq(more, 1, n + 1) = more
      /\ \A i \in 1..n : SubSeq(more, 1, i) = SubSeq(h, 1, i) /\ i \in 1..(n + 1)
      /\ n + 1 \in 1..(n + 1)
  OBVIOUS
<1> HIDE DEF n, more
<1>3. (\A i \in 1..(n + 1) : LastWord(SubSeq(more, 1, i), t) \in S) /\ x \in S
  BY Zenon, <1>2
<1>4. \A i \in 1..n : LastWord(SubSeq(h, 1, i), t) \in S
  BY Zenon, <1>2, <1>3
<1> HIDE DEF S
<1>5. /\ old \in Seq(S) /\ Len(old) = n
      /\ \A i \in 1..n : old[i] = LastWord(SubSeq(h, 1, i), t)
  BY Zenon, <1>4, RecoverableIsSeq DEF n
<1>6. /\ new \in Seq(S) /\ Len(new) = n + 1
      /\ \A i \in 1..(n + 1) : new[i] = LastWord(SubSeq(more, 1, i), t)
  BY Zenon, <1>1, <1>3, RecoverableIsSeq
<1>7. (\A i \in 1..n : new[i] = old[i]) /\ new[n + 1] = x
  BY Zenon, <1>2, <1>5, <1>6
<1> HIDE DEF old, new, x
<1>8. new = Append(old, x)
  BY Zenon, <1>3, <1>5, <1>6, <1>7, IsAppend
<1> QED
  BY Zenon, <1>8 DEF old, new, x, more

\* A call that changes nothing is an abstract one that changes nothing.
LEMMA ReplyImplements ==
  ASSUME NEW reply, Reply(reply)
  PROVE  Promise!Answer(reply)
  BY DEF Reply, Promise!Answer, logVars

\* A step that callers cannot see: of what is mapped, only out changes.
LEMMA HiddenImplements ==
  ASSUME out' = NoReply, UNCHANGED <<up, now, hist, acked, pend, pos>>,
         AsMap(store', now) = AsMap(store, now)
  PROVE  Promise!Forget
  BY DEF Promise!Forget

\* A commit is the abstract mutation, or a refusal.
LEMMA CommitImplements ==
  ASSUME EngineInv, NEW c, NEW rec \in EffectRecords, NEW s \in Stores, NEW reply,
         Commit(c, rec, s, reply),
         Matches(hist, store, now) => Matches(Append(hist, rec), s, now),
         NEW m, m = AsMap(s, now)
  PROVE  Promise!Mutate(c, m, reply) \/ Promise!Refuse
<1>1. CASE ~AppendOnly
  <2>1. /\ up /\ pend[c] = NoReply /\ out' = reply /\ store' = s
        /\ UNCHANGED <<up, hist, acked, now, pend, pos>>
    BY <1>1 DEF Commit, Idle, logVars
  <2> QED
    BY <1>1, <2>1 DEF Promise!Mutate
<1>2. CASE AppendOnly /\ status # "open"
  <2>1. PICK why \in {"unavailable", "closed"} : Reply(<<"error", why>>)
    BY <1>2 DEF Commit, Answer
  <2>2. Promise!Answer(<<"error", why>>)
    BY Zenon, <2>1, ReplyImplements
  <2> QED
    BY <2>2 DEF Promise!Refuse
<1>3. CASE AppendOnly /\ status = "open"
  <2>1. /\ up /\ pend[c] = NoReply /\ hist' = Append(hist, rec) /\ store' = s
        /\ out' = NoReply /\ pend' = [pend EXCEPT ![c] = reply]
        /\ pos' = [pos EXCEPT ![c] = Len(hist) + 1]
        /\ UNCHANGED <<up, now, acked>>
    BY <1>3 DEF Commit, Accept, Idle
  <2>2. now \in Int /\ now <= now /\ hist \in Seq(EffectRecords)
    BY DEF EngineInv
  <2>3. LastWord(Append(hist, rec), now) = AsMap(AsRecorded(s), now)
    <3>1. Matches(Append(hist, rec), s, now)
      BY <1>3, <2>1 DEF EngineInv
    <3> QED
      BY <2>2, <3>1 DEF Matches
  <2>4. LastWord(Append(hist, rec), now) = Promise!AsOf(Promise!Rounded(m), now)
    BY Zenon, <2>2, <2>3, RecordedIsRounded
  <2>5. Recoverable(hist', now') =
          Append(Recoverable(hist, now), Promise!AsOf(Promise!Rounded(m), now))
    <3>1. Recoverable(Append(hist, rec), now) =
            Append(Recoverable(hist, now), LastWord(Append(hist, rec), now))
      BY Zenon, <2>2, RecoverableAppend
    <3> QED
      BY Zenon, <2>1, <2>4, <3>1
  <2>6. Len(Recoverable(hist, now)) = Len(hist)
    <3> DEFINE S == {LastWord(SubSeq(hist, 1, i), now) : i \in 1..Len(hist)}
    <3>1. \A i \in 1..Len(hist) : LastWord(SubSeq(hist, 1, i), now) \in S
      OBVIOUS
    <3> HIDE DEF S
    <3> QED
      BY Zenon, <2>2, <3>1, RecoverableIsSeq
  <2>7. AsMap(store', now') = m
    BY <2>1
  <2> QED
    BY Zenon, <1>3, <2>1, <2>5, <2>6, <2>7 DEF Promise!Mutate, Recoverable
<1> QED
  BY <1>1, <1>2, <1>3

\* Each mutation is a step of KV: what a SET stores, ...
LEMMA SetStoresImplement ==
  ASSUME EngineInv, NEW c, NEW k \in Keys, NEW value \in Text, NEW deadline \in Deadlines,
         NEW reply,
         Commit(c, DeriveSet(k, value, deadline), StoreSet(store, k, value, deadline), reply)
  PROVE  Promise!Mutate(c, Promise!Put(k, value, deadline), reply) \/ Promise!Refuse
<1> DEFINE s == StoreSet(store, k, value, deadline)
           rec == DeriveSet(k, value, deadline)
<1>1. store \in Stores /\ now \in Int /\ hist \in Seq(EffectRecords)
  BY DEF EngineInv
<1>2. rec \in EffectRecords /\ s \in Stores
  BY Zenon, <1>1, StoreSetProperties, DerivedRecords
<1>3. Matches(hist, store, now) => Matches(Append(hist, rec), s, now)
  BY <1>1, MatchesSet
<1>4. Promise!Put(k, value, deadline) = AsMap(s, now)
  BY Zenon, <1>1, SetIsPut DEF Promise!Put
<1> HIDE DEF s, rec
<1>5. Commit(c, rec, s, reply)
  BY Zenon DEF s, rec
<1> QED
  BY Zenon, <1>2, <1>3, <1>4, <1>5, CommitImplements

\* What the abstract map shows of one key.
LEMMA PresentIsLive ==
  ASSUME EngineInv, NEW k \in Keys
  PROVE  /\ Promise!Present(k) <=> IsLive(store, k, now)
         /\ AsMap(store, now)[k] = Absent <=> ~IsLive(store, k, now)
         /\ IsLive(store, k, now) =>
              /\ AsMap(store, now)[k].value = StoreGet(store, k, now)
              /\ AsMap(store, now)[k].value = store.data[k]
              /\ AsMap(store, now)[k].at = store.expires[k]
<1>1. store \in Stores
  BY DEF EngineInv
<1>2. AsMap(store, now)[k] = Absent <=> ~IsLive(store, k, now)
  BY <1>1, AsMapAt
<1>3. ASSUME IsLive(store, k, now)
      PROVE  /\ AsMap(store, now)[k] = [value |-> store.data[k], at |-> store.expires[k]]
             /\ StoreGet(store, k, now) = store.data[k]
  BY <1>1, <1>3, LiveKey DEF AsMap
<1>4. Promise!Present(k) <=> AsMap(store, now)[k] # Absent
  BY Zenon DEF Promise!Present
<1>5. ASSUME IsLive(store, k, now)
      PROVE  /\ AsMap(store, now)[k].value = StoreGet(store, k, now)
             /\ AsMap(store, now)[k].value = store.data[k]
             /\ AsMap(store, now)[k].at = store.expires[k]
  <2> DEFINE m == AsMap(store, now)[k]
             v == store.data[k]
             d == store.expires[k]
  <2>1. m = [value |-> v, at |-> d] /\ StoreGet(store, k, now) = v
    BY Zenon, <1>3, <1>5
  <2> HIDE DEF m, v, d
  <2>2. m.value = v /\ m.at = d
    BY <2>1
  <2> QED
    BY Zenon, <2>1, <2>2 DEF m, v, d
<1> QED
  BY Zenon, <1>2, <1>4, <1>5

\* ... Set, ...
LEMMA SetImplements ==
  ASSUME EngineInv, NEW c, NEW k \in Keys, NEW value \in Values,
         NEW d \in TTLs \cup {NoDeadline}, Set(c, k, value, d)
  PROVE  Promise!Set(c) \/ Promise!Refuse
<1> DEFINE deadline == IF d = NoDeadline THEN NoDeadline ELSE now + d
<1>1. value \in Text /\ deadline \in Deadlines
  BY ArgumentsAssumption, TTLsAssumption DEF Deadlines, EngineInv
<1>2. Commit(c, DeriveSet(k, value, deadline), StoreSet(store, k, value, deadline),
             <<"set", k>>)
  BY DEF Set
<1>3. Promise!Mutate(c, Promise!Put(k, value, deadline), <<"set", k>>) \/ Promise!Refuse
  <2> HIDE DEF deadline
  <2> QED
    BY Zenon, <1>1, <1>2, SetStoresImplement
<1> QED
  BY Zenon, <1>3 DEF Promise!Set

\* ... Expire, ...
LEMMA ExpireImplements ==
  ASSUME EngineInv, NEW c, NEW k \in Keys, NEW d \in TTLs, Expire(c, k, d)
  PROVE  Promise!Expire(c) \/ Promise!Refuse
<1>1. CASE IsLive(store, k, now)
  <2> DEFINE value == StoreGet(store, k, now)
  <2>1. /\ value \in Text /\ now + d \in Deadlines
        /\ StoreExpire(store, k, now + d, now) = StoreSet(store, k, value, now + d)
    <3>1. store \in Stores /\ now + d \in Deadlines
      BY TTLsAssumption DEF EngineInv, Deadlines
    <3>2. value \in Text
      BY Zenon, <1>1, <3>1, LiveKey
    <3>3. StoreExpire(store, k, now + d, now) = StoreSet(store, k, value, now + d)
      BY Zenon, <1>1, <3>1, ExpireIsSet
    <3> QED
      BY Zenon, <3>1, <3>2, <3>3
  <2>2. Commit(c, DeriveSet(k, value, now + d), StoreSet(store, k, value, now + d),
               <<"expire", k, 1>>)
    BY Zenon, <1>1, <2>1 DEF Expire
  <2>3. Promise!Present(k) /\ value = AsMap(store, now)[k].value
    BY Zenon, <1>1, PresentIsLive
  <2> HIDE DEF value
  <2>4. \/ Promise!Mutate(c, Promise!Put(k, value, now + d), <<"expire", k, 1>>)
        \/ Promise!Refuse
    BY Zenon, <2>1, <2>2, SetStoresImplement
  <2> QED
    BY Zenon, <2>3, <2>4 DEF Promise!Expire
<1>2. CASE ~IsLive(store, k, now)
  <2>1. Reply(<<"expire", k, 0>>)
    BY <1>2 DEF Expire, Answer
  <2>2. Promise!Answer(<<"expire", k, 0>>) /\ ~Promise!Present(k)
    BY Zenon, <1>2, <2>1, ReplyImplements, PresentIsLive
  <2> QED
    BY Zenon, <2>2 DEF Promise!Expire
<1> QED
  BY <1>1, <1>2

\* ... Persist, ...
LEMMA PersistImplements ==
  ASSUME EngineInv, NEW c, NEW k \in Keys, Persist(c, k)
  PROVE  Promise!Persist(c) \/ Promise!Refuse
<1> DEFINE live == IsLive(store, k, now) /\ StoreTTL(store, k, now) # NoDeadline
<1>1. live <=> Promise!Present(k) /\ AsMap(store, now)[k].at # NoDeadline
  <2>1. store.expires[k] \in Deadlines /\ now \in Int
    BY StoreParts DEF EngineInv
  <2>2. IsLive(store, k, now) =>
          (StoreTTL(store, k, now) # NoDeadline <=> store.expires[k] # NoDeadline)
    BY <2>1, MarksAssumption DEF StoreTTL, Deadlines
  <2> QED
    BY Zenon, <2>2, PresentIsLive
<1>2. CASE live
  <2> DEFINE value == StoreGet(store, k, now)
  <2>1. /\ value \in Text /\ NoDeadline \in Deadlines
        /\ StorePersist(store, k, now) = StoreSet(store, k, value, NoDeadline)
    <3>1. store \in Stores
      BY Zenon DEF EngineInv
    <3> QED
      BY Zenon, <1>2, <3>1, LiveKey, ExpireIsSet DEF Deadlines
  <2>2. Commit(c, DeriveSet(k, value, NoDeadline), StoreSet(store, k, value, NoDeadline),
               <<"persist", k, 1>>)
    BY Zenon, <1>2, <2>1 DEF Persist
  <2>3. value = AsMap(store, now)[k].value
    BY Zenon, <1>2, PresentIsLive
  <2> HIDE DEF value
  <2>4. \/ Promise!Mutate(c, Promise!Put(k, value, NoDeadline), <<"persist", k, 1>>)
        \/ Promise!Refuse
    BY Zenon, <2>1, <2>2, SetStoresImplement
  <2> QED
    BY Zenon, <1>1, <1>2, <2>3, <2>4 DEF Promise!Persist
<1>3. CASE ~live
  <2>1. Reply(<<"persist", k, 0>>)
    BY Zenon, <1>3 DEF Persist, Answer
  <2>2. Promise!Answer(<<"persist", k, 0>>)
    BY Zenon, <2>1, ReplyImplements
  <2> QED
    BY Zenon, <1>1, <1>3, <2>2 DEF Promise!Persist
<1> QED
  BY <1>2, <1>3

\* The test IncrBy makes is the one that matters: the sum leaves the range.
LEMMA OverflowIsExact ==
  ASSUME NEW n \in MinInt..MaxInt, NEW delta \in Int
  PROVE  Overflows(n, delta) <=> n + delta \notin MinInt..MaxInt
  BY IntAssumption DEF Overflows

\* ... IncrBy, ...
LEMMA IncrByImplements ==
  ASSUME EngineInv, NEW c, NEW k \in Keys, NEW delta \in Deltas, IncrBy(c, k, delta)
  PROVE  Promise!IncrBy(c) \/ Promise!Refuse
<1> DEFINE live == IsLive(store, k, ReadNow)
           nums == IF live THEN ParseStoredInt(store.data[k]) ELSE {0}
           deadline == IF live THEN store.expires[k] ELSE NoDeadline
           map == AsMap(store, now)
           absNums == IF Promise!Present(k) THEN Promise!ParseStoredInt(map[k].value) ELSE {0}
           at == IF Promise!Present(k) THEN map[k].at ELSE NoDeadline
<1>1. nums = absNums /\ deadline = at
  <2>1. live <=> Promise!Present(k)
    BY Zenon, ReadNowIsNow, PresentIsLive
  <2>2. live => map[k].value = store.data[k] /\ map[k].at = store.expires[k]
    BY Zenon, ReadNowIsNow, PresentIsLive
  <2>3. \A t : ParseStoredInt(t) = Promise!ParseStoredInt(t)
    BY DEF ParseStoredInt, Promise!ParseStoredInt
  <2> HIDE DEF live, map
  <2> QED
    BY Zenon, <2>1, <2>2, <2>3
<1>2. deadline \in Deadlines
  <2>1. store.expires[k] \in Deadlines
    BY StoreParts DEF EngineInv
  <2> QED
    BY <2>1 DEF Deadlines
<1>3. \A n \in nums : /\ n \in MinInt..MaxInt /\ FormatInt(n + delta) \in Text
                      /\ Overflows(n, delta) <=> n + delta \notin MinInt..MaxInt
                      /\ FormatInt(n + delta) = Promise!FormatInt(n + delta)
  <2>1. (\A n \in nums : n \in MinInt..MaxInt) /\ delta \in Int
    BY ParsedInt, IntAssumption, ArgumentsAssumption
  <2> HIDE DEF nums
  <2>2. \A n \in nums : Overflows(n, delta) <=> n + delta \notin MinInt..MaxInt
    BY Zenon, <2>1, OverflowIsExact
  <2>3. \A n \in nums : n + delta \in Int
    BY <2>1, IntAssumption
  <2>4. \A n \in Int : FormatInt(n) \in Text /\ FormatInt(n) = Promise!FormatInt(n)
    BY DEF FormatInt, Promise!FormatInt, Text
  <2> QED
    BY Zenon, <2>1, <2>2, <2>3, <2>4
<1>4. IF nums = {} THEN Answer(c, <<"error", "not an integer">>)
      ELSE \E n \in nums :
        IF Overflows(n, delta) THEN Answer(c, <<"error", "overflow">>)
        ELSE Commit(c, DeriveSet(k, FormatInt(n + delta), deadline),
                    StoreSet(store, k, FormatInt(n + delta), deadline),
                    <<"incr", k, n + delta>>)
  BY Zenon DEF IncrBy
<1>5. ASSUME IF absNums = {} THEN Promise!Answer(<<"error", "not an integer">>)
             ELSE \E n \in absNums :
               IF n + delta \in MinInt..MaxInt
               THEN Promise!Mutate(c, Promise!Put(k, Promise!FormatInt(n + delta), at),
                                   <<"incr", k, n + delta>>)
               ELSE Promise!Answer(<<"error", "overflow">>)
      PROVE  Promise!IncrBy(c)
  BY Zenon, <1>5 DEF Promise!IncrBy
<1> HIDE DEF nums, deadline, absNums, at
<1>6. CASE nums = {}
  <2>1. Promise!Answer(<<"error", "not an integer">>)
    BY Zenon, <1>4, <1>6, ReplyImplements DEF Answer
  <2> QED
    BY Zenon, <1>1, <1>5, <1>6, <2>1
<1>7. ASSUME NEW n \in nums, Overflows(n, delta), Answer(c, <<"error", "overflow">>)
      PROVE  Promise!IncrBy(c)
  <2>1. Promise!Answer(<<"error", "overflow">>)
    BY Zenon, <1>7, ReplyImplements DEF Answer
  <2> QED
    BY Zenon, <1>1, <1>3, <1>5, <1>7, <2>1
<1>8. ASSUME NEW n \in nums, ~Overflows(n, delta),
             Commit(c, DeriveSet(k, FormatInt(n + delta), deadline),
                    StoreSet(store, k, FormatInt(n + delta), deadline),
                    <<"incr", k, n + delta>>)
      PROVE  Promise!IncrBy(c) \/ Promise!Refuse
  <2>1. \/ Promise!Mutate(c, Promise!Put(k, FormatInt(n + delta), deadline),
                          <<"incr", k, n + delta>>)
        \/ Promise!Refuse
    BY Zenon, <1>2, <1>3, <1>8, SetStoresImplement
  <2> QED
    BY Zenon, <1>1, <1>3, <1>5, <1>8, <2>1
<1> QED
  BY Zenon, <1>4, <1>6, <1>7, <1>8

\* KV counts as the engine does.
LEMMA SameCardinality ==
  ASSUME NEW S
  PROVE  Promise!Cardinality(S) = Cardinality(S)
  BY Zenon DEF Cardinality, Promise!Cardinality

\* ... Delete, ...
LEMMA DeleteImplements ==
  ASSUME EngineInv, NEW c, NEW ks \in KeyLists, Delete(c, ks)
  PROVE  Promise!Delete(c) \/ Promise!Refuse
<1> DEFINE live == {k \in Range(ks) : IsLive(store, k, ReadNow)}
           deleted == StoreDelete(store, Range(ks))
           absLive == {k \in Keys : Promise!Present(k) /\ \E i \in DOMAIN ks : ks[i] = k}
           left == [k \in Keys |-> IF k \in absLive THEN Absent ELSE AsMap(store, now)[k]]
<1>1. Range(ks) \subseteq Keys /\ \A k : k \in Range(ks) <=> \E i \in DOMAIN ks : ks[i] = k
  <2>1. ks \in Seq(Keys)
    BY Zenon, ArgumentsAssumption
  <2>2. Range(ks) \subseteq Keys
    BY <2>1 DEF Range
  <2>3. \A k : k \in Range(ks) <=> \E i \in DOMAIN ks : ks[i] = k
    BY Zenon DEF Range
  <2> QED
    BY Zenon, <2>2, <2>3
<1>2. /\ absLive = live
      /\ \A k \in Keys : k \in live <=> k \in Range(ks) /\ IsLive(store, k, now)
  BY Zenon, <1>1, ReadNowIsNow, PresentIsLive
<1>3. hist \in Seq(EffectRecords) /\ store \in Stores /\ now \in Int
  BY DEF EngineInv
<1>4. deleted \in Stores /\ AsMap(deleted, now) = left
  <2>1. deleted \in Stores
    BY <1>3, StoreDeleteProperties
  <2> HIDE DEF live
  <2>2. AsMap(StoreDelete(store, Range(ks)), now) = [k \in Keys |-> IF k \in live THEN Absent ELSE AsMap(store, now)[k]]
    BY <1>2, <1>3, DeleteIsRemoval
  <2> HIDE DEF absLive
  <2> QED
    BY Zenon, <1>2, <2>1, <2>2
<1>5. ASSUME IF absLive = {} THEN Promise!Answer(<<"del", ks, 0>>)
             ELSE Promise!Mutate(c, left, <<"del", ks, Cardinality(absLive)>>)
      PROVE  Promise!Delete(c)
  BY Zenon, <1>5, SameCardinality DEF Promise!Delete
<1>6. CASE live = {}
  <2>1. /\ up /\ store' = deleted /\ out' = <<"del", ks, 0>>
        /\ UNCHANGED <<up, acked, hist, now, pend, pos>>
    BY <1>6 DEF Delete, Idle, logVars
  <2>2. left = AsMap(store, now)
    <3>1. \A k \in Keys : k \notin absLive
      BY <1>2, <1>6
    <3> HIDE DEF absLive
    <3> QED
      BY Zenon, <3>1 DEF AsMap
  <2> HIDE DEF deleted, left, live, absLive
  <2>3. Promise!Answer(<<"del", ks, 0>>)
    BY <1>4, <2>1, <2>2 DEF Promise!Answer
  <2> QED
    BY Zenon, <1>2, <1>5, <1>6, <2>3
<1>7. CASE live # {}
  <2>1. Commit(c, DeriveDel(live), deleted, <<"del", ks, Cardinality(live)>>)
    BY Zenon, <1>7 DEF Delete
  <2>2. live \in SUBSET Keys
    BY <1>1
  <2> HIDE DEF live, absLive, left
  <2>3. DeriveDel(live) \in EffectRecords
    BY <2>2, DerivedRecords
  <2>4. Matches(hist, store, now) => Matches(Append(hist, DeriveDel(live)), deleted, now)
    BY Zenon, <1>2, <1>3, <2>2, MatchesDel
  <2> HIDE DEF deleted
  <2>5. \/ Promise!Mutate(c, left, <<"del", ks, Cardinality(live)>>)
        \/ Promise!Refuse
    BY Zenon, <1>4, <2>1, <2>3, <2>4, CommitImplements
  <2> QED
    BY Zenon, <1>2, <1>5, <1>7, <2>5
<1> QED
  BY <1>6, <1>7

\* ... hence every mutation.
LEMMA MutationImplements ==
  ASSUME EngineInv, NEW c \in Callers, Mutation(c)
  PROVE  Promise!Next
<1>1. CASE RefuseDraining(c)
  <2>1. Promise!Answer(<<"error", "draining">>)
    BY Zenon, <1>1, ReplyImplements DEF RefuseDraining, Answer
  <2> QED
    BY <2>1 DEF Promise!Next, Promise!Refuse
<1>2. CASE \E k \in Keys, v \in Values, d \in TTLs \cup {NoDeadline} : Set(c, k, v, d)
  BY Zenon, <1>2, SetImplements DEF Promise!Next
<1>3. CASE \E k \in Keys, d \in TTLs : Expire(c, k, d)
  BY Zenon, <1>3, ExpireImplements DEF Promise!Next
<1>4. CASE \E k \in Keys : Persist(c, k)
  BY Zenon, <1>4, PersistImplements DEF Promise!Next
<1>5. CASE \E k \in Keys, delta \in Deltas : IncrBy(c, k, delta)
  BY Zenon, <1>5, IncrByImplements DEF Promise!Next
<1>6. CASE \E ks \in KeyLists : Delete(c, ks)
  BY Zenon, <1>6, DeleteImplements DEF Promise!Next
<1> QED
  BY Zenon, <1>1, <1>2, <1>3, <1>4, <1>5, <1>6 DEF Mutation

\* The answer comes later, and is the one the mutation settled on, or an error.
LEMMA ReturnImplements ==
  ASSUME NEW c \in Callers, Return(c)
  PROVE  Promise!Next
<1>1. /\ pend[c] # NoReply /\ pend' = [pend EXCEPT ![c] = NoReply]
      /\ \/ out' = pend[c] /\ acked' = acked \cup {pos[c]}
         \/ out' = <<"error", "unavailable">> /\ UNCHANGED acked
      /\ UNCHANGED <<up, hist, store, now, pos>>
  BY DEF Return, Confirm, logVars
<1>2. Promise!Confirm(c)
  BY <1>1 DEF Promise!Confirm
<1> QED
  BY Zenon, <1>2 DEF Promise!Next

\* Reads see the abstract map: expired entries that wait to be reclaimed are
\* invisible to each of them.
LEMMA ReadImplements ==
  ASSUME EngineInv, Read
  PROVE  Promise!Read
<1> DEFINE map == AsMap(store, now)
<1>1. ASSUME NEW k \in Keys
      PROVE  /\ StoreGet(store, k, ReadNow) = IF Promise!Present(k) THEN map[k].value ELSE Absent
             /\ IsLive(store, k, ReadNow) <=> Promise!Present(k)
             /\ StoreTTL(store, k, ReadNow) = IF ~Promise!Present(k) THEN Absent
                                              ELSE IF map[k].at = NoDeadline THEN NoDeadline
                                              ELSE map[k].at - now
  <2>1. /\ StoreGet(store, k, ReadNow) = StoreGet(store, k, now)
        /\ IsLive(store, k, ReadNow) <=> IsLive(store, k, now)
        /\ StoreTTL(store, k, ReadNow) = StoreTTL(store, k, now)
    BY Zenon, ReadNowIsNow
  <2>2. /\ Promise!Present(k) <=> IsLive(store, k, now)
        /\ IsLive(store, k, now) => /\ map[k].value = StoreGet(store, k, now)
                                    /\ map[k].at = store.expires[k]
    BY Zenon, PresentIsLive
  <2>3. ~IsLive(store, k, now) => StoreGet(store, k, now) = Absent
    BY DEF IsLive
  <2> HIDE DEF map
  <2> QED
    BY Zenon, <2>1, <2>2, <2>3 DEF StoreTTL
<1>2. \A ks \in KeyLists : \A i \in DOMAIN ks : ks[i] \in Keys
  BY ArgumentsAssumption
<1>3. ASSUME NEW k \in Keys, Get(k)
      PROVE  Promise!Read
  <2>1. Promise!Answer(<<"get", k, StoreGet(store, k, ReadNow)>>)
    BY Zenon, <1>3, ReplyImplements DEF Get
  <2> QED
    BY Zenon, <1>1, <2>1 DEF Promise!Read
<1>4. ASSUME NEW k \in Keys, TTL(k)
      PROVE  Promise!Read
  <2>1. Promise!Answer(<<"ttl", k, StoreTTL(store, k, ReadNow)>>)
    BY Zenon, <1>4, ReplyImplements DEF TTL
  <2> QED
    BY Zenon, <1>1, <2>1 DEF Promise!Read
<1>5. ASSUME NEW ks \in KeyLists, MGet(ks)
      PROVE  Promise!Read
  <2> DEFINE got == [i \in DOMAIN ks |-> StoreGet(store, ks[i], ReadNow)]
  <2>1. Promise!Answer(<<"mget", ks, got>>)
    BY Zenon, <1>5, ReplyImplements DEF MGet
  <2>2. got = [i \in DOMAIN ks |-> IF Promise!Present(ks[i]) THEN map[ks[i]].value ELSE Absent]
    BY Zenon, <1>1, <1>2
  <2> HIDE DEF got
  <2> QED
    BY Zenon, <2>1, <2>2 DEF Promise!Read
<1>6. ASSUME NEW ks \in KeyLists, Exists(ks)
      PROVE  Promise!Read
  <2>1. Promise!Answer(<<"exists", ks,
                         Cardinality({i \in DOMAIN ks : IsLive(store, ks[i], ReadNow)})>>)
    BY Zenon, <1>6, ReplyImplements DEF Exists
  <2>2. {i \in DOMAIN ks : IsLive(store, ks[i], ReadNow)} = {i \in DOMAIN ks : Promise!Present(ks[i])}
    BY Zenon, <1>1, <1>2
  <2> QED
    BY Zenon, <2>1, <2>2, SameCardinality DEF Promise!Read
<1>7. LiveKeys(store, ReadNow) = {k \in Keys : Promise!Present(k)}
  BY Zenon, <1>1 DEF LiveKeys
<1>8. CASE KeysCommand
  <2>1. Promise!Answer(<<"keys", LiveKeys(store, ReadNow)>>)
    BY Zenon, <1>8, ReplyImplements DEF KeysCommand
  <2> QED
    BY Zenon, <1>7, <2>1 DEF Promise!Read
<1>9. CASE DBSize
  <2>1. Promise!Answer(<<"dbsize", Cardinality(LiveKeys(store, ReadNow))>>)
    BY Zenon, <1>9, ReplyImplements DEF DBSize, StoreLen
  <2> QED
    BY Zenon, <1>7, <2>1, SameCardinality DEF Promise!Read
<1> QED
  BY Zenon, <1>3, <1>4, <1>5, <1>6, <1>8, <1>9 DEF Read

\* Time passes for the map and for what a restart would bring back.
LEMMA TickImplements ==
  ASSUME EngineInv, Tick
  PROVE  Promise!Tick
<1>1. /\ now' = now + 1 /\ out' = NoReply
      /\ UNCHANGED <<up, hist, acked, store, pend, pos>>
  BY DEF Tick, logVars
<1>2. now \in Int /\ now + 1 \in Int /\ now <= now + 1 /\ store \in Stores
      /\ hist \in Seq(EffectRecords)
  BY DEF EngineInv
<1>3. AsMap(store', now') = Promise!AsOf(AsMap(store, now), now')
  BY Zenon, <1>1, <1>2, AsMapLater
<1>4. Recoverable(hist, now') =
        [i \in DOMAIN Recoverable(hist, now) |-> Promise!AsOf(Recoverable(hist, now)[i], now')]
  <2>1. DOMAIN Recoverable(hist, now) = 1..Len(hist)
    BY DEF Recoverable
  <2>2. ASSUME NEW i \in 1..Len(hist)
        PROVE  LastWord(SubSeq(hist, 1, i), now') =
                 Promise!AsOf(Recoverable(hist, now)[i], now')
    <3>1. SubSeq(hist, 1, i) \in Seq(EffectRecords)
      BY <1>2
    <3>2. Recoverable(hist, now)[i] = LastWord(SubSeq(hist, 1, i), now)
      BY Zenon DEF Recoverable
    <3> QED
      BY Zenon, <1>1, <1>2, <3>1, <3>2, LastWordLater
  <2> QED
    BY Zenon, <2>1, <2>2 DEF Recoverable
<1> QED
  BY Zenon, <1>1, <1>3, <1>4 DEF Promise!Tick, Recoverable

\* Recovery brings back the last recoverable state.
LEMMA OpenLogImplements ==
  ASSUME EngineInv, OpenLog
  PROVE  Promise!Start
<1>1. /\ ~up /\ up' = TRUE /\ store' = Replay(hist, now) /\ out' = NoReply
      /\ UNCHANGED <<hist, acked, now, pend, pos>>
  BY DEF OpenLog, Open
<1>2. now \in Int /\ now <= now /\ hist \in Seq(EffectRecords) /\ Len(hist) \in Nat
  BY DEF EngineInv
<1>3. AsMap(Replay(hist, now), now) = LastWord(hist, now)
  BY <1>2, ReplayIsLastWord
<1> DEFINE r == Recoverable(hist, now)
<1>4. LastWord(hist, now) = IF r = <<>> THEN Promise!Empty ELSE r[Len(r)]
  <2> DEFINE S == {LastWord(SubSeq(hist, 1, i), now) : i \in 1..Len(hist)}
  <2>1. \A i \in 1..Len(hist) : LastWord(SubSeq(hist, 1, i), now) \in S
    OBVIOUS
  <2> HIDE DEF S
  <2>2. /\ r \in Seq(S) /\ Len(r) = Len(hist)
        /\ \A i \in 1..Len(hist) : r[i] = LastWord(SubSeq(hist, 1, i), now)
    BY Zenon, <1>2, <2>1, RecoverableIsSeq
  <2> HIDE DEF r
  <2>3. CASE hist = <<>>
    <3>1. r = <<>>
      BY <2>2, <2>3
    <3> QED
      BY Zenon, <2>3, <3>1, LastWordEmpty DEF Promise!Empty
  <2>4. CASE hist # <<>>
    <3>1. r # <<>> /\ Len(r) \in 1..Len(hist) /\ SubSeq(hist, 1, Len(hist)) = hist
      BY <1>2, <2>2, <2>4
    <3> QED
      BY Zenon, <2>2, <3>1
  <2> QED
    BY <2>3, <2>4
<1>5. AsMap(store', now') = IF r = <<>> THEN Promise!Empty ELSE r[Len(r)]
  BY Zenon, <1>1, <1>3, <1>4
<1> QED
  BY Zenon, <1>1, <1>5 DEF Promise!Start, Recoverable

\* The empty store shows nothing.
LEMMA EmptyIsEmpty ==
  ASSUME NEW t
  PROVE  AsMap(EmptyStore, t) = Promise!Empty
<1>1. AsMap(EmptyStore, t) = [k \in Keys |-> ShownAt(EmptyStore.data[k], EmptyStore.expires[k], t)]
  BY EmptyStoreIsStore, AsMapAt
<1>2. \A k \in Keys : ShownAt(EmptyStore.data[k], EmptyStore.expires[k], t) = Absent
  BY DEF EmptyStore, ShownAt
<1> QED
  BY Zenon, <1>1, <1>2 DEF Promise!Empty

\* A crash loses a suffix of the mutations, and none that was answered.
LEMMA CrashImplements ==
  ASSUME EngineInv, ProcessEnds
  PROVE  Promise!Stop
<1>1. /\ up' = FALSE /\ store' = EmptyStore /\ out' = NoReply
      /\ pend' = [c \in Callers |-> NoReply] /\ pos' = [c \in Callers |-> 0]
      /\ UNCHANGED <<now, acked>>
  BY DEF ProcessEnds, Crash
<1>2. PICK n \in 0..Len(hist) : (\A i \in acked : i <= n) /\ hist' = SubSeq(hist, 1, n)
  BY DEF ProcessEnds, Crash
<1>3. hist \in Seq(EffectRecords) /\ Len(hist) \in Nat /\ n \in Nat /\ n <= Len(hist)
  BY <1>2 DEF EngineInv
<1> DEFINE S == {LastWord(SubSeq(hist, 1, i), now) : i \in 1..Len(hist)}
           r == Recoverable(hist, now)
           left == SubSeq(hist, 1, n)
<1>4. \A i \in 1..Len(hist) : LastWord(SubSeq(hist, 1, i), now) \in S
  OBVIOUS
<1> HIDE DEF S
<1>5. /\ r \in Seq(S) /\ Len(r) = Len(hist)
      /\ \A i \in 1..Len(hist) : r[i] = LastWord(SubSeq(hist, 1, i), now)
  BY Zenon, <1>3, <1>4, RecoverableIsSeq
<1>6. /\ Len(left) = n /\ \A i \in 1..n : i \in 1..Len(hist)
      /\ \A i \in 1..n : SubSeq(left, 1, i) = SubSeq(hist, 1, i)
  BY <1>3
<1>7. Recoverable(left, now) = [i \in 1..n |-> r[i]]
  <2> HIDE DEF r, left
  <2> QED
    BY Zenon, <1>5, <1>6 DEF Recoverable
<1>8. Recoverable(left, now) = SubSeq(r, 1, n)
  <2> HIDE DEF r, left
  <2>1. SubSeq(r, 1, n) = [i \in 1..n |-> r[i]]
    BY <1>3, <1>5
  <2> QED
    BY Zenon, <1>7, <2>1
<1>9. n \in 0..Len(r) /\ Recoverable(hist', now') = SubSeq(r, 1, n)
  BY Zenon, <1>1, <1>2, <1>5, <1>8
<1>10. AsMap(store', now') = Promise!Empty
  BY Zenon, <1>1, EmptyIsEmpty
<1> QED
  BY Zenon, <1>1, <1>2, <1>9, <1>10 DEF Promise!Stop, Recoverable

\* A sweep removes nothing that is there to be seen.
LEMMA SweepImplements ==
  ASSUME EngineInv, NEW examined, Sweep(examined)
  PROVE  Promise!Forget
<1> DEFINE ks == {k \in examined : Expired(store, k, now)}
<1>1. /\ store' = StoreDelete(store, ks) /\ out' = NoReply
      /\ UNCHANGED <<up, now, hist, acked, pend, pos>>
  BY DEF Sweep, WorkerStep, ReclaimExpired, logVars
<1> DEFINE live == {}
<1>2. \A k \in Keys : k \in live <=> k \in ks /\ IsLive(store, k, now)
  BY DEF IsLive, StoreGet
<1>3. store \in Stores /\ now \in Int /\ \A k : k \notin live
  BY DEF EngineInv
<1> HIDE DEF ks, live
<1>4. AsMap(StoreDelete(store, ks), now) =
        [k \in Keys |-> IF k \in live THEN Absent ELSE AsMap(store, now)[k]]
  BY <1>2, <1>3, DeleteIsRemoval
<1>5. AsMap(StoreDelete(store, ks), now) = AsMap(store, now)
  BY Zenon, <1>3, <1>4 DEF AsMap
<1> QED
  BY Zenon, <1>1, <1>5, HiddenImplements

\* Every step of the engine is a step of KV, or changes nothing that KV sees.
LEMMA EngineStepImplements ==
  ASSUME EngineInv, [EngineNext]_allVars
  PROVE  [Promise!Next]_(Promise!vars)
<1>1. CASE UNCHANGED allVars
  BY <1>1 DEF allVars, logVars, Promise!vars
<1>2. CASE Delivered
  <2>1. Promise!Forget
    BY <1>2, HiddenImplements DEF Delivered, logVars
  <2> QED
    BY Zenon, <2>1 DEF Promise!Next
<1>3. ASSUME NEW c \in Callers, Mutation(c) PROVE Promise!Next
  BY Zenon, <1>3, MutationImplements
<1>4. ASSUME NEW c \in Callers, Return(c) PROVE Promise!Next
  BY Zenon, <1>4, ReturnImplements
<1>5. CASE Read
  BY Zenon, <1>5, ReadImplements DEF Promise!Next
<1>6. CASE StartExpiration \/ StopExpiration \/ WorkerExits
  <2>1. Promise!Forget
    BY <1>6, HiddenImplements DEF StartExpiration, StopExpiration, WorkerExits, WorkerStep, logVars
  <2> QED
    BY Zenon, <2>1 DEF Promise!Next
<1>7. CASE ReclaimOnce
  BY Zenon, <1>7, SweepImplements DEF ReclaimOnce, Promise!Next
<1>8. CASE BeginDrain \/ Finalize \/ LogFails
  <2>1. Promise!Forget
    BY <1>8, HiddenImplements
       DEF BeginDrain, Finalize, LogFails, Fails, BeginClose, EndClose, Becomes, logVars
  <2> QED
    BY Zenon, <2>1 DEF Promise!Next
<1>9. CASE Tick
  BY Zenon, <1>9, TickImplements DEF Promise!Next
<1>10. CASE OpenLog
  BY Zenon, <1>10, OpenLogImplements DEF Promise!Next
<1>11. CASE ProcessEnds
  BY Zenon, <1>11, CrashImplements DEF Promise!Next
<1> QED
  BY Zenon, <1>1, <1>2, <1>3, <1>4, <1>5, <1>6, <1>7, <1>8, <1>9, <1>10, <1>11
     DEF EngineNext, EngineStep

\* The engine implements KV: reclamation and lazily expired entries are
\* invisible, every answer is that of one atomic step, and a restart brings back
\* the state of some mutation no older than the last one answered.
THEOREM EngineImplementsKV == EngineSpec => ImplementsKV
<1>1. EngineInit => Promise!Init
  <2>1. SUFFICES ASSUME EngineInit PROVE Promise!Init
    OBVIOUS
  <2>2. /\ up = FALSE /\ store = EmptyStore /\ now = 0 /\ hist = <<>> /\ acked = {}
        /\ pend = [c \in Callers |-> NoReply] /\ pos = [c \in Callers |-> 0] /\ out = NoReply
    BY <2>1 DEF EngineInit, LogInit
  <2>3. Recoverable(<<>>, now) = <<>>
    BY DEF Recoverable
  <2> QED
    BY Zenon, <2>2, <2>3, EmptyIsEmpty DEF Promise!Init, Recoverable
<1> QED
  BY <1>1, EngineStepImplements, EngineInvariance, PTL
     DEF EngineSpec, ImplementsKV, Promise!Spec
=============================================================================
