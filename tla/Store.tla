------------------------------- MODULE Store -------------------------------
(***************************************************************************)
(* The in-memory store of internal/store: two maps, one from keys to       *)
(* values and one from keys to deadlines, and the operations on them.  A   *)
(* map is a total function; Absent and NoDeadline mark the keys that are   *)
(* not in it.  Instants are integers.  An operation is given the instant   *)
(* it judges expiry against; none of them reads a clock.                   *)
(***************************************************************************)
EXTENDS Integers, FiniteSets

CONSTANTS Keys, Absent, NoDeadline

ASSUME MarksAssumption == NoDeadline \notin Int /\ Absent \notin Int \cup {NoDeadline}

EmptyStore == [data |-> [k \in Keys |-> Absent],
               expires |-> [k \in Keys |-> NoDeadline]]

\* expired: the deadline instant itself counts.
Expired(s, k, now) == s.expires[k] # NoDeadline /\ s.expires[k] <= now

StoreGet(s, k, now) == IF Expired(s, k, now) THEN Absent ELSE s.data[k]

IsLive(s, k, now) == StoreGet(s, k, now) # Absent

\* Set: without a TTL (deadline = NoDeadline) an existing deadline is cleared.
StoreSet(s, k, value, deadline) ==
  [s EXCEPT !.data[k] = value, !.expires[k] = deadline]

\* Delete, for each key of a set.
StoreDeleteDataOnly(s, ks) ==
  [s EXCEPT !.data = [k \in Keys |-> IF k \in ks THEN Absent ELSE @[k]]]
StoreDelete(s, ks) ==
  [s EXCEPT !.data = [k \in Keys |-> IF k \in ks THEN Absent ELSE @[k]],
            !.expires = [k \in Keys |-> IF k \in ks THEN NoDeadline ELSE @[k]]]

StoreExpire(s, k, at, now) ==
  IF IsLive(s, k, now) THEN [s EXCEPT !.expires[k] = at] ELSE s

StorePersist(s, k, now) ==
  IF IsLive(s, k, now) THEN [s EXCEPT !.expires[k] = NoDeadline] ELSE s

\* TTL: Absent for NoKey, NoDeadline for NoTTL, else the time left.
StoreTTL(s, k, now) ==
  IF ~IsLive(s, k, now) THEN Absent
  ELSE IF s.expires[k] = NoDeadline THEN NoDeadline
  ELSE s.expires[k] - now

LiveKeys(s, now) == {k \in Keys : IsLive(s, k, now)}

StoreLen(s, now) == Cardinality(LiveKeys(s, now))

\* ReclaimExpired: a sweep examines up to limit keys of expires, in an order
\* Go does not specify, and removes the expired ones among them.
Indexed(s) == {k \in Keys : s.expires[k] # NoDeadline}

SamplesOffByOne(s, limit) ==
  {ks \in SUBSET Indexed(s) :
     Cardinality(ks) = limit - 1 \/ (ks = Indexed(s) /\ Cardinality(ks) < limit)}
Samples(s, limit) ==
  {ks \in SUBSET Indexed(s) :
     Cardinality(ks) = limit \/ (ks = Indexed(s) /\ Cardinality(ks) < limit)}

ReclaimExpired(s, now, examined) ==
  StoreDelete(s, {k \in examined : Expired(s, k, now)})

HasExpirations(s) == Indexed(s) # {}
=============================================================================
