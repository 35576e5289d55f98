------------------------------- MODULE Engine -------------------------------
(***************************************************************************)
(* The engine of internal/engine: the store behind one lock, mutations     *)
(* that append their effect to the log and apply it to the store in one    *)
(* critical section and wait for durability outside it, reads, the         *)
(* expiration worker, draining, and recovery.  It composes Store and       *)
(* Effects with the log, of which it uses what DurableLog says (module Log *)
(* shows that internal/aof does that): every step below is a step of       *)
(* DurableLog, or leaves the log alone.  appliedSeq is left out: nothing   *)
(* reads it, and it is the sequence number of the last record accepted.    *)
(***************************************************************************)
EXTENDS DurableLog, Effects

CONSTANTS Callers,           \* client goroutines that mutate
          Readers,           \* client goroutines that read
          AppendOnly,        \* is persistence on (e.log non-nil)?
          Values,            \* texts clients store
          Deltas,            \* arguments of INCRBY
          TTLs,              \* durations clients give, in ticks
          KeyLists,          \* argument lists of DEL, MGET and EXISTS
          ExpirationSample,  \* keys examined by one sweep
          MaxTime,           \* bound on the clock
          MaxHist,           \* bound on the records in the log
          MaxCrashes,        \* bound on crashes
          NoReply

ASSUME AppendOnlyAssumption == AppendOnly \in BOOLEAN
ASSUME ArgumentsAssumption ==
  Values \subseteq Text /\ Deltas \subseteq Int /\ KeyLists \subseteq Seq(Keys)
ASSUME TTLsAssumption == TTLs \subseteq Nat \ {0}
ASSUME SampleAssumption == ExpirationSample \in Nat \ {0}
ASSUME EngineBoundsAssumption == MaxTime \in Nat /\ MaxHist \in Nat /\ MaxCrashes \in Nat

VARIABLES store,
          now,
          accepting,  \* acceptingMutations
          worker,     \* the expiration worker: "off", "running" or "stopping"
          pend,       \* per caller: what its mutation answers once durable
          pos,        \* per caller: the position of its record in the log
          out,        \* the answer given by the last step, or NoReply
          crashes

allVars == <<logVars, store, now, accepting, worker, pend, pos, out, crashes>>

EngineInit ==
  /\ LogInit
  /\ store = EmptyStore /\ now = 0 /\ accepting = TRUE /\ worker = "off"
  /\ pend = [c \in Callers |-> NoReply] /\ pos = [c \in Callers |-> 0]
  /\ out = NoReply /\ crashes = 0

----------------------------------------------------------------------------
(***************************************************************************)
(* The commit path.                                                        *)
(***************************************************************************)
Idle(c) == up /\ pend[c] = NoReply

\* A call that returns without having changed anything.
Reply(reply) == /\ up /\ out' = reply
                /\ UNCHANGED <<logVars, store, now, accepting, worker, pend, pos, crashes>>
Answer(c, reply) == Idle(c) /\ Reply(reply)

\* commitSet and commitDel: append rec, then make s the store.  Append refuses
\* a failed or closing log before anything is applied.
CommitApplyFirst(c, rec, s, reply) ==
  IF ~AppendOnly
  THEN /\ Idle(c) /\ store' = s /\ out' = reply
       /\ UNCHANGED <<logVars, now, accepting, worker, pend, pos, crashes>>
  ELSE IF status # "open"
  THEN /\ Idle(c) /\ store' = s
       /\ out' = <<"error", IF status = "failed" THEN "unavailable" ELSE "closed">>
       /\ UNCHANGED <<logVars, now, accepting, worker, pend, pos, crashes>>
  ELSE /\ Idle(c) /\ Len(hist) < MaxHist /\ Accept(rec)
       /\ store' = s /\ out' = NoReply
       /\ pend' = [pend EXCEPT ![c] = reply]
       /\ pos' = [pos EXCEPT ![c] = Len(hist) + 1]
       /\ UNCHANGED <<now, accepting, worker, crashes>>
Commit(c, rec, s, reply) ==
  IF ~AppendOnly
  THEN /\ Idle(c) /\ store' = s /\ out' = reply
       /\ UNCHANGED <<logVars, now, accepting, worker, pend, pos, crashes>>
  ELSE IF status # "open"
  THEN Answer(c, <<"error", IF status = "failed" THEN "unavailable" ELSE "closed">>)
  ELSE /\ Idle(c) /\ Len(hist) < MaxHist /\ Accept(rec)
       /\ store' = s /\ out' = NoReply
       /\ pend' = [pend EXCEPT ![c] = reply]
       /\ pos' = [pos EXCEPT ![c] = Len(hist) + 1]
       /\ UNCHANGED <<now, accepting, worker, crashes>>

\* readNow: the zero time (before every instant) when no key has a deadline.
ReadNow == IF HasExpirations(store) THEN now ELSE -1

\* The early return every mutation starts with.
RefuseDraining(c) == ~accepting /\ Answer(c, <<"error", "draining">>)

SetUngated(c, k, value, d) ==
  LET deadline == IF d = NoDeadline THEN NoDeadline ELSE now + d
  IN Commit(c, DeriveSet(k, value, deadline), StoreSet(store, k, value, deadline),
            <<"set", k>>)
Set(c, k, value, d) ==
  LET deadline == IF d = NoDeadline THEN NoDeadline ELSE now + d
  IN /\ accepting
     /\ Commit(c, DeriveSet(k, value, deadline), StoreSet(store, k, value, deadline),
               <<"set", k>>)

\* EXPIRE is recorded as a SET of the value the key holds.
Expire(c, k, d) ==
  /\ accepting
  /\ IF IsLive(store, k, now)
     THEN Commit(c, DeriveSet(k, StoreGet(store, k, now), now + d),
                 StoreExpire(store, k, now + d, now), <<"expire", k, 1>>)
     ELSE Answer(c, <<"expire", k, 0>>)

Persist(c, k) ==
  /\ accepting
  /\ IF IsLive(store, k, now) /\ StoreTTL(store, k, now) # NoDeadline
     THEN Commit(c, DeriveSet(k, StoreGet(store, k, now), NoDeadline),
                 StorePersist(store, k, now), <<"persist", k, 1>>)
     ELSE Answer(c, <<"persist", k, 0>>)

\* A live key keeps its deadline; one that is missing or expired starts from
\* zero without one.
IncrByStaleDeadline(c, k, delta) ==
  LET live == IsLive(store, k, ReadNow)
      nums == IF live THEN ParseStoredInt(store.data[k]) ELSE {0}
      deadline == store.expires[k]
  IN /\ accepting
     /\ IF nums = {} THEN Answer(c, <<"error", "not an integer">>)
        ELSE \E n \in nums :
          IF Overflows(n, delta) THEN Answer(c, <<"error", "overflow">>)
          ELSE Commit(c, DeriveSet(k, FormatInt(n + delta), deadline),
                      StoreSet(store, k, FormatInt(n + delta), deadline),
                      <<"incr", k, n + delta>>)
IncrBy(c, k, delta) ==
  LET live == IsLive(store, k, ReadNow)
      nums == IF live THEN ParseStoredInt(store.data[k]) ELSE {0}
      deadline == IF live THEN store.expires[k] ELSE NoDeadline
  IN /\ accepting
     /\ IF nums = {} THEN Answer(c, <<"error", "not an integer">>)
        ELSE \E n \in nums :
          IF Overflows(n, delta) THEN Answer(c, <<"error", "overflow">>)
          ELSE Commit(c, DeriveSet(k, FormatInt(n + delta), deadline),
                      StoreSet(store, k, FormatInt(n + delta), deadline),
                      <<"incr", k, n + delta>>)

\* Only live keys are counted and recorded; every requested key is deleted.
\* With no live key among them nothing is recorded.
Delete(c, ks) ==
  LET live == {k \in Range(ks) : IsLive(store, k, ReadNow)}
      deleted == StoreDelete(store, Range(ks))
  IN /\ accepting
     /\ IF live = {}
        THEN /\ Idle(c) /\ store' = deleted /\ out' = <<"del", ks, 0>>
             /\ UNCHANGED <<logVars, now, accepting, worker, pend, pos, crashes>>
        ELSE Commit(c, DeriveDel(live), deleted, <<"del", ks, Cardinality(live)>>)

\* await, outside the lock.  A failure is answered even if the record was
\* reached.  A log that closes without failing has reached every record.
Return(c) ==
  /\ pend[c] # NoReply /\ pend' = [pend EXCEPT ![c] = NoReply]
  /\ \/ Confirm(pos[c]) /\ out' = pend[c]
     \/ up /\ status = "failed" /\ out' = <<"error", "unavailable">> /\ UNCHANGED logVars
  /\ UNCHANGED <<store, now, accepting, worker, pos, crashes>>

----------------------------------------------------------------------------
(***************************************************************************)
(* Reads, each under one hold of the read lock and at one instant.         *)
(***************************************************************************)
Get(k) == Reply(<<"get", k, StoreGet(store, k, ReadNow)>>)

MGet(ks) == Reply(<<"mget", ks, [i \in DOMAIN ks |-> StoreGet(store, ks[i], ReadNow)]>>)

Exists(ks) ==
  Reply(<<"exists", ks, Cardinality({i \in DOMAIN ks : IsLive(store, ks[i], ReadNow)})>>)

TTL(k) == Reply(<<"ttl", k, StoreTTL(store, k, ReadNow)>>)

KeysCommand == Reply(<<"keys", LiveKeys(store, ReadNow)>>)

DBSize == Reply(<<"dbsize", StoreLen(store, ReadNow)>>)

----------------------------------------------------------------------------
(***************************************************************************)
(* The expiration worker and the stages of shutdown.                       *)
(***************************************************************************)
WorkerStep == /\ up /\ out' = NoReply
              /\ UNCHANGED <<logVars, now, accepting, pend, pos, crashes>>

StartExpiration == accepting /\ worker = "off" /\ worker' = "running"
                     /\ UNCHANGED store /\ WorkerStep
StopExpiration == worker = "running" /\ worker' = "stopping"
                    /\ UNCHANGED store /\ WorkerStep
WorkerExits == worker = "stopping" /\ worker' = "off" /\ UNCHANGED store /\ WorkerStep

\* reclaimOnce; a tick may still win over stop in the worker's select.
Sweep(examined) == /\ worker # "off" /\ UNCHANGED worker
                   /\ store' = ReclaimExpired(store, now, examined)
                   /\ WorkerStep
ReclaimOnce == \E examined \in Samples(store, ExpirationSample) : Sweep(examined)

BeginDrain == /\ up /\ accepting /\ worker # "running"
              /\ accepting' = FALSE /\ out' = NoReply
              /\ UNCHANGED <<logVars, store, now, worker, pend, pos, crashes>>

\* Finalize closes the log; the server calls it after BeginDrain.
Finalize == /\ AppendOnly /\ ~accepting /\ (BeginClose \/ EndClose) /\ out' = NoReply
            /\ UNCHANGED <<store, now, accepting, worker, pend, pos, crashes>>

----------------------------------------------------------------------------
(***************************************************************************)
(* Failure of the log, time, recovery and crashes.                         *)
(***************************************************************************)
LogFails == /\ AppendOnly /\ Fails /\ out' = NoReply
            /\ UNCHANGED <<store, now, accepting, worker, pend, pos, crashes>>

Tick == /\ now < MaxTime /\ now' = now + 1 /\ out' = NoReply
        /\ UNCHANGED <<logVars, store, accepting, worker, pend, pos, crashes>>

\* OpenLog recovers the store at one instant.  Without -appendonly the log is
\* empty, and so is the store.
OpenLog == /\ Open /\ store' = Replay(hist, now) /\ out' = NoReply
           /\ UNCHANGED <<now, accepting, worker, pend, pos, crashes>>

ProcessEnds == /\ up /\ crashes < MaxCrashes /\ crashes' = crashes + 1
               /\ Crash
               /\ store' = EmptyStore /\ accepting' = TRUE /\ worker' = "off"
               /\ pend' = [c \in Callers |-> NoReply] /\ pos' = [c \in Callers |-> 0]
               /\ out' = NoReply /\ UNCHANGED now

Mutation(c) ==
  \/ RefuseDraining(c)
  \/ \E k \in Keys, v \in Values, d \in TTLs \cup {NoDeadline} : Set(c, k, v, d)
  \/ \E k \in Keys, d \in TTLs : Expire(c, k, d)
  \/ \E k \in Keys : Persist(c, k)
  \/ \E k \in Keys, delta \in Deltas : IncrBy(c, k, delta)
  \/ \E ks \in KeyLists : Delete(c, ks)

Read == \/ \E k \in Keys : Get(k) \/ TTL(k)
        \/ \E ks \in KeyLists : MGet(ks) \/ Exists(ks)
        \/ KeysCommand \/ DBSize

\* An answer is observed in the state after it and gone in the next, so that
\* no step has to be taken once per answer that may have come before it.
Delivered == out # NoReply /\ out' = NoReply
               /\ UNCHANGED <<logVars, store, now, accepting, worker, pend, pos, crashes>>

EngineStep ==
  \/ \E c \in Callers : Mutation(c) \/ Return(c)
  \/ Readers # {} /\ Read
  \/ StartExpiration \/ StopExpiration \/ WorkerExits \/ ReclaimOnce
  \/ BeginDrain \/ Finalize
  \/ LogFails \/ Tick \/ OpenLog \/ ProcessEnds

EngineNext == Delivered \/ (out = NoReply /\ EngineStep)

EngineSpec == EngineInit /\ [][EngineNext]_allVars

\* The worker's ticker ticks.  Which keys a sweep examines is up to Go's map
\* iteration, whose random start passes over no key for ever.
Examines(k) == \E examined \in Samples(store, ExpirationSample) :
                 k \in examined /\ out = NoReply /\ Sweep(examined)
ReclaimingSpec == /\ EngineSpec /\ WF_allVars(Delivered)
                  /\ \A k \in Keys : SF_allVars(Examines(k))

----------------------------------------------------------------------------
(***************************************************************************)
(* Properties.                                                             *)
(***************************************************************************)
\* The comment on Store: keys(expires) is a subset of keys(data), after any
\* sequence of mutations, sweeps and recoveries.
IndexedKeysHaveData ==
  /\ store \in [data : [Keys -> Text \cup {Absent}], expires : [Keys -> Int \cup {NoDeadline}]]
  /\ \A k \in Indexed(store) : store.data[k] # Absent

\* Memory and log never diverge: at any instant from now on, the last record
\* about a key says what memory will show for it then, up to the part of a
\* millisecond by which the log rounds deadlines down.  Deletes of expired keys
\* and sweeps, which are not recorded, do not disturb this, and nothing that is
\* gone from memory comes back.  After OpenLog memory is what Replay made of the
\* records: one that has expired leaves its key absent, it does not bring back
\* what it replaced.
LogMatchesMemory ==
  AppendOnly /\ up =>
    \A t \in now..MaxTime : LastWord(hist, t) = AsMap(AsRecorded(store), t)

\* BeginDrain: "once BeginDrain returns, no new mutation can be admitted".
\* From then on nothing is recorded, and all that callers can see happen to a
\* key is that it expires.
DrainIsFinal ==
  [][~accepting /\ ~accepting' =>
       /\ hist' = hist
       /\ \A k \in Keys : StoreGet(store', k, now') \in {StoreGet(store, k, now), Absent}
    ]_allVars

\* A key whose deadline has passed is physically removed in the end, while the
\* worker runs, even if each sweep examines fewer keys than carry a deadline.
ExpiredKeysAreReclaimed ==
  \A k \in Keys : Expired(store, k, now) ~> (~Expired(store, k, now) \/ worker = "off")

\* The engine does what KV promises: reclamation and lazily expired entries are
\* invisible, every answer is that of one atomic step, and a restart brings
\* back the state of some mutation no older than the last one answered.
Promise == INSTANCE KV WITH
  kv <- AsMap(store, now),
  recoverable <- [i \in 1..Len(hist) |-> LastWord(SubSeq(hist, 1, i), now)]

ImplementsKV == Promise!Spec
=============================================================================
