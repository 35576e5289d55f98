--------------------------------- MODULE KV ---------------------------------
(***************************************************************************)
(* What the engine promises its clients: a map from keys to values with    *)
(* deadlines, in which a key is gone at the instant of its deadline.  There *)
(* are no expired entries waiting to be reclaimed, no locks and no log.  A *)
(* mutation takes effect in one step and is answered in a later one, or in *)
(* the same one when persistence is off.  After a restart the map is one   *)
(* of the recoverable states: what some mutation left, at or after the     *)
(* last one that was answered, with deadlines rounded down to the          *)
(* millisecond the log records.                                            *)
(***************************************************************************)
EXTENDS StoredInt, Sequences, FiniteSets

CONSTANTS Keys, Callers, AppendOnly, Values, Deltas, TTLs, KeyLists,
          TicksPerMs,  \* resolution of the clock, per millisecond
          Absent, NoDeadline, NoReply

VARIABLES up,           \* is the server running?
          kv,           \* key -> Absent or [value, at]
          now,
          recoverable,  \* the states a restart may bring back, oldest first
          acked,        \* the positions in recoverable that were answered
          pend,         \* per caller: the answer of a mutation in progress
          pos,          \* per caller: its position in recoverable
          out           \* the answer given by the last step

vars == <<up, kv, now, recoverable, acked, pend, pos, out>>

Empty == [k \in Keys |-> Absent]

Present(k) == kv[k] # Absent

\* m as it looks at instant t.
AsOf(m, t) ==
  [k \in Keys |-> IF m[k] # Absent /\ m[k].at # NoDeadline /\ m[k].at <= t
                  THEN Absent ELSE m[k]]

\* m with the deadlines of the log.
InMillis(at) == IF at = NoDeadline THEN NoDeadline ELSE (at \div TicksPerMs) * TicksPerMs
Rounded(m) ==
  [k \in Keys |-> IF m[k] = Absent THEN Absent
                  ELSE [m[k] EXCEPT !.at = InMillis(m[k].at)]]

Init == /\ up = FALSE /\ kv = Empty /\ now = 0 /\ recoverable = <<>> /\ acked = {}
        /\ pend = [c \in Callers |-> NoReply] /\ pos = [c \in Callers |-> 0]
        /\ out = NoReply

Answer(reply) ==
  up /\ out' = reply /\ UNCHANGED <<up, kv, now, recoverable, acked, pend, pos>>

\* A mutation of caller c that leaves m and will answer reply.
Mutate(c, m, reply) ==
  /\ up /\ pend[c] = NoReply
  /\ UNCHANGED <<up, now, acked>>
  /\ IF AppendOnly
     THEN /\ pend' = [pend EXCEPT ![c] = reply] /\ out' = NoReply
          /\ kv' = m
          /\ pos' = [pos EXCEPT ![c] = Len(recoverable) + 1]
          /\ recoverable' = Append(recoverable, AsOf(Rounded(m), now))
     ELSE out' = reply /\ kv' = m /\ UNCHANGED <<recoverable, pend, pos>>

Put(k, value, at) == AsOf([kv EXCEPT ![k] = [value |-> value, at |-> at]], now)

Set(c) == \E k \in Keys, v \in Values, d \in TTLs \cup {NoDeadline} :
  Mutate(c, Put(k, v, IF d = NoDeadline THEN NoDeadline ELSE now + d), <<"set", k>>)

Expire(c) == \E k \in Keys, d \in TTLs :
  IF Present(k) THEN Mutate(c, Put(k, kv[k].value, now + d), <<"expire", k, 1>>)
                ELSE Answer(<<"expire", k, 0>>)

Persist(c) == \E k \in Keys :
  IF Present(k) /\ kv[k].at # NoDeadline
  THEN Mutate(c, Put(k, kv[k].value, NoDeadline), <<"persist", k, 1>>)
  ELSE Answer(<<"persist", k, 0>>)

\* The counter keeps its deadline, and never leaves the range of an int64.
IncrBy(c) == \E k \in Keys, delta \in Deltas :
  LET nums == IF Present(k) THEN ParseStoredInt(kv[k].value) ELSE {0}
      at == IF Present(k) THEN kv[k].at ELSE NoDeadline
  IN IF nums = {} THEN Answer(<<"error", "not an integer">>)
     ELSE \E n \in nums :
       IF n + delta \in MinInt..MaxInt
       THEN Mutate(c, Put(k, FormatInt(n + delta), at), <<"incr", k, n + delta>>)
       ELSE Answer(<<"error", "overflow">>)

Delete(c) == \E ks \in KeyLists :
  LET live == {k \in Keys : Present(k) /\ \E i \in DOMAIN ks : ks[i] = k}
  IN IF live = {} THEN Answer(<<"del", ks, 0>>)
     ELSE Mutate(c, [k \in Keys |-> IF k \in live THEN Absent ELSE kv[k]],
                 <<"del", ks, Cardinality(live)>>)

\* Any mutation may be refused, with no effect.
Refuse == \E why \in {"draining", "unavailable", "closed"} : Answer(<<"error", why>>)

\* The answer to a mutation that took effect: its own, or an error.
Confirm(c) == /\ pend[c] # NoReply
              /\ pend' = [pend EXCEPT ![c] = NoReply]
              /\ \/ out' = pend[c] /\ acked' = acked \cup {pos[c]}
                 \/ out' = <<"error", "unavailable">> /\ UNCHANGED acked
              /\ UNCHANGED <<up, kv, now, recoverable, pos>>

Read == \/ \E k \in Keys : Answer(<<"get", k, IF Present(k) THEN kv[k].value ELSE Absent>>)
        \/ \E k \in Keys :
             Answer(<<"ttl", k, IF ~Present(k) THEN Absent
                                ELSE IF kv[k].at = NoDeadline THEN NoDeadline
                                ELSE kv[k].at - now>>)
        \/ \E ks \in KeyLists :
             Answer(<<"mget", ks, [i \in DOMAIN ks |-> IF Present(ks[i]) THEN kv[ks[i]].value
                                                                         ELSE Absent]>>)
        \/ \E ks \in KeyLists :
             Answer(<<"exists", ks, Cardinality({i \in DOMAIN ks : Present(ks[i])})>>)
        \/ Answer(<<"keys", {k \in Keys : Present(k)}>>)
        \/ Answer(<<"dbsize", Cardinality({k \in Keys : Present(k)})>>)

Tick == /\ now' = now + 1
        /\ out' = NoReply
        /\ UNCHANGED <<up, acked, pend, pos>>
        /\ kv' = AsOf(kv, now')
        /\ recoverable' = [i \in DOMAIN recoverable |-> AsOf(recoverable[i], now')]

\* The process ends: an unanswered suffix of the mutations may be lost.
Stop == /\ up' = FALSE /\ kv' = Empty /\ out' = NoReply
        /\ pend' = [c \in Callers |-> NoReply] /\ pos' = [c \in Callers |-> 0]
        /\ UNCHANGED <<now, acked>>
        /\ \E n \in 0..Len(recoverable) :
             /\ \A i \in acked : i <= n
             /\ recoverable' = SubSeq(recoverable, 1, n)

Start == /\ ~up /\ up' = TRUE
         /\ kv' = IF recoverable = <<>> THEN Empty ELSE recoverable[Len(recoverable)]
         /\ out' = NoReply
         /\ UNCHANGED <<now, recoverable, acked, pend, pos>>

Forget == out' = NoReply /\ UNCHANGED <<up, kv, now, recoverable, acked, pend, pos>>

Next == \/ Forget \/ Read \/ Refuse \/ Tick \/ Stop \/ Start
        \/ \E c \in Callers : Confirm(c) \/ Set(c) \/ Expire(c) \/ Persist(c)
                                \/ IncrBy(c) \/ Delete(c)

Spec == Init /\ [][Next]_vars
=============================================================================
