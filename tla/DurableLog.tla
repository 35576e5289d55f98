----------------------------- MODULE DurableLog -----------------------------
(***************************************************************************)
(* What the append-only file promises the engine, without buffers, writers *)
(* or files: a sequence of records that grows at its end while the log is  *)
(* open, confirmations of positions in it, and crashes that may drop a     *)
(* suffix, though never one with a confirmed position, and nothing at all  *)
(* once the log was closed without a failure.  Records are kept in the     *)
(* order in which they were accepted, with no gap.                         *)
(***************************************************************************)
EXTENDS Naturals, Sequences

CONSTANT Records

VARIABLES up,      \* is there a process that has opened the log?
          status,  \* "open", "closing", "closed" or "failed"
          hist,    \* the records accepted and not lost
          acked    \* the positions of hist that were confirmed

logVars == <<up, status, hist, acked>>

LogInit == up = FALSE /\ status = "open" /\ hist = <<>> /\ acked = {}

Open == ~up /\ up' = TRUE /\ UNCHANGED <<status, hist, acked>>

Accept(r) == /\ up /\ status = "open"
             /\ hist' = Append(hist, r)
             /\ UNCHANGED <<up, status, acked>>

Confirm(i) == /\ up /\ status # "failed" /\ i \in 1..Len(hist)
              /\ acked' = acked \cup {i}
              /\ UNCHANGED <<up, status, hist>>

Becomes(s) == up /\ status' = s /\ UNCHANGED <<up, hist, acked>>

Fails == status \in {"open", "closing"} /\ Becomes("failed")
BeginClose == status = "open" /\ Becomes("closing")
EndClose == status = "closing" /\ Becomes("closed")

Crash == /\ \E n \in 0..Len(hist) :
              /\ \A i \in acked : i <= n
              /\ status = "closed" => n = Len(hist)
              /\ hist' = SubSeq(hist, 1, n)
         /\ up' = FALSE /\ status' = "open"
         /\ UNCHANGED acked

LogNext == \/ Open \/ Fails \/ BeginClose \/ EndClose \/ Crash
           \/ \E r \in Records : Accept(r)
           \/ \E i \in 1..Len(hist) : Confirm(i)

LogSpec == LogInit /\ [][LogNext]_logVars
=============================================================================
