----------------------------- MODULE Connection -----------------------------
(***************************************************************************)
(* One connection of internal/server: the command loop of serve over the   *)
(* reader that flushes before it blocks (flush_on_block.go) and the        *)
(* buffered reply writer.  Commands and replies are streams of bytes of    *)
(* which only the count matters: each command and each reply is two bytes  *)
(* long, enough for either to be cut in the middle.  flushEveryReply,      *)
(* which only benchmarks set, is off.                                      *)
(***************************************************************************)
EXTENDS Naturals

CONSTANTS ReplyBufSize, \* of the reply writer, in bytes
          MaxCommands   \* bound on the commands a client sends

ASSUME ReplyBufSizeAssumption == ReplyBufSize \in Nat \ {0, 1} /\ MaxCommands \in Nat

VARIABLES
  pc,         \* where the handler is
  sent,       \* bytes of commands the client has sent
  arrived,    \* of them, taken from the socket by the reader
  hungUp,     \* will the client send no more?
  handled,    \* commands executed
  encoded,    \* bytes of replies given to the writer
  delivered,  \* of them, given to the socket
  failed,     \* connFlusher.failed, or the error that bufio.Writer keeps
  complained, \* was the stream given up with a protocol error?
  panicked,
  draining

streamVars == <<sent, arrived, hungUp, handled, draining>>
vars == <<pc, streamVars, encoded, delivered, failed, complained, panicked>>

Init == /\ pc = "top" /\ sent = 0 /\ arrived = 0 /\ hungUp = FALSE /\ handled = 0
        /\ encoded = 0 /\ delivered = 0 /\ failed = FALSE
        /\ complained = FALSE /\ panicked = FALSE /\ draining = FALSE

----------------------------------------------------------------------------
(***************************************************************************)
(* The world outside: the client and the server's shutdown.                *)
(***************************************************************************)
ClientSends == /\ ~hungUp /\ sent < 2 * MaxCommands /\ sent' = sent + 1
               /\ UNCHANGED <<pc, arrived, hungUp, handled, draining, encoded, delivered,
                              failed, complained, panicked>>

ClientHangsUp == /\ ~hungUp /\ hungUp' = TRUE
                 /\ UNCHANGED <<pc, sent, arrived, handled, draining, encoded, delivered,
                                failed, complained, panicked>>

Drain == /\ ~draining /\ draining' = TRUE
         /\ UNCHANGED <<pc, sent, arrived, hungUp, handled, encoded, delivered, failed,
                        complained, panicked>>

----------------------------------------------------------------------------
(***************************************************************************)
(* The pending replies.                                                    *)
(***************************************************************************)
\* A socket write of the bytes up to "to" delivers all of them, or it fails
\* part-way, which latches.
Deliver(to, next, onError) ==
  \/ delivered' = to /\ pc' = next /\ UNCHANGED failed
  \/ delivered' \in delivered..to - 1 /\ pc' = onError /\ failed' = TRUE

\* connFlusher.flush.
FlushUnlatched(next, onError) == IF encoded = delivered
                                 THEN pc' = next /\ UNCHANGED <<delivered, failed>>
                                 ELSE Deliver(encoded, next, onError)
Flush(next, onError) ==
  IF failed THEN pc' = onError /\ UNCHANGED <<delivered, failed>>
  ELSE IF encoded = delivered THEN pc' = next /\ UNCHANGED <<delivered, failed>>
  ELSE Deliver(encoded, next, onError)

\* A reply is encoded; a writer that is full flushes itself, perhaps in the
\* middle of the reply.
Encode(next) ==
  /\ encoded' = encoded + 2
  /\ IF encoded + 2 - delivered <= ReplyBufSize
     THEN pc' = next /\ UNCHANGED <<delivered, failed>>
     ELSE Deliver(delivered + ReplyBufSize, next, "leave")

----------------------------------------------------------------------------
(***************************************************************************)
(* serve.                                                                  *)
(***************************************************************************)
ServeTop == /\ pc = "top" /\ pc' = IF draining THEN "leave" ELSE "decode"
            /\ UNCHANGED <<streamVars, encoded, delivered, failed, complained, panicked>>

\* ReadCommand, when its buffer holds the rest of a command.
Decode == /\ pc = "decode" /\ arrived >= 2 * handled + 2 /\ pc' = "dispatch"
          /\ UNCHANGED <<streamVars, encoded, delivered, failed, complained, panicked>>

\* What arrived is not a command, or the stream ends inside one.
Malformed == /\ pc = "decode" /\ arrived > 2 * handled /\ pc' = "complain"
             /\ UNCHANGED <<streamVars, encoded, delivered, failed, complained, panicked>>

\* When it does not, flushBeforeRead flushes and then reads.
ReadWhenBuffered ==
  /\ pc = "decode" /\ arrived < 2 * handled + 2
  /\ IF arrived > 2 * handled THEN pc' = "read" /\ UNCHANGED <<delivered, failed>>
     ELSE Flush("read", "leave")
  /\ UNCHANGED <<streamVars, encoded, complained, panicked>>
FlushBeforeRead ==
  /\ pc = "decode" /\ arrived < 2 * handled + 2 /\ Flush("read", "leave")
  /\ UNCHANGED <<streamVars, encoded, complained, panicked>>

SocketRead == /\ pc = "read" /\ arrived' \in arrived + 1..sent /\ pc' = "decode"
              /\ UNCHANGED <<sent, hungUp, handled, draining, encoded, delivered, failed,
                             complained, panicked>>

\* The end of the stream: clean between commands, a protocol error inside one.
ReadEOF == /\ pc = "read" /\ hungUp /\ arrived = sent
           /\ pc' = IF arrived = 2 * handled THEN "leave" ELSE "complain"
           /\ UNCHANGED <<streamVars, encoded, delivered, failed, complained, panicked>>

\* The read deadline passes, because of -timeout or of a shutdown, or the
\* transport fails: nothing is said.
ReadError == /\ pc = "read" /\ pc' = "leave"
             /\ UNCHANGED <<streamVars, encoded, delivered, failed, complained, panicked>>

Dispatch == /\ pc = "dispatch" /\ pc' = "reply" /\ handled' = handled + 1
            /\ UNCHANGED <<sent, arrived, hungUp, draining, encoded, delivered, failed,
                           complained, panicked>>

\* A panic skips serveConn's flush.
DispatchPanics == /\ pc = "dispatch" /\ pc' = "closed" /\ panicked' = TRUE
                  /\ UNCHANGED <<streamVars, encoded, delivered, failed, complained>>

WriteReply == /\ pc = "reply" /\ Encode("top")
              /\ UNCHANGED <<streamVars, complained, panicked>>

\* writeReply gives up inside a reply; serve latches the flusher.
WriteReplyFails == /\ pc = "reply" /\ encoded + 1 - delivered <= ReplyBufSize
                   /\ encoded' = encoded + 1 /\ failed' = TRUE /\ pc' = "leave"
                   /\ UNCHANGED <<streamVars, delivered, complained, panicked>>

\* reportReadError; its flush and the one of serveConn after it are one.
ReportReadError == /\ pc = "complain" /\ complained' = TRUE /\ Encode("leave")
                   /\ UNCHANGED <<streamVars, panicked>>

\* serveConn's own flush, then the connection is closed.
LeaveUnflushed == /\ pc = "leave" /\ pc' = "closed"
                  /\ UNCHANGED <<streamVars, encoded, delivered, failed, complained, panicked>>
Leave == /\ pc = "leave" /\ Flush("closed", "closed")
         /\ UNCHANGED <<streamVars, encoded, complained, panicked>>

Serve == \/ ServeTop \/ Decode \/ Malformed \/ FlushBeforeRead \/ SocketRead \/ ReadEOF
         \/ Dispatch \/ DispatchPanics \/ WriteReply \/ WriteReplyFails
         \/ ReportReadError \/ Leave

Next == ClientSends \/ ClientHangsUp \/ Drain \/ Serve \/ ReadError

\* The handler runs while it can; reads return once there is something to read
\* and writes within the write deadline.  Nothing makes the client send.
Spec == Init /\ [][Next]_vars
FairSpec == Spec /\ WF_vars(Serve)

----------------------------------------------------------------------------
(***************************************************************************)
(* Properties.                                                             *)
(***************************************************************************)
ConnectionTypeOK ==
  /\ pc \in {"top", "decode", "read", "dispatch", "reply", "complain", "leave", "closed"}
  /\ sent \in Nat /\ arrived \in Nat /\ handled \in Nat
  /\ encoded \in Nat /\ delivered \in Nat
  /\ hungUp \in BOOLEAN /\ failed \in BOOLEAN /\ complained \in BOOLEAN
  /\ panicked \in BOOLEAN /\ draining \in BOOLEAN

\* ADR 0006: the handler never blocks in a read while it holds a reply back.  A
\* client that has sent part of a command and waits for the answer to the one
\* before it gets that answer.
NoReplyWithheld == pc = "read" => delivered = 2 * handled

\* Every command that was executed is answered, by the whole of its reply,
\* before the connection is closed, however serve came to return (draining with
\* replies still buffered, the end of the stream, a protocol error, a timeout),
\* unless a write failed or the handler panicked.
ExecutedIsAnswered ==
  pc = "closed" /\ ~failed /\ ~panicked =>
    delivered = 2 * handled + (IF complained THEN 2 ELSE 0)

\* The contract of resp.Writer: after a reply could not be written whole, not
\* one byte more is sent, so that the client never takes the start of another
\* reply for the rest of the broken one.
SilentAfterFailure == [][failed => delivered' = delivered]_vars

\* A command of which every byte has been read is answered even if the client
\* never sends another byte, or the connection is closed.
CommandIsAnswered ==
  \A n \in 1..MaxCommands :
    arrived >= 2 * n ~> delivered >= 2 * n \/ pc = "closed"

----------------------------------------------------------------------------
\* What makes the first two inductive: a writer that has not failed holds, or
\* has delivered, one whole reply for each command executed.
Due == 2 * handled + (IF complained THEN 2 ELSE 0) - (IF pc = "reply" THEN 2 ELSE 0)

ReplyInv ==
  /\ ConnectionTypeOK
  /\ 2 * handled <= arrived /\ arrived <= sent
  /\ pc = "dispatch" => 2 * handled + 2 <= arrived
  /\ pc = "reply" => handled > 0
  /\ delivered <= encoded
  /\ pc \notin {"leave", "closed"} => ~failed /\ ~complained
  /\ panicked => pc = "closed"
  /\ ~failed => encoded = Due
  /\ pc = "read" => delivered = encoded
  /\ pc = "closed" /\ ~failed /\ ~panicked => delivered = encoded
=============================================================================
