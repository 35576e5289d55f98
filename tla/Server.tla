------------------------------- MODULE Server -------------------------------
(***************************************************************************)
(* The life of the server of internal/server: the accept loop, one handler *)
(* goroutine per connection, the supervisor, and the lifecycle goroutine   *)
(* with its two ways to shut down.  It composes them with the log, of      *)
(* which it uses what DurableLog says, and with what the engine keeps for  *)
(* them: the admission gate and whether any scan session is retained.      *)
(* Persistence is on.  What goes over a connection is module Connection's. *)
(***************************************************************************)
EXTENDS DurableLog, FiniteSets

CONSTANTS Conns,        \* connections; one is used again after it was closed
          MaxClients,
          ReadTimeout,  \* is -timeout set?
          MaxHist       \* bound on the records in the log

ASSUME ConnsAssumption == IsFiniteSet(Conns)
ASSUME MaxClientsAssumption == MaxClients \in Nat /\ MaxHist \in Nat
ASSUME ReadTimeoutAssumption == ReadTimeout \in BOOLEAN

VARIABLES
  phase,      \* where the lifecycle goroutine (RunWithReady) is
  path,       \* "none", "graceful" or "fatal"
  waited,     \* has wg.Wait returned in the first waitConns?
  drained,    \* what that waitConns reported
  result,     \* what RunWithReady returns: "none" (yet), "nil", "fatal", "timeout", "error"
  listening,
  accepter,   \* where the accept loop is
  incoming,   \* the connection it is admitting, as a set of at most one
  conns, nClient,
  wg,         \* the counter of the WaitGroup
  draining,   \* is the channel closed?
  accepting,  \* the engine's admission gate
  fired,      \* was a fatal condition reported?
  sessions,   \* does the engine retain any scan session?
  hpc,        \* per connection: where its handler is
  deadline,   \* per connection: its read deadline, "none", "future" or "passed"
  shut,       \* the connections the server has closed
  pos         \* per connection: the position of its mutation in the log

lifeVars == <<phase, path, waited, drained, result>>
acceptVars == <<listening, accepter, incoming>>
admitVars == <<conns, nClient>>
gateVars == <<draining, accepting>>
connVars == <<hpc, deadline, shut, pos>>
serverVars == <<logVars, lifeVars, acceptVars, admitVars, wg, gateVars, fired, sessions,
                connVars>>

ServerInit ==
  /\ LogInit
  /\ phase = "starting" /\ path = "none" /\ waited = FALSE /\ drained = FALSE
  /\ result = "none"
  /\ listening = FALSE /\ accepter = "off" /\ incoming = {}
  /\ conns = {} /\ nClient = 0 /\ wg = 0
  /\ draining = FALSE /\ accepting = TRUE /\ fired = FALSE /\ sessions = FALSE
  /\ hpc = [c \in Conns |-> "none"] /\ deadline = [c \in Conns |-> "none"]
  /\ shut = {} /\ pos = [c \in Conns |-> 0]

----------------------------------------------------------------------------
(***************************************************************************)
(* The accept loop.                                                        *)
(***************************************************************************)
AcceptLoop == UNCHANGED <<logVars, lifeVars, listening, gateVars, fired, sessions, pos>>

\* A socket the server is not using any more may be handed out again.
Accepts(c) ==
  /\ accepter = "accept" /\ listening /\ hpc[c] = "none"
  /\ accepter' = "admit" /\ incoming' = {c}
  /\ deadline' = [deadline EXCEPT ![c] = "none"] /\ shut' = shut \ {c}
  /\ UNCHANGED <<admitVars, wg, hpc>> /\ AcceptLoop

\* Accept fails: the listener was closed, or it reports any other error.
AcceptFails ==
  /\ accepter = "accept" /\ accepter' = "done"
  /\ UNCHANGED <<incoming, admitVars, wg, hpc, deadline, shut>> /\ AcceptLoop

AdmitOneMore(c) ==
  /\ accepter = "admit" /\ incoming = {c}
  /\ IF nClient > MaxClients
     THEN accepter' = "accept" /\ incoming' = {} /\ shut' = shut \cup {c} /\ UNCHANGED admitVars
     ELSE accepter' = "spawn" /\ nClient' = nClient + 1 /\ conns' = conns \cup {c}
            /\ UNCHANGED <<incoming, shut>>
  /\ UNCHANGED <<wg, hpc, deadline>> /\ AcceptLoop
Admit(c) ==
  /\ accepter = "admit" /\ incoming = {c}
  /\ IF nClient >= MaxClients
     THEN accepter' = "accept" /\ incoming' = {} /\ shut' = shut \cup {c} /\ UNCHANGED admitVars
     ELSE accepter' = "spawn" /\ nClient' = nClient + 1 /\ conns' = conns \cup {c}
            /\ UNCHANGED <<incoming, shut>>
  /\ UNCHANGED <<wg, hpc, deadline>> /\ AcceptLoop

Spawn(c) ==
  /\ accepter = "spawn" /\ incoming = {c}
  /\ wg' = wg + 1 /\ hpc' = [hpc EXCEPT ![c] = "top"]
  /\ accepter' = "accept" /\ incoming' = {}
  /\ UNCHANGED <<admitVars, deadline, shut>> /\ AcceptLoop

----------------------------------------------------------------------------
(***************************************************************************)
(* A handler: the loop of serve, and the deferred calls of handleConn.     *)
(***************************************************************************)
Goes(c, from, to) == /\ hpc[c] = from /\ hpc' = [hpc EXCEPT ![c] = to]
                     /\ UNCHANGED <<lifeVars, acceptVars, gateVars>>

ServeTop(c) ==
  /\ Goes(c, "top", IF draining THEN "release" ELSE "deadline")
  /\ UNCHANGED <<logVars, admitVars, wg, fired, sessions, deadline, shut, pos>>

SetReadDeadline(c) ==
  /\ Goes(c, "deadline", "read")
  /\ deadline' = [deadline EXCEPT ![c] = IF ReadTimeout THEN "future" ELSE "none"]
  /\ UNCHANGED <<logVars, admitVars, wg, fired, sessions, shut, pos>>

\* ReadCommand returns a command.  One that is in the reader's buffer already
\* is returned even if the deadline has passed or the socket is closed.
ReadsCommand(c) ==
  /\ Goes(c, "read", "dispatch")
  /\ UNCHANGED <<logVars, admitVars, wg, fired, sessions, deadline, shut, pos>>

\* It returns an error: the client hung up or broke the protocol, ...
ReadFails(c) ==
  /\ Goes(c, "read", "release")
  /\ UNCHANGED <<logVars, admitVars, wg, fired, sessions, deadline, shut, pos>>

\* ... or the deadline has passed, or the socket is closed.
Unblocked(c) == c \in shut \/ deadline[c] # "none"
ReadUnblocks(c) == Unblocked(c) /\ ReadFails(c)

\* Dispatch of a command that changes nothing here.
DispatchRead(c) ==
  /\ Goes(c, "dispatch", "reply")
  /\ UNCHANGED <<logVars, admitVars, wg, fired, sessions, deadline, shut, pos>>

\* SCAN starts a session, goes on with one, or ends the last one.
DispatchScan(c) ==
  /\ Goes(c, "dispatch", "reply") /\ sessions' \in BOOLEAN
  /\ UNCHANGED <<logVars, admitVars, wg, fired, deadline, shut, pos>>

\* A mutation passes the gate and the log (and its caller then waits), or it is
\* refused by one of them.
DispatchMutation(c) ==
  IF accepting /\ status = "open"
  THEN /\ Len(hist) < MaxHist /\ \E r \in Records : Accept(r)
       /\ pos' = [pos EXCEPT ![c] = Len(hist) + 1]
       /\ Goes(c, "dispatch", "await")
       /\ UNCHANGED <<admitVars, wg, fired, sessions, deadline, shut>>
  ELSE DispatchRead(c)

AwaitReturns(c) ==
  /\ Goes(c, "await", "reply")
  /\ Confirm(pos[c]) \/ (status = "failed" /\ UNCHANGED logVars)
  /\ UNCHANGED <<admitVars, wg, fired, sessions, deadline, shut, pos>>

\* A panic in the commit path is reported (guard) before recoverConn sees it;
\* any other panic only ends the connection.
DispatchPanics(c) ==
  /\ Goes(c, "dispatch", "release") /\ fired' \in {fired, TRUE}
  /\ UNCHANGED <<logVars, admitVars, wg, sessions, deadline, shut, pos>>

\* writeReply, which may fail; serveConn's flush goes with the way out.
WriteReply(c) ==
  /\ \E to \in {"top", "release"} : Goes(c, "reply", to)
  /\ UNCHANGED <<logVars, admitVars, wg, fired, sessions, deadline, shut, pos>>

\* releaseConn: the registry under s.mu, then the sessions, then the socket.
ReleaseKeepsSessions(c) ==
  /\ Goes(c, "release", "close")
  /\ conns' = conns \ {c} /\ nClient' = nClient - 1
  /\ UNCHANGED <<logVars, wg, fired, sessions, deadline, shut, pos>>
Release(c) ==
  /\ Goes(c, "release", IF nClient = 1 /\ draining THEN "clear" ELSE "close")
  /\ conns' = conns \ {c} /\ nClient' = nClient - 1
  /\ UNCHANGED <<logVars, wg, fired, sessions, deadline, shut, pos>>

LastClears(c) ==
  /\ Goes(c, "clear", "close") /\ sessions' = FALSE
  /\ UNCHANGED <<logVars, admitVars, wg, fired, deadline, shut, pos>>

\* conn.Close, and wg.Done as the goroutine ends.
HandlerEnds(c) ==
  /\ Goes(c, "close", "none") /\ shut' = shut \cup {c} /\ wg' = wg - 1
  /\ UNCHANGED <<logVars, admitVars, fired, sessions, deadline, pos>>

----------------------------------------------------------------------------
(***************************************************************************)
(* The lifecycle goroutine.                                                *)
(***************************************************************************)
Enters(from, to) == /\ phase = from /\ phase' = to
                    /\ UNCHANGED <<incoming, admitVars, wg, hpc, pos>>

\* run in main: recovery first, then the listener.
Start ==
  /\ Enters("starting", "serving") /\ Open
  /\ listening' = TRUE /\ accepter' = "accept"
  /\ UNCHANGED <<path, waited, drained, result, gateVars, fired, sessions, deadline, shut>>

\* The log cannot be recovered, or it is open and the listener cannot be bound.
StartFails ==
  /\ Enters("starting", "returned") /\ result' = "error"
  /\ Open \/ UNCHANGED logVars
  /\ UNCHANGED <<path, waited, drained, listening, accepter, gateVars, fired,
                 sessions, deadline, shut>>

\* The select of RunWithReady.
Stops(how) ==
  /\ Enters("serving", "closeListener") /\ path' = how
  /\ result' = IF how = "fatal" THEN "fatal" ELSE "none"
  /\ UNCHANGED <<logVars, waited, drained, listening, accepter, gateVars, fired, sessions,
                 deadline, shut>>

CtxDone == Stops("graceful")
SupDone == fired /\ Stops("fatal")

\* Both paths stop the expiration worker around here; see module Engine.
CloseListener ==
  /\ Enters("closeListener", "beginDrain") /\ listening' = FALSE
  /\ UNCHANGED <<logVars, path, waited, drained, result, accepter, gateVars, fired,
                 sessions, deadline, shut>>

BeginDrain ==
  /\ Enters("beginDrain", "closeDraining") /\ accepting' = FALSE
  /\ UNCHANGED <<logVars, path, waited, drained, result, listening, accepter, draining,
                 fired, sessions, deadline, shut>>

CloseDraining ==
  /\ Enters("closeDraining", IF path = "graceful" THEN "sweep" ELSE "closeAll")
  /\ draining' = TRUE
  /\ UNCHANGED <<logVars, path, waited, drained, result, listening, accepter, accepting,
                 fired, sessions, deadline, shut>>

\* An immediate read deadline for every registered connection.
SweepDeadlines ==
  /\ Enters("sweep", "drain")
  /\ deadline' = [c \in Conns |-> IF c \in conns THEN "passed" ELSE deadline[c]]
  /\ UNCHANGED <<logVars, path, waited, drained, result, listening, accepter, gateVars,
                 fired, sessions, shut>>

\* waitConns: the goroutine in wg.Wait, and the select that it, a fatal
\* condition or the timer ends.
WaitReturns ==
  /\ phase = "drain" /\ wg = 0 /\ ~waited /\ waited' = TRUE
  /\ UNCHANGED <<logVars, phase, path, drained, result, acceptVars, admitVars, wg, gateVars,
                 fired, sessions, connVars>>

WaitConnsUntimed ==
  /\ Enters("drain", "finalize") /\ (waited \/ fired)
  /\ drained' \in {FALSE, waited}
  /\ UNCHANGED <<logVars, path, waited, result, listening, accepter, gateVars, fired,
                 sessions, deadline, shut>>
WaitConns ==
  /\ Enters("drain", "finalize")
  /\ drained' \in {FALSE, waited}
  /\ UNCHANGED <<logVars, path, waited, result, listening, accepter, gateVars, fired,
                 sessions, deadline, shut>>

\* Finalize: Close of the log, which returns when the log is closed, with the
\* error of a log that failed, or when the context expires.
FinalizeBegins ==
  /\ Enters("finalize", "finalizing")
  /\ IF status = "open" THEN BeginClose ELSE UNCHANGED logVars
  /\ UNCHANGED <<path, waited, drained, result, listening, accepter, gateVars, fired,
                 sessions, deadline, shut>>

FinalizeSilent ==
  /\ Enters("finalizing", "outcome") /\ UNCHANGED fired
  /\ UNCHANGED <<logVars, path, waited, drained, result, listening, accepter, gateVars,
                 sessions, deadline, shut>>
FinalizeReturns ==
  /\ Enters("finalizing", "outcome")
  /\ fired' \in {b \in BOOLEAN : (b = fired /\ status = "closed") \/ (b /\ status # "open")}
  /\ UNCHANGED <<logVars, path, waited, drained, result, listening, accepter, gateVars,
                 sessions, deadline, shut>>

Outcome ==
  /\ Enters("outcome", IF ~fired /\ drained THEN "clearSessions" ELSE "closeAll")
  /\ result' = IF fired THEN "fatal" ELSE IF drained THEN "nil" ELSE "timeout"
  /\ UNCHANGED <<logVars, path, waited, drained, listening, accepter, gateVars, fired,
                 sessions, deadline, shut>>

CloseNoConns ==
  /\ Enters("closeAll", "lastWait")
  /\ UNCHANGED <<logVars, path, waited, drained, result, listening, accepter, gateVars,
                 fired, sessions, deadline, shut>>
CloseAllConns ==
  /\ Enters("closeAll", "lastWait") /\ shut' = shut \cup conns
  /\ UNCHANGED <<logVars, path, waited, drained, result, listening, accepter, gateVars,
                 fired, sessions, deadline>>

\* The second waitConns, of two seconds at most, whose answer nobody uses.
LastWait ==
  /\ Enters("lastWait", "clearSessions")
  /\ UNCHANGED <<logVars, path, waited, drained, result, listening, accepter, gateVars,
                 fired, sessions, deadline, shut>>

ClearSessions ==
  /\ Enters("clearSessions", "returned") /\ sessions' = FALSE
  /\ UNCHANGED <<logVars, path, waited, drained, result, listening, accepter, gateVars,
                 fired, deadline, shut>>

----------------------------------------------------------------------------
(***************************************************************************)
(* The writer goroutine of the log.                                        *)
(***************************************************************************)
LogStep == UNCHANGED <<lifeVars, acceptVars, admitVars, wg, gateVars, sessions, connVars>>

LogFails == Fails /\ UNCHANGED fired /\ LogStep
LogReports == status = "failed" /\ ~fired /\ fired' = TRUE /\ UNCHANGED logVars /\ LogStep
LogCloses == EndClose /\ UNCHANGED fired /\ LogStep

HandlerStep(c) == \/ ServeTop(c) \/ SetReadDeadline(c) \/ ReadUnblocks(c)
                  \/ DispatchRead(c) \/ DispatchScan(c) \/ DispatchMutation(c)
                  \/ DispatchPanics(c) \/ AwaitReturns(c) \/ WriteReply(c)
                  \/ Release(c) \/ LastClears(c) \/ HandlerEnds(c)

LifeStep == \/ CloseListener \/ BeginDrain \/ CloseDraining \/ SweepDeadlines
            \/ WaitConns \/ FinalizeBegins \/ FinalizeReturns
            \/ Outcome \/ CloseAllConns \/ LastWait \/ ClearSessions

AdmitStep(c) == Admit(c) \/ Spawn(c)

ServerNext ==
  \/ Start \/ StartFails \/ CtxDone \/ SupDone \/ LifeStep \/ WaitReturns
  \/ AcceptFails \/ LogFails \/ LogReports \/ LogCloses
  \/ \E c \in Conns : Accepts(c) \/ AdmitStep(c) \/ HandlerStep(c)
                        \/ ReadsCommand(c) \/ ReadFails(c)

ServerSpec == ServerInit /\ [][ServerNext]_serverVars

\* Runnable goroutines run; the log confirms or fails (AwaitAlwaysReturns of
\* module Log) and reports its failure (FailureIsReported); timers fire, so that
\* no wait of the lifecycle goroutine is unbounded.  Nothing makes a client
\* send a command, hang up or connect, or the operator send a signal.
ServerFairness == /\ WF_serverVars(LifeStep) /\ WF_serverVars(SupDone)
                  /\ WF_serverVars(LogReports)
                  /\ \A c \in Conns : WF_serverVars(HandlerStep(c)) /\ WF_serverVars(AdmitStep(c))

FairServerSpec == ServerSpec /\ ServerFairness

----------------------------------------------------------------------------
(***************************************************************************)
(* Properties.                                                             *)
(***************************************************************************)
\* Types.
FlagsOK ==
  /\ waited \in BOOLEAN /\ drained \in BOOLEAN /\ listening \in BOOLEAN
  /\ draining \in BOOLEAN /\ accepting \in BOOLEAN /\ fired \in BOOLEAN
  /\ sessions \in BOOLEAN
ServerTypeOK ==
  /\ phase \in {"starting", "serving", "closeListener", "beginDrain", "closeDraining",
                "sweep", "drain", "finalize", "finalizing", "outcome", "closeAll",
                "lastWait", "clearSessions", "returned"}
  /\ path \in {"none", "graceful", "fatal"}
  /\ result \in {"none", "nil", "fatal", "timeout", "error"}
  /\ accepter \in {"off", "accept", "admit", "spawn", "done"}
  /\ incoming \subseteq Conns /\ conns \subseteq Conns /\ shut \subseteq Conns
  /\ FlagsOK /\ nClient \in Nat /\ wg \in Nat
  /\ hpc \in [Conns -> {"none", "top", "deadline", "read", "dispatch", "await", "reply",
                        "release", "clear", "close"}]
  /\ deadline \in [Conns -> {"none", "future", "passed"}]
  /\ pos \in [Conns -> 0..MaxHist]

\* The handlers that have not ended, and those of them that may still touch the
\* engine or their client.
Active == {c \in Conns : hpc[c] # "none"}
Serving == {c \in Conns : hpc[c] \notin {"none", "clear", "close"}}

\* admit and releaseConn keep the registry exact: it counts what it holds, never
\* more than MaxClients, and every handler that serves is in it, so that the
\* deadline sweep and closeAllConns miss none of them; the WaitGroup counts
\* every handler until it has ended.
RegistryCoversHandlers ==
  /\ nClient = Cardinality(conns) /\ nClient <= MaxClients
  /\ Serving \subseteq conns
  /\ conns \ Serving \subseteq (IF accepter = "spawn" THEN incoming ELSE {})
  /\ wg = Cardinality(Active)

\* RunWithReady returns nil only after a shutdown that lost nothing: the log is
\* closed without a failure, no handler is between reading a command and
\* answering it (one admitted after the wait finds the server draining), and no
\* fatal condition was reported, nor is any reported later.
CleanExitIsComplete ==
  result = "nil" => /\ status = "closed" /\ ~fired
                    /\ \A c \in Serving : hpc[c] \in {"top", "release"}

\* The comment in releaseConn: a handler may outlive the shutdown and create a
\* session after the lifecycle goroutine cleared them; the last handler closes
\* that gap.  Once shutdown has returned and every handler has left the registry,
\* no session is retained.
NoSessionOutlivesServer ==
  phase = "returned" /\ conns = {} /\ (\A c \in Conns : hpc[c] # "clear") => ~sessions

\* What the three invariants above need to be inductive: only the accept loop
\* holds a connection without a handler; after the gate has closed the server is
\* draining; once wg.Wait has returned no handler is at work any more, though
\* late ones still come and go; and the outcome of Finalize stands.
AdmissionInv ==
  /\ accepter \in {"admit", "spawn"} => \E c \in Conns : incoming = {c} /\ hpc[c] = "none"
  /\ accepter \in {"off", "accept", "done"} => incoming = {}
  /\ accepter = "spawn" => incoming \subseteq conns
  /\ accepter = "off" => conns = {} /\ ~sessions
  /\ phase = "starting" \/ result = "error" => accepter = "off"
DrainInv ==
  /\ phase \in {"sweep", "drain", "finalize", "finalizing", "outcome", "closeAll", "lastWait",
                "clearSessions", "returned"} => draining \/ result = "error"
  /\ result = "error" => phase = "returned"
  /\ waited => draining
  /\ waited => \A c \in Conns : hpc[c] \in {"none", "top", "release", "clear", "close"}
  /\ drained => waited
OutcomeInv ==
  /\ phase = "outcome" /\ ~fired => status = "closed"
  /\ result = "nil" => /\ phase \in {"clearSessions", "returned"}
                       /\ drained /\ ~fired /\ status = "closed"
\* Shutdown is coherent at every step of every goroutine: RunWithReady's phase
\* agrees with the gate, the registry, the WaitGroup, the log's status and the
\* handlers that are left.  It is inductive, and the three invariants follow.
ServerInv ==
  /\ ServerTypeOK /\ hist \in Seq(Records)
  /\ RegistryCoversHandlers /\ AdmissionInv /\ DrainInv /\ OutcomeInv
  /\ NoSessionOutlivesServer

\* Shutdown, once begun, comes to its end whatever the clients do, and a fatal
\* condition reported from any goroutine at any time ends the server.
ShutdownEnds == path # "none" \/ fired ~> phase = "returned"

\* After shutdown every handler leaves, and none comes after it: nobody is left
\* blocked in a read, in Await or on the way in.
HandlersEnd == phase = "returned" ~> [](\A c \in Conns : hpc[c] = "none")

\* docs/architecture.md: "Idle clients do not block shutdown: their parked reads
\* are released by setting an immediate read deadline."
IdleReadsAreReleased ==
  phase \in {"drain", "finalize", "finalizing", "outcome"} =>
    \A c \in Conns : hpc[c] = "read" => Unblocked(c)
=============================================================================
