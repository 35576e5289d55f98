---------------------------- MODULE ServerProofs ----------------------------
(***************************************************************************)
(* Proofs about the life of the server, for any finite set of connections, *)
(* any number of clients and any log.                                      *)
(***************************************************************************)
EXTENDS Server, FiniteSetTheorems, TLAPS

\* The four kinds of goroutines.
Lifecycle == Start \/ StartFails \/ CtxDone \/ SupDone \/ LifeStep \/ WaitReturns
Logging == LogFails \/ LogReports \/ LogCloses
Admitting(c) == Accepts(c) \/ Admit(c) \/ Spawn(c)
Handling(c) == HandlerStep(c) \/ ReadsCommand(c) \/ ReadFails(c)

\* Every step is of one of the goroutines.
LEMMA StepKinds ==
  ASSUME [ServerNext]_serverVars
  PROVE  \/ Lifecycle \/ Logging \/ AcceptFails \/ UNCHANGED serverVars
         \/ \E c \in Conns : Admitting(c) \/ Handling(c)
  BY DEF ServerNext, Lifecycle, Logging, Admitting, AdmitStep, Handling

\* Every set of connections is finite and has a size.
LEMMA ConnsFinite ==
  ASSUME NEW S \in SUBSET Conns
  PROVE  IsFiniteSet(S) /\ Cardinality(S) \in Nat
  BY ConnsAssumption, FS_Subset, FS_CardinalityType

----------------------------------------------------------------------------
(***************************************************************************)
(* What each kind of goroutine leaves alone.                               *)
(***************************************************************************)
\* The lifecycle goroutine changes neither the registry nor a handler.
LEMMA LifecycleFrame ==
  ASSUME Lifecycle
  PROVE  UNCHANGED <<incoming, conns, nClient, wg, hpc, pos, hist>>
<1>1. CASE Start \/ StartFails
  BY <1>1 DEF Start, StartFails, Enters, admitVars, Open, logVars
<1>2. CASE CtxDone \/ SupDone
  BY <1>2 DEF CtxDone, SupDone, Stops, Enters, admitVars, logVars
<1>3. CASE CloseListener \/ BeginDrain \/ CloseDraining \/ SweepDeadlines \/ WaitConns
  BY Zenon, <1>3 DEF CloseListener, BeginDrain, CloseDraining, SweepDeadlines, WaitConns, Enters,
              admitVars, logVars
<1>4. CASE FinalizeBegins
  BY <1>4 DEF FinalizeBegins, Enters, admitVars, logVars, BeginClose, Becomes
<1>5. CASE FinalizeReturns \/ Outcome \/ CloseAllConns \/ LastWait \/ ClearSessions
  BY <1>5 DEF FinalizeReturns, Outcome, CloseAllConns, LastWait, ClearSessions, Enters,
              admitVars, logVars
<1>6. CASE WaitReturns
  BY <1>6 DEF WaitReturns, acceptVars, admitVars, connVars, logVars
<1> QED
  BY <1>1, <1>2, <1>3, <1>4, <1>5, <1>6 DEF Lifecycle, LifeStep

\* The log changes its status, though not once it is closed, and reports only a failure.
LEMMA LogFrame ==
  ASSUME Logging
  PROVE  /\ UNCHANGED <<lifeVars, acceptVars, admitVars, wg, gateVars, sessions, connVars, hist>>
         /\ status = "closed" => UNCHANGED <<status, fired>>
         /\ fired' \in {fired, TRUE}
  BY Zenon DEF Logging, LogFails, LogReports, LogCloses, LogStep, Fails, EndClose, Becomes, logVars

\* The accept loop starts handlers and does nothing else to them.
LEMMA AcceptFrame ==
  ASSUME NEW c \in Conns, Admitting(c)
  PROVE  /\ UNCHANGED <<logVars, lifeVars, listening, gateVars, fired, sessions, pos>>
         /\ hpc' \in {hpc, [hpc EXCEPT ![c] = "top"]}
  BY DEF Admitting, Accepts, Admit, Spawn, AcceptLoop

\* What one step of a handler may do.
Moves(c, to) ==
  /\ hpc[c] # "none" /\ hpc' = [hpc EXCEPT ![c] = to]
  /\ UNCHANGED <<lifeVars, acceptVars, gateVars, status>>
Works(c) ==
  \E to \in {"top", "deadline", "read", "dispatch", "await", "reply", "release"} :
    /\ Moves(c, to) /\ hpc[c] \notin {"release", "clear", "close"}
    /\ draining /\ hpc[c] = "top" => to = "release"
    /\ UNCHANGED <<admitVars, wg>>
    /\ hpc[c] # "dispatch" => UNCHANGED <<fired, sessions>>

\* What a handler leaves alone.
LEMMA HandlerFrame ==
  ASSUME NEW c \in Conns, Handling(c)
  PROVE  Works(c) \/ Release(c) \/ LastClears(c) \/ HandlerEnds(c)
<1>1. CASE ServeTop(c)
  BY Zenon, <1>1 DEF ServeTop, Goes, Works, Moves, logVars
<1>2. CASE SetReadDeadline(c)
  BY <1>2 DEF SetReadDeadline, Goes, Works, Moves, logVars
<1>3. CASE ReadFails(c) \/ ReadUnblocks(c)
  BY <1>3 DEF ReadFails, ReadUnblocks, Goes, Works, Moves, logVars
<1>4. CASE ReadsCommand(c)
  BY <1>4 DEF ReadsCommand, Goes, Works, Moves, logVars
<1>5. CASE DispatchRead(c)
  BY <1>5 DEF DispatchRead, Goes, Works, Moves, logVars
<1>6. CASE DispatchScan(c)
  BY <1>6 DEF DispatchScan, Goes, Works, Moves, logVars
<1>7. CASE DispatchMutation(c)
  BY <1>7 DEF DispatchMutation, DispatchRead, Accept, Goes, Works, Moves, logVars
<1>8. CASE DispatchPanics(c)
  BY <1>8 DEF DispatchPanics, Goes, Works, Moves, logVars
<1>9. CASE AwaitReturns(c)
  BY <1>9 DEF AwaitReturns, Confirm, Goes, Works, Moves, logVars
<1>10. CASE WriteReply(c)
  BY Zenon, <1>10 DEF WriteReply, Goes, Works, Moves, logVars
<1> QED
  BY <1>1, <1>2, <1>3, <1>4, <1>5, <1>6, <1>7, <1>8, <1>9, <1>10 DEF Handling, HandlerStep

----------------------------------------------------------------------------
(***************************************************************************)
(* Types.                                                                  *)
(***************************************************************************)
LEMMA LifecycleFlags == ASSUME FlagsOK, Lifecycle PROVE FlagsOK'
<1>1. CASE Start
  BY <1>1 DEF FlagsOK, Start, gateVars
<1>2. CASE StartFails \/ CtxDone \/ SupDone
  BY <1>2 DEF FlagsOK, StartFails, CtxDone, SupDone, Stops, gateVars
<1>3. CASE CloseListener
  BY Zenon, <1>3 DEF FlagsOK, CloseListener, gateVars
<1>4. CASE BeginDrain
  BY Zenon, <1>4 DEF FlagsOK, BeginDrain
<1>5. CASE CloseDraining
  BY Zenon, <1>5 DEF FlagsOK, CloseDraining
<1>6. CASE SweepDeadlines
  BY Zenon, <1>6 DEF FlagsOK, SweepDeadlines, gateVars
<1>7. CASE WaitConns
  BY Zenon, <1>7 DEF FlagsOK, WaitConns, gateVars
<1>8. CASE FinalizeBegins
  BY Zenon, <1>8 DEF FlagsOK, FinalizeBegins, gateVars
<1>9. CASE FinalizeReturns
  BY Zenon, <1>9 DEF FlagsOK, FinalizeReturns, gateVars
<1>10. CASE Outcome \/ CloseAllConns \/ LastWait
  BY Zenon, <1>10 DEF FlagsOK, Outcome, CloseAllConns, LastWait, gateVars
<1>11. CASE ClearSessions
  BY Zenon, <1>11 DEF FlagsOK, ClearSessions, gateVars
<1>12. CASE WaitReturns
  BY Zenon, <1>12 DEF FlagsOK, WaitReturns, acceptVars, gateVars
<1> QED
  BY <1>1, <1>2, <1>3, <1>4, <1>5, <1>6, <1>7, <1>8, <1>9, <1>10, <1>11, <1>12
     DEF Lifecycle, LifeStep

\* A handler keeps the flags Boolean.
LEMMA HandlerFlags == ASSUME FlagsOK, NEW c \in Conns, Handling(c) PROVE FlagsOK'
<1>1. UNCHANGED <<lifeVars, acceptVars, gateVars>>
  BY Zenon, HandlerFrame DEF Works, Moves, Release, LastClears, HandlerEnds, Goes
<1>2. fired' \in BOOLEAN /\ sessions' \in BOOLEAN
  <2>1. CASE DispatchScan(c) \/ DispatchPanics(c) \/ LastClears(c)
    BY Zenon, <2>1 DEF FlagsOK, DispatchScan, DispatchPanics, LastClears
  <2>2. CASE DispatchMutation(c) \/ DispatchRead(c) \/ AwaitReturns(c) \/ WriteReply(c)
    BY Zenon, <2>2 DEF FlagsOK, DispatchMutation, DispatchRead, AwaitReturns, WriteReply
  <2>3. CASE ServeTop(c) \/ SetReadDeadline(c) \/ ReadUnblocks(c) \/ ReadsCommand(c) \/ ReadFails(c)
    BY Zenon, <2>3 DEF FlagsOK, ServeTop, SetReadDeadline, ReadUnblocks, ReadsCommand, ReadFails
  <2>4. CASE Release(c) \/ HandlerEnds(c)
    BY Zenon, <2>4 DEF FlagsOK, Release, HandlerEnds
  <2> QED
    BY <2>1, <2>2, <2>3, <2>4 DEF Handling, HandlerStep
<1> QED
  BY Zenon, <1>1, <1>2 DEF FlagsOK, lifeVars, acceptVars, gateVars

\* The lifecycle goroutine keeps the types,
LEMMA LifecycleTypes == ASSUME ServerTypeOK, Lifecycle PROVE ServerTypeOK'
<1>1. UNCHANGED <<incoming, conns, nClient, wg, hpc, pos>> /\ FlagsOK'
  BY LifecycleFrame, LifecycleFlags DEF ServerTypeOK
<1>2. CASE Start \/ StartFails
  BY <1>1, <1>2 DEF ServerTypeOK, Start, StartFails, Enters
<1>3. CASE CtxDone \/ SupDone
  BY <1>1, <1>3 DEF ServerTypeOK, CtxDone, SupDone, Stops, Enters
<1>4. CASE CloseListener \/ BeginDrain \/ CloseDraining \/ WaitConns
  BY Zenon, <1>1, <1>4 DEF ServerTypeOK, CloseListener, BeginDrain, CloseDraining, WaitConns, Enters
<1>5. CASE SweepDeadlines
  BY <1>1, <1>5 DEF ServerTypeOK, SweepDeadlines, Enters
<1>6. CASE FinalizeBegins \/ FinalizeReturns \/ Outcome
  BY <1>1, <1>6 DEF ServerTypeOK, FinalizeBegins, FinalizeReturns, Outcome, Enters
<1>7. CASE CloseAllConns \/ LastWait \/ ClearSessions
  BY <1>1, <1>7 DEF ServerTypeOK, CloseAllConns, LastWait, ClearSessions, Enters
<1>8. CASE WaitReturns
  BY <1>1, <1>8 DEF ServerTypeOK, WaitReturns, acceptVars, connVars
<1> QED
  BY <1>2, <1>3, <1>4, <1>5, <1>6, <1>7, <1>8 DEF Lifecycle, LifeStep

\* A handler on its way out is counted.
LEMMA Counted ==
  ASSUME ServerTypeOK, RegistryCoversHandlers, NEW c \in Conns, hpc[c] # "none"
  PROVE  wg >= 1 /\ (hpc[c] \notin {"clear", "close"} => nClient >= 1)
<1>1. IsFiniteSet(Active) /\ Cardinality(Active) \in Nat /\ c \in Active
  BY ConnsFinite DEF Active
<1>2. IsFiniteSet(conns) /\ Cardinality(conns) \in Nat
  BY ConnsFinite DEF ServerTypeOK
<1>3. wg = Cardinality(Active) /\ nClient = Cardinality(conns)
  BY DEF RegistryCoversHandlers
<1>4. hpc[c] \notin {"clear", "close"} => c \in conns
  BY DEF RegistryCoversHandlers, Serving
<1> QED
  BY <1>1, <1>2, <1>3, <1>4, FS_EmptySet

\* a handler too,
LEMMA HandlerTypes ==
  ASSUME ServerTypeOK, RegistryCoversHandlers, hist \in Seq(Records), NEW c \in Conns, Handling(c)
  PROVE  ServerTypeOK' /\ hist' \in Seq(Records)
<1>1. UNCHANGED <<lifeVars, acceptVars>> /\ FlagsOK'
  BY Zenon, HandlerFrame, HandlerFlags DEF Works, Moves, Release, LastClears, HandlerEnds, Goes, ServerTypeOK
<1>2. CASE Works(c)
  <2>1. UNCHANGED <<conns, nClient, wg>>
    BY <1>2 DEF Works, admitVars
  <2>2. hpc' \in [Conns -> {"none", "top", "deadline", "read", "dispatch", "await", "reply",
                            "release", "clear", "close"}]
    BY <1>2 DEF Works, Moves, ServerTypeOK
  <2>3. /\ shut' \subseteq Conns /\ deadline' \in [Conns -> {"none", "future", "passed"}]
        /\ pos' \in [Conns -> 0..MaxHist] /\ hist' \in Seq(Records)
    <3>1. CASE DispatchMutation(c)
      <4>1. CASE accepting /\ status = "open"
        <5>1. Len(hist) \in Nat /\ Len(hist) < MaxHist
          BY <3>1, <4>1 DEF DispatchMutation
        <5>2. Len(hist) + 1 \in 0..MaxHist
          BY <5>1, MaxClientsAssumption
        <5>3. UNCHANGED <<shut, deadline>> /\ pos' = [pos EXCEPT ![c] = Len(hist) + 1]
          BY <3>1, <4>1 DEF DispatchMutation
        <5>4. hist' \in Seq(Records)
          BY <3>1, <4>1 DEF DispatchMutation, Accept
        <5> QED
          BY <5>2, <5>3, <5>4 DEF ServerTypeOK
      <4>2. CASE DispatchRead(c)
        BY Zenon, <4>2 DEF DispatchRead, ServerTypeOK, logVars
      <4> QED
        BY <3>1, <4>1, <4>2 DEF DispatchMutation
    <3>2. CASE SetReadDeadline(c)
      BY <3>2 DEF SetReadDeadline, ServerTypeOK, logVars
    <3>3. CASE ServeTop(c) \/ ReadUnblocks(c) \/ ReadsCommand(c) \/ ReadFails(c)
      BY <3>3 DEF ServeTop, ReadUnblocks, ReadsCommand, ReadFails, ServerTypeOK, logVars
    <3>4. CASE DispatchRead(c) \/ DispatchScan(c) \/ DispatchPanics(c) \/ WriteReply(c)
      BY Zenon, <3>4 DEF DispatchRead, DispatchScan, DispatchPanics, WriteReply, ServerTypeOK, logVars
    <3>5. CASE AwaitReturns(c)
      BY <3>5 DEF AwaitReturns, Confirm, ServerTypeOK, logVars
    <3>6. CASE Release(c) \/ LastClears(c) \/ HandlerEnds(c)
      BY <3>6 DEF Release, LastClears, HandlerEnds, ServerTypeOK, logVars
    <3> QED
      BY <3>1, <3>2, <3>3, <3>4, <3>5, <3>6 DEF Handling, HandlerStep
  <2> QED
    BY <1>1, <2>1, <2>2, <2>3 DEF ServerTypeOK, lifeVars, acceptVars
<1>3. CASE Release(c)
  <2>1. nClient' \in Nat
    BY <1>3, Counted DEF Release, Goes, ServerTypeOK
  <2> QED
    BY <1>1, <1>3, <2>1 DEF Release, Goes, ServerTypeOK, lifeVars, acceptVars, logVars
<1>4. CASE LastClears(c)
  BY <1>1, <1>4 DEF LastClears, Goes, ServerTypeOK, lifeVars, acceptVars, admitVars, logVars
<1>5. CASE HandlerEnds(c)
  <2>1. wg' \in Nat
    BY <1>5, Counted DEF HandlerEnds, Goes, ServerTypeOK
  <2> QED
    BY <1>1, <1>5, <2>1 DEF HandlerEnds, Goes, ServerTypeOK, lifeVars, acceptVars, admitVars, logVars
<1> QED
  BY <1>2, <1>3, <1>4, <1>5, HandlerFrame

\* and so does every step.
LEMMA TypesStep ==
  ASSUME ServerInv, [ServerNext]_serverVars
  PROVE  ServerTypeOK' /\ hist' \in Seq(Records)
<1>1. CASE Lifecycle
  BY <1>1, LifecycleTypes, LifecycleFrame DEF ServerInv
<1>2. CASE Logging
  <2>1. FlagsOK'
    BY Zenon, <1>2, LogFrame
       DEF ServerInv, ServerTypeOK, FlagsOK, lifeVars, acceptVars, gateVars
  <2> QED
    BY <1>2, <2>1, LogFrame
       DEF ServerInv, ServerTypeOK, lifeVars, acceptVars, admitVars, connVars
<1>3. CASE AcceptFails
  BY <1>3 DEF AcceptFails, AcceptLoop, ServerInv, ServerTypeOK, FlagsOK, lifeVars, gateVars,
              admitVars, logVars
<1>4. CASE UNCHANGED serverVars
  BY <1>4 DEF serverVars, ServerInv, ServerTypeOK, FlagsOK, lifeVars, acceptVars, gateVars,
              admitVars, connVars, logVars
<1>5. ASSUME NEW c \in Conns, Admitting(c)
      PROVE  ServerTypeOK' /\ hist' \in Seq(Records)
  <2>1. FlagsOK' /\ UNCHANGED <<phase, path, result, pos, hist>>
    BY <1>5, AcceptFrame DEF ServerInv, ServerTypeOK, FlagsOK, lifeVars, gateVars, logVars
  <2>2. CASE Accepts(c)
    BY <2>1, <2>2 DEF Accepts, ServerInv, ServerTypeOK, admitVars
  <2>3. CASE Admit(c)
    BY <2>1, <2>3 DEF Admit, ServerInv, ServerTypeOK, admitVars
  <2>4. CASE Spawn(c)
    BY <2>1, <2>4 DEF Spawn, ServerInv, ServerTypeOK, admitVars
  <2> QED
    BY <1>5, <2>2, <2>3, <2>4 DEF Admitting
<1>6. ASSUME NEW c \in Conns, Handling(c)
      PROVE  ServerTypeOK' /\ hist' \in Seq(Records)
  BY <1>6, HandlerTypes DEF ServerInv
<1> QED
  BY <1>1, <1>2, <1>3, <1>4, <1>5, <1>6, StepKinds

----------------------------------------------------------------------------
(***************************************************************************)
(* The registry and the WaitGroup.                                         *)
(***************************************************************************)
\* What one connection more or less does to a count.
LEMMA OneMore ==
  ASSUME NEW S \in SUBSET Conns, NEW c \in Conns, c \notin S
  PROVE  Cardinality(S \cup {c}) = Cardinality(S) + 1
  BY ConnsFinite, FS_AddElement
\* Releasing a connection takes one from the registry.
LEMMA OneLess ==
  ASSUME NEW S \in SUBSET Conns, NEW c \in S
  PROVE  Cardinality(S \ {c}) = Cardinality(S) - 1
  BY ConnsFinite, FS_RemoveElement

\* A handler is moved from one place to another.
LEMMA MovesSets ==
  ASSUME hpc \in [Conns -> {"none", "top", "deadline", "read", "dispatch", "await", "reply",
                            "release", "clear", "close"}],
         NEW c \in Conns, NEW to, hpc' = [hpc EXCEPT ![c] = to]
  PROVE  /\ Active' = IF to = "none" THEN Active \ {c} ELSE Active \cup {c}
         /\ Serving' = IF to \in {"none", "clear", "close"} THEN Serving \ {c}
                       ELSE Serving \cup {c}
  BY DEF Active, Serving

\* The registry and the WaitGroup after every step.
LEMMA RegistryStep ==
  ASSUME ServerInv, [ServerNext]_serverVars
  PROVE  RegistryCoversHandlers'
<1> DEFINE places == {"none", "top", "deadline", "read", "dispatch", "await", "reply",
                      "release", "clear", "close"}
<1>0. /\ hpc \in [Conns -> places] /\ conns \in SUBSET Conns /\ nClient \in Nat /\ wg \in Nat
      /\ Active \in SUBSET Conns /\ RegistryCoversHandlers
  BY DEF ServerInv, ServerTypeOK, Active
<1>1. CASE UNCHANGED <<conns, nClient, wg, hpc, incoming>> /\ (accepter = "spawn" => accepter' = "spawn")
  <2>1. Active' = Active /\ Serving' = Serving
    BY <1>1 DEF Active, Serving
  <2> QED
    BY <1>1, <2>1 DEF ServerInv, RegistryCoversHandlers
<1>2. CASE Lifecycle
  <2>1. accepter = "spawn" => accepter' = "spawn"
    <3>1. CASE Start
      BY <3>1 DEF Start, Enters, ServerInv, AdmissionInv
    <3>2. CASE StartFails \/ CtxDone \/ SupDone \/ WaitReturns
      BY <3>2 DEF StartFails, CtxDone, SupDone, Stops, WaitReturns, acceptVars
    <3>3. CASE LifeStep
      BY Zenon, <3>3 DEF LifeStep, CloseListener, BeginDrain, CloseDraining, SweepDeadlines, WaitConns,
                  FinalizeBegins, FinalizeReturns, Outcome, CloseAllConns, LastWait, ClearSessions
    <3> QED
      BY <1>2, <3>1, <3>2, <3>3 DEF Lifecycle
  <2> QED
    BY <1>1, <1>2, <2>1, LifecycleFrame
<1>3. CASE Logging
  BY <1>1, <1>3, LogFrame DEF acceptVars, admitVars, connVars
<1>4. CASE AcceptFails
  BY <1>1, <1>4 DEF AcceptFails, admitVars
<1>5. CASE UNCHANGED serverVars
  BY <1>1, <1>5 DEF serverVars, acceptVars, admitVars, connVars
<1>6. ASSUME NEW c \in Conns, Accepts(c)
      PROVE  RegistryCoversHandlers'
  <2>1. accepter = "accept" /\ accepter' = "admit" /\ UNCHANGED <<conns, nClient, wg, hpc>>
    BY <1>6 DEF Accepts, admitVars
  <2>2. Active' = Active /\ Serving' = Serving
    BY <2>1 DEF Active, Serving
  <2> QED
    BY <1>0, <2>1, <2>2 DEF RegistryCoversHandlers
<1>7. ASSUME NEW c \in Conns, Admit(c)
      PROVE  RegistryCoversHandlers'
  <2>1. accepter = "admit" /\ incoming = {c} /\ UNCHANGED <<wg, hpc>> /\ hpc[c] = "none"
    BY <1>7 DEF Admit, ServerInv, AdmissionInv
  <2>2. Active' = Active /\ Serving' = Serving
    BY <2>1 DEF Active, Serving
  <2>3. CASE nClient >= MaxClients
    BY <1>0, <1>7, <2>1, <2>2, <2>3 DEF Admit, admitVars, RegistryCoversHandlers
  <2>4. CASE ~(nClient >= MaxClients)
    <3>1. nClient' = nClient + 1 /\ conns' = conns \cup {c} /\ accepter' = "spawn" /\ incoming' = {c}
      BY <1>7, <2>1, <2>4 DEF Admit
    <3>2. c \notin conns
      BY <1>0, <2>1 DEF RegistryCoversHandlers, Serving
    <3>3. Cardinality(conns') = Cardinality(conns) + 1
      BY <1>0, <3>1, <3>2, OneMore
    <3>4. nClient' = Cardinality(conns') /\ nClient' <= MaxClients
      BY <1>0, <2>4, <3>1, <3>3, MaxClientsAssumption DEF RegistryCoversHandlers
    <3>5. Serving' \subseteq conns' /\ conns' \ Serving' \subseteq incoming'
      BY <1>0, <2>1, <2>2, <3>1 DEF RegistryCoversHandlers
    <3> QED
      BY <1>0, <2>1, <2>2, <3>1, <3>4, <3>5 DEF RegistryCoversHandlers
  <2> QED
    BY <2>3, <2>4
<1>8. ASSUME NEW c \in Conns, Spawn(c)
      PROVE  RegistryCoversHandlers'
  <2>1. /\ accepter = "spawn" /\ incoming = {c} /\ hpc[c] = "none" /\ c \in conns
        /\ wg' = wg + 1 /\ hpc' = [hpc EXCEPT ![c] = "top"] /\ accepter' = "accept"
        /\ UNCHANGED <<conns, nClient>>
    BY <1>8 DEF Spawn, admitVars, ServerInv, AdmissionInv
  <2>2. Active' = Active \cup {c} /\ Serving' = Serving \cup {c}
    BY <1>0, <2>1 DEF Active, Serving
  <2>3. Cardinality(Active') = Cardinality(Active) + 1
    BY <1>0, <2>1, <2>2, OneMore DEF Active
  <2>4. wg' = Cardinality(Active')
    BY <1>0, <2>1, <2>3 DEF RegistryCoversHandlers
  <2>5. Serving' \subseteq conns' /\ conns' \ Serving' = {}
    BY <1>0, <2>1, <2>2 DEF RegistryCoversHandlers
  <2> QED
    BY <1>0, <2>1, <2>4, <2>5 DEF RegistryCoversHandlers
<1>9. ASSUME NEW c \in Conns, Works(c)
      PROVE  RegistryCoversHandlers'
  <2>1. PICK to \in {"top", "deadline", "read", "dispatch", "await", "reply", "release"} :
          hpc' = [hpc EXCEPT ![c] = to]
    BY Zenon, <1>9 DEF Works, Moves
  <2>2. /\ hpc[c] \notin {"none", "clear", "close"}
        /\ UNCHANGED <<conns, nClient, wg, accepter, incoming>>
    BY <1>9 DEF Works, Moves, admitVars, acceptVars
  <2>3. Active' = Active /\ Serving' = Serving
    BY <1>0, <2>1, <2>2, MovesSets DEF Active, Serving
  <2> QED
    BY <1>0, <2>2, <2>3 DEF RegistryCoversHandlers
<1>10. ASSUME NEW c \in Conns, Release(c)
       PROVE  RegistryCoversHandlers'
  <2>1. PICK to \in {"clear", "close"} : hpc' = [hpc EXCEPT ![c] = to]
    BY Zenon, <1>10 DEF Release, Goes
  <2>2. /\ hpc[c] = "release" /\ conns' = conns \ {c} /\ nClient' = nClient - 1
        /\ UNCHANGED <<wg, accepter, incoming>>
    BY <1>10 DEF Release, Goes, acceptVars
  <2>3. Active' = Active /\ Serving' = Serving \ {c} /\ c \in conns
    BY <1>0, <2>1, <2>2, MovesSets DEF Active, Serving, RegistryCoversHandlers
  <2>4. Cardinality(conns') = Cardinality(conns) - 1
    BY <1>0, <2>2, <2>3, OneLess
  <2>5. nClient' = Cardinality(conns') /\ nClient' <= MaxClients
    BY <1>0, <2>2, <2>4, MaxClientsAssumption DEF RegistryCoversHandlers
  <2> QED
    BY <1>0, <2>2, <2>3, <2>5 DEF RegistryCoversHandlers
<1>11. ASSUME NEW c \in Conns, LastClears(c)
       PROVE  RegistryCoversHandlers'
  <2>1. /\ hpc[c] = "clear" /\ hpc' = [hpc EXCEPT ![c] = "close"]
        /\ UNCHANGED <<conns, nClient, wg, accepter, incoming>>
    BY <1>11 DEF LastClears, Goes, admitVars, acceptVars
  <2>2. Active' = Active /\ Serving' = Serving
    BY <1>0, <2>1, MovesSets DEF Active, Serving
  <2> QED
    BY <1>0, <2>1, <2>2 DEF RegistryCoversHandlers
<1>12. ASSUME NEW c \in Conns, HandlerEnds(c)
       PROVE  RegistryCoversHandlers'
  <2>1. /\ hpc[c] = "close" /\ hpc' = [hpc EXCEPT ![c] = "none"] /\ wg' = wg - 1
        /\ UNCHANGED <<conns, nClient, accepter, incoming>>
    BY <1>12 DEF HandlerEnds, Goes, admitVars, acceptVars
  <2>2. Active' = Active \ {c} /\ Serving' = Serving /\ c \in Active
    BY <1>0, <2>1, MovesSets DEF Active, Serving
  <2>3. Cardinality(Active') = Cardinality(Active) - 1
    BY <1>0, <2>2, OneLess
  <2> QED
    BY <1>0, <2>1, <2>2, <2>3 DEF RegistryCoversHandlers
<1> QED
  BY <1>2, <1>3, <1>4, <1>5, <1>6, <1>7, <1>8, <1>9, <1>10, <1>11, <1>12, StepKinds, HandlerFrame
     DEF Admitting

----------------------------------------------------------------------------
(***************************************************************************)
(* What the accept loop holds.                                             *)
(***************************************************************************)
LEMMA AdmissionStep ==
  ASSUME ServerInv, [ServerNext]_serverVars
  PROVE  AdmissionInv'
<1>0. AdmissionInv /\ RegistryCoversHandlers /\ DrainInv /\ ServerTypeOK
  BY DEF ServerInv
<1>1. CASE Lifecycle
  <2>1. UNCHANGED <<incoming, conns, hpc>>
    BY <1>1, LifecycleFrame
  <2>2. CASE Start
    <3>1. phase = "starting" /\ phase' = "serving" /\ accepter' = "accept" /\ result' = result
      BY <2>2 DEF Start, Enters
    <3>2. result # "error" /\ incoming = {}
      BY <1>0, <3>1 DEF AdmissionInv, DrainInv
    <3> QED
      BY <2>1, <3>1, <3>2 DEF AdmissionInv
  <2>3. CASE StartFails
    BY <1>0, <2>1, <2>3 DEF StartFails, Enters, AdmissionInv
  <2>4. CASE CtxDone \/ SupDone
    BY <1>0, <2>1, <2>4 DEF CtxDone, SupDone, Stops, Enters, AdmissionInv
  <2>5. CASE LifeStep \/ WaitReturns
    <3>1. UNCHANGED accepter /\ phase' # "starting"
      BY Zenon, <2>5 DEF LifeStep, CloseListener, BeginDrain, CloseDraining, SweepDeadlines, WaitConns,
                  FinalizeBegins, FinalizeReturns, Outcome, CloseAllConns, LastWait, ClearSessions,
                  Enters, WaitReturns, acceptVars
    <3>2. result' = "error" => result = "error"
      BY Zenon, <2>5 DEF LifeStep, CloseListener, BeginDrain, CloseDraining, SweepDeadlines, WaitConns,
                  FinalizeBegins, FinalizeReturns, Outcome, CloseAllConns, LastWait, ClearSessions,
                  WaitReturns
    <3>3. sessions' => sessions
      BY Zenon, <2>5
         DEF LifeStep, CloseListener, BeginDrain, CloseDraining, SweepDeadlines, WaitConns,
             FinalizeBegins, FinalizeReturns, Outcome, CloseAllConns, LastWait, ClearSessions,
             WaitReturns
    <3> QED
      BY <1>0, <2>1, <3>1, <3>2, <3>3 DEF AdmissionInv
  <2> QED
    BY <1>1, <2>2, <2>3, <2>4, <2>5 DEF Lifecycle
<1>2. CASE Logging
  BY <1>0, <1>2, LogFrame DEF AdmissionInv, lifeVars, acceptVars, admitVars, connVars
<1>3. CASE AcceptFails
  BY <1>0, <1>3 DEF AcceptFails, AcceptLoop, AdmissionInv, lifeVars, admitVars
<1>4. CASE UNCHANGED serverVars
  BY <1>0, <1>4 DEF serverVars, AdmissionInv, lifeVars, acceptVars, admitVars, connVars
<1>5. ASSUME NEW c \in Conns, Accepts(c)
      PROVE  AdmissionInv'
  BY <1>0, <1>5 DEF Accepts, AcceptLoop, AdmissionInv, lifeVars, admitVars
<1>6. ASSUME NEW c \in Conns, Admit(c)
      PROVE  AdmissionInv'
  BY <1>0, <1>6 DEF Admit, AcceptLoop, AdmissionInv, lifeVars, admitVars
<1>7. ASSUME NEW c \in Conns, Spawn(c)
      PROVE  AdmissionInv'
  BY <1>0, <1>7 DEF Spawn, AcceptLoop, AdmissionInv, lifeVars, admitVars
<1>8. ASSUME NEW c \in Conns, Handling(c)
      PROVE  AdmissionInv'
  <2>1. /\ UNCHANGED <<phase, result, accepter, incoming>>
        /\ hpc[c] # "none" /\ \A d \in Conns \ {c} : hpc'[d] = hpc[d]
    BY Zenon, <1>0, <1>8, HandlerFrame
       DEF Works, Moves, Release, LastClears, HandlerEnds, Goes, lifeVars, acceptVars, ServerTypeOK
  <2>2. conns' = conns \/ (conns' = conns \ {c} /\ hpc[c] = "release")
    BY Zenon, <1>8, HandlerFrame DEF Works, Release, LastClears, HandlerEnds, Goes, admitVars
  <2>3. c \notin conns => hpc[c] \in {"clear", "close"}
    BY <1>0, <2>1 DEF RegistryCoversHandlers, Serving
  <2>4. c \notin conns /\ ~sessions => ~sessions'
    BY Zenon, <1>8, <2>3, HandlerFrame DEF Works, Release, LastClears, HandlerEnds, Goes
  <2> QED
    BY <1>0, <2>1, <2>2, <2>4 DEF AdmissionInv
<1> QED
  BY <1>1, <1>2, <1>3, <1>4, <1>5, <1>6, <1>7, <1>8, StepKinds DEF Admitting

----------------------------------------------------------------------------
(***************************************************************************)
(* Draining.                                                               *)
(***************************************************************************)
\* The counter of the WaitGroup is zero: nobody is in a handler.
LEMMA NobodyLeft ==
  ASSUME RegistryCoversHandlers, wg = 0
  PROVE  \A c \in Conns : hpc[c] = "none"
<1>1. Active \in SUBSET Conns /\ Cardinality(Active) = 0
  BY DEF Active, RegistryCoversHandlers
<1>2. Active = {}
  BY <1>1, ConnsFinite, FS_EmptySet
<1> QED
  BY <1>2 DEF Active

\* The drain after every step.
LEMMA DrainStep ==
  ASSUME ServerInv, [ServerNext]_serverVars
  PROVE  DrainInv'
<1>0. DrainInv /\ RegistryCoversHandlers /\ ServerTypeOK
  BY DEF ServerInv
<1>1. CASE Lifecycle
  <2>1. UNCHANGED hpc
    BY <1>1, LifecycleFrame
  <2>2. CASE Start \/ StartFails
    BY <1>0, <2>1, <2>2 DEF Start, StartFails, Enters, DrainInv, gateVars
  <2>3. CASE CtxDone \/ SupDone
    BY <1>0, <2>1, <2>3 DEF CtxDone, SupDone, Stops, Enters, DrainInv, gateVars
  <2>4. CASE CloseListener \/ BeginDrain \/ CloseDraining \/ SweepDeadlines
    BY <1>0, <2>1, <2>4 DEF CloseListener, BeginDrain, CloseDraining, SweepDeadlines, Enters,
                            DrainInv, gateVars
  <2>5. CASE WaitReturns
    <3>1. \A c \in Conns : hpc'[c] = "none"
      BY <1>0, <2>1, <2>5, NobodyLeft DEF WaitReturns
    <3> QED
      BY <1>0, <2>5, <3>1 DEF WaitReturns, DrainInv, gateVars
  <2>6. CASE WaitConns
    <3>1. drained' => waited
      BY Zenon, <2>6 DEF WaitConns
    <3> QED
      BY <1>0, <2>1, <2>6, <3>1 DEF WaitConns, Enters, DrainInv, gateVars
  <2>7. CASE FinalizeBegins \/ FinalizeReturns \/ Outcome
    BY <1>0, <2>1, <2>7 DEF FinalizeBegins, FinalizeReturns, Outcome, Enters, DrainInv, gateVars
  <2>8. CASE CloseAllConns \/ LastWait \/ ClearSessions
    BY <1>0, <2>1, <2>8 DEF CloseAllConns, LastWait, ClearSessions, Enters, DrainInv, gateVars
  <2> QED
    BY <1>1, <2>2, <2>3, <2>4, <2>5, <2>6, <2>7, <2>8 DEF Lifecycle, LifeStep
<1>2. CASE Logging
  BY <1>0, <1>2, LogFrame DEF DrainInv, lifeVars, gateVars, connVars
<1>3. CASE AcceptFails
  BY <1>0, <1>3 DEF AcceptFails, AcceptLoop, DrainInv, lifeVars, gateVars
<1>4. CASE UNCHANGED serverVars
  BY <1>0, <1>4 DEF serverVars, DrainInv, lifeVars, gateVars, connVars
<1>5. ASSUME NEW c \in Conns, Admitting(c)
      PROVE  DrainInv'
  <2>1. \A d \in Conns : hpc'[d] = hpc[d] \/ hpc'[d] = "top"
    BY <1>0, <1>5, AcceptFrame DEF ServerTypeOK
  <2> QED
    BY <1>0, <1>5, <2>1, AcceptFrame DEF DrainInv, lifeVars, gateVars
<1>6. ASSUME NEW c \in Conns, Handling(c)
      PROVE  DrainInv'
  <2>1. UNCHANGED <<lifeVars, gateVars>> /\ \A d \in Conns \ {c} : hpc'[d] = hpc[d]
    BY Zenon, <1>0, <1>6, HandlerFrame
       DEF Works, Moves, Release, LastClears, HandlerEnds, Goes, ServerTypeOK
  <2>2. ASSUME waited
        PROVE  hpc'[c] \in {"none", "top", "release", "clear", "close"}
    <3>1. draining /\ hpc[c] \in {"none", "top", "release", "clear", "close"}
      BY <1>0, <2>2 DEF DrainInv
    <3> QED
      BY Zenon, <1>0, <1>6, <3>1, HandlerFrame
         DEF Works, Moves, Release, LastClears, HandlerEnds, Goes, ServerTypeOK
  <2>3. (waited => \A d \in Conns : hpc[d] \in {"none", "top", "release", "clear", "close"})'
    BY <1>0, <2>1, <2>2 DEF DrainInv, lifeVars
  <2> QED
    BY <1>0, <2>1, <2>3 DEF DrainInv, lifeVars, gateVars
<1> QED
  BY <1>1, <1>2, <1>3, <1>4, <1>5, <1>6, StepKinds

----------------------------------------------------------------------------
(***************************************************************************)
(* The outcome of Finalize.                                                *)
(***************************************************************************)
LEMMA OutcomeStep ==
  ASSUME ServerInv, [ServerNext]_serverVars
  PROVE  OutcomeInv'
<1>0. OutcomeInv /\ DrainInv /\ ServerTypeOK
  BY DEF ServerInv
<1>1. CASE Lifecycle
  <2>1. CASE Start \/ StartFails
    BY <1>0, <2>1 DEF Start, StartFails, Enters, OutcomeInv
  <2>2. CASE CtxDone \/ SupDone
    BY <1>0, <2>2 DEF CtxDone, SupDone, Stops, Enters, OutcomeInv
  <2>3. CASE CloseListener \/ BeginDrain \/ CloseDraining \/ SweepDeadlines
    BY <1>0, <2>3 DEF CloseListener, BeginDrain, CloseDraining, SweepDeadlines, Enters, OutcomeInv
  <2>4. CASE WaitReturns
    BY <1>0, <2>4 DEF WaitReturns, OutcomeInv, logVars
  <2>5. CASE WaitConns \/ FinalizeBegins
    BY Zenon, <1>0, <2>5 DEF WaitConns, FinalizeBegins, Enters, OutcomeInv
  <2>6. CASE FinalizeReturns
    <3>1. phase = "finalizing" /\ phase' = "outcome" /\ UNCHANGED <<result, status>>
      BY <2>6 DEF FinalizeReturns, Enters, logVars
    <3>2. ~fired' => status = "closed"
      BY <2>6 DEF FinalizeReturns
    <3> QED
      BY <1>0, <3>1, <3>2 DEF OutcomeInv
  <2>7. CASE Outcome
    BY <1>0, <2>7 DEF Outcome, Enters, OutcomeInv, logVars
  <2>8. CASE CloseAllConns \/ LastWait \/ ClearSessions
    BY <1>0, <2>8 DEF CloseAllConns, LastWait, ClearSessions, Enters, OutcomeInv, logVars
  <2> QED
    BY <1>1, <2>1, <2>2, <2>3, <2>4, <2>5, <2>6, <2>7, <2>8 DEF Lifecycle, LifeStep
<1>2. CASE Logging
  <2>1. fired => fired'
    BY Zenon, <1>2, LogFrame
  <2>2. UNCHANGED <<phase, result, drained>> /\ (status = "closed" => UNCHANGED <<status, fired>>)
    BY <1>2, LogFrame DEF lifeVars
  <2> QED
    BY <1>0, <2>1, <2>2 DEF OutcomeInv
<1>3. CASE AcceptFails
  BY <1>0, <1>3 DEF AcceptFails, AcceptLoop, OutcomeInv, lifeVars, logVars
<1>4. CASE UNCHANGED serverVars
  BY <1>0, <1>4 DEF serverVars, OutcomeInv, lifeVars, logVars
<1>5. ASSUME NEW c \in Conns, Admitting(c)
      PROVE  OutcomeInv'
  BY <1>0, <1>5, AcceptFrame DEF OutcomeInv, lifeVars, logVars
<1>6. ASSUME NEW c \in Conns, Handling(c)
      PROVE  OutcomeInv'
  <2>1. UNCHANGED <<lifeVars, status>>
    BY Zenon, <1>6, HandlerFrame DEF Works, Moves, Release, LastClears, HandlerEnds, Goes, logVars
  <2>2. fired => fired'
    <3>1. CASE DispatchPanics(c)
      BY Zenon, <3>1 DEF DispatchPanics
    <3>2. CASE DispatchScan(c) \/ DispatchMutation(c) \/ DispatchRead(c) \/ AwaitReturns(c) \/ WriteReply(c)
      BY Zenon, <3>2 DEF DispatchScan, DispatchMutation, DispatchRead, AwaitReturns, WriteReply
    <3>3. CASE ServeTop(c) \/ SetReadDeadline(c) \/ ReadUnblocks(c) \/ ReadsCommand(c) \/ ReadFails(c)
      BY Zenon, <3>3 DEF ServeTop, SetReadDeadline, ReadUnblocks, ReadsCommand, ReadFails
    <3>4. CASE Release(c) \/ LastClears(c) \/ HandlerEnds(c)
      BY Zenon, <3>4 DEF Release, LastClears, HandlerEnds
    <3> QED
      BY <1>6, <3>1, <3>2, <3>3, <3>4 DEF Handling, HandlerStep
  <2>3. drained => ~(fired' /\ ~fired)
    <3> SUFFICES ASSUME drained PROVE hpc[c] # "dispatch"
      BY Zenon, <1>6, HandlerFrame DEF Works, Release, LastClears, HandlerEnds
    <3> QED
      BY <1>0 DEF DrainInv
  <2> QED
    BY <1>0, <2>1, <2>2, <2>3 DEF OutcomeInv, lifeVars
<1> QED
  BY <1>1, <1>2, <1>3, <1>4, <1>5, <1>6, StepKinds

----------------------------------------------------------------------------
(***************************************************************************)
(* Scan sessions.                                                          *)
(***************************************************************************)
LEMMA SessionsStep ==
  ASSUME ServerInv, [ServerNext]_serverVars
  PROVE  NoSessionOutlivesServer'
<1>0. /\ NoSessionOutlivesServer /\ RegistryCoversHandlers /\ AdmissionInv /\ DrainInv
      /\ ServerTypeOK
  BY DEF ServerInv
<1>1. CASE Lifecycle
  <2>1. UNCHANGED <<conns, hpc>>
    BY <1>1, LifecycleFrame
  <2>2. CASE StartFails
    BY <1>0, <2>1, <2>2 DEF StartFails, Enters, AdmissionInv, NoSessionOutlivesServer
  <2>3. CASE ClearSessions
    BY Zenon, <2>3 DEF ClearSessions, NoSessionOutlivesServer
  <2>4. CASE WaitReturns
    BY <1>0, <2>1, <2>4 DEF WaitReturns, NoSessionOutlivesServer
  <2>5. CASE Start \/ CtxDone \/ SupDone \/ (LifeStep /\ ~ClearSessions)
    <3>1. phase' # "returned"
      BY Zenon, <2>5 DEF Start, CtxDone, SupDone, Stops, LifeStep, CloseListener, BeginDrain,
                  CloseDraining, SweepDeadlines, WaitConns, FinalizeBegins, FinalizeReturns,
                  Outcome, CloseAllConns, LastWait, Enters
    <3> QED
      BY <3>1 DEF NoSessionOutlivesServer
  <2> QED
    BY <1>1, <2>2, <2>3, <2>4, <2>5 DEF Lifecycle
<1>2. CASE Logging
  BY <1>0, <1>2, LogFrame DEF NoSessionOutlivesServer, lifeVars, admitVars, connVars
<1>3. CASE AcceptFails
  BY <1>0, <1>3 DEF AcceptFails, AcceptLoop, NoSessionOutlivesServer, lifeVars, admitVars
<1>4. CASE UNCHANGED serverVars
  BY <1>0, <1>4 DEF serverVars, NoSessionOutlivesServer, lifeVars, admitVars, connVars
<1>5. ASSUME NEW c \in Conns, Accepts(c)
      PROVE  NoSessionOutlivesServer'
  BY <1>0, <1>5 DEF Accepts, AcceptLoop, NoSessionOutlivesServer, lifeVars, admitVars
<1>6. ASSUME NEW c \in Conns, Admit(c)
      PROVE  NoSessionOutlivesServer'
  BY <1>0, <1>6 DEF Admit, AcceptLoop, NoSessionOutlivesServer, lifeVars, admitVars
<1>7. ASSUME NEW c \in Conns, Spawn(c)
      PROVE  NoSessionOutlivesServer'
  <2>1. conns' # {}
    BY <1>0, <1>7 DEF Spawn, admitVars, AdmissionInv
  <2> QED
    BY <2>1 DEF NoSessionOutlivesServer
<1>8. ASSUME NEW c \in Conns, Works(c)
      PROVE  NoSessionOutlivesServer'
  <2>1. hpc[c] \notin {"none", "clear", "close"} /\ conns' = conns
    BY <1>8 DEF Works, Moves, admitVars
  <2>2. conns' # {}
    BY <1>0, <2>1 DEF RegistryCoversHandlers, Serving
  <2> QED
    BY <2>2 DEF NoSessionOutlivesServer
<1>9. ASSUME NEW c \in Conns, Release(c)
      PROVE  NoSessionOutlivesServer'
  <2> SUFFICES ASSUME phase' = "returned", conns' = {} PROVE hpc'[c] = "clear" \/ ~sessions'
    BY DEF NoSessionOutlivesServer
  <2>1. hpc[c] = "release" /\ conns' = conns \ {c} /\ UNCHANGED <<phase, result, accepter, sessions>>
    BY <1>9 DEF Release, Goes, lifeVars, acceptVars
  <2>2. conns = {c}
    BY <1>0, <2>1 DEF RegistryCoversHandlers, Serving
  <2>3. nClient = 1
    BY <1>0, <2>2, FS_Singleton DEF RegistryCoversHandlers
  <2>4. draining
    BY <1>0, <2>1, <2>2 DEF DrainInv, AdmissionInv
  <2> QED
    BY <1>0, <1>9, <2>3, <2>4 DEF Release, Goes, ServerTypeOK
<1>10. ASSUME NEW c \in Conns, LastClears(c)
       PROVE  NoSessionOutlivesServer'
  BY Zenon, <1>10 DEF LastClears, NoSessionOutlivesServer
<1>11. ASSUME NEW c \in Conns, HandlerEnds(c)
       PROVE  NoSessionOutlivesServer'
  <2>1. /\ hpc[c] = "close" /\ \A d \in Conns \ {c} : hpc'[d] = hpc[d]
        /\ UNCHANGED <<phase, conns, sessions>>
    BY <1>0, <1>11 DEF HandlerEnds, Goes, lifeVars, admitVars, ServerTypeOK
  <2> QED
    BY <1>0, <2>1 DEF NoSessionOutlivesServer
<1> QED
  BY <1>1, <1>2, <1>3, <1>4, <1>5, <1>6, <1>7, <1>8, <1>9, <1>10, <1>11, StepKinds, HandlerFrame
     DEF Admitting

----------------------------------------------------------------------------
(***************************************************************************)
(* Theorems.                                                               *)
(***************************************************************************)
LEMMA ServerInvInit == ServerInit => ServerInv
<1> SUFFICES ASSUME ServerInit PROVE ServerInv
  OBVIOUS
<1>1. ServerTypeOK /\ hist \in Seq(Records)
  <2>1. FlagsOK
    BY Zenon DEF ServerInit, FlagsOK
  <2> QED
    BY <2>1, MaxClientsAssumption DEF ServerInit, LogInit, ServerTypeOK
<1>2. Active = {} /\ Serving = {}
  BY DEF ServerInit, Active, Serving
<1>3. RegistryCoversHandlers
  BY <1>2, FS_EmptySet, MaxClientsAssumption DEF ServerInit, RegistryCoversHandlers
<1>4. AdmissionInv /\ DrainInv /\ OutcomeInv /\ NoSessionOutlivesServer
  BY DEF ServerInit, AdmissionInv, DrainInv, OutcomeInv, NoSessionOutlivesServer
<1> QED
  BY <1>1, <1>3, <1>4 DEF ServerInv

\* The invariant is inductive.
LEMMA ServerInvNext == ServerInv /\ [ServerNext]_serverVars => ServerInv'
<1> SUFFICES ASSUME ServerInv, [ServerNext]_serverVars PROVE ServerInv'
  OBVIOUS
<1> QED
  BY TypesStep, RegistryStep, AdmissionStep, DrainStep, OutcomeStep, SessionsStep DEF ServerInv

\* The inductive invariant of the server, whatever the order in which handlers,
\* accept loop, lifecycle goroutine and log take their steps.
THEOREM ServerInvariance == ServerSpec => []ServerInv
  BY ServerInvInit, ServerInvNext, PTL DEF ServerSpec

\* admit, releaseConn and the WaitGroup keep count of the handlers: the sweep
\* of the deadlines and closeAllConns see every connection that is served.
THEOREM RegistryHolds == ServerSpec => []RegistryCoversHandlers
<1>1. ServerInv => RegistryCoversHandlers
  BY DEF ServerInv
<1> QED
  BY <1>1, ServerInvariance, PTL

\* RunWithReady returns nil only if the log was closed without a failure and no
\* command is still at work, and nothing fatal is reported afterwards.
THEOREM CleanExitHolds == ServerSpec => []CleanExitIsComplete
<1>1. ServerInv => CleanExitIsComplete
  BY DEF ServerInv, OutcomeInv, DrainInv, CleanExitIsComplete, Serving
<1> QED
  BY <1>1, ServerInvariance, PTL

\* After shutdown, the last handler to leave the registry takes the scan
\* sessions with it.
THEOREM SessionsEnd == ServerSpec => []NoSessionOutlivesServer
<1>1. ServerInv => NoSessionOutlivesServer
  BY DEF ServerInv
<1> QED
  BY <1>1, ServerInvariance, PTL
=============================================================================
