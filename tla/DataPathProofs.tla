--------------------------- MODULE DataPathProofs ---------------------------
(***************************************************************************)
(* The composition implements both of its machines, so that what is proved *)
(* of ReadQueue and of ReadPump alone holds of them together, for any      *)
(* number of reads, packets and completion threads; and what the pump uses *)
(* outlives it.                                                            *)
(***************************************************************************)
EXTENDS DataPath, TLAPS

\* The proofs of the two machines.
PumpProofs   == INSTANCE ReadPumpProofs  WITH RacingCompletion <- FALSE, RacingD0Exit <- FALSE
StreamProofs == INSTANCE ReadQueueProofs WITH ReadsCancelled <- FALSE, PowerCycles <- TRUE

-----------------------------------------------------------------------------
(* The stream.                                                             *)

\* With the queues paused the routine hands nothing over: the framework has waited
\* for the request the pump owned, and gives it no other.
PausedIsIdle == device = "low" => pump = "idle"

LEMMA StreamInit == Init => Stream!Init /\ PausedIsIdle
BY DEF Init, Stream!Init, PausedIsIdle

\* The steps of the pump and the callbacks that do not touch the stream.
LEMMA StreamStutters ==
    ASSUME UNCHANGED streamVars
    PROVE  UNCHANGED Stream!vars
BY DEF streamVars, Stream!vars, Stream!hands, Stream!requests

LEMMA StreamStep ==
    ASSUME PausedIsIdle, [Next]_vars
    PROVE  [Stream!Next]_(Stream!vars) /\ PausedIsIdle'
<1>1. ASSUME NEW t \in Pump!Threads, InPump(t)
      PROVE  [Stream!Next]_(Stream!vars) /\ PausedIsIdle'
  <2>1. CASE Sends(t) \/ Processed(t)
    <3>1. UNCHANGED streamVars
      BY <2>1 DEF Sends, Processed
    <3>. QED BY <3>1, StreamStutters DEF PausedIsIdle, streamVars
  <2>2. CASE PacketComplete(t)
    <3>1. Stream!PumpTakesRequest \/ Stream!PumpListsPacket \/ Stream!PumpDropsPacket
      BY <2>2 DEF PacketComplete
    <3>2. Stream!Next
      BY <3>1 DEF Stream!Next
    <3>3. PausedIsIdle'
      BY <3>1 DEF PausedIsIdle, Stream!PumpTakesRequest, Stream!PumpListsPacket,
         Stream!PumpDropsPacket, Stream!Retrievable, Stream!hands
    <3>. QED BY <3>2, <3>3
  <2>3. CASE PacketDelivered(t)
    <3>1. Stream!PumpDelivers
      BY <2>3 DEF PacketDelivered
    <3>. QED BY <3>1 DEF Stream!Next, Stream!PumpDelivers, PausedIsIdle
  <2>. QED BY <1>1, <2>1, <2>2, <2>3 DEF InPump
<1>2. ASSUME NEW r \in Reads, Dispatch(r) \/ InIoctl(r) \/ CancelRead(r)
      PROVE  [Stream!Next]_(Stream!vars) /\ PausedIsIdle'
  <2>1. Stream!Refuse(r) \/ Stream!Forward(r) \/ Stream!Ioctl(r) \/ Stream!CancelRead(r)
    BY <1>2 DEF Dispatch, InIoctl, CancelRead
  <2>2. Stream!Next
    BY <2>1 DEF Stream!Next
  <2>3. PausedIsIdle'
    BY <2>1 DEF PausedIsIdle, Stream!Refuse, Stream!Forward, Stream!Ioctl, Stream!CancelRead,
       Stream!LeavePending, Stream!TakeListed, Stream!MissRequest, Stream!DeliverListed,
       Stream!Epilogue, Stream!hands
  <2>. QED BY <2>2, <2>3
<1>3. CASE UartCompletes \/ PowerCallback
  <2>1. UNCHANGED streamVars
    BY <1>3 DEF UartCompletes, PowerCallback
  <2>. QED BY <2>1, StreamStutters DEF PausedIsIdle, streamVars
<1>4. CASE PauseQueues
  <2>1. Stream!LeaveD0 /\ pump = "idle" /\ pump' = pump
    BY <1>4 DEF PauseQueues, Stream!LeaveD0, Stream!hands
  <2>. QED BY <2>1 DEF Stream!Next, PausedIsIdle
<1>5. CASE ResumeQueues
  <2>1. Stream!EnterD0
    BY <1>5 DEF ResumeQueues
  <2>. QED BY <2>1 DEF Stream!Next, Stream!EnterD0, PausedIsIdle
<1>6. CASE ReadResourcesFree
  <2>1. Stream!ThreadsOut
    BY <1>6 DEF ReadResourcesFree, PausedIsIdle, Stream!ThreadsOut
  <2>2. Stream!Remove
    BY <1>6, <2>1 DEF ReadResourcesFree, Stream!Remove, Stream!hands, Stream!requests
  <2>. QED BY <1>6, <2>2 DEF Stream!Next, ReadResourcesFree, PausedIsIdle
<1>7. CASE Ends \/ UNCHANGED vars
  <2>1. UNCHANGED streamVars
    BY <1>7 DEF Ends, vars
  <2>. QED BY <2>1, StreamStutters DEF PausedIsIdle, streamVars
<1>. QED BY <1>1, <1>2, <1>3, <1>4, <1>5, <1>6, <1>7 DEF Next

\* Every behaviour of the two machines together is one of the stream alone: the pump
\* and the power callbacks ask nothing of it that ReadQueue does not allow, although
\* ReadResourcesFree does not ask whether the pump is idle.
THEOREM ImplementsReadQueue == Spec => AsReadQueue
<1>1. PausedIsIdle /\ [Next]_vars => [Stream!Next]_(Stream!vars) /\ PausedIsIdle'
  BY StreamStep
<1>. QED BY <1>1, StreamInit, PTL DEF Spec, AsReadQueue

-----------------------------------------------------------------------------
(* The pump.                                                               *)

\* The definitions that PumpProofs reads are those that DataPath composes.
LEMMA SameSender ==
    ASSUME NEW t, Pump!ReadH4Packet(t)
    PROVE  PumpProofs!ReadH4Packet(t)
BY DEF Pump!ReadH4Packet, Pump!CheckFails, Pump!Check, Pump!MarkSent, Pump!Send, Pump!SendFails,
       Pump!LeavesToRoutine, Pump!LoopsOn, Pump!LoopsNoMore, Pump!SendReturned, Pump!InRoutine,
       Pump!GivesUp, Pump!Goes, Pump!Succeeds, Pump!Threads, Pump!context, Pump!device,
       PumpProofs!ReadH4Packet, PumpProofs!CheckFails, PumpProofs!Check, PumpProofs!MarkSent,
       PumpProofs!Send, PumpProofs!SendFails, PumpProofs!LeavesToRoutine, PumpProofs!LoopsOn,
       PumpProofs!LoopsNoMore, PumpProofs!SendReturned, PumpProofs!InRoutine,
       PumpProofs!GivesUp, PumpProofs!Goes, PumpProofs!Succeeds, PumpProofs!Threads,
       PumpProofs!context, PumpProofs!device

LEMMA SameRoutine ==
    ASSUME NEW t, Pump!Enter(t) \/ Pump!Process(t)
    PROVE  PumpProofs!Routine(t)
BY DEF Pump!Enter, Pump!Process, Pump!ReadsOn, Pump!Goes, Pump!context, Pump!device,
       PumpProofs!Routine, PumpProofs!Enter, PumpProofs!Process, PumpProofs!ReadsOn,
       PumpProofs!Goes, PumpProofs!context, PumpProofs!device

LEMMA SamePnp ==
    ASSUME \/ Pump!SelfManagedIoInit \/ Pump!Invalidated \/ Pump!Invalidate \/ Pump!StopTarget
           \/ Pump!D0Exit \/ Pump!StartTarget \/ Pump!StartFails \/ Pump!D0Entry
    PROVE  PumpProofs!PnpCallback
BY DEF Pump!SelfManagedIoInit, Pump!Invalidated, Pump!Invalidate, Pump!StopTarget, Pump!D0Exit,
       Pump!StartTarget, Pump!StartFails, Pump!D0Entry, Pump!PnpFree, Pump!Goes, Pump!Threads,
       Pump!locals, Pump!context, Pump!device,
       PumpProofs!PnpCallback, PumpProofs!SelfManagedIoInit, PumpProofs!Invalidated,
       PumpProofs!Invalidate, PumpProofs!StopTarget, PumpProofs!D0Exit, PumpProofs!StartTarget,
       PumpProofs!StartFails, PumpProofs!D0Entry, PumpProofs!PnpFree, PumpProofs!Goes,
       PumpProofs!Threads, PumpProofs!locals, PumpProofs!context, PumpProofs!device

LEMMA SameUart ==
    ASSUME Pump!UartCompletes
    PROVE  PumpProofs!UartCompletes
BY DEF Pump!UartCompletes, Pump!Statuses, Pump!context, Pump!device, PumpProofs!UartCompletes,
       PumpProofs!Statuses, PumpProofs!context, PumpProofs!device

LEMMA PumpStutters ==
    ASSUME UNCHANGED pumpVars
    PROVE  UNCHANGED PumpProofs!vars
BY DEF pumpVars, PumpProofs!vars, PumpProofs!locals, PumpProofs!context, PumpProofs!device

LEMMA PumpInit == Init => PumpProofs!Init
BY DEF Init, Pump!Init, PumpProofs!Init, Pump!Threads, PumpProofs!Threads

LEMMA PumpStep ==
    ASSUME [Next]_vars
    PROVE  [PumpProofs!Next]_(PumpProofs!vars)
<1>1. ASSUME NEW t \in Pump!Threads, InPump(t)
      PROVE  [PumpProofs!Next]_(PumpProofs!vars)
  <2>0. t \in PumpProofs!Threads
    BY DEF Pump!Threads, PumpProofs!Threads
  <2>1. CASE Sends(t) \/ Processed(t)
    <3>1. PumpProofs!ReadH4Packet(t) \/ PumpProofs!Routine(t)
      BY <2>1, SameSender, SameRoutine DEF Sends, Processed
    <3>. QED BY <2>0, <3>1 DEF PumpProofs!Next
  <2>2. CASE PacketComplete(t) \/ PacketDelivered(t)
    <3>1. UNCHANGED pumpVars
      BY <2>2 DEF PacketComplete, PacketDelivered
    <3>. QED BY <3>1, PumpStutters
  <2>. QED BY <1>1, <2>1, <2>2 DEF InPump
<1>2. CASE UartCompletes
  BY <1>2, SameUart DEF UartCompletes, PumpProofs!Next
<1>3. CASE PowerCallback
  <2>1. PumpProofs!PnpCallback
    BY <1>3, SamePnp DEF PowerCallback, SelfManagedIoInit, D0Exit, D0Entry
  <2>. QED BY <2>1 DEF PumpProofs!Next
<1>4. CASE \/ \E r \in Reads : Dispatch(r) \/ InIoctl(r) \/ CancelRead(r)
           \/ PauseQueues \/ ResumeQueues \/ ReadResourcesFree \/ Ends \/ UNCHANGED vars
  <2>1. UNCHANGED pumpVars
    BY <1>4 DEF Dispatch, InIoctl, CancelRead, PauseQueues, ResumeQueues, ReadResourcesFree,
       Ends, vars
  <2>. QED BY <2>1, PumpStutters
<1>. QED BY <1>1, <1>2, <1>3, <1>4 DEF Next

\* The pump behind the real power callbacks does nothing that ReadPump does not.
AsReadPump == PumpProofs!Init /\ [][PumpProofs!Next]_(PumpProofs!vars)

THEOREM ImplementsReadPump == Spec => AsReadPump
<1>1. [Next]_vars => [PumpProofs!Next]_(PumpProofs!vars)
  BY PumpStep
<1>. QED BY <1>1, PumpInit, PTL DEF Spec, AsReadPump

-----------------------------------------------------------------------------
(* What was proved of the two alone.                                       *)

PumpInv == PumpProofs!TypeOK /\ PumpProofs!Unstarted /\ PumpProofs!IInv

LEMMA PumpInvariance == Spec => []PumpInv
<1>1. Init => PumpInv
  BY PumpInit, DataPathAssumption, PumpProofs!TypeInit, PumpProofs!InitIInv DEF PumpInv
<1>2. PumpInv /\ [Next]_vars => PumpInv'
  <2>. SUFFICES ASSUME PumpInv, [Next]_vars PROVE PumpInv'
    OBVIOUS
  <2>1. [PumpProofs!Next]_(PumpProofs!vars)
    BY PumpStep
  <2>2. PumpProofs!TypeOK' /\ PumpProofs!Unstarted'
    BY <2>1, DataPathAssumption, PumpProofs!TypeStep DEF PumpInv
  <2>3. PumpProofs!IInv'
    BY <2>1, DataPathAssumption, PumpProofs!NextIInv
    DEF PumpInv, PumpProofs!NoRaces, PumpProofs!NoLateExit
  <2>. QED BY <2>2, <2>3 DEF PumpInv
<1>. QED BY <1>1, <1>2, PTL DEF Spec

\* The request, its buffer and its context have one user at a time in the whole path.
THEOREM OneReaderInThePath == Spec => []OneReader
<1>1. PumpInv => PumpProofs!OneReader
  BY DataPathAssumption, PumpProofs!OneReaderHolds DEF PumpInv
<1>2. PumpProofs!OneReader => OneReader
  BY DEF OneReader, Pump!OneReader, Pump!Users, Pump!Threads, PumpProofs!OneReader,
     PumpProofs!Users, PumpProofs!Threads
<1>. QED BY <1>1, <1>2, PumpInvariance, PTL

-----------------------------------------------------------------------------
(* What the pump uses outlives it.                                         *)

AtRest == request = "free" /\ \A t \in PumpProofs!Threads : pc[t] = "idle"

\* A device whose start or D0Entry fails has its pump at rest: the thread that gives up
\* is the only one in it.
FailedIsAtRest == power = "failed" => AtRest

\* Until SelfManagedIoInit, and after ReadResourcesFree, the pump is at rest.
Resourced ==
    /\ device = "removed" => power \in {"low", "failed"}
    /\ ~ReadRequest => device = "removed" \/ power \in {"start", "failed"}
    /\ device = "removed" \/ ~ReadRequest => AtRest

LEMMA GivesUpAtRest ==
    ASSUME PumpInv, NEW t \in PumpProofs!Threads, PumpProofs!ReadH4Packet(t),
           power # "failed", power' = "failed"
    PROVE  AtRest'
<1>1. t = Pnp /\ pc' = [pc EXCEPT ![t] = "idle"] /\ request' = request
  BY DEF PumpProofs!ReadH4Packet, PumpProofs!CheckFails, PumpProofs!Check, PumpProofs!MarkSent,
     PumpProofs!Send, PumpProofs!SendFails, PumpProofs!LeavesToRoutine, PumpProofs!LoopsOn,
     PumpProofs!LoopsNoMore, PumpProofs!GivesUp, PumpProofs!Goes, PumpProofs!device,
     PumpProofs!context
<1>2. \/ pc[t] \in {"check", "send"}
      \/ /\ pc[t] = "exchange" /\ RequestState # "SENT"
         /\ \A u \in PumpProofs!Threads : ~PumpProofs!InRoutine(u)
  BY DEF PumpProofs!ReadH4Packet, PumpProofs!CheckFails, PumpProofs!Check, PumpProofs!MarkSent,
     PumpProofs!Send, PumpProofs!SendFails, PumpProofs!LeavesToRoutine, PumpProofs!LoopsOn,
     PumpProofs!LoopsNoMore, PumpProofs!SendReturned, PumpProofs!device
<1>3. request = "free" /\ \A u \in PumpProofs!Threads : u # t => pc[u] = "idle"
  BY <1>2, DataPathAssumption, PumpProofs!GivesUpLast DEF PumpInv, PumpProofs!Alone
<1>. QED BY <1>1, <1>3 DEF AtRest, PumpInv, PumpProofs!TypeOK

LEMMA FailedStep ==
    ASSUME PumpInv, FailedIsAtRest, [PumpProofs!Next]_(PumpProofs!vars)
    PROVE  FailedIsAtRest'
<1>1. ASSUME NEW t \in PumpProofs!Threads, PumpProofs!ReadH4Packet(t)
      PROVE  FailedIsAtRest'
  <2>1. CASE power = "failed"
    <3>1. pc[t] = "idle"
      BY <2>1 DEF FailedIsAtRest, AtRest
    <3>. QED BY <1>1, <3>1 DEF PumpProofs!ReadH4Packet, PumpProofs!CheckFails, PumpProofs!Check,
                PumpProofs!MarkSent, PumpProofs!Send, PumpProofs!SendFails,
                PumpProofs!LeavesToRoutine, PumpProofs!LoopsOn, PumpProofs!LoopsNoMore,
                PumpProofs!SendReturned
  <2>2. CASE power # "failed"
    BY <1>1, <2>2, GivesUpAtRest DEF FailedIsAtRest
  <2>. QED BY <2>1, <2>2
<1>2. ASSUME NEW t \in PumpProofs!Threads, PumpProofs!Routine(t)
      PROVE  FailedIsAtRest'
  BY <1>2 DEF PumpProofs!Routine, PumpProofs!Enter, PumpProofs!Process, PumpProofs!device,
     FailedIsAtRest, AtRest
<1>3. CASE PumpProofs!UartCompletes
  BY <1>3 DEF PumpProofs!UartCompletes, PumpProofs!device, FailedIsAtRest, AtRest
<1>4. CASE PumpProofs!PnpCallback
  <2>1. CASE PumpProofs!StartFails
    <3>1. AtRest
      BY <2>1 DEF PumpProofs!StartFails, PumpInv, PumpProofs!Unstarted, PumpProofs!IInv, PumpProofs!SInv,
         PumpProofs!Power, PumpProofs!AllIdle, AtRest
    <3>. QED BY <2>1, <3>1 DEF PumpProofs!StartFails, PumpProofs!locals, AtRest, FailedIsAtRest
  <2>2. CASE ~PumpProofs!StartFails
    <3>1. power' # "failed"
      BY <1>4, <2>2 DEF PumpProofs!PnpCallback, PumpProofs!SelfManagedIoInit,
         PumpProofs!Invalidated, PumpProofs!Invalidate, PumpProofs!StopTarget,
         PumpProofs!D0Exit, PumpProofs!StartTarget, PumpProofs!D0Entry
    <3>. QED BY <3>1 DEF FailedIsAtRest
  <2>. QED BY <2>1, <2>2
<1>5. CASE PumpProofs!Failed \/ UNCHANGED PumpProofs!vars
  BY <1>5 DEF PumpProofs!Failed, PumpProofs!vars, PumpProofs!locals, PumpProofs!device,
     FailedIsAtRest, AtRest
<1>. QED BY <1>1, <1>2, <1>3, <1>4, <1>5 DEF PumpProofs!Next

\* A pump at rest moves only by a power callback.
LEMMA AtRestMoves ==
    ASSUME AtRest, [Next]_vars
    PROVE  UNCHANGED pumpVars \/ PowerCallback
<1>1. ASSUME NEW t \in Pump!Threads, InPump(t)
      PROVE  UNCHANGED pumpVars
  <2>1. pc[t] = "idle"
    BY DEF AtRest, Pump!Threads, PumpProofs!Threads
  <2>2. ~Sends(t) /\ ~Processed(t)
    BY <2>1 DEF Sends, Processed, Pump!ReadH4Packet, Pump!CheckFails, Pump!Check, Pump!MarkSent,
       Pump!Send, Pump!SendFails, Pump!LeavesToRoutine, Pump!LoopsOn, Pump!LoopsNoMore,
       Pump!SendReturned, Pump!Enter, Pump!Process
  <2>. QED BY <1>1, <2>2 DEF InPump, PacketComplete, PacketDelivered
<1>2. ~UartCompletes
  BY DEF UartCompletes, Pump!UartCompletes, AtRest
<1>. QED BY <1>1, <1>2 DEF Next, Dispatch, InIoctl, CancelRead, PauseQueues, ResumeQueues,
            ReadResourcesFree, Ends, vars

\* Only the power callbacks of a device that is there start anything.
LEMMA CallbackAtRest ==
    ASSUME Resourced, device = "removed" \/ ~ReadRequest, PowerCallback
    PROVE  Resourced'
<1>. USE DEF Resourced, PowerCallback, streamVars
<1>1. CASE SelfManagedIoInit
  <2>1. CASE Pump!SelfManagedIoInit /\ ReadRequest' = TRUE
    BY <2>1 DEF Pump!SelfManagedIoInit, Pump!device
  <2>2. CASE power = "start" /\ Pump!StartFails /\ UNCHANGED ReadRequest
    BY <2>2 DEF Pump!StartFails, Pump!locals, AtRest
  <2>. QED BY <1>1, <2>1, <2>2 DEF SelfManagedIoInit
<1>2. CASE D0Exit \/ D0Entry
  <2>1. power \in {"start", "failed"} /\ device = "low"
    BY <1>2 DEF D0Exit, D0Entry
  <2>. QED BY <1>2, <2>1 DEF D0Exit, D0Entry, Pump!Invalidate, Pump!StopTarget, Pump!D0Exit,
              Pump!StartTarget, Pump!StartFails, Pump!D0Entry
<1>3. CASE Pump!Invalidated
  BY <1>3 DEF Pump!Invalidated
<1>. QED BY <1>1, <1>2, <1>3

\* Nothing else removes the device, or takes the request away.
LEMMA NotRemoving ==
    ASSUME [Next]_vars, ~ReadResourcesFree
    PROVE  /\ device' = "removed" <=> device = "removed"
           /\ ReadRequest => ReadRequest'
<1>1. ASSUME NEW t \in Pump!Threads, InPump(t)
      PROVE  UNCHANGED <<device, ReadRequest>>
  BY <1>1 DEF InPump, Sends, PacketComplete, PacketDelivered, Processed, streamVars,
     Stream!PumpTakesRequest, Stream!PumpListsPacket, Stream!PumpDropsPacket, Stream!PumpDelivers
<1>2. ASSUME NEW r \in Reads, Dispatch(r) \/ InIoctl(r) \/ CancelRead(r)
      PROVE  UNCHANGED <<device, ReadRequest>>
  BY <1>2 DEF Dispatch, InIoctl, CancelRead, Stream!Refuse, Stream!Forward, Stream!Ioctl,
     Stream!CancelRead, Stream!LeavePending, Stream!TakeListed, Stream!MissRequest,
     Stream!DeliverListed, Stream!Epilogue
<1>3. CASE UartCompletes \/ PowerCallback \/ Ends \/ UNCHANGED vars
  BY <1>3 DEF UartCompletes, PowerCallback, SelfManagedIoInit, D0Exit, D0Entry, Ends, vars,
     streamVars
<1>4. CASE PauseQueues \/ ResumeQueues
  BY <1>4 DEF PauseQueues, ResumeQueues, Stream!LeaveD0, Stream!EnterD0
<1>. QED BY <1>1, <1>2, <1>3, <1>4 DEF Next

LEMMA ResourcedStep ==
    ASSUME PumpInv, FailedIsAtRest, Resourced, [Next]_vars
    PROVE  Resourced'
<1>1. CASE device = "removed" \/ ~ReadRequest
  <2>1. CASE PowerCallback
    BY <1>1, <2>1, CallbackAtRest
  <2>2. CASE UNCHANGED pumpVars
    <3>1. UNCHANGED <<power, request, pc>>
      BY <2>2 DEF pumpVars
    <3>2. AtRest'
      BY <1>1, <3>1 DEF Resourced, AtRest
    <3>3. CASE ReadResourcesFree
      BY <3>1, <3>2, <3>3 DEF ReadResourcesFree, Resourced
    <3>4. CASE ~ReadResourcesFree /\ ~PowerCallback
      <4>1. UNCHANGED ReadRequest
        BY <3>4 DEF Next, InPump, Sends, PacketComplete, PacketDelivered, Processed, Dispatch,
           InIoctl, CancelRead, UartCompletes, PauseQueues, ResumeQueues, Ends, vars
      <4>2. device' = "removed" <=> device = "removed"
        BY <3>4, NotRemoving
      <4>. QED BY <3>1, <3>2, <4>1, <4>2 DEF Resourced
    <3>. QED BY <2>1, <3>3, <3>4
  <2>. QED BY <1>1, <2>1, <2>2, AtRestMoves DEF Resourced
<1>2. CASE device # "removed" /\ ReadRequest
  <2>1. CASE ReadResourcesFree
    <3>1. AtRest
      BY <2>1 DEF ReadResourcesFree, FailedIsAtRest, PumpInv, PumpProofs!IInv,
         PumpProofs!SInv, PumpProofs!Power, PumpProofs!AllIdle, AtRest
    <3>. QED BY <2>1, <3>1 DEF ReadResourcesFree, Resourced, pumpVars, AtRest
  <2>2. CASE ~ReadResourcesFree
    BY <1>2, <2>2, NotRemoving DEF Resourced
  <2>. QED BY <2>1, <2>2
<1>. QED BY <1>1, <1>2

\* ReadResourcesFree finds nobody who uses what it frees, although it asks nobody, and
\* neither do the callbacks of a device whose start has failed.
THEOREM ResourcesOutliveThePump == Spec => []PumpHasItsResources
<1>1. Init => FailedIsAtRest /\ Resourced
  <2>. SUFFICES ASSUME Init PROVE FailedIsAtRest /\ Resourced
    OBVIOUS
  <2>1. power = "start" /\ request = "free" /\ device = "d0"
        /\ pc = [t \in PumpProofs!Threads |-> "idle"]
    BY PumpInit DEF Init, Stream!Init, PumpProofs!Init
  <2>. QED BY <2>1 DEF FailedIsAtRest, Resourced, AtRest
<1>2. PumpInv /\ FailedIsAtRest /\ Resourced /\ [Next]_vars => FailedIsAtRest' /\ Resourced'
  BY PumpStep, FailedStep, ResourcedStep
<1>3. Resourced => PumpHasItsResources
  BY DEF Resourced, AtRest, PumpHasItsResources, PumpUsers, Pump!Users, Pump!Threads,
     PumpProofs!Threads
<1>. QED BY <1>1, <1>2, <1>3, PumpInvariance, PTL DEF Spec

-----------------------------------------------------------------------------
(* The list and its readers behind the real pump.                          *)

\* As for the pump, the definitions that StreamProofs reads are those composed here.
LEMMA SameIoctl ==
    ASSUME NEW r, Stream!Refuse(r) \/ Stream!Forward(r) \/ Stream!Ioctl(r) \/ Stream!CancelRead(r)
    PROVE  StreamProofs!Refuse(r) \/ StreamProofs!Forward(r) \/ StreamProofs!Ioctl(r)
           \/ StreamProofs!CancelRead(r)
<1>1. CASE Stream!Refuse(r) \/ Stream!Forward(r)
  BY <1>1 DEF Stream!Refuse, StreamProofs!Refuse, Stream!Forward, StreamProofs!Forward,
      Stream!requests, StreamProofs!requests
<1>2. CASE Stream!LeavePending(r) \/ Stream!TakeListed(r) \/ Stream!MissRequest(r)
  BY <1>2 DEF StreamProofs!Ioctl, Stream!LeavePending, StreamProofs!LeavePending, Stream!TakeListed,
      StreamProofs!TakeListed, Stream!MissRequest, StreamProofs!MissRequest,
      Stream!Retrievable, StreamProofs!Retrievable, Stream!requests, StreamProofs!requests
<1>3. CASE Stream!DeliverListed(r) \/ Stream!Epilogue(r)
  BY <1>3 DEF StreamProofs!Ioctl, Stream!DeliverListed, StreamProofs!DeliverListed, Stream!Epilogue,
      StreamProofs!Epilogue, Stream!Outcomes, StreamProofs!Outcomes, Stream!Delivered,
      StreamProofs!Delivered, Stream!EmptyHand, StreamProofs!EmptyHand
<1>4. CASE Stream!CancelRead(r)
  BY <1>4 DEF Stream!CancelRead, StreamProofs!CancelRead, Stream!hands, StreamProofs!hands
<1>. QED BY <1>1, <1>2, <1>3, <1>4 DEF Stream!Ioctl

LEMMA SameStream ==
    ASSUME [Stream!Next]_(Stream!vars)
    PROVE  [StreamProofs!Next]_(StreamProofs!vars)
<1>1. CASE \E r \in Reads : Stream!Refuse(r) \/ Stream!Forward(r) \/ Stream!Ioctl(r)
                            \/ Stream!CancelRead(r)
  BY <1>1, SameIoctl DEF StreamProofs!Next
<1>2. CASE Stream!PumpTakesRequest \/ Stream!PumpListsPacket \/ Stream!PumpDropsPacket
  BY <1>2 DEF StreamProofs!Next, Stream!PumpTakesRequest, StreamProofs!PumpTakesRequest, Stream!PumpListsPacket,
      StreamProofs!PumpListsPacket, Stream!PumpDropsPacket, StreamProofs!PumpDropsPacket,
      Stream!Arrives, StreamProofs!Arrives, Stream!Retrievable, StreamProofs!Retrievable,
      Stream!hands, StreamProofs!hands, Stream!requests, StreamProofs!requests
<1>3. CASE Stream!PumpDelivers
  BY <1>3 DEF StreamProofs!Next, Stream!PumpDelivers, StreamProofs!PumpDelivers, Stream!Outcomes,
      StreamProofs!Outcomes, Stream!Delivered, StreamProofs!Delivered, Stream!EmptyHand,
      StreamProofs!EmptyHand
<1>4. CASE Stream!LeaveD0 \/ Stream!EnterD0 \/ Stream!Remove
  BY <1>4 DEF StreamProofs!Next, Stream!LeaveD0, StreamProofs!LeaveD0, Stream!EnterD0, StreamProofs!EnterD0,
      Stream!Remove, StreamProofs!Remove, Stream!ThreadsOut, StreamProofs!ThreadsOut,
      Stream!hands, StreamProofs!hands, Stream!requests, StreamProofs!requests
<1>5. CASE Stream!Exhausted \/ UNCHANGED Stream!vars
  BY <1>5 DEF Stream!Exhausted, Stream!vars, StreamProofs!vars, Stream!hands, StreamProofs!hands, Stream!requests,
      StreamProofs!requests
<1>. QED BY <1>1, <1>2, <1>3, <1>4, <1>5 DEF Stream!Next

\* The refinement in the terms of StreamProofs, and its assumptions.
LEMMA StreamBehaves == Spec => StreamProofs!Init /\ [][StreamProofs!Next]_(StreamProofs!vars)
<1>1. Init => StreamProofs!Init
  BY DEF Init, Stream!Init, StreamProofs!Init, Stream!EmptyHand, StreamProofs!EmptyHand
<1>2. [Stream!Next]_(Stream!vars) => [StreamProofs!Next]_(StreamProofs!vars)
  BY SameStream
<1>. QED BY <1>1, <1>2, ImplementsReadQueue, PTL DEF AsReadQueue, Spec

LEMMA StreamAssumption == StreamProofs!ReadQueueAssumption
<1>1. FALSE \in BOOLEAN /\ TRUE \in BOOLEAN
  OBVIOUS
<1>2. IsFiniteSet(Reads) => StreamProofs!IsFiniteSet(Reads)
  BY Zenon DEF IsFiniteSet, StreamProofs!IsFiniteSet
<1>. QED BY <1>1, <1>2, DataPathAssumption DEF StreamProofs!ReadQueueAssumption

\* The list keeps the order of arrival behind the real pump.
THEOREM OrderInThePath == Spec => []StreamProofs!ListInArrivalOrder
<1>1. StreamProofs!Init => StreamProofs!Ordered
  BY StreamAssumption, StreamProofs!OrderedInit
<1>2. StreamProofs!Ordered /\ [StreamProofs!Next]_(StreamProofs!vars) => StreamProofs!Ordered'
  BY StreamAssumption, StreamProofs!OrderedStep
<1>3. StreamProofs!Ordered => StreamProofs!ListInArrivalOrder
  BY DEF StreamProofs!Ordered
<1>. QED BY <1>1, <1>2, <1>3, StreamBehaves, PTL

\* Behind the real pump, and whatever D0Exit and ReadResourcesFree do to it, no request
\* that was dispatched is forgotten or claimed twice.
THEOREM ReadsInThePath == Spec => []StreamProofs!ReadsAccountedFor
<1>1. StreamProofs!Init => StreamProofs!ReadsInv
  BY StreamAssumption, StreamProofs!ReadsInit
<1>2. StreamProofs!ReadsInv /\ [StreamProofs!Next]_(StreamProofs!vars) => StreamProofs!ReadsInv'
  BY StreamAssumption, StreamProofs!ReadsStep
<1>3. StreamProofs!ReadsInv => StreamProofs!ReadsAccountedFor
  BY StreamAssumption, StreamProofs!ReadsAccount
<1>. QED BY <1>1, <1>2, <1>3, StreamBehaves, PTL

\* Nor is a packet lost or handed out twice.
THEOREM PacketsInThePath == Spec => []StreamProofs!PacketsConserved
<1>1. StreamProofs!Init => StreamProofs!PlacesInv
  BY StreamAssumption, StreamProofs!PlacesInit
<1>2. StreamProofs!PlacesInv /\ [StreamProofs!Next]_(StreamProofs!vars) => StreamProofs!PlacesInv'
  BY StreamAssumption, StreamProofs!PlacesStep
<1>3. StreamProofs!PlacesInv => StreamProofs!PacketsConserved
  BY StreamAssumption, StreamProofs!PlacesConserve
<1>. QED BY <1>1, <1>2, <1>3, StreamBehaves, PTL
=============================================================================
