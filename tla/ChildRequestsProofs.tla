------------------------ MODULE ChildRequestsProofs ------------------------
(***************************************************************************)
(* The safety of the child's requests and of the parent's power for any    *)
(* number of requests and any board.                                       *)
(***************************************************************************)
EXTENDS ChildRequests, TLAPS

\* The references as a function of where the child stands: PdoDevReleaseHardware
\* gives one back whether or not PdoDevPrepareHardware took it.
References ==
    /\ refused => parent = "failed" /\ child \in {"releasing", "absent"}
    /\ idleRefs = IF child \in Holding THEN 1
                  ELSE IF child = "releasing" THEN IF refused THEN 0 ELSE 1
                  ELSE IF refused THEN -1 ELSE 0

\* The inductive invariant.
IInv ==
    TypeOK /\ References /\ CompletedByItsOwner /\ HandledInD0 /\ WakeOnOwnedLines

LEMMA InitIInv == Init => IInv
<1>. SUFFICES ASSUME Init PROVE IInv
  OBVIOUS
<1>. USE DEF Init
<1>1. TypeOK
  <2>1. cancelled \in [All -> BOOLEAN] /\ refused \in BOOLEAN /\ code \in [All -> Codes]
    BY Zenon
  <2>2. owner \in [All -> {"new", "childQueue", "childHandler", "done"} \cup AtParent]
    OBVIOUS
  <2>. QED BY <2>1, <2>2 DEF TypeOK
<1>2. References
  BY DEF References, Holding
<1>3. CompletedByItsOwner /\ HandledInD0 /\ WakeOnOwnedLines
  BY DEF CompletedByItsOwner, HandledInD0, WakeOnOwnedLines, InDriver
<1>. QED BY <1>1, <1>2, <1>3 DEF IInv

-----------------------------------------------------------------------------
(* The steps of the requests.                                              *)

RequestStep(r) ==
    \/ Submit(r) \/ ChildDispatches(r) \/ Forward(r) \/ Refuse(r) \/ ParentDispatches(r)
    \/ Answer(r) \/ Park(r) \/ SendToUart(r) \/ Comes(r)
    \/ CancelTakesEffect(r) \/ Purge(r) \/ Cancel(r)

\* A step hands one request on, completes it, or sets its cancel bit, and it does
\* so to a request that nobody has completed.
LEMMA RequestStepShape ==
    ASSUME NEW r \in All, TypeOK, RequestStep(r)
    PROVE  /\ UnchangedButRequests
           /\ owner[r] # "done"
           /\ \/ Completes(r)
              \/ \E to \in {"childQueue", "childHandler", "parentQueue", "parked"} : Hands(r, to)
              \/ Hands(r, "parentHandler") /\ parent = "D0"
              \/ Hands(r, "uart") /\ owner[r] = "parentHandler"
              \/ /\ cancelled' = [cancelled EXCEPT ![r] = TRUE]
                 /\ UNCHANGED <<owner, completions>>
<1>1. CASE Submit(r) \/ ChildDispatches(r) \/ Forward(r) \/ ParentDispatches(r)
  BY <1>1 DEF Submit, ChildDispatches, Forward, ParentDispatches, ParentQueueRuns
<1>2. CASE Refuse(r) \/ Answer(r) \/ Comes(r) \/ CancelTakesEffect(r) \/ Purge(r)
  BY <1>2 DEF Refuse, Answer, Comes, CancelTakesEffect, Purge, AtParent, InDriver, Cancelable
<1>3. CASE Park(r) \/ SendToUart(r)
  BY <1>3 DEF Park, SendToUart
<1>4. CASE Cancel(r)
  BY <1>4 DEF Cancel
<1>. QED BY <1>1, <1>2, <1>3, <1>4 DEF RequestStep

LEMMA RequestStepIInv ==
    ASSUME NEW r \in All, IInv, RequestStep(r)
    PROVE  IInv'
<1>. USE DEF UnchangedButRequests, board, powers, idle, Hands, Completes
<1>0. /\ TypeOK /\ References /\ CompletedByItsOwner /\ HandledInD0 /\ WakeOnOwnedLines
      /\ UnchangedButRequests
      /\ owner[r] # "done"
      /\ \/ Completes(r)
         \/ \E to \in {"childQueue", "childHandler", "parentQueue", "parked"} : Hands(r, to)
         \/ Hands(r, "parentHandler") /\ parent = "D0"
         \/ Hands(r, "uart") /\ owner[r] = "parentHandler"
         \/ /\ cancelled' = [cancelled EXCEPT ![r] = TRUE]
            /\ UNCHANGED <<owner, completions>>
  BY RequestStepShape DEF IInv
<1>1. TypeOK'
  <2>1. owner' \in [All -> {"new", "childQueue", "childHandler", "done"} \cup AtParent]
    BY <1>0 DEF TypeOK, AtParent, InDriver
  <2>2. completions' \in [All -> Nat]
    BY <1>0 DEF TypeOK
  <2>3. cancelled' \in [All -> BOOLEAN]
    BY <1>0 DEF TypeOK
  <2>. QED BY <1>0, <2>1, <2>2, <2>3 DEF TypeOK
<1>2. References' /\ WakeOnOwnedLines'
  BY <1>0 DEF References, WakeOnOwnedLines
<1>3. CompletedByItsOwner'
  BY <1>0 DEF CompletedByItsOwner, TypeOK
<1>4. HandledInD0'
  BY <1>0 DEF HandledInD0, InDriver, TypeOK
<1>. QED BY <1>1, <1>2, <1>3, <1>4 DEF IInv

-----------------------------------------------------------------------------
(* The steps of the child and of the parent.                               *)

ChildStep ==
    \/ Create \/ PdoDevPrepareHardware \/ PrepareRefused \/ PowerUp \/ PdoDevD0Entry
    \/ PdoDevD0Exit \/ Remove \/ PdoDevReleaseHardware

ParentStep ==
    ParentIdles \/ SystemSleeps \/ SystemWakes \/ ParentLeaves \/ ParentReturns

LEMMA ChildStepIInv ==
    ASSUME IInv, ChildStep
    PROVE  IInv'
<1>. USE DEF board, powers, idle, requests
<1>0. TypeOK /\ References /\ CompletedByItsOwner /\ HandledInD0 /\ WakeOnOwnedLines
  BY DEF IInv
<1>1. owner' = owner /\ completions' = completions /\ parent' = parent /\ power' = power
  BY DEF ChildStep, Create, PdoDevPrepareHardware, PrepareRefused, PowerUp, PdoDevD0Entry,
         PdoDevD0Exit, Remove, PdoDevReleaseHardware, CancelPending
<1>2. CompletedByItsOwner' /\ HandledInD0'
  BY <1>0, <1>1 DEF CompletedByItsOwner, HandledInD0
<1>3. CASE Create \/ PdoDevPrepareHardware \/ PrepareRefused \/ PowerUp \/ PdoDevReleaseHardware
  <2>1. References'
    BY <1>0, <1>3 DEF References, Create, PdoDevPrepareHardware, PrepareRefused, PowerUp,
       PdoDevReleaseHardware, Holding, TypeOK
  <2>4. idleRefs' \in -1 .. 1
    BY <2>1 DEF References
  <2>5. child' \in {"absent", "created", "releasing"} \cup Holding
    BY <1>3 DEF Create, PdoDevPrepareHardware, PrepareRefused, PowerUp, PdoDevReleaseHardware,
       Holding
  <2>6. /\ refused' \in BOOLEAN
        /\ UNCHANGED <<code, power, owner, cancelled, completions, parent, system, wake>>
    BY <1>0, <1>3 DEF Create, PdoDevPrepareHardware, PrepareRefused, PowerUp,
       PdoDevReleaseHardware, TypeOK
  <2>2. TypeOK'
    BY <1>0, <2>4, <2>5, <2>6 DEF TypeOK
  <2>3. WakeOnOwnedLines'
    BY <1>0, <1>3 DEF WakeOnOwnedLines, Create, PdoDevPrepareHardware, PrepareRefused, PowerUp,
       PdoDevReleaseHardware
  <2>. QED BY <1>2, <2>1, <2>2, <2>3 DEF IInv
<1>4. CASE PdoDevD0Entry \/ PdoDevD0Exit \/ Remove
  <2>1. References'
    <3>1. CASE PdoDevD0Entry
      BY <1>0, <3>1 DEF References, PdoDevD0Entry, Holding
    <3>2. CASE PdoDevD0Exit
      BY <1>0, <3>2 DEF References, PdoDevD0Exit, Holding
    <3>3. CASE Remove
      BY <1>0, <3>3 DEF References, Remove, Holding
    <3>. QED BY <1>4, <3>1, <3>2, <3>3
  <2>2. cancelled' \in [All -> BOOLEAN] /\ wake' \in {"disarmed", "armed"}
    BY <1>0, <1>4 DEF TypeOK, PdoDevD0Entry, PdoDevD0Exit, Remove, CancelPending
  <2>3. TypeOK'
    BY <1>0, <1>4, <2>2 DEF TypeOK, PdoDevD0Entry, PdoDevD0Exit, Remove, CancelPending, Holding
  <2>4. wake' = "armed" => wake = "armed" \/ IfxBtConfigureWake(power, TRUE) = "SUCCESS"
    BY <1>4 DEF PdoDevD0Entry, PdoDevD0Exit, Remove
  <2>5. ASSUME IfxBtConfigureWake(power, TRUE) = "SUCCESS"
        PROVE  /\ ~power.PlaceholderPowerConfig
               /\ {power.HostWakeOwnership, power.DevWakeOwnership} \cap
                     {"PlaceholderUnknown", "DriverControlledGpio", "Invalid"} = {}
    <3>1. IfxBtPlatformValidatePowerConfig(power) = "SUCCESS"
      BY <2>5 DEF IfxBtConfigureWake
    <3>2. "DriverControlledGpio" \notin {power.HostWakeOwnership, power.DevWakeOwnership}
      BY <2>5, <3>1 DEF IfxBtConfigureWake
    <3>3. /\ ~power.PlaceholderPowerConfig
          /\ OwnershipsOf(power) \subseteq Ownerships
          /\ "PlaceholderUnknown" \notin OwnershipsOf(power)
      BY <3>1 DEF IfxBtPlatformValidatePowerConfig
    <3>. QED BY <3>2, <3>3 DEF OwnershipsOf, Ownerships
  <2>6. WakeOnOwnedLines'
    BY <1>0, <1>1, <2>4, <2>5 DEF WakeOnOwnedLines
  <2>. QED BY <1>2, <2>1, <2>3, <2>6 DEF IInv
<1>. QED BY <1>3, <1>4 DEF ChildStep

LEMMA ParentStepIInv ==
    ASSUME IInv, ParentStep
    PROVE  IInv'
<1>. USE DEF board, powers, idle, requests, ParentStep, ParentIdles, SystemSleeps, SystemWakes,
             ParentLeaves, ParentReturns, IInv
<1>1. TypeOK'
  BY DEF TypeOK
<1>2. References'
  BY DEF References
<1>3. CompletedByItsOwner' /\ WakeOnOwnedLines'
  BY DEF CompletedByItsOwner, WakeOnOwnedLines
<1>4. HandledInD0'
  BY DEF HandledInD0
<1>. QED BY <1>1, <1>2, <1>3, <1>4

LEMMA NextCases ==
    ASSUME [Next]_vars
    PROVE  (\E r \in All : RequestStep(r)) \/ ChildStep \/ ParentStep \/ UNCHANGED vars
BY DEF Next, RequestStep, ChildStep, ParentStep, Handler, ChildSteps, Rest

LEMMA NextIInv == IInv /\ [Next]_vars => IInv'
<1>. SUFFICES ASSUME IInv, [Next]_vars PROVE IInv'
  OBVIOUS
<1>1. CASE UNCHANGED vars
  BY <1>1 DEF vars, board, requests, powers, idle, IInv, TypeOK, References, CompletedByItsOwner,
              HandledInD0, WakeOnOwnedLines
<1>. QED BY <1>1, NextCases, RequestStepIInv, ChildStepIInv, ParentStepIInv

LEMMA Invariance == Spec => []IInv
BY InitIInv, NextIInv, PTL DEF Spec

-----------------------------------------------------------------------------
(* The theorems.                                                           *)

\* Every variable keeps its range; the parent has at most one reference too many or
\* too few.
THEOREM TypeCorrect == Spec => []TypeOK
BY Invariance, PTL DEF IInv

\* No request is completed twice or by one who has handed it on, for any number of
\* requests (SEND_AND_FORGET, pdo.c:1179-1209).
THEOREM CompletedOnceByItsOwner == Spec => []CompletedByItsOwner
BY Invariance, PTL DEF IInv

\* The power-managed queue keeps the parent's handler and the UART's writes out of
\* the low power states (driver.c:254-281).
THEOREM HandlersRunInD0 == Spec => []HandledInD0
BY Invariance, PTL DEF IInv

\* The wake lines of a board that leaves them to the driver, or says nothing of them,
\* are never armed (device.c:256-310).
THEOREM WakeNeedsAnOwner == Spec => []WakeOnOwnedLines
BY Invariance, PTL DEF IInv

\* The unconditional WdfDeviceResumeIdle of PdoDevReleaseHardware (pdo.c:958) takes a
\* reference that was not there only where the parent has failed.
THEOREM ReferencesBalance == Spec => []IdleReferencesAccounted
<1>1. IInv => IdleReferencesAccounted
  BY DEF IInv, References, IdleReferencesAccounted, Holding, TypeOK
<1>. QED BY <1>1, Invariance, PTL

\* The parent never idles out under a child that holds its hardware (Fdo.c:1357).
THEOREM ChildKeepsParentUp == Spec => NoIdleUnderChild
<1>1. IInv /\ [Next]_vars =>
         [system = "S0" /\ parent = "D0" /\ parent' = "leaving" /\ system' = "S0"
              => child \notin Holding]_vars
  <2>. SUFFICES ASSUME IInv, [Next]_vars, parent = "D0", parent' = "leaving", system' = "S0"
                PROVE  child \notin Holding
    OBVIOUS
  <2>1. CASE \E r \in All : RequestStep(r)
    BY <2>1, RequestStepShape DEF IInv, UnchangedButRequests, powers
  <2>2. CASE ChildStep
    BY <2>2 DEF ChildStep, Create, PdoDevPrepareHardware, PrepareRefused, PowerUp, PdoDevD0Entry,
       PdoDevD0Exit, Remove, PdoDevReleaseHardware, powers
  <2>3. CASE ParentStep
    <3>1. ParentIdles
      BY <2>3 DEF ParentStep, ParentIdles, SystemSleeps, SystemWakes, ParentLeaves, ParentReturns
    <3>2. idleRefs <= 0 /\ ~refused
      BY <3>1 DEF ParentIdles, IInv, References
    <3>. QED BY <3>2 DEF IInv, References
  <2>4. CASE UNCHANGED vars
    BY <2>4 DEF vars, powers
  <2>. QED BY <2>1, <2>2, <2>3, <2>4, NextCases
<1>. QED BY <1>1, Invariance, PTL DEF Spec, NoIdleUnderChild
=============================================================================
