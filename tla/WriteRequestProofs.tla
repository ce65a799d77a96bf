------------------------- MODULE WriteRequestProofs -------------------------
(***************************************************************************)
(* The safety of the write path for every set of requests and every        *)
(* environment: who may complete the upper request in each combination of  *)
(* the three program counters, and what is alive then.                     *)
(***************************************************************************)
EXTENDS WriteRefinement, TLAPS

\* Before the request is marked cancelable only the dispatch thread knows it.
BeforeMark(w) ==
    /\ dispatch[w] \in {"idle", "prepare", "mark"} =>
          /\ callback[w] = "idle" /\ routine[w] = "idle" /\ uart[w] = "idle"
          /\ path[w] = {} /\ mark[w] = "unmarked" /\ completions[w] = 0 /\ result[w] = "none"
    /\ dispatch[w] \in {"idle", "prepare"} => upperRefs[w] = 0 /\ lowerRefs[w] = 0
    /\ dispatch[w] = "mark" => upperRefs[w] = 1 /\ lowerRefs[w] = 1

\* The send and, when it fails, the way back; the routine has not started.
AroundSend(w) ==
    /\ dispatch[w] \in {"send", "unmark"} => mark[w] \in {"marked", "fired"}
    /\ dispatch[w] = "dropCancelled" => mark[w] = "fired"
    /\ dispatch[w] = "dropOwned" =>
          mark[w] = "unmarked" /\ callback[w] = "idle" /\ completions[w] = 0
    /\ dispatch[w] \in {"send", "unmark", "dropOwned", "dropCancelled"} =>
          uart[w] = "idle" /\ lower[w] = "live" /\ upperRefs[w] = 1
    /\ dispatch[w] # "returned" \/ uart[w] \in {"idle", "inflight", "cancelling"} =>
          routine[w] = "idle"
    /\ uart[w] = "done" => routine[w] # "idle"

\* What the bits of RequestCompletePath say of the two callers.
PathTracksThreads(w) ==
    /\ mark[w] = "fired" <=> callback[w] # "idle"
    /\ "CANCELLATION" \in path[w] <=> callback[w] \notin {"idle", "claim"}
    /\ routine[w] \in {"idle", "claim"} => "COMPLETION" \notin path[w]
    /\ routine[w] \in {"unmark", "relinquish", "release", "complete"} =>
          "COMPLETION" \in path[w]
    /\ routine[w] = "relinquish" => mark[w] = "fired"
    /\ routine[w] = "unmark" => mark[w] # "unmarked"
    /\ routine[w] \in {"release", "complete"} => mark[w] # "marked"
    /\ routine[w] \in {"cleanup", "done"} /\ callback[w] = "idle" => mark[w] = "unmarked"
    /\ uart[w] \in {"inflight", "cancelling"} \/ routine[w] = "claim" => mark[w] # "unmarked"

\* At most one thread is on its way to complete the upper request, and it has
\* not been completed while one is.
Ownership(w) ==
    /\ completions[w] <= 1
    /\ callback[w] \in {"cancelSent", "release", "complete"} =>
          completions[w] = 0 /\ routine[w] \in {"idle", "claim", "cleanup", "done"}
    /\ routine[w] \in {"unmark", "relinquish"} =>
          completions[w] = 0 /\ callback[w] \in {"idle", "claim", "done"}
    /\ routine[w] \in {"release", "complete"} =>
          completions[w] = 0 /\ callback[w] \in {"idle", "done"}
    /\ callback[w] = "claim" =>
          completions[w] = 0 /\ (routine[w] \in {"cleanup", "done"} => path[w] = {})
    /\ callback[w] = "done" /\ routine[w] \in {"idle", "claim", "cleanup", "done"} =>
          completions[w] = 1
    /\ callback[w] = "idle" /\ routine[w] \in {"cleanup", "done"} => completions[w] = 1
    /\ callback[w] = "idle" /\ routine[w] \in {"idle", "claim"} =>
          completions[w] = IF dispatch[w] = "returned" /\ uart[w] = "idle" THEN 1 ELSE 0

\* Which objects and references are left, as a function of who has finished.
Holdings(w) ==
    /\ dispatch[w] \in {"idle", "prepare"} => memory[w] = "absent" /\ lower[w] = "absent"
    /\ dispatch[w] \notin {"idle", "prepare"} =>
          IF completions[w] = 0 THEN memory[w] = "live" ELSE memory[w] \in {"absent", "deleted"}
    /\ dispatch[w] = "mark" => lower[w] = "live"
    /\ lower[w] # "overdeleted"
    /\ uart[w] # "idle" =>
          /\ dispatch[w] = "returned"
          /\ lower[w] = IF routine[w] = "done" THEN "deleted" ELSE "live"
          /\ upperRefs[w] = IF routine[w] = "done" THEN 0 ELSE 1
    /\ uart[w] # "idle" \/ dispatch[w] \in {"send", "unmark", "dropOwned", "dropCancelled"} =>
          lowerRefs[w] = IF completions[w] = 1 \/ callback[w] = "complete"
                            \/ routine[w] = "complete" THEN 0 ELSE 1
    /\ callback[w] # "idle" /\ dispatch[w] = "returned" /\ uart[w] = "idle" =>
          lower[w] = "live"

\* What a request that was not delivered leaves, when its dispatcher has returned.
Leftovers(w) ==
    dispatch[w] = "returned" /\ uart[w] = "idle" =>
        /\ upperRefs[w] = 0
        /\ callback[w] = "idle" =>
              /\ lowerRefs[w] = 0 /\ mark[w] = "unmarked"
              /\ lower[w] = "live" => result[w] = "failed"
        /\ callback[w] \in {"claim", "cancelSent", "release"} => lowerRefs[w] = 0
        /\ callback[w] \in {"complete", "done"} => lowerRefs[w] = -1

\* Where the status BthPort reads comes from.
Results(w) ==
    /\ result[w] = "success" => uart[w] = "done" /\ status[w] = "success"
    /\ result[w] = "cancelled" => cancelled[w] \/ (uart[w] = "done" /\ status[w] = "cancelled")
    /\ callback[w] # "idle" => cancelled[w]
    /\ callback[w] = "done" /\ uart[w] = "idle" => result[w] = "cancelled"

WriteInv(w) ==
    /\ BeforeMark(w) /\ AroundSend(w) /\ PathTracksThreads(w)
    /\ Ownership(w) /\ Holdings(w) /\ Leftovers(w) /\ Results(w)

\* The inductive invariant.
IInv == TypeOK /\ \A w \in Writes : WriteInv(w)

-----------------------------------------------------------------------------
\* A step of one request by a thread or by the environment.
Step(w) ==
    \/ Accept(w) \/ Reject(w) \/ CancelUpper(w) \/ UartCompletes(w)
    \/ Dispatch(w) \/ Callback(w) \/ Routine(w)

\* Every action keeps every variable in its range.
LEMMA StepTypeOK ==
    ASSUME TypeOK, NEW w \in Writes, Step(w)
    PROVE  TypeOK'
<1>1. CASE Accept(w)
  BY <1>1 DEF TypeOK, arbitration, target, lowerObject, upperObject, counters, Objects,
     Statuses, PathBits, Accept
<1>2. CASE Reject(w)
  BY <1>2 DEF TypeOK, arbitration, target, lowerObject, upperObject, counters, Objects,
     Statuses, PathBits, Reject, CompleteUpper
<1>3. CASE CancelUpper(w)
  BY <1>3 DEF TypeOK, arbitration, target, lowerObject, upperObject, counters, Objects,
     Statuses, PathBits, CancelUpper
<1>4. CASE UartCompletes(w)
  BY <1>4 DEF TypeOK, arbitration, target, lowerObject, upperObject, counters, Objects,
     Statuses, PathBits, UartCompletes
<1>5. CASE PrepareFails(w)
  BY <1>5 DEF TypeOK, arbitration, target, lowerObject, upperObject, counters, Objects,
     Statuses, PathBits, PrepareFails, CompleteUpper, Stages, LowerAfterFailure, MemoryAfterFailure
<1>6. CASE Prepare(w)
  BY <1>6 DEF TypeOK, arbitration, target, lowerObject, upperObject, counters, Objects,
     Statuses, PathBits, Prepare
<1>7. CASE Mark(w)
  BY <1>7 DEF TypeOK, arbitration, target, lowerObject, upperObject, counters, Objects,
     Statuses, PathBits, Mark
<1>8. CASE MarkFindsCancelled(w)
  BY <1>8 DEF TypeOK, arbitration, target, lowerObject, upperObject, counters, Objects,
     Statuses, PathBits, MarkFindsCancelled, AbandonOwned, CompleteUpper, Deleted
<1>9. CASE Send(w)
  BY <1>9 DEF TypeOK, arbitration, target, lowerObject, upperObject, counters, Objects,
     Statuses, PathBits, Send
<1>10. CASE SendFails(w)
  BY <1>10 DEF TypeOK, arbitration, target, lowerObject, upperObject, counters, Objects,
     Statuses, PathBits, SendFails
<1>11. CASE DispatchUnmark(w)
  BY <1>11 DEF TypeOK, arbitration, target, lowerObject, upperObject, counters, Objects,
     Statuses, PathBits, DispatchUnmark, UnmarkSucceeds
<1>12. CASE DropOwned(w)
  BY <1>12 DEF TypeOK, arbitration, target, lowerObject, upperObject, counters, Objects,
     Statuses, PathBits, DropOwned, AbandonOwned, CompleteUpper, Deleted
<1>13. CASE DropCancelled(w)
  BY <1>13 DEF TypeOK, arbitration, target, lowerObject, upperObject, counters, Objects,
     Statuses, PathBits, DropCancelled
<1>14. CASE CallbackClaims(w)
  BY <1>14 DEF TypeOK, arbitration, target, lowerObject, upperObject, counters, Objects,
     Statuses, PathBits, CallbackClaims, CallbackOwns
<1>15. CASE CallbackCancelsSent(w)
  BY <1>15 DEF TypeOK, arbitration, target, lowerObject, upperObject, counters, Objects,
     Statuses, PathBits, CallbackCancelsSent
<1>16. CASE CallbackReleases(w)
  BY <1>16 DEF TypeOK, arbitration, target, lowerObject, upperObject, counters, Objects,
     Statuses, PathBits, CallbackReleases
<1>17. CASE CallbackCompletes(w)
  BY <1>17 DEF TypeOK, arbitration, target, lowerObject, upperObject, counters, Objects,
     Statuses, PathBits, CallbackCompletes, CompleteUpper, Deleted
<1>18. CASE RoutineClaims(w)
  BY <1>18 DEF TypeOK, arbitration, target, lowerObject, upperObject, counters, Objects,
     Statuses, PathBits, RoutineClaims
<1>19. CASE RoutineUnmarks(w)
  BY <1>19 DEF TypeOK, arbitration, target, lowerObject, upperObject, counters, Objects,
     Statuses, PathBits, RoutineUnmarks, UnmarkSucceeds
<1>20. CASE RoutineRelinquishes(w)
  BY <1>20 DEF TypeOK, arbitration, target, lowerObject, upperObject, counters, Objects,
     Statuses, PathBits, RoutineRelinquishes, ExchangeSucceeds
<1>21. CASE RoutineReleases(w)
  BY <1>21 DEF TypeOK, arbitration, target, lowerObject, upperObject, counters, Objects,
     Statuses, PathBits, RoutineReleases
<1>22. CASE RoutineCompletes(w)
  BY <1>22 DEF TypeOK, arbitration, target, lowerObject, upperObject, counters, Objects,
     Statuses, PathBits, RoutineCompletes, CompleteUpper, Deleted, Reported
<1>23. CASE RoutineCleansUp(w)
  BY <1>23 DEF TypeOK, arbitration, target, lowerObject, upperObject, counters, Objects,
     Statuses, PathBits, RoutineCleansUp, Deleted
<1>24. QED
  BY <1>1, <1>2, <1>3, <1>4, <1>5, <1>6, <1>7, <1>8, <1>9, <1>10, <1>11, <1>12, <1>13,
     <1>14, <1>15, <1>16, <1>17, <1>18, <1>19, <1>20, <1>21, <1>22, <1>23
     DEF Step, Dispatch, Callback, Routine

\* A step of one request leaves the variables of the others as they are.
LEMMA StepLocal ==
    ASSUME TypeOK, NEW a \in Writes, Step(a), NEW w \in Writes, w # a
    PROVE  /\ dispatch'[w] = dispatch[w] /\ callback'[w] = callback[w]
           /\ routine'[w] = routine[w] /\ path'[w] = path[w] /\ mark'[w] = mark[w]
           /\ cancelled'[w] = cancelled[w] /\ uart'[w] = uart[w] /\ status'[w] = status[w]
           /\ lower'[w] = lower[w] /\ lowerRefs'[w] = lowerRefs[w] /\ memory'[w] = memory[w]
           /\ upperRefs'[w] = upperRefs[w] /\ completions'[w] = completions[w]
           /\ result'[w] = result[w]
<1>. USE DEF TypeOK, arbitration, target, lowerObject, upperObject, counters
<1>1. CASE Accept(a) \/ Reject(a) \/ CancelUpper(a) \/ UartCompletes(a)
  BY <1>1 DEF Accept, Reject, CancelUpper, UartCompletes, CompleteUpper
<1>2. CASE Dispatch(a)
  BY <1>2 DEF Dispatch, PrepareFails, Prepare, Mark, MarkFindsCancelled, Send, SendFails,
          DispatchUnmark, DropOwned, DropCancelled, AbandonOwned, CompleteUpper
<1>3. CASE Callback(a)
  BY <1>3 DEF Callback, CallbackClaims, CallbackCancelsSent, CallbackReleases,
          CallbackCompletes, CompleteUpper
<1>4. CASE Routine(a)
  BY <1>4 DEF Routine, RoutineClaims, RoutineUnmarks, RoutineRelinquishes, RoutineReleases,
          RoutineCompletes, RoutineCleansUp, CompleteUpper
<1>. QED BY <1>1, <1>2, <1>3, <1>4 DEF Step

LEMMA StepFrame ==
    ASSUME TypeOK, NEW a \in Writes, Step(a), NEW w \in Writes, w # a, WriteInv(w)
    PROVE  WriteInv(w)'
BY StepLocal DEF WriteInv, BeforeMark, AroundSend, PathTracksThreads, Ownership, Holdings, Leftovers,
       Results

\* A step of a request preserves its own part of the invariant.
LEMMA StepOwn ==
    ASSUME TypeOK, NEW w \in Writes, Step(w), WriteInv(w)
    PROVE  WriteInv(w)'
<1>. USE DEF TypeOK, arbitration, target, lowerObject, upperObject, counters, Objects, Statuses,
             PathBits, WriteInv, BeforeMark, AroundSend, PathTracksThreads, Ownership, Holdings,
             Leftovers, Results
<1>1. CASE Accept(w)
  BY <1>1 DEF Accept
<1>2. CASE Reject(w)
  BY <1>2 DEF Reject, CompleteUpper
<1>3. CASE CancelUpper(w)
  BY <1>3 DEF CancelUpper
<1>4. CASE UartCompletes(w)
  BY <1>4 DEF UartCompletes
<1>5. CASE PrepareFails(w)
  BY <1>5 DEF PrepareFails, CompleteUpper, Stages, LowerAfterFailure, MemoryAfterFailure
<1>6. CASE Prepare(w)
  BY <1>6 DEF Prepare
<1>7. CASE Mark(w)
  BY <1>7 DEF Mark
<1>8. CASE MarkFindsCancelled(w)
  BY <1>8 DEF MarkFindsCancelled, AbandonOwned, CompleteUpper, Deleted
<1>9. CASE Send(w)
  BY <1>9 DEF Send
<1>10. CASE SendFails(w)
  BY <1>10 DEF SendFails
<1>11. CASE DispatchUnmark(w)
  BY <1>11 DEF DispatchUnmark, UnmarkSucceeds
<1>12. CASE DropOwned(w)
  BY <1>12 DEF DropOwned, AbandonOwned, CompleteUpper, Deleted
<1>13. CASE DropCancelled(w)
  BY <1>13 DEF DropCancelled
<1>14. CASE CallbackClaims(w)
  BY <1>14 DEF CallbackClaims, CallbackOwns
<1>15. CASE CallbackCancelsSent(w)
  BY <1>15 DEF CallbackCancelsSent
<1>16. CASE CallbackReleases(w)
  BY <1>16 DEF CallbackReleases
<1>17. CASE CallbackCompletes(w)
  BY <1>17 DEF CallbackCompletes, CompleteUpper, Deleted
<1>18. CASE RoutineClaims(w)
  BY <1>18 DEF RoutineClaims
<1>19. CASE RoutineUnmarks(w)
  BY <1>19 DEF RoutineUnmarks, UnmarkSucceeds
<1>20. CASE RoutineRelinquishes(w)
  BY <1>20 DEF RoutineRelinquishes, ExchangeSucceeds
<1>21. CASE RoutineReleases(w)
  BY <1>21 DEF RoutineReleases
<1>22. CASE RoutineCompletes(w)
  BY <1>22 DEF RoutineCompletes, CompleteUpper, Deleted, Reported
<1>23. CASE RoutineCleansUp(w)
  BY <1>23 DEF RoutineCleansUp, Deleted
<1>24. QED
  BY <1>1, <1>2, <1>3, <1>4, <1>5, <1>6, <1>7, <1>8, <1>9, <1>10, <1>11, <1>12, <1>13,
     <1>14, <1>15, <1>16, <1>17, <1>18, <1>19, <1>20, <1>21, <1>22, <1>23
     DEF Step, Dispatch, Callback, Routine

-----------------------------------------------------------------------------
\* The invariant holds at the start: no request has arrived.
LEMMA InitIInv == Init => IInv
BY DEF Init, IInv, TypeOK, WriteInv, BeforeMark, AroundSend, PathTracksThreads, Ownership,
       Holdings, Leftovers, Results, Objects, Statuses, PathBits

\* The invariant is inductive.
LEMMA NextIInv == IInv /\ [Next]_vars => IInv'
<1>. SUFFICES ASSUME IInv, [Next]_vars
              PROVE  IInv'
  OBVIOUS
<1>1. ASSUME NEW a \in Writes, Step(a)
      PROVE  IInv'
  <2>1. TypeOK'
    BY <1>1, StepTypeOK DEF IInv
  <2>2. ASSUME NEW w \in Writes
        PROVE  WriteInv(w)'
    <3>1. CASE w = a
      BY <1>1, <3>1, StepOwn DEF IInv
    <3>2. CASE w # a
      BY <1>1, <3>2, StepFrame DEF IInv
    <3>. QED BY <3>1, <3>2
  <2>. QED BY <2>1, <2>2 DEF IInv
<1>2. CASE UNCHANGED vars
  BY <1>2 DEF vars, arbitration, target, lowerObject, upperObject, counters, IInv, TypeOK,
          WriteInv, BeforeMark, AroundSend, PathTracksThreads, Ownership, Holdings, Leftovers,
          Results
<1>. QED BY <1>1, <1>2 DEF Next, Step, Exhausted

LEMMA Invariance == Spec => []IInv
BY InitIInv, NextIInv, PTL DEF Spec

\* For every set of requests, every variable stays in its range; in particular
\* BthPort is never told of a cut-short write as such (io.c:489-497).
THEOREM TypeCorrect == Spec => []TypeOK
<1>1. IInv => TypeOK
  BY DEF IInv
<1>. QED BY <1>1, Invariance, PTL

\* For every number of concurrent writes, each upper request is completed at
\* most once, and exactly once when the last thread is through with it.
THEOREM ExactlyOnce == Spec => []CompletedExactlyOnce
<1>1. IInv => CompletedExactlyOnce
  <2>. SUFFICES ASSUME IInv, NEW w \in Writes
                PROVE  completions[w] <= 1 /\ (Quiescent(w) => completions[w] = 1)
    BY DEF CompletedExactlyOnce
  <2>1. WriteInv(w) /\ completions[w] \in Nat
    BY DEF IInv, TypeOK
  <2>. QED BY <2>1 DEF WriteInv, Ownership, AroundSend, Quiescent
<1>. QED BY <1>1, Invariance, PTL

\* No object is deleted twice, and no memory object outlives its write.
THEOREM NoDoubleDelete == Spec => []DeletedOnce
<1>1. IInv => DeletedOnce
  BY DEF IInv, TypeOK, DeletedOnce, WriteInv, AroundSend, Ownership, Holdings,
     Quiescent
<1>. QED BY <1>1, Invariance, PTL

\* No thread uses the context, the lower request or the memory object after
\* its last reference is gone, not even to delete it.
THEOREM ObjectsAlive == Spec => []ObjectsAliveWhenUsed
<1>1. IInv /\ DeletedOnce => ObjectsAliveWhenUsed
  BY DEF IInv, TypeOK, ObjectsAliveWhenUsed, WriteInv, BeforeMark, AroundSend, PathTracksThreads,
         Ownership, Holdings
<1>. QED BY <1>1, NoDoubleDelete, Invariance, PTL

\* A delivered write gives back what it took.
THEOREM DeliveredReleased == Spec => []DeliveredWriteReleased
<1>1. IInv => DeliveredWriteReleased
  BY DEF IInv, TypeOK, DeliveredWriteReleased, WriteInv, AroundSend, Ownership, Holdings, Quiescent
<1>. QED BY <1>1, Invariance, PTL

\* BthPort reads success only for a packet that the UART took in full.
THEOREM FaithfulResult == Spec => []ResultFaithful
<1>1. IInv => ResultFaithful
  BY DEF IInv, ResultFaithful, WriteInv, Results
<1>. QED BY <1>1, Invariance, PTL

\* A write that did not reach the UART leaves a lower request, or a reference too
\* few on it, in the two known places only.
THEOREM UndeliveredReleased == Spec => []UndeliveredWriteReleased
<1>1. IInv => UndeliveredWriteReleased
  <2>. SUFFICES ASSUME IInv, NEW w \in Writes, uart[w] = "idle", Quiescent(w)
                PROVE  /\ upperRefs[w] = 0
                       /\ \/ lower[w] # "live" /\ lowerRefs[w] = 0
                          \/ callback[w] = "idle" /\ mark[w] = "unmarked" /\ lowerRefs[w] = 0
                             /\ result[w] = "failed"
                          \/ callback[w] = "done" /\ lowerRefs[w] = -1 /\ result[w] = "cancelled"
    BY DEF UndeliveredWriteReleased
  <2>1. WriteInv(w)
    BY DEF IInv
  <2>2. dispatch[w] = "returned" /\ callback[w] \in {"idle", "done"}
    BY DEF Quiescent
  <2>. QED BY <2>1, <2>2 DEF WriteInv, Leftovers, Results
<1>. QED BY <1>1, Invariance, PTL

\* A lower request is sent behind the completion of its upper one only when the
\* cancel callback came between mark and send.
THEOREM LateSendsAreCancelled == Spec => SentLateOnlyBehindCancel
<1>1. IInv /\ [Next]_vars =>
         [\A w \in Writes :
             uart[w] = "idle" /\ uart'[w] = "inflight" =>
                 completions[w] = 0 \/ (callback[w] = "done" /\ path[w] = {"CANCELLATION"})]_vars
  <2>. SUFFICES ASSUME IInv, [Next]_vars, NEW w \in Writes,
                       uart[w] = "idle", uart'[w] = "inflight"
                PROVE  completions[w] = 0 \/ (callback[w] = "done" /\ path[w] = {"CANCELLATION"})
    OBVIOUS
  <2>1. PICK a \in Writes : Step(a)
    BY DEF Next, Step, Exhausted, vars, target
  <2>2. a = w
    BY <2>1, StepLocal DEF IInv
  <2>3. Send(w)
    <3>. USE DEF target, IInv, TypeOK
    <3>1. ~(Accept(w) \/ Reject(w) \/ CancelUpper(w) \/ UartCompletes(w))
      BY DEF Accept, Reject, CancelUpper, UartCompletes
    <3>2. ~Callback(w)
      BY DEF Callback, CallbackClaims, CallbackCancelsSent, CallbackReleases, CallbackCompletes
    <3>3. ~Routine(w)
      BY DEF Routine, RoutineClaims, RoutineUnmarks, RoutineRelinquishes, RoutineReleases,
             RoutineCompletes, RoutineCleansUp
    <3>4. Dispatch(w) => Send(w)
      BY DEF Dispatch, PrepareFails, Prepare, Mark, MarkFindsCancelled, SendFails,
             DispatchUnmark, DropOwned, DropCancelled
    <3>. QED BY <2>1, <2>2, <3>1, <3>2, <3>3, <3>4 DEF Step
  <2>4. dispatch[w] = "send" /\ WriteInv(w) /\ completions[w] \in Nat /\ path[w] \subseteq PathBits
    BY <2>3 DEF Send, IInv, TypeOK
  <2>8. callback[w] \in {"idle", "claim", "cancelSent", "release", "complete", "done"}
    BY DEF IInv, TypeOK
  <2>5. routine[w] = "idle" /\ "COMPLETION" \notin path[w] /\ completions[w] <= 1
    BY <2>4 DEF WriteInv, AroundSend, PathTracksThreads, Ownership
  <2>6. completions[w] # 0 => callback[w] = "done"
    BY <2>4, <2>5, <2>8 DEF WriteInv, Ownership
  <2>7. callback[w] = "done" => path[w] = {"CANCELLATION"}
    BY <2>4, <2>5 DEF WriteInv, PathTracksThreads, PathBits
  <2>. QED BY <2>6, <2>7
<1>. QED BY <1>1, Invariance, PTL DEF Spec, SentLateOnlyBehindCancel

-----------------------------------------------------------------------------
(* What a send that never fails is worth: the reference counts balance.    *)

\* No reference on a lower request is given back that was not taken.
LowerRefsBalanced == \A w \in Writes : lowerRefs[w] >= 0

\* A write whose lower request was not sent has nothing of it left.
NothingUnsent(w) ==
    /\ dispatch[w] \notin {"unmark", "dropOwned", "dropCancelled"}
    /\ dispatch[w] = "returned" /\ uart[w] = "idle" => lowerRefs[w] = 0 /\ callback[w] = "idle"

LEMMA StepNothingUnsent ==
    ASSUME ~SendMayFail, TypeOK, NEW w \in Writes, WriteInv(w), NothingUnsent(w), Step(w)
    PROVE  NothingUnsent(w)'
<1>. USE DEF TypeOK, arbitration, target, lowerObject, upperObject, counters, WriteInv,
             BeforeMark, AroundSend, Ownership, NothingUnsent
<1>1. CASE Accept(w) \/ Reject(w) \/ CancelUpper(w) \/ UartCompletes(w)
  BY <1>1 DEF Accept, Reject, CancelUpper, UartCompletes, CompleteUpper
<1>2. CASE PrepareFails(w) \/ Prepare(w) \/ Mark(w)
  BY <1>2 DEF PrepareFails, Prepare, Mark, CompleteUpper
<1>3. CASE MarkFindsCancelled(w)
  BY <1>3 DEF MarkFindsCancelled, AbandonOwned, CompleteUpper
<1>4. CASE Send(w) \/ SendFails(w) \/ DispatchUnmark(w) \/ DropOwned(w) \/ DropCancelled(w)
  BY <1>4 DEF Send, SendFails, DispatchUnmark, DropOwned, DropCancelled
<1>5. CASE Callback(w)
  BY <1>5 DEF Callback, CallbackClaims, CallbackCancelsSent, CallbackReleases,
          CallbackCompletes, CompleteUpper
<1>6. CASE Routine(w)
  BY <1>6 DEF Routine, RoutineClaims, RoutineUnmarks, RoutineRelinquishes, RoutineReleases,
          RoutineCompletes, RoutineCleansUp, CompleteUpper
<1>. QED BY <1>1, <1>2, <1>3, <1>4, <1>5, <1>6 DEF Step, Dispatch

\* If WdfRequestSend never fails, no reference on a lower request is given back
\* that is not held: the double release of the failing send (Fdo.c:2211 and
\* io.c:214) is the only one.
THEOREM RefsBalancedUnlessSendFails ==
    ASSUME ~SendMayFail
    PROVE  Spec => []LowerRefsBalanced
<1>. DEFINE Unsent == \A w \in Writes : NothingUnsent(w)
<1>1. Init => Unsent
  BY DEF Init, NothingUnsent
<1>2. IInv /\ Unsent /\ [Next]_vars => Unsent'
  <2>. SUFFICES ASSUME IInv, Unsent, [Next]_vars, NEW w \in Writes
                PROVE  NothingUnsent(w)'
    OBVIOUS
  <2>1. CASE UNCHANGED vars
    BY <2>1 DEF vars, arbitration, target, lowerObject, upperObject, counters, NothingUnsent
  <2>2. ASSUME NEW a \in Writes, Step(a)
        PROVE  NothingUnsent(w)'
    <3>1. CASE w = a
      BY <2>2, <3>1, StepNothingUnsent DEF IInv
    <3>2. CASE w # a
      BY <2>2, <3>2, StepLocal DEF IInv, NothingUnsent
    <3>. QED BY <3>1, <3>2
  <2>. QED BY <2>1, <2>2 DEF Next, Step, Exhausted
<1>3. IInv /\ Unsent => LowerRefsBalanced
  BY DEF IInv, TypeOK, WriteInv, BeforeMark, AroundSend, Holdings, NothingUnsent,
         LowerRefsBalanced
<1>. QED BY <1>1, <1>2, <1>3, Invariance, PTL DEF Spec

-----------------------------------------------------------------------------
(* The refinement.  Each action is one action of WritePromise or a stutter. *)

\* Completing an upper request that is still out is Complete of the promise.
LEMMA CompletionRefines ==
    ASSUME TypeOK, NEW w \in Writes, NEW r \in {"success", "cancelled", "failed"},
           completions[w] = 0, dispatch[w] # "idle", Promise!MayReport(w, r),
           \A v \in Writes : v # w => dispatch'[v] = dispatch[v],
           CompleteUpper(w, r), UNCHANGED <<uart, status, cancelled>>
    PROVE  Promise!Complete(w)
<1>1. \A v \in Writes : completions'[v] = IF v = w THEN 1 ELSE completions[v]
  BY DEF TypeOK, CompleteUpper
<1>2. PhaseOf(w)' = "done"
  <2>1. completions'[w] = 1
    BY <1>1
  <2>. QED BY <2>1 DEF PhaseOf
<1>5. ASSUME NEW v \in Writes, v # w
      PROVE  PhaseOf(v)' = PhaseOf(v)
  <2>1. completions'[v] = completions[v]
    BY <1>1, <1>5
  <2>2. dispatch'[v] = dispatch[v]
    BY <1>5
  <2>3. completions[v] \in Nat
    BY DEF TypeOK
  <2>. QED BY <2>1, <2>2, <2>3 DEF PhaseOf
<1>3. PhaseOf(w) = "pending"
  BY DEF PhaseOf
<1>4. \A v \in Writes : AnswerOf(v)' = AnswerOf(v)
  BY DEF AnswerOf
<1>. QED
  BY <1>2, <1>3, <1>4, <1>5 DEF Promise!Complete, Promise!Results, CompleteUpper

\* Each action of a request is an action of the promise or leaves it alone.
LEMMA StepRefines ==
    ASSUME TypeOK, NEW w \in Writes, WriteInv(w), Step(w)
    PROVE  [Promise!Next]_(Promise!vars)
<1>. USE DEF TypeOK, Statuses, arbitration, target, lowerObject, upperObject, counters
<1>1. CASE Accept(w)
  <2>1. \A v \in Writes : PhaseOf(v)' = IF v = w THEN "pending" ELSE PhaseOf(v)
    BY <1>1 DEF Accept, WriteInv, BeforeMark, AroundSend, Ownership, PhaseOf
  <2>2. \A v \in Writes : AnswerOf(v)' = AnswerOf(v)
    BY <1>1 DEF Accept, AnswerOf
  <2>3. PhaseOf(w) = "new"
    BY <1>1 DEF Accept, WriteInv, BeforeMark, AroundSend, Ownership, PhaseOf
  <2>4. Promise!Arrive(w)
    BY <1>1, <2>1, <2>2, <2>3 DEF Accept, Promise!Arrive
  <2>. QED BY <2>4 DEF Promise!Next
<1>2. CASE Reject(w)
  <2>1. \A v \in Writes : completions'[v] = IF v = w THEN 1 ELSE completions[v]
    BY <1>2 DEF Reject, CompleteUpper, WriteInv, BeforeMark
  <2>2. \A v \in Writes : v # w => dispatch'[v] = dispatch[v]
    BY <1>2 DEF Reject
  <2>3. \A v \in Writes : v # w => PhaseOf(v)' = PhaseOf(v)
    BY <2>1, <2>2 DEF PhaseOf
  <2>4. PhaseOf(w) = "new" /\ PhaseOf(w)' = "done"
    BY <1>2, <2>1 DEF Reject, WriteInv, BeforeMark, PhaseOf
  <2>5. \A v \in Writes : AnswerOf(v)' = AnswerOf(v)
    BY <1>2 DEF Reject, AnswerOf
  <2>6. Promise!Refuse(w)
    BY <1>2, <2>3, <2>4, <2>5 DEF Reject, CompleteUpper, Promise!Refuse
  <2>. QED BY <2>6 DEF Promise!Next
<1>3. CASE CancelUpper(w)
  <2>1. \A v \in Writes : PhaseOf(v)' = PhaseOf(v) /\ AnswerOf(v)' = AnswerOf(v)
    BY <1>3 DEF CancelUpper, PhaseOf, AnswerOf
  <2>2. PhaseOf(w) = "pending"
    BY <1>3 DEF CancelUpper, PhaseOf
  <2>3. Promise!Ask(w)
    BY <1>3, <2>1, <2>2 DEF CancelUpper, Promise!Ask
  <2>. QED BY <2>3 DEF Promise!Next
<1>4. CASE UartCompletes(w)
  <2>1. \A v \in Writes : PhaseOf(v)' = PhaseOf(v)
    BY <1>4 DEF UartCompletes, PhaseOf
  <2>2. PICK s \in Statuses : status' = [status EXCEPT ![w] = s]
    BY <1>4 DEF UartCompletes
  <2>3. \A v \in Writes : AnswerOf(v)' = IF v = w THEN s ELSE AnswerOf(v)
    BY <1>4, <2>2 DEF UartCompletes, AnswerOf
  <2>4. PhaseOf(w) # "new" /\ AnswerOf(w) = "none"
    BY <1>4 DEF UartCompletes, WriteInv, BeforeMark, AroundSend, Ownership, PhaseOf, AnswerOf
  <2>5. UNCHANGED <<cancelled, result>>
    BY <1>4 DEF UartCompletes
  <2>6. Promise!Answer(w)
    BY <2>1, <2>2, <2>3, <2>4, <2>5 DEF Promise!Answer, Promise!Answers
  <2>. QED BY <2>6 DEF Promise!Next
<1>5. CASE PrepareFails(w)
  <2>1. Promise!MayReport(w, "failed")
    BY <1>5 DEF PrepareFails, WriteInv, Promise!MayReport
  <2>2. completions[w] = 0 /\ dispatch[w] # "idle"
    BY <1>5 DEF PrepareFails, WriteInv, BeforeMark, AroundSend, Ownership
  <2>3. Promise!Complete(w)
    BY <1>5, <2>1, <2>2, CompletionRefines DEF PrepareFails
  <2>. QED BY <2>3 DEF Promise!Next
<1>6. CASE Prepare(w)
  BY <1>6 DEF Prepare, Promise!vars, PhaseOf, AnswerOf
<1>7. CASE Mark(w)
  BY <1>7 DEF Mark, Promise!vars, PhaseOf, AnswerOf
<1>8. CASE MarkFindsCancelled(w)
  <2>1. Promise!MayReport(w, "cancelled")
    BY <1>8 DEF MarkFindsCancelled, WriteInv, Promise!MayReport
  <2>2. completions[w] = 0 /\ dispatch[w] # "idle"
    BY <1>8 DEF MarkFindsCancelled, WriteInv, BeforeMark, AroundSend, Ownership
  <2>3. Promise!Complete(w)
    BY <1>8, <2>1, <2>2, CompletionRefines DEF MarkFindsCancelled, AbandonOwned
  <2>. QED BY <2>3 DEF Promise!Next
<1>9. CASE Send(w)
  <2>1. uart[w] = "idle"
    BY <1>9 DEF Send, WriteInv, AroundSend
  <2>2. \A v \in Writes : PhaseOf(v)' = PhaseOf(v)
    BY <1>9 DEF Send, PhaseOf
  <2>3. \A v \in Writes : AnswerOf(v)' = AnswerOf(v)
    BY <1>9, <2>1 DEF Send, AnswerOf
  <2>. QED BY <1>9, <2>2, <2>3 DEF Send, Promise!vars
<1>10. CASE SendFails(w)
  BY <1>10 DEF SendFails, Promise!vars, PhaseOf, AnswerOf
<1>11. CASE DispatchUnmark(w)
  <2>1. \A v \in Writes : (dispatch'[v] = "idle") = (dispatch[v] = "idle")
    BY <1>11 DEF DispatchUnmark
  <2>2. UNCHANGED <<completions, target, cancelled, result>>
    BY <1>11 DEF DispatchUnmark
  <2>3. \A v \in Writes : PhaseOf(v)' = PhaseOf(v) /\ AnswerOf(v)' = AnswerOf(v)
    BY <2>1, <2>2 DEF PhaseOf, AnswerOf
  <2>. QED BY <2>2, <2>3 DEF Promise!vars
<1>12. CASE DropOwned(w)
  <2>1. Promise!MayReport(w, "failed")
    BY <1>12 DEF DropOwned, WriteInv, Promise!MayReport
  <2>2. completions[w] = 0 /\ dispatch[w] # "idle"
    BY <1>12 DEF DropOwned, WriteInv, BeforeMark, AroundSend, Ownership
  <2>3. Promise!Complete(w)
    BY <1>12, <2>1, <2>2, CompletionRefines DEF DropOwned, AbandonOwned
  <2>. QED BY <2>3 DEF Promise!Next
<1>13. CASE DropCancelled(w)
  BY <1>13 DEF DropCancelled, Promise!vars, PhaseOf, AnswerOf
<1>14. CASE CallbackClaims(w)
  BY <1>14 DEF CallbackClaims, Promise!vars, PhaseOf, AnswerOf
<1>15. CASE CallbackCancelsSent(w)
  BY <1>15 DEF CallbackCancelsSent, Promise!vars, PhaseOf, AnswerOf
<1>16. CASE CallbackReleases(w)
  BY <1>16 DEF CallbackReleases, Promise!vars, PhaseOf, AnswerOf
<1>17. CASE CallbackCompletes(w)
  <2>1. Promise!MayReport(w, "cancelled")
    BY <1>17 DEF CallbackCompletes, WriteInv, Results, Promise!MayReport
  <2>2. completions[w] = 0 /\ dispatch[w] # "idle"
    BY <1>17 DEF CallbackCompletes, WriteInv, BeforeMark, AroundSend, Ownership
  <2>3. Promise!Complete(w)
    BY <1>17, <2>1, <2>2, CompletionRefines DEF CallbackCompletes
  <2>. QED BY <2>3 DEF Promise!Next
<1>18. CASE RoutineClaims(w)
  BY <1>18 DEF RoutineClaims, Promise!vars, PhaseOf, AnswerOf
<1>19. CASE RoutineUnmarks(w)
  BY <1>19 DEF RoutineUnmarks, UnmarkSucceeds, Promise!vars, PhaseOf, AnswerOf
<1>20. CASE RoutineRelinquishes(w)
  BY <1>20 DEF RoutineRelinquishes, Promise!vars, PhaseOf, AnswerOf
<1>21. CASE RoutineReleases(w)
  BY <1>21 DEF RoutineReleases, Promise!vars, PhaseOf, AnswerOf
<1>22. CASE RoutineCompletes(w)
  <2>1. PICK r \in Reported(status[w]) : CompleteUpper(w, r)
    BY <1>22 DEF RoutineCompletes
  <2>2. r \in {"success", "cancelled", "failed"}
    BY <2>1 DEF Reported
  <2>3. completions[w] = 0 /\ dispatch[w] # "idle" /\ uart[w] = "done"
    BY <1>22 DEF RoutineCompletes, WriteInv, BeforeMark, AroundSend, Ownership
  <2>4. Promise!MayReport(w, r)
    BY <2>1, <2>3 DEF Promise!MayReport, AnswerOf, Reported
  <2>5. Promise!Complete(w)
    BY <1>22, <2>1, <2>2, <2>3, <2>4, CompletionRefines DEF RoutineCompletes
  <2>. QED BY <2>5 DEF Promise!Next
<1>23. CASE RoutineCleansUp(w)
  BY <1>23 DEF RoutineCleansUp, Promise!vars, PhaseOf, AnswerOf
<1>. QED
  BY <1>1, <1>2, <1>3, <1>4, <1>5, <1>6, <1>7, <1>8, <1>9, <1>10, <1>11, <1>12, <1>13, <1>14,
     <1>15, <1>16, <1>17, <1>18, <1>19, <1>20, <1>21, <1>22, <1>23
  DEF Step, Dispatch, Callback, Routine

\* For every set of requests, the three threads implement the safety part of
\* WritePromise; its liveness is model-checked.
THEOREM Refinement == Spec => Promise!SafeSpec
<1>1. Init => Promise!Init
  BY DEF Init, Promise!Init, PhaseOf, AnswerOf
<1>2. IInv /\ [Next]_vars => [Promise!Next]_(Promise!vars)
  <2>. SUFFICES ASSUME IInv, [Next]_vars
                PROVE  [Promise!Next]_(Promise!vars)
    OBVIOUS
  <2>1. CASE UNCHANGED vars
    BY <2>1 DEF vars, arbitration, target, lowerObject, upperObject, counters, Promise!vars,
            PhaseOf, AnswerOf
  <2>2. CASE \E w \in Writes : Step(w)
    BY <2>2, StepRefines DEF IInv
  <2>. QED BY <2>1, <2>2 DEF Next, Step, Exhausted
<1>. QED BY <1>1, <1>2, Invariance, PTL DEF Spec, Promise!SafeSpec
=============================================================================
