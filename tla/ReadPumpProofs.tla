--------------------------- MODULE ReadPumpProofs ---------------------------
(***************************************************************************)
(* The read pump, for any number of threads that run completion routines:  *)
(* the loop around WdfRequestSend and the routine pass the one next read   *)
(* on between them, and never both nor neither go on, wherever the         *)
(* completion runs; the buffer has one user at a time where it runs inside *)
(* WdfRequestSend or after it.                                             *)
(***************************************************************************)
EXTENDS ReadPump, TLAPS

\* D0Exit does not begin between a check of DeviceInitialized and its send ...
NoLateExit == ~RacingD0Exit

\* ... and a completion that comes early runs inside WdfRequestSend.
NoRaces == ~RacingCompletion /\ NoLateExit

AllIdle == \A t \in Threads : pc[t] = "idle"
Sending == \E t \in Threads : pc[t] = "exchange"
Entered == \E t \in Threads : pc[t] = "entry"

\* Until SelfManagedIoInit there is no read and no thread.
Unstarted == RequestState = "NONE" \/ power = "start" => AllIdle /\ request = "free"

\* The next read is the UART's or one thread's.  A sender that has not looked at
\* RequestState yet shares it with nobody but a routine that has not either.
Turn ==
    /\ \A t, u \in Threads : WillRead(t) /\ WillRead(u) => t = u
    /\ request # "free" => \A t \in Threads : ~WillRead(t)
    /\ \A t, u \in Threads : pc[t] = "exchange" /\ pc[u] = "exchange" => t = u
    /\ \A t, u \in Threads : pc[t] = "exchange" /\ WillRead(u) => pc[u] = "entry"

\* What RequestState tells the sender and the routine of each other.
Handshake ==
    /\ \A t \in Threads : pc[t] = "send" => RequestState = "SENT"
    /\ request # "free" \/ Entered => RequestState = IF Sending THEN "SENT" ELSE "PENDING"
    /\ Sending /\ request = "free" /\ ~Entered => RequestState # "SENT"
    /\ \A t \in Threads : pc[t] = "process" /\ ReadsOn(t) => RequestState # "SENT"
    /\ OnlyRestartFindsSent

\* The power callbacks find the pump at rest where they start it.
Power ==
    /\ power \in {"low", "entering"} => AllIdle /\ request = "free"
    /\ request # "held"
    /\ \A t \in Threads : pc[t] \in {"mark", "send"} => power \in {"d0", "failed"}
    /\ power \in {"invalid", "stopping", "low", "failed"} => ~DeviceInitialized

\* The flag follows the read from hand to hand.
Flag ==
    /\ request # "free" => ReadPumpRunning
    /\ \A t \in Threads : WillRead(t) => ReadPumpRunning
    /\ Sending /\ RequestState # "SENT" /\ Succeeds(contextStatus) => ReadPumpRunning
    /\ ReadPumpRunning => request # "free" \/ Sending \/ \E t \in Threads : WillRead(t)

\* The inductive invariant wherever completions run; Unstarted holds with both races.
SInv == Turn /\ Handshake /\ Power /\ Flag

\* A routine has the pump to itself but for a sender that waits for it.
Apart ==
    /\ \A t, u \in Threads : InRoutine(t) /\ t # u => pc[u] \in {"idle", "exchange"}
    /\ request # "free" => \A t \in Threads : ~InRoutine(t)
    /\ \A t \in Threads : pc[t] = "process" /\ ~ReadsOn(t) => Sending

\* The inductive invariant without races.
IInv == SInv /\ Apart

-----------------------------------------------------------------------------
LEMMA TypeInit == Init => TypeOK /\ Unstarted
BY ReadPumpAssumption DEF Init, TypeOK, Unstarted, AllIdle, Statuses, Threads

\* Every step of any thread keeps every variable in its range.
LEMMA TypeStep == TypeOK /\ Unstarted /\ [Next]_vars => TypeOK' /\ Unstarted'
<1> SUFFICES ASSUME TypeOK, Unstarted, [Next]_vars PROVE TypeOK' /\ Unstarted'
  OBVIOUS
<1> USE DEF TypeOK, Unstarted, AllIdle, Statuses, context, device
<1> Pnp \in Threads /\ Routines \subseteq Threads
  BY DEF Threads
<1>1. ASSUME NEW t \in Threads, ReadH4Packet(t) PROVE TypeOK' /\ Unstarted'
  <2>1. CASE CheckFails(t) \/ SendFails(t) \/ LoopsNoMore(t)
    BY <2>1 DEF CheckFails, SendFails, LoopsNoMore, GivesUp, Goes
  <2>2. CASE Check(t) \/ MarkSent(t) \/ Send(t)
    BY <2>2 DEF Check, MarkSent, Send, Goes
  <2>3. CASE LeavesToRoutine(t) \/ LoopsOn(t)
    BY <2>3 DEF LeavesToRoutine, LoopsOn, Goes, SendReturned
  <2> QED
    BY <1>1, <2>1, <2>2, <2>3 DEF ReadH4Packet
<1>2. ASSUME NEW t \in Threads, Routine(t) PROVE TypeOK' /\ Unstarted'
  BY <1>2 DEF Routine, Enter, Process, Goes
<1>3. CASE UartCompletes
  BY <1>3 DEF UartCompletes
<1>4. CASE PnpCallback
  BY <1>4 DEF PnpCallback, SelfManagedIoInit, Invalidated, Invalidate, StopTarget, D0Exit,
     StartTarget, StartFails, D0Entry, Goes, locals
<1>5. CASE Failed \/ UNCHANGED vars
  BY <1>5 DEF Failed, vars, locals
<1> QED
  BY <1>1, <1>2, <1>3, <1>4, <1>5 DEF Next

LEMMA TypeInvariance == Spec => [](TypeOK /\ Unstarted)
<1>1. Init => TypeOK /\ Unstarted
  BY TypeInit
<1>2. TypeOK /\ Unstarted /\ [Next]_vars => (TypeOK /\ Unstarted)'
  BY TypeStep
<1> QED
  BY <1>1, <1>2, PTL DEF Spec

\* Every variable of the pump stays in its range, whatever races and however many
\* threads run completion routines (ReadContext in driver.h).
THEOREM TypeCorrect == Spec => []TypeOK
BY TypeInvariance, PTL

-----------------------------------------------------------------------------
\* A thread that moves, and the others that do not.
LEMMA Moves ==
    ASSUME TypeOK, NEW t \in Threads, NEW place, Goes(t, place)
    PROVE  /\ pc'[t] = place
           /\ \A u \in Threads : u # t => pc'[u] = pc[u]
BY DEF TypeOK, Goes

-----------------------------------------------------------------------------
(* What both races leave of the flag.                                      *)

Preparing == \E t \in Threads : pc[t] \in {"check", "mark", "send"}
Coming    == Preparing \/ Entered \/ request # "free"
Reading   == \E t \in Threads : pc[t] = "process" /\ ReadsOn(t)

\* As long as the flag is set somebody goes on, and RequestState says who: whoever
\* has marked the state is still in ReadH4Packet, and a sender that has left did so
\* to a routine that was still to come.
GoesOn ==
    /\ RequestState = "NONE" => ~ReadPumpRunning
    /\ ReadPumpRunning /\ RequestState = "SENT" => Coming
    /\ ReadPumpRunning /\ RequestState \in {"SENT", "COMPLETE"} => Preparing \/ Sending
    /\ ReadPumpRunning /\ RequestState = "PENDING" => Coming \/ Sending \/ Reading

LEMMA GoesOnSender ==
    ASSUME TypeOK, Unstarted, GoesOn, NEW t \in Threads, ReadH4Packet(t)
    PROVE  GoesOn'
<1>. USE DEF context, device
<1>1. CASE CheckFails(t) \/ SendFails(t) \/ LoopsNoMore(t)
  BY <1>1 DEF CheckFails, SendFails, LoopsNoMore, GivesUp, GoesOn
<1>2. CASE Check(t) \/ MarkSent(t) \/ LoopsOn(t)
  <2>1. Preparing'
    BY <1>2, Moves DEF Check, MarkSent, LoopsOn, Preparing
  <2>2. RequestState' = "NONE" => ~ReadPumpRunning'
    BY <1>2 DEF Check, MarkSent, LoopsOn, GoesOn
  <2>. QED BY <2>1, <2>2 DEF GoesOn, Coming
<1>3. CASE Send(t)
  <2>1. pc'[t] = "exchange" /\ request' # "free" /\ UNCHANGED <<RequestState, ReadPumpRunning>>
    BY <1>3, Moves DEF Send
  <2>. QED BY <2>1 DEF GoesOn, Coming, Sending
<1>4. CASE LeavesToRoutine(t)
  <2>1. /\ pc[t] = "exchange" /\ \A u \in Threads : u # t => pc'[u] = pc[u]
        /\ RequestState = "SENT" /\ RequestState' = "PENDING"
        /\ UNCHANGED <<request, ReadPumpRunning>>
    BY <1>4, Moves DEF LeavesToRoutine, SendReturned
  <2>2. Coming => Coming'
    BY <2>1 DEF Coming, Preparing, Entered
  <2>. QED BY <2>1, <2>2 DEF GoesOn
<1>. QED BY <1>1, <1>2, <1>3, <1>4 DEF ReadH4Packet

LEMMA GoesOnRoutine ==
    ASSUME TypeOK, GoesOn, NEW t \in Threads, Routine(t)
    PROVE  GoesOn'
<1>. USE DEF context, device
<1>1. CASE Enter(t)
  <2>1. /\ pc[t] = "entry" /\ \A u \in Threads : u # t => pc'[u] = pc[u]
        /\ previous'[t] = RequestState
        /\ RequestState' = IF RequestState = "SENT" THEN "COMPLETE" ELSE RequestState
    BY <1>1, Moves DEF Enter, TypeOK
  <2>2. (Preparing => Preparing') /\ (Sending => Sending')
    BY <2>1 DEF Preparing, Sending
  <2>3. ReadPumpRunning' => ReadPumpRunning /\ pc'[t] = "process"
    BY <1>1, Moves DEF Enter
  <2>4. ReadPumpRunning' /\ RequestState' = "PENDING" => Reading'
    BY <2>1, <2>3 DEF Reading, ReadsOn
  <2>. QED BY <2>1, <2>2, <2>3, <2>4 DEF GoesOn
<1>2. CASE Process(t)
  <2>1. /\ pc[t] = "process" /\ \A u \in Threads : u # t => pc'[u] = pc[u]
        /\ ReadsOn(t) => pc'[t] = "check"
        /\ UNCHANGED <<previous, RequestState, ReadPumpRunning, request>>
    BY <1>2, Moves DEF Process
  <2>2. (Coming => Coming') /\ (Preparing => Preparing') /\ (Sending => Sending')
    BY <2>1 DEF Coming, Preparing, Entered, Sending
  <2>3. Reading => Reading' \/ Coming'
    BY <2>1 DEF Reading, Coming, Preparing, ReadsOn
  <2>. QED BY <2>1, <2>2, <2>3 DEF GoesOn
<1>. QED BY <1>1, <1>2 DEF Routine

LEMMA GoesOnOther ==
    ASSUME TypeOK, Unstarted, GoesOn, UartCompletes \/ PnpCallback \/ Failed \/ UNCHANGED vars
    PROVE  GoesOn'
<1>. USE DEF context, device
<1>1. CASE UartCompletes
  <2>1. PICK t \in Threads : /\ pc[t] = "idle" /\ pc'[t] = "entry"
                             /\ \A u \in Threads : u # t => pc'[u] = pc[u]
    BY <1>1 DEF UartCompletes, Threads, TypeOK
  <2>2. UNCHANGED <<RequestState, ReadPumpRunning>>
    BY <1>1 DEF UartCompletes
  <2>3. Coming' /\ (Preparing => Preparing') /\ (Sending => Sending')
    BY <2>1 DEF Coming, Preparing, Entered, Sending
  <2>. QED BY <2>2, <2>3 DEF GoesOn
<1>2. CASE SelfManagedIoInit \/ D0Entry
  <2>1. Preparing'
    BY <1>2, Moves DEF SelfManagedIoInit, D0Entry, Preparing, Threads
  <2>2. RequestState' # "NONE"
    BY <1>2 DEF SelfManagedIoInit, D0Entry, TypeOK
  <2>. QED BY <2>1, <2>2 DEF GoesOn, Coming
<1>3. CASE \/ Invalidated \/ Invalidate \/ StopTarget \/ D0Exit \/ StartTarget \/ StartFails
           \/ Failed \/ UNCHANGED vars
  <2>1. /\ UNCHANGED <<pc, previous, RequestState, ReadPumpRunning>>
        /\ request # "free" => request' # "free"
    BY <1>3 DEF Invalidated, Invalidate, StopTarget, D0Exit, StartTarget, StartFails, Failed, vars,
       locals
  <2>. QED BY <2>1 DEF GoesOn, Coming, Preparing, Entered, Sending, Reading, ReadsOn
<1>. QED BY <1>1, <1>2, <1>3 DEF PnpCallback

\* With both races, and on any number of threads: once every thread has returned and no
\* read is out, ReadPumpRunning is FALSE.  Whatever the races do to the buffer,
\* the pump does not stop without saying so.
THEOREM StoppedPumpSaysSo == Spec => []StoppedUnflagged
<1>1. Init => GoesOn
  BY DEF Init, GoesOn
<1>2. TypeOK /\ Unstarted /\ GoesOn /\ [Next]_vars => GoesOn'
  BY GoesOnSender, GoesOnRoutine, GoesOnOther DEF Next
<1>3. TypeOK /\ GoesOn => StoppedUnflagged
  <2>. SUFFICES ASSUME TypeOK, GoesOn, Quiet PROVE ~ReadPumpRunning
    BY DEF StoppedUnflagged
  <2>1. ~Coming /\ ~Preparing /\ ~Sending /\ ~Reading
    BY DEF Quiet, Coming, Preparing, Entered, Sending, Reading
  <2>. QED BY <2>1 DEF GoesOn, TypeOK
<1>. QED BY <1>1, <1>2, <1>3, TypeInvariance, PTL DEF Spec

-----------------------------------------------------------------------------
(* Wherever completions run.                                               *)

LEMMA InitIInv == Init => IInv
BY ReadPumpAssumption DEF Init, IInv, SInv, Turn, Handshake, Power, Flag, Apart, AllIdle, Sending,
   Entered, InRoutine, WillRead, Threads, OnlyRestartFindsSent

\* Of two threads that stand still the one that may read on is the same.
LEMMA WillReadKept ==
    ASSUME NEW t \in Threads, \A u \in Threads : u # t => pc'[u] = pc[u],
           \A u \in Threads : u # t => previous'[u] = previous[u]
    PROVE  \A u \in Threads : u # t => WillRead(u)' = WillRead(u) /\ ReadsOn(u)' = ReadsOn(u)
BY DEF WillRead, ReadsOn

\* A sender that may give up: the next read is its own, and nothing is out.
Alone(t) ==
    \/ pc[t] \in {"check", "mark", "send"}
    \/ pc[t] = "exchange" /\ RequestState # "SENT"

LEMMA NobodyElse ==
    ASSUME SInv, NEW t \in Threads, Alone(t)
    PROVE  /\ \A u \in Threads : u # t => ~WillRead(u) /\ pc[u] # "exchange"
           /\ request = "free"
           /\ ~Entered
<1>1. CASE pc[t] \in {"check", "mark", "send"}
  <2>1. WillRead(t)
    BY <1>1 DEF WillRead
  <2>2. \A u \in Threads : u # t => ~WillRead(u) /\ pc[u] # "exchange"
    BY <1>1, <2>1 DEF SInv, Turn
  <2>3. request = "free"
    BY <2>1 DEF SInv, Turn
  <2>. QED BY <1>1, <2>2, <2>3 DEF Entered, WillRead
<1>2. CASE pc[t] = "exchange" /\ RequestState # "SENT"
  <2>1. request = "free" /\ ~Entered
    BY <1>2 DEF SInv, Handshake, Sending
  <2>2. \A u \in Threads : u # t => ~WillRead(u) /\ pc[u] # "exchange"
    BY <1>2, <2>1 DEF SInv, Turn, Entered
  <2>. QED BY <2>1, <2>2
<1>. QED BY <1>1, <1>2 DEF Alone

\* Giving up takes the next read with it.
LEMMA GivingUp ==
    ASSUME TypeOK, SInv, NEW t \in Threads, GivesUp(t), Alone(t),
           UNCHANGED <<previous, got, context, request>>
    PROVE  SInv'
<1> USE DEF context, device
<1>1. pc'[t] = "idle" /\ \A u \in Threads : u # t => pc'[u] = pc[u]
  BY Moves DEF GivesUp
<1>2. /\ \A u \in Threads : u # t => ~WillRead(u) /\ pc[u] # "exchange"
      /\ request = "free" /\ ~Entered
  BY NobodyElse
<1>3. \A u \in Threads : ~WillRead(u)' /\ pc'[u] # "exchange"
  BY <1>1, <1>2, WillReadKept DEF WillRead
<1>4. ~Sending' /\ ~Entered' /\ request' = "free"
  BY <1>1, <1>2, <1>3 DEF Sending, Entered
<1>5. Turn'
  BY <1>3, <1>4 DEF Turn
<1>6. Handshake'
  BY <1>3, <1>4 DEF Handshake, WillRead, OnlyRestartFindsSent
<1>7. Power'
  BY <1>1, <1>3, <1>4 DEF SInv, Power, AllIdle, GivesUp, WillRead
<1>8. Flag'
  BY <1>3, <1>4 DEF Flag, GivesUp
<1> QED
  BY <1>5, <1>6, <1>7, <1>8 DEF SInv

\* The steps of ReadH4Packet.
LEMMA SenderStep ==
    ASSUME NoLateExit, TypeOK, Unstarted, SInv, NEW t \in Threads, ReadH4Packet(t)
    PROVE  SInv'
<1> USE DEF context, device
<1>1. CASE CheckFails(t) \/ SendFails(t)
  BY <1>1, GivingUp DEF CheckFails, SendFails, Alone
<1>2. CASE LoopsNoMore(t)
  BY <1>2, GivingUp DEF LoopsNoMore, SendReturned, Alone
<1>3. CASE Check(t) \/ MarkSent(t)
  <2>1. /\ pc[t] \in {"check", "mark"} /\ pc'[t] \in {"mark", "send"}
        /\ \A u \in Threads : u # t => pc'[u] = pc[u]
    BY <1>3, Moves DEF Check, MarkSent
  <2>2. /\ \A u \in Threads : u # t => ~WillRead(u) /\ pc[u] # "exchange"
        /\ request = "free" /\ ~Entered
    BY <2>1, NobodyElse DEF Alone
  <2>3. UNCHANGED <<request, ReadPumpRunning, device, previous>>
    BY <1>3 DEF Check, MarkSent
  <2>4. /\ \A u \in Threads : u # t => ~WillRead(u)' /\ pc'[u] # "exchange"
        /\ WillRead(t)' /\ WillRead(t)
    BY <2>1, <2>2, <2>3, WillReadKept DEF WillRead
  <2>5. ~Sending' /\ ~Entered'
    BY <2>1, <2>2, <2>4 DEF Sending, Entered
  <2>6. Turn'
    BY <2>1, <2>2, <2>3, <2>4 DEF Turn
  <2>7. Handshake'
    <3>1. pc'[t] = "send" => RequestState' = "SENT"
      BY <1>3, Moves DEF Check, MarkSent
    <3>2. \A u \in Threads : u # t => pc'[u] \notin {"check", "send"} /\ ~(pc'[u] = "process" /\ ReadsOn(u)')
      BY <2>4 DEF WillRead
    <3> QED
      BY <2>1, <2>2, <2>3, <2>5, <3>1, <3>2 DEF Handshake, OnlyRestartFindsSent
  <2>8. Power'
    <3>1. ~AllIdle
      BY <2>1 DEF AllIdle
    <3>2. power \in {"d0", "failed"}
      BY <1>3, <3>1 DEF SInv, Power, Unstarted, TypeOK, Check, MarkSent
    <3> QED
      BY <2>3, <3>2 DEF SInv, Power
  <2>9. Flag'
    BY <2>2, <2>3, <2>4, <2>5 DEF SInv, Flag
  <2> QED
    BY <2>6, <2>7, <2>8, <2>9 DEF SInv
<1>4. CASE Send(t)
  <2>1. /\ pc[t] = "send" /\ pc'[t] = "exchange"
        /\ \A u \in Threads : u # t => pc'[u] = pc[u]
    BY <1>4, Moves DEF Send
  <2>2. /\ \A u \in Threads : u # t => ~WillRead(u) /\ pc[u] # "exchange"
        /\ ~Entered
    BY <2>1, NobodyElse DEF Alone
  <2>3. request' = "sent" /\ RequestState = "SENT" /\ ReadPumpRunning
    BY <1>4, <2>1 DEF SInv, Power, Handshake, Flag, WillRead, Send
  <2>4. UNCHANGED <<previous, RequestState, contextStatus, ReadPumpRunning, DeviceInitialized, power>>
    BY <1>4 DEF Send
  <2>5. /\ \A u \in Threads : u # t => ~WillRead(u)' /\ pc'[u] # "exchange"
        /\ ~WillRead(t)'
    BY <2>1, <2>2, <2>4, WillReadKept DEF WillRead
  <2>6. Sending' /\ ~Entered'
    BY <2>1, <2>2 DEF Sending, Entered
  <2>7. Turn'
    BY <2>1, <2>5 DEF Turn
  <2>8. Handshake'
    BY <2>3, <2>4, <2>5, <2>6 DEF Handshake, WillRead, OnlyRestartFindsSent
  <2>9. Power'
    BY <2>1, <2>3, <2>4 DEF SInv, Power
  <2>10. Flag'
    BY <2>3, <2>4 DEF Flag
  <2> QED
    BY <2>7, <2>8, <2>9, <2>10 DEF SInv
<1>5. CASE LeavesToRoutine(t)
  <2>1. /\ pc[t] = "exchange" /\ pc'[t] = "idle" /\ RequestState = "SENT" /\ RequestState' = "PENDING"
        /\ \A u \in Threads : u # t => pc'[u] = pc[u]
    BY <1>5, Moves DEF LeavesToRoutine, SendReturned
  <2>2. UNCHANGED <<previous, contextStatus, ReadPumpRunning, DeviceInitialized, power, request>>
    BY <1>5 DEF LeavesToRoutine
  <2>3. \A u \in Threads : WillRead(u)' = WillRead(u)
    BY <2>1, <2>2, WillReadKept DEF WillRead
  <2>4. Sending /\ ~Sending' /\ Entered' = Entered /\ (request # "free" \/ Entered)
    BY <2>1 DEF SInv, Turn, Handshake, Sending, Entered
  <2>5. Turn'
    BY <2>1, <2>2, <2>3 DEF SInv, Turn
  <2>6. Handshake'
    <3>1. \A u \in Threads : pc'[u] # "send"
      BY <2>1, <2>3, <2>4 DEF SInv, Turn, WillRead
    <3>. QED BY <2>1, <2>4, <3>1 DEF Handshake, OnlyRestartFindsSent
  <2>7. Power'
    BY <2>1, <2>2 DEF SInv, Power, AllIdle
  <2>8. Flag'
    <3>1. request' # "free" \/ \E u \in Threads : WillRead(u)'
      BY <2>2, <2>3, <2>4 DEF Entered, WillRead
    <3>. QED BY <2>2, <2>3, <2>4, <3>1 DEF SInv, Flag
  <2> QED
    BY <2>5, <2>6, <2>7, <2>8 DEF SInv
<1>6. CASE LoopsOn(t)
  <2>1. /\ pc[t] = "exchange" /\ pc'[t] = "check"
        /\ \A u \in Threads : u # t => pc'[u] = pc[u]
    BY <1>6, Moves DEF LoopsOn, SendReturned
  <2>2. /\ \A u \in Threads : u # t => ~WillRead(u) /\ pc[u] # "exchange"
        /\ request = "free" /\ ~Entered
    BY <1>6, <2>1, NobodyElse DEF LoopsOn, Alone
  <2>3. /\ UNCHANGED <<previous, RequestState, contextStatus, ReadPumpRunning, DeviceInitialized, power, request>>
        /\ RequestState # "SENT"
    BY <1>6 DEF LoopsOn
  <2>4. ReadPumpRunning
    BY <1>6, <2>1 DEF SInv, Flag, Sending, LoopsOn
  <2>5. /\ \A u \in Threads : u # t => ~WillRead(u)' /\ pc'[u] # "exchange"
        /\ WillRead(t)'
    BY <2>1, <2>2, <2>3, WillReadKept DEF WillRead
  <2>6. ~Sending' /\ ~Entered'
    BY <2>1, <2>2, <2>5 DEF Sending, Entered
  <2>7. Turn'
    BY <2>1, <2>2, <2>3, <2>5 DEF Turn
  <2>8. Handshake'
    BY <2>1, <2>2, <2>3, <2>5, <2>6 DEF Handshake, WillRead, OnlyRestartFindsSent
  <2>9. Power'
    BY <2>1, <2>3 DEF SInv, Power, AllIdle
  <2>10. Flag'
    BY <2>2, <2>3, <2>4, <2>5, <2>6 DEF Flag
  <2> QED
    BY <2>7, <2>8, <2>9, <2>10 DEF SInv
<1> QED
  BY <1>1, <1>2, <1>3, <1>4, <1>5, <1>6 DEF ReadH4Packet

\* The steps of the completion routine.
LEMMA RoutineStep ==
    ASSUME TypeOK, Unstarted, SInv, NEW t \in Threads, Routine(t)
    PROVE  SInv'
<1> USE DEF context, device
<1>1. CASE Enter(t)
  <2>1. /\ pc[t] = "entry" /\ pc'[t] \in {"process", "idle"}
        /\ \A u \in Threads : u # t => pc'[u] = pc[u]
    BY <1>1, Moves DEF Enter
  <2>2. /\ WillRead(t) /\ Entered /\ request = "free"
        /\ \A u \in Threads : u # t => ~WillRead(u)
    BY <2>1 DEF SInv, Turn, WillRead, Entered
  <2>3. /\ UNCHANGED <<DeviceInitialized, power, request>>
        /\ previous'[t] = RequestState
        /\ \A u \in Threads : u # t => previous'[u] = previous[u]
    BY <1>1 DEF Enter, TypeOK
  <2>4. /\ \A u \in Threads : u # t => ~WillRead(u)'
        /\ Sending' = Sending /\ ~Entered'
    BY <2>1, <2>2, <2>3, WillReadKept DEF Sending, Entered, WillRead
  <2>5. /\ RequestState = IF Sending THEN "SENT" ELSE "PENDING"
        /\ RequestState' = IF Sending THEN "COMPLETE" ELSE "PENDING"
    BY <1>1, <2>2 DEF SInv, Handshake, Enter
  <2>6. ReadPumpRunning
    BY <2>2 DEF SInv, Flag
  <2>7. WillRead(t)' => ~Sending
    BY <2>1, <2>3, <2>5 DEF WillRead, ReadsOn
  <2>8. Turn'
    <3>1. \A u, v \in Threads : pc'[u] = "exchange" /\ pc'[v] = "exchange" => u = v
      BY <2>1 DEF SInv, Turn
    <3> QED
      BY <2>2, <2>3, <2>4, <2>7, <3>1 DEF Turn, Sending
  <2>9. Handshake'
    <3>1. \A u \in Threads : pc'[u] \notin {"send", "check"}
      BY <2>1, <2>4 DEF WillRead
    <3>. QED BY <2>2, <2>3, <2>4, <2>5, <3>1 DEF Handshake, OnlyRestartFindsSent
  <2>10. Power'
    BY <2>1, <2>2, <2>3 DEF SInv, Power, AllIdle
  <2>11. Flag'
    <3>1. CASE got[t] \in {"success", "timeout"}
      <4>1. pc'[t] = "process" /\ ReadPumpRunning'
        BY <1>1, <2>6, <3>1, Moves DEF Enter
      <4>2. ~Sending => WillRead(t)'
        BY <2>3, <2>5, <4>1 DEF WillRead, ReadsOn
      <4> QED
        BY <2>4, <4>1, <4>2 DEF Flag
    <3>2. CASE got[t] \notin {"success", "timeout"}
      <4>1. pc'[t] = "idle" /\ ~ReadPumpRunning' /\ ~Succeeds(contextStatus')
        BY <1>1, <3>2, Moves DEF Enter, Succeeds
      <4>2. ~WillRead(t)'
        BY <4>1 DEF WillRead
      <4> QED
        BY <2>2, <2>3, <2>4, <4>1, <4>2 DEF Flag, Succeeds
    <3> QED
      BY <3>1, <3>2
  <2> QED
    BY <2>8, <2>9, <2>10, <2>11 DEF SInv
<1>2. CASE Process(t)
  <2>1. /\ pc[t] = "process"
        /\ pc'[t] = IF ReadsOn(t) THEN "check" ELSE "idle"
        /\ \A u \in Threads : u # t => pc'[u] = pc[u]
    BY <1>2, Moves DEF Process
  <2>2. UNCHANGED <<previous, RequestState, contextStatus, ReadPumpRunning, DeviceInitialized,
                    power, request>>
    BY <1>2 DEF Process
  <2>3. \A u \in Threads : WillRead(u)' = WillRead(u)
    BY <2>1, <2>2, WillReadKept DEF WillRead
  <2>4. Sending' = Sending /\ Entered' = Entered
    BY <2>1 DEF Sending, Entered
  <2>5. Turn'
    BY <2>1, <2>2, <2>3 DEF SInv, Turn, WillRead
  <2>6. Handshake'
    BY <2>1, <2>2, <2>4 DEF SInv, Handshake, OnlyRestartFindsSent, ReadsOn
  <2>7. Power'
    BY <2>1, <2>2 DEF SInv, Power, AllIdle
  <2>8. Flag'
    BY <2>2, <2>3, <2>4 DEF SInv, Flag
  <2> QED
    BY <2>5, <2>6, <2>7, <2>8 DEF SInv
<1> QED
  BY <1>1, <1>2 DEF Routine

\* A read that is out completes in a thread that was idle.
LEMMA UartStep ==
    ASSUME TypeOK, SInv, UartCompletes
    PROVE  SInv'
<1> USE DEF context, device
<1>1. PICK t \in Threads : /\ pc[t] = "idle" /\ pc'[t] = "entry"
                           /\ \A u \in Threads : u # t => pc'[u] = pc[u]
  BY DEF UartCompletes, Threads, TypeOK
<1>2. /\ request = "sent" /\ request' = "free"
      /\ UNCHANGED <<previous, RequestState, contextStatus, ReadPumpRunning, DeviceInitialized,
                     power>>
  BY DEF UartCompletes
<1>3. \A u \in Threads : ~WillRead(u)
  BY <1>2 DEF SInv, Turn
<1>4. WillRead(t)' /\ \A u \in Threads : u # t => ~WillRead(u)'
  BY <1>1, <1>2, <1>3, WillReadKept DEF WillRead
<1>5. Sending' = Sending /\ Entered'
  BY <1>1 DEF Sending, Entered
<1>6. Turn'
  BY <1>1, <1>2, <1>4 DEF SInv, Turn
<1>7. Handshake'
  <2>1. \A u \in Threads : /\ pc'[u] \notin {"send", "check"}
                           /\ ~(pc'[u] = "process" /\ ReadsOn(u)')
    BY <1>1, <1>4 DEF WillRead
  <2>. QED BY <1>2, <1>5, <2>1 DEF SInv, Handshake, OnlyRestartFindsSent
<1>8. Power'
  BY <1>1, <1>2 DEF SInv, Power, AllIdle
<1>9. Flag'
  BY <1>2, <1>4 DEF SInv, Flag
<1> QED
  BY <1>6, <1>7, <1>8, <1>9 DEF SInv

\* The callbacks that start the pump do so at rest, and the others leave it alone.
LEMMA PnpRests ==
    ASSUME SInv, Unstarted, SelfManagedIoInit \/ D0Entry
    PROVE  AllIdle /\ request = "free" /\ request' = "free" /\ ReadPumpRunning' /\ power' = "d0"
BY DEF SInv, Power, Unstarted, SelfManagedIoInit, D0Entry

LEMMA PnpLeaves ==
    ASSUME SInv,
           \/ Invalidated \/ Invalidate \/ StopTarget \/ D0Exit \/ StartTarget \/ StartFails
           \/ Failed \/ UNCHANGED vars
    PROVE  UNCHANGED <<pc, previous, RequestState, contextStatus, ReadPumpRunning, request>>
BY DEF Invalidated, Invalidate, StopTarget, D0Exit, StartTarget, StartFails, Failed, vars, locals,
   context, device, SInv, Power

LEMMA PnpStep ==
    ASSUME NoLateExit, TypeOK, Unstarted, SInv,
           PnpCallback \/ Failed \/ UNCHANGED vars
    PROVE  SInv'
<1> USE DEF context, device
<1>1. CASE SelfManagedIoInit \/ D0Entry
  <2>1. AllIdle /\ request = "free" /\ request' = "free" /\ ReadPumpRunning' /\ power' = "d0"
    BY <1>1, PnpRests
  <2>2. pc'[Pnp] = "check" /\ \A u \in Threads : u # Pnp => pc'[u] = "idle"
    BY <1>1, <2>1, Moves DEF SelfManagedIoInit, D0Entry, AllIdle, Threads
  <2>3. ~Sending' /\ ~Entered' /\ ~AllIdle'
    BY <2>2 DEF Sending, Entered, AllIdle, Threads
  <2>4. WillRead(Pnp)' /\ \A u \in Threads : u # Pnp => ~WillRead(u)'
    BY <2>2 DEF WillRead
  <2>5. Turn'
    BY <2>1, <2>2, <2>4 DEF Turn, Threads
  <2>6. Handshake'
    BY <2>1, <2>2, <2>3 DEF Handshake, OnlyRestartFindsSent
  <2>7. Power' /\ Flag'
    BY <2>1, <2>2, <2>3, <2>4 DEF Power, Flag, Threads
  <2> QED
    BY <2>5, <2>6, <2>7 DEF SInv
<1>2. CASE \/ Invalidated \/ Invalidate \/ StopTarget \/ D0Exit \/ StartTarget \/ StartFails
           \/ Failed \/ UNCHANGED vars
  <2>1. UNCHANGED <<pc, previous, RequestState, contextStatus, ReadPumpRunning, request>>
    BY <1>2, PnpLeaves
  <2>2. Sending' = Sending /\ Entered' = Entered /\ AllIdle' = AllIdle
    BY <2>1 DEF Sending, Entered, AllIdle
  <2>3. Turn' /\ Handshake' /\ Flag'
    BY <2>1, <2>2 DEF SInv, Turn, Handshake, Flag, WillRead, ReadsOn, OnlyRestartFindsSent
  <2>4. Power'
    <3>1. CASE Invalidated \/ Invalidate \/ StopTarget
      BY <2>1, <3>1 DEF SInv, Power, Invalidated, Invalidate, StopTarget, NoLateExit
    <3>2. CASE D0Exit \/ StartTarget \/ StartFails
      BY <2>1, <2>2, <3>2 DEF SInv, Power, D0Exit, StartTarget, StartFails, AllIdle, Unstarted,
         TypeOK
    <3>3. CASE Failed \/ UNCHANGED vars
      BY <2>1, <2>2, <3>3 DEF SInv, Power, Failed, vars
    <3> QED
      BY <1>2, <3>1, <3>2, <3>3
  <2> QED
    BY <2>3, <2>4 DEF SInv
<1> QED
  BY <1>1, <1>2 DEF PnpCallback

LEMMA NextSInv ==
    ASSUME NoLateExit, TypeOK, Unstarted, SInv, [Next]_vars
    PROVE  SInv'
BY SenderStep, RoutineStep, UartStep, PnpStep DEF Next

LEMMA SharedInvariance ==
    ASSUME NoLateExit
    PROVE  Spec => []SInv
<1>1. Init => SInv
  BY InitIInv DEF IInv
<1>2. TypeOK /\ Unstarted /\ SInv /\ [Next]_vars => SInv'
  BY NextSInv
<1> QED
  BY <1>1, <1>2, TypeInvariance, PTL DEF Spec

\* As long as D0Exit does not come between a check of DeviceInitialized and its
\* send there is one next read (driver.h:297), on any processor its completion
\* runs and for any number of threads: the exchange of RequestState is enough for
\* the request itself, which is never reused while it is out.
THEOREM OneNextReadOnAnyProcessor ==
    ASSUME NoLateExit
    PROVE  Spec => []OneNextRead
<1>1. SInv => OneNextRead
  <2>. SUFFICES ASSUME SInv, NEW u \in NextReaders, NEW v \in NextReaders PROVE u = v
    BY DEF OneNextRead
  <2>1. CASE request = "free"
    BY <2>1 DEF SInv, Turn, NextReaders
  <2>2. CASE request # "free"
    BY <2>2 DEF SInv, Turn, NextReaders
  <2>. QED BY <2>1, <2>2
<1> QED
  BY <1>1, SharedInvariance, PTL

\* Under the same assumption ReadPumpRunning is TRUE while somebody has the next
\* read, and once every thread has returned only then.
THEOREM FlagIsTruthful ==
    ASSUME NoLateExit
    PROVE  Spec => []PumpFlagTruthful
<1>1. SInv => PumpFlagTruthful
  BY DEF SInv, Flag, PumpFlagTruthful, StoppedUnflagged, Quiet, Sending, WillRead
<1> QED
  BY <1>1, SharedInvariance, PTL

\* And a read is prepared on a settled RequestState, as the assertion at
\* io.c:1248 wants it, except by D0Entry behind a failed send.
THEOREM RestartAloneFindsSent ==
    ASSUME NoLateExit
    PROVE  Spec => []OnlyRestartFindsSent
<1>1. SInv => OnlyRestartFindsSent
  BY DEF SInv, Handshake
<1> QED
  BY <1>1, SharedInvariance, PTL

-----------------------------------------------------------------------------
(* Completions inside WdfRequestSend or after it.                          *)

\* A step of a sender, which no routine is beside.
LEMMA ApartSender ==
    ASSUME NoRaces, TypeOK, SInv, Apart, NEW t \in Threads, ReadH4Packet(t)
    PROVE  Apart'
<1>1. \A u \in Threads : u # t => ~InRoutine(u)
  BY DEF Apart, ReadH4Packet, CheckFails, Check, MarkSent, Send, SendFails, LeavesToRoutine, LoopsOn,
     LoopsNoMore, SendReturned, NoRaces
<1>2. PICK place : Goes(t, place) /\ place \notin {"entry", "process"}
  BY DEF ReadH4Packet, CheckFails, Check, MarkSent, Send, SendFails, LeavesToRoutine, LoopsOn,
     LoopsNoMore, GivesUp
<1>3. pc'[t] = place /\ \A u \in Threads : u # t => pc'[u] = pc[u]
  BY <1>2, Moves
<1>4. \A u \in Threads : ~InRoutine(u)'
  BY <1>1, <1>2, <1>3 DEF InRoutine
<1>. QED BY <1>4 DEF Apart, InRoutine

LEMMA ApartRoutine ==
    ASSUME TypeOK, SInv, Apart, NEW t \in Threads, Routine(t)
    PROVE  Apart'
<1>. USE DEF context, device
<1>1. InRoutine(t) /\ request = "free" /\ request' = "free"
  BY DEF Apart, Routine, Enter, Process, InRoutine
<1>2. \A u \in Threads : u # t => pc[u] \in {"idle", "exchange"} /\ pc'[u] = pc[u]
  <2>1. \E place : Goes(t, place)
    BY DEF Routine, Enter, Process
  <2>. QED BY <1>1, <2>1, Moves DEF Apart
<1>3. \A u \in Threads : u # t => ~InRoutine(u)'
  BY <1>2 DEF InRoutine
<1>4. CASE Enter(t)
  <2>1. pc[t] = "entry" /\ pc'[t] \in {"process", "idle"} /\ previous'[t] = RequestState
    BY <1>4, Moves DEF Enter, TypeOK
  <2>2. Sending' = Sending
    BY <1>2, <2>1 DEF Sending
  <2>3. RequestState = IF Sending THEN "SENT" ELSE "PENDING"
    BY <2>1 DEF SInv, Handshake, Entered
  <2>4. ~ReadsOn(t)' => Sending'
    BY <2>1, <2>2, <2>3 DEF ReadsOn
  <2>. QED BY <1>1, <1>2, <1>3, <2>4 DEF Apart, InRoutine
<1>5. CASE Process(t)
  <2>1. pc'[t] \in {"check", "idle"}
    BY <1>5, Moves DEF Process
  <2>. QED BY <1>1, <1>3, <2>1 DEF Apart, InRoutine
<1>. QED BY <1>4, <1>5 DEF Routine

LEMMA ApartUart ==
    ASSUME TypeOK, SInv, Apart, UartCompletes
    PROVE  Apart'
<1>1. PICK t \in Threads : /\ pc[t] = "idle" /\ pc'[t] = "entry"
                           /\ \A u \in Threads : u # t => pc'[u] = pc[u]
  BY DEF UartCompletes, Threads, TypeOK
<1>2. /\ request = "sent" /\ request' = "free"
      /\ \A u \in Threads : ~InRoutine(u) /\ ~WillRead(u)
  BY DEF UartCompletes, Apart, SInv, Turn
<1>3. \A u \in Threads : u # t => pc'[u] \in {"idle", "exchange"}
  BY <1>1, <1>2 DEF WillRead, InRoutine, TypeOK
<1>. QED BY <1>1, <1>2, <1>3 DEF Apart, InRoutine

LEMMA ApartPnp ==
    ASSUME TypeOK, Unstarted, SInv, Apart, PnpCallback \/ Failed \/ UNCHANGED vars
    PROVE  Apart'
<1>1. CASE SelfManagedIoInit \/ D0Entry
  <2>1. AllIdle /\ request' = "free"
    BY <1>1, PnpRests
  <2>2. \A u \in Threads : pc'[u] \in {"idle", "check"}
    BY <1>1, <2>1, Moves DEF SelfManagedIoInit, D0Entry, AllIdle, Threads
  <2>. QED BY <2>1, <2>2 DEF Apart, InRoutine
<1>2. CASE \/ Invalidated \/ Invalidate \/ StopTarget \/ D0Exit \/ StartTarget \/ StartFails
           \/ Failed \/ UNCHANGED vars
  <2>1. UNCHANGED <<pc, previous, request>>
    BY <1>2, PnpLeaves
  <2>. QED BY <2>1 DEF Apart, InRoutine, ReadsOn, Sending
<1>. QED BY <1>1, <1>2 DEF PnpCallback

LEMMA NextIInv ==
    ASSUME NoRaces, TypeOK, Unstarted, IInv, [Next]_vars
    PROVE  IInv'
<1>1. SInv'
  BY NextSInv DEF IInv, NoRaces
<1>2. Apart'
  BY ApartSender, ApartRoutine, ApartUart, ApartPnp DEF IInv, Next
<1>. QED BY <1>1, <1>2 DEF IInv

LEMMA Invariance ==
    ASSUME NoRaces
    PROVE  Spec => []IInv
<1>1. Init => IInv
  BY InitIInv
<1>2. TypeOK /\ Unstarted /\ IInv /\ [Next]_vars => IInv'
  BY NextIInv
<1> QED
  BY <1>1, <1>2, TypeInvariance, PTL DEF Spec

\* A sender that gives up leaves nobody in the pump.
LEMMA GivesUpLast ==
    ASSUME TypeOK, IInv, NEW t \in Threads, Alone(t),
           pc[t] = "exchange" => \A u \in Threads : ~InRoutine(u)
    PROVE  request = "free" /\ \A u \in Threads : u # t => pc[u] = "idle"
<1>1. /\ request = "free"
      /\ \A u \in Threads : u # t => ~WillRead(u) /\ pc[u] # "exchange"
  BY NobodyElse DEF IInv
<1>2. \A u \in Threads : u # t => ~InRoutine(u)
  BY DEF IInv, Apart, Alone
<1>. QED BY <1>1, <1>2 DEF WillRead, InRoutine, TypeOK

\* The request, its buffer and its context have one user at a time.
LEMMA OneReaderHolds == IInv => OneReader
<1>. SUFFICES ASSUME IInv, NEW u \in Users, NEW v \in Users PROVE u = v
  BY DEF OneReader
<1>1. \A t \in Threads : pc[t] \in {"check", "mark", "send", "entry", "process"} =>
                            WillRead(t) \/ InRoutine(t)
  BY DEF WillRead, InRoutine
<1>2. CASE request # "free"
  BY <1>1, <1>2 DEF IInv, SInv, Turn, Apart, Users
<1>3. CASE request = "free"
  <2>1. u \in Threads /\ v \in Threads
    BY <1>3 DEF Users
  <2>2. CASE InRoutine(u) \/ InRoutine(v)
    BY <1>3, <2>1, <2>2 DEF IInv, Apart, Users
  <2>3. CASE ~InRoutine(u) /\ ~InRoutine(v)
    BY <1>1, <1>3, <2>1, <2>3 DEF IInv, SInv, Turn, Users
  <2>. QED BY <2>2, <2>3
<1>. QED BY <1>2, <1>3

\* Without the two races the read request, its buffer and its context have one
\* user at a time (driver.h:297), for any number of threads: the exchange of
\* RequestState and the order of D0Exit are all that OneReader needs.
THEOREM OneReaderWithoutRaces ==
    ASSUME NoRaces
    PROVE  Spec => []OneReader
BY OneReaderHolds, Invariance, PTL
=============================================================================
