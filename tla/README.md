# TLA+ models of the IFXBT UART HCI transport driver

The driver connects Microsoft's Bluetooth stack (BthPort) to an Infineon
Bluetooth controller behind a UART. It is a KMDF bus driver: a parent device
(FDO) owns the UART and exposes one child device (PDO) on which BthPort loads.
This directory holds models of its concurrent parts, what TLC checks of them on
small instances, and what TLAPS proves of them for every instance.

Paths and line numbers are those of the repository this directory belongs to.

## 1. Inventory

### Components

| Component | Code | State | Operations |
|---|---|---|---|
| HCI write path | `Fdo.c` `FdoIoQuDeviceControl` (WRITE_HCI), `FdoWriteDeviceIO`; `io.c` `CR_WriteDeviceIO`, `CB_RequestFromBthportCancel`, `HLP_*ResourceForWrite` | `UART_WRITE_CONTEXT` per request (`RequestCompletePath`, lower request, memory), two counters | dispatch, cancel, complete |
| HCI read requests | `Fdo.c` READ_HCI case and epilogue; `io.c` `ReadRequestComplete`, `ReadResourcesFree` | per packet type: a manual queue of requests and a list of packets, under `QueueAccessLock` | queue a request, match, list a packet, free |
| H4 reassembly | `io.c` `ReadH4PacketReassemble`, `ReadSegmentStateSet`, `ReadH4PacketComplete` | `UART_READ_CONTEXT`: segment state, partial packet, lengths | one turn per segment; next read length |
| Read pump | `io.c` `ReadH4Packet`, `ReadH4PacketCompletionRoutine` | `RequestState`, `Status`, `ReadPumpRunning`, the one read request | send, complete, continue |
| Read resources | `io.c` `ReadResourcesAllocate`, `ReadResourcesFree` | queues, lists, locks, request | allocate, free |
| Parent life cycle | `Fdo.c` PrepareHardware, D0Entry, SelfManagedIoInit, D0Exit, ReleaseHardware; `driver.c` | `TransportState`, `LastFailureReason`, `DeviceInitialized`, the serial I/O target | PnP and power callbacks |
| Controller initialization | `WDK/device.c` `DeviceInitialize`, `DeviceEnable`, `DevicePowerOn`, `IfxBtConfigureUart` | none of its own | a fixed sequence of stages |
| Board and firmware contracts | `WDK/IfxBtPlatform.c`, `WDK/IfxBtFirmware.c` | constant records | validators, stage sequencing |
| Child device, radio on/off | `Fdo.c` `FdoCreate*`, `FdoRemoveOneChildDevice`, radio IOCTL; `pdo.c` | static child list, `ChildLock`, `IsRadioEnabled` | create, remove, radio on, radio off |
| Platform-level reset | `pdo.c` `PdoResetHandler`; `device.c` `DeviceDoPLDR`, `IfxBtDoControllerReset` | the parent's fields | reset |
| Child request forwarding | `pdo.c` `PdoIoQuDeviceControl`, the queues of `PdoCreate` and `driver.c` | the framework's: which queue or thread holds a request | forward five IOCTLs, refuse the others |
| Wake and idle | `Fdo.c` `FdoSetIdleSettings`; `pdo.c` PrepareHardware, ReleaseHardware, wake at the bus; `device.c` `IfxBtConfigureWake` | the idle references on the parent, the child's wake | take and give back a reference, arm, disarm |
| Information IOCTLs, tracing, build, INF | `Fdo.c`, `WDK/` | constants | - |

### How they interact

```
 BthPort -- write/read IOCTL --> PDO --forwards--> default queue of the FDO (parallel)
                                                      |            |
                                         write path --+            +-- read requests
                                             |                           ^
                                             v                           | packets
                                           UART ---> read pump ---> H4 reassembly
 PnP/power callbacks: start and stop the UART target, the pump, the child
 radio IOCTL, reset interface: change readiness and the list of children
```

* The default queue dispatches in parallel, so every request has a thread of
  its own. A write is touched by three threads: its dispatch thread, the cancel
  callback of the upper request and the completion routine of the lower one.
* The pump and the dispatch threads meet at the queue and list of a packet type.
* PnP callbacks, radio requests and the reset handler share unlocked fields of
  `FDO_EXTENSION`; only the creation of a child takes `ChildLock`.

### What is hard, and what makes a component correct

| Component | Hard | Correct when |
|---|---|---|
| Write path | three threads arbitrate with interlocked bits and the framework's cancelable state | each request is completed exactly once, with a status that tells what happened, nobody uses a released object, everything taken is given back, a cancellation is not lost |
| Read requests | a request is queued in one critical section and the list searched in another; cancellation; power-managed queues pause | no packet is lost, doubled or reordered in the list; no request is forgotten; packet and request find each other |
| Reassembly | segments cut at any byte; lengths from the wire; errors; restart | what is completed is exactly what was on the wire; no read exceeds its buffer, and none waits for bytes beyond the packet, but for those named in section 4 |
| Pump | a completion inside `WdfRequestSend`, after it, or on another processor; D0Exit at any step | one user of the one request and buffer; the pump reads on, or its flag says it has stopped |
| Data path | packets leave the pump for queues that the power callbacks pause; resources are freed without asking the pump | D0Exit returns; nothing is freed in use; the two halves keep what they promise alone |
| Controller initialization | a dozen unfinished contracts at once; a port that refuses or never answers one of five IOCTLs | the start ends; it names the first obstacle; Operational means that everything was applied |
| Child requests | two queues, one of them power managed; cancellation; a parent that idles out, sleeps or fails | every request is completed once; the stack comes up; the parent does not idle under its child, and does get down |
| Life cycle | stages fail; radio requests and resets run beside each other | no readiness and no child while a contract that has to be replaced is a placeholder; at most one child; the root failure is kept; radio requests end; flag and child agree |

Every line where one of these can go wrong is listed under `hazards` in
`PROJECT.json`, with the properties that watch it or the reason why none does.

### The tree as it is shipped

Every board, UART, power and firmware contract of this tree is a placeholder that
is refused, so `DeviceInitialize` never returns TRUE here: no child is exposed
and no HCI traffic flows. `Lifecycle` starts from any combination of placeholders
and replaced contracts, the shipped one included, and `GatedByContracts` says what
follows while one of the UART, power and firmware contracts or the controller validation is left.
The platform contract is another matter: the validators ask for its placeholders, so that replacing
it would stop every start (section 4, finding 5). `ControllerInit` does so with the contracts themselves, and
the theorem `NothingStartsYet` says it of the enumerations of this tree: whatever the
contracts are filled in with, no board becomes Operational before a port adds a file type and a
command sequence. The modules of the data path model that code as it
runs once the contracts have been replaced.

## 2. Modules

| Module | Models | State and actions |
|---|---|---|
| `WriteRequest` | the write path | one function per field of a write over `Writes`; program counters `dispatch`, `callback`, `routine`; one action per interlocked operation or framework call that another thread can observe |
| `WritePromise` | abstract: what BthPort is promised of a write | `phase`, `asked`, `answer`, `result` |
| `WriteRefinement` | the refinement mapping from `WriteRequest` | - |
| `WriteRequestProofs` | theorems on the above | - |
| `ReadQueue` | read requests and packets | queue and list as sequences; one action per critical section; `ioctlHand`/`pumpHand` is what a thread carries between them |
| `ReadQueueProofs` | theorems on it | - |
| `H4Reassembly` | the segment machine and the next read length | the wire as bytes, how many are received and consumed; one action per turn of the loop; `Restart` is a power cycle, in the middle of a packet or between two |
| `H4ReassemblyProofs` | theorems on it | - |
| `ReadPump` | who sends the next read | program counter per thread, `RequestState`, the request; `power` is where D0Entry/D0Exit stand |
| `ReadPumpProofs` | theorems on it | - |
| `DataPath` | the pump and one stream of read requests as one system | `INSTANCE ReadPump` and `INSTANCE ReadQueue` on common variables, `batch` (packets of the read being processed), `ReadRequest`; one action per joint step |
| `DataPathProofs` | theorems on it | - |
| `Lifecycle` | the parent, its stages, the child, radio and reset | `pc` of the PnP thread is the stage; one action per stage or handler step |
| `LifecycleProofs` | theorems on it | - |
| `Contracts` | the records of a board and the validators on them | constant operators, no state |
| `ControllerInit` | one start in detail | `pc` is the stage, `sent` and `waiting` the serial IOCTLs; one action per validator, IOCTL sent, answered or timed out |
| `ControllerRefinement` | the refinement mapping from `ControllerInit` to `Lifecycle` | - |
| `ControllerInitProofs` | theorems on `ControllerInit` | - |
| `ChildRequests` | requests through the two devices, and their power | `owner` of a request, `child`, `parent`, `system`, `idleRefs`, `wake`; one action per callback of the driver and per step of the framework |
| `ChildRequestsProofs` | theorems on it | - |
| `MC*` | values for the constants | - |

The models meet at these seams. `H4Reassembly` completes a packet; that is the arrival
of a packet in `ReadQueue`, and in `DataPath` a packet of the read that the pump's routine
processes. One `Process` step of `ReadPump` is all the turns `H4Reassembly` takes over a
read; `DataPath` splits it into one step per packet. `DataPath` also orders the power
callbacks of `ReadPump` and the pauses of the queues in `ReadQueue` as the framework does: pause,
D0Exit, D0Entry, start. It uses the pump without its two races (section 4), and both its modules
are shown to be implemented by it. `Lifecycle` starts the pump in the stage
"pump" and in SelfManagedIoInit, and its D0Exit is the sequence of
`Invalidate`, `StopTarget`, `D0Exit` in `ReadPump`. The start of `Lifecycle` is refined by
`ControllerInit`. `ChildRequests` parks a read where `ReadQueue` takes over and sends a write
where `WriteRequest` does.

Each module contains, next to an action, the mutated form of it that shows
that a property can fail ("Mutant: ..."); no specification uses them.

### What is abstracted

* Payloads are numbers or small sequences; the write path tells success, short
  writes, cancellation and failure apart and nothing else.
* Events and ACL data have a queue and list each that differ in nothing but
  the type; `ReadQueue` models one pair.
* Counters that are only traced (`QueueCount`, `ListCount`, packet statistics) are
  left out; the two of the write path are kept as part of their actions, and no property is
  about them beyond `TypeOK`.
* A contract is a record of the fields its validator reads; baud rates are zero or not,
  strings are present or not.
* `ChildRequests` has one child, as the driver has.
* Calls on objects that no other thread can reach yet are merged in one step.
* `Enter` of `ReadPump` merges the store to `ReadContext.Status` with the exchange
  that follows it.

### What is assumed of the code outside

These assumptions are on the framework, the UART driver and the stacks above, modelled
from how the code uses them:

* `WdfRequestUnmarkCancelable` and the cancel callback exclude each other: the
  first to win decides, and the loser sees it in its status.
* `WdfIoTargetStop` cancels sent requests, waits for their completion routines,
  and holds what is sent later until the target starts.
* A power-managed queue answers that it is paused outside D0. No EvtIoStop is
  registered, so D0Exit waits for the radio requests that were dispatched.
* BthMini sends its version and capability requests before it asks for D0, everything else
  in D0, and cancels all it has out when its device leaves D0 (`driver.c:266-279`, `pdo.c:763-766`).
* `WdfDeviceStopIdle` fails on a parent that has failed and succeeds otherwise.
* A serial IOCTL is completed, refused, or timed out by the framework.
* A controller that keeps to the format sends one packet right behind another (`Follows` in
  `H4Reassembly`); where it does not, the stream is out of sync from there.
* The radio interface can be opened once the device has started; the reset
  interface is used by the stack of a started child; ReleaseHardware
  follows a start that failed.
* Objects are parented so that an object is gone when it has been deleted and
  no reference is left; `ObjectsAliveWhenUsed` uses the explicit references only.

## 3. Runs

All passing runs check deadlock, and each checks the properties with their
action and temporal forms. State counts are distinct states.

| Run | Instance | Shows |
|---|---|---|
| `write_arbitration` | 2 writes, every preparation and send may fail; 47 519 states | `CompletedExactlyOnce`, `ObjectsAliveWhenUsed` (with `DeletedOnce`), `DeliveredWriteReleased`, `UndeliveredWriteReleased`, `ResultFaithful`, `SentLateOnlyBehindCancel`; the refinement `KeepsPromise` |
| `readq_matching` | 3 requests, 3 packets, cancellation, power cycles, failing resources; 169 363 states | `PacketsConserved`, `ListInArrivalOrder`, `ReadsAccountedFor`, `StrandedOnlyOutsideD0`, `PacketMeetsReader` |
| `readq_gap` | 1 request, 2 packets, nothing fails | violation: `JustQueuedIsRetrieved` |
| `h4_stream` | all 512 wires of 3 packets out of 8, every cut into reads, power cycles anywhere; 1 381 658 states | `PacketsAreRunsOfTheWire`, `PacketFits`, `LongReadsNotChosen`, `ReadFitsBuffer`, `EveryPacketCompletes` |
| `pump_smp` | PnP thread and 3 routine threads, completions on any processor; 97 948 states | `OneNextRead`, `PumpFlagTruthful`, `OnlyRestartFindsSent`, `KeepsReading` |
| `pump_race` | completions on another processor, D0Exit at any step | violation: `OneReader` |
| `data_path` | PnP thread and 2 routine threads, 1 request, 2 packets in batches of up to 2, failing resources; 575 833 states | `PumpHasItsResources`, `OneReader`, `D0ExitReturns`, the refinement `AsReadQueue` |
| `lifecycle_bringup` | every configuration, 2 radio requests, a reset, restarts; 8 152 states | `GatedByContracts`, `OneChild`, `RootReasonKept`, `InitializedOnStartedTarget`, `ChildBornReady`, `RadioRequestsComplete` |
| `lifecycle_radio` | the same | violation: `ChildHasRadio` |
| `lifecycle_resume` | the same | violation: `EveryStageCanPass` |
| `controller_init` | every two neighbouring contracts out of 5 platforms, 12 UARTs, 7 power and 7 firmware contracts, the shipped board, all resources; 25 092 states | `ReasonIsFirstObstacle`, `OperationalNeedsEverything`, `StartEnds`, the refinement `StartsAsLifecycle` |
| `child_requests` | 1 query, 2 requests of 4 kinds, 3 wake configurations; 37 602 states | `CompletedByItsOwner`, `IdleReferencesAccounted`, `NoIdleUnderChild`, `StackStarts`, `ParentGetsDown` |

The type invariant of every module is a theorem and is not run again. Some properties state
where the code stops short of what one would want, so that everything else is shown to be
as it should. Section 4 (known limits, findings) has the lines:

* `UndeliveredWriteReleased` and `SentLateOnlyBehindCancel`: a failing send, a late cancellation;
* `ReadsAccountedFor`: a read request may be completed a second time, by the epilogue of its own
  dispatch thread;
* `StrandedOnlyOutsideD0`: packets and requests that a step outside D0 leaves beside each other;
* `LongReadsNotChosen` and `ReadFitsBuffer`: reads that the loop posts again, and a header that
  announces too much;
* `PacketsAreRunsOfTheWire` and `EveryPacketCompletes`: a packet that a power cycle tears;
* `OnlyRestartFindsSent`: a state that a failed send leaves behind;
* `IdleReferencesAccounted`: one reference too few on a parent that failed;
* `OperationalNeedsEverything`: the placeholders of the platform contract.

### Bounds, and why they are enough

* Writes do not share anything but two counters; one write shows every order of its
  three threads, the second that a step of one leaves the other alone. The theorems
  hold for any number.
* Three read requests and packets: one request in the hand of a thread, one in the
  hand of the pump and one in the queue, the same for packets, is the largest
  situation in which the critical sections treat requests differently.
  `MaxPackets` bounds how many packets arrive; the theorems hold for any number.
* Three packets on the wire: one before, one at and one after an error or a
  restart. The types cover an event without, with one and with three
  parameters, ACL data without and with payload, ACL data one byte too long, ACL data
  that announces 260 bytes, and no packet at all. Payload bytes look
  like packet types, so that a machine that is out of step takes them for headers.
  `MaxAclPayload` is 3 in place of 1021: the code compares with it and does nothing
  else. The theorems hold for every wire and every bound.
* The composed data path has one request and two packets: what more of them do is
  `readq_matching`'s question, and `AsReadQueue`, proved for any number, carries its answer
  over. Two routine threads are those that are busy at once: the pump without its races has one
  reader and one routine that is about to end.
* Pairs of unfinished contracts: the first obstacle is decided by the order of two stages, and
  every pair of neighbouring stages is among the boards. The theorem is on any board.
* One query, a request that may be a read or a write, and one that may be a write or
  unknown: each kind of request meets each other kind and each power state.
* Three routine threads: a routine that has called `ReadH4Packet` may be in it
  while the next two completions arrive.
* Two radio requests, the reset and the PnP thread are all the actors that
  change the child; a third request adds a repetition. The number of
  power cycles, restarts and radio requests is not bounded: the state is finite.

### Fairness

* A thread inside the driver runs on (weak fairness per thread and phase): the
  code waits for nothing but a spin lock or `ChildLock`.
* The write path: the UART completes a lower request that it was asked to cancel.
  It need not complete any other; BthPort need not cancel.
* Read requests: the fairness is of the two threads; arrivals, requests,
  cancellations and power changes are free.
* Reassembly: the UART returns a read for which bytes have come.
* `KeepsReading` needs no fairness of the UART: a read that is outstanding is
  what it asks for.
* Data path: a thread in the pump runs on, D0Exit goes on, and `WdfIoTargetStop` cancels the read
  it finds. The UART completes nothing by itself; queues, reads and D0Entry are free.
* Controller initialization: the PnP thread runs on and the timer of an IOCTL elapses; the
  port owes no answer.
* Child requests: the framework dispatches, carries out cancellations and finishes the
  transitions it has begun; handlers return; BthMini sends its queries, asks for D0 when
  they are answered and leaves a parent that failed. No packet need arrive, the UART need not
  answer, nobody need cancel, and the system need not sleep.
* Life cycle: the steps of a radio request that was dispatched and of whoever holds
  `ChildLock`; strong fairness for who waits for it, as a wait lock is handed to its
  waiters in turn. Radio requests, resets, stops and power changes need
  never happen.

## 4. What the checks found

Each of these is a finding in `PROJECT.json`, with the lines and the run that shows it.

1. `JustQueuedIsRetrieved`: with packet 1 listed and a request just queued, the pump takes the
   request for packet 2. That is the case C3 that the assertion at `io.c:1436` excludes, and packet
   2 overtakes packet 1. The thread that queued the request then fails the assertion at
   `io.c:1473` and returns a failing status for a request it no longer owns.
2. `OneReader` under `RacingCompletion`: a routine on another processor reports
   COMPLETE before it has used the bytes (`io.c:1036`, `io.c:1306`). With
   `RacingD0Exit` alone the property fails as well, over a longer way: readiness is
   checked (`io.c:1250`), D0Exit completes, the send is held by the stopped target,
   D0Entry starts the pump again and the held read goes out beside the new one.
   The two races do different damage. The first one touches the buffer and the context only: `pump_smp`
   and theorem `OneNextReadOnAnyProcessor` show that the request is never reused while it is out, that
   nobody reads twice, and that the flag stays true. The second one breaks all of
   these; what is left then is `StoppedUnflagged`, a pump that has stopped has cleared its flag (theorem
   `StoppedPumpSaysSo`; `pump_smp` checks it as a part of `PumpFlagTruthful`).
3. `ChildHasRadio`: `IsRadioEnabled` is not guarded; a radio off that stores FALSE
   late leaves a child exposed that radio off will not remove (`Fdo.c:2663`).
4. `EveryStageCanPass`: D0Entry sends the serial IOCTLs (`Fdo.c:1820`) to the target that D0Exit
   has stopped (`Fdo.c:1920`) and starts it only afterwards (`Fdo.c:1842`), so that they time out:
   a device that has left D0 does not come back. Radio off is enough to get there, as the
   parent then idles out.
5. `OperationalNeedsEverything` (a passing run): the contract documents say that `Operational` must
   not be reached while any placeholder contract is active
   (`docs/architecture/firmware-vendor-init-contract.md:92`), and `IfxBtPlatformValidateConfig` refuses
   a platform contract unless it is a placeholder in three of its fields (`IfxBtPlatform.c:245`, 260
   and 360). Every board that becomes Operational contradicts the sentence. `Complete` of `Lifecycle`
   and `GatedByContracts` are about the other contracts, and say so.

Known limits, which properties of the passing runs state as their exceptions:

* A failing `WdfRequestSend` that meets a running cancel callback gives the one reference
  on the lower request back twice (`Fdo.c:2211`, `io.c:214`), and a failure between creating the
  lower request and storing it leaves it behind (`Fdo.c:2143`): the exceptions of
  `UndeliveredWriteReleased`. Theorem `RefsBalancedUnlessSendFails` says that nothing else
  unbalances the count.
* A cancellation between mark and send completes the upper request, and the lower one is
  sent over its buffer (`Fdo.c:2200`): the exception of `SentLateOnlyBehindCancel`.
* An ACL header at the end of a read that announces more than the maximum makes the next
  read longer than `ReadBuffer` (`io.c:1171`). When that read completes inside `WdfRequestSend`, the
  loop of `ReadH4Packet` posts the same length again, and may do so in any segment state and any
  number of times (`io.c:1245-1335`): the two exceptions of `ReadFitsBuffer`.
* In the same way the loop posts a length that was right for the packet before, although the
  packet under assembly misses less; and D0Entry asks for a first read in the middle of a packet
  that a power cycle tore. Such a read waits for bytes of a packet that may never come, until the
  interval timeout ends it: the exceptions of `LongReadsNotChosen`.
* The epilogue of `FdoIoQuDeviceControl` completes a request whose completion by
  `ReadRequestComplete` failed (`io.c:1491`, `Fdo.c:2698`): the second completion `ReadsAccountedFor` allows.
* Packets that find a request overtake those that are listed: through the gap of finding 1, in D0, and
  where a power cycle has left both (hazard at `io.c:1462`). `ListInArrivalOrder` is about the list alone.
* A reset that fails while a start runs leaves `DeviceInitialized` TRUE of a parent whose failure
  reason is the reset's (`Fdo.c:1820`); no statement of the code says which of the two is to win.
* D0Entry does not reset the segment state (`Fdo.c:1854`), so a packet that a power cycle cuts is
  joined to the next one: what `torn` marks in `H4Reassembly`.
* A device that was stopped and is started again does not restart its pump: it comes to
  D0Entry initialized, and SelfManagedIoInit has run (hazard at `Fdo.c:1580`).

Because of finding 4, D0Entry never gets as far as the pump in the tree as it is.
`ReadPump`, `ReadQueue`, `H4Reassembly` and `DataPath` model what the code after it does (D0Entry from
`WdfIoTargetStart` on), as it would run with the order repaired; in `Lifecycle` the target that is
stopped is part of the state, and the stages behind the UART are reached by the first
start only.

Of the orders that finding 2 needs, two passing runs exclude some: `data_path` sets `RacingCompletion` and
`RacingD0Exit` to FALSE, `pump_smp` the latter. The other passing runs exclude nothing.

## 5. Proofs

`tlapm` checks every theorem to the last leaf, for every value of the constants.
The assumptions are the named ASSUMEs of the modules and, where a theorem has
one, the hypothesis in its statement. `TypeOK` of every module with state is proved, of `DataPath` by
instance.

**Write path** (`WriteRequestProofs`). `CompletedExactlyOnce` is not inductive: a step
of the routine preserves it only because of where the callback stands. The
invariant `IInv` is `TypeOK` and, for every write, six parts:

* `BeforeMark`: only the dispatch thread knows the request, nothing is shared;
* `AroundSend`: what holds around `WdfRequestSend` and on the way back;
* `PathTracksThreads`: the bits of `RequestCompletePath` and the cancelable state as
  a function of the program counters;
* `Ownership`: who may still complete the request, in each combination of callback
  and routine;
* `Holdings`: which objects and references are left then;
* `Results`: where the status comes from.

A step of a write leaves the parts of the others alone (`StepFrame`), so each
action is proved for its own write. `ExactlyOnce`, `ObjectsAlive`,
`NoDoubleDelete`, `DeliveredReleased`, `UndeliveredReleased` and `FaithfulResult` follow from `IInv`,
`LateSendsAreCancelled` from it and the one action that sends;
`RefsBalancedUnlessSendFails` adds that without failing sends the references balance;
`Refinement` shows by `StepRefines` that every step is a step of `WritePromise` or
leaves it unchanged (its safety part, `SafeSpec`).

**Read requests** (`ReadQueueProofs`). `ArrivalOrder` rests on `Ordered`: packets in the
list increase, none has a greater number than have arrived, and hands that
were taken from the list are older than its head. `NothingStrandedInD0` is an
action property: it counts the threads between the two critical sections and
shows that in D0 a step that lists or queues leaves either no surplus or such a
thread.

`NoReadForgotten` and `NoPacketForgotten` are sums over a sequence and over sets of threads. `ReadsInv` is
`ReadsAccountedFor` made inductive: it fixes the sum of claims and completions for every place
a dispatch thread can be in (`Accounted`), which the property leaves open where the thread's own
epilogue is still to come. A step changes one term of the sum by one: `ClaimsAdd` splits it
into queue, dispatch threads and pump, `TakenOut` and the lemmas on `Occurrences` say what taking an element
out of a sequence or adding one does to the count, and `OneChanged` what moving one thread does to a set
of threads. `PlacesInv` does the same for packets: `PlacedOnce` counts the places of a packet, and it
needs `ReadsInv`, as a request that receives a packet must not have received one before. Both rest on
`NoPacket` being neither a packet nor a request, as it stands for an empty hand of either kind.

**Reassembly** (`H4ReassemblyProofs`). `IInv` is `TypeOK`, `Assembly` and `ReadLengths`. `Assembly` says in
each segment state what `Packet`, its length and the bytes still to read have to do with each
other (`AtType`, `AtHeader`, `AtPayload`); `ReadLengths` says of a read that is out where its length
comes from: chosen for the packet under assembly, started by D0Entry, or posted again. `PacketHasRoom`
and `LongReadsArePostedAgain` follow. `BufferHoldsRead` needs `LongLengths` in addition: the length
that the loop would post again is longer than the buffer only behind the header that announced it, or
once a packet has been dropped. For `WhatCompletesWasSent` it is not enough to relate the machine to
itself: `OnWire` relates it to the bytes. Between packets, the bytes consumed end where a packet
of the wire begins as long as nothing was dropped; inside one, `Packet` is the run of the wire behind
its type. `H4Assumption` says what a stream is: the starts of the packets of a controller that keeps
to the format follow each other; it says nothing of the bytes. `MaxAclAssumption` keeps the maximum
of the payload in 16 bits.

**Read pump** (`ReadPumpProofs`). What is proved is layered by the races that are excluded.

* With both races, and without a hypothesis: `TypeCorrect` and `StoppedPumpSaysSo`. The invariant `GoesOn`
  says, for each value of `RequestState`, who still goes on while the flag is set.
* With completions on any processor (`NoLateExit`: D0Exit does not come between a check and its send):
  `OneNextReadOnAnyProcessor`, `FlagIsTruthful`, `RestartAloneFindsSent`. `SInv` says: the next read is
  the UART's or one thread's, and a sender that has not looked at `RequestState` shares it with
  nobody but a routine that has not either (`Turn`); `RequestState` tells each of the other
  (`Handshake`); the callbacks that start the pump find it at rest (`Power`); the flag follows the
  read (`Flag`).
* Without races (`NoRaces`): `OneReaderWithoutRaces` needs `Apart` in addition, that a routine has the
  pump to itself but for a sender that waits for it.

**Data path** (`DataPathProofs`). The composition is shown to implement both its parts:
`ImplementsReadQueue` (a step of the whole is a step of the stream or leaves it alone; the removal
of the stream needs the pump to be idle, which `ReadResourcesFree` does not ask for and an
invariant on the pump supplies) and `ImplementsReadPump`. What is proved of the parts then
holds of the whole, by instance: `OneReaderInThePath`, `OrderInThePath`, `ReadsInThePath` and
`PacketsInThePath`.
`ResourcesOutliveThePump` combines the two: when the device is gone, no thread is in the
pump and no read is out. The instance of the pump has its races set to FALSE, so that `NoRaces` is not a
hypothesis here but a restriction of the model.

**Life cycle** (`LifecycleProofs`). `IInv` is `TypeOK` with: the lock covers the time from the
look at the list to the new child (`Locked`); a stage that was passed, and any
request that runs, vouches for its contracts (`Passed`), those of `Complete`, which the platform
contract is not among; a start that has not failed has no reason (`Caused`); requests and resets come
once the device has been up (`Requested`), so that a first start that fails has no reason but its own. `StageStep` and `ThreadStep` state once what a step
of the PnP thread and of any thread has to respect; each action is then an
instance. `InitializedHasTarget` and `OnlyResetsRaceCreation` rest on a second invariant, `RInv`: in which
stages the target is started (`OnTarget`), and that a thread between its check and the new
child has seen a parent that only a reset can take from it, as it keeps the PnP thread from D0Exit
(`SawReady`).

**Controller initialization** (`ControllerInitProofs`). The invariant says of each stage which
contracts have passed it (`Passed`), which IOCTLs are sent by then (`Settings`), and of a start that
failed that its reason is that of the first row of `Obstacles` that blocks (`Reported`). `OperationalIsComplete`
reads off what has passed by `Operational`: the other contracts without a placeholder, and the platform
contract with all of its own. `NothingStartsYet` has the hypothesis that no
port has added to one of the two enumerations (`PortFileTypes` or `PortSequences` is empty); in this
tree both are. `ImplementsLifecycle` shows by `DeviceStep` that every step of a start is a step of
`Lifecycle` under the mapping of `ControllerRefinement`, or leaves it unchanged: a step within a stage
of `Lifecycle` (platform, UART contract, the serial IOCTLs) is a stutter, the last one is its passing,
and a failing one its failure, for a reason that `Lifecycle` gives this stage. `RefInv` adds to the
invariant that a start that has failed has a reason, and one that has not has none (`Caused`): the latch
at the end of a failed start looks at the reason, and the mapped `cause` is the root's.
The mapping has no radio requests and no reset:
these are `Lifecycle`'s own.

**Child requests** (`ChildRequestsProofs`). The invariant counts: completions per request follow its
owner, idle references follow the child, handlers and writes exist in D0 or on the way out of
it. `ChildKeepsParentUp` is the action property that follows from the count.

Every invariant and every action property that a passing run checks is a theorem, and so is each of
the refinements. Only model-checked is liveness (`KeepsPromise` beyond its safety part,
`PacketMeetsReader`, `KeepsReading`, `EveryPacketCompletes`, `RadioRequestsComplete`, `StartEnds`, `StackStarts`,
`ParentGetsDown`, `D0ExitReturns`), which is out of the prover's reach, as is the absence of deadlock.
The violations are statements about one instance and need no proof.

## 6. Not modelled

* The idle settings that nobody asks for (`IdleCapActiveOnly`, `IdleCapCanWake`), arm and disarm for
  wake from S0 (they return a fixed status), the constants that version and capability
  requests return.
* `OperationalBaud` is validated and never applied; the code leaves the switch to a port
  (`device.c:727-731`), and so does the model.
* Code under `DYNAMIC_ENUM`, `REPORT_HARDWARE_ERROR` and `REQUIRE_REINITIALIZE`,
  which no build file defines, and the branch on `HardwareErrorDetected`, which
  nothing sets.
* A failure inside `ReadResourcesAllocate` leaves list heads that were never
  initialized, and `ReadResourcesFree` walks them; the model has the failure but not the memory.
  Heap accounting of packet entries.
* The order of the completions of two packets on two threads, which the code does not fix.
* Tracing, build files, INF.

## 7. Plan

All components with behaviour of their own are there. What is left, in the order in which it is
worth doing:

1. `H4Reassembly` inside `DataPath` in place of `batch`, with an abstract specification of the stream:
   the packets BthPort receives are those on the wire, in order up to the overtaking of finding 1
   and the one that a power cycle prepares (`StrandedOnlyOutsideD0`).
2. A run of the life cycle in which a reset has failed and the device is stopped and started
   again, once the code says what is to become of the child and of the pump (hazards at
   `Fdo.c:1431` and `Fdo.c:1580`).
