--------------------------- MODULE Worker_proofs ---------------------------
(***************************************************************************)
(* Proofs about Worker for any number of packets, frames, faults and       *)
(* fragments: no wake-up of the loop is lost, a packet the SDK accepted    *)
(* always has something on its way that moves it on, nothing is sent       *)
(* before the link is known, and the worker exits with nothing left open.  *)
(* The worker implements AhoiL2a and SchcAl, whose theorems it inherits.   *)
(***************************************************************************)
EXTENDS Worker, TLAPS

\* The theorems about the adaptation layer and the L2.
AlP == INSTANCE SchcAl_proofs WITH MaxDown <- MaxFrames
L2P == INSTANCE AhoiL2a_proofs WITH Kinds <- Frames

LEMMA InitInv == Init => IInv
  BY DEF Init, IInv, Al!Init, L2!Init, RecordsLookedAt, EventsRequested,
         ResultIsOnItsWay, AlOpen, ConnectedByMgt, Al!OngoingMatchesSdk

\* The invariant speaks only of what these variables hold.
LEMMA Unrelated ==
  ASSUME IInv,
         UNCHANGED <<tunFd, alEvent, handed, netOwes, l2Fd, l2Event, request,
                     connected, txDone, inbox, pc, sdkTx, armed, expired>>
  PROVE  IInv'
  BY DEF IInv, RecordsLookedAt, EventsRequested, ResultIsOnItsWay, AlOpen,
         ConnectedByMgt, Al!OngoingMatchesSdk

\* The steps before and after the loop.
LEMMA StartNext ==
  IInv /\ ( \/ \E outcome \in {"ok", "noModem", "noSlot"} : MgtInitialize(outcome)
            \/ NetInitialize
            \/ \E ok \in BOOLEAN : AlInit(ok)
            \/ Terminate) => IInv'
  <1> USE DEF IInv, RecordsLookedAt, EventsRequested, ResultIsOnItsWay, AlOpen,
              ConnectedByMgt, Al!OngoingMatchesSdk
  <1>1. ASSUME IInv, NEW outcome \in {"ok", "noModem", "noSlot"},
               MgtInitialize(outcome)
        PROVE  IInv'
    BY <1>1 DEF MgtInitialize, L2!Initialise, alVars, sdkVars
  <1>2. ASSUME IInv, NEW ok \in BOOLEAN, AlInit(ok) PROVE IInv'
    BY <1>2 DEF AlInit, Al!Initialise, l2Vars, sdkVars
  <1>3. ASSUME IInv, Terminate PROVE IInv'
    BY <1>3 DEF Terminate, Al!Terminate, L2!Deinit, sdkVars
  <1>4. ASSUME IInv, NetInitialize PROVE IInv'
    BY <1>4 DEF NetInitialize, alVars, l2Vars, sdkVars
  <1>5. QED
    BY <1>1, <1>2, <1>3, <1>4

\* The steps of the loop that move only pc, and the request.
LEMMA LoopNext ==
  IInv /\ ( \/ LoopEnds \/ LoopRequest \/ LoopNoRequest \/ NoTimer \/ MgtDone
            \/ AlIdle \/ PollTimeout) => IInv'
  <1> SUFFICES ASSUME IInv,
                      LoopEnds \/ LoopRequest \/ LoopNoRequest \/ NoTimer \/ MgtDone
                        \/ AlIdle \/ PollTimeout
               PROVE  IInv'
    OBVIOUS
  <1> USE DEF IInv, RecordsLookedAt, EventsRequested, ResultIsOnItsWay, AlOpen,
              ConnectedByMgt, Al!OngoingMatchesSdk, alVars, l2Vars, sdkVars
  <1>1. CASE LoopEnds
    BY <1>1 DEF LoopEnds
  <1>2. CASE LoopRequest
    BY <1>2 DEF LoopRequest, L2!RequestTaken
  <1>3. CASE LoopNoRequest
    BY <1>3 DEF LoopNoRequest
  <1>4. CASE NoTimer
    BY <1>4 DEF NoTimer
  <1>5. CASE MgtDone
    BY <1>5 DEF MgtDone
  <1>6. CASE AlIdle
    BY <1>6 DEF AlIdle
  <1>7. CASE PollTimeout
    BY <1>7 DEF PollTimeout
  <1>8. QED
    BY <1>1, <1>2, <1>3, <1>4, <1>5, <1>6, <1>7

\* The steps of mgt_process().
LEMMA MgtNext ==
  IInv /\ ( \/ NextFragment \/ L2aProcess \/ DelayNext \/ ReportSent \/ ReportFailed
            \/ DeliverUp \/ DeliverNothing) => IInv'
  <1> SUFFICES ASSUME IInv,
                      NextFragment \/ L2aProcess \/ DelayNext \/ ReportSent
                        \/ ReportFailed \/ DeliverUp \/ DeliverNothing
               PROVE  IInv'
    OBVIOUS
  <1> USE DEF IInv, RecordsLookedAt, EventsRequested, ResultIsOnItsWay, AlOpen,
              ConnectedByMgt, Al!OngoingMatchesSdk
  <1>1. CASE NextFragment
    <2>1. CASE L2!SendData /\ sdkTx' = "onAir"
      BY <1>1, <2>1 DEF NextFragment, L2!SendData, alVars
    <2>2. CASE L2!SendFails /\ sdkTx' = "failed"
      BY <1>1, <2>2 DEF NextFragment, L2!SendFails, alVars
    <2>3. QED
      BY <1>1, <2>1, <2>2 DEF NextFragment
  <1>2. CASE L2aProcess
    BY <1>2 DEF L2aProcess, L2!Process, alVars, sdkVars
  <1>3. CASE DelayNext
    BY <1>3 DEF DelayNext, L2!ResultTaken, alVars
  <1>4. CASE ReportSent
    BY <1>4 DEF ReportSent, L2!ResultTaken, Al!TransmissionResult
  <1>5. CASE ReportFailed
    BY <1>5 DEF ReportFailed, Al!TransmissionResult, l2Vars
  <1>6. CASE DeliverUp
    BY <1>6 DEF DeliverUp, L2!FrameTaken, Al!DataReceived, sdkVars
  <1>7. CASE DeliverNothing
    BY <1>7 DEF DeliverNothing, L2!FrameTaken, alVars, sdkVars
  <1>8. QED
    BY <1>1, <1>2, <1>3, <1>4, <1>5, <1>6, <1>7

\* The steps of the adaptation layer.
LEMMA AlNext == IInv /\ (AlKeeps \/ AlSends \/ AlRefused) => IInv'
  <1> SUFFICES ASSUME IInv, AlKeeps \/ AlSends \/ AlRefused PROVE IInv'
    OBVIOUS
  <1> USE DEF IInv, RecordsLookedAt, EventsRequested, ResultIsOnItsWay, AlOpen,
              ConnectedByMgt, Al!OngoingMatchesSdk
  <1>1. CASE AlKeeps
    <2>1. /\ alEvent' = alEvent \/ alEvent' = alEvent \ {"ipPacket"}
          /\ UNCHANGED <<tunFd, handed, netOwes>>
      BY <1>1 DEF AlKeeps, Al!ProcessNothing, Al!ProcessBusy, Al!ProcessReadError,
                  Al!ProcessDrop, Al!Takes, Al!alVars
    <2>2. QED
      BY <1>1, <2>1 DEF AlKeeps, l2Vars, sdkVars
  <1>2. CASE AlSends
    <2>1. /\ tunFd = "open" /\ ~netOwes /\ connected
      BY <1>2 DEF AlSends, Al!ProcessSend, Al!Takes
    <2>2. QED
      BY <1>2, <2>1 DEF AlSends, Al!ProcessSend, Al!EventAfterSend, L2!SendData
  <1>3. CASE AlRefused
    <2>1. /\ tunFd = "open" /\ ~netOwes /\ connected
      BY <1>3 DEF AlRefused, Al!ProcessSend, Al!Takes
    <2>2. /\ alEvent' = alEvent \ {"ipPacket"} /\ netOwes' = FALSE
          /\ "ongoing" \notin alEvent /\ tunFd' = tunFd
      BY <1>3 DEF AlRefused, Al!ProcessSend, Al!EventAfterSend, Al!Takes
    <2>3. /\ UNCHANGED <<l2Fd, l2Event, request, connected, txDone, inbox>>
          /\ UNCHANGED <<sdkTx, armed, expired>> /\ pc = "al" /\ pc' = "sleep"
      BY <1>3 DEF AlRefused, L2!SendFails, l2Vars, sdkVars
    <2>4. QED
      BY <2>1, <2>2, <2>3
  <1>4. QED
    BY <1>1, <1>2, <1>3

\* poll() reports descriptors, or a signal or a device does something.
LEMMA OutsideNext ==
  IInv /\ (PollReadable \/ TimerExpires \/ SigInt \/ TunArrives \/ LinkArrives) => IInv'
  <1> SUFFICES ASSUME IInv,
                      PollReadable \/ TimerExpires \/ SigInt \/ TunArrives \/ LinkArrives
               PROVE  IInv'
    OBVIOUS
  <1> USE DEF IInv, RecordsLookedAt, EventsRequested, ResultIsOnItsWay, AlOpen,
              ConnectedByMgt, Al!OngoingMatchesSdk
  <1>1. CASE PollReadable
    <2>1. \/ /\ l2Event' = l2Event \cup {"downlink"} /\ request' = TRUE
             /\ UNCHANGED <<l2Fd, connected, txDone, inbox>>
          \/ UNCHANGED <<l2Fd, l2Event, request, connected, txDone, inbox>>
      BY <1>1 DEF PollReadable, L2!DownlinkAvailable, l2Vars
    <2>2. /\ alEvent' = alEvent \/ (tunFd = "open" /\ alEvent' = alEvent \cup {"ipPacket"})
          /\ UNCHANGED <<tunFd, handed, netOwes>>
      BY <1>1 DEF PollReadable, Al!Readable, Al!TunReceived, alVars
    <2>3. /\ pc = "sleep" /\ pc' = "loop" /\ UNCHANGED <<sdkTx, armed, expired>>
      BY <1>1 DEF PollReadable, sdkVars
    <2>4. connected
      BY <2>3
    <2>5. (RecordsLookedAt /\ EventsRequested /\ ResultIsOnItsWay)'
      BY <2>1, <2>2, <2>3
    <2>6. (AlOpen /\ ConnectedByMgt)'
      BY <2>1, <2>2, <2>3, <2>4
    <2>7. QED
      BY <2>5, <2>6
  <1>2. CASE TimerExpires
    BY <1>2 DEF TimerExpires, L2!Requested, AfterSignal, Running, alVars
  <1>3. CASE SigInt
    BY <1>3 DEF SigInt, AfterSignal, Running, alVars, l2Vars, sdkVars
  <1>4. CASE TunArrives
    BY <1>4, Unrelated DEF TunArrives, Al!PacketArrives, l2Vars, sdkVars
  <1>5. CASE LinkArrives
    BY <1>5, Unrelated DEF LinkArrives, L2!FrameArrives, alVars, sdkVars
  <1>6. QED
    BY <1>1, <1>2, <1>3, <1>4, <1>5

\* The inductive invariant of the worker: records are looked at, events are
\* requested, and the SDK, the layer and the link agree on the packet under way.
THEOREM WorkerInvariance == Spec => []IInv
  <1>1. IInv /\ [Next]_vars => IInv'
    <2> SUFFICES ASSUME IInv, [Next]_vars PROVE IInv'
      OBVIOUS
    <2>1. CASE UNCHANGED vars
      BY <2>1, Unrelated DEF vars, alVars, l2Vars, sdkVars
    <2>2. CASE Exited
      BY <2>2, Unrelated DEF Exited, vars, alVars, l2Vars, sdkVars
    <2>3. QED
      BY <2>1, <2>2, StartNext, LoopNext, MgtNext, AlNext, OutsideNext DEF Next, Main
  <1>2. QED
    BY InitInv, <1>1, PTL DEF Spec

\* No wake-up of mgt_process() is lost, wherever signals and callbacks fall.
THEOREM NoLostWakeup == Spec => []WorkIsRequested
  <1>1. IInv => WorkIsRequested
    BY DEF IInv, RecordsLookedAt, EventsRequested, WorkIsRequested
  <1>2. QED
    BY WorkerInvariance, <1>1, PTL

\* A packet the SDK accepted is never forgotten between the link, the timer and
\* the report of its result.
THEOREM NeverStranded == Spec => []ResultIsOnItsWay
  BY WorkerInvariance, PTL DEF IInv

\* Nothing is handed to the SDK before it knows of the link.
THEOREM SendsWhenConnected == Spec => []ConnectedFirst
  <1>1. IInv => ConnectedFirst
    BY DEF IInv, ConnectedByMgt, ConnectedFirst
  <1>2. QED
    BY WorkerInvariance, <1>1, PTL

\* However main() ends, the device and the modem are closed.
THEOREM ClosesAll == Spec => []NothingLeftOpen
  <1>1. Init => NothingLeftOpen
    BY DEF Init, NothingLeftOpen
  <1>2. NothingLeftOpen /\ [Next]_vars => NothingLeftOpen'
    <2> SUFFICES ASSUME NothingLeftOpen, [Next]_vars, pc' = "exit"
                 PROVE  tunFd' # "open" /\ l2Fd' # "open"
      BY DEF NothingLeftOpen
    <2>1. CASE pc = "exit"
      <3>1. UNCHANGED <<tunFd, l2Fd>>
        BY <2>1 DEF Next, Main, MgtInitialize, NetInitialize, AlInit, LoopEnds,
             LoopRequest, LoopNoRequest, NextFragment, NoTimer, L2aProcess, DelayNext,
             ReportSent, ReportFailed, DeliverUp, DeliverNothing, MgtDone, AlIdle,
             AlKeeps, AlSends, AlRefused, PollReadable, PollTimeout, Terminate,
             TimerExpires, SigInt, TunArrives, LinkArrives, Running, Exited, vars,
             alVars, l2Vars
      <3>2. QED
        BY <2>1, <3>1 DEF NothingLeftOpen
    <2>2. CASE pc # "exit"
      <3>1. Terminate
        BY <2>2 DEF Next, Main, MgtInitialize, NetInitialize, AlInit, LoopEnds,
             LoopRequest, LoopNoRequest, NextFragment, NoTimer, L2aProcess, DelayNext,
             ReportSent, ReportFailed, DeliverUp, DeliverNothing, MgtDone, AlIdle,
             AlKeeps, AlSends, AlRefused, PollReadable, PollTimeout, TimerExpires,
             SigInt, TunArrives, LinkArrives, Running, AfterSignal, Exited, vars
      <3>2. QED
        BY <3>1 DEF Terminate, Al!Terminate, L2!Deinit
    <2>3. QED
      BY <2>1, <2>2
  <1>3. QED
    BY <1>1, <1>2, PTL DEF Spec

-----------------------------------------------------------------------------
\* The worker calls its two layers only as their own modules allow.

LEMMA StepsOfLayers == [Next]_vars => [L2!Next]_l2Vars /\ [Al!Next]_alVars
  <1> SUFFICES ASSUME [Next]_vars PROVE [L2!Next]_l2Vars /\ [Al!Next]_alVars
    OBVIOUS
  <1>1. ASSUME NEW outcome \in {"ok", "noModem", "noSlot"}, MgtInitialize(outcome)
        PROVE  L2!Next /\ UNCHANGED alVars
    BY <1>1 DEF MgtInitialize, L2!Next
  <1>2. ASSUME NEW ok \in BOOLEAN, AlInit(ok) PROVE Al!Next /\ UNCHANGED l2Vars
    BY <1>2 DEF AlInit, Al!Next
  <1>3. CASE \/ NetInitialize \/ LoopEnds \/ LoopNoRequest \/ NoTimer \/ MgtDone \/ AlIdle
             \/ PollTimeout \/ SigInt \/ Exited \/ UNCHANGED vars
    <2>1. UNCHANGED <<alVars, l2Vars>>
      BY <1>3 DEF NetInitialize, LoopEnds, LoopNoRequest, NoTimer, MgtDone, AlIdle,
                  PollTimeout, SigInt, Exited, vars
    <2> QED
      BY <2>1
  <1>4. CASE LoopRequest \/ NextFragment \/ L2aProcess \/ DelayNext \/ DeliverNothing
             \/ TimerExpires
    <2>1. L2!Next /\ UNCHANGED alVars
      BY <1>4 DEF LoopRequest, NextFragment, L2aProcess, DelayNext, DeliverNothing,
                  TimerExpires, L2!Next
    <2> QED
      BY <2>1
  <1>5. CASE ReportSent \/ AlSends \/ Terminate
    <2>1. L2!Next /\ Al!Next
      BY <1>5 DEF ReportSent, AlSends, Terminate, L2!Next, Al!Next, Al!Process
    <2> QED
      BY <2>1
  <1>6. CASE ReportFailed \/ AlKeeps
    <2>1. Al!Next /\ UNCHANGED l2Vars
      BY <1>6 DEF ReportFailed, AlKeeps, Al!Next, Al!Process
    <2> QED
      BY <2>1
  <1>7. CASE DeliverUp
    <2>1. L2!Next
      BY <1>7 DEF DeliverUp, L2!Next
    <2>2. Al!Next
      BY <1>7 DEF DeliverUp, Al!Next
    <2> QED
      BY <2>1, <2>2
  <1>8. CASE AlRefused
    <2>1. Al!Next
      BY <1>8 DEF AlRefused, Al!Next, Al!Process
    <2>2. L2!Next \/ UNCHANGED l2Vars
      BY <1>8 DEF AlRefused, L2!Next
    <2> QED
      BY <2>1, <2>2
  <1>9. CASE PollReadable
    <2>1. L2!Next \/ UNCHANGED l2Vars
      BY <1>9 DEF PollReadable, L2!Next
    <2>2. Al!Next \/ UNCHANGED alVars
      BY <1>9 DEF PollReadable, Al!Next
    <2> QED
      BY <2>1, <2>2
  <1>10. CASE TunArrives
    <2>1. Al!Next /\ UNCHANGED l2Vars
      BY <1>10 DEF TunArrives, Al!Next
    <2> QED
      BY <2>1
  <1>11. CASE LinkArrives
    <2>1. L2!Next /\ UNCHANGED alVars
      BY <1>11 DEF LinkArrives, L2!Next
    <2> QED
      BY <2>1
  <1> QED
    BY <1>1, <1>2, <1>3, <1>4, <1>5, <1>6, <1>7, <1>8, <1>9, <1>10, <1>11
    DEF Next, Main

(***************************************************************************)
(* The loop, the SDK and the signals use the L2 as AhoiL2a allows, so what *)
(* AhoiL2a promises for any caller holds in the worker.                    *)
(***************************************************************************)
THEOREM UsesL2 == Spec => L2!Spec
  <1>1. Init => L2!Init
    BY DEF Init
  <1>2. [Next]_vars => [L2!Next]_(L2!l2Vars)
    BY StepsOfLayers DEF L2!l2Vars, l2Vars
  <1>3. QED
    BY <1>1, <1>2, PTL DEF Spec, L2!Spec

(***************************************************************************)
(* The same for the adaptation layer: what SchcAl proves for any caller    *)
(* holds in the worker, that no packet is lost or repeated among it.       *)
(***************************************************************************)
THEOREM UsesAl == Spec => Al!Spec
  <1>1. Init => Al!Init
    BY DEF Init
  <1>2. [Next]_vars => [Al!Next]_(Al!alVars)
    BY StepsOfLayers DEF Al!alVars, alVars
  <1>3. QED
    BY <1>1, <1>2, PTL DEF Spec, Al!Spec

LEMMA SameLayer == Al!Spec => AlP!Spec
  <1>1. Al!Init => AlP!Init
    BY DEF Al!Init, AlP!Init
  <1>2. [Al!Next]_(Al!alVars) => [AlP!Next]_(AlP!alVars)
    BY DEF Al!alVars, AlP!alVars, Al!Next, AlP!Next,
           Al!Initialise, AlP!Initialise, Al!PacketArrives, AlP!PacketArrives,
           Al!TunReceived, AlP!TunReceived, Al!Readable, AlP!Readable,
           Al!Process, AlP!Process, Al!ProcessNothing, AlP!ProcessNothing,
           Al!ProcessBusy, AlP!ProcessBusy, Al!ProcessReadError, AlP!ProcessReadError,
           Al!ProcessDrop, AlP!ProcessDrop, Al!ProcessSend, AlP!ProcessSend,
           Al!Takes, AlP!Takes, Al!DownForms, AlP!DownForms,
           Al!EventAfterSend, AlP!EventAfterSend,
           Al!TransmissionResult, AlP!TransmissionResult,
           Al!DataReceived, AlP!DataReceived, Al!UpForms, AlP!UpForms,
           Al!Terminate, AlP!Terminate
  <1>3. QED
    BY <1>1, <1>2, PTL DEF Al!Spec, AlP!Spec

(***************************************************************************)
(* In the worker, whatever the loop, the signals and the link do, every    *)
(* packet the IP stack routed to the device is in it, was discarded by the *)
(* filter or was given to the SDK, once and in order; and with             *)
(* OSCORE_DROP_ON_ERROR no request or response passes the proxy in the     *)
(* clear, and nothing unverified does.                                     *)
(***************************************************************************)
THEOREM WorkerLosesNothing == Spec => [](Al!NothingLost /\ Al!ProxyFailsClosed)
  <1>1. AlP!Spec => []AlP!NothingLost
    BY AlP!AccountKept, WorkerAssumption
  <1>2. AlP!Spec => []AlP!ProxyFailsClosed
    BY AlP!FailsClosed, WorkerAssumption
  <1>3. AlP!NothingLost => Al!NothingLost
    BY DEF Al!NothingLost, AlP!NothingLost, Al!Taken, AlP!Taken
  <1>4. AlP!ProxyFailsClosed => Al!ProxyFailsClosed
    BY DEF Al!ProxyFailsClosed, AlP!ProxyFailsClosed
  <1>5. QED
    BY <1>1, <1>2, <1>3, <1>4, UsesAl, SameLayer, PTL

LEMMA SameL2 == L2!Spec => L2P!Spec
  <1>1. L2!Init => L2P!Init
    BY DEF L2!Init, L2P!Init
  <1>2. [L2!Next]_(L2!l2Vars) => [L2P!Next]_(L2P!l2Vars)
    BY DEF L2!l2Vars, L2P!l2Vars, L2!Next, L2P!Next,
           L2!Initialise, L2P!Initialise, L2!FrameArrives, L2P!FrameArrives,
           L2!DownlinkAvailable, L2P!DownlinkAvailable, L2!Readable, L2P!Readable,
           L2!SendData, L2P!SendData, L2!SendFails, L2P!SendFails,
           L2!Process, L2P!Process, L2!ReadDownlink, L2P!ReadDownlink,
           L2!ResultTaken, L2P!ResultTaken, L2!FrameTaken, L2P!FrameTaken,
           L2!Requested, L2P!Requested, L2!RequestTaken, L2P!RequestTaken,
           L2!Deinit, L2P!Deinit
  <1>3. QED
    BY <1>1, <1>2, PTL DEF L2!Spec, L2P!Spec

(***************************************************************************)
(* What AhoiL2a promises any caller holds in the worker: the result of     *)
(* every fragment reaches the SDK once, and clearing all the events of     *)
(* l2a_process in one store loses none of them.                            *)
(***************************************************************************)
THEOREM WorkerHearsOfTheLink ==
  Spec => []L2!ResultKnownOnce /\ L2!EventsActedOn
  <1>0. "none" \notin Frames
    BY WorkerAssumption DEF Frames
  <1>1. L2P!Spec => []L2P!ResultKnownOnce
    BY L2P!ResultKept, WorkerAssumption, <1>0
  <1>2. L2P!Spec => L2P!EventsActedOn
    BY L2P!ToldOfEvents, WorkerAssumption, <1>0
  <1>3. L2P!ResultKnownOnce => L2!ResultKnownOnce
    BY DEF L2!ResultKnownOnce, L2P!ResultKnownOnce
  <1>4. [/\ "connectivity" \in l2Event \ l2Event' => connected'
         /\ "txResult" \in l2Event \ l2Event' => txDone'
         /\ "downlink" \in l2Event \ l2Event' => inbox' # "none"]_(L2P!l2Vars)
        => [/\ "connectivity" \in l2Event \ l2Event' => connected'
            /\ "txResult" \in l2Event \ l2Event' => txDone'
            /\ "downlink" \in l2Event \ l2Event' => inbox' # "none"]_(L2!l2Vars)
    BY DEF L2!l2Vars, L2P!l2Vars
  <1>5. L2P!EventsActedOn => L2!EventsActedOn
    BY <1>4, PTL DEF L2!EventsActedOn, L2P!EventsActedOn
  <1>6. QED
    BY <1>1, <1>2, <1>3, <1>5, UsesL2, SameL2, PTL
=============================================================================
