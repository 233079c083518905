------------------------------- MODULE Worker -------------------------------
(***************************************************************************)
(* The SCHC worker, applications/schc_worker_linux/src/main.c: one thread  *)
(* that runs the SDK (mgt_process) and the adaptation layer (SchcAl) over  *)
(* the ahoi L2 (AhoiL2a), and sleeps in poll() between turns.  Timers of   *)
(* the SDK and SIGINT interrupt it anywhere.                               *)
(*                                                                         *)
(* The SDK is not part of the repository.  What is modelled of it is what  *)
(* the worker relies on, read from tests/logs: net_sendto() sends the      *)
(* first fragment at once; a timer or an L2 callback only records what     *)
(* happened and asks for mgt_process(), which looks at expired timers,     *)
(* calls l2a_process() and then looks at what that recorded.               *)
(***************************************************************************)
EXTENDS Integers, Sequences

CONSTANTS
  MaxUp, MaxFaults, OscoreProxy, DropOnError, DropNonCoap, UpKinds, DownKinds,
  MaxFrames, MaxL2Faults,
  MaxFragments    \* bound: fragments of a packet

ASSUME WorkerAssumption ==
  /\ MaxFragments \in Nat \ {0}
  /\ {MaxUp, MaxFaults, MaxFrames, MaxL2Faults} \subseteq Nat
  /\ {OscoreProxy, DropOnError, DropNonCoap} \subseteq BOOLEAN
  /\ UpKinds \subseteq {"coap", "empty", "udp", "other"}
  /\ DownKinds \subseteq {"oscore", "coap", "empty", "forged", "udp", "other"}

VARIABLES
  tunFd, alEvent, alRequired, tun, arrived, dropped, handed, netOwes, received,
  up, faults,
  l2Fd, l2Event, rx, frames, l2Faults, request, connected, l2Owes, txDone, inbox,
  pc,             \* where main() is
  terminateFlag,  \* terminate_flag
  sdkTx,          \* SDK: "idle", or a packet's fragment is "onAir", the next one
                  \* is "delayed" by a timer, or the packet has "failed"
  fragments,      \* SDK: fragments left to send after the one under way
  armed,          \* SDK: the timer of the transmission delay is running
  expired         \* SDK: mgt_timer_timeout() was called, to be looked at

alVars == <<tunFd, alEvent, alRequired, tun, arrived, dropped, handed, netOwes,
            received, up, faults>>
l2Vars == <<l2Fd, l2Event, rx, frames, l2Faults, request, connected, l2Owes,
            txDone, inbox>>
sdkVars == <<sdkTx, fragments, armed, expired>>
vars == <<alVars, l2Vars, sdkVars, pc, terminateFlag>>

Frames == DownKinds \cup {"part", "large"}

Al == INSTANCE SchcAl WITH MaxDown <- MaxFrames
L2 == INSTANCE AhoiL2a WITH Kinds <- Frames

Init ==
  /\ Al!Init /\ L2!Init
  /\ pc = "start" /\ terminateFlag = FALSE
  /\ sdkTx = "idle" /\ fragments = 0 /\ armed = FALSE /\ expired = FALSE

-----------------------------------------------------------------------------
\* Before the loop.  Any failure goes to "error:", which terminates.

\* mgt_initialize, which initialises the L2.
MgtInitialize(outcome) ==
  /\ pc = "start"
  /\ L2!Initialise(outcome)
  /\ pc' = IF outcome = "ok" THEN "netInit" ELSE "terminate"
  /\ UNCHANGED <<alVars, sdkVars, terminateFlag>>

\* net_initialize, in the SDK.
NetInitialize ==
  /\ pc = "netInit"
  /\ pc' \in {"alInit", "terminate"}
  /\ UNCHANGED <<alVars, l2Vars, sdkVars, terminateFlag>>

\* schc_al_init, and sigaction() behind it.
AlInit(ok) ==
  /\ pc = "alInit"
  /\ Al!Initialise(ok)
  /\ pc' \in IF ok THEN {"loop", "terminate"} ELSE {"terminate"}
  /\ UNCHANGED <<l2Vars, sdkVars, terminateFlag>>

-----------------------------------------------------------------------------
\* The top of the loop.  A signal between two of its tests only moves its
\* effect to before or after both.

LoopEnds ==
  /\ pc = "loop" /\ terminateFlag
  /\ pc' = "terminate"
  /\ UNCHANGED <<alVars, l2Vars, sdkVars, terminateFlag>>

\* The request is cleared before mgt_process() runs, so that one made while it
\* runs is kept.
LoopRequest ==
  /\ pc = "loop" /\ ~terminateFlag
  /\ L2!RequestTaken
  /\ pc' = "timers"
  /\ UNCHANGED <<alVars, sdkVars, terminateFlag>>

LoopNoRequest ==
  /\ pc = "loop" /\ ~terminateFlag /\ ~request
  /\ pc' = "al"
  /\ UNCHANGED <<alVars, l2Vars, sdkVars, terminateFlag>>

-----------------------------------------------------------------------------
\* mgt_process(), in the SDK: timers, l2a_process(), and what that recorded.

\* The delay is over: the next fragment goes out, or the L2 refuses it.
NextFragment ==
  /\ pc = "timers" /\ expired
  /\ expired' = FALSE
  /\ \/ /\ L2!SendData
        /\ sdkTx' = "onAir" /\ fragments' = fragments - 1
     \/ /\ L2!SendFails
        /\ sdkTx' = "failed" /\ UNCHANGED fragments
  /\ pc' = "l2a"
  /\ UNCHANGED <<alVars, armed, terminateFlag>>

NoTimer ==
  /\ pc = "timers" /\ ~expired
  /\ pc' = "l2a"
  /\ UNCHANGED <<alVars, l2Vars, sdkVars, terminateFlag>>

L2aProcess ==
  /\ pc = "l2a"
  /\ L2!Process
  /\ pc' = "results"
  /\ UNCHANGED <<alVars, sdkVars, terminateFlag>>

\* A fragment was transmitted, and more are to follow after a delay
\* (l2a_get_next_tx_delay, cb_start_timer).
DelayNext ==
  /\ pc = "results" /\ fragments > 0
  /\ L2!ResultTaken
  /\ sdkTx' = "delayed" /\ armed' = TRUE
  /\ UNCHANGED <<alVars, fragments, expired, pc, terminateFlag>>

\* The last fragment was transmitted, or one failed: net_transmission_result().
ReportSent ==
  /\ pc = "results" /\ fragments = 0
  /\ L2!ResultTaken
  /\ Al!TransmissionResult
  /\ sdkTx' = "idle"
  /\ UNCHANGED <<fragments, armed, expired, pc, terminateFlag>>

ReportFailed ==
  /\ pc = "results" /\ sdkTx = "failed"
  /\ Al!TransmissionResult
  /\ sdkTx' = "idle" /\ fragments' = 0
  /\ UNCHANGED <<l2Vars, armed, expired, pc, terminateFlag>>

\* A frame that completes a packet: net_data_received().
DeliverUp ==
  /\ pc = "results" /\ inbox \in DownKinds
  /\ L2!FrameTaken
  /\ Al!DataReceived(inbox)
  /\ UNCHANGED <<sdkVars, pc, terminateFlag>>

DeliverNothing ==
  /\ pc = "results" /\ inbox \in {"part", "large", "error"}
  /\ L2!FrameTaken
  /\ UNCHANGED <<alVars, sdkVars, pc, terminateFlag>>

\* Mutant: main() clears the request after mgt_process() and not before.
RequestClearedLate ==
  /\ pc = "results"
  /\ ~txDone /\ inbox = "none" /\ sdkTx # "failed"
  /\ pc' = "al"
  /\ request' = FALSE
  /\ UNCHANGED <<alVars, sdkVars, terminateFlag, l2Fd, l2Event, rx, frames, l2Faults,
                 connected, l2Owes, txDone, inbox>>

MgtDone ==
  /\ pc = "results"
  /\ ~txDone /\ inbox = "none" /\ sdkTx # "failed"
  /\ pc' = "al"
  /\ UNCHANGED <<alVars, l2Vars, sdkVars, terminateFlag>>

-----------------------------------------------------------------------------
\* schc_al_is_processing_required() and schc_al_process().

AlIdle ==
  /\ pc = "al" /\ ~alRequired
  /\ pc' = "sleep"
  /\ UNCHANGED <<alVars, l2Vars, sdkVars, terminateFlag>>

\* The layer does not reach net_sendto().
AlKeeps ==
  /\ pc = "al"
  /\ Al!ProcessNothing \/ Al!ProcessBusy \/ Al!ProcessReadError \/ Al!ProcessDrop
  /\ pc' = "sleep"
  /\ UNCHANGED <<l2Vars, sdkVars, terminateFlag>>

\* net_sendto() accepts the packet and sends its first fragment.
AlSends ==
  /\ pc = "al"
  /\ Al!ProcessSend(TRUE)
  /\ L2!SendData
  /\ sdkTx' = "onAir" /\ fragments' \in 0..(MaxFragments - 1)
  /\ pc' = "sleep"
  /\ UNCHANGED <<armed, expired, terminateFlag>>

\* net_sendto() refuses the packet: no rule compresses it, or the L2 fails.
AlRefused ==
  /\ pc = "al"
  /\ Al!ProcessSend(FALSE)
  /\ L2!SendFails \/ UNCHANGED l2Vars
  /\ pc' = "sleep"
  /\ UNCHANGED <<sdkVars, terminateFlag>>

-----------------------------------------------------------------------------
\* platform_enter_low_power_ll: poll() with a timeout of 100 ms.

\* The callbacks of all readable descriptors run; Worker's own two are watched
\* in the order in which they were opened (see FdWatch).
PollReadable ==
  /\ pc = "sleep"
  /\ L2!Readable \/ Al!Readable
  /\ IF L2!Readable THEN L2!DownlinkAvailable ELSE UNCHANGED l2Vars
  /\ IF Al!Readable THEN Al!TunReceived ELSE UNCHANGED alVars
  /\ pc' = "loop"
  /\ UNCHANGED <<sdkVars, terminateFlag>>

\* Mutant: poll() without a timeout.
PollForEver == FALSE

\* Nothing is readable when the timeout ends.
PollTimeout ==
  /\ pc = "sleep"
  /\ ~L2!Readable /\ ~Al!Readable
  /\ pc' = "loop"
  /\ UNCHANGED <<alVars, l2Vars, sdkVars, terminateFlag>>

\* Mutant: terminate() leaves the modem connected.
ModemLeftOpen ==
  /\ pc = "terminate"
  /\ Al!Terminate
  /\ pc' = "exit"
  /\ UNCHANGED <<l2Vars, sdkVars, terminateFlag>>

\* terminate(): schc_al_terminate and l2_deinit.
Terminate ==
  /\ pc = "terminate"
  /\ Al!Terminate /\ L2!Deinit
  /\ pc' = "exit"
  /\ UNCHANGED <<sdkVars, terminateFlag>>

Exited == pc = "exit" /\ UNCHANGED vars

Main ==
  \/ \E outcome \in {"ok", "noModem", "noSlot"} : MgtInitialize(outcome)
  \/ NetInitialize
  \/ \E ok \in BOOLEAN : AlInit(ok)
  \/ LoopEnds \/ LoopRequest \/ LoopNoRequest
  \/ NextFragment \/ NoTimer \/ L2aProcess
  \/ DelayNext \/ ReportSent \/ ReportFailed \/ DeliverUp \/ DeliverNothing
  \/ MgtDone
  \/ AlIdle \/ AlKeeps \/ AlSends \/ AlRefused
  \/ PollReadable \/ PollTimeout
  \/ Terminate

-----------------------------------------------------------------------------
\* What happens to the thread.  A signal handler runs between any two steps,
\* and a signal that arrives in poll() ends it with EINTR.

AfterSignal == IF pc = "sleep" THEN "loop" ELSE pc

Running == pc \notin {"start", "netInit", "alInit", "terminate", "exit"}

\* sdk_timer_1_event in the SIGUSR1 handler: mgt_timer_timeout() records the
\* expiry and calls cb_mgt_processing_required().
TimerExpires ==
  /\ armed /\ Running
  /\ armed' = FALSE /\ expired' = TRUE
  /\ L2!Requested
  /\ pc' = AfterSignal
  /\ UNCHANGED <<alVars, sdkTx, fragments, terminateFlag>>

\* sigint_handler, for SIGINT and SIGTERM.
SigInt ==
  /\ Running /\ ~terminateFlag
  /\ terminateFlag' = TRUE
  /\ pc' = AfterSignal
  /\ UNCHANGED <<alVars, l2Vars, sdkVars>>

TunArrives ==
  /\ Running
  /\ \E kind \in UpKinds : Al!PacketArrives(kind)
  /\ UNCHANGED <<l2Vars, sdkVars, pc, terminateFlag>>

LinkArrives ==
  /\ Running
  /\ \E kind \in Frames : L2!FrameArrives(kind)
  /\ UNCHANGED <<alVars, sdkVars, pc, terminateFlag>>

Next ==
  \/ Main
  \/ TimerExpires \/ SigInt \/ TunArrives \/ LinkArrives
  \/ Exited

Spec == Init /\ [][Next]_vars

\* The thread is scheduled, and a running timer expires.
FairSpec == Spec /\ WF_vars(Main) /\ WF_vars(TimerExpires)

-----------------------------------------------------------------------------
\* No wake-up is lost.  Outside mgt_process(), whatever waits for it (an event of
\* the L2, an expired timer, a record the SDK has not looked at) has
\* mgt_process_request set, although signals and callbacks set the flag and the
\* loop clears it, with nothing between them.
WorkIsRequested ==
  pc \in {"loop", "al", "sleep"} /\ ~request =>
    /\ l2Event = {} /\ ~expired
    /\ ~txDone /\ inbox = "none" /\ sdkTx # "failed"

\* A packet the SDK accepted always has exactly one thing on its way that will
\* move it on: a result on the link, a running or expired timer, or a failure to
\* report.  Clearing all events together in l2a_process drops none.
ResultIsOnItsWay ==
  /\ netOwes <=> sdkTx # "idle"
  /\ sdkTx = "onAir" <=> (txDone \/ "txResult" \in l2Event)
  /\ sdkTx = "delayed" <=> (armed \/ expired)
  /\ ~(txDone /\ "txResult" \in l2Event) /\ ~(armed /\ expired)

\* Nothing is sent before the SDK knows that the link is there: the request made
\* by l2a_initialize has mgt_process() run in the first turn of the loop, ahead
\* of the first poll() that can report a packet.
ConnectedFirst == handed # <<>> => connected

\* However main() ends, also halfway through its initialisation, the device and
\* the modem are closed.
NothingLeftOpen == pc = "exit" => tunFd # "open" /\ l2Fd # "open"

\* SIGINT ends the worker, even when it arrives just before poll().
Terminates == terminateFlag ~> pc = "exit"

\* The SDK reports the result of every packet it accepts, so that the layer does
\* not stay busy, unless the worker is stopped.
ResultComes == netOwes ~> (~netOwes \/ pc = "exit")

\* Packets do not stay in the device, or frames in the modem.
TunDrained == tun # <<>> ~> tun = <<>>
LinkDrained == rx # <<>> ~> rx = <<>>

\* What makes WorkIsRequested and ResultIsOnItsWay inductive.

\* The SDK looks at all its records before mgt_process() returns.
RecordsLookedAt ==
  /\ pc # "results" => ~txDone /\ inbox = "none"
  /\ sdkTx = "failed" => pc \in {"l2a", "results"}

\* An event, or an expired timer, is requested to be looked at or will be before
\* the mgt_process() under way returns.
EventsRequested ==
  /\ l2Event # {} /\ ~request => pc \in {"timers", "l2a"}
  /\ pc = "results" => l2Event = {}
  /\ expired /\ ~request => pc = "timers"

\* The adaptation layer runs only with the device open, and knows whether the SDK
\* has a packet.
AlOpen ==
  /\ tunFd = "unopened" => ~netOwes /\ handed = <<>>
  /\ tunFd # "open" => alEvent = {}
  /\ Al!OngoingMatchesSdk

\* Connectivity is announced when the modem is opened, and recorded by the first
\* mgt_process(), which comes before the first turn of the adaptation layer.
ConnectedByMgt ==
  /\ ~connected /\ l2Fd # "unopened" => "connectivity" \in l2Event
  /\ ~connected => alEvent \subseteq {"connectivity"} /\ handed = <<>>
  /\ ~connected => pc \in {"start", "netInit", "alInit", "loop", "timers", "l2a",
                            "terminate", "exit"}
  /\ pc = "start" <=> l2Fd = "unopened" /\ pc # "terminate" /\ pc # "exit"
  /\ pc = "start" => l2Event = {}

IInv ==
  /\ RecordsLookedAt /\ EventsRequested /\ ResultIsOnItsWay
  /\ AlOpen /\ ConnectedByMgt
=============================================================================
