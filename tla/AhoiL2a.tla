------------------------------ MODULE AhoiL2a ------------------------------
(***************************************************************************)
(* The L2 layer over the ahoi acoustic modem,                              *)
(* l2/ahoi_posix_host/src/fullsdkl2a.c: the SDK sends a fragment with      *)
(* l2a_send_data(), and learns what happened on the link only from         *)
(* l2a_process(), which it calls because the layer asked for it.           *)
(*                                                                         *)
(* A frame is what its payload will turn out to be: a packet of one of     *)
(* DownKinds, "part" for a fragment that completes none, or "large" for    *)
(* one that does not fit the SDK's receive buffer.  The modem's library    *)
(* and the SDK's callbacks are not part of the repository: a read hands    *)
(* over one frame, and the callbacks record what they are told and ask for *)
(* processing (tests/logs/schc_worker_oscore_client.log).                  *)
(***************************************************************************)
EXTENDS Integers, Sequences

CONSTANTS
  Kinds,          \* the frames the peer sends
  MaxFrames,      \* bound: frames the modem receives
  MaxL2Faults     \* bound: failed calls of the modem's library

ASSUME L2Assumption ==
  /\ MaxFrames \in Nat /\ MaxL2Faults \in Nat
  /\ "none" \notin Kinds

VARIABLES
  l2Fd,         \* "unopened", "open" or "closed"; ahoifd is -1 until it is open
  l2Event,      \* event: the flags that are set
  rx,           \* frames in the modem, to be read
  frames,       \* how many frames were ever received
  l2Faults,     \* failed calls so far
  request,      \* mgt_process_request, set by l2a_cb.processing_required()
  connected,    \* SDK: connectivity_available() was called
  l2Owes,       \* SDK: a fragment was sent and its result is not recorded yet
  txDone,       \* SDK: transmission_result() was called, to be looked at
  inbox         \* SDK: what data_received() was called with, to be looked at

l2Vars == <<l2Fd, l2Event, rx, frames, l2Faults, request, connected, l2Owes,
            txDone, inbox>>

L2Events == {"connectivity", "txResult", "downlink"}

Init ==
  /\ l2Fd = "unopened" /\ l2Event = {}
  /\ rx = <<>> /\ frames = 0 /\ l2Faults = 0
  /\ request = FALSE
  /\ connected = FALSE /\ l2Owes = FALSE /\ txDone = FALSE /\ inbox = "none"

-----------------------------------------------------------------------------
\* Mutant: connectivity is announced without processing_required().
InitialiseSilently(outcome) ==
  /\ l2Fd = "unopened"
  /\ IF outcome = "noModem"
       THEN UNCHANGED <<l2Fd, l2Event>>
       ELSE l2Fd' = "open" /\ l2Event' = {"connectivity"}
  /\ UNCHANGED <<rx, frames, l2Faults, request, connected, l2Owes, txDone, inbox>>

\* l2a_initialize: the modem is not reached, it is and can be watched, or it is
\* and the table of watched descriptors is full; connectivity is announced
\* before the descriptor is watched.
Initialise(outcome) ==
  /\ l2Fd = "unopened"
  /\ IF outcome = "noModem"
       THEN UNCHANGED <<l2Fd, l2Event, request>>
       ELSE l2Fd' = "open" /\ l2Event' = {"connectivity"} /\ request' = TRUE
  /\ UNCHANGED <<rx, frames, l2Faults, connected, l2Owes, txDone, inbox>>

\* The modem: a frame of the peer is received.
FrameArrives(kind) ==
  /\ l2Fd = "open" /\ frames < MaxFrames
  /\ frames' = frames + 1
  /\ rx' = Append(rx, kind)
  /\ UNCHANGED <<l2Fd, l2Event, l2Faults, request, connected, l2Owes, txDone, inbox>>

Readable == l2Fd = "open" /\ rx # <<>>

\* Mutant: the event is set and the SDK is not told.
EventOnly ==
  /\ Readable
  /\ l2Event' = l2Event \cup {"downlink"}
  /\ UNCHANGED <<l2Fd, rx, frames, l2Faults, request, connected, l2Owes, txDone,
                 inbox>>

\* _downlink_available_callback, called for a modem poll() found readable.
DownlinkAvailable ==
  /\ Readable
  /\ l2Event' = l2Event \cup {"downlink"}
  /\ request' = TRUE
  /\ UNCHANGED <<l2Fd, rx, frames, l2Faults, connected, l2Owes, txDone, inbox>>

\* Mutant: the result is reported from l2a_send_data as well as by the event.
SendsAhead ==
  /\ l2Fd = "open" /\ ~l2Owes
  /\ l2Event' = l2Event \cup {"txResult"}
  /\ txDone' = TRUE
  /\ request' = TRUE
  /\ l2Owes' = TRUE
  /\ UNCHANGED <<l2Fd, rx, frames, l2Faults, connected, inbox>>

\* l2a_send_data succeeds: the result is known at once and reported later.  The
\* SDK has one fragment on the link at a time.
SendData ==
  /\ l2Fd = "open" /\ ~l2Owes
  /\ l2Event' = l2Event \cup {"txResult"}
  /\ request' = TRUE
  /\ l2Owes' = TRUE
  /\ UNCHANGED <<l2Fd, rx, frames, l2Faults, connected, txDone, inbox>>

\* l2a_send_data fails with L2A_L2_ERROR: no event, the SDK was told at once.
SendFails ==
  /\ l2Fd = "open" /\ ~l2Owes
  /\ l2Faults < MaxL2Faults /\ l2Faults' = l2Faults + 1
  /\ UNCHANGED <<l2Fd, l2Event, rx, frames, request, connected, l2Owes, txDone, inbox>>

\* Mutant: packet_consumer does not compare the size with the buffer.
ReadAnySize ==
  /\ rx # <<>>
  /\ inbox' = Head(rx)
  /\ rx' = Tail(rx)
  /\ UNCHANGED l2Faults

\* _read_downlink and packet_consumer: data_received() is called with the frame,
\* with L2A_BUFFER_ERR for one that is too large, or with L2A_L2_ERROR when the
\* read fails, whether the frame is lost or still there, or finds none.
ReadDownlink ==
  \/ /\ rx # <<>>
     /\ inbox' = IF Head(rx) = "large" THEN "error" ELSE Head(rx)
     /\ rx' = Tail(rx)
     /\ UNCHANGED l2Faults
  \/ /\ l2Faults < MaxL2Faults /\ l2Faults' = l2Faults + 1
     /\ inbox' = "error"
     /\ rx' \in {rx} \cup {Tail(r) : r \in {rx} \ {<<>>}}

\* Mutant: the events are cleared first, so the tests see none of them.
ClearsFirst ==
  /\ l2Fd = "open"
  /\ l2Event' = {}
  /\ UNCHANGED <<l2Fd, rx, frames, l2Faults, request, connected, l2Owes, txDone,
                 inbox>>

\* l2a_process: every event is acted on, then all are cleared together.
Process ==
  /\ l2Fd = "open"
  /\ connected' = (connected \/ "connectivity" \in l2Event)
  /\ txDone' = (txDone \/ "txResult" \in l2Event)
  /\ IF "downlink" \in l2Event THEN ReadDownlink ELSE UNCHANGED <<rx, inbox, l2Faults>>
  /\ l2Event' = {}
  /\ request' = (request \/ l2Event \ {"connectivity"} # {})
  /\ UNCHANGED <<l2Fd, frames, l2Owes>>

\* The SDK looks at the result of its fragment.
ResultTaken ==
  /\ txDone
  /\ txDone' = FALSE /\ l2Owes' = FALSE
  /\ UNCHANGED <<l2Fd, l2Event, rx, frames, l2Faults, request, connected, inbox>>

\* The SDK looks at what it received.
FrameTaken ==
  /\ inbox # "none"
  /\ inbox' = "none"
  /\ UNCHANGED <<l2Fd, l2Event, rx, frames, l2Faults, request, connected, l2Owes,
                 txDone>>

\* mgt_process_request, which the layer sets, is also set by a timer of the SDK
\* (cb_mgt_processing_required) and cleared by the main loop.
Requested == request' = TRUE /\ UNCHANGED <<l2Fd, l2Event, rx, frames, l2Faults,
                                            connected, l2Owes, txDone, inbox>>
RequestTaken == request /\ request' = FALSE
                /\ UNCHANGED <<l2Fd, l2Event, rx, frames, l2Faults, connected, l2Owes,
                               txDone, inbox>>

\* l2_deinit: the modem is disconnected if it was reached.
Deinit ==
  /\ l2Fd' = IF l2Fd = "open" THEN "closed" ELSE l2Fd
  /\ rx' = <<>>
  /\ UNCHANGED <<l2Event, frames, l2Faults, request, connected, l2Owes, txDone, inbox>>

Next ==
  \/ \E outcome \in {"ok", "noModem", "noSlot"} : Initialise(outcome)
  \/ \E kind \in Kinds : FrameArrives(kind)
  \/ DownlinkAvailable \/ SendData \/ SendFails \/ Process
  \/ ResultTaken \/ FrameTaken \/ Requested \/ RequestTaken
  \/ Deinit

Spec == Init /\ [][Next]_l2Vars

-----------------------------------------------------------------------------
\* Types.  A frame that does not fit the SDK's buffer is never handed over as one
\* that was received (packet_consumer).
TypeOK ==
  /\ l2Fd \in {"unopened", "open", "closed"}
  /\ l2Event \subseteq L2Events
  /\ rx \in Seq(Kinds) /\ frames \in 0..MaxFrames /\ l2Faults \in 0..MaxL2Faults
  /\ {request, connected, l2Owes, txDone} \subseteq BOOLEAN
  /\ inbox \in (Kinds \ {"large"}) \cup {"none", "error"}

\* A fragment the SDK waits for has its result in the event flag or in the SDK's
\* own record, in one of them only: clearing all events together in l2a_process
\* drops no result, and no result is reported twice.
ResultKnownOnce ==
  l2Fd = "open" =>
    /\ l2Owes <=> (txDone \/ "txResult" \in l2Event)
    /\ ~(txDone /\ "txResult" \in l2Event)

\* l2a_process is the only one to clear an event, and clears it with the callback
\* that tells the SDK of it, although it clears all of them in one store.
EventsActedOn ==
  [][/\ "connectivity" \in l2Event \ l2Event' => connected'
     /\ "txResult" \in l2Event \ l2Event' => txDone'
     /\ "downlink" \in l2Event \ l2Event' => inbox' # "none"]_l2Vars
=============================================================================
