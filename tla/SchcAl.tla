------------------------------- MODULE SchcAl -------------------------------
(***************************************************************************)
(* The SCHC adaptation layer, applications/schc_worker_linux/src/schc_al.c *)
(* (schc_al below): IPv6 packets read from a TUN device go to the SDK with *)
(* net_sendto(), one at a time, and what the SDK receives is written back  *)
(* to the device.  The main loop calls it; its callers are constrained     *)
(* here only by what they know, so that Worker can be checked against it.  *)
(*                                                                         *)
(* A packet is its number and what the layer sees in it.  CoAP inside      *)
(* IPv6/UDP is "coap" in the clear and "oscore" once protected; "empty" is *)
(* a CoAP message of the messaging layer, one with no request or response  *)
(* code (60 00 9E 1B); "forged" is an OSCORE message that does not verify; *)
(* "udp" is any other UDP.                                                 *)
(***************************************************************************)
EXTENDS Integers, Sequences

CONSTANTS
  MaxUp,          \* bound: packets the IP stack routes to the TUN device
  MaxDown,        \* bound: packets the SDK delivers
  MaxFaults,      \* bound: failed system calls
  OscoreProxy,    \* OSCORE_PROXY_ENABLED
  DropOnError,    \* OSCORE_DROP_ON_ERROR
  DropNonCoap,    \* DROP_NON_COAP
  UpKinds,        \* the kinds of packet the IP stack routes to the device
  DownKinds       \* the kinds of packet the SDK delivers

ASSUME AlAssumption ==
  /\ MaxUp \in Nat /\ MaxDown \in Nat /\ MaxFaults \in Nat
  /\ {OscoreProxy, DropOnError, DropNonCoap} \subseteq BOOLEAN
  /\ UpKinds \subseteq {"coap", "empty", "udp", "other"}
  /\ DownKinds \subseteq {"oscore", "coap", "empty", "forged", "udp", "other"}

VARIABLES
  tunFd,        \* "unopened", "open" or "closed"; tun_fd is -1 unless open
  alEvent,      \* event: the flags that are set
  alRequired,   \* processing_required
  tun,          \* packets queued in the device, to be read
  arrived,      \* how many packets were ever queued
  dropped,      \* numbers of the packets read and discarded on purpose
  handed,       \* what net_sendto() was given: <<number, form>>, in order
  netOwes,      \* the SDK accepted a packet and has not reported its result
  received,     \* how many packets the SDK ever delivered
  up,           \* what was written to the device: <<number, form>>, in order
  faults        \* failed system calls so far

alVars == <<tunFd, alEvent, alRequired, tun, arrived, dropped, handed, netOwes,
            received, up, faults>>

Events == {"connectivity", "ipPacket", "ongoing"}

Init ==
  /\ tunFd = "unopened"
  /\ alEvent = {} /\ alRequired = FALSE
  /\ tun = <<>> /\ arrived = 0
  /\ dropped = {} /\ handed = <<>> /\ netOwes = FALSE
  /\ received = 0 /\ up = <<>>
  /\ faults = 0

-----------------------------------------------------------------------------
\* schc_al_init: the device is created, configured and watched, or any of the
\* steps fails and the device is closed again.
Initialise(ok) ==
  /\ tunFd = "unopened"
  /\ tunFd' = IF ok THEN "open" ELSE "closed"
  /\ alEvent' = IF ok THEN {"connectivity"} ELSE {}
  /\ alRequired' = ok
  /\ UNCHANGED <<tun, arrived, dropped, handed, netOwes, received, up, faults>>

\* The kernel: a packet is routed to the device.
PacketArrives(kind) ==
  /\ tunFd = "open" /\ arrived < MaxUp
  /\ arrived' = arrived + 1
  /\ tun' = Append(tun, [n |-> arrived', kind |-> kind])
  /\ UNCHANGED <<tunFd, alEvent, alRequired, dropped, handed, netOwes, received,
                 up, faults>>

Readable == tunFd = "open" /\ tun # <<>>

\* schc_al_tun_received_handler, called for a device poll() found readable.
TunReceived ==
  /\ Readable
  /\ alEvent' = alEvent \cup {"ipPacket"}
  /\ alRequired' = TRUE
  /\ UNCHANGED <<tunFd, tun, arrived, dropped, handed, netOwes, received, up, faults>>

\* Mutant: a CoAP message that cannot be protected is sent as it is.
SendsAnyway(kind) ==
  CASE kind = "other" -> {"drop"}
    [] kind = "udp"   -> {IF DropNonCoap THEN "drop" ELSE "udp"}
    [] kind = "empty" -> {"empty"}
    [] kind = "coap"  -> IF OscoreProxy THEN {"oscore", "coap"} ELSE {"coap"}

\* What the filter and the OSCORE proxy make of a packet: the form it is sent
\* in, or "drop".  coap_to_oscore() may fail for any CoAP message; it succeeds for
\* one of the messaging layer too, and leaves it as it is.
DownForms(kind) ==
  CASE kind = "other" -> {"drop"}
    [] kind = "udp"   -> {IF DropNonCoap THEN "drop" ELSE "udp"}
    [] kind = "coap"  -> IF ~OscoreProxy THEN {"coap"}
                         ELSE {"oscore", IF DropOnError THEN "drop" ELSE "coap"}
    [] kind = "empty" -> {"empty"} \cup
                         IF OscoreProxy /\ DropOnError THEN {"drop"} ELSE {}

\* The steps of schc_al_process that look at the packet: IP_PACKET_AVAILABLE
\* and processing_required are cleared before anything else is looked at.
Takes ==
  /\ alRequired /\ "ipPacket" \in alEvent
  /\ alRequired' = FALSE

\* Nothing to take: the flag stays set, as after schc_al_init.
ProcessNothing ==
  /\ alRequired /\ "ipPacket" \notin alEvent
  /\ UNCHANGED alVars

\* Mutant: the packet is read before the transmission in progress is noticed.
BusyAfterRead ==
  /\ Takes
  /\ "ongoing" \in alEvent
  /\ tun' = Tail(tun)
  /\ alEvent' = alEvent \ {"ipPacket"}
  /\ UNCHANGED <<tunFd, arrived, dropped, handed, netOwes, received, up, faults>>

\* Mutant: the packet is discarded and IP_PACKET_AVAILABLE is left set.
FlagKept ==
  /\ Takes
  /\ "ongoing" \notin alEvent
  /\ tun # <<>>
  /\ "drop" \in DownForms(Head(tun).kind)
  /\ tun' = Tail(tun)
  /\ dropped' = dropped \cup {Head(tun).n}
  /\ UNCHANGED <<tunFd, alEvent, arrived, handed, netOwes, received, up, faults>>

\* SEND_DOWN_BUSY: the packet is left in the device for a later poll().
ProcessBusy ==
  /\ Takes
  /\ "ongoing" \in alEvent
  /\ alEvent' = alEvent \ {"ipPacket"}
  /\ UNCHANGED <<tunFd, tun, arrived, dropped, handed, netOwes, received, up, faults>>

\* read() fails: the packet stays in the device.
ProcessReadError ==
  /\ Takes
  /\ "ongoing" \notin alEvent
  /\ faults < MaxFaults /\ faults' = faults + 1
  /\ alEvent' = alEvent \ {"ipPacket"}
  /\ UNCHANGED <<tunFd, tun, arrived, dropped, handed, netOwes, received, up>>

\* read() takes the packet, and the layer discards it.  read() on this blocking
\* descriptor returns only when there is a packet.
ProcessDrop ==
  /\ Takes
  /\ "ongoing" \notin alEvent
  /\ tun # <<>>
  /\ "drop" \in DownForms(Head(tun).kind)
  /\ tun' = Tail(tun)
  /\ dropped' = dropped \cup {Head(tun).n}
  /\ alEvent' = alEvent \ {"ipPacket"}
  /\ UNCHANGED <<tunFd, arrived, handed, netOwes, received, up, faults>>

\* Mutant: a refused packet leaves ONGOING_TRANSMISSION set.
StaysOngoing(accepted) == (alEvent \ {"ipPacket"}) \cup {"ongoing"}

\* Mutant: ONGOING_TRANSMISSION is not set for an accepted packet.
NeverOngoing(accepted) == alEvent \ {"ipPacket"}

\* ONGOING_TRANSMISSION is set for net_sendto() and taken back if it refuses.
EventAfterSend(accepted) ==
  IF accepted THEN (alEvent \ {"ipPacket"}) \cup {"ongoing"}
              ELSE alEvent \ {"ipPacket"}

\* read() takes the packet, and net_sendto() accepts or refuses it.
ProcessSend(accepted) ==
  /\ Takes
  /\ "ongoing" \notin alEvent
  /\ tun # <<>>
  /\ \E form \in DownForms(Head(tun).kind) \ {"drop"} :
       handed' = Append(handed, <<Head(tun).n, form>>)
  /\ tun' = Tail(tun)
  /\ alEvent' = EventAfterSend(accepted)
  /\ netOwes' = accepted
  /\ UNCHANGED <<tunFd, arrived, dropped, received, up, faults>>

\* net_transmission_result: the SDK reports the packet it accepted, once.
TransmissionResult ==
  /\ netOwes
  /\ netOwes' = FALSE
  /\ alEvent' = alEvent \ {"ongoing"}
  /\ UNCHANGED <<tunFd, alRequired, tun, arrived, dropped, handed, received, up,
                 faults>>

\* Mutant: the filter on the way up is missing.
UpFormsUnfiltered(kind) ==
  {IF kind = "oscore" /\ OscoreProxy THEN "coap" ELSE kind}

\* schc_al_forward_up: the forms a packet from the SDK may be written in, or "drop".
\* A genuine OSCORE message may be refused as well: as a replay, as the first
\* request after a restart (CO_ECHO_ERROR), or by the inner decompression.
UpForms(kind) ==
  CASE kind = "other"  -> {"drop"}
    [] kind = "udp"    -> {IF DropNonCoap THEN "drop" ELSE "udp"}
    [] kind \in {"coap", "empty"} -> {kind}
    [] kind = "oscore" -> IF OscoreProxy THEN {"coap", "drop"} ELSE {"oscore"}
    [] kind = "forged" -> {IF OscoreProxy THEN "drop" ELSE "forged"}

\* net_data_received: forwarded up; a failed write() loses the packet.
DataReceived(kind) ==
  /\ tunFd = "open" /\ received < MaxDown
  /\ received' = received + 1
  /\ \E form \in UpForms(kind) :
       \/ /\ up' = IF form = "drop" THEN up ELSE Append(up, <<received', form>>)
          /\ UNCHANGED faults
       \/ /\ form # "drop"
          /\ faults < MaxFaults /\ faults' = faults + 1
          /\ UNCHANGED up
  /\ UNCHANGED <<tunFd, alEvent, alRequired, tun, arrived, dropped, handed, netOwes>>

\* schc_al_terminate: the device is closed, and what it held is gone.  main()
\* calls it once, from terminate(), whether or not the device was opened.
Terminate ==
  /\ tunFd' = "closed"
  /\ alEvent' = {} /\ alRequired' = FALSE
  /\ tun' = <<>>
  /\ UNCHANGED <<arrived, dropped, handed, netOwes, received, up, faults>>

Process ==
  \/ ProcessNothing \/ ProcessBusy \/ ProcessReadError \/ ProcessDrop
  \/ \E accepted \in BOOLEAN : ProcessSend(accepted)

Next ==
  \/ \E ok \in BOOLEAN : Initialise(ok)
  \/ \E kind \in UpKinds : PacketArrives(kind)
  \/ TunReceived
  \/ Process
  \/ TransmissionResult
  \/ \E kind \in DownKinds : DataReceived(kind)
  \/ Terminate

Spec == Init /\ [][Next]_alVars

-----------------------------------------------------------------------------
Packets == [n : 1..MaxUp, kind : UpKinds]
Forms == {"oscore", "coap", "empty", "forged", "udp"}

\* Types.  Everything the layer counts stays within the bounds, and what it
\* hands over or writes is never the undecided form "drop" or "other"
\* (schc_al_send_down and schc_al_forward_up filter before they send).
TypeOK ==
  /\ tunFd \in {"unopened", "open", "closed"}
  /\ alEvent \subseteq Events /\ alRequired \in BOOLEAN
  /\ tun \in Seq(Packets) /\ arrived \in 0..MaxUp
  /\ dropped \subseteq 1..MaxUp
  /\ handed \in Seq((1..MaxUp) \X Forms) /\ netOwes \in BOOLEAN
  /\ received \in 0..MaxDown
  /\ up \in Seq((1..MaxDown) \X Forms)
  /\ faults \in 0..MaxFaults

\* ONGOING_TRANSMISSION is the layer's only record of the packet the SDK has:
\* while the device is open it is set exactly while the SDK owes a result.  A
\* flag left set would answer SEND_DOWN_BUSY for ever; one cleared too early
\* would hand the SDK a second packet.
OngoingMatchesSdk == tunFd = "open" => (("ongoing" \in alEvent) <=> netOwes)

\* IP_PACKET_AVAILABLE is set only while the device holds a packet, so read() on
\* this blocking descriptor, which is retried on EINTR, never holds up the loop.
FlagMeansPacket == "ipPacket" \in alEvent => tun # <<>>

\* The packets read so far.
Taken == 1..(arrived - Len(tun))

\* Every packet the IP stack routed to an open device is still in it or was taken
\* from it, and each one taken was either discarded by the filter or given to
\* net_sendto(), once and in the order of arrival: SEND_DOWN_BUSY and a failed
\* read() lose nothing and repeat nothing.
NothingLost ==
  tunFd = "open" =>
    /\ \A i \in DOMAIN tun : tun[i].n = arrived - Len(tun) + i
    /\ dropped \cup {handed[i][1] : i \in DOMAIN handed} = Taken
    /\ \A i \in DOMAIN handed : handed[i][1] \notin dropped
    /\ \A i, j \in DOMAIN handed : i < j => handed[i][1] < handed[j][1]

\* With OSCORE_PROXY_ENABLED and OSCORE_DROP_ON_ERROR no CoAP request or response
\* goes down in the clear, and no OSCORE message that fails to verify is written up.
\* A message of the messaging layer, which is neither, does go down as it is.
ProxyFailsClosed ==
  OscoreProxy /\ DropOnError =>
    /\ \A i \in DOMAIN handed : handed[i][2] # "coap"
    /\ \A i \in DOMAIN up : up[i][2] # "forged"

\* net_sendto() is not called while the SDK still owes the result of a packet,
\* which is what the test of ONGOING_TRANSMISSION is there for.
OneAtATime == [][handed' # handed => ~netOwes]_alVars

\* What makes them inductive: a device that is not open leaves nothing behind, and
\* one not opened yet was never used.
Unused ==
  /\ tunFd # "open" => alEvent = {} /\ tun = <<>>
  /\ tunFd = "unopened" => arrived = 0 /\ dropped = {} /\ handed = <<>> /\ ~netOwes

IInv == TypeOK /\ OngoingMatchesSdk /\ FlagMeansPacket /\ NothingLost /\ Unused
=============================================================================
