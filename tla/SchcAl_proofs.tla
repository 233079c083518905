--------------------------- MODULE SchcAl_proofs ---------------------------
(***************************************************************************)
(* Proofs about SchcAl for any number of packets, deliveries and faults    *)
(* and any setting of its switches: the flags of the layer agree with the  *)
(* SDK and the device, no packet is lost or sent twice, and the SDK is     *)
(* given one packet at a time.                                             *)
(***************************************************************************)
EXTENDS SchcAl, TLAPS

\* What the two filters can return.
LEMMA FormsRange ==
  /\ \A kind \in UpKinds : DownForms(kind) \subseteq Forms \cup {"drop"}
  /\ \A kind \in DownKinds : UpForms(kind) \subseteq Forms \cup {"drop"}
  BY AlAssumption DEF DownForms, UpForms, Forms

\* Taking the first packet of a queue leaves the rest, which were packets too.
LEMMA TailTyped ==
  ASSUME NEW S, NEW q \in Seq(S), q # <<>>
  PROVE  /\ Head(q) \in S /\ Tail(q) \in Seq(S)
         /\ Len(Tail(q)) = Len(q) - 1 /\ Len(q) \in Nat \ {0}
         /\ DOMAIN Tail(q) = 1..(Len(q) - 1)
         /\ \A i \in 1..(Len(q) - 1) : Tail(q)[i] = q[i + 1]
         /\ Head(q) = q[1]
  OBVIOUS

LEMMA AppendTyped ==
  ASSUME NEW S, NEW q \in Seq(S), NEW e \in S
  PROVE  /\ Append(q, e) \in Seq(S)
         /\ Len(Append(q, e)) = Len(q) + 1 /\ Len(q) \in Nat
         /\ DOMAIN Append(q, e) = 1..(Len(q) + 1) /\ DOMAIN q = 1..Len(q)
         /\ \A i \in 1..Len(q) : Append(q, e)[i] = q[i]
         /\ Append(q, e)[Len(q) + 1] = e
  OBVIOUS

-----------------------------------------------------------------------------

LEMMA InitInv == Init => IInv
  <1> SUFFICES ASSUME Init PROVE IInv
    OBVIOUS
  <1> USE AlAssumption DEF Init
  <1>1. TypeOK
    <2>1. <<>> \in Seq(Packets) /\ <<>> \in Seq((1..MaxUp) \X Forms)
          /\ <<>> \in Seq((1..MaxDown) \X Forms)
      OBVIOUS
    <2>2. 0 \in 0..MaxUp /\ 0 \in 0..MaxDown /\ 0 \in 0..MaxFaults
      OBVIOUS
    <2>3. QED
      BY <2>1, <2>2 DEF TypeOK
  <1>2. OngoingMatchesSdk /\ FlagMeansPacket /\ NothingLost /\ Unused
    BY DEF OngoingMatchesSdk, FlagMeansPacket, NothingLost, Unused
  <1>3. QED
    BY <1>1, <1>2 DEF IInv

\* Each step keeps the types.
LEMMA TypeNext == TypeOK /\ Unused /\ [Next]_alVars => TypeOK'
  <1> SUFFICES ASSUME TypeOK, Unused, [Next]_alVars PROVE TypeOK'
    OBVIOUS
  <1> USE AlAssumption DEF TypeOK
  <1>1. CASE UNCHANGED alVars
    BY <1>1 DEF alVars
  <1>2. ASSUME NEW ok \in BOOLEAN, Initialise(ok) PROVE TypeOK'
    BY <1>2 DEF Initialise, Events
  <1>3. ASSUME NEW kind \in UpKinds, PacketArrives(kind) PROVE TypeOK'
    <2>1. [n |-> arrived + 1, kind |-> kind] \in Packets
      BY <1>3 DEF PacketArrives, Packets
    <2>2. tun' \in Seq(Packets)
      BY <1>3, <2>1 DEF PacketArrives
    <2>3. QED
      BY <1>3, <2>2 DEF PacketArrives
  <1>4. CASE TunReceived
    BY <1>4 DEF TunReceived, Events
  <1>5. CASE ProcessNothing
    BY <1>5 DEF ProcessNothing, alVars
  <1>6. CASE ProcessBusy
    BY <1>6 DEF ProcessBusy, Takes
  <1>7. CASE ProcessReadError
    <2>1. faults' \in 0..MaxFaults
      BY <1>7 DEF ProcessReadError
    <2>2. QED
      BY <1>7, <2>1 DEF ProcessReadError, Takes
  <1>8. CASE ProcessDrop
    <2>1. Head(tun) \in Packets /\ Tail(tun) \in Seq(Packets)
      BY <1>8, TailTyped DEF ProcessDrop
    <2>2. QED
      BY <1>8, <2>1 DEF ProcessDrop, Takes, Packets
  <1>9. ASSUME NEW accepted \in BOOLEAN, ProcessSend(accepted) PROVE TypeOK'
    <2>1. Head(tun) \in Packets /\ Tail(tun) \in Seq(Packets)
      BY <1>9, TailTyped DEF ProcessSend
    <2>2. PICK form \in DownForms(Head(tun).kind) \ {"drop"} :
            handed' = Append(handed, <<Head(tun).n, form>>)
      BY <1>9 DEF ProcessSend
    <2>3. <<Head(tun).n, form>> \in (1..MaxUp) \X Forms
      BY <2>1, FormsRange DEF Packets
    <2>4. handed' \in Seq((1..MaxUp) \X Forms)
      BY <2>2, <2>3, AppendTyped
    <2>5. QED
      BY <1>9, <2>1, <2>4 DEF ProcessSend, EventAfterSend, Takes, Events
  <1>10. CASE TransmissionResult
    BY <1>10 DEF TransmissionResult
  <1>11. ASSUME NEW kind \in DownKinds, DataReceived(kind) PROVE TypeOK'
    <2>1. received' \in 1..MaxDown /\ faults' \in 0..MaxFaults
      BY <1>11 DEF DataReceived
    <2>2. CASE up' = up
      BY <1>11, <2>1, <2>2 DEF DataReceived
    <2>3. ASSUME NEW form \in UpForms(kind), form # "drop",
                 up' = Append(up, <<received', form>>)
          PROVE  TypeOK'
      <3>1. <<received', form>> \in (1..MaxDown) \X Forms
        BY <2>1, <2>3, FormsRange
      <3>2. up' \in Seq((1..MaxDown) \X Forms)
        BY <2>3, <3>1, AppendTyped
      <3>3. QED
        BY <1>11, <2>1, <3>2 DEF DataReceived
    <2>4. QED
      BY <1>11, <2>2, <2>3 DEF DataReceived
  <1>12. CASE Terminate
    <2>1. <<>> \in Seq(Packets)
      OBVIOUS
    <2>2. QED
      BY <1>12, <2>1 DEF Terminate
  <1>13. QED
    BY <1>1, <1>2, <1>3, <1>4, <1>5, <1>6, <1>7, <1>8, <1>9, <1>10, <1>11, <1>12
    DEF Next, Process

\* Each step keeps the flags in agreement with the SDK and the device.
LEMMA FlagsNext ==
  IInv /\ [Next]_alVars => (OngoingMatchesSdk /\ FlagMeansPacket /\ Unused)'
  <1> SUFFICES ASSUME IInv, [Next]_alVars
               PROVE  (OngoingMatchesSdk /\ FlagMeansPacket /\ Unused)'
    OBVIOUS
  <1> USE DEF IInv, OngoingMatchesSdk, FlagMeansPacket, Unused
  <1>1. CASE UNCHANGED alVars
    BY <1>1 DEF alVars
  <1>2. ASSUME NEW ok \in BOOLEAN, Initialise(ok)
        PROVE  (OngoingMatchesSdk /\ FlagMeansPacket /\ Unused)'
    BY <1>2 DEF Initialise
  <1>3. ASSUME NEW kind \in UpKinds, PacketArrives(kind)
        PROVE  (OngoingMatchesSdk /\ FlagMeansPacket /\ Unused)'
    <2>1. [n |-> arrived', kind |-> kind] \in Packets
      BY <1>3, AlAssumption DEF PacketArrives, Packets, TypeOK
    <2>2. Len(tun') > 0
      BY <1>3, <2>1, AppendTyped DEF PacketArrives, TypeOK
    <2>3. tun' # <<>>
      BY <2>2
    <2>4. QED
      BY <1>3, <2>3 DEF PacketArrives
  <1>4. CASE TunReceived
    BY <1>4 DEF TunReceived, Readable
  <1>5. CASE ProcessNothing
    BY <1>5 DEF ProcessNothing, alVars
  <1>6. CASE ProcessBusy
    BY <1>6 DEF ProcessBusy, Takes
  <1>7. CASE ProcessReadError
    BY <1>7 DEF ProcessReadError, Takes
  <1>8. CASE ProcessDrop
    BY <1>8 DEF ProcessDrop, Takes
  <1>9. ASSUME NEW accepted \in BOOLEAN, ProcessSend(accepted)
        PROVE  (OngoingMatchesSdk /\ FlagMeansPacket /\ Unused)'
    BY <1>9 DEF ProcessSend, EventAfterSend, Takes
  <1>10. CASE TransmissionResult
    BY <1>10 DEF TransmissionResult
  <1>11. ASSUME NEW kind \in DownKinds, DataReceived(kind)
         PROVE  (OngoingMatchesSdk /\ FlagMeansPacket /\ Unused)'
    BY <1>11 DEF DataReceived
  <1>12. CASE Terminate
    BY <1>12 DEF Terminate
  <1>13. QED
    BY <1>1, <1>2, <1>3, <1>4, <1>5, <1>6, <1>7, <1>8, <1>9, <1>10, <1>11, <1>12
    DEF Next, Process

\* A packet taken from the device is the first of those in it; what is left is
\* numbered as it was.
LEMMA TakenNext ==
  ASSUME TypeOK, tun # <<>>,
         \A i \in DOMAIN tun : tun[i].n = arrived - Len(tun) + i,
         arrived' = arrived, tun' = Tail(tun)
  PROVE  /\ Head(tun).n = arrived - Len(tun) + 1
         /\ \A i \in DOMAIN tun' : tun'[i].n = arrived' - Len(tun') + i
         /\ Taken' = Taken \cup {Head(tun).n}
         /\ Head(tun).n \in Nat /\ \A n \in Taken : n < Head(tun).n
  <1>1. tun \in Seq(Packets) /\ arrived \in Nat
    BY AlAssumption DEF TypeOK
  <1>2. /\ Head(tun) = tun[1] /\ Len(tun) \in Nat \ {0}
        /\ Len(Tail(tun)) = Len(tun) - 1
        /\ DOMAIN Tail(tun) = 1..(Len(tun) - 1)
        /\ \A i \in 1..(Len(tun) - 1) : Tail(tun)[i] = tun[i + 1]
        /\ DOMAIN tun = 1..Len(tun)
    BY <1>1, TailTyped
  <1>3. Head(tun).n = arrived - Len(tun) + 1
    BY <1>1, <1>2
  <1>4. Head(tun).n \in 1..MaxUp
    <2>1. Head(tun) \in Packets
      BY <1>1, TailTyped
    <2>2. QED
      BY <2>1 DEF Packets
  <1>5. ASSUME NEW i \in DOMAIN tun' PROVE tun'[i].n = arrived' - Len(tun') + i
    <2>1. i \in 1..(Len(tun) - 1) /\ i + 1 \in DOMAIN tun
      BY <1>2
    <2>2. tun'[i] = tun[i + 1]
      BY <1>2, <2>1
    <2>3. QED
      BY <1>1, <1>2, <2>1, <2>2
  <1>6. Len(tun') = Len(tun) - 1
    BY <1>2
  <1>7. Taken' = Taken \cup {Head(tun).n} /\ \A n \in Taken : n < Head(tun).n
    BY <1>1, <1>2, <1>3, <1>4, <1>6 DEF Taken
  <1>8. QED
    BY <1>3, <1>4, <1>5, <1>7

\* Each step keeps account of every packet.
LEMMA AccountNext == IInv /\ [Next]_alVars => NothingLost'
  <1> SUFFICES ASSUME IInv, [Next]_alVars PROVE NothingLost'
    OBVIOUS
  <1> USE DEF IInv
  <1>1. CASE UNCHANGED <<tunFd, tun, arrived, dropped, handed>>
    BY <1>1 DEF NothingLost, Taken
  <1>2. ASSUME NEW ok \in BOOLEAN, Initialise(ok) PROVE NothingLost'
    <2>1. tun = <<>> /\ arrived = 0 /\ dropped = {} /\ handed = <<>>
      BY <1>2 DEF Initialise, Unused
    <2>2. UNCHANGED <<tun, arrived, dropped, handed>>
      BY <1>2 DEF Initialise
    <2>3. QED
      BY <2>1, <2>2 DEF NothingLost, Taken
  <1>3. ASSUME NEW kind \in UpKinds, PacketArrives(kind) PROVE NothingLost'
    <2> DEFINE packet == [n |-> arrived + 1, kind |-> kind]
    <2>1. /\ packet \in Packets /\ packet.n = arrived + 1
          /\ tun' = Append(tun, packet) /\ arrived' = arrived + 1
          /\ UNCHANGED <<dropped, handed>> /\ tunFd = "open"
          /\ arrived \in Nat /\ tun \in Seq(Packets)
      BY <1>3, AlAssumption DEF PacketArrives, Packets, TypeOK
    <2> HIDE DEF packet
    <2>2. /\ Len(tun') = Len(tun) + 1 /\ Len(tun) \in Nat
          /\ DOMAIN tun' = 1..(Len(tun) + 1) /\ DOMAIN tun = 1..Len(tun)
          /\ \A i \in 1..Len(tun) : tun'[i] = tun[i]
          /\ tun'[Len(tun) + 1] = packet
      BY <2>1, AppendTyped
    <2>3. ASSUME NEW i \in DOMAIN tun' PROVE tun'[i].n = arrived' - Len(tun') + i
      <3>1. CASE i \in 1..Len(tun)
        BY <2>1, <2>2, <3>1 DEF NothingLost
      <3>2. CASE i = Len(tun) + 1
        BY <2>1, <2>2, <3>2
      <3>3. QED
        BY <2>2, <3>1, <3>2
    <2>4. Taken' = Taken
      BY <2>1, <2>2 DEF Taken
    <2>5. QED
      BY <2>1, <2>3, <2>4 DEF NothingLost
  <1>4. CASE ProcessDrop
    <2>1. /\ tun # <<>> /\ tun' = Tail(tun) /\ tunFd = "open"
          /\ dropped' = dropped \cup {Head(tun).n}
          /\ UNCHANGED <<arrived, handed>>
      BY <1>4 DEF ProcessDrop, Takes, Unused
    <2>2. /\ \A i \in DOMAIN tun' : tun'[i].n = arrived' - Len(tun') + i
          /\ Taken' = Taken \cup {Head(tun).n}
          /\ Head(tun).n \in Nat /\ \A n \in Taken : n < Head(tun).n
      BY <2>1, TakenNext DEF NothingLost
    <2>3. Head(tun).n \notin Taken
      BY <2>2 DEF Taken
    <2>4. QED
      BY <2>1, <2>2, <2>3 DEF NothingLost
  <1>5. ASSUME NEW accepted \in BOOLEAN, ProcessSend(accepted) PROVE NothingLost'
    <2>1. /\ tun # <<>> /\ tun' = Tail(tun) /\ tunFd = "open"
          /\ UNCHANGED <<arrived, dropped>>
      BY <1>5 DEF ProcessSend, Takes, Unused
    <2>2. /\ \A i \in DOMAIN tun' : tun'[i].n = arrived' - Len(tun') + i
          /\ Taken' = Taken \cup {Head(tun).n}
          /\ Head(tun).n \in Nat /\ \A n \in Taken : n < Head(tun).n
      BY <2>1, TakenNext DEF NothingLost
    <2>3. Head(tun).n \notin Taken
      BY <2>2 DEF Taken
    <2>4. PICK form \in DownForms(Head(tun).kind) \ {"drop"} :
            handed' = Append(handed, <<Head(tun).n, form>>)
      BY <1>5 DEF ProcessSend
    <2>5. /\ handed \in Seq((1..MaxUp) \X Forms)
          /\ <<Head(tun).n, form>> \in (1..MaxUp) \X Forms
      <3>1. Head(tun) \in Packets
        BY <2>1, TailTyped DEF TypeOK
      <3>2. QED
        BY <3>1, <2>4, FormsRange DEF Packets, TypeOK
    <2>6. /\ Len(handed) \in Nat /\ DOMAIN handed = 1..Len(handed)
          /\ DOMAIN handed' = 1..(Len(handed) + 1)
          /\ \A i \in 1..Len(handed) : handed'[i] = handed[i]
          /\ handed'[Len(handed) + 1] = <<Head(tun).n, form>>
      BY <2>4, <2>5, AppendTyped
    <2>7. \A i \in DOMAIN handed : handed[i][1] \in Taken
      BY <2>1 DEF NothingLost
    <2>8. {handed'[i][1] : i \in DOMAIN handed'}
            = {handed[i][1] : i \in DOMAIN handed} \cup {Head(tun).n}
      BY <2>6
    <2>9. \A i \in DOMAIN handed' : handed'[i][1] \notin dropped'
      BY <2>1, <2>3, <2>6 DEF NothingLost
    <2>10. \A i, j \in DOMAIN handed' : i < j => handed'[i][1] < handed'[j][1]
      BY <2>1, <2>2, <2>6, <2>7 DEF NothingLost
    <2>11. QED
      BY <2>1, <2>2, <2>8, <2>9, <2>10 DEF NothingLost
  <1>6. CASE Terminate
    BY <1>6 DEF Terminate, NothingLost
  <1>7. QED
    BY <1>1, <1>2, <1>3, <1>4, <1>5, <1>6
    DEF Next, Process, alVars, TunReceived, ProcessNothing, ProcessBusy,
        ProcessReadError, TransmissionResult, DataReceived

-----------------------------------------------------------------------------
\* The inductive invariant of the adaptation layer: the types, the agreement of
\* the flags with the SDK and the device, and the account of the packets.
THEOREM AlInvariance == Spec => []IInv
  <1>1. IInv /\ [Next]_alVars => IInv'
    BY TypeNext, FlagsNext, AccountNext DEF IInv
  <1>2. QED
    BY InitInv, <1>1, PTL DEF Spec

\* What is counted stays within its bounds, and nothing undecided leaves the layer.
THEOREM LayerTyped == Spec => []TypeOK
  BY AlInvariance, PTL DEF IInv

\* ONGOING_TRANSMISSION always agrees with the SDK: the layer is neither busy for
\* ever nor free too early.
THEOREM OngoingAgrees == Spec => []OngoingMatchesSdk
  BY AlInvariance, PTL DEF IInv

\* read() is called only when the device holds a packet.
THEOREM ReadNeverBlocks == Spec => []FlagMeansPacket
  BY AlInvariance, PTL DEF IInv

\* No packet of an open device is lost, repeated or reordered on the way down.
THEOREM AccountKept == Spec => []NothingLost
  BY AlInvariance, PTL DEF IInv

\* The SDK is given a packet only when it has reported the one before.
THEOREM GivenOneAtATime == Spec => OneAtATime
  <1>1. IInv /\ [Next]_alVars => [handed' # handed => ~netOwes]_alVars
    <2> SUFFICES ASSUME IInv, [Next]_alVars, handed' # handed PROVE ~netOwes
      OBVIOUS
    <2>1. PICK accepted \in BOOLEAN : ProcessSend(accepted)
      BY DEF Next, Process, alVars, Initialise, PacketArrives, TunReceived,
             ProcessNothing, ProcessBusy, ProcessReadError, ProcessDrop,
             TransmissionResult, DataReceived, Terminate
    <2>2. tunFd = "open" /\ "ongoing" \notin alEvent
      BY <2>1 DEF ProcessSend, Takes, IInv, Unused
    <2>3. QED
      BY <2>2 DEF IInv, OngoingMatchesSdk, TypeOK
  <1>2. QED
    BY <1>1, AlInvariance, PTL DEF Spec, OneAtATime

\* With OSCORE_PROXY_ENABLED and OSCORE_DROP_ON_ERROR no request or response passes
\* the proxy in the clear and nothing unverified does; a message of the messaging
\* layer may (schc_al.c:168-189, 233-247).
THEOREM FailsClosed == Spec => []ProxyFailsClosed
  <1>1. Init => ProxyFailsClosed
    BY DEF Init, ProxyFailsClosed
  <1>2. IInv /\ ProxyFailsClosed /\ [Next]_alVars => ProxyFailsClosed'
    <2> SUFFICES ASSUME IInv, ProxyFailsClosed, [Next]_alVars, OscoreProxy, DropOnError
                 PROVE  /\ \A i \in DOMAIN handed' : handed'[i][2] # "coap"
                        /\ \A i \in DOMAIN up' : up'[i][2] # "forged"
      BY DEF ProxyFailsClosed
    <2>1. CASE UNCHANGED <<handed, up>>
      BY <2>1 DEF ProxyFailsClosed
    <2>2. ASSUME NEW accepted \in BOOLEAN, ProcessSend(accepted)
          PROVE  /\ \A i \in DOMAIN handed' : handed'[i][2] # "coap"
                 /\ \A i \in DOMAIN up' : up'[i][2] # "forged"
      <3>1. PICK form \in DownForms(Head(tun).kind) \ {"drop"} :
              handed' = Append(handed, <<Head(tun).n, form>>)
        BY <2>2 DEF ProcessSend
      <3>2. Head(tun) \in Packets
        BY <2>2, TailTyped DEF ProcessSend, IInv, TypeOK
      <3>3. form \in Forms /\ form # "coap"
        BY <3>1, <3>2, FormsRange, AlAssumption DEF DownForms, Packets
      <3>4. /\ DOMAIN handed' = 1..(Len(handed) + 1) /\ DOMAIN handed = 1..Len(handed)
            /\ \A i \in 1..Len(handed) : handed'[i] = handed[i]
            /\ handed'[Len(handed) + 1] = <<Head(tun).n, form>> /\ Len(handed) \in Nat
        <4>1. <<Head(tun).n, form>> \in (1..MaxUp) \X Forms
          BY <3>2, <3>3 DEF Packets
        <4>2. QED
          BY <3>1, <4>1, AppendTyped DEF IInv, TypeOK
      <3>5. QED
        BY <2>2, <3>3, <3>4 DEF ProcessSend, ProxyFailsClosed
    <2>3. ASSUME NEW kind \in DownKinds, DataReceived(kind),
                 NEW form \in UpForms(kind), form # "drop",
                 up' = Append(up, <<received', form>>)
          PROVE  /\ \A i \in DOMAIN handed' : handed'[i][2] # "coap"
                 /\ \A i \in DOMAIN up' : up'[i][2] # "forged"
      <3>1. form \in Forms /\ form # "forged"
        BY <2>3, FormsRange, AlAssumption DEF UpForms
      <3>2. received' \in 1..MaxDown
        BY <2>3, AlAssumption DEF DataReceived, IInv, TypeOK
      <3>3. <<received', form>> \in (1..MaxDown) \X Forms
        BY <3>1, <3>2
      <3>4. /\ DOMAIN up' = 1..(Len(up) + 1) /\ DOMAIN up = 1..Len(up)
            /\ \A i \in 1..Len(up) : up'[i] = up[i]
            /\ up'[Len(up) + 1] = <<received', form>> /\ Len(up) \in Nat
        BY <2>3, <3>3, AppendTyped DEF IInv, TypeOK
      <3>5. ASSUME NEW i \in DOMAIN up' PROVE up'[i][2] # "forged"
        BY <3>1, <3>4 DEF ProxyFailsClosed
      <3>6. QED
        BY <2>3, <3>5 DEF DataReceived, ProxyFailsClosed
    <2>4. QED
      BY <2>1, <2>2, <2>3
      DEF Next, Process, alVars, Initialise, PacketArrives, TunReceived,
          ProcessNothing, ProcessBusy, ProcessReadError, ProcessDrop,
          TransmissionResult, DataReceived, Terminate
  <1>3. QED
    BY <1>1, <1>2, AlInvariance, PTL DEF Spec
=============================================================================
