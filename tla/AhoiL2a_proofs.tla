--------------------------- MODULE AhoiL2a_proofs ---------------------------
(***************************************************************************)
(* Proofs about AhoiL2a, for any frames and any number of them, and for    *)
(* any caller: the result of a fragment is known once until the SDK takes  *)
(* it, and no event is cleared before the SDK was told of it.              *)
(***************************************************************************)
EXTENDS AhoiL2a, TLAPS

\* A modem that was not reached yet has nothing under way.
L2Fresh == l2Fd = "unopened" => l2Event = {} /\ ~l2Owes /\ ~txDone

L2Inv == TypeOK /\ L2Fresh /\ ResultKnownOnce

LEMMA TypesKept ==
  ASSUME TypeOK, [Next]_l2Vars
  PROVE  TypeOK'
  <1> USE DEF TypeOK, L2Events
  <1>0. MaxFrames \in Nat /\ MaxL2Faults \in Nat
    BY L2Assumption
  <1>1. ASSUME NEW outcome \in {"ok", "noModem", "noSlot"}, Initialise(outcome)
        PROVE  TypeOK'
    BY <1>1 DEF Initialise
  <1>2. ASSUME NEW kind \in Kinds, FrameArrives(kind) PROVE TypeOK'
    <2>1. rx' \in Seq(Kinds)
      BY <1>2 DEF FrameArrives
    <2>2. frames' \in 0..MaxFrames
      BY <1>0, <1>2 DEF FrameArrives
    <2> QED
      BY <1>2, <2>1, <2>2 DEF FrameArrives
  <1>3. CASE SendFails
    BY <1>0, <1>3 DEF SendFails
  <1>4. CASE Process
    <2>1. rx' \in Seq(Kinds) /\ l2Faults' \in 0..MaxL2Faults
          /\ inbox' \in (Kinds \ {"large"}) \cup {"none", "error"}
      <3>1. CASE UNCHANGED <<rx, inbox, l2Faults>>
        BY <3>1
      <3>2. CASE ReadDownlink
        <4>1. rx # <<>> => Head(rx) \in Kinds /\ Tail(rx) \in Seq(Kinds)
          OBVIOUS
        <4>2. rx' = rx \/ (rx # <<>> /\ rx' = Tail(rx))
          BY <3>2 DEF ReadDownlink
        <4>3. inbox' \in (Kinds \ {"large"}) \cup {"none", "error"}
          BY <3>2, <4>1 DEF ReadDownlink
        <4>4. l2Faults' \in 0..MaxL2Faults
          BY <1>0, <3>2 DEF ReadDownlink
        <4> QED
          BY <4>1, <4>2, <4>3, <4>4
      <3> QED
        BY <1>4, <3>1, <3>2 DEF Process
    <2> QED
      BY <1>4, <2>1 DEF Process
  <1>5. CASE Deinit
    BY <1>5 DEF Deinit
  <1>6. CASE DownlinkAvailable \/ SendData \/ ResultTaken \/ FrameTaken
             \/ Requested \/ RequestTaken \/ UNCHANGED l2Vars
    BY <1>6 DEF DownlinkAvailable, SendData, ResultTaken, FrameTaken,
                Requested, RequestTaken, l2Vars
  <1> QED
    BY <1>1, <1>2, <1>3, <1>4, <1>5, <1>6 DEF Next

LEMMA InvKept ==
  ASSUME L2Inv, [Next]_l2Vars
  PROVE  L2Inv'
  <1> USE DEF L2Fresh, ResultKnownOnce
  <1>0. TypeOK'
    BY TypesKept DEF L2Inv
  <1>00. /\ {l2Owes, txDone} \subseteq BOOLEAN /\ L2Fresh /\ ResultKnownOnce
         /\ l2Fd \in {"unopened", "open", "closed"}
    BY DEF L2Inv, TypeOK
  <1> SUFFICES (L2Fresh /\ ResultKnownOnce)'
    BY <1>0 DEF L2Inv
  <1>1. ASSUME NEW outcome \in {"ok", "noModem", "noSlot"}, Initialise(outcome)
        PROVE  (L2Fresh /\ ResultKnownOnce)'
    BY <1>00, <1>1 DEF Initialise
  <1>2. CASE Process
    BY <1>00, <1>2 DEF Process
  <1>3. CASE DownlinkAvailable
    BY <1>00, <1>3 DEF DownlinkAvailable, Readable
  <1>4. CASE SendData
    BY <1>00, <1>4 DEF SendData
  <1>5. CASE ResultTaken
    BY <1>00, <1>5 DEF ResultTaken
  <1>6. CASE UNCHANGED <<l2Fd, l2Event, l2Owes, txDone>>
    BY <1>00, <1>6
  <1>7. CASE Deinit
    BY <1>00, <1>7 DEF Deinit
  <1> QED
    BY <1>1, <1>2, <1>3, <1>4, <1>5, <1>6, <1>7
    DEF Next, FrameArrives, SendFails, FrameTaken, Requested,
        RequestTaken, l2Vars

LEMMA Invariance == Spec => []L2Inv
  <1>1. Init => L2Inv
    <2> SUFFICES ASSUME Init PROVE L2Inv
      OBVIOUS
    <2>1. MaxFrames \in Nat /\ MaxL2Faults \in Nat /\ <<>> \in Seq(Kinds)
      BY L2Assumption
    <2>2. TypeOK
      <3>1. frames \in 0..MaxFrames /\ l2Faults \in 0..MaxL2Faults
        BY <2>1 DEF Init
      <3>2. {request, connected, l2Owes, txDone} \subseteq BOOLEAN
        BY Zenon DEF Init
      <3> QED
        BY <2>1, <3>1, <3>2, Zenon DEF Init, TypeOK, L2Events
    <2> QED
      BY <2>2 DEF Init, L2Inv, L2Fresh, ResultKnownOnce
  <1>2. QED
    BY <1>1, InvKept, PTL DEF Spec

(***************************************************************************)
(* Types of the L2: a frame that does not fit the SDK's buffer is handed   *)
(* over as an error, never as one that was received.                       *)
(***************************************************************************)
THEOREM L2Typed == Spec => []TypeOK
  BY Invariance, PTL DEF L2Inv

(***************************************************************************)
(* The result of a fragment is in the event flag or in the SDK's record,   *)
(* and in one of them only, until the SDK takes it.                        *)
(***************************************************************************)
THEOREM ResultKept == Spec => []ResultKnownOnce
  BY Invariance, PTL DEF L2Inv

(***************************************************************************)
(* l2a_process clears its events in one store, and none before the SDK was *)
(* told of it.                                                             *)
(***************************************************************************)
THEOREM ToldOfEvents == Spec => EventsActedOn
  <1>1. ASSUME L2Inv, [Next]_l2Vars
        PROVE  [/\ "connectivity" \in l2Event \ l2Event' => connected'
                /\ "txResult" \in l2Event \ l2Event' => txDone'
                /\ "downlink" \in l2Event \ l2Event' => inbox' # "none"]_l2Vars
    <2>1. CASE Process
      <3>1. "downlink" \in l2Event => ReadDownlink
        BY <2>1 DEF Process
      <3>2. rx # <<>> => Head(rx) # "none"
        BY <1>1, L2Assumption DEF L2Inv, TypeOK
      <3>3. "downlink" \in l2Event => inbox' # "none"
        BY <3>1, <3>2 DEF ReadDownlink
      <3> QED
        BY <2>1, <3>3 DEF Process
    <2>2. ASSUME NEW outcome \in {"ok", "noModem", "noSlot"}, Initialise(outcome)
          PROVE  l2Event \ l2Event' = {}
      BY <1>1, <2>2 DEF Initialise, L2Inv, L2Fresh
    <2>3. CASE l2Event \ l2Event' = {}
      BY <2>3
    <2> QED
      BY <1>1, <2>1, <2>2, <2>3
      DEF Next, FrameArrives, DownlinkAvailable, SendData, SendFails,
          ResultTaken, FrameTaken, Requested, RequestTaken, Deinit
  <1>2. QED
    BY <1>1, Invariance, PTL DEF Spec, EventsActedOn
=============================================================================
