------------------------------ MODULE SchcLink ------------------------------
(***************************************************************************)
(* A message compressed by one worker and decompressed by the other, with  *)
(* the rules of SchcRules and the configuration of the two ends in main.c, *)
(* and carried in fragments with the profiles of FragProfiles.             *)
(* Which rule the SDK uses when several apply, and in what order it tries  *)
(* them, is left open.                                                     *)
(***************************************************************************)
EXTENDS SchcRules, FragProfiles, FiniteSets

CONSTANTS
  DeviceAddr,     \* IPv6_PREFIX, IPv6_IID, UDP_HOST_PORT: prefix, iid and port
  PeerAddr,       \* IPv6_PEER_PREFIX, IPv6_PEER_IID, UDP_PEER_PORT
  Messages(_, _)  \* the messages an end sends with a table of rules

Tables == {"outer", "inner", "plain", "template"}
Ends == {"device", "peer"}

\* What the stack of an end builds: addresses and ports are there once, lengths and
\* checksums agree with the packet, and an option of CoAP is octets.
IsMessage(m) ==
  /\ \A k \in DOMAIN m : k = <<k[1], k[2]>> /\ (Mirror(k[1]) # k[1] => k[2] = 1)
  /\ \A f \in {"PAYLOAD_LENGTH", "UDP_LENGTH", "CHECKSUM"} :
       <<f, 1>> \in DOMAIN m => m[<<f, 1>>] = Right
  /\ <<"OSCORE", 1>> \in DOMAIN m => m[<<"OSCORE", 1>>] \in Seq(Nat)

ASSUME LinkAssumption ==
  \A table \in Tables, end \in Ends : \A m \in Messages(table, end) : IsMessage(m)

VARIABLES
  rules,    \* the table in use: "outer", "inner", "plain" or "template"
  sender,   \* the end that sends, "device" or "peer"
  sent,     \* the message, as the sender names its fields
  frame,    \* what is on the link
  carried,  \* the profile its fragments are sent with, and the library it is of
  got       \* the message the other end restored, as the sender names its fields

vars == <<rules, sender, sent, frame, carried, got>>

None == [id |-> "none"]
Whole == [api |-> "none"]
NoMessage == <<"none", 0>> :> <<>>
Other(end) == CHOOSE e \in Ends : e # end

-----------------------------------------------------------------------------
\* Mutant: the branch for SCHC_PEER_MODE does not exchange the addresses.
SameHost(end) == DeviceAddr

\* net_set_host_static_ip and _port, as main() calls them in either mode.
Host(end) == IF end = "device" THEN DeviceAddr ELSE PeerAddr

\* net_set_remote_static_ip and _port.
Remote(end) == IF end = "device" THEN PeerAddr ELSE DeviceAddr

\* sdk_mode, as main() sets it.
Mode(end) == IF end = "device" THEN "SDK_DEVICE_MODE" ELSE "SDK_APP_MODE"

\* The profiles of an end that send, or receive, with the library both are built
\* with.
ProfilesThat(api, end, direction) ==
  LET profiles == mgt_load_profiles(api, Mode(end))
  IN {profiles[k] : k \in {k \in 1..2 : profiles[k].direction = direction}}

\* The table loaded at an end: the rules of mgt_enable_extension_api, of the
\* template, of get_orange_labs_inner_rules, or none, as in get_inner_rules.
Table(end) ==
  CASE rules = "outer" -> OuterRules(Host(end), Remote(end))
    [] rules = "template" -> TemplateRules(Host(end), Remote(end))
    [] rules = "inner" -> InnerRules
    [] rules = "plain" -> <<>>

\* NO_COMP_RULE_ID of each table.
DefaultId == IF rules = "plain" THEN 28 ELSE 150

Applicable == {i \in DOMAIN Table(sender) : Applies(Table(sender)[i], sent)}

Init ==
  /\ rules \in Tables
  /\ sender \in Ends
  /\ sent \in Messages(rules, sender)
  /\ frame = None /\ carried = Whole /\ got = NoMessage

\* The message is compressed with a rule that applies.
Compress ==
  /\ frame = None
  /\ \E i \in Applicable : frame' = Compressed(Table(sender)[i], sent)
  /\ UNCHANGED <<rules, sender, sent, carried, got>>

\* No rule applies: the message is sent whole behind the default identifier.  (The
\* outer rule 61 takes any CoAP message between the two ends.)
CompressNot ==
  /\ frame = None /\ Applicable = {}
  /\ frame' = [id |-> DefaultId, residue |-> <<>>, payload |-> sent]
  /\ UNCHANGED <<rules, sender, sent, carried, got>>

\* What does not fit in a frame of the L2 goes in fragments, with the profile of the
\* sender's direction.
Fragment ==
  /\ frame # None /\ carried = Whole /\ got = NoMessage
  /\ \E api \in Apis : \E profile \in ProfilesThat(api, sender, "UP") :
       carried' = [api |-> api, profile |-> profile]
  /\ UNCHANGED <<rules, sender, sent, frame, got>>

\* The other end can put fragments together with a profile for that direction.
Arrives ==
  carried # Whole =>
    \E profile \in ProfilesThat(carried.api, Other(sender), "DOWN") :
      profile.rule_id = carried.profile.rule_id

\* The other end restores the message with its rule of that identifier.
Decompress ==
  /\ frame # None /\ got = NoMessage /\ Arrives
  /\ LET table == Table(Other(sender)) IN
     \E i \in {i \in DOMAIN table : table[i].id = frame.id} :
       got' = AtOtherEnd(Decompressed(table[i], frame))
  /\ UNCHANGED <<rules, sender, sent, frame, carried>>

\* The default identifier is removed (for "plain", by
\* mgt_ext_oscore_inner_decompression when the SDK finds no rule).
DecompressNot ==
  /\ frame # None /\ got = NoMessage /\ Arrives
  /\ frame.id = DefaultId
  /\ got' = frame.payload
  /\ UNCHANGED <<rules, sender, sent, frame, carried>>

\* The message is delivered; the next one starts from Init.
Done ==
  /\ got # NoMessage
  /\ UNCHANGED vars

Next == Compress \/ CompressNot \/ Fragment \/ Decompress \/ DecompressNot \/ Done

Spec == Init /\ [][Next]_vars

-----------------------------------------------------------------------------
\* The fields whose value the rules give up, with MO_IGNORE and CDA_NOT_SENT.
GivenUp == {<<"FLOW_LABEL", 1>>, <<"HOP_LIMIT", 1>>}

\* Whichever rule is used, the other end restores the fields and values that were
\* sent, the flow label and the hop limit apart: the two ends' tables agree, each
\* taking itself for the device, no two rules share an identifier, and what an
\* entry does not send is what it compared.
Restores ==
  got # NoMessage =>
    /\ DOMAIN got = DOMAIN sent
    /\ \A k \in DOMAIN sent \ GivenUp : got[k] = sent[k]

\* Rules of one stack that apply to the same message send the same of it, so that
\* the order in which they are tried makes no difference.
SameResidue ==
  \A i, j \in Applicable :
    Table(sender)[i].stack = Table(sender)[j].stack =>
      Compressed(Table(sender)[i], sent).residue = Compressed(Table(sender)[j], sent).residue

\* The fragments of either end mean at the other what they mean at their sender:
\* each end sends with one profile, the other has one profile of that rule to
\* receive with, laid out alike, and does not give up before the sender has asked
\* for the last acknowledgement.
FragmentsUnderstood ==
  carried # Whole =>
    LET sends == ProfilesThat(carried.api, sender, "UP")
        receives == ProfilesThat(carried.api, Other(sender), "DOWN")
        Layout(p) == [k \in DOMAIN p \ {"direction"} |-> p[k]]
    IN /\ Cardinality(sends) = 1
       /\ {Layout(p) : p \in receives} = {Layout(p) : p \in sends}
       /\ carried.api = "aa" =>
            carried.profile.max_ack_requests * carried.profile.ack_req_dn_opportunity
              * carried.profile.ack_rt_exp_time < carried.profile.it_exp_time
=============================================================================
