----------------------------- MODULE SchcRules -----------------------------
(***************************************************************************)
(* The compression rules of libs/schc_comp_apis/oscore_basic and of        *)
(* templates/lpwan_scenario_coap_template.c, and what applying a rule does.*)
(*                                                                         *)
(* A message is a function from fields, <<FID, position>>, to values; a    *)
(* value is a sequence of tokens (bytes, names).  A rule has a function     *)
(* from fields to entries.  The order of bits in a residue is left out: it *)
(* is kept by field.  What the tables' matching operators and actions mean *)
(* is decided in the SDK and taken from RFC 8724 (external).               *)
(***************************************************************************)
EXTENDS Maps, Integers, Sequences

\* The fields that name one end or the other: a packet's source is the device's
\* field (DEV) for the end that sends it, and the application's (APP) for the
\* end that receives it, whatever the mode of the two: main.c and schc_core.c
\* give each end its own address as the device's.
Mirror(fid) ==
  CASE fid = "PREFIX_DEV" -> "PREFIX_APP" [] fid = "PREFIX_APP" -> "PREFIX_DEV"
    [] fid = "IID_DEV" -> "IID_APP"       [] fid = "IID_APP" -> "IID_DEV"
    [] fid = "PORT_DEV" -> "PORT_APP"     [] fid = "PORT_APP" -> "PORT_DEV"
    [] OTHER -> fid

MirrorField(k) == <<Mirror(k[1]), k[2]>>

\* A message as the other end names its fields.
AtOtherEnd(m) == [k \in {MirrorField(j) : j \in DOMAIN m} |-> m[MirrorField(k)]]

-----------------------------------------------------------------------------
\* rule_field_t: a field, what it must be (MO) and what is sent of it (CDA).
Entry(fid, pos, mo, cda, tv) == <<fid, pos>> :> [mo |-> mo, cda |-> cda, tv |-> tv]

NotSent(fid, pos, tv) == Entry(fid, pos, "equal", "not_sent", tv)
Ignored(fid, pos, tv) == Entry(fid, pos, "ignore", "not_sent", tv)
ValueSent(fid, pos) == Entry(fid, pos, "ignore", "value_sent", <<>>)
Computed(fid) == Entry(fid, 1, "ignore", "compute", <<>>)
MostSignificant(fid, tv) == Entry(fid, 1, "msb", "lsb", tv)
Mapped(fid, pos, tvs) == Entry(fid, pos, "mapping", "mapping_sent", tvs)

\* init_rule and add_rule_field.
Rule(id, stack, entries) == [id |-> id, stack |-> stack, entries |-> entries]

-----------------------------------------------------------------------------
\* A length or checksum that agrees with the packet, which is what is computed.
Right == <<"right">>

IpUdpFields == {<<f, 1>> : f \in {"VERSION", "TRAFFIC_CLASS", "FLOW_LABEL",
  "PAYLOAD_LENGTH", "NEXT_HEADER", "HOP_LIMIT", "PREFIX_DEV", "IID_DEV",
  "PREFIX_APP", "IID_APP", "PORT_DEV", "PORT_APP", "UDP_LENGTH", "CHECKSUM"}}

\* The fields a rule has to account for: a rule for IPv6 and UDP leaves CoAP in the
\* payload.
Header(rule, m) == IF rule.stack = "ipv6_udp" THEN DOMAIN m \intersect IpUdpFields
                                              ELSE DOMAIN m

Matches(e, v) ==
  CASE e.mo = "equal" -> v = e.tv
    [] e.mo = "ignore" -> TRUE
    [] e.mo = "msb" -> /\ Len(v) >= Len(e.tv)
                       /\ SubSeq(v, 1, Len(e.tv)) = e.tv
    [] e.mo = "mapping" -> \E i \in DOMAIN e.tv : e.tv[i] = v

Applies(rule, m) ==
  /\ DOMAIN rule.entries = Header(rule, m)
  /\ \A k \in DOMAIN rule.entries : Matches(rule.entries[k], m[k])

\* What is sent of a value, and the value restored from what was sent.
Residue(e, v) ==
  CASE e.cda = "value_sent" -> v
    [] e.cda = "lsb" -> SubSeq(v, Len(e.tv) + 1, Len(v))
    [] e.cda = "mapping_sent" -> CHOOSE i \in DOMAIN e.tv : e.tv[i] = v

Restored(e, sent) ==
  CASE e.cda = "value_sent" -> sent
    [] e.cda = "lsb" -> e.tv \o sent
    [] e.cda = "mapping_sent" -> e.tv[sent]

Elided(e) == IF e.cda = "compute" THEN Right ELSE e.tv

SentFields(rule) ==
  {k \in DOMAIN rule.entries : rule.entries[k].cda \notin {"not_sent", "compute"}}

Compressed(rule, m) ==
  [id |-> rule.id,
   residue |-> [k \in SentFields(rule) |-> Residue(rule.entries[k], m[k])],
   payload |-> [k \in DOMAIN m \ DOMAIN rule.entries |-> m[k]]]

Decompressed(rule, frame) ==
  [k \in DOMAIN rule.entries \union DOMAIN frame.payload |->
     IF k \in SentFields(rule) THEN Restored(rule.entries[k], frame.residue[k])
     ELSE IF k \in DOMAIN rule.entries THEN Elided(rule.entries[k])
     ELSE frame.payload[k]]

-----------------------------------------------------------------------------
\* add_ip_fields, and the same in the template with other values.
IpFields(host, remote, flow, hop) ==
  NotSent("VERSION", 1, <<6>>) @@ NotSent("TRAFFIC_CLASS", 1, <<0>>)
  @@ Ignored("FLOW_LABEL", 1, flow) @@ Computed("PAYLOAD_LENGTH")
  @@ NotSent("NEXT_HEADER", 1, <<17>>) @@ Ignored("HOP_LIMIT", 1, hop)
  @@ NotSent("PREFIX_DEV", 1, host.prefix) @@ NotSent("IID_DEV", 1, host.iid)
  @@ NotSent("PREFIX_APP", 1, remote.prefix) @@ NotSent("IID_APP", 1, remote.iid)

\* add_udp_fields, and the same in the template.
UdpFields(host, remote) ==
  NotSent("PORT_DEV", 1, host.port) @@ NotSent("PORT_APP", 1, remote.port)
  @@ Computed("UDP_LENGTH") @@ Computed("CHECKSUM")

\* rule_field_14 to rule_field_19: the CoAP header, with a token of two bytes.
CoapHeader(type, code) ==
  NotSent("COAP_VERSION", 1, <<1>>) @@ NotSent("TYPE", 1, <<type>>)
  @@ NotSent("TOKEN_LENGTH", 1, <<2>>) @@ NotSent("CODE", 1, <<code>>)
  @@ ValueSent("MSG_ID", 1) @@ ValueSent("TOKEN", 1)

\* Mutant: the first byte of the option is taken for known and not compared.
AnyOscoreRequest == Entry("OSCORE", 1, "ignore", "lsb", <<9>>)

\* The OSCORE option of a request, rule_field_21_request, and of a response; the
\* observe option without a number, rule_field_20_observe.
OscoreRequest == MostSignificant("OSCORE", <<9>>)
OscoreResponse == NotSent("OSCORE", 1, <<>>)
EmptyObserve == NotSent("OBSERVE", 1, <<>>)

\* Mutant: a notification is taken to have the type of a response.
AckNotification ==
  CoapHeader("ACK", "CONTENT") @@ ValueSent("OBSERVE", 1) @@ ValueSent("OSCORE", 1)

Notification ==
  CoapHeader("NON", "CONTENT") @@ ValueSent("OBSERVE", 1) @@ ValueSent("OSCORE", 1)

\* get_orangelabs_outer_rules.
OuterRules(host, remote) ==
  LET IpUdp == IpFields(host, remote, <<"12345">>, <<64>>) @@ UdpFields(host, remote)
      Coap(id, entries) == Rule(id, "ipv6_udp_coap", IpUdp @@ entries)
  IN << Coap(56, CoapHeader("CON", "POST") @@ OscoreRequest),
        Coap(57, CoapHeader("ACK", "CHANGED") @@ OscoreResponse),
        Coap(58, CoapHeader("CON", "FETCH") @@ EmptyObserve @@ OscoreRequest),
        Coap(59, CoapHeader("ACK", "CONTENT") @@ EmptyObserve @@ OscoreResponse),
        Coap(60, Notification),
        Coap(69, CoapHeader("CON", "POST")
                   @@ NotSent("URI_PATH", 1, <<".well-known/edhoc">>)),
        Coap(70, CoapHeader("ACK", "CHANGED")),
        Rule(61, "ipv6_udp", IpUdp) >>

\* The fields for IPv6 and UDP of tpl_get_template_rules, with dev_ip and dev_port,
\* the sender's own, as its application sets them.
TemplateIpUdp(host, remote) ==
  IpFields(host, remote, <<"0">>, <<255>>) @@ UdpFields(host, remote)

\* tpl_get_template_rules.
TemplateRules(host, remote) ==
  << Rule(28, "ipv6_udp_coap",
       TemplateIpUdp(host, remote)
       @@ NotSent("COAP_VERSION", 1, <<1>>) @@ NotSent("TYPE", 1, <<"CON">>)
       @@ NotSent("TOKEN_LENGTH", 1, <<0>>) @@ NotSent("CODE", 1, <<"POST">>)
       @@ ValueSent("MSG_ID", 1) @@ NotSent("TOKEN", 1, <<>>)
       @@ NotSent("URI_PATH", 1, <<"notifications">>)
       @@ NotSent("URI_PATH", 2, <<"temp">>) @@ NotSent("CONTENT_FORMAT", 1, <<60>>)) >>

-----------------------------------------------------------------------------
InnerRule(id, code, entries) ==
  Rule(id, "oscore_plaintext", NotSent("CODE", 1, <<code>>) @@ entries)

\* The names and lifetimes of get_rule_40.
Names == [i \in 1..8 |-> <<"ep=demoMangoh", i>>]
Lifetimes == [i \in 1..8 |->
  <<"lt=", <<300, 500, 1000, 2000, 3600, 7200, 10000, 86400>>[i]>>]

UriPath(segments) ==
  [k \in {<<"URI_PATH", i>> : i \in DOMAIN segments} |->
     [mo |-> "equal", cda |-> "not_sent", tv |-> <<segments[k[2]]>>]]

Nothing == <<>>
Tlv == <<45, 22>>       \* LWM2M_TLV

\* "rd", then a location of LOCATION_PATH_LEN bytes; a message is taken to have a
\* value of the field's length.
Location(fid) == NotSent(fid, 1, <<"rd">>) @@ ValueSent(fid, 2)

\* get_rule_40.
Registration == InnerRule(40, "POST",
  UriPath(<<"rd">>) @@ NotSent("CONTENT_FORMAT", 1, <<40>>)
  @@ NotSent("URI_QUERY", 1, <<"lwm2m=1.1">>) @@ Mapped("URI_QUERY", 2, Names)
  @@ NotSent("URI_QUERY", 3, <<"b=U">>) @@ Mapped("URI_QUERY", 4, Lifetimes))

\* get_rule_41 to get_rule_43.
RegistrationRules == <<
  InnerRule(41, "CREATED", Location("LOCATION_PATH")),
  InnerRule(42, "POST", Location("URI_PATH")),
  InnerRule(43, "CHANGED", Nothing) >>

\* get_rule_44 and get_rule_45.
StatusRules == <<
  InnerRule(44, "GET", UriPath(<<"3303", "0", "5700">>) @@ NotSent("ACCEPT", 1, Tlv)),
  InnerRule(45, "CONTENT", NotSent("CONTENT_FORMAT", 1, Tlv)) >>

\* get_rule_46 to get_rule_48.
LightRules == <<
  InnerRule(46, "PUT",
    UriPath(<<"3311", "0", "5850">>) @@ NotSent("CONTENT_FORMAT", 1, Tlv)),
  InnerRule(47, "CHANGED", Nothing),
  InnerRule(48, "GET", UriPath(<<"3311", "0", "5850">>) @@ NotSent("ACCEPT", 1, Tlv)) >>

\* get_rule_50 to get_rule_52.
ObserveRules == <<
  InnerRule(50, "GET", UriPath(<<"6", "0">>) @@ EmptyObserve @@ NotSent("ACCEPT", 1, Tlv)),
  InnerRule(51, "CONTENT", EmptyObserve @@ NotSent("CONTENT_FORMAT", 1, Tlv)),
  InnerRule(52, "GET", UriPath(<<"3", "0", "9">>) @@ NotSent("ACCEPT", 1, Tlv)) >>

\* get_rule_53 to get_rule_56.
EndRules == <<
  InnerRule(53, "POST", Location("URI_PATH")),
  InnerRule(54, "EMPTY", Nothing),
  InnerRule(55, "DELETE", Location("URI_PATH")),
  InnerRule(56, "DELETED", Nothing) >>

\* get_orange_labs_inner_rules.
InnerRules ==
  <<Registration>> \o RegistrationRules \o StatusRules \o LightRules \o ObserveRules
    \o EndRules
=============================================================================
