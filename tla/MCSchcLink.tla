---------------------------- MODULE MCSchcLink ----------------------------
(* The messages the tables are written for, and their neighbours: each field *)
(* takes the values the rules name and at least one other.                   *)
EXTENDS SchcLink

MCDeviceAddr == [prefix |-> <<"2001:db8::">>, iid |-> <<"::1">>, port |-> <<8000>>]
MCPeerAddr == [prefix |-> <<"2001:db8::">>, iid |-> <<"::2">>, port |-> <<8001>>]

Field(f, v) == <<f, 1>> :> v
\* The option is there with one of the values, or is not there.
Optional(f, vs) == {<<>>} \union {Field(f, v) : v \in vs}

Ip(end, flow, hop, class, from) ==
  LET src == Host(end)
      dst == Remote(end)
  IN Field("VERSION", <<6>>) @@ Field("TRAFFIC_CLASS", class)
     @@ Field("FLOW_LABEL", flow) @@ Field("PAYLOAD_LENGTH", Right)
     @@ Field("NEXT_HEADER", <<17>>) @@ Field("HOP_LIMIT", hop)
     @@ Field("PREFIX_DEV", src.prefix) @@ Field("IID_DEV", src.iid)
     @@ Field("PREFIX_APP", dst.prefix) @@ Field("IID_APP", dst.iid)
     @@ Field("PORT_DEV", from) @@ Field("PORT_APP", dst.port)
     @@ Field("UDP_LENGTH", Right) @@ Field("CHECKSUM", Right)

\* From the configured port or another, marked with a traffic class or not.
IpUdp(end) ==
  {Ip(end, <<"a">>, <<60>>, class, from) :
     class \in {<<0>>, <<4>>}, from \in {Host(end).port, <<40000>>}}

Coap(type, code, tkl, token) ==
  Field("COAP_VERSION", <<1>>) @@ Field("TYPE", type) @@ Field("CODE", code)
  @@ Field("TOKEN_LENGTH", tkl) @@ Field("MSG_ID", <<7, 8>>) @@ Field("TOKEN", token)

OscoreCoap ==
  {Coap(<<type>>, <<code>>, t[1], t[2]) @@ observe @@ oscore @@ path :
     type \in {"CON", "NON", "ACK"}, code \in {"POST", "FETCH", "CHANGED", "CONTENT"},
     t \in {<< <<2>>, <<3, 4>> >>, << <<4>>, <<1, 2, 3, 4>> >>},
     observe \in Optional("OBSERVE", {<<>>, <<1>>}),
     oscore \in Optional("OSCORE", {<<>>, <<9, 0>>, <<10, 0, 1>>}),
     path \in Optional("URI_PATH", {<<".well-known/edhoc">>})}

OuterMessages(end) ==
  {Ip(end, <<"a">>, <<60>>, <<0>>, Host(end).port) @@ coap : coap \in OscoreCoap}
    \union IpUdp(end)
    \union {ip @@ Coap(<<"NON">>, <<"CONTENT">>, <<2>>, <<3, 4>>) : ip \in IpUdp(end)}

TemplateMessages(end) ==
  {ip @@ Coap(<<type>>, <<"POST">>, <<0>>, <<>>) @@ Field("URI_PATH", <<"notifications">>)
      @@ (<<"URI_PATH", 2>> :> <<path>>) @@ format :
     ip \in IpUdp(end), type \in {"CON", "NON"}, path \in {"temp", "light"},
     format \in Optional("CONTENT_FORMAT", {<<60>>, <<50>>})}

Path(fid, segments) ==
  [k \in {<<fid, i>> : i \in DOMAIN segments} |-> <<segments[k[2]]>>]

Query(i, v) == <<"URI_QUERY", i>> :> v
Queries(lwm2m, name, lifetime) ==
  Query(1, <<lwm2m>>) @@ Query(2, <<"ep=demoMangoh", name>>) @@ Query(3, <<"b=U">>)
  @@ Query(4, <<"lt=", lifetime>>)

InnerMessages ==
  {Field("CODE", <<code>>) @@ path @@ format @@ accept @@ observe :
     code \in {"GET", "PUT", "POST", "DELETE", "CREATED", "CHANGED", "CONTENT",
               "DELETED", "EMPTY"},
     path \in {<<>>, Path("LOCATION_PATH", <<"rd", "5a3f">>)} \union
              {Path("URI_PATH", p) : p \in
                 {<<"rd", "5a3f">>, <<"3303", "0", "5700">>, <<"3311", "0", "5850">>,
                  <<"6", "0">>, <<"3", "0", "9">>, <<"3", "0", "7">>}},
     format \in Optional("CONTENT_FORMAT", {Tlv}),
     accept \in Optional("ACCEPT", {Tlv}),
     observe \in Optional("OBSERVE", {<<>>, <<1>>})}
  \union
  {Field("CODE", <<"POST">>) @@ Path("URI_PATH", <<"rd">>)
     @@ Field("CONTENT_FORMAT", <<40>>) @@ Queries(lwm2m, name, lifetime) :
     lwm2m \in {"lwm2m=1.1", "lwm2m=1.0"}, name \in 1..9,
     lifetime \in {300, 600, 7200, 86400}}

MCMessages(table, end) ==
  CASE table = "outer" -> OuterMessages(end)
    [] table = "template" -> TemplateMessages(end)
    [] OTHER -> InnerMessages
=============================================================================
