---------------------------- MODULE OscoreProxy ----------------------------
(***************************************************************************)
(* One datagram through the OSCORE proxies of two workers: the part of     *)
(* schc_al_send_down and of schc_al_forward_up that SchcAl abstracts to    *)
(* the kind of a packet, on the octets of the datagram.  The workers'      *)
(* buffers are used in place.  uoscore is external: it keeps the first     *)
(* octet of a CoAP message, compresses the rest with its callback and      *)
(* calls aead() of libs/ascon_integration, which appends or checks a tag.  *)
(* What it may do besides is what tests/logs show it do: it leaves a       *)
(* message of the messaging layer alone, and it restores a notification    *)
(* with the value of its Observe option emptied.                           *)
(***************************************************************************)
EXTENDS NetUdp

CONSTANTS
  Payloads,     \* the UDP payloads offered
  Capacity,     \* octets of net_buffer behind the headers
  TagLen,       \* of the algorithm of the context: 4, OSCORE_ASCONAEAD128_32
  LenWidth,     \* 2^32: the values of a byte_array's length
  CipherOctets, \* what an octet of a ciphertext may be
  InnerDeltas   \* what inner compression adds to a length, or takes from it

ASSUME ProxyAssumption ==
  /\ {Capacity, TagLen, LenWidth} \subseteq Nat
  /\ TagLen < LenWidth /\ Capacity < LenWidth - TagLen
  /\ TagLen + 2 <= Capacity /\ Capacity < Word - UDP_HEADERS_BYTES
  /\ \A m \in Payloads : m \in Seq(Octets) /\ Len(m) <= Capacity
  /\ CipherOctets \subseteq Octets /\ InnerDeltas \subseteq Int

VARIABLES
  build,    \* the options of the build, both workers' alike
  offered,  \* the datagram read from the TUN device
  pkt,      \* the datagram in the buffer of the worker that has it
  plain,    \* history: the CoAP message an OSCORE message protects, if it does
  stage,    \* "tun", "link" between the workers, "out" of it, or "dropped"
  opened    \* history: the length given to ascon_aead_decrypt_trunc, if called

vars == <<build, offered, pkt, plain, stage, opened>>

Builds == [proxy : BOOLEAN, dropOnError : BOOLEAN, dropNonCoap : BOOLEAN]
Nothing == <<>>
Forged == <<-1>>
NotCalled == [size |-> 0, of |-> 0]

\* The datagram of a payload, as an IP stack builds it.
Datagram(payload) ==
  LET p == [version |-> 6, next |-> Udp, sum |-> 0, payload |-> payload,
            plen |-> UDP_HEADERS_BYTES + Len(payload),
            ulen |-> UDP_HEADERS_BYTES + Len(payload),
            size |-> HeaderBytes + Len(payload)]
  IN [p EXCEPT !.sum = IF SumOf(p, 0) = Word - 1 THEN Word - 1
                                                 ELSE Word - 1 - SumOf(p, 0)]

\* What else is routed to the device: no UDP, or a UDP length of zero.
Odd(payload) ==
  {[Datagram(payload) EXCEPT !.next = 58], [Datagram(payload) EXCEPT !.ulen = 0]}

Init ==
  /\ build \in Builds
  /\ \E payload \in Payloads : offered \in {Datagram(payload)} \cup Odd(payload)
  /\ pkt = offered /\ plain = Nothing /\ stage = "tun" /\ opened = NotCalled

-----------------------------------------------------------------------------
\* The octet behind the headers: of the message, or what the buffer held there.
First(p) == IF p.payload = <<>> THEN {0, 64} ELSE {p.payload[1]}

Drop == stage' = "dropped" /\ UNCHANGED <<pkt, plain>>

\* Mutant: the checksum is computed before the lengths are right.
RefreshedEarly(p, payload) ==
  update_ip6_udp_len(
    update_udp_checksum([p EXCEPT !.payload = payload,
                                  !.size = HeaderBytes + Len(payload)]),
    Len(payload))

\* The message was replaced by another: lengths, then the checksum over them.
Refreshed(p, payload) ==
  update_udp_checksum(
    update_ip6_udp_len([p EXCEPT !.payload = payload,
                                 !.size = HeaderBytes + Len(payload)],
                       Len(payload)))

\* coap_to_oscore of a message, when it succeeds: inner compression changes the
\* length, aead() appends the tag, and all of it fits in the buffer.
Protected(message) ==
  LET sizes == {Len(message) - 1 + d : d \in InnerDeltas}
  IN UNION {{<<message[1]>> \o cipher : cipher \in [1..n + TagLen -> CipherOctets]} :
              n \in {n \in sizes : n >= 0 /\ 1 + n + TagLen <= Capacity}}

\* schc_al_send_down, once read() has filled the buffer.
Discard ==
  /\ ~is_ipv6_udp_packet(pkt)
  /\ Drop

NotCoap ==
  /\ is_ipv6_udp_packet(pkt)
  /\ \E first \in First(pkt) : ~is_coap_packet(first, ipv6_udp_payload_len(pkt))
  /\ IF build.dropNonCoap THEN Drop ELSE stage' = "link" /\ UNCHANGED <<pkt, plain>>

IsCoap ==
  /\ is_ipv6_udp_packet(pkt)
  /\ \E first \in First(pkt) : is_coap_packet(first, ipv6_udp_payload_len(pkt))

Unproxied ==
  /\ IsCoap /\ ~build.proxy
  /\ stage' = "link" /\ UNCHANGED <<pkt, plain>>

Protect ==
  /\ IsCoap /\ build.proxy
  /\ \E payload \in Protected(pkt.payload) : pkt' = Refreshed(pkt, payload)
  /\ plain' = pkt.payload /\ stage' = "link"

\* coap_to_oscore of a message with no request or response code (60 00 9E 1B): it
\* may succeed without protecting anything, and DROP_ON_ERROR has no say.
LeaveAlone ==
  /\ IsCoap /\ build.proxy
  /\ Len(pkt.payload) >= 2 /\ pkt.payload[2] = 0
  /\ pkt' = Refreshed(pkt, pkt.payload)
  /\ stage' = "link" /\ UNCHANGED plain

\* coap_to_oscore fails, for want of room or otherwise.
ProtectFails ==
  /\ IsCoap /\ build.proxy
  /\ IF build.dropOnError THEN Drop
     ELSE pkt' = Refreshed(pkt, pkt.payload) /\ stage' = "link" /\ UNCHANGED plain

SendDown ==
  /\ stage = "tun"
  /\ Discard \/ NotCoap \/ Unproxied \/ Protect \/ LeaveAlone \/ ProtectFails
  /\ UNCHANGED <<build, offered, opened>>

-----------------------------------------------------------------------------
\* On the link another OSCORE message takes the place of this one: it has any
\* length, that of a first octet alone among them.
Forge ==
  /\ stage = "link" /\ plain # Nothing /\ opened = NotCalled
  /\ \E n \in 0..TagLen + 1 :
       pkt' = Refreshed(pkt, <<64>> \o [o \in 1..n |-> 0])
  /\ plain' = Forged
  /\ UNCHANGED <<build, offered, stage, opened>>

\* Mutant: the length without the tag is compared as a signed number.
FitsSigned(cipher, out) == out >= cipher - TagLen

\* aead(DECRYPT): the room for the plaintext, whose length is unsigned, so that a
\* ciphertext shorter than the tag asks for more room than there is.
Fits(cipher, out) == out >= (cipher - TagLen) % LenWidth

\* oscore_to_coap of an OSCORE message, up to the call of the cipher.
Opens ==
  /\ plain # Nothing
  /\ LET cipher == Len(pkt.payload) - 1 IN
     /\ Fits(cipher, Capacity)
     /\ opened' = [size |-> cipher - TagLen, of |-> cipher]

\* schc_al_forward_up.  Whether there is a message is told from the size of the
\* whole datagram.
DiscardUp ==
  /\ ~is_ipv6_udp_packet(pkt)
  /\ Drop /\ UNCHANGED opened

NotCoapUp ==
  /\ is_ipv6_udp_packet(pkt)
  /\ \E first \in First(pkt) : ~is_coap_packet(first, pkt.size)
  /\ IF build.dropNonCoap THEN Drop ELSE stage' = "out" /\ UNCHANGED <<pkt, plain>>
  /\ UNCHANGED opened

IsCoapUp ==
  /\ is_ipv6_udp_packet(pkt)
  /\ \E first \in First(pkt) : is_coap_packet(first, pkt.size)

\* Without the proxy, or for CO_NOT_OSCORE, the datagram is written as it is.
WriteUnchanged ==
  /\ IsCoapUp
  /\ build.proxy => plain = Nothing /\ ipv6_udp_payload_len(pkt) > 0
  /\ stage' = "out" /\ UNCHANGED <<pkt, plain, opened>>

\* The octets of a message that may be an option with a value of at most three
\* octets, as Observe has: where it starts, and the length of the value.
Options(message) ==
  {o \in (2..Len(message)) \X (1..3) :
     o[1] + o[2] <= Len(message) /\ message[o[1]] % 16 = o[2]}

\* The message without the value of an option: 61 01 becomes 60.
Emptied(message, o) ==
  SubSeq(message, 1, o[1] - 1) \o <<message[o[1]] - o[2]>>
    \o SubSeq(message, o[1] + o[2] + 1, Len(message))

\* What uoscore restores of a message: all of it, or a notification without the
\* value of Observe; which option that is, is its affair.
Restored(message) == {message} \cup {Emptied(message, o) : o \in Options(message)}

\* CO_SUCCESS: the tag verified and inner decompression restored the message.
Unprotect ==
  /\ IsCoapUp /\ build.proxy
  /\ Opens /\ plain # Forged
  /\ \E message \in Restored(plain) : pkt' = Refreshed(pkt, message)
  /\ stage' = "out" /\ UNCHANGED plain

\* Any other result.  A forged message does not verify; a genuine one may be refused
\* as well, before the cipher (too short, a replay) or after it (the first request
\* after a restart, CO_ECHO_ERROR; inner decompression; more than the room offered,
\* which is the length of the OSCORE message).
UnprotectFails ==
  /\ IsCoapUp /\ build.proxy
  /\ \/ Opens
     \/ plain # Nothing /\ UNCHANGED opened
     \/ plain = Nothing /\ ipv6_udp_payload_len(pkt) = 0 /\ UNCHANGED opened
  /\ Drop

ForwardUp ==
  /\ stage = "link"
  /\ DiscardUp \/ NotCoapUp \/ WriteUnchanged \/ Unprotect \/ UnprotectFails
  /\ UNCHANGED <<build, offered>>

\* The next datagram starts from Init.
Done ==
  /\ stage \in {"out", "dropped"}
  /\ UNCHANGED vars

Next == SendDown \/ Forge \/ ForwardUp \/ Done

Spec == Init /\ [][Next]_vars

-----------------------------------------------------------------------------
\* A datagram that was valid when it was read is valid when it is given to the SDK
\* and when it is written at the other end, whatever was put in place of its
\* payload: the lengths are refreshed before the checksum that covers them, and a
\* checksum of zero does not go out.
StaysValid == Valid(offered) /\ stage \in {"link", "out"} => Valid(pkt)

\* What comes out at the other end, although its payload was replaced twice, is the
\* datagram that went in, or, to the lengths and the checksum, the one an IP stack
\* builds of the message that uoscore restored; a message that does not verify never
\* comes out of a proxy.
ComesOutAsItWent ==
  stage = "out" =>
    \/ pkt = offered
    \/ build.proxy /\ pkt \in {Datagram(m) : m \in Restored(offered.payload)}

\* With DROP_NON_COAP nothing but CoAP reaches the other end; without it a valid
\* datagram that is not CoAP always does.  (One without a payload may not: what the
\* buffer holds behind the headers decides, schc_al.c:233.)
OthersByBuild ==
  Valid(offered) /\ offered.next = Udp /\ offered.payload # <<>>
    /\ offered.payload[1] \div 64 # 1 =>
      /\ stage = "out" => ~build.dropNonCoap
      /\ stage = "dropped" => build.dropNonCoap

\* The cipher is never run over more than the message: the tag and the text before
\* it lie within what arrived, for every length it may have.
OpensWithinMessage == opened # NotCalled => opened.size \in 0..opened.of
=============================================================================
