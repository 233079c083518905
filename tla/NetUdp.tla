------------------------------- MODULE NetUdp -------------------------------
(***************************************************************************)
(* IPv6 and UDP, libs/net/src/udp.c.  A packet is a record of the header   *)
(* fields the code looks at, its size in the buffer and its UDP payload as *)
(* octets; addresses and ports are known by the sum of their words.        *)
(***************************************************************************)
EXTENDS Integers, Sequences

CONSTANTS
  AddressSum,   \* the sum of the 16 words of the two addresses
  PortSum       \* the sum of the two ports

ASSUME NetAssumption == AddressSum \in Nat /\ PortSum \in Nat

IPv6_HEADERS_BYTES == 40
UDP_HEADERS_BYTES == 8
HeaderBytes == IPv6_HEADERS_BYTES + UDP_HEADERS_BYTES
Udp == 17
Octets == 0..255
Word == 65536       \* 2^16: the values of a field of 16 bits

-----------------------------------------------------------------------------
is_ipv6_udp_packet(p) == p.size >= HeaderBytes /\ p.version = 6 /\ p.next = Udp

\* An octet as a part of a big-endian word, the last one of an odd number padded with
\* zero.
Weighed(octets, n) == IF n % 2 = 1 THEN octets[n] * 256 ELSE octets[n]

\* csum_add.
CsumAdd(sum, octets) ==
  LET upTo[n \in 0..Len(octets)] ==
        IF n = 0 THEN sum ELSE upTo[n - 1] + Weighed(octets, n)
  IN upTo[Len(octets)]

\* Carries are added back until none is left.
Folded[sum \in Nat] ==
  IF sum < Word THEN sum ELSE Folded[(sum % Word) + (sum \div Word)]

\* The UDP length is in the pseudo-header and in the UDP header.
SumOf(p, checksum) ==
  Folded[CsumAdd(AddressSum + p.ulen + Udp + PortSum + p.ulen + checksum,
                 SubSeq(p.payload, 1, p.ulen - UDP_HEADERS_BYTES))]

\* Mutant: a checksum of zero is left.
PlainChecksum(p) == Word - 1 - SumOf(p, 0)

\* The complement of the sum, 0xFFFF in place of zero, which means "no checksum".
udp_checksum(p) ==
  IF SumOf(p, 0) = Word - 1 THEN Word - 1 ELSE Word - 1 - SumOf(p, 0)

update_udp_checksum(p) == [p EXCEPT !.sum = udp_checksum(p)]

\* Mutant: the payload length of the IPv6 header leaves the UDP header out.
ShortPayloadLen(p, size) ==
  [p EXCEPT !.plen = size % Word,
            !.ulen = (UDP_HEADERS_BYTES + size) % Word]

update_ip6_udp_len(p, size) ==
  [p EXCEPT !.plen = (UDP_HEADERS_BYTES + size) % Word,
            !.ulen = (UDP_HEADERS_BYTES + size) % Word]

ipv6_udp_payload_len(p) ==
  IF p.ulen < UDP_HEADERS_BYTES THEN 0 ELSE p.ulen - UDP_HEADERS_BYTES

\* Mutant: only the highest bit is looked at.
AnyLowVersion(first, len) == len >= 1 /\ first \div 128 = 0

\* The two highest bits of the first octet are 01.  "first" is the octet behind the
\* headers, which the code looks at when it is told that there is one.
is_coap_packet(first, len) == len >= 1 /\ first \div 64 = 1

-----------------------------------------------------------------------------
\* What the receiver of a datagram asks of it (RFC 8200): the lengths agree with
\* what arrived, there is a checksum, and everything adds up to 0xFFFF.
Valid(p) ==
  /\ p.plen = p.size - IPv6_HEADERS_BYTES /\ p.ulen = p.plen
  /\ Len(p.payload) = p.ulen - UDP_HEADERS_BYTES
  /\ p.sum # 0 /\ SumOf(p, p.sum) = Word - 1
=============================================================================
