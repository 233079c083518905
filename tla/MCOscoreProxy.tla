--------------------------- MODULE MCOscoreProxy ---------------------------
(* CoAP and other payloads of even and odd lengths.  The sums of addresses *)
(* and ports make some checksums 0xFFFF and some sums carry twice.  Three  *)
(* messages have what may be an option with a value, one of one octet or   *)
(* two.                                                                    *)
EXTENDS OscoreProxy

MCPayloads ==
  {<<>>, <<66, 97, 1>>, <<66, 69, 97, 1>>, <<66, 69, 98, 0, 255>>} \cup {<<first>> \o rest :
     first \in {0, 64}, rest \in UNION {[1..n -> {0, 255}] : n \in 0..2}}
MCInnerDeltas == {-2, 1}
=============================================================================
