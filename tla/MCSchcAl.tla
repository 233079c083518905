------------------------------ MODULE MCSchcAl ------------------------------
(* SchcAl with three packets down and two up, of every kind.                 *)
EXTENDS SchcAl
MCUpKinds == {"coap", "empty", "udp", "other"}
MCDownKinds == {"oscore", "coap", "empty", "forged", "udp", "other"}
=============================================================================
