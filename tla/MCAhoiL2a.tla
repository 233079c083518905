----------------------------- MODULE MCAhoiL2a -----------------------------
(* AhoiL2a with a frame that is a packet, a fragment and one that is too     *)
(* large for the buffer.                                                     *)
EXTENDS AhoiL2a
MCKinds == {"oscore", "part", "large"}
=============================================================================
