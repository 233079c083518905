------------------------------- MODULE Base64 -------------------------------
(***************************************************************************)
(* platforms/linux/src/base64.c.  A character is its index in b64chars;    *)
(* Pad stands for '=' and every higher number for a character that is not  *)
(* of the alphabet.                                                        *)
(***************************************************************************)
EXTENDS Integers, Sequences

Pad == 64
NoBytes == <<-1>>   \* NULL

b64_encoded_size(len) == ((len + 2) \div 3) * 4

\* Mutant: a missing octet is not shifted in.
SextetUnshifted(in, g, k) ==
  LET At(n) == IF n < Len(in) THEN in[n + 1] ELSE 0
      v == IF 3 * g + 2 < Len(in)
           THEN At(3 * g) * 256 ^ 2 + At(3 * g + 1) * 256 + At(3 * g + 2)
           ELSE At(3 * g) * 256 + At(3 * g + 1)
  IN IF k >= 2 /\ 3 * g + k - 1 >= Len(in) THEN Pad
     ELSE (v \div 64 ^ (3 - k)) % 64

\* Character k of group g: six bits of three octets, those past the end zero, or
\* the padding when no octet reaches it.
Sextet(in, g, k) ==
  LET At(n) == IF n < Len(in) THEN in[n + 1] ELSE 0
      v == At(3 * g) * 256 ^ 2 + At(3 * g + 1) * 256 + At(3 * g + 2)
  IN IF k >= 2 /\ 3 * g + k - 1 >= Len(in) THEN Pad
     ELSE (v \div 64 ^ (3 - k)) % 64

b64_encode(in) ==
  IF in = <<>> THEN NoBytes
  ELSE [j \in 1..b64_encoded_size(Len(in)) |-> Sextet(in, (j - 1) \div 4, (j - 1) % 4)]

b64_isvalidchar(c) == c <= Pad

\* Padding is counted from the end back.
b64_decoded_size(in) ==
  LET n == Len(in)
      pads == CHOOSE p \in 0..n : /\ \A j \in n - p + 1..n : in[j] = Pad
                                  /\ p = n \/ in[n - p] # Pad
  IN (n \div 4) * 3 - pads

\* Octet k of group g: eight of the twenty-four bits of four characters.
Octet(in, g, k) ==
  LET At(j) == IF in[4 * g + j] = Pad THEN 0 ELSE in[4 * g + j]
      v == At(1) * 64 ^ 3 + At(2) * 64 ^ 2 + At(3) * 64 + At(4)
  IN (v \div 256 ^ (2 - k)) % 256

b64_decode(in) ==
  IF in = NoBytes \/ Len(in) % 4 # 0 \/ \E j \in DOMAIN in : ~b64_isvalidchar(in[j])
  THEN NoBytes
  ELSE [p \in 1..b64_decoded_size(in) |-> Octet(in, (p - 1) \div 3, (p - 1) % 3)]
=============================================================================
