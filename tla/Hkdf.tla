-------------------------------- MODULE Hkdf --------------------------------
(***************************************************************************)
(* Key derivation, libs/ascon_integration: hkdf_extract and hkdf_expand    *)
(* over hmac_ascon.  The hash is external and one-way: a tag is the key    *)
(* and the message it was computed from.  The block counter and the        *)
(* number of blocks are both a uint8_t, CounterWidth values.               *)
(***************************************************************************)
EXTENDS Integers, Sequences

CONSTANTS
  HashSize,      \* ASCON_HASH_SIZE
  CounterWidth,  \* 2^8: the values of a uint8_t
  Lengths,       \* the lengths of key material asked for, out->len
  Salt           \* the master salt, <<>> when there is none

ASSUME HkdfAssumption ==
  /\ HashSize \in Nat \ {0}
  /\ CounterWidth \in Nat \ {0}
  /\ Lengths \subseteq Nat

VARIABLES
  dState,      \* where hkdf_expand is: "idle", "running", "ok" or "failed"
  wanted,      \* out->len
  iterations,  \* uint8_t iterations
  i,           \* uint8_t i
  t,           \* T(i - 1): the tag computed last
  okm          \* out->ptr: for each octet, the tag and the octet of it

dVars == <<dState, wanted, iterations, i, t, okm>>

Unset == <<>>
NoTag == <<>>

HkdfInit ==
  /\ dState = "idle" /\ wanted = 0 /\ iterations = 0 /\ i = 0
  /\ t = NoTag /\ okm = Unset

-----------------------------------------------------------------------------
\* hmac_ascon, which never fails; a tag is what it was computed from.
Hmac(key, msg) == <<key, msg>>

\* hkdf_extract of the master secret; without a salt, octets of zero stand for it.
Prk == Hmac(IF Salt = <<>> THEN [p \in 1..HashSize |-> 0] ELSE Salt, "secret")

\* T(i - 1) || info || i.  The info is the same in every block and left out.
Msg(last, n) == <<IF n > 1 THEN last ELSE NoTag, n>>

Blocks(len) == (len + HashSize - 1) \div HashSize

\* hkdf_extract gives the key; hkdf_expand counts the blocks.  The quotient is
\* narrowed as it is assigned, so that the test of the limit is never true.
Expand(len) ==
  /\ dState = "idle"
  /\ wanted' = len
  /\ iterations' = Blocks(len) % CounterWidth
  /\ dState' = IF iterations' > CounterWidth - 1 THEN "failed" ELSE "running"
  /\ i' = 1
  /\ t' = NoTag /\ okm' = [p \in 1..len |-> Unset]

\* The octets copied from block n: all of it, or what remains in the last one.
CopyLen(n) ==
  IF wanted - (n - 1) * HashSize < HashSize THEN wanted % HashSize ELSE HashSize

\* Mutant: the previous block is left out of the message.
UnchainedBlock ==
  /\ dState = "running" /\ i <= iterations
  /\ t' = Hmac(Prk, Msg(NoTag, i))
  /\ okm' = [p \in DOMAIN okm |->
               IF p - (i - 1) * HashSize \in 1..CopyLen(i)
               THEN <<t', p - (i - 1) * HashSize>> ELSE okm[p]]
  /\ i' = (i + 1) % CounterWidth
  /\ UNCHANGED <<dState, wanted, iterations>>

\* Mutant: the counter stays.
StuckBlock ==
  /\ dState = "running" /\ i <= iterations
  /\ t' = Hmac(Prk, Msg(t, i))
  /\ UNCHANGED <<dState, wanted, iterations, i, okm>>

\* The body of the loop: one block.
Block ==
  /\ dState = "running" /\ i <= iterations
  /\ t' = Hmac(Prk, Msg(t, i))
  /\ okm' = [p \in DOMAIN okm |->
               IF p - (i - 1) * HashSize \in 1..CopyLen(i)
               THEN <<t', p - (i - 1) * HashSize>> ELSE okm[p]]
  /\ i' = (i + 1) % CounterWidth
  /\ UNCHANGED <<dState, wanted, iterations>>

\* The loop is over: what was computed is wiped.
Return ==
  /\ dState = "running" /\ i > iterations
  /\ dState' = "ok" /\ t' = NoTag
  /\ UNCHANGED <<wanted, iterations, i, okm>>

\* The caller has what it asked for, or not.
Forget ==
  /\ dState' = "idle" /\ wanted' = 0 /\ iterations' = 0 /\ i' = 0
  /\ t' = NoTag /\ okm' = Unset

Taken == dState \in {"ok", "failed"} /\ Forget

HkdfNext == (\E len \in Lengths : Expand(len)) \/ Block \/ Return \/ Taken

HkdfSpec == HkdfInit /\ [][HkdfNext]_dVars

-----------------------------------------------------------------------------
\* RFC 5869: T(0) is empty, T(n) = HMAC(PRK, T(n - 1) | info | n).
T(n) == LET tag[m \in 0..n] == IF m = 0 THEN NoTag ELSE Hmac(Prk, <<tag[m - 1], m>>)
        IN tag[n]

\* What hkdf_expand returns is the first octets of T(1) | T(2) | ... : the blocks
\* are chained, each is at its place, none is skipped or overwritten, and the last
\* one is cut where the buffer ends.  (Up to CounterWidth - 2 blocks.)
ExpandsAsSpecified ==
  dState = "ok" =>
    \A p \in 1..wanted :
      okm[p] = <<T((p - 1) \div HashSize + 1), ((p - 1) % HashSize) + 1>>

\* ascon_integration.c:127: "L length of output keying material in octets
\* (<= 255*HashLen)": more is refused.
LongIsRefused == dState = "ok" => wanted <= (CounterWidth - 1) * HashSize
=============================================================================
