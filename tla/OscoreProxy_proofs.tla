------------------------ MODULE OscoreProxy_proofs ------------------------
(***************************************************************************)
(* Proofs about OscoreProxy, for any payloads, tag, room and width of the  *)
(* lengths: the datagrams stay valid, what comes out is what went in, what *)
(* is not CoAP passes as the build says, and what is given to the cipher   *)
(* lies within the message.                                                *)
(*                                                                         *)
(* The checksum is defined by recursion over the octets and over the       *)
(* carries.  Induction is by least counterexample (LeastElement), and a    *)
(* recursive function is first shown to exist.                             *)
(***************************************************************************)
EXTENDS OscoreProxy, SequenceTheorems, WellFoundedInduction, TLAPS

-----------------------------------------------------------------------------
\* A non-empty set of numbers has a least element: what inductions rest on.
LEMMA LeastElement ==
  ASSUME NEW S \in SUBSET Nat, S # {}
  PROVE  \E n \in S : \A m \in S : ~(m < n)
  <1>1. IsWellFoundedOn(OpToRel(<,Nat), Nat)
    BY NatLessThanWellFounded
  <1>2. PICK n \in S : \A m \in S : ~(<<m,n>> \in OpToRel(<,Nat))
    BY <1>1, WFMin
  <1>3. ASSUME NEW m \in S, m < n PROVE FALSE
    <2>1. <<m,n>> \in OpToRel(<,Nat)
      BY <1>3 DEF OpToRel
    <2> QED BY <2>1, <1>2
  <1> QED BY <1>2, <1>3

LEMMA Divided ==
  ASSUME NEW s \in Nat, NEW b \in Nat \ {0}
  PROVE  /\ s \div b \in Nat /\ s % b \in 0..b - 1
         /\ s = b * (s \div b) + (s % b)
  OBVIOUS

LEMMA Remainder ==
  ASSUME NEW b \in Nat \ {0}, NEW k \in Nat, NEW m \in 0..b - 1
  PROVE  (b * k + m) % b = m /\ (b * k + m) \div b = k
  <1> DEFINE s == b * k + m
             q == s \div b
             r == s % b
  <1>1. s \in Nat
    OBVIOUS
  <1>2. q \in Nat /\ r \in 0..b - 1 /\ s = b * q + r
    BY <1>1, Divided
  <1> HIDE DEF q, r
  <1>3. b * (q - k) = m - r
    BY <1>2
  <1>4. q = k
    <2>1. CASE q - k >= 1
      <3>1. b * (q - k) >= b
        BY <1>2, <2>1
      <3> QED BY <1>2, <1>3, <3>1
    <2>2. CASE q - k <= -1
      <3>1. b * (q - k) <= -b
        BY <1>2, <2>2
      <3> QED BY <1>2, <1>3, <3>1
    <2> QED BY <1>2, <2>1, <2>2
  <1>5. r = m
    BY <1>2, <1>3, <1>4
  <1> QED
    BY <1>4, <1>5 DEF q, r

\* The end of adding back the carries, for words of w values: the sum modulo w - 1,
\* with w - 1 in place of 0.
Folds(w, s) == IF s < w THEN s ELSE ((s - 1) % (w - 1)) + 1

LEMMA FoldsTo ==
  ASSUME NEW w \in Nat, w > 1, NEW k \in Nat, NEW m \in 0..w - 2
  PROVE  Folds(w, (w - 1) * k + m + 1) = m + 1
  <1> DEFINE t == (w - 1) * k + m
  <1>1. t \in Nat /\ w - 1 \in Nat \ {0}
    BY w > 1
  <1>2. t % (w - 1) = m
    BY <1>1, Remainder
  <1>3. t + 1 < w => k = 0
    <2>1. CASE k >= 1
      <3>1. (w - 1) * k >= w - 1
        BY <1>1, <2>1
      <3> QED BY <1>1, <3>1
    <2> QED BY <2>1
  <1>4. k = 0 => t = m
    BY <1>1
  <1> HIDE DEF t
  <1>5. (t + 1) - 1 = t
    BY <1>1
  <1>6. Folds(w, t + 1) = m + 1
    BY <1>1, <1>2, <1>3, <1>4, <1>5 DEF Folds
  <1> QED BY <1>6 DEF t

LEMMA Folding ==
  ASSUME NEW w \in Nat, w > 1, NEW s \in Nat \ {0}
  PROVE  \E k \in Nat, m \in 0..w - 2 : s = (w - 1) * k + m + 1
  <1> DEFINE t == s - 1
             k == t \div (w - 1)
             m == t % (w - 1)
  <1>1. t \in Nat /\ w - 1 \in Nat \ {0}
    OBVIOUS
  <1> HIDE DEF t
  <1>2. k \in Nat /\ m \in 0..(w - 1) - 1 /\ t = (w - 1) * k + m
    BY <1>1, Divided
  <1>3. s = t + 1
    BY DEF t
  <1> HIDE DEF k, m
  <1> QED BY <1>2, <1>3

\* Adding back a carry makes the sum smaller and changes nothing of its end.
LEMMA OneFold ==
  ASSUME NEW w \in Nat, w > 1, NEW s \in Nat, s >= w
  PROVE  /\ (s % w) + (s \div w) \in 1..s - 1
         /\ Folds(w, (s % w) + (s \div w)) = Folds(w, s)
  <1> DEFINE q == s \div w
             r == s % w
  <1>1. q \in Nat /\ r \in 0..w - 1 /\ s = w * q + r
    <2>1. w \in Nat \ {0}
      OBVIOUS
    <2> QED BY <2>1, Divided
  <1> HIDE DEF q, r
  <1>2. q >= 1
    BY <1>1
  <1>3. w * q > q
    BY <1>1, <1>2
  <1>4. r + q \in 1..s - 1
    BY <1>1, <1>2, <1>3
  <1> DEFINE s2 == r + q
  <1>0. s2 \in Nat \ {0}
    BY <1>4
  <1>5. PICK k \in Nat, m \in 0..w - 2 : s2 = (w - 1) * k + m + 1
    BY <1>0, Folding
  <1>6. s = (w - 1) * (k + q) + m + 1
    BY <1>1, <1>5
  <1>7. Folds(w, r + q) = m + 1
    BY <1>5, FoldsTo
  <1>8. k + q \in Nat
    BY <1>1
  <1>9. Folds(w, s) = m + 1
    BY <1>6, <1>8, FoldsTo
  <1> QED
    BY <1>4, <1>7, <1>9 DEF q, r

LEMMA WordFacts == Word \in Nat /\ Word > 1
  BY DEF Word

FoldedDef(f) == [s \in Nat |-> IF s < Word THEN s ELSE f[(s % Word) + (s \div Word)]]

\* The recursive function exists: Folds is one.
LEMMA FoldedExists == Folded = FoldedDef(Folded)
  <1> DEFINE g == [s \in Nat |-> Folds(Word, s)]
  <1>1. ASSUME NEW s \in Nat
        PROVE  Folds(Word, s) = IF s < Word THEN s ELSE g[(s % Word) + (s \div Word)]
    <2>1. CASE s < Word
      BY <2>1, Zenon DEF Folds
    <2>2. CASE s >= Word
      <3>1. (s % Word) + (s \div Word) \in Nat
        BY <2>2, OneFold, WordFacts
      <3>2. g[(s % Word) + (s \div Word)] = Folds(Word, s)
        BY <2>2, <3>1, OneFold, WordFacts
      <3>3. ~(s < Word)
        BY <2>2, WordFacts
      <3> QED
        BY <3>2, <3>3, Zenon
    <2> QED
      BY <2>1, <2>2, WordFacts
  <1>2. g = FoldedDef(g)
    BY <1>1, Zenon DEF FoldedDef
  <1>3. Folded = CHOOSE f : f = FoldedDef(f)
    BY Zenon DEF Folded, FoldedDef
  <1> HIDE DEF g
  <1> QED
    BY <1>2, <1>3, Zenon

LEMMA FoldedIs == ASSUME NEW s \in Nat PROVE Folded[s] = Folds(Word, s)
  <1> DEFINE Wrong == {n \in Nat : Folded[n] # Folds(Word, n)}
  <1> SUFFICES ASSUME Wrong # {} PROVE FALSE
    OBVIOUS
  <1>1. PICK n \in Wrong : \A m \in Wrong : ~(m < n)
    <2>1. Wrong \in SUBSET Nat
      OBVIOUS
    <2> HIDE DEF Wrong
    <2> QED BY <2>1, LeastElement
  <1>2. Folded[n] = IF n < Word THEN n ELSE Folded[(n % Word) + (n \div Word)]
    BY FoldedExists, Zenon DEF FoldedDef
  <1>3. CASE n < Word
    BY <1>2, <1>3, Zenon DEF Folds
  <1>4. CASE n >= Word
    <2> DEFINE k == (n % Word) + (n \div Word)
    <2>1. k \in 1..n - 1 /\ Folds(Word, k) = Folds(Word, n)
      BY <1>4, OneFold, WordFacts
    <2>2. Folded[n] = Folded[k]
      BY <1>2, <1>4, WordFacts
    <2> HIDE DEF k
    <2>3. k \notin Wrong /\ k \in Nat
      BY <1>1, <2>1
    <2> QED
      BY <2>1, <2>2, <2>3
  <1> QED
    BY <1>3, <1>4, WordFacts

\* The recursive function in CsumAdd.
UpToDef(u, sum, octets, N) ==
  [n \in 0..N |-> IF n = 0 THEN sum ELSE u[n - 1] + Weighed(octets, n)]
UpTo(sum, octets) == CHOOSE u : u = UpToDef(u, sum, octets, Len(octets))

LEMMA WeighedNat ==
  ASSUME NEW octets \in Seq(Nat), NEW n \in 1..Len(octets)
  PROVE  Weighed(octets, n) \in Nat
  BY DEF Weighed

LEMMA UpToExists ==
  ASSUME NEW sum, NEW octets, NEW N \in Nat
  PROVE  \E u : u = UpToDef(u, sum, octets, N)
  <1> DEFINE Wrong == {n \in Nat : ~ \E u : u = UpToDef(u, sum, octets, n)}
  <1> SUFFICES ASSUME Wrong # {} PROVE FALSE
    OBVIOUS
  <1>1. PICK n \in Wrong : \A m \in Wrong : ~(m < n)
    <2>1. Wrong \in SUBSET Nat
      OBVIOUS
    <2> HIDE DEF Wrong
    <2> QED BY <2>1, LeastElement
  <1>2. n # 0
    <2>1. [k \in 0..0 |-> sum] = UpToDef([k \in 0..0 |-> sum], sum, octets, 0)
      BY DEF UpToDef
    <2> QED BY <2>1
  <1>3. n - 1 \in Nat /\ n - 1 \notin Wrong
    BY <1>1, <1>2
  <1>4. PICK u : u = UpToDef(u, sum, octets, n - 1)
    BY <1>3
  <1> DEFINE v == [k \in 0..n |-> IF k < n THEN u[k] ELSE u[n - 1] + Weighed(octets, n)]
  <1>5. ASSUME NEW k \in 0..n
        PROVE  v[k] = IF k = 0 THEN sum ELSE v[k - 1] + Weighed(octets, k)
    <2>1. CASE k = 0
      BY <1>2, <1>4, <2>1 DEF UpToDef
    <2>2. CASE k \in 1..n - 1
      <3>1. u[k] = u[k - 1] + Weighed(octets, k)
        BY <1>4, <2>2 DEF UpToDef
      <3>2. v[k] = u[k] /\ v[k - 1] = u[k - 1] /\ k # 0
        BY <2>2
      <3> QED BY <3>1, <3>2
    <2>3. CASE k = n
      BY <1>2, <2>3
    <2> QED BY <2>1, <2>2, <2>3
  <1>6. v = UpToDef(v, sum, octets, n)
    BY <1>5, Zenon DEF UpToDef
  <1> QED
    BY <1>6

LEMMA UpToIs ==
  ASSUME NEW sum, NEW octets \in Seq(Nat)
  PROVE  /\ CsumAdd(sum, octets) = UpTo(sum, octets)[Len(octets)]
         /\ UpTo(sum, octets)[0] = sum
         /\ \A n \in 1..Len(octets) :
              UpTo(sum, octets)[n] = UpTo(sum, octets)[n - 1] + Weighed(octets, n)
  <1>1. Len(octets) \in Nat
    OBVIOUS
  <1>2. UpTo(sum, octets) = UpToDef(UpTo(sum, octets), sum, octets, Len(octets))
    BY <1>1, UpToExists, Zenon DEF UpTo
  <1>3. CsumAdd(sum, octets) = UpTo(sum, octets)[Len(octets)]
    BY Zenon DEF CsumAdd, UpTo, UpToDef
  <1> DEFINE u == UpTo(sum, octets)
  <1>4. u = UpToDef(u, sum, octets, Len(octets))
    BY <1>2
  <1> HIDE DEF u
  <1>5. u[0] = sum /\ \A n \in 1..Len(octets) : u[n] = u[n - 1] + Weighed(octets, n)
    BY <1>1, <1>4 DEF UpToDef
  <1> QED
    BY <1>3, <1>5 DEF u

\* What is put into the sum first comes out of it unchanged.
LEMMA CsumLinear ==
  ASSUME NEW s \in Nat, NEW c \in Nat, NEW octets \in Seq(Nat)
  PROVE  /\ CsumAdd(s, octets) \in Nat /\ CsumAdd(s, octets) >= s
         /\ CsumAdd(s + c, octets) = CsumAdd(s, octets) + c
  <1> DEFINE u == UpTo(s, octets)
             v == UpTo(s + c, octets)
             Ok(n) == u[n] \in Nat /\ u[n] >= s /\ v[n] = u[n] + c
             Wrong == {n \in 0..Len(octets) : ~Ok(n)}
  <1>0. Len(octets) \in Nat
    OBVIOUS
  <1>1. /\ u[0] = s /\ v[0] = s + c
        /\ \A n \in 1..Len(octets) : /\ u[n] = u[n - 1] + Weighed(octets, n)
                                     /\ v[n] = v[n - 1] + Weighed(octets, n)
    BY UpToIs
  <1> HIDE DEF u, v
  <1>2. Wrong = {}
    <2> SUFFICES ASSUME Wrong # {} PROVE FALSE
      OBVIOUS
    <2>1. PICK n \in Wrong : \A m \in Wrong : ~(m < n)
      <3>1. Wrong \in SUBSET Nat
        BY <1>0
      <3> HIDE DEF Wrong
      <3> QED BY <3>1, LeastElement
    <2>2. n # 0
      BY <1>1
    <2>3. n - 1 \in 0..Len(octets) /\ Ok(n - 1) /\ n \in 1..Len(octets)
      BY <1>0, <2>1, <2>2
    <2>4. Weighed(octets, n) \in Nat
      BY <2>3, WeighedNat
    <2>5. u[n] = u[n - 1] + Weighed(octets, n) /\ v[n] = v[n - 1] + Weighed(octets, n)
      BY <1>1, <2>3
    <2>6. u[n] \in Nat /\ u[n] >= s
      BY <2>3, <2>4, <2>5
    <2>7. v[n] = u[n] + c
      BY <2>3, <2>4, <2>5
    <2> QED
      BY <2>6, <2>7
  <1>3. Ok(Len(octets))
    BY <1>0, <1>2
  <1> QED
    BY <1>3, UpToIs DEF u, v

-----------------------------------------------------------------------------
\* The checksum of a sum makes it fold to all ones, and is never zero.
LEMMA Completes ==
  ASSUME NEW w \in Nat, w > 1, NEW s \in Nat \ {0}, NEW c,
         c = IF Folds(w, s) = w - 1 THEN w - 1 ELSE w - 1 - Folds(w, s)
  PROVE  c \in 1..w - 1 /\ Folds(w, s + c) = w - 1
  <1>1. PICK k \in Nat, m \in 0..w - 2 : s = (w - 1) * k + m + 1
    BY Folding
  <1>2. Folds(w, s) = m + 1
    BY <1>1, FoldsTo
  <1>3. CASE m + 1 = w - 1
    <2>1. c = w - 1
      BY <1>2, <1>3
    <2> DEFINE k1 == k + 1
    <2>2. s + c = (w - 1) * k1 + m + 1
      BY <1>1, <2>1
    <2>3. k1 \in Nat
      OBVIOUS
    <2> HIDE DEF k1
    <2>4. Folds(w, (w - 1) * k1 + m + 1) = m + 1
      BY <2>3, FoldsTo
    <2> QED
      BY <1>3, <2>1, <2>2, <2>4
  <1>4. CASE m + 1 # w - 1
    <2>1. c = w - 1 - (m + 1)
      BY <1>2, <1>4
    <2> DEFINE m1 == w - 2
    <2>2. m1 \in 0..w - 2 /\ m1 + 1 = w - 1
      OBVIOUS
    <2>3. s + c = (w - 1) * k + m1 + 1
      BY <1>1, <2>1
    <2> HIDE DEF m1
    <2>4. Folds(w, (w - 1) * k + m1 + 1) = m1 + 1
      BY <2>2, FoldsTo
    <2> QED
      BY <1>4, <2>1, <2>2, <2>3, <2>4
  <1> QED
    BY <1>3, <1>4

Packets == [version : Nat, next : Nat, sum : Nat, payload : Seq(Octets),
            plen : Int, ulen : Int, size : Int]

\* The payload fits in a datagram.
FittingPayloads == {x \in Seq(Octets) : Len(x) + UDP_HEADERS_BYTES < Word}

\* The sum over a packet, without what is in its checksum field.
BaseSum(x) ==
  CsumAdd(AddressSum + (UDP_HEADERS_BYTES + Len(x)) + Udp + PortSum
            + (UDP_HEADERS_BYTES + Len(x)), x)

LEMMA SumIs ==
  ASSUME NEW p, NEW x \in FittingPayloads, NEW c \in Nat,
         p.payload = x, p.ulen = UDP_HEADERS_BYTES + Len(x)
  PROVE  /\ BaseSum(x) \in Nat \ {0}
         /\ SumOf(p, c) = Folds(Word, BaseSum(x) + c)
  <1> DEFINE b == AddressSum + (UDP_HEADERS_BYTES + Len(x)) + Udp + PortSum
                    + (UDP_HEADERS_BYTES + Len(x))
  <1>1. x \in Seq(Nat) /\ Len(x) \in Nat
    <2>1. x \in Seq(Octets) /\ Octets \subseteq Nat
      BY DEF FittingPayloads, Octets
    <2>2. x \in Seq(Nat)
      BY <2>1, SeqMonotonic, Zenon
    <2> QED
      BY <2>2
  <1>2. b \in Nat \ {0}
    BY <1>1, NetAssumption DEF Udp, UDP_HEADERS_BYTES
  <1>3. SubSeq(p.payload, 1, p.ulen - UDP_HEADERS_BYTES) = x
    <2>1. p.ulen - UDP_HEADERS_BYTES = Len(x)
      BY <1>1 DEF UDP_HEADERS_BYTES
    <2>2. SubSeq(x, 1, Len(x)) = x
      BY <1>1
    <2> QED
      BY <2>1, <2>2
  <1> HIDE DEF b
  <1>4. /\ CsumAdd(b, x) \in Nat /\ CsumAdd(b, x) >= b
        /\ CsumAdd(b + c, x) = CsumAdd(b, x) + c
    BY <1>1, <1>2, CsumLinear
  <1>5. SumOf(p, c) = Folded[CsumAdd(b + c, x)]
    BY <1>3 DEF SumOf, b
  <1>6. CsumAdd(b, x) = BaseSum(x)
    BY DEF BaseSum, b
  <1>7. BaseSum(x) \in Nat \ {0} /\ BaseSum(x) + c \in Nat
    BY <1>2, <1>4, <1>6
  <1> QED
    BY <1>4, <1>5, <1>6, <1>7, FoldedIs

\* The checksum of a payload.
SumFor(x) ==
  IF Folds(Word, BaseSum(x)) = Word - 1 THEN Word - 1
                                        ELSE Word - 1 - Folds(Word, BaseSum(x))

LEMMA DatagramIs ==
  ASSUME NEW x \in FittingPayloads
  PROVE  Datagram(x) = [version |-> 6, next |-> Udp, sum |-> SumFor(x), payload |-> x,
                        plen |-> UDP_HEADERS_BYTES + Len(x),
                        ulen |-> UDP_HEADERS_BYTES + Len(x),
                        size |-> HeaderBytes + Len(x)]
  <1> DEFINE p == [version |-> 6, next |-> Udp, sum |-> 0, payload |-> x,
                   plen |-> UDP_HEADERS_BYTES + Len(x),
                   ulen |-> UDP_HEADERS_BYTES + Len(x),
                   size |-> HeaderBytes + Len(x)]
  <1>1. p.payload = x /\ p.ulen = UDP_HEADERS_BYTES + Len(x)
    OBVIOUS
  <1> HIDE DEF p
  <1>2. SumOf(p, 0) = Folds(Word, BaseSum(x) + 0) /\ BaseSum(x) + 0 = BaseSum(x)
    BY <1>1, SumIs
  <1>3. Datagram(x) = [p EXCEPT !.sum = IF SumOf(p, 0) = Word - 1
                                                  THEN Word - 1
                                                  ELSE Word - 1 - SumOf(p, 0)]
    BY DEF Datagram, p
  <1>4. Datagram(x) = [p EXCEPT !.sum = SumFor(x)]
    BY <1>2, <1>3 DEF SumFor
  <1> QED
    BY <1>4 DEF p

LEMMA DatagramValid ==
  ASSUME NEW x \in FittingPayloads
  PROVE  Valid(Datagram(x)) /\ Datagram(x) \in Packets
  <1> DEFINE p == Datagram(x)
  <1>1. p = [version |-> 6, next |-> Udp, sum |-> SumFor(x), payload |-> x,
             plen |-> UDP_HEADERS_BYTES + Len(x), ulen |-> UDP_HEADERS_BYTES + Len(x),
             size |-> HeaderBytes + Len(x)]
    BY DatagramIs
  <1>2. Len(x) \in Nat /\ x \in Seq(Octets)
    BY DEF FittingPayloads
  <1> HIDE DEF p
  <1>3. p.payload = x /\ p.ulen = UDP_HEADERS_BYTES + Len(x) /\ p.sum = SumFor(x)
    BY <1>1
  <1>4. BaseSum(x) \in Nat \ {0}
    BY <1>3, SumIs
  <1>5. /\ SumFor(x) \in 1..Word - 1
        /\ Folds(Word, BaseSum(x) + SumFor(x)) = Word - 1
    BY <1>4, WordFacts, Completes DEF SumFor
  <1>6. SumFor(x) \in Nat /\ SumFor(x) # 0
    BY <1>5, WordFacts
  <1>7. SumOf(p, SumFor(x)) = Word - 1
    BY <1>3, <1>5, <1>6, SumIs
  <1>8. /\ p.plen = p.size - IPv6_HEADERS_BYTES /\ p.ulen = p.plen
        /\ Len(p.payload) = p.ulen - UDP_HEADERS_BYTES
    BY <1>1, <1>2 DEF HeaderBytes, IPv6_HEADERS_BYTES, UDP_HEADERS_BYTES
  <1>9. p \in Packets
    BY <1>1, <1>2, <1>6
    DEF Packets, HeaderBytes, IPv6_HEADERS_BYTES, UDP_HEADERS_BYTES, Udp
  <1> QED
    BY <1>3, <1>6, <1>7, <1>8, <1>9 DEF Valid, p

\* Refreshing lengths and checksum makes the datagram of the new payload.
LEMMA RefreshedIs ==
  ASSUME NEW p \in Packets, p.version = 6, p.next = Udp, NEW x \in FittingPayloads
  PROVE  Refreshed(p, x) = Datagram(x)
  <1> DEFINE n == UDP_HEADERS_BYTES + Len(x)
             q == [p EXCEPT !.payload = x, !.size = HeaderBytes + Len(x),
                            !.plen = n, !.ulen = n]
  <1>1. n % Word = n
    <2>1. n \in 0..Word - 1
      BY WordFacts DEF FittingPayloads, UDP_HEADERS_BYTES
    <2>2. Word * 0 + n = n /\ 0 \in Nat /\ Word \in Nat \ {0}
      BY <2>1, WordFacts
    <2> HIDE DEF n
    <2> QED
      BY <2>1, <2>2, Remainder
  <1>2. update_ip6_udp_len([p EXCEPT !.payload = x, !.size = HeaderBytes + Len(x)],
                           Len(x)) = q
    BY <1>1 DEF update_ip6_udp_len
  <1>3. q.payload = x /\ q.ulen = n
    BY DEF Packets
  <1>4. q = [version |-> 6, next |-> Udp, sum |-> p.sum, payload |-> x, plen |-> n,
             ulen |-> n, size |-> HeaderBytes + Len(x)]
    <2>1. PICK c, y, l, u, z :
             p = [version |-> 6, next |-> Udp, sum |-> c, payload |-> y, plen |-> l,
                  ulen |-> u, size |-> z]
      BY DEF Packets
    <2> DEFINE h == HeaderBytes + Len(x)
               q1 == [p EXCEPT !.payload = x]
               q2 == [q1 EXCEPT !.size = h]
               q3 == [q2 EXCEPT !.plen = n]
    <2> HIDE DEF n, h
    <2>2. q = [q3 EXCEPT !.ulen = n]
      BY DEF h
    <2>3. q1 = [version |-> 6, next |-> Udp, sum |-> c, payload |-> x, plen |-> l,
                ulen |-> u, size |-> z]
      BY <2>1
    <2> HIDE DEF q1
    <2>4. q2 = [version |-> 6, next |-> Udp, sum |-> c, payload |-> x, plen |-> l,
                ulen |-> u, size |-> h]
      BY <2>3
    <2> HIDE DEF q2
    <2>5. q3 = [version |-> 6, next |-> Udp, sum |-> c, payload |-> x, plen |-> n,
                ulen |-> u, size |-> h]
      BY <2>4
    <2> HIDE DEF q3
    <2>6. [q3 EXCEPT !.ulen = n]
            = [version |-> 6, next |-> Udp, sum |-> c, payload |-> x, plen |-> n,
               ulen |-> n, size |-> h]
      BY <2>5
    <2>7. p.sum = c
      BY <2>1
    <2> HIDE DEF q
    <2> QED
      BY <2>2, <2>6, <2>7 DEF h
  <1> HIDE DEF q, n
  <1>5. SumOf(q, 0) = Folds(Word, BaseSum(x) + 0) /\ BaseSum(x) + 0 = BaseSum(x)
    BY <1>3, SumIs DEF n
  <1>6. udp_checksum(q) = SumFor(x)
    BY <1>5 DEF udp_checksum, SumFor
  <1>7. Refreshed(p, x) = [q EXCEPT !.sum = SumFor(x)]
    BY <1>2, <1>6 DEF Refreshed, update_udp_checksum
  <1> QED
    BY <1>4, <1>7, DatagramIs DEF n

-----------------------------------------------------------------------------
\* A CoAP or OSCORE message: its first octet says so, and it fits.
Messages == {x \in FittingPayloads : x # <<>> /\ x[1] \div 64 = 1}

\* What was read from the TUN device.
Read ==
  /\ offered.payload \in Payloads
  /\ offered \in {Datagram(offered.payload)} \cup Odd(offered.payload)

CoapRead == offered.payload \in Messages /\ offered = Datagram(offered.payload)

\* What OthersByBuild is about.
OtherRead ==
  Valid(offered) /\ offered.next = Udp /\ offered.payload # <<>>
    /\ offered.payload[1] \div 64 # 1

\* A proxy put an OSCORE message in place of the message.
Replaced ==
  /\ build.proxy /\ CoapRead /\ plain \in {offered.payload, Forged}
  /\ pkt.payload \in Messages /\ pkt = Datagram(pkt.payload)

\* The message that was restored, in a datagram of its own.
RestoredRead ==
  CoapRead /\ \E m \in Restored(offered.payload) : pkt = Datagram(m)
AtTun == stage = "tun" => pkt = offered /\ plain = Nothing /\ opened = NotCalled

OnLink ==
  stage = "link" =>
    \/ pkt = offered /\ plain = Nothing /\ (OtherRead => ~build.dropNonCoap)
    \/ Replaced

AtOut ==
  stage = "out" =>
    /\ \/ pkt = offered
       \/ build.proxy /\ RestoredRead
    /\ OtherRead => ~build.dropNonCoap

AtDropped == stage = "dropped" => (OtherRead => build.dropNonCoap)

ProxyInv ==
  /\ stage \in {"tun", "link", "out", "dropped"}
  /\ Read /\ AtTun /\ OnLink /\ AtOut /\ AtDropped /\ OpensWithinMessage

LEMMA DatagramFields ==
  ASSUME NEW x \in FittingPayloads
  PROVE  LET p == Datagram(x) IN
         /\ p \in Packets /\ Valid(p)
         /\ p.version = 6 /\ p.next = Udp /\ p.payload = x
         /\ p.ulen = UDP_HEADERS_BYTES + Len(x) /\ p.size = HeaderBytes + Len(x)
         /\ ipv6_udp_payload_len(p) = Len(x)
         /\ is_ipv6_udp_packet(p)
  <1> DEFINE p == Datagram(x)
  <1>1. p = [version |-> 6, next |-> Udp, sum |-> SumFor(x), payload |-> x,
             plen |-> UDP_HEADERS_BYTES + Len(x), ulen |-> UDP_HEADERS_BYTES + Len(x),
             size |-> HeaderBytes + Len(x)]
    BY DatagramIs
  <1>2. p \in Packets /\ Valid(p)
    BY DatagramValid
  <1>3. Len(x) \in Nat
    BY DEF FittingPayloads
  <1> HIDE DEF p
  <1>4. /\ p.version = 6 /\ p.next = Udp /\ p.payload = x
        /\ p.ulen = UDP_HEADERS_BYTES + Len(x) /\ p.size = HeaderBytes + Len(x)
    BY <1>1
  <1>5. ipv6_udp_payload_len(p) = Len(x)
    BY <1>3, <1>4 DEF ipv6_udp_payload_len, UDP_HEADERS_BYTES
  <1>6. is_ipv6_udp_packet(p)
    BY <1>3, <1>4 DEF is_ipv6_udp_packet, HeaderBytes, IPv6_HEADERS_BYTES,
                      UDP_HEADERS_BYTES
  <1> QED
    BY <1>2, <1>4, <1>5, <1>6 DEF p

LEMMA PayloadsFit == Payloads \subseteq FittingPayloads
  <1> SUFFICES ASSUME NEW m \in Payloads PROVE m \in FittingPayloads
    OBVIOUS
  <1>1. m \in Seq(Octets) /\ Len(m) <= Capacity /\ Capacity \in Nat
        /\ Capacity < Word - UDP_HEADERS_BYTES
    BY ProxyAssumption
  <1>2. Len(m) \in Nat
    BY <1>1
  <1>3. Len(m) + UDP_HEADERS_BYTES < Word
    BY <1>1, <1>2, WordFacts DEF UDP_HEADERS_BYTES
  <1> QED
    BY <1>1, <1>3 DEF FittingPayloads

\* An odd datagram is discarded, or has no payload by its UDP length.
LEMMA OddFields ==
  ASSUME NEW x \in FittingPayloads, NEW p \in Odd(x)
  PROVE  /\ p.version = 6 /\ p.payload = x
         /\ p.size = HeaderBytes + Len(x)
         /\ is_ipv6_udp_packet(p) => ipv6_udp_payload_len(p) = 0
  <1> DEFINE d == Datagram(x)
  <1>1. /\ d \in Packets
        /\ d.version = 6 /\ d.next = Udp /\ d.payload = x
        /\ d.size = HeaderBytes + Len(x)
    BY DatagramFields
  <1>2. p = [d EXCEPT !.next = 58] \/ p = [d EXCEPT !.ulen = 0]
    BY DEF Odd
  <1>3. Len(x) \in Nat
    BY DEF FittingPayloads
  <1> HIDE DEF d
  <1>4. CASE p = [d EXCEPT !.next = 58]
    <2>1. p.version = 6 /\ p.payload = x /\ p.size = HeaderBytes + Len(x) /\ p.next = 58
      BY <1>1, <1>4 DEF Packets
    <2> QED
      BY <2>1 DEF is_ipv6_udp_packet, Udp
  <1>5. CASE p = [d EXCEPT !.ulen = 0]
    <2>1. p.version = 6 /\ p.payload = x /\ p.size = HeaderBytes + Len(x) /\ p.ulen = 0
      BY <1>1, <1>5 DEF Packets
    <2> QED
      BY <2>1 DEF ipv6_udp_payload_len, UDP_HEADERS_BYTES
  <1> QED
    BY <1>2, <1>4, <1>5

\* What is CoAP to the worker that reads it is a datagram with a message in it.
LEMMA CoapIs ==
  ASSUME Read, is_ipv6_udp_packet(offered),
         NEW first \in First(offered),
         is_coap_packet(first, ipv6_udp_payload_len(offered))
  PROVE  CoapRead
  <1> DEFINE x == offered.payload
  <1>1. x \in FittingPayloads
    BY PayloadsFit DEF Read
  <1>2. ipv6_udp_payload_len(offered) >= 1 /\ first \div 64 = 1
    BY DEF is_coap_packet
  <1>3. offered \notin Odd(x)
    <2> SUFFICES ASSUME offered \in Odd(x) PROVE FALSE
      OBVIOUS
    <2>1. ipv6_udp_payload_len(offered) = 0
      BY <1>1, OddFields
    <2> QED
      BY <1>2, <2>1
  <1>4. offered = Datagram(x)
    BY <1>3 DEF Read
  <1> HIDE DEF x
  <1>5. Len(x) >= 1
    BY <1>1, <1>2, <1>4, DatagramFields
  <1>6. x # <<>>
    BY <1>5
  <1>7. x[1] \div 64 = 1
    BY <1>2, <1>6 DEF First, x
  <1> QED
    BY <1>1, <1>4, <1>6, <1>7 DEF CoapRead, Messages, x

\* A message put in place of another is told to be CoAP, at both ends.
LEMMA MessageIsCoap ==
  ASSUME NEW x \in Messages, NEW p, p = Datagram(x)
  PROVE  /\ is_ipv6_udp_packet(p) /\ First(p) = {x[1]} /\ Len(x) \in Nat \ {0}
         /\ is_coap_packet(x[1], p.size)
  <1>1. x \in FittingPayloads /\ x # <<>> /\ x[1] \div 64 = 1
    BY DEF Messages
  <1>2. p.payload = x /\ p.size = HeaderBytes + Len(x) /\ is_ipv6_udp_packet(p)
    BY <1>1, DatagramFields
  <1>3. Len(x) \in Nat \ {0}
    BY <1>1 DEF FittingPayloads
  <1>4. First(p) = {x[1]}
    BY <1>1, <1>2 DEF First
  <1>5. p.size >= 1
    BY <1>2, <1>3 DEF HeaderBytes, IPv6_HEADERS_BYTES, UDP_HEADERS_BYTES
  <1> QED
    BY <1>1, <1>2, <1>3, <1>4, <1>5 DEF is_coap_packet

LEMMA ReplacedBy ==
  ASSUME NEW x \in Messages, NEW y \in FittingPayloads, NEW p, p = Datagram(x)
  PROVE  Refreshed(p, y) = Datagram(y)
  <1>1. x \in FittingPayloads
    BY DEF Messages
  <1>2. p \in Packets /\ p.version = 6 /\ p.next = Udp
    BY <1>1, DatagramFields
  <1> QED
    BY <1>2, RefreshedIs

LEMMA WrapsOnce ==
  ASSUME NEW width \in Nat, NEW d \in Int, d < 0, 0 < width + d
  PROVE  d % width = width + d
  <1> DEFINE q == d \div width
             r == d % width
  <1>1. d = width * q + r /\ r \in 0..width - 1 /\ q \in Int
    OBVIOUS
  <1> HIDE DEF q, r
  <1>2. q = -1
    <2>1. CASE q >= 0
      BY <1>1, <2>1
    <2>2. CASE q <= -2
      BY <1>1, <2>2
    <2>3. QED
      BY <1>1, <2>1, <2>2
  <1>3. r = width + d
    BY <1>1, <1>2
  <1>4. QED
    BY <1>3 DEF r

(***************************************************************************)
(* A length below that of the tag wraps to one larger than any room.       *)
(***************************************************************************)
LEMMA FitsOnlyWithTag ==
  ASSUME NEW cipher \in Nat, Fits(cipher, Capacity)
  PROVE  cipher >= TagLen
  <1> SUFFICES ASSUME cipher < TagLen PROVE FALSE
    BY ProxyAssumption
  <1> DEFINE d == cipher - TagLen
  <1>1. d \in Int /\ d < 0 /\ 0 < LenWidth + d /\ LenWidth + d < LenWidth
    BY ProxyAssumption
  <1>2. d % LenWidth = LenWidth + d
    BY <1>1, WrapsOnce, ProxyAssumption
  <1>3. LenWidth + d > Capacity
    BY ProxyAssumption
  <1>4. Capacity >= d % LenWidth
    BY DEF Fits
  <1>5. LenWidth + d \in Int /\ Capacity \in Int
    BY ProxyAssumption
  <1> HIDE DEF d
  <1>6. QED
    BY <1>2, <1>3, <1>4, <1>5

-----------------------------------------------------------------------------
(***************************************************************************)
(* coap_to_oscore keeps the first octet, so an OSCORE message is taken for *)
(* a CoAP one, and fits in the buffer.                                     *)
(***************************************************************************)
LEMMA ProtectedMessages ==
  ASSUME NEW message \in Messages
  PROVE  Protected(message) \subseteq Messages
  <1> SUFFICES ASSUME NEW payload \in Protected(message) PROVE payload \in Messages
    OBVIOUS
  <1> DEFINE sizes == {Len(message) - 1 + d : d \in InnerDeltas}
  <1>0. message \in Seq(Octets) /\ message # <<>> /\ message[1] \div 64 = 1
    BY DEF Messages, FittingPayloads
  <1>1. sizes \subseteq Int
    BY <1>0, ProxyAssumption
  <1>2. PICK n \in {n \in sizes : n >= 0 /\ 1 + n + TagLen <= Capacity} :
               payload \in {<<message[1]>> \o cipher :
                              cipher \in [1..n + TagLen -> CipherOctets]}
    BY DEF Protected
  <1> DEFINE k == n + TagLen
  <1>3. k \in Nat /\ 1 + k <= Capacity
    BY <1>1, <1>2, ProxyAssumption
  <1>4. PICK cipher \in [1..k -> CipherOctets] : payload = <<message[1]>> \o cipher
    BY <1>2
  <1> HIDE DEF sizes, k
  <1>5. cipher \in Seq(Octets) /\ Len(cipher) = k
    BY <1>3, ProxyAssumption
  <1>6. <<message[1]>> \in Seq(Octets)
    BY <1>0
  <1>7. payload \in Seq(Octets) /\ Len(payload) = 1 + k /\ payload[1] = message[1]
    BY <1>4, <1>5, <1>6
  <1>8. Len(payload) + UDP_HEADERS_BYTES < Word
    BY <1>3, <1>7, ProxyAssumption, WordFacts DEF UDP_HEADERS_BYTES
  <1> QED
    BY <1>0, <1>3, <1>7, <1>8 DEF Messages, FittingPayloads

LEMMA Joined ==
  ASSUME NEW a \in Seq(Octets), NEW b \in Seq(Octets)
  PROVE  a \o b \in Seq(Octets) /\ Len(a \o b) = Len(a) + Len(b)
  OBVIOUS

(***************************************************************************)
(* What uoscore restores is a part of the message, and fits where it did.  *)
(***************************************************************************)
LEMMA RestoredFits ==
  ASSUME NEW message \in Messages
  PROVE  Restored(message) \subseteq FittingPayloads
  <1>0. /\ message \in Seq(Octets) /\ Len(message) \in Nat
        /\ Len(message) + UDP_HEADERS_BYTES < Word
    BY DEF Messages, FittingPayloads
  <1>1. message \in FittingPayloads
    BY DEF Messages
  <1>2. ASSUME NEW o \in Options(message)
        PROVE  Emptied(message, o) \in FittingPayloads
    <2> DEFINE q == o[1]
               k == o[2]
               header == SubSeq(message, 1, q - 1)
               value == <<message[q] - k>>
               rest == SubSeq(message, q + k + 1, Len(message))
    <2>1. /\ q \in 2..Len(message) /\ k \in 1..3 /\ q + k <= Len(message)
          /\ message[q] % 16 = k
      BY DEF Options
    <2>2. message[q] \in Octets
      BY <1>0, <2>1
    <2> HIDE DEF q, k
    <2>3. message[q] - k \in Octets
      <3>1. message[q] \in 0..255 /\ k \in 1..3
        BY <2>1, <2>2 DEF Octets
      <3>2. ASSUME NEW w \in 0..255, w % 16 = k PROVE w - k \in 0..255
        BY <3>1, <3>2, SMT
      <3>3. message[q] - k \in 0..255
        BY <2>1, <3>1, <3>2
      <3> QED
        BY <3>3 DEF Octets
    <2>4. header \in Seq(Octets) /\ Len(header) = q - 1
      BY <1>0, <2>1
    <2>5. rest \in Seq(Octets) /\ Len(rest) = Len(message) - q - k
      BY <1>0, <2>1
    <2>6. value \in Seq(Octets) /\ Len(value) = 1
      BY <2>3
    <2>7. Emptied(message, o) = header \o value \o rest
      BY Zenon DEF Emptied, q, k
    <2> HIDE DEF header, value, rest
    <2>8. /\ header \o value \o rest \in Seq(Octets)
          /\ Len(header \o value \o rest) = Len(message) - k
      <3>1. /\ header \o value \in Seq(Octets)
            /\ Len(header \o value) = Len(header) + Len(value)
        BY <2>4, <2>6, Joined
      <3>2. /\ header \o value \o rest \in Seq(Octets)
            /\ Len(header \o value \o rest) = Len(header \o value) + Len(rest)
        BY <2>5, <3>1, Joined
      <3>3. Len(header \o value \o rest) = (q - 1) + 1 + (Len(message) - q - k)
        BY <2>4, <2>5, <2>6, <3>1, <3>2
      <3> QED
        BY <1>0, <2>1, <3>2, <3>3
    <2>9. Len(message) - k + UDP_HEADERS_BYTES < Word
      BY <1>0, <2>1, WordFacts DEF UDP_HEADERS_BYTES
    <2> QED
      BY <2>7, <2>8, <2>9 DEF FittingPayloads
  <1> QED
    BY <1>1, <1>2 DEF Restored

LEMMA ForgedMessage ==
  ASSUME NEW n \in 0..TagLen + 1
  PROVE  <<64>> \o [o \in 1..n |-> 0] \in Messages
  <1> DEFINE rest == [o \in 1..n |-> 0]
             x == <<64>> \o rest
  <1>1. n \in Nat /\ 1 + n <= Capacity
    BY ProxyAssumption
  <1>2. 0 \in Octets /\ 64 \in Octets
    BY DEF Octets
  <1>3. rest \in Seq(Octets) /\ Len(rest) = n /\ <<64>> \in Seq(Octets)
    BY <1>1, <1>2
  <1> HIDE DEF rest
  <1>4. x \in Seq(Octets) /\ Len(x) = 1 + n /\ x[1] = 64
    BY <1>1, <1>3
  <1>5. Len(x) + UDP_HEADERS_BYTES < Word
    BY <1>1, <1>4, ProxyAssumption, WordFacts DEF UDP_HEADERS_BYTES
  <1> HIDE DEF x
  <1>6. x # <<>>
    BY <1>1, <1>4
  <1>7. x[1] \div 64 = 1
    BY <1>4
  <1>8. x \in Messages
    BY <1>4, <1>5, <1>6, <1>7 DEF Messages, FittingPayloads
  <1> QED
    BY <1>8 DEF x, rest

LEMMA ProxyInit == Init => ProxyInv
  <1> SUFFICES ASSUME Init PROVE ProxyInv
    OBVIOUS
  <1>1. PICK x \in Payloads : offered \in {Datagram(x)} \cup Odd(x)
    BY DEF Init
  <1>2. offered.payload = x
    BY <1>1, PayloadsFit, DatagramFields, OddFields
  <1>3. Read
    BY <1>1, <1>2 DEF Read
  <1> QED
    BY <1>3 DEF Init, ProxyInv, AtTun, OnLink, AtOut, AtDropped, OpensWithinMessage

(***************************************************************************)
(* What OthersByBuild is about is UDP, and not CoAP.                       *)
(***************************************************************************)
LEMMA OtherIs ==
  ASSUME Read, OtherRead
  PROVE  /\ is_ipv6_udp_packet(offered) /\ ~CoapRead
         /\ First(offered) = {offered.payload[1]}
  <1> DEFINE x == offered.payload
  <1>1. x \in FittingPayloads /\ Len(x) \in Nat
    BY PayloadsFit DEF Read, FittingPayloads
  <1>2. offered.version = 6 /\ offered.size = HeaderBytes + Len(x)
    BY <1>1, DatagramFields, OddFields DEF Read
  <1>3. offered.next = Udp /\ x # <<>> /\ x[1] \div 64 # 1
    BY DEF OtherRead
  <1>4. is_ipv6_udp_packet(offered)
    BY <1>1, <1>2, <1>3
    DEF is_ipv6_udp_packet, HeaderBytes, IPv6_HEADERS_BYTES, UDP_HEADERS_BYTES
  <1> QED
    BY <1>3, <1>4 DEF CoapRead, Messages, First

LEMMA DownKeeps == ProxyInv /\ SendDown => ProxyInv'
  <1> SUFFICES ASSUME ProxyInv, SendDown PROVE ProxyInv'
    OBVIOUS
  <1>0. /\ stage = "tun" /\ Read
        /\ pkt = offered /\ plain = Nothing /\ opened = NotCalled
        /\ UNCHANGED <<build, offered, opened>>
    BY DEF SendDown, ProxyInv, AtTun
  <1>1. Read' /\ OpensWithinMessage' /\ (OtherRead' <=> OtherRead)
    BY <1>0 DEF Read, OpensWithinMessage, OtherRead
  <1>2. IsCoap => CoapRead
    BY <1>0, CoapIs DEF IsCoap
  <1>3. CoapRead => ~OtherRead
    BY <1>0, OtherIs
  <1>4. CASE Discard
    <2>1. ~OtherRead
      BY <1>0, <1>4, OtherIs DEF Discard
    <2> QED
      BY <1>1, <1>4, <2>1
      DEF Discard, Drop, ProxyInv, AtTun, OnLink, AtOut, AtDropped
  <1>5. CASE NotCoap
    <2>1. CASE build.dropNonCoap
      BY <1>0, <1>1, <1>5, <2>1
      DEF NotCoap, Drop, ProxyInv, AtTun, OnLink, AtOut, AtDropped
    <2>2. CASE ~build.dropNonCoap
      BY <1>0, <1>1, <1>5, <2>2
      DEF NotCoap, ProxyInv, AtTun, OnLink, AtOut, AtDropped
    <2> QED
      BY <2>1, <2>2
  <1>6. CASE Unproxied
    <2>1. IsCoap
      BY <1>6 DEF Unproxied
    <2> QED
      BY <1>0, <1>1, <1>2, <1>3, <1>6, <2>1
      DEF Unproxied, ProxyInv, AtTun, OnLink, AtOut, AtDropped
  <1>7. CASE Protect
    <2>1. CoapRead /\ build.proxy /\ plain' = offered.payload /\ stage' = "link"
      BY <1>0, <1>2, <1>7 DEF Protect
    <2>2. PICK y \in Protected(offered.payload) : pkt' = Refreshed(offered, y)
      BY <1>0, <1>7 DEF Protect
    <2>3. y \in Messages
      BY <2>1, <2>2, ProtectedMessages DEF CoapRead
    <2>4. pkt' = Datagram(y)
      BY <2>1, <2>2, <2>3, ReplacedBy DEF CoapRead, Messages
    <2>5. pkt'.payload = y
      BY <2>3, <2>4, DatagramFields DEF Messages
    <2>6. CoapRead'
      BY <1>0, <2>1 DEF CoapRead
    <2>7. Replaced'
      BY <1>0, <2>1, <2>3, <2>4, <2>5, <2>6 DEF Replaced
    <2> QED
      BY <1>1, <2>1, <2>7 DEF ProxyInv, AtTun, OnLink, AtOut, AtDropped
  <1>8. CASE LeaveAlone
    <2>1. CoapRead /\ ~OtherRead
      BY <1>2, <1>3, <1>8 DEF LeaveAlone
    <2>2. Refreshed(offered, offered.payload) = offered
      BY <2>1, ReplacedBy DEF CoapRead, Messages
    <2> QED
      BY <1>0, <1>1, <1>8, <2>1, <2>2
      DEF LeaveAlone, ProxyInv, AtTun, OnLink, AtOut, AtDropped
  <1>9. CASE ProtectFails
    <2>1. CoapRead /\ ~OtherRead
      BY <1>2, <1>3, <1>9 DEF ProtectFails
    <2>2. Refreshed(offered, offered.payload) = offered
      BY <2>1, ReplacedBy DEF CoapRead, Messages
    <2>3. CASE build.dropOnError
      BY <1>1, <1>9, <2>1, <2>3
      DEF ProtectFails, Drop, ProxyInv, AtTun, OnLink, AtOut, AtDropped
    <2>4. CASE ~build.dropOnError
      BY <1>0, <1>1, <1>9, <2>1, <2>2, <2>4
      DEF ProtectFails, ProxyInv, AtTun, OnLink, AtOut, AtDropped
    <2> QED
      BY <2>3, <2>4
  <1> QED
    BY <1>4, <1>5, <1>6, <1>7, <1>8, <1>9 DEF SendDown

(***************************************************************************)
(* A forged message changes only what a proxy had put on the link.         *)
(***************************************************************************)
LEMMA ForgeKeeps == ProxyInv /\ Forge => ProxyInv'
  <1> SUFFICES ASSUME ProxyInv, Forge PROVE ProxyInv'
    OBVIOUS
  <1>0. /\ stage = "link" /\ plain' = Forged /\ Replaced /\ Read
        /\ UNCHANGED <<build, offered, stage, opened>>
    BY DEF Forge, ProxyInv, OnLink
  <1>1. PICK n \in 0..TagLen + 1 :
               pkt' = Refreshed(pkt, <<64>> \o [o \in 1..n |-> 0])
    BY DEF Forge
  <1> DEFINE y == <<64>> \o [o \in 1..n |-> 0]
  <1>2. y \in Messages
    BY ForgedMessage
  <1>3. pkt' = Refreshed(pkt, y)
    BY <1>1
  <1> HIDE DEF y
  <1>4. pkt' = Datagram(y) /\ pkt'.payload = y
    BY <1>0, <1>2, <1>3, ReplacedBy, DatagramFields DEF Replaced, Messages
  <1>5. CoapRead'
    BY <1>0 DEF Replaced, CoapRead
  <1>6. Replaced'
    BY <1>0, <1>2, <1>4, <1>5 DEF Replaced
  <1>7. Read' /\ OpensWithinMessage'
    BY <1>0 DEF ProxyInv, Read, OpensWithinMessage
  <1> QED
    BY <1>0, <1>6, <1>7 DEF ProxyInv, AtTun, OnLink, AtOut, AtDropped

(***************************************************************************)
(* The receiver: a message that is opened carries a tag.                   *)
(***************************************************************************)
LEMMA OpensKeeps ==
  ASSUME Replaced, Opens
  PROVE  OpensWithinMessage'
  <1> DEFINE cipher == Len(pkt.payload) - 1
  <1>1. cipher \in Nat
    BY MessageIsCoap DEF Replaced
  <1>2. Fits(cipher, Capacity) /\ opened' = [size |-> cipher - TagLen, of |-> cipher]
    BY DEF Opens
  <1> HIDE DEF cipher
  <1>3. cipher >= TagLen
    BY <1>1, <1>2, FitsOnlyWithTag
  <1>4. QED
    BY <1>1, <1>2, <1>3, ProxyAssumption DEF OpensWithinMessage

LEMMA UpKeeps == ProxyInv /\ ForwardUp => ProxyInv'
  <1> SUFFICES ASSUME ProxyInv, ForwardUp PROVE ProxyInv'
    OBVIOUS
  <1>0. stage = "link" /\ Read /\ UNCHANGED <<build, offered>>
    BY DEF ForwardUp, ProxyInv
  <1>1. Read' /\ (OtherRead' <=> OtherRead)
    BY <1>0 DEF Read, OtherRead
  <1>2. CASE pkt = offered /\ plain = Nothing /\ (OtherRead => ~build.dropNonCoap)
    <2>0. ~Opens
      BY <1>2 DEF Opens
    <2>1. OpensWithinMessage'
      BY <2>0 DEF ForwardUp, DiscardUp, NotCoapUp, WriteUnchanged, Unprotect,
                  UnprotectFails, ProxyInv, OpensWithinMessage
    <2>2. IsCoapUp => ~OtherRead
      BY <1>0, <1>2, OtherIs DEF IsCoapUp, is_coap_packet, OtherRead
    <2>3. DiscardUp => ~OtherRead
      BY <1>0, <1>2, OtherIs DEF DiscardUp
    <2>4. CASE stage' = "out" /\ pkt' = pkt
      BY <1>0, <1>1, <1>2, <2>1, <2>4
      DEF ProxyInv, AtTun, OnLink, AtOut, AtDropped
    <2>5. CASE stage' = "dropped" /\ (OtherRead => build.dropNonCoap)
      BY <1>0, <1>1, <2>1, <2>5
      DEF ProxyInv, AtTun, OnLink, AtOut, AtDropped
    <2> QED
      BY <2>0, <2>2, <2>3, <2>4, <2>5
      DEF ForwardUp, DiscardUp, NotCoapUp, WriteUnchanged, Unprotect, UnprotectFails,
          Drop
  <1>3. CASE Replaced
    <2>1. ~DiscardUp /\ ~NotCoapUp
      BY <1>3, MessageIsCoap DEF Replaced, DiscardUp, NotCoapUp
    <2>2. CoapRead /\ offered.payload # <<>> /\ offered.payload \in Seq(Octets)
      BY <1>3 DEF Replaced, CoapRead, Messages, FittingPayloads
    <2>3. plain # Nothing
      <3>1. Len(Forged) = 1 /\ Len(Nothing) = 0
        BY DEF Forged, Nothing
      <3>2. Forged # Nothing
        BY <3>1
      <3>3. plain \in {offered.payload, Forged}
        BY <1>3 DEF Replaced
      <3>4. offered.payload # Nothing
        BY <2>2 DEF Nothing
      <3> QED
        BY <3>2, <3>3, <3>4
    <2>4. ~WriteUnchanged
      BY <1>3, <2>3 DEF WriteUnchanged, Replaced
    <2>5. ~OtherRead
      BY <1>0, <2>2, OtherIs
    <2>6. CASE Unprotect
      <3>1. build.proxy /\ stage' = "out" /\ Opens
        BY <2>6 DEF Unprotect
      <3>2. RestoredRead'
        <4>1. PICK m \in Restored(offered.payload) : pkt' = Refreshed(pkt, m)
          BY <1>3, <2>6 DEF Unprotect, Replaced
        <4>2. m \in FittingPayloads
          BY <2>2, <4>1, RestoredFits DEF CoapRead
        <4>3. pkt' = Datagram(m)
          BY <1>3, <4>1, <4>2, ReplacedBy DEF Replaced
        <4> QED
          BY <1>0, <2>2, <4>1, <4>3 DEF RestoredRead, CoapRead
      <3>3. OpensWithinMessage'
        BY <1>3, <3>1, OpensKeeps
      <3> QED
        BY <1>0, <1>1, <2>5, <3>1, <3>2, <3>3
        DEF ProxyInv, AtTun, OnLink, AtOut, AtDropped
    <2>7. CASE UnprotectFails
      <3>1. stage' = "dropped" /\ (Opens \/ UNCHANGED opened)
        BY <2>7 DEF UnprotectFails, Drop
      <3>2. OpensWithinMessage'
        BY <1>3, <3>1, OpensKeeps DEF ProxyInv, OpensWithinMessage
      <3> QED
        BY <1>1, <2>5, <3>1, <3>2 DEF ProxyInv, AtTun, OnLink, AtOut, AtDropped
    <2> QED
      BY <2>1, <2>4, <2>6, <2>7 DEF ForwardUp
  <1> QED
    BY <1>0, <1>2, <1>3 DEF ProxyInv, OnLink

LEMMA Proxied == Spec => []ProxyInv
  <1>1. ProxyInv /\ [Next]_vars => ProxyInv'
    <2> SUFFICES ASSUME ProxyInv, [Next]_vars PROVE ProxyInv'
      OBVIOUS
    <2>1. CASE SendDown
      BY <2>1, DownKeeps
    <2>2. CASE Forge
      BY <2>2, ForgeKeeps
    <2>3. CASE ForwardUp
      BY <2>3, UpKeeps
    <2>4. CASE Done \/ UNCHANGED vars
      BY <2>4 DEF Done, vars, ProxyInv, Read, AtTun, OnLink, AtOut, AtDropped,
                  OtherRead, Replaced, RestoredRead, CoapRead, OpensWithinMessage
    <2>5. QED
      BY <2>1, <2>2, <2>3, <2>4 DEF Next
  <1>2. QED
    BY ProxyInit, <1>1, PTL DEF Spec

-----------------------------------------------------------------------------
(***************************************************************************)
(* aead() gives the cipher a text and a tag that lie within the OSCORE     *)
(* message, whatever its length: the length without the tag is unsigned,   *)
(* and what a short message wraps to is refused for want of room           *)
(* (ascon_integration.c:69-71).                                            *)
(***************************************************************************)
THEOREM OpenedWithin == Spec => []OpensWithinMessage
  <1>1. ProxyInv => OpensWithinMessage
    BY DEF ProxyInv
  <1>2. QED
    BY Proxied, <1>1, PTL

(***************************************************************************)
(* A datagram that was valid when it was read stays valid, whatever the    *)
(* octets put in place of its payload: the checksum of udp.c makes the sum *)
(* fold to all ones for every payload that fits, and is never zero.        *)
(***************************************************************************)
THEOREM DatagramsStayValid == Spec => []StaysValid
  <1>1. ProxyInv => StaysValid
    <2> SUFFICES ASSUME ProxyInv, Valid(offered), stage \in {"link", "out"}
                 PROVE  Valid(pkt)
      BY DEF StaysValid
    <2>1. CASE Replaced
      BY <2>1, DatagramFields DEF Replaced, Messages
    <2>2. CASE pkt = offered
      BY <2>2
    <2>3. CASE RestoredRead
      BY <2>3, RestoredFits, DatagramFields DEF RestoredRead, CoapRead
    <2> QED
      BY <2>1, <2>2, <2>3 DEF ProxyInv, OnLink, AtOut
  <1>2. QED
    BY Proxied, <1>1, PTL

(***************************************************************************)
(* What is written at the other end is what was read or, to the lengths    *)
(* and the checksum, what an IP stack builds of the message uoscore        *)
(* restored: refreshing them depends on the payload alone, so the OSCORE   *)
(* message that was there in between leaves no trace.                      *)
(***************************************************************************)
THEOREM SameAtOtherEnd == Spec => []ComesOutAsItWent
  <1>1. ProxyInv => ComesOutAsItWent
    BY DEF ProxyInv, AtOut, RestoredRead, ComesOutAsItWent
  <1>2. QED
    BY Proxied, <1>1, PTL

(***************************************************************************)
(* Whether a valid datagram that is not CoAP reaches the other end is told *)
(* by DROP_NON_COAP alone.                                                 *)
(***************************************************************************)
THEOREM FilteredAsBuilt == Spec => []OthersByBuild
  <1>1. ProxyInv => OthersByBuild
    BY DEF ProxyInv, AtOut, AtDropped, OtherRead, OthersByBuild
  <1>2. QED
    BY Proxied, <1>1, PTL
=============================================================================
