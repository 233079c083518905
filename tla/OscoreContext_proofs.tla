------------------------ MODULE OscoreContext_proofs ------------------------
(***************************************************************************)
(* The sequence number and the key in their file, for every set of numbers, *)
(* every width of the variable it is read into, every build and whatever    *)
(* the octets nobody wrote hold; Base64, for any octets; and the key        *)
(* material, for any size of hash and any salt.                             *)
(***************************************************************************)
EXTENDS OscoreContext, WellFoundedInduction, TLAPS

-----------------------------------------------------------------------------
\* The values the number takes on its way.
NvmTypes ==
  /\ pc \in {"down", "idle", "writing"}
  /\ ssn \in Nat /\ last \in Nat

\* Between fopen() and fclose() the file holds nothing, and what will be written is
\* what was asked for last: zero, if it is nvm_read_ssn that creates the file.
WhileWriting ==
  pc = "writing" =>
    /\ ssn = last /\ file.ssn = {} /\ result = None
    /\ op = "read" => last = 0

NvmInv == NvmTypes /\ WhileWriting /\ FileHoldsLast /\ ReadsLastStored

\* No file, and nothing stored.
LEMMA NvmInitially == NvmInit => NvmInv
  BY DEF NvmInit, NvmInv, NvmTypes, WhileWriting, FileHoldsLast, ReadsLastStored,
         Absent, None

\* Zero is the same in any width.
LEMMA ZeroFits == 0 % Width = 0
  BY NvmAssumption

\* Opening the file for a number leaves nothing of what it held.
LEMMA OpenStep ==
  ASSUME NvmInv, NEW n \in Nat, Open(n), op' = "read" => n = 0
  PROVE  NvmInv'
  BY DEF NvmInv, NvmTypes, WhileWriting, FileHoldsLast, ReadsLastStored, Open,
         Truncated, None

\* A call that is refused changes nothing but its answer.
LEMMA RefusedStep ==
  ASSUME NvmInv, pc = "idle", result' = Error, UNCHANGED <<file, pc, ssn, last>>
  PROVE  NvmInv'
  BY DEF NvmInv, NvmTypes, WhileWriting, FileHoldsLast, ReadsLastStored, Error

\* What is read from the file is the number it holds.
LEMMA ReadStep == NvmInv /\ Read => NvmInv'
  <1> SUFFICES ASSUME NvmInv, Read PROVE NvmInv'
    OBVIOUS
  <1> USE DEF NvmInv, Read
  <1>1. NvmTypes' /\ WhileWriting' /\ FileHoldsLast'
    BY DEF NvmTypes, WhileWriting, FileHoldsLast
  <1>2. ReadsLastStored'
    <2>1. CASE file.key # NoBytes /\ file.ssn # {}
      <3>1. (CHOOSE n \in file.ssn : TRUE) = last
        BY <2>1 DEF FileHoldsLast
      <3>2. result' = Ok(last % Width)
        BY <2>1, <3>1 DEF FromFile
      <3> QED
        BY <3>2 DEF ReadsLastStored, Ok
    <2>2. CASE ~(file.key # NoBytes /\ file.ssn # {})
      BY <2>2 DEF FromFile, Error, ReadsLastStored
    <2> QED
      BY <2>1, <2>2
  <1> QED
    BY <1>1, <1>2

\* The lines reach the file, or do not.
LEMMA CloseStep == NvmInv /\ Close => NvmInv'
  <1> SUFFICES ASSUME NvmInv, Close PROVE NvmInv'
    OBVIOUS
  <1> USE DEF NvmInv, Close
  <1>1. NvmTypes' /\ WhileWriting'
    BY DEF NvmTypes, WhileWriting
  <1>2. FileHoldsLast'
    <2>1. CASE UNCHANGED file
      BY <2>1 DEF FileHoldsLast
    <2>2. ASSUME NEW key \in Keys, file' = Holding(key, ssn) PROVE FileHoldsLast'
      BY <2>2 DEF Holding, FileHoldsLast, WhileWriting
    <2> QED
      BY <2>1, <2>2
  <1>3. ReadsLastStored'
    BY ZeroFits DEF ReadsLastStored, WhileWriting, Ok
  <1> QED
    BY <1>1, <1>2, <1>3

\* The invariant of the file, one call after another.
LEMMA NvmStep == NvmInv /\ [NvmNext]_nvmVars => NvmInv'
  <1> SUFFICES ASSUME NvmInv, [NvmNext]_nvmVars PROVE NvmInv'
    OBVIOUS
  <1> USE DEF NvmInv
  <1>1. CASE Start
    BY <1>1 DEF Start, NvmTypes, WhileWriting, FileHoldsLast, ReadsLastStored, None
  <1>2. ASSUME NEW n \in Numbers, Write(n) PROVE NvmInv'
    <2>1. n \in Nat
      BY NvmAssumption
    <2>2. CASE Open(n)
      BY <1>2, <2>1, <2>2, OpenStep DEF Write
    <2>3. CASE result' = Error /\ UNCHANGED <<file, pc, ssn, last>>
      BY <1>2, <2>3, RefusedStep DEF Write
    <2> QED
      BY <1>2, <2>2, <2>3 DEF Write
  <1>3. CASE Close
    BY <1>3, CloseStep
  <1>4. CASE Read
    BY <1>4, ReadStep
  <1>5. CASE ReadNew
    <2>1. CASE Open(0)
      BY <1>5, <2>1, OpenStep
    <2>2. CASE result' = Error /\ UNCHANGED <<file, pc, ssn, last>>
      BY <1>5, <2>2, RefusedStep DEF ReadNew
    <2> QED
      BY <1>5, <2>1, <2>2 DEF ReadNew
  <1>6. CASE Crash
    BY <1>6 DEF Crash, NvmTypes, WhileWriting, FileHoldsLast, ReadsLastStored
  <1>7. CASE UNCHANGED nvmVars
    BY <1>7 DEF nvmVars, NvmTypes, WhileWriting, FileHoldsLast, ReadsLastStored
  <1> QED
    BY <1>1, <1>2, <1>3, <1>4, <1>5, <1>6, <1>7 DEF NvmNext

-----------------------------------------------------------------------------
\* The derivation of keys leaves the file and the number alone, and every other step
\* of the process is one of OscoreNvm.
LEMMA ContextStep == [Next]_vars => [NvmNext]_nvmVars
  BY DEF Next, Boot, Ask, Derive, HasKey, Serve, Die, NvmNext, vars, nvmVars

\* The inductive invariant of the file, through any crash and restart
\* (nvm_write_ssn, nvm_read_ssn).
THEOREM NvmInvariance == Spec => []NvmInv
  <1>1. Init => NvmInv
    BY NvmInitially DEF Init
  <1>2. NvmInv /\ [Next]_vars => NvmInv'
    BY ContextStep, NvmStep
  <1> QED
    BY <1>1, <1>2, PTL DEF Spec

\* The file never holds a number older than the one whose storing began last: a crash
\* in nvm_write_ssn leaves none.
THEOREM NeverOlder == Spec => []FileHoldsLast
  <1>1. NvmInv => FileHoldsLast
    BY DEF NvmInv
  <1> QED
    BY <1>1, NvmInvariance, PTL

\* What nvm_read_ssn returns is the number stored last, as 32 bits hold it.
THEOREM ReadsWhatWasStored == Spec => []ReadsLastStored
  <1>1. NvmInv => ReadsLastStored
    BY DEF NvmInv
  <1> QED
    BY <1>1, NvmInvariance, PTL
-----------------------------------------------------------------------------
\* Numbers: a least one, and division with a remainder.

\* A non-empty set of numbers has a least element: what inductions rest on.
LEMMA LeastElement ==
  ASSUME NEW S \in SUBSET Nat, S # {}
  PROVE  \E n \in S : \A m \in S : ~(m < n)
  <1>1. IsWellFoundedOn(OpToRel(<,Nat), Nat)
    BY NatLessThanWellFounded
  <1>2. PICK n \in S : \A m \in S : ~(<<m,n>> \in OpToRel(<,Nat))
    BY <1>1, WFMin
  <1>3. ASSUME NEW m \in S, m < n PROVE FALSE
    <2>1. <<m,n>> \in OpToRel(<,Nat)
      BY <1>3 DEF OpToRel
    <2> QED BY <2>1, <1>2
  <1> QED BY <1>2, <1>3

\* Division with a remainder, and that there is only one.
LEMMA Divided ==
  ASSUME NEW s \in Nat, NEW b \in Nat \ {0}
  PROVE  /\ s \div b \in Nat /\ s % b \in 0..b - 1
         /\ s = b * (s \div b) + (s % b)
  OBVIOUS

LEMMA Remainder ==
  ASSUME NEW b \in Nat \ {0}, NEW k \in Nat, NEW m \in 0..b - 1
  PROVE  (b * k + m) % b = m /\ (b * k + m) \div b = k
  <1> DEFINE s == b * k + m
             q == s \div b
             r == s % b
  <1>1. s \in Nat
    OBVIOUS
  <1>2. q \in Nat /\ r \in 0..b - 1 /\ s = b * q + r
    BY <1>1, Divided
  <1> HIDE DEF q, r
  <1>3. b * (q - k) = m - r
    BY <1>2
  <1>4. q = k
    <2>1. CASE q - k >= 1
      <3>1. b * (q - k) >= b
        BY <1>2, <2>1
      <3> QED BY <1>2, <1>3, <3>1
    <2>2. CASE q - k <= -1
      <3>1. b * (q - k) <= -b
        BY <1>2, <2>2
      <3> QED BY <1>2, <1>3, <3>1
    <2> QED BY <1>2, <2>1, <2>2
  <1>5. r = m
    BY <1>2, <1>3, <1>4
  <1> QED
    BY <1>4, <1>5 DEF q, r


-----------------------------------------------------------------------------
\* The table of the first n tags, as T(n) defines it.
TagDef(u, n) ==
  [m \in 0..n |-> IF m = 0 THEN NoTag ELSE Hmac(Prk, <<u[m - 1], m>>)]
Tags(n) == CHOOSE u : u = TagDef(u, n)

\* A table of the first tags exists, up to any number, and a longer one extends it.
LEMMA TagsExist == ASSUME NEW N \in Nat PROVE \E u : u = TagDef(u, N)
  <1> DEFINE Wrong == {n \in Nat : ~ \E u : u = TagDef(u, n)}
  <1> SUFFICES ASSUME Wrong # {} PROVE FALSE
    OBVIOUS
  <1>1. PICK n \in Wrong : \A m \in Wrong : ~(m < n)
    <2>1. Wrong \in SUBSET Nat
      OBVIOUS
    <2> HIDE DEF Wrong
    <2> QED BY <2>1, LeastElement
  <1>2. n # 0
    <2>1. [k \in 0..0 |-> NoTag] = TagDef([k \in 0..0 |-> NoTag], 0)
      BY DEF TagDef
    <2> QED BY <2>1
  <1>3. n - 1 \in Nat /\ n - 1 \notin Wrong
    BY <1>1, <1>2
  <1>4. PICK u : u = TagDef(u, n - 1)
    BY <1>3
  <1> DEFINE v == [k \in 0..n |-> IF k < n THEN u[k] ELSE Hmac(Prk, <<u[n - 1], n>>)]
  <1>5. ASSUME NEW k \in 0..n
        PROVE  v[k] = IF k = 0 THEN NoTag ELSE Hmac(Prk, <<v[k - 1], k>>)
    <2>1. CASE k = 0
      BY <1>2, <1>4, <2>1 DEF TagDef
    <2>2. CASE k \in 1..n - 1
      <3>1. u[k] = Hmac(Prk, <<u[k - 1], k>>)
        BY <1>4, <2>2 DEF TagDef
      <3>2. v[k] = u[k] /\ v[k - 1] = u[k - 1] /\ k # 0
        BY <2>2
      <3> QED BY <3>1, <3>2
    <2>3. CASE k = n
      BY <1>2, <2>3
    <2> QED BY <2>1, <2>2, <2>3
  <1>6. v = TagDef(v, n)
    BY <1>5, Zenon DEF TagDef
  <1> QED
    BY <1>6

\* The longer table holds what the shorter one does.
LEMMA TagsAgree ==
  ASSUME NEW N \in Nat, NEW u, u = TagDef(u, N), NEW v, v = TagDef(v, N + 1)
  PROVE  \A m \in 0..N : u[m] = v[m]
  <1> DEFINE Wrong == {m \in 0..N : u[m] # v[m]}
  <1> SUFFICES ASSUME Wrong # {} PROVE FALSE
    OBVIOUS
  <1>1. PICK n \in Wrong : \A m \in Wrong : ~(m < n)
    <2>1. Wrong \in SUBSET Nat
      OBVIOUS
    <2> HIDE DEF Wrong
    <2> QED BY <2>1, LeastElement
  <1>2. n \in 0..N /\ u[n] # v[n]
    BY <1>1
  <1>3. /\ u[n] = IF n = 0 THEN NoTag ELSE Hmac(Prk, <<u[n - 1], n>>)
        /\ v[n] = IF n = 0 THEN NoTag ELSE Hmac(Prk, <<v[n - 1], n>>)
    BY <1>2 DEF TagDef
  <1>4. CASE n = 0
    BY <1>2, <1>3, <1>4
  <1>5. CASE n # 0
    <2>1. n - 1 \in 0..N /\ n - 1 < n
      BY <1>2, <1>5
    <2>2. u[n - 1] = v[n - 1]
      BY <1>1, <2>1
    <2> QED
      BY <1>2, <1>3, <1>5, <2>2
  <1> QED
    BY <1>4, <1>5

\* The chain of tags, as RFC 5869 has it.
LEMMA TagChain ==
  /\ T(0) = NoTag
  /\ \A n \in Nat : T(n + 1) = Hmac(Prk, <<T(n), n + 1>>)
  <1>1. \A n \in Nat : Tags(n) = TagDef(Tags(n), n) /\ T(n) = Tags(n)[n]
    <2> TAKE n \in Nat
    <2>1. Tags(n) = TagDef(Tags(n), n)
      BY TagsExist, Zenon DEF Tags
    <2>2. T(n) = Tags(n)[n]
      BY Zenon DEF T, Tags, TagDef
    <2> QED BY <2>1, <2>2
  <1>2. T(0) = NoTag
    <2>1. Tags(0) = TagDef(Tags(0), 0) /\ T(0) = Tags(0)[0]
      BY <1>1
    <2>2. TagDef(Tags(0), 0)[0] = NoTag
      BY DEF TagDef
    <2> QED
      BY <2>1, <2>2
  <1>3. ASSUME NEW n \in Nat PROVE T(n + 1) = Hmac(Prk, <<T(n), n + 1>>)
    <2> DEFINE u == Tags(n)
               v == Tags(n + 1)
    <2>1. u = TagDef(u, n) /\ T(n) = u[n]
      BY <1>1
    <2>2. v = TagDef(v, n + 1) /\ T(n + 1) = v[n + 1]
      BY <1>1
    <2> HIDE DEF u, v
    <2>3. u[n] = v[n]
      BY <2>1, <2>2, TagsAgree
    <2>4. v[n + 1] = Hmac(Prk, <<v[n], n + 1>>)
      BY <2>2 DEF TagDef
    <2> QED
      BY <2>1, <2>2, <2>3, <2>4
  <1> QED
    BY <1>2, <1>3

-----------------------------------------------------------------------------
\* The block of the key material that octet p is in, and its place there.
BlockOf(p) == (p - 1) \div HashSize + 1
PlaceOf(p) == ((p - 1) % HashSize) + 1

\* An octet is in one block, at one place of it.
LEMMA PlaceIs ==
  ASSUME NEW p \in Nat \ {0}
  PROVE  /\ BlockOf(p) \in Nat \ {0} /\ PlaceOf(p) \in 1..HashSize
         /\ p = HashSize * (BlockOf(p) - 1) + PlaceOf(p)
  <1> DEFINE s == p - 1
             q == s \div HashSize
             r == s % HashSize
  <1>1. s \in Nat /\ HashSize \in Nat \ {0}
    BY HkdfAssumption
  <1> HIDE DEF s
  <1>2. q \in Nat /\ r \in 0..HashSize - 1 /\ s = HashSize * q + r
    BY <1>1, Divided
  <1>3. BlockOf(p) = q + 1 /\ PlaceOf(p) = r + 1
    BY DEF BlockOf, PlaceOf, s
  <1> HIDE DEF q, r
  <1>4. BlockOf(p) - 1 = q
    BY <1>2, <1>3
  <1>5. p = s + 1
    BY DEF s
  <1> QED
    BY <1>1, <1>2, <1>3, <1>4, <1>5

\* No other block and place are the octet's.
LEMMA PlaceUnique ==
  ASSUME NEW p \in Nat, NEW n \in Nat \ {0}, NEW k \in 1..HashSize,
         p = HashSize * (n - 1) + k
  PROVE  BlockOf(p) = n /\ PlaceOf(p) = k
  <1> DEFINE m == n - 1
             j == k - 1
  <1>1. HashSize \in Nat \ {0} /\ m \in Nat /\ j \in 0..HashSize - 1
    BY HkdfAssumption
  <1>2. p - 1 = HashSize * m + j
    BY <1>1
  <1> HIDE DEF m, j
  <1>3. (HashSize * m + j) % HashSize = j /\ (HashSize * m + j) \div HashSize = m
    BY <1>1, Remainder
  <1>4. BlockOf(p) = m + 1 /\ PlaceOf(p) = j + 1
    BY <1>2, <1>3 DEF BlockOf, PlaceOf
  <1> QED
    BY <1>4 DEF m, j

\* The number of blocks is the block of the last octet.
LEMMA BlocksIs ==
  ASSUME NEW len \in Nat
  PROVE  /\ Blocks(len) \in Nat
         /\ \A n \in Nat \ {0} : n <= Blocks(len) <=> HashSize * (n - 1) < len
  <1> DEFINE s == len + HashSize - 1
             q == s \div HashSize
             r == s % HashSize
  <1>1. s \in Nat /\ HashSize \in Nat \ {0}
    BY HkdfAssumption
  <1>0. s = len + HashSize - 1
    OBVIOUS
  <1> HIDE DEF s
  <1>2. q \in Nat /\ r \in 0..HashSize - 1 /\ s = HashSize * q + r
    BY <1>1, Divided
  <1>3. Blocks(len) = q
    BY DEF Blocks, s
  <1> HIDE DEF q, r
  <1>4. ASSUME NEW n \in Nat \ {0} PROVE n <= q <=> HashSize * (n - 1) < len
    <2>1. CASE n <= q
      <3>1. HashSize * (q - n) >= 0
        BY <1>1, <1>2, <2>1
      <3>2. HashSize * (q - n) = HashSize * q - HashSize * (n - 1) - HashSize
        BY <1>1, <1>2
      <3> QED
        BY <1>0, <1>1, <1>2, <2>1, <3>1, <3>2
    <2>2. CASE n > q
      <3>1. HashSize * (n - 1 - q) >= 0
        BY <1>1, <1>2, <2>2
      <3>2. HashSize * (n - 1 - q) = HashSize * (n - 1) - HashSize * q
        BY <1>1, <1>2
      <3> QED
        BY <1>0, <1>1, <1>2, <2>2, <3>1, <3>2
    <2> QED
      BY <1>2, <2>1, <2>2
  <1> QED
    BY <1>2, <1>3, <1>4
-----------------------------------------------------------------------------
\* The counter of blocks, of a narrow type, goes one past the number of blocks: what is
\* asked for must leave it that one.  The keys of uoscore are one block; what happens
\* when more is asked for is LongIsRefused.
ShortEnough == \A len \in Lengths : Blocks(len) <= CounterWidth - 2

\* The octets of the blocks before block n are there.
Copied(n) ==
  \A p \in 1..wanted : BlockOf(p) < n => okm[p] = <<T(BlockOf(p)), PlaceOf(p)>>

\* While it runs: the counter is in range, the last tag is the one of the block before,
\* and what was copied is right; and so it is when the last block has been.
DeriveInv ==
  /\ dState = "running" =>
       /\ wanted \in Nat /\ iterations = Blocks(wanted)
       /\ iterations <= CounterWidth - 2 /\ i \in 1..iterations + 1
       /\ t = T(i - 1) /\ DOMAIN okm = 1..wanted /\ Copied(i)
  /\ dState = "ok" => wanted \in Nat /\ Copied(Blocks(wanted) + 1)

\* A number that fits the counter is kept.
LEMMA Narrow ==
  ASSUME NEW n \in 0..CounterWidth - 1
  PROVE  n % CounterWidth = n
  <1>1. CounterWidth \in Nat \ {0} /\ 0 \in Nat /\ CounterWidth * 0 + n = n
    BY HkdfAssumption
  <1>2. (CounterWidth * 0 + n) % CounterWidth = n
    BY <1>1, Remainder
  <1> QED
    BY <1>1, <1>2

\* The derivation begins with no block copied.
LEMMA ExpandStep ==
  ASSUME ShortEnough, NEW len \in Lengths, Expand(len)
  PROVE  DeriveInv'
  <1>1. len \in Nat /\ CounterWidth \in Nat
    BY HkdfAssumption
  <1>2. Blocks(len) \in Nat /\ Blocks(len) <= CounterWidth - 2
    BY <1>1, BlocksIs DEF ShortEnough
  <1>3. Blocks(len) % CounterWidth = Blocks(len)
    BY <1>1, <1>2, Narrow
  <1>4. wanted' = len /\ iterations' = Blocks(len) /\ dState' = "running"
    BY <1>1, <1>2, <1>3 DEF Expand
  <1>5. i' = 1 /\ t' = NoTag /\ DOMAIN okm' = 1..wanted'
    BY <1>4 DEF Expand
  <1>6. t' = T(i' - 1)
    BY <1>5, TagChain
  <1>7. Copied(i)'
    <2> SUFFICES ASSUME NEW p \in 1..wanted', BlockOf(p) < i' PROVE FALSE
      BY DEF Copied
    <2>1. p \in Nat \ {0}
      BY <1>1, <1>4
    <2> QED
      BY <1>5, <2>1, PlaceIs
  <1>8. i' \in 1..iterations' + 1
    BY <1>2, <1>4, <1>5
  <1> QED
    BY <1>1, <1>2, <1>4, <1>5, <1>6, <1>7, <1>8 DEF DeriveInv

\* The octets block i copies are those of block i, to the end of the buffer.
LEMMA CopiesBlock ==
  ASSUME DeriveInv, dState = "running", i <= iterations, NEW p \in 1..wanted
  PROVE  /\ p - (i - 1) * HashSize \in 1..CopyLen(i) <=> BlockOf(p) = i
         /\ BlockOf(p) = i => p - (i - 1) * HashSize = PlaceOf(p)
  <1> DEFINE before == HashSize * (i - 1)
             k == p - before
  <1>1. /\ wanted \in Nat /\ i \in Nat \ {0} /\ HashSize \in Nat \ {0}
        /\ i <= Blocks(wanted) /\ p \in Nat \ {0} /\ p <= wanted
    <2>1. /\ wanted \in Nat /\ iterations = Blocks(wanted)
          /\ i \in 1..iterations + 1
      BY DEF DeriveInv
    <2>2. Blocks(wanted) \in Nat
      BY <2>1, BlocksIs
    <2> QED
      BY <2>1, <2>2, HkdfAssumption
  <1>2. before < wanted /\ before \in Nat
    BY <1>1, BlocksIs
  <1>3. (i - 1) * HashSize = before
    BY <1>1
  <1>4. CopyLen(i) = IF wanted - before < HashSize THEN wanted - before ELSE HashSize
    <2>1. CASE wanted - before < HashSize
      <3> DEFINE m == wanted - before
                 j == i - 1
      <3>1. m \in 0..HashSize - 1 /\ j \in Nat /\ wanted = HashSize * j + m
        BY <1>1, <1>2, <2>1
      <3> HIDE DEF m, j
      <3>2. wanted % HashSize = m
        BY <1>1, <3>1, Remainder
      <3> QED
        BY <1>3, <2>1, <3>2 DEF CopyLen, m
    <2>2. CASE ~(wanted - before < HashSize)
      BY <1>3, <2>2 DEF CopyLen
    <2> QED
      BY <2>1, <2>2
  <1>5. BlockOf(p) = i => k = PlaceOf(p) /\ k \in 1..HashSize
    <2>1. /\ BlockOf(p) \in Nat \ {0} /\ PlaceOf(p) \in 1..HashSize
          /\ p = HashSize * (BlockOf(p) - 1) + PlaceOf(p)
      BY <1>1, PlaceIs
    <2> SUFFICES ASSUME BlockOf(p) = i PROVE k = PlaceOf(p) /\ k \in 1..HashSize
      OBVIOUS
    <2>2. p = before + PlaceOf(p)
      BY <2>1
    <2> HIDE DEF before
    <2> QED
      BY <1>1, <1>2, <2>1, <2>2
  <1>6. k \in 1..HashSize => BlockOf(p) = i
    <2> SUFFICES ASSUME k \in 1..HashSize PROVE BlockOf(p) = i
      OBVIOUS
    <2>1. p = HashSize * (i - 1) + k
      BY <1>1, <1>2
    <2> HIDE DEF k
    <2> QED
      BY <1>1, <2>1, PlaceUnique
  <1> HIDE DEF before
  <1>7. k \in 1..CopyLen(i) <=> k \in 1..HashSize
    BY <1>1, <1>2, <1>4
  <1>8. p - (i - 1) * HashSize = k
    BY <1>3
  <1> HIDE DEF k
  <1> QED
    BY <1>5, <1>6, <1>7, <1>8

\* A block is chained to the one before and copied to its place.
LEMMA BlockStep == DeriveInv /\ Block => DeriveInv'
  <1> SUFFICES ASSUME DeriveInv, Block PROVE DeriveInv'
    OBVIOUS
  <1>1. /\ dState = "running" /\ i <= iterations /\ wanted \in Nat
        /\ iterations = Blocks(wanted) /\ iterations <= CounterWidth - 2
        /\ i \in Nat \ {0} /\ iterations \in Nat /\ t = T(i - 1)
        /\ DOMAIN okm = 1..wanted /\ Copied(i) /\ CounterWidth \in Nat
    <2>1. /\ dState = "running" /\ i <= iterations
      BY DEF Block
    <2>2. /\ wanted \in Nat /\ iterations = Blocks(wanted)
          /\ iterations <= CounterWidth - 2 /\ i \in 1..iterations + 1
          /\ t = T(i - 1) /\ DOMAIN okm = 1..wanted /\ Copied(i)
      BY <2>1 DEF DeriveInv
    <2>3. iterations \in Nat
      BY <2>2, BlocksIs
    <2> QED
      BY <2>1, <2>2, <2>3, HkdfAssumption
  <1>2. UNCHANGED <<dState, wanted, iterations>>
    BY DEF Block
  <1>3. i' = i + 1
    <2>1. i + 1 \in 0..CounterWidth - 1
      BY <1>1
    <2>2. (i + 1) % CounterWidth = i + 1
      BY <2>1, Narrow
    <2> QED
      BY <2>2 DEF Block
  <1>4. t' = T(i)
    <2>1. t' = Hmac(Prk, <<IF i > 1 THEN t ELSE NoTag, i>>)
      BY DEF Block, Msg
    <2>2. (IF i > 1 THEN t ELSE NoTag) = T(i - 1)
      <3>1. CASE i > 1
        BY <1>1, <3>1
      <3>2. CASE i = 1
        BY <3>2, TagChain
      <3> QED
        BY <1>1, <3>1, <3>2
    <2>3. T((i - 1) + 1) = Hmac(Prk, <<T(i - 1), (i - 1) + 1>>) /\ (i - 1) + 1 = i
      BY <1>1, TagChain
    <2> QED
      BY <2>1, <2>2, <2>3
  <1>5. DOMAIN okm' = 1..wanted
    BY <1>1 DEF Block
  <1>6. ASSUME NEW p \in 1..wanted, BlockOf(p) < i + 1
        PROVE  okm'[p] = <<T(BlockOf(p)), PlaceOf(p)>>
    <2>1. okm'[p] = IF p - (i - 1) * HashSize \in 1..CopyLen(i)
                      THEN <<t', p - (i - 1) * HashSize>> ELSE okm[p]
      BY <1>1 DEF Block
    <2>2. CASE BlockOf(p) = i
      BY <1>1, <1>4, <2>1, <2>2, CopiesBlock
    <2>3. CASE BlockOf(p) # i
      <3>1. okm'[p] = okm[p]
        BY <1>1, <2>1, <2>3, CopiesBlock
      <3>2. p \in Nat \ {0}
        BY <1>1
      <3>3. BlockOf(p) < i
        BY <1>1, <1>6, <2>3, <3>2, PlaceIs
      <3> QED
        BY <1>1, <3>1, <3>3 DEF Copied
    <2> QED
      BY <2>2, <2>3
  <1>7. Copied(i)'
    BY <1>2, <1>3, <1>6 DEF Copied
  <1>8. i' \in 1..iterations' + 1 /\ t' = T(i' - 1)
    BY <1>1, <1>2, <1>3, <1>4
  <1> QED
    BY <1>1, <1>2, <1>5, <1>7, <1>8 DEF DeriveInv

\* One step of the process leaves the derivation alone, or is one of Hkdf's, or ends it.
LEMMA DeriveStep ==
  ASSUME ShortEnough, DeriveInv, [Next]_vars
  PROVE  DeriveInv'
  <1>1. CASE UNCHANGED dVars
    BY <1>1 DEF dVars, DeriveInv, Copied
  <1>2. CASE Forget
    BY <1>2 DEF Forget, DeriveInv
  <1>3. CASE Return
    <2>1. /\ wanted \in Nat /\ iterations = Blocks(wanted)
          /\ i \in 1..iterations + 1 /\ Copied(i) /\ i > iterations
      BY <1>3 DEF Return, DeriveInv
    <2>2. Blocks(wanted) \in Nat
      BY <2>1, BlocksIs
    <2>3. i = Blocks(wanted) + 1
      BY <2>1, <2>2
    <2>4. Copied(Blocks(wanted) + 1)
      BY <2>1, <2>3
    <2>5. UNCHANGED <<wanted, okm>> /\ dState' = "ok"
      BY <1>3 DEF Return
    <2> QED
      BY <2>1, <2>4, <2>5 DEF DeriveInv, Copied
  <1> QED
    BY <1>1, <1>2, <1>3, ExpandStep, BlockStep
    DEF Next, Boot, Ask, Derive, HasKey, Serve, Die, Taken, vars

(***************************************************************************)
(* The key material is that of RFC 5869, for any size of hash, any lengths *)
(* the counter of blocks allows and any salt: the blocks are chained, each *)
(* is at its place, and the last one is cut where the buffer ends.         *)
(***************************************************************************)
THEOREM KeysAsSpecified == ASSUME ShortEnough PROVE Spec => []ExpandsAsSpecified
  <1>1. Init => DeriveInv
    BY DEF Init, HkdfInit, DeriveInv
  <1>2. DeriveInv /\ [Next]_vars => DeriveInv'
    BY DeriveStep
  <1>3. DeriveInv => ExpandsAsSpecified
    <2> SUFFICES ASSUME DeriveInv, dState = "ok", NEW p \in 1..wanted
                 PROVE  okm[p] = <<T(BlockOf(p)), PlaceOf(p)>>
      BY DEF ExpandsAsSpecified, BlockOf, PlaceOf
    <2>1. wanted \in Nat /\ Copied(Blocks(wanted) + 1) /\ p \in Nat \ {0} /\ p <= wanted
      BY DEF DeriveInv
    <2>2. BlockOf(p) \in Nat \ {0} /\ HashSize * (BlockOf(p) - 1) < wanted
      BY <2>1, PlaceIs, HkdfAssumption
    <2>3. BlockOf(p) <= Blocks(wanted) /\ Blocks(wanted) \in Nat
      BY <2>1, <2>2, BlocksIs
    <2> QED
      BY <2>1, <2>2, <2>3 DEF Copied
  <1>4. QED
    BY <1>1, <1>2, <1>3, PTL DEF Spec

-----------------------------------------------------------------------------
\* Base64: four characters of six bits are three octets.

ByteValues == 0..255

\* Octet n of a message counted from 0, zero behind its end, and three of them.
OctetOr0(in, n) == IF n < Len(in) THEN in[n + 1] ELSE 0
Group(in, g) ==
  OctetOr0(in, 3 * g) * 256 ^ 2 + OctetOr0(in, 3 * g + 1) * 256
    + OctetOr0(in, 3 * g + 2)

\* Six bits of such a group, counted from the first.
Six(v, k) == (v \div 64 ^ (3 - k)) % 64

LEMMA OctetOr0Type ==
  ASSUME NEW in \in Seq(ByteValues), NEW n \in Nat
  PROVE  OctetOr0(in, n) \in ByteValues
  <1>1. CASE n < Len(in)
    <2>1. n + 1 \in 1..Len(in)
      BY <1>1
    <2> QED
      BY <1>1, <2>1 DEF OctetOr0
  <1>2. CASE ~(n < Len(in))
    BY <1>2 DEF OctetOr0, ByteValues
  <1> QED
    BY <1>1, <1>2

\* Twenty-four bits are four times six.
LEMMA FourSixes ==
  ASSUME NEW v \in Nat, v < 256 ^ 3
  PROVE  /\ \A k \in 0..3 : Six(v, k) \in 0..63
         /\ v = Six(v, 0) * 64 ^ 3 + Six(v, 1) * 64 ^ 2 + Six(v, 2) * 64 + Six(v, 3)
  <1>1. /\ Six(v, 0) = (v \div 262144) % 64 /\ Six(v, 1) = (v \div 4096) % 64
        /\ Six(v, 2) = (v \div 64) % 64 /\ Six(v, 3) = v % 64
    BY SMT DEF Six
  <1>2. \A k \in 0..3 : Six(v, k) \in 0..63
    BY <1>1, SMT
  <1>3. v = 262144 * ((v \div 262144) % 64) + 4096 * ((v \div 4096) % 64)
              + 64 * ((v \div 64) % 64) + (v % 64)
    <2>1. v = 262144 * (v \div 262144) + 4096 * ((v \div 4096) % 64)
                + 64 * ((v \div 64) % 64) + (v % 64)
      BY SMT
    <2>2. v \div 262144 \in 0..63
      BY SMT
    <2>3. (v \div 262144) % 64 = v \div 262144
      BY <2>2, SMT
    <2> QED
      BY <2>1, <2>3, SMT
  <1>4. \A n \in Nat : n * 64 ^ 3 = 262144 * n /\ n * 64 ^ 2 = 4096 * n
    BY SMT
  <1>5. \A k \in 0..3 : Six(v, k) \in Nat
    BY <1>2, SMT
  <1>6. /\ Six(v, 0) * 64 ^ 3 = 262144 * ((v \div 262144) % 64)
        /\ Six(v, 1) * 64 ^ 2 = 4096 * ((v \div 4096) % 64)
        /\ Six(v, 2) * 64 = 64 * ((v \div 64) % 64)
    BY <1>1, <1>4, <1>5, SMT
  <1> DEFINE x0 == 262144 * ((v \div 262144) % 64)
             x1 == 4096 * ((v \div 4096) % 64)
             x2 == 64 * ((v \div 64) % 64)
             y0 == Six(v, 0) * 64 ^ 3
             y1 == Six(v, 1) * 64 ^ 2
             y2 == Six(v, 2) * 64
  <1>7. v = x0 + x1 + x2 + (v % 64) /\ y0 = x0 /\ y1 = x1 /\ y2 = x2
    BY <1>3, <1>6
  <1> HIDE DEF x0, x1, x2, y0, y1, y2
  <1>8. v = y0 + y1 + y2 + Six(v, 3)
    BY <1>1, <1>7
  <1> QED
    BY <1>2, <1>8 DEF y0, y1, y2

\* And three times eight; an octet of zero leaves zero in the six bits it fills.
LEMMA ThreeEights ==
  ASSUME NEW a \in ByteValues, NEW b \in ByteValues, NEW c \in ByteValues
  PROVE  LET v == a * 256 ^ 2 + b * 256 + c IN
         /\ v \in Nat /\ v < 256 ^ 3
         /\ (v \div 256 ^ 2) % 256 = a /\ (v \div 256 ^ 1) % 256 = b
         /\ (v \div 256 ^ 0) % 256 = c
         /\ c = 0 => Six(v, 3) = 0
         /\ b = 0 /\ c = 0 => Six(v, 2) = 0
  <1> DEFINE v == a * 256 ^ 2 + b * 256 + c
  <1>1. v \in Nat /\ v < 256 ^ 3
    BY SMT DEF ByteValues
  <1>2. (v \div 65536) % 256 = a /\ (v \div 256) % 256 = b /\ v % 256 = c
    BY SMT DEF ByteValues
  <1>3. c = 0 => v % 64 = 0
    BY SMT DEF ByteValues
  <1>4. b = 0 /\ c = 0 => (v \div 64) % 64 = 0
    BY SMT DEF ByteValues
  <1> HIDE DEF v
  <1>5. /\ (v \div 256 ^ 2) % 256 = a /\ (v \div 256 ^ 1) % 256 = b
        /\ (v \div 256 ^ 0) % 256 = c
    BY <1>1, <1>2, SMT
  <1>6. Six(v, 2) = (v \div 64) % 64 /\ Six(v, 3) = v % 64
    BY <1>1, SMT DEF Six
  <1>7. (c = 0 => Six(v, 3) = 0) /\ (b = 0 /\ c = 0 => Six(v, 2) = 0)
    BY <1>3, <1>4, <1>6
  <1> QED
    BY <1>1, <1>5, <1>7 DEF v

\* The octets of a group can be read back from it.
LEMMA GroupIs ==
  ASSUME NEW in \in Seq(ByteValues), NEW g \in Nat
  PROVE  /\ Group(in, g) \in Nat /\ Group(in, g) < 256 ^ 3
         /\ \A k \in 0..2 : 
              (Group(in, g) \div 256 ^ (2 - k)) % 256 = OctetOr0(in, 3 * g + k)
         /\ OctetOr0(in, 3 * g + 2) = 0 => Six(Group(in, g), 3) = 0
         /\ OctetOr0(in, 3 * g + 1) = 0 /\ OctetOr0(in, 3 * g + 2) = 0
              => Six(Group(in, g), 2) = 0
  <1> DEFINE a == OctetOr0(in, 3 * g)
             b == OctetOr0(in, 3 * g + 1)
             c == OctetOr0(in, 3 * g + 2)
             v == a * 256 ^ 2 + b * 256 + c
  <1>1. a \in ByteValues /\ b \in ByteValues /\ c \in ByteValues
    BY OctetOr0Type
  <1>2. v = Group(in, g)
    BY Zenon DEF Group
  <1> HIDE DEF a, b, c
  <1>3. /\ v \in Nat /\ v < 256 ^ 3
        /\ (v \div 256 ^ 2) % 256 = a /\ (v \div 256 ^ 1) % 256 = b
        /\ (v \div 256 ^ 0) % 256 = c
        /\ c = 0 => Six(v, 3) = 0
        /\ b = 0 /\ c = 0 => Six(v, 2) = 0
    BY <1>1, ThreeEights
  <1> HIDE DEF v
  <1>4. ASSUME NEW k \in 0..2
        PROVE  (v \div 256 ^ (2 - k)) % 256 = OctetOr0(in, 3 * g + k)
    <2>1. CASE k = 0
      BY <1>3, <2>1 DEF a
    <2>2. CASE k = 1
      BY <1>3, <2>2 DEF b
    <2>3. CASE k = 2
      BY <1>3, <2>3 DEF c
    <2> QED
      BY <2>1, <2>2, <2>3
  <1> QED
    BY <1>2, <1>3, <1>4 DEF b, c

\* A character is six bits of the group, or the padding where those are zero.
LEMMA SextetIs ==
  ASSUME NEW in \in Seq(ByteValues), NEW g \in Nat, NEW k \in 0..3
  PROVE  /\ Sextet(in, g, k) \in 0..64
         /\ Sextet(in, g, k) = Pad <=> k >= 2 /\ 3 * g + k - 1 >= Len(in)
         /\ (IF Sextet(in, g, k) = Pad THEN 0 ELSE Sextet(in, g, k))
              = Six(Group(in, g), k)
  <1> DEFINE v == Group(in, g)
             padded == k >= 2 /\ 3 * g + k - 1 >= Len(in)
  <1>1. v \in Nat /\ v < 256 ^ 3
    BY GroupIs, Zenon
  <1>2. Six(v, k) \in 0..63
    BY <1>1, FourSixes, Zenon
  <1>3. Sextet(in, g, k) = IF padded THEN Pad ELSE Six(v, k)
    BY Zenon DEF Sextet, Six, Group, OctetOr0
  <1>4. padded => Six(v, k) = 0
    <2> SUFFICES ASSUME padded PROVE Six(v, k) = 0
      OBVIOUS
    <2>1. Len(in) \in Nat
      OBVIOUS
    <2>2. OctetOr0(in, 3 * g + 2) = 0
      BY <2>1 DEF OctetOr0
    <2>3. CASE k = 3
      BY <2>2, <2>3, GroupIs, Zenon
    <2>4. CASE k = 2
      <3>1. OctetOr0(in, 3 * g + 1) = 0
        BY <2>1, <2>4 DEF OctetOr0
      <3> QED
        BY <2>2, <2>4, <3>1, GroupIs, Zenon
    <2> QED
      BY <2>3, <2>4
  <1>5. Pad = 64
    BY DEF Pad
  <1> DEFINE s == Sextet(in, g, k)
             x == Six(v, k)
  <1>6. x \in 0..63 /\ s = (IF padded THEN Pad ELSE x) /\ (padded => x = 0)
    BY <1>2, <1>3, <1>4, Zenon
  <1> HIDE DEF padded, v, s, x
  <1>7. s \in 0..64 /\ (s = Pad <=> padded) /\ (IF s = Pad THEN 0 ELSE s) = x
    <2>1. CASE padded
      BY <1>5, <1>6, <2>1, SMT
    <2>2. CASE ~padded
      BY <1>5, <1>6, <2>2, SMT
    <2> QED
      BY <2>1, <2>2
  <1> QED
    BY <1>7, Zenon DEF padded, v, s, x

\* How many groups a message has, the last one begun or full.
Groups(in) == (Len(in) + 2) \div 3

\* Every group is four characters of the alphabet, or of padding.
LEMMA EncodedAs ==
  ASSUME NEW in \in Seq(ByteValues), in # <<>>
  PROVE  /\ Groups(in) \in Nat \ {0} /\ 3 * Groups(in) - Len(in) \in 0..2
         /\ b64_encode(in) \in [1..4 * Groups(in) -> 0..64]
         /\ Len(b64_encode(in)) = 4 * Groups(in)
         /\ \A g \in 0..Groups(in) - 1, k \in 0..3 :
              b64_encode(in)[4 * g + k + 1] = Sextet(in, g, k)
  <1> DEFINE e == b64_encode(in)
             Q == Groups(in)
  <1>1. Len(in) \in Nat \ {0}
    OBVIOUS
  <1>2. Q \in Nat \ {0} /\ 3 * Q - Len(in) \in 0..2
    BY <1>1 DEF Groups
  <1>3. e = [j \in 1..4 * Q |-> Sextet(in, (j - 1) \div 4, (j - 1) % 4)]
    <2>1. b64_encoded_size(Len(in)) = 4 * Q
      BY <1>1 DEF b64_encoded_size, Groups
    <2> QED
      BY <2>1, Zenon DEF b64_encode
  <1> HIDE DEF e, Q
  <1>4. ASSUME NEW j \in 1..4 * Q
        PROVE  Sextet(in, (j - 1) \div 4, (j - 1) % 4) \in 0..64
    <2>1. (j - 1) \div 4 \in Nat /\ (j - 1) % 4 \in 0..3
      BY <1>2
    <2> QED
      BY <2>1, SextetIs
  <1>5. e \in [1..4 * Q -> 0..64]
    BY <1>3, <1>4
  <1>6. Len(e) = 4 * Q
    BY <1>2, <1>5
  <1>7. ASSUME NEW g \in 0..Q - 1, NEW k \in 0..3
        PROVE  e[4 * g + k + 1] = Sextet(in, g, k)
    <2> DEFINE j == 4 * g + k + 1
    <2>1. j \in 1..4 * Q /\ (j - 1) \div 4 = g /\ (j - 1) % 4 = k
      BY <1>2
    <2> HIDE DEF j
    <2>2. e[j] = Sextet(in, g, k)
      BY <1>3, <2>1
    <2> QED
      BY <2>2 DEF j
  <1> QED
    BY <1>2, <1>5, <1>6, <1>7 DEF e, Q

\* The padding tells how many octets there are.
LEMMA DecodedSize ==
  ASSUME NEW in \in Seq(ByteValues), in # <<>>
  PROVE  b64_decoded_size(b64_encode(in)) = Len(in)
  <1> DEFINE e == b64_encode(in)
             Q == Groups(in)
             pads == 3 * Q - Len(in)
  <1>1. /\ Q \in Nat \ {0} /\ pads \in 0..2 /\ Len(e) = 4 * Q /\ Len(in) \in Nat
        /\ \A g \in 0..Q - 1, k \in 0..3 : e[4 * g + k + 1] = Sextet(in, g, k)
    BY EncodedAs
  <1>0. Len(in) = 3 * Q - pads
    BY <1>1
  <1> HIDE DEF e, Q, pads
  <1>2. ASSUME NEW j \in 1..4 * Q PROVE e[j] = Pad <=> j > 4 * Q - pads
    <2> DEFINE g == (j - 1) \div 4
               k == (j - 1) % 4
    <2>1. g \in 0..Q - 1 /\ k \in 0..3 /\ j = 4 * g + k + 1
      BY <1>1
    <2> HIDE DEF g, k
    <2>2. e[j] = Pad <=> k >= 2 /\ 3 * g + k - 1 >= Len(in)
      <3>0. e[4 * g + k + 1] = Sextet(in, g, k)
        BY <1>1, <2>1, Zenon
      <3>1. e[j] = Sextet(in, g, k) /\ g \in Nat
        BY <1>1, <2>1, <3>0
      <3>2. Sextet(in, g, k) = Pad <=> k >= 2 /\ 3 * g + k - 1 >= Len(in)
        BY <2>1, <3>1, SextetIs, Zenon
      <3> QED
        BY <3>1, <3>2, Zenon
    <2>3. k >= 2 /\ 3 * g + k - 1 >= 3 * Q - pads <=> j > 4 * Q - pads
      <3>1. CASE g = Q - 1
        BY <1>1, <2>1, <3>1, SMT
      <3>2. CASE g < Q - 1
        BY <1>1, <2>1, <3>2, SMT
      <3> QED
        BY <1>1, <2>1, <3>1, <3>2, SMT
    <2> QED
      BY <1>0, <2>2, <2>3, Zenon
  <1> DEFINE Ends(p) == /\ \A j \in Len(e) - p + 1..Len(e) : e[j] = Pad
                        /\ p = Len(e) \/ e[Len(e) - p] # Pad
  <1>3. Ends(pads)
    <2>1. 4 * Q - pads \in 1..4 * Q
      BY <1>1
    <2> QED
      BY <1>1, <1>2, <2>1
  <1>4. ASSUME NEW p \in 0..Len(e), Ends(p) PROVE p = pads
    <2>1. CASE p > pads
      <3> DEFINE j == 4 * Q - pads
      <3>1. j \in 1..4 * Q /\ j \in Len(e) - p + 1..Len(e) /\ ~(j > 4 * Q - pads)
        BY <1>1, <2>1, SMT
      <3> HIDE DEF j
      <3>2. e[j] = Pad
        BY <1>4, <3>1, Zenon
      <3> QED
        BY <1>2, <3>1, <3>2, Zenon
    <2>2. CASE p < pads
      <3> DEFINE j == Len(e) - p
      <3>1. j \in 1..4 * Q /\ j > 4 * Q - pads /\ p # Len(e)
        BY <1>1, <2>2, SMT
      <3>2. e[j] # Pad
        BY <1>4, <3>1, Zenon
      <3> HIDE DEF j
      <3> QED
        BY <1>2, <3>1, <3>2, Zenon
    <2> QED
      BY <1>1, <2>1, <2>2
  <1>5. (CHOOSE p \in 0..Len(e) : Ends(p)) = pads
    <2>1. pads \in 0..Len(e)
      BY <1>1
    <2> HIDE DEF Ends
    <2> QED
      BY <1>3, <1>4, <2>1
  <1>6. b64_decoded_size(e) = (Len(e) \div 4) * 3 - (CHOOSE p \in 0..Len(e) : Ends(p))
    BY Zenon DEF b64_decoded_size
  <1>7. (4 * Q) \div 4 = Q
    BY <1>1
  <1>8. b64_decoded_size(e) = Q * 3 - pads
    BY <1>1, <1>5, <1>6, <1>7, Zenon
  <1>9. b64_decoded_size(e) = Len(in)
    BY <1>0, <1>1, <1>8, SMT
  <1> QED
    BY <1>9 DEF e

(***************************************************************************)
(* What b64_encode was given b64_decode gives back, of any length but none *)
(* and whatever its octets: for no octets the first returns NULL.          *)
(***************************************************************************)
THEOREM RoundTrip ==
  ASSUME NEW in \in Seq(ByteValues), in # <<>>
  PROVE  b64_encode(in) # NoBytes /\ b64_decode(b64_encode(in)) = in
  <1> DEFINE e == b64_encode(in)
             Q == Groups(in)
  <1>1. /\ Q \in Nat \ {0} /\ 3 * Q - Len(in) \in 0..2 /\ Len(e) = 4 * Q
        /\ Len(in) \in Nat
        /\ e \in [1..4 * Q -> 0..64]
        /\ \A g \in 0..Q - 1, k \in 0..3 : e[4 * g + k + 1] = Sextet(in, g, k)
    BY EncodedAs
  <1>2. b64_decoded_size(e) = Len(in)
    BY DecodedSize
  <1> HIDE DEF e, Q
  <1>3. e # NoBytes
    <2>1. Len(NoBytes) = 1
      BY DEF NoBytes
    <2> QED
      BY <1>1, <2>1
  <1>4. Len(e) % 4 = 0 /\ \A j \in DOMAIN e : b64_isvalidchar(e[j])
    <2>1. Len(e) % 4 = 0
      BY <1>1, SMT
    <2>2. ASSUME NEW j \in DOMAIN e PROVE b64_isvalidchar(e[j])
      <3> DEFINE c == e[j]
      <3>1. c \in 0..64
        BY <1>1
      <3> HIDE DEF c
      <3>2. b64_isvalidchar(c)
        BY <3>1, SMT DEF b64_isvalidchar, Pad
      <3> QED
        BY <3>2, Zenon DEF c
    <2> QED
      BY <2>1, <2>2
  <1>5. b64_decode(e) = [p \in 1..Len(in) |-> Octet(e, (p - 1) \div 3, (p - 1) % 3)]
    BY <1>2, <1>3, <1>4, Zenon DEF b64_decode
  <1>6. ASSUME NEW p \in 1..Len(in)
        PROVE  Octet(e, (p - 1) \div 3, (p - 1) % 3) = in[p]
    <2> DEFINE g == (p - 1) \div 3
               k == (p - 1) % 3
               v == Group(in, g)
               At(j) == IF e[4 * g + j] = Pad THEN 0 ELSE e[4 * g + j]
    <2>0. p \in Nat \ {0} /\ p <= 3 * Q
      BY <1>1, SMT
    <2>1. g \in 0..Q - 1 /\ g \in Nat /\ k \in 0..2 /\ p = 3 * g + k + 1
      <3>1. g \in Nat /\ k \in 0..2 /\ p = 3 * g + k + 1
        BY <2>0, SMT
      <3> HIDE DEF g, k
      <3> QED
        BY <1>1, <2>0, <3>1, SMT
    <2> HIDE DEF g, k
    <2>2. ASSUME NEW j \in 1..4 PROVE At(j) = Six(v, j - 1)
      <3>1. j - 1 \in 0..3 /\ 4 * g + (j - 1) + 1 = 4 * g + j
        BY <2>1
      <3>2. e[4 * g + j] = Sextet(in, g, j - 1)
        BY <1>1, <2>1, <3>1
      <3> QED
        BY <2>1, <3>1, <3>2, SextetIs
    <2>3. /\ At(1) = Six(v, 0) /\ At(2) = Six(v, 1)
          /\ At(3) = Six(v, 2) /\ At(4) = Six(v, 3)
      BY <2>2
    <2>4. v \in Nat /\ v < 256 ^ 3
      BY <2>1, GroupIs
    <2>5. v = Six(v, 0) * 64 ^ 3 + Six(v, 1) * 64 ^ 2 + Six(v, 2) * 64 + Six(v, 3)
      BY <2>4, FourSixes
    <2>6. Octet(e, g, k)
            = ((At(1) * 64 ^ 3 + At(2) * 64 ^ 2 + At(3) * 64 + At(4))
                 \div 256 ^ (2 - k)) % 256
      BY Zenon DEF Octet
    <2> HIDE DEF At, v
    <2>7. Octet(e, g, k) = (v \div 256 ^ (2 - k)) % 256
      BY <2>3, <2>5, <2>6
    <2>8. Octet(e, g, k) = OctetOr0(in, 3 * g + k)
      <3>1. (v \div 256 ^ (2 - k)) % 256 = OctetOr0(in, 3 * g + k)
        BY <2>1, GroupIs, Zenon DEF v
      <3> QED
        BY <2>7, <3>1, Zenon
    <2>9. OctetOr0(in, 3 * g + k) = in[p]
      BY <1>1, <2>1 DEF OctetOr0
    <2> QED
      BY <2>8, <2>9 DEF g, k
  <1>7. b64_decode(e) = [p \in 1..Len(in) |-> in[p]]
    BY <1>5, <1>6
  <1>8. in = [p \in 1..Len(in) |-> in[p]]
    OBVIOUS
  <1> QED
    BY <1>3, <1>7, <1>8 DEF e

-----------------------------------------------------------------------------
\* The line in the file is one nvm_key_base64_encode may give.
KeyInv == lens \in IdLens /\ (file.key # NoBytes => file.key \in Keys)

\* The lines a build may write do not change.
LEMMA SameKeys == lens' = lens => Keys' = Keys
  BY DEF Keys, KeyBytes, Unknown, Known, LengthAt, KeySize

\* The octets of the key are octets, and there are twelve of them at least.
LEMMA KeyBytesType ==
  ASSUME lens \in IdLens, NEW junk \in [Unknown -> Junk]
  PROVE  /\ KeySize \in Nat \ {0} /\ KeyBytes(junk) \in [1..KeySize -> ByteValues]
  <1>1. lens \in [1..3 -> 0..255]
    BY NvmAssumption
  <1>2. KeySize \in Nat \ {0}
    <2> DEFINE a == lens[1]
               b == lens[2]
               c == lens[3]
    <2>1. a \in Nat /\ b \in Nat /\ c \in Nat
      BY <1>1
    <2>2. KeySize = (a + b + c + 12) % 256
      BY Zenon DEF KeySize
    <2>3. a + b + c + 12 < 256
      BY NvmAssumption, Zenon
    <2> HIDE DEF a, b, c
    <2>4. (a + b + c + 12) % 256 = a + b + c + 12
      BY <2>1, <2>3, SMT
    <2> QED
      BY <2>1, <2>2, <2>4, SMT
  <1>3. ASSUME NEW q \in 1..KeySize, q - 1 \in Unknown
        PROVE  junk[q - 1] \in ByteValues
    BY <1>3, NvmAssumption DEF ByteValues
  <1>4. ASSUME NEW q \in 1..KeySize,
               \E n \in 1..3 : q - 1 \in Known(n) /\ q - 1 = LengthAt(n)
        PROVE  lens[CHOOSE n \in 1..3 : q - 1 = LengthAt(n)] \in ByteValues
    <2>1. (CHOOSE n \in 1..3 : q - 1 = LengthAt(n)) \in 1..3
      BY <1>4, Zenon
    <2> QED
      BY <1>1, <2>1 DEF ByteValues
  <1>5. 0 \in ByteValues
    BY DEF ByteValues
  <1> DEFINE At(q) ==
               IF q - 1 \in Unknown THEN junk[q - 1]
               ELSE IF \E n \in 1..3 : q - 1 \in Known(n) /\ q - 1 = LengthAt(n)
                    THEN lens[CHOOSE n \in 1..3 : q - 1 = LengthAt(n)] ELSE 0
  <1>6. \A q \in 1..KeySize : At(q) \in ByteValues
    BY <1>3, <1>4, <1>5, Zenon
  <1>7. KeyBytes(junk) = [q \in 1..KeySize |-> At(q)]
    BY Zenon DEF KeyBytes
  <1> HIDE DEF At
  <1> QED
    BY <1>2, <1>6, <1>7, Zenon

\* The octets nobody wrote can be read back from the key.
LEMMA JunkIs ==
  ASSUME lens \in IdLens, NEW junk \in [Unknown -> Junk]
  PROVE  [p \in Unknown |-> KeyBytes(junk)[p + 1]] = junk
  <1>1. ASSUME NEW p \in Unknown PROVE KeyBytes(junk)[p + 1] = junk[p]
    <2>1. p \in 0..KeySize - 1
      BY DEF Unknown
    <2>2. p + 1 \in 1..KeySize /\ (p + 1) - 1 = p
      BY <2>1, KeyBytesType
    <2>3. KeyBytes(junk)[p + 1] = junk[(p + 1) - 1]
      BY <2>2, Zenon DEF KeyBytes
    <2> QED
      BY <2>2, <2>3
  <1> QED
    BY <1>1

\* What is written is such a line.
LEMMA KeyStep == KeyInv /\ [NvmNext]_nvmVars => KeyInv'
  <1> SUFFICES ASSUME KeyInv, [NvmNext]_nvmVars PROVE KeyInv'
    OBVIOUS
  <1>1. lens' = lens /\ Keys' = Keys
    <2>1. lens' = lens
      BY DEF NvmNext, Start, Write, Close, Read, ReadNew, Crash, nvmVars
    <2> QED
      BY <2>1, SameKeys
  <1>2. file' = file \/ file' = Truncated \/ \E key \in Keys : file' = Holding(key, ssn)
    BY DEF NvmNext, Start, Write, Open, Close, Read, ReadNew, Crash, nvmVars
  <1> QED
    BY <1>1, <1>2 DEF KeyInv, Truncated, Holding

(***************************************************************************)
(* Whatever the octets of the key are, in any build, the line in the file  *)
(* decodes to as many, and to the lengths where those are known            *)
(* (nvm_key_base64_encode).                                                *)
(***************************************************************************)
THEOREM KeyLineReads == Spec => []KeyLineDecodes
  <1>1. Init => KeyInv
    BY DEF Init, NvmInit, KeyInv, Absent
  <1>2. KeyInv /\ [Next]_vars => KeyInv'
    BY KeyStep DEF Next, Boot, Ask, Derive, HasKey, Serve, Die, NvmNext, vars, nvmVars
  <1>3. KeyInv => KeyLineDecodes
    <2> SUFFICES ASSUME lens \in IdLens, NEW junk \in [Unknown -> Junk],
                        file.key = b64_encode(KeyBytes(junk))
                 PROVE  KeyLineDecodes
      BY DEF KeyInv, Keys, KeyLineDecodes
    <2> DEFINE bytes == KeyBytes(junk)
    <2>1. KeySize \in Nat \ {0} /\ bytes \in [1..KeySize -> ByteValues]
      BY KeyBytesType
    <2> HIDE DEF bytes
    <2>2. bytes \in Seq(ByteValues) /\ bytes # <<>>
      BY <2>1
    <2>3. b64_decode(file.key) = bytes
      BY <2>2, RoundTrip DEF bytes
    <2>4. KeyBytes([p \in Unknown |-> bytes[p + 1]]) = bytes
      BY JunkIs DEF bytes
    <2> QED
      BY <2>3, <2>4 DEF KeyLineDecodes, bytes
  <1> QED
    BY <1>1, <1>2, <1>3, PTL DEF Spec
=============================================================================
