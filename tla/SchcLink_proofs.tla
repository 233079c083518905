--------------------------- MODULE SchcLink_proofs ---------------------------
(***************************************************************************)
(* Proofs about SchcLink.  What the entries of a rule do not send, they    *)
(* compared: a message that a rule applies to is restored as it was.  The  *)
(* tables of the two ends agree, entry by entry, once the fields that name *)
(* an end have changed names; so a message compressed at one end is        *)
(* restored at the other, and fragments mean there what they mean here.    *)
(***************************************************************************)
EXTENDS SchcLink, SequenceTheorems, FiniteSetTheorems, TLAPS

\* The pairs of matching operator and action under which nothing is given up.
Lossless(e) ==
  \/ e.mo = "equal" /\ e.cda = "not_sent"
  \/ e.mo = "ignore" /\ e.cda = "value_sent"
  \/ e.mo = "msb" /\ e.cda = "lsb"
  \/ e.mo = "mapping" /\ e.cda = "mapping_sent"

\* What the receiver puts in a field, given what was sent of it.
Rebuilt(e, v) ==
  IF e.cda \in {"not_sent", "compute"} THEN Elided(e) ELSE Restored(e, Residue(e, v))

\* A sequence is its first bytes and the rest.
LEMMA SplitSequence ==
  ASSUME NEW T, NEW head \in Seq(T), NEW v \in Seq(T),
         Len(v) >= Len(head), SubSeq(v, 1, Len(head)) = head
  PROVE  head \o SubSeq(v, Len(head) + 1, Len(v)) = v
<1> DEFINE n == Len(head)
           rest == SubSeq(v, n + 1, Len(v))
<1>1. n \in Nat /\ Len(v) \in Nat
  BY LenProperties
<1>2. rest \in Seq(T) /\ Len(rest) = Len(v) - n
  BY <1>1
<1>3. \A i \in 1..Len(rest) : rest[i] = v[n + i]
  BY <1>1
<1>4. \A i \in 1..n : head[i] = v[i]
  BY <1>1
<1>5. head \o rest \in Seq(T) /\ Len(head \o rest) = Len(v)
  BY <1>1, <1>2
<1>6. ASSUME NEW i \in 1..Len(v) PROVE (head \o rest)[i] = v[i]
  <2>1. CASE i <= n
    BY <2>1, <1>1, <1>2, <1>4
  <2>2. CASE i > n
    <3>1. i - n \in 1..Len(rest) /\ (head \o rest)[i] = rest[i - n]
      BY <2>2, <1>1, <1>2
    <3> QED BY <3>1, <1>1, <1>3
  <2> QED BY <2>1, <2>2, <1>1
<1> HIDE DEF rest
<1>7. head \o rest = v
  BY <1>5, <1>6, SeqEqual
<1> QED BY <1>7 DEF rest

\* Whatever the value, an entry that gives nothing up restores it: what is not sent was
\* compared whole, what is cut off was compared as far as it is cut, and the index
\* sent names the value (the entries of outerrules.c, innerrules.c and the template).
THEOREM EntryRestores ==
  ASSUME NEW T, NEW e, NEW v,
         Lossless(e), Matches(e, v),
         e.mo = "msb" => e.tv \in Seq(T) /\ v \in Seq(T)
  PROVE  Rebuilt(e, v) = v
<1>1. CASE e.mo = "equal" /\ e.cda = "not_sent"
  BY <1>1 DEF Matches, Rebuilt, Elided
<1>2. CASE e.mo = "ignore" /\ e.cda = "value_sent"
  BY <1>2 DEF Rebuilt, Residue, Restored
<1>3. CASE e.mo = "msb" /\ e.cda = "lsb"
  <2>1. Len(v) >= Len(e.tv) /\ SubSeq(v, 1, Len(e.tv)) = e.tv
    BY <1>3 DEF Matches
  <2>2. Rebuilt(e, v) = e.tv \o SubSeq(v, Len(e.tv) + 1, Len(v))
    BY <1>3 DEF Rebuilt, Residue, Restored
  <2> QED BY <1>3, <2>1, <2>2, SplitSequence
<1>4. CASE e.mo = "mapping" /\ e.cda = "mapping_sent"
  <2>1. PICK i \in DOMAIN e.tv : e.tv[i] = v
    BY <1>4 DEF Matches
  <2>2. Rebuilt(e, v) = e.tv[CHOOSE j \in DOMAIN e.tv : e.tv[j] = v]
    BY <1>4 DEF Rebuilt, Residue, Restored
  <2> QED BY <2>1, <2>2
<1> QED BY <1>1, <1>2, <1>3, <1>4 DEF Lossless

\* The whole message comes back from any rule that applies to it, with what the rule
\* does not cover, if each entry gives nothing up or names a length or checksum that
\* agrees with the packet (Compressed and Decompressed, as both ends use them).
THEOREM MessageRestores ==
  ASSUME NEW T, NEW rule, NEW K, NEW V, NEW m \in [K -> V],
         Applies(rule, m),
         \A k \in DOMAIN rule.entries :
           \/ Lossless(rule.entries[k])
           \/ rule.entries[k].cda = "compute" /\ m[k] = Right,
         \A k \in DOMAIN rule.entries :
           rule.entries[k].mo = "msb" => rule.entries[k].tv \in Seq(T) /\ m[k] \in Seq(T)
  PROVE  Decompressed(rule, Compressed(rule, m)) = m
<1> DEFINE D == DOMAIN rule.entries
           onLink == Compressed(rule, m)
           whole == Decompressed(rule, onLink)
<1>1. D \subseteq K /\ SentFields(rule) \subseteq D
  BY DEF Applies, Header, SentFields
<1>2. onLink.payload = [k \in K \ D |-> m[k]]
  BY DEF Compressed
<1>3. whole = [k \in K |-> IF k \in SentFields(rule)
                           THEN Restored(rule.entries[k], onLink.residue[k])
                           ELSE IF k \in D THEN Elided(rule.entries[k]) ELSE m[k]]
  <2>1. D \union DOMAIN onLink.payload = K
    BY <1>1, <1>2
  <2> HIDE DEF onLink
  <2> QED BY <2>1, <1>2 DEF Decompressed
<1>4. ASSUME NEW k \in K PROVE whole[k] = m[k]
  <2>1. CASE k \in SentFields(rule)
    <3>1. onLink.residue[k] = Residue(rule.entries[k], m[k])
      BY <2>1 DEF Compressed
    <3>2. whole[k] = Rebuilt(rule.entries[k], m[k])
      BY <2>1, <3>1, <1>3 DEF Rebuilt, SentFields
    <3>3. Lossless(rule.entries[k]) /\ Matches(rule.entries[k], m[k])
      BY <2>1 DEF SentFields, Applies
    <3> QED BY <1>1, <2>1, <3>2, <3>3, EntryRestores
  <2>2. CASE k \in D \ SentFields(rule)
    <3>1. whole[k] = Elided(rule.entries[k])
      BY <2>2, <1>3
    <3>2. rule.entries[k].cda \in {"not_sent", "compute"}
      BY <2>2 DEF SentFields
    <3>3. CASE Lossless(rule.entries[k])
      <4>1. whole[k] = Rebuilt(rule.entries[k], m[k])
        BY <3>1, <3>2 DEF Rebuilt
      <4>2. Matches(rule.entries[k], m[k])
        BY <2>2 DEF Applies
      <4> QED BY <2>2, <3>3, <4>1, <4>2, EntryRestores
    <3>4. CASE rule.entries[k].cda = "compute" /\ m[k] = Right
      BY <3>1, <3>4 DEF Elided
    <3> QED BY <2>2, <3>3, <3>4
  <2>3. CASE k \notin D
    BY <2>3, <1>1, <1>3
  <2> QED BY <2>1, <2>2, <2>3
<1> QED BY <1>3, <1>4

-----------------------------------------------------------------------------
\* A field as the tables and the messages name it.
Field(k) == k = <<k[1], k[2]>>

\* The field identifiers that name one end or the other.
NamesAnEnd == {"PREFIX_DEV", "PREFIX_APP", "IID_DEV", "IID_APP", "PORT_DEV", "PORT_APP"}

\* Which field is which at the other end.
LEMMA MirrorIs ==
  /\ Mirror("PREFIX_DEV") = "PREFIX_APP" /\ Mirror("PREFIX_APP") = "PREFIX_DEV"
  /\ Mirror("IID_DEV") = "IID_APP" /\ Mirror("IID_APP") = "IID_DEV"
  /\ Mirror("PORT_DEV") = "PORT_APP" /\ Mirror("PORT_APP") = "PORT_DEV"
  /\ \A f : f \notin NamesAnEnd => Mirror(f) = f
  BY Zenon DEF Mirror, NamesAnEnd

\* Renamed at the other end and back, a field has its name again.
LEMMA MirrorTwice ==
  ASSUME NEW k, Field(k)
  PROVE  Field(MirrorField(k)) /\ MirrorField(MirrorField(k)) = k
  <1> DEFINE f == k[1]
             p == k[2]
  <1>1. k = <<f, p>>
    BY Zenon DEF Field
  <1> HIDE DEF f, p
  <1>2. Mirror(Mirror(f)) = f
    <2>1. CASE f \in NamesAnEnd
      <3>1. \/ f = "PREFIX_DEV" \/ f = "PREFIX_APP" \/ f = "IID_DEV"
            \/ f = "IID_APP" \/ f = "PORT_DEV" \/ f = "PORT_APP"
        BY <2>1 DEF NamesAnEnd
      <3> QED
        BY <3>1, MirrorIs, Zenon
    <2>2. CASE f \notin NamesAnEnd
      BY <2>2, MirrorIs, Zenon
    <2> QED
      BY <2>1, <2>2
  <1>3. MirrorField(<<f, p>>) = <<Mirror(f), p>>
    BY DEF MirrorField
  <1>4. MirrorField(<<Mirror(f), p>>) = <<Mirror(Mirror(f)), p>>
    BY DEF MirrorField
  <1>5. MirrorField(k) = <<Mirror(f), p>> /\ MirrorField(MirrorField(k)) = <<f, p>>
    BY <1>1, <1>2, <1>3, <1>4, Zenon
  <1>6. Field(<<Mirror(f), p>>)
    BY DEF Field
  <1> QED
    BY <1>1, <1>5, <1>6, Zenon

\* Two fields have two names at the other end.
LEMMA MirrorUnique ==
  ASSUME NEW j, NEW k, Field(j), Field(k), MirrorField(j) = MirrorField(k)
  PROVE  j = k
  BY MirrorTwice

\* Which of two functions put together is asked for a value.
LEMMA Joined ==
  ASSUME NEW E, NEW F
  PROVE  /\ DOMAIN (E @@ F) = DOMAIN E \union DOMAIN F
         /\ \A k \in DOMAIN E : (E @@ F)[k] = E[k]
         /\ \A k \in DOMAIN F \ DOMAIN E : (E @@ F)[k] = F[k]
  BY DEF @@

\* The entries of one end, and the other end's for the same fields.
Crossed(E, F) ==
  /\ \A k \in DOMAIN E : Field(k)
  /\ DOMAIN F = {MirrorField(k) : k \in DOMAIN E}
  /\ \A k \in DOMAIN E : F[MirrorField(k)] = E[k]

\* One entry, and the same at the other end.
LEMMA CrossedEntry ==
  ASSUME NEW f, NEW g, g = Mirror(f), NEW p, NEW mo, NEW cda, NEW tv
  PROVE  Crossed(Entry(f, p, mo, cda, tv), Entry(g, p, mo, cda, tv))
  <1>1. Field(<<f, p>>) /\ MirrorField(<<f, p>>) = <<g, p>>
    BY DEF Field, MirrorField
  <1> DEFINE E == Entry(f, p, mo, cda, tv)
             F == Entry(g, p, mo, cda, tv)
             e == [mo |-> mo, cda |-> cda, tv |-> tv]
  <1>2. DOMAIN E = {<<f, p>>} /\ E[<<f, p>>] = e
    BY DEF Entry, :>
  <1>3. DOMAIN F = {<<g, p>>} /\ F[<<g, p>>] = e
    BY DEF Entry, :>
  <1> HIDE DEF E, F, e
  <1> QED
    BY <1>1, <1>2, <1>3, Zenon DEF Crossed, E, F

\* Entries added to entries, at both ends in the same order.
LEMMA CrossedJoin ==
  ASSUME NEW E1, NEW F1, NEW E2, NEW F2, Crossed(E1, F1), Crossed(E2, F2)
  PROVE  Crossed(E1 @@ E2, F1 @@ F2)
  <1> DEFINE E == E1 @@ E2
             F == F1 @@ F2
  <1>1. DOMAIN E = DOMAIN E1 \union DOMAIN E2 /\ DOMAIN F = DOMAIN F1 \union DOMAIN F2
    BY Joined
  <1>2. (\A k \in DOMAIN E : Field(k)) /\ DOMAIN F = {MirrorField(k) : k \in DOMAIN E}
    BY <1>1 DEF Crossed
  <1>3. ASSUME NEW k \in DOMAIN E PROVE F[MirrorField(k)] = E[k]
    <2>1. CASE k \in DOMAIN E1
      <3>1. MirrorField(k) \in DOMAIN F1 /\ F1[MirrorField(k)] = E1[k]
        BY <2>1 DEF Crossed
      <3> QED
        BY <2>1, <3>1, Joined
    <2>2. CASE k \notin DOMAIN E1
      <3>1. k \in DOMAIN E2
        BY <1>1, <2>2
      <3>2. MirrorField(k) \in DOMAIN F2 /\ F2[MirrorField(k)] = E2[k]
        BY <3>1 DEF Crossed
      <3>3. MirrorField(k) \notin DOMAIN F1
        <4> SUFFICES ASSUME MirrorField(k) \in DOMAIN F1 PROVE FALSE
          OBVIOUS
        <4>1. PICK j \in DOMAIN E1 : MirrorField(j) = MirrorField(k)
          BY DEF Crossed
        <4>2. Field(j) /\ Field(k)
          BY <3>1 DEF Crossed
        <4> QED
          BY <2>2, <4>1, <4>2, MirrorUnique
      <3>4. E[k] = E2[k]
        BY <2>2, <3>1 DEF @@
      <3>5. F[MirrorField(k)] = F2[MirrorField(k)]
        BY <3>2, <3>3 DEF @@
      <3> QED
        BY <3>2, <3>4, <3>5
    <2> QED
      BY <2>1, <2>2
  <1> QED
    BY <1>2, <1>3 DEF Crossed

\* The order does not matter for different fields: the end's own address comes first at
\* either end.
LEMMA CrossedSwapped ==
  ASSUME NEW E1, NEW F1, NEW E2, NEW F2, Crossed(E1, F1), Crossed(E2, F2),
         DOMAIN E1 \intersect DOMAIN E2 = {}
  PROVE  Crossed(E1 @@ E2, F2 @@ F1)
  <1>1. E1 @@ E2 = E2 @@ E1
    BY DEF @@
  <1> QED
    BY <1>1, CrossedJoin

-----------------------------------------------------------------------------
\* The fields that rules compute.
ComputedFields == {<<"PAYLOAD_LENGTH", 1>>, <<"UDP_LENGTH", 1>>, <<"CHECKSUM", 1>>}

\* An entry loses nothing of what an end builds, or one of the two fields given up.
Sound(k, e) ==
  \/ e.mo = "equal" /\ e.cda = "not_sent"
  \/ e.mo = "ignore" /\ e.cda = "not_sent" /\ k \in GivenUp
  \/ e.mo = "ignore" /\ e.cda = "compute" /\ k \in ComputedFields
  \/ /\ e.cda \in {"value_sent", "lsb", "mapping_sent"} /\ Lossless(e)
     /\ MirrorField(k) = k
     /\ e.mo = "msb" => k = <<"OSCORE", 1>> /\ e.tv \in Seq(Nat)

AllSound(E) == \A k \in DOMAIN E : Sound(k, E[k])

\* Entries added to entries lose no more.
LEMMA SoundJoin ==
  ASSUME NEW E, NEW F, AllSound(E), AllSound(F)
  PROVE  AllSound(E @@ F)
  <1> SUFFICES ASSUME NEW k \in DOMAIN (E @@ F) PROVE Sound(k, (E @@ F)[k])
    BY DEF AllSound
  <1>1. CASE k \in DOMAIN E
    BY <1>1, Joined DEF AllSound
  <1>2. CASE k \notin DOMAIN E
    <2>1. k \in DOMAIN F \ DOMAIN E
      BY <1>2, Joined
    <2>2. (E @@ F)[k] = F[k]
      BY <2>1 DEF @@
    <2> QED
      BY <2>1, <2>2, Zenon DEF AllSound
  <1> QED
    BY <1>1, <1>2

-----------------------------------------------------------------------------
\* What is shown of the entries of every rule.
Both(E, F) == Crossed(E, F) /\ AllSound(E)

\* It is shown of a rule by showing it of its entries, as add_rule_field adds them.
LEMMA BothJoin ==
  ASSUME NEW E1, NEW F1, NEW E2, NEW F2, Both(E1, F1), Both(E2, F2)
  PROVE  Both(E1 @@ E2, F1 @@ F2)
  BY CrossedJoin, SoundJoin, Zenon DEF Both

\* One entry.
LEMMA BothEntry ==
  ASSUME NEW f, NEW p, NEW mo, NEW cda, NEW tv,
         Sound(<<f, p>>, [mo |-> mo, cda |-> cda, tv |-> tv])
  PROVE  Both(Entry(f, p, mo, cda, tv), Entry(Mirror(f), p, mo, cda, tv))
  <1>1. Crossed(Entry(f, p, mo, cda, tv), Entry(Mirror(f), p, mo, cda, tv))
    BY CrossedEntry, Zenon
  <1>2. AllSound(Entry(f, p, mo, cda, tv))
    <2> DEFINE e == [mo |-> mo, cda |-> cda, tv |-> tv]
               E == Entry(f, p, mo, cda, tv)
    <2>1. DOMAIN E = {<<f, p>>} /\ E[<<f, p>>] = e
      BY DEF Entry, :>
    <2>2. Sound(<<f, p>>, e)
      OBVIOUS
    <2> HIDE DEF E, e
    <2>3. AllSound(E)
      BY <2>1, <2>2, Zenon DEF AllSound
    <2> QED
      BY <2>3 DEF E
  <1> QED
    BY <1>1, <1>2, Zenon DEF Both

\* MO_EQUAL with CDA_NOT_SENT.
LEMMA BothNotSent ==
  ASSUME NEW f, NEW p, NEW tv
  PROVE  Both(NotSent(f, p, tv), NotSent(Mirror(f), p, tv))
  <1>1. Sound(<<f, p>>, [mo |-> "equal", cda |-> "not_sent", tv |-> tv])
    BY DEF Sound
  <1> QED
    BY <1>1, BothEntry, Zenon DEF NotSent

\* A field that names no end has one name.
LEMMA Unmirrored ==
  ASSUME NEW f, NEW p, f \notin NamesAnEnd
  PROVE  Mirror(f) = f /\ MirrorField(<<f, p>>) = <<f, p>>
  <1>1. Mirror(f) = f
    BY MirrorIs, Zenon
  <1> QED
    BY <1>1 DEF MirrorField

\* The entries both ends have alike.
LEMMA BothAlike ==
  ASSUME NEW f, NEW p, NEW tv, f \notin NamesAnEnd
  PROVE  /\ Both(NotSent(f, p, tv), NotSent(f, p, tv))
         /\ Both(ValueSent(f, p), ValueSent(f, p))
         /\ Both(Mapped(f, p, tv), Mapped(f, p, tv))
  <1>1. Mirror(f) = f /\ MirrorField(<<f, p>>) = <<f, p>>
    BY Unmirrored, Zenon
  <1>2. Both(NotSent(f, p, tv), NotSent(f, p, tv))
    BY <1>1, BothNotSent, Zenon
  <1>3. Sound(<<f, p>>, [mo |-> "ignore", cda |-> "value_sent", tv |-> <<>>])
    BY <1>1 DEF Sound, Lossless
  <1>4. Sound(<<f, p>>, [mo |-> "mapping", cda |-> "mapping_sent", tv |-> tv])
    BY <1>1 DEF Sound, Lossless
  <1>5. Both(ValueSent(f, p), ValueSent(f, p))
    BY <1>1, <1>3, BothEntry, Zenon DEF ValueSent
  <1>6. Both(Mapped(f, p, tv), Mapped(f, p, tv))
    BY <1>1, <1>4, BothEntry, Zenon DEF Mapped
  <1> QED
    BY <1>2, <1>5, <1>6

\* The flow label and the hop limit, which are given up.
LEMMA BothIgnored ==
  ASSUME NEW f, NEW tv, f \in {"FLOW_LABEL", "HOP_LIMIT"}
  PROVE  Both(Ignored(f, 1, tv), Ignored(f, 1, tv))
  <1>1. <<f, 1>> \in GivenUp /\ f \notin NamesAnEnd
    BY DEF GivenUp, NamesAnEnd
  <1>2. Sound(<<f, 1>>, [mo |-> "ignore", cda |-> "not_sent", tv |-> tv])
    BY <1>1 DEF Sound
  <1> QED
    BY <1>1, <1>2, BothEntry, Unmirrored, Zenon DEF Ignored

\* The lengths and the checksum.
LEMMA BothComputed ==
  ASSUME NEW f, f \in {"PAYLOAD_LENGTH", "UDP_LENGTH", "CHECKSUM"}
  PROVE  Both(Computed(f), Computed(f))
  <1>1. <<f, 1>> \in ComputedFields /\ f \notin NamesAnEnd
    BY DEF ComputedFields, NamesAnEnd
  <1>2. Sound(<<f, 1>>, [mo |-> "ignore", cda |-> "compute", tv |-> <<>>])
    BY <1>1 DEF Sound
  <1> QED
    BY <1>1, <1>2, BothEntry, Unmirrored, Zenon DEF Computed

\* The OSCORE option of a request, cut after its first byte (rule_field_21_request).
LEMMA BothOscoreRequest == Both(OscoreRequest, OscoreRequest)
  <1>1. "OSCORE" \notin NamesAnEnd
    BY DEF NamesAnEnd
  <1>2. MirrorField(<<"OSCORE", 1>>) = <<"OSCORE", 1>> /\ Mirror("OSCORE") = "OSCORE"
    BY <1>1, Unmirrored, Zenon
  <1>3. <<9>> \in Seq(Nat)
    OBVIOUS
  <1>4. Sound(<<"OSCORE", 1>>, [mo |-> "msb", cda |-> "lsb", tv |-> <<9>>])
    BY <1>2, <1>3 DEF Sound, Lossless
  <1> QED
    BY <1>2, <1>4, BothEntry, Zenon DEF OscoreRequest, MostSignificant

-----------------------------------------------------------------------------
\* The two addresses, which change places.
LEMMA BothAddresses ==
  ASSUME NEW h, NEW r
  PROVE  LET X(a) == NotSent("PREFIX_DEV", 1, a.prefix) @@ NotSent("IID_DEV", 1, a.iid)
             Y(a) == NotSent("PREFIX_APP", 1, a.prefix) @@ NotSent("IID_APP", 1, a.iid)
         IN Both(X(h) @@ Y(r), X(r) @@ Y(h))
  <1> DEFINE X(a) == NotSent("PREFIX_DEV", 1, a.prefix) @@ NotSent("IID_DEV", 1, a.iid)
             Y(a) == NotSent("PREFIX_APP", 1, a.prefix) @@ NotSent("IID_APP", 1, a.iid)
  <1>1. ASSUME NEW a PROVE Both(X(a), Y(a)) /\ Both(Y(a), X(a))
    <2>1. /\ Both(NotSent("PREFIX_DEV", 1, a.prefix), NotSent("PREFIX_APP", 1, a.prefix))
          /\ Both(NotSent("IID_DEV", 1, a.iid), NotSent("IID_APP", 1, a.iid))
          /\ Both(NotSent("PREFIX_APP", 1, a.prefix), NotSent("PREFIX_DEV", 1, a.prefix))
          /\ Both(NotSent("IID_APP", 1, a.iid), NotSent("IID_DEV", 1, a.iid))
      BY BothNotSent, MirrorIs, Zenon
    <2> QED
      BY <2>1, BothJoin, Zenon
  <1>2. DOMAIN X(h) \intersect DOMAIN Y(r) = {}
    BY DEF NotSent, Entry, :>, @@
  <1> HIDE DEF X, Y
  <1>3. Crossed(X(h) @@ Y(r), X(r) @@ Y(h))
    BY <1>1, <1>2, CrossedSwapped, Zenon DEF Both
  <1>4. AllSound(X(h) @@ Y(r))
    BY <1>1, SoundJoin, Zenon DEF Both
  <1> QED
    BY <1>3, <1>4, Zenon DEF Both, X, Y

\* The two ports.
LEMMA BothPorts ==
  ASSUME NEW h, NEW r
  PROVE  Both(NotSent("PORT_DEV", 1, h.port) @@ NotSent("PORT_APP", 1, r.port),
              NotSent("PORT_DEV", 1, r.port) @@ NotSent("PORT_APP", 1, h.port))
  <1> DEFINE X(a) == NotSent("PORT_DEV", 1, a.port)
             Y(a) == NotSent("PORT_APP", 1, a.port)
  <1>1. ASSUME NEW a PROVE Both(X(a), Y(a)) /\ Both(Y(a), X(a))
    BY BothNotSent, MirrorIs, Zenon
  <1>2. DOMAIN X(h) \intersect DOMAIN Y(r) = {}
    BY DEF NotSent, Entry, :>
  <1> HIDE DEF X, Y
  <1>3. Crossed(X(h) @@ Y(r), X(r) @@ Y(h))
    BY <1>1, <1>2, CrossedSwapped, Zenon DEF Both
  <1>4. AllSound(X(h) @@ Y(r))
    BY <1>1, SoundJoin, Zenon DEF Both
  <1> QED
    BY <1>3, <1>4, Zenon DEF Both, X, Y

\* The fields of the rules that name no end.
LEMMA NamesNoEnd ==
  /\ "VERSION" \notin NamesAnEnd /\ "TRAFFIC_CLASS" \notin NamesAnEnd
  /\ "NEXT_HEADER" \notin NamesAnEnd
  /\ "COAP_VERSION" \notin NamesAnEnd /\ "TYPE" \notin NamesAnEnd
  /\ "TOKEN_LENGTH" \notin NamesAnEnd /\ "CODE" \notin NamesAnEnd
  /\ "MSG_ID" \notin NamesAnEnd /\ "TOKEN" \notin NamesAnEnd
  /\ "OSCORE" \notin NamesAnEnd /\ "OBSERVE" \notin NamesAnEnd
  /\ "URI_PATH" \notin NamesAnEnd /\ "CONTENT_FORMAT" \notin NamesAnEnd
  /\ "ACCEPT" \notin NamesAnEnd /\ "URI_QUERY" \notin NamesAnEnd
  /\ "LOCATION_PATH" \notin NamesAnEnd
  BY DEF NamesAnEnd

\* add_ip_fields with the addresses of one end and of the other.
LEMMA BothIp ==
  ASSUME NEW h, NEW r, NEW flow, NEW hop
  PROVE  Both(IpFields(h, r, flow, hop), IpFields(r, h, flow, hop))
  <1> DEFINE A == NotSent("VERSION", 1, <<6>>) @@ NotSent("TRAFFIC_CLASS", 1, <<0>>)
                    @@ Ignored("FLOW_LABEL", 1, flow) @@ Computed("PAYLOAD_LENGTH")
                    @@ NotSent("NEXT_HEADER", 1, <<17>>) @@ Ignored("HOP_LIMIT", 1, hop)
             X(a) == NotSent("PREFIX_DEV", 1, a.prefix) @@ NotSent("IID_DEV", 1, a.iid)
             Y(a) == NotSent("PREFIX_APP", 1, a.prefix) @@ NotSent("IID_APP", 1, a.iid)
  <1>1. ASSUME NEW a, NEW b PROVE IpFields(a, b, flow, hop) = A @@ (X(a) @@ Y(b))
    <2> DEFINE pd == NotSent("PREFIX_DEV", 1, a.prefix)
               id == NotSent("IID_DEV", 1, a.iid)
               pa == NotSent("PREFIX_APP", 1, b.prefix)
               ia == NotSent("IID_APP", 1, b.iid)
    <2>1. IpFields(a, b, flow, hop) = (((A @@ pd) @@ id) @@ pa) @@ ia
      BY Zenon DEF IpFields
    <2>2. X(a) = pd @@ id /\ Y(b) = pa @@ ia
      OBVIOUS
    <2> HIDE DEF A, X, Y, pd, id, pa, ia
    <2>3. (A @@ pd) @@ id = A @@ X(a)
      BY <2>2 DEF @@
    <2>4. ((A @@ X(a)) @@ pa) @@ ia = (A @@ X(a)) @@ Y(b)
      BY <2>2 DEF @@
    <2>5. (A @@ X(a)) @@ Y(b) = A @@ (X(a) @@ Y(b))
      BY DEF @@
    <2> QED
      BY <2>1, <2>3, <2>4, <2>5, Zenon
  <1>2. Both(A, A)
    <2>1. /\ Both(NotSent("VERSION", 1, <<6>>), NotSent("VERSION", 1, <<6>>))
          /\ Both(NotSent("TRAFFIC_CLASS", 1, <<0>>), NotSent("TRAFFIC_CLASS", 1, <<0>>))
          /\ Both(NotSent("NEXT_HEADER", 1, <<17>>), NotSent("NEXT_HEADER", 1, <<17>>))
      BY BothAlike, NamesNoEnd, Zenon
    <2>2. /\ Both(Ignored("FLOW_LABEL", 1, flow), Ignored("FLOW_LABEL", 1, flow))
          /\ Both(Ignored("HOP_LIMIT", 1, hop), Ignored("HOP_LIMIT", 1, hop))
      BY BothIgnored
    <2>3. Both(Computed("PAYLOAD_LENGTH"), Computed("PAYLOAD_LENGTH"))
      BY BothComputed
    <2> QED
      BY <2>1, <2>2, <2>3, BothJoin, Zenon
  <1>3. Both(X(h) @@ Y(r), X(r) @@ Y(h))
    BY BothAddresses
  <1> HIDE DEF A, X, Y
  <1> QED
    BY <1>1, <1>2, <1>3, BothJoin, Zenon

\* add_udp_fields likewise.
LEMMA BothUdp ==
  ASSUME NEW h, NEW r
  PROVE  Both(UdpFields(h, r), UdpFields(r, h))
  <1>1. /\ Both(Computed("UDP_LENGTH"), Computed("UDP_LENGTH"))
        /\ Both(Computed("CHECKSUM"), Computed("CHECKSUM"))
    BY BothComputed
  <1> QED
    BY <1>1, BothPorts, BothJoin, Zenon DEF UdpFields

\* The CoAP header.
LEMMA BothCoap ==
  ASSUME NEW type, NEW code
  PROVE  Both(CoapHeader(type, code), CoapHeader(type, code))
  <1>1. /\ Both(NotSent("COAP_VERSION", 1, <<1>>), NotSent("COAP_VERSION", 1, <<1>>))
        /\ Both(NotSent("TYPE", 1, <<type>>), NotSent("TYPE", 1, <<type>>))
        /\ Both(NotSent("TOKEN_LENGTH", 1, <<2>>), NotSent("TOKEN_LENGTH", 1, <<2>>))
        /\ Both(NotSent("CODE", 1, <<code>>), NotSent("CODE", 1, <<code>>))
    BY BothAlike, NamesNoEnd, Zenon
  <1>2. Both(ValueSent("MSG_ID", 1), ValueSent("MSG_ID", 1))
    BY BothAlike, NamesNoEnd, Zenon
  <1>3. Both(ValueSent("TOKEN", 1), ValueSent("TOKEN", 1))
    BY BothAlike, NamesNoEnd, Zenon
  <1> QED
    BY <1>1, <1>2, <1>3, BothJoin, Zenon DEF CoapHeader

-----------------------------------------------------------------------------
\* A rule of one end and the rule of the other end with its identifier: a rule for IPv6
\* and UDP covers the whole of both.
Agree(r, s) ==
  /\ s.id = r.id
  /\ Both(r.entries, s.entries)
  /\ r.stack = "ipv6_udp" => IpUdpFields \subseteq DOMAIN r.entries

\* The tables of the two ends, whose identifiers are all different and are among Ids.
Alike(T, U, Ids) ==
  /\ DOMAIN U = DOMAIN T
  /\ \A n \in DOMAIN T : Agree(T[n], U[n]) /\ T[n].id \in Ids
  /\ \A m, n \in DOMAIN T : T[m].id = T[n].id => m = n

\* A rule with the entries shown above.
LEMMA RulesAgree ==
  ASSUME NEW id, NEW stack, NEW E, NEW F, Both(E, F), stack # "ipv6_udp"
  PROVE  Agree(Rule(id, stack, E), Rule(id, stack, F)) /\ Rule(id, stack, E).id = id
  BY DEF Agree, Rule

\* Entries for all of some fields.
Covers(E, S) == S \subseteq DOMAIN E

\* Entries added to entries cover the fields of both.
LEMMA CoversJoin ==
  ASSUME NEW E, NEW F, NEW S, NEW U, Covers(E, S), Covers(F, U)
  PROVE  Covers(E @@ F, S \union U)
  <1>1. DOMAIN (E @@ F) = DOMAIN E \union DOMAIN F
    BY Joined, Zenon
  <1> QED
    BY <1>1, Zenon DEF Covers

\* All the fields of IPv6 and UDP, which the rules have and cover.
LEMMA BothIpUdp ==
  ASSUME NEW h, NEW r, NEW flow, NEW hop
  PROVE  LET E == IpFields(h, r, flow, hop) @@ UdpFields(h, r)
             F == IpFields(r, h, flow, hop) @@ UdpFields(r, h)
         IN Both(E, F) /\ IpUdpFields \subseteq DOMAIN E
  <1> DEFINE E == IpFields(h, r, flow, hop) @@ UdpFields(h, r)
             F == IpFields(r, h, flow, hop) @@ UdpFields(r, h)
  <1>1. Both(E, F)
    BY BothIp, BothUdp, BothJoin, Zenon
  <1>2. IpUdpFields \subseteq DOMAIN E
    <2> DEFINE At(f) == {<<f, 1>>}
    <2>1. ASSUME NEW f, NEW tv
          PROVE  /\ Covers(NotSent(f, 1, tv), At(f)) /\ Covers(Ignored(f, 1, tv), At(f))
                 /\ Covers(Computed(f), At(f))
      BY DEF NotSent, Ignored, Computed, Entry, :>, Covers
    <2> HIDE DEF At
    <2>2. Covers(IpFields(h, r, flow, hop),
            At("VERSION") \union At("TRAFFIC_CLASS") \union At("FLOW_LABEL")
              \union At("PAYLOAD_LENGTH") \union At("NEXT_HEADER")
              \union At("HOP_LIMIT") \union At("PREFIX_DEV") \union At("IID_DEV")
              \union At("PREFIX_APP") \union At("IID_APP"))
      <3>1. /\ Covers(NotSent("VERSION", 1, <<6>>), At("VERSION"))
            /\ Covers(NotSent("TRAFFIC_CLASS", 1, <<0>>), At("TRAFFIC_CLASS"))
            /\ Covers(Ignored("FLOW_LABEL", 1, flow), At("FLOW_LABEL"))
            /\ Covers(Computed("PAYLOAD_LENGTH"), At("PAYLOAD_LENGTH"))
            /\ Covers(NotSent("NEXT_HEADER", 1, <<17>>), At("NEXT_HEADER"))
            /\ Covers(Ignored("HOP_LIMIT", 1, hop), At("HOP_LIMIT"))
        BY <2>1, Zenon
      <3>2. /\ Covers(NotSent("PREFIX_DEV", 1, h.prefix), At("PREFIX_DEV"))
            /\ Covers(NotSent("IID_DEV", 1, h.iid), At("IID_DEV"))
            /\ Covers(NotSent("PREFIX_APP", 1, r.prefix), At("PREFIX_APP"))
            /\ Covers(NotSent("IID_APP", 1, r.iid), At("IID_APP"))
        BY <2>1, Zenon
      <3> DEFINE A == NotSent("VERSION", 1, <<6>>) @@ NotSent("TRAFFIC_CLASS", 1, <<0>>)
                        @@ Ignored("FLOW_LABEL", 1, flow) @@ Computed("PAYLOAD_LENGTH")
                        @@ NotSent("NEXT_HEADER", 1, <<17>>) @@ Ignored("HOP_LIMIT", 1, hop)
                 B == At("VERSION") \union At("TRAFFIC_CLASS") \union At("FLOW_LABEL")
                        \union At("PAYLOAD_LENGTH") \union At("NEXT_HEADER")
                        \union At("HOP_LIMIT")
      <3>3. Covers(A, B)
        BY <3>1, CoversJoin, Zenon
      <3> DEFINE all == A @@ NotSent("PREFIX_DEV", 1, h.prefix)
                          @@ NotSent("IID_DEV", 1, h.iid)
                          @@ NotSent("PREFIX_APP", 1, r.prefix)
                          @@ NotSent("IID_APP", 1, r.iid)
      <3>4. IpFields(h, r, flow, hop) = all
        BY Zenon DEF IpFields
      <3> HIDE DEF A, B
      <3>5. Covers(all, B \union At("PREFIX_DEV") \union At("IID_DEV")
                          \union At("PREFIX_APP") \union At("IID_APP"))
        BY <3>2, <3>3, CoversJoin, Zenon
      <3> HIDE DEF all
      <3> QED
        BY <3>4, <3>5, Zenon DEF B
    <2>3. Covers(UdpFields(h, r),
            At("PORT_DEV") \union At("PORT_APP") \union At("UDP_LENGTH")
              \union At("CHECKSUM"))
      BY <2>1, CoversJoin, Zenon DEF UdpFields
    <2>4. DOMAIN E = DOMAIN IpFields(h, r, flow, hop) \union DOMAIN UdpFields(h, r)
      BY Joined, Zenon
    <2> HIDE DEF E
    <2> QED
      BY <2>2, <2>3, <2>4 DEF At, IpUdpFields, Covers
  <1> QED
    BY <1>1, <1>2

\* get_orangelabs_outer_rules at either end.
LEMMA OuterAgree ==
  ASSUME NEW h, NEW r
  PROVE  Alike(OuterRules(h, r), OuterRules(r, h), (56..61) \union {69, 70})
  <1> DEFINE E0 == IpFields(h, r, <<"12345">>, <<64>>) @@ UdpFields(h, r)
             F0 == IpFields(r, h, <<"12345">>, <<64>>) @@ UdpFields(r, h)
             c1 == CoapHeader("CON", "POST") @@ OscoreRequest
             c2 == CoapHeader("ACK", "CHANGED") @@ OscoreResponse
             c3 == CoapHeader("CON", "FETCH") @@ EmptyObserve @@ OscoreRequest
             c4 == CoapHeader("ACK", "CONTENT") @@ EmptyObserve @@ OscoreResponse
             c5 == Notification
             c6 == CoapHeader("CON", "POST")
                     @@ NotSent("URI_PATH", 1, <<".well-known/edhoc">>)
             c7 == CoapHeader("ACK", "CHANGED")
  <1>1. Both(E0, F0) /\ IpUdpFields \subseteq DOMAIN E0
    BY BothIpUdp, Zenon
  <1>2. /\ Both(OscoreResponse, OscoreResponse) /\ Both(EmptyObserve, EmptyObserve)
        /\ Both(NotSent("URI_PATH", 1, <<".well-known/edhoc">>),
                NotSent("URI_PATH", 1, <<".well-known/edhoc">>))
    BY BothAlike, NamesNoEnd, Zenon DEF OscoreResponse, EmptyObserve
  <1>3. Both(c1, c1) /\ Both(c2, c2) /\ Both(c7, c7)
    BY <1>2, BothCoap, BothOscoreRequest, BothJoin, Zenon
  <1>4. Both(c3, c3) /\ Both(c4, c4)
    BY <1>2, BothCoap, BothOscoreRequest, BothJoin, Zenon
  <1>5. Both(c5, c5)
    <2>1. /\ Both(ValueSent("OBSERVE", 1), ValueSent("OBSERVE", 1))
          /\ Both(ValueSent("OSCORE", 1), ValueSent("OSCORE", 1))
      BY BothAlike, NamesNoEnd, Zenon
    <2> QED
      BY <2>1, BothCoap, BothJoin, Zenon DEF Notification
  <1>6. Both(c6, c6)
    BY <1>2, BothCoap, BothJoin, Zenon
  <1> DEFINE Coap(id, c) == Rule(id, "ipv6_udp_coap", E0 @@ c)
             CoapF(id, c) == Rule(id, "ipv6_udp_coap", F0 @@ c)
  <1>7. OuterRules(h, r)
          = << Coap(56, c1), Coap(57, c2), Coap(58, c3), Coap(59, c4), Coap(60, c5),
               Coap(69, c6), Coap(70, c7), Rule(61, "ipv6_udp", E0) >>
    BY Zenon DEF OuterRules
  <1>8. OuterRules(r, h)
          = << CoapF(56, c1), CoapF(57, c2), CoapF(58, c3), CoapF(59, c4), CoapF(60, c5),
               CoapF(69, c6), CoapF(70, c7), Rule(61, "ipv6_udp", F0) >>
    BY Zenon DEF OuterRules
  <1> HIDE DEF E0, F0, c1, c2, c3, c4, c5, c6, c7
  <1>9. ASSUME NEW id, NEW c, Both(c, c)
        PROVE  Agree(Coap(id, c), CoapF(id, c)) /\ Coap(id, c).id = id
    <2>1. Both(E0 @@ c, F0 @@ c)
      BY <1>1, <1>9, BothJoin, Zenon
    <2> DEFINE E == E0 @@ c
               F == F0 @@ c
    <2> HIDE DEF E, F
    <2>2. Agree(Rule(id, "ipv6_udp_coap", E), Rule(id, "ipv6_udp_coap", F))
      BY <2>1, RulesAgree DEF E, F
    <2>3. Rule(id, "ipv6_udp_coap", E).id = id
      BY DEF Rule
    <2> QED
      BY <2>2, <2>3, Zenon DEF E, F
  <1>10. Agree(Rule(61, "ipv6_udp", E0), Rule(61, "ipv6_udp", F0))
         /\ Rule(61, "ipv6_udp", E0).id = 61
    BY <1>1 DEF Agree, Rule
  <1> HIDE DEF Coap, CoapF
  <1>11. /\ Agree(Coap(56, c1), CoapF(56, c1)) /\ Coap(56, c1).id = 56
         /\ Agree(Coap(57, c2), CoapF(57, c2)) /\ Coap(57, c2).id = 57
         /\ Agree(Coap(58, c3), CoapF(58, c3)) /\ Coap(58, c3).id = 58
         /\ Agree(Coap(59, c4), CoapF(59, c4)) /\ Coap(59, c4).id = 59
         /\ Agree(Coap(60, c5), CoapF(60, c5)) /\ Coap(60, c5).id = 60
         /\ Agree(Coap(69, c6), CoapF(69, c6)) /\ Coap(69, c6).id = 69
         /\ Agree(Coap(70, c7), CoapF(70, c7)) /\ Coap(70, c7).id = 70
    BY <1>3, <1>4, <1>5, <1>6, <1>9, Zenon
  <1> QED
    BY <1>7, <1>8, <1>10, <1>11 DEF Alike

\* tpl_get_template_rules at either end.
LEMMA TemplateAgree ==
  ASSUME NEW h, NEW r
  PROVE  Alike(TemplateRules(h, r), TemplateRules(r, h), {28})
  <1> DEFINE E0 == IpFields(h, r, <<"0">>, <<255>>) @@ UdpFields(h, r)
             F0 == IpFields(r, h, <<"0">>, <<255>>) @@ UdpFields(r, h)
             Whatever(E) ==
               E @@ NotSent("COAP_VERSION", 1, <<1>>) @@ NotSent("TYPE", 1, <<"CON">>)
                 @@ NotSent("TOKEN_LENGTH", 1, <<0>>) @@ NotSent("CODE", 1, <<"POST">>)
                 @@ ValueSent("MSG_ID", 1) @@ NotSent("TOKEN", 1, <<>>)
                 @@ NotSent("URI_PATH", 1, <<"notifications">>)
                 @@ NotSent("URI_PATH", 2, <<"temp">>)
                 @@ NotSent("CONTENT_FORMAT", 1, <<60>>)
  <1>1. Both(E0, F0)
    BY BothIpUdp, Zenon
  <1>2. Both(Whatever(E0), Whatever(F0))
    <2>1. /\ Both(NotSent("COAP_VERSION", 1, <<1>>), NotSent("COAP_VERSION", 1, <<1>>))
          /\ Both(NotSent("TYPE", 1, <<"CON">>), NotSent("TYPE", 1, <<"CON">>))
          /\ Both(NotSent("TOKEN_LENGTH", 1, <<0>>), NotSent("TOKEN_LENGTH", 1, <<0>>))
          /\ Both(NotSent("CODE", 1, <<"POST">>), NotSent("CODE", 1, <<"POST">>))
          /\ Both(ValueSent("MSG_ID", 1), ValueSent("MSG_ID", 1))
          /\ Both(NotSent("TOKEN", 1, <<>>), NotSent("TOKEN", 1, <<>>))
      BY BothAlike, NamesNoEnd, Zenon
    <2>2. /\ Both(NotSent("URI_PATH", 1, <<"notifications">>),
                  NotSent("URI_PATH", 1, <<"notifications">>))
          /\ Both(NotSent("URI_PATH", 2, <<"temp">>), NotSent("URI_PATH", 2, <<"temp">>))
          /\ Both(NotSent("CONTENT_FORMAT", 1, <<60>>),
                  NotSent("CONTENT_FORMAT", 1, <<60>>))
      BY BothAlike, NamesNoEnd, Zenon
    <2> HIDE DEF E0, F0
    <2> QED
      BY <1>1, <2>1, <2>2, BothJoin, Zenon
  <1>3. /\ TemplateRules(h, r) = << Rule(28, "ipv6_udp_coap", Whatever(E0)) >>
        /\ TemplateRules(r, h) = << Rule(28, "ipv6_udp_coap", Whatever(F0)) >>
    BY Zenon DEF TemplateRules, TemplateIpUdp
  <1> DEFINE E == Whatever(E0)
             F == Whatever(F0)
  <1>4. Both(E, F)
    BY <1>2
  <1>5. /\ TemplateRules(h, r) = << Rule(28, "ipv6_udp_coap", E) >>
        /\ TemplateRules(r, h) = << Rule(28, "ipv6_udp_coap", F) >>
    BY <1>3
  <1> HIDE DEF E, F
  <1>6. /\ Agree(Rule(28, "ipv6_udp_coap", E), Rule(28, "ipv6_udp_coap", F))
        /\ Rule(28, "ipv6_udp_coap", E).id = 28
    BY <1>4, RulesAgree
  <1> QED
    BY <1>5, <1>6 DEF Alike

-----------------------------------------------------------------------------
\* A part of a table that both ends have alike, with identifiers from a to b.
Run(T, S, a, b) ==
  /\ S \in Seq(T)
  /\ \A n \in 1..Len(S) : Agree(S[n], S[n]) /\ S[n].id \in a..b
  /\ \A m, n \in 1..Len(S) : S[m].id = S[n].id => m = n

\* A part and the next one.
LEMMA RunJoin ==
  ASSUME NEW T, NEW S, NEW U, NEW a \in Nat, NEW b \in Nat, NEW c \in Nat, NEW d \in Nat,
         Run(T, S, a, b), Run(T, U, c, d), b < c, a <= b, c <= d
  PROVE  Run(T, S \o U, a, d)
  <1> DEFINE V == S \o U
  <1>1. V \in Seq(T) /\ Len(V) = Len(S) + Len(U) /\ Len(S) \in Nat /\ Len(U) \in Nat
    BY DEF Run
  <1>2. ASSUME NEW n \in 1..Len(V)
        PROVE  /\ n <= Len(S) => n \in 1..Len(S) /\ V[n] = S[n]
               /\ n > Len(S) => n - Len(S) \in 1..Len(U) /\ V[n] = U[n - Len(S)]
    BY <1>1 DEF Run
  <1> HIDE DEF V
  <1>0. a..b \subseteq a..d /\ c..d \subseteq a..d
    OBVIOUS
  <1>3. ASSUME NEW n \in 1..Len(V)
        PROVE  /\ Agree(V[n], V[n]) /\ V[n].id \in a..d
               /\ n <= Len(S) => V[n].id \in a..b
               /\ n > Len(S) => V[n].id \in c..d
    <2>1. CASE n <= Len(S)
      <3>1. Agree(S[n], S[n]) /\ S[n].id \in a..b /\ V[n] = S[n]
        BY <1>2, <2>1 DEF Run
      <3>2. ~(n > Len(S))
        BY <1>1, <2>1
      <3> QED
        BY <1>0, <3>1, <3>2, Zenon
    <2>2. CASE n > Len(S)
      <3> DEFINE k == n - Len(S)
      <3>1. Agree(U[k], U[k]) /\ U[k].id \in c..d /\ V[n] = U[k]
        BY <1>2, <2>2 DEF Run
      <3> HIDE DEF k
      <3>2. ~(n <= Len(S))
        BY <1>1, <2>2
      <3> QED
        BY <1>0, <3>1, <3>2, Zenon
    <2> QED
      BY <1>1, <2>1, <2>2
  <1>4. ASSUME NEW m \in 1..Len(V), NEW n \in 1..Len(V), V[m].id = V[n].id
        PROVE  m = n
    <2>1. (m <= Len(S) /\ n <= Len(S)) \/ (m > Len(S) /\ n > Len(S))
      <3>1. ASSUME NEW x \in 1..Len(V), NEW y \in 1..Len(V), x <= Len(S), y > Len(S)
            PROVE  V[x].id # V[y].id
        <4>1. V[x].id \in a..b /\ V[y].id \in c..d
          BY <1>3, <3>1, Zenon
        <4>2. \A i \in a..b, j \in c..d : i # j
          OBVIOUS
        <4> QED
          BY <4>1, <4>2, Zenon
      <3>2. (m <= Len(S) \/ m > Len(S)) /\ (n <= Len(S) \/ n > Len(S))
        BY <1>1
      <3> QED
        BY <1>4, <3>1, <3>2, Zenon
    <2>2. CASE m <= Len(S) /\ n <= Len(S)
      BY <1>2, <1>4, <2>2, Zenon DEF Run
    <2>3. CASE m > Len(S) /\ n > Len(S)
      <3> DEFINE i == m - Len(S)
                 j == n - Len(S)
      <3>0. i \in 1..Len(U) /\ j \in 1..Len(U) /\ V[m] = U[i] /\ V[n] = U[j]
        BY <1>2, <2>3, Zenon
      <3> HIDE DEF i, j
      <3>1. i = j
        BY <1>4, <3>0, Zenon DEF Run
      <3> USE DEF i, j
      <3> QED
        BY <1>1, <3>1
    <2> QED
      BY <2>1, <2>2, <2>3
  <1>5. Run(T, V, a, d)
    BY <1>1, <1>3, <1>4 DEF Run
  <1> QED
    BY <1>5 DEF V

\* An inner rule is its code and more entries.
LEMMA InnerRuleAgrees ==
  ASSUME NEW id, NEW code, NEW E, Both(E, E)
  PROVE  /\ Agree(InnerRule(id, code, E), InnerRule(id, code, E))
         /\ InnerRule(id, code, E).id = id
  <1>1. Both(NotSent("CODE", 1, <<code>>), NotSent("CODE", 1, <<code>>))
    BY BothAlike, NamesNoEnd, Zenon
  <1> DEFINE F == NotSent("CODE", 1, <<code>>) @@ E
  <1>2. Both(F, F)
    BY <1>1, BothJoin, Zenon
  <1>3. InnerRule(id, code, E) = Rule(id, "oscore_plaintext", F)
    BY Zenon DEF InnerRule
  <1> HIDE DEF F
  <1> QED
    BY <1>2, <1>3, RulesAgree

\* The segments of a path.
LEMMA BothPath == ASSUME NEW segments PROVE Both(UriPath(segments), UriPath(segments))
  <1> DEFINE E == UriPath(segments)
             K == {<<"URI_PATH", n>> : n \in DOMAIN segments}
  <1>1. /\ DOMAIN E = K
        /\ \A k \in K : E[k].mo = "equal" /\ E[k].cda = "not_sent"
    BY DEF UriPath
  <1>2. ASSUME NEW k \in K PROVE Field(k) /\ MirrorField(k) = k
    <2>1. PICK n \in DOMAIN segments : k = <<"URI_PATH", n>>
      OBVIOUS
    <2>2. MirrorField(<<"URI_PATH", n>>) = <<"URI_PATH", n>>
      BY Unmirrored, NamesNoEnd, Zenon
    <2> QED
      BY <2>1, <2>2 DEF Field
  <1> HIDE DEF E, K
  <1>3. Crossed(E, E)
    BY <1>1, <1>2 DEF Crossed
  <1>4. AllSound(E)
    BY <1>1 DEF AllSound, Sound
  <1> QED
    BY <1>3, <1>4 DEF Both, E

\* The entries of the inner rules.
LEMMA BothInner ==
  /\ Both(Nothing, Nothing)
  /\ Both(NotSent("ACCEPT", 1, Tlv), NotSent("ACCEPT", 1, Tlv))
  /\ Both(NotSent("CONTENT_FORMAT", 1, Tlv), NotSent("CONTENT_FORMAT", 1, Tlv))
  /\ Both(Location("URI_PATH"), Location("URI_PATH"))
  /\ Both(Location("LOCATION_PATH"), Location("LOCATION_PATH"))
  /\ Both(EmptyObserve, EmptyObserve)
  <1>1. Both(Nothing, Nothing)
    BY DEF Both, Crossed, AllSound, Nothing
  <1>2. /\ Both(NotSent("ACCEPT", 1, Tlv), NotSent("ACCEPT", 1, Tlv))
        /\ Both(NotSent("CONTENT_FORMAT", 1, Tlv), NotSent("CONTENT_FORMAT", 1, Tlv))
        /\ Both(EmptyObserve, EmptyObserve)
    BY BothAlike, NamesNoEnd, Zenon DEF EmptyObserve
  <1>3. ASSUME NEW f, f \notin NamesAnEnd PROVE Both(Location(f), Location(f))
    <2>1. /\ Both(NotSent(f, 1, <<"rd">>), NotSent(f, 1, <<"rd">>))
          /\ Both(ValueSent(f, 2), ValueSent(f, 2))
      BY <1>3, BothAlike, Zenon
    <2> QED
      BY <2>1, BothJoin, Zenon DEF Location
  <1> QED
    BY <1>1, <1>2, <1>3, NamesNoEnd, Zenon

\* The entries of get_rule_40.
LEMMA BothRegistration ==
  LET E == UriPath(<<"rd">>) @@ NotSent("CONTENT_FORMAT", 1, <<40>>)
             @@ NotSent("URI_QUERY", 1, <<"lwm2m=1.1">>) @@ Mapped("URI_QUERY", 2, Names)
             @@ NotSent("URI_QUERY", 3, <<"b=U">>) @@ Mapped("URI_QUERY", 4, Lifetimes)
  IN Both(E, E)
  <1>1. /\ Both(NotSent("CONTENT_FORMAT", 1, <<40>>), NotSent("CONTENT_FORMAT", 1, <<40>>))
        /\ Both(NotSent("URI_QUERY", 1, <<"lwm2m=1.1">>),
                NotSent("URI_QUERY", 1, <<"lwm2m=1.1">>))
        /\ Both(NotSent("URI_QUERY", 3, <<"b=U">>), NotSent("URI_QUERY", 3, <<"b=U">>))
    BY BothAlike, NamesNoEnd, Zenon
  <1>2. /\ Both(Mapped("URI_QUERY", 2, Names), Mapped("URI_QUERY", 2, Names))
        /\ Both(Mapped("URI_QUERY", 4, Lifetimes), Mapped("URI_QUERY", 4, Lifetimes))
    BY BothAlike, NamesNoEnd, Zenon
  <1> QED
    BY <1>1, <1>2, BothPath, BothJoin, Zenon

\* get_orange_labs_inner_rules, which both ends have alike: rule after rule, then part
\* after part.
LEMMA InnerAgree == Alike(InnerRules, InnerRules, 40..56)
  <1> DEFINE accept == NotSent("ACCEPT", 1, Tlv)
             format == NotSent("CONTENT_FORMAT", 1, Tlv)
             Ok(x, id) == Agree(x, x) /\ x.id = id
  <1>1. ASSUME NEW id, NEW code, NEW E, Both(E, E)
        PROVE  Ok(InnerRule(id, code, E), id)
    BY <1>1, InnerRuleAgrees
  <1> HIDE DEF Ok
  <1>2. Ok(Registration, 40)
    BY <1>1, BothRegistration, Zenon DEF Registration
  <1> DEFINE r41 == InnerRule(41, "CREATED", Location("LOCATION_PATH"))
             r42 == InnerRule(42, "POST", Location("URI_PATH"))
             r43 == InnerRule(43, "CHANGED", Nothing)
             r44 == InnerRule(44, "GET", UriPath(<<"3303", "0", "5700">>) @@ accept)
             r45 == InnerRule(45, "CONTENT", format)
             r46 == InnerRule(46, "PUT", UriPath(<<"3311", "0", "5850">>) @@ format)
             r47 == InnerRule(47, "CHANGED", Nothing)
             r48 == InnerRule(48, "GET", UriPath(<<"3311", "0", "5850">>) @@ accept)
             r50 == InnerRule(50, "GET", UriPath(<<"6", "0">>) @@ EmptyObserve @@ accept)
             r51 == InnerRule(51, "CONTENT", EmptyObserve @@ format)
             r52 == InnerRule(52, "GET", UriPath(<<"3", "0", "9">>) @@ accept)
             r53 == InnerRule(53, "POST", Location("URI_PATH"))
             r54 == InnerRule(54, "EMPTY", Nothing)
             r55 == InnerRule(55, "DELETE", Location("URI_PATH"))
             r56 == InnerRule(56, "DELETED", Nothing)
  <1>3. Ok(r41, 41) /\ Ok(r42, 42) /\ Ok(r43, 43) /\ Ok(r45, 45) /\ Ok(r47, 47)
    BY BothInner, <1>1, Zenon
  <1>4. Ok(r53, 53) /\ Ok(r54, 54) /\ Ok(r55, 55) /\ Ok(r56, 56)
    BY BothInner, <1>1, Zenon
  <1>5. ASSUME NEW p, NEW id, NEW code
        PROVE  /\ Ok(InnerRule(id, code, UriPath(p) @@ accept), id)
               /\ Ok(InnerRule(id, code, UriPath(p) @@ format), id)
               /\ Ok(InnerRule(id, code, UriPath(p) @@ EmptyObserve @@ accept), id)
    <2>1. /\ Both(UriPath(p) @@ accept, UriPath(p) @@ accept)
          /\ Both(UriPath(p) @@ format, UriPath(p) @@ format)
      BY BothInner, BothPath, BothJoin, Zenon
    <2>2. Both(UriPath(p) @@ EmptyObserve @@ accept, UriPath(p) @@ EmptyObserve @@ accept)
      BY BothInner, BothPath, BothJoin, Zenon
    <2> QED
      BY <2>1, <2>2, <1>1, Zenon
  <1>6. Ok(r44, 44) /\ Ok(r46, 46) /\ Ok(r48, 48) /\ Ok(r50, 50) /\ Ok(r52, 52)
    BY <1>5, Zenon
  <1>7. Ok(r51, 51)
    BY BothInner, BothJoin, <1>1, Zenon
  <1>8. /\ RegistrationRules = <<r41, r42, r43>> /\ StatusRules = <<r44, r45>>
        /\ LightRules = <<r46, r47, r48>> /\ ObserveRules = <<r50, r51, r52>>
        /\ EndRules = <<r53, r54, r55, r56>>
    BY Zenon DEF RegistrationRules, StatusRules, LightRules, ObserveRules, EndRules
  <1> DEFINE r40 == Registration
             T == {r40, r41, r42, r43, r44, r45, r46, r47, r48, r50, r51, r52, r53, r54,
                   r55, r56}
  <1> HIDE DEF r40, r41, r42, r43, r44, r45, r46, r47, r48, r50, r51,
           r52, r53, r54, r55, r56
  <1>9. Run(T, <<r40>>, 40, 40)
    BY <1>2 DEF Run, Ok, r40
  <1>10. Run(T, <<r41, r42, r43>>, 41, 43)
    BY <1>3 DEF Run, Ok
  <1>11. Run(T, <<r44, r45>>, 44, 45)
    BY <1>3, <1>6 DEF Run, Ok
  <1>12. Run(T, <<r46, r47, r48>>, 46, 48)
    BY <1>3, <1>6 DEF Run, Ok
  <1>13. Run(T, <<r50, r51, r52>>, 50, 52)
    BY <1>6, <1>7 DEF Run, Ok
  <1>14. Run(T, <<r53, r54, r55, r56>>, 53, 56)
    BY <1>4 DEF Run, Ok
  <1> HIDE DEF T
  <1>15. Run(T, <<r40>> \o RegistrationRules, 40, 43)
    BY <1>8, <1>9, <1>10, RunJoin
  <1>16. Run(T, <<r40>> \o RegistrationRules \o StatusRules, 40, 45)
    BY <1>8, <1>11, <1>15, RunJoin
  <1>17. Run(T, <<r40>> \o RegistrationRules \o StatusRules \o LightRules, 40, 48)
    BY <1>8, <1>12, <1>16, RunJoin
  <1>18. Run(T, <<r40>> \o RegistrationRules \o StatusRules \o LightRules \o ObserveRules,
             40, 52)
    BY <1>8, <1>13, <1>17, RunJoin
  <1>19. Run(T, InnerRules, 40, 56)
    BY <1>8, <1>14, <1>18, RunJoin DEF InnerRules, r40
  <1>20. InnerRules \in Seq(T) /\ DOMAIN InnerRules = 1..Len(InnerRules)
    BY <1>19 DEF Run
  <1> QED
    BY <1>19, <1>20, Zenon DEF Run, Alike

-----------------------------------------------------------------------------
\* A message that a rule of one end applies to comes back from the other end's rule as
\* it was, but for the fields given up.
LEMMA CrossRestores ==
  ASSUME NEW r, NEW s, NEW m, Agree(r, s), Applies(r, m), IsMessage(m)
  PROVE  LET back == AtOtherEnd(Decompressed(s, Compressed(r, m)))
         IN DOMAIN back = DOMAIN m /\ \A k \in DOMAIN m \ GivenUp : back[k] = m[k]
  <1> DEFINE D == DOMAIN r.entries
             DD == DOMAIN s.entries
             K == DOMAIN m
             frm == Compressed(r, m)
             whole == Decompressed(s, frm)
             back == AtOtherEnd(whole)
             F == SentFields(r)
             FF == SentFields(s)
  <1>1. D \subseteq K /\ D = Header(r, m) /\ \A k \in D : Matches(r.entries[k], m[k])
    BY DEF Applies, Header
  <1>2. /\ \A k \in D : Field(k) /\ Sound(k, r.entries[k])
        /\ \A k \in D : s.entries[MirrorField(k)] = r.entries[k]
        /\ DD = {MirrorField(k) : k \in D}
    BY Zenon DEF Agree, Both, Crossed, AllSound
  <1>3. \A k \in K : Field(k) /\ MirrorField(MirrorField(k)) = k
    BY MirrorTwice, Zenon DEF IsMessage, Field
  <1>4. ASSUME NEW k \in K \ D PROVE MirrorField(k) = k
    <2>1. r.stack = "ipv6_udp"
      BY <1>1 DEF Header
    <2>2. k \notin IpUdpFields
      BY <2>1, Zenon DEF Agree
    <2> DEFINE f == k[1]
    <2>3. f \notin NamesAnEnd
      <3> SUFFICES ASSUME f \in NamesAnEnd PROVE FALSE
        OBVIOUS
      <3>1. Mirror(f) # f
        <4>1. \/ f = "PREFIX_DEV" \/ f = "PREFIX_APP" \/ f = "IID_DEV"
              \/ f = "IID_APP" \/ f = "PORT_DEV" \/ f = "PORT_APP"
          BY DEF NamesAnEnd
        <4> HIDE DEF f
        <4> QED
          BY <4>1, MirrorIs
      <3>2. k = <<f, 1>>
        BY <3>1 DEF IsMessage
      <3> HIDE DEF f
      <3> QED
        BY <2>2, <3>2 DEF NamesAnEnd, IpUdpFields
    <2>4. k = <<f, k[2]>>
      BY Zenon DEF IsMessage
    <2> QED
      BY <2>3, <2>4, Unmirrored, Zenon
  <1>5. ASSUME NEW k \in F PROVE k \in D /\ MirrorField(k) = k
    BY <1>2 DEF SentFields, Sound
  <1>6. ASSUME NEW k \in D
        PROVE  /\ MirrorField(k) \in DD
               /\ MirrorField(k) \in FF <=> k \in F
    BY <1>2 DEF SentFields
  <1>7. ASSUME NEW k \in K \ D PROVE k \notin DD /\ k \notin FF
    <2>1. k \notin DD
      <3> SUFFICES ASSUME k \in DD PROVE FALSE
        OBVIOUS
      <3>1. PICK j \in D : k = MirrorField(j)
        BY <1>2
      <3>2. MirrorField(k) = j
        BY <1>1, <1>3, <3>1
      <3> QED
        BY <1>4, <3>2
    <2> QED
      BY <2>1 DEF SentFields
  <1>8. /\ frm.payload = [k \in K \ D |-> m[k]]
        /\ frm.residue = [k \in F |-> Residue(r.entries[k], m[k])]
    BY DEF Compressed
  <1>9. whole = [k \in DD \union (K \ D) |->
                   IF k \in FF THEN Restored(s.entries[k], frm.residue[k])
                   ELSE IF k \in DD THEN Elided(s.entries[k]) ELSE frm.payload[k]]
    <2>1. DOMAIN frm.payload = K \ D
      BY <1>8
    <2> HIDE DEF frm
    <2> QED
      BY <2>1, Zenon DEF Decompressed
  <1> HIDE DEF whole, frm, F, FF
  <1>10. DOMAIN whole = DD \union (K \ D)
    BY <1>9
  <1>11. {MirrorField(j) : j \in DOMAIN whole} = K
    <2>1. ASSUME NEW j \in DOMAIN whole PROVE MirrorField(j) \in K
      <3>1. CASE j \in K \ D
        BY <1>4, <3>1
      <3>2. CASE j \in DD
        <4>1. PICK k \in D : j = MirrorField(k)
          BY <1>2, <3>2
        <4> QED
          BY <1>1, <1>3, <4>1
      <3> QED
        BY <1>10, <3>1, <3>2
    <2>2. ASSUME NEW k \in K PROVE \E j \in DOMAIN whole : k = MirrorField(j)
      <3>1. CASE k \in D
        BY <1>3, <1>6, <1>10, <3>1, Zenon
      <3>2. CASE k \in K \ D
        BY <1>4, <1>10, <3>2
      <3> QED
        BY <3>1, <3>2
    <2> QED
      BY <2>1, <2>2
  <1>12. back = [k \in K |-> whole[MirrorField(k)]]
    BY <1>11, Zenon DEF AtOtherEnd
  <1>13. ASSUME NEW k \in K \ GivenUp PROVE whole[MirrorField(k)] = m[k]
    <2> DEFINE e == r.entries[k]
               j == MirrorField(k)
    <2>1. CASE k \in F
      <3>1. j = k /\ k \in D /\ k \in FF /\ s.entries[k] = e
        BY <1>2, <1>5, <1>6, <2>1, Zenon
      <3>2. whole[j] = Restored(e, Residue(e, m[k]))
        <4>1. k \in DD
          BY <1>6, <3>1, Zenon
        <4>2. whole[k] = Restored(s.entries[k], frm.residue[k])
          BY <1>9, <3>1, <4>1
        <4>3. frm.residue[k] = Residue(e, m[k])
          BY <1>8, <2>1
        <4> QED
          BY <3>1, <4>2, <4>3, Zenon
      <3>3. e.cda \notin {"not_sent", "compute"}
        BY <2>1 DEF SentFields, F
      <3>4. /\ Lossless(e) /\ Matches(e, m[k])
            /\ e.mo = "msb" => e.tv \in Seq(Nat) /\ k = <<"OSCORE", 1>>
        BY <1>1, <1>2, <3>1, <3>3 DEF Sound
      <3>5. e.mo = "msb" => m[k] \in Seq(Nat)
        <4>1. k \in K
          BY <1>1, <3>1
        <4> HIDE DEF e
        <4> QED
          BY <3>4, <4>1 DEF IsMessage
      <3>6. Rebuilt(e, m[k]) = m[k]
        BY <3>4, <3>5, EntryRestores
      <3>7. Rebuilt(e, m[k]) = Restored(e, Residue(e, m[k]))
        BY <3>3, Zenon DEF Rebuilt
      <3> QED
        BY <3>2, <3>6, <3>7
    <2>2. CASE k \in D \ F
      <3>1. j \in DD /\ j \notin FF /\ s.entries[j] = e
        BY <1>2, <1>6, <2>2, Zenon
      <3>2. whole[j] = Elided(e)
        BY <1>9, <3>1
      <3>3. e.cda \in {"not_sent", "compute"}
        BY <2>2 DEF SentFields, F
      <3>4. Sound(k, e) /\ Matches(e, m[k])
        BY <1>1, <1>2, <2>2
      <3>5. CASE e.mo = "equal" /\ e.cda = "not_sent"
        BY <3>2, <3>4, <3>5 DEF Matches, Elided
      <3>6. CASE e.cda = "compute" /\ k \in ComputedFields
        BY <3>2, <3>6 DEF Elided, IsMessage, ComputedFields
      <3> QED
        BY <3>3, <3>4, <3>5, <3>6 DEF Sound
    <2>3. CASE k \in K \ D
      <3>1. j = k /\ k \notin DD /\ k \notin FF
        BY <1>4, <1>7, <2>3
      <3> QED
        BY <1>8, <1>9, <2>3, <3>1
    <2> QED
      BY <1>5, <2>1, <2>2, <2>3
  <1> QED
    BY <1>12, <1>13 DEF whole, frm

-----------------------------------------------------------------------------
\* What main.c configures: each end has the other's address for its peer's.
LEMMA EndsMirror ==
  /\ "device" \in Ends /\ "peer" \in Ends
  /\ Other("device") = "peer" /\ Other("peer") = "device"
  /\ \A end \in Ends : Host(Other(end)) = Remote(end) /\ Remote(Other(end)) = Host(end)
  BY DEF Ends, Other, Host, Remote

\* Whatever the table, the two ends' agree, and no rule has the default identifier.
LEMMA TablesAgree ==
  ASSUME rules \in Tables, sender \in Ends
  PROVE  \E Ids : Alike(Table(sender), Table(Other(sender)), Ids) /\ DefaultId \notin Ids
  <1> DEFINE h == Host(sender)
             r == Remote(sender)
  <1>1. Host(Other(sender)) = r /\ Remote(Other(sender)) = h
    BY EndsMirror
  <1> HIDE DEF h, r
  <1>2. CASE rules = "outer"
    <2>1. Table(sender) = OuterRules(h, r) /\ Table(Other(sender)) = OuterRules(r, h)
      BY <1>1, <1>2 DEF Table, h, r
    <2>2. DefaultId = 150
      BY <1>2 DEF DefaultId
    <2>3. 150 \notin (56..61) \union {69, 70}
      OBVIOUS
    <2> QED
      <3> DEFINE Ids == (56..61) \union {69, 70}
      <3>1. Alike(OuterRules(h, r), OuterRules(r, h), Ids)
        BY OuterAgree
      <3> HIDE DEF Ids
      <3>2. Alike(Table(sender), Table(Other(sender)), Ids)
        BY <2>1, <3>1, Zenon
      <3>3. DefaultId \notin Ids
        BY <2>2, <2>3 DEF Ids
      <3> QED
        BY <3>2, <3>3, Zenon
  <1>3. CASE rules = "inner"
    <2>1. Table(sender) = InnerRules /\ Table(Other(sender)) = InnerRules
      BY <1>3 DEF Table
    <2>2. DefaultId = 150
      BY <1>3 DEF DefaultId
    <2>3. 150 \notin 40..56
      OBVIOUS
    <2> QED
      BY <2>1, <2>2, <2>3, InnerAgree, Zenon
  <1>4. CASE rules = "template"
    <2>1. /\ Table(sender) = TemplateRules(h, r)
          /\ Table(Other(sender)) = TemplateRules(r, h)
      BY <1>1, <1>4 DEF Table, h, r
    <2>2. DefaultId = 150
      BY <1>4 DEF DefaultId
    <2>3. 150 \notin {28}
      OBVIOUS
    <2> QED
      BY <2>1, <2>2, <2>3, TemplateAgree, Zenon
  <1>5. CASE rules = "plain"
    <2>1. Table(sender) = <<>> /\ Table(Other(sender)) = <<>>
      BY <1>5 DEF Table
    <2>2. Alike(Table(sender), Table(Other(sender)), {})
      BY <2>1 DEF Alike
    <2>3. DefaultId \notin {}
      OBVIOUS
    <2> QED
      BY <2>2, <2>3, Zenon
  <1> QED
    BY <1>2, <1>3, <1>4, <1>5 DEF Tables

-----------------------------------------------------------------------------
\* What CompressNot sends.
Default == [id |-> DefaultId, residue |-> <<>>, payload |-> sent]

\* What is on the link is the message compressed with a rule that applies, or whole,
\* and its fragments have a profile of its sender.
LinkInv ==
  /\ rules \in Tables /\ sender \in Ends /\ sent \in Messages(rules, sender)
  /\ \/ frame = None
     \/ \E i \in Applicable : frame = Compressed(Table(sender)[i], sent)
     \/ frame = Default
  /\ carried # Whole => /\ carried.api \in Apis
                        /\ carried.profile \in ProfilesThat(carried.api, sender, "UP")
  /\ Restores

\* The rule the other end finds by its identifier is the one the message was compressed
\* with, since no two share one.
LEMMA Decompresses ==
  ASSUME LinkInv, Decompress PROVE Restores'
  <1> DEFINE T == Table(sender)
             U == Table(Other(sender))
  <1>1. rules \in Tables /\ sender \in Ends /\ IsMessage(sent)
    BY LinkAssumption DEF LinkInv
  <1>2. PICK Ids : Alike(T, U, Ids) /\ DefaultId \notin Ids
    BY <1>1, TablesAgree, Zenon
  <1>3. PICK i \in DOMAIN U : /\ U[i].id = frame.id
                            /\ got' = AtOtherEnd(Decompressed(U[i], frame))
    BY Zenon DEF Decompress
  <1>4. sent' = sent /\ frame # None
    BY DEF Decompress
  <1>5. \/ \E n \in Applicable : frame = Compressed(T[n], sent)
        \/ frame = Default
    BY <1>4 DEF LinkInv
  <1> HIDE DEF T, U
  <1>6. i \in DOMAIN T /\ Agree(T[i], U[i]) /\ T[i].id \in Ids
    BY <1>2, <1>3, Zenon DEF Alike
  <1>7. U[i].id = T[i].id
    BY <1>6, Zenon DEF Agree
  <1>8. frame # Default
    <2>1. Default.id = DefaultId
      BY DEF Default
    <2> QED
      BY <1>2, <1>3, <1>6, <1>7, <2>1, Zenon
  <1>9. PICK n \in Applicable : frame = Compressed(T[n], sent)
    BY <1>5, <1>8
  <1>10. n \in DOMAIN T /\ Applies(T[n], sent)
    BY Zenon DEF Applicable, T
  <1>11. frame.id = T[n].id
    BY <1>9 DEF Compressed
  <1>12. n = i
    BY <1>2, <1>3, <1>6, <1>7, <1>10, <1>11, Zenon DEF Alike
  <1>13. LET back == AtOtherEnd(Decompressed(U[i], Compressed(T[i], sent)))
         IN DOMAIN back = DOMAIN sent /\ \A k \in DOMAIN sent \ GivenUp : back[k] = sent[k]
    <2>1. Agree(T[i], U[i]) /\ Applies(T[i], sent) /\ IsMessage(sent)
      BY <1>1, <1>6, <1>10, <1>12, Zenon
    <2> HIDE DEF T, U
    <2> DEFINE r == T[i]
               s == U[i]
    <2>2. Agree(r, s) /\ Applies(r, sent)
      BY <2>1
    <2> HIDE DEF r, s
    <2>3. LET back == AtOtherEnd(Decompressed(s, Compressed(r, sent)))
          IN DOMAIN back = DOMAIN sent /\ \A k \in DOMAIN sent \ GivenUp : back[k] = sent[k]
      BY <2>1, <2>2, CrossRestores
    <2> QED
      BY <2>3 DEF r, s
  <1>14. got' = AtOtherEnd(Decompressed(U[i], Compressed(T[i], sent)))
    BY <1>3, <1>9, <1>12, Zenon
  <1> QED
    BY <1>4, <1>13, <1>14, Zenon DEF Restores

\* No rule has the default identifier, so that what arrives behind it is whole.
LEMMA DecompressesNot ==
  ASSUME LinkInv, DecompressNot PROVE Restores'
  <1> DEFINE T == Table(sender)
  <1>1. rules \in Tables /\ sender \in Ends
    BY DEF LinkInv
  <1>2. PICK Ids : Alike(T, Table(Other(sender)), Ids) /\ DefaultId \notin Ids
    BY <1>1, TablesAgree, Zenon
  <1>3. frame # None /\ frame.id = DefaultId /\ got' = frame.payload /\ sent' = sent
    BY DEF DecompressNot
  <1> HIDE DEF T
  <1>4. ASSUME NEW i \in Applicable, frame = Compressed(T[i], sent) PROVE FALSE
    <2>1. i \in DOMAIN T
      BY Zenon DEF Applicable, T
    <2>2. frame.id = T[i].id
      BY <1>4 DEF Compressed
    <2> QED
      BY <1>2, <1>3, <2>1, <2>2, Zenon DEF Alike
  <1>5. frame = Default
    BY <1>3, <1>4 DEF LinkInv, T
  <1>6. got' = sent
    BY <1>3, <1>5 DEF Default
  <1> QED
    BY <1>3, <1>6 DEF Restores

\* LinkInv is inductive.
LEMMA LinkInductive ==
  ASSUME LinkInv, [Next]_vars PROVE LinkInv'
  <1>1. CASE Compress
    <2>1. UNCHANGED <<rules, sender, sent, carried, got>>
          /\ \E i \in Applicable : frame' = Compressed(Table(sender)[i], sent)
      BY <1>1, Zenon DEF Compress
    <2>2. Applicable' = Applicable /\ \A i : (Table(sender)[i])' = Table(sender)[i]
      BY <2>1 DEF Applicable, Table
    <2> QED
      BY <2>1, <2>2 DEF LinkInv, Restores, ProfilesThat
  <1>2. CASE CompressNot
    <2>1. frame' = Default' /\ UNCHANGED <<rules, sender, sent, carried, got>>
      BY <1>2 DEF CompressNot, Default, DefaultId
    <2> QED
      BY <2>1 DEF LinkInv, Restores, ProfilesThat
  <1>3. ASSUME UNCHANGED <<rules, sender, sent, frame>>
        PROVE  \/ frame' = None
               \/ \E i \in Applicable' : frame' = (Compressed(Table(sender)[i], sent))'
               \/ frame' = Default'
    <2>1. Applicable' = Applicable /\ \A i : (Table(sender)[i])' = Table(sender)[i]
      BY <1>3 DEF Applicable, Table
    <2>2. Default' = Default
      BY <1>3 DEF Default, DefaultId
    <2> QED
      BY <1>3, <2>1, <2>2 DEF LinkInv
  <1>4. CASE Fragment
    <2> PICK api \in Apis : \E profile \in ProfilesThat(api, sender, "UP") :
                              carried' = [api |-> api, profile |-> profile]
      BY <1>4, Zenon DEF Fragment
    <2>1. PICK profile \in ProfilesThat(api, sender, "UP") :
            carried' = [api |-> api, profile |-> profile]
      OBVIOUS
    <2>2. UNCHANGED <<rules, sender, sent, frame, got>>
      BY <1>4 DEF Fragment
    <2>3. carried'.api = api /\ carried'.profile = profile
      BY <2>1
    <2>4. ProfilesThat(api, sender, "UP")' = ProfilesThat(api, sender, "UP")
      BY <2>2 DEF ProfilesThat
    <2> QED
      BY <1>3, <2>1, <2>2, <2>3, <2>4 DEF LinkInv, Restores
  <1>5. CASE Decompress \/ DecompressNot
    <2>1. UNCHANGED <<rules, sender, sent, frame, carried>>
      BY <1>5 DEF Decompress, DecompressNot
    <2>2. Restores'
      BY <1>5, Decompresses, DecompressesNot, Zenon
    <2>3. \A api : ProfilesThat(api, sender, "UP")' = ProfilesThat(api, sender, "UP")
      BY <2>1 DEF ProfilesThat
    <2> QED
      BY <1>3, <2>1, <2>2, <2>3 DEF LinkInv
  <1>6. CASE UNCHANGED vars
    BY <1>3, <1>6 DEF vars, LinkInv, Restores, ProfilesThat
  <1> QED
    BY <1>1, <1>2, <1>4, <1>5, <1>6, Zenon DEF Next, Done

\* Whatever the addresses and ports, and whichever rule an end finds to apply, the other
\* end restores the fields and values that were sent, the flow label and the hop limit
\* apart (get_orangelabs_outer_rules, get_orange_labs_inner_rules, tpl_get_template_rules
\* and no rules at all).
THEOREM MessagesRestored == Spec => []Restores
  <1>1. Init => LinkInv
    BY DEF Init, LinkInv, Restores
  <1>2. LinkInv /\ [Next]_vars => LinkInv'
    BY LinkInductive
  <1>3. LinkInv => Restores
    BY DEF LinkInv
  <1> QED
    BY <1>1, <1>2, <1>3, PTL DEF Spec

-----------------------------------------------------------------------------
\* The place, in the list of a library's profiles, of the one an end has for a direction.
Slot(end, direction) ==
  IF end = "device" THEN IF direction = "UP" THEN 1 ELSE 2
                    ELSE IF direction = "UP" THEN 2 ELSE 1

\* A profile that has been given its direction.
Directed(p, direction) == p @@ [direction |-> direction]

\* The profiles of each library.
LEMMA ProfilesAre ==
  /\ ProfilesOf("aa") = << [rule_id |-> <<"AA_DOWNLINK", 0>>] @@ AckOnAny,
                           [rule_id |-> <<"AA_DOWNLINK", 1>>] @@ AckOnAny >>
  /\ ProfilesOf("ae") = << [rule_id |-> <<"AOE_UPLINK", 0>>] @@ AckOnError,
                           [rule_id |-> <<"AOE_DOWNLINK", 0>>] @@ AckOnError >>
  /\ ProfilesOf("na") = << [rule_id |-> <<"NA_DOWNLINK", 1>>] @@ NoAck,
                           [rule_id |-> <<"NA_DOWNLINK", 0>>] @@ NoAck >>
  BY Zenon DEF ProfilesOf

\* What the two profiles of a library have alike.
Parameters(api) ==
  IF api = "aa" THEN AckOnAny ELSE IF api = "ae" THEN AckOnError ELSE NoAck

\* A profile is a rule identifier and these parameters.
LEMMA ProfileIs ==
  ASSUME NEW api \in Apis, NEW k \in 1..2
  PROVE  \E id : ProfilesOf(api)[k] = [rule_id |-> id] @@ Parameters(api)
  <1> DEFINE With(id, p) == [rule_id |-> id] @@ p
  <1>1. ASSUME NEW a, NEW b, NEW p, ProfilesOf(api) = <<With(a, p), With(b, p)>>
        PROVE  \E id : ProfilesOf(api)[k] = With(id, p)
    <2> HIDE DEF With
    <2>1. k = 1 \/ k = 2
      OBVIOUS
    <2>2. ProfilesOf(api)[k] = With(a, p) \/ ProfilesOf(api)[k] = With(b, p)
      BY <1>1, <2>1
    <2> QED
      BY <2>2, Zenon
  <1>2. \/ api = "aa" /\ Parameters(api) = AckOnAny
        \/ api = "ae" /\ Parameters(api) = AckOnError
        \/ api = "na" /\ Parameters(api) = NoAck
    BY DEF Apis, Parameters
  <1>3. \E a, b :
          ProfilesOf(api) = <<With(a, Parameters(api)), With(b, Parameters(api))>>
    BY <1>2, ProfilesAre, Zenon
  <1> QED
    BY <1>1, <1>3, Zenon

\* A profile has no direction before it is given one.
LEMMA Undirected ==
  ASSUME NEW api \in Apis, NEW k \in 1..2
  PROVE  "direction" \notin DOMAIN ProfilesOf(api)[k]
  <1>1. /\ "direction" \notin DOMAIN AckOnAny
        /\ "direction" \notin DOMAIN AckOnError
        /\ "direction" \notin DOMAIN NoAck
    BY DEF AckOnAny, AckOnError, NoAck, Common, @@
  <1>2. ASSUME NEW p, NEW id, "direction" \notin DOMAIN p
        PROVE  "direction" \notin DOMAIN ([rule_id |-> id] @@ p)
    BY <1>2 DEF @@
  <1>3. "direction" \notin DOMAIN Parameters(api)
    BY <1>1 DEF Parameters
  <1> QED
    BY <1>2, <1>3, ProfileIs, Zenon

\* An end has one profile for each direction.
LEMMA OneProfile ==
  ASSUME NEW api \in Apis, NEW end \in Ends, NEW d \in {"UP", "DOWN"}
  PROVE  ProfilesThat(api, end, d) = {Directed(ProfilesOf(api)[Slot(end, d)], d)}
  <1> DEFINE all == mgt_load_profiles(api, Mode(end))
             P(k) == ProfilesOf(api)[k]
             D(k) == Directions(Mode(end))[k]
  <1>1. \A k \in 1..2 : all[k] = Directed(P(k), D(k))
    BY Zenon DEF mgt_load_profiles, Directed
  <1>2. \A k \in 1..2 : "direction" \notin DOMAIN P(k)
    BY Undirected
  <1>3. ASSUME NEW p, NEW e, "direction" \notin DOMAIN p PROVE Directed(p, e).direction = e
    BY <1>3 DEF Directed, @@
  <1>4. \A k \in 1..2 : (D(k) = d <=> k = Slot(end, d)) /\ Slot(end, d) \in 1..2
    BY DEF Directions, Mode, Slot, Ends
  <1> HIDE DEF P, D
  <1>5. \A k \in 1..2 : all[k].direction = D(k)
    BY <1>1, <1>2, <1>3, Zenon
  <1> HIDE DEF all
  <1>6. ProfilesThat(api, end, d) = {all[k] : k \in {k \in 1..2 : all[k].direction = d}}
    BY Zenon DEF ProfilesThat, all
  <1>7. {k \in 1..2 : all[k].direction = d} = {Slot(end, d)}
    BY <1>4, <1>5
  <1>8. all[Slot(end, d)] = Directed(P(Slot(end, d)), d)
    BY <1>1, <1>4
  <1> QED
    BY <1>6, <1>7, <1>8 DEF P

\* With any of the three libraries, the profile an end sends with is laid out as the one
\* the other end receives with, and the receiver of aa_basic outlasts the acknowledgement
\* requests (get_point_to_point_profiles, mgt_load_profiles).
THEOREM FragmentsKeepMeaning == Spec => []FragmentsUnderstood
  <1>1. Init => LinkInv
    BY DEF Init, LinkInv, Restores
  <1>2. LinkInv /\ [Next]_vars => LinkInv'
    BY LinkInductive
  <1>3. LinkInv => FragmentsUnderstood
    <2> SUFFICES ASSUME LinkInv, carried # Whole PROVE FragmentsUnderstood
      BY DEF FragmentsUnderstood
    <2> DEFINE api == carried.api
               sends == ProfilesThat(carried.api, sender, "UP")
               receives == ProfilesThat(carried.api, Other(sender), "DOWN")
               Layout(p) == [k \in DOMAIN p \ {"direction"} |-> p[k]]
               P == ProfilesOf(api)[Slot(sender, "UP")]
               X == Directed(P, "UP")
               Y == Directed(P, "DOWN")
    <2>1. /\ api \in Apis /\ sender \in Ends /\ Other(sender) \in Ends
          /\ carried.profile \in sends
      BY EndsMirror DEF LinkInv, Ends
    <2>2. Slot(Other(sender), "DOWN") = Slot(sender, "UP") /\ Slot(sender, "UP") \in 1..2
      BY <2>1, EndsMirror DEF Slot, Ends
    <2>3. sends = {X} /\ receives = {Y}
      BY <2>1, <2>2, OneProfile
    <2>4. "direction" \notin DOMAIN P
      BY <2>1, <2>2, Undirected
    <2>5. ASSUME api = "aa"
          PROVE  carried.profile.max_ack_requests * carried.profile.ack_req_dn_opportunity
                   * carried.profile.ack_rt_exp_time < carried.profile.it_exp_time
      <3>1. /\ AckOnAny.max_ack_requests * AckOnAny.ack_req_dn_opportunity
                 * AckOnAny.ack_rt_exp_time < AckOnAny.it_exp_time
            /\ {"max_ack_requests", "ack_req_dn_opportunity", "ack_rt_exp_time",
                "it_exp_time"} \subseteq DOMAIN AckOnAny
        BY SMT DEF AckOnAny, @@
      <3>2. ASSUME NEW id, NEW f \in DOMAIN AckOnAny, f # "rule_id"
            PROVE  Directed([rule_id |-> id] @@ AckOnAny, "UP")[f] = AckOnAny[f]
        BY <3>2 DEF Directed, @@
      <3>3. \E id : P = [rule_id |-> id] @@ AckOnAny
        <4>1. Parameters(api) = AckOnAny
          BY <2>5 DEF Parameters
        <4> QED
          BY <2>1, <2>2, <4>1, ProfileIs, Zenon
      <3>4. carried.profile = X
        BY <2>1, <2>3
      <3> HIDE DEF P, sends, receives
      <3>5. \A f \in DOMAIN AckOnAny : f # "rule_id" => carried.profile[f] = AckOnAny[f]
        BY <3>2, <3>3, <3>4, Zenon
      <3>6. /\ carried.profile.max_ack_requests = AckOnAny.max_ack_requests
            /\ carried.profile.ack_req_dn_opportunity = AckOnAny.ack_req_dn_opportunity
            /\ carried.profile.ack_rt_exp_time = AckOnAny.ack_rt_exp_time
            /\ carried.profile.it_exp_time = AckOnAny.it_exp_time
        BY <3>1, <3>5
      <3> QED
        BY <3>1, <3>6, Zenon
    <2> HIDE DEF P
    <2>6. Layout(X) = Layout(Y)
      BY <2>4 DEF Directed, @@
    <2>7. Cardinality({X}) = 1
      BY FS_Singleton
    <2> HIDE DEF X, Y, Layout
    <2>8. {Layout(p) : p \in receives} = {Layout(p) : p \in sends}
      BY <2>3, <2>6
    <2> QED
      BY <2>3, <2>5, <2>7, <2>8 DEF FragmentsUnderstood, Layout
  <1> QED
    BY <1>1, <1>2, <1>3, PTL DEF Spec

-----------------------------------------------------------------------------
\* Entries that send nothing.
Silent(E) == \A k \in DOMAIN E : E[k].cda \in {"not_sent", "compute"}

\* Entries that compare a field with a value, and entries without a field.
Says(E, k, v) == k \in DOMAIN E /\ E[k].mo = "equal" /\ E[k].tv = v
Lacks(E, k) == k \notin DOMAIN E

\* Entries added to entries.
LEMMA SilentJoin ==
  ASSUME NEW E, NEW F, Silent(E), Silent(F) PROVE Silent(E @@ F)
  <1> SUFFICES ASSUME NEW k \in DOMAIN (E @@ F)
               PROVE  (E @@ F)[k].cda \in {"not_sent", "compute"}
    BY Zenon DEF Silent
  <1>1. CASE k \in DOMAIN E
    BY <1>1 DEF Silent, @@
  <1>2. CASE k \in DOMAIN F \ DOMAIN E
    BY <1>2 DEF Silent, @@
  <1> QED
    BY <1>1, <1>2 DEF @@

\* The first entry of a field counts.
LEMMA SaysJoin ==
  ASSUME NEW E, NEW F, NEW k, NEW v
  PROVE  /\ Says(E, k, v) => Says(E @@ F, k, v)
         /\ Lacks(E, k) /\ Says(F, k, v) => Says(E @@ F, k, v)
         /\ Lacks(E, k) /\ Lacks(F, k) => Lacks(E @@ F, k)
  BY DEF Says, Lacks, @@

\* One entry.
LEMMA OneEntry ==
  ASSUME NEW f, NEW p, NEW tv
  PROVE  /\ Silent(NotSent(f, p, tv))
         /\ Says(NotSent(f, p, tv), <<f, p>>, tv)
         /\ \A g : g # f => /\ Lacks(NotSent(f, p, tv), <<g, 1>>)
                            /\ Lacks(Ignored(f, p, tv), <<g, 1>>)
                            /\ Lacks(ValueSent(f, p), <<g, 1>>)
                            /\ Lacks(Computed(f), <<g, 1>>)
                            /\ Lacks(MostSignificant(f, tv), <<g, 1>>)
  BY DEF Silent, Says, Lacks, NotSent, Ignored, ValueSent, Computed, MostSignificant,
         Entry, :>

\* Rules that send nothing send the same.
LEMMA SilentAlike ==
  ASSUME NEW r, NEW s, NEW m, Silent(r.entries), Silent(s.entries)
  PROVE  Compressed(r, m).residue = Compressed(s, m).residue
  <1>1. SentFields(r) = {} /\ SentFields(s) = {}
    BY DEF SentFields, Silent
  <1> QED
    BY <1>1 DEF Compressed

\* So do rules with the same entries.
LEMMA EntriesAlike ==
  ASSUME NEW r, NEW s, NEW m, r.entries = s.entries
  PROVE  Compressed(r, m).residue = Compressed(s, m).residue
  <1>1. SentFields(r) = SentFields(s)
    BY DEF SentFields
  <1> QED
    BY <1>1 DEF Compressed

\* What a rule compares, a message it applies to has.
LEMMA SaidOf ==
  ASSUME NEW r, NEW m, NEW k, NEW v, Applies(r, m), Says(r.entries, k, v)
  PROVE  m[k] = v
  BY DEF Applies, Matches, Says

-----------------------------------------------------------------------------
\* The entries of get_rule_40 after the code.
Registers ==
  UriPath(<<"rd">>) @@ NotSent("CONTENT_FORMAT", 1, <<40>>)
    @@ NotSent("URI_QUERY", 1, <<"lwm2m=1.1">>) @@ Mapped("URI_QUERY", 2, Names)
    @@ NotSent("URI_QUERY", 3, <<"b=U">>) @@ Mapped("URI_QUERY", 4, Lifetimes)

\* The inner rules by their code: those for three of them send something.
ByCode(code, E) ==
  \/ code \notin {"POST", "CREATED", "DELETE"} /\ Silent(E)
  \/ code = "POST" /\ (E = Registers \/ E = Location("URI_PATH"))
  \/ code = "CREATED" /\ E = Location("LOCATION_PATH")
  \/ code = "DELETE" /\ E = Location("URI_PATH")

IsInner(r) == \E id, code, E : r = InnerRule(id, code, E) /\ ByCode(code, E)

\* The registration has a content format, and what else is posted has none.
LEMMA Posted ==
  LET c == NotSent("CODE", 1, <<"POST">>)
  IN /\ <<"CONTENT_FORMAT", 1>> \in DOMAIN (c @@ Registers)
     /\ <<"CONTENT_FORMAT", 1>> \notin DOMAIN (c @@ Location("URI_PATH"))
  <1> DEFINE cf == <<"CONTENT_FORMAT", 1>>
             c == NotSent("CODE", 1, <<"POST">>)
  <1>1. ASSUME NEW E, NEW F, Covers(E, {cf}) \/ Covers(F, {cf})
        PROVE  Covers(E @@ F, {cf})
    BY <1>1 DEF Covers, @@
  <1>2. Covers(NotSent("CONTENT_FORMAT", 1, <<40>>), {cf})
    BY DEF Covers, NotSent, Entry, :>
  <1>3. Covers(Registers, {cf})
    BY <1>1, <1>2, Zenon DEF Registers
  <1>4. Covers(c @@ Registers, {cf})
    BY <1>1, <1>3, Zenon
  <1>5. /\ Lacks(c, cf) /\ Lacks(NotSent("URI_PATH", 1, <<"rd">>), cf)
        /\ Lacks(ValueSent("URI_PATH", 2), cf)
    BY OneEntry
  <1>6. Lacks(c @@ Location("URI_PATH"), cf)
    BY <1>5, SaysJoin, Zenon DEF Location
  <1> QED
    BY <1>4, <1>6, Zenon DEF Covers, Lacks

\* Two inner rules that apply to a message are for its code.
LEMMA InnerSame ==
  ASSUME NEW r, NEW s, NEW m, IsInner(r), IsInner(s), Applies(r, m), Applies(s, m)
  PROVE  Compressed(r, m).residue = Compressed(s, m).residue
  <1>1. PICK id, code, E : r = InnerRule(id, code, E) /\ ByCode(code, E)
    BY DEF IsInner
  <1>2. PICK jd, dode, F : s = InnerRule(jd, dode, F) /\ ByCode(dode, F)
    BY DEF IsInner
  <1>3. ASSUME NEW i, NEW c, NEW G
        PROVE  /\ InnerRule(i, c, G).stack = "oscore_plaintext"
               /\ InnerRule(i, c, G).entries = NotSent("CODE", 1, <<c>>) @@ G
    BY Zenon DEF InnerRule, Rule
  <1>4. ASSUME NEW i, NEW c, NEW G, Applies(InnerRule(i, c, G), m)
        PROVE  m[<<"CODE", 1>>] = <<c>>
    <2>1. Says(NotSent("CODE", 1, <<c>>) @@ G, <<"CODE", 1>>, <<c>>)
      BY OneEntry, SaysJoin, Zenon
    <2> QED
      BY <1>3, <1>4, <2>1, SaidOf, Zenon
  <1>5. m[<<"CODE", 1>>] = <<code>> /\ m[<<"CODE", 1>>] = <<dode>>
    BY <1>1, <1>2, <1>4, Zenon
  <1>6. code = dode
    BY <1>5
  <1>7. DOMAIN r.entries = DOMAIN s.entries
    <2>1. r.stack = "oscore_plaintext" /\ s.stack = "oscore_plaintext"
      BY <1>1, <1>2, <1>3, Zenon
    <2> QED
      BY <2>1 DEF Applies, Header
  <1> DEFINE c == NotSent("CODE", 1, <<code>>)
  <1>8. /\ r.entries = c @@ E /\ s.entries = c @@ F
        /\ ByCode(code, E) /\ ByCode(code, F) /\ Silent(c)
    <2>1. r.entries = c @@ E /\ s.entries = NotSent("CODE", 1, <<dode>>) @@ F
      BY <1>1, <1>2, <1>3, Zenon
    <2>2. Silent(c)
      BY OneEntry, Zenon
    <2> QED
      BY <1>1, <1>2, <1>6, <2>1, <2>2, Zenon
  <1> HIDE <1>1, <1>2, <1>3, <1>4
  <1> HIDE DEF c
  <1>9. CASE code \notin {"POST", "CREATED", "DELETE"}
    <2>1. code # "POST" /\ code # "CREATED" /\ code # "DELETE"
      BY <1>9
    <2>2. Silent(E) /\ Silent(F)
      BY <1>8, <2>1, Zenon DEF ByCode
    <2>3. Silent(r.entries) /\ Silent(s.entries)
      BY <1>8, <2>2, SilentJoin, Zenon
    <2> QED
      BY <2>3, SilentAlike, Zenon
  <1>10. CASE E = F
    <2>1. r.entries = s.entries
      BY <1>8, <1>10, Zenon
    <2> QED
      BY <2>1, EntriesAlike, Zenon
  <1>11. CASE E # F /\ code \in {"POST", "CREATED", "DELETE"}
    <2>1. /\ code = "POST"
          /\ \/ E = Registers /\ F = Location("URI_PATH")
             \/ F = Registers /\ E = Location("URI_PATH")
      <3>1. ByCode(code, E) /\ ByCode(code, F)
        BY <1>8, Zenon
      <3> DEFINE L == Location("URI_PATH")
                 M == Location("LOCATION_PATH")
                 R == Registers
      <3>2. /\ code \in {"POST", "CREATED", "DELETE"}
            /\ code = "POST" => E \in {R, L} /\ F \in {R, L}
            /\ code = "CREATED" => E = M /\ F = M
            /\ code = "DELETE" => E = L /\ F = L
        BY <1>11, <3>1 DEF ByCode
      <3> HIDE DEF L, M, R
      <3>3. code = "POST" /\ ((E = R /\ F = L) \/ (F = R /\ E = L))
        BY <1>11, <3>2
      <3> QED
        BY <3>3 DEF L, R
    <2>2. /\ <<"CONTENT_FORMAT", 1>> \in DOMAIN (c @@ Registers)
          /\ <<"CONTENT_FORMAT", 1>> \notin DOMAIN (c @@ Location("URI_PATH"))
      <3>1. c = NotSent("CODE", 1, <<"POST">>)
        BY <2>1, Zenon DEF c
      <3> QED
        BY <3>1, Posted, Zenon
    <2> QED
      BY <1>7, <1>8, <2>1, <2>2, Zenon
  <1> QED
    BY <1>9, <1>10, <1>11, Zenon

\* get_orange_labs_inner_rules has such rules.
LEMMA InnerMembers == \A n \in DOMAIN InnerRules : IsInner(InnerRules[n])
  <1> DEFINE accept == NotSent("ACCEPT", 1, Tlv)
             format == NotSent("CONTENT_FORMAT", 1, Tlv)
             r40 == Registration
             r41 == InnerRule(41, "CREATED", Location("LOCATION_PATH"))
             r42 == InnerRule(42, "POST", Location("URI_PATH"))
             r43 == InnerRule(43, "CHANGED", Nothing)
             r44 == InnerRule(44, "GET", UriPath(<<"3303", "0", "5700">>) @@ accept)
             r45 == InnerRule(45, "CONTENT", format)
             r46 == InnerRule(46, "PUT", UriPath(<<"3311", "0", "5850">>) @@ format)
             r47 == InnerRule(47, "CHANGED", Nothing)
             r48 == InnerRule(48, "GET", UriPath(<<"3311", "0", "5850">>) @@ accept)
             r50 == InnerRule(50, "GET", UriPath(<<"6", "0">>) @@ EmptyObserve @@ accept)
             r51 == InnerRule(51, "CONTENT", EmptyObserve @@ format)
             r52 == InnerRule(52, "GET", UriPath(<<"3", "0", "9">>) @@ accept)
             r53 == InnerRule(53, "POST", Location("URI_PATH"))
             r54 == InnerRule(54, "EMPTY", Nothing)
             r55 == InnerRule(55, "DELETE", Location("URI_PATH"))
             r56 == InnerRule(56, "DELETED", Nothing)
             T == {r40, r41, r42, r43, r44, r45, r46, r47, r48, r50, r51, r52, r53, r54,
                   r55, r56}
  <1>1. ASSUME NEW id, NEW code, NEW E, ByCode(code, E)
        PROVE  IsInner(InnerRule(id, code, E))
    BY <1>1, Zenon DEF IsInner
  <1>2. /\ Silent(Nothing) /\ \A p : Silent(UriPath(p))
        /\ Silent(accept) /\ Silent(format) /\ Silent(EmptyObserve)
    <2>1. Silent(accept) /\ Silent(format) /\ Silent(EmptyObserve)
      BY OneEntry, Zenon DEF EmptyObserve
    <2>2. Silent(Nothing)
      BY DEF Silent, Nothing
    <2>3. \A p : Silent(UriPath(p))
      BY DEF Silent, UriPath
    <2> QED
      BY <2>1, <2>2, <2>3
  <1>3. ASSUME NEW id, NEW code, NEW E, Silent(E),
               code \in {"CHANGED", "GET", "CONTENT", "PUT", "EMPTY", "DELETED"}
        PROVE  IsInner(InnerRule(id, code, E))
    <2>1. code \notin {"POST", "CREATED", "DELETE"}
      BY <1>3
    <2> QED
      BY <1>1, <1>3, <2>1, Zenon DEF ByCode
  <1> HIDE DEF accept, format
  <1>4. IsInner(r43) /\ IsInner(r45) /\ IsInner(r47) /\ IsInner(r54) /\ IsInner(r56)
    BY <1>2, <1>3
  <1>5. ASSUME NEW p
        PROVE  /\ Silent(UriPath(p) @@ accept) /\ Silent(UriPath(p) @@ format)
               /\ Silent(UriPath(p) @@ EmptyObserve @@ accept)
               /\ Silent(EmptyObserve @@ format)
    BY <1>2, SilentJoin, Zenon
  <1>6. IsInner(r44) /\ IsInner(r46) /\ IsInner(r48)
    BY <1>3, <1>5
  <1>7. IsInner(r50) /\ IsInner(r51) /\ IsInner(r52)
    BY <1>3, <1>5
  <1>8. IsInner(r40)
    <2>1. Registration = InnerRule(40, "POST", Registers)
      BY Zenon DEF Registration, Registers
    <2>2. ByCode("POST", Registers)
      BY Zenon DEF ByCode
    <2> QED
      BY <1>1, <2>1, <2>2, Zenon
  <1>9. IsInner(r41) /\ IsInner(r42) /\ IsInner(r53) /\ IsInner(r55)
    <2>1. /\ ByCode("POST", Location("URI_PATH")) /\ ByCode("DELETE", Location("URI_PATH"))
          /\ ByCode("CREATED", Location("LOCATION_PATH"))
      BY Zenon DEF ByCode
    <2> QED
      BY <1>1, <2>1, Zenon
  <1>10. /\ RegistrationRules = <<r41, r42, r43>> /\ StatusRules = <<r44, r45>>
         /\ LightRules = <<r46, r47, r48>> /\ ObserveRules = <<r50, r51, r52>>
         /\ EndRules = <<r53, r54, r55, r56>>
    BY Zenon DEF RegistrationRules, StatusRules, LightRules, ObserveRules, EndRules,
                 accept, format
  <1>11. InnerRules = <<r40>> \o RegistrationRules \o StatusRules \o LightRules
                        \o ObserveRules \o EndRules
    BY Zenon DEF InnerRules
  <1> HIDE DEF r40, r41, r42, r43, r44, r45, r46, r47, r48, r50, r51, r52, r53, r54,
           r55, r56
  <1>12. \A x \in T : IsInner(x)
    BY <1>4, <1>6, <1>7, <1>8, <1>9
  <1>13. /\ <<r40>> \in Seq(T) /\ <<r41, r42, r43>> \in Seq(T) /\ <<r44, r45>> \in Seq(T)
         /\ <<r46, r47, r48>> \in Seq(T) /\ <<r50, r51, r52>> \in Seq(T)
         /\ <<r53, r54, r55, r56>> \in Seq(T)
    OBVIOUS
  <1> HIDE DEF T
  <1>14. InnerRules \in Seq(T)
    BY <1>10, <1>11, <1>13
  <1> QED
    BY <1>12, <1>14

-----------------------------------------------------------------------------
\* A rule for CoAP by its type and code, and how often it has the OSCORE option.
IsOuter(r, type, code, oscore) ==
  /\ r.stack = "ipv6_udp_coap"
  /\ Says(r.entries, <<"TYPE", 1>>, <<type>>) /\ Says(r.entries, <<"CODE", 1>>, <<code>>)
  /\ oscore = IF <<"OSCORE", 1>> \in DOMAIN r.entries THEN 1 ELSE 0

\* Two such rules that apply to a message are alike in all three.
LEMMA OuterSame ==
  ASSUME NEW r, NEW s, NEW m, Applies(r, m), Applies(s, m),
         NEW type, NEW code, NEW oscore, IsOuter(r, type, code, oscore),
         NEW t, NEW c, NEW o, IsOuter(s, t, c, o)
  PROVE  type = t /\ code = c /\ oscore = o
  <1>1. <<type>> = <<t>> /\ <<code>> = <<c>>
    BY SaidOf, Zenon DEF IsOuter
  <1>2. DOMAIN r.entries = DOMAIN s.entries
    BY DEF IsOuter, Applies, Header
  <1>3. type = t /\ code = c
    BY <1>1
  <1> QED
    BY <1>2, <1>3 DEF IsOuter

\* Nothing of CoAP is in the entries for IPv6 and UDP.
LEMMA IpUdpLacks ==
  ASSUME NEW h, NEW r, NEW flow, NEW hop, NEW g \in {"TYPE", "CODE", "OSCORE"}
  PROVE  Lacks(IpFields(h, r, flow, hop) @@ UdpFields(h, r), <<g, 1>>)
  <1> DEFINE k == <<g, 1>>
  <1>1. ASSUME NEW f, f \in {"VERSION", "TRAFFIC_CLASS", "FLOW_LABEL", "PAYLOAD_LENGTH",
                 "NEXT_HEADER", "HOP_LIMIT", "PREFIX_DEV", "IID_DEV", "PREFIX_APP",
                 "IID_APP", "PORT_DEV", "PORT_APP", "UDP_LENGTH", "CHECKSUM"}, NEW tv
        PROVE  /\ Lacks(NotSent(f, 1, tv), k) /\ Lacks(Ignored(f, 1, tv), k)
               /\ Lacks(Computed(f), k)
    <2>1. g # f
      BY <1>1
    <2> QED
      BY <2>1, OneEntry, Zenon
  <1> HIDE DEF k
  <1>2. /\ Lacks(NotSent("VERSION", 1, <<6>>), k) /\ Lacks(Ignored("FLOW_LABEL", 1, flow), k)
        /\ Lacks(NotSent("TRAFFIC_CLASS", 1, <<0>>), k)
        /\ Lacks(Computed("PAYLOAD_LENGTH"), k)
        /\ Lacks(NotSent("NEXT_HEADER", 1, <<17>>), k)
        /\ Lacks(Ignored("HOP_LIMIT", 1, hop), k)
    BY <1>1
  <1>3. \A a : /\ Lacks(NotSent("PREFIX_DEV", 1, a), k) /\ Lacks(NotSent("IID_DEV", 1, a), k)
               /\ Lacks(NotSent("PREFIX_APP", 1, a), k) /\ Lacks(NotSent("IID_APP", 1, a), k)
               /\ Lacks(NotSent("PORT_DEV", 1, a), k) /\ Lacks(NotSent("PORT_APP", 1, a), k)
    BY <1>1
  <1>4. Lacks(Computed("UDP_LENGTH"), k) /\ Lacks(Computed("CHECKSUM"), k)
    BY <1>1
  <1>5. Lacks(UdpFields(h, r), k)
    BY <1>3, <1>4, SaysJoin, Zenon DEF UdpFields
  <1> DEFINE A == NotSent("VERSION", 1, <<6>>) @@ NotSent("TRAFFIC_CLASS", 1, <<0>>)
                    @@ Ignored("FLOW_LABEL", 1, flow) @@ Computed("PAYLOAD_LENGTH")
                    @@ NotSent("NEXT_HEADER", 1, <<17>>) @@ Ignored("HOP_LIMIT", 1, hop)
  <1>6. Lacks(A, k)
    BY <1>2, SaysJoin, Zenon
  <1>7. IpFields(h, r, flow, hop)
          = A @@ NotSent("PREFIX_DEV", 1, h.prefix) @@ NotSent("IID_DEV", 1, h.iid)
              @@ NotSent("PREFIX_APP", 1, r.prefix) @@ NotSent("IID_APP", 1, r.iid)
    BY Zenon DEF IpFields
  <1> HIDE DEF A
  <1>8. Lacks(IpFields(h, r, flow, hop), k)
    BY <1>3, <1>6, <1>7, SaysJoin, Zenon
  <1> QED
    BY <1>5, <1>8, SaysJoin, Zenon DEF k

\* What the CoAP header compares.
LEMMA HeaderSays ==
  ASSUME NEW type, NEW code
  PROVE  /\ Says(CoapHeader(type, code), <<"TYPE", 1>>, <<type>>)
         /\ Says(CoapHeader(type, code), <<"CODE", 1>>, <<code>>)
         /\ Lacks(CoapHeader(type, code), <<"OSCORE", 1>>)
  <1> DEFINE v == NotSent("COAP_VERSION", 1, <<1>>)
             t == NotSent("TYPE", 1, <<type>>)
             l == NotSent("TOKEN_LENGTH", 1, <<2>>)
             c == NotSent("CODE", 1, <<code>>)
             i == ValueSent("MSG_ID", 1)
             k == ValueSent("TOKEN", 1)
  <1>1. Says(t, <<"TYPE", 1>>, <<type>>) /\ Says(c, <<"CODE", 1>>, <<code>>)
    BY OneEntry
  <1>2. Lacks(v, <<"TYPE", 1>>) /\ Lacks(v, <<"CODE", 1>>) /\ Lacks(t, <<"CODE", 1>>)
        /\ Lacks(l, <<"CODE", 1>>)
    BY OneEntry
  <1>3. /\ Lacks(v, <<"OSCORE", 1>>) /\ Lacks(t, <<"OSCORE", 1>>)
        /\ Lacks(l, <<"OSCORE", 1>>) /\ Lacks(c, <<"OSCORE", 1>>)
        /\ Lacks(i, <<"OSCORE", 1>>) /\ Lacks(k, <<"OSCORE", 1>>)
    BY OneEntry
  <1>4. CoapHeader(type, code) = v @@ t @@ l @@ c @@ i @@ k
    BY Zenon DEF CoapHeader
  <1> HIDE DEF v, t, l, c, i, k
  <1>5. Says(v @@ t @@ l @@ c @@ i @@ k, <<"TYPE", 1>>, <<type>>)
    BY <1>1, <1>2, SaysJoin, Zenon
  <1>6. Says(v @@ t @@ l @@ c @@ i @@ k, <<"CODE", 1>>, <<code>>)
    BY <1>1, <1>2, SaysJoin, Zenon
  <1>7. Lacks(v @@ t @@ l @@ c @@ i @@ k, <<"OSCORE", 1>>)
    BY <1>3, SaysJoin, Zenon
  <1> QED
    BY <1>4, <1>5, <1>6, <1>7, Zenon

\* get_orangelabs_outer_rules: no two of its rules for CoAP are alike in all three.
LEMMA OuterMembers ==
  ASSUME NEW h, NEW r
  PROVE  LET T == OuterRules(h, r)
         IN /\ DOMAIN T = 1..8 /\ T[8].stack = "ipv6_udp"
            /\ IsOuter(T[1], "CON", "POST", 1) /\ IsOuter(T[2], "ACK", "CHANGED", 1)
            /\ IsOuter(T[3], "CON", "FETCH", 1) /\ IsOuter(T[4], "ACK", "CONTENT", 1)
            /\ IsOuter(T[5], "NON", "CONTENT", 1)
            /\ IsOuter(T[6], "CON", "POST", 0) /\ IsOuter(T[7], "ACK", "CHANGED", 0)
  <1> DEFINE E0 == IpFields(h, r, <<"12345">>, <<64>>) @@ UdpFields(h, r)
             Coap(id, E) == Rule(id, "ipv6_udp_coap", E0 @@ E)
             c1 == CoapHeader("CON", "POST") @@ OscoreRequest
             c2 == CoapHeader("ACK", "CHANGED") @@ OscoreResponse
             c3 == CoapHeader("CON", "FETCH") @@ EmptyObserve @@ OscoreRequest
             c4 == CoapHeader("ACK", "CONTENT") @@ EmptyObserve @@ OscoreResponse
             c5 == Notification
             c6 == CoapHeader("CON", "POST")
                     @@ NotSent("URI_PATH", 1, <<".well-known/edhoc">>)
             c7 == CoapHeader("ACK", "CHANGED")
             Is(G, t, c, o) == /\ Says(G, <<"TYPE", 1>>, <<t>>)
                               /\ Says(G, <<"CODE", 1>>, <<c>>)
                               /\ IF o = 1 THEN Covers(G, {<<"OSCORE", 1>>})
                                       ELSE Lacks(G, <<"OSCORE", 1>>)
  <1>1. OuterRules(h, r)
          = << Coap(56, c1), Coap(57, c2), Coap(58, c3), Coap(59, c4), Coap(60, c5),
               Coap(69, c6), Coap(70, c7), Rule(61, "ipv6_udp", E0) >>
    BY Zenon DEF OuterRules
  <1>2. /\ Lacks(E0, <<"TYPE", 1>>) /\ Lacks(E0, <<"CODE", 1>>)
        /\ Lacks(E0, <<"OSCORE", 1>>)
    BY IpUdpLacks
  <1> HIDE DEF E0
  <1>3. ASSUME NEW id, NEW G, NEW t, NEW c, NEW o \in {0, 1}, Is(G, t, c, o)
        PROVE  IsOuter(Coap(id, G), t, c, o)
    <2> DEFINE E == E0 @@ G
    <2>1. Says(E, <<"TYPE", 1>>, <<t>>) /\ Says(E, <<"CODE", 1>>, <<c>>)
      BY <1>2, <1>3, SaysJoin, Zenon
    <2>2. o = IF <<"OSCORE", 1>> \in DOMAIN E THEN 1 ELSE 0
      BY <1>2, <1>3 DEF Covers, Lacks, @@
    <2> HIDE DEF E
    <2>3. IsOuter(Rule(id, "ipv6_udp_coap", E), t, c, o)
      BY <2>1, <2>2 DEF IsOuter, Rule
    <2> QED
      BY <2>3 DEF E
  <1>4. ASSUME NEW t, NEW c PROVE Is(CoapHeader(t, c), t, c, 0)
    <2>1. 0 # 1
      OBVIOUS
    <2> QED
      BY <2>1, HeaderSays, Zenon
  <1>5. ASSUME NEW G, NEW t, NEW c, NEW o \in {0, 1}, Is(G, t, c, o), NEW X
        PROVE  /\ Covers(X, {<<"OSCORE", 1>>}) => Is(G @@ X, t, c, 1)
               /\ Lacks(X, <<"OSCORE", 1>>) => Is(G @@ X, t, c, o)
    <2>1. Says(G @@ X, <<"TYPE", 1>>, <<t>>) /\ Says(G @@ X, <<"CODE", 1>>, <<c>>)
      BY <1>5, SaysJoin, Zenon
    <2>2. /\ Covers(X, {<<"OSCORE", 1>>}) => Covers(G @@ X, {<<"OSCORE", 1>>})
          /\ Covers(G, {<<"OSCORE", 1>>}) => Covers(G @@ X, {<<"OSCORE", 1>>})
          /\ Lacks(X, <<"OSCORE", 1>>) /\ Lacks(G, <<"OSCORE", 1>>)
               => Lacks(G @@ X, <<"OSCORE", 1>>)
      BY DEF Covers, Lacks, @@
    <2> QED
      BY <1>5, <2>1, <2>2, Zenon
  <1>6. /\ Covers(OscoreRequest, {<<"OSCORE", 1>>})
        /\ Covers(OscoreResponse, {<<"OSCORE", 1>>})
        /\ Covers(ValueSent("OSCORE", 1), {<<"OSCORE", 1>>})
    BY DEF Covers, OscoreRequest, OscoreResponse, MostSignificant, NotSent, ValueSent,
           Entry, :>
  <1>7. /\ Lacks(EmptyObserve, <<"OSCORE", 1>>)
        /\ Lacks(ValueSent("OBSERVE", 1), <<"OSCORE", 1>>)
        /\ Lacks(NotSent("URI_PATH", 1, <<".well-known/edhoc">>), <<"OSCORE", 1>>)
    BY OneEntry DEF EmptyObserve
  <1> HIDE DEF Is
  <1>8. Is(c1, "CON", "POST", 1) /\ Is(c2, "ACK", "CHANGED", 1)
    BY <1>4, <1>5, <1>6, Zenon
  <1>9. Is(c3, "CON", "FETCH", 1) /\ Is(c4, "ACK", "CONTENT", 1)
    <2>1. /\ Is(CoapHeader("CON", "FETCH") @@ EmptyObserve, "CON", "FETCH", 0)
          /\ Is(CoapHeader("ACK", "CONTENT") @@ EmptyObserve, "ACK", "CONTENT", 0)
      BY <1>4, <1>5, <1>7, Zenon
    <2> QED
      BY <1>5, <1>6, <2>1, Zenon
  <1>10. Is(c5, "NON", "CONTENT", 1)
    <2>1. Is(CoapHeader("NON", "CONTENT") @@ ValueSent("OBSERVE", 1), "NON", "CONTENT", 0)
      BY <1>4, <1>5, <1>7, Zenon
    <2> QED
      BY <1>5, <1>6, <2>1, Zenon DEF Notification
  <1>11. Is(c6, "CON", "POST", 0) /\ Is(c7, "ACK", "CHANGED", 0)
    BY <1>4, <1>5, <1>7, Zenon
  <1> HIDE DEF c1, c2, c3, c4, c5, c6, c7, Coap
  <1>12. /\ IsOuter(Coap(56, c1), "CON", "POST", 1)
         /\ IsOuter(Coap(57, c2), "ACK", "CHANGED", 1)
         /\ IsOuter(Coap(58, c3), "CON", "FETCH", 1)
         /\ IsOuter(Coap(59, c4), "ACK", "CONTENT", 1)
         /\ IsOuter(Coap(60, c5), "NON", "CONTENT", 1)
         /\ IsOuter(Coap(69, c6), "CON", "POST", 0)
         /\ IsOuter(Coap(70, c7), "ACK", "CHANGED", 0)
    BY <1>3, <1>8, <1>9, <1>10, <1>11
  <1>13. Rule(61, "ipv6_udp", E0).stack = "ipv6_udp"
    BY DEF Rule
  <1> QED
    BY <1>1, <1>12, <1>13

\* Two outer rules of one stack that apply to a message are one.
LEMMA OuterOne ==
  ASSUME NEW h, NEW r, NEW m, NEW i \in DOMAIN OuterRules(h, r),
         NEW j \in DOMAIN OuterRules(h, r),
         Applies(OuterRules(h, r)[i], m), Applies(OuterRules(h, r)[j], m),
         OuterRules(h, r)[i].stack = OuterRules(h, r)[j].stack
  PROVE  i = j
  <1> DEFINE T == OuterRules(h, r)
             type == <<"CON", "ACK", "CON", "ACK", "NON", "CON", "ACK">>
             code == <<"POST", "CHANGED", "FETCH", "CONTENT", "CONTENT", "POST", "CHANGED">>
             oscore == <<1, 1, 1, 1, 1, 0, 0>>
  <1>1. /\ DOMAIN T = 1..8 /\ T[8].stack = "ipv6_udp"
        /\ \A n \in 1..7 : IsOuter(T[n], type[n], code[n], oscore[n])
    <2>1. \A n \in 1..7 : n = 1 \/ n = 2 \/ n = 3 \/ n = 4 \/ n = 5 \/ n = 6 \/ n = 7
      OBVIOUS
    <2> HIDE DEF T
    <2>2. /\ IsOuter(T[1], "CON", "POST", 1) /\ IsOuter(T[2], "ACK", "CHANGED", 1)
          /\ IsOuter(T[3], "CON", "FETCH", 1) /\ IsOuter(T[4], "ACK", "CONTENT", 1)
          /\ IsOuter(T[5], "NON", "CONTENT", 1)
          /\ IsOuter(T[6], "CON", "POST", 0) /\ IsOuter(T[7], "ACK", "CHANGED", 0)
          /\ DOMAIN T = 1..8 /\ T[8].stack = "ipv6_udp"
      BY OuterMembers, Zenon DEF T
    <2> QED
      BY <2>1, <2>2
  <1>2. \A n \in 1..7 : T[n].stack = "ipv6_udp_coap"
    BY <1>1, Zenon DEF IsOuter
  <1>3. i \in 1..8 /\ j \in 1..8 /\ T[i].stack = T[j].stack
    BY <1>1
  <1>4. CASE i \in 1..7 /\ j \in 1..7
    <2>1. type[i] = type[j] /\ code[i] = code[j] /\ oscore[i] = oscore[j]
      <3>1. /\ IsOuter(T[i], type[i], code[i], oscore[i])
            /\ IsOuter(T[j], type[j], code[j], oscore[j])
        BY <1>1, <1>4, Zenon
      <3> HIDE DEF type, code, oscore
      <3> QED
        BY <3>1, OuterSame
    <2> QED
      BY <1>4, <2>1
  <1> HIDE DEF T
  <1>5. CASE i = 8 \/ j = 8
    <2>1. \A n \in 1..8 : n = 8 \/ n \in 1..7
      OBVIOUS
    <2> QED
      BY <1>1, <1>2, <1>3, <1>5, <2>1
  <1>6. (i \in 1..7 /\ j \in 1..7) \/ i = 8 \/ j = 8
    BY <1>3
  <1> QED
    BY <1>4, <1>5, <1>6

\* Two rules of one stack that apply to a message send the same of it, whichever the
\* table and the addresses, so that the order in which the SDK tries them makes no
\* difference.
THEOREM OrderMakesNoDifference == Spec => []SameResidue
  <1>1. Init => rules \in Tables
    BY DEF Init
  <1>2. rules \in Tables /\ [Next]_vars => (rules \in Tables)'
    BY DEF Next, vars, Compress, CompressNot, Fragment, Decompress, DecompressNot, Done
  <1>3. rules \in Tables => SameResidue
    <2> SUFFICES ASSUME rules \in Tables, NEW i \in Applicable, NEW j \in Applicable,
                        Table(sender)[i].stack = Table(sender)[j].stack
                 PROVE  Compressed(Table(sender)[i], sent).residue
                          = Compressed(Table(sender)[j], sent).residue
      BY Zenon DEF SameResidue
    <2> DEFINE T == Table(sender)
    <2>1. /\ i \in DOMAIN T /\ Applies(T[i], sent)
          /\ j \in DOMAIN T /\ Applies(T[j], sent)
      BY DEF Applicable
    <2>2. CASE rules = "outer"
      <3>1. T = OuterRules(Host(sender), Remote(sender))
        BY <2>2 DEF Table
      <3>2. i = j
        BY <2>1, <3>1, OuterOne, Zenon
      <3> QED
        BY <3>2
    <2>3. CASE rules = "inner"
      <3>1. T = InnerRules
        BY <2>3 DEF Table
      <3>2. IsInner(T[i]) /\ IsInner(T[j])
        BY <2>1, <3>1, InnerMembers, Zenon
      <3> DEFINE p == T[i]
                 q == T[j]
      <3>3. IsInner(p) /\ IsInner(q) /\ Applies(p, sent) /\ Applies(q, sent)
        BY <2>1, <3>2, Zenon
      <3> HIDE DEF p, q
      <3>4. Compressed(p, sent).residue = Compressed(q, sent).residue
        BY <3>3, InnerSame
      <3> QED
        BY <3>4, Zenon DEF p, q
    <2>4. CASE rules = "template"
      <3>1. T = TemplateRules(Host(sender), Remote(sender))
        BY <2>4 DEF Table
      <3>2. DOMAIN T = {1}
        <4>1. \A x : DOMAIN <<x>> = {1}
          OBVIOUS
        <4> QED
          BY <3>1, <4>1, Zenon DEF TemplateRules
      <3> QED
        BY <2>1, <3>2
    <2>5. CASE rules = "plain"
      <3>1. T = <<>>
        BY <2>5 DEF Table
      <3> QED
        BY <2>1, <3>1
    <2> QED
      BY <2>2, <2>3, <2>4, <2>5 DEF Tables
  <1> QED
    BY <1>1, <1>2, <1>3, PTL DEF Spec
=============================================================================
