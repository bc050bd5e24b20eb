------------------------- MODULE PointToPointProofs -------------------------
(***************************************************************************)
(* PointToPoint for all tags, tensors, foreign headers and pool sizes.      *)
(***************************************************************************)
EXTENDS PointToPoint, FiniteSetTheorems, SequenceTheorems, TLAPS

\* The payloads of a tag are sent in the order of its calls.
Sent ==
    \A t \in Tags :
        /\ Len(stream[PayloadTag(t)]) = sent[t]
        /\ \A i \in 1 .. Len(stream[PayloadTag(t)]) :
               stream[PayloadTag(t)][i].call = <<t, i>>

\* The one receive of a tag that is not over is the last, and the receives
\* that have been posted are counted by it.
Posted ==
    \A t \in Tags :
        /\ posted[MetadataTag(t)] = Len(receives[t])
        /\ receives[t] = <<>> => posted[PayloadTag(t)] = 0
        /\ \A k \in 1 .. Len(receives[t]) :
               /\ k # Len(receives[t]) => receives[t][k].phase = "done"
               /\ k = Len(receives[t]) =>
                      posted[PayloadTag(t)] =
                          IF receives[t][k].phase \in {"payload", "done"}
                          THEN k ELSE k - 1

\* What a receive has read so far is what was sent at its place.
Matched ==
    \A t \in Tags : \A k \in 1 .. Len(receives[t]) :
        /\ receives[t][k].phase \in {"queued", "header", "payload"} =>
               receives[t][k].at = k
        /\ receives[t][k].phase \in {"payload", "done"} =>
               /\ k \in 1 .. Len(stream[MetadataTag(t)])
               /\ receives[t][k].packet =
                      from_values(stream[MetadataTag(t)][k].words)
        /\ receives[t][k].phase = "done" => receives[t][k].payload = <<t, k>>

\* A job of the pool is for a receive that waits for it, and for no other.
Queued ==
    /\ \A i \in 1 .. Len(queue) :
           /\ queue[i][2] \in 1 .. Len(receives[queue[i][1]])
           /\ receives[queue[i][1]][queue[i][2]].phase = "queued"
    /\ \A i, j \in 1 .. Len(queue) : queue[i] = queue[j] => i = j

IndInv ==
    /\ TypeOK
    /\ Sent
    /\ Posted
    /\ Matched
    /\ Queued

\* The caller has one receive at a time on a logical tag.
OneAtATime == MaxPerTag = 1
----------------------------------------------------------------------------
(***************************************************************************)
(* Headers.                                                                 *)
(***************************************************************************)
\* The first words of a header, then the reserved ones.
Head11(p) ==
    <<Version, Len(p.shape), CHOOSE c \in DOMAIN DTypes : DTypes[c] = p.dtype,
      p.payload_numel, p.wire.bit, p.wire.group_size,
      CHOOSE c \in DOMAIN QuantTypes : QuantTypes[c] = p.wire.quant_type,
      IF p.wire.compact THEN 1 ELSE 0,
      p.layout_generation, p.flags, logical_numel(p.shape)>>

Zeros(n) == [i \in 1 .. n |-> 0]

\* w is a and then b.
Joins(w, a, m, b, n) ==
    /\ \A i \in 1 .. m : w[i] = a[i]
    /\ \A i \in m + 1 .. m + n : w[i] = b[i - m]

\* Concatenation, on sequences given as functions.
LEMMA Joined ==
    ASSUME NEW S, NEW m \in Nat, NEW n \in Nat,
           NEW a \in [1 .. m -> S], NEW b \in [1 .. n -> S]
    PROVE  a \o b \in [1 .. m + n -> S] /\ Joins(a \o b, a, m, b, n)
<1>1. /\ a \in Seq(S) /\ Len(a) = m
      /\ b \in Seq(S) /\ Len(b) = n
  OBVIOUS
<1>2. a \o b \in Seq(S) /\ Len(a \o b) = m + n
  BY <1>1, ConcatProperties
<1>3. \A i \in 1 .. m : (a \o b)[i] = a[i]
  BY <1>1, ConcatProperties
<1>4. \A i \in m + 1 .. m + n : (a \o b)[i] = b[i - m]
  BY <1>1, ConcatProperties
<1>5. a \o b \in [1 .. m + n -> S]
  <2> DEFINE w == a \o b
  <2>1. w \in [1 .. Len(w) -> S]
    BY <1>2, LenProperties
  <2> QED  BY <1>2, <2>1
<1> QED  BY <1>3, <1>4, <1>5 DEF Joins

\* w is 11 words h, 5 zeros, n words d and zeros up to 24.
Laid(w, S, h, d, n) ==
    /\ w \in [1 .. 24 -> S]
    /\ \A i \in 1 .. 11 : w[i] = h[i]
    /\ \A i \in 12 .. 16 : w[i] = 0
    /\ \A i \in 17 .. 16 + n : w[i] = d[i - 16]
    /\ \A i \in 17 + n .. 24 : w[i] = 0

\* Four pieces make a header of 24 words.
LEMMA Pieces ==
    ASSUME NEW S, 0 \in S, NEW n \in 0 .. 8,
           NEW h \in [1 .. 11 -> S], NEW d \in [1 .. n -> S]
    PROVE  Laid(h \o Zeros(5) \o d \o Zeros(8 - n), S, h, d, n)
<1> DEFINE a == h \o Zeros(5)
           b == a \o d
           w == b \o Zeros(8 - n)
<1>0. \A k \in Nat : Zeros(k) \in [1 .. k -> S] /\ \A i \in 1 .. k : Zeros(k)[i] = 0
  BY DEF Zeros
<1>1. /\ a \in [1 .. 16 -> S]
      /\ \A i \in 1 .. 11 : a[i] = h[i]
      /\ \A i \in 12 .. 16 : a[i] = 0
  <2>1. PICK m, k, z : m = 11 /\ k = 5 /\ z = Zeros(5)
    OBVIOUS
  <2>2. m \in Nat /\ k \in Nat /\ m + k = 16 /\ m + 1 = 12
    BY <2>1
  <2>3. h \in [1 .. m -> S] /\ z \in [1 .. k -> S] /\ \A i \in 1 .. k : z[i] = 0
    BY <1>0, <2>1
  <2>4. h \o z \in [1 .. m + k -> S] /\ Joins(h \o z, h, m, z, k)
    BY <2>2, <2>3, Joined
  <2>5. a = h \o z
    BY <2>1
  <2> HIDE DEF a
  <2>6. a \in [1 .. m + k -> S] /\ Joins(a, h, m, z, k)
    BY <2>4, <2>5
  <2>7. \A i \in m + 1 .. m + k : i - m \in 1 .. k
    BY <2>2
  <2>8. \A i \in m + 1 .. m + k : a[i] = 0
    BY <2>3, <2>6, <2>7 DEF Joins
  <2> QED  BY <2>1, <2>2, <2>6, <2>8 DEF Joins
<1> HIDE DEF a
<1>3. /\ b \in [1 .. 16 + n -> S]
      /\ \A i \in 1 .. 16 : b[i] = a[i]
      /\ \A i \in 17 .. 16 + n : b[i] = d[i - 16]
  <2>1. PICK m \in Nat : m = 16
    OBVIOUS
  <2>2. a \in [1 .. m -> S] /\ n \in Nat
    BY <1>1, <2>1
  <2>3. b \in [1 .. m + n -> S] /\ Joins(b, a, m, d, n)
    BY <2>2, Joined
  <2> HIDE DEF b
  <2> QED  BY <2>1, <2>3 DEF Joins
<1> HIDE DEF b
<1>4. /\ w \in [1 .. (16 + n) + (8 - n) -> S]
      /\ \A i \in 1 .. 16 + n : w[i] = b[i]
      /\ \A i \in (16 + n) + 1 .. (16 + n) + (8 - n) :
             w[i] = Zeros(8 - n)[i - (16 + n)]
  <2>1. PICK m, k, z : m \in Nat /\ k \in Nat /\ m = 16 + n /\ k = 8 - n /\ z = Zeros(8 - n)
    OBVIOUS
  <2>2. b \in [1 .. m -> S] /\ z \in [1 .. k -> S]
    BY <1>0, <1>3, <2>1
  <2>3. b \o z \in [1 .. m + k -> S] /\ Joins(b \o z, b, m, z, k)
    BY <2>1, <2>2, Joined
  <2>4. w = b \o z
    BY <2>1
  <2> HIDE DEF w
  <2>5. w \in [1 .. m + k -> S] /\ Joins(w, b, m, z, k)
    BY <2>3, <2>4
  <2> QED  BY <2>1, <2>5 DEF Joins
<1>5. /\ w \in [1 .. 24 -> S]
      /\ \A i \in 17 + n .. 24 : w[i] = 0
  <2>1. \A i \in 17 + n .. 24 : i - (16 + n) \in 1 .. 8 - n
    OBVIOUS
  <2>2. (16 + n) + (8 - n) = 24 /\ (16 + n) + 1 = 17 + n /\ 8 - n \in Nat
    OBVIOUS
  <2> HIDE DEF w
  <2> QED  BY <1>0, <1>4, <2>1, <2>2
<1> HIDE DEF w
<1>6. /\ \A i \in 1 .. 11 : w[i] = h[i]
      /\ \A i \in 12 .. 16 : w[i] = 0
      /\ \A i \in 17 .. 16 + n : w[i] = d[i - 16]
  <2>0. \A i \in 1 .. 16 : i \in 1 .. 16 + n
    OBVIOUS
  <2>1. \A i \in 1 .. 16 : w[i] = b[i] /\ b[i] = a[i]
    BY <1>3, <1>4, <2>0
  <2>2. \A i \in 17 .. 16 + n : w[i] = b[i]
    BY <1>4
  <2> QED  BY <1>1, <1>3, <2>1, <2>2
<1>7. Laid(w, S, h, d, n)
  BY <1>5, <1>6 DEF Laid
<1> QED  BY <1>7 DEF w, b, a

\* Eleven words.
LEMMA ElevenWords ==
    ASSUME NEW x1, NEW x2, NEW x3, NEW x4, NEW x5, NEW x6, NEW x7, NEW x8,
           NEW x9, NEW x10, NEW x11, NEW S,
           {x1, x2, x3, x4, x5, x6, x7, x8, x9, x10, x11} \subseteq S
    PROVE  <<x1, x2, x3, x4, x5, x6, x7, x8, x9, x10, x11>> \in [1 .. 11 -> S]
OBVIOUS

\* to_values, piece by piece.
LEMMA ToValuesIs ==
    ASSUME NEW p
    PROVE  to_values(p) = Head11(p) \o Zeros(5) \o p.shape \o Zeros(8 - Len(p.shape))
BY DEF to_values, Head11, Zeros, DimsOffset, Words

\* What to_values writes is a sequence of 24 words.
LEMMA ToValuesShape ==
    ASSUME NEW p, p.shape \in Seq(Nat), Len(p.shape) <= 8
    PROVE  /\ DOMAIN to_values(p) = 1 .. 24
           /\ to_values(p) = [i \in 1 .. 24 |-> to_values(p)[i]]
<1>1. PICK S : Head11(p) \in [1 .. 11 -> S] /\ Nat \subseteq S
  <2> DEFINE x2 == Len(p.shape)
             x3 == CHOOSE c \in DOMAIN DTypes : DTypes[c] = p.dtype
             x7 == CHOOSE c \in DOMAIN QuantTypes : QuantTypes[c] = p.wire.quant_type
             x8 == IF p.wire.compact THEN 1 ELSE 0
             x11 == logical_numel(p.shape)
             S == Nat \cup {Version, x2, x3, p.payload_numel, p.wire.bit,
                            p.wire.group_size, x7, x8, p.layout_generation,
                            p.flags, x11}
  <2>1. Head11(p) = <<Version, x2, x3, p.payload_numel, p.wire.bit,
                      p.wire.group_size, x7, x8, p.layout_generation, p.flags, x11>>
    BY DEF Head11
  <2> HIDE DEF x2, x3, x7, x8, x11
  <2>2. Head11(p) \in [1 .. 11 -> S]
    BY <2>1, ElevenWords
  <2> QED  BY <2>2
<1>2. PICK n \in Nat : n = Len(p.shape)
  BY LenProperties
<1>5. n \in 0 .. 8
  <2>1. n <= 8
    BY <1>2
  <2> QED  BY <2>1
<1>3. p.shape \in [1 .. n -> S]
  <2>1. p.shape \in [1 .. n -> Nat]
    BY <1>2, LenProperties
  <2> QED  BY <1>1, <2>1
<1>4. to_values(p) \in [1 .. 24 -> S]
  <2>1. 0 \in S
    BY <1>1
  <2>2. to_values(p) = Head11(p) \o Zeros(5) \o p.shape \o Zeros(8 - n)
    BY <1>2, ToValuesIs
  <2>3. PICK h : h = Head11(p) /\ h \in [1 .. 11 -> S]
    BY <1>1
  <2>4. PICK d : d = p.shape /\ d \in [1 .. n -> S]
    BY <1>3
  <2>5. Laid(h \o Zeros(5) \o d \o Zeros(8 - n), S, h, d, n)
    BY <1>5, <2>1, <2>3, <2>4, Pieces
  <2> QED  BY <2>2, <2>3, <2>4, <2>5 DEF Laid
<1> QED  BY <1>4

\* A sequence of words that from_values() takes is what to_values() writes.
LEMMA HeaderRoundTrip ==
    ASSUME NEW v, v = [i \in 1 .. 24 |-> v[i]], from_values(v) # Rejected
    PROVE  to_values(from_values(v)) = v
<1> DEFINE p == Decoded(v)
           n == v[2]
<1>1. from_values(v) = p /\ Readable(v) /\ logical_numel(p.shape) = v[11]
  BY DEF from_values, Decoded, Word
<1>2. /\ v[1] = 1 /\ n \in 0 .. 8
      /\ v[3] \in 1 .. 3 /\ v[7] \in 1 .. 5 /\ v[8] \in {0, 1}
      /\ \A i \in 12 .. 16 : v[i] = 0
      /\ \A i \in 17 + n .. 24 : v[i] = 0
  <2>1. \A i \in 11 .. 15 : v[i + 1] = 0
    BY <1>1 DEF Readable, Word, DimsOffset
  <2>2. \A i \in 16 + n .. 23 : v[i + 1] = 0
    BY <1>1 DEF Readable, Word, DimsOffset, Words
  <2>3. /\ v[1] = 1 /\ n \in 0 .. 8
        /\ v[3] \in 1 .. 3 /\ v[7] \in 1 .. 5 /\ v[8] \in {0, 1}
    BY <1>1 DEF Readable, Word, Version, MaxNdim, DTypes, QuantTypes
  <2>4. \A i \in 12 .. 16 : v[i] = 0
    <3> TAKE i \in 12 .. 16
    <3>1. i - 1 \in 11 .. 15 /\ (i - 1) + 1 = i
      OBVIOUS
    <3> QED  BY <2>1, <3>1
  <2>5. \A i \in 17 + n .. 24 : v[i] = 0
    <3> TAKE i \in 17 + n .. 24
    <3>1. i - 1 \in 16 + n .. 23 /\ (i - 1) + 1 = i
      BY <2>3
    <3> QED  BY <2>2, <3>1
  <2> QED  BY <2>3, <2>4, <2>5
<1>3. PICK S : {v[i] : i \in 1 .. 24} \cup Int \subseteq S
  OBVIOUS
<1>4. PICK d : d = p.shape /\ d \in [1 .. n -> S] /\ Len(d) = n
               /\ \A i \in 1 .. n : d[i] = v[16 + i]
  <2>1. PICK k \in 0 .. 8, m \in Int : k = n /\ m = 17
    BY <1>2
  <2>2. m + k - 1 \in Int /\ \A i \in m .. m + k - 1 : v[i] \in S
    BY <1>3, <2>1
  <2> DEFINE e == SubSeq(v, m, m + k - 1)
  <2>3. /\ e \in Seq(S)
        /\ Len(e) = IF m <= m + k - 1 THEN (m + k - 1) - m + 1 ELSE 0
        /\ \A i \in 1 .. (m + k - 1) - m + 1 : e[i] = v[m + i - 1]
    BY <2>2, SubSeqProperties
  <2>4. p.shape = e
    <3>1. 16 + n = m + k - 1 /\ 16 + 1 = m
      BY <2>1
    <3>2. Word(v, 1) = n /\ DimsOffset = 16
      BY DEF Word, DimsOffset
    <3>3. Dims(v) = SubSeq(v, m, m + k - 1)
      BY <3>1, <3>2 DEF Dims
    <3> QED  BY <3>3 DEF Decoded
  <2> HIDE DEF e
  <2>5. Len(e) = k
    <3>1. (IF m <= m + k - 1 THEN (m + k - 1) - m + 1 ELSE 0) = k
      BY <2>1
    <3>2. Len(e) = IF m <= m + k - 1 THEN (m + k - 1) - m + 1 ELSE 0
      BY <2>3
    <3> QED  BY <3>1, <3>2
  <2>6. e \in [1 .. k -> S]
    BY <2>3, <2>5, LenProperties
  <2>7. \A i \in 1 .. k : e[i] = v[16 + i]
    <3> TAKE i \in 1 .. k
    <3>1. i \in 1 .. (m + k - 1) - m + 1 /\ m + i - 1 = 16 + i
      BY <2>1
    <3> QED  BY <2>3, <3>1
  <2> QED  BY <2>1, <2>4, <2>5, <2>6, <2>7
<1>5. Head11(p) = <<v[1], v[2], v[3], v[4], v[5], v[6], v[7], v[8], v[9], v[10], v[11]>>
  <2>1. Len(p.shape) = v[2] /\ Version = v[1] /\ logical_numel(p.shape) = v[11]
    BY <1>1, <1>2, <1>4 DEF Version
  <2>2. (CHOOSE c \in DOMAIN DTypes : DTypes[c] = p.dtype) = v[3]
    <3>1. v[3] \in DOMAIN DTypes /\ p.dtype = DTypes[v[3]]
      BY <1>2 DEF DTypes, Decoded, Word
    <3>2. \A c, e \in DOMAIN DTypes : DTypes[c] = DTypes[e] => c = e
      BY DEF DTypes
    <3> QED  BY <3>1, <3>2
  <2>3. (CHOOSE c \in DOMAIN QuantTypes : QuantTypes[c] = p.wire.quant_type) = v[7]
    <3>1. v[7] \in DOMAIN QuantTypes /\ p.wire.quant_type = QuantTypes[v[7]]
      BY <1>2 DEF QuantTypes, Decoded, Word
    <3>2. \A c, e \in DOMAIN QuantTypes : QuantTypes[c] = QuantTypes[e] => c = e
      BY DEF QuantTypes
    <3> QED  BY <3>1, <3>2
  <2>4. (IF p.wire.compact THEN 1 ELSE 0) = v[8]
    <3>1. Word(v, 7) = v[8]
      BY DEF Word
    <3>2. p.wire.compact = (v[8] = 1)
      BY <3>1, Zenon DEF Decoded
    <3>3. CASE v[8] = 1
      BY <3>2, <3>3
    <3>4. CASE v[8] = 0
      <4>1. v[8] # 1
        BY <3>4
      <4>2. ~p.wire.compact
        BY <3>2, <4>1, Zenon
      <4> QED  BY <3>4, <4>2
    <3> QED  BY <1>2, <3>3, <3>4
  <2>5. /\ p.payload_numel = v[4] /\ p.wire.bit = v[5] /\ p.wire.group_size = v[6]
        /\ p.layout_generation = v[9] /\ p.flags = v[10]
    BY DEF Decoded, Word
  <2> HIDE DEF p
  <2> QED  BY <2>1, <2>2, <2>3, <2>4, <2>5 DEF Head11
<1>6. PICK h : h = Head11(p) /\ h \in [1 .. 11 -> S] /\ \A i \in 1 .. 11 : h[i] = v[i]
  <2>1. PICK h : h = <<v[1], v[2], v[3], v[4], v[5], v[6], v[7], v[8], v[9], v[10], v[11]>>
    OBVIOUS
  <2>2. \A i \in 1 .. 11 : h[i] = v[i]
    BY <2>1
  <2>3. h \in [1 .. 11 -> S]
    BY <1>3, <2>1, ElevenWords
  <2> QED  BY <1>5, <2>1, <2>2, <2>3
<1>7. to_values(p) = h \o Zeros(5) \o d \o Zeros(8 - n)
  BY <1>4, <1>6, ToValuesIs
<1>8. PICK w : w = to_values(p) /\ Laid(w, S, h, d, n)
  <2>1. 0 \in S
    BY <1>3
  <2> HIDE DEF p
  <2> QED  BY <1>2, <1>4, <1>6, <1>7, <2>1, Pieces
<1>9. \A i \in 17 .. 16 + n : w[i] = v[i]
  <2> TAKE i \in 17 .. 16 + n
  <2>1. i - 16 \in 1 .. n /\ 16 + (i - 16) = i
    BY <1>2
  <2> QED  BY <1>4, <1>8, <2>1 DEF Laid
<1>10. \A i \in 1 .. 24 : w[i] = v[i]
  <2> TAKE i \in 1 .. 24
  <2>1. i \in 1 .. 11 \/ i \in 12 .. 16 \/ i \in 17 .. 16 + n \/ i \in 17 + n .. 24
    BY <1>2
  <2> QED  BY <1>2, <1>6, <1>8, <1>9, <2>1 DEF Laid
<1>11. w = [i \in 1 .. 24 |-> v[i]]
  BY <1>8, <1>10 DEF Laid
<1> QED  BY <1>1, <1>8, <1>11

\* Whoever wrote it, a header on its way is a sequence of 24 words.
LEMMA HeadersAreWords ==
    ASSUME NEW v \in Headers
    PROVE  v = [i \in 1 .. 24 |-> v[i]]
<1>0. PICK t \in Tags : \E k \in DOMAIN Script[t] :
          \/ v = to_values(Script[t][k])
          \/ v \in ForeignHeaders(to_values(Script[t][k]))
  BY DEF Headers
<1>1. PICK k \in DOMAIN Script[t] :
          \/ v = to_values(Script[t][k])
          \/ v \in ForeignHeaders(to_values(Script[t][k]))
  BY <1>0
<1>2. PICK u : u = to_values(Script[t][k])
  OBVIOUS
<1>3. DOMAIN u = 1 .. 24 /\ u = [i \in 1 .. 24 |-> u[i]]
  <2>1. Script[t][k].shape \in Seq(Nat) /\ Len(Script[t][k].shape) <= 8
    BY PointToPointAssumption DEF Packet, Shape, MaxNdim
  <2> QED  BY <1>2, <2>1, ToValuesShape
<1>4. ASSUME NEW i \in DOMAIN u, NEW x, v = [u EXCEPT ![i] = x]
      PROVE  v = [j \in 1 .. 24 |-> v[j]]
  BY <1>3, <1>4
<1>5. CASE v \in ForeignHeaders(u)
  <2>1. PICK i \in DOMAIN u, x \in ForeignWords : v = [u EXCEPT ![i] = x]
    BY <1>5 DEF ForeignHeaders
  <2> QED  BY <1>4, <2>1
<1> QED  BY <1>1, <1>2, <1>3, <1>5

\* No payload is taken for a header.
LEMMA PayloadIsNoHeader == from_values(<<>>) = Rejected
BY DEF from_values, Readable, Words

\* What a message on its way decodes to.
Packets == {from_values(v) : v \in Headers} \cup {Rejected}

\* A header or a payload: from_values() gives a packet or rejects it.
LEMMA MessageDecodes ==
    ASSUME NEW m \in Messages
    PROVE  /\ from_values(m.words) \in Packets
           /\ from_values(m.words) # Rejected =>
                  to_values(from_values(m.words)) = m.words
<1>1. CASE m.words = <<>>
  BY <1>1, PayloadIsNoHeader DEF Packets
<1>2. CASE m.words \in Headers
  BY <1>2, HeadersAreWords, HeaderRoundTrip DEF Packets
<1> QED  BY <1>1, <1>2 DEF Messages
----------------------------------------------------------------------------
(***************************************************************************)
(* Types.                                                                   *)
(***************************************************************************)
Record == [phase : Phases, at : Nat, packet : Packets,
           payload : (Tags \X Nat) \cup {<<>>}]

\* No two streams share a physical tag.
LEMMA TagFacts ==
    /\ \A t \in Tags : t \in Nat
    /\ \A t \in Tags : MetadataTag(t) \in PhysicalTags /\ PayloadTag(t) \in PhysicalTags
    /\ \A t, u \in Tags :
           /\ MetadataTag(t) # PayloadTag(u)
           /\ MetadataTag(t) = MetadataTag(u) => t = u
           /\ PayloadTag(t) = PayloadTag(u) => t = u
BY PointToPointAssumption DEF MetadataTag, PayloadTag, PhysicalTags

\* A receive that changes, if it is there, stays a receive.
LEMMA ReceiveChanged ==
    ASSUME NEW R, NEW f \in [Tags -> Seq(R)], NEW t \in Tags, NEW k \in Nat,
           NEW r,
           k \in DOMAIN f[t] => r \in R,
           NEW h, h = [f EXCEPT ![t][k] = r]
    PROVE  /\ h \in [Tags -> Seq(R)]
           /\ \A u \in Tags : Len(h[u]) = Len(f[u])
           /\ \A u \in Tags : \A j \in 1 .. Len(f[u]) :
                  h[u][j] = IF u = t /\ j = k THEN r ELSE f[u][j]
<1>1. PICK n \in Nat : n = Len(f[t]) /\ f[t] \in [1 .. n -> R]
  BY LenProperties
<1>2. PICK s : s = [f[t] EXCEPT ![k] = r] /\ s \in [1 .. n -> R]
               /\ \A j \in 1 .. n : s[j] = IF j = k THEN r ELSE f[t][j]
  <2>1. PICK e \in [1 .. n -> R] : e = f[t]
    BY <1>1
  <2>2. k \in 1 .. n => r \in R
    BY <2>1
  <2> DEFINE s == [e EXCEPT ![k] = r]
  <2>3. s \in [1 .. n -> R]
    BY <2>2
  <2>4. \A j \in 1 .. n : s[j] = IF j = k THEN r ELSE e[j]
    BY <2>1
  <2> QED  BY <2>1, <2>3, <2>4
<1>3. s \in Seq(R) /\ Len(s) = n
  BY <1>2
<1>4. h = [f EXCEPT ![t] = s]
  BY <1>2
<1> QED  BY <1>1, <1>2, <1>3, <1>4

\* The words that IsendMetadata sends are a header.
LEMMA OwnHeader ==
    ASSUME TypeOK, NEW t \in Tags, sent[t] < Len(Script[t])
    PROVE  LET own == to_values(Script[t][sent[t] + 1])
           IN  own \in Headers /\ ForeignHeaders(own) \subseteq Headers
<1>1. sent[t] + 1 \in DOMAIN Script[t]
  <2>1. PICK n \in Nat, m \in Nat : n = Len(Script[t]) /\ m = sent[t] /\ DOMAIN Script[t] = 1 .. n
    BY PointToPointAssumption DEF TypeOK
  <2>2. m + 1 \in 1 .. n
    BY <2>1
  <2> QED  BY <2>1, <2>2
<1> QED  BY <1>1 DEF Headers

\* Every step keeps the types.
LEMMA TypeStep ==
    ASSUME TypeOK, [Next]_vars
    PROVE  TypeOK'
<1>0. /\ stream \in [PhysicalTags -> Seq(Messages)]
      /\ posted \in [PhysicalTags -> Nat]
      /\ sent \in [Tags -> Nat]
      /\ receives \in [Tags -> Seq(Record)]
      /\ queue \in Seq(Tags \X Nat)
  BY DEF TypeOK, Record, Packets
<1>S. ASSUME /\ stream' \in [PhysicalTags -> Seq(Messages)]
             /\ posted' \in [PhysicalTags -> Nat]
             /\ sent' \in [Tags -> Nat]
             /\ receives' \in [Tags -> Seq(Record)]
             /\ queue' \in Seq(Tags \X Nat)
      PROVE  TypeOK'
  BY <1>S DEF TypeOK, Record, Packets
<1>1. ASSUME NEW t \in Tags, IsendMetadata(t)
      PROVE  TypeOK'
  <2>1. PICK words \in Headers : Send(MetadataTag(t), <<t, sent[t] + 1>>, words)
    BY <1>1, OwnHeader DEF IsendMetadata
  <2>2. [call |-> <<t, sent[t] + 1>>, words |-> words] \in Messages
    BY <1>0 DEF Messages
  <2>3. stream' \in [PhysicalTags -> Seq(Messages)]
    BY <1>0, <2>1, <2>2, TagFacts DEF Send
  <2> QED  BY <1>0, <1>1, <1>S, <2>3 DEF IsendMetadata
<1>2. ASSUME NEW t \in Tags, IsendPayload(t)
      PROVE  TypeOK'
  <2>1. [call |-> <<t, sent[t] + 1>>, words |-> <<>>] \in Messages
    BY <1>0 DEF Messages
  <2>2. stream' \in [PhysicalTags -> Seq(Messages)]
    BY <1>0, <1>2, <2>1, TagFacts DEF Send, IsendPayload
  <2>3. sent' \in [Tags -> Nat]
    BY <1>0, <1>2 DEF IsendPayload
  <2> QED  BY <1>0, <1>2, <1>S, <2>2, <2>3 DEF IsendPayload
<1>3. ASSUME NEW t \in Tags, NEW k \in 1 .. sent[t], StartWait(t, k) \/ WaitReturns(t, k)
      PROVE  TypeOK'
  BY <1>0, <1>3, <1>S DEF StartWait, WaitReturns
<1>4. ASSUME NEW t \in Tags, Irecv(t)
      PROVE  TypeOK'
  <2>1. posted' \in [PhysicalTags -> Nat]
    BY <1>0, <1>4, TagFacts DEF Irecv, Post
  <2>2. PICK r \in Record : receives' = [receives EXCEPT ![t] = Append(@, r)]
    <3>1. posted[MetadataTag(t)] + 1 \in Nat
      BY <1>0, TagFacts
    <3>2. [phase |-> "queued", at |-> posted[MetadataTag(t)] + 1,
           packet |-> Rejected, payload |-> <<>>] \in Record
      BY <3>1 DEF Record, Packets, Phases
    <3> QED  BY <1>4, <3>2 DEF Irecv
  <2>3. receives' \in [Tags -> Seq(Record)]
    BY <1>0, <2>2
  <2>4. queue' \in Seq(Tags \X Nat)
    <3>1. PICK n \in Nat : n = Len(receives[t])
      BY <1>0, LenProperties
    <3>2. <<t, n + 1>> \in Tags \X Nat
      OBVIOUS
    <3> QED  BY <1>0, <1>4, <3>1, <3>2 DEF Irecv
  <2> QED  BY <1>0, <1>4, <1>S, <2>1, <2>3, <2>4 DEF Irecv
<1>5. ASSUME TakeJob
      PROVE  TypeOK'
  <2>1. PICK t \in Tags, k \in Nat : Head(queue) = <<t, k>> /\ queue' = Tail(queue)
    BY <1>0, <1>5 DEF TakeJob
  <2>2. PICK r : r = [receives[t][k] EXCEPT !.phase = "header"]
    OBVIOUS
  <2>3. receives' = [receives EXCEPT ![t][k] = r]
    <3>1. PICK c : c = Head(queue) /\ c[1] = t /\ c[2] = k
      BY <2>1
    <3>2. receives' = [receives EXCEPT ![c[1]][c[2]].phase = "header"]
      BY <1>5, <3>1, Zenon DEF TakeJob
    <3> QED  BY <2>2, <3>1, <3>2
  <2>4. k \in DOMAIN receives[t] => r \in Record
    <3>1. k \in DOMAIN receives[t] => receives[t][k] \in Record
      BY <1>0
    <3> QED  BY <2>2, <3>1 DEF Record, Phases
  <2>5. receives' \in [Tags -> Seq(Record)]
    BY <1>0, <2>3, <2>4, ReceiveChanged
  <2>6. queue' \in Seq(Tags \X Nat)
    BY <1>0, <1>5, <2>1 DEF TakeJob
  <2> QED  BY <1>0, <1>5, <1>S, <2>5, <2>6 DEF TakeJob
<1>6. ASSUME NEW t \in Tags, NEW k \in DOMAIN receives[t], ReadHeader(t, k)
      PROVE  TypeOK'
  <2>0. k \in Nat /\ receives[t][k] \in Record
    BY <1>0
  <2>1. PICK m \in Messages : m = stream[MetadataTag(t)][receives[t][k].at]
    BY <1>0, <1>6, TagFacts DEF ReadHeader
  <2>2. posted[PayloadTag(t)] + 1 \in Nat
    BY <1>0, TagFacts
  <2>3. PICK r \in Record : receives' = [receives EXCEPT ![t][k] = r]
    <3>1. [receives[t][k] EXCEPT !.phase = "payload", !.packet = from_values(m.words),
                                 !.at = posted[PayloadTag(t)] + 1] \in Record
      <4>1. from_values(m.words) \in Packets
        BY MessageDecodes
      <4> QED  BY <2>0, <2>2, <4>1 DEF Record, Phases
    <3>2. [receives[t][k] EXCEPT !.phase = "failed"] \in Record
      BY <2>0 DEF Record, Phases
    <3> QED  BY <1>6, <2>1, <3>1, <3>2 DEF ReadHeader
  <2>4. receives' \in [Tags -> Seq(Record)]
    BY <1>0, <2>0, <2>3, ReceiveChanged
  <2>5. posted' \in [PhysicalTags -> Nat]
    BY <1>0, <1>6, <2>2, TagFacts DEF ReadHeader, Post
  <2> QED  BY <1>0, <1>6, <1>S, <2>4, <2>5 DEF ReadHeader
<1>7. ASSUME NEW t \in Tags, NEW k \in DOMAIN receives[t], ReadPayload(t, k)
      PROVE  TypeOK'
  <2>0. k \in Nat /\ receives[t][k] \in Record
    BY <1>0
  <2>1. PICK m \in Messages : m = stream[PayloadTag(t)][receives[t][k].at]
    BY <1>0, <1>7, TagFacts DEF ReadPayload
  <2>2. PICK r \in Record : receives' = [receives EXCEPT ![t][k] = r]
    <3>1. [receives[t][k] EXCEPT !.phase = "done", !.payload = m.call] \in Record
      BY <2>0 DEF Record, Phases, Messages
    <3> QED  BY <1>7, <2>1, <3>1 DEF ReadPayload
  <2>3. receives' \in [Tags -> Seq(Record)]
    BY <1>0, <2>0, <2>2, ReceiveChanged
  <2> QED  BY <1>0, <1>7, <1>S, <2>3 DEF ReadPayload
<1>8. ASSUME UNCHANGED vars
      PROVE  TypeOK'
  BY <1>0, <1>8, <1>S DEF vars
<1> QED
  BY <1>1, <1>2, <1>3, <1>4, <1>5, <1>6, <1>7, <1>8 DEF Next, SenderStep, Finish

(***************************************************************************)
(* The two ranks keep to the types of their messages, and from_values()     *)
(* drops nothing: a header it takes, from a sender of whatever version, is  *)
(* word for word what to_values() writes for the packet it gives.           *)
(***************************************************************************)
THEOREM HeadersLoseNothing == Spec => [](TypeOK /\ HeadersCanonical)
<1>1. Init => TypeOK
  BY DEF Init, TypeOK
<1>2. TypeOK /\ [Next]_vars => TypeOK'
  BY TypeStep
<1>3. TypeOK => HeadersCanonical
  <2> SUFFICES ASSUME TypeOK, NEW p \in PhysicalTags, NEW i \in DOMAIN stream[p],
                      from_values(stream[p][i].words) # Rejected
               PROVE  to_values(from_values(stream[p][i].words)) = stream[p][i].words
    BY DEF HeadersCanonical
  <2>1. stream[p][i] \in Messages
    BY DEF TypeOK
  <2> QED  BY <2>1, MessageDecodes
<1> QED  BY <1>1, <1>2, <1>3, PTL DEF Spec
----------------------------------------------------------------------------
(***************************************************************************)
(* Tensors arrive whole.                                                    *)
(***************************************************************************)
\* The states of a receive that is under way.
Open == {"queued", "header", "payload"}

\* With one receive at a time, all earlier ones are over when one is posted.
LEMMA NoneOpen ==
    ASSUME OneAtATime, TypeOK, NEW t \in Tags, MayReceive(t)
    PROVE  \A k \in 1 .. Len(receives[t]) : receives[t][k].phase = "done"
<1>0. receives[t] \in Seq(Record)
  BY DEF TypeOK, Record, Packets
<1>1. PICK n \in Nat : n = Len(receives[t]) /\ DOMAIN receives[t] = 1 .. n
  BY <1>0, LenProperties
<1> DEFINE O == Receives(Phases \ {"done", "failed"}) \cap ({t} \X Nat)
<1>2. O \subseteq {t} \X (1 .. n)
  BY <1>1 DEF Receives
<1>3. IsFiniteSet(O)
  <2>1. IsFiniteSet(1 .. n)
    BY FS_Interval
  <2>2. IsFiniteSet({t} \X (1 .. n))
    BY <2>1, FS_Singleton, FS_Product
  <2> QED  BY <1>2, <2>2, FS_Subset
<1>4. O = {}
  <2>1. Cardinality(O) \in Nat /\ Cardinality(O) < 1
    BY <1>3, FS_CardinalityType DEF MayReceive, OneAtATime
  <2>2. Cardinality(O) = 0
    BY <2>1
  <2> QED  BY <1>3, <2>2, FS_EmptySet
<1>5. ASSUME NEW k \in 1 .. n
      PROVE  receives[t][k].phase = "done"
  <2>1. receives[t][k].phase \in Phases /\ receives[t][k].phase # "failed"
    <3>1. receives[t][k] \in Record
      BY <1>0, <1>1
    <3> QED  BY <1>1, <3>1 DEF MayReceive, Record
  <2>2. <<t, k>> \notin Receives(Phases \ {"done", "failed"})
    <3>1. <<t, k>> \in {t} \X Nat
      OBVIOUS
    <3> QED  BY <1>4, <3>1
  <2>3. <<t, k>> \in UNION {{u} \X DOMAIN receives[u] : u \in Tags}
    BY <1>1
  <2>4. <<t, k>>[1] = t /\ <<t, k>>[2] = k
    OBVIOUS
  <2>5. receives[t][k].phase \notin Phases \ {"done", "failed"}
    BY <2>2, <2>3, <2>4 DEF Receives
  <2> QED  BY <2>1, <2>5
<1> QED  BY <1>1, <1>5

\* What is appended to one of several sequences leaves all else in place.
LEMMA AppendKeeps ==
    ASSUME NEW S, NEW P, NEW f \in [P -> Seq(S)], NEW p \in P, NEW m \in S,
           NEW g, g = [f EXCEPT ![p] = Append(@, m)]
    PROVE  /\ \A q \in P : q # p => g[q] = f[q]
           /\ Len(g[p]) = Len(f[p]) + 1
           /\ g[p][Len(f[p]) + 1] = m
           /\ \A q \in P : \A i \in 1 .. Len(f[q]) :
                  i \in 1 .. Len(g[q]) /\ g[q][i] = f[q][i]
<1>1. PICK n, s : n \in Nat /\ n = Len(f[p]) /\ s = f[p] /\ s \in Seq(S)
  BY LenProperties
<1>2. g[p] = Append(s, m)
  BY <1>1
<1>3. Len(g[p]) = n + 1 /\ g[p][n + 1] = m /\ \A i \in 1 .. n : g[p][i] = s[i]
  BY <1>1, <1>2, AppendProperties
<1>4. \A q \in P : q # p => g[q] = f[q]
  OBVIOUS
<1> QED  BY <1>1, <1>3, <1>4

\* Nothing has been sent or received.
LEMMA InitIndInv == Init => IndInv
<1> SUFFICES ASSUME Init PROVE IndInv
  OBVIOUS
<1>1. TypeOK
  BY DEF Init, TypeOK
<1>2. Sent /\ Posted /\ Matched
  BY TagFacts DEF Init, Sent, Posted, Matched
<1>3. Queued
  BY DEF Init, Queued
<1> QED  BY <1>1, <1>2, <1>3 DEF IndInv

\* TypeOK with the record set named.
LEMMA Typed ==
    ASSUME TypeOK
    PROVE  /\ stream \in [PhysicalTags -> Seq(Messages)]
           /\ posted \in [PhysicalTags -> Nat]
           /\ sent \in [Tags -> Nat]
           /\ receives \in [Tags -> Seq(Record)]
           /\ queue \in Seq(Tags \X Nat)
BY DEF TypeOK, Record, Packets

\* isend(): the header.
LEMMA MetadataStep ==
    ASSUME IndInv, NEW t \in Tags, IsendMetadata(t)
    PROVE  Sent' /\ Posted' /\ Matched' /\ Queued'
<1>0. /\ stream \in [PhysicalTags -> Seq(Messages)]
      /\ Sent /\ Posted /\ Matched /\ Queued
      /\ UNCHANGED <<posted, sent, receives, queue>>
  BY Typed DEF IndInv, IsendMetadata
<1>1. PICK m \in Messages : stream' = [stream EXCEPT ![MetadataTag(t)] = Append(@, m)]
  <2>1. PICK words \in Headers : Send(MetadataTag(t), <<t, sent[t] + 1>>, words)
    BY OwnHeader DEF IsendMetadata, IndInv
  <2>2. [call |-> <<t, sent[t] + 1>>, words |-> words] \in Messages
    BY Typed DEF Messages, IndInv
  <2> QED  BY <2>1, <2>2 DEF Send
<1>2. /\ \A q \in PhysicalTags : q # MetadataTag(t) => stream'[q] = stream[q]
      /\ \A q \in PhysicalTags : \A i \in 1 .. Len(stream[q]) :
             i \in 1 .. Len(stream'[q]) /\ stream'[q][i] = stream[q][i]
  BY <1>0, <1>1, TagFacts, AppendKeeps
<1>3. Sent'
  BY <1>0, <1>2, TagFacts DEF Sent
<1>4. Posted' /\ Queued'
  BY <1>0 DEF Posted, Queued
<1>5. Matched'
  <2> SUFFICES ASSUME NEW u \in Tags, NEW k \in 1 .. Len(receives[u])
               PROVE  /\ receives[u][k].phase \in {"queued", "header", "payload"} =>
                             receives[u][k].at = k
                      /\ receives[u][k].phase \in {"payload", "done"} =>
                             /\ k \in 1 .. Len(stream'[MetadataTag(u)])
                             /\ receives[u][k].packet =
                                    from_values(stream'[MetadataTag(u)][k].words)
                      /\ receives[u][k].phase = "done" => receives[u][k].payload = <<u, k>>
    BY <1>0 DEF Matched
  <2>1. MetadataTag(u) \in PhysicalTags
    BY TagFacts
  <2>2. k \in 1 .. Len(stream[MetadataTag(u)]) =>
            /\ k \in 1 .. Len(stream'[MetadataTag(u)])
            /\ stream'[MetadataTag(u)][k] = stream[MetadataTag(u)][k]
    BY <1>2, <2>1
  <2> QED  BY <1>0, <2>2 DEF Matched
<1> QED  BY <1>3, <1>4, <1>5

\* isend(): the payload.
LEMMA PayloadStep ==
    ASSUME IndInv, NEW t \in Tags, IsendPayload(t)
    PROVE  Sent' /\ Posted' /\ Matched' /\ Queued'
<1>0. /\ stream \in [PhysicalTags -> Seq(Messages)]
      /\ sent \in [Tags -> Nat]
      /\ Sent /\ Posted /\ Matched /\ Queued
      /\ UNCHANGED <<posted, receives, queue>>
      /\ sent' = [sent EXCEPT ![t] = @ + 1]
  BY Typed DEF IndInv, IsendPayload
<1>1. PICK m \in Messages : /\ m.call = <<t, sent[t] + 1>>
                            /\ stream' = [stream EXCEPT ![PayloadTag(t)] = Append(@, m)]
  <2>1. [call |-> <<t, sent[t] + 1>>, words |-> <<>>] \in Messages
    BY <1>0 DEF Messages
  <2> QED  BY <2>1 DEF Send, IsendPayload
<1>2. /\ \A q \in PhysicalTags : q # PayloadTag(t) => stream'[q] = stream[q]
      /\ Len(stream'[PayloadTag(t)]) = Len(stream[PayloadTag(t)]) + 1
      /\ stream'[PayloadTag(t)][Len(stream[PayloadTag(t)]) + 1] = m
      /\ \A q \in PhysicalTags : \A i \in 1 .. Len(stream[q]) :
             i \in 1 .. Len(stream'[q]) /\ stream'[q][i] = stream[q][i]
  BY <1>0, <1>1, TagFacts, AppendKeeps
<1>3. Sent'
  <2> SUFFICES ASSUME NEW u \in Tags
               PROVE  /\ Len(stream'[PayloadTag(u)]) = sent'[u]
                      /\ \A i \in 1 .. sent'[u] :
                             stream'[PayloadTag(u)][i].call = <<u, i>>
    BY DEF Sent
  <2>1. PICK n \in Nat : n = sent[u] /\ Len(stream[PayloadTag(u)]) = n
                         /\ \A i \in 1 .. n : stream[PayloadTag(u)][i].call = <<u, i>>
    BY <1>0 DEF Sent
  <2>2. CASE u = t
    <3>1. sent'[u] = n + 1 /\ Len(stream'[PayloadTag(u)]) = n + 1
      BY <1>0, <1>2, <2>1, <2>2
    <3>2. stream'[PayloadTag(u)][n + 1].call = <<u, n + 1>>
      BY <1>1, <1>2, <2>1, <2>2
    <3>3. \A i \in 1 .. n : stream'[PayloadTag(u)][i].call = <<u, i>>
      BY <1>2, <2>1, TagFacts
    <3> QED  BY <3>1, <3>2, <3>3
  <2>3. CASE u # t
    BY <1>0, <1>2, <2>1, <2>3, TagFacts
  <2> QED  BY <2>2, <2>3
<1>4. Posted' /\ Queued'
  BY <1>0 DEF Posted, Queued
<1>5. Matched'
  <2>1. \A u \in Tags : stream'[MetadataTag(u)] = stream[MetadataTag(u)]
    BY <1>2, TagFacts
  <2> QED  BY <1>0, <2>1 DEF Matched
<1> QED  BY <1>3, <1>4, <1>5

\* irecv(): the receive of a header is posted and a job queued.
LEMMA IrecvStep ==
    ASSUME OneAtATime, IndInv, NEW t \in Tags, Irecv(t)
    PROVE  Sent' /\ Posted' /\ Matched' /\ Queued'
<1>0. /\ posted \in [PhysicalTags -> Nat]
      /\ receives \in [Tags -> Seq(Record)]
      /\ queue \in Seq(Tags \X Nat)
      /\ Sent /\ Posted /\ Matched /\ Queued
      /\ UNCHANGED <<stream, sent, sender>>
      /\ posted' = [posted EXCEPT ![MetadataTag(t)] = @ + 1]
  BY Typed DEF IndInv, Irecv, Post
<1>1. PICK n \in Nat : n = Len(receives[t])
  BY <1>0, LenProperties
<1>2. \A k \in 1 .. n : receives[t][k].phase = "done"
  BY <1>1, NoneOpen DEF Irecv, IndInv
<1>3. PICK r \in Record :
          /\ r.phase = "queued" /\ r.at = n + 1
          /\ receives' = [receives EXCEPT ![t] = Append(@, r)]
  <2>1. posted[MetadataTag(t)] = n
    BY <1>0, <1>1 DEF Posted
  <2>2. [phase |-> "queued", at |-> n + 1,
         packet |-> Rejected, payload |-> <<>>] \in Record
    BY DEF Record, Packets, Phases
  <2> QED  BY <2>1, <2>2 DEF Irecv
<1>4. /\ \A u \in Tags : u # t => receives'[u] = receives[u]
      /\ Len(receives'[t]) = n + 1 /\ receives'[t][n + 1] = r
      /\ \A u \in Tags : \A k \in 1 .. Len(receives[u]) :
             k \in 1 .. Len(receives'[u]) /\ receives'[u][k] = receives[u][k]
  BY <1>0, <1>1, <1>3, AppendKeeps
<1>5. Sent'
  BY <1>0 DEF Sent
<1>6. Posted'
  <2>1. posted[PayloadTag(t)] = n /\ posted[MetadataTag(t)] = n
    <3>1. CASE n = 0
      <4>1. receives[t] = <<>>
        BY <1>0, <1>1, <3>1, EmptySeq
      <4> QED  BY <1>0, <1>1, <3>1, <4>1 DEF Posted
    <3>2. CASE n # 0
      <4>1. n \in 1 .. n
        BY <3>2
      <4> QED  BY <1>0, <1>1, <1>2, <4>1 DEF Posted
    <3> QED  BY <3>1, <3>2
  <2>2. /\ \A u \in Tags : posted'[PayloadTag(u)] = posted[PayloadTag(u)]
        /\ \A u \in Tags : u # t => posted'[MetadataTag(u)] = posted[MetadataTag(u)]
        /\ posted'[MetadataTag(t)] = n + 1
    BY <1>0, <2>1, TagFacts
  <2>3. ASSUME NEW u \in Tags, u # t
        PROVE  /\ posted'[MetadataTag(u)] = Len(receives'[u])
               /\ receives'[u] = <<>> => posted'[PayloadTag(u)] = 0
               /\ \A k \in 1 .. Len(receives'[u]) :
                      /\ k # Len(receives'[u]) => receives'[u][k].phase = "done"
                      /\ k = Len(receives'[u]) =>
                             posted'[PayloadTag(u)] =
                                 IF receives'[u][k].phase \in {"payload", "done"}
                                 THEN k ELSE k - 1
    <3>1. receives'[u] = receives[u]
      BY <1>4, <2>3
    <3> QED  BY <1>0, <2>2, <2>3, <3>1 DEF Posted
  <2>4. ASSUME NEW k \in 1 .. n + 1
        PROVE  /\ k # n + 1 => receives'[t][k].phase = "done"
               /\ k = n + 1 => posted'[PayloadTag(t)] =
                                   IF receives'[t][k].phase \in {"payload", "done"}
                                   THEN k ELSE k - 1
    <3>1. CASE k = n + 1
      <4>1. receives'[t][k].phase \notin {"payload", "done"} /\ k - 1 = n
        BY <1>3, <1>4, <3>1
      <4> QED  BY <2>1, <2>2, <3>1, <4>1
    <3>2. CASE k \in 1 .. n
      BY <1>1, <1>2, <1>4, <3>2
    <3> QED  BY <3>1, <3>2
  <2>5. receives'[t] # <<>>
    <3>1. Len(<<>>) # n + 1
      OBVIOUS
    <3> QED  BY <1>4, <3>1
  <2> QED  BY <1>4, <2>2, <2>3, <2>4, <2>5 DEF Posted
<1>7. Matched'
  <2> DEFINE M(u, k) ==
        /\ receives'[u][k].phase \in {"queued", "header", "payload"} =>
               receives'[u][k].at = k
        /\ receives'[u][k].phase \in {"payload", "done"} =>
               /\ k \in 1 .. Len(stream[MetadataTag(u)])
               /\ receives'[u][k].packet =
                      from_values(stream[MetadataTag(u)][k].words)
        /\ receives'[u][k].phase = "done" => receives'[u][k].payload = <<u, k>>
  <2>1. ASSUME NEW u \in Tags, NEW k \in 1 .. Len(receives[u])
        PROVE  M(u, k)
    <3>1. receives'[u][k] = receives[u][k]
      BY <1>4
    <3> QED  BY <1>0, <3>1 DEF Matched
  <2>2. M(t, n + 1)
    BY <1>3, <1>4
  <2> HIDE DEF M
  <2>3. ASSUME NEW u \in Tags, NEW k \in 1 .. Len(receives'[u])
        PROVE  M(u, k)
    <3>1. CASE u = t
      <4>1. k \in 1 .. n + 1
        BY <1>4, <3>1
      <4>2. k = n + 1 \/ k \in 1 .. n
        BY <4>1
      <4> QED  BY <1>1, <2>1, <2>2, <3>1, <4>2
    <3>2. CASE u # t
      BY <1>4, <2>1, <3>2
    <3> QED  BY <3>1, <3>2
  <2> QED  BY <1>0, <2>3 DEF Matched, M
<1>8. Queued'
  <2>1. PICK l \in Nat : l = Len(queue)
    BY <1>0, LenProperties
  <2>2. queue' = Append(queue, <<t, n + 1>>)
    BY <1>1 DEF Irecv
  <2>3. /\ Len(queue') = l + 1 /\ queue'[l + 1] = <<t, n + 1>>
        /\ \A i \in 1 .. l : queue'[i] = queue[i]
    <3>1. <<t, n + 1>> \in Tags \X Nat
      OBVIOUS
    <3> QED  BY <1>0, <2>1, <2>2, <3>1, AppendProperties
  <2>4. ASSUME NEW i \in 1 .. l
        PROVE  /\ queue'[i][2] \in 1 .. Len(receives'[queue'[i][1]])
               /\ receives'[queue'[i][1]][queue'[i][2]].phase = "queued"
               /\ queue'[i] # <<t, n + 1>>
    <3>1. PICK u \in Tags, k \in Nat : queue[i] = <<u, k>>
      <4>1. queue[i] \in Tags \X Nat
        BY <1>0, <2>1, ElementOfSeq
      <4> QED  BY <4>1
    <3>2. k \in 1 .. Len(receives[u]) /\ receives[u][k].phase = "queued"
      BY <1>0, <2>1, <3>1 DEF Queued
    <3>3. u # t \/ k # n + 1
      <4>1. ~(n + 1 \in 1 .. n)
        OBVIOUS
      <4> QED  BY <1>1, <3>2, <4>1
    <3> QED  BY <1>4, <2>3, <3>1, <3>2, <3>3
  <2>5. /\ queue'[l + 1][2] \in 1 .. Len(receives'[queue'[l + 1][1]])
        /\ receives'[queue'[l + 1][1]][queue'[l + 1][2]].phase = "queued"
    <3>1. queue'[l + 1][1] = t /\ queue'[l + 1][2] = n + 1 /\ n + 1 \in 1 .. n + 1
      BY <2>3
    <3> QED  BY <1>3, <1>4, <3>1
  <2>6. \A i \in 1 .. l + 1 : i \in 1 .. l \/ i = l + 1
    OBVIOUS
  <2>7. \A i, j \in 1 .. l : queue'[i] = queue'[j] => i = j
    BY <1>0, <2>1, <2>3 DEF Queued
  <2> QED  BY <2>3, <2>4, <2>5, <2>6, <2>7 DEF Queued
<1> QED  BY <1>5, <1>6, <1>7, <1>8

\* A job of the queue is a receive that waits for a thread.
LEMMA Job ==
    ASSUME IndInv, NEW i \in 1 .. Len(queue)
    PROVE  \E u \in Tags : \E k \in 1 .. Len(receives[u]) :
               queue[i] = <<u, k>> /\ receives[u][k].phase = "queued"
<1>0. queue \in Seq(Tags \X Nat) /\ Queued
  BY Typed DEF IndInv
<1>1. PICK u \in Tags, k \in Nat : queue[i] = <<u, k>>
  <2>1. queue[i] \in Tags \X Nat
    BY <1>0, ElementOfSeq
  <2> QED  BY <2>1
<1>2. k \in 1 .. Len(receives[u]) /\ receives[u][k].phase = "queued"
  BY <1>0, <1>1 DEF Queued
<1> QED  BY <1>1, <1>2

\* A receive under way is the last of its tag.
LEMMA OpenIsLast ==
    ASSUME IndInv, NEW t \in Tags, NEW k \in 1 .. Len(receives[t]),
           receives[t][k].phase \in Open
    PROVE  /\ k = Len(receives[t]) /\ receives[t][k].at = k
           /\ posted[PayloadTag(t)] =
                  IF receives[t][k].phase = "payload" THEN k ELSE k - 1
BY DEF IndInv, Posted, Matched, Open

(***************************************************************************)
(* A step that changes the receive k of t to r keeps what is known of all   *)
(* others; what has to be shown of r is what the invariant says of it.      *)
(***************************************************************************)
LEMMA ReceiveStep ==
    ASSUME IndInv, NEW t \in Tags, NEW k \in 1 .. Len(receives[t]),
           receives[t][k].phase \in Open, NEW r \in Record,
           receives' = [receives EXCEPT ![t][k] = r],
           \A u \in Tags : posted'[MetadataTag(u)] = posted[MetadataTag(u)],
           \A u \in Tags : u # t => posted'[PayloadTag(u)] = posted[PayloadTag(u)],
           posted'[PayloadTag(t)] =
               IF r.phase \in {"payload", "done"} THEN k ELSE k - 1,
           UNCHANGED <<stream, sent>>,
           r.phase \in {"queued", "header", "payload"} => r.at = k,
           r.phase \in {"payload", "done"} =>
               /\ k \in 1 .. Len(stream[MetadataTag(t)])
               /\ r.packet = from_values(stream[MetadataTag(t)][k].words),
           r.phase = "done" => r.payload = <<t, k>>
    PROVE  /\ Sent' /\ Posted' /\ Matched'
           /\ \A u \in Tags : Len(receives'[u]) = Len(receives[u])
           /\ \A u \in Tags : \A j \in 1 .. Len(receives[u]) :
                  <<u, j>> # <<t, k>> => receives'[u][j] = receives[u][j]
<1>0. receives \in [Tags -> Seq(Record)] /\ Sent /\ Posted /\ Matched
  BY Typed DEF IndInv
<1>1. k \in Nat
  OBVIOUS
<1>2. /\ \A u \in Tags : Len(receives'[u]) = Len(receives[u])
      /\ \A u \in Tags : \A j \in 1 .. Len(receives[u]) :
             receives'[u][j] = IF u = t /\ j = k THEN r ELSE receives[u][j]
  BY <1>0, <1>1, ReceiveChanged
<1>3. k = Len(receives[t])
  BY OpenIsLast
<1>4. Sent'
  BY <1>0 DEF Sent
<1>5. Posted'
  <2>1. ASSUME NEW u \in Tags, NEW j \in 1 .. Len(receives[u])
        PROVE  /\ j # Len(receives[u]) => receives'[u][j].phase = "done"
               /\ j = Len(receives[u]) =>
                      posted'[PayloadTag(u)] =
                          IF receives'[u][j].phase \in {"payload", "done"}
                          THEN j ELSE j - 1
    <3>1. CASE u = t /\ j = k
      BY <1>2, <1>3, <3>1
    <3>2. CASE u = t /\ j # k
      BY <1>0, <1>2, <1>3, <3>2 DEF Posted
    <3>3. CASE u # t
      BY <1>0, <1>2, <3>3 DEF Posted
    <3> QED  BY <3>1, <3>2, <3>3
  <2>2. ASSUME NEW u \in Tags, receives'[u] = <<>>
        PROVE  posted'[PayloadTag(u)] = 0
    <3>1. Len(receives[u]) = 0
      <4>1. Len(<<>>) = 0
        OBVIOUS
      <4> QED  BY <1>2, <2>2, <4>1
    <3>2. receives[u] = <<>>
      BY <1>0, <3>1, EmptySeq
    <3>3. u # t
      BY <3>1
    <3> QED  BY <1>0, <3>2, <3>3 DEF Posted
  <2>3. \A u \in Tags : posted'[MetadataTag(u)] = Len(receives'[u])
    BY <1>0, <1>2 DEF Posted
  <2> QED  BY <1>2, <2>1, <2>2, <2>3 DEF Posted
<1>6. Matched'
  <2> SUFFICES ASSUME NEW u \in Tags, NEW j \in 1 .. Len(receives[u])
               PROVE  /\ receives'[u][j].phase \in {"queued", "header", "payload"} =>
                             receives'[u][j].at = j
                      /\ receives'[u][j].phase \in {"payload", "done"} =>
                             /\ j \in 1 .. Len(stream[MetadataTag(u)])
                             /\ receives'[u][j].packet =
                                    from_values(stream[MetadataTag(u)][j].words)
                      /\ receives'[u][j].phase = "done" =>
                             receives'[u][j].payload = <<u, j>>
    BY <1>2 DEF Matched
  <2>1. CASE u = t /\ j = k
    BY <1>2, <2>1
  <2>2. CASE ~(u = t /\ j = k)
    <3>1. receives'[u][j] = receives[u][j]
      BY <1>2, <2>2
    <3> QED  BY <1>0, <3>1 DEF Matched
  <2> QED  BY <2>1, <2>2
<1> QED  BY <1>2, <1>4, <1>5, <1>6

\* A thread of the pool takes a job.
LEMMA TakeStep ==
    ASSUME IndInv, TakeJob
    PROVE  Sent' /\ Posted' /\ Matched' /\ Queued'
<1>0. /\ receives \in [Tags -> Seq(Record)]
      /\ queue \in Seq(Tags \X Nat) /\ queue # <<>>
      /\ queue' = Tail(queue)
      /\ UNCHANGED <<stream, posted, sent>>
  BY Typed DEF IndInv, TakeJob
<1>1. PICK l \in Nat : l = Len(queue) /\ l # 0
  BY <1>0, LenProperties, EmptySeq
<1>2. PICK t \in Tags : \E k \in 1 .. Len(receives[t]) :
          queue[1] = <<t, k>> /\ receives[t][k].phase = "queued"
  <2>1. 1 \in 1 .. Len(queue)
    BY <1>1
  <2> QED  BY <2>1, Job
<1>3. PICK k \in 1 .. Len(receives[t]) :
          queue[1] = <<t, k>> /\ receives[t][k].phase = "queued"
  BY <1>2
<1>4. PICK r \in Record : /\ r.phase = "header" /\ r.at = receives[t][k].at
                          /\ receives' = [receives EXCEPT ![t][k] = r]
  <2>1. receives[t][k] \in Record
    BY <1>0, ElementOfSeq
  <2>2. PICK r : r = [receives[t][k] EXCEPT !.phase = "header"]
    OBVIOUS
  <2>3. r \in Record /\ r.phase = "header" /\ r.at = receives[t][k].at
    BY <2>1, <2>2 DEF Record, Phases
  <2>4. PICK c : c = Head(queue) /\ c[1] = t /\ c[2] = k
    BY <1>0, <1>3
  <2>5. receives' = [receives EXCEPT ![c[1]][c[2]].phase = "header"]
    BY <2>4, Zenon DEF TakeJob
  <2>6. receives' = [receives EXCEPT ![t][k] = r]
    BY <2>2, <2>4, <2>5
  <2> QED  BY <2>3, <2>6
<1>5. /\ receives[t][k].phase \in Open /\ receives[t][k].at = k
      /\ posted[PayloadTag(t)] = k - 1
  BY <1>3, OpenIsLast DEF Open
<1>6. /\ Sent' /\ Posted' /\ Matched'
      /\ \A u \in Tags : Len(receives'[u]) = Len(receives[u])
      /\ \A u \in Tags : \A j \in 1 .. Len(receives[u]) :
             <<u, j>> # <<t, k>> => receives'[u][j] = receives[u][j]
  <2>1. posted'[PayloadTag(t)] =
            IF r.phase \in {"payload", "done"} THEN k ELSE k - 1
    BY <1>0, <1>4, <1>5
  <2>2. /\ \A u \in Tags : posted'[MetadataTag(u)] = posted[MetadataTag(u)]
        /\ \A u \in Tags : u # t => posted'[PayloadTag(u)] = posted[PayloadTag(u)]
    BY <1>0
  <2>3. UNCHANGED <<stream, sent>> /\ r.at = k
    BY <1>0, <1>4, <1>5
  <2>4. r.phase \notin {"payload", "done"} /\ r.phase # "done"
    BY <1>4
  <2> QED  BY <1>4, <1>5, <2>1, <2>2, <2>3, <2>4, ReceiveStep
<1>7. Queued'
  <2>1. /\ Len(queue') = l - 1
        /\ \A i \in 1 .. l - 1 : queue'[i] = queue[i + 1]
    BY <1>0, <1>1, HeadTailProperties
  <2>2. \A i \in 1 .. l - 1 : i + 1 \in 1 .. l /\ i + 1 # 1
    BY <1>1
  <2>3. \A i, j \in 1 .. l : queue[i] = queue[j] => i = j
    BY <1>1 DEF IndInv, Queued
  <2>4. ASSUME NEW i \in 1 .. l - 1
        PROVE  /\ queue'[i][2] \in 1 .. Len(receives'[queue'[i][1]])
               /\ receives'[queue'[i][1]][queue'[i][2]].phase = "queued"
    <3>1. PICK u \in Tags : \E j \in 1 .. Len(receives[u]) :
              queue[i + 1] = <<u, j>> /\ receives[u][j].phase = "queued"
      BY <1>1, <2>2, Job
    <3>2. PICK j \in 1 .. Len(receives[u]) :
              queue[i + 1] = <<u, j>> /\ receives[u][j].phase = "queued"
      BY <3>1
    <3>3. <<u, j>> # <<t, k>>
      <4>1. 1 \in 1 .. l
        BY <1>1
      <4> QED  BY <1>3, <2>2, <2>3, <3>2, <4>1
    <3>4. queue'[i] = <<u, j>>
      BY <2>1, <3>2
    <3> QED  BY <1>6, <3>2, <3>3, <3>4
  <2>5. ASSUME NEW i \in 1 .. l - 1, NEW j \in 1 .. l - 1, queue'[i] = queue'[j]
        PROVE  i = j
    <3>1. i + 1 = j + 1
      BY <2>1, <2>2, <2>3, <2>5
    <3> QED  BY <3>1
  <2> QED  BY <2>1, <2>4, <2>5 DEF Queued
<1> QED  BY <1>6, <1>7

\* A receive that a thread is at leaves the queue alone.
LEMMA QueueKept ==
    ASSUME IndInv, NEW t \in Tags, NEW k \in 1 .. Len(receives[t]),
           receives[t][k].phase # "queued", UNCHANGED queue,
           \A u \in Tags : Len(receives'[u]) = Len(receives[u]),
           \A u \in Tags : \A j \in 1 .. Len(receives[u]) :
               <<u, j>> # <<t, k>> => receives'[u][j] = receives[u][j]
    PROVE  Queued'
<1>1. ASSUME NEW i \in 1 .. Len(queue)
      PROVE  /\ queue'[i][2] \in 1 .. Len(receives'[queue'[i][1]])
             /\ receives'[queue'[i][1]][queue'[i][2]].phase = "queued"
  <2>1. PICK u \in Tags : \E j \in 1 .. Len(receives[u]) :
            queue[i] = <<u, j>> /\ receives[u][j].phase = "queued"
    BY Job
  <2>2. PICK j \in 1 .. Len(receives[u]) :
            queue[i] = <<u, j>> /\ receives[u][j].phase = "queued"
    BY <2>1
  <2>3. <<u, j>> # <<t, k>>
    BY <2>2
  <2> QED  BY <2>2, <2>3
<1>2. \A i, j \in 1 .. Len(queue) : queue'[i] = queue'[j] => i = j
  BY DEF IndInv, Queued
<1> QED  BY <1>1, <1>2 DEF Queued

\* _finish() reads the header.
LEMMA HeaderStep ==
    ASSUME IndInv, NEW t \in Tags, NEW k \in DOMAIN receives[t], ReadHeader(t, k)
    PROVE  Sent' /\ Posted' /\ Matched' /\ Queued'
<1>0. /\ stream \in [PhysicalTags -> Seq(Messages)]
      /\ posted \in [PhysicalTags -> Nat]
      /\ receives \in [Tags -> Seq(Record)]
      /\ UNCHANGED <<stream, sent, sender, queue>>
  BY Typed DEF IndInv, ReadHeader
<1>1. k \in 1 .. Len(receives[t]) /\ k \in Nat /\ receives[t][k] \in Record
  BY <1>0, LenProperties, ElementOfSeq
<1>2. /\ receives[t][k].phase = "header" /\ receives[t][k].phase \in Open
      /\ receives[t][k].at = k /\ posted[PayloadTag(t)] = k - 1
  BY <1>1, OpenIsLast DEF ReadHeader, Open
<1>3. k \in 1 .. Len(stream[MetadataTag(t)])
  <2>1. k \in DOMAIN stream[MetadataTag(t)]
    BY <1>2 DEF ReadHeader
  <2>2. stream[MetadataTag(t)] \in Seq(Messages)
    BY <1>0, TagFacts
  <2> QED  BY <2>1, <2>2, LenProperties
<1>4. PICK q : q = from_values(stream[MetadataTag(t)][k].words) /\ q \in Packets
  <2>1. stream[MetadataTag(t)][k] \in Messages
    BY <1>0, <1>3, TagFacts, ElementOfSeq
  <2> QED  BY <2>1, MessageDecodes
<1>5. PICK r \in Record :
          /\ receives' = [receives EXCEPT ![t][k] = r]
          /\ \/ /\ r.phase = "payload" /\ r.packet = q /\ r.at = k
                /\ posted' = [posted EXCEPT ![PayloadTag(t)] = @ + 1]
             \/ r.phase = "failed" /\ UNCHANGED posted
  <2>1. PICK a : a = receives[t][k] /\ a \in Record
    BY <1>1
  <2>2. CASE Accepts(t, q)
    <3>1. PICK r : r = [a EXCEPT !.phase = "payload", !.packet = q, !.at = k]
      OBVIOUS
    <3>2. r \in Record /\ r.phase = "payload" /\ r.packet = q /\ r.at = k
      BY <1>1, <1>4, <2>1, <3>1 DEF Record, Phases
    <3>3. posted[PayloadTag(t)] + 1 = k
      BY <1>1, <1>2
    <3>4. /\ receives' = [receives EXCEPT ![t][k] = r]
          /\ posted' = [posted EXCEPT ![PayloadTag(t)] = @ + 1]
      BY <1>2, <1>4, <2>1, <2>2, <3>1, <3>3 DEF ReadHeader, Post
    <3> QED  BY <3>2, <3>4
  <2>3. CASE ~Accepts(t, q)
    <3>1. PICK r : r = [a EXCEPT !.phase = "failed"]
      OBVIOUS
    <3>2. r \in Record /\ r.phase = "failed"
      BY <2>1, <3>1 DEF Record, Phases
    <3>3. receives' = [receives EXCEPT ![t][k] = r] /\ UNCHANGED posted
      BY <1>2, <1>4, <2>1, <2>3, <3>1 DEF ReadHeader
    <3> QED  BY <3>2, <3>3
  <2> QED  BY <2>2, <2>3
<1>6. /\ posted'[PayloadTag(t)] =
            IF r.phase \in {"payload", "done"} THEN k ELSE k - 1
      /\ \A u \in Tags : posted'[MetadataTag(u)] = posted[MetadataTag(u)]
      /\ \A u \in Tags : u # t => posted'[PayloadTag(u)] = posted[PayloadTag(u)]
  BY <1>0, <1>1, <1>2, <1>5, TagFacts
<1>7. /\ UNCHANGED <<stream, sent>>
      /\ r.phase \in {"queued", "header", "payload"} => r.at = k
      /\ r.phase \in {"payload", "done"} => r.packet = q
      /\ r.phase # "done"
  BY <1>0, <1>5
<1>8. /\ Sent' /\ Posted' /\ Matched'
      /\ \A u \in Tags : Len(receives'[u]) = Len(receives[u])
      /\ \A u \in Tags : \A j \in 1 .. Len(receives[u]) :
             <<u, j>> # <<t, k>> => receives'[u][j] = receives[u][j]
  BY <1>1, <1>2, <1>3, <1>4, <1>5, <1>6, <1>7, ReceiveStep
<1>9. Queued'
  BY <1>0, <1>1, <1>2, <1>8, QueueKept
<1> QED  BY <1>8, <1>9

\* _finish() reads the payload.
LEMMA PayloadArrives ==
    ASSUME IndInv, NEW t \in Tags, NEW k \in DOMAIN receives[t], ReadPayload(t, k)
    PROVE  Sent' /\ Posted' /\ Matched' /\ Queued'
<1>0. /\ stream \in [PhysicalTags -> Seq(Messages)]
      /\ posted \in [PhysicalTags -> Nat]
      /\ receives \in [Tags -> Seq(Record)]
      /\ UNCHANGED <<stream, posted, sent, sender, queue>>
  BY Typed DEF IndInv, ReadPayload
<1>1. k \in 1 .. Len(receives[t]) /\ k \in Nat /\ receives[t][k] \in Record
  BY <1>0, LenProperties, ElementOfSeq
<1>2. /\ receives[t][k].phase = "payload" /\ receives[t][k].phase \in Open
      /\ receives[t][k].at = k /\ posted[PayloadTag(t)] = k
  BY <1>1, OpenIsLast DEF ReadPayload, Open
<1>3. stream[PayloadTag(t)][k].call = <<t, k>>
  <2>1. k \in DOMAIN stream[PayloadTag(t)]
    BY <1>2 DEF ReadPayload
  <2>2. stream[PayloadTag(t)] \in Seq(Messages)
    BY <1>0, TagFacts
  <2>3. k \in 1 .. Len(stream[PayloadTag(t)])
    BY <2>1, <2>2, LenProperties
  <2> QED  BY <2>3 DEF IndInv, Sent
<1>4. /\ k \in 1 .. Len(stream[MetadataTag(t)])
      /\ receives[t][k].packet = from_values(stream[MetadataTag(t)][k].words)
  BY <1>1, <1>2 DEF IndInv, Matched
<1>5. PICK r \in Record :
          /\ receives' = [receives EXCEPT ![t][k] = r]
          /\ r.phase = "done" /\ r.packet = receives[t][k].packet
          /\ r.payload = <<t, k>>
  <2>1. PICK a : a = receives[t][k] /\ a \in Record
    BY <1>1
  <2>2. PICK r : r = [a EXCEPT !.phase = "done", !.payload = <<t, k>>]
    OBVIOUS
  <2>3. r \in Record /\ r.phase = "done" /\ r.packet = a.packet /\ r.payload = <<t, k>>
    BY <1>1, <2>1, <2>2 DEF Record, Phases
  <2>4. receives' = [receives EXCEPT ![t][k] = r]
    BY <1>2, <1>3, <2>1, <2>2 DEF ReadPayload
  <2> QED  BY <2>1, <2>3, <2>4
<1>6. /\ posted'[PayloadTag(t)] =
            IF r.phase \in {"payload", "done"} THEN k ELSE k - 1
      /\ \A u \in Tags : posted'[MetadataTag(u)] = posted[MetadataTag(u)]
      /\ \A u \in Tags : u # t => posted'[PayloadTag(u)] = posted[PayloadTag(u)]
  BY <1>0, <1>2, <1>5
<1>7. UNCHANGED <<stream, sent>> /\ r.phase \notin {"queued", "header", "payload"}
  BY <1>0, <1>5
<1>8. /\ Sent' /\ Posted' /\ Matched'
      /\ \A u \in Tags : Len(receives'[u]) = Len(receives[u])
      /\ \A u \in Tags : \A j \in 1 .. Len(receives[u]) :
             <<u, j>> # <<t, k>> => receives'[u][j] = receives[u][j]
  <2>1. /\ r.packet = from_values(stream[MetadataTag(t)][k].words)
        /\ r.payload = <<t, k>> /\ r.phase = "done"
    BY <1>4, <1>5
  <2>2. receives' = [receives EXCEPT ![t][k] = r]
    BY <1>5
  <2> QED  BY <1>1, <1>2, <1>4, <1>6, <1>7, <2>1, <2>2, ReceiveStep
<1>9. Queued'
  BY <1>0, <1>1, <1>2, <1>8, QueueKept
<1> QED  BY <1>8, <1>9

\* Every step keeps the invariant.
LEMMA IndInvStep ==
    ASSUME OneAtATime, IndInv, [Next]_vars
    PROVE  IndInv'
<1>0. TypeOK'
  BY TypeStep DEF IndInv
<1>1. ASSUME NEW t \in Tags, NEW k \in 1 .. sent[t], StartWait(t, k) \/ WaitReturns(t, k)
      PROVE  IndInv'
  <2>1. UNCHANGED <<stream, posted, sent, receives, queue>>
    BY <1>1 DEF StartWait, WaitReturns
  <2>2. Sent' /\ Queued'
    BY <2>1 DEF IndInv, Sent, Queued
  <2>3. Posted'
    BY <2>1 DEF IndInv, Posted
  <2>4. Matched'
    BY <2>1 DEF IndInv, Matched
  <2> QED  BY <1>0, <2>2, <2>3, <2>4 DEF IndInv
<1>2. ASSUME UNCHANGED vars
      PROVE  IndInv'
  BY <1>0, <1>2 DEF vars, IndInv, Sent, Posted, Matched, Queued
<1>3. ASSUME Sent' /\ Posted' /\ Matched' /\ Queued'
      PROVE  IndInv'
  BY <1>0, <1>3 DEF IndInv
<1> QED
  BY <1>1, <1>2, <1>3, MetadataStep, PayloadStep, IrecvStep, TakeStep,
     HeaderStep, PayloadArrives DEF Next, SenderStep, Finish

(***************************************************************************)
(* A caller that has one receive at a time on a logical tag gets whole      *)
(* tensors: the k-th receive of a tag decodes the k-th payload with the     *)
(* k-th header, for any number of tags, tensors and pool threads and        *)
(* whatever headers a peer of another version sends.                        *)
(***************************************************************************)
THEOREM ReceivesMatchSends == OneAtATime => (Spec => []TensorsArriveWhole)
<1>1. IndInv => TensorsArriveWhole
  <2> SUFFICES ASSUME IndInv, NEW c \in Receives({"done"})
               PROVE  /\ receives[c[1]][c[2]].payload = c
                      /\ receives[c[1]][c[2]].packet =
                             from_values(stream[MetadataTag(c[1])][c[2]].words)
    BY DEF TensorsArriveWhole
  <2>1. PICK t \in Tags : c \in {t} \X DOMAIN receives[t]
    BY DEF Receives
  <2>2. PICK k \in DOMAIN receives[t] : c = <<t, k>>
    BY <2>1
  <2>3. c[1] = t /\ c[2] = k /\ receives[t][k].phase = "done"
    BY <2>2 DEF Receives
  <2>4. receives[t] \in Seq(Record)
    BY Typed DEF IndInv
  <2>5. k \in 1 .. Len(receives[t])
    BY <2>4, LenProperties
  <2> QED  BY <2>2, <2>3, <2>5 DEF IndInv, Matched
<1>2. SUFFICES ASSUME OneAtATime
               PROVE  Spec => []TensorsArriveWhole
  OBVIOUS
<1>3. IndInv /\ [Next]_vars => IndInv'
  BY <1>2, IndInvStep
<1> QED  BY <1>1, <1>3, InitIndInv, PTL DEF Spec
=============================================================================
