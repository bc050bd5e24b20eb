------------------------------- MODULE Packets -------------------------------
(***************************************************************************)
(* core/metadata.py and the size arithmetic of backends/cuda/codec.py: what *)
(* a quantized tensor looks like on the wire.                               *)
(*                                                                          *)
(* A tensor travels as a header of 24 int64 words (MetadataPacket) and a    *)
(* payload of payload_nbytes() bytes.  The words are kept, position by      *)
(* position; names of dtypes and quantizations are strings.  Python's       *)
(* isinstance checks have no counterpart: a word is an integer.             *)
(***************************************************************************)
EXTENDS Integers, Sequences, FiniteSets

DTypes == <<"fp16", "bf16", "fp32">>                          \* _DTYPE_TO_CODE
QuantTypes == <<"linear", "normal", "uniform", "e3m0", "e2m1">>

Version == 1            \* METADATA_PROTOCOL_VERSION
Words == 24             \* METADATA_PACKET_WORDS
MaxNdim == 8            \* METADATA_PACKET_MAX_NDIM
DimsOffset == 16        \* words before the dimensions; 11 .. 15 are reserved

CeilDiv(a, b) == (a + b - 1) \div b

AlignUp(a, b) == CeilDiv(a, b) * b

DTypeBytes(dtype) == IF dtype = "fp32" THEN 4 ELSE 2

\* One scale of the tensor's dtype and group_size values for every group.
payload_nbytes(numel, dtype, wire) ==
    CeilDiv(numel, wire.group_size)
        * ((wire.group_size * wire.bit) \div 8 + DTypeBytes(dtype))

logical_numel(shape) ==
    LET product[i \in 0 .. Len(shape)] ==
            IF i = 0 THEN 1 ELSE product[i - 1] * shape[i]
    IN  product[Len(shape)]

Shape(s) == Len(s) <= MaxNdim /\ \A i \in DOMAIN s : s[i] >= 0

QuantizedWire(w) == w.bit \in {4, 8} /\ w.group_size \in {16, 32, 64}

\* MetadataPacket.__post_init__ on values that have their types.
Packet(p) ==
    /\ Shape(p.shape)
    /\ QuantizedWire(p.wire)
    /\ \E c \in DOMAIN QuantTypes : QuantTypes[c] = p.wire.quant_type
    /\ p.payload_numel >= 0
    /\ p.layout_generation >= 0
    /\ p.flags >= 0

to_values(p) ==
    <<Version, Len(p.shape), CHOOSE c \in DOMAIN DTypes : DTypes[c] = p.dtype,
      p.payload_numel, p.wire.bit, p.wire.group_size,
      CHOOSE c \in DOMAIN QuantTypes : QuantTypes[c] = p.wire.quant_type,
      IF p.wire.compact THEN 1 ELSE 0,
      p.layout_generation, p.flags, logical_numel(p.shape)>>
    \o [i \in 1 .. DimsOffset - 11 |-> 0]
    \o p.shape
    \o [i \in 1 .. Words - DimsOffset - Len(p.shape) |-> 0]

Rejected == [rejected |-> TRUE]

\* The word at a position that the source counts from zero.
Word(v, i) == v[i + 1]

Dims(v) == SubSeq(v, DimsOffset + 1, DimsOffset + Word(v, 1))

\* The packet that the words stand for, when from_values() can build one.
Decoded(v) ==
    [shape |-> Dims(v), dtype |-> DTypes[Word(v, 2)],
     payload_numel |-> Word(v, 3),
     wire |-> [bit |-> Word(v, 4), group_size |-> Word(v, 5),
               quant_type |-> QuantTypes[Word(v, 6)],
               compact |-> Word(v, 7) = 1],
     layout_generation |-> Word(v, 8), flags |-> Word(v, 9)]

\* Mutant: the words past the dimensions are not looked at.
Readable_Trailing(v) ==
    /\ Len(v) = Words
    /\ Word(v, 0) = Version
    /\ Word(v, 1) \in 0 .. MaxNdim
    /\ Word(v, 2) \in DOMAIN DTypes
    /\ Word(v, 6) \in DOMAIN QuantTypes
    /\ Word(v, 7) \in {0, 1}

\* The checks before the packet is built.
Readable(v) ==
    /\ Len(v) = Words
    /\ Word(v, 0) = Version
    /\ Word(v, 1) \in 0 .. MaxNdim
    /\ \A i \in 11 .. DimsOffset - 1 : Word(v, i) = 0
    /\ \A i \in DimsOffset + Word(v, 1) .. Words - 1 : Word(v, i) = 0
    /\ Word(v, 2) \in DOMAIN DTypes
    /\ Word(v, 6) \in DOMAIN QuantTypes
    /\ Word(v, 7) \in {0, 1}

from_values(v) ==
    IF /\ Readable(v)
       /\ Packet(Decoded(v))
       /\ logical_numel(Dims(v)) = Word(v, 10)
    THEN Decoded(v)
    ELSE Rejected
=============================================================================
