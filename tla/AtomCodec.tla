----------------------------- MODULE AtomCodec -----------------------------
(***************************************************************************)
(* atom.cpp: the atoms of the TCG stream, as values and as bytes.  Words of *)
(* 64 bits are sequences of eight bytes, most significant first, so nothing *)
(* is lost to the width of TLC's integers.                                  *)
(***************************************************************************)
EXTENDS Integers, SequencesExt

Byte == 0..255
Raw == [1..8 -> Byte]
Fill(b, n) == [i \in 1..n |-> b]
Zero == Fill(0, 8)
Low(w, n) == SubSeq(w, 9 - n, 8)    \* the n least significant bytes
Negative(w) == w[1] >= 128

\* An atom: int_skip counts the leading bytes that are not encoded.
Atom(type, enc, skip, val, bytes) ==
    [type |-> type, enc |-> enc, skip |-> skip, val |-> val, bytes |-> bytes]

Empty == Atom("EMPTY", "NONE", 0, Zero, << >>)

\* Leading bytes that new_int drops: the sign must not change.
DroppedInt(w) ==
    LET fill == IF Negative(w) THEN 255 ELSE 0
    IN  Max({s \in 0..7 : \A i \in 1..s : w[i] = fill /\ (w[i + 1] >= 128) = Negative(w)})

DroppedUint(w) == Max({s \in 0..8 : \A i \in 1..s : w[i] = 0})

\* Values from -32 to 31.
TinyInt(w) == \/ w \in {Fill(0, 7) \o <<b>> : b \in 0..31}
              \/ w \in {Fill(255, 7) \o <<b>> : b \in 224..255}

TinyUint(w) == w \in {Fill(0, 7) \o <<b>> : b \in 0..63}

new_int(w) ==
    IF TinyInt(w) THEN Atom("INT", "TINY", 0, w, << >>)
    ELSE Atom("INT", "SHORT", DroppedInt(w), w, << >>)

new_uint(w) ==
    IF TinyUint(w) THEN Atom("UINT", "TINY", 0, w, << >>)
    ELSE Atom("UINT", "SHORT", DroppedUint(w), w, << >>)

\* UIDs, whole and half, are byte sequences.
new_uid(w) == Atom("BYTES", "SHORT", 0, w, w)
new_half_uid(w) == Atom("BYTES", "SHORT", 0, Fill(0, 4) \o Low(w, 4), Low(w, 4))

pick_encoding(n) == IF n < 16 THEN "SHORT" ELSE IF n < 2048 THEN "MEDIUM" ELSE "LONG"

new_bin(bytes) == Atom("BYTES", pick_encoding(Len(bytes)), 0, Zero, bytes)

\* Mutant of Extended: the sign is not extended.
Unextended(type, bytes) == Fill(0, 8 - Len(bytes)) \o bytes

\* decode_int: from the bytes that are there to a word.
Extended(type, bytes) ==
    Fill(IF type = "INT" /\ Head(bytes) >= 128 THEN 255 ELSE 0, 8 - Len(bytes)) \o bytes

\* The atoms there are, from a factory or from a packet: an integer is its encoded
\* bytes, extended; what is encoded fits the count in the header.
Counted(enc) == CASE enc = "SHORT" -> 16 [] enc = "MEDIUM" -> 2048 [] OTHER -> 256 * 65536

WellFormed(a) ==
    \/ a = Empty
    \/ a = Atom("INT", "TINY", 0, a.val, << >>) /\ TinyInt(a.val)
    \/ a = Atom("UINT", "TINY", 0, a.val, << >>) /\ TinyUint(a.val)
    \/ /\ a.type \in {"INT", "UINT"} /\ a.enc \in {"SHORT", "MEDIUM", "LONG"}
       /\ a.skip < 8 /\ a.bytes = << >>
       /\ a.val = Extended(a.type, Low(a.val, 8 - a.skip))
    \/ /\ a.type = "BYTES" /\ a.enc \in {"SHORT", "MEDIUM", "LONG"}
       /\ a.skip = 0 /\ Len(a.bytes) < Counted(a.enc)

AnyAtom ==
    {a \in [type : {"EMPTY", "UINT", "INT", "BYTES"}, enc : {"NONE", "TINY", "SHORT", "MEDIUM", "LONG"},
            skip : 0..8, val : Raw, bytes : Seq(Byte)] : WellFormed(a)}

\* operator==: the encoding counts.
SameAtom(a, b) ==
    /\ a.type = b.type /\ a.enc = b.enc
    /\ a.type \in {"INT", "UINT"} => a.val = b.val
    /\ a.type = "BYTES" => a.bytes = b.bytes

get_header_size(enc) ==
    CASE enc \in {"NONE", "TINY"} -> 0
      [] enc = "SHORT"            -> 1
      [] enc = "MEDIUM"           -> 2
      [] OTHER                    -> 4

Payload(a) == IF a.type = "BYTES" THEN a.bytes ELSE Low(a.val, 8 - a.skip)

AtomSize(a) ==
    IF a.type = "EMPTY" \/ a.enc = "TINY" THEN 1
    ELSE get_header_size(a.enc) + (IF a.type = "BYTES" THEN Len(a.bytes) ELSE 8 - a.skip)

\* The bits of a header that tell the type.
TypeBits(type) == IF type = "BYTES" THEN 2 ELSE IF type = "INT" THEN 1 ELSE 0

Header(type, enc, len) ==
    CASE enc = "SHORT"  -> <<128 + (16 * TypeBits(type)) + len>>
      [] enc = "MEDIUM" -> <<192 + (8 * TypeBits(type)) + (len \div 256), len % 256>>
      [] OTHER          -> <<224 + TypeBits(type), (len \div 65536) % 256, (len \div 256) % 256,
                             len % 256>>

EncodeAtom(a) ==
    CASE a.type = "EMPTY" -> <<255>>
      [] a.enc = "TINY"   -> <<(64 * TypeBits(a.type)) + (a.val[8] % 64)>>
      [] OTHER            -> Header(a.type, a.enc, Len(Payload(a))) \o Payload(a)

-----------------------------------------------------------------------------
\* Decoding yields an atom and the bytes used, or an exception.
Thrown == [ok |-> FALSE, size |-> 0, atom |-> Empty]
Decoded(size, atom) == [ok |-> TRUE, size |-> size, atom |-> atom]

decode_set_type(bits) == <<"UINT", "INT", "BYTES">>[bits + 1]

\* Mutant of TooShort: the header is not counted.
WithoutHeader(data, head, count) == Len(data) < count

TooShort(data, head, count) == Len(data) < head + count

\* Bytes of the payload; a read past the buffer, which TooShort prevents, would
\* find zeros.
Behind(data, head, count) ==
    [i \in 1..count |-> IF head + i \in DOMAIN data THEN data[head + i] ELSE 0]

DecodePayload(data, enc, head, bits, count) ==
    IF bits = 3 \/ TooShort(data, head, count) \/ (bits < 2 /\ count \notin 1..8) THEN Thrown
    ELSE LET bytes == Behind(data, head, count)
             type  == decode_set_type(bits)
         IN  Decoded(head + count,
                     IF bits = 2 THEN Atom(type, enc, 0, Zero, bytes)
                     ELSE Atom(type, enc, 8 - count, Extended(type, bytes), << >>))

DecodeTiny(h) ==
    IF h < 64 THEN Atom("UINT", "TINY", 0, Fill(0, 7) \o <<h>>, << >>)
    ELSE LET v == h % 64 IN
         Atom("INT", "TINY", 0, IF v >= 32 THEN Fill(255, 7) \o <<192 + v>>
                                ELSE Fill(0, 7) \o <<v>>, << >>)

\* What the first byte tells: the encoding, then the bits of the type and, with the
\* rest of the header, the length of the payload.
EncodingOf(h) ==
    IF h = 255 THEN "NONE" ELSE IF h < 128 THEN "TINY" ELSE IF h < 192 THEN "SHORT"
    ELSE IF h < 224 THEN "MEDIUM" ELSE IF h < 228 THEN "LONG" ELSE "not an atom"

BitsIn(enc, h) == (CASE enc = "SHORT" -> h \div 16 [] enc = "MEDIUM" -> h \div 8 [] OTHER -> h) % 4

Count(enc, data) ==
    CASE enc = "SHORT"  -> data[1] % 16
      [] enc = "MEDIUM" -> (256 * (data[1] % 8)) + data[2]
      [] OTHER          -> (65536 * data[2]) + (256 * data[3]) + data[4]

DecodeAtom(data) ==
    IF data = << >> THEN Thrown
    ELSE LET enc == EncodingOf(Head(data)) IN
         CASE enc = "NONE" -> Decoded(1, Empty)
           [] enc = "TINY" -> Decoded(1, DecodeTiny(Head(data)))
           [] enc \in {"SHORT", "MEDIUM", "LONG"} /\ Len(data) >= get_header_size(enc) ->
                DecodePayload(data, enc, get_header_size(enc), BitsIn(enc, data[1]), Count(enc, data))
           [] OTHER -> Thrown

-----------------------------------------------------------------------------
\* The accessors; an exception is <<-1>>.
NotThis == <<-1>>

get_uid(a) == IF a.type = "BYTES" /\ a.enc = "SHORT" /\ Len(a.bytes) = 8 THEN a.bytes ELSE NotThis
get_half_uid(a) ==
    IF a.type = "BYTES" /\ a.enc = "SHORT" /\ Len(a.bytes) = 4 THEN a.bytes ELSE NotThis
get_uint(a) == IF a.type = "UINT" THEN a.val ELSE NotThis
get_int(a) == IF a.type = "INT" THEN a.val ELSE NotThis
get_bytes(a) == IF a.type = "BYTES" THEN a.bytes ELSE NotThis
=============================================================================
