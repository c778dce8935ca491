--------------------------- MODULE EncodingProofs ---------------------------
(***************************************************************************)
(* What MCEncoding runs on small sets, for every value of its constants:    *)
(* the sizes of packets, every word and every binary of fewer than 2^24     *)
(* bytes as an atom, every tree of them as a datum, and every sequence of   *)
(* bytes a drive may send.                                                  *)
(*                                                                         *)
(*   1. The sizes of packets: TypeCorrect, ChunksFit.                       *)
(*   2. Atoms: words, headers, decoding what is encoded and encoding what   *)
(*      is decoded; the invariant OnItsWay of an atom.                      *)
(*   3. Bytes within bytes; the recursive functions of Datum as equations   *)
(*      between one level and the next (module Recursion says that they     *)
(*      exist), and the loop over the items of a list turn by turn.         *)
(*   4. By induction over the levels: every datum is encoded to as many     *)
(*      bytes as announced (AllSized); every datum is decoded as what was   *)
(*      sent of it (AllReread); whatever is decoded is encoded to the       *)
(*      bytes it was decoded from (AllFound); every call makes a datum of   *)
(*      a datum (AllStay).                                                  *)
(*   5. The invariant DatumOnItsWay of a datum, the three parts together,   *)
(*      and the theorems of EncodingSpec.                                   *)
(***************************************************************************)
EXTENDS MCEncoding, SequenceTheorems, TLAPS

-----------------------------------------------------------------------------
\* The sizes of packets.

\* Padding reaches the next multiple and no further.
LEMMA Pad4Bound ==
    ASSUME NEW n \in Nat
    PROVE  Pad4(n) \in Nat /\ n <= Pad4(n) /\ Pad4(n) < n + 4 /\ Pad4(n) % 4 = 0
BY DEF Pad4

LEMMA Pad512Bound ==
    ASSUME NEW n \in Nat, NEW k \in Nat, n <= 512 * k
    PROVE  Pad512(n) <= 512 * k
BY DEF Pad512

\* The tightest case: a ComPacket of x bytes holds x - max_pad bytes of data.
\* A seven-byte offset leaves nothing to spare: 37 + 7 + 12 + 44 = max_pad.
LEMMA LargestChunkFits ==
    ASSUME NEW x \in Nat, x % 512 = 0, NEW len \in Nat, len + max_pad <= x,
           NEW offset_atom \in OffsetAtoms
    PROVE  TotalSize(SetPayload(offset_atom, len)) <= x
<1> DEFINE sub == SetPayload(offset_atom, len) + 12
<1>1. sub \in Nat /\ sub <= len + 56
  BY DEF SetPayload, BinAtom, OffsetAtoms
<1>2. Pad4(sub) \in Nat /\ Pad4(sub) < sub + 4 /\ Pad4(sub) % 4 = 0
  BY <1>1, Pad4Bound
<1>3. Pad4(sub) + 24 + 20 <= x
  <2>1. Pad4(sub) < x - 40 /\ (x - 40) % 4 = 0
    BY <1>1, <1>2 DEF max_pad
  <2> HIDE DEF sub
  <2> QED BY <1>2, <2>1
<1>4. PICK k \in Nat : x = 512 * k
  <2>1. x \div 512 \in Nat /\ x = 512 * (x \div 512)
    OBVIOUS
  <2> QED BY <2>1
<1>5. Pad512(Pad4(sub) + 24 + 20) <= 512 * k
  BY <1>2, <1>3, <1>4, Pad512Bound
<1> QED BY <1>4, <1>5 DEF TotalSize

\* Once the limits are settled the largest token is max_pad below the buffer.
TokenBound ==
    pc = "ready" /\ WholeBlocks => max_token + max_pad <= raw_buffer /\ raw_buffer % 512 = 0

LEMMA AtMostBound ==
    ASSUME NEW a \in Nat, NEW b \in Nat
    PROVE  AtMost(a, b) \in {a, b} /\ AtMost(a, b) <= a /\ AtMost(a, b) <= b
BY DEF AtMost

LEMMA AtMostRange ==
    ASSUME NEW a \in Nat, NEW m \in Nat, NEW b \in 0..m
    PROVE  AtMost(a, b) \in 0..m
BY DEF AtMost

LEMMA MaxXferType == MAX_XFER \in Nat /\ MAX_XFER = 66048
BY DEF MAX_XFER, ATA_BLOCK_SIZE

LEMMA LimitTypes ==
    ASSUME TypeOK
    PROVE  /\ max_xfer \in Nat /\ max_xfer <= MAX_XFER /\ MAX_XFER \in Nat
           /\ max_token \in 0..MAX_XFER /\ max_token \in Nat
<1>1. max_xfer \in ComSizes \cup {MAX_XFER} /\ max_xfer <= MAX_XFER /\ max_token \in 0..MAX_XFER
  BY DEF TypeOK
<1>2. max_xfer \in Nat
  <2>1. max_xfer \in ComSizes \cup {MAX_XFER}
    BY <1>1
  <2>2. ComSizes \subseteq Nat
    BY Sizes
  <2>3. MAX_XFER \in Nat
    BY MaxXferType
  <2> QED BY <2>1, <2>2, <2>3, Zenon
<1>3. MAX_XFER \in Nat
  BY MaxXferType
<1>4. max_token \in Nat
  <2>1. ASSUME NEW m \in Nat, NEW t \in 0..m PROVE t \in Nat
    OBVIOUS
  <2> QED BY <1>1, <1>3, <2>1, Zenon
<1> QED BY <1>1, <1>2, <1>3, <1>4

LEMMA TypeStep == TypeOK /\ [Next]_vars => TypeOK'
<1> SUFFICES ASSUME TypeOK, [Next]_vars PROVE TypeOK'
  OBVIOUS
<1>t. max_xfer \in Nat /\ max_xfer <= MAX_XFER /\ max_token \in 0..MAX_XFER
  BY LimitTypes
<1>1. CASE ReadProperty
  <2>1. seen' \in 0..MaxProps
    BY <1>1, PropsBound DEF ReadProperty, TypeOK
  <2>2. max_xfer' \in ComSizes \cup {MAX_XFER} /\ max_xfer' <= MAX_XFER
    <3>1. ASSUME NEW val \in ComSizes, max_xfer' = AtMost(val, max_xfer)
          PROVE  max_xfer' \in {val, max_xfer} /\ max_xfer' <= max_xfer
      BY <1>t, <3>1, Sizes, AtMostBound
    <3>2. max_xfer' = max_xfer \/ \E val \in ComSizes : max_xfer' = AtMost(val, max_xfer)
      BY <1>1 DEF ReadProperty
    <3>3. max_xfer' \in ComSizes \cup {max_xfer} /\ max_xfer' <= max_xfer
      BY <1>t, <3>1, <3>2
    <3>4. max_xfer' \in Nat
      BY <1>t, <3>3, Sizes
    <3>5. max_xfer' <= MAX_XFER
      <4>1. max_xfer' <= max_xfer /\ max_xfer <= MAX_XFER
        BY <1>t, <3>3
      <4>2. max_xfer \in Nat /\ MAX_XFER \in Nat
        BY LimitTypes
      <4> QED BY <3>4, <4>1, <4>2
    <3> QED BY <3>3, <3>5 DEF TypeOK
  <2>3. max_token' \in 0..MAX_XFER
    <3>1. max_token' = max_token \/ \E val \in TokenSizes : max_token' = AtMost(val, max_token)
      BY <1>1 DEF ReadProperty
    <3>2. ASSUME NEW val \in TokenSizes PROVE AtMost(val, max_token) \in 0..MAX_XFER
      <4>1. val \in Nat /\ MAX_XFER \in Nat
        BY Sizes, MaxXferType
      <4> QED BY <4>1, <1>t, AtMostRange
    <3> QED BY <1>t, <3>1, <3>2
  <2> QED BY <1>1, <2>1, <2>2, <2>3 DEF ReadProperty, TypeOK
<1>2. CASE Settle
  <2>1. (max_xfer - max_pad) % Word \in Nat
    BY <1>t, WordIsLarge DEF max_pad
  <2>2. max_token' \in 0..MAX_XFER
    <3> DEFINE tweak == (max_xfer - max_pad) % Word
    <3>1. tweak \in Nat /\ MAX_XFER \in Nat
      BY <2>1, MaxXferType
    <3> HIDE DEF tweak
    <3>2. AtMost(tweak, max_token) \in 0..MAX_XFER
      BY <1>t, <3>1, AtMostRange
    <3> QED BY <1>2, <3>2 DEF Settle, tweak
  <2> QED BY <1>2, <2>2 DEF Settle, TypeOK
<1>3. CASE SetChunk
  BY <1>3 DEF SetChunk, TypeOK
<1>4. CASE UNCHANGED vars
  BY <1>4 DEF vars, TypeOK
<1> QED BY <1>1, <1>2, <1>3, <1>4 DEF Next

LEMMA BoundStep == TypeOK /\ TokenBound /\ [Next]_vars => TokenBound'
<1> SUFFICES ASSUME TypeOK, TokenBound, [Next]_vars, WholeBlocks PROVE TokenBound'
  BY DEF TokenBound, WholeBlocks
<1>1. CASE ReadProperty
  BY <1>1 DEF ReadProperty, TokenBound, TypeOK
<1>2. CASE Settle
  <2>1. max_xfer \in Nat /\ max_xfer % 512 = 0 /\ max_xfer >= 512 /\ max_xfer <= MAX_XFER
    <3>1. max_xfer \in Nat /\ max_xfer <= MAX_XFER
      BY LimitTypes
    <3>2. CASE max_xfer \in ComSizes
      BY <3>1, <3>2 DEF WholeBlocks, ATA_BLOCK_SIZE
    <3>3. CASE max_xfer = MAX_XFER
      BY <3>1, <3>3, MaxXferType
    <3> QED BY <3>2, <3>3 DEF TypeOK
  <2>2. (max_xfer - max_pad) % Word = max_xfer - max_pad
    BY <2>1, WordIsLarge DEF max_pad, MAX_XFER, ATA_BLOCK_SIZE
  <2>3. max_token' <= max_xfer - max_pad
    BY <1>2, <2>1, <2>2, AtMostBound DEF Settle, TypeOK, max_pad
  <2>4. max_token' \in Nat
    BY <1>2, TypeStep DEF Next, TypeOK
  <2> QED BY <1>2, <2>1, <2>3, <2>4 DEF Settle, TokenBound, max_pad
<1>3. CASE SetChunk \/ UNCHANGED vars
  BY <1>3 DEF SetChunk, vars, TokenBound
<1> QED BY <1>1, <1>2, <1>3 DEF Next

LEMMA ChunkStep == TypeOK /\ TokenBound /\ ChunkAlwaysFits /\ [Next]_vars => ChunkAlwaysFits'
<1> SUFFICES ASSUME TypeOK, TokenBound, ChunkAlwaysFits, [Next]_vars, WholeBlocks
             PROVE  sent' # "thrown"
  BY DEF ChunkAlwaysFits, WholeBlocks
<1>1. CASE SetChunk
  <2> PICK len \in Lengths \ {0}, offset_atom \in OffsetAtoms :
         sent' = IF Fits(SetPayload(offset_atom, AtMost(max_token, len)))
                 THEN "sent" ELSE "thrown"
    BY <1>1 DEF SetChunk
  <2>1. AtMost(max_token, len) \in Nat /\ AtMost(max_token, len) <= max_token
    BY Sizes, AtMostBound DEF TypeOK
  <2>2. raw_buffer \in Nat /\ raw_buffer % 512 = 0 /\ max_token + max_pad <= raw_buffer
    <3>1. pc = "ready"
      BY <1>1 DEF SetChunk
    <3>2. raw_buffer = max_xfer
      BY <3>1 DEF TypeOK
    <3>3. max_xfer \in Nat
      BY LimitTypes
    <3> QED BY <3>1, <3>2, <3>3 DEF TokenBound
  <2>3. AtMost(max_token, len) + max_pad <= raw_buffer
    <3> DEFINE size == AtMost(max_token, len)
    <3>1. max_token \in Nat
      BY LimitTypes
    <3> HIDE DEF size
    <3> QED BY <2>1, <2>2, <3>1 DEF max_pad, size
  <2> QED BY <2>1, <2>2, <2>3, LargestChunkFits DEF Fits
<1>2. CASE ReadProperty \/ Settle \/ UNCHANGED vars
  BY <1>2 DEF ReadProperty, Settle, vars, ChunkAlwaysFits
<1> QED BY <1>1, <1>2 DEF Next

\* Every size keeps its type.
THEOREM TypeCorrect == Spec => []TypeOK
<1>1. Init => TypeOK
  BY PropsBound DEF Init, TypeOK, MAX_XFER, ATA_BLOCK_SIZE, INITIAL_BUFFER, max_pad
<1> QED BY <1>1, TypeStep, PTL DEF Spec

\* No chunk of table_set_bin is too large for the buffer, whatever whole-block
\* sizes the drive reports, in whatever order.
THEOREM ChunksFit == Spec => []ChunkAlwaysFits
<1>1. Init => TokenBound /\ ChunkAlwaysFits
  BY DEF Init, TokenBound, ChunkAlwaysFits
<1> QED BY <1>1, TypeCorrect, BoundStep, ChunkStep, PTL DEF Spec

-----------------------------------------------------------------------------
\* Words and their least significant bytes.

LEMMA ByteNumbers == \A b \in Byte : b \in Nat /\ b <= 255 /\ b \in 0..255
BY DEF Byte

LEMMA FillBytes ==
    ASSUME NEW b \in Byte, NEW n \in Nat
    PROVE  /\ Fill(b, n) \in Seq(Byte) /\ Len(Fill(b, n)) = n
           /\ \A i \in 1..n : Fill(b, n)[i] = b
<1>1. Fill(b, n) \in [1..n -> Byte]
  BY DEF Fill
<1>2. Fill(b, n) \in Seq(Byte)
  BY <1>1, SeqDef
<1>3. DOMAIN Fill(b, n) = 1..n
  BY DEF Fill
<1>4. Len(Fill(b, n)) = n
  BY <1>2, <1>3, LenProperties
<1> QED BY <1>2, <1>4 DEF Fill

\* A sequence of eight bytes is a word.
LEMMA WordsAreSequences ==
    ASSUME NEW w
    PROVE  w \in Raw <=> w \in Seq(Byte) /\ Len(w) = 8
<1>1. ASSUME w \in Raw PROVE w \in Seq(Byte) /\ Len(w) = 8
  <2>1. w \in Seq(Byte) /\ DOMAIN w = 1..8
    BY <1>1, SeqDef DEF Raw
  <2>2. Len(w) \in Nat /\ DOMAIN w = 1..Len(w)
    BY <2>1, LenProperties
  <2> QED BY <2>1, <2>2
<1>2. ASSUME w \in Seq(Byte), Len(w) = 8 PROVE w \in Raw
  BY <1>2, LenProperties DEF Raw
<1> QED BY <1>1, <1>2

\* A byte extended to a word.
LEMMA SmallWord ==
    ASSUME NEW f \in Byte, NEW b \in Byte
    PROVE  /\ Fill(f, 7) \o <<b>> \in Raw
           /\ (Fill(f, 7) \o <<b>>)[8] = b
           /\ \A i \in 1..7 : (Fill(f, 7) \o <<b>>)[i] = f
<1> DEFINE s == Fill(f, 7)
           t == <<b>>
<1>1. s \in Seq(Byte) /\ Len(s) = 7 /\ \A i \in 1..7 : s[i] = f
  BY FillBytes
<1>2. t \in Seq(Byte) /\ Len(t) = 1 /\ t[1] = b
  OBVIOUS
<1> HIDE DEF s, t
<1>3. s \o t \in Seq(Byte) /\ Len(s \o t) = Len(s) + Len(t)
      /\ \A i \in 1..Len(s) + Len(t) : (s \o t)[i] = IF i <= Len(s) THEN s[i] ELSE t[i - Len(s)]
  BY <1>1, <1>2, ConcatProperties
<1>4. s \o t \in Raw
  <2>1. Len(s \o t) = 8
    BY <1>1, <1>2, <1>3
  <2> QED BY <1>3, <2>1, WordsAreSequences
<1>5. (s \o t)[8] = b /\ \A i \in 1..7 : (s \o t)[i] = f
  BY <1>1, <1>2, <1>3
<1> QED BY <1>4, <1>5 DEF s, t

LEMMA LowBytes ==
    ASSUME NEW w \in Raw, NEW n \in 0..8
    PROVE  /\ Low(w, n) \in Seq(Byte) /\ Len(Low(w, n)) = n
           /\ \A i \in 1..n : Low(w, n)[i] = w[8 - n + i]
<1>1. \A i \in (9 - n)..8 : w[i] \in Byte
  BY DEF Raw
<1>2. /\ SubSeq(w, 9 - n, 8) \in Seq(Byte)
      /\ Len(SubSeq(w, 9 - n, 8)) = IF 9 - n <= 8 THEN 8 - (9 - n) + 1 ELSE 0
      /\ \A i \in 1..(8 - (9 - n) + 1) : SubSeq(w, 9 - n, 8)[i] = w[9 - n + i - 1]
  BY <1>1, SubSeqProperties
<1>3. 8 - (9 - n) + 1 = n
  OBVIOUS
<1>4. \A i \in 1..n : w[9 - n + i - 1] = w[8 - n + i]
  <2>1. \A i \in 1..n : 9 - n + i - 1 = 8 - n + i
    OBVIOUS
  <2> QED BY <2>1
<1> QED BY <1>2, <1>3, <1>4 DEF Low

\* What decode_int puts in front of the bytes.
SignFill(type, p) == IF type = "INT" /\ p[1] >= 128 THEN 255 ELSE 0

LEMMA ExtendedBytes ==
    ASSUME NEW type, NEW n \in 1..8, NEW p \in Seq(Byte), Len(p) = n
    PROVE  /\ Extended(type, p) \in Raw
           /\ \A i \in 1..8 - n : Extended(type, p)[i] = SignFill(type, p)
           /\ \A i \in 1..n : Extended(type, p)[8 - n + i] = p[i]
<1>1. SignFill(type, p) \in Byte
  BY DEF SignFill, Byte
<1>2. 8 - n \in Nat
  OBVIOUS
<1> DEFINE s == Fill(SignFill(type, p), 8 - n)
<1>3. s \in Seq(Byte) /\ Len(s) = 8 - n /\ \A i \in 1..8 - n : s[i] = SignFill(type, p)
  BY <1>1, <1>2, FillBytes
<1>4. Extended(type, p) = s \o p
  BY DEF Extended, SignFill
<1> HIDE DEF s
<1>5. s \o p \in Seq(Byte) /\ Len(s \o p) = Len(s) + Len(p)
      /\ \A i \in 1..Len(s) + Len(p) : (s \o p)[i] = IF i <= Len(s) THEN s[i] ELSE p[i - Len(s)]
  BY <1>3, ConcatProperties
<1>6. Len(s \o p) = 8
  BY <1>3, <1>5
<1>7. \A i \in 1..8 - n : (s \o p)[i] = SignFill(type, p)
  BY <1>3, <1>5
<1>8. ASSUME NEW i \in 1..n PROVE (s \o p)[8 - n + i] = p[i]
  <2>1. 8 - n + i \in 1..Len(s) + Len(p) /\ ~(8 - n + i <= Len(s))
        /\ (8 - n + i) - Len(s) = i
    BY <1>3
  <2> QED BY <1>5, <2>1
<1> QED BY <1>4, <1>5, <1>6, <1>7, <1>8, WordsAreSequences

\* Two words with the same bytes are the same.
LEMMA SameWord ==
    ASSUME NEW v \in Raw, NEW w \in Raw, \A i \in 1..8 : v[i] = w[i]
    PROVE  v = w
BY DEF Raw

\* Extending the lower bytes gives the word back when all others are the fill.
LEMMA LowExtended ==
    ASSUME NEW type, NEW w \in Raw, NEW s \in 0..7,
           \A i \in 1..s : w[i] = SignFill(type, Low(w, 8 - s))
    PROVE  Extended(type, Low(w, 8 - s)) = w
<1> DEFINE p == Low(w, 8 - s)
<1>1. p \in Seq(Byte) /\ Len(p) = 8 - s /\ \A i \in 1..8 - s : p[i] = w[s + i]
  <2>1. 8 - s \in 0..8 /\ 8 - (8 - s) = s
    OBVIOUS
  <2> QED BY <2>1, LowBytes
<1> HIDE DEF p
<1>2. 8 - s \in 1..8 /\ 8 - (8 - s) = s
  OBVIOUS
<1>3. /\ Extended(type, p) \in Raw
      /\ \A i \in 1..8 - (8 - s) : Extended(type, p)[i] = SignFill(type, p)
      /\ \A i \in 1..8 - s : Extended(type, p)[8 - (8 - s) + i] = p[i]
  BY <1>1, <1>2, ExtendedBytes
<1>4. ASSUME NEW i \in 1..8 PROVE Extended(type, p)[i] = w[i]
  <2>1. CASE i <= s
    BY <1>2, <1>3, <2>1 DEF p
  <2>2. CASE i > s
    <3>1. i - s \in 1..8 - s /\ s + (i - s) = i
      BY <2>2
    <3> QED BY <1>1, <1>2, <1>3, <3>1
  <2> QED BY <2>1, <2>2
<1> QED BY <1>3, <1>4, SameWord DEF p

\* And the bytes an extension was made from are its lower ones.
LEMMA ExtendedLow ==
    ASSUME NEW type, NEW n \in 1..8, NEW p \in Seq(Byte), Len(p) = n
    PROVE  Low(Extended(type, p), n) = p
<1> DEFINE w == Extended(type, p)
<1>1. w \in Raw /\ \A i \in 1..n : w[8 - n + i] = p[i]
  BY ExtendedBytes, ZenonT(30)
<1> HIDE DEF w
<1>2. n \in 0..8
  OBVIOUS
<1>3. Low(w, n) \in Seq(Byte) /\ Len(Low(w, n)) = n
      /\ \A i \in 1..n : Low(w, n)[i] = w[8 - n + i]
  BY <1>1, <1>2, LowBytes
<1>4. Low(w, n) = p
  BY <1>1, <1>3, SeqEqual
<1> QED BY <1>4 DEF w

-----------------------------------------------------------------------------
\* What new_int and new_uint drop.

\* A set of small numbers has a largest and a smallest member.
LEMMA Extremes ==
    ASSUME NEW S \in SUBSET (0..8), S # {}
    PROVE  /\ Max(S) \in S /\ \A n \in S : Max(S) >= n
           /\ Min(S) \in S /\ \A n \in S : Min(S) <= n
<1>0. \A n \in S : n \in {0, 1, 2, 3, 4, 5, 6, 7, 8}
  OBVIOUS
<1>1. \E m \in S : \A n \in S : m >= n
  <2> SUFFICES ASSUME \A m \in S : \E n \in S : ~(m >= n) PROVE FALSE
    OBVIOUS
  <2>8. 8 \notin S
    BY <1>0
  <2>7. 7 \notin S
    BY <1>0, <2>8
  <2>6. 6 \notin S
    BY <1>0, <2>8, <2>7
  <2>5. 5 \notin S
    BY <1>0, <2>8, <2>7, <2>6
  <2>4. 4 \notin S
    BY <1>0, <2>8, <2>7, <2>6, <2>5
  <2>3. 3 \notin S
    BY <1>0, <2>8, <2>7, <2>6, <2>5, <2>4
  <2>2. 2 \notin S
    BY <1>0, <2>8, <2>7, <2>6, <2>5, <2>4, <2>3
  <2>1. 1 \notin S
    BY <1>0, <2>8, <2>7, <2>6, <2>5, <2>4, <2>3, <2>2
  <2>0. 0 \notin S
    BY <1>0, <2>8, <2>7, <2>6, <2>5, <2>4, <2>3, <2>2, <2>1
  <2> QED BY <1>0, <2>8, <2>7, <2>6, <2>5, <2>4, <2>3, <2>2, <2>1, <2>0
<1>2. \E m \in S : \A n \in S : m <= n
  <2> SUFFICES ASSUME \A m \in S : \E n \in S : ~(m <= n) PROVE FALSE
    OBVIOUS
  <2>0. 0 \notin S
    BY <1>0
  <2>1. 1 \notin S
    BY <1>0, <2>0
  <2>2. 2 \notin S
    BY <1>0, <2>0, <2>1
  <2>3. 3 \notin S
    BY <1>0, <2>0, <2>1, <2>2
  <2>4. 4 \notin S
    BY <1>0, <2>0, <2>1, <2>2, <2>3
  <2>5. 5 \notin S
    BY <1>0, <2>0, <2>1, <2>2, <2>3, <2>4
  <2>6. 6 \notin S
    BY <1>0, <2>0, <2>1, <2>2, <2>3, <2>4, <2>5
  <2>7. 7 \notin S
    BY <1>0, <2>0, <2>1, <2>2, <2>3, <2>4, <2>5, <2>6
  <2>8. 8 \notin S
    BY <1>0, <2>0, <2>1, <2>2, <2>3, <2>4, <2>5, <2>6, <2>7
  <2> QED BY <1>0, <2>0, <2>1, <2>2, <2>3, <2>4, <2>5, <2>6, <2>7, <2>8
<1> QED BY <1>1, <1>2, Zenon DEF Max, Min

\* Leading bytes that say nothing but the sign.
SignOnly(w, s) ==
    \A i \in 1..s : w[i] = (IF Negative(w) THEN 255 ELSE 0) /\ (w[i + 1] >= 128) = Negative(w)

ZeroOnly(w, s) == \A i \in 1..s : w[i] = 0

LEMMA DroppedIntIs ==
    ASSUME NEW w \in Raw
    PROVE  /\ DroppedInt(w) \in 0..7 /\ SignOnly(w, DroppedInt(w))
           /\ \A s \in 0..7 : SignOnly(w, s) => s <= DroppedInt(w)
<1> DEFINE S == {s \in 0..7 : SignOnly(w, s)}
<1>1. DroppedInt(w) = Max(S)
  BY DEF DroppedInt, SignOnly
<1>2. 0 \in S /\ S \in SUBSET (0..8)
  BY DEF SignOnly
<1>3. Max(S) \in S /\ \A n \in S : Max(S) >= n
  BY <1>2, Extremes
<1> QED BY <1>1, <1>3

LEMMA DroppedUintIs ==
    ASSUME NEW w \in Raw
    PROVE  /\ DroppedUint(w) \in 0..8 /\ ZeroOnly(w, DroppedUint(w))
           /\ \A s \in 0..8 : ZeroOnly(w, s) => s <= DroppedUint(w)
<1> DEFINE S == {s \in 0..8 : ZeroOnly(w, s)}
<1>1. DroppedUint(w) = Max(S)
  BY DEF DroppedUint, ZeroOnly
<1>2. 0 \in S /\ S \in SUBSET (0..8)
  BY DEF ZeroOnly
<1>3. Max(S) \in S /\ \A n \in S : Max(S) >= n
  BY <1>2, Extremes
<1> QED BY <1>1, <1>3

\* Zero is a tiny atom, so of any other word at least one byte is encoded.
LEMMA NotAllDropped ==
    ASSUME NEW w \in Raw, ~TinyUint(w)
    PROVE  DroppedUint(w) \in 0..7
<1> SUFFICES ASSUME DroppedUint(w) = 8 PROVE FALSE
  BY DroppedUintIs
<1>1. \A i \in 1..8 : w[i] = 0
  BY DroppedUintIs DEF ZeroOnly
<1>2. w = Fill(0, 7) \o <<0>>
  <2>1. 0 \in Byte
    BY DEF Byte
  <2> DEFINE z == Fill(0, 7) \o <<0>>
  <2>2. z \in Raw /\ z[8] = 0 /\ \A i \in 1..7 : z[i] = 0
    BY <2>1, SmallWord
  <2> HIDE DEF z
  <2>3. \A i \in 1..8 : w[i] = z[i]
    BY <1>1, <2>2
  <2>4. w = z
    BY <2>2, <2>3, SameWord
  <2> QED BY <2>4 DEF z
<1> QED BY <1>2 DEF TinyUint

\* What is dropped comes back when the rest is decoded.
LEMMA IntKept ==
    ASSUME NEW w \in Raw, NEW s \in 0..7, SignOnly(w, s)
    PROVE  Extended("INT", Low(w, 8 - s)) = w
<1>1. 8 - s \in 0..8 /\ 1 \in 1..8 - s /\ 8 - (8 - s) + 1 = s + 1
  OBVIOUS
<1>2. Low(w, 8 - s)[1] = w[s + 1]
  BY <1>1, LowBytes
<1>3. (w[s + 1] >= 128) = Negative(w)
  BY DEF SignOnly, Negative
<1>4. SignFill("INT", Low(w, 8 - s)) = IF Negative(w) THEN 255 ELSE 0
  BY <1>2, <1>3 DEF SignFill
<1>5. \A i \in 1..s : w[i] = SignFill("INT", Low(w, 8 - s))
  BY <1>4 DEF SignOnly
<1> QED BY <1>5, LowExtended

LEMMA UintKept ==
    ASSUME NEW w \in Raw, NEW s \in 0..7, ZeroOnly(w, s)
    PROVE  Extended("UINT", Low(w, 8 - s)) = w
<1>1. \A i \in 1..s : w[i] = SignFill("UINT", Low(w, 8 - s))
  BY DEF SignFill, ZeroOnly
<1> QED BY <1>1, LowExtended

-----------------------------------------------------------------------------
\* The headers of the three longer encodings.

Types     == {"UINT", "INT", "BYTES"}
Encodings == {"SHORT", "MEDIUM", "LONG"}

\* n bytes can be encoded so.
Allowed(type, enc, n) ==
    type \in Types /\ enc \in Encodings /\ n \in Nat /\ n < Counted(enc)
      /\ (type # "BYTES" => n \in 1..8)

\* What a header says is what it was made from.
LEMMA HeaderSays ==
    ASSUME NEW type, NEW enc, NEW n, Allowed(type, enc, n)
    PROVE  /\ Header(type, enc, n) \in Seq(Byte)
           /\ Len(Header(type, enc, n)) = get_header_size(enc)
           /\ EncodingOf(Header(type, enc, n)[1]) = enc
           /\ BitsIn(enc, Header(type, enc, n)[1]) = TypeBits(type)
           /\ Count(enc, Header(type, enc, n)) = n
<1> DEFINE b == TypeBits(type)
<1>0. b \in 0..2 /\ n \in Nat /\ n < Counted(enc)
  BY DEF TypeBits, Allowed
<1>1. CASE enc = "SHORT"
  <2> DEFINE h == 128 + (16 * b) + n
  <2>1. n < 16
    BY <1>0, <1>1, SMT DEF Counted
  <2>2. Header(type, enc, n) = <<h>> /\ get_header_size(enc) = 1
    BY <1>1 DEF Header, get_header_size
  <2>3. h \in 0..255 /\ h >= 128 /\ h < 192 /\ (h \div 16) % 4 = b /\ h % 16 = n
    <3> HIDE DEF b
    <3> QED BY <1>0, <2>1, SMT
  <2> HIDE DEF h, b
  <2>4. h \in Byte
    BY <2>3 DEF Byte
  <2>5. EncodingOf(h) = "SHORT"
    BY <2>3, SMT DEF EncodingOf
  <2>6. BitsIn("SHORT", h) = b /\ Count("SHORT", <<h>>) = n
    BY <2>3, SMT DEF BitsIn, Count
  <2>7. <<h>> \in Seq(Byte) /\ Len(<<h>>) = 1 /\ <<h>>[1] = h
    BY <2>4
  <2> QED BY <1>1, <2>2, <2>5, <2>6, <2>7, Zenon DEF b
<1>2. CASE enc = "MEDIUM"
  <2> DEFINE h == 192 + (8 * b) + (n \div 256)
             c == n % 256
  <2>1. n < 2048
    BY <1>0, <1>2, SMT DEF Counted
  <2>2. Header(type, enc, n) = <<h, c>> /\ get_header_size(enc) = 2
    BY <1>2 DEF Header, get_header_size
  <2>3. /\ h \in 0..255 /\ h >= 192 /\ h < 224 /\ c \in 0..255
        /\ (h \div 8) % 4 = b /\ (256 * (h % 8)) + c = n
    <3> HIDE DEF b
    <3> QED BY <1>0, <2>1, SMT
  <2> HIDE DEF h, c, b
  <2>4. h \in Byte /\ c \in Byte
    BY <2>3 DEF Byte
  <2>5. EncodingOf(h) = "MEDIUM"
    BY <2>3, SMT DEF EncodingOf
  <2>6. BitsIn("MEDIUM", h) = b /\ Count("MEDIUM", <<h, c>>) = n
    BY <2>3, SMT DEF BitsIn, Count
  <2>7. <<h, c>> \in Seq(Byte) /\ Len(<<h, c>>) = 2 /\ <<h, c>>[1] = h
    BY <2>4
  <2> QED BY <1>2, <2>2, <2>5, <2>6, <2>7, Zenon DEF b
<1>3. CASE enc = "LONG"
  <2> DEFINE h == 224 + b
             c == (n \div 65536) % 256
             m == (n \div 256) % 256
             e == n % 256
  <2>1. n < 256 * 65536
    BY <1>0, <1>3, SMT DEF Counted
  <2>2. Header(type, enc, n) = <<h, c, m, e>> /\ get_header_size(enc) = 4
    BY <1>3 DEF Header, get_header_size
  <2>3. /\ h \in 0..255 /\ h >= 224 /\ h < 228 /\ c \in 0..255 /\ m \in 0..255 /\ e \in 0..255
        /\ h % 4 = b /\ (65536 * c) + (256 * m) + e = n
    <3> HIDE DEF b
    <3> QED BY <1>0, <2>1, SMT
  <2> HIDE DEF h, c, m, e, b
  <2>4. h \in Byte /\ c \in Byte /\ m \in Byte /\ e \in Byte
    BY <2>3 DEF Byte
  <2>5. EncodingOf(h) = "LONG"
    BY <2>3, SMT DEF EncodingOf
  <2>6. BitsIn("LONG", h) = b /\ Count("LONG", <<h, c, m, e>>) = n
    BY <2>3, SMT DEF BitsIn, Count
  <2>7. <<h, c, m, e>> \in Seq(Byte) /\ Len(<<h, c, m, e>>) = 4 /\ <<h, c, m, e>>[1] = h
    BY <2>4
  <2> QED BY <1>3, <2>2, <2>5, <2>6, <2>7, Zenon DEF b
<1> QED BY <1>1, <1>2, <1>3 DEF Allowed, Encodings

\* Data with the header in front is taken for what the header says.
LEMMA HeaderRead ==
    ASSUME NEW type, NEW enc, NEW n, Allowed(type, enc, n),
           NEW data \in Seq(Byte), Len(data) >= get_header_size(enc),
           \A i \in 1..get_header_size(enc) : data[i] = Header(type, enc, n)[i]
    PROVE  DecodeAtom(data) = DecodePayload(data, enc, get_header_size(enc), TypeBits(type), n)
<1>1. enc \in Encodings /\ get_header_size(enc) \in {1, 2, 4}
  BY DEF Allowed, Encodings, get_header_size
<1>2. data # << >> /\ Head(data) = data[1] /\ Len(data) \in Nat
  BY <1>1
<1>3. EncodingOf(data[1]) = enc /\ BitsIn(enc, data[1]) = TypeBits(type)
  BY <1>1, HeaderSays
<1>4. Count(enc, data) = Count(enc, Header(type, enc, n))
  <2>1. CASE enc = "SHORT"
    <3>1. data[1] = Header(type, enc, n)[1]
      BY <2>1 DEF get_header_size
    <3> QED BY <2>1, <3>1 DEF Count
  <2>2. CASE enc = "MEDIUM"
    <3>1. data[1] = Header(type, enc, n)[1] /\ data[2] = Header(type, enc, n)[2]
      BY <2>2 DEF get_header_size
    <3> QED BY <2>2, <3>1 DEF Count
  <2>3. CASE enc = "LONG"
    <3>1. /\ data[2] = Header(type, enc, n)[2] /\ data[3] = Header(type, enc, n)[3]
          /\ data[4] = Header(type, enc, n)[4]
      BY <2>3 DEF get_header_size
    <3> QED BY <2>3, <3>1 DEF Count
  <2> QED BY <1>1, <2>1, <2>2, <2>3 DEF Encodings
<1>5. Count(enc, data) = n
  BY <1>4, HeaderSays
<1>6. DecodeAtom(data) = DecodePayload(data, enc, get_header_size(enc), BitsIn(enc, data[1]),
                                       Count(enc, data))
  BY <1>1, <1>2, <1>3 DEF DecodeAtom, Encodings
<1> QED BY <1>3, <1>5, <1>6

-----------------------------------------------------------------------------
\* What a decoder makes of bytes, and what an encoder makes of that.

Held(type, enc, p) ==
    IF type = "BYTES" THEN Atom(type, enc, 0, Zero, p)
    ELSE Atom(type, enc, 8 - Len(p), Extended(type, p), << >>)

LEMMA BehindBytes ==
    ASSUME NEW data \in Seq(Byte), NEW head \in Nat, NEW n \in Nat, Len(data) >= head + n
    PROVE  /\ Behind(data, head, n) \in Seq(Byte) /\ Len(Behind(data, head, n)) = n
           /\ \A i \in 1..n : Behind(data, head, n)[i] = data[head + i]
<1> DEFINE p == Behind(data, head, n)
<1>1. \A i \in 1..n : head + i \in DOMAIN data /\ data[head + i] \in Byte
  OBVIOUS
<1>2. p = [i \in 1..n |-> data[head + i]]
  BY <1>1 DEF Behind
<1>3. p \in [1..n -> Byte] /\ DOMAIN p = 1..n
  BY <1>1, <1>2
<1>4. p \in Seq(Byte)
  BY <1>3, SeqDef
<1>5. Len(p) = n
  BY <1>3, <1>4, LenProperties
<1> QED BY <1>2, <1>4, <1>5

LEMMA TypeNames ==
    ASSUME NEW type \in Types
    PROVE  /\ decode_set_type(TypeBits(type)) = type
           /\ TypeBits(type) # 3 /\ (TypeBits(type) = 2 <=> type = "BYTES")
           /\ (TypeBits(type) < 2 <=> type # "BYTES")
BY DEF Types, TypeBits, decode_set_type

\* The payload is there, or the decoder throws.
LEMMA PayloadDecoded ==
    ASSUME NEW type, NEW enc, NEW n, Allowed(type, enc, n),
           NEW data \in Seq(Byte), NEW head \in Nat
    PROVE  DecodePayload(data, enc, head, TypeBits(type), n) =
               IF Len(data) < head + n THEN Thrown
               ELSE Decoded(head + n, Held(type, enc, Behind(data, head, n)))
<1>1. type \in Types /\ n \in Nat /\ (type # "BYTES" => n \in 1..8)
  BY DEF Allowed
<1>2. CASE Len(data) < head + n
  BY <1>2 DEF DecodePayload, TooShort
<1>3. CASE ~(Len(data) < head + n)
  <2> DEFINE p == Behind(data, head, n)
  <2>1. Len(p) = n
    <3>1. Len(data) >= head + n
      BY <1>1, <1>3
    <3> QED BY <1>1, <3>1, BehindBytes
  <2> HIDE DEF p
  <2>2. ~(TypeBits(type) < 2 /\ n \notin 1..8)
    BY <1>1, TypeNames
  <2>3. DecodePayload(data, enc, head, TypeBits(type), n) =
          Decoded(head + n, IF type = "BYTES" THEN Atom(type, enc, 0, Zero, p)
                            ELSE Atom(type, enc, 8 - n, Extended(type, p), << >>))
    BY <1>1, <1>3, <2>2, TypeNames DEF DecodePayload, TooShort, p
  <2> QED BY <1>3, <2>1, <2>3 DEF Held, p
<1> QED BY <1>2, <1>3

\* Encoding it again gives the header that says so much, and the bytes.
LEMMA HeldEncoded ==
    ASSUME NEW type, NEW enc, NEW n, Allowed(type, enc, n), NEW p \in Seq(Byte), Len(p) = n
    PROVE  /\ EncodeAtom(Held(type, enc, p)) = Header(type, enc, n) \o p
           /\ AtomSize(Held(type, enc, p)) = get_header_size(enc) + n
           /\ Held(type, enc, p).type = type /\ Held(type, enc, p).enc = enc
<1> DEFINE x == Held(type, enc, p)
<1>1. type \in Types /\ enc \in Encodings /\ n \in Nat
  BY DEF Allowed
<1>2. x.type = type /\ x.enc = enc
  BY DEF Held, Atom
<1>3. Payload(x) = p
  <2>1. CASE type = "BYTES"
    BY <2>1 DEF Held, Atom, Payload
  <2>2. CASE type # "BYTES"
    <3>1. n \in 1..8
      BY <2>2 DEF Allowed
    <3>2. x.type # "BYTES" /\ x.val = Extended(type, p) /\ 8 - x.skip = n
      BY <2>2, <3>1 DEF Held, Atom
    <3>3. Low(Extended(type, p), n) = p
      BY <3>1, ExtendedLow
    <3> QED BY <3>2, <3>3 DEF Payload
  <2> QED BY <2>1, <2>2
<1>4. AtomSize(x) = get_header_size(enc) + n
  <2>1. x.type # "EMPTY" /\ x.enc # "TINY"
    BY <1>1, <1>2 DEF Types, Encodings
  <2>2. CASE type = "BYTES"
    BY <1>2, <2>1, <2>2 DEF Held, Atom, AtomSize
  <2>3. CASE type # "BYTES"
    <3>1. 8 - x.skip = n
      <4>1. n \in 1..8
        BY <2>3 DEF Allowed
      <4> QED BY <2>3, <4>1 DEF Held, Atom
    <3> QED BY <1>2, <2>1, <2>3, <3>1 DEF AtomSize
  <2> QED BY <2>2, <2>3
<1> HIDE DEF x
<1>5. EncodeAtom(x) = Header(type, enc, n) \o p
  <2>1. x.type # "EMPTY" /\ x.enc # "TINY"
    BY <1>1, <1>2 DEF Types, Encodings
  <2> QED BY <1>2, <1>3, <2>1 DEF EncodeAtom
<1> QED BY <1>2, <1>4, <1>5 DEF x

\* The last byte of a word with seven bytes of sign.
LEMMA LastByte ==
    \A b \in Byte : (Fill(0, 7) \o <<b>>)[8] = b /\ (Fill(255, 7) \o <<b>>)[8] = b
<1>1. 0 \in Byte /\ 255 \in Byte
  BY SMT DEF Byte
<1>2. \A f, b \in Byte : (Fill(f, 7) \o <<b>>)[8] = b
  BY SmallWord, Zenon
<1> DEFINE Ends(f, b) == (Fill(f, 7) \o <<b>>)[8] = b
<1>3. \A f, b \in Byte : Ends(f, b)
  BY <1>2
<1> HIDE DEF Ends
<1>4. \A b \in Byte : Ends(0, b) /\ Ends(255, b)
  BY <1>1, <1>3
<1> QED BY <1>4 DEF Ends

\* An atom of one byte.
LEMMA TinyEncoded ==
    ASSUME NEW h \in 0..127
    PROVE  EncodeAtom(DecodeTiny(h)) = <<h>> /\ AtomSize(DecodeTiny(h)) = 1
<1> DEFINE x == DecodeTiny(h)
           v == h % 64
<1>1. v \in 0..63 /\ 0 \in Byte /\ 255 \in Byte
  BY SMT DEF Byte
<1>2. CASE h < 64
  <2> DEFINE w == Fill(0, 7) \o <<h>>
  <2>1. x = Atom("UINT", "TINY", 0, w, << >>)
    BY <1>2 DEF DecodeTiny
  <2>2. h \in Byte /\ h % 64 = h
    BY <1>2, SMT DEF Byte
  <2>3. w[8] = h
    <3>1. \A b \in Byte : (Fill(0, 7) \o <<b>>)[8] = b
      BY LastByte
    <3> QED BY <2>2, <3>1, Zenon
  <2> HIDE DEF w
  <2>4. x.type = "UINT" /\ x.enc = "TINY" /\ x.val[8] = h
    BY <2>1, <2>3 DEF Atom
  <2> HIDE DEF x
  <2>5. (64 * 0) + (h % 64) = h
    BY <2>2, SMT
  <2> QED BY <2>2, <2>4, <2>5 DEF EncodeAtom, AtomSize, TypeBits, x
<1>3. CASE ~(h < 64)
  <2> DEFINE w == IF v >= 32 THEN Fill(255, 7) \o <<192 + v>> ELSE Fill(0, 7) \o <<v>>
  <2>1. x = Atom("INT", "TINY", 0, w, << >>)
    BY <1>3 DEF DecodeTiny
  <2>2. w[8] = IF v >= 32 THEN 192 + v ELSE v
    <3> HIDE DEF v
    <3> DEFINE u == 192 + v
    <3>1. u \in Byte /\ v \in Byte
      BY <1>1, SMT DEF Byte
    <3> HIDE DEF u
    <3>2. (Fill(255, 7) \o <<u>>)[8] = u
      BY <3>1, LastByte
    <3>3. (Fill(0, 7) \o <<v>>)[8] = v
      BY <3>1, LastByte
    <3> QED BY <3>2, <3>3 DEF u
  <2>3. w[8] % 64 = v /\ 64 + v = h
    <3>1. 64 + v = h
      BY <1>3, SMT
    <3> HIDE DEF v
    <3>2. (192 + v) % 64 = v /\ v % 64 = v
      BY <1>1, SMT
    <3> QED BY <2>2, <3>1, <3>2
  <2> HIDE DEF w, v
  <2>4. x.type = "INT" /\ x.enc = "TINY" /\ x.val = w
    BY <2>1 DEF Atom
  <2>5. (64 * 1) + (w[8] % 64) = h
    <3>1. 64 * 1 = 64
      OBVIOUS
    <3> QED BY <2>3, <3>1
  <2> HIDE DEF x
  <2> QED BY <2>4, <2>5 DEF EncodeAtom, AtomSize, TypeBits, x
<1> QED BY <1>2, <1>3

-----------------------------------------------------------------------------
\* What a decoder can yield.
Clean(x) ==
    \/ x = Empty
    \/ \E h \in 0..127 : x = DecodeTiny(h)
    \/ \E type \in Types, enc \in Encodings, p \in Seq(Byte) :
          Allowed(type, enc, Len(p)) /\ x = Held(type, enc, p)

\* A single byte and what follows it.
LEMMA FirstByte ==
    ASSUME NEW h \in Byte, NEW t \in Seq(Byte)
    PROVE  /\ <<h>> \in Seq(Byte) /\ Len(<<h>>) = 1
           /\ <<h>> \o t # << >> /\ Head(<<h>> \o t) = h
<1> DEFINE s == <<h>>
<1>1. s \in Seq(Byte) /\ Len(s) = 1 /\ s[1] = h
  OBVIOUS
<1> HIDE DEF s
<1>2. s \o t \in Seq(Byte) /\ Len(s \o t) = Len(s) + Len(t)
      /\ \A i \in 1..Len(s) + Len(t) : (s \o t)[i] = IF i <= Len(s) THEN s[i] ELSE t[i - Len(s)]
  BY <1>1, ConcatProperties
<1>3. Len(t) \in Nat
  OBVIOUS
<1>4. (s \o t)[1] = h /\ Len(s \o t) > 0
  BY <1>1, <1>2, <1>3
<1>5. s \o t # << >> /\ Head(s \o t) = (s \o t)[1]
  BY <1>2, <1>4
<1> QED BY <1>1, <1>4, <1>5 DEF s

LEMMA EmptyCode ==
    /\ EncodeAtom(Empty) = <<255>> /\ AtomSize(Empty) = 1
    /\ EncodingOf(255) = "NONE" /\ 255 \in Byte
BY SMT DEF Empty, Atom, EncodeAtom, AtomSize, EncodingOf, Byte

LEMMA TinyCode ==
    ASSUME NEW h \in 0..127
    PROVE  EncodingOf(h) = "TINY" /\ h \in Byte
BY SMT DEF EncodingOf, Byte

\* What was encoded is decoded again, whatever follows.
LEMMA DecodedAgain ==
    ASSUME NEW x, Clean(x), NEW t \in Seq(Byte)
    PROVE  /\ EncodeAtom(x) \in Seq(Byte) /\ Len(EncodeAtom(x)) = AtomSize(x)
           /\ DecodeAtom(EncodeAtom(x) \o t) = Decoded(AtomSize(x), x)
<1>1. CASE x = Empty
  <2>1. <<255>> \o t # << >> /\ Head(<<255>> \o t) = 255
    BY EmptyCode, FirstByte
  <2>2. DecodeAtom(<<255>> \o t) = Decoded(1, Empty)
    BY <2>1, EmptyCode DEF DecodeAtom
  <2>3. <<255>> \in Seq(Byte) /\ Len(<<255>>) = 1
    BY EmptyCode
  <2> QED BY <1>1, <2>2, <2>3, EmptyCode
<1>2. ASSUME NEW h \in 0..127, x = DecodeTiny(h)
      PROVE  /\ EncodeAtom(x) \in Seq(Byte) /\ Len(EncodeAtom(x)) = AtomSize(x)
             /\ DecodeAtom(EncodeAtom(x) \o t) = Decoded(AtomSize(x), x)
  <2>1. EncodeAtom(x) = <<h>> /\ AtomSize(x) = 1
    BY <1>2, TinyEncoded
  <2>2. EncodingOf(h) = "TINY" /\ h \in Byte
    BY TinyCode
  <2>3. <<h>> \in Seq(Byte) /\ Len(<<h>>) = 1 /\ <<h>> \o t # << >> /\ Head(<<h>> \o t) = h
    BY <2>2, FirstByte, Zenon
  <2>4. DecodeAtom(<<h>> \o t) = Decoded(1, DecodeTiny(h))
    BY <2>2, <2>3, Zenon DEF DecodeAtom
  <2> QED BY <1>2, <2>1, <2>3, <2>4, Zenon
<1>3. ASSUME NEW type \in Types, NEW enc \in Encodings, NEW p \in Seq(Byte), Allowed(type, enc, Len(p)),
             x = Held(type, enc, p)
      PROVE  /\ EncodeAtom(x) \in Seq(Byte) /\ Len(EncodeAtom(x)) = AtomSize(x)
             /\ DecodeAtom(EncodeAtom(x) \o t) = Decoded(AtomSize(x), x)
  <2> DEFINE n == Len(p)
             g == Header(type, enc, n)
             k == get_header_size(enc)
             e == g \o p
  <2>1. n \in Nat /\ k \in Nat /\ g \in Seq(Byte) /\ Len(g) = k
    BY <1>3, HeaderSays DEF get_header_size
  <2>2. EncodeAtom(x) = e /\ AtomSize(x) = k + n
    BY <1>3, HeldEncoded
  <2> HIDE DEF n, g, k
  <2>3. e \in Seq(Byte) /\ Len(e) = k + n
        /\ \A i \in 1..k + n : e[i] = IF i <= k THEN g[i] ELSE p[i - k]
    BY <2>1, ConcatProperties DEF n
  <2> HIDE DEF e
  <2>4. e \o t \in Seq(Byte) /\ Len(e \o t) = Len(e) + Len(t)
        /\ \A i \in 1..Len(e) + Len(t) : (e \o t)[i] = IF i <= Len(e) THEN e[i] ELSE t[i - Len(e)]
    BY <2>3, ConcatProperties
  <2>5. Len(t) \in Nat
    OBVIOUS
  <2> DEFINE data == e \o t
  <2>6. data \in Seq(Byte) /\ Len(data) = k + n + Len(t)
        /\ \A i \in 1..k + n : data[i] = e[i]
    BY <2>1, <2>3, <2>4, <2>5
  <2> HIDE DEF data
  <2>7. DecodeAtom(data) = DecodePayload(data, enc, k, TypeBits(type), n)
    <3>1. Len(data) >= k
      BY <2>1, <2>5, <2>6
    <3>2. \A i \in 1..k : data[i] = g[i]
      BY <2>1, <2>3, <2>6
    <3> QED BY <1>3, <2>6, <3>1, <3>2, HeaderRead DEF n, g, k
  <2>8. ~(Len(data) < k + n) /\ Len(data) >= k + n
    BY <2>1, <2>5, <2>6
  <2>9. DecodePayload(data, enc, k, TypeBits(type), n)
          = Decoded(k + n, Held(type, enc, Behind(data, k, n)))
    BY <1>3, <2>1, <2>6, <2>8, PayloadDecoded DEF n
  <2>10. Behind(data, k, n) = p
    <3> DEFINE q == Behind(data, k, n)
    <3>1. q \in Seq(Byte) /\ Len(q) = n /\ \A i \in 1..n : q[i] = data[k + i]
      BY <2>1, <2>6, <2>8, BehindBytes
    <3>2. ASSUME NEW i \in 1..n PROVE data[k + i] = p[i]
      <4> DEFINE j == k + i
      <4>1. j \in 1..k + n /\ ~(j <= k) /\ j - k = i
        BY <2>1
      <4> HIDE DEF j
      <4>2. data[j] = e[j] /\ e[j] = p[j - k]
        BY <2>3, <2>6, <4>1
      <4> QED BY <4>1, <4>2 DEF j
    <3> HIDE DEF q
    <3>3. q = p
      BY <3>1, <3>2, SeqEqual DEF n
    <3> QED BY <3>3 DEF q
  <2> QED BY <1>3, <2>2, <2>3, <2>7, <2>9, <2>10 DEF data
<1> QED BY <1>1, <1>2, <1>3 DEF Clean

\* Of what was encoded no proper beginning is decoded.
LEMMA CutThrown ==
    ASSUME NEW x, Clean(x), NEW m \in 0..Len(EncodeAtom(x)) - 1
    PROVE  ~DecodeAtom(SubSeq(EncodeAtom(x), 1, m)).ok
<1> DEFINE data == SubSeq(EncodeAtom(x), 1, m)
<1>0. EncodeAtom(x) \in Seq(Byte) /\ Len(EncodeAtom(x)) = AtomSize(x)
      /\ Len(EncodeAtom(x)) \in Nat
  <2>1. << >> \in Seq(Byte)
    OBVIOUS
  <2>2. EncodeAtom(x) \in Seq(Byte) /\ Len(EncodeAtom(x)) = AtomSize(x)
    BY <2>1, DecodedAgain
  <2> QED BY <2>2
<1>1. CASE m = 0
  <2>1. data = << >>
    BY <1>1, SubSeqEmpty
  <2> QED BY <2>1 DEF DecodeAtom, Thrown
<1>2. CASE m # 0
  <2>1. \A i \in 1..m : EncodeAtom(x)[i] \in Byte
    BY <1>0
  <2>2. data \in Seq(Byte) /\ Len(data) = m /\ \A i \in 1..m : data[i] = EncodeAtom(x)[i]
    <3>1. m - 1 + 1 = m /\ 1 <= m /\ \A i \in 1..m : 1 + i - 1 = i
      BY <1>2
    <3> QED BY <2>1, <3>1, SubSeqProperties
  <2>3. PICK type \in Types, enc \in Encodings, p \in Seq(Byte) :
          Allowed(type, enc, Len(p)) /\ x = Held(type, enc, p)
    <3>1. AtomSize(x) # 1
      BY <1>0, <1>2
    <3>2. x # Empty /\ ~\E h \in 0..127 : x = DecodeTiny(h)
      BY <3>1, EmptyCode, TinyEncoded
    <3> QED BY <3>2 DEF Clean
  <2> DEFINE n == Len(p)
             g == Header(type, enc, n)
             k == get_header_size(enc)
  <2>4. n \in Nat /\ k \in Nat \ {0} /\ g \in Seq(Byte) /\ Len(g) = k /\ EncodingOf(g[1]) = enc
    <3>1. g \in Seq(Byte) /\ Len(g) = k /\ EncodingOf(g[1]) = enc
      BY <2>3, HeaderSays
    <3>2. k \in Nat \ {0}
      BY DEF get_header_size, Encodings
    <3> QED BY <3>1, <3>2
  <2>5. EncodeAtom(x) = g \o p /\ AtomSize(x) = k + n
    BY <2>3, HeldEncoded
  <2> HIDE DEF n, g, k, data
  <2>6. \A i \in 1..k + n : (g \o p)[i] = IF i <= k THEN g[i] ELSE p[i - k]
    BY <2>4, ConcatProperties DEF n
  <2>7. m < k + n
    BY <1>0, <2>4, <2>5
  <2>8. \A i \in 1..m : i <= k => data[i] = g[i]
    BY <2>2, <2>4, <2>5, <2>6, <2>7
  <2>9. CASE m < k
    <3>1. data # << >> /\ Head(data) = data[1] /\ data[1] = g[1]
      BY <1>2, <2>2, <2>4, <2>8
    <3>2. ~(Len(data) >= get_header_size(enc))
      BY <2>2, <2>4, <2>9 DEF k
    <3>3. enc # "NONE" /\ enc # "TINY"
      BY DEF Encodings
    <3>4. DecodeAtom(data) = Thrown
      BY <2>4, <3>1, <3>2, <3>3 DEF DecodeAtom
    <3> QED BY <3>4 DEF Thrown, data
  <2>10. CASE ~(m < k)
    <3>1. DecodeAtom(data) = DecodePayload(data, enc, k, TypeBits(type), n)
      <4>1. Len(data) >= k
        BY <2>2, <2>4, <2>10
      <4>2. \A i \in 1..k : data[i] = g[i]
        BY <2>4, <2>8, <2>10
      <4> QED BY <2>2, <2>3, <4>1, <4>2, HeaderRead DEF n, g, k
    <3>2. DecodePayload(data, enc, k, TypeBits(type), n) = Thrown
      BY <2>2, <2>3, <2>4, <2>7, PayloadDecoded DEF n
    <3> QED BY <3>1, <3>2 DEF Thrown, data
  <2> QED BY <2>9, <2>10
<1> QED BY <1>1, <1>2

\* A header is made from what it says.
LEMMA HeaderWritten ==
    ASSUME NEW data \in Seq(Byte), NEW enc \in Encodings, Len(data) >= get_header_size(enc),
           EncodingOf(data[1]) = enc
    PROVE  /\ BitsIn(enc, data[1]) \in 0..3
           /\ Count(enc, data) \in Nat /\ Count(enc, data) < Counted(enc)
           /\ \A type : TypeBits(type) = BitsIn(enc, data[1]) =>
                \A i \in 1..get_header_size(enc) : Header(type, enc, Count(enc, data))[i] = data[i]
<1> DEFINE h == data[1]
           n == Count(enc, data)
           b == BitsIn(enc, h)
<1>0. Len(data) \in Nat /\ (\A i \in 1..Len(data) : data[i] \in 0..255) /\ EncodingOf(h) = enc
  <2>1. Len(data) \in Nat /\ (\A i \in 1..Len(data) : data[i] \in Byte)
    OBVIOUS
  <2>2. \A i \in 1..Len(data) : data[i] \in 0..255
    BY <2>1, ByteNumbers
  <2> QED BY <2>1, <2>2
<1>1. CASE enc = "SHORT"
  <2>1. get_header_size(enc) = 1
    BY <1>1 DEF get_header_size
  <2>2. h \in 0..255
    BY <1>0, <2>1
  <2>3. h >= 128 /\ h < 192
    <3> HIDE DEF h
    <3> QED BY <1>0, <1>1, <2>2, SMT DEF EncodingOf
  <2>4. n = h % 16 /\ b = (h \div 16) % 4
    BY <1>1 DEF Count, BitsIn
  <2> HIDE DEF h, n, b
  <2>5. b \in 0..3 /\ n \in Nat /\ n < 16 /\ 128 + (16 * b) + n = h
    BY <2>2, <2>3, <2>4, SMT
  <2>6. ASSUME NEW type, TypeBits(type) = b PROVE Header(type, enc, n) = <<h>>
    BY <1>1, <2>5, <2>6 DEF Header
  <2>7. ASSUME NEW type, TypeBits(type) = b, NEW i \in 1..1
        PROVE  Header(type, enc, n)[i] = data[i]
    BY <2>6, <2>7 DEF h
  <2>8. n < Counted(enc)
    BY <1>1, <2>5, SMT DEF Counted
  <2> QED BY <2>1, <2>5, <2>7, <2>8 DEF n, b, h
<1>2. CASE enc = "MEDIUM"
  <2> DEFINE c == data[2]
  <2>1. get_header_size(enc) = 2
    BY <1>2 DEF get_header_size
  <2>2. h \in 0..255 /\ c \in 0..255
    BY <1>0, <2>1
  <2>3. h >= 192 /\ h < 224
    <3> HIDE DEF h
    <3> QED BY <1>0, <1>2, <2>2, SMT DEF EncodingOf
  <2>4. n = (256 * (h % 8)) + c /\ b = (h \div 8) % 4
    BY <1>2 DEF Count, BitsIn
  <2> HIDE DEF h, n, b, c
  <2>5. /\ b \in 0..3 /\ n \in Nat /\ n < 2048
        /\ 192 + (8 * b) + (n \div 256) = h /\ n % 256 = c
    BY <2>2, <2>3, <2>4, SMT
  <2>6. ASSUME NEW type, TypeBits(type) = b PROVE Header(type, enc, n) = <<h, c>>
    BY <1>2, <2>5, <2>6 DEF Header
  <2>7. ASSUME NEW type, TypeBits(type) = b, NEW i \in 1..2
        PROVE  Header(type, enc, n)[i] = data[i]
    BY <2>6, <2>7 DEF h, c
  <2>8. n < Counted(enc)
    BY <1>2, <2>5, SMT DEF Counted
  <2> QED BY <2>1, <2>5, <2>7, <2>8 DEF n, b, h
<1>3. CASE enc = "LONG"
  <2> DEFINE c == data[2]
             m == data[3]
             e == data[4]
  <2>1. get_header_size(enc) = 4
    BY <1>3 DEF get_header_size
  <2>2. h \in 0..255 /\ c \in 0..255 /\ m \in 0..255 /\ e \in 0..255
    BY <1>0, <2>1
  <2>3. h >= 224 /\ h < 228
    <3> HIDE DEF h
    <3> QED BY <1>0, <1>3, <2>2, SMT DEF EncodingOf
  <2>4. n = (65536 * c) + (256 * m) + e /\ b = h % 4
    BY <1>3 DEF Count, BitsIn
  <2> HIDE DEF h, n, b, c, m, e
  <2>5. b \in 0..3 /\ 224 + b = h
    BY <2>2, <2>3, <2>4, SMT
  <2>6. n \in Nat /\ n < 256 * 65536 /\ n % 256 = e
    BY <2>2, <2>4, SMT
  <2>7. (n \div 65536) % 256 = c /\ (n \div 256) % 256 = m
    <3>1. n \div 65536 = c /\ n \div 256 = (256 * c) + m
      BY <2>2, <2>4, SMT
    <3>2. c % 256 = c /\ ((256 * c) + m) % 256 = m
      BY <2>2, SMT
    <3> QED BY <3>1, <3>2
  <2>8. ASSUME NEW type, TypeBits(type) = b PROVE Header(type, enc, n) = <<h, c, m, e>>
    BY <1>3, <2>5, <2>6, <2>7, <2>8 DEF Header
  <2>9. ASSUME NEW type, TypeBits(type) = b, NEW i \in 1..4
        PROVE  Header(type, enc, n)[i] = data[i]
    BY <2>8, <2>9 DEF h, c, m, e
  <2>10. n < Counted(enc)
    BY <1>3, <2>6, SMT DEF Counted
  <2> QED BY <2>1, <2>5, <2>6, <2>9, <2>10 DEF n, b, h
<1> QED BY <1>1, <1>2, <1>3 DEF Encodings

\* What is decoded from a drive is clean, and encoding it gives the bytes used.
LEMMA EncodedAgain ==
    ASSUME NEW data \in Seq(Byte), DecodeAtom(data).ok
    PROVE  LET r == DecodeAtom(data) IN
           /\ Clean(r.atom)
           /\ r.size = AtomSize(r.atom) /\ r.size <= Len(data)
           /\ EncodeAtom(r.atom) = SubSeq(data, 1, r.size)
<1> DEFINE r == DecodeAtom(data)
           h == data[1]
           enc == EncodingOf(h)
<1>1. data # << >> /\ Head(data) = h /\ Len(data) \in Nat /\ 1 \in 1..Len(data) /\ h \in Byte
  BY DEF DecodeAtom, Thrown
<1>2. SubSeq(data, 1, 1) = <<h>>
  <2> DEFINE s == SubSeq(data, 1, 1)
             t == <<h>>
  <2>1. \A i \in 1..1 : data[i] \in Byte
    BY <1>1
  <2>2. s \in Seq(Byte) /\ Len(s) = 1 /\ s[1] = h
    <3>1. 1 - 1 + 1 = 1 /\ 1 <= 1 /\ 1 + 1 - 1 = 1 /\ 1 \in 1..1
      OBVIOUS
    <3> QED BY <2>1, <3>1, SubSeqProperties
  <2>3. t \in Seq(Byte) /\ Len(t) = 1 /\ t[1] = h
    BY <1>1
  <2> HIDE DEF s, t
  <2>4. s = t
    BY <2>2, <2>3, SeqEqual
  <2> QED BY <2>4 DEF s, t
<1> HIDE DEF h
<1>3. CASE enc = "NONE"
  <2>1. r = Decoded(1, Empty)
    BY <1>1, <1>3 DEF DecodeAtom
  <2>2. h = 255
    BY <1>3, Zenon DEF EncodingOf
  <2>3. r.atom = Empty /\ r.size = 1
    BY <2>1 DEF Decoded
  <2> QED BY <1>1, <1>2, <2>2, <2>3, EmptyCode DEF Clean
<1>4. CASE enc = "TINY"
  <2>1. r = Decoded(1, DecodeTiny(h))
    BY <1>1, <1>4 DEF DecodeAtom
  <2>2. h \in 0..127
    <3>1. h \in 0..255
      BY <1>1 DEF Byte
    <3> QED BY <1>4, <3>1, SMT DEF EncodingOf
  <2>3. r.atom = DecodeTiny(h) /\ r.size = 1
    BY <2>1 DEF Decoded
  <2>4. EncodeAtom(r.atom) = <<h>> /\ AtomSize(r.atom) = 1
    BY <2>2, <2>3, TinyEncoded
  <2>5. Clean(r.atom)
    BY <2>2, <2>3, Zenon DEF Clean
  <2> QED BY <1>1, <1>2, <2>3, <2>4, <2>5
<1>5. CASE enc \in Encodings /\ Len(data) >= get_header_size(enc)
  <2> DEFINE k == get_header_size(enc)
             n == Count(enc, data)
             b == BitsIn(enc, h)
             type == decode_set_type(b)
             p == Behind(data, k, n)
  <2>1. r = DecodePayload(data, enc, k, b, n)
    BY <1>1, <1>5 DEF DecodeAtom, Encodings, h
  <2>2. /\ b \in 0..3 /\ n \in Nat /\ n < Counted(enc) /\ k \in Nat
        /\ \A y : TypeBits(y) = b => \A i \in 1..k : Header(y, enc, n)[i] = data[i]
    <3>1. k \in Nat
      BY DEF get_header_size
    <3> QED BY <1>5, <3>1, HeaderWritten DEF h
  <2> HIDE DEF b, n, k, enc
  <2>3. b # 3 /\ ~TooShort(data, k, n) /\ (b < 2 => n \in 1..8)
    <3> SUFFICES ASSUME b = 3 \/ TooShort(data, k, n) \/ (b < 2 /\ n \notin 1..8) PROVE FALSE
      BY Zenon
    <3>1. r = Thrown
      BY <2>1, Zenon DEF DecodePayload
    <3> QED BY <3>1 DEF Thrown
  <2>4. type \in Types /\ TypeBits(type) = b
    BY <2>2, <2>3 DEF decode_set_type, Types, TypeBits
  <2> HIDE DEF type
  <2>5. Allowed(type, enc, n)
    <3>1. type # "BYTES" => b < 2
      BY <2>4, TypeNames
    <3> QED BY <1>5, <2>2, <2>3, <2>4, <3>1 DEF Allowed
  <2>6. ~(Len(data) < k + n) /\ Len(data) >= k + n
    BY <1>1, <2>2, <2>3 DEF TooShort
  <2>7. r = Decoded(k + n, Held(type, enc, p))
    BY <2>1, <2>2, <2>4, <2>5, <2>6, PayloadDecoded
  <2>8. r.ok /\ r.size = k + n /\ r.atom = Held(type, enc, p)
    BY <2>7 DEF Decoded
  <2>9. p \in Seq(Byte) /\ Len(p) = n /\ \A i \in 1..n : p[i] = data[k + i]
    BY <2>2, <2>6, BehindBytes
  <2> HIDE DEF p
  <2>10. Clean(r.atom)
    BY <1>5, <2>4, <2>5, <2>8, <2>9, Zenon DEF Clean
  <2> DEFINE g == Header(type, enc, n)
  <2>11. EncodeAtom(r.atom) = g \o p /\ AtomSize(r.atom) = k + n
    BY <2>5, <2>8, <2>9, HeldEncoded DEF k
  <2>12. g \in Seq(Byte) /\ Len(g) = k /\ \A i \in 1..k : g[i] = data[i]
    BY <2>2, <2>4, <2>5, HeaderSays DEF k
  <2> HIDE DEF g
  <2>13. g \o p \in Seq(Byte) /\ Len(g \o p) = k + n
         /\ \A i \in 1..k + n : (g \o p)[i] = IF i <= k THEN g[i] ELSE p[i - k]
    <3>1. g \o p \in Seq(Byte) /\ Len(g \o p) = Len(g) + Len(p)
          /\ \A i \in 1..Len(g) + Len(p) :
               (g \o p)[i] = IF i <= Len(g) THEN g[i] ELSE p[i - Len(g)]
      <4>1. g \in Seq(Byte) /\ p \in Seq(Byte)
        BY <2>9, <2>12
      <4> QED BY <4>1, ConcatProperties
    <3> QED BY <2>9, <2>12, <3>1
  <2> DEFINE s == SubSeq(data, 1, k + n)
  <2>14. s \in Seq(Byte) /\ Len(s) = k + n /\ \A i \in 1..k + n : s[i] = data[i]
    <3>1. k + n \in Int /\ 1 \in Int /\ k + n - 1 + 1 = k + n /\ \A i \in 1..k + n : 1 + i - 1 = i
      BY <2>2
    <3>2. \A i \in 1..k + n : data[i] \in Byte
      BY <1>1, <2>2, <2>6
    <3>3. /\ SubSeq(data, 1, k + n) \in Seq(Byte)
          /\ Len(SubSeq(data, 1, k + n)) = IF 1 <= k + n THEN k + n - 1 + 1 ELSE 0
          /\ \A i \in 1..k + n - 1 + 1 : SubSeq(data, 1, k + n)[i] = data[1 + i - 1]
      BY <3>1, <3>2, SubSeqProperties
    <3> QED BY <2>2, <3>1, <3>3
  <2>15. ASSUME NEW i \in 1..k + n PROVE (g \o p)[i] = s[i]
    <3>1. CASE i <= k
      BY <2>2, <2>12, <2>13, <2>14, <3>1
    <3>2. CASE ~(i <= k)
      <4> DEFINE j == i - k
      <4>1. j \in 1..n /\ k + j = i
        BY <2>2, <3>2
      <4> HIDE DEF j
      <4>2. p[j] = data[i]
        BY <2>9, <4>1
      <4> QED BY <2>13, <2>14, <3>2, <4>2 DEF j
    <3> QED BY <3>1, <3>2
  <2> HIDE DEF s
  <2>16. g \o p = s
    BY <2>13, <2>14, <2>15, SeqEqual
  <2>17. r.size <= Len(data)
    BY <1>1, <2>2, <2>6, <2>8
  <2> QED BY <2>8, <2>10, <2>11, <2>16, <2>17 DEF s
<1> QED
  <2> SUFFICES ASSUME enc # "NONE", enc # "TINY",
                      ~(enc \in Encodings /\ Len(data) >= get_header_size(enc))
               PROVE  FALSE
    BY <1>3, <1>4, <1>5
  <2>1. r = Thrown
    BY <1>1 DEF DecodeAtom, Encodings
  <2> QED BY <2>1 DEF Thrown

-----------------------------------------------------------------------------
\* The factories.

\* The atom encodes as one that a decoder yields, equal and of the same value.
Faithful(factory, given, y) ==
    \E x : /\ Clean(x) /\ SameAtom(x, y)
           /\ EncodeAtom(y) = EncodeAtom(x) /\ AtomSize(y) = AtomSize(x)
           /\ Get(factory, x) = given

LEMMA TinyIntClean ==
    ASSUME NEW w \in Raw, TinyInt(w)
    PROVE  Clean(new_int(w))
<1>1. new_int(w) = Atom("INT", "TINY", 0, w, << >>)
  BY DEF new_int
<1>2. ASSUME NEW b \in 0..31, w = Fill(0, 7) \o <<b>>
      PROVE  \E h \in 0..127 : new_int(w) = DecodeTiny(h)
  <2> DEFINE h == 64 + b
  <2>1. h \in 0..127 /\ ~(h < 64) /\ h % 64 = b /\ ~(b >= 32)
    BY SMT
  <2> HIDE DEF h
  <2>2. DecodeTiny(h) = Atom("INT", "TINY", 0, w, << >>)
    BY <1>2, <2>1, Zenon DEF DecodeTiny
  <2> QED BY <1>1, <2>1, <2>2, Zenon
<1>3. ASSUME NEW b \in 224..255, w = Fill(255, 7) \o <<b>>
      PROVE  \E h \in 0..127 : new_int(w) = DecodeTiny(h)
  <2> DEFINE h == b - 128
             v == b - 192
  <2>1. h \in 0..127 /\ ~(h < 64) /\ h % 64 = v /\ v >= 32 /\ 192 + v = b
    BY SMT
  <2> HIDE DEF h, v
  <2>2. DecodeTiny(h) = Atom("INT", "TINY", 0, w, << >>)
    BY <1>3, <2>1, ZenonT(30) DEF DecodeTiny
  <2> QED BY <1>1, <2>1, <2>2, Zenon
<1>4. \/ \E b \in 0..31 : w = Fill(0, 7) \o <<b>>
      \/ \E b \in 224..255 : w = Fill(255, 7) \o <<b>>
  BY Zenon DEF TinyInt
<1> QED BY <1>2, <1>3, <1>4, Zenon DEF Clean

LEMMA TinyUintClean ==
    ASSUME NEW w \in Raw, TinyUint(w)
    PROVE  Clean(new_uint(w))
<1>1. new_uint(w) = Atom("UINT", "TINY", 0, w, << >>)
  BY DEF new_uint
<1>2. PICK b \in 0..63 : w = Fill(0, 7) \o <<b>>
  BY Zenon DEF TinyUint
<1>3. b \in 0..127 /\ b < 64
  BY SMT
<1>4. DecodeTiny(b) = Atom("UINT", "TINY", 0, w, << >>)
  BY <1>2, <1>3, Zenon DEF DecodeTiny
<1> QED BY <1>1, <1>3, <1>4, Zenon DEF Clean

\* An integer of which s bytes are dropped.
LEMMA IntegerClean ==
    ASSUME NEW type \in {"INT", "UINT"}, NEW w \in Raw, NEW s \in 0..7,
           Extended(type, Low(w, 8 - s)) = w
    PROVE  Clean(Atom(type, "SHORT", s, w, << >>))
<1> DEFINE p == Low(w, 8 - s)
           n == 8 - s
<1>1. n \in 0..8 /\ n \in 1..8 /\ n < 16 /\ n \in Nat /\ 8 - n = s
  BY SMT
<1>2. p \in Seq(Byte) /\ Len(p) = n
  BY <1>1, LowBytes
<1> HIDE DEF p, n
<1>3. Allowed(type, "SHORT", n)
  BY <1>1 DEF Allowed, Types, Encodings, Counted
<1>4. Held(type, "SHORT", p) = Atom(type, "SHORT", s, w, << >>)
  BY <1>1, <1>2 DEF Held, p
<1>5. type \in Types /\ "SHORT" \in Encodings
  BY DEF Types, Encodings
<1> QED BY <1>2, <1>3, <1>4, <1>5, Zenon DEF Clean

LEMMA IntFaithful ==
    ASSUME NEW w \in Raw
    PROVE  Faithful("new_int", w, new_int(w))
<1>1. Clean(new_int(w))
  <2>1. CASE TinyInt(w)
    BY <2>1, TinyIntClean
  <2>2. CASE ~TinyInt(w)
    <3>1. new_int(w) = Atom("INT", "SHORT", DroppedInt(w), w, << >>)
      BY <2>2 DEF new_int
    <3> QED BY <3>1, DroppedIntIs, IntKept, IntegerClean
  <2> QED BY <2>1, <2>2
<1>2. new_int(w).type = "INT" /\ new_int(w).val = w
  BY DEF new_int, Atom
<1>3. SameAtom(new_int(w), new_int(w)) /\ Get("new_int", new_int(w)) = w
  BY <1>2 DEF SameAtom, Get, get_int
<1> QED BY <1>1, <1>3, Zenon DEF Faithful

LEMMA UintFaithful ==
    ASSUME NEW w \in Raw
    PROVE  Faithful("new_uint", w, new_uint(w))
<1>1. Clean(new_uint(w))
  <2>1. CASE TinyUint(w)
    BY <2>1, TinyUintClean
  <2>2. CASE ~TinyUint(w)
    <3>1. new_uint(w) = Atom("UINT", "SHORT", DroppedUint(w), w, << >>)
      BY <2>2 DEF new_uint
    <3> QED BY <2>2, <3>1, DroppedUintIs, NotAllDropped, UintKept, IntegerClean
  <2> QED BY <2>1, <2>2
<1>2. new_uint(w).type = "UINT" /\ new_uint(w).val = w
  BY DEF new_uint, Atom
<1>3. SameAtom(new_uint(w), new_uint(w)) /\ Get("new_uint", new_uint(w)) = w
  BY <1>2 DEF SameAtom, Get, get_uint
<1> QED BY <1>1, <1>3, Zenon DEF Faithful

\* A byte sequence, whatever is left in the other fields.
LEMMA BytesFaithful ==
    ASSUME NEW enc \in Encodings, NEW p \in Seq(Byte), Len(p) < Counted(enc), NEW val,
           NEW factory, Get(factory, Held("BYTES", enc, p)) = p
    PROVE  Faithful(factory, p, Atom("BYTES", enc, 0, val, p))
<1> DEFINE x == Held("BYTES", enc, p)
           y == Atom("BYTES", enc, 0, val, p)
<1>1. Clean(x)
  <2>1. "BYTES" \in Types /\ Allowed("BYTES", enc, Len(p))
    BY DEF Allowed, Types
  <2> QED BY <2>1, Zenon DEF Clean
<1>2. /\ x.type = "BYTES" /\ x.enc = enc /\ x.bytes = p
      /\ y.type = "BYTES" /\ y.enc = enc /\ y.bytes = p
  BY DEF Held, Atom
<1> HIDE DEF x, y
<1>3. Payload(x) = Payload(y)
  BY <1>2 DEF Payload
<1>4. EncodeAtom(y) = EncodeAtom(x) /\ AtomSize(y) = AtomSize(x) /\ SameAtom(x, y)
  BY <1>2, <1>3 DEF EncodeAtom, AtomSize, SameAtom, Encodings
<1> QED BY <1>1, <1>4, Zenon DEF Faithful, x, y

LEMMA HalfIsLow ==
    ASSUME NEW w \in Raw
    PROVE  Low(w, 4) \in Seq(Byte) /\ Len(Low(w, 4)) = 4
<1>1. 4 \in 0..8
  OBVIOUS
<1> QED BY <1>1, LowBytes

LEMMA UidFaithful ==
    ASSUME NEW w \in Raw
    PROVE  Faithful("new_uid", w, new_uid(w))
<1>1. w \in Seq(Byte) /\ Len(w) = 8
  BY WordsAreSequences
<1>2. "SHORT" \in Encodings /\ Len(w) < Counted("SHORT")
  BY <1>1 DEF Encodings, Counted
<1>3. Get("new_uid", Held("BYTES", "SHORT", w)) = w
  BY <1>1 DEF Get, get_uid, Held, Atom
<1> QED BY <1>1, <1>2, <1>3, BytesFaithful DEF new_uid

LEMMA HalfFaithful ==
    ASSUME NEW w \in Raw
    PROVE  Faithful("new_half_uid", Low(w, 4), new_half_uid(w))
<1> DEFINE p == Low(w, 4)
<1>1. p \in Seq(Byte) /\ Len(p) = 4
  BY HalfIsLow
<1>2. new_half_uid(w) = Atom("BYTES", "SHORT", 0, Fill(0, 4) \o p, p)
  BY DEF new_half_uid
<1> HIDE DEF p
<1>3. "SHORT" \in Encodings /\ Len(p) < Counted("SHORT")
  BY <1>1 DEF Encodings, Counted
<1>4. Get("new_half_uid", Held("BYTES", "SHORT", p)) = p
  BY <1>1 DEF Get, get_half_uid, Held, Atom
<1>5. Faithful("new_half_uid", p, new_half_uid(w))
  BY <1>1, <1>2, <1>3, <1>4, BytesFaithful
<1> QED BY <1>5 DEF p

LEMMA BinFaithful ==
    ASSUME NEW b \in Seq(Byte), Len(b) < 256 * 65536
    PROVE  Faithful("new_bin", b, new_bin(b))
<1> DEFINE enc == pick_encoding(Len(b))
<1>1. enc \in Encodings /\ Len(b) < Counted(enc)
  BY SMT DEF pick_encoding, Encodings, Counted
<1>2. new_bin(b) = Atom("BYTES", enc, 0, Zero, b)
  BY DEF new_bin
<1> HIDE DEF enc
<1>3. Get("new_bin", Held("BYTES", enc, b)) = b
  BY DEF Get, get_bytes, Held, Atom
<1> QED BY <1>1, <1>2, <1>3, BytesFaithful

-----------------------------------------------------------------------------
\* One atom on its way.

\* What a factory was given, and what it made of it.
Made ==
    \/ made[1] = "new_int" /\ made[2] \in Raw /\ atom = new_int(made[2])
    \/ made[1] = "new_uint" /\ made[2] \in Raw /\ atom = new_uint(made[2])
    \/ made[1] = "new_uid" /\ made[2] \in Raw /\ atom = new_uid(made[2])
    \/ made[1] = "new_half_uid" /\ \E w \in Raw : made[2] = Low(w, 4) /\ atom = new_half_uid(w)
    \/ /\ made[1] = "new_bin" /\ made[2] \in Seq(Byte) /\ Len(made[2]) < 256 * 65536
       /\ atom = new_bin(made[2])

\* The bytes on the wire are the atom's, whole or cut short, with or without
\* others behind them.
Wired ==
    IF cut THEN \E m \in 0..Len(EncodeAtom(atom)) - 1 : wire = SubSeq(EncodeAtom(atom), 1, m)
    ELSE \E t \in Seq(Byte) : wire = EncodeAtom(atom) \o t

OnItsWay ==
    /\ step = "value" => made[1] = "none"
    /\ step \in {"value", "made"} => ~cut
    /\ step = "made" => made[1] \in Factories
    /\ made[1] \in Factories => Made /\ (step \in {"sent", "cut", "followed", "received"} => Wired)
    /\ step = "sent" /\ made[1] \in Factories => ~cut /\ wire = EncodeAtom(atom)
    /\ made[1] = "drive" => wire \in Seq(Byte) /\ ~cut /\ step # "made"
    /\ made[1] \in Factories \cup {"none", "drive"}
    /\ made[1] = "none" => step = "value"
    /\ step = "received" => result = DecodeAtom(wire)

LEMMA MadeFaithful ==
    ASSUME Made PROVE Faithful(made[1], made[2], atom)
BY IntFaithful, UintFaithful, UidFaithful, HalfFaithful, BinFaithful DEF Made

LEMMA MadeEncodes ==
    ASSUME Made PROVE EncodeAtom(atom) \in Seq(Byte) /\ Len(EncodeAtom(atom)) \in Nat
<1>1. PICK x : Clean(x) /\ EncodeAtom(atom) = EncodeAtom(x)
  BY MadeFaithful DEF Faithful
<1>2. << >> \in Seq(Byte)
  OBVIOUS
<1>3. EncodeAtom(atom) \in Seq(Byte)
  BY <1>1, <1>2, DecodedAgain
<1> QED BY <1>3

atomvars == <<step, made, atom, wire, cut, result>>

LEMMA OnItsWayStep == Values /\ OnItsWay /\ [AtomNext]_atomvars => OnItsWay'
<1> SUFFICES ASSUME Values, OnItsWay, [AtomNext]_atomvars PROVE OnItsWay'
  OBVIOUS
<1>1. ASSUME NEW f \in Factories, NEW v, NEW x, step = "value", Make(f, v, x), Made'
      PROVE  OnItsWay'
  BY <1>1 DEF Make, OnItsWay, Factories
<1>2. CASE MakeInt
  <2>1. PICK w \in Words : Make("new_int", w, new_int(w))
    BY <1>2 DEF MakeInt
  <2>2. Made'
    BY <2>1 DEF Make, Made, Values
  <2>3. step = "value"
    BY <1>2 DEF MakeInt
  <2> QED BY <1>1, <2>1, <2>2, <2>3 DEF Factories
<1>3. CASE MakeUint
  <2>1. PICK w \in Words : Make("new_uint", w, new_uint(w))
    BY <1>3 DEF MakeUint
  <2>2. Made'
    BY <2>1 DEF Make, Made, Values
  <2>3. step = "value"
    BY <1>3 DEF MakeUint
  <2> QED BY <1>1, <2>1, <2>2, <2>3 DEF Factories
<1>4. CASE MakeUid
  <2>1. PICK w \in Words : Make("new_uid", w, new_uid(w))
    BY <1>4 DEF MakeUid
  <2>2. Made'
    BY <2>1 DEF Make, Made, Values
  <2>3. step = "value"
    BY <1>4 DEF MakeUid
  <2> QED BY <1>1, <2>1, <2>2, <2>3 DEF Factories
<1>5. CASE MakeHalf
  <2>1. PICK w \in Words : Make("new_half_uid", Low(w, 4), new_half_uid(w))
    BY <1>5 DEF MakeHalf
  <2>2. Made'
    BY <2>1 DEF Make, Made, Values
  <2>3. step = "value"
    BY <1>5 DEF MakeHalf
  <2> QED BY <1>1, <2>1, <2>2, <2>3 DEF Factories
<1>6. CASE MakeBin
  <2>1. PICK b \in Blobs : Make("new_bin", b, new_bin(b))
    BY <1>6 DEF MakeBin
  <2>2. Made'
    BY <2>1 DEF Make, Made, Values
  <2>3. step = "value"
    BY <1>6 DEF MakeBin
  <2> QED BY <1>1, <2>1, <2>2, <2>3 DEF Factories
<1>7. CASE SendAtom
  <2>1. made[1] \in Factories /\ Made /\ ~cut /\ wire' = EncodeAtom(atom)
        /\ UNCHANGED <<made, atom, cut, result>>
        /\ step' = "sent"
    BY <1>7 DEF SendAtom, OnItsWay
  <2>2. Made'
    BY <2>1 DEF Made
  <2>3. Wired'
    <3>1. EncodeAtom(atom) \in Seq(Byte)
      BY <2>1, MadeEncodes
    <3>2. EncodeAtom(atom) \o << >> = EncodeAtom(atom) /\ << >> \in Seq(Byte)
      BY <3>1, ConcatEmptySeq
    <3> QED BY <2>1, <3>2 DEF Wired
  <2> QED BY <2>1, <2>2, <2>3 DEF OnItsWay, Factories
<1>8. CASE CutAtom
  <2>1. /\ made[1] \in Factories /\ Made /\ wire = EncodeAtom(atom) /\ UNCHANGED <<made, atom, result>>
        /\ step' = "cut" /\ cut'
        /\ \E m \in 0..Len(wire) - 1 : wire' = SubSeq(wire, 1, m)
    BY <1>8 DEF CutAtom, OnItsWay
  <2>2. Made' /\ Wired'
    BY <2>1 DEF Made, Wired
  <2> QED BY <2>1, <2>2 DEF OnItsWay, Factories
<1>9. CASE Follow
  <2>1. /\ made[1] \in Factories /\ Made /\ wire = EncodeAtom(atom) /\ ~cut
        /\ UNCHANGED <<made, atom, cut, result>> /\ step' = "followed"
        /\ \E t \in Tails : wire' = wire \o t
    BY <1>9 DEF Follow, OnItsWay
  <2>2. Made' /\ Wired'
    BY <2>1 DEF Made, Wired, Values
  <2> QED BY <2>1, <2>2 DEF OnItsWay, Factories
<1>10. CASE ReceiveAtom
  BY <1>10 DEF ReceiveAtom, OnItsWay, Values, Factories
<1>11. CASE GetAtom
  <2>1. UNCHANGED <<made, atom, wire, cut>> /\ step' = "received" /\ result' = DecodeAtom(wire)
        /\ step \in {"sent", "cut", "followed"}
    BY <1>11 DEF GetAtom
  <2>2. made[1] \in Factories => Made' /\ Wired'
    BY <2>1 DEF OnItsWay, Made, Wired
  <2> QED BY <2>1, <2>2 DEF OnItsWay
<1>12. CASE UNCHANGED atomvars
  BY <1>12 DEF atomvars, OnItsWay, Made, Wired
<1> QED BY <1>2, <1>3, <1>4, <1>5, <1>6, <1>7, <1>8, <1>9, <1>10, <1>11, <1>12 DEF AtomNext

LEMMA OnItsWayInit == AtomInit => OnItsWay
BY DEF AtomInit, OnItsWay, Factories

\* Any word, any half UID and any binary of fewer than 2^24 bytes is decoded to
\* what was encoded, in the size that was announced, whatever follows it.
LEMMA AtomsReturn == OnItsWay => AtomReturns
<1> SUFFICES ASSUME OnItsWay, step = "received", made[1] \in Factories, ~cut
             PROVE  /\ result.ok /\ SameAtom(result.atom, atom)
                    /\ result.size = AtomSize(atom) /\ AtomSize(atom) = Len(EncodeAtom(atom))
                    /\ Get(made[1], result.atom) = made[2]
  BY DEF AtomReturns
<1>1. Made /\ Wired /\ result = DecodeAtom(wire)
  BY DEF OnItsWay
<1>2. PICK x : /\ Clean(x) /\ SameAtom(x, atom)
               /\ EncodeAtom(atom) = EncodeAtom(x) /\ AtomSize(atom) = AtomSize(x)
               /\ Get(made[1], x) = made[2]
  BY <1>1, MadeFaithful DEF Faithful
<1>3. PICK t \in Seq(Byte) : wire = EncodeAtom(x) \o t
  BY <1>1, <1>2 DEF Wired
<1>4. result = Decoded(AtomSize(x), x) /\ Len(EncodeAtom(x)) = AtomSize(x)
  BY <1>1, <1>2, <1>3, DecodedAgain
<1>5. result.ok /\ result.atom = x /\ result.size = AtomSize(x)
  BY <1>4 DEF Decoded
<1> QED BY <1>2, <1>4, <1>5

\* No proper beginning of an atom, cut anywhere, is taken for an atom.
LEMMA AtomsCutShort == OnItsWay => AtomCutNoticed
<1> SUFFICES ASSUME OnItsWay, step = "received", cut PROVE ~result.ok
  BY DEF AtomCutNoticed
<1>1. made[1] \in Factories /\ Made /\ Wired /\ result = DecodeAtom(wire)
  BY DEF OnItsWay
<1>2. PICK x : Clean(x) /\ EncodeAtom(atom) = EncodeAtom(x)
  BY <1>1, MadeFaithful DEF Faithful
<1>3. PICK m \in 0..Len(EncodeAtom(x)) - 1 : wire = SubSeq(EncodeAtom(x), 1, m)
  BY <1>1, <1>2 DEF Wired
<1> QED BY <1>1, <1>2, <1>3, CutThrown

\* Whatever bytes a drive sends, an atom decoded from them is encoded again to
\* just the bytes that were used.
LEMMA NothingIsLost == OnItsWay => AtomNotLost
BY EncodedAgain DEF OnItsWay, AtomNotLost

\* The reference extends bytes as the decoder does.
LEMMA SameReading ==
    ASSUME NEW type, NEW p, Head(p) = p[1]
    PROVE  Means(type, p) = Extended(type, p)
<1> DEFINE FilledAs(h) == Fill(IF type = "INT" /\ h >= 128 THEN 255 ELSE 0, 8 - Len(p)) \o p
<1>1. Means(type, p) = FilledAs(p[1]) /\ Extended(type, p) = FilledAs(Head(p))
  BY DEF Means, Extended
<1> HIDE DEF FilledAs
<1> QED BY <1>1

\* So a word that the n least bytes mean begins with their sign.
LEMMA MeansExtends ==
    ASSUME NEW type, NEW w \in Raw, NEW n \in 1..8, Means(type, Low(w, n)) = w
    PROVE  \A i \in 1..8 - n : w[i] = SignFill(type, Low(w, n))
<1>1. n \in 0..8 /\ n > 0
  OBVIOUS
<1>2. Low(w, n) \in Seq(Byte) /\ Len(Low(w, n)) = n
  BY <1>1, LowBytes
<1> DEFINE p == Low(w, n)
<1>3. p \in Seq(Byte) /\ Len(p) = n
  BY <1>2
<1>4. Means(type, p) = w
  OBVIOUS
<1> HIDE DEF p
<1>5. Head(p) = p[1]
  BY <1>1, <1>3
<1>6. Extended(type, p) = w
  <2>1. Extended(type, p) = Means(type, p)
    BY <1>5, SameReading
  <2> QED BY <1>4, <2>1
<1>7. \A i \in 1..8 - n : Extended(type, p)[i] = SignFill(type, p)
  BY <1>3, ExtendedBytes
<1> QED BY <1>6, <1>7 DEF p

\* The bytes of an integer that have its value.
LEMMA EnoughForInt ==
    ASSUME NEW w \in Raw, NEW n \in 1..8, Means("INT", Low(w, n)) = w
    PROVE  8 - n <= DroppedInt(w)
<1> DEFINE s == 8 - n
<1>1. s \in 0..7 /\ s + 1 \in 1..8 /\ n \in 0..8 /\ 1 \in 1..n
  OBVIOUS
<1>2. \A i \in 1..n : Low(w, n)[i] = w[8 - n + i]
  BY <1>1, LowBytes
<1>3. Low(w, n)[1] = w[s + 1]
  BY <1>1, <1>2
<1>4. \A i \in 1..s : w[i] = SignFill("INT", Low(w, n))
  BY MeansExtends
<1> HIDE DEF s
<1>5. \A i \in 1..s : w[i] = IF w[s + 1] >= 128 THEN 255 ELSE 0
  BY <1>3, <1>4 DEF SignFill
<1>6. Negative(w) = (w[s + 1] >= 128)
  <2>1. CASE s = 0
    BY <2>1 DEF Negative
  <2>2. CASE s # 0
    <3>1. 1 \in 1..s
      BY <1>1, <2>2
    <3>2. w[1] = IF w[s + 1] >= 128 THEN 255 ELSE 0
      BY <1>5, <3>1
    <3>3. (255 >= 128) = TRUE /\ (0 >= 128) = FALSE
      OBVIOUS
    <3> QED BY <3>2, <3>3 DEF Negative
  <2> QED BY <2>1, <2>2
<1>7. ASSUME NEW i \in 1..s
      PROVE  w[i] = (IF Negative(w) THEN 255 ELSE 0) /\ (w[i + 1] >= 128) = Negative(w)
  <2>1. w[i] = IF Negative(w) THEN 255 ELSE 0
    BY <1>5, <1>6 DEF Negative
  <2>2. CASE i = s
    BY <1>6, <2>1, <2>2
  <2>3. CASE i # s
    <3>1. i + 1 \in 1..s
      BY <1>1, <2>3
    <3>2. w[i + 1] = IF Negative(w) THEN 255 ELSE 0
      BY <1>5, <1>6, <3>1 DEF Negative
    <3>3. (255 >= 128) = TRUE /\ (0 >= 128) = FALSE
      OBVIOUS
    <3> QED BY <2>1, <3>2, <3>3 DEF Negative
  <2> QED BY <2>2, <2>3
<1>8. SignOnly(w, s)
  BY <1>7 DEF SignOnly
<1> QED BY <1>1, <1>8, DroppedIntIs DEF s

LEMMA EnoughForUint ==
    ASSUME NEW w \in Raw, NEW n \in 1..8, Means("UINT", Low(w, n)) = w
    PROVE  8 - n <= DroppedUint(w)
<1> DEFINE s == 8 - n
<1>1. s \in 0..8 /\ n \in 0..8
  OBVIOUS
<1>4. \A i \in 1..s : w[i] = 0
  BY MeansExtends DEF SignFill
<1>5. ZeroOnly(w, s)
  BY <1>4 DEF ZeroOnly
<1> QED BY <1>1, <1>5, DroppedUintIs

LEMMA LeastEnough ==
    ASSUME NEW type \in {"INT", "UINT"}, NEW w \in Raw, NEW s \in 0..7,
           Extended(type, Low(w, 8 - s)) = w,
           \A n \in 1..8 : Means(type, Low(w, n)) = w => 8 - n <= s
    PROVE  8 - s = Min(Enough(type, w))
<1> DEFINE S == Enough(type, w)
           m == 8 - s
<1>1. m \in 1..8 /\ m \in 0..8
  OBVIOUS
<1>2. Means(type, Low(w, m)) = w
  <2>1. Low(w, m) \in Seq(Byte) /\ Len(Low(w, m)) = m
    BY <1>1, LowBytes
  <2>2. Head(Low(w, m)) = Low(w, m)[1]
    BY <1>1, <2>1
  <2>3. Means(type, Low(w, m)) = Extended(type, Low(w, m))
    BY <2>2, SameReading
  <2> QED BY <2>3
<1>3. m \in S /\ S \in SUBSET (0..8)
  BY <1>1, <1>2 DEF Enough
<1>4. Min(S) \in S /\ \A n \in S : Min(S) <= n
  BY <1>3, Extremes
<1>5. Min(S) \in 1..8 /\ 8 - Min(S) <= s
  BY <1>4 DEF Enough
<1>6. Min(S) <= m
  BY <1>3, <1>4
<1> HIDE DEF S
<1> QED BY <1>5, <1>6 DEF S

\* Any integer is encoded in as few bytes as have its value.
LEMMA IntegersShort == OnItsWay => ShortestInteger
<1> SUFFICES ASSUME OnItsWay, made[1] \in {"new_int", "new_uint"}, atom.enc = "SHORT"
             PROVE  8 - atom.skip = Min(Enough(atom.type, made[2]))
  BY DEF ShortestInteger
<1> DEFINE w == made[2]
<1>1. CASE made[1] = "new_int"
  <2>1. w \in Raw /\ atom = new_int(w)
    BY <1>1 DEF OnItsWay, Made, Factories
  <2>2. atom = Atom("INT", "SHORT", DroppedInt(w), w, << >>)
    BY <2>1 DEF new_int, Atom
  <2>3. atom.type = "INT" /\ atom.skip = DroppedInt(w)
    BY <2>2 DEF Atom
  <2>4. DroppedInt(w) \in 0..7 /\ Extended("INT", Low(w, 8 - DroppedInt(w))) = w
    BY <2>1, DroppedIntIs, IntKept
  <2> QED BY <2>1, <2>3, <2>4, EnoughForInt, LeastEnough
<1>2. CASE made[1] = "new_uint"
  <2>1. w \in Raw /\ atom = new_uint(w)
    BY <1>2 DEF OnItsWay, Made, Factories
  <2>2. ~TinyUint(w) /\ atom = Atom("UINT", "SHORT", DroppedUint(w), w, << >>)
    BY <2>1 DEF new_uint, Atom
  <2>3. atom.type = "UINT" /\ atom.skip = DroppedUint(w)
    BY <2>2 DEF Atom
  <2>4. DroppedUint(w) \in 0..7 /\ Extended("UINT", Low(w, 8 - DroppedUint(w))) = w
    BY <2>1, <2>2, DroppedUintIs, NotAllDropped, UintKept
  <2> QED BY <2>1, <2>3, <2>4, EnoughForUint, LeastEnough
<1> QED BY <1>1, <1>2

-----------------------------------------------------------------------------
\* The bytes of e are in data, behind the first k.
At(data, k, e) == k + Len(e) <= Len(data) /\ \A i \in 1..Len(e) : data[k + i] = e[i]

LEMMA FromIs ==
    ASSUME NEW data \in Seq(Byte), NEW k \in Nat, k <= Len(data)
    PROVE  /\ From(data, k) \in Seq(Byte) /\ Len(From(data, k)) = Len(data) - k
           /\ \A i \in 1..Len(data) - k : From(data, k)[i] = data[k + i]
<1>1. Len(data) \in Nat /\ \A i \in 1..Len(data) : data[i] \in Byte
  OBVIOUS
<1>2. \A i \in (k + 1)..Len(data) : data[i] \in Byte
  BY <1>1
<1>3. /\ SubSeq(data, k + 1, Len(data)) \in Seq(Byte)
      /\ Len(SubSeq(data, k + 1, Len(data))) =
           IF k + 1 <= Len(data) THEN Len(data) - (k + 1) + 1 ELSE 0
      /\ \A i \in 1..(Len(data) - (k + 1) + 1) :
           SubSeq(data, k + 1, Len(data))[i] = data[k + 1 + i - 1]
  BY <1>1, <1>2, SubSeqProperties
<1> DEFINE f == SubSeq(data, k + 1, Len(data))
<1>4. f = From(data, k) /\ f \in Seq(Byte)
  BY <1>3 DEF From
<1>5. Len(data) - (k + 1) + 1 = Len(data) - k /\ (~(k + 1 <= Len(data)) => Len(data) - k = 0)
  BY <1>1
<1>6. Len(f) = Len(data) - k
  BY <1>3, <1>5
<1>7. ASSUME NEW i \in 1..Len(data) - k PROVE f[i] = data[k + i]
  <2>1. i \in 1..(Len(data) - (k + 1) + 1) /\ k + 1 + i - 1 = k + i
    BY <1>1
  <2> QED BY <1>3, <2>1
<1> HIDE DEF f
<1> QED BY <1>4, <1>6, <1>7

LEMMA FromFrom ==
    ASSUME NEW data \in Seq(Byte), NEW k \in Nat, NEW j \in Nat, k + j <= Len(data)
    PROVE  From(From(data, k), j) = From(data, k + j)
<1> DEFINE f == From(data, k)
           g == From(f, j)
           h == From(data, k + j)
<1>0. Len(data) \in Nat /\ k <= Len(data) /\ k + j \in Nat
  OBVIOUS
<1>1. f \in Seq(Byte) /\ Len(f) = Len(data) - k /\ \A i \in 1..Len(data) - k : f[i] = data[k + i]
  BY <1>0, FromIs
<1>2. h \in Seq(Byte) /\ Len(h) = Len(data) - (k + j)
      /\ \A i \in 1..Len(data) - (k + j) : h[i] = data[k + j + i]
  BY <1>0, FromIs
<1> HIDE DEF f, h
<1>3. j <= Len(f)
  BY <1>0, <1>1
<1>4. g \in Seq(Byte) /\ Len(g) = Len(f) - j /\ \A i \in 1..Len(f) - j : g[i] = f[j + i]
  BY <1>1, <1>3, FromIs
<1> HIDE DEF g
<1>5. Len(g) = Len(h) /\ Len(f) - j = Len(h)
  BY <1>0, <1>1, <1>2, <1>4
<1>6. ASSUME NEW i \in 1..Len(h) PROVE g[i] = h[i]
  <2>1. j + i \in 1..Len(data) - k /\ k + (j + i) = k + j + i
    BY <1>0, <1>2
  <2>2. g[i] = f[j + i] /\ f[j + i] = data[k + (j + i)] /\ h[i] = data[k + j + i]
    BY <1>1, <1>2, <1>4, <1>5, <2>1
  <2> QED BY <2>1, <2>2
<1>7. g = h
  BY <1>2, <1>4, <1>5, <1>6, SeqEqual
<1> QED BY <1>7 DEF f, g, h

LEMMA FromStart ==
    ASSUME NEW data \in Seq(Byte)
    PROVE  From(data, 0) = data
<1>1. 0 \in Nat /\ 0 <= Len(data) /\ Len(data) - 0 = Len(data) /\ Len(data) \in Nat
  OBVIOUS
<1>2. From(data, 0) \in Seq(Byte) /\ Len(From(data, 0)) = Len(data)
      /\ \A i \in 1..Len(data) : From(data, 0)[i] = data[0 + i]
  BY <1>1, FromIs
<1>3. \A i \in 1..Len(data) : 0 + i = i
  BY <1>1
<1> QED BY <1>2, <1>3, SeqEqual

LEMMA AtFrom ==
    ASSUME NEW data \in Seq(Byte), NEW k \in Nat, k <= Len(data), NEW j \in Nat, NEW e \in Seq(Byte)
    PROVE  At(From(data, k), j, e) <=> At(data, k + j, e)
<1> DEFINE f == From(data, k)
<1>1. f \in Seq(Byte) /\ Len(f) = Len(data) - k /\ \A i \in 1..Len(data) - k : f[i] = data[k + i]
  BY FromIs
<1> HIDE DEF f
<1>2. Len(data) \in Nat /\ Len(e) \in Nat
  OBVIOUS
<1>3. j + Len(e) <= Len(f) <=> k + j + Len(e) <= Len(data)
  BY <1>1, <1>2
<1>4. ASSUME j + Len(e) <= Len(f), NEW i \in 1..Len(e) PROVE f[j + i] = data[k + j + i]
  <2>1. j + i \in 1..Len(data) - k /\ k + (j + i) = k + j + i
    BY <1>1, <1>2, <1>4
  <2>2. f[j + i] = data[k + (j + i)]
    BY <1>1, <2>1
  <2> QED BY <2>1, <2>2
<1>5. At(f, j, e) <=> At(data, k + j, e)
  BY <1>3, <1>4 DEF At
<1> QED BY <1>5 DEF f

LEMMA Concat ==
    ASSUME NEW e \in Seq(Byte), NEW f \in Seq(Byte)
    PROVE  /\ e \o f \in Seq(Byte) /\ Len(e \o f) = Len(e) + Len(f)
           /\ \A i \in 1..Len(e) : (e \o f)[i] = e[i]
           /\ \A i \in 1..Len(f) : (e \o f)[Len(e) + i] = f[i]
<1>1. e \o f \in Seq(Byte) /\ Len(e \o f) = Len(e) + Len(f)
      /\ \A i \in 1..Len(e) + Len(f) : (e \o f)[i] = IF i <= Len(e) THEN e[i] ELSE f[i - Len(e)]
  BY ConcatProperties
<1>2. Len(e) \in Nat /\ Len(f) \in Nat
  OBVIOUS
<1>3. \A i \in 1..Len(e) : (e \o f)[i] = e[i]
  BY <1>1, <1>2
<1>4. ASSUME NEW i \in 1..Len(f) PROVE (e \o f)[Len(e) + i] = f[i]
  <2>1. Len(e) + i \in 1..Len(e) + Len(f) /\ ~(Len(e) + i <= Len(e)) /\ (Len(e) + i) - Len(e) = i
    BY <1>2
  <2> QED BY <1>1, <2>1
<1> QED BY <1>1, <1>3, <1>4

LEMMA AtConcat ==
    ASSUME NEW data \in Seq(Byte), NEW k \in Nat, NEW e \in Seq(Byte), NEW f \in Seq(Byte)
    PROVE  At(data, k, e \o f) <=> At(data, k, e) /\ At(data, k + Len(e), f)
<1> DEFINE c == e \o f
<1>1. /\ c \in Seq(Byte) /\ Len(c) = Len(e) + Len(f)
      /\ \A i \in 1..Len(e) : c[i] = e[i]
      /\ \A i \in 1..Len(f) : c[Len(e) + i] = f[i]
  BY Concat
<1> HIDE DEF c
<1>2. Len(e) \in Nat /\ Len(f) \in Nat /\ Len(data) \in Nat
  OBVIOUS
<1>3. k + Len(c) = k + Len(e) + Len(f)
  BY <1>1, <1>2
<1>4. ASSUME At(data, k, c) PROVE At(data, k, e) /\ At(data, k + Len(e), f)
  <2>1. k + Len(e) <= Len(data) /\ k + Len(e) + Len(f) <= Len(data)
    BY <1>2, <1>3, <1>4 DEF At
  <2>2. ASSUME NEW i \in 1..Len(e) PROVE data[k + i] = e[i]
    <3>1. i \in 1..Len(c)
      BY <1>1, <1>2
    <3> QED BY <1>1, <1>4, <3>1 DEF At
  <2>3. ASSUME NEW i \in 1..Len(f) PROVE data[k + Len(e) + i] = f[i]
    <3>1. Len(e) + i \in 1..Len(c) /\ k + (Len(e) + i) = k + Len(e) + i
      BY <1>1, <1>2
    <3> QED BY <1>1, <1>4, <3>1 DEF At
  <2> QED BY <2>1, <2>2, <2>3 DEF At
<1>5. ASSUME At(data, k, e), At(data, k + Len(e), f) PROVE At(data, k, c)
  <2>1. k + Len(c) <= Len(data)
    BY <1>3, <1>5 DEF At
  <2>2. ASSUME NEW i \in 1..Len(c) PROVE data[k + i] = c[i]
    <3>1. CASE i <= Len(e)
      <4>1. i \in 1..Len(e)
        BY <1>2, <3>1
      <4> QED BY <1>1, <1>5, <4>1 DEF At
    <3>2. CASE i > Len(e)
      <4> DEFINE j == i - Len(e)
      <4>1. j \in 1..Len(f) /\ i = Len(e) + j /\ k + Len(e) + j = k + i
        BY <1>1, <1>2, <3>2
      <4> HIDE DEF j
      <4>2. data[k + Len(e) + j] = f[j] /\ c[Len(e) + j] = f[j]
        BY <1>1, <1>5, <4>1 DEF At
      <4> QED BY <4>1, <4>2
    <3> QED BY <1>1, <1>2, <3>1, <3>2
  <2> QED BY <2>1, <2>2 DEF At
<1> QED BY <1>4, <1>5 DEF c

LEMMA AtToken ==
    ASSUME NEW data \in Seq(Byte), NEW k \in Nat, NEW b \in Byte
    PROVE  /\ <<b>> \in Seq(Byte) /\ Len(<<b>>) = 1 /\ <<b>>[1] = b
           /\ At(data, k, <<b>>) <=> TokenAt(data, k, b)
<1> DEFINE s == <<b>>
<1>1. s \in Seq(Byte) /\ Len(s) = 1 /\ s[1] = b
  OBVIOUS
<1> HIDE DEF s
<1>2. Len(data) \in Nat /\ \A i \in 1..1 : i = 1
  OBVIOUS
<1>3. At(data, k, s) <=> TokenAt(data, k, b)
  BY <1>1, <1>2 DEF At, TokenAt
<1> QED BY <1>1, <1>3 DEF s

LEMMA AtStart ==
    ASSUME NEW data \in Seq(Byte), NEW e \in Seq(Byte), At(data, 0, e)
    PROVE  /\ From(data, Len(e)) \in Seq(Byte) /\ data = e \o From(data, Len(e))
           /\ SubSeq(data, 1, Len(e)) = e
<1> DEFINE t == From(data, Len(e))
           c == e \o t
           s == SubSeq(data, 1, Len(e))
<1>1. Len(e) \in Nat /\ Len(data) \in Nat /\ Len(e) <= Len(data)
      /\ \A i \in 1..Len(e) : data[i] = e[i]
  <2>1. 0 + Len(e) <= Len(data) /\ \A i \in 1..Len(e) : data[0 + i] = e[i]
    BY DEF At
  <2>2. \A i \in 1..Len(e) : 0 + i = i
    OBVIOUS
  <2> QED BY <2>1, <2>2
<1>2. t \in Seq(Byte) /\ Len(t) = Len(data) - Len(e)
      /\ \A i \in 1..Len(data) - Len(e) : t[i] = data[Len(e) + i]
  BY <1>1, FromIs
<1> HIDE DEF t
<1>3. /\ c \in Seq(Byte) /\ Len(c) = Len(e) + Len(t)
      /\ \A i \in 1..Len(e) : c[i] = e[i]
      /\ \A i \in 1..Len(t) : c[Len(e) + i] = t[i]
  BY <1>2, Concat
<1> HIDE DEF c
<1>4. Len(c) = Len(data)
  BY <1>1, <1>2, <1>3
<1>5. ASSUME NEW i \in 1..Len(data) PROVE data[i] = c[i]
  <2>1. CASE i <= Len(e)
    <3>1. i \in 1..Len(e)
      BY <1>1, <2>1
    <3> QED BY <1>1, <1>3, <3>1
  <2>2. CASE i > Len(e)
    <3> DEFINE j == i - Len(e)
    <3>1. j \in 1..Len(t) /\ Len(e) + j = i /\ Len(t) = Len(data) - Len(e)
      BY <1>1, <1>2, <2>2
    <3> HIDE DEF j
    <3> QED BY <1>2, <1>3, <3>1
  <2> QED BY <1>1, <2>1, <2>2
<1>6. data = c
  BY <1>3, <1>4, <1>5, SeqEqual
<1>7. s = e
  <2>1. \A i \in 1..Len(e) : data[i] \in Byte
    BY <1>1
  <2>2. s \in Seq(Byte) /\ Len(s) = (IF 1 <= Len(e) THEN Len(e) - 1 + 1 ELSE 0)
        /\ \A i \in 1..(Len(e) - 1 + 1) : s[i] = data[1 + i - 1]
    BY <1>1, <2>1, SubSeqProperties
  <2>3. Len(e) - 1 + 1 = Len(e) /\ \A i \in 1..Len(e) : 1 + i - 1 = i
    BY <1>1
  <2> HIDE DEF s
  <2> QED BY <1>1, <2>2, <2>3, SeqEqual
<1> QED BY <1>2, <1>6, <1>7 DEF t, c, s

LEMMA AtSelf ==
    ASSUME NEW e \in Seq(Byte)
    PROVE  At(e, 0, e)
<1>1. Len(e) \in Nat /\ 0 + Len(e) <= Len(e) /\ \A i \in 1..Len(e) : 0 + i = i
  OBVIOUS
<1> QED BY <1>1 DEF At

LEMMA AtBeginning ==
    ASSUME NEW data \in Seq(Byte), NEW m \in Nat, m <= Len(data), NEW e \in Seq(Byte),
           At(SubSeq(data, 1, m), 0, e)
    PROVE  At(data, 0, e) /\ Len(e) <= m
<1> DEFINE s == SubSeq(data, 1, m)
<1>1. Len(data) \in Nat /\ Len(e) \in Nat /\ \A i \in 1..m : data[i] \in Byte
  OBVIOUS
<1>2. s \in Seq(Byte) /\ Len(s) = (IF 1 <= m THEN m - 1 + 1 ELSE 0)
      /\ \A i \in 1..(m - 1 + 1) : s[i] = data[1 + i - 1]
  BY <1>1, SubSeqProperties
<1>3. m - 1 + 1 = m /\ \A i \in 1..m : 1 + i - 1 = i
  OBVIOUS
<1>4. Len(s) = m /\ \A i \in 1..m : s[i] = data[i]
  BY <1>2, <1>3
<1> HIDE DEF s
<1>5. Len(e) <= m /\ \A i \in 1..Len(e) : s[0 + i] = e[i]
  BY <1>1, <1>4 DEF At, s
<1>6. \A i \in 1..Len(e) : 0 + i = i /\ i \in 1..m
  BY <1>1, <1>5
<1>7. 0 + Len(e) <= Len(data)
  BY <1>1, <1>5
<1> QED BY <1>4, <1>5, <1>6, <1>7 DEF At

-----------------------------------------------------------------------------
\* Words, bytes and records that are fixed.

LEMMA ZeroWord == Zero \in Raw /\ Zero \in Seq(Byte) /\ Len(Zero) = 8
<1>1. 0 \in Byte /\ 8 \in Nat
  BY DEF Byte
<1>2. Zero \in Seq(Byte) /\ Len(Zero) = 8
  BY <1>1, FillBytes DEF Zero
<1> QED BY <1>2, WordsAreSequences

\* The record of an atom.
AtomRecord == [type : {"EMPTY", "UINT", "INT", "BYTES"}, enc : {"NONE", "TINY", "SHORT", "MEDIUM", "LONG"},
               skip : 0..8, val : Raw, bytes : Seq(Byte)]

LEMMA AtomFields ==
    ASSUME NEW type, NEW enc, NEW skip, NEW val, NEW bytes
    PROVE  LET a == Atom(type, enc, skip, val, bytes) IN
           a.type = type /\ a.enc = enc /\ a.skip = skip /\ a.val = val /\ a.bytes = bytes
BY DEF Atom

LEMMA AtomIsRecord ==
    ASSUME NEW type \in {"EMPTY", "UINT", "INT", "BYTES"},
           NEW enc \in {"NONE", "TINY", "SHORT", "MEDIUM", "LONG"},
           NEW skip \in 0..8, NEW val \in Raw, NEW bytes \in Seq(Byte)
    PROVE  Atom(type, enc, skip, val, bytes) \in AtomRecord
BY DEF Atom, AtomRecord

LEMMA NoBytes == << >> \in Seq(Byte) /\ Len(<< >>) = 0
OBVIOUS

\* An atom as a decoder yields it is one of the atoms there are.
LEMMA CleanIsAtom ==
    ASSUME NEW x, Clean(x)
    PROVE  x \in AnyAtom
<1> SUFFICES x \in AtomRecord /\ WellFormed(x)
  BY DEF AnyAtom, AtomRecord
<1>1. CASE x = Empty
  <2>1. Empty \in AtomRecord
    <3>1. 0 \in 0..8
      OBVIOUS
    <3> QED BY <3>1, ZeroWord, NoBytes, AtomIsRecord DEF Empty
  <2> QED BY <1>1, <2>1 DEF WellFormed
<1>2. ASSUME NEW h \in 0..127, x = DecodeTiny(h) PROVE x \in AtomRecord /\ WellFormed(x)
  <2>0. 0 \in 0..8 /\ 0 \in Byte /\ 255 \in Byte
    BY SMT DEF Byte
  <2>1. ASSUME NEW w \in Raw, NEW type \in {"UINT", "INT"}, x = Atom(type, "TINY", 0, w, << >>),
               IF type = "UINT" THEN TinyUint(w) ELSE TinyInt(w)
        PROVE  x \in AtomRecord /\ WellFormed(x)
    <3>1. x \in AtomRecord
      BY <2>0, <2>1, NoBytes, AtomIsRecord
    <3>2. x.val = w
      BY <2>1, AtomFields
    <3> QED BY <2>1, <3>1, <3>2 DEF WellFormed
  <2>2. CASE h < 64
    <3> DEFINE w == Fill(0, 7) \o <<h>>
    <3>1. h \in Byte /\ h \in 0..63
      BY <2>2, SMT DEF Byte
    <3>2. w \in Raw
      BY <2>0, <3>1, SmallWord
    <3>3. TinyUint(w)
      BY <3>1, Zenon DEF TinyUint
    <3>4. x = Atom("UINT", "TINY", 0, w, << >>)
      BY <1>2, <2>2 DEF DecodeTiny
    <3> HIDE DEF w
    <3> QED BY <2>1, <3>2, <3>3, <3>4
  <2>3. CASE ~(h < 64)
    <3> DEFINE v == h % 64
    <3>0. v \in 0..63
      BY SMT
    <3>1. CASE v >= 32
      <4> DEFINE b == 192 + v
                 w == Fill(255, 7) \o <<b>>
      <4>1. x = Atom("INT", "TINY", 0, w, << >>)
        BY <1>2, <2>3, <3>1 DEF DecodeTiny
      <4> HIDE DEF v
      <4>2. b \in Byte /\ b \in 224..255
        BY <3>0, <3>1, SMT DEF Byte
      <4> HIDE DEF b
      <4>3. w \in Raw
        BY <2>0, <4>2, SmallWord
      <4>4. TinyInt(w)
        BY <4>2, Zenon DEF TinyInt
      <4> HIDE DEF w
      <4> QED BY <2>1, <4>1, <4>3, <4>4
    <3>2. CASE ~(v >= 32)
      <4> DEFINE w == Fill(0, 7) \o <<v>>
      <4>1. x = Atom("INT", "TINY", 0, w, << >>)
        BY <1>2, <2>3, <3>2 DEF DecodeTiny
      <4> HIDE DEF v
      <4>2. v \in Byte /\ v \in 0..31
        BY <3>0, <3>2, SMT DEF Byte
      <4>3. w \in Raw
        BY <2>0, <4>2, SmallWord
      <4>4. TinyInt(w)
        BY <4>2, Zenon DEF TinyInt
      <4> HIDE DEF w
      <4> QED BY <2>1, <4>1, <4>3, <4>4
    <3> QED BY <3>1, <3>2
  <2> QED BY <2>2, <2>3
<1>3. ASSUME NEW type \in Types, NEW enc \in Encodings, NEW p \in Seq(Byte), Allowed(type, enc, Len(p)),
             x = Held(type, enc, p)
      PROVE  x \in AtomRecord /\ WellFormed(x)
  <2> DEFINE n == Len(p)
  <2>1. n \in Nat /\ n < Counted(enc) /\ (type # "BYTES" => n \in 1..8)
    BY <1>3 DEF Allowed
  <2>2. type \in {"EMPTY", "UINT", "INT", "BYTES"} /\ enc \in {"NONE", "TINY", "SHORT", "MEDIUM", "LONG"}
    BY DEF Types, Encodings
  <2>3. CASE type = "BYTES"
    <3>1. x = Atom("BYTES", enc, 0, Zero, p) /\ 0 \in 0..8
      BY <1>3, <2>3 DEF Held
    <3>2. x \in AtomRecord
      BY <2>2, <3>1, ZeroWord, AtomIsRecord
    <3>3. x.type = "BYTES" /\ x.enc = enc /\ x.skip = 0 /\ x.bytes = p
      BY <3>1, AtomFields
    <3> QED BY <2>1, <3>2, <3>3 DEF WellFormed, Encodings
  <2>4. CASE type # "BYTES"
    <3> DEFINE w == Extended(type, p)
    <3>1. n \in 1..8 /\ 8 - n \in 0..8 /\ 8 - (8 - n) = n /\ 8 - n < 8
      <4>1. n \in 1..8
        BY <2>1, <2>4
      <4> HIDE DEF n
      <4> QED BY <4>1
    <3>2. w \in Raw /\ Low(w, n) = p
      BY <3>1, ExtendedBytes, ExtendedLow
    <3>3. x = Atom(type, enc, 8 - n, w, << >>)
      BY <1>3, <2>4 DEF Held
    <3>4. w = Extended(type, Low(w, n))
      BY <3>2
    <3> HIDE DEF w, n
    <3>5. x \in AtomRecord
      BY <2>2, <3>1, <3>2, <3>3, NoBytes, AtomIsRecord
    <3>6. x.type = type /\ x.enc = enc /\ x.skip = 8 - n /\ x.val = w /\ x.bytes = << >>
      BY <3>3, AtomFields
    <3>7. 8 - x.skip = n
      BY <3>1, <3>6
    <3>8. x.val = Extended(x.type, Low(x.val, 8 - x.skip)) /\ x.skip < 8
      BY <3>1, <3>4, <3>6, <3>7
    <3>9. x.type \in {"INT", "UINT"}
      BY <2>4, <3>6 DEF Types
    <3> QED BY <3>5, <3>6, <3>8, <3>9 DEF WellFormed, Encodings
  <2> QED BY <2>3, <2>4
<1> QED BY <1>1, <1>2, <1>3 DEF Clean

\* An integer of which s bytes are dropped, in any encoding.
LEMMA WordClean ==
    ASSUME NEW type \in {"INT", "UINT"}, NEW enc \in Encodings, NEW w \in Raw, NEW s \in 0..7,
           w = Extended(type, Low(w, 8 - s))
    PROVE  Clean(Atom(type, enc, s, w, << >>))
<1> DEFINE p == Low(w, 8 - s)
           n == 8 - s
<1>1. n \in 0..8 /\ n \in 1..8 /\ n < 16 /\ n \in Nat /\ 8 - n = s
  BY SMT
<1>2. p \in Seq(Byte) /\ Len(p) = n
  BY <1>1, LowBytes
<1> HIDE DEF p, n
<1>3. Allowed(type, enc, n)
  BY <1>1, SMT DEF Allowed, Types, Encodings, Counted
<1>4. Held(type, enc, p) = Atom(type, enc, s, w, << >>)
  BY <1>1, <1>2 DEF Held, p
<1>5. type \in Types
  BY DEF Types
<1> QED BY <1>2, <1>3, <1>4, <1>5, Zenon DEF Clean

\* Every atom is encoded as one that a decoder yields, to which it is equal.
LEMMA AtomReread ==
    ASSUME NEW a \in AnyAtom
    PROVE  \E x : /\ Clean(x) /\ SameAtom(x, a)
                  /\ EncodeAtom(x) = EncodeAtom(a) /\ AtomSize(x) = AtomSize(a)
<1>1. WellFormed(a) /\ a.val \in Raw /\ a.bytes \in Seq(Byte) /\ a.skip \in 0..8
      /\ a = Atom(a.type, a.enc, a.skip, a.val, a.bytes)
  BY DEF AnyAtom, Atom
<1>2. ASSUME Clean(a) PROVE \E x : /\ Clean(x) /\ SameAtom(x, a)
                                   /\ EncodeAtom(x) = EncodeAtom(a) /\ AtomSize(x) = AtomSize(a)
  BY <1>2 DEF SameAtom
<1>3. CASE a = Empty
  BY <1>2, <1>3 DEF Clean
<1>4. CASE a = Atom("INT", "TINY", 0, a.val, << >>) /\ TinyInt(a.val)
  <2>1. a = new_int(a.val)
    BY <1>4 DEF new_int
  <2> QED BY <1>1, <1>2, <1>4, <2>1, TinyIntClean
<1>5. CASE a = Atom("UINT", "TINY", 0, a.val, << >>) /\ TinyUint(a.val)
  <2>1. a = new_uint(a.val)
    BY <1>5 DEF new_uint
  <2> QED BY <1>1, <1>2, <1>5, <2>1, TinyUintClean
<1>6. CASE /\ a.type \in {"INT", "UINT"} /\ a.enc \in {"SHORT", "MEDIUM", "LONG"}
           /\ a.skip < 8 /\ a.bytes = << >>
           /\ a.val = Extended(a.type, Low(a.val, 8 - a.skip))
  <2> DEFINE w == a.val
             s == a.skip
             enc == a.enc
             type == a.type
  <2>1. s \in 0..7 /\ enc \in Encodings /\ w \in Raw /\ type \in {"INT", "UINT"}
        /\ w = Extended(type, Low(w, 8 - s)) /\ a = Atom(type, enc, s, w, << >>)
    BY <1>1, <1>6 DEF Encodings
  <2> HIDE DEF w, s, enc, type
  <2>2. Clean(a)
    BY <2>1, WordClean
  <2> QED BY <1>2, <2>2
<1>7. CASE /\ a.type = "BYTES" /\ a.enc \in {"SHORT", "MEDIUM", "LONG"}
           /\ a.skip = 0 /\ Len(a.bytes) < Counted(a.enc)
  <2>1. a.enc \in Encodings
    BY <1>7 DEF Encodings
  <2> DEFINE enc == a.enc
             p == a.bytes
             x == Held("BYTES", enc, p)
  <2>2. enc \in Encodings /\ p \in Seq(Byte) /\ Len(p) < Counted(enc)
        /\ a.type = "BYTES" /\ a.enc = enc /\ a.bytes = p
    BY <1>1, <1>7, <2>1
  <2> HIDE DEF enc, p
  <2>3. Clean(x)
    <3>1. "BYTES" \in Types /\ Allowed("BYTES", enc, Len(p))
      BY <2>2 DEF Allowed, Types
    <3> QED BY <2>2, <3>1, Zenon DEF Clean
  <2>4. x.type = "BYTES" /\ x.enc = enc /\ x.bytes = p
    BY DEF Held, Atom
  <2> HIDE DEF x
  <2>5. Payload(x) = Payload(a)
    BY <2>2, <2>4 DEF Payload
  <2>6. EncodeAtom(x) = EncodeAtom(a) /\ AtomSize(x) = AtomSize(a) /\ SameAtom(x, a)
    BY <2>2, <2>4, <2>5 DEF EncodeAtom, AtomSize, SameAtom
  <2> QED BY <2>3, <2>6
<1> QED BY <1>1, <1>3, <1>4, <1>5, <1>6, <1>7 DEF WellFormed

Tokens == {START_LIST, END_LIST, START_NAME, END_NAME, CALL, END_SESSION}

\* The bytes of an atom: the first is not a token's.
LEMMA AtomBytes ==
    ASSUME NEW x, Clean(x)
    PROVE  /\ EncodeAtom(x) \in Seq(Byte) /\ Len(EncodeAtom(x)) = AtomSize(x)
           /\ Len(EncodeAtom(x)) >= 1 /\ EncodeAtom(x)[1] \notin Tokens
<1> DEFINE e == EncodeAtom(x)
<1>1. << >> \in Seq(Byte)
  OBVIOUS
<1>2. e \in Seq(Byte) /\ Len(e) = AtomSize(x) /\ DecodeAtom(e \o << >>).ok
  <2>1. DecodeAtom(e \o << >>) = Decoded(AtomSize(x), x)
    BY <1>1, DecodedAgain
  <2>2. e \in Seq(Byte) /\ Len(e) = AtomSize(x)
    BY <1>1, DecodedAgain
  <2>3. DecodeAtom(e \o << >>).ok
    BY <2>1 DEF Decoded
  <2> QED BY <2>2, <2>3
<1> HIDE DEF e
<1>3. e \o << >> = e
  BY <1>2, ConcatEmptySeq
<1>4. e # << >>
  BY <1>2, <1>3 DEF DecodeAtom, Thrown
<1>5. Len(e) >= 1 /\ Head(e) = e[1] /\ e[1] \in 0..255
  BY <1>2, <1>4 DEF Byte
<1>6. EncodingOf(Head(e)) # "not an atom"
  BY <1>2, <1>3, <1>4 DEF DecodeAtom, Thrown
<1>7. e[1] \notin Tokens
  BY <1>5, <1>6, SMT DEF EncodingOf, Tokens, START_LIST, END_LIST, START_NAME, END_NAME, CALL, END_SESSION
<1> QED BY <1>2, <1>5, <1>7 DEF e

\* An atom that is there is found.
LEMMA AtomAt ==
    ASSUME NEW data \in Seq(Byte), NEW k \in Nat, NEW x, Clean(x), At(data, k, EncodeAtom(x))
    PROVE  DecodeAtom(From(data, k)) = Decoded(Len(EncodeAtom(x)), x)
<1> DEFINE e == EncodeAtom(x)
           f == From(data, k)
<1>1. e \in Seq(Byte) /\ Len(e) = AtomSize(x) /\ Len(e) \in Nat
  BY AtomBytes
<1>2. k <= Len(data)
  BY <1>1 DEF At
<1>3. f \in Seq(Byte)
  BY <1>2, FromIs
<1>4. At(f, 0, e)
  <2>1. 0 \in Nat /\ k + 0 = k
    OBVIOUS
  <2>2. At(f, 0, e) <=> At(data, k + 0, e)
    BY <1>1, <1>2, <2>1, AtFrom
  <2> QED BY <2>1, <2>2
<1> HIDE DEF f
<1>5. From(f, Len(e)) \in Seq(Byte) /\ f = e \o From(f, Len(e))
  BY <1>1, <1>3, <1>4, AtStart
<1>6. DecodeAtom(e \o From(f, Len(e))) = Decoded(AtomSize(x), x)
  BY <1>5, DecodedAgain
<1>7. DecodeAtom(f) = Decoded(Len(e), x)
  BY <1>1, <1>5, <1>6
<1> QED BY <1>7 DEF f

\* An atom that is found is there.
LEMMA AtomFound ==
    ASSUME NEW data \in Seq(Byte), NEW k \in Nat, k <= Len(data), DecodeAtom(From(data, k)).ok
    PROVE  LET r == DecodeAtom(From(data, k)) IN
           Clean(r.atom) /\ At(data, k, EncodeAtom(r.atom)) /\ r.size = Len(EncodeAtom(r.atom))
<1> DEFINE f == From(data, k)
           r == DecodeAtom(f)
           x == r.atom
           e == EncodeAtom(x)
<1>1. f \in Seq(Byte) /\ r.ok
  BY FromIs
<1> HIDE DEF f
<1>2. Clean(x) /\ r.size = AtomSize(x) /\ e = SubSeq(f, 1, r.size) /\ r.size <= Len(f)
  BY <1>1, EncodedAgain
<1>3. e \in Seq(Byte) /\ Len(e) = AtomSize(x) /\ Len(e) \in Nat
  <2>1. \A y : Clean(y) => EncodeAtom(y) \in Seq(Byte) /\ Len(EncodeAtom(y)) = AtomSize(y)
    BY AtomBytes
  <2>2. e \in Seq(Byte) /\ Len(e) = AtomSize(x)
    BY <1>2, <2>1, Zenon
  <2> HIDE DEF e
  <2> QED BY <2>2
<1> HIDE DEF e
<1>4. e = SubSeq(f, 1, Len(e)) /\ Len(e) = r.size
  BY <1>2, <1>3
<1>5. At(f, 0, e)
  <2>1. Len(e) <= Len(f)
    BY <1>2, <1>3
  <2>2. \A i \in 1..Len(e) : f[i] \in Byte
    BY <1>1, <1>3, <2>1
  <2>3. \A i \in 1..(Len(e) - 1 + 1) : SubSeq(f, 1, Len(e))[i] = f[1 + i - 1]
    BY <1>3, <2>2, SubSeqProperties
  <2>4. Len(e) - 1 + 1 = Len(e) /\ \A i \in 1..Len(e) : 1 + i - 1 = i /\ 0 + i = i
    BY <1>3
  <2>5. \A i \in 1..Len(e) : f[0 + i] = e[i]
    BY <1>4, <2>3, <2>4
  <2> QED BY <1>3, <2>1, <2>5 DEF At
<1>6. At(data, k, e)
  <2>1. 0 \in Nat /\ k + 0 = k
    OBVIOUS
  <2>2. At(f, 0, e) <=> At(data, k + 0, e)
    BY <1>3, <2>1, AtFrom DEF f
  <2> QED BY <1>5, <2>1, <2>2
<1> QED BY <1>2, <1>4, <1>6 DEF f, e

-----------------------------------------------------------------------------
\* The recursive functions, each as what one level is made of.

DataLevel(p, v, n) ==
    IF n = 0 THEN {}
    ELSE {x \in [type : {"UNSET", "ATOM", "NAMED", "METHOD", "LIST", "END_SESSION"}, atom : AnyAtom,
                 object : Raw, method : Raw, list : Seq(v)] :
            x.type = "NAMED" => Len(x.list) = 1}

SizeLevel(p, v, n) == [x \in Data[n] |->
    CASE x.type = "ATOM"   -> AtomSize(x.atom)
      [] x.type = "NAMED"  -> 2 + AtomSize(x.atom) + v[x.list[1]]
      [] x.type = "METHOD" -> MethodTokens + ListSize(v, x.list)
      [] x.type = "LIST"   -> ListSize(v, x.list)
      [] OTHER             -> 1]

EncodeLevel(p, v, n) == [x \in Data[n] |->
    CASE x.type = "ATOM"   -> EncodeAtom(x.atom)
      [] x.type = "NAMED"  -> <<START_NAME>> \o EncodeAtom(x.atom) \o v[x.list[1]] \o <<END_NAME>>
      [] x.type = "METHOD" -> <<CALL>> \o EncodeAtom(new_uid(x.object))
                                \o EncodeAtom(new_uid(x.method)) \o EncodeList(v, x.list)
      [] x.type = "LIST"   -> EncodeList(v, x.list)
      [] OTHER             -> <<END_SESSION>>]

SameLevel(p, v, n) == [x \in Data[n] |-> [y \in Data[n] |->
    /\ x.type = y.type
    /\ x.type \in {"ATOM", "NAMED"} => SameAtom(x.atom, y.atom)
    /\ x.type = "METHOD" => x.object = y.object /\ x.method = y.method
    /\ x.type \in {"NAMED", "METHOD", "LIST"} => SameList(v, x.list, y.list)]]

SentLevel(p, v, n) == [x \in Data[n] |->
    [x EXCEPT !.type = IF x.type = "UNSET" THEN "END_SESSION" ELSE x.type,
              !.list = IF x.type \in {"NAMED", "METHOD", "LIST"}
                       THEN [i \in DOMAIN x.list |-> v[x.list[i]]] ELSE << >>]]

DecodeLevel(p, v, n) == [data \in Seq(Byte) |->
    IF n = 0 \/ data = << >> THEN Fails
    ELSE LET tok == Head(data) IN
         CASE tok = START_LIST  -> DecodeItems(v, data, 1)
           [] tok = START_NAME  -> DecodeNamed(v, data)
           [] tok = CALL        -> DecodeMethod(v, data)
           [] tok = END_SESSION -> Parsed(1, [Unset EXCEPT !.type = "END_SESSION"])
           [] OTHER -> LET a == DecodeAtom(data) IN
                       IF a.ok THEN Parsed(a.size, [Unset EXCEPT !.type = "ATOM", !.atom = a.atom])
                       ELSE Fails]

CallLevel(p, v, n) == [x \in Data[n] |-> [path \in Seq(Nat) |-> [op \in Ops |->
    IF path = << >> THEN LET y == Call(x, op) IN IF y = Error THEN x ELSE y
    ELSE LET y == Step(x, Head(path)) c == Child(Head(path)) IN
         IF y = Error THEN x
         ELSE [y EXCEPT !.list[c] = v[y.list[c]][Tail(path)][op]]]]]

AllData    == INSTANCE Recursion WITH Body <- DataLevel
AllSizes   == INSTANCE Recursion WITH Body <- SizeLevel
AllEncoded == INSTANCE Recursion WITH Body <- EncodeLevel
AllSame    == INSTANCE Recursion WITH Body <- SameLevel
AllSent    == INSTANCE Recursion WITH Body <- SentLevel
AllDecoded == INSTANCE Recursion WITH Body <- DecodeLevel
AllCalls   == INSTANCE Recursion WITH Body <- CallLevel

LEMMA DataIs == Data = [n \in Nat |-> DataLevel(0, Data[n - 1], n)]
<1>1. \A u, v : DataLevel(0, u, 0) = DataLevel(0, v, 0)
  BY DEF DataLevel
<1>2. \E f : f = [n \in Nat |-> DataLevel(0, f[n - 1], n)]
  BY <1>1, AllData!Defined
<1> QED BY <1>2 DEF Data, DataLevel

LEMMA NoData == Data[0] = {}
BY DataIs DEF DataLevel

LEMMA SizeIs == DatumSize = [n \in Nat |-> SizeLevel(0, DatumSize[n - 1], n)]
<1>1. \A u, v : SizeLevel(0, u, 0) = SizeLevel(0, v, 0)
  BY NoData DEF SizeLevel
<1>2. \E f : f = [n \in Nat |-> SizeLevel(0, f[n - 1], n)]
  BY <1>1, AllSizes!Defined
<1> QED BY <1>2 DEF DatumSize, SizeLevel

LEMMA EncodeIs == EncodeDatum = [n \in Nat |-> EncodeLevel(0, EncodeDatum[n - 1], n)]
<1>1. \A u, v : EncodeLevel(0, u, 0) = EncodeLevel(0, v, 0)
  BY NoData DEF EncodeLevel
<1>2. \E f : f = [n \in Nat |-> EncodeLevel(0, f[n - 1], n)]
  BY <1>1, AllEncoded!Defined
<1> QED BY <1>2 DEF EncodeDatum, EncodeLevel

LEMMA SameIs == SameDatum = [n \in Nat |-> SameLevel(0, SameDatum[n - 1], n)]
<1>1. \A u, v : SameLevel(0, u, 0) = SameLevel(0, v, 0)
  BY NoData DEF SameLevel
<1>2. \E f : f = [n \in Nat |-> SameLevel(0, f[n - 1], n)]
  BY <1>1, AllSame!Defined
<1> QED BY <1>2 DEF SameDatum, SameLevel

LEMMA SentIs == Sent = [n \in Nat |-> SentLevel(0, Sent[n - 1], n)]
<1>1. \A u, v : SentLevel(0, u, 0) = SentLevel(0, v, 0)
  BY NoData DEF SentLevel
<1>2. \E f : f = [n \in Nat |-> SentLevel(0, f[n - 1], n)]
  BY <1>1, AllSent!Defined
<1> QED BY <1>2 DEF Sent, SentLevel

LEMMA DecodeIs == DecodeDatum = [n \in Nat |-> DecodeLevel(0, DecodeDatum[n - 1], n)]
<1>1. \A u, v : DecodeLevel(0, u, 0) = DecodeLevel(0, v, 0)
  BY DEF DecodeLevel
<1>2. \E f : f = [n \in Nat |-> DecodeLevel(0, f[n - 1], n)]
  BY <1>1, AllDecoded!Defined
<1> QED BY <1>2 DEF DecodeDatum, DecodeLevel

LEMMA CallIs == CallAt = [n \in Nat |-> CallLevel(0, CallAt[n - 1], n)]
<1>1. \A u, v : CallLevel(0, u, 0) = CallLevel(0, v, 0)
  BY NoData DEF CallLevel
<1>2. \E f : f = [n \in Nat |-> CallLevel(0, f[n - 1], n)]
  BY <1>1, AllCalls!Defined
<1> QED BY <1>2 DEF CallAt, CallLevel

-----------------------------------------------------------------------------
\* The loops over the items of a list.

SizeTurn(p, v, i) == IF i = 0 THEN 2 ELSE v + p[1][p[2][i]]

EncodeTurn(p, v, i) == IF i = 0 THEN <<START_LIST>> ELSE v \o p[1][p[2][i]]

DecodeTurn(p, v, i) ==
    IF i = 0 THEN [state |-> "more", size |-> p[3], items |-> << >>] ELSE NextItem(p[1], p[2], v)

SizeLoop   == INSTANCE Recursion WITH Body <- SizeTurn
EncodeLoop == INSTANCE Recursion WITH Body <- EncodeTurn
DecodeLoop == INSTANCE Recursion WITH Body <- DecodeTurn

Summed(inner, items) ==
    CHOOSE f : f = [i \in 0..Len(items) |-> IF i = 0 THEN 2 ELSE f[i - 1] + inner[items[i]]]

LEMMA SummedIs ==
    ASSUME NEW inner, NEW items, Len(items) \in Nat
    PROVE  /\ ListSize(inner, items) = Summed(inner, items)[Len(items)]
           /\ Summed(inner, items)[0] = 2
           /\ \A i \in 1..Len(items) :
                Summed(inner, items)[i] = Summed(inner, items)[i - 1] + inner[items[i]]
<1> DEFINE p == <<inner, items>>
           f == Summed(inner, items)
<1>1. \A u, v : SizeTurn(p, u, 0) = SizeTurn(p, v, 0)
  BY DEF SizeTurn
<1>2. \E g : g = [i \in 0..Len(items) |-> SizeTurn(p, g[i - 1], i)]
  BY <1>1, SizeLoop!Starts DEF SizeLoop!Begins
<1>3. \E g : g = [i \in 0..Len(items) |-> IF i = 0 THEN 2 ELSE g[i - 1] + inner[items[i]]]
  BY <1>2 DEF SizeTurn
<1>4. f = [i \in 0..Len(items) |-> IF i = 0 THEN 2 ELSE f[i - 1] + inner[items[i]]]
  BY <1>3 DEF Summed
<1>5. ListSize(inner, items) = f[Len(items)]
  BY DEF ListSize, Summed
<1> HIDE DEF f
<1>6. \A i \in 0..Len(items) : f[i] = IF i = 0 THEN 2 ELSE f[i - 1] + inner[items[i]]
  BY <1>4
<1>7. f[0] = 2 /\ \A i \in 1..Len(items) : f[i] = f[i - 1] + inner[items[i]]
  BY <1>6
<1> QED BY <1>5, <1>7 DEF f

Written(inner, items) ==
    CHOOSE f : f = [i \in 0..Len(items) |-> IF i = 0 THEN <<START_LIST>> ELSE f[i - 1] \o inner[items[i]]]

LEMMA WrittenIs ==
    ASSUME NEW inner, NEW items, Len(items) \in Nat
    PROVE  /\ EncodeList(inner, items) = Written(inner, items)[Len(items)] \o <<END_LIST>>
           /\ Written(inner, items)[0] = <<START_LIST>>
           /\ \A i \in 1..Len(items) :
                Written(inner, items)[i] = Written(inner, items)[i - 1] \o inner[items[i]]
<1> DEFINE p == <<inner, items>>
           f == Written(inner, items)
<1>1. \A u, v : EncodeTurn(p, u, 0) = EncodeTurn(p, v, 0)
  BY DEF EncodeTurn
<1>2. \E g : g = [i \in 0..Len(items) |-> EncodeTurn(p, g[i - 1], i)]
  BY <1>1, EncodeLoop!Starts DEF EncodeLoop!Begins
<1>3. \E g : g = [i \in 0..Len(items) |->
                    IF i = 0 THEN <<START_LIST>> ELSE g[i - 1] \o inner[items[i]]]
  BY <1>2 DEF EncodeTurn
<1>4. f = [i \in 0..Len(items) |-> IF i = 0 THEN <<START_LIST>> ELSE f[i - 1] \o inner[items[i]]]
  BY <1>3 DEF Written
<1>5. EncodeList(inner, items) = f[Len(items)] \o <<END_LIST>>
  BY DEF EncodeList, Written
<1> HIDE DEF f
<1>6. \A i \in 0..Len(items) : f[i] = IF i = 0 THEN <<START_LIST>> ELSE f[i - 1] \o inner[items[i]]
  BY <1>4
<1>7. f[0] = <<START_LIST>>
  <2>1. 0 \in 0..Len(items)
    OBVIOUS
  <2> QED BY <1>6, <2>1, Zenon
<1>8. ASSUME NEW i \in 1..Len(items) PROVE f[i] = f[i - 1] \o inner[items[i]]
  <2>1. i \in 0..Len(items) /\ i # 0
    OBVIOUS
  <2> QED BY <1>6, <2>1, Zenon
<1> QED BY <1>5, <1>7, <1>8 DEF f

Begun(from) == [state |-> "more", size |-> from, items |-> << >>]

Looped(inner, data, from) ==
    CHOOSE f : f = [i \in 0..Len(data) |->
                      IF i = 0 THEN [state |-> "more", size |-> from, items |-> << >>]
                      ELSE NextItem(inner, data, f[i - 1])]

LEMMA LoopTurns ==
    ASSUME NEW inner, NEW data, Len(data) \in Nat, NEW from
    PROVE  /\ Looped(inner, data, from)[0] = Begun(from)
           /\ \A i \in 1..Len(data) :
                Looped(inner, data, from)[i] = NextItem(inner, data, Looped(inner, data, from)[i - 1])
<1> DEFINE p == <<inner, data, from>>
           f == Looped(inner, data, from)
<1>1. \A u, v : DecodeTurn(p, u, 0) = DecodeTurn(p, v, 0)
  BY DEF DecodeTurn
<1>2. \E g : g = [i \in 0..Len(data) |-> DecodeTurn(p, g[i - 1], i)]
  BY <1>1, DecodeLoop!Starts DEF DecodeLoop!Begins
<1>3. \E g : g = [i \in 0..Len(data) |->
                    IF i = 0 THEN [state |-> "more", size |-> from, items |-> << >>]
                    ELSE NextItem(inner, data, g[i - 1])]
  BY <1>2 DEF DecodeTurn
<1>4. f = [i \in 0..Len(data) |->
             IF i = 0 THEN [state |-> "more", size |-> from, items |-> << >>]
             ELSE NextItem(inner, data, f[i - 1])]
  BY <1>3 DEF Looped
<1> HIDE DEF f
<1>6. \A i \in 0..Len(data) : f[i] = IF i = 0 THEN Begun(from) ELSE NextItem(inner, data, f[i - 1])
  BY <1>4 DEF Begun
<1>7. f[0] = Begun(from)
  <2>1. 0 \in 0..Len(data)
    OBVIOUS
  <2> QED BY <1>6, <2>1, Zenon
<1>8. ASSUME NEW i \in 1..Len(data) PROVE f[i] = NextItem(inner, data, f[i - 1])
  <2>1. i \in 0..Len(data) /\ i # 0
    OBVIOUS
  <2> QED BY <1>6, <2>1, Zenon
<1> QED BY <1>7, <1>8 DEF f

LEMMA LoopBegins ==
    ASSUME NEW inner, NEW data, Len(data) \in Nat, NEW from
    PROVE  Looped(inner, data, from)[0] = Begun(from)
BY LoopTurns

LEMMA LoopedIs ==
    ASSUME NEW inner, NEW data, NEW from
    PROVE  DecodeItems(inner, data, from) =
             LET end == Looped(inner, data, from)[Len(data)] IN
             IF end.state = "done"
             THEN Parsed(end.size, [Unset EXCEPT !.type = "LIST", !.list = end.items])
             ELSE Fails
BY DEF DecodeItems, Looped

-----------------------------------------------------------------------------
\* The equations, from each level to the next.
Kinds == {"UNSET", "ATOM", "NAMED", "METHOD", "LIST", "END_SESSION"}

LEMMA LevelUp == \A n \in Nat : n + 1 \in Nat /\ n + 1 # 0 /\ (n + 1) - 1 = n
OBVIOUS

LEMMA DataNext ==
    ASSUME NEW n \in Nat
    PROVE  Data[n + 1] = {x \in [type : Kinds, atom : AnyAtom, object : Raw, method : Raw,
                                 list : Seq(Data[n])] : x.type = "NAMED" => Len(x.list) = 1}
<1>1. Data[n + 1] = DataLevel(0, Data[n], n + 1)
  BY LevelUp, DataIs
<1> QED BY <1>1, LevelUp DEF DataLevel, Kinds

LEMMA SizeNext ==
    ASSUME NEW n \in Nat, NEW x \in Data[n + 1]
    PROVE  DatumSize[n + 1][x] =
             CASE x.type = "ATOM"   -> AtomSize(x.atom)
               [] x.type = "NAMED"  -> 2 + AtomSize(x.atom) + DatumSize[n][x.list[1]]
               [] x.type = "METHOD" -> MethodTokens + ListSize(DatumSize[n], x.list)
               [] x.type = "LIST"   -> ListSize(DatumSize[n], x.list)
               [] OTHER             -> 1
<1>1. DatumSize[n + 1] = SizeLevel(0, DatumSize[n], n + 1)
  BY LevelUp, SizeIs
<1> QED BY <1>1 DEF SizeLevel

LEMMA EncodeNext ==
    ASSUME NEW n \in Nat, NEW x \in Data[n + 1]
    PROVE  EncodeDatum[n + 1][x] =
             CASE x.type = "ATOM"   -> EncodeAtom(x.atom)
               [] x.type = "NAMED"  -> <<START_NAME>> \o EncodeAtom(x.atom)
                                         \o EncodeDatum[n][x.list[1]] \o <<END_NAME>>
               [] x.type = "METHOD" -> <<CALL>> \o EncodeAtom(new_uid(x.object))
                                         \o EncodeAtom(new_uid(x.method))
                                         \o EncodeList(EncodeDatum[n], x.list)
               [] x.type = "LIST"   -> EncodeList(EncodeDatum[n], x.list)
               [] OTHER             -> <<END_SESSION>>
<1>1. EncodeDatum[n + 1] = EncodeLevel(0, EncodeDatum[n], n + 1)
  BY LevelUp, EncodeIs
<1> QED BY <1>1 DEF EncodeLevel

LEMMA SameNext ==
    ASSUME NEW n \in Nat, NEW x \in Data[n + 1], NEW y \in Data[n + 1]
    PROVE  SameDatum[n + 1][x][y] =
             (/\ x.type = y.type
              /\ x.type \in {"ATOM", "NAMED"} => SameAtom(x.atom, y.atom)
              /\ x.type = "METHOD" => x.object = y.object /\ x.method = y.method
              /\ x.type \in {"NAMED", "METHOD", "LIST"} => SameList(SameDatum[n], x.list, y.list))
<1>1. SameDatum[n + 1] = SameLevel(0, SameDatum[n], n + 1)
  BY LevelUp, SameIs
<1> DEFINE Same(y1) ==
               /\ x.type = y1.type
               /\ x.type \in {"ATOM", "NAMED"} => SameAtom(x.atom, y1.atom)
               /\ x.type = "METHOD" => x.object = y1.object /\ x.method = y1.method
               /\ x.type \in {"NAMED", "METHOD", "LIST"} => SameList(SameDatum[n], x.list, y1.list)
<1>2. SameDatum[n + 1][x] = [y1 \in Data[n + 1] |-> Same(y1)]
  BY <1>1, Zenon DEF SameLevel
<1> HIDE DEF Same
<1>3. SameDatum[n + 1][x][y] = Same(y)
  BY <1>2, Zenon
<1> QED BY <1>3, Zenon DEF Same

LEMMA SentNext ==
    ASSUME NEW n \in Nat, NEW x \in Data[n + 1]
    PROVE  Sent[n + 1][x] =
             [x EXCEPT !.type = IF x.type = "UNSET" THEN "END_SESSION" ELSE x.type,
                       !.list = IF x.type \in {"NAMED", "METHOD", "LIST"}
                                THEN [i \in DOMAIN x.list |-> Sent[n][x.list[i]]] ELSE << >>]
<1>1. Sent[n + 1] = SentLevel(0, Sent[n], n + 1)
  BY LevelUp, SentIs
<1> QED BY <1>1 DEF SentLevel

LEMMA DecodeNext ==
    ASSUME NEW n \in Nat, NEW data \in Seq(Byte), data # << >>
    PROVE  DecodeDatum[n + 1][data] =
             LET tok == Head(data) IN
             CASE tok = START_LIST  -> DecodeItems(DecodeDatum[n], data, 1)
               [] tok = START_NAME  -> DecodeNamed(DecodeDatum[n], data)
               [] tok = CALL        -> DecodeMethod(DecodeDatum[n], data)
               [] tok = END_SESSION -> Parsed(1, [Unset EXCEPT !.type = "END_SESSION"])
               [] OTHER -> LET a == DecodeAtom(data) IN
                           IF a.ok THEN Parsed(a.size, [Unset EXCEPT !.type = "ATOM", !.atom = a.atom])
                           ELSE Fails
<1>1. DecodeDatum[n + 1] = DecodeLevel(0, DecodeDatum[n], n + 1)
  BY LevelUp, DecodeIs
<1>2. n + 1 # 0
  OBVIOUS
<1> QED BY <1>1, <1>2 DEF DecodeLevel

LEMMA NothingDecoded ==
    ASSUME NEW data \in Seq(Byte)
    PROVE  /\ DecodeDatum[0][data] = Fails
           /\ \A n \in Nat : DecodeDatum[n][<< >>] = Fails
<1>1. \A n \in Nat : DecodeDatum[n] = DecodeLevel(0, DecodeDatum[n - 1], n)
  BY DecodeIs
<1>2. << >> \in Seq(Byte)
  OBVIOUS
<1>3. \A n \in Nat : DecodeDatum[n][<< >>] = Fails
  BY <1>1, <1>2 DEF DecodeLevel
<1>4. DecodeDatum[0] = DecodeLevel(0, DecodeDatum[0 - 1], 0)
  BY <1>1
<1>5. DecodeDatum[0][data] = Fails
  BY <1>4 DEF DecodeLevel
<1> QED BY <1>3, <1>5

\* A call, from each level to the next.
After(n, x, path, op) ==
    IF path = << >> THEN LET y == Call(x, op) IN IF y = Error THEN x ELSE y
    ELSE LET y == Step(x, Head(path)) c == Child(Head(path)) IN
         IF y = Error THEN x
         ELSE [y EXCEPT !.list[c] = CallAt[n][y.list[c]][Tail(path)][op]]

LEMMA CallNext ==
    ASSUME NEW n \in Nat, NEW x \in Data[n + 1], NEW path \in Seq(Nat), NEW op \in Ops
    PROVE  CallAt[n + 1][x][path][op] = After(n, x, path, op)
<1>1. CallAt[n + 1] = CallLevel(0, CallAt[n], n + 1)
  BY LevelUp, CallIs
<1>2. CallAt[n + 1][x] = [p1 \in Seq(Nat) |-> [o1 \in Ops |-> After(n, x, p1, o1)]]
  BY <1>1 DEF CallLevel, After
<1>3. CallAt[n + 1][x][path][op] = After(n, x, path, op)
  BY <1>2
<1> QED BY <1>3

-----------------------------------------------------------------------------
\* Induction, and the fields of a datum.

LEMMA Induction ==
    ASSUME NEW S, 0 \in S, \A n \in Nat : n \in S => n + 1 \in S
    PROVE  \A n \in Nat : n \in S
BY AllData!Induction

\* Induction up to a number.
LEMMA InductionUpto ==
    ASSUME NEW N \in Nat, NEW S, 0 \in S, \A i \in 0..N - 1 : i \in S => i + 1 \in S
    PROVE  \A i \in 0..N : i \in S
<1> DEFINE T == {i \in Nat : i <= N => i \in S}
<1>1. 0 \in T
  OBVIOUS
<1>2. ASSUME NEW i \in Nat, i \in T PROVE i + 1 \in T
  BY <1>2
<1> HIDE DEF T
<1>3. \A i \in Nat : i \in T
  BY <1>1, <1>2, Induction
<1> QED BY <1>3 DEF T

TheDatum(type, a, o, m, s) == [type |-> type, atom |-> a, object |-> o, method |-> m, list |-> s]

LEMMA Fields ==
    ASSUME NEW type, NEW a, NEW o, NEW m, NEW s
    PROVE  LET x == TheDatum(type, a, o, m, s) IN
           x.type = type /\ x.atom = a /\ x.object = o /\ x.method = m /\ x.list = s
BY DEF TheDatum

LEMMA DataFields ==
    ASSUME NEW n \in Nat, NEW x \in Data[n + 1]
    PROVE  /\ x.type \in Kinds /\ x.atom \in AnyAtom /\ x.object \in Raw /\ x.method \in Raw
           /\ x.list \in Seq(Data[n])
           /\ x.type = "NAMED" => Len(x.list) = 1 /\ x.list[1] \in Data[n]
           /\ x = TheDatum(x.type, x.atom, x.object, x.method, x.list)
<1>1. /\ x \in [type : Kinds, atom : AnyAtom, object : Raw, method : Raw, list : Seq(Data[n])]
      /\ x.type = "NAMED" => Len(x.list) = 1
  BY DataNext
<1>2. x.list \in Seq(Data[n])
  BY <1>1
<1>3. Len(x.list) = 1 => x.list[1] \in Data[n]
  BY <1>2
<1>4. x = TheDatum(x.type, x.atom, x.object, x.method, x.list)
  BY <1>1 DEF TheDatum
<1> QED BY <1>1, <1>2, <1>3, <1>4

LEMMA DataMade ==
    ASSUME NEW n \in Nat, NEW type \in Kinds, NEW a \in AnyAtom, NEW o \in Raw, NEW m \in Raw,
           NEW s \in Seq(Data[n]), type = "NAMED" => Len(s) = 1
    PROVE  TheDatum(type, a, o, m, s) \in Data[n + 1]
<1> DEFINE x == TheDatum(type, a, o, m, s)
<1>1. x \in [type : Kinds, atom : AnyAtom, object : Raw, method : Raw, list : Seq(Data[n])]
  BY DEF TheDatum
<1>2. x.type = type /\ x.list = s
  BY DEF TheDatum
<1> HIDE DEF x
<1>3. x \in Data[n + 1]
  BY <1>1, <1>2, DataNext
<1> QED BY <1>3 DEF x

EndDatum           == TheDatum("END_SESSION", Empty, Zero, Zero, << >>)
AtomDatum(a)       == TheDatum("ATOM", a, Zero, Zero, << >>)
NamedDatum(a, v)   == TheDatum("NAMED", a, Zero, Zero, <<v>>)
ListDatum(s)       == TheDatum("LIST", Empty, Zero, Zero, s)
MethodDatum(o, m, s) == TheDatum("METHOD", Empty, o, m, s)

\* A datum with one field changed.
LEMMA SetType ==
    ASSUME NEW type, NEW a, NEW o, NEW m, NEW s, NEW y
    PROVE  [TheDatum(type, a, o, m, s) EXCEPT !.type = y] = TheDatum(y, a, o, m, s)
BY DEF TheDatum

LEMMA SetAtom ==
    ASSUME NEW type, NEW a, NEW o, NEW m, NEW s, NEW y
    PROVE  [TheDatum(type, a, o, m, s) EXCEPT !.atom = y] = TheDatum(type, y, o, m, s)
BY DEF TheDatum

LEMMA SetObject ==
    ASSUME NEW type, NEW a, NEW o, NEW m, NEW s, NEW y
    PROVE  [TheDatum(type, a, o, m, s) EXCEPT !.object = y] = TheDatum(type, a, y, m, s)
BY DEF TheDatum

LEMMA SetMethod ==
    ASSUME NEW type, NEW a, NEW o, NEW m, NEW s, NEW y
    PROVE  [TheDatum(type, a, o, m, s) EXCEPT !.method = y] = TheDatum(type, a, o, y, s)
BY DEF TheDatum

LEMMA SetList ==
    ASSUME NEW type, NEW a, NEW o, NEW m, NEW s, NEW y
    PROVE  [TheDatum(type, a, o, m, s) EXCEPT !.list = y] = TheDatum(type, a, o, m, y)
BY DEF TheDatum

LEMMA UnsetIs == Unset = TheDatum("UNSET", Empty, Zero, Zero, << >>)
BY DEF Unset, TheDatum

\* What the decoder fills in.
LEMMA Shapes ==
    /\ [Unset EXCEPT !.type = "END_SESSION"] = EndDatum
    /\ \A a : [Unset EXCEPT !.type = "ATOM", !.atom = a] = AtomDatum(a)
    /\ \A a, v : [Unset EXCEPT !.type = "NAMED", !.atom = a, !.list = <<v>>] = NamedDatum(a, v)
    /\ \A s : [Unset EXCEPT !.type = "LIST", !.list = s] = ListDatum(s)
    /\ \A o, m, s : [ListDatum(s) EXCEPT !.type = "METHOD", !.object = o, !.method = m]
                      = MethodDatum(o, m, s)
<1>1. [Unset EXCEPT !.type = "END_SESSION"] = EndDatum
  BY UnsetIs, SetType DEF EndDatum
<1>2. ASSUME NEW a PROVE [Unset EXCEPT !.type = "ATOM", !.atom = a] = AtomDatum(a)
  <2>1. [Unset EXCEPT !.type = "ATOM"] = TheDatum("ATOM", Empty, Zero, Zero, << >>)
    BY UnsetIs, SetType
  <2>2. [TheDatum("ATOM", Empty, Zero, Zero, << >>) EXCEPT !.atom = a] = AtomDatum(a)
    BY SetAtom DEF AtomDatum
  <2>3. [Unset EXCEPT !.type = "ATOM", !.atom = a]
          = [[Unset EXCEPT !.type = "ATOM"] EXCEPT !.atom = a]
    OBVIOUS
  <2> QED BY <2>1, <2>2, <2>3
<1>3. ASSUME NEW a, NEW v
      PROVE  [Unset EXCEPT !.type = "NAMED", !.atom = a, !.list = <<v>>] = NamedDatum(a, v)
  <2>1. [Unset EXCEPT !.type = "NAMED"] = TheDatum("NAMED", Empty, Zero, Zero, << >>)
    BY UnsetIs, SetType
  <2>2. [TheDatum("NAMED", Empty, Zero, Zero, << >>) EXCEPT !.atom = a]
          = TheDatum("NAMED", a, Zero, Zero, << >>)
    BY SetAtom
  <2>3. [TheDatum("NAMED", a, Zero, Zero, << >>) EXCEPT !.list = <<v>>] = NamedDatum(a, v)
    BY SetList DEF NamedDatum
  <2>4. [Unset EXCEPT !.type = "NAMED", !.atom = a, !.list = <<v>>]
          = [[[Unset EXCEPT !.type = "NAMED"] EXCEPT !.atom = a] EXCEPT !.list = <<v>>]
    OBVIOUS
  <2> QED BY <2>1, <2>2, <2>3, <2>4
<1>4. ASSUME NEW s PROVE [Unset EXCEPT !.type = "LIST", !.list = s] = ListDatum(s)
  <2>1. [Unset EXCEPT !.type = "LIST"] = TheDatum("LIST", Empty, Zero, Zero, << >>)
    BY UnsetIs, SetType
  <2>2. [TheDatum("LIST", Empty, Zero, Zero, << >>) EXCEPT !.list = s] = ListDatum(s)
    BY SetList DEF ListDatum
  <2>3. [Unset EXCEPT !.type = "LIST", !.list = s] = [[Unset EXCEPT !.type = "LIST"] EXCEPT !.list = s]
    OBVIOUS
  <2> QED BY <2>1, <2>2, <2>3
<1>5. ASSUME NEW o, NEW m, NEW s
      PROVE  [ListDatum(s) EXCEPT !.type = "METHOD", !.object = o, !.method = m] = MethodDatum(o, m, s)
  <2>1. [ListDatum(s) EXCEPT !.type = "METHOD"] = TheDatum("METHOD", Empty, Zero, Zero, s)
    BY SetType DEF ListDatum
  <2>2. [TheDatum("METHOD", Empty, Zero, Zero, s) EXCEPT !.object = o]
          = TheDatum("METHOD", Empty, o, Zero, s)
    BY SetObject
  <2>3. [TheDatum("METHOD", Empty, o, Zero, s) EXCEPT !.method = m] = MethodDatum(o, m, s)
    BY SetMethod DEF MethodDatum
  <2>4. [ListDatum(s) EXCEPT !.type = "METHOD", !.object = o, !.method = m]
          = [[[ListDatum(s) EXCEPT !.type = "METHOD"] EXCEPT !.object = o] EXCEPT !.method = m]
    OBVIOUS
  <2> QED BY <2>1, <2>2, <2>3, <2>4
<1> QED BY <1>1, <1>2, <1>3, <1>4, <1>5

LEMMA NothingIn == Empty \in AnyAtom /\ Zero \in Raw /\ \A S : << >> \in Seq(S) /\ Len(<< >>) = 0
<1>1. Clean(Empty)
  BY DEF Clean
<1> QED BY <1>1, CleanIsAtom, ZeroWord

-----------------------------------------------------------------------------
\* Lists as bytes.

LEMMA TokenBytes == Tokens \subseteq Byte
BY SMT DEF Byte, Tokens, START_LIST, END_LIST, START_NAME, END_NAME, CALL, END_SESSION

LEMMA TokenNumbers ==
    /\ START_LIST \in Tokens /\ END_LIST \in Tokens /\ START_NAME \in Tokens
    /\ END_NAME \in Tokens /\ CALL \in Tokens /\ END_SESSION \in Tokens
    /\ START_LIST # END_LIST /\ START_NAME # END_LIST /\ CALL # END_LIST /\ END_SESSION # END_LIST
    /\ START_LIST # START_NAME /\ START_LIST # CALL /\ START_NAME # CALL
    /\ START_LIST # END_SESSION /\ START_NAME # END_SESSION /\ CALL # END_SESSION
BY SMT DEF Tokens, START_LIST, END_LIST, START_NAME, END_NAME, CALL, END_SESSION

LEMMA TokenSequence ==
    ASSUME NEW b \in Tokens
    PROVE  <<b>> \in Seq(Byte) /\ Len(<<b>>) = 1 /\ <<b>>[1] = b
BY TokenBytes

\* The items of a list are encoded to so many bytes.
Writes(inner, S) == \A x \in S : inner[x] \in Seq(Byte) /\ Len(inner[x]) >= 1

LEMMA WrittenBytes ==
    ASSUME NEW S, NEW inner, Writes(inner, S), NEW items \in Seq(S)
    PROVE  \A i \in 0..Len(items) :
             /\ Written(inner, items)[i] \in Seq(Byte)
             /\ Len(Written(inner, items)[i]) >= i + 1
             /\ Written(inner, items)[i][1] = START_LIST
<1> DEFINE w == Written(inner, items)
           T == {i \in Nat : /\ w[i] \in Seq(Byte) /\ Len(w[i]) >= i + 1
                             /\ w[i][1] = START_LIST}
<1>0. Len(items) \in Nat /\ \A i \in 1..Len(items) : items[i] \in S
  OBVIOUS
<1>1. w[0] = <<START_LIST>> /\ \A i \in 1..Len(items) : w[i] = w[i - 1] \o inner[items[i]]
  BY <1>0, WrittenIs
<1> HIDE DEF w
<1>2. 0 \in T
  <2>1. <<START_LIST>> \in Seq(Byte) /\ Len(<<START_LIST>>) = 1 /\ <<START_LIST>>[1] = START_LIST
    BY TokenSequence, TokenNumbers
  <2>2. w[0] \in Seq(Byte) /\ Len(w[0]) >= 0 + 1 /\ w[0][1] = START_LIST
    BY <1>1, <2>1
  <2> QED BY <2>2
<1>3. ASSUME NEW i \in 0..Len(items) - 1, i \in T PROVE i + 1 \in T
  <2> DEFINE e == inner[items[i + 1]]
  <2>1. i + 1 \in 1..Len(items) /\ (i + 1) - 1 = i
    BY <1>0
  <2>2. w[i + 1] = w[i] \o e /\ e \in Seq(Byte) /\ Len(e) >= 1
    BY <1>0, <1>1, <2>1 DEF Writes
  <2> HIDE DEF e
  <2>3. w[i] \in Seq(Byte) /\ Len(w[i]) >= i + 1 /\ w[i][1] = START_LIST /\ 1 \in 1..Len(w[i])
    BY <1>3
  <2>4. w[i] \o e \in Seq(Byte) /\ Len(w[i] \o e) = Len(w[i]) + Len(e)
        /\ (w[i] \o e)[1] = START_LIST
    BY <2>2, <2>3, Concat
  <2>5. Len(w[i] \o e) >= i + 1 + 1
    BY <2>2, <2>3, <2>4
  <2>6. w[i + 1] \in Seq(Byte) /\ Len(w[i + 1]) >= i + 1 + 1 /\ w[i + 1][1] = START_LIST
    BY <2>2, <2>4, <2>5, Zenon
  <2> QED BY <2>1, <2>6
<1> HIDE DEF T
<1>4. \A i \in 0..Len(items) : i \in T
  BY <1>0, <1>2, <1>3, InductionUpto
<1> QED BY <1>4 DEF T, w

LEMMA ListBytes ==
    ASSUME NEW S, NEW inner, Writes(inner, S), NEW items \in Seq(S)
    PROVE  /\ EncodeList(inner, items) \in Seq(Byte)
           /\ Len(EncodeList(inner, items)) = Len(Written(inner, items)[Len(items)]) + 1
           /\ Len(EncodeList(inner, items)) >= 2
           /\ EncodeList(inner, items)[1] = START_LIST
<1> DEFINE w == Written(inner, items)[Len(items)]
           t == <<END_LIST>>
<1>0. Len(items) \in Nat /\ Len(items) \in 0..Len(items)
  OBVIOUS
<1>1. EncodeList(inner, items) = w \o t
  BY <1>0, WrittenIs
<1>2. w \in Seq(Byte) /\ Len(w) >= Len(items) + 1 /\ w[1] = START_LIST
  BY <1>0, WrittenBytes
<1>3. t \in Seq(Byte) /\ Len(t) = 1
  BY TokenSequence, TokenNumbers
<1> HIDE DEF w, t
<1>4. w \o t \in Seq(Byte) /\ Len(w \o t) = Len(w) + 1 /\ 1 \in 1..Len(w) /\ Len(w) >= 1
  <2>1. w \o t \in Seq(Byte) /\ Len(w \o t) = Len(w) + Len(t)
    BY <1>2, <1>3, Concat
  <2>2. Len(w) \in Nat
    BY <1>2
  <2> QED BY <1>0, <1>2, <1>3, <2>1, <2>2
<1>5. (w \o t)[1] = START_LIST
  BY <1>2, <1>3, <1>4, Concat
<1>6. Len(w \o t) >= 2
  BY <1>2, <1>4
<1> QED BY <1>1, <1>4, <1>5, <1>6 DEF w

LEMMA ListSized ==
    ASSUME NEW S, NEW inner, Writes(inner, S), NEW items \in Seq(S),
           NEW sizes, \A x \in S : sizes[x] = Len(inner[x])
    PROVE  ListSize(sizes, items) = Len(EncodeList(inner, items))
<1> DEFINE w == Written(inner, items)
           f == Summed(sizes, items)
           T == {i \in Nat : f[i] = Len(w[i]) + 1}
<1>0. Len(items) \in Nat /\ \A i \in 1..Len(items) : items[i] \in S
  OBVIOUS
<1>1. w[0] = <<START_LIST>> /\ \A i \in 1..Len(items) : w[i] = w[i - 1] \o inner[items[i]]
  BY <1>0, WrittenIs
<1>2. /\ ListSize(sizes, items) = f[Len(items)] /\ f[0] = 2
      /\ \A i \in 1..Len(items) : f[i] = f[i - 1] + sizes[items[i]]
  <2>1. Len(items) \in Nat
    BY <1>0
  <2>2. ListSize(sizes, items) = f[Len(items)]
    BY <2>1, SummedIs
  <2>3. f[0] = 2 /\ \A i \in 1..Len(items) : f[i] = f[i - 1] + sizes[items[i]]
    BY <2>1, SummedIs
  <2> QED BY <2>2, <2>3
<1>3. \A i \in 0..Len(items) : w[i] \in Seq(Byte)
  BY WrittenBytes
<1>4. Len(EncodeList(inner, items)) = Len(w[Len(items)]) + 1
  BY ListBytes
<1> HIDE DEF w, f
<1>5. 0 \in T
  <2>1. Len(<<START_LIST>>) = 1
    BY TokenSequence, TokenNumbers
  <2>2. f[0] = Len(w[0]) + 1
    BY <1>1, <1>2, <2>1
  <2> QED BY <2>2
<1>6. ASSUME NEW i \in 0..Len(items) - 1, i \in T PROVE i + 1 \in T
  <2> DEFINE e == inner[items[i + 1]]
  <2>1. i + 1 \in 1..Len(items) /\ (i + 1) - 1 = i /\ i \in 0..Len(items)
    BY <1>0
  <2>2. w[i + 1] = w[i] \o e /\ e \in Seq(Byte) /\ f[i + 1] = f[i] + Len(e)
    BY <1>0, <1>1, <1>2, <2>1 DEF Writes
  <2> HIDE DEF e
  <2>3. w[i] \in Seq(Byte) /\ f[i] = Len(w[i]) + 1
    BY <1>3, <1>6, <2>1
  <2>4. Len(w[i] \o e) = Len(w[i]) + Len(e)
    BY <2>2, <2>3, Concat
  <2>5. Len(w[i]) \in Nat /\ Len(e) \in Nat
    BY <2>2, <2>3
  <2>6. f[i + 1] = Len(w[i + 1]) + 1
    BY <2>2, <2>3, <2>4, <2>5
  <2> QED BY <2>1, <2>6
<1> HIDE DEF T
<1>7. \A i \in 0..Len(items) : i \in T
  BY <1>0, <1>5, <1>6, InductionUpto
<1>8. Len(items) \in T
  BY <1>0, <1>7
<1> QED BY <1>2, <1>4, <1>8 DEF T

\* Lists whose items are encoded alike are.
Alike(inner, s, t) == Len(s) = Len(t) /\ \A i \in 1..Len(s) : inner[s[i]] = inner[t[i]]

LEMMA ListsAlike ==
    ASSUME NEW inner, NEW s, NEW t, Len(s) \in Nat, Alike(inner, s, t)
    PROVE  EncodeList(inner, s) = EncodeList(inner, t)
<1> DEFINE w == Written(inner, s)
           v == Written(inner, t)
           T == {i \in Nat : w[i] = v[i]}
<1>1. /\ EncodeList(inner, s) = w[Len(s)] \o <<END_LIST>> /\ w[0] = <<START_LIST>>
      /\ \A i \in 1..Len(s) : w[i] = w[i - 1] \o inner[s[i]]
  <2>1. EncodeList(inner, s) = w[Len(s)] \o <<END_LIST>>
    BY WrittenIs
  <2>2. w[0] = <<START_LIST>> /\ \A i \in 1..Len(s) : w[i] = w[i - 1] \o inner[s[i]]
    BY WrittenIs
  <2> QED BY <2>1, <2>2
<1>2. /\ EncodeList(inner, t) = v[Len(s)] \o <<END_LIST>> /\ v[0] = <<START_LIST>>
      /\ \A i \in 1..Len(s) : v[i] = v[i - 1] \o inner[t[i]]
  <2>1. Len(t) \in Nat /\ Len(t) = Len(s)
    BY DEF Alike
  <2>2. EncodeList(inner, t) = v[Len(t)] \o <<END_LIST>>
    BY <2>1, WrittenIs
  <2>3. v[0] = <<START_LIST>> /\ \A i \in 1..Len(t) : v[i] = v[i - 1] \o inner[t[i]]
    BY <2>1, WrittenIs
  <2> HIDE DEF v
  <2> QED BY <2>1, <2>2, <2>3
<1> HIDE DEF w, v
<1>3. 0 \in T
  BY <1>1, <1>2
<1>4. ASSUME NEW i \in 0..Len(s) - 1, i \in T PROVE i + 1 \in T
  <2>1. i + 1 \in 1..Len(s) /\ (i + 1) - 1 = i
    OBVIOUS
  <2>2. inner[s[i + 1]] = inner[t[i + 1]]
    BY <2>1 DEF Alike
  <2>3. w[i + 1] = w[i] \o inner[s[i + 1]] /\ v[i + 1] = v[i] \o inner[t[i + 1]]
    BY <1>1, <1>2, <2>1
  <2>4. w[i + 1] = v[i + 1]
    BY <1>4, <2>2, <2>3
  <2> QED BY <2>1, <2>4
<1> HIDE DEF T
<1>5. \A i \in 0..Len(s) : i \in T
  BY <1>3, <1>4, InductionUpto
<1>6. Len(s) \in T
  BY <1>5
<1> QED BY <1>1, <1>2, <1>6 DEF T

-----------------------------------------------------------------------------
\* UIDs.
LEMMA UidBytes ==
    ASSUME NEW w \in Raw
    PROVE  /\ EncodeAtom(new_uid(w)) \in Seq(Byte) /\ Len(EncodeAtom(new_uid(w))) = 9
           /\ \E x : Clean(x) /\ EncodeAtom(new_uid(w)) = EncodeAtom(x) /\ get_uid(x) = w
<1>1. PICK x : /\ Clean(x) /\ EncodeAtom(new_uid(w)) = EncodeAtom(x)
               /\ AtomSize(new_uid(w)) = AtomSize(x) /\ Get("new_uid", x) = w
  BY UidFaithful DEF Faithful
<1>2. get_uid(x) = w
  BY <1>1 DEF Get
<1>3. AtomSize(new_uid(w)) = 9
  <2>1. Len(w) = 8
    BY WordsAreSequences
  <2>2. new_uid(w).type = "BYTES" /\ new_uid(w).enc = "SHORT" /\ new_uid(w).bytes = w
    BY DEF new_uid, Atom
  <2>3. get_header_size("SHORT") = 1
    BY DEF get_header_size
  <2>4. AtomSize(new_uid(w)) = get_header_size("SHORT") + Len(w)
    BY <2>2 DEF AtomSize
  <2> QED BY <2>1, <2>3, <2>4
<1> QED BY <1>1, <1>2, <1>3, AtomBytes

LEMMA UidRead ==
    ASSUME NEW x, Clean(x), get_uid(x) # NotThis
    PROVE  get_uid(x) \in Raw /\ EncodeAtom(x) = EncodeAtom(new_uid(get_uid(x)))
<1>1. x.type = "BYTES" /\ x.enc = "SHORT" /\ Len(x.bytes) = 8 /\ get_uid(x) = x.bytes
  BY DEF get_uid
<1>2. x.bytes \in Seq(Byte)
  BY CleanIsAtom DEF AnyAtom
<1>3. x.bytes \in Raw
  BY <1>1, <1>2, WordsAreSequences
<1> DEFINE y == new_uid(x.bytes)
<1>4. y.type = "BYTES" /\ y.enc = "SHORT" /\ y.bytes = x.bytes
  BY DEF new_uid, Atom
<1> HIDE DEF y
<1>5. Payload(x) = Payload(y)
  BY <1>1, <1>4 DEF Payload
<1>6. EncodeAtom(x) = EncodeAtom(y)
  BY <1>1, <1>4, <1>5 DEF EncodeAtom
<1> QED BY <1>1, <1>3, <1>6 DEF y

LEMMA UidIsSomething == \A w \in Raw : w # NotThis
<1>1. ASSUME NEW w \in Raw PROVE w # NotThis
  <2>1. Len(w) = 8
    BY WordsAreSequences
  <2>2. Len(NotThis) = 1
    BY DEF NotThis
  <2> QED BY <2>1, <2>2
<1> QED BY <1>1

-----------------------------------------------------------------------------
\* Every datum is encoded to as many bytes as announced, and the first does not
\* end a list.
Sized(n) ==
    \A x \in Data[n] :
        /\ EncodeDatum[n][x] \in Seq(Byte) /\ Len(EncodeDatum[n][x]) = DatumSize[n][x]
        /\ Len(EncodeDatum[n][x]) >= 1 /\ EncodeDatum[n][x][1] # END_LIST

LEMMA SizedNext ==
    ASSUME NEW n \in Nat, Sized(n)
    PROVE  Sized(n + 1)
<1> SUFFICES ASSUME NEW x \in Data[n + 1]
             PROVE  /\ EncodeDatum[n + 1][x] \in Seq(Byte)
                    /\ Len(EncodeDatum[n + 1][x]) = DatumSize[n + 1][x]
                    /\ Len(EncodeDatum[n + 1][x]) >= 1 /\ EncodeDatum[n + 1][x][1] # END_LIST
  BY DEF Sized
<1> DEFINE inner == EncodeDatum[n]
           sizes == DatumSize[n]
           e     == EncodeDatum[n + 1][x]
           size  == DatumSize[n + 1][x]
<1>1. x.type \in Kinds /\ x.atom \in AnyAtom /\ x.object \in Raw /\ x.method \in Raw
      /\ x.list \in Seq(Data[n]) /\ (x.type = "NAMED" => x.list[1] \in Data[n])
  BY DataFields
<1>2. Writes(inner, Data[n]) /\ \A y \in Data[n] : sizes[y] = Len(inner[y])
  BY DEF Sized, Writes
<1>3. /\ EncodeAtom(x.atom) \in Seq(Byte) /\ Len(EncodeAtom(x.atom)) = AtomSize(x.atom)
      /\ Len(EncodeAtom(x.atom)) >= 1 /\ EncodeAtom(x.atom)[1] \notin Tokens
  <2>1. PICK y : /\ Clean(y) /\ EncodeAtom(y) = EncodeAtom(x.atom)
                 /\ AtomSize(y) = AtomSize(x.atom)
    BY <1>1, AtomReread
  <2> QED BY <2>1, AtomBytes
<1> DEFINE l == EncodeList(inner, x.list)
<1>4. l \in Seq(Byte) /\ Len(l) >= 2 /\ l[1] = START_LIST /\ ListSize(sizes, x.list) = Len(l)
  BY <1>1, <1>2, ListBytes, ListSized
<1> HIDE DEF l
<1>5. CASE x.type = "ATOM"
  <2>1. e = EncodeAtom(x.atom) /\ size = AtomSize(x.atom)
    BY <1>5, EncodeNext, SizeNext
  <2> QED BY <1>3, <2>1, TokenNumbers
<1>6. CASE x.type = "NAMED"
  <2> DEFINE t == <<START_NAME>>
             a == EncodeAtom(x.atom)
             v == inner[x.list[1]]
             u == <<END_NAME>>
  <2>1. e = t \o a \o v \o u /\ size = 2 + AtomSize(x.atom) + sizes[x.list[1]]
    BY <1>6, EncodeNext, SizeNext
  <2>2. t \in Seq(Byte) /\ Len(t) = 1 /\ t[1] = START_NAME /\ u \in Seq(Byte) /\ Len(u) = 1
    BY TokenSequence, TokenNumbers
  <2>3. v \in Seq(Byte) /\ Len(v) = sizes[x.list[1]]
    BY <1>1, <1>2, <1>6 DEF Writes
  <2>4. a \in Seq(Byte) /\ Len(a) = AtomSize(x.atom)
    BY <1>3
  <2> HIDE DEF t, a, v, u
  <2>5. t \o a \in Seq(Byte) /\ Len(t \o a) = Len(t) + Len(a) /\ 1 \in 1..Len(t) /\ 1 \in 1..Len(t \o a)
        /\ (t \o a)[1] = t[1]
    <3>1. t \o a \in Seq(Byte) /\ Len(t \o a) = Len(t) + Len(a)
      BY <2>2, <2>4, Concat
    <3>4. 1 \in 1..Len(t)
      BY <2>2
    <3>2. (t \o a)[1] = t[1]
      BY <2>2, <2>4, <3>4, Concat
    <3>3. Len(a) \in Nat
      BY <2>4
    <3> QED BY <2>2, <3>1, <3>2, <3>3, <3>4
  <2>6. t \o a \o v \in Seq(Byte) /\ Len(t \o a \o v) = Len(t \o a) + Len(v)
        /\ (t \o a \o v)[1] = (t \o a)[1]
    BY <2>3, <2>5, Concat
  <2>7. Len(a) \in Nat /\ Len(v) \in Nat
    BY <2>3, <2>4
  <2>8. 1 \in 1..Len(t \o a \o v)
    BY <2>2, <2>5, <2>6, <2>7
  <2>9. t \o a \o v \o u \in Seq(Byte) /\ Len(t \o a \o v \o u) = Len(t \o a \o v) + Len(u)
        /\ (t \o a \o v \o u)[1] = (t \o a \o v)[1]
    BY <2>2, <2>6, <2>8, Concat
  <2>10. Len(t \o a \o v \o u) = 2 + Len(a) + Len(v)
    BY <2>2, <2>5, <2>6, <2>7, <2>9
  <2>11. Len(e) = size /\ Len(e) >= 1 /\ e[1] = START_NAME /\ e \in Seq(Byte)
    BY <2>1, <2>2, <2>3, <2>4, <2>5, <2>6, <2>7, <2>9, <2>10
  <2> QED BY <2>11, TokenNumbers
<1>7. CASE x.type = "METHOD"
  <2> DEFINE t == <<CALL>>
             o == EncodeAtom(new_uid(x.object))
             m == EncodeAtom(new_uid(x.method))
  <2>1. e = t \o o \o m \o l /\ size = 19 + ListSize(sizes, x.list)
    BY <1>7, EncodeNext, SizeNext DEF l, MethodTokens
  <2>2. t \in Seq(Byte) /\ Len(t) = 1 /\ t[1] = CALL
    BY TokenSequence, TokenNumbers
  <2>3. o \in Seq(Byte) /\ Len(o) = 9 /\ m \in Seq(Byte) /\ Len(m) = 9
    BY <1>1, UidBytes
  <2> HIDE DEF t, o, m
  <2>5. t \o o \in Seq(Byte) /\ Len(t \o o) = 10 /\ (t \o o)[1] = t[1]
    <3>1. 1 \in 1..Len(t)
      BY <2>2
    <3>2. t \o o \in Seq(Byte) /\ Len(t \o o) = Len(t) + Len(o) /\ (t \o o)[1] = t[1]
      BY <2>2, <2>3, <3>1, Concat
    <3> QED BY <2>2, <2>3, <3>2
  <2>6. t \o o \o m \in Seq(Byte) /\ Len(t \o o \o m) = 19 /\ (t \o o \o m)[1] = t[1]
    <3>1. 1 \in 1..Len(t \o o)
      BY <2>5
    <3>2. t \o o \o m \in Seq(Byte) /\ Len(t \o o \o m) = Len(t \o o) + Len(m)
          /\ (t \o o \o m)[1] = (t \o o)[1]
      BY <2>3, <2>5, <3>1, Concat
    <3> QED BY <2>3, <2>5, <3>2
  <2>7. t \o o \o m \o l \in Seq(Byte) /\ Len(t \o o \o m \o l) = 19 + Len(l)
        /\ (t \o o \o m \o l)[1] = t[1]
    <3>1. 1 \in 1..Len(t \o o \o m)
      BY <2>6
    <3> QED BY <1>4, <2>6, <3>1, Concat
  <2>8. Len(e) = size /\ Len(e) >= 1 /\ e[1] = CALL /\ e \in Seq(Byte)
    BY <1>4, <2>1, <2>2, <2>7
  <2> QED BY <2>8, TokenNumbers
<1>8. CASE x.type = "LIST"
  <2>1. e = l /\ size = ListSize(sizes, x.list)
    BY <1>8, EncodeNext, SizeNext DEF l
  <2> QED BY <1>4, <2>1, TokenNumbers
<1>9. CASE x.type \in {"UNSET", "END_SESSION"}
  <2>1. e = <<END_SESSION>> /\ size = 1
    BY <1>9, EncodeNext, SizeNext
  <2> QED BY <2>1, TokenSequence, TokenNumbers
<1> QED BY <1>1, <1>5, <1>6, <1>7, <1>8, <1>9 DEF Kinds

\* Every datum is encoded to as many bytes as datum::size announces.
LEMMA AllSized == \A n \in Nat : Sized(n)
<1> DEFINE T == {n \in Nat : Sized(n)}
<1>1. 0 \in T
  BY NoData DEF Sized
<1>2. ASSUME NEW n \in Nat, n \in T PROVE n + 1 \in T
  BY <1>2, SizedNext
<1> HIDE DEF T
<1>3. \A n \in Nat : n \in T
  BY <1>1, <1>2, Induction
<1> QED BY <1>3 DEF T

-----------------------------------------------------------------------------
\* A datum that is decoded as it is, wherever its bytes are.
Kept(n) ==
    {y \in Data[n] : \A data \in Seq(Byte) :
        At(data, 0, EncodeDatum[n][y]) => DecodeDatum[n][data] = Parsed(Len(EncodeDatum[n][y]), y)}

\* What begins with something is not empty.
LEMMA HeadAt ==
    ASSUME NEW data \in Seq(Byte), NEW e \in Seq(Byte), Len(e) >= 1, At(data, 0, e)
    PROVE  data # << >> /\ Head(data) = e[1] /\ data[1] = e[1] /\ Len(data) >= 1
<1>1. Len(e) \in Nat /\ Len(data) \in Nat /\ 1 \in 1..Len(e)
  OBVIOUS
<1>2. 0 + Len(e) <= Len(data) /\ data[0 + 1] = e[1]
  BY <1>1 DEF At
<1>3. Len(data) >= 1 /\ data[1] = e[1]
  BY <1>1, <1>2
<1> QED BY <1>3

LEMMA KeptBytes ==
    ASSUME NEW n \in Nat, NEW y \in Kept(n)
    PROVE  /\ y \in Data[n] /\ EncodeDatum[n][y] \in Seq(Byte) /\ Len(EncodeDatum[n][y]) \in Nat
           /\ Len(EncodeDatum[n][y]) >= 1 /\ EncodeDatum[n][y][1] # END_LIST
<1>1. y \in Data[n]
  BY DEF Kept
<1> QED BY <1>1, AllSized DEF Sized

LEMMA KeptAt ==
    ASSUME NEW n \in Nat, NEW y \in Kept(n), NEW data \in Seq(Byte), NEW k \in Nat,
           At(data, k, EncodeDatum[n][y])
    PROVE  /\ DecodeDatum[n][From(data, k)] = Parsed(Len(EncodeDatum[n][y]), y)
           /\ k < Len(data) /\ data[k + 1] = EncodeDatum[n][y][1]
<1> DEFINE e == EncodeDatum[n][y]
           f == From(data, k)
<1>1. e \in Seq(Byte) /\ Len(e) \in Nat /\ Len(e) >= 1 /\ 1 \in 1..Len(e)
  BY KeptBytes
<1>2. k + Len(e) <= Len(data) /\ data[k + 1] = e[1]
  BY <1>1 DEF At
<1>3. k <= Len(data) /\ k < Len(data)
  BY <1>1, <1>2
<1>4. f \in Seq(Byte)
  BY <1>3, FromIs
<1>5. At(f, 0, e)
  <2>1. 0 \in Nat /\ k + 0 = k
    OBVIOUS
  <2>2. At(f, 0, e) <=> At(data, k + 0, e)
    BY <1>1, <1>3, <2>1, AtFrom
  <2> QED BY <2>1, <2>2
<1>6. DecodeDatum[n][f] = Parsed(Len(e), y)
  BY <1>4, <1>5 DEF Kept
<1> QED BY <1>2, <1>3, <1>6

\* What is kept, and is one level further down.
LEMMA KeptNext ==
    ASSUME NEW n \in Nat, NEW y \in Data[n + 1],
           \A data \in Seq(Byte) : At(data, 0, EncodeDatum[n + 1][y]) =>
               DecodeDatum[n + 1][data] = Parsed(Len(EncodeDatum[n + 1][y]), y)
    PROVE  y \in Kept(n + 1)
BY DEF Kept

LEMMA ParsedFields ==
    ASSUME NEW size, NEW y
    PROVE  Parsed(size, y).ok /\ Parsed(size, y).size = size /\ Parsed(size, y).datum = y
BY DEF Parsed

LEMMA FailsIs == ~Fails.ok
BY DEF Fails

LEMMA EndMade ==
    ASSUME NEW n \in Nat
    PROVE  EndDatum \in Data[n + 1] /\ EncodeDatum[n + 1][EndDatum] = <<END_SESSION>>
<1>1. EndDatum \in Data[n + 1]
  BY NothingIn, DataMade DEF EndDatum, Kinds
<1>2. EndDatum.type = "END_SESSION"
  BY Fields DEF EndDatum
<1> QED BY <1>1, <1>2, EncodeNext

LEMMA KeptEnd ==
    ASSUME NEW n \in Nat
    PROVE  EndDatum \in Kept(n + 1)
<1>1. ASSUME NEW data \in Seq(Byte), At(data, 0, <<END_SESSION>>)
      PROVE  DecodeDatum[n + 1][data] = Parsed(1, EndDatum)
  <2>1. <<END_SESSION>> \in Seq(Byte) /\ Len(<<END_SESSION>>) = 1 /\ <<END_SESSION>>[1] = END_SESSION
    BY TokenSequence, TokenNumbers
  <2>2. data # << >> /\ Head(data) = END_SESSION
    <3> DEFINE e == <<END_SESSION>>
    <3>1. e \in Seq(Byte) /\ Len(e) >= 1 /\ e[1] = END_SESSION /\ At(data, 0, e)
      BY <1>1, <2>1
    <3> HIDE DEF e
    <3> QED BY <3>1, HeadAt
  <2>3. DecodeDatum[n + 1][data] = Parsed(1, [Unset EXCEPT !.type = "END_SESSION"])
    BY <2>2, DecodeNext, TokenNumbers
  <2> QED BY <2>3, Shapes
<1>2. Len(<<END_SESSION>>) = 1
  OBVIOUS
<1> QED BY <1>1, <1>2, EndMade, KeptNext

LEMMA AtomMade ==
    ASSUME NEW n \in Nat, NEW a, Clean(a)
    PROVE  AtomDatum(a) \in Data[n + 1] /\ EncodeDatum[n + 1][AtomDatum(a)] = EncodeAtom(a)
<1>0. a \in AnyAtom
  BY CleanIsAtom
<1>1. AtomDatum(a) \in Data[n + 1]
  BY <1>0, NothingIn, DataMade DEF AtomDatum, Kinds
<1>2. AtomDatum(a).type = "ATOM" /\ AtomDatum(a).atom = a
  BY Fields DEF AtomDatum
<1> QED BY <1>1, <1>2, EncodeNext

LEMMA KeptAtom ==
    ASSUME NEW n \in Nat, NEW a, Clean(a)
    PROVE  AtomDatum(a) \in Kept(n + 1)
<1> DEFINE e == EncodeAtom(a)
<1>1. e \in Seq(Byte) /\ Len(e) >= 1 /\ e[1] \notin Tokens
  BY AtomBytes
<1>2. ASSUME NEW data \in Seq(Byte), At(data, 0, e)
      PROVE  DecodeDatum[n + 1][data] = Parsed(Len(e), AtomDatum(a))
  <2>1. data # << >> /\ Head(data) = e[1]
    BY <1>1, <1>2, HeadAt
  <2>2. Head(data) # START_LIST /\ Head(data) # START_NAME /\ Head(data) # CALL
        /\ Head(data) # END_SESSION
    BY <1>1, <2>1, TokenNumbers
  <2>3. DecodeAtom(data) = Decoded(Len(e), a)
    <3>1. DecodeAtom(From(data, 0)) = Decoded(Len(e), a)
      BY <1>2, AtomAt
    <3> QED BY <3>1, FromStart
  <2> HIDE DEF e
  <2>4. DecodeAtom(data).ok /\ DecodeAtom(data).size = Len(e) /\ DecodeAtom(data).atom = a
    BY <2>3 DEF Decoded
  <2>5. DecodeDatum[n + 1][data] = Parsed(Len(e), [Unset EXCEPT !.type = "ATOM", !.atom = a])
    BY <2>1, <2>2, <2>4, DecodeNext
  <2> QED BY <2>5, Shapes
<1> QED BY <1>2, AtomMade, KeptNext

\* Four things one after the other.
LEMMA AtFour ==
    ASSUME NEW data \in Seq(Byte), NEW k \in Nat, NEW s \in Seq(Byte), NEW t \in Seq(Byte),
           NEW u \in Seq(Byte), NEW v \in Seq(Byte)
    PROVE  /\ s \o t \o u \o v \in Seq(Byte)
           /\ Len(s \o t \o u \o v) = Len(s) + Len(t) + Len(u) + Len(v)
           /\ At(data, k, s \o t \o u \o v) <=>
                /\ At(data, k, s) /\ At(data, k + Len(s), t)
                /\ At(data, k + Len(s) + Len(t), u)
                /\ At(data, k + Len(s) + Len(t) + Len(u), v)
<1>0. Len(s) \in Nat /\ Len(t) \in Nat /\ Len(u) \in Nat /\ Len(v) \in Nat
  OBVIOUS
<1>1. s \o t \in Seq(Byte) /\ Len(s \o t) = Len(s) + Len(t)
      /\ (At(data, k, s \o t) <=> At(data, k, s) /\ At(data, k + Len(s), t))
  BY Concat, AtConcat
<1> DEFINE p == s \o t
<1>2. p \in Seq(Byte) /\ Len(p) = Len(s) + Len(t)
      /\ (At(data, k, p) <=> At(data, k, s) /\ At(data, k + Len(s), t))
  BY <1>1
<1> HIDE DEF p
<1>3. p \o u \in Seq(Byte) /\ Len(p \o u) = Len(p) + Len(u)
      /\ (At(data, k, p \o u) <=> At(data, k, p) /\ At(data, k + Len(p), u))
  BY <1>2, Concat, AtConcat
<1> DEFINE q == p \o u
<1>4. q \in Seq(Byte) /\ Len(q) = Len(p) + Len(u)
      /\ (At(data, k, q) <=> At(data, k, p) /\ At(data, k + Len(p), u))
  BY <1>3
<1> HIDE DEF q
<1>5. q \o v \in Seq(Byte) /\ Len(q \o v) = Len(q) + Len(v)
      /\ (At(data, k, q \o v) <=> At(data, k, q) /\ At(data, k + Len(q), v))
  BY <1>4, Concat, AtConcat
<1>6. k + Len(p) = k + Len(s) + Len(t) /\ k + Len(q) = k + Len(s) + Len(t) + Len(u)
      /\ Len(q) + Len(v) = Len(s) + Len(t) + Len(u) + Len(v)
  BY <1>0, <1>2, <1>4
<1>7. s \o t \o u \o v = q \o v
  BY DEF p, q
<1> QED BY <1>2, <1>4, <1>5, <1>6, <1>7

LEMMA FourAt ==
    ASSUME NEW data \in Seq(Byte), NEW s \in Seq(Byte), NEW t \in Seq(Byte),
           NEW u \in Seq(Byte), NEW v \in Seq(Byte),
           NEW p, p = s \o t, NEW q, q = p \o u, NEW e, e = q \o v
    PROVE  At(data, 0, e) <=>
             /\ At(data, 0, s) /\ At(data, Len(s), t)
             /\ At(data, Len(s) + Len(t), u)
             /\ At(data, Len(s) + Len(t) + Len(u), v)
<1>1. p \in Seq(Byte) /\ Len(p) = Len(s) + Len(t)
  BY Concat
<1>2. q \in Seq(Byte) /\ Len(q) = Len(s) + Len(t) + Len(u)
  <2>1. q \in Seq(Byte) /\ Len(q) = Len(p) + Len(u)
    BY <1>1, Concat
  <2> QED BY <1>1, <2>1
<1>3. ASSUME NEW f \in Seq(Byte), NEW g \in Seq(Byte)
      PROVE  At(data, 0, f \o g) <=> At(data, 0, f) /\ At(data, Len(f), g)
  <2>1. 0 \in Nat /\ 0 + Len(f) = Len(f)
    OBVIOUS
  <2>2. At(data, 0, f \o g) <=> At(data, 0, f) /\ At(data, 0 + Len(f), g)
    BY <2>1, AtConcat
  <2> QED BY <2>1, <2>2
<1>4. At(data, 0, p) <=> At(data, 0, s) /\ At(data, Len(s), t)
  BY <1>3
<1>5. At(data, 0, q) <=> At(data, 0, p) /\ At(data, Len(p), u)
  BY <1>1, <1>3
<1>6. At(data, 0, e) <=> At(data, 0, q) /\ At(data, Len(q), v)
  BY <1>2, <1>3
<1> QED BY <1>1, <1>2, <1>4, <1>5, <1>6

LEMMA NamedMade ==
    ASSUME NEW n \in Nat, NEW a, Clean(a), NEW v \in Data[n]
    PROVE  /\ NamedDatum(a, v) \in Data[n + 1]
           /\ EncodeDatum[n + 1][NamedDatum(a, v)] =
                <<START_NAME>> \o EncodeAtom(a) \o EncodeDatum[n][v] \o <<END_NAME>>
<1>0. a \in AnyAtom /\ <<v>> \in Seq(Data[n]) /\ Len(<<v>>) = 1
  <2>1. a \in AnyAtom
    BY CleanIsAtom
  <2>2. <<v>> \in Seq(Data[n])
    <3>1. \A S : v \in S => <<v>> \in Seq(S)
      OBVIOUS
    <3> QED BY <3>1
  <2>3. Len(<<v>>) = 1
    OBVIOUS
  <2> QED BY <2>1, <2>2, <2>3
<1>1. NamedDatum(a, v) \in Data[n + 1]
  BY <1>0, NothingIn, DataMade DEF NamedDatum, Kinds
<1>2. NamedDatum(a, v).type = "NAMED" /\ NamedDatum(a, v).atom = a /\ NamedDatum(a, v).list = <<v>>
  BY Fields DEF NamedDatum
<1>3. <<v>>[1] = v
  OBVIOUS
<1> QED BY <1>1, <1>2, <1>3, EncodeNext

LEMMA KeptNamed ==
    ASSUME NEW n \in Nat, NEW a, Clean(a), NEW v \in Kept(n)
    PROVE  NamedDatum(a, v) \in Kept(n + 1)
<1> DEFINE s == <<START_NAME>>
           t == EncodeAtom(a)
           u == EncodeDatum[n][v]
           z == <<END_NAME>>
           e == s \o t \o u \o z
           y == NamedDatum(a, v)
<1>0. v \in Data[n] /\ u \in Seq(Byte) /\ Len(u) \in Nat
  BY KeptBytes
<1>1. y \in Data[n + 1] /\ EncodeDatum[n + 1][y] = e
  BY <1>0, NamedMade
<1>2. /\ s \in Seq(Byte) /\ Len(s) = 1 /\ s[1] = START_NAME
      /\ z \in Seq(Byte) /\ Len(z) = 1
      /\ t \in Seq(Byte) /\ Len(t) \in Nat
  BY TokenSequence, TokenNumbers, AtomBytes
<1>3. ASSUME NEW data \in Seq(Byte), At(data, 0, e)
      PROVE  DecodeDatum[n + 1][data] = Parsed(Len(e), y)
  <2> HIDE DEF s, t, u, z, y
  <2>1. /\ e \in Seq(Byte) /\ Len(e) = 1 + Len(t) + Len(u) + 1
        /\ At(data, 0, s) /\ At(data, 1, t) /\ At(data, 1 + Len(t), u)
        /\ At(data, 1 + Len(t) + Len(u), z)
    <3>1. 0 \in Nat /\ 0 + Len(s) = 1
      BY <1>2
    <3>2. s \in Seq(Byte) /\ t \in Seq(Byte) /\ u \in Seq(Byte) /\ z \in Seq(Byte)
      BY <1>0, <1>2
    <3>3. /\ s \o t \o u \o z \in Seq(Byte)
          /\ Len(s \o t \o u \o z) = Len(s) + Len(t) + Len(u) + Len(z)
      BY <3>2, AtFour
    <3>4. At(data, 0, s \o t \o u \o z) =>
             /\ At(data, 0, s) /\ At(data, 0 + Len(s), t) /\ At(data, 0 + Len(s) + Len(t), u)
             /\ At(data, 0 + Len(s) + Len(t) + Len(u), z)
      BY <3>1, <3>2, AtFour
    <3> QED BY <1>2, <1>3, <3>1, <3>3, <3>4
  <2> HIDE DEF e
  <2>2. data # << >> /\ Head(data) = START_NAME
    <3>1. Len(s) >= 1
      BY <1>2
    <3> QED BY <1>2, <2>1, <3>1, HeadAt
  <2>3. DecodeDatum[n + 1][data] = DecodeNamed(DecodeDatum[n], data)
    BY <2>2, DecodeNext, TokenNumbers
  <2>4. DecodeAtom(From(data, 1)) = Decoded(Len(t), a)
    BY <2>1, AtomAt DEF t
  <2>5. DecodeDatum[n][From(data, 1 + Len(t))] = Parsed(Len(u), v)
    <3>1. 1 + Len(t) \in Nat
      BY <1>2
    <3> QED BY <2>1, <3>1, KeptAt DEF u
  <2>6. TokenAt(data, 1 + Len(t) + Len(u), END_NAME)
    <3>1. 1 + Len(t) + Len(u) \in Nat /\ END_NAME \in Byte
      BY <1>0, <1>2, TokenNumbers, TokenBytes
    <3> QED BY <2>1, <3>1, AtToken DEF z
  <2>7. DecodeNamed(DecodeDatum[n], data) =
          Parsed(2 + Len(t) + Len(u), [Unset EXCEPT !.type = "NAMED", !.atom = a, !.list = <<v>>])
    <3> DEFINE r == DecodeAtom(From(data, 1))
               w == DecodeDatum[n][From(data, 1 + Len(t))]
    <3>1. r.ok /\ r.size = Len(t) /\ r.atom = a
      BY <2>4 DEF Decoded
    <3>2. w.ok /\ w.size = Len(u) /\ w.datum = v
      BY <2>5, ParsedFields
    <3>3. DecodeNamed(DecodeDatum[n], data) =
            IF ~r.ok THEN Fails
            ELSE LET x == DecodeDatum[n][From(data, 1 + r.size)] IN
                 IF x.ok /\ TokenAt(data, 1 + r.size + x.size, END_NAME)
                 THEN Parsed(2 + r.size + x.size,
                             [Unset EXCEPT !.type = "NAMED", !.atom = r.atom, !.list = <<x.datum>>])
                 ELSE Fails
      BY Zenon DEF DecodeNamed
    <3> HIDE DEF r
    <3>4. DecodeNamed(DecodeDatum[n], data) =
            IF w.ok /\ TokenAt(data, 1 + Len(t) + w.size, END_NAME)
            THEN Parsed(2 + Len(t) + w.size,
                        [Unset EXCEPT !.type = "NAMED", !.atom = a, !.list = <<w.datum>>])
            ELSE Fails
      BY <3>1, <3>3, Zenon
    <3> HIDE DEF w
    <3> QED BY <2>6, <3>2, <3>4, Zenon
  <2>8. 2 + Len(t) + Len(u) = Len(e)
    BY <1>0, <1>2, <2>1
  <2> QED BY <2>3, <2>7, <2>8, Shapes DEF y
<1> QED BY <1>1, <1>3, KeptNext

-----------------------------------------------------------------------------
\* A turn of the loop over the items.
Turn(state, size, items) == [state |-> state, size |-> size, items |-> items]

LEMMA TurnFields ==
    ASSUME NEW state, NEW size, NEW items
    PROVE  /\ Turn(state, size, items).state = state
           /\ Turn(state, size, items).size = size
           /\ Turn(state, size, items).items = items
BY DEF Turn

LEMMA SetTurn ==
    ASSUME NEW state, NEW size, NEW items, NEW y
    PROVE  [Turn(state, size, items) EXCEPT !.state = y] = Turn(y, size, items)
BY DEF Turn

LEMMA SetTurnSize ==
    ASSUME NEW state, NEW size, NEW items, NEW y
    PROVE  [Turn(state, size, items) EXCEPT !.size = y] = Turn(state, y, items)
BY DEF Turn

LEMMA SetTurnItems ==
    ASSUME NEW state, NEW size, NEW items, NEW y
    PROVE  [Turn(state, size, items) EXCEPT !.items = y] = Turn(state, size, y)
BY DEF Turn

\* What a turn does, the whole of it.
LEMMA NextTurn ==
    ASSUME NEW inner, NEW data, NEW size, NEW items
    PROVE  LET x == inner[From(data, size)] IN
           NextItem(inner, data, Turn("more", size, items)) =
             IF size >= Len(data) THEN Turn("thrown", size, items)
             ELSE IF data[size + 1] = END_LIST THEN Turn("done", size + 1, items)
             ELSE IF x.ok THEN Turn("more", size + x.size, Append(items, x.datum))
             ELSE Turn("thrown", size, items)
<1> DEFINE loop == Turn("more", size, items)
           x    == inner[From(data, size)]
<1>1. loop.state = "more" /\ loop.size = size /\ loop.items = items
  BY TurnFields
<1>2. [loop EXCEPT !.state = "thrown"] = Turn("thrown", size, items)
  BY SetTurn
<1>3. [loop EXCEPT !.state = "done", !.size = size + 1] = Turn("done", size + 1, items)
  <2>1. [loop EXCEPT !.state = "done"] = Turn("done", size, items)
    BY SetTurn
  <2>2. [Turn("done", size, items) EXCEPT !.size = size + 1] = Turn("done", size + 1, items)
    BY SetTurnSize
  <2>3. [loop EXCEPT !.state = "done", !.size = size + 1]
          = [[loop EXCEPT !.state = "done"] EXCEPT !.size = size + 1]
    OBVIOUS
  <2> QED BY <2>1, <2>2, <2>3
<1>4. [loop EXCEPT !.size = size + x.size, !.items = Append(items, x.datum)]
        = Turn("more", size + x.size, Append(items, x.datum))
  <2>1. [loop EXCEPT !.size = size + x.size] = Turn("more", size + x.size, items)
    BY SetTurnSize
  <2>2. [Turn("more", size + x.size, items) EXCEPT !.items = Append(items, x.datum)]
          = Turn("more", size + x.size, Append(items, x.datum))
    <3> DEFINE y == Append(items, x.datum)
               z == size + x.size
    <3> HIDE DEF y, z
    <3>1. [Turn("more", z, items) EXCEPT !.items = y] = Turn("more", z, y)
      BY SetTurnItems
    <3> QED BY <3>1 DEF y, z
  <2>3. [loop EXCEPT !.size = size + x.size, !.items = Append(items, x.datum)]
          = [[loop EXCEPT !.size = size + x.size] EXCEPT !.items = Append(items, x.datum)]
    OBVIOUS
  <2> QED BY <2>1, <2>2, <2>3
<1> HIDE DEF loop, x
<1>5. NextItem(inner, data, loop) =
        IF loop.size >= Len(data) THEN [loop EXCEPT !.state = "thrown"]
        ELSE IF data[loop.size + 1] = END_LIST
             THEN [loop EXCEPT !.state = "done", !.size = loop.size + 1]
        ELSE IF inner[From(data, loop.size)].ok
             THEN [loop EXCEPT !.size = loop.size + inner[From(data, loop.size)].size,
                               !.items = Append(loop.items, inner[From(data, loop.size)].datum)]
             ELSE [loop EXCEPT !.state = "thrown"]
  BY <1>1 DEF NextItem
<1> QED BY <1>1, <1>2, <1>3, <1>4, <1>5 DEF x, loop

LEMMA LastTurn ==
    ASSUME NEW inner, NEW data, NEW state, NEW size, NEW items, state # "more"
    PROVE  NextItem(inner, data, Turn(state, size, items)) = Turn(state, size, items)
BY TurnFields DEF NextItem

\* Where the bytes of a list begin: those of its first items.
LEMMA ListAt ==
    ASSUME NEW S, NEW inner, Writes(inner, S), NEW items \in Seq(S),
           NEW data \in Seq(Byte), NEW k \in Nat, At(data, k, EncodeList(inner, items))
    PROVE  /\ At(data, k + Len(Written(inner, items)[Len(items)]), <<END_LIST>>)
           /\ \A i \in 0..Len(items) : At(data, k, Written(inner, items)[i])
<1> DEFINE w == Written(inner, items)
           m == Len(items)
           T == {j \in Nat : At(data, k, w[m - j])}
<1>0. m \in Nat /\ \A i \in 1..m : items[i] \in S
  OBVIOUS
<1>1. EncodeList(inner, items) = w[m] \o <<END_LIST>>
  BY <1>0, WrittenIs
<1>2. \A i \in 1..m : w[i] = w[i - 1] \o inner[items[i]]
  <2>1. m \in Nat
    BY <1>0
  <2> QED BY <2>1, WrittenIs
<1>3. \A i \in 0..m : w[i] \in Seq(Byte)
  BY WrittenBytes
<1>4. <<END_LIST>> \in Seq(Byte)
  BY TokenSequence, TokenNumbers
<1> HIDE DEF w, m
<1>5. At(data, k, w[m]) /\ At(data, k + Len(w[m]), <<END_LIST>>)
  <2>1. w[m] \in Seq(Byte)
    BY <1>0, <1>3
  <2>2. At(data, k, w[m] \o <<END_LIST>>)
    BY <1>1
  <2> QED BY <1>4, <2>1, <2>2, AtConcat
<1>6. 0 \in T
  <2>1. m - 0 = m
    BY <1>0
  <2> QED BY <1>5, <2>1
<1>7. ASSUME NEW j \in 0..m - 1, j \in T PROVE j + 1 \in T
  <2> DEFINE i == m - j
  <2>1. i \in 1..m /\ i \in 0..m /\ i - 1 \in 0..m /\ m - (j + 1) = i - 1 /\ j + 1 \in Nat
    BY <1>0
  <2> DEFINE e == inner[items[i]]
  <2>2. At(data, k, w[i])
    BY <1>7
  <2> HIDE DEF i
  <2>3. e \in Seq(Byte) /\ w[i] = w[i - 1] \o e
    BY <1>0, <1>2, <2>1 DEF Writes
  <2>4. w[i - 1] \in Seq(Byte)
    BY <1>3, <2>1
  <2> HIDE DEF e
  <2>5. At(data, k, w[i - 1])
    BY <2>2, <2>3, <2>4, AtConcat
  <2> QED BY <2>1, <2>5
<1> HIDE DEF T
<1>8. \A j \in 0..m : j \in T
  BY <1>0, <1>6, <1>7, InductionUpto
<1>9. ASSUME NEW i \in 0..m PROVE At(data, k, w[i])
  <2>1. m - i \in 0..m /\ m - (m - i) = i
    BY <1>0
  <2> QED BY <1>8, <2>1 DEF T
<1> QED BY <1>5, <1>9 DEF w, m

LEMMA KeptWrites ==
    ASSUME NEW n \in Nat
    PROVE  Writes(EncodeDatum[n], Kept(n)) /\ Writes(EncodeDatum[n], Data[n])
BY KeptBytes, AllSized DEF Sized, Writes

\* The items of a list are read one after the other, and then its end.
LEMMA ItemsRead ==
    ASSUME NEW n \in Nat, NEW s \in Seq(Kept(n)), NEW data \in Seq(Byte), NEW k \in Nat,
           At(data, k, EncodeList(EncodeDatum[n], s))
    PROVE  DecodeItems(DecodeDatum[n], data, k + 1)
             = Parsed(k + Len(EncodeList(EncodeDatum[n], s)), ListDatum(s))
<1> DEFINE inner == EncodeDatum[n]
           w == Written(inner, s)
           f == Looped(DecodeDatum[n], data, k + 1)
           m == Len(s)
           Read(i) == \E items \in Seq(Kept(n)) :
                        /\ f[i] = Turn("more", k + Len(w[i]), items)
                        /\ Len(items) = i /\ \A j \in 1..i : items[j] = s[j]
           T == {i \in Nat : Read(i)}
<1>0. m \in Nat /\ (\A i \in 1..m : s[i] \in Kept(n)) /\ Len(data) \in Nat /\ k + 1 \in Nat
  OBVIOUS
<1>1. Writes(inner, Kept(n))
  BY KeptWrites
<1>2. \A i \in 0..m : w[i] \in Seq(Byte) /\ Len(w[i]) >= i + 1
  BY <1>1, WrittenBytes
<1>3. At(data, k + Len(w[m]), <<END_LIST>>) /\ \A i \in 0..m : At(data, k, w[i])
  BY <1>1, ListAt
<1>4. w[0] = <<START_LIST>> /\ \A i \in 1..m : w[i] = w[i - 1] \o inner[s[i]]
  <2>1. Len(s) \in Nat
    BY <1>0
  <2> QED BY <2>1, WrittenIs
<1>5. f[0] = Begun(k + 1) /\ \A i \in 1..Len(data) : f[i] = NextItem(DecodeDatum[n], data, f[i - 1])
  <2>1. Len(data) \in Nat
    BY <1>0
  <2>2. f[0] = Begun(k + 1)
    BY <2>1, LoopBegins
  <2>3. \A i \in 1..Len(data) : f[i] = NextItem(DecodeDatum[n], data, f[i - 1])
    BY <2>1, LoopTurns
  <2> QED BY <2>2, <2>3
<1>6. DecodeItems(DecodeDatum[n], data, k + 1) =
        LET end == f[Len(data)] IN
        IF end.state = "done"
        THEN Parsed(end.size, [Unset EXCEPT !.type = "LIST", !.list = end.items])
        ELSE Fails
  BY LoopedIs
<1>7. Len(EncodeList(inner, s)) = Len(w[m]) + 1
  BY <1>1, ListBytes
<1> HIDE DEF w, f, m
<1>8. k + Len(w[m]) < Len(data) /\ data[k + Len(w[m]) + 1] = END_LIST
      /\ Len(w[m]) >= m + 1 /\ Len(w[m]) \in Nat
  <2>1. Len(w[m]) >= m + 1 /\ Len(w[m]) \in Nat
    BY <1>0, <1>2
  <2>2. k + Len(w[m]) \in Nat /\ END_LIST \in Byte
    BY <2>1, TokenNumbers, TokenBytes
  <2> DEFINE a == k + Len(w[m])
  <2>3. a \in Nat /\ At(data, a, <<END_LIST>>)
    BY <1>3, <2>2
  <2> HIDE DEF a
  <2>4. TokenAt(data, a, END_LIST)
    BY <2>2, <2>3, AtToken
  <2> QED BY <2>1, <2>4 DEF TokenAt, a
<1>9. 0 \in T
  <2>1. w[0] = <<START_LIST>> /\ Len(w[0]) = 1
    BY <1>4, TokenSequence, TokenNumbers
  <2>2. f[0] = Turn("more", k + Len(w[0]), << >>)
    BY <1>5, <2>1 DEF Begun, Turn
  <2>3. << >> \in Seq(Kept(n)) /\ Len(<< >>) = 0 /\ \A j \in 1..0 : << >>[j] = s[j]
    <3>1. << >> \in Seq(Kept(n)) /\ Len(<< >>) = 0
      BY NothingIn
    <3>2. \A j \in 1..0 : FALSE
      OBVIOUS
    <3> QED BY <3>1, <3>2
  <2>4. Read(0)
    BY <2>2, <2>3
  <2> QED BY <2>4
<1>10. ASSUME NEW i \in 0..m - 1, i \in T PROVE i + 1 \in T
  <2>0. i + 1 \in 1..m /\ i \in 0..m /\ i + 1 \in 0..m /\ (i + 1) - 1 = i /\ i + 1 \in Nat
    BY <1>0
  <2>1. PICK items \in Seq(Kept(n)) :
          f[i] = Turn("more", k + Len(w[i]), items) /\ Len(items) = i
          /\ \A j \in 1..i : items[j] = s[j]
    BY <1>10
  <2> DEFINE x == s[i + 1]
             e == inner[x]
             z == k + Len(w[i])
  <2>2. x \in Kept(n) /\ e \in Seq(Byte) /\ Len(e) \in Nat /\ Len(e) >= 1 /\ e[1] # END_LIST
    BY <1>0, <2>0, KeptBytes
  <2>3. w[i] \in Seq(Byte) /\ Len(w[i]) \in Nat /\ z \in Nat /\ w[i + 1] = w[i] \o e
    <3>1. w[i] \in Seq(Byte)
      BY <1>2, <2>0
    <3>2. Len(w[i]) \in Nat
      BY <3>1
    <3>3. w[i + 1] = w[(i + 1) - 1] \o inner[s[i + 1]]
      BY <1>4, <2>0
    <3> QED BY <2>0, <3>1, <3>2, <3>3
  <2>4. At(data, z, e) /\ Len(w[i + 1]) = Len(w[i]) + Len(e)
    <3>1. At(data, k, w[i] \o e)
      BY <1>3, <2>0, <2>3
    <3> HIDE DEF e
    <3>2. At(data, k, w[i] \o e) => At(data, k + Len(w[i]), e)
      BY <2>2, <2>3, AtConcat
    <3> QED BY <2>2, <2>3, <3>1, <3>2, Concat
  <2>5. /\ DecodeDatum[n][From(data, z)] = Parsed(Len(e), x)
        /\ z < Len(data) /\ data[z + 1] # END_LIST
    <3>1. DecodeDatum[n][From(data, z)] = Parsed(Len(e), x) /\ z < Len(data) /\ data[z + 1] = e[1]
      <4> HIDE DEF z
      <4>1. x \in Kept(n) /\ z \in Nat /\ At(data, z, EncodeDatum[n][x])
        BY <2>2, <2>3, <2>4
      <4> HIDE DEF x
      <4> QED BY <4>1, KeptAt
    <3> QED BY <2>2, <3>1
  <2> HIDE DEF x, e, z
  <2>6. i + 1 \in 1..Len(data)
    <3>1. Len(w[i]) >= i + 1 /\ z = k + Len(w[i])
      BY <1>2, <2>0 DEF z
    <3> QED BY <1>0, <2>3, <2>5, <3>1
  <2>7. f[i + 1] = NextItem(DecodeDatum[n], data, Turn("more", z, items))
    <3>1. f[i] = Turn("more", z, items)
      BY <2>1 DEF z
    <3>2. f[i + 1] = NextItem(DecodeDatum[n], data, f[(i + 1) - 1])
      BY <1>5, <2>6
    <3> QED BY <2>0, <3>1, <3>2
  <2>8. f[i + 1] = Turn("more", z + Len(e), Append(items, x))
    <3> DEFINE r == DecodeDatum[n][From(data, z)]
    <3>1. r.ok /\ r.size = Len(e) /\ r.datum = x
      BY <2>5, ParsedFields
    <3>2. ~(z >= Len(data))
      BY <1>0, <2>3, <2>5
    <3>3. NextItem(DecodeDatum[n], data, Turn("more", z, items)) =
            IF z >= Len(data) THEN Turn("thrown", z, items)
            ELSE IF data[z + 1] = END_LIST THEN Turn("done", z + 1, items)
            ELSE IF r.ok THEN Turn("more", z + r.size, Append(items, r.datum))
            ELSE Turn("thrown", z, items)
      BY NextTurn
    <3> HIDE DEF r
    <3> QED BY <2>5, <2>7, <3>1, <3>2, <3>3, Zenon
  <2>9. z + Len(e) = k + Len(w[i + 1])
    BY <2>2, <2>3, <2>4 DEF z
  <2>10. Append(items, x) \in Seq(Kept(n)) /\ Len(Append(items, x)) = i + 1
         /\ \A j \in 1..i + 1 : Append(items, x)[j] = s[j]
    <3>1. /\ Append(items, x) \in Seq(Kept(n)) /\ Len(Append(items, x)) = i + 1
          /\ \A j \in 1..i : Append(items, x)[j] = items[j]
          /\ Append(items, x)[i + 1] = x
      BY <2>1, <2>2, AppendProperties
    <3>2. \A j \in 1..i + 1 : j \in 1..i \/ j = i + 1
      BY <2>0
    <3> QED BY <2>1, <3>1, <3>2 DEF x
  <2>11. Read(i + 1)
    BY <2>8, <2>9, <2>10
  <2> QED BY <2>0, <2>11
<1> HIDE DEF T
<1>11. \A i \in 0..m : i \in T
  BY <1>0, <1>9, <1>10, InductionUpto
<1>12. f[m] = Turn("more", k + Len(w[m]), s)
  <2>1. m \in T
    BY <1>0, <1>11
  <2>2. PICK items \in Seq(Kept(n)) :
          f[m] = Turn("more", k + Len(w[m]), items) /\ Len(items) = m
          /\ \A j \in 1..m : items[j] = s[j]
    BY <2>1 DEF T
  <2>3. items = s
    BY <2>2, SeqEqual DEF m
  <2> QED BY <2>2, <2>3
<1> DEFINE z == k + Len(w[m])
           g == Turn("done", z + 1, s)
<1>13. m + 1 \in 1..Len(data) /\ (m + 1) - 1 = m
  BY <1>0, <1>8
<1>14. f[m + 1] = g
  <2>1. f[m + 1] = NextItem(DecodeDatum[n], data, Turn("more", z, s))
    <3>1. f[m + 1] = NextItem(DecodeDatum[n], data, f[(m + 1) - 1])
      BY <1>5, <1>13
    <3> QED BY <1>12, <1>13, <3>1
  <2>2. ~(z >= Len(data)) /\ data[z + 1] = END_LIST
    BY <1>0, <1>8
  <2> HIDE DEF z
  <2> QED BY <2>1, <2>2, NextTurn
<1> DEFINE U == {i \in Nat : f[m + 1 + i] = g}
<1>15. 0 \in U
  <2>1. m + 1 + 0 = m + 1
    BY <1>0
  <2> QED BY <1>14, <2>1
<1>16. ASSUME NEW i \in 0..(Len(data) - (m + 1)) - 1, i \in U PROVE i + 1 \in U
  <2>1. m + 1 + (i + 1) \in 1..Len(data) /\ (m + 1 + (i + 1)) - 1 = m + 1 + i /\ i + 1 \in Nat
    BY <1>0, <1>13
  <2>2. f[m + 1 + (i + 1)] = NextItem(DecodeDatum[n], data, f[m + 1 + i])
    BY <1>5, <2>1
  <2>3. f[m + 1 + i] = g
    BY <1>16
  <2>4. NextItem(DecodeDatum[n], data, g) = g
    BY LastTurn
  <2> QED BY <2>1, <2>2, <2>3, <2>4
<1> HIDE DEF U
<1>17. \A i \in 0..(Len(data) - (m + 1)) : i \in U
  <2>1. Len(data) - (m + 1) \in Nat
    BY <1>0, <1>13
  <2> QED BY <2>1, <1>15, <1>16, InductionUpto
<1>18. f[Len(data)] = g
  <2>1. Len(data) - (m + 1) \in 0..(Len(data) - (m + 1)) /\ m + 1 + (Len(data) - (m + 1)) = Len(data)
    BY <1>0, <1>13
  <2>2. Len(data) - (m + 1) \in U
    BY <1>17, <2>1
  <2> QED BY <2>1, <2>2 DEF U
<1>19. g.state = "done" /\ g.size = z + 1 /\ g.items = s
  BY TurnFields
<1>20. z + 1 = k + Len(EncodeList(inner, s))
  BY <1>0, <1>7, <1>8
<1> HIDE DEF z, g
<1>21. DecodeItems(DecodeDatum[n], data, k + 1) = Parsed(z + 1, [Unset EXCEPT !.type = "LIST", !.list = s])
  BY <1>6, <1>18, <1>19
<1> QED BY <1>20, <1>21, Shapes

-----------------------------------------------------------------------------
\* Lists and method calls of what is decoded as it is.

LEMMA ItemsOfData ==
    ASSUME NEW n \in Nat, NEW s \in Seq(Kept(n))
    PROVE  s \in Seq(Data[n])
<1>1. Kept(n) \subseteq Data[n]
  BY DEF Kept
<1> HIDE DEF Kept
<1> DEFINE K == Kept(n)
           D == Data[n]
<1>2. s \in Seq(K) /\ K \subseteq D
  BY <1>1
<1> HIDE DEF K, D
<1>3. s \in Seq(D)
  BY <1>2
<1> QED BY <1>3 DEF D

LEMMA ListMade ==
    ASSUME NEW n \in Nat, NEW s \in Seq(Data[n])
    PROVE  /\ ListDatum(s) \in Data[n + 1]
           /\ EncodeDatum[n + 1][ListDatum(s)] = EncodeList(EncodeDatum[n], s)
<1>1. ListDatum(s) \in Data[n + 1]
  BY NothingIn, DataMade DEF ListDatum, Kinds
<1>2. ListDatum(s).type = "LIST" /\ ListDatum(s).list = s
  BY Fields DEF ListDatum
<1> QED BY <1>1, <1>2, EncodeNext

LEMMA KeptList ==
    ASSUME NEW n \in Nat, NEW s \in Seq(Kept(n))
    PROVE  ListDatum(s) \in Kept(n + 1)
<1> DEFINE e == EncodeList(EncodeDatum[n], s)
           y == ListDatum(s)
<1>1. y \in Data[n + 1] /\ EncodeDatum[n + 1][y] = e
  BY ItemsOfData, ListMade
<1>2. e \in Seq(Byte) /\ Len(e) >= 2 /\ e[1] = START_LIST /\ Len(e) \in Nat
  BY KeptWrites, ListBytes
<1>3. ASSUME NEW data \in Seq(Byte), At(data, 0, e)
      PROVE  DecodeDatum[n + 1][data] = Parsed(Len(e), y)
  <2>1. DecodeItems(DecodeDatum[n], data, 0 + 1) = Parsed(0 + Len(e), y)
    <3>1. 0 \in Nat
      OBVIOUS
    <3> QED BY <1>3, <3>1, ItemsRead
  <2> HIDE DEF e, y
  <2>2. 0 + 1 = 1 /\ 0 + Len(e) = Len(e) /\ Len(e) >= 1
    BY <1>2
  <2>3. data # << >> /\ Head(data) = START_LIST
    BY <1>2, <1>3, <2>2, HeadAt
  <2>4. DecodeDatum[n + 1][data] = DecodeItems(DecodeDatum[n], data, 1)
    BY <2>3, DecodeNext, TokenNumbers
  <2> QED BY <2>1, <2>2, <2>4
<1> QED BY <1>1, <1>3, KeptNext

LEMMA MethodMade ==
    ASSUME NEW n \in Nat, NEW o \in Raw, NEW m \in Raw, NEW s \in Seq(Data[n])
    PROVE  /\ MethodDatum(o, m, s) \in Data[n + 1]
           /\ EncodeDatum[n + 1][MethodDatum(o, m, s)] =
                <<CALL>> \o EncodeAtom(new_uid(o)) \o EncodeAtom(new_uid(m))
                  \o EncodeList(EncodeDatum[n], s)
<1>1. MethodDatum(o, m, s) \in Data[n + 1]
  BY NothingIn, DataMade DEF MethodDatum, Kinds
<1>2. /\ MethodDatum(o, m, s).type = "METHOD" /\ MethodDatum(o, m, s).object = o
      /\ MethodDatum(o, m, s).method = m /\ MethodDatum(o, m, s).list = s
  BY Fields DEF MethodDatum
<1> QED BY <1>1, <1>2, EncodeNext

\* A UID where it is expected.
LEMMA UidAt ==
    ASSUME NEW w \in Raw, NEW data \in Seq(Byte), NEW k \in Nat, At(data, k, EncodeAtom(new_uid(w)))
    PROVE  IsUid(DecodeAtom(From(data, k))) /\ get_uid(DecodeAtom(From(data, k)).atom) = w
<1>1. PICK x : Clean(x) /\ EncodeAtom(new_uid(w)) = EncodeAtom(x) /\ get_uid(x) = w
  BY UidBytes
<1>2. DecodeAtom(From(data, k)) = Decoded(Len(EncodeAtom(x)), x)
  <2>1. At(data, k, EncodeAtom(x))
    BY <1>1
  <2> QED BY <1>1, <2>1, AtomAt
<1>3. DecodeAtom(From(data, k)).ok /\ DecodeAtom(From(data, k)).atom = x
  BY <1>2 DEF Decoded
<1> QED BY <1>1, <1>3, UidIsSomething DEF IsUid

\* The four parts of a method call, and where they are.
LEMMA CallParts ==
    ASSUME NEW o \in Raw, NEW m \in Raw, NEW l \in Seq(Byte)
    PROVE  LET e == <<CALL>> \o EncodeAtom(new_uid(o)) \o EncodeAtom(new_uid(m)) \o l IN
           /\ e \in Seq(Byte) /\ Len(e) = 19 + Len(l)
           /\ \A data \in Seq(Byte) :
                At(data, 0, e) <=> /\ At(data, 0, <<CALL>>)
                                   /\ At(data, 1, EncodeAtom(new_uid(o)))
                                   /\ At(data, 10, EncodeAtom(new_uid(m)))
                                   /\ At(data, 19, l)
<1> DEFINE c == <<CALL>>
           s == EncodeAtom(new_uid(o))
           t == EncodeAtom(new_uid(m))
           e == c \o s \o t \o l
<1>1. /\ c \in Seq(Byte) /\ Len(c) = 1 /\ s \in Seq(Byte) /\ Len(s) = 9
      /\ t \in Seq(Byte) /\ Len(t) = 9 /\ Len(l) \in Nat
  BY TokenSequence, TokenNumbers, UidBytes
<1> HIDE DEF c, s, t
<1>2. e \in Seq(Byte) /\ Len(e) = Len(c) + Len(s) + Len(t) + Len(l)
  <2>1. e = (c \o s) \o t \o l
    OBVIOUS
  <2>2. c \o s \in Seq(Byte) /\ Len(c \o s) = Len(c) + Len(s)
    BY <1>1, Concat
  <2>3. (c \o s) \o t \in Seq(Byte) /\ Len((c \o s) \o t) = Len(c) + Len(s) + Len(t)
    <3> DEFINE p == c \o s
    <3>1. p \in Seq(Byte) /\ Len(p) = Len(c) + Len(s)
      BY <2>2
    <3> HIDE DEF p
    <3>2. p \o t \in Seq(Byte) /\ Len(p \o t) = Len(p) + Len(t)
      BY <1>1, <3>1, Concat
    <3> QED BY <3>1, <3>2 DEF p
  <2> DEFINE q == (c \o s) \o t
  <2>4. q \in Seq(Byte) /\ Len(q) = Len(c) + Len(s) + Len(t) /\ e = q \o l
    BY <2>3
  <2> HIDE DEF q, e
  <2>5. q \o l \in Seq(Byte) /\ Len(q \o l) = Len(q) + Len(l)
    BY <2>4, Concat
  <2> QED BY <2>4, <2>5
<1>3. ASSUME NEW data \in Seq(Byte)
      PROVE  At(data, 0, e) <=> At(data, 0, c) /\ At(data, 1, s) /\ At(data, 10, t) /\ At(data, 19, l)
  <2> DEFINE p == c \o s
             q == p \o t
  <2>1. e = q \o l /\ Len(c) = 1 /\ Len(c) + Len(s) = 10 /\ Len(c) + Len(s) + Len(t) = 19
    BY <1>1
  <2> HIDE DEF e
  <2>2. p = c \o s /\ q = p \o t
    OBVIOUS
  <2> HIDE DEF p, q
  <2>3. At(data, 0, e) <=> /\ At(data, 0, c) /\ At(data, Len(c), s)
                           /\ At(data, Len(c) + Len(s), t)
                           /\ At(data, Len(c) + Len(s) + Len(t), l)
    BY <1>1, <2>1, <2>2, FourAt
  <2> QED BY <2>1, <2>3
<1>4. Len(e) = 19 + Len(l)
  BY <1>1, <1>2
<1> QED BY <1>2, <1>3, <1>4 DEF c, s, t

LEMMA KeptMethod ==
    ASSUME NEW n \in Nat, NEW o \in Raw, NEW m \in Raw, NEW s \in Seq(Kept(n))
    PROVE  MethodDatum(o, m, s) \in Kept(n + 1)
<1> DEFINE l == EncodeList(EncodeDatum[n], s)
           e == <<CALL>> \o EncodeAtom(new_uid(o)) \o EncodeAtom(new_uid(m)) \o l
           y == MethodDatum(o, m, s)
<1>1. y \in Data[n + 1] /\ EncodeDatum[n + 1][y] = e
  BY ItemsOfData, MethodMade
<1>2. l \in Seq(Byte) /\ Len(l) >= 2 /\ l[1] = START_LIST /\ Len(l) \in Nat /\ 1 \in 1..Len(l)
  BY KeptWrites, ListBytes
<1>3. ASSUME NEW data \in Seq(Byte), At(data, 0, e)
      PROVE  DecodeDatum[n + 1][data] = Parsed(Len(e), y)
  <2>1. /\ At(data, 0, <<CALL>>) /\ At(data, 1, EncodeAtom(new_uid(o)))
        /\ At(data, 10, EncodeAtom(new_uid(m))) /\ At(data, 19, l) /\ Len(e) = 19 + Len(l)
    BY <1>2, <1>3, CallParts
  <2>2. data # << >> /\ Head(data) = CALL
    <3> DEFINE c == <<CALL>>
    <3>1. c \in Seq(Byte) /\ Len(c) >= 1 /\ c[1] = CALL /\ At(data, 0, c)
      BY <2>1, TokenSequence, TokenNumbers
    <3> HIDE DEF c
    <3> QED BY <3>1, HeadAt
  <2>3. DecodeDatum[n + 1][data] = DecodeMethod(DecodeDatum[n], data)
    BY <2>2, DecodeNext, TokenNumbers
  <2> DEFINE r == DecodeAtom(From(data, 1))
             q == DecodeAtom(From(data, 10))
             a == DecodeItems(DecodeDatum[n], data, 20)
  <2>4. IsUid(r) /\ get_uid(r.atom) = o
    <3>1. 1 \in Nat
      OBVIOUS
    <3> QED BY <2>1, <3>1, UidAt
  <2>5. IsUid(q) /\ get_uid(q.atom) = m
    <3>1. 10 \in Nat
      OBVIOUS
    <3> QED BY <2>1, <3>1, UidAt
  <2>6. TokenAt(data, 19, START_LIST)
    <3>1. 19 + Len(l) <= Len(data) /\ data[19 + 1] = l[1]
      BY <1>2, <2>1 DEF At
    <3>2. Len(data) \in Nat
      OBVIOUS
    <3> HIDE DEF l
    <3>3. 19 < Len(data)
      BY <1>2, <3>1, <3>2
    <3> QED BY <1>2, <3>1, <3>3 DEF TokenAt
  <2>7. a = Parsed(Len(e), ListDatum(s))
    <3>1. 19 \in Nat /\ 19 + 1 = 20
      OBVIOUS
    <3>2. DecodeItems(DecodeDatum[n], data, 19 + 1) = Parsed(19 + Len(l), ListDatum(s))
      BY <2>1, <3>1, ItemsRead
    <3> QED BY <2>1, <3>1, <3>2
  <2> HIDE DEF l, e
  <2>8. DecodeMethod(DecodeDatum[n], data) = Parsed(Len(e), y)
    <3>1. a.ok /\ a.size = Len(e) /\ a.datum = ListDatum(s)
      BY <2>7, ParsedFields
    <3>2. MethodUids(r.atom, q.atom)[1] = o /\ MethodUids(r.atom, q.atom)[2] = m
      BY <2>4, <2>5 DEF MethodUids
    <3> DEFINE u == MethodUids(r.atom, q.atom)
    <3>3. DecodeMethod(DecodeDatum[n], data) =
            IF ~IsUid(r) THEN Fails
            ELSE IF ~IsUid(q) \/ ~TokenAt(data, 19, START_LIST) THEN Fails
            ELSE IF ~a.ok THEN Fails
            ELSE Parsed(a.size, [a.datum EXCEPT !.type = "METHOD", !.object = u[1], !.method = u[2]])
      BY Zenon DEF DecodeMethod
    <3> HIDE DEF r, q, a, u
    <3>4. DecodeMethod(DecodeDatum[n], data) =
            Parsed(a.size, [a.datum EXCEPT !.type = "METHOD", !.object = u[1], !.method = u[2]])
      BY <2>4, <2>5, <2>6, <3>1, <3>3, Zenon
    <3>5. u[1] = o /\ u[2] = m
      BY <3>2 DEF u
    <3>6. DecodeMethod(DecodeDatum[n], data) =
            Parsed(Len(e), [ListDatum(s) EXCEPT !.type = "METHOD", !.object = o, !.method = m])
      BY <3>1, <3>4, <3>5, Zenon
    <3> QED BY <3>6, Shapes
  <2> QED BY <2>3, <2>8
<1> QED BY <1>1, <1>3, KeptNext

-----------------------------------------------------------------------------
\* One item more: the bytes of the others are as they were.
LEMMA WrittenAppend ==
    ASSUME NEW S, NEW inner, NEW items \in Seq(S), NEW x \in S
    PROVE  LET s == Append(items, x) IN
           Written(inner, s)[Len(s)] = Written(inner, items)[Len(items)] \o inner[x]
<1> DEFINE s == Append(items, x)
           m == Len(items)
           w == Written(inner, items)
           v == Written(inner, s)
           T == {i \in Nat : w[i] = v[i]}
<1>1. /\ s \in Seq(S) /\ Len(s) = m + 1 /\ s[m + 1] = x /\ m \in Nat
      /\ \A i \in 1..m : s[i] = items[i]
  BY AppendProperties
<1> HIDE DEF s, m
<1>2. w[0] = <<START_LIST>> /\ \A i \in 1..m : w[i] = w[i - 1] \o inner[items[i]]
  <2>1. Len(items) \in Nat
    BY <1>1 DEF m
  <2>2. w[0] = <<START_LIST>> /\ \A i \in 1..Len(items) : w[i] = w[i - 1] \o inner[items[i]]
    BY <2>1, WrittenIs
  <2> QED BY <2>2 DEF m
<1>3. v[0] = <<START_LIST>> /\ \A i \in 1..m + 1 : v[i] = v[i - 1] \o inner[s[i]]
  <2>1. Len(s) \in Nat
    BY <1>1
  <2>2. v[0] = <<START_LIST>> /\ \A i \in 1..Len(s) : v[i] = v[i - 1] \o inner[s[i]]
    BY <2>1, WrittenIs
  <2> QED BY <1>1, <2>2
<1> HIDE DEF w, v
<1>4. 0 \in T
  BY <1>2, <1>3
<1>5. ASSUME NEW i \in 0..m - 1, i \in T PROVE i + 1 \in T
  <2>1. i + 1 \in 1..m /\ i + 1 \in 1..m + 1 /\ (i + 1) - 1 = i /\ i + 1 \in Nat
    BY <1>1
  <2>2. w[i + 1] = w[i] \o inner[items[i + 1]] /\ v[i + 1] = v[i] \o inner[s[i + 1]]
    BY <1>2, <1>3, <2>1
  <2>3. s[i + 1] = items[i + 1]
    BY <1>1, <2>1
  <2>4. w[i + 1] = v[i + 1]
    BY <1>5, <2>2, <2>3
  <2> QED BY <2>1, <2>4
<1> HIDE DEF T
<1>6. \A i \in 0..m : i \in T
  BY <1>1, <1>4, <1>5, InductionUpto
<1>7. m \in T
  BY <1>1, <1>6
<1>8. v[m + 1] = w[m] \o inner[x]
  <2>1. m + 1 \in 1..m + 1 /\ (m + 1) - 1 = m
    BY <1>1
  <2>2. v[m + 1] = v[m] \o inner[s[m + 1]]
    BY <1>3, <2>1
  <2> QED BY <1>1, <1>7, <2>2 DEF T
<1>9. v[Len(s)] = w[m] \o inner[x]
  BY <1>1, <1>8
<1> QED BY <1>9 DEF s, m, w, v

\* What is decoded has the bytes that were used, and would be decoded again.
Found(n) ==
    \A data \in Seq(Byte) : DecodeDatum[n][data].ok =>
        /\ DecodeDatum[n][data].datum \in Kept(n)
        /\ At(data, 0, EncodeDatum[n][DecodeDatum[n][data].datum])
        /\ DecodeDatum[n][data].size = Len(EncodeDatum[n][DecodeDatum[n][data].datum])

LEMMA FoundAt ==
    ASSUME NEW n \in Nat, Found(n), NEW data \in Seq(Byte), NEW k \in Nat, k <= Len(data),
           DecodeDatum[n][From(data, k)].ok
    PROVE  LET r == DecodeDatum[n][From(data, k)] IN
           /\ r.datum \in Kept(n) /\ At(data, k, EncodeDatum[n][r.datum])
           /\ r.size = Len(EncodeDatum[n][r.datum])
<1> DEFINE f == From(data, k)
           r == DecodeDatum[n][f]
           e == EncodeDatum[n][r.datum]
<1>1. f \in Seq(Byte)
  BY FromIs
<1>2. r.datum \in Kept(n) /\ At(f, 0, e) /\ r.size = Len(e)
  BY <1>1 DEF Found
<1>3. e \in Seq(Byte)
  BY <1>2, KeptBytes
<1>4. At(data, k, e)
  <2> HIDE DEF e
  <2>1. 0 \in Nat /\ k + 0 = k
    OBVIOUS
  <2>2. At(f, 0, e) <=> At(data, k + 0, e)
    BY <1>3, <2>1, AtFrom
  <2> QED BY <1>2, <2>1, <2>2
<1> QED BY <1>2, <1>4

\* What the loop over the items has found so far.
Far(n, data, k, state, size, items) ==
    /\ state = "more" => /\ At(data, k, Written(EncodeDatum[n], items)[Len(items)])
                         /\ size = k + Len(Written(EncodeDatum[n], items)[Len(items)])
    /\ state = "done" => /\ At(data, k, EncodeList(EncodeDatum[n], items))
                         /\ size = k + Len(EncodeList(EncodeDatum[n], items))

SoFar(n, data, k, t) ==
    \E state \in {"more", "done", "thrown"}, size \in Nat, items \in Seq(Kept(n)) :
        t = Turn(state, size, items) /\ Far(n, data, k, state, size, items)

LEMMA FarNext ==
    ASSUME NEW n \in Nat, Found(n), NEW data \in Seq(Byte), NEW k \in Nat,
           NEW t, SoFar(n, data, k, t)
    PROVE  SoFar(n, data, k, NextItem(DecodeDatum[n], data, t))
<1> DEFINE inner == EncodeDatum[n]
           u == NextItem(DecodeDatum[n], data, t)
<1>1. PICK state \in {"more", "done", "thrown"}, size \in Nat, items \in Seq(Kept(n)) :
         t = Turn(state, size, items) /\ Far(n, data, k, state, size, items)
  BY DEF SoFar
<1>2. CASE state # "more"
  <2>1. u = t
    BY <1>1, <1>2, LastTurn
  <2> QED BY <2>1
<1>3. CASE state = "more"
  <2> DEFINE w == Written(inner, items)[Len(items)]
             r == DecodeDatum[n][From(data, size)]
             thrown == Turn("thrown", size, items)
  <2>1. At(data, k, w) /\ size = k + Len(w) /\ w \in Seq(Byte) /\ Len(w) \in Nat
    <3>1. At(data, k, w) /\ size = k + Len(w)
      BY <1>1, <1>3 DEF Far
    <3>2. Len(items) \in 0..Len(items)
      OBVIOUS
    <3>3. w \in Seq(Byte)
      BY <3>2, KeptWrites, WrittenBytes
    <3> QED BY <3>1, <3>3
  <2>2. u = IF size >= Len(data) THEN thrown
            ELSE IF data[size + 1] = END_LIST THEN Turn("done", size + 1, items)
            ELSE IF r.ok THEN Turn("more", size + r.size, Append(items, r.datum))
            ELSE thrown
    BY <1>1, <1>3, NextTurn
  <2>3. SoFar(n, data, k, thrown)
    <3>1. Far(n, data, k, "thrown", size, items)
      BY DEF Far
    <3> QED BY <3>1 DEF SoFar
  <2> HIDE DEF thrown, u
  <2>4. CASE size >= Len(data)
    <3>1. u = thrown
      BY <2>2, <2>4, Zenon
    <3> QED BY <2>3, <3>1 DEF u
  <2>5. CASE ~(size >= Len(data)) /\ data[size + 1] = END_LIST
    <3>1. u = Turn("done", size + 1, items)
      BY <2>2, <2>5, Zenon
    <3> DEFINE e == <<END_LIST>>
    <3>2. EncodeList(inner, items) = w \o e
      <4>1. Len(items) \in Nat
        OBVIOUS
      <4> QED BY <4>1, WrittenIs
    <3>3. e \in Seq(Byte) /\ Len(e) = 1
      BY TokenSequence, TokenNumbers
    <3>4. At(data, size, e)
      <4>1. TokenAt(data, size, END_LIST)
        BY <2>5 DEF TokenAt
      <4>2. END_LIST \in Byte
        BY TokenNumbers, TokenBytes
      <4> QED BY <4>1, <4>2, AtToken
    <3> HIDE DEF e, w
    <3>5. At(data, k, w \o e) /\ Len(w \o e) = Len(w) + 1
      <4>1. At(data, k, w \o e) <=> At(data, k, w) /\ At(data, k + Len(w), e)
        BY <2>1, <3>3, AtConcat
      <4>2. Len(w \o e) = Len(w) + Len(e)
        BY <2>1, <3>3, Concat
      <4> QED BY <2>1, <3>3, <3>4, <4>1, <4>2
    <3>6. size + 1 = k + Len(w \o e) /\ size + 1 \in Nat
      BY <2>1, <3>5
    <3>7. Far(n, data, k, "done", size + 1, items)
      BY <3>2, <3>5, <3>6 DEF Far
    <3>8. SoFar(n, data, k, Turn("done", size + 1, items))
      BY <3>6, <3>7 DEF SoFar
    <3> QED BY <3>1, <3>8 DEF u
  <2>6. CASE ~(size >= Len(data)) /\ data[size + 1] # END_LIST /\ r.ok
    <3> DEFINE x == r.datum
               e == inner[x]
               s == Append(items, x)
    <3>1. u = Turn("more", size + r.size, s)
      BY <2>2, <2>6, Zenon
    <3>2. x \in Kept(n) /\ At(data, size, e) /\ r.size = Len(e)
      <4>1. size <= Len(data)
        BY <2>6
      <4> QED BY <2>6, <4>1, FoundAt
    <3> HIDE DEF r
    <3>3. e \in Seq(Byte) /\ Len(e) \in Nat
      BY <3>2, KeptBytes
    <3>4. s \in Seq(Kept(n))
      BY <3>2, AppendProperties
    <3>4a. Written(inner, s)[Len(s)] = w \o e
      <4> DEFINE S == Kept(n)
      <4>1. items \in Seq(S) /\ x \in S
        BY <3>2
      <4> HIDE DEF S, inner, x
      <4> QED BY <4>1, WrittenAppend
    <3> HIDE DEF e, w, s
    <3>5. At(data, k, w \o e) /\ Len(w \o e) = Len(w) + Len(e)
      <4>1. At(data, k, w \o e) <=> At(data, k, w) /\ At(data, k + Len(w), e)
        BY <2>1, <3>3, AtConcat
      <4>2. Len(w \o e) = Len(w) + Len(e)
        BY <2>1, <3>3, Concat
      <4> QED BY <2>1, <3>2, <4>1, <4>2
    <3>6. size + r.size = k + Len(w \o e) /\ size + r.size \in Nat
      BY <2>1, <3>2, <3>3, <3>5
    <3>7. Far(n, data, k, "more", size + r.size, s)
      BY <3>4a, <3>5, <3>6 DEF Far
    <3>8. SoFar(n, data, k, Turn("more", size + r.size, s))
      BY <3>4, <3>6, <3>7 DEF SoFar
    <3> QED BY <3>1, <3>8 DEF u
  <2>7. CASE ~(size >= Len(data)) /\ data[size + 1] # END_LIST /\ ~r.ok
    <3>1. u = thrown
      BY <2>2, <2>7, Zenon
    <3> QED BY <2>3, <3>1 DEF u
  <2> QED BY <2>4, <2>5, <2>6, <2>7 DEF u
<1> QED BY <1>2, <1>3

LEMMA LoopEnds ==
    ASSUME NEW inner, NEW data, Len(data) \in Nat, NEW from, NEW state, NEW size, NEW items,
           Looped(inner, data, from)[Len(data)] = Turn(state, size, items)
    PROVE  DecodeItems(inner, data, from) = IF state = "done" THEN Parsed(size, ListDatum(items)) ELSE Fails
<1> DEFINE end == Looped(inner, data, from)[Len(data)]
<1>1. DecodeItems(inner, data, from) =
        IF end.state = "done"
        THEN Parsed(end.size, [Unset EXCEPT !.type = "LIST", !.list = end.items])
        ELSE Fails
  BY LoopedIs
<1>2. end.state = state /\ end.size = size /\ end.items = items
  BY TurnFields
<1> HIDE DEF end
<1>3. DecodeItems(inner, data, from) =
        IF state = "done" THEN Parsed(size, [Unset EXCEPT !.type = "LIST", !.list = items]) ELSE Fails
  BY <1>1, <1>2
<1> QED BY <1>3, Shapes

\* A list that was read has the bytes that were used, from its start to its end.
LEMMA ItemsFound ==
    ASSUME NEW n \in Nat, Found(n), NEW data \in Seq(Byte), NEW k \in Nat,
           TokenAt(data, k, START_LIST), DecodeItems(DecodeDatum[n], data, k + 1).ok
    PROVE  \E s \in Seq(Kept(n)) :
             /\ DecodeItems(DecodeDatum[n], data, k + 1)
                  = Parsed(k + Len(EncodeList(EncodeDatum[n], s)), ListDatum(s))
             /\ At(data, k, EncodeList(EncodeDatum[n], s))
<1> DEFINE f == Looped(DecodeDatum[n], data, k + 1)
           T == {i \in Nat : SoFar(n, data, k, f[i])}
           end == f[Len(data)]
<1>0. Len(data) \in Nat /\ k + 1 \in Nat
  OBVIOUS
<1>1. f[0] = Begun(k + 1)
  BY <1>0, LoopBegins
<1>2. \A i \in 1..Len(data) : f[i] = NextItem(DecodeDatum[n], data, f[i - 1])
  BY <1>0, LoopTurns
<1> HIDE DEF f
<1>4. 0 \in T
  <2> DEFINE w == Written(EncodeDatum[n], << >>)
             c == <<START_LIST>>
  <2>1. << >> \in Seq(Kept(n)) /\ Len(<< >>) = 0
    BY NothingIn
  <2>2. w[0] = c
    <3>1. Len(<< >>) \in Nat
      BY <2>1
    <3> QED BY <3>1, WrittenIs
  <2>3. At(data, k, c) /\ Len(c) = 1
    <3>1. START_LIST \in Byte
      BY TokenNumbers, TokenBytes
    <3> QED BY <3>1, AtToken
  <2> HIDE DEF w, c
  <2>4. At(data, k, w[Len(<< >>)]) /\ k + 1 = k + Len(w[Len(<< >>)])
    BY <2>1, <2>2, <2>3
  <2>5. Far(n, data, k, "more", k + 1, << >>)
    BY <2>4 DEF Far, w
  <2>6. f[0] = Turn("more", k + 1, << >>)
    BY <1>1 DEF Begun, Turn
  <2>7. SoFar(n, data, k, f[0])
    BY <1>0, <2>1, <2>5, <2>6 DEF SoFar
  <2> QED BY <2>7
<1>5. ASSUME NEW i \in 0..Len(data) - 1, i \in T PROVE i + 1 \in T
  <2>1. i + 1 \in 1..Len(data) /\ (i + 1) - 1 = i /\ i + 1 \in Nat
    BY <1>0
  <2>2. f[i + 1] = NextItem(DecodeDatum[n], data, f[i])
    BY <1>2, <2>1
  <2>3. SoFar(n, data, k, f[i])
    BY <1>5
  <2>4. SoFar(n, data, k, NextItem(DecodeDatum[n], data, f[i]))
    BY <2>3, FarNext
  <2>5. SoFar(n, data, k, f[i + 1])
    BY <2>2, <2>4
  <2> QED BY <2>1, <2>5
<1> HIDE DEF T
<1>6. \A i \in 0..Len(data) : i \in T
  BY <1>0, <1>4, <1>5, InductionUpto
<1>7. SoFar(n, data, k, end)
  <2>1. Len(data) \in T
    BY <1>0, <1>6
  <2> QED BY <2>1 DEF T
<1>8. PICK state \in {"more", "done", "thrown"}, size \in Nat, items \in Seq(Kept(n)) :
         end = Turn(state, size, items) /\ Far(n, data, k, state, size, items)
  BY <1>7 DEF SoFar
<1>9. DecodeItems(DecodeDatum[n], data, k + 1)
        = IF state = "done" THEN Parsed(size, ListDatum(items)) ELSE Fails
  BY <1>0, <1>8, LoopEnds DEF f
<1> HIDE DEF end
<1>10. state = "done"
  <2>1. DecodeItems(DecodeDatum[n], data, k + 1).ok
    OBVIOUS
  <2> QED BY <1>9, <2>1, FailsIs
<1>11. /\ At(data, k, EncodeList(EncodeDatum[n], items))
       /\ size = k + Len(EncodeList(EncodeDatum[n], items))
  BY <1>8, <1>10 DEF Far
<1> QED BY <1>9, <1>10, <1>11

-----------------------------------------------------------------------------
\* The first byte.
LEMMA FirstToken ==
    ASSUME NEW data \in Seq(Byte), data # << >>
    PROVE  /\ Len(data) \in Nat /\ Len(data) >= 1 /\ data[1] = Head(data) /\ Head(data) \in Byte
           /\ TokenAt(data, 0, Head(data)) /\ At(data, 0, <<Head(data)>>)
<1>1. Len(data) \in Nat /\ Len(data) >= 1 /\ data[1] = Head(data) /\ Head(data) \in Byte
  OBVIOUS
<1>2. TokenAt(data, 0, Head(data))
  <2>1. 0 < Len(data) /\ data[0 + 1] = data[1]
    BY <1>1
  <2> QED BY <1>1, <2>1 DEF TokenAt
<1>3. 0 \in Nat
  OBVIOUS
<1> QED BY <1>1, <1>2, <1>3, AtToken

\* What is to be shown of a datum that was read.
Right(n, data, size, y) ==
    y \in Kept(n) /\ At(data, 0, EncodeDatum[n][y]) /\ size = Len(EncodeDatum[n][y])

LEMMA FoundIs ==
    ASSUME NEW n \in Nat, \A data \in Seq(Byte) : DecodeDatum[n][data].ok =>
               Right(n, data, DecodeDatum[n][data].size, DecodeDatum[n][data].datum)
    PROVE  Found(n)
BY DEF Found, Right

LEMMA FoundList ==
    ASSUME NEW n \in Nat, Found(n), NEW data \in Seq(Byte), data # << >>, Head(data) = START_LIST,
           NEW r, r = DecodeItems(DecodeDatum[n], data, 1), r.ok
    PROVE  Right(n + 1, data, r.size, r.datum)
<1>1. TokenAt(data, 0, START_LIST)
  BY FirstToken
<1>2. 0 \in Nat /\ 0 + 1 = 1
  OBVIOUS
<1>3. PICK s \in Seq(Kept(n)) :
         r = Parsed(0 + Len(EncodeList(EncodeDatum[n], s)), ListDatum(s))
         /\ At(data, 0, EncodeList(EncodeDatum[n], s))
  BY <1>1, <1>2, ItemsFound
<1> DEFINE e == EncodeList(EncodeDatum[n], s)
<1>4. ListDatum(s) \in Kept(n + 1) /\ EncodeDatum[n + 1][ListDatum(s)] = e
  BY KeptList, ItemsOfData, ListMade
<1>5. Len(e) \in Nat
  BY KeptWrites, ListBytes
<1>6. r.size = 0 + Len(e) /\ r.datum = ListDatum(s)
  BY <1>3, ParsedFields
<1> HIDE DEF e
<1>7. r.size = Len(e)
  BY <1>5, <1>6
<1> QED BY <1>3, <1>4, <1>6, <1>7 DEF Right, e

\* Where something is, it ends within the data.
LEMMA AtEnds ==
    ASSUME NEW data \in Seq(Byte), NEW k \in Nat, NEW e \in Seq(Byte), At(data, k, e)
    PROVE  k + Len(e) \in Nat /\ k + Len(e) <= Len(data) /\ Len(e) \in Nat
BY DEF At

LEMMA FoundNamed ==
    ASSUME NEW n \in Nat, Found(n), NEW data \in Seq(Byte), data # << >>, Head(data) = START_NAME,
           NEW z, z = DecodeNamed(DecodeDatum[n], data), z.ok
    PROVE  Right(n + 1, data, z.size, z.datum)
<1> DEFINE r == DecodeAtom(From(data, 1))
           k == 1 + r.size
           x == DecodeDatum[n][From(data, k)]
           v == x.datum
           a == r.atom
           t == EncodeAtom(a)
           u == EncodeDatum[n][v]
           c == <<START_NAME>>
           g == <<END_NAME>>
           y == NamedDatum(a, v)
<1>1. z = IF ~r.ok THEN Fails
          ELSE IF x.ok /\ TokenAt(data, 1 + r.size + x.size, END_NAME)
               THEN Parsed(2 + r.size + x.size,
                           [Unset EXCEPT !.type = "NAMED", !.atom = a, !.list = <<v>>])
               ELSE Fails
  BY Zenon DEF DecodeNamed
<1>2. r.ok /\ x.ok /\ TokenAt(data, 1 + r.size + x.size, END_NAME)
      /\ z = Parsed(2 + r.size + x.size, [Unset EXCEPT !.type = "NAMED", !.atom = a, !.list = <<v>>])
  <2> HIDE DEF r, x, a, v
  <2> QED BY <1>1, FailsIs
<1>3. Clean(a) /\ At(data, 1, t) /\ r.size = Len(t) /\ t \in Seq(Byte) /\ Len(t) \in Nat
  <2>1. 1 \in Nat /\ 1 <= Len(data)
    BY FirstToken
  <2>2. Clean(a) /\ At(data, 1, t) /\ r.size = Len(t)
    BY <1>2, <2>1, AtomFound
  <2>3. t \in Seq(Byte)
    BY <2>2, AtomBytes
  <2> QED BY <2>2, <2>3
<1>4. v \in Kept(n) /\ At(data, k, u) /\ x.size = Len(u) /\ u \in Seq(Byte) /\ Len(u) \in Nat
  <2>1. k \in Nat /\ k <= Len(data)
    <3>1. 1 \in Nat /\ k = 1 + Len(t)
      BY <1>3
    <3> HIDE DEF t, k
    <3> QED BY <1>3, <3>1, AtEnds
  <2> HIDE DEF k
  <2>2. v \in Kept(n) /\ At(data, k, u) /\ x.size = Len(u)
    BY <1>2, <2>1, FoundAt
  <2> QED BY <2>2, KeptBytes
<1>5. y \in Kept(n + 1) /\ EncodeDatum[n + 1][y] = c \o t \o u \o g
  <2>1. v \in Data[n]
    BY <1>4, KeptBytes
  <2> HIDE DEF a, v
  <2>2. y \in Kept(n + 1)
    BY <1>3, <1>4, KeptNamed
  <2>3. EncodeDatum[n + 1][y] = c \o t \o u \o g
    BY <1>3, <2>1, NamedMade
  <2> QED BY <2>2, <2>3
<1>6. c \in Seq(Byte) /\ Len(c) = 1 /\ At(data, 0, c) /\ g \in Seq(Byte) /\ Len(g) = 1
  BY FirstToken, TokenSequence, TokenNumbers
<1>7. z.datum = y /\ z.size = 2 + r.size + x.size
  <2> DEFINE size == 2 + r.size + x.size
  <2>1. z = Parsed(size, [Unset EXCEPT !.type = "NAMED", !.atom = a, !.list = <<v>>])
    BY <1>2
  <2> HIDE DEF size, a, v
  <2>2. z = Parsed(size, y)
    BY <2>1, Shapes, Zenon
  <2> HIDE DEF y
  <2> QED BY <2>2, ParsedFields DEF size
<1> HIDE DEF t, u, c, y
<1>8. At(data, 1 + Len(t), u) /\ At(data, 1 + Len(t) + Len(u), g)
  <2>1. 1 + r.size + x.size = 1 + Len(t) + Len(u) /\ 1 + Len(t) + Len(u) \in Nat
    <3> HIDE DEF r, x, a, v
    <3> QED BY <1>3, <1>4
  <2>2. END_NAME \in Byte
    BY TokenNumbers, TokenBytes
  <2> QED BY <1>2, <1>3, <1>4, <2>1, <2>2, AtToken
<1> HIDE DEF g
<1>9. At(data, 0, c \o t \o u \o g) /\ Len(c \o t \o u \o g) = 2 + Len(t) + Len(u)
  <2>1. 0 \in Nat /\ 0 + Len(c) = 1 /\ 0 + Len(c) + Len(t) = 1 + Len(t)
        /\ 0 + Len(c) + Len(t) + Len(u) = 1 + Len(t) + Len(u)
    BY <1>3, <1>4, <1>6
  <2>2. /\ At(data, 0, c) /\ At(data, 0 + Len(c), t) /\ At(data, 0 + Len(c) + Len(t), u)
        /\ At(data, 0 + Len(c) + Len(t) + Len(u), g)
    BY <1>3, <1>6, <1>8, <2>1
  <2>3. At(data, 0, c \o t \o u \o g)
    BY <1>3, <1>4, <1>6, <2>1, <2>2, AtFour
  <2>4. /\ c \o t \o u \o g \in Seq(Byte)
        /\ Len(c \o t \o u \o g) = Len(c) + Len(t) + Len(u) + Len(g)
    <3>1. c \in Seq(Byte) /\ t \in Seq(Byte) /\ u \in Seq(Byte) /\ g \in Seq(Byte)
      BY <1>3, <1>4, <1>6
    <3> QED BY <3>1, AtFour
  <2> QED BY <1>3, <1>4, <1>6, <2>3, <2>4
<1> HIDE DEF r, x
<1>10. z.size = Len(c \o t \o u \o g)
  BY <1>3, <1>4, <1>7, <1>9
<1> QED BY <1>5, <1>7, <1>9, <1>10 DEF Right

LEMMA FoundUid ==
    ASSUME NEW data \in Seq(Byte), NEW k \in Nat, k <= Len(data), IsUid(DecodeAtom(From(data, k)))
    PROVE  LET w == get_uid(DecodeAtom(From(data, k)).atom) IN
           /\ w \in Raw /\ At(data, k, EncodeAtom(new_uid(w))) /\ k + 9 <= Len(data)
<1> DEFINE r == DecodeAtom(From(data, k))
           w == get_uid(r.atom)
           e == EncodeAtom(new_uid(w))
<1>1. r.ok /\ w # NotThis
  BY DEF IsUid
<1>2. Clean(r.atom) /\ At(data, k, EncodeAtom(r.atom))
  BY <1>1, AtomFound
<1>3. w \in Raw /\ EncodeAtom(r.atom) = e
  BY <1>1, <1>2, UidRead
<1>4. e \in Seq(Byte) /\ Len(e) = 9 /\ At(data, k, e)
  BY <1>2, <1>3, UidBytes
<1> HIDE DEF e
<1>5. k + 9 <= Len(data)
  BY <1>4, AtEnds
<1> QED BY <1>3, <1>4, <1>5 DEF e

LEMMA FoundMethod ==
    ASSUME NEW n \in Nat, Found(n), NEW data \in Seq(Byte), data # << >>, Head(data) = CALL,
           NEW z, z = DecodeMethod(DecodeDatum[n], data), z.ok
    PROVE  Right(n + 1, data, z.size, z.datum)
<1> DEFINE r == DecodeAtom(From(data, 1))
           q == DecodeAtom(From(data, 10))
           a == DecodeItems(DecodeDatum[n], data, 20)
           o == get_uid(r.atom)
           m == get_uid(q.atom)
           u == MethodUids(r.atom, q.atom)
<1>1. z = IF ~IsUid(r) THEN Fails
          ELSE IF ~IsUid(q) \/ ~TokenAt(data, 19, START_LIST) THEN Fails
          ELSE IF ~a.ok THEN Fails
          ELSE Parsed(a.size, [a.datum EXCEPT !.type = "METHOD", !.object = u[1], !.method = u[2]])
  BY Zenon DEF DecodeMethod
<1>2. IsUid(r) /\ IsUid(q) /\ TokenAt(data, 19, START_LIST) /\ a.ok
      /\ z = Parsed(a.size, [a.datum EXCEPT !.type = "METHOD", !.object = u[1], !.method = u[2]])
  <2> HIDE DEF r, q, a, u
  <2> QED BY <1>1, FailsIs
<1>3. u[1] = o /\ u[2] = m
  BY DEF MethodUids
<1>4. o \in Raw /\ At(data, 1, EncodeAtom(new_uid(o))) /\ 10 <= Len(data)
  <2>1. 1 \in Nat /\ 1 <= Len(data) /\ 1 + 9 = 10
    BY FirstToken
  <2> QED BY <1>2, <2>1, FoundUid
<1>5. m \in Raw /\ At(data, 10, EncodeAtom(new_uid(m)))
  <2>1. 10 \in Nat
    OBVIOUS
  <2> QED BY <1>2, <1>4, <2>1, FoundUid
<1>6. PICK s \in Seq(Kept(n)) :
         a = Parsed(19 + Len(EncodeList(EncodeDatum[n], s)), ListDatum(s))
         /\ At(data, 19, EncodeList(EncodeDatum[n], s))
  <2>1. 19 \in Nat /\ 19 + 1 = 20
    OBVIOUS
  <2>2. DecodeItems(DecodeDatum[n], data, 19 + 1).ok
    BY <1>2, <2>1
  <2> QED BY <1>2, <2>1, <2>2, ItemsFound
<1> DEFINE l == EncodeList(EncodeDatum[n], s)
           y == MethodDatum(o, m, s)
           e == <<CALL>> \o EncodeAtom(new_uid(o)) \o EncodeAtom(new_uid(m)) \o l
<1>7. a.size = 19 + Len(l) /\ a.datum = ListDatum(s)
  BY <1>6, ParsedFields
<1>8. y \in Kept(n + 1) /\ EncodeDatum[n + 1][y] = e
  BY <1>4, <1>5, KeptMethod, ItemsOfData, MethodMade
<1>9. l \in Seq(Byte)
  BY KeptWrites, ListBytes
<1>10. z = Parsed(19 + Len(l), y)
  <2> HIDE DEF a, u, l
  <2>1. z = Parsed(19 + Len(l), [ListDatum(s) EXCEPT !.type = "METHOD", !.object = o, !.method = m])
    BY <1>2, <1>3, <1>7, Zenon
  <2> QED BY <2>1, Shapes
<1>11. At(data, 0, <<CALL>>) /\ At(data, 19, l)
  BY <1>6, FirstToken
<1> HIDE DEF l, o, m
<1>12. At(data, 0, e) /\ Len(e) = 19 + Len(l)
  <2>1. Len(e) = 19 + Len(l)
    BY <1>4, <1>5, <1>9, CallParts
  <2>2. At(data, 0, e) <=> /\ At(data, 0, <<CALL>>)
                           /\ At(data, 1, EncodeAtom(new_uid(o)))
                           /\ At(data, 10, EncodeAtom(new_uid(m)))
                           /\ At(data, 19, l)
    BY <1>4, <1>5, <1>9, CallParts
  <2> QED BY <1>4, <1>5, <1>11, <2>1, <2>2
<1>13. z.size = 19 + Len(l) /\ z.datum = y
  BY <1>10, ParsedFields
<1> HIDE DEF e, y
<1> QED BY <1>8, <1>12, <1>13 DEF Right

LEMMA FoundNext ==
    ASSUME NEW n \in Nat, Found(n)
    PROVE  Found(n + 1)
<1> SUFFICES ASSUME NEW data \in Seq(Byte), DecodeDatum[n + 1][data].ok
             PROVE  Right(n + 1, data, DecodeDatum[n + 1][data].size, DecodeDatum[n + 1][data].datum)
  <2>1. n + 1 \in Nat
    OBVIOUS
  <2> QED BY <2>1, FoundIs
<1> DEFINE r == DecodeDatum[n + 1][data]
           tok == Head(data)
           a == DecodeAtom(data)
<1>1. data # << >>
  <2>1. n + 1 \in Nat
    OBVIOUS
  <2> QED BY <2>1, NothingDecoded, FailsIs
<1>2. r = CASE tok = START_LIST  -> DecodeItems(DecodeDatum[n], data, 1)
            [] tok = START_NAME  -> DecodeNamed(DecodeDatum[n], data)
            [] tok = CALL        -> DecodeMethod(DecodeDatum[n], data)
            [] tok = END_SESSION -> Parsed(1, [Unset EXCEPT !.type = "END_SESSION"])
            [] OTHER -> IF a.ok THEN Parsed(a.size, [Unset EXCEPT !.type = "ATOM", !.atom = a.atom])
                        ELSE Fails
  BY <1>1, DecodeNext
<1>0. r.ok
  OBVIOUS
<1> HIDE DEF r, a
<1>3. CASE tok = START_LIST
  <2>1. r = DecodeItems(DecodeDatum[n], data, 1)
    BY <1>2, <1>3, TokenNumbers
  <2> QED BY <1>0, <1>1, <1>3, <2>1, FoundList DEF r
<1>4. CASE tok = START_NAME
  <2>1. r = DecodeNamed(DecodeDatum[n], data)
    BY <1>2, <1>4, TokenNumbers
  <2> QED BY <1>0, <1>1, <1>4, <2>1, FoundNamed DEF r
<1>5. CASE tok = CALL
  <2>1. r = DecodeMethod(DecodeDatum[n], data)
    BY <1>2, <1>5, TokenNumbers
  <2> QED BY <1>0, <1>1, <1>5, <2>1, FoundMethod DEF r
<1>6. CASE tok = END_SESSION
  <2>1. r = Parsed(1, [Unset EXCEPT !.type = "END_SESSION"])
    BY <1>2, <1>6, TokenNumbers
  <2>1a. r = Parsed(1, EndDatum)
    BY <2>1, Shapes, Zenon
  <2>2. r.size = 1 /\ r.datum = EndDatum
    BY <2>1a, ParsedFields
  <2>3. At(data, 0, <<END_SESSION>>) /\ Len(<<END_SESSION>>) = 1
    BY <1>1, <1>6, FirstToken, TokenSequence, TokenNumbers
  <2> QED BY <2>2, <2>3, KeptEnd, EndMade DEF Right, r
<1>7. CASE tok \notin {START_LIST, START_NAME, CALL, END_SESSION}
  <2>1. r = IF a.ok THEN Parsed(a.size, [Unset EXCEPT !.type = "ATOM", !.atom = a.atom]) ELSE Fails
    BY <1>2, <1>7
  <2>2. a.ok /\ r = Parsed(a.size, [Unset EXCEPT !.type = "ATOM", !.atom = a.atom])
    BY <1>0, <2>1, FailsIs
  <2>2a. r = Parsed(a.size, AtomDatum(a.atom))
    BY <2>2, Shapes, Zenon
  <2>3. r.size = a.size /\ r.datum = AtomDatum(a.atom)
    BY <2>2a, ParsedFields
  <2>4. Clean(a.atom) /\ At(data, 0, EncodeAtom(a.atom)) /\ a.size = Len(EncodeAtom(a.atom))
    <3>1. 0 \in Nat /\ 0 <= Len(data)
      BY <1>1, FirstToken
    <3>2. From(data, 0) = data
      BY FromStart
    <3>3. DecodeAtom(From(data, 0)).ok /\ a = DecodeAtom(From(data, 0))
      BY <2>2, <3>2 DEF a
    <3> QED BY <3>1, <3>3, AtomFound
  <2> QED BY <2>3, <2>4, KeptAtom, AtomMade DEF Right, r
<1> QED BY <1>3, <1>4, <1>5, <1>6, <1>7

\* Whatever bytes are accepted, nested to any depth, are the encoding of what
\* they were decoded to, in the size that is reported (datum::decode_bytes).
THEOREM AllFound == \A n \in Nat : Found(n)
<1> DEFINE T == {n \in Nat : Found(n)}
<1>1. 0 \in T
  BY NothingDecoded, FailsIs DEF Found
<1>2. ASSUME NEW n \in Nat, n \in T PROVE n + 1 \in T
  BY <1>2, FoundNext
<1> HIDE DEF T
<1>3. \A n \in Nat : n \in T
  BY <1>1, <1>2, Induction
<1> QED BY <1>3 DEF T

-----------------------------------------------------------------------------
\* Lists as functions.
LEMMA MadeList ==
    ASSUME NEW S, NEW m \in Nat, NEW F, DOMAIN F = 1..m, \A i \in 1..m : F[i] \in S,
           F = [i \in 1..m |-> F[i]]
    PROVE  F \in Seq(S) /\ Len(F) = m
<1>1. F \in [1..m -> S]
  OBVIOUS
<1>2. F \in Seq(S)
  BY <1>1, SeqDef
<1>3. Len(F) = m
  BY <1>1, <1>2, LenProperties
<1> QED BY <1>2, <1>3

\* A datum comes back as what was sent.
Reread(n) ==
    \A x \in Data[n] :
        /\ Sent[n][x] \in Data[n]
        /\ \E y \in Kept(n) : /\ EncodeDatum[n][y] = EncodeDatum[n][x]
                              /\ SameDatum[n][y][Sent[n][x]]

SentType(x) == IF x.type = "UNSET" THEN "END_SESSION" ELSE x.type

\* The parts, as they are sent.
SentItems(n, items) == [i \in 1..Len(items) |-> Sent[n][items[i]]]

LEMMA SentItemsIs ==
    ASSUME NEW n \in Nat, Reread(n), NEW items \in Seq(Data[n])
    PROVE  /\ SentItems(n, items) \in Seq(Data[n]) /\ Len(SentItems(n, items)) = Len(items)
           /\ \A i \in 1..Len(items) : SentItems(n, items)[i] = Sent[n][items[i]]
<1> DEFINE D == Data[n]
           F == SentItems(n, items)
<1>1. Len(items) \in Nat /\ \A i \in 1..Len(items) : items[i] \in Data[n]
  OBVIOUS
<1>2. \A i \in 1..Len(items) : Sent[n][items[i]] \in Data[n]
  BY <1>1 DEF Reread
<1>3. DOMAIN F = 1..Len(items) /\ (\A i \in 1..Len(items) : F[i] = Sent[n][items[i]])
      /\ F = [i \in 1..Len(items) |-> F[i]]
  BY DEF SentItems
<1>4. \A i \in 1..Len(items) : F[i] \in D
  BY <1>2, <1>3
<1> HIDE DEF F, D
<1>5. F \in Seq(D) /\ Len(F) = Len(items)
  BY <1>1, <1>3, <1>4, MadeList
<1> QED BY <1>3, <1>5 DEF F, D

SentList(n, x) == IF x.type \in {"NAMED", "METHOD", "LIST"} THEN SentItems(n, x.list) ELSE << >>

LEMMA SentFields ==
    ASSUME NEW n \in Nat, Reread(n), NEW x \in Data[n + 1]
    PROVE  /\ Sent[n + 1][x] = TheDatum(SentType(x), x.atom, x.object, x.method, SentList(n, x))
           /\ Sent[n + 1][x] \in Data[n + 1]
<1> DEFINE T == SentType(x)
           L == SentList(n, x)
<1>1. /\ x.type \in Kinds /\ x.atom \in AnyAtom /\ x.object \in Raw /\ x.method \in Raw
      /\ x.list \in Seq(Data[n]) /\ (x.type = "NAMED" => Len(x.list) = 1)
      /\ x = TheDatum(x.type, x.atom, x.object, x.method, x.list)
  BY DataFields
<1>2. Sent[n + 1][x] = [x EXCEPT !.type = T, !.list = L]
  <2>1. DOMAIN x.list = 1..Len(x.list)
    BY <1>1
  <2> QED BY <2>1, SentNext DEF SentType, SentList, SentItems
<1> HIDE DEF T, L
<1>3. [x EXCEPT !.type = T, !.list = L] = [[x EXCEPT !.type = T] EXCEPT !.list = L]
  OBVIOUS
<1>4. [x EXCEPT !.type = T] = TheDatum(T, x.atom, x.object, x.method, x.list)
  BY <1>1, SetType
<1>5. [TheDatum(T, x.atom, x.object, x.method, x.list) EXCEPT !.list = L]
        = TheDatum(T, x.atom, x.object, x.method, L)
  BY SetList
<1>6. Sent[n + 1][x] = TheDatum(T, x.atom, x.object, x.method, L)
  BY <1>2, <1>3, <1>4, <1>5
<1>7. T \in Kinds /\ (T = "NAMED" => x.type = "NAMED")
  BY <1>1 DEF T, SentType, Kinds
<1>8. L \in Seq(Data[n]) /\ (x.type = "NAMED" => Len(L) = 1)
  <2>1. SentItems(n, x.list) \in Seq(Data[n]) /\ Len(SentItems(n, x.list)) = Len(x.list)
    BY <1>1, SentItemsIs
  <2>2. << >> \in Seq(Data[n])
    BY NothingIn
  <2> QED BY <1>1, <2>1, <2>2 DEF L, SentList
<1>9. TheDatum(T, x.atom, x.object, x.method, L) \in Data[n + 1]
  BY <1>1, <1>7, <1>8, DataMade
<1> QED BY <1>6, <1>9 DEF T, L

\* For each part what will be decoded.
Twin(n, x) == CHOOSE y \in Kept(n) : /\ EncodeDatum[n][y] = EncodeDatum[n][x]
                                     /\ SameDatum[n][y][Sent[n][x]]

Twins(n, items) == [i \in 1..Len(items) |-> Twin(n, items[i])]

LEMMA TwinIs ==
    ASSUME NEW n \in Nat, Reread(n), NEW x \in Data[n]
    PROVE  /\ Twin(n, x) \in Kept(n) /\ EncodeDatum[n][Twin(n, x)] = EncodeDatum[n][x]
           /\ SameDatum[n][Twin(n, x)][Sent[n][x]]
BY DEF Reread, Twin

LEMMA TwinsAre ==
    ASSUME NEW n \in Nat, Reread(n), NEW items \in Seq(Data[n])
    PROVE  /\ Twins(n, items) \in Seq(Kept(n))
           /\ Len(Twins(n, items)) = Len(items)
           /\ EncodeList(EncodeDatum[n], Twins(n, items)) = EncodeList(EncodeDatum[n], items)
           /\ SameList(SameDatum[n], Twins(n, items), SentItems(n, items))
<1> DEFINE K == Kept(n)
           F == Twins(n, items)
           G == SentItems(n, items)
<1>1. Len(items) \in Nat /\ \A i \in 1..Len(items) : items[i] \in Data[n]
  OBVIOUS
<1>2. DOMAIN F = 1..Len(items) /\ (\A i \in 1..Len(items) : F[i] = Twin(n, items[i]))
      /\ F = [i \in 1..Len(items) |-> F[i]]
  BY DEF Twins
<1>3. \A i \in 1..Len(items) : F[i] \in K
  BY <1>1, <1>2, TwinIs
<1>4. \A i \in 1..Len(items) : EncodeDatum[n][F[i]] = EncodeDatum[n][items[i]]
  BY <1>1, <1>2, TwinIs
<1>5. Len(G) = Len(items) /\ \A i \in 1..Len(items) : G[i] = Sent[n][items[i]]
  BY SentItemsIs
<1>6. \A i \in 1..Len(items) : SameDatum[n][F[i]][G[i]]
  <2>1. ASSUME NEW i \in 1..Len(items) PROVE SameDatum[n][F[i]][G[i]]
    <3>1. SameDatum[n][Twin(n, items[i])][Sent[n][items[i]]]
      BY <1>1, TwinIs
    <3>2. F[i] = Twin(n, items[i]) /\ G[i] = Sent[n][items[i]]
      BY <1>2, <1>5
    <3> QED BY <3>1, <3>2, Zenon
  <2> QED BY <2>1
<1> HIDE DEF F, G, K
<1>7. F \in Seq(K) /\ Len(F) = Len(items)
  BY <1>1, <1>2, <1>3, MadeList
<1>8. EncodeList(EncodeDatum[n], F) = EncodeList(EncodeDatum[n], items)
  BY <1>1, <1>4, <1>7, ListsAlike DEF Alike
<1>9. SameList(SameDatum[n], F, G)
  BY <1>2, <1>5, <1>6, <1>7, Zenon DEF SameList
<1> QED BY <1>7, <1>8, <1>9 DEF F, G, K

\* What a datum and what is sent of it have in common.
LEMMA SameIfTyped ==
    ASSUME NEW n \in Nat, NEW y \in Data[n + 1], NEW v \in Data[n + 1], y.type = v.type,
           y.type \in {"ATOM", "NAMED"} => SameAtom(y.atom, v.atom),
           y.type = "METHOD" => y.object = v.object /\ y.method = v.method,
           y.type \in {"NAMED", "METHOD", "LIST"} => SameList(SameDatum[n], y.list, v.list)
    PROVE  SameDatum[n + 1][y][v]
BY SameNext, Zenon

LEMMA RereadNext ==
    ASSUME NEW n \in Nat, Reread(n)
    PROVE  Reread(n + 1)
<1> SUFFICES ASSUME NEW x \in Data[n + 1]
             PROVE  /\ Sent[n + 1][x] \in Data[n + 1]
                    /\ \E y \in Kept(n + 1) : /\ EncodeDatum[n + 1][y] = EncodeDatum[n + 1][x]
                                              /\ SameDatum[n + 1][y][Sent[n + 1][x]]
  BY DEF Reread
<1> DEFINE v == Sent[n + 1][x]
           s == Twins(n, x.list)
           g == SentItems(n, x.list)
<1>1. /\ x.type \in Kinds /\ x.atom \in AnyAtom /\ x.object \in Raw /\ x.method \in Raw
      /\ x.list \in Seq(Data[n]) /\ (x.type = "NAMED" => Len(x.list) = 1)
  BY DataFields
<1>2. v \in Data[n + 1]
  BY SentFields
<1>3. /\ v.type = SentType(x) /\ v.atom = x.atom /\ v.object = x.object /\ v.method = x.method
      /\ v.list = SentList(n, x)
  <2>1. v = TheDatum(SentType(x), x.atom, x.object, x.method, SentList(n, x))
    BY SentFields
  <2> HIDE DEF v
  <2> QED BY <2>1, Fields
<1>4. /\ s \in Seq(Kept(n)) /\ Len(s) = Len(x.list)
      /\ EncodeList(EncodeDatum[n], s) = EncodeList(EncodeDatum[n], x.list)
      /\ SameList(SameDatum[n], s, g)
  BY <1>1, TwinsAre
<1>5. PICK a : Clean(a) /\ SameAtom(a, x.atom) /\ EncodeAtom(a) = EncodeAtom(x.atom)
  BY <1>1, AtomReread
<1>6. \A y \in Kept(n + 1) : y \in Data[n + 1]
  BY DEF Kept
<1> HIDE DEF v, s, g
<1> DEFINE Goal == \E y \in Kept(n + 1) : EncodeDatum[n + 1][y] = EncodeDatum[n + 1][x]
                                          /\ SameDatum[n + 1][y][v]
<1>7. ASSUME NEW y \in Kept(n + 1), EncodeDatum[n + 1][y] = EncodeDatum[n + 1][x],
             SameDatum[n + 1][y][v]
      PROVE  Goal
  BY <1>7, Zenon
<1> HIDE DEF Goal
<1>8. ASSUME x.type \in {"UNSET", "END_SESSION"} PROVE Goal
  <2> DEFINE y == EndDatum
  <2>1. y \in Kept(n + 1) /\ y \in Data[n + 1] /\ y.type = "END_SESSION"
    BY KeptEnd, EndMade, Fields DEF EndDatum
  <2>2. EncodeDatum[n + 1][y] = EncodeDatum[n + 1][x]
    <3>1. EncodeDatum[n + 1][x] = <<END_SESSION>>
      BY <1>8, EncodeNext
    <3> QED BY <3>1, EndMade
  <2> HIDE DEF y
  <2>3. v.type = "END_SESSION"
    BY <1>3, <1>8 DEF SentType
  <2>4. SameDatum[n + 1][y][v]
    BY <1>2, <2>1, <2>3, SameIfTyped
  <2> QED BY <1>7, <2>1, <2>2, <2>4, Zenon
<1>9. ASSUME x.type = "ATOM" PROVE Goal
  <2> DEFINE y == AtomDatum(a)
  <2>1. y \in Kept(n + 1) /\ y \in Data[n + 1]
    BY <1>5, <1>6, KeptAtom
  <2>2. y.type = "ATOM" /\ y.atom = a
    BY Fields DEF AtomDatum
  <2>3. EncodeDatum[n + 1][y] = EncodeDatum[n + 1][x]
    <3>1. EncodeDatum[n + 1][x] = EncodeAtom(x.atom)
      BY <1>9, EncodeNext
    <3> QED BY <1>5, <3>1, AtomMade
  <2> HIDE DEF y
  <2>4. v.type = "ATOM"
    BY <1>3, <1>9 DEF SentType
  <2>5. SameDatum[n + 1][y][v]
    BY <1>2, <1>3, <1>5, <2>1, <2>2, <2>4, SameIfTyped
  <2> QED BY <1>7, <2>1, <2>3, <2>5, Zenon
<1>10. ASSUME x.type = "NAMED" PROVE Goal
  <2> DEFINE y == NamedDatum(a, s[1])
  <2>1. Len(s) = 1 /\ s[1] \in Kept(n) /\ s[1] \in Data[n] /\ s = <<s[1]>>
    <3>1. Len(s) = 1
      BY <1>1, <1>4, <1>10
    <3>2. s[1] \in Kept(n) /\ s = <<s[1]>>
      <4> DEFINE K == Kept(n)
      <4>1. s \in Seq(K)
        BY <1>4
      <4> HIDE DEF K
      <4>2. s[1] \in K
        <5>1. 1 \in 1..Len(s)
          BY <3>1
        <5>2. \A i \in 1..Len(s) : s[i] \in K
          BY <4>1
        <5> QED BY <5>1, <5>2
      <4>3. s = <<s[1]>>
        <5> DEFINE t == <<s[1]>>
        <5>1. t \in Seq(K) /\ Len(t) = 1 /\ t[1] = s[1]
          BY <4>2
        <5>2. \A i \in 1..1 : i = 1
          OBVIOUS
        <5> HIDE DEF t
        <5>3. s = t
          BY <3>1, <4>1, <5>1, <5>2, SeqEqual
        <5> QED BY <5>3 DEF t
      <4> QED BY <4>2, <4>3 DEF K
    <3> QED BY <3>1, <3>2, KeptBytes
  <2>2. y \in Kept(n + 1) /\ y \in Data[n + 1]
    BY <1>5, <1>6, <2>1, KeptNamed
  <2>3. y.type = "NAMED" /\ y.atom = a /\ y.list = s
    BY <2>1, Fields DEF NamedDatum
  <2>4. EncodeDatum[n][s[1]] = EncodeDatum[n][x.list[1]]
    <3>1. 1 \in 1..Len(x.list) /\ x.list[1] \in Data[n]
      BY <1>1, <1>10
    <3>2. s[1] = Twin(n, x.list[1])
      BY <3>1 DEF s, Twins
    <3> QED BY <3>1, <3>2, TwinIs
  <2>5. EncodeDatum[n + 1][y] = EncodeDatum[n + 1][x]
    <3>1. EncodeDatum[n + 1][x] = <<START_NAME>> \o EncodeAtom(x.atom)
                                    \o EncodeDatum[n][x.list[1]] \o <<END_NAME>>
      BY <1>10, EncodeNext
    <3>2. EncodeDatum[n + 1][y] = <<START_NAME>> \o EncodeAtom(a) \o EncodeDatum[n][s[1]] \o <<END_NAME>>
      BY <1>5, <2>1, NamedMade
    <3> QED BY <1>5, <2>4, <3>1, <3>2
  <2> HIDE DEF y
  <2>6. v.type = "NAMED" /\ v.list = g
    BY <1>3, <1>10 DEF SentType, SentList, g
  <2>7. SameDatum[n + 1][y][v]
    <3>1. SameList(SameDatum[n], y.list, v.list)
      BY <1>4, <2>3, <2>6
    <3>2. SameAtom(y.atom, v.atom)
      BY <1>3, <1>5, <2>3
    <3> QED BY <1>2, <2>2, <2>3, <2>6, <3>1, <3>2, SameIfTyped
  <2> QED BY <1>7, <2>2, <2>5, <2>7, Zenon
<1>11. ASSUME x.type = "METHOD" PROVE Goal
  <2> DEFINE y == MethodDatum(x.object, x.method, s)
  <2>1. y \in Kept(n + 1) /\ y \in Data[n + 1]
    BY <1>1, <1>4, <1>6, KeptMethod
  <2>2. y.type = "METHOD" /\ y.object = x.object /\ y.method = x.method /\ y.list = s
    BY Fields DEF MethodDatum
  <2>3. EncodeDatum[n + 1][y] = EncodeDatum[n + 1][x]
    <3>1. EncodeDatum[n + 1][x] = <<CALL>> \o EncodeAtom(new_uid(x.object))
                                    \o EncodeAtom(new_uid(x.method))
                                    \o EncodeList(EncodeDatum[n], x.list)
      BY <1>11, EncodeNext
    <3>2. EncodeDatum[n + 1][y] = <<CALL>> \o EncodeAtom(new_uid(x.object))
                                    \o EncodeAtom(new_uid(x.method)) \o EncodeList(EncodeDatum[n], s)
      BY <1>1, <1>4, ItemsOfData, MethodMade
    <3> QED BY <1>4, <3>1, <3>2
  <2> HIDE DEF y
  <2>4. v.type = "METHOD" /\ v.list = g
    BY <1>3, <1>11 DEF SentType, SentList, g
  <2>5. SameDatum[n + 1][y][v]
    <3>1. SameList(SameDatum[n], y.list, v.list)
      BY <1>4, <2>2, <2>4
    <3> QED BY <1>2, <1>3, <2>1, <2>2, <2>4, <3>1, SameIfTyped
  <2> QED BY <1>7, <2>1, <2>3, <2>5, Zenon
<1>12. ASSUME x.type = "LIST" PROVE Goal
  <2> DEFINE y == ListDatum(s)
  <2>1. y \in Kept(n + 1) /\ y \in Data[n + 1]
    BY <1>4, <1>6, KeptList
  <2>2. y.type = "LIST" /\ y.list = s
    BY Fields DEF ListDatum
  <2>3. EncodeDatum[n + 1][y] = EncodeDatum[n + 1][x]
    <3>1. EncodeDatum[n + 1][x] = EncodeList(EncodeDatum[n], x.list)
      BY <1>12, EncodeNext
    <3>2. EncodeDatum[n + 1][y] = EncodeList(EncodeDatum[n], s)
      BY <1>4, ItemsOfData, ListMade
    <3> QED BY <1>4, <3>1, <3>2
  <2> HIDE DEF y
  <2>4. v.type = "LIST" /\ v.list = g
    BY <1>3, <1>12 DEF SentType, SentList, g
  <2>5. SameDatum[n + 1][y][v]
    <3>1. SameList(SameDatum[n], y.list, v.list)
      BY <1>4, <2>2, <2>4
    <3> QED BY <1>2, <2>1, <2>2, <2>4, <3>1, SameIfTyped
  <2> QED BY <1>7, <2>1, <2>3, <2>5, Zenon
<1>13. Goal
  BY <1>1, <1>8, <1>9, <1>10, <1>11, <1>12 DEF Kinds
<1> QED BY <1>2, <1>13 DEF Goal, v

\* Every tree of atoms, of any width and depth, is encoded as some datum that is
\* decoded as it is wherever its bytes are, and this is the same as what was
\* sent of the tree (datum::encode_bytes, datum::operator==).
THEOREM AllReread == \A n \in Nat : Reread(n)
<1> DEFINE T == {n \in Nat : Reread(n)}
<1>1. 0 \in T
  BY NoData DEF Reread
<1>2. ASSUME NEW n \in Nat, n \in T PROVE n + 1 \in T
  BY <1>2, RereadNext
<1> HIDE DEF T
<1>3. \A n \in Nat : n \in T
  BY <1>1, <1>2, Induction
<1> QED BY <1>3 DEF T

-----------------------------------------------------------------------------
\* What the operations of a program on a datum make of it.

LEMMA UnsetMade ==
    ASSUME NEW n \in Nat
    PROVE  Unset \in Data[n + 1]
BY UnsetIs, NothingIn, DataMade DEF Kinds

LEMMA NoError ==
    ASSUME NEW n \in Nat, NEW x \in Data[n + 1]
    PROVE  x # Error
<1>1. x.type \in Kinds
  BY DataFields
<1>2. Error.type = "throw"
  BY UnsetIs, SetType, Fields DEF Error
<1> QED BY <1>1, <1>2 DEF Kinds

\* A datum with some of its fields set.
LEMMA DataSet ==
    ASSUME NEW n \in Nat, NEW x \in Data[n + 1]
    PROVE  /\ \A a \in AnyAtom : x.type # "NAMED" => [x EXCEPT !.type = "ATOM", !.atom = a] \in Data[n + 1]
           /\ \A a \in AnyAtom : [x EXCEPT !.atom = a] \in Data[n + 1]
           /\ \A u \in Raw : [x EXCEPT !.object = u] \in Data[n + 1]
           /\ \A u \in Raw : [x EXCEPT !.method = u] \in Data[n + 1]
           /\ [x EXCEPT !.type = "METHOD"] \in Data[n + 1]
           /\ [x EXCEPT !.type = "LIST"] \in Data[n + 1]
           /\ \A s \in Seq(Data[n]) : Len(s) = 1 => [x EXCEPT !.type = "NAMED", !.list = s] \in Data[n + 1]
           /\ \A s \in Seq(Data[n]) :
                 (x.type = "NAMED" => Len(s) = 1) => [x EXCEPT !.list = s] \in Data[n + 1]
<1> DEFINE t == x.type
           b == x.atom
           o == x.object
           m == x.method
           l == x.list
<1>1. /\ t \in Kinds /\ b \in AnyAtom /\ o \in Raw /\ m \in Raw /\ l \in Seq(Data[n])
      /\ (t = "NAMED" => Len(l) = 1) /\ x = TheDatum(t, b, o, m, l)
  BY DataFields
<1> HIDE DEF t, b, o, m, l
<1>2. ASSUME NEW a \in AnyAtom PROVE [x EXCEPT !.type = "ATOM", !.atom = a] \in Data[n + 1]
  <2>1. [x EXCEPT !.type = "ATOM", !.atom = a] = [[x EXCEPT !.type = "ATOM"] EXCEPT !.atom = a]
    OBVIOUS
  <2>2. [x EXCEPT !.type = "ATOM"] = TheDatum("ATOM", b, o, m, l)
    BY <1>1, SetType
  <2>3. [TheDatum("ATOM", b, o, m, l) EXCEPT !.atom = a] = TheDatum("ATOM", a, o, m, l)
    BY SetAtom
  <2>4. TheDatum("ATOM", a, o, m, l) \in Data[n + 1]
    BY <1>1, DataMade DEF Kinds
  <2> QED BY <2>1, <2>2, <2>3, <2>4
<1>3. ASSUME NEW a \in AnyAtom PROVE [x EXCEPT !.atom = a] \in Data[n + 1]
  <2>1. [x EXCEPT !.atom = a] = TheDatum(t, a, o, m, l)
    BY <1>1, SetAtom
  <2> QED BY <1>1, <2>1, DataMade
<1>4. ASSUME NEW u \in Raw PROVE [x EXCEPT !.object = u] \in Data[n + 1]
  <2>1. [x EXCEPT !.object = u] = TheDatum(t, b, u, m, l)
    BY <1>1, SetObject
  <2> QED BY <1>1, <2>1, DataMade
<1>5. ASSUME NEW u \in Raw PROVE [x EXCEPT !.method = u] \in Data[n + 1]
  <2>1. [x EXCEPT !.method = u] = TheDatum(t, b, o, u, l)
    BY <1>1, SetMethod
  <2> QED BY <1>1, <2>1, DataMade
<1>6. [x EXCEPT !.type = "METHOD"] \in Data[n + 1]
  <2>1. [x EXCEPT !.type = "METHOD"] = TheDatum("METHOD", b, o, m, l)
    BY <1>1, SetType
  <2> QED BY <1>1, <2>1, DataMade DEF Kinds
<1>7. [x EXCEPT !.type = "LIST"] \in Data[n + 1]
  <2>1. [x EXCEPT !.type = "LIST"] = TheDatum("LIST", b, o, m, l)
    BY <1>1, SetType
  <2> QED BY <1>1, <2>1, DataMade DEF Kinds
<1>8. ASSUME NEW s \in Seq(Data[n]), Len(s) = 1
      PROVE  [x EXCEPT !.type = "NAMED", !.list = s] \in Data[n + 1]
  <2>1. [x EXCEPT !.type = "NAMED", !.list = s] = [[x EXCEPT !.type = "NAMED"] EXCEPT !.list = s]
    OBVIOUS
  <2>2. [x EXCEPT !.type = "NAMED"] = TheDatum("NAMED", b, o, m, l)
    BY <1>1, SetType
  <2>3. [TheDatum("NAMED", b, o, m, l) EXCEPT !.list = s] = TheDatum("NAMED", b, o, m, s)
    BY SetList
  <2>4. TheDatum("NAMED", b, o, m, s) \in Data[n + 1]
    BY <1>1, <1>8, DataMade DEF Kinds
  <2> QED BY <2>1, <2>2, <2>3, <2>4
<1>9. ASSUME NEW s \in Seq(Data[n]), t = "NAMED" => Len(s) = 1
      PROVE  [x EXCEPT !.list = s] \in Data[n + 1]
  <2>1. [x EXCEPT !.list = s] = TheDatum(t, b, o, m, s)
    BY <1>1, SetList
  <2> QED BY <1>1, <1>9, <2>1, DataMade
<1> QED BY <1>2, <1>3, <1>4, <1>5, <1>6, <1>7, <1>8, <1>9 DEF t

\* The promotions yield data with room for what is next, or throw.
LEMMA NamedData ==
    ASSUME NEW n \in Nat, n >= 1, NEW x \in Data[n + 1]
    PROVE  \/ Named(x) = Error
           \/ Named(x) \in Data[n + 1] /\ Named(x).type = "NAMED"
<1>1. <<Unset>> \in Seq(Data[n]) /\ Len(<<Unset>>) = 1
  <2>1. n - 1 \in Nat /\ (n - 1) + 1 = n
    OBVIOUS
  <2>2. Unset \in Data[n]
    <3>1. Unset \in Data[(n - 1) + 1]
      BY <2>1, UnsetMade
    <3> QED BY <2>1, <3>1
  <2>3. \A S : Unset \in S => <<Unset>> \in Seq(S)
    OBVIOUS
  <2> QED BY <2>2, <2>3
<1>2. CASE x.type = "UNSET"
  <2> DEFINE s == <<Unset>>
             y == [x EXCEPT !.type = "NAMED", !.list = s]
  <2>1. Named(x) = y
    BY <1>2 DEF Named
  <2>2. y \in Data[n + 1]
    BY <1>1, DataSet
  <2>3. y.type = "NAMED"
    <3>1. x = TheDatum(x.type, x.atom, x.object, x.method, x.list)
      BY DataFields
    <3>2. DOMAIN x = DOMAIN TheDatum(x.type, x.atom, x.object, x.method, x.list)
      BY <3>1
    <3>3. "type" \in DOMAIN x
      BY <3>2 DEF TheDatum
    <3> HIDE DEF s
    <3> QED BY <3>3
  <2> QED BY <2>1, <2>2, <2>3
<1>3. CASE x.type = "NAMED"
  BY <1>3 DEF Named
<1>4. CASE x.type \notin {"UNSET", "NAMED"}
  BY <1>4 DEF Named
<1> QED BY <1>2, <1>3, <1>4

LEMMA MethodData ==
    ASSUME NEW n \in Nat, NEW x \in Data[n + 1]
    PROVE  Method(x) = Error \/ Method(x) \in Data[n + 1]
BY DataSet DEF Method

LEMMA ListData ==
    ASSUME NEW n \in Nat, NEW x \in Data[n + 1]
    PROVE  \/ list(x) = Error
           \/ list(x) \in Data[n + 1] /\ list(x).type # "NAMED"
<1>1. CASE x.type = "UNSET"
  <2> DEFINE y == [x EXCEPT !.type = "LIST"]
  <2>1. list(x) = y
    BY <1>1 DEF list
  <2>2. y \in Data[n + 1]
    BY DataSet
  <2>3. y = TheDatum("LIST", x.atom, x.object, x.method, x.list)
    <3>1. x = TheDatum(x.type, x.atom, x.object, x.method, x.list)
      BY DataFields
    <3> QED BY <3>1, SetType
  <2>4. y.type = "LIST"
    BY <2>3, Fields
  <2> QED BY <2>1, <2>2, <2>4
<1>2. CASE x.type \in {"LIST", "METHOD"}
  BY <1>2 DEF list
<1>3. CASE x.type \notin {"UNSET", "LIST", "METHOD"}
  BY <1>3 DEF list
<1> QED BY <1>1, <1>2, <1>3

LEMMA CallData ==
    ASSUME Parts, NEW n \in Nat, n >= 1, NEW x \in Data[n + 1], NEW op \in Ops
    PROVE  Call(x, op) = Error \/ Call(x, op) \in Data[n + 1]
<1>1. Atoms \subseteq AnyAtom /\ Uids \subseteq Raw
  BY DEF Parts
<1>2. CASE op \in [call : {"value", "name"}, arg : Atoms]
  <2>1. op.arg \in AnyAtom /\ op.call \in {"value", "name"}
    BY <1>1, <1>2
  <2>2. CASE op.call = "value"
    <3>1. Call(x, op) = value(x, op.arg)
      BY <2>2 DEF Call
    <3>2. x.type \in {"UNSET", "ATOM"} => value(x, op.arg) \in Data[n + 1]
      <4> DEFINE a == op.arg
      <4>1. a \in AnyAtom
        BY <2>1
      <4> HIDE DEF a
      <4>2. x.type \in {"UNSET", "ATOM"} => value(x, a) = [x EXCEPT !.type = "ATOM", !.atom = a]
        BY DEF value
      <4>3. x.type \in {"UNSET", "ATOM"} => [x EXCEPT !.type = "ATOM", !.atom = a] \in Data[n + 1]
        BY <4>1, DataSet
      <4>4. x.type \in {"UNSET", "ATOM"} => value(x, a) \in Data[n + 1]
        BY <4>2, <4>3, Zenon
      <4> QED BY <4>4 DEF a
    <3>3. x.type \notin {"UNSET", "ATOM"} => value(x, op.arg) = Error
      BY DEF value
    <3> QED BY <3>1, <3>2, <3>3
  <2>3. CASE op.call = "name"
    <3>1. Call(x, op) = name(x, op.arg)
      BY <2>3 DEF Call
    <3>2. Named(x) \in Data[n + 1] => [Named(x) EXCEPT !.atom = op.arg] \in Data[n + 1]
      BY <2>1, DataSet
    <3> QED BY <3>1, <3>2, NamedData DEF name
  <2> QED BY <2>1, <2>2, <2>3
<1>3. CASE op \in [call : {"object_uid", "method_uid"}, arg : Uids]
  <2>1. op.arg \in Raw /\ op.call \in {"object_uid", "method_uid"}
    BY <1>1, <1>3
  <2>2. CASE op.call = "object_uid"
    <3>1. Call(x, op) = object_uid(x, op.arg)
      BY <2>2 DEF Call
    <3>2. Method(x) \in Data[n + 1] => [Method(x) EXCEPT !.object = op.arg] \in Data[n + 1]
      BY <2>1, DataSet
    <3> QED BY <3>1, <3>2, MethodData DEF object_uid
  <2>3. CASE op.call = "method_uid"
    <3>1. Call(x, op) = method_uid(x, op.arg)
      BY <2>3 DEF Call
    <3>2. Method(x) \in Data[n + 1] => [Method(x) EXCEPT !.method = op.arg] \in Data[n + 1]
      BY <2>1, DataSet
    <3> QED BY <3>1, <3>2, MethodData DEF method_uid
  <2> QED BY <2>1, <2>2, <2>3
<1>4. CASE op \in [call : {"list"}, arg : {Zero}]
  <2>1. Call(x, op) = list(x)
    BY <1>4 DEF Call
  <2> QED BY <2>1, ListData
<1> QED BY <1>2, <1>3, <1>4 DEF Ops

LEMMA LongerIs ==
    ASSUME NEW S, Unset \in S, NEW items \in Seq(S), NEW i \in Nat, i >= 1
    PROVE  Longer(items, i) \in Seq(S) /\ i \in 1..Len(Longer(items, i))
<1> DEFINE more == [j \in 1..(i - Len(items)) |-> Unset]
           k == IF i > Len(items) THEN i - Len(items) ELSE 0
<1>1. Len(items) \in Nat /\ k \in Nat /\ 1..(i - Len(items)) = 1..k /\ i <= Len(items) + k
  OBVIOUS
<1> HIDE DEF k
<1>2. DOMAIN more = 1..k /\ (\A j \in 1..k : more[j] \in S) /\ more = [j \in 1..k |-> more[j]]
  BY <1>1
<1> HIDE DEF more
<1>3. more \in Seq(S) /\ Len(more) = k
  BY <1>1, <1>2, MadeList
<1>4. items \o more \in Seq(S) /\ Len(items \o more) = Len(items) + k
  BY <1>3, ConcatProperties
<1>5. i \in 1..Len(items \o more)
  BY <1>1, <1>4
<1> QED BY <1>4, <1>5 DEF Longer, more

\* A step of a path: to a part that is there, or is made.
LEMMA StepData ==
    ASSUME NEW n \in Nat, n >= 1, NEW x \in Data[n + 1], NEW s \in Nat
    PROVE  \/ Step(x, s) = Error
           \/ /\ Step(x, s) \in Data[n + 1] /\ Child(s) \in 1..Len(Step(x, s).list)
              /\ Step(x, s).list \in Seq(Data[n])
<1>0. Unset \in Data[n]
  <2>1. n - 1 \in Nat /\ (n - 1) + 1 = n
    OBVIOUS
  <2>2. Unset \in Data[(n - 1) + 1]
    BY <2>1, UnsetMade
  <2> QED BY <2>1, <2>2
<1>1. CASE s = 0
  <2> DEFINE y == Named(x)
  <2>1. Step(x, s) = y /\ Child(s) = 1
    BY <1>1 DEF Step, Child
  <2>2. y = Error \/ (y \in Data[n + 1] /\ y.type = "NAMED")
    BY NamedData
  <2> HIDE DEF y
  <2>3. ASSUME y \in Data[n + 1], y.type = "NAMED" PROVE 1 \in 1..Len(y.list) /\ y.list \in Seq(Data[n])
    <3>1. Len(y.list) = 1 /\ y.list \in Seq(Data[n])
      BY <2>3, DataFields
    <3> QED BY <3>1
  <2> QED BY <2>1, <2>2, <2>3
<1>2. CASE s # 0
  <2> DEFINE y == list(x)
             l == Longer(x.list, s)
             z == [y EXCEPT !.list = l]
  <2>1. Step(x, s) = Index(x, s) /\ Child(s) = s /\ s >= 1
    BY <1>2 DEF Step, Child
  <2>2. y = Error \/ (y \in Data[n + 1] /\ y.type # "NAMED")
    BY ListData
  <2>3. l \in Seq(Data[n]) /\ s \in 1..Len(l)
    <3> DEFINE D == Data[n]
               items == x.list
    <3>1. items \in Seq(D) /\ Unset \in D
      BY <1>0, DataFields
    <3> HIDE DEF D, items
    <3>2. Longer(items, s) \in Seq(D) /\ s \in 1..Len(Longer(items, s))
      BY <2>1, <3>1, LongerIs
    <3> QED BY <3>2 DEF D, items
  <2> HIDE DEF l, y
  <2>4. Index(x, s) = IF y = Error THEN Error ELSE z
    BY DEF Index, y, l
  <2>5. ASSUME y \in Data[n + 1], y.type # "NAMED" PROVE z \in Data[n + 1] /\ z.list = l
    <3>1. z \in Data[n + 1]
      BY <2>3, <2>5, DataSet
    <3>2. y = TheDatum(y.type, y.atom, y.object, y.method, y.list)
      BY <2>5, DataFields
    <3>3. z = TheDatum(y.type, y.atom, y.object, y.method, l)
      BY <3>2, SetList
    <3>4. z.list = l
      BY <3>3, Fields
    <3> QED BY <3>1, <3>4
  <2> HIDE DEF z
  <2>6. CASE y = Error
    BY <2>1, <2>4, <2>6
  <2>7. CASE y # Error
    <3>1. Step(x, s) = z
      BY <2>1, <2>4, <2>7
    <3> QED BY <2>1, <2>2, <2>3, <2>5, <2>7, <3>1
  <2> QED BY <2>6, <2>7
<1> QED BY <1>1, <1>2

\* A datum stays one, whatever is called.
Stays(n) ==
    \A x \in Data[n] : \A path \in Seq(Nat) : \A op \in Ops :
        Len(path) + 1 < n => CallAt[n][x][path][op] \in Data[n]

LEMMA StaysNext ==
    ASSUME Parts, NEW n \in Nat, Stays(n)
    PROVE  Stays(n + 1)
<1> SUFFICES ASSUME NEW x \in Data[n + 1], NEW path \in Seq(Nat), NEW op \in Ops, Len(path) + 1 < n + 1
             PROVE  CallAt[n + 1][x][path][op] \in Data[n + 1]
  BY DEF Stays
<1>0. Len(path) \in Nat /\ n >= 1
  OBVIOUS
<1>1. CASE path = << >>
  <2> DEFINE y == Call(x, op)
  <2>1. CallAt[n + 1][x][path][op] = IF y = Error THEN x ELSE y
    <3>1. CallAt[n + 1][x][path][op] = After(n, x, path, op)
      BY CallNext
    <3> QED BY <1>1, <3>1, Zenon DEF After
  <2>2. y = Error \/ y \in Data[n + 1]
    BY <1>0, CallData
  <2> HIDE DEF y
  <2> QED BY <2>1, <2>2
<1>2. CASE path # << >>
  <2> DEFINE s == Head(path)
             c == Child(s)
             y == Step(x, s)
             r == Tail(path)
             z == CallAt[n][y.list[c]][r][op]
  <2>1. CallAt[n + 1][x][path][op] = IF y = Error THEN x ELSE [y EXCEPT !.list[c] = z]
    <3>1. CallAt[n + 1][x][path][op] = After(n, x, path, op)
      BY CallNext
    <3> QED BY <1>2, <3>1, Zenon DEF After
  <2>2. s \in Nat /\ r \in Seq(Nat) /\ Len(r) + 1 < n
    <3>1. s \in Nat /\ r \in Seq(Nat) /\ Len(r) = Len(path) - 1
      BY <1>2
    <3> HIDE DEF r
    <3> QED BY <1>0, <3>1
  <2>3. y = Error \/ (y \in Data[n + 1] /\ c \in 1..Len(y.list) /\ y.list \in Seq(Data[n]))
    <3> HIDE DEF s
    <3> QED BY <1>0, <2>2, StepData
  <2> HIDE DEF y, c, s, r
  <2>4. CASE y = Error
    BY <2>1, <2>4
  <2>5. CASE y # Error
    <3> DEFINE l == y.list
               m == [l EXCEPT ![c] = z]
    <3>1. l \in Seq(Data[n]) /\ c \in 1..Len(l) /\ l[c] \in Data[n] /\ y \in Data[n + 1]
      BY <2>3, <2>5
    <3>2. z \in Data[n]
      BY <2>2, <3>1 DEF Stays
    <3> HIDE DEF z
    <3>3. y = TheDatum(y.type, y.atom, y.object, y.method, l)
      BY <3>1, DataFields
    <3>4. [y EXCEPT !.list[c] = z] = [y EXCEPT !.list = m]
      <4>1. DOMAIN y = DOMAIN TheDatum(y.type, y.atom, y.object, y.method, l)
        BY <3>3
      <4>2. "list" \in DOMAIN y
        BY <4>1 DEF TheDatum
      <4> QED BY <4>2
    <3>5. m \in Seq(Data[n]) /\ Len(m) = Len(l)
      <4> DEFINE D == Data[n]
      <4>1. l \in Seq(D) /\ z \in D /\ c \in 1..Len(l)
        BY <3>1, <3>2
      <4> HIDE DEF D, l
      <4>2. [l EXCEPT ![c] = z] \in Seq(D) /\ Len([l EXCEPT ![c] = z]) = Len(l)
        BY <4>1, ExceptSeq
      <4> QED BY <4>2 DEF D
    <3>6. y.type = "NAMED" => Len(m) = 1
      <4>1. y.type = "NAMED" => Len(l) = 1
        BY <3>1, DataFields
      <4> QED BY <3>5, <4>1
    <3> HIDE DEF m, l
    <3>7. [y EXCEPT !.list = m] \in Data[n + 1]
      BY <3>1, <3>5, <3>6, DataSet
    <3> QED BY <2>1, <2>5, <3>4, <3>7
  <2> QED BY <2>4, <2>5
<1> QED BY <1>1, <1>2

\* Whatever a program calls on a datum, at any place in it, leaves a datum (the
\* datum.h accessors, list and named values).
THEOREM AllStay == Parts => \A n \in Nat : Stays(n)
<1> SUFFICES ASSUME Parts PROVE \A n \in Nat : Stays(n)
  OBVIOUS
<1> DEFINE T == {n \in Nat : Stays(n)}
<1>1. 0 \in T
  BY NoData DEF Stays
<1>2. ASSUME NEW n \in Nat, n \in T PROVE n + 1 \in T
  BY <1>2, StaysNext
<1> HIDE DEF T
<1>3. \A n \in Nat : n \in T
  BY <1>1, <1>2, Induction
<1> QED BY <1>3 DEF T

-----------------------------------------------------------------------------
\* One datum on its way.

datumvars == <<step, d, calls, wire, cut, result>>

\* A datum on its way: what is built is a datum, what is sent are its bytes or a
\* proper beginning of them, and what is received is what these decode to.
Encoded == EncodeDatum[Depth][d]

DatumOnItsWay ==
    /\ d \in Data[Depth] /\ calls \in Nat
    /\ step \in {"build", "sent", "received"}
    /\ step = "build" => calls <= MaxCalls /\ ~cut
    /\ step # "build" => wire \in Seq(Byte)
    /\ step # "build" /\ ~Foreign /\ ~cut => wire = Encoded
    /\ cut => ~Foreign /\ \E m \in Nat : m < Len(Encoded) /\ wire = SubSeq(Encoded, 1, m)
    /\ step = "received" => result = DecodeDatum[Depth][wire]

LEMMA DepthPositive ==
    ASSUME Parts
    PROVE  Depth \in Nat /\ Depth - 1 \in Nat /\ (Depth - 1) + 1 = Depth
BY DEF Parts

LEMMA EncodedBytes ==
    ASSUME Parts, d \in Data[Depth]
    PROVE  Encoded \in Seq(Byte) /\ Len(Encoded) \in Nat /\ Len(Encoded) = DatumSize[Depth][d]
BY DepthPositive, AllSized DEF Sized, Encoded

LEMMA DatumOnItsWayInit == Parts /\ DatumInit => DatumOnItsWay
<1> SUFFICES ASSUME Parts, DatumInit PROVE DatumOnItsWay
  OBVIOUS
<1>1. d \in Data[Depth]
  <2>1. Unset \in Data[(Depth - 1) + 1]
    BY DepthPositive, UnsetMade
  <2> QED BY <2>1, DepthPositive DEF DatumInit
<1>2. MaxCalls \in Nat
  BY DEF Parts
<1> QED BY <1>1, <1>2 DEF DatumInit, DatumOnItsWay, Foreign

LEMMA Beginnings ==
    ASSUME NEW e \in Seq(Byte), NEW m \in Nat, m <= Len(e)
    PROVE  SubSeq(e, 1, m) \in Seq(Byte)
<1>1. \A i \in 1..m : e[i] \in Byte
  OBVIOUS
<1> QED BY <1>1, SubSeqProperties

LEMMA DatumOnItsWayStep == Parts /\ DatumOnItsWay /\ [DatumNext]_datumvars => DatumOnItsWay'
<1> SUFFICES ASSUME Parts, DatumOnItsWay, [DatumNext]_datumvars PROVE DatumOnItsWay'
  OBVIOUS
<1>0. /\ d \in Data[Depth] /\ calls \in Nat /\ MaxCalls \in Nat /\ Depth \in Nat
      /\ step \in {"build", "sent", "received"}
  BY DEF Parts, DatumOnItsWay
<1>1. CASE Build
  <2>1. PICK path \in Paths, op \in Ops : d' = CallAt[Depth][d][path][op]
    BY <1>1 DEF Build
  <2>2. path \in Seq(Nat) /\ Len(path) + 1 < Depth
    BY DEF Parts
  <2>3. d' \in Data[Depth]
    BY <1>0, <2>1, <2>2, AllStay DEF Stays
  <2>4. /\ step = "build" /\ step' = "build" /\ calls' = calls + 1 /\ calls < MaxCalls
        /\ cut' = cut /\ ~cut
    BY <1>1 DEF Build, DatumOnItsWay
  <2>5. calls' \in Nat /\ calls' <= MaxCalls
    BY <1>0, <2>4
  <2> QED BY <2>3, <2>4, <2>5 DEF DatumOnItsWay
<1>2. CASE SendDatum
  <2>1. /\ step = "build" /\ step' = "sent" /\ wire' = Encoded /\ d' = d /\ calls' = calls
        /\ cut' = cut /\ ~cut
    BY <1>2 DEF SendDatum, DatumOnItsWay, Encoded
  <2>2. wire' \in Seq(Byte)
    BY <1>0, <2>1, EncodedBytes
  <2>3. Encoded' = Encoded
    BY <2>1 DEF Encoded
  <2> QED BY <1>0, <2>1, <2>2, <2>3 DEF DatumOnItsWay
<1>3. CASE CutDatum
  <2>1. /\ step = "sent" /\ step' = step /\ d' = d /\ calls' = calls /\ calls <= MaxCalls /\ ~cut
        /\ cut' /\ \E m \in 0..(Len(wire) - 1) : wire' = SubSeq(wire, 1, m)
    BY <1>3 DEF CutDatum
  <2>2. ~Foreign /\ ~Foreign'
    BY <1>0, <2>1 DEF Foreign
  <2>3. wire = Encoded /\ Encoded \in Seq(Byte) /\ Len(Encoded) \in Nat
    BY <1>0, <2>1, <2>2, EncodedBytes DEF DatumOnItsWay
  <2>4. PICK m \in 0..(Len(Encoded) - 1) : wire' = SubSeq(Encoded, 1, m)
    BY <2>1, <2>3
  <2>5. m \in Nat /\ m < Len(Encoded) /\ m <= Len(Encoded)
    BY <2>3
  <2>6. Encoded' = Encoded
    BY <2>1 DEF Encoded
  <2>7. wire' \in Seq(Byte)
    BY <2>3, <2>4, <2>5, Beginnings
  <2>8. \E k \in Nat : k < Len(Encoded') /\ wire' = SubSeq(Encoded', 1, k)
    BY <2>4, <2>5, <2>6
  <2> QED BY <1>0, <2>1, <2>2, <2>7, <2>8 DEF DatumOnItsWay
<1>4. CASE ReceiveDatum
  <2>1. /\ step = "build" /\ step' = "sent" /\ calls' = MaxCalls + 1 /\ d' = d /\ cut' = cut
        /\ ~cut /\ wire' \in Seq(Byte)
    BY <1>4 DEF ReceiveDatum, DatumOnItsWay, Parts
  <2>2. calls' \in Nat /\ Foreign'
    BY <1>0, <2>1 DEF Foreign
  <2> QED BY <1>0, <2>1, <2>2 DEF DatumOnItsWay
<1>5. CASE GetDatum
  <2>1. /\ step = "sent" /\ step' = "received" /\ result' = DecodeDatum[Depth][wire]
        /\ d' = d /\ calls' = calls /\ wire' = wire /\ cut' = cut
    BY <1>5 DEF GetDatum
  <2>2. Encoded' = Encoded /\ (Foreign' <=> Foreign)
    BY <2>1 DEF Encoded, Foreign
  <2> QED BY <1>0, <2>1, <2>2 DEF DatumOnItsWay
<1>6. CASE UNCHANGED datumvars
  <2>1. /\ step' = step /\ d' = d /\ calls' = calls /\ wire' = wire /\ cut' = cut /\ result' = result
    BY <1>6 DEF datumvars
  <2>2. Encoded' = Encoded /\ (Foreign' <=> Foreign)
    BY <2>1 DEF Encoded, Foreign
  <2> QED BY <2>1, <2>2 DEF DatumOnItsWay
<1> QED BY <1>1, <1>2, <1>3, <1>4, <1>5, <1>6 DEF DatumNext

\* What decodes the bytes of a datum.
LEMMA EncodedAgainDatum ==
    ASSUME Parts, d \in Data[Depth]
    PROVE  \E y \in Kept(Depth) :
             /\ DecodeDatum[Depth][Encoded] = Parsed(Len(Encoded), y)
             /\ SameDatum[Depth][y][Sent[Depth][d]]
<1>1. PICK y \in Kept(Depth) : /\ EncodeDatum[Depth][y] = EncodeDatum[Depth][d]
                               /\ SameDatum[Depth][y][Sent[Depth][d]]
  BY DepthPositive, AllReread DEF Reread
<1> DEFINE e == Encoded
<1>2. e = EncodeDatum[Depth][y] /\ e \in Seq(Byte) /\ At(e, 0, e)
  BY <1>1, EncodedBytes, AtSelf DEF Encoded
<1> HIDE DEF e
<1>3. DecodeDatum[Depth][e] = Parsed(Len(e), y)
  BY <1>2 DEF Kept
<1>4. DecodeDatum[Depth][e] = Parsed(Len(e), y) /\ SameDatum[Depth][y][Sent[Depth][d]]
  BY <1>1, <1>3, Zenon
<1> QED BY <1>4, Zenon DEF e

LEMMA DatumReturnsOnItsWay == Parts /\ DatumOnItsWay => DatumReturns
<1> SUFFICES ASSUME Parts, DatumOnItsWay, step = "received", ~cut, ~Foreign
             PROVE  /\ result.ok /\ result.size = Len(wire)
                    /\ SameDatum[Depth][result.datum][Sent[Depth][d]]
  BY DEF DatumReturns
<1>1. d \in Data[Depth] /\ wire = Encoded /\ result = DecodeDatum[Depth][wire]
  BY DEF DatumOnItsWay
<1>2. PICK y \in Kept(Depth) : /\ DecodeDatum[Depth][Encoded] = Parsed(Len(Encoded), y)
                               /\ SameDatum[Depth][y][Sent[Depth][d]]
  BY <1>1, EncodedAgainDatum
<1>3. result = Parsed(Len(wire), y)
  BY <1>1, <1>2
<1>4. result.ok /\ result.size = Len(wire) /\ result.datum = y
  BY <1>3, ParsedFields
<1>5. SameDatum[Depth][result.datum][Sent[Depth][d]]
  BY <1>2, <1>4, Zenon
<1> QED BY <1>4, <1>5, Zenon

LEMMA DatumCutShort == Parts /\ DatumOnItsWay => DatumCutNoticed
<1> SUFFICES ASSUME Parts, DatumOnItsWay, step = "received", cut, result.ok PROVE FALSE
  BY DEF DatumCutNoticed
<1> DEFINE e == Encoded
           y == result.datum
           g == EncodeDatum[Depth][y]
<1>1. d \in Data[Depth] /\ result = DecodeDatum[Depth][wire] /\ wire \in Seq(Byte)
  BY DEF DatumOnItsWay
<1>2. PICK m \in Nat : m < Len(e) /\ wire = SubSeq(e, 1, m)
  BY DEF DatumOnItsWay
<1>3. e \in Seq(Byte) /\ Len(e) \in Nat /\ Depth \in Nat
  BY <1>1, EncodedBytes, DepthPositive
<1>4. y \in Kept(Depth) /\ At(wire, 0, g) /\ g \in Seq(Byte) /\ Len(g) \in Nat
  <2>1. y \in Kept(Depth) /\ At(wire, 0, g)
    BY <1>1, <1>3, AllFound DEF Found
  <2> QED BY <1>3, <2>1, KeptBytes
<1>5. DecodeDatum[Depth][e] = Parsed(Len(g), y) /\ Len(g) <= m
  <2>1. At(e, 0, g) /\ Len(g) <= m
    <3> HIDE DEF e, g
    <3>1. m <= Len(e) /\ At(SubSeq(e, 1, m), 0, g)
      BY <1>2, <1>3, <1>4
    <3> QED BY <1>3, <1>4, <3>1, AtBeginning
  <2> HIDE DEF e
  <2> QED BY <1>3, <1>4, <2>1 DEF Kept
<1>6. PICK z \in Kept(Depth) : DecodeDatum[Depth][e] = Parsed(Len(e), z)
  BY <1>1, EncodedAgainDatum
<1> HIDE DEF e, g, y
<1>7. Len(g) = Len(e)
  <2>1. Parsed(Len(g), y).size = Len(g) /\ Parsed(Len(e), z).size = Len(e)
    BY ParsedFields
  <2> QED BY <1>5, <1>6, <2>1
<1> QED BY <1>2, <1>3, <1>4, <1>5, <1>7

LEMMA DatumIsNotLost == Parts /\ DatumOnItsWay => DatumNotLost
<1> SUFFICES ASSUME Parts, DatumOnItsWay, step = "received", Foreign, result.ok
             PROVE  EncodeDatum[Depth][result.datum] = SubSeq(wire, 1, result.size)
  BY DEF DatumNotLost
<1> DEFINE y == result.datum
           g == EncodeDatum[Depth][y]
<1>1. result = DecodeDatum[Depth][wire] /\ wire \in Seq(Byte) /\ Depth \in Nat
  BY DepthPositive DEF DatumOnItsWay
<1>2. y \in Kept(Depth) /\ At(wire, 0, g) /\ result.size = Len(g)
  BY <1>1, AllFound DEF Found
<1>3. g \in Seq(Byte)
  BY <1>1, <1>2, KeptBytes
<1> HIDE DEF g
<1>4. SubSeq(wire, 1, Len(g)) = g
  BY <1>1, <1>2, <1>3, AtStart
<1> QED BY <1>2, <1>4 DEF g

LEMMA RoomIsThere == Parts /\ DatumOnItsWay => RoomForAll
<1> SUFFICES ASSUME Parts, DatumOnItsWay, step = "sent", ~cut, ~Foreign
             PROVE  DatumSize[Depth][d] = Len(wire)
  BY DEF RoomForAll
<1>1. d \in Data[Depth] /\ wire = Encoded
  BY DEF DatumOnItsWay
<1> QED BY <1>1, EncodedBytes

\* The first of the items at which the search stops.
LEMMA LeastStop ==
    ASSUME NEW m \in Nat, NEW S \in SUBSET (1..m), NEW i \in S, \A j \in 1..(i - 1) : j \notin S
    PROVE  Min(S) = i
<1>1. \A j \in S : j \in Nat /\ i \in Nat /\ j \in 1..m
  OBVIOUS
<1>2. \A j \in S : i <= j
  BY <1>1
<1>3. \A k \in S : (\A j \in S : k <= j) => k = i
  BY <1>1, <1>2
<1> QED BY <1>2, <1>3 DEF Min

LEMMA NamesAreFound == Parts /\ DatumOnItsWay => FindsByName
<1> SUFFICES ASSUME Parts, DatumOnItsWay, d.type = "LIST", NEW i \in DOMAIN d.list,
                    d.list[i].type = "NAMED", d.list[i].atom.type = "UINT",
                    \A j \in 1..(i - 1) :
                       d.list[j].type = "NAMED" =>
                          d.list[j].atom.type = "UINT" /\ d.list[j].atom.val # d.list[i].atom.val
             PROVE  find_by_name(d, d.list[i].atom.val) = d.list[i].list[1]
  BY DEF FindsByName
<1> DEFINE id == d.list[i].atom.val
           stops == {k \in DOMAIN d.list : Stops(d.list[k], id)}
<1>1. DOMAIN d.list = 1..Len(d.list) /\ Len(d.list) \in Nat
  <2>1. d \in Data[(Depth - 1) + 1]
    BY DepthPositive DEF DatumOnItsWay
  <2>2. d.list \in Seq(Data[Depth - 1])
    BY <2>1, DepthPositive, DataFields
  <2> QED BY <2>2
<1>2. Hit(d.list[i], id) /\ i \in stops
  BY DEF Hit, Stops, get_uint
<1>3. ASSUME NEW j \in 1..(i - 1) PROVE j \notin stops
  BY DEF Hit, Bad, Stops, get_uint
<1> HIDE DEF stops
<1>4. stops \in SUBSET (1..Len(d.list))
  BY <1>1 DEF stops
<1>5. Min(stops) = i
  BY <1>1, <1>2, <1>3, <1>4, LeastStop
<1>6. stops # {}
  BY <1>2
<1>7. find_by_name(d, id) =
        IF d.type # "LIST" \/ stops = {} THEN Error
        ELSE IF Hit(d.list[Min(stops)], id) THEN d.list[Min(stops)].list[1] ELSE Error
  BY DEF find_by_name, stops
<1> QED BY <1>2, <1>5, <1>6, <1>7

-----------------------------------------------------------------------------
\* The three parts together.

\* What holds of the part a behaviour is of.
EncodingInv ==
    /\ part = "atom" => OnItsWay
    /\ part = "datum" => DatumOnItsWay

LEMMA EncodingInvInit == EncodingInit => EncodingInv
<1> SUFFICES ASSUME EncodingInit PROVE EncodingInv
  OBVIOUS
<1>1. CASE part = "atom"
  <2>1. AtomInit
    BY <1>1 DEF EncodingInit
  <2> QED BY <1>1, <2>1, OnItsWayInit DEF EncodingInv
<1>2. CASE part = "datum"
  <2>1. DatumInit
    BY <1>2 DEF EncodingInit
  <2> QED BY <1>2, <2>1, DatumParts, DatumOnItsWayInit DEF EncodingInv
<1> QED BY <1>1, <1>2 DEF EncodingInv

LEMMA EncodingInvStep == EncodingInv /\ [EncodingNext]_<<part, vars, codec>> => EncodingInv'
<1> SUFFICES ASSUME EncodingInv, [EncodingNext]_<<part, vars, codec>> PROVE EncodingInv'
  OBVIOUS
<1>1. part' = part
  BY DEF EncodingNext
<1>2. CASE part = "atom"
  <2>1. [AtomNext]_atomvars
    BY <1>2 DEF EncodingNext, codec, atomvars
  <2>2. OnItsWay
    BY <1>2 DEF EncodingInv
  <2>3. OnItsWay'
    BY <2>1, <2>2, AtomValues, OnItsWayStep
  <2> QED BY <1>1, <1>2, <2>3 DEF EncodingInv
<1>3. CASE part = "datum"
  <2>1. [DatumNext]_datumvars
    BY <1>3 DEF EncodingNext, codec, datumvars
  <2>2. DatumOnItsWay
    BY <1>3 DEF EncodingInv
  <2>3. DatumOnItsWay'
    BY <2>1, <2>2, DatumParts, DatumOnItsWayStep
  <2> QED BY <1>1, <1>3, <2>3 DEF EncodingInv
<1> QED BY <1>1, <1>2, <1>3 DEF EncodingInv

LEMMA EncodingInvHolds == EncodingSpec => []EncodingInv
<1> QED BY EncodingInvInit, EncodingInvStep, PTL DEF EncodingSpec

\* Every atom an Opal host or drive can make, encoded and decoded, whatever
\* follows it on the wire, and every tree of such atoms, of every width and
\* depth and with every state and parameters of a method, comes back the same,
\* in the announced size; and what is named is found (atom.cpp, datum.cpp).
THEOREM ComesBack == EncodingSpec => []RoundTrip
<1>1. EncodingInv => RoundTrip
  <2>1. OnItsWay => AtomReturns /\ ShortestInteger
    BY AtomsReturn, IntegersShort
  <2>2. DatumOnItsWay => RoomForAll /\ DatumReturns /\ FindsByName
    BY DatumParts, RoomIsThere, DatumReturnsOnItsWay, NamesAreFound
  <2> QED BY <2>1, <2>2 DEF EncodingInv, RoundTrip
<1> QED BY <1>1, EncodingInvHolds, PTL

\* Of an encoded atom or datum no proper beginning is taken for something
\* complete: the decoder throws (the bounds checks of atom.cpp and datum.cpp).
THEOREM CutsAreNoticed == EncodingSpec => []CutIsNoticed
<1>1. EncodingInv => CutIsNoticed
  <2>1. OnItsWay => AtomCutNoticed
    BY AtomsCutShort
  <2>2. DatumOnItsWay => DatumCutNoticed
    BY DatumParts, DatumCutShort
  <2> QED BY <2>1, <2>2 DEF EncodingInv, CutIsNoticed
<1> QED BY <1>1, EncodingInvHolds, PTL

\* Whatever bytes a drive sends, nested to any depth: what the decoder makes of
\* them, if it accepts them, is encoded to the very bytes it has used.
THEOREM NothingIsDropped == EncodingSpec => []NothingLost
<1>1. EncodingInv => NothingLost
  <2>1. OnItsWay => AtomNotLost
    BY NothingIsLost
  <2>2. DatumOnItsWay => DatumNotLost
    BY DatumParts, DatumIsNotLost
  <2> QED BY <2>1, <2>2 DEF EncodingInv, NothingLost
<1> QED BY <1>1, EncodingInvHolds, PTL

\* The run of the three parts is, for the sizes, one of ComPacket.
THEOREM EncodingRefines == EncodingSpec => Spec
<1>1. EncodingInit => Init
  BY DEF EncodingInit
<1>2. [EncodingNext]_<<part, vars, codec>> => [Next]_vars
  BY DEF EncodingNext
<1> QED BY <1>1, <1>2, PTL DEF EncodingSpec, Spec
=============================================================================
