----------------------------- MODULE MCEncoding -----------------------------
\* What goes over the wire, in three parts of one run: sizes of packets
\* (ComPacket), atoms (Atom), and trees of them (Datum).  A behaviour is of one
\* part; the variables of the others rest.  Values for TLC: the boundaries of a
\* block, of the atom encodings and of the host's own maximum; words with every
\* number of leading zeros and ones around the limits of a byte; headers of every
\* kind with up to four bytes behind them; parts up to two levels below the root,
\* and streams of up to five tokens of every kind.
EXTENDS ComPacket, Datum

VARIABLE part                       \* "sizes", "atom" or "datum"

ASSUME AtomValues == Values
ASSUME DatumParts == Parts

Num(n)     == Fill(0, 7) \o <<n>>
Upto(S, n) == UNION {[1..k -> S] : k \in 0..n}

WholeComSizes == {512 * n : n \in {1, 2, 3, 4, 8, 16, 128, 129, 130}}
MCTokenSizes  == {1, 15, 16, 412, 2047, 2048, 65948, 65949, 100000}
MCLengths     == {1, 15, 16, 2047, 2048, 65948, 100000}

Edge == {0, 1, 31, 32, 63, 64, 127, 128, 223, 224, 255}

MCWords ==
    {Fill(f, 6) \o <<b, c>> : f \in {0, 255}, b \in Edge, c \in Edge}
      \cup {Fill(f, n) \o <<b>> \o Fill(g, 7 - n) :
              f \in {0, 255}, g \in {0, 255}, b \in Edge, n \in 0..7}

\* Binary data of a length; the content is not looked at.
Content(n) == [i \in 1..n |-> i % 256]
MCBlobs == {Content(n) : n \in {0, 1, 4, 8, 15, 16, 17, 255, 256, 2047, 2048, 2049}}
MCTails == {<<0>>, <<241>>, <<255>>, <<249, 240, 255>>}

Headers == {0, 31, 32, 63, 64, 95, 96, 127, 128, 129, 130, 137, 144, 145, 146, 147, 153, 160, 161,
            162, 176, 192, 200, 208, 216, 224, 225, 226, 227, 228, 250, 254, 255}

MCAtomStreams ==
    {<< >>} \cup {<<h>> \o t : h \in Headers, t \in Upto({0, 1, 127, 128}, 4)}
      \cup {<<h, 0, 0, n>> \o t : h \in 224..226, n \in {0, 1, 2, 3},
              t \in [1..2 -> {0, 1, 127, 128, 255}]}

MCAtoms == {Empty, new_uint(Num(1)), new_uint(Num(200)), new_bin(<<65>>)}
MCUids  == {<<0, 0, 0, 9, 0, 0, 0, 1>>, <<0, 0, 2, 5, 0, 0, 0, 2>>}

MCPaths == {<< >>, <<0>>, <<1>>, <<2>>, <<0, 1>>, <<1, 0>>, <<2, 2>>}

Pieces == {<<240>>, <<241>>, <<242>>, <<243>>, <<248>>, <<249>>, <<250>>, <<5>>, <<129, 200>>,
           EncodeAtom(new_uid(Num(7)))}

MCDatumStreams ==
    {FlattenSeq(t) : t \in Upto(Pieces, 4)}
      \cup {<<248>> \o EncodeAtom(new_uid(Num(7))) \o FlattenSeq(t) : t \in [1..4 -> Pieces]}

codec == <<step, wire, cut, result, made, atom, d, calls>>

EncodingInit ==
    /\ Init /\ part \in {"sizes", "atom", "datum"}
    /\ IF part = "datum" THEN DatumInit /\ made = << >> /\ atom = Empty
       ELSE AtomInit /\ d = Unset /\ calls = 0

EncodingNext ==
    /\ UNCHANGED part
    /\ \/ part = "sizes" /\ Next /\ UNCHANGED codec
       \/ part = "atom" /\ AtomNext /\ UNCHANGED <<vars, d, calls>>
       \/ part = "datum" /\ DatumNext /\ UNCHANGED <<vars, made, atom>>

EncodingSpec == EncodingInit /\ [][EncodingNext]_<<part, vars, codec>>

-----------------------------------------------------------------------------
\* What was encoded is decoded again, to the same value, in the size that was
\* announced, which is the room that encode_bytes writes to, and which is the
\* smallest for an integer; and a value is found under its name (atom.cpp,
\* datum.cpp).
RoundTrip ==
    /\ part = "atom" => AtomReturns /\ ShortestInteger
    /\ part = "datum" => RoomForAll /\ DatumReturns /\ FindsByName

\* Of what was encoded no proper beginning is taken for something complete.
CutIsNoticed ==
    /\ part = "atom" => AtomCutNoticed
    /\ part = "datum" => DatumCutNoticed

\* What a drive sends, in whatever encoding and nesting, is decoded without
\* loss or not at all.
NothingLost ==
    /\ part = "atom" => AtomNotLost
    /\ part = "datum" => DatumNotLost
=============================================================================
