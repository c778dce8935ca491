-------------------------------- MODULE Atom --------------------------------
(***************************************************************************)
(* One atom on its way: made by a factory, encoded, cut short or followed   *)
(* by something else, decoded again.  Or bytes from a drive, as they come.  *)
(***************************************************************************)
EXTENDS AtomCodec

CONSTANTS
    Words,          \* values of integers and UIDs
    Blobs,          \* binary data
    Tails,          \* what may follow an atom in a packet
    AtomStreams     \* what may come from a drive

\* What the constants are: words of 64 bits, bytes, and no more of them than the
\* longest header counts.
Values ==
    /\ Words \subseteq Raw
    /\ Blobs \cup Tails \cup AtomStreams \subseteq Seq(Byte)
    /\ \A b \in Blobs : Len(b) < 256 * 65536

VARIABLES
    step,           \* "value", "made", "sent", "cut", "followed", "received"
    made,           \* <<factory, value>>; <<"drive", << >> >> if there is none
    atom,           \* the atom encoded
    wire,           \* its bytes
    cut,            \* whether some of them were lost
    result          \* of decode

Factories == {"new_int", "new_uint", "new_uid", "new_half_uid", "new_bin"}

AtomInit ==
    /\ step = "value" /\ made = <<"none", << >> >> /\ atom = Empty /\ wire = << >>
    /\ cut = FALSE /\ result = Thrown

Make(factory, given, x) ==
    /\ step' = "made" /\ made' = <<factory, given>> /\ atom' = x
    /\ UNCHANGED <<wire, cut, result>>

MakeInt  == step = "value" /\ \E w \in Words : Make("new_int", w, new_int(w))
MakeUint == step = "value" /\ \E w \in Words : Make("new_uint", w, new_uint(w))
MakeUid  == step = "value" /\ \E w \in Words : Make("new_uid", w, new_uid(w))
MakeHalf == step = "value" /\ \E w \in Words : Make("new_half_uid", Low(w, 4), new_half_uid(w))
MakeBin  == step = "value" /\ \E b \in Blobs : Make("new_bin", b, new_bin(b))

SendAtom ==
    /\ step = "made" /\ step' = "sent"
    /\ wire' = EncodeAtom(atom)
    /\ UNCHANGED <<made, atom, cut, result>>

\* A packet ends early.
CutAtom ==
    /\ step = "sent" /\ made[1] # "drive" /\ step' = "cut"
    /\ \E n \in 0..Len(wire) - 1 : wire' = SubSeq(wire, 1, n)
    /\ cut' = TRUE
    /\ UNCHANGED <<made, atom, result>>

\* The next token of the stream.
Follow ==
    /\ step = "sent" /\ made[1] # "drive" /\ step' = "followed"
    /\ \E t \in Tails : wire' = wire \o t
    /\ UNCHANGED <<made, atom, cut, result>>

ReceiveAtom ==
    /\ step = "value" /\ step' = "sent"
    /\ made' = <<"drive", << >> >> /\ wire' \in AtomStreams
    /\ UNCHANGED <<atom, cut, result>>

GetAtom ==
    /\ step \in {"sent", "cut", "followed"} /\ step' = "received"
    /\ result' = DecodeAtom(wire)
    /\ UNCHANGED <<made, atom, wire, cut>>

AtomNext == MakeInt \/ MakeUint \/ MakeUid \/ MakeHalf \/ MakeBin \/ SendAtom \/ CutAtom
            \/ Follow \/ ReceiveAtom \/ GetAtom

-----------------------------------------------------------------------------
\* The getter that goes with a factory.
Get(factory, x) ==
    CASE factory = "new_int"      -> get_int(x)
      [] factory = "new_uint"     -> get_uint(x)
      [] factory = "new_uid"      -> get_uid(x)
      [] factory = "new_half_uid" -> get_half_uid(x)
      [] OTHER                    -> get_bytes(x)

\* What was encoded is decoded again, with the size that was announced, equal by
\* operator== and with the value that was given to the factory.
AtomReturns ==
    step = "received" /\ made[1] \in Factories /\ ~cut =>
        /\ result.ok /\ SameAtom(result.atom, atom)
        /\ result.size = AtomSize(atom) /\ AtomSize(atom) = Len(EncodeAtom(atom))
        /\ Get(made[1], result.atom) = made[2]

\* An atom of which bytes are missing is never taken for a shorter one.
AtomCutNoticed == step = "received" /\ cut => ~result.ok

\* The reference for the length of an integer: its bytes, extended by their sign.
Means(type, bytes) ==
    Fill(IF type = "INT" /\ bytes[1] >= 128 THEN 255 ELSE 0, 8 - Len(bytes)) \o bytes

Enough(type, w) == {n \in 1..8 : Means(type, Low(w, n)) = w}

\* "Determine how many bytes are really needed": no shorter encoding has the
\* same value.
ShortestInteger ==
    step = "made" /\ made[1] \in {"new_int", "new_uint"} /\ atom.enc = "SHORT" =>
        8 - atom.skip = Min(Enough(atom.type, made[2]))

\* What a drive sends, in whatever encoding, is decoded without loss: encoding it
\* again gives the bytes that were used, as many as announced.
AtomNotLost ==
    step = "received" /\ made[1] = "drive" /\ result.ok =>
        /\ EncodeAtom(result.atom) = SubSeq(wire, 1, result.size)
        /\ AtomSize(result.atom) = result.size
=============================================================================
