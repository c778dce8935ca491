------------------------------- MODULE Datum -------------------------------
(***************************************************************************)
(* datum.cpp and encodable.cpp: trees of atoms, named values, lists and     *)
(* method calls, built with accessors that promote what is not yet set,     *)
(* encoded, cut short or not, and decoded; or bytes from a drive.           *)
(***************************************************************************)
EXTENDS Atom

CONSTANTS
    Depth,          \* levels of lists and names; the program's bound is its stack
    Atoms, Uids,    \* that the accessors store
    Paths,          \* from the root to a part: indices, and 0 for the named value
    MaxCalls,       \* of accessors
    DatumStreams    \* what may come from a drive

\* What the constants are: what the class atom can hold, and paths that end above
\* the last level.
Parts ==
    /\ Depth \in Nat \ {0} /\ MaxCalls \in Nat
    /\ Atoms \subseteq AnyAtom /\ Uids \subseteq Raw
    /\ Paths \subseteq {p \in Seq(Nat) : Len(p) + 1 < Depth}
    /\ DatumStreams \subseteq Seq(Byte)

VARIABLES
    d,              \* the datum being built
    calls

\* datum's fields keep what they had when the type changes.
Unset == [type |-> "UNSET", atom |-> Empty, object |-> Zero, method |-> Zero, list |-> << >>]

\* What a datum holds, up to n levels deep.
Data[n \in Nat] ==
    IF n = 0 THEN {}
    ELSE {x \in [type : {"UNSET", "ATOM", "NAMED", "METHOD", "LIST", "END_SESSION"}, atom : AnyAtom,
                 object : Raw, method : Raw, list : Seq(Data[n - 1])] :
            x.type = "NAMED" => Len(x.list) = 1}

\* Exceptions of the accessors.
Error == [Unset EXCEPT !.type = "throw"]

-----------------------------------------------------------------------------
\* The accessors.
value(x, a) == IF x.type \in {"UNSET", "ATOM"} THEN [x EXCEPT !.type = "ATOM", !.atom = a] ELSE Error

\* name and named_value share the promotion; there is one named value.
Named(x) ==
    CASE x.type = "UNSET" -> [x EXCEPT !.type = "NAMED", !.list = <<Unset>>]
      [] x.type = "NAMED" -> x
      [] OTHER            -> Error

name(x, a) == IF Named(x) = Error THEN Error ELSE [Named(x) EXCEPT !.atom = a]

\* object_uid and method_uid share theirs.
Method(x) == IF x.type \in {"UNSET", "LIST", "METHOD"} THEN [x EXCEPT !.type = "METHOD"] ELSE Error

object_uid(x, u) == IF Method(x) = Error THEN Error ELSE [Method(x) EXCEPT !.object = u]
method_uid(x, u) == IF Method(x) = Error THEN Error ELSE [Method(x) EXCEPT !.method = u]

list(x) ==
    CASE x.type = "UNSET"              -> [x EXCEPT !.type = "LIST"]
      [] x.type \in {"LIST", "METHOD"} -> x
      [] OTHER                         -> Error

Longer(items, i) == items \o [j \in 1..(i - Len(items)) |-> Unset]

\* operator[] makes room for the i-th item.
Index(x, i) ==
    IF list(x) = Error THEN Error ELSE [list(x) EXCEPT !.list = Longer(x.list, i)]

Step(x, s) == IF s = 0 THEN Named(x) ELSE Index(x, s)
Child(s) == IF s = 0 THEN 1 ELSE s

Call(x, op) ==
    CASE op.call = "value"      -> value(x, op.arg)
      [] op.call = "name"       -> name(x, op.arg)
      [] op.call = "object_uid" -> object_uid(x, op.arg)
      [] op.call = "method_uid" -> method_uid(x, op.arg)
      [] OTHER                  -> list(x)

Ops == [call : {"value", "name"}, arg : Atoms]
         \cup [call : {"object_uid", "method_uid"}, arg : Uids]
         \cup [call : {"list"}, arg : {Zero}]

\* A call at the end of a path; what was promoted on the way stays so.
CallAt[n \in Nat] == [x \in Data[n] |-> [path \in Seq(Nat) |-> [op \in Ops |->
    IF path = << >> THEN LET y == Call(x, op) IN IF y = Error THEN x ELSE y
    ELSE LET y == Step(x, Head(path)) c == Child(Head(path)) IN
         IF y = Error THEN x
         ELSE [y EXCEPT !.list[c] = CallAt[n - 1][y.list[c]][Tail(path)][op]]]]]

-----------------------------------------------------------------------------
\* Call token and two UIDs of nine bytes.
MethodTokens == 19

\* Functions of a datum are given that of the level below for the parts.
ListSize(inner, items) ==
    LET upto[i \in 0..Len(items)] == IF i = 0 THEN 2 ELSE upto[i - 1] + inner[items[i]]
    IN  upto[Len(items)]

\* size: END_SESSION, and what is not set, is one token.
DatumSize[n \in Nat] == [x \in Data[n] |->
    CASE x.type = "ATOM"   -> AtomSize(x.atom)
      [] x.type = "NAMED"  -> 2 + AtomSize(x.atom) + DatumSize[n - 1][x.list[1]]
      [] x.type = "METHOD" -> MethodTokens + ListSize(DatumSize[n - 1], x.list)
      [] x.type = "LIST"   -> ListSize(DatumSize[n - 1], x.list)
      [] OTHER             -> 1]

START_LIST  == 240
END_LIST    == 241
START_NAME  == 242
END_NAME    == 243
CALL        == 248
END_SESSION == 250

EncodeList(inner, items) ==
    LET upto[i \in 0..Len(items)] ==
          IF i = 0 THEN <<START_LIST>> ELSE upto[i - 1] \o inner[items[i]]
    IN  upto[Len(items)] \o <<END_LIST>>

\* What is not set has the token of the end of a session.
EncodeDatum[n \in Nat] == [x \in Data[n] |->
    CASE x.type = "ATOM"   -> EncodeAtom(x.atom)
      [] x.type = "NAMED"  -> <<START_NAME>> \o EncodeAtom(x.atom) \o EncodeDatum[n - 1][x.list[1]]
                                \o <<END_NAME>>
      [] x.type = "METHOD" -> <<CALL>> \o EncodeAtom(new_uid(x.object))
                                \o EncodeAtom(new_uid(x.method))
                                \o EncodeList(EncodeDatum[n - 1], x.list)
      [] x.type = "LIST"   -> EncodeList(EncodeDatum[n - 1], x.list)
      [] OTHER             -> <<END_SESSION>>]

\* operator==
SameList(inner, s, t) == Len(s) = Len(t) /\ \A i \in DOMAIN s : inner[s[i]][t[i]]

SameDatum[n \in Nat] == [x \in Data[n] |-> [y \in Data[n] |->
    /\ x.type = y.type
    /\ x.type \in {"ATOM", "NAMED"} => SameAtom(x.atom, y.atom)
    /\ x.type = "METHOD" => x.object = y.object /\ x.method = y.method
    /\ x.type \in {"NAMED", "METHOD", "LIST"} => SameList(SameDatum[n - 1], x.list, y.list)]]

-----------------------------------------------------------------------------
\* Decoding yields a datum and the bytes used, or an exception.
Fails == [ok |-> FALSE, size |-> 0, datum |-> Unset]
Parsed(size, x) == [ok |-> TRUE, size |-> size, datum |-> x]

From(data, size) == SubSeq(data, size + 1, Len(data))

\* Mutant of TokenAt: no check of what the token is.
AnyToken(data, i, tok) == i < Len(data)

\* decode_check_token; positions count from zero.
TokenAt(data, i, tok) == i < Len(data) /\ data[i + 1] = tok

\* One turn of the loop over the items of a list.
NextItem(inner, data, loop) ==
    IF loop.state # "more" THEN loop
    ELSE IF loop.size >= Len(data) THEN [loop EXCEPT !.state = "thrown"]
    ELSE IF data[loop.size + 1] = END_LIST THEN [loop EXCEPT !.state = "done", !.size = @ + 1]
    ELSE LET x == inner[From(data, loop.size)] IN
         IF x.ok THEN [loop EXCEPT !.size = @ + x.size, !.items = Append(@, x.datum)]
         ELSE [loop EXCEPT !.state = "thrown"]

\* The items from a position on, with their end; every turn takes a byte or ends.
DecodeItems(inner, data, from) ==
    LET loop[i \in 0..Len(data)] ==
          IF i = 0 THEN [state |-> "more", size |-> from, items |-> << >>]
          ELSE NextItem(inner, data, loop[i - 1])
        end == loop[Len(data)]
    IN  IF end.state = "done" THEN Parsed(end.size, [Unset EXCEPT !.type = "LIST", !.list = end.items])
        ELSE Fails

DecodeNamed(inner, data) ==
    LET n == DecodeAtom(From(data, 1)) IN
    IF ~n.ok THEN Fails
    ELSE LET v == inner[From(data, 1 + n.size)] IN
         IF v.ok /\ TokenAt(data, 1 + n.size + v.size, END_NAME)
         THEN Parsed(2 + n.size + v.size,
                     [Unset EXCEPT !.type = "NAMED", !.atom = n.atom, !.list = <<v.datum>>])
         ELSE Fails

\* The UIDs must be atoms of eight bytes.
IsUid(a) == a.ok /\ get_uid(a.atom) # NotThis

MethodUids(o, m) == <<get_uid(o), get_uid(m)>>

DecodeMethod(inner, data) ==
    LET o == DecodeAtom(From(data, 1)) IN
    IF ~IsUid(o) THEN Fails
    ELSE LET m == DecodeAtom(From(data, 10)) IN
         IF ~IsUid(m) \/ ~TokenAt(data, 19, START_LIST) THEN Fails
         ELSE LET args == DecodeItems(inner, data, 20)
                  uids == MethodUids(o.atom, m.atom)
              IN  IF ~args.ok THEN Fails
                  ELSE Parsed(args.size, [args.datum EXCEPT !.type = "METHOD",
                                  !.object = uids[1], !.method = uids[2]])

\* decode_bytes.
DecodeDatum[n \in Nat] == [data \in Seq(Byte) |->
    IF n = 0 \/ data = << >> THEN Fails
    ELSE LET tok == Head(data) IN
         CASE tok = START_LIST  -> DecodeItems(DecodeDatum[n - 1], data, 1)
           [] tok = START_NAME  -> DecodeNamed(DecodeDatum[n - 1], data)
           [] tok = CALL        -> DecodeMethod(DecodeDatum[n - 1], data)
           [] tok = END_SESSION -> Parsed(1, [Unset EXCEPT !.type = "END_SESSION"])
           [] OTHER -> LET a == DecodeAtom(data) IN
                       IF a.ok THEN Parsed(a.size, [Unset EXCEPT !.type = "ATOM", !.atom = a.atom])
                       ELSE Fails]

-----------------------------------------------------------------------------
\* find_by_name: a name that is not a number makes get_uint throw.
Hit(x, id) == x.type = "NAMED" /\ get_uint(x.atom) = id
Bad(x) == x.type = "NAMED" /\ x.atom.type # "UINT"

Stops(x, id) == Bad(x) \/ Hit(x, id)

find_by_name(x, id) ==
    LET stops == {i \in DOMAIN x.list : Stops(x.list[i], id)} IN
    IF x.type # "LIST" \/ stops = {} THEN Error
    ELSE LET i == Min(stops) IN IF Hit(x.list[i], id) THEN x.list[i].list[1] ELSE Error

-----------------------------------------------------------------------------
DatumInit ==
    /\ step = "build" /\ d = Unset /\ calls = 0
    /\ wire = << >> /\ cut = FALSE /\ result = Fails

Build ==
    /\ step = "build" /\ calls < MaxCalls
    /\ \E path \in Paths, op \in Ops : d' = CallAt[Depth][d][path][op]
    /\ calls' = calls + 1
    /\ UNCHANGED <<step, wire, cut, result>>

\* encode_vector, and a packet that may end early.
SendDatum ==
    /\ step = "build"
    /\ step' = "sent"
    /\ wire' = EncodeDatum[Depth][d]
    /\ UNCHANGED <<d, calls, cut, result>>

CutDatum ==
    /\ step = "sent" /\ calls <= MaxCalls /\ ~cut
    /\ \E n \in {0, 1, 2, Len(wire) - 2, Len(wire) - 1} :
         n \in 0..(Len(wire) - 1) /\ wire' = SubSeq(wire, 1, n)
    /\ cut' = TRUE
    /\ UNCHANGED <<step, d, calls, result>>

\* Bytes from a drive: there is no datum of this program behind them.
ReceiveDatum ==
    /\ step = "build" /\ d = Unset
    /\ step' = "sent" /\ calls' = MaxCalls + 1
    /\ wire' \in DatumStreams
    /\ UNCHANGED <<d, cut, result>>

\* decode_vector.
GetDatum ==
    /\ step = "sent"
    /\ step' = "received"
    /\ result' = DecodeDatum[Depth][wire]
    /\ UNCHANGED <<d, calls, wire, cut>>

DatumNext == Build \/ SendDatum \/ CutDatum \/ ReceiveDatum \/ GetDatum

Foreign == calls > MaxCalls

-----------------------------------------------------------------------------
\* encode_vector asks size() for the room that encode_bytes will write to.
RoomForAll == step = "sent" /\ ~cut /\ ~Foreign => DatumSize[Depth][d] = Len(wire)

\* What is not set is the end of a session on the wire.
Sent[n \in Nat] == [x \in Data[n] |->
    [x EXCEPT !.type = IF x.type = "UNSET" THEN "END_SESSION" ELSE x.type,
              !.list = IF x.type \in {"NAMED", "METHOD", "LIST"}
                       THEN [i \in DOMAIN x.list |-> Sent[n - 1][x.list[i]]] ELSE << >>]]

\* A datum is decoded as it was built, by operator==, but for what was not set.
DatumReturns ==
    step = "received" /\ ~cut /\ ~Foreign =>
        /\ result.ok /\ result.size = Len(wire)
        /\ SameDatum[Depth][result.datum][Sent[Depth][d]]

\* A datum of which bytes are missing is never taken for a smaller one.
DatumCutNoticed == step = "received" /\ cut => ~result.ok

\* What a drive sends is decoded without loss.
DatumNotLost ==
    step = "received" /\ Foreign /\ result.ok =>
        EncodeDatum[Depth][result.datum] = SubSeq(wire, 1, result.size)

\* A value is found under its name, wherever in the list it is and whatever else
\* the list holds, unless a name before it is not a number.
FindsByName ==
    step = "build" /\ d.type = "LIST" =>
        \A i \in DOMAIN d.list :
            LET x == d.list[i] IN
            /\ x.type = "NAMED" /\ x.atom.type = "UINT"
            /\ \A j \in 1..(i - 1) :
                 d.list[j].type = "NAMED" =>
                    d.list[j].atom.type = "UINT" /\ d.list[j].atom.val # x.atom.val
            => find_by_name(d, x.atom.val) = x.list[1]
=============================================================================
