----------------------------- MODULE ComPacket -----------------------------
(***************************************************************************)
(* The sizes of what the host sends: drive::probe_level1 settles the        *)
(* largest ComPacket and the largest token with the drive, drive::send      *)
(* wraps a payload in three headers and two paddings and refuses what does  *)
(* not fit in the buffer, and table_set_bin cuts its data into tokens of    *)
(* the largest size.                                                        *)
(*                                                                         *)
(* All quantities are bytes, with the code's own values.  uint64_t          *)
(* arithmetic is modulo Word.                                               *)
(***************************************************************************)
EXTENDS Integers

CONSTANTS
    ComSizes,      \* the MaxComPacketSize values a drive may report
    TokenSizes,    \* the MaxIndTokenSize values a drive may report
    MaxProps,      \* bound: properties in the drive's answer
    Lengths,       \* bound: lengths of data written
    Word           \* 2^64

ASSUME Sizes ==
    /\ ComSizes \subseteq Nat /\ TokenSizes \subseteq Nat \ {0}
    /\ Lengths \subseteq Nat
ASSUME PropsBound == MaxProps \in Nat
ASSUME WordIsLarge == Word \in Nat /\ Word > 66048

VARIABLES
    pc,            \* "props": reading the drive's properties; "ready"
    seen,          \* properties read so far
    max_xfer,      \* probe_level1's local
    max_token,
    raw_buffer,    \* the size of the managed buffer
    sent           \* the last send: "none", "sent", or "thrown"

vars == <<pc, seen, max_xfer, max_token, raw_buffer, sent>>

-----------------------------------------------------------------------------
ATA_BLOCK_SIZE == 512
MAX_XFER       == 129 * ATA_BLOCK_SIZE    \* MAX_IO_BLOCKS
max_pad        == 100
INITIAL_BUFFER == 1024

\* PAD_TO_MULTIPLE, with the two multiples it is used for.
Pad4(n)   == ((n + 3) \div 4) * 4
Pad512(n) == ((n + 511) \div 512) * 512

\* drive::send: sub packet, packet and ComPacket headers.
TotalSize(payload) == Pad512(Pad4(payload + 12) + 24 + 20)

\* atom::new_bin, atom::size: header and data.
BinAtom(len) == len + (IF len < 16 THEN 1 ELSE IF len < 2048 THEN 2 ELSE 4)

\* table_set_bin: a method call with the offset, whose atom has offset_atom
\* bytes (1 to 9), and the data as its two named parameters, and the status
\* list that invoke appends.
SetPayload(offset_atom, len) ==
    (19 + 2) + (2 + 1 + offset_atom) + (2 + 1 + BinAtom(len)) + 6

\* An offset below 2^48 takes at most seven bytes with its header.  The largest
\* tables, the shadow MBR and the DataStore, are of a few hundred megabytes.
OffsetAtoms == 1..7

\* drive::send throws "ComPkt too large for drive".
Fits(payload) == TotalSize(payload) <= raw_buffer

AtMost(a, b) == IF a < b THEN a ELSE b

-----------------------------------------------------------------------------
Init ==
    /\ pc = "props" /\ seen = 0
    /\ max_xfer = MAX_XFER
    /\ max_token = MAX_XFER - max_pad
    /\ raw_buffer = INITIAL_BUFFER
    /\ sent = "none"

\* One round of the loop over the drive's properties: either limit, in any
\* order, any number of times; any other name is skipped.
ReadProperty ==
    /\ pc = "props" /\ seen < MaxProps
    /\ seen' = seen + 1
    /\ \/ \E val \in ComSizes :
            max_xfer' = AtMost(val, max_xfer) /\ UNCHANGED max_token
       \/ \E val \in TokenSizes :
            max_token' = AtMost(val, max_token) /\ UNCHANGED max_xfer
       \/ UNCHANGED <<max_xfer, max_token>>
    /\ UNCHANGED <<pc, raw_buffer, sent>>

\* Mutants of Settle: without the tweak; without the resize.
SettleUntweaked ==
    /\ pc = "props" /\ pc' = "ready"
    /\ raw_buffer' = max_xfer
    /\ UNCHANGED <<seen, max_xfer, max_token, sent>>

SettleUnsized ==
    /\ pc = "props" /\ pc' = "ready"
    /\ max_token' = AtMost((max_xfer - max_pad) % Word, max_token)
    /\ UNCHANGED <<seen, max_xfer, raw_buffer, sent>>

\* The tweak of the token size, and the resize of the buffer.
Settle ==
    /\ pc = "props" /\ pc' = "ready"
    /\ max_token' = AtMost((max_xfer - max_pad) % Word, max_token)
    /\ raw_buffer' = max_xfer
    /\ UNCHANGED <<seen, max_xfer, sent>>

\* One round of the loop of table_set_bin, for a caller with len bytes left.
SetChunk ==
    /\ pc = "ready"
    /\ \E len \in Lengths \ {0}, offset_atom \in OffsetAtoms :
         sent' = IF Fits(SetPayload(offset_atom, AtMost(max_token, len)))
                 THEN "sent" ELSE "thrown"
    /\ UNCHANGED <<pc, seen, max_xfer, max_token, raw_buffer>>

Next == ReadProperty \/ Settle \/ SetChunk

Spec == Init /\ [][Next]_vars

-----------------------------------------------------------------------------
\* Every size is a number the code can hold, and max_xfer is what some drive
\* reported or the host's own maximum.
TypeOK ==
    /\ pc \in {"props", "ready"}
    /\ seen \in 0..MaxProps
    /\ max_xfer \in ComSizes \cup {MAX_XFER} /\ max_xfer <= MAX_XFER
    /\ max_token \in 0..MAX_XFER
    /\ raw_buffer = IF pc = "ready" THEN max_xfer ELSE INITIAL_BUFFER
    /\ sent \in {"none", "sent", "thrown"}

\* The sizes every drive reports, as far as the Opal drives the tools are for
\* go: whole blocks, and at least one.
WholeBlocks == \A val \in ComSizes : val % ATA_BLOCK_SIZE = 0 /\ val >= ATA_BLOCK_SIZE

\* With ComPackets of whole blocks, table_set_bin never has a chunk refused by
\* send: the largest token, with the largest offset, in its headers and
\* paddings, still fits in the buffer the same probe has sized.
ChunkAlwaysFits == WholeBlocks => sent # "thrown"
=============================================================================
