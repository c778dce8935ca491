----------------------------- MODULE DataStore -----------------------------
(***************************************************************************)
(* tp_lock's ds_load and ds_read: a file kept in the drive's DataStore      *)
(* table behind a header that holds its length.                             *)
(*                                                                         *)
(* A transfer is one step here, with TableIO's promise: one that fails has  *)
(* written a prefix of its source.  Bytes are digits to the base Base, and  *)
(* the table, the headers and the limits are scaled down.                   *)
(***************************************************************************)
EXTENDS Integers, SequencesExt

CONSTANTS
    Size,           \* rows of the DataStore table
    WriteHeader,    \* sizeof(uint32_t)
    ReadHeader,     \* sizeof(size_t)
    Limit,          \* 64 K
    Chunk,          \* 1024
    Base,           \* 256
    Files           \* contents of input files: sequences of bytes

VARIABLES
    pc,         \* "off", "ace", "measure", "header", "data", "length", "chunks"
    file,       \* the input file
    file_len, file_offset,
    output,     \* what ds_read has written
    outcome,    \* "none", "loaded", "read", "exception", "killed"
    anybody,    \* the ACE lets anybody read the table
    table,
    stored,     \* history: the file as the last completed ds_load found it
    touched     \* history: the file changed during ds_load

tool == <<pc, file_len, file_offset, output, outcome>>
vars == <<tool, file, anybody, table, stored, touched>>

Nothing == <<-1>>

\* The digits of a number, the least significant first, and back.
Digits(n, width) == [i \in 1..width |-> (n \div Base^(i - 1)) % Base]
Number(digits)   == FoldLeftDomain(LAMBDA sum, i : sum + digits[i] * Base^(i - 1), 0, digits)

\* What is assumed of the constants: the table has room for a header, the length
\* of a file that fits can be written in one, and is what its digits tell.
HeaderHoldsSize ==
    /\ Base^WriteHeader > Size
    /\ \A n \in 0..Size : Number(Digits(n, WriteHeader)) = n

Fits ==
    /\ Size \in Nat /\ WriteHeader \in 0..Size /\ ReadHeader \in 0..Size
    /\ Limit \in Nat /\ Chunk \in Nat \ {0} /\ Base \in Nat \ {0}
    /\ Files \subseteq Seq(0..(Base - 1))
    /\ \A k \in 0..WriteHeader : Base^k \in Nat \ {0}
    /\ \A digits \in [1..ReadHeader -> 0..(Base - 1)] : Number(digits) \in Nat
    /\ HeaderHoldsSize

\* The table with the first k bytes of a source at an offset (rows from 0).
Put(offset, source, k) ==
    [r \in 0..(Size - 1) |-> IF r \in offset..(offset + k - 1) THEN source[r - offset + 1] ELSE table[r]]

Row(from, len) == [i \in 1..len |-> table[from + i - 1]]

Init ==
    /\ pc = "off" /\ file \in Files /\ file_len = 0 /\ file_offset = 0
    /\ output = << >> /\ outcome = "none"
    /\ anybody = FALSE /\ table = [r \in 0..(Size - 1) |-> 0]
    /\ stored = Nothing /\ touched = FALSE

End(how) == pc' = "off" /\ outcome' = how

Begin(first) ==
    /\ pc = "off"
    /\ pc' = first /\ outcome' = "none"
    /\ output' = << >> /\ file_len' = 0 /\ file_offset' = 0 /\ touched' = FALSE
    /\ UNCHANGED <<file, anybody, table, stored>>

-----------------------------------------------------------------------------
\* ds_load: the permission first, so that the data can be read back without
\* a PIN.
SetAce ==
    /\ pc = "ace"
    /\ anybody' = TRUE /\ pc' = "measure"
    /\ UNCHANGED <<file_len, file_offset, output, outcome, file, table, stored, touched>>

Measure ==
    /\ pc = "measure"
    /\ file_len' = Len(file) % Base^WriteHeader
    /\ pc' = "header"
    /\ UNCHANGED <<file_offset, output, outcome, file, anybody, table, stored, touched>>

PutHeader ==
    /\ pc = "header"
    /\ table' = Put(0, Digits(file_len, WriteHeader), WriteHeader)
    /\ pc' = "data" /\ stored' = Nothing
    /\ UNCHANGED <<file_len, file_offset, output, outcome, file, anybody, touched>>

\* Mutant of DataOffset: the data is put over the header.
NoOffset == 0

DataOffset == WriteHeader

\* table_set_bin_file measures the file once more.
TooLarge == DataOffset + Len(file) > Size

PutData ==
    /\ pc = "data" /\ ~TooLarge
    /\ table' = Put(DataOffset, file, Len(file))
    /\ End("loaded") /\ stored' = IF touched THEN Nothing ELSE file
    /\ UNCHANGED <<file_len, file_offset, output, file, anybody, touched>>

\* A call that throws: a header or data written in part, or in full.
TransferFails ==
    /\ pc \in {"ace", "measure", "header", "data"}
    /\ End("exception")
    /\ IF pc = "ace" THEN anybody' \in {anybody, TRUE} ELSE UNCHANGED anybody
    /\ CASE pc = "header" -> \E k \in 0..WriteHeader : table' = Put(0, Digits(file_len, WriteHeader), k)
         [] pc = "data" /\ ~TooLarge -> \E k \in 0..Len(file) : table' = Put(DataOffset, file, k)
         [] OTHER -> UNCHANGED table
    /\ stored' = IF table' = table THEN stored ELSE Nothing
    /\ UNCHANGED <<file_len, file_offset, output, file, touched>>

-----------------------------------------------------------------------------
\* ds_read, by whoever may.
Corrupt == file_len' > Limit

GetLength ==
    /\ pc = "length"
    /\ file_len' = Number(Row(0, ReadHeader))
    /\ IF Corrupt THEN End("exception") ELSE pc' = "chunks" /\ UNCHANGED outcome
    /\ UNCHANGED <<file_offset, output, file, anybody, table, stored, touched>>

\* Mutant of read_size: always a whole chunk.
WholeChunk == Chunk

read_size == IF file_offset + Chunk > file_len THEN file_len - file_offset ELSE Chunk

GetChunk ==
    /\ pc = "chunks" /\ file_offset < file_len
    /\ ReadHeader + file_offset + read_size <= Size
    /\ output' = output \o Row(file_offset + ReadHeader, read_size)
    /\ file_offset' = file_offset + Chunk
    /\ UNCHANGED <<pc, file_len, outcome, file, anybody, table, stored, touched>>

ReadDone ==
    /\ pc = "chunks" /\ file_offset >= file_len
    /\ End("read")
    /\ UNCHANGED <<file_len, file_offset, output, file, anybody, table, stored, touched>>

\* Also when the table ends before the length does.
GetFails ==
    /\ pc \in {"length", "chunks"}
    /\ End("exception")
    /\ UNCHANGED <<file_len, file_offset, output, file, anybody, table, stored, touched>>

FileChanges ==
    /\ file' \in Files \ {file}
    /\ touched' = (pc \in {"header", "data"})
    /\ UNCHANGED <<tool, anybody, table, stored>>

Kill ==
    /\ pc # "off"
    /\ End("killed")
    /\ UNCHANGED <<file_len, file_offset, output, file, anybody, table, stored, touched>>

Host == SetAce \/ Measure \/ PutHeader \/ PutData \/ GetLength \/ GetChunk \/ ReadDone

Next ==
    \/ Host \/ TransferFails \/ GetFails \/ FileChanges \/ Kill
    \/ Begin("ace") \/ Begin("length")

Spec == Init /\ [][Next]_vars

-----------------------------------------------------------------------------
\* As long as no later ds_load has begun to write, the table holds what the last
\* completed one stored, for anybody to read: a header with the length of the
\* file, then the file, in every byte.  (The file is measured twice; one that
\* changes in between is the exception.)
HoldsWhatWasStored ==
    stored # Nothing =>
        /\ anybody
        /\ Number(Row(0, WriteHeader)) = Len(stored)
        /\ Row(WriteHeader, Len(stored)) = stored

\* ds_read delivers as many bytes as its header says, in one piece from behind
\* the header, without a gap or an overlap between its chunks.
ReadsInOnePiece ==
    outcome = "read" => output = Row(ReadHeader, file_len)

\* tp_lock.cpp, on the permission that ds_load sets: "so we can read this back".
ReadsBack ==
    outcome = "read" /\ stored # Nothing => output = stored
=============================================================================
