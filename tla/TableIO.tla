------------------------------ MODULE TableIO ------------------------------
(***************************************************************************)
(* Byte tables of the drive (the shadow MBR, the DataStore) read and        *)
(* written in chunks: drive::table_set_bin, table_get_bin and               *)
(* table_set_bin_file.  A transfer of several chunks is not atomic: any     *)
(* call may fail, be carried out without its answer arriving, or never be   *)
(* made because the process died.                                           *)
(*                                                                         *)
(* Bytes are not modelled but where they come from: a cell of the table     *)
(* holds i when it holds the i-th byte of the running transfer's source,    *)
(* and 0 when it holds what was there before; the caller's memory holds     *)
(* p + 1 when it holds the byte of table position p.                        *)
(*                                                                         *)
(* Every answer is taken for the answer of its call, which is what          *)
(* Session's ReplyMatchesCall says of a process that stops at the first     *)
(* exception, as the callers here do.                                       *)
(***************************************************************************)
EXTENDS Integers

CONSTANTS
    TableSize,       \* rows of the byte table
    max_token,       \* as settled by ComPacket
    Granularities,   \* the access granularities a drive may suggest
    MaxLen,          \* bound: length of a transfer, and of the input file
    Word             \* 2^64

ASSUME SizesNat ==
    /\ TableSize \in Nat \ {0} /\ max_token \in Nat \ {0}
    /\ Granularities \subseteq Nat /\ MaxLen \in Nat
    /\ Word \in Nat /\ Word > 2 * (TableSize + MaxLen)

VARIABLES
    pc,                     \* idle, check, read (the file), loop (over chunks)
    job,                    \* what was asked for
    offset, len, raw,       \* of table_set_bin and table_get_bin; raw counts
                            \* the source bytes before the next one
    foffset, file_len, count, optimal,       \* of table_set_bin_file
    fpos, avail,            \* the file: position, and bytes left to the end
    table, memory,          \* what the transfer did
    result,                 \* none, ok, error, crash or killed
    touched                 \* history: the file changed during the transfer

loopVars == <<offset, len, raw>>
fileVars == <<foffset, file_len, count, optimal, fpos, avail>>
vars == <<pc, job, loopVars, fileVars, table, memory, result, touched>>

Rows   == 0..(TableSize - 1)
Blank  == [p \in Rows |-> 0]
Unread == [i \in 0..(MaxLen - 1) |-> 0]
Job    == [kind : {"set", "get", "file"}, offset : Rows, len : 0..MaxLen]

AtMost(a, b) == IF a < b THEN a ELSE b

\* The next chunk is at most max_token.
chunk == AtMost(len, max_token)

\* Mutant of xfer_len: the granularity is ignored.
TokenSized == max_token

\* Whole granules in a transfer; fread fills the buffer unless the file ends.
xfer_len == (max_token \div optimal) * optimal

-----------------------------------------------------------------------------
Init ==
    /\ pc = "idle"
    /\ job = [kind |-> "set", offset |-> 0, len |-> 0]
    /\ offset = 0 /\ len = 0 /\ raw = 0
    /\ foffset = 0 /\ file_len = 0 /\ count = 0 /\ optimal = 0
    /\ fpos = 0 /\ avail = 0
    /\ table = Blank /\ memory = Unread
    /\ result = "none" /\ touched = FALSE

\* A caller starts a transfer: of its memory, or of a file it names.
Begin(j) ==
    /\ pc = "idle"
    /\ pc' = IF j.kind = "file" THEN "check" ELSE "loop"
    /\ job' = j
    /\ offset' = j.offset /\ len' = (IF j.kind = "file" THEN 0 ELSE j.len) /\ raw' = 0
    /\ foffset' = j.offset /\ file_len' = (IF j.kind = "file" THEN j.len ELSE 0)
    /\ count' = 0 /\ optimal' = 0
    /\ fpos' = 0 /\ avail' = file_len'
    /\ table' = Blank /\ memory' = Unread
    /\ result' = "none" /\ touched' = FALSE

End(r) == pc' = "idle" /\ result' = r

\* table_set_bin_file before its loop: the size of the table, the size check,
\* the granularity, and a division by the transfer length.
TooLarge == (job.offset + file_len) % Word > TableSize

CheckFile ==
    /\ pc = "check"
    /\ \/ End("error") /\ UNCHANGED optimal         \* the descriptor is not readable
       \/ TooLarge /\ End("error") /\ UNCHANGED optimal
       \/ /\ ~TooLarge
          /\ optimal' \in Granularities
          /\ IF optimal' = 0 \/ optimal' > max_token
             THEN End("crash")
             ELSE pc' = "read" /\ UNCHANGED result
    /\ UNCHANGED <<job, loopVars, foffset, file_len, count, fpos, avail, table, memory, touched>>

\* The file loop: one fread, then table_set_bin of what it delivered.  An fread
\* that delivers nothing ends the loop as if the file had been written.
ReadFile ==
    /\ pc = "read" /\ file_len # 0 /\ avail # 0
    /\ pc' = "loop"
    /\ count' = AtMost(xfer_len, avail)
    /\ offset' = foffset /\ len' = count' /\ raw' = fpos
    /\ fpos' = fpos + count' /\ avail' = avail - count'
    /\ UNCHANGED <<job, foffset, file_len, optimal, table, memory, result, touched>>

\* Mutants of FileDone: a short file is not noticed; the last block is left out.
FileDoneAtLength ==
    /\ pc = "read" /\ file_len = 0
    /\ End("ok")
    /\ UNCHANGED <<job, loopVars, fileVars, table, memory, touched>>

FileDoneEarly ==
    /\ pc = "read" /\ (file_len <= count \/ avail = 0)
    /\ End("ok")
    /\ UNCHANGED <<job, loopVars, fileVars, table, memory, touched>>

FileDone ==
    /\ pc = "read" /\ (file_len = 0 \/ avail = 0)
    /\ End("ok")
    /\ UNCHANGED <<job, loopVars, fileVars, table, memory, touched>>

\* Mutant of Advance: the pointer to the data stays.
AdvanceOffset ==
    /\ offset' = offset + chunk /\ len' = len - chunk /\ UNCHANGED raw

\* The loop of table_set_bin and table_get_bin: a call that returns.
Advance ==
    /\ offset' = offset + chunk /\ raw' = raw + chunk /\ len' = len - chunk

Written ==
    [p \in Rows |-> IF p \in offset..(offset + chunk - 1) THEN raw + (p - offset) + 1
                    ELSE table[p]]

\* The drive refuses rows it does not have.
HasRows == offset + chunk <= TableSize

SetChunk ==
    /\ pc = "loop" /\ job.kind # "get" /\ len > 0 /\ HasRows
    /\ table' = Written
    /\ Advance
    /\ UNCHANGED <<pc, job, fileVars, memory, result, touched>>

GetChunk ==
    /\ pc = "loop" /\ job.kind = "get" /\ len > 0 /\ HasRows
    /\ memory' = [i \in DOMAIN memory |->
                    IF i \in raw..(raw + chunk - 1) THEN offset + (i - raw) + 1 ELSE memory[i]]
    /\ Advance
    /\ UNCHANGED <<pc, job, fileVars, table, result, touched>>

\* A call that throws: refused, or carried out and its answer lost.
ChunkFails ==
    /\ pc = "loop" /\ len > 0
    /\ End("error")
    /\ table' \in {table} \cup (IF job.kind # "get" /\ HasRows THEN {Written} ELSE {})
    /\ UNCHANGED <<job, loopVars, fileVars, memory, touched>>

\* The loop is done: back to the caller, or to the file.
LoopDone ==
    /\ pc = "loop" /\ len = 0
    /\ IF job.kind = "file"
       THEN /\ pc' = "read" /\ UNCHANGED result
            /\ file_len' = (file_len - count) % Word
            /\ foffset' = foffset + count
       ELSE End("ok") /\ UNCHANGED <<file_len, foffset>>
    /\ UNCHANGED <<job, loopVars, count, optimal, fpos, avail, table, memory, touched>>

\* Another process appends to the file, or truncates it (external).
FileChanges ==
    /\ pc \in {"read", "loop", "check"} /\ job.kind = "file"
    /\ avail' \in 0..(MaxLen - fpos) \ {avail}
    /\ touched' = TRUE
    /\ UNCHANGED <<pc, job, loopVars, foffset, file_len, count, optimal, fpos, table, memory, result>>

\* The process dies between two steps.
Kill ==
    /\ pc # "idle"
    /\ End("killed")
    /\ UNCHANGED <<job, loopVars, fileVars, table, memory, touched>>

Host ==
    \/ CheckFile \/ ReadFile \/ FileDone \/ SetChunk \/ GetChunk \/ LoopDone
    \/ ~HasRows /\ ChunkFails

Next == Host \/ ChunkFails \/ FileChanges \/ Kill \/ \E j \in Job : Begin(j)

Spec == Init /\ [][Next]_vars

\* A transfer keeps running; a call ends one way or the other (Session's
\* OperationEnds), with an error when the drive has no such rows.
FairSpec == Spec /\ WF_vars(Host)

-----------------------------------------------------------------------------
\* What the transfer has written is a prefix of its source, in place.
Prefix(k) ==
    [p \in Rows |-> IF p \in job.offset..(job.offset + k - 1) THEN p - job.offset + 1 ELSE 0]

\* Every variable has its type; the drive's table keeps its size (drive.cpp
\* holds sizes in uint64_t).
TypeOK ==
    /\ pc \in {"idle", "check", "read", "loop"} /\ job \in Job
    /\ offset \in Nat /\ len \in Nat /\ raw \in Nat
    /\ foffset \in Nat /\ file_len \in 0..(Word - 1) /\ count \in Nat
    /\ optimal \in Granularities \cup {0}
    /\ fpos \in 0..MaxLen /\ avail \in 0..MaxLen
    /\ table \in [Rows -> 0..(TableSize + MaxLen)]
    /\ memory \in [0..(MaxLen - 1) -> 0..TableSize]
    /\ result \in {"none", "ok", "error", "crash", "killed"} /\ touched \in BOOLEAN

\* Wherever a transfer stops, by an error, a lost answer or the death of the
\* process, the table holds a prefix of the source at the offset asked for and
\* is otherwise as it was; of a file that nobody changed, no more than its
\* length (the pointers of table_set_bin and table_set_bin_file stay in step).
TornWriteIsPrefix ==
    IF job.kind = "get" THEN table = Blank
    ELSE \E k \in 0..TableSize : table = Prefix(k) /\ (touched \/ k <= job.len)

\* A transfer that returns without an exception is complete: all of the source
\* is in the table, or all of the rows are in memory, each byte in its place.
\* A file that was truncated meanwhile is the exception.
SuccessIsComplete ==
    result = "ok" /\ ~touched =>
        IF job.kind = "get"
        THEN memory = [i \in DOMAIN memory |-> IF i < job.len THEN job.offset + i + 1 ELSE 0]
        ELSE table = Prefix(job.len)

\* The calls that write a file respect the granularity the drive suggests:
\* from an aligned start, every call begins on a granule, and covers whole
\* granules but for the last one.
GranularWrites ==
    [][pc = "loop" /\ job.kind = "file" /\ table' # table /\ ~touched
          /\ job.offset % optimal = 0 =>
        /\ offset % optimal = 0
        /\ chunk % optimal = 0 \/ offset + chunk = job.offset + job.len]_vars

\* Every transfer ends, whatever the drive answers and whatever happens to the
\* file: the loops make progress (table_set_bin, table_set_bin_file).
TransferEnds == pc # "idle" ~> pc = "idle"
=============================================================================
