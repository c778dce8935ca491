--------------------------- MODULE TableIOProofs ---------------------------
(***************************************************************************)
(* For every table, token and file size: what a transfer has written when   *)
(* it stops, however it stops, is a prefix of its source, in place; and when *)
(* it returns without an exception, nothing is missing.                     *)
(***************************************************************************)
EXTENDS MCTableIO, SequenceTheorems, TLAPS

\* The table, at every point of a write.  done is what has been written of the
\* source; a file transfer counts in whole freads between its chunks.
InPlace(done) == done \in 0..TableSize /\ table = Prefix(done) /\ (touched \/ done <= job.len)

SetInvariant ==
    pc = "loop" /\ job.kind = "set" =>
        /\ raw \in Nat /\ len \in Nat
        /\ offset = job.offset + raw /\ raw + len = job.len
        /\ InPlace(raw)

FileInvariant ==
    pc \in {"check", "read", "loop"} /\ job.kind = "file" =>
        /\ fpos \in Nat /\ avail \in Nat /\ count \in Nat /\ raw \in Nat /\ len \in Nat
        /\ touched \/ fpos + avail = job.len
        /\ CASE pc = "loop"  -> /\ offset = job.offset + raw /\ raw + len = fpos
                                /\ foffset + count = job.offset + fpos
                                /\ InPlace(raw)
             [] OTHER        -> foffset = job.offset + fpos /\ InPlace(fpos)

\* The inductive invariant: a read never writes; check belongs to files.
WriteInvariant ==
    /\ job \in Job /\ touched \in BOOLEAN
    /\ pc \in {"idle", "check", "read", "loop"}
    /\ pc \in {"check", "read"} => job.kind = "file"
    /\ optimal \in Nat
    /\ pc \in {"read", "loop"} /\ job.kind = "file" => optimal # 0
    /\ SetInvariant
    /\ FileInvariant
    /\ TornWriteIsPrefix

-----------------------------------------------------------------------------
LEMMA ChunkBounds ==
    ASSUME len \in Nat
    PROVE  chunk \in Nat /\ chunk <= len /\ (len > 0 => chunk > 0)
BY SizesNat DEF chunk, AtMost

\* Nothing written is the empty prefix.
LEMMA BlankIsPrefix == ASSUME job.offset \in Nat PROVE Blank = Prefix(0)
BY SizesNat DEF Blank, Prefix, Rows

\* Writing the next chunk makes the prefix longer by the chunk.
LEMMA WrittenIsPrefix ==
    ASSUME job.offset \in Nat, raw \in Nat, len \in Nat,
           offset = job.offset + raw, table = Prefix(raw)
    PROVE  Written = Prefix(raw + chunk)
<1> DEFINE n == chunk
<1>1. n \in Nat
  BY ChunkBounds
<1> HIDE DEF n
<1>2. ASSUME NEW p \in Rows
      PROVE  (IF p \in offset..(offset + n - 1) THEN raw + (p - offset) + 1 ELSE table[p])
           = (IF p \in job.offset..(job.offset + (raw + n) - 1) THEN p - job.offset + 1 ELSE 0)
  <2>1. p \in Nat
    BY SizesNat DEF Rows
  <2>2. table[p] = IF p \in job.offset..(job.offset + raw - 1) THEN p - job.offset + 1 ELSE 0
    BY DEF Prefix
  <2> QED BY <1>1, <2>1, <2>2
<1> QED BY <1>2 DEF Written, Prefix, n

\* A chunk that is carried out keeps the table in place.
LEMMA ChunkInPlace ==
    ASSUME WriteInvariant, pc = "loop", job.kind # "get", HasRows
    PROVE  /\ raw + chunk \in 0..TableSize /\ Written = Prefix(raw + chunk)
           /\ touched \/ raw + chunk <= job.len
           /\ raw \in Nat /\ len \in Nat /\ offset = job.offset + raw
<1>1. job.offset \in Nat /\ job.len \in Nat /\ job.kind \in {"set", "file"}
  BY SizesNat DEF WriteInvariant, Job, Rows
<1>2. /\ raw \in Nat /\ len \in Nat /\ offset = job.offset + raw /\ InPlace(raw)
      /\ touched \/ raw + len <= job.len
  <2>1. CASE job.kind = "set"
    BY <1>1, <2>1 DEF WriteInvariant, SetInvariant
  <2>2. CASE job.kind = "file"
    BY <1>1, <2>2 DEF WriteInvariant, FileInvariant
  <2> QED BY <1>1, <2>1, <2>2
<1>3. chunk \in Nat /\ chunk <= len
  BY <1>2, ChunkBounds
<1>4. raw + chunk \in 0..TableSize
  BY <1>1, <1>2, <1>3, SizesNat DEF HasRows
<1>5. Written = Prefix(raw + chunk)
  BY <1>1, <1>2, WrittenIsPrefix DEF InPlace
<1>6. touched \/ raw + chunk <= job.len
  BY <1>1, <1>2, <1>3
<1> QED BY <1>2, <1>4, <1>5, <1>6

\* A file transfer reads whole granules.
LEMMA TransferLength == ASSUME optimal \in Nat \ {0} PROVE xfer_len \in Nat
<1> DEFINE q == max_token \div optimal
<1>1. q \in Nat
  BY SizesNat
<1> HIDE DEF q
<1>2. q * optimal \in Nat
  BY <1>1
<1> QED BY <1>2 DEF xfer_len, q

LEMMA WriteInit == Init => WriteInvariant
<1> SUFFICES ASSUME Init PROVE WriteInvariant
  OBVIOUS
<1>1. job \in Job /\ job.offset = 0 /\ job.len = 0 /\ job.kind = "set"
  BY SizesNat DEF Init, Job, Rows
<1>2. TornWriteIsPrefix
  BY <1>1, BlankIsPrefix, SizesNat DEF Init, TornWriteIsPrefix
<1>3. touched \in BOOLEAN
  BY DEF Init
<1>4. pc = "idle" /\ optimal \in Nat
  BY DEF Init
<1> QED BY <1>1, <1>2, <1>3, <1>4 DEF WriteInvariant, SetInvariant, FileInvariant

LEMMA WriteStep == WriteInvariant /\ [Next]_vars => WriteInvariant'
<1> SUFFICES ASSUME WriteInvariant, [Next]_vars PROVE WriteInvariant'
  OBVIOUS
<1>j. job.offset \in Nat /\ job.len \in Nat /\ job.kind \in {"set", "get", "file"}
  BY SizesNat DEF WriteInvariant, Job, Rows
<1>p. job' = job => \A k : Prefix(k)' = Prefix(k)
  BY DEF Prefix
<1>1. ASSUME NEW j \in Job, Begin(j) PROVE WriteInvariant'
  <2>1. job' = j /\ j.offset \in Nat /\ j.len \in Nat /\ j.kind \in {"set", "get", "file"}
    BY <1>1, SizesNat DEF Begin, Job, Rows
  <2>2. table' = Blank /\ Blank = Prefix(0)'
    BY <1>1, <2>1, SizesNat DEF Begin, Blank, Prefix, Rows
  <2>3. InPlace(0)'
    BY <2>1, <2>2, SizesNat DEF InPlace
  <2>4. TornWriteIsPrefix'
    BY <2>1, <2>2, SizesNat DEF TornWriteIsPrefix
  <2>5. SetInvariant'
    BY <1>1, <2>1, <2>3 DEF Begin, SetInvariant
  <2>6. FileInvariant'
    BY <1>1, <2>1, <2>3 DEF Begin, FileInvariant
  <2> QED BY <1>1, <2>4, <2>5, <2>6 DEF Begin, WriteInvariant
<1>2. CASE CheckFile
  <2>1. /\ job' = job /\ table' = table /\ touched' = touched /\ job.kind = "file"
        /\ pc' \in {"idle", "read"} /\ optimal' \in Nat
        /\ pc' = "read" => optimal' # 0
    BY <1>2, SizesNat DEF CheckFile, End, WriteInvariant
  <2>2. /\ fpos' = fpos /\ avail' = avail /\ count' = count /\ raw' = raw /\ len' = len
        /\ foffset' = foffset
    BY <1>2 DEF CheckFile, loopVars
  <2>3. SetInvariant'
    BY <2>1 DEF SetInvariant
  <2>4. InPlace(fpos)'
    BY <1>2, <1>p, <2>1, <2>2 DEF CheckFile, WriteInvariant, FileInvariant, InPlace
  <2>5. FileInvariant'
    BY <1>2, <2>1, <2>2, <2>4 DEF CheckFile, WriteInvariant, FileInvariant
  <2>6. TornWriteIsPrefix'
    BY <1>p, <2>1 DEF WriteInvariant, TornWriteIsPrefix
  <2> QED BY <2>1, <2>3, <2>5, <2>6 DEF WriteInvariant
<1>3. CASE ReadFile
  <2>1. job.kind = "file" /\ avail > 0 /\ InPlace(fpos) /\ foffset = job.offset + fpos
    BY <1>3 DEF ReadFile, WriteInvariant, FileInvariant
  <2>2. count' \in Nat /\ count' <= avail
    <3>1. xfer_len \in Nat
      BY <1>3, <2>1, TransferLength DEF ReadFile, WriteInvariant
    <3> QED BY <1>3, <3>1 DEF ReadFile, AtMost, WriteInvariant, FileInvariant
  <2> QED BY <1>3, <1>j, <1>p, <2>1, <2>2
      DEF ReadFile, WriteInvariant, SetInvariant, FileInvariant, InPlace, TornWriteIsPrefix
<1>4. CASE FileDone \/ Kill
  BY <1>4, <1>p DEF FileDone, Kill, End, WriteInvariant, SetInvariant, FileInvariant,
                    TornWriteIsPrefix, fileVars
<1>5. CASE SetChunk
  <2> DEFINE k == raw + chunk
  <2>1. /\ k \in 0..TableSize /\ Written = Prefix(k) /\ (touched \/ k <= job.len)
        /\ raw \in Nat /\ len \in Nat /\ offset = job.offset + raw
    BY <1>5, ChunkInPlace DEF SetChunk
  <2>2. chunk \in Nat /\ chunk <= len
    BY <2>1, ChunkBounds
  <2>3. /\ raw' = k /\ offset' = job.offset + k /\ len' = len - chunk
        /\ k \in Nat /\ len' \in Nat /\ k + len' = raw + len
    BY <1>5, <1>j, <2>1, <2>2 DEF SetChunk, Advance
  <2> HIDE DEF k
  <2>4. job' = job /\ touched' = touched /\ pc' = "loop"
    BY <1>5 DEF SetChunk
  <2>5. table' = [p \in Rows |-> IF p \in job'.offset..(job'.offset + k - 1)
                                 THEN p - job'.offset + 1 ELSE 0]
    BY <1>5, <2>1, <2>4 DEF SetChunk, Prefix
  <2>6. InPlace(raw)'
    BY <2>1, <2>3, <2>4, <2>5 DEF InPlace, Prefix
  <2>7. TornWriteIsPrefix'
    BY <1>5, <2>1, <2>4, <2>5 DEF SetChunk, TornWriteIsPrefix, Prefix
  <2> QED BY <1>5, <2>3, <2>4, <2>6, <2>7
      DEF SetChunk, WriteInvariant, SetInvariant, FileInvariant, fileVars
<1>6. CASE GetChunk
  BY <1>6, <1>p DEF GetChunk, WriteInvariant, SetInvariant, FileInvariant, TornWriteIsPrefix, fileVars
<1>7. CASE ChunkFails
  <2>1. CASE table' = table
    BY <1>7, <1>p, <2>1 DEF ChunkFails, End, WriteInvariant, SetInvariant, FileInvariant,
                            TornWriteIsPrefix, fileVars
  <2>2. CASE job.kind # "get" /\ HasRows /\ table' = Written
    <3> DEFINE k == raw + chunk
    <3>1. k \in 0..TableSize /\ Written = Prefix(k) /\ (touched \/ k <= job.len)
      BY <1>7, <2>2, ChunkInPlace DEF ChunkFails
    <3> HIDE DEF k
    <3>2. job' = job /\ touched' = touched
      BY <1>7 DEF ChunkFails
    <3>3. table' = [p \in Rows |-> IF p \in job'.offset..(job'.offset + k - 1)
                                   THEN p - job'.offset + 1 ELSE 0]
      BY <2>2, <3>1, <3>2 DEF Prefix
    <3>4. TornWriteIsPrefix'
      BY <2>2, <3>1, <3>2, <3>3 DEF TornWriteIsPrefix, Prefix
    <3> QED BY <1>7, <3>4 DEF ChunkFails, End, WriteInvariant, SetInvariant, FileInvariant, fileVars
  <2> QED BY <1>7, <2>1, <2>2 DEF ChunkFails
<1>8. CASE LoopDone
  <2>1. CASE job.kind = "file"
    BY <1>8, <1>j, <1>p, <2>1
    DEF LoopDone, WriteInvariant, SetInvariant, FileInvariant, InPlace, TornWriteIsPrefix, loopVars
  <2>2. CASE job.kind # "file"
    BY <1>8, <1>p, <2>2
    DEF LoopDone, End, WriteInvariant, SetInvariant, FileInvariant, TornWriteIsPrefix, loopVars
  <2> QED BY <2>1, <2>2
<1>9. CASE FileChanges
  <2>1. avail' \in Nat /\ touched' = TRUE
    BY <1>9, SizesNat DEF FileChanges, WriteInvariant, FileInvariant
  <2> QED BY <1>9, <1>p, <2>1
      DEF FileChanges, WriteInvariant, SetInvariant, FileInvariant, InPlace, TornWriteIsPrefix, loopVars
<1>10. CASE UNCHANGED vars
  BY <1>10, <1>p DEF vars, loopVars, fileVars, WriteInvariant, SetInvariant, FileInvariant,
                     InPlace, TornWriteIsPrefix
<1> QED BY <1>1, <1>2, <1>3, <1>4, <1>5, <1>6, <1>7, <1>8, <1>9, <1>10 DEF Next, Host

\* A transfer leaves a prefix of its source, wherever it stops.
THEOREM TornWrites == Spec => []TornWriteIsPrefix
<1>1. WriteInvariant => TornWriteIsPrefix
  BY DEF WriteInvariant
<1> QED BY <1>1, WriteInit, WriteStep, PTL DEF Spec

-----------------------------------------------------------------------------
\* The caller's memory after k bytes have been read.
Memory(k) == [i \in 0..(MaxLen - 1) |-> IF i < k THEN job.offset + i + 1 ELSE 0]

ReadInvariant ==
    pc = "loop" /\ job.kind = "get" =>
        /\ raw \in Nat /\ len \in Nat
        /\ offset = job.offset + raw /\ raw + len = job.len
        /\ memory = Memory(raw)

\* As long as nobody changes the file, what is left of it in file_len is what
\* is left to be read, and in the loop also what has been read last.
FileLength ==
    pc \in {"check", "read", "loop"} /\ job.kind = "file" /\ ~touched =>
        file_len = IF pc = "loop" THEN avail + count ELSE avail

CompleteInvariant ==
    /\ pc # "idle" => result = "none"
    /\ ReadInvariant
    /\ FileLength
    /\ SuccessIsComplete

LEMMA CompleteInit == Init => CompleteInvariant
BY DEF Init, CompleteInvariant, ReadInvariant, FileLength, SuccessIsComplete

\* Reading the next chunk fills the memory further by the chunk.
LEMMA ReadOn ==
    ASSUME job.offset \in Nat, raw \in Nat, len \in Nat,
           offset = job.offset + raw, memory = Memory(raw), GetChunk
    PROVE  memory' = Memory(raw + chunk)
<1> DEFINE n == chunk
<1>1. n \in Nat /\ raw + n \in Nat
  BY ChunkBounds
<1>2. memory' = [i \in 0..(MaxLen - 1) |->
                  IF i \in raw..(raw + n - 1) THEN offset + (i - raw) + 1 ELSE memory[i]]
  BY DEF GetChunk, Memory
<1> HIDE DEF n
<1>3. ASSUME NEW i \in 0..(MaxLen - 1)
      PROVE  (IF i \in raw..(raw + n - 1) THEN offset + (i - raw) + 1 ELSE memory[i])
           = (IF i < raw + n THEN job.offset + i + 1 ELSE 0)
  <2>1. i \in Nat
    BY SizesNat
  <2>2. memory[i] = IF i < raw THEN job.offset + i + 1 ELSE 0
    BY DEF Memory
  <2> QED BY <1>1, <2>1, <2>2
<1> QED BY <1>2, <1>3 DEF Memory, n

LEMMA CompleteStep == WriteInvariant /\ CompleteInvariant /\ [Next]_vars => CompleteInvariant'
<1> SUFFICES ASSUME WriteInvariant, CompleteInvariant, [Next]_vars PROVE CompleteInvariant'
  OBVIOUS
<1>j. /\ job.offset \in Nat /\ job.len \in Nat /\ job.len <= MaxLen
      /\ job.kind \in {"set", "get", "file"}
  BY SizesNat DEF WriteInvariant, Job, Rows
<1>p. job' = job => \A k : Memory(k)' = Memory(k) /\ Prefix(k)' = Prefix(k)
  BY DEF Memory, Prefix
<1>1. ASSUME NEW j \in Job, Begin(j) PROVE CompleteInvariant'
  <2>1. /\ job' = j /\ j.offset \in Nat /\ j.len \in Nat /\ j.kind \in {"set", "get", "file"}
        /\ result' = "none"
    BY <1>1, SizesNat DEF Begin, Job, Rows
  <2>2. memory' = Memory(0)'
    BY <1>1, SizesNat DEF Begin, Unread, Memory
  <2>3. ReadInvariant'
    BY <1>1, <2>1, <2>2 DEF Begin, ReadInvariant
  <2>4. FileLength'
    BY <1>1, <2>1 DEF Begin, FileLength
  <2> QED BY <2>1, <2>3, <2>4 DEF CompleteInvariant, SuccessIsComplete
<1>2. CASE CheckFile
  BY <1>2 DEF CheckFile, End, WriteInvariant, CompleteInvariant, ReadInvariant, FileLength, SuccessIsComplete
<1>3. CASE ReadFile
  <2>1. job.kind = "file" /\ avail \in Nat /\ xfer_len \in Nat
    BY <1>3, TransferLength DEF ReadFile, WriteInvariant, FileInvariant
  <2>2. count' \in Nat /\ avail' = avail - count'
    BY <1>3, <2>1 DEF ReadFile, AtMost
  <2> QED BY <1>3, <2>1, <2>2
      DEF ReadFile, CompleteInvariant, ReadInvariant, FileLength, SuccessIsComplete
<1>4. CASE FileDone
  <2>1. ~touched => fpos = job.len
    BY <1>4, <1>j DEF FileDone, WriteInvariant, FileInvariant, CompleteInvariant, FileLength
  <2>2. job.kind = "file" /\ table = Prefix(fpos)
    BY <1>4 DEF FileDone, WriteInvariant, FileInvariant, InPlace
  <2> QED BY <1>4, <1>p, <2>1, <2>2
      DEF FileDone, End, CompleteInvariant, ReadInvariant, FileLength, SuccessIsComplete
<1>5. CASE Kill \/ ChunkFails
  BY <1>5 DEF Kill, ChunkFails, End, CompleteInvariant, ReadInvariant, FileLength, SuccessIsComplete
<1>6. CASE SetChunk
  BY <1>6 DEF SetChunk, fileVars, CompleteInvariant, ReadInvariant, FileLength, SuccessIsComplete
<1>7. CASE GetChunk
  <2>1. /\ raw \in Nat /\ len \in Nat /\ offset = job.offset + raw /\ raw + len = job.len
        /\ memory = Memory(raw)
    BY <1>7 DEF GetChunk, CompleteInvariant, ReadInvariant
  <2>2. chunk \in Nat /\ chunk <= len
    BY <2>1, ChunkBounds
  <2>3. /\ raw' = raw + chunk /\ offset' = job.offset + raw' /\ len' = len - chunk
        /\ raw' \in Nat /\ len' \in Nat /\ raw' + len' = job.len
    BY <1>7, <1>j, <2>1, <2>2 DEF GetChunk, Advance
  <2>4. memory' = Memory(raw')
    BY <1>7, <1>j, <2>1, <2>3, ReadOn
  <2>5. job' = job /\ pc' = "loop" /\ job.kind = "get" /\ result' = "none"
    BY <1>7 DEF GetChunk, CompleteInvariant
  <2>6. memory' = Memory(raw)'
    BY <2>4, <2>5 DEF Memory
  <2> QED BY <2>3, <2>5, <2>6 DEF CompleteInvariant, ReadInvariant, FileLength, SuccessIsComplete
<1>8. CASE LoopDone
  <2>1. CASE job.kind = "file"
    <3>1. ~touched => file_len' = avail
      <4>1. ~touched => file_len - count = avail /\ avail \in Nat /\ avail < Word
        BY <1>8, <1>j, <2>1, SizesNat
        DEF LoopDone, WriteInvariant, FileInvariant, CompleteInvariant, FileLength
      <4>2. ~touched => avail % Word = avail
        BY <4>1, SizesNat
      <4> QED BY <1>8, <2>1, <4>1, <4>2 DEF LoopDone
    <3> QED BY <1>8, <2>1, <3>1
        DEF LoopDone, CompleteInvariant, ReadInvariant, FileLength, SuccessIsComplete
  <2>2. CASE job.kind = "set"
    <3>1. table = Prefix(job.len)
      BY <1>8, <1>j, <2>2 DEF LoopDone, WriteInvariant, SetInvariant, InPlace
    <3> QED BY <1>8, <1>p, <2>2, <3>1
        DEF LoopDone, End, CompleteInvariant, ReadInvariant, FileLength, SuccessIsComplete
  <2>3. CASE job.kind = "get"
    <3>1. memory = Memory(job.len)
      BY <1>8, <1>j, <2>3 DEF LoopDone, CompleteInvariant, ReadInvariant
    <3>2. memory' = Memory(job.len) /\ job' = job /\ pc' = "idle"
      BY <1>8, <2>3, <3>1 DEF LoopDone, End
    <3>3. SuccessIsComplete'
      BY <2>3, <3>2 DEF SuccessIsComplete, Memory
    <3> QED BY <3>2, <3>3 DEF CompleteInvariant, ReadInvariant, FileLength
  <2> QED BY <1>j, <2>1, <2>2, <2>3
<1>9. CASE FileChanges
  BY <1>9 DEF FileChanges, loopVars, CompleteInvariant, ReadInvariant, FileLength, SuccessIsComplete
<1>10. CASE UNCHANGED vars
  BY <1>10, <1>p DEF vars, loopVars, fileVars, CompleteInvariant, ReadInvariant, FileLength,
                     SuccessIsComplete
<1> QED BY <1>1, <1>2, <1>3, <1>4, <1>5, <1>6, <1>7, <1>8, <1>9, <1>10 DEF Next, Host

\* A transfer that returns without an exception is complete.
THEOREM Complete == Spec => []SuccessIsComplete
<1>1. CompleteInvariant => SuccessIsComplete
  BY DEF CompleteInvariant
<1>2. Spec => []WriteInvariant
  BY WriteInit, WriteStep, PTL DEF Spec
<1>3. Spec => []CompleteInvariant
  BY <1>2, CompleteInit, CompleteStep, PTL DEF Spec
<1> QED BY <1>1, <1>3, PTL

-----------------------------------------------------------------------------
\* Whole granules: what a file transfer has read is whole granules, unless the
\* file is at its end; what it reads at once is written by one call.
GranuleInvariant ==
    /\ pc = "check" => fpos = 0
    /\ pc \in {"read", "loop"} /\ job.kind = "file" => optimal <= max_token
    /\ pc \in {"read", "loop"} /\ job.kind = "file" /\ ~touched =>
         (avail = 0 \/ fpos % optimal = 0)
    /\ pc = "loop" /\ job.kind = "file" /\ ~touched =>
        /\ len <= max_token
        /\ len > 0 => raw % optimal = 0
        /\ avail = 0 \/ len % optimal = 0

\* Of division: what is left, and sums and products of whole granules.
LEMMA Division ==
    ASSUME NEW o \in Nat \ {0}, NEW a \in Nat
    PROVE  a = (o * (a \div o)) + (a % o)
BY SMTT(60)

LEMMA Granules ==
    ASSUME NEW o \in Nat \ {0}, NEW a \in Nat
    PROVE  /\ 0 % o = 0
           /\ (a \div o) * o \in Nat /\ (a \div o) * o <= a /\ ((a \div o) * o) % o = 0
<1>1. a \div o \in Nat /\ a % o \in Nat
  OBVIOUS
<1>2. (a \div o) * o \in Nat /\ (a \div o) * o <= a
  BY <1>1, Division
<1>3. \A k \in Nat : (k * o) % o = 0
  OBVIOUS
<1>4. 0 % o = 0
  OBVIOUS
<1> QED BY <1>1, <1>2, <1>3, <1>4

LEMMA GranulesAdd ==
    ASSUME NEW o \in Nat \ {0}, NEW a \in Nat, NEW b \in Nat, a % o = 0, b % o = 0
    PROVE  (a + b) % o = 0
<1>1. a = o * (a \div o) /\ b = o * (b \div o)
  BY Division
<1>2. a \div o \in Nat /\ b \div o \in Nat
  OBVIOUS
<1>3. PICK k \in Nat : a + b = k * o
  <2>1. (a \div o) + (b \div o) \in Nat /\ a + b = ((a \div o) + (b \div o)) * o
    BY <1>1, <1>2
  <2> QED BY <2>1
<1>4. \A q \in Nat : (q * o) % o = 0
  OBVIOUS
<1> QED BY <1>3, <1>4

LEMMA GranuleStep == WriteInvariant /\ GranuleInvariant /\ [Next]_vars => GranuleInvariant'
<1> SUFFICES ASSUME WriteInvariant, GranuleInvariant, [Next]_vars PROVE GranuleInvariant'
  OBVIOUS
<1> USE DEF GranuleInvariant
<1>1. ASSUME NEW j \in Job, Begin(j) PROVE GranuleInvariant'
  BY <1>1 DEF Begin, Job
<1>2. CASE CheckFile
  <2>1. CASE pc' = "read"
    <3>1. optimal' \in Nat \ {0} /\ optimal' <= max_token /\ fpos' = 0
      <4>1. fpos' = 0 /\ optimal' \in Granularities /\ optimal' # 0 /\ ~(optimal' > max_token)
        BY <1>2, <2>1 DEF CheckFile, End
      <4> QED BY <4>1, SizesNat
    <3>2. \A o \in Nat \ {0} : 0 % o = 0
      OBVIOUS
    <3> QED BY <2>1, <3>1, <3>2
  <2>2. CASE pc' = "idle"
    BY <2>2
  <2> QED BY <1>2, <2>1, <2>2 DEF CheckFile, End
<1>3. CASE ReadFile
  <2>1. /\ pc = "read" /\ pc' = "loop" /\ avail # 0 /\ job.kind = "file"
        /\ count' = AtMost(xfer_len, avail) /\ len' = count' /\ raw' = fpos
        /\ fpos' = fpos + count' /\ avail' = avail - count'
        /\ UNCHANGED <<job, optimal, touched>>
    BY <1>3 DEF ReadFile, WriteInvariant
  <2>2. optimal \in Nat \ {0} /\ max_token \in Nat /\ fpos \in Nat /\ avail \in Nat
    BY <2>1, SizesNat DEF WriteInvariant, FileInvariant
  <2>3. xfer_len \in Nat /\ xfer_len <= max_token /\ xfer_len % optimal = 0
    BY <2>2, Granules DEF xfer_len
  <2>4. CASE xfer_len < avail
    <3>1. count' = xfer_len
      BY <2>1, <2>4 DEF AtMost
    <3>2. ~touched => (fpos + xfer_len) % optimal = 0
      BY <2>1, <2>2, <2>3, GranulesAdd
    <3> QED BY <2>1, <2>3, <3>1, <3>2
  <2>5. CASE ~(xfer_len < avail)
    <3>1. count' = avail /\ avail <= max_token /\ avail' = 0
      BY <2>1, <2>2, <2>3, <2>5 DEF AtMost
    <3> QED BY <2>1, <3>1
  <2> QED BY <2>4, <2>5
<1>4. CASE SetChunk
  <2>1. /\ pc = "loop" /\ len > 0 /\ len' = len - chunk
        /\ UNCHANGED <<pc, job, optimal, fpos, avail, touched>>
    BY <1>4 DEF SetChunk, Advance, fileVars
  <2>2. SUFFICES ASSUME job.kind = "file" PROVE GranuleInvariant'
    BY <2>1
  <2>3. optimal \in Nat \ {0} /\ len \in Nat
    BY <2>1, <2>2, SizesNat DEF WriteInvariant, FileInvariant
  <2>4. ~touched => len' = 0
    BY <2>1, <2>2, <2>3, SizesNat DEF chunk, AtMost
  <2>5. 0 % optimal = 0
    BY <2>3
  <2>6. max_token \in Nat
    BY SizesNat
  <2> QED BY <2>1, <2>4, <2>5, <2>6
<1>5. CASE GetChunk
  BY <1>5 DEF GetChunk, fileVars
<1>6. CASE LoopDone
  BY <1>6 DEF LoopDone, End
<1>7. CASE FileDone \/ ChunkFails \/ Kill
  BY <1>7 DEF FileDone, ChunkFails, Kill, End
<1>8. CASE FileChanges
  BY <1>8 DEF FileChanges, loopVars
<1>9. CASE UNCHANGED vars
  BY <1>9 DEF vars, loopVars, fileVars
<1> QED BY <1>1, <1>2, <1>3, <1>4, <1>5, <1>6, <1>7, <1>8, <1>9 DEF Next, Host

\* A call that writes begins on a granule, and ends on one or with the file.
LEMMA GranularStep ==
    ASSUME WriteInvariant, GranuleInvariant, [Next]_vars,
           pc = "loop", job.kind = "file", table' # table, ~touched, job.offset % optimal = 0
    PROVE  /\ offset % optimal = 0
           /\ chunk % optimal = 0 \/ offset + chunk = job.offset + job.len
<1>1. len > 0
  BY DEF Next, Host, CheckFile, ReadFile, FileDone, SetChunk, GetChunk, LoopDone, ChunkFails,
         FileChanges, Kill, Begin, vars
<1>2. /\ optimal \in Nat \ {0} /\ raw \in Nat /\ len \in Nat /\ job.offset \in Nat
      /\ job.len \in Nat /\ fpos \in Nat /\ avail \in Nat
      /\ fpos + avail = job.len /\ offset = job.offset + raw /\ raw + len = fpos
  BY SizesNat DEF WriteInvariant, FileInvariant, Job, Rows
<1>3. raw % optimal = 0 /\ (avail = 0 \/ len % optimal = 0) /\ chunk = len
  BY <1>1, <1>2, SizesNat DEF GranuleInvariant, chunk, AtMost
<1>4. offset % optimal = 0
  BY <1>2, <1>3, GranulesAdd
<1>5. avail = 0 => offset + chunk = job.offset + job.len
  <2>1. chunk = len
    BY <1>3
  <2> QED BY <1>2, <2>1
<1> QED BY <1>3, <1>4, <1>5

\* From an aligned start, the calls that write a file respect the granularity.
THEOREM WholeGranules == Spec => GranularWrites
<1>1. Init => GranuleInvariant
  BY DEF Init, GranuleInvariant
<1>2. Spec => []WriteInvariant
  BY WriteInit, WriteStep, PTL DEF Spec
<1>3. WriteInvariant /\ GranuleInvariant /\ [Next]_vars =>
        [pc = "loop" /\ job.kind = "file" /\ table' # table /\ ~touched
            /\ job.offset % optimal = 0 =>
          /\ offset % optimal = 0
          /\ chunk % optimal = 0 \/ offset + chunk = job.offset + job.len]_vars
  BY GranularStep
<1> QED BY <1>1, <1>2, <1>3, GranuleStep, PTL DEF Spec, GranularWrites

-----------------------------------------------------------------------------
\* The DataStore: pieces of its table.

Cells == 0..(Base - 1)

\* A piece is a sequence, and two that touch make one.
LEMMA RowIsSequence ==
    ASSUME NEW S, \A r \in Int : store[r] \in S, NEW from \in Int, NEW n \in Nat
    PROVE  /\ D!Row(from, n) \in Seq(S) /\ Len(D!Row(from, n)) = n
           /\ \A i \in 1..n : D!Row(from, n)[i] = store[from + i - 1]
  <1>1. D!Row(from, n) = [i \in 1..n |-> store[from + i - 1]]
    BY DEF D!Row
  <1>2. \A i \in 1..n : store[from + i - 1] \in S
    OBVIOUS
  <1> QED
    BY <1>1, <1>2

LEMMA RowsTouch ==
    ASSUME NEW from \in Int, NEW m \in Nat, NEW n \in Nat
    PROVE  D!Row(from, m) \o D!Row(from + m, n) = D!Row(from, m + n)
  <1>1. PICK S : \A r \in Int : store[r] \in S
    <2>1. \A r \in Int : store[r] \in {store[q] : q \in Int}
      OBVIOUS
    <2> QED
      BY <2>1
  <1> DEFINE a == D!Row(from, m)
             b == D!Row(from + m, n)
             c == D!Row(from, m + n)
  <1>2. a \in Seq(S) /\ Len(a) = m /\ \A i \in 1..m : a[i] = store[from + i - 1]
    BY <1>1, RowIsSequence
  <1>3. b \in Seq(S) /\ Len(b) = n /\ \A i \in 1..n : b[i] = store[(from + m) + i - 1]
    <2>1. from + m \in Int
      OBVIOUS
    <2> QED
      BY <1>1, <2>1, RowIsSequence
  <1>4. c \in Seq(S) /\ Len(c) = m + n /\ \A i \in 1..(m + n) : c[i] = store[from + i - 1]
    <2>1. m + n \in Nat
      OBVIOUS
    <2> QED
      BY <1>1, <2>1, RowIsSequence
  <1> HIDE DEF a, b, c
  <1> DEFINE ab == a \o b
  <1>5. /\ ab \in Seq(S) /\ Len(ab) = m + n
        /\ \A i \in 1..(m + n) : ab[i] = IF i <= m THEN a[i] ELSE b[i - m]
    BY <1>2, <1>3, ConcatProperties
  <1> HIDE DEF ab
  <1>6. ASSUME NEW i \in 1..(m + n)
        PROVE  ab[i] = c[i]
    <2>1. CASE i =< m
      BY <1>2, <1>4, <1>5, <2>1
    <2>2. CASE i > m
      <3>1. i - m \in 1..n /\ (from + m) + (i - m) - 1 = from + i - 1
        BY <2>2
      <3> QED
        <4>1. b[i - m] = store[from + i - 1]
          BY <1>3, <3>1
        <4> QED
          BY <1>4, <1>5, <2>2, <4>1
    <2> QED
      BY <2>1, <2>2
  <1>7. ab = c
    BY <1>4, <1>5, <1>6, SeqEqual
  <1> QED
    BY <1>7 DEF a, b, c, ab

\* Putting a source in the table: its piece is there, the others are as before.
LEMMA PutKnown ==
    ASSUME NEW offs \in Nat, NEW source, NEW k \in Nat, offs + k =< Size,
           \A i \in 1..k : source[i] \in Cells, Size \in Nat,
           store \in [0..(Size - 1) -> Cells]
    PROVE  /\ D!Put(offs, source, k) \in [0..(Size - 1) -> Cells]
           /\ \A i \in 1..k : D!Put(offs, source, k)[offs + i - 1] = source[i]
           /\ \A r \in 0..(Size - 1) : r < offs => D!Put(offs, source, k)[r] = store[r]
  <1> DEFINE p == D!Put(offs, source, k)
  <1>1. p = [r \in 0..(Size - 1) |->
               IF r \in offs..(offs + k - 1) THEN source[r - offs + 1] ELSE store[r]]
    BY DEF D!Put
  <1>2. ASSUME NEW r \in 0..(Size - 1), r \in offs..(offs + k - 1)
        PROVE  source[r - offs + 1] \in Cells
    <2>1. r - offs + 1 \in 1..k
      BY <1>2
    <2> QED
      BY <2>1
  <1>3. p \in [0..(Size - 1) -> Cells]
    BY <1>1, <1>2
  <1>4. ASSUME NEW i \in 1..k
        PROVE  p[offs + i - 1] = source[i]
    <2>1. offs + i - 1 \in 0..(Size - 1) /\ offs + i - 1 \in offs..(offs + k - 1)
          /\ (offs + i - 1) - offs + 1 = i
      OBVIOUS
    <2> QED
      BY <1>1, <2>1
  <1>5. ASSUME NEW r \in 0..(Size - 1), r < offs
        PROVE  p[r] = store[r]
    BY <1>1, <1>5
  <1> QED
    BY <1>3, <1>4, <1>5

\* What is assumed of the sizes, and the digits of a length.
LEMMA Sizes ==
    /\ Size \in Nat /\ WriteHeader \in Nat /\ WriteHeader =< Size
    /\ ReadHeader \in Nat /\ ReadHeader =< Size
    /\ Limit \in Nat /\ Chunk \in Nat /\ Chunk > 0 /\ Base \in Nat /\ Base > 0
    /\ Files \subseteq Seq(Cells)
    /\ Base^WriteHeader \in Nat /\ Base^WriteHeader > Size
  <1>1. WriteHeader \in 0..WriteHeader
    BY StoreFits DEF D!Fits
  <1> QED
    BY <1>1, StoreFits DEF D!Fits, D!HeaderHoldsSize, Cells

LEMMA DigitsKnown ==
    ASSUME NEW n \in Nat
    PROVE  /\ D!Digits(n, WriteHeader) = [i \in 1..WriteHeader |-> D!Digits(n, WriteHeader)[i]]
           /\ \A i \in 1..WriteHeader : D!Digits(n, WriteHeader)[i] \in Cells
  <1>1. D!Digits(n, WriteHeader) = [i \in 1..WriteHeader |-> (n \div Base^(i - 1)) % Base]
    BY DEF D!Digits
  <1>2. ASSUME NEW i \in 1..WriteHeader
        PROVE  (n \div Base^(i - 1)) % Base \in Cells
    <2>1. i - 1 \in 0..WriteHeader
      BY Sizes
    <2>2. Base^(i - 1) \in Nat \ {0}
      BY <2>1, StoreFits DEF D!Fits
    <2>3. n \div Base^(i - 1) \in Nat
      BY <2>2
    <2> QED
      BY <2>3, Sizes DEF Cells
  <1> QED
    BY <1>1, <1>2

-----------------------------------------------------------------------------
\* The inductive invariant of the DataStore.  ds_load: what is measured is the
\* file, and what is written before the file is the length that was measured.
StoreTypes ==
    /\ step \in {"off", "ace", "measure", "header", "data", "length", "chunks"}
    /\ file \in Files /\ stored_len \in Nat /\ file_offset \in Nat
    /\ store \in [0..(Size - 1) -> Cells]
    /\ stored = D!Nothing \/ stored \in Seq(Cells)

Loading ==
    /\ step \in {"measure", "header", "data"} => anybody
    /\ step \in {"header", "data"} /\ ~changed => stored_len = Len(file) % Base^WriteHeader
    /\ step = "data" => D!Row(0, WriteHeader) = D!Digits(stored_len, WriteHeader)

\* ds_read: what is printed is a piece of the table.
Printed == AtMost(file_offset, stored_len)

Reading ==
    /\ step # "off" => outcome = "none"
    /\ step = "length" => output = << >> /\ file_offset = 0
    /\ step = "chunks" => output = D!Row(ReadHeader, Printed)

StoreInvariant ==
    StoreTypes /\ Loading /\ Reading /\ HoldsWhatWasStored /\ ReadsInOnePiece

\* What the table holds depends on the table alone.
LEMMA SameRows ==
    ASSUME store' = store
    PROVE  \A from, n : D!Row(from, n)' = D!Row(from, n)
  BY DEF D!Row

LEMMA EmptyRow == ASSUME NEW from PROVE D!Row(from, 0) = << >>
  <1>1. D!Row(from, 0) = [i \in 1..0 |-> store[from + i - 1]]
    BY DEF D!Row
  <1>2. \A i : i \notin 1..0
    OBVIOUS
  <1> QED
    BY <1>1, <1>2

LEMMA StoreInit == D!Init => StoreInvariant
  <1> SUFFICES ASSUME D!Init PROVE StoreInvariant
    OBVIOUS
  <1>1. 0 \in Cells
    BY Sizes DEF Cells
  <1>2. StoreTypes
    BY <1>1 DEF D!Init, StoreTypes
  <1> QED
    BY <1>2 DEF D!Init, StoreInvariant, Loading, Reading, HoldsWhatWasStored, ReadsInOnePiece,
                D!HoldsWhatWasStored, D!ReadsInOnePiece

\* Steps that leave the table alone keep what it holds.
LEMMA HeldStill ==
    ASSUME StoreInvariant, UNCHANGED <<store, stored>>, anybody => anybody'
    PROVE  HoldsWhatWasStored'
  <1>1. \A from, n : D!Row(from, n)' = D!Row(from, n)
    BY SameRows
  <1>2. D!Row(0, WriteHeader)' = D!Row(0, WriteHeader)
    BY <1>1
  <1>3. D!Number(D!Row(0, WriteHeader))' = D!Number(D!Row(0, WriteHeader))
    BY <1>2
  <1>4. D!Row(WriteHeader, Len(stored))' = D!Row(WriteHeader, Len(stored))
    BY <1>1
  <1> QED
    BY <1>3, <1>4 DEF StoreInvariant, HoldsWhatWasStored, D!HoldsWhatWasStored, D!Nothing

\* The steps that do not write, each of which reads or prints or moves on.
LEMMA QuietStep ==
    ASSUME StoreInvariant,
           \/ D!Begin("ace") \/ D!Begin("length") \/ D!SetAce \/ D!Measure \/ D!GetLength
           \/ D!GetChunk \/ D!ReadDone \/ D!GetFails \/ D!FileChanges \/ D!Kill
           \/ UNCHANGED svars
    PROVE  StoreInvariant'
  <1>1. UNCHANGED <<store, stored>> /\ (anybody => anybody')
    BY DEF D!Begin, D!SetAce, D!Measure, D!GetLength, D!GetChunk, D!ReadDone, D!GetFails,
           D!FileChanges, D!Kill, svars, D!tool, D!End
  <1>2. HoldsWhatWasStored'
    BY <1>1, HeldStill
  <1>3. \A from, n : D!Row(from, n)' = D!Row(from, n)
    BY <1>1, SameRows
  <1>4. ReadsInOnePiece <=> (outcome = "read" => output = D!Row(ReadHeader, stored_len))
    BY DEF ReadsInOnePiece, D!ReadsInOnePiece
  <1>5. ReadsInOnePiece' <=> (outcome' = "read" => output' = D!Row(ReadHeader, stored_len'))
    BY <1>1 DEF ReadsInOnePiece, D!ReadsInOnePiece, D!Row
  <1>6. (D!Row(0, WriteHeader) = D!Digits(stored_len, WriteHeader))' <=>
          D!Row(0, WriteHeader) = D!Digits(stored_len', WriteHeader)
    BY <1>1 DEF D!Row, D!Digits
  <1>7. (output = D!Row(ReadHeader, Printed))' <=>
          output' = D!Row(ReadHeader, AtMost(file_offset', stored_len'))
    BY <1>1 DEF D!Row, Printed, AtMost
  <1>8. StoreTypes' <=> /\ step' \in {"off", "ace", "measure", "header", "data", "length", "chunks"}
                        /\ file' \in Files /\ stored_len' \in Nat /\ file_offset' \in Nat
    BY <1>1 DEF StoreInvariant, StoreTypes, D!Nothing
  <1> USE DEF StoreInvariant, Loading, Reading
  <1>9. CASE D!Begin("ace") \/ D!Begin("length")
    <2>1. AtMost(0, 0) = 0 /\ D!Row(ReadHeader, 0) = << >>
      BY EmptyRow DEF AtMost
    <2> QED
      BY <1>2, <1>5, <1>6, <1>7, <1>8, <1>9, <2>1 DEF D!Begin, StoreTypes
  <1>10. CASE D!SetAce
    BY <1>2, <1>4, <1>5, <1>6, <1>7, <1>8, <1>10 DEF D!SetAce, StoreTypes
  <1>11. CASE D!Measure
    <2>1. Len(file) % Base^WriteHeader \in Nat
      <3>1. Len(file) \in Nat
        BY Sizes DEF StoreTypes
      <3>2. Base^WriteHeader \in Nat /\ Base^WriteHeader > 0
        BY Sizes
      <3> QED
        BY <3>1, <3>2
    <2>2. step = "measure" /\ outcome = "none"
      BY <1>11 DEF D!Measure
    <2> QED
      BY <1>2, <1>5, <1>6, <1>7, <1>8, <1>11, <2>1, <2>2 DEF D!Measure, StoreTypes
  <1>12. CASE D!GetLength
    <2>1. stored_len' \in Nat
      <3>1. D!Row(0, ReadHeader) \in [1..ReadHeader -> Cells]
        BY Sizes DEF D!Row, StoreTypes
      <3>2. D!Number(D!Row(0, ReadHeader)) \in Nat
        BY <3>1, StoreFits DEF D!Fits, Cells
      <3> QED
        BY <1>12, <3>2 DEF D!GetLength
    <2>2. AtMost(0, stored_len') = 0 /\ D!Row(ReadHeader, 0) = << >>
      BY <2>1, EmptyRow DEF AtMost
    <2>3. /\ step = "length" /\ outcome = "none"
          /\ \/ step' = "off" /\ outcome' = "exception"
             \/ step' = "chunks" /\ outcome' = "none"
          /\ UNCHANGED <<file_offset, output, file>>
      BY <1>12 DEF D!GetLength, D!End
    <2> QED
      BY <1>2, <1>5, <1>7, <1>8, <2>1, <2>2, <2>3 DEF StoreTypes
  <1>13. CASE D!GetChunk
    <2>1. /\ step = "chunks" /\ step' = "chunks" /\ outcome = "none" /\ outcome' = "none"
          /\ file_offset < stored_len
          /\ output' = output \o D!Row(file_offset + ReadHeader, D!read_size)
          /\ file_offset' = file_offset + Chunk
          /\ UNCHANGED <<stored_len, file>>
      BY <1>13 DEF D!GetChunk
    <2>2. /\ stored_len \in Nat /\ file_offset \in Nat /\ Chunk \in Nat /\ ReadHeader \in Nat
      BY Sizes DEF StoreTypes
    <2>3. D!read_size \in Nat
          /\ file_offset + D!read_size = AtMost(file_offset + Chunk, stored_len)
      BY <2>1, <2>2 DEF D!read_size, AtMost
    <2>4. output = D!Row(ReadHeader, file_offset)
      BY <2>1, <2>2 DEF Printed, AtMost
    <2>5. file_offset + ReadHeader = ReadHeader + file_offset /\ ReadHeader \in Int
      BY <2>2
    <2>6. D!Row(ReadHeader, file_offset) \o D!Row(ReadHeader + file_offset, D!read_size)
            = D!Row(ReadHeader, file_offset + D!read_size)
      BY <2>2, <2>3, <2>5, RowsTouch
    <2>7. output' = D!Row(ReadHeader, AtMost(file_offset', stored_len'))
      BY <2>1, <2>3, <2>4, <2>5, <2>6
    <2>8. file_offset' \in Nat /\ stored_len' \in Nat
      BY <2>1, <2>2
    <2> QED
      BY <1>2, <1>5, <1>7, <1>8, <2>1, <2>7, <2>8 DEF StoreTypes
  <1>14. CASE D!ReadDone
    <2>1. /\ step = "chunks" /\ file_offset >= stored_len /\ step' = "off"
          /\ UNCHANGED <<file_offset, stored_len, output, file>>
      BY <1>14 DEF D!ReadDone, D!End
    <2>2. Printed = stored_len
      BY <2>1 DEF Printed, AtMost, StoreTypes
    <2> QED
      BY <1>2, <1>5, <1>8, <2>1, <2>2 DEF StoreTypes
  <1>15. CASE D!GetFails \/ D!Kill
    BY <1>2, <1>5, <1>8, <1>15 DEF D!GetFails, D!Kill, D!End, StoreTypes
  <1>16. CASE D!FileChanges
    BY <1>2, <1>4, <1>5, <1>6, <1>7, <1>8, <1>16 DEF D!FileChanges, D!tool, StoreTypes, Printed
  <1>17. CASE UNCHANGED svars
    BY <1>2, <1>4, <1>5, <1>6, <1>7, <1>8, <1>17 DEF svars, StoreTypes, Printed
  <1> QED
    BY <1>9, <1>10, <1>11, <1>12, <1>13, <1>14, <1>15, <1>16, <1>17

\* Steps of ds_load that write keep the types; they are no part of ds_read.
LEMMA WritingTypes ==
    ASSUME StoreInvariant, NEW offs \in Nat, NEW source, NEW k \in Nat, offs + k =< Size,
           \A i \in 1..k : source[i] \in Cells,
           store' = D!Put(offs, source, k), file' = file, stored_len' = stored_len,
           file_offset' = file_offset,
           stored' \in {stored, file, D!Nothing},
           step' \in {"off", "data"}, outcome' # "read"
    PROVE  StoreTypes' /\ ReadsInOnePiece' /\ (step' = "off" => Loading' /\ Reading')
  <1>1. store' \in [0..(Size - 1) -> Cells]
    BY Sizes, PutKnown DEF StoreInvariant, StoreTypes
  <1>2. file \in Seq(Cells)
    BY Sizes DEF StoreInvariant, StoreTypes
  <1>3. StoreTypes'
    BY <1>1, <1>2 DEF StoreInvariant, StoreTypes, D!Nothing
  <1>4. ReadsInOnePiece'
    BY DEF ReadsInOnePiece, D!ReadsInOnePiece
  <1> QED
    BY <1>3, <1>4 DEF Loading, Reading

\* The header holds the length that was measured.
LEMMA HeaderStep == StoreInvariant /\ D!PutHeader => StoreInvariant'
  <1> SUFFICES ASSUME StoreInvariant, D!PutHeader PROVE StoreInvariant'
    OBVIOUS
  <1> DEFINE digits == D!Digits(stored_len, WriteHeader)
  <1>1. /\ step = "header" /\ step' = "data" /\ store' = D!Put(0, digits, WriteHeader)
        /\ stored' = D!Nothing
        /\ UNCHANGED <<stored_len, file_offset, output, outcome, file, anybody, changed>>
    BY DEF D!PutHeader
  <1>2. stored_len \in Nat /\ store \in [0..(Size - 1) -> Cells] /\ outcome = "none" /\ anybody
    BY <1>1 DEF StoreInvariant, StoreTypes, Reading, Loading
  <1>3. /\ digits = [i \in 1..WriteHeader |-> digits[i]]
        /\ \A i \in 1..WriteHeader : digits[i] \in Cells
    BY <1>2, DigitsKnown
  <1> HIDE DEF digits
  <1>4. WriteHeader \in Nat /\ Size \in Nat /\ 0 + WriteHeader =< Size /\ 0 \in Nat
    BY Sizes
  <1>5. \A i \in 1..WriteHeader : store'[0 + i - 1] = digits[i]
    <2>1. \A i \in 1..WriteHeader : D!Put(0, digits, WriteHeader)[0 + i - 1] = digits[i]
      <3>1. PICK z \in Nat : z = 0
        OBVIOUS
      <3>2. z + WriteHeader =< Size
        BY <1>4, <3>1
      <3>3. \A i \in 1..WriteHeader : D!Put(z, digits, WriteHeader)[z + i - 1] = digits[i]
        BY <1>2, <1>3, <1>4, <3>2, PutKnown
      <3> QED
        BY <3>1, <3>3
    <2> QED
      BY <1>1, <2>1
  <1>6. D!Row(0, WriteHeader)' = [i \in 1..WriteHeader |-> store'[0 + i - 1]]
    BY DEF D!Row
  <1>7. D!Row(0, WriteHeader)' = digits
    BY <1>3, <1>5, <1>6
  <1>8. Loading'
    BY <1>1, <1>2, <1>7 DEF StoreInvariant, Loading, digits, D!Digits
  <1>9. StoreTypes' /\ ReadsInOnePiece'
    BY <1>1, <1>2, <1>3, <1>4, WritingTypes
  <1>10. Reading' /\ HoldsWhatWasStored'
    BY <1>1, <1>2 DEF Reading, HoldsWhatWasStored, D!HoldsWhatWasStored, D!Nothing
  <1> QED
    BY <1>8, <1>9, <1>10 DEF StoreInvariant

\* The file goes behind the header.
LEMMA FileFits ==
    ASSUME StoreInvariant, ~D!TooLarge
    PROVE  /\ D!DataOffset = WriteHeader /\ WriteHeader \in Nat /\ file \in Seq(Cells)
           /\ Len(file) \in Nat /\ WriteHeader + Len(file) =< Size
           /\ \A i \in 1..Len(file) : file[i] \in Cells
  BY Sizes DEF StoreInvariant, StoreTypes, D!TooLarge, D!DataOffset

LEMMA DataStep == StoreInvariant /\ D!PutData => StoreInvariant'
  <1> SUFFICES ASSUME StoreInvariant, D!PutData PROVE StoreInvariant'
    OBVIOUS
  <1>1. /\ step = "data" /\ ~D!TooLarge /\ step' = "off" /\ outcome' = "loaded"
        /\ store' = D!Put(D!DataOffset, file, Len(file))
        /\ stored' = IF changed THEN D!Nothing ELSE file
        /\ UNCHANGED <<stored_len, file_offset, output, file, anybody, changed>>
    BY DEF D!PutData, D!End
  <1>2. /\ D!DataOffset = WriteHeader /\ WriteHeader \in Nat /\ file \in Seq(Cells)
        /\ Len(file) \in Nat /\ WriteHeader + Len(file) =< Size
        /\ \A i \in 1..Len(file) : file[i] \in Cells
    BY <1>1, FileFits
  <1>3. StoreTypes' /\ ReadsInOnePiece' /\ Loading' /\ Reading'
    BY <1>1, <1>2, WritingTypes
  <1>4. Size \in Nat /\ store \in [0..(Size - 1) -> Cells] /\ anybody
    BY <1>1, Sizes DEF StoreInvariant, StoreTypes, Loading
  <1>5. /\ \A i \in 1..Len(file) : store'[WriteHeader + i - 1] = file[i]
        /\ \A r \in 0..(Size - 1) : r < WriteHeader => store'[r] = store[r]
    BY <1>1, <1>2, <1>4, PutKnown
  <1>6. HoldsWhatWasStored'
    <2>1. SUFFICES ASSUME ~changed
                   PROVE  /\ D!Number(D!Row(0, WriteHeader)') = Len(file)
                          /\ D!Row(WriteHeader, Len(file))' = file
      BY <1>1, <1>4 DEF HoldsWhatWasStored, D!HoldsWhatWasStored, D!Nothing, D!Row
    <2>2. D!Row(0, WriteHeader)' = D!Row(0, WriteHeader)
      <3>1. ASSUME NEW i \in 1..WriteHeader
            PROVE  store'[0 + i - 1] = store[0 + i - 1]
        <4>1. 0 + i - 1 \in 0..(Size - 1) /\ 0 + i - 1 < WriteHeader
          BY <1>2, <1>4
        <4> QED
          BY <1>5, <4>1
      <3> QED
        BY <3>1 DEF D!Row
    <2>3. stored_len = Len(file)
      <3>1. stored_len = Len(file) % Base^WriteHeader
        BY <1>1, <2>1 DEF StoreInvariant, Loading
      <3>2. Base^WriteHeader \in Nat /\ Base^WriteHeader > Size
        BY Sizes
      <3>3. Len(file) =< Size
        BY <1>2, <1>4
      <3>4. \A b \in Nat : \A n \in 0..(b - 1) : n % b = n
        OBVIOUS
      <3>5. Len(file) \in 0..(Base^WriteHeader - 1)
        BY <1>2, <1>4, <3>2, <3>3
      <3> QED
        BY <3>1, <3>2, <3>4, <3>5
    <2>4. D!Row(0, WriteHeader) = D!Digits(Len(file), WriteHeader)
      BY <1>1, <2>3 DEF StoreInvariant, Loading
    <2>5. D!Number(D!Digits(Len(file), WriteHeader)) = Len(file)
      <3>1. Len(file) \in 0..Size
        BY <1>2, <1>4
      <3> QED
        BY <3>1, StoreFits DEF D!Fits, D!HeaderHoldsSize
    <2>6. D!Row(WriteHeader, Len(file))' = [i \in 1..Len(file) |-> store'[WriteHeader + i - 1]]
      BY <1>1 DEF D!Row
    <2>7. file = [i \in 1..Len(file) |-> file[i]]
      BY <1>2
    <2> QED
      BY <1>5, <2>2, <2>4, <2>5, <2>6, <2>7
  <1> QED
    BY <1>3, <1>6 DEF StoreInvariant

\* A call that throws: what was stored is gone with the first byte.
LEMMA FailedStep == StoreInvariant /\ D!TransferFails => StoreInvariant'
  <1> SUFFICES ASSUME StoreInvariant, D!TransferFails PROVE StoreInvariant'
    OBVIOUS
  <1>1. /\ step' = "off" /\ outcome' = "exception"
        /\ stored' = (IF store' = store THEN stored ELSE D!Nothing)
        /\ UNCHANGED <<stored_len, file_offset, output, file, changed>>
        /\ anybody => anybody'
    BY DEF D!TransferFails, D!End
  <1>2. HoldsWhatWasStored'
    <2>1. CASE store' = store
      BY <1>1, <2>1, HeldStill
    <2>2. CASE store' # store
      BY <1>1, <2>2 DEF HoldsWhatWasStored, D!HoldsWhatWasStored, D!Nothing
    <2> QED
      BY <2>1, <2>2
  <1>3. CASE store' = store
    BY <1>1, <1>2, <1>3 DEF StoreInvariant, StoreTypes, Loading, Reading, ReadsInOnePiece,
                            D!ReadsInOnePiece, D!Nothing
  <1>4. CASE step = "header"
    <2>1. PICK k \in 0..WriteHeader : store' = D!Put(0, D!Digits(stored_len, WriteHeader), k)
      BY <1>4 DEF D!TransferFails
    <2>2. k \in Nat /\ 0 + k =< Size /\ 0 \in Nat /\ k =< WriteHeader /\ WriteHeader \in Nat
      BY Sizes
    <2>3. \A i \in 1..k : D!Digits(stored_len, WriteHeader)[i] \in Cells
      <3>1. \A i \in 1..WriteHeader : D!Digits(stored_len, WriteHeader)[i] \in Cells
        BY DigitsKnown DEF StoreInvariant, StoreTypes
      <3> QED
        BY <2>2, <3>1
    <2>4. StoreTypes' /\ ReadsInOnePiece' /\ Loading' /\ Reading'
      BY <1>1, <2>1, <2>2, <2>3, WritingTypes
    <2> QED
      BY <1>2, <2>4 DEF StoreInvariant
  <1>5. CASE step = "data" /\ ~D!TooLarge
    <2>1. PICK k \in 0..Len(file) : store' = D!Put(D!DataOffset, file, k)
      BY <1>5 DEF D!TransferFails
    <2>2. /\ D!DataOffset = WriteHeader /\ WriteHeader \in Nat
          /\ Len(file) \in Nat /\ WriteHeader + Len(file) =< Size
          /\ \A i \in 1..Len(file) : file[i] \in Cells
      BY <1>5, FileFits
    <2>3. k \in Nat /\ WriteHeader + k =< Size /\ \A i \in 1..k : file[i] \in Cells
      BY <2>2, Sizes
    <2>4. StoreTypes' /\ ReadsInOnePiece' /\ Loading' /\ Reading'
      BY <1>1, <2>1, <2>2, <2>3, WritingTypes
    <2> QED
      BY <1>2, <2>4 DEF StoreInvariant
  <1> QED
    BY <1>3, <1>4, <1>5 DEF D!TransferFails

LEMMA StoreStep == StoreInvariant /\ [D!Next]_(D!vars) => StoreInvariant'
  BY QuietStep, HeaderStep, DataStep, FailedStep DEF D!Next, D!Host, D!vars, D!tool, svars

-----------------------------------------------------------------------------
\* The invariant of the DataStore.
THEOREM StoreIsSafe == D!Spec => []StoreInvariant
  BY StoreInit, StoreStep, PTL DEF D!Spec

\* What a completed ds_load stored stays whole, for anybody to read, until a
\* later one begins to write.
THEOREM StoredStays == D!Spec => []HoldsWhatWasStored
  <1>1. StoreInvariant => HoldsWhatWasStored
    BY DEF StoreInvariant
  <1> QED
    BY <1>1, StoreIsSafe, PTL

\* The chunks of ds_read are one piece of the table.
THEOREM PiecesFit == D!Spec => []ReadsInOnePiece
  <1>1. StoreInvariant => ReadsInOnePiece
    BY DEF StoreInvariant
  <1> QED
    BY <1>1, StoreIsSafe, PTL

\* The behaviours of the run are behaviours of both parts.
THEOREM BothTables == BytesSpec => Spec /\ D!Spec
  <1>1. BytesInit => Init /\ D!Init
    BY DEF BytesInit
  <1>2. [BytesNext]_<<part, vars, svars>> => [Next]_vars /\ [D!Next]_(D!vars)
    BY DEF BytesNext, svars, D!vars, D!tool
  <1> QED
    BY <1>1, <1>2, PTL DEF BytesSpec, Spec, D!Spec
=============================================================================
