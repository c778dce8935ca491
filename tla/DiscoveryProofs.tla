-------------------------- MODULE DiscoveryProofs --------------------------
(***************************************************************************)
(* What a drive object knows of its drive, for all drives whose answers are *)
(* laid out as the standard says.                                           *)
(*                                                                         *)
(* The walk of probe_level0 is at the start of a descriptor, or at the end, *)
(* and knows what the descriptors before it tell (Walked).  That holds in   *)
(* the walk of the constructor, after it, and in the walks of get_locked,   *)
(* which begin with what the walk before them has found.                    *)
(***************************************************************************)
EXTENDS Discovery, TLAPS

Count == Len(disk.features)

\* Where the walk is when it has n descriptors behind it.
Position(n) == IF n < Count THEN disk.features[n + 1].at ELSE disk.total

\* What the drive answers while its locks are so.
Told(l) == [i \in DOMAIN disk.features |->
    IF disk.features[i].code = "lock" THEN [disk.features[i] EXCEPT !.locked = l]
    ELSE disk.features[i]]

Believed == misread \subseteq {"dma"}

Early   == {"libata", "open", "check_tpm", "dma", "pio", "level0"}
Walking == {"features", "features again"}
Walked  == {"reset_comid", "level1", "ready", "again"}

Fields == <<com_id, lba_align, admin_count, user_count>>

\* DMA is not used before probe_tpm.
DmaLater == pc \in {"libata", "open", "check_tpm"} => ~if_dma

\* A DMA command that is believed to be answered was answered with DMA.
DmaTried ==
    (pc = "pio" \/ Probed) /\ "dma" \notin misread => disk.dma /\ protos_dma = disk.protos

\* Nothing is known before the first walk.
Ignorant ==
    Believed /\ pc \in Early =>
        com_id = 0 /\ lba_align = 1 /\ admin_count = Unset /\ user_count = Unset

ResetKnown ==
    Believed /\ pc \in {"level0"} \cup Walking \cup Walked =>
        has_proto_reset = (2 \in Range(disk.protos))

\* The answer that is walked over is the drive's.
AnswerHeld ==
    Believed /\ pc \in Walking \cup Walked =>
        /\ data.total = disk.total
        /\ \E l \in BOOLEAN : data.features = Told(l)
        /\ pc = "features again" /\ ~changed => data.features = Told(locked)

\* With n descriptors behind it, the walk knows what they tell.
At(n) ==
    /\ offset = Position(n) /\ Knows(n)
    /\ pc = "features again" /\ ~changed =>
         ((\E i \in 1..n : disk.features[i].code = "lock") => lock_flag = locked)

StandsSomewhere ==
    Believed /\ pc \in Walking \cup Walked => \E n \in 0..Count : At(n)

WalkOver == Believed /\ pc \in Walked => ~More

Inv ==
    /\ disk \in Disks /\ locked \in BOOLEAN
    /\ DmaLater /\ DmaTried /\ DmaOnlyWhenAnswered
    /\ Ignorant /\ ResetKnown /\ AnswerHeld /\ StandsSomewhere /\ WalkOver
    /\ GetLockedFresh

-----------------------------------------------------------------------------
\* A drive of the kind that WellFormed describes.
LEMMA DriveKnown ==
    ASSUME disk \in Disks
    PROVE  /\ disk \in Answers /\ LaidOut(disk.total, disk.features)
           /\ Count \in Nat /\ DOMAIN disk.features = 1..Count
           /\ \A i \in 1..Count : disk.features[i] \in Descriptors
  <1>1. disk \in Answers /\ LaidOut(disk.total, disk.features)
    BY WellFormed
  <1>2. disk.features \in Seq(Descriptors)
    BY <1>1 DEF Answers
  <1> QED
    BY <1>1, <1>2 DEF Count

\* The layout of its descriptors.
LEMMA Layout ==
    ASSUME disk \in Disks
    PROVE  /\ disk.total \in Nat
           /\ \A i \in 1..Count :
                /\ disk.features[i].at \in Nat /\ disk.features[i].len \in Nat
                /\ disk.features[i].code \in SSC1 \cup SSC2 \cup {"lock", "geo"} =>
                     disk.features[i].len > 0
                /\ Position(i) = After(disk.features[i])
           /\ \A i, j \in 1..Count : i < j => After(disk.features[i]) =< disk.features[j].at
           /\ Position(0) = Header
  <1> DEFINE F == disk.features
  <1>1. disk \in Answers /\ LaidOut(disk.total, F) /\ Count \in Nat /\ DOMAIN F = 1..Count
        /\ \A i \in 1..Count : F[i] \in Descriptors
    BY DriveKnown
  <1>2. disk.total \in Nat /\ F \in Seq(Descriptors)
    BY <1>1 DEF Answers
  <1>3. ASSUME NEW i \in 1..Count
        PROVE  F[i].at \in Nat /\ F[i].len \in Nat
    BY <1>1 DEF Descriptors
  <1>4. ASSUME NEW i \in 1..Count
        PROVE  /\ F[i].code \in SSC1 \cup SSC2 \cup {"lock", "geo"} => F[i].len > 0
               /\ IF i = Count THEN disk.total = After(F[i]) ELSE F[i + 1].at = After(F[i])
               /\ \A j \in 1..Count : i < j => After(F[i]) =< F[j].at
               /\ i = 1 => F[i].at = Header
    BY <1>1 DEF LaidOut, Count
  <1>5. ASSUME NEW i \in 1..Count
        PROVE  Position(i) = After(F[i])
    <2>1. Position(i) = IF i < Count THEN F[i + 1].at ELSE disk.total
      BY DEF Position
    <2>2. IF i = Count THEN disk.total = After(F[i]) ELSE F[i + 1].at = After(F[i])
      BY <1>4
    <2>3. i < Count <=> i # Count
      BY <1>1
    <2> QED BY <2>1, <2>2, <2>3
  <1>6. Position(0) = Header
    <2>1. CASE Count = 0
      <3>1. F = << >>
        BY <1>2, <2>1 DEF Count
      <3>2. disk.total = Header
        BY <1>1, <3>1 DEF LaidOut
      <3> QED
        BY <2>1, <3>2 DEF Position
    <2>2. CASE Count # 0
      <3>1. 1 \in 1..Count
        BY <1>1, <2>2
      <3>2. F[1].at = Header
        BY <1>4, <3>1
      <3> QED
        BY <1>1, <2>2, <3>2 DEF Position
    <2> QED
      BY <2>1, <2>2
  <1> QED
    BY <1>2, <1>3, <1>4, <1>5, <1>6

\* An answer has the descriptors of the drive, but for the locks.
LEMMA ToldKnown ==
    ASSUME disk \in Disks, NEW l \in BOOLEAN
    PROVE  /\ DOMAIN Told(l) = 1..Count
           /\ \A i \in 1..Count :
                /\ Told(l)[i].code = disk.features[i].code
                /\ Told(l)[i].at = disk.features[i].at
                /\ Told(l)[i].len = disk.features[i].len
                /\ Told(l)[i].value = disk.features[i].value
                /\ Told(l)[i].admins = disk.features[i].admins
                /\ Told(l)[i].users = disk.features[i].users
                /\ disk.features[i].code = "lock" => Told(l)[i].locked = l
  <1>1. DOMAIN disk.features = 1..Count /\ \A i \in 1..Count : disk.features[i] \in Descriptors
    BY DriveKnown
  <1>2. SUFFICES ASSUME NEW i \in 1..Count
                 PROVE  /\ Told(l)[i].code = disk.features[i].code
                        /\ Told(l)[i].at = disk.features[i].at
                        /\ Told(l)[i].len = disk.features[i].len
                        /\ Told(l)[i].value = disk.features[i].value
                        /\ Told(l)[i].admins = disk.features[i].admins
                        /\ Told(l)[i].users = disk.features[i].users
                        /\ disk.features[i].code = "lock" => Told(l)[i].locked = l
    BY <1>1 DEF Told
  <1>3. Told(l)[i] = IF disk.features[i].code = "lock"
                     THEN [disk.features[i] EXCEPT !.locked = l] ELSE disk.features[i]
    BY <1>1 DEF Told
  <1>4. disk.features[i] \in Descriptors
    BY <1>1
  <1> QED
    BY <1>3, <1>4 DEF Descriptors

\* The answer of the drive as it is.
LEMMA AnsweringKnown ==
    ASSUME disk \in Disks
    PROVE  Answering.protos = disk.protos /\ Answering.total = disk.total
           /\ Answering.features = Told(locked)
  <1>1. disk \in Answers
    BY DriveKnown
  <1>2. Answering = [disk EXCEPT !.features = Told(locked)]
    BY DEF Answering, Told
  <1> QED
    BY <1>1, <1>2 DEF Answers

\* A command that is believed to be answered was answered, if it is not the one
\* that tries DMA.
LEMMA ExecKnown ==
    ASSUME NEW command, NEW r \in Exec(command), disk \in Disks
    PROVE  /\ misread \subseteq r.misread
           /\ pc \in r.misread \/ (r.found = Answering /\ CarriedOut(command))
           /\ pc # "dma" /\ r.misread \subseteq {"dma"} =>
                /\ r.found.protos = disk.protos /\ r.found.total = disk.total
                /\ r.found.features = Told(locked)
           /\ \A x : x \in r.misread => x \in misread \/ x = pc
  <1>1. \/ r = [found |-> Answering, misread |-> misread] /\ CarriedOut(command)
        \/ \E left \in Garbage : r = [found |-> left, misread |-> misread \cup {pc}]
    BY DEF Exec
  <1>2. Answering.protos = disk.protos /\ Answering.total = disk.total
        /\ Answering.features = Told(locked)
    BY AnsweringKnown
  <1> QED
    BY <1>1, <1>2

-----------------------------------------------------------------------------
\* The step from a descriptor to the next.

\* The descriptor at the position is the next one of the walk.
LEMMA NextDescriptor ==
    ASSUME disk \in Disks, NEW l \in BOOLEAN, data.features = Told(l),
           NEW n \in 0..Count, n < Count, offset = Position(n)
    PROVE  Descriptor = Told(l)[n + 1]
  <1>1. n + 1 \in 1..Count /\ Count \in Nat
    BY DriveKnown
  <1>2. offset = Told(l)[n + 1].at
    BY <1>1, ToldKnown DEF Position
  <1>3. DOMAIN Told(l) = 1..Count
    BY ToldKnown
  <1>4. Told(l)[n + 1] \in Range(data.features)
    BY <1>1, <1>3 DEF Range
  <1>5. ASSUME NEW f \in Range(data.features), f.at = offset
        PROVE  f = Told(l)[n + 1]
    <2>1. PICK i \in 1..Count : f = Told(l)[i]
      BY <1>3 DEF Range
    <2>2. disk.features[i].at = disk.features[n + 1].at
      BY <1>1, <1>2, <1>5, <2>1, ToldKnown
    <2>3. disk.features[i].at \in Nat /\ disk.features[i].len \in Nat
          /\ disk.features[n + 1].len \in Nat
      BY <1>1, Layout
    <2>4. /\ i < n + 1 => After(disk.features[i]) =< disk.features[n + 1].at
          /\ n + 1 < i => After(disk.features[n + 1]) =< disk.features[i].at
      BY <1>1, Layout
    <2>5. i = n + 1
      BY <1>1, <2>2, <2>3, <2>4 DEF After
    <2> QED
      BY <2>1, <2>5
  <1>6. \E f \in Range(data.features) : f.at = offset
    BY <1>2, <1>4
  <1>7. Descriptor \in Range(data.features) /\ Descriptor.at = offset
    BY <1>6 DEF Descriptor
  <1> QED
    BY <1>5, <1>7

\* What is last among n + 1 descriptors: the new one, or what was last before.
LEMMA LastStep ==
    ASSUME NEW n \in Nat, NEW codes
    PROVE  /\ disk.features[n + 1].code \in codes => Last(n + 1, codes) = {n + 1}
           /\ disk.features[n + 1].code \notin codes => Last(n + 1, codes) = Last(n, codes)
  <1>1. ASSUME disk.features[n + 1].code \in codes
        PROVE  Last(n + 1, codes) = {n + 1}
    <2>1. n + 1 \in Last(n + 1, codes)
      BY <1>1 DEF Last
    <2>2. ASSUME NEW i \in Last(n + 1, codes)
          PROVE  i = n + 1
      <3>1. i \in 1..(n + 1) /\ \A j \in (i + 1)..(n + 1) : disk.features[j].code \notin codes
        BY DEF Last
      <3>2. n + 1 \notin (i + 1)..(n + 1)
        BY <1>1, <3>1
      <3> QED
        BY <3>1, <3>2
    <2> QED
      BY <2>1, <2>2
  <1>2. ASSUME disk.features[n + 1].code \notin codes
        PROVE  Last(n + 1, codes) = Last(n, codes)
    <2>1. ASSUME NEW i \in Last(n + 1, codes)
          PROVE  i \in Last(n, codes)
      BY <1>2 DEF Last
    <2>2. ASSUME NEW i \in Last(n, codes)
          PROVE  i \in Last(n + 1, codes)
      <3>1. i \in 1..n /\ disk.features[i].code \in codes
            /\ \A j \in (i + 1)..n : disk.features[j].code \notin codes
        BY DEF Last
      <3>2. ASSUME NEW j \in (i + 1)..(n + 1)
            PROVE  disk.features[j].code \notin codes
        BY <1>2, <3>1
      <3> QED
        BY <3>1, <3>2 DEF Last
    <2> QED
      BY <2>1, <2>2
  <1> QED
    BY <1>1, <1>2

\* Parse adds what one descriptor tells.
LEMMA ParseTells ==
    ASSUME disk \in Disks, disk' = disk, NEW l \in BOOLEAN, NEW n \in 0..Count, n < Count,
           Knows(n), Parse(Told(l)[n + 1])
    PROVE  Knows(n + 1)'
  <1> DEFINE f == Told(l)[n + 1]
             F == disk.features
  <1>1. n \in Nat /\ n + 1 \in 1..Count /\ DOMAIN F = 1..Count
    BY DriveKnown
  <1>2. f.code = F[n + 1].code /\ f.value = F[n + 1].value
        /\ f.admins = F[n + 1].admins /\ f.users = F[n + 1].users
    BY <1>1, ToldKnown
  <1>3. \A codes : /\ F[n + 1].code \in codes => Last(n + 1, codes) = {n + 1}
                   /\ F[n + 1].code \notin codes => Last(n + 1, codes) = Last(n, codes)
    BY <1>1, LastStep
  <1>4. \A codes : Absent(codes) => F[n + 1].code \notin codes
    BY <1>1 DEF Absent
  <1>5. /\ lba_align' = IF f.code = "geo" THEN f.value ELSE lba_align
        /\ com_id' = IF f.code \in SSC1 \cup SSC2 THEN f.value ELSE com_id
        /\ admin_count' = IF f.code \in SSC2 THEN f.admins ELSE admin_count
        /\ user_count' = IF f.code \in SSC2 THEN f.users ELSE user_count
    BY DEF Parse, ComId
  <1>6. \A codes : Last(n + 1, codes)' = Last(n + 1, codes) /\ Absent(codes)' = Absent(codes)
    BY DEF Last, Absent
  <1> HIDE DEF f
  <1>7. \A i \in Last(n + 1, SSC1 \cup SSC2) : com_id' = F[i].value
    <2>1. CASE F[n + 1].code \in SSC1 \cup SSC2
      BY <1>2, <1>3, <1>5, <2>1
    <2>2. CASE F[n + 1].code \notin SSC1 \cup SSC2
      BY <1>2, <1>3, <1>5, <2>2 DEF Knows
    <2> QED
      BY <2>1, <2>2
  <1>8. \A i \in Last(n + 1, {"geo"}) : lba_align' = F[i].value
    <2>1. CASE F[n + 1].code \in {"geo"}
      BY <1>2, <1>3, <1>5, <2>1
    <2>2. CASE F[n + 1].code \notin {"geo"}
      BY <1>2, <1>3, <1>5, <2>2 DEF Knows
    <2> QED
      BY <2>1, <2>2
  <1>9. \A i \in Last(n + 1, SSC2) : admin_count' = F[i].admins /\ user_count' = F[i].users
    <2>1. CASE F[n + 1].code \in SSC2
      BY <1>2, <1>3, <1>5, <2>1
    <2>2. CASE F[n + 1].code \notin SSC2
      BY <1>2, <1>3, <1>5, <2>2 DEF Knows
    <2> QED
      BY <2>1, <2>2
  <1>10. /\ Absent(SSC1 \cup SSC2) => com_id' = 0
         /\ Absent({"geo"}) => lba_align' = 1
         /\ Absent(SSC2) => admin_count' = Unset /\ user_count' = Unset
    BY <1>2, <1>4, <1>5 DEF Knows
  <1> QED
    BY <1>6, <1>7, <1>8, <1>9, <1>10 DEF Knows, Unset

\* Where the walk ends, no descriptor that tells anything is left.
LEMMA NothingMissed ==
    ASSUME disk \in Disks, NEW n \in 0..Count, offset = Position(n),
           data.total = disk.total, ~More
    PROVE  \A i \in 1..Count :
             i > n => disk.features[i].code \notin SSC1 \cup SSC2 \cup {"lock", "geo"}
  <1> DEFINE F == disk.features
  <1>1. SUFFICES ASSUME NEW i \in 1..Count, i > n, F[i].len > 0
                 PROVE  FALSE
    BY Layout
  <1>2. n + 1 \in 1..Count /\ Count \in Nat /\ Count \in 1..Count
    <2>1. Count \in Nat
      BY DriveKnown
    <2> QED
      BY <1>1, <2>1
  <1>3. offset = F[n + 1].at /\ disk.total \in Nat /\ F[n + 1].at \in Nat
    BY <1>2, Layout DEF Position
  <1>4. F[n + 1].at >= disk.total - 4
    BY <1>3 DEF More
  <1>5. disk.total = F[Count].at + 4 + F[Count].len
    <2>1. Position(Count) = After(F[Count])
      BY <1>2, Layout
    <2> QED
      BY <1>2, <2>1 DEF Position, After
  <1>6. /\ n + 1 < i => F[n + 1].at + 4 + F[n + 1].len =< F[i].at
        /\ i < Count => F[i].at + 4 + F[i].len =< F[Count].at
    BY <1>2, Layout DEF After
  <1>7. /\ F[n + 1].len \in Nat /\ F[i].at \in Nat /\ F[i].len \in Nat
        /\ F[Count].at \in Nat /\ F[Count].len \in Nat
    BY <1>2, Layout
  <1> HIDE DEF F
  <1> QED
    BY <1>1, <1>2, <1>3, <1>4, <1>5, <1>6, <1>7

\* What is known then is known of the whole drive.
LEMMA AllKnown ==
    ASSUME disk \in Disks, NEW n \in 0..Count, Knows(n),
           \A i \in 1..Count :
             i > n => disk.features[i].code \notin SSC1 \cup SSC2 \cup {"lock", "geo"}
    PROVE  Knows(Count)
  <1>1. Count \in Nat
    BY DriveKnown
  <1>2. ASSUME NEW codes, codes \subseteq SSC1 \cup SSC2 \cup {"lock", "geo"}
        PROVE  Last(Count, codes) \subseteq Last(n, codes)
    <2>1. SUFFICES ASSUME NEW i \in Last(Count, codes)
                   PROVE  i \in Last(n, codes)
      OBVIOUS
    <2>2. i \in 1..Count /\ disk.features[i].code \in codes
          /\ \A j \in (i + 1)..Count : disk.features[j].code \notin codes
      BY DEF Last
    <2>3. i \in 1..n
      BY <1>1, <1>2, <2>2
    <2>4. \A j \in (i + 1)..n : j \in (i + 1)..Count
      BY <1>1
    <2> QED
      BY <2>2, <2>3, <2>4 DEF Last
  <1>3. /\ Last(Count, SSC1 \cup SSC2) \subseteq Last(n, SSC1 \cup SSC2)
        /\ Last(Count, {"geo"}) \subseteq Last(n, {"geo"})
        /\ Last(Count, SSC2) \subseteq Last(n, SSC2)
    BY <1>2
  <1> QED
    BY <1>3 DEF Knows

-----------------------------------------------------------------------------
\* What the parts of the invariant are about does not change in most steps.
LEMMA Kept ==
    ASSUME UNCHANGED <<disk, Fields, data, offset>>
    PROVE  /\ \A n : Knows(n)' = Knows(n) /\ Position(n)' = Position(n)
           /\ \A l : Told(l)' = Told(l)
           /\ Count' = Count /\ More' = More
  BY DEF Fields, Knows, Last, Absent, Position, Told, Count, More

\* The invariant holds at first.
LEMMA InitInv == Init => Inv
  BY Zenon DEF Init, drive, Inv, DmaLater, DmaTried, DmaOnlyWhenAnswered, FalseAnswer, Probed,
               Ignorant, ResetKnown, AnswerHeld, StandsSomewhere, WalkOver, GetLockedFresh, Early,
               Walking, Walked, Unset

\* Each step keeps it.
LEMMA ConstructInv == Inv /\ Construct => Inv'
  BY DEF Inv, Construct, DmaLater, DmaTried, DmaOnlyWhenAnswered, FalseAnswer, Probed, Ignorant,
         ResetKnown, AnswerHeld, StandsSomewhere, WalkOver, GetLockedFresh, Early, Walking,
         Walked, Unset, drive

\* Steps that move on and leave the object and the answers alone.
LEMMA QuietInv ==
    ASSUME Inv, UNCHANGED <<disk, locked, changed, misread, Fields, lock_flag, has_proto_reset,
                            data, offset, if_dma, protos_dma>>,
           \/ pc' = "none" /\ UNCHANGED answer
           \/ pc = "libata" /\ pc' = "open" /\ UNCHANGED answer
           \/ pc = "open" /\ pc' = "check_tpm" /\ UNCHANGED answer
           \/ pc = "features" /\ ~More /\ pc' \in {"reset_comid", "level1"} /\ UNCHANGED answer
           \/ pc = "reset_comid" /\ pc' = "level1" /\ UNCHANGED answer
           \/ pc = "level1" /\ pc' = "ready" /\ UNCHANGED answer
           \/ pc = "again" /\ pc' = "ready" /\ answer' = "exception"
    PROVE  Inv'
  <1>1. /\ \A n : Knows(n)' = Knows(n) /\ Position(n)' = Position(n)
        /\ \A l : Told(l)' = Told(l)
        /\ Count' = Count /\ More' = More
    BY Kept
  <1>2. DmaLater' /\ DmaTried' /\ DmaOnlyWhenAnswered'
    BY DEF Inv, DmaLater, DmaTried, DmaOnlyWhenAnswered, FalseAnswer, Probed
  <1>3. Ignorant'
    BY DEF Inv, Ignorant, Believed, Early, Fields
  <1>4. ResetKnown'
    BY DEF Inv, ResetKnown, Believed, Walking, Walked
  <1>5. AnswerHeld'
    BY <1>1 DEF Inv, AnswerHeld, Believed, Walking, Walked
  <1>6. StandsSomewhere'
    <2>1. SUFFICES ASSUME Believed', (pc \in Walking \cup Walked)'
                   PROVE  (\E n \in 0..Count : At(n))'
      BY DEF StandsSomewhere
    <2>2. PICK n \in 0..Count : At(n)
      BY <2>1 DEF Inv, StandsSomewhere, Believed, Walking, Walked
    <2>3. pc' # "features again"
      OBVIOUS
    <2>4. At(n)'
      BY <1>1, <2>2, <2>3 DEF At
    <2> QED
      BY <1>1, <2>4
  <1>7. WalkOver'
    BY <1>1 DEF Inv, WalkOver, Believed, Walked
  <1>8. GetLockedFresh'
    BY DEF Inv, GetLockedFresh
  <1> QED
    BY <1>2, <1>3, <1>4, <1>5, <1>6, <1>7, <1>8 DEF Inv

LEMMA CheckTpmInv == Inv /\ CheckTpm => Inv'
  <1> SUFFICES ASSUME Inv, CheckTpm PROVE Inv'
    OBVIOUS
  <1>1. PICK id \in Exec(get_identify) : misread' = id.misread
    BY DEF CheckTpm
  <1>2. misread \subseteq misread'
    BY <1>1, ExecKnown DEF Inv
  <1>3. /\ pc = "check_tpm" /\ pc' \in {"none", "dma"}
        /\ UNCHANGED <<if_dma, protos_dma, Fields, answer, drive, changed>>
    BY DEF CheckTpm, object, Fields
  <1>4. DmaLater' /\ DmaTried' /\ DmaOnlyWhenAnswered'
    BY <1>3 DEF DmaLater, DmaTried, DmaOnlyWhenAnswered, Probed
  <1> QED
    BY <1>2, <1>3, <1>4 DEF Inv, Ignorant, ResetKnown, AnswerHeld, Believed,
           StandsSomewhere, WalkOver, GetLockedFresh, Early, Walking, Walked, Fields, drive

LEMMA TryDmaInv == Inv /\ TryDma => Inv'
  <1> SUFFICES ASSUME Inv, TryDma PROVE Inv'
    OBVIOUS
  <1>1. PICK r \in Exec(if_recv(TRUE)) : misread' = r.misread /\ protos_dma' = r.found.protos
    BY DEF TryDma
  <1>2. misread \subseteq misread'
    BY <1>1, ExecKnown DEF Inv
  <1>3. /\ pc = "dma" /\ pc' = "pio"
        /\ UNCHANGED <<Fields, answer, drive, changed>>
    BY DEF TryDma, object, Fields
  <1>4. DmaTried'
    <2>1. SUFFICES ASSUME "dma" \notin misread'
                   PROVE  disk.dma /\ protos_dma' = disk.protos
      BY <1>3 DEF DmaTried, drive
    <2>2. r.found = Answering /\ CarriedOut(if_recv(TRUE))
      BY <1>1, <1>3, <2>1, ExecKnown DEF Inv
    <2>3. disk.dma
      BY <2>2 DEF CarriedOut, if_recv
    <2> QED
      BY <1>1, <2>2, <2>3, AnsweringKnown DEF Inv
  <1>5. DmaLater' /\ DmaOnlyWhenAnswered'
    BY <1>3 DEF DmaLater, DmaOnlyWhenAnswered, Probed
  <1> QED
    BY <1>2, <1>3, <1>4, <1>5 DEF Inv, Ignorant, ResetKnown, AnswerHeld, Believed,
           StandsSomewhere, WalkOver, GetLockedFresh, Early, Walking, Walked, Fields, drive

\* The two answers are compared, and the second one is believed.
LEMMA TryPioInv == Inv /\ TryPio => Inv'
  <1> SUFFICES ASSUME Inv, TryPio PROVE Inv'
    OBVIOUS
  <1>1. PICK r \in Exec(if_recv(FALSE)) : misread' = r.misread /\ Listed(r.found.protos)
    BY DEF TryPio
  <1>2. /\ pc = "pio" /\ misread \subseteq misread'
        /\ UNCHANGED <<protos_dma, Fields, answer, drive, changed>>
    BY <1>1, ExecKnown DEF TryPio, Inv, Fields
  <1>3. \/ pc' = "none"
        \/ /\ pc' = "level0" /\ if_dma' = (r.found.protos = protos_dma)
           /\ has_proto_reset' = (2 \in Range(r.found.protos))
    BY <1>1 DEF Listed, Stable
  <1>4. /\ "pio" \notin misread' => r.found.protos = disk.protos
    BY <1>1, <1>2, ExecKnown, AnsweringKnown DEF Inv
  <1>5. DmaLater' /\ DmaTried' /\ DmaOnlyWhenAnswered'
    <2>0. \A x : x \in misread' => x \in misread \/ x = pc
      BY <1>1, ExecKnown DEF Inv
    <2>1. "dma" \in misread' <=> "dma" \in misread
      BY <1>2, <2>0
    <2>2. DmaLater' /\ DmaTried'
      BY <1>2, <1>3, <2>1 DEF Inv, DmaLater, DmaTried, Probed, drive
    <2>3. CASE pc' = "none"
      BY <2>2, <2>3 DEF DmaOnlyWhenAnswered, Probed
    <2>4. CASE pc' = "level0" /\ if_dma' = (r.found.protos = protos_dma)
      <3>1. if_dma' /\ "dma" \in misread' => FalseAnswer'
        BY <1>2, <1>4, <2>4 DEF FalseAnswer, drive
      <3>2. "dma" \notin misread' => disk.dma /\ protos_dma = disk.protos
        BY <1>2, <2>1 DEF Inv, DmaTried
      <3>3. {"dma", "pio"} \cap misread' = {} => if_dma'
        BY <1>4, <2>4, <3>2
      <3> QED
        BY <1>2, <2>2, <2>4, <3>1, <3>2, <3>3 DEF DmaOnlyWhenAnswered, drive
    <2> QED
      BY <1>3, <2>2, <2>3, <2>4
  <1>6. ResetKnown'
    BY <1>2, <1>3, <1>4 DEF ResetKnown, Believed, Walking, Walked, drive
  <1>7. Ignorant' /\ AnswerHeld' /\ StandsSomewhere' /\ WalkOver'
    BY <1>2, <1>3 DEF Inv, Ignorant, AnswerHeld, StandsSomewhere, WalkOver, Believed, Early,
                      Walking, Walked, Fields
  <1>8. GetLockedFresh'
    BY <1>2 DEF Inv, GetLockedFresh, drive
  <1> QED
    BY <1>2, <1>5, <1>6, <1>7, <1>8 DEF Inv, drive

\* At its start the walk has nothing behind it.
LEMMA AtTheStart ==
    /\ 1..0 = {} /\ \A codes : Last(0, codes) = {}
    /\ disk \in Disks => 0 \in 0..Count /\ Position(0) = Header
  <1>1. \A x : x \notin 1..0
    OBVIOUS
  <1>2. \A codes : Last(0, codes) = {}
    BY <1>1 DEF Last
  <1>3. ASSUME disk \in Disks
        PROVE  0 \in 0..Count
    <2>1. Count \in Nat
      BY <1>3, DriveKnown
    <2> QED
      BY <2>1
  <1> QED
    BY <1>1, <1>2, <1>3, Layout

\* A walk begins at the first descriptor of the answer, with what was known.
LEMMA Level0Inv ==
    ASSUME Inv, NEW next, Level0(next),
           \/ pc = "level0" /\ next = "features"
           \/ pc = "again" /\ next = "features again"
    PROVE  Inv'
  <1>1. PICK r \in Exec(if_recv(if_dma)) :
          /\ misread' = r.misread
          /\ data' = [total |-> r.found.total, features |-> r.found.features]
    BY DEF Level0
  <1>2. /\ misread \subseteq misread' /\ offset' = Header /\ pc' = next
        /\ UNCHANGED <<if_dma, protos_dma, Fields, lock_flag, has_proto_reset, answer, disk,
                       locked, changed>>
    BY <1>1, ExecKnown DEF Level0, Inv, Fields, object, drive
  <1>3. 1..0 = {} /\ \A codes : Last(0, codes) = {}
    BY AtTheStart
  <1>4. Believed' => data'.total = disk.total /\ data'.features = Told(locked)
    BY <1>1, ExecKnown DEF Inv, Believed
  <1>5. /\ \A n : Knows(n)' = Knows(n) /\ Position(n)' = Position(n)
        /\ \A l : Told(l)' = Told(l)
        /\ Count' = Count
    BY <1>2 DEF Fields, Knows, Last, Absent, Position, Told, Count
  <1>6. DmaLater' /\ DmaTried' /\ DmaOnlyWhenAnswered'
    <2>0. \A x : x \in misread' => x \in misread \/ x = pc
      BY <1>1, ExecKnown DEF Inv
    <2>1. /\ "dma" \in misread' <=> "dma" \in misread
          /\ "pio" \in misread' <=> "pio" \in misread
      BY <1>2, <2>0
    <2>2. Probed /\ FalseAnswer' = FalseAnswer
      BY <1>2, <2>1 DEF Probed, FalseAnswer
    <2>3. ASSUME if_dma, ~disk.dma
          PROVE  "level0" \in misread'
      <3>1. ~CarriedOut(if_recv(if_dma))
        BY <2>3 DEF CarriedOut, if_recv
      <3>2. pc \in misread'
        BY <1>1, <3>1, ExecKnown DEF Inv
      <3>3. pc = "again" => "level0" \in misread
        BY <2>2, <2>3 DEF Inv, DmaOnlyWhenAnswered
      <3> QED
        BY <1>2, <3>2, <3>3
    <2>4. DmaLater' /\ DmaTried'
      BY <1>2, <2>1, <2>2 DEF Inv, DmaLater, DmaTried
    <2>5. DmaOnlyWhenAnswered'
      <3>1. if_dma /\ ~FalseAnswer => disk.dma /\ "dma" \notin misread
        BY <2>2 DEF Inv, DmaOnlyWhenAnswered
      <3>2. {"dma", "pio"} \cap misread = {} => if_dma
        BY <2>2 DEF Inv, DmaOnlyWhenAnswered
      <3>3. {"dma", "pio"} \cap misread' = {} => {"dma", "pio"} \cap misread = {}
        BY <2>1
      <3> QED
        BY <1>2, <2>1, <2>2, <2>3, <3>1, <3>2, <3>3 DEF DmaOnlyWhenAnswered
    <2> QED
      BY <2>4, <2>5
  <1>7. Ignorant' /\ WalkOver'
    BY <1>2 DEF Ignorant, WalkOver, Early, Walked
  <1>8. ResetKnown'
    BY <1>2 DEF Inv, ResetKnown, Believed, Walking, Walked
  <1>9. AnswerHeld'
    BY <1>2, <1>4, <1>5 DEF Inv, AnswerHeld
  <1>10. StandsSomewhere'
    <2>1. SUFFICES ASSUME Believed'
                   PROVE  0 \in 0..Count /\ At(0)'
      BY <1>5 DEF StandsSomewhere
    <2>2. 0 \in 0..Count /\ Position(0) = Header
      <3>1. disk \in Disks
        BY DEF Inv
      <3> QED
        BY <3>1, AtTheStart
    <2>3. Knows(0)
      <3>1. CASE pc = "level0"
        BY <1>2, <1>3, <2>1, <3>1 DEF Inv, Ignorant, Believed, Early, Knows
      <3>2. CASE pc = "again"
        <4>1. PICK n \in 0..Count : Knows(n)
          BY <1>2, <2>1, <3>2 DEF Inv, StandsSomewhere, Believed, Walked, At
        <4> QED
          BY <1>3, <4>1 DEF Knows
      <3> QED
        BY <3>1, <3>2
    <2> QED
      BY <1>2, <1>3, <1>5, <2>2, <2>3 DEF At
  <1>11. GetLockedFresh'
    BY <1>2 DEF Inv, GetLockedFresh
  <1> QED
    BY <1>2, <1>6, <1>7, <1>8, <1>9, <1>10, <1>11 DEF Inv

\* A step of the walk.
LEMMA FeatureInv == Inv /\ Feature => Inv'
  <1> SUFFICES ASSUME Inv, Feature PROVE Inv'
    OBVIOUS
  <1>1. /\ pc \in Walking /\ More /\ Parse(Descriptor) /\ offset' = After(Descriptor)
        /\ UNCHANGED <<pc, if_dma, protos_dma, data, has_proto_reset, answer, disk, locked,
                       changed, misread>>
    BY DEF Feature, Walking, raw, env, drive
  <1>2. /\ \A n : Position(n)' = Position(n)
        /\ \A l : Told(l)' = Told(l)
        /\ Count' = Count
    BY <1>1 DEF Position, Told, Count
  <1>3. DmaLater' /\ DmaTried' /\ DmaOnlyWhenAnswered' /\ Ignorant' /\ WalkOver'
    BY <1>1 DEF Inv, DmaLater, DmaTried, DmaOnlyWhenAnswered, FalseAnswer, Probed, Ignorant,
                WalkOver, Early, Walking, Walked
  <1>4. ResetKnown'
    BY <1>1 DEF Inv, ResetKnown, Believed
  <1>5. AnswerHeld'
    BY <1>1, <1>2 DEF Inv, AnswerHeld, Believed
  <1>6. StandsSomewhere'
    <2>1. SUFFICES ASSUME Believed
                   PROVE  \E m \in 0..Count : At(m)'
      BY <1>1, <1>2 DEF StandsSomewhere, Believed
    <2>2. PICK n \in 0..Count : At(n)
      BY <1>1, <2>1 DEF Inv, StandsSomewhere
    <2>3. Count \in Nat /\ disk.total \in Nat /\ data.total = disk.total
      BY <1>1, <2>1, DriveKnown, Layout DEF Inv, AnswerHeld
    <2>4. n < Count
      <3>1. offset = Position(n) /\ offset < disk.total - 4
        BY <1>1, <2>2, <2>3 DEF At, More
      <3> QED
        BY <2>3, <3>1 DEF Position
    <2>5. PICK l \in BOOLEAN :
            data.features = Told(l) /\ (pc = "features again" /\ ~changed => l = locked)
      BY <1>1, <2>1 DEF Inv, AnswerHeld
    <2>6. Descriptor = Told(l)[n + 1]
      BY <2>2, <2>4, <2>5, NextDescriptor DEF Inv, At
    <2>7. n + 1 \in 1..Count /\ n + 1 \in 0..Count
      BY <2>3, <2>4
    <2>8. offset' = Position(n + 1)
      BY <1>1, <2>6, <2>7, ToldKnown, Layout DEF Inv, After
    <2>9. Knows(n + 1)'
      BY <1>1, <2>2, <2>4, <2>6, ParseTells DEF Inv, At
    <2>10. /\ disk.features[n + 1].code = "lock" => lock_flag' = l
           /\ disk.features[n + 1].code # "lock" => lock_flag' = lock_flag
      BY <1>1, <2>6, <2>7, ToldKnown DEF Inv, Parse
    <2>11. ASSUME pc = "features again", ~changed,
                  NEW i \in 1..(n + 1), disk.features[i].code = "lock"
           PROVE  lock_flag' = locked
      <3>1. CASE disk.features[n + 1].code = "lock"
        BY <2>5, <2>10, <2>11, <3>1
      <3>2. CASE disk.features[n + 1].code # "lock"
        <4>1. i \in 1..n
          <5>1. i # n + 1
            BY <2>11, <3>2
          <5> QED
            BY <2>3, <5>1
        <4> QED
          BY <2>2, <2>10, <2>11, <3>2, <4>1 DEF At
      <3> QED
        BY <3>1, <3>2
    <2>12. At(n + 1)'
      BY <1>1, <1>2, <2>8, <2>9, <2>11 DEF At
    <2> QED
      BY <2>7, <2>12
  <1>7. GetLockedFresh'
    BY <1>1 DEF Inv, GetLockedFresh
  <1> QED
    BY <1>1, <1>3, <1>4, <1>5, <1>6, <1>7 DEF Inv

\* get_locked begins.
LEMMA GetLockedInv == Inv /\ GetLocked => Inv'
  <1> SUFFICES ASSUME Inv, GetLocked PROVE Inv'
    OBVIOUS
  <1>1. /\ pc = "ready" /\ pc' = "again" /\ answer' = "none"
        /\ UNCHANGED <<if_dma, protos_dma, data, offset, has_proto_reset, lock_flag, Fields,
                       disk, locked, misread>>
    BY DEF GetLocked, raw, cursor, object, drive, Fields
  <1>2. /\ \A n : Knows(n)' = Knows(n) /\ Position(n)' = Position(n)
        /\ \A l : Told(l)' = Told(l)
        /\ Count' = Count /\ More' = More
    BY <1>1, Kept
  <1>3. DmaLater' /\ DmaTried' /\ DmaOnlyWhenAnswered' /\ Ignorant' /\ GetLockedFresh'
    BY <1>1 DEF Inv, DmaLater, DmaTried, DmaOnlyWhenAnswered, FalseAnswer, Probed, Ignorant,
                GetLockedFresh, Early
  <1>4. ResetKnown' /\ WalkOver'
    BY <1>1, <1>2 DEF Inv, ResetKnown, WalkOver, Believed, Walked
  <1>5. AnswerHeld'
    BY <1>1, <1>2 DEF Inv, AnswerHeld, Believed, Walked
  <1>6. StandsSomewhere'
    BY <1>1, <1>2 DEF Inv, StandsSomewhere, Believed, Walked, At
  <1> QED
    BY <1>1, <1>3, <1>4, <1>5, <1>6 DEF Inv

\* It tells what the walk has found, which is no older than the call.
LEMMA LockedInv == Inv /\ Locked => Inv'
  <1> SUFFICES ASSUME Inv, Locked PROVE Inv'
    OBVIOUS
  <1>1. /\ pc = "features again" /\ ~More /\ pc' = "ready"
        /\ answer' = IF lock_flag THEN "locked" ELSE "open"
        /\ UNCHANGED <<if_dma, protos_dma, data, offset, has_proto_reset, lock_flag, Fields,
                       disk, locked, changed, misread>>
    BY DEF Locked, raw, cursor, object, env, drive, Fields
  <1>2. /\ \A n : Knows(n)' = Knows(n) /\ Position(n)' = Position(n)
        /\ \A l : Told(l)' = Told(l)
        /\ Count' = Count /\ More' = More
    BY <1>1, Kept
  <1>3. DmaLater' /\ DmaTried' /\ DmaOnlyWhenAnswered' /\ Ignorant'
    BY <1>1 DEF Inv, DmaLater, DmaTried, DmaOnlyWhenAnswered, FalseAnswer, Probed, Ignorant, Early
  <1>4. ResetKnown' /\ WalkOver'
    BY <1>1, <1>2 DEF Inv, ResetKnown, WalkOver, Believed, Walking, Walked
  <1>5. AnswerHeld'
    BY <1>1, <1>2 DEF Inv, AnswerHeld, Believed, Walking, Walked
  <1>6. StandsSomewhere'
    BY <1>1, <1>2 DEF Inv, StandsSomewhere, Believed, Walking, Walked, At
  <1>7. GetLockedFresh'
    <2>1. SUFFICES ASSUME ~changed, Believed, NEW i \in DOMAIN disk.features,
                          disk.features[i].code = "lock"
                   PROVE  lock_flag = locked
      BY <1>1 DEF GetLockedFresh, Believed, Inv
    <2>2. PICK n \in 0..Count : At(n)
      BY <1>1, <2>1 DEF Inv, StandsSomewhere, Walking
    <2>3. i \in 1..Count /\ Count \in Nat
      BY DriveKnown DEF Inv
    <2>4. data.total = disk.total
      BY <1>1, <2>1 DEF Inv, AnswerHeld, Walking
    <2>5. i \in 1..n
      <3>1. disk \in Disks /\ offset = Position(n)
        BY <2>2 DEF Inv, At
      <3>2. ~(i > n)
        BY <1>1, <2>1, <2>3, <2>4, <3>1, NothingMissed
      <3> QED
        BY <2>3, <3>2
    <2> QED
      BY <1>1, <2>1, <2>2, <2>5 DEF At
  <1> QED
    BY <1>1, <1>3, <1>4, <1>5, <1>6, <1>7 DEF Inv

\* Locks that change make what is on its way stale.
LEMMA LocksChangeInv == Inv /\ LocksChange => Inv'
  <1> SUFFICES ASSUME Inv, LocksChange PROVE Inv'
    OBVIOUS
  <1>1. /\ locked' = ~locked /\ changed' = TRUE
        /\ UNCHANGED <<pc, if_dma, protos_dma, data, offset, has_proto_reset, lock_flag, Fields,
                       answer, disk, misread>>
    BY DEF LocksChange, raw, cursor, object, Fields
  <1>2. /\ \A n : Knows(n)' = Knows(n) /\ Position(n)' = Position(n)
        /\ \A l : Told(l)' = Told(l)
        /\ Count' = Count /\ More' = More
    BY <1>1, Kept
  <1>3. DmaLater' /\ DmaTried' /\ DmaOnlyWhenAnswered' /\ Ignorant' /\ ResetKnown' /\ GetLockedFresh'
    BY <1>1 DEF Inv, DmaLater, DmaTried, DmaOnlyWhenAnswered, FalseAnswer, Probed, Ignorant,
                ResetKnown, GetLockedFresh, Believed, Fields
  <1>4. WalkOver'
    BY <1>1, <1>2 DEF Inv, WalkOver, Believed
  <1>5. AnswerHeld'
    BY <1>1, <1>2 DEF Inv, AnswerHeld, Believed
  <1>6. StandsSomewhere'
    BY <1>1, <1>2 DEF Inv, StandsSomewhere, Believed, At
  <1>7. locked' \in BOOLEAN
    BY <1>1
  <1> QED
    BY <1>1, <1>3, <1>4, <1>5, <1>6, <1>7 DEF Inv

LEMMA NextInv == Inv /\ [Next]_vars => Inv'
  <1> SUFFICES ASSUME Inv, [Next]_vars PROVE Inv'
    OBVIOUS
  <1> USE QuietInv DEF raw, cursor, object, env, drive, Fields
  <1>1. CASE CheckLibata
    BY <1>1 DEF CheckLibata
  <1>2. CASE Open
    BY <1>2 DEF Open
  <1>3. CASE FeaturesDone
    BY <1>3 DEF FeaturesDone
  <1>4. CASE ResetComid \/ Level1
    BY <1>4 DEF ResetComid, Level1
  <1>5. CASE Destroy
    BY <1>5 DEF Destroy
  <1>6. CASE Throws
    BY <1>6 DEF Throws, Fails
  <1>7. CASE Discover \/ Refresh
    BY <1>7, Level0Inv DEF Discover, Refresh
  <1>8. CASE UNCHANGED vars
    <2>1. /\ \A n : Knows(n)' = Knows(n) /\ Position(n)' = Position(n)
          /\ \A l : Told(l)' = Told(l)
          /\ Count' = Count /\ More' = More
      BY <1>8, Kept DEF vars
    <2>2. StandsSomewhere'
      BY <1>8, <2>1 DEF Inv, StandsSomewhere, Believed, At, vars
    <2>3. AnswerHeld' /\ WalkOver'
      BY <1>8, <2>1 DEF Inv, AnswerHeld, WalkOver, Believed, vars
    <2> QED
      BY <1>8, <2>2, <2>3 DEF vars, Inv, DmaLater, DmaTried, DmaOnlyWhenAnswered, FalseAnswer,
                              Probed, Ignorant, ResetKnown, GetLockedFresh, Believed
  <1> QED
    BY <1>1, <1>2, <1>3, <1>4, <1>5, <1>6, <1>7, <1>8, ConstructInv, CheckTpmInv, TryDmaInv,
       TryPioInv, FeatureInv, GetLockedInv, LockedInv, LocksChangeInv DEF Next

-----------------------------------------------------------------------------
\* The invariant of the whole module.
THEOREM DiscoveryInvariant == Spec => []Inv
  BY InitInv, NextInv, PTL DEF Spec

\* Whatever drives and leavings on the stack there are: probe_tpm turns DMA on if
\* both of its commands were answered, and only if the DMA command was carried
\* out, unless a refused one left the drive's own list (or both were refused).
THEOREM AnsweredDma == Spec => []DmaOnlyWhenAnswered
  <1>1. Inv => DmaOnlyWhenAnswered
    BY DEF Inv
  <1> QED
    BY <1>1, DiscoveryInvariant, PTL

\* Whatever the descriptors are and however many: the object of a drive that
\* answered knows what the last descriptor of each kind tells.
THEOREM DriveIsKnown == Spec => []KnowsTheDrive
  <1>1. Inv => KnowsTheDrive
    <2>1. SUFFICES ASSUME Inv, pc = "ready", Believed
                   PROVE  has_proto_reset = (2 \in Range(disk.protos)) /\ Knows(Count)
      BY DEF KnowsTheDrive, Believed, Count
    <2>2. has_proto_reset = (2 \in Range(disk.protos))
      BY <2>1 DEF Inv, ResetKnown, Walked
    <2>3. PICK n \in 0..Count : At(n)
      BY <2>1 DEF Inv, StandsSomewhere, Walked
    <2>4. data.total = disk.total /\ ~More
      BY <2>1 DEF Inv, AnswerHeld, WalkOver, Walked
    <2>5. Knows(Count)
      BY <2>1, <2>3, <2>4, NothingMissed, AllKnown DEF Inv, At
    <2> QED
      BY <2>2, <2>5
  <1> QED
    BY <1>1, DiscoveryInvariant, PTL

\* get_locked tells the state of the locks at its call or later.
THEOREM LocksFresh == Spec => []GetLockedFresh
  <1>1. Inv => GetLockedFresh
    BY DEF Inv
  <1> QED
    BY <1>1, DiscoveryInvariant, PTL
=============================================================================
