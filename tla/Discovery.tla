----------------------------- MODULE Discovery -----------------------------
(***************************************************************************)
(* Opening a drive: rawdrive's checks of the kernel and of the ATA device,  *)
(* the SCSI/ATA pass-through, probe_tpm's choice between DMA and PIO, and   *)
(* probe_level0's walk over the feature descriptors, in the constructor and *)
(* again in get_locked.                                                     *)
(*                                                                         *)
(* A command the kernel or the drive refuses with a CHECK CONDITION is      *)
(* taken for one that succeeded and leaves its buffer as it was.  The       *)
(* buffers are uninitialized locals, so what is read then may be anything,  *)
(* an earlier answer included.  Answers of a drive are taken to be          *)
(* consistent (WellFormed): descriptors follow each other and fill the      *)
(* length that is told.                                                     *)
(***************************************************************************)
EXTENDS Integers, Sequences, Functions

CONSTANTS
    Disks,          \* what drives may be like: [word80, word48, dma, protos, total, features],
                    \* total: 4 and the length told in the header of the features
    Garbage         \* as Disks: what may be left on the stack

\* Header of 48 bytes, then descriptors: 4 bytes, the position of the first is
\* `at', and `len' bytes of data.
Header == 48
After(f) == f.at + 4 + f.len

SSC1 == {"enterprise", "opal1"}
SSC2 == {"opal2", "opalite", "pyrite"}

\* Descriptors that tell something have data; those that do not may be empty.
Descriptors ==
    [code : STRING, at : Nat, len : Nat, value : Int, admins : Int, users : Int, locked : BOOLEAN]

Answers ==
    [word80 : Int, word48 : Int, dma : BOOLEAN, protos : Seq(Int), total : Nat,
     features : Seq(Descriptors)]

LaidOut(total, features) ==
    /\ features = << >> => total = Header
    /\ \A i \in DOMAIN features :
         /\ i = 1 => features[i].at = Header
         /\ IF i = Len(features) THEN total = After(features[i])
            ELSE features[i + 1].at = After(features[i])
         /\ \A j \in DOMAIN features : i < j => After(features[i]) =< features[j].at
         /\ features[i].code \in SSC1 \cup SSC2 \cup {"lock", "geo"} => features[i].len > 0

ASSUME WellFormed == \A d \in Disks : d \in Answers /\ LaidOut(d.total, d.features)

VARIABLES
    pc,             \* the next step of the constructor or of get_locked
    fds,            \* descriptors that are open
    if_dma,
    protos_dma,     \* first answer of probe_tpm
    data, offset,   \* probe_level0: its answer, and the position in it
    has_proto_reset, msg_type, lock_flag, com_id, lba_align, admin_count, user_count,
    answer,         \* of get_locked; "none" before it returns
    disk, locked,   \* the drive, and whether one of its ranges is locked
    changed,        \* history: the locks have changed since get_locked was called
    misread         \* history: commands that were refused and taken for answered,
                    \* by the steps that made them

raw    == <<fds, if_dma, protos_dma>>
cursor == <<data, offset>>
object == <<has_proto_reset, msg_type, lock_flag, com_id, lba_align, admin_count, user_count>>
drive  == <<disk, locked>>
env    == <<drive, changed, misread>>
vars   == <<pc, raw, cursor, object, answer, env>>

Unset == -1     \* indeterminate: a member the constructor does not initialize
None == [total |-> 0, features |-> << >>]

Pc == {"none", "libata", "open", "check_tpm", "dma", "pio", "level0", "features",
       "reset_comid", "level1", "ready", "again", "features again"}

Init ==
    /\ pc = "none" /\ fds = {}
    /\ if_dma = FALSE /\ protos_dma = << >>
    /\ data = None /\ offset = 0
    /\ has_proto_reset = FALSE /\ msg_type = "SWG_MSG_UNKNOWN" /\ lock_flag = FALSE
    /\ com_id = 0 /\ lba_align = 1 /\ admin_count = Unset /\ user_count = Unset
    /\ answer = "none"
    /\ disk \in Disks /\ locked \in BOOLEAN /\ changed = FALSE /\ misread = {}

-----------------------------------------------------------------------------
\* ATA commands, with the protocol of their pass-through: IDENTIFY DEVICE is
\* 0xec, TRUSTED RECEIVE 0x5c by PIO and 0x5d by DMA.
Dma == 6
PioIn == 4

if_recv(dma) == [command |-> IF dma THEN 93 ELSE 92,
                 protocol |-> IF dma THEN Dma ELSE PioIn]

get_identify == [command |-> 236, protocol |-> PioIn]

\* A DMA command needs the DMA protocol, the others do without.
CarriedOut(command) ==
    IF command.command = 93 THEN command.protocol = Dma /\ disk.dma ELSE command.protocol = PioIn

\* The drive as it answers now; its locking feature tells of the locks.
Answering ==
    [disk EXCEPT !.features = [i \in DOMAIN disk.features |->
        IF disk.features[i].code = "lock" THEN [disk.features[i] EXCEPT !.locked = locked]
        ELSE disk.features[i]]]

\* ata_exec_16: the command is carried out, or refused without an exception.
\* Status and host status of the other kinds throw (see Throws).
Exec(command) ==
    (IF CarriedOut(command) THEN {[found |-> Answering, misread |-> misread]} ELSE {})
      \cup {[found |-> left, misread |-> misread \cup {pc}] : left \in Garbage}

\* An exception: the constructor, or get_locked, is left.  What the constructor
\* has opened is closed, but for the descriptor of check_libata.
Closed == fds \ {"device"}

Fails ==
    /\ IF pc = "again"
       THEN pc' = "ready" /\ answer' = "exception" /\ UNCHANGED fds
       ELSE pc' = "none" /\ fds' = Closed /\ UNCHANGED answer
    /\ UNCHANGED <<if_dma, protos_dma, cursor, object, env>>

-----------------------------------------------------------------------------
\* A new drive object; members get their initial values, but for the counts.
Construct ==
    /\ pc = "none"
    /\ pc' = "libata" /\ if_dma' = FALSE /\ misread' = {}
    /\ has_proto_reset' = FALSE /\ msg_type' = "SWG_MSG_UNKNOWN" /\ lock_flag' = FALSE
    /\ com_id' = 0 /\ lba_align' = 1 /\ admin_count' = Unset /\ user_count' = Unset
    /\ answer' = "none"
    /\ protos_dma' = << >> /\ data' = None /\ offset' = 0
    /\ UNCHANGED <<fds, drive, changed>>

\* Whether the kernel lets TPM commands through; if it says no, the descriptor
\* of its parameter stays open.
CheckLibata ==
    /\ pc = "libata"
    /\ \/ pc' = "open" /\ UNCHANGED fds
       \/ pc' = "none" /\ fds' = fds \cup {"allow_tpm"}
    /\ UNCHANGED <<if_dma, protos_dma, cursor, object, answer, env>>

Open ==
    /\ pc = "open"
    /\ pc' = "check_tpm" /\ fds' = fds \cup {"device"}
    /\ UNCHANGED <<if_dma, protos_dma, cursor, object, answer, env>>

\* Word 80 lists the ATA versions, word 48 begins with 01 if there is a TPM.
HasTpm(id) == id.word80 # 0 /\ id.word48 = 1

CheckTpm ==
    /\ pc = "check_tpm"
    /\ \E id \in Exec(get_identify) :
         /\ misread' = id.misread
         /\ IF HasTpm(id.found) THEN pc' = "dma" /\ UNCHANGED fds
            ELSE pc' = "none" /\ fds' = Closed
    /\ UNCHANGED <<if_dma, protos_dma, cursor, object, answer, drive, changed>>

-----------------------------------------------------------------------------
\* probe_tpm: the list of protocols, once with DMA and once without.
TryDma ==
    /\ pc = "dma"
    /\ if_dma' = TRUE
    /\ \E r \in Exec(if_recv(TRUE)) : misread' = r.misread /\ protos_dma' = r.found.protos
    /\ pc' = "pio"
    /\ UNCHANGED <<fds, cursor, object, answer, drive, changed>>

\* Mutant of Stable: a DMA command that did not throw is good enough.
DmaAnswered(protos) == TRUE

Stable(protos) == protos = protos_dma

Listed(protos) ==
    IF Len(protos) <= 6 /\ 1 \in Range(protos)
    THEN /\ pc' = "level0" /\ UNCHANGED fds
         /\ if_dma' = Stable(protos)
         /\ has_proto_reset' = (2 \in Range(protos))
    ELSE pc' = "none" /\ fds' = Closed /\ UNCHANGED <<if_dma, has_proto_reset>>

TryPio ==
    /\ pc = "pio"
    /\ \E r \in Exec(if_recv(FALSE)) : misread' = r.misread /\ Listed(r.found.protos)
    /\ UNCHANGED <<protos_dma, cursor, msg_type, lock_flag, com_id, lba_align,
                   admin_count, user_count, answer, drive, changed>>

-----------------------------------------------------------------------------
\* probe_level0: the answer, and a walk over its descriptors.
Level0(next) ==
    /\ \E r \in Exec(if_recv(if_dma)) :
         /\ misread' = r.misread
         /\ data' = [total |-> r.found.total, features |-> r.found.features]
    /\ offset' = Header
    /\ pc' = next
    /\ UNCHANGED <<fds, if_dma, protos_dma, object, answer, drive, changed>>

Discover == pc = "level0" /\ Level0("features")
Refresh  == pc = "again" /\ Level0("features again")

ComId(f) == IF f.code \in SSC1 \cup SSC2 THEN f.value ELSE com_id

Parse(f) ==
    /\ lock_flag' = IF f.code = "lock" THEN f.locked ELSE lock_flag
    /\ lba_align' = IF f.code = "geo" THEN f.value ELSE lba_align
    /\ msg_type' = IF f.code = "enterprise" THEN "SWG_MSG_ENTERPRISE"
                   ELSE IF f.code \in SSC1 \cup SSC2 THEN "SWG_MSG_OPAL" ELSE msg_type
    /\ com_id' = ComId(f)
    /\ admin_count' = IF f.code \in SSC2 THEN f.admins ELSE admin_count
    /\ user_count' = IF f.code \in SSC2 THEN f.users ELSE user_count

\* The descriptor at the position; elsewhere the block is taken to be zero.
Descriptor ==
    IF \E f \in Range(data.features) : f.at = offset
    THEN CHOOSE f \in Range(data.features) : f.at = offset
    ELSE [code |-> "reserved", at |-> offset, len |-> 0]

\* Mutant of More: the loop ends a descriptor early.
MoreThanOne == After(Descriptor) < data.total - 4

More == offset < data.total - 4

Feature ==
    /\ pc \in {"features", "features again"} /\ More
    /\ Parse(Descriptor)
    /\ offset' = After(Descriptor)
    /\ UNCHANGED <<pc, raw, data, has_proto_reset, answer, env>>

FeaturesDone ==
    /\ pc = "features" /\ ~More
    /\ pc' = IF has_proto_reset THEN "reset_comid" ELSE "level1"
    /\ UNCHANGED <<raw, cursor, object, answer, env>>

\* Session's ResetComid, and ComPacket's probe_level1.
ResetComid ==
    /\ pc = "reset_comid" /\ pc' = "level1"
    /\ UNCHANGED <<raw, cursor, object, answer, env>>

Level1 ==
    /\ pc = "level1" /\ pc' = "ready"
    /\ UNCHANGED <<raw, cursor, object, answer, env>>

-----------------------------------------------------------------------------
\* Mutant of GetLocked: the flag is good enough.
GetFlag ==
    /\ pc = "ready"
    /\ answer' = (IF lock_flag THEN "locked" ELSE "open") /\ changed' = FALSE
    /\ UNCHANGED <<pc, raw, cursor, object, drive, misread>>

GetLocked ==
    /\ pc = "ready"
    /\ pc' = "again" /\ answer' = "none" /\ changed' = FALSE
    /\ UNCHANGED <<raw, cursor, object, drive, misread>>

Locked ==
    /\ pc = "features again" /\ ~More
    /\ pc' = "ready" /\ answer' = IF lock_flag THEN "locked" ELSE "open"
    /\ UNCHANGED <<raw, cursor, object, env>>

Destroy ==
    /\ pc = "ready"
    /\ pc' = "none" /\ fds' = Closed
    /\ UNCHANGED <<if_dma, protos_dma, cursor, object, answer, env>>

\* Another tool, or a power cycle, changes the locks.
LocksChange ==
    /\ locked' = ~locked /\ changed' = TRUE
    /\ UNCHANGED <<pc, raw, cursor, object, answer, disk, misread>>

\* ioctl fails, a status is bad, discovery has another revision, or a later
\* call throws.
Throws == pc \in {"open", "check_tpm", "dma", "pio", "level0", "again", "reset_comid", "level1"} /\ Fails

Next ==
    \/ Construct \/ CheckLibata \/ Open \/ CheckTpm \/ TryDma \/ TryPio \/ Discover
    \/ Refresh \/ Feature \/ FeaturesDone \/ ResetComid \/ Level1
    \/ GetLocked \/ Locked \/ Destroy \/ LocksChange \/ Throws

Spec == Init /\ [][Next]_vars

-----------------------------------------------------------------------------
\* The constructor is behind probe_tpm.
Probed ==
    pc \in {"level0", "features", "reset_comid", "level1", "ready", "again", "features again"}

\* The DMA command of probe_tpm was refused, and what it left on the stack was
\* the drive's own list of protocols, or is compared with other leavings.
FalseAnswer == "dma" \in misread /\ ("pio" \in misread \/ protos_dma = disk.protos)

\* But for a false answer, DMA is used only if the drive has carried out a
\* command with it; it is used if the drive has answered both commands.  An
\* object that uses DMA with a drive without it has not got its discovery either.
DmaOnlyWhenAnswered ==
    /\ Probed /\ if_dma /\ ~FalseAnswer => disk.dma /\ "dma" \notin misread
    /\ Probed /\ {"dma", "pio"} \cap misread = {} => if_dma
    /\ Probed /\ pc # "level0" /\ if_dma /\ ~disk.dma => "level0" \in misread

\* Of the first n descriptors, the last one that tells of this (none or one).
Last(n, codes) ==
    {i \in 1..n : /\ disk.features[i].code \in codes
                  /\ \A j \in (i + 1)..n : disk.features[j].code \notin codes}

Absent(codes) == \A i \in DOMAIN disk.features : disk.features[i].code \notin codes

\* The members are those of the last descriptor of their kind; if the drive has
\* none, what they were before.
Knows(n) ==
    /\ \A i \in Last(n, SSC1 \cup SSC2) : com_id = disk.features[i].value
    /\ \A i \in Last(n, {"geo"}) : lba_align = disk.features[i].value
    /\ \A i \in Last(n, SSC2) : /\ admin_count = disk.features[i].admins
                                /\ user_count = disk.features[i].users
    /\ Absent(SSC1 \cup SSC2) => com_id = 0
    /\ Absent({"geo"}) => lba_align = 1
    /\ Absent(SSC2) => admin_count = Unset /\ user_count = Unset

\* A drive object whose probes were answered knows what the drive reports: the
\* walk of probe_level0, whose loop adds to its position in two places, misses
\* no descriptor, and of several SSCs the last one counts.
KnowsTheDrive ==
    pc = "ready" /\ misread \subseteq {"dma"} =>
        has_proto_reset = (2 \in Range(disk.protos)) /\ Knows(Len(disk.features))

\* get_locked tells the present state of a drive that reports one, not that of
\* the time when the drive was opened.
GetLockedFresh ==
    /\ answer \in {"locked", "open"} /\ ~changed /\ misread \subseteq {"dma"}
    /\ \E i \in DOMAIN disk.features : disk.features[i].code = "lock"
    => (answer = "locked") = locked

=============================================================================
