# A specification of topaz-alpha

`topaz-alpha` drives self-encrypting disks (TCG Opal): a C++ library (`src/src/topaz`),
whose class `drive` speaks to the TPer, the trusted part of the disk, and six small tools
(`src/src/tools`) that manage, lock, unlock, wipe and bridge such disks.  This directory
holds TLA+ modules that model the library's stateful parts, TLC configurations that check
them on small instances, and proofs that TLAPS checks for every instance.

The program is sequential but not alone.  It talks to a device that answers late, or never,
or refuses silently; the device remembers what dead processes asked it; every tool can be
killed between two steps; and a table write is a series of calls.  That is where it can go
wrong, and what the modules are about.

## 1. Inventory

| component | code | state | operations | modelled |
|---|---|---|---|---|
| Session layer | `drive.cpp` 58-98, 169-303, 575-676, 784-905, 1277-1305 | `session_is_auth`, `session_sp`, `tper_session_id`, `host_session_id`; in the TPer: a session, a request, an answer | constructor, `login`, `login_anon`, `logout`, `invoke`, `admin_sp_revert`, `forget_session`, `send`, `recv`, `reset_comid`, destructor | `Session`, `RemoteSession` |
| Packet sizes | `drive.cpp` 47-56, 784-848, 1147-1215 | `max_token`, `raw_buffer`'s size | `probe_level1`, the size arithmetic of `send` and of the codecs below it | `ComPacket` |
| Byte tables | `drive.cpp` 362-399, 447-554 | loop counters, the input file, the table in the drive | `table_set_bin`, `table_get_bin`, `table_set_bin_file` | `TableIO` |
| Discovery | `drive.cpp` 58-98, 907-1145, 1217-1275 | `com_id`, `has_proto_reset`, `lock_flag`, `lba_align`, account counts | `probe_tpm`, `probe_level0`, `get_locked` | `Discovery` |
| Transport | `rawdrive.cpp` | file descriptor, DMA flag | constructor, destructor, `if_send`, `if_recv`, `get_identify`, `ata_exec_16`, checks of the kernel and of the ATA device | `Discovery`; its effects also in `Session` |
| Transactions | `drive.cpp` 678-762 | in the TPer | `start_transaction`, `end_transaction`; no tool calls them | no |
| Atom codec | `atom.cpp`, `encodable.cpp` | none | factories, `size`, `encode`, `decode`, `operator==`, accessors | `AtomCodec`, `Atom`; sizes also in `ComPacket` |
| Datum codec | `datum.cpp` | a tree of atoms, names, lists and calls | accessors, `size`, `encode`, `decode`, `operator==`, `find_by_name` | `Datum` |
| `tp_admin` | `tp_admin.cpp` | PINs, life cycles (in the TPer) | `msid`, `cert`, `status`, `login`, `setpin`, `activate`, `revert` | `Lifecycle`; its revert also in `Session` |
| `tp_wipe` | `tp_wipe.cpp` | life cycles, PINs, media keys (in the TPer) | wipe with MSID, SID or PSID | `Lifecycle` |
| `tp_lock` | `tp_lock.cpp` | locking ranges, PINs, shadow MBR, DataStore (in the TPer) | `setpin`, `mbr`, `mbr_load`, `ranges`, six lock commands, `setrange`, `wipe`, `ds_load`, `ds_read` | `Locking`, `DataStore`; its transfers in `TableIO` |
| `tp_unlock_simple` | `tp_unlock_simple.cpp` | the PIN, one drive after another | the unlock loop, `unlock_target` | `UnlockSimple` |
| `tp_mbr_bridge` | `tp_mbr_bridge.cpp` | main program, NBD thread, NBD device, two socket pairs | serve the kernel's requests from the shadow MBR, `start_kern_process`, `kern_thread`, `sig_handler`, cleanup | `Bridge` |
| PIN entry | `pin_entry.cpp` | terminal echo, signal handlers, `cin` | `pin_from_console`, `pin_from_console_check`; `pin_from_file` changes no state | `PinEntry` |
| Output | `debug.cpp`, `spinner.cpp` | none of interest | printing | no |

Interactions.  A tool constructs a `drive` on its stack and calls it; `drive` is built on
`rawdrive` (an ioctl per exchange) and on the two codecs; errors travel as
`topaz_exception` to a `catch` in the tool's `main`, and on the way run the destructor of the
`drive`, which logs out.  All tools share one thing, the TPer behind the device: a session
begun by one process blocks the next one, and an answer meant for one call can be read
by another.  Only `tp_mbr_bridge` has a second thread, and only `pin_entry` and the bridge
install signal handlers.

What makes each part correct:

* Session layer: an answer is used for the call it answers; the session variables describe
  the session the TPer has; a new process is not disturbed by an old one; every operation
  ends.
* Packet sizes: what is cut to the largest token fits in a packet.
* Byte tables: a transfer that returns is complete; one that stops leaves a prefix in its
  place; a file that is too large is refused before anything is written; loops end.
* Discovery: a drive object knows what the drive reports, and `get_locked` what it reports now.
* Codecs: decoding what was encoded gives it back, in the size that was announced; what is cut
  short is refused.
* Life cycle and wipe: a wipe that reports success has destroyed the media key and restored
  the factory state, from every credential, and can be repeated when interrupted.
* Locking: ranges are locked as the last completed commands say, across power cycles and
  commands that broke off between their two calls; a command touches its own object only.
* DataStore: what `ds_load` stored is there until the next one writes.
* Unlocking: when the tool exits, a drive that is still locked has failed; a range opens only
  behind a hidden shadow MBR.
* Bridge: every NBD request is answered once, in order; reads see writes; a signal ends it.
* PIN entry: the terminal is never left without echo; a confirmed PIN was typed twice.

The hazards, each at its line and with the properties that cover it, are listed under
`hazards` in `PROJECT.json`; the two without a property say why.

## 2. Modules

### Session: the session layer

One tool process at a time, and one TPer.  `pc` says where the process is: `off` (no
process), `reset` and `props` (in the constructor, before `reset_comid` and
`probe_level1`), `idle` (in the tool, between library calls), `logout` and `start` (inside
`login`, `logout` or the destructor), `wait` (in the poll loop of `recv`).  `goal` is what
the running operation does after its `logout()`; `op` is the call being waited for, and
`polls` the `max_iters` of `recv`.  The four session variables are the code's.

| action | code |
|---|---|
| `OpenDevice`, `ResetComid`, `ResetFails`, `Properties` | constructor; an exception in it ends the process without a destructor |
| `Login`, `LogoutOrClose` | entry of `login`/`login_anon`, `logout`, destructor |
| `NothingToEnd`, `EndSession` | the two branches of `logout` |
| `StartSession`, `Adopt` | `invoke(SESSION_MGR, START_SESSION)`, and what `login` does with the answer: the flag and the SP first, the ids after |
| `Invoke` | `invoke` on an object; `admin_sp_revert`; `tp_admin`'s plain `REVERT` |
| `Send` | `drive::send` and the entry of `recv`; the drive takes the request or not, and drops or keeps an unread answer |
| `Poll`, `Timeout`, `Receive`, `IoError` | the outcomes of `recv`'s loop |
| `Raise`, `Return` | where an exception, or the data, goes from there |
| `Kill`, `PowerCycle` | a signal or crash; a power cut |
| `TPer...` | the drive (external): serves one request at a time, has one session, finds it by both ids, never answers a packet without a session |

Two history variables carry the properties: a message's `mine` (it belongs to the call that
was started last) and `trust` (since the last reset every call ended by its own answer,
and no process died with a call or a session under way).

The properties say what the code achieves and on what condition:

* `ReplyMatchesCall`: with `trust`, what `recv` can read is the answer of the waiting call.
* `SessionAgreement`: with `trust`, and between calls, the session variables are exactly the
  TPer's session.  Both hold with and without `reset_comid` on the drive.
* `GettersTruthful`: the same for what `get_session_auth` and `get_session_sp` return.
* `BlankSlate`: a constructor that completes on a drive with ComID reset finds nothing of an
  earlier process, whatever happened to it.
* `KeepsPromise`: the code implements `RemoteSession`, the specification a tool's
  author has in mind: the device acts at most once per call and never between calls, a
  call that returns has been served, the picture of the session is then exact; giving a
  call up ends this, a reset restores it.  The refinement maps `known` to `trust`, `call` to
  the phase of the outstanding call, `believed` to the session variables and `open` to the
  TPer's session.
* `OperationEnds`, `CloseEnds`: every operation ends although the TPer owes no answer; the
  destructor leads to the end of the process whatever happens to its logout.

Two comments in the code promise more and are refuted (section 4).

### ComPacket: packet sizes

`probe_level1` reads size properties in any order, takes the smaller of each and of its own
limits, tweaks the token size, and sizes the buffer; then table writes of any length are cut
and wrapped, with the real numbers of bytes for headers, atoms and paddings.
`ChunkAlwaysFits`: if drives report whole 512-byte blocks, no chunk is refused.  Without that
condition it fails (section 4).

### TableIO: byte tables

The loops of `table_set_bin`, `table_get_bin` and `table_set_bin_file`, one action per call
to the drive and one per `fread`.  A table cell holds the index of the source byte written
to it, so that a wrong pointer, a repeated or a skipped chunk shows.  A call may fail with or
without its effect, the process may die, and the file may be truncated or appended to at
any point.  `TornWriteIsPrefix`: however a write stops, the table holds a prefix of its source in
place.  `SuccessIsComplete`: one that returns is complete.  `GranularWrites`: the calls respect the
granularity the drive asks for.  `TransferEnds`: the loops make progress.  TableIO takes
every answer for that of its own call, which is what `ReplyMatchesCall` gives a process
that stops at the first exception, as the tools do.

| action | code |
|---|---|
| `Begin` | a tool's call of one of the three operations |
| `CheckFile` | `table_set_bin_file` up to its loop: sizes, granularity, the division by the transfer length |
| `ReadFile`, `FileDone` | one `fread` of it, and its end |
| `SetChunk`, `GetChunk`, `ChunkFails`, `LoopDone` | one call of `table_set_bin` or `table_get_bin`, an exception from it, the end of its loop |
| `FileChanges`, `Kill` | somebody else, or the death of the process |

### DataStore: ds_load and ds_read

`DataStore` uses what `TableIO` promises, a whole transfer or a prefix, as one step each, and
keeps the bytes of the table.  `SetAce`, `Measure`, `PutHeader`, `PutData` are the steps of
`ds_load` (`tp_lock.cpp` 292-322), which measures the file once for the header and, inside
`table_set_bin_file`, once more; `GetLength`, `GetChunk`, `ReadDone` those of `ds_read`
(323-352).  `TransferFails`, `GetFails`, `Kill` and `FileChanges` may come anywhere.

* `HoldsWhatWasStored`: until a later `ds_load` writes, the table holds header and file of the
  last completed one, in every byte, and anybody may read it.
* `ReadsInOnePiece`: `ds_read` delivers the bytes behind its header without a gap.
* `ReadsBack`, what the code's comment promises of the two together, is refuted (section 4).

`ds_load` and `ds_read` disagree on the width of the header, so the two properties that hold
are stated for each with its own.  `Fits` says what the table, the headers and the files are:
bytes are digits to a base, and a header of `ds_load` is wide enough for the length of a file that
fits in the table.

### Lifecycle: tp_admin and tp_wipe

Runs of the two tools, one after another, over the PIN of the SID, the life cycle of the
Locking SP, its administrator's PIN and the media key.  An action is one call of a tool to
the drive, which is carried out and answered (`Call`), refused (`Refuse`), or throws with or
without its effect (`Fault`); the process may also die (`Kill`).  That calls are atomic and
that a run finds no session is what `Session` establishes (`ReplyMatchesCall`, `BlankSlate`)
for a process that stops at its first exception.  The two exceptions that these tools catch
are part of the model: after the failed login of `do_auth_login` the drive may have a session
the tool does not know of, and refuses the second login.

| action | code |
|---|---|
| `StartWipe`, `StartAdmin` | `main` up to the first call: credentials from the command line |
| `LoginAnon`, `DefaultPin` | the first calls of `tp_admin`, of `tp_wipe` without credentials, and of the second round of `tp_wipe` with a PSID |
| `Login`, `Prompt`, `Fails` | `do_auth_login` of `tp_admin`, the two logins of `tp_wipe`, and where an exception goes |
| `Entry`, `SetPin` | `setpin` |
| `Check`, `Activate`, `Revert` | `tp_wipe` from the life cycle on; `activate`, `revert` and `status` of `tp_admin` |
| `RightPin`, `Reverted`, `Activated`, `DriveDoes`, `DriveRefuses` | the drive (external) |

The drive is modelled from how the tools use it.  The comment in `tp_wipe.cpp` 125-138 is what
is known of it: a `Revert` destroys the media key if the Locking SP is active, a PSID cannot
activate it but resets the SID's PIN.  An `Activate` of an active SP may succeed or fail, and
activation copies the SID's PIN to the administrator of the Locking SP.

* `WipedMeansErased`: a `tp_wipe` that ends without an exception has replaced the media key
  and restored the factory state.  It takes the life cycle that was read before the PSID's
  revert to decide what is done after it.
* `RepeatOrDone`: a wipe that breaks off has done its work, or the PIN it was let in with
  still works.
* `FailureHasReason`: the sequences of calls are ones the drive carries out; without a lost
  call the right PIN always leads to the end.
* `AdminDoneMeansDone`: a command that ends without an exception has had its effect.

The exit code of both tools is 0 also after an exception; the properties speak of whether one
was printed.

### Locking: tp_lock

Runs of `tp_lock` one after another on one drive: `Login` is `main` up to its operations
(command line, PIN, login), and hands the command's calls to `todo`; `Call` is one of them
carried out, `Fault` one that throws, carried out or not, `Kill` the death of the process,
`PowerCycle` what it does to the locks.  `Entry` is the new PIN of `setpin`.

| operator | code |
|---|---|
| `lock_ctl`, `range_ctl`, `wipe_range`, `mbr`, `Calls` | the functions of these names and the dispatch of `main`: which column of which row is set to what, in which order |
| `range_id_to_uid`, `get_uid`, `pin_uid` | the arithmetic of UIDs, as pairs of words |
| `query_range` | what `ranges` prints |
| `Does`, `LocksNow` | the drive (external): a table of columns, and a reset of what is locked on reset |

* `LocksAsAsked`: whatever completed, broke off half way or was killed before, and whatever
  power cycles there were, a range whose last permanent and last temporary command completed can
  be read and written as the two say.
* `RangesTruthful`: what `ranges` prints after a `setrange` is what was asked for, modulo 2^64.
* `WipesOneRange`, `OwnPinOnly`: `wipe` and `setpin` touch one key and one PIN, those they were
  given.  `wipe -196607` is one of the commands: the UID arithmetic of `range_id_to_uid` gives this
  one number the global range's UID, and the property says that no other number has a second range.

### UnlockSimple: tp_unlock_simple

The boot image's tool over several drives.  `Open` is `main` up to its loop; `TypePin`,
`Interrupt`, `NoInput` are `pin_from_console`, with the state of `cin` that `PinEntry` explains;
`Login`, `Set`, `Refused`, `Fault` are the calls of `unlock_target` (MBR done, then read lock
and write lock of each range) and `Fails`, `NextDrive` what `main` does with its result.

* `ExitMeansUnlocked`: when the tool exits by itself, the first drive is unlocked, and a further
  one too unless its attempt failed; or the drive was reset behind its back.
* `InOrder`: a range opens behind a hidden MBR, in order, for reading before writing.
* `LoopEnds`: the loop ends, unless the input has ended or was interrupted: `cin` is then in a
  state that nothing clears, every round fails with an empty PIN, and the loop turns without
  end (section 4).

### PinEntry: the PIN prompt

`pin_from_console` statement by statement (`SetHandlers`, `EchoOff`, `ReadLine`, `EchoOn`,
`RestoreInt`, `RestoreTerm`), once or twice, with INT and TERM between any two of them
(`Signal`).  Without `SA_RESTART` a signal ends the read and fails `cin` for good.

* `NeverLeftDark`: whenever the process dies of a signal, or the prompt has returned, the
  terminal echoes, unless it refused to be set.
* `ConfirmedPin`: a PIN returned as confirmed was typed twice, as long as `cin` is good.
* `EntryEnds`: every prompt ends once it is answered, interrupted or closed.

### Discovery: opening a drive

The constructors of `rawdrive` and `drive` up to the session layer, and `get_locked`.

| action | code |
|---|---|
| `CheckLibata`, `Open`, `CheckTpm` | `rawdrive::rawdrive`, `check_libata`, `check_tpm` |
| `Exec`, `CarriedOut` | `ata_exec_16`, `if_recv`, `get_identify`: carried out, refused without an exception (the buffer keeps what was on the stack), or an exception (`Throws`) |
| `TryDma`, `TryPio` | the two rounds of `probe_tpm` and the choice between them |
| `Discover`, `Feature`, `FeaturesDone` | `probe_level0`, one action per descriptor |
| `ResetComid`, `Level1` | the rest of the constructor, which `Session` and `ComPacket` model |
| `GetLocked`, `Refresh`, `Locked`, `Destroy` | `get_locked` and the destructor |

What a drive answers to level 0 discovery is its descriptors, each with its position and length, and
the length told in the header.  `WellFormed` is assumed of drives and of stale buffers: the
descriptors follow each other and fill that length, as the standard has it.  The answer (`data`) and
`offset` are the variables of the walk.

* `KnowsTheDrive`: unless a command was misread, the object knows the drive: the walk misses no
  descriptor, although its loop adds to the offset in two places.
* `DmaOnlyWhenAnswered`: behind `probe_tpm`, DMA is on if the drive answered both commands, and it
  is on only for a drive that has carried out the DMA command.  The exception has a name,
  `FalseAnswer`: the DMA command was refused, and the buffer it left alone held the drive's own
  list, or the other command was refused as well, and leavings were compared with leavings.  DMA may
  then be on for a drive that does not have it; if so, its discovery was misread, too.
* `GetLockedFresh`: `get_locked` tells the state at the time of the call.

### Bridge: tp_mbr_bridge

Main program, NBD thread, signal handler and kernel interleave, over two socket pairs.

| action | code |
|---|---|
| `Setup`, `ClearSock`, `Login` | `main`, `start_kern_process`, the drive and its login |
| `Stop`, `NextRequest`, `GetBin`, `RecvChunk`, `RecvDone`, `SetBin`, `Reply` | the loop of `main2` |
| `Cleanup`, `Join` | the end of `main` |
| `SetSock`, `DoIt`, `PeerClosed` | `kern_thread` |
| `Signal` | `sig_handler` |
| `Request`, `SendChunk`, `TakeReply`, `GivesUp` | the kernel (external) |

* `RepliesInOrder`: every request but DISC is answered once, in order, with its own handle.
* `ReadsSeeWrites`: a read is answered with what the last write before it sent (`LastWrite`),
  also when that one was still in the pipe when the read was asked for.  A write whose data was cut
  short by a signal or the end of the stream may be in the MBR with half of it; what the
  property says is that no read is served after it.  A `table_set_bin` that fails may have written
  the beginning of a block (`SetBin`); the program ends then.  Header and data of an answer are sent by
  two calls, which `Reply` makes one step: a signal between them only fills the pipe that the next
  `select` looks at, and the kernel waits for the data.
* `EndsWhenTold`: after a signal, or once the kernel has disconnected, the program ends.
* `UpMeansServing`, what the program prints, is refuted (section 4).

### AtomCodec, Atom, Datum: the codecs

`AtomCodec` holds the functions of `atom.cpp` on bytes; a 64-bit word is eight bytes, so nothing
depends on TLC's integers.  `Atom` and `Datum` are small machines: a value is made (by a factory,
or by up to `MaxCalls` calls of accessors at any place of a tree), encoded, cut short or not, or
followed by more, and decoded; or bytes come from a drive and are decoded.  `Atom`'s constants
are sets of words, of binary data, of what may follow and of what may come from a drive; `Values`
says that they are words of eight bytes and sequences of bytes, and that no binary has 2^24 bytes or
more, which `pick_encoding` refuses with an exception.  `AnyAtom` are the values the class `atom` can
have, from a factory or from a packet.

The functions of `datum.cpp` call themselves for the parts of a tree.  They are functions here,
whose argument is the number of levels they may descend: `Data[n]` is the set of trees up to `n`
levels deep, of any width, `EncodeDatum[n]` their encoding, and so on; a loop over the items of a
list is a function of the turn.  At level zero there is no datum, and `DecodeDatum[0]` refuses
everything: the code's own bound is its stack.  `Parts` says what `Datum`'s constants are: atoms of
`AnyAtom`, UIDs of eight bytes, paths that end above the last level.

* `RoundTrip`: decoding gives the value back, in the announced size, which is also the room
  `encode_bytes` fills; integers take the shortest encoding; `find_by_name` finds.
* `CutIsNoticed`: no proper beginning is taken for something complete.
* `NothingLost`: what a drive sends is decoded without loss, or refused.

### The MC modules

`MCSession`, `MCDiscovery` and `MCBridge` give the constants values.  `MCEncoding`
(`ComPacket`, `Atom`, `Datum`), `MCTableIO` (`TableIO`, `DataStore`), `MCTools` (`Lifecycle`,
`Locking`) and `MCUnlock` (`UnlockSimple`, `PinEntry`) check several modules in one run each: a
behaviour belongs to one `part`, and the variables of the others do not move.  The parts are
alternatives and do not interact.  `MCTools` has a part for the lock commands and one for the other
commands of `Locking`; both are restrictions of the same instance `K`, whose constants the
configuration gives.  Theorems say that the behaviours of such a run are behaviours of its modules
(`PartsOfTools`, `BothTables`, `BothParts`, `EncodingRefines`), so a theorem about a module speaks of the run too.
What a module assumes of its constants is an `ASSUME` there or, for an instance, in the MC
module (`LockingConstants`, `StoreFits`, `AtomValues`, `DatumParts`), and is evaluated for the values of the run.

## 3. Runs

| run | configuration | checks | bounds | states |
|---|---|---|---|---|
| `session_safety` | `MCSessionSafety` | type, `ReplyMatchesCall`, `SessionAgreement`, `GettersTruthful`, `BlankSlate`, `KeepsPromise` | 2 SPs, 2 process ids, 2 session numbers, 2 polls, ComID reset | 264,953 |
| `session_tp_admin` | `MCSessionAdmin` | `SessionAgreement`, `OperationEnds`, `CloseEnds` | 2 SPs, 1 process id, 2 session numbers, without ComID reset, plain revert | 138,121 |
| `encoding` | `MCEncoding` | type, `ChunkAlwaysFits`, `RoundTrip`, `CutIsNoticed`, `NothingLost` | 9 packet sizes, 9 token sizes, 4 properties; words and streams as listed in the module; atoms cut anywhere, datums behind their first and before their last bytes, 4 tails; paths of 2 steps, 3 calls, streams nested up to 6 deep | 236,656 |
| `table_io` | `MCTableIO` | `TornWriteIsPrefix`, `SuccessIsComplete`, `GranularWrites`, `TransferEnds`, `HoldsWhatWasStored`, `ReadsInOnePiece` | 6 rows, tokens of 3, files up to 7, granularities 0 to 4; a DataStore of 8 rows, chunks of 2, 13 files | 81,749 |
| `tools` | `MCTools` | four of `Lifecycle`, four of `Locking` | 3 PINs and a PSID; 2 ranges, 20 command lines, 2 accounts | 113,025 |
| `unlock` | `MCUnlock` | `ExitMeansUnlocked`, `InOrder`, `LoopEnds`, `NeverLeftDark`, `ConfirmedPin`, `EntryEnds` | 2 drives, 2 ranges, 3 lines, 2 failures | 23,513 |
| `discovery` | `MCDiscovery` | `DmaOnlyWhenAnswered`, `KnowsTheDrive`, `GetLockedFresh` | 33 kinds of drive, 3 kinds of stale buffer | 492,424 |
| `bridge` | `MCBridge` | `RepliesInOrder`, `ReadsSeeWrites`, `EndsWhenTold` | 3 requests, 2 blocks, 1 signal | 194,325 |
| `session_auth_flag`, `session_late_answer`, `data_store_reads_back`, `bridge_up` | | refuted, section 4 | small | |

Why the bounds are enough.  Two session numbers and two process ids let a stale session be
told from a new one, and a stale id from a current one; two SPs and both authorities let a
wrong SP or flag show; the TPer holds one message each way, and `Aged` keeps the only thing
the properties ask of old ones.  `MaxPolls` is 10,000 in the code; what matters is that a poll
can be followed by another one (2) and that the last one ends the loop.  All of `Session`'s
constants are arbitrary in the proofs.  In `ComPacket` the sizes are the code's own, at the
boundaries of a block, of the atom encodings (15/16, 2047/2048) and of the host's maximum;
since only minima are kept a fifth property adds nothing.  The codecs have no loop over more than
a word, a length at the limits of an encoding, and the depth of a tree, of which the second level
already nests every type in every other.  In `TableIO` a table of two tokens, files one longer than the table, a
granularity that divides the token, ones that do not, one larger than it and none give every
branch of the loops, up to three chunks in a transfer; offsets wrap at `Word`, which is
larger than twice all lengths as 2^64 is.  The DataStore is scaled down in the same way: headers of
1 and 2 digits for 4 and 8 bytes, three chunks, and a file that does not fit.
`Lifecycle` has no bound but the number of PINs, and any number of runs: the default PIN, the
owner's and a third one let the PIN of the SID be the default, the one given, or neither.
`Locking` likewise has any number of runs: its commands are every pair of a
permanent and a temporary lock of range 0 beside some of range 1, and every other command on a
range that is there, one that is not, and a mistyped one.  `UnlockSimple` needs a second drive
(what follows the first is treated differently) and a second range; `-r` takes values from
below zero to one too many.  `MaxFaults` = 2 lets a failed attempt be followed by a reset or by
a second failure; it is arbitrary in the proofs.  In `Bridge` three requests are a write, a read
that must see it, and one that must not disturb it, on two blocks; a second signal only repeats
the first or ends the process at once, and `closed` is reachable with one.

Deadlock is checked where the system never stops.  It is not in `encoding`, whose behaviours
end when the decoded value is there, in `unlock`, where the process ends, and in `bridge`, where
the program exits.

Fairness.  `Session`'s `FairSpec` has weak fairness on `Host`: the process, once inside an
operation, is scheduled by the operating system, polls return, and `usleep` ends.  Nothing is
assumed of the TPer, of the tool between operations, or of faults.  `TableIO`'s is the same
for the process's own steps, where a call to the drive ends, with data or an exception, by
`OperationEnds`.  `UnlockSimple`'s process runs on in the same way; its user, asked again and again,
types the right PIN some time (strong fairness of one `TypePin`: the prompt comes and goes).
`PinEntry`'s process runs on and its user answers, or closes the terminal.  In `Bridge` the
program and its thread run on, and the kernel finishes sending the data of a request it has
begun and reads the replies; it need not ask for anything, nor end.

## 4. Where the code and its comments disagree

Shown by a run:

* `AuthMeansActive` (`drive.cpp:286`, "If authenticated session is active"): `tp_admin revert`
  calls `invoke(ADMIN_SP, REVERT)` (`tp_admin.cpp:179`) rather than `admin_sp_revert()`, so the
  flag, and the ids, outlive the session; the destructor then waits ten seconds for the answer to
  a logout that the drive ignores.
* `InvokeReturnsItsData` (`drive.cpp:581`, "Any data returned from method call"): after a
  timeout the late answer stays in the drive and becomes the answer of the next call on the same
  object.  `invoke` returns it, with status success, if it decodes.  `trust` in the other
  properties is exactly what excludes this.
* `ReadsBack` (`tp_lock.cpp:298`, "so we can read this back unauthenticated"): `ds_load` writes
  the length in four bytes, `ds_read` reads it in eight (330), and begins the data four bytes
  too late.
* `UpMeansServing` (`tp_mbr_bridge.cpp:248`, "And we're up!"): `start_kern_process` clears queue
  and socket (400) after it has started the thread that sets the socket; a fast thread loses it,
  and the program waits for requests that never come.

Read off the code while modelling it, without a run:

* `drive.cpp:1207` leaves 100 bytes for headers, but `send` pads to whole blocks (812): a drive
  whose `MaxComPacketSize` is no multiple of 512 makes it throw.  `ChunkAlwaysFits` has whole
  blocks as its condition for this reason.
* `pin_from_console_check` takes two empty lines for a confirmed PIN; once a signal or the end
  of the input has failed `cin`, both prompts return at once and an empty PIN is confirmed.
  `ConfirmedPin` excludes it.
* `tp_unlock_simple.cpp:102`: at the end of the input the loop turns without end; `LoopEnds`
  excludes it.
* `QUICKSTART.txt:108` says after `lock_on_reset` "The drive is now locked"; the command sets the
  enable columns only (`tp_lock.cpp:231`), and a range that is not locked already locks at the next
  reset.
* `rawdrive.cpp:274` writes `1 < 8` for `1 << 8`, so every ATA version but zero passes; `HasTpm`
  models what it does.
* `drive.cpp` assigns the account counts only for Opal 2, Opalite and Pyrite; on the other SSCs
  `get_max_admins` and `get_max_users` return indeterminate values (`Unset` in `Discovery`).
* `tp_mbr_bridge.cpp:334`: `NBD_CMD_FLUSH` is an enumerator, so the `#ifdef` drops its case; the
  kernel does not send it unless asked to.
* `tp_mbr_bridge.cpp:326`: the result of `recv` is not looked at, and a write that was cut
  short goes to the drive with what the buffer held.  `ReadsSeeWrites` holds all the same, because
  the program serves no request after it.

## 5. Proofs

| module | theorem | property | rests on |
|---|---|---|---|
| `SessionProofs` | `TypeCorrect` | `TypeOK` | `NonZero`, `PollsPositive`, `Switches` |
| | `AnswersBelong`, `ViewIsExact`, `GettersCorrect` | `ReplyMatchesCall`, `SessionAgreement`, `GettersTruthful` | `SessionInvariant` |
| | `BlankSlateCorrect` | `BlankSlate` | `SessionInvariant` |
| | `Implements` | `KeepsPromise` | `SessionInvariant`, and `~TpAdminRevert` |
| `EncodingProofs` | `TypeCorrect`, `ChunksFit` | `TypeOK`, `ChunkAlwaysFits` | `Sizes`, `WordIsLarge`, arithmetic of the paddings |
| | `ComesBack`, `CutsAreNoticed`, `NothingIsDropped` | `RoundTrip`, `CutIsNoticed`, `NothingLost` | `AtomValues`, `DatumParts`, `EncodingInv` |
| | `AllReread`, `AllFound`, `AllStay` | | induction over the levels of a tree (`Recursion`) |
| `TableIOProofs` | `TornWrites` | `TornWriteIsPrefix` | `SizesNat`, `WriteInvariant` |
| | `Complete` | `SuccessIsComplete` | `WriteInvariant`, `CompleteInvariant` |
| | `WholeGranules` | `GranularWrites` | `WriteInvariant`, `GranuleInvariant` |
| | `StoredStays`, `PiecesFit` | `HoldsWhatWasStored`, `ReadsInOnePiece` | `StoreFits`, `StoreInvariant` (`StoreIsSafe`) |
| `ToolsProofs` | `WipeErases`, `WipeRepeats` | `WipedMeansErased`, `RepeatOrDone` | `Pins`, `LifecycleInvariant` |
| | `WipeFailsWithReason`, `AdminDone` | `FailureHasReason`, `AdminDoneMeansDone` | `LifecycleInvariant`, `OutcomeInvariant` |
| | `LocksKept`, `RangesToldTruly` | `LocksAsAsked`, `RangesTruthful` | `LockingConstants`, `LockingInvariant` |
| | `OneRangeWiped`, `OwnPinChanged` | `WipesOneRange`, `OwnPinOnly` | `LockingConstants`, `LockingInvariant` |
| `UnlockProofs` | `OpenInOrder`, `ExitUnlocked` | `InOrder`, `ExitMeansUnlocked` | `SizesNat`, `UnlockInvariant` |
| | `EchoRestored`, `Confirmed` | `NeverLeftDark`, `ConfirmedPin` | `EntryInvariant`, `Read` |
| `DiscoveryProofs` | `AnsweredDma`, `DriveIsKnown`, `LocksFresh` | `DmaOnlyWhenAnswered`, `KnowsTheDrive`, `GetLockedFresh` | `WellFormed`, `Inv` (`DiscoveryInvariant`) |
| `BridgeProofs` | `InOrderOnce`, `LastWriteRead` | `RepliesInOrder`, `ReadsSeeWrites` | `SomeBlock`, `IInv` (`BridgeInvariant`) |

**Session.**  `ReplyMatchesCall` is not inductive: that no stranger's answer is in the drive when a
call starts depends on every earlier call having emptied it.  `SessionInvariant` (in `Session`, and
checked with TLC before it was proved) has two parts.  `InStep`: with `trust`, between calls
the drive holds no message, and during one it holds either this call's request or its
answer, whose kind says what the TPer's session now is.  `Clear`: the points of the code at
which the session variables are known to be clear, which is what makes a refused
`START_SESSION`, or one after a failed logout, harmless.  `SessionProofs` proves it action by
action and derives the other theorems, the refinement among them by mapping every action to
a step, or a stutter, of `RemoteSession`.

**TableIO.**  `WriteInvariant` relates the three sets of counters of a file transfer: inside the chunk
loop `raw + len = fpos`, between chunks `foffset = job.offset + fpos`.  `CompleteInvariant` adds the
caller's memory and, for a file that nobody changes, that `file_len` counts what is left to be read, so
that the loop ends where the file does.  `GranuleInvariant` says that after an aligned start every
call begins on a granule as long as the chunks before it were whole; it needs that the length of a
chunk, which the code rounds down to a multiple of the granularity, is one, and that multiples add
up to multiples (`GranulesAdd`).

**DataStore.**  `StoreInvariant` follows `ds_load`: what it has measured is the length of the file as
long as nobody touches it, the header in the table tells this length while the data is written, and
a completed one is `stored` until the next begins.  For `ds_read` it says that what has been printed
is a piece of the table that ends at the current offset.  `StoreFits` is assumed, and TLC evaluates it:
the constants fit each other, and the digits of a length, read as a number, give it back.  The last is
an assumption because the provers know nothing of `^` nor of the fold that `Number` is.

**Lifecycle.**  `LifecycleInvariant` adds to the two proved properties where in a run which
authority is logged in (`LoginInStep`), and what a wipe knows at each of its calls
(`WipeInStep`): before the revert that ends it the Locking SP is active, and the credentials of its
second round are the drive's.  `OutcomeInvariant` needs it: a wipe's calls are ones the drive carries
out because it logs in without an authenticated session, activates what is inactive, and its second
login is with the PIN the revert has left (`WipeCarriedOut`); a command of `tp_admin` makes its call as
the SID with the right PIN (`AdminInStep`).

**Locking.**  What was asked for is in the drive (`AskedIsThere`, `SpanIsThere`), but not while a
command is under way: of what it will write nothing is promised from its login on (`Forgotten`), and
this is all that a command which breaks off between two calls leaves behind.  For the end of a
command that completes, each column it writes either has its value already or its call is still in
`todo` (`Pending`).  `Keys` does the same for the one call of `wipe`.  The properties follow with the
arithmetic of UIDs: different ids are different objects but for the one alias of the global range,
and a range of `last - first + 1` blocks modulo 2^64 is printed as it was asked for.

**Unlocking.**  `UnlockInvariant` says how far the running attempt has come (`Progress`) as long as its
session lasts, and that the drives the loop has left behind are unlocked, reset or failed
(`LeftBehind`).  `Guarded` in `UnlockProofs` says that both handlers are there whenever the echo may
be off.

**Discovery.**  The walk of `probe_level0` stands at the beginning of some descriptor, or at the end,
and knows exactly what those before it tell (`StandsSomewhere`: there is an `n` with `At(n)`); that
adding to the offset in two places leads from one descriptor to the next needs the layout
(`WellFormed`).  When the walk is over (`WalkOver`) `n` is the number of descriptors, and what is
known is the drive; a later walk of `get_locked` starts from there.  `AnswerHeld` says that the
answer walked over is the drive's, with the locks of the moment of the call or later.

**Bridge.**  Requests are numbered as they are issued, and what is between kernel and program is one
queue: `Pipe` says that `to_bridge` holds every request behind the one in hand, in order, a write with
what has been sent of its two chunks behind it (`DataBehind`), so that the program reads data as data
and requests as requests; `Answered` and `Answering` split the requests into those answered, in the
pipe or by the kernel, and those to come; and the MBR holds the last write before the request in
hand (`Stored`).  A payload that was cut short (`Torn`) breaks the last of these, and the invariant
says that then a signal has come or the kernel has gone, so that the loop ends before the next request.

**Atoms.**  For every header the codec writes, the decoder finds the same encoding, type and
length (`HeaderSays`, `HeaderRead`), and conversely every header it accepts is the one it would
write (`HeaderWritten`).  The atoms a factory makes are `Clean`, up to what the encoding does not
show: a decoded atom has the value whose bytes were sent, extended by its sign, and this is the value
it was made from because the bytes that were dropped are all sign (`IntKept`, `UintKept`).  That no
fewer bytes do is `EnoughForInt`, `EnoughForUint`.  `OnItsWay` then only carries the facts from the
factory to the decoder.

**Datums.**  What a datum is encoded to depends on what its parts are, to any depth, so the facts
about `Datum` are proved by induction over the levels, and those about lists by induction over the
turns of the loop.  The library's induction theorems take a predicate as a parameter, which the
provers cannot instantiate.  `Recursion` gets around this: its `Induction` is about a set, proved
from the fact that `<` is well-founded on the natural numbers, and its `Starts` and `Defined` say that
a recursive definition `f[n \in Nat] == Body(p, f[n - 1], n)` defines a function and which.
`EncodingProofs` instantiates it for the seven functions of `Datum` and for its three loops, and with
that turns each definition into an equation between one level and the next.

* `AllSized`: every datum has as many bytes as `size()` announces, and its first is not the token that
  ends a list.
* `AllReread`: the encoding of every datum is also that of one the decoder yields when it finds these
  bytes anywhere in a packet (`Kept`), and this one is equal, by `operator==`, to what was sent.  The
  detour is needed because a datum does not come back as it was: what was never set comes back as the
  end of a session, fields that the type does not use are lost, and an atom's unused bytes are.
* `AllFound`: whatever the decoder accepts is `Kept`, and its encoding is the bytes it was found in;
  for a list this is an invariant of the loop (`SoFar`: the items read so far are `Kept`, and what was
  read is what they are encoded to).
* `AllStay`: a call of an accessor, at the end of any path, makes a datum of a datum.

That a cut is noticed follows from the first three without a further induction: were a proper
beginning accepted, then what it was decoded to would be encoded to a proper beginning of it, be
`Kept`, hence be decoded from the whole as well, and that is as long as the whole.
`DatumOnItsWay` is the inductive invariant of the machine: what is built is a datum, what is sent is
its encoding or a proper beginning of it, and what is received is what these bytes decode to.

Only model-checked: liveness (`OperationEnds`, `CloseEnds`, `TransferEnds`, `LoopEnds`,
`EntryEnds`, `EndsWhenTold`), which TLAPS does not do under fairness.  Assumed, and evaluated by TLC
for the values of the run: that the digits of a length, read as a number, give it back
(`HeaderHoldsSize`).

## 6. Plan

Done: every module of section 2, checked; every safety property the runs check, proved.

Next: the method calls of `drive` between `Session` and `Datum`: `table_get` of one column from an
answer of another shape, which covers one of the two hazards without a property.

## 7. Not modelled

Transactions (no tool calls them); of `rawdrive` the 12-byte commands (`USE_ATA12` is 0),
`request_ioctl`, which no tool reaches, and the strings of the identify block, which are only
printed; `pin_from_file`, the listing of users and the certificate, which only read; debug output
and the progress bar; the vendored byte order macros; the unit tests (read as documentation of the
codecs).  Two tools that use one device at the same moment are not modelled: one process at a time
runs in `Session`, `Lifecycle` and `Locking`, and nothing in the code locks the device; what another
tool does to the locks while a `drive` object is open is `Discovery`'s `LocksChange`.
