------------------------------ MODULE Locking ------------------------------
(***************************************************************************)
(* The locks of a drive and the tool that works them: tp_lock setpin, mbr,  *)
(* lock, wr_lock, unlock, their permanent forms, setrange and wipe, one run *)
(* after another.                                                           *)
(*                                                                         *)
(* A command is a login and a sequence of calls, each of which is carried   *)
(* out and answered, refused, or fails with or without its effect; the      *)
(* first exception ends the run, and so does the death of the process.      *)
(* A power cycle forgets the session and locks what is locked on reset.     *)
(*                                                                         *)
(* UIDs are pairs of their high and low words, as uid.h makes them.         *)
(***************************************************************************)
EXTENDS Integers, Sequences

CONSTANTS
    Ranges,     \* LBA ranges the drive has, 0 the global one
    Accounts,   \* authorities of the Locking SP
    PINs,
    Names,      \* what may follow -u: <<"admin" or "user", number>>
    Commands,   \* [verb, id, first, last], the numbers as atoi reads them
    Word        \* 2^64

Locks == {"lock_on_reset", "wr_lock_on_reset", "unlock_on_reset", "lock", "wr_lock", "unlock"}

Verbs == Locks \cup {"setrange", "wipe", "setpin", "mbr enable", "mbr disable", "mbr hide", "mbr unhide"}

\* What the values of the constants stand for.
Constants ==
    /\ Word \in Nat \ {0} /\ Ranges \subseteq Nat /\ Accounts \subseteq {9} \X Int
    /\ \A c \in Commands : c.verb \in Verbs /\ c.id \in Int /\ c.first \in Int /\ c.last \in Int

VARIABLES
    pc,         \* "off", "entry" (of a new PIN), "calls"
    command,    \* the command line
    user,       \* the authority it logged in with; Nobody between two runs
    todo,       \* the calls still to be made
    outcome,    \* how the last run ended
    session,    \* the authority the drive knows of; Nobody without a session
    cell,       \* columns of the LBA ranges and of MBR control
    cpin,       \* PIN of each account
    key,        \* "old", or "new" if it was generated in this run
    asked,      \* history: what the last completed command wanted of a cell
    span        \* history: <<first, last>> of the last completed setrange

tool == <<pc, command, user, todo, outcome>>
rows == <<cell, cpin, key>>
vars == <<tool, session, rows, asked, span>>

LBA_RANGE_GLOBAL == <<2050, 1>>
LBA_RANGE_BASE   == <<2050, 196608>>
MBR_CONTROL      == <<2051, 1>>
ADMIN_BASE       == <<9, 65536>>
USER_BASE        == <<9, 196608>>
C_PIN_USER_BASE  == <<11, 196608>>

Plus(uid, n) == <<uid[1], uid[2] + n>>

range_id_to_uid(id) == IF id = 0 THEN LBA_RANGE_GLOBAL ELSE Plus(LBA_RANGE_BASE, id)

get_uid(name) == Plus(IF name[1] = "admin" THEN ADMIN_BASE ELSE USER_BASE, name[2])

\* Mutant of pin_uid: the offset between the tables of administrators and users.
AdminPinUid(u) ==
    <<u[1] + C_PIN_USER_BASE[1] - ADMIN_BASE[1], u[2] + C_PIN_USER_BASE[2] - ADMIN_BASE[2]>>

pin_uid(u) ==
    <<u[1] + C_PIN_USER_BASE[1] - USER_BASE[1], u[2] + C_PIN_USER_BASE[2] - USER_BASE[2]>>

-----------------------------------------------------------------------------
\* The calls of a command.
Set(uid, col, val) == [op |-> "set", uid |-> uid, col |-> col, val |-> val]
Get(uid, col)      == [op |-> "get", uid |-> uid, col |-> col, val |-> 0]
Genkey(uid)        == [op |-> "genkey", uid |-> uid, col |-> 0, val |-> 0]

\* Mutant of lock_ctl: the bases are swapped.
LockNow(id, on_reset, rd_lock, wr_lock) ==
    LET col_base == IF on_reset THEN 7 ELSE 5
    IN << Set(range_id_to_uid(id), col_base, rd_lock),
          Set(range_id_to_uid(id), col_base + 1, wr_lock) >>

\* Permanent state, or current and temporary state.
lock_ctl(id, on_reset, rd_lock, wr_lock) ==
    LET col_base == IF on_reset THEN 5 ELSE 7
    IN << Set(range_id_to_uid(id), col_base, rd_lock),
          Set(range_id_to_uid(id), col_base + 1, wr_lock) >>

\* Mutant of range_ctl: it is short of the last block.
RangeCtlShort(id, first, last) ==
    << Set(range_id_to_uid(id), 3, first),
       Set(range_id_to_uid(id), 4, (last - first) % Word) >>

range_ctl(id, first, last) ==
    << Set(range_id_to_uid(id), 3, first),
       Set(range_id_to_uid(id), 4, (last + 1 - first) % Word) >>

\* Mutant of wipe_range: always the key of the global range.
WipeGlobal(id) == << Get(range_id_to_uid(id), 10), Genkey(range_id_to_uid(0)) >>

\* The key of the range is asked for first (a key is named by its range here).
wipe_range(id) == << Get(range_id_to_uid(id), 10), Genkey(range_id_to_uid(id)) >>

mbr(verb) ==
    << CASE verb = "mbr enable"  -> Set(MBR_CONTROL, 1, 1)
         [] verb = "mbr disable" -> Set(MBR_CONTROL, 1, 0)
         [] verb = "mbr hide"    -> Set(MBR_CONTROL, 2, 1)
         [] verb = "mbr unhide"  -> Set(MBR_CONTROL, 2, 0) >>

Calls(c) ==
    CASE c.verb = "lock_on_reset"    -> lock_ctl(c.id, TRUE, 1, 1)
      [] c.verb = "wr_lock_on_reset" -> lock_ctl(c.id, TRUE, 0, 1)
      [] c.verb = "unlock_on_reset"  -> lock_ctl(c.id, TRUE, 0, 0)
      [] c.verb = "lock"             -> lock_ctl(c.id, FALSE, 1, 1)
      [] c.verb = "wr_lock"          -> lock_ctl(c.id, FALSE, 0, 1)
      [] c.verb = "unlock"           -> lock_ctl(c.id, FALSE, 0, 0)
      [] c.verb = "setrange"         -> range_ctl(c.id, c.first % Word, c.last % Word)
      [] c.verb = "wipe"             -> wipe_range(c.id)
      [] OTHER                       -> mbr(c.verb)

LockState(r, enable, state, on, off) ==
    IF cell[range_id_to_uid(r)][enable] = 0 THEN "-"
    ELSE IF cell[range_id_to_uid(r)][state] = 0 THEN off ELSE on

\* What "ranges" prints of a range, but for its key.
query_range(r) ==
    LET start == cell[range_id_to_uid(r)][3]
        size  == cell[range_id_to_uid(r)][4]
    IN [read  |-> LockState(r, 5, 7, "R", "r"),
        write |-> LockState(r, 6, 8, "W", "w"),
        start |-> start, size |-> size,
        last  |-> IF size # 0 THEN (start + size - 1) % Word ELSE 0]

-----------------------------------------------------------------------------
Nobody   == <<0, 0>>
Objects  == {range_id_to_uid(r) : r \in Ranges}
Tables   == Objects \cup {MBR_CONTROL}
Columns(o) == IF o = MBR_CONTROL THEN {1, 2} ELSE 3..8
Unknown  == -1

Init ==
    /\ pc = "off" /\ command \in Commands /\ user = Nobody
    /\ todo = << >> /\ outcome = "none"
    /\ session = Nobody
    /\ cell = [o \in Tables |-> [n \in 1..8 |-> 0]]
    /\ \E p \in PINs : cpin = [a \in Accounts |-> p]
    /\ key = [o \in Objects |-> "old"]
    /\ asked = [o \in Tables |-> [n \in 1..8 |-> Unknown]]
    /\ span = [o \in Objects |-> << >>]

\* The drive (external).
Does(call) ==
    /\ session # Nobody
    /\ \/ call.op = "set" /\ call.uid \in Tables /\ call.col \in Columns(call.uid)
          /\ cell' = [cell EXCEPT ![call.uid][call.col] = call.val]
          /\ UNCHANGED <<cpin, key>>
       \/ call.op = "set" /\ call.col = 3 /\ \E a \in Accounts :
            /\ call.uid = <<11, a[2]>>
            /\ cpin' = [cpin EXCEPT ![a] = call.val]
            /\ UNCHANGED <<cell, key>>
       \/ call.op = "get" /\ call.uid \in Objects /\ UNCHANGED rows
       \/ call.op = "genkey" /\ call.uid \in Objects
          /\ key' = [key EXCEPT ![call.uid] = "new"]
          /\ UNCHANGED <<cell, cpin>>

LocksNow ==
    [o \in Tables |-> [n \in 1..8 |->
        IF n \in {7, 8} /\ cell[o][n - 2] = 1 THEN 1
        ELSE IF o = MBR_CONTROL /\ n = 2 THEN 0 ELSE cell[o][n]]]

-----------------------------------------------------------------------------
\* What a command line asks for, in the words of usage(): of which object, of
\* which columns, and their values.
About(c) == IF c.verb \in Locks THEN range_id_to_uid(c.id) ELSE MBR_CONTROL

Goal(c) ==
    CASE c.verb = "lock_on_reset"    -> [n \in {5, 6} |-> 1]
      [] c.verb = "wr_lock_on_reset" -> [n \in {5, 6} |-> n - 5]
      [] c.verb = "unlock_on_reset"  -> [n \in {5, 6} |-> 0]
      [] c.verb = "lock"             -> [n \in {7, 8} |-> 1]
      [] c.verb = "wr_lock"          -> [n \in {7, 8} |-> n - 7]
      [] c.verb = "unlock"           -> [n \in {7, 8} |-> 0]
      [] c.verb = "mbr enable"       -> [n \in {1} |-> 1]
      [] c.verb = "mbr disable"      -> [n \in {1} |-> 0]
      [] c.verb = "mbr hide"         -> [n \in {2} |-> 1]
      [] c.verb = "mbr unhide"       -> [n \in {2} |-> 0]
      [] OTHER                       -> [n \in {} |-> 0]

Expect(c, known) ==
    [asked EXCEPT ![About(c)] =
        [n \in 1..8 |-> IF n \notin DOMAIN Goal(c) THEN @[n] ELSE IF known THEN Goal(c)[n] ELSE Unknown]]

Place(c, s) == IF c.verb = "setrange" THEN [span EXCEPT ![range_id_to_uid(c.id)] = s] ELSE span

End(how) == pc' = "off" /\ outcome' = how /\ todo' = << >> /\ user' = Nobody

LoggedIn(name, pin) ==
    /\ get_uid(name) \in Accounts /\ cpin[get_uid(name)] = pin
    /\ user' = get_uid(name) /\ session' = user'
    /\ IF command'.verb = "setpin" THEN pc' = "entry" /\ UNCHANGED todo
       ELSE pc' = "calls" /\ todo' = Calls(command')
    /\ outcome' = "none"
    /\ asked' = Expect(command', FALSE) /\ span' = Place(command', << >>)

\* main up to its operations: the command line, the PIN, a drive without a
\* session, the login.
Login(c, name, pin) ==
    /\ pc = "off"
    /\ command' = c
    /\ LoggedIn(name, pin)
    /\ key' = [o \in Objects |-> "old"]
    /\ UNCHANGED <<cell, cpin>>

\* The PIN is wrong, the user unknown, the drive is not there.
LoginFails ==
    /\ pc = "off"
    /\ session' = Nobody /\ End("exception")
    /\ UNCHANGED <<command, rows, asked, span>>

\* The new PIN: given with -n or -N, or typed twice, not always the same way.
Entry ==
    /\ pc = "entry"
    /\ \/ \E new_pin \in PINs : todo' = << Set(pin_uid(user), 3, new_pin) >>
          /\ pc' = "calls" /\ UNCHANGED <<user, outcome>>
       \/ End("exception")
    /\ UNCHANGED <<command, session, rows, asked, span>>

Completed ==
    /\ asked' = Expect(command, TRUE)
    /\ span' = Place(command, <<command.first % Word, command.last % Word>>)

\* A call that is carried out and answered; the command returns with the last.
Call ==
    /\ pc = "calls"
    /\ Does(Head(todo))
    /\ IF Len(todo) = 1 THEN End("done") /\ Completed
       ELSE todo' = Tail(todo) /\ UNCHANGED <<pc, outcome, user, asked, span>>
    /\ UNCHANGED <<command, session>>

\* An exception, the call carried out or not.
Fault ==
    /\ pc = "calls"
    /\ Does(Head(todo)) \/ UNCHANGED rows
    /\ End("exception")
    /\ UNCHANGED <<command, session, asked, span>>

Kill ==
    /\ pc # "off"
    /\ End("killed")
    /\ UNCHANGED <<command, session, rows, asked, span>>

PowerCycle ==
    /\ session' = Nobody
    /\ cell' = LocksNow
    /\ asked' = [o \in Tables |-> [n \in 1..8 |->
                   IF o = MBR_CONTROL /\ n = 2 THEN 0
                   ELSE IF n \notin {7, 8} \/ asked[o][n - 2] = 0 THEN asked[o][n]
                   ELSE asked[o][n - 2]]]
    /\ UNCHANGED <<tool, cpin, key, span>>

GoOn == LoginFails \/ Entry \/ Call \/ Fault \/ Kill \/ PowerCycle

Next == GoOn \/ \E c \in Commands, n \in Names, p \in PINs : Login(c, n, p)

Spec == Init /\ [][Next]_vars

-----------------------------------------------------------------------------
Readable(r) == ~(cell[range_id_to_uid(r)][5] = 1 /\ cell[range_id_to_uid(r)][7] = 1)
Writable(r) == ~(cell[range_id_to_uid(r)][6] = 1 /\ cell[range_id_to_uid(r)][8] = 1)

\* Whatever commands completed, failed half way or were killed before, and
\* whatever power cycles there were: a range whose last permanent and last
\* temporary command completed can be read and written as the two say, where a
\* power cycle counts as a temporary lock of what is locked on reset.  The
\* shadow MBR likewise is enabled and hidden as asked, until a reset.
LocksAsAsked ==
    /\ \A r \in Ranges :
         LET a(n) == asked[range_id_to_uid(r)][n]
         IN /\ a(5) # Unknown /\ a(7) # Unknown => Readable(r) = (a(5) = 0 \/ a(7) = 0)
            /\ a(6) # Unknown /\ a(8) # Unknown => Writable(r) = (a(6) = 0 \/ a(8) = 0)
    /\ \A n \in {1, 2} :
         asked[MBR_CONTROL][n] # Unknown => cell[MBR_CONTROL][n] = asked[MBR_CONTROL][n]

\* setpin changes the PIN of the authority that has logged in and no other,
\* whether it is an administrator or a user and however its name was spelled
\* (the offset between the two tables is the same for both).
ChangesOwnPin == \A a \in Accounts : cpin'[a] # cpin[a] => a = session /\ command.verb = "setpin"

\* What "ranges" prints after a completed setrange is what was asked for, and
\* its letters say whether the range is open at this moment.
RangesTruthful ==
    \A r \in Ranges :
        LET q == query_range(r)
            s == span[range_id_to_uid(r)]
        IN /\ (q.read = "R") = ~Readable(r) /\ (q.write = "W") = ~Writable(r)
           /\ s # << >> => q.start = s[1] /\ (q.size # 0 => q.last = s[2])

\* A completed wipe has replaced the key of the range, and of no other one.  (The
\* id of a range is not checked; one negative id is the global range's.)
WipesOneRange ==
    pc = "off" /\ outcome = "done" =>
        \A r \in Ranges :
            key[range_id_to_uid(r)] = "new" <=>
                /\ command.verb = "wipe"
                /\ \/ command.id = r
                   \/ r = 0 /\ command.id = LBA_RANGE_GLOBAL[2] - LBA_RANGE_BASE[2]
=============================================================================
