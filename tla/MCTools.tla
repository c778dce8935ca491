------------------------------ MODULE MCTools ------------------------------
\* The tools that own, set up and lock a drive, in three parts of one run:
\* tp_admin and tp_wipe (Lifecycle), and tp_lock (Locking) with its locks alone
\* and with its other commands.  A behaviour is of one part; the variables of
\* the others rest.  Values for TLC: the default PIN, the owner's and one that is
\* neither; every pair of permanent and temporary locks of a range beside those
\* of another; placements of a range with their arithmetic (a word of 16 blocks stands for
\* 2^64); id 7 is a range the drive does not have, -196607 another name of range 0.
EXTENDS Lifecycle, Integers

CONSTANTS
    msid, owner, other, psid,                               \* the PINs of the SID, and the PSID
    Ranges, Accounts, UserPINs, Names, CommandLines, Word   \* Locking's

VARIABLES
    part,                           \* "lifecycle", "locks" or "setup"
    step, command, user, todo, ended, login, cell, cpin, key, asked, span   \* Locking's

K == INSTANCE Locking WITH
        pc <- step, outcome <- ended, session <- login, PINs <- UserPINs, Commands <- CommandLines

ASSUME LockingConstants == K!Constants

MCPINs == {msid, owner, other}

Cmd(verb, id, first, last) == [verb |-> verb, id |-> id, first |-> first, last |-> last]

MCLocks == {"lock_on_reset", "wr_lock_on_reset", "unlock_on_reset", "lock", "wr_lock", "unlock"}

LockCommands == {Cmd(v, 0, 0, 0) : v \in MCLocks}
                  \cup {Cmd(v, 1, 0, 0) : v \in {"lock_on_reset", "wr_lock", "unlock"}}

SetupCommands ==
    {Cmd("setrange", 1, 0, -1), Cmd("setrange", 1, 5, 9)}
      \cup {Cmd("wipe", id, 0, 0) : id \in {0, 1, -196607}}
      \cup {Cmd(v, 0, 0, 0) : v \in {"setpin", "mbr enable", "mbr disable", "mbr hide", "mbr unhide"}}
      \cup {Cmd("lock_on_reset", 7, 0, 0)}

MCadmin1 == <<9, 65537>>
MCuser1  == <<9, 196609>>

\* admin131073 has the UID of user1.
MCNames == {<<"admin", 1>>, <<"user", 1>>, <<"admin", 131073>>}

MCAccounts == {MCadmin1, MCuser1}

MCCommands == LockCommands \cup SetupCommands

lvars == <<step, command, user, todo, ended, login, cell, cpin, key, asked, span>>

OldPins == [a \in Accounts |-> "old"]

ToolsInit ==
    /\ Init /\ K!Init /\ part \in {"lifecycle", "locks", "setup"}
    /\ command \in CASE part = "lifecycle" -> {Cmd("lock", 0, 0, 0)}
                      [] part = "locks"     -> LockCommands
                      [] part = "setup"     -> SetupCommands
    /\ part # "setup" => cpin = OldPins

Lock(commands, names) ==
    K!GoOn \/ \E c \in commands, n \in names, p \in UserPINs : K!Login(c, n, p)

ASSUME PartsOfLocking ==
    LockCommands \cup SetupCommands \subseteq CommandLines /\ <<"admin", 1>> \in Names

ToolsNext ==
    /\ UNCHANGED part
    /\ \/ part = "lifecycle" /\ Next /\ UNCHANGED lvars
       \/ part = "locks" /\ Lock(LockCommands, {<<"admin", 1>>}) /\ UNCHANGED vars
       \/ part = "setup" /\ Lock(SetupCommands, Names) /\ UNCHANGED vars

ToolsSpec == ToolsInit /\ [][ToolsNext]_<<part, vars, lvars>>

-----------------------------------------------------------------------------
\* Ranges and shadow MBR are as the last completed commands asked for, whatever
\* broke off in between (tp_lock.cpp, Locking's property).
LocksAsAsked == K!LocksAsAsked

\* "ranges" prints what was asked for, and what is (tp_lock.cpp).
RangesTruthful == K!RangesTruthful

\* A completed wipe has replaced the key of its range only (tp_lock.cpp).
WipesOneRange == K!WipesOneRange

\* setpin changes the PIN of the authority logged in and no other (tp_lock.cpp).
OwnPinOnly == [][K!ChangesOwnPin]_(K!vars)
=============================================================================
