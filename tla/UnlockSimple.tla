---------------------------- MODULE UnlockSimple ----------------------------
(***************************************************************************)
(* tp_unlock_simple, the tool of the shadow MBR's boot image: it asks for a *)
(* PIN until it has unlocked the first drive, then tries the same PIN on    *)
(* the drives that follow.                                                  *)
(*                                                                         *)
(* Each attempt is one drive object of its own, so it starts without a      *)
(* session; the object that main keeps open beside it never has one.  The   *)
(* PIN is read as in PinEntry: once a signal or the end of the input has    *)
(* failed cin, every prompt delivers an empty PIN at once.                  *)
(***************************************************************************)
EXTENDS Integers

CONSTANTS
    Drives,         \* number of drives on the command line
    Ranges,         \* number of LBA ranges of a drive, the global one included
    Counts,         \* values of -r, as atoi reads them
    PINs,
    Empty,          \* the empty PIN
    MaxFaults,      \* bound: failures of calls the drive could have carried out
    Word            \* 2^64

ASSUME SizesNat ==
    /\ Drives \in Nat \ {0} /\ Ranges \in Nat \ {0} /\ MaxFaults \in Nat
    /\ Counts \subseteq Int /\ Word \in Nat /\ Word > Ranges
    /\ Empty \in PINs

VARIABLES
    pc,             \* "start", "entry", "login", "set", or "over"
    optind,         \* the drive of the current attempt
    pin, pin_valid,
    range_count,
    count,          \* the range the next call is about, -1 for MBR control
    column,         \* its column: 7 read lock, 8 write lock
    outcome,        \* "exit" or how else the process ended
    cin,            \* of PinEntry
    session,        \* whether the drive of this attempt has one
    secret,         \* the user's PIN in each drive
    hidden,         \* MBR control, "Done"
    locked,         \* the locks that are on, as <<range, column>>
    faults,         \* number of failures so far
    failed, reset   \* history: attempts that failed; drives reset since their
                    \* last attempt began

tool  == <<pc, optind, pin, pin_valid, range_count, count, column, outcome>>
tper  == <<session, hidden, locked>>
hist  == <<faults, failed, reset>>
vars  == <<tool, cin, tper, secret, hist>>

All == (0..(Ranges - 1)) \X {7, 8}

Init ==
    /\ pc = "start" /\ optind = 1
    /\ pin_valid \in BOOLEAN /\ pin \in IF pin_valid THEN PINs ELSE {Empty}
    /\ range_count \in {n % Word : n \in Counts}
    /\ count = -1 /\ column = 7 /\ outcome = "none"
    /\ cin = "good" /\ session = FALSE
    /\ secret \in [1..Drives -> PINs \ {Empty}]
    /\ hidden = [d \in 1..Drives |-> FALSE] /\ locked = [d \in 1..Drives |-> All]
    /\ faults = 0 /\ failed = {} /\ reset = {}

End(how) == pc' = "over" /\ outcome' = how

-----------------------------------------------------------------------------
\* main: the first drive is opened once more, outside of any try.
Open ==
    /\ pc = "start"
    /\ pc' = IF pin_valid THEN "login" ELSE "entry"
    /\ UNCHANGED <<optind, pin, pin_valid, range_count, count, column, outcome,
                   cin, tper, secret, hist>>

\* An exception nobody catches: no such user, no such drive, no terminal.
Abort ==
    /\ pc \in {"start", "entry"}
    /\ End("aborted")
    /\ UNCHANGED <<optind, pin, pin_valid, range_count, count, column, cin, tper, secret, hist>>

Enter(p) ==
    /\ pc = "entry"
    /\ pc' = "login" /\ pin' = p
    /\ UNCHANGED <<optind, pin_valid, range_count, count, column, outcome, tper, secret, hist>>

\* A line, or one that the end of the input cuts short.
TypePin(p) == cin = "good" /\ Enter(p) /\ cin' \in {"good", "failed"}
Interrupt  == cin = "good" /\ Enter(Empty) /\ cin' = "failed"
NoInput    == cin = "failed" /\ Enter(Empty) /\ UNCHANGED cin

-----------------------------------------------------------------------------
\* Mutant of Again: the failed PIN is tried again.
AgainAtOnce == pc' = "login" /\ UNCHANGED <<pin_valid, optind, outcome>>

\* unlock_target has failed: the loop asks for another PIN.
Again == pc' = "entry" /\ pin_valid' = FALSE /\ UNCHANGED <<optind, outcome>>

\* The next drive, or the end.
NextDrive ==
    /\ IF optind < Drives THEN pc' = "login" /\ UNCHANGED outcome ELSE End("exit")
    /\ optind' = IF optind < Drives THEN optind + 1 ELSE optind
    /\ UNCHANGED pin_valid

\* An exception in unlock_target.
Fails ==
    /\ IF optind = 1 THEN Again ELSE NextDrive
    /\ session' = FALSE
    /\ count' = -1 /\ column' = 7
    /\ failed' = failed \cup {optind}
    /\ UNCHANGED <<pin, range_count, cin, secret, reset>>

Begin == failed' = failed \ {optind} /\ reset' = reset \ {optind}

Login ==
    /\ pc = "login" /\ pin = secret[optind]
    /\ session' = TRUE /\ pc' = "set"
    /\ Begin
    /\ UNCHANGED <<optind, pin, pin_valid, range_count, count, column, outcome,
                   cin, hidden, locked, secret, faults>>

\* Mutant of LastRange: one range too few.
LastButOne == count + 2 >= range_count

LastRange == count + 1 >= range_count

\* The calls of unlock_target in their order; the drive refuses ranges it does
\* not have, and everything when it has been reset.
CanSet == session /\ count < Ranges

\* Mutant of Carry: the columns are swapped.
CarryWriteFirst ==
    IF count = -1 THEN hidden' = [hidden EXCEPT ![optind] = TRUE] /\ UNCHANGED locked
    ELSE locked' = [locked EXCEPT ![optind] = @ \ {<<count, 15 - column>>}] /\ UNCHANGED hidden

Carry ==
    IF count = -1 THEN hidden' = [hidden EXCEPT ![optind] = TRUE] /\ UNCHANGED locked
    ELSE locked' = [locked EXCEPT ![optind] = @ \ {<<count, column>>}] /\ UNCHANGED hidden

Set ==
    /\ pc = "set" /\ CanSet
    /\ Carry
    /\ IF column = 8 /\ LastRange
       THEN NextDrive /\ session' = FALSE /\ count' = -1 /\ column' = 7
       ELSE /\ count' = IF count = -1 THEN 0 ELSE IF column = 7 THEN count ELSE count + 1
            /\ column' = IF count # -1 /\ column = 7 THEN 8 ELSE 7
            /\ UNCHANGED <<pc, optind, pin_valid, outcome, session>>
    /\ UNCHANGED <<pin, range_count, cin, secret, hist>>

Refused ==
    /\ \/ pc = "login" /\ pin # secret[optind]
       \/ pc = "set" /\ ~CanSet
    /\ Fails
    /\ UNCHANGED <<hidden, locked, faults>>

\* A call fails that need not have, carried out or not.
Fault ==
    /\ pc \in {"login", "set"} /\ faults < MaxFaults
    /\ \/ UNCHANGED <<hidden, locked>>
       \/ pc = "set" /\ CanSet /\ Carry
    /\ Fails
    /\ faults' = faults + 1

PowerCycle(d) ==
    /\ faults < MaxFaults /\ faults' = faults + 1
    /\ hidden' = [hidden EXCEPT ![d] = FALSE] /\ locked' = [locked EXCEPT ![d] = All]
    /\ session' = (session /\ d # optind)
    /\ reset' = reset \cup {d}
    /\ UNCHANGED <<tool, cin, secret, failed>>

Kill ==
    /\ pc # "over"
    /\ End("killed")
    /\ UNCHANGED <<optind, pin, pin_valid, range_count, count, column, cin, tper, secret, hist>>

Host == Open \/ NoInput \/ Login \/ Set \/ Refused

Next ==
    \/ Host \/ Abort \/ Interrupt \/ Fault \/ Kill
    \/ \E p \in PINs : TypePin(p)
    \/ \E d \in 1..Drives : PowerCycle(d)

Spec == Init /\ [][Next]_vars

\* The process runs, every call ends (Session's OperationEnds), and a user who
\* is asked again and again types the right PIN some time.
FairSpec == Spec /\ WF_vars(Host) /\ SF_vars(TypePin(secret[1]))

-----------------------------------------------------------------------------
\* Every variable has its type.
TypeOK ==
    /\ pc \in {"start", "entry", "login", "set", "over"} /\ optind \in 1..Drives
    /\ pin \in PINs /\ pin_valid \in BOOLEAN /\ range_count \in 0..(Word - 1)
    /\ count \in -1..Ranges /\ column \in {7, 8}
    /\ outcome \in {"none", "exit", "aborted", "killed"}
    /\ cin \in {"good", "failed"} /\ session \in BOOLEAN
    /\ hidden \in [1..Drives -> BOOLEAN] /\ locked \in [1..Drives -> SUBSET All]
    /\ failed \subseteq 1..Drives /\ reset \subseteq 1..Drives

\* The ranges the user means: the first range_count ones, at least the global one.
Meant == {r \in 0..(Ranges - 1) : r = 0 \/ r < range_count}

Unlocked(d) == hidden[d] /\ \A r \in Meant : <<r, 7>> \notin locked[d] /\ <<r, 8>> \notin locked[d]

\* The tool exits with the first drive unlocked, as far as was asked, whatever
\* attempts failed before and how far they had come; a further drive is
\* unlocked too or its attempt has failed.  (Unless one is reset behind its back.)
ExitMeansUnlocked ==
    outcome = "exit" =>
        /\ Unlocked(1) \/ 1 \in reset
        /\ \A d \in 2..Drives : Unlocked(d) \/ d \in reset \cup failed

\* An attempt that breaks off leaves a drive whose shadow MBR is hidden before
\* any range is open, and whose ranges are open from the first one on and
\* readable before they are writable: no range is left that can be written and
\* not read.
InOrder ==
    \A d \in 1..Drives, r \in 0..(Ranges - 1) :
        /\ <<r, 8>> \notin locked[d] => <<r, 7>> \notin locked[d]
        /\ <<r, 7>> \notin locked[d] => hidden[d] /\ (r > 0 => <<r - 1, 8>> \notin locked[d])

\* As long as the input is neither interrupted nor at its end, and the drive
\* has the ranges asked for, the loop ends.
LoopUnlocksByPin == <>(pc = "over" \/ cin = "failed" \/ range_count > Ranges)
=============================================================================
