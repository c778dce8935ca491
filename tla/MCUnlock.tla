------------------------------ MODULE MCUnlock ------------------------------
\* The boot image's tool in two parts of one run: tp_unlock_simple
\* (UnlockSimple) and the PIN prompt that it and the other tools use (PinEntry).
\* A behaviour is of one part; the variables of the other rest.  Values for TLC:
\* -r 0 and -r -1, one range, all, and one more than there are.
EXTENDS UnlockSimple

VARIABLES
    part,                           \* "unlock" or "entry"
    step, confirm, turn, handler, old_action, echo, input, entered, pin1, result,
    typed, signalled, broken        \* PinEntry's

MCCounts == {-1, 0, 1, 2, 3}

P == INSTANCE PinEntry WITH
        pc <- step, cin <- input, pin <- entered, outcome <- result, Lines <- PINs

pvars == <<step, confirm, turn, handler, old_action, echo, input, entered, pin1, result,
           typed, signalled, broken>>

MCInit ==
    /\ Init /\ P!Init /\ part \in {"unlock", "entry"}
    /\ part = "entry" => ~pin_valid /\ range_count = 1 /\ \A d \in 1..Drives : secret[d] = "abc"

MCNext ==
    /\ UNCHANGED part
    /\ \/ part = "unlock" /\ Next /\ UNCHANGED pvars
       \/ part = "entry" /\ P!Next /\ UNCHANGED vars

\* The fairness of the two modules.
MCSpec ==
    /\ MCInit /\ [][MCNext]_<<part, vars, pvars>>
    /\ WF_vars(part = "unlock" /\ Host)
    /\ SF_vars(part = "unlock" /\ TypePin(secret[1]))
    /\ WF_pvars(part = "entry" /\ P!Host) /\ WF_pvars(part = "entry" /\ P!User)

-----------------------------------------------------------------------------
\* As long as the input is neither interrupted nor at its end, and the drive has
\* the ranges asked for, the loop of tp_unlock_simple ends.
LoopEnds == part = "unlock" => LoopUnlocksByPin

\* Whenever the process dies of INT or TERM, or pin_from_console has returned,
\* the terminal echoes, unless it refused to be set (pin_entry.cpp).
NeverLeftDark == P!NeverLeftDark

\* A confirmed PIN was typed twice, unless the input was interrupted or closed
\* (pin_entry.cpp).
ConfirmedPin == P!ConfirmedPin

\* A call of pin_from_console ends as soon as the user answers, or a signal does
\* so in his place (pin_entry.cpp).
EntryEnds == P!EntryEnds
=============================================================================
