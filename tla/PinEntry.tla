------------------------------ MODULE PinEntry ------------------------------
(***************************************************************************)
(* Reading a PIN from the terminal: pin_from_console, which switches the    *)
(* echo off for the time it takes and guards itself against Ctrl-C (INT)    *)
(* and TERM, and pin_from_console_check, which asks twice.                   *)
(*                                                                         *)
(* The handler of the two signals only switches the echo on again.  It is   *)
(* installed without SA_RESTART, so a signal that arrives while getline     *)
(* waits for input ends the read; cin then is in a failed state that        *)
(* nothing clears, and every later getline delivers an empty line at once.  *)
(***************************************************************************)
CONSTANTS
    Lines,      \* what a user may type before the return key
    Empty       \* the empty line

\* A user may type it.
EmptyIsALine == Empty \in Lines

VARIABLES
    pc,             \* the next statement of pin_from_console (see Pc)
    confirm,        \* pin_from_console_check
    turn,           \* which of its two calls
    handler,        \* what the process does on INT and on TERM
    old_action,     \* the handlers to restore
    echo,           \* of the terminal
    cin,            \* "good" or "failed"
    pin, pin1,      \* what this call has read, what the first one returned
    outcome,        \* how the process, or its reading of a PIN, ended
    typed,          \* history: the lines the user typed, by turn
    signalled,      \* history: the handler ran in this call
    broken          \* history: the terminal refused to be set

code == <<pc, confirm, turn, pin, pin1, outcome>>
vars == <<code, handler, old_action, echo, cin, typed, signalled, broken>>

Signals == {"INT", "TERM"}

\* Between two statements; "read" covers the prompt, and the wait for input.
Pc == {"out", "set INT", "set TERM", "echo off", "read", "echo on",
       "restore INT", "restore TERM", "over"}

Default == [s \in Signals |-> "default"]

Untyped == [t \in {1, 2} |-> "nothing"]

Init ==
    /\ pc = "out" /\ confirm = FALSE /\ turn = 1
    /\ handler = Default /\ old_action = Default
    /\ echo = TRUE /\ cin = "good"
    /\ pin = Empty /\ pin1 = Empty /\ outcome = "none"
    /\ typed = Untyped /\ signalled = FALSE /\ broken = FALSE

-----------------------------------------------------------------------------
\* The tools call one of the two, and may call again after a return.
Call(check) ==
    /\ pc = "out"
    /\ pc' = "set INT" /\ confirm' = check /\ turn' = 1
    /\ typed' = Untyped /\ signalled' = FALSE
    /\ outcome' = "none" /\ pin' = Empty /\ pin1' = Empty
    /\ UNCHANGED <<handler, old_action, echo, cin, broken>>

Install(s, here, next) ==
    /\ pc = here
    /\ pc' = next
    /\ old_action' = [old_action EXCEPT ![s] = handler[s]]
    /\ handler' = [handler EXCEPT ![s] = "pin_signal_handler"]
    /\ UNCHANGED <<confirm, turn, pin, pin1, outcome, echo, cin, typed, signalled, broken>>

\* Mutant of SetHandlers: TERM is forgotten.
SetIntOnly == Install("INT", "set INT", "echo off")

SetHandlers == Install("INT", "set INT", "set TERM") \/ Install("TERM", "set TERM", "echo off")

SetEcho(on, here, next) ==
    /\ pc = here
    /\ pc' = next
    /\ echo' = on
    /\ UNCHANGED <<confirm, turn, pin, pin1, outcome, handler, old_action, cin, typed, signalled, broken>>

\* set_terminal_echo throws: the terminal is gone, or stdin never was one.
EchoFails ==
    /\ pc \in {"echo off", "echo on"}
    /\ pc' = "over" /\ outcome' = "exception" /\ broken' = TRUE
    /\ UNCHANGED <<confirm, turn, pin, pin1, handler, old_action, echo, cin, typed, signalled>>

\* getline: a line, a line that the end of the input cuts short, or nothing.
Getline(line, state) ==
    /\ pc = "read"
    /\ pc' = "echo on"
    /\ pin' = line /\ cin' = state
    /\ UNCHANGED <<confirm, turn, pin1, outcome, handler, old_action, echo, signalled, broken>>

ReadLine ==
    /\ cin = "good"
    /\ \E line \in Lines, state \in {"good", "failed"} :
         Getline(line, state) /\ typed' = [typed EXCEPT ![turn] = line]

EndOfInput == cin = "good" /\ Getline(Empty, "failed") /\ UNCHANGED typed

\* Mutant of ReadNothing: a failed read is tried again.
ReadAgain == pc = "read" /\ cin = "failed" /\ UNCHANGED vars

ReadNothing == cin = "failed" /\ Getline(Empty, "failed") /\ UNCHANGED typed

Restore(s, here) ==
    /\ pc = here
    /\ handler' = [handler EXCEPT ![s] = old_action[s]]

RestoreInt ==
    /\ Restore("INT", "restore INT")
    /\ pc' = "restore TERM"
    /\ UNCHANGED <<confirm, turn, pin, pin1, outcome, old_action, echo, cin, typed, signalled, broken>>

\* Mutant of Answer: the two lines are not compared.
AnswerSecond == "pin"

\* pin_from_console_check: what it has come to when its second call returns.
Answer == IF confirm /\ pin1 # pin THEN "no match" ELSE "pin"

\* The return of pin_from_console; pin_from_console_check calls it again.
RestoreTerm ==
    /\ Restore("TERM", "restore TERM")
    /\ IF confirm /\ turn = 1
       THEN pc' = "set INT" /\ turn' = 2 /\ pin1' = pin /\ UNCHANGED outcome
       ELSE pc' = "out" /\ outcome' = Answer /\ UNCHANGED <<turn, pin1>>
    /\ UNCHANGED <<confirm, pin, old_action, echo, cin, typed, signalled, broken>>

-----------------------------------------------------------------------------
\* A signal arrives, anywhere.  pin_signal_handler returns to where it came
\* from, unless it ended a read; if the handler is not there the process dies.
Handle ==
    /\ echo' = TRUE /\ signalled' = TRUE
    /\ \/ UNCHANGED <<code, cin>>
       \/ /\ pc = "read" /\ cin = "good"
          /\ pc' = "echo on" /\ pin' = Empty /\ cin' = "failed"
          /\ UNCHANGED <<confirm, turn, pin1, outcome>>

Die ==
    /\ pc' = "over" /\ outcome' = "killed"
    /\ UNCHANGED <<confirm, turn, pin, pin1, echo, cin, signalled>>

Signal(s) ==
    /\ pc # "over"
    /\ IF handler[s] = "default" THEN Die ELSE Handle
    /\ UNCHANGED <<handler, old_action, typed, broken>>

EchoOff == SetEcho(FALSE, "echo off", "read")
EchoOn  == SetEcho(TRUE, "echo on", "restore INT")

Host ==
    \/ SetHandlers \/ EchoOff \/ ReadNothing \/ EchoOn \/ RestoreInt \/ RestoreTerm

User == ReadLine \/ EndOfInput

Next ==
    \/ Host \/ User \/ EchoFails
    \/ \E check \in BOOLEAN : Call(check)
    \/ \E s \in Signals : Signal(s)

Spec == Init /\ [][Next]_vars

\* The process runs; somebody answers the prompt, or closes the terminal.
FairSpec == Spec /\ WF_vars(Host) /\ WF_vars(User)

-----------------------------------------------------------------------------
\* Every variable has its type.
TypeOK ==
    /\ pc \in Pc /\ confirm \in BOOLEAN /\ turn \in {1, 2}
    /\ handler \in [Signals -> {"default", "pin_signal_handler"}]
    /\ old_action = Default
    /\ echo \in BOOLEAN /\ cin \in {"good", "failed"}
    /\ pin \in Lines /\ pin1 \in Lines
    /\ outcome \in {"none", "pin", "no match", "exception", "killed"}
    /\ typed \in [{1, 2} -> Lines \cup {"nothing"}]
    /\ signalled \in BOOLEAN /\ broken \in BOOLEAN

\* Whenever the process dies of INT or TERM, or pin_from_console has returned,
\* the terminal echoes, unless it refused to be set: the handlers are there
\* before the echo goes off and until it is on again.
NeverLeftDark == pc \in {"out", "over"} /\ ~broken => echo

\* A PIN returned by pin_from_console_check was typed twice in the same way, as
\* long as the input was neither interrupted nor closed.
TypedTwice ==
    pc = "out" /\ outcome = "pin" /\ confirm => typed[1] = pin /\ typed[2] = pin

ConfirmedPin == cin = "good" => TypedTwice

\* A call of pin_from_console ends as soon as the user answers, or a signal does
\* so in his place; with a failed cin it does not wait for anyone.
EntryEnds == pc = "set INT" ~> pc \in {"out", "over"}
=============================================================================
