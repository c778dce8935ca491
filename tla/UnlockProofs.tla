---------------------------- MODULE UnlockProofs ----------------------------
(***************************************************************************)
(* For any number of drives, ranges, PINs and failures: tp_unlock_simple    *)
(* leaves no drive open in the wrong order, and no drive locked that it has *)
(* not reported, unless it was reset.  For any lines a user may type:       *)
(* whenever INT and TERM arrive, the terminal is not left dark, and a       *)
(* confirmed PIN was typed twice.                                           *)
(***************************************************************************)
EXTENDS MCUnlock, TLAPS

\* How far the running attempt has come, as long as its session lasts.
Progress ==
    /\ count >= 0 => hidden[optind]
    /\ \A r \in 0..(Ranges - 1) :
         r < count => <<r, 7>> \notin locked[optind] /\ <<r, 8>> \notin locked[optind]
    /\ column = 8 => <<count, 7>> \notin locked[optind]

InStep ==
    /\ outcome = "exit" => pc = "over"
    /\ count = -1 => column = 7
    /\ pc \in {"start", "entry", "login"} => count = -1
    /\ pc = "set" /\ session => Progress

\* What is known of the drives that the loop has left behind.
Settled(d) == Unlocked(d) \/ d \in reset \/ (d > 1 /\ d \in failed)

LeftBehind == \A d \in 1..Drives : d < optind \/ outcome = "exit" => Settled(d)

UnlockInvariant == TypeOK /\ InStep /\ LeftBehind /\ InOrder

-----------------------------------------------------------------------------
LEMMA InvariantInit == Init => UnlockInvariant
<1> SUFFICES ASSUME Init PROVE UnlockInvariant
  OBVIOUS
<1>1. range_count \in 0..(Word - 1)
  <2>1. PICK n \in Counts : range_count = n % Word
    BY DEF Init
  <2> QED BY <2>1, SizesNat
<1>2. TypeOK
  <2>1. /\ hidden \in [1..Drives -> BOOLEAN] /\ locked \in [1..Drives -> SUBSET All]
        /\ pin \in PINs /\ pin_valid \in BOOLEAN
    BY SizesNat DEF Init
  <2>2. optind \in 1..Drives /\ count \in -1..Ranges /\ column \in {7, 8}
    BY SizesNat DEF Init
  <2> QED BY <1>1, <2>1, <2>2 DEF Init, TypeOK
<1>3. InStep /\ LeftBehind
  BY SizesNat DEF Init, InStep, LeftBehind
<1>4. \A d \in 1..Drives, r \in 0..(Ranges - 1) : <<r, 7>> \in locked[d] /\ <<r, 8>> \in locked[d]
  BY DEF Init, All
<1>5. InOrder
  BY <1>4 DEF InOrder
<1> QED BY <1>2, <1>3, <1>5 DEF UnlockInvariant

\* A call that is carried out takes the attempt one step further, in order.
LEMMA CarryInOrder ==
    ASSUME UnlockInvariant, pc = "set", CanSet, Carry
    PROVE  /\ hidden' \in [1..Drives -> BOOLEAN] /\ locked' \in [1..Drives -> SUBSET All]
           /\ InOrder'
           /\ \A d \in 1..Drives : d # optind => hidden'[d] = hidden[d] /\ locked'[d] = locked[d]
           /\ hidden'[optind]
           /\ \A r \in 0..(Ranges - 1) :
                r < count => <<r, 7>> \notin locked'[optind] /\ <<r, 8>> \notin locked'[optind]
           /\ count >= 0 => <<count, column>> \notin locked'[optind]
           /\ column = 8 => <<count, 7>> \notin locked'[optind]
<1> USE DEF UnlockInvariant
<1>0. Progress /\ optind \in 1..Drives /\ count \in -1..(Ranges - 1) /\ column \in {7, 8}
  BY SizesNat DEF CanSet, InStep, TypeOK
<1>1. CASE count = -1
  <2>1. hidden' = [hidden EXCEPT ![optind] = TRUE] /\ locked' = locked /\ column = 7
    BY <1>1 DEF Carry, InStep
  <2>2. hidden' \in [1..Drives -> BOOLEAN] /\ locked' \in [1..Drives -> SUBSET All] /\ hidden'[optind]
    BY <1>0, <2>1 DEF TypeOK
  <2>3. \A d \in 1..Drives : hidden[d] => hidden'[d]
    BY <1>0, <2>1 DEF TypeOK
  <2>4. InOrder'
    BY <2>1, <2>3 DEF InOrder
  <2> QED BY <1>0, <1>1, <2>1, <2>2, <2>4 DEF Progress, TypeOK
<1>2. CASE count # -1
  <2>1. count \in 0..(Ranges - 1) /\ hidden[optind]
    BY <1>0, <1>2 DEF Progress
  <2>2. hidden' = hidden /\ locked' = [locked EXCEPT ![optind] = @ \ {<<count, column>>}]
    BY <1>2 DEF Carry
  <2>3. /\ locked' \in [1..Drives -> SUBSET All]
        /\ locked'[optind] = locked[optind] \ {<<count, column>>}
        /\ \A d \in 1..Drives : d # optind => locked'[d] = locked[d]
    BY <1>0, <2>2 DEF TypeOK
  <2>4. InOrder'
    <3> SUFFICES ASSUME NEW d \in 1..Drives, NEW r \in 0..(Ranges - 1)
                 PROVE  /\ <<r, 8>> \notin locked'[d] => <<r, 7>> \notin locked'[d]
                        /\ <<r, 7>> \notin locked'[d] =>
                             hidden'[d] /\ (r > 0 => <<r - 1, 8>> \notin locked'[d])
      BY DEF InOrder
    <3>0. r > 0 => r - 1 \in 0..(Ranges - 1) /\ r - 1 < r
      BY SizesNat
    <3>1. CASE d # optind
      BY <2>2, <2>3, <3>1 DEF InOrder
    <3>2. CASE d = optind
      <4>1. <<r, 8>> \notin locked'[d] => <<r, 7>> \notin locked'[d]
        <5>1. CASE r = count /\ column = 8
          BY <1>0, <2>3, <3>2, <5>1 DEF Progress
        <5>2. CASE ~(r = count /\ column = 8)
          BY <2>3, <3>2, <5>2 DEF InOrder
        <5> QED BY <5>1, <5>2
      <4>2. <<r, 7>> \notin locked'[d] => hidden'[d] /\ (r > 0 => <<r - 1, 8>> \notin locked'[d])
        <5>1. CASE r = count /\ column = 7
          BY <1>0, <2>1, <2>2, <2>3, <3>0, <3>2, <5>1 DEF Progress
        <5>2. CASE ~(r = count /\ column = 7)
          BY <2>2, <2>3, <3>2, <5>2 DEF InOrder
        <5> QED BY <5>1, <5>2
      <4> QED BY <4>1, <4>2
    <3> QED BY <3>1, <3>2
  <2> QED BY <1>0, <2>1, <2>2, <2>3, <2>4 DEF Progress, TypeOK
<1> QED BY <1>1, <1>2

-----------------------------------------------------------------------------
\* What a drive is known for stays true when its attempt fails, or another one.
LEMMA SettledStays ==
    ASSUME NEW d \in 1..Drives, Settled(d), UNCHANGED range_count,
           hidden'[d] = hidden[d] /\ locked'[d] = locked[d],
           d \in reset => d \in reset', d \in failed => d \in failed'
    PROVE  Settled(d)'
<1>1. Unlocked(d) => Unlocked(d)'
  BY DEF Unlocked, Meant
<1> QED BY <1>1 DEF Settled

\* After the last drive the tool ends; otherwise it goes on with the next one.
LEMMA LeftBehindNext ==
    ASSUME UnlockInvariant, NextDrive, outcome # "exit",
           \A d \in 1..Drives : d <= optind => Settled(d)'
    PROVE  LeftBehind' /\ optind' \in 1..Drives /\ (outcome' = "exit" => pc' = "over")
           /\ pc' \in {"login", "over"} /\ outcome' \in {"exit", outcome}
<1>1. optind \in 1..Drives /\ Drives \in Nat
  BY SizesNat DEF UnlockInvariant, TypeOK
<1>2. CASE optind < Drives
  <2>1. optind' = optind + 1 /\ outcome' = outcome /\ pc' = "login"
    BY <1>2 DEF NextDrive
  <2> QED BY <1>1, <1>2, <2>1 DEF LeftBehind
<1>3. CASE ~(optind < Drives)
  <2>1. optind' = optind /\ outcome' = "exit" /\ pc' = "over"
    BY <1>3 DEF NextDrive, End
  <2> QED BY <1>1, <1>3, <2>1 DEF LeftBehind
<1> QED BY <1>2, <1>3

\* An attempt that fails: another PIN for the first drive, the next drive
\* otherwise.
LEMMA FailsStep ==
    ASSUME UnlockInvariant, Fails, pc \in {"login", "set"},
           hidden' \in [1..Drives -> BOOLEAN], locked' \in [1..Drives -> SUBSET All], InOrder',
           \A d \in 1..Drives : d # optind => hidden'[d] = hidden[d] /\ locked'[d] = locked[d]
    PROVE  UnlockInvariant'
<1> USE DEF UnlockInvariant
<1>1. /\ UNCHANGED <<pin, range_count, cin, secret, reset>> /\ session' = FALSE
      /\ count' = -1 /\ column' = 7 /\ failed' = failed \cup {optind}
      /\ optind \in 1..Drives /\ outcome # "exit"
  BY DEF Fails, TypeOK, InStep
<1>2. \A d \in 1..Drives : d < optind => Settled(d)'
  BY <1>1, SettledStays DEF LeftBehind
<1>3. \A d \in 1..Drives : d = optind /\ d > 1 => Settled(d)'
  BY <1>1 DEF Settled
<1>4. /\ LeftBehind' /\ optind' \in 1..Drives /\ (outcome' = "exit" => pc' = "over")
      /\ pc' \in {"entry", "login", "over"} /\ outcome' \in {"exit", outcome}
      /\ pin_valid' \in BOOLEAN
  <2>1. CASE optind = 1
    <3>1. pc' = "entry" /\ pin_valid' = FALSE /\ optind' = optind /\ outcome' = outcome
      BY <2>1 DEF Fails, Again
    <3>2. optind' \in 1..Drives /\ \A d \in 1..Drives : ~(d < optind')
      BY <1>1, <2>1, <3>1, SizesNat
    <3> QED BY <1>1, <3>1, <3>2 DEF LeftBehind
  <2>2. CASE optind # 1
    <3>1. NextDrive /\ optind > 1
      BY <1>1, <2>2 DEF Fails
    <3>2. \A d \in 1..Drives : d <= optind => Settled(d)'
      BY <1>1, <1>2, <1>3, <3>1
    <3>3. pin_valid' \in BOOLEAN
      BY <3>1 DEF NextDrive, TypeOK
    <3> QED BY <1>1, <3>1, <3>2, <3>3, LeftBehindNext
  <2> QED BY <2>1, <2>2
<1>5. TypeOK'
  <2>1. count' \in -1..Ranges
    BY <1>1, SizesNat
  <2>2. failed' \subseteq 1..Drives /\ outcome' \in {"none", "exit", "aborted", "killed"}
    BY <1>1, <1>4 DEF TypeOK
  <2> QED BY <1>1, <1>4, <2>1, <2>2 DEF TypeOK
<1>6. InStep'
  BY <1>1, <1>4 DEF InStep
<1> QED BY <1>4, <1>5, <1>6

LEMMA InvariantStep == UnlockInvariant /\ [Next]_vars => UnlockInvariant'
<1> SUFFICES ASSUME UnlockInvariant, [Next]_vars PROVE UnlockInvariant'
  OBVIOUS
<1> USE DEF UnlockInvariant
<1>0. ASSUME UNCHANGED <<hidden, locked, failed, reset, range_count, optind>>,
             outcome' = "exit" => outcome = "exit"
      PROVE  LeftBehind' /\ InOrder'
  BY <1>0 DEF LeftBehind, InOrder, Settled, Unlocked, Meant
<1>1. CASE Open
  <2>1. LeftBehind' /\ InOrder'
    BY <1>0, <1>1 DEF Open, tper, hist
  <2> QED BY <1>1, <2>1 DEF Open, tper, hist, TypeOK, InStep
<1>2. CASE Abort \/ Kill
  <2>1. LeftBehind' /\ InOrder'
    BY <1>0, <1>2 DEF Abort, Kill, End, tper, hist
  <2> QED BY <1>2, <2>1 DEF Abort, Kill, End, tper, hist, TypeOK, InStep
<1>3. CASE Interrupt \/ NoInput \/ \E p \in PINs : TypePin(p)
  <2>1. \E p \in PINs : Enter(p) /\ cin' \in {"good", "failed"}
    BY <1>3, SizesNat DEF Interrupt, NoInput, TypePin, TypeOK
  <2>2. LeftBehind' /\ InOrder'
    BY <1>0, <2>1 DEF Enter, tper, hist
  <2> QED BY <2>1, <2>2 DEF Enter, tper, hist, TypeOK, InStep
<1>4. CASE Login
  <2>1. /\ pc = "login" /\ pc' = "set" /\ failed' = failed \ {optind} /\ reset' = reset \ {optind}
        /\ session' = TRUE
        /\ UNCHANGED <<optind, pin, pin_valid, range_count, count, column, outcome, cin, hidden, locked>>
    BY <1>4 DEF Login, Begin
  <2>2. LeftBehind'
    <3>1. outcome # "exit" /\ optind \in 1..Drives
      BY <2>1 DEF InStep, TypeOK
    <3> SUFFICES ASSUME NEW d \in 1..Drives, d < optind PROVE Settled(d)'
      BY <2>1, <3>1 DEF LeftBehind
    <3> QED BY <2>1, <3>1, SettledStays DEF LeftBehind
  <2>3. InStep'
    BY <2>1, SizesNat DEF InStep, Progress
  <2> QED BY <2>1, <2>2, <2>3 DEF TypeOK, InOrder
<1>5. CASE Set
  <2>1. /\ pc = "set" /\ CanSet /\ Carry /\ outcome # "exit"
        /\ UNCHANGED <<pin, range_count, cin, secret, faults, failed, reset>>
    BY <1>5 DEF Set, hist, InStep
  <2>2. /\ optind \in 1..Drives /\ count \in -1..(Ranges - 1) /\ column \in {7, 8}
        /\ count = -1 => column = 7
    BY <2>1, SizesNat DEF CanSet, TypeOK, InStep
  <2>3. \A d \in 1..Drives : d < optind => Settled(d)'
    BY <2>1, <2>2, CarryInOrder, SettledStays DEF LeftBehind
  <2>4. CASE column = 8 /\ LastRange
    <3>1. NextDrive /\ session' = FALSE /\ count' = -1 /\ column' = 7
      BY <1>5, <2>4 DEF Set
    <3>2. ASSUME NEW d \in 1..Drives, d = optind PROVE Settled(d)'
      <4>1. hidden'[d]
        BY <2>1, <3>2, CarryInOrder
      <4>2. ASSUME NEW r \in 0..(Ranges - 1), r = 0 \/ r < range_count
            PROVE  <<r, 7>> \notin locked'[d] /\ <<r, 8>> \notin locked'[d]
        <5>1. r <= count
          BY <2>2, <2>4, <4>2 DEF LastRange, TypeOK
        <5>2. CASE r = count
          BY <2>1, <2>2, <2>4, <3>2, <5>2, CarryInOrder
        <5>3. CASE r # count
          BY <2>1, <2>2, <3>2, <5>1, <5>3, CarryInOrder
        <5> QED BY <5>2, <5>3
      <4> QED BY <2>1, <4>1, <4>2 DEF Settled, Unlocked, Meant
    <3>3. \A d \in 1..Drives : d <= optind => Settled(d)'
      BY <2>2, <2>3, <3>2
    <3>4. LeftBehind' /\ optind' \in 1..Drives /\ (outcome' = "exit" => pc' = "over")
          /\ pc' \in {"login", "over"} /\ outcome' \in {"exit", outcome}
      BY <2>1, <3>1, <3>3, LeftBehindNext
    <3>5. TypeOK'
      <4>1. count' \in -1..Ranges /\ column' \in {7, 8}
        BY <3>1, SizesNat
      <4>2. pin_valid' \in BOOLEAN
        BY <3>1 DEF NextDrive, TypeOK
      <4>3. outcome' \in {"none", "exit", "aborted", "killed"}
        BY <3>4 DEF TypeOK
      <4> QED BY <2>1, <3>1, <3>4, <4>1, <4>2, <4>3, CarryInOrder DEF TypeOK
    <3> QED BY <2>1, <3>1, <3>4, <3>5, CarryInOrder DEF InStep
  <2>5. CASE ~(column = 8 /\ LastRange)
    <3>1. /\ count' = IF count = -1 THEN 0 ELSE IF column = 7 THEN count ELSE count + 1
          /\ column' = IF count # -1 /\ column = 7 THEN 8 ELSE 7
          /\ UNCHANGED <<pc, optind, pin_valid, outcome, session>>
      BY <1>5, <2>5 DEF Set
    <3>2. count' \in 0..Ranges /\ column' \in {7, 8}
      BY <2>2, <3>1, SizesNat
    <3>3. TypeOK'
      BY <2>1, <3>1, <3>2, CarryInOrder, SizesNat DEF TypeOK
    <3>4. LeftBehind'
      BY <2>1, <2>3, <3>1 DEF LeftBehind
    <3>5. Progress'
      <4>1. hidden'[optind']
        BY <2>1, <3>1, CarryInOrder
      <4>2. ASSUME NEW r \in 0..(Ranges - 1), r < count'
            PROVE  <<r, 7>> \notin locked'[optind'] /\ <<r, 8>> \notin locked'[optind']
        <5>1. CASE r < count
          BY <2>1, <3>1, <5>1, CarryInOrder
        <5>2. CASE ~(r < count)
          <6>1. r = count /\ column = 8
            BY <2>2, <3>1, <4>2, <5>2
          <6> QED BY <2>1, <2>2, <3>1, <6>1, CarryInOrder
        <5> QED BY <5>1, <5>2
      <4>3. column' = 8 => <<count', 7>> \notin locked'[optind']
        BY <2>1, <2>2, <3>1, CarryInOrder
      <4> QED BY <4>1, <4>2, <4>3 DEF Progress
    <3> QED BY <2>1, <3>1, <3>2, <3>3, <3>4, <3>5, CarryInOrder DEF InStep
  <2> QED BY <2>4, <2>5
<1>6. CASE Refused
  <2>1. Fails /\ UNCHANGED <<hidden, locked, faults>> /\ pc \in {"login", "set"}
    BY <1>6 DEF Refused
  <2>2. InOrder'
    BY <2>1 DEF InOrder
  <2> QED BY <2>1, <2>2, FailsStep DEF TypeOK
<1>7. CASE Fault
  <2>1. Fails /\ pc \in {"login", "set"}
    BY <1>7 DEF Fault
  <2>2. CASE UNCHANGED <<hidden, locked>>
    <3>1. InOrder'
      BY <2>2 DEF InOrder
    <3> QED BY <2>1, <2>2, <3>1, FailsStep DEF TypeOK
  <2>3. CASE pc = "set" /\ CanSet /\ Carry
    BY <2>1, <2>3, CarryInOrder, FailsStep
  <2> QED BY <1>7, <2>2, <2>3 DEF Fault
<1>8. ASSUME NEW e \in 1..Drives, PowerCycle(e)
      PROVE  UnlockInvariant'
  <2>1. /\ hidden' = [hidden EXCEPT ![e] = FALSE] /\ locked' = [locked EXCEPT ![e] = All]
        /\ session' = (session /\ e # optind) /\ reset' = reset \cup {e}
        /\ UNCHANGED <<pc, optind, pin, pin_valid, range_count, count, column, outcome, cin,
                        secret, failed>>
    BY <1>8 DEF PowerCycle, tool
  <2>2. /\ hidden' \in [1..Drives -> BOOLEAN] /\ locked' \in [1..Drives -> SUBSET All]
        /\ locked'[e] = All
        /\ \A d \in 1..Drives : d # e => hidden'[d] = hidden[d] /\ locked'[d] = locked[d]
    BY <2>1 DEF TypeOK
  <2>3. InOrder'
    <3>1. \A r \in 0..(Ranges - 1) : <<r, 7>> \in locked'[e] /\ <<r, 8>> \in locked'[e]
      BY <2>2 DEF All
    <3> QED BY <2>2, <3>1 DEF InOrder
  <2>4. LeftBehind'
    <3> SUFFICES ASSUME NEW d \in 1..Drives, d < optind \/ outcome = "exit" PROVE Settled(d)'
      BY <2>1 DEF LeftBehind
    <3>1. CASE d = e
      BY <2>1, <3>1 DEF Settled
    <3>2. CASE d # e
      BY <2>1, <2>2, <3>2, SettledStays DEF LeftBehind
    <3> QED BY <3>1, <3>2
  <2>5. InStep'
    <3>1. pc = "set" /\ session' => Progress'
      BY <2>1, <2>2 DEF InStep, Progress, TypeOK
    <3> QED BY <2>1, <3>1 DEF InStep
  <2>6. TypeOK'
    <3>1. reset' \subseteq 1..Drives /\ session' \in BOOLEAN
      BY <2>1 DEF TypeOK
    <3> QED BY <2>1, <2>2, <3>1 DEF TypeOK
  <2> QED BY <2>3, <2>4, <2>5, <2>6
<1>9. CASE UNCHANGED vars
  BY <1>0, <1>9 DEF vars, tool, tper, hist, TypeOK, InStep, Progress
<1> QED BY <1>1, <1>2, <1>3, <1>4, <1>5, <1>6, <1>7, <1>8, <1>9 DEF Next, Host

LEMMA Invariance == Spec => []UnlockInvariant
BY InvariantInit, InvariantStep, PTL DEF Spec

-----------------------------------------------------------------------------
\* Whatever fails, is killed or is reset, and whatever PINs are tried: a drive's
\* ranges are open from the first one on, behind a hidden MBR (unlock_target).
THEOREM OpenInOrder == Spec => []InOrder
<1>1. UnlockInvariant => InOrder
  BY DEF UnlockInvariant
<1> QED BY <1>1, Invariance, PTL

\* When the tool exits by itself, a drive that is not unlocked as far as was
\* asked has failed, which is never the first one, or was reset (main).
THEOREM ExitUnlocked == Spec => []ExitMeansUnlocked
<1>1. UnlockInvariant => ExitMeansUnlocked
  BY SizesNat DEF UnlockInvariant, LeftBehind, Settled, ExitMeansUnlocked
<1> QED BY <1>1, Invariance, PTL

-----------------------------------------------------------------------------
\* The PIN prompt: step, input, entered and result are its pc, cin, pin and outcome.
Handlers ==
    /\ handler \in [P!Signals -> {"default", "pin_signal_handler"}]
    /\ old_action \in [P!Signals -> {"default", "pin_signal_handler"}]

\* The handlers are there before the echo goes off, and until it is on again.
Guarded ==
    /\ step = "set TERM" => handler["INT"] = "pin_signal_handler"
    /\ step \in {"echo off", "read", "echo on"} => \A s \in P!Signals : handler[s] = "pin_signal_handler"
    /\ ~echo /\ ~broken => step \in {"read", "echo on"}

EntryInvariant == Handlers /\ Guarded

\* What has been read is what was typed, and pin1 is what was typed first.
Read ==
    /\ turn \in {1, 2} /\ typed \in [{1, 2} -> PINs \cup {"nothing"}]
    /\ turn = 2 => confirm
    /\ input = "good" =>
         /\ step \in {"echo on", "restore INT", "restore TERM"} => typed[turn] = entered
         /\ turn = 2 => typed[1] = pin1
         /\ step = "out" /\ result = "pin" /\ confirm => typed[1] = entered /\ typed[2] = entered

-----------------------------------------------------------------------------
LEMMA TwoTurns == 1 # 2
OBVIOUS

LEMMA GuardedInit == P!Init => EntryInvariant
BY DEF P!Init, EntryInvariant, Handlers, Guarded, P!Default

LEMMA GuardedStep == EntryInvariant /\ [P!Next]_(P!vars) => EntryInvariant'
<1> SUFFICES ASSUME EntryInvariant, [P!Next]_(P!vars) PROVE EntryInvariant'
  OBVIOUS
<1> USE DEF EntryInvariant, Handlers, Guarded
<1>1. CASE P!SetHandlers
  BY <1>1 DEF P!SetHandlers, P!Install, P!Signals
<1>2. CASE P!EchoOff \/ P!EchoOn
  BY <1>2 DEF P!EchoOff, P!EchoOn, P!SetEcho
<1>3. CASE P!EchoFails
  BY <1>3 DEF P!EchoFails
<1>4. CASE P!ReadNothing \/ P!User
  BY <1>4 DEF P!ReadNothing, P!User, P!ReadLine, P!EndOfInput, P!Getline
<1>5. CASE P!RestoreInt \/ P!RestoreTerm
  BY <1>5 DEF P!RestoreInt, P!RestoreTerm, P!Restore, P!Signals
<1>6. ASSUME NEW check \in BOOLEAN, P!Call(check) PROVE EntryInvariant'
  BY <1>6 DEF P!Call
<1>7. ASSUME NEW s \in P!Signals, P!Signal(s) PROVE EntryInvariant'
  <2>1. CASE handler[s] = "default"
    BY <1>7, <2>1 DEF P!Signal, P!Die, P!Signals
  <2>2. CASE handler[s] # "default"
    BY <1>7, <2>2 DEF P!Signal, P!Handle, P!code
  <2> QED BY <2>1, <2>2
<1>8. CASE UNCHANGED P!vars
  BY <1>8 DEF P!vars, P!code
<1> QED BY <1>1, <1>2, <1>3, <1>4, <1>5, <1>6, <1>7, <1>8 DEF P!Next, P!Host
LEMMA ReadInit == P!Init => Read
BY DEF P!Init, Read, P!Untyped

LEMMA ReadStep == Read /\ [P!Next]_(P!vars) => Read'
<1> SUFFICES ASSUME Read, [P!Next]_(P!vars) PROVE Read'
  OBVIOUS
<1> USE DEF Read
<1>1. CASE P!SetHandlers \/ P!EchoOff \/ P!EchoOn \/ P!EchoFails
  BY <1>1 DEF P!SetHandlers, P!Install, P!EchoOff, P!EchoOn, P!SetEcho, P!EchoFails
<1>2. CASE P!ReadNothing \/ P!EndOfInput
  BY <1>2 DEF P!ReadNothing, P!EndOfInput, P!Getline
<1>3. CASE P!ReadLine
  <2>1. PICK line \in PINs : /\ typed' = [typed EXCEPT ![turn] = line]
                             /\ entered' = line /\ step = "read" /\ step' = "echo on" /\ input = "good"
                             /\ UNCHANGED <<confirm, turn, pin1, result>>
    BY <1>3 DEF P!ReadLine, P!Getline
  <2>2. typed' \in [{1, 2} -> PINs \cup {"nothing"}]
    BY <2>1
  <2>3. typed'[turn] = line
    BY <2>1
  <2>4. ASSUME turn = 2 PROVE typed'[1] = typed[1]
    <3>1. typed' = [typed EXCEPT ![2] = line] /\ 1 # 2 /\ 1 \in {1, 2}
      BY <2>1, <2>4, TwoTurns
    <3> QED BY <3>1
  <2> QED BY <2>1, <2>2, <2>3, <2>4
<1>4. CASE P!RestoreInt
  BY <1>4 DEF P!RestoreInt, P!Restore
<1>5. CASE P!RestoreTerm
  <2>1. UNCHANGED <<confirm, entered, input, typed>> /\ step = "restore TERM"
    BY <1>5 DEF P!RestoreTerm, P!Restore
  <2>2. CASE confirm /\ turn = 1
    BY <1>5, <2>1, <2>2 DEF P!RestoreTerm
  <2>3. CASE ~(confirm /\ turn = 1)
    <3>1. step' = "out" /\ result' = P!Answer /\ UNCHANGED <<turn, pin1>>
      BY <1>5, <2>3 DEF P!RestoreTerm
    <3>2. result' = "pin" /\ confirm => turn = 2 /\ pin1 = entered
      BY <2>3, <3>1 DEF P!Answer
    <3> QED BY <2>1, <3>1, <3>2
  <2> QED BY <2>2, <2>3
<1>6. ASSUME NEW check \in BOOLEAN, P!Call(check) PROVE Read'
  <2>1. typed' = P!Untyped /\ turn' = 1 /\ step' = "set INT"
    BY <1>6 DEF P!Call
  <2>2. typed' \in [{1, 2} -> PINs \cup {"nothing"}]
    BY <2>1 DEF P!Untyped
  <2>3. turn' # 2
    BY <2>1, TwoTurns
  <2> QED BY <2>1, <2>2, <2>3
<1>7. ASSUME NEW s \in P!Signals, P!Signal(s) PROVE Read'
  <2>1. CASE handler[s] = "default"
    BY <1>7, <2>1 DEF P!Signal, P!Die
  <2>2. CASE handler[s] # "default"
    BY <1>7, <2>2 DEF P!Signal, P!Handle, P!code
  <2> QED BY <2>1, <2>2
<1>8. CASE UNCHANGED P!vars
  BY <1>8 DEF P!vars, P!code
<1> QED BY <1>1, <1>2, <1>3, <1>4, <1>5, <1>6, <1>7, <1>8 DEF P!Next, P!Host, P!User

-----------------------------------------------------------------------------
\* Wherever INT and TERM arrive, the terminal echoes when the process has died
\* of them, and between two calls of pin_from_console.
THEOREM EchoRestored == P!Spec => []NeverLeftDark
<1>1. EntryInvariant => NeverLeftDark
  BY DEF EntryInvariant, Guarded, NeverLeftDark, P!NeverLeftDark
<1> QED BY <1>1, GuardedInit, GuardedStep, PTL DEF P!Spec

\* A PIN that pin_from_console_check returns was typed twice, as long as no
\* signal and no end of the input has failed cin.
THEOREM Confirmed == P!Spec => []ConfirmedPin
<1>1. Read => ConfirmedPin
  BY DEF Read, ConfirmedPin, P!ConfirmedPin, P!TypedTwice
<1> QED BY <1>1, ReadInit, ReadStep, PTL DEF P!Spec

-----------------------------------------------------------------------------
\* The behaviours that the run MCUnlock explores are behaviours of the two
\* modules, so it is of them that the theorems above speak.
THEOREM BothParts == MCSpec => Spec /\ P!Spec
<1>1. MCInit => Init /\ P!Init
  BY DEF MCInit
<1>2. [MCNext]_<<part, vars, pvars>> => [Next]_vars /\ [P!Next]_(P!vars)
  <2>1. UNCHANGED pvars => UNCHANGED P!vars
    BY DEF pvars, P!vars, P!code
  <2> QED
    BY <2>1 DEF MCNext
<1> QED
  BY <1>1, <1>2, PTL DEF MCSpec, Spec, P!Spec
=============================================================================
