----------------------------- MODULE ToolsProofs -----------------------------
(***************************************************************************)
(* The tools that own, set up and lock a drive, for any PINs, ranges,       *)
(* accounts and command lines.                                              *)
(*                                                                         *)
(* tp_admin and tp_wipe (Lifecycle): a wipe that reports success has        *)
(* destroyed the data, one that broke off can be repeated, its calls are    *)
(* ones the drive carries out, and a command of tp_admin that reports       *)
(* success has been done.                                                   *)
(*                                                                         *)
(* tp_lock (Locking, K here, with step, ended and login for its pc, outcome *)
(* and session), with runs that fail, are killed or lose the drive's power  *)
(* anywhere: the locks are as the completed commands asked, "ranges" prints *)
(* the truth, and wipe and setpin touch nothing else than what they are     *)
(* about.                                                                   *)
(***************************************************************************)
EXTENDS MCTools, Sequences, TLAPS

-----------------------------------------------------------------------------
\* tp_admin and tp_wipe.

\* What tp_wipe knows at each of its calls: nothing before the check, and from
\* then on whether the next revert finds the Locking SP active.
WipeInStep ==
    tool = "wipe" =>
        /\ pc \in {"off", "anon", "msid", "login", "check", "activate", "revert"}
        /\ pc = "check" => lock_active = "unknown" /\ session = uid
        /\ pc = "check" /\ uid = "SID" => sid = pin
        /\ pc = "revert" => lock_active # "unknown"
        /\ pc = "revert" /\ (lock_active = "yes" \/ uid = "SID") => lsp = "active"
        /\ pc \in {"anon", "msid", "login"} => lock_active # "yes"
        /\ pc = "activate" => uid = "SID" /\ sid = pin /\ lock_active = "no"
        /\ pc \in {"anon", "msid", "login"} /\ lock_active = "no" => sid = MSID
        /\ pc = "login" /\ lock_active = "no" => uid = "SID"

\* Who logs in, and for which commands.
LoginInStep ==
    /\ pc = "msid" => tool # "status"
    /\ pc \in {"login", "prompt"} => tool \notin {"msid", "status"} /\ uid # "none"
    /\ pc = "prompt" => tool # "wipe"
    /\ pc = "anon" /\ tool # "wipe" => uid = "SID"
    /\ pc = "check" => tool \in {"wipe", "status"}
    /\ pc = "entry" => tool = "setpin" /\ session = uid

LifecycleInvariant == TypeOK /\ LoginInStep /\ WipeInStep /\ WipedMeansErased /\ RepeatOrDone

-----------------------------------------------------------------------------
LEMMA TypeInit == Init => TypeOK
BY Pins DEF Init, TypeOK, Pc, Tools, Commands

LEMMA InvariantInit == Init => LifecycleInvariant
<1>1. Init => LoginInStep /\ WipeInStep /\ WipedMeansErased /\ RepeatOrDone
  BY DEF Init, LoginInStep, WipeInStep, WipedMeansErased, RepeatOrDone, Done
<1> QED BY <1>1, TypeInit DEF LifecycleInvariant

LEMMA InvariantStep == LifecycleInvariant /\ [Next]_vars => LifecycleInvariant'
<1> SUFFICES ASSUME LifecycleInvariant, [Next]_vars PROVE LifecycleInvariant'
  OBVIOUS
<1> USE DEF LifecycleInvariant, Done, End, Go, host, tper, owned
<1>1. CASE Call
  <2>1. CASE LoginAnon
    <3>1. /\ pc = "anon" /\ UNCHANGED <<host, outcome, owned, faulted>> /\ session' = "anon"
      BY <1>1, <2>1 DEF Call, LoginAnon, DriveDoes
    <3>2. /\ pc' \in {"msid", "check", "login"}
          /\ tool = "wipe" => pc' = "msid"
          /\ pc' = "check" => tool = "status"
          /\ pc' = "msid" => tool # "status"
          /\ pc' = "login" => tool \notin {"msid", "status", "wipe"}
      BY <2>1 DEF LoginAnon
    <3>3. TypeOK'
      BY <3>1, <3>2 DEF TypeOK, Pc
    <3>4. pc = "anon" /\ tool # "wipe" => uid = "SID"
      BY DEF LoginInStep
    <3>5. LoginInStep' /\ WipeInStep' /\ WipedMeansErased' /\ RepeatOrDone'
      BY <3>1, <3>2, <3>4
      DEF TypeOK, LoginInStep, WipeInStep, WipedMeansErased, RepeatOrDone, FactoryState
    <3> QED BY <3>3, <3>5
  <2>2. CASE DefaultPin
    <3>1. TypeOK'
      BY <1>1, <2>2, Pins DEF Call, DefaultPin, DriveDoes, TypeOK, Pc, Tools, Commands
    <3>2. LoginInStep' /\ WipeInStep' /\ WipedMeansErased' /\ RepeatOrDone'
      BY <1>1, <2>2 DEF Call, DefaultPin, DriveDoes, TypeOK, LoginInStep, WipeInStep, WipedMeansErased,
                        RepeatOrDone, FactoryState
    <3> QED BY <3>1, <3>2
  <2>3. CASE Login
    <3>1. /\ UNCHANGED <<host, owned, faulted>> /\ session' = uid /\ RightPin
          /\ pc = "login" /\ uid \in {"SID", "PSID"}
      <4>1. pc = "login" /\ UNCHANGED <<host, faulted>>
        BY <1>1, <2>3 DEF Call, Login
      <4>2. RightPin /\ session' = uid /\ UNCHANGED owned
        BY <1>1, <4>1 DEF Call, DriveDoes
      <4>3. uid \in {"SID", "PSID"}
        BY <4>1 DEF TypeOK, LoginInStep
      <4> QED BY <4>1, <4>2, <4>3
    <3>2. CASE tool = "wipe"
      <4>1. /\ pc' = IF lock_active = "unknown" THEN "check" ELSE "activate"
            /\ outcome' = outcome
        BY <2>3, <3>2 DEF Login
      <4>2. lock_active = "no" => uid = "SID" /\ sid = pin
        BY <3>1, <3>2 DEF WipeInStep, RightPin
      <4>3. TypeOK'
        BY <3>1, <4>1, Pins DEF TypeOK, Pc
      <4>4. LoginInStep' /\ WipeInStep' /\ WipedMeansErased' /\ RepeatOrDone'
        BY <3>1, <3>2, <4>1, <4>2
        DEF TypeOK, LoginInStep, WipeInStep, WipedMeansErased, RepeatOrDone, FactoryState, RightPin
      <4> QED BY <4>3, <4>4
    <3>3. CASE tool # "wipe"
      <4>1. /\ pc' \in {"off", "entry", tool} /\ outcome' \in {outcome, "done"}
            /\ tool \in {"setpin", "activate", "revert"} \/ pc' = "off"
            /\ pc' = "entry" => tool = "setpin"
        <5>1. tool \in {"login", "setpin", "activate", "revert"}
          BY <2>3, <3>3 DEF Login, TypeOK, LoginInStep, Tools, Commands
        <5> QED BY <2>3, <3>3, <5>1 DEF Login
      <4>2. TypeOK'
        BY <3>1, <3>3, <4>1, Pins DEF TypeOK, Pc
      <4>3. LoginInStep' /\ WipeInStep' /\ WipedMeansErased' /\ RepeatOrDone'
        BY <3>1, <3>3, <4>1 DEF LoginInStep, WipeInStep, WipedMeansErased, RepeatOrDone
      <4> QED BY <4>2, <4>3
    <3> QED BY <3>2, <3>3
  <2>4. CASE SetPin
    <3>1. TypeOK'
      BY <1>1, <2>4, Pins DEF Call, SetPin, DriveDoes, TypeOK, Pc, Tools, Commands
    <3>2. LoginInStep' /\ WipeInStep' /\ WipedMeansErased' /\ RepeatOrDone'
      BY <1>1, <2>4 DEF Call, SetPin, DriveDoes, TypeOK, LoginInStep, WipeInStep, WipedMeansErased,
                        RepeatOrDone, FactoryState
    <3> QED BY <3>1, <3>2
  <2>5. CASE Check
    <3>1. pc = "check" /\ UNCHANGED <<tool, uid, pin, pin_valid, new_pin, faulted>>
      BY <1>1, <2>5 DEF Call, Check
    <3>2. session # "none" /\ UNCHANGED tper
      BY <1>1, <3>1 DEF Call, DriveDoes
    <3>3. CASE tool = "status"
      <4>1. pc' = "off" /\ outcome' = "done" /\ UNCHANGED lock_active
        BY <2>5, <3>3 DEF Check
      <4> QED BY <3>1, <3>2, <3>3, <4>1
              DEF TypeOK, Pc, LoginInStep, WipeInStep, WipedMeansErased, RepeatOrDone
    <3>4. CASE tool # "status"
      <4>1. lock_active' = (IF lsp = "inactive" THEN "no" ELSE "yes") /\ outcome' = outcome
        BY <2>5, <3>4 DEF Check, LockActive
      <4>2. pc' = IF uid = "PSID" \/ lock_active' = "yes" THEN "revert" ELSE "activate"
        BY <2>5, <3>4 DEF Check, AfterCheck
      <4>3. session = uid /\ (uid = "SID" => sid = pin)
        BY <3>1, <3>2, <3>4 DEF LoginInStep, WipeInStep
      <4>4. TypeOK'
        BY <3>1, <3>2, <4>1, <4>2, <4>3 DEF TypeOK, Pc
      <4>5. LoginInStep' /\ WipeInStep' /\ WipedMeansErased' /\ RepeatOrDone'
        BY <3>1, <3>2, <4>1, <4>2, <4>3
        DEF TypeOK, LoginInStep, WipeInStep, WipedMeansErased, RepeatOrDone
      <4> QED BY <4>4, <4>5
    <3> QED BY <3>3, <3>4
  <2>6. CASE Activate
    <3>1. /\ pc = "activate" /\ UNCHANGED <<host, faulted>>
          /\ IF tool = "wipe" THEN pc' = "revert" /\ outcome' = outcome
             ELSE pc' = "off"
      BY <1>1, <2>6 DEF Call, Activate
    <3>2. session = "SID" /\ lsp' = "active" /\ UNCHANGED <<session, sid, fresh>>
      BY <1>1, <3>1 DEF Call, DriveDoes, Activated
    <3>3. admin1' \in {admin1, sid}
      BY <1>1, <3>1 DEF Call, DriveDoes, Activated
    <3>4. outcome' \in {outcome, "done"}
      BY <2>6 DEF Activate
    <3>5. TypeOK'
      BY <3>1, <3>2, <3>3, <3>4 DEF TypeOK, Pc
    <3>6. LoginInStep' /\ WipeInStep' /\ WipedMeansErased' /\ RepeatOrDone'
      BY <3>1, <3>2 DEF TypeOK, LoginInStep, WipeInStep, WipedMeansErased, RepeatOrDone
    <3> QED BY <3>5, <3>6
  <2>7. CASE Revert
    <3>1. TypeOK'
      BY <1>1, <2>7, Pins DEF Call, Revert, DriveDoes, Reverted, TypeOK, Pc, Tools, Commands,
                              AnotherRound
    <3>2. LoginInStep' /\ WipeInStep' /\ WipedMeansErased' /\ RepeatOrDone'
      BY <1>1, <2>7 DEF Call, Revert, DriveDoes, Reverted, TypeOK, LoginInStep, WipeInStep,
                        WipedMeansErased, RepeatOrDone, FactoryState, AnotherRound
    <3> QED BY <3>1, <3>2
  <2> QED BY <1>1, <2>1, <2>2, <2>3, <2>4, <2>5, <2>6, <2>7 DEF Call, Advance
<1>2. CASE Refuse
  <2>1. TypeOK'
    BY <1>2, Pins DEF Refuse, DriveRefuses, Fails, TypeOK, Pc, Tools, Commands
  <2>2. LoginInStep' /\ WipeInStep' /\ WipedMeansErased' /\ RepeatOrDone'
    BY <1>2 DEF Refuse, DriveRefuses, Fails, TypeOK, LoginInStep, WipeInStep, WipedMeansErased,
                RepeatOrDone, FactoryState
  <2> QED BY <2>1, <2>2
<1>3. CASE Fault
  <2>1. /\ UNCHANGED host /\ faulted' = TRUE /\ pc' \in {"off", "prompt"}
        /\ outcome' \in {outcome, "refused", "exception"}
        /\ pc' = "off" => outcome' # "done"
        /\ pc' = "prompt" => pc = "login" /\ tool # "wipe"
    BY <1>3 DEF Fault, Fails
  <2>2. /\ session' \in {"none", "anon", "SID", "PSID"} /\ sid' \in PINs /\ admin1' \in PINs
        /\ lsp' \in {"inactive", "active"} /\ fresh' \in BOOLEAN
        /\ tool = "wipe" /\ uid = "SID" /\ lock_active # "unknown" =>
              sid' = pin \/ (fresh' /\ sid' = MSID /\ lsp' = "inactive")
    <3>1. CASE UNCHANGED tper
      BY <3>1 DEF TypeOK, RepeatOrDone, FactoryState
    <3>2. CASE DriveDoes /\ pc \notin {"setpin", "activate", "revert"}
      BY <1>3, <3>2 DEF DriveDoes, TypeOK, RepeatOrDone, FactoryState, LoginInStep
    <3>3. CASE DriveDoes /\ pc = "setpin"
      BY <3>3 DEF DriveDoes, TypeOK, WipeInStep
    <3>4. CASE DriveDoes /\ pc = "activate"
      BY <3>4 DEF DriveDoes, Activated, TypeOK, WipeInStep
    <3>5. CASE DriveDoes /\ pc = "revert"
      BY <3>5, Pins DEF DriveDoes, Reverted, TypeOK, WipeInStep
    <3> QED BY <1>3, <3>1, <3>2, <3>3, <3>4, <3>5 DEF Fault
  <2>3. TypeOK'
    BY <2>1, <2>2 DEF TypeOK, Pc
  <2>4. LoginInStep' /\ WipeInStep' /\ WipedMeansErased' /\ RepeatOrDone'
    BY <2>1, <2>2 DEF LoginInStep, WipeInStep, WipedMeansErased, RepeatOrDone, FactoryState
  <2> QED BY <2>3, <2>4
<1>4. CASE Prompt
  BY <1>4, Pins DEF Prompt, TypeOK, Pc, Tools, Commands, LoginInStep, WipeInStep, WipedMeansErased,
                    RepeatOrDone, FactoryState
<1>5. CASE Entry
  <2>1. /\ pc = "entry" /\ UNCHANGED <<tool, uid, pin, pin_valid, lock_active, tper, faulted>>
        /\ new_pin' \in PINs
        /\ \/ pc' = "setpin" /\ outcome' = outcome
           \/ pc' = "off" /\ outcome' = "mistyped"
    BY <1>5 DEF Entry, TypeOK
  <2>2. tool = "setpin" /\ session = uid
    BY <2>1 DEF LoginInStep
  <2>3. TypeOK'
    BY <2>1, <2>2 DEF TypeOK, Pc
  <2>4. LoginInStep' /\ WipeInStep' /\ WipedMeansErased' /\ RepeatOrDone'
    BY <2>1, <2>2 DEF LoginInStep, WipeInStep, WipedMeansErased, RepeatOrDone, FactoryState
  <2> QED BY <2>3, <2>4
<1>6. CASE Kill
  BY <1>6, Pins DEF Kill, TypeOK, Pc, LoginInStep, WipeInStep, WipedMeansErased, RepeatOrDone, FactoryState
<1>7. ASSUME NEW u \in {"none", "SID", "PSID"}, NEW p \in PINs \cup {PSID}, StartWipe(u, p)
      PROVE  LifecycleInvariant'
  BY <1>7, Pins DEF StartWipe, TypeOK, Pc, Tools, Commands, LoginInStep, WipeInStep, WipedMeansErased,
                    RepeatOrDone, FactoryState
<1>8. ASSUME NEW c \in Commands, NEW v \in BOOLEAN, NEW p \in PINs,
             StartAdmin(c, v, p)
      PROVE  LifecycleInvariant'
  BY <1>8, Pins DEF StartAdmin, TypeOK, Pc, Tools, Commands, LoginInStep, WipeInStep, WipedMeansErased,
                    RepeatOrDone, FactoryState
<1>9. CASE UNCHANGED vars
  BY <1>9 DEF vars, TypeOK, LoginInStep, WipeInStep, WipedMeansErased, RepeatOrDone, FactoryState
<1> QED BY <1>1, <1>2, <1>3, <1>4, <1>5, <1>6, <1>7, <1>8, <1>9, Pins DEF Next

THEOREM InvariantCorrect == Spec => []LifecycleInvariant
BY InvariantInit, InvariantStep, PTL DEF Spec

\* A tp_wipe that reports success has replaced the media key and left the
\* factory state.
THEOREM WipeErases == Spec => []WipedMeansErased
<1>1. LifecycleInvariant => WipedMeansErased
  BY DEF LifecycleInvariant
<1> QED BY <1>1, InvariantCorrect, PTL

\* A tp_wipe that broke off can be repeated with the same PIN.
THEOREM WipeRepeats == Spec => []RepeatOrDone
<1>1. LifecycleInvariant => RepeatOrDone
  BY DEF LifecycleInvariant
<1> QED BY <1>1, InvariantCorrect, PTL

-----------------------------------------------------------------------------
\* tp_wipe's calls are ones the drive carries out: it logs in without an
\* authenticated session, activates what is inactive, and its second login is
\* with the PIN that the revert has left.
WipeCarriedOut ==
    tool = "wipe" =>
        /\ pc \in {"anon", "msid", "login"} => session \in {"none", "anon"}
        /\ pc \in {"check", "activate", "revert"} => uid # "none"
        /\ pc \in {"anon", "msid", "login", "activate"} /\ lock_active = "no" => lsp = "inactive"
        /\ pc = "login" /\ lock_active = "no" => pin = MSID

\* A command of tp_admin makes its call as the SID, with the right PIN.
AdminInStep ==
    /\ tool # "wipe" /\ pc \in {"entry", "setpin", "activate", "revert"} => uid = "SID" /\ sid = pin
    /\ tool # "wipe" /\ pc \in {"login", "prompt"} => uid = "SID"
    /\ pc = "setpin" => tool = "setpin"
    /\ pc = "activate" => tool \in {"wipe", "activate"}
    /\ pc = "revert" => tool \in {"wipe", "revert"}

OutcomeInvariant == WipeCarriedOut /\ AdminInStep /\ FailureHasReason /\ AdminDoneMeansDone

LEMMA OutcomeInit == Init => OutcomeInvariant
BY DEF Init, OutcomeInvariant, WipeCarriedOut, AdminInStep, FailureHasReason, AdminDoneMeansDone, Done

LEMMA OutcomeStep == LifecycleInvariant /\ OutcomeInvariant /\ [Next]_vars => OutcomeInvariant'
<1> SUFFICES ASSUME LifecycleInvariant, OutcomeInvariant, [Next]_vars PROVE OutcomeInvariant'
  OBVIOUS
<1> USE DEF OutcomeInvariant, WipeCarriedOut, AdminInStep, FailureHasReason, AdminDoneMeansDone,
            Done, End, Go, host, tper, owned
<1> TypeOK /\ LoginInStep /\ WipeInStep
  BY DEF LifecycleInvariant
<1>1. CASE Call
  <2>1. CASE LoginAnon
    BY <1>1, <2>1 DEF Call, LoginAnon, DriveDoes, LoginInStep, RightPin
  <2>2. CASE DefaultPin
    BY <1>1, <2>2 DEF Call, DefaultPin, DriveDoes, TypeOK, WipeInStep, LoginInStep, RightPin
  <2>3. CASE Login
    <3>1. pc = "login" /\ UNCHANGED <<host, owned, faulted>> /\ session' = uid /\ RightPin
      BY <1>1, <2>3 DEF Call, Login, DriveDoes
    <3>2. uid \in {"SID", "PSID"} /\ tool \in {"wipe", "login", "setpin", "activate", "revert"}
      BY <3>1 DEF TypeOK, LoginInStep, Tools, Commands
    <3>3. tool # "wipe" => uid = "SID" /\ sid = pin
      BY <3>1 DEF RightPin
    <3> QED BY <2>3, <3>1, <3>2, <3>3 DEF Login, WipeInStep, RightPin
  <2>4. CASE SetPin
    BY <1>1, <2>4 DEF Call, SetPin, DriveDoes
  <2>5. CASE Check
    BY <1>1, <2>5 DEF Call, Check, DriveDoes, LockActive, AfterCheck, TypeOK, LoginInStep, WipeInStep,
                      RightPin
  <2>6. CASE Activate
    BY <1>1, <2>6 DEF Call, Activate, DriveDoes, Activated, WipeInStep, RightPin
  <2>7. CASE Revert
    BY <1>1, <2>7 DEF Call, Revert, DriveDoes, Reverted, FactoryState, AnotherRound
  <2> QED BY <1>1, <2>1, <2>2, <2>3, <2>4, <2>5, <2>6, <2>7 DEF Call, Advance
<1>2. CASE Refuse
  <2>1. UNCHANGED <<host, owned, faulted>> /\ Fails
    BY <1>2 DEF Refuse, DriveRefuses, Fails
  <2>2. tool = "wipe" => pc = "login" /\ lock_active = "unknown" /\ ~RightPin
    BY <1>2 DEF Refuse, DriveRefuses, RightPin, TypeOK, WipeInStep, LoginInStep
  <2> QED BY <2>1, <2>2 DEF Fails, RightPin
<1>3. CASE Fault
  <2>1. /\ UNCHANGED host /\ faulted' = TRUE
        /\ \/ pc' = "off" /\ outcome' # "done"
           \/ pc' = "prompt" /\ pc = "login" /\ tool # "wipe"
    BY <1>3 DEF Fault, Fails
  <2> QED BY <2>1
<1>4. CASE Prompt
  BY <1>4 DEF Prompt, LoginInStep
<1>5. CASE Entry
  BY <1>5 DEF Entry, LoginInStep
<1>6. CASE Kill
  BY <1>6 DEF Kill
<1>7. ASSUME NEW u \in {"none", "SID", "PSID"}, NEW p \in PINs \cup {PSID}, StartWipe(u, p)
      PROVE  OutcomeInvariant'
  BY <1>7 DEF StartWipe
<1>8. ASSUME NEW c \in Commands, NEW v \in BOOLEAN, NEW p \in PINs,
             StartAdmin(c, v, p)
      PROVE  OutcomeInvariant'
  BY <1>8 DEF StartAdmin, Commands
<1>9. CASE UNCHANGED vars
  BY <1>9 DEF vars, RightPin, FactoryState
<1> QED BY <1>1, <1>2, <1>3, <1>4, <1>5, <1>6, <1>7, <1>8, <1>9, Pins DEF Next

\* In every reachable state.
THEOREM OutcomeCorrect == Spec => []OutcomeInvariant
BY InvariantCorrect, OutcomeInit, OutcomeStep, PTL DEF Spec

\* tp_wipe, let in with the right PIN, fails only when a call was lost.
THEOREM WipeFailsWithReason == Spec => []FailureHasReason
<1>1. OutcomeInvariant => FailureHasReason
  BY DEF OutcomeInvariant
<1> QED BY <1>1, OutcomeCorrect, PTL

\* A command of tp_admin that ends without an exception has done what it says.
THEOREM AdminDone == Spec => []AdminDoneMeansDone
<1>1. OutcomeInvariant => AdminDoneMeansDone
  BY DEF OutcomeInvariant
<1> QED BY <1>1, OutcomeCorrect, PTL

-----------------------------------------------------------------------------
\* tp_lock.

\* What a command writes: the columns of one object.
Target(c) ==
    IF c.verb \in K!Locks \cup {"setrange", "wipe"} THEN K!range_id_to_uid(c.id) ELSE K!MBR_CONTROL

Values(c) ==
    IF c.verb = "setrange"
    THEN [n \in {3, 4} |-> IF n = 3 THEN c.first % Word ELSE ((c.last % Word) + 1 - (c.first % Word)) % Word]
    ELSE K!Goal(c)

SetCall(c, n) == K!Set(Target(c), n, Values(c)[n])

SetCalls(c) == {SetCall(c, n) : n \in DOMAIN Values(c)}

-----------------------------------------------------------------------------
Flags == {1, 2, 5, 6, 7, 8}

Types ==
    /\ step \in {"off", "entry", "calls"} /\ command \in CommandLines
    /\ cell \in [K!Tables -> [1..8 -> Int]]
    /\ \A o \in K!Tables, n \in Flags : cell[o][n] \in {0, 1}
    /\ asked \in [K!Tables -> [1..8 -> Int]]
    /\ span \in [K!Objects -> {<< >>} \cup (0..(Word - 1)) \X (0..(Word - 1))]
    /\ cpin \in [Accounts -> UserPINs]
    /\ key \in [K!Objects -> {"old", "new"}]

\* What was asked for is there; where a range begins and ends is kept in span.
AskedIsThere ==
    /\ \A o \in K!Tables, n \in 1..8 : asked[o][n] # K!Unknown => cell[o][n] = asked[o][n]
    /\ \A o \in K!Tables, n \in {3, 4} : asked[o][n] = K!Unknown

SpanIsThere ==
    \A o \in K!Objects : span[o] # << >> =>
        /\ cell[o][3] = span[o][1]
        /\ cell[o][4] = (span[o][2] + 1 - span[o][1]) % Word

\* Of what a command writes, nothing is promised while its session lasts.
Forgotten ==
    step # "off" /\ login # K!Nobody =>
        /\ Target(command) \in K!Tables =>
             \A n \in DOMAIN Values(command) : asked[Target(command)][n] = K!Unknown
        /\ command.verb = "setrange" /\ Target(command) \in K!Objects => span[Target(command)] = << >>

\* The user is the one whose session it is.
OwnSession ==
    step # "off" => user \in Accounts /\ (login # K!Nobody => login = user)

\* The calls to come; those before them have been carried out.
Pending ==
    /\ step = "entry" => command.verb = "setpin"
    /\ step = "calls" /\ command.verb = "setpin" =>
         \E p \in UserPINs : todo = <<K!Set(K!pin_uid(user), 3, p)>>
    /\ step = "calls" /\ command.verb = "wipe" =>
         \/ todo = <<K!Get(Target(command), 10), K!Genkey(Target(command))>>
         \/ todo = <<K!Genkey(Target(command))>>
    /\ step = "calls" /\ command.verb \notin {"setpin", "wipe"} =>
         /\ todo \in Seq(SetCalls(command)) /\ todo # << >>
         /\ login # K!Nobody /\ Target(command) \in K!Tables => \A n \in DOMAIN Values(command) :
               \/ cell[Target(command)][n] = Values(command)[n]
               \/ \E i \in DOMAIN todo : todo[i] = SetCall(command, n)

Keys ==
    /\ step # "off" => \A o \in K!Objects : key[o] = "old"
    /\ step = "off" /\ ended = "done" =>
         \A o \in K!Objects : key[o] = "new" <=> command.verb = "wipe" /\ Target(command) = o

LockingInvariant ==
    /\ Types /\ AskedIsThere /\ SpanIsThere /\ Forgotten /\ OwnSession /\ Pending /\ Keys

-----------------------------------------------------------------------------
LEMMA Objects ==
    /\ K!Objects \subseteq K!Tables /\ K!MBR_CONTROL \in K!Tables
    /\ \A o \in K!Tables : o[1] # 11
    /\ \A o \in K!Objects : o # K!MBR_CONTROL /\ K!Columns(o) = 3..8
    /\ \A o \in K!Tables : o \in K!Objects \/ o = K!MBR_CONTROL
    /\ K!Columns(K!MBR_CONTROL) = {1, 2}
    /\ \A c : Target(c)[1] # 11
<1>1. \A id : K!range_id_to_uid(id)[1] = 2050
  BY DEF K!range_id_to_uid, K!LBA_RANGE_GLOBAL, K!LBA_RANGE_BASE, K!Plus
<1>2. K!MBR_CONTROL[1] = 2051
  BY DEF K!MBR_CONTROL
<1>3. \A o \in K!Objects : o[1] = 2050
  BY <1>1 DEF K!Objects
<1> QED
  BY <1>1, <1>2, <1>3 DEF K!Tables, K!Columns, Target

\* What the columns are, and that "usage" and the calls are about the same ones.
LEMMA ValuesAre ==
    ASSUME NEW c \in CommandLines
    PROVE  /\ DOMAIN Values(c) \subseteq 1..8
           /\ \A n \in DOMAIN Values(c) :
                Values(c)[n] \in Int /\ (n \in Flags => Values(c)[n] \in {0, 1})
           /\ DOMAIN K!Goal(c) \subseteq Flags
           /\ c.verb # "setrange" => Values(c) = K!Goal(c)
           /\ c.verb = "setrange" =>
                /\ DOMAIN Values(c) = {3, 4} /\ DOMAIN K!Goal(c) = {}
                /\ Values(c)[3] = c.first % Word
                /\ Values(c)[4] = ((c.last % Word) + 1 - (c.first % Word)) % Word
           /\ c.verb \in {"wipe", "setpin"} => DOMAIN K!Goal(c) = {}
           /\ DOMAIN K!Goal(c) # {} => K!About(c) = Target(c)
<1>1. c.verb \in K!Verbs /\ c.id \in Int /\ c.first \in Int /\ c.last \in Int /\ Word \in Nat \ {0}
  BY LockingConstants DEF K!Constants
<1>2. CASE c.verb = "setrange"
  <2>1. K!Goal(c) = [n \in {} |-> 0]
    BY <1>2 DEF K!Goal
  <2>2. DOMAIN Values(c) = {3, 4} /\ Values(c)[3] = c.first % Word
        /\ Values(c)[4] = ((c.last % Word) + 1 - (c.first % Word)) % Word
    BY <1>2 DEF Values
  <2>3. c.first % Word \in Int /\ ((c.last % Word) + 1 - (c.first % Word)) % Word \in Int
    <3>1. c.first % Word \in Int /\ c.last % Word \in Int
      BY <1>1
    <3> QED
      BY <1>1, <3>1
  <2> QED
    BY <1>2, <2>1, <2>2, <2>3 DEF Flags
<1>3. CASE c.verb \in K!Locks
  <2>1. /\ DOMAIN K!Goal(c) \subseteq 5..8
        /\ \A n \in DOMAIN K!Goal(c) : K!Goal(c)[n] \in {0, 1}
    <3>1. CASE c.verb \in {"lock_on_reset", "unlock_on_reset", "lock", "unlock"}
      <4>1. /\ c.verb = "lock_on_reset" => K!Goal(c) = [n \in {5, 6} |-> 1]
            /\ c.verb = "unlock_on_reset" => K!Goal(c) = [n \in {5, 6} |-> 0]
            /\ c.verb = "lock" => K!Goal(c) = [n \in {7, 8} |-> 1]
            /\ c.verb = "unlock" => K!Goal(c) = [n \in {7, 8} |-> 0]
        BY DEF K!Goal
      <4> QED
        BY <3>1, <4>1
    <3>2. CASE c.verb = "wr_lock_on_reset"
      <4>1. K!Goal(c) = [n \in {5, 6} |-> n - 5]
        BY <3>2 DEF K!Goal
      <4> QED
        BY <4>1
    <3>3. CASE c.verb = "wr_lock"
      <4>1. K!Goal(c) = [n \in {7, 8} |-> n - 7]
        BY <3>3 DEF K!Goal
      <4> QED
        BY <4>1
    <3> QED
      BY <1>3, <3>1, <3>2, <3>3 DEF K!Locks
  <2>2. c.verb \notin {"setrange", "wipe", "setpin"} /\ K!About(c) = Target(c)
    BY <1>3 DEF K!Locks, K!About, Target
  <2> QED
    BY <2>1, <2>2 DEF Values, Flags
<1>4. CASE c.verb \in {"wipe", "setpin"}
  <2>1. K!Goal(c) = [n \in {} |-> 0]
    BY <1>4 DEF K!Goal
  <2> QED
    BY <1>4, <2>1 DEF Values
<1>5. CASE c.verb \in {"mbr enable", "mbr disable", "mbr hide", "mbr unhide"}
  <2>1. /\ DOMAIN K!Goal(c) \subseteq {1, 2}
        /\ \A n \in DOMAIN K!Goal(c) : K!Goal(c)[n] \in {0, 1}
    BY <1>5 DEF K!Goal
  <2>2. c.verb \notin {"setrange", "wipe", "setpin"} /\ K!About(c) = Target(c)
    BY <1>5 DEF K!Locks, K!About, Target
  <2> QED
    BY <2>1, <2>2 DEF Values, Flags
<1> QED
  BY <1>1, <1>2, <1>3, <1>4, <1>5 DEF K!Verbs

LEMMA OneOrTwoCalls ==
    ASSUME NEW c, NEW a, NEW b, DOMAIN Values(c) = {a, b},
           NEW s, s = <<SetCall(c, a), SetCall(c, b)>> \/ (a = b /\ s = <<SetCall(c, a)>>)
    PROVE  /\ s \in Seq(SetCalls(c)) /\ s # << >>
           /\ \A n \in DOMAIN Values(c) : \E i \in DOMAIN s : s[i] = SetCall(c, n)
<1>1. SetCall(c, a) \in SetCalls(c) /\ SetCall(c, b) \in SetCalls(c)
  BY DEF SetCalls
<1>2. CASE s = <<SetCall(c, a), SetCall(c, b)>>
  <2>1. 1 \in DOMAIN s /\ 2 \in DOMAIN s /\ s[1] = SetCall(c, a) /\ s[2] = SetCall(c, b)
    BY <1>2
  <2> QED
    BY <1>1, <1>2, <2>1
<1>3. CASE a = b /\ s = <<SetCall(c, a)>>
  <2>1. 1 \in DOMAIN s /\ s[1] = SetCall(c, a)
    BY <1>3
  <2> QED
    BY <1>1, <1>3, <2>1
<1> QED
  BY <1>2, <1>3

\* The calls of a command set what it is to set, and nothing else.
LEMMA CallsAre ==
    ASSUME NEW c \in CommandLines, c.verb \notin {"setpin", "wipe"}
    PROVE  /\ K!Calls(c) \in Seq(SetCalls(c)) /\ K!Calls(c) # << >>
           /\ \A n \in DOMAIN Values(c) : \E i \in DOMAIN K!Calls(c) : K!Calls(c)[i] = SetCall(c, n)
<1>1. c.verb \in K!Verbs
  BY LockingConstants DEF K!Constants
<1> SUFFICES \E a, b :
       /\ DOMAIN Values(c) = {a, b}
       /\ K!Calls(c) = <<SetCall(c, a), SetCall(c, b)>> \/ (a = b /\ K!Calls(c) = <<SetCall(c, a)>>)
  BY OneOrTwoCalls
<1>2. CASE c.verb \in {"lock_on_reset", "wr_lock_on_reset", "unlock_on_reset"}
  <2>1. DOMAIN Values(c) = {5, 6} /\ Target(c) = K!range_id_to_uid(c.id)
    BY <1>2 DEF Values, K!Goal, Target, K!Locks
  <2>2. K!Calls(c) = K!lock_ctl(c.id, TRUE, Values(c)[5], Values(c)[6])
    <3>1. CASE c.verb \in {"lock_on_reset", "unlock_on_reset"}
      BY <3>1 DEF K!Calls, Values, K!Goal
    <3>2. CASE c.verb = "wr_lock_on_reset"
      <4>1. Values(c) = [n \in {5, 6} |-> n - 5]
        BY <3>2 DEF Values, K!Goal
      <4>2. Values(c)[5] = 0 /\ Values(c)[6] = 1
        BY <4>1
      <4> QED
        BY <3>2, <4>2 DEF K!Calls
    <3> QED
      BY <1>2, <3>1, <3>2
  <2>3. K!Calls(c) = <<SetCall(c, 5), SetCall(c, 6)>>
    BY <2>1, <2>2 DEF K!lock_ctl, SetCall
  <2> QED
    BY <2>1, <2>3
<1>3. CASE c.verb \in {"lock", "wr_lock", "unlock"}
  <2>1. DOMAIN Values(c) = {7, 8} /\ Target(c) = K!range_id_to_uid(c.id)
    BY <1>3 DEF Values, K!Goal, Target, K!Locks
  <2>2. K!Calls(c) = K!lock_ctl(c.id, FALSE, Values(c)[7], Values(c)[8])
    <3>1. CASE c.verb \in {"lock", "unlock"}
      BY <3>1 DEF K!Calls, Values, K!Goal
    <3>2. CASE c.verb = "wr_lock"
      <4>1. Values(c) = [n \in {7, 8} |-> n - 7]
        BY <3>2 DEF Values, K!Goal
      <4>2. Values(c)[7] = 0 /\ Values(c)[8] = 1
        BY <4>1
      <4> QED
        BY <3>2, <4>2 DEF K!Calls
    <3> QED
      BY <1>3, <3>1, <3>2
  <2>3. K!Calls(c) = <<SetCall(c, 7), SetCall(c, 8)>>
    BY <2>1, <2>2 DEF K!lock_ctl, SetCall
  <2> QED
    BY <2>1, <2>3
<1>4. CASE c.verb = "setrange"
  <2>1. DOMAIN Values(c) = {3, 4} /\ Target(c) = K!range_id_to_uid(c.id)
    BY <1>4 DEF Values, Target, K!Locks
  <2>2. K!Calls(c) = K!range_ctl(c.id, c.first % Word, c.last % Word)
    BY <1>4 DEF K!Calls
  <2>3. K!Calls(c) = <<SetCall(c, 3), SetCall(c, 4)>>
    BY <1>4, <2>1, <2>2, ValuesAre DEF K!range_ctl, SetCall
  <2> QED
    BY <2>1, <2>3
<1>5. CASE c.verb \in {"mbr enable", "mbr disable"}
  <2>1. DOMAIN Values(c) = {1} /\ Target(c) = K!MBR_CONTROL
    BY <1>5 DEF Values, K!Goal, Target, K!Locks
  <2>2. K!Calls(c) = <<SetCall(c, 1)>>
    BY <1>5, <2>1 DEF K!Calls, K!mbr, SetCall, Values, K!Goal
  <2> QED
    BY <2>1, <2>2
<1>6. CASE c.verb \in {"mbr hide", "mbr unhide"}
  <2>1. DOMAIN Values(c) = {2} /\ Target(c) = K!MBR_CONTROL
    BY <1>6 DEF Values, K!Goal, Target, K!Locks
  <2>2. K!Calls(c) = <<SetCall(c, 2)>>
    BY <1>6, <2>1 DEF K!Calls, K!mbr, SetCall, Values, K!Goal
  <2> QED
    BY <2>1, <2>2
<1> QED
  BY <1>1, <1>2, <1>3, <1>4, <1>5, <1>6 DEF K!Verbs, K!Locks

-----------------------------------------------------------------------------
\* A call that is carried out is one of the command's, in its user's session.
LEMMA CarriedOut ==
    ASSUME LockingInvariant, step = "calls", K!Does(Head(todo))
    PROVE  /\ login # K!Nobody /\ login = user /\ user \in Accounts
           /\ \/ /\ command.verb \notin {"setpin", "wipe"} /\ Target(command) \in K!Tables
                 /\ \E n \in DOMAIN Values(command) :
                      /\ Head(todo) = SetCall(command, n)
                      /\ cell' = [cell EXCEPT ![Target(command)][n] = Values(command)[n]]
                 /\ UNCHANGED <<cpin, key>>
              \/ /\ command.verb = "setpin"
                 /\ \E p \in UserPINs : cpin' = [cpin EXCEPT ![user] = p]
                 /\ UNCHANGED <<cell, key>>
              \/ command.verb = "wipe" /\ Len(todo) = 2 /\ UNCHANGED <<cell, cpin, key>>
              \/ /\ command.verb = "wipe" /\ Len(todo) = 1 /\ Target(command) \in K!Objects
                 /\ key' = [key EXCEPT ![Target(command)] = "new"] /\ UNCHANGED <<cell, cpin>>
<1> USE DEF LockingInvariant, Pending
<1>1. login # K!Nobody /\ login = user /\ user \in Accounts
  BY DEF K!Does, OwnSession
<1>2. CASE command.verb \notin {"setpin", "wipe"}
  <2>1. Head(todo) \in SetCalls(command)
    BY <1>2
  <2>2. PICK n \in DOMAIN Values(command) : Head(todo) = SetCall(command, n)
    BY <2>1 DEF SetCalls
  <2>3. /\ Head(todo).op = "set" /\ Head(todo).uid = Target(command)
        /\ Head(todo).col = n /\ Head(todo).val = Values(command)[n]
    BY <2>2 DEF SetCall, K!Set
  <2>4. \A a \in Accounts : Head(todo).uid # <<11, a[2]>>
    BY <2>3, Objects
  <2>5. /\ Target(command) \in K!Tables
        /\ cell' = [cell EXCEPT ![Target(command)][n] = Values(command)[n]]
        /\ UNCHANGED <<cpin, key>>
    BY <2>3, <2>4 DEF K!Does
  <2> QED
    BY <1>1, <1>2, <2>2, <2>5
<1>3. CASE command.verb = "setpin"
  <2>1. PICK p \in UserPINs : todo = <<K!Set(K!pin_uid(user), 3, p)>>
    BY <1>3
  <2>2. user[1] = 9 /\ user[2] \in Int /\ user = <<user[1], user[2]>>
        /\ \A a \in Accounts : a = <<9, a[2]>>
    BY <1>1, LockingConstants DEF K!Constants
  <2>3. K!pin_uid(user) = <<11, user[2]>>
    BY <2>2 DEF K!pin_uid, K!C_PIN_USER_BASE, K!USER_BASE
  <2>4. /\ Head(todo).op = "set" /\ Head(todo).uid = <<11, user[2]>> /\ Head(todo).val = p
        /\ Head(todo).uid[1] = 11
    BY <2>1, <2>3 DEF K!Set
  <2>5. PICK a \in Accounts : /\ Head(todo).uid = <<11, a[2]>>
                              /\ cpin' = [cpin EXCEPT ![a] = Head(todo).val]
                              /\ UNCHANGED <<cell, key>>
    BY <2>4, Objects DEF K!Does
  <2>6. a[2] = user[2]
    BY <2>4, <2>5
  <2>7. a = user
    BY <2>2, <2>6
  <2> QED
    BY <1>1, <1>3, <2>4, <2>5, <2>7
<1>4. CASE command.verb = "wipe"
  <2>1. CASE todo = <<K!Get(Target(command), 10), K!Genkey(Target(command))>>
    <3>1. Head(todo).op = "get" /\ Len(todo) = 2
      BY <2>1 DEF K!Get
    <3> QED
      BY <1>1, <1>4, <3>1 DEF K!Does, K!rows
  <2>2. CASE todo = <<K!Genkey(Target(command))>>
    <3>1. Head(todo).op = "genkey" /\ Len(todo) = 1 /\ Head(todo).uid = Target(command)
      BY <2>2 DEF K!Genkey
    <3> QED
      BY <1>1, <1>4, <3>1 DEF K!Does
  <2> QED
    BY <1>4, <2>1, <2>2
<1> QED
  BY <1>2, <1>3, <1>4

\* Writing a column of the command disturbs nothing that is promised.
LEMMA Written ==
    ASSUME LockingInvariant, step = "calls", login # K!Nobody, Target(command) \in K!Tables,
           NEW n \in DOMAIN Values(command),
           cell' = [cell EXCEPT ![Target(command)][n] = Values(command)[n]]
    PROVE  /\ cell' \in [K!Tables -> [1..8 -> Int]]
           /\ \A o \in K!Tables, k \in Flags : cell'[o][k] \in {0, 1}
           /\ \A o \in K!Tables, k \in 1..8 : asked[o][k] # K!Unknown => cell'[o][k] = asked[o][k]
           /\ \A o \in K!Objects : span[o] # << >> =>
                /\ cell'[o][3] = span[o][1]
                /\ cell'[o][4] = (span[o][2] + 1 - span[o][1]) % Word
           /\ cell'[Target(command)][n] = Values(command)[n]
           /\ \A k \in 1..8 : k # n => cell'[Target(command)][k] = cell[Target(command)][k]
<1> USE DEF LockingInvariant
<1>1. /\ command \in CommandLines /\ n \in 1..8 /\ Values(command)[n] \in Int
      /\ n \in Flags => Values(command)[n] \in {0, 1}
  BY ValuesAre DEF Types
<1>2. /\ cell' \in [K!Tables -> [1..8 -> Int]]
      /\ cell'[Target(command)][n] = Values(command)[n]
      /\ \A o \in K!Tables, k \in 1..8 : o # Target(command) \/ k # n => cell'[o][k] = cell[o][k]
  BY <1>1 DEF Types
<1>3. ASSUME NEW o \in K!Tables, NEW k \in Flags PROVE cell'[o][k] \in {0, 1}
  <2>1. k \in 1..8
    BY DEF Flags
  <2>2. CASE o = Target(command) /\ k = n
    BY <1>1, <1>2, <2>2
  <2>3. CASE ~(o = Target(command) /\ k = n)
    BY <1>2, <2>1, <2>3 DEF Types
  <2> QED
    BY <2>2, <2>3
<1>4. asked[Target(command)][n] = K!Unknown
  BY DEF Forgotten
<1>5. \A o \in K!Tables, k \in 1..8 : asked[o][k] # K!Unknown => cell'[o][k] = asked[o][k]
  BY <1>2, <1>4 DEF AskedIsThere
<1>6. ASSUME NEW o \in K!Objects, span[o] # << >>
      PROVE  cell'[o][3] = cell[o][3] /\ cell'[o][4] = cell[o][4]
  <2>1. o \in K!Tables
    BY Objects
  <2>2. CASE o = Target(command)
    <3>1. command.verb # "setrange"
      BY <1>6, <2>2 DEF Forgotten
    <3>2. n \in Flags
      BY <1>1, <3>1, ValuesAre
    <3> QED
      BY <1>2, <2>1, <3>2 DEF Flags
  <2>3. CASE o # Target(command)
    BY <1>2, <2>1, <2>3
  <2> QED
    BY <2>2, <2>3
<1> QED
  BY <1>2, <1>3, <1>5, <1>6 DEF SpanIsThere

-----------------------------------------------------------------------------
LEMMA LockingInit == K!Init => LockingInvariant
<1> SUFFICES ASSUME K!Init PROVE LockingInvariant
  OBVIOUS
<1>1. \A o \in K!Tables, n \in 1..8 : cell[o][n] = 0 /\ asked[o][n] = K!Unknown
  BY DEF K!Init
<1>2. \A o \in K!Objects : span[o] = << >> /\ key[o] = "old"
  BY DEF K!Init
<1>3. /\ cell \in [K!Tables -> [1..8 -> Int]] /\ asked \in [K!Tables -> [1..8 -> Int]]
      /\ cpin \in [Accounts -> UserPINs] /\ key \in [K!Objects -> {"old", "new"}]
      /\ span \in [K!Objects -> {<< >>} \cup (0..(Word - 1)) \X (0..(Word - 1))]
  BY DEF K!Init, K!Unknown
<1>4. step = "off" /\ ended = "none" /\ command \in CommandLines
  BY DEF K!Init
<1>5. Types
  BY <1>1, <1>3, <1>4 DEF Types, Flags
<1> QED
  BY <1>1, <1>2, <1>4, <1>5
  DEF LockingInvariant, AskedIsThere, SpanIsThere, Forgotten, OwnSession, Pending, Keys

\* A run that ends in another way than by completing its command.
LEMMA BreaksOff ==
    ASSUME LockingInvariant, UNCHANGED <<command, cell, cpin, asked, span>>,
           step' = "off", ended' # "done", key' \in [K!Objects -> {"old", "new"}]
    PROVE  LockingInvariant'
BY DEF LockingInvariant, Types, AskedIsThere, SpanIsThere, Forgotten, OwnSession, Pending, Keys

LEMMA Expectation ==
    ASSUME Types, NEW c \in CommandLines, NEW known \in BOOLEAN
    PROVE  /\ K!Expect(c, known) \in [K!Tables -> [1..8 -> Int]]
           /\ \A o \in K!Tables, k \in 1..8 :
                \/ K!Expect(c, known)[o][k] = asked[o][k]
                \/ /\ o = Target(c) /\ k \in DOMAIN K!Goal(c)
                   /\ K!Expect(c, known)[o][k] = IF known THEN Values(c)[k] ELSE K!Unknown
           /\ Target(c) \in K!Tables => \A k \in DOMAIN K!Goal(c) :
                K!Expect(c, known)[Target(c)][k] = IF known THEN Values(c)[k] ELSE K!Unknown
<1> DEFINE row == [k \in 1..8 |-> IF k \notin DOMAIN K!Goal(c) THEN asked[K!About(c)][k]
                                  ELSE IF known THEN K!Goal(c)[k] ELSE K!Unknown]
<1>1. K!Expect(c, known) = [asked EXCEPT ![K!About(c)] = row]
  BY DEF K!Expect
<1>2. /\ DOMAIN K!Goal(c) \subseteq 1..8
      /\ \A k \in DOMAIN K!Goal(c) : K!Goal(c)[k] = Values(c)[k] /\ Values(c)[k] \in Int
      /\ DOMAIN K!Goal(c) # {} => K!About(c) = Target(c)
  BY ValuesAre DEF Flags
<1>3. CASE K!About(c) \in K!Tables
  <2>1. \A k \in 1..8 : asked[K!About(c)][k] \in Int
    BY <1>3 DEF Types
  <2>2. K!Unknown \in Int
    BY DEF K!Unknown
  <2>3. row \in [1..8 -> Int]
    BY <1>2, <2>1, <2>2
  <2>4. \A k \in 1..8 : row[k] = IF k \notin DOMAIN K!Goal(c) THEN asked[K!About(c)][k]
                                  ELSE IF known THEN Values(c)[k] ELSE K!Unknown
    BY <1>2
  <2> HIDE DEF row
  <2>5. /\ K!Expect(c, known) \in [K!Tables -> [1..8 -> Int]] /\ K!Expect(c, known)[K!About(c)] = row
        /\ \A o \in K!Tables : o # K!About(c) => K!Expect(c, known)[o] = asked[o]
    BY <1>1, <1>3, <2>3 DEF Types
  <2> QED
    BY <1>2, <2>4, <2>5
<1>4. CASE K!About(c) \notin K!Tables
  <2>1. K!Expect(c, known) = asked
    BY <1>1, <1>4 DEF Types
  <2> QED
    BY <1>2, <1>4, <2>1 DEF Types
<1> QED
  BY <1>3, <1>4

LEMMA LoginStep ==
    ASSUME LockingInvariant, NEW c \in CommandLines, NEW n \in Names, NEW p \in UserPINs,
           K!Login(c, n, p)
    PROVE  LockingInvariant'
<1> USE DEF LockingInvariant
<1>1. /\ command' = c /\ user' \in Accounts /\ login' = user' /\ UNCHANGED <<cell, cpin>>
      /\ key' = [o \in K!Objects |-> "old"]
      /\ asked' = K!Expect(c, FALSE) /\ span' = K!Place(c, << >>)
      /\ IF c.verb = "setpin" THEN step' = "entry" ELSE step' = "calls" /\ todo' = K!Calls(c)
  BY DEF K!Login, K!LoggedIn
<1>2. /\ asked' \in [K!Tables -> [1..8 -> Int]]
      /\ \A o \in K!Tables, k \in 1..8 : asked'[o][k] \in {asked[o][k], K!Unknown}
      /\ Target(c) \in K!Tables => \A k \in DOMAIN K!Goal(c) : asked'[Target(c)][k] = K!Unknown
  BY <1>1, Expectation
<1>3. /\ span' \in [K!Objects -> {<< >>} \cup (0..(Word - 1)) \X (0..(Word - 1))]
      /\ \A o \in K!Objects : span'[o] \in {span[o], << >>}
      /\ c.verb = "setrange" /\ Target(c) \in K!Objects => span'[Target(c)] = << >>
  <2>1. c.verb = "setrange" => Target(c) = K!range_id_to_uid(c.id)
    BY DEF Target
  <2> QED
    BY <1>1, <2>1 DEF K!Place, Types
<1>4. Types'
  BY <1>1, <1>2, <1>3 DEF Types
<1>5. AskedIsThere'
  <2>1. 3 \in 1..8 /\ 4 \in 1..8
    OBVIOUS
  <2>2. cell' = cell
    BY <1>1
  <2>3. \A o \in K!Tables, k \in 1..8 : asked'[o][k] # K!Unknown => cell'[o][k] = asked'[o][k]
    BY <1>2, <2>2 DEF AskedIsThere
  <2>4. \A o \in K!Tables, k \in {3, 4} : asked'[o][k] = K!Unknown
    BY <1>2, <2>1 DEF AskedIsThere
  <2> QED
    BY <2>3, <2>4 DEF AskedIsThere
<1>6. SpanIsThere'
  BY <1>1, <1>3 DEF SpanIsThere
<1>7. Forgotten'
  <2>1. ASSUME Target(c) \in K!Tables, NEW k \in DOMAIN Values(c)
        PROVE  asked'[Target(c)][k] = K!Unknown
    <3>1. CASE c.verb = "setrange"
      BY <1>5, <2>1, <3>1, ValuesAre DEF AskedIsThere
    <3>2. CASE c.verb # "setrange"
      BY <1>2, <2>1, <3>2, ValuesAre
    <3> QED
      BY <3>1, <3>2
  <2> QED
    BY <1>1, <1>3, <2>1 DEF Forgotten
<1>8. OwnSession'
  BY <1>1 DEF OwnSession
<1>9. Pending'
  <2>1. CASE c.verb = "setpin"
    BY <1>1, <2>1 DEF Pending
  <2>2. CASE c.verb = "wipe"
    <3>1. todo' = <<K!Get(Target(c), 10), K!Genkey(Target(c))>>
      BY <1>1, <2>2 DEF K!Calls, K!wipe_range, Target
    <3> QED
      BY <1>1, <2>2, <3>1 DEF Pending
  <2>3. CASE c.verb \notin {"setpin", "wipe"}
    BY <1>1, <2>3, CallsAre DEF Pending
  <2> QED
    BY <2>1, <2>2, <2>3
<1>10. Keys'
  BY <1>1 DEF Keys
<1> QED
  BY <1>4, <1>5, <1>6, <1>7, <1>8, <1>9, <1>10

\* With the last call the command has what it asked for.
LEMMA CompletedStep ==
    ASSUME LockingInvariant, step = "calls", Len(todo) = 1, K!Does(Head(todo)),
           K!End("done"), K!Completed, UNCHANGED <<command, login>>
    PROVE  LockingInvariant'
<1> USE DEF LockingInvariant
<1>1. /\ step' = "off" /\ ended' = "done" /\ UNCHANGED <<command, login>>
      /\ asked' = K!Expect(command, TRUE)
      /\ span' = K!Place(command, <<command.first % Word, command.last % Word>>)
      /\ command \in CommandLines
  BY DEF K!End, K!Completed, Types
<1>2. Forgotten' /\ OwnSession' /\ Pending'
  BY <1>1 DEF Forgotten, OwnSession, Pending
<1>3. CASE command.verb \notin {"setpin", "wipe"}
  <2>1. /\ login # K!Nobody /\ Target(command) \in K!Tables /\ UNCHANGED <<cpin, key>>
        /\ \E n \in DOMAIN Values(command) :
             /\ Head(todo) = SetCall(command, n)
             /\ cell' = [cell EXCEPT ![Target(command)][n] = Values(command)[n]]
    BY <1>3, CarriedOut
  <2>2. PICK n \in DOMAIN Values(command) :
             /\ Head(todo) = SetCall(command, n)
             /\ cell' = [cell EXCEPT ![Target(command)][n] = Values(command)[n]]
    BY <2>1
  <2>3. \A k \in DOMAIN Values(command) : cell'[Target(command)][k] = Values(command)[k]
    <3> SUFFICES ASSUME NEW k \in DOMAIN Values(command), k # n
                 PROVE  cell'[Target(command)][k] = Values(command)[k]
      BY <2>1, <2>2, Written
    <3>1. k \in 1..8
      BY <1>1, ValuesAre
    <3>2. SetCall(command, k) # SetCall(command, n)
      BY DEF SetCall, K!Set
    <3>3. \A i \in DOMAIN todo : todo[i] = SetCall(command, n)
      BY <1>3, <2>2 DEF Pending
    <3>4. cell[Target(command)][k] = Values(command)[k]
      BY <1>3, <2>1, <3>2, <3>3 DEF Pending
    <3> QED
      BY <2>1, <2>2, <3>1, <3>4, Written
  <2>4. /\ cell' \in [K!Tables -> [1..8 -> Int]]
        /\ \A o \in K!Tables, k \in Flags : cell'[o][k] \in {0, 1}
        /\ \A o \in K!Tables, k \in 1..8 : asked[o][k] # K!Unknown => cell'[o][k] = asked[o][k]
        /\ \A o \in K!Objects : span[o] # << >> =>
             /\ cell'[o][3] = span[o][1]
             /\ cell'[o][4] = (span[o][2] + 1 - span[o][1]) % Word
    BY <2>1, <2>2, Written
  <2>5. AskedIsThere'
    <3>1. DOMAIN K!Goal(command) \subseteq DOMAIN Values(command) /\ DOMAIN K!Goal(command) \subseteq Flags
      BY <1>1, ValuesAre
    <3>2. \A o \in K!Tables, k \in 1..8 : asked'[o][k] # K!Unknown => cell'[o][k] = asked'[o][k]
      <4> SUFFICES ASSUME NEW o \in K!Tables, NEW k \in 1..8
                   PROVE  asked'[o][k] # K!Unknown => cell'[o][k] = asked'[o][k]
        OBVIOUS
      <4>1. asked'[o][k] = asked[o][k] \/ (o = Target(command) /\ k \in DOMAIN K!Goal(command)
                                            /\ asked'[o][k] = Values(command)[k])
        BY <1>1, Expectation
      <4>2. CASE asked'[o][k] = asked[o][k]
        BY <2>4, <4>2
      <4>3. CASE o = Target(command) /\ k \in DOMAIN K!Goal(command) /\ asked'[o][k] = Values(command)[k]
        BY <2>3, <3>1, <4>3
      <4> QED
        BY <4>1, <4>2, <4>3
    <3>3. \A o \in K!Tables, k \in {3, 4} : asked'[o][k] = K!Unknown
      <4>1. 3 \in 1..8 /\ 4 \in 1..8 /\ 3 \notin Flags /\ 4 \notin Flags
        BY DEF Flags
      <4>2. \A o \in K!Tables, k \in {3, 4} : asked'[o][k] = asked[o][k]
        <5> SUFFICES ASSUME NEW o \in K!Tables, NEW k \in {3, 4} PROVE asked'[o][k] = asked[o][k]
          OBVIOUS
        <5>1. k \in 1..8 /\ k \notin DOMAIN K!Goal(command)
          BY <3>1, <4>1
        <5> QED
          BY <1>1, <5>1, Expectation
      <4> QED
        BY <4>2 DEF AskedIsThere
    <3> QED
      BY <3>2, <3>3 DEF AskedIsThere
  <2>6. /\ span' \in [K!Objects -> {<< >>} \cup (0..(Word - 1)) \X (0..(Word - 1))]
        /\ SpanIsThere'
    <3>1. CASE command.verb = "setrange"
      <4>1. /\ command.first % Word \in 0..(Word - 1) /\ command.last % Word \in 0..(Word - 1)
        BY <1>1, LockingConstants DEF K!Constants
      <4>2. /\ cell'[Target(command)][3] = command.first % Word
            /\ cell'[Target(command)][4] = ((command.last % Word) + 1 - (command.first % Word)) % Word
        BY <1>1, <2>3, <3>1, ValuesAre
      <4>3. span' = [span EXCEPT ![Target(command)] = <<command.first % Word, command.last % Word>>]
        BY <1>1, <3>1 DEF K!Place, Target
      <4>4. /\ span' \in [K!Objects -> {<< >>} \cup (0..(Word - 1)) \X (0..(Word - 1))]
            /\ Target(command) \in K!Objects =>
                 span'[Target(command)] = <<command.first % Word, command.last % Word>>
            /\ \A o \in K!Objects : o # Target(command) => span'[o] = span[o]
        BY <4>1, <4>3 DEF Types
      <4> QED
        <5> SUFFICES ASSUME NEW o \in K!Objects, span'[o] # << >>
                     PROVE  /\ cell'[o][3] = span'[o][1]
                            /\ cell'[o][4] = (span'[o][2] + 1 - span'[o][1]) % Word
          BY <4>4 DEF SpanIsThere
        <5>1. CASE o = Target(command)
          BY <4>2, <4>4, <5>1
        <5>2. CASE o # Target(command)
          BY <2>4, <4>4, <5>2
        <5> QED
          BY <5>1, <5>2
    <3>2. CASE command.verb # "setrange"
      <4>1. span' = span
        BY <1>1, <3>2 DEF K!Place
      <4> QED
        BY <2>4, <4>1 DEF SpanIsThere, Types
    <3> QED
      BY <3>1, <3>2
  <2>7. Types'
    BY <1>1, <2>1, <2>4, <2>6, Expectation DEF Types
  <2>8. Keys'
    BY <1>1, <1>3, <2>1 DEF Keys
  <2> QED
    BY <1>2, <2>5, <2>6, <2>7, <2>8
<1>4. CASE command.verb \in {"setpin", "wipe"}
  <2>1. /\ cell' = cell /\ span' = span
        /\ \A o \in K!Tables, k \in 1..8 : asked'[o][k] = asked[o][k]
        /\ asked' \in [K!Tables -> [1..8 -> Int]]
    <3>1. cell' = cell
      BY <1>4, CarriedOut
    <3>2. DOMAIN K!Goal(command) = {}
      BY <1>1, <1>4, ValuesAre
    <3>3. span' = span
      BY <1>1, <1>4 DEF K!Place
    <3> QED
      BY <1>1, <3>1, <3>2, <3>3, Expectation
  <2>2. AskedIsThere' /\ SpanIsThere'
    <3>1. 3 \in 1..8 /\ 4 \in 1..8
      OBVIOUS
    <3>2. SpanIsThere'
      BY <2>1 DEF SpanIsThere
    <3>3. \A o \in K!Tables, k \in {3, 4} : asked'[o][k] = K!Unknown
      BY <2>1, <3>1 DEF AskedIsThere
    <3>4. \A o \in K!Tables, k \in 1..8 : asked'[o][k] # K!Unknown => cell'[o][k] = asked'[o][k]
      BY <2>1 DEF AskedIsThere
    <3> QED
      BY <3>2, <3>3, <3>4 DEF AskedIsThere
  <2>3. cpin' \in [Accounts -> UserPINs] /\ key' \in [K!Objects -> {"old", "new"}]
    BY <1>4, CarriedOut DEF Types
  <2>4. Keys'
    <3>1. CASE command.verb = "setpin"
      BY <1>1, <3>1, CarriedOut DEF Keys
    <3>2. CASE command.verb = "wipe"
      <4>1. key' = [key EXCEPT ![Target(command)] = "new"] /\ Target(command) \in K!Objects
        BY <3>2, CarriedOut
      <4>2. \A o \in K!Objects : key'[o] = IF o = Target(command) THEN "new" ELSE "old"
        BY <4>1 DEF Keys, Types
      <4> QED
        BY <1>1, <3>2, <4>2 DEF Keys
    <3> QED
      BY <1>4, <3>1, <3>2
  <2> QED
    BY <1>1, <1>2, <2>1, <2>2, <2>3, <2>4 DEF Types
<1> QED
  BY <1>3, <1>4

LEMMA TailOfTwo == \A a, b : Tail(<<a, b>>) = <<b>>
OBVIOUS

LEMMA CallStep == LockingInvariant /\ K!Call => LockingInvariant'
<1> SUFFICES ASSUME LockingInvariant, K!Call PROVE LockingInvariant'
  OBVIOUS
<1> USE DEF LockingInvariant
<1>1. step = "calls" /\ K!Does(Head(todo)) /\ UNCHANGED <<command, login>>
  BY DEF K!Call
<1>2. CASE Len(todo) = 1
  <2>1. K!End("done") /\ K!Completed
    BY <1>2 DEF K!Call
  <2> QED
    BY <1>1, <1>2, <2>1, CompletedStep
<1>3. CASE Len(todo) # 1
  <2>1. todo' = Tail(todo) /\ UNCHANGED <<step, ended, user, asked, span>>
    BY <1>3 DEF K!Call
  <2>2. CASE command.verb \notin {"setpin", "wipe"}
    <3>1. /\ login # K!Nobody /\ Target(command) \in K!Tables /\ UNCHANGED <<cpin, key>>
          /\ \E n \in DOMAIN Values(command) :
               /\ Head(todo) = SetCall(command, n)
               /\ cell' = [cell EXCEPT ![Target(command)][n] = Values(command)[n]]
      BY <1>1, <2>2, CarriedOut
    <3>2. PICK n \in DOMAIN Values(command) :
               /\ Head(todo) = SetCall(command, n)
               /\ cell' = [cell EXCEPT ![Target(command)][n] = Values(command)[n]]
      BY <3>1
    <3>3. /\ cell' \in [K!Tables -> [1..8 -> Int]]
          /\ \A o \in K!Tables, k \in Flags : cell'[o][k] \in {0, 1}
          /\ \A o \in K!Tables, k \in 1..8 : asked[o][k] # K!Unknown => cell'[o][k] = asked[o][k]
          /\ \A o \in K!Objects : span[o] # << >> =>
               /\ cell'[o][3] = span[o][1]
               /\ cell'[o][4] = (span[o][2] + 1 - span[o][1]) % Word
          /\ cell'[Target(command)][n] = Values(command)[n]
          /\ \A k \in 1..8 : k # n => cell'[Target(command)][k] = cell[Target(command)][k]
      BY <1>1, <3>1, <3>2, Written
    <3>4. Types' /\ AskedIsThere' /\ SpanIsThere'
      BY <1>1, <2>1, <3>1, <3>3 DEF Types, AskedIsThere, SpanIsThere
    <3>5. Forgotten' /\ OwnSession' /\ Keys'
      BY <1>1, <2>1, <3>1 DEF Forgotten, OwnSession, Keys
    <3>6. Pending'
      <4>1. todo \in Seq(SetCalls(command)) /\ todo # << >>
        BY <1>1, <2>2 DEF Pending
      <4>2. todo' \in Seq(SetCalls(command)) /\ todo' # << >>
        <5>1. Len(todo) \in Nat /\ Len(todo) > 1
          <6>1. Len(todo) \in Nat /\ Len(todo) # 0
            BY <4>1
          <6>2. \A q \in Nat : q # 0 /\ q # 1 => q > 1
            OBVIOUS
          <6> QED
            BY <1>3, <6>1, <6>2
        <5>2. todo' \in Seq(SetCalls(command)) /\ Len(todo') = Len(todo) - 1
          BY <2>1, <4>1
        <5> QED
          BY <5>1, <5>2
      <4>3. ASSUME NEW k \in DOMAIN Values(command)
            PROVE  \/ cell'[Target(command)][k] = Values(command)[k]
                   \/ \E i \in DOMAIN todo' : todo'[i] = SetCall(command, k)
        <5>1. k \in 1..8
          BY ValuesAre DEF Types
        <5>2. CASE cell[Target(command)][k] = Values(command)[k]
          BY <3>3, <5>1, <5>2
        <5>3. CASE \E i \in DOMAIN todo : todo[i] = SetCall(command, k)
          <6>1. PICK i \in DOMAIN todo : todo[i] = SetCall(command, k)
            BY <5>3
          <6>2. CASE i = 1
            <7>1. SetCall(command, k) = SetCall(command, n)
              BY <3>2, <4>1, <6>1, <6>2
            <7>2. k = n
              BY <7>1 DEF SetCall, K!Set
            <7> QED
              BY <3>3, <7>2
          <6>3. CASE i # 1
            <7>1. i - 1 \in DOMAIN todo' /\ todo'[i - 1] = todo[i]
              BY <2>1, <4>1, <6>3
            <7> QED
              BY <6>1, <7>1
          <6> QED
            BY <6>2, <6>3
        <5> QED
          BY <1>1, <2>2, <3>1, <5>2, <5>3 DEF Pending
      <4> QED
        BY <1>1, <2>1, <2>2, <4>2, <4>3 DEF Pending
    <3> QED
      BY <3>4, <3>5, <3>6
  <2>3. CASE command.verb \in {"setpin", "wipe"}
    <3>1. command.verb = "wipe" /\ Len(todo) = 2 /\ UNCHANGED <<cell, cpin, key>>
      <4>1. command.verb # "setpin"
        BY <1>1, <1>3 DEF Pending
      <4> QED
        BY <1>1, <1>3, <2>3, <4>1, CarriedOut
    <3>2. todo' = <<K!Genkey(Target(command))>>
      <4>1. \/ todo = <<K!Get(Target(command), 10), K!Genkey(Target(command))>>
            \/ todo = <<K!Genkey(Target(command))>>
        BY <1>1, <3>1 DEF Pending
      <4>2. todo # <<K!Genkey(Target(command))>>
        BY <3>1
      <4> QED
        BY <2>1, <4>1, <4>2, TailOfTwo
    <3>3. Pending'
      BY <1>1, <2>1, <3>1, <3>2 DEF Pending
    <3> QED
      BY <1>1, <2>1, <3>1, <3>3 DEF Types, AskedIsThere, SpanIsThere, Forgotten, OwnSession, Keys
  <2> QED
    BY <2>2, <2>3
<1> QED
  BY <1>2, <1>3

LEMMA FaultStep == LockingInvariant /\ K!Fault => LockingInvariant'
<1> SUFFICES ASSUME LockingInvariant, K!Fault PROVE LockingInvariant'
  OBVIOUS
<1>1. /\ step = "calls" /\ step' = "off" /\ ended' = "exception" /\ ended' # "done"
      /\ UNCHANGED <<command, login, asked, span>>
      /\ K!Does(Head(todo)) \/ UNCHANGED <<cell, cpin, key>>
  BY DEF K!Fault, K!End, K!rows
<1>2. CASE UNCHANGED <<cell, cpin, key>>
  BY <1>1, <1>2, BreaksOff DEF LockingInvariant, Types
<1>3. CASE K!Does(Head(todo))
  <2>1. CASE command.verb \notin {"setpin", "wipe"}
    <3>1. PICK n \in DOMAIN Values(command) :
               cell' = [cell EXCEPT ![Target(command)][n] = Values(command)[n]]
      BY <1>1, <1>3, <2>1, CarriedOut
    <3>2. login # K!Nobody /\ Target(command) \in K!Tables /\ UNCHANGED <<cpin, key>>
      BY <1>1, <1>3, <2>1, CarriedOut
    <3>3. /\ cell' \in [K!Tables -> [1..8 -> Int]]
          /\ \A o \in K!Tables, k \in Flags : cell'[o][k] \in {0, 1}
          /\ \A o \in K!Tables, k \in 1..8 : asked[o][k] # K!Unknown => cell'[o][k] = asked[o][k]
          /\ \A o \in K!Objects : span[o] # << >> =>
               /\ cell'[o][3] = span[o][1]
               /\ cell'[o][4] = (span[o][2] + 1 - span[o][1]) % Word
      BY <1>1, <3>1, <3>2, Written
    <3> QED
      BY <1>1, <3>2, <3>3
      DEF LockingInvariant, Types, AskedIsThere, SpanIsThere, Forgotten, OwnSession, Pending, Keys
  <2>2. CASE command.verb \in {"setpin", "wipe"}
    <3>1. cell' = cell /\ cpin' \in [Accounts -> UserPINs] /\ key' \in [K!Objects -> {"old", "new"}]
      BY <1>1, <1>3, <2>2, CarriedOut DEF LockingInvariant, Types
    <3> QED
      BY <1>1, <3>1
      DEF LockingInvariant, Types, AskedIsThere, SpanIsThere, Forgotten, OwnSession, Pending, Keys
  <2> QED
    BY <2>1, <2>2
<1> QED
  BY <1>1, <1>2, <1>3

LEMMA EntryStep == LockingInvariant /\ K!Entry => LockingInvariant'
<1> SUFFICES ASSUME LockingInvariant, K!Entry PROVE LockingInvariant'
  OBVIOUS
<1>1. step = "entry" /\ UNCHANGED <<command, login, cell, cpin, key, asked, span>>
  BY DEF K!Entry, K!rows
<1>2. CASE step' = "off" /\ ended' # "done"
  BY <1>1, <1>2, BreaksOff DEF LockingInvariant, Types
<1>3. CASE \E p \in UserPINs : todo' = <<K!Set(K!pin_uid(user), 3, p)>> /\ step' = "calls" /\ UNCHANGED user
  <2>1. command.verb = "setpin"
    BY <1>1 DEF LockingInvariant, Pending
  <2> QED
    BY <1>1, <1>3, <2>1
    DEF LockingInvariant, Types, AskedIsThere, SpanIsThere, Forgotten, OwnSession, Pending, Keys
<1> QED
  BY <1>2, <1>3 DEF K!Entry, K!End

\* A power cycle closes the locks that are closed on reset, as was asked.
LEMMA PowerCycleStep == LockingInvariant /\ K!PowerCycle => LockingInvariant'
<1> SUFFICES ASSUME LockingInvariant, K!PowerCycle PROVE LockingInvariant'
  OBVIOUS
<1> USE DEF LockingInvariant
<1>1. /\ login' = K!Nobody /\ cell' = K!LocksNow
      /\ UNCHANGED <<step, command, user, todo, ended, cpin, key, span>>
  BY DEF K!PowerCycle, K!tool
<1>2. \A o \in K!Tables, n \in 1..8 :
        cell'[o][n] = IF n \in {7, 8} /\ cell[o][n - 2] = 1 THEN 1
                      ELSE IF o = K!MBR_CONTROL /\ n = 2 THEN 0 ELSE cell[o][n]
  BY <1>1 DEF K!LocksNow
<1>3. \A o \in K!Tables, n \in 1..8 :
        asked'[o][n] = IF o = K!MBR_CONTROL /\ n = 2 THEN 0
                       ELSE IF n \notin {7, 8} \/ asked[o][n - 2] = 0 THEN asked[o][n]
                       ELSE asked[o][n - 2]
  BY DEF K!PowerCycle
<1>4. cell' \in [K!Tables -> [1..8 -> Int]]
  <2>1. \A o \in K!Tables, n \in 1..8 :
          (IF n \in {7, 8} /\ cell[o][n - 2] = 1 THEN 1
           ELSE IF o = K!MBR_CONTROL /\ n = 2 THEN 0 ELSE cell[o][n]) \in Int
    <3>1. \A o \in K!Tables, n \in 1..8 : cell[o][n] \in Int
      BY DEF Types
    <3> QED
      BY <3>1
  <2> QED
    BY <1>1, <2>1 DEF K!LocksNow
<1>5. asked' \in [K!Tables -> [1..8 -> Int]]
  <2>1. ASSUME NEW o \in K!Tables, NEW n \in 1..8
        PROVE  (IF o = K!MBR_CONTROL /\ n = 2 THEN 0
                ELSE IF n \notin {7, 8} \/ asked[o][n - 2] = 0 THEN asked[o][n]
                ELSE asked[o][n - 2]) \in Int
    <3>1. n \in {7, 8} => n - 2 \in 1..8
      OBVIOUS
    <3>2. asked[o][n] \in Int /\ (n - 2 \in 1..8 => asked[o][n - 2] \in Int)
      BY DEF Types
    <3> QED
      BY <3>1, <3>2
  <2> QED
    BY <2>1 DEF K!PowerCycle
<1>6. ASSUME NEW o \in K!Tables, NEW n \in Flags PROVE cell'[o][n] \in {0, 1}
  <2>1. n \in 1..8
    BY DEF Flags
  <2> QED
    BY <1>2, <2>1 DEF Types
<1>7. AskedIsThere'
  <2>1. ASSUME NEW o \in K!Tables, NEW n \in 1..8, asked'[o][n] # K!Unknown
        PROVE  cell'[o][n] = asked'[o][n]
    <3>1. CASE n \notin {7, 8}
      BY <1>2, <1>3, <2>1, <3>1 DEF AskedIsThere
    <3>2. CASE n \in {7, 8}
      <4>1. n - 2 \in 1..8 /\ n - 2 \in Flags /\ n # 2
        BY <3>2 DEF Flags
      <4>2. cell[o][n - 2] \in {0, 1}
        BY <4>1 DEF Types
      <4>3. asked[o][n - 2] # K!Unknown => cell[o][n - 2] = asked[o][n - 2]
        BY <4>1 DEF AskedIsThere
      <4>4. asked[o][n] # K!Unknown => cell[o][n] = asked[o][n]
        BY DEF AskedIsThere
      <4>5. cell'[o][n] = IF cell[o][n - 2] = 1 THEN 1 ELSE cell[o][n]
        BY <1>2, <3>2, <4>1
      <4>6. asked'[o][n] = IF asked[o][n - 2] = 0 THEN asked[o][n] ELSE asked[o][n - 2]
        BY <1>3, <3>2, <4>1
      <4>7. 0 # K!Unknown
        BY DEF K!Unknown
      <4> QED
        BY <2>1, <4>2, <4>3, <4>4, <4>5, <4>6, <4>7
    <3> QED
      BY <3>1, <3>2
  <2>2. ASSUME NEW o \in K!Tables, NEW n \in {3, 4} PROVE asked'[o][n] = K!Unknown
    <3>1. n \in 1..8 /\ n \notin {2, 7, 8}
      OBVIOUS
    <3> QED
      BY <1>3, <3>1 DEF AskedIsThere
  <2> QED
    BY <2>1, <2>2 DEF AskedIsThere
<1>8. SpanIsThere'
  <2>1. ASSUME NEW o \in K!Objects PROVE cell'[o][3] = cell[o][3] /\ cell'[o][4] = cell[o][4]
    <3>1. o \in K!Tables /\ 3 \in 1..8 /\ 4 \in 1..8
      BY Objects
    <3> QED
      BY <1>2, <3>1
  <2> QED
    BY <1>1, <2>1 DEF SpanIsThere
<1>9. Types'
  BY <1>1, <1>4, <1>5, <1>6 DEF Types
<1>10. Forgotten' /\ OwnSession' /\ Pending' /\ Keys'
  BY <1>1 DEF Forgotten, OwnSession, Pending, Keys
<1> QED
  BY <1>7, <1>8, <1>9, <1>10

LEMMA LockingStep == LockingInvariant /\ [K!Next]_(K!vars) => LockingInvariant'
<1> SUFFICES ASSUME LockingInvariant, [K!Next]_(K!vars) PROVE LockingInvariant'
  OBVIOUS
<1>1. CASE K!LoginFails \/ K!Kill
  <2>1. UNCHANGED <<command, cell, cpin, key, asked, span>> /\ step' = "off" /\ ended' # "done"
    BY <1>1 DEF K!LoginFails, K!Kill, K!End, K!rows
  <2> QED
    BY <2>1, BreaksOff DEF LockingInvariant, Types
<1>2. CASE UNCHANGED K!vars
  BY <1>2
  DEF K!vars, K!tool, K!rows,
      LockingInvariant, Types, AskedIsThere, SpanIsThere, Forgotten, OwnSession, Pending, Keys
<1> QED
  BY <1>1, <1>2, LoginStep, EntryStep, CallStep, FaultStep, PowerCycleStep DEF K!Next, K!GoOn

LEMMA LockingInvariance == K!Spec => []LockingInvariant
BY LockingInit, LockingStep, PTL DEF K!Spec

-----------------------------------------------------------------------------
\* Whatever completed, failed half way, was killed or lost its power before: a
\* range can be read and written as the last completed commands asked, and so
\* is the shadow MBR enabled and hidden (lock_ctl, main).
THEOREM LocksKept == K!Spec => []LocksAsAsked
<1>1. LockingInvariant => LocksAsAsked
  <2> SUFFICES ASSUME LockingInvariant PROVE K!LocksAsAsked
    BY DEF LocksAsAsked
  <2> USE DEF LockingInvariant
  <2>1. ASSUME NEW r \in Ranges, NEW n \in {5, 6},
               asked[K!range_id_to_uid(r)][n] # K!Unknown,
               asked[K!range_id_to_uid(r)][n + 2] # K!Unknown
        PROVE  /\ cell[K!range_id_to_uid(r)][n] = asked[K!range_id_to_uid(r)][n]
               /\ cell[K!range_id_to_uid(r)][n + 2] = asked[K!range_id_to_uid(r)][n + 2]
               /\ cell[K!range_id_to_uid(r)][n] \in {0, 1}
               /\ cell[K!range_id_to_uid(r)][n + 2] \in {0, 1}
    <3>1. K!range_id_to_uid(r) \in K!Tables
      BY DEF K!Objects, K!Tables
    <3>2. n \in 1..8 /\ n + 2 \in 1..8 /\ n \in Flags /\ n + 2 \in Flags
      BY DEF Flags
    <3> QED
      BY <2>1, <3>1, <3>2 DEF Types, AskedIsThere
  <2>2. \A n \in {1, 2} :
          asked[K!MBR_CONTROL][n] # K!Unknown => cell[K!MBR_CONTROL][n] = asked[K!MBR_CONTROL][n]
    <3>1. 1 \in 1..8 /\ 2 \in 1..8
      OBVIOUS
    <3> QED
      BY <3>1, Objects DEF AskedIsThere
  <2>3. ASSUME NEW r \in Ranges
        PROVE  LET a(n) == asked[K!range_id_to_uid(r)][n]
               IN /\ a(5) # K!Unknown /\ a(7) # K!Unknown => K!Readable(r) = (a(5) = 0 \/ a(7) = 0)
                  /\ a(6) # K!Unknown /\ a(8) # K!Unknown => K!Writable(r) = (a(6) = 0 \/ a(8) = 0)
    <3>1. 5 + 2 = 7 /\ 6 + 2 = 8 /\ 5 \in {5, 6} /\ 6 \in {5, 6}
      OBVIOUS
    <3> QED
      BY <2>1, <3>1 DEF K!Readable, K!Writable
  <2> QED
    BY <2>2, <2>3 DEF K!LocksAsAsked
<1> QED
  BY <1>1, LockingInvariance, PTL

\* The last block of a range is computed back from its first one and its size.
LEMMA LastBlock ==
    ASSUME NEW W \in Nat \ {0}, NEW first \in 0..(W - 1), NEW last \in 0..(W - 1),
           NEW size, size = (last + 1 - first) % W, size # 0
    PROVE  (first + size - 1) % W = last
<1>1. last + 1 - first \in Int /\ size \in 0..(W - 1)
  OBVIOUS
<1>2. CASE last >= first
  <2>1. size = last + 1 - first
    BY <1>1, <1>2
  <2> QED
    BY <2>1
<1>3. CASE last < first
  <2>1. size = last + 1 - first + W
    BY <1>1, <1>3
  <2> QED
    BY <2>1
<1> QED
  BY <1>2, <1>3

\* Where a range was put by a completed setrange, "ranges" says so, to the block
\* and modulo 2^64; its letters are the state of its locks (query_range).
THEOREM RangesToldTruly == K!Spec => []RangesTruthful
<1>1. LockingInvariant => RangesTruthful
  <2> SUFFICES ASSUME LockingInvariant, NEW r \in Ranges
               PROVE  /\ (K!query_range(r).read = "R") = ~K!Readable(r)
                      /\ (K!query_range(r).write = "W") = ~K!Writable(r)
                      /\ span[K!range_id_to_uid(r)] # << >> =>
                           /\ K!query_range(r).start = span[K!range_id_to_uid(r)][1]
                           /\ K!query_range(r).size # 0 =>
                                K!query_range(r).last = span[K!range_id_to_uid(r)][2]
    BY DEF RangesTruthful, K!RangesTruthful
  <2> USE DEF LockingInvariant
  <2> DEFINE o == K!range_id_to_uid(r)
  <2>1. o \in K!Objects /\ o \in K!Tables
    BY DEF K!Objects, K!Tables
  <2>2. \A n \in {5, 6, 7, 8} : cell[o][n] \in {0, 1}
    BY <2>1 DEF Types, Flags
  <2>3. (K!query_range(r).read = "R") = ~K!Readable(r)
    <3>1. K!query_range(r).read = "R" <=> cell[o][5] # 0 /\ cell[o][7] # 0
      BY DEF K!query_range, K!LockState
    <3> QED
      BY <2>2, <3>1 DEF K!Readable
  <2>4. (K!query_range(r).write = "W") = ~K!Writable(r)
    <3>1. K!query_range(r).write = "W" <=> cell[o][6] # 0 /\ cell[o][8] # 0
      BY DEF K!query_range, K!LockState
    <3> QED
      BY <2>2, <3>1 DEF K!Writable
  <2>5. ASSUME span[o] # << >>
        PROVE  /\ K!query_range(r).start = span[o][1]
               /\ K!query_range(r).size # 0 => K!query_range(r).last = span[o][2]
    <3>1. /\ span[o][1] \in 0..(Word - 1) /\ span[o][2] \in 0..(Word - 1) /\ Word \in Nat \ {0}
          /\ cell[o][3] = span[o][1] /\ cell[o][4] = (span[o][2] + 1 - span[o][1]) % Word
      BY <2>1, <2>5, LockingConstants DEF K!Constants, Types, SpanIsThere
    <3>2. cell[o][4] # 0 => (cell[o][3] + cell[o][4] - 1) % Word = span[o][2]
      BY <3>1, LastBlock
    <3>3. /\ K!query_range(r).start = cell[o][3] /\ K!query_range(r).size = cell[o][4]
          /\ cell[o][4] # 0 => K!query_range(r).last = (cell[o][3] + cell[o][4] - 1) % Word
      BY DEF K!query_range
    <3> QED
      BY <3>1, <3>2, <3>3
  <2> QED
    BY <2>3, <2>4, <2>5
<1> QED
  BY <1>1, LockingInvariance, PTL

\* A completed wipe has replaced the key of its range and no other (wipe_range).
THEOREM OneRangeWiped == K!Spec => []WipesOneRange
<1>1. LockingInvariant => WipesOneRange
  <2> SUFFICES ASSUME LockingInvariant, step = "off", ended = "done", NEW r \in Ranges
               PROVE  key[K!range_id_to_uid(r)] = "new" <=>
                        /\ command.verb = "wipe"
                        /\ \/ command.id = r
                           \/ r = 0 /\ command.id = K!LBA_RANGE_GLOBAL[2] - K!LBA_RANGE_BASE[2]
    BY DEF WipesOneRange, K!WipesOneRange
  <2>1. K!range_id_to_uid(r) \in K!Objects
    BY DEF K!Objects
  <2>2. command \in CommandLines /\ command.id \in Int /\ r \in Nat
    BY LockingConstants DEF LockingInvariant, Types, K!Constants
  <2>3. K!range_id_to_uid(command.id) = K!range_id_to_uid(r) <=>
          command.id = r \/ (r = 0 /\ command.id = K!LBA_RANGE_GLOBAL[2] - K!LBA_RANGE_BASE[2])
    BY <2>2 DEF K!range_id_to_uid, K!LBA_RANGE_GLOBAL, K!LBA_RANGE_BASE, K!Plus
  <2>4. key[K!range_id_to_uid(r)] = "new" <=>
          command.verb = "wipe" /\ Target(command) = K!range_id_to_uid(r)
    BY <2>1 DEF LockingInvariant, Keys
  <2>5. command.verb = "wipe" => Target(command) = K!range_id_to_uid(command.id)
    BY DEF Target
  <2> QED
    BY <2>3, <2>4, <2>5
<1> QED
  BY <1>1, LockingInvariance, PTL

\* No step of tp_lock, whatever fails in it, changes another PIN than that of
\* the user who has logged in, nor this one but by setpin (main).
THEOREM OwnPinChanged == K!Spec => OwnPinOnly
<1>1. LockingInvariant /\ [K!Next]_(K!vars) => [K!ChangesOwnPin]_(K!vars)
  <2> SUFFICES ASSUME LockingInvariant, K!Next PROVE K!ChangesOwnPin
    OBVIOUS
  <2>1. CASE UNCHANGED cpin
    BY <2>1 DEF K!ChangesOwnPin
  <2>2. CASE step = "calls" /\ K!Does(Head(todo))
    <3>1. \/ UNCHANGED cpin
          \/ /\ command.verb = "setpin" /\ login = user /\ user \in Accounts
             /\ \E p \in UserPINs : cpin' = [cpin EXCEPT ![user] = p]
      BY <2>2, CarriedOut
    <3> QED
      BY <3>1 DEF K!ChangesOwnPin, LockingInvariant, Types
  <2> QED
    BY <2>1, <2>2
    DEF K!Next, K!GoOn, K!Login, K!LoginFails, K!Entry, K!Call, K!Fault, K!Kill, K!PowerCycle, K!rows
<1> QED
  BY <1>1, LockingInvariance, PTL DEF K!Spec, OwnPinOnly

-----------------------------------------------------------------------------
\* The behaviours that the run MCTools explores are behaviours of Lifecycle and
\* of Locking, so it is of them that the theorems of this module speak.
THEOREM PartsOfTools == ToolsSpec => Spec /\ K!Spec
<1>1. ToolsInit => Init /\ K!Init
  BY DEF ToolsInit
<1>2. [ToolsNext]_<<part, vars, lvars>> => [Next]_vars /\ [K!Next]_(K!vars)
  <2>1. UNCHANGED lvars => UNCHANGED K!vars
    BY DEF lvars, K!vars, K!tool, K!rows
  <2>2. Lock(LockCommands, {<<"admin", 1>>}) \/ Lock(SetupCommands, Names) => K!Next
    BY PartsOfLocking DEF Lock, K!Next
  <2> QED
    BY <2>1, <2>2 DEF ToolsNext
<1> QED
  BY <1>1, <1>2, PTL DEF ToolsSpec, Spec, K!Spec

=============================================================================
