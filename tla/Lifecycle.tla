----------------------------- MODULE Lifecycle -----------------------------
(***************************************************************************)
(* Taking ownership of a drive, activating Opal and wiping it: the tools    *)
(* tp_admin and tp_wipe, one run after the other, each a sequence of calls  *)
(* to the drive that may break off anywhere.                                *)
(*                                                                         *)
(* A run starts on a drive without a session (Session's BlankSlate) and     *)
(* each of its calls is answered, fails with or without its effect, or is   *)
(* the last one because the process dies.  What the tools print is left     *)
(* out; whether they print an exception is the outcome of the run.          *)
(***************************************************************************)
CONSTANTS
    PINs,       \* PINs of the SID (the drive's owner)
    MSID,       \* the default one, readable by anyone
    PSID        \* the one printed on the drive

ASSUME Pins == MSID \in PINs /\ PSID \notin PINs

VARIABLES
    \* The tool
    pc,             \* the call it makes next (see Pc)
    tool,           \* "wipe", or the command of tp_admin
    uid, pin,       \* the authority to log in with
    pin_valid,      \* of tp_admin: the PIN was given with the command
    new_pin,
    lock_active,    \* of tp_wipe, "unknown" until it is assigned
    outcome,        \* how the last run ended
    \* The drive
    session,        \* "none", "anon", or the authority
    sid,            \* PIN of the SID
    lsp,            \* life cycle of the Locking SP: 8 "inactive", 9 "active"
    admin1,         \* PIN of its first administrator
    \* History of the run
    fresh,          \* the media key has been replaced
    faulted         \* a call failed, or a prompt, that need not have

host  == <<tool, uid, pin, pin_valid, new_pin, lock_active>>
owned == <<sid, lsp, admin1, fresh>>
tper  == <<session, owned>>
vars  == <<pc, host, outcome, tper, faulted>>

Commands == {"msid", "status", "login", "setpin", "activate", "revert"}
Tools    == Commands \cup {"wipe"}

\* anon: login_anon.  msid: default_pin.  check: table_get of the life cycle.
\* The others are the calls of their names; prompt and entry ask the user for
\* the current and the new PIN.
Pc == {"off", "anon", "msid", "login", "prompt", "entry", "check",
       "setpin", "activate", "revert"}

Init ==
    /\ pc = "off" /\ tool = "login" /\ uid = "none" /\ pin = MSID
    /\ pin_valid = FALSE /\ new_pin = MSID /\ lock_active = "unknown"
    /\ outcome = "none"
    /\ session = "none" /\ sid = MSID /\ lsp = "inactive" /\ admin1 = MSID
    /\ fresh = FALSE /\ faulted = FALSE

-----------------------------------------------------------------------------
\* The drive (external): what it does when it is asked by the call of pc.
RightPin == IF uid = "PSID" THEN pin = PSID ELSE pin = sid

Reverted ==
    /\ session \in {"SID", "PSID"}
    /\ session' = "none"
    /\ sid' = MSID
    /\ fresh' = (fresh \/ lsp = "active")
    /\ lsp' = "inactive"
    /\ admin1' = IF lsp = "active" THEN MSID ELSE admin1

\* Whether Activate succeeds on an active SP is left open.
Activated ==
    /\ session = "SID"
    /\ lsp' = "active"
    /\ admin1' = IF lsp = "active" THEN admin1 ELSE sid
    /\ UNCHANGED <<session, sid, fresh>>

DriveDoes ==
    \/ pc = "anon" /\ session' = "anon" /\ UNCHANGED owned
    \/ pc \in {"msid", "check"} /\ session # "none" /\ UNCHANGED tper
    \/ pc = "login" /\ RightPin /\ session' = uid /\ UNCHANGED owned
    \/ pc = "setpin" /\ session = "SID" /\ sid' = new_pin
       /\ UNCHANGED <<session, lsp, admin1, fresh>>
    \/ pc = "activate" /\ Activated
    \/ pc = "revert" /\ Reverted

\* Also a login while a session is open whose answer was lost.
DriveRefuses ==
    \/ pc = "login" /\ ~RightPin /\ session' = "none" /\ UNCHANGED owned
    \/ pc = "login" /\ session \notin {"none", "anon"} /\ UNCHANGED tper
    \/ pc \in {"setpin", "activate"} /\ session # "SID" /\ UNCHANGED tper
    \/ pc = "activate" /\ lsp = "active" /\ UNCHANGED tper
    \/ pc = "revert" /\ session \notin {"SID", "PSID"} /\ UNCHANGED tper

-----------------------------------------------------------------------------
\* The tools: where a run goes on after a call.
End(how) == pc' = "off" /\ outcome' = how
Go(to)   == pc' = to /\ UNCHANGED outcome

\* tp_wipe -s PIN, -p PSID, or without credentials; a wrong PIN is a PIN.
StartWipe(u, p) ==
    /\ pc = "off"
    /\ IF u = "none" THEN Go("anon") ELSE Go("login")
    /\ tool' = "wipe" /\ uid' = u /\ pin' = p
    /\ pin_valid' = FALSE /\ new_pin' = MSID /\ lock_active' = "unknown"
    /\ session' = "none" /\ fresh' = FALSE /\ faulted' = FALSE
    /\ UNCHANGED <<sid, lsp, admin1>>

\* tp_admin [-p PIN] drive command; it begins with login_anon.
StartAdmin(command, valid, p) ==
    /\ pc = "off"
    /\ Go("anon")
    /\ tool' = command /\ uid' = "SID" /\ pin' = p
    /\ pin_valid' = valid /\ new_pin' = MSID /\ lock_active' = "unknown"
    /\ session' = "none" /\ fresh' = FALSE /\ faulted' = FALSE
    /\ UNCHANGED <<sid, lsp, admin1>>

\* do_auth_login: the PIN that was given, or the default one, or what the user
\* types.
LoginAnon ==
    /\ pc = "anon"
    /\ Go(CASE tool \in {"wipe", "msid"} -> "msid"
            [] tool = "status" -> "check"
            [] OTHER -> IF pin_valid THEN "login" ELSE "msid")
    /\ UNCHANGED host

DefaultPin ==
    /\ pc = "msid"
    /\ IF tool = "msid" THEN End("done") ELSE Go("login")
    /\ uid' = "SID" /\ pin' = MSID
    /\ UNCHANGED <<tool, pin_valid, new_pin, lock_active>>

Prompt ==
    /\ pc = "prompt"
    /\ pin' \in PINs /\ pin_valid' = TRUE
    /\ Go("login")
    /\ UNCHANGED <<tool, uid, new_pin, lock_active, tper, faulted>>

\* tp_wipe logs in a second time once the PSID has reset the SID's PIN.
Login ==
    /\ pc = "login"
    /\ CASE tool = "login" -> End("done")
         [] tool = "wipe" -> Go(IF lock_active = "unknown" THEN "check" ELSE "activate")
         [] tool = "setpin" -> Go("entry")
         [] OTHER -> Go(tool)
    /\ UNCHANGED host

\* The new PIN of tp_admin setpin: given with -n, or typed twice, not always the
\* same way.
Entry ==
    /\ pc = "entry"
    /\ \/ new_pin' \in PINs /\ Go("setpin")
       \/ UNCHANGED new_pin /\ End("mistyped")
    /\ UNCHANGED <<tool, uid, pin, pin_valid, lock_active, tper, faulted>>

SetPin == pc = "setpin" /\ End("done") /\ UNCHANGED host

\* Mutants of AfterCheck: without Activate; Activate whatever the authority.
NeverActivate(active) == "revert"
ActivateFirst(active) == IF active = "yes" THEN "revert" ELSE "activate"

\* A PSID cannot activate the Locking SP, but its revert resets the SID's PIN.
AfterCheck(active) == IF uid = "PSID" \/ active = "yes" THEN "revert" ELSE "activate"

\* Mutant of LockActive: the comparison is the wrong way round.
LockInactive == IF lsp = "inactive" THEN "yes" ELSE "no"

LockActive == IF lsp = "inactive" THEN "no" ELSE "yes"

Check ==
    /\ pc = "check"
    /\ IF tool = "status" THEN End("done") /\ UNCHANGED lock_active
       ELSE lock_active' = LockActive /\ Go(AfterCheck(lock_active'))
    /\ UNCHANGED <<tool, uid, pin, pin_valid, new_pin>>

Activate ==
    /\ pc = "activate"
    /\ IF tool = "wipe" THEN Go("revert") ELSE End("done")
    /\ UNCHANGED host

AnotherRound == "anon"

\* A revert of an active Locking SP is one and done, and so is one by the SID.
Revert ==
    /\ pc = "revert"
    /\ IF tool = "wipe" /\ uid = "PSID" /\ lock_active = "no"
       THEN Go(AnotherRound) ELSE End("done")
    /\ UNCHANGED host

\* Mutant of Fails: do_auth_login goes on without a login.
FailsOnwards ==
    /\ CASE pc = "login" /\ tool = "wipe" /\ lock_active = "unknown" -> End("refused")
         [] pc = "login" /\ tool = "login" -> End("done")
         [] OTHER -> End("exception")
    /\ UNCHANGED host

\* An exception: main reports it, but for a failed first login of tp_wipe,
\* which exits with "invalid credentials", and of tp_admin with the default
\* PIN, which asks for another one.
Fails ==
    /\ CASE pc = "login" /\ tool = "wipe" /\ lock_active = "unknown" -> End("refused")
         [] pc = "login" /\ tool # "wipe" /\ ~pin_valid -> Go("prompt")
         [] OTHER -> End("exception")
    /\ UNCHANGED host

Advance ==
    \/ LoginAnon \/ DefaultPin \/ Login \/ SetPin \/ Check \/ Activate \/ Revert

Call   == DriveDoes /\ Advance /\ UNCHANGED faulted
Refuse == DriveRefuses /\ Fails /\ UNCHANGED faulted

\* A call that throws, carried out or not; or a prompt without a terminal.
Fault ==
    /\ pc # "off"
    /\ DriveDoes \/ UNCHANGED tper
    /\ Fails
    /\ faulted' = TRUE

\* The process dies.
Kill ==
    /\ pc # "off"
    /\ End("killed")
    /\ UNCHANGED <<host, tper, faulted>>

Next ==
    \/ Call \/ Refuse \/ Fault \/ Prompt \/ Entry \/ Kill
    \/ StartWipe("none", MSID)
    \/ \E p \in PINs : StartWipe("SID", p)
    \/ \E p \in PINs \cup {PSID} : StartWipe("PSID", p)
    \/ \E c \in Commands, v \in BOOLEAN, p \in PINs : StartAdmin(c, v, p)

Spec == Init /\ [][Next]_vars

-----------------------------------------------------------------------------
\* Every variable has its type, and a command that needs the authority of the
\* SID, or a PSID, is given within a session of it (tp_wipe, tp_admin).
TypeOK ==
    /\ pc \in Pc /\ tool \in Tools /\ uid \in {"none", "SID", "PSID"}
    /\ pin \in PINs \cup {PSID} /\ new_pin \in PINs /\ pin_valid \in BOOLEAN
    /\ lock_active \in {"unknown", "yes", "no"}
    /\ outcome \in {"none", "done", "refused", "mistyped", "exception", "killed"}
    /\ session \in {"none", "anon", "SID", "PSID"}
    /\ sid \in PINs /\ admin1 \in PINs /\ lsp \in {"inactive", "active"}
    /\ fresh \in BOOLEAN /\ faulted \in BOOLEAN
    /\ pc \in {"setpin", "activate", "revert"} => session = uid

FactoryState == sid = MSID /\ lsp = "inactive"

Done == pc = "off" /\ outcome = "done"

\* A tp_wipe that ends without an exception has replaced the media key and left
\* the drive in its factory state, from whichever credentials and whatever the
\* life cycle of the Locking SP was: a Revert of an inactive one alone would
\* keep the data.
WipedMeansErased == Done /\ tool = "wipe" => fresh /\ FactoryState

\* A tp_wipe that was let in with the PIN of the SID and then broke off has
\* done its work, or can be repeated with the same PIN.
RepeatOrDone ==
    tool = "wipe" /\ uid = "SID" /\ lock_active # "unknown" =>
        sid = pin \/ (fresh /\ FactoryState)

\* The sequences of calls of tp_wipe are ones the drive carries out: a run with
\* the right PIN fails only when a call was lost.
FailureHasReason ==
    pc = "off" /\ tool = "wipe" =>
        /\ outcome = "exception" => faulted
        /\ outcome = "refused" => faulted \/ ~RightPin

\* A command of tp_admin that ends without an exception has done what it says:
\* the PIN is the right one, the new one is set, the Locking SP is active, the
\* owner's PIN is the default one again.
AdminDoneMeansDone ==
    Done =>
        /\ tool = "login"    => RightPin
        /\ tool = "setpin"   => sid = new_pin
        /\ tool = "activate" => lsp = "active" /\ RightPin
        /\ tool = "revert"   => FactoryState
=============================================================================
