------------------------------ MODULE Session ------------------------------
(***************************************************************************)
(* The session layer of libtopaz: class drive of src/topaz/drive.cpp, from  *)
(* the constructor to the destructor, used by one tool process at a time    *)
(* against one TCG Opal drive (the TPer).                                   *)
(*                                                                         *)
(* Every operation is a call: drive::send hands a request over with IF-SEND *)
(* and drive::recv polls with IF-RECV until data comes back or the polls    *)
(* run out.  Nothing in an answer says which request it belongs to, and     *)
(* recv checks nothing but the ComID, so an answer that arrives after its   *)
(* call gave up is taken for the answer of the next one.                    *)
(*                                                                         *)
(* The process may be killed between any two steps (the tools install no    *)
(* handler that ends the session), and the drive keeps its session, its     *)
(* pending request and its unread answer until the ComID is reset or the    *)
(* power is cycled.                                                         *)
(***************************************************************************)
EXTENDS Naturals

CONSTANTS
    SPs,             \* UIDs of the security providers (ADMIN_SP, LOCKING_SP)
    Pids,            \* process ids of the tools, the host's session numbers
    SessionNumbers,  \* the numbers the TPer gives its sessions
    MaxPolls,        \* TIMEOUT_SECS * 1000 / POLL_MS
    HasProtoReset,   \* security protocol 2 is supported (drive.has_proto_reset)
    TpAdminRevert    \* the tool reverts as tp_admin does, not as tp_wipe does

\* Zero stands for "no session" in the code's own variables.
ASSUME NonZero ==
    /\ SPs \subseteq Nat \ {0}
    /\ Pids \subseteq Nat \ {0}
    /\ SessionNumbers \subseteq Nat \ {0}
ASSUME PollsPositive == MaxPolls \in Nat \ {0}
ASSUME Switches == HasProtoReset \in BOOLEAN /\ TpAdminRevert \in BOOLEAN

VARIABLES
    \* The tool process and its drive object
    pc,                \* where the process is (see Pc)
    goal,              \* what the running public operation will do after logout()
    op,                \* the call being waited for, "none" outside recv
    polls,             \* max_iters of recv
    pid,               \* getpid()
    session_is_auth, session_sp, tper_session_id, host_session_id,
    \* The TPer
    inbox,             \* the request it holds and has not served: {} or {q}
    outbox,            \* the answer nobody has read: {} or {r}
    sessions,          \* the session it has open: {} or {s}
    \* History
    trust              \* every call since the last reset ended by its own answer

process == <<pc, goal, op, polls, pid>>
view    == <<session_is_auth, session_sp, tper_session_id, host_session_id>>
tper    == <<inbox, outbox, sessions>>
vars    == <<process, view, tper, trust>>

-----------------------------------------------------------------------------
\* Calls.  The first two go to the session manager and carry no session ids;
\* "revert" is invoke(ADMIN_SP, REVERT), "admin_sp_revert" the same followed
\* by forget_session(); "end" is the END_SESSION token of logout().
ManagerCalls == {"properties", "start"}
Reverts      == {"admin_sp_revert", "revert"}
SessionCalls == {"method", "end"} \cup Reverts
Calls        == ManagerCalls \cup SessionCalls

\* off: no process.  reset, props: in the constructor.  idle: in the tool,
\* between operations.  logout, start: inside login or logout.  wait: in recv.
Pc == {"off", "reset", "props", "idle", "logout", "start", "wait"}

Goal == [does : {"login", "logout", "close"}, sp : SPs \cup {0}, auth : BOOLEAN]
Quit == [does |-> "close", sp |-> 0, auth |-> FALSE]

\* mine is history: the message belongs to the call that was started last.
Request == [op : Calls, sp : SPs \cup {0}, auth : BOOLEAN,
            tsn : Nat, hsn : Nat, mine : BOOLEAN]
Reply   == [op : Calls, kind : {"ok", "fail", "junk"},
            tsn : Nat, hsn : Nat, mine : BOOLEAN]
OpenSession == [tsn : Nat, hsn : Nat, sp : SPs \cup {0}, auth : BOOLEAN]

Aged(box) == {[m EXCEPT !.mine = FALSE] : m \in box}

\* What the code believes to be open.
HostView ==
    IF tper_session_id = 0 THEN {}
    ELSE {[tsn |-> tper_session_id, hsn |-> host_session_id,
           sp |-> session_sp, auth |-> session_is_auth]}

\* Mutant of Forget: the flag survives the session.
ForgetIdsOnly ==
    /\ session_sp' = 0 /\ tper_session_id' = 0 /\ host_session_id' = 0
    /\ UNCHANGED session_is_auth

Forget ==
    /\ session_is_auth' = FALSE
    /\ session_sp' = 0
    /\ tper_session_id' = 0
    /\ host_session_id' = 0

-----------------------------------------------------------------------------
Init ==
    /\ pc = "off" /\ goal = Quit /\ op = "none" /\ polls = 0 /\ pid = 0
    /\ session_is_auth = FALSE /\ session_sp = 0
    /\ tper_session_id = 0 /\ host_session_id = 0
    /\ inbox = {} /\ outbox = {} /\ sessions = {}
    /\ trust = TRUE

\* START_SESSION carries getpid() and the SP; the session ids of the packet
\* header are zero in a call of the session manager.
RequestOf(o) ==
    [op   |-> o,
     sp   |-> IF o = "start" THEN goal.sp ELSE 0,
     auth |-> IF o = "start" THEN goal.auth ELSE FALSE,
     tsn  |-> IF o \in ManagerCalls THEN 0 ELSE tper_session_id,
     hsn  |-> IF o = "start" THEN pid
              ELSE IF o \in ManagerCalls THEN 0 ELSE host_session_id,
     mine |-> TRUE]

\* drive::send and the entry of drive::recv.  The drive may refuse the IF-SEND
\* without the host noticing (a CHECK CONDITION is accepted as success), in
\* particular while it holds an earlier request or an unread answer; or it may
\* take the request and drop what it held.
Send(o) ==
    /\ pc' = "wait" /\ op' = o /\ polls' = MaxPolls
    /\ inbox' \in {Aged(inbox), {RequestOf(o)}}
    /\ outbox' \in {{}, Aged(outbox)}
    /\ UNCHANGED <<pid, sessions>>

-----------------------------------------------------------------------------
\* Mutant of OpenDevice: the ComID is not reset.
OpenWithoutReset ==
    /\ pc = "off" /\ pc' = "props"
    /\ pid' \in Pids /\ goal' = Quit
    /\ Forget
    /\ UNCHANGED <<op, polls, tper, trust>>

\* The constructor: probe_tpm and discovery succeed, or nothing happens at all.
OpenDevice ==
    /\ pc = "off"
    /\ pc' = IF HasProtoReset THEN "reset" ELSE "props"
    /\ pid' \in Pids
    /\ goal' = Quit
    /\ Forget
    /\ UNCHANGED <<op, polls, tper, trust>>

\* reset_comid: STACK_RESET makes the TPer abort its session and drop both
\* what it was asked and what it answered.
ResetComid ==
    /\ pc = "reset" /\ pc' = "props"
    /\ inbox' = {} /\ outbox' = {} /\ sessions' = {}
    /\ trust' = TRUE
    /\ UNCHANGED <<goal, op, polls, pid, view>>

ResetFails ==
    /\ pc = "reset" /\ pc' = "off"
    /\ UNCHANGED <<goal, op, polls, pid, view, tper, trust>>

\* probe_level1, the last step of the constructor.
Properties ==
    /\ pc = "props"
    /\ Send("properties")
    /\ UNCHANGED <<goal, view, trust>>

\* The public operations that begin with logout(): login and login_anon,
\* logout itself, and the destructor.
Login(sp, auth) ==
    /\ pc = "idle" /\ pc' = "logout"
    /\ goal' = [does |-> "login", sp |-> sp, auth |-> auth]
    /\ UNCHANGED <<op, polls, pid, view, tper, trust>>

LogoutOrClose(does) ==
    /\ pc = "idle" /\ pc' = "logout"
    /\ goal' = [Quit EXCEPT !.does = does]
    /\ UNCHANGED <<op, polls, pid, view, tper, trust>>

AfterLogout ==
    CASE goal.does = "login" -> "start"
      [] goal.does = "close" -> "off"
      [] OTHER -> "idle"

\* Mutant of NothingToEnd: logout only forgets the session.
LogoutLocally ==
    /\ pc = "logout" /\ pc' = AfterLogout
    /\ Forget
    /\ UNCHANGED <<goal, op, polls, pid, tper, trust>>

NothingToEnd ==
    /\ pc = "logout" /\ tper_session_id = 0
    /\ pc' = AfterLogout
    /\ UNCHANGED <<goal, op, polls, pid, view, tper, trust>>

EndSession ==
    /\ pc = "logout" /\ tper_session_id # 0
    /\ Send("end")
    /\ UNCHANGED <<goal, view, trust>>

StartSession ==
    /\ pc = "start"
    /\ Send("start")
    /\ UNCHANGED <<goal, view, trust>>

\* invoke on any object but the session manager; the tools do so only after a
\* login that returned.
Invoke(o) ==
    /\ pc = "idle" /\ tper_session_id # 0
    /\ o \in IF TpAdminRevert THEN {"method", "revert"}
             ELSE {"method", "admin_sp_revert"}
    /\ Send(o)
    /\ UNCHANGED <<goal, view, trust>>

-----------------------------------------------------------------------------
\* The end of a call.

\* Mutant of Raise: logout lets the exception out.
RaiseFromLogout ==
    CASE op = "properties" -> pc' = "off" /\ UNCHANGED view
      [] op = "end"        -> pc' = "idle" /\ Forget
      [] OTHER             -> pc' = "idle" /\ UNCHANGED view

\* A topaz_exception leaves send, recv or invoke.  In the constructor it ends
\* the process without running the destructor; logout swallows it and forgets
\* the session; elsewhere it reaches the tool, whose drive object lives on.
Raise ==
    CASE op = "properties" -> pc' = "off" /\ UNCHANGED view
      [] op = "end"        -> pc' = AfterLogout /\ Forget
      [] OTHER             -> pc' = "idle" /\ UNCHANGED view

\* Mutant of Adopt: the two session ids are swapped.
AdoptSwapped(r) ==
    /\ session_is_auth' = goal.auth
    /\ session_sp' = goal.sp
    /\ IF r.op = "start"
       THEN host_session_id' = r.tsn /\ tper_session_id' = r.hsn
       ELSE UNCHANGED <<host_session_id, tper_session_id>>

\* START_SESSION returned without an error: the flag and the SP are stored
\* first, then the ids are parsed, which throws unless the data is the
\* answer of a START_SESSION.
Adopt(r) ==
    /\ session_is_auth' = goal.auth
    /\ session_sp' = goal.sp
    /\ IF r.op = "start"
       THEN host_session_id' = r.hsn /\ tper_session_id' = r.tsn
       ELSE UNCHANGED <<host_session_id, tper_session_id>>

\* The caller gets the data.  logout ignores what it received, and
\* probe_level1 throws or not on data that is not a property list.
Return(r) ==
    CASE op = "properties"      -> /\ pc' \in {"idle"} \cup (IF r.op = op THEN {} ELSE {"off"})
                                   /\ UNCHANGED view
      [] op = "start"           -> pc' = "idle" /\ Adopt(r)
      [] op = "admin_sp_revert" -> pc' = "idle" /\ Forget
      [] OTHER                  -> pc' = "idle" /\ UNCHANGED view

Completed == op' = "none" /\ polls' = 0 /\ UNCHANGED <<goal, pid, inbox, sessions>>

\* recv got data.  invoke throws on a status and on data it cannot decode,
\* which the answer of an END_SESSION is.
Receive ==
    /\ pc = "wait"
    /\ \E r \in outbox :
        /\ IF r.kind = "ok" /\ r.op # "end" /\ op # "end" THEN Return(r) ELSE Raise
        /\ trust' = (trust /\ r.kind # "junk")
    /\ outbox' = {}
    /\ Completed

\* Mutants of Poll: an empty answer ends the call; the count stays; it is not
\* compared with zero.
PollGivesUp ==
    /\ pc = "wait" /\ polls > 1
    /\ Raise
    /\ Completed /\ UNCHANGED <<outbox, trust>>

PollForever ==
    /\ pc = "wait" /\ polls > 1
    /\ UNCHANGED vars

PollToZero ==
    /\ pc = "wait" /\ polls > 0
    /\ polls' = polls - 1
    /\ UNCHANGED <<pc, goal, op, pid, view, tper, trust>>

\* Length zero: not ready.  So is an IF-RECV refused after the first poll,
\* which leaves the previous header in the buffer.
Poll ==
    /\ pc = "wait" /\ polls > 1
    /\ polls' = polls - 1
    /\ UNCHANGED <<pc, goal, op, pid, view, tper, trust>>

Timeout ==
    /\ pc = "wait" /\ polls = 1
    /\ Raise
    /\ trust' = FALSE
    /\ Completed /\ UNCHANGED outbox

\* if_send or if_recv threw, or the ComID was not the expected one.
IoError ==
    /\ pc = "wait"
    /\ Raise
    /\ trust' = FALSE
    /\ Completed /\ UNCHANGED outbox

-----------------------------------------------------------------------------
\* The process dies: a signal, exit(), or a crash of the host's software.
Kill ==
    /\ pc # "off" /\ pc' = "off"
    /\ trust' = (trust /\ pc # "wait" /\ tper_session_id = 0)
    /\ op' = "none" /\ polls' = 0 /\ goal' = Quit
    /\ Forget
    /\ UNCHANGED <<pid, tper>>

\* A power cycle stops the process and empties the TPer.
PowerCycle ==
    /\ pc' = "off" /\ op' = "none" /\ polls' = 0 /\ goal' = Quit
    /\ Forget
    /\ inbox' = {} /\ outbox' = {} /\ sessions' = {}
    /\ trust' = TRUE
    /\ UNCHANGED pid

-----------------------------------------------------------------------------
\* The TPer (external): it serves one request at a time, has one session, and
\* finds a session by both ids.  A served request may be answered with
\* something the host cannot decode.
Matching(q) == {s \in sessions : s.tsn = q.tsn /\ s.hsn = q.hsn}

Answer(q, kinds, tsn) ==
    /\ inbox' = {}
    /\ \E k \in kinds :
        outbox' = {[op |-> q.op, kind |-> k, tsn |-> tsn, hsn |-> q.hsn, mine |-> q.mine]}
    /\ UNCHANGED <<process, view, trust>>

TPerOpens(q) ==
    /\ q.op = "start" /\ sessions = {}
    /\ \E n \in SessionNumbers :
        /\ sessions' = {[tsn |-> n, hsn |-> q.hsn, sp |-> q.sp, auth |-> q.auth]}
        /\ Answer(q, {"ok", "junk"}, n)

TPerCloses(q) ==
    /\ q.op \in Reverts \cup {"end"}
    /\ \E s \in Matching(q) : q.op \in Reverts => s.auth
    /\ sessions' = {}
    /\ Answer(q, {"ok", "junk"}, q.tsn)

TPerServes(q) ==
    /\ q.op = "properties" \/ (q.op = "method" /\ Matching(q) # {})
    /\ Answer(q, {"ok", "fail", "junk"}, q.tsn)
    /\ UNCHANGED sessions

\* A wrong PIN, no session free, no right to do it.
TPerRefuses(q) ==
    /\ q.op = "start" \/ (q.op \in Reverts /\ Matching(q) # {})
    /\ Answer(q, {"fail", "junk"}, q.tsn)
    /\ UNCHANGED sessions

\* A packet of no open session gets no answer.
TPerDrops(q) ==
    /\ q.op \in SessionCalls /\ Matching(q) = {}
    /\ inbox' = {}
    /\ UNCHANGED <<process, view, outbox, sessions, trust>>

TPer ==
    /\ outbox = {}
    /\ \E q \in inbox : \/ TPerOpens(q) \/ TPerCloses(q) \/ TPerServes(q)
                        \/ TPerRefuses(q) \/ TPerDrops(q)

-----------------------------------------------------------------------------
\* What the process does by itself once an operation has begun.
Host ==
    \/ ResetComid \/ Properties
    \/ NothingToEnd \/ EndSession \/ StartSession
    \/ Receive \/ Poll \/ Timeout

\* What the device file or the drive may do to it.
Fault == ResetFails \/ IoError

\* What the tool or its user decides.
Tool ==
    \/ OpenDevice
    \/ \E sp \in SPs, auth \in BOOLEAN : Login(sp, auth)
    \/ \E does \in {"logout", "close"} : LogoutOrClose(does)
    \/ \E o \in {"method"} \cup Reverts : Invoke(o)

Next == Host \/ Fault \/ Tool \/ TPer \/ Kill \/ PowerCycle

Spec == Init /\ [][Next]_vars

\* The process keeps running; nothing is owed by the TPer, and no error either.
FairSpec == Spec /\ WF_vars(Host)

-----------------------------------------------------------------------------
\* Every variable has its type; the TPer holds at most one message each way and
\* at most one session (external); op is set exactly while recv is running
\* (drive::invoke, drive::logout).
AtMostOne(S) == \A x, y \in S : x = y

TypeOK ==
    /\ pc \in Pc /\ goal \in Goal /\ op \in Calls \cup {"none"}
    /\ polls \in 0..MaxPolls /\ pid \in Pids \cup {0}
    /\ session_is_auth \in BOOLEAN /\ session_sp \in SPs \cup {0}
    /\ tper_session_id \in Nat /\ host_session_id \in Nat
    /\ inbox \subseteq Request /\ AtMostOne(inbox)
    /\ outbox \subseteq Reply /\ AtMostOne(outbox)
    /\ sessions \subseteq OpenSession /\ AtMostOne(sessions)
    /\ trust \in BOOLEAN
    /\ (op = "none") <=> (pc # "wait")
    /\ pc = "wait" => polls > 0

\* While every call since the last reset of the ComID ended by its own answer,
\* whatever recv could read next is the answer of the call that is waiting:
\* recv's only check, of the ComID, is then enough (drive::recv, drive::invoke).
ReplyMatchesCall ==
    trust /\ pc = "wait" => \A r \in outbox : r.mine

\* Under the same condition the four session variables describe the session
\* the TPer has open, with its ids, SP and authority, whenever no call is
\* outstanding, across logins, failed logins, logouts and the end of the
\* process.  Only tp_admin's revert leaves a closed session on the books.
SessionAgreement ==
    trust /\ pc # "wait" =>
        \/ sessions = HostView
        \/ (TpAdminRevert /\ sessions = {})

\* get_session_auth and get_session_sp answer as their comments say, under the
\* same condition, unless tp_admin has reverted.
GettersTruthful ==
    trust /\ pc # "wait" /\ ~TpAdminRevert =>
        /\ session_is_auth = (\E s \in sessions : s.auth)
        /\ sessions = {} => session_sp = 0
        /\ \A s \in sessions : session_sp = s.sp

\* "Make sure we're starting from a blank slate": a constructor that completes
\* on a drive with protocol 2 leaves no session open in the TPer, nothing to
\* serve and nothing to read, whatever earlier processes left behind.
BlankSlate ==
    [][HasProtoReset /\ op = "properties" /\ pc' = "idle" =>
         trust' /\ inbox' = {} /\ outbox' = {} /\ sessions' = {}]_vars

\* The code implements RemoteSession: while no call has been lost track of the
\* TPer acts at most once for each call and never between calls, a call that
\* returns has been served, and what the drive object believes is then exact;
\* a reset starts over.  (tp_admin's revert breaks this: TpAdminRevert is FALSE
\* where it is checked.)
CallPhase ==
    IF pc # "wait" THEN "none"
    ELSE IF \E r \in outbox : r.mine THEN "served" ELSE "asked"

Promise == INSTANCE RemoteSession WITH
    Session <- OpenSession,
    known <- trust, call <- CallPhase, believed <- HostView, open <- sessions

KeepsPromise == Promise!Spec

\* Every operation of the library ends: it returns, throws, or the process is
\* gone, even if the TPer never answers (recv's max_iters).
OperationEnds == pc \notin {"idle", "off"} ~> pc \in {"idle", "off"}

\* The destructor does not give up: once it runs the process comes to its end,
\* whatever happens to the logout (the catch in drive::logout).
Closing   == pc \in {"logout", "wait"} /\ goal.does = "close" /\ op \in {"none", "end"}
CloseEnds == Closing ~> pc = "off"

-----------------------------------------------------------------------------
\* What two comments of drive.cpp say without any condition.

\* "Return any data returned from method call": the data invoke returns for a
\* method of an open session is the answer of that call.
InvokeReturnsItsData ==
    [][\A r \in outbox :
          pc = "wait" /\ op = "method" /\ pc' = "idle" /\ outbox' = {} /\ r.kind = "ok"
             => r.mine]_vars

\* get_session_auth, "if authenticated session is active": when a tool asks and
\* no call has been lost, TRUE means that the drive has an authenticated session.
AuthMeansActive ==
    trust /\ pc = "idle" /\ session_is_auth => \E s \in sessions : s.auth

-----------------------------------------------------------------------------
\* The inductive invariant behind ReplyMatchesCall and SessionAgreement.

Agree == sessions = HostView \/ (TpAdminRevert /\ sessions = {})

NoView == tper_session_id = 0 /\ session_sp = 0 /\ ~session_is_auth

\* Before the first login of a process, and after the last logout, the session
\* variables are clear; START_SESSION is sent without a session.
Clear ==
    /\ pc \in {"reset", "props"} \/ op = "properties" => NoView
    /\ pc \in {"off", "start"} \/ op = "start" => tper_session_id = 0
    /\ trust /\ tper_session_id = 0 => NoView
    /\ op = "revert" => TpAdminRevert
    /\ HasProtoReset /\ (pc = "props" \/ op = "properties") => trust

\* What the TPer's session is once it has answered the outstanding call with r.
Answered(r) ==
    /\ r.kind = "fail" => op # "end" /\ Agree
    /\ r.kind = "ok" /\ op = "start" =>
        /\ r.tsn # 0
        /\ sessions = {[tsn |-> r.tsn, hsn |-> r.hsn, sp |-> goal.sp, auth |-> goal.auth]}
    /\ r.kind = "ok" /\ op \in Reverts \cup {"end"} => sessions = {}
    /\ r.kind = "ok" /\ op \in {"properties", "method"} => Agree

\* Between calls nothing is under way and the view is right; during one the
\* request is with the TPer, or its own answer is, or it was never taken.
InStep ==
    trust =>
        /\ outbox = {} => Agree
        /\ pc # "wait" => inbox = {} /\ outbox = {}
        /\ inbox # {} => outbox = {}
        /\ \A q \in inbox : q = RequestOf(op)
        /\ \A r \in outbox : r.mine /\ r.op = op /\ Answered(r)

\* What the calls that are with the host, or with the TPer, rest on (drive.cpp:
\* the order of logout, START_SESSION, forget_session and the destructor).
SessionInvariant == Clear /\ InStep
=============================================================================
