--------------------------- MODULE SessionProofs ---------------------------
(***************************************************************************)
(* Session keeps its types and its SessionInvariant for all values of the   *)
(* constants, from which ReplyMatchesCall, SessionAgreement and             *)
(* GettersTruthful follow.                                                  *)
(***************************************************************************)
EXTENDS Session, TLAPS

-----------------------------------------------------------------------------
\* Lemmas about the mailboxes.

\* Ageing a box keeps the type of its messages and adds none.
LEMMA AgedRequests ==
    ASSUME NEW B, B \subseteq Request, AtMostOne(B)
    PROVE  Aged(B) \subseteq Request /\ AtMostOne(Aged(B))
BY DEF Aged, Request, AtMostOne

LEMMA AgedReplies ==
    ASSUME NEW B, B \subseteq Reply, AtMostOne(B)
    PROVE  Aged(B) \subseteq Reply /\ AtMostOne(Aged(B))
BY DEF Aged, Reply, AtMostOne

\* An empty box stays empty.
LEMMA AgedEmpty == Aged({}) = {}
BY DEF Aged

\* A box of one message has at most one.
LEMMA OneIsAtMostOne == \A x : AtMostOne({x})
BY DEF AtMostOne

\* The request of a call is a request.
LEMMA RequestType ==
    ASSUME TypeOK, NEW o \in Calls
    PROVE  RequestOf(o) \in Request
<1>1. goal.sp \in SPs \cup {0} /\ goal.auth \in BOOLEAN
  BY DEF TypeOK, Goal
<1>2. pid \in Nat /\ tper_session_id \in Nat /\ host_session_id \in Nat
  BY NonZero DEF TypeOK
<1>3. (IF o = "start" THEN goal.auth ELSE FALSE) \in BOOLEAN
  BY <1>1
<1> QED BY <1>1, <1>2, <1>3 DEF RequestOf, Request

\* A drive object that forgets its session, and one that keeps it, are typed.
ViewTyped == /\ session_is_auth \in BOOLEAN /\ session_sp \in SPs \cup {0}
             /\ tper_session_id \in Nat /\ host_session_id \in Nat

LEMMA ForgetType == Forget => ViewTyped'
<1> SUFFICES ASSUME Forget PROVE ViewTyped'
  OBVIOUS
<1>1. session_is_auth' \in BOOLEAN
  BY DEF Forget
<1> QED BY <1>1 DEF Forget, ViewTyped

LEMMA KeepType == TypeOK /\ UNCHANGED view => ViewTyped'
BY DEF TypeOK, view, ViewTyped

LEMMA QuitType == Quit \in Goal
BY DEF Quit, Goal

-----------------------------------------------------------------------------
\* Sending keeps the types.
LEMMA SendType ==
    ASSUME TypeOK, NEW o \in Calls, Send(o), goal' = goal, view' = view, trust' = trust
    PROVE  TypeOK'
<1>1. /\ inbox' \subseteq Request /\ AtMostOne(inbox')
      /\ outbox' \subseteq Reply /\ AtMostOne(outbox')
  <2>1. /\ Aged(inbox) \subseteq Request /\ AtMostOne(Aged(inbox))
        /\ Aged(outbox) \subseteq Reply /\ AtMostOne(Aged(outbox))
    BY AgedRequests, AgedReplies DEF TypeOK
  <2>2. {RequestOf(o)} \subseteq Request /\ AtMostOne({RequestOf(o)})
    BY RequestType, OneIsAtMostOne
  <2> QED BY <2>1, <2>2 DEF Send, AtMostOne
<1>2. MaxPolls \in 0..MaxPolls /\ MaxPolls > 0
  BY PollsPositive
<1>3. o # "none"
  BY DEF Calls, ManagerCalls, SessionCalls, Reverts
<1> QED BY <1>1, <1>2, <1>3 DEF TypeOK, Send, view, Pc

\* So does ending a call, by its answer or without it.
LEMMA CompletedType ==
    ASSUME TypeOK, Completed,
           outbox' \in {{}, outbox}, trust' \in BOOLEAN,
           pc' \in Pc \ {"wait"},
           ViewTyped'
    PROVE  TypeOK'
BY PollsPositive DEF TypeOK, ViewTyped, Completed, AtMostOne

\* An exception leaves the host's variables within their types.
LEMMA RaiseType ==
    ASSUME TypeOK, Raise
    PROVE  pc' \in Pc \ {"wait"} /\ ViewTyped'
<1>1. AfterLogout \in Pc \ {"wait"}
  BY DEF AfterLogout, Pc
<1>2. pc' \in Pc \ {"wait"} /\ (Forget \/ UNCHANGED view)
  BY <1>1 DEF Raise, Pc
<1> QED BY <1>2, ForgetType, KeepType

LEMMA ReturnType ==
    ASSUME TypeOK, NEW r \in outbox, Return(r)
    PROVE  pc' \in Pc \ {"wait"} /\ ViewTyped'
<1>1. pc' \in Pc \ {"wait"}
  BY DEF Return, Pc
<1>2. Adopt(r) \/ Forget \/ UNCHANGED view
  BY DEF Return
<1>3. CASE Adopt(r)
  <2>1. r.tsn \in Nat /\ r.hsn \in Nat
    BY DEF TypeOK, Reply
  <2>2. goal.auth \in BOOLEAN /\ goal.sp \in SPs \cup {0}
    BY DEF TypeOK, Goal
  <2> QED BY <1>1, <1>3, <2>1, <2>2 DEF Adopt, TypeOK, ViewTyped
<1>4. CASE Forget \/ UNCHANGED view
  BY <1>1, <1>4, ForgetType, KeepType
<1> QED BY <1>2, <1>3, <1>4

\* The TPer answers with a reply.
LEMMA AnswerType ==
    ASSUME TypeOK, NEW q \in inbox, NEW kinds \in SUBSET {"ok", "fail", "junk"},
           NEW n \in Nat, Answer(q, kinds, n),
           sessions' \subseteq OpenSession, AtMostOne(sessions')
    PROVE  TypeOK'
<1>1. outbox' \subseteq Reply /\ AtMostOne(outbox')
  <2>1. q \in Request
    BY DEF TypeOK
  <2> QED BY <2>1 DEF Answer, Reply, Request, AtMostOne
<1>2. inbox' \subseteq Request /\ AtMostOne(inbox')
  BY DEF Answer, AtMostOne
<1> QED BY <1>1, <1>2 DEF TypeOK, Answer, process, view

LEMMA TPerType == TypeOK /\ TPer => TypeOK'
<1> SUFFICES ASSUME TypeOK, TPer PROVE TypeOK'
  OBVIOUS
<1> PICK q \in inbox : \/ TPerOpens(q) \/ TPerCloses(q) \/ TPerServes(q)
                       \/ TPerRefuses(q) \/ TPerDrops(q)
  BY DEF TPer
<1>q. q \in Request /\ q.tsn \in Nat
  BY DEF TypeOK, Request
<1>1. CASE TPerOpens(q)
  <2> PICK n \in SessionNumbers :
        /\ sessions' = {[tsn |-> n, hsn |-> q.hsn, sp |-> q.sp, auth |-> q.auth]}
        /\ Answer(q, {"ok", "junk"}, n)
    BY <1>1 DEF TPerOpens
  <2>1. n \in Nat
    BY NonZero
  <2>2. sessions' \subseteq OpenSession /\ AtMostOne(sessions')
    <3>1. q.sp \in SPs \cup {0} /\ q.auth \in BOOLEAN /\ q.hsn \in Nat
      BY <1>q DEF Request
    <3>2. [tsn |-> n, hsn |-> q.hsn, sp |-> q.sp, auth |-> q.auth] \in OpenSession
      BY <2>1, <3>1 DEF OpenSession
    <3> QED BY <3>2, OneIsAtMostOne
  <2> QED BY <2>1, <2>2, AnswerType
<1>2. CASE TPerCloses(q)
  BY <1>2, <1>q, AnswerType DEF TPerCloses, AtMostOne
<1>3. CASE TPerServes(q) \/ TPerRefuses(q)
  <2>1. sessions' \subseteq OpenSession /\ AtMostOne(sessions')
    BY <1>3 DEF TPerServes, TPerRefuses, TypeOK, AtMostOne
  <2> QED BY <1>3, <1>q, <2>1, AnswerType DEF TPerServes, TPerRefuses
<1>4. CASE TPerDrops(q)
  BY <1>4 DEF TPerDrops, TypeOK, AtMostOne, process, view
<1> QED BY <1>1, <1>2, <1>3, <1>4

LEMMA TypeStep == TypeOK /\ [Next]_vars => TypeOK'
<1> SUFFICES ASSUME TypeOK, [Next]_vars PROVE TypeOK'
  OBVIOUS
<1>1. ASSUME Properties \/ EndSession \/ StartSession
             \/ \E o \in {"method"} \cup Reverts : Invoke(o)
      PROVE  TypeOK'
  <2>1. \E o \in Calls : Send(o) /\ goal' = goal /\ view' = view /\ trust' = trust
    BY <1>1 DEF Properties, EndSession, StartSession, Invoke,
                Calls, ManagerCalls, SessionCalls, Reverts
  <2> QED BY <2>1, SendType
<1>2. ASSUME Receive PROVE TypeOK'
  <2> PICK r \in outbox :
        /\ IF r.kind = "ok" /\ r.op # "end" /\ op # "end" THEN Return(r) ELSE Raise
        /\ trust' = (trust /\ r.kind # "junk")
    BY <1>2 DEF Receive
  <2>1. trust' \in BOOLEAN
    OBVIOUS
  <2> QED BY <1>2, <2>1, RaiseType, ReturnType, CompletedType DEF Receive
<1>3. ASSUME Timeout \/ IoError PROVE TypeOK'
  BY <1>3, RaiseType, CompletedType DEF Timeout, IoError
<1>4. ASSUME Poll PROVE TypeOK'
  <2>1. polls - 1 \in 0..MaxPolls /\ polls - 1 > 0
    BY <1>4, PollsPositive DEF Poll, TypeOK
  <2> QED BY <1>4, <2>1 DEF Poll, TypeOK, view, tper
<1>5. ASSUME ResetComid \/ ResetFails \/ NothingToEnd PROVE TypeOK'
  <2>1. AfterLogout \in Pc \ {"wait"}
    BY DEF AfterLogout, Pc
  <2>2. pc' \in Pc \ {"wait"} /\ op = "none" /\ ViewTyped' /\ trust' \in BOOLEAN
    BY <1>5, <2>1, KeepType DEF ResetComid, ResetFails, NothingToEnd, TypeOK, Pc
  <2> QED BY <1>5, <2>2 DEF ResetComid, ResetFails, NothingToEnd, TypeOK, ViewTyped,
                            AtMostOne, tper
<1>6. ASSUME \/ OpenDevice
             \/ \E sp \in SPs, auth \in BOOLEAN : Login(sp, auth)
             \/ \E does \in {"logout", "close"} : LogoutOrClose(does)
      PROVE  TypeOK'
  <2>1. goal' \in Goal
    <3>1. ASSUME NEW sp \in SPs, NEW auth \in BOOLEAN, Login(sp, auth) PROVE goal' \in Goal
      BY <3>1 DEF Login, Goal
    <3>2. ASSUME NEW does \in {"logout", "close"}, LogoutOrClose(does) PROVE goal' \in Goal
      BY <3>2 DEF LogoutOrClose, Quit, Goal
    <3> QED BY <1>6, <3>1, <3>2, QuitType DEF OpenDevice
  <2>2. pc' \in Pc \ {"wait"} /\ op = "none" /\ ViewTyped'
    BY <1>6, ForgetType, KeepType DEF OpenDevice, Login, LogoutOrClose, TypeOK, Pc
  <2> QED BY <1>6, <2>1, <2>2 DEF OpenDevice, Login, LogoutOrClose, TypeOK, ViewTyped,
                                  AtMostOne, tper
<1>7. ASSUME Kill \/ PowerCycle PROVE TypeOK'
  <2>1. trust' \in BOOLEAN
    BY <1>7 DEF Kill, PowerCycle
  <2>2. ViewTyped' /\ goal' \in Goal
    BY <1>7, ForgetType, QuitType DEF Kill, PowerCycle
  <2>3. pc' \in Pc /\ pc' # "wait" /\ op' = "none" /\ polls' \in 0..MaxPolls
    BY <1>7, PollsPositive DEF Kill, PowerCycle, Pc
  <2> QED BY <1>7, <2>1, <2>2, <2>3 DEF Kill, PowerCycle, TypeOK, ViewTyped, AtMostOne, tper
<1>8. CASE UNCHANGED vars
  BY <1>8 DEF vars, process, view, tper, TypeOK, AtMostOne
<1> QED BY <1>1, <1>2, <1>3, <1>4, <1>5, <1>6, <1>7, <1>8, TPerType DEF Next, Host, Fault, Tool

LEMMA TypeInit == Init => TypeOK
<1> SUFFICES ASSUME Init PROVE TypeOK
  OBVIOUS
<1>1. session_is_auth \in BOOLEAN /\ trust \in BOOLEAN
  BY DEF Init
<1>2. goal \in Goal
  BY QuitType DEF Init
<1>3. polls \in 0..MaxPolls
  BY PollsPositive DEF Init
<1> QED BY <1>1, <1>2, <1>3 DEF Init, TypeOK, Pc, AtMostOne

\* Every variable of the drive object and of the TPer keeps its type.
THEOREM TypeCorrect == Spec => []TypeOK
<1> QED BY TypeInit, TypeStep, PTL DEF Spec

-----------------------------------------------------------------------------
\* SessionInvariant is inductive.

LEMMA InvariantInit == Init => SessionInvariant
BY DEF Init, SessionInvariant, Clear, InStep, Agree, NoView, HostView

\* Only view, pc, op and trust matter to Clear.
LEMMA ClearStep == TypeOK /\ SessionInvariant /\ [Next]_vars => Clear'
<1> SUFFICES ASSUME TypeOK, SessionInvariant, [Next]_vars PROVE Clear'
  OBVIOUS
<1>v. Forget => NoView'
  BY DEF Forget, NoView
<1>w. UNCHANGED view => (NoView' = NoView) /\ tper_session_id' = tper_session_id
  BY DEF view, NoView
<1>1. CASE ResetComid \/ ResetFails \/ Properties
  BY <1>1, <1>w DEF SessionInvariant, Clear, TypeOK, ResetComid, ResetFails, Properties, Send, NoView
<1>2. CASE NothingToEnd \/ EndSession \/ StartSession
  BY <1>2, <1>w DEF SessionInvariant, Clear, TypeOK, NothingToEnd, EndSession, StartSession, Send, AfterLogout
<1>3. CASE \E o \in {"method"} \cup Reverts : Invoke(o)
  BY <1>3, <1>w DEF SessionInvariant, Clear, TypeOK, Invoke, Send, Reverts
<1>4. CASE Receive
  <2> PICK r \in outbox :
        /\ IF r.kind = "ok" /\ r.op # "end" /\ op # "end" THEN Return(r) ELSE Raise
        /\ trust' = (trust /\ r.kind # "junk")
    BY <1>4 DEF Receive
  <2>1. op' = "none" /\ pc = "wait"
    BY <1>4 DEF Receive, Completed
  <2>2. CASE Raise
    BY <2>1, <2>2, <1>v, <1>w DEF Raise, AfterLogout, SessionInvariant, Clear, NoView
  <2>3. CASE Return(r) /\ op # "start"
    BY <2>1, <2>3, <1>v, <1>w DEF Return, SessionInvariant, Clear, NoView
  <2>4. CASE Return(r) /\ op = "start" /\ r.kind = "ok"
    <3>1. pc' = "idle" /\ Adopt(r)
      BY <2>4 DEF Return
    <3>2. trust => r.op = "start" /\ r.tsn # 0
      <4> SUFFICES ASSUME trust PROVE r.op = "start" /\ r.tsn # 0
        OBVIOUS
      <4>1. r.op = "start" /\ Answered(r)
        BY <2>4 DEF SessionInvariant, InStep
      <4> QED BY <2>4, <4>1 DEF Answered
    <3> QED BY <2>1, <3>1, <3>2 DEF Adopt, Clear
  <2> QED BY <2>2, <2>3, <2>4
<1>5. CASE Timeout \/ IoError
  BY <1>5, <1>v, <1>w DEF Timeout, IoError, Raise, Completed, AfterLogout, SessionInvariant, Clear, NoView
<1>6. CASE OpenDevice \/ Kill \/ PowerCycle
  BY <1>6, <1>v DEF OpenDevice, Kill, PowerCycle, Clear, NoView, TypeOK
<1>7. CASE \/ \E sp \in SPs, auth \in BOOLEAN : Login(sp, auth)
           \/ \E does \in {"logout", "close"} : LogoutOrClose(does)
  BY <1>7, <1>w DEF Login, LogoutOrClose, SessionInvariant, Clear, TypeOK
<1>8. CASE TPer
  <2>1. UNCHANGED <<process, view, trust>>
    BY <1>8 DEF TPer, TPerOpens, TPerCloses, TPerServes, TPerRefuses, TPerDrops, Answer
  <2> QED BY <2>1, <1>w DEF process, SessionInvariant, Clear
<1>9. CASE Poll \/ UNCHANGED vars
  BY <1>9, <1>w DEF Poll, vars, process, SessionInvariant, Clear
<1> QED BY <1>1, <1>2, <1>3, <1>4, <1>5, <1>6, <1>7, <1>8, <1>9 DEF Next, Host, Fault, Tool

\* A call that is sent while the host is in step leaves it so.
LEMMA SendInStep ==
    ASSUME TypeOK, SessionInvariant, pc # "wait", NEW o \in Calls, Send(o),
           goal' = goal, view' = view, trust' = trust
    PROVE  InStep'
<1> SUFFICES ASSUME trust PROVE InStep'
  BY DEF InStep
<1>1. inbox = {} /\ outbox = {} /\ Agree
  BY DEF SessionInvariant, InStep
<1>2. outbox' = {} /\ inbox' \in {{}, {RequestOf(o)}}
  BY <1>1, AgedEmpty DEF Send
<1>3. RequestOf(op)' = RequestOf(o)
  BY DEF Send, RequestOf, view
<1>4. Agree'
  BY <1>1 DEF Agree, HostView, Send, view
<1> QED BY <1>2, <1>3, <1>4 DEF InStep, Send

\* What a call that ends by its own answer leaves behind.
LEMMA ReceiveInStep ==
    ASSUME TypeOK, SessionInvariant, Receive
    PROVE  InStep'
<1> SUFFICES ASSUME trust' PROVE InStep'
  BY DEF InStep
<1> PICK r \in outbox :
      /\ IF r.kind = "ok" /\ r.op # "end" /\ op # "end" THEN Return(r) ELSE Raise
      /\ trust' = (trust /\ r.kind # "junk")
  BY DEF Receive
<1>1. trust /\ r.kind \in {"ok", "fail"}
  BY DEF TypeOK, Reply
<1>2. r.mine /\ r.op = op /\ Answered(r) /\ inbox = {}
  BY <1>1 DEF SessionInvariant, InStep
<1>3. outbox' = {} /\ inbox' = {} /\ sessions' = sessions /\ pc' # "wait"
  BY <1>2, RaiseType, ReturnType DEF Receive, Completed
<1>r. IF r.kind = "ok" /\ op # "end" THEN Return(r) ELSE Raise
  BY <1>2
<1>k. Forget => HostView' = {}
  BY DEF Forget, HostView
<1>u. UNCHANGED view => HostView' = HostView
  BY DEF view, HostView
<1>4. Agree'
  <2>1. CASE op = "end"
    <3>1. Forget
      BY <1>r, <2>1 DEF Raise
    <3>2. sessions = {}
      BY <1>1, <1>2, <2>1 DEF Answered, Reverts
    <3> QED BY <1>3, <1>k, <3>1, <3>2 DEF Agree
  <2>2. CASE op # "end" /\ r.kind = "fail"
    <3>1. UNCHANGED view
      BY <1>r, <2>2 DEF Raise
    <3>2. Agree
      BY <1>2, <2>2 DEF Answered
    <3> QED BY <1>3, <1>u, <3>1, <3>2 DEF Agree
  <2>3. CASE op = "start" /\ r.kind = "ok"
    <3>1. Adopt(r)
      BY <1>r, <2>3 DEF Return
    <3>2. r.tsn # 0 /\ sessions = {[tsn |-> r.tsn, hsn |-> r.hsn, sp |-> goal.sp, auth |-> goal.auth]}
      BY <1>2, <2>3 DEF Answered
    <3>3. HostView' = {[tsn |-> r.tsn, hsn |-> r.hsn, sp |-> goal.sp, auth |-> goal.auth]}
      BY <1>2, <2>3, <3>1, <3>2 DEF Adopt, HostView
    <3> QED BY <1>3, <3>2, <3>3 DEF Agree
  <2>4. CASE op \in Reverts /\ r.kind = "ok"
    <3>1. sessions = {}
      BY <1>2, <2>4 DEF Answered, Reverts
    <3>2. CASE op = "revert"
      BY <1>3, <3>1, <3>2 DEF Agree, SessionInvariant, Clear
    <3>3. CASE op = "admin_sp_revert"
      <4>1. Forget
        BY <1>r, <2>4, <3>3 DEF Return
      <4> QED BY <1>3, <1>k, <3>1, <4>1 DEF Agree
    <3> QED BY <2>4, <3>2, <3>3 DEF Reverts
  <2>5. CASE op \in {"properties", "method"} /\ r.kind = "ok"
    <3>1. UNCHANGED view
      BY <1>r, <2>5 DEF Return
    <3>2. Agree
      BY <1>2, <2>5 DEF Answered, Reverts
    <3> QED BY <1>3, <1>u, <3>1, <3>2 DEF Agree
  <2>6. op \in Calls
    BY DEF Receive, TypeOK
  <2> QED BY <1>1, <2>1, <2>2, <2>3, <2>4, <2>5, <2>6
          DEF Calls, ManagerCalls, SessionCalls
<1> QED BY <1>3, <1>4 DEF InStep

\* The TPer moves the outstanding request from inbox to outbox, and opens or
\* closes the session the host asked about.
LEMMA TPerInStep ==
    ASSUME TypeOK, SessionInvariant, TPer
    PROVE  InStep'
<1> SUFFICES ASSUME trust' PROVE InStep'
  BY DEF InStep
<1> PICK q \in inbox : \/ TPerOpens(q) \/ TPerCloses(q) \/ TPerServes(q)
                       \/ TPerRefuses(q) \/ TPerDrops(q)
  BY DEF TPer
<1>1. UNCHANGED <<process, view, trust>> /\ inbox' = {}
  BY DEF TPerOpens, TPerCloses, TPerServes, TPerRefuses, TPerDrops, Answer
<1>2. trust /\ outbox = {}
  BY <1>1 DEF TPer
<1>3. pc = "wait" /\ q = RequestOf(op) /\ Agree
  BY <1>2 DEF SessionInvariant, InStep
<1>4. q.op = op /\ q.mine /\ op \in Calls
  BY <1>3 DEF RequestOf, TypeOK
<1>5. HostView' = HostView /\ op' = op /\ pc' = pc /\ goal' = goal /\ trust'
  BY <1>1, <1>2 DEF process, view, HostView
<1>6. ASSUME NEW kinds \in SUBSET {"ok", "fail", "junk"}, NEW n, Answer(q, kinds, n),
             \A r \in outbox' : Answered(r)'
      PROVE  InStep'
  <2>1. \A r \in outbox' : r.mine /\ r.op = op /\ Answered(r)'
    <3>1. \A r \in outbox' : r.op = q.op /\ r.mine = q.mine
      BY <1>6 DEF Answer
    <3> QED BY <1>4, <1>6, <3>1
  <2>2. outbox' # {}
    BY <1>6 DEF Answer
  <2> QED BY <1>1, <1>3, <1>5, <2>1, <2>2 DEF InStep
<1>7. CASE TPerOpens(q)
  <2> PICK n \in SessionNumbers :
        /\ sessions' = {[tsn |-> n, hsn |-> q.hsn, sp |-> q.sp, auth |-> q.auth]}
        /\ Answer(q, {"ok", "junk"}, n)
    BY <1>7 DEF TPerOpens
  <2>1. op = "start" /\ n # 0 /\ q.sp = goal.sp /\ q.auth = goal.auth
    BY <1>3, <1>4, <1>7, NonZero DEF TPerOpens, RequestOf
  <2>2. \A r \in outbox' : r.tsn = n /\ r.hsn = q.hsn /\ r.kind # "fail"
    BY DEF Answer
  <2>3. ASSUME NEW r \in outbox' PROVE Answered(r)'
    <3>1. r.tsn # 0 /\ r.kind # "fail" /\ op' = "start"
      BY <1>5, <2>1, <2>2
    <3>2. sessions' = {[tsn |-> r.tsn, hsn |-> r.hsn, sp |-> goal'.sp, auth |-> goal'.auth]}
      BY <1>5, <2>1, <2>2
    <3> QED BY <3>1, <3>2 DEF Answered, Reverts
  <2> QED BY <1>6, <2>3
<1>8. CASE TPerCloses(q)
  <2>1. \A r \in outbox' : r.kind # "fail"
    BY <1>8 DEF TPerCloses, Answer
  <2>2. op \in Reverts \cup {"end"} /\ sessions' = {}
    BY <1>4, <1>8 DEF TPerCloses
  <2>3. \A r \in outbox' : Answered(r)'
    <3>1. sessions' = {} /\ op' \in Reverts \cup {"end"}
      BY <1>5, <2>2
    <3> QED BY <2>1, <3>1 DEF Answered, Reverts
  <2> QED BY <1>6, <1>8, <2>3 DEF TPerCloses
<1>9. CASE TPerServes(q) \/ TPerRefuses(q)
  <2>1. Agree'
    BY <1>3, <1>5, <1>9 DEF TPerServes, TPerRefuses, Agree
  <2>2. op # "end" /\ \A r \in outbox' : r.kind = "ok" => op \in {"properties", "method"}
    <3>1. CASE TPerServes(q)
      BY <1>4, <3>1 DEF TPerServes
    <3>2. CASE TPerRefuses(q)
      <4>1. op # "end"
        BY <1>4, <3>2 DEF TPerRefuses, Reverts
      <4>2. \A r \in outbox' : r.kind # "ok"
        BY <3>2 DEF TPerRefuses, Answer
      <4> QED BY <4>1, <4>2
    <3> QED BY <1>9, <3>1, <3>2
  <2>3. \A r \in outbox' : Answered(r)'
    BY <1>5, <2>1, <2>2 DEF Answered, Reverts
  <2> QED BY <1>6, <1>9, <2>3 DEF TPerServes, TPerRefuses
<1>10. CASE TPerDrops(q)
  <2>1. outbox' = {} /\ Agree'
    BY <1>2, <1>3, <1>5, <1>10 DEF TPerDrops, Agree
  <2> QED BY <1>1, <1>3, <1>5, <2>1 DEF InStep
<1> QED BY <1>7, <1>8, <1>9, <1>10

LEMMA InStepStep == TypeOK /\ SessionInvariant /\ [Next]_vars => InStep'
<1> SUFFICES ASSUME TypeOK, SessionInvariant, [Next]_vars PROVE InStep'
  OBVIOUS
<1>u. UNCHANGED view => HostView' = HostView
  BY DEF view, HostView
<1>1. ASSUME Properties \/ EndSession \/ StartSession
             \/ \E o \in {"method"} \cup Reverts : Invoke(o)
      PROVE  InStep'
  <2>1. \E o \in Calls : /\ Send(o) /\ pc # "wait"
                         /\ goal' = goal /\ view' = view /\ trust' = trust
    BY <1>1 DEF Properties, EndSession, StartSession, Invoke,
                Calls, ManagerCalls, SessionCalls, Reverts
  <2> QED BY <2>1, SendInStep
<1>2. CASE Timeout \/ IoError
  BY <1>2 DEF Timeout, IoError, InStep
<1>3. CASE ResetComid \/ PowerCycle
  <2>1. inbox' = {} /\ outbox' = {} /\ sessions' = {} /\ tper_session_id' = 0
    BY <1>3 DEF ResetComid, PowerCycle, Forget, view, SessionInvariant, Clear, NoView
  <2> QED BY <2>1 DEF InStep, Agree, HostView
<1>4. CASE Kill \/ OpenDevice
  <2> SUFFICES ASSUME trust' PROVE InStep'
    BY DEF InStep
  <2>1. trust /\ pc # "wait" /\ tper_session_id = 0 /\ tper_session_id' = 0 /\ UNCHANGED tper
    BY <1>4 DEF Kill, OpenDevice, Forget, SessionInvariant, Clear
  <2> QED BY <2>1 DEF SessionInvariant, InStep, Agree, HostView, tper
<1>5. CASE \/ NothingToEnd \/ ResetFails
           \/ \E sp \in SPs, auth \in BOOLEAN : Login(sp, auth)
           \/ \E does \in {"logout", "close"} : LogoutOrClose(does)
  <2>1. UNCHANGED <<view, tper, trust>> /\ pc # "wait"
    BY <1>5 DEF NothingToEnd, ResetFails, Login, LogoutOrClose
  <2> QED BY <2>1, <1>u DEF SessionInvariant, InStep, Agree, tper
<1>6. CASE Poll \/ UNCHANGED vars
  <2>1. UNCHANGED <<pc, goal, op, pid, view, tper, trust>>
    BY <1>6 DEF Poll, vars, process
  <2>2. RequestOf(op)' = RequestOf(op)
    BY <2>1 DEF RequestOf, view
  <2>3. Agree' = Agree /\ \A r : Answered(r)' = Answered(r)
    BY <2>1, <1>u DEF Agree, Answered, tper
  <2> QED BY <2>1, <2>2, <2>3 DEF SessionInvariant, InStep, tper
<1> QED BY <1>1, <1>2, <1>3, <1>4, <1>5, <1>6, ReceiveInStep, TPerInStep DEF Next, Host, Fault, Tool

\* SessionInvariant holds in every reachable state.
THEOREM InvariantCorrect == Spec => []SessionInvariant
<1>1. TypeOK /\ SessionInvariant /\ [Next]_vars => SessionInvariant'
  BY ClearStep, InStepStep DEF SessionInvariant
<1> QED BY <1>1, InvariantInit, TypeCorrect, PTL DEF Spec

\* While trust lasts, what recv can read is the answer of the call it waits for.
THEOREM AnswersBelong == Spec => []ReplyMatchesCall
<1>1. SessionInvariant => ReplyMatchesCall
  BY DEF SessionInvariant, InStep, ReplyMatchesCall
<1> QED BY <1>1, InvariantCorrect, PTL

\* While trust lasts, the drive object and the TPer agree between calls.
THEOREM ViewIsExact == Spec => []SessionAgreement
<1>1. SessionInvariant => SessionAgreement
  BY DEF SessionInvariant, InStep, Agree, SessionAgreement
<1> QED BY <1>1, InvariantCorrect, PTL

\* And so do the two getters.
THEOREM GettersCorrect == Spec => []GettersTruthful
<1>1. TypeOK /\ SessionInvariant => GettersTruthful
  <2> SUFFICES ASSUME TypeOK, SessionInvariant, trust, pc # "wait", ~TpAdminRevert
               PROVE  /\ session_is_auth = (\E s \in sessions : s.auth)
                      /\ sessions = {} => session_sp = 0
                      /\ \A s \in sessions : session_sp = s.sp
    BY DEF GettersTruthful
  <2>1. sessions = HostView
    BY DEF SessionInvariant, InStep, Agree
  <2>2. CASE tper_session_id = 0
    <3>1. sessions = {} /\ session_sp = 0 /\ ~session_is_auth
      BY <2>1, <2>2 DEF HostView, SessionInvariant, Clear, NoView
    <3> QED BY <3>1 DEF TypeOK
  <2>3. CASE tper_session_id # 0
    <3> DEFINE s0 == [tsn |-> tper_session_id, hsn |-> host_session_id,
                      sp |-> session_sp, auth |-> session_is_auth]
    <3>1. sessions = {s0}
      BY <2>1, <2>3 DEF HostView
    <3>2. s0.sp = session_sp /\ s0.auth = session_is_auth
      OBVIOUS
    <3> HIDE DEF s0
    <3> QED BY <3>1, <3>2 DEF TypeOK
  <2> QED BY <2>2, <2>3
<1> QED BY <1>1, TypeCorrect, InvariantCorrect, PTL

\* The constructor's reset_comid does leave a blank slate.
THEOREM BlankSlateCorrect == Spec => BlankSlate
<1>1. TypeOK /\ TypeOK' /\ SessionInvariant /\ SessionInvariant' /\ [Next]_vars =>
        [HasProtoReset /\ op = "properties" /\ pc' = "idle" =>
           trust' /\ inbox' = {} /\ outbox' = {} /\ sessions' = {}]_vars
  <2> SUFFICES ASSUME TypeOK, TypeOK', SessionInvariant, SessionInvariant', Next,
                      HasProtoReset, op = "properties", pc' = "idle"
               PROVE  trust' /\ inbox' = {} /\ outbox' = {} /\ sessions' = {}
    OBVIOUS
  <2>1. pc = "wait" /\ trust
    BY DEF SessionInvariant, Clear, TypeOK
  <2>2. Receive
    <3>1. ~ResetComid /\ ~ResetFails /\ ~Properties /\ ~NothingToEnd /\ ~EndSession
          /\ ~StartSession /\ ~Tool
      BY <2>1 DEF ResetComid, ResetFails, Properties, NothingToEnd, EndSession, StartSession,
                  Tool, OpenDevice, Login, LogoutOrClose, Invoke
    <3>2. ~Poll /\ ~Timeout /\ ~IoError /\ ~Kill /\ ~PowerCycle
      BY <2>1 DEF Poll, Timeout, IoError, Raise, Kill, PowerCycle
    <3>3. ~TPer
      BY <2>1 DEF TPer, TPerOpens, TPerCloses, TPerServes, TPerRefuses, TPerDrops, Answer, process
    <3> QED BY <3>1, <3>2, <3>3 DEF Next, Host, Fault
  <2> PICK r \in outbox :
        /\ IF r.kind = "ok" /\ r.op # "end" /\ op # "end" THEN Return(r) ELSE Raise
        /\ trust' = (trust /\ r.kind # "junk")
    BY <2>2 DEF Receive
  <2>3. r.kind = "ok" /\ UNCHANGED view
    BY DEF Raise, Return
  <2>4. trust' /\ NoView'
    BY <2>1, <2>3 DEF SessionInvariant, Clear, NoView, view
  <2> QED BY <2>4 DEF SessionInvariant, InStep, Agree, NoView, HostView
<1> QED BY <1>1, TypeCorrect, InvariantCorrect, PTL DEF Spec, BlankSlate

-----------------------------------------------------------------------------
\* The refinement of RemoteSession.

LEMMA ViewIsSession == TypeOK => Promise!AtMostOneOf(HostView) /\ Promise!AtMostOneOf(sessions)
<1> SUFFICES ASSUME TypeOK
             PROVE  Promise!AtMostOneOf(HostView) /\ Promise!AtMostOneOf(sessions)
  OBVIOUS
<1>1. [tsn |-> tper_session_id, hsn |-> host_session_id,
       sp |-> session_sp, auth |-> session_is_auth] \in OpenSession
  BY DEF TypeOK, OpenSession
<1>2. Promise!AtMostOneOf(HostView)
  BY <1>1 DEF HostView, Promise!AtMostOneOf
<1>3. Promise!AtMostOneOf(sessions)
  BY DEF TypeOK, AtMostOne, Promise!AtMostOneOf
<1> QED BY <1>2, <1>3

\* Each step of the code is a step of RemoteSession or changes nothing there.
LEMMA StepRefines ==
    ASSUME ~TpAdminRevert, TypeOK, TypeOK', SessionInvariant, SessionInvariant', [Next]_vars
    PROVE  [Promise!Next]_Promise!rvars
<1> DEFINE Same == HostView' = HostView /\ CallPhase' = CallPhase
                   /\ sessions' = sessions /\ trust' = trust
<1>s. ASSUME Same PROVE UNCHANGED Promise!rvars
  BY <1>s DEF Promise!rvars
<1>u. UNCHANGED view => HostView' = HostView
  BY DEF view, HostView
<1>z. tper_session_id = 0 => HostView = {}
  BY DEF HostView
<1>zz. tper_session_id' = 0 => HostView' = {}
  BY DEF HostView
<1>a. /\ Promise!AtMostOneOf(HostView) /\ Promise!AtMostOneOf(sessions)
      /\ (Promise!AtMostOneOf(HostView) /\ Promise!AtMostOneOf(sessions))'
  BY ViewIsSession, PTL
<1>c. CallPhase' \in {"none", "asked", "served"} /\ (pc' # "wait" => CallPhase' = "none")
  BY DEF CallPhase
<1>l. ASSUME ~trust, ~trust', sessions' = sessions \/ sessions = {} \/ sessions' = {}
      PROVE  Promise!Late
  BY <1>l, <1>a, <1>c DEF Promise!Late, Promise!AtMostOneOf
<1>o. ASSUME ~trust', pc' # "wait", sessions' = sessions
      PROVE  Promise!Lose
  BY <1>o, <1>a, <1>c DEF Promise!Lose, Promise!AtMostOneOf
<1>1. CASE ResetComid \/ PowerCycle
  <2>1. trust' /\ pc' # "wait" /\ sessions' = {} /\ tper_session_id' = 0
    BY <1>1 DEF ResetComid, PowerCycle, Forget, view, SessionInvariant, Clear, NoView
  <2> QED BY <2>1, <1>c, <1>zz DEF Promise!Next, Promise!Reset
<1>2. CASE \/ ResetFails \/ NothingToEnd
           \/ \E sp \in SPs, auth \in BOOLEAN : Login(sp, auth)
           \/ \E does \in {"logout", "close"} : LogoutOrClose(does)
  <2>1. UNCHANGED <<view, tper, trust>> /\ pc # "wait" /\ pc' # "wait"
    BY <1>2 DEF ResetFails, NothingToEnd, Login, LogoutOrClose, AfterLogout
  <2> QED BY <2>1, <1>u, <1>s DEF CallPhase, tper
<1>3. CASE OpenDevice \/ (Kill /\ trust')
  <2>1. /\ tper_session_id = 0 /\ tper_session_id' = 0 /\ UNCHANGED tper /\ trust' = trust
        /\ pc # "wait" /\ pc' # "wait"
    BY <1>3 DEF OpenDevice, Kill, Forget, SessionInvariant, Clear, TypeOK
  <2> QED BY <2>1, <1>z, <1>zz, <1>s DEF CallPhase, tper
<1>4. CASE Timeout \/ IoError \/ (Kill /\ ~trust')
  <2>1. ~trust' /\ pc' # "wait" /\ sessions' = sessions
    BY <1>4, RaiseType DEF Timeout, IoError, Kill, Completed, tper
  <2> QED BY <2>1, <1>o DEF Promise!Next
<1>5. CASE Poll \/ UNCHANGED vars
  <2>1. UNCHANGED <<pc, view, tper, trust>>
    BY <1>5 DEF Poll, vars, process
  <2> QED BY <2>1, <1>u, <1>s DEF CallPhase, tper
<1>6. CASE Properties \/ EndSession \/ StartSession
           \/ \E o \in {"method"} \cup Reverts : Invoke(o)
  <2>1. /\ pc # "wait" /\ pc' = "wait" /\ UNCHANGED <<view, sessions, trust>>
        /\ outbox = {} => outbox' = {}
    BY <1>6, AgedEmpty DEF Properties, EndSession, StartSession, Invoke, Send
  <2>2. CASE trust
    <3>1. CallPhase = "none" /\ CallPhase' = "asked"
      BY <2>1, <2>2 DEF CallPhase, SessionInvariant, InStep
    <3> QED BY <2>1, <3>1, <1>u DEF Promise!Next, Promise!Call
  <2>3. CASE ~trust
    BY <2>1, <2>3, <1>l DEF Promise!Next
  <2> QED BY <2>2, <2>3
<1>7. CASE Receive
  <2> PICK r \in outbox :
        /\ IF r.kind = "ok" /\ r.op # "end" /\ op # "end" THEN Return(r) ELSE Raise
        /\ trust' = (trust /\ r.kind # "junk")
    BY <1>7 DEF Receive
  <2>1. sessions' = sessions /\ pc' # "wait" /\ outbox' = {}
    BY <1>7, RaiseType, ReturnType DEF Receive, Completed
  <2>2. CASE trust'
    <3>1. trust /\ CallPhase = "served"
      BY <1>7, <2>2 DEF CallPhase, Receive, SessionInvariant, InStep
    <3>2. HostView' = sessions
      BY <2>1, <2>2 DEF SessionInvariant, InStep, Agree
    <3> QED BY <2>1, <2>2, <3>1, <3>2, <1>c DEF Promise!Next, Promise!Return
  <2>3. CASE ~trust'
    BY <2>1, <2>3, <1>o DEF Promise!Next
  <2> QED BY <2>2, <2>3
<1>8. CASE TPer
  <2> PICK q \in inbox : \/ TPerOpens(q) \/ TPerCloses(q) \/ TPerServes(q)
                         \/ TPerRefuses(q) \/ TPerDrops(q)
    BY <1>8 DEF TPer
  <2>1. /\ UNCHANGED <<process, view, trust>> /\ outbox = {}
        /\ sessions' = sessions \/ sessions = {} \/ sessions' = {}
    BY <1>8 DEF TPer, TPerOpens, TPerCloses, TPerServes, TPerRefuses, TPerDrops, Answer
  <2>2. CASE ~trust
    BY <2>1, <2>2, <1>l DEF Promise!Next
  <2>3. CASE trust /\ TPerDrops(q)
    BY <2>1, <2>3, <1>u, <1>s DEF TPerDrops, CallPhase, process
  <2>4. CASE trust /\ ~TPerDrops(q)
    <3>1. pc = "wait" /\ q.mine
      <4>1. pc = "wait" /\ q = RequestOf(op)
        BY <2>4 DEF SessionInvariant, InStep
      <4> QED BY <4>1 DEF RequestOf
    <3>2. \E r \in outbox' : r.mine
      <4>1. \E kinds, n : Answer(q, kinds, n) /\ kinds # {}
        BY <2>4 DEF TPerOpens, TPerCloses, TPerServes, TPerRefuses
      <4> QED BY <3>1, <4>1 DEF Answer
    <3>3. CallPhase = "asked" /\ CallPhase' = "served"
      BY <2>1, <3>1, <3>2 DEF CallPhase, process
    <3> QED BY <2>1, <3>3, <1>a, <1>u DEF Promise!Next, Promise!Serve, Promise!AtMostOneOf
  <2> QED BY <2>2, <2>3, <2>4
<1> QED BY <1>1, <1>2, <1>3, <1>4, <1>5, <1>6, <1>7, <1>8 DEF Next, Host, Fault, Tool

\* The session layer implements RemoteSession, unless the tool reverts as
\* tp_admin does.
THEOREM Implements == ASSUME ~TpAdminRevert PROVE Spec => KeepsPromise
<1>1. Init => Promise!Init
  BY DEF Init, Promise!Init, CallPhase, HostView
<1>2. TypeOK /\ TypeOK' /\ SessionInvariant /\ SessionInvariant' /\ [Next]_vars
        => [Promise!Next]_Promise!rvars
  BY StepRefines
<1> QED BY <1>1, <1>2, TypeCorrect, InvariantCorrect, PTL
        DEF Spec, KeepsPromise, Promise!Spec
=============================================================================
