---------------------------- MODULE BridgeProofs ----------------------------
(***************************************************************************)
(* Proofs about Bridge.  The inductive invariant says what is in the two    *)
(* pipes: every request that has been issued and not yet been taken up is   *)
(* in to_bridge, in order and with what has been sent of its data behind    *)
(* it; every request that has been served is answered as long as the kernel *)
(* listens; and the MBR holds the writes up to the request being served.    *)
(***************************************************************************)
EXTENDS Bridge, SequenceTheorems, TLAPS

Types    == {"read", "write", "disc"}
Alive    == pc \in {"setup", "created", "login", "select", "get", "payload", "put", "reply"}
InHand   == pc \in {"get", "payload", "put", "reply"}
Requests == [n : Nat \ {0}, type : Types, block : Blocks]
Elements == [n : Nat, type : Types \cup {"chunk", "none"}, block : Blocks]
Data     == [1..2 -> Nat]
Messages == [type : {"reply", "data"}, n : Nat, error : BOOLEAN, data : Data \cup {<< >>}]
Taken    == [n : Nat, data : Data \cup {<< >>}]

TypeOK ==
    /\ pc \in {"setup", "created", "login", "select", "get", "payload", "put", "reply",
               "cleanup", "join", "exited"}
    /\ handle \in Nat /\ got \in 0..2 /\ unsent \in 0..2
    /\ request \in Elements
    /\ buffer \in Data /\ mbr \in [Blocks -> Data]
    /\ kthread \in {"none", "set", "doit", "running", "done", "failed"}
    /\ nbd \in {"none", "set", "serving", "dropped", "ended"}
    /\ issued \in Seq(Requests)
    /\ to_bridge \in Seq(Elements)
    /\ to_kernel \in Seq(Messages)
    /\ replies \in Seq(Taken)

\* The program, its signals and the kernel.
Control ==
    /\ closed => pc \in {"join", "exited"}
    /\ interrupted => sig
    /\ nbd = "ended" => kthread = "done" /\ unsent = 0
    /\ kthread \in {"none", "set"} => nbd = "none"
    /\ kthread = "doit" => nbd \in {"none", "set"}
    /\ nbd = "serving" => kthread = "running"
    /\ pc = "setup" => kthread = "none"
    /\ kthread \in {"none", "set", "doit", "failed"} => issued = << >> /\ unsent = 0
    /\ unsent > 0 => issued # << >> /\ issued[Len(issued)].type = "write"

Numbered == \A i \in DOMAIN issued : issued[i].n = i

-----------------------------------------------------------------------------
\* What lies behind position i of to_bridge, where a write n stands: its chunks,
\* two of them with those that the kernel is about to send, and then later
\* requests.
DataBehind(i, n) ==
    /\ \A k \in DOMAIN to_bridge :
         k > i => IF k <= i + 2 THEN to_bridge[k].n = n /\ to_bridge[k].type = "chunk"
                  ELSE to_bridge[k].n > n
    /\ nbd = "serving" => Len(to_bridge) - i + (IF n = Len(issued) THEN unsent ELSE 0) >= 2
    /\ n = Len(issued) => Len(to_bridge) - i + unsent <= 2

Elementwise ==
    \A i \in DOMAIN to_bridge :
        /\ to_bridge[i].n \in DOMAIN issued
        /\ to_bridge[i].type # "chunk" => to_bridge[i] = issued[to_bridge[i].n]
        /\ to_bridge[i].type = "chunk" => issued[to_bridge[i].n].type = "write"

Ordered ==
    \A i, j \in DOMAIN to_bridge :
        i < j => /\ to_bridge[i].n <= to_bridge[j].n
                 /\ to_bridge[j].type # "chunk" => to_bridge[i].n < to_bridge[j].n

Later ==
    \A i \in DOMAIN to_bridge :
        /\ to_bridge[i].n >= request.n
        /\ to_bridge[i].type # "chunk" => to_bridge[i].n > request.n

NoneLost ==
    \A m \in (request.n + 1)..Len(issued) : \E i \in DOMAIN to_bridge : to_bridge[i] = issued[m]

Pipe ==
    /\ Elementwise /\ Ordered
    /\ \A i \in DOMAIN to_bridge : to_bridge[i].type = "write" => DataBehind(i, to_bridge[i].n)
    /\ Alive =>
         /\ request.n \in 0..Len(issued)
         /\ Later /\ NoneLost
         /\ request.n > 0 => request = issued[request.n]
         /\ request.n = 0 => request.type = "none" /\ pc \in {"setup", "created", "login", "select"}
         /\ pc \in {"setup", "created", "login"} => request.n = 0
         /\ pc = "payload" => DataBehind(0 - got, request.n)

-----------------------------------------------------------------------------
\* Requests up to here are answered.
Answering == IF InHand THEN request.n - 1 ELSE request.n

Serving ==
    /\ InHand => handle = request.n
    /\ pc = "get" => request.type = "read"
    /\ pc \in {"payload", "put"} => request.type = "write"
    /\ \A i \in DOMAIN replies : replies[i].n \in DOMAIN issued
    /\ \A i \in DOMAIN to_kernel :
         to_kernel[i].type = "reply" =>
             /\ to_kernel[i].n \in DOMAIN issued
             /\ to_kernel[i].error = (issued[to_kernel[i].n].type = "disc")
    /\ \A i \in DOMAIN to_kernel : to_kernel[i].type = "data" => to_kernel[i].n = 0
    /\ Alive =>
         /\ \A n \in DOMAIN issued : Answered(n) => n <= Answering
         /\ nbd # "ended" =>
              \A n \in 1..Answering : issued[n].type # "disc" => Answered(n)

-----------------------------------------------------------------------------
\* The data of a read.
Right(n, data) ==
    \E w \in 0..(n - 1) : data = <<w, w>> /\ LastWrite(w, issued[n].block, n)

\* A write that was cut short is in the MBR, or about to be.
Torn == pc \in {"reply", "select"} /\ request.type = "write" /\ got < 2

\* Writes before this one are in the MBR.
Applied == IF pc \in {"get", "payload", "put"} THEN request.n ELSE request.n + 1

Stored ==
    /\ Alive /\ ~Torn =>
         \A b \in Blocks : \E w \in 0..(Applied - 1) : mbr[b] = <<w, w>> /\ LastWrite(w, b, Applied)
    /\ Torn => sig \/ (pc = "reply" /\ nbd = "ended")
    /\ pc = "put" /\ got < 2 => sig \/ nbd = "ended"
    /\ pc \in {"payload", "put"} => \A k \in 1..got : buffer[k] = request.n
    /\ pc = "reply" /\ request.type = "read" => Right(request.n, buffer)
    /\ \A i \in DOMAIN to_kernel :
         to_kernel[i].type = "reply" /\ issued[to_kernel[i].n].type = "read" =>
             /\ i + 1 \in DOMAIN to_kernel
             /\ to_kernel[i + 1].type = "data"
             /\ Right(to_kernel[i].n, to_kernel[i + 1].data)

IInv == TypeOK /\ Control /\ Numbered /\ Pipe /\ Serving /\ RepliesInOrder /\ Stored /\ ReadsSeeWrites
-----------------------------------------------------------------------------
LEMMA TypeInit == Init => TypeOK
<1> SUFFICES ASSUME Init PROVE TypeOK
  OBVIOUS
<1>1. NoRequest \in Elements
  BY SomeBlock DEF NoRequest, Elements
<1>2. <<0, 0>> \in Data
  BY DEF Data
<1>3. buffer \in Data /\ mbr \in [Blocks -> Data]
  BY <1>2 DEF Init
<1>4. issued \in Seq(Requests) /\ to_bridge \in Seq(Elements) /\ to_kernel \in Seq(Messages)
      /\ replies \in Seq(Taken)
  BY DEF Init
<1>5. request \in Elements
  BY <1>1 DEF Init
<1> QED
  BY <1>3, <1>4, <1>5 DEF Init, TypeOK

\* What the kernel finds at the end of its pipe.
LEMMA FirstAnswer ==
  ASSUME IInv, to_kernel # << >>
  PROVE  /\ to_kernel[1] \in Messages /\ Head(to_kernel) = to_kernel[1]
         /\ Waiting(to_kernel[1].n) =>
              /\ Answers(to_kernel[1]) /\ to_kernel[1].type = "reply"
              /\ to_kernel[1].n \in DOMAIN issued
              /\ issued[to_kernel[1].n].type # "disc"
         /\ Waiting(to_kernel[1].n) /\ issued[to_kernel[1].n].type = "read" =>
              /\ 2 \in DOMAIN to_kernel /\ to_kernel[2].type = "data"
              /\ to_kernel[2].data \in Data \cup {<< >>}
              /\ Right(to_kernel[1].n, to_kernel[2].data)
<1>0. TypeOK /\ Serving /\ Stored
  BY DEF IInv
<1>1. 1 \in DOMAIN to_kernel /\ to_kernel[1] \in Messages /\ Head(to_kernel) = to_kernel[1]
  BY <1>0 DEF TypeOK
<1>2. ASSUME Waiting(to_kernel[1].n)
      PROVE  /\ Answers(to_kernel[1]) /\ to_kernel[1].type = "reply"
             /\ to_kernel[1].n \in DOMAIN issued
             /\ issued[to_kernel[1].n].type # "disc"
  <2>1. to_kernel[1].n \in 1..Len(issued) /\ issued[to_kernel[1].n].type # "disc"
    BY <1>0, <1>2 DEF Waiting, TypeOK
  <2>2. to_kernel[1].type = "reply"
    BY <1>0, <1>1, <2>1 DEF Serving, Messages
  <2> QED
    BY <1>0, <1>1, <2>1, <2>2 DEF Serving, Answers, TypeOK
<1>3. ASSUME Waiting(to_kernel[1].n), issued[to_kernel[1].n].type = "read"
      PROVE  /\ 2 \in DOMAIN to_kernel /\ to_kernel[2].type = "data"
             /\ to_kernel[2].data \in Data \cup {<< >>}
             /\ Right(to_kernel[1].n, to_kernel[2].data)
  <2>1. 1 + 1 \in DOMAIN to_kernel /\ to_kernel[1 + 1].type = "data"
        /\ Right(to_kernel[1].n, to_kernel[1 + 1].data)
    BY <1>0, <1>1, <1>2, <1>3 DEF Stored
  <2>2. 2 \in DOMAIN to_kernel /\ to_kernel[2].type = "data" /\ Right(to_kernel[1].n, to_kernel[2].data)
    BY <2>1
  <2>3. to_kernel[2] \in Messages
    BY <1>0, <2>2 DEF TypeOK
  <2> QED
    BY <2>2, <2>3 DEF Messages
<1> QED
  BY <1>1, <1>2, <1>3

LEMMA TypeStep == IInv /\ [Next]_vars => TypeOK'
<1> SUFFICES ASSUME IInv, [Next]_vars PROVE TypeOK'
  OBVIOUS
<1>0. TypeOK /\ Control /\ Serving /\ Stored
  BY DEF IInv
<1> USE <1>0 DEF TypeOK, Leave, Go, server, proc, kernel, pipe
<1>1. CASE Setup \/ Login \/ Stop \/ Join \/ RecvDone
  BY <1>1 DEF Setup, Login, Stop, Join, RecvDone
<1>2. CASE ClearSock
  BY <1>2 DEF ClearSock
<1>3. CASE Cleanup
  BY <1>3 DEF Cleanup, CloseAll
<1>4. CASE SetSock \/ DoIt
  BY <1>4 DEF SetSock, DoIt
<1>5. CASE NextRequest
  <2>1. CASE to_bridge = << >>
    BY <1>5, <2>1 DEF NextRequest, EndOfFile
  <2>2. CASE to_bridge # << >>
    <3>1. Head(to_bridge) \in Elements /\ Tail(to_bridge) \in Seq(Elements)
      BY <2>2
    <3>2. Head(to_bridge).n \in Nat
      BY <3>1 DEF Elements
    <3>3. to_bridge' \in Seq(Elements) /\ request' \in Elements /\ handle' \in Nat
      BY <1>5, <2>2, <3>1, <3>2 DEF NextRequest, HandleOf
    <3> QED
      BY <1>5, <2>2, <3>3 DEF NextRequest
  <2> QED
    BY <2>1, <2>2
<1>6. CASE GetBin
  BY <1>6 DEF GetBin, Elements
<1>7. CASE RecvChunk
  <2>1. Head(to_bridge) \in Elements /\ Tail(to_bridge) \in Seq(Elements)
    BY <1>7 DEF RecvChunk
  <2>2. Head(to_bridge).n \in Nat
    BY <2>1 DEF Elements
  <2>3. buffer' \in Data /\ got' \in 0..2
    BY <1>7, <2>2 DEF RecvChunk, Missing, Data
  <2> QED
    BY <1>7, <2>1, <2>3 DEF RecvChunk
<1>8. CASE SetBin
  <2>1. CASE mbr' = [mbr EXCEPT ![WriteAt(request)] = buffer]
    BY <1>8, <2>1 DEF SetBin
  <2>2. CASE \E data \in {mbr[WriteAt(request)],
                          [mbr[WriteAt(request)] EXCEPT ![1] = buffer[1]], buffer} :
               mbr' = [mbr EXCEPT ![WriteAt(request)] = data]
    <3>1. WriteAt(request) \in Blocks
      BY DEF WriteAt, Elements
    <3>2. mbr[WriteAt(request)] \in Data /\ [mbr[WriteAt(request)] EXCEPT ![1] = buffer[1]] \in Data
      BY <3>1 DEF Data
    <3>3. mbr' \in [Blocks -> Data]
      BY <2>2, <3>2
    <3> QED
      BY <1>8, <3>3 DEF SetBin
  <2> QED
    BY <1>8, <2>1, <2>2 DEF SetBin
<1>9. CASE Reply
  <2> DEFINE head == [type |-> "reply", n |-> handle, error |-> request.type = "disc", data |-> << >>]
             data == [type |-> "data", n |-> 0, error |-> FALSE, data |-> buffer]
  <2>1. head \in Messages /\ data \in Messages
    BY DEF Messages
  <2>2. to_kernel \o <<head, data>> \in Seq(Messages) /\ to_kernel \o <<head>> \in Seq(Messages)
    BY <2>1
  <2>3. to_kernel' \in Seq(Messages)
    BY <1>9, <2>2 DEF Reply
  <2> QED
    BY <1>9, <2>3 DEF Reply
<1>10. CASE PeerClosed \/ GivesUp
  BY <1>10 DEF PeerClosed, GivesUp, KernelEnds
<1>11. CASE Request
  BY <1>11 DEF Request, Requests, Elements, Types
<1>12. CASE SendChunk
  <2> DEFINE chunk == [n |-> Len(issued), type |-> "chunk", block |-> issued[Len(issued)].block]
  <2>0. issued # << >>
    BY <1>12 DEF SendChunk, Control
  <2>1. issued[Len(issued)] \in Requests
    BY <2>0
  <2>2. chunk \in Elements
    BY <2>1 DEF Requests, Elements
  <2>3. to_bridge' \in Seq(Elements) /\ unsent' \in 0..2
    <3>1. to_bridge' \in Seq(Elements)
      BY <1>12, <2>2 DEF SendChunk
    <3> QED
      BY <1>12, <3>1 DEF SendChunk
  <2> QED
    BY <1>12, <2>3 DEF SendChunk
<1>13. CASE TakeReply
  <2>1. Tail(to_kernel) \in Seq(Messages)
        /\ \A i \in 1..Len(to_kernel) + 1 : SubSeq(to_kernel, i, Len(to_kernel)) \in Seq(Messages)
    BY <1>13 DEF TakeReply
  <2>2. to_kernel # << >>
    BY <1>13 DEF TakeReply
  <2>3. CASE Waiting(to_kernel[1].n)
    <3> DEFINE read == issued[to_kernel[1].n].type = "read"
    <3>1. [n |-> to_kernel[1].n, data |-> IF read THEN to_kernel[2].data ELSE << >>] \in Taken
      BY <2>2, <2>3, FirstAnswer DEF Messages, Taken
    <3>2. replies' = Append(replies, [n |-> to_kernel[1].n,
                                      data |-> IF read THEN to_kernel[2].data ELSE << >>])
      BY <1>13, <2>2, <2>3, FirstAnswer DEF TakeReply
    <3>6. replies' \in Seq(Taken)
      BY <3>1, <3>2
    <3>3. to_kernel' = SubSeq(to_kernel, IF read THEN 3 ELSE 2, Len(to_kernel))
      BY <1>13, <2>2, <2>3, FirstAnswer DEF TakeReply
    <3>4. 1 \in DOMAIN to_kernel /\ (read => 2 \in DOMAIN to_kernel)
      BY <2>2, <2>3, FirstAnswer
    <3>5. to_kernel' \in Seq(Messages)
      BY <2>1, <3>3, <3>4
    <3> QED
      BY <1>13, <2>2, <2>3, <3>5, <3>6, FirstAnswer DEF TakeReply
  <2>4. CASE ~Waiting(to_kernel[1].n)
    <3>1. to_kernel' = Tail(to_kernel) /\ KernelEnds
      BY <1>13, <2>2, <2>4, FirstAnswer DEF TakeReply
    <3> QED
      BY <2>1, <3>1 DEF KernelEnds
  <2> QED
    BY <2>3, <2>4
<1>14. CASE Signal
  BY <1>14 DEF Signal
<1>15. CASE UNCHANGED vars
  BY <1>15 DEF vars
<1> QED
  BY <1>1, <1>2, <1>3, <1>4, <1>5, <1>6, <1>7, <1>8, <1>9, <1>10, <1>11, <1>12, <1>13, <1>14, <1>15
  DEF Next, Main, Thread, Kernel

LEMMA ControlStep == IInv /\ [Next]_vars => Control'
<1> SUFFICES ASSUME IInv, [Next]_vars PROVE Control'
  OBVIOUS
<1>0. TypeOK /\ Control
  BY DEF IInv
<1> USE <1>0 DEF TypeOK, Control, Leave, Go, server, proc, kernel, pipe
<1>1. CASE Main
  BY <1>1 DEF Main, Setup, ClearSock, Login, Stop, NextRequest, EndOfFile, GetBin, RecvChunk,
              RecvDone, SetBin, Reply, Cleanup, Join
<1>2. CASE Thread
  BY <1>2 DEF Thread, SetSock, DoIt, PeerClosed, KernelEnds
<1>3. CASE TakeReply \/ GivesUp
  BY <1>3 DEF TakeReply, GivesUp, KernelEnds
<1>6. CASE Request
  <2>1. PICK t \in {"read", "write", "disc"}, b \in Blocks :
          /\ issued' = Append(issued, [n |-> Len(issued) + 1, type |-> t, block |-> b])
          /\ unsent' = IF t = "write" THEN 2 ELSE 0
    BY <1>6 DEF Request
  <2>2. Len(issued') = Len(issued) + 1 /\ issued'[Len(issued) + 1].type = t
    BY <2>1
  <2>3. nbd = "serving" /\ UNCHANGED <<nbd, kthread, pc, closed, interrupted, sig>>
    BY <1>6 DEF Request
  <2> QED
    BY <2>1, <2>2, <2>3
<1>7. CASE SendChunk
  BY <1>7 DEF SendChunk
<1>4. CASE Signal
  BY <1>4 DEF Signal
<1>5. CASE UNCHANGED vars
  BY <1>5 DEF vars
<1> QED
  BY <1>1, <1>2, <1>3, <1>4, <1>5, <1>6, <1>7 DEF Next, Kernel

LEMMA NumberedStep == IInv /\ [Next]_vars => Numbered'
<1> SUFFICES ASSUME IInv, [Next]_vars PROVE Numbered'
  OBVIOUS
<1>0. TypeOK /\ Numbered
  BY DEF IInv
<1>1. CASE Request
  BY <1>0, <1>1 DEF Request, Numbered, TypeOK
<1>2. CASE UNCHANGED issued
  BY <1>0, <1>2 DEF Numbered
<1> QED
  BY <1>1, <1>2 DEF Next, Main, Thread, Kernel, Setup, ClearSock, Login, Stop, NextRequest,
     GetBin, RecvChunk, RecvDone, SetBin, Reply, Cleanup, Join, SetSock, DoIt, PeerClosed,
     GivesUp, KernelEnds, SendChunk, TakeReply, Signal, server, proc, kernel, pipe, vars

-----------------------------------------------------------------------------
\* The pipe to the program.

LEMMA PipeRests ==
  ASSUME IInv, UNCHANGED <<to_bridge, issued, request, got>>,
         unsent' \in {unsent, 0},
         nbd' = "serving" => issued = << >> \/ (nbd = "serving" /\ unsent' = unsent),
         Alive' => Alive,
         Alive' /\ request.n = 0 => pc' \in {"setup", "created", "login", "select"},
         pc' \in {"setup", "created", "login"} => pc \in {"setup", "created", "login"},
         pc' = "payload" => pc = "payload"
  PROVE  Pipe'
<1>0. TypeOK /\ Pipe
  BY DEF IInv
<1>1. issued = << >> => to_bridge = << >>
  BY <1>0 DEF TypeOK, Pipe, Elementwise
<1>2. Elementwise' /\ Ordered' /\ (Alive' => Later' /\ NoneLost')
  BY <1>0 DEF Pipe, Elementwise, Ordered, Later, NoneLost
<1>3. ASSUME NEW i \in Int, NEW n, DataBehind(i, n), issued # << >>
      PROVE  DataBehind(i, n)'
  BY <1>0, <1>3 DEF DataBehind, TypeOK
<1>4. ASSUME NEW i \in DOMAIN to_bridge', to_bridge'[i].type = "write"
      PROVE  DataBehind(i, to_bridge[i].n)'
  <2>1. i \in DOMAIN to_bridge /\ to_bridge[i].type = "write" /\ issued # << >> /\ i \in Int
    BY <1>0, <1>1, <1>4 DEF TypeOK
  <2>2. DataBehind(i, to_bridge[i].n)
    BY <1>0, <2>1 DEF Pipe
  <2> QED
    BY <1>3, <2>1, <2>2
<1>5. ASSUME pc' = "payload" PROVE DataBehind(0 - got, request.n)'
  <2>1. pc = "payload" /\ request.n > 0 /\ issued # << >>
    BY <1>0, <1>5 DEF Pipe, Alive, TypeOK, Elements
  <2>2. DataBehind(0 - got, request.n) /\ 0 - got \in Int
    BY <1>0, <2>1 DEF Pipe, Alive, TypeOK
  <2> QED
    BY <1>3, <2>1, <2>2
<1> QED
  BY <1>0, <1>2, <1>4, <1>5 DEF Pipe

LEMMA TailShifts ==
  ASSUME TypeOK, to_bridge # << >>, to_bridge' = Tail(to_bridge)
  PROVE  /\ Len(to_bridge') = Len(to_bridge) - 1
         /\ DOMAIN to_bridge' = 1..(Len(to_bridge) - 1)
         /\ \A i \in DOMAIN to_bridge' : i + 1 \in DOMAIN to_bridge /\ to_bridge'[i] = to_bridge[i + 1]
         /\ 1 \in DOMAIN to_bridge /\ to_bridge[1] = Head(to_bridge) /\ to_bridge[1] \in Elements
         /\ \A i \in DOMAIN to_bridge : i # 1 => i - 1 \in DOMAIN to_bridge' /\ to_bridge'[i - 1] = to_bridge[i]
BY DEF TypeOK

LEMMA BehindShifts ==
  ASSUME TypeOK, to_bridge # << >>, to_bridge' = Tail(to_bridge), UNCHANGED <<issued, nbd, unsent>>,
         NEW i \in Int, NEW n, DataBehind(i, n)
  PROVE  DataBehind(i - 1, n)'
<1>1. \A k \in DOMAIN to_bridge' :
        k > i - 1 => IF k <= i - 1 + 2 THEN to_bridge'[k].n = n /\ to_bridge'[k].type = "chunk"
                     ELSE to_bridge'[k].n > n
  <2> SUFFICES ASSUME NEW k \in DOMAIN to_bridge', k > i - 1
               PROVE  IF k <= i - 1 + 2 THEN to_bridge'[k].n = n /\ to_bridge'[k].type = "chunk"
                      ELSE to_bridge'[k].n > n
    OBVIOUS
  <2>1. k \in Int /\ k + 1 \in DOMAIN to_bridge /\ to_bridge'[k] = to_bridge[k + 1]
    BY TailShifts
  <2>2. k + 1 > i /\ (k <= i - 1 + 2 <=> k + 1 <= i + 2)
    BY <2>1
  <2>3. IF k + 1 <= i + 2 THEN to_bridge[k + 1].n = n /\ to_bridge[k + 1].type = "chunk"
        ELSE to_bridge[k + 1].n > n
    BY <2>1, <2>2 DEF DataBehind
  <2> QED
    BY <2>1, <2>2, <2>3
<1>2. Len(to_bridge') = Len(to_bridge) - 1 /\ Len(to_bridge) \in Int /\ unsent \in Int /\ Len(issued) \in Int
  BY TailShifts DEF TypeOK
<1> QED
  BY <1>1, <1>2 DEF DataBehind

LEMMA TailKeeps ==
  ASSUME TypeOK, Elementwise, Ordered, to_bridge # << >>, to_bridge' = Tail(to_bridge),
         UNCHANGED <<issued, nbd, unsent>>,
         \A i \in DOMAIN to_bridge : to_bridge[i].type = "write" => DataBehind(i, to_bridge[i].n)
  PROVE  /\ Elementwise' /\ Ordered'
         /\ \A i \in DOMAIN to_bridge' : to_bridge'[i].type = "write" => DataBehind(i, to_bridge[i].n)'
<1>1. Elementwise'
  BY TailShifts DEF Elementwise
<1>2. Ordered'
  <2> SUFFICES ASSUME NEW i \in DOMAIN to_bridge', NEW j \in DOMAIN to_bridge', i < j
               PROVE  /\ to_bridge'[i].n <= to_bridge'[j].n
                      /\ to_bridge'[j].type # "chunk" => to_bridge'[i].n < to_bridge'[j].n
    BY DEF Ordered
  <2>1. i + 1 \in DOMAIN to_bridge /\ j + 1 \in DOMAIN to_bridge /\ i + 1 < j + 1
        /\ to_bridge'[i] = to_bridge[i + 1] /\ to_bridge'[j] = to_bridge[j + 1]
    BY TailShifts
  <2> QED
    BY <2>1 DEF Ordered
<1>3. ASSUME NEW i \in DOMAIN to_bridge', to_bridge'[i].type = "write"
      PROVE  DataBehind(i, to_bridge[i].n)'
  <2>1. i \in Int /\ i + 1 \in DOMAIN to_bridge /\ to_bridge'[i] = to_bridge[i + 1]
    BY TailShifts
  <2>2. DataBehind(i + 1, to_bridge[i + 1].n)
    BY <1>3, <2>1
  <2> DEFINE n == to_bridge[i + 1].n
  <2>3. PICK m : m = n
    OBVIOUS
  <2>4. DataBehind(i + 1, m)
    BY <2>2, <2>3
  <2>5. DataBehind((i + 1) - 1, m)'
    BY <2>1, <2>4, BehindShifts
  <2>6. DataBehind(i, m)'
    BY <2>1, <2>5
  <2> QED
    BY <2>1, <2>3, <2>6 DEF DataBehind
<1> QED
  BY <1>1, <1>2, <1>3

LEMMA PipeNextRequest == IInv /\ NextRequest => Pipe'
<1> SUFFICES ASSUME IInv, NextRequest PROVE Pipe'
  OBVIOUS
<1>0. TypeOK /\ Pipe /\ pc = "select" /\ Alive /\ UNCHANGED <<issued, nbd, unsent>>
  BY DEF IInv, NextRequest, Alive, kernel
<1>1. CASE to_bridge = << >>
  <2>1. UNCHANGED <<to_bridge, issued, request, got, unsent, nbd>> /\ pc' = "cleanup"
    BY <1>1 DEF NextRequest, EndOfFile, Leave, server, pipe, kernel
  <2> QED
    BY <1>0, <2>1, PipeRests DEF Alive, TypeOK
<1>2. CASE to_bridge # << >>
  <2>1. /\ to_bridge' = Tail(to_bridge) /\ request' = Head(to_bridge) /\ got' = 0
        /\ pc' \in {"cleanup", "get", "payload", "reply"}
        /\ pc' # "cleanup" => Head(to_bridge).type # "chunk"
        /\ pc' = "payload" => Head(to_bridge).type = "write"
    BY <1>2 DEF NextRequest, Leave, Go
  <2>2. /\ Elementwise' /\ Ordered'
        /\ \A i \in DOMAIN to_bridge' : to_bridge'[i].type = "write" => DataBehind(i, to_bridge[i].n)'
    BY <1>0, <1>2, <2>1, TailKeeps DEF Pipe
  <2>3. ASSUME Alive'
        PROVE  /\ request'.n \in 1..Len(issued) /\ request' = issued[request'.n]
               /\ Later' /\ NoneLost'
    <3>1. request' = to_bridge[1] /\ 1 \in DOMAIN to_bridge /\ to_bridge[1] \in Elements
          /\ request'.type # "chunk"
      BY <1>0, <1>2, <2>1, <2>3, TailShifts DEF Alive
    <3>2. request'.n \in DOMAIN issued /\ request' = issued[request'.n] /\ request'.n > request.n
      BY <1>0, <3>1 DEF Pipe, Elementwise, Later
    <3>3. request'.n \in 1..Len(issued)
      BY <1>0, <3>2 DEF TypeOK
    <3>4. Later'
      <4> SUFFICES ASSUME NEW i \in DOMAIN to_bridge'
                   PROVE  /\ to_bridge'[i].n >= request'.n
                          /\ to_bridge'[i].type # "chunk" => to_bridge'[i].n > request'.n
        BY DEF Later
      <4>1. i + 1 \in DOMAIN to_bridge /\ to_bridge'[i] = to_bridge[i + 1] /\ 1 < i + 1
        BY <1>0, <1>2, <2>1, TailShifts
      <4>2. to_bridge[i + 1] \in Elements
        BY <1>0, <4>1 DEF TypeOK
      <4> QED
        BY <1>0, <3>1, <4>1, <4>2 DEF Pipe, Ordered, Elements
    <3>5. NoneLost'
      <4> SUFFICES ASSUME NEW m \in (request'.n + 1)..Len(issued)
                   PROVE  \E i \in DOMAIN to_bridge' : to_bridge'[i] = issued[m]
        BY <1>0 DEF NoneLost
      <4>1. m \in (request.n + 1)..Len(issued) /\ m # request'.n
        BY <1>0, <3>2, <3>3 DEF TypeOK, Elements
      <4>2. PICK i \in DOMAIN to_bridge : to_bridge[i] = issued[m]
        BY <1>0, <4>1 DEF Pipe, NoneLost
      <4>3. issued[m].n = m
        BY <1>0, <3>3, <4>1 DEF IInv, Numbered, TypeOK, Elements
      <4>4. i # 1
        BY <3>1, <4>1, <4>2, <4>3
      <4>5. i - 1 \in DOMAIN to_bridge' /\ to_bridge'[i - 1] = issued[m]
        BY <1>0, <1>2, <2>1, <4>2, <4>4, TailShifts
      <4> QED
        BY <4>5
    <3> QED
      BY <3>2, <3>3, <3>4, <3>5
  <2>4. ASSUME pc' = "payload" PROVE DataBehind(0 - got, request.n)'
    <3>1. to_bridge[1].type = "write" /\ request' = to_bridge[1] /\ 1 \in DOMAIN to_bridge
      BY <1>0, <1>2, <2>1, <2>4, TailShifts
    <3>2. PICK m : m = to_bridge[1].n
      OBVIOUS
    <3>3. DataBehind(1, m)
      BY <1>0, <3>1, <3>2 DEF Pipe
    <3>4. DataBehind(1 - 1, m)'
      BY <1>0, <1>2, <2>1, <3>3, BehindShifts
    <3>5. got' = 0
      BY <2>1
    <3>6. 0 - got' = 1 - 1
      BY <3>5
    <3>7. request'.n = m
      BY <3>1, <3>2
    <3> QED
      BY <3>4, <3>6, <3>7 DEF DataBehind
  <2>5. Alive' => request'.n # 0
    BY <1>0, <2>3 DEF TypeOK
  <2>6. pc' \notin {"setup", "created", "login"}
    BY <2>1
  <2> QED
    BY <1>0, <2>2, <2>3, <2>4, <2>5, <2>6 DEF Pipe
<1> QED
  BY <1>1, <1>2

LEMMA PipeRecvChunk == IInv /\ RecvChunk => Pipe'
<1> SUFFICES ASSUME IInv, RecvChunk PROVE Pipe'
  OBVIOUS
<1>0. /\ TypeOK /\ Pipe /\ pc = "payload" /\ Alive /\ to_bridge # << >> /\ got < 2
      /\ UNCHANGED <<issued, nbd, unsent, request, pc>>
      /\ to_bridge' = Tail(to_bridge) /\ got' = got + 1
  BY DEF IInv, RecvChunk, Alive, kernel, Missing
<1>1. /\ Elementwise' /\ Ordered'
      /\ \A i \in DOMAIN to_bridge' : to_bridge'[i].type = "write" => DataBehind(i, to_bridge[i].n)'
  BY <1>0, TailKeeps DEF Pipe
<1>2. DataBehind(0 - got, request.n) /\ got \in 0..1
  BY <1>0 DEF Pipe, TypeOK
<1>3. to_bridge[1].type = "chunk" /\ 1 \in DOMAIN to_bridge
  BY <1>0, <1>2, TailShifts DEF DataBehind
<1>4. DataBehind(0 - got, request.n)'
  <2>1. PICK m : m = request.n
    OBVIOUS
  <2>2. PICK i \in Int : i = 0 - got
    BY <1>2
  <2>3. DataBehind(i, m)
    BY <1>2, <2>1, <2>2
  <2>4. DataBehind(i - 1, m)'
    BY <1>0, <2>3, BehindShifts
  <2>5. 0 - got' = i - 1 /\ request'.n = m
    BY <1>0, <1>2, <2>1, <2>2
  <2> QED
    BY <2>4, <2>5 DEF DataBehind
<1>5. Later'
  BY <1>0, TailShifts DEF Pipe, Later
<1>6. NoneLost'
  <2> SUFFICES ASSUME NEW m \in (request.n + 1)..Len(issued)
               PROVE  \E i \in DOMAIN to_bridge' : to_bridge'[i] = issued[m]
    BY <1>0 DEF NoneLost
  <2>1. PICK i \in DOMAIN to_bridge : to_bridge[i] = issued[m]
    BY <1>0 DEF Pipe, NoneLost
  <2>2. m \in 1..Len(issued)
    BY <1>0 DEF Pipe, Alive
  <2>3. issued[m].type # "chunk"
    <3>1. issued[m] \in Requests
      BY <1>0, <2>2 DEF TypeOK
    <3> QED
      BY <3>1 DEF Requests, Types
  <2>4. i # 1
    BY <1>3, <2>1, <2>3
  <2>5. i - 1 \in DOMAIN to_bridge' /\ to_bridge'[i - 1] = issued[m]
    BY <1>0, <2>1, <2>4, TailShifts
  <2> QED
    BY <2>5
<1> QED
  BY <1>0, <1>1, <1>4, <1>5, <1>6 DEF Pipe, Alive

\* The kernel puts an element at the end.
LEMMA AppendKeeps ==
  ASSUME TypeOK, NEW e \in Elements, to_bridge' = Append(to_bridge, e)
  PROVE  /\ Len(to_bridge') = Len(to_bridge) + 1
         /\ DOMAIN to_bridge' = 1..(Len(to_bridge) + 1)
         /\ \A i \in DOMAIN to_bridge : i \in DOMAIN to_bridge' /\ to_bridge'[i] = to_bridge[i]
         /\ to_bridge'[Len(to_bridge) + 1] = e
         /\ \A i \in DOMAIN to_bridge' : i \in DOMAIN to_bridge \/ i = Len(to_bridge) + 1
BY DEF TypeOK

LEMMA ReplyKeeps ==
  ASSUME NEW S, NEW s \in Seq(S), NEW e
  PROVE  /\ \A i \in DOMAIN s : i \in DOMAIN Append(s, e) /\ Append(s, e)[i] = s[i]
         /\ Len(s) + 1 \in DOMAIN Append(s, e) /\ Append(s, e)[Len(s) + 1] = e
         /\ \A i \in DOMAIN Append(s, e) : i \in DOMAIN s \/ i = Len(s) + 1
         /\ \A i \in DOMAIN s : i < Len(s) + 1 /\ ~(Len(s) + 1 < i)
OBVIOUS

LEMMA RequestIssues ==
  ASSUME IInv, Request
  PROVE  /\ nbd = "serving" /\ unsent = 0 /\ ~closed
         /\ UNCHANGED <<pc, got, request, handle, sig, nbd, replies, to_kernel, buffer, mbr>>
         /\ Len(issued') = Len(issued) + 1
         /\ DOMAIN issued' = 1..(Len(issued) + 1) /\ DOMAIN issued = 1..Len(issued)
         /\ \A m \in DOMAIN issued : issued'[m] = issued[m]
         /\ issued'[Len(issued) + 1] \in Requests /\ issued'[Len(issued) + 1] \in Elements
         /\ issued'[Len(issued) + 1].n = Len(issued) + 1
         /\ to_bridge' = Append(to_bridge, issued'[Len(issued) + 1])
         /\ unsent' = IF issued'[Len(issued) + 1].type = "write" THEN 2 ELSE 0
<1>0. TypeOK
  BY DEF IInv
<1>1. /\ nbd = "serving" /\ unsent = 0 /\ ~closed
      /\ UNCHANGED <<pc, got, request, handle, sig, nbd, replies, to_kernel, buffer, mbr>>
  BY DEF Request, server, proc
<1>2. PICK t \in {"read", "write", "disc"}, b \in Blocks :
         LET r == [n |-> Len(issued) + 1, type |-> t, block |-> b] IN
         /\ issued' = Append(issued, r) /\ to_bridge' = Append(to_bridge, r)
         /\ unsent' = IF t = "write" THEN 2 ELSE 0
  BY DEF Request
<1> DEFINE r == [n |-> Len(issued) + 1, type |-> t, block |-> b]
<1>3. r \in Requests /\ r \in Elements
  BY <1>0 DEF TypeOK, Requests, Elements, Types
<1>4. issued \in Seq(Requests) /\ issued' = Append(issued, r)
  BY <1>0, <1>2 DEF TypeOK
<1>5. /\ Len(issued') = Len(issued) + 1
      /\ DOMAIN issued' = 1..(Len(issued) + 1) /\ DOMAIN issued = 1..Len(issued)
      /\ \A m \in DOMAIN issued : issued'[m] = issued[m]
      /\ issued'[Len(issued) + 1] = r
  BY <1>3, <1>4
<1> QED
  BY <1>1, <1>2, <1>3, <1>5

LEMMA PipeRequest == IInv /\ Request => Pipe'
<1> SUFFICES ASSUME IInv, Request PROVE Pipe'
  OBVIOUS
<1>0. TypeOK /\ Pipe /\ Control
  BY DEF IInv
<1> DEFINE r == issued'[Len(issued) + 1]
<1>1. /\ nbd = "serving" /\ unsent = 0
      /\ UNCHANGED <<pc, got, request, nbd>>
      /\ Len(issued') = Len(issued) + 1 /\ Len(issued) \in Nat
      /\ DOMAIN issued' = 1..(Len(issued) + 1) /\ DOMAIN issued = 1..Len(issued)
      /\ \A m \in DOMAIN issued : issued'[m] = issued[m]
      /\ r \in Requests /\ r \in Elements /\ r.n = Len(issued) + 1
      /\ to_bridge' = Append(to_bridge, r)
      /\ unsent' = IF r.type = "write" THEN 2 ELSE 0
  BY <1>0, RequestIssues DEF TypeOK
<1>2. /\ Len(to_bridge') = Len(to_bridge) + 1 /\ Len(to_bridge) \in Nat
      /\ DOMAIN to_bridge' = 1..(Len(to_bridge) + 1)
      /\ \A i \in DOMAIN to_bridge : i \in DOMAIN to_bridge' /\ to_bridge'[i] = to_bridge[i]
      /\ to_bridge'[Len(to_bridge) + 1] = r
      /\ \A i \in DOMAIN to_bridge' : i \in DOMAIN to_bridge \/ i = Len(to_bridge) + 1
  BY <1>0, <1>1, AppendKeeps DEF TypeOK
<1>3. \A i \in DOMAIN to_bridge : to_bridge[i].n \in 1..Len(issued)
  BY <1>0, <1>1 DEF Pipe, Elementwise
<1>4. r.type # "chunk"
  BY <1>1 DEF Requests, Types
<1>5. Elementwise'
  BY <1>0, <1>1, <1>2, <1>3, <1>4 DEF Pipe, Elementwise
<1>6. Ordered'
  BY <1>0, <1>1, <1>2, <1>3 DEF Pipe, Ordered
<1>7. ASSUME NEW i \in Int, NEW n \in 1..Len(issued), DataBehind(i, n)
      PROVE  DataBehind(i, n)'
  <2>1. Len(to_bridge) - i >= 2
    <3>1. Len(to_bridge) - i + (IF n = Len(issued) THEN unsent ELSE 0) >= 2
      BY <1>1, <1>7 DEF DataBehind
    <3>2. Len(to_bridge) \in Nat /\ unsent = 0
      BY <1>1, <1>2
    <3> QED BY <3>1, <3>2
  <2>2. ASSUME NEW k \in DOMAIN to_bridge', k > i
        PROVE  IF k <= i + 2 THEN to_bridge'[k].n = n /\ to_bridge'[k].type = "chunk"
               ELSE to_bridge'[k].n > n
    <3>1. CASE k \in DOMAIN to_bridge
      BY <1>2, <1>7, <2>2, <3>1 DEF DataBehind
    <3>2. CASE k = Len(to_bridge) + 1
      BY <1>1, <1>2, <1>7, <2>1, <3>2
    <3> QED
      BY <1>2, <3>1, <3>2
  <2>3. Len(to_bridge') - i >= 2 /\ n # Len(issued')
    BY <1>1, <1>2, <2>1
  <2> QED
    BY <2>2, <2>3 DEF DataBehind
<1>8. ASSUME NEW i \in DOMAIN to_bridge', to_bridge'[i].type = "write"
      PROVE  DataBehind(i, to_bridge[i].n)'
  <2>1. CASE i \in DOMAIN to_bridge
    <3>1. PICK n \in 1..Len(issued) : n = to_bridge[i].n
      BY <1>3, <2>1
    <3>2. DataBehind(i, n) /\ i \in Int
      BY <1>0, <1>2, <1>8, <2>1, <3>1 DEF Pipe
    <3>3. DataBehind(i, n)'
      BY <1>7, <3>2
    <3> QED
      BY <1>2, <2>1, <3>1, <3>3 DEF DataBehind
  <2>2. CASE i = Len(to_bridge) + 1
    <3>1. unsent' = 2 /\ to_bridge'[i].n = Len(issued')
      BY <1>1, <1>2, <1>8, <2>2
    <3>2. \A k \in DOMAIN to_bridge' : ~(k > i)
      BY <1>2, <2>2
    <3>3. Len(to_bridge') - i + 2 = 2
      BY <1>2, <2>2
    <3> QED
      BY <3>1, <3>2, <3>3 DEF DataBehind
  <2> QED
    BY <1>2, <2>1, <2>2
<1>9. ASSUME Alive
      PROVE  /\ request'.n \in 0..Len(issued') /\ Later' /\ NoneLost'
             /\ request'.n > 0 => request' = issued'[request'.n]
             /\ request'.n = 0 => request'.type = "none" /\ pc' \in {"setup", "created", "login", "select"}
             /\ pc' \in {"setup", "created", "login"} => request'.n = 0
             /\ pc' = "payload" => DataBehind(0 - got, request.n)'
  <2>1. request.n \in 0..Len(issued) /\ Later /\ NoneLost
    BY <1>0, <1>9 DEF Pipe
  <2>2. Later'
    BY <1>1, <1>2, <2>1 DEF Later
  <2>3. NoneLost'
    <3> SUFFICES ASSUME NEW m \in (request'.n + 1)..Len(issued')
                 PROVE  \E i \in DOMAIN to_bridge' : to_bridge'[i] = issued'[m]
      BY DEF NoneLost
    <3>1. CASE m = Len(issued) + 1
      BY <1>2, <3>1
    <3>2. CASE m \in (request.n + 1)..Len(issued)
      <4>1. PICK i \in DOMAIN to_bridge : to_bridge[i] = issued[m]
        BY <2>1, <3>2 DEF NoneLost
      <4>2. m \in DOMAIN issued
        BY <1>1, <2>1, <3>2
      <4> QED
        BY <1>1, <1>2, <4>1, <4>2
    <3> QED
      BY <1>1, <2>1, <3>1, <3>2
  <2>4. request'.n > 0 => request' = issued'[request'.n]
    BY <1>0, <1>1, <1>9, <2>1 DEF Pipe
  <2>5. /\ request'.n = 0 => request'.type = "none" /\ pc' \in {"setup", "created", "login", "select"}
        /\ pc' \in {"setup", "created", "login"} => request'.n = 0
    BY <1>0, <1>1, <1>9 DEF Pipe
  <2>6. ASSUME pc' = "payload" PROVE DataBehind(0 - got, request.n)'
    <3>1. PICK n \in 1..Len(issued) : n = request.n
      BY <1>0, <1>1, <1>9, <2>1, <2>6 DEF Pipe
    <3>2. PICK i \in Int : i = 0 - got
      BY <1>0 DEF TypeOK
    <3>3. DataBehind(i, n)
      BY <1>0, <1>1, <1>9, <2>6, <3>1, <3>2 DEF Pipe
    <3>4. DataBehind(i, n)'
      BY <1>7, <3>3
    <3>5. 0 - got' = i /\ request'.n = n
      BY <1>1, <3>1, <3>2
    <3> QED
      BY <3>4, <3>5 DEF DataBehind
  <2> QED
    BY <1>1, <2>1, <2>2, <2>3, <2>4, <2>5, <2>6
<1>10. Alive' => Alive
  BY <1>1 DEF Alive
<1> QED
  BY <1>5, <1>6, <1>8, <1>9, <1>10 DEF Pipe

LEMMA PipeSendChunk == IInv /\ SendChunk => Pipe'
<1> SUFFICES ASSUME IInv, SendChunk PROVE Pipe'
  OBVIOUS
<1>0. TypeOK /\ Pipe /\ Control
  BY DEF IInv
<1> DEFINE c == [n |-> Len(issued), type |-> "chunk", block |-> issued[Len(issued)].block]
<1>1. /\ nbd = "serving" /\ unsent > 0 /\ unsent' = unsent - 1 /\ unsent \in 0..2
      /\ UNCHANGED <<pc, got, request, nbd, issued>>
      /\ to_bridge' = Append(to_bridge, c)
  BY <1>0 DEF SendChunk, server, TypeOK
<1>2. /\ issued # << >> /\ issued[Len(issued)].type = "write" /\ Len(issued) \in DOMAIN issued
      /\ issued[Len(issued)] \in Requests /\ Len(issued) \in Nat /\ DOMAIN issued = 1..Len(issued)
  BY <1>0, <1>1 DEF Control, TypeOK
<1>3. c \in Elements
  BY <1>2 DEF Requests, Elements
<1>4. /\ Len(to_bridge') = Len(to_bridge) + 1 /\ Len(to_bridge) \in Nat
      /\ DOMAIN to_bridge' = 1..(Len(to_bridge) + 1)
      /\ \A i \in DOMAIN to_bridge : i \in DOMAIN to_bridge' /\ to_bridge'[i] = to_bridge[i]
      /\ to_bridge'[Len(to_bridge) + 1] = c
      /\ \A i \in DOMAIN to_bridge' : i \in DOMAIN to_bridge \/ i = Len(to_bridge) + 1
  BY <1>0, <1>1, <1>3, AppendKeeps DEF TypeOK
<1>5. \A i \in DOMAIN to_bridge : to_bridge[i].n \in 1..Len(issued)
  BY <1>0, <1>2 DEF Pipe, Elementwise
<1>6. Elementwise'
  BY <1>0, <1>1, <1>2, <1>4 DEF Pipe, Elementwise
<1>7. Ordered'
  BY <1>0, <1>1, <1>2, <1>4, <1>5 DEF Pipe, Ordered
<1>8. ASSUME NEW i \in Int, NEW n \in 1..Len(issued), DataBehind(i, n)
      PROVE  DataBehind(i, n)'
  <2>1. Len(to_bridge) - i + (IF n = Len(issued) THEN unsent ELSE 0) >= 2
        /\ (n = Len(issued) => Len(to_bridge) - i + unsent <= 2)
    BY <1>1, <1>8 DEF DataBehind
  <2>2. ASSUME NEW k \in DOMAIN to_bridge', k > i
        PROVE  IF k <= i + 2 THEN to_bridge'[k].n = n /\ to_bridge'[k].type = "chunk"
               ELSE to_bridge'[k].n > n
    <3>1. CASE k \in DOMAIN to_bridge
      BY <1>4, <1>8, <2>2, <3>1 DEF DataBehind
    <3>2. CASE k = Len(to_bridge) + 1 /\ n = Len(issued)
      BY <1>1, <1>4, <1>8, <2>1, <3>2
    <3>3. CASE k = Len(to_bridge) + 1 /\ n # Len(issued)
      <4>1. k > i + 2
        BY <1>4, <2>1, <3>3
      <4>2. to_bridge'[k].n = Len(issued)
        BY <1>4, <3>3
      <4>3. Len(issued) > n
        <5>1. Len(issued) \in Nat /\ n \in 1..Len(issued) /\ n # Len(issued)
          BY <1>2, <1>8, <3>3
        <5> QED
          BY <5>1
      <4> QED
        BY <1>4, <4>1, <4>2, <4>3
    <3> QED
      BY <1>4, <3>1, <3>2, <3>3
  <2>3. Len(to_bridge') - i + (IF n = Len(issued') THEN unsent' ELSE 0) >= 2
        /\ (n = Len(issued') => Len(to_bridge') - i + unsent' <= 2)
    BY <1>1, <1>4, <2>1
  <2> QED
    BY <2>2, <2>3 DEF DataBehind
<1>9. ASSUME NEW i \in DOMAIN to_bridge', to_bridge'[i].type = "write"
      PROVE  DataBehind(i, to_bridge[i].n)'
  <2>1. i \in DOMAIN to_bridge
    BY <1>4, <1>9
  <2>2. PICK n \in 1..Len(issued) : n = to_bridge[i].n
    BY <1>5, <2>1
  <2>3. DataBehind(i, n) /\ i \in Int
    BY <1>0, <1>4, <1>9, <2>1, <2>2 DEF Pipe
  <2>4. DataBehind(i, n)'
    BY <1>8, <2>3
  <2> QED
    BY <1>4, <2>1, <2>2, <2>4 DEF DataBehind
<1>10. ASSUME Alive
       PROVE  Later' /\ NoneLost' /\ (pc' = "payload" => DataBehind(0 - got, request.n)')
  <2>1. request.n \in 0..Len(issued) /\ Later /\ NoneLost
    BY <1>0, <1>10 DEF Pipe
  <2>2. Later'
    BY <1>1, <1>2, <1>4, <2>1 DEF Later
  <2>3. NoneLost'
    BY <1>1, <1>4, <2>1 DEF NoneLost
  <2>4. ASSUME pc' = "payload" PROVE DataBehind(0 - got, request.n)'
    <3>1. PICK n \in 1..Len(issued) : n = request.n
      BY <1>0, <1>1, <1>2, <1>10, <2>1, <2>4 DEF Pipe
    <3>2. PICK i \in Int : i = 0 - got
      BY <1>0 DEF TypeOK
    <3>3. DataBehind(i, n)
      BY <1>0, <1>1, <1>10, <2>4, <3>1, <3>2 DEF Pipe
    <3>4. DataBehind(i, n)'
      BY <1>8, <3>3
    <3>5. 0 - got' = i /\ request'.n = n
      BY <1>1, <3>1, <3>2
    <3> QED
      BY <3>4, <3>5 DEF DataBehind
  <2> QED
    BY <2>2, <2>3, <2>4
<1>11. Alive' = Alive
  BY <1>1 DEF Alive
<1> QED
  BY <1>0, <1>1, <1>6, <1>7, <1>9, <1>10, <1>11 DEF Pipe

LEMMA PipeStep == IInv /\ [Next]_vars => Pipe'
<1> SUFFICES ASSUME IInv, [Next]_vars PROVE Pipe'
  OBVIOUS
<1>0. TypeOK /\ Control /\ Pipe
  BY DEF IInv
<1>1. CASE Setup \/ ClearSock \/ Login \/ Stop
  BY <1>0, <1>1, PipeRests
  DEF Setup, ClearSock, Login, Stop, Leave, Go, server, kernel, pipe, Alive
<1>2. CASE GetBin \/ RecvDone \/ SetBin \/ Reply
  <2>1. /\ UNCHANGED <<to_bridge, issued, request, got, unsent, nbd>>
        /\ pc \in {"get", "payload", "put", "reply"}
        /\ pc' \in {"put", "reply", "cleanup", "select"}
    BY <1>2 DEF GetBin, RecvDone, SetBin, Reply, Leave, Go, server, kernel, pipe
  <2>2. request.n # 0
    BY <1>0, <2>1 DEF Pipe, Alive
  <2> QED
    BY <2>1, <2>2, PipeRests DEF Alive
<1>3. CASE Cleanup \/ Join \/ UNCHANGED vars
  BY <1>0, <1>3, PipeRests
  DEF Cleanup, Join, Go, server, kernel, pipe, vars, Alive, Pipe
<1>4. CASE SetSock \/ DoIt
  BY <1>0, <1>4, PipeRests
  DEF SetSock, DoIt, server, pipe, Alive, Control, Pipe
<1>5. CASE PeerClosed \/ GivesUp \/ TakeReply
  <2>1. /\ UNCHANGED <<to_bridge, issued, request, got, pc>>
        /\ UNCHANGED <<unsent, nbd>> \/ (unsent' = 0 /\ nbd' = "ended")
    BY <1>5 DEF PeerClosed, GivesUp, TakeReply, KernelEnds, server
  <2> QED
    BY <1>0, <2>1, PipeRests DEF Alive, Pipe
<1>6. CASE Signal
  BY <1>0, <1>6, PipeRests DEF Signal, kernel, pipe, Alive, Pipe
<1> QED
  BY <1>1, <1>2, <1>3, <1>4, <1>5, <1>6, PipeNextRequest, PipeRecvChunk, PipeRequest, PipeSendChunk
  DEF Next, Main, Thread, Kernel

-----------------------------------------------------------------------------
\* The answers.

\* What is answered when nothing happens to the pipe to the kernel.
LEMMA AnswersRest ==
  ASSUME IInv, UNCHANGED <<to_kernel, replies>>,
         \A m \in DOMAIN issued : m \in DOMAIN issued' /\ issued'[m] = issued[m]
  PROVE  /\ \A n : Answered(n)' <=> Answered(n)
         /\ RepliesInOrder'
<1>0. TypeOK /\ Serving /\ RepliesInOrder
  BY DEF IInv
<1>1. \A n : Answered(n)' <=> Answered(n)
  BY DEF Answered, Answers
<1>2. ASSUME NEW n, Answered(n) PROVE n \in DOMAIN issued
  BY <1>0, <1>2 DEF Serving, Answered, Answers
<1>3. ASSUME NEW n \in DOMAIN issued', Answered(n)'
      PROVE  \A m \in 1..n : Answered(m)' <=> issued'[m].type # "disc"
  <2>1. Answered(n) /\ n \in DOMAIN issued
    BY <1>1, <1>2, <1>3
  <2>2. \A m \in 1..n : m \in DOMAIN issued
    BY <1>0, <2>1 DEF TypeOK
  <2> QED
    BY <1>0, <1>1, <2>1, <2>2 DEF RepliesInOrder
<1> QED
  BY <1>0, <1>1, <1>3 DEF RepliesInOrder, Answers

\* Nothing is answered or taken up, but the kernel may leave.
LEMMA ServingRests ==
  ASSUME IInv, UNCHANGED <<to_kernel, replies, request, handle, issued>>,
         Alive' => Alive,
         Alive' => Answering' = Answering,
         InHand' => InHand,
         pc' = "get" => pc = "get",
         pc' \in {"payload", "put"} => pc \in {"payload", "put"},
         nbd' # "ended" => nbd # "ended"
  PROVE  Serving' /\ RepliesInOrder'
<1>0. TypeOK /\ Serving
  BY DEF IInv
<1>1. (\A n : Answered(n)' <=> Answered(n)) /\ RepliesInOrder'
  BY AnswersRest
<1>2. Alive' => /\ \A n \in DOMAIN issued : Answered(n)' => n <= Answering'
                /\ nbd' # "ended" =>
                     \A n \in 1..Answering' : issued[n].type # "disc" => Answered(n)'
  BY <1>0, <1>1 DEF Serving
<1> QED
  BY <1>0, <1>1, <1>2 DEF Serving

\* The next request is the one after the last.
LEMMA NextInLine ==
  ASSUME IInv, NextRequest, Alive'
  PROVE  /\ request'.n = request.n + 1 /\ request'.n \in 1..Len(issued)
         /\ request' = issued[request'.n]
         /\ handle' = request'.n
         /\ \/ request'.type = "read" /\ pc' = "get"
            \/ request'.type = "write" /\ pc' = "payload"
            \/ request'.type = "disc" /\ pc' = "reply"
<1>0. TypeOK /\ Pipe /\ Numbered /\ pc = "select" /\ Alive /\ UNCHANGED issued
  BY DEF IInv, NextRequest, Alive, kernel
<1>1. to_bridge # << >>
  BY DEF NextRequest, EndOfFile, Leave, Alive
<1>2. /\ request' = Head(to_bridge) /\ handle' = Head(to_bridge).n
      /\ Head(to_bridge).type # "chunk"
      /\ pc' = CASE request'.type = "read"  -> "get"
                 [] request'.type = "write" -> "payload"
                 [] OTHER                   -> "reply"
  BY <1>1 DEF NextRequest, Leave, Go, HandleOf, Alive
<1>3. request' = to_bridge[1] /\ 1 \in DOMAIN to_bridge /\ request' \in Elements
  BY <1>0, <1>1, <1>2 DEF TypeOK
<1>4. request'.n \in 1..Len(issued) /\ request' = issued[request'.n] /\ request'.n > request.n
  BY <1>0, <1>2, <1>3 DEF Pipe, Elementwise, Later, TypeOK
<1>5. request'.type \in Types
  <2>1. issued[request'.n] \in Requests
    BY <1>0, <1>4 DEF TypeOK
  <2> QED
    BY <1>4, <2>1 DEF Requests
<1>6. request'.n = request.n + 1
  <2> SUFFICES ASSUME request'.n # request.n + 1 PROVE FALSE
    OBVIOUS
  <2>1. request.n \in Nat /\ request.n + 1 < request'.n
    BY <1>0, <1>4 DEF TypeOK, Elements
  <2>2. request.n + 1 \in (request.n + 1)..Len(issued) /\ request.n + 1 \in DOMAIN issued
    BY <1>0, <1>4, <2>1 DEF TypeOK
  <2>3. PICK i \in DOMAIN to_bridge : to_bridge[i] = issued[request.n + 1]
    BY <1>0, <2>2 DEF Pipe, NoneLost
  <2>4. to_bridge[i].n = request.n + 1 /\ i >= 1
    BY <1>0, <2>2, <2>3 DEF Numbered, TypeOK
  <2>5. i = 1 \/ to_bridge[1].n <= to_bridge[i].n
    <3>1. i = 1 \/ 1 < i
      BY <1>0, <2>4 DEF TypeOK
    <3> QED
      BY <1>0, <1>3, <3>1 DEF Pipe, Ordered
  <2> QED
    BY <1>3, <1>4, <2>1, <2>4, <2>5
<1> QED
  BY <1>2, <1>4, <1>5, <1>6 DEF Types

LEMMA ServingNextRequest == IInv /\ NextRequest => Serving' /\ RepliesInOrder'
<1> SUFFICES ASSUME IInv, NextRequest PROVE Serving' /\ RepliesInOrder'
  OBVIOUS
<1>0. TypeOK /\ Serving /\ Pipe /\ pc = "select" /\ UNCHANGED <<to_kernel, replies, issued, nbd>>
  BY DEF IInv, NextRequest, pipe, kernel
<1>1. (\A n : Answered(n)' <=> Answered(n)) /\ RepliesInOrder'
  BY <1>0, AnswersRest
<1>2. ASSUME Alive'
      PROVE  /\ handle' = request'.n /\ InHand'
             /\ pc' = "get" => request'.type = "read"
             /\ pc' \in {"payload", "put"} => request'.type = "write"
             /\ Answering' = Answering /\ Alive
  <2>1. pc' \in {"get", "payload", "reply"}
        /\ (pc' = "get" => request'.type = "read") /\ (pc' = "payload" => request'.type = "write")
    BY <1>2, NextInLine DEF Types
  <2>2. Answering' = Answering
    BY <1>0, <1>2, <2>1, NextInLine DEF Answering, InHand, TypeOK, Elements
  <2> QED
    BY <1>0, <1>2, <2>1, <2>2, NextInLine DEF InHand, Alive
<1>3. ~Alive' => ~InHand' /\ pc' \notin {"get", "payload", "put"}
  BY DEF Alive, InHand
<1> QED
  BY <1>0, <1>1, <1>2, <1>3 DEF Serving

LEMMA ServingRequest == IInv /\ Request => Serving' /\ RepliesInOrder'
<1> SUFFICES ASSUME IInv, Request PROVE Serving' /\ RepliesInOrder'
  OBVIOUS
<1>0. TypeOK /\ Serving /\ Pipe
  BY DEF IInv
<1>1. /\ UNCHANGED <<pc, request, handle, nbd, replies, to_kernel>>
      /\ \A m \in DOMAIN issued : m \in DOMAIN issued' /\ issued'[m] = issued[m]
  BY RequestIssues, <1>0 DEF TypeOK
<1>2. (\A n : Answered(n)' <=> Answered(n)) /\ RepliesInOrder'
  BY <1>1, AnswersRest
<1>3. (Alive' <=> Alive) /\ (InHand' <=> InHand) /\ Answering' = Answering
  BY <1>1 DEF Alive, InHand, Answering
<1>4. ASSUME Alive'
      PROVE  /\ \A n \in DOMAIN issued' : Answered(n)' => n <= Answering'
             /\ nbd' # "ended" =>
                  \A n \in 1..Answering' : issued'[n].type # "disc" => Answered(n)'
  <2>1. \A n : Answered(n) => n \in DOMAIN issued
    BY <1>0 DEF Serving, Answered, Answers
  <2>2. 1..Answering \subseteq DOMAIN issued
    BY <1>0, <1>3, <1>4 DEF Pipe, TypeOK, Answering
  <2> QED
    BY <1>0, <1>1, <1>2, <1>3, <1>4, <2>1, <2>2 DEF Serving
<1>5. /\ \A i \in DOMAIN replies : replies[i].n \in DOMAIN issued'
      /\ \A i \in DOMAIN to_kernel :
           to_kernel[i].type = "reply" =>
               /\ to_kernel[i].n \in DOMAIN issued'
               /\ to_kernel[i].error = (issued'[to_kernel[i].n].type = "disc")
  BY <1>0, <1>1 DEF Serving
<1> QED
  <2>1. /\ InHand' => handle' = request'.n
        /\ pc' = "get" => request'.type = "read"
        /\ pc' \in {"payload", "put"} => request'.type = "write"
        /\ \A i \in DOMAIN to_kernel : to_kernel[i].type = "data" => to_kernel[i].n = 0
    BY <1>0, <1>1, <1>3 DEF Serving
  <2> QED
    BY <1>1, <1>2, <1>4, <1>5, <2>1 DEF Serving

LEMMA AnsweredIsRequest ==
  ASSUME IInv, NEW n, Answered(n)
  PROVE  n \in DOMAIN issued /\ issued[n].type # "disc" /\ (Alive => n <= Answering)
<1>0. TypeOK /\ Serving /\ RepliesInOrder
  BY DEF IInv
<1>1. n \in DOMAIN issued
  BY <1>0 DEF Serving, Answered, Answers
<1>2. n \in 1..n
  BY <1>0, <1>1 DEF TypeOK
<1> QED
  BY <1>0, <1>1, <1>2 DEF Serving, RepliesInOrder

\* The answer to the request in hand.
LEMMA Replying ==
  ASSUME IInv, Reply, nbd # "ended"
  PROVE  /\ request.n \in 1..Len(issued) /\ request = issued[request.n] /\ handle = request.n
         /\ Len(to_kernel') = Len(to_kernel) + (IF request.type = "read" THEN 2 ELSE 1)
         /\ Len(to_kernel) \in Nat /\ DOMAIN to_kernel = 1..Len(to_kernel)
         /\ DOMAIN to_kernel' = 1..Len(to_kernel')
         /\ \A i \in DOMAIN to_kernel : i \in DOMAIN to_kernel' /\ to_kernel'[i] = to_kernel[i]
         /\ to_kernel'[Len(to_kernel) + 1].type = "reply"
         /\ to_kernel'[Len(to_kernel) + 1].n = request.n
         /\ to_kernel'[Len(to_kernel) + 1].error = (request.type = "disc")
         /\ request.type = "read" =>
              /\ to_kernel'[Len(to_kernel) + 2].type = "data"
              /\ to_kernel'[Len(to_kernel) + 2].n = 0
              /\ to_kernel'[Len(to_kernel) + 2].data = buffer
<1>0. TypeOK /\ Serving /\ Pipe /\ pc = "reply" /\ Alive /\ InHand
  BY DEF IInv, Reply, Alive, InHand
<1>1. request.n \in 1..Len(issued) /\ request = issued[request.n] /\ handle = request.n
  BY <1>0 DEF Pipe, Serving, TypeOK
<1> DEFINE head == [type |-> "reply", n |-> handle, error |-> request.type = "disc", data |-> << >>]
           data == [type |-> "data", n |-> 0, error |-> FALSE, data |-> buffer]
<1>2. to_kernel' = to_kernel \o (IF request.type = "read" THEN <<head, data>> ELSE <<head>>)
  BY DEF Reply
<1>3. to_kernel \in Seq(Messages) /\ head \in Messages /\ data \in Messages
  BY <1>0 DEF TypeOK, Messages
<1>4. CASE request.type = "read"
  <2>1. to_kernel' = to_kernel \o <<head, data>>
    BY <1>2, <1>4
  <2>2. /\ Len(to_kernel') = Len(to_kernel) + 2 /\ DOMAIN to_kernel' = 1..Len(to_kernel')
        /\ \A i \in DOMAIN to_kernel : i \in DOMAIN to_kernel' /\ to_kernel'[i] = to_kernel[i]
        /\ to_kernel'[Len(to_kernel) + 1] = head /\ to_kernel'[Len(to_kernel) + 2] = data
    BY <1>3, <2>1
  <2> QED
    BY <1>1, <1>3, <1>4, <2>2
<1>5. CASE request.type # "read"
  <2>1. to_kernel' = to_kernel \o <<head>>
    BY <1>2, <1>5
  <2>2. /\ Len(to_kernel') = Len(to_kernel) + 1 /\ DOMAIN to_kernel' = 1..Len(to_kernel')
        /\ \A i \in DOMAIN to_kernel : i \in DOMAIN to_kernel' /\ to_kernel'[i] = to_kernel[i]
        /\ to_kernel'[Len(to_kernel) + 1] = head
    BY <1>3, <2>1
  <2> QED
    BY <1>1, <1>3, <1>5, <2>2
<1> QED
  BY <1>4, <1>5

LEMMA ServingReply == IInv /\ Reply => Serving' /\ RepliesInOrder'
<1> SUFFICES ASSUME IInv, Reply PROVE Serving' /\ RepliesInOrder'
  OBVIOUS
<1>0. /\ TypeOK /\ Serving /\ Pipe /\ RepliesInOrder /\ pc = "reply" /\ Alive /\ InHand
      /\ pc' = "select" /\ Alive' /\ ~InHand'
      /\ UNCHANGED <<replies, issued, nbd, request, handle>>
  BY DEF IInv, Reply, Alive, InHand, server, kernel
<1>1. Answering = request.n - 1 /\ Answering' = request.n /\ request.n \in 1..Len(issued)
  BY <1>0 DEF Answering, Pipe, TypeOK
<1>2. CASE nbd = "ended"
  <2>1. UNCHANGED to_kernel
    BY <1>2 DEF Reply
  <2>2. (\A n : Answered(n)' <=> Answered(n)) /\ RepliesInOrder'
    BY <1>0, <2>1, AnswersRest
  <2>3. \A n \in DOMAIN issued : Answered(n)' => n <= Answering'
    BY <1>0, <1>1, <2>2 DEF Serving, TypeOK
  <2> QED
    BY <1>0, <1>2, <2>1, <2>2, <2>3 DEF Serving
<1>3. CASE nbd # "ended"
  <2> DEFINE new == Len(to_kernel) + 1
  <2>1. /\ request = issued[request.n]
        /\ Len(to_kernel) \in Nat /\ DOMAIN to_kernel = 1..Len(to_kernel)
        /\ \A i \in DOMAIN to_kernel : i \in DOMAIN to_kernel' /\ to_kernel'[i] = to_kernel[i]
        /\ new \in DOMAIN to_kernel'
        /\ to_kernel'[new].type = "reply" /\ to_kernel'[new].n = request.n
        /\ to_kernel'[new].error = (request.type = "disc")
        /\ \A i \in DOMAIN to_kernel' :
             \/ i \in DOMAIN to_kernel
             \/ i = new
             \/ i = new + 1 /\ to_kernel'[i].type = "data" /\ to_kernel'[i].n = 0
    <3>1. /\ Len(to_kernel') = Len(to_kernel) + (IF request.type = "read" THEN 2 ELSE 1)
          /\ Len(to_kernel) \in Nat /\ DOMAIN to_kernel = 1..Len(to_kernel)
          /\ DOMAIN to_kernel' = 1..Len(to_kernel')
      BY <1>3, Replying
    <3>2. new \in DOMAIN to_kernel'
      BY <3>1
    <3>3. \A i \in DOMAIN to_kernel' :
            i \in DOMAIN to_kernel \/ i = new \/ (i = new + 1 /\ request.type = "read")
      BY <3>1
    <3>4. request.type = "read" =>
             to_kernel'[new + 1].type = "data" /\ to_kernel'[new + 1].n = 0
      <4>1. new + 1 = Len(to_kernel) + 2
        BY <3>1
      <4> QED
        BY <1>3, <4>1, Replying
    <3> QED
      BY <1>3, <3>1, <3>2, <3>3, <3>4, Replying
  <2>2. \A n : Answered(n)' <=> Answered(n) \/ (n = request.n /\ request.type # "disc")
    BY <1>0, <2>1 DEF Answered, Answers
  <2>3. \A n : Answered(n) => n \in DOMAIN issued /\ n < request.n /\ issued[n].type # "disc"
    BY <1>0, <1>1, AnsweredIsRequest DEF TypeOK
  <2>4. \A m \in 1..(request.n - 1) : issued[m].type # "disc" => Answered(m)
    BY <1>0, <1>1, <1>3 DEF Serving
  <2>5. ASSUME NEW i \in DOMAIN to_kernel', NEW j \in DOMAIN to_kernel', i < j,
               Answers(to_kernel[i])', Answers(to_kernel[j])'
        PROVE  to_kernel'[i].n < to_kernel'[j].n
    <3>1. i \in DOMAIN to_kernel \/ i = new
      BY <2>1, <2>5 DEF Answers
    <3>2. j \in DOMAIN to_kernel \/ j = new
      BY <2>1, <2>5 DEF Answers
    <3>3. CASE j \in DOMAIN to_kernel
      BY <1>0, <2>1, <2>5, <3>1, <3>3 DEF RepliesInOrder, Answers
    <3>4. CASE j = new
      <4>1. i \in DOMAIN to_kernel /\ Answers(to_kernel[i])
        BY <2>1, <2>5, <3>1, <3>4 DEF Answers
      <4>2. Answered(to_kernel[i].n)
        BY <4>1 DEF Answered
      <4> QED
        BY <2>1, <2>3, <3>4, <4>1, <4>2
    <3> QED
      BY <3>2, <3>3, <3>4
  <2>6. ASSUME NEW i \in DOMAIN replies, NEW j \in DOMAIN to_kernel', Answers(to_kernel[j])'
        PROVE  replies[i].n < to_kernel'[j].n
    <3>1. CASE j \in DOMAIN to_kernel
      BY <1>0, <2>1, <2>6, <3>1 DEF RepliesInOrder, Answers
    <3>2. CASE j = new
      <4>1. Answered(replies[i].n)
        BY DEF Answered
      <4> QED
        BY <2>1, <2>3, <3>2, <4>1
    <3> QED
      BY <2>1, <2>6, <3>1, <3>2 DEF Answers
  <2>7. ASSUME NEW n \in DOMAIN issued, Answered(n)', NEW m \in 1..n
        PROVE  Answered(m)' <=> issued[m].type # "disc"
    <3>1. n \in 1..request.n /\ n \in Int /\ request.n \in Int
      BY <1>0, <1>1, <2>2, <2>3, <2>7 DEF TypeOK
    <3>2. CASE m = request.n
      BY <2>1, <2>2, <2>3, <3>2
    <3>3. CASE m # request.n
      <4>1. m \in 1..(request.n - 1)
        BY <3>1, <3>3
      <4> QED
        BY <2>2, <2>3, <2>4, <3>3, <4>1
    <3> QED
      BY <3>2, <3>3
  <2>8. RepliesInOrder'
    BY <1>0, <2>5, <2>6, <2>7 DEF RepliesInOrder
  <2>9. /\ \A n \in DOMAIN issued : Answered(n)' => n <= Answering'
        /\ \A n \in 1..Answering' : issued[n].type # "disc" => Answered(n)'
    <3>1. \A n \in 1..request.n : n = request.n \/ n \in 1..(request.n - 1)
      BY <1>1
    <3>2. \A n \in DOMAIN issued : n < request.n \/ n = request.n => n <= request.n
      BY <1>0, <1>1 DEF TypeOK
    <3> QED
      BY <1>1, <2>1, <2>2, <2>3, <2>4, <3>1, <3>2
  <2>10. \A i \in DOMAIN to_kernel' :
           /\ to_kernel'[i].type = "reply" =>
                /\ to_kernel'[i].n \in DOMAIN issued
                /\ to_kernel'[i].error = (issued[to_kernel'[i].n].type = "disc")
           /\ to_kernel'[i].type = "data" => to_kernel'[i].n = 0
    <3> SUFFICES ASSUME NEW i \in DOMAIN to_kernel'
                 PROVE  /\ to_kernel'[i].type = "reply" =>
                             /\ to_kernel'[i].n \in DOMAIN issued
                             /\ to_kernel'[i].error = (issued[to_kernel'[i].n].type = "disc")
                        /\ to_kernel'[i].type = "data" => to_kernel'[i].n = 0
      OBVIOUS
    <3>1. CASE i \in DOMAIN to_kernel
      BY <1>0, <2>1, <3>1 DEF Serving
    <3>2. CASE i = new
      <4>1. request.n \in DOMAIN issued
        BY <1>0, <1>1 DEF TypeOK
      <4> QED
        BY <2>1, <3>2, <4>1
    <3> QED
      BY <2>1, <3>1, <3>2
  <2> QED
    BY <1>0, <2>8, <2>9, <2>10 DEF Serving
<1> QED
  BY <1>2, <1>3

\* The kernel takes an answer from the pipe, with its data.
LEMMA Taking ==
  ASSUME IInv, TakeReply
  PROVE  \E d \in {1, 2} :
           /\ Len(to_kernel') = Len(to_kernel) - d
           /\ DOMAIN to_kernel = 1..Len(to_kernel) /\ DOMAIN to_kernel' = 1..Len(to_kernel')
           /\ Len(to_kernel) \in Nat /\ 1 \in DOMAIN to_kernel
           /\ \A i \in DOMAIN to_kernel' : i + d \in DOMAIN to_kernel /\ to_kernel'[i] = to_kernel[i + d]
           /\ \A i \in DOMAIN to_kernel : i <= d \/ i - d \in DOMAIN to_kernel'
           /\ d = 2 => to_kernel[2].type = "data"
           /\ IF Waiting(to_kernel[1].n)
              THEN /\ d = IF issued[to_kernel[1].n].type = "read" THEN 2 ELSE 1
                   /\ replies' = Append(replies,
                         [n |-> to_kernel[1].n,
                          data |-> IF d = 2 THEN to_kernel[2].data ELSE << >>])
                   /\ nbd' = nbd
              ELSE d = 1 /\ UNCHANGED replies /\ KernelEnds
<1>0. TypeOK
  BY DEF IInv
<1>1. to_kernel # << >>
  BY DEF TakeReply
<1>2. DOMAIN to_kernel = 1..Len(to_kernel) /\ Len(to_kernel) \in Nat /\ 1 \in DOMAIN to_kernel
  BY <1>0, <1>1 DEF TypeOK
<1>3. CASE Waiting(to_kernel[1].n)
  <2> DEFINE read == issued[to_kernel[1].n].type = "read"
             d == IF read THEN 2 ELSE 1
  <2>1. /\ replies' = Append(replies, [n |-> to_kernel[1].n,
                                       data |-> IF read THEN to_kernel[2].data ELSE << >>])
        /\ to_kernel' = SubSeq(to_kernel, IF read THEN 3 ELSE 2, Len(to_kernel))
        /\ nbd' = nbd
    BY <1>1, <1>3, FirstAnswer DEF TakeReply
  <2>2. d \in {1, 2} /\ to_kernel' = SubSeq(to_kernel, d + 1, Len(to_kernel)) /\ (d = 2 <=> read)
    BY <2>1
  <2>3. d \in DOMAIN to_kernel /\ (d = 2 => to_kernel[2].type = "data")
    BY <1>1, <1>2, <1>3, FirstAnswer
  <2> HIDE DEF d
  <2>4. /\ Len(to_kernel') = Len(to_kernel) - d /\ DOMAIN to_kernel' = 1..Len(to_kernel')
        /\ \A i \in DOMAIN to_kernel' : i + d \in DOMAIN to_kernel /\ to_kernel'[i] = to_kernel[i + d]
        /\ \A i \in DOMAIN to_kernel : i <= d \/ i - d \in DOMAIN to_kernel'
    <3>1. to_kernel \in Seq(Messages) /\ d \in Nat /\ d <= Len(to_kernel)
      BY <1>0, <1>2, <2>2, <2>3 DEF TypeOK
    <3>2. Len(to_kernel') = Len(to_kernel) - d /\ DOMAIN to_kernel' = 1..Len(to_kernel')
      <4>1. d + 1 \in 1..Len(to_kernel) + 1 /\ Len(to_kernel) \in (d + 1) - 1..Len(to_kernel)
        BY <1>2, <3>1
      <4>2. Len(to_kernel') = Len(to_kernel) - (d + 1) + 1 /\ to_kernel' \in Seq(Messages)
        BY <2>2, <3>1, <4>1, SubSeqProperties
      <4> QED
        BY <1>2, <3>1, <4>2
    <3>3. \A i \in 1..(Len(to_kernel) - d) : to_kernel'[i] = to_kernel[i + d]
      BY <1>2, <2>2, <3>1
    <3> QED
      BY <1>2, <3>1, <3>2, <3>3
  <2>5. d = IF issued[to_kernel[1].n].type = "read" THEN 2 ELSE 1
    BY DEF d
  <2>6. replies' = Append(replies, [n |-> to_kernel[1].n,
                                    data |-> IF d = 2 THEN to_kernel[2].data ELSE << >>])
    BY <2>1, <2>2
  <2> QED
    BY <1>2, <1>3, <2>1, <2>2, <2>3, <2>4, <2>5, <2>6
<1>4. CASE ~Waiting(to_kernel[1].n)
  <2>1. to_kernel' = Tail(to_kernel) /\ KernelEnds
    BY <1>1, <1>4, FirstAnswer DEF TakeReply
  <2>2. /\ Len(to_kernel') = Len(to_kernel) - 1 /\ DOMAIN to_kernel' = 1..Len(to_kernel')
        /\ \A i \in DOMAIN to_kernel' : i + 1 \in DOMAIN to_kernel /\ to_kernel'[i] = to_kernel[i + 1]
        /\ \A i \in DOMAIN to_kernel : i <= 1 \/ i - 1 \in DOMAIN to_kernel'
    BY <1>0, <1>1, <2>1 DEF TypeOK
  <2>3. UNCHANGED replies
    BY <2>1 DEF KernelEnds
  <2> QED
    BY <1>2, <1>4, <2>1, <2>2, <2>3
<1> QED
  BY <1>3, <1>4

LEMMA ServingTakeReply == IInv /\ TakeReply => Serving' /\ RepliesInOrder'
<1> SUFFICES ASSUME IInv, TakeReply PROVE Serving' /\ RepliesInOrder'
  OBVIOUS
<1>0. /\ TypeOK /\ Serving /\ RepliesInOrder /\ to_kernel # << >>
      /\ UNCHANGED <<pc, issued, request, handle>>
  BY DEF IInv, TakeReply, KernelEnds, server
<1>1. PICK d \in {1, 2} :
           /\ Len(to_kernel') = Len(to_kernel) - d
           /\ DOMAIN to_kernel = 1..Len(to_kernel) /\ DOMAIN to_kernel' = 1..Len(to_kernel')
           /\ Len(to_kernel) \in Nat /\ 1 \in DOMAIN to_kernel
           /\ \A i \in DOMAIN to_kernel' : i + d \in DOMAIN to_kernel /\ to_kernel'[i] = to_kernel[i + d]
           /\ \A i \in DOMAIN to_kernel : i <= d \/ i - d \in DOMAIN to_kernel'
           /\ d = 2 => to_kernel[2].type = "data"
           /\ IF Waiting(to_kernel[1].n)
              THEN /\ d = IF issued[to_kernel[1].n].type = "read" THEN 2 ELSE 1
                   /\ replies' = Append(replies,
                         [n |-> to_kernel[1].n,
                          data |-> IF d = 2 THEN to_kernel[2].data ELSE << >>])
                   /\ nbd' = nbd
              ELSE d = 1 /\ UNCHANGED replies /\ KernelEnds
  BY Taking
<1> DEFINE h == to_kernel[1].n
<1>2. Waiting(h) =>
        /\ Answers(to_kernel[1]) /\ h \in DOMAIN issued
        /\ \A i \in DOMAIN replies : i \in DOMAIN replies' /\ replies'[i] = replies[i]
        /\ Len(replies) + 1 \in DOMAIN replies' /\ replies'[Len(replies) + 1].n = h
        /\ \A i \in DOMAIN replies' : i \in DOMAIN replies \/ i = Len(replies) + 1
        /\ \A i \in DOMAIN replies : i < Len(replies) + 1 /\ ~(Len(replies) + 1 < i)
  <2> SUFFICES ASSUME Waiting(h) PROVE <1>2!2
    OBVIOUS
  <2>1. Answers(to_kernel[1]) /\ h \in DOMAIN issued
    BY <1>0, FirstAnswer
  <2>2. PICK e : e.n = h /\ replies' = Append(replies, e)
    BY <1>1
  <2>3. \E S : replies \in Seq(S)
    BY <1>0 DEF TypeOK
  <2> QED BY <2>1, <2>2, <2>3, ReplyKeeps
<1>3. ~Waiting(h) => UNCHANGED replies /\ ~Answers(to_kernel[1]) /\ nbd' = "ended"
  <2> SUFFICES ASSUME ~Waiting(h), Answers(to_kernel[1]) PROVE FALSE
    BY <1>1 DEF KernelEnds
  <2>1. Answered(h)
    BY <1>1 DEF Answered
  <2>2. h \in DOMAIN issued /\ issued[h].type # "disc"
    BY <2>1, AnsweredIsRequest
  <2>3. PICK i \in DOMAIN replies : replies[i].n = h
    BY <2>2 DEF Waiting
  <2>4. replies[i].n < h
    BY <1>0, <1>1 DEF RepliesInOrder
  <2>5. h \in Int
    BY <1>0, <2>2 DEF TypeOK
  <2> QED
    BY <2>3, <2>4, <2>5
<1>4. \A n : Answered(n)' <=> Answered(n)
  <2>1. ASSUME NEW n, Answered(n)' PROVE Answered(n)
    <3>1. ASSUME NEW i \in DOMAIN replies', replies'[i].n = n PROVE Answered(n)
      BY <1>1, <1>2, <1>3, <3>1 DEF Answered
    <3>2. ASSUME NEW i \in DOMAIN to_kernel', Answers(to_kernel[i])', to_kernel'[i].n = n
          PROVE  Answered(n)
      BY <1>1, <3>2 DEF Answered, Answers
    <3> QED
      BY <2>1, <3>1, <3>2 DEF Answered
  <2>2. ASSUME NEW n, Answered(n) PROVE Answered(n)'
    <3>1. ASSUME NEW i \in DOMAIN replies, replies[i].n = n PROVE Answered(n)'
      BY <1>2, <1>3, <3>1 DEF Answered
    <3>2. ASSUME NEW i \in DOMAIN to_kernel, Answers(to_kernel[i]), to_kernel[i].n = n
          PROVE  Answered(n)'
      <4>1. CASE i = 1
        BY <1>2, <1>3, <3>2, <4>1 DEF Answered
      <4>2. CASE i # 1
        <5>1. i # d \/ d = 1
          BY <1>1, <3>2 DEF Answers
        <5>2. ~(i <= d)
          BY <1>1, <4>2, <5>1
        <5>3. i - d \in DOMAIN to_kernel' /\ to_kernel'[i - d] = to_kernel[(i - d) + d] /\ (i - d) + d = i
          BY <1>1, <5>2
        <5>4. Answers(to_kernel[i - d])' /\ to_kernel'[i - d].n = n
          BY <3>2, <5>3 DEF Answers
        <5> QED
          BY <5>3, <5>4 DEF Answered
      <4> QED
        BY <4>1, <4>2
    <3> QED
      BY <2>2, <3>1, <3>2 DEF Answered
  <2> QED
    BY <2>1, <2>2
<1>5. RepliesInOrder'
  <2>1. ASSUME NEW i \in DOMAIN replies', NEW j \in DOMAIN replies', i < j
        PROVE  replies'[i].n < replies'[j].n
    <3>1. CASE ~Waiting(h)
      BY <1>0, <1>3, <2>1, <3>1 DEF RepliesInOrder
    <3>2. CASE Waiting(h) /\ j \in DOMAIN replies
      BY <1>0, <1>2, <2>1, <3>2 DEF RepliesInOrder
    <3>3. CASE Waiting(h) /\ j = Len(replies) + 1
      <4>1. i \in DOMAIN replies
        BY <1>0, <1>2, <2>1, <3>3 DEF TypeOK
      <4> QED
        BY <1>0, <1>1, <1>2, <3>3, <4>1 DEF RepliesInOrder
    <3> QED
      BY <1>2, <3>1, <3>2, <3>3
  <2>2. ASSUME NEW i \in DOMAIN to_kernel', NEW j \in DOMAIN to_kernel', i < j,
               Answers(to_kernel[i])', Answers(to_kernel[j])'
        PROVE  to_kernel'[i].n < to_kernel'[j].n
    <3>1. i + d < j + d
      BY <1>1, <2>2
    <3> QED
      BY <1>0, <1>1, <2>2, <3>1 DEF RepliesInOrder, Answers
  <2>3. ASSUME NEW i \in DOMAIN replies', NEW j \in DOMAIN to_kernel', Answers(to_kernel[j])'
        PROVE  replies'[i].n < to_kernel'[j].n
    <3>1. j + d \in DOMAIN to_kernel /\ Answers(to_kernel[j + d]) /\ to_kernel'[j] = to_kernel[j + d]
      BY <1>1, <2>3 DEF Answers
    <3>2. CASE i \in DOMAIN replies
      BY <1>0, <1>2, <1>3, <3>1, <3>2 DEF RepliesInOrder
    <3>3. CASE Waiting(h) /\ i = Len(replies) + 1
      <4>1. 1 < j + d
        BY <1>1
      <4> QED
        BY <1>0, <1>1, <1>2, <3>1, <3>3, <4>1 DEF RepliesInOrder
    <3> QED
      BY <1>2, <1>3, <3>2, <3>3
  <2>4. \A n \in DOMAIN issued :
          Answered(n)' => \A m \in 1..n : Answered(m)' <=> issued[m].type # "disc"
    BY <1>0, <1>4 DEF RepliesInOrder
  <2> QED
    BY <1>0, <2>1, <2>2, <2>3, <2>4 DEF RepliesInOrder
<1>6. Serving'
  <2>1. (Alive' <=> Alive) /\ (InHand' <=> InHand) /\ Answering' = Answering
    BY <1>0 DEF Alive, InHand, Answering
  <2>2. /\ InHand' => handle' = request'.n
        /\ pc' = "get" => request'.type = "read"
        /\ pc' \in {"payload", "put"} => request'.type = "write"
    BY <1>0, <2>1 DEF Serving
  <2>3. \A i \in DOMAIN replies' : replies'[i].n \in DOMAIN issued
    BY <1>0, <1>2, <1>3 DEF Serving
  <2>4. \A i \in DOMAIN to_kernel' :
          /\ to_kernel'[i].type = "reply" =>
               /\ to_kernel'[i].n \in DOMAIN issued
               /\ to_kernel'[i].error = (issued[to_kernel'[i].n].type = "disc")
          /\ to_kernel'[i].type = "data" => to_kernel'[i].n = 0
    BY <1>0, <1>1 DEF Serving
  <2>5. nbd' # "ended" => nbd # "ended"
    BY <1>1 DEF KernelEnds
  <2>6. Alive' => /\ \A n \in DOMAIN issued : Answered(n)' => n <= Answering'
                  /\ nbd' # "ended" =>
                       \A n \in 1..Answering' : issued[n].type # "disc" => Answered(n)'
    BY <1>0, <1>4, <2>1, <2>5 DEF Serving
  <2> QED
    BY <1>0, <2>2, <2>3, <2>4, <2>6 DEF Serving
<1> QED
  BY <1>5, <1>6

-----------------------------------------------------------------------------
\* The data.

LEMMA LastWriteStays ==
  ASSUME TypeOK, NEW n \in 1..(Len(issued) + 1), NEW w \in 0..(n - 1), NEW b, LastWrite(w, b, n),
         \A m \in DOMAIN issued : m \in DOMAIN issued' /\ issued'[m] = issued[m]
  PROVE  LastWrite(w, b, n)'
<1>1. \A m \in 1..(n - 1) : issued'[m] = issued[m]
  BY DEF TypeOK
<1>2. \A m \in (w + 1)..(n - 1) : m \in 1..(n - 1)
  OBVIOUS
<1>3. w = 0 \/ w \in 1..(n - 1)
  OBVIOUS
<1> QED
  BY <1>1, <1>2, <1>3 DEF LastWrite, Writes

LEMMA RightStays ==
  ASSUME TypeOK, NEW n \in DOMAIN issued, NEW d, Right(n, d),
         \A m \in DOMAIN issued : m \in DOMAIN issued' /\ issued'[m] = issued[m]
  PROVE  Right(n, d)'
<1>1. PICK w \in 0..(n - 1) : d = <<w, w>> /\ LastWrite(w, issued[n].block, n)
  BY DEF Right
<1>2. n \in 1..(Len(issued) + 1) /\ issued'[n] = issued[n]
  BY DEF TypeOK
<1>3. PICK b : b = issued[n].block
  OBVIOUS
<1>4. LastWrite(w, b, n)'
  BY <1>1, <1>2, <1>3, LastWriteStays
<1>5. d = <<w, w>> /\ LastWrite(w, issued[n].block, n)'
  BY <1>1, <1>2, <1>3, <1>4 DEF LastWrite, Writes
<1> QED
  BY <1>5 DEF Right

LEMMA NotAWrite ==
  ASSUME NEW n \in Nat, NEW w \in 0..(n - 1), NEW b, LastWrite(w, b, n), ~Writes(n, b)
  PROVE  w \in 0..n /\ LastWrite(w, b, n + 1)
BY DEF LastWrite

\* Writes that are in the MBR, whatever else happens.
StoredTo(n) == \A b \in Blocks : \E w \in 0..(n - 1) : mbr[b] = <<w, w>> /\ LastWrite(w, b, n)

LEMMA StoredStays ==
  ASSUME TypeOK, NEW n \in 1..(Len(issued) + 1), StoredTo(n), UNCHANGED mbr,
         \A m \in DOMAIN issued : m \in DOMAIN issued' /\ issued'[m] = issued[m]
  PROVE  StoredTo(n)'
<1> SUFFICES ASSUME NEW b \in Blocks
             PROVE  \E w \in 0..(n - 1) : mbr[b] = <<w, w>> /\ LastWrite(w, b, n)'
  BY DEF StoredTo
<1>1. PICK w \in 0..(n - 1) : mbr[b] = <<w, w>> /\ LastWrite(w, b, n)
  BY DEF StoredTo
<1>2. LastWrite(w, b, n)'
  BY <1>1, LastWriteStays
<1> QED
  BY <1>1, <1>2

LEMMA AppliedRange == IInv /\ Alive => Applied \in 1..(Len(issued) + 1)
BY DEF IInv, TypeOK, Pipe, Alive, Applied

\* Answers and data, while the kernel takes nothing and the program sends nothing.
LEMMA SentStays ==
  ASSUME IInv, UNCHANGED <<to_kernel, replies>>,
         \A m \in DOMAIN issued : m \in DOMAIN issued' /\ issued'[m] = issued[m]
  PROVE  /\ \A i \in DOMAIN to_kernel' :
              to_kernel'[i].type = "reply" /\ issued'[to_kernel'[i].n].type = "read" =>
                  /\ i + 1 \in DOMAIN to_kernel'
                  /\ to_kernel'[i + 1].type = "data"
                  /\ Right(to_kernel[i].n, to_kernel[i + 1].data)'
         /\ ReadsSeeWrites'
<1>0. TypeOK /\ Serving /\ Stored /\ ReadsSeeWrites
  BY DEF IInv
<1>1. ASSUME NEW i \in DOMAIN to_kernel,
             to_kernel[i].type = "reply", issued'[to_kernel[i].n].type = "read"
      PROVE  /\ i + 1 \in DOMAIN to_kernel
             /\ to_kernel[i + 1].type = "data"
             /\ Right(to_kernel[i].n, to_kernel[i + 1].data)'
  <2>1. PICK n \in DOMAIN issued : n = to_kernel[i].n
    BY <1>0, <1>1 DEF Serving
  <2>2. issued[n].type = "read"
    BY <1>1, <2>1
  <2>3. i + 1 \in DOMAIN to_kernel /\ to_kernel[i + 1].type = "data" /\ Right(n, to_kernel[i + 1].data)
    BY <1>0, <1>1, <2>1, <2>2 DEF Stored
  <2>4. PICK d : d = to_kernel[i + 1].data
    OBVIOUS
  <2>5. Right(n, d)'
    BY <1>0, <2>3, <2>4, RightStays
  <2> QED
    BY <2>1, <2>3, <2>4, <2>5 DEF Right
<1>2. ReadsSeeWrites'
  <2> SUFFICES ASSUME NEW i \in DOMAIN replies, issued'[replies[i].n].type = "read"
               PROVE  Right(replies[i].n, replies[i].data)'
    BY DEF ReadsSeeWrites, Right
  <2>1. PICK n \in DOMAIN issued : n = replies[i].n
    BY <1>0 DEF Serving
  <2>2. PICK d : d = replies[i].data
    OBVIOUS
  <2>3. Right(n, d)
    BY <1>0, <2>1, <2>2 DEF ReadsSeeWrites, Right
  <2>4. Right(n, d)'
    BY <1>0, <2>1, <2>3, RightStays
  <2> QED
    BY <2>1, <2>2, <2>4 DEF Right
<1> QED
  BY <1>1, <1>2

LEMMA StoredRests ==
  ASSUME IInv, UNCHANGED <<to_kernel, replies, mbr, request, got, buffer>>,
         \A m \in DOMAIN issued : m \in DOMAIN issued' /\ issued'[m] = issued[m],
         sig => sig', nbd = "ended" => nbd' = "ended",
         Alive' => Alive /\ Applied' = Applied /\ (Torn' <=> Torn),
         pc' = "reply" => pc = "reply",
         pc' = "select" => pc = "select" \/ request.type # "write",
         pc' \in {"payload", "put"} => pc \in {"payload", "put"},
         pc' = "put" /\ pc # "put" => got = 2 \/ sig \/ nbd = "ended"
  PROVE  Stored' /\ ReadsSeeWrites'
<1>0. TypeOK /\ Stored /\ Pipe
  BY DEF IInv
<1>1. /\ \A i \in DOMAIN to_kernel' :
              to_kernel'[i].type = "reply" /\ issued'[to_kernel'[i].n].type = "read" =>
                  /\ i + 1 \in DOMAIN to_kernel'
                  /\ to_kernel'[i + 1].type = "data"
                  /\ Right(to_kernel[i].n, to_kernel[i + 1].data)'
      /\ ReadsSeeWrites'
  BY SentStays
<1>2. ASSUME Alive', ~Torn'
      PROVE  \A b \in Blocks : \E w \in 0..(Applied' - 1) :
               mbr'[b] = <<w, w>> /\ LastWrite(w, b, Applied)'
  <2>1. PICK n \in 1..(Len(issued) + 1) : n = Applied
    BY <1>2, AppliedRange
  <2>2. StoredTo(n)
    BY <1>0, <1>2, <2>1 DEF Stored, StoredTo
  <2>3. StoredTo(n)'
    BY <1>0, <2>2, StoredStays
  <2>4. Applied' = n
    BY <1>2, <2>1
  <2> QED
    BY <2>3, <2>4 DEF StoredTo, LastWrite
<1>3. Torn' => sig' \/ (pc' = "reply" /\ nbd' = "ended")
  <2> SUFFICES ASSUME Torn' PROVE sig' \/ (pc' = "reply" /\ nbd' = "ended")
    OBVIOUS
  <2>1. pc' \in {"reply", "select"} /\ request.type = "write" /\ got < 2
    BY DEF Torn
  <2>2. pc' = pc
    BY <2>1
  <2> QED
    BY <1>0, <2>1, <2>2 DEF Stored, Torn
<1>4. pc' = "put" /\ got < 2 => sig' \/ nbd' = "ended"
  BY <1>0 DEF Stored
<1>5. pc' \in {"payload", "put"} => \A k \in 1..got : buffer[k] = request.n
  BY <1>0 DEF Stored
<1>6. ASSUME pc' = "reply", request.type = "read" PROVE Right(request.n, buffer)'
  <2>1. PICK n \in DOMAIN issued : n = request.n
    BY <1>0, <1>6 DEF Pipe, Alive, TypeOK
  <2>2. PICK d : d = buffer
    OBVIOUS
  <2>3. Right(n, d)
    BY <1>0, <1>6, <2>1, <2>2 DEF Stored
  <2>4. Right(n, d)'
    BY <1>0, <2>3, RightStays
  <2> QED
    BY <2>1, <2>2, <2>4 DEF Right
<1> QED
  BY <1>1, <1>2, <1>3, <1>4, <1>5, <1>6 DEF Stored

LEMMA StoredNextRequest == IInv /\ NextRequest => Stored' /\ ReadsSeeWrites'
<1> SUFFICES ASSUME IInv, NextRequest PROVE Stored' /\ ReadsSeeWrites'
  OBVIOUS
<1>0. /\ TypeOK /\ Stored /\ Pipe /\ pc = "select" /\ ~sig /\ Alive /\ ~Torn /\ got' \in {0, got}
      /\ UNCHANGED <<to_kernel, replies, issued, mbr, buffer, nbd>>
  BY DEF IInv, NextRequest, Stored, Torn, Alive, server, pipe, kernel
<1>1. /\ \A i \in DOMAIN to_kernel' :
              to_kernel'[i].type = "reply" /\ issued'[to_kernel'[i].n].type = "read" =>
                  /\ i + 1 \in DOMAIN to_kernel'
                  /\ to_kernel'[i + 1].type = "data"
                  /\ Right(to_kernel[i].n, to_kernel[i + 1].data)'
      /\ ReadsSeeWrites'
  BY <1>0, SentStays
<1>2. CASE Alive'
  <2>0. PICK n : n = request.n + 1
    OBVIOUS
  <2>1. n \in 1..Len(issued) /\ request'.n = n /\ request' = issued[n]
        /\ \/ request'.type = "read" /\ pc' = "get"
           \/ request'.type = "write" /\ pc' = "payload"
           \/ request'.type = "disc" /\ pc' = "reply"
    BY <1>2, <2>0, NextInLine
  <2>8. n \in Nat
    BY <1>0, <2>1 DEF TypeOK
  <2>2. StoredTo(n)
    BY <1>0, <2>0 DEF Stored, StoredTo, Applied
  <2>3. got' = 0
    BY <1>0, <1>2 DEF NextRequest, EndOfFile, Leave, Alive
  <2>4. ~Torn' /\ pc' # "put" /\ ~(pc' = "reply" /\ request'.type = "read")
    BY <2>1 DEF Torn
  <2>5. \A b \in Blocks : \E w \in 0..(Applied' - 1) : mbr'[b] = <<w, w>> /\ LastWrite(w, b, Applied)'
    <3>1. CASE pc' \in {"get", "payload"}
      BY <1>0, <2>1, <2>2, <3>1 DEF StoredTo, Applied, LastWrite, Writes
    <3>2. CASE pc' = "reply"
      <4>1. request'.type = "disc" /\ Applied' = n + 1
        BY <2>1, <3>2 DEF Applied
      <4>2. \A b \in Blocks : ~Writes(n, b)
        BY <2>1, <4>1 DEF Writes
      <4>3. \A b \in Blocks : \E w \in 0..n : mbr[b] = <<w, w>> /\ LastWrite(w, b, n + 1)
        BY <2>2, <2>8, <4>2, NotAWrite DEF StoredTo
      <4>4. (n + 1) - 1 = n
        BY <2>8
      <4> QED
        BY <1>0, <4>1, <4>3, <4>4 DEF LastWrite, Writes
    <3> QED
      BY <2>1, <3>1, <3>2
  <2>6. \A k \in 1..got' : buffer'[k] = request'.n
    BY <2>3
  <2> QED
    BY <1>1, <2>4, <2>5, <2>6 DEF Stored
<1>3. CASE ~Alive'
  BY <1>1, <1>3 DEF Stored, Alive, Torn
<1> QED
  BY <1>2, <1>3

LEMMA StoredGetBin == IInv /\ GetBin => Stored' /\ ReadsSeeWrites'
<1> SUFFICES ASSUME IInv, GetBin PROVE Stored' /\ ReadsSeeWrites'
  OBVIOUS
<1>0. /\ TypeOK /\ Stored /\ Pipe /\ Serving /\ pc = "get" /\ Alive /\ ~Torn
      /\ UNCHANGED <<to_kernel, replies, issued, mbr, nbd, request>>
  BY DEF IInv, GetBin, Torn, Alive, pipe, kernel
<1>1. /\ \A i \in DOMAIN to_kernel' :
              to_kernel'[i].type = "reply" /\ issued'[to_kernel'[i].n].type = "read" =>
                  /\ i + 1 \in DOMAIN to_kernel'
                  /\ to_kernel'[i + 1].type = "data"
                  /\ Right(to_kernel[i].n, to_kernel[i + 1].data)'
      /\ ReadsSeeWrites'
  BY <1>0, SentStays
<1>2. CASE pc' = "cleanup"
  BY <1>1, <1>2 DEF Stored, Alive, Torn
<1>3. CASE pc' = "reply" /\ buffer' = mbr[request.block]
  <2>1. /\ request.type = "read" /\ request = issued[request.n] /\ request.n \in 1..Len(issued)
        /\ request.n \in Nat /\ request.block \in Blocks
    BY <1>0 DEF Serving, Pipe, TypeOK, Elements
  <2>2. StoredTo(request.n)
    BY <1>0 DEF Stored, StoredTo, Applied
  <2>3. ~Torn' /\ Applied' = request.n + 1 /\ (request.n + 1) - 1 = request.n
    BY <1>0, <1>3, <2>1 DEF Torn, Applied
  <2>4. \A b \in Blocks : ~Writes(request.n, b)
    BY <2>1 DEF Writes
  <2>5. \A b \in Blocks : \E w \in 0..request.n : mbr[b] = <<w, w>> /\ LastWrite(w, b, request.n + 1)
    BY <2>1, <2>2, <2>4, NotAWrite DEF StoredTo
  <2>6. \A b \in Blocks : \E w \in 0..(Applied' - 1) : mbr'[b] = <<w, w>> /\ LastWrite(w, b, Applied)'
    BY <1>0, <2>3, <2>5 DEF LastWrite, Writes
  <2>7. Right(request.n, buffer)'
    <3>1. PICK w \in 0..(request.n - 1) :
            mbr[request.block] = <<w, w>> /\ LastWrite(w, request.block, request.n)
      BY <2>1, <2>2 DEF StoredTo
    <3>2. buffer' = <<w, w>> /\ LastWrite(w, request.block, request.n)'
      BY <1>0, <1>3, <3>1 DEF LastWrite, Writes
    <3>3. request'.n = request.n /\ issued'[request.n].block = request.block
      BY <1>0, <2>1
    <3> QED
      BY <1>0, <3>1, <3>2, <3>3 DEF Right
  <2> QED
    BY <1>1, <1>3, <2>3, <2>6, <2>7 DEF Stored
<1> QED
  BY <1>2, <1>3 DEF GetBin, Go, Leave

LEMMA StoredRecvChunk == IInv /\ RecvChunk => Stored' /\ ReadsSeeWrites'
<1> SUFFICES ASSUME IInv, RecvChunk PROVE Stored' /\ ReadsSeeWrites'
  OBVIOUS
<1>0. /\ TypeOK /\ Stored /\ Pipe /\ pc = "payload" /\ pc' = "payload" /\ Alive
      /\ to_bridge # << >> /\ got \in 0..1 /\ got' = got + 1
      /\ buffer' = [buffer EXCEPT ![got + 1] = Head(to_bridge).n]
      /\ UNCHANGED <<to_kernel, replies, issued, mbr, nbd, request>>
  BY DEF IInv, RecvChunk, Missing, Alive, kernel, TypeOK
<1>1. /\ \A i \in DOMAIN to_kernel' :
              to_kernel'[i].type = "reply" /\ issued'[to_kernel'[i].n].type = "read" =>
                  /\ i + 1 \in DOMAIN to_kernel'
                  /\ to_kernel'[i + 1].type = "data"
                  /\ Right(to_kernel[i].n, to_kernel[i + 1].data)'
      /\ ReadsSeeWrites'
  BY <1>0, SentStays
<1>2. Head(to_bridge).n = request.n
  <2>1. DataBehind(0 - got, request.n) /\ 1 \in DOMAIN to_bridge /\ Head(to_bridge) = to_bridge[1]
    BY <1>0 DEF Pipe, TypeOK
  <2> QED
    BY <1>0, <2>1 DEF DataBehind
<1>3. \A k \in 1..got' : buffer'[k] = request.n
  BY <1>0, <1>2 DEF Stored, TypeOK, Data
<1>4. StoredTo(request.n) /\ Applied' = request.n /\ ~Torn' /\ Alive'
  BY <1>0 DEF Stored, StoredTo, Applied, Torn, Alive
<1>5. \A b \in Blocks : \E w \in 0..(Applied' - 1) : mbr'[b] = <<w, w>> /\ LastWrite(w, b, Applied)'
  BY <1>0, <1>4 DEF StoredTo, LastWrite, Writes
<1> QED
  BY <1>0, <1>1, <1>3, <1>4, <1>5 DEF Stored

LEMMA StoredSetBin == IInv /\ SetBin => Stored' /\ ReadsSeeWrites'
<1> SUFFICES ASSUME IInv, SetBin PROVE Stored' /\ ReadsSeeWrites'
  OBVIOUS
<1>0. /\ TypeOK /\ Stored /\ Pipe /\ Serving /\ pc = "put" /\ Alive
      /\ UNCHANGED <<to_kernel, replies, issued, nbd, request, got, buffer>>
  BY DEF IInv, SetBin, Alive, pipe, kernel
<1>1. /\ \A i \in DOMAIN to_kernel' :
              to_kernel'[i].type = "reply" /\ issued'[to_kernel'[i].n].type = "read" =>
                  /\ i + 1 \in DOMAIN to_kernel'
                  /\ to_kernel'[i + 1].type = "data"
                  /\ Right(to_kernel[i].n, to_kernel[i + 1].data)'
      /\ ReadsSeeWrites'
  BY <1>0, SentStays
<1>2. CASE pc' = "cleanup"
  BY <1>1, <1>2 DEF Stored, Alive, Torn
<1>3. CASE pc' = "reply" /\ mbr' = [mbr EXCEPT ![request.block] = buffer] /\ UNCHANGED sig
  <2>1. /\ request.type = "write" /\ request = issued[request.n] /\ request.n \in 1..Len(issued)
        /\ request.n \in Nat /\ request.block \in Blocks
    BY <1>0 DEF Serving, Pipe, TypeOK, Elements
  <2>2. CASE got < 2
    BY <1>0, <1>1, <1>3, <2>1, <2>2 DEF Stored, Torn
  <2>3. CASE got = 2
    <3>1. buffer = <<request.n, request.n>>
      BY <1>0, <2>3 DEF Stored, TypeOK, Data
    <3>2. StoredTo(request.n) /\ ~Torn' /\ Applied' = request.n + 1 /\ (request.n + 1) - 1 = request.n
      BY <1>0, <1>3, <2>1, <2>3 DEF Stored, StoredTo, Applied, Torn
    <3>3. ASSUME NEW b \in Blocks
          PROVE  \E w \in 0..request.n : mbr'[b] = <<w, w>> /\ LastWrite(w, b, request.n + 1)
      <4>1. CASE b = request.block
        <5>1. mbr'[b] = <<request.n, request.n>>
          BY <1>0, <1>3, <2>1, <3>1, <4>1 DEF TypeOK
        <5>2. LastWrite(request.n, b, request.n + 1)
          BY <2>1, <4>1 DEF LastWrite, Writes
        <5> QED
          BY <2>1, <5>1, <5>2
      <4>2. CASE b # request.block
        <5>1. ~Writes(request.n, b) /\ mbr'[b] = mbr[b]
          BY <1>0, <1>3, <2>1, <4>2 DEF Writes, TypeOK
        <5> QED
          BY <2>1, <3>2, <5>1, NotAWrite DEF StoredTo
      <4> QED
        BY <4>1, <4>2
    <3>4. \A b \in Blocks : \E w \in 0..(Applied' - 1) : mbr'[b] = <<w, w>> /\ LastWrite(w, b, Applied)'
      BY <1>0, <3>2, <3>3 DEF LastWrite, Writes
    <3> QED
      BY <1>0, <1>1, <1>3, <2>1, <3>2, <3>4 DEF Stored
  <2> QED
    BY <1>0, <2>2, <2>3 DEF TypeOK
<1> QED
  BY <1>2, <1>3 DEF SetBin, Go, Leave, WriteAt, proc

LEMMA StoredReply == IInv /\ Reply => Stored' /\ ReadsSeeWrites'
<1> SUFFICES ASSUME IInv, Reply PROVE Stored' /\ ReadsSeeWrites'
  OBVIOUS
<1>0. /\ TypeOK /\ Stored /\ Pipe /\ Serving /\ ReadsSeeWrites /\ pc = "reply" /\ pc' = "select"
      /\ Alive /\ Alive' /\ UNCHANGED <<replies, issued, nbd, request, got, buffer, mbr>>
      /\ (sig => sig') /\ (nbd = "ended" => sig')
  BY DEF IInv, Reply, Alive, server, kernel
<1>1. Applied' = Applied /\ (Torn' <=> Torn)
  BY <1>0 DEF Applied, Torn
<1>2. ASSUME ~Torn'
      PROVE  \A b \in Blocks : \E w \in 0..(Applied' - 1) :
               mbr'[b] = <<w, w>> /\ LastWrite(w, b, Applied)'
  BY <1>0, <1>1, <1>2 DEF Stored, LastWrite, Writes
<1>3. Torn' => sig'
  BY <1>0, <1>1 DEF Stored
<1>4. ReadsSeeWrites'
  BY <1>0 DEF ReadsSeeWrites, LastWrite, Writes
<1>5. ASSUME NEW i \in DOMAIN to_kernel',
             to_kernel'[i].type = "reply", issued[to_kernel'[i].n].type = "read"
      PROVE  /\ i + 1 \in DOMAIN to_kernel'
             /\ to_kernel'[i + 1].type = "data"
             /\ Right(to_kernel[i].n, to_kernel[i + 1].data)'
  <2>1. \A n, d : Right(n, d)' <=> Right(n, d)
    BY <1>0 DEF Right, LastWrite, Writes
  <2>2. CASE nbd = "ended"
    <3>1. UNCHANGED to_kernel
      BY <2>2 DEF Reply
    <3> QED
      BY <1>0, <1>5, <2>1, <3>1 DEF Stored
  <2>3. CASE nbd # "ended"
    <3>1. CASE i \in DOMAIN to_kernel
      <4>1. to_kernel'[i] = to_kernel[i]
        BY <2>3, <3>1, Replying
      <4>2. i + 1 \in DOMAIN to_kernel /\ to_kernel[i + 1].type = "data"
            /\ Right(to_kernel[i].n, to_kernel[i + 1].data)
        BY <1>0, <1>5, <3>1, <4>1 DEF Stored
      <4>3. i + 1 \in DOMAIN to_kernel' /\ to_kernel'[i + 1] = to_kernel[i + 1]
        BY <2>3, <4>2, Replying
      <4> QED
        BY <2>1, <4>1, <4>2, <4>3
    <3>2. CASE i \notin DOMAIN to_kernel
      <4>1. /\ Len(to_kernel') = Len(to_kernel) + (IF request.type = "read" THEN 2 ELSE 1)
            /\ Len(to_kernel) \in Nat /\ DOMAIN to_kernel = 1..Len(to_kernel)
            /\ DOMAIN to_kernel' = 1..Len(to_kernel')
        BY <2>3, Replying
      <4>2. i = Len(to_kernel) + 1 \/ (i = Len(to_kernel) + 2 /\ request.type = "read")
        BY <3>2, <4>1
      <4>3. i = Len(to_kernel) + 1
        BY <1>5, <2>3, <4>2, Replying
      <4>4. to_kernel'[i].n = request.n /\ request = issued[request.n] /\ request.type = "read"
        BY <1>5, <2>3, <4>3, Replying
      <4>5. i + 1 = Len(to_kernel) + 2 /\ i + 1 \in DOMAIN to_kernel'
        BY <4>1, <4>3, <4>4
      <4>6. to_kernel'[i + 1].type = "data" /\ to_kernel'[i + 1].data = buffer
        BY <2>3, <4>4, <4>5, Replying
      <4>7. Right(request.n, buffer)
        BY <1>0, <4>4 DEF Stored
      <4> QED
        BY <2>1, <4>4, <4>5, <4>6, <4>7
    <3> QED
      BY <3>1, <3>2
  <2> QED
    BY <2>2, <2>3
<1> QED
  BY <1>0, <1>2, <1>3, <1>4, <1>5 DEF Stored

LEMMA StoredTakeReply == IInv /\ TakeReply => Stored' /\ ReadsSeeWrites'
<1> SUFFICES ASSUME IInv, TakeReply PROVE Stored' /\ ReadsSeeWrites'
  OBVIOUS
<1>0. /\ TypeOK /\ Stored /\ Serving /\ ReadsSeeWrites /\ to_kernel # << >>
      /\ UNCHANGED <<pc, sig, issued, request, got, buffer, mbr>>
  BY DEF IInv, TakeReply, KernelEnds, server, proc
<1>1. PICK d \in {1, 2} :
           /\ Len(to_kernel') = Len(to_kernel) - d
           /\ DOMAIN to_kernel = 1..Len(to_kernel) /\ DOMAIN to_kernel' = 1..Len(to_kernel')
           /\ Len(to_kernel) \in Nat /\ 1 \in DOMAIN to_kernel
           /\ \A i \in DOMAIN to_kernel' : i + d \in DOMAIN to_kernel /\ to_kernel'[i] = to_kernel[i + d]
           /\ \A i \in DOMAIN to_kernel : i <= d \/ i - d \in DOMAIN to_kernel'
           /\ d = 2 => to_kernel[2].type = "data"
           /\ IF Waiting(to_kernel[1].n)
              THEN /\ d = IF issued[to_kernel[1].n].type = "read" THEN 2 ELSE 1
                   /\ replies' = Append(replies,
                         [n |-> to_kernel[1].n,
                          data |-> IF d = 2 THEN to_kernel[2].data ELSE << >>])
                   /\ nbd' = nbd
              ELSE d = 1 /\ UNCHANGED replies /\ KernelEnds
  BY Taking
<1>2. \A n, x : Right(n, x)' <=> Right(n, x)
  BY <1>0 DEF Right, LastWrite, Writes
<1>3. ASSUME NEW i \in DOMAIN to_kernel',
             to_kernel'[i].type = "reply", issued[to_kernel'[i].n].type = "read"
      PROVE  /\ i + 1 \in DOMAIN to_kernel'
             /\ to_kernel'[i + 1].type = "data"
             /\ Right(to_kernel[i].n, to_kernel[i + 1].data)'
  <2>1. i + d \in DOMAIN to_kernel /\ to_kernel'[i] = to_kernel[i + d] /\ i \in Nat /\ i >= 1
    BY <1>1
  <2>2. (i + d) + 1 \in DOMAIN to_kernel /\ to_kernel[(i + d) + 1].type = "data"
        /\ Right(to_kernel[i + d].n, to_kernel[(i + d) + 1].data)
    BY <1>0, <1>3, <2>1 DEF Stored
  <2>3. i + 1 \in DOMAIN to_kernel' /\ (i + 1) + d = (i + d) + 1
    BY <1>1, <2>1, <2>2
  <2>4. to_kernel'[i + 1] = to_kernel[(i + d) + 1]
    BY <1>1, <2>3
  <2> QED
    BY <1>2, <2>1, <2>2, <2>3, <2>4
<1>4. ReadsSeeWrites'
  <2> SUFFICES ASSUME NEW i \in DOMAIN replies', issued[replies'[i].n].type = "read"
               PROVE  Right(replies'[i].n, replies'[i].data)
    BY <1>0 DEF ReadsSeeWrites, Right, LastWrite, Writes
  <2>1. CASE i \in DOMAIN replies /\ replies'[i] = replies[i]
    BY <1>0, <2>1 DEF ReadsSeeWrites, Right
  <2>2. CASE ~(i \in DOMAIN replies /\ replies'[i] = replies[i])
    <3>1. Waiting(to_kernel[1].n)
      BY <1>1, <2>2
    <3>2. replies' = Append(replies, [n |-> to_kernel[1].n,
                                      data |-> IF d = 2 THEN to_kernel[2].data ELSE << >>])
      BY <1>1, <3>1
    <3>3. replies'[i] = [n |-> to_kernel[1].n, data |-> IF d = 2 THEN to_kernel[2].data ELSE << >>]
      BY <1>0, <2>2, <3>2 DEF TypeOK
    <3>4. issued[to_kernel[1].n].type = "read"
      BY <3>3
    <3>5. d = 2
      BY <1>1, <3>1, <3>4
    <3> QED
      BY <1>0, <3>1, <3>3, <3>4, <3>5, FirstAnswer
  <2> QED
    BY <2>1, <2>2
<1>5. /\ Alive' = Alive /\ Applied' = Applied /\ (Torn' <=> Torn)
      /\ nbd = "ended" => nbd' = "ended"
  BY <1>0, <1>1 DEF Alive, Applied, Torn, KernelEnds
<1>6. /\ Alive' /\ ~Torn' =>
           \A b \in Blocks : \E w \in 0..(Applied' - 1) :
               mbr'[b] = <<w, w>> /\ LastWrite(w, b, Applied)'
      /\ Torn' => sig' \/ (pc' = "reply" /\ nbd' = "ended")
      /\ pc' = "put" /\ got' < 2 => sig' \/ nbd' = "ended"
      /\ pc' \in {"payload", "put"} => \A k \in 1..got' : buffer'[k] = request'.n
      /\ pc' = "reply" /\ request'.type = "read" => Right(request.n, buffer)'
  BY <1>0, <1>2, <1>5 DEF Stored, LastWrite, Writes
<1> QED
  BY <1>0, <1>3, <1>4, <1>6 DEF Stored

LEMMA StoredRequest == IInv /\ Request => Stored' /\ ReadsSeeWrites'
<1> SUFFICES ASSUME IInv, Request PROVE Stored' /\ ReadsSeeWrites'
  OBVIOUS
<1>0. TypeOK /\ DOMAIN issued = 1..Len(issued)
  BY DEF IInv, TypeOK
<1>1. /\ UNCHANGED <<pc, sig, got, request, nbd, replies, to_kernel, buffer, mbr>>
      /\ \A m \in DOMAIN issued : m \in DOMAIN issued' /\ issued'[m] = issued[m]
  BY <1>0, RequestIssues
<1> QED
  BY <1>1, StoredRests DEF Alive, Applied, Torn

-----------------------------------------------------------------------------
\* All steps.

LEMMA AnsweringStep == IInv /\ [Next]_vars => Serving' /\ RepliesInOrder'
<1> SUFFICES ASSUME IInv, [Next]_vars PROVE Serving' /\ RepliesInOrder'
  OBVIOUS
<1>1. CASE Setup \/ ClearSock \/ Login \/ Stop \/ Cleanup \/ Join
  BY <1>1, ServingRests
  DEF Setup, ClearSock, Login, Stop, Cleanup, Join, Leave, Go, server, kernel, pipe,
      Alive, InHand, Answering
<1>2. CASE GetBin \/ RecvChunk \/ RecvDone \/ SetBin
  BY <1>2, ServingRests
  DEF GetBin, RecvChunk, RecvDone, SetBin, Leave, Go, server, kernel, pipe,
      Alive, InHand, Answering
<1>3. CASE SetSock \/ DoIt \/ SendChunk \/ UNCHANGED vars
  <2>1. UNCHANGED <<to_kernel, replies, request, handle, pc>>
        /\ UNCHANGED issued /\ (nbd = "ended" => nbd' = "ended")
    BY <1>3 DEF SetSock, DoIt, SendChunk, server, kernel, pipe, vars, IInv, Control
  <2> QED
    BY <2>1, ServingRests DEF Alive, InHand, Answering
<1>4. CASE PeerClosed \/ GivesUp
  BY <1>4, ServingRests DEF PeerClosed, GivesUp, KernelEnds, server, Alive, InHand, Answering
<1>5. CASE Signal
  BY <1>5, ServingRests DEF Signal, kernel, pipe, Alive, InHand, Answering
<1> QED
  BY <1>1, <1>2, <1>3, <1>4, <1>5, ServingNextRequest, ServingReply, ServingRequest, ServingTakeReply
  DEF Next, Main, Thread, Kernel

LEMMA StoringStep == IInv /\ [Next]_vars => Stored' /\ ReadsSeeWrites'
<1> SUFFICES ASSUME IInv, [Next]_vars PROVE Stored' /\ ReadsSeeWrites'
  OBVIOUS
<1>0. TypeOK /\ Control /\ Pipe
  BY DEF IInv
<1>1. CASE Setup \/ ClearSock \/ Stop \/ Cleanup \/ Join
  BY <1>1, StoredRests
  DEF Setup, ClearSock, Stop, Cleanup, Join, Leave, Go, server, proc, kernel, pipe,
      Alive, Applied, Torn
<1>2. CASE Login
  <2>1. request.type # "write"
    BY <1>0, <1>2 DEF Login, Pipe, Alive
  <2> QED
    BY <1>2, <2>1, StoredRests DEF Login, Leave, Go, server, proc, kernel, pipe, Alive, Applied, Torn
<1>3. CASE RecvDone
  <2>1. got = 2 \/ sig \/ nbd = "ended"
    BY <1>0, <1>3 DEF RecvDone, Missing, Control, TypeOK
  <2>2. UNCHANGED <<to_kernel, replies, mbr, request, got, buffer, issued, sig, nbd>>
        /\ pc = "payload" /\ pc' = "put"
    BY <1>3 DEF RecvDone, Go, server, proc, kernel, pipe
  <2> QED
    BY <2>1, <2>2, StoredRests DEF Alive, Applied, Torn
<1>4. CASE SetSock \/ DoIt \/ SendChunk \/ UNCHANGED vars
  <2>1. UNCHANGED <<to_kernel, replies, mbr, request, got, buffer, pc, sig, issued>>
        /\ (nbd = "ended" => nbd' = "ended")
    BY <1>0, <1>4 DEF SetSock, DoIt, SendChunk, server, proc, kernel, pipe, vars, Control
  <2> QED
    BY <2>1, StoredRests DEF Alive, Applied, Torn
<1>5. CASE PeerClosed \/ GivesUp
  BY <1>5, StoredRests DEF PeerClosed, GivesUp, KernelEnds, server, proc, Alive, Applied, Torn
<1>6. CASE Signal
  <2>1. UNCHANGED <<to_kernel, replies, mbr, request, got, buffer, issued, nbd>>
        /\ (pc' = pc \/ pc' = "exited") /\ (sig => sig')
    BY <1>6 DEF Signal, kernel, pipe
  <2> QED
    BY <2>1, StoredRests DEF Alive, Applied, Torn
<1> QED
  BY <1>1, <1>2, <1>3, <1>4, <1>5, <1>6, StoredNextRequest, StoredGetBin, StoredRecvChunk,
     StoredSetBin, StoredReply, StoredTakeReply, StoredRequest
  DEF Next, Main, Thread, Kernel

LEMMA BridgeInit == Init => IInv
<1> SUFFICES ASSUME Init PROVE IInv
  OBVIOUS
<1>1. TypeOK
  BY TypeInit
<1>2. /\ issued = << >> /\ to_bridge = << >> /\ to_kernel = << >> /\ replies = << >>
      /\ pc = "setup" /\ request.n = 0 /\ request.type = "none" /\ unsent = 0
  BY DEF Init, NoRequest
<1>3. Control /\ Numbered
  BY <1>2 DEF Init, Control, Numbered
<1>4. Pipe
  BY <1>2 DEF Pipe, Elementwise, Ordered, Later, NoneLost
<1>5. Serving /\ RepliesInOrder /\ ReadsSeeWrites
  BY <1>2 DEF Serving, RepliesInOrder, ReadsSeeWrites, InHand, Answering, Answered
<1>6. Stored
  <2>1. Applied = 1 /\ ~Torn
    BY <1>2 DEF Applied, Torn
  <2>2. \A b \in Blocks : mbr[b] = <<0, 0>>
    BY DEF Init
  <2>3. \A b \in Blocks : LastWrite(0, b, 1)
    <3>1. (0 + 1)..(1 - 1) = {}
      OBVIOUS
    <3> QED
      BY <3>1 DEF LastWrite
  <2> QED
    BY <1>2, <2>1, <2>2, <2>3 DEF Stored
<1> QED
  BY <1>1, <1>3, <1>4, <1>5, <1>6 DEF IInv

THEOREM BridgeInvariant == Spec => []IInv
<1>1. IInv /\ [Next]_vars => IInv'
  BY TypeStep, ControlStep, NumberedStep, PipeStep, AnsweringStep, StoringStep DEF IInv
<1> QED
  BY BridgeInit, <1>1, PTL DEF Spec

\* For any number of blocks, requests and signals, whatever the drive, the kernel
\* and the signals do: requests are answered once each, in the order in which
\* they came, and none is passed over (the reply structure that main2 keeps over
\* all requests, and the handle in it).
THEOREM InOrderOnce == Spec => []RepliesInOrder
<1>1. IInv => RepliesInOrder
  BY DEF IInv
<1> QED
  BY BridgeInvariant, <1>1, PTL

\* For any number of blocks, requests and signals, a read is answered with what
\* the last write before it has sent, and with all of it, although recv is not
\* asked how much it has received (table_set_bin after it).
THEOREM LastWriteRead == Spec => []ReadsSeeWrites
<1>1. IInv => ReadsSeeWrites
  BY DEF IInv
<1> QED
  BY BridgeInvariant, <1>1, PTL
=============================================================================
