------------------------------- MODULE Bridge -------------------------------
(***************************************************************************)
(* tp_mbr_bridge: the MBR shadow served to the kernel as a network block    *)
(* device.  Main program, NBD thread, signal handler and kernel interleave. *)
(*                                                                         *)
(* A write carries its data in two chunks, n and n for the n-th request.    *)
(* The kernel is modelled from its use: NBD_SET_SOCK, NBD_DO_IT until the   *)
(* other end is closed or a reply comes that nobody waits for; then it      *)
(* shuts the socket down.  NBD_CLEAR_SOCK takes the socket away, which      *)
(* NBD_DO_IT refuses if it comes later and does not notice if it runs.      *)
(* NBD_CMD_FLUSH is an enumerator, so the #ifdef drops its case; the kernel *)
(* does not send it without NBD_SET_FLAGS.                                  *)
(***************************************************************************)
EXTENDS Integers, Sequences

CONSTANTS
    Blocks,         \* of the MBR shadow
    MaxRequests,    \* of the kernel
    MaxSignals      \* SIGINT and SIGTERM

ASSUME SomeBlock == Blocks # {}

VARIABLES
    pc,             \* of main and main2
    rc,             \* exit status; -1 while the program runs
    sig,            \* an 'X' is in sig_pipe
    closed,         \* kern_pipe, sig_pipe and nbd are closed
    handle,         \* reply.handle
    request,        \* being served
    buffer, got,    \* data, and how many chunks recv has copied
    interrupted,    \* a signal came while recv waited
    mbr,
    kthread,        \* the NBD thread
    nbd,            \* socket of the block device
    to_bridge, to_kernel,   \* the two directions of kern_pipe
    unsent,         \* chunks of the last request that the kernel has yet to send
    issued, replies,        \* history: requests sent, replies taken by the kernel
    signals         \* history: signals so far

server == <<handle, request, buffer, got, interrupted, mbr>>
proc   == <<rc, sig, closed, signals>>
kernel == <<nbd, unsent, issued, replies>>
pipe   == <<to_bridge, to_kernel>>
vars   == <<pc, server, proc, kthread, kernel, pipe>>

NoRequest == [n |-> 0, type |-> "none", block |-> CHOOSE b \in Blocks : TRUE]

Init ==
    /\ pc = "setup" /\ rc = -1 /\ sig = FALSE /\ closed = FALSE /\ signals = 0
    /\ handle = 0 /\ request = NoRequest /\ buffer = <<0, 0>> /\ got = 0
    /\ interrupted = FALSE /\ mbr = [b \in Blocks |-> <<0, 0>>]
    /\ kthread = "none" /\ nbd = "none" /\ unsent = 0 /\ issued = << >> /\ replies = << >>
    /\ to_bridge = << >> /\ to_kernel = << >>

-----------------------------------------------------------------------------
\* main2 returns.
Leave(status) ==
    /\ pc' = "cleanup" /\ rc' = status
    /\ UNCHANGED <<sig, closed, signals>>

Go(step) == pc' = step /\ UNCHANGED proc

\* Pipes, handler, device; then the thread.  Any of it may fail.
Setup ==
    /\ pc = "setup"
    /\ \/ Leave(1) /\ UNCHANGED kthread
       \/ Go("created") /\ kthread' = "set"
    /\ UNCHANGED <<server, kernel, pipe>>

\* End of start_kern_process: NBD_CLEAR_SOCK, which waits for a request that is
\* being sent.
ClearSock ==
    /\ pc = "created" /\ unsent = 0
    /\ Go("login")
    /\ nbd' = CASE nbd = "set" -> "none" [] nbd = "serving" -> "dropped" [] OTHER -> nbd
    /\ UNCHANGED <<server, kthread, unsent, issued, replies, pipe>>

Login ==
    /\ pc = "login"
    /\ Leave(1) \/ Go("select")
    /\ UNCHANGED <<server, kthread, kernel, pipe>>

\* The pipe of the signals comes first.
Stop ==
    /\ pc = "select" /\ sig
    /\ Leave(0)
    /\ UNCHANGED <<server, kthread, kernel, pipe>>

\* The kernel has closed its end.
EndOfFile == Leave(1)

\* Mutant of HandleOf: a write is answered with the handle of before.
StaleHandle(r) == IF r.type = "write" THEN handle ELSE r.n

HandleOf(r) == r.n

\* What select and the recv of a request find; the rest of the data of a write
\* would have a bad magic number.
NextRequest ==
    /\ pc = "select" /\ ~sig
    /\ \/ to_bridge = << >> /\ nbd = "ended" /\ EndOfFile
          /\ UNCHANGED <<server, pipe>>
       \/ /\ to_bridge # << >>
          /\ LET r == Head(to_bridge) IN
             /\ IF r.type = "chunk" THEN Leave(1)
                ELSE Go(CASE r.type = "read"  -> "get"
                          [] r.type = "write" -> "payload"
                          [] OTHER            -> "reply")
             /\ request' = r /\ handle' = HandleOf(r)
          /\ got' = 0 /\ interrupted' = FALSE
          /\ to_bridge' = Tail(to_bridge)
          /\ UNCHANGED <<buffer, mbr, to_kernel>>
    /\ UNCHANGED <<kthread, kernel>>

\* Mutant of WriteAt: the offset is not used.
FirstBlock(r) == CHOOSE b \in Blocks : TRUE

WriteAt(r) == r.block

GetBin ==
    /\ pc = "get"
    /\ \/ Go("reply") /\ buffer' = mbr[request.block]
       \/ Leave(1) /\ UNCHANGED buffer
    /\ UNCHANGED <<handle, request, got, interrupted, mbr, kthread, kernel, pipe>>

\* recv (MSG_WAITALL) still waits for data.
Missing == got < 2

RecvChunk ==
    /\ pc = "payload" /\ Missing /\ to_bridge # << >>
    /\ buffer' = IF got < 2 THEN [buffer EXCEPT ![got + 1] = Head(to_bridge).n] ELSE buffer
    /\ got' = got + 1 /\ to_bridge' = Tail(to_bridge)
    /\ UNCHANGED <<pc, proc, handle, request, interrupted, mbr, kthread, kernel, to_kernel>>

\* recv returns, with less than it was asked for after a signal or at the end of
\* the file; its result is not looked at.
RecvDone ==
    /\ pc = "payload"
    /\ \/ ~Missing
       \/ interrupted
       \/ to_bridge = << >> /\ nbd = "ended"
    /\ Go("put")
    /\ UNCHANGED <<server, kthread, kernel, pipe>>

\* A call that fails may have written the beginning of the data.
SetBin ==
    /\ pc = "put"
    /\ \/ Go("reply") /\ mbr' = [mbr EXCEPT ![WriteAt(request)] = buffer]
       \/ /\ Leave(1)
          /\ \E data \in {mbr[WriteAt(request)], [mbr[WriteAt(request)] EXCEPT ![1] = buffer[1]], buffer} :
               mbr' = [mbr EXCEPT ![WriteAt(request)] = data]
    /\ UNCHANGED <<handle, request, buffer, got, interrupted, kthread, kernel, pipe>>

\* To a socket the kernel has shut down, SIGPIPE is the answer.  Header and data
\* are sent by two calls and are one step here: a signal between them only fills
\* sig_pipe, and the kernel takes the answer to a read together with its data.
Reply ==
    LET head == [type |-> "reply", n |-> handle, error |-> request.type = "disc", data |-> << >>]
        data == [type |-> "data", n |-> 0, error |-> FALSE, data |-> buffer]
    IN  /\ pc = "reply" /\ pc' = "select"
        /\ IF nbd = "ended" THEN sig' = TRUE /\ UNCHANGED to_kernel
           ELSE /\ to_kernel' = to_kernel \o (IF request.type = "read" THEN <<head, data>> ELSE <<head>>)
                /\ UNCHANGED sig
        /\ UNCHANGED <<rc, closed, signals, server, kthread, kernel, to_bridge>>

\* Mutant of CloseAll: the socket of the kernel is forgotten.
CloseSome == FALSE

\* The pipes and the block device.
CloseAll == TRUE

Cleanup ==
    /\ pc = "cleanup"
    /\ closed' = CloseAll
    /\ pc' = IF kthread = "none" THEN "exited" ELSE "join"
    /\ UNCHANGED <<rc, sig, signals, server, kthread, kernel, pipe>>

Join ==
    /\ pc = "join" /\ kthread \in {"done", "failed"}
    /\ Go("exited")
    /\ UNCHANGED <<server, kthread, kernel, pipe>>

\* sig_handler; without a pipe it exits at once.
Signal ==
    /\ pc \notin {"setup", "exited"} /\ signals < MaxSignals
    /\ signals' = signals + 1
    /\ IF closed THEN pc' = "exited" /\ rc' = 0 /\ UNCHANGED sig
                 ELSE sig' = TRUE /\ UNCHANGED <<pc, rc>>
    /\ interrupted' = (interrupted \/ (pc = "payload" /\ Missing /\ to_bridge = << >>))
    /\ UNCHANGED <<closed, handle, request, buffer, got, mbr, kthread, kernel, pipe>>

-----------------------------------------------------------------------------
\* kern_thread.
SetSock ==
    /\ kthread = "set" /\ pc # "exited"
    /\ \/ kthread' = "failed" /\ UNCHANGED nbd
       \/ ~closed /\ kthread' = "doit" /\ nbd' = "set"
    /\ UNCHANGED <<pc, proc, server, unsent, issued, replies, pipe>>

DoIt ==
    /\ kthread = "doit" /\ pc # "exited"
    /\ IF closed \/ nbd = "none" THEN kthread' = "done" /\ UNCHANGED nbd
       ELSE kthread' = "running" /\ nbd' = "serving"
    /\ UNCHANGED <<pc, proc, server, unsent, issued, replies, pipe>>

\* The kernel stops: its peer has closed, the reply is nobody's, or for a reason
\* of its own.
KernelEnds ==
    /\ kthread' = "done" /\ nbd' = "ended" /\ unsent' = 0
    /\ UNCHANGED <<pc, proc, server, issued, replies, to_bridge>>

PeerClosed == kthread = "running" /\ closed /\ KernelEnds /\ UNCHANGED to_kernel

GivesUp == nbd = "serving" /\ ~closed /\ KernelEnds /\ UNCHANGED to_kernel

Request ==
    /\ nbd = "serving" /\ unsent = 0 /\ ~closed /\ Len(issued) < MaxRequests
    /\ \E t \in {"read", "write", "disc"}, b \in Blocks :
         LET r == [n |-> Len(issued) + 1, type |-> t, block |-> b] IN
         /\ issued' = Append(issued, r) /\ to_bridge' = Append(to_bridge, r)
         /\ unsent' = IF t = "write" THEN 2 ELSE 0
    /\ UNCHANGED <<pc, proc, server, kthread, nbd, replies, to_kernel>>

SendChunk ==
    /\ nbd = "serving" /\ unsent > 0 /\ ~closed
    /\ unsent' = unsent - 1
    /\ to_bridge' = Append(to_bridge, [n |-> Len(issued), type |-> "chunk", block |-> issued[Len(issued)].block])
    /\ UNCHANGED <<pc, proc, server, kthread, nbd, issued, replies, to_kernel>>

Waiting(n) ==
    /\ n \in DOMAIN issued /\ issued[n].type # "disc"
    /\ \A i \in DOMAIN replies : replies[i].n # n

TakeReply ==
    /\ nbd = "serving" /\ to_kernel # << >>
    /\ LET head == Head(to_kernel) IN
       IF Waiting(head.n)
       THEN LET read == issued[head.n].type = "read" IN
            /\ replies' = Append(replies, [n |-> head.n, data |->
                              IF read THEN to_kernel[2].data ELSE << >>])
            /\ to_kernel' = SubSeq(to_kernel, IF read THEN 3 ELSE 2, Len(to_kernel))
            /\ UNCHANGED <<pc, proc, server, kthread, nbd, unsent, issued, to_bridge>>
       ELSE to_kernel' = Tail(to_kernel) /\ KernelEnds

-----------------------------------------------------------------------------
Main == \/ Setup \/ ClearSock \/ Login \/ Stop \/ NextRequest \/ GetBin \/ RecvChunk
        \/ RecvDone \/ SetBin \/ Reply \/ Cleanup \/ Join
Thread == SetSock \/ DoIt \/ PeerClosed
Kernel == Request \/ TakeReply \/ GivesUp

Next == Main \/ Thread \/ Kernel \/ SendChunk \/ Signal

Spec == Init /\ [][Next]_vars

\* The program and its thread run on, and the kernel finishes what it has begun
\* to send and reads what it is sent; it need not ask for anything.
FairSpec == Spec /\ WF_vars(Main) /\ WF_vars(Thread) /\ WF_vars(SendChunk) /\ WF_vars(TakeReply)
-----------------------------------------------------------------------------

Answers(m) == m.type = "reply" /\ ~m.error

\* A request is answered if the kernel has the answer, or it is on the way.
Answered(n) ==
    \/ \E i \in DOMAIN replies : replies[i].n = n
    \/ \E i \in DOMAIN to_kernel : Answers(to_kernel[i]) /\ to_kernel[i].n = n

\* Requests are answered once each, in the order in which they came, and none is
\* passed over, but for DISC, whose answers with an error nobody waits for.
RepliesInOrder ==
    /\ \A i, j \in DOMAIN replies : i < j => replies[i].n < replies[j].n
    /\ \A i, j \in DOMAIN to_kernel :
         i < j /\ Answers(to_kernel[i]) /\ Answers(to_kernel[j]) => to_kernel[i].n < to_kernel[j].n
    /\ \A i \in DOMAIN replies, j \in DOMAIN to_kernel :
         Answers(to_kernel[j]) => replies[i].n < to_kernel[j].n
    /\ \A n \in DOMAIN issued :
         Answered(n) => \A m \in 1..n : Answered(m) <=> issued[m].type # "disc"

Writes(m, b) == issued[m].type = "write" /\ issued[m].block = b

\* The w-th request is the last write to a block before the n-th, if w is not 0.
LastWrite(w, b, n) ==
    /\ w = 0 \/ Writes(w, b)
    /\ \A m \in (w + 1)..(n - 1) : ~Writes(m, b)

\* A read is answered with what the last write before it has sent, an earlier
\* one in the pipe included.  A write whose recv was cut short is in the MBR
\* with half of its data, but no read is served after it.
ReadsSeeWrites ==
    \A i \in DOMAIN replies :
        LET n == replies[i].n IN
        issued[n].type = "read" =>
            \E w \in 0..(n - 1) : replies[i].data = <<w, w>> /\ LastWrite(w, issued[n].block, n)

\* After a signal the program ends, whatever it was waiting for, and so it does
\* when the block device is disconnected (its DISC is answered with an error,
\* which makes the kernel close the socket); its thread does not hold it up.
EndsWhenTold == (signals > 0 \/ nbd = "ended") ~> (pc = "exited")

\* "And we're up!": the kernel has not lost the socket to the setup.
UpMeansServing ==
    pc = "select" => nbd # "dropped" /\ ~(kthread = "done" /\ nbd = "none")
=============================================================================
