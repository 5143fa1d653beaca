----------------------------- MODULE RingServer -----------------------------
(***************************************************************************)
(* The second server (Iocp_Echo_LockFree): an array of session slots that  *)
(* the accept thread searches for a free one, and a ring of packet         *)
(* pointers per session that is filled by the thread that handles a        *)
(* receive and gathered in place by the thread that owns _sendFlag.  One   *)
(* action per step that another thread can observe.                        *)
(*                                                                         *)
(* A connection stands for its SOCKET, and a packet is the number of the   *)
(* message it answers, 0 for the login packet.  A receive completion       *)
(* carries whole messages.  The ring is used through its contents: PtrRing *)
(* implements it.  A packet is deleted when it leaves the ring.            *)
(***************************************************************************)
EXTENDS Integers, Sequences, FiniteSets

Seqs == INSTANCE SequencesExt

CONSTANTS
  Workers,      \* threads running NetworkThread
  Acceptor,     \* the thread running AcceptThread
  SessionMax,   \* length of g_SessionArray
  RingMax,      \* pointers that fit into _sendBuf (250 in the code)
  Conns,        \* connections that may arrive (each at most once)
  MaxMsg,       \* bound: messages a client sends
  Window,       \* messages a client sends ahead of the echoes it received
  None          \* no session, INVALID_SOCKET

Threads  == Workers \cup {Acceptor}
Sessions == 0 .. SessionMax - 1
Garbage  == -1   \* no packet

ASSUME ConstantsAssumption ==
  /\ IsFiniteSet(Workers) /\ Acceptor \notin Workers
  /\ SessionMax \in Nat \ {0} /\ RingMax \in Nat \ {0}
  /\ MaxMsg \in Nat /\ Window \in Nat
  /\ None \notin Conns \cup Sessions

VARIABLES
  pc, cur, op, batch, scan,                \* threads; scan: AcceptThread's i
  sock, invalidFlag, ioCount,              \* sessions
  sendFlag, sendCount, sendBuf,
  recvIO, recvLen, sendIO, lent,           \* the kernel's view of a session:
                                           \* lent, the packets of its WSASend
  conn, arrived, echoed                    \* connections; packets delivered

threadVars == <<pc, cur, op, batch, scan>>
slotVars   == <<sock, invalidFlag>>
sendVars   == <<sendFlag, sendCount, sendBuf>>
ioVars     == <<recvIO, recvLen, sendIO, lent>>
netVars    == <<conn, arrived, echoed>>
vars       == <<threadVars, slotVars, ioCount, sendVars, ioVars, netVars>>

Init ==
  /\ pc = [t \in Threads |-> IF t = Acceptor THEN "accept" ELSE "gqcs"]
  /\ cur = [t \in Threads |-> None] /\ op = [t \in Threads |-> "none"]
  /\ batch = [t \in Threads |-> 0] /\ scan = 0
  /\ sock = [s \in Sessions |-> None] /\ invalidFlag = [s \in Sessions |-> -1]
  /\ ioCount = [s \in Sessions |-> 0] /\ sendFlag = [s \in Sessions |-> 0]
  /\ sendCount = [s \in Sessions |-> 0] /\ sendBuf = [s \in Sessions |-> <<>>]
  /\ recvIO = [s \in Sessions |-> "none"] /\ recvLen = [s \in Sessions |-> 0]
  /\ sendIO = [s \in Sessions |-> "none"] /\ lent = [s \in Sessions |-> <<>>]
  /\ conn = [c \in Conns |-> "new"] /\ arrived = [c \in Conns |-> 0]
  /\ echoed = [c \in Conns |-> <<>>]

Goto(t, l) == pc' = [pc EXCEPT ![t] = l]
GoHome(t) ==
  /\ Goto(t, IF t = Acceptor THEN "accept" ELSE "gqcs")
  /\ cur' = [cur EXCEPT ![t] = None]
  /\ op' = [op EXCEPT ![t] = "none"]
\* where SendPost returns to
AfterSend(t) == CASE op[t] = "accept" -> "recvPost"
                  [] op[t] = "recv"   -> "loop"
                  [] OTHER            -> "ioDec"

(***************************************************************************)
(* AcceptThread                                                            *)
(***************************************************************************)
\* a client comes while there is a free slot (with none, the search below
\* ends in a DebugBreak)
Accept(c) ==
  /\ pc[Acceptor] = "accept" /\ conn[c] = "new"
  /\ \E s \in Sessions : invalidFlag[s] = -1
  /\ conn' = [conn EXCEPT ![c] = "open"]
  /\ Goto(Acceptor, "scan")
  /\ cur' = [cur EXCEPT ![Acceptor] = c]
  /\ op' = [op EXCEPT ![Acceptor] = "accept"]
  /\ scan' = 0
  /\ UNCHANGED <<batch, slotVars, ioCount, sendVars, ioVars, arrived, echoed>>

\* InterlockedExchange(&_invalidFlag, 1) on one slot after the other until
\* one was free; then Session::Clear and the accept thread's own reference
AcceptScan ==
  /\ pc[Acceptor] = "scan"
  /\ invalidFlag' = [invalidFlag EXCEPT ![scan] = 1]
  /\ IF invalidFlag[scan] = -1
       THEN /\ Goto(Acceptor, "init")
            /\ UNCHANGED scan
       ELSE /\ Goto(Acceptor, IF scan = SessionMax - 1 THEN "breakSlots" ELSE "scan")
            /\ scan' = IF scan = SessionMax - 1 THEN scan ELSE scan + 1
  /\ UNCHANGED <<cur, op, batch, sock, ioCount, sendVars, ioVars, netVars>>

InitSession ==
  /\ pc[Acceptor] = "init"
  /\ Goto(Acceptor, "onAccept")
  /\ cur' = [cur EXCEPT ![Acceptor] = scan]
  /\ sock' = [sock EXCEPT ![scan] = cur[Acceptor]]
  /\ sendCount' = [sendCount EXCEPT ![scan] = 0]
  /\ sendBuf' = [sendBuf EXCEPT ![scan] = <<>>]
  /\ sendFlag' = [sendFlag EXCEPT ![scan] = 0]
  /\ ioCount' = [ioCount EXCEPT ![scan] = @ + 1]
  /\ UNCHANGED <<op, batch, scan, invalidFlag, ioVars, netVars>>

\* SendPacket up to SendPost: Enqueue into a full ring is a DebugBreak
SendPacket(t, packet) ==
  LET s == cur[t] IN
  IF Len(sendBuf[s]) = RingMax
    THEN Goto(t, "breakFull") /\ UNCHANGED sendBuf
    ELSE /\ Goto(t, "size1")
         /\ sendBuf' = [sendBuf EXCEPT ![s] = Append(@, packet)]

OnAccept ==
  /\ pc[Acceptor] = "onAccept"
  /\ SendPacket(Acceptor, 0)
  /\ UNCHANGED <<cur, op, batch, scan, slotVars, ioCount, sendFlag, sendCount, ioVars, netVars>>

(***************************************************************************)
(* NetworkThread                                                           *)
(***************************************************************************)
\* GetQueuedCompletionStatus returns the receive of session s
DequeueRecv(t, s) ==
  /\ pc[t] = "gqcs" /\ recvIO[s] = "done"
  /\ Goto(t, IF sock[s] = None THEN "breakSock"
             ELSE IF recvLen[s] = 0 THEN "ioDec" ELSE "loop")
  /\ cur' = [cur EXCEPT ![t] = s]
  /\ op' = [op EXCEPT ![t] = "recv"]
  /\ batch' = [batch EXCEPT ![t] = recvLen[s]]
  /\ recvIO' = [recvIO EXCEPT ![s] = "none"]
  /\ recvLen' = [recvLen EXCEPT ![s] = 0]
  /\ UNCHANGED <<scan, slotVars, ioCount, sendVars, sendIO, lent, netVars>>

\* ... or its send
DequeueSend(t, s) ==
  /\ pc[t] = "gqcs" /\ sendIO[s] \in {"done", "aborted"}
  /\ Goto(t, IF sock[s] = None THEN "breakSock"
             ELSE IF sendIO[s] = "aborted" THEN "ioDec" ELSE "sendDone")
  /\ cur' = [cur EXCEPT ![t] = s]
  /\ op' = [op EXCEPT ![t] = "send"]
  /\ sendIO' = [sendIO EXCEPT ![s] = "none"]
  /\ lent' = [lent EXCEPT ![s] = <<>>]
  /\ UNCHANGED <<batch, scan, slotVars, ioCount, sendVars, recvIO, recvLen, netVars>>

\* _sendCount packets leave the ring and are deleted
\* (faulty variants: one packet stays; the count stays)
SendDoneLeaving(t, staying, count) ==
  LET s == cur[t] IN
  /\ pc[t] = "sendDone"
  /\ Goto(t, CASE sendCount[s] = 0               -> "breakCount"
               [] sendCount[s] > Len(sendBuf[s]) -> "breakEmpty"
               [] OTHER                          -> "flagClear")
  /\ sendBuf' = [sendBuf EXCEPT ![s] = SubSeq(@, sendCount[s] + 1 - staying, Len(@))]
  /\ sendCount' = [sendCount EXCEPT ![s] = count]
  /\ UNCHANGED <<cur, op, batch, scan, slotVars, ioCount, sendFlag, ioVars, netVars>>
SendDoneShort(t)      == SendDoneLeaving(t, 1, 0)
SendDoneKeepsCount(t) == SendDoneLeaving(t, 0, sendCount[cur[t]])
SendDone(t)           == SendDoneLeaving(t, 0, 0)

FlagClear(t) ==
  /\ pc[t] = "flagClear"
  /\ Goto(t, "size1")
  /\ sendFlag' = [sendFlag EXCEPT ![cur[t]] = 0]
  /\ UNCHANGED <<cur, op, batch, scan, slotVars, ioCount, sendCount, sendBuf, ioVars, netVars>>

\* one turn of ProcessRecvMessage's loop: OnRecv
ProcessMessage(t) ==
  /\ pc[t] = "loop" /\ batch[t] > 0
  /\ SendPacket(t, arrived[sock[cur[t]]] - batch[t] + 1)
  /\ batch' = [batch EXCEPT ![t] = @ - 1]
  /\ UNCHANGED <<cur, op, scan, slotVars, ioCount, sendFlag, sendCount, ioVars, netVars>>

ProcessEnd(t) ==
  /\ pc[t] = "loop" /\ batch[t] = 0
  /\ Goto(t, "recvPost")
  /\ UNCHANGED <<cur, op, batch, scan, slotVars, ioCount, sendVars, ioVars, netVars>>

(***************************************************************************)
(* RecvPost                                                                *)
(***************************************************************************)
RecvPost(t) ==
  LET s == cur[t] IN
  /\ pc[t] = "recvPost"
  /\ Goto(t, IF sock[s] = None THEN "breakSock" ELSE "wsaRecv")
  /\ ioCount' = [ioCount EXCEPT ![s] = @ + 1]
  /\ recvIO' = [recvIO EXCEPT ![s] = "posting"]
  /\ UNCHANGED <<cur, op, batch, scan, slotVars, sendVars, recvLen, sendIO, lent, netVars>>

WSARecvPosted(t) ==
  /\ pc[t] = "wsaRecv"
  /\ Goto(t, "ioDec")
  /\ recvIO' = [recvIO EXCEPT ![cur[t]] = "pending"]
  /\ UNCHANGED <<cur, op, batch, scan, slotVars, ioCount, sendVars, recvLen, sendIO, lent, netVars>>

\* the call fails on a broken connection and gives its reference back
\* (faulty variant: none)
WSARecvFailsGiving(t, references) ==
  LET s == cur[t] IN
  /\ pc[t] = "wsaRecv" /\ conn[sock[s]] = "reset"
  /\ Goto(t, "ioDec")
  /\ ioCount' = [ioCount EXCEPT ![s] = @ - references]
  /\ recvIO' = [recvIO EXCEPT ![s] = "none"]
  /\ UNCHANGED <<cur, op, batch, scan, slotVars, sendVars, recvLen, sendIO, lent, netVars>>
WSARecvFailsKeepsRef(t) == WSARecvFailsGiving(t, 0)
WSARecvFails(t)         == WSARecvFailsGiving(t, 1)

(***************************************************************************)
(* SendPost                                                                *)
(***************************************************************************)
SizeTest(t, at, zero, more) ==
  /\ pc[t] = at
  /\ Goto(t, IF sendBuf[cur[t]] = <<>> THEN zero ELSE more)
  /\ UNCHANGED <<cur, op, batch, scan, slotVars, ioCount, sendVars, ioVars, netVars>>

SendSize1(t) == SizeTest(t, "size1", AfterSend(t), "xchg")
\* (faulty variant: the flag's old value is not looked at)
SendXchgIf(t, owner) ==
  /\ pc[t] = "xchg"
  /\ Goto(t, IF owner THEN "size2" ELSE AfterSend(t))
  /\ sendFlag' = [sendFlag EXCEPT ![cur[t]] = 1]
  /\ UNCHANGED <<cur, op, batch, scan, slotVars, ioCount, sendCount, sendBuf, ioVars, netVars>>
SendXchgBlind(t) == SendXchgIf(t, TRUE)
SendXchg(t)      == SendXchgIf(t, sendFlag[cur[t]] = 0)
SendSize2(t) == SizeTest(t, "size2", "clear", "gather")
\* the ring was emptied meanwhile: the flag is given back, and that is all
SendClear(t) ==
  /\ pc[t] = "clear"
  /\ Goto(t, AfterSend(t))
  /\ sendFlag' = [sendFlag EXCEPT ![cur[t]] = 0]
  /\ UNCHANGED <<cur, op, batch, scan, slotVars, ioCount, sendCount, sendBuf, ioVars, netVars>>

\* SetSendWsabufs: all the packets, which stay in the ring
SendGather(t) ==
  /\ pc[t] = "gather"
  /\ Goto(t, "post")
  /\ lent' = [lent EXCEPT ![cur[t]] = sendBuf[cur[t]]]
  /\ UNCHANGED <<cur, op, batch, scan, slotVars, ioCount, sendVars, recvIO, recvLen, sendIO, netVars>>

\* the reference of the new operation, the check of _sock, _sendCount
SendPrepare(t) ==
  LET s == cur[t] IN
  /\ pc[t] = "post"
  /\ ioCount' = [ioCount EXCEPT ![s] = @ + 1]
  /\ sendIO' = [sendIO EXCEPT ![s] = "posting"]
  /\ IF sock[s] = None
       THEN Goto(t, "breakSock") /\ UNCHANGED sendCount
       ELSE /\ Goto(t, "wsaSend")
            /\ sendCount' = [sendCount EXCEPT ![s] = @ + Len(lent[s])]
  /\ UNCHANGED <<cur, op, batch, scan, slotVars, sendFlag, sendBuf, recvIO, recvLen, lent, netVars>>

WSASendPosted(t) ==
  /\ pc[t] = "wsaSend"
  /\ Goto(t, AfterSend(t))
  /\ sendIO' = [sendIO EXCEPT ![cur[t]] = "pending"]
  /\ UNCHANGED <<cur, op, batch, scan, slotVars, ioCount, sendVars, recvIO, recvLen, lent, netVars>>

\* the call fails on a broken connection: the flag, then the reference are
\* given back; _sendCount is not
WSASendFails(t) ==
  LET s == cur[t] IN
  /\ pc[t] = "wsaSend" /\ conn[sock[s]] = "reset"
  /\ Goto(t, "failClear")
  /\ lent' = [lent EXCEPT ![s] = <<>>]
  /\ UNCHANGED <<cur, op, batch, scan, slotVars, ioCount, sendVars, recvIO, recvLen, sendIO, netVars>>

SendFailClear(t) ==
  LET s == cur[t] IN
  /\ pc[t] = "failClear"
  /\ Goto(t, "failDec")
  /\ sendFlag' = [sendFlag EXCEPT ![s] = 0]
  /\ sendIO' = [sendIO EXCEPT ![s] = "none"]
  /\ UNCHANGED <<cur, op, batch, scan, slotVars, ioCount, sendCount, sendBuf, recvIO, recvLen, lent, netVars>>

SendFailDec(t) ==
  LET s == cur[t] IN
  /\ pc[t] = "failDec"
  /\ Goto(t, AfterSend(t))
  /\ ioCount' = [ioCount EXCEPT ![s] = @ - 1]
  /\ UNCHANGED <<cur, op, batch, scan, slotVars, sendVars, ioVars, netVars>>

SendPost(t) ==
  \/ SendSize1(t) \/ SendXchg(t) \/ SendSize2(t) \/ SendClear(t) \/ SendGather(t)
  \/ SendPrepare(t) \/ WSASendPosted(t) \/ WSASendFails(t)
  \/ SendFailClear(t) \/ SendFailDec(t)

(***************************************************************************)
(* The end of a completion, and Release                                    *)
(***************************************************************************)
\* InterlockedDecrement(&_IOCount): the thread that reaches zero releases
IODecrement(t) ==
  LET s == cur[t] IN
  /\ pc[t] = "ioDec"
  /\ ioCount' = [ioCount EXCEPT ![s] = @ - 1]
  /\ IF ioCount[s] = 1 THEN Goto(t, "drain") /\ UNCHANGED <<cur, op>> ELSE GoHome(t)
  /\ UNCHANGED <<batch, scan, slotVars, sendVars, ioVars, netVars>>

\* the packets in the ring are deleted
ReleaseDrain(t) ==
  /\ pc[t] = "drain"
  /\ Goto(t, "close")
  /\ sendBuf' = [sendBuf EXCEPT ![cur[t]] = <<>>]
  /\ UNCHANGED <<cur, op, batch, scan, slotVars, ioCount, sendFlag, sendCount, ioVars, netVars>>

\* closesocket
ReleaseClose(t) ==
  /\ pc[t] = "close"
  /\ Goto(t, "unsock")
  /\ conn' = [conn EXCEPT ![sock[cur[t]]] = "closed"]
  /\ UNCHANGED <<cur, op, batch, scan, slotVars, ioCount, sendVars, ioVars, arrived, echoed>>

\* the two stores that give the slot back, in this order
\* (faulty variant: the other one first)
FreeSlot(t) ==
  /\ invalidFlag' = [invalidFlag EXCEPT ![cur[t]] = -1]
  /\ UNCHANGED <<batch, scan, sock, ioCount, sendVars, ioVars, netVars>>
ReleaseUnsockLast(t) ==
  pc[t] = "unsock" /\ Goto(t, "free") /\ FreeSlot(t) /\ UNCHANGED <<cur, op>>
ReleaseUnsock(t) ==
  /\ pc[t] = "unsock"
  /\ Goto(t, "free")
  /\ sock' = [sock EXCEPT ![cur[t]] = None]
  /\ UNCHANGED <<cur, op, batch, scan, invalidFlag, ioCount, sendVars, ioVars, netVars>>
ReleaseFree(t) == pc[t] = "free" /\ GoHome(t) /\ FreeSlot(t)

Release(t) == ReleaseDrain(t) \/ ReleaseClose(t) \/ ReleaseUnsock(t) \/ ReleaseFree(t)

(***************************************************************************)
(* The clients and the kernel (external)                                   *)
(***************************************************************************)
ClientLeaves(c) ==
  /\ \/ conn[c] = "open" /\ conn' = [conn EXCEPT ![c] = "fin"]
     \/ conn[c] \in {"open", "fin"} /\ conn' = [conn EXCEPT ![c] = "reset"]
  /\ UNCHANGED <<threadVars, slotVars, ioCount, sendVars, ioVars, arrived, echoed>>

\* echoes the client has received, without the login packet
Answered(c) == IF echoed[c] = <<>> THEN 0 ELSE Len(echoed[c]) - 1

\* k messages arrive in the pending receive
RecvArrives(s, k) ==
  LET c == sock[s] IN
  /\ recvIO[s] = "pending" /\ conn[c] = "open"
  /\ arrived[c] + k <= MaxMsg /\ arrived[c] + k <= Answered(c) + Window
  /\ arrived' = [arrived EXCEPT ![c] = @ + k]
  /\ recvIO' = [recvIO EXCEPT ![s] = "done"]
  /\ recvLen' = [recvLen EXCEPT ![s] = k]
  /\ UNCHANGED <<threadVars, slotVars, ioCount, sendVars, sendIO, lent, conn, echoed>>

RecvEnds(s) ==
  /\ recvIO[s] = "pending" /\ conn[sock[s]] \in {"fin", "reset"}
  /\ recvIO' = [recvIO EXCEPT ![s] = "done"]
  /\ UNCHANGED <<threadVars, slotVars, ioCount, sendVars, recvLen, sendIO, lent, netVars>>

\* a packet that was deleted meanwhile goes out as Garbage
SendCompletes(s) ==
  LET read(i) == IF lent[s][i] \in Seqs!ToSet(sendBuf[s]) THEN lent[s][i] ELSE Garbage IN
  /\ sendIO[s] = "pending" /\ conn[sock[s]] \in {"open", "fin"}
  /\ sendIO' = [sendIO EXCEPT ![s] = "done"]
  /\ echoed' = [echoed EXCEPT ![sock[s]] = @ \o [i \in DOMAIN lent[s] |-> read(i)]]
  /\ UNCHANGED <<threadVars, slotVars, ioCount, sendVars, recvIO, recvLen, lent, conn, arrived>>

SendAborts(s) ==
  /\ sendIO[s] = "pending" /\ conn[sock[s]] = "reset"
  /\ sendIO' = [sendIO EXCEPT ![s] = "aborted"]
  /\ UNCHANGED <<threadVars, slotVars, ioCount, sendVars, recvIO, recvLen, lent, netVars>>

KernelCompletes(s) == RecvEnds(s) \/ SendCompletes(s) \/ SendAborts(s)

(***************************************************************************)
(* The specification                                                       *)
(***************************************************************************)
\* a DebugBreak ends the process
BreakPcs == {"breakSlots", "breakSock", "breakFull", "breakCount", "breakEmpty"}
Running  == \A t \in Threads : pc[t] \notin BreakPcs

SessionStep(t) ==
  \/ RecvPost(t) \/ WSARecvPosted(t) \/ WSARecvFails(t)
  \/ SendPost(t) \/ IODecrement(t) \/ Release(t)
WorkerStep(t) ==
  \/ \E s \in Sessions : DequeueRecv(t, s) \/ DequeueSend(t, s)
  \/ SendDone(t) \/ FlagClear(t) \/ ProcessMessage(t) \/ ProcessEnd(t)
  \/ SessionStep(t)
AcceptorStep == AcceptScan \/ InitSession \/ OnAccept \/ SessionStep(Acceptor)

Next ==
  /\ Running
  /\ \/ \E c \in Conns : Accept(c) \/ ClientLeaves(c)
     \/ \E t \in Workers : WorkerStep(t)
     \/ AcceptorStep
     \/ \E s \in Sessions :
          KernelCompletes(s) \/ \E k \in 1 .. MaxMsg : RecvArrives(s, k)

Spec == Init /\ [][Next]_vars

(***************************************************************************)
(* Properties                                                              *)
(***************************************************************************)
SendPcs    == {"size1", "xchg", "size2", "clear", "gather", "post", "wsaSend",
               "failClear", "failDec"}
\* where a thread acts on a reference of its own; where it owns _sendFlag
RefPcs     == SendPcs \cup {"onAccept", "loop", "recvPost", "wsaRecv", "sendDone",
               "flagClear", "ioDec"}
FlagPcs    == {"size2", "clear", "gather", "post", "wsaSend", "failClear",
               "sendDone", "flagClear"}
ReleasePcs == {"drain", "close", "unsock", "free"}
Pcs        == RefPcs \cup ReleasePcs \cup BreakPcs \cup {"accept", "scan", "init", "gqcs"}

At(s, pcs) == {t \in Threads : cur[t] = s /\ pc[t] \in pcs}
Busy(io)   == IF io = "none" THEN 0 ELSE 1
References(s) ==
  Cardinality(At(s, RefPcs)) + Cardinality(At(s, {"failDec"}))
  + Busy(recvIO[s]) + Busy(sendIO[s])

\* Every variable stays in its range.
TypeOK ==
  /\ pc \in [Threads -> Pcs] /\ cur \in [Threads -> Sessions \cup Conns \cup {None}]
  /\ op \in [Threads -> {"none", "accept", "recv", "send"}]
  /\ batch \in [Threads -> 0 .. MaxMsg] /\ scan \in Sessions
  /\ sock \in [Sessions -> Conns \cup {None}] /\ invalidFlag \in [Sessions -> {-1, 1}]
  /\ ioCount \in [Sessions -> Nat] /\ sendFlag \in [Sessions -> {0, 1}]
  /\ sendCount \in [Sessions -> Nat]
  /\ \A s \in Sessions : Len(sendBuf[s]) <= RingMax
  /\ recvIO \in [Sessions -> {"none", "posting", "pending", "done"}]
  /\ sendIO \in [Sessions -> {"none", "posting", "pending", "done", "aborted"}]
  /\ recvLen \in [Sessions -> 0 .. MaxMsg] /\ arrived \in [Conns -> 0 .. MaxMsg]
  /\ conn \in [Conns -> {"new", "open", "fin", "reset", "closed"}]

\* A slot marked free is referred to by nobody and has no socket; one that is
\* not is being set up, referred to, or released, so that no session is lost,
\* though the decrement after a failed WSARecv or WSASend (NetLib.cpp:151,
\* :222) does not look for zero.  One thread releases it, once, when nobody
\* refers to it any more.  (Every variable is in its range besides.)
SlotLife ==
  /\ TypeOK
  /\ \A s \in Sessions :
       IF invalidFlag[s] = -1
         THEN References(s) = 0 /\ sock[s] = None
         ELSE \/ References(s) > 0 \/ At(s, ReleasePcs) # {}
              \/ pc[Acceptor] = "init" /\ scan = s
  /\ \A t \in Threads : pc[t] \in ReleasePcs =>
       /\ References(cur[t]) = 0
       /\ At(cur[t], ReleasePcs) = {t}

\* At most one thread owns _sendFlag, only while no send is outstanding, and
\* the flag is set while a thread or a send owns it: two owners would gather
\* the same packets, or dequeue at the same time.
SendExclusive ==
  /\ \A t \in Threads :
       pc[t] \in FlagPcs =>
         /\ sendFlag[cur[t]] = 1
         /\ sendIO[cur[t]] = IF pc[t] \in {"wsaSend", "failClear"} THEN "posting" ELSE "none"
         /\ \A u \in Threads : pc[u] \in FlagPcs /\ cur[u] = cur[t] => u = t
  /\ \A s \in Sessions : sendIO[s] # "none" => sendFlag[s] = 1

\* No DebugBreak is reached: a ring of twice the clients' window never
\* overflows (a smaller one does), a free slot is found, _sock is valid where it is used,
\* and a completion finds the packets it sent.
NoDebugBreak == Running

\* The comment at NetLib.cpp:170-176: a queued packet is never orphaned.
\* While the connection works, somebody owns the flag or is about to try it.
NoOrphanedSend ==
  \A s \in Sessions :
    (/\ invalidFlag[s] = 1 /\ sock[s] # None /\ sendBuf[s] # <<>>
     /\ conn[sock[s]] # "reset")
    => \/ At(s, FlagPcs \cup {"size1", "xchg"}) # {}
       \/ sendIO[s] # "none"

Service == INSTANCE EchoService WITH
  MaxServed <- SessionMax, First <- 0,
  status <- [c \in Conns |-> CASE conn[c] = "new"    -> "new"
                               [] conn[c] = "closed" -> "gone"
                               [] OTHER              -> "served"],
  ending <- [c \in Conns |-> conn[c] \in {"fin", "reset", "closed"}]
\* The server serves its clients as EchoService says: the login packet and
\* then each message go out once, in order and on the right connection, and a
\* session ends only after its client left.  A packet that is dequeued before
\* or without being sent, or deleted while Winsock reads it (the packets stay
\* in the ring during a send, and _sendCount says how many they are), or a slot
\* that is released too early, would break it.
ServesEchoes == Service!Spec
=============================================================================
