----------------------------- MODULE LanServer -----------------------------
(***************************************************************************)
(* CLanServer (Iocp_Echo_LockFree_Class): the accept thread, the worker    *)
(* threads on the completion port, and the life of a session slot from     *)
(* accept to release.  One action per step of the code that another thread *)
(* can observe: every Interlocked operation, every read of a shared word   *)
(* whose value decides a branch, every Winsock call.                       *)
(*                                                                         *)
(* Abstractions.  A connection is an element of Conns and stands for its   *)
(* SOCKET.  A packet is the number of the message it answers: 0 is the     *)
(* login packet of OnAccept, n > 0 echoes the n-th message of the client.  *)
(* A receive completion carries a number of whole messages (CRingBuffer    *)
(* and the framing are specified elsewhere); 0 is a failed completion.     *)
(* _sendBuf and _sessionIndexStack are used through their abstract         *)
(* contents.  The completion port holds the overlapped operations in       *)
(* state "done", in no particular order: the threads that dequeue them may *)
(* be delayed arbitrarily anyway.                                          *)
(***************************************************************************)
EXTENDS Integers, Sequences, FiniteSets

CONSTANTS
  Workers,      \* threads running NetworkThread
  Acceptor,     \* the thread running AcceptThread
  SessionMax,   \* length of _sessionArray
  Conns,        \* client connections that may arrive (each at most once)
  MaxMsg,       \* messages a client sends at most
  MaxSend,      \* WSABUFs of one WSASend (50 in the code)
  Overload,     \* may clients arrive while no session slot is free?
  MainCalls,    \* subset of {"Stop", "Disconnect"}: API calls made meanwhile
  None,         \* no session, no socket (INVALID_SOCKET)
  Garbage       \* what an uninitialised SOCKET member may hold instead

Threads  == Workers \cup {Acceptor}
Sessions == 0 .. SessionMax - 1
Packets  == 0 .. MaxMsg

ASSUME ConstantsAssumption ==
  /\ IsFiniteSet(Workers) /\ Acceptor \notin Workers
  /\ SessionMax \in Nat \ {0}
  /\ MaxMsg \in Nat
  /\ MaxSend \in Nat \ {0}
  /\ Overload \in BOOLEAN
  /\ MainCalls \subseteq {"Stop", "Disconnect"}
  /\ None \notin Conns \cup Sessions /\ Garbage \notin Conns \cup {None}

VARIABLES
  \* threads
  pc, cur, op, batch,
  \* server
  freeStack, listening, sessionCount, acceptCount, acceptTotal, disconnectTotal,
  \* sessions
  sock, toBeDeleted, invalidFlag, ioCount, sendFlag, sendCount, sendBuf, sendArr,
  \* packets: _refCount of the packet of each message of each connection
  refCount,
  \* kernel: the two overlapped operations of each session, the connections
  recvIO, recvLen, sendIO, sendLen, conn, arrived, nulls,
  \* the client's view (history): packets delivered; connections on which
  \* a WSASend failed at once
  echoed, sendFailed,
  \* the thread that calls Stop or Disconnect
  mainPc, mainIdx

threadVars  == <<pc, cur, op, batch>>
serverVars  == <<listening, sessionCount, acceptCount, acceptTotal, disconnectTotal>>
sockVars    == <<sock, toBeDeleted, invalidFlag>>
sendVars    == <<sendFlag, sendCount, sendBuf, sendArr>>
ioVars      == <<recvIO, recvLen, sendIO, sendLen>>
netVars     == <<conn, arrived, nulls, echoed, sendFailed>>
mainVars    == <<mainPc, mainIdx>>
vars == <<threadVars, freeStack, serverVars, sockVars, ioCount, sendVars,
          refCount, ioVars, netVars, mainVars>>

(***************************************************************************)
(* Helpers                                                                 *)
(***************************************************************************)
Goto(t, l)     == pc' = [pc EXCEPT ![t] = l]
\* the session is no longer referred to: back to the thread's own loop
GoHome(t) ==
  /\ Goto(t, IF t = Acceptor THEN "acceptEnd" ELSE "gqcs")
  /\ cur' = [cur EXCEPT ![t] = None]
  /\ op' = [op EXCEPT ![t] = "none"]
\* where SendPost returns to: its callers are SendPacket (from OnAccept or
\* OnRecv) and the send completion.  In the faulty variant a send completion
\* falls through to the code of a receive completion.
AfterSendFallsThrough(t) == "unref"
AfterSend(t)   == IF op[t] = "send" THEN "ioDec" ELSE "unref"

Copies(q, p)   == Cardinality({i \in DOMAIN q : q[i] = p})
Prefix(q, n)   == SubSeq(q, 1, n)
Smaller(m, n)  == IF m < n THEN m ELSE n
\* CPacket::Release on every packet of q, packets of connection c
ReleaseAll(c, q) ==
  refCount' = [refCount EXCEPT ![c] = [p \in Packets |-> @[p] - Copies(q, p)]]

(***************************************************************************)
(* AcceptThread                                                            *)
(***************************************************************************)
\* accept() returns a connection; Pop of an empty index stack, or a slot
\* still marked in use, is a DebugBreak
Accept(c) ==
  /\ pc[Acceptor] = "accept" /\ listening
  /\ conn[c] = "new"
  /\ Overload \/ freeStack # <<>>
  /\ conn' = [conn EXCEPT ![c] = "open"]
  /\ IF freeStack = <<>>
       THEN /\ Goto(Acceptor, "breakPop")
            /\ UNCHANGED <<cur, freeStack, invalidFlag, toBeDeleted>>
       ELSE LET s == freeStack[Len(freeStack)] IN
            /\ freeStack' = SubSeq(freeStack, 1, Len(freeStack) - 1)
            /\ IF invalidFlag[s] = 1
                 THEN Goto(Acceptor, "breakInUse") /\ UNCHANGED <<invalidFlag, toBeDeleted>>
                 ELSE /\ Goto(Acceptor, "init")
                      /\ invalidFlag' = [invalidFlag EXCEPT ![s] = 1]
                      /\ toBeDeleted' = [toBeDeleted EXCEPT ![s] = c]
            /\ cur' = [cur EXCEPT ![Acceptor] = s]
  /\ op' = [op EXCEPT ![Acceptor] = "accept"]
  /\ UNCHANGED <<batch, serverVars, sock, ioCount, sendVars, refCount, ioVars,
                 arrived, nulls, echoed, sendFailed, mainVars>>

\* the listening socket is closed: accept fails and the thread returns
AcceptFails ==
  /\ pc[Acceptor] = "accept" /\ ~listening
  /\ Goto(Acceptor, "exit")
  /\ UNCHANGED <<cur, op, batch, freeStack, serverVars, sockVars, ioCount,
                 sendVars, refCount, ioVars, netVars, mainVars>>

\* Session::Clear, CreateIoCompletionPort, the accept thread's own reference
InitSession ==
  LET s == cur[Acceptor] IN
  /\ pc[Acceptor] = "init"
  /\ Goto(Acceptor, "onAccept")
  /\ sock' = [sock EXCEPT ![s] = toBeDeleted[s]]
  /\ sendCount' = [sendCount EXCEPT ![s] = 0]
  /\ sendFlag' = [sendFlag EXCEPT ![s] = 0]
  /\ ioCount' = [ioCount EXCEPT ![s] = @ + 1]
  /\ sessionCount' = sessionCount + 1
  /\ UNCHANGED <<cur, op, batch, freeStack, listening, acceptCount, acceptTotal,
                 disconnectTotal, toBeDeleted, invalidFlag, sendBuf, sendArr,
                 refCount, ioVars, netVars, mainVars>>

\* CGameLenServer::OnAccept: a new packet, SendPacket up to its SendPost
OnAccept ==
  LET s == cur[Acceptor] IN
  /\ pc[Acceptor] = "onAccept"
  /\ Goto(Acceptor, "size1")
  /\ sendBuf' = [sendBuf EXCEPT ![s] = Append(@, 0)]
  /\ refCount' = [refCount EXCEPT ![toBeDeleted[s]][0] = 2]
  /\ UNCHANGED <<cur, op, batch, freeStack, serverVars, sockVars, ioCount,
                 sendFlag, sendCount, sendArr, ioVars, netVars, mainVars>>

\* the counters at the end of the loop body
AcceptEnd ==
  /\ pc[Acceptor] = "acceptEnd"
  /\ Goto(Acceptor, "accept")
  /\ acceptCount' = acceptCount + 1
  /\ acceptTotal' = acceptTotal + 1
  /\ UNCHANGED <<cur, op, batch, freeStack, listening, sessionCount, disconnectTotal,
                 sockVars, ioCount, sendVars, refCount, ioVars, netVars, mainVars>>

(***************************************************************************)
(* NetworkThread                                                           *)
(***************************************************************************)
\* GetQueuedCompletionStatus returns the receive of session s
DequeueRecv(t, s) ==
  /\ pc[t] = "gqcs" /\ recvIO[s] = "done"
  /\ Goto(t, IF recvLen[s] = 0 THEN "ioDec" ELSE "loop")
  /\ cur' = [cur EXCEPT ![t] = s]
  /\ op' = [op EXCEPT ![t] = "recv"]
  /\ batch' = [batch EXCEPT ![t] = recvLen[s]]
  /\ recvIO' = [recvIO EXCEPT ![s] = "none"]
  /\ recvLen' = [recvLen EXCEPT ![s] = 0]
  /\ UNCHANGED <<freeStack, serverVars, sockVars, ioCount, sendVars, refCount,
                 sendIO, sendLen, netVars, mainVars>>

\* ... or its send
DequeueSend(t, s) ==
  /\ pc[t] = "gqcs" /\ sendIO[s] = "done"
  /\ Goto(t, IF sendLen[s] = 0 THEN "ioDec" ELSE "sendDone")
  /\ cur' = [cur EXCEPT ![t] = s]
  /\ op' = [op EXCEPT ![t] = "send"]
  /\ sendIO' = [sendIO EXCEPT ![s] = "none"]
  /\ sendLen' = [sendLen EXCEPT ![s] = 0]
  /\ UNCHANGED <<batch, freeStack, serverVars, sockVars, ioCount, sendVars,
                 refCount, recvIO, recvLen, netVars, mainVars>>

\* ... or the packet posted by Stop: the thread returns
DequeueNull(t) ==
  /\ pc[t] = "gqcs" /\ nulls > 0
  /\ nulls' = nulls - 1
  /\ Goto(t, "exit")
  /\ UNCHANGED <<cur, op, batch, freeStack, serverVars, sockVars, ioCount, sendVars,
                 refCount, ioVars, conn, arrived, echoed, sendFailed, mainVars>>

\* faulty variant: _sendCount is not reset
SendDoneKeepsCount(t) ==
  LET s == cur[t] IN
  /\ pc[t] = "sendDone"
  /\ Goto(t, IF sendCount[s] = 0 THEN "breakCount" ELSE "flagClear")
  /\ ReleaseAll(toBeDeleted[s], Prefix(sendArr[s], sendCount[s]))
  /\ UNCHANGED <<cur, op, batch, freeStack, serverVars, sockVars, ioCount,
                 sendVars, ioVars, netVars, mainVars>>

\* the packets of the finished send are released; an empty one is a DebugBreak
SendDone(t) ==
  LET s == cur[t] IN
  /\ pc[t] = "sendDone"
  /\ IF sendCount[s] = 0
       THEN Goto(t, "breakCount") /\ UNCHANGED <<sendCount, refCount>>
       ELSE /\ Goto(t, "flagClear")
            /\ sendCount' = [sendCount EXCEPT ![s] = 0]
            /\ ReleaseAll(toBeDeleted[s], Prefix(sendArr[s], sendCount[s]))
  /\ UNCHANGED <<cur, op, batch, freeStack, serverVars, sockVars, ioCount,
                 sendFlag, sendBuf, sendArr, ioVars, netVars, mainVars>>

\* faulty variant: the flag is not given back
FlagClearSkipped(t) ==
  /\ pc[t] = "flagClear"
  /\ Goto(t, "size1")
  /\ UNCHANGED <<cur, op, batch, freeStack, serverVars, sockVars, ioCount,
                 sendVars, refCount, ioVars, netVars, mainVars>>

\* the flag is given back before the size is read again in SendPost
FlagClear(t) ==
  /\ pc[t] = "flagClear"
  /\ Goto(t, "size1")
  /\ sendFlag' = [sendFlag EXCEPT ![cur[t]] = 0]
  /\ UNCHANGED <<cur, op, batch, freeStack, serverVars, sockVars, ioCount,
                 sendCount, sendBuf, sendArr, refCount, ioVars, netVars, mainVars>>

\* ProcessRecvMessage, one turn of its loop: a packet, OnRecv, SendPacket up
\* to its SendPost
ProcessMessage(t) ==
  LET s == cur[t]
      c == toBeDeleted[s]
      n == arrived[c] - batch[t] + 1 IN
  /\ pc[t] = "loop" /\ batch[t] > 0
  /\ Goto(t, "size1")
  /\ batch' = [batch EXCEPT ![t] = @ - 1]
  /\ sendBuf' = [sendBuf EXCEPT ![s] = Append(@, n)]
  /\ refCount' = [refCount EXCEPT ![c][n] = 2]
  /\ UNCHANGED <<cur, op, freeStack, serverVars, sockVars, ioCount, sendFlag,
                 sendCount, sendArr, ioVars, netVars, mainVars>>

\* the loop ends: RecvPost
ProcessEnd(t) ==
  /\ pc[t] = "loop" /\ batch[t] = 0
  /\ Goto(t, "recvPost")
  /\ UNCHANGED <<cur, op, batch, freeStack, serverVars, sockVars, ioCount, sendVars,
                 refCount, ioVars, netVars, mainVars>>

\* the packet the handler holds: CPacket::Release after OnRecv / in OnAccept
Handled(t) == IF op[t] = "accept" THEN 0
              ELSE arrived[toBeDeleted[cur[t]]] - batch[t]

Unref(t) ==
  /\ pc[t] = "unref"
  /\ Goto(t, IF op[t] = "accept" THEN "recvPost" ELSE "loop")
  /\ ReleaseAll(toBeDeleted[cur[t]], <<Handled(t)>>)
  /\ UNCHANGED <<cur, op, batch, freeStack, serverVars, sockVars, ioCount, sendVars,
                 ioVars, netVars, mainVars>>

(***************************************************************************)
(* RecvPost                                                                *)
(***************************************************************************)
\* the reference of the new operation; the check of _sock
RecvPost(t) ==
  LET s == cur[t] IN
  /\ pc[t] = "recvPost"
  /\ Goto(t, IF sock[s] = None THEN "breakSock" ELSE "wsaRecv")
  /\ ioCount' = [ioCount EXCEPT ![s] = @ + 1]
  /\ recvIO' = [recvIO EXCEPT ![s] = "posting"]
  /\ UNCHANGED <<cur, op, batch, freeStack, serverVars, sockVars, sendVars, refCount,
                 recvLen, sendIO, sendLen, netVars, mainVars>>

\* WSARecv.  If _sock was invalidated since the check, the call may use the
\* value loaded for the check or load it anew.
WSARecvPosted(t) ==
  /\ pc[t] = "wsaRecv"
  /\ Goto(t, "ioDec")
  /\ recvIO' = [recvIO EXCEPT ![cur[t]] = "pending"]
  /\ UNCHANGED <<cur, op, batch, freeStack, serverVars, sockVars, ioCount, sendVars,
                 refCount, recvLen, sendIO, sendLen, netVars, mainVars>>

WSARecvFails(t) ==
  /\ pc[t] = "wsaRecv"
  /\ sock[cur[t]] = None \/ conn[toBeDeleted[cur[t]]] = "reset"
  /\ Goto(t, "recvFail")
  /\ UNCHANGED <<cur, op, batch, freeStack, serverVars, sockVars, ioCount, sendVars,
                 refCount, ioVars, netVars, mainVars>>

\* faulty variant: the reference is not given back
RecvFailKeepsRef(t) ==
  /\ pc[t] = "recvFail"
  /\ Goto(t, "ioDec")
  /\ recvIO' = [recvIO EXCEPT ![cur[t]] = "none"]
  /\ UNCHANGED <<cur, op, batch, freeStack, serverVars, sockVars, ioCount, sendVars,
                 refCount, recvLen, sendIO, sendLen, netVars, mainVars>>

\* the failed operation gives its reference back; zero is not tested here
RecvFail(t) ==
  LET s == cur[t] IN
  /\ pc[t] = "recvFail"
  /\ Goto(t, "ioDec")
  /\ ioCount' = [ioCount EXCEPT ![s] = @ - 1]
  /\ recvIO' = [recvIO EXCEPT ![s] = "none"]
  /\ UNCHANGED <<cur, op, batch, freeStack, serverVars, sockVars, sendVars, refCount,
                 recvLen, sendIO, sendLen, netVars, mainVars>>

(***************************************************************************)
(* SendPost                                                                *)
(***************************************************************************)
\* a read of _sendBuf.GetSize(): the label where zero leads, and the other
SizeTest(t, at, zero, more) ==
  /\ pc[t] = at
  /\ Goto(t, IF sendBuf[cur[t]] = <<>> THEN zero ELSE more)
  /\ UNCHANGED <<cur, op, batch, freeStack, serverVars, sockVars, ioCount, sendVars,
                 refCount, ioVars, netVars, mainVars>>

\* InterlockedExchange(&_sendFlag, 1): whoever finds 0 goes on to "won"
FlagXchg(t, at, won) ==
  /\ pc[t] = at
  /\ Goto(t, IF sendFlag[cur[t]] = 1 THEN AfterSend(t) ELSE won)
  /\ sendFlag' = [sendFlag EXCEPT ![cur[t]] = 1]
  /\ UNCHANGED <<cur, op, batch, freeStack, serverVars, sockVars, ioCount,
                 sendCount, sendBuf, sendArr, refCount, ioVars, netVars, mainVars>>

\* InterlockedExchange(&_sendFlag, 0)
FlagReset(t, at, next) ==
  /\ pc[t] = at
  /\ Goto(t, next)
  /\ sendFlag' = [sendFlag EXCEPT ![cur[t]] = 0]
  /\ UNCHANGED <<cur, op, batch, freeStack, serverVars, sockVars, ioCount,
                 sendCount, sendBuf, sendArr, refCount, ioVars, netVars, mainVars>>

\* faulty variants: the flag is set without a look at its old value; after
\* an empty queue the flag is given back and the queue not read again
SendXchg1Blind(t) ==
  /\ pc[t] = "xchg1"
  /\ Goto(t, "size2")
  /\ sendFlag' = [sendFlag EXCEPT ![cur[t]] = 1]
  /\ UNCHANGED <<cur, op, batch, freeStack, serverVars, sockVars, ioCount,
                 sendCount, sendBuf, sendArr, refCount, ioVars, netVars, mainVars>>
SendClear1Leaves(t) == FlagReset(t, "clear1", AfterSend(t))

\* nothing to send: return; else try the flag
SendSize1(t) == SizeTest(t, "size1", AfterSend(t), "xchg1")
SendXchg1(t) == FlagXchg(t, "xchg1", "size2")
\* the queue is read again under the flag; empty: give the flag back ...
SendSize2(t) == SizeTest(t, "size2", "clear1", "gather")
SendClear1(t) == FlagReset(t, "clear1", "size3")
\* ... and look again, as long as the queue fills between flag and look
SendSize3(t) == SizeTest(t, "size3", AfterSend(t), "xchg2")
SendXchg2(t) == FlagXchg(t, "xchg2", "size4")
SendSize4(t) == SizeTest(t, "size4", "clear2", "gather")
SendClear2(t) == FlagReset(t, "clear2", "size3")

\* faulty variant: the last packet taken stays in the queue
SendGatherOffByOne(t) ==
  LET s == cur[t]
      n == Smaller(MaxSend, Len(sendBuf[s])) IN
  /\ pc[t] = "gather"
  /\ Goto(t, "post")
  /\ sendArr' = [sendArr EXCEPT ![s] = Prefix(sendBuf[s], n)]
  /\ sendBuf' = [sendBuf EXCEPT ![s] = SubSeq(@, n, Len(@))]
  /\ UNCHANGED <<cur, op, batch, freeStack, serverVars, sockVars, ioCount,
                 sendFlag, sendCount, refCount, ioVars, netVars, mainVars>>

\* at most MaxSend packets move from the queue to _pSendPacketArr
SendGather(t) ==
  LET s == cur[t]
      n == Smaller(MaxSend, Len(sendBuf[s])) IN
  /\ pc[t] = "gather"
  /\ Goto(t, "post")
  /\ sendArr' = [sendArr EXCEPT ![s] = Prefix(sendBuf[s], n)]
  /\ sendBuf' = [sendBuf EXCEPT ![s] = SubSeq(@, n + 1, Len(@))]
  /\ UNCHANGED <<cur, op, batch, freeStack, serverVars, sockVars, ioCount,
                 sendFlag, sendCount, refCount, ioVars, netVars, mainVars>>

\* the reference of the new operation, the check of _sock, _sendCount
SendPrepare(t) ==
  LET s == cur[t] IN
  /\ pc[t] = "post"
  /\ ioCount' = [ioCount EXCEPT ![s] = @ + 1]
  /\ sendIO' = [sendIO EXCEPT ![s] = "posting"]
  /\ IF sock[s] = None
       THEN Goto(t, "breakSock") /\ UNCHANGED sendCount
       ELSE /\ Goto(t, "wsaSend")
            /\ sendCount' = [sendCount EXCEPT ![s] = Len(sendArr[s])]
  /\ UNCHANGED <<cur, op, batch, freeStack, serverVars, sockVars, sendFlag,
                 sendBuf, sendArr, refCount, recvIO, recvLen, sendLen, netVars, mainVars>>

\* WSASend on the _sock of this moment
WSASendPosted(t) ==
  /\ pc[t] = "wsaSend" /\ sock[cur[t]] # None
  /\ Goto(t, AfterSend(t))
  /\ sendIO' = [sendIO EXCEPT ![cur[t]] = "pending"]
  /\ UNCHANGED <<cur, op, batch, freeStack, serverVars, sockVars, ioCount, sendVars,
                 refCount, recvIO, recvLen, sendLen, netVars, mainVars>>

WSASendFails(t) ==
  LET c == toBeDeleted[cur[t]] IN
  /\ pc[t] = "wsaSend"
  /\ sock[cur[t]] = None \/ conn[c] = "reset"
  /\ Goto(t, "failDec")
  /\ sendFailed' = [sendFailed EXCEPT ![c] = TRUE]
  /\ UNCHANGED <<cur, op, batch, freeStack, serverVars, sockVars, ioCount, sendVars,
                 refCount, ioVars, conn, arrived, nulls, echoed, mainVars>>

\* the failed operation gives its reference back (zero is not tested here),
\* then the flag; _sendCount and the array stay as they are
SendFailDec(t) ==
  LET s == cur[t] IN
  /\ pc[t] = "failDec"
  /\ Goto(t, "failClear")
  /\ ioCount' = [ioCount EXCEPT ![s] = @ - 1]
  /\ sendIO' = [sendIO EXCEPT ![s] = "none"]
  /\ UNCHANGED <<cur, op, batch, freeStack, serverVars, sockVars, sendVars, refCount,
                 recvIO, recvLen, sendLen, netVars, mainVars>>

SendFailClear(t) == FlagReset(t, "failClear", AfterSend(t))

SendPost(t) ==
  \/ SendSize1(t) \/ SendXchg1(t) \/ SendSize2(t) \/ SendClear1(t)
  \/ SendSize3(t) \/ SendXchg2(t) \/ SendSize4(t) \/ SendClear2(t)
  \/ SendGather(t) \/ SendPrepare(t) \/ WSASendPosted(t) \/ WSASendFails(t)
  \/ SendFailDec(t) \/ SendFailClear(t)

(***************************************************************************)
(* The end of a completion, and Release                                    *)
(***************************************************************************)
\* faulty variant: the value before the decrement is compared with the wrong number
IODecrementEarly(t) ==
  LET s == cur[t] IN
  /\ pc[t] = "ioDec"
  /\ ioCount' = [ioCount EXCEPT ![s] = @ - 1]
  /\ IF ioCount[s] = 2 THEN Goto(t, "drain") /\ UNCHANGED <<cur, op>> ELSE GoHome(t)
  /\ UNCHANGED <<batch, freeStack, serverVars, sockVars, sendVars, refCount,
                 ioVars, netVars, mainVars>>

\* InterlockedDecrement(&_IOCount): the thread that reaches zero releases
IODecrement(t) ==
  LET s == cur[t] IN
  /\ pc[t] = "ioDec"
  /\ ioCount' = [ioCount EXCEPT ![s] = @ - 1]
  /\ IF ioCount[s] = 1
       THEN Goto(t, "drain") /\ UNCHANGED <<cur, op>>
       ELSE GoHome(t)
  /\ UNCHANGED <<batch, freeStack, serverVars, sockVars, sendVars, refCount,
                 ioVars, netVars, mainVars>>

\* the packets still queued and those of a send that failed are released;
\* of the latter nobody else may hold one, or DebugBreak
ReleaseDrain(t) ==
  LET s == cur[t]
      c == toBeDeleted[s]
      unsent == Prefix(sendArr[s], sendCount[s]) IN
  /\ pc[t] = "drain"
  /\ sendBuf' = [sendBuf EXCEPT ![s] = <<>>]
  /\ sendCount' = [sendCount EXCEPT ![s] = 0]
  /\ Goto(t, IF \E i \in DOMAIN unsent : refCount[c][unsent[i]] # 1
               THEN "breakRef" ELSE "close")
  /\ ReleaseAll(c, sendBuf[s] \o unsent)
  /\ UNCHANGED <<cur, op, batch, freeStack, serverVars, sockVars, ioCount,
                 sendFlag, sendArr, ioVars, netVars, mainVars>>

\* faulty variant: the slot stays marked in use
ReleaseCloseKeepsFlag(t) ==
  /\ pc[t] = "close"
  /\ Goto(t, "push")
  /\ acceptCount' = acceptCount - 1
  /\ disconnectTotal' = disconnectTotal + 1
  /\ sessionCount' = sessionCount - 1
  /\ conn' = [conn EXCEPT ![toBeDeleted[cur[t]]] = "closed"]
  /\ UNCHANGED <<cur, op, batch, freeStack, listening, acceptTotal, sockVars,
                 ioCount, sendVars, refCount, ioVars, arrived, nulls, echoed,
                 sendFailed, mainVars>>

\* the counters, closesocket, the slot is marked free
ReleaseClose(t) ==
  LET s == cur[t] IN
  /\ pc[t] = "close"
  /\ Goto(t, "push")
  /\ acceptCount' = acceptCount - 1
  /\ disconnectTotal' = disconnectTotal + 1
  /\ sessionCount' = sessionCount - 1
  /\ conn' = [conn EXCEPT ![toBeDeleted[s]] = "closed"]
  /\ invalidFlag' = [invalidFlag EXCEPT ![s] = 0]
  /\ UNCHANGED <<cur, op, batch, freeStack, listening, acceptTotal, sock, toBeDeleted,
                 ioCount, sendVars, refCount, ioVars, arrived, nulls, echoed,
                 sendFailed, mainVars>>

\* the index goes back on the stack
ReleasePush(t) ==
  /\ pc[t] = "push"
  /\ GoHome(t)
  /\ freeStack' = Append(freeStack, cur[t])
  /\ UNCHANGED <<batch, serverVars, sockVars, ioCount, sendVars, refCount,
                 ioVars, netVars, mainVars>>

Release(t) == ReleaseDrain(t) \/ ReleaseClose(t) \/ ReleasePush(t)

(***************************************************************************)
(* The clients and the kernel (external)                                   *)
(***************************************************************************)
\* the client closes its end; the connection breaks
ClientClose(c) ==
  /\ conn[c] = "open"
  /\ conn' = [conn EXCEPT ![c] = "fin"]
  /\ UNCHANGED <<threadVars, freeStack, serverVars, sockVars, ioCount, sendVars,
                 refCount, ioVars, arrived, nulls, echoed, sendFailed, mainVars>>

ClientReset(c) ==
  /\ conn[c] \in {"open", "fin"}
  /\ conn' = [conn EXCEPT ![c] = "reset"]
  /\ UNCHANGED <<threadVars, freeStack, serverVars, sockVars, ioCount, sendVars,
                 refCount, ioVars, arrived, nulls, echoed, sendFailed, mainVars>>

\* k messages arrive in the buffers of the pending receive
RecvArrives(s, k) ==
  LET c == toBeDeleted[s] IN
  /\ recvIO[s] = "pending" /\ conn[c] = "open"
  /\ arrived[c] + k <= MaxMsg
  /\ arrived' = [arrived EXCEPT ![c] = @ + k]
  /\ recvIO' = [recvIO EXCEPT ![s] = "done"]
  /\ recvLen' = [recvLen EXCEPT ![s] = k]
  /\ UNCHANGED <<threadVars, freeStack, serverVars, sockVars, ioCount, sendVars,
                 refCount, sendIO, sendLen, conn, nulls, echoed, sendFailed, mainVars>>

\* the receive ends with no byte: end of stream, or an error
RecvEnds(s) ==
  /\ recvIO[s] = "pending" /\ conn[toBeDeleted[s]] \in {"fin", "reset"}
  /\ recvIO' = [recvIO EXCEPT ![s] = "done"]
  /\ UNCHANGED <<threadVars, freeStack, serverVars, sockVars, ioCount, sendVars,
                 refCount, recvLen, sendIO, sendLen, netVars, mainVars>>

\* the packets of the pending send leave from the buffers the send refers to
SendCompletes(s) ==
  LET c == toBeDeleted[s] IN
  /\ sendIO[s] = "pending" /\ conn[c] \in {"open", "fin"}
  /\ sendIO' = [sendIO EXCEPT ![s] = "done"]
  /\ sendLen' = [sendLen EXCEPT ![s] = sendCount[s]]
  /\ echoed' = [echoed EXCEPT ![c] = @ \o Prefix(sendArr[s], sendCount[s])]
  /\ UNCHANGED <<threadVars, freeStack, serverVars, sockVars, ioCount, sendVars,
                 refCount, recvIO, recvLen, conn, arrived, nulls, sendFailed, mainVars>>

SendAborts(s) ==
  /\ sendIO[s] = "pending" /\ conn[toBeDeleted[s]] = "reset"
  /\ sendIO' = [sendIO EXCEPT ![s] = "done"]
  /\ UNCHANGED <<threadVars, freeStack, serverVars, sockVars, ioCount, sendVars,
                 refCount, recvIO, recvLen, sendLen, netVars, mainVars>>

KernelCompletes(s) ==
  RecvEnds(s) \/ SendCompletes(s) \/ SendAborts(s)

(***************************************************************************)
(* Stop and Disconnect, called by the main thread (Disconnect has no       *)
(* caller in the repository; any session may be named)                     *)
(***************************************************************************)
CallStop ==
  /\ mainPc = "idle" /\ "Stop" \in MainCalls
  /\ listening' = FALSE
  /\ mainPc' = "stopCheck" /\ mainIdx' = 0
  /\ UNCHANGED <<threadVars, freeStack, sessionCount, acceptCount, acceptTotal,
                 disconnectTotal, sockVars, ioCount, sendVars, refCount, ioVars, netVars>>

CallDisconnect(s) ==
  /\ mainPc = "idle" /\ "Disconnect" \in MainCalls
  /\ mainPc' = "discCheck" /\ mainIdx' = s
  /\ UNCHANGED <<threadVars, freeStack, serverVars, sockVars, ioCount, sendVars,
                 refCount, ioVars, netVars>>

\* Disconnect returns; Stop goes on with the next session
\* (faulty variant: one too many)
SessionDoneOffByOne ==
  IF mainPc \in {"discCheck", "discCancel"}
    THEN mainPc' = "idle" /\ mainIdx' = 0
    ELSE IF mainIdx < SessionMax
           THEN mainPc' = "stopCheck" /\ mainIdx' = mainIdx + 1
           ELSE mainPc' = "stopPost" /\ mainIdx' = 0

SessionDone ==
  IF mainPc \in {"discCheck", "discCancel"}
    THEN mainPc' = "idle" /\ mainIdx' = 0
    ELSE IF mainIdx + 1 < SessionMax
           THEN mainPc' = "stopCheck" /\ mainIdx' = mainIdx + 1
           ELSE mainPc' = "stopPost" /\ mainIdx' = 0

MainCheck ==
  /\ mainPc \in {"stopCheck", "discCheck"}
  /\ IF sock[mainIdx] = None
       THEN SessionDone
       ELSE /\ mainPc' = (IF mainPc = "stopCheck" THEN "stopInvalidate" ELSE "discInvalidate")
            /\ UNCHANGED mainIdx
  /\ UNCHANGED <<threadVars, freeStack, serverVars, sockVars, ioCount, sendVars,
                 refCount, ioVars, netVars>>

MainInvalidate ==
  /\ mainPc \in {"stopInvalidate", "discInvalidate"}
  /\ sock' = [sock EXCEPT ![mainIdx] = None]
  /\ mainPc' = (IF mainPc = "stopInvalidate" THEN "stopCancel" ELSE "discCancel")
  /\ UNCHANGED <<threadVars, freeStack, serverVars, toBeDeleted, invalidFlag, ioCount,
                 sendVars, refCount, ioVars, netVars, mainIdx>>

\* CancelIoEx on _toBeDeletedSock: what is pending ends with no byte
MainCancel ==
  LET Cancelled(io) == [io EXCEPT ![mainIdx] = IF @ = "pending" THEN "done" ELSE @] IN
  /\ mainPc \in {"stopCancel", "discCancel"}
  /\ recvIO' = Cancelled(recvIO)
  /\ sendIO' = Cancelled(sendIO)
  /\ SessionDone
  /\ UNCHANGED <<threadVars, freeStack, serverVars, sockVars, ioCount, sendVars,
                 refCount, recvLen, sendLen, netVars>>

\* faulty variant: a single null packet
StopPostOne ==
  /\ mainPc = "stopPost"
  /\ nulls' = nulls + 1
  /\ mainPc' = "join"
  /\ UNCHANGED <<threadVars, freeStack, serverVars, sockVars, ioCount, sendVars,
                 refCount, ioVars, conn, arrived, echoed, sendFailed, mainIdx>>

\* one null packet per worker, and wait for all of them to return
StopPost ==
  /\ mainPc = "stopPost"
  /\ nulls' = nulls + Cardinality(Workers)
  /\ mainPc' = "join"
  /\ UNCHANGED <<threadVars, freeStack, serverVars, sockVars, ioCount, sendVars,
                 refCount, ioVars, conn, arrived, echoed, sendFailed, mainIdx>>

StopJoined ==
  /\ mainPc = "join" /\ \A t \in Workers : pc[t] = "exit"
  /\ mainPc' = "stopped"
  /\ UNCHANGED <<threadVars, freeStack, serverVars, sockVars, ioCount, sendVars,
                 refCount, ioVars, netVars, mainIdx>>

MainStep ==
  MainCheck \/ MainInvalidate \/ MainCancel \/ StopPost \/ StopJoined

(***************************************************************************)
(* The specification                                                       *)
(***************************************************************************)
BreakPcs == {"breakPop", "breakInUse", "breakSock", "breakCount", "breakRef"}
\* DebugBreak without a debugger ends the process
Running  == \A t \in Threads : pc[t] \notin BreakPcs

\* Start: the stack holds SessionMax - 1, ..., 0, so that 0 is on top
Init ==
  /\ pc = [t \in Threads |-> IF t = Acceptor THEN "accept" ELSE "gqcs"]
  /\ cur = [t \in Threads |-> None]
  /\ op = [t \in Threads |-> "none"]
  /\ batch = [t \in Threads |-> 0]
  /\ freeStack = [i \in 1 .. SessionMax |-> SessionMax - i]
  /\ listening = TRUE
  /\ sessionCount = 0 /\ acceptCount = 0 /\ acceptTotal = 0 /\ disconnectTotal = 0
  /\ sock \in [Sessions -> {None, Garbage}]
  /\ toBeDeleted = [s \in Sessions |-> Garbage]
  /\ invalidFlag = [s \in Sessions |-> -1]
  /\ ioCount = [s \in Sessions |-> 0]
  /\ sendFlag = [s \in Sessions |-> 0]
  /\ sendCount = [s \in Sessions |-> 0]
  /\ sendBuf = [s \in Sessions |-> <<>>]
  /\ sendArr = [s \in Sessions |-> <<>>]
  /\ refCount = [c \in Conns |-> [p \in Packets |-> 0]]
  /\ recvIO = [s \in Sessions |-> "none"] /\ sendIO = [s \in Sessions |-> "none"]
  /\ recvLen = [s \in Sessions |-> 0] /\ sendLen = [s \in Sessions |-> 0]
  /\ conn = [c \in Conns |-> "new"]
  /\ arrived = [c \in Conns |-> 0]
  /\ nulls = 0
  /\ echoed = [c \in Conns |-> <<>>]
  /\ sendFailed = [c \in Conns |-> FALSE]
  /\ mainPc = "idle" /\ mainIdx = 0

\* the code a worker and the accept thread share, once they hold a session
SessionStep(t) ==
  \/ SendPost(t) \/ Unref(t)
  \/ RecvPost(t) \/ WSARecvPosted(t) \/ WSARecvFails(t) \/ RecvFail(t)
  \/ IODecrement(t) \/ Release(t)

WorkerStep(t) ==
  \/ \E s \in Sessions : DequeueRecv(t, s) \/ DequeueSend(t, s)
  \/ DequeueNull(t) \/ SendDone(t) \/ FlagClear(t)
  \/ ProcessMessage(t) \/ ProcessEnd(t) \/ SessionStep(t)

AcceptorStep ==
  \/ AcceptFails \/ InitSession \/ OnAccept \/ AcceptEnd
  \/ SessionStep(Acceptor)

ClientStep ==
  \E c \in Conns : ClientClose(c) \/ ClientReset(c)

KernelStep ==
  \E s \in Sessions :
    \/ KernelCompletes(s)
    \/ \E k \in 1 .. MaxMsg : RecvArrives(s, k)

\* every client has come and gone and nothing is left to do
Finished ==
  /\ \A c \in Conns : conn[c] = "closed"
  /\ pc[Acceptor] \in {"accept", "exit"}
  /\ \A t \in Workers : pc[t] \in {"gqcs", "exit"}
  /\ UNCHANGED vars

Next ==
  /\ Running
  /\ \/ \E c \in Conns : Accept(c)
     \/ \E t \in Workers : WorkerStep(t)
     \/ AcceptorStep
     \/ ClientStep \/ KernelStep
     \/ CallStop \/ \E s \in Sessions : CallDisconnect(s)
     \/ MainStep
     \/ Finished

Spec == Init /\ [][Next]_vars

\* every thread is scheduled, and the kernel finishes what it was given once
\* the connection lets it; clients come, write and leave as they like
Fairness ==
  /\ \A t \in Workers : WF_vars(Running /\ WorkerStep(t))
  /\ WF_vars(Running /\ AcceptorStep)
  /\ WF_vars(Running /\ MainStep)
  /\ \A s \in Sessions : WF_vars(Running /\ KernelCompletes(s))

FairSpec == Spec /\ Fairness

(***************************************************************************)
(* Properties                                                              *)
(***************************************************************************)
SendPcs    == {"size1", "xchg1", "size2", "clear1", "size3", "xchg2", "size4",
               "clear2", "gather", "post", "wsaSend", "failDec", "failClear"}
\* where a thread acts for a session on a reference of its own
RefPcs     == SendPcs \cup {"onAccept", "loop", "unref", "recvPost", "wsaRecv",
               "recvFail", "sendDone", "flagClear", "ioDec", "breakSock", "breakCount"}
ReleasePcs == {"drain", "close", "push", "breakRef"}
\* where a thread owns _sendFlag
FlagPcs    == {"size2", "clear1", "size4", "clear2", "gather", "post", "wsaSend",
               "failDec", "failClear", "sendDone", "flagClear"}
Pcs        == RefPcs \cup ReleasePcs \cup
              {"accept", "init", "acceptEnd", "gqcs", "exit", "breakPop", "breakInUse"}

\* where a thread owns the receive buffer and _recvOvl
RecvPcs    == {"onAccept", "loop", "unref", "recvPost", "wsaRecv", "recvFail"}

At(s, pcs)   == {t \in Threads : cur[t] = s /\ pc[t] \in pcs}
Busy(io)     == IF io = "none" THEN 0 ELSE 1
IsFree(s)    == \E i \in DOMAIN freeStack : freeStack[i] = s
\* the outstanding references to session s
References(s) == Cardinality(At(s, RefPcs)) + Busy(recvIO[s]) + Busy(sendIO[s])
Idle(s)      == At(s, RefPcs) = {} /\ recvIO[s] = "none" /\ sendIO[s] = "none"

\* Every variable stays in its range.
TypeOK ==
  /\ pc \in [Threads -> Pcs]
  /\ cur \in [Threads -> Sessions \cup {None}]
  /\ op \in [Threads -> {"none", "accept", "recv", "send"}]
  /\ batch \in [Threads -> Nat]
  /\ freeStack \in Seq(Sessions)
  /\ listening \in BOOLEAN
  /\ sessionCount \in Int /\ acceptCount \in Int
  /\ acceptTotal \in Nat /\ disconnectTotal \in Nat
  /\ sock \in [Sessions -> Conns \cup {None, Garbage}]
  /\ toBeDeleted \in [Sessions -> Conns \cup {Garbage}]
  /\ invalidFlag \in [Sessions -> {-1, 0, 1}]
  /\ ioCount \in [Sessions -> Int]
  /\ sendFlag \in [Sessions -> {0, 1}]
  /\ sendCount \in [Sessions -> Nat]
  /\ sendBuf \in [Sessions -> Seq(Int)]
  /\ sendArr \in [Sessions -> Seq(Int)]
  /\ refCount \in [Conns -> [Packets -> Int]]
  /\ recvIO \in [Sessions -> {"none", "posting", "pending", "done"}]
  /\ sendIO \in [Sessions -> {"none", "posting", "pending", "done"}]
  /\ recvLen \in [Sessions -> Nat] /\ sendLen \in [Sessions -> Nat]
  /\ conn \in [Conns -> {"new", "open", "fin", "reset", "closed"}]
  /\ arrived \in [Conns -> 0 .. MaxMsg]
  /\ nulls \in Nat
  /\ echoed \in [Conns -> Seq(Int)]
  /\ sendFailed \in [Conns -> BOOLEAN]
  /\ mainPc \in {"idle", "stopCheck", "stopInvalidate", "stopCancel", "stopPost",
                 "join", "stopped", "discCheck", "discInvalidate", "discCancel"}
  /\ mainIdx \in Sessions

\* _IOCount is exactly the number of threads acting for the session and of
\* overlapped operations the kernel or the port still holds.  A lost or a
\* doubled reference on any of the paths (synchronous failures, zero-byte
\* completions, the accept thread's own) breaks it.
IOCountExact == \A s \in Sessions : ioCount[s] = References(s)

\* A slot is being set up or released by one thread at a time, while nobody
\* refers to it; and nobody refers to a slot on the index stack, where no
\* slot is twice.
SlotLife ==
  /\ \A t \in Threads :
       pc[t] \in ReleasePcs \cup {"init"} =>
         /\ Idle(cur[t]) /\ ~IsFree(cur[t])
         /\ \A u \in Threads :
              pc[u] \in ReleasePcs \cup {"init"} /\ cur[u] = cur[t] => u = t
  /\ \A s \in Sessions : IsFree(s) => Idle(s)
  /\ \A i, j \in DOMAIN freeStack : freeStack[i] = freeStack[j] => i = j

\* A session's messages are handled, and its _recvOvl zeroed and handed to
\* Winsock (CLanServer.cpp:410-415), by one thread at a time and only while
\* no receive is outstanding.
Receiving(t) == pc[t] \in RecvPcs \/ (pc[t] \in SendPcs /\ op[t] # "send")
RecvExclusive ==
  \A t \in Threads :
    Receiving(t) =>
      /\ recvIO[cur[t]] = IF pc[t] \in {"wsaRecv", "recvFail"} THEN "posting" ELSE "none"
      /\ \A u \in Threads : Receiving(u) /\ cur[u] = cur[t] => u = t

\* At most one thread owns _sendFlag, only while no send is outstanding, and
\* the flag is set while a thread or a send owns it: two owners would dequeue
\* from _sendBuf and write _pSendPacketArr and _sendOvl at the same time.
SendExclusive ==
  /\ \A t \in Threads :
       pc[t] \in FlagPcs =>
         /\ sendFlag[cur[t]] = 1
         /\ sendIO[cur[t]] = IF pc[t] \in {"wsaSend", "failDec"} THEN "posting" ELSE "none"
         /\ \A u \in Threads : pc[u] \in FlagPcs /\ cur[u] = cur[t] => u = t
  /\ \A s \in Sessions : sendIO[s] # "none" => sendFlag[s] = 1

\* The comment at CLanServer.cpp:440-446: a queued packet is never orphaned.
\* While the connection works somebody owns the flag or is about to try it.
\* A send that ended with no byte (a broken connection, CancelIoEx) leaves
\* the flag set and its packets in _pSendPacketArr: it was the last one.
NoOrphanedSend ==
  \A s \in Sessions :
    (/\ invalidFlag[s] = 1 /\ sendBuf[s] # <<>>
     /\ sock[s] # None /\ conn[toBeDeleted[s]] # "reset"
     /\ ~(sendFlag[s] = 1 /\ sendCount[s] > 0))
    => \/ At(s, FlagPcs \cup {"size1", "xchg1", "size3", "xchg2"}) # {}
       \/ sendIO[s] # "none"

\* the packets gathered for a send that are not yet released
Gathered(s) == IF At(s, {"post"}) # {} THEN sendArr[s]
               ELSE Prefix(sendArr[s], sendCount[s])
\* the packet references of session s: queued, gathered, held by a handler
PacketRefs(s, p) ==
  Copies(sendBuf[s] \o Gathered(s), p)
  + Cardinality({t \in At(s, SendPcs \cup {"unref"}) : op[t] # "send" /\ Handled(t) = p})

\* A packet has exactly the references that will be released: it is never
\* freed while queued or in flight, and it leaks only where a WSASend failed
\* at once, for then the next SendPost overwrites _pSendPacketArr.
RefCountExact ==
  \A s \in Sessions, p \in Packets :
    LET c == toBeDeleted[s] IN
    c \in Conns /\ At(s, {"breakSock"}) = {} =>
      IF sendFailed[c] THEN refCount[c][p] >= PacketRefs(s, p)
                       ELSE refCount[c][p] = PacketRefs(s, p)

\* The client receives the login packet and then the echo of its messages,
\* each once and in order, and nothing of the client that had the slot before.
EchoInOrder ==
  \A c \in Conns : \A i \in DOMAIN echoed[c] : echoed[c][i] = i - 1

\* Where WSARecv or WSASend failed, the decrement does not look for zero
\* (CLanServer.cpp:425, :497): somebody else must still hold a reference, or
\* the session would never be released.
FailNotLast == \A t \in Threads : pc[t] \in {"recvFail", "failDec"} => ioCount[cur[t]] >= 2

\* No thread reaches a DebugBreak, but for those Stop and Disconnect lead to
\* (CLanServer.cpp:413, :482): the slot popped is free, a finished send had
\* packets, and packets left over at the release have no other holder.
NoDebugBreak == Running \/ \E t \in Threads : pc[t] = "breakSock"

\* The assertion at CLockFreeStack.h:69, Pop never finds the stack empty, as
\* far as the server can answer for it: as long as no more connections are
\* open than there are slots.
SlotForEach ==
  pc[Acceptor] = "breakPop"
    => Cardinality({c \in Conns : conn[c] \notin {"new", "closed"}}) > SessionMax

\* The server keeps the promise of EchoService, of which Disconnect, that may
\* hit another client than the one meant, is no part: as many connections as
\* there are slots; the login packet and the echoes, each once and in order,
\* however they wait and are gathered; and no connection ends before its client
\* leaves, until Stop has closed the listening socket.
Service == INSTANCE EchoService WITH
  MaxServed <- SessionMax, First <- 0,
  status <- [c \in Conns |-> CASE conn[c] = "new"    -> "new"
                               [] conn[c] = "closed" -> "gone"
                               [] OTHER              -> "served"],
  ending <- [c \in Conns |-> conn[c] \in {"fin", "reset", "closed"} \/ ~listening]
ServesEchoes == Service!Spec

\* A connection the client has closed, or that broke, is released in the end,
\* unless the server is stopped.
SessionsEnd ==
  \A c \in Conns :
    conn[c] \in {"fin", "reset"} ~> (conn[c] = "closed" \/ mainPc # "idle")

\* What arrives is echoed in the end, unless the client leaves or the server
\* is stopped: again and again nothing is left to echo.
EchoServed ==
  \A c \in Conns :
    []<>(conn[c] # "open" \/ mainPc # "idle" \/ Len(echoed[c]) > arrived[c])

\* Stop returns: each worker takes one of the null packets.
StopReturns == mainPc = "join" ~> (mainPc = "stopped" \/ ~Running)
=============================================================================
