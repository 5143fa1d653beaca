---------------------------- MODULE LockedServer ----------------------------
(***************************************************************************)
(* The first server (Iocp_Echo): sessions are allocated for a connection,  *)
(* found through a map under g_sessionMapCs, and worked on under their own *)
(* critical section _cs.  A worker holds _cs when it looks into the map,   *)
(* and Release holds the map's lock when it takes _cs: what keeps the two  *)
(* orders apart is _IOCount.                                               *)
(*                                                                         *)
(* A connection stands for its SOCKET, its Session and its session ID.  A  *)
(* packet is the number of the message it echoes; a receive completion     *)
(* carries whole messages, and _sendBuf holds whole packets (EchoStream is *)
(* about the bytes).  A section that holds only the map's lock and waits   *)
(* for nothing is one step.                                                *)
(***************************************************************************)
EXTENDS Integers, Sequences, FiniteSets

CONSTANTS
  Workers,    \* threads running NetworkThread
  Acceptor,   \* the thread running AcceptThread
  Conns,      \* connections that may arrive (each at most once)
  MaxMsg,     \* bound: messages a client sends
  Nulls,      \* null packets that main posts when Q is pressed (0: never)
  None        \* no thread, no session

Threads == Workers \cup {Acceptor}

ASSUME ConstantsAssumption ==
  /\ IsFiniteSet(Workers) /\ Acceptor \notin Workers
  /\ None \notin Threads \cup Conns
  /\ MaxMsg \in Nat /\ Nulls \in Nat

VARIABLES
  pc, cur, op, batch,           \* threads
  mapOwner, sessionMap,         \* g_sessionMapCs, g_sessionMap
  live, csOwner, csDepth,       \* sessions: not yet deleted; _cs
  ioCount, sendFlag, sendBuf,
  recvIO, recvLen, sendIO, lent, \* the kernel's view; lent: packets of a WSASend
  conn, arrived, echoed,        \* connections; packets delivered
  firstFailed,                  \* history: the accept thread's WSARecv failed
  nulls                         \* null packets on the port

threadVars == <<pc, cur, op, batch>>
lockVars   == <<mapOwner, csOwner, csDepth>>
lifeVars   == <<sessionMap, live>>
sendVars   == <<sendFlag, sendBuf>>
ioVars     == <<recvIO, recvLen, sendIO, lent>>
netVars    == <<conn, arrived, echoed, firstFailed, nulls>>
vars == <<threadVars, lockVars, lifeVars, ioCount, sendVars, ioVars, netVars>>

Init ==
  /\ pc = [t \in Threads |-> IF t = Acceptor THEN "accept" ELSE "gqcs"]
  /\ cur = [t \in Threads |-> None] /\ op = [t \in Threads |-> "none"]
  /\ batch = [t \in Threads |-> 0]
  /\ mapOwner = None /\ sessionMap = {} /\ live = {}
  /\ csOwner = [c \in Conns |-> None] /\ csDepth = [c \in Conns |-> 0]
  /\ ioCount = [c \in Conns |-> 0]
  /\ sendFlag = [c \in Conns |-> 0] /\ sendBuf = [c \in Conns |-> <<>>]
  /\ recvIO = [c \in Conns |-> "none"] /\ recvLen = [c \in Conns |-> 0]
  /\ sendIO = [c \in Conns |-> "none"] /\ lent = [c \in Conns |-> <<>>]
  /\ conn = [c \in Conns |-> "new"] /\ arrived = [c \in Conns |-> 0]
  /\ echoed = [c \in Conns |-> <<>>] /\ firstFailed = [c \in Conns |-> FALSE]
  /\ nulls = 0

Goto(t, l) == pc' = [pc EXCEPT ![t] = l]
GoHome(t) ==
  /\ Goto(t, IF t = Acceptor THEN "accept" ELSE "gqcs")
  /\ cur' = [cur EXCEPT ![t] = None]
  /\ op' = [op EXCEPT ![t] = "none"]

\* EnterCriticalSection and LeaveCriticalSection on a session's _cs
Enter(t, c) ==
  /\ csOwner[c] \in {None, t}
  /\ csOwner' = [csOwner EXCEPT ![c] = t]
  /\ csDepth' = [csDepth EXCEPT ![c] = @ + 1]
Leave(t, c) ==
  /\ csDepth' = [csDepth EXCEPT ![c] = @ - 1]
  /\ csOwner' = [csOwner EXCEPT ![c] = IF csDepth[c] = 1 THEN None ELSE @]

(***************************************************************************)
(* AcceptThread                                                            *)
(***************************************************************************)
\* accept() and a new Session
Accept(c) ==
  /\ pc[Acceptor] = "accept" /\ conn[c] = "new"
  /\ conn' = [conn EXCEPT ![c] = "open"]
  /\ live' = live \cup {c}
  /\ Goto(Acceptor, "insert")
  /\ cur' = [cur EXCEPT ![Acceptor] = c]
  /\ op' = [op EXCEPT ![Acceptor] = "accept"]
  /\ UNCHANGED <<batch, lockVars, sessionMap, ioCount, sendVars, ioVars,
                 arrived, echoed, firstFailed, nulls>>

\* into the map, under its lock; then RecvPost, on no reference of its own
AcceptInsert ==
  /\ pc[Acceptor] = "insert" /\ mapOwner = None
  /\ sessionMap' = sessionMap \cup {cur[Acceptor]}
  /\ Goto(Acceptor, "recvPost")
  /\ UNCHANGED <<cur, op, batch, lockVars, live, ioCount, sendVars, ioVars, netVars>>

(***************************************************************************)
(* NetworkThread                                                           *)
(***************************************************************************)
\* GetQueuedCompletionStatus returns a receive or a send of session c
DequeueRecv(t, c) ==
  /\ pc[t] = "gqcs" /\ recvIO[c] = "done"
  /\ Goto(t, "lockCs")
  /\ cur' = [cur EXCEPT ![t] = c]
  /\ op' = [op EXCEPT ![t] = IF recvLen[c] = 0 THEN "failed" ELSE "recv"]
  /\ batch' = [batch EXCEPT ![t] = recvLen[c]]
  /\ recvIO' = [recvIO EXCEPT ![c] = "none"]
  /\ recvLen' = [recvLen EXCEPT ![c] = 0]
  /\ UNCHANGED <<lockVars, lifeVars, ioCount, sendVars, sendIO, lent, netVars>>

DequeueSend(t, c) ==
  /\ pc[t] = "gqcs" /\ sendIO[c] \in {"done", "aborted"}
  /\ Goto(t, "lockCs")
  /\ cur' = [cur EXCEPT ![t] = c]
  /\ op' = [op EXCEPT ![t] = IF sendIO[c] = "aborted" THEN "failed" ELSE "send"]
  /\ sendIO' = [sendIO EXCEPT ![c] = "none"]
  /\ UNCHANGED <<batch, lockVars, lifeVars, ioCount, sendVars, recvIO, recvLen, lent, netVars>>

\* ... or a null packet: the thread enters the _cs of no session, before it
\* looks whether there is one
DequeueNull(t) ==
  /\ pc[t] = "gqcs" /\ nulls > 0
  /\ nulls' = nulls - 1
  /\ Goto(t, "breakNull")
  /\ UNCHANGED <<cur, op, batch, lockVars, lifeVars, ioCount, sendVars, ioVars,
                 conn, arrived, echoed, firstFailed>>

LockSession(t) ==
  /\ pc[t] = "lockCs"
  /\ Enter(t, cur[t])
  /\ Goto(t, CASE op[t] = "recv"   -> "loop"
               [] op[t] = "send"   -> "sendDone"
               [] OTHER           -> "unlockCs")
  /\ UNCHANGED <<cur, op, batch, mapOwner, lifeVars, ioCount, sendVars, ioVars, netVars>>

\* the bytes sent leave _sendBuf, the flag is given back, SendPost
\* (faulty variants: the flag stays; one packet stays)
SendDoneLeaving(t, staying, flag) ==
  LET c == cur[t] IN
  /\ pc[t] = "sendDone"
  /\ sendBuf' = [sendBuf EXCEPT ![c] = SubSeq(@, Len(lent[c]) + 1 - staying, Len(@))]
  /\ lent' = [lent EXCEPT ![c] = <<>>]
  /\ sendFlag' = [sendFlag EXCEPT ![c] = flag]
  /\ Goto(t, "sendPost")
  /\ UNCHANGED <<cur, op, batch, lockVars, lifeVars, ioCount, recvIO, recvLen, sendIO, netVars>>
SendDoneKeepsFlag(t) == SendDoneLeaving(t, 0, 1)
SendDoneShort(t)     == SendDoneLeaving(t, 1, 0)
SendDone(t)          == SendDoneLeaving(t, 0, 0)

\* the loop of ProcessRecvMessage: one more message, or RecvPost
ProcessMessage(t) ==
  /\ pc[t] = "loop"
  /\ Goto(t, IF batch[t] > 0 THEN "find" ELSE "recvPost")
  /\ batch' = [batch EXCEPT ![t] = IF @ > 0 THEN @ - 1 ELSE 0]
  /\ UNCHANGED <<cur, op, lockVars, lifeVars, ioCount, sendVars, ioVars, netVars>>

\* OnRecv looks whether the session is in the map; if not, DebugBreak
OnRecv(t) ==
  /\ pc[t] = "find" /\ mapOwner = None
  /\ Goto(t, IF cur[t] \in sessionMap THEN "sendMap" ELSE "breakFind")
  /\ UNCHANGED <<cur, op, batch, lockVars, lifeVars, ioCount, sendVars, ioVars, netVars>>

\* SendPacket: the map's lock, then the session's, which the thread already
\* owns, then the map's is given back
SendLockMap(t) ==
  /\ pc[t] = "sendMap" /\ mapOwner = None
  /\ mapOwner' = t
  /\ Goto(t, "sendCs")
  /\ UNCHANGED <<cur, op, batch, csOwner, csDepth, lifeVars, ioCount, sendVars, ioVars, netVars>>

SendLockSession(t) ==
  /\ pc[t] = "sendCs"
  /\ Enter(t, cur[t])
  /\ mapOwner' = None
  /\ Goto(t, "enqueue")
  /\ UNCHANGED <<cur, op, batch, lifeVars, ioCount, sendVars, ioVars, netVars>>

SendEnqueue(t) ==
  LET c == cur[t] IN
  /\ pc[t] = "enqueue"
  /\ sendBuf' = [sendBuf EXCEPT ![c] = Append(@, arrived[c] - batch[t])]
  /\ Goto(t, "sendPost")
  /\ UNCHANGED <<cur, op, batch, lockVars, lifeVars, ioCount, sendFlag, ioVars, netVars>>

\* the end of SendPacket; the send completion has not entered _cs twice
AfterSend(t) == IF op[t] = "recv" THEN "sendUnlock" ELSE "unlockCs"
SendUnlock(t) ==
  /\ pc[t] = "sendUnlock"
  /\ Leave(t, cur[t])
  /\ Goto(t, "loop")
  /\ UNCHANGED <<cur, op, batch, mapOwner, lifeVars, ioCount, sendVars, ioVars, netVars>>

(***************************************************************************)
(* SendPost and RecvPost                                                   *)
(***************************************************************************)
\* the flag, the size, the WSABUFs
SendPost(t) ==
  LET c == cur[t] IN
  /\ pc[t] = "sendPost"
  /\ IF sendFlag[c] = 1 \/ sendBuf[c] = <<>>
       THEN Goto(t, AfterSend(t)) /\ UNCHANGED <<sendFlag, lent>>
       ELSE /\ Goto(t, "sendRef")
            /\ sendFlag' = [sendFlag EXCEPT ![c] = 1]
            /\ lent' = [lent EXCEPT ![c] = sendBuf[c]]
  /\ UNCHANGED <<cur, op, batch, lockVars, lifeVars, ioCount, sendBuf, recvIO, recvLen, sendIO, netVars>>

SendRef(t) ==
  LET c == cur[t] IN
  /\ pc[t] = "sendRef"
  /\ ioCount' = [ioCount EXCEPT ![c] = @ + 1]
  /\ sendIO' = [sendIO EXCEPT ![c] = "posting"]
  /\ Goto(t, "wsaSend")
  /\ UNCHANGED <<cur, op, batch, lockVars, lifeVars, sendVars, recvIO, recvLen, lent, netVars>>

WSASendPosted(t) ==
  /\ pc[t] = "wsaSend"
  /\ sendIO' = [sendIO EXCEPT ![cur[t]] = "pending"]
  /\ Goto(t, AfterSend(t))
  /\ UNCHANGED <<cur, op, batch, lockVars, lifeVars, ioCount, sendVars, recvIO, recvLen, lent, netVars>>

\* a call fails on a broken connection and gives its reference back; the
\* flag stays
WSASendFails(t) ==
  LET c == cur[t] IN
  /\ pc[t] = "wsaSend" /\ conn[c] = "reset"
  /\ ioCount' = [ioCount EXCEPT ![c] = @ - 1]
  /\ sendIO' = [sendIO EXCEPT ![c] = "none"]
  /\ Goto(t, AfterSend(t))
  /\ UNCHANGED <<cur, op, batch, lockVars, lifeVars, sendVars, recvIO, recvLen, lent, netVars>>

RecvPost(t) ==
  LET c == cur[t] IN
  /\ pc[t] = "recvPost"
  /\ ioCount' = [ioCount EXCEPT ![c] = @ + 1]
  /\ recvIO' = [recvIO EXCEPT ![c] = "posting"]
  /\ Goto(t, "wsaRecv")
  /\ UNCHANGED <<cur, op, batch, lockVars, lifeVars, sendVars, recvLen, sendIO, lent, netVars>>

\* a worker goes on under the lock, the accept thread with the next client
AfterRecv(t) ==
  IF t = Acceptor THEN GoHome(t) ELSE Goto(t, "unlockCs") /\ UNCHANGED <<cur, op>>

WSARecvPosted(t) ==
  /\ pc[t] = "wsaRecv"
  /\ recvIO' = [recvIO EXCEPT ![cur[t]] = "pending"]
  /\ AfterRecv(t)
  /\ UNCHANGED <<batch, lockVars, lifeVars, ioCount, sendVars, recvLen, sendIO, lent, netVars>>

\* (faulty variant: the reference is not given back)
WSARecvFailsGiving(t, references) ==
  LET c == cur[t] IN
  /\ pc[t] = "wsaRecv" /\ conn[c] = "reset"
  /\ ioCount' = [ioCount EXCEPT ![c] = @ - references]
  /\ recvIO' = [recvIO EXCEPT ![c] = "none"]
  /\ firstFailed' = [firstFailed EXCEPT ![c] = (t = Acceptor)]
  /\ AfterRecv(t)
  /\ UNCHANGED <<batch, lockVars, lifeVars, sendVars, recvLen, sendIO, lent,
                 conn, arrived, echoed, nulls>>
WSARecvFailsKeepsRef(t) == WSARecvFailsGiving(t, 0)
WSARecvFails(t)         == WSARecvFailsGiving(t, 1)

(***************************************************************************)
(* The end of a completion, and Release                                    *)
(***************************************************************************)
UnlockSession(t) ==
  /\ pc[t] = "unlockCs"
  /\ Leave(t, cur[t])
  /\ Goto(t, "ioDec")
  /\ UNCHANGED <<cur, op, batch, mapOwner, lifeVars, ioCount, sendVars, ioVars, netVars>>

\* the last reference releases (faulty variant: the last but one)
IODecrementAt(t, last) ==
  LET c == cur[t] IN
  /\ pc[t] = "ioDec"
  /\ ioCount' = [ioCount EXCEPT ![c] = @ - 1]
  /\ IF ioCount[c] = last THEN Goto(t, "releaseMap") /\ UNCHANGED <<cur, op>> ELSE GoHome(t)
  /\ UNCHANGED <<batch, lockVars, lifeVars, sendVars, ioVars, netVars>>
IODecrementEarly(t) == IODecrementAt(t, 2)
IODecrement(t)      == IODecrementAt(t, 1)

\* Release: the map's lock, where an unknown session is left alone ...
ReleaseLockMap(t) ==
  /\ pc[t] = "releaseMap" /\ mapOwner = None
  /\ IF cur[t] \in sessionMap
       THEN mapOwner' = t /\ Goto(t, "releaseCs") /\ UNCHANGED <<cur, op>>
       ELSE GoHome(t) /\ UNCHANGED mapOwner
  /\ UNCHANGED <<batch, csOwner, csDepth, lifeVars, ioCount, sendVars, ioVars, netVars>>

\* ... the session's lock, entered and left again
ReleaseSync(t) ==
  /\ pc[t] = "releaseCs" /\ csOwner[cur[t]] \in {None, t}
  /\ Goto(t, "releaseClose")
  /\ UNCHANGED <<cur, op, batch, lockVars, lifeVars, ioCount, sendVars, ioVars, netVars>>

ReleaseClose(t) ==
  /\ pc[t] = "releaseClose"
  /\ conn' = [conn EXCEPT ![cur[t]] = "closed"]
  /\ Goto(t, "releaseDelete")
  /\ UNCHANGED <<cur, op, batch, lockVars, lifeVars, ioCount, sendVars, ioVars,
                 arrived, echoed, firstFailed, nulls>>

\* the session is deleted and leaves the map, whose lock is given back
ReleaseDelete(t) ==
  /\ pc[t] = "releaseDelete"
  /\ live' = live \ {cur[t]}
  /\ sessionMap' = sessionMap \ {cur[t]}
  /\ mapOwner' = None
  /\ GoHome(t)
  /\ UNCHANGED <<batch, csOwner, csDepth, ioCount, sendVars, ioVars, netVars>>

Release(t) == ReleaseLockMap(t) \/ ReleaseSync(t) \/ ReleaseClose(t) \/ ReleaseDelete(t)

(***************************************************************************)
(* The clients and the kernel (external), and main                         *)
(***************************************************************************)
ClientLeaves(c) ==
  /\ \/ conn[c] = "open" /\ conn' = [conn EXCEPT ![c] = "fin"]
     \/ conn[c] \in {"open", "fin"} /\ conn' = [conn EXCEPT ![c] = "reset"]
  /\ UNCHANGED <<threadVars, lockVars, lifeVars, ioCount, sendVars, ioVars,
                 arrived, echoed, firstFailed, nulls>>

RecvArrives(c, k) ==
  /\ recvIO[c] = "pending" /\ conn[c] = "open" /\ arrived[c] + k <= MaxMsg
  /\ arrived' = [arrived EXCEPT ![c] = @ + k]
  /\ recvIO' = [recvIO EXCEPT ![c] = "done"]
  /\ recvLen' = [recvLen EXCEPT ![c] = k]
  /\ UNCHANGED <<threadVars, lockVars, lifeVars, ioCount, sendVars, sendIO, lent,
                 conn, echoed, firstFailed, nulls>>

RecvEnds(c) ==
  /\ recvIO[c] = "pending" /\ conn[c] \in {"fin", "reset"}
  /\ recvIO' = [recvIO EXCEPT ![c] = "done"]
  /\ UNCHANGED <<threadVars, lockVars, lifeVars, ioCount, sendVars, recvLen, sendIO, lent, netVars>>

\* the bytes lent leave; what is there when they are read
SendCompletes(c) ==
  /\ sendIO[c] = "pending" /\ conn[c] \in {"open", "fin"}
  /\ sendIO' = [sendIO EXCEPT ![c] = "done"]
  /\ echoed' = [echoed EXCEPT ![c] = @ \o SubSeq(sendBuf[c], 1, Len(lent[c]))]
  /\ UNCHANGED <<threadVars, lockVars, lifeVars, ioCount, sendVars, recvIO, recvLen, lent,
                 conn, arrived, firstFailed, nulls>>

SendAborts(c) ==
  /\ sendIO[c] = "pending" /\ conn[c] = "reset"
  /\ sendIO' = [sendIO EXCEPT ![c] = "aborted"]
  /\ UNCHANGED <<threadVars, lockVars, lifeVars, ioCount, sendVars, recvIO, recvLen, lent, netVars>>

KernelCompletes(c) == RecvEnds(c) \/ SendCompletes(c) \/ SendAborts(c)

\* Q is pressed: the null packets are posted (at most once)
Quit ==
  /\ nulls = 0 /\ Nulls > 0
  /\ nulls' = Nulls
  /\ UNCHANGED <<threadVars, lockVars, lifeVars, ioCount, sendVars, ioVars,
                 conn, arrived, echoed, firstFailed>>

(***************************************************************************)
(* The specification                                                       *)
(***************************************************************************)
BreakPcs == {"breakNull", "breakFind"}
Running  == \A t \in Threads : pc[t] \notin BreakPcs

WorkerStep(t) ==
  \/ \E c \in Conns : DequeueRecv(t, c) \/ DequeueSend(t, c)
  \/ LockSession(t) \/ SendDone(t) \/ ProcessMessage(t) \/ OnRecv(t)
  \/ SendLockMap(t) \/ SendLockSession(t) \/ SendEnqueue(t) \/ SendUnlock(t)
  \/ SendPost(t) \/ SendRef(t) \/ WSASendPosted(t) \/ WSASendFails(t)
  \/ RecvPost(t) \/ WSARecvPosted(t) \/ WSARecvFails(t)
  \/ UnlockSession(t) \/ IODecrement(t) \/ Release(t)
AcceptorStep ==
  AcceptInsert \/ RecvPost(Acceptor) \/ WSARecvPosted(Acceptor) \/ WSARecvFails(Acceptor)

Next ==
  /\ Running
  /\ \/ \E c \in Conns : Accept(c) \/ ClientLeaves(c)
     \/ \E t \in Workers : WorkerStep(t) \/ DequeueNull(t)
     \/ AcceptorStep
     \/ \E c \in Conns :
          KernelCompletes(c) \/ \E k \in 1 .. MaxMsg : RecvArrives(c, k)
     \/ Quit

Spec == Init /\ [][Next]_vars

(***************************************************************************)
(* Properties                                                              *)
(***************************************************************************)
\* where a worker acts under _cs; where it has entered it twice
HeldPcs    == {"loop", "find", "sendMap", "sendDone", "recvPost", "wsaRecv", "unlockCs",
               "sendCs", "enqueue", "sendPost", "sendRef", "wsaSend", "sendUnlock"}
RefPcs     == HeldPcs \cup {"lockCs", "ioDec", "breakFind"}
ReleasePcs == {"releaseMap", "releaseCs", "releaseClose", "releaseDelete"}

At(c, pcs) == {t \in Workers : cur[t] = c /\ pc[t] \in pcs}
Busy(io)   == IF io = "none" THEN 0 ELSE 1
References(c) == Cardinality(At(c, RefPcs)) + Busy(recvIO[c]) + Busy(sendIO[c])

\* Every variable stays in its range.
TypeOK ==
  /\ pc \in [Threads -> RefPcs \cup ReleasePcs \cup BreakPcs \cup {"accept", "insert", "gqcs"}]
  /\ cur \in [Threads -> Conns \cup {None}]
  /\ op \in [Threads -> {"none", "accept", "recv", "send", "failed"}]
  /\ batch \in [Threads -> 0 .. MaxMsg]
  /\ mapOwner \in Threads \cup {None} /\ csOwner \in [Conns -> Threads \cup {None}]
  /\ csDepth \in [Conns -> 0 .. 2]
  /\ sessionMap \subseteq live /\ live \subseteq Conns
  /\ ioCount \in [Conns -> Nat] /\ sendFlag \in [Conns -> {0, 1}]
  /\ recvIO \in [Conns -> {"none", "posting", "pending", "done"}]
  /\ sendIO \in [Conns -> {"none", "posting", "pending", "done", "aborted"}]
  /\ recvLen \in [Conns -> 0 .. MaxMsg] /\ arrived \in [Conns -> 0 .. MaxMsg]
  /\ conn \in [Conns -> {"new", "open", "fin", "reset", "closed"}]
  /\ nulls \in 0 .. Nulls

\* The session a thread works on, waits for or releases exists, and one that
\* is being released is referred to by nobody else: no thread uses a deleted
\* session, or waits for a deleted lock.  It is in the map when OnRecv and
\* SendPacket look for it: the one would call DebugBreak (NetLib.cpp:207), the
\* other use what it did not find (:237).  And no session is lost: as long as
\* it exists somebody refers to it or releases it, but where the accept thread's
\* first WSARecv failed, whose decrement (:119) does not look for zero.  (Every
\* variable is in its range besides.)
SessionLife ==
  /\ TypeOK
  /\ \A t \in Threads : cur[t] # None => cur[t] \in live
  /\ \A t \in Threads : pc[t] \in {"find", "sendMap", "sendCs"} => cur[t] \in sessionMap
  /\ \A c \in Conns : recvIO[c] # "none" \/ sendIO[c] # "none" => c \in live
  /\ \A c \in Conns : At(c, ReleasePcs) # {} =>
       References(c) = 0 /\ Cardinality(At(c, ReleasePcs)) = 1
  /\ \A c \in live :
       References(c) > 0 \/ At(c, ReleasePcs) # {} \/ cur[Acceptor] = c \/ firstFailed[c]

\* The comment at NetLib.cpp:217: nobody holds the session's lock when
\* Release takes it.  As a worker waits for the map's lock with the session's
\* in hand, and Release the other way around, they would wait for each other.
NoLockCycle ==
  \A t \in Workers :
    pc[t] \in {"releaseCs", "sendCs"} =>
      \/ csOwner[cur[t]] \in {None, t}
      \/ pc[csOwner[cur[t]]] \notin {"find", "sendMap", "releaseMap"}

\* When nobody holds a session's lock, what is in _sendBuf is being sent, as
\* long as the connection works: SendPost tries once and never again, and no
\* packet waits for one that may not come.
EchoesGoOut ==
  \A c \in live :
    csOwner[c] = None /\ sendBuf[c] # <<>> /\ conn[c] \in {"open", "fin"}
      => sendIO[c] # "none" \/ At(c, {"lockCs"}) # {}

Service == INSTANCE EchoService WITH
  MaxServed <- Cardinality(Conns), First <- 1,
  status <- [c \in Conns |-> CASE conn[c] = "new"    -> "new"
                               [] conn[c] = "closed" -> "gone"
                               [] OTHER              -> "served"],
  ending <- [c \in Conns |-> conn[c] \in {"fin", "reset", "closed"}]
\* The server serves its clients as EchoService says: each message is echoed
\* once, in order and to who sent it, and a session ends only after its client
\* left.  Winsock reads the packets where they lie in _sendBuf while others
\* are queued behind them, and the completion must drop just those.
ServesEchoes == Service!Spec
=============================================================================
