------------------------- MODULE LockedServerProofs -------------------------
(***************************************************************************)
(* Theorems about LockedServer, for any workers, connections, messages and *)
(* null packets.                                                           *)
(***************************************************************************)
EXTENDS LockedServer, FiniteSetTheorems, SequenceTheorems, TLAPS

(***************************************************************************)
(* The inductive invariant                                                 *)
(***************************************************************************)
\* SendPost, within SendPacket or after a completed send
PostPcs == {"sendPost", "sendRef", "wsaSend"}
\* between a receive completion and the next RecvPost, but for SendPost
RecvPcs == {"loop", "find", "sendMap", "sendCs", "enqueue", "sendUnlock", "recvPost"}
\* under the map's lock
MapPcs  == {"sendCs", "releaseCs", "releaseClose", "releaseDelete"}

\* t holds what a receive brought, and will post the next one
Receiving(t) ==
  \/ pc[t] \in RecvPcs
  \/ (pc[t] \in PostPcs \cup {"lockCs"} /\ op[t] = "recv")
\* t will take the packets sent from _sendBuf
Done(t) == pc[t] = "sendDone" \/ (pc[t] = "lockCs" /\ op[t] = "send")
\* t holds the flag, and no send is out
Flagging(t) == Done(t) \/ pc[t] = "sendRef"
\* t has entered _cs twice
Twice(t) ==
  pc[t] \in {"enqueue", "sendUnlock"} \/ (pc[t] \in PostPcs /\ op[t] = "recv")
\* messages in hand and not yet in _sendBuf
Behind(t) == batch[t] + IF pc[t] \in {"find", "sendMap", "sendCs", "enqueue"} THEN 1 ELSE 0

\* the rest of the types
DataType ==
  /\ sendBuf \in [Conns -> Seq(Int)] /\ lent \in [Conns -> Seq(Int)]
  /\ echoed \in [Conns -> Seq(Int)] /\ firstFailed \in [Conns -> BOOLEAN]

\* where a thread is, and for what
ThreadOK ==
  /\ \A t \in Workers :
       /\ pc[t] \in (RefPcs \ {"breakFind"}) \cup ReleasePcs \cup {"gqcs", "breakNull"}
       /\ cur[t] = None <=> pc[t] \in {"gqcs", "breakNull"}
       /\ pc[t] \in RecvPcs \cup {"wsaRecv"} => op[t] = "recv"
       /\ pc[t] = "sendDone" => op[t] = "send"
       /\ pc[t] \in PostPcs => op[t] \in {"recv", "send"}
       /\ pc[t] = "lockCs" => op[t] \in {"recv", "send", "failed"}
  /\ pc[Acceptor] \in {"accept", "insert", "recvPost", "wsaRecv"}
  /\ cur[Acceptor] = None <=> pc[Acceptor] = "accept"

\* who owns the locks, and how often
LockOK ==
  /\ \A c \in Conns, t \in Threads :
       csOwner[c] = t <=> t \in Workers /\ cur[t] = c /\ pc[t] \in HeldPcs
  /\ \A c \in Conns : csOwner[c] = None => csDepth[c] = 0
  /\ \A t \in Workers : pc[t] \in HeldPcs => csDepth[cur[t]] = IF Twice(t) THEN 2 ELSE 1
  /\ \A t \in Threads : mapOwner = t <=> t \in Workers /\ pc[t] \in MapPcs

CountOK == \A c \in Conns : ioCount[c] = References(c)

\* one receive, or one thread that handles it
RecvOK ==
  /\ \A t, u \in Workers : Receiving(t) /\ Receiving(u) /\ cur[t] = cur[u] => t = u
  /\ \A t \in Workers : Receiving(t) => recvIO[cur[t]] = "none"
  /\ \A t \in Threads : pc[t] = "wsaRecv" => recvIO[cur[t]] = "posting"

\* one send, under the flag
SendOK ==
  /\ \A t, u \in Workers : Flagging(t) /\ Flagging(u) /\ cur[t] = cur[u] => t = u
  /\ \A t \in Workers : Flagging(t) => sendIO[cur[t]] = "none" /\ sendFlag[cur[t]] = 1
  /\ \A t \in Workers : pc[t] = "wsaSend" => sendIO[cur[t]] = "posting"
  /\ \A c \in Conns : sendIO[c] # "none" => sendFlag[c] = 1

\* the accept thread has its session to itself, and so has who releases one
AloneOK ==
  /\ pc[Acceptor] # "accept" =>
       /\ \A u \in Workers : cur[u] # cur[Acceptor]
       /\ sendIO[cur[Acceptor]] = "none"
       /\ pc[Acceptor] # "wsaRecv" => recvIO[cur[Acceptor]] = "none"
  /\ \A t \in Workers : pc[t] \in ReleasePcs =>
       /\ \A u \in Threads : cur[u] = cur[t] => u = t
       /\ recvIO[cur[t]] = "none" /\ sendIO[cur[t]] = "none"

\* a session that is used exists, and is in the map but at first
LiveOK ==
  /\ \A t \in Threads : cur[t] # None => cur[t] \in live
  /\ \A c \in Conns : recvIO[c] # "none" \/ sendIO[c] # "none" => c \in live
  /\ \A c \in live : c \in sessionMap \/ (pc[Acceptor] = "insert" /\ cur[Acceptor] = c)
  /\ \A c \in live : conn[c] # "new"
  /\ \A c \in live :
       \/ \E t \in Threads : cur[t] = c
       \/ recvIO[c] # "none" \/ sendIO[c] # "none" \/ firstFailed[c]

\* a session ends after its client left
ConnOK ==
  /\ \A c \in Conns : conn[c] = "open" =>
       cur[Acceptor] = c \/ recvIO[c] # "none" \/ \E t \in Workers : cur[t] = c /\ Receiving(t)
  /\ \A c \in Conns : recvIO[c] = "done" /\ recvLen[c] = 0 => conn[c] # "open"
  /\ \A c \in Conns : sendIO[c] = "aborted" => conn[c] \notin {"open", "fin"}
  /\ \A c \in live : conn[c] = "closed" => \E t \in Workers : cur[t] = c /\ pc[t] = "releaseDelete"

\* the flag is up for a reason, and so are packets in _sendBuf
WaitOK ==
  \A c \in Conns : conn[c] \in {"open", "fin"} =>
    /\ sendFlag[c] = 1 =>
         sendIO[c] # "none" \/ \E t \in Workers : cur[t] = c /\ Flagging(t)
    /\ sendBuf[c] # <<>> =>
         \/ sendIO[c] # "none"
         \/ \E t \in Workers : cur[t] = c /\ (Flagging(t) \/ pc[t] = "sendPost")

\* packets that are out and still in _sendBuf; packets dropped from it
Out(c) == IF sendIO[c] = "done" \/ \E t \in Workers : cur[t] = c /\ Done(t)
            THEN Len(lent[c]) ELSE 0
Dropped(c) == Len(echoed[c]) - Out(c)

\* packets enqueued so far
Queued(c)  == Dropped(c) + Len(sendBuf[c])

\* every packet is in its place, and every message received is enqueued, at
\* hand, or in the receive that brought it
Placed(c) ==
  /\ \A i \in DOMAIN echoed[c] : echoed[c][i] = i
  /\ \A i \in DOMAIN sendBuf[c] : sendBuf[c][i] = Dropped(c) + i
  /\ Len(lent[c]) <= Len(sendBuf[c])
  /\ sendFlag[c] = 0 => lent[c] = <<>>
  /\ conn[c] = "new" =>
       echoed[c] = <<>> /\ sendBuf[c] = <<>> /\ arrived[c] = 0 /\ sendFlag[c] = 0
Counted(c) ==
  /\ recvIO[c] # "done" => recvLen[c] = 0
  /\ \A t \in Workers : cur[t] = c /\ Receiving(t) => Queued(c) + Behind(t) = arrived[c]
  /\ (\A t \in Workers : cur[t] = c => ~ Receiving(t)) => Queued(c) + recvLen[c] = arrived[c]
DataOK ==
  /\ \A c \in Conns : Placed(c) /\ Counted(c)
  /\ \A t \in Workers : pc[t] = "recvPost" => batch[t] = 0

IInv ==
  /\ TypeOK /\ DataType /\ ThreadOK /\ LockOK /\ CountOK /\ RecvOK /\ SendOK
  /\ AloneOK /\ LiveOK /\ ConnOK /\ WaitOK /\ DataOK

(***************************************************************************)
(* Steps                                                                   *)
(***************************************************************************)
Pcs == RefPcs \cup ReleasePcs \cup BreakPcs \cup {"accept", "insert", "gqcs"}
Shape ==
  /\ pc \in [Threads -> Pcs] /\ cur \in [Threads -> Conns \cup {None}]
  /\ op \in [Threads -> {"none", "accept", "recv", "send", "failed"}]
  /\ None \notin Threads /\ None \notin Conns
  /\ Acceptor \in Threads /\ Acceptor \notin Workers /\ Workers \subseteq Threads

\* what most steps need of the types
LEMMA TypeShape == TypeOK => Shape
BY ConstantsAssumption DEF TypeOK, Shape, Threads, Pcs

\* no thread moves
OutsideStep ==
  \/ \E c \in Conns : ClientLeaves(c) \/ KernelCompletes(c)
  \/ \E c \in Conns, k \in 1 .. MaxMsg : RecvArrives(c, k)
  \/ Quit
NoThreadMoves ==
  /\ pc' = pc /\ cur' = cur /\ op' = op /\ batch' = batch
  /\ mapOwner' = mapOwner /\ csOwner' = csOwner /\ csDepth' = csDepth
  /\ sessionMap' = sessionMap /\ live' = live /\ ioCount' = ioCount
  /\ sendFlag' = sendFlag /\ sendBuf' = sendBuf /\ lent' = lent
  /\ firstFailed' = firstFailed

\* a worker goes on with its session
LockSteps(t) ==
  LockSession(t) \/ SendLockMap(t) \/ SendLockSession(t) \/ SendUnlock(t) \/ UnlockSession(t)
BufSteps(t)  == SendDone(t) \/ ProcessMessage(t) \/ OnRecv(t) \/ SendEnqueue(t)
SendSteps(t) == SendPost(t) \/ SendRef(t) \/ WSASendPosted(t) \/ WSASendFails(t)
RecvSteps(t) == RecvPost(t) \/ WSARecvPosted(t) \/ WSARecvFails(t)
GoesOn(t) == LockSteps(t) \/ BufSteps(t) \/ SendSteps(t) \/ RecvSteps(t)

\* the steps, by who takes them
LEMMA NextSplit ==
  ASSUME Next
  PROVE  \/ \E t \in Workers : GoesOn(t)
         \/ \E t \in Workers, c \in Conns : DequeueRecv(t, c) \/ DequeueSend(t, c)
         \/ \E t \in Workers : DequeueNull(t) \/ IODecrement(t) \/ Release(t)
         \/ \E c \in Conns : Accept(c)
         \/ AcceptInsert \/ RecvSteps(Acceptor)
         \/ OutsideStep
BY DEF Next, WorkerStep, AcceptorStep, GoesOn, LockSteps, BufSteps, SendSteps, RecvSteps,
   OutsideStep

\* clients and kernel move no thread and touch no lock, count, flag or buffer
LEMMA OutsideFrame == OutsideStep => NoThreadMoves
<1> USE DEF NoThreadMoves, threadVars, lockVars, lifeVars, sendVars, ioVars, netVars
<1>1. ASSUME NEW c \in Conns, ClientLeaves(c) \/ RecvEnds(c) PROVE NoThreadMoves
  BY <1>1 DEF ClientLeaves, RecvEnds
<1>2. ASSUME NEW c \in Conns, SendCompletes(c) \/ SendAborts(c) PROVE NoThreadMoves
  BY <1>2 DEF SendCompletes, SendAborts
<1>3. ASSUME NEW c \in Conns, NEW k \in 1 .. MaxMsg, RecvArrives(c, k) PROVE NoThreadMoves
  BY <1>3 DEF RecvArrives
<1>4. CASE Quit
  BY <1>4 DEF Quit
<1> QED
  BY <1>1, <1>2, <1>3, <1>4 DEF OutsideStep, KernelCompletes

\* what the clients and the kernel do to a session
Completes(c) ==
  /\ recvIO'[c] = recvIO[c] \/ (recvIO[c] = "pending" /\ recvIO'[c] = "done")
  /\ sendIO'[c] = sendIO[c] \/ (sendIO[c] = "pending" /\ sendIO'[c] \in {"done", "aborted"})
  /\ conn'[c] = conn[c] \/ (conn[c] \in {"open", "fin"} /\ conn'[c] \in {"fin", "reset"})
  /\ recvIO'[c] = recvIO[c] => recvLen'[c] = recvLen[c]
  /\ recvIO'[c] # recvIO[c] /\ recvLen'[c] = 0 => conn'[c] # "open"
  /\ sendIO'[c] # sendIO[c] /\ sendIO'[c] = "aborted" => conn'[c] = "reset"
\* a client or the kernel moves a session in one of these ways
LEMMA OutsideSession ==
  ASSUME TypeOK, OutsideStep, NEW c \in Conns
  PROVE  Completes(c)
<1> USE DEF Completes, TypeOK, ioVars, netVars
<1>1. ASSUME NEW d \in Conns, ClientLeaves(d) \/ RecvEnds(d) PROVE Completes(c)
  BY <1>1 DEF ClientLeaves, RecvEnds
<1>2. ASSUME NEW d \in Conns, SendCompletes(d) \/ SendAborts(d) PROVE Completes(c)
  BY <1>2, ZenonT(60) DEF SendCompletes, SendAborts
<1>3. ASSUME NEW d \in Conns, NEW k \in 1 .. MaxMsg, RecvArrives(d, k) PROVE Completes(c)
  BY <1>3 DEF RecvArrives
<1>4. CASE Quit
  BY <1>4 DEF Quit
<1> QED
  BY <1>1, <1>2, <1>3, <1>4 DEF OutsideStep, KernelCompletes

\* where a worker goes, and what stays
LEMMA GoesOnFrame ==
  ASSUME Shape, ThreadOK, LiveOK, AloneOK, NEW t \in Workers, GoesOn(t)
  PROVE  /\ cur[t] \in Conns /\ cur' = cur /\ op' = op
         /\ sessionMap' = sessionMap /\ live' = live
         /\ pc[t] \in HeldPcs \cup {"lockCs"} /\ pc'[t] \in HeldPcs \cup {"ioDec"}
         /\ \A u \in Threads : u # t => pc'[u] = pc[u]
         /\ pc'[t] \in RecvPcs \cup {"wsaRecv"} => op[t] = "recv"
         /\ pc'[t] = "sendDone" => op[t] = "send"
         /\ pc'[t] \in PostPcs => op[t] \in {"recv", "send"}
<1> USE DEF Shape, ThreadOK, HeldPcs, RecvPcs, PostPcs, Goto, lockVars, lifeVars
<1>1. CASE LockSteps(t)
  BY <1>1 DEF LockSteps, LockSession, SendLockMap, SendLockSession, SendUnlock, UnlockSession
<1>2. CASE BufSteps(t)
  <2>1. CASE SendDone(t)
    BY <2>1 DEF SendDone, SendDoneLeaving
  <2>2. CASE ProcessMessage(t)
    BY <2>2 DEF ProcessMessage
  <2>3. CASE OnRecv(t)
    BY <2>3 DEF OnRecv, LiveOK, AloneOK
  <2>4. CASE SendEnqueue(t)
    BY <2>4 DEF SendEnqueue
  <2> QED BY <1>2, <2>1, <2>2, <2>3, <2>4 DEF BufSteps
<1>3. CASE SendSteps(t)
  BY <1>3 DEF SendSteps, SendPost, SendRef, WSASendPosted, WSASendFails, AfterSend
<1>4. CASE RecvSteps(t)
  BY <1>4 DEF RecvSteps, RecvPost, WSARecvPosted, WSARecvFails, WSARecvFailsGiving, AfterRecv
<1> QED
  BY <1>1, <1>2, <1>3, <1>4 DEF GoesOn

\* threads stay where they belong
LEMMA ThreadStep ==
  ASSUME Shape, ThreadOK, LiveOK, AloneOK, Next
  PROVE  ThreadOK'
<1> USE DEF Shape, ThreadOK, RefPcs, HeldPcs, ReleasePcs, RecvPcs, PostPcs, Goto, GoHome
<1>1. CASE OutsideStep
  BY <1>1, OutsideFrame DEF NoThreadMoves
<1>2. ASSUME NEW c \in Conns, Accept(c) PROVE ThreadOK'
  BY <1>2 DEF Accept
<1>3. ASSUME NEW t \in Workers, GoesOn(t) PROVE ThreadOK'
  BY <1>3, GoesOnFrame
<1>4. ASSUME NEW t \in Workers, NEW c \in Conns, DequeueRecv(t, c) \/ DequeueSend(t, c)
      PROVE  ThreadOK'
  BY <1>4 DEF DequeueRecv, DequeueSend
<1>5. ASSUME NEW t \in Workers, DequeueNull(t) \/ IODecrement(t) \/ Release(t) PROVE ThreadOK'
  BY <1>5 DEF DequeueNull, IODecrement, IODecrementAt, Release, ReleaseLockMap, ReleaseSync,
              ReleaseClose, ReleaseDelete
<1>6. CASE AcceptInsert
  BY <1>6 DEF AcceptInsert
<1>7. CASE RecvSteps(Acceptor)
  BY <1>7 DEF RecvSteps, RecvPost, WSARecvPosted, WSARecvFails, WSARecvFailsGiving, AfterRecv
<1> QED
  BY <1>1, <1>2, <1>3, <1>4, <1>5, <1>6, <1>7, NextSplit

\* the locks are owned where the code holds them
LEMMA LockStep ==
  ASSUME Shape, TypeOK, ThreadOK, LockOK, LiveOK, Next, ThreadOK'
  PROVE  LockOK'
<1> USE DEF Shape, ThreadOK, LockOK, HeldPcs, ReleasePcs, RecvPcs, PostPcs, MapPcs, Twice, Goto, GoHome
<1>0. csOwner \in [Conns -> Threads \cup {None}] /\ csDepth \in [Conns -> 0 .. 2]
      /\ mapOwner \in Threads \cup {None}
  BY DEF TypeOK
<1>1. CASE OutsideStep
  BY <1>1, OutsideFrame DEF NoThreadMoves
<1>2. ASSUME NEW c \in Conns, Accept(c) PROVE LockOK'
  BY <1>2 DEF Accept, lockVars
<1>3. ASSUME NEW t \in Workers, LockSteps(t) PROVE LockOK'
  <2>1. CASE LockSession(t)
    BY <1>0, <2>1 DEF LockSession, Enter
  <2>2. CASE SendLockMap(t) \/ SendLockSession(t)
    BY <1>0, <2>2 DEF SendLockMap, SendLockSession, Enter
  <2>3. CASE SendUnlock(t) \/ UnlockSession(t)
    BY <1>0, <2>3 DEF SendUnlock, UnlockSession, Leave
  <2> QED BY <1>3, <2>1, <2>2, <2>3 DEF LockSteps
<1>4. ASSUME NEW t \in Workers, BufSteps(t) PROVE LockOK'
  <2>1. CASE SendDone(t)
    BY <1>0, <2>1 DEF SendDone, SendDoneLeaving, ProcessMessage, lockVars
  <2>3. CASE ProcessMessage(t)
    BY <1>0, <2>3 DEF SendDone, SendDoneLeaving, ProcessMessage, lockVars
  <2>2. CASE OnRecv(t) \/ SendEnqueue(t)
    BY <1>0, <2>2 DEF OnRecv, SendEnqueue, lockVars, LiveOK
  <2> QED BY <1>4, <2>1, <2>2, <2>3 DEF BufSteps
<1>5. ASSUME NEW t \in Workers, SendSteps(t) PROVE LockOK'
  BY <1>0, <1>5 DEF SendSteps, SendPost, SendRef, WSASendPosted, WSASendFails, AfterSend, lockVars
<1>6. ASSUME NEW t \in Workers, RecvSteps(t) PROVE LockOK'
  BY <1>0, <1>6 DEF RecvSteps, RecvPost, WSARecvPosted, WSARecvFails, WSARecvFailsGiving,
     AfterRecv, lockVars
<1>7. ASSUME NEW t \in Workers, NEW c \in Conns, DequeueRecv(t, c) \/ DequeueSend(t, c)
      PROVE  LockOK'
  BY <1>7 DEF DequeueRecv, DequeueSend, lockVars
<1>8. ASSUME NEW t \in Workers, DequeueNull(t) \/ IODecrement(t) \/ Release(t) PROVE LockOK'
  BY <1>0, <1>8 DEF DequeueNull, IODecrement, IODecrementAt, Release, ReleaseLockMap,
     ReleaseSync, ReleaseClose,
              ReleaseDelete, lockVars
<1>9. CASE AcceptInsert \/ RecvSteps(Acceptor)
  BY <1>9 DEF AcceptInsert, RecvSteps, RecvPost, WSARecvPosted, WSARecvFails, WSARecvFailsGiving,
     AfterRecv, lockVars
<1> QED
  BY <1>1, <1>2, <1>3, <1>4, <1>5, <1>6, <1>7, <1>8, <1>9, NextSplit DEF GoesOn

\* other sessions, and the connections
LEMMA OthersFrame ==
  ASSUME Shape, TypeOK, DataType, NEW t \in Workers \cup {Acceptor}, GoesOn(t) \/ RecvSteps(t)
  PROVE  /\ conn' = conn /\ arrived' = arrived /\ echoed' = echoed
         /\ \A c \in Conns : c # cur[t] =>
              /\ recvIO'[c] = recvIO[c] /\ sendIO'[c] = sendIO[c]
              /\ recvLen'[c] = recvLen[c] /\ lent'[c] = lent[c]
              /\ sendFlag'[c] = sendFlag[c] /\ sendBuf'[c] = sendBuf[c]
              /\ ioCount'[c] = ioCount[c] /\ firstFailed'[c] = firstFailed[c]
         /\ \A u \in Threads : u # t => batch'[u] = batch[u]
<1> USE DEF TypeOK, DataType, Shape, sendVars, ioVars, netVars, Goto
<1>1. CASE LockSteps(t)
  BY <1>1 DEF LockSteps, LockSession, SendLockMap, SendLockSession, SendUnlock, UnlockSession
<1>2. CASE SendDone(t)
  BY <1>2 DEF SendDone, SendDoneLeaving
<1>3. CASE ProcessMessage(t) \/ OnRecv(t)
  BY <1>3 DEF ProcessMessage, OnRecv
<1>4. CASE SendEnqueue(t)
  BY <1>4 DEF SendEnqueue
<1>5. CASE SendSteps(t)
  BY <1>5 DEF SendSteps, SendPost, SendRef, WSASendPosted, WSASendFails
<1>6. CASE RecvSteps(t)
  BY <1>6 DEF RecvSteps, RecvPost, WSARecvPosted, WSARecvFails, WSARecvFailsGiving
<1> QED
  BY <1>1, <1>2, <1>3, <1>4, <1>5, <1>6 DEF GoesOn, BufSteps

\* the kernel's view of the other side
LEMMA RecvUntouched ==
  ASSUME NEW t \in Workers, LockSteps(t) \/ BufSteps(t) \/ SendSteps(t)
  PROVE  recvIO' = recvIO /\ recvLen' = recvLen
<1> USE DEF ioVars
<1>1. CASE LockSteps(t)
  BY <1>1 DEF LockSteps, LockSession, SendLockMap, SendLockSession, SendUnlock, UnlockSession
<1>2. CASE BufSteps(t)
  BY <1>2 DEF BufSteps, SendDone, SendDoneLeaving, ProcessMessage, OnRecv, SendEnqueue
<1>3. CASE SendSteps(t)
  BY <1>3 DEF SendSteps, SendPost, SendRef, WSASendPosted, WSASendFails
<1> QED BY <1>1, <1>2, <1>3

\* the send side is left alone by what works on the receive side
LEMMA SendUntouched ==
  ASSUME NEW t \in Threads
  PROVE  /\ BufSteps(t) => sendIO' = sendIO
         /\ LockSteps(t) \/ RecvSteps(t) => sendIO' = sendIO /\ sendFlag' = sendFlag /\ lent' = lent
         /\ ProcessMessage(t) \/ OnRecv(t) \/ SendEnqueue(t) =>
              sendIO' = sendIO /\ sendFlag' = sendFlag /\ lent' = lent
<1> USE DEF ioVars, sendVars
<1>1. ASSUME LockSteps(t) PROVE sendIO' = sendIO /\ sendFlag' = sendFlag /\ lent' = lent
  BY <1>1 DEF LockSteps, LockSession, SendLockMap, SendLockSession, SendUnlock, UnlockSession
<1>2. ASSUME RecvSteps(t) PROVE sendIO' = sendIO /\ sendFlag' = sendFlag /\ lent' = lent
  BY <1>2 DEF RecvSteps, RecvPost, WSARecvPosted, WSARecvFails, WSARecvFailsGiving
<1>3. ASSUME ProcessMessage(t) \/ OnRecv(t) \/ SendEnqueue(t)
      PROVE  sendIO' = sendIO /\ sendFlag' = sendFlag /\ lent' = lent
  BY <1>3 DEF ProcessMessage, OnRecv, SendEnqueue
<1>4. SendDone(t) => sendIO' = sendIO
  BY DEF SendDone, SendDoneLeaving
<1> QED BY <1>1, <1>2, <1>3, <1>4 DEF BufSteps

(***************************************************************************)
(* References                                                              *)
(***************************************************************************)
LEMMA ThreadSets ==
  ASSUME NEW A \in SUBSET Workers
  PROVE  IsFiniteSet(A) /\ Cardinality(A) \in Nat
BY ConstantsAssumption, FS_Subset, FS_CardinalityType

\* one thread more, one thread less
LEMMA AddThread ==
  ASSUME NEW A \in SUBSET Workers, NEW t \in Workers, t \notin A
  PROVE  Cardinality(A \cup {t}) = Cardinality(A) + 1
BY ThreadSets, FS_AddElement

\* ... and less
LEMMA RemoveThread ==
  ASSUME NEW A \in SUBSET Workers, NEW t \in A
  PROVE  Cardinality(A \ {t}) = Cardinality(A) - 1
BY ThreadSets, FS_RemoveElement

\* a counted session nobody refers to, and one that one thread refers to
LEMMA NoReference ==
  ASSUME NEW c \in Conns
  PROVE  /\ References(c) \in Nat
         /\ References(c) = 0 <=> At(c, RefPcs) = {} /\ recvIO[c] = "none" /\ sendIO[c] = "none"
<1> DEFINE A == At(c, RefPcs)
<1>1. A \in SUBSET Workers
  BY DEF At
<1>2. IsFiniteSet(A) /\ Cardinality(A) \in Nat /\ (Cardinality(A) = 0 <=> A = {})
  BY <1>1, ThreadSets, FS_EmptySet
<1>3. Busy(recvIO[c]) \in {0, 1} /\ Busy(sendIO[c]) \in {0, 1}
      /\ (Busy(recvIO[c]) = 0 <=> recvIO[c] = "none")
      /\ (Busy(sendIO[c]) = 0 <=> sendIO[c] = "none")
  BY DEF Busy
<1>4. References(c) = Cardinality(A) + Busy(recvIO[c]) + Busy(sendIO[c])
  BY DEF References
<1> HIDE DEF A
<1> QED
  BY <1>2, <1>3, <1>4 DEF A

\* who sees its decrement reach zero is the only one left
LEMMA LastReference ==
  ASSUME CountOK, NEW t \in Workers, cur[t] \in Conns, pc[t] \in RefPcs, ioCount[cur[t]] = 1
  PROVE  /\ \A u \in Workers : cur[u] = cur[t] /\ pc[u] \in RefPcs => u = t
         /\ recvIO[cur[t]] = "none" /\ sendIO[cur[t]] = "none"
<1> DEFINE A == At(cur[t], RefPcs)
<1>1. A \in SUBSET Workers /\ t \in A
  BY DEF At
<1>2. Cardinality(A) \in Nat /\ Cardinality(A \ {t}) = Cardinality(A) - 1
      /\ Cardinality(A \ {t}) \in Nat
      /\ IsFiniteSet(A \ {t})
  BY <1>1, ThreadSets, RemoveThread
<1>3. 1 = Cardinality(A) + Busy(recvIO[cur[t]]) + Busy(sendIO[cur[t]])
  BY DEF CountOK, References
<1>4. Busy(recvIO[cur[t]]) \in {0, 1} /\ Busy(sendIO[cur[t]]) \in {0, 1}
      /\ (Busy(recvIO[cur[t]]) = 0 => recvIO[cur[t]] = "none")
      /\ (Busy(sendIO[cur[t]]) = 0 => sendIO[cur[t]] = "none")
  BY DEF Busy
<1> HIDE DEF A
<1>5. Cardinality(A \ {t}) = 0
  BY <1>2, <1>3, <1>4
<1>6. A \ {t} = {}
  BY <1>2, <1>5, FS_EmptySet
<1>7. \A u \in Workers : cur[u] = cur[t] /\ pc[u] \in RefPcs => u = t
  BY <1>6 DEF A, At
<1> QED
  BY <1>2, <1>3, <1>4, <1>7

\* ... and who does not, is not
LEMMA OtherReference ==
  ASSUME CountOK, NEW t \in Workers, cur[t] \in Conns, pc[t] \in RefPcs, ioCount[cur[t]] # 1
  PROVE  \/ \E u \in Workers : u # t /\ cur[u] = cur[t]
         \/ recvIO[cur[t]] # "none" \/ sendIO[cur[t]] # "none"
<1>1. SUFFICES ASSUME \A u \in Workers : cur[u] = cur[t] => u = t,
                      recvIO[cur[t]] = "none", sendIO[cur[t]] = "none"
               PROVE  FALSE
  OBVIOUS
<1>2. At(cur[t], RefPcs) = {t}
  BY <1>1 DEF At
<1>3. Cardinality(At(cur[t], RefPcs)) = 1
  BY <1>2, FS_Singleton
<1> QED
  BY <1>1, <1>3 DEF CountOK, References, Busy

\* nobody joins who sets a session up or releases it
LEMMA AloneStep ==
  ASSUME Shape, TypeOK, DataType, ThreadOK, LockOK, CountOK, AloneOK, LiveOK, RecvOK, Next,
         ThreadOK'
  PROVE  AloneOK'
<1> USE DEF Shape, ThreadOK, AloneOK, Goto, GoHome
<1>0. recvIO \in [Conns -> {"none", "posting", "pending", "done"}]
      /\ sendIO \in [Conns -> {"none", "posting", "pending", "done", "aborted"}]
  BY DEF TypeOK
<1>1. CASE OutsideStep
  BY <1>1, OutsideSession, OutsideFrame DEF Completes, NoThreadMoves, ReleasePcs
<1>2. ASSUME NEW c \in Conns, Accept(c) PROVE AloneOK'
  BY <1>0, <1>2 DEF Accept, ioVars, LiveOK, ReleasePcs
<1>3. ASSUME NEW t \in Workers, GoesOn(t) PROVE AloneOK'
  <2>1. cur[t] \in Conns /\ cur' = cur /\ pc[t] \notin ReleasePcs /\ pc'[t] \notin ReleasePcs
        /\ \A u \in Threads : u # t => pc'[u] = pc[u]
    BY <1>3, GoesOnFrame DEF HeldPcs, ReleasePcs
  <2>2. \A c \in Conns : c # cur[t] => recvIO'[c] = recvIO[c] /\ sendIO'[c] = sendIO[c]
    BY <1>3, OthersFrame
  <2> QED BY <2>1, <2>2 DEF ReleasePcs
<1>4. ASSUME NEW t \in Workers, NEW c \in Conns, DequeueRecv(t, c) \/ DequeueSend(t, c)
      PROVE  AloneOK'
  BY <1>0, <1>4 DEF DequeueRecv, DequeueSend, ReleasePcs, RecvOK
<1>5. ASSUME NEW t \in Workers, DequeueNull(t) PROVE AloneOK'
  BY <1>5 DEF DequeueNull, ioVars, ReleasePcs
<1>6. ASSUME NEW t \in Workers, IODecrement(t) PROVE AloneOK'
  <2>1. cur[t] \in Conns /\ pc[t] = "ioDec" /\ pc[t] \in RefPcs
    BY <1>6 DEF IODecrement, IODecrementAt, RefPcs, ReleasePcs
  <2>2. recvIO' = recvIO /\ sendIO' = sendIO
    BY <1>6 DEF IODecrement, IODecrementAt, ioVars
  <2>3. CASE ioCount[cur[t]] = 1
    <3>1. pc' = [pc EXCEPT ![t] = "releaseMap"] /\ cur' = cur
      BY <1>6, <2>3 DEF IODecrement, IODecrementAt
    <3>2. \A u \in Threads : cur[u] = cur[t] => u = t
      BY <2>1, <2>3, LastReference DEF Threads, RefPcs
    <3>3. recvIO[cur[t]] = "none" /\ sendIO[cur[t]] = "none"
      BY <2>1, <2>3, LastReference
    <3> QED BY <2>1, <2>2, <3>1, <3>2, <3>3 DEF ReleasePcs
  <2>4. CASE ioCount[cur[t]] # 1
    BY <1>6, <2>1, <2>2, <2>4 DEF IODecrement, IODecrementAt, ReleasePcs
  <2> QED BY <2>3, <2>4
<1>7. ASSUME NEW t \in Workers, Release(t) PROVE AloneOK'
  BY <1>7 DEF Release, ReleaseLockMap, ReleaseSync, ReleaseClose, ReleaseDelete, ioVars,
     ReleasePcs
<1>8. CASE AcceptInsert
  BY <1>8 DEF AcceptInsert, ioVars, ReleasePcs
<1>9. CASE RecvSteps(Acceptor)
  BY <1>0, <1>9 DEF RecvSteps, RecvPost, WSARecvPosted, WSARecvFails, WSARecvFailsGiving,
     AfterRecv, ReleasePcs
<1> QED
  BY <1>1, <1>2, <1>3, <1>4, <1>5, <1>6, <1>7, <1>8, <1>9, NextSplit

\* a session's receive is in one hand
LEMMA RecvStep ==
  ASSUME Shape, TypeOK, DataType, ThreadOK, LockOK, AloneOK, LiveOK, RecvOK, Next, ThreadOK'
  PROVE  RecvOK'
<1> USE DEF Shape, ThreadOK, RecvOK, Receiving, Goto, GoHome, RecvPcs, PostPcs
<1>0. recvIO \in [Conns -> {"none", "posting", "pending", "done"}]
  BY DEF TypeOK
<1>a. \A t \in Threads : (t \in Workers /\ Receiving(t)) \/ pc[t] = "wsaRecv" => cur[t] \in Conns
  BY DEF Threads
<1>1. CASE OutsideStep
  <2>1. \A c \in Conns : recvIO'[c] = recvIO[c] \/ (recvIO[c] = "pending" /\ recvIO'[c] = "done")
    BY <1>1, OutsideSession DEF Completes
  <2> QED BY <1>1, <1>a, <2>1, OutsideFrame DEF NoThreadMoves
<1>2. ASSUME NEW c \in Conns, Accept(c) PROVE RecvOK'
  BY <1>0, <1>2 DEF Accept, ioVars
<1>3. ASSUME NEW t \in Workers, LockSteps(t) \/ BufSteps(t) \/ SendSteps(t) PROVE RecvOK'
  <2>1. cur' = cur /\ op' = op /\ \A u \in Threads : u # t => pc'[u] = pc[u]
    BY <1>3, GoesOnFrame DEF GoesOn
  <2>2. recvIO' = recvIO
    BY <1>3, RecvUntouched
  <2>3. Receiving(t)' => Receiving(t)
    <3>1. CASE LockSteps(t)
      BY <3>1 DEF LockSteps, LockSession, SendLockMap, SendLockSession, SendUnlock, UnlockSession
    <3>2. CASE BufSteps(t)
      BY <3>2 DEF BufSteps, SendDone, SendDoneLeaving, ProcessMessage, OnRecv, SendEnqueue
    <3>3. CASE SendSteps(t)
      BY <3>3 DEF SendSteps, SendPost, SendRef, WSASendPosted, WSASendFails, AfterSend
    <3> QED BY <1>3, <3>1, <3>2, <3>3
  <2>4. pc'[t] # "wsaRecv"
    BY <1>3, ZenonT(60)
       DEF LockSteps, LockSession, SendLockMap, SendLockSession, SendUnlock, UnlockSession,
       BufSteps, SendDone, SendDoneLeaving, ProcessMessage, OnRecv, SendEnqueue,
       SendSteps, SendPost, SendRef, WSASendPosted, WSASendFails, AfterSend
  <2> QED BY <2>1, <2>2, <2>3, <2>4
<1>4. ASSUME NEW t \in Workers, RecvSteps(t) PROVE RecvOK'
  <2>1. cur[t] \in Conns /\ cur' = cur /\ op' = op /\ \A u \in Threads : u # t => pc'[u] = pc[u]
    BY <1>4, GoesOnFrame DEF GoesOn
  <2>2. \A c \in Conns : c # cur[t] => recvIO'[c] = recvIO[c]
    BY <1>4, OthersFrame
  <2>3. CASE RecvPost(t)
    BY <1>0, <2>1, <2>2, <2>3 DEF RecvPost, AloneOK, RefPcs, HeldPcs, ReleasePcs
  <2>4. CASE WSARecvPosted(t) \/ WSARecvFails(t)
    <3>1. ~ Receiving(t)' /\ pc'[t] # "wsaRecv"
      BY <2>4 DEF WSARecvPosted, WSARecvFails, WSARecvFailsGiving, AfterRecv
    <3>2. \A u \in Threads : u # t /\ cur[u] = cur[t] => pc[u] # "wsaRecv"
      BY <2>1, <2>4 DEF WSARecvPosted, WSARecvFails, WSARecvFailsGiving, LockOK, AloneOK,
         HeldPcs, Threads
    <3>3. \A u \in Workers : Receiving(u) => cur[u] # cur[t]
      BY <2>4 DEF WSARecvPosted, WSARecvFails, WSARecvFailsGiving
    <3> QED BY <1>a, <2>1, <2>2, <3>1, <3>2, <3>3
  <2> QED BY <1>4, <2>3, <2>4 DEF RecvSteps
<1>5. ASSUME NEW t \in Workers, NEW c \in Conns, DequeueRecv(t, c) PROVE RecvOK'
  BY <1>0, <1>5 DEF DequeueRecv, RefPcs, HeldPcs, ReleasePcs
<1>6. ASSUME NEW t \in Workers, NEW c \in Conns, DequeueSend(t, c) PROVE RecvOK'
  BY <1>0, <1>6 DEF DequeueSend, RefPcs, HeldPcs, ReleasePcs
<1>7. ASSUME NEW t \in Workers, DequeueNull(t) \/ IODecrement(t) PROVE RecvOK'
  BY <1>7 DEF DequeueNull, IODecrement, IODecrementAt, ioVars
<1>8. ASSUME NEW t \in Workers, Release(t) PROVE RecvOK'
  BY <1>8 DEF Release, ReleaseLockMap, ReleaseSync, ReleaseClose, ReleaseDelete, ioVars
<1>9. CASE AcceptInsert
  BY <1>9 DEF AcceptInsert, ioVars
<1>10. CASE RecvSteps(Acceptor)
  <2>1. CASE RecvPost(Acceptor)
    BY <1>0, <1>a, <2>1 DEF RecvPost, AloneOK
  <2>2. CASE WSARecvPosted(Acceptor) \/ WSARecvFails(Acceptor)
    <3>1. pc' = [pc EXCEPT ![Acceptor] = "accept"] /\ cur' = [cur EXCEPT ![Acceptor] = None]
          /\ op' = [op EXCEPT ![Acceptor] = "none"]
      BY <2>2 DEF WSARecvPosted, WSARecvFails, WSARecvFailsGiving, AfterRecv
    <3>2. \A c \in Conns : c # cur[Acceptor] => recvIO'[c] = recvIO[c]
      BY <1>10, OthersFrame
    <3>3. \A u \in Workers : cur[u] # cur[Acceptor]
      BY <2>2 DEF WSARecvPosted, WSARecvFails, WSARecvFailsGiving, AloneOK
    <3> QED BY <1>a, <3>1, <3>2, <3>3 DEF Threads
  <2> QED BY <1>10, <2>1, <2>2 DEF RecvSteps
<1> QED
  BY <1>1, <1>2, <1>3, <1>4, <1>5, <1>6, <1>7, <1>8, <1>9, <1>10, NextSplit DEF GoesOn

\* ... and its send
LEMMA SendStep ==
  ASSUME Shape, TypeOK, DataType, ThreadOK, LockOK, AloneOK, LiveOK, SendOK, Next, ThreadOK'
  PROVE  SendOK'
<1> USE DEF Shape, ThreadOK, SendOK, Flagging, Done, Goto, GoHome, PostPcs
<1>0. sendIO \in [Conns -> {"none", "posting", "pending", "done", "aborted"}]
      /\ sendFlag \in [Conns -> {0, 1}]
  BY DEF TypeOK
<1>1. CASE OutsideStep
  BY <1>1, OutsideSession, OutsideFrame DEF Completes, NoThreadMoves, RefPcs, HeldPcs, ReleasePcs
<1>2. ASSUME NEW c \in Conns, Accept(c) PROVE SendOK'
  BY <1>0, <1>2 DEF Accept, ioVars, sendVars
<1>3. ASSUME NEW t \in Workers, LockSteps(t) \/ RecvSteps(t) PROVE SendOK'
  <2>1. cur' = cur /\ op' = op /\ \A u \in Threads : u # t => pc'[u] = pc[u]
    BY <1>3, GoesOnFrame DEF GoesOn
  <2>2. sendIO' = sendIO /\ sendFlag' = sendFlag
    BY <1>3, SendUntouched
  <2>3. (Flagging(t)' => Flagging(t)) /\ pc'[t] # "wsaSend"
    BY <1>3 DEF LockSteps, LockSession, SendLockMap, SendLockSession, SendUnlock, UnlockSession,
       RecvSteps, RecvPost, WSARecvPosted, WSARecvFails, WSARecvFailsGiving, AfterRecv
  <2> QED BY <2>1, <2>2, <2>3
<1>4. ASSUME NEW t \in Workers, ProcessMessage(t) \/ OnRecv(t) \/ SendEnqueue(t) PROVE SendOK'
  <2>1. cur' = cur /\ op' = op /\ \A u \in Threads : u # t => pc'[u] = pc[u]
    BY <1>4, GoesOnFrame DEF GoesOn, BufSteps
  <2>2. sendIO' = sendIO /\ sendFlag' = sendFlag
    BY <1>4, SendUntouched
  <2>3. (Flagging(t)' => Flagging(t)) /\ pc'[t] # "wsaSend"
    BY <1>4 DEF ProcessMessage, OnRecv, SendEnqueue
  <2> QED BY <2>1, <2>2, <2>3
<1>5. ASSUME NEW t \in Workers, SendDone(t) \/ SendSteps(t) PROVE SendOK'
  <2>1. cur[t] \in Conns /\ cur' = cur /\ op' = op /\ \A u \in Threads : u # t => pc'[u] = pc[u]
    BY <1>5, GoesOnFrame DEF GoesOn, BufSteps
  <2>2. \A c \in Conns : c # cur[t] => sendIO'[c] = sendIO[c] /\ sendFlag'[c] = sendFlag[c]
    BY <1>5, OthersFrame DEF GoesOn, BufSteps
  <2>3. \A u \in Workers : u # t /\ cur[u] = cur[t] => pc[u] \notin HeldPcs
    <3>1. pc[t] \in HeldPcs
      BY <1>5 DEF SendDone, SendDoneLeaving, SendSteps, SendPost, SendRef, WSASendPosted,
         WSASendFails, HeldPcs
    <3> QED BY <2>1, <3>1 DEF LockOK
  <2>4. CASE SendDone(t)
    BY <1>0, <2>1, <2>2, <2>3, <2>4 DEF SendDone, SendDoneLeaving, HeldPcs
  <2>5. CASE SendPost(t)
    BY <1>0, <2>1, <2>2, <2>3, <2>5 DEF SendPost, AfterSend, HeldPcs
  <2>6. CASE SendRef(t)
    BY <1>0, <2>1, <2>2, <2>3, <2>6 DEF SendRef, sendVars, HeldPcs
  <2>7. CASE WSASendPosted(t) \/ WSASendFails(t)
    BY <1>0, <2>1, <2>2, <2>3, <2>7 DEF WSASendPosted, WSASendFails, AfterSend, sendVars, HeldPcs
  <2> QED BY <1>5, <2>4, <2>5, <2>6, <2>7 DEF SendSteps
<1>6. ASSUME NEW t \in Workers, NEW c \in Conns, DequeueRecv(t, c) \/ DequeueSend(t, c)
      PROVE  SendOK'
  BY <1>0, <1>6 DEF DequeueRecv, DequeueSend, sendVars
<1>7. ASSUME NEW t \in Workers, DequeueNull(t) \/ IODecrement(t) PROVE SendOK'
  BY <1>7 DEF DequeueNull, IODecrement, IODecrementAt, ioVars, sendVars
<1>8. ASSUME NEW t \in Workers, Release(t) PROVE SendOK'
  BY <1>8 DEF Release, ReleaseLockMap, ReleaseSync, ReleaseClose, ReleaseDelete, ioVars, sendVars
<1>9. CASE AcceptInsert
  BY <1>9 DEF AcceptInsert, ioVars, sendVars
<1>10. CASE RecvSteps(Acceptor)
  BY <1>0, <1>10 DEF RecvSteps, RecvPost, WSARecvPosted, WSARecvFails, WSARecvFailsGiving,
     AfterRecv, sendVars
<1> QED
  BY <1>1, <1>2, <1>3, <1>4, <1>5, <1>6, <1>7, <1>8, <1>9, <1>10, NextSplit DEF GoesOn, BufSteps

\* no session is deleted under somebody, and none is left with nobody
LEMMA LiveStep ==
  ASSUME Shape, TypeOK, DataType, ThreadOK, LockOK, CountOK, AloneOK, LiveOK, RecvOK, SendOK, Next,
         ThreadOK'
  PROVE  LiveOK'
<1> USE DEF Shape, ThreadOK, LiveOK, Goto, GoHome
<1>0. /\ recvIO \in [Conns -> {"none", "posting", "pending", "done"}]
      /\ sendIO \in [Conns -> {"none", "posting", "pending", "done", "aborted"}]
      /\ conn \in [Conns -> {"new", "open", "fin", "reset", "closed"}]
      /\ live \subseteq Conns
  BY DEF TypeOK
<1>1. CASE OutsideStep
  <2>1. \A c \in Conns : recvIO'[c] = recvIO[c] \/ (recvIO[c] = "pending" /\ recvIO'[c] = "done")
    BY <1>1, OutsideSession DEF Completes
  <2>2. \A c \in Conns : sendIO'[c] = sendIO[c] \/ (sendIO[c] = "pending" /\ sendIO'[c] \in {"done", "aborted"})
    BY <1>1, OutsideSession DEF Completes
  <2>3. \A c \in Conns : conn'[c] = conn[c] \/ conn'[c] \in {"fin", "reset"}
    BY <1>1, OutsideSession DEF Completes
  <2> QED BY <1>0, <1>1, <2>1, <2>2, <2>3, OutsideFrame DEF NoThreadMoves
<1>2. ASSUME NEW c \in Conns, Accept(c) PROVE LiveOK'
  BY <1>0, <1>2 DEF Accept, ioVars
<1>3. ASSUME NEW t \in Workers, GoesOn(t) PROVE LiveOK'
  <2>1. /\ cur[t] \in Conns /\ cur[t] \in live /\ cur' = cur /\ live' = live
        /\ sessionMap' = sessionMap
        /\ pc'[Acceptor] = pc[Acceptor]
    BY <1>3, GoesOnFrame
  <2>2. \A c \in Conns : c # cur[t] => recvIO'[c] = recvIO[c] /\ sendIO'[c] = sendIO[c] /\ firstFailed'[c] = firstFailed[c]
    BY <1>3, OthersFrame
  <2>3. conn' = conn
    BY <1>3, OthersFrame
  <2> QED BY <1>0, <2>1, <2>2, <2>3
<1>4. ASSUME NEW t \in Workers, NEW c \in Conns, DequeueRecv(t, c) \/ DequeueSend(t, c)
      PROVE  LiveOK'
  BY <1>0, <1>4 DEF DequeueRecv, DequeueSend, lifeVars, netVars
<1>5. ASSUME NEW t \in Workers, DequeueNull(t) PROVE LiveOK'
  BY <1>5 DEF DequeueNull, ioVars, lifeVars
<1>6. ASSUME NEW t \in Workers, IODecrement(t) PROVE LiveOK'
  <2>1. cur[t] \in Conns /\ cur[t] \in live /\ pc[t] = "ioDec"
    BY <1>6 DEF IODecrement, IODecrementAt, ReleasePcs
  <2>2. recvIO' = recvIO /\ sendIO' = sendIO /\ sessionMap' = sessionMap /\ live' = live
        /\ conn' = conn
        /\ firstFailed' = firstFailed /\ pc'[Acceptor] = pc[Acceptor]
    BY <1>6 DEF IODecrement, IODecrementAt, ioVars, lifeVars, netVars
  <2>3. CASE ioCount[cur[t]] = 1
    BY <1>6, <2>1, <2>2, <2>3 DEF IODecrement, IODecrementAt
  <2>4. CASE ioCount[cur[t]] # 1
    <3>1. (\E u \in Workers : u # t /\ cur[u] = cur[t]) \/ recvIO[cur[t]] # "none" \/ sendIO[cur[t]] # "none"
      BY <2>1, <2>4, OtherReference DEF RefPcs
    <3> QED BY <1>6, <2>1, <2>2, <2>4, <3>1 DEF IODecrement, IODecrementAt
  <2> QED BY <2>3, <2>4
<1>7. ASSUME NEW t \in Workers, Release(t) PROVE LiveOK'
  <2>1. cur[t] \in Conns /\ cur[t] \in live /\ cur[t] \in sessionMap
        /\ \A u \in Threads : cur[u] = cur[t] => u = t
    BY <1>7 DEF Release, ReleaseLockMap, ReleaseSync, ReleaseClose, ReleaseDelete, ReleasePcs,
       AloneOK
  <2>2. recvIO[cur[t]] = "none" /\ sendIO[cur[t]] = "none"
    BY <1>7 DEF Release, ReleaseLockMap, ReleaseSync, ReleaseClose, ReleaseDelete, ReleasePcs,
       AloneOK
  <2>3. CASE ReleaseLockMap(t) \/ ReleaseSync(t)
    BY <2>1, <2>2, <2>3 DEF ReleaseLockMap, ReleaseSync, lifeVars, ioVars, netVars
  <2>4. CASE ReleaseClose(t)
    BY <1>0, <2>1, <2>2, <2>4 DEF ReleaseClose, lifeVars, ioVars
  <2>5. CASE ReleaseDelete(t)
    BY <1>0, <2>1, <2>2, <2>5 DEF ReleaseDelete, ioVars, netVars
  <2> QED BY <1>7, <2>3, <2>4, <2>5 DEF Release
<1>8. CASE AcceptInsert
  BY <1>8 DEF AcceptInsert, ioVars, netVars
<1>9. CASE RecvSteps(Acceptor)
  <2>1. CASE RecvPost(Acceptor)
    BY <1>0, <2>1 DEF RecvPost, lifeVars, netVars
  <2>2. CASE WSARecvPosted(Acceptor)
    BY <1>0, <2>2 DEF WSARecvPosted, AfterRecv, lifeVars, netVars
  <2>3. CASE WSARecvFails(Acceptor)
    <3>1. cur[Acceptor] \in Conns
      BY <2>3 DEF WSARecvFails, WSARecvFailsGiving
    <3>2. firstFailed' = [firstFailed EXCEPT ![cur[Acceptor]] = (Acceptor = Acceptor)]
      BY <2>3 DEF WSARecvFails, WSARecvFailsGiving
    <3>3. firstFailed'[cur[Acceptor]] = (Acceptor = Acceptor)
      BY <3>1, <3>2, Zenon DEF DataType
    <3>4. firstFailed'[cur[Acceptor]]
      BY <3>3, Zenon
    <3>5. \A c \in Conns : c # cur[Acceptor] => firstFailed'[c] = firstFailed[c] /\ recvIO'[c] = recvIO[c]
      BY <2>3, OthersFrame DEF RecvSteps
    <3> QED BY <1>0, <2>3, <3>1, <3>4, <3>5 DEF WSARecvFails, WSARecvFailsGiving, AfterRecv,
       lifeVars
  <2> QED BY <1>9, <2>1, <2>2, <2>3 DEF RecvSteps
<1> QED
  BY <1>1, <1>2, <1>3, <1>4, <1>5, <1>6, <1>7, <1>8, <1>9, NextSplit

\* _IOCount follows the references
LEMMA CountStep ==
  ASSUME Shape, TypeOK, DataType, ThreadOK, LockOK, CountOK, AloneOK, LiveOK, RecvOK, SendOK, Next
  PROVE  CountOK'
<1> USE DEF Shape, ThreadOK, Goto, GoHome
<1>0. /\ recvIO \in [Conns -> {"none", "posting", "pending", "done"}]
      /\ sendIO \in [Conns -> {"none", "posting", "pending", "done", "aborted"}]
      /\ ioCount \in [Conns -> Nat]
  BY DEF TypeOK
<1>a. \A c \in Conns : ioCount[c] = Cardinality(At(c, RefPcs)) + Busy(recvIO[c]) + Busy(sendIO[c])
  BY DEF CountOK, References
<1>b. \A c \in Conns : Cardinality(At(c, RefPcs)) \in Nat
  BY ThreadSets DEF At
<1>c. SUFFICES ASSUME NEW c \in Conns
               PROVE  ioCount'[c] = Cardinality(At(c, RefPcs)') + Busy(recvIO'[c]) + Busy(sendIO'[c])
  BY DEF CountOK, References
<1>1. CASE OutsideStep
  <2>1. At(c, RefPcs)' = At(c, RefPcs) /\ ioCount' = ioCount
    BY <1>1, OutsideFrame DEF NoThreadMoves, At
  <2>2. Busy(recvIO'[c]) = Busy(recvIO[c]) /\ Busy(sendIO'[c]) = Busy(sendIO[c])
    BY <1>1, OutsideSession DEF Completes, Busy
  <2> QED BY <1>a, <2>1, <2>2
<1>2. ASSUME NEW d \in Conns, Accept(d)
      PROVE  ioCount'[c] = Cardinality(At(c, RefPcs)') + Busy(recvIO'[c]) + Busy(sendIO'[c])
  <2>1. At(c, RefPcs)' = At(c, RefPcs)
    BY <1>2 DEF Accept, At
  <2> QED BY <1>a, <1>2, <2>1 DEF Accept, ioVars
<1>3. ASSUME NEW t \in Workers, GoesOn(t)
      PROVE  ioCount'[c] = Cardinality(At(c, RefPcs)') + Busy(recvIO'[c]) + Busy(sendIO'[c])
  <2>1. At(c, RefPcs)' = At(c, RefPcs)
    BY <1>3, GoesOnFrame DEF At, RefPcs
  <2>2. CASE c # cur[t]
    BY <1>a, <1>3, <2>1, <2>2, OthersFrame
  <2>3. ASSUME c = cur[t]
          PROVE  ioCount'[c] = ioCount[c] + Busy(recvIO'[c]) + Busy(sendIO'[c]) - Busy(recvIO[c]) - Busy(sendIO[c])
    <3>1. CASE LockSteps(t)
      BY <1>0, <3>1 DEF LockSteps, LockSession, SendLockMap, SendLockSession, SendUnlock,
         UnlockSession, ioVars, Busy
    <3>2. CASE BufSteps(t)
      <4>1. ioCount' = ioCount /\ recvIO' = recvIO /\ sendIO' = sendIO
        BY <3>2 DEF BufSteps, SendDone, SendDoneLeaving, ProcessMessage, OnRecv, SendEnqueue,
           ioVars
      <4> QED BY <1>0, <4>1 DEF Busy
    <3>3. CASE SendSteps(t)
      <4>1. CASE SendPost(t)
        <5>1. ioCount' = ioCount /\ recvIO' = recvIO /\ sendIO' = sendIO
          BY <4>1 DEF SendPost
        <5> QED BY <1>0, <5>1 DEF Busy
      <4>2. CASE SendRef(t)
        BY <1>0, <2>3, <4>2 DEF SendRef, Busy, SendOK, Flagging
      <4>3. CASE WSASendPosted(t) \/ WSASendFails(t)
        BY <1>0, <2>3, <4>3 DEF WSASendPosted, WSASendFails, Busy, SendOK
      <4> QED BY <3>3, <4>1, <4>2, <4>3 DEF SendSteps
    <3>4. CASE RecvSteps(t)
      BY <1>0, <2>3, <3>4 DEF RecvSteps, RecvPost, WSARecvPosted, WSARecvFails,
         WSARecvFailsGiving, Busy, RecvOK, Receiving, RecvPcs
    <3> QED BY <1>3, <3>1, <3>2, <3>3, <3>4 DEF GoesOn
  <2> QED BY <1>0, <1>a, <1>b, <2>1, <2>2, <2>3 DEF Busy
<1>4. ASSUME NEW t \in Workers, NEW d \in Conns, DequeueRecv(t, d) \/ DequeueSend(t, d)
      PROVE  ioCount'[c] = Cardinality(At(c, RefPcs)') + Busy(recvIO'[c]) + Busy(sendIO'[c])
  <2>1. At(c, RefPcs)' = IF c = d THEN At(c, RefPcs) \cup {t} ELSE At(c, RefPcs)
    BY <1>4 DEF DequeueRecv, DequeueSend, At, RefPcs, HeldPcs
  <2>2. t \notin At(c, RefPcs) /\ At(c, RefPcs) \in SUBSET Workers
    BY <1>4 DEF DequeueRecv, DequeueSend, At, RefPcs, HeldPcs
  <2>3. Cardinality(At(c, RefPcs)') = Cardinality(At(c, RefPcs)) + IF c = d THEN 1 ELSE 0
    BY <1>b, <2>1, <2>2, AddThread
  <2>4. ioCount' = ioCount /\ Busy(recvIO'[c]) + Busy(sendIO'[c]) = Busy(recvIO[c]) + Busy(sendIO[c]) - IF c = d THEN 1 ELSE 0
    BY <1>0, <1>4 DEF DequeueRecv, DequeueSend, Busy
  <2> QED BY <1>0, <1>a, <1>b, <2>3, <2>4 DEF Busy
<1>5. ASSUME NEW t \in Workers, DequeueNull(t) \/ Release(t)
      PROVE ioCount'[c] = Cardinality(At(c, RefPcs)') + Busy(recvIO'[c]) + Busy(sendIO'[c])
  <2>1. At(c, RefPcs)' = At(c, RefPcs)
    BY <1>5 DEF DequeueNull, Release, ReleaseLockMap, ReleaseSync, ReleaseClose, ReleaseDelete,
       At, RefPcs, HeldPcs
  <2>2. ioCount' = ioCount /\ recvIO' = recvIO /\ sendIO' = sendIO
    BY <1>5 DEF DequeueNull, Release, ReleaseLockMap, ReleaseSync, ReleaseClose, ReleaseDelete,
       ioVars
  <2> QED BY <1>a, <2>1, <2>2
<1>6. ASSUME NEW t \in Workers, IODecrement(t)
      PROVE ioCount'[c] = Cardinality(At(c, RefPcs)') + Busy(recvIO'[c]) + Busy(sendIO'[c])
  <2>1. At(c, RefPcs)' = IF c = cur[t] THEN At(c, RefPcs) \ {t} ELSE At(c, RefPcs)
    BY <1>6 DEF IODecrement, IODecrementAt, At, RefPcs, HeldPcs
  <2>2. c = cur[t] => t \in At(c, RefPcs) /\ At(c, RefPcs) \in SUBSET Workers
    BY <1>6 DEF IODecrement, IODecrementAt, At, RefPcs
  <2>3. Cardinality(At(c, RefPcs)') = Cardinality(At(c, RefPcs)) - IF c = cur[t] THEN 1 ELSE 0
    BY <1>b, <2>1, <2>2, RemoveThread
  <2>4. ioCount'[c] = ioCount[c] - (IF c = cur[t] THEN 1 ELSE 0) /\ recvIO' = recvIO /\ sendIO' = sendIO
    BY <1>0, <1>6 DEF IODecrement, IODecrementAt, ioVars
  <2> QED BY <1>0, <1>a, <1>b, <2>3, <2>4 DEF Busy
<1>7. CASE AcceptInsert
  <2>1. At(c, RefPcs)' = At(c, RefPcs)
    BY <1>7 DEF AcceptInsert, At
  <2> QED BY <1>a, <1>7, <2>1 DEF AcceptInsert, ioVars
<1>8. CASE RecvSteps(Acceptor)
  <2>1. At(c, RefPcs)' = At(c, RefPcs)
    BY <1>8 DEF RecvSteps, RecvPost, WSARecvPosted, WSARecvFails, WSARecvFailsGiving, AfterRecv,
       At
  <2>2. ioCount'[c] = ioCount[c] + Busy(recvIO'[c]) - Busy(recvIO[c]) /\ sendIO' = sendIO
    BY <1>0, <1>8 DEF RecvSteps, RecvPost, WSARecvPosted, WSARecvFails, WSARecvFailsGiving, Busy,
       RecvOK, AloneOK
  <2> QED BY <1>0, <1>a, <1>b, <2>1, <2>2 DEF Busy
<1> QED
  BY <1>1, <1>2, <1>3, <1>4, <1>5, <1>6, <1>7, <1>8, NextSplit

\* a connection is given up only when its client left
LEMMA ConnStep ==
  ASSUME Shape, TypeOK, DataType, ThreadOK, LockOK, AloneOK, LiveOK, RecvOK, ConnOK, Next, ThreadOK'
  PROVE  ConnOK'
<1> USE DEF Shape, ThreadOK, ConnOK, Goto, GoHome
<1>0. /\ recvIO \in [Conns -> {"none", "posting", "pending", "done"}]
      /\ sendIO \in [Conns -> {"none", "posting", "pending", "done", "aborted"}]
      /\ conn \in [Conns -> {"new", "open", "fin", "reset", "closed"}]
      /\ recvLen \in [Conns -> 0 .. MaxMsg] /\ live \subseteq Conns
  BY DEF TypeOK
<1>1. CASE OutsideStep
  <2>1. \A c \in Conns : (recvIO'[c] = "none" <=> recvIO[c] = "none") /\ (conn'[c] = "open" => conn[c] = "open")
    BY <1>1, OutsideSession DEF Completes
  <2>2. \A c \in Conns : recvIO'[c] = "done" /\ recvLen'[c] = 0 => conn'[c] # "open"
    BY <1>1, OutsideSession DEF Completes
  <2>3. \A c \in Conns : sendIO'[c] = "aborted" => conn'[c] \notin {"open", "fin"}
    BY <1>1, OutsideSession DEF Completes
  <2>4. \A c \in Conns : conn'[c] = "closed" => conn[c] = "closed"
    BY <1>1, OutsideSession DEF Completes
  <2> QED BY <1>0, <1>1, <2>1, <2>2, <2>3, <2>4, OutsideFrame DEF NoThreadMoves, Receiving
<1>2. ASSUME NEW c \in Conns, Accept(c) PROVE ConnOK'
  BY <1>0, <1>2 DEF Accept, ioVars, LiveOK, Receiving
<1>3. ASSUME NEW t \in Workers, GoesOn(t) PROVE ConnOK'
  <2>1. /\ cur[t] \in Conns /\ cur' = cur /\ op' = op /\ live' = live /\ pc[t] # "releaseDelete"
        /\ \A u \in Threads : u # t => pc'[u] = pc[u]
    BY <1>3, GoesOnFrame DEF HeldPcs
  <2>2. \A c \in Conns : c # cur[t] => recvIO'[c] = recvIO[c] /\ sendIO'[c] = sendIO[c] /\ recvLen'[c] = recvLen[c]
    BY <1>3, OthersFrame
  <2>3. conn' = conn
    BY <1>3, OthersFrame
  <2>4. recvIO'[cur[t]] = "done" => recvIO[cur[t]] = "done" /\ recvLen'[cur[t]] = recvLen[cur[t]]
    BY <1>0, <1>3, <2>1, RecvUntouched DEF GoesOn, RecvSteps, RecvPost, WSARecvPosted,
       WSARecvFails, WSARecvFailsGiving
  <2>5. sendIO'[cur[t]] = "aborted" => sendIO[cur[t]] = "aborted"
    BY <1>0, <1>3, <2>1, SendUntouched DEF GoesOn, BufSteps, SendSteps, SendPost, SendRef,
       WSASendPosted, WSASendFails
  <2>6. Receiving(t) /\ conn[cur[t]] = "open" => recvIO'[cur[t]] # "none" \/ Receiving(t)'
    <3> USE DEF Receiving, RecvPcs, PostPcs
    <3>1. CASE LockSteps(t)
      BY <2>1, <3>1 DEF LockSteps, LockSession, SendLockMap, SendLockSession, SendUnlock,
         UnlockSession
    <3>2. CASE BufSteps(t)
      <4>1. CASE SendDone(t)
        BY <2>1, <4>1 DEF SendDone, SendDoneLeaving
      <4>2. CASE ProcessMessage(t) \/ OnRecv(t)
        BY <2>1, <4>2, <1>3, GoesOnFrame DEF ProcessMessage, OnRecv, HeldPcs
      <4>3. CASE SendEnqueue(t)
        BY <2>1, <4>3 DEF SendEnqueue
      <4> QED BY <3>2, <4>1, <4>2, <4>3 DEF BufSteps
    <3>3. CASE SendSteps(t)
      BY <2>1, <3>3 DEF SendSteps, SendPost, SendRef, WSASendPosted, WSASendFails, AfterSend
    <3>4. CASE RecvSteps(t)
      BY <1>0, <2>1, <3>4 DEF RecvSteps, RecvPost, WSARecvPosted, WSARecvFails, WSARecvFailsGiving
    <3> QED BY <1>3, <3>1, <3>2, <3>3, <3>4 DEF GoesOn
  <2>7. recvIO[cur[t]] # "none" /\ conn[cur[t]] = "open" => recvIO'[cur[t]] # "none"
    BY <1>0, <1>3, <2>1, RecvUntouched DEF GoesOn, RecvSteps, RecvPost, WSARecvPosted,
       WSARecvFails, WSARecvFailsGiving
  <2>8. \A u \in Workers : u # t => (Receiving(u)' <=> Receiving(u))
    BY <2>1 DEF Receiving
  <2> QED BY <1>0, <2>1, <2>2, <2>3, <2>4, <2>5, <2>6, <2>7, <2>8
<1>4. ASSUME NEW t \in Workers, NEW c \in Conns, DequeueRecv(t, c) PROVE ConnOK'
  BY <1>0, <1>4 DEF DequeueRecv, lifeVars, netVars, Receiving, RecvPcs, PostPcs
<1>5. ASSUME NEW t \in Workers, NEW c \in Conns, DequeueSend(t, c) PROVE ConnOK'
  BY <1>0, <1>5 DEF DequeueSend, lifeVars, netVars, Receiving, RecvPcs, PostPcs
<1>6. ASSUME NEW t \in Workers, DequeueNull(t) \/ IODecrement(t) PROVE ConnOK'
  BY <1>6 DEF DequeueNull, IODecrement, IODecrementAt, ioVars, lifeVars, netVars, Receiving,
     RecvPcs, PostPcs
<1>7. ASSUME NEW t \in Workers, Release(t) PROVE ConnOK'
  BY <1>0, <1>7 DEF Release, ReleaseLockMap, ReleaseSync, ReleaseClose, ReleaseDelete, ioVars,
     lifeVars, netVars,
    Receiving, RecvPcs, PostPcs
<1>8. CASE AcceptInsert
  BY <1>8 DEF AcceptInsert, ioVars, netVars, Receiving
<1>9. CASE RecvSteps(Acceptor)
  BY <1>0, <1>9 DEF RecvSteps, RecvPost, WSARecvPosted, WSARecvFails, WSARecvFailsGiving,
     AfterRecv, lifeVars, netVars, Receiving
<1> QED
  BY <1>1, <1>2, <1>3, <1>4, <1>5, <1>6, <1>7, <1>8, <1>9, NextSplit

\* packets never wait for nobody
LEMMA WaitStep ==
  ASSUME Shape, TypeOK, DataType, ThreadOK, LockOK, AloneOK, LiveOK, SendOK, ConnOK, WaitOK,
     DataOK, Next
  PROVE  WaitOK'
<1> USE DEF Shape, ThreadOK, Goto, GoHome
<1> DEFINE Sender(c)   == \E t \in Workers : cur[t] = c /\ Flagging(t)
           Sending(c)  == \E t \in Workers : cur[t] = c /\ (Flagging(t) \/ pc[t] = "sendPost")
           Wait(c)     == conn[c] \in {"open", "fin"} =>
                            /\ sendFlag[c] = 1 => sendIO[c] # "none" \/ Sender(c)
                            /\ sendBuf[c] # <<>> => sendIO[c] # "none" \/ Sending(c)
<1>0. /\ sendIO \in [Conns -> {"none", "posting", "pending", "done", "aborted"}]
      /\ conn \in [Conns -> {"new", "open", "fin", "reset", "closed"}]
      /\ sendFlag \in [Conns -> {0, 1}]
  BY DEF TypeOK
<1>a. SUFFICES ASSUME NEW c \in Conns PROVE Wait(c)'
  BY DEF WaitOK
<1>b. Wait(c)
  BY DEF WaitOK
<1>c. ASSUME sendFlag'[c] = sendFlag[c], sendBuf'[c] = sendBuf[c], sendIO'[c] # "none" \/ sendIO[c] = "none",
             conn'[c] \in {"open", "fin"} => conn[c] \in {"open", "fin"},
             \A u \in Workers : /\ cur[u] = c /\ Flagging(u) => cur'[u] = c /\ Flagging(u)'
                                /\ cur[u] = c /\ pc[u] = "sendPost" => cur'[u] = c /\ pc'[u] = "sendPost"
      PROVE  Wait(c)'
  BY <1>b, <1>c
<1>1. CASE OutsideStep
  <2>1. (sendIO'[c] # "none" \/ sendIO[c] = "none") /\ (conn'[c] \in {"open", "fin"} => conn[c] \in {"open", "fin"})
    BY <1>1, OutsideSession DEF Completes
  <2> QED BY <1>1, <1>c, <2>1, OutsideFrame DEF NoThreadMoves, Flagging, Done
<1>2. ASSUME NEW d \in Conns, Accept(d) PROVE Wait(c)'
  <2>1. c = d => sendFlag[c] = 0 /\ sendBuf[c] = <<>>
    BY <1>2 DEF Accept, DataOK, Placed
  <2>2. sendFlag' = sendFlag /\ sendBuf' = sendBuf /\ sendIO' = sendIO /\ (c # d => conn'[c] = conn[c])
    BY <1>2 DEF Accept, sendVars, ioVars
  <2>3. \A u \in Workers : cur'[u] = cur[u] /\ pc'[u] = pc[u] /\ op'[u] = op[u]
    BY <1>2 DEF Accept
  <2>4. CASE c = d
    BY <2>1, <2>2, <2>4
  <2> QED BY <1>c, <2>2, <2>3, <2>4 DEF Flagging, Done
<1>3. ASSUME NEW t \in Workers, GoesOn(t) PROVE Wait(c)'
  <2>1. /\ cur[t] \in Conns /\ cur' = cur /\ op' = op
        /\ \A u \in Threads : u # t => pc'[u] = pc[u]
    BY <1>3, GoesOnFrame
  <2>2. conn' = conn
    BY <1>3, OthersFrame
  <2>3. \A u \in Workers : u # t => Flagging(u)' = Flagging(u) /\ pc'[u] = pc[u]
    BY <2>1 DEF Flagging, Done
  <2>4. CASE c # cur[t]
    <3>1. sendFlag'[c] = sendFlag[c] /\ sendBuf'[c] = sendBuf[c] /\ sendIO'[c] = sendIO[c]
      BY <1>3, <2>4, OthersFrame
    <3> QED BY <1>c, <2>1, <2>2, <2>3, <2>4, <3>1
  <2>5. ASSUME c = cur[t] PROVE Wait(c)'
    <3>1. CASE LockSteps(t) \/ RecvSteps(t) \/ ProcessMessage(t) \/ OnRecv(t)
      <4>1. sendFlag' = sendFlag /\ sendIO' = sendIO
        BY <3>1, SendUntouched
      <4>2. sendBuf' = sendBuf
        BY <3>1 DEF LockSteps, LockSession, SendLockMap, SendLockSession, SendUnlock,
           UnlockSession, RecvSteps,
           RecvPost, WSARecvPosted, WSARecvFails, WSARecvFailsGiving, ProcessMessage, OnRecv,
              sendVars
      <4>3. (Flagging(t) => Flagging(t)') /\ pc[t] # "sendPost"
        BY <3>1, <2>1 DEF LockSteps, LockSession, SendLockMap, SendLockSession, SendUnlock,
           UnlockSession, RecvSteps,
           RecvPost, WSARecvPosted, WSARecvFails, WSARecvFailsGiving, ProcessMessage, OnRecv,
              Flagging, Done
      <4> QED BY <1>c, <2>1, <2>2, <2>3, <4>1, <4>2, <4>3
    <3>2. CASE SendDone(t)
      <4>1. sendFlag'[c] = 0 /\ pc'[t] = "sendPost"
        BY <1>0, <2>1, <2>5, <3>2 DEF SendDone, SendDoneLeaving
      <4> QED BY <2>1, <2>5, <4>1
    <3>3. CASE SendEnqueue(t)
      <4>1. sendFlag' = sendFlag /\ sendIO' = sendIO /\ ~ Flagging(t) /\ pc'[t] = "sendPost"
        BY <3>3, SendUntouched DEF SendEnqueue, Flagging, Done
      <4> QED BY <1>b, <2>1, <2>2, <2>3, <2>5, <4>1
    <3>4. CASE SendPost(t)
      <4>1. sendBuf' = sendBuf /\ sendIO' = sendIO /\ pc[t] = "sendPost" /\ ~ Flagging(t)
        BY <3>4 DEF SendPost, Flagging, Done
      <4>2. CASE sendFlag[c] = 1 \/ sendBuf[c] = <<>>
        <5>1. sendFlag' = sendFlag
          BY <2>5, <3>4, <4>2 DEF SendPost
        <5>2. \A u \in Workers : cur[u] = c /\ Flagging(u) => cur'[u] = c /\ Flagging(u)'
          BY <2>1, <2>3, <4>1
        <5> QED BY <1>0, <1>b, <2>2, <4>1, <4>2, <5>1, <5>2
      <4>3. CASE ~ (sendFlag[c] = 1 \/ sendBuf[c] = <<>>)
        <5>1. pc'[t] = "sendRef" /\ cur'[t] = c
          BY <2>1, <2>5, <3>4, <4>3 DEF SendPost
        <5>2. Flagging(t)'
          BY <5>1 DEF Flagging
        <5> QED BY <5>1, <5>2
      <4> QED BY <4>2, <4>3
    <3>5. CASE SendRef(t) \/ WSASendPosted(t)
      BY <1>0, <2>5, <3>5 DEF SendRef, WSASendPosted
    <3>6. CASE WSASendFails(t)
      BY <2>2, <2>5, <3>6 DEF WSASendFails
    <3> QED BY <1>3, <3>1, <3>2, <3>3, <3>4, <3>5, <3>6 DEF GoesOn, BufSteps, SendSteps
  <2> QED BY <2>4, <2>5
<1>4. ASSUME NEW t \in Workers, NEW d \in Conns, DequeueRecv(t, d) PROVE Wait(c)'
  BY <1>4, <1>c DEF DequeueRecv, sendVars, netVars, Flagging, Done
<1>5. ASSUME NEW t \in Workers, NEW d \in Conns, DequeueSend(t, d) PROVE Wait(c)'
  <2>1. sendFlag' = sendFlag /\ sendBuf' = sendBuf /\ conn' = conn
    BY <1>5 DEF DequeueSend, sendVars, netVars
  <2>2. \A u \in Workers : u # t => cur'[u] = cur[u] /\ pc'[u] = pc[u] /\ op'[u] = op[u]
    BY <1>5 DEF DequeueSend
  <2>3. cur[t] = None
    BY <1>5 DEF DequeueSend
  <2>4. CASE c # d
    BY <1>0, <1>5, <1>c, <2>1, <2>2, <2>3, <2>4 DEF DequeueSend, Flagging, Done
  <2>5. CASE c = d /\ sendIO[d] = "done"
    <3>1. cur'[t] = c /\ pc'[t] = "lockCs" /\ op'[t] = "send"
      BY <1>5, <2>5 DEF DequeueSend
    <3> QED BY <3>1 DEF Flagging, Done
  <2>6. CASE c = d /\ sendIO[d] = "aborted"
    BY <2>1, <2>6 DEF ConnOK
  <2> QED BY <1>5, <2>4, <2>5, <2>6 DEF DequeueSend
<1>6. ASSUME NEW t \in Workers, DequeueNull(t) \/ IODecrement(t) PROVE Wait(c)'
  BY <1>6, <1>c DEF DequeueNull, IODecrement, IODecrementAt, sendVars, ioVars, netVars, Flagging,
     Done
<1>7. ASSUME NEW t \in Workers, Release(t) PROVE Wait(c)'
  <2>1. sendFlag' = sendFlag /\ sendBuf' = sendBuf /\ sendIO' = sendIO
        /\ (conn'[c] \in {"open", "fin"} => conn[c] \in {"open", "fin"})
    BY <1>0, <1>7 DEF Release, ReleaseLockMap, ReleaseSync, ReleaseClose, ReleaseDelete,
       sendVars, ioVars, netVars
  <2>2. ~ Flagging(t) /\ pc[t] # "sendPost"
        /\ \A u \in Workers : u # t => cur'[u] = cur[u] /\ pc'[u] = pc[u] /\ op'[u] = op[u]
    BY <1>7 DEF Release, ReleaseLockMap, ReleaseSync, ReleaseClose, ReleaseDelete, Flagging, Done
  <2> QED BY <1>c, <2>1, <2>2 DEF Flagging, Done
<1>8. CASE AcceptInsert
  BY <1>8, <1>c DEF AcceptInsert, sendVars, ioVars, netVars, Flagging, Done
<1>9. CASE RecvSteps(Acceptor)
  <2>1. sendFlag' = sendFlag /\ sendIO' = sendIO
    BY <1>9, SendUntouched
  <2>2. sendBuf' = sendBuf
    BY <1>9 DEF RecvSteps, RecvPost, WSARecvPosted, WSARecvFails, WSARecvFailsGiving, sendVars
  <2>3. conn' = conn
    BY <1>9, OthersFrame
  <2>4. \A u \in Workers : cur'[u] = cur[u] /\ pc'[u] = pc[u] /\ op'[u] = op[u]
    BY <1>9 DEF RecvSteps, RecvPost, WSARecvPosted, WSARecvFails, WSARecvFailsGiving, AfterRecv
  <2> QED BY <1>c, <2>1, <2>2, <2>3, <2>4 DEF Flagging, Done
<1> QED
  BY <1>1, <1>2, <1>3, <1>4, <1>5, <1>6, <1>7, <1>8, <1>9, NextSplit

\* numbers
LEMMA DataNat ==
  ASSUME DataType, NEW c \in Conns
  PROVE  /\ Len(sendBuf[c]) \in Nat /\ Len(lent[c]) \in Nat /\ Len(echoed[c]) \in Nat
         /\ Out(c) \in {0, Len(lent[c])} /\ Out(c) \in Nat
         /\ Dropped(c) \in Int /\ Queued(c) \in Int
<1>1. Len(sendBuf[c]) \in Nat /\ Len(lent[c]) \in Nat /\ Len(echoed[c]) \in Nat
  BY DEF DataType
<1>2. Out(c) \in {0, Len(lent[c])}
  BY DEF Out
<1>3. Out(c) \in Nat
  BY <1>1, <1>2
<1> QED
  BY <1>1, <1>2, <1>3 DEF Dropped, Queued

\* arithmetic the solver is spared
LEMMA Cancel ==
  ASSUME NEW d \in Int, NEW n \in Nat, NEW m \in Nat PROVE (d + n) + (m - n) = d + m
OBVIOUS

\* a run of numbers without its beginning, and with one more at the end
LEMMA RunTail ==
  ASSUME NEW s \in Seq(Int), NEW n \in Nat, n <= Len(s), NEW d \in Int,
         \A i \in DOMAIN s : s[i] = d + i
  PROVE  /\ Len(SubSeq(s, n + 1, Len(s))) = Len(s) - n
         /\ \A i \in DOMAIN SubSeq(s, n + 1, Len(s)) : SubSeq(s, n + 1, Len(s))[i] = (d + n) + i
OBVIOUS

\* the next packet goes behind the others
LEMMA RunAppend ==
  ASSUME NEW s \in Seq(Int), NEW d \in Int, NEW x \in Int, x = d + (Len(s) + 1),
         \A i \in DOMAIN s : s[i] = d + i
  PROVE  /\ Len(Append(s, x)) = Len(s) + 1
         /\ \A i \in DOMAIN Append(s, x) : Append(s, x)[i] = d + i
OBVIOUS

\* the first n numbers of a run, behind the one it goes on
LEMMA RunConcat ==
  ASSUME NEW e \in Seq(Int), NEW s \in Seq(Int), NEW n \in Nat, n <= Len(s),
         \A i \in DOMAIN e : e[i] = i, \A i \in DOMAIN s : s[i] = Len(e) + i
  PROVE  /\ Len(e \o SubSeq(s, 1, n)) = Len(e) + n
         /\ \A i \in DOMAIN (e \o SubSeq(s, 1, n)) : (e \o SubSeq(s, 1, n))[i] = i
<1> DEFINE r == SubSeq(s, 1, n)
<1>1. r \in Seq(Int) /\ Len(r) = n /\ \A i \in 1 .. n : r[i] = Len(e) + i
  OBVIOUS
<1> HIDE DEF r
<1>2. /\ e \o r \in Seq(Int) /\ Len(e \o r) = Len(e) + n
      /\ \A i \in 1 .. Len(e) + n : (e \o r)[i] = IF i <= Len(e) THEN e[i] ELSE r[i - Len(e)]
  BY <1>1, ConcatProperties
<1>3. \A i \in 1 .. Len(e) + n : (e \o r)[i] = i
  <2> TAKE i \in 1 .. Len(e) + n
  <2>1. CASE i <= Len(e)
    BY <1>2, <2>1
  <2>2. CASE ~ (i <= Len(e))
    <3>1. i - Len(e) \in 1 .. n
      BY <2>2
    <3> QED BY <1>1, <1>2, <2>2, <3>1
  <2> QED BY <2>1, <2>2
<1> QED BY <1>2, <1>3, SMTT(30) DEF r

\* what moves does not show: in the places of the packets, in their count
LEMMA PlacedFrame ==
  ASSUME NEW c \in Conns, Placed(c),
         echoed'[c] = echoed[c], sendBuf'[c] = sendBuf[c], lent'[c] = lent[c],
         arrived'[c] = arrived[c],
         sendFlag'[c] = sendFlag[c], conn'[c] = "new" => conn[c] = "new", Out(c)' = Out(c)
  PROVE  Placed(c)' /\ Queued(c)' = Queued(c)
BY DEF Placed, Dropped, Queued

\* ... and as much as arrived
LEMMA CountedFrame ==
  ASSUME NEW c \in Conns, Counted(c), Queued(c)' = Queued(c), arrived'[c] = arrived[c],
         recvLen'[c] = recvLen[c], recvIO'[c] # "done" => recvIO[c] # "done",
         \A t \in Workers :
           /\ cur'[t] = c /\ Receiving(t)' <=> cur[t] = c /\ Receiving(t)
           /\ cur[t] = c /\ Receiving(t) => Behind(t)' = Behind(t)
  PROVE  Counted(c)'
BY DEF Counted

\* packets that are out, where the send does not move
LEMMA OutFrame ==
  ASSUME NEW c \in Conns, lent'[c] = lent[c], sendIO'[c] = "done" <=> sendIO[c] = "done",
         \A t \in Workers : cur'[t] = c /\ Done(t)' <=> cur[t] = c /\ Done(t)
  PROVE  Out(c)' = Out(c)
BY DEF Out

\* ... where there are none
LEMMA NothingOut ==
  ASSUME NEW c \in Conns, sendIO[c] # "done", \A t \in Workers : cur[t] = c => ~ Done(t)
  PROVE  Out(c) = 0
BY DEF Out

\* ... and where there are
LEMMA SomethingOut ==
  ASSUME NEW c \in Conns,
         sendIO[c] = "done" \/ \E t \in Workers : cur[t] = c /\ Done(t)
  PROVE  Out(c) = Len(lent[c])
BY DEF Out

\* a worker that handles the send or the receive of its session
LEMMA PacketsWorker ==
  ASSUME Shape, TypeOK, DataType, ThreadOK, LockOK, AloneOK, LiveOK, RecvOK, SendOK, DataOK,
         NEW t \in Workers, NEW c \in Conns, c = cur[t], GoesOn(t)
  PROVE  Placed(c)' /\ Counted(c)'
<1> USE DEF Shape, ThreadOK, Goto
<1>0. /\ sendFlag \in [Conns -> {0, 1}] /\ arrived \in [Conns -> Nat] /\ batch \in [Threads -> Nat]
      /\ recvLen \in [Conns -> Nat]
  BY ConstantsAssumption DEF TypeOK
<1>1. /\ cur' = cur /\ op' = op
      /\ \A u \in Threads : u # t => pc'[u] = pc[u]
  BY GoesOnFrame
<1>2. conn' = conn /\ arrived' = arrived /\ echoed' = echoed /\ \A u \in Threads : u # t => batch'[u] = batch[u]
  BY OthersFrame
<1>3. Placed(c) /\ Counted(c) /\ (pc[t] = "recvPost" => batch[t] = 0)
  BY DEF DataOK
<1>4. \A u \in Workers : u # t => Done(u)' = Done(u) /\ Receiving(u)' = Receiving(u) /\ Behind(u)' = Behind(u)
  BY <1>1, <1>2 DEF Done, Receiving, Behind
<1>5. sendBuf[c] \in Seq(Int) /\ lent[c] \in Seq(Int) /\ echoed[c] \in Seq(Int)
  BY DEF DataType
<1>6. \A u \in Workers : u # t /\ cur[u] = c /\ Done(t) => ~ Done(u)
  BY DEF SendOK, Flagging
<1>7. CASE LockSteps(t) \/ ProcessMessage(t) \/ OnRecv(t)
  <2>1. sendIO' = sendIO /\ sendFlag' = sendFlag /\ lent' = lent
    BY <1>7, SendUntouched
  <2>2. recvIO' = recvIO /\ recvLen' = recvLen
    BY <1>7, RecvUntouched DEF BufSteps
  <2>3. sendBuf' = sendBuf
    BY <1>7 DEF LockSteps, LockSession, SendLockMap, SendLockSession, SendUnlock, UnlockSession,
       ProcessMessage,
       OnRecv, sendVars
  <2>4. Done(t)' <=> Done(t)
    BY <1>1, <1>7 DEF LockSteps, LockSession, SendLockMap, SendLockSession, SendUnlock,
       UnlockSession,
       ProcessMessage, OnRecv, Done
  <2>5. (Receiving(t)' <=> Receiving(t)) /\ Behind(t)' = Behind(t)
    <3>1. CASE LockSteps(t)
      BY <1>1, <3>1 DEF LockSteps, LockSession, SendLockMap, SendLockSession, SendUnlock,
         UnlockSession,
         Receiving, RecvPcs, PostPcs, Behind
    <3>2. CASE ProcessMessage(t) \/ OnRecv(t)
      BY <1>0, <1>1, <3>2, GoesOnFrame DEF ProcessMessage, OnRecv, Receiving, RecvPcs, PostPcs,
         HeldPcs, Behind
    <3> QED BY <1>7, <3>1, <3>2
  <2>6. Out(c)' = Out(c)
    BY <1>1, <1>4, <2>1, <2>4, OutFrame
  <2>7. Placed(c)' /\ Queued(c)' = Queued(c)
    BY <1>2, <1>3, <2>1, <2>3, <2>6, PlacedFrame
  <2> QED BY <1>1, <1>2, <1>3, <1>4, <2>2, <2>5, <2>7, CountedFrame
<1>8. CASE SendDone(t)
  <2>1. Done(t) /\ sendIO[c] = "none" /\ ~ Done(t)' /\ ~ Receiving(t) /\ ~ Receiving(t)'
        /\ conn[c] # "new"
    BY <1>1, <1>8 DEF SendDone, SendDoneLeaving, Done, SendOK, Flagging, Receiving, RecvPcs,
       PostPcs, LiveOK
  <2>2. /\ sendBuf'[c] = SubSeq(sendBuf[c], Len(lent[c]) + 1, Len(sendBuf[c]))
        /\ lent'[c] = <<>> /\ sendFlag'[c] = 0
        /\ recvLen' = recvLen /\ recvIO' = recvIO /\ sendIO' = sendIO
    BY <1>0, <1>1, <1>5, <1>8 DEF SendDone, SendDoneLeaving, DataType
  <2>3. Out(c) = Len(lent[c])
    BY <2>1, SomethingOut
  <2>4. Out(c)' = 0
    BY <1>1, <1>4, <1>6, <2>1, <2>2 DEF Out
  <2>5. Len(lent[c]) \in Nat /\ Len(sendBuf[c]) \in Nat /\ Len(lent[c]) <= Len(sendBuf[c])
        /\ Dropped(c) \in Int
    BY <1>3, DataNat DEF Placed
  <2>6. Dropped(c)' = Dropped(c) + Len(lent[c])
    <3>1. Dropped(c) = Len(echoed[c]) - Len(lent[c]) /\ Dropped(c)' = Len(echoed[c])
      BY <1>2, <1>5, <2>3, <2>4 DEF Dropped
    <3> QED BY <1>5, <2>5, <3>1
  <2>7. \A i \in DOMAIN sendBuf[c] : sendBuf[c][i] = Dropped(c) + i
    BY <1>3 DEF Placed
  <2>8. /\ Len(SubSeq(sendBuf[c], Len(lent[c]) + 1, Len(sendBuf[c]))) = Len(sendBuf[c]) - Len(lent[c])
        /\ \A i \in DOMAIN SubSeq(sendBuf[c], Len(lent[c]) + 1, Len(sendBuf[c])) :
             SubSeq(sendBuf[c], Len(lent[c]) + 1, Len(sendBuf[c]))[i] = (Dropped(c) + Len(lent[c])) + i
    BY ONLY <1>5, <2>5, <2>7, RunTail
  <2>9. Len(sendBuf'[c]) = Len(sendBuf[c]) - Len(lent[c])
        /\ \A i \in DOMAIN sendBuf'[c] : sendBuf'[c][i] = Dropped(c)' + i
    BY <2>2, <2>6, <2>8, ZenonT(60)
  <2>10. Queued(c)' = Queued(c)
    <3>1. Queued(c)' = Dropped(c)' + Len(sendBuf'[c]) /\ Queued(c) = Dropped(c) + Len(sendBuf[c])
      BY DEF Queued
    <3>2. Dropped(c)' + Len(sendBuf'[c]) = (Dropped(c) + Len(lent[c])) + (Len(sendBuf[c]) - Len(lent[c]))
      BY <2>6, <2>9, Zenon
    <3>3. (Dropped(c) + Len(lent[c])) + (Len(sendBuf[c]) - Len(lent[c])) = Dropped(c) + Len(sendBuf[c])
      BY <2>5, Cancel, ZenonT(60)
    <3> QED BY <3>1, <3>2, <3>3, Zenon
  <2>11. Len(lent'[c]) <= Len(sendBuf'[c])
    BY ONLY <2>2, <2>5, <2>9
  <2>12. Placed(c)'
    BY <1>2, <1>3, <2>1, <2>2, <2>9, <2>11 DEF Placed
  <2> QED BY <1>1, <1>2, <1>3, <1>4, <2>1, <2>2, <2>10, <2>12, CountedFrame
<1>9. CASE SendEnqueue(t)
  <2>1. sendIO' = sendIO /\ sendFlag' = sendFlag /\ lent' = lent /\ recvIO' = recvIO
        /\ recvLen' = recvLen
    BY <1>9, SendUntouched, RecvUntouched DEF BufSteps
  <2>2. ~ Done(t) /\ ~ Done(t)' /\ Receiving(t) /\ Receiving(t)' /\ conn[c] # "new"
    BY <1>1, <1>9 DEF SendEnqueue, Done, Receiving, RecvPcs, PostPcs, LiveOK
  <2>3. sendBuf'[c] = Append(sendBuf[c], arrived[c] - batch[t]) /\ batch' = batch
    BY <1>1, <1>5, <1>9 DEF SendEnqueue, DataType
  <2>4. Behind(t) = batch[t] + 1 /\ Behind(t)' = batch[t]
    BY <1>0, <1>1, <1>9, <2>3 DEF SendEnqueue, Behind
  <2>5. Out(c)' = Out(c)
    BY <1>1, <1>4, <2>1, <2>2, OutFrame
  <2>6. Dropped(c)' = Dropped(c) /\ Dropped(c) \in Int
    BY <1>2, <2>5, DataNat DEF Dropped
  <2>7. Dropped(c) + Len(sendBuf[c]) + (batch[t] + 1) = arrived[c]
    BY <1>3, <2>2, <2>4 DEF Counted, Queued
  <2>8. /\ Len(Append(sendBuf[c], arrived[c] - batch[t])) = Len(sendBuf[c]) + 1
        /\ \A i \in DOMAIN Append(sendBuf[c], arrived[c] - batch[t]) :
             Append(sendBuf[c], arrived[c] - batch[t])[i] = Dropped(c) + i
    <3>1. arrived[c] - batch[t] \in Int
          /\ arrived[c] - batch[t] = Dropped(c) + (Len(sendBuf[c]) + 1)
      BY <1>0, <1>5, <2>6, <2>7, SMTT(30)
    <3>2. \A i \in DOMAIN sendBuf[c] : sendBuf[c][i] = Dropped(c) + i
      BY <1>3 DEF Placed
    <3> QED BY ONLY <1>5, <2>6, <3>1, <3>2, RunAppend
  <2>9. Len(sendBuf'[c]) = Len(sendBuf[c]) + 1 /\ \A i \in DOMAIN sendBuf'[c] : sendBuf'[c][i] = Dropped(c)' + i
    BY <2>3, <2>6, <2>8, Zenon
  <2>10. Placed(c)'
    <3>1. Len(lent'[c]) <= Len(sendBuf'[c])
      BY <1>3, <1>5, <2>1, <2>9 DEF Placed
    <3> QED BY <1>2, <1>3, <2>1, <2>2, <2>9, <3>1 DEF Placed
  <2>11. Queued(c)' + Behind(t)' = arrived'[c]
    <3>1. batch[t] \in Nat /\ Len(sendBuf[c]) \in Nat
      BY <1>0, <1>5
    <3>2. Queued(c)' = Dropped(c) + (Len(sendBuf[c]) + 1) /\ Behind(t)' = batch[t]
          /\ arrived'[c] = arrived[c]
      BY <1>2, <2>4, <2>6, <2>9 DEF Queued
    <3> QED BY ONLY <2>6, <2>7, <3>1, <3>2
  <2>12. \A u \in Workers : cur'[u] = c /\ Receiving(u)' => u = t
    BY <1>1, <1>4, <2>2 DEF RecvOK
  <2>13. cur'[t] = c
    BY <1>1
  <2> QED BY <1>3, <2>1, <2>2, <2>10, <2>11, <2>12, <2>13 DEF Counted
<1>10. CASE SendSteps(t)
  <2>1. recvIO' = recvIO /\ recvLen' = recvLen
    BY <1>10, RecvUntouched
  <2>2. sendBuf' = sendBuf /\ batch' = batch
    BY <1>10 DEF SendSteps, SendPost, SendRef, WSASendPosted, WSASendFails, sendVars
  <2>3. ~ Done(t) /\ ~ Done(t)' /\ (Receiving(t)' <=> Receiving(t)) /\ Behind(t)' = Behind(t) /\ conn[c] # "new"
    BY <1>1, <1>10, <2>2 DEF SendSteps, SendPost, SendRef, WSASendPosted, WSASendFails,
       AfterSend, Done, Receiving,
       RecvPcs, PostPcs, Behind, LiveOK
  <2>4. Out(c) = Out(c)' /\ Len(lent'[c]) <= Len(sendBuf'[c]) /\ (sendFlag'[c] = 0 => lent'[c] = <<>>)
    <3>1. CASE SendPost(t) /\ (sendFlag[c] = 1 \/ sendBuf[c] = <<>>)
      <4>1. sendIO' = sendIO /\ sendFlag' = sendFlag /\ lent' = lent
        BY <3>1 DEF SendPost
      <4>2. Out(c)' = Out(c)
        BY <1>1, <1>4, <2>3, <4>1, OutFrame
      <4> QED BY <1>3, <2>2, <4>1, <4>2 DEF Placed
    <3>2. CASE SendPost(t) /\ ~ (sendFlag[c] = 1 \/ sendBuf[c] = <<>>)
      <4>1. sendIO' = sendIO /\ sendFlag'[c] = 1 /\ lent'[c] = sendBuf[c] /\ sendFlag[c] = 0
        BY <1>0, <1>1, <3>2 DEF SendPost, DataType
      <4>2. sendIO[c] = "none" /\ \A u \in Workers : cur[u] = c => ~ Done(u)
        BY <1>1, <4>1 DEF SendOK, Flagging
      <4>3. Out(c) = 0
        BY <4>2, NothingOut
      <4>4. Out(c)' = 0
        BY <1>1, <1>4, <2>3, <4>1, <4>2 DEF Out
      <4> QED BY <1>5, <2>2, <4>1, <4>3, <4>4
    <3>3. CASE SendRef(t) \/ WSASendPosted(t) \/ WSASendFails(t)
      <4>1. sendFlag' = sendFlag /\ lent' = lent /\ sendIO'[c] # "done" /\ sendIO[c] # "done"
        BY <3>3 DEF SendRef, WSASendPosted, WSASendFails, sendVars, SendOK, Flagging, TypeOK
      <4>2. Out(c)' = Out(c)
        BY <1>1, <1>4, <2>3, <4>1, OutFrame
      <4> QED BY <1>3, <2>2, <4>1, <4>2 DEF Placed
    <3> QED BY <1>10, <3>1, <3>2, <3>3 DEF SendSteps
  <2>5. Dropped(c)' = Dropped(c) /\ Queued(c)' = Queued(c)
    BY <1>2, <2>2, <2>4 DEF Dropped, Queued
  <2>6. Placed(c)'
    BY <1>2, <1>3, <2>2, <2>3, <2>4, <2>5 DEF Placed
  <2> QED BY <1>1, <1>2, <1>3, <1>4, <2>1, <2>3, <2>5, <2>6, CountedFrame
<1>11. CASE RecvSteps(t)
  <2>1. sendIO' = sendIO /\ sendFlag' = sendFlag /\ lent' = lent
    BY <1>11, SendUntouched
  <2>2. sendBuf' = sendBuf /\ recvLen' = recvLen /\ batch' = batch
    BY <1>11 DEF RecvSteps, RecvPost, WSARecvPosted, WSARecvFails, WSARecvFailsGiving, sendVars
  <2>3. ~ Done(t) /\ ~ Done(t)' /\ ~ Receiving(t)'
    BY <1>1, <1>11 DEF RecvSteps, RecvPost, WSARecvPosted, WSARecvFails, WSARecvFailsGiving,
       AfterRecv, Done, Receiving,
       RecvPcs, PostPcs
  <2>4. Out(c)' = Out(c)
    BY <1>1, <1>4, <2>1, <2>3, OutFrame
  <2>5. Placed(c)' /\ Queued(c)' = Queued(c)
    BY <1>2, <1>3, <2>1, <2>2, <2>4, PlacedFrame
  <2>6. recvIO[c] # "done" /\ recvIO'[c] # "done"
    BY <1>11 DEF RecvSteps, RecvPost, WSARecvPosted, WSARecvFails, WSARecvFailsGiving, RecvOK,
       TypeOK,
       Receiving, RecvPcs
  <2>7. recvLen[c] = 0 /\ Queued(c) \in Int
    BY <1>3, <2>6, DataNat DEF Counted
  <2>8. (\A u \in Workers : cur[u] = c /\ u # t => ~ Receiving(u)) /\ Queued(c) + recvLen[c] = arrived[c]
    <3>1. CASE RecvPost(t)
      <4>1. Receiving(t) /\ Behind(t) = 0
        BY <1>0, <1>3, <3>1 DEF RecvPost, Receiving, RecvPcs, Behind
      <4>2. Queued(c) + 0 = arrived[c]
        BY <1>3, <4>1 DEF Counted
      <4> QED BY <2>7, <4>1, <4>2 DEF RecvOK
    <3>2. CASE WSARecvPosted(t) \/ WSARecvFails(t)
      <4>1. \A u \in Workers : cur[u] = c => ~ Receiving(u)
        BY <3>2 DEF WSARecvPosted, WSARecvFails, WSARecvFailsGiving, RecvOK
      <4> QED BY <1>3, <4>1 DEF Counted
    <3> QED BY <1>11, <3>1, <3>2 DEF RecvSteps
  <2>9. \A u \in Workers : cur'[u] = c => ~ Receiving(u)'
    BY <1>1, <1>4, <2>3, <2>8
  <2> QED BY <1>2, <2>2, <2>5, <2>6, <2>7, <2>8, <2>9 DEF Counted
<1> QED
  BY <1>7, <1>8, <1>9, <1>10, <1>11 DEF GoesOn, BufSteps

\* every packet stays in its place, and every message is accounted for
LEMMA DataStep ==
  ASSUME Shape, TypeOK, DataType, ThreadOK, LockOK, AloneOK, LiveOK, RecvOK, SendOK, ConnOK,
         DataOK, Next, ThreadOK'
  PROVE  DataOK'
<1> USE DEF Shape, ThreadOK, Goto, GoHome
<1>0. /\ recvIO \in [Conns -> {"none", "posting", "pending", "done"}]
      /\ sendIO \in [Conns -> {"none", "posting", "pending", "done", "aborted"}]
      /\ conn \in [Conns -> {"new", "open", "fin", "reset", "closed"}]
      /\ recvLen \in [Conns -> Nat] /\ arrived \in [Conns -> Nat] /\ batch \in [Threads -> Nat]
  BY ConstantsAssumption DEF TypeOK
<1>a. ASSUME NEW c \in Conns PROVE Placed(c) /\ Counted(c)
  BY DEF DataOK
<1>b. ASSUME NEW c \in Conns,
             echoed' = echoed, sendBuf' = sendBuf, lent' = lent, arrived' = arrived,
             sendFlag' = sendFlag,
             recvLen' = recvLen, recvIO' = recvIO, conn'[c] = "new" => conn[c] = "new",
             sendIO' = sendIO,
             \A t \in Workers : \/ cur[t] # c /\ cur'[t] # c
                                \/ /\ cur'[t] = c /\ cur[t] = c /\ (Receiving(t)' <=> Receiving(t))
                                   /\ (Done(t)' <=> Done(t)) /\ Behind(t)' = Behind(t)
                                \/ ~ Receiving(t) /\ ~ Receiving(t)' /\ ~ Done(t) /\ ~ Done(t)'
      PROVE  Placed(c)' /\ Counted(c)'
  <2>1. Out(c)' = Out(c)
    BY <1>b, OutFrame
  <2>2. Placed(c)' /\ Queued(c)' = Queued(c)
    BY <1>a, <1>b, <2>1, PlacedFrame
  <2> QED BY <1>a, <1>b, <2>2, CountedFrame
<1>1. CASE OutsideStep
  <2> SUFFICES ASSUME NEW c \in Conns PROVE Placed(c)' /\ Counted(c)'
    BY <1>1, OutsideFrame DEF NoThreadMoves, DataOK
  <2>1. /\ sendBuf' = sendBuf /\ lent' = lent /\ sendFlag' = sendFlag
        /\ \A t \in Workers : /\ cur'[t] = cur[t] /\ (Receiving(t)' <=> Receiving(t))
                               /\ (Done(t)' <=> Done(t)) /\ Behind(t)' = Behind(t)
    BY <1>1, OutsideFrame DEF NoThreadMoves, Receiving, Done, Behind
  <2>2. conn'[c] = "new" => conn[c] = "new"
    BY <1>1, OutsideSession DEF Completes
  <2>3. (\E d \in Conns : ClientLeaves(d)) \/ Quit => Placed(c)' /\ Counted(c)'
    BY <1>b, <2>1, <2>2 DEF ClientLeaves, Quit, ioVars
  <2>4. ASSUME NEW d \in Conns, RecvEnds(d) PROVE Placed(c)' /\ Counted(c)'
    <3>1. /\ echoed' = echoed /\ arrived' = arrived /\ recvLen' = recvLen /\ sendIO' = sendIO
          /\ (recvIO'[c] # "done" => recvIO[c] # "done")
      BY <1>0, <2>4 DEF RecvEnds, netVars
    <3>2. Out(c)' = Out(c)
      BY <2>1, <3>1, OutFrame
    <3>3. Placed(c)' /\ Queued(c)' = Queued(c)
      BY <1>a, <2>1, <2>2, <3>1, <3>2, PlacedFrame
    <3> QED BY <1>a, <2>1, <3>1, <3>3, CountedFrame
  <2>5. ASSUME NEW d \in Conns, SendAborts(d) PROVE Placed(c)' /\ Counted(c)'
    <3>1. /\ echoed' = echoed /\ arrived' = arrived /\ recvLen' = recvLen /\ recvIO' = recvIO
          /\ (sendIO'[c] = "done" <=> sendIO[c] = "done")
      BY <1>0, <2>5 DEF SendAborts, netVars
    <3>2. Out(c)' = Out(c)
      BY <2>1, <3>1, OutFrame
    <3>3. Placed(c)' /\ Queued(c)' = Queued(c)
      BY <1>a, <2>1, <2>2, <3>1, <3>2, PlacedFrame
    <3> QED BY <1>a, <2>1, <3>1, <3>3, CountedFrame
  <2>6. ASSUME NEW d \in Conns, SendCompletes(d) PROVE Placed(c)' /\ Counted(c)'
    <3>1. /\ arrived' = arrived /\ recvLen' = recvLen /\ recvIO' = recvIO
          /\ (c # d => sendIO'[c] = sendIO[c] /\ echoed'[c] = echoed[c])
      BY <2>6 DEF SendCompletes, DataType, TypeOK
    <3>2. CASE c # d
      <4>1. Out(c)' = Out(c)
        BY <2>1, <3>1, <3>2, OutFrame
      <4>2. Placed(c)' /\ Queued(c)' = Queued(c)
        BY <1>a, <2>1, <2>2, <3>1, <3>2, <4>1, PlacedFrame
      <4> QED BY <1>a, <2>1, <3>1, <4>2, CountedFrame
    <3>3. CASE c = d
      <4>1. /\ sendIO[c] = "pending" /\ sendIO'[c] = "done" /\ conn[c] # "new"
            /\ echoed'[c] = echoed[c] \o SubSeq(sendBuf[c], 1, Len(lent[c]))
        BY <1>0, <2>6, <3>3 DEF SendCompletes, DataType
      <4>2. Out(c) = 0
        BY <4>1, NothingOut DEF SendOK, Flagging
      <4>3. Out(c)' = Len(lent[c])
        BY <2>1, <4>1 DEF Out
      <4>4. Dropped(c) = Len(echoed[c])
        BY <4>2, DataNat DEF Dropped
      <4>5. /\ \A i \in DOMAIN echoed[c] : echoed[c][i] = i
            /\ \A i \in DOMAIN sendBuf[c] : sendBuf[c][i] = Len(echoed[c]) + i
            /\ Len(lent[c]) <= Len(sendBuf[c])
        BY <1>a, <4>4 DEF Placed
      <4>6. sendBuf[c] \in Seq(Int) /\ echoed[c] \in Seq(Int) /\ Len(lent[c]) \in Nat
        BY DataNat DEF DataType
      <4>7. /\ Len(echoed[c] \o SubSeq(sendBuf[c], 1, Len(lent[c]))) = Len(echoed[c]) + Len(lent[c])
            /\ \A i \in DOMAIN (echoed[c] \o SubSeq(sendBuf[c], 1, Len(lent[c]))) :
                 (echoed[c] \o SubSeq(sendBuf[c], 1, Len(lent[c])))[i] = i
        BY ONLY <4>5, <4>6, RunConcat
      <4>8. Len(echoed'[c]) = Len(echoed[c]) + Len(lent[c]) /\ \A i \in DOMAIN echoed'[c] : echoed'[c][i] = i
        BY <4>1, <4>7, Zenon
      <4>9. Dropped(c)' = Dropped(c)
        <5>1. Dropped(c)' = (Len(echoed[c]) + Len(lent[c])) - Len(lent[c])
          BY <2>1, <4>3, <4>8 DEF Dropped
        <5> QED BY <4>4, <4>6, <5>1
      <4>10. Queued(c)' = Queued(c)
        BY <2>1, <4>9 DEF Queued
      <4>11. Placed(c)'
        <5>1. Placed(c)
          BY <1>a
        <5>2. conn'[c] # "new"
          BY <2>2, <4>1
        <5>3. \A i \in DOMAIN sendBuf'[c] : sendBuf'[c][i] = Dropped(c)' + i
          BY <2>1, <4>9, <5>1 DEF Placed
        <5> QED BY <2>1, <4>8, <5>1, <5>2, <5>3 DEF Placed
      <4> QED BY <1>a, <2>1, <3>1, <4>10, <4>11, CountedFrame
    <3> QED BY <3>2, <3>3
  <2>7. ASSUME NEW d \in Conns, NEW k \in 1 .. MaxMsg, RecvArrives(d, k)
        PROVE  Placed(c)' /\ Counted(c)'
    <3>1. echoed' = echoed /\ sendIO' = sendIO
      BY <2>7 DEF RecvArrives
    <3>2. Out(c)' = Out(c)
      BY <2>1, <3>1, OutFrame
    <3>3. Dropped(c)' = Dropped(c) /\ Queued(c)' = Queued(c)
      BY <2>1, <3>1, <3>2 DEF Dropped, Queued
    <3>4. CASE c # d
      <4>1. recvIO'[c] = recvIO[c] /\ recvLen'[c] = recvLen[c] /\ arrived'[c] = arrived[c]
        BY <1>0, <2>7, <3>4 DEF RecvArrives
      <4>2. Placed(c)'
        BY <1>a, <2>1, <2>2, <3>1, <3>2, <4>1, PlacedFrame
      <4> QED BY <1>a, <2>1, <3>3, <4>1, <4>2, CountedFrame
    <3>5. CASE c = d
      <4>1. recvIO[c] = "pending" /\ recvIO'[c] = "done" /\ recvLen'[c] = k
            /\ arrived'[c] = arrived[c] + k
            /\ conn[c] = "open" /\ conn' = conn
        BY <1>0, <2>7, <3>5 DEF RecvArrives
      <4>2. (\A t \in Workers : cur[t] = c => ~ Receiving(t)) /\ recvLen[c] = 0 /\ Queued(c) + recvLen[c] = arrived[c]
        BY <1>a, <4>1 DEF RecvOK, Counted
      <4>3. Queued(c)' + recvLen'[c] = arrived'[c]
        BY <1>0, <3>3, <4>1, <4>2, DataNat
      <4>4. Placed(c)'
        BY <1>a, <2>1, <3>1, <3>3, <4>1 DEF Placed
      <4> QED BY <2>1, <4>1, <4>2, <4>3, <4>4 DEF Counted
    <3> QED BY <3>4, <3>5
  <2> QED BY <1>1, <2>3, <2>4, <2>5, <2>6, <2>7 DEF OutsideStep, KernelCompletes
<1>2. ASSUME NEW d \in Conns, Accept(d) PROVE DataOK'
  <2>1. /\ echoed' = echoed /\ sendBuf' = sendBuf /\ lent' = lent /\ arrived' = arrived
        /\ sendFlag' = sendFlag
        /\ recvLen' = recvLen /\ recvIO' = recvIO /\ sendIO' = sendIO /\ batch' = batch
    BY <1>2 DEF Accept, sendVars, ioVars
  <2>2. \A t \in Workers : pc'[t] = pc[t] /\ cur'[t] = cur[t] /\ op'[t] = op[t]
    BY <1>2 DEF Accept
  <2>3. \A c \in Conns : conn'[c] = "new" => conn[c] = "new"
    BY <1>0, <1>2 DEF Accept
  <2>4. ASSUME NEW c \in Conns PROVE Placed(c)' /\ Counted(c)'
    BY <1>b, <2>1, <2>2, <2>3 DEF Receiving, Done, Behind
  <2> QED BY <2>1, <2>2, <2>4 DEF DataOK
<1>3. ASSUME NEW t \in Workers, GoesOn(t) PROVE DataOK'
  <2>1. /\ cur[t] \in Conns /\ cur' = cur /\ op' = op
        /\ \A u \in Threads : u # t => pc'[u] = pc[u]
    BY <1>3, GoesOnFrame
  <2>2. conn' = conn /\ arrived' = arrived /\ echoed' = echoed /\ \A u \in Threads : u # t => batch'[u] = batch[u]
    BY <1>3, OthersFrame
  <2>3. ASSUME NEW c \in Conns, c # cur[t] PROVE Placed(c)' /\ Counted(c)'
    <3>1. /\ recvIO'[c] = recvIO[c] /\ sendIO'[c] = sendIO[c] /\ recvLen'[c] = recvLen[c]
          /\ lent'[c] = lent[c]
          /\ sendFlag'[c] = sendFlag[c] /\ sendBuf'[c] = sendBuf[c]
      BY <1>3, <2>3, OthersFrame
    <3>2. \A u \in Workers : u # t => Done(u)' = Done(u) /\ Receiving(u)' = Receiving(u) /\ Behind(u)' = Behind(u)
      BY <2>1, <2>2 DEF Done, Receiving, Behind
    <3>3. Out(c)' = Out(c)
      BY <2>1, <2>3, <3>1, <3>2, OutFrame
    <3>4. Placed(c)' /\ Queued(c)' = Queued(c)
      BY <1>a, <2>2, <3>1, <3>3, PlacedFrame
    <3> QED BY <1>a, <2>1, <2>2, <2>3, <3>1, <3>2, <3>4, CountedFrame
  <2>4. ASSUME NEW c \in Conns, c = cur[t] PROVE Placed(c)' /\ Counted(c)'
    BY <1>3, <2>4, PacketsWorker
  <2>5. pc'[t] = "recvPost" => batch'[t] = 0
    <3>1. CASE ProcessMessage(t)
      BY <1>0, <3>1 DEF ProcessMessage
    <3>2. CASE LockSteps(t) \/ RecvSteps(t)
      BY <2>1, <3>2 DEF LockSteps, LockSession, SendLockMap, SendLockSession, SendUnlock,
         UnlockSession,
         RecvSteps, RecvPost, WSARecvPosted, WSARecvFails, WSARecvFailsGiving, AfterRecv
    <3>3. CASE SendDone(t) \/ OnRecv(t) \/ SendEnqueue(t)
      BY <2>1, <3>3 DEF SendDone, SendDoneLeaving, OnRecv, SendEnqueue
    <3>4. CASE SendSteps(t)
      BY <2>1, <3>4 DEF SendSteps, SendPost, SendRef, WSASendPosted, WSASendFails, AfterSend
    <3> QED BY <1>3, <3>1, <3>2, <3>3, <3>4 DEF GoesOn, BufSteps
  <2>6. \A u \in Workers : pc'[u] = "recvPost" => batch'[u] = 0
    BY <2>1, <2>2, <2>5 DEF DataOK
  <2> QED BY <2>3, <2>4, <2>6 DEF DataOK
<1>4. ASSUME NEW t \in Workers, NEW d \in Conns, DequeueRecv(t, d) PROVE DataOK'
  <2>1. /\ echoed' = echoed /\ sendBuf' = sendBuf /\ lent' = lent /\ arrived' = arrived
        /\ sendFlag' = sendFlag
        /\ sendIO' = sendIO /\ conn' = conn
    BY <1>4 DEF DequeueRecv, sendVars, netVars
  <2>2. /\ \A u \in Workers : u # t => pc'[u] = pc[u] /\ cur'[u] = cur[u] /\ op'[u] = op[u] /\ batch'[u] = batch[u]
        /\ \A u \in Workers : u # t => Done(u)' = Done(u) /\ Receiving(u)' = Receiving(u) /\ Behind(u)' = Behind(u)
    BY <1>0, <1>4 DEF DequeueRecv, Done, Receiving, Behind
  <2>3. /\ cur[t] = None /\ cur'[t] = d /\ pc'[t] = "lockCs" /\ batch'[t] = recvLen[d]
        /\ op'[t] = IF recvLen[d] = 0 THEN "failed" ELSE "recv"
    BY <1>0, <1>4 DEF DequeueRecv
  <2>4. ~ Done(t)' /\ (Receiving(t)' <=> recvLen[d] # 0) /\ Behind(t)' = recvLen[d]
    BY <1>0, <2>3 DEF Done, Receiving, RecvPcs, PostPcs, Behind
  <2>5. ASSUME NEW c \in Conns PROVE Placed(c)' /\ Counted(c)'
    <3>1. Out(c)' = Out(c)
      BY <2>1, <2>2, <2>3, <2>4, OutFrame
    <3>2. Placed(c)' /\ Queued(c)' = Queued(c)
      BY <1>a, <2>1, <3>1, PlacedFrame
    <3>3. CASE c # d
      <4>1. recvIO'[c] = recvIO[c] /\ recvLen'[c] = recvLen[c]
        BY <1>0, <1>4, <3>3 DEF DequeueRecv
      <4> QED BY <1>a, <2>1, <2>2, <2>3, <3>2, <3>3, <4>1, CountedFrame
    <3>4. CASE c = d
      <4>1. recvIO[c] = "done" /\ recvLen'[c] = 0
        BY <1>0, <1>4, <3>4 DEF DequeueRecv
      <4>2. \A u \in Workers : cur[u] = c => ~ Receiving(u)
        BY <4>1 DEF RecvOK
      <4>3. Queued(c) + recvLen[c] = arrived[c]
        BY <1>a, <4>2 DEF Counted
      <4>4. \A u \in Workers : cur'[u] = c /\ Receiving(u)' => u = t
        BY <2>2, <4>2
      <4> QED BY <1>0, <2>1, <2>3, <2>4, <3>2, <3>4, <4>1, <4>3, <4>4 DEF Counted
    <3> QED BY <3>2, <3>3, <3>4
  <2> QED BY <2>2, <2>3, <2>5 DEF DataOK
<1>5. ASSUME NEW t \in Workers, NEW d \in Conns, DequeueSend(t, d) PROVE DataOK'
  <2>1. /\ echoed' = echoed /\ sendBuf' = sendBuf /\ lent' = lent /\ arrived' = arrived
        /\ sendFlag' = sendFlag
        /\ recvIO' = recvIO /\ recvLen' = recvLen /\ conn' = conn /\ batch' = batch
    BY <1>5 DEF DequeueSend, sendVars, netVars
  <2>2. /\ \A u \in Workers : u # t => pc'[u] = pc[u] /\ cur'[u] = cur[u] /\ op'[u] = op[u]
        /\ \A u \in Workers : u # t => Done(u)' = Done(u) /\ Receiving(u)' = Receiving(u) /\ Behind(u)' = Behind(u)
    BY <1>5, <2>1 DEF DequeueSend, Done, Receiving, Behind
  <2>3. /\ cur[t] = None /\ cur'[t] = d /\ pc'[t] = "lockCs"
        /\ sendIO[d] \in {"done", "aborted"} /\ sendIO'[d] = "none"
        /\ op'[t] = IF sendIO[d] = "aborted" THEN "failed" ELSE "send"
        /\ \A c \in Conns : c # d => sendIO'[c] = sendIO[c]
    BY <1>0, <1>5 DEF DequeueSend
  <2>4. (Done(t)' <=> sendIO[d] = "done") /\ ~ Receiving(t)'
    BY <2>3 DEF Done, Receiving, RecvPcs, PostPcs
  <2>5. ASSUME NEW c \in Conns PROVE Placed(c)' /\ Counted(c)'
    <3>1. Out(c)' = Out(c)
      <4>1. CASE c # d
        BY <2>1, <2>2, <2>3, <4>1, OutFrame
      <4>2. CASE c = d
        BY <2>1, <2>2, <2>3, <2>4, <4>2 DEF Out
      <4> QED BY <4>1, <4>2
    <3>2. Placed(c)' /\ Queued(c)' = Queued(c)
      BY <1>a, <2>1, <3>1, PlacedFrame
    <3> QED BY <1>a, <2>1, <2>2, <2>3, <2>4, <3>2, CountedFrame
  <2> QED BY <2>1, <2>2, <2>3, <2>5 DEF DataOK
<1>6. ASSUME NEW t \in Workers, DequeueNull(t) \/ IODecrement(t) \/ Release(t) PROVE DataOK'
  <2>1. /\ echoed' = echoed /\ sendBuf' = sendBuf /\ lent' = lent /\ arrived' = arrived
        /\ sendFlag' = sendFlag
        /\ recvLen' = recvLen /\ recvIO' = recvIO /\ sendIO' = sendIO /\ batch' = batch
    BY <1>6 DEF DequeueNull, IODecrement, IODecrementAt, Release, ReleaseLockMap, ReleaseSync,
       ReleaseClose,
       ReleaseDelete, sendVars, ioVars, netVars
  <2>2. \A c \in Conns : conn'[c] = "new" => conn[c] = "new"
    BY <1>0, <1>6 DEF DequeueNull, IODecrement, IODecrementAt, Release, ReleaseLockMap,
       ReleaseSync, ReleaseClose,
       ReleaseDelete, netVars
  <2>3. \A u \in Workers : u # t => pc'[u] = pc[u] /\ cur'[u] = cur[u] /\ op'[u] = op[u]
    BY <1>6 DEF DequeueNull, IODecrement, IODecrementAt, Release, ReleaseLockMap, ReleaseSync,
       ReleaseClose, ReleaseDelete
  <2>4. pc[t] \in ReleasePcs \cup {"gqcs", "ioDec"}
        /\ pc'[t] \in ReleasePcs \cup {"gqcs", "breakNull"}
    BY <1>6 DEF DequeueNull, IODecrement, IODecrementAt, Release, ReleaseLockMap, ReleaseSync,
       ReleaseClose,
       ReleaseDelete, ReleasePcs
  <2>5. ~ Receiving(t) /\ ~ Receiving(t)' /\ ~ Done(t) /\ ~ Done(t)' /\ pc'[t] # "recvPost"
    BY <2>4 DEF ReleasePcs, Receiving, RecvPcs, PostPcs, Done
  <2>6. ASSUME NEW c \in Conns PROVE Placed(c)' /\ Counted(c)'
    BY <1>b, <2>1, <2>2, <2>3, <2>5 DEF Receiving, Done, Behind
  <2> QED BY <2>1, <2>3, <2>5, <2>6 DEF DataOK
<1>7. CASE AcceptInsert \/ RecvSteps(Acceptor)
  <2>1. \A u \in Workers : pc'[u] = pc[u] /\ cur'[u] = cur[u] /\ op'[u] = op[u]
    BY <1>7 DEF AcceptInsert, RecvSteps, RecvPost, WSARecvPosted, WSARecvFails,
       WSARecvFailsGiving, AfterRecv
  <2>2. /\ echoed' = echoed /\ sendBuf' = sendBuf /\ lent' = lent /\ arrived' = arrived
        /\ sendFlag' = sendFlag
        /\ recvLen' = recvLen /\ sendIO' = sendIO /\ batch' = batch /\ conn' = conn
    BY <1>7 DEF AcceptInsert, RecvSteps, RecvPost, WSARecvPosted, WSARecvFails,
       WSARecvFailsGiving, sendVars, ioVars, netVars
  <2>3. \A c \in Conns : recvIO'[c] # "done" => recvIO[c] # "done"
    BY <1>0, <1>7 DEF AcceptInsert, RecvSteps, RecvPost, WSARecvPosted, WSARecvFails,
       WSARecvFailsGiving, ioVars, AloneOK, RecvOK
  <2>4. \A u \in Workers : Done(u)' = Done(u) /\ Receiving(u)' = Receiving(u) /\ Behind(u)' = Behind(u)
    BY <2>1, <2>2 DEF Done, Receiving, Behind
  <2>5. ASSUME NEW c \in Conns PROVE Placed(c)' /\ Counted(c)'
    <3>1. Out(c)' = Out(c)
      BY <2>1, <2>2, <2>4, OutFrame
    <3>2. Placed(c)' /\ Queued(c)' = Queued(c)
      BY <1>a, <2>2, <3>1, PlacedFrame
    <3> QED BY <1>a, <2>1, <2>2, <2>3, <2>4, <3>2, CountedFrame
  <2> QED BY <2>1, <2>2, <2>5 DEF DataOK
<1> QED
  BY <1>1, <1>2, <1>3, <1>4, <1>5, <1>6, <1>7, NextSplit

(***************************************************************************)
(* Types                                                                   *)
(***************************************************************************)
\* but for what is counted
Types ==
  /\ pc \in [Threads -> Pcs]
  /\ cur \in [Threads -> Conns \cup {None}]
  /\ op \in [Threads -> {"none", "accept", "recv", "send", "failed"}]
  /\ batch \in [Threads -> 0 .. MaxMsg]
  /\ mapOwner \in Threads \cup {None} /\ csOwner \in [Conns -> Threads \cup {None}]
  /\ sessionMap \subseteq live /\ live \subseteq Conns
  /\ csDepth \in [Conns -> Int] /\ ioCount \in [Conns -> Int]
SideTypes ==
  /\ sendFlag \in [Conns -> {0, 1}]
  /\ recvIO \in [Conns -> {"none", "posting", "pending", "done"}]
  /\ sendIO \in [Conns -> {"none", "posting", "pending", "done", "aborted"}]
  /\ recvLen \in [Conns -> 0 .. MaxMsg] /\ arrived \in [Conns -> 0 .. MaxMsg]
  /\ conn \in [Conns -> {"new", "open", "fin", "reset", "closed"}]
  /\ nulls \in 0 .. Nulls

\* the types of threads, locks and sessions
LEMMA TypesStep ==
  ASSUME Shape, Types, SideTypes, ThreadOK, LiveOK, AloneOK, Next
  PROVE  Types'
<1> USE DEF Shape, Types, SideTypes, ThreadOK, Goto, GoHome, Pcs, RefPcs, HeldPcs, ReleasePcs, BreakPcs, lockVars, lifeVars
<1>1. CASE OutsideStep
  BY <1>1, OutsideFrame DEF NoThreadMoves
<1>2. ASSUME NEW t \in Workers, LockSteps(t) PROVE Types'
  <2>1. CASE LockSession(t) \/ SendLockMap(t)
    BY <2>1 DEF LockSession, SendLockMap, Enter
  <2>2. CASE SendLockSession(t) \/ SendUnlock(t) \/ UnlockSession(t)
    BY <2>2 DEF SendLockSession, SendUnlock, UnlockSession, Enter, Leave
  <2> QED BY <1>2, <2>1, <2>2 DEF LockSteps
<1>3. ASSUME NEW t \in Workers, BufSteps(t) \/ SendSteps(t) PROVE Types'
  <2>1. /\ cur' = cur /\ op' = op /\ mapOwner' = mapOwner /\ csOwner' = csOwner
        /\ csDepth' = csDepth
        /\ sessionMap' = sessionMap /\ live' = live
    <3>1. CASE SendDone(t) \/ ProcessMessage(t)
      BY <3>1 DEF SendDone, SendDoneLeaving, ProcessMessage
    <3>2. CASE OnRecv(t) \/ SendEnqueue(t)
      BY <3>2 DEF OnRecv, SendEnqueue
    <3>3. CASE SendSteps(t)
      BY <3>3 DEF SendSteps, SendPost, SendRef, WSASendPosted, WSASendFails
    <3> QED BY <1>3, <3>1, <3>2, <3>3 DEF BufSteps
  <2>2. \E l \in Pcs : pc' = [pc EXCEPT ![t] = l]
    <3>1. CASE SendDone(t) \/ SendEnqueue(t)
      BY <3>1 DEF SendDone, SendDoneLeaving, SendEnqueue
    <3>2. CASE ProcessMessage(t) \/ OnRecv(t)
      BY <3>2 DEF ProcessMessage, OnRecv
    <3>3. CASE SendSteps(t)
      BY <3>3 DEF SendSteps, SendPost, SendRef, WSASendPosted, WSASendFails, AfterSend
    <3> QED BY <1>3, <3>1, <3>2, <3>3 DEF BufSteps
  <2>3. pc' \in [Threads -> Pcs]
    BY <2>2
  <2>4. batch' \in [Threads -> 0 .. MaxMsg]
    <3>1. CASE ProcessMessage(t)
      BY <3>1, ConstantsAssumption DEF ProcessMessage
    <3>2. CASE ~ ProcessMessage(t)
      BY <1>3, <3>2 DEF BufSteps, SendDone, SendDoneLeaving, OnRecv, SendEnqueue, SendSteps,
         SendPost, SendRef,
         WSASendPosted, WSASendFails
    <3> QED BY <3>1, <3>2
  <2>5. ioCount' \in [Conns -> Int]
    <3>1. CASE BufSteps(t)
      BY <3>1 DEF BufSteps, SendDone, SendDoneLeaving, ProcessMessage, OnRecv, SendEnqueue
    <3>2. CASE SendSteps(t)
      BY <3>2 DEF SendSteps, SendPost, SendRef, WSASendPosted, WSASendFails
    <3> QED BY <1>3, <3>1, <3>2
  <2> QED BY <2>1, <2>3, <2>4, <2>5
<1>6. ASSUME NEW t \in Workers \cup {Acceptor}, RecvSteps(t) PROVE Types'
  BY <1>6, SMTT(30)
     DEF RecvSteps, RecvPost, WSARecvPosted, WSARecvFails, WSARecvFailsGiving, AfterRecv
<1>7. ASSUME NEW t \in Workers, NEW c \in Conns, DequeueRecv(t, c) \/ DequeueSend(t, c) PROVE Types'
  BY <1>7 DEF DequeueRecv, DequeueSend
<1>8. ASSUME NEW t \in Workers, DequeueNull(t) \/ IODecrement(t) \/ Release(t) PROVE Types'
  BY <1>8 DEF DequeueNull, IODecrement, IODecrementAt, Release, ReleaseLockMap, ReleaseSync,
     ReleaseClose, ReleaseDelete
<1>9. ASSUME NEW c \in Conns, Accept(c) PROVE Types'
  BY <1>9 DEF Accept
<1>10. CASE AcceptInsert
  BY <1>10 DEF AcceptInsert, LiveOK
<1> QED
  BY <1>1, <1>2, <1>3, <1>6, <1>7, <1>8, <1>9, <1>10, NextSplit DEF GoesOn, BufSteps

\* the types of the two operations and of the connections
LEMMA SideTypesStep ==
  ASSUME Shape, Types, SideTypes, ThreadOK, LiveOK, AloneOK, Next
  PROVE  SideTypes'
<1> USE DEF Shape, Types, SideTypes, ThreadOK, sendVars, ioVars, netVars
<1>1. CASE OutsideStep
  <2>1. ASSUME NEW c \in Conns, ClientLeaves(c) \/ RecvEnds(c) PROVE SideTypes'
    BY <2>1 DEF ClientLeaves, RecvEnds
  <2>2. ASSUME NEW c \in Conns, SendCompletes(c) \/ SendAborts(c) PROVE SideTypes'
    <3>1. /\ sendFlag' = sendFlag /\ recvIO' = recvIO /\ recvLen' = recvLen /\ arrived' = arrived
          /\ conn' = conn /\ nulls' = nulls
      BY <2>2 DEF SendCompletes, SendAborts
    <3>2. sendIO' = [sendIO EXCEPT ![c] = "done"] \/ sendIO' = [sendIO EXCEPT ![c] = "aborted"]
      BY <2>2 DEF SendCompletes, SendAborts
    <3> QED BY <3>1, <3>2
  <2>3. ASSUME NEW c \in Conns, NEW k \in 1 .. MaxMsg, RecvArrives(c, k) PROVE SideTypes'
    BY <2>3, ConstantsAssumption DEF RecvArrives
  <2>4. CASE Quit
    BY <2>4, ConstantsAssumption DEF Quit
  <2> QED BY <1>1, <2>1, <2>2, <2>3, <2>4 DEF OutsideStep, KernelCompletes
<1>2. ASSUME NEW t \in Workers, LockSteps(t) PROVE SideTypes'
  BY <1>2 DEF LockSteps, LockSession, SendLockMap, SendLockSession, SendUnlock, UnlockSession
<1>3. ASSUME NEW t \in Workers, SendDone(t) \/ SendEnqueue(t) PROVE SideTypes'
  BY <1>3, ZenonT(60) DEF SendDone, SendDoneLeaving, SendEnqueue
<1>4. ASSUME NEW t \in Workers, ProcessMessage(t) \/ OnRecv(t) PROVE SideTypes'
  BY <1>4 DEF ProcessMessage, OnRecv
<1>5. ASSUME NEW t \in Workers, SendSteps(t) PROVE SideTypes'
  <2>1. /\ recvIO' = recvIO /\ recvLen' = recvLen /\ arrived' = arrived /\ conn' = conn
        /\ nulls' = nulls
    BY <1>5 DEF SendSteps, SendPost, SendRef, WSASendPosted, WSASendFails
  <2>2. sendFlag' \in [Conns -> {0, 1}]
    BY <1>5, ZenonT(60) DEF SendSteps, SendPost, SendRef, WSASendPosted, WSASendFails
  <2>3. sendIO' \in [Conns -> {"none", "posting", "pending", "done", "aborted"}]
    <3>1. CASE SendPost(t)
      BY <3>1 DEF SendPost
    <3>2. CASE ~ SendPost(t)
      BY <1>5, <3>2 DEF SendSteps, SendRef, WSASendPosted, WSASendFails
    <3> QED BY <3>1, <3>2
  <2> QED BY <2>1, <2>2, <2>3
<1>6. ASSUME NEW t \in Workers \cup {Acceptor}, RecvSteps(t) PROVE SideTypes'
  BY <1>6 DEF RecvSteps, RecvPost, WSARecvPosted, WSARecvFails, WSARecvFailsGiving
<1>7. ASSUME NEW t \in Workers, NEW c \in Conns, DequeueRecv(t, c) \/ DequeueSend(t, c)
      PROVE  SideTypes'
  BY <1>7, ConstantsAssumption DEF DequeueRecv, DequeueSend
<1>8. ASSUME NEW t \in Workers, DequeueNull(t) \/ IODecrement(t) \/ Release(t) PROVE SideTypes'
  BY <1>8, ConstantsAssumption DEF DequeueNull, IODecrement, IODecrementAt, Release,
     ReleaseLockMap, ReleaseSync,
     ReleaseClose, ReleaseDelete
<1>9. ASSUME NEW c \in Conns, Accept(c) PROVE SideTypes'
  BY <1>9 DEF Accept
<1>10. CASE AcceptInsert
  BY <1>10 DEF AcceptInsert
<1> QED
  BY <1>1, <1>2, <1>3, <1>4, <1>5, <1>6, <1>7, <1>8, <1>9, <1>10, NextSplit DEF GoesOn, BufSteps

\* the types of the buffers
LEMMA DataTypeStep ==
  ASSUME Shape, Types, SideTypes, DataType, DataOK, ThreadOK, Next
  PROVE  DataType'
<1> USE DEF DataType, sendVars, ioVars, netVars
<1>1. CASE OutsideStep
  <2>1. sendBuf' = sendBuf /\ lent' = lent /\ firstFailed' = firstFailed
    BY <1>1, OutsideFrame DEF NoThreadMoves
  <2>2. ASSUME NEW c \in Conns, SendCompletes(c) PROVE echoed' \in [Conns -> Seq(Int)]
    <3>1. echoed[c] \in Seq(Int) /\ SubSeq(sendBuf[c], 1, Len(lent[c])) \in Seq(Int)
      <4>1. echoed[c] \in Seq(Int) /\ sendBuf[c] \in Seq(Int) /\ lent[c] \in Seq(Int)
        OBVIOUS
      <4>2. Len(lent[c]) \in Nat /\ Len(lent[c]) <= Len(sendBuf[c])
        BY <4>1 DEF DataOK, Placed
      <4>3. SubSeq(sendBuf[c], 1, Len(lent[c])) \in Seq(Int)
        <5> DEFINE n == Len(lent[c])
        <5>1. n \in Nat /\ n <= Len(sendBuf[c])
          BY <4>2
        <5>2. \A i \in 1 .. n : sendBuf[c][i] \in Int
          BY <4>1, <5>1
        <5> HIDE DEF n
        <5>3. SubSeq(sendBuf[c], 1, n) \in Seq(Int)
          BY <4>1, <5>1, <5>2
        <5> QED BY <5>3 DEF n
      <4> QED BY <4>1, <4>3
    <3>2. echoed[c] \o SubSeq(sendBuf[c], 1, Len(lent[c])) \in Seq(Int)
      BY <3>1, ConcatProperties
    <3> QED BY <2>2, <3>2 DEF SendCompletes
  <2>3. (\A c \in Conns : ~ SendCompletes(c)) => echoed' = echoed
    BY <1>1 DEF OutsideStep, KernelCompletes, ClientLeaves, RecvEnds, SendAborts, RecvArrives,
       Quit
  <2> QED BY <2>1, <2>2, <2>3
<1>2. ASSUME NEW t \in Workers, SendDone(t) PROVE DataType'
  <2>1. cur[t] \in Conns
        /\ SubSeq(sendBuf[cur[t]], Len(lent[cur[t]]) + 1, Len(sendBuf[cur[t]])) \in Seq(Int)
        /\ <<>> \in Seq(Int)
    BY <1>2 DEF SendDone, SendDoneLeaving, ThreadOK, Shape
  <2> QED BY <1>2, <2>1 DEF SendDone, SendDoneLeaving
<1>3. ASSUME NEW t \in Workers, SendEnqueue(t) PROVE DataType'
  <2>0. cur[t] \in Conns
    BY <1>3 DEF SendEnqueue, ThreadOK, Shape
  <2>1. Append(sendBuf[cur[t]], arrived[cur[t]] - batch[t]) \in Seq(Int)
    <3>1. arrived[cur[t]] \in 0 .. MaxMsg /\ batch[t] \in 0 .. MaxMsg
      BY <2>0 DEF Shape, Types, SideTypes
    <3>2. arrived[cur[t]] - batch[t] \in Int
      BY <3>1, ConstantsAssumption
    <3>3. sendBuf[cur[t]] \in Seq(Int)
      BY <2>0
    <3> QED BY <3>2, <3>3, AppendProperties
  <2> QED BY <1>3, <2>0, <2>1 DEF SendEnqueue
<1>4. ASSUME NEW t \in Workers, SendPost(t) PROVE DataType'
  BY <1>4 DEF SendPost
<1>5. ASSUME NEW t \in Workers \cup {Acceptor}, RecvSteps(t) PROVE DataType'
  <2>1. sendBuf' = sendBuf /\ lent' = lent /\ echoed' = echoed
    BY <1>5 DEF RecvSteps, RecvPost, WSARecvPosted, WSARecvFails, WSARecvFailsGiving
  <2>2. firstFailed' \in [Conns -> BOOLEAN]
    <3>1. CASE WSARecvFails(t)
      BY <3>1 DEF WSARecvFails, WSARecvFailsGiving
    <3>2. CASE ~ WSARecvFails(t)
      BY <1>5, <3>2 DEF RecvSteps, RecvPost, WSARecvPosted
    <3> QED BY <3>1, <3>2
  <2> QED BY <2>1, <2>2
<1>6. ASSUME NEW t \in Workers, LockSteps(t) \/ ProcessMessage(t) \/ OnRecv(t) PROVE DataType'
  BY <1>6 DEF LockSteps, LockSession, SendLockMap, SendLockSession, SendUnlock, UnlockSession,
     ProcessMessage, OnRecv
<1>7. ASSUME NEW t \in Workers, SendRef(t) \/ WSASendPosted(t) \/ WSASendFails(t) PROVE DataType'
  BY <1>7 DEF SendRef, WSASendPosted, WSASendFails
<1>8. ASSUME NEW t \in Workers, NEW c \in Conns, DequeueRecv(t, c) \/ DequeueSend(t, c)
      PROVE  DataType'
  BY <1>8 DEF DequeueRecv, DequeueSend
<1>9. ASSUME NEW t \in Workers, DequeueNull(t) \/ IODecrement(t) \/ Release(t) PROVE DataType'
  BY <1>9 DEF DequeueNull, IODecrement, IODecrementAt, Release, ReleaseLockMap, ReleaseSync,
     ReleaseClose, ReleaseDelete
<1>10. ASSUME NEW c \in Conns, Accept(c) PROVE DataType'
  BY <1>10 DEF Accept
<1>11. CASE AcceptInsert
  BY <1>11 DEF AcceptInsert
<1> QED
  BY <1>1, <1>2, <1>3, <1>4, <1>5, <1>6, <1>7, <1>8, <1>9, <1>10, <1>11, NextSplit DEF GoesOn,
     BufSteps, SendSteps

\* a count is as large as what it counts
LEMMA TypeStep ==
  ASSUME TypeOK, Types', SideTypes', ThreadOK', LockOK', CountOK'
  PROVE  TypeOK'
<1>1. \A c \in Conns : ioCount'[c] \in Nat
  <2> TAKE c \in Conns
  <2>1. Cardinality(At(c, RefPcs)') \in Nat
    BY ThreadSets DEF At
  <2> QED BY <2>1 DEF CountOK, References, Busy
<1>2. \A c \in Conns : csDepth'[c] \in 0 .. 2
  BY DEF LockOK, Types
<1> QED
  BY <1>1, <1>2 DEF TypeOK, Types, SideTypes, Pcs

(***************************************************************************)
(* The invariant holds                                                     *)
(***************************************************************************)
LEMMA TypesOf == TypeOK => Types /\ SideTypes
<1> SUFFICES ASSUME TypeOK PROVE Types /\ SideTypes
  OBVIOUS
<1>1. csDepth \in [Conns -> Int] /\ ioCount \in [Conns -> Int]
  BY DEF TypeOK
<1> QED BY <1>1 DEF TypeOK, Types, SideTypes, Pcs

\* the start
LEMMA InitTypes == Init => TypeOK /\ DataType
<1> SUFFICES ASSUME Init PROVE TypeOK /\ DataType
  OBVIOUS
<1>1. <<>> \in Seq(Int)
  OBVIOUS
<1> QED BY <1>1, ConstantsAssumption DEF Init, TypeOK, DataType

\* ... with no session, and no thread on one
LEMMA InitLife == Init => ThreadOK /\ LockOK /\ RecvOK /\ SendOK /\ AloneOK /\ LiveOK /\ ConnOK /\ WaitOK
<1> SUFFICES ASSUME Init PROVE ThreadOK /\ LockOK /\ RecvOK /\ SendOK /\ AloneOK /\ LiveOK /\ ConnOK /\ WaitOK
  OBVIOUS
<1> USE ConstantsAssumption DEF Init, Threads
<1>1. /\ \A t \in Workers : pc[t] = "gqcs" /\ cur[t] = None /\ op[t] = "none"
      /\ pc[Acceptor] = "accept" /\ cur[Acceptor] = None
      /\ \A c \in Conns : csOwner[c] = None /\ csDepth[c] = 0 /\ recvIO[c] = "none" /\ sendIO[c] = "none"
                          /\ sendFlag[c] = 0 /\ sendBuf[c] = <<>> /\ conn[c] = "new"
                          /\ recvLen[c] = 0
      /\ mapOwner = None /\ live = {} /\ sessionMap = {}
  OBVIOUS
<1>2. ThreadOK
  BY <1>1 DEF ThreadOK, RefPcs, HeldPcs, ReleasePcs, RecvPcs, PostPcs
<1>3. LockOK
  BY <1>1 DEF LockOK, HeldPcs, MapPcs
<1>4. RecvOK /\ SendOK
  BY <1>1 DEF RecvOK, SendOK, Receiving, Flagging, Done, RecvPcs, PostPcs
<1>5. AloneOK /\ LiveOK /\ ConnOK /\ WaitOK
  BY <1>1 DEF AloneOK, LiveOK, ConnOK, WaitOK, ReleasePcs
<1> QED BY <1>2, <1>3, <1>4, <1>5

\* ... and nothing to count
LEMMA InitCounts == Init => CountOK /\ DataOK
<1> SUFFICES ASSUME Init PROVE CountOK /\ DataOK
  OBVIOUS
<1>1. /\ \A t \in Workers : pc[t] = "gqcs" /\ cur[t] = None /\ batch[t] = 0
      /\ \A c \in Conns : recvIO[c] = "none" /\ sendIO[c] = "none" /\ sendFlag[c] = 0 /\ ioCount[c] = 0
           /\ sendBuf[c] = <<>> /\ lent[c] = <<>> /\ echoed[c] = <<>> /\ arrived[c] = 0
           /\ recvLen[c] = 0
  BY ConstantsAssumption DEF Init, Threads
<1>2. ASSUME NEW c \in Conns PROVE ioCount[c] = References(c)
  <2>1. At(c, RefPcs) = {}
    BY <1>1, ConstantsAssumption DEF At
  <2>2. References(c) = 0
    BY <1>1, <2>1, NoReference
  <2> QED BY <1>1, <2>2
<1>3. ASSUME NEW c \in Conns PROVE Placed(c) /\ Counted(c)
  <2>1. Out(c) = 0
    BY <1>1 DEF Out, Done
  <2>2. Dropped(c) = 0 /\ Queued(c) = 0
    <3>1. Len(echoed[c]) = 0 /\ Len(sendBuf[c]) = 0
      BY <1>1
    <3> QED BY <2>1, <3>1 DEF Dropped, Queued
  <2>3. Placed(c)
    BY <1>1, <2>2 DEF Placed
  <2>4. \A t \in Workers : cur[t] # c
    BY <1>1, ConstantsAssumption
  <2> QED BY <1>1, <2>2, <2>3, <2>4 DEF Counted
<1> QED BY <1>1, <1>2, <1>3 DEF CountOK, DataOK

\* the invariant holds at the start
LEMMA Initially == Init => IInv
BY InitTypes, InitLife, InitCounts DEF IInv

\* ... and where nothing changes
LEMMA Stutter == IInv /\ UNCHANGED vars => IInv'
<1> SUFFICES ASSUME IInv, UNCHANGED vars PROVE IInv'
  OBVIOUS
<1> USE DEF IInv, vars, threadVars, lockVars, lifeVars, sendVars, ioVars, netVars
<1>1. TypeOK' /\ DataType' /\ ThreadOK' /\ LockOK'
  BY DEF TypeOK, DataType, ThreadOK, LockOK, Twice
<1>2. CountOK'
  BY DEF CountOK, References, At
<1>3. RecvOK' /\ SendOK' /\ AloneOK' /\ LiveOK'
  BY DEF RecvOK, SendOK, AloneOK, LiveOK, Receiving, Flagging, Done
<1>4. ConnOK' /\ WaitOK'
  BY DEF ConnOK, WaitOK, Receiving, Flagging, Done
<1>5. DataOK'
  <2>1. \A c \in Conns : Out(c)' = Out(c)
    BY DEF Out, Done
  <2>2. \A t \in Workers : (Receiving(t)' <=> Receiving(t)) /\ Behind(t)' = Behind(t)
    BY DEF Receiving, Behind
  <2> QED BY <2>1, <2>2 DEF DataOK, Placed, Counted, Dropped, Queued
<1> QED BY <1>1, <1>2, <1>3, <1>4, <1>5

\* every step keeps it
LEMMA Inductive == IInv /\ [Next]_vars => IInv'
<1> SUFFICES ASSUME IInv, Next PROVE IInv'
  BY Stutter
<1>1. Shape /\ Types /\ SideTypes
  BY TypeShape, TypesOf DEF IInv
<1>2. ThreadOK'
  BY <1>1, ThreadStep DEF IInv
<1>3. LockOK' /\ AloneOK' /\ RecvOK' /\ SendOK'
  BY <1>1, <1>2, LockStep, AloneStep, RecvStep, SendStep DEF IInv
<1>4. LiveOK' /\ CountOK' /\ ConnOK' /\ WaitOK'
  BY <1>1, <1>2, LiveStep, CountStep, ConnStep, WaitStep DEF IInv
<1>5. DataOK'
  BY <1>1, <1>2, DataStep DEF IInv
<1>6. Types' /\ SideTypes' /\ DataType'
  BY <1>1, TypesStep, SideTypesStep, DataTypeStep DEF IInv
<1>7. TypeOK'
  BY <1>2, <1>3, <1>4, <1>6, TypeStep DEF IInv
<1> QED BY <1>2, <1>3, <1>4, <1>5, <1>6, <1>7 DEF IInv

\* so it always holds
LEMMA Invariance == Spec => []IInv
BY Initially, Inductive, PTL DEF Spec

(***************************************************************************)
(* The theorems                                                            *)
(***************************************************************************)
\* The session a thread works on, waits for or releases exists; the map's
\* lookup finds it; one that is released is referred to by nobody else; and
\* none is lost, but where the accept thread's first WSARecv failed.
THEOREM SessionsLive == Spec => []SessionLife
<1>1. IInv => SessionLife
  <2> SUFFICES ASSUME IInv PROVE SessionLife
    OBVIOUS
  <2> USE DEF IInv
  <2>0. Shape
    BY TypeShape
  <2>1. \A t \in Threads : pc[t] \in {"find", "sendMap", "sendCs"} => cur[t] \in sessionMap
    <3> SUFFICES ASSUME NEW t \in Threads, pc[t] \in {"find", "sendMap", "sendCs"}
                 PROVE  cur[t] \in sessionMap
      OBVIOUS
    <3>1. t \in Workers /\ cur[t] # None
      BY <2>0 DEF ThreadOK, Threads, Shape
    <3>2. cur[t] \in live
      BY <2>0, <3>1 DEF LiveOK
    <3>3. pc[Acceptor] # "accept" => cur[Acceptor] # cur[t]
      BY <3>1 DEF AloneOK
    <3> QED BY <3>2, <3>3 DEF LiveOK
  <2>2. ASSUME NEW c \in Conns, At(c, ReleasePcs) # {}
        PROVE  References(c) = 0 /\ Cardinality(At(c, ReleasePcs)) = 1
    <3>1. PICK t \in Workers : cur[t] = c /\ pc[t] \in ReleasePcs
      BY <2>2 DEF At
    <3>2. /\ \A u \in Workers : cur[u] = c => u = t
          /\ recvIO[c] = "none" /\ sendIO[c] = "none"
      BY <2>0, <3>1 DEF AloneOK, Shape
    <3>3. At(c, RefPcs) = {}
      BY <3>1, <3>2 DEF At, RefPcs, HeldPcs, ReleasePcs
    <3>4. At(c, ReleasePcs) = {t}
      BY <3>1, <3>2 DEF At
    <3> QED BY <3>2, <3>3, <3>4, NoReference, FS_Singleton
  <2>3. ASSUME NEW c \in live
        PROVE  References(c) > 0 \/ At(c, ReleasePcs) # {} \/ cur[Acceptor] = c \/ firstFailed[c]
    <3>0. c \in Conns
      BY DEF TypeOK
    <3>a. References(c) > 0 \/ References(c) = 0
      BY <3>0, NoReference
    <3>1. SUFFICES ASSUME References(c) = 0, At(c, ReleasePcs) = {}, cur[Acceptor] # c
                   PROVE  firstFailed[c]
      BY <3>a, Zenon
    <3>2. At(c, RefPcs) = {} /\ recvIO[c] = "none" /\ sendIO[c] = "none"
      BY <3>0, <3>1, NoReference
    <3>3. \A t \in Workers : cur[t] = c => FALSE
      BY <2>0, <3>0, <3>1, <3>2 DEF At, ThreadOK, Shape
    <3> QED BY <3>1, <3>2, <3>3 DEF LiveOK, Threads
  <2> QED BY <2>1, <2>2, <2>3 DEF SessionLife, LiveOK
<1> QED BY <1>1, Invariance, PTL

\* Nobody holds the lock of a session that is released, and who looks for a
\* session under the map's lock owns the session's already: no two threads
\* wait for each other's locks.
THEOREM LocksInOrder == Spec => []NoLockCycle
<1>1. IInv => NoLockCycle
  <2> SUFFICES ASSUME IInv, NEW t \in Workers, pc[t] \in {"releaseCs", "sendCs"}
               PROVE  csOwner[cur[t]] \in {None, t}
    BY DEF NoLockCycle
  <2> USE DEF IInv
  <2>0. Shape /\ cur[t] \in Conns
    BY TypeShape DEF Shape, ThreadOK
  <2>1. CASE pc[t] = "sendCs"
    BY <2>0, <2>1 DEF LockOK, HeldPcs, Shape
  <2>2. CASE pc[t] = "releaseCs"
    <3>1. \A u \in Threads : cur[u] = cur[t] => u = t
      BY <2>2 DEF AloneOK, ReleasePcs
    <3>2. \A u \in Threads : csOwner[cur[t]] = u => u = t
      BY <2>0, <3>1 DEF LockOK
    <3>3. csOwner[cur[t]] \in Threads \cup {None}
      BY <2>0 DEF TypeOK
    <3> QED BY <3>2, <3>3
  <2> QED BY <2>1, <2>2
<1> QED BY <1>1, Invariance, PTL

\* While nobody holds the lock of a session whose connection works, what is in
\* its _sendBuf is being sent: the flag is up for a send that is out, or for a
\* completion that waits for the lock and will call SendPost.
THEOREM EchoesLeave == Spec => []EchoesGoOut
<1>1. IInv => EchoesGoOut
  <2> SUFFICES ASSUME IInv, NEW c \in live, csOwner[c] = None, sendBuf[c] # <<>>, conn[c] \in {"open", "fin"},
                      sendIO[c] = "none"
               PROVE  At(c, {"lockCs"}) # {}
    BY DEF EchoesGoOut
  <2> USE DEF IInv
  <2>0. Shape /\ c \in Conns
    BY TypeShape DEF TypeOK
  <2>1. PICK t \in Workers : cur[t] = c /\ (Flagging(t) \/ pc[t] = "sendPost")
    BY <2>0 DEF WaitOK
  <2>2. pc[t] \notin HeldPcs
    BY <2>0, <2>1 DEF LockOK, Shape
  <2>3. pc[t] = "lockCs"
    BY <2>1, <2>2 DEF Flagging, Done, HeldPcs
  <2> QED BY <2>1, <2>3 DEF At
<1> QED BY <1>1, Invariance, PTL

(***************************************************************************)
(* The promise to the clients                                              *)
(***************************************************************************)
St == [c \in Conns |-> CASE conn[c] = "new"    -> "new"
                         [] conn[c] = "closed" -> "gone"
                         [] OTHER              -> "served"]
Ending == [c \in Conns |-> conn[c] \in {"fin", "reset", "closed"}]
ServiceVars == <<St, Ending, arrived, echoed>>

\* what EchoService sees of a session
LEMMA ServiceOf ==
  /\ Service!Served = {c \in Conns : St[c] = "served"}
  /\ \A c \in Conns : conn[c] \in {"open", "fin", "reset"} => St[c] = "served"
  /\ \A c \in Conns : conn[c] = "new" => St[c] = "new"
  /\ \A c \in Conns : conn[c] = "closed" => St[c] = "gone"
BY DEF Service!Served, St

\* the clients leave, and the kernel delivers
LEMMA ServeOutside ==
  ASSUME IInv, OutsideStep
  PROVE  Service!Next \/ UNCHANGED ServiceVars
<1> USE DEF IInv
<1>0. conn \in [Conns -> {"new", "open", "fin", "reset", "closed"}]
      /\ arrived \in [Conns -> 0 .. MaxMsg]
  BY DEF TypeOK
<1>1. ASSUME NEW c \in Conns, ClientLeaves(c) PROVE Service!AskEnd(c)
  <2>1. c \in Service!Served
    BY <1>1, ServiceOf DEF ClientLeaves
  <2>2. St' = St
    BY <1>0, <1>1 DEF ClientLeaves, St
  <2>3. Ending' = [Ending EXCEPT ![c] = TRUE]
    BY <1>0, <1>1 DEF ClientLeaves, Ending
  <2> QED BY <1>1, <2>1, <2>2, <2>3 DEF Service!AskEnd, ClientLeaves, St, Ending
<1>2. ASSUME NEW c \in Conns, NEW k \in 1 .. MaxMsg, RecvArrives(c, k)
      PROVE  Service!Arrive(c, arrived'[c] - arrived[c])
  <2>1. c \in Service!Served
    BY <1>2, ServiceOf DEF RecvArrives
  <2>2. arrived' = [arrived EXCEPT ![c] = @ + k] /\ arrived[c] \in Nat /\ k \in Nat \ {0}
    BY <1>0, <1>2 DEF RecvArrives
  <2>3. arrived'[c] - arrived[c] = k
    BY <1>0, <2>2
  <2>4. conn' = conn /\ echoed' = echoed
    BY <1>2 DEF RecvArrives
  <2> QED BY <2>1, <2>2, <2>3, <2>4 DEF Service!Arrive
<1>3. ASSUME NEW c \in Conns, SendCompletes(c)
      PROVE  Service!Echo(c, Len(echoed'[c]) - Len(echoed[c])) \/ UNCHANGED ServiceVars
  <2> DEFINE n == Len(lent[c])
             e == echoed[c]
             b == sendBuf[c]
             run == [i \in 1 .. n |-> (1 + Len(e)) + i - 1]
  <2>1. e \in Seq(Int) /\ b \in Seq(Int) /\ n \in Nat /\ n <= Len(b) /\ Len(e) \in Nat
    BY DataNat DEF DataType, DataOK, Placed
  <2>2. Out(c) = 0
    BY <1>3, NothingOut DEF SendCompletes, SendOK, Flagging
  <2>3. \A i \in DOMAIN b : b[i] = Len(e) + i
    BY <2>1, <2>2 DEF DataOK, Placed, Dropped
  <2>4. SubSeq(b, 1, n) = run
    <3> HIDE DEF n, e, b
    <3> QED BY <2>1, <2>3
  <2>5. echoed' = [echoed EXCEPT ![c] = e \o run]
    BY <1>3, <2>4 DEF SendCompletes
  <2>6. Len(echoed'[c]) - Len(echoed[c]) = n
    <3>1. echoed'[c] = e \o run
      BY <2>5 DEF DataType
    <3>2. Len(e \o run) = Len(e) + n
      <4> HIDE DEF n, e
      <4> QED BY <2>1
    <3>3. echoed[c] = e
      OBVIOUS
    <3> HIDE DEF n, e, run
    <3> QED BY <2>1, <3>1, <3>2, <3>3
  <2>7. (1 + Len(e)) + n - 1 <= arrived[c]
    <3>1. Queued(c) = Len(e) + Len(b) /\ Queued(c) \in Int /\ Len(b) \in Nat
      BY <2>1, <2>2, DataNat DEF Queued, Dropped
    <3>3. arrived[c] \in Int
      BY <1>0, ConstantsAssumption
    <3>2. Queued(c) <= arrived[c]
      <4>1. CASE \E t \in Workers : cur[t] = c /\ Receiving(t)
        <5>1. PICK t \in Workers : cur[t] = c /\ Receiving(t)
          BY <4>1
        <5>2. Queued(c) + Behind(t) = arrived[c]
          BY <5>1 DEF DataOK, Counted
        <5>3. Behind(t) \in Nat
          BY ConstantsAssumption DEF Behind, TypeOK, Threads
        <5> HIDE DEF n, e, b, run
        <5> QED BY <3>1, <3>3, <5>2, <5>3
      <4>2. CASE \A t \in Workers : cur[t] = c => ~ Receiving(t)
        <5>1. Queued(c) + recvLen[c] = arrived[c]
          BY <4>2 DEF DataOK, Counted
        <5>2. recvLen[c] \in Nat
          BY ConstantsAssumption DEF TypeOK
        <5> HIDE DEF n, e, b, run
        <5> QED BY <3>1, <3>3, <5>1, <5>2
      <4> QED BY <4>1, <4>2
    <3> HIDE DEF n, e, b
    <3> QED BY <2>1, <3>1, <3>2, <3>3
  <2>8. c \in Service!Served
    BY <1>3, ServiceOf DEF SendCompletes
  <2>9. conn' = conn /\ arrived' = arrived
    BY <1>3 DEF SendCompletes
  <2>10. CASE n = 0
    <3>1. e \o run = e
      <4> HIDE DEF e
      <4> QED BY <2>1, <2>10
    <3>2. echoed' = echoed
      BY <2>5, <3>1 DEF DataType
    <3> QED BY <2>9, <3>2 DEF ServiceVars, St, Ending
  <2>11. CASE n # 0
    <3>1. Service!Echo(c, n)
      BY <2>1, <2>5, <2>7, <2>8, <2>9, <2>11 DEF Service!Echo
    <3> QED BY <2>6, <3>1
  <2> QED BY <2>10, <2>11
<1>4. ASSUME NEW c \in Conns, RecvEnds(c) \/ SendAborts(c) PROVE UNCHANGED ServiceVars
  BY <1>4 DEF RecvEnds, SendAborts, netVars, ServiceVars, St, Ending
<1>5. CASE Quit
  BY <1>5 DEF Quit, ServiceVars, St, Ending
<1> QED
  BY <1>1, <1>2, <1>3, <1>4, <1>5 DEF OutsideStep, KernelCompletes, Service!Next

\* a client is served
LEMMA ServeAccept ==
  ASSUME IInv, IsFiniteSet(Conns), NEW c \in Conns, Accept(c)
  PROVE  Service!Accept(c)
<1>0. conn \in [Conns -> {"new", "open", "fin", "reset", "closed"}]
  BY DEF IInv, TypeOK
<1>1. conn' = [conn EXCEPT ![c] = "open"] /\ conn[c] = "new" /\ arrived' = arrived
      /\ echoed' = echoed
  BY DEF Accept
<1>2. Service!Cardinality(Service!Served) < Cardinality(Conns)
  <2>1. Service!Served \in SUBSET (Conns \ {c})
    BY <1>1, ServiceOf
  <2>2. IsFiniteSet(Conns \ {c}) /\ Cardinality(Conns \ {c}) = Cardinality(Conns) - 1
        /\ Cardinality(Conns) \in Nat
    BY FS_RemoveElement, FS_CardinalityType
  <2>3. Cardinality(Service!Served) <= Cardinality(Conns \ {c})
        /\ Cardinality(Service!Served) \in Nat
    BY <2>1, <2>2, FS_Subset, FS_CardinalityType
  <2>4. Service!Cardinality(Service!Served) = Cardinality(Service!Served)
    BY Zenon DEF Service!Cardinality, Cardinality
  <2> QED BY <2>2, <2>3, <2>4
<1>3. St' = [St EXCEPT ![c] = "served"] /\ St[c] = "new"
  BY <1>0, <1>1 DEF St
<1>4. Ending' = Ending
  BY <1>0, <1>1 DEF Ending
<1> QED BY <1>1, <1>2, <1>3, <1>4, Zenon DEF Service!Accept, St, Ending

\* a session ends, and its client has left
LEMMA ServeEnd ==
  ASSUME IInv, NEW t \in Workers, ReleaseClose(t), NEW c \in Conns, cur[t] = c
  PROVE  Service!End(c)
<1> USE DEF IInv
<1>0. conn \in [Conns -> {"new", "open", "fin", "reset", "closed"}] /\ Shape
  BY TypeShape DEF TypeOK
<1>1. pc[t] = "releaseClose" /\ c \in Conns /\ c \in live
  BY <1>0 DEF ReleaseClose, ThreadOK, Shape, LiveOK
<1>2. /\ \A u \in Threads : cur[u] = c => u = t
      /\ recvIO[c] = "none" /\ sendIO[c] = "none"
  BY <1>1 DEF AloneOK, ReleasePcs
<1>3. conn[c] # "new" /\ conn[c] # "closed"
  BY <1>0, <1>1, <1>2 DEF LiveOK, ConnOK, Shape
<1>4. conn[c] # "open"
  BY <1>0, <1>1, <1>2 DEF ConnOK, Shape, Receiving, RecvPcs, PostPcs
<1>5. conn[c] \in {"fin", "reset"}
  BY <1>0, <1>1, <1>3, <1>4
<1>6. conn' = [conn EXCEPT ![c] = "closed"] /\ arrived' = arrived /\ echoed' = echoed
  BY DEF ReleaseClose
<1>7. c \in Service!Served
  BY <1>1, <1>5, ServiceOf
<1>8. St' = [St EXCEPT ![c] = "gone"]
  BY <1>0, <1>1, <1>6 DEF St
<1>9. Ending' = Ending
  BY <1>0, <1>1, <1>5, <1>6 DEF Ending
<1>10. Ending[c]
  BY <1>1, <1>5, Zenon DEF Ending
<1> QED BY <1>1, <1>6, <1>7, <1>8, <1>9, <1>10, Zenon DEF Service!End, St, Ending

\* everything else is between the threads
LEMMA ServeInside ==
  ASSUME Next, ~ OutsideStep, \A c \in Conns : ~ Accept(c), \A t \in Workers : ~ ReleaseClose(t)
  PROVE  UNCHANGED ServiceVars
<1>1. SUFFICES conn' = conn /\ arrived' = arrived /\ echoed' = echoed
  BY DEF ServiceVars, St, Ending
<1> USE DEF netVars
<1>2. ASSUME NEW t \in Workers, GoesOn(t)
      PROVE  conn' = conn /\ arrived' = arrived /\ echoed' = echoed
  <2>1. CASE LockSteps(t)
    BY <2>1 DEF LockSteps, LockSession, SendLockMap, SendLockSession, SendUnlock, UnlockSession
  <2>2. CASE BufSteps(t)
    BY <2>2 DEF BufSteps, SendDone, SendDoneLeaving, ProcessMessage, OnRecv, SendEnqueue
  <2>3. CASE SendSteps(t)
    BY <2>3 DEF SendSteps, SendPost, SendRef, WSASendPosted, WSASendFails
  <2>4. CASE RecvSteps(t)
    BY <2>4 DEF RecvSteps, RecvPost, WSARecvPosted, WSARecvFails, WSARecvFailsGiving
  <2> QED BY <1>2, <2>1, <2>2, <2>3, <2>4 DEF GoesOn
<1>3. ASSUME NEW t \in Workers, NEW c \in Conns, DequeueRecv(t, c) \/ DequeueSend(t, c)
      PROVE  conn' = conn /\ arrived' = arrived /\ echoed' = echoed
  BY <1>3 DEF DequeueRecv, DequeueSend
<1>4. ASSUME NEW t \in Workers, DequeueNull(t) \/ IODecrement(t) \/ Release(t)
      PROVE  conn' = conn /\ arrived' = arrived /\ echoed' = echoed
  BY <1>4 DEF DequeueNull, IODecrement, IODecrementAt, Release, ReleaseLockMap, ReleaseSync,
     ReleaseDelete
<1>5. CASE AcceptInsert \/ RecvSteps(Acceptor)
  BY <1>5 DEF AcceptInsert, RecvSteps, RecvPost, WSARecvPosted, WSARecvFails, WSARecvFailsGiving
<1> QED BY <1>2, <1>3, <1>4, <1>5, NextSplit

\* The first server serves its clients as EchoService promises: every message
\* is echoed once, in order and to who sent it, and no client is dropped that
\* did not leave.
THEOREM Serves == ASSUME IsFiniteSet(Conns) PROVE Spec => ServesEchoes
<1>1. Init => Service!Init
  <2> SUFFICES ASSUME Init PROVE Service!Init
    OBVIOUS
  <2>1. \A c \in Conns : conn[c] = "new"
    BY DEF Init
  <2>2. St = [c \in Conns |-> "new"]
    BY <2>1, Zenon DEF St
  <2>3. Ending = [c \in Conns |-> FALSE]
    <3>1. \A c \in Conns : (conn[c] \in {"fin", "reset", "closed"}) = FALSE
      BY <2>1
    <3> QED BY <3>1, Zenon DEF Ending
  <2> QED BY <2>2, <2>3 DEF Init, Service!Init, St, Ending
<1>2. IInv /\ Next => Service!Next \/ UNCHANGED ServiceVars
  <2> SUFFICES ASSUME IInv, Next PROVE Service!Next \/ UNCHANGED ServiceVars
    OBVIOUS
  <2>1. CASE OutsideStep
    BY <2>1, ServeOutside
  <2>2. ASSUME NEW c \in Conns, Accept(c) PROVE Service!Next
    BY <2>2, ServeAccept DEF Service!Next
  <2>3. ASSUME NEW t \in Workers, ReleaseClose(t) PROVE Service!Next
    <3>1. cur[t] \in Conns
      BY <2>3, TypeShape DEF IInv, Shape, ThreadOK, ReleaseClose
    <3>2. PICK c \in Conns : cur[t] = c
      BY <3>1
    <3>3. Service!End(c)
      BY <2>3, <3>2, ServeEnd
    <3> QED BY <3>3 DEF Service!Next
  <2> QED BY <2>1, <2>2, <2>3, ServeInside
<1>3. IInv /\ [Next]_vars => [Service!Next]_ServiceVars
  BY <1>2 DEF vars, netVars, ServiceVars, St, Ending
<1>4. ServiceVars = Service!vars
  BY DEF ServiceVars, Service!vars, St, Ending
<1>5. IInv /\ [Next]_vars => [Service!Next]_(Service!vars)
  BY <1>3 DEF ServiceVars, Service!vars, St, Ending
<1> QED BY <1>1, <1>5, Invariance, PTL DEF Spec, ServesEchoes, Service!Spec
=============================================================================
