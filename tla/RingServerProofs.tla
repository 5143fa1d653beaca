-------------------------- MODULE RingServerProofs --------------------------
(***************************************************************************)
(* Theorems about RingServer, for every number of workers, slots,          *)
(* connections and messages, and every window.  A DebugBreak ends the      *)
(* process in the middle of a step, so that what holds between the threads *)
(* is stated for a server that is still running.  The invariants of the    *)
(* second part (relative to Control) say what becomes of the packets of a  *)
(* session, where the ring has room for the echoes of two windows: each    *)
(* message is echoed once and in order, and no DebugBreak is reached.      *)
(***************************************************************************)
EXTENDS RingServer, FiniteSetTheorems, TLAPS

(***************************************************************************)
(* The inductive invariant: threads, slots and connections                 *)
(***************************************************************************)
\* where a thread refers to a slot; where it owns the receive side
SlotPcs == RefPcs \cup ReleasePcs
RecvPcs == {"onAccept", "loop", "recvPost", "wsaRecv"}
Receiving(t) == pc[t] \in RecvPcs \/ (pc[t] \in SendPcs /\ op[t] # "send")
\* nobody refers to the slot
Idle(s) == At(s, RefPcs) = {} /\ recvIO[s] = "none" /\ sendIO[s] = "none"

Shape ==
  /\ pc \in [Threads -> Pcs] /\ cur \in [Threads -> Sessions \cup Conns \cup {None}]
  /\ op \in [Threads -> {"none", "accept", "recv", "send"}]
  /\ scan \in Sessions
  /\ sock \in [Sessions -> Conns \cup {None}] /\ invalidFlag \in [Sessions -> {-1, 1}]
  /\ ioCount \in [Sessions -> Int] /\ sendFlag \in [Sessions -> {0, 1}]
  /\ recvIO \in [Sessions -> {"none", "posting", "pending", "done"}]
  /\ sendIO \in [Sessions -> {"none", "posting", "pending", "done", "aborted"}]
  /\ conn \in [Conns -> {"new", "open", "fin", "reset", "closed"}]
  /\ None \notin Sessions \cup Conns /\ Acceptor \in Threads
DataTypes ==
  /\ batch \in [Threads -> 0 .. MaxMsg]
  /\ sendCount \in [Sessions -> Nat] /\ recvLen \in [Sessions -> 0 .. MaxMsg]
  /\ sendBuf \in [Sessions -> Seq(Int)] /\ lent \in [Sessions -> Seq(Int)]
  /\ arrived \in [Conns -> 0 .. MaxMsg] /\ echoed \in [Conns -> Seq(Int)]
Types == TypeOK /\ DataTypes

LEMMA TypeShape == Types => Shape /\ DataTypes
BY ConstantsAssumption DEF Types, TypeOK, Shape, Threads

\* what a thread works on, and for what
CurOK ==
  /\ \A t \in Threads :
       /\ pc[t] \in SlotPcs => cur[t] \in Sessions /\ op[t] # "none"
       /\ pc[t] \in {"sendDone", "flagClear"} => op[t] = "send"
       /\ pc[t] = "loop" => op[t] = "recv"
       /\ pc[t] \in SlotPcs => (op[t] = "accept" <=> t = Acceptor)
       /\ pc[t] \in {"scan", "init", "onAccept", "accept"} => t = Acceptor
       /\ pc[t] = "gqcs" => t # Acceptor
  /\ pc[Acceptor] \in {"scan", "init"} =>
       cur[Acceptor] \in Conns /\ op[Acceptor] = "accept"

IOCountExact == \A s \in Sessions : ioCount[s] = References(s)

\* A slot is free, being set up, referred to, or being released, by one thread.
LifeOK ==
  /\ \A s \in Sessions :
       /\ invalidFlag[s] = -1 => Idle(s) /\ sock[s] = None /\ At(s, ReleasePcs) = {}
       /\ invalidFlag[s] = 1 => \/ ~Idle(s) \/ At(s, ReleasePcs) # {}
                                \/ pc[Acceptor] = "init" /\ scan = s
       /\ ~Idle(s) => sock[s] \in Conns
  /\ \A t, u \in Threads :
       pc[t] \in ReleasePcs /\ pc[u] \in ReleasePcs /\ cur[t] = cur[u] => t = u
  /\ \A t \in Threads : pc[t] \in ReleasePcs =>
       /\ Idle(cur[t])
       /\ IF pc[t] = "free" THEN sock[cur[t]] = None ELSE sock[cur[t]] \in Conns
  /\ pc[Acceptor] = "init" =>
       /\ invalidFlag[scan] = 1 /\ Idle(scan) /\ sock[scan] = None
       /\ At(scan, ReleasePcs) = {}
  /\ pc[Acceptor] = "scan" => \E r \in Sessions : r >= scan /\ invalidFlag[r] = -1

\* A connection has one slot, from the accept thread's search to closesocket,
\* and nothing was sent or received on it before.
OwnOK ==
  /\ \A s, r \in Sessions : sock[s] = sock[r] /\ sock[s] \in Conns => s = r
  /\ \A s \in Sessions : sock[s] \in Conns =>
       /\ conn[sock[s]] # "new"
       /\ conn[sock[s]] = "closed" <=> At(s, {"unsock"}) # {}
  /\ pc[Acceptor] \in {"scan", "init"} =>
       /\ conn[cur[Acceptor]] \notin {"new", "closed"}
       /\ arrived[cur[Acceptor]] = 0 /\ echoed[cur[Acceptor]] = <<>>
       /\ \A s \in Sessions : sock[s] # cur[Acceptor]
  /\ \A c \in Conns :
       /\ conn[c] = "new" => arrived[c] = 0 /\ echoed[c] = <<>>
       /\ conn[c] \notin {"new", "closed"} =>
            \/ \E s \in Sessions : sock[s] = c
            \/ pc[Acceptor] \in {"scan", "init"} /\ cur[Acceptor] = c

\* One thread receives, and no operation is outstanding meanwhile.
RecvOK ==
  /\ \A t, u \in Threads : Receiving(t) /\ Receiving(u) /\ cur[t] = cur[u] => t = u
  /\ \A t \in Threads : Receiving(t) =>
       recvIO[cur[t]] = IF pc[t] = "wsaRecv" THEN "posting" ELSE "none"
  /\ \A s \in Sessions : recvIO[s] # "done" => recvLen[s] = 0

\* The accept thread is alone with the session until it has the flag, and no
\* message comes before it has posted the first receive.
AloneOK ==
  /\ pc[Acceptor] \in {"onAccept", "size1", "xchg"} =>
       /\ At(cur[Acceptor], RefPcs) = {Acceptor}
       /\ sendIO[cur[Acceptor]] = "none" /\ sendFlag[cur[Acceptor]] = 0
  /\ Receiving(Acceptor) => arrived[sock[cur[Acceptor]]] = 0
  /\ pc[Acceptor] = "onAccept" =>
       /\ echoed[sock[cur[Acceptor]]] = <<>> /\ sendBuf[cur[Acceptor]] = <<>>
       /\ sendCount[cur[Acceptor]] = 0

Control == CurOK /\ IOCountExact /\ LifeOK /\ OwnOK /\ RecvOK /\ SendExclusive /\ AloneOK

(***************************************************************************)
(* Sets of threads                                                         *)
(***************************************************************************)
LEMMA ThreadSets ==
  ASSUME NEW A \in SUBSET Threads
  PROVE  IsFiniteSet(A) /\ Cardinality(A) \in Nat
<1>1. IsFiniteSet(Threads)
  BY ConstantsAssumption, FS_AddElement DEF Threads
<1> QED
  BY <1>1, FS_Subset, FS_CardinalityType

LEMMA AddThread ==
  ASSUME NEW A \in SUBSET Threads, NEW t \in Threads, t \notin A
  PROVE  Cardinality(A \cup {t}) = Cardinality(A) + 1
BY ThreadSets, FS_AddElement

LEMMA RemoveThread ==
  ASSUME NEW A \in SUBSET Threads, NEW t \in A
  PROVE  Cardinality(A \ {t}) = Cardinality(A) - 1
BY ThreadSets, FS_RemoveElement

\* nobody refers to an idle slot
LEMMA IdleCount ==
  ASSUME NEW s \in Sessions
  PROVE  Idle(s) <=> References(s) = 0
<1>1. At(s, RefPcs) \in SUBSET Threads /\ At(s, {"failDec"}) \in SUBSET At(s, RefPcs)
  BY DEF At, RefPcs, SendPcs
<1>2. /\ Cardinality(At(s, RefPcs)) \in Nat /\ Cardinality(At(s, {"failDec"})) \in Nat
      /\ Cardinality(At(s, RefPcs)) = 0 <=> At(s, RefPcs) = {}
      /\ Cardinality({}) = 0
  BY <1>1, ThreadSets, FS_EmptySet
<1>3. At(s, RefPcs) = {} => At(s, {"failDec"}) = {}
  BY <1>1
<1> QED
  BY <1>2, <1>3 DEF Idle, References, Busy

(***************************************************************************)
(* The steps, by what they do to the control state                         *)
(***************************************************************************)
\* thread t acts for the session it refers to
RecvStep(t) == RecvPost(t) \/ WSARecvPosted(t) \/ WSARecvFails(t)
HandleStep(t) ==
  \/ t = Acceptor /\ OnAccept
  \/ SendDone(t) \/ FlagClear(t) \/ ProcessMessage(t) \/ ProcessEnd(t)
HolderStep(t) == SendPost(t) \/ RecvStep(t) \/ HandleStep(t)

\* no thread moves
OutsideStep ==
  \/ \E c \in Conns : ClientLeaves(c)
  \/ \E s \in Sessions : KernelCompletes(s) \/ \E k \in 1 .. MaxMsg : RecvArrives(s, k)

LEMMA NextSplit ==
  ASSUME Next
  PROVE  \/ \E t \in Threads : HolderStep(t)
         \/ \E t \in Threads : IODecrement(t)
         \/ \E t \in Threads : Release(t)
         \/ \E t \in Threads, s \in Sessions : DequeueRecv(t, s)
         \/ \E t \in Threads, s \in Sessions : DequeueSend(t, s)
         \/ \E c \in Conns : Accept(c)
         \/ AcceptScan \/ InitSession
         \/ OutsideStep
<1>1. Workers \subseteq Threads /\ Acceptor \in Threads
  BY DEF Threads
<1> QED
  BY <1>1 DEF Next, WorkerStep, AcceptorStep, SessionStep, HolderStep, HandleStep, RecvStep,
              OutsideStep

\* t stays among the places that hold a reference, and touches no other session
LEMMA HolderFrame ==
  ASSUME Shape, DataTypes, NEW t \in Threads, HolderStep(t), Running'
  PROVE  /\ pc[t] \in RefPcs /\ pc'[t] \in RefPcs
         /\ \A u \in Threads : u # t => pc'[u] = pc[u] /\ batch'[u] = batch[u]
         /\ UNCHANGED <<cur, op, scan, sock, invalidFlag, conn, arrived, echoed, recvLen>>
         /\ \A s \in Sessions : s # cur[t] =>
              /\ recvIO'[s] = recvIO[s] /\ sendIO'[s] = sendIO[s]
              /\ ioCount'[s] = ioCount[s] /\ sendFlag'[s] = sendFlag[s]
              /\ sendCount'[s] = sendCount[s] /\ sendBuf'[s] = sendBuf[s] /\ lent'[s] = lent[s]
<1> USE DEF Shape, DataTypes, RefPcs, SendPcs, Goto, AfterSend, slotVars, sendVars, ioVars, netVars
<1>1. CASE SendSize1(t) \/ SendSize2(t) \/ SendXchg(t) \/ SendClear(t)
  BY <1>1 DEF SendSize1, SendSize2, SizeTest, SendXchg, SendXchgIf, SendClear
<1>2. CASE SendGather(t) \/ WSASendPosted(t) \/ WSASendFails(t)
  BY <1>2 DEF SendGather, WSASendPosted, WSASendFails
<1>3. CASE SendPrepare(t) \/ SendFailClear(t) \/ SendFailDec(t)
  BY <1>3 DEF SendPrepare, SendFailClear, SendFailDec, Running, BreakPcs
<1>4. CASE RecvStep(t)
  BY <1>4 DEF RecvStep, RecvPost, WSARecvPosted, WSARecvFails, WSARecvFailsGiving, Running, BreakPcs
<1>5. CASE SendDone(t) \/ FlagClear(t) \/ ProcessEnd(t)
  BY <1>5 DEF SendDone, SendDoneLeaving, FlagClear, ProcessEnd, Running, BreakPcs
<1>6. CASE ProcessMessage(t) \/ (t = Acceptor /\ OnAccept)
  BY <1>6, SMTT(30) DEF ProcessMessage, OnAccept, SendPacket, Running, BreakPcs
<1> QED
  BY <1>1, <1>2, <1>3, <1>4, <1>5, <1>6 DEF HolderStep, SendPost, HandleStep

\* outside steps move no thread; an operation leaves the state "pending" at most
LEMMA OutsideFrame ==
  ASSUME Shape, DataTypes, OutsideStep
  PROVE  /\ UNCHANGED <<pc, cur, op, batch, scan, sock, invalidFlag, ioCount, sendFlag,
                        sendCount, sendBuf, lent>>
         /\ \A s \in Sessions :
              /\ recvIO'[s] = recvIO[s] \/ (recvIO[s] = "pending" /\ recvIO'[s] = "done")
              /\ \/ sendIO'[s] = sendIO[s]
                 \/ sendIO[s] = "pending" /\ sendIO'[s] \in {"done", "aborted"}
<1> USE DEF Shape, threadVars, slotVars, sendVars, ioVars, netVars
<1>1. CASE \E c \in Conns : ClientLeaves(c)
  BY <1>1 DEF ClientLeaves
<1>2. CASE \E s \in Sessions : KernelCompletes(s)
  BY <1>2 DEF KernelCompletes, RecvEnds, SendCompletes, SendAborts
<1>3. CASE \E s \in Sessions : \E k \in 1 .. MaxMsg : RecvArrives(s, k)
  BY <1>3 DEF RecvArrives
<1> QED
  BY <1>1, <1>2, <1>3 DEF OutsideStep

(***************************************************************************)
(* Types                                                                   *)
(***************************************************************************)
\* a thread that holds a reference acts for a connection, and the count is not zero
LEMMA Held ==
  ASSUME Shape, Control, NEW t \in Threads, pc[t] \in RefPcs
  PROVE  /\ cur[t] \in Sessions /\ sock[cur[t]] \in Conns /\ ~Idle(cur[t])
         /\ ioCount[cur[t]] > 0 /\ invalidFlag[cur[t]] = 1
<1>1. cur[t] \in Sessions
  BY DEF Control, CurOK, SlotPcs
<1>2. ~Idle(cur[t])
  BY DEF Idle, At
<1>3. sock[cur[t]] \in Conns /\ invalidFlag[cur[t]] = 1
  BY <1>1, <1>2 DEF Shape, Control, LifeOK
<1>4. At(cur[t], RefPcs) \in SUBSET Threads /\ At(cur[t], {"failDec"}) \in SUBSET Threads
  BY DEF At
<1>5. Cardinality(At(cur[t], RefPcs)) \in Nat /\ Cardinality(At(cur[t], {"failDec"})) \in Nat
  BY <1>4, ThreadSets
<1>6. References(cur[t]) \in Nat /\ References(cur[t]) # 0
  <2>1. References(cur[t]) # 0
    BY <1>1, <1>2, IdleCount
  <2>2. \A io : Busy(io) \in Nat
    BY DEF Busy
  <2> QED
    BY <1>5, <2>1, <2>2 DEF References
<1> QED
  BY <1>1, <1>2, <1>3, <1>6 DEF Control, IOCountExact

ThreadTypes ==
  /\ pc \in [Threads -> Pcs] /\ cur \in [Threads -> Sessions \cup Conns \cup {None}]
  /\ op \in [Threads -> {"none", "accept", "recv", "send"}]
  /\ batch \in [Threads -> 0 .. MaxMsg] /\ scan \in Sessions
SlotTypes ==
  /\ sock \in [Sessions -> Conns \cup {None}] /\ invalidFlag \in [Sessions -> {-1, 1}]
  /\ ioCount \in [Sessions -> Nat] /\ sendFlag \in [Sessions -> {0, 1}]
  /\ sendCount \in [Sessions -> Nat]
BufTypes ==
  /\ sendBuf \in [Sessions -> Seq(Int)] /\ lent \in [Sessions -> Seq(Int)]
  /\ \A s \in Sessions : Len(sendBuf[s]) <= RingMax
IOTypes ==
  /\ recvIO \in [Sessions -> {"none", "posting", "pending", "done"}]
  /\ sendIO \in [Sessions -> {"none", "posting", "pending", "done", "aborted"}]
  /\ recvLen \in [Sessions -> 0 .. MaxMsg]
NetTypes ==
  /\ conn \in [Conns -> {"new", "open", "fin", "reset", "closed"}]
  /\ arrived \in [Conns -> 0 .. MaxMsg] /\ echoed \in [Conns -> Seq(Int)]

LEMMA TypeParts ==
  /\ Types <=> ThreadTypes /\ SlotTypes /\ BufTypes /\ IOTypes /\ NetTypes
  /\ Types' <=> ThreadTypes' /\ SlotTypes' /\ BufTypes' /\ IOTypes' /\ NetTypes'
BY DEF Types, TypeOK, DataTypes, ThreadTypes, SlotTypes, BufTypes, IOTypes, NetTypes

LEMMA ThreadTypesStep ==
  ASSUME Types, Control, Next
  PROVE  ThreadTypes'
<1>0. ThreadTypes /\ Shape
  BY TypeParts, TypeShape
<1>a. /\ {"recvPost", "loop", "ioDec", "size1", "xchg", "size2", "clear", "gather", "post",
          "wsaSend", "failClear", "failDec", "wsaRecv", "flagClear", "sendDone", "drain", "close",
          "unsock", "free", "accept", "gqcs", "init", "onAccept", "scan"} \subseteq Pcs
      /\ {"breakSlots", "breakSock", "breakFull", "breakCount", "breakEmpty"} \subseteq Pcs
  BY DEF Pcs, RefPcs, SendPcs, ReleasePcs, BreakPcs
<1> USE <1>0, <1>a DEF ThreadTypes, Goto, threadVars
<1>1. ASSUME NEW t \in Threads, HolderStep(t) PROVE ThreadTypes'
  <2>1. UNCHANGED <<cur, op, scan>> /\ batch' \in [Threads -> 0 .. MaxMsg]
    <3>1. CASE SendPost(t)
      BY <3>1 DEF SendPost, SendSize1, SendSize2, SizeTest, SendXchg, SendXchgIf, SendClear,
         SendGather, SendPrepare, WSASendPosted, WSASendFails, SendFailClear, SendFailDec
    <3>2. CASE RecvStep(t)
      BY <3>2 DEF RecvStep, RecvPost, WSARecvPosted, WSARecvFails, WSARecvFailsGiving
    <3>3. CASE HandleStep(t) /\ ~ProcessMessage(t)
      BY <3>3 DEF HandleStep, SendDone, SendDoneLeaving, FlagClear, ProcessEnd, OnAccept
    <3>4. CASE ProcessMessage(t)
      <4>1. batch[t] \in 0 .. MaxMsg /\ batch[t] > 0 /\ batch' = [batch EXCEPT ![t] = batch[t] - 1]
            /\ UNCHANGED <<cur, op, scan>>
        BY <3>4 DEF ProcessMessage
      <4>2. batch[t] - 1 \in 0 .. MaxMsg
        BY <4>1, ConstantsAssumption
      <4> QED
        BY <4>1, <4>2
    <3> QED
      BY <1>1, <3>1, <3>2, <3>3, <3>4 DEF HolderStep
  <2>2. PICK l \in Pcs : pc' = [pc EXCEPT ![t] = l]
    <3>1. AfterSend(t) \in Pcs
      BY DEF AfterSend
    <3>2. CASE SendPost(t)
      BY <3>1, <3>2 DEF SendPost, SendSize1, SendSize2, SizeTest, SendXchg, SendXchgIf, SendClear,
         SendGather, SendPrepare, WSASendPosted, WSASendFails, SendFailClear, SendFailDec
    <3>3. CASE RecvStep(t)
      BY <3>3 DEF RecvStep, RecvPost, WSARecvPosted, WSARecvFails, WSARecvFailsGiving
    <3>4. CASE HandleStep(t)
      BY <3>4 DEF HandleStep, SendDone, SendDoneLeaving, FlagClear, ProcessEnd, OnAccept,
         ProcessMessage, SendPacket
    <3> QED
      BY <1>1, <3>2, <3>3, <3>4 DEF HolderStep
  <2> QED
    BY <2>1, <2>2
<1>2. ASSUME NEW t \in Threads, IODecrement(t) \/ Release(t) PROVE ThreadTypes'
  <2>1. UNCHANGED <<batch, scan>>
    BY <1>2 DEF IODecrement, Release, ReleaseDrain, ReleaseClose, ReleaseUnsock, ReleaseFree,
       FreeSlot
  <2>2. PICK l \in Pcs : pc' = [pc EXCEPT ![t] = l]
    BY <1>2 DEF IODecrement, Release, ReleaseDrain, ReleaseClose, ReleaseUnsock, ReleaseFree,
       GoHome
  <2>3. /\ cur' = cur \/ cur' = [cur EXCEPT ![t] = None]
        /\ op' = op \/ op' = [op EXCEPT ![t] = "none"]
    BY <1>2 DEF IODecrement, Release, ReleaseDrain, ReleaseClose, ReleaseUnsock, ReleaseFree,
       GoHome
  <2> QED
    BY <2>1, <2>2, <2>3
<1>3. ASSUME NEW t \in Threads, NEW s \in Sessions, DequeueRecv(t, s) \/ DequeueSend(t, s)
      PROVE  ThreadTypes'
  <2>1. recvLen[s] \in 0 .. MaxMsg
    BY TypeParts DEF IOTypes
  <2>2. PICK l \in Pcs : pc' = [pc EXCEPT ![t] = l]
    BY <1>3 DEF DequeueRecv, DequeueSend
  <2>3. \E n \in 0 .. MaxMsg : batch' = [batch EXCEPT ![t] = n]
    <3>1. DequeueSend(t, s) => batch' = [batch EXCEPT ![t] = batch[t]] /\ batch[t] \in 0 .. MaxMsg
      BY DEF DequeueSend
    <3> QED
      BY <1>3, <2>1, <3>1 DEF DequeueRecv
  <2>4. cur' = [cur EXCEPT ![t] = s] /\ UNCHANGED scan
        /\ \E o \in {"recv", "send"} : op' = [op EXCEPT ![t] = o]
    BY <1>3 DEF DequeueRecv, DequeueSend
  <2> QED
    BY <2>2, <2>3, <2>4
<1>4. ASSUME NEW c \in Conns, Accept(c) PROVE ThreadTypes'
  BY <1>4, ConstantsAssumption DEF Accept, Shape, Sessions
<1>5. CASE AcceptScan
  <2>1. scan # SessionMax - 1 => scan + 1 \in Sessions
    BY ConstantsAssumption DEF Sessions
  <2> QED
    BY <1>5, <2>1 DEF AcceptScan, Shape
<1>6. CASE InitSession
  BY <1>6 DEF InitSession, Shape
<1>7. CASE OutsideStep
  BY <1>7, OutsideFrame, TypeShape
<1> QED
  BY <1>1, <1>2, <1>3, <1>4, <1>5, <1>6, <1>7, NextSplit

LEMMA SlotTypesStep ==
  ASSUME Types, Control, Next
  PROVE  SlotTypes'
<1>0. SlotTypes /\ Shape /\ BufTypes
  BY TypeParts, TypeShape
<1> USE <1>0 DEF SlotTypes, slotVars, sendVars
<1>1. ASSUME NEW t \in Threads, HolderStep(t) PROVE SlotTypes'
  <2>1. SendSize1(t) \/ SendSize2(t) \/ SendXchg(t) \/ SendClear(t) => SlotTypes'
    BY DEF SendSize1, SendSize2, SizeTest, SendXchg, SendXchgIf, SendClear
  <2>2. SendGather(t) \/ WSASendPosted(t) \/ WSASendFails(t) \/ SendFailClear(t) => SlotTypes'
    BY DEF SendGather, WSASendPosted, WSASendFails, SendFailClear
  <2>3. ASSUME SendPrepare(t) PROVE SlotTypes'
    <3> DEFINE m == Len(lent[cur[t]])
    <3>1. cur[t] \in Sessions
      BY <2>3, Held DEF SendPrepare, RefPcs, SendPcs
    <3>2. m \in Nat
      BY <3>1 DEF BufTypes
    <3>3. sendCount' = sendCount \/ sendCount' = [sendCount EXCEPT ![cur[t]] = @ + m]
      BY <2>3 DEF SendPrepare
    <3>4. ioCount' = [ioCount EXCEPT ![cur[t]] = @ + 1] /\ UNCHANGED <<slotVars, sendFlag>>
      BY <2>3 DEF SendPrepare
    <3> HIDE DEF m
    <3> QED
      BY <3>1, <3>2, <3>3, <3>4
  <2>4. ASSUME SendFailDec(t) \/ WSARecvFails(t) PROVE SlotTypes'
    <3>1. ioCount[cur[t]] > 0 /\ cur[t] \in Sessions
      BY <2>4, Held DEF SendFailDec, WSARecvFails, WSARecvFailsGiving, RefPcs, SendPcs
    <3> QED
      BY <2>4, <3>1 DEF SendFailDec, WSARecvFails, WSARecvFailsGiving
  <2>5. RecvPost(t) \/ WSARecvPosted(t) \/ FlagClear(t) \/ ProcessEnd(t) => SlotTypes'
    BY DEF RecvPost, WSARecvPosted, FlagClear, ProcessEnd
  <2>6. SendDone(t) \/ ProcessMessage(t) \/ OnAccept => SlotTypes'
    BY DEF SendDone, SendDoneLeaving, ProcessMessage, OnAccept
  <2> QED
    BY <1>1, <2>1, <2>2, <2>3, <2>4, <2>5, <2>6 DEF HolderStep, SendPost, RecvStep, HandleStep
<1>2. ASSUME NEW t \in Threads, IODecrement(t) PROVE SlotTypes'
  <2>1. ioCount[cur[t]] > 0 /\ cur[t] \in Sessions
    BY <1>2, Held DEF IODecrement, RefPcs, SendPcs
  <2> QED
    BY <1>2, <2>1 DEF IODecrement
<1>3. ASSUME NEW t \in Threads, Release(t) PROVE SlotTypes'
  BY <1>3 DEF Release, ReleaseDrain, ReleaseClose, ReleaseUnsock, ReleaseFree, FreeSlot
<1>4. ASSUME NEW t \in Threads, NEW s \in Sessions, DequeueRecv(t, s) \/ DequeueSend(t, s)
      PROVE  SlotTypes'
  BY <1>4 DEF DequeueRecv, DequeueSend
<1>5. ASSUME NEW c \in Conns, Accept(c) PROVE SlotTypes'
  BY <1>5 DEF Accept
<1>6. CASE AcceptScan
  BY <1>6 DEF AcceptScan
<1>7. CASE InitSession
  <2>1. cur[Acceptor] \in Conns /\ scan \in Sessions
    BY <1>7 DEF InitSession, Control, CurOK, Shape
  <2> QED
    BY <1>7, <2>1 DEF InitSession
<1>8. CASE OutsideStep
  BY <1>8, OutsideFrame, TypeShape
<1> QED
  BY <1>1, <1>2, <1>3, <1>4, <1>5, <1>6, <1>7, <1>8, NextSplit

LEMMA BufTypesStep ==
  ASSUME Types, Control, Next
  PROVE  BufTypes'
<1>0. BufTypes /\ Shape /\ DataTypes
  BY TypeParts, TypeShape
<1>a. <<>> \in Seq(Int) /\ Len(<<>>) = 0 /\ RingMax \in Nat
      /\ \A q \in Seq(Int) : Len(q) \in Nat
  BY ConstantsAssumption
\* the ring of one session changes
<1>b. ASSUME NEW s \in Sessions, NEW q \in Seq(Int), Len(q) <= RingMax,
             sendBuf' = [sendBuf EXCEPT ![s] = q], UNCHANGED lent
      PROVE  BufTypes'
  BY <1>0, <1>b DEF BufTypes
<1> USE <1>0 DEF BufTypes, sendVars, ioVars
<1>1. ASSUME NEW t \in Threads, SendPost(t) PROVE BufTypes'
  BY <1>1, <1>a DEF SendPost, SendSize1, SendSize2, SizeTest, SendXchg, SendXchgIf, SendClear,
     SendGather, SendPrepare, WSASendPosted, WSASendFails, SendFailClear, SendFailDec
<1>2. ASSUME NEW t \in Threads, RecvStep(t) \/ FlagClear(t) \/ ProcessEnd(t) \/ IODecrement(t)
      PROVE  BufTypes'
  BY <1>2 DEF RecvStep, RecvPost, WSARecvPosted, WSARecvFails, WSARecvFailsGiving, FlagClear,
     ProcessEnd, IODecrement
<1>3. ASSUME NEW t \in Threads, SendDone(t) PROVE BufTypes'
  <2> DEFINE s == cur[t]
             q == SubSeq(sendBuf[s], sendCount[s] + 1, Len(sendBuf[s]))
  <2>1. s \in Sessions
    BY <1>3, Held DEF SendDone, SendDoneLeaving, RefPcs
  <2>2. sendBuf[s] \in Seq(Int) /\ sendCount[s] \in Nat /\ Len(sendBuf[s]) \in Nat
        /\ Len(sendBuf[s]) <= RingMax
    BY <1>a, <2>1 DEF DataTypes
  <2>3. \A r \in Seq(Int), m \in Nat :
          /\ SubSeq(r, m + 1, Len(r)) \in Seq(Int) /\ Len(SubSeq(r, m + 1, Len(r))) <= Len(r)
    OBVIOUS
  <2>4. q \in Seq(Int) /\ Len(q) <= Len(sendBuf[s])
    BY <2>2, <2>3
  <2>5. sendBuf' = [sendBuf EXCEPT ![s] = SubSeq(@, sendCount[s] + 1 - 0, Len(@))] /\ UNCHANGED lent
    BY <1>3 DEF SendDone, SendDoneLeaving
  <2>6. sendCount[s] + 1 - 0 = sendCount[s] + 1
    BY <2>2
  <2>7. sendBuf' = [sendBuf EXCEPT ![s] = q]
    BY <2>5, <2>6
  <2>8. Len(q) <= RingMax
    <3>1. Len(q) \in Nat
      BY <1>a, <2>4
    <3> HIDE DEF q
    <3> QED
      BY <1>a, <2>2, <2>4, <3>1
  <2> HIDE DEF q
  <2> QED
    BY <1>b, <2>1, <2>4, <2>5, <2>7, <2>8
<1>4. ASSUME NEW t \in Threads, NEW x \in Int, SendPacket(t, x), pc[t] \in RefPcs, UNCHANGED lent
      PROVE  BufTypes'
  <2> DEFINE s == cur[t]
             q == Append(sendBuf[s], x)
  <2>1. s \in Sessions
    BY <1>4, Held
  <2>2. sendBuf[s] \in Seq(Int) /\ Len(sendBuf[s]) \in Nat /\ Len(sendBuf[s]) <= RingMax
    BY <1>a, <2>1
  <2>3. q \in Seq(Int) /\ Len(q) = Len(sendBuf[s]) + 1
    BY <2>2
  <2>4. CASE Len(sendBuf[s]) = RingMax
    BY <1>4, <2>4 DEF SendPacket
  <2>5. CASE Len(sendBuf[s]) # RingMax
    <3>1. sendBuf' = [sendBuf EXCEPT ![s] = q]
      BY <1>4, <2>5 DEF SendPacket
    <3>2. Len(q) <= RingMax
      BY <1>a, <2>2, <2>3, <2>5
    <3> HIDE DEF q
    <3> QED
      BY <1>b, <1>4, <2>1, <2>3, <3>1, <3>2
  <2> QED
    BY <2>4, <2>5
<1>5. ASSUME OnAccept PROVE BufTypes'
  BY <1>4, <1>5 DEF OnAccept, RefPcs, Shape
<1>6. ASSUME NEW t \in Threads, ProcessMessage(t) PROVE BufTypes'
  <2>1. cur[t] \in Sessions /\ sock[cur[t]] \in Conns
    BY <1>6, Held DEF ProcessMessage, RefPcs
  <2>2. arrived[sock[cur[t]]] - batch[t] + 1 \in Int
    BY <2>1, ConstantsAssumption DEF DataTypes
  <2> QED
    BY <1>4, <1>6, <2>2 DEF ProcessMessage, RefPcs
<1>7. ASSUME NEW t \in Threads, Release(t) PROVE BufTypes'
  <2>1. CASE ReleaseDrain(t)
    <3>1. cur[t] \in Sessions
      BY <2>1 DEF ReleaseDrain, Control, CurOK, SlotPcs, ReleasePcs
    <3>2. sendBuf' = [sendBuf EXCEPT ![cur[t]] = <<>>] /\ UNCHANGED lent
      BY <2>1 DEF ReleaseDrain
    <3> QED
      BY <1>a, <1>b, <3>1, <3>2
  <2>2. CASE ReleaseClose(t) \/ ReleaseUnsock(t) \/ ReleaseFree(t)
    BY <2>2 DEF ReleaseClose, ReleaseUnsock, ReleaseFree, FreeSlot
  <2> QED
    BY <1>7, <2>1, <2>2 DEF Release
<1>8. ASSUME NEW t \in Threads, NEW s \in Sessions, DequeueRecv(t, s) \/ DequeueSend(t, s)
      PROVE  BufTypes'
  BY <1>a, <1>8 DEF DequeueRecv, DequeueSend
<1>9. ASSUME NEW c \in Conns, Accept(c) PROVE BufTypes'
  BY <1>9 DEF Accept
<1>10. CASE AcceptScan
  BY <1>10 DEF AcceptScan
<1>11. CASE InitSession
  <2>1. sendBuf' = [sendBuf EXCEPT ![scan] = <<>>] /\ UNCHANGED lent
    BY <1>11 DEF InitSession
  <2>2. scan \in Sessions
    BY DEF Shape
  <2> QED
    BY <1>a, <1>b, <2>1, <2>2
<1>12. CASE OutsideStep
  BY <1>12, OutsideFrame
<1> QED
  BY <1>1, <1>2, <1>3, <1>5, <1>6, <1>7, <1>8, <1>9, <1>10, <1>11, <1>12, NextSplit
     DEF HolderStep, HandleStep

LEMMA IOTypesStep ==
  ASSUME Types, Control, Next
  PROVE  IOTypes'
<1>0. IOTypes /\ Shape
  BY TypeParts, TypeShape
<1> USE <1>0 DEF IOTypes, ioVars
<1>1. ASSUME NEW t \in Threads, SendPost(t) PROVE IOTypes'
  BY <1>1 DEF SendPost, SendSize1, SendSize2, SizeTest, SendXchg, SendXchgIf, SendClear,
     SendGather, SendPrepare, WSASendPosted, WSASendFails, SendFailClear, SendFailDec
<1>2. ASSUME NEW t \in Threads, RecvStep(t) PROVE IOTypes'
  BY <1>2 DEF RecvStep, RecvPost, WSARecvPosted, WSARecvFails, WSARecvFailsGiving
<1>3. ASSUME NEW t \in Threads, HandleStep(t) \/ IODecrement(t) \/ Release(t) PROVE IOTypes'
  BY <1>3 DEF HandleStep, OnAccept, SendDone, SendDoneLeaving, FlagClear, ProcessMessage,
     ProcessEnd, IODecrement, Release, ReleaseDrain, ReleaseClose, ReleaseUnsock, ReleaseFree,
     FreeSlot
<1>4. ASSUME NEW t \in Threads, NEW s \in Sessions, DequeueRecv(t, s) \/ DequeueSend(t, s)
      PROVE  IOTypes'
  <2>1. 0 \in 0 .. MaxMsg
    BY ConstantsAssumption
  <2> QED
    BY <1>4, <2>1 DEF DequeueRecv, DequeueSend
<1>5. CASE (\E c \in Conns : Accept(c)) \/ AcceptScan \/ InitSession
  BY <1>5 DEF Accept, AcceptScan, InitSession
<1>6. ASSUME NEW c \in Conns, ClientLeaves(c) PROVE IOTypes'
  BY <1>6 DEF ClientLeaves
<1>7. ASSUME NEW s \in Sessions, KernelCompletes(s) PROVE IOTypes'
  BY <1>7 DEF KernelCompletes, RecvEnds, SendCompletes, SendAborts
<1>8. ASSUME NEW s \in Sessions, NEW k \in 1 .. MaxMsg, RecvArrives(s, k) PROVE IOTypes'
  BY <1>8, ConstantsAssumption DEF RecvArrives
<1> QED
  BY <1>1, <1>2, <1>3, <1>4, <1>5, <1>6, <1>7, <1>8, NextSplit DEF HolderStep, OutsideStep

\* what only the clients and the kernel change
LEMMA NetFrame ==
  ASSUME Shape, Next, ~OutsideStep
  PROVE  UNCHANGED <<arrived, echoed>>
<1> USE DEF netVars
<1>1. ASSUME NEW t \in Threads, HolderStep(t) PROVE UNCHANGED <<arrived, echoed>>
  BY <1>1 DEF HolderStep, SendPost, SendSize1, SendSize2, SizeTest, SendXchg, SendXchgIf,
     SendClear, SendGather, SendPrepare, WSASendPosted, WSASendFails, SendFailClear, SendFailDec,
     RecvStep, RecvPost, WSARecvPosted, WSARecvFails, WSARecvFailsGiving,
     HandleStep, OnAccept, SendDone, SendDoneLeaving, FlagClear, ProcessMessage, ProcessEnd
<1>2. ASSUME NEW t \in Threads, IODecrement(t) \/ Release(t) PROVE UNCHANGED <<arrived, echoed>>
  BY <1>2 DEF IODecrement, Release, ReleaseDrain, ReleaseClose, ReleaseUnsock, ReleaseFree, FreeSlot
<1>3. ASSUME NEW t \in Threads, NEW s \in Sessions, DequeueRecv(t, s) \/ DequeueSend(t, s)
      PROVE  UNCHANGED <<arrived, echoed>>
  BY <1>3 DEF DequeueRecv, DequeueSend
<1>4. CASE (\E c \in Conns : Accept(c)) \/ AcceptScan \/ InitSession
  BY <1>4 DEF Accept, AcceptScan, InitSession
<1> QED
  BY <1>1, <1>2, <1>3, <1>4, NextSplit

\* the packets a send delivers
Out(s) == [i \in DOMAIN lent[s] |->
            IF lent[s][i] \in Seqs!ToSet(sendBuf[s]) THEN lent[s][i] ELSE Garbage]

LEMMA OutType ==
  ASSUME DataTypes, NEW s \in Sessions
  PROVE  Out(s) \in Seq(Int) /\ Len(Out(s)) = Len(lent[s])
<1>1. lent[s] \in Seq(Int) /\ Len(lent[s]) \in Nat /\ DOMAIN lent[s] = 1 .. Len(lent[s])
  BY DEF DataTypes
<1>2. \A i \in 1 .. Len(lent[s]) : lent[s][i] \in Int
  BY <1>1
<1>3. Garbage \in Int
  BY DEF Garbage
<1>4. Out(s) \in [1 .. Len(lent[s]) -> Int]
  BY <1>1, <1>2, <1>3 DEF Out
<1> QED
  BY <1>1, <1>4

LEMMA NetTypesStep ==
  ASSUME Types, Control, Next
  PROVE  NetTypes'
<1>0. NetTypes /\ Shape /\ DataTypes
  BY TypeParts, TypeShape
<1> USE <1>0 DEF NetTypes
<1>1. CASE ~OutsideStep
  <2>1. UNCHANGED <<arrived, echoed>>
    BY <1>1, NetFrame
  <2>2. conn' \in [Conns -> {"new", "open", "fin", "reset", "closed"}]
    <3> USE DEF netVars
    <3>1. ASSUME NEW t \in Threads, HolderStep(t) PROVE UNCHANGED conn
      BY <3>1 DEF HolderStep, SendPost, SendSize1, SendSize2, SizeTest, SendXchg, SendXchgIf,
         SendClear, SendGather, SendPrepare, WSASendPosted, WSASendFails, SendFailClear,
         SendFailDec, RecvStep, RecvPost, WSARecvPosted, WSARecvFails, WSARecvFailsGiving,
         HandleStep, OnAccept, SendDone, SendDoneLeaving, FlagClear, ProcessMessage, ProcessEnd
    <3>2. ASSUME NEW t \in Threads, IODecrement(t) \/ Release(t)
          PROVE  \/ UNCHANGED conn
                 \/ conn' = [conn EXCEPT ![sock[cur[t]]] = "closed"]
      BY <3>2 DEF IODecrement, Release, ReleaseDrain, ReleaseClose, ReleaseUnsock, ReleaseFree,
         FreeSlot
    <3>3. ASSUME NEW t \in Threads, NEW s \in Sessions, DequeueRecv(t, s) \/ DequeueSend(t, s)
          PROVE  UNCHANGED conn
      BY <3>3 DEF DequeueRecv, DequeueSend
    <3>4. CASE AcceptScan \/ InitSession
      BY <3>4 DEF AcceptScan, InitSession
    <3>5. ASSUME NEW c \in Conns, Accept(c) PROVE conn' = [conn EXCEPT ![c] = "open"]
      BY <3>5 DEF Accept
    <3> QED
      BY <1>1, <3>1, <3>2, <3>3, <3>4, <3>5, NextSplit
  <2> QED
    BY <2>1, <2>2
<1>2. ASSUME NEW c \in Conns, ClientLeaves(c) PROVE NetTypes'
  BY <1>2 DEF ClientLeaves
<1>3. ASSUME NEW s \in Sessions, RecvEnds(s) \/ SendAborts(s) PROVE NetTypes'
  BY <1>3 DEF RecvEnds, SendAborts, netVars
<1>4. ASSUME NEW s \in Sessions, NEW k \in 1 .. MaxMsg, RecvArrives(s, k) PROVE NetTypes'
  <2> DEFINE c == sock[s]
             m == arrived[c] + k
  <2>1. /\ UNCHANGED <<conn, echoed>> /\ arrived' = [arrived EXCEPT ![c] = m]
        /\ m <= MaxMsg
    BY <1>4 DEF RecvArrives
  <2>2. c \in Conns
    BY <1>4 DEF RecvArrives, Control, LifeOK, Idle
  <2>3. arrived[c] \in 0 .. MaxMsg
    BY <2>2
  <2>4. m \in 0 .. MaxMsg
    BY <2>1, <2>3, ConstantsAssumption
  <2> HIDE DEF m
  <2> QED
    BY <2>1, <2>4
<1>5. ASSUME NEW s \in Sessions, SendCompletes(s) PROVE NetTypes'
  <2>1. UNCHANGED <<conn, arrived>> /\ echoed' = [echoed EXCEPT ![sock[s]] = @ \o Out(s)]
    BY <1>5 DEF SendCompletes, Out
  <2>2. Out(s) \in Seq(Int)
    BY OutType
  <2>3. \A q, r \in Seq(Int) : q \o r \in Seq(Int)
    OBVIOUS
  <2> QED
    BY <2>1, <2>2, <2>3
<1> QED
  BY <1>1, <1>2, <1>3, <1>4, <1>5 DEF OutsideStep, KernelCompletes

LEMMA TypesStep ==
  ASSUME Types, Control, Next
  PROVE  Types'
BY ThreadTypesStep, SlotTypesStep, BufTypesStep, IOTypesStep, NetTypesStep, TypeParts

\* a completion is for a slot that is in use
LEMMA DequeueHeld ==
  ASSUME Shape, Control, NEW t \in Threads, NEW q \in Sessions, DequeueRecv(t, q) \/ DequeueSend(t, q)
  PROVE  /\ ~Idle(q) /\ sock[q] \in Conns /\ sock[q] # None /\ invalidFlag[q] = 1
         /\ t # Acceptor /\ pc'[t] \in {"ioDec", "loop", "sendDone"}
         /\ pc[t] = "gqcs" /\ cur'[t] = q /\ op'[t] \in {"recv", "send"}
         /\ \A u \in Threads : u # t => pc'[u] = pc[u] /\ cur'[u] = cur[u] /\ op'[u] = op[u]
         /\ UNCHANGED <<scan, slotVars, ioCount, sendVars, netVars>>
         /\ \A s \in Sessions : s # q => recvIO'[s] = recvIO[s] /\ sendIO'[s] = sendIO[s]
<1>1. ~Idle(q) /\ pc[t] = "gqcs"
  BY DEF DequeueRecv, DequeueSend, Idle
<1>2. sock[q] \in Conns /\ sock[q] # None /\ invalidFlag[q] = 1
  BY <1>1 DEF Control, LifeOK, Shape
<1>3. t # Acceptor
  BY <1>1 DEF Control, CurOK
<1> QED
  BY <1>1, <1>2, <1>3 DEF DequeueRecv, DequeueSend, Goto, Shape, slotVars, sendVars, netVars

(***************************************************************************)
(* CurOK                                                                   *)
(***************************************************************************)
LEMMA CurStep ==
  ASSUME Types, Control, Next, Running'
  PROVE  CurOK'
<1>0. Shape /\ CurOK /\ DataTypes
  BY TypeShape DEF Control
<1> USE <1>0 DEF CurOK, Shape, SlotPcs, RefPcs, SendPcs, ReleasePcs, Goto, GoHome, threadVars
<1>1. ASSUME NEW t \in Threads, SendPost(t) PROVE CurOK'
  <2>1. HolderStep(t) /\ (pc'[t] \notin {"sendDone", "flagClear", "onAccept"})
        /\ (pc'[t] = "loop" => op[t] = "recv")
    BY <1>1 DEF HolderStep, SendPost, SendSize1, SendSize2, SizeTest,
       SendXchg, SendXchgIf, SendClear, SendFailClear,
       SendGather, SendPrepare, WSASendPosted, WSASendFails, SendFailDec, AfterSend
  <2> QED
    BY <2>1, HolderFrame
<1>2. ASSUME NEW t \in Threads, RecvStep(t) PROVE CurOK'
  <2>1. HolderStep(t) /\ pc'[t] \notin {"sendDone", "flagClear", "onAccept", "loop"}
    BY <1>2 DEF HolderStep, RecvStep, RecvPost, WSARecvPosted, WSARecvFails, WSARecvFailsGiving
  <2> QED
    BY <2>1, HolderFrame
<1>3. ASSUME NEW t \in Threads, HandleStep(t) PROVE CurOK'
  <2>1. HolderStep(t) /\ (pc'[t] \in {"sendDone", "flagClear"} => pc[t] = "sendDone")
        /\ pc'[t] \notin {"onAccept", "loop"}
    BY <1>3 DEF HolderStep, HandleStep, OnAccept, SendDone, SendDoneLeaving, FlagClear,
       ProcessMessage, ProcessEnd, SendPacket
  <2> QED
    BY <2>1, HolderFrame
<1>4. ASSUME NEW t \in Threads, IODecrement(t) PROVE CurOK'
  BY <1>4 DEF IODecrement
<1>5. ASSUME NEW t \in Threads, Release(t) PROVE CurOK'
  BY <1>5 DEF Release, ReleaseDrain, ReleaseClose, ReleaseUnsock, ReleaseFree, FreeSlot
<1>6. ASSUME NEW t \in Threads, NEW s \in Sessions, DequeueRecv(t, s) \/ DequeueSend(t, s)
      PROVE CurOK'
  <2>1. t # Acceptor
    BY <1>6, DequeueHeld
  <2> QED
    BY <1>6, <2>1 DEF DequeueRecv, DequeueSend
<1>7. ASSUME NEW c \in Conns, Accept(c) PROVE CurOK'
  BY <1>7 DEF Accept
<1>8. CASE AcceptScan \/ InitSession
  BY <1>8 DEF AcceptScan, InitSession
<1>9. CASE OutsideStep
  BY <1>9, OutsideFrame
<1> QED
  BY <1>1, <1>2, <1>3, <1>4, <1>5, <1>6, <1>7, <1>8, <1>9, NextSplit DEF HolderStep

(***************************************************************************)
(* IOCountExact                                                            *)
(***************************************************************************)
\* a step that keeps the references of a session and what counts them
LEMMA SameCount ==
  ASSUME NEW s \in Sessions, IOCountExact,
         At(s, RefPcs)' = At(s, RefPcs), At(s, {"failDec"})' = At(s, {"failDec"}),
         ioCount'[s] = ioCount[s],
         Busy(recvIO[s])' = Busy(recvIO[s]), Busy(sendIO[s])' = Busy(sendIO[s])
  PROVE  ioCount'[s] = References(s)'
BY DEF IOCountExact, References

LEMMA CountStep ==
  ASSUME Types, Control, Next, Running'
  PROVE  IOCountExact'
<1>0. Shape /\ IOCountExact /\ CurOK /\ DataTypes
  BY TypeShape DEF Control
<1>a. \A s \in Sessions :
        /\ Cardinality(At(s, RefPcs)) \in Nat /\ Cardinality(At(s, {"failDec"})) \in Nat
        /\ ioCount[s] = References(s)
  BY <1>0, ThreadSets DEF At, IOCountExact
<1>1. ASSUME NEW t \in Threads, HolderStep(t) PROVE IOCountExact'
  <2> SUFFICES ASSUME NEW s \in Sessions PROVE ioCount'[s] = References(s)'
    BY DEF IOCountExact
  <2>1. At(s, RefPcs)' = At(s, RefPcs)
    BY <1>0, <1>1, HolderFrame DEF At, Shape
  <2>a. cur' = cur /\ \A u \in Threads : u # t => pc'[u] = pc[u]
    BY <1>0, <1>1, HolderFrame
  <2>2. CASE s # cur[t]
    <3>1. recvIO'[s] = recvIO[s] /\ sendIO'[s] = sendIO[s] /\ ioCount'[s] = ioCount[s]
      BY <1>0, <1>1, <2>2, HolderFrame
    <3>2. At(s, {"failDec"})' = At(s, {"failDec"})
      BY <2>2, <2>a DEF At
    <3> QED
      BY <1>0, <2>1, <3>1, <3>2, SameCount DEF Busy
  <2>3. CASE s = cur[t]
    <3>a. (pc[t] = "failDec" <=> pc'[t] = "failDec") => At(s, {"failDec"})' = At(s, {"failDec"})
      BY <2>a DEF At
    <3>1. CASE SendPost(t) /\ ~(SendPrepare(t) \/ WSASendPosted(t) \/ SendFailClear(t) \/ SendFailDec(t))
      <4>1. UNCHANGED <<ioCount, recvIO, sendIO>>
        BY <3>1 DEF SendPost, SendSize1, SendSize2, SizeTest, SendXchg, SendXchgIf, SendClear,
           SendGather, WSASendFails, ioVars
      <4>2. pc[t] # "failDec" /\ pc'[t] # "failDec"
        BY <1>0, <3>1 DEF SendPost, SendSize1, SendSize2, SizeTest, SendXchg, SendXchgIf, SendClear,
           SendGather, WSASendFails, Goto, AfterSend, Shape
      <4> QED
        BY <1>0, <2>1, <3>a, <4>1, <4>2, SameCount
    <3>2. CASE SendPrepare(t)
      <4>1. sendIO[s] = "none"
        BY <2>3, <3>2 DEF Control, SendExclusive, SendPrepare, FlagPcs
      <4>2. pc[t] # "failDec" /\ pc'[t] # "failDec"
        BY <1>0, <3>2 DEF SendPrepare, Goto, Shape
      <4> QED
        BY <1>0, <1>a, <2>1, <2>3, <3>2, <3>a, <4>1, <4>2 DEF SendPrepare, References, Busy, Shape
    <3>3. CASE WSASendPosted(t)
      <4>1. sendIO[s] = "posting"
        BY <2>3, <3>3 DEF Control, SendExclusive, WSASendPosted, FlagPcs
      <4>2. pc[t] # "failDec" /\ pc'[t] # "failDec"
        BY <1>0, <3>3 DEF WSASendPosted, Goto, Shape, AfterSend
      <4> QED
        BY <1>0, <2>1, <2>3, <3>3, <3>a, <4>1, <4>2, SameCount DEF WSASendPosted, Busy, Shape
    <3>4. CASE SendFailClear(t)
      <4>1. sendIO[s] = "posting"
        BY <2>3, <3>4 DEF Control, SendExclusive, SendFailClear, FlagPcs
      <4>2. t \notin At(s, {"failDec"}) /\ At(s, {"failDec"})' = At(s, {"failDec"}) \cup {t}
        BY <1>0, <2>a, <2>3, <3>4 DEF At, SendFailClear, Goto, Shape
      <4>3. Cardinality(At(s, {"failDec"})') = Cardinality(At(s, {"failDec"})) + 1
        BY <4>2, AddThread DEF At
      <4> QED
        BY <1>0, <1>a, <2>1, <2>3, <3>4, <4>1, <4>3 DEF SendFailClear, References, Busy, Shape
    <3>5. CASE SendFailDec(t)
      <4>2. t \in At(s, {"failDec"}) /\ At(s, {"failDec"})' = At(s, {"failDec"}) \ {t}
        BY <1>0, <2>a, <2>3, <3>5 DEF At, SendFailDec, Goto, Shape, AfterSend
      <4>3. Cardinality(At(s, {"failDec"})') = Cardinality(At(s, {"failDec"})) - 1
        BY <4>2, RemoveThread DEF At
      <4> QED
        BY <1>0, <1>a, <2>1, <2>3, <3>5, <4>3 DEF SendFailDec, References, Busy, Shape, ioVars
    <3>6. CASE RecvStep(t)
      <4>1. recvIO[s] = IF pc[t] = "wsaRecv" THEN "posting" ELSE "none"
        BY <2>3, <3>6 DEF Control, RecvOK, Receiving, RecvPcs, RecvStep, RecvPost, WSARecvPosted,
           WSARecvFails, WSARecvFailsGiving
      <4>2. pc[t] # "failDec" /\ pc'[t] # "failDec"
        BY <1>0, <3>6 DEF RecvStep, RecvPost, WSARecvPosted, WSARecvFails, WSARecvFailsGiving,
           Goto, Shape
      <4>3. CASE RecvPost(t)
        BY <1>0, <1>a, <2>1, <2>3, <3>a, <4>1, <4>2, <4>3 DEF RecvPost, References, Busy, Shape
      <4>4. CASE WSARecvPosted(t)
        BY <1>0, <2>1, <2>3, <3>a, <4>1, <4>2, <4>4, SameCount DEF WSARecvPosted, Busy, Shape
      <4>5. CASE WSARecvFails(t)
        BY <1>0, <1>a, <2>1, <2>3, <3>a, <4>1, <4>2, <4>5
           DEF WSARecvFails, WSARecvFailsGiving, References, Busy, Shape
      <4> QED
        BY <3>6, <4>3, <4>4, <4>5 DEF RecvStep
    <3>7. CASE HandleStep(t)
      <4>1. UNCHANGED <<ioCount, recvIO, sendIO>>
        BY <3>7 DEF HandleStep, OnAccept, SendDone, SendDoneLeaving, FlagClear, ProcessMessage,
           ProcessEnd, ioVars
      <4>2. pc[t] # "failDec" /\ pc'[t] # "failDec"
        BY <1>0, <3>7 DEF HandleStep, OnAccept, SendDone, SendDoneLeaving, FlagClear,
           ProcessMessage, ProcessEnd, SendPacket, Goto, Shape
      <4> QED
        BY <1>0, <2>1, <3>a, <4>1, <4>2, SameCount
    <3> QED
      BY <1>1, <3>1, <3>2, <3>3, <3>4, <3>5, <3>6, <3>7 DEF HolderStep
  <2> QED
    BY <2>2, <2>3
\* the thread's own reference goes
<1>2. ASSUME NEW t \in Threads, IODecrement(t) PROVE IOCountExact'
  <2> SUFFICES ASSUME NEW s \in Sessions PROVE ioCount'[s] = References(s)'
    BY DEF IOCountExact
  <2>0. At(s, {"failDec"})' = At(s, {"failDec"})
    BY <1>0, <1>2 DEF At, IODecrement, Goto, GoHome, Shape
  <2>1. CASE s # cur[t]
    <3>1. At(s, RefPcs)' = At(s, RefPcs)
      BY <1>0, <1>2, <2>1 DEF At, IODecrement, Goto, GoHome, Shape
    <3> QED
      BY <1>0, <1>2, <2>0, <2>1, <3>1, SameCount DEF IODecrement, ioVars, Shape, Busy
  <2>2. CASE s = cur[t]
    <3>1. t \in At(s, RefPcs) /\ At(s, RefPcs)' = At(s, RefPcs) \ {t}
      BY <1>0, <1>2, <2>2 DEF At, IODecrement, Goto, GoHome, Shape, RefPcs, SendPcs
    <3>2. Cardinality(At(s, RefPcs)') = Cardinality(At(s, RefPcs)) - 1
      BY <3>1, RemoveThread DEF At
    <3> QED
      BY <1>0, <1>a, <1>2, <2>0, <2>2, <3>2 DEF IODecrement, ioVars, Shape, References, Busy
  <2> QED
    BY <2>1, <2>2
<1>3. ASSUME NEW t \in Threads, Release(t) PROVE IOCountExact'
  <2> SUFFICES ASSUME NEW s \in Sessions PROVE ioCount'[s] = References(s)'
    BY DEF IOCountExact
  <2>1. At(s, RefPcs)' = At(s, RefPcs) /\ At(s, {"failDec"})' = At(s, {"failDec"})
    BY <1>0, <1>3 DEF At, Release, ReleaseDrain, ReleaseClose, ReleaseUnsock, ReleaseFree,
       FreeSlot, Goto, GoHome, Shape, RefPcs, SendPcs
  <2>2. UNCHANGED <<ioCount, recvIO, sendIO>>
    BY <1>3 DEF Release, ReleaseDrain, ReleaseClose, ReleaseUnsock, ReleaseFree, FreeSlot, ioVars
  <2> QED
    BY <1>0, <2>1, <2>2, SameCount DEF Busy
\* the reference of the finished operation passes to the thread
<1>4. ASSUME NEW t \in Threads, NEW q \in Sessions, DequeueRecv(t, q) \/ DequeueSend(t, q)
      PROVE IOCountExact'
  <2> SUFFICES ASSUME NEW s \in Sessions PROVE ioCount'[s] = References(s)'
    BY DEF IOCountExact
  <2>0. At(s, {"failDec"})' = At(s, {"failDec"}) /\ pc[t] \notin RefPcs /\ pc'[t] \in RefPcs
    BY <1>0, <1>4, DequeueHeld DEF At, Control, RefPcs, SendPcs
  <2>1. CASE s # q
    <3>1. At(s, RefPcs)' = At(s, RefPcs)
      BY <1>0, <1>4, <2>0, <2>1, DequeueHeld DEF At, Control
    <3> QED
      BY <1>0, <1>4, <2>0, <2>1, <3>1, SameCount, DequeueHeld
  <2>2. CASE s = q
    <3>1. t \notin At(s, RefPcs) /\ At(s, RefPcs)' = At(s, RefPcs) \cup {t}
      BY <1>0, <1>4, <2>0, <2>2, DequeueHeld DEF At
    <3>2. Cardinality(At(s, RefPcs)') = Cardinality(At(s, RefPcs)) + 1
      BY <3>1, AddThread DEF At
    <3> QED
      BY <1>0, <1>a, <1>4, <2>0, <2>2, <3>2 DEF DequeueRecv, DequeueSend, Shape, References, Busy
  <2> QED
    BY <2>1, <2>2
\* the accept thread takes its reference
<1>5. CASE InitSession
  <2> SUFFICES ASSUME NEW s \in Sessions PROVE ioCount'[s] = References(s)'
    BY DEF IOCountExact
  <2>0. At(s, {"failDec"})' = At(s, {"failDec"}) /\ UNCHANGED <<recvIO, sendIO>>
        /\ pc[Acceptor] = "init" /\ pc'[Acceptor] = "onAccept" /\ cur'[Acceptor] = scan
        /\ ioCount' = [ioCount EXCEPT ![scan] = @ + 1]
        /\ \A u \in Threads : u # Acceptor => pc'[u] = pc[u] /\ cur'[u] = cur[u]
    BY <1>0, <1>5 DEF At, InitSession, Goto, Shape, ioVars
  <2>1. CASE s # scan
    <3>1. At(s, RefPcs)' = At(s, RefPcs)
      BY <1>0, <2>0, <2>1 DEF At, Shape, RefPcs, SendPcs
    <3>2. ioCount'[s] = ioCount[s]
      BY <1>0, <2>0, <2>1 DEF Shape
    <3> QED
      BY <1>0, <2>0, <3>1, <3>2, SameCount DEF Busy
  <2>2. CASE s = scan
    <3>1. Acceptor \notin At(s, RefPcs) /\ At(s, RefPcs)' = At(s, RefPcs) \cup {Acceptor}
      BY <1>0, <2>0, <2>2 DEF At, Shape, RefPcs, SendPcs
    <3>2. Cardinality(At(s, RefPcs)') = Cardinality(At(s, RefPcs)) + 1
      BY <1>0, <3>1, AddThread DEF At, Shape
    <3>3. ioCount'[s] = ioCount[s] + 1
      BY <1>0, <2>0, <2>2 DEF Shape
    <3> QED
      BY <1>a, <2>0, <3>2, <3>3 DEF References, Busy
  <2> QED
    BY <2>1, <2>2
\* steps of threads that hold nothing
<1>6. ASSUME (\E c \in Conns : Accept(c)) \/ AcceptScan
      PROVE IOCountExact'
  <2> SUFFICES ASSUME NEW s \in Sessions PROVE ioCount'[s] = References(s)'
    BY DEF IOCountExact
  <2>1. At(s, RefPcs)' = At(s, RefPcs) /\ At(s, {"failDec"})' = At(s, {"failDec"})
    BY <1>0, <1>6 DEF At, Accept, AcceptScan, Goto, Shape, RefPcs, SendPcs
  <2>2. UNCHANGED <<ioCount, recvIO, sendIO>>
    BY <1>6 DEF Accept, AcceptScan, ioVars
  <2> QED
    BY <1>0, <2>1, <2>2, SameCount DEF Busy
<1>7. CASE OutsideStep
  BY <1>0, <1>7, OutsideFrame, SameCount DEF At, Busy, IOCountExact
<1> QED
  BY <1>1, <1>2, <1>3, <1>4, <1>5, <1>6, <1>7, NextSplit

(***************************************************************************)
(* LifeOK                                                                  *)
(***************************************************************************)
\* a step that moves no thread into, within or out of Release and the search
\* for a slot
LEMMA LifeKept ==
  ASSUME Shape, CurOK, LifeOK, UNCHANGED <<sock, invalidFlag, scan>>,
         \A s \in Sessions : Idle(s)' <=> Idle(s),
         \A u \in Threads :
           \/ pc'[u] = pc[u] /\ cur'[u] = cur[u]
           \/ /\ pc[u] \notin ReleasePcs \cup {"scan", "init"}
              /\ pc'[u] \notin ReleasePcs \cup {"scan", "init"}
  PROVE  LifeOK'
<1>1. \A s \in Sessions : At(s, ReleasePcs)' = At(s, ReleasePcs)
  BY DEF At
<1>2. \A u \in Threads : pc'[u] \in ReleasePcs => pc'[u] = pc[u] /\ cur'[u] = cur[u] /\ cur[u] \in Sessions
  BY DEF CurOK, SlotPcs
<1>3. pc'[Acceptor] \in {"scan", "init"} <=> pc[Acceptor] \in {"scan", "init"}
  BY DEF Shape
<1>4. pc[Acceptor] \in {"scan", "init"} => pc'[Acceptor] = pc[Acceptor]
  BY DEF Shape
<1>5. scan \in Sessions
  BY DEF Shape
<1> QED
  BY <1>1, <1>2, <1>3, <1>4, <1>5 DEF LifeOK

LEMMA LifeHolder ==
  ASSUME Shape, DataTypes, Control, NEW t \in Threads, HolderStep(t), Running'
  PROVE  LifeOK'
<1>0. PICK q \in Sessions : q = cur[t]
  BY HolderFrame DEF Control, CurOK, SlotPcs
<1>1. t \in At(q, RefPcs) /\ t \in At(q, RefPcs)'
  BY <1>0, HolderFrame DEF At
<1>2. \A s \in Sessions : s # q => (Idle(s)' <=> Idle(s))
  BY <1>0, HolderFrame DEF Idle, At
<1>3. ~Idle(q) /\ ~Idle(q)'
  BY <1>1 DEF Idle
<1>4. \A s \in Sessions : Idle(s)' <=> Idle(s)
  BY <1>2, <1>3
<1>5. /\ UNCHANGED <<sock, invalidFlag, scan, cur>>
      /\ pc[t] \notin ReleasePcs \cup {"scan", "init"} /\ pc'[t] \notin ReleasePcs \cup {"scan", "init"}
      /\ \A u \in Threads : u # t => pc'[u] = pc[u]
  BY HolderFrame DEF RefPcs, SendPcs, ReleasePcs
<1> QED
  BY <1>4, <1>5, LifeKept DEF Control

\* the last reference: what remains is an idle session
LEMMA LifeDecrement ==
  ASSUME Shape, Control, NEW t \in Threads, IODecrement(t)
  PROVE  LifeOK'
<1>0. CurOK /\ LifeOK /\ IOCountExact
  BY DEF Control
<1>1. PICK q \in Sessions : q = cur[t]
  BY <1>0 DEF CurOK, SlotPcs, IODecrement, RefPcs
<1>2. t \in At(q, RefPcs) /\ ~Idle(q)
  BY <1>1 DEF At, IODecrement, RefPcs, Idle
<1>3. sock[q] \in Conns /\ invalidFlag[q] = 1 /\ At(q, ReleasePcs) = {}
      /\ ~(pc[Acceptor] = "init" /\ scan = q)
  BY <1>0, <1>1, <1>2 DEF LifeOK, Shape, At
<1>4. UNCHANGED <<recvIO, sendIO, sock, invalidFlag, scan>>
  BY DEF IODecrement, ioVars, slotVars
<1>5. /\ \A u \in Threads : u # t => pc'[u] = pc[u] /\ cur'[u] = cur[u]
      /\ IF ioCount[q] = 1 THEN pc'[t] = "drain" /\ cur'[t] = q
         ELSE pc'[t] \in {"accept", "gqcs"}
      /\ pc[t] = "ioDec"
  BY <1>1 DEF IODecrement, Goto, GoHome, Shape
<1>6. \A s \in Sessions : s # q => At(s, RefPcs)' = At(s, RefPcs) /\ At(s, ReleasePcs)' = At(s, ReleasePcs)
  BY <1>1, <1>5 DEF At, RefPcs, SendPcs, ReleasePcs
<1>7. At(q, RefPcs)' = At(q, RefPcs) \ {t}
  BY <1>1, <1>5 DEF At, RefPcs, SendPcs
<1>8. \A s \in Sessions : s # q => (Idle(s)' <=> Idle(s))
  BY <1>4, <1>6 DEF Idle
<1>9. ASSUME ioCount[q] = 1 PROVE Idle(q)'
  <2>1. Cardinality(At(q, RefPcs)') = Cardinality(At(q, RefPcs)) - 1
    BY <1>2, <1>7, RemoveThread DEF At
  <2>2. Cardinality(At(q, RefPcs)) \in Nat /\ Cardinality(At(q, RefPcs)') \in Nat
        /\ Cardinality(At(q, {"failDec"})) \in Nat
    BY <1>7, ThreadSets DEF At
  <2>3. References(q) = 1
    BY <1>0, <1>9 DEF IOCountExact
  <2>4. Cardinality(At(q, RefPcs)') = 0 /\ recvIO[q] = "none" /\ sendIO[q] = "none"
    BY <2>1, <2>2, <2>3 DEF References, Busy
  <2>5. At(q, RefPcs)' = {}
    BY <1>7, <2>4, ThreadSets, FS_EmptySet DEF At
  <2> QED
    BY <1>4, <2>4, <2>5 DEF Idle
<1>10. ASSUME ioCount[q] # 1 PROVE ~Idle(q)'
  <2>1. Cardinality(At(q, RefPcs)') = Cardinality(At(q, RefPcs)) - 1
    BY <1>2, <1>7, RemoveThread DEF At
  <2>2. At(q, {"failDec"}) \in SUBSET At(q, RefPcs)' /\ Cardinality({}) = 0
    BY <1>5, <1>7, FS_EmptySet DEF At, RefPcs, SendPcs
  <2>3. SUFFICES ASSUME Idle(q)' PROVE FALSE
    OBVIOUS
  <2>4. At(q, RefPcs)' = {} /\ recvIO[q] = "none" /\ sendIO[q] = "none"
    BY <1>4, <2>3 DEF Idle
  <2>5. Cardinality(At(q, RefPcs)') = 0 /\ Cardinality(At(q, {"failDec"})) = 0
    BY <2>2, <2>4
  <2>6. Cardinality(At(q, RefPcs)) \in Nat
    BY ThreadSets DEF At
  <2> QED
    BY <1>0, <1>10, <2>1, <2>4, <2>5, <2>6 DEF References, Busy, IOCountExact
<1>11. \A u \in Threads : pc[u] \in ReleasePcs => cur[u] \in Sessions /\ cur[u] # q
  BY <1>0, <1>3 DEF CurOK, SlotPcs, At
<1>12. At(q, ReleasePcs)' = IF ioCount[q] = 1 THEN {t} ELSE {}
  BY <1>5, <1>11 DEF At, ReleasePcs
<1>13. /\ pc'[Acceptor] \in {"scan", "init"} => pc'[Acceptor] = pc[Acceptor] /\ Acceptor # t
       /\ pc[Acceptor] \in {"scan", "init"} => pc'[Acceptor] = pc[Acceptor]
  BY <1>0, <1>5 DEF Shape
<1>14. \A s \in Sessions :
         /\ invalidFlag'[s] = -1 => Idle(s)' /\ sock'[s] = None /\ At(s, ReleasePcs)' = {}
         /\ invalidFlag'[s] = 1 => \/ ~Idle(s)' \/ At(s, ReleasePcs)' # {}
                                   \/ pc'[Acceptor] = "init" /\ scan' = s
         /\ ~Idle(s)' => sock'[s] \in Conns
  BY <1>0, <1>3, <1>4, <1>6, <1>8, <1>9, <1>10, <1>12, <1>13 DEF LifeOK
<1>15. \A u \in Threads : pc'[u] \in ReleasePcs =>
         \/ u = t /\ ioCount[q] = 1 /\ pc'[u] = "drain" /\ cur'[u] = q
         \/ u # t /\ pc[u] \in ReleasePcs /\ cur'[u] = cur[u] /\ cur[u] # q /\ pc'[u] = pc[u]
            /\ cur[u] \in Sessions
  BY <1>5, <1>11 DEF ReleasePcs
<1>16. \A u \in Threads : pc'[u] \in ReleasePcs =>
       /\ Idle(cur[u])'
       /\ IF pc'[u] = "free" THEN sock'[cur'[u]] = None ELSE sock'[cur'[u]] \in Conns
  BY <1>0, <1>3, <1>4, <1>8, <1>9, <1>15 DEF LifeOK
<1>17. \A u, v \in Threads :
         pc'[u] \in ReleasePcs /\ pc'[v] \in ReleasePcs /\ cur'[u] = cur'[v] => u = v
  BY <1>0, <1>15 DEF LifeOK
<1>18. pc'[Acceptor] = "init" =>
       /\ invalidFlag'[scan'] = 1 /\ Idle(scan)' /\ sock'[scan'] = None
       /\ At(scan, ReleasePcs)' = {}
  BY <1>0, <1>3, <1>4, <1>6, <1>8, <1>13 DEF LifeOK, Shape
<1>19. pc'[Acceptor] = "scan" => \E r \in Sessions : r >= scan' /\ invalidFlag'[r] = -1
  BY <1>0, <1>4, <1>13 DEF LifeOK
<1> QED
  BY <1>14, <1>16, <1>17, <1>18, <1>19 DEF LifeOK

\* Release goes on, and gives the slot back at its end
LEMMA LifeRelease ==
  ASSUME Shape, Control, NEW t \in Threads, Release(t)
  PROVE  LifeOK'
<1>0. CurOK /\ LifeOK
  BY DEF Control
<1>1. PICK q \in Sessions : q = cur[t]
  BY <1>0 DEF CurOK, SlotPcs, Release, ReleaseDrain, ReleaseClose, ReleaseUnsock, ReleaseFree,
     ReleasePcs
<1>2. /\ pc[t] \in ReleasePcs /\ UNCHANGED <<recvIO, sendIO, scan>>
      /\ \A u \in Threads : u # t => pc'[u] = pc[u] /\ cur'[u] = cur[u]
  BY DEF Release, ReleaseDrain, ReleaseClose, ReleaseUnsock, ReleaseFree, ReleasePcs, FreeSlot,
     ioVars, Goto, GoHome, Shape
<1>3. \/ /\ pc[t] # "free" /\ cur'[t] = q /\ UNCHANGED invalidFlag
         /\ \/ pc'[t] \in {"close", "unsock"} /\ UNCHANGED sock
            \/ pc'[t] = "free" /\ sock' = [sock EXCEPT ![q] = None]
      \/ /\ pc[t] = "free" /\ pc'[t] \in {"accept", "gqcs"} /\ UNCHANGED sock
         /\ invalidFlag' = [invalidFlag EXCEPT ![q] = -1]
  BY <1>1 DEF Release, ReleaseDrain, ReleaseClose, ReleaseUnsock, ReleaseFree, FreeSlot, slotVars,
     Goto, GoHome, Shape
<1>4. \A s \in Sessions : At(s, RefPcs)' = At(s, RefPcs)
  BY <1>2, <1>3 DEF At, RefPcs, SendPcs, ReleasePcs
<1>5. \A s \in Sessions : Idle(s)' <=> Idle(s)
  BY <1>2, <1>4 DEF Idle
<1>6. /\ Idle(q) /\ At(q, ReleasePcs) = {t} /\ invalidFlag[q] = 1
      /\ IF pc[t] = "free" THEN sock[q] = None ELSE sock[q] \in Conns
      /\ ~(pc[Acceptor] = "init" /\ scan = q)
  BY <1>0, <1>1, <1>2 DEF LifeOK, At, Shape
<1>7. \A s \in Sessions : s # q => At(s, ReleasePcs)' = At(s, ReleasePcs)
  BY <1>1, <1>2, <1>3 DEF At, ReleasePcs
<1>8. At(q, ReleasePcs)' = IF pc[t] = "free" THEN {} ELSE {t}
  BY <1>1, <1>2, <1>3, <1>6 DEF At, ReleasePcs
<1>9. \A u \in Threads : pc[u] \in ReleasePcs /\ u # t => cur[u] \in Sessions /\ cur[u] # q
  BY <1>0, <1>6 DEF At, CurOK, SlotPcs
<1>10. /\ pc'[Acceptor] \in {"scan", "init"} => pc'[Acceptor] = pc[Acceptor] /\ Acceptor # t
       /\ pc[Acceptor] \in {"scan", "init"} => pc'[Acceptor] = pc[Acceptor]
  BY <1>2, <1>3 DEF Shape, ReleasePcs
<1>11. \A s \in Sessions : s # q => sock'[s] = sock[s] /\ invalidFlag'[s] = invalidFlag[s]
  BY <1>3 DEF Shape
<1>12. /\ invalidFlag'[q] = IF pc[t] = "free" THEN -1 ELSE 1
       /\ pc[t] = "free" => sock'[q] = None
       /\ pc'[t] = "free" => sock'[q] = None
       /\ pc[t] # "free" /\ pc'[t] # "free" => sock'[q] \in Conns
  BY <1>3, <1>6 DEF Shape
<1>13. \A s \in Sessions :
         /\ invalidFlag'[s] = -1 => Idle(s)' /\ sock'[s] = None /\ At(s, ReleasePcs)' = {}
         /\ invalidFlag'[s] = 1 => \/ ~Idle(s)' \/ At(s, ReleasePcs)' # {}
                                   \/ pc'[Acceptor] = "init" /\ scan' = s
         /\ ~Idle(s)' => sock'[s] \in Conns
  BY <1>0, <1>2, <1>5, <1>6, <1>7, <1>8, <1>10, <1>11, <1>12 DEF LifeOK
<1>14. \A u \in Threads : pc'[u] \in ReleasePcs =>
         \/ u = t /\ pc[t] # "free" /\ cur'[u] = q
         \/ u # t /\ pc[u] \in ReleasePcs /\ cur'[u] = cur[u] /\ cur[u] # q /\ pc'[u] = pc[u]
            /\ cur[u] \in Sessions
  BY <1>2, <1>3, <1>9 DEF ReleasePcs
<1>15. \A u \in Threads : pc'[u] \in ReleasePcs =>
       /\ Idle(cur[u])'
       /\ IF pc'[u] = "free" THEN sock'[cur'[u]] = None ELSE sock'[cur'[u]] \in Conns
  BY <1>0, <1>5, <1>6, <1>11, <1>12, <1>14 DEF LifeOK
<1>16. \A u, v \in Threads :
         pc'[u] \in ReleasePcs /\ pc'[v] \in ReleasePcs /\ cur'[u] = cur'[v] => u = v
  BY <1>0, <1>14 DEF LifeOK
<1>17. pc'[Acceptor] = "init" =>
       /\ invalidFlag'[scan'] = 1 /\ Idle(scan)' /\ sock'[scan'] = None
       /\ At(scan, ReleasePcs)' = {}
  BY <1>0, <1>2, <1>5, <1>6, <1>7, <1>10, <1>11 DEF LifeOK, Shape
<1>18. pc'[Acceptor] = "scan" => \E r \in Sessions : r >= scan' /\ invalidFlag'[r] = -1
  <2>1. \A r \in Sessions : invalidFlag[r] = -1 => invalidFlag'[r] = -1
    BY <1>6, <1>11
  <2> QED
    BY <1>0, <1>2, <1>10, <2>1 DEF LifeOK
<1> QED
  BY <1>13, <1>15, <1>16, <1>17, <1>18 DEF LifeOK

\* the accept thread finds a free slot ...
LEMMA LifeScan ==
  ASSUME Shape, Control, AcceptScan, Running'
  PROVE  LifeOK'
<1>0. CurOK /\ LifeOK
  BY DEF Control
<1>1. /\ pc[Acceptor] = "scan" /\ UNCHANGED <<recvIO, sendIO, sock, cur>>
      /\ \A u \in Threads : u # Acceptor => pc'[u] = pc[u]
      /\ invalidFlag' = [invalidFlag EXCEPT ![scan] = 1]
      /\ scan \in Sessions /\ scan \in Int /\ SessionMax \in Int /\ Sessions \subseteq Int
  BY ConstantsAssumption DEF AcceptScan, ioVars, Goto, Shape, Sessions
<1>2. pc'[Acceptor] \in {"scan", "init"}
  BY <1>1 DEF AcceptScan, Goto, Shape, Running, BreakPcs
<1>3. \A s \in Sessions : At(s, RefPcs)' = At(s, RefPcs) /\ At(s, ReleasePcs)' = At(s, ReleasePcs)
  BY <1>1, <1>2 DEF At, RefPcs, SendPcs, ReleasePcs
<1>4. \A s \in Sessions : Idle(s)' <=> Idle(s)
  BY <1>1, <1>3 DEF Idle
<1>5. invalidFlag'[scan] = 1 /\ \A s \in Sessions : s # scan => invalidFlag'[s] = invalidFlag[s]
  BY <1>1 DEF Shape
<1>6. \A u \in Threads : pc'[u] \in ReleasePcs => pc'[u] = pc[u] /\ pc[u] \in ReleasePcs
  BY <1>1, <1>2 DEF ReleasePcs
<1>7. \A u \in Threads : pc[u] \in ReleasePcs => cur[u] \in Sessions
  BY <1>0 DEF CurOK, SlotPcs
<1>8. CASE invalidFlag[scan] = -1
  <2>1. pc'[Acceptor] = "init" /\ scan' = scan
    BY <1>1, <1>8 DEF AcceptScan, Goto, Shape
  <2>2. Idle(scan) /\ sock[scan] = None /\ At(scan, ReleasePcs) = {}
    BY <1>0, <1>1, <1>8 DEF LifeOK
  <2>3. Idle(scan)' /\ At(scan, ReleasePcs)' = {}
    BY <1>1, <1>3, <1>4, <2>1, <2>2
  <2>4. \A u \in Threads : pc'[u] \in ReleasePcs =>
       /\ Idle(cur[u])'
       /\ IF pc'[u] = "free" THEN sock'[cur'[u]] = None ELSE sock'[cur'[u]] \in Conns
    BY <1>0, <1>1, <1>4, <1>6, <1>7 DEF LifeOK
  <2>5. \A s \in Sessions :
         /\ invalidFlag'[s] = -1 => Idle(s)' /\ sock'[s] = None /\ At(s, ReleasePcs)' = {}
         /\ invalidFlag'[s] = 1 => \/ ~Idle(s)' \/ At(s, ReleasePcs)' # {}
                                   \/ pc'[Acceptor] = "init" /\ scan' = s
         /\ ~Idle(s)' => sock'[s] \in Conns
    BY <1>0, <1>1, <1>3, <1>4, <1>5, <2>1 DEF LifeOK
  <2> QED
    BY <1>0, <1>1, <1>5, <1>6, <2>1, <2>2, <2>3, <2>4, <2>5 DEF LifeOK
<1>9. CASE invalidFlag[scan] # -1
  <2>1. scan # SessionMax - 1 /\ pc'[Acceptor] = "scan" /\ scan' = scan + 1
    BY <1>1, <1>2, <1>9 DEF AcceptScan, Goto, Shape
  <2>2. invalidFlag[scan] = 1
    BY <1>1, <1>9 DEF Shape
  <2>3. invalidFlag' = invalidFlag
    BY <1>1, <2>2 DEF Shape
  <2>4. PICK r \in Sessions : r >= scan /\ invalidFlag[r] = -1
    BY <1>0, <1>1 DEF LifeOK
  <2>5. r >= scan'
    BY <1>1, <1>9, <2>1, <2>4
  <2>6. \A u \in Threads : pc'[u] \in ReleasePcs =>
       /\ Idle(cur[u])'
       /\ IF pc'[u] = "free" THEN sock'[cur'[u]] = None ELSE sock'[cur'[u]] \in Conns
    BY <1>0, <1>1, <1>4, <1>6, <1>7 DEF LifeOK
  <2>7. \A s \in Sessions :
         /\ invalidFlag'[s] = -1 => Idle(s)' /\ sock'[s] = None /\ At(s, ReleasePcs)' = {}
         /\ invalidFlag'[s] = 1 => ~Idle(s)' \/ At(s, ReleasePcs)' # {}
         /\ ~Idle(s)' => sock'[s] \in Conns
    BY <1>0, <1>1, <1>3, <1>4, <2>3 DEF LifeOK
  <2> QED
    BY <1>0, <1>1, <1>6, <2>1, <2>3, <2>4, <2>5, <2>6, <2>7 DEF LifeOK
<1> QED
  BY <1>8, <1>9

\* ... and takes the first reference to it
LEMMA LifeInit ==
  ASSUME Shape, Control, InitSession
  PROVE  LifeOK'
<1>0. CurOK /\ LifeOK
  BY DEF Control
<1>1. /\ UNCHANGED <<recvIO, sendIO, scan, invalidFlag>>
      /\ pc[Acceptor] = "init" /\ pc'[Acceptor] = "onAccept" /\ cur'[Acceptor] = scan
      /\ sock' = [sock EXCEPT ![scan] = cur[Acceptor]]
      /\ \A u \in Threads : u # Acceptor => pc'[u] = pc[u] /\ cur'[u] = cur[u]
      /\ scan \in Sessions /\ cur[Acceptor] \in Conns
  BY <1>0 DEF InitSession, ioVars, Goto, Shape, CurOK
<1>2. \A s \in Sessions : s # scan => At(s, RefPcs)' = At(s, RefPcs)
  BY <1>1 DEF At, RefPcs, SendPcs
<1>3. \A s \in Sessions : At(s, ReleasePcs)' = At(s, ReleasePcs)
  BY <1>1 DEF At, ReleasePcs
<1>4. \A s \in Sessions : s # scan => (Idle(s)' <=> Idle(s))
  BY <1>1, <1>2 DEF Idle
<1>5. Acceptor \in At(scan, RefPcs)'
  BY <1>1 DEF At, RefPcs, Shape
<1>6. ~Idle(scan)'
  BY <1>1, <1>5 DEF Idle
<1>7. sock'[scan] \in Conns /\ \A s \in Sessions : s # scan => sock'[s] = sock[s]
  BY <1>1 DEF Shape
<1>8. invalidFlag[scan] = 1 /\ At(scan, ReleasePcs) = {}
  BY <1>0, <1>1 DEF LifeOK
<1>9. \A u \in Threads : pc'[u] \in ReleasePcs =>
        /\ u # Acceptor /\ pc'[u] = pc[u] /\ cur'[u] = cur[u] /\ pc[u] \in ReleasePcs
        /\ cur[u] \in Sessions /\ cur[u] # scan
  BY <1>0, <1>1, <1>8 DEF CurOK, SlotPcs, ReleasePcs, At
<1>10. \A u \in Threads : pc'[u] \in ReleasePcs =>
       /\ Idle(cur[u])'
       /\ IF pc'[u] = "free" THEN sock'[cur'[u]] = None ELSE sock'[cur'[u]] \in Conns
  BY <1>0, <1>1, <1>4, <1>7, <1>9 DEF LifeOK
<1>11. \A s \in Sessions :
         /\ invalidFlag'[s] = -1 => Idle(s)' /\ sock'[s] = None /\ At(s, ReleasePcs)' = {}
         /\ invalidFlag'[s] = 1 => ~Idle(s)' \/ At(s, ReleasePcs)' # {}
         /\ ~Idle(s)' => sock'[s] \in Conns
  BY <1>0, <1>1, <1>3, <1>4, <1>6, <1>7, <1>8 DEF LifeOK
<1> QED
  BY <1>0, <1>1, <1>9, <1>10, <1>11 DEF LifeOK

LEMMA LifeStep ==
  ASSUME Types, Control, Next, Running'
  PROVE  LifeOK'
<1>0. Shape /\ DataTypes /\ CurOK /\ LifeOK
  BY TypeShape DEF Control
\* a completion refers to its session
<1>1. ASSUME NEW t \in Threads, NEW q \in Sessions, DequeueRecv(t, q) \/ DequeueSend(t, q)
      PROVE  LifeOK'
  <2>1. pc'[t] \in RefPcs /\ pc'[t] \notin ReleasePcs \cup {"scan", "init"}
        /\ pc[t] \notin ReleasePcs \cup {"scan", "init"} \cup RefPcs
    BY <1>0, <1>1, DequeueHeld DEF RefPcs, SendPcs, ReleasePcs
  <2>2. \A s \in Sessions : s # q => At(s, RefPcs)' = At(s, RefPcs)
    BY <1>0, <1>1, <2>1, DequeueHeld DEF At
  <2>3. t \in At(q, RefPcs)'
    BY <1>0, <1>1, <2>1, DequeueHeld DEF At
  <2>4. \A s \in Sessions : s # q => (Idle(s)' <=> Idle(s))
    BY <1>0, <1>1, <2>2, DequeueHeld DEF Idle
  <2>5. \A s \in Sessions : Idle(s)' <=> Idle(s)
    <3>1. ~Idle(q)'
      BY <2>3 DEF Idle
    <3>2. ~Idle(q)
      BY <1>0, <1>1, DequeueHeld
    <3> QED
      BY <2>4, <3>1, <3>2
  <2>6. UNCHANGED <<sock, invalidFlag, scan>> /\ \A u \in Threads : u # t => pc'[u] = pc[u] /\ cur'[u] = cur[u]
    BY <1>0, <1>1, DequeueHeld DEF slotVars
  <2> QED
    BY <1>0, <2>1, <2>5, <2>6, LifeKept
<1>2. ASSUME NEW c \in Conns, Accept(c) PROVE LifeOK'
  <2>1. /\ UNCHANGED <<recvIO, sendIO, sock, invalidFlag>> /\ pc[Acceptor] = "accept"
        /\ pc'[Acceptor] = "scan" /\ scan' = 0
        /\ \E s \in Sessions : invalidFlag[s] = -1
        /\ \A u \in Threads : u # Acceptor => pc'[u] = pc[u] /\ cur'[u] = cur[u]
    BY <1>0, <1>2 DEF Accept, ioVars, slotVars, Goto, Shape
  <2>2. \A s \in Sessions : At(s, RefPcs)' = At(s, RefPcs) /\ At(s, ReleasePcs)' = At(s, ReleasePcs)
    BY <2>1 DEF At, RefPcs, SendPcs, ReleasePcs
  <2>3. \A s \in Sessions : Idle(s)' <=> Idle(s)
    BY <2>1, <2>2 DEF Idle
  <2>4. \A u \in Threads : pc'[u] \in ReleasePcs =>
          /\ u # Acceptor /\ pc'[u] = pc[u] /\ cur'[u] = cur[u] /\ pc[u] \in ReleasePcs
          /\ cur[u] \in Sessions
    BY <1>0, <2>1 DEF CurOK, SlotPcs, ReleasePcs
  <2>5. \E r \in Sessions : r >= scan' /\ invalidFlag'[r] = -1
    BY <2>1 DEF Sessions
  <2>6. \A u \in Threads : pc'[u] \in ReleasePcs =>
       /\ Idle(cur[u])'
       /\ IF pc'[u] = "free" THEN sock'[cur'[u]] = None ELSE sock'[cur'[u]] \in Conns
    BY <1>0, <2>1, <2>3, <2>4 DEF LifeOK
  <2>7. \A s \in Sessions :
         /\ invalidFlag'[s] = -1 => Idle(s)' /\ sock'[s] = None /\ At(s, ReleasePcs)' = {}
         /\ invalidFlag'[s] = 1 => ~Idle(s)' \/ At(s, ReleasePcs)' # {}
         /\ ~Idle(s)' => sock'[s] \in Conns
    BY <1>0, <2>1, <2>2, <2>3 DEF LifeOK
  <2> QED
    BY <1>0, <2>1, <2>4, <2>5, <2>6, <2>7 DEF LifeOK
<1>3. CASE OutsideStep
  <2>1. UNCHANGED <<pc, cur, scan, sock, invalidFlag>>
    BY <1>0, <1>3, OutsideFrame
  <2>2. \A s \in Sessions : Idle(s)' <=> Idle(s)
    BY <1>0, <1>3, <2>1, OutsideFrame DEF Idle, At
  <2> QED
    BY <1>0, <2>1, <2>2, LifeKept
<1> QED
  BY <1>0, <1>1, <1>2, <1>3, NextSplit, LifeHolder, LifeDecrement, LifeRelease, LifeScan, LifeInit

(***************************************************************************)
(* RecvOK                                                                  *)
(***************************************************************************)
\* SendPost leads back to its caller, and leaves the receive side alone
LEMMA SendPostFrame ==
  ASSUME Shape, NEW t \in Threads, SendPost(t)
  PROVE  /\ pc[t] \in SendPcs /\ pc'[t] \in SendPcs \cup {AfterSend(t), "breakSock"}
         /\ UNCHANGED <<recvIO, recvLen, batch>>
<1> USE DEF Shape, Goto, SendPcs, ioVars
<1>1. CASE SendSize1(t) \/ SendSize2(t) \/ SendXchg(t) \/ SendClear(t) \/ SendFailClear(t)
  BY <1>1 DEF SendSize1, SendSize2, SizeTest, SendXchg, SendXchgIf, SendClear, SendFailClear
<1>2. CASE SendGather(t) \/ SendPrepare(t) \/ WSASendPosted(t) \/ WSASendFails(t) \/ SendFailDec(t)
  BY <1>2 DEF SendGather, SendPrepare, WSASendPosted, WSASendFails, SendFailDec
<1> QED
  BY <1>1, <1>2 DEF SendPost

LEMMA RecvSideStep ==
  ASSUME Types, Control, Next, Running'
  PROVE  RecvOK'
<1>0. Shape /\ DataTypes /\ CurOK /\ LifeOK /\ RecvOK
  BY TypeShape DEF Control
<1>a. \A t \in Threads : Receiving(t) => cur[t] \in Sessions /\ t \in At(cur[t], RefPcs)
  BY <1>0 DEF CurOK, SlotPcs, RefPcs, SendPcs, Receiving, RecvPcs, At
\* a step of one thread that receives neither more nor elsewhere than before
<1>b. ASSUME NEW t \in Threads, \A u \in Threads : u # t => pc'[u] = pc[u] /\ op'[u] = op[u],
             UNCHANGED <<cur, recvIO, recvLen>>,
             Receiving(t)' => Receiving(t) /\ pc[t] # "wsaRecv" /\ pc'[t] # "wsaRecv"
      PROVE  RecvOK'
  BY <1>0, <1>b DEF RecvOK, Receiving
\* no thread starts to receive
<1>c. ASSUME UNCHANGED <<recvIO, recvLen>>,
             \A u \in Threads : Receiving(u)' => /\ Receiving(u) /\ cur'[u] = cur[u]
                                                 /\ pc'[u] = pc[u]
      PROVE  RecvOK'
  BY <1>0, <1>c DEF RecvOK
<1>1. ASSUME NEW t \in Threads, SendPost(t) PROVE RecvOK'
  <2>1. HolderStep(t)
    BY <1>1 DEF HolderStep
  <2>2. /\ UNCHANGED <<cur, op, recvIO, recvLen>>
        /\ \A u \in Threads : u # t => pc'[u] = pc[u]
    BY <1>0, <1>1, <2>1, HolderFrame, SendPostFrame
  <2>3. pc[t] \in SendPcs /\ pc'[t] \in SendPcs \cup {AfterSend(t), "breakSock"}
    BY <1>0, <1>1, SendPostFrame
  <2>4. Receiving(t)' => op[t] # "send"
    BY <2>2, <2>3 DEF Receiving, SendPcs, RecvPcs, AfterSend
  <2>5. pc[t] # "wsaRecv" /\ pc'[t] # "wsaRecv"
    BY <2>3 DEF SendPcs, AfterSend
  <2> QED
    BY <1>b, <2>2, <2>3, <2>4, <2>5 DEF Receiving
<1>2. ASSUME NEW t \in Threads, HandleStep(t) PROVE RecvOK'
  <2>1. HolderStep(t)
    BY <1>2 DEF HolderStep
  <2>2. /\ UNCHANGED <<cur, op, recvLen>>
        /\ \A u \in Threads : u # t => pc'[u] = pc[u]
    BY <1>0, <2>1, HolderFrame
  <2>3. UNCHANGED recvIO
    BY <1>2 DEF HandleStep, OnAccept, SendDone, SendDoneLeaving, FlagClear, ProcessMessage,
       ProcessEnd, ioVars
  <2>4. /\ pc[t] \in {"sendDone", "flagClear"} =>
             pc'[t] \in {"breakCount", "breakEmpty", "flagClear", "size1"}
        /\ pc[t] \notin {"sendDone", "flagClear"} => pc[t] \in {"onAccept", "loop"}
        /\ pc'[t] # "wsaRecv"
    BY <1>0, <1>2 DEF HandleStep, OnAccept, SendDone, SendDoneLeaving, FlagClear, ProcessMessage,
       ProcessEnd, SendPacket, Shape, Goto
  <2>5. pc[t] \in {"sendDone", "flagClear"} => op[t] = "send"
    BY <1>0 DEF CurOK
  <2>6. pc[t] # "wsaRecv"
    BY <2>4
  <2>7. Receiving(t)' => Receiving(t)
    BY <2>2, <2>4, <2>5 DEF Receiving, RecvPcs
  <2> QED
    BY <1>b, <2>2, <2>3, <2>4, <2>6, <2>7
<1>3. ASSUME NEW t \in Threads, RecvStep(t) PROVE RecvOK'
  <2>1. HolderStep(t)
    BY <1>3 DEF HolderStep
  <2>2. /\ UNCHANGED <<cur, op, recvLen>>
        /\ \A u \in Threads : u # t => pc'[u] = pc[u]
        /\ \A s \in Sessions : s # cur[t] => recvIO'[s] = recvIO[s]
    BY <1>0, <2>1, HolderFrame
  <2>3. /\ pc[t] \in RecvPcs
        /\ pc'[t] = "wsaRecv" => recvIO'[cur[t]] = "posting"
        /\ pc'[t] # "wsaRecv" => pc'[t] \in {"breakSock", "ioDec"}
        /\ recvIO[cur[t]] # "done"
    <3>1. cur[t] \in Sessions /\ recvIO[cur[t]] # "done"
      BY <1>0, <1>3, <1>a DEF RecvStep, RecvPost, WSARecvPosted, WSARecvFails, WSARecvFailsGiving,
         RecvPcs, RecvOK, Receiving
    <3> QED
      BY <1>0, <1>3, <3>1 DEF RecvStep, RecvPost, WSARecvPosted, WSARecvFails, WSARecvFailsGiving,
         RecvPcs, Shape, Goto, ioVars
  <2>4. \A u \in Threads : u # t /\ Receiving(u) => cur[u] # cur[t] /\ cur[u] \in Sessions
    BY <1>0, <1>a, <2>3 DEF RecvOK, Receiving
  <2>5. Receiving(t)' => pc'[t] = "wsaRecv"
    BY <2>3 DEF Receiving, RecvPcs, SendPcs
  <2>6. \A u \in Threads : u # t => (Receiving(u)' <=> Receiving(u))
    BY <2>2 DEF Receiving
  <2> QED
    BY <1>0, <2>2, <2>3, <2>4, <2>5, <2>6 DEF RecvOK
<1>4. ASSUME \E t \in Threads : IODecrement(t) \/ Release(t)
      PROVE RecvOK'
  <2>1. UNCHANGED <<recvIO, recvLen>>
    BY <1>4 DEF IODecrement, Release, ReleaseDrain, ReleaseClose, ReleaseUnsock, ReleaseFree,
       FreeSlot, ioVars
  <2>2. \A u \in Threads : Receiving(u)' =>
           Receiving(u) /\ cur'[u] = cur[u] /\ pc'[u] = pc[u]
    BY <1>0, <1>4 DEF IODecrement, Release, ReleaseDrain, ReleaseClose, ReleaseUnsock, ReleaseFree,
       FreeSlot, Goto, GoHome, Shape, Receiving, RecvPcs, SendPcs, threadVars
  <2> QED
    BY <1>c, <2>1, <2>2
\* the receive was outstanding: nobody received
<1>5. ASSUME NEW t \in Threads, NEW q \in Sessions, DequeueRecv(t, q) PROVE RecvOK'
  <2>1. \A u \in Threads : u # t => pc'[u] = pc[u] /\ op'[u] = op[u] /\ cur'[u] = cur[u]
    BY <1>0, <1>5 DEF DequeueRecv, Goto, Shape
  <2>2. pc'[t] \in {"ioDec", "loop"} /\ cur'[t] = q /\ recvIO' = [recvIO EXCEPT ![q] = "none"]
        /\ recvLen' = [recvLen EXCEPT ![q] = 0]
    <3>1. sock[q] # None
      BY <1>0, <1>5, DequeueHeld
    <3> QED
      BY <1>0, <1>5, <3>1 DEF DequeueRecv, Goto, Shape
  <2>3. recvIO[q] = "done"
    BY <1>5 DEF DequeueRecv
  <2>4. \A u \in Threads : Receiving(u) => cur[u] # q
    BY <1>0, <2>3 DEF RecvOK
  <2>5. \A s \in Sessions : s # q => recvIO'[s] = recvIO[s] /\ recvLen'[s] = recvLen[s]
    BY <1>0, <2>2 DEF Shape, DataTypes
  <2>6. recvIO'[q] = "none" /\ recvLen'[q] = 0
    BY <1>0, <2>2 DEF Shape, DataTypes
  <2>7. \A u \in Threads : u # t => (Receiving(u)' <=> Receiving(u))
    BY <2>1 DEF Receiving
  <2> QED
    BY <1>0, <1>a, <2>1, <2>2, <2>4, <2>5, <2>6, <2>7 DEF RecvOK
<1>6. ASSUME NEW t \in Threads, NEW q \in Sessions, DequeueSend(t, q) PROVE RecvOK'
  <2>1. UNCHANGED <<recvIO, recvLen>>
    BY <1>6 DEF DequeueSend
  <2>2. \A u \in Threads : Receiving(u)' =>
           Receiving(u) /\ cur'[u] = cur[u] /\ pc'[u] = pc[u]
    BY <1>0, <1>6 DEF DequeueSend, Goto, Shape, Receiving, RecvPcs, SendPcs
  <2> QED
    BY <1>c, <2>1, <2>2
<1>7. ASSUME (\E c \in Conns : Accept(c)) \/ AcceptScan PROVE RecvOK'
  <2>1. UNCHANGED <<recvIO, recvLen>>
    BY <1>7 DEF Accept, AcceptScan, ioVars
  <2>2. \A u \in Threads : Receiving(u)' =>
           Receiving(u) /\ cur'[u] = cur[u] /\ pc'[u] = pc[u]
    BY <1>0, <1>7 DEF Accept, AcceptScan, Goto, Shape, Receiving, RecvPcs, SendPcs
  <2> QED
    BY <1>c, <2>1, <2>2
\* the slot was idle: nobody received
<1>8. CASE InitSession
  <2>1. /\ UNCHANGED <<recvIO, recvLen, op>> /\ pc[Acceptor] = "init" /\ pc'[Acceptor] = "onAccept"
        /\ cur'[Acceptor] = scan /\ scan \in Sessions
        /\ \A u \in Threads : u # Acceptor => pc'[u] = pc[u] /\ cur'[u] = cur[u]
    BY <1>0, <1>8 DEF InitSession, ioVars, Goto, Shape
  <2>2. Idle(scan)
    BY <1>0, <2>1 DEF LifeOK
  <2>3. \A u \in Threads : Receiving(u) => cur[u] # scan
    BY <1>a, <2>2 DEF Idle
  <2>4. \A u \in Threads : u # Acceptor => (Receiving(u)' <=> Receiving(u))
    BY <2>1 DEF Receiving
  <2> QED
    BY <1>0, <2>1, <2>2, <2>3, <2>4 DEF RecvOK, Idle
<1>9. CASE OutsideStep
  <2>1. UNCHANGED <<pc, cur, op>>
    BY <1>0, <1>9, OutsideFrame
  <2>2. \A s \in Sessions : recvIO[s] \in {"none", "posting"} => recvIO'[s] = recvIO[s]
    BY <1>0, <1>9, OutsideFrame
  <2>3. \A s \in Sessions : recvIO'[s] # "done" => recvLen'[s] = 0
    <3>1. CASE \E c \in Conns : ClientLeaves(c)
      BY <1>0, <3>1 DEF ClientLeaves, ioVars, RecvOK
    <3>2. CASE \E s \in Sessions : KernelCompletes(s)
      BY <1>0, <3>2 DEF KernelCompletes, RecvEnds, SendCompletes, SendAborts, ioVars, RecvOK, Shape
    <3>3. CASE \E s \in Sessions : \E k \in 1 .. MaxMsg : RecvArrives(s, k)
      BY <1>0, <3>3 DEF RecvArrives, RecvOK, Shape, DataTypes
    <3> QED
      BY <1>9, <3>1, <3>2, <3>3 DEF OutsideStep
  <2> QED
    BY <1>0, <1>a, <2>1, <2>2, <2>3 DEF RecvOK, Receiving
<1> QED
  BY <1>1, <1>2, <1>3, <1>4, <1>5, <1>6, <1>7, <1>8, <1>9, NextSplit DEF HolderStep

(***************************************************************************)
(* SendExclusive                                                           *)
(***************************************************************************)
LEMMA SendSideStep ==
  ASSUME Types, Control, Next, Running'
  PROVE  SendExclusive'
<1>0. Shape /\ DataTypes /\ CurOK /\ LifeOK /\ SendExclusive
  BY TypeShape DEF Control
<1>a. \A t \in Threads : pc[t] \in FlagPcs => cur[t] \in Sessions /\ t \in At(cur[t], RefPcs)
  BY <1>0 DEF CurOK, SlotPcs, RefPcs, SendPcs, FlagPcs, At
\* no thread becomes an owner
<1>b. ASSUME UNCHANGED <<sendFlag, sendIO>>,
             \A u \in Threads : pc'[u] \in FlagPcs =>
               /\ pc[u] \in FlagPcs /\ cur'[u] = cur[u]
               /\ pc'[u] \in {"wsaSend", "failClear"} <=> pc[u] \in {"wsaSend", "failClear"}
      PROVE  SendExclusive'
  BY <1>0, <1>b DEF SendExclusive
\* a step of one thread, alone on the send side of its session
<1>c. ASSUME NEW t \in Threads, HolderStep(t),
             \A u \in Threads : u # t /\ pc[u] \in FlagPcs => cur[u] # cur[t],
             pc'[t] \in FlagPcs =>
               /\ sendFlag'[cur[t]] = 1
               /\ sendIO'[cur[t]] = IF pc'[t] \in {"wsaSend", "failClear"} THEN "posting" ELSE "none",
             sendIO'[cur[t]] # "none" => sendFlag'[cur[t]] = 1
      PROVE  SendExclusive'
  <2>1. /\ cur' = cur
        /\ \A u \in Threads : u # t => pc'[u] = pc[u]
        /\ \A s \in Sessions : s # cur[t] => sendIO'[s] = sendIO[s] /\ sendFlag'[s] = sendFlag[s]
    BY <1>0, <1>c, HolderFrame
  <2> QED
    BY <1>0, <1>a, <1>c, <2>1 DEF SendExclusive
\* an owner is alone
<1>d. ASSUME NEW t \in Threads, pc[t] \in FlagPcs
      PROVE  /\ \A u \in Threads : u # t /\ pc[u] \in FlagPcs => cur[u] # cur[t]
             /\ sendFlag[cur[t]] = 1
             /\ sendIO[cur[t]] = IF pc[t] \in {"wsaSend", "failClear"} THEN "posting" ELSE "none"
             /\ cur[t] \in Sessions
  BY <1>0, <1>a, <1>d DEF SendExclusive
<1>1. ASSUME NEW t \in Threads, SendSize1(t) \/ SendSize2(t) \/ SendGather(t) \/ SendFailDec(t)
      PROVE SendExclusive'
  BY <1>0, <1>1, <1>b DEF SendSize1, SendSize2, SizeTest, SendGather, SendFailDec,
     Shape, Goto, FlagPcs, AfterSend, sendVars, ioVars
<1>2. ASSUME NEW t \in Threads, SendXchg(t) PROVE SendExclusive'
  <2>0. HolderStep(t) /\ cur[t] \in Sessions
    BY <1>0, <1>2 DEF HolderStep, SendPost, SendXchg, SendXchgIf, CurOK, SlotPcs, RefPcs, SendPcs
  <2>1. CASE sendFlag[cur[t]] = 1
    <3>1. sendFlag' = sendFlag
      BY <1>0, <1>2, <2>0, <2>1 DEF SendXchg, SendXchgIf, Shape
    <3>2. \A u \in Threads : pc'[u] \in FlagPcs => pc'[u] = pc[u]
      BY <1>0, <1>2, <2>1 DEF SendXchg, SendXchgIf, Shape, Goto, FlagPcs, AfterSend
    <3>3. UNCHANGED <<sendIO, cur>>
      BY <1>2 DEF SendXchg, SendXchgIf, ioVars
    <3> QED
      BY <1>b, <3>1, <3>2, <3>3
  <2>2. CASE sendFlag[cur[t]] = 0
    <3>1. \A u \in Threads : pc[u] \in FlagPcs => cur[u] # cur[t]
      BY <1>0, <2>2 DEF SendExclusive
    <3>2. sendIO[cur[t]] = "none"
      BY <1>0, <2>0, <2>2 DEF SendExclusive
    <3>3. sendFlag'[cur[t]] = 1 /\ sendIO' = sendIO /\ pc'[t] = "size2"
      BY <1>0, <1>2, <2>0, <2>2 DEF SendXchg, SendXchgIf, Shape, Goto, ioVars
    <3> QED
      BY <1>c, <2>0, <3>1, <3>2, <3>3
  <2> QED
    BY <1>0, <2>0, <2>1, <2>2 DEF Shape
<1>3. ASSUME NEW t \in Threads, SendClear(t) \/ SendFailClear(t) \/ FlagClear(t)
      PROVE SendExclusive'
  <2>0. HolderStep(t) /\ pc[t] \in FlagPcs \ {"wsaSend"}
    BY <1>3 DEF HolderStep, SendPost, HandleStep, SendClear, SendFailClear, FlagClear, FlagPcs
  <2>1. sendIO'[cur[t]] = "none" /\ pc'[t] \notin FlagPcs
    BY <1>0, <1>3, <1>d, <2>0 DEF SendClear, SendFailClear, FlagClear, Shape, Goto,
       FlagPcs, AfterSend, ioVars
  <2> QED
    BY <1>c, <1>d, <2>0, <2>1
<1>4. ASSUME NEW t \in Threads,
             SendPrepare(t) \/ WSASendPosted(t) \/ WSASendFails(t) \/ SendDone(t)
      PROVE SendExclusive'
  <2>0. HolderStep(t) /\ pc[t] \in FlagPcs
    BY <1>4 DEF HolderStep, SendPost, HandleStep, SendPrepare, WSASendPosted, WSASendFails,
       SendDone, SendDoneLeaving, FlagPcs
  <2>1. cur[t] \in Sessions /\ sendFlag' = sendFlag
    BY <1>4, <1>a, <2>0 DEF SendPrepare, WSASendPosted, WSASendFails, SendDone, SendDoneLeaving,
       sendVars
  <2>2. pc'[t] \in FlagPcs =>
          sendIO'[cur[t]] = IF pc'[t] \in {"wsaSend", "failClear"} THEN "posting" ELSE "none"
    <3>1. sendIO[cur[t]] = IF pc[t] \in {"wsaSend", "failClear"} THEN "posting" ELSE "none"
      BY <1>d, <2>0
    <3> QED
      BY <1>0, <1>4, <2>1, <3>1 DEF SendPrepare, WSASendPosted, WSASendFails, SendDone,
         SendDoneLeaving, Shape, Goto, FlagPcs, AfterSend, ioVars
  <2> QED
    BY <1>c, <1>d, <2>0, <2>1, <2>2
<1>5. ASSUME NEW t \in Threads,
             \/ t = Acceptor /\ OnAccept
             \/ ProcessMessage(t) \/ ProcessEnd(t) \/ RecvStep(t)
      PROVE SendExclusive'
  <2>1. HolderStep(t)
    BY <1>5 DEF HolderStep, HandleStep
  <2>2. UNCHANGED <<sendFlag, sendIO>> /\ pc'[t] \notin FlagPcs
    BY <1>0, <1>5 DEF OnAccept, ProcessMessage, ProcessEnd, SendPacket, RecvStep, RecvPost,
       WSARecvPosted, WSARecvFails, WSARecvFailsGiving, Shape, Goto, FlagPcs, sendVars, ioVars
  <2> QED
    BY <1>0, <1>b, <2>1, <2>2, HolderFrame
<1>6. ASSUME \E t \in Threads : IODecrement(t) \/ Release(t)
      PROVE SendExclusive'
  BY <1>0, <1>6, <1>b DEF IODecrement, Release, ReleaseDrain, ReleaseClose, ReleaseUnsock,
     ReleaseFree, FreeSlot, Goto, GoHome, Shape, FlagPcs, threadVars, sendVars, ioVars
<1>7. ASSUME NEW t \in Threads, NEW q \in Sessions, DequeueRecv(t, q) PROVE SendExclusive'
  BY <1>0, <1>7, <1>b DEF DequeueRecv, Goto, Shape, FlagPcs, sendVars
\* the send was outstanding: nobody but it owned the flag
<1>8. ASSUME NEW t \in Threads, NEW q \in Sessions, DequeueSend(t, q) PROVE SendExclusive'
  <2>1. \A u \in Threads : u # t => pc'[u] = pc[u] /\ cur'[u] = cur[u]
    BY <1>0, <1>8 DEF DequeueSend, Goto, Shape
  <2>2. pc'[t] \in {"ioDec", "sendDone"} /\ cur'[t] = q /\ sendIO' = [sendIO EXCEPT ![q] = "none"]
        /\ sendFlag' = sendFlag
    <3>1. sock[q] # None
      BY <1>0, <1>8, DequeueHeld
    <3> QED
      BY <1>0, <1>8, <3>1 DEF DequeueSend, Goto, Shape, sendVars
  <2>3. sendIO[q] \in {"done", "aborted"}
    BY <1>8 DEF DequeueSend
  <2>4. sendFlag[q] = 1 /\ \A u \in Threads : pc[u] \in FlagPcs => cur[u] # q
    BY <1>0, <2>3 DEF SendExclusive
  <2>5. sendIO'[q] = "none" /\ \A s \in Sessions : s # q => sendIO'[s] = sendIO[s]
    BY <1>0, <2>2 DEF Shape
  <2> QED
    BY <1>0, <1>a, <2>1, <2>2, <2>4, <2>5 DEF SendExclusive
<1>9. ASSUME (\E c \in Conns : Accept(c)) \/ AcceptScan PROVE SendExclusive'
  BY <1>0, <1>9, <1>b DEF Accept, AcceptScan, Goto, Shape, FlagPcs, sendVars, ioVars
\* the slot was idle: nobody owned its flag
<1>10. CASE InitSession
  <2>1. /\ UNCHANGED sendIO /\ pc[Acceptor] = "init" /\ pc'[Acceptor] = "onAccept"
        /\ cur'[Acceptor] = scan /\ scan \in Sessions
        /\ sendFlag' = [sendFlag EXCEPT ![scan] = 0]
        /\ \A u \in Threads : u # Acceptor => pc'[u] = pc[u] /\ cur'[u] = cur[u]
    BY <1>0, <1>10 DEF InitSession, ioVars, Goto, Shape
  <2>2. Idle(scan)
    BY <1>0, <2>1 DEF LifeOK
  <2>3. /\ sendIO[scan] = "none"
        /\ \A u \in Threads : pc[u] \in FlagPcs => cur[u] # scan
    BY <1>a, <2>2 DEF Idle
  <2>4. \A s \in Sessions : s # scan => sendFlag'[s] = sendFlag[s]
    BY <1>0, <2>1 DEF Shape
  <2>5. \A u \in Threads : pc'[u] \in FlagPcs =>
          u # Acceptor /\ pc[u] \in FlagPcs /\ pc'[u] = pc[u] /\ cur'[u] = cur[u]
    BY <2>1 DEF FlagPcs
  <2> QED
    BY <1>0, <1>a, <2>1, <2>3, <2>4, <2>5 DEF SendExclusive
<1>11. CASE OutsideStep
  <2>1. UNCHANGED <<pc, cur, sendFlag>>
    BY <1>0, <1>11, OutsideFrame
  <2>2. \A s \in Sessions : /\ sendIO[s] \in {"none", "posting"} => sendIO'[s] = sendIO[s]
                            /\ sendIO'[s] # "none" => sendIO[s] # "none"
    BY <1>0, <1>11, OutsideFrame
  <2> QED
    BY <1>0, <1>a, <2>1, <2>2 DEF SendExclusive
<1> QED
  BY <1>1, <1>2, <1>3, <1>4, <1>5, <1>6, <1>7, <1>8, <1>9, <1>10, <1>11, NextSplit
     DEF HolderStep, SendPost, HandleStep

(***************************************************************************)
(* OwnOK                                                                   *)
(***************************************************************************)
LEMMA OwnKept ==
  ASSUME Shape, OwnOK, UNCHANGED <<sock, conn, arrived, echoed>>,
         \A u \in Threads :
           \/ /\ cur'[u] = cur[u] /\ (pc'[u] \in {"scan", "init"} <=> pc[u] \in {"scan", "init"})
              /\ (pc'[u] = "unsock" <=> pc[u] = "unsock")
           \/ /\ pc[u] \notin {"scan", "init", "unsock"}
              /\ pc'[u] \notin {"scan", "init", "unsock"}
  PROVE  OwnOK'
<1>1. \A s \in Sessions : At(s, {"unsock"})' = At(s, {"unsock"})
  BY DEF At
<1>2. /\ pc'[Acceptor] \in {"scan", "init"} <=> pc[Acceptor] \in {"scan", "init"}
      /\ pc[Acceptor] \in {"scan", "init"} => cur'[Acceptor] = cur[Acceptor]
  BY DEF Shape
<1> QED
  BY <1>1, <1>2 DEF OwnOK

LEMMA OwnStep ==
  ASSUME Types, Control, Next, Running'
  PROVE  OwnOK'
<1>0. Shape /\ DataTypes /\ CurOK /\ LifeOK /\ OwnOK
  BY TypeShape DEF Control
<1>1. ASSUME NEW t \in Threads, HolderStep(t) PROVE OwnOK'
  <2>1. /\ UNCHANGED <<sock, conn, arrived, echoed, cur>>
        /\ pc[t] \notin {"scan", "init", "unsock"} /\ pc'[t] \notin {"scan", "init", "unsock"}
        /\ \A u \in Threads : u # t => pc'[u] = pc[u]
    BY <1>0, <1>1, HolderFrame DEF RefPcs, SendPcs
  <2> QED
    BY <1>0, <2>1, OwnKept
<1>2. ASSUME NEW t \in Threads, IODecrement(t) \/ ReleaseDrain(t) \/ ReleaseFree(t) PROVE OwnOK'
  <2>1. /\ UNCHANGED <<sock, conn, arrived, echoed>>
        /\ pc[t] \notin {"scan", "init", "unsock"} /\ pc'[t] \notin {"scan", "init", "unsock"}
        /\ \A u \in Threads : u # t => pc'[u] = pc[u] /\ cur'[u] = cur[u]
    BY <1>0, <1>2 DEF IODecrement, ReleaseDrain, ReleaseFree, FreeSlot, Goto, GoHome, Shape,
       slotVars, netVars
  <2> QED
    BY <1>0, <2>1, OwnKept
<1>3. ASSUME NEW t \in Threads, NEW q \in Sessions, DequeueRecv(t, q) \/ DequeueSend(t, q)
      PROVE  OwnOK'
  <2>1. /\ UNCHANGED <<sock, conn, arrived, echoed>>
        /\ pc[t] \notin {"scan", "init", "unsock"} /\ pc'[t] \notin {"scan", "init", "unsock"}
        /\ \A u \in Threads : u # t => pc'[u] = pc[u] /\ cur'[u] = cur[u]
    BY <1>0, <1>3, DequeueHeld DEF slotVars, netVars
  <2> QED
    BY <1>0, <2>1, OwnKept
<1>4. CASE AcceptScan
  <2>1. /\ UNCHANGED <<sock, conn, arrived, echoed, cur>>
        /\ pc[Acceptor] = "scan" /\ pc'[Acceptor] \in {"scan", "init"}
        /\ \A u \in Threads : u # Acceptor => pc'[u] = pc[u]
    BY <1>0, <1>4 DEF AcceptScan, Goto, Shape, netVars, Running, BreakPcs
  <2> QED
    BY <1>0, <2>1, OwnKept
\* the socket is closed, then forgotten
<1>5. ASSUME NEW t \in Threads, ReleaseClose(t) PROVE OwnOK'
  <2>1. PICK q \in Sessions : q = cur[t]
    BY <1>0, <1>5 DEF CurOK, SlotPcs, ReleaseClose, ReleasePcs
  <2>2. PICK d \in Conns : d = sock[q]
    BY <1>0, <1>5, <2>1 DEF LifeOK, ReleaseClose, ReleasePcs
  <2>3. /\ UNCHANGED <<sock, arrived, echoed, cur>> /\ conn' = [conn EXCEPT ![d] = "closed"]
        /\ pc[t] = "close" /\ pc'[t] = "unsock"
        /\ \A u \in Threads : u # t => pc'[u] = pc[u]
    BY <1>0, <1>5, <2>1, <2>2 DEF ReleaseClose, Goto, Shape, slotVars
  <2>4. At(q, {"unsock"})' # {} /\ \A s \in Sessions : s # q => At(s, {"unsock"})' = At(s, {"unsock"})
    BY <2>1, <2>3 DEF At
  <2>5. \A s \in Sessions : s # q /\ sock[s] \in Conns => sock[s] # d
    BY <1>0, <2>2 DEF OwnOK
  <2>6. conn'[d] = "closed" /\ \A c \in Conns : c # d => conn'[c] = conn[c]
    BY <1>0, <2>3 DEF Shape
  <2>7. t # Acceptor \/ pc[Acceptor] \notin {"scan", "init"}
    BY <2>3
  <2>8. pc'[Acceptor] \in {"scan", "init"} <=> pc[Acceptor] \in {"scan", "init"}
    BY <1>0, <2>3 DEF Shape
  <2>9. pc[Acceptor] \in {"scan", "init"} => cur[Acceptor] # d /\ cur[Acceptor] \in Conns
    BY <1>0, <2>2 DEF OwnOK, CurOK
  <2> QED
    BY <1>0, <2>2, <2>3, <2>4, <2>5, <2>6, <2>8, <2>9 DEF OwnOK
<1>6. ASSUME NEW t \in Threads, ReleaseUnsock(t) PROVE OwnOK'
  <2>1. PICK q \in Sessions : q = cur[t]
    BY <1>0, <1>6 DEF CurOK, SlotPcs, ReleaseUnsock, ReleasePcs
  <2>2. PICK d \in Conns : d = sock[q]
    BY <1>0, <1>6, <2>1 DEF LifeOK, ReleaseUnsock, ReleasePcs
  <2>3. /\ UNCHANGED <<conn, arrived, echoed, cur>> /\ sock' = [sock EXCEPT ![q] = None]
        /\ pc[t] = "unsock" /\ pc'[t] = "free"
        /\ \A u \in Threads : u # t => pc'[u] = pc[u]
    BY <1>0, <1>6, <2>1 DEF ReleaseUnsock, Goto, Shape, netVars
  <2>4. t \in At(q, {"unsock"}) /\ \A s \in Sessions : s # q => At(s, {"unsock"})' = At(s, {"unsock"})
    BY <2>1, <2>3 DEF At
  <2>5. conn[d] = "closed"
    BY <1>0, <2>2, <2>4 DEF OwnOK
  <2>6. sock'[q] = None /\ None \notin Conns /\ \A s \in Sessions : s # q => sock'[s] = sock[s]
    BY <1>0, <2>3 DEF Shape
  <2>7. pc'[Acceptor] \in {"scan", "init"} <=> pc[Acceptor] \in {"scan", "init"}
    BY <1>0, <2>3 DEF Shape
  <2>8. pc[Acceptor] \in {"scan", "init"} => cur[Acceptor] \in Conns
    BY <1>0 DEF CurOK
  <2>9. \A c \in Conns : conn[c] # "closed" => \A s \in Sessions : sock[s] = c => s # q
    BY <2>2, <2>5
  <2> QED
    BY <1>0, <2>2, <2>3, <2>4, <2>5, <2>6, <2>7, <2>8, <2>9 DEF OwnOK
<1>7. ASSUME NEW c \in Conns, Accept(c) PROVE OwnOK'
  <2>1. /\ UNCHANGED <<sock, arrived, echoed>> /\ conn' = [conn EXCEPT ![c] = "open"]
        /\ conn[c] = "new" /\ pc[Acceptor] = "accept" /\ pc'[Acceptor] = "scan"
        /\ cur'[Acceptor] = c
        /\ \A u \in Threads : u # Acceptor => pc'[u] = pc[u] /\ cur'[u] = cur[u]
    BY <1>0, <1>7 DEF Accept, Goto, Shape, slotVars
  <2>2. \A s \in Sessions : At(s, {"unsock"})' = At(s, {"unsock"})
    BY <2>1 DEF At
  <2>3. \A s \in Sessions : sock[s] # c
    BY <1>0, <2>1 DEF OwnOK
  <2>4. conn'[c] = "open" /\ \A d \in Conns : d # c => conn'[d] = conn[d]
    BY <1>0, <2>1 DEF Shape
  <2> QED
    BY <1>0, <2>1, <2>2, <2>3, <2>4 DEF OwnOK
<1>8. CASE InitSession
  <2>1. PICK d \in Conns : d = cur[Acceptor]
    BY <1>0, <1>8 DEF InitSession, CurOK
  <2>2. /\ UNCHANGED <<conn, arrived, echoed>> /\ sock' = [sock EXCEPT ![scan] = d]
        /\ pc[Acceptor] = "init" /\ pc'[Acceptor] = "onAccept" /\ scan \in Sessions
        /\ cur'[Acceptor] = scan
        /\ \A u \in Threads : u # Acceptor => pc'[u] = pc[u] /\ cur'[u] = cur[u]
    BY <1>0, <1>8, <2>1 DEF InitSession, Goto, Shape, netVars
  <2>3. \A s \in Sessions : At(s, {"unsock"})' = At(s, {"unsock"})
    BY <2>2 DEF At
  <2>4. At(scan, {"unsock"}) = {} /\ sock[scan] = None
    BY <1>0, <2>2 DEF LifeOK, At, ReleasePcs
  <2>5. sock'[scan] = d /\ \A s \in Sessions : s # scan => sock'[s] = sock[s]
    BY <1>0, <2>2 DEF Shape
  <2>6. conn[d] \notin {"new", "closed"} /\ \A s \in Sessions : sock[s] # d
    BY <1>0, <2>1, <2>2 DEF OwnOK
  <2>7. \A c \in Conns : conn[c] \notin {"new", "closed"} => \E s \in Sessions : sock'[s] = c
    <3>1. \A s \in Sessions : sock[s] \in Conns => sock'[s] = sock[s]
      BY <1>0, <2>4, <2>5 DEF Shape
    <3>2. \A c \in Conns : conn[c] \notin {"new", "closed"} => c = d \/ \E s \in Sessions : sock[s] = c
      BY <1>0, <2>1, <2>2 DEF OwnOK
    <3> QED
      BY <2>2, <2>5, <3>1, <3>2
  <2> QED
    BY <1>0, <2>2, <2>3, <2>4, <2>5, <2>6, <2>7 DEF OwnOK
\* messages and echoes are for connections that have a session
<1>9. CASE OutsideStep
  <2>0. UNCHANGED <<pc, cur, sock>> /\ \A s \in Sessions : At(s, {"unsock"})' = At(s, {"unsock"})
    BY <1>0, <1>9, OutsideFrame DEF At
  <2>a. pc[Acceptor] \in {"scan", "init"} => cur[Acceptor] \in Conns
    BY <1>0 DEF CurOK
  <2>1. ASSUME NEW c \in Conns, ClientLeaves(c) PROVE OwnOK'
    <3>1. /\ UNCHANGED <<arrived, echoed>> /\ conn[c] \in {"open", "fin"}
          /\ \E x \in {"fin", "reset"} : conn' = [conn EXCEPT ![c] = x]
      BY <2>1 DEF ClientLeaves
    <3>2. conn'[c] \in {"fin", "reset"} /\ \A d \in Conns : d # c => conn'[d] = conn[d]
      BY <1>0, <3>1 DEF Shape
    <3>3. \A d \in Conns : /\ conn'[d] = "new" <=> conn[d] = "new"
                           /\ conn'[d] = "closed" <=> conn[d] = "closed"
      BY <3>1, <3>2
    <3> QED
      BY <1>0, <2>0, <2>a, <3>1, <3>3 DEF OwnOK
  <2>2. ASSUME NEW s \in Sessions, ~Idle(s), conn' = conn,
               \A d \in Conns : d # sock[s] => arrived'[d] = arrived[d] /\ echoed'[d] = echoed[d]
        PROVE  OwnOK'
    <3>1. PICK e \in Conns : e = sock[s]
      BY <1>0, <2>2 DEF LifeOK
    <3>2. conn[e] # "new" /\ (pc[Acceptor] \in {"scan", "init"} => cur[Acceptor] # e)
      BY <1>0, <3>1 DEF OwnOK
    <3>3. \A d \in Conns : d # e => arrived'[d] = arrived[d] /\ echoed'[d] = echoed[d]
      BY <2>2, <3>1
    <3> QED
      BY <1>0, <2>0, <2>2, <2>a, <3>1, <3>2, <3>3 DEF OwnOK
  <2>3. ASSUME NEW s \in Sessions, KernelCompletes(s) PROVE OwnOK'
    <3>1. ~Idle(s) /\ conn' = conn
          /\ \A d \in Conns : d # sock[s] => arrived'[d] = arrived[d] /\ echoed'[d] = echoed[d]
      BY <1>0, <2>3 DEF KernelCompletes, RecvEnds, SendCompletes, SendAborts, Idle, netVars,
         DataTypes
    <3> QED
      BY <2>2, <3>1
  <2>4. ASSUME NEW s \in Sessions, NEW k \in 1 .. MaxMsg, RecvArrives(s, k) PROVE OwnOK'
    <3>1. ~Idle(s) /\ conn' = conn
          /\ \A d \in Conns : d # sock[s] => arrived'[d] = arrived[d] /\ echoed'[d] = echoed[d]
      BY <1>0, <2>4 DEF RecvArrives, Idle, DataTypes
    <3> QED
      BY <2>2, <3>1
  <2> QED
    BY <1>9, <2>1, <2>3, <2>4 DEF OutsideStep
<1> QED
  BY <1>1, <1>2, <1>3, <1>4, <1>5, <1>6, <1>7, <1>8, <1>9, NextSplit DEF Release

(***************************************************************************)
(* AloneOK                                                                 *)
(***************************************************************************)
StartPcs == {"onAccept", "size1", "xchg"}

LEMMA AloneStep ==
  ASSUME Types, Control, Next, Running'
  PROVE  AloneOK'
<1>0. Shape /\ DataTypes /\ CurOK /\ LifeOK /\ OwnOK /\ RecvOK /\ AloneOK
  BY TypeShape DEF Control
<1> DEFINE a == cur[Acceptor]
           c == sock[a]
<1>a. ASSUME Receiving(Acceptor)
      PROVE  /\ a \in Sessions /\ ~Idle(a) /\ c \in Conns /\ recvIO[a] \in {"none", "posting"}
             /\ arrived[c] = 0
             /\ \A t \in Threads : pc[t] \in ReleasePcs => cur[t] # a
             /\ pc[Acceptor] \in StartPcs =>
                  /\ sendIO[a] = "none"
                  /\ \A t \in Threads : t # Acceptor => ~(cur[t] = a /\ pc[t] \in RefPcs)
  <2>1. a \in Sessions /\ Acceptor \in At(a, RefPcs)
    BY <1>0, <1>a DEF CurOK, SlotPcs, RefPcs, SendPcs, Receiving, RecvPcs, At, Shape
  <2>2. ~Idle(a)
    BY <2>1 DEF Idle
  <2>3. pc[Acceptor] \in StartPcs =>
          /\ sendIO[a] = "none"
          /\ \A t \in Threads : t # Acceptor => ~(cur[t] = a /\ pc[t] \in RefPcs)
    BY <1>0 DEF AloneOK, StartPcs, At
  <2>4. recvIO[a] \in {"none", "posting"}
    BY <1>0, <1>a DEF RecvOK, Shape
  <2> HIDE DEF a
  <2>5. arrived[sock[a]] = 0
    BY <1>0, <1>a DEF AloneOK, a
  <2> QED
    BY <1>0, <2>1, <2>2, <2>3, <2>4, <2>5 DEF LifeOK
<1>b. pc[Acceptor] \in StartPcs => op[Acceptor] # "send" /\ Receiving(Acceptor)
  BY <1>0 DEF CurOK, SlotPcs, RefPcs, SendPcs, StartPcs, Receiving, RecvPcs, Shape
<1> HIDE DEF a, c
\* a step that does not touch the session of the accept thread
<1>c. ASSUME pc'[Acceptor] = pc[Acceptor], cur'[Acceptor] = cur[Acceptor],
             op'[Acceptor] = op[Acceptor],
             Receiving(Acceptor) => sock'[a] = sock[a] /\ arrived'[c] = arrived[c],
             pc[Acceptor] \in StartPcs =>
               /\ \A t \in Threads : t # Acceptor => ~(cur'[t] = a /\ pc'[t] \in RefPcs)
               /\ sendIO'[a] = sendIO[a] /\ sendFlag'[a] = sendFlag[a]
               /\ sendBuf'[a] = sendBuf[a] /\ sendCount'[a] = sendCount[a]
               /\ echoed'[c] = echoed[c]
      PROVE  AloneOK'
  <2>1. Receiving(Acceptor)' <=> Receiving(Acceptor)
    BY <1>c DEF Receiving
  <2>2. pc[Acceptor] \in StartPcs => At(a, RefPcs)' = {Acceptor}
    BY <1>0, <1>c DEF At, StartPcs, RefPcs, SendPcs, Shape, a
  <2>3. a' = a
    BY <1>c DEF a
  <2>4. pc[Acceptor] \in StartPcs => At(cur[Acceptor], RefPcs)' = {Acceptor}
    BY <2>2, <2>3 DEF a
  <2>5. Receiving(Acceptor) => sock'[cur'[Acceptor]] = sock[cur[Acceptor]]
    BY <1>c DEF a
  <2> QED
    BY <1>0, <1>b, <1>c, <2>1, <2>4, <2>5 DEF AloneOK, StartPcs, a, c
\* the accept thread itself, within SendPost and RecvPost
<1>1. ASSUME HolderStep(Acceptor), ~OnAccept PROVE AloneOK'
  <2>1. /\ UNCHANGED <<cur, op, sock, arrived, echoed>>
        /\ \A u \in Threads : u # Acceptor => pc'[u] = pc[u]
        /\ pc'[Acceptor] \in RefPcs /\ pc[Acceptor] \in RefPcs /\ op[Acceptor] = "accept"
        /\ a \in Sessions
    BY <1>0, <1>1, HolderFrame DEF Shape, CurOK, SlotPcs, a
  <2>2. /\ pc'[Acceptor] # "onAccept"
        /\ pc'[Acceptor] \in StartPcs =>
             /\ pc[Acceptor] \in StartPcs /\ UNCHANGED <<sendIO, sendFlag>>
        /\ Receiving(Acceptor)' => Receiving(Acceptor)
    <3>1. CASE SendPost(Acceptor)
      BY <1>0, <2>1, <3>1 DEF SendPost, SendSize1, SendSize2, SizeTest, SendXchg, SendXchgIf,
         SendClear, SendGather, SendPrepare, WSASendPosted, WSASendFails, SendFailClear,
         SendFailDec, AfterSend, Goto, Shape, StartPcs, Receiving, RecvPcs, SendPcs, sendVars, ioVars
    <3>2. CASE RecvStep(Acceptor)
      BY <1>0, <2>1, <3>2 DEF RecvStep, RecvPost, WSARecvPosted, WSARecvFails, WSARecvFailsGiving,
         Goto, Shape, StartPcs, Receiving, RecvPcs, SendPcs
    <3>3. CASE HandleStep(Acceptor)
      <4>1. pc[Acceptor] \in {"sendDone", "flagClear", "loop"}
        BY <1>1, <3>3
           DEF HandleStep, SendDone, SendDoneLeaving, FlagClear, ProcessMessage, ProcessEnd
      <4>2. op[Acceptor] \in {"send", "recv"}
        BY <1>0, <4>1 DEF CurOK, Shape
      <4> QED
        BY <2>1, <4>2
    <3> QED
      BY <1>1, <3>1, <3>2, <3>3 DEF HolderStep
  <2>3. \A s \in Sessions : At(s, RefPcs)' = At(s, RefPcs)
    BY <2>1 DEF At
  <2>4. Receiving(Acceptor)' => arrived'[sock'[cur'[Acceptor]]] = 0
    BY <1>0, <2>1, <2>2 DEF AloneOK
  <2>5. pc'[Acceptor] \in StartPcs => At(cur[Acceptor], RefPcs)' = {Acceptor}
    <3>1. pc[Acceptor] \in StartPcs => At(cur[Acceptor], RefPcs) = {Acceptor}
      BY <1>0 DEF AloneOK, StartPcs
    <3>2. At(a, RefPcs)' = At(a, RefPcs)
      BY <2>1 DEF At, a
    <3> QED
      BY <2>1, <2>2, <3>1, <3>2 DEF a
  <2> QED
    BY <1>0, <2>1, <2>2, <2>4, <2>5 DEF AloneOK, StartPcs
<1>2. CASE OnAccept
  <2>1. HolderStep(Acceptor)
    BY <1>2 DEF HolderStep, HandleStep
  <2>2. /\ UNCHANGED <<cur, op, sock, arrived, echoed, sendIO, sendFlag>>
        /\ \A u \in Threads : u # Acceptor => pc'[u] = pc[u]
        /\ pc[Acceptor] = "onAccept" /\ pc'[Acceptor] \in {"size1", "breakFull"}
        /\ pc'[Acceptor] \in RefPcs
    BY <1>0, <1>2, <2>1, HolderFrame DEF Shape, OnAccept, SendPacket, Goto, ioVars
  <2>3. Receiving(Acceptor) /\ pc'[Acceptor] = "size1"
    BY <2>2 DEF Receiving, RecvPcs, RefPcs, SendPcs
  <2>4. At(cur[Acceptor], RefPcs)' = {Acceptor}
    <3>1. At(a, RefPcs)' = At(a, RefPcs)
      BY <2>2 DEF At, RefPcs, SendPcs, a
    <3> QED
      BY <1>0, <2>2, <3>1 DEF AloneOK, a
  <2> QED
    BY <1>0, <2>2, <2>3, <2>4 DEF AloneOK
<1>3. ASSUME NEW t \in Threads, HolderStep(t), t # Acceptor PROVE AloneOK'
  <2>1. /\ UNCHANGED <<cur, op, sock, arrived, echoed>>
        /\ \A u \in Threads : u # t => pc'[u] = pc[u]
        /\ pc'[t] \in RefPcs /\ pc[t] \in RefPcs
        /\ \A s \in Sessions : s # cur[t] =>
              /\ sendIO'[s] = sendIO[s] /\ sendFlag'[s] = sendFlag[s]
              /\ sendCount'[s] = sendCount[s] /\ sendBuf'[s] = sendBuf[s]
    BY <1>0, <1>3, HolderFrame
  <2>2. pc[Acceptor] \in StartPcs =>
          /\ a \in Sessions /\ a # cur[t]
          /\ \A u \in Threads : u # Acceptor => ~(cur'[u] = a /\ pc'[u] \in RefPcs)
    BY <1>3, <1>a, <1>b, <2>1
  <2>3. pc'[Acceptor] = pc[Acceptor]
    BY <1>0, <1>3, <2>1 DEF Shape
  <2> QED
    BY <1>3, <1>c, <2>1, <2>2, <2>3
<1>4. ASSUME NEW t \in Threads, IODecrement(t) PROVE AloneOK'
  <2>1. /\ UNCHANGED <<sendIO, sendFlag, sendBuf, sendCount, sock, arrived, echoed>>
        /\ \A u \in Threads : u # t => pc'[u] = pc[u] /\ cur'[u] = cur[u] /\ op'[u] = op[u]
        /\ pc[t] = "ioDec" /\ pc'[t] \in {"drain", "accept", "gqcs"}
    BY <1>0, <1>4 DEF IODecrement, Goto, GoHome, Shape, sendVars, ioVars, slotVars, netVars
  <2>2. CASE t = Acceptor
    BY <2>1, <2>2 DEF AloneOK, Receiving, RecvPcs, SendPcs
  <2>3. CASE t # Acceptor
    <3>1. pc'[t] \notin RefPcs /\ Acceptor \in Threads
      BY <1>0, <2>1 DEF RefPcs, SendPcs, Shape
    <3>2. pc[Acceptor] \in StartPcs =>
            \A u \in Threads : u # Acceptor => ~(cur'[u] = a /\ pc'[u] \in RefPcs)
      BY <1>a, <1>b, <2>1, <3>1
    <3> QED
      BY <1>c, <2>1, <2>3, <3>1, <3>2
  <2> QED
    BY <2>2, <2>3
<1>5. ASSUME NEW t \in Threads, Release(t) PROVE AloneOK'
  <2>1. /\ UNCHANGED <<sendIO, sendFlag, sendCount, arrived, echoed>>
        /\ \A u \in Threads : u # t => pc'[u] = pc[u] /\ cur'[u] = cur[u] /\ op'[u] = op[u]
        /\ pc[t] \in ReleasePcs /\ pc'[t] \in {"close", "unsock", "free", "accept", "gqcs"}
        /\ \A s \in Sessions : s # cur[t] => sock'[s] = sock[s] /\ sendBuf'[s] = sendBuf[s]
    BY <1>0, <1>5 DEF Release, ReleaseDrain, ReleaseClose, ReleaseUnsock, ReleaseFree, FreeSlot,
       ReleasePcs, Goto, GoHome, Shape, DataTypes, sendVars, ioVars, slotVars, netVars
  <2>2. CASE t = Acceptor
    BY <2>1, <2>2 DEF AloneOK, Receiving, RecvPcs, SendPcs
  <2>3. CASE t # Acceptor
    <3>1. pc'[t] \notin RefPcs /\ Acceptor \in Threads
      BY <1>0, <2>1 DEF RefPcs, SendPcs, Shape
    <3>2. pc[Acceptor] \in StartPcs =>
            \A u \in Threads : u # Acceptor => ~(cur'[u] = a /\ pc'[u] \in RefPcs)
      BY <1>a, <1>b, <2>1, <3>1
    <3>3. Receiving(Acceptor) => cur[t] # a /\ a \in Sessions
      BY <1>a, <2>1
    <3> QED
      BY <1>b, <1>c, <2>1, <2>3, <3>1, <3>2, <3>3
  <2> QED
    BY <2>2, <2>3
<1>6. ASSUME NEW t \in Threads, NEW q \in Sessions, DequeueRecv(t, q) \/ DequeueSend(t, q)
      PROVE  AloneOK'
  <2>1. /\ UNCHANGED <<scan, slotVars, ioCount, sendVars, netVars>> /\ t # Acceptor
        /\ \A u \in Threads : u # t => pc'[u] = pc[u] /\ cur'[u] = cur[u] /\ op'[u] = op[u]
        /\ cur'[t] = q
        /\ \A s \in Sessions : s # q => sendIO'[s] = sendIO[s]
    BY <1>0, <1>6, DequeueHeld
  <2>2. recvIO[q] = "done" \/ sendIO[q] \in {"done", "aborted"}
    BY <1>6 DEF DequeueRecv, DequeueSend
  <2>3. pc[Acceptor] \in StartPcs =>
          /\ a # q /\ a \in Sessions
          /\ \A u \in Threads : u # Acceptor => ~(cur'[u] = a /\ pc'[u] \in RefPcs)
    BY <1>a, <1>b, <2>1, <2>2
  <2>4. pc'[Acceptor] = pc[Acceptor] /\ cur'[Acceptor] = cur[Acceptor] /\ op'[Acceptor] = op[Acceptor]
    BY <1>0, <2>1 DEF Shape
  <2> QED
    BY <1>c, <2>1, <2>3, <2>4 DEF slotVars, sendVars, netVars
<1>7. ASSUME (\E d \in Conns : Accept(d)) \/ AcceptScan PROVE AloneOK'
  <2>1. pc'[Acceptor] \in {"scan", "init", "breakSlots"}
    BY <1>0, <1>7 DEF Accept, AcceptScan, Goto, Shape
  <2> QED
    BY <2>1 DEF AloneOK, Receiving, RecvPcs, SendPcs
<1>8. CASE InitSession
  <2>1. PICK d \in Conns : d = cur[Acceptor]
    BY <1>0, <1>8 DEF InitSession, CurOK
  <2>2. /\ UNCHANGED <<arrived, echoed, sendIO, scan>> /\ sock' = [sock EXCEPT ![scan] = d]
        /\ pc[Acceptor] = "init" /\ pc'[Acceptor] = "onAccept" /\ scan \in Sessions
        /\ cur'[Acceptor] = scan
        /\ \A u \in Threads : u # Acceptor => pc'[u] = pc[u] /\ cur'[u] = cur[u]
    BY <1>0, <1>8, <2>1 DEF InitSession, Goto, Shape, netVars, ioVars
  <2>3. sendFlag'[scan] = 0 /\ sendBuf'[scan] = <<>> /\ sendCount'[scan] = 0
    BY <1>0, <1>8, <2>2 DEF InitSession, Shape, DataTypes
  <2>4. Idle(scan)
    BY <1>0, <2>2 DEF LifeOK
  <2>5. At(scan, RefPcs)' = {Acceptor} /\ sendIO'[scan] = "none"
    BY <1>0, <2>2, <2>4 DEF Idle, At, RefPcs, Shape
  <2>6. At(cur[Acceptor], RefPcs)' = {Acceptor}
    BY <2>2, <2>5 DEF At
  <2>7. sock'[scan] = d /\ arrived[d] = 0 /\ echoed[d] = <<>>
    BY <1>0, <2>1, <2>2 DEF OwnOK, Shape
  <2> QED
    BY <2>2, <2>3, <2>5, <2>6, <2>7 DEF AloneOK
<1>9. CASE OutsideStep
  <2>1. UNCHANGED <<pc, cur, op, sock, sendFlag, sendBuf, sendCount>>
    BY <1>0, <1>9, OutsideFrame
  <2>2. pc[Acceptor] \in StartPcs => sendIO'[a] = sendIO[a]
    BY <1>0, <1>9, <1>a, <1>b, OutsideFrame
  <2>3. Receiving(Acceptor) => arrived'[c] = arrived[c]
    <3>1. CASE UNCHANGED arrived
      BY <3>1
    <3>2. ASSUME NEW s \in Sessions, NEW k \in 1 .. MaxMsg, RecvArrives(s, k), Receiving(Acceptor)
          PROVE  arrived'[c] = arrived[c]
      <4>1. s # a /\ ~Idle(s)
        BY <1>a, <3>2 DEF RecvArrives, Idle
      <4>2. sock[s] # c
        BY <1>0, <1>a, <3>2, <4>1 DEF OwnOK, LifeOK, c
      <4> QED
        BY <1>0, <1>a, <3>2, <4>2 DEF RecvArrives, DataTypes
    <3>3. UNCHANGED arrived \/ \E s \in Sessions : \E k \in 1 .. MaxMsg : RecvArrives(s, k)
      BY <1>9 DEF OutsideStep, ClientLeaves, KernelCompletes, RecvEnds, SendCompletes, SendAborts,
         netVars
    <3> QED
      BY <3>1, <3>2, <3>3
  <2>4. pc[Acceptor] \in StartPcs => echoed'[c] = echoed[c]
    <3>1. CASE UNCHANGED echoed
      BY <3>1
    <3>2. ASSUME NEW s \in Sessions, SendCompletes(s), pc[Acceptor] \in StartPcs
          PROVE  echoed'[c] = echoed[c]
      <4>1. s # a /\ ~Idle(s)
        BY <1>a, <1>b, <3>2 DEF SendCompletes, Idle
      <4>2. sock[s] # c
        BY <1>0, <1>a, <1>b, <3>2, <4>1 DEF OwnOK, LifeOK, c
      <4> QED
        BY <1>0, <1>a, <1>b, <3>2, <4>2 DEF SendCompletes, DataTypes
    <3>3. UNCHANGED echoed \/ \E s \in Sessions : SendCompletes(s)
      BY <1>9 DEF OutsideStep, ClientLeaves, KernelCompletes, RecvEnds, RecvArrives, SendAborts,
         netVars
    <3> QED
      BY <3>1, <3>2, <3>3
  <2>5. pc[Acceptor] \in StartPcs =>
          \A u \in Threads : u # Acceptor => ~(cur'[u] = a /\ pc'[u] \in RefPcs)
    BY <1>a, <1>b, <2>1
  <2> QED
    BY <1>c, <2>1, <2>2, <2>3, <2>4, <2>5
<1> QED
  BY <1>1, <1>2, <1>3, <1>4, <1>5, <1>6, <1>7, <1>8, <1>9, NextSplit

LEMMA ControlStep ==
  ASSUME Types, Control, Next, Running'
  PROVE  Control'
BY CurStep, CountStep, LifeStep, OwnStep, RecvSideStep, SendSideStep, AloneStep DEF Control

(***************************************************************************)
(* A step into a DebugBreak                                                *)
(***************************************************************************)
\* Only a full ring, and a count of packets that are not in it, break.
LEMMA BreakStep ==
  ASSUME Types, Control, Next, ~Running'
  PROVE  \E t \in Threads :
           /\ SendDone(t) \/ ProcessMessage(t) \/ (t = Acceptor /\ OnAccept)
           /\ pc'[t] \in {"breakFull", "breakCount", "breakEmpty"} /\ cur' = cur
           /\ UNCHANGED <<sendFlag, sendIO>> /\ \A u \in Threads : u # t => pc'[u] = pc[u]
<1>0. Shape /\ CurOK /\ DataTypes /\ Running
  BY TypeShape DEF Control, Next
<1>1. PICK t \in Threads : pc'[t] \in BreakPcs
  BY DEF Running
<1>2. pc[t] \notin BreakPcs
  BY <1>0 DEF Running
<1> USE <1>0, <1>1, <1>2 DEF Shape, Goto, BreakPcs
<1>3. ASSUME NEW u \in Threads, pc'[u] = pc[u] PROVE u # t
  BY <1>3
<1>4. ASSUME NEW u \in Threads, SendPost(u) PROVE FALSE
  <2>1. /\ pc[u] \in RefPcs /\ AfterSend(u) \notin BreakPcs
    BY <1>4 DEF SendPost, SendSize1, SendSize2, SizeTest, SendXchg, SendXchgIf, SendClear,
       SendGather, SendPrepare, WSASendPosted, WSASendFails, SendFailClear, SendFailDec,
       RefPcs, SendPcs, AfterSend
  <2>2. sock[cur[u]] # None
    BY <2>1, Held
  <2>3. \E l \in {"xchg", "size2", "clear", "gather", "post", "wsaSend", "failClear", "failDec",
                  AfterSend(u)} : pc' = [pc EXCEPT ![u] = l]
    BY <1>4, <2>2 DEF SendPost, SendSize1, SendSize2, SizeTest, SendXchg, SendXchgIf, SendClear,
       SendGather, SendPrepare, WSASendPosted, WSASendFails, SendFailClear, SendFailDec
  <2> QED
    BY <2>1, <2>3
<1>5. ASSUME NEW u \in Threads, RecvStep(u) PROVE FALSE
  <2>1. sock[cur[u]] # None
    BY <1>5, Held DEF RecvStep, RecvPost, WSARecvPosted, WSARecvFails, WSARecvFailsGiving, RefPcs
  <2> QED
    BY <1>5, <2>1 DEF RecvStep, RecvPost, WSARecvPosted, WSARecvFails, WSARecvFailsGiving
<1>6. ASSUME NEW u \in Threads, FlagClear(u) \/ ProcessEnd(u) \/ IODecrement(u) \/ Release(u)
      PROVE  FALSE
  BY <1>6 DEF FlagClear, ProcessEnd, IODecrement, Release, ReleaseDrain, ReleaseClose,
     ReleaseUnsock, ReleaseFree, GoHome
<1>7. ASSUME NEW u \in Threads, NEW s \in Sessions, DequeueRecv(u, s) \/ DequeueSend(u, s)
      PROVE  FALSE
  BY <1>7, DequeueHeld
<1>8. ASSUME (\E c \in Conns : Accept(c)) \/ InitSession PROVE FALSE
  BY <1>8 DEF Accept, InitSession
\* the search began with a free slot ahead, and only the accept thread takes slots
<1>9. ASSUME AcceptScan PROVE FALSE
  <2>1. pc[Acceptor] = "scan" /\ pc'[Acceptor] = "breakSlots" /\ scan = SessionMax - 1
        /\ invalidFlag[scan] # -1
    BY <1>9 DEF AcceptScan
  <2>2. PICK r \in Sessions : r >= scan /\ invalidFlag[r] = -1
    BY <2>1 DEF Control, LifeOK
  <2>3. r = scan
    BY <2>1, <2>2, ConstantsAssumption DEF Sessions
  <2> QED
    BY <2>1, <2>2, <2>3
<1>10. ASSUME OutsideStep PROVE FALSE
  BY <1>10, OutsideFrame
<1>11. ASSUME NEW u \in Threads, SendDone(u) \/ ProcessMessage(u) \/ (u = Acceptor /\ OnAccept)
       PROVE  /\ u = t /\ cur' = cur /\ UNCHANGED <<sendFlag, sendIO>>
              /\ pc'[t] \in {"breakFull", "breakCount", "breakEmpty"}
              /\ \A v \in Threads : v # u => pc'[v] = pc[v]
  BY <1>11 DEF SendDone, SendDoneLeaving, ProcessMessage, OnAccept, SendPacket, ioVars
<1> QED
  BY <1>4, <1>5, <1>6, <1>7, <1>8, <1>9, <1>10, <1>11, NextSplit DEF HolderStep, HandleStep

(***************************************************************************)
(* The theorems                                                            *)
(***************************************************************************)
LEMMA InitControl == Init => Types /\ Control /\ Running
<1> SUFFICES ASSUME Init PROVE Types /\ Control /\ Running
  OBVIOUS
<1>1. /\ 0 \in 0 .. MaxMsg /\ 0 \in Sessions /\ <<>> \in Seq(Int) /\ Len(<<>>) = 0
      /\ 0 <= RingMax /\ 0 \in Nat /\ Acceptor \in Threads
      /\ {"accept", "gqcs"} \subseteq Pcs /\ None \notin Sessions \cup Conns
      /\ Sessions \subseteq Int
  BY ConstantsAssumption DEF Pcs, Sessions, Threads
<1> USE <1>1 DEF Init
<1>2. ThreadTypes /\ SlotTypes /\ IOTypes
  BY DEF ThreadTypes, SlotTypes, IOTypes
<1>3. BufTypes /\ NetTypes
  BY DEF BufTypes, NetTypes
<1>4. \A t \in Threads : pc[t] \in {"accept", "gqcs"} /\ (pc[t] = "accept" <=> t = Acceptor)
  OBVIOUS
<1>5. Types
  BY <1>2, <1>3, TypeParts
<1>6. \A s \in Sessions : At(s, RefPcs) = {} /\ At(s, ReleasePcs) = {} /\ At(s, {"failDec"}) = {}
                          /\ At(s, {"unsock"}) = {} /\ Idle(s) /\ sock[s] = None
                          /\ invalidFlag[s] = -1 /\ ioCount[s] = 0
  BY <1>4 DEF At, RefPcs, SendPcs, ReleasePcs, Idle
<1>7. IOCountExact
  BY <1>6, IdleCount DEF IOCountExact
<1>8. CurOK
  BY <1>4 DEF CurOK, SlotPcs, RefPcs, SendPcs, ReleasePcs
<1>9. LifeOK
  BY <1>4, <1>6 DEF LifeOK, ReleasePcs
<1>10. OwnOK
  BY <1>4, <1>6 DEF OwnOK
<1>11. RecvOK /\ SendExclusive /\ AloneOK /\ Running
  BY <1>4 DEF RecvOK, SendExclusive, AloneOK, Receiving, RecvPcs, SendPcs, FlagPcs, Running, BreakPcs
<1> QED
  BY <1>5, <1>7, <1>8, <1>9, <1>10, <1>11 DEF Control

\* the invariant: the process may have stopped in a DebugBreak
IInv == Types /\ SendExclusive /\ (Running => Control)

LEMMA IInvStep ==
  ASSUME IInv, [Next]_vars
  PROVE  IInv'
<1>1. CASE UNCHANGED vars
  <2>1. UNCHANGED <<pc, cur, op, batch, scan, sock, invalidFlag, ioCount, sendFlag, sendCount,
                    sendBuf, recvIO, recvLen, sendIO, lent, conn, arrived, echoed>>
    BY <1>1 DEF vars, threadVars, slotVars, sendVars, ioVars, netVars
  <2>2. Types' <=> Types
    BY <2>1 DEF Types, TypeOK, DataTypes
  <2>4. \A s : (Idle(s)' <=> Idle(s)) /\ References(s)' = References(s)
    BY <2>1 DEF Idle, References, At, Busy
  <2>5. \A s, l : At(s, l)' = At(s, l)
    BY <2>1 DEF At
  <2>6. \A t : Receiving(t)' <=> Receiving(t)
    BY <2>1 DEF Receiving
  <2>7. (CurOK' <=> CurOK) /\ (IOCountExact' <=> IOCountExact)
    BY <2>1, <2>4 DEF CurOK, IOCountExact
  <2>8. LifeOK' <=> LifeOK
    BY <2>1, <2>4, <2>5 DEF LifeOK
  <2>9. OwnOK' <=> OwnOK
    BY <2>1, <2>5 DEF OwnOK
  <2>10. (RecvOK' <=> RecvOK) /\ (SendExclusive' <=> SendExclusive)
    BY <2>1, <2>6 DEF RecvOK, SendExclusive
  <2>11. AloneOK' <=> AloneOK
    BY <2>1, <2>5, <2>6 DEF AloneOK
  <2>12. Running' <=> Running
    BY <2>1 DEF Running
  <2> QED
    BY <2>2, <2>7, <2>8, <2>9, <2>10, <2>11, <2>12 DEF IInv, Control
<1>2. CASE Next
  <2>1. Types /\ Control
    BY <1>2 DEF Next, IInv
  <2>2. Types'
    BY <1>2, <2>1, TypesStep
  <2>3. CASE Running'
    <3>1. Control'
      BY <1>2, <2>1, <2>3, ControlStep
    <3> QED
      BY <2>2, <3>1 DEF IInv, Control
  <2>4. CASE ~Running'
    <3>1. PICK t \in Threads :
            /\ pc'[t] \in {"breakFull", "breakCount", "breakEmpty"} /\ cur' = cur
            /\ UNCHANGED <<sendFlag, sendIO>> /\ \A u \in Threads : u # t => pc'[u] = pc[u]
      BY <1>2, <2>1, <2>4, BreakStep
    <3>2. \A u \in Threads : pc'[u] \in FlagPcs => pc[u] \in FlagPcs /\ u # t
      BY <3>1 DEF FlagPcs
    <3>3. SendExclusive
      BY DEF IInv
    <3>4. SendExclusive'
      BY <3>1, <3>2, <3>3 DEF SendExclusive
    <3> QED
      BY <2>2, <2>4, <3>4 DEF IInv
  <2> QED
    BY <2>3, <2>4
<1> QED
  BY <1>1, <1>2

\* For every number of workers, slots and clients: what a running server's
\* invariant says is an invariant, whether or not a DebugBreak has ended it.
LEMMA Invariance == Spec => []IInv
<1>1. Init => IInv
  BY InitControl DEF IInv, Control
<1> QED
  BY <1>1, IInvStep, PTL DEF Spec

\* Every variable stays in its range: _IOCount and _sendCount never go below
\* zero, and no more packets are queued than fit.
THEOREM TypeCorrect == Spec => []TypeOK
BY Invariance, PTL DEF IInv, Types

\* At most one thread owns a session's _sendFlag (SendPost and the send
\* completion in NetLib.cpp), and none while a send is outstanding, for every
\* number of workers, sessions and clients.
THEOREM OneSender == Spec => []SendExclusive
BY Invariance, PTL DEF IInv

-----------------------------------------------------------------------------
(***************************************************************************)
(* The invariants                                                          *)
(***************************************************************************)
\* a ring for two windows (250 pointers, windows up to 125)
Capacity == RingMax >= 2 * Window
\* the packets of one send: a window's, or the login packet
Most == IF Window > 1 THEN Window ELSE 1

Here(s, l) == At(s, {l}) # {}
\* the client has received the packets of the send, and they are still in the ring
Delivered(s) == sendIO[s] = "done" \/ Here(s, "sendDone")
\* On a broken connection a send that failed leaves its packets in the ring,
\* and _sendCount counts them twice: no more is claimed of them.
Unbroken(s) == conn[sock[s]] # "reset" \/ Delivered(s)
\* the gathered packets are lent to Winsock, or about to be
Holding(s) == sendIO[s] \in {"pending", "done"} \/ Here(s, "post") \/ Here(s, "wsaSend")

\* what is lent is the front of the ring
LentOK(s) ==
  /\ Here(s, "gather") => sendBuf[s] # <<>>
  /\ Holding(s) =>
       /\ lent[s] # <<>> /\ Len(lent[s]) <= Len(sendBuf[s])
       /\ \A i \in 1 .. Len(lent[s]) : lent[s][i] = sendBuf[s][i]

AbortOK(s) == sendIO[s] = "aborted" \/ Here(s, "failClear") => conn[sock[s]] = "reset"

\* _sendCount is the number of packets of the send
SizeOK(s) ==
  Unbroken(s) =>
    /\ sendIO[s] \in {"pending", "done"} \/ Here(s, "wsaSend") => sendCount[s] = Len(lent[s])
    /\ sendIO[s] = "none" /\ ~Here(s, "sendDone") => sendCount[s] = 0
    /\ Here(s, "sendDone") =>
         0 < sendCount[s] /\ sendCount[s] <= Len(sendBuf[s]) /\ sendCount[s] <= Most
    /\ Holding(s) => Len(lent[s]) <= Most

\* the first send is the accept thread's, of the login packet alone
FirstPcs == {"onAccept", "size1", "xchg", "size2", "gather", "post", "wsaSend"}
FirstOK(s) ==
  conn[sock[s]] # "reset" /\ echoed[sock[s]] = <<>> =>
    \/ cur[Acceptor] = s /\ pc[Acceptor] \in FirstPcs
    \/ sendIO[s] = "pending" /\ Len(lent[s]) = 1

\* the messages of the receive that thread t has not handled yet
Behind(t) == IF op[t] = "recv" THEN batch[t] ELSE 0
\* n packets were queued so far: the login packet, and one for each message handled
Counts(s, n) ==
  /\ \A t \in Threads : cur[t] = s /\ Receiving(t) =>
       /\ n + Behind(t) = arrived[sock[s]] + IF pc[t] = "onAccept" THEN 0 ELSE 1
       /\ pc[t] \in {"recvPost", "wsaRecv"} => Behind(t) = 0
  /\ (\A t \in Threads : cur[t] = s => ~Receiving(t)) => n + recvLen[s] = arrived[sock[s]] + 1
Sent(s) == IF Delivered(s) THEN sendCount[s] ELSE 0
\* the ring holds the last of them, and the client has the others
Run(s, n) ==
  /\ Len(sendBuf[s]) <= n
  /\ \A i \in 1 .. Len(sendBuf[s]) : sendBuf[s][i] = n - Len(sendBuf[s]) + i - 1
  /\ Unbroken(s) => Len(echoed[sock[s]]) + Len(sendBuf[s]) = n + Sent(s)
\* the messages not handled yet will find room
Room(s, n) == Len(sendBuf[s]) + (arrived[sock[s]] + 1 - n) <= RingMax

Numbers(s, n) == Counts(s, n) /\ Run(s, n) /\ Room(s, n)
SendSide(s) == LentOK(s) /\ AbortOK(s) /\ SizeOK(s) /\ FirstOK(s)
SlotData(s) == SendSide(s) /\ \E n \in Nat : Numbers(s, n)

\* While a connection is open, a receive is outstanding or being handled.
Staying(s) ==
  \/ \E t \in Threads : cur[t] = s /\ Receiving(t)
  \/ recvIO[s] = "pending"
  \/ recvIO[s] = "done" /\ recvLen[s] > 0
StayOK == \A s \in Sessions : sock[s] \in Conns /\ conn[sock[s]] = "open" => Staying(s)

\* the clients keep to their window
WindowOK == \A c \in Conns : arrived[c] <= Answered(c) + Window

DataOK == (\A s \in Sessions : ~Idle(s) => SlotData(s)) /\ WindowOK

(***************************************************************************)
(* Frames                                                                  *)
(***************************************************************************)
\* where a thread is, when the invariants of its session speak of it
ActPcs == SendPcs \cup {"onAccept", "loop", "recvPost", "wsaRecv", "sendDone", "flagClear"}
Acting(t, s) == cur[t] = s /\ pc[t] \in ActPcs

\* a step elsewhere
LEMMA Untouched ==
  ASSUME NEW s \in Sessions, NEW c, sock[s] = c, sock'[s] = c, conn'[c] = conn[c],
         arrived'[c] = arrived[c], echoed'[c] = echoed[c],
         sendBuf'[s] = sendBuf[s], sendCount'[s] = sendCount[s], lent'[s] = lent[s],
         sendIO'[s] = sendIO[s], recvLen'[s] = recvLen[s], Acceptor \in Threads,
         \A u \in Threads :
           /\ Acting(u, s)' <=> Acting(u, s)
           /\ Acting(u, s) => pc'[u] = pc[u] /\ op'[u] = op[u] /\ batch'[u] = batch[u]
  PROVE  SlotData(s) => SlotData(s)'
<1> USE DEF Acting
<1>1. \A l \in ActPcs : Here(s, l)' <=> Here(s, l)
  BY DEF Here, At
<1>2. Delivered(s)' <=> Delivered(s)
  BY <1>1 DEF Delivered, ActPcs
<1>3. (Unbroken(s)' <=> Unbroken(s)) /\ (Holding(s)' <=> Holding(s)) /\ Sent(s)' = Sent(s)
  BY <1>1, <1>2 DEF Unbroken, Holding, Sent, ActPcs, SendPcs
<1>4. LentOK(s) /\ AbortOK(s) /\ SizeOK(s) => LentOK(s)' /\ AbortOK(s)' /\ SizeOK(s)'
  BY <1>1, <1>3 DEF LentOK, AbortOK, SizeOK, ActPcs, SendPcs
<1>5. FirstOK(s) => FirstOK(s)'
  BY DEF FirstOK, FirstPcs, ActPcs, SendPcs
<1>6. ASSUME NEW n \in Nat, Numbers(s, n) PROVE Numbers(s, n)'
  <2>1. \A u \in Threads :
          /\ cur[u] = s /\ Receiving(u) => Acting(u, s)
          /\ cur'[u] = s /\ Receiving(u)' => Acting(u, s)'
    BY DEF Receiving, RecvPcs, ActPcs
  <2>2. \A u \in Threads : Acting(u, s) =>
          cur'[u] = cur[u] /\ (Receiving(u)' <=> Receiving(u)) /\ Behind(u)' = Behind(u)
    BY DEF Receiving, Behind
  <2>3. \A u \in Threads : cur'[u] = s /\ Receiving(u)' <=> cur[u] = s /\ Receiving(u)
    BY <2>1, <2>2
  <2>4. Counts(s, n)'
    <3> HIDE DEF Acting
    <3> QED
      BY <1>6, <2>1, <2>2, <2>3 DEF Numbers, Counts
  <2>5. Run(s, n)' /\ Room(s, n)'
    BY <1>3, <1>6 DEF Numbers, Run, Room
  <2> QED
    BY <2>4, <2>5 DEF Numbers
<1> QED
  BY <1>4, <1>5, <1>6 DEF SlotData, SendSide

\* who owns the flag is alone with it, before and after its step
LEMMA OwnerHere ==
  ASSUME Shape, DataTypes, Control, NEW t \in Threads, HolderStep(t), Running',
         NEW s \in Sessions, s = cur[t], pc[t] \in FlagPcs \/ sendFlag[s] = 0
  PROVE  \A l \in FlagPcs : (Here(s, l) <=> pc[t] = l) /\ (Here(s, l)' <=> pc'[t] = l)
<1>1. \A u \in Threads : cur[u] = s /\ pc[u] \in FlagPcs => u = t
  BY DEF Control, SendExclusive
<1>2. cur' = cur /\ \A u \in Threads : u # t => pc'[u] = pc[u]
  BY HolderFrame
<1> QED
  BY <1>1, <1>2 DEF Here, At

LEMMA OtherHere ==
  ASSUME Shape, DataTypes, Control, NEW t \in Threads, HolderStep(t), Running',
         NEW s \in Sessions, pc[t] \notin FlagPcs, pc'[t] \notin FlagPcs
  PROVE  \A l \in FlagPcs : Here(s, l)' <=> Here(s, l)
<1>1. cur' = cur /\ \A u \in Threads : u # t => pc'[u] = pc[u]
  BY HolderFrame
<1> QED
  BY <1>1 DEF Here, At

\* what the invariants say of one session
LEMMA SlotFacts ==
  ASSUME Types, Control, NEW s \in Sessions, ~Idle(s), NEW n \in Nat, Counts(s, n)
  PROVE  /\ sock[s] \in Conns /\ arrived[sock[s]] \in Nat /\ n <= arrived[sock[s]] + 1
         /\ sendBuf[s] \in Seq(Int) /\ lent[s] \in Seq(Int) /\ echoed[sock[s]] \in Seq(Int)
         /\ Len(sendBuf[s]) \in Nat /\ Len(lent[s]) \in Nat /\ Len(echoed[sock[s]]) \in Nat
         /\ sendCount[s] \in Nat /\ recvLen[s] \in Nat /\ Sent(s) \in Nat
         /\ Window \in Nat /\ RingMax \in Nat \ {0} /\ Most \in Nat
         /\ MaxMsg \in Nat
<1>0. Shape /\ DataTypes
  BY TypeShape
<1>1. sock[s] \in Conns
  BY DEF Control, LifeOK
<1>2. arrived[sock[s]] \in 0 .. MaxMsg /\ recvLen[s] \in 0 .. MaxMsg
  BY <1>0, <1>1 DEF DataTypes
<1>3. \A t \in Threads : Behind(t) \in Nat
  BY <1>0, ConstantsAssumption DEF DataTypes, Behind
<1>4. n <= arrived[sock[s]] + 1
  <2>1. CASE \E t \in Threads : cur[t] = s /\ Receiving(t)
    BY <1>2, <1>3, <2>1 DEF Counts
  <2>2. CASE \A t \in Threads : cur[t] = s => ~Receiving(t)
    BY <1>2, <2>2 DEF Counts
  <2> QED
    BY <2>1, <2>2
<1>5. sendBuf[s] \in Seq(Int) /\ lent[s] \in Seq(Int) /\ echoed[sock[s]] \in Seq(Int)
      /\ sendCount[s] \in Nat
  BY <1>0, <1>1 DEF DataTypes
<1>6. \A q \in Seq(Int) : Len(q) \in Nat
  OBVIOUS
<1> QED
  BY <1>1, <1>2, <1>4, <1>5, <1>6, ConstantsAssumption DEF Sent, Most

LEMMA EmptySeq ==
  ASSUME NEW q \in Seq(Int)
  PROVE  q = <<>> <=> Len(q) = 0
OBVIOUS

(***************************************************************************)
(* The steps of the thread that refers to the session                      *)
(***************************************************************************)
LEMMA Elsewhere ==
  ASSUME Types, Control, NEW t \in Threads, HolderStep(t), Running',
         NEW s \in Sessions, s # cur[t]
  PROVE  SlotData(s) => SlotData(s)'
<1>0. Shape /\ DataTypes
  BY TypeShape
<1>1. /\ \A u \in Threads : u # t => pc'[u] = pc[u] /\ batch'[u] = batch[u]
      /\ UNCHANGED <<cur, op, scan, sock, invalidFlag, conn, arrived, echoed, recvLen>>
      /\ sendIO'[s] = sendIO[s] /\ sendCount'[s] = sendCount[s] /\ sendBuf'[s] = sendBuf[s]
      /\ lent'[s] = lent[s]
  BY <1>0, HolderFrame
<1>2. \A u \in Threads :
        /\ Acting(u, s)' <=> Acting(u, s)
        /\ Acting(u, s) => pc'[u] = pc[u] /\ op'[u] = op[u] /\ batch'[u] = batch[u]
  BY <1>1 DEF Acting
<1>3. Acceptor \in Threads
  BY <1>0 DEF Shape
<1> QED
  BY <1>1, <1>2, <1>3, Untouched

\* a step that queues nothing, dequeues nothing and delivers nothing
LEMMA QuietNumbers ==
  ASSUME Shape, DataTypes, Control, NEW t \in Threads, HolderStep(t), Running',
         NEW s \in Sessions, s = cur[t], NEW n \in Nat, Numbers(s, n),
         sendBuf'[s] = sendBuf[s], Sent(s)' = Sent(s), Unbroken(s)' => Unbroken(s),
         batch'[t] = batch[t], pc[t] # "onAccept",
         Receiving(t)' => Receiving(t) /\ pc'[t] # "onAccept",
         pc'[t] \in {"recvPost", "wsaRecv"} => Behind(t) = 0,
         Receiving(t) /\ ~Receiving(t)' => Behind(t) = 0 /\ recvLen[s] = 0
  PROVE  Numbers(s, n)'
<1>1. /\ \A u \in Threads : u # t => pc'[u] = pc[u] /\ batch'[u] = batch[u]
      /\ UNCHANGED <<cur, op, sock, conn, arrived, echoed, recvLen>>
  BY HolderFrame
<1>2. \A u \in Threads : Behind(u)' = Behind(u)
  BY <1>1 DEF Behind
<1>3. \A u \in Threads : u # t => (Receiving(u)' <=> Receiving(u))
  BY <1>1 DEF Receiving
<1>4. \A u \in Threads : cur[u] = s /\ Receiving(u) /\ Receiving(t) => u = t
  BY DEF Control, RecvOK
<1>5. Counts(s, n)
  BY DEF Numbers
<1>6. ASSUME NEW u \in Threads, cur'[u] = s, Receiving(u)'
      PROVE  /\ n + Behind(u)' = arrived'[sock'[s]] + IF pc'[u] = "onAccept" THEN 0 ELSE 1
             /\ pc'[u] \in {"recvPost", "wsaRecv"} => Behind(u)' = 0
  BY <1>1, <1>2, <1>3, <1>5, <1>6 DEF Counts
<1>7. ASSUME \A u \in Threads : cur'[u] = s => ~Receiving(u)'
      PROVE  n + recvLen'[s] = arrived'[sock'[s]] + 1
  <2>1. CASE Receiving(t)
    <3>1. n + Behind(t) = arrived[sock[s]] + 1 /\ Behind(t) = 0 /\ recvLen[s] = 0
      BY <1>1, <1>5, <1>7, <2>1 DEF Counts
    <3> QED
      BY <1>1, <3>1
  <2>2. CASE ~Receiving(t)
    BY <1>1, <1>3, <1>5, <1>7, <2>2 DEF Counts
  <2> QED
    BY <2>1, <2>2
<1>8. Counts(s, n)'
  BY <1>6, <1>7 DEF Counts
<1>9. Run(s, n)' /\ Room(s, n)'
  BY <1>1 DEF Numbers, Run, Room
<1> QED
  BY <1>8, <1>9 DEF Numbers

\* SendPost leaves the receive side alone
LEMMA PostNumbers ==
  ASSUME Types, Control, NEW t \in Threads, SendPost(t), Running',
         NEW s \in Sessions, s = cur[t], NEW n \in Nat, Numbers(s, n),
         Sent(s)' = Sent(s), Unbroken(s)' => Unbroken(s)
  PROVE  Numbers(s, n)'
<1>0. Shape /\ DataTypes /\ HolderStep(t)
  BY TypeShape DEF HolderStep
<1>1. /\ pc[t] \in SendPcs /\ pc'[t] \in SendPcs \cup {AfterSend(t), "breakSock"}
      /\ UNCHANGED <<recvIO, recvLen, batch>>
  BY <1>0, SendPostFrame
<1>2. pc'[t] # "breakSock" /\ op'[t] = op[t]
  BY <1>0, HolderFrame DEF Running, BreakPcs
<1>3. pc'[t] \in SendPcs \cup {AfterSend(t)}
  BY <1>1, <1>2
<1>4. op[t] \in {"accept", "recv", "send"}
  BY <1>0, <1>1 DEF Control, CurOK, SlotPcs, RefPcs, Shape
<1>5. /\ Receiving(t)' <=> Receiving(t)
      /\ pc[t] # "onAccept" /\ pc'[t] # "onAccept"
      /\ pc'[t] \in {"recvPost", "wsaRecv"} => Behind(t) = 0
  BY <1>1, <1>2, <1>3, <1>4 DEF Receiving, RecvPcs, SendPcs, AfterSend, Behind
<1>6. sendBuf' = sendBuf
  BY DEF SendPost, SendSize1, SendSize2, SizeTest, SendXchg, SendXchgIf, SendClear,
     SendGather, SendPrepare, WSASendPosted, WSASendFails, SendFailClear, SendFailDec, sendVars
<1> QED
  BY <1>0, <1>1, <1>5, <1>6, QuietNumbers

\* the accept thread sends the login packet alone
LEMMA FirstQueue ==
  ASSUME Types, Control, pc[Acceptor] \in FirstPcs \ {"onAccept"},
         NEW s \in Sessions, s = cur[Acceptor], SlotData(s),
         conn[sock[s]] # "reset", echoed[sock[s]] = <<>>
  PROVE  Len(sendBuf[s]) = 1 /\ sendBuf[s] # <<>>
<1> DEFINE t == Acceptor
<1>0. Shape /\ DataTypes /\ t \in Threads
  BY TypeShape DEF Shape
<1>1. op[t] = "accept" /\ pc[t] \in SendPcs
  BY <1>0 DEF FirstPcs, Control, CurOK, SlotPcs, RefPcs, SendPcs
<1>2. PICK n \in Nat : Numbers(s, n)
  BY DEF SlotData
<1>3. Receiving(t) /\ arrived[sock[s]] = 0 /\ Behind(t) = 0
  BY <1>1 DEF Receiving, Control, AloneOK, Behind
<1>4. n = 1
  BY <1>0, <1>1, <1>2, <1>3 DEF Numbers, Counts, SendPcs
<1>5. sendIO[s] \in {"none", "posting"}
  BY <1>0 DEF Control, AloneOK, SendExclusive, FirstPcs, FlagPcs
<1>6. ~Here(s, "sendDone")
  <2>1. \A u \in Threads : cur[u] = s /\ pc[u] = "sendDone" => sendFlag[s] = 1
    BY DEF Control, SendExclusive, FlagPcs
  <2>2. \A u \in Threads : cur[u] = s /\ pc[u] = "sendDone" /\ pc[t] \in FlagPcs => u = t
    BY <1>0 DEF Control, SendExclusive, FlagPcs
  <2>3. pc[t] \in FlagPcs \/ sendFlag[s] = 0
    BY DEF Control, AloneOK, FirstPcs, FlagPcs
  <2> QED
    BY <1>1, <2>1, <2>2, <2>3 DEF Here, At, SendPcs
<1>7. Unbroken(s) /\ Sent(s) = 0
  BY <1>5, <1>6 DEF Unbroken, Sent, Delivered
<1>8. Len(echoed[sock[s]]) + Len(sendBuf[s]) = 1 + 0
  BY <1>2, <1>4, <1>7 DEF Numbers, Run
<1>9. sendBuf[s] \in Seq(Int) /\ Len(echoed[sock[s]]) = 0 /\ Len(sendBuf[s]) \in Nat
  BY <1>0 DEF DataTypes
<1>10. Len(sendBuf[s]) = 1
  BY <1>8, <1>9
<1> QED
  BY <1>9, <1>10, EmptySeq

LEMMA TakeFlagStep ==
  ASSUME Types, Control, NEW t \in Threads, Running',
         SendSize1(t) \/ SendXchg(t) \/ SendSize2(t) \/ SendClear(t) \/ SendFailDec(t),
         NEW s \in Sessions, s = cur[t], SlotData(s)
  PROVE  SlotData(s)'
<1>0. Shape /\ DataTypes /\ HolderStep(t) /\ SendPost(t)
  BY TypeShape DEF HolderStep, SendPost
<1>1. /\ UNCHANGED <<cur, op, sock, conn, arrived, echoed, recvLen>>
      /\ \A u \in Threads : u # t => pc'[u] = pc[u]
  BY <1>0, HolderFrame
<1>2. UNCHANGED <<sendIO, sendBuf, sendCount, lent>>
  BY DEF SendSize1, SendSize2, SizeTest, SendXchg, SendXchgIf, SendClear, SendFailDec,
     sendVars, ioVars
<1>3. /\ pc[t] \in {"size1", "xchg", "size2", "clear", "failDec"}
      /\ pc'[t] \in {"xchg", "size2", "clear", "gather", "loop", "recvPost", "ioDec"}
      /\ pc'[t] = "gather" => sendBuf[s] # <<>>
  BY <1>0 DEF SendSize1, SendSize2, SizeTest, SendXchg, SendXchgIf, SendClear, SendFailDec,
     Goto, AfterSend, Shape
<1>4. \A l \in FlagPcs \ {"size2", "clear", "gather"} : Here(s, l)' <=> Here(s, l)
  BY <1>1, <1>3 DEF Here, At, FlagPcs
<1>5. Here(s, "gather")' => Here(s, "gather") \/ sendBuf[s] # <<>>
  BY <1>1, <1>3 DEF Here, At
<1>6. (Delivered(s)' <=> Delivered(s)) /\ (Unbroken(s)' <=> Unbroken(s)) /\ Sent(s)' = Sent(s)
      /\ (Holding(s)' <=> Holding(s))
  BY <1>1, <1>2, <1>4 DEF Delivered, Unbroken, Sent, Holding, FlagPcs
<1>7. LentOK(s)' /\ AbortOK(s)' /\ SizeOK(s)'
  BY <1>1, <1>2, <1>4, <1>5, <1>6 DEF SlotData, SendSide, LentOK, AbortOK, SizeOK, FlagPcs
<1>8. FirstOK(s)'
  <2> SUFFICES ASSUME conn'[sock'[s]] # "reset", echoed'[sock'[s]] = <<>>
               PROVE  \/ cur'[Acceptor] = s /\ pc'[Acceptor] \in FirstPcs
                      \/ sendIO'[s] = "pending" /\ Len(lent'[s]) = 1
    BY DEF FirstOK
  <2>1. \/ cur[Acceptor] = s /\ pc[Acceptor] \in FirstPcs
        \/ sendIO[s] = "pending" /\ Len(lent[s]) = 1
    BY <1>1 DEF SlotData, SendSide, FirstOK
  <2>2. CASE t # Acceptor \/ ~(cur[Acceptor] = s /\ pc[Acceptor] \in FirstPcs)
    BY <1>0, <1>1, <1>2, <2>1, <2>2 DEF Shape
  \* the accept thread finds its packet queued, and the flag free
  <2>3. CASE t = Acceptor /\ cur[Acceptor] = s /\ pc[Acceptor] \in FirstPcs
    <3>1. pc[t] \in {"size1", "xchg", "size2"}
      BY <1>3, <2>3 DEF FirstPcs
    <3>2. sendBuf[s] # <<>>
      BY <1>1, <2>3, <3>1, FirstQueue
    <3>3. pc[t] \in FlagPcs \/ sendFlag[s] = 0
      BY <2>3, <3>1 DEF Control, AloneOK, FlagPcs
    <3>4. pc'[t] \in {"xchg", "size2", "gather"}
      BY <1>0, <3>1, <3>2, <3>3 DEF SendSize1, SendSize2, SizeTest, SendXchg, SendXchgIf,
         SendClear, SendFailDec, Goto, Shape, FlagPcs
    <3> QED
      BY <1>1, <2>3, <3>4 DEF FirstPcs
  <2> QED
    BY <2>2, <2>3
<1>9. ASSUME NEW n \in Nat, Numbers(s, n) PROVE Numbers(s, n)'
  BY <1>0, <1>6, <1>9, PostNumbers
<1> QED
  BY <1>7, <1>8, <1>9 DEF SlotData, SendSide

\* what the thread that owns the flag gathers, and how much that is
LEMMA GatherSize ==
  ASSUME Types, Control, NEW t \in Threads, pc[t] = "gather",
         NEW s \in Sessions, s = cur[t], SlotData(s), Unbroken(s), WindowOK
  PROVE  Len(sendBuf[s]) <= Most
<1>0. Shape /\ DataTypes
  BY TypeShape
<1>1. PICK n \in Nat : Numbers(s, n)
  BY DEF SlotData
<1>2. ~Idle(s)
  BY DEF Idle, At, RefPcs, SendPcs
<1>3. Counts(s, n) /\ Run(s, n)
  BY <1>1 DEF Numbers
<1>4. /\ sock[s] \in Conns /\ arrived[sock[s]] \in Nat /\ n <= arrived[sock[s]] + 1
      /\ echoed[sock[s]] \in Seq(Int) /\ Len(sendBuf[s]) \in Nat
      /\ Len(echoed[sock[s]]) \in Nat /\ Window \in Nat
  BY <1>2, <1>3, SlotFacts
<1>5. sendIO[s] = "none" /\ \A u \in Threads : cur[u] = s /\ pc[u] \in FlagPcs => u = t
  BY DEF Control, SendExclusive, FlagPcs
<1>6. ~Delivered(s)
  BY <1>5 DEF Delivered, Here, At, FlagPcs
<1>7. conn[sock[s]] # "reset" /\ Len(echoed[sock[s]]) + Len(sendBuf[s]) = n + 0
  BY <1>3, <1>6 DEF Unbroken, Run, Sent
<1>8. arrived[sock[s]] <= Answered(sock[s]) + Window
  BY <1>4 DEF WindowOK
<1>9. CASE echoed[sock[s]] # <<>>
  <2>1. Answered(sock[s]) = Len(echoed[sock[s]]) - 1
    BY <1>9 DEF Answered
  <2>2. \A a, b, e, w \in Nat : e + b = n + 0 /\ n <= a + 1 /\ a <= e - 1 + w => b <= w
    OBVIOUS
  <2>3. Len(sendBuf[s]) <= Window
    BY <1>4, <1>7, <1>8, <2>1, <2>2
  <2> QED
    BY <1>4, <2>3 DEF Most
<1>10. CASE echoed[sock[s]] = <<>>
  <2>1. cur[Acceptor] = s /\ pc[Acceptor] \in FirstPcs
    BY <1>5, <1>7, <1>10 DEF SlotData, SendSide, FirstOK
  <2>2. Acceptor \in Threads
    BY <1>0 DEF Shape
  <2>3. t = Acceptor
    <3>1. t \in At(s, RefPcs)
      BY DEF At, RefPcs, SendPcs
    <3>2. pc[Acceptor] \notin FlagPcs => pc[Acceptor] \in {"onAccept", "size1", "xchg"}
      BY <2>1 DEF FirstPcs, FlagPcs
    <3> QED
      BY <1>5, <2>1, <2>2, <3>1, <3>2 DEF Control, AloneOK
  <2>4. Len(sendBuf[s]) = 1
    BY <1>7, <1>10, <2>1, <2>3, FirstQueue DEF FirstPcs
  <2> QED
    BY <1>4, <2>4 DEF Most
<1> QED
  BY <1>9, <1>10

LEMMA LendStep ==
  ASSUME Types, Control, NEW t \in Threads, Running', WindowOK,
         SendGather(t) \/ SendPrepare(t) \/ WSASendPosted(t) \/ WSASendFails(t)
           \/ SendFailClear(t) \/ FlagClear(t),
         NEW s \in Sessions, s = cur[t], SlotData(s)
  PROVE  SendSide(s)' /\ Sent(s)' = Sent(s) /\ (Unbroken(s)' => Unbroken(s))
<1>0. Shape /\ DataTypes /\ HolderStep(t)
  BY TypeShape DEF HolderStep, SendPost, HandleStep
<1>1. /\ UNCHANGED <<cur, op, sock, conn, arrived, echoed, recvLen>>
      /\ \A u \in Threads : u # t => pc'[u] = pc[u]
  BY <1>0, HolderFrame
<1>2. pc[t] \in FlagPcs
  BY DEF SendGather, SendPrepare, WSASendPosted, WSASendFails, SendFailClear, FlagClear, FlagPcs
<1>3. \A l \in FlagPcs : (Here(s, l) <=> pc[t] = l) /\ (Here(s, l)' <=> pc'[t] = l)
  BY <1>0, <1>2, OwnerHere
<1>4. sendIO[s] = IF pc[t] \in {"wsaSend", "failClear"} THEN "posting" ELSE "none"
  BY <1>2 DEF Control, SendExclusive
<1>5. LentOK(s) /\ AbortOK(s) /\ SizeOK(s) /\ FirstOK(s)
  BY DEF SlotData, SendSide
<1>6. sendBuf[s] \in Seq(Int) /\ Len(sendBuf[s]) \in Nat /\ sendCount[s] \in Nat
      /\ lent[s] \in Seq(Int) /\ Len(lent[s]) \in Nat
  <2>1. \A q \in Seq(Int) : Len(q) \in Nat
    OBVIOUS
  <2> QED
    BY <1>0, <2>1 DEF DataTypes
<1>a. \A l \in {"size2", "clear", "gather", "post", "wsaSend", "failClear", "sendDone",
                "flagClear"} : (Here(s, l) <=> pc[t] = l) /\ (Here(s, l)' <=> pc'[t] = l)
  BY <1>3 DEF FlagPcs
<1> USE DEF Delivered, Unbroken, Sent, Holding
\* the accept thread stays on its way until the packet is under way
<1>7. ASSUME conn[sock[s]] # "reset" /\ echoed[sock[s]] = <<>> /\ t = Acceptor
               /\ pc[t] \in FirstPcs
             => pc'[t] \in FirstPcs \/ (sendIO'[s] = "pending" /\ Len(lent'[s]) = 1)
      PROVE  FirstOK(s)'
  <2>1. Acceptor \in Threads /\ sendIO[s] # "pending"
    BY <1>0, <1>4 DEF Shape
  <2>2. CASE t = Acceptor
    BY <1>1, <1>5, <1>7, <2>1, <2>2 DEF FirstOK
  <2>3. CASE t # Acceptor
    BY <1>1, <1>5, <2>1, <2>3 DEF FirstOK
  <2> QED
    BY <2>2, <2>3
<1>8. CASE SendGather(t)
  <2>1. /\ pc[t] = "gather" /\ pc'[t] = "post" /\ lent'[s] = sendBuf[s]
        /\ UNCHANGED <<sendIO, sendBuf, sendCount>>
    BY <1>0, <1>8 DEF SendGather, Goto, Shape, DataTypes, sendVars
  <2>2. sendIO[s] = "none" /\ sendBuf[s] # <<>>
    BY <1>4, <1>5, <1>a, <2>1 DEF LentOK
  <2>3. Unbroken(s) => Len(sendBuf[s]) <= Most
    BY <2>1, GatherSize
  <2>4. LentOK(s)'
    BY <1>6, <1>a, <2>1, <2>2 DEF LentOK
  <2>5. AbortOK(s)' /\ SizeOK(s)'
    BY <1>1, <1>5, <1>a, <2>1, <2>2, <2>3 DEF AbortOK, SizeOK
  <2>6. FirstOK(s)'
    BY <1>7, <2>1, <2>2 DEF FirstPcs
  <2> QED
    BY <1>1, <1>a, <2>1, <2>2, <2>4, <2>5, <2>6 DEF SendSide
<1>9. CASE SendPrepare(t)
  <2>1. /\ pc[t] = "post" /\ pc'[t] = "wsaSend" /\ UNCHANGED <<lent, sendBuf>>
        /\ sendIO'[s] = "posting" /\ sendCount'[s] = sendCount[s] + Len(lent[s])
    <3>1. sock[cur[t]] # None
      BY <1>0, <1>2, Held DEF Shape, RefPcs, FlagPcs, SendPcs
    <3> QED
      BY <1>0, <1>9, <3>1 DEF SendPrepare, Goto, Shape, DataTypes, ioVars
  <2>2. sendIO[s] = "none" /\ (Unbroken(s) => sendCount[s] = 0)
    BY <1>4, <1>5, <1>a, <2>1 DEF SizeOK
  <2>3. Unbroken(s) => sendCount'[s] = Len(lent[s])
    BY <1>6, <2>1, <2>2
  <2>4. LentOK(s)' /\ AbortOK(s)'
    BY <1>5, <1>a, <2>1, <2>2 DEF LentOK, AbortOK
  <2>5. SizeOK(s)'
    BY <1>1, <1>5, <1>a, <2>1, <2>2, <2>3 DEF SizeOK
  <2>6. FirstOK(s)'
    BY <1>7, <2>1 DEF FirstPcs
  <2> QED
    BY <1>1, <1>a, <2>1, <2>2, <2>4, <2>5, <2>6 DEF SendSide
<1>10. CASE WSASendPosted(t)
  <2>1. /\ pc[t] = "wsaSend" /\ pc'[t] \in {"recvPost", "loop", "ioDec"}
        /\ UNCHANGED <<lent, sendBuf, sendCount>> /\ sendIO'[s] = "pending"
    BY <1>0, <1>10 DEF WSASendPosted, Goto, AfterSend, Shape, sendVars
  <2>2. sendIO[s] = "posting"
    BY <1>4, <2>1
  <2>3. LentOK(s)' /\ AbortOK(s)'
    BY <1>5, <1>a, <2>1, <2>2 DEF LentOK, AbortOK
  <2>4. SizeOK(s)'
    BY <1>1, <1>5, <1>a, <2>1, <2>2 DEF SizeOK
  <2>5. ASSUME conn[sock[s]] # "reset", echoed[sock[s]] = <<>>, t = Acceptor PROVE Len(lent[s]) = 1
    <3>1. Len(sendBuf[s]) = 1
      BY <2>1, <2>5, FirstQueue DEF FirstPcs
    <3>2. lent[s] # <<>> /\ Len(lent[s]) <= Len(sendBuf[s])
      BY <1>5, <1>a, <2>1 DEF LentOK
    <3>3. Len(lent[s]) # 0
      BY <1>6, <3>2, EmptySeq
    <3> QED
      BY <1>6, <3>1, <3>2, <3>3
  <2>6. FirstOK(s)'
    BY <1>7, <2>1, <2>5
  <2> QED
    BY <1>1, <1>a, <2>1, <2>2, <2>3, <2>4, <2>6 DEF SendSide
<1>11. CASE WSASendFails(t)
  <2>1. /\ pc[t] = "wsaSend" /\ pc'[t] = "failClear" /\ conn[sock[s]] = "reset"
        /\ UNCHANGED <<sendBuf, sendCount, sendIO>>
    BY <1>0, <1>11 DEF WSASendFails, Goto, Shape, sendVars
  <2>2. sendIO[s] = "posting"
    BY <1>4, <2>1
  <2>3. LentOK(s)' /\ AbortOK(s)' /\ SizeOK(s)'
    BY <1>1, <1>a, <2>1, <2>2 DEF LentOK, AbortOK, SizeOK
  <2>4. FirstOK(s)'
    BY <1>7, <2>1
  <2> QED
    BY <1>1, <1>a, <2>1, <2>2, <2>3, <2>4 DEF SendSide
<1>12. CASE SendFailClear(t)
  <2>1. /\ pc[t] = "failClear" /\ pc'[t] = "failDec" /\ sendIO'[s] = "none"
        /\ UNCHANGED <<sendBuf, sendCount, lent>>
    BY <1>0, <1>12 DEF SendFailClear, Goto, Shape
  <2>2. sendIO[s] = "posting" /\ conn[sock[s]] = "reset"
    BY <1>4, <1>5, <1>a, <2>1 DEF AbortOK
  <2>3. LentOK(s)' /\ AbortOK(s)' /\ SizeOK(s)'
    BY <1>1, <1>a, <2>1, <2>2 DEF LentOK, AbortOK, SizeOK
  <2>4. FirstOK(s)'
    BY <1>7, <2>2
  <2> QED
    BY <1>1, <1>a, <2>1, <2>2, <2>3, <2>4 DEF SendSide
<1>13. CASE FlagClear(t)
  <2>1. /\ pc[t] = "flagClear" /\ pc'[t] = "size1" /\ UNCHANGED <<sendBuf, sendCount, lent, sendIO>>
    BY <1>0, <1>13 DEF FlagClear, Goto, Shape, ioVars
  <2>2. sendIO[s] = "none"
    BY <1>4, <2>1
  <2>3. LentOK(s)' /\ AbortOK(s)'
    BY <1>a, <2>1, <2>2 DEF LentOK, AbortOK
  <2>4. SizeOK(s)'
    BY <1>1, <1>5, <1>a, <2>1, <2>2 DEF SizeOK
  <2>5. FirstOK(s)'
    BY <1>7, <2>1 DEF FirstPcs
  <2> QED
    BY <1>1, <1>a, <2>1, <2>2, <2>3, <2>4, <2>5 DEF SendSide
<1> QED
  BY <1>8, <1>9, <1>10, <1>11, <1>12, <1>13

LEMMA LendSlot ==
  ASSUME Types, Control, NEW t \in Threads, Running', WindowOK,
         SendGather(t) \/ SendPrepare(t) \/ WSASendPosted(t) \/ WSASendFails(t)
           \/ SendFailClear(t) \/ FlagClear(t),
         NEW s \in Sessions, s = cur[t], SlotData(s)
  PROVE  SlotData(s)'
<1>0. Shape /\ DataTypes /\ HolderStep(t)
  BY TypeShape DEF HolderStep, SendPost, HandleStep
<1>1. SendSide(s)' /\ Sent(s)' = Sent(s) /\ (Unbroken(s)' => Unbroken(s))
  BY LendStep
<1>2. ASSUME NEW n \in Nat, Numbers(s, n) PROVE Numbers(s, n)'
  <2>1. CASE SendPost(t)
    BY <1>1, <1>2, <2>1, PostNumbers
  <2>2. CASE FlagClear(t)
    <3>1. op[t] = "send" /\ pc[t] = "flagClear" /\ pc'[t] = "size1" /\ op'[t] = op[t]
          /\ UNCHANGED <<sendBuf, batch>>
      BY <1>0, <2>2, HolderFrame DEF FlagClear, Goto, Shape, Control, CurOK
    <3>2. ~Receiving(t) /\ ~Receiving(t)'
      BY <3>1 DEF Receiving, RecvPcs, SendPcs
    <3> QED
      BY <1>0, <1>1, <1>2, <3>1, <3>2, QuietNumbers
  <2> QED
    BY <2>1, <2>2 DEF SendPost
<1> QED
  BY <1>1, <1>2 DEF SlotData

\* a receive is posted
LEMMA ReceiveSlot ==
  ASSUME Types, Control, NEW t \in Threads, Running', RecvStep(t) \/ ProcessEnd(t),
         NEW s \in Sessions, s = cur[t], SlotData(s)
  PROVE  SlotData(s)'
<1>0. Shape /\ DataTypes /\ HolderStep(t)
  BY TypeShape DEF HolderStep, HandleStep
<1>1. /\ UNCHANGED <<cur, op, sock, conn, arrived, echoed, recvLen>>
      /\ \A u \in Threads : u # t => pc'[u] = pc[u]
  BY <1>0, HolderFrame
<1>2. UNCHANGED <<sendIO, sendBuf, sendCount, lent, batch>>
  BY DEF RecvStep, RecvPost, WSARecvPosted, WSARecvFails, WSARecvFailsGiving, ProcessEnd,
     sendVars, ioVars
<1>3. \/ pc[t] = "loop" /\ pc'[t] = "recvPost" /\ batch[t] = 0
      \/ pc[t] = "recvPost" /\ pc'[t] = "wsaRecv"
      \/ pc[t] = "wsaRecv" /\ pc'[t] = "ioDec"
  BY <1>0 DEF RecvStep, RecvPost, WSARecvPosted, WSARecvFails, WSARecvFailsGiving, ProcessEnd,
     Goto, Shape, Running, BreakPcs
<1>4. \A l \in FlagPcs : Here(s, l)' <=> Here(s, l)
  BY <1>1, <1>3 DEF Here, At, FlagPcs
<1>5. (Delivered(s)' <=> Delivered(s)) /\ (Unbroken(s)' <=> Unbroken(s)) /\ Sent(s)' = Sent(s)
      /\ (Holding(s)' <=> Holding(s))
  BY <1>1, <1>2, <1>4 DEF Delivered, Unbroken, Sent, Holding, FlagPcs
<1>6. LentOK(s)' /\ AbortOK(s)' /\ SizeOK(s)'
  BY <1>1, <1>2, <1>4, <1>5 DEF SlotData, SendSide, LentOK, AbortOK, SizeOK, FlagPcs
<1>7. FirstOK(s)'
  <2>1. Acceptor \in Threads
    BY <1>0 DEF Shape
  <2> QED
    BY <1>1, <1>2, <1>3, <2>1 DEF SlotData, SendSide, FirstOK, FirstPcs
<1>8. ASSUME NEW n \in Nat, Numbers(s, n) PROVE Numbers(s, n)'
  <2>1. Receiving(t) /\ (Receiving(t)' <=> pc'[t] # "ioDec")
    BY <1>3 DEF Receiving, RecvPcs, SendPcs
  <2>2. pc'[t] # "loop" /\ Behind(t) = 0
    BY <1>1, <1>3, <1>8, <2>1 DEF Behind, Numbers, Counts
  <2>3. pc'[t] = "ioDec" => recvLen[s] = 0
    BY <1>3, <2>1 DEF Control, RecvOK
  <2> QED
    BY <1>0, <1>2, <1>3, <1>5, <1>8, <2>1, <2>2, <2>3, QuietNumbers
<1> QED
  BY <1>6, <1>7, <1>8 DEF SlotData, SendSide

\* the packets of a send leave the ring
LEMMA DoneSlot ==
  ASSUME Types, Control, NEW t \in Threads, SendDone(t),
         NEW s \in Sessions, s = cur[t], SlotData(s)
  PROVE  pc'[t] = "flagClear" /\ (Running' => SlotData(s)')
<1>0. Shape /\ DataTypes /\ HolderStep(t)
  BY TypeShape DEF HolderStep, HandleStep
<1> DEFINE k == sendCount[s]
           b == Len(sendBuf[s])
<1>1. pc[t] = "sendDone" /\ pc[t] \in FlagPcs /\ op[t] = "send"
  BY DEF SendDone, SendDoneLeaving, FlagPcs, Control, CurOK
<1>2. sendIO[s] = "none" /\ Here(s, "sendDone")
  BY <1>1 DEF Control, SendExclusive, Here, At
<1>3. Delivered(s) /\ Unbroken(s) /\ Sent(s) = k
  BY <1>2 DEF Delivered, Unbroken, Sent
<1>4. 0 < k /\ k <= b
  BY <1>2, <1>3 DEF SlotData, SendSide, SizeOK
<1>5. k \in Nat /\ b \in Nat /\ sendBuf[s] \in Seq(Int)
  <2>1. \A q \in Seq(Int) : Len(q) \in Nat
    OBVIOUS
  <2> QED
    BY <1>0, <2>1 DEF DataTypes
<1>6. sendCount[cur[t]] # 0 /\ ~(sendCount[cur[t]] > Len(sendBuf[cur[t]]))
  BY <1>4, <1>5
<1>7. pc'[t] = "flagClear"
  BY <1>0, <1>6 DEF SendDone, SendDoneLeaving, Goto, Shape
<1>8. ASSUME Running' PROVE SlotData(s)'
  <2>1. /\ UNCHANGED <<cur, op, sock, conn, arrived, echoed, recvLen>>
        /\ \A u \in Threads : u # t => pc'[u] = pc[u]
    BY <1>0, <1>8, HolderFrame
  <2>2. \A l \in FlagPcs : (Here(s, l) <=> pc[t] = l) /\ (Here(s, l)' <=> pc'[t] = l)
    BY <1>0, <1>1, <1>8, OwnerHere
  <2>3. \A l \in {"gather", "post", "wsaSend", "failClear", "sendDone"} : ~Here(s, l)'
    BY <1>7, <2>2 DEF FlagPcs
  <2>4. UNCHANGED <<sendIO, lent, batch>> /\ sendCount'[s] = 0
        /\ sendBuf'[s] = SubSeq(sendBuf[s], k + 1 - 0, b)
    BY <1>0 DEF SendDone, SendDoneLeaving, ioVars, DataTypes
  <2>5. ~Delivered(s)' /\ ~Holding(s)' /\ Sent(s)' = 0
    BY <1>2, <2>3, <2>4 DEF Delivered, Holding, Sent
  <2>6. LentOK(s)' /\ AbortOK(s)' /\ SizeOK(s)'
    BY <1>2, <2>3, <2>4, <2>5 DEF LentOK, AbortOK, SizeOK
  <2>7. PICK n \in Nat : Numbers(s, n)
    BY DEF SlotData
  <2>8. Len(echoed[sock[s]]) + b = n + k /\ b <= n
        /\ \A i \in 1 .. b : sendBuf[s][i] = n - b + i - 1
    BY <1>3, <2>7 DEF Numbers, Run
  <2>9. sock[s] \in Conns /\ echoed[sock[s]] \in Seq(Int) /\ Len(echoed[sock[s]]) \in Nat
    <3>1. sock[s] \in Conns
      BY <1>0, <1>1, Held DEF RefPcs
    <3>2. \A q \in Seq(Int) : Len(q) \in Nat
      OBVIOUS
    <3> QED
      BY <1>0, <3>1, <3>2 DEF DataTypes
  <2>a. \A e \in Nat : e + b = n + k => (b <= n => e # 0) /\ e + (b - k) = n + 0
    <3> HIDE DEF k, b
    <3> QED
      BY <1>4, <1>5
  <2>10. Len(echoed[sock[s]]) # 0 /\ Len(echoed[sock[s]]) + (b - k) = n + 0
    BY <2>8, <2>9, <2>a
  <2>11. FirstOK(s)'
    BY <2>1, <2>9, <2>10, EmptySeq DEF FirstOK
  <2>12. /\ Len(sendBuf'[s]) = b - k
         /\ \A i \in 1 .. b - k : sendBuf'[s][i] = sendBuf[s][i + k]
    <3>1. \A q \in Seq(Int), j \in Nat : j <= Len(q) =>
            /\ Len(SubSeq(q, j + 1 - 0, Len(q))) = Len(q) - j
            /\ \A i \in 1 .. Len(q) - j : SubSeq(q, j + 1 - 0, Len(q))[i] = q[i + j]
      BY SMTT(30)
    <3>2. /\ Len(SubSeq(sendBuf[s], k + 1 - 0, b)) = b - k
          /\ \A i \in 1 .. b - k : SubSeq(sendBuf[s], k + 1 - 0, b)[i] = sendBuf[s][i + k]
      BY <1>4, <1>5, <3>1
    <3> QED
      BY <2>4, <3>2, ZenonT(60)
  <2>13. Counts(s, n)'
    <3>1. ~Receiving(t) /\ ~Receiving(t)'
      BY <1>1, <1>7, <2>1 DEF Receiving, RecvPcs, SendPcs
    <3>2. \A u \in Threads : cur[u] = s /\ Receiving(u) => u # t
      BY <3>1
    <3>3. \A u \in Threads : (Receiving(u)' <=> Receiving(u)) /\ Behind(u)' = Behind(u)
      BY <2>1, <2>4, <3>1 DEF Receiving, Behind
    <3>4. Counts(s, n)
      BY <2>7 DEF Numbers
    <3> QED
      BY <2>1, <3>1, <3>3, <3>4 DEF Counts
  <2>14. Run(s, n)'
    <3>1. b - k \in Nat /\ b - k <= n
      BY <1>4, <1>5, <2>8
    <3>2. ASSUME NEW i \in 1 .. b - k PROVE sendBuf'[s][i] = n - (b - k) + i - 1
      <4>1. i + k \in 1 .. b
        BY <1>4, <1>5
      <4>2. sendBuf[s][i + k] = n - b + (i + k) - 1
        BY <2>8, <4>1
      <4>3. n - b + (i + k) - 1 = n - (b - k) + i - 1
        <5> HIDE DEF k, b
        <5> QED
          BY <1>5
      <4> QED
        BY <2>12, <4>2, <4>3
    <3> QED
      BY <2>1, <2>5, <2>10, <2>12, <3>1, <3>2 DEF Run
  <2>15. Room(s, n)'
    <3>1. b + (arrived[sock[s]] + 1 - n) <= RingMax
      BY <2>7 DEF Numbers, Room
    <3>2. arrived[sock[s]] \in Nat /\ RingMax \in Nat
      BY <1>0, <2>9, ConstantsAssumption DEF DataTypes
    <3>3. (b - k) + (arrived[sock[s]] + 1 - n) <= RingMax
      BY <1>4, <1>5, <3>1, <3>2
    <3> QED
      BY <2>1, <2>12, <3>3 DEF Room
  <2> QED
    BY <2>6, <2>11, <2>13, <2>14, <2>15 DEF SlotData, SendSide, Numbers
<1> QED
  BY <1>7, <1>8

\* a packet is queued: the ring has room for it
LEMMA QueueSlot ==
  ASSUME Types, Control, NEW t \in Threads, ProcessMessage(t) \/ (t = Acceptor /\ OnAccept),
         NEW s \in Sessions, s = cur[t], SlotData(s)
  PROVE  pc'[t] = "size1" /\ (Running' => SlotData(s)')
<1>0. Shape /\ DataTypes /\ HolderStep(t)
  BY TypeShape DEF HolderStep, HandleStep
<1> DEFINE b == Len(sendBuf[s])
           a == arrived[sock[s]]
           packet == IF pc[t] = "onAccept" THEN 0 ELSE a - batch[t] + 1
<1>1. pc[t] \in {"onAccept", "loop"} /\ (pc[t] = "onAccept" <=> t = Acceptor)
      /\ (pc[t] = "loop" => op[t] = "recv") /\ Receiving(t)
      /\ (pc[t] = "onAccept" => op[t] = "accept")
  BY <1>0 DEF ProcessMessage, OnAccept, Control, CurOK, SlotPcs, RefPcs, Receiving, RecvPcs, Shape
<1>2. SendPacket(t, packet)
  BY <1>1 DEF ProcessMessage, OnAccept
<1>3. PICK n \in Nat : Numbers(s, n)
  BY DEF SlotData
<1>4. Counts(s, n) /\ Run(s, n) /\ Room(s, n)
  BY <1>3 DEF Numbers
<1>5. ~Idle(s)
  BY <1>1 DEF Idle, At, RefPcs
<1>6. /\ sock[s] \in Conns /\ a \in Nat /\ n <= a + 1
      /\ sendBuf[s] \in Seq(Int) /\ b \in Nat /\ RingMax \in Nat /\ batch[t] \in Nat
      /\ echoed[sock[s]] \in Seq(Int) /\ Len(echoed[sock[s]]) \in Nat
  BY <1>0, <1>4, <1>5, SlotFacts, ConstantsAssumption DEF DataTypes
<1>7. n + Behind(t) = a + IF pc[t] = "onAccept" THEN 0 ELSE 1
  BY <1>1, <1>4 DEF Counts
\* the packet's number, and that there are more messages than packets
<1>8. packet = n /\ n < a + 1
  <2>1. CASE pc[t] = "onAccept"
    <3>1. a = 0 /\ Behind(t) = 0
      BY <1>1, <2>1 DEF Control, AloneOK, Behind
    <3> QED
      BY <1>6, <1>7, <2>1, <3>1
  <2>2. CASE pc[t] = "loop"
    <3>1. batch[t] > 0 /\ Behind(t) = batch[t] /\ n + batch[t] = a + 1
      BY <1>1, <1>7, <2>2 DEF ProcessMessage, OnAccept, Behind
    <3>2. \A x, y \in Nat : n + x = y + 1 /\ x > 0 => y - x + 1 = n /\ n < y + 1
      OBVIOUS
    <3>3. a - batch[t] + 1 = n /\ n < a + 1
      BY <1>6, <3>1, <3>2
    <3> QED
      BY <2>2, <3>3
  <2> QED
    BY <1>1, <2>1, <2>2
<1>9. b # RingMax
  <2>1. b + (a + 1 - n) <= RingMax
    BY <1>4 DEF Room
  <2> HIDE DEF a, b
  <2> QED
    BY <1>6, <1>8, <2>1
<1>10. pc'[t] = "size1" /\ sendBuf'[s] = Append(sendBuf[s], n)
  <2> HIDE DEF packet
  <2> QED
    BY <1>0, <1>2, <1>8, <1>9 DEF SendPacket, Goto, Shape, DataTypes
<1>11. ASSUME Running' PROVE SlotData(s)'
  <2>1. /\ UNCHANGED <<cur, op, sock, conn, arrived, echoed, recvLen>>
        /\ \A u \in Threads : u # t => pc'[u] = pc[u] /\ batch'[u] = batch[u]
    BY <1>0, <1>11, HolderFrame
  <2>2. UNCHANGED <<sendIO, lent, sendCount>>
    BY DEF ProcessMessage, OnAccept, ioVars
  <2>3. \A l \in FlagPcs : Here(s, l)' <=> Here(s, l)
    BY <1>1, <1>10, <2>1 DEF Here, At, FlagPcs
  <2>4. (Delivered(s)' <=> Delivered(s)) /\ (Unbroken(s)' <=> Unbroken(s)) /\ Sent(s)' = Sent(s)
        /\ (Holding(s)' <=> Holding(s))
    BY <2>1, <2>2, <2>3 DEF Delivered, Unbroken, Sent, Holding, FlagPcs
  <2>5. Len(sendBuf'[s]) = b + 1 /\ sendBuf'[s][b + 1] = n
        /\ \A i \in 1 .. b : sendBuf'[s][i] = sendBuf[s][i]
    BY <1>6, <1>10
  <2>6. sendBuf'[s] # <<>>
    BY <1>6, <2>5
  <2>7. LentOK(s)'
    <3>1. ASSUME Holding(s) PROVE Len(lent[s]) <= b /\ Len(lent[s]) \in Nat /\ lent[s] # <<>>
                 /\ \A i \in 1 .. Len(lent[s]) : lent[s][i] = sendBuf[s][i]
      BY <1>4, <1>5, <3>1, SlotFacts DEF SlotData, SendSide, LentOK
    <3>2. ASSUME Holding(s) PROVE Len(lent[s]) <= b + 1
                 /\ \A i \in 1 .. Len(lent[s]) : lent[s][i] = sendBuf'[s][i]
      <4>1. \A x, y \in Nat : x <= y => x <= y + 1
        OBVIOUS
      <4>2. Len(lent[s]) <= b + 1 /\ \A i \in 1 .. Len(lent[s]) : i \in 1 .. b
        BY <1>6, <3>1, <3>2, <4>1
      <4> QED
        BY <2>5, <3>1, <3>2, <4>2
    <3> QED
      BY <2>2, <2>4, <2>5, <2>6, <3>1, <3>2 DEF LentOK
  <2>8. AbortOK(s)'
    BY <2>1, <2>2, <2>3 DEF SlotData, SendSide, AbortOK, FlagPcs
  <2>9. SizeOK(s)'
    <3>1. sendCount[s] \in Nat /\ (sendCount[s] <= b => sendCount[s] <= b + 1)
      BY <1>0, <1>6 DEF DataTypes
    <3> QED
      BY <2>1, <2>2, <2>3, <2>4, <2>5, <3>1 DEF SlotData, SendSide, SizeOK, FlagPcs
  <2>10. FirstOK(s)'
    <3>1. Acceptor \in Threads
      BY <1>0 DEF Shape
    <3> QED
      BY <1>1, <1>10, <2>1, <2>2, <3>1 DEF SlotData, SendSide, FirstOK, FirstPcs
  <2>11. Counts(s, n + 1)'
    <3>1. Receiving(t)'
      BY <1>1, <1>10, <2>1 DEF Receiving, SendPcs
    <3>2. \A u \in Threads : cur[u] = s /\ Receiving(u)' => u = t
      <4>1. \A u \in Threads : u # t => (Receiving(u)' <=> Receiving(u))
        BY <2>1 DEF Receiving
      <4> QED
        BY <1>1, <4>1 DEF Control, RecvOK
    <3>3. (n + 1) + Behind(t)' = a + 1
      <4>1. CASE pc[t] = "onAccept"
        <5>1. Behind(t) = 0 /\ Behind(t)' = 0
          BY <1>1, <2>1, <4>1 DEF Behind
        <5> HIDE DEF a
        <5> QED
          BY <1>6, <1>7, <4>1, <5>1
      <4>2. CASE pc[t] = "loop"
        <5>1. batch'[t] = batch[t] - 1
          BY <1>0, <1>1, <4>2 DEF ProcessMessage, OnAccept, DataTypes
        <5>2. Behind(t) = batch[t] /\ Behind(t)' = batch[t] - 1
          BY <1>1, <2>1, <4>2, <5>1 DEF Behind
        <5>3. \A x, y \in Nat : n + x = y + 1 => (n + 1) + (x - 1) = y + 1
          OBVIOUS
        <5>4. n + batch[t] = a + 1
          BY <1>7, <4>2, <5>2
        <5> QED
          BY <1>6, <5>2, <5>3, <5>4
      <4> QED
        BY <1>1, <4>1, <4>2
    <3> QED
      BY <1>10, <2>1, <3>1, <3>2, <3>3 DEF Counts
  <2>12. Run(s, n + 1)'
    <3>1. b <= n /\ \A i \in 1 .. b : sendBuf[s][i] = n - b + i - 1
      BY <1>4 DEF Run
    <3>2. Unbroken(s) => Len(echoed[sock[s]]) + b = n + Sent(s)
      BY <1>4 DEF Run
    <3>3. Sent(s) \in Nat
      BY <1>4, <1>5, SlotFacts
    <3>4. \A e, m \in Nat : e + b = n + m => e + (b + 1) = (n + 1) + m
      <4>1. \A e, m, x \in Nat : e + x = n + m => e + (x + 1) = (n + 1) + m
        OBVIOUS
      <4> QED
        BY <1>6, <4>1
    <3>5. Unbroken(s) => Len(echoed[sock[s]]) + (b + 1) = (n + 1) + Sent(s)
      BY <1>6, <3>2, <3>3, <3>4
    <3>7. b + 1 <= n + 1
      BY <1>6, <3>1
    <3>6. ASSUME NEW i \in 1 .. b + 1 PROVE sendBuf'[s][i] = (n + 1) - (b + 1) + i - 1
      <4>1. CASE i = b + 1
        <5>1. (n + 1) - (b + 1) + i - 1 = n
          <6> HIDE DEF b
          <6> QED
            BY <1>6, <4>1
        <5>2. sendBuf'[s][i] = n
          BY <2>5, <4>1
        <5> QED
          BY <5>1, <5>2
      <4>2. CASE i # b + 1
        <5>1. i \in 1 .. b
          <6> HIDE DEF b
          <6> QED
            BY <1>6, <4>2
        <5>2. sendBuf'[s][i] = n - b + i - 1
          BY <2>5, <3>1, <5>1
        <5>3. (n + 1) - (b + 1) + i - 1 = n - b + i - 1
          <6> HIDE DEF b
          <6> QED
            BY <1>6
        <5> QED
          BY <5>2, <5>3
      <4> QED
        BY <4>1, <4>2
    <3> QED
      BY <2>1, <2>4, <2>5, <3>5, <3>6, <3>7 DEF Run
  <2>13. Room(s, n + 1)'
    <3>1. b + (a + 1 - n) <= RingMax
      BY <1>4 DEF Room
    <3>2. (b + 1) + (a + 1 - (n + 1)) <= RingMax
      <4> HIDE DEF a, b
      <4> QED
        BY <1>6, <3>1
    <3> QED
      BY <2>1, <2>5, <3>2 DEF Room
  <2>14. Numbers(s, n + 1)' /\ n + 1 \in Nat
    BY <2>11, <2>12, <2>13 DEF Numbers
  <2> QED
    BY <2>7, <2>8, <2>9, <2>10, <2>14 DEF SlotData, SendSide
<1> QED
  BY <1>10, <1>11

(***************************************************************************)
(* DataOK is kept                                                          *)
(***************************************************************************)
LEMMA HolderData ==
  ASSUME Types, Control, DataOK, NEW t \in Threads, HolderStep(t), Running'
  PROVE  DataOK'
<1>0. Shape /\ DataTypes
  BY TypeShape
<1>1. pc[t] \in RefPcs
  BY <1>0, HolderFrame
<1>2. cur[t] \in Sessions /\ ~Idle(cur[t])
  BY <1>0, <1>1, Held
<1>3. ASSUME NEW s \in Sessions, s = cur[t] PROVE SlotData(s)'
  <2>1. SlotData(s) /\ WindowOK
    BY <1>2, <1>3 DEF DataOK
  <2> QED
    BY <1>3, <2>1, TakeFlagStep, LendSlot, ReceiveSlot, DoneSlot, QueueSlot
       DEF HolderStep, SendPost, HandleStep
<1>4. ASSUME NEW s \in Sessions, s # cur[t], ~Idle(s)' PROVE SlotData(s)'
  <2>1. ~Idle(s)
    <3>1. cur' = cur /\ \A u \in Threads : u # t => pc'[u] = pc[u]
      BY <1>0, HolderFrame
    <3>2. recvIO'[s] = recvIO[s] /\ sendIO'[s] = sendIO[s]
      BY <1>0, <1>4, HolderFrame
    <3>3. At(s, RefPcs)' = At(s, RefPcs)
      BY <1>4, <3>1 DEF At
    <3> QED
      BY <1>4, <3>2, <3>3 DEF Idle
  <2> QED
    BY <1>4, <2>1, Elsewhere DEF DataOK
<1>5. WindowOK'
  <2>1. UNCHANGED <<arrived, echoed>>
    BY <1>0, HolderFrame
  <2> QED
    BY <2>1 DEF DataOK, WindowOK, Answered
<1> QED
  BY <1>3, <1>4, <1>5 DEF DataOK

\* the end of a completion, and Release
LEMMA LeaveData ==
  ASSUME Types, Control, DataOK, NEW t \in Threads, IODecrement(t) \/ Release(t)
  PROVE  DataOK'
<1>0. Shape /\ DataTypes
  BY TypeShape
<1>1. UNCHANGED <<arrived, echoed, recvIO, sendIO, recvLen, lent, sendCount, batch>>
  BY DEF IODecrement, Release, ReleaseDrain, ReleaseClose, ReleaseUnsock, ReleaseFree, FreeSlot,
     ioVars, netVars, sendVars
<1>2. pc[t] \in {"ioDec"} \cup ReleasePcs /\ pc'[t] \notin RefPcs
      /\ \A u \in Threads : u # t => pc'[u] = pc[u] /\ cur'[u] = cur[u] /\ op'[u] = op[u]
  BY <1>0 DEF IODecrement, Release, ReleaseDrain, ReleaseClose, ReleaseUnsock, ReleaseFree,
     FreeSlot, Goto, GoHome, ReleasePcs, Shape, RefPcs, SendPcs
<1>3. ASSUME NEW s \in Sessions, ~Idle(s)' PROVE SlotData(s)'
  <2>1. ~Idle(s)
    <3>1. At(s, RefPcs)' \subseteq At(s, RefPcs)
      BY <1>2 DEF At
    <3> QED
      BY <1>1, <1>3, <3>1 DEF Idle
  <2>2. sock[s] \in Conns /\ (pc[t] \in ReleasePcs => s # cur[t] /\ cur[t] \in Sessions)
    BY <2>1 DEF Control, LifeOK, CurOK, SlotPcs
  <2>3. pc[t] = "close" => sock[cur[t]] # sock[s]
    BY <2>2 DEF Control, OwnOK, ReleasePcs
  <2>4. sock'[s] = sock[s] /\ conn'[sock[s]] = conn[sock[s]] /\ sendBuf'[s] = sendBuf[s]
    BY <1>0, <2>2, <2>3 DEF IODecrement, Release, ReleaseDrain, ReleaseClose, ReleaseUnsock,
       ReleaseFree, FreeSlot, ReleasePcs, Shape, DataTypes, slotVars, netVars, sendVars
  <2>5. \A u \in Threads :
          /\ Acting(u, s)' <=> Acting(u, s)
          /\ Acting(u, s) => pc'[u] = pc[u] /\ op'[u] = op[u] /\ batch'[u] = batch[u]
    BY <1>1, <1>2 DEF Acting, ActPcs, ReleasePcs, RefPcs, SendPcs
  <2>6. Acceptor \in Threads /\ SlotData(s)
    BY <1>0, <2>1 DEF Shape, DataOK
  <2> QED
    BY <1>1, <2>4, <2>5, <2>6, Untouched
<1>4. WindowOK'
  BY <1>1 DEF DataOK, WindowOK, Answered
<1> QED
  BY <1>3, <1>4 DEF DataOK

\* a completion is dequeued
LEMMA DequeueRecvData ==
  ASSUME Types, Control, DataOK, NEW t \in Threads, NEW q \in Sessions, DequeueRecv(t, q)
  PROVE  DataOK'
<1>0. Shape /\ DataTypes
  BY TypeShape
<1>1. /\ ~Idle(q) /\ sock[q] \in Conns /\ t # Acceptor /\ pc[t] = "gqcs"
      /\ pc'[t] \in {"ioDec", "loop", "sendDone"} /\ cur'[t] = q
      /\ UNCHANGED <<scan, slotVars, ioCount, sendVars, netVars>>
      /\ \A u \in Threads : u # t => pc'[u] = pc[u] /\ cur'[u] = cur[u] /\ op'[u] = op[u]
  BY <1>0, DequeueHeld
<1>2. /\ recvIO[q] = "done" /\ recvLen'[q] = 0 /\ op'[t] = "recv" /\ batch'[t] = recvLen[q]
      /\ pc'[t] \in {"ioDec", "loop"} /\ (pc'[t] = "ioDec" <=> recvLen[q] = 0)
      /\ UNCHANGED <<sendIO, lent>>
      /\ \A u \in Threads : u # t => batch'[u] = batch[u]
  <2>1. sock[q] # None
    BY <1>0, <1>1 DEF Shape
  <2> QED
    BY <1>0, <2>1 DEF DequeueRecv, Goto, Shape, DataTypes
<1>3. UNCHANGED <<sock, conn, arrived, echoed, sendBuf, sendCount>>
  BY <1>1 DEF slotVars, netVars, sendVars
<1>a. \A s \in Sessions : s # q => recvLen'[s] = recvLen[s] /\ recvIO'[s] = recvIO[s]
  BY <1>0 DEF DequeueRecv, Shape, DataTypes
<1>4. ASSUME NEW s \in Sessions, s # q, ~Idle(s)' PROVE SlotData(s)'
  <2>1. ~Idle(s)
    <3>1. At(s, RefPcs)' \subseteq At(s, RefPcs)
      BY <1>1, <1>4 DEF At
    <3> QED
      BY <1>2, <1>4, <1>a, <3>1 DEF Idle
  <2>2. \A u \in Threads :
          /\ Acting(u, s)' <=> Acting(u, s)
          /\ Acting(u, s) => pc'[u] = pc[u] /\ op'[u] = op[u] /\ batch'[u] = batch[u]
    BY <1>1, <1>2, <1>4 DEF Acting, ActPcs, SendPcs
  <2>3. Acceptor \in Threads /\ SlotData(s)
    BY <1>0, <2>1 DEF Shape, DataOK
  <2> QED
    BY <1>2, <1>3, <1>4, <1>a, <2>2, <2>3, Untouched
<1>5. SlotData(q)'
  <2>1. SlotData(q)
    BY <1>1 DEF DataOK
  <2>2. \A l \in FlagPcs : Here(q, l)' <=> Here(q, l)
    BY <1>1, <1>2 DEF Here, At, FlagPcs
  <2>3. (Delivered(q)' <=> Delivered(q)) /\ (Unbroken(q)' <=> Unbroken(q)) /\ Sent(q)' = Sent(q)
        /\ (Holding(q)' <=> Holding(q))
    BY <1>2, <1>3, <2>2 DEF Delivered, Unbroken, Sent, Holding, FlagPcs
  <2>4. LentOK(q)' /\ AbortOK(q)' /\ SizeOK(q)'
    BY <1>2, <1>3, <2>1, <2>2, <2>3 DEF SlotData, SendSide, LentOK, AbortOK, SizeOK, FlagPcs
  <2>5. FirstOK(q)'
    <3>1. Acceptor \in Threads
      BY <1>0 DEF Shape
    <3> QED
      BY <1>1, <1>2, <1>3, <2>1, <3>1 DEF SlotData, SendSide, FirstOK
  <2>6. ASSUME NEW n \in Nat, Numbers(q, n) PROVE Numbers(q, n)'
    <3>1. \A u \in Threads : cur[u] = q => ~Receiving(u)
      BY <1>2 DEF Control, RecvOK
    <3>2. n + recvLen[q] = arrived[sock[q]] + 1
      BY <2>6, <3>1 DEF Numbers, Counts
    <3>3. \A u \in Threads : u # t => (Receiving(u)' <=> Receiving(u))
      BY <1>1 DEF Receiving
    <3>4. \A u \in Threads : cur'[u] = q /\ Receiving(u)' => u = t
      BY <1>1, <3>1, <3>3
    <3>5. (Receiving(t)' <=> pc'[t] = "loop") /\ Behind(t)' = recvLen[q]
      BY <1>2 DEF Receiving, RecvPcs, SendPcs, Behind
    <3>6. Counts(q, n)'
      BY <1>1, <1>2, <1>3, <3>2, <3>4, <3>5 DEF Counts
    <3>7. Run(q, n)' /\ Room(q, n)'
      BY <1>3, <2>3, <2>6 DEF Numbers, Run, Room
    <3> QED
      BY <3>6, <3>7 DEF Numbers
  <2> QED
    BY <2>1, <2>4, <2>5, <2>6 DEF SlotData, SendSide
<1>6. WindowOK'
  BY <1>3 DEF DataOK, WindowOK, Answered
<1> QED
  BY <1>4, <1>5, <1>6 DEF DataOK

LEMMA DequeueSendData ==
  ASSUME Types, Control, DataOK, NEW t \in Threads, NEW q \in Sessions, DequeueSend(t, q)
  PROVE  DataOK'
<1>0. Shape /\ DataTypes
  BY TypeShape
<1>1. /\ ~Idle(q) /\ sock[q] \in Conns /\ t # Acceptor /\ pc[t] = "gqcs"
      /\ pc'[t] \in {"ioDec", "loop", "sendDone"} /\ cur'[t] = q
      /\ UNCHANGED <<scan, slotVars, ioCount, sendVars, netVars>>
      /\ \A u \in Threads : u # t => pc'[u] = pc[u] /\ cur'[u] = cur[u] /\ op'[u] = op[u]
  BY <1>0, DequeueHeld
<1>2. /\ sendIO[q] \in {"done", "aborted"} /\ sendIO'[q] = "none" /\ lent'[q] = <<>>
      /\ op'[t] = "send" /\ UNCHANGED <<batch, recvIO, recvLen>>
      /\ pc'[t] = IF sendIO[q] = "aborted" THEN "ioDec" ELSE "sendDone"
  <2>1. sock[q] # None
    BY <1>0, <1>1 DEF Shape
  <2> QED
    BY <1>0, <2>1 DEF DequeueSend, Goto, Shape, DataTypes
<1>3. UNCHANGED <<sock, conn, arrived, echoed, sendBuf, sendCount>>
  BY <1>1 DEF slotVars, netVars, sendVars
<1>a. \A s \in Sessions : s # q => sendIO'[s] = sendIO[s] /\ lent'[s] = lent[s]
  BY <1>0 DEF DequeueSend, Shape, DataTypes
<1>4. ASSUME NEW s \in Sessions, s # q, ~Idle(s)' PROVE SlotData(s)'
  <2>1. ~Idle(s)
    <3>1. At(s, RefPcs)' \subseteq At(s, RefPcs)
      BY <1>1, <1>4 DEF At
    <3> QED
      BY <1>2, <1>4, <1>a, <3>1 DEF Idle
  <2>2. \A u \in Threads :
          /\ Acting(u, s)' <=> Acting(u, s)
          /\ Acting(u, s) => pc'[u] = pc[u] /\ op'[u] = op[u] /\ batch'[u] = batch[u]
    BY <1>1, <1>2, <1>4 DEF Acting, ActPcs, SendPcs
  <2>3. Acceptor \in Threads /\ SlotData(s)
    BY <1>0, <2>1 DEF Shape, DataOK
  <2> QED
    BY <1>2, <1>3, <1>4, <1>a, <2>2, <2>3, Untouched
<1>5. SlotData(q)'
  <2>1. SlotData(q) /\ LentOK(q) /\ AbortOK(q) /\ SizeOK(q) /\ FirstOK(q)
    BY <1>1 DEF DataOK, SlotData, SendSide
  <2>2. \A u \in Threads : cur[u] = q => pc[u] \notin FlagPcs
    BY <1>2 DEF Control, SendExclusive
  <2>3. \A l \in FlagPcs : ~Here(q, l) /\ (Here(q, l)' <=> pc'[t] = l)
    BY <1>1, <2>2 DEF Here, At
  <2>4. /\ ~Here(q, "sendDone") /\ ~Here(q, "gather") /\ ~Here(q, "post") /\ ~Here(q, "wsaSend")
        /\ ~Here(q, "failClear")
        /\ ~Here(q, "gather")' /\ ~Here(q, "post")' /\ ~Here(q, "wsaSend")'
        /\ ~Here(q, "failClear")' /\ (Here(q, "sendDone")' <=> sendIO[q] = "done")
    BY <1>2, <2>3 DEF FlagPcs
  <2>5. (Delivered(q) <=> sendIO[q] = "done") /\ (Delivered(q)' <=> sendIO[q] = "done")
        /\ ~Holding(q)'
    BY <1>2, <2>4 DEF Delivered, Holding
  <2>6. (Unbroken(q)' => Unbroken(q)) /\ Sent(q)' = Sent(q)
    BY <1>3, <2>5 DEF Unbroken, Sent
  <2>7. LentOK(q)' /\ AbortOK(q)'
    BY <1>2, <2>4, <2>5 DEF LentOK, AbortOK
  <2>8. SizeOK(q)'
    <3>1. CASE sendIO[q] = "aborted"
      <4>1. ~Unbroken(q)'
        BY <1>3, <2>1, <2>5, <3>1 DEF AbortOK, Unbroken
      <4> QED
        BY <4>1 DEF SizeOK
    <3>2. CASE sendIO[q] = "done"
      <4>1. sendCount[q] = Len(lent[q]) /\ Len(lent[q]) <= Most
            /\ lent[q] # <<>> /\ Len(lent[q]) <= Len(sendBuf[q])
        BY <2>1, <2>5, <3>2 DEF SizeOK, LentOK, Unbroken, Holding
      <4>2. lent[q] \in Seq(Int) /\ Len(lent[q]) \in Nat
        <5>1. \A m \in Seq(Int) : Len(m) \in Nat
          OBVIOUS
        <5> QED
          BY <1>0, <5>1 DEF DataTypes
      <4>3. Len(lent[q]) # 0
        BY <4>1, <4>2, EmptySeq
      <4>4. 0 < sendCount[q]
        BY <4>1, <4>2, <4>3
      <4> QED
        BY <1>2, <1>3, <2>4, <2>5, <3>2, <4>1, <4>4 DEF SizeOK
    <3> QED
      BY <1>2, <3>1, <3>2
  <2>9. FirstOK(q)'
    <3>1. Acceptor \in Threads
      BY <1>0 DEF Shape
    <3>2. ~(cur[Acceptor] = q /\ pc[Acceptor] \in FirstPcs)
      BY <1>2, <2>2, <3>1 DEF FirstPcs, FlagPcs, Control, AloneOK
    <3> QED
      BY <1>2, <1>3, <2>1, <3>2 DEF FirstOK
  <2>10. ASSUME NEW n \in Nat, Numbers(q, n) PROVE Numbers(q, n)'
    <3>1. \A u \in Threads : ~(cur'[u] = q /\ Receiving(u)' /\ u = t)
      BY <1>2 DEF Receiving, RecvPcs, SendPcs
    <3>2. \A u \in Threads : u # t => (Receiving(u)' <=> Receiving(u)) /\ Behind(u)' = Behind(u)
      BY <1>1, <1>2 DEF Receiving, Behind
    <3>3. ~Receiving(t)
      BY <1>1 DEF Receiving, RecvPcs, SendPcs
    <3>4. Counts(q, n)'
      BY <1>1, <1>2, <1>3, <2>10, <3>1, <3>2, <3>3 DEF Numbers, Counts
    <3>5. Run(q, n)' /\ Room(q, n)'
      BY <1>3, <2>6, <2>10 DEF Numbers, Run, Room
    <3> QED
      BY <3>4, <3>5 DEF Numbers
  <2> QED
    BY <2>1, <2>7, <2>8, <2>9, <2>10 DEF SlotData, SendSide
<1>6. WindowOK'
  BY <1>3 DEF DataOK, WindowOK, Answered
<1> QED
  BY <1>4, <1>5, <1>6 DEF DataOK

\* the accept thread looks for a slot
LEMMA SearchData ==
  ASSUME Types, Control, DataOK, (\E c \in Conns : Accept(c)) \/ AcceptScan
  PROVE  DataOK'
<1>0. Shape /\ DataTypes
  BY TypeShape
<1>1. /\ UNCHANGED <<sock, arrived, echoed, recvIO, sendIO, recvLen, lent, sendCount, sendBuf, batch>>
      /\ pc[Acceptor] \in {"accept", "scan"} /\ pc'[Acceptor] \in {"scan", "init", "breakSlots"}
      /\ \A u \in Threads : u # Acceptor => pc'[u] = pc[u] /\ cur'[u] = cur[u] /\ op'[u] = op[u]
      /\ \A c \in Conns : conn'[c] = conn[c] \/ conn[c] = "new"
  BY <1>0 DEF Accept, AcceptScan, Goto, Shape, slotVars, sendVars, ioVars, netVars
<1>2. ASSUME NEW s \in Sessions, ~Idle(s)' PROVE SlotData(s)'
  <2>1. ~Idle(s)
    <3>1. At(s, RefPcs)' \subseteq At(s, RefPcs)
      BY <1>1 DEF At, RefPcs, SendPcs
    <3> QED
      BY <1>1, <1>2, <3>1 DEF Idle
  <2>2. sock[s] \in Conns /\ conn'[sock[s]] = conn[sock[s]]
    BY <1>1, <2>1 DEF Control, LifeOK, OwnOK
  <2>3. \A u \in Threads :
          /\ Acting(u, s)' <=> Acting(u, s)
          /\ Acting(u, s) => pc'[u] = pc[u] /\ op'[u] = op[u] /\ batch'[u] = batch[u]
    BY <1>1 DEF Acting, ActPcs, SendPcs
  <2>4. Acceptor \in Threads /\ SlotData(s)
    BY <1>0, <2>1 DEF Shape, DataOK
  <2> QED
    BY <1>1, <2>2, <2>3, <2>4, Untouched
<1>3. WindowOK'
  BY <1>1 DEF DataOK, WindowOK, Answered
<1> QED
  BY <1>2, <1>3 DEF DataOK

\* a session begins: nothing was queued, received or sent yet
LEMMA InitSessionData ==
  ASSUME Types, Control, DataOK, InitSession
  PROVE  DataOK'
<1>0. Shape /\ DataTypes
  BY TypeShape
<1> DEFINE A == Acceptor
<1>1. /\ UNCHANGED <<scan, op, batch, arrived, echoed, conn, recvIO, sendIO, recvLen, lent>>
      /\ pc[A] = "init" /\ pc'[A] = "onAccept" /\ cur'[A] = scan
      /\ \A u \in Threads : u # A => pc'[u] = pc[u] /\ cur'[u] = cur[u]
      /\ \A s \in Sessions : s # scan =>
           sock'[s] = sock[s] /\ sendBuf'[s] = sendBuf[s] /\ sendCount'[s] = sendCount[s]
  BY <1>0 DEF InitSession, Goto, Shape, DataTypes, ioVars, netVars
<1>2. /\ scan \in Sessions /\ A \in Threads
      /\ sock'[scan] = cur[A] /\ sendBuf'[scan] = <<>> /\ sendCount'[scan] = 0
  BY <1>0 DEF InitSession, Shape, DataTypes
<1>3. ASSUME NEW s \in Sessions, s # scan, ~Idle(s)' PROVE SlotData(s)'
  <2>1. ~Idle(s)
    <3>1. At(s, RefPcs)' \subseteq At(s, RefPcs)
      BY <1>1, <1>3 DEF At
    <3> QED
      BY <1>1, <1>3, <3>1 DEF Idle
  <2>2. \A u \in Threads :
          /\ Acting(u, s)' <=> Acting(u, s)
          /\ Acting(u, s) => pc'[u] = pc[u] /\ op'[u] = op[u] /\ batch'[u] = batch[u]
    BY <1>1, <1>3 DEF Acting, ActPcs, SendPcs
  <2>3. SlotData(s)
    BY <2>1 DEF DataOK
  <2> QED
    BY <1>1, <1>2, <1>3, <2>2, <2>3, Untouched
<1>4. SlotData(scan)'
  <2>1. Idle(scan) /\ op[A] = "accept" /\ cur[A] \in Conns
    BY <1>1 DEF Control, LifeOK, CurOK
  <2>2. arrived[cur[A]] = 0 /\ echoed[cur[A]] = <<>>
    BY <1>1 DEF Control, OwnOK
  <2>3. sendIO[scan] = "none" /\ recvIO[scan] = "none" /\ recvLen[scan] = 0
    BY <1>2, <2>1 DEF Idle, Control, RecvOK
  <2>4. \A u \in Threads : cur'[u] = scan /\ pc'[u] \in RefPcs => u = A
    BY <1>1, <2>1 DEF Idle, At
  <2>5. \A u \in Threads : cur'[u] = scan /\ Receiving(u)' => u = A
    BY <2>4 DEF Receiving, RecvPcs, RefPcs
  <2>6. Receiving(A)' /\ Behind(A)' = 0
    BY <1>1, <2>1 DEF Receiving, RecvPcs, Behind
  <2> DEFINE q == scan
  <2>7. q' = q
    BY <1>1
  <2>8. \A l \in {"gather", "post", "wsaSend", "failClear", "sendDone"} : ~Here(q, l)'
    <3>1. \A u \in Threads : ~(cur'[u] = scan
                           /\ pc'[u] \in {"gather", "post", "wsaSend", "failClear", "sendDone"})
      BY <1>1, <2>4 DEF RefPcs, SendPcs
    <3> QED
      BY <2>7, <3>1 DEF Here, At
  <2>9. ~Delivered(q)' /\ ~Holding(q)' /\ Sent(q)' = 0
    BY <1>1, <2>3, <2>7, <2>8 DEF Delivered, Holding, Sent
  <2>10. LentOK(q)' /\ AbortOK(q)' /\ SizeOK(q)'
    BY <1>1, <1>2, <2>3, <2>7, <2>8, <2>9 DEF LentOK, AbortOK, SizeOK
  <2>11. FirstOK(q)'
    BY <1>1, <2>7 DEF FirstOK, FirstPcs
  <2>12. Counts(q, 0)'
    BY <1>1, <1>2, <2>2, <2>5, <2>6, <2>7 DEF Counts
  <2>13. Len(<<>>) = 0 /\ RingMax >= 1
    BY ConstantsAssumption
  <2>14. Run(q, 0)'
    BY <1>1, <1>2, <2>2, <2>7, <2>9, <2>13 DEF Run
  <2>15. Room(q, 0)'
    <3>1. 0 + (0 + 1 - 0) <= RingMax
      BY <2>13, ConstantsAssumption
    <3> QED
      BY <1>1, <1>2, <2>2, <2>7, <2>13, <3>1 DEF Room
  <2> QED
    BY <2>10, <2>11, <2>12, <2>14, <2>15 DEF SlotData, SendSide, Numbers
<1>5. WindowOK'
  BY <1>1 DEF DataOK, WindowOK, Answered
<1>6. scan' = scan
  BY <1>1
<1> QED
  BY <1>3, <1>4, <1>5, <1>6 DEF DataOK

\* the clients and the kernel
LEMMA OutsideIdle ==
  ASSUME Shape, DataTypes, OutsideStep, NEW s \in Sessions
  PROVE  /\ Idle(s)' <=> Idle(s)
         /\ \A l : Here(s, l)' <=> Here(s, l)
<1>1. /\ UNCHANGED <<pc, cur>>
      /\ recvIO'[s] = recvIO[s] \/ (recvIO[s] = "pending" /\ recvIO'[s] = "done")
      /\ \/ sendIO'[s] = sendIO[s]
         \/ sendIO[s] = "pending" /\ sendIO'[s] \in {"done", "aborted"}
  BY OutsideFrame
<1> QED
  BY <1>1 DEF Idle, Here, At

\* for a session the step is not about
LEMMA OutsideElsewhere ==
  ASSUME Shape, DataTypes, OutsideStep, NEW s \in Sessions, SlotData(s),
         LET c == sock[s] IN
           conn'[c] = conn[c] /\ arrived'[c] = arrived[c] /\ echoed'[c] = echoed[c],
         sendIO'[s] = sendIO[s], recvLen'[s] = recvLen[s]
  PROVE  SlotData(s)'
<1>1. UNCHANGED <<pc, cur, op, batch, sock, sendCount, sendBuf, lent>>
  BY OutsideFrame
<1>2. \A u \in Threads :
        /\ Acting(u, s)' <=> Acting(u, s)
        /\ Acting(u, s) => pc'[u] = pc[u] /\ op'[u] = op[u] /\ batch'[u] = batch[u]
  BY <1>1 DEF Acting
<1>3. Acceptor \in Threads
  BY DEF Shape
<1> QED
  BY <1>1, <1>2, <1>3, Untouched

LEMMA LeavesData ==
  ASSUME Types, Control, DataOK, NEW c \in Conns, ClientLeaves(c)
  PROVE  DataOK'
<1>0. Shape /\ DataTypes /\ OutsideStep
  BY TypeShape DEF OutsideStep
<1>1. UNCHANGED <<pc, cur, op, batch, sock, sendCount, sendBuf, lent, sendIO, recvIO, recvLen,
                  arrived, echoed>>
  BY DEF ClientLeaves, threadVars, slotVars, sendVars, ioVars
<1>2. \A d \in Conns : conn'[d] # conn[d] => conn[d] \in {"open", "fin"} /\ conn'[d] \in {"fin", "reset"}
  BY <1>0 DEF ClientLeaves, Shape
<1>3. ASSUME NEW s \in Sessions, ~Idle(s)' PROVE SlotData(s)'
  <2>1. ~Idle(s) /\ \A l : Here(s, l)' <=> Here(s, l)
    BY <1>0, <1>3, OutsideIdle
  <2>2. SlotData(s) /\ sock[s] \in Conns
    BY <2>1 DEF DataOK, Control, LifeOK
  <2>3. /\ conn[sock[s]] = "reset" => conn'[sock[s]] = "reset"
    BY <1>2, <2>2
  <2>4. (Delivered(s)' <=> Delivered(s)) /\ (Unbroken(s)' => Unbroken(s)) /\ Sent(s)' = Sent(s)
        /\ (Holding(s)' <=> Holding(s))
    BY <1>1, <2>1, <2>3 DEF Delivered, Unbroken, Sent, Holding
  <2>5. LentOK(s)' /\ AbortOK(s)' /\ SizeOK(s)'
    BY <1>1, <2>1, <2>2, <2>3, <2>4 DEF SlotData, SendSide, LentOK, AbortOK, SizeOK
  <2>6. FirstOK(s)'
    BY <1>1, <2>2, <2>3 DEF SlotData, SendSide, FirstOK
  <2>7. ASSUME NEW n \in Nat, Numbers(s, n) PROVE Numbers(s, n)'
    BY <1>1, <2>4, <2>7 DEF Numbers, Counts, Run, Room, Receiving, Behind
  <2> QED
    BY <2>2, <2>5, <2>6, <2>7 DEF SlotData, SendSide
<1>4. WindowOK'
  BY <1>1 DEF DataOK, WindowOK, Answered
<1> QED
  BY <1>3, <1>4 DEF DataOK

LEMMA RecvEndsData ==
  ASSUME Types, Control, DataOK, NEW q \in Sessions, RecvEnds(q)
  PROVE  DataOK'
<1>0. Shape /\ DataTypes /\ OutsideStep
  BY TypeShape DEF OutsideStep, KernelCompletes
<1>1. UNCHANGED <<sendIO, recvLen, conn, arrived, echoed>>
  BY DEF RecvEnds, netVars
<1>2. \A s \in Sessions : Idle(s)' <=> Idle(s)
  BY <1>0, OutsideIdle
<1>3. \A s \in Sessions : ~Idle(s)' => SlotData(s)'
  BY <1>0, <1>1, <1>2, OutsideElsewhere DEF DataOK
<1>4. WindowOK'
  BY <1>1 DEF DataOK, WindowOK, Answered
<1> QED
  BY <1>3, <1>4 DEF DataOK

\* the send breaks: no more is claimed of its packets
LEMMA AbortsData ==
  ASSUME Types, Control, DataOK, NEW q \in Sessions, SendAborts(q)
  PROVE  DataOK'
<1>0. Shape /\ DataTypes /\ OutsideStep
  BY TypeShape DEF OutsideStep, KernelCompletes
<1>1. /\ UNCHANGED <<recvLen, conn, arrived, echoed>>
      /\ sendIO[q] = "pending" /\ conn[sock[q]] = "reset" /\ sendIO'[q] = "aborted"
      /\ \A s \in Sessions : s # q => sendIO'[s] = sendIO[s]
  BY <1>0 DEF SendAborts, netVars, Shape
<1>2. \A s \in Sessions : Idle(s)' <=> Idle(s)
  BY <1>0, OutsideIdle
<1>3. \A s \in Sessions : s # q /\ ~Idle(s)' => SlotData(s)'
  BY <1>0, <1>1, <1>2, OutsideElsewhere DEF DataOK
<1>4. SlotData(q)'
  <2>1. SlotData(q)
    BY <1>1 DEF Idle, DataOK
  <2>2. UNCHANGED <<pc, cur, op, batch, sock, sendCount, sendBuf, lent>>
    BY <1>0, OutsideFrame
  <2>3. \A u \in Threads : cur[u] = q => pc[u] \notin FlagPcs
    BY <1>1 DEF Control, SendExclusive
  <2>4. \A l \in FlagPcs : ~Here(q, l) /\ ~Here(q, l)'
    BY <2>2, <2>3 DEF Here, At
  <2>5. ~Delivered(q) /\ ~Delivered(q)' /\ ~Unbroken(q)' /\ ~Holding(q)' /\ Sent(q)' = Sent(q)
    BY <1>1, <2>2, <2>4 DEF Delivered, Unbroken, Holding, Sent, FlagPcs
  <2>6. LentOK(q)' /\ AbortOK(q)' /\ SizeOK(q)' /\ FirstOK(q)'
    BY <1>1, <2>2, <2>4, <2>5 DEF LentOK, AbortOK, SizeOK, FirstOK, FlagPcs
  <2>7. ASSUME NEW n \in Nat, Numbers(q, n) PROVE Numbers(q, n)'
    BY <1>1, <2>2, <2>5, <2>7 DEF Numbers, Counts, Run, Room, Receiving, Behind
  <2> QED
    BY <2>1, <2>6, <2>7 DEF SlotData, SendSide
<1>5. WindowOK'
  BY <1>1 DEF DataOK, WindowOK, Answered
<1> QED
  BY <1>3, <1>4, <1>5 DEF DataOK

\* what is lent is in the ring, and goes out as it is
LEMMA OutIsLent ==
  ASSUME DataTypes, NEW s \in Sessions, sendIO[s] = "pending", LentOK(s)
  PROVE  /\ Out(s) \in Seq(Int) /\ Len(Out(s)) = Len(lent[s]) /\ Len(lent[s]) \in Nat
         /\ lent[s] # <<>> /\ Len(lent[s]) <= Len(sendBuf[s])
         /\ \A i \in 1 .. Len(lent[s]) : Out(s)[i] = sendBuf[s][i]
<1>1. /\ lent[s] # <<>> /\ Len(lent[s]) <= Len(sendBuf[s])
      /\ \A i \in 1 .. Len(lent[s]) : lent[s][i] = sendBuf[s][i]
  BY DEF LentOK, Holding
<1>2. lent[s] \in Seq(Int) /\ Len(lent[s]) \in Nat /\ DOMAIN lent[s] = 1 .. Len(lent[s])
      /\ sendBuf[s] \in Seq(Int) /\ Len(sendBuf[s]) \in Nat
  BY DEF DataTypes
<1>3. \A i \in 1 .. Len(sendBuf[s]) : sendBuf[s][i] \in Seqs!ToSet(sendBuf[s])
  BY <1>2 DEF Seqs!ToSet
<1>4. \A i \in 1 .. Len(lent[s]) : i \in 1 .. Len(sendBuf[s])
  BY <1>1, <1>2
<1>5. \A i \in 1 .. Len(lent[s]) : Out(s)[i] = sendBuf[s][i]
  BY <1>1, <1>2, <1>3, <1>4 DEF Out
<1> QED
  BY <1>1, <1>2, <1>5, OutType

\* the client receives the packets of a send
LEMMA CompletesData ==
  ASSUME Types, Control, DataOK, NEW q \in Sessions, SendCompletes(q)
  PROVE  DataOK'
<1>0. Shape /\ DataTypes /\ OutsideStep
  BY TypeShape DEF OutsideStep, KernelCompletes
<1> DEFINE c == sock[q]
           e == Len(echoed[c])
           b == Len(sendBuf[q])
           k == Len(lent[q])
<1>1. /\ UNCHANGED <<recvLen, conn, arrived>>
      /\ sendIO[q] = "pending" /\ conn[c] \in {"open", "fin"} /\ sendIO'[q] = "done"
      /\ \A s \in Sessions : s # q => sendIO'[s] = sendIO[s]
      /\ echoed' = [echoed EXCEPT ![c] = @ \o Out(q)]
  BY <1>0 DEF SendCompletes, Shape, Out
<1>2. SlotData(q) /\ c \in Conns /\ ~Idle(q)
  BY <1>1 DEF Idle, DataOK, Control, LifeOK
<1>3. LentOK(q) /\ AbortOK(q) /\ SizeOK(q) /\ FirstOK(q)
  BY <1>2 DEF SlotData, SendSide
<1>4. UNCHANGED <<pc, cur, op, batch, sock, sendCount, sendBuf, lent>>
  BY <1>0, OutsideFrame
<1>5. echoed[c] \in Seq(Int) /\ e \in Nat
  <2>1. \A m \in Seq(Int) : Len(m) \in Nat
    OBVIOUS
  <2> QED
    BY <1>0, <1>2, <2>1 DEF DataTypes
<1>6. Out(q) \in Seq(Int) /\ Len(Out(q)) = k /\ k \in Nat /\ lent[q] # <<>>
  BY <1>0, <1>1, <1>3, OutIsLent
<1>7. echoed'[c] = echoed[c] \o Out(q) /\ \A d \in Conns : d # c => echoed'[d] = echoed[d]
  BY <1>0, <1>1, <1>2 DEF DataTypes
<1>8. Len(echoed'[c]) = e + k /\ echoed'[c] # <<>>
  <2>1. \A m, r \in Seq(Int) : m \o r \in Seq(Int) /\ Len(m \o r) = Len(m) + Len(r)
    OBVIOUS
  <2>2. Len(echoed'[c]) = e + k /\ echoed'[c] \in Seq(Int)
    BY <1>5, <1>6, <1>7, <2>1
  <2>3. k # 0
    BY <1>0, <1>6, EmptySeq DEF DataTypes
  <2>4. e + k # 0
    <3> HIDE DEF e, k
    <3> QED
      BY <1>5, <1>6, <2>3
  <2> QED
    BY <2>2, <2>4, EmptySeq
<1>9. \A s \in Sessions : Idle(s)' <=> Idle(s)
  BY <1>0, OutsideIdle
<1>10. ASSUME NEW s \in Sessions, s # q, ~Idle(s)' PROVE SlotData(s)'
  <2>1. ~Idle(s) /\ SlotData(s) /\ sock[s] \in Conns
    BY <1>9, <1>10 DEF DataOK, Control, LifeOK
  <2>2. sock[s] # c
    BY <1>10, <2>1 DEF Control, OwnOK
  <2>3. echoed'[sock[s]] = echoed[sock[s]]
    BY <1>7, <2>1, <2>2
  <2> QED
    BY <1>0, <1>1, <1>10, <2>1, <2>3, OutsideElsewhere
<1>11. SlotData(q)'
  <2>1. \A u \in Threads : cur[u] = q => pc[u] \notin FlagPcs
    BY <1>1 DEF Control, SendExclusive
  <2>2. \A l \in FlagPcs : ~Here(q, l) /\ ~Here(q, l)'
    BY <1>4, <2>1 DEF Here, At
  <2>3. ~Delivered(q) /\ Delivered(q)' /\ Unbroken(q) /\ Sent(q) = 0 /\ Sent(q)' = sendCount[q]
        /\ Holding(q) /\ Holding(q)'
    BY <1>1, <1>4, <2>2 DEF Delivered, Unbroken, Holding, Sent, FlagPcs
  <2>4. sendCount[q] = k /\ k <= Most
    BY <1>1, <1>3, <2>3 DEF SizeOK
  <2>5. LentOK(q)' /\ AbortOK(q)' /\ SizeOK(q)'
    BY <1>1, <1>3, <1>4, <2>2, <2>3, <2>4 DEF LentOK, AbortOK, SizeOK, FlagPcs
  <2>6. FirstOK(q)'
    BY <1>4, <1>8 DEF FirstOK
  <2>7. ASSUME NEW n \in Nat, Numbers(q, n) PROVE Numbers(q, n)'
    <3>1. Counts(q, n)' /\ Room(q, n)'
      BY <1>1, <1>4, <2>7 DEF Numbers, Counts, Room, Receiving, Behind
    <3>2. e + b = n + 0
      BY <2>3, <2>7 DEF Numbers, Run
    <3>3. b \in Nat
      BY <1>0 DEF DataTypes
    <3>4. (e + k) + b = n + k
      <4> HIDE DEF e, b, k
      <4> QED
        BY <1>5, <1>6, <3>2, <3>3
    <3>5. Len(echoed'[c]) + b = n + Sent(q)'
      BY <1>8, <2>3, <2>4, <3>4
    <3>6. Run(q, n)'
      BY <1>4, <2>7, <3>5 DEF Numbers, Run
    <3> QED
      BY <3>1, <3>6 DEF Numbers
  <2> QED
    BY <1>2, <2>5, <2>6, <2>7 DEF SlotData, SendSide
<1>12. WindowOK'
  <2>1. ASSUME NEW d \in Conns PROVE arrived'[d] <= Answered(d)' + Window
    <3>1. arrived[d] <= Answered(d) + Window /\ arrived'[d] = arrived[d]
      BY <1>1 DEF DataOK, WindowOK
    <3>2. CASE d # c
      BY <1>7, <3>1, <3>2 DEF Answered
    <3>3. CASE d = c
      <4>1. Answered(d)' = (e + k) - 1
        BY <1>8, <3>3 DEF Answered
      <4>2. Answered(d) = IF echoed[c] = <<>> THEN 0 ELSE e - 1
        BY <3>3 DEF Answered
      <4>3. k # 0 /\ (echoed[c] = <<>> => e = 0)
        BY <1>0, <1>5, <1>6, EmptySeq DEF DataTypes
      <4>4. Answered(d) \in Int /\ Answered(d)' \in Int /\ Answered(d) <= Answered(d)'
        <5> HIDE DEF e, k
        <5> QED
          BY <1>5, <1>6, <4>1, <4>2, <4>3
      <4>5. arrived[d] \in Nat /\ Window \in Nat
        BY <1>0, ConstantsAssumption DEF DataTypes
      <4> QED
        BY <3>1, <4>4, <4>5
    <3> QED
      BY <3>2, <3>3
  <2> QED
    BY <2>1 DEF WindowOK
<1> QED
  BY <1>10, <1>11, <1>12 DEF DataOK

\* messages arrive: the ring has room for their echoes
LEMMA ArrivesData ==
  ASSUME Types, Control, DataOK, Capacity,
         NEW q \in Sessions, NEW k \in 1 .. MaxMsg, RecvArrives(q, k)
  PROVE  DataOK'
<1>0. Shape /\ DataTypes /\ OutsideStep
  BY TypeShape DEF OutsideStep
<1> DEFINE c == sock[q]
           a == arrived[c]
           e == Len(echoed[c])
           b == Len(sendBuf[q])
<1>1. recvIO[q] = "pending" /\ ~Idle(q) /\ SlotData(q) /\ c \in Conns
  BY DEF RecvArrives, Idle, DataOK, Control, LifeOK
<1>2. /\ UNCHANGED <<sendIO, conn, echoed>>
      /\ conn[c] = "open" /\ a + k <= Answered(c) + Window /\ arrived'[c] = a + k
      /\ recvLen'[q] = k
      /\ \A d \in Conns : d # c => arrived'[d] = arrived[d]
      /\ \A s \in Sessions : s # q => recvLen'[s] = recvLen[s]
  BY <1>0, <1>1 DEF RecvArrives, DataTypes
<1>3. UNCHANGED <<pc, cur, op, batch, sock, sendCount, sendBuf, lent>>
  BY <1>0, OutsideFrame
<1>4. \A s \in Sessions : (Idle(s)' <=> Idle(s)) /\ \A l : Here(s, l)' <=> Here(s, l)
  BY <1>0, OutsideIdle
<1>5. ASSUME NEW s \in Sessions, s # q, ~Idle(s)' PROVE SlotData(s)'
  <2>1. ~Idle(s) /\ SlotData(s) /\ sock[s] \in Conns
    BY <1>4, <1>5 DEF DataOK, Control, LifeOK
  <2>2. sock[s] # c
    BY <1>1, <1>5, <2>1 DEF Control, OwnOK
  <2> QED
    BY <1>0, <1>2, <1>5, <2>1, <2>2, OutsideElsewhere
<1>6. SlotData(q)'
  <2>1. \A l : Here(q, l)' <=> Here(q, l)
    BY <1>4
  <2>2. (Delivered(q)' <=> Delivered(q)) /\ (Unbroken(q)' <=> Unbroken(q)) /\ Sent(q)' = Sent(q)
        /\ (Holding(q)' <=> Holding(q))
    BY <1>2, <1>3, <2>1 DEF Delivered, Unbroken, Sent, Holding
  <2>3. LentOK(q)' /\ AbortOK(q)' /\ SizeOK(q)' /\ FirstOK(q)'
    BY <1>1, <1>2, <1>3, <2>1, <2>2 DEF SlotData, SendSide, LentOK, AbortOK, SizeOK, FirstOK
  <2>4. PICK n \in Nat : Numbers(q, n)
    BY <1>1 DEF SlotData
  <2>5. Counts(q, n) /\ Run(q, n)
    BY <2>4 DEF Numbers
  <2>6. /\ a \in Nat /\ b \in Nat /\ e \in Nat /\ Sent(q) \in Nat /\ echoed[c] \in Seq(Int)
        /\ Window \in Nat /\ RingMax \in Nat \ {0} /\ k \in Nat /\ k > 0
    BY <1>1, <2>5, SlotFacts, ConstantsAssumption
  <2>7. \A u \in Threads : cur[u] = q => ~Receiving(u)
    BY <1>1 DEF Control, RecvOK
  <2>8. n + 0 = a + 1
    <3>1. recvLen[q] = 0
      BY <1>1 DEF Control, RecvOK
    <3> QED
      BY <2>5, <2>7, <3>1 DEF Counts
  <2>9. Counts(q, n)'
    <3>1. \A u \in Threads : cur'[u] = q => ~Receiving(u)'
      BY <1>3, <2>7 DEF Receiving
    <3>2. n + k = (a + k) + 1
      <4> HIDE DEF a
      <4> QED
        BY <2>6, <2>8
    <3> QED
      BY <1>2, <1>3, <3>1, <3>2 DEF Counts
  <2>10. Run(q, n)'
    BY <1>2, <1>3, <2>2, <2>5 DEF Run
  <2>11. b + k <= RingMax
    <3>1. e + b = n + Sent(q) /\ b <= n
      BY <1>2, <2>5 DEF Unbroken, Run
    <3>2. Sent(q) <= Most
      <4>1. Unbroken(q)
        BY <1>2 DEF Unbroken
      <4>2. CASE sendIO[q] = "done"
        BY <1>1, <4>1, <4>2 DEF SlotData, SendSide, SizeOK, Sent, Delivered, Holding
      <4>3. CASE Here(q, "sendDone")
        BY <1>1, <4>1, <4>3 DEF SlotData, SendSide, SizeOK, Sent, Delivered
      <4>4. CASE ~Delivered(q)
        BY <2>6, <4>4 DEF Sent, Most
      <4> QED
        BY <4>2, <4>3, <4>4 DEF Delivered
    <3>3. Answered(c) = IF e = 0 THEN 0 ELSE e - 1
      BY <2>6, EmptySeq DEF Answered
    <3>4. a + k <= (IF e = 0 THEN 0 ELSE e - 1) + Window
      BY <1>2, <3>3
    <3>5. \A x, y, z, m \in Nat :
            /\ z + y = n + m /\ y <= n /\ n + 0 = x + 1 /\ m <= Most
            /\ x + k <= (IF z = 0 THEN 0 ELSE z - 1) + Window
            => y + k <= RingMax
      BY <2>6 DEF Most, Capacity
    <3> HIDE DEF a, b, e
    <3> QED
      BY <2>6, <2>8, <3>1, <3>2, <3>4, <3>5
  <2>12. Room(q, n)'
    <3>1. b + ((a + k) + 1 - n) <= RingMax
      <4> HIDE DEF a, b
      <4> QED
        BY <2>6, <2>8, <2>11
    <3> QED
      BY <1>2, <1>3, <3>1 DEF Room
  <2> QED
    BY <2>3, <2>9, <2>10, <2>12 DEF SlotData, SendSide, Numbers
<1>7. WindowOK'
  <2>1. ASSUME NEW d \in Conns PROVE arrived'[d] <= Answered(d)' + Window
    <3>1. Answered(d)' = Answered(d) /\ arrived[d] <= Answered(d) + Window
      BY <1>2 DEF Answered, DataOK, WindowOK
    <3> QED
      BY <1>2, <3>1
  <2> QED
    BY <2>1 DEF WindowOK
<1> QED
  BY <1>5, <1>6, <1>7 DEF DataOK

LEMMA DataStep ==
  ASSUME Types, Control, DataOK, Capacity, Next, Running'
  PROVE  DataOK'
BY HolderData, LeaveData, DequeueRecvData, DequeueSendData, SearchData, InitSessionData,
   LeavesData, RecvEndsData, AbortsData, CompletesData, ArrivesData, NextSplit
   DEF OutsideStep, KernelCompletes

(***************************************************************************)
(* An open connection is received from                                     *)
(***************************************************************************)
\* another session's receive side, or a step that leaves it alone
LEMMA StayKept ==
  ASSUME NEW s \in Sessions,
         \A u \in Threads : cur[u] = s /\ Receiving(u) => cur'[u] = s /\ Receiving(u)',
         recvIO'[s] = recvIO[s], recvLen'[s] = recvLen[s]
  PROVE  Staying(s) => Staying(s)'
BY DEF Staying

LEMMA StayStep ==
  ASSUME Types, Control, StayOK, Next, Running'
  PROVE  StayOK'
<1>0. Shape /\ DataTypes
  BY TypeShape
<1> DEFINE Open(s) == sock[s] \in Conns /\ conn[sock[s]] = "open"
<1>a. \A s \in Sessions : Open(s) => Staying(s)
  BY DEF StayOK
<1>b. ASSUME \A s \in Sessions : Open(s)' => Staying(s)' PROVE StayOK'
  BY <1>b DEF StayOK
<1>1. ASSUME NEW t \in Threads, HolderStep(t), NEW s \in Sessions, Open(s)' PROVE Staying(s)'
  <2>1. /\ UNCHANGED <<cur, op, sock, conn, recvLen>>
        /\ \A u \in Threads : u # t => pc'[u] = pc[u]
        /\ s # cur[t] => recvIO'[s] = recvIO[s]
    BY <1>0, <1>1, HolderFrame
  <2>2. Open(s) /\ Staying(s)
    BY <1>1, <1>a, <2>1
  <2>3. CASE s # cur[t]
    <3>1. \A u \in Threads : cur[u] = s /\ Receiving(u) => cur'[u] = s /\ Receiving(u)'
      BY <2>1, <2>3 DEF Receiving
    <3> QED
      BY <2>1, <2>2, <2>3, <3>1, StayKept
  <2>4. CASE s = cur[t] /\ SendPost(t)
    <3>1. /\ pc[t] \in SendPcs /\ pc'[t] \in SendPcs \cup {AfterSend(t), "breakSock"}
          /\ UNCHANGED <<recvIO, recvLen, batch>>
      BY <1>0, <2>4, SendPostFrame
    <3>2. pc'[t] # "breakSock" /\ op[t] \in {"accept", "recv", "send"}
      BY <1>0, <3>1 DEF Running, BreakPcs, Control, CurOK, SlotPcs, RefPcs, Shape
    <3>3. Receiving(t) => Receiving(t)'
      BY <2>1, <3>1, <3>2 DEF Receiving, RecvPcs, SendPcs, AfterSend
    <3>4. \A u \in Threads : cur[u] = s /\ Receiving(u) => cur'[u] = s /\ Receiving(u)'
      BY <2>1, <3>3 DEF Receiving
    <3> QED
      BY <2>1, <2>2, <3>1, <3>4, StayKept
  <2>5. CASE s = cur[t] /\ (SendDone(t) \/ FlagClear(t))
    <3>1. pc[t] \in {"sendDone", "flagClear"} /\ UNCHANGED recvIO
      BY <2>5 DEF SendDone, SendDoneLeaving, FlagClear, ioVars
    <3>2. \A u \in Threads : cur[u] = s /\ Receiving(u) => cur'[u] = s /\ Receiving(u)'
      BY <2>1, <3>1 DEF Receiving, RecvPcs, SendPcs
    <3> QED
      BY <2>1, <2>2, <3>1, <3>2, StayKept
  <2>6. CASE s = cur[t] /\ (ProcessMessage(t) \/ ProcessEnd(t) \/ RecvPost(t)
                            \/ (t = Acceptor /\ OnAccept))
    <3>1. pc'[t] \in {"recvPost", "wsaRecv"} \/ (pc'[t] = "size1" /\ op[t] # "send")
      <4>1. CASE ProcessMessage(t)
        BY <1>0, <4>1 DEF ProcessMessage, SendPacket, Goto, Shape, Running, BreakPcs, Control, CurOK
      <4>2. CASE t = Acceptor /\ OnAccept
        BY <1>0, <4>2 DEF OnAccept, SendPacket, Goto, Shape, Running, BreakPcs, Control, CurOK,
           SlotPcs, RefPcs
      <4>3. CASE ProcessEnd(t)
        BY <1>0, <4>3 DEF ProcessEnd, Goto, Shape, Control, CurOK
      <4>4. CASE RecvPost(t)
        <5>1. pc'[t] = "wsaRecv" /\ pc[t] = "recvPost"
          BY <1>0, <4>4 DEF RecvPost, Goto, Shape, Running, BreakPcs
        <5> QED
          BY <5>1
      <4> QED
        BY <2>6, <4>1, <4>2, <4>3, <4>4
    <3>2. Receiving(t)'
      BY <2>1, <3>1 DEF Receiving, RecvPcs, SendPcs
    <3> QED
      BY <2>1, <2>6, <3>2 DEF Staying
  <2>7. CASE s = cur[t] /\ (WSARecvPosted(t) \/ WSARecvFails(t))
    <3>1. recvIO'[s] = "pending"
      BY <1>0, <2>2, <2>7 DEF WSARecvPosted, WSARecvFails, WSARecvFailsGiving, Shape
    <3> QED
      BY <3>1 DEF Staying
  <2> QED
    BY <1>1, <2>3, <2>4, <2>5, <2>6, <2>7 DEF HolderStep, HandleStep, RecvStep
<1>2. ASSUME NEW t \in Threads, IODecrement(t) \/ Release(t), NEW s \in Sessions, Open(s)'
      PROVE  Staying(s)'
  <2>1. UNCHANGED <<recvIO, recvLen, arrived>>
    BY <1>2 DEF IODecrement, Release, ReleaseDrain, ReleaseClose, ReleaseUnsock, ReleaseFree,
       FreeSlot, ioVars, netVars
  <2>2. pc[t] \in {"ioDec"} \cup ReleasePcs
        /\ \A u \in Threads : u # t => pc'[u] = pc[u] /\ cur'[u] = cur[u] /\ op'[u] = op[u]
    BY <1>0, <1>2 DEF IODecrement, Release, ReleaseDrain, ReleaseClose, ReleaseUnsock,
       ReleaseFree, FreeSlot, Goto, GoHome, ReleasePcs, Shape
  <2>3. Open(s)
    <3>1. sock'[s] = sock[s] \/ sock'[s] = None
      BY <1>0, <1>2 DEF IODecrement, Release, ReleaseDrain, ReleaseClose, ReleaseUnsock,
         ReleaseFree, FreeSlot, Shape, slotVars
    <3>2. sock'[s] = sock[s] /\ sock[s] \in Conns
      BY <1>0, <1>2, <3>1 DEF Shape
    <3>3. conn'[sock[s]] = conn[sock[s]] \/ conn'[sock[s]] = "closed"
      BY <1>0, <1>2, <3>2 DEF IODecrement, Release, ReleaseDrain, ReleaseClose, ReleaseUnsock,
         ReleaseFree, FreeSlot, Shape, netVars
    <3> QED
      BY <1>2, <3>2, <3>3
  <2>4. \A u \in Threads : cur[u] = s /\ Receiving(u) => cur'[u] = s /\ Receiving(u)'
    BY <2>2 DEF Receiving, RecvPcs, SendPcs, ReleasePcs
  <2> QED
    BY <1>a, <2>1, <2>3, <2>4, StayKept
<1>3. ASSUME NEW t \in Threads, NEW q \in Sessions, DequeueRecv(t, q) \/ DequeueSend(t, q),
             NEW s \in Sessions, Open(s)'
      PROVE  Staying(s)'
  <2>1. /\ sock[q] # None /\ pc[t] = "gqcs" /\ cur'[t] = q
        /\ UNCHANGED <<scan, slotVars, ioCount, sendVars, netVars>>
        /\ \A u \in Threads : u # t => pc'[u] = pc[u] /\ cur'[u] = cur[u] /\ op'[u] = op[u]
    BY <1>0, <1>3, DequeueHeld
  <2>2. Open(s)
    BY <1>3, <2>1 DEF slotVars, netVars
  <2>3. \A u \in Threads : cur[u] = s /\ Receiving(u) => cur'[u] = s /\ Receiving(u)'
    BY <2>1 DEF Receiving, RecvPcs, SendPcs
  <2>4. CASE s # q \/ DequeueSend(t, q)
    <3>1. recvIO'[s] = recvIO[s] /\ recvLen'[s] = recvLen[s]
      BY <1>0, <1>3, <2>4, SMTT(30) DEF DequeueRecv, DequeueSend, Shape, DataTypes
    <3> QED
      BY <1>a, <2>2, <2>3, <3>1, StayKept
  <2>5. CASE s = q /\ DequeueRecv(t, q)
    <3>1. recvIO[q] = "done"
      BY <2>5 DEF DequeueRecv
    <3>2. \A u \in Threads : cur[u] = q => ~Receiving(u)
      BY <3>1 DEF Control, RecvOK
    <3>3. recvLen[q] # 0
      <4>1. Staying(q) /\ recvLen[q] \in 0 .. MaxMsg
        BY <1>0, <1>a, <2>2, <2>5 DEF DataTypes
      <4> QED
        BY <3>1, <3>2, <4>1 DEF Staying
    <3>4. pc'[t] = "loop"
      BY <1>0, <2>1, <2>5, <3>3 DEF DequeueRecv, Goto, Shape
    <3>5. Receiving(t)'
      BY <3>4 DEF Receiving, RecvPcs
    <3> QED
      BY <2>1, <2>5, <3>5 DEF Staying
  <2> QED
    BY <1>3, <2>4, <2>5
<1>4. ASSUME (\E c \in Conns : Accept(c)) \/ AcceptScan, NEW s \in Sessions, Open(s)'
      PROVE  Staying(s)'
  <2>1. /\ UNCHANGED <<sock, recvIO, recvLen>>
        /\ pc[Acceptor] \in {"accept", "scan"}
        /\ \A u \in Threads : u # Acceptor => pc'[u] = pc[u] /\ cur'[u] = cur[u] /\ op'[u] = op[u]
        /\ \A c \in Conns : conn'[c] = conn[c] \/ conn[c] = "new"
    BY <1>0, <1>4 DEF Accept, AcceptScan, Goto, Shape, slotVars, sendVars, ioVars, netVars
  <2>2. Open(s)
    BY <1>4, <2>1 DEF Control, OwnOK
  <2>3. \A u \in Threads : cur[u] = s /\ Receiving(u) => cur'[u] = s /\ Receiving(u)'
    BY <2>1 DEF Receiving, RecvPcs, SendPcs
  <2> QED
    BY <1>a, <2>1, <2>2, <2>3, StayKept
<1>5. ASSUME InitSession, NEW s \in Sessions, Open(s)' PROVE Staying(s)'
  <2>1. /\ UNCHANGED <<op, recvIO, recvLen, conn>> /\ Acceptor \in Threads
        /\ pc[Acceptor] = "init" /\ pc'[Acceptor] = "onAccept" /\ cur'[Acceptor] = scan
        /\ s # scan => sock'[s] = sock[s]
        /\ \A u \in Threads : u # Acceptor => pc'[u] = pc[u] /\ cur'[u] = cur[u]
    BY <1>0, <1>5 DEF InitSession, Goto, Shape, ioVars, netVars
  <2>2. CASE s = scan
    <3>1. Receiving(Acceptor)'
      BY <2>1 DEF Receiving, RecvPcs
    <3> QED
      BY <2>1, <2>2, <3>1 DEF Staying
  <2>3. CASE s # scan
    <3>1. \A u \in Threads : cur[u] = s /\ Receiving(u) => cur'[u] = s /\ Receiving(u)'
      BY <2>1 DEF Receiving, RecvPcs, SendPcs
    <3> QED
      BY <1>5, <1>a, <2>1, <2>3, <3>1, StayKept
  <2> QED
    BY <2>2, <2>3
<1>6. ASSUME OutsideStep, NEW s \in Sessions, Open(s)' PROVE Staying(s)'
  <2>1. UNCHANGED <<pc, cur, op, sock>>
    BY <1>0, <1>6, OutsideFrame
  <2>2. Open(s)
    <3>1. \A c \in Conns : conn'[c] = "open" => conn[c] = "open"
      BY <1>0, <1>6, ZenonT(60)
         DEF OutsideStep, ClientLeaves, KernelCompletes, RecvEnds, SendCompletes,
         SendAborts, RecvArrives, Shape, netVars
    <3> QED
      BY <1>6, <2>1, <3>1
  <2>3. \A u \in Threads : cur[u] = s /\ Receiving(u) => cur'[u] = s /\ Receiving(u)'
    BY <2>1 DEF Receiving
  <2>4. \/ recvIO'[s] = recvIO[s] /\ recvLen'[s] = recvLen[s]
        \/ recvIO'[s] = "done" /\ recvLen'[s] > 0
    <3>1. CASE \E c \in Conns : ClientLeaves(c)
      BY <3>1 DEF ClientLeaves, ioVars
    <3>2. ASSUME NEW q \in Sessions, SendCompletes(q) \/ SendAborts(q)
          PROVE  UNCHANGED <<recvIO, recvLen>>
      BY <3>2 DEF SendCompletes, SendAborts
    <3>3. ASSUME NEW q \in Sessions, RecvEnds(q)
          PROVE  recvIO'[s] = recvIO[s] /\ recvLen'[s] = recvLen[s]
      <4>1. q # s
        BY <2>2, <3>3 DEF RecvEnds
      <4> QED
        BY <1>0, <3>3, <4>1 DEF RecvEnds, Shape
    <3>4. ASSUME NEW q \in Sessions, NEW k \in 1 .. MaxMsg, RecvArrives(q, k)
          PROVE  \/ recvIO'[s] = recvIO[s] /\ recvLen'[s] = recvLen[s]
                 \/ recvIO'[s] = "done" /\ recvLen'[s] > 0
      BY <1>0, <3>4 DEF RecvArrives, Shape, DataTypes
    <3> QED
      BY <1>6, <3>1, <3>2, <3>3, <3>4 DEF OutsideStep, KernelCompletes
  <2> QED
    BY <1>a, <2>2, <2>3, <2>4, StayKept DEF Staying
<1> HIDE DEF Open
<1> QED
  BY <1>1, <1>2, <1>3, <1>4, <1>5, <1>6, <1>b, NextSplit

(***************************************************************************)
(* The theorems                                                            *)
(***************************************************************************)
\* the inductive invariant, where the ring is large enough
Serving == Running /\ Types /\ Control /\ DataOK /\ StayOK

LEMMA InitServing == Init => Serving
<1> SUFFICES ASSUME Init PROVE Serving
  OBVIOUS
<1>1. Types /\ Control /\ Running
  BY InitControl
<1>2. \A s \in Sessions : Idle(s) /\ sock[s] = None
  BY DEF Init, Idle, At, RefPcs, SendPcs
<1>3. WindowOK
  <2>1. \A c \in Conns : arrived[c] = 0 /\ Answered(c) = 0
    BY DEF Init, Answered
  <2>2. 0 <= 0 + Window
    BY ConstantsAssumption
  <2> QED
    BY <2>1, <2>2 DEF WindowOK
<1>4. StayOK
  BY <1>2, ConstantsAssumption DEF StayOK
<1> QED
  BY <1>1, <1>2, <1>3, <1>4 DEF Serving, DataOK

\* the server does not run into a DebugBreak
LEMMA NoBreakStep ==
  ASSUME Serving, Next
  PROVE  Running'
<1> SUFFICES ASSUME ~Running' PROVE FALSE
  OBVIOUS
<1>0. Shape
  BY TypeShape DEF Serving
<1>1. PICK t \in Threads :
        /\ SendDone(t) \/ ProcessMessage(t) \/ (t = Acceptor /\ OnAccept)
        /\ pc'[t] \in {"breakFull", "breakCount", "breakEmpty"}
  BY BreakStep DEF Serving
<1>2. pc[t] \in RefPcs
  BY <1>1 DEF SendDone, SendDoneLeaving, ProcessMessage, OnAccept, RefPcs
<1>3. cur[t] \in Sessions /\ ~Idle(cur[t])
  BY <1>0, <1>2, Held DEF Serving
<1>4. PICK s \in Sessions : s = cur[t]
  BY <1>3
<1>5. SlotData(s)
  BY <1>3, <1>4 DEF Serving, DataOK
<1>6. pc'[t] \in {"flagClear", "size1"}
  BY <1>1, <1>4, <1>5, DoneSlot, QueueSlot DEF Serving
<1> QED
  BY <1>1, <1>6

LEMMA ServingStep ==
  ASSUME Serving, Capacity, Next
  PROVE  Serving'
<1>1. Running'
  BY NoBreakStep
<1>2. Types'
  BY TypesStep DEF Serving
<1>3. Control'
  BY <1>1, ControlStep DEF Serving
<1>4. DataOK'
  BY <1>1, DataStep DEF Serving
<1>5. StayOK'
  BY <1>1, StayStep DEF Serving
<1> QED
  BY <1>1, <1>2, <1>3, <1>4, <1>5 DEF Serving

LEMMA ServingStutter ==
  ASSUME Serving, UNCHANGED vars
  PROVE  Serving'
<1>1. UNCHANGED <<pc, cur, op, batch, scan, sock, invalidFlag, ioCount, sendFlag, sendCount,
                  sendBuf, recvIO, recvLen, sendIO, lent, conn, arrived, echoed>>
  BY DEF vars, threadVars, slotVars, sendVars, ioVars, netVars
<1>2. IInv'
  <2>1. IInv
    BY DEF Serving, IInv, Control
  <2> QED
    BY <2>1, IInvStep
<1>3. Running'
  BY <1>1 DEF Serving, Running
<1>4. Types' /\ Control'
  BY <1>2, <1>3 DEF IInv
<1>5. \A t : (Receiving(t)' <=> Receiving(t)) /\ Behind(t)' = Behind(t)
  BY <1>1 DEF Receiving, Behind
<1>6. StayOK'
  BY <1>1, <1>5 DEF Serving, StayOK, Staying
<1>7. \A s, l : (Here(s, l)' <=> Here(s, l)) /\ (Idle(s)' <=> Idle(s))
  BY <1>1 DEF Here, Idle, At
<1>8. WindowOK'
  BY <1>1 DEF Serving, DataOK, WindowOK, Answered
<1>9. ASSUME NEW s \in Sessions, SlotData(s) PROVE SlotData(s)'
  <2>1. \A u \in Threads :
          /\ Acting(u, s)' <=> Acting(u, s)
          /\ Acting(u, s) => pc'[u] = pc[u] /\ op'[u] = op[u] /\ batch'[u] = batch[u]
    BY <1>1 DEF Acting
  <2>2. Acceptor \in Threads
    BY DEF Threads
  <2> QED
    BY <1>1, <1>9, <2>1, <2>2, Untouched
<1> QED
  BY <1>3, <1>4, <1>6, <1>7, <1>8, <1>9 DEF Serving, DataOK

LEMMA ServingInvariance ==
  ASSUME Capacity
  PROVE  Spec => []Serving
<1>1. Serving /\ [Next]_vars => Serving'
  BY ServingStep, ServingStutter
<1> QED
  BY <1>1, InitServing, PTL DEF Spec

\* The Enqueue and Dequeue of the send ring never fail (CRingPtrBuffer in
\* SendPacket and in the send completion), _sock is valid where it is checked,
\* and the accept thread finds a slot: for every number of workers, sessions,
\* clients and messages, no DebugBreak is reached where the ring has room for
\* two windows.
THEOREM NoBreak ==
  ASSUME Capacity
  PROVE  Spec => []NoDebugBreak
BY ServingInvariance, PTL DEF Serving, NoDebugBreak

LEMMA LifeOfSlots == Types /\ Control => SlotLife
<1> SUFFICES ASSUME Types, Control PROVE SlotLife
  OBVIOUS
<1>0. Shape /\ TypeOK
  BY TypeShape DEF Types
<1>1. \A s \in Sessions : (Idle(s) <=> References(s) = 0) /\ References(s) \in Nat
  BY <1>0, IdleCount DEF Control, IOCountExact, TypeOK
<1>2. ASSUME NEW s \in Sessions
      PROVE  IF invalidFlag[s] = -1
               THEN References(s) = 0 /\ sock[s] = None
               ELSE \/ References(s) > 0 \/ At(s, ReleasePcs) # {}
                    \/ pc[Acceptor] = "init" /\ scan = s
  <2>1. invalidFlag[s] \in {-1, 1} /\ References(s) \in Nat /\ (Idle(s) <=> References(s) = 0)
    BY <1>0, <1>1 DEF Shape
  <2>2. CASE invalidFlag[s] = -1
    BY <2>1, <2>2 DEF Control, LifeOK
  <2>3. CASE invalidFlag[s] # -1
    <3>1. ~Idle(s) \/ At(s, ReleasePcs) # {} \/ (pc[Acceptor] = "init" /\ scan = s)
      BY <2>1, <2>3 DEF Control, LifeOK
    <3> QED
      BY <2>1, <2>3, <3>1
  <2> QED
    BY <2>2, <2>3
<1>3. ASSUME NEW t \in Threads, pc[t] \in ReleasePcs
      PROVE  References(cur[t]) = 0 /\ At(cur[t], ReleasePcs) = {t}
  <2>1. cur[t] \in Sessions /\ Idle(cur[t])
    BY <1>3 DEF Control, LifeOK, CurOK, SlotPcs
  <2>2. \A u \in Threads : cur[u] = cur[t] /\ pc[u] \in ReleasePcs => u = t
    BY <1>3 DEF Control, LifeOK
  <2>3. At(cur[t], ReleasePcs) = {t}
    BY <1>3, <2>2 DEF At
  <2> QED
    BY <1>1, <2>1, <2>3
<1> QED
  BY <1>0, <1>2, <1>3 DEF SlotLife

\* A slot that is free is referred to by nobody, one that is not free is not
\* lost, and it is released by one thread, once nobody refers to it (_IOCount,
\* _invalidFlag and Release in NetLib.cpp); for every number of threads,
\* sessions, clients and messages.
THEOREM SlotsAreSafe ==
  ASSUME Capacity
  PROVE  Spec => []SlotLife
BY ServingInvariance, LifeOfSlots, PTL DEF Serving

\* ... and whatever the size of the ring, as long as the server runs.
THEOREM SlotsWhileRunning == Spec => [](Running => SlotLife)
BY Invariance, LifeOfSlots, PTL DEF IInv

(***************************************************************************)
(* The promise to the clients                                              *)
(***************************************************************************)
St == [c \in Conns |-> CASE conn[c] = "new"    -> "new"
                         [] conn[c] = "closed" -> "gone"
                         [] OTHER              -> "served"]
Ending == [c \in Conns |-> conn[c] \in {"fin", "reset", "closed"}]
ServiceVars == <<St, Ending, arrived, echoed>>

\* what EchoService sees of a connection
LEMMA ServiceOf ==
  /\ Service!Served = {c \in Conns : St[c] = "served"}
  /\ \A c \in Conns : conn[c] \notin {"new", "closed"} => St[c] = "served"
  /\ \A c \in Conns : conn[c] = "new" => St[c] = "new"
  /\ \A c \in Conns : conn[c] = "closed" => St[c] = "gone"
BY DEF Service!Served, St

\* a client is served: a slot is free, so fewer than SessionMax are
LEMMA ServeAccept ==
  ASSUME Serving, NEW c \in Conns, Accept(c)
  PROVE  Service!Accept(c)
<1>0. Shape /\ DataTypes
  BY TypeShape DEF Serving
<1>1. /\ conn' = [conn EXCEPT ![c] = "open"] /\ conn[c] = "new"
      /\ UNCHANGED <<arrived, echoed>> /\ pc[Acceptor] = "accept"
      /\ \E r \in Sessions : invalidFlag[r] = -1
  BY DEF Accept
<1>2. PICK r \in Sessions : invalidFlag[r] = -1
  BY <1>1
<1> DEFINE S == Service!Served
           T == Sessions \ {r}
<1>3. \A d \in S : d \in Conns /\ \E s \in T : sock[s] = d
  <2> SUFFICES ASSUME NEW d \in S PROVE d \in Conns /\ \E s \in T : sock[s] = d
    OBVIOUS
  <2>1. d \in Conns /\ conn[d] \notin {"new", "closed"}
    BY ServiceOf
  <2>2. PICK s \in Sessions : sock[s] = d
    BY <1>1, <2>1 DEF Serving, Control, OwnOK
  <2>3. sock[r] = None /\ None \notin Conns
    BY <1>0, <1>2 DEF Serving, Control, LifeOK, Shape
  <2> QED
    BY <2>1, <2>2, <2>3
<1>4. IsFiniteSet(T) /\ Cardinality(T) = SessionMax - 1
  <2>1. SessionMax \in Nat \ {0}
    BY ConstantsAssumption
  <2>2. IsFiniteSet(Sessions) /\ Cardinality(Sessions) = SessionMax
    BY <2>1, FS_Interval DEF Sessions
  <2> QED
    BY <1>2, <2>2, FS_RemoveElement
<1>5. IsFiniteSet(S) /\ Cardinality(S) <= Cardinality(T) /\ Cardinality(S) \in Nat
  <2> DEFINE f == [d \in S |-> CHOOSE s \in T : sock[s] = d]
  <2>1. \A d \in S : f[d] \in T /\ sock[f[d]] = d
    BY <1>3
  <2> HIDE DEF f
  <2>2. f \in [S -> T]
    <3>1. f = [d \in S |-> f[d]]
      BY DEF f
    <3> QED
      BY <2>1, <3>1
  <2>3. \A d, e \in S : f[d] = f[e] => d = e
    BY <2>1
  <2> HIDE DEF S, T
  <2>4. f \in Injection(S, T)
    BY <2>2, <2>3 DEF Injection, IsInjective
  <2> QED
    BY <1>4, <2>4, FS_Injection, FS_CardinalityType
<1>6. Service!Cardinality(S) < SessionMax
  <2>1. Service!Cardinality(S) = Cardinality(S)
    BY Zenon DEF Service!Cardinality, Cardinality
  <2> HIDE DEF S, T
  <2> QED
    BY <1>4, <1>5, <2>1, ConstantsAssumption
<1>7. St' = [St EXCEPT ![c] = "served"] /\ St[c] = "new"
  BY <1>0, <1>1 DEF St, Shape
<1>8. Ending' = Ending
  BY <1>0, <1>1 DEF Ending, Shape
<1> QED
  BY <1>1, <1>6, <1>7, <1>8, Zenon DEF Service!Accept, St, Ending

\* a session ends, and its client has left
LEMMA ServeEnd ==
  ASSUME Serving, NEW t \in Threads, ReleaseClose(t), NEW c \in Conns, sock[cur[t]] = c
  PROVE  Service!End(c)
<1> DEFINE s == cur[t]
<1>0. Shape /\ DataTypes
  BY TypeShape DEF Serving
<1>1. /\ pc[t] = "close" /\ UNCHANGED <<arrived, echoed>>
      /\ conn' = [conn EXCEPT ![c] = "closed"]
  BY DEF ReleaseClose
<1>2. s \in Sessions /\ Idle(s)
      /\ \A u \in Threads : cur[u] = s /\ pc[u] \in ReleasePcs => u = t
  BY <1>1 DEF Serving, Control, LifeOK, CurOK, SlotPcs, ReleasePcs
<1>3. conn[c] # "new" /\ conn[c] # "closed"
  <2>1. At(s, {"unsock"}) = {}
    BY <1>1, <1>2 DEF At, ReleasePcs
  <2> QED
    BY <1>2, <2>1 DEF Serving, Control, OwnOK
<1>4. ~Staying(s)
  BY <1>2 DEF Staying, Idle, At, Receiving, RecvPcs, RefPcs
<1>5. conn[c] \in {"fin", "reset"}
  <2>1. conn[c] # "open"
    BY <1>2, <1>4 DEF Serving, StayOK
  <2> QED
    BY <1>0, <1>2, <1>3, <2>1 DEF Shape
<1>6. c \in Service!Served
  BY <1>2, <1>3, ServiceOf
<1>7. St' = [St EXCEPT ![c] = "gone"]
  BY <1>0, <1>1, <1>2 DEF St, Shape
<1>8. Ending' = Ending
  BY <1>0, <1>1, <1>2, <1>5 DEF Ending, Shape
<1>9. Ending[c]
  BY <1>2, <1>5 DEF Ending
<1> QED
  BY <1>1, <1>6, <1>7, <1>8, <1>9, Zenon DEF Service!End, St, Ending

\* what was sent reaches the client: the next packets, none before its message
LEMMA ServeEcho ==
  ASSUME Serving, NEW s \in Sessions, SendCompletes(s)
  PROVE  \E c \in Conns : Service!Echo(c, Len(echoed'[c]) - Len(echoed[c]))
<1> DEFINE c == sock[s]
           e == echoed[c]
           k == Len(lent[s])
           b == Len(sendBuf[s])
           run == [i \in 1 .. k |-> (0 + Len(e)) + i - 1]
<1>0. Shape /\ DataTypes
  BY TypeShape DEF Serving
<1>1. /\ sendIO[s] = "pending" /\ conn[c] \in {"open", "fin"} /\ UNCHANGED <<conn, arrived>>
      /\ echoed' = [echoed EXCEPT ![c] = e \o Out(s)]
  BY DEF SendCompletes, Out
<1>2. ~Idle(s) /\ SlotData(s)
  BY <1>1 DEF Idle, Serving, DataOK
<1>3. PICK n \in Nat : Counts(s, n) /\ Run(s, n)
  BY <1>2 DEF SlotData, Numbers
<1>4. /\ c \in Conns /\ arrived[c] \in Nat /\ n <= arrived[c] + 1
      /\ e \in Seq(Int) /\ Len(e) \in Nat /\ b \in Nat
  BY <1>2, <1>3, SlotFacts DEF Serving
<1>5. /\ Out(s) \in Seq(Int) /\ Len(Out(s)) = k /\ k \in Nat /\ lent[s] # <<>> /\ k <= b
      /\ \A i \in 1 .. k : Out(s)[i] = sendBuf[s][i]
  BY <1>0, <1>1, <1>2, OutIsLent DEF SlotData, SendSide
<1>6. k # 0
  BY <1>0, <1>5, EmptySeq DEF DataTypes
<1>7. Len(e) + b = n + 0
  <2>1. \A u \in Threads : cur[u] = s => pc[u] \notin FlagPcs
    BY <1>1 DEF Serving, Control, SendExclusive
  <2>2. ~Delivered(s)
    BY <1>1, <2>1 DEF Delivered, Here, At, FlagPcs
  <2> QED
    BY <1>1, <1>3, <2>2 DEF Run, Unbroken, Sent
<1>8. \A i \in 1 .. k : Out(s)[i] = (0 + Len(e)) + i - 1
  <2> SUFFICES ASSUME NEW i \in 1 .. k PROVE Out(s)[i] = (0 + Len(e)) + i - 1
    OBVIOUS
  <2>1. i \in 1 .. b
    <3> HIDE DEF k, b
    <3> QED
      BY <1>4, <1>5
  <2>2. Out(s)[i] = n - b + i - 1
    BY <1>3, <1>5, <2>1 DEF Run
  <2>3. n - b + i - 1 = (0 + Len(e)) + i - 1
    <3> HIDE DEF b, e
    <3> QED
      BY <1>4, <1>7
  <2> QED
    BY <2>2, <2>3
<1>9. Out(s) = run
  <2>1. Out(s) = [i \in 1 .. Len(Out(s)) |-> Out(s)[i]]
    <3>1. \A q \in Seq(Int) : q = [i \in 1 .. Len(q) |-> q[i]]
      OBVIOUS
    <3> QED
      BY <1>5, <3>1
  <2> HIDE DEF e, k
  <2> QED
    BY <1>5, <1>8, <2>1
<1>10. Len(echoed'[c]) - Len(echoed[c]) = k
  <2>1. echoed'[c] = e \o Out(s)
    BY <1>0, <1>1, <1>4 DEF DataTypes
  <2>2. \A q, r \in Seq(Int) : Len(q \o r) = Len(q) + Len(r)
    OBVIOUS
  <2>3. Len(echoed'[c]) = Len(e) + k /\ echoed[c] = e
    BY <1>4, <1>5, <2>1, <2>2
  <2>4. \A x, y \in Nat : x + y - x = y
    OBVIOUS
  <2> QED
    BY <1>4, <1>5, <2>3, <2>4
<1>11. (0 + Len(e)) + k - 1 <= arrived[c]
  <2>1. \A x, y, z, a \in Nat : x + y = n + 0 /\ z <= y /\ n <= a + 1 => (0 + x) + z - 1 <= a
    OBVIOUS
  <2> QED
    BY <1>4, <1>5, <1>7, <2>1
<1>12. c \in Service!Served
  BY <1>1, <1>4, ServiceOf
<1>13. echoed' = [echoed EXCEPT ![c] = e \o run]
  BY <1>1, <1>9
<1>14. St' = St /\ Ending' = Ending
  BY <1>1 DEF St, Ending
<1>15. Service!Echo(c, k)
  <2>1. k \in Nat \ {0}
    BY <1>5, <1>6
  <2> QED
    BY <1>1, <1>11, <1>12, <1>13, <1>14, <2>1 DEF Service!Echo, St, Ending
<1> QED
  BY <1>4, <1>10, <1>15

\* what the clients and the kernel do
LEMMA ServeOutside ==
  ASSUME Serving, OutsideStep
  PROVE  Service!Next \/ UNCHANGED ServiceVars
<1>0. Shape /\ DataTypes
  BY TypeShape DEF Serving
<1>1. ASSUME NEW c \in Conns, ClientLeaves(c) PROVE Service!AskEnd(c)
  <2>1. /\ conn[c] \in {"open", "fin"} /\ UNCHANGED <<arrived, echoed>>
        /\ \E v \in {"fin", "reset"} : conn' = [conn EXCEPT ![c] = v]
    BY <1>1 DEF ClientLeaves
  <2>2. c \in Service!Served
    BY <2>1, ServiceOf
  <2>3. St' = St
    BY <1>0, <2>1 DEF St, Shape
  <2>4. Ending' = [Ending EXCEPT ![c] = TRUE]
    BY <1>0, <2>1 DEF Ending, Shape
  <2> QED
    BY <2>1, <2>2, <2>3, <2>4, Zenon DEF Service!AskEnd, St, Ending
<1>2. ASSUME NEW s \in Sessions, NEW k \in 1 .. MaxMsg, RecvArrives(s, k)
      PROVE  \E c \in Conns : Service!Arrive(c, arrived'[c] - arrived[c])
  <2> DEFINE c == sock[s]
  <2>1. c \in Conns /\ conn[c] = "open" /\ UNCHANGED <<conn, echoed>>
    BY <1>2 DEF RecvArrives, Serving, Control, LifeOK, Idle
  <2>2. arrived' = [arrived EXCEPT ![c] = arrived[c] + k] /\ arrived[c] \in Nat
    BY <1>0, <1>2, <2>1, ConstantsAssumption DEF RecvArrives, DataTypes
  <2>3. k \in Nat \ {0}
    BY ConstantsAssumption
  <2>4. arrived'[c] - arrived[c] = k
    BY <1>0, <2>1, <2>2, <2>3 DEF DataTypes
  <2>5. c \in Service!Served
    BY <2>1, ServiceOf
  <2>6. St' = St /\ Ending' = Ending
    BY <2>1 DEF St, Ending
  <2>7. Service!Arrive(c, k)
    BY <2>1, <2>2, <2>3, <2>5, <2>6 DEF Service!Arrive, St, Ending
  <2> QED
    BY <2>1, <2>4, <2>7
<1>3. ASSUME NEW s \in Sessions, RecvEnds(s) \/ SendAborts(s)
      PROVE  UNCHANGED ServiceVars
  BY <1>3 DEF RecvEnds, SendAborts, ServiceVars, St, Ending, netVars
<1> QED
  BY <1>1, <1>2, <1>3, ServeEcho DEF OutsideStep, KernelCompletes, Service!Next

\* everything else is between the threads
LEMMA ServeInside ==
  ASSUME Serving, Next, ~OutsideStep, \A c \in Conns : ~Accept(c),
         \A t \in Threads : ~ReleaseClose(t)
  PROVE  UNCHANGED ServiceVars
<1>0. Shape /\ DataTypes /\ Running'
  BY TypeShape, NoBreakStep DEF Serving
<1> SUFFICES UNCHANGED <<conn, arrived, echoed>>
  BY DEF ServiceVars, St, Ending
<1>1. ASSUME NEW t \in Threads, HolderStep(t) PROVE UNCHANGED <<conn, arrived, echoed>>
  BY <1>0, <1>1, HolderFrame
<1>2. ASSUME NEW t \in Threads, IODecrement(t) \/ Release(t)
      PROVE  UNCHANGED <<conn, arrived, echoed>>
  BY <1>2 DEF IODecrement, Release, ReleaseDrain, ReleaseUnsock, ReleaseFree, FreeSlot, netVars
<1>3. ASSUME NEW t \in Threads, NEW s \in Sessions, DequeueRecv(t, s) \/ DequeueSend(t, s)
      PROVE  UNCHANGED <<conn, arrived, echoed>>
  BY <1>3 DEF DequeueRecv, DequeueSend, netVars
<1>4. CASE AcceptScan \/ InitSession
  BY <1>4 DEF AcceptScan, InitSession, netVars
<1> QED
  BY <1>1, <1>2, <1>3, <1>4, NextSplit

\* The second server serves its clients as EchoService promises, for every
\* number of them, of slots and of workers: at most SessionMax at a time, each
\* message echoed once, in order and to who sent it, and no session ended
\* before its client left.  (Where the ring has room for two windows: one that
\* overflows ends the process in a DebugBreak.)
THEOREM Serves ==
  ASSUME Capacity
  PROVE  Spec => ServesEchoes
<1>1. Init => Service!Init
  <2> SUFFICES ASSUME Init PROVE Service!Init
    OBVIOUS
  <2>1. \A c \in Conns : conn[c] = "new"
    BY DEF Init
  <2>2. St = [c \in Conns |-> "new"]
    BY <2>1, Zenon DEF St
  <2>3. Ending = [c \in Conns |-> FALSE]
    <3>1. \A c \in Conns : (conn[c] \in {"fin", "reset", "closed"}) = FALSE
      BY <2>1
    <3> QED
      BY <3>1, Zenon DEF Ending
  <2> QED
    BY <2>2, <2>3 DEF Init, Service!Init, St, Ending
<1>2. ASSUME Serving, Next PROVE Service!Next \/ UNCHANGED ServiceVars
  <2>1. CASE OutsideStep
    BY <1>2, <2>1, ServeOutside
  <2>2. ASSUME NEW c \in Conns, Accept(c) PROVE Service!Next
    BY <1>2, <2>2, ServeAccept DEF Service!Next
  <2>3. ASSUME NEW t \in Threads, ReleaseClose(t) PROVE Service!Next
    <3>1. pc[t] = "close"
      BY <2>3 DEF ReleaseClose
    <3>2. PICK c \in Conns : sock[cur[t]] = c
      BY <1>2, <3>1 DEF Serving, Control, LifeOK, ReleasePcs
    <3>3. Service!End(c)
      BY <1>2, <2>3, <3>2, ServeEnd
    <3> QED
      BY <3>3 DEF Service!Next
  <2> QED
    BY <1>2, <2>1, <2>2, <2>3, ServeInside
<1>3. Serving /\ [Next]_vars => [Service!Next]_(Service!vars)
  <2>1. UNCHANGED vars => UNCHANGED ServiceVars
    BY DEF vars, netVars, ServiceVars, St, Ending
  <2>2. UNCHANGED ServiceVars => UNCHANGED Service!vars
    BY Zenon DEF ServiceVars, Service!vars, St, Ending
  <2> QED
    BY <1>2, <2>1, <2>2
<1> QED
  BY <1>1, <1>3, ServingInvariance, PTL DEF Spec, ServesEchoes, Service!Spec
=============================================================================
