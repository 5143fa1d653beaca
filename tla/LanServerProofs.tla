-------------------------- MODULE LanServerProofs --------------------------
(***************************************************************************)
(* Theorems about LanServer, for every number of workers, sessions,        *)
(* connections, messages and buffers: the types, the exactness of          *)
(* _IOCount, the life of a slot, the exclusive use of the receive and of   *)
(* the send side of a session; with the invariants of the second part      *)
(* (relative to IInv), which slot belongs to which connection, and that no *)
(* queued packet is orphaned; and, with those of the third part (relative  *)
(* to Control), what becomes of the packets of a session: each is echoed   *)
(* once and in order, and released when nobody refers to it.               *)
(***************************************************************************)
EXTENDS LanServer, FiniteSetTheorems, TLAPS

(***************************************************************************)
(* The inductive invariant                                                 *)
(***************************************************************************)
\* where a thread refers to a session slot
SlotPcs == RefPcs \cup ReleasePcs \cup {"init"}

\* a thread refers to a real slot; what it does after a finished send is
\* done under "send"
CurOK ==
  \A t \in Threads :
    /\ pc[t] \in SlotPcs => cur[t] \in Sessions
    /\ pc[t] \in {"sendDone", "flagClear"} => op[t] = "send"

\* what is being sent lies in _pSendPacketArr
SendSizeOK ==
  /\ \A t \in Threads :
       pc[t] = "wsaSend" => sendCount[cur[t]] <= Len(sendArr[cur[t]])
  /\ \A s \in Sessions :
       sendIO[s] = "pending" => sendCount[s] <= Len(sendArr[s])

\* a session somebody refers to is that of a connection
ConnOK ==
  /\ \A t \in Threads : pc[t] \in SlotPcs => toBeDeleted[cur[t]] \in Conns
  /\ \A s \in Sessions :
       recvIO[s] # "none" \/ sendIO[s] # "none" => toBeDeleted[s] \in Conns

IInv ==
  /\ TypeOK /\ CurOK /\ ConnOK /\ SendSizeOK
  /\ IOCountExact /\ SlotLife /\ RecvExclusive /\ SendExclusive

\* the types of the control variables, which most steps need
IOStates == {"none", "posting", "pending", "done"}
Shape ==
  /\ pc \in [Threads -> Pcs]
  /\ cur \in [Threads -> Sessions \cup {None}]
  /\ op \in [Threads -> {"none", "accept", "recv", "send"}]
  /\ ioCount \in [Sessions -> Int]
  /\ sendFlag \in [Sessions -> {0, 1}]
  /\ recvIO \in [Sessions -> IOStates] /\ sendIO \in [Sessions -> IOStates]
  /\ None \notin Sessions /\ Acceptor \in Threads

LEMMA TypeShape == TypeOK => Shape
BY ConstantsAssumption DEF TypeOK, Shape, IOStates, Threads

(***************************************************************************)
(* Sets of threads                                                         *)
(***************************************************************************)
LEMMA ThreadSets ==
  ASSUME NEW A \in SUBSET Threads
  PROVE  IsFiniteSet(A) /\ Cardinality(A) \in Nat
<1>1. IsFiniteSet(Threads)
  BY ConstantsAssumption, FS_AddElement DEF Threads
<1> QED
  BY <1>1, FS_Subset, FS_CardinalityType

LEMMA AddThread ==
  ASSUME NEW A \in SUBSET Threads, NEW t \in Threads, t \notin A
  PROVE  Cardinality(A \cup {t}) = Cardinality(A) + 1
BY ThreadSets, FS_AddElement

LEMMA RemoveThread ==
  ASSUME NEW A \in SUBSET Threads, NEW t \in A
  PROVE  Cardinality(A \ {t}) = Cardinality(A) - 1
BY ThreadSets, FS_RemoveElement

LEMMA NoThread == Cardinality({}) = 0
BY FS_EmptySet

(***************************************************************************)
(* The steps, by what they do to the control state                         *)
(***************************************************************************)
\* thread t acts for the session it refers to
RecvStep(t) == RecvPost(t) \/ WSARecvPosted(t) \/ WSARecvFails(t) \/ RecvFail(t)
HandleStep(t) ==
  \/ t = Acceptor /\ OnAccept
  \/ SendDone(t) \/ FlagClear(t) \/ ProcessMessage(t) \/ ProcessEnd(t) \/ Unref(t)
HolderStep(t) == SendPost(t) \/ RecvStep(t) \/ HandleStep(t)

\* no thread moves
OutsideStep ==
  \/ ClientStep \/ KernelStep
  \/ CallStop \/ (\E s \in Sessions : CallDisconnect(s)) \/ MainStep

LEMMA NextSplit ==
  ASSUME Next
  PROVE  \/ \E t \in Threads : HolderStep(t)
         \/ \E t \in Threads : IODecrement(t)
         \/ \E t \in Threads : Release(t)
         \/ \E t \in Threads, s \in Sessions : DequeueRecv(t, s)
         \/ \E t \in Threads, s \in Sessions : DequeueSend(t, s)
         \/ \E t \in Threads : DequeueNull(t)
         \/ \E c \in Conns : Accept(c)
         \/ AcceptFails \/ InitSession \/ AcceptEnd
         \/ OutsideStep
         \/ UNCHANGED vars
<1>1. Workers \subseteq Threads /\ Acceptor \in Threads
  BY DEF Threads
<1> QED
  BY <1>1 DEF Next, WorkerStep, AcceptorStep, SessionStep, HolderStep, HandleStep, RecvStep,
              OutsideStep, Finished

\* t stays among the places that hold a reference, and touches no other session
LEMMA HolderFrame ==
  ASSUME Shape, NEW t \in Threads, HolderStep(t)
  PROVE  /\ pc[t] \in RefPcs /\ pc'[t] \in RefPcs
         /\ \A u \in Threads : u # t => pc'[u] = pc[u]
         /\ UNCHANGED <<cur, op, freeStack>>
         /\ \A s \in Sessions :
              s # cur[t] => /\ recvIO'[s] = recvIO[s] /\ sendIO'[s] = sendIO[s]
                            /\ ioCount'[s] = ioCount[s] /\ sendFlag'[s] = sendFlag[s]
<1> USE DEF Shape, RefPcs, SendPcs, Goto, AfterSend, sendVars, ioVars
<1>1. CASE SendSize1(t) \/ SendSize2(t) \/ SendSize3(t) \/ SendSize4(t)
  BY <1>1 DEF SendSize1, SendSize2, SendSize3, SendSize4, SizeTest
<1>2. CASE SendXchg1(t) \/ SendXchg2(t)
  BY <1>2 DEF SendXchg1, SendXchg2, FlagXchg
<1>3. CASE SendClear1(t) \/ SendClear2(t) \/ SendFailClear(t)
  BY <1>3 DEF SendClear1, SendClear2, SendFailClear, FlagReset
<1>4. CASE SendGather(t) \/ SendPrepare(t)
  BY <1>4 DEF SendGather, SendPrepare
<1>5. CASE WSASendPosted(t) \/ WSASendFails(t) \/ SendFailDec(t)
  BY <1>5 DEF WSASendPosted, WSASendFails, SendFailDec
<1>6. CASE RecvStep(t)
  BY <1>6 DEF RecvStep, RecvPost, WSARecvPosted, WSARecvFails, RecvFail
<1>7. CASE SendDone(t) \/ FlagClear(t) \/ (t = Acceptor /\ OnAccept)
  BY <1>7 DEF SendDone, FlagClear, OnAccept
<1>8. CASE ProcessMessage(t) \/ ProcessEnd(t) \/ Unref(t)
  BY <1>8 DEF ProcessMessage, ProcessEnd, Unref
<1> QED
  BY <1>1, <1>2, <1>3, <1>4, <1>5, <1>6, <1>7, <1>8 DEF HolderStep, SendPost, HandleStep

\* outside steps move no thread; an operation leaves the state "pending" at most
LEMMA OutsideFrame ==
  ASSUME Shape, OutsideStep
  PROVE  /\ UNCHANGED <<pc, cur, op, freeStack, ioCount, sendFlag, sendArr, sendCount>>
         /\ \A s \in Sessions :
              /\ recvIO'[s] = recvIO[s] \/ (recvIO[s] = "pending" /\ recvIO'[s] = "done")
              /\ sendIO'[s] = sendIO[s] \/ (sendIO[s] = "pending" /\ sendIO'[s] = "done")
<1> USE DEF Shape, threadVars, sendVars, ioVars
<1>1. CASE ClientStep
  BY <1>1 DEF ClientStep, ClientClose, ClientReset
<1>2. CASE KernelStep
  BY <1>2, ZenonT(60)
     DEF KernelStep, KernelCompletes, RecvArrives, RecvEnds, SendCompletes, SendAborts
<1>3. CASE CallStop \/ \E s \in Sessions : CallDisconnect(s)
  BY <1>3 DEF CallStop, CallDisconnect
<1>4. CASE MainCheck \/ MainInvalidate \/ StopPost \/ StopJoined
  BY <1>4 DEF MainCheck, MainInvalidate, StopPost, StopJoined
<1>5. CASE MainCancel
  BY <1>5 DEF MainCancel
<1> QED
  BY <1>1, <1>2, <1>3, <1>4, <1>5 DEF OutsideStep, MainStep

(***************************************************************************)
(* CurOK                                                                   *)
(***************************************************************************)
LEMMA CurStep ==
  ASSUME IInv, [Next]_vars
  PROVE  CurOK'
<1>0. Shape /\ CurOK
  BY TypeShape DEF IInv
<1> USE <1>0 DEF CurOK, Shape, SlotPcs, RefPcs, SendPcs, ReleasePcs, Goto, GoHome, threadVars
<1>1. ASSUME NEW t \in Threads, SendPost(t) PROVE CurOK'
  <2>1. HolderStep(t) /\ pc'[t] \notin {"sendDone", "flagClear"}
    BY <1>1 DEF HolderStep, SendPost, SendSize1, SendSize2, SendSize3, SendSize4, SizeTest,
       SendXchg1, SendXchg2, FlagXchg, SendClear1, SendClear2, SendFailClear, FlagReset,
       SendGather, SendPrepare, WSASendPosted, WSASendFails, SendFailDec, AfterSend
  <2> QED
    BY <2>1, HolderFrame
<1>2. ASSUME NEW t \in Threads, RecvStep(t) PROVE CurOK'
  <2>1. HolderStep(t) /\ pc'[t] \notin {"sendDone", "flagClear"}
    BY <1>2 DEF HolderStep, RecvStep, RecvPost, WSARecvPosted, WSARecvFails, RecvFail
  <2> QED
    BY <2>1, HolderFrame
<1>3. ASSUME NEW t \in Threads, HandleStep(t) PROVE CurOK'
  <2>1. HolderStep(t) /\ (pc'[t] \in {"sendDone", "flagClear"} => pc[t] = "sendDone")
    BY <1>3 DEF HolderStep, HandleStep, OnAccept, SendDone, FlagClear, ProcessMessage,
       ProcessEnd, Unref
  <2> QED
    BY <2>1, HolderFrame
<1>4. ASSUME NEW t \in Threads, IODecrement(t) PROVE CurOK'
  BY <1>4 DEF IODecrement
<1>5. ASSUME NEW t \in Threads, Release(t) PROVE CurOK'
  BY <1>5 DEF Release, ReleaseDrain, ReleaseClose, ReleasePush
<1>6. ASSUME NEW t \in Threads, NEW s \in Sessions, DequeueRecv(t, s) \/ DequeueSend(t, s)
      PROVE CurOK'
  BY <1>6 DEF DequeueRecv, DequeueSend
<1>7. ASSUME NEW t \in Threads, DequeueNull(t) PROVE CurOK'
  BY <1>7 DEF DequeueNull
<1>8. ASSUME NEW c \in Conns, Accept(c) PROVE CurOK'
  <2>1. freeStack # <<>> => freeStack[Len(freeStack)] \in Sessions
    BY DEF IInv, TypeOK
  <2> QED
    BY <1>8, <2>1 DEF Accept
<1>9. CASE AcceptFails \/ InitSession \/ AcceptEnd
  BY <1>9 DEF AcceptFails, InitSession, AcceptEnd
<1>10. CASE OutsideStep
  BY <1>10, OutsideFrame
<1>11. CASE UNCHANGED vars
  BY <1>11 DEF vars
<1> QED
  BY <1>1, <1>2, <1>3, <1>4, <1>5, <1>6, <1>7, <1>8, <1>9, <1>10, <1>11, NextSplit
     DEF HolderStep

(***************************************************************************)
(* IOCountExact                                                            *)
(***************************************************************************)
\* a step that keeps the references of a session and what counts them
LEMMA SameCount ==
  ASSUME NEW s \in Sessions, IOCountExact,
         At(s, RefPcs)' = At(s, RefPcs), ioCount'[s] = ioCount[s],
         Busy(recvIO[s])' = Busy(recvIO[s]), Busy(sendIO[s])' = Busy(sendIO[s])
  PROVE  ioCount'[s] = References(s)'
BY DEF IOCountExact, References

LEMMA CountStep ==
  ASSUME IInv, [Next]_vars
  PROVE  IOCountExact'
<1>0. Shape /\ IOCountExact /\ CurOK
  BY TypeShape DEF IInv
<1>a. \A s \in Sessions : Cardinality(At(s, RefPcs)) \in Nat /\ ioCount[s] = References(s)
  BY <1>0, ThreadSets DEF At, IOCountExact
<1>1. ASSUME NEW t \in Threads, HolderStep(t) PROVE IOCountExact'
  <2> SUFFICES ASSUME NEW s \in Sessions PROVE ioCount'[s] = References(s)'
    BY DEF IOCountExact
  <2>1. At(s, RefPcs)' = At(s, RefPcs)
    BY <1>0, <1>1, HolderFrame DEF At, Shape
  <2>2. CASE s # cur[t]
    <3>1. recvIO'[s] = recvIO[s] /\ sendIO'[s] = sendIO[s] /\ ioCount'[s] = ioCount[s]
      BY <1>0, <1>1, <2>2, HolderFrame
    <3> QED
      BY <1>0, <2>1, <3>1, SameCount DEF Busy
  <2>3. CASE s = cur[t] /\ ~(RecvPost(t) \/ SendPrepare(t) \/ RecvFail(t) \/ SendFailDec(t))
    <3>1. ioCount' = ioCount /\ Busy(recvIO[s])' = Busy(recvIO[s])
          /\ Busy(sendIO[s])' = Busy(sendIO[s])
      <4> USE DEF Shape, Busy, ioVars, sendVars
      <4>1. CASE SendPost(t) /\ ~WSASendPosted(t)
        BY <1>0, <2>3, <4>1 DEF SendPost, SendSize1, SendSize2, SendSize3, SendSize4, SizeTest,
           SendXchg1, SendXchg2, FlagXchg, SendClear1, SendClear2, SendFailClear, FlagReset,
           SendGather, WSASendFails
      <4>2. CASE WSASendPosted(t)
        <5>1. sendIO[s] = "posting"
          BY <2>3, <4>2 DEF IInv, SendExclusive, WSASendPosted, FlagPcs
        <5> QED
          BY <1>0, <2>3, <4>2, <5>1 DEF WSASendPosted
      <4>3. CASE WSARecvPosted(t)
        <5>1. recvIO[s] = "posting"
          BY <2>3, <4>3 DEF IInv, RecvExclusive, Receiving, WSARecvPosted, RecvPcs
        <5> QED
          BY <1>0, <2>3, <4>3, <5>1 DEF WSARecvPosted
      <4>4. CASE WSARecvFails(t)
        BY <4>4 DEF WSARecvFails
      <4>5. CASE HandleStep(t)
        BY <4>5 DEF HandleStep, OnAccept, SendDone, FlagClear, ProcessMessage, ProcessEnd, Unref
      <4> QED
        BY <1>1, <2>3, <4>1, <4>2, <4>3, <4>4, <4>5 DEF HolderStep, RecvStep
    <3> QED
      BY <1>0, <2>1, <3>1, SameCount
  <2>4. CASE s = cur[t] /\ RecvPost(t)
    <3>1. recvIO[s] = "none"
      BY <2>4 DEF IInv, RecvExclusive, Receiving, RecvPost, RecvPcs
    <3> QED
      BY <1>0, <1>a, <2>1, <2>4, <3>1 DEF RecvPost, References, Busy, Shape
  <2>5. CASE s = cur[t] /\ SendPrepare(t)
    <3>1. sendIO[s] = "none"
      BY <2>5 DEF IInv, SendExclusive, SendPrepare, FlagPcs
    <3> QED
      BY <1>0, <1>a, <2>1, <2>5, <3>1 DEF SendPrepare, References, Busy, Shape
  <2>6. CASE s = cur[t] /\ RecvFail(t)
    <3>1. recvIO[s] = "posting"
      BY <2>6 DEF IInv, RecvExclusive, Receiving, RecvFail, RecvPcs
    <3> QED
      BY <1>0, <1>a, <2>1, <2>6, <3>1 DEF RecvFail, References, Busy, Shape
  <2>7. CASE s = cur[t] /\ SendFailDec(t)
    <3>1. sendIO[s] = "posting"
      BY <2>7 DEF IInv, SendExclusive, SendFailDec, FlagPcs
    <3> QED
      BY <1>0, <1>a, <2>1, <2>7, <3>1 DEF SendFailDec, References, Busy, Shape
  <2> QED
    BY <2>2, <2>3, <2>4, <2>5, <2>6, <2>7
\* the thread's own reference goes
<1>2. ASSUME NEW t \in Threads, IODecrement(t) PROVE IOCountExact'
  <2> SUFFICES ASSUME NEW s \in Sessions PROVE ioCount'[s] = References(s)'
    BY DEF IOCountExact
  <2>1. CASE s # cur[t]
    <3>1. At(s, RefPcs)' = At(s, RefPcs)
      BY <1>0, <1>2, <2>1 DEF At, IODecrement, Goto, GoHome, Shape
    <3> QED
      BY <1>0, <1>2, <2>1, <3>1, SameCount DEF IODecrement, ioVars, Shape, Busy
  <2>2. CASE s = cur[t]
    <3>1. t \in At(s, RefPcs) /\ At(s, RefPcs)' = At(s, RefPcs) \ {t}
      BY <1>0, <1>2, <2>2 DEF At, IODecrement, Goto, GoHome, Shape, RefPcs, SendPcs
    <3>2. Cardinality(At(s, RefPcs)') = Cardinality(At(s, RefPcs)) - 1
      BY <3>1, RemoveThread DEF At
    <3> QED
      BY <1>0, <1>a, <1>2, <2>2, <3>2 DEF IODecrement, ioVars, Shape, References, Busy
  <2> QED
    BY <2>1, <2>2
<1>3. ASSUME NEW t \in Threads, Release(t) PROVE IOCountExact'
  <2> SUFFICES ASSUME NEW s \in Sessions PROVE ioCount'[s] = References(s)'
    BY DEF IOCountExact
  <2>1. At(s, RefPcs)' = At(s, RefPcs)
    BY <1>0, <1>3 DEF At, Release, ReleaseDrain, ReleaseClose, ReleasePush, Goto, GoHome,
       Shape, RefPcs, SendPcs
  <2>2. UNCHANGED <<ioCount, recvIO, sendIO>>
    BY <1>3 DEF Release, ReleaseDrain, ReleaseClose, ReleasePush, ioVars
  <2> QED
    BY <1>0, <2>1, <2>2, SameCount DEF Busy
\* the reference of the finished operation passes to the thread
<1>4. ASSUME NEW t \in Threads, NEW q \in Sessions, DequeueRecv(t, q) \/ DequeueSend(t, q)
      PROVE IOCountExact'
  <2> SUFFICES ASSUME NEW s \in Sessions PROVE ioCount'[s] = References(s)'
    BY DEF IOCountExact
  <2>1. CASE s # q
    <3>1. At(s, RefPcs)' = At(s, RefPcs)
      BY <1>0, <1>4, <2>1 DEF At, DequeueRecv, DequeueSend, Goto, Shape, RefPcs, SendPcs
    <3> QED
      BY <1>0, <1>4, <2>1, <3>1, SameCount DEF DequeueRecv, DequeueSend, Shape, Busy
  <2>2. CASE s = q
    <3>1. t \notin At(s, RefPcs) /\ At(s, RefPcs)' = At(s, RefPcs) \cup {t}
      BY <1>0, <1>4, <2>2 DEF At, DequeueRecv, DequeueSend, Goto, Shape, RefPcs, SendPcs
    <3>2. Cardinality(At(s, RefPcs)') = Cardinality(At(s, RefPcs)) + 1
      BY <3>1, AddThread DEF At
    <3> QED
      BY <1>0, <1>a, <1>4, <2>2, <3>2 DEF DequeueRecv, DequeueSend, Shape, References, Busy
  <2> QED
    BY <2>1, <2>2
\* the accept thread takes its reference
<1>5. CASE InitSession
  <2> SUFFICES ASSUME NEW s \in Sessions PROVE ioCount'[s] = References(s)'
    BY DEF IOCountExact
  <2>1. CASE s # cur[Acceptor]
    <3>1. At(s, RefPcs)' = At(s, RefPcs)
      BY <1>0, <1>5, <2>1 DEF At, InitSession, Goto, Shape, RefPcs, SendPcs
    <3> QED
      BY <1>0, <1>5, <2>1, <3>1, SameCount DEF InitSession, ioVars, Shape, Busy
  <2>2. CASE s = cur[Acceptor]
    <3>1. Acceptor \notin At(s, RefPcs) /\ At(s, RefPcs)' = At(s, RefPcs) \cup {Acceptor}
      BY <1>0, <1>5, <2>2 DEF At, InitSession, Goto, Shape, RefPcs, SendPcs
    <3>2. Cardinality(At(s, RefPcs)') = Cardinality(At(s, RefPcs)) + 1
      BY <1>0, <3>1, AddThread DEF At, Shape
    <3> QED
      BY <1>0, <1>a, <1>5, <2>2, <3>2 DEF InitSession, ioVars, Shape, References, Busy
  <2> QED
    BY <2>1, <2>2
\* steps of threads that hold nothing
<1>6. ASSUME \/ \E t \in Threads : DequeueNull(t)
             \/ \E c \in Conns : Accept(c)
             \/ AcceptFails \/ AcceptEnd
      PROVE IOCountExact'
  <2> SUFFICES ASSUME NEW s \in Sessions PROVE ioCount'[s] = References(s)'
    BY DEF IOCountExact
  <2>1. At(s, RefPcs)' = At(s, RefPcs)
    BY <1>0, <1>6 DEF At, DequeueNull, Accept, AcceptFails, AcceptEnd, Goto, Shape, RefPcs, SendPcs
  <2>2. UNCHANGED <<ioCount, recvIO, sendIO>>
    BY <1>6 DEF DequeueNull, Accept, AcceptFails, AcceptEnd, ioVars
  <2> QED
    BY <1>0, <2>1, <2>2, SameCount DEF Busy
<1>7. CASE OutsideStep
  BY <1>0, <1>7, OutsideFrame, SameCount DEF At, Busy, IOCountExact
<1>8. CASE UNCHANGED vars
  BY <1>8 DEF vars, threadVars, ioVars, IOCountExact, IInv, References, At, Busy
<1> QED
  BY <1>1, <1>2, <1>3, <1>4, <1>5, <1>6, <1>7, <1>8, NextSplit

(***************************************************************************)
(* SlotLife                                                                *)
(***************************************************************************)
LEMMA SlotStep ==
  ASSUME IInv, [Next]_vars
  PROVE  SlotLife'
<1>0. Shape /\ CurOK /\ SlotLife /\ IOCountExact /\ freeStack \in Seq(Sessions)
  BY TypeShape DEF IInv, TypeOK
\* where a thread refers to a session, nobody sets it up or releases it
<1>a. ASSUME NEW s \in Sessions, ~Idle(s)
      PROVE  ~IsFree(s) /\ \A u \in Threads : pc[u] \in ReleasePcs \cup {"init"} => cur[u] # s
  BY <1>0, <1>a DEF SlotLife
<1>1. ASSUME NEW t \in Threads, HolderStep(t) PROVE SlotLife'
  <2>1. t \in At(cur[t], RefPcs) /\ cur[t] \in Sessions
    BY <1>0, <1>1, HolderFrame DEF At, CurOK, SlotPcs
  <2>2. ~Idle(cur[t]) /\ ~IsFree(cur[t])
        /\ \A u \in Threads : pc[u] \in ReleasePcs \cup {"init"} => cur[u] # cur[t]
    BY <1>a, <2>1 DEF Idle
  <2>3. \A s \in Sessions : At(s, RefPcs)' = At(s, RefPcs) /\ (IsFree(s)' <=> IsFree(s))
    BY <1>0, <1>1, HolderFrame DEF At, IsFree
  <2>4. \A s \in Sessions : s # cur[t] => (Idle(s)' <=> Idle(s))
    BY <1>0, <1>1, <2>3, HolderFrame DEF Idle
  <2>5. pc'[t] \notin ReleasePcs \cup {"init"}
    BY <1>0, <1>1, HolderFrame DEF ReleasePcs, RefPcs, SendPcs
  <2>6. \A u \in Threads : u # t => pc'[u] = pc[u]
    BY <1>0, <1>1, HolderFrame
  <2>7. UNCHANGED <<cur, freeStack>>
    BY <1>0, <1>1, HolderFrame
  <2>8. \A u \in Threads : pc[u] \in ReleasePcs \cup {"init"} => cur[u] \in Sessions
    BY <1>0 DEF CurOK, SlotPcs
  <2> QED
    BY <1>0, <2>2, <2>3, <2>4, <2>5, <2>6, <2>7, <2>8 DEF SlotLife
\* the last reference: what remains is an idle session
<1>2. ASSUME NEW t \in Threads, IODecrement(t) PROVE SlotLife'
  <2>0. PICK q \in Sessions : q = cur[t]
    BY <1>0, <1>2 DEF CurOK, SlotPcs, IODecrement, RefPcs
  <2>1. t \in At(q, RefPcs)
    BY <1>2, <2>0 DEF At, IODecrement, RefPcs
  <2>2. ~IsFree(q) /\ \A u \in Threads : pc[u] \in ReleasePcs \cup {"init"} => cur[u] # q
    BY <1>a, <2>1 DEF Idle
  <2>3. \A s \in Sessions : s # q => At(s, RefPcs)' = At(s, RefPcs)
    BY <1>0, <1>2, <2>0 DEF At, IODecrement, Goto, GoHome, Shape
  <2>4. UNCHANGED <<recvIO, sendIO, freeStack>>
    BY <1>2 DEF IODecrement, ioVars
  <2>5. \A s \in Sessions : s # q => (Idle(s)' <=> Idle(s))
    BY <2>3, <2>4 DEF Idle
  <2>6. At(q, RefPcs)' = At(q, RefPcs) \ {t}
    BY <1>0, <1>2, <2>0, <2>1 DEF At, IODecrement, Goto, GoHome, Shape, RefPcs, SendPcs
  <2>7. ASSUME ioCount[q] = 1 PROVE Idle(q)'
    <3>1. Cardinality(At(q, RefPcs)') = Cardinality(At(q, RefPcs)) - 1
      BY <2>1, <2>6, RemoveThread DEF At
    <3>2. Cardinality(At(q, RefPcs)) \in Nat /\ Cardinality(At(q, RefPcs)') \in Nat
      BY <2>6, ThreadSets DEF At
    <3>3. References(q) = 1
      BY <1>0, <2>1, <2>7 DEF IOCountExact
    <3>4. Cardinality(At(q, RefPcs)') = 0 /\ recvIO[q] = "none" /\ sendIO[q] = "none"
      BY <3>1, <3>2, <3>3 DEF References, Busy
    <3>5. At(q, RefPcs)' = {}
      BY <2>6, <3>4, ThreadSets, FS_EmptySet DEF At
    <3> QED
      BY <2>4, <3>4, <3>5 DEF Idle
  <2>8. /\ cur' = [cur EXCEPT ![t] = IF ioCount[q] = 1 THEN q ELSE None]
        /\ pc'[t] = "drain" => ioCount[q] = 1
        /\ pc'[t] \in {"drain", "acceptEnd", "gqcs"}
        /\ \A u \in Threads : u # t => pc'[u] = pc[u]
    BY <1>0, <1>2, <2>0 DEF IODecrement, Goto, GoHome, Shape
  <2>9. \A u \in Threads : pc[u] \in ReleasePcs \cup {"init"} => cur[u] \in Sessions
    BY <1>0 DEF CurOK, SlotPcs
  <2>10. \A s \in Sessions : IsFree(s)' <=> IsFree(s)
    BY <2>4 DEF IsFree
  <2>11. pc'[t] \in ReleasePcs \cup {"init"} => ioCount[q] = 1
    BY <2>8 DEF ReleasePcs
  <2>12. \A u \in Threads : u # t => cur'[u] = cur[u]
    BY <1>0, <2>8 DEF Shape
  <2>13. ioCount[q] = 1 => cur'[t] = q
    BY <1>0, <2>8 DEF Shape
  <2> QED
    BY <1>0, <2>0, <2>1, <2>2, <2>4, <2>5, <2>7, <2>8, <2>9, <2>10, <2>11, <2>12, <2>13 DEF SlotLife
\* Release goes on, and gives the slot back at its end
<1>3. ASSUME NEW t \in Threads, ReleaseDrain(t) \/ ReleaseClose(t) PROVE SlotLife'
  <2>1. \A s \in Sessions : At(s, RefPcs)' = At(s, RefPcs)
    BY <1>0, <1>3 DEF At, ReleaseDrain, ReleaseClose, Goto, Shape, RefPcs, SendPcs
  <2>2. UNCHANGED <<recvIO, sendIO, freeStack, cur>>
    BY <1>3 DEF ReleaseDrain, ReleaseClose, ioVars
  <2>3. pc[t] \in ReleasePcs /\ \A u \in Threads : u # t => pc'[u] = pc[u]
    BY <1>0, <1>3 DEF ReleaseDrain, ReleaseClose, ReleasePcs, Goto, Shape
  <2>4. \A u \in Threads : pc[u] \in ReleasePcs \cup {"init"} => cur[u] \in Sessions
    BY <1>0 DEF CurOK, SlotPcs
  <2> QED
    BY <1>0, <2>1, <2>2, <2>3, <2>4 DEF SlotLife, Idle, IsFree
<1>4. ASSUME NEW t \in Threads, ReleasePush(t) PROVE SlotLife'
  <2> DEFINE q == cur[t]
  <2>0. pc[t] \in ReleasePcs \cup {"init"} /\ q \in Sessions
    BY <1>0, <1>4 DEF ReleasePush, ReleasePcs, CurOK, SlotPcs
  <2>1. \A s \in Sessions : At(s, RefPcs)' = At(s, RefPcs)
    BY <1>0, <1>4 DEF At, ReleasePush, GoHome, Goto, Shape, RefPcs, SendPcs
  <2>2. UNCHANGED <<recvIO, sendIO>> /\ freeStack' = Append(freeStack, q)
    BY <1>4 DEF ReleasePush, ioVars
  <2>3. \A s \in Sessions : Idle(s)' <=> Idle(s)
    BY <2>1, <2>2 DEF Idle
  <2>4. /\ pc'[t] \notin ReleasePcs \cup {"init"}
        /\ \A u \in Threads : u # t => pc'[u] = pc[u] /\ cur'[u] = cur[u]
    BY <1>0, <1>4 DEF ReleasePush, ReleasePcs, GoHome, Goto, Shape
  <2>5. Idle(q) /\ ~IsFree(q)
    BY <1>0, <2>0 DEF SlotLife
  <2>6. \A s \in Sessions : IsFree(s)' <=> IsFree(s) \/ s = q
    BY <1>0, <2>0, <2>2 DEF IsFree
  <2>7. \A i, j \in DOMAIN freeStack' : freeStack'[i] = freeStack'[j] => i = j
    BY <1>0, <2>0, <2>2, <2>5 DEF IsFree, SlotLife
  <2>8. \A u \in Threads : pc[u] \in ReleasePcs \cup {"init"} => cur[u] \in Sessions
    BY <1>0 DEF CurOK, SlotPcs
  <2>9. \A u \in Threads : pc[u] \in ReleasePcs \cup {"init"} /\ u # t => cur[u] # q
    BY <1>0, <2>0 DEF SlotLife
  <2>10. \A u \in Threads : pc'[u] \in ReleasePcs \cup {"init"} =>
           /\ u # t /\ pc[u] \in ReleasePcs \cup {"init"} /\ cur'[u] = cur[u]
           /\ cur[u] \in Sessions /\ cur[u] # q
    BY <2>4, <2>8, <2>9
  <2> QED
    BY <1>0, <2>3, <2>5, <2>6, <2>7, <2>10 DEF SlotLife
\* a completion refers to its session
<1>5. ASSUME NEW t \in Threads, NEW q \in Sessions, DequeueRecv(t, q) \/ DequeueSend(t, q)
      PROVE SlotLife'
  <2>1. ~Idle(q)
    BY <1>5 DEF DequeueRecv, DequeueSend, Idle
  <2>2. \A s \in Sessions : s # q => (Idle(s)' <=> Idle(s))
    <3>1. \A s \in Sessions : s # q => At(s, RefPcs)' = At(s, RefPcs)
      BY <1>0, <1>5 DEF At, DequeueRecv, DequeueSend, Goto, Shape, RefPcs, SendPcs
    <3>2. \A s \in Sessions : s # q => recvIO'[s] = recvIO[s] /\ sendIO'[s] = sendIO[s]
      BY <1>0, <1>5 DEF DequeueRecv, DequeueSend, Shape
    <3> QED
      BY <3>1, <3>2 DEF Idle
  <2>3. /\ pc'[t] \notin ReleasePcs \cup {"init"} /\ freeStack' = freeStack
        /\ \A u \in Threads : u # t => pc'[u] = pc[u] /\ cur'[u] = cur[u]
    BY <1>0, <1>5 DEF DequeueRecv, DequeueSend, ReleasePcs, Goto, Shape
  <2>4. ~IsFree(q) /\ \A u \in Threads : pc[u] \in ReleasePcs \cup {"init"} => cur[u] # q
    BY <1>a, <2>1
  <2>5. \A u \in Threads : pc[u] \in ReleasePcs \cup {"init"} => cur[u] \in Sessions
    BY <1>0 DEF CurOK, SlotPcs
  <2>6. \A s \in Sessions : IsFree(s)' <=> IsFree(s)
    BY <2>3 DEF IsFree
  <2> QED
    BY <1>0, <2>2, <2>3, <2>4, <2>5, <2>6 DEF SlotLife
\* the accept thread takes a slot from the stack ...
<1>6. ASSUME NEW c \in Conns, Accept(c) PROVE SlotLife'
  <2>1. UNCHANGED <<recvIO, sendIO>> /\ pc[Acceptor] = "accept"
    BY <1>6 DEF Accept, ioVars
  <2>2. \A s \in Sessions : At(s, RefPcs)' = At(s, RefPcs)
    BY <1>0, <1>6 DEF At, Accept, Goto, Shape, RefPcs, SendPcs
  <2>3. \A s \in Sessions : Idle(s)' <=> Idle(s)
    BY <2>1, <2>2 DEF Idle
  <2>4. CASE freeStack = <<>>
    <3>1. /\ pc'[Acceptor] \notin ReleasePcs \cup {"init"} /\ UNCHANGED <<freeStack, cur>>
          /\ \A u \in Threads : u # Acceptor => pc'[u] = pc[u]
      BY <1>0, <1>6, <2>4 DEF Accept, ReleasePcs, Goto, Shape
    <3>2. \A u \in Threads : pc[u] \in ReleasePcs \cup {"init"} => cur[u] \in Sessions
      BY <1>0 DEF CurOK, SlotPcs
    <3> QED
      BY <1>0, <2>3, <3>1, <3>2 DEF SlotLife, IsFree
  <2>5. CASE freeStack # <<>>
    <3> DEFINE q == freeStack[Len(freeStack)]
    <3>1. /\ freeStack' = SubSeq(freeStack, 1, Len(freeStack) - 1)
          /\ cur' = [cur EXCEPT ![Acceptor] = q]
          /\ \A u \in Threads : u # Acceptor => pc'[u] = pc[u]
          /\ pc'[Acceptor] \in {"init", "breakInUse"}
      BY <1>0, <1>6, <2>5 DEF Accept, Goto, Shape
    <3>2. Len(freeStack) \in Nat \ {0} /\ q \in Sessions /\ IsFree(q)
      BY <1>0, <2>5 DEF IsFree
    <3>3. DOMAIN freeStack' = 1 .. (Len(freeStack) - 1)
          /\ \A i \in DOMAIN freeStack' : freeStack'[i] = freeStack[i]
      BY <1>0, <3>1, <3>2
    <3>4. \A s \in Sessions : IsFree(s)' <=> IsFree(s) /\ s # q
      BY <1>0, <3>2, <3>3 DEF IsFree, SlotLife
    <3>5. \A i, j \in DOMAIN freeStack' : freeStack'[i] = freeStack'[j] => i = j
      BY <1>0, <3>2, <3>3 DEF SlotLife
    <3>6. Idle(q) /\ \A u \in Threads : pc[u] \in ReleasePcs \cup {"init"} => cur[u] # q
      BY <1>0, <3>2 DEF SlotLife
    <3>7. \A u \in Threads : pc[u] \in ReleasePcs \cup {"init"} => cur[u] \in Sessions
      BY <1>0 DEF CurOK, SlotPcs
    <3>8. cur'[Acceptor] = q /\ \A u \in Threads : u # Acceptor => cur'[u] = cur[u]
      BY <1>0, <3>1 DEF Shape
    <3> QED
      BY <1>0, <2>3, <3>1, <3>2, <3>4, <3>5, <3>6, <3>7, <3>8 DEF SlotLife
  <2> QED
    BY <2>4, <2>5
\* ... and takes the first reference to it
<1>7. CASE InitSession
  <2> DEFINE q == cur[Acceptor]
  <2>1. /\ UNCHANGED <<recvIO, sendIO, freeStack, cur>>
        /\ pc[Acceptor] = "init" /\ pc'[Acceptor] = "onAccept"
        /\ \A u \in Threads : u # Acceptor => pc'[u] = pc[u]
    BY <1>0, <1>7 DEF InitSession, ioVars, Goto, Shape
  <2>2. \A s \in Sessions : s # q => At(s, RefPcs)' = At(s, RefPcs)
    BY <2>1 DEF At
  <2>3. \A s \in Sessions : s # q => (Idle(s)' <=> Idle(s))
    BY <2>1, <2>2 DEF Idle
  <2>4. ~IsFree(q) /\ \A u \in Threads : pc[u] \in ReleasePcs \cup {"init"} /\ u # Acceptor => cur[u] # q
    BY <1>0, <2>1 DEF SlotLife, Shape
  <2>5. \A u \in Threads : pc[u] \in ReleasePcs \cup {"init"} => cur[u] \in Sessions
    BY <1>0 DEF CurOK, SlotPcs
  <2>6. \A s \in Sessions : IsFree(s)' <=> IsFree(s)
    BY <2>1 DEF IsFree
  <2>7. pc'[Acceptor] \notin ReleasePcs \cup {"init"}
    BY <2>1 DEF ReleasePcs
  <2> QED
    BY <1>0, <2>1, <2>3, <2>4, <2>5, <2>6, <2>7 DEF SlotLife
<1>8. ASSUME (\E t \in Threads : DequeueNull(t)) \/ AcceptFails \/ AcceptEnd PROVE SlotLife'
  <2>1. \A s \in Sessions : At(s, RefPcs)' = At(s, RefPcs)
    BY <1>0, <1>8 DEF At, DequeueNull, AcceptFails, AcceptEnd, Goto, Shape, RefPcs, SendPcs
  <2>2. UNCHANGED <<recvIO, sendIO, freeStack, cur>>
    BY <1>8 DEF DequeueNull, AcceptFails, AcceptEnd, ioVars
  <2>3. \A u \in Threads : pc'[u] \in ReleasePcs \cup {"init"} => pc'[u] = pc[u]
    BY <1>0, <1>8 DEF DequeueNull, AcceptFails, AcceptEnd, Goto, Shape, ReleasePcs
  <2>4. \A u \in Threads : pc[u] \in ReleasePcs \cup {"init"} => cur[u] \in Sessions
    BY <1>0 DEF CurOK, SlotPcs
  <2> QED
    BY <1>0, <2>1, <2>2, <2>3, <2>4 DEF SlotLife, Idle, IsFree
<1>9. CASE OutsideStep
  <2>1. UNCHANGED <<pc, cur, freeStack>>
    BY <1>0, <1>9, OutsideFrame
  <2>2. \A s \in Sessions : Idle(s)' <=> Idle(s)
    BY <1>0, <1>9, <2>1, OutsideFrame DEF Idle, At
  <2>3. \A u \in Threads : pc[u] \in ReleasePcs \cup {"init"} => cur[u] \in Sessions
    BY <1>0 DEF CurOK, SlotPcs
  <2> QED
    BY <1>0, <2>1, <2>2, <2>3 DEF SlotLife, IsFree
<1>10. CASE UNCHANGED vars
  BY <1>0, <1>10 DEF vars, threadVars, ioVars, SlotLife, Idle, IsFree, At
<1> QED
  BY <1>1, <1>2, <1>3, <1>4, <1>5, <1>6, <1>7, <1>8, <1>9, <1>10, NextSplit DEF Release

(***************************************************************************)
(* RecvExclusive                                                           *)
(***************************************************************************)
\* SendPost leads back to its caller, and leaves the receive side alone
LEMMA SendPostFrame ==
  ASSUME Shape, NEW t \in Threads, SendPost(t)
  PROVE  /\ pc[t] \in SendPcs /\ pc'[t] \in SendPcs \cup {AfterSend(t), "breakSock"}
         /\ UNCHANGED recvIO
<1> USE DEF Shape, Goto, SendPcs, ioVars
<1>1. CASE SendSize1(t) \/ SendSize2(t) \/ SendSize3(t) \/ SendSize4(t)
  BY <1>1 DEF SendSize1, SendSize2, SendSize3, SendSize4, SizeTest
<1>2. CASE SendXchg1(t) \/ SendXchg2(t) \/ SendClear1(t) \/ SendClear2(t) \/ SendFailClear(t)
  BY <1>2 DEF SendXchg1, SendXchg2, FlagXchg, SendClear1, SendClear2, SendFailClear, FlagReset
<1>3. CASE SendGather(t) \/ SendPrepare(t) \/ WSASendPosted(t) \/ WSASendFails(t) \/ SendFailDec(t)
  BY <1>3 DEF SendGather, SendPrepare, WSASendPosted, WSASendFails, SendFailDec
<1> QED
  BY <1>1, <1>2, <1>3 DEF SendPost

LEMMA RecvSideStep ==
  ASSUME IInv, [Next]_vars
  PROVE  RecvExclusive'
<1>0. Shape /\ CurOK /\ SlotLife /\ RecvExclusive
  BY TypeShape DEF IInv
<1>a. \A t \in Threads : Receiving(t) => cur[t] \in Sessions /\ t \in At(cur[t], RefPcs)
  BY <1>0 DEF CurOK, SlotPcs, RefPcs, Receiving, RecvPcs, At
\* a step of one thread that receives neither more nor elsewhere than before
<1>b. ASSUME NEW t \in Threads, \A u \in Threads : u # t => pc'[u] = pc[u] /\ op'[u] = op[u],
             UNCHANGED <<cur, recvIO>>,
             Receiving(t)' => /\ Receiving(t)
                              /\ pc[t] \notin {"wsaRecv", "recvFail"}
                              /\ pc'[t] \notin {"wsaRecv", "recvFail"}
      PROVE  RecvExclusive'
  BY <1>0, <1>b DEF RecvExclusive, Receiving
\* no thread starts to receive
<1>c. ASSUME UNCHANGED recvIO,
             \A u \in Threads : Receiving(u)' => /\ Receiving(u) /\ cur'[u] = cur[u]
                                                 /\ pc'[u] = pc[u]
      PROVE  RecvExclusive'
  BY <1>0, <1>c DEF RecvExclusive
<1>1. ASSUME NEW t \in Threads, SendPost(t) PROVE RecvExclusive'
  <2>1. HolderStep(t)
    BY <1>1 DEF HolderStep
  <2>2. /\ UNCHANGED <<cur, op, recvIO>>
        /\ \A u \in Threads : u # t => pc'[u] = pc[u]
    BY <1>0, <1>1, <2>1, HolderFrame, SendPostFrame
  <2>3. pc[t] \in SendPcs /\ pc'[t] \in SendPcs \cup {AfterSend(t), "breakSock"}
    BY <1>0, <1>1, SendPostFrame
  <2>4. Receiving(t)' => op[t] # "send"
    BY <2>2, <2>3 DEF Receiving, SendPcs, RecvPcs, AfterSend
  <2>5. pc[t] \notin {"wsaRecv", "recvFail"} /\ pc'[t] \notin {"wsaRecv", "recvFail"}
    BY <2>3 DEF SendPcs, AfterSend
  <2> QED
    BY <1>b, <2>2, <2>3, <2>4, <2>5 DEF Receiving
<1>2. ASSUME NEW t \in Threads, HandleStep(t) PROVE RecvExclusive'
  <2>1. HolderStep(t)
    BY <1>2 DEF HolderStep
  <2>2. /\ UNCHANGED <<cur, op>>
        /\ \A u \in Threads : u # t => pc'[u] = pc[u]
    BY <1>0, <2>1, HolderFrame
  <2>3. UNCHANGED recvIO
    BY <1>2 DEF HandleStep, OnAccept, SendDone, FlagClear, ProcessMessage, ProcessEnd, Unref, ioVars
  <2>4. /\ pc[t] \in {"sendDone", "flagClear"} => pc'[t] \in {"breakCount", "flagClear", "size1"}
        /\ pc[t] \notin {"sendDone", "flagClear"} => pc[t] \in {"onAccept", "loop", "unref"}
        /\ pc'[t] \notin {"wsaRecv", "recvFail"}
    BY <1>0, <1>2 DEF HandleStep, OnAccept, SendDone, FlagClear, ProcessMessage, ProcessEnd,
       Unref, Shape, Goto
  <2>5. pc[t] \in {"sendDone", "flagClear"} => op[t] = "send"
    BY <1>0 DEF CurOK
  <2>6. pc[t] \notin {"wsaRecv", "recvFail"}
    BY <2>4
  <2>7. Receiving(t)' => Receiving(t)
    BY <2>2, <2>4, <2>5 DEF Receiving, RecvPcs
  <2> QED
    BY <1>b, <2>2, <2>3, <2>4, <2>6, <2>7
<1>3. ASSUME NEW t \in Threads, RecvStep(t) PROVE RecvExclusive'
  <2>1. HolderStep(t)
    BY <1>3 DEF HolderStep
  <2>2. /\ UNCHANGED <<cur, op>>
        /\ \A u \in Threads : u # t => pc'[u] = pc[u]
        /\ \A s \in Sessions : s # cur[t] => recvIO'[s] = recvIO[s]
    BY <1>0, <2>1, HolderFrame
  <2>3. /\ pc[t] \in RecvPcs
        /\ pc'[t] \in {"wsaRecv", "recvFail"} => recvIO'[cur[t]] = "posting"
        /\ pc'[t] \notin {"wsaRecv", "recvFail"} => pc'[t] \in {"breakSock", "ioDec"}
    <3>1. cur[t] \in Sessions /\ (pc[t] \in {"wsaRecv", "recvFail"} => recvIO[cur[t]] = "posting")
      BY <1>0, <1>3, <1>a DEF RecvStep, RecvPost, WSARecvPosted, WSARecvFails, RecvFail, RecvPcs,
         RecvExclusive, Receiving
    <3> QED
      BY <1>0, <1>3, <3>1 DEF RecvStep, RecvPost, WSARecvPosted, WSARecvFails, RecvFail, RecvPcs,
         Shape, Goto, ioVars
  <2>4. \A u \in Threads : u # t /\ Receiving(u) => cur[u] # cur[t] /\ cur[u] \in Sessions
    BY <1>0, <1>a, <2>3 DEF RecvExclusive, Receiving
  <2>5. Receiving(t)' => pc'[t] \in {"wsaRecv", "recvFail"}
    BY <2>3 DEF Receiving, RecvPcs, SendPcs
  <2>6. \A u \in Threads : u # t => (Receiving(u)' <=> Receiving(u))
    BY <2>2 DEF Receiving
  <2> QED
    BY <1>0, <2>2, <2>3, <2>4, <2>5, <2>6 DEF RecvExclusive
<1>4. ASSUME \E t \in Threads : IODecrement(t) \/ Release(t) \/ DequeueNull(t)
      PROVE RecvExclusive'
  <2>1. UNCHANGED recvIO
    BY <1>4 DEF IODecrement, Release, ReleaseDrain, ReleaseClose, ReleasePush, DequeueNull, ioVars
  <2>2. \A u \in Threads : Receiving(u)' =>
           Receiving(u) /\ cur'[u] = cur[u] /\ pc'[u] = pc[u]
    BY <1>0, <1>4 DEF IODecrement, Release, ReleaseDrain, ReleaseClose, ReleasePush, DequeueNull,
       Goto, GoHome, Shape, Receiving, RecvPcs, SendPcs, threadVars
  <2> QED
    BY <1>c, <2>1, <2>2
\* the receive was outstanding: nobody received
<1>5. ASSUME NEW t \in Threads, NEW q \in Sessions, DequeueRecv(t, q) PROVE RecvExclusive'
  <2>1. \A u \in Threads : u # t => pc'[u] = pc[u] /\ op'[u] = op[u] /\ cur'[u] = cur[u]
    BY <1>0, <1>5 DEF DequeueRecv, Goto, Shape
  <2>2. pc'[t] \in {"ioDec", "loop"} /\ cur'[t] = q /\ recvIO' = [recvIO EXCEPT ![q] = "none"]
    BY <1>0, <1>5 DEF DequeueRecv, Goto, Shape
  <2>3. recvIO[q] = "done"
    BY <1>5 DEF DequeueRecv
  <2>4. \A u \in Threads : Receiving(u) => cur[u] # q
    BY <1>0, <2>3 DEF RecvExclusive
  <2>5. \A s \in Sessions : s # q => recvIO'[s] = recvIO[s]
    BY <1>0, <2>2 DEF Shape
  <2>6. recvIO'[q] = "none"
    BY <1>0, <2>2 DEF Shape
  <2>7. \A u \in Threads : u # t => (Receiving(u)' <=> Receiving(u))
    BY <2>1 DEF Receiving
  <2> QED
    BY <1>0, <1>a, <2>1, <2>2, <2>4, <2>5, <2>6, <2>7 DEF RecvExclusive
<1>6. ASSUME NEW t \in Threads, NEW q \in Sessions, DequeueSend(t, q) PROVE RecvExclusive'
  <2>1. UNCHANGED recvIO
    BY <1>6 DEF DequeueSend
  <2>2. \A u \in Threads : Receiving(u)' =>
           Receiving(u) /\ cur'[u] = cur[u] /\ pc'[u] = pc[u]
    BY <1>0, <1>6 DEF DequeueSend, Goto, Shape, Receiving, RecvPcs, SendPcs
  <2> QED
    BY <1>c, <2>1, <2>2
<1>7. ASSUME (\E c \in Conns : Accept(c)) \/ AcceptFails \/ AcceptEnd PROVE RecvExclusive'
  <2>1. UNCHANGED recvIO
    BY <1>7 DEF Accept, AcceptFails, AcceptEnd, ioVars
  <2>2. \A u \in Threads : Receiving(u)' =>
           Receiving(u) /\ cur'[u] = cur[u] /\ pc'[u] = pc[u]
    BY <1>0, <1>7 DEF Accept, AcceptFails, AcceptEnd, Goto, Shape, Receiving, RecvPcs, SendPcs
  <2> QED
    BY <1>c, <2>1, <2>2
\* the slot was idle: nobody received
<1>8. CASE InitSession
  <2>1. /\ UNCHANGED <<recvIO, cur, op>> /\ pc[Acceptor] = "init" /\ pc'[Acceptor] = "onAccept"
        /\ \A u \in Threads : u # Acceptor => pc'[u] = pc[u]
    BY <1>0, <1>8 DEF InitSession, ioVars, Goto, Shape
  <2>2. Idle(cur[Acceptor])
    BY <1>0, <2>1 DEF SlotLife, Shape
  <2>3. \A u \in Threads : Receiving(u) => cur[u] # cur[Acceptor]
    BY <1>a, <2>2 DEF Idle
  <2>4. \A u \in Threads : u # Acceptor => (Receiving(u)' <=> Receiving(u))
    BY <2>1 DEF Receiving
  <2> QED
    BY <1>0, <2>1, <2>2, <2>3, <2>4 DEF RecvExclusive, Idle
<1>9. CASE OutsideStep
  <2>1. UNCHANGED <<pc, cur, op>>
    BY <1>0, <1>9, OutsideFrame
  <2>2. \A s \in Sessions : recvIO[s] \in {"none", "posting"} => recvIO'[s] = recvIO[s]
    BY <1>0, <1>9, OutsideFrame
  <2> QED
    BY <1>0, <1>a, <2>1, <2>2 DEF RecvExclusive, Receiving
<1>10. CASE UNCHANGED vars
  BY <1>0, <1>10 DEF vars, threadVars, ioVars, RecvExclusive, Receiving
<1> QED
  BY <1>1, <1>2, <1>3, <1>4, <1>5, <1>6, <1>7, <1>8, <1>9, <1>10, NextSplit DEF HolderStep

(***************************************************************************)
(* SendExclusive                                                           *)
(***************************************************************************)
LEMMA SendSideStep ==
  ASSUME IInv, [Next]_vars
  PROVE  SendExclusive'
<1>0. Shape /\ CurOK /\ SlotLife /\ SendExclusive
  BY TypeShape DEF IInv
<1>a. \A t \in Threads : pc[t] \in FlagPcs => cur[t] \in Sessions /\ t \in At(cur[t], RefPcs)
  BY <1>0 DEF CurOK, SlotPcs, RefPcs, SendPcs, FlagPcs, At
\* no thread becomes an owner
<1>b. ASSUME UNCHANGED <<sendFlag, sendIO>>,
             \A u \in Threads : pc'[u] \in FlagPcs =>
               /\ pc[u] \in FlagPcs /\ cur'[u] = cur[u]
               /\ pc'[u] \in {"wsaSend", "failDec"} <=> pc[u] \in {"wsaSend", "failDec"}
      PROVE  SendExclusive'
  BY <1>0, <1>b DEF SendExclusive
\* a step of one thread, alone on the send side of its session
<1>c. ASSUME NEW t \in Threads, HolderStep(t),
             \A u \in Threads : u # t /\ pc[u] \in FlagPcs => cur[u] # cur[t],
             pc'[t] \in FlagPcs =>
               /\ sendFlag'[cur[t]] = 1
               /\ sendIO'[cur[t]] = IF pc'[t] \in {"wsaSend", "failDec"} THEN "posting" ELSE "none",
             sendIO'[cur[t]] # "none" => sendFlag'[cur[t]] = 1
      PROVE  SendExclusive'
  <2>1. /\ cur' = cur
        /\ \A u \in Threads : u # t => pc'[u] = pc[u]
        /\ \A s \in Sessions : s # cur[t] => sendIO'[s] = sendIO[s] /\ sendFlag'[s] = sendFlag[s]
    BY <1>0, <1>c, HolderFrame
  <2> QED
    BY <1>0, <1>a, <1>c, <2>1 DEF SendExclusive
\* an owner is alone
<1>d. ASSUME NEW t \in Threads, pc[t] \in FlagPcs
      PROVE  /\ \A u \in Threads : u # t /\ pc[u] \in FlagPcs => cur[u] # cur[t]
             /\ sendFlag[cur[t]] = 1
             /\ sendIO[cur[t]] = IF pc[t] \in {"wsaSend", "failDec"} THEN "posting" ELSE "none"
             /\ cur[t] \in Sessions
  BY <1>0, <1>a, <1>d DEF SendExclusive
<1>1. ASSUME NEW t \in Threads, SendSize1(t) \/ SendSize2(t) \/ SendSize3(t) \/ SendSize4(t) \/ SendGather(t)
      PROVE SendExclusive'
  BY <1>0, <1>1, <1>b DEF SendSize1, SendSize2, SendSize3, SendSize4, SizeTest, SendGather,
     Shape, Goto, FlagPcs, AfterSend, sendVars, ioVars
<1>2. ASSUME NEW t \in Threads, SendXchg1(t) \/ SendXchg2(t) PROVE SendExclusive'
  <2>0. HolderStep(t) /\ cur[t] \in Sessions
    BY <1>0, <1>2
       DEF HolderStep, SendPost, SendXchg1, SendXchg2, FlagXchg, CurOK, SlotPcs, RefPcs, SendPcs
  <2>1. CASE sendFlag[cur[t]] = 1
    <3>1. sendFlag' = sendFlag
      BY <1>0, <1>2, <2>0, <2>1 DEF SendXchg1, SendXchg2, FlagXchg, Shape
    <3>2. \A u \in Threads : pc'[u] \in FlagPcs => pc'[u] = pc[u]
      BY <1>0, <1>2, <2>1 DEF SendXchg1, SendXchg2, FlagXchg, Shape, Goto, FlagPcs, AfterSend
    <3>3. UNCHANGED <<sendIO, cur>>
      BY <1>2 DEF SendXchg1, SendXchg2, FlagXchg, ioVars
    <3> QED
      BY <1>b, <3>1, <3>2, <3>3
  <2>2. CASE sendFlag[cur[t]] = 0
    <3>1. \A u \in Threads : pc[u] \in FlagPcs => cur[u] # cur[t]
      BY <1>0, <2>2 DEF SendExclusive
    <3>2. sendIO[cur[t]] = "none"
      BY <1>0, <2>0, <2>2 DEF SendExclusive
    <3>3. sendFlag'[cur[t]] = 1 /\ sendIO' = sendIO /\ pc'[t] \in {"size2", "size4"}
      BY <1>0, <1>2, <2>0, <2>2 DEF SendXchg1, SendXchg2, FlagXchg, Shape, Goto, ioVars
    <3> QED
      BY <1>c, <2>0, <3>1, <3>2, <3>3
  <2> QED
    BY <1>0, <2>0, <2>1, <2>2 DEF Shape
<1>3. ASSUME NEW t \in Threads, SendClear1(t) \/ SendClear2(t) \/ SendFailClear(t) \/ FlagClear(t)
      PROVE SendExclusive'
  <2>0. HolderStep(t) /\ pc[t] \in FlagPcs \ {"wsaSend", "failDec"}
    BY <1>3 DEF HolderStep, SendPost, HandleStep, SendClear1, SendClear2, SendFailClear, FlagReset,
       FlagClear, FlagPcs
  <2>1. sendIO' = sendIO /\ pc'[t] \notin FlagPcs
    BY <1>0, <1>3 DEF SendClear1, SendClear2, SendFailClear, FlagReset, FlagClear, Shape, Goto,
       FlagPcs, AfterSend, ioVars
  <2> QED
    BY <1>c, <1>d, <2>0, <2>1
<1>4. ASSUME NEW t \in Threads,
             SendPrepare(t) \/ WSASendPosted(t) \/ WSASendFails(t) \/ SendFailDec(t) \/ SendDone(t)
      PROVE SendExclusive'
  <2>0. HolderStep(t) /\ pc[t] \in FlagPcs
    BY <1>4 DEF HolderStep, SendPost, HandleStep, SendPrepare, WSASendPosted, WSASendFails,
       SendFailDec, SendDone, FlagPcs
  <2>1. cur[t] \in Sessions /\ sendFlag' = sendFlag
    BY <1>4, <1>a, <2>0
       DEF SendPrepare, WSASendPosted, WSASendFails, SendFailDec, SendDone, sendVars
  <2>2. pc'[t] \in FlagPcs =>
          sendIO'[cur[t]] = IF pc'[t] \in {"wsaSend", "failDec"} THEN "posting" ELSE "none"
    <3>1. sendIO[cur[t]] = IF pc[t] \in {"wsaSend", "failDec"} THEN "posting" ELSE "none"
      BY <1>d, <2>0
    <3> QED
      BY <1>0, <1>4, <2>1, <3>1
         DEF SendPrepare, WSASendPosted, WSASendFails, SendFailDec, SendDone, Shape,
         Goto, FlagPcs, AfterSend, ioVars
  <2> QED
    BY <1>c, <1>d, <2>0, <2>1, <2>2
<1>5. ASSUME NEW t \in Threads,
             \/ t = Acceptor /\ OnAccept
             \/ ProcessMessage(t) \/ ProcessEnd(t) \/ Unref(t) \/ RecvStep(t)
      PROVE SendExclusive'
  <2>1. HolderStep(t)
    BY <1>5 DEF HolderStep, HandleStep
  <2>2. UNCHANGED <<sendFlag, sendIO>> /\ pc'[t] \notin FlagPcs
    BY <1>0, <1>5 DEF OnAccept, ProcessMessage, ProcessEnd, Unref, RecvStep, RecvPost,
       WSARecvPosted, WSARecvFails, RecvFail, Shape, Goto, FlagPcs, sendVars, ioVars
  <2> QED
    BY <1>0, <1>b, <2>1, <2>2, HolderFrame
<1>6. ASSUME \E t \in Threads : IODecrement(t) \/ Release(t) \/ DequeueNull(t)
      PROVE SendExclusive'
  BY <1>0, <1>6, <1>b DEF IODecrement, Release, ReleaseDrain, ReleaseClose, ReleasePush,
     DequeueNull, Goto, GoHome, Shape, FlagPcs, threadVars, sendVars, ioVars
<1>7. ASSUME NEW t \in Threads, NEW q \in Sessions, DequeueRecv(t, q) PROVE SendExclusive'
  BY <1>0, <1>7, <1>b DEF DequeueRecv, Goto, Shape, FlagPcs, sendVars
\* the send was outstanding: nobody but it owned the flag
<1>8. ASSUME NEW t \in Threads, NEW q \in Sessions, DequeueSend(t, q) PROVE SendExclusive'
  <2>1. \A u \in Threads : u # t => pc'[u] = pc[u] /\ cur'[u] = cur[u]
    BY <1>0, <1>8 DEF DequeueSend, Goto, Shape
  <2>2. pc'[t] \in {"ioDec", "sendDone"} /\ cur'[t] = q /\ sendIO' = [sendIO EXCEPT ![q] = "none"]
        /\ sendFlag' = sendFlag
    BY <1>0, <1>8 DEF DequeueSend, Goto, Shape, sendVars
  <2>3. sendIO[q] = "done"
    BY <1>8 DEF DequeueSend
  <2>4. sendFlag[q] = 1 /\ \A u \in Threads : pc[u] \in FlagPcs => cur[u] # q
    BY <1>0, <2>3 DEF SendExclusive
  <2>5. sendIO'[q] = "none" /\ \A s \in Sessions : s # q => sendIO'[s] = sendIO[s]
    BY <1>0, <2>2 DEF Shape
  <2> QED
    BY <1>0, <1>a, <2>1, <2>2, <2>4, <2>5 DEF SendExclusive
<1>9. ASSUME (\E c \in Conns : Accept(c)) \/ AcceptFails \/ AcceptEnd PROVE SendExclusive'
  BY <1>0, <1>9, <1>b DEF Accept, AcceptFails, AcceptEnd, Goto, Shape, FlagPcs, sendVars, ioVars
\* the slot was idle: nobody owned its flag
<1>10. CASE InitSession
  <2>1. /\ UNCHANGED <<sendIO, cur>> /\ pc[Acceptor] = "init" /\ pc'[Acceptor] = "onAccept"
        /\ \A u \in Threads : u # Acceptor => pc'[u] = pc[u]
        /\ sendFlag' = [sendFlag EXCEPT ![cur[Acceptor]] = 0]
    BY <1>0, <1>10 DEF InitSession, ioVars, Goto, Shape
  <2>2. Idle(cur[Acceptor])
    BY <1>0, <2>1 DEF SlotLife, Shape
  <2>3. /\ sendIO[cur[Acceptor]] = "none"
        /\ \A u \in Threads : pc[u] \in FlagPcs => cur[u] # cur[Acceptor]
    BY <1>a, <2>2 DEF Idle
  <2>4. \A s \in Sessions : s # cur[Acceptor] => sendFlag'[s] = sendFlag[s]
    BY <1>0, <2>1 DEF Shape
  <2>5. \A u \in Threads : pc'[u] \in FlagPcs => u # Acceptor /\ pc[u] \in FlagPcs /\ pc'[u] = pc[u]
    BY <2>1 DEF FlagPcs
  <2> QED
    BY <1>0, <1>a, <2>1, <2>3, <2>4, <2>5 DEF SendExclusive
<1>11. CASE OutsideStep
  <2>1. UNCHANGED <<pc, cur, sendFlag>>
    BY <1>0, <1>11, OutsideFrame
  <2>2. \A s \in Sessions : /\ sendIO[s] \in {"none", "posting"} => sendIO'[s] = sendIO[s]
                            /\ sendIO'[s] # "none" => sendIO[s] # "none"
    BY <1>0, <1>11, OutsideFrame
  <2> QED
    BY <1>0, <1>a, <2>1, <2>2 DEF SendExclusive
<1>12. CASE UNCHANGED vars
  BY <1>0, <1>12, <1>b DEF vars, threadVars, ioVars, sendVars
<1> QED
  BY <1>1, <1>2, <1>3, <1>4, <1>5, <1>6, <1>7, <1>8, <1>9, <1>10, <1>11, <1>12, NextSplit
     DEF HolderStep, SendPost, HandleStep

(***************************************************************************)
(* SendSizeOK                                                              *)
(***************************************************************************)
LEMMA SizeStep ==
  ASSUME IInv, [Next]_vars
  PROVE  SendSizeOK'
<1>0. Shape /\ CurOK /\ SendExclusive /\ SendSizeOK
  BY TypeShape DEF IInv
<1>1. sendArr \in [Sessions -> Seq(Int)] /\ sendCount \in [Sessions -> Nat]
  BY DEF IInv, TypeOK
<1>2. \A s \in Sessions : Len(sendArr[s]) \in Nat
  BY <1>1
\* nothing new is sent, and a count is kept or reset
<1>a. ASSUME sendArr' = sendArr,
             \A s \in Sessions : sendCount'[s] = sendCount[s] \/ sendCount'[s] = 0,
             \A u \in Threads : pc'[u] = "wsaSend" => pc[u] = "wsaSend" /\ cur'[u] = cur[u],
             \A s \in Sessions : sendIO'[s] = "pending" => sendIO[s] = "pending"
      PROVE  SendSizeOK'
  <2>1. \A u \in Threads : pc[u] = "wsaSend" => cur[u] \in Sessions
    BY <1>0 DEF CurOK, SlotPcs, RefPcs, SendPcs
  <2> QED
    BY <1>0, <1>2, <1>a, <2>1 DEF SendSizeOK
<1> USE DEF Shape, Goto, GoHome, threadVars, sendVars, ioVars
<1>3. ASSUME NEW t \in Threads,
             \/ SendSize1(t) \/ SendSize2(t) \/ SendSize3(t) \/ SendSize4(t)
             \/ SendXchg1(t) \/ SendXchg2(t) \/ SendClear1(t) \/ SendClear2(t) \/ SendFailClear(t)
             \/ WSASendFails(t) \/ SendFailDec(t)
      PROVE SendSizeOK'
  BY <1>0, <1>a, <1>3
     DEF SendSize1, SendSize2, SendSize3, SendSize4, SizeTest, SendXchg1, SendXchg2,
     FlagXchg, SendClear1, SendClear2, SendFailClear, FlagReset, WSASendFails, SendFailDec, AfterSend
\* the array is rewritten by the owner of the flag, while nothing is sent
<1>4. ASSUME NEW t \in Threads, SendGather(t) PROVE SendSizeOK'
  <2>1. pc[t] \in FlagPcs /\ pc[t] = "gather" /\ cur[t] \in Sessions
    BY <1>0, <1>4 DEF SendGather, FlagPcs, CurOK, SlotPcs, RefPcs, SendPcs
  <2>2. /\ sendIO[cur[t]] = "none"
        /\ \A u \in Threads : pc[u] = "wsaSend" => cur[u] # cur[t] /\ cur[u] \in Sessions
    BY <1>0, <2>1 DEF SendExclusive, FlagPcs, CurOK, SlotPcs, RefPcs, SendPcs
  <2>3. /\ UNCHANGED <<sendIO, sendCount, cur>>
        /\ \A s \in Sessions : s # cur[t] => sendArr'[s] = sendArr[s]
        /\ \A u \in Threads : pc'[u] = "wsaSend" => pc[u] = "wsaSend"
    BY <1>0, <1>1, <1>4 DEF SendGather
  <2> QED
    BY <1>0, <2>2, <2>3 DEF SendSizeOK
<1>5. ASSUME NEW t \in Threads, SendPrepare(t) PROVE SendSizeOK'
  <2>1. pc[t] \in FlagPcs /\ pc[t] = "post" /\ cur[t] \in Sessions
    BY <1>0, <1>5 DEF SendPrepare, FlagPcs, CurOK, SlotPcs, RefPcs, SendPcs
  <2>2. /\ sendIO[cur[t]] = "none"
        /\ \A u \in Threads : pc[u] = "wsaSend" => cur[u] # cur[t] /\ cur[u] \in Sessions
    BY <1>0, <2>1 DEF SendExclusive, FlagPcs, CurOK, SlotPcs, RefPcs, SendPcs
  <2>3. /\ UNCHANGED <<sendArr, cur>>
        /\ \A s \in Sessions : s # cur[t] => sendCount'[s] = sendCount[s] /\ sendIO'[s] = sendIO[s]
        /\ sendIO'[cur[t]] = "posting"
        /\ \A u \in Threads : pc'[u] = "wsaSend" => u = t \/ pc[u] = "wsaSend"
        /\ pc'[t] = "wsaSend" => sendCount'[cur[t]] = Len(sendArr[cur[t]])
    BY <1>0, <1>1, <1>5, <2>1 DEF SendPrepare
  <2>4. pc'[t] = "wsaSend" => sendCount'[cur'[t]] <= Len(sendArr'[cur'[t]])
    BY <1>2, <2>1, <2>3
  <2>5. \A u \in Threads : u # t /\ pc'[u] = "wsaSend" =>
          sendCount'[cur'[u]] <= Len(sendArr'[cur'[u]])
    BY <1>0, <2>2, <2>3 DEF SendSizeOK
  <2>6. \A s \in Sessions : sendIO'[s] = "pending" => sendCount'[s] <= Len(sendArr'[s])
    BY <1>0, <2>3 DEF SendSizeOK
  <2> QED
    BY <2>4, <2>5, <2>6 DEF SendSizeOK
<1>6. ASSUME NEW t \in Threads, WSASendPosted(t) PROVE SendSizeOK'
  <2>1. pc[t] = "wsaSend" /\ cur[t] \in Sessions
    BY <1>0, <1>6 DEF WSASendPosted, CurOK, SlotPcs, RefPcs, SendPcs
  <2>2. /\ UNCHANGED <<sendArr, sendCount, cur>>
        /\ \A s \in Sessions : s # cur[t] => sendIO'[s] = sendIO[s]
        /\ \A u \in Threads : pc'[u] = "wsaSend" => pc[u] = "wsaSend"
    BY <1>0, <1>6 DEF WSASendPosted, AfterSend
  <2> QED
    BY <1>0, <2>1, <2>2 DEF SendSizeOK
<1>7. ASSUME NEW t \in Threads, RecvStep(t) \/ HandleStep(t) PROVE SendSizeOK'
  <2>1. cur[t] \in Sessions
    <3>1. HolderStep(t)
      BY <1>7 DEF HolderStep
    <3> QED
      BY <1>0, <3>1, HolderFrame DEF CurOK, SlotPcs
  <2> QED
    BY <1>0, <1>1, <1>a, <1>7, <2>1
       DEF RecvStep, RecvPost, WSARecvPosted, WSARecvFails, RecvFail, HandleStep,
     OnAccept, SendDone, FlagClear, ProcessMessage, ProcessEnd, Unref
<1>8. ASSUME NEW t \in Threads, IODecrement(t) \/ Release(t) \/ DequeueNull(t) PROVE SendSizeOK'
  BY <1>0, <1>1, <1>a, <1>8
     DEF IODecrement, Release, ReleaseDrain, ReleaseClose, ReleasePush, DequeueNull
<1>9. ASSUME NEW t \in Threads, NEW q \in Sessions, DequeueRecv(t, q) \/ DequeueSend(t, q)
      PROVE SendSizeOK'
  BY <1>0, <1>a, <1>9 DEF DequeueRecv, DequeueSend
<1>10. ASSUME (\E c \in Conns : Accept(c)) \/ AcceptFails \/ InitSession \/ AcceptEnd
       PROVE SendSizeOK'
  BY <1>0, <1>1, <1>a, <1>10 DEF Accept, AcceptFails, InitSession, AcceptEnd
<1>11. CASE OutsideStep
  BY <1>0, <1>a, <1>11, OutsideFrame
<1>12. CASE UNCHANGED vars
  BY <1>a, <1>12 DEF vars
<1> QED
  BY <1>3, <1>4, <1>5, <1>6, <1>7, <1>8, <1>9, <1>10, <1>11, <1>12, NextSplit
     DEF HolderStep, SendPost

(***************************************************************************)
(* ConnOK                                                                  *)
(***************************************************************************)
LEMMA ConnStep ==
  ASSUME IInv, [Next]_vars
  PROVE  ConnOK'
<1>0. Shape /\ CurOK /\ ConnOK
  BY TypeShape DEF IInv
<1>1. toBeDeleted \in [Sessions -> Conns \cup {Garbage}]
  BY DEF IInv, TypeOK
\* slots keep their connections, and only referred ones are referred to
<1>a. ASSUME toBeDeleted' = toBeDeleted,
             \A u \in Threads : pc'[u] \in SlotPcs =>
               toBeDeleted[cur'[u]] \in Conns,
             \A s \in Sessions :
               recvIO'[s] # "none" \/ sendIO'[s] # "none" => toBeDeleted[s] \in Conns
      PROVE  ConnOK'
  BY <1>a DEF ConnOK
<1>2. ASSUME NEW t \in Threads, HolderStep(t) PROVE ConnOK'
  <2>1. /\ pc[t] \in SlotPcs /\ pc'[t] \in SlotPcs /\ cur' = cur
        /\ \A u \in Threads : u # t => pc'[u] = pc[u]
        /\ \A s \in Sessions : s # cur[t] => recvIO'[s] = recvIO[s] /\ sendIO'[s] = sendIO[s]
    BY <1>0, <1>2, HolderFrame DEF SlotPcs
  <2>2. toBeDeleted' = toBeDeleted
    <3>1. CASE SendPost(t)
      BY <3>1
         DEF SendPost, SendSize1, SendSize2, SendSize3, SendSize4, SizeTest, SendXchg1, SendXchg2,
         FlagXchg, SendClear1, SendClear2, SendFailClear, FlagReset, SendGather, SendPrepare,
         WSASendPosted, WSASendFails, SendFailDec, sockVars
    <3>2. CASE RecvStep(t) \/ HandleStep(t)
      BY <3>2 DEF RecvStep, RecvPost, WSARecvPosted, WSARecvFails, RecvFail, HandleStep,
         OnAccept, SendDone, FlagClear, ProcessMessage, ProcessEnd, Unref, sockVars
    <3> QED
      BY <1>2, <3>1, <3>2 DEF HolderStep
  <2>3. toBeDeleted[cur[t]] \in Conns
    BY <1>0, <2>1 DEF ConnOK
  <2>4. \A s \in Sessions :
          recvIO'[s] # "none" \/ sendIO'[s] # "none" => toBeDeleted[s] \in Conns
    <3> SUFFICES ASSUME NEW s \in Sessions, recvIO'[s] # "none" \/ sendIO'[s] # "none"
                 PROVE  toBeDeleted[s] \in Conns
      OBVIOUS
    <3>1. CASE s = cur[t]
      BY <2>3, <3>1
    <3>2. CASE s # cur[t]
      <4>1. recvIO[s] # "none" \/ sendIO[s] # "none"
        BY <2>1, <3>2
      <4> QED
        BY <1>0, <4>1 DEF ConnOK
    <3> QED
      BY <3>1, <3>2
  <2>5. \A u \in Threads : pc'[u] \in SlotPcs => toBeDeleted[cur'[u]] \in Conns
    BY <1>0, <2>1 DEF ConnOK
  <2> QED
    BY <1>a, <2>2, <2>4, <2>5
<1>3. ASSUME NEW t \in Threads, IODecrement(t) \/ Release(t) \/ DequeueNull(t) PROVE ConnOK'
  <2>1. UNCHANGED <<toBeDeleted, recvIO, sendIO>>
    BY <1>3
       DEF IODecrement, Release, ReleaseDrain, ReleaseClose, ReleasePush, DequeueNull, ioVars, sockVars
  <2>2. \A u \in Threads : pc'[u] \in SlotPcs => pc[u] \in SlotPcs /\ cur'[u] = cur[u]
    BY <1>0, <1>3
       DEF IODecrement, Release, ReleaseDrain, ReleaseClose, ReleasePush, DequeueNull, Shape,
       Goto, GoHome, SlotPcs, RefPcs, SendPcs, ReleasePcs
  <2> QED
    BY <1>0, <1>a, <2>1, <2>2 DEF ConnOK
<1>4. ASSUME NEW t \in Threads, NEW q \in Sessions, DequeueRecv(t, q) \/ DequeueSend(t, q)
      PROVE ConnOK'
  <2>1. toBeDeleted' = toBeDeleted /\ toBeDeleted[q] \in Conns
    BY <1>0, <1>4 DEF DequeueRecv, DequeueSend, ConnOK, sockVars
  <2>2. \A s \in Sessions : /\ recvIO'[s] # "none" => recvIO[s] # "none"
                            /\ sendIO'[s] # "none" => sendIO[s] # "none"
    BY <1>0, <1>4 DEF DequeueRecv, DequeueSend, Shape
  <2>3. \A u \in Threads : IF u = t THEN cur'[u] = q ELSE pc'[u] = pc[u] /\ cur'[u] = cur[u]
    BY <1>0, <1>4 DEF DequeueRecv, DequeueSend, Shape, Goto
  <2> QED
    BY <1>0, <1>a, <2>1, <2>2, <2>3 DEF ConnOK
<1>5. ASSUME NEW c \in Conns, Accept(c) PROVE ConnOK'
  <2>1. UNCHANGED <<recvIO, sendIO>>
    BY <1>5 DEF Accept, ioVars
  <2>2. \A s \in Sessions : toBeDeleted[s] \in Conns => toBeDeleted'[s] \in Conns
    BY <1>1, <1>5 DEF Accept
  <2>3. \A u \in Threads : u # Acceptor => pc'[u] = pc[u] /\ cur'[u] = cur[u]
    BY <1>0, <1>5 DEF Accept, Goto, Shape
  <2>4. pc'[Acceptor] \in SlotPcs => toBeDeleted'[cur'[Acceptor]] \in Conns
    <3> SUFFICES ASSUME pc'[Acceptor] \in SlotPcs PROVE toBeDeleted'[cur'[Acceptor]] \in Conns
      OBVIOUS
    <3>1. freeStack # <<>> /\ pc'[Acceptor] = "init"
      BY <1>0, <1>5 DEF Accept, Goto, Shape, SlotPcs, RefPcs, SendPcs, ReleasePcs
    <3>2. freeStack[Len(freeStack)] \in Sessions
      BY <3>1 DEF IInv, TypeOK
    <3> QED
      BY <1>0, <1>1, <1>5, <3>1, <3>2 DEF Accept, Goto, Shape
  <2>5. \A u \in Threads : pc[u] \in SlotPcs => cur[u] \in Sessions
    BY <1>0 DEF CurOK
  <2> QED
    BY <1>0, <2>1, <2>2, <2>3, <2>4, <2>5 DEF ConnOK
<1>6. CASE AcceptFails \/ InitSession \/ AcceptEnd
  <2>1. UNCHANGED <<toBeDeleted, recvIO, sendIO, cur>>
    BY <1>6 DEF AcceptFails, InitSession, AcceptEnd, sockVars, ioVars
  <2>2. \A u \in Threads : pc'[u] \in SlotPcs => pc[u] \in SlotPcs
    BY <1>0, <1>6
       DEF AcceptFails, InitSession, AcceptEnd, Shape, Goto, SlotPcs, RefPcs, SendPcs, ReleasePcs
  <2> QED
    BY <1>0, <1>a, <2>1, <2>2 DEF ConnOK
<1>7. CASE OutsideStep
  <2>1. toBeDeleted' = toBeDeleted
    BY <1>7 DEF OutsideStep, ClientStep, ClientClose, ClientReset, KernelStep, KernelCompletes,
       RecvArrives, RecvEnds, SendCompletes, SendAborts, CallStop, CallDisconnect, MainStep, MainCheck,
       MainInvalidate, MainCancel, StopPost, StopJoined, sockVars
  <2> QED
    BY <1>0, <1>7, <1>a, <2>1, OutsideFrame DEF ConnOK
<1>8. CASE UNCHANGED vars
  BY <1>0, <1>8 DEF vars, threadVars, sockVars, ioVars, ConnOK
<1> QED
  BY <1>2, <1>3, <1>4, <1>5, <1>6, <1>7, <1>8, NextSplit

(***************************************************************************)
(* TypeOK                                                                  *)
(***************************************************************************)
LEMMA CopiesNat ==
  ASSUME NEW q, NEW n \in Nat, DOMAIN q = 1 .. n, NEW p
  PROVE  Copies(q, p) \in Nat
<1>1. IsFiniteSet(1 .. n)
  BY FS_Interval
<1>2. IsFiniteSet({i \in DOMAIN q : q[i] = p})
  BY <1>1, FS_Subset
<1> QED
  BY <1>2, FS_CardinalityType DEF Copies

LEMMA ReleaseType ==
  ASSUME refCount \in [Conns -> [Packets -> Int]],
         NEW c, NEW q, NEW n \in Nat, DOMAIN q = 1 .. n, ReleaseAll(c, q)
  PROVE  refCount' \in [Conns -> [Packets -> Int]]
<1>1. \A p \in Packets : Copies(q, p) \in Nat
  BY CopiesNat
<1> DEFINE left == [p \in Packets |-> refCount[c][p] - Copies(q, p)]
<1>2. c \in Conns => left \in [Packets -> Int]
  BY <1>1
<1>3. refCount' = [refCount EXCEPT ![c] = left]
  BY DEF ReleaseAll
<1> HIDE DEF left
<1> QED
  BY <1>2, <1>3

LEMMA ConcatDomain ==
  ASSUME NEW S, NEW a \in Seq(S), NEW b \in Seq(S)
  PROVE  DOMAIN (a \o b) = 1 .. Len(a) + Len(b)
<1>1. a \o b \in Seq(S) /\ Len(a \o b) = Len(a) + Len(b)
  OBVIOUS
<1> QED
  BY <1>1

LEMMA PrefixDomain ==
  ASSUME NEW q, NEW n \in Nat
  PROVE  DOMAIN Prefix(q, n) = 1 .. n
BY DEF Prefix

LEMMA Update ==
  ASSUME NEW A, NEW B, NEW f \in [A -> B], NEW x, NEW v, x \in A => v \in B
  PROVE  [f EXCEPT ![x] = v] \in [A -> B]
OBVIOUS

\* TypeOK, by the part of the state
ThreadTypes ==
  /\ pc \in [Threads -> Pcs]
  /\ cur \in [Threads -> Sessions \cup {None}]
  /\ op \in [Threads -> {"none", "accept", "recv", "send"}]
  /\ batch \in [Threads -> Nat]
ServerTypes ==
  /\ freeStack \in Seq(Sessions) /\ listening \in BOOLEAN
  /\ sessionCount \in Int /\ acceptCount \in Int
  /\ acceptTotal \in Nat /\ disconnectTotal \in Nat
SlotTypes ==
  /\ sock \in [Sessions -> Conns \cup {None, Garbage}]
  /\ toBeDeleted \in [Sessions -> Conns \cup {Garbage}]
  /\ invalidFlag \in [Sessions -> {-1, 0, 1}]
  /\ ioCount \in [Sessions -> Int]
SendTypes ==
  /\ sendFlag \in [Sessions -> {0, 1}]
  /\ sendCount \in [Sessions -> Nat]
  /\ sendBuf \in [Sessions -> Seq(Int)] /\ sendArr \in [Sessions -> Seq(Int)]
RefTypes == refCount \in [Conns -> [Packets -> Int]]
IOTypes ==
  /\ recvIO \in [Sessions -> IOStates] /\ sendIO \in [Sessions -> IOStates]
  /\ recvLen \in [Sessions -> Nat] /\ sendLen \in [Sessions -> Nat]
NetTypes ==
  /\ conn \in [Conns -> {"new", "open", "fin", "reset", "closed"}]
  /\ arrived \in [Conns -> 0 .. MaxMsg] /\ nulls \in Nat
  /\ echoed \in [Conns -> Seq(Int)] /\ sendFailed \in [Conns -> BOOLEAN]
MainTypes ==
  /\ mainPc \in {"idle", "stopCheck", "stopInvalidate", "stopCancel", "stopPost",
                 "join", "stopped", "discCheck", "discInvalidate", "discCancel"}
  /\ mainIdx \in Sessions

LEMMA TypeParts ==
  /\ TypeOK <=> /\ ThreadTypes /\ ServerTypes /\ SlotTypes /\ SendTypes
                /\ RefTypes /\ IOTypes /\ NetTypes /\ MainTypes
  /\ TypeOK' <=> /\ ThreadTypes' /\ ServerTypes' /\ SlotTypes' /\ SendTypes'
                 /\ RefTypes' /\ IOTypes' /\ NetTypes' /\ MainTypes'
BY DEF TypeOK, ThreadTypes, ServerTypes, SlotTypes, SendTypes, RefTypes, IOTypes, NetTypes, MainTypes, IOStates

LEMMA MainTypesStep ==
  ASSUME MainTypes, [Next]_vars
  PROVE  MainTypes'
<1>0. 0 \in Sessions /\ \A i \in Sessions : i + 1 < SessionMax => i + 1 \in Sessions
  BY ConstantsAssumption DEF Sessions
<1>1. CASE CallStop \/ (\E s \in Sessions : CallDisconnect(s)) \/ MainStep
  BY <1>0, <1>1 DEF MainTypes, CallStop, CallDisconnect, MainStep, MainCheck, MainInvalidate,
     MainCancel, SessionDone, StopPost, StopJoined
<1>2. ASSUME NEW t \in Threads, HolderStep(t) PROVE UNCHANGED mainVars
  BY <1>2 DEF HolderStep, SendPost, SendSize1, SendSize2, SendSize3, SendSize4, SizeTest,
     SendXchg1, SendXchg2, FlagXchg, SendClear1, SendClear2, SendFailClear, FlagReset, SendGather,
     SendPrepare, WSASendPosted, WSASendFails, SendFailDec,
     RecvStep, RecvPost, WSARecvPosted, WSARecvFails, RecvFail,
     HandleStep, OnAccept, SendDone, FlagClear, ProcessMessage, ProcessEnd, Unref
<1>3. CASE OutsideStep /\ ~(CallStop \/ (\E s \in Sessions : CallDisconnect(s)) \/ MainStep)
  BY <1>3
     DEF OutsideStep, ClientStep, ClientClose, ClientReset, KernelStep, KernelCompletes, RecvArrives,
     RecvEnds, SendCompletes, SendAborts, MainTypes, mainVars
<1>4. CASE \/ \E t \in Threads : IODecrement(t) \/ Release(t) \/ DequeueNull(t)
           \/ \E t \in Threads, s \in Sessions : DequeueRecv(t, s) \/ DequeueSend(t, s)
           \/ \E c \in Conns : Accept(c)
           \/ AcceptFails \/ InitSession \/ AcceptEnd
  BY <1>4
     DEF IODecrement, Release, ReleaseDrain, ReleaseClose, ReleasePush, DequeueRecv, DequeueSend,
     DequeueNull, Accept, AcceptFails, InitSession, AcceptEnd, MainTypes, mainVars
<1>5. CASE UNCHANGED vars
  BY <1>5 DEF vars, MainTypes, mainVars
<1> QED
  BY <1>1, <1>2, <1>3, <1>4, <1>5, NextSplit DEF MainTypes, mainVars

LEMMA NetTypesStep ==
  ASSUME NetTypes, SendTypes, SendSizeOK, [Next]_vars
  PROVE  NetTypes'
<1>0. Cardinality(Workers) \in Nat /\ MaxMsg \in Nat
  BY ConstantsAssumption, FS_CardinalityType
<1>1. ASSUME NEW c \in Conns, ClientClose(c) \/ ClientReset(c) \/ Accept(c) PROVE NetTypes'
  BY <1>1 DEF NetTypes, ClientClose, ClientReset, Accept
<1>2. ASSUME NEW s \in Sessions, NEW k \in 1 .. MaxMsg, RecvArrives(s, k) PROVE NetTypes'
  <2>0. PICK c : c = toBeDeleted[s]
    OBVIOUS
  <2>1. c \in Conns => arrived[c] + k \in 0 .. MaxMsg
    BY <1>0, <1>2, <2>0 DEF NetTypes, RecvArrives
  <2>2. arrived' = [arrived EXCEPT ![c] = arrived[c] + k]
    BY <1>2, <2>0 DEF RecvArrives
  <2>3. arrived' \in [Conns -> 0 .. MaxMsg]
    BY <2>1, <2>2, Update DEF NetTypes
  <2> QED
    BY <1>2, <2>3 DEF NetTypes, RecvArrives
<1>3. ASSUME NEW s \in Sessions, SendCompletes(s) PROVE NetTypes'
  <2>1. Prefix(sendArr[s], sendCount[s]) \in Seq(Int)
    BY <1>3 DEF SendCompletes, SendSizeOK, SendTypes, Prefix
  <2>2. \A c \in Conns : echoed[c] \o Prefix(sendArr[s], sendCount[s]) \in Seq(Int)
    BY <2>1 DEF NetTypes
  <2>3. echoed' = [echoed EXCEPT ![toBeDeleted[s]] =
                     echoed[toBeDeleted[s]] \o Prefix(sendArr[s], sendCount[s])]
    BY <1>3 DEF SendCompletes
  <2>4. echoed' \in [Conns -> Seq(Int)]
    BY <2>2, <2>3, Update DEF NetTypes
  <2> QED
    BY <1>3, <2>4 DEF NetTypes, SendCompletes
<1>4. ASSUME NEW t \in Threads, DequeueNull(t) \/ ReleaseClose(t) \/ WSASendFails(t) PROVE NetTypes'
  <2>1. CASE DequeueNull(t)
    BY <2>1 DEF NetTypes, DequeueNull
  <2>2. CASE ReleaseClose(t)
    BY <2>2 DEF NetTypes, ReleaseClose
  <2>3. CASE WSASendFails(t)
    BY <2>3 DEF NetTypes, WSASendFails
  <2> QED
    BY <1>4, <2>1, <2>2, <2>3
<1>5. CASE StopPost
  BY <1>0, <1>5 DEF NetTypes, StopPost
<1>6. ASSUME NEW t \in Threads, HolderStep(t), ~WSASendFails(t) PROVE UNCHANGED netVars
  BY <1>6 DEF HolderStep, SendPost, SendSize1, SendSize2, SendSize3, SendSize4, SizeTest,
     SendXchg1, SendXchg2, FlagXchg, SendClear1, SendClear2, SendFailClear, FlagReset, SendGather,
     SendPrepare, WSASendPosted, WSASendFails, SendFailDec,
     RecvStep, RecvPost, WSARecvPosted, WSARecvFails, RecvFail,
     HandleStep, OnAccept, SendDone, FlagClear, ProcessMessage, ProcessEnd, Unref
<1>7. ASSUME NEW s \in Sessions,
             \/ RecvEnds(s) \/ SendAborts(s) \/ CallDisconnect(s) \/ CallStop
             \/ MainStep /\ ~StopPost
      PROVE  UNCHANGED netVars
  BY <1>7 DEF RecvEnds, SendAborts, CallStop, CallDisconnect, MainStep, MainCheck,
     MainInvalidate, MainCancel, StopJoined
<1>8. ASSUME NEW t \in Threads, NEW s \in Sessions,
             \/ IODecrement(t) \/ ReleaseDrain(t) \/ ReleasePush(t)
             \/ DequeueRecv(t, s) \/ DequeueSend(t, s)
             \/ AcceptFails \/ InitSession \/ AcceptEnd
      PROVE  UNCHANGED netVars
  BY <1>8 DEF IODecrement, ReleaseDrain, ReleasePush, DequeueRecv, DequeueSend,
     AcceptFails, InitSession, AcceptEnd
<1>9. UNCHANGED vars => UNCHANGED netVars
  BY DEF vars
<1>10. CASE UNCHANGED netVars
  BY <1>10 DEF NetTypes, netVars
<1>11. 0 \in Sessions /\ Acceptor \in Threads
  BY ConstantsAssumption DEF Sessions, Threads
<1> QED
  BY <1>1, <1>2, <1>3, <1>4, <1>5, <1>6, <1>7, <1>8, <1>9, <1>10, <1>11, NextSplit
     DEF vars, Release, OutsideStep, ClientStep, KernelStep, KernelCompletes

LEMMA IOTypesStep ==
  ASSUME IOTypes, SendTypes, [Next]_vars
  PROVE  IOTypes'
<1> USE DEF IOTypes, IOStates
<1>1. ASSUME NEW t \in Threads, HolderStep(t) PROVE IOTypes'
  BY <1>1 DEF HolderStep, ioVars,
     SendPost, SendSize1, SendSize2, SendSize3, SendSize4, SizeTest,
     SendXchg1, SendXchg2, FlagXchg, SendClear1, SendClear2, SendFailClear, FlagReset, SendGather,
     SendPrepare, WSASendPosted, WSASendFails, SendFailDec,
     RecvStep, RecvPost, WSARecvPosted, WSARecvFails, RecvFail,
     HandleStep, OnAccept, SendDone, FlagClear, ProcessMessage, ProcessEnd, Unref
<1>2. ASSUME NEW t \in Threads, NEW s \in Sessions, DequeueRecv(t, s) \/ DequeueSend(t, s)
      PROVE  IOTypes'
  BY <1>2 DEF DequeueRecv, DequeueSend
<1>3. CASE \/ \E t \in Threads : IODecrement(t) \/ Release(t) \/ DequeueNull(t)
           \/ \E c \in Conns : Accept(c)
           \/ AcceptFails \/ InitSession \/ AcceptEnd
  BY <1>3 DEF ioVars, IODecrement, Release, ReleaseDrain, ReleaseClose, ReleasePush, DequeueNull,
     Accept, AcceptFails, InitSession, AcceptEnd
<1>4. ASSUME NEW s \in Sessions, NEW k \in 1 .. MaxMsg, MaxMsg \in Nat, RecvArrives(s, k) PROVE IOTypes'
  BY <1>4 DEF RecvArrives
<1>5. ASSUME NEW s \in Sessions, KernelCompletes(s) PROVE IOTypes'
  BY <1>5, ZenonT(60) DEF KernelCompletes, RecvEnds, SendCompletes, SendAborts, SendTypes
<1>6. CASE MainCancel
  BY <1>6 DEF MainCancel
<1>7. CASE \/ ClientStep \/ CallStop \/ (\E s \in Sessions : CallDisconnect(s))
           \/ MainStep /\ ~MainCancel
  BY <1>7 DEF ioVars, ClientStep, ClientClose, ClientReset, CallStop, CallDisconnect,
     MainStep, MainCheck, MainInvalidate, StopPost, StopJoined
<1>8. CASE UNCHANGED vars
  BY <1>8 DEF vars, ioVars
<1> HIDE DEF IOTypes, IOStates
<1> QED
  BY <1>1, <1>2, <1>3, <1>4, <1>5, <1>6, <1>7, <1>8, NextSplit, ConstantsAssumption
     DEF OutsideStep, KernelStep

LEMMA SendTypesStep ==
  ASSUME SendTypes, NetTypes, ThreadTypes, CurOK, ConnOK, [Next]_vars
  PROVE  SendTypes'
<1> USE DEF SendTypes
<1>1. ASSUME NEW t \in Threads, SendXchg1(t) \/ SendXchg2(t) PROVE SendTypes'
  BY <1>1 DEF SendXchg1, SendXchg2, FlagXchg
<1>2. ASSUME NEW t \in Threads,
             SendClear1(t) \/ SendClear2(t) \/ SendFailClear(t) \/ FlagClear(t) \/ InitSession
      PROVE  SendTypes'
  <2>1. CASE SendClear1(t) \/ SendClear2(t) \/ SendFailClear(t) \/ FlagClear(t)
    BY <2>1 DEF SendClear1, SendClear2, SendFailClear, FlagReset, FlagClear
  <2>2. CASE InitSession
    BY <2>2 DEF InitSession
  <2> QED
    BY <1>2, <2>1, <2>2
<1>3. ASSUME NEW t \in Threads, SendGather(t) PROVE SendTypes'
  <2>0. PICK q : q = cur[t]
    OBVIOUS
  <2> DEFINE n == Smaller(MaxSend, Len(sendBuf[q]))
  <2>1. ASSUME q \in Sessions
        PROVE  /\ Prefix(sendBuf[q], n) \in Seq(Int)
               /\ SubSeq(sendBuf[q], n + 1, Len(sendBuf[q])) \in Seq(Int)
    <3>1. sendBuf[q] \in Seq(Int) /\ n \in 0 .. Len(sendBuf[q])
      BY <2>1, ConstantsAssumption DEF Smaller
    <3> HIDE DEF n
    <3> QED
      BY <3>1 DEF Prefix
  <2>2. /\ sendArr' = [sendArr EXCEPT ![q] = Prefix(sendBuf[q], n)]
        /\ sendBuf' = [sendBuf EXCEPT ![q] = SubSeq(sendBuf[q], n + 1, Len(sendBuf[q]))]
        /\ UNCHANGED <<sendFlag, sendCount>>
    BY <1>3, <2>0 DEF SendGather
  <2> HIDE DEF n
  <2>3. sendArr' \in [Sessions -> Seq(Int)] /\ sendBuf' \in [Sessions -> Seq(Int)]
    BY <2>1, <2>2, Update
  <2> QED
    BY <2>2, <2>3
<1>4. ASSUME NEW t \in Threads, SendPrepare(t) \/ SendDone(t) PROVE SendTypes'
  BY <1>4 DEF SendPrepare, SendDone
<1>5. ASSUME NEW t \in Threads, ReleaseDrain(t) PROVE SendTypes'
  <2>1. sendBuf' \in [Sessions -> Seq(Int)] /\ sendCount' \in [Sessions -> Nat]
    BY <1>5, Update DEF ReleaseDrain
  <2> QED
    BY <1>5, <2>1 DEF ReleaseDrain
\* a packet is queued
<1>6. CASE OnAccept
  <2>1. PICK q : q = cur[Acceptor]
    OBVIOUS
  <2>2. sendBuf' = [sendBuf EXCEPT ![q] = Append(sendBuf[q], 0)]
    BY <1>6, <2>1 DEF OnAccept
  <2>3. q \in Sessions => Append(sendBuf[q], 0) \in Seq(Int)
    OBVIOUS
  <2>4. sendBuf' \in [Sessions -> Seq(Int)]
    BY <2>2, <2>3, Update
  <2> QED
    BY <1>6, <2>4 DEF OnAccept
<1>7. ASSUME NEW t \in Threads, ProcessMessage(t) PROVE SendTypes'
  <2>0. PICK q \in Sessions : q = cur[t] /\ toBeDeleted[q] \in Conns
    BY <1>7 DEF ProcessMessage, CurOK, ConnOK, SlotPcs, RefPcs
  <2>1. PICK n : n = arrived[toBeDeleted[q]] - batch[t] + 1
    OBVIOUS
  <2>2. n \in Int
    BY <2>0, <2>1, ConstantsAssumption DEF NetTypes, ThreadTypes
  <2>3. sendBuf' = [sendBuf EXCEPT ![q] = Append(sendBuf[q], n)]
    BY <1>7, <2>0, <2>1 DEF ProcessMessage
  <2>4. sendBuf' \in [Sessions -> Seq(Int)]
    BY <2>2, <2>3, Update
  <2> QED
    BY <1>7, <2>4 DEF ProcessMessage
\* the other steps leave all of it alone
<1>8. ASSUME NEW t \in Threads,
             \/ SendSize1(t) \/ SendSize2(t) \/ SendSize3(t) \/ SendSize4(t)
             \/ WSASendPosted(t) \/ WSASendFails(t) \/ SendFailDec(t)
             \/ RecvStep(t) \/ ProcessEnd(t) \/ Unref(t)
             \/ IODecrement(t) \/ ReleaseClose(t) \/ ReleasePush(t) \/ DequeueNull(t)
      PROVE  UNCHANGED sendVars
  BY <1>8 DEF SendSize1, SendSize2, SendSize3, SendSize4, SizeTest, WSASendPosted, WSASendFails,
     SendFailDec, RecvStep, RecvPost, WSARecvPosted, WSARecvFails, RecvFail, ProcessEnd, Unref,
     IODecrement, ReleaseClose, ReleasePush, DequeueNull
<1>9. CASE \/ \E t \in Threads, s \in Sessions : DequeueRecv(t, s) \/ DequeueSend(t, s)
           \/ \E c \in Conns : Accept(c)
           \/ AcceptFails \/ AcceptEnd
  BY <1>9 DEF DequeueRecv, DequeueSend, Accept, AcceptFails, AcceptEnd, sendVars
<1>10. CASE OutsideStep
  BY <1>10
     DEF OutsideStep, ClientStep, ClientClose, ClientReset, KernelStep, KernelCompletes, RecvArrives,
     RecvEnds, SendCompletes, SendAborts, CallStop, CallDisconnect, MainStep, MainCheck,
     MainInvalidate, MainCancel, StopPost, StopJoined, sendVars
<1>11. CASE UNCHANGED sendVars
  BY <1>11 DEF sendVars
<1>12. UNCHANGED vars => UNCHANGED sendVars
  BY DEF vars
<1>13. Acceptor \in Threads
  BY DEF Threads
<1> HIDE DEF SendTypes
<1> QED
  BY <1>1, <1>2, <1>3, <1>4, <1>5, <1>6, <1>7, <1>8, <1>9, <1>10, <1>11, <1>12, <1>13, NextSplit
     DEF HolderStep, SendPost, HandleStep, Release

LEMMA RefTypesStep ==
  ASSUME RefTypes, SendTypes, CurOK, [Next]_vars
  PROVE  RefTypes'
<1> USE DEF RefTypes
\* the packets of a session are released
<1>1. ASSUME NEW t \in Threads, SendDone(t) PROVE RefTypes'
  <2>0. cur[t] \in Sessions
    BY <1>1 DEF SendDone, CurOK, SlotPcs, RefPcs
  <2>1. /\ DOMAIN Prefix(sendArr[cur[t]], sendCount[cur[t]]) = 1 .. sendCount[cur[t]]
        /\ sendCount[cur[t]] \in Nat
    BY <2>0, PrefixDomain DEF SendTypes
  <2>2. CASE ReleaseAll(toBeDeleted[cur[t]], Prefix(sendArr[cur[t]], sendCount[cur[t]]))
    BY <2>1, <2>2, ReleaseType
  <2> QED
    BY <1>1, <2>2 DEF SendDone
<1>2. ASSUME NEW t \in Threads, Unref(t) PROVE RefTypes'
  <2>1. DOMAIN <<Handled(t)>> = 1 .. 1
    OBVIOUS
  <2> QED
    BY <1>2, <2>1, ReleaseType DEF Unref
<1>3. ASSUME NEW t \in Threads, ReleaseDrain(t) PROVE RefTypes'
  <2>0. PICK q \in Sessions : q = cur[t]
    BY <1>3 DEF ReleaseDrain, CurOK, SlotPcs, ReleasePcs
  <2>1. PICK unsent : unsent = Prefix(sendArr[q], sendCount[q])
    OBVIOUS
  <2>2. sendCount[q] \in Nat /\ sendBuf[q] \in Seq(Int)
    BY DEF SendTypes
  <2>3. PICK S : S = Int \cup {unsent[i] : i \in 1 .. sendCount[q]}
    OBVIOUS
  <2>a. unsent = [i \in 1 .. sendCount[q] |-> sendArr[q][i]]
    BY <2>1, <2>2 DEF Prefix
  <2>b. unsent \in Seq(S) /\ Len(unsent) = sendCount[q]
    BY <2>2, <2>3, <2>a
  <2>c. sendBuf[q] \in Seq(S)
    BY <2>2, <2>3
  <2>4. DOMAIN (sendBuf[q] \o unsent) = 1 .. Len(sendBuf[q]) + sendCount[q]
    BY <2>b, <2>c, ConcatDomain
  <2>5. ReleaseAll(toBeDeleted[q], sendBuf[q] \o unsent)
    BY <1>3, <2>0, <2>1 DEF ReleaseDrain
  <2>6. Len(sendBuf[q]) + sendCount[q] \in Nat
    BY <2>2
  <2> QED
    BY <2>4, <2>5, <2>6, ReleaseType
\* a new packet
<1>4. ASSUME NEW c, NEW n, refCount' = [refCount EXCEPT ![c][n] = 2] PROVE RefTypes'
  <2>1. PICK row : row = [refCount[c] EXCEPT ![n] = 2]
    OBVIOUS
  <2>2. c \in Conns => row \in [Packets -> Int]
    BY <2>1, Update
  <2>3. refCount' = [refCount EXCEPT ![c] = row]
    BY <1>4, <2>1
  <2> QED
    BY <2>2, <2>3, Update
<1>5. CASE OnAccept
  BY <1>4, <1>5 DEF OnAccept
<1>6. ASSUME NEW t \in Threads, ProcessMessage(t) PROVE RefTypes'
  BY <1>4, <1>6 DEF ProcessMessage
<1>7. ASSUME NEW t \in Threads,
             \/ SendPost(t) \/ RecvStep(t) \/ FlagClear(t) \/ ProcessEnd(t)
             \/ IODecrement(t) \/ ReleaseClose(t) \/ ReleasePush(t) \/ DequeueNull(t)
      PROVE  UNCHANGED refCount
  BY <1>7 DEF SendPost, SendSize1, SendSize2, SendSize3, SendSize4, SizeTest,
     SendXchg1, SendXchg2, FlagXchg, SendClear1, SendClear2, SendFailClear, FlagReset, SendGather,
     SendPrepare, WSASendPosted, WSASendFails, SendFailDec,
     RecvStep, RecvPost, WSARecvPosted, WSARecvFails, RecvFail,
     FlagClear, ProcessEnd, IODecrement, ReleaseClose, ReleasePush, DequeueNull
<1>8. CASE \/ \E t \in Threads, s \in Sessions : DequeueRecv(t, s) \/ DequeueSend(t, s)
           \/ \E c \in Conns : Accept(c)
           \/ AcceptFails \/ InitSession \/ AcceptEnd
  BY <1>8 DEF DequeueRecv, DequeueSend, Accept, AcceptFails, InitSession, AcceptEnd
<1>9. CASE OutsideStep
  BY <1>9
     DEF OutsideStep, ClientStep, ClientClose, ClientReset, KernelStep, KernelCompletes, RecvArrives,
     RecvEnds, SendCompletes, SendAborts, CallStop, CallDisconnect, MainStep, MainCheck,
     MainInvalidate, MainCancel, StopPost, StopJoined
<1>10. CASE UNCHANGED vars
  BY <1>10 DEF vars
<1> QED
  BY <1>1, <1>2, <1>3, <1>5, <1>6, <1>7, <1>8, <1>9, <1>10, NextSplit
     DEF HolderStep, HandleStep, Release

LEMMA SlotTypesStep ==
  ASSUME SlotTypes, [Next]_vars
  PROVE  SlotTypes'
<1> USE DEF SlotTypes
<1>1. ASSUME NEW c \in Conns, Accept(c) PROVE SlotTypes'
  <2>1. PICK q : q = freeStack[Len(freeStack)]
    OBVIOUS
  <2>2. CASE UNCHANGED <<invalidFlag, toBeDeleted>>
    BY <1>1, <2>2 DEF Accept
  <2>3. CASE /\ invalidFlag' = [invalidFlag EXCEPT ![q] = 1]
             /\ toBeDeleted' = [toBeDeleted EXCEPT ![q] = c]
    <3>1. UNCHANGED <<sock, ioCount>>
      BY <1>1 DEF Accept
    <3> QED
      BY <2>3, <3>1
  <2> QED
    BY <1>1, <2>1, <2>2, <2>3 DEF Accept
<1>2. ASSUME InitSession PROVE SlotTypes'
  <2>1. PICK q : q = cur[Acceptor]
    OBVIOUS
  <2>2. /\ sock' = [sock EXCEPT ![q] = toBeDeleted[q]]
        /\ ioCount' = [ioCount EXCEPT ![q] = ioCount[q] + 1]
        /\ UNCHANGED <<toBeDeleted, invalidFlag>>
    BY <1>2, <2>1 DEF InitSession
  <2>3. sock' \in [Sessions -> Conns \cup {None, Garbage}]
    BY <2>2, Update
  <2>4. ioCount' \in [Sessions -> Int]
    BY <2>2, Update
  <2> QED
    BY <2>2, <2>3, <2>4
<1>3. ASSUME NEW t \in Threads,
             RecvPost(t) \/ RecvFail(t) \/ SendPrepare(t) \/ SendFailDec(t) \/ IODecrement(t)
      PROVE  SlotTypes'
  BY <1>3 DEF RecvPost, RecvFail, SendPrepare, SendFailDec, IODecrement, sockVars
<1>4. ASSUME NEW t \in Threads, ReleaseClose(t) PROVE SlotTypes'
  BY <1>4 DEF ReleaseClose
<1>5. CASE MainInvalidate
  BY <1>5 DEF MainInvalidate
<1>6. ASSUME NEW t \in Threads,
             \/ HolderStep(t) /\ ~(RecvPost(t) \/ RecvFail(t) \/ SendPrepare(t) \/ SendFailDec(t))
             \/ ReleaseDrain(t) \/ ReleasePush(t) \/ DequeueNull(t)
      PROVE  UNCHANGED <<sockVars, ioCount>>
  BY <1>6 DEF HolderStep, SendPost, SendSize1, SendSize2, SendSize3, SendSize4, SizeTest,
     SendXchg1, SendXchg2, FlagXchg, SendClear1, SendClear2, SendFailClear, FlagReset, SendGather,
     WSASendPosted, WSASendFails, RecvStep, WSARecvPosted, WSARecvFails,
     HandleStep, OnAccept, SendDone, FlagClear, ProcessMessage, ProcessEnd, Unref,
     ReleaseDrain, ReleasePush, DequeueNull
<1>7. CASE \/ \E t \in Threads, s \in Sessions : DequeueRecv(t, s) \/ DequeueSend(t, s)
           \/ AcceptFails \/ AcceptEnd
           \/ OutsideStep /\ ~MainInvalidate
  BY <1>7
     DEF DequeueRecv, DequeueSend, AcceptFails, AcceptEnd, OutsideStep, ClientStep, ClientClose,
     ClientReset, KernelStep, KernelCompletes, RecvArrives, RecvEnds, SendCompletes, SendAborts,
     CallStop, CallDisconnect, MainStep, MainCheck, MainCancel, StopPost, StopJoined, sockVars
<1>8. CASE UNCHANGED <<sockVars, ioCount>>
  BY <1>8 DEF sockVars
<1>9. UNCHANGED vars => UNCHANGED <<sockVars, ioCount>>
  BY DEF vars
<1> HIDE DEF SlotTypes
<1> QED
  BY <1>1, <1>2, <1>3, <1>4, <1>5, <1>6, <1>7, <1>8, <1>9, NextSplit
     DEF Release, OutsideStep, MainStep

LEMMA ServerTypesStep ==
  ASSUME ServerTypes, ThreadTypes, CurOK, [Next]_vars
  PROVE  ServerTypes'
<1> USE DEF ServerTypes
<1>1. ASSUME NEW c \in Conns, Accept(c) PROVE ServerTypes'
  <2>1. freeStack # <<>> => SubSeq(freeStack, 1, Len(freeStack) - 1) \in Seq(Sessions)
    OBVIOUS
  <2> QED
    BY <1>1, <2>1 DEF Accept, serverVars
<1>2. ASSUME NEW t \in Threads, ReleasePush(t) PROVE ServerTypes'
  <2>1. cur[t] \in Sessions
    BY <1>2 DEF ReleasePush, CurOK, SlotPcs, ReleasePcs
  <2> QED
    BY <1>2, <2>1 DEF ReleasePush, serverVars
<1>3. CASE (\E t \in Threads : ReleaseClose(t)) \/ CallStop
  <2>1. /\ UNCHANGED <<freeStack, acceptTotal>>
        /\ listening' \in BOOLEAN
        /\ sessionCount' \in {sessionCount, sessionCount - 1}
        /\ acceptCount' \in {acceptCount, acceptCount - 1}
        /\ disconnectTotal' \in {disconnectTotal, disconnectTotal + 1}
    BY <1>3 DEF ReleaseClose, CallStop
  <2> QED
    BY <2>1
<1>4. CASE InitSession \/ AcceptEnd
  <2>1. /\ UNCHANGED <<freeStack, listening, disconnectTotal>>
        /\ sessionCount' \in {sessionCount, sessionCount + 1}
        /\ acceptCount' \in {acceptCount, acceptCount + 1}
        /\ acceptTotal' \in {acceptTotal, acceptTotal + 1}
    BY <1>4 DEF InitSession, AcceptEnd
  <2> QED
    BY <2>1
<1>5. ASSUME NEW t \in Threads,
             HolderStep(t) \/ IODecrement(t) \/ ReleaseDrain(t) \/ DequeueNull(t)
      PROVE  UNCHANGED <<serverVars, freeStack>>
  BY <1>5 DEF HolderStep, SendPost, SendSize1, SendSize2, SendSize3, SendSize4, SizeTest,
     SendXchg1, SendXchg2, FlagXchg, SendClear1, SendClear2, SendFailClear, FlagReset, SendGather,
     SendPrepare, WSASendPosted, WSASendFails, SendFailDec,
     RecvStep, RecvPost, WSARecvPosted, WSARecvFails, RecvFail,
     HandleStep, OnAccept, SendDone, FlagClear, ProcessMessage, ProcessEnd, Unref,
     IODecrement, ReleaseDrain, DequeueNull
<1>6. CASE \/ \E t \in Threads, s \in Sessions : DequeueRecv(t, s) \/ DequeueSend(t, s)
           \/ AcceptFails
           \/ OutsideStep /\ ~CallStop
  BY <1>6 DEF DequeueRecv, DequeueSend, AcceptFails, OutsideStep, ClientStep, ClientClose,
     ClientReset, KernelStep, KernelCompletes, RecvArrives, RecvEnds, SendCompletes, SendAborts,
     CallDisconnect, MainStep, MainCheck, MainInvalidate, MainCancel, StopPost, StopJoined, serverVars
<1>7. CASE UNCHANGED <<serverVars, freeStack>>
  BY <1>7 DEF serverVars
<1>8. UNCHANGED vars => UNCHANGED <<serverVars, freeStack>>
  BY DEF vars
<1> HIDE DEF ServerTypes
<1> QED
  BY <1>1, <1>2, <1>3, <1>4, <1>5, <1>6, <1>7, <1>8, NextSplit DEF Release

LEMMA ThreadTypesStep ==
  ASSUME ThreadTypes, ServerTypes, IOTypes, [Next]_vars
  PROVE  ThreadTypes'
<1> USE DEF ThreadTypes, Goto, GoHome, Pcs, RefPcs, SendPcs, ReleasePcs
<1>1. ASSUME NEW t \in Threads, SendPost(t) PROVE ThreadTypes'
  BY <1>1 DEF SendPost, SendSize1, SendSize2, SendSize3, SendSize4, SizeTest,
     SendXchg1, SendXchg2, FlagXchg, SendClear1, SendClear2, SendFailClear, FlagReset, SendGather,
     SendPrepare, WSASendPosted, WSASendFails, SendFailDec, AfterSend
<1>2. ASSUME NEW t \in Threads, RecvStep(t) PROVE ThreadTypes'
  BY <1>2 DEF RecvStep, RecvPost, WSARecvPosted, WSARecvFails, RecvFail
<1>3. ASSUME NEW t \in Threads, HandleStep(t) PROVE ThreadTypes'
  <2>1. CASE ProcessMessage(t)
    BY <2>1 DEF ProcessMessage
  <2>2. CASE \/ t = Acceptor /\ OnAccept
             \/ SendDone(t) \/ FlagClear(t) \/ ProcessEnd(t) \/ Unref(t)
    BY <2>2 DEF OnAccept, SendDone, FlagClear, ProcessEnd, Unref
  <2> QED
    BY <1>3, <2>1, <2>2 DEF HandleStep
<1>4. ASSUME NEW t \in Threads, IODecrement(t) \/ Release(t) \/ DequeueNull(t) PROVE ThreadTypes'
  BY <1>4 DEF IODecrement, Release, ReleaseDrain, ReleaseClose, ReleasePush, DequeueNull
<1>5. ASSUME NEW t \in Threads, NEW s \in Sessions, DequeueRecv(t, s) \/ DequeueSend(t, s)
      PROVE  ThreadTypes'
  BY <1>5 DEF DequeueRecv, DequeueSend, IOTypes
<1>6. ASSUME NEW c \in Conns, Accept(c) PROVE ThreadTypes'
  <2>1. freeStack # <<>> => freeStack[Len(freeStack)] \in Sessions
    BY DEF ServerTypes
  <2> QED
    BY <1>6, <2>1, ZenonT(60) DEF Accept
<1>7. CASE AcceptFails \/ InitSession \/ AcceptEnd
  BY <1>7 DEF AcceptFails, InitSession, AcceptEnd
<1>8. CASE OutsideStep
  BY <1>8
     DEF OutsideStep, ClientStep, ClientClose, ClientReset, KernelStep, KernelCompletes, RecvArrives,
     RecvEnds, SendCompletes, SendAborts, CallStop, CallDisconnect, MainStep, MainCheck,
     MainInvalidate, MainCancel, StopPost, StopJoined, threadVars
<1>9. CASE UNCHANGED vars
  BY <1>9 DEF vars, threadVars
<1> HIDE DEF ThreadTypes
<1> QED
  BY <1>1, <1>2, <1>3, <1>4, <1>5, <1>6, <1>7, <1>8, <1>9, NextSplit DEF HolderStep

(***************************************************************************)
(* The initial states                                                      *)
(***************************************************************************)
LEMMA InitInv == Init => IInv
<1> SUFFICES ASSUME Init PROVE IInv
  OBVIOUS
<1>0. 0 \in Sessions /\ SessionMax \in Nat /\ MaxMsg \in Nat
  BY ConstantsAssumption DEF Sessions
<1>1. /\ pc \in [Threads -> {"accept", "gqcs"}]
      /\ \A s \in Sessions : recvIO[s] = "none" /\ sendIO[s] = "none" /\ ioCount[s] = 0
  BY DEF Init
<1>2. ThreadTypes
  BY DEF Init, ThreadTypes, Pcs
<1>3. ServerTypes
  <2>1. freeStack \in [1 .. SessionMax -> Sessions]
    BY <1>0 DEF Init, Sessions
  <2> QED
    BY <1>0, <2>1 DEF Init, ServerTypes
<1>4. SlotTypes
  BY DEF Init, SlotTypes
<1>5. SendTypes /\ RefTypes /\ IOTypes /\ NetTypes /\ MainTypes
  BY <1>0 DEF Init, SendTypes, RefTypes, IOTypes, IOStates, NetTypes, MainTypes
<1>6. CurOK /\ ConnOK
  BY <1>1 DEF CurOK, ConnOK, SlotPcs, RefPcs, SendPcs, ReleasePcs
<1>7. SendSizeOK
  BY <1>1 DEF SendSizeOK
<1>8. \A s \in Sessions : At(s, RefPcs) = {}
  BY <1>1 DEF At, RefPcs, SendPcs
<1>9. IOCountExact
  BY <1>1, <1>8, NoThread DEF IOCountExact, References, Busy
<1>10. SlotLife
  <2>1. \A i, j \in DOMAIN freeStack : freeStack[i] = freeStack[j] => i = j
    BY <1>0 DEF Init
  <2> QED
    BY <1>1, <1>8, <2>1 DEF SlotLife, Idle, ReleasePcs
<1>11. RecvExclusive
  BY <1>1 DEF RecvExclusive, Receiving, RecvPcs, SendPcs
<1>12. SendExclusive
  BY <1>1 DEF SendExclusive, FlagPcs
<1> QED
  BY <1>2, <1>3, <1>4, <1>5, <1>6, <1>7, <1>9, <1>10, <1>11, <1>12, TypeParts DEF IInv

(***************************************************************************)
(* The theorems                                                            *)
(***************************************************************************)
LEMMA IInvStep ==
  ASSUME IInv, [Next]_vars
  PROVE  IInv'
<1>1. TypeOK'
  BY MainTypesStep, NetTypesStep, IOTypesStep, SendTypesStep, RefTypesStep, SlotTypesStep, ServerTypesStep,
     ThreadTypesStep, TypeParts DEF IInv
<1> QED
  BY <1>1, CurStep, ConnStep, SizeStep, CountStep, SlotStep, RecvSideStep, SendSideStep DEF IInv

\* The inductive invariant holds in every reachable state, for any number of
\* workers, slots, connections, messages and buffers.
THEOREM Invariance == Spec => []IInv
BY InitInv, IInvStep, PTL DEF Spec

\* Every variable of the server stays in its range.
THEOREM TypeCorrect == Spec => []TypeOK
BY Invariance, PTL DEF IInv

\* _IOCount counts the outstanding references of every session exactly.
THEOREM IOCounting == Spec => []IOCountExact
BY Invariance, PTL DEF IInv

\* A slot is set up and released by one thread at a time, while nobody refers
\* to it, and no slot on the index stack is referred to or there twice.
THEOREM SlotsAreSafe == Spec => []SlotLife
BY Invariance, PTL DEF IInv

\* One thread at a time handles the messages of a session and posts its receive.
THEOREM OneReceiver == Spec => []RecvExclusive
BY Invariance, PTL DEF IInv

\* One thread at a time sends for a session, and never while a send is outstanding.
THEOREM OneSender == Spec => []SendExclusive
BY Invariance, PTL DEF IInv

\* The decrement after a failed WSARecv or WSASend need not look for zero: the
\* poster still has its own reference.
THEOREM FailureKeepsReference == Spec => []FailNotLast
<1>1. ASSUME IInv PROVE FailNotLast
  <2> SUFFICES ASSUME NEW t \in Threads, pc[t] \in {"recvFail", "failDec"}
               PROVE  ioCount[cur[t]] >= 2
    BY DEF FailNotLast
  <2>1. PICK q \in Sessions : q = cur[t]
    BY <1>1 DEF IInv, CurOK, SlotPcs, RefPcs, SendPcs
  <2>2. recvIO[q] = "posting" \/ sendIO[q] = "posting"
    BY <1>1, <2>1 DEF IInv, RecvExclusive, Receiving, RecvPcs, SendExclusive, FlagPcs
  <2>3. t \in At(q, RefPcs)
    BY <2>1 DEF At, RefPcs, SendPcs
  <2>4. Cardinality(At(q, RefPcs) \ {t}) = Cardinality(At(q, RefPcs)) - 1
    BY <2>3, RemoveThread DEF At
  <2>5. Cardinality(At(q, RefPcs)) \in Nat /\ Cardinality(At(q, RefPcs) \ {t}) \in Nat
    BY ThreadSets DEF At
  <2>6. ioCount[q] = References(q)
    BY <1>1 DEF IInv, IOCountExact
  <2> QED
    BY <2>1, <2>2, <2>4, <2>5, <2>6 DEF References, Busy
<1> QED
  BY <1>1, Invariance, PTL

(***************************************************************************)
(* Whose slot it is, and who looks after the queue                         *)
(***************************************************************************)
\* the messages of the receive that thread t has not handled yet
Behind(t) == IF op[t] = "recv" THEN batch[t] ELSE 0

\* what a thread is about, by where it is; no bytes but with a finished operation
WorkOK ==
  /\ \A s \in Sessions : /\ recvIO[s] # "done" => recvLen[s] = 0
                         /\ sendIO[s] # "done" => sendLen[s] = 0
  /\ \A t \in Threads :
       /\ pc[t] \in {"recvPost", "wsaRecv", "recvFail"} => Behind(t) = 0
       /\ pc[t] \in RecvPcs => op[t] \in {"accept", "recv"}
       /\ pc[t] \in SendPcs => op[t] # "none"
       /\ pc[t] \in {"init", "onAccept"} => op[t] = "accept"
       /\ pc[t] = "loop" => op[t] = "recv"
       /\ pc[t] \in {"accept", "acceptEnd", "gqcs", "exit"} => cur[t] = None

LEMMA WorkStep ==
  ASSUME IInv, WorkOK, [Next]_vars
  PROVE  WorkOK'
<1>0. Shape /\ WorkOK /\ CurOK /\ batch \in [Threads -> Nat]
      /\ recvLen \in [Sessions -> Nat] /\ sendLen \in [Sessions -> Nat]
  BY TypeShape DEF IInv, TypeOK
<1> USE <1>0 DEF WorkOK, Behind, Shape, RecvPcs, SendPcs, Goto, GoHome, threadVars, ioVars
<1>1. ASSUME NEW t \in Threads,
             SendSize1(t) \/ SendSize2(t) \/ SendSize3(t) \/ SendSize4(t)
      PROVE  WorkOK'
  BY <1>1 DEF SendSize1, SendSize2, SendSize3, SendSize4, SizeTest, AfterSend
<1>2. ASSUME NEW t \in Threads, SendXchg1(t) \/ SendXchg2(t) PROVE WorkOK'
  BY <1>2 DEF SendXchg1, SendXchg2, FlagXchg, AfterSend
<1>3. ASSUME NEW t \in Threads, SendClear1(t) \/ SendClear2(t) \/ SendFailClear(t)
      PROVE  WorkOK'
  BY <1>3 DEF SendClear1, SendClear2, SendFailClear, FlagReset, AfterSend
<1>4. ASSUME NEW t \in Threads, SendGather(t) \/ WSASendFails(t) PROVE WorkOK'
  BY <1>4 DEF SendGather, WSASendFails
<1>5. ASSUME NEW t \in Threads, SendPrepare(t) \/ WSASendPosted(t) \/ SendFailDec(t)
      PROVE  WorkOK'
  <2>1. cur[t] \in Sessions /\ sendIO[cur[t]] # "done"
    BY <1>5 DEF IInv, SlotPcs, RefPcs, CurOK, SendExclusive, FlagPcs, SendPrepare, WSASendPosted,
       SendFailDec
  <2> QED
    BY <1>5, <2>1 DEF SendPrepare, WSASendPosted, SendFailDec, AfterSend
<1>6. ASSUME NEW t \in Threads, RecvStep(t) PROVE WorkOK'
  <2>1. cur[t] \in Sessions /\ recvIO[cur[t]] # "done"
    BY <1>6 DEF IInv, SlotPcs, RefPcs, CurOK, RecvExclusive, Receiving, RecvStep, RecvPost,
       WSARecvPosted, WSARecvFails, RecvFail
  <2> QED
    BY <1>6, <2>1 DEF RecvStep, RecvPost, WSARecvPosted, WSARecvFails, RecvFail
<1>7. ASSUME NEW t \in Threads, HandleStep(t) PROVE WorkOK'
  BY <1>7 DEF HandleStep, OnAccept, SendDone, FlagClear, ProcessMessage, ProcessEnd, Unref, CurOK
<1>8. ASSUME NEW t \in Threads, IODecrement(t) \/ Release(t) PROVE WorkOK'
  <2>1. CASE IODecrement(t)
    BY <2>1 DEF IODecrement
  <2>2. CASE ReleaseDrain(t)
    BY <2>2 DEF ReleaseDrain
  <2>3. CASE ReleaseClose(t)
    BY <2>3 DEF ReleaseClose
  <2>4. CASE ReleasePush(t)
    BY <2>4 DEF ReleasePush
  <2> QED
    BY <1>8, <2>1, <2>2, <2>3, <2>4 DEF Release
<1>9. ASSUME NEW t \in Threads, NEW s \in Sessions, DequeueRecv(t, s) \/ DequeueSend(t, s)
      PROVE  WorkOK'
  <2>1. CASE DequeueRecv(t, s)
    BY <2>1 DEF DequeueRecv
  <2>2. CASE DequeueSend(t, s)
    BY <2>2 DEF DequeueSend
  <2> QED
    BY <1>9, <2>1, <2>2
<1>10. ASSUME NEW t \in Threads, DequeueNull(t) PROVE WorkOK'
  BY <1>10 DEF DequeueNull
<1>11. ASSUME NEW c \in Conns, Accept(c) PROVE WorkOK'
  BY <1>11 DEF Accept
<1>12. CASE AcceptFails \/ InitSession \/ AcceptEnd
  BY <1>12 DEF AcceptFails, InitSession, AcceptEnd
<1>13. CASE ClientStep \/ (\E s \in Sessions : CallDisconnect(s)) \/ CallStop
  BY <1>13 DEF ClientStep, ClientClose, ClientReset, CallStop, CallDisconnect
<1>14. CASE KernelStep
  <2>0. sendCount \in [Sessions -> Nat]
    BY DEF IInv, TypeOK
  <2>1. ASSUME NEW s \in Sessions, NEW k \in 1 .. MaxMsg, RecvArrives(s, k) PROVE WorkOK'
    BY <2>1 DEF RecvArrives
  <2>2. ASSUME NEW s \in Sessions, RecvEnds(s) \/ SendAborts(s) PROVE WorkOK'
    BY <2>2 DEF RecvEnds, SendAborts
  <2>3. ASSUME NEW s \in Sessions, SendCompletes(s) PROVE WorkOK'
    BY <2>0, <2>3 DEF SendCompletes
  <2> QED
    BY <1>14, <2>1, <2>2, <2>3 DEF KernelStep, KernelCompletes
<1>15. CASE MainStep
  BY <1>15 DEF MainStep, MainCheck, MainInvalidate, MainCancel, StopPost, StopJoined
<1>16. CASE UNCHANGED vars
  BY <1>16 DEF vars
<1> QED
  BY <1>1, <1>2, <1>3, <1>4, <1>5, <1>6, <1>7, <1>8, <1>9, <1>10, <1>11, <1>12, <1>13, <1>14,
     <1>15, <1>16, NextSplit DEF HolderStep, SendPost, OutsideStep
(***************************************************************************)
(* Slots and connections                                                   *)
(***************************************************************************)
\* somebody refers to the session, or it is about to be drained
InUse(s) == ~Idle(s) \/ At(s, {"drain"}) # {}

\* a slot is marked from accept to release
MarkOK ==
  \A s \in Sessions :
    /\ InUse(s) \/ At(s, {"init", "close", "breakRef"}) # {} <=> invalidFlag[s] = 1
    /\ IsFree(s) => invalidFlag[s] # 1
    /\ Idle(s) => IsFree(s) \/ At(s, ReleasePcs \cup {"init"}) # {}

\* a marked slot has a connection, which no other slot has, and a connection
\* that is being served has a marked slot
OwnerOK ==
  /\ \A s, r \in Sessions :
       toBeDeleted[s] = toBeDeleted[r] /\ toBeDeleted[s] \in Conns => s = r
  /\ \A s \in Sessions :
       /\ toBeDeleted[s] \in Conns => conn[toBeDeleted[s]] # "new"
       /\ invalidFlag[s] = 1 => toBeDeleted[s] \in Conns /\ conn[toBeDeleted[s]] # "closed"
  /\ \A c \in Conns : conn[c] \notin {"new", "closed"} =>
       pc[Acceptor] = "breakPop" \/ \E s \in Sessions : toBeDeleted[s] = c /\ invalidFlag[s] = 1

\* the steps that leave the slots and their connections alone
QuietStep(t) ==
  \/ HolderStep(t) \/ IODecrement(t) \/ ReleaseDrain(t) \/ ReleasePush(t) \/ DequeueNull(t)
  \/ \E s \in Sessions : DequeueRecv(t, s) \/ DequeueSend(t, s)
QuietOutside ==
  \/ AcceptFails \/ InitSession \/ AcceptEnd \/ KernelStep \/ CallStop \/ MainStep
  \/ \E s \in Sessions : CallDisconnect(s)

LEMMA QuietFrame ==
  ASSUME (\E t \in Threads : QuietStep(t)) \/ QuietOutside
  PROVE  UNCHANGED <<toBeDeleted, invalidFlag, conn>>
<1> USE DEF sockVars, netVars
<1>1. ASSUME NEW t \in Threads, HolderStep(t) PROVE UNCHANGED <<toBeDeleted, invalidFlag, conn>>
  BY <1>1 DEF HolderStep, SendPost, SendSize1, SendSize2, SendSize3, SendSize4, SizeTest,
     SendXchg1, SendXchg2, FlagXchg, SendClear1, SendClear2, SendFailClear, FlagReset,
     SendGather, SendPrepare, WSASendPosted, WSASendFails, SendFailDec, RecvStep, RecvPost,
     WSARecvPosted, WSARecvFails, RecvFail, HandleStep, OnAccept, SendDone, FlagClear,
     ProcessMessage, ProcessEnd, Unref
<1>2. ASSUME NEW t \in Threads, QuietStep(t), ~HolderStep(t)
      PROVE  UNCHANGED <<toBeDeleted, invalidFlag, conn>>
  BY <1>2 DEF QuietStep, IODecrement, ReleaseDrain, ReleasePush, DequeueNull, DequeueRecv,
     DequeueSend
<1>3. CASE QuietOutside
  BY <1>3 DEF QuietOutside, AcceptFails, InitSession, AcceptEnd, KernelStep, KernelCompletes,
     RecvArrives, RecvEnds, SendCompletes, SendAborts, CallStop, CallDisconnect, MainStep,
     MainCheck, MainInvalidate, MainCancel, StopPost, StopJoined
<1> QED
  BY <1>1, <1>2, <1>3

LEMMA NextQuiet ==
  ASSUME [Next]_vars
  PROVE  \/ \E t \in Threads : QuietStep(t)
         \/ QuietOutside
         \/ \E t \in Threads : ReleaseClose(t)
         \/ \E c \in Conns : Accept(c)
         \/ ClientStep
         \/ UNCHANGED vars
BY NextSplit DEF QuietStep, QuietOutside, Release, OutsideStep

\* the thread that releases a slot is the only one there, and nobody uses it
LEMMA Alone ==
  ASSUME IInv, NEW t \in Threads, pc[t] \in ReleasePcs \cup {"init"}
  PROVE  /\ cur[t] \in Sessions /\ Idle(cur[t]) /\ ~IsFree(cur[t]) /\ toBeDeleted[cur[t]] \in Conns
         /\ \A u \in Threads : u # t /\ cur[u] = cur[t] => pc[u] \notin SlotPcs
BY DEF IInv, SlotLife, Idle, At, SlotPcs, CurOK, ConnOK

LEMMA WithoutLast ==
  ASSUME NEW S, NEW q \in Seq(S), q # <<>>
  PROVE  LET n == Len(q) r == SubSeq(q, 1, n - 1) IN
         /\ n \in Nat \ {0} /\ q[n] \in S
         /\ r \in Seq(S) /\ Len(r) = n - 1 /\ \A i \in 1 .. n - 1 : r[i] = q[i]
         /\ DOMAIN q = 1 .. n /\ DOMAIN r = 1 .. n - 1
<1> DEFINE n == Len(q)
<1>1. n \in Nat /\ n # 0
  OBVIOUS
<1>2. q[n] \in S /\ DOMAIN q = 1 .. n
  BY <1>1
<1>3. PICK m \in Nat : m = n - 1
  BY <1>1
<1>4. SubSeq(q, 1, m) \in Seq(S) /\ Len(SubSeq(q, 1, m)) = m
      /\ \A i \in 1 .. m : SubSeq(q, 1, m)[i] = q[i]
  BY <1>1, <1>3
<1>5. DOMAIN SubSeq(q, 1, m) = 1 .. m
  BY <1>4
<1> QED
  BY <1>1, <1>2, <1>3, <1>4, <1>5

\* the slot Accept takes from the index stack
LEMMA Popped ==
  ASSUME IInv, MarkOK, NEW c \in Conns, Accept(c), freeStack # <<>>
  PROVE  LET s == freeStack[Len(freeStack)] IN
         /\ s \in Sessions /\ invalidFlag[s] # 1 /\ Idle(s) /\ IsFree(s)
         /\ \A u \in Threads : cur[u] = s => pc[u] \notin SlotPcs
         /\ cur' = [cur EXCEPT ![Acceptor] = s]
         /\ pc' = [pc EXCEPT ![Acceptor] = "init"]
         /\ invalidFlag' = [invalidFlag EXCEPT ![s] = 1]
         /\ toBeDeleted' = [toBeDeleted EXCEPT ![s] = c]
         /\ \A r \in Sessions : IsFree(r)' <=> IsFree(r) /\ r # s
<1> DEFINE n == Len(freeStack)
           s == freeStack[n]
           rest == SubSeq(freeStack, 1, n - 1)
<1>a. freeStack \in Seq(Sessions)
  BY DEF IInv, TypeOK
<1>0. /\ n \in Nat \ {0} /\ s \in Sessions
      /\ rest \in Seq(Sessions) /\ Len(rest) = n - 1 /\ \A i \in 1 .. n - 1 : rest[i] = freeStack[i]
      /\ DOMAIN freeStack = 1 .. n /\ DOMAIN rest = 1 .. n - 1
  BY <1>a, WithoutLast
<1>1. IsFree(s)
  BY <1>0 DEF IsFree
<1>2. Idle(s) /\ invalidFlag[s] # 1
  BY <1>0, <1>1 DEF IInv, SlotLife, MarkOK
<1>3. \A u \in Threads : cur[u] = s => pc[u] \notin SlotPcs
  BY <1>1, <1>2 DEF IInv, SlotLife, Idle, At, SlotPcs
<1>4. freeStack' = rest
  BY DEF Accept
<1>5. \A r \in Sessions : IsFree(r)' <=> IsFree(r) /\ r # s
  <2>1. \A i, j \in 1 .. n : freeStack[i] = freeStack[j] => i = j
    BY <1>0 DEF IInv, SlotLife
  <2> HIDE DEF n, rest
  <2> QED
    BY <1>0, <1>4, <2>1 DEF IsFree
<1> QED
  BY <1>0, <1>1, <1>2, <1>3, <1>5 DEF Accept, Goto
\* one slot's part of MarkOK
Marked(s) ==
  /\ InUse(s) \/ At(s, {"init", "close", "breakRef"}) # {} <=> invalidFlag[s] = 1
  /\ IsFree(s) => invalidFlag[s] # 1
  /\ Idle(s) => IsFree(s) \/ At(s, ReleasePcs \cup {"init"}) # {}

LEMMA MarkStep ==
  ASSUME IInv, MarkOK, [Next]_vars
  PROVE  MarkOK'
<1>0. Shape /\ CurOK /\ invalidFlag \in [Sessions -> {-1, 0, 1}]
  BY TypeShape DEF IInv, TypeOK
<1>a. \A s \in Sessions : Marked(s)
  BY DEF MarkOK, Marked
<1> SUFFICES ASSUME NEW s \in Sessions PROVE Marked(s)'
  BY DEF MarkOK, Marked
<1>b. Marked(s)
  BY <1>a
<1> USE DEF Shape, Marked, InUse, Idle, At
<1>1. ASSUME NEW t \in Threads, HolderStep(t) PROVE Marked(s)'
  <2>1. UNCHANGED invalidFlag
    BY <1>1, QuietFrame DEF QuietStep
  <2>2. CASE s = cur[t]
    BY <1>0, <1>b, <1>1, <2>1, <2>2, HolderFrame DEF IsFree, ReleasePcs, RefPcs, SendPcs
  <2>3. CASE s # cur[t]
    BY <1>0, <1>b, <1>1, <2>1, <2>3, HolderFrame DEF IsFree
  <2> QED
    BY <2>2, <2>3
\* where it was not the last reference another one is left
<1>2. ASSUME NEW t \in Threads, IODecrement(t) PROVE Marked(s)'
  <2>1. UNCHANGED <<invalidFlag, freeStack, recvIO, sendIO>>
    BY <1>2 DEF IODecrement, sockVars, ioVars
  <2>2. CASE s # cur[t]
    BY <1>0, <1>b, <1>2, <2>1, <2>2 DEF IODecrement, Goto, GoHome, IsFree
  <2>3. CASE s = cur[t] /\ ioCount[s] = 1
    BY <1>0, <1>b, <1>2, <2>1, <2>3 DEF IODecrement, Goto, IsFree, ReleasePcs, RefPcs, SendPcs
  <2>4. CASE s = cur[t] /\ ioCount[s] # 1
    <3>1. ioCount'[s] = References(s)' /\ ioCount[s] = References(s)
      BY CountStep DEF IInv, IOCountExact
    <3>2. ioCount'[s] = ioCount[s] - 1
      BY <1>0, <1>2, <2>4 DEF IODecrement
    <3>3. References(s)' # 0
      BY <1>0, <2>4, <3>1, <3>2
    <3>4. ~Idle(s)'
      BY <3>3, NoThread DEF References, Busy
    <3>5. ~Idle(s)
      BY <1>2, <2>4 DEF IODecrement, RefPcs
    <3> QED
      BY <1>0, <1>b, <2>1, <3>4, <3>5 DEF IsFree
  <2> QED
    BY <2>2, <2>3, <2>4
<1>3. ASSUME NEW t \in Threads, Release(t) PROVE Marked(s)'
  <2>1. pc[t] \in ReleasePcs
    BY <1>3 DEF Release, ReleaseDrain, ReleaseClose, ReleasePush, ReleasePcs
  <2>2. PICK q \in Sessions : q = cur[t]
    BY <2>1, Alone
  <2>3. Idle(q) /\ ~IsFree(q) /\ \A u \in Threads : u # t /\ cur[u] = q => pc[u] \notin SlotPcs
    BY <2>1, <2>2, Alone
  <2>4. UNCHANGED <<recvIO, sendIO>> /\ freeStack \in Seq(Sessions)
    BY <1>3 DEF Release, ReleaseDrain, ReleaseClose, ReleasePush, ioVars, IInv, TypeOK
  <2>5. CASE ReleaseDrain(t)
    <3>1. /\ pc' \in {[pc EXCEPT ![t] = "breakRef"], [pc EXCEPT ![t] = "close"]}
          /\ pc[t] = "drain" /\ UNCHANGED <<cur, freeStack, invalidFlag>>
      BY <2>5 DEF ReleaseDrain, Goto, sockVars
    <3> QED
      BY <1>0, <1>b, <2>2, <2>3, <2>4, <3>1
         DEF IsFree, ReleasePcs, SlotPcs, RefPcs, SendPcs
  <2>6. CASE ReleaseClose(t)
    BY <1>0, <1>b, <2>2, <2>3, <2>4, <2>6
       DEF ReleaseClose, Goto, IsFree, ReleasePcs, SlotPcs, RefPcs, SendPcs
  <2>7. CASE ReleasePush(t)
    <3>1. \A r \in Sessions : IsFree(r)' <=> IsFree(r) \/ r = q
      <4>1. freeStack' = Append(freeStack, q)
        BY <2>2, <2>7 DEF ReleasePush
      <4>2. Len(freeStack') = Len(freeStack) + 1 /\ freeStack'[Len(freeStack) + 1] = q
            /\ \A i \in 1 .. Len(freeStack) : freeStack'[i] = freeStack[i]
        BY <2>4, <4>1
      <4>3. DOMAIN freeStack = 1 .. Len(freeStack) /\ DOMAIN freeStack' = 1 .. Len(freeStack) + 1
            /\ Len(freeStack) \in Nat
        BY <2>4, <4>1, <4>2
      <4> QED
        BY <4>2, <4>3 DEF IsFree
    <3>2. pc[t] = "push" /\ cur' = [cur EXCEPT ![t] = None] /\ UNCHANGED invalidFlag
          /\ \A u \in Threads : u # t => pc'[u] = pc[u]
      BY <1>0, <2>7 DEF ReleasePush, GoHome, Goto, sockVars
    <3>3. CASE s = q
      <4>1. ~InUse(s) /\ At(s, {"init", "close", "breakRef"}) = {}
        BY <1>0, <2>2, <2>3, <3>2, <3>3 DEF SlotPcs, ReleasePcs
      <4>2. ~InUse(s)' /\ At(s, {"init", "close", "breakRef"})' = {}
        BY <1>0, <2>2, <2>3, <2>4, <3>2, <3>3 DEF SlotPcs, ReleasePcs
      <4> QED
        BY <1>0, <1>b, <3>1, <3>2, <3>3, <4>1, <4>2
    <3>4. CASE s # q
      <4>1. \A u \in Threads : (cur'[u] = s <=> cur[u] = s) /\ (cur[u] = s => pc'[u] = pc[u])
        BY <1>0, <2>2, <3>2, <3>4
      <4>2. (IsFree(s)' <=> IsFree(s)) /\ recvIO'[s] = recvIO[s] /\ sendIO'[s] = sendIO[s]
        BY <2>4, <3>1, <3>4
      <4> QED
        BY <1>b, <3>2, <4>1, <4>2
    <3> QED
      BY <3>3, <3>4
  <2> QED
    BY <1>3, <2>5, <2>6, <2>7 DEF Release
<1>4. ASSUME NEW t \in Threads, NEW q \in Sessions, DequeueRecv(t, q) \/ DequeueSend(t, q)
      PROVE  Marked(s)'
  <2>1. UNCHANGED <<invalidFlag, freeStack>>
    BY <1>4 DEF DequeueRecv, DequeueSend, sockVars
  <2>2. CASE s = q
    BY <1>0, <1>b, <1>4, <2>1, <2>2 DEF DequeueRecv, DequeueSend, Goto, IsFree, RefPcs, SendPcs
  <2>3. CASE s # q
    BY <1>0, <1>b, <1>4, <2>1, <2>3
       DEF DequeueRecv, DequeueSend, Goto, IsFree, ReleasePcs, RefPcs, SendPcs
  <2> QED
    BY <2>2, <2>3
<1>5. ASSUME NEW t \in Threads, DequeueNull(t) PROVE Marked(s)'
  BY <1>0, <1>b, <1>5 DEF DequeueNull, Goto, IsFree, ReleasePcs, RefPcs, SendPcs, sockVars, ioVars
<1>6. ASSUME NEW c \in Conns, Accept(c) PROVE Marked(s)'
  <2>1. UNCHANGED <<recvIO, sendIO>> /\ pc[Acceptor] = "accept" /\ \A t \in Threads : t # Acceptor => pc'[t] = pc[t]
    BY <1>0, <1>6 DEF Accept, ioVars, Goto
  <2>2. CASE freeStack = <<>>
    BY <1>0, <1>b, <1>6, <2>1, <2>2 DEF Accept, Goto, IsFree, ReleasePcs, RefPcs, SendPcs
  <2>3. CASE freeStack # <<>>
    <3>1. PICK q \in Sessions : q = freeStack[Len(freeStack)]
      BY <1>6, <2>3, Popped
    <3>2. /\ Idle(q) /\ IsFree(q) /\ \A u \in Threads : cur[u] = q => pc[u] \notin SlotPcs
          /\ cur' = [cur EXCEPT ![Acceptor] = q] /\ pc' = [pc EXCEPT ![Acceptor] = "init"]
          /\ invalidFlag' = [invalidFlag EXCEPT ![q] = 1]
          /\ \A r \in Sessions : IsFree(r)' <=> IsFree(r) /\ r # q
      BY <1>6, <2>3, <3>1, Popped
    <3> QED
      BY <1>0, <1>b, <2>1, <3>1, <3>2 DEF ReleasePcs, SlotPcs, RefPcs, SendPcs
  <2> QED
    BY <2>2, <2>3
<1>7. CASE InitSession
  <2>1. pc[Acceptor] = "init" /\ pc' = [pc EXCEPT ![Acceptor] = "onAccept"]
        /\ UNCHANGED <<cur, freeStack, invalidFlag, recvIO, sendIO>>
    BY <1>7 DEF InitSession, Goto, ioVars
  <2>2. CASE s # cur[Acceptor]
    BY <1>0, <1>b, <2>1, <2>2 DEF IsFree
  <2>3. CASE s = cur[Acceptor]
    <3>1. ~IsFree(s)
      BY <1>0, <2>1, <2>3, Alone
    <3> QED
      BY <1>0, <1>b, <2>1, <2>3, <3>1 DEF IsFree, ReleasePcs, RefPcs, SendPcs
  <2> QED
    BY <2>2, <2>3
<1>8. CASE AcceptFails \/ AcceptEnd
  BY <1>0, <1>b, <1>8 DEF AcceptFails, AcceptEnd, Goto, IsFree, ReleasePcs, RefPcs, SendPcs,
     sockVars, ioVars
<1>9. CASE OutsideStep
  <2>1. UNCHANGED invalidFlag
    BY <1>9, QuietFrame DEF OutsideStep, QuietOutside, ClientStep, ClientClose, ClientReset,
       sockVars
  <2> QED
    BY <1>0, <1>b, <1>9, <2>1, OutsideFrame DEF IsFree
<1>10. CASE UNCHANGED vars
  BY <1>b, <1>10 DEF vars, threadVars, sockVars, ioVars, IsFree
<1> QED
  BY <1>1, <1>2, <1>3, <1>4, <1>5, <1>6, <1>7, <1>8, <1>9, <1>10, NextSplit

LEMMA OwnerStep ==
  ASSUME IInv, MarkOK, OwnerOK, [Next]_vars
  PROVE  OwnerOK'
<1>0. Shape /\ conn \in [Conns -> {"new", "open", "fin", "reset", "closed"}]
      /\ toBeDeleted \in [Sessions -> Conns \cup {Garbage}]
      /\ invalidFlag \in [Sessions -> {-1, 0, 1}] /\ Garbage \notin Conns
  BY TypeShape, ConstantsAssumption DEF IInv, TypeOK
<1>s. CASE UNCHANGED vars
  BY <1>s DEF vars, sockVars, netVars, threadVars, OwnerOK
<1> SUFFICES ASSUME Next PROVE OwnerOK'
  BY <1>s
<1>r. pc[Acceptor] # "breakPop"
  BY <1>0 DEF Next, Running, BreakPcs, Shape
<1>1. CASE (\E t \in Threads : QuietStep(t)) \/ QuietOutside
  <2>1. UNCHANGED <<toBeDeleted, invalidFlag, conn>>
    BY <1>1, QuietFrame
  <2> QED
    BY <1>r, <2>1 DEF OwnerOK
<1>2. ASSUME NEW t \in Threads, ReleaseClose(t) PROVE OwnerOK'
  <2>1. pc[t] \in ReleasePcs
    BY <1>2 DEF ReleaseClose, ReleasePcs
  <2>2. PICK q \in Sessions : q = cur[t]
    BY <2>1, Alone
  <2>3. toBeDeleted[q] \in Conns
    BY <2>1, <2>2, Alone
  <2>4. UNCHANGED toBeDeleted /\ conn' = [conn EXCEPT ![toBeDeleted[q]] = "closed"]
        /\ invalidFlag' = [invalidFlag EXCEPT ![q] = 0]
    BY <1>2, <2>2 DEF ReleaseClose
  <2> QED
    BY <1>0, <1>r, <2>2, <2>3, <2>4 DEF OwnerOK
<1>3. ASSUME NEW c \in Conns, Accept(c) PROVE OwnerOK'
  <2>1. conn[c] = "new" /\ conn' = [conn EXCEPT ![c] = "open"]
    BY <1>3 DEF Accept
  <2>2. CASE freeStack = <<>>
    <3>1. pc'[Acceptor] = "breakPop" /\ UNCHANGED <<toBeDeleted, invalidFlag>>
      BY <1>0, <1>3, <2>2 DEF Accept, Goto, Shape
    <3> QED
      BY <1>0, <2>1, <3>1 DEF OwnerOK
  <2>3. CASE freeStack # <<>>
    <3>1. PICK q \in Sessions : q = freeStack[Len(freeStack)]
      BY <1>3, <2>3, Popped
    <3>2. /\ invalidFlag' = [invalidFlag EXCEPT ![q] = 1] /\ invalidFlag[q] # 1
          /\ toBeDeleted' = [toBeDeleted EXCEPT ![q] = c]
      BY <1>3, <2>3, <3>1, Popped
    <3> QED
      BY <1>0, <1>r, <2>1, <3>1, <3>2 DEF OwnerOK
  <2> QED
    BY <2>2, <2>3
<1>4. CASE ClientStep
  <2>1. PICK c \in Conns : ClientClose(c) \/ ClientReset(c)
    BY <1>4 DEF ClientStep
  <2>2. /\ UNCHANGED <<toBeDeleted, invalidFlag>> /\ conn[c] \in {"open", "fin"}
        /\ conn' \in {[conn EXCEPT ![c] = "fin"], [conn EXCEPT ![c] = "reset"]}
    BY <2>1 DEF ClientClose, ClientReset, sockVars
  <2> QED
    BY <1>0, <1>r, <2>2 DEF OwnerOK
<1> QED
  BY <1>s, <1>1, <1>2, <1>3, <1>4, NextQuiet
(***************************************************************************)
(* What a step does not touch                                              *)
(***************************************************************************)
\* nothing of session s changes, nor of its connection, nor of the threads there
Same(s) ==
  /\ \A t \in Threads :
       /\ cur'[t] = s <=> cur[t] = s
       /\ cur[t] = s => pc'[t] = pc[t] /\ op'[t] = op[t] /\ batch'[t] = batch[t]
  /\ toBeDeleted'[s] = toBeDeleted[s] /\ sock'[s] = sock[s] /\ invalidFlag'[s] = invalidFlag[s]
  /\ sendFlag'[s] = sendFlag[s] /\ sendCount'[s] = sendCount[s]
  /\ sendBuf'[s] = sendBuf[s] /\ sendArr'[s] = sendArr[s]
  /\ recvIO'[s] = recvIO[s] /\ recvLen'[s] = recvLen[s]
  /\ sendIO'[s] = sendIO[s] /\ sendLen'[s] = sendLen[s]
  /\ toBeDeleted[s] \in Conns =>
       LET c == toBeDeleted[s] IN
       /\ conn'[c] = conn[c] /\ arrived'[c] = arrived[c] /\ echoed'[c] = echoed[c]
       /\ sendFailed'[c] = sendFailed[c] /\ refCount'[c] = refCount[c]

\* the steps that concern session s
ThreadTouches(s) ==
  \/ \E t \in Threads : cur[t] = s /\ (HolderStep(t) \/ IODecrement(t) \/ Release(t))
  \/ \E t \in Threads : DequeueRecv(t, s) \/ DequeueSend(t, s)
  \/ \E c \in Conns : Accept(c) /\ freeStack # <<>> /\ s = freeStack[Len(freeStack)]
  \/ InitSession /\ s = cur[Acceptor]
OtherTouches(s) ==
  \/ KernelCompletes(s)
  \/ \E k \in 1 .. MaxMsg : RecvArrives(s, k)
  \/ \E c \in Conns : toBeDeleted[s] = c /\ (ClientClose(c) \/ ClientReset(c))
  \/ mainIdx = s /\ (MainInvalidate \/ MainCancel)

DataTypes == SlotTypes /\ SendTypes /\ RefTypes /\ IOTypes /\ NetTypes /\ MainTypes

LEMMA DataShape == IInv => Shape /\ DataTypes /\ batch \in [Threads -> Nat]
<1> SUFFICES ASSUME IInv PROVE Shape /\ DataTypes /\ batch \in [Threads -> Nat]
  OBVIOUS
<1>1. TypeOK
  BY DEF IInv
<1> QED
  BY <1>1, TypeShape, TypeParts DEF DataTypes, ThreadTypes
\* the session a thread acts for
LEMMA Held ==
  ASSUME IInv, OwnerOK, NEW t \in Threads, pc[t] \in SlotPcs
  PROVE  /\ cur[t] \in Sessions /\ toBeDeleted[cur[t]] \in Conns
         /\ \A s \in Sessions : s # cur[t] => toBeDeleted[s] # toBeDeleted[cur[t]]
BY DEF IInv, CurOK, ConnOK, OwnerOK

LEMMA HolderSame ==
  ASSUME IInv, OwnerOK, NEW t \in Threads, HolderStep(t), NEW s \in Sessions, s # cur[t]
  PROVE  Same(s)
<1>0. Shape /\ DataTypes /\ batch \in [Threads -> Nat]
  BY DataShape
<1>1. /\ \A u \in Threads : u # t => pc'[u] = pc[u]
      /\ UNCHANGED <<cur, op>>
      /\ recvIO'[s] = recvIO[s] /\ sendIO'[s] = sendIO[s] /\ sendFlag'[s] = sendFlag[s]
      /\ pc[t] \in RefPcs
  BY <1>0, HolderFrame
<1>2. PICK q \in Sessions : q = cur[t]
  BY <1>1, Held DEF SlotPcs
<1>3. PICK d \in Conns : d = toBeDeleted[q]
  BY <1>1, <1>2, Held DEF SlotPcs
<1>4. s # q /\ toBeDeleted[s] # d
  BY <1>1, <1>2, <1>3, Held DEF SlotPcs
<1>5. UNCHANGED <<toBeDeleted, invalidFlag, conn, recvLen, sendLen, echoed, arrived, sock>>
  BY DEF HolderStep, SendPost, SendSize1, SendSize2, SendSize3, SendSize4, SizeTest,
     SendXchg1, SendXchg2, FlagXchg, SendClear1, SendClear2, SendFailClear, FlagReset,
     SendGather, SendPrepare, WSASendPosted, WSASendFails, SendFailDec, RecvStep, RecvPost,
     WSARecvPosted, WSARecvFails, RecvFail, HandleStep, OnAccept, SendDone, FlagClear,
     ProcessMessage, ProcessEnd, Unref, ioVars, netVars, sockVars
<1>6. \A u \in Threads : u # t => batch'[u] = batch[u]
  BY <1>0 DEF HolderStep, SendPost, SendSize1, SendSize2, SendSize3, SendSize4, SizeTest,
     SendXchg1, SendXchg2, FlagXchg, SendClear1, SendClear2, SendFailClear, FlagReset,
     SendGather, SendPrepare, WSASendPosted, WSASendFails, SendFailDec, RecvStep, RecvPost,
     WSARecvPosted, WSARecvFails, RecvFail, HandleStep, OnAccept, SendDone, FlagClear,
     ProcessMessage, ProcessEnd, Unref
<1>7. sendCount'[s] = sendCount[s] /\ sendBuf'[s] = sendBuf[s] /\ sendArr'[s] = sendArr[s]
  <2> USE <1>0, <1>2, <1>4 DEF DataTypes, SendTypes, sendVars
  <2>1. CASE SendPrepare(t) \/ SendGather(t)
    BY <2>1 DEF SendPrepare, SendGather
  <2>2. CASE SendPost(t) /\ ~SendPrepare(t) /\ ~SendGather(t)
    BY <2>2 DEF SendPost, SendSize1, SendSize2, SendSize3, SendSize4, SizeTest,
       SendXchg1, SendXchg2, FlagXchg, SendClear1, SendClear2, SendFailClear, FlagReset,
       WSASendPosted, WSASendFails, SendFailDec
  <2>3. CASE RecvStep(t)
    BY <2>3 DEF RecvStep, RecvPost, WSARecvPosted, WSARecvFails, RecvFail
  <2>4. CASE HandleStep(t)
    BY <2>4 DEF HandleStep, OnAccept, SendDone, FlagClear, ProcessMessage, ProcessEnd, Unref
  <2> QED
    BY <2>1, <2>2, <2>3, <2>4 DEF HolderStep
<1>8. toBeDeleted[s] \in Conns =>
        LET c == toBeDeleted[s] IN sendFailed'[c] = sendFailed[c] /\ refCount'[c] = refCount[c]
  <2> USE <1>0, <1>2, <1>3, <1>4 DEF DataTypes, NetTypes, RefTypes, netVars
  <2>1. CASE SendPost(t)
    BY <2>1 DEF SendPost, SendSize1, SendSize2, SendSize3, SendSize4, SizeTest,
       SendXchg1, SendXchg2, FlagXchg, SendClear1, SendClear2, SendFailClear, FlagReset,
       SendGather, SendPrepare, WSASendPosted, WSASendFails, SendFailDec
  <2>2. CASE RecvStep(t)
    BY <2>2 DEF RecvStep, RecvPost, WSARecvPosted, WSARecvFails, RecvFail
  <2>3. CASE HandleStep(t)
    BY <2>3 DEF HandleStep, OnAccept, SendDone, FlagClear, ProcessMessage, ProcessEnd, Unref,
       ReleaseAll
  <2> QED
    BY <2>1, <2>2, <2>3 DEF HolderStep
<1> QED
  BY <1>1, <1>2, <1>4, <1>5, <1>6, <1>7, <1>8 DEF Same

LEMMA LeaveSame ==
  ASSUME IInv, OwnerOK, NEW t \in Threads, IODecrement(t) \/ Release(t),
         NEW s \in Sessions, s # cur[t]
  PROVE  Same(s)
<1>0. Shape /\ DataTypes /\ batch \in [Threads -> Nat]
  BY DataShape
<1>1. pc[t] \in SlotPcs
  BY DEF IODecrement, Release, ReleaseDrain, ReleaseClose, ReleasePush, SlotPcs, RefPcs,
     ReleasePcs
<1>2. PICK q \in Sessions : q = cur[t]
  BY <1>1, Held
<1>3. PICK d \in Conns : d = toBeDeleted[q]
  BY <1>1, <1>2, Held
<1>4. s # q /\ toBeDeleted[s] # d
  BY <1>1, <1>2, <1>3, Held
<1> USE <1>0, <1>2, <1>3, <1>4 DEF Shape, DataTypes, SlotTypes, SendTypes, IOTypes, NetTypes,
    RefTypes, Goto, GoHome, sockVars, sendVars, ioVars, netVars
<1>5. CASE IODecrement(t)
  BY <1>5, SMTT(30) DEF IODecrement, Same
<1>6. CASE ReleaseDrain(t)
  BY <1>6 DEF ReleaseDrain, ReleaseAll, Same
<1>7. CASE ReleaseClose(t) \/ ReleasePush(t)
  BY <1>7, ZenonT(60) DEF ReleaseClose, ReleasePush, Same
<1> QED
  BY <1>5, <1>6, <1>7 DEF Release

LEMMA DequeueSame ==
  ASSUME IInv, WorkOK, NEW t \in Threads, NEW q \in Sessions,
         DequeueRecv(t, q) \/ DequeueSend(t, q), NEW s \in Sessions, s # q
  PROVE  Same(s)
<1>1. pc[t] = "gqcs" => cur[t] = None
  BY DEF WorkOK
<1> QED
  BY <1>1, DataShape, SMTT(30)
     DEF Shape, DataTypes, SlotTypes, SendTypes, IOTypes, NetTypes, RefTypes,
     Goto,
     sockVars, sendVars, ioVars, netVars, DequeueRecv, DequeueSend, Same
LEMMA Untouched ==
  ASSUME IInv, WorkOK, MarkOK, OwnerOK, Next,
         NEW s \in Sessions, ~ThreadTouches(s), ~OtherTouches(s)
  PROVE  Same(s)
<1>0. Shape /\ DataTypes /\ batch \in [Threads -> Nat]
  BY DataShape
<1>1. ASSUME NEW t \in Threads, HolderStep(t) PROVE Same(s)
  BY <1>1, HolderSame DEF ThreadTouches
<1>2. ASSUME NEW t \in Threads, IODecrement(t) \/ Release(t) PROVE Same(s)
  BY <1>2, LeaveSame DEF ThreadTouches
<1>3. ASSUME NEW t \in Threads, NEW q \in Sessions, DequeueRecv(t, q) \/ DequeueSend(t, q)
      PROVE  Same(s)
  BY <1>3, DequeueSame DEF ThreadTouches
<1> USE <1>0 DEF Shape, DataTypes, SlotTypes, SendTypes, IOTypes, NetTypes, RefTypes, MainTypes,
    Goto, GoHome, threadVars, sockVars, sendVars, ioVars, netVars
<1>4. ASSUME NEW t \in Threads, DequeueNull(t) PROVE Same(s)
  <2>1. cur[t] = None
    BY <1>4 DEF DequeueNull, WorkOK
  <2> QED
    BY <1>4, <2>1 DEF DequeueNull, Same
<1>5. ASSUME NEW c \in Conns, Accept(c) PROVE Same(s)
  <2>1. /\ cur[Acceptor] = None /\ conn[c] = "new" /\ \A u \in Threads : u # Acceptor => pc'[u] = pc[u]
        /\ UNCHANGED <<batch, sock, sendVars, ioVars, refCount, arrived, echoed, sendFailed>>
        /\ conn' = [conn EXCEPT ![c] = "open"] /\ op' = [op EXCEPT ![Acceptor] = "accept"]
    BY <1>5 DEF Accept, WorkOK
  <2>2. toBeDeleted[s] # c
    BY <2>1 DEF OwnerOK
  <2>3. CASE freeStack = <<>>
    <3>1. UNCHANGED <<cur, toBeDeleted, invalidFlag>>
      BY <1>5, <2>3 DEF Accept
    <3> QED
      BY <2>1, <2>2, <3>1 DEF Same
  <2>4. CASE freeStack # <<>>
    <3>1. PICK q \in Sessions : q = freeStack[Len(freeStack)]
      BY <1>5, <2>4, Popped
    <3>2. /\ cur' = [cur EXCEPT ![Acceptor] = q] /\ toBeDeleted' = [toBeDeleted EXCEPT ![q] = c]
          /\ invalidFlag' = [invalidFlag EXCEPT ![q] = 1]
      BY <1>5, <2>4, <3>1, Popped
    <3>3. s # q
      BY <1>5, <2>4, <3>1 DEF ThreadTouches
    <3> QED
      BY <2>1, <2>2, <3>2, <3>3 DEF Same
  <2> QED
    BY <2>3, <2>4
<1>6. CASE InitSession
  BY <1>6 DEF InitSession, ThreadTouches, Same
<1>7. CASE AcceptFails \/ AcceptEnd
  BY <1>7, SMTT(30) DEF AcceptFails, AcceptEnd, WorkOK, Same
<1>8. CASE ClientStep
  <2>1. PICK c \in Conns : ClientClose(c) \/ ClientReset(c)
    BY <1>8 DEF ClientStep
  <2>2. toBeDeleted[s] # c
    BY <2>1 DEF OtherTouches
  <2> QED
    BY <2>1, <2>2 DEF ClientClose, ClientReset, Same
<1>9. CASE KernelStep
  <2>1. PICK q \in Sessions : KernelCompletes(q) \/ \E k \in 1 .. MaxMsg : RecvArrives(q, k)
    BY <1>9 DEF KernelStep
  <2>2. q # s
    BY <2>1 DEF OtherTouches
  <2>3. toBeDeleted[q] \in Conns /\ toBeDeleted[s] # toBeDeleted[q]
    BY <2>1, <2>2 DEF KernelCompletes, RecvArrives, RecvEnds, SendCompletes, SendAborts, IInv,
       ConnOK, OwnerOK
  <2>4. ASSUME NEW k \in 1 .. MaxMsg, RecvArrives(q, k) PROVE Same(s)
    BY <2>2, <2>3, <2>4 DEF RecvArrives, Same
  <2>5. CASE RecvEnds(q) \/ SendAborts(q)
    BY <2>2, <2>3, <2>5 DEF RecvEnds, SendAborts, Same
  <2>6. CASE SendCompletes(q)
    BY <2>2, <2>3, <2>6 DEF SendCompletes, Same
  <2> QED
    BY <2>1, <2>4, <2>5, <2>6 DEF KernelCompletes
<1>10. CASE CallStop \/ \E q \in Sessions : CallDisconnect(q)
  BY <1>10 DEF CallStop, CallDisconnect, Same
<1>11. CASE MainStep
  <2>1. CASE MainCheck \/ StopPost \/ StopJoined
    BY <2>1 DEF MainCheck, StopPost, StopJoined, Same
  <2>2. CASE MainInvalidate
    BY <2>2 DEF MainInvalidate, OtherTouches, Same
  <2>3. CASE MainCancel
    BY <2>3 DEF MainCancel, OtherTouches, Same
  <2> QED
    BY <1>11, <2>1, <2>2, <2>3 DEF MainStep
<1>12. CASE UNCHANGED vars
  BY <1>12 DEF vars, Same
<1> QED
  BY <1>1, <1>2, <1>3, <1>4, <1>5, <1>6, <1>7, <1>8, <1>9, <1>10, <1>11, <1>12, NextSplit
     DEF OutsideStep
(***************************************************************************)
(* No orphaned packet                                                      *)
(***************************************************************************)
\* what is queued, gathered and counted where a thread or a send needs it
FlagOK(s) ==
  /\ ~InUse(s) => sendBuf[s] = <<>> /\ sendCount[s] = 0
  /\ At(s, {"gather"}) # {} => sendBuf[s] # <<>>
  /\ At(s, {"post"}) # {} => sendArr[s] # <<>>
  /\ \/ At(s, {"wsaSend", "failDec", "failClear", "sendDone"}) # {}
     \/ sendIO[s] \in {"pending", "done"}
     => sendCount[s] > 0
  /\ At(s, {"failDec", "failClear"}) # {} => sock[s] = None \/ conn[toBeDeleted[s]] = "reset"
  /\ ~Idle(s) /\ sendFlag[s] = 1 =>
       At(s, FlagPcs) # {} \/ sendIO[s] # "none" \/ sendCount[s] > 0

\* the places of a session the two formulas look at
TryPcs == FlagPcs \cup {"size1", "xchg1", "size3", "xchg2"}
SamePlaces(s) ==
  /\ At(s, {"gather"})' = At(s, {"gather"}) /\ At(s, {"post"})' = At(s, {"post"})
  /\ At(s, {"wsaSend", "failDec", "failClear", "sendDone"})'
       = At(s, {"wsaSend", "failDec", "failClear", "sendDone"})
  /\ At(s, {"failDec", "failClear"})' = At(s, {"failDec", "failClear"})
  /\ At(s, FlagPcs)' = At(s, FlagPcs) /\ At(s, TryPcs)' = At(s, TryPcs)

\* one session's part of NoOrphanedSend
Cared(s) ==
  (/\ invalidFlag[s] = 1 /\ sendBuf[s] # <<>>
   /\ sock[s] # None /\ conn[toBeDeleted[s]] # "reset"
   /\ ~(sendFlag[s] = 1 /\ sendCount[s] > 0))
  => \/ At(s, TryPcs) # {}
     \/ sendIO[s] # "none"

SendOK(s) == FlagOK(s) /\ Cared(s)

\* where thread t stands alone on the send side of its session
LEMMA FlagAlone ==
  ASSUME IInv, NEW t \in Threads, pc[t] \in FlagPcs
  PROVE  /\ sendFlag[cur[t]] = 1 /\ sendIO[cur[t]] \in {"none", "posting"}
         /\ sendIO[cur[t]] = IF pc[t] \in {"wsaSend", "failDec"} THEN "posting" ELSE "none"
         /\ \A u \in Threads : cur[u] = cur[t] /\ u # t => pc[u] \notin FlagPcs
BY DEF IInv, SendExclusive

\* the packets a send takes from the queue
LEMMA Taken ==
  ASSUME NEW q \in Seq(Int), NEW n \in Nat, n = Smaller(MaxSend, Len(q))
  PROVE  /\ n <= Len(q) /\ (q # <<>> => n > 0)
         /\ Prefix(q, n) \in Seq(Int) /\ Len(Prefix(q, n)) = n
         /\ \A i \in 1 .. n : Prefix(q, n)[i] = q[i]
         /\ SubSeq(q, n + 1, Len(q)) \in Seq(Int) /\ Len(SubSeq(q, n + 1, Len(q))) = Len(q) - n
         /\ \A i \in 1 .. Len(q) - n : SubSeq(q, n + 1, Len(q))[i] = q[n + i]
<1>1. Len(q) \in Nat /\ (q # <<>> => Len(q) > 0) /\ MaxSend \in Nat \ {0}
  BY ConstantsAssumption
<1>2. n <= Len(q) /\ (q # <<>> => n > 0)
  BY <1>1 DEF Smaller
<1>3. Prefix(q, n) \in Seq(Int) /\ Len(Prefix(q, n)) = n
  BY <1>1, <1>2 DEF Prefix
<1>4. \A i \in 1 .. n : Prefix(q, n)[i] = q[i]
  BY <1>1, <1>2 DEF Prefix
<1>5. SubSeq(q, n + 1, Len(q)) \in Seq(Int) /\ Len(SubSeq(q, n + 1, Len(q))) = Len(q) - n
  BY <1>1, <1>2
<1>6. \A i \in 1 .. Len(q) - n : SubSeq(q, n + 1, Len(q))[i] = q[n + i]
  BY <1>1, <1>2, SMTT(30)
<1> QED
  BY <1>2, <1>3, <1>4, <1>5, <1>6

LEMMA TakenCount ==
  ASSUME NEW q \in Seq(Int)
  PROVE  Smaller(MaxSend, Len(q)) \in Nat
<1>1. Len(q) \in Nat /\ MaxSend \in Nat
  BY ConstantsAssumption
<1> QED
  BY <1>1 DEF Smaller

LEMMA SendOKHolder ==
  ASSUME IInv, MarkOK, NEW s \in Sessions, toBeDeleted[s] \in Conns, SendOK(s),
         NEW t \in Threads, HolderStep(t), cur[t] = s
  PROVE  SendOK(s)'
<1>0. Shape /\ DataTypes
  BY DataShape
<1>1. /\ pc[t] \in RefPcs /\ pc'[t] \in RefPcs
      /\ \A u \in Threads : u # t => pc'[u] = pc[u]
      /\ UNCHANGED <<cur, op, freeStack, toBeDeleted, conn, invalidFlag>>
  BY <1>0, HolderFrame, QuietFrame DEF QuietStep
<1>2. ~Idle(s) /\ ~Idle(s)' /\ invalidFlag[s] = 1 /\ invalidFlag'[s] = 1
  BY <1>1 DEF Idle, At, MarkOK, InUse
<1>3. pc[t] \in FlagPcs =>
         /\ sendFlag[s] = 1
         /\ sendIO[s] = IF pc[t] \in {"wsaSend", "failDec"} THEN "posting" ELSE "none"
         /\ \A u \in Threads : cur[u] = s /\ u # t => pc[u] \notin FlagPcs
  BY FlagAlone
<1> USE <1>0, <1>1, <1>2, <1>3 DEF Shape, DataTypes, SendTypes, SendOK, FlagOK, Cared, InUse, At,
    Goto, AfterSend, TryPcs, FlagPcs, sendVars, ioVars, sockVars
<1>4. CASE SendSize1(t) \/ SendSize2(t) \/ SendSize3(t) \/ SendSize4(t)
  BY <1>4, SMTT(30) DEF SendSize1, SendSize2, SendSize3, SendSize4, SizeTest
<1>5. CASE SendXchg1(t) \/ SendXchg2(t)
  BY <1>5 DEF SendXchg1, SendXchg2, FlagXchg
<1>6. CASE SendClear1(t) \/ SendClear2(t) \/ SendFailClear(t)
  BY <1>6 DEF SendClear1, SendClear2, SendFailClear, FlagReset
<1>7. CASE SendGather(t)
  <2> DEFINE n == Smaller(MaxSend, Len(sendBuf[s]))
  <2>1. sendBuf[s] \in Seq(Int) /\ sendBuf[s] # <<>>
    BY <1>7 DEF SendGather
  <2>2. n \in Nat
    BY <2>1, TakenCount
  <2>3. Prefix(sendBuf[s], n) # <<>>
    <3>1. Len(Prefix(sendBuf[s], n)) = n /\ n > 0
      BY <2>1, <2>2, Taken
    <3> QED
      BY <3>1
  <2> HIDE DEF n
  <2>4. /\ pc[t] = "gather" /\ pc' = [pc EXCEPT ![t] = "post"]
        /\ sendArr'[s] = Prefix(sendBuf[s], n) /\ UNCHANGED <<sendFlag, sendCount, sock, ioVars>>
    BY <1>7 DEF SendGather, n
  <2> QED
    BY <2>3, <2>4
<1>8. CASE SendPrepare(t)
  BY <1>8 DEF SendPrepare
<1>9. CASE WSASendPosted(t) \/ WSASendFails(t)
  BY <1>9 DEF WSASendPosted, WSASendFails
<1>10. CASE SendFailDec(t)
  BY <1>10 DEF SendFailDec
<1>11. CASE RecvStep(t)
  BY <1>11, SMTT(30) DEF RecvStep, RecvPost, WSARecvPosted, WSARecvFails, RecvFail
<1>12. CASE SendDone(t) \/ FlagClear(t)
  <2>1. CASE SendDone(t)
    <3>1. pc[t] = "sendDone" /\ sendCount[s] > 0
      BY <2>1 DEF SendDone
    <3>2. /\ pc' = [pc EXCEPT ![t] = "flagClear"] /\ sendCount' = [sendCount EXCEPT ![s] = 0]
          /\ UNCHANGED <<sendFlag, sendBuf, sendArr, sock, ioVars>>
      BY <2>1, <3>1 DEF SendDone
    <3> QED
      BY <3>1, <3>2
  <2>2. CASE FlagClear(t)
    <3>1. op[t] = "send"
      BY <2>2 DEF FlagClear, IInv, CurOK
    <3> QED
      BY <2>2, <3>1 DEF FlagClear
  <2> QED
    BY <1>12, <2>1, <2>2
<1>13. CASE t = Acceptor /\ OnAccept
  BY <1>13, SMTT(30) DEF OnAccept
<1>14. CASE ProcessMessage(t)
  <2>a. batch[t] \in Nat /\ arrived[toBeDeleted[s]] \in Int
    BY DataShape, ConstantsAssumption DEF NetTypes
  <2> DEFINE n == arrived[toBeDeleted[s]] - batch[t] + 1
  <2>1. n \in Int /\ sendBuf' = [sendBuf EXCEPT ![s] = Append(@, n)]
    BY <1>14, <2>a DEF ProcessMessage
  <2> HIDE DEF n
  <2>3. sendBuf'[s] # <<>>
    BY <2>1
  <2>2. pc[t] = "loop" /\ pc' = [pc EXCEPT ![t] = "size1"]
        /\ UNCHANGED <<sendFlag, sendCount, sendArr, sock, ioVars>>
    BY <1>14 DEF ProcessMessage
  <2> QED
    BY <2>2, <2>3
<1>15. CASE ProcessEnd(t) \/ Unref(t)
  BY <1>15, ZenonT(60) DEF ProcessEnd, Unref
<1> QED
  BY <1>4, <1>5, <1>6, <1>7, <1>8, <1>9, <1>10, <1>11, <1>12, <1>13, <1>14, <1>15
     DEF HolderStep, SendPost, HandleStep
LEMMA SendOKLeave ==
  ASSUME IInv, MarkOK, Next, NEW s \in Sessions, toBeDeleted[s] \in Conns, SendOK(s),
         NEW t \in Threads, IODecrement(t) \/ Release(t), cur[t] = s
  PROVE  SendOK(s)'
<1>0. Shape /\ DataTypes
  BY DataShape
<1>1. CASE IODecrement(t)
  <2>1. /\ pc[t] = "ioDec" /\ UNCHANGED <<sendVars, ioVars, sock, toBeDeleted, invalidFlag, conn>>
        /\ \A u \in Threads : u # t => pc'[u] = pc[u] /\ cur'[u] = cur[u]
    BY <1>0, <1>1 DEF IODecrement, Goto, GoHome, sockVars, netVars, Shape
  <2>2. CASE ioCount[s] = 1
    <3>1. pc' = [pc EXCEPT ![t] = "drain"] /\ UNCHANGED cur
      BY <1>1, <2>2 DEF IODecrement, Goto
    <3>2. At(s, RefPcs) = {t} /\ sendIO[s] = "none" /\ recvIO[s] = "none"
      <4>1. References(s) = 1 /\ Cardinality(At(s, RefPcs)) \in Nat
        BY <2>2, ThreadSets DEF IInv, IOCountExact, At
      <4>2. t \in At(s, RefPcs)
        BY <2>1 DEF At, RefPcs
      <4>3. Cardinality(At(s, RefPcs) \ {t}) = Cardinality(At(s, RefPcs)) - 1
        BY <4>2, RemoveThread DEF At
      <4>4. Cardinality(At(s, RefPcs) \ {t}) \in Nat
        BY ThreadSets DEF At
      <4>5. recvIO[s] = "none" /\ sendIO[s] = "none" /\ Cardinality(At(s, RefPcs) \ {t}) = 0
        BY <4>1, <4>3, <4>4 DEF References, Busy
      <4>6. At(s, RefPcs) \ {t} = {}
        BY <4>5, ThreadSets, FS_EmptySet DEF At
      <4> QED
        BY <4>2, <4>5, <4>6
    <3>3. \A u \in Threads : u # t /\ cur[u] = s => pc[u] \notin RefPcs
      BY <3>2 DEF At
    <3>4. invalidFlag[s] = 1
      BY <2>1 DEF MarkOK, InUse, Idle, At, RefPcs
    <3> QED
      BY <1>0, <2>1, <3>1, <3>2, <3>3, <3>4
         DEF SendOK, FlagOK, Cared, InUse, Idle, At, Shape, RefPcs, SendPcs, TryPcs, FlagPcs,
            sendVars, ioVars
  <2>3. CASE ioCount[s] # 1
    <3>1. cur'[t] = None /\ None # s
      BY <1>0, <1>1, <2>3 DEF IODecrement, GoHome, Shape
    <3>2. ~Idle(s) /\ invalidFlag[s] = 1
      BY <2>1 DEF MarkOK, InUse, Idle, At, RefPcs
    <3>3. ~Idle(s)'
      <4>1. ioCount'[s] = References(s)' /\ ioCount[s] = References(s)
        BY CountStep DEF IInv, IOCountExact
      <4>2. ioCount'[s] = ioCount[s] - 1
        BY <1>0, <1>1 DEF IODecrement, Shape
      <4>3. References(s)' # 0
        BY <1>0, <2>3, <4>1, <4>2 DEF Shape
      <4> QED
        BY <4>3, NoThread DEF References, Busy, Idle
    <3>4. SamePlaces(s)
      BY <1>0, <2>1, <3>1 DEF SamePlaces, At, Shape, TryPcs, FlagPcs
    <3> QED
      BY <2>1, <3>2, <3>3, <3>4 DEF SamePlaces, SendOK, FlagOK, Cared, InUse, sendVars, ioVars
  <2> QED
    BY <2>2, <2>3
<1>2. CASE Release(t)
  <2>1. pc[t] \in ReleasePcs
    BY <1>2 DEF Release, ReleaseDrain, ReleaseClose, ReleasePush, ReleasePcs
  <2>2. Idle(s) /\ \A u \in Threads : u # t /\ cur[u] = s => pc[u] \notin SlotPcs
    BY <2>1, Alone
  <2>3. UNCHANGED <<recvIO, sendIO, sock, toBeDeleted, sendFlag, sendArr>>
    BY <1>2 DEF Release, ReleaseDrain, ReleaseClose, ReleasePush, ioVars, sockVars, sendVars
  <2>4. \A u \in Threads : u # t => pc'[u] = pc[u] /\ cur'[u] = cur[u]
    BY <1>0, <1>2 DEF Release, ReleaseDrain, ReleaseClose, ReleasePush, Goto, GoHome, Shape
  <2>5. pc'[t] \notin RefPcs \cup {"drain"}
    BY <1>0, <1>2 DEF Release, ReleaseDrain, ReleaseClose, ReleasePush, Goto, GoHome, Shape,
       RefPcs,
       SendPcs
  <2>6. ~InUse(s)'
    BY <2>2, <2>3, <2>4, <2>5 DEF InUse, Idle, At, SlotPcs, ReleasePcs
  <2>7. Idle(s)'
    BY <2>6 DEF InUse
  <2>8. sendBuf'[s] = <<>> /\ sendCount'[s] = 0
    <3>1. CASE ReleaseDrain(t)
      BY <1>0, <3>1 DEF ReleaseDrain, DataTypes, SendTypes
    <3>2. CASE ReleaseClose(t) \/ ReleasePush(t)
      <4>1. pc[t] # "drain" /\ UNCHANGED <<sendBuf, sendCount>>
        BY <3>2 DEF ReleaseClose, ReleasePush, sendVars
      <4>2. ~InUse(s)
        BY <2>2, <4>1 DEF InUse, At, SlotPcs, ReleasePcs
      <4> QED
        BY <4>1, <4>2 DEF SendOK, FlagOK
    <3> QED
      BY <1>2, <3>1, <3>2 DEF Release
  <2>9. /\ At(s, {"gather"})' = {} /\ At(s, {"post"})' = {} /\ At(s, {"failDec", "failClear"})' = {}
        /\ At(s, {"wsaSend", "failDec", "failClear", "sendDone"})' = {} /\ sendIO'[s] = "none"
    BY <2>7 DEF Idle, At, RefPcs, SendPcs
  <2> QED
    BY <2>6, <2>7, <2>8, <2>9 DEF SendOK, FlagOK, Cared
<1> QED
  BY <1>1, <1>2

LEMMA SendOKOther ==
  ASSUME IInv, WorkOK, MarkOK, OwnerOK, Next, NEW s \in Sessions, SendOK(s), OtherTouches(s)
  PROVE  SendOK(s)'
<1>0. Shape /\ DataTypes /\ OutsideStep
  BY DataShape DEF OtherTouches, OutsideStep, KernelStep, ClientStep, MainStep
<1>1. UNCHANGED <<pc, cur, sendFlag, sendCount, sendArr>> /\ UNCHANGED sendBuf
  BY <1>0, OutsideFrame DEF OtherTouches, KernelCompletes, RecvArrives, RecvEnds, SendCompletes,
     SendAborts, ClientClose, ClientReset, MainInvalidate, MainCancel, sendVars
<1>2. /\ (recvIO'[s] = "none" <=> recvIO[s] = "none") /\ (sendIO'[s] = "none" <=> sendIO[s] = "none")
      /\ sendIO'[s] \in {"pending", "done"} <=> sendIO[s] \in {"pending", "done"}
  BY <1>0, OutsideFrame
<1>3. UNCHANGED <<toBeDeleted, invalidFlag>>
  BY DEF OtherTouches, KernelCompletes, RecvArrives, RecvEnds, SendCompletes,
     SendAborts, ClientClose, ClientReset, MainInvalidate, MainCancel, sockVars
<1>4. sock'[s] = None \/ sock'[s] = sock[s]
  BY <1>0 DEF OtherTouches, KernelCompletes, RecvArrives, RecvEnds, SendCompletes,
     SendAborts, ClientClose, ClientReset, MainInvalidate, MainCancel, sockVars, DataTypes,
        SlotTypes
<1>5. conn[toBeDeleted[s]] = "reset" => conn'[toBeDeleted[s]] = "reset"
  BY <1>0 DEF OtherTouches, KernelCompletes, RecvArrives, RecvEnds, SendCompletes,
     SendAborts, ClientClose, ClientReset, MainInvalidate, MainCancel, netVars, DataTypes,
        NetTypes
<1>6. sock[s] = None => sock'[s] = None
  BY <1>0, <1>4
<1> QED
  BY <1>0, <1>1, <1>2, <1>3, <1>4, <1>5, <1>6 DEF SendOK, FlagOK, Cared, InUse, Idle, At

Sends == \A s \in Sessions : SendOK(s)

LEMMA SendsStep ==
  ASSUME IInv, WorkOK, MarkOK, OwnerOK, Sends, [Next]_vars
  PROVE  Sends'
<1>0. Shape /\ DataTypes
  BY DataShape
<1> SUFFICES ASSUME NEW s \in Sessions PROVE SendOK(s)'
  BY DEF Sends
<1>1. SendOK(s)
  BY DEF Sends
<1>2. CASE UNCHANGED vars
  BY <1>1, <1>2 DEF vars, threadVars, sockVars, sendVars, ioVars, netVars, SendOK, FlagOK, Cared,
     InUse, Idle, At
<1> SUFFICES ASSUME Next PROVE SendOK(s)'
  BY <1>2
<1>3. CASE ~ThreadTouches(s) /\ ~OtherTouches(s)
  <2>1. Same(s)
    BY <1>3, Untouched
  <2>2. CASE toBeDeleted[s] \in Conns
    BY <1>1, <2>1, <2>2 DEF Same, SendOK, FlagOK, Cared, InUse, Idle, At
  <2>3. CASE toBeDeleted[s] \notin Conns
    <3>1. invalidFlag[s] # 1 /\ invalidFlag'[s] # 1
      BY <2>1, <2>3 DEF OwnerOK, Same
    <3>2. Idle(s)
      BY <3>1 DEF MarkOK, InUse
    <3>3. At(s, {"failDec", "failClear"}) = {}
      BY <3>2 DEF Idle, At, RefPcs, SendPcs
    <3> QED
      BY <1>1, <2>1, <3>1, <3>3 DEF Same, SendOK, FlagOK, Cared, InUse, Idle, At
  <2> QED
    BY <2>2, <2>3
<1>4. CASE OtherTouches(s)
  BY <1>1, <1>4, SendOKOther
<1>5. ASSUME NEW t \in Threads, cur[t] = s, HolderStep(t) \/ IODecrement(t) \/ Release(t)
      PROVE  SendOK(s)'
  <2>1. pc[t] \in SlotPcs
    BY <1>0, <1>5, HolderFrame DEF IODecrement, Release, ReleaseDrain, ReleaseClose, ReleasePush,
       SlotPcs, RefPcs, ReleasePcs
  <2>2. toBeDeleted[s] \in Conns
    BY <1>5, <2>1, Held
  <2> QED
    BY <1>1, <1>5, <2>2, SendOKHolder, SendOKLeave
<1>6. ASSUME NEW t \in Threads, DequeueRecv(t, s) \/ DequeueSend(t, s)
      PROVE  SendOK(s)'
  <2>1. /\ pc[t] = "gqcs" /\ cur[t] = None
        /\ UNCHANGED <<sendVars, sock, toBeDeleted, invalidFlag, conn>>
        /\ cur' = [cur EXCEPT ![t] = s]
        /\ \A u \in Threads : u # t => pc'[u] = pc[u]
    BY <1>0, <1>6 DEF DequeueRecv, DequeueSend, sockVars, netVars, Goto, Shape, WorkOK
  <2>2. ~Idle(s)
    BY <1>6 DEF Idle, DequeueRecv, DequeueSend
  <2>3. CASE DequeueRecv(t, s)
    <3>1. pc'[t] \in {"ioDec", "loop"} /\ UNCHANGED sendIO /\ recvIO[s] # "none"
      BY <1>0, <2>3 DEF DequeueRecv, Goto, Shape
    <3>2. SamePlaces(s)
      BY <1>0, <2>1, <3>1 DEF SamePlaces, At, Shape, TryPcs, FlagPcs
    <3>3. ~Idle(s)'
      BY <1>0, <2>1, <3>1 DEF Idle, At, Shape, RefPcs, SendPcs
    <3> QED
      BY <1>1, <2>1, <2>2, <3>1, <3>2, <3>3 DEF SamePlaces, SendOK, FlagOK, Cared, InUse, sendVars
  <2>4. CASE DequeueSend(t, s)
    <3>1. /\ pc'[t] \in {"ioDec", "sendDone"} /\ UNCHANGED recvIO /\ sendIO[s] = "done"
          /\ sendIO'[s] = "none"
      BY <1>0, <2>4 DEF DequeueSend, Goto, Shape
    <3>2. sendFlag[s] = 1 /\ sendCount[s] > 0
      BY <1>1, <3>1 DEF SendOK, FlagOK, IInv, SendExclusive
    <3> QED
      BY <1>0, <1>1, <2>1, <2>2, <3>1, <3>2 DEF Shape, SendOK, FlagOK, Cared, InUse, Idle, At,
         RefPcs,
         SendPcs, TryPcs, FlagPcs, sendVars
  <2> QED
    BY <1>6, <2>3, <2>4
<1>7. ASSUME NEW c \in Conns, Accept(c), freeStack # <<>>, s = freeStack[Len(freeStack)]
      PROVE  SendOK(s)'
  <2>1. /\ Idle(s) /\ \A u \in Threads : cur[u] = s => pc[u] \notin SlotPcs
        /\ cur' = [cur EXCEPT ![Acceptor] = s] /\ pc' = [pc EXCEPT ![Acceptor] = "init"]
    BY <1>7, Popped
  <2>2. UNCHANGED <<sendVars, ioVars>>
    BY <1>7 DEF Accept
  <2>3. ~InUse(s) /\ ~InUse(s)'
    BY <1>0, <2>1, <2>2 DEF Shape, InUse, Idle, At, SlotPcs, ReleasePcs, RefPcs, SendPcs, ioVars
  <2>4. Idle(s)'
    BY <2>3 DEF InUse
  <2>5. /\ At(s, {"gather"})' = {} /\ At(s, {"post"})' = {} /\ At(s, {"failDec", "failClear"})' = {}
        /\ At(s, {"wsaSend", "failDec", "failClear", "sendDone"})' = {} /\ sendIO'[s] = "none"
    BY <2>4 DEF Idle, At, RefPcs, SendPcs
  <2> QED
    BY <1>1, <2>2, <2>3, <2>4, <2>5 DEF SendOK, FlagOK, Cared, sendVars
<1>8. CASE InitSession /\ s = cur[Acceptor]
  <2>1. /\ pc[Acceptor] = "init" /\ pc' = [pc EXCEPT ![Acceptor] = "onAccept"] /\ UNCHANGED cur
        /\ UNCHANGED <<ioVars, sendBuf, sendArr>>
        /\ sendCount' = [sendCount EXCEPT ![s] = 0] /\ sendFlag' = [sendFlag EXCEPT ![s] = 0]
    BY <1>8 DEF InitSession, Goto
  <2>2. Idle(s) /\ \A u \in Threads : u # Acceptor /\ cur[u] = s => pc[u] \notin SlotPcs
    BY <1>0, <1>8, <2>1, Alone DEF Shape
  <2>3. ~InUse(s)
    BY <1>8, <2>1, <2>2 DEF InUse, At, SlotPcs, ReleasePcs
  <2>4. sendBuf'[s] = <<>> /\ sendCount'[s] = 0 /\ sendFlag'[s] = 0
    BY <1>0, <1>1, <2>1, <2>3 DEF SendOK, FlagOK, DataTypes, SendTypes
  <2>5. /\ At(s, {"gather"})' = {} /\ At(s, {"post"})' = {} /\ At(s, {"failDec", "failClear"})' = {}
        /\ At(s, {"wsaSend", "failDec", "failClear", "sendDone"})' = {}
    BY <1>0, <2>1, <2>2 DEF Shape, At, SlotPcs, RefPcs, SendPcs
  <2>6. sendIO'[s] = "none"
    BY <2>1, <2>2 DEF Idle, ioVars
  <2> QED
    BY <2>4, <2>5, <2>6 DEF SendOK, FlagOK, Cared
<1> QED
  BY <1>2, <1>3, <1>4, <1>5, <1>6, <1>7, <1>8 DEF ThreadTouches
LEMMA InitSends == Init => WorkOK /\ MarkOK /\ OwnerOK /\ Sends
<1> SUFFICES ASSUME Init PROVE WorkOK /\ MarkOK /\ OwnerOK /\ Sends
  OBVIOUS
<1>0. /\ \A t \in Threads : cur[t] = None /\ op[t] = "none" /\ batch[t] = 0
      /\ \A t \in Threads : pc[t] = "accept" \/ pc[t] = "gqcs"
      /\ \A s \in Sessions : /\ recvIO[s] = "none" /\ sendIO[s] = "none" /\ recvLen[s] = 0
                             /\ sendLen[s] = 0 /\ sendBuf[s] = <<>> /\ sendCount[s] = 0
                             /\ sendFlag[s] = 0 /\ toBeDeleted[s] = Garbage /\ invalidFlag[s] = -1
      /\ \A c \in Conns : conn[c] = "new"
      /\ None \notin Sessions /\ Garbage \notin Conns
  BY ConstantsAssumption DEF Init
<1>1. \A s \in Sessions : /\ ~InUse(s) /\ Idle(s) /\ At(s, {"init", "close", "breakRef"}) = {}
  BY <1>0 DEF InUse, Idle, At
<1>2. \A s \in Sessions : IsFree(s)
  <2> SUFFICES ASSUME NEW s \in Sessions PROVE IsFree(s)
    OBVIOUS
  <2>1. SessionMax - s \in 1 .. SessionMax /\ SessionMax - (SessionMax - s) = s
    BY ConstantsAssumption DEF Sessions
  <2>2. freeStack = [i \in 1 .. SessionMax |-> SessionMax - i]
    BY DEF Init
  <2> QED
    BY <2>1, <2>2 DEF IsFree
<1>3. WorkOK
  BY <1>0 DEF WorkOK, RecvPcs, SendPcs
<1>4. MarkOK
  BY <1>0, <1>1, <1>2 DEF MarkOK
<1>5. OwnerOK
  BY <1>0 DEF OwnerOK
<1>6. Sends
  BY <1>0, <1>1 DEF Sends, SendOK, FlagOK, Cared, At
<1> QED
  BY <1>3, <1>4, <1>5, <1>6

\* the control part of the invariant
Control == IInv /\ WorkOK /\ MarkOK /\ OwnerOK /\ Sends

LEMMA ControlInvariance == Spec => []Control
<1>1. Init => Control
  BY InitInv, InitSends DEF Control
<1>2. Control /\ [Next]_vars => Control'
  BY IInvStep, WorkStep, MarkStep, OwnerStep, SendsStep DEF Control
<1> QED
  BY <1>1, <1>2, PTL DEF Spec

\* A queued packet is never orphaned: while its connection works, somebody
\* owns _sendFlag or is about to try it.
THEOREM NothingOrphaned == Spec => []NoOrphanedSend
<1>1. Sends => NoOrphanedSend
  BY DEF Sends, SendOK, Cared, TryPcs, NoOrphanedSend
<1> QED
  BY <1>1, ControlInvariance, PTL DEF Control

-----------------------------------------------------------------------------
(***************************************************************************)
(* What WSASend left behind                                                *)
(***************************************************************************)
\* nothing has happened on a connection that is not accepted yet
Fresh ==
  \A c \in Conns : conn[c] = "new" =>
    arrived[c] = 0 /\ echoed[c] = <<>> /\ ~sendFailed[c] /\ \A p \in Packets : refCount[c][p] = 0

\* where _sendCount is known to be zero, unless a WSASend failed at once
TakePcs == {"size2", "clear1", "size4", "clear2", "gather", "post", "flagClear"}
CountOK(s) ==
  /\ At(s, {"post", "breakSock"}) = {} => sendCount[s] <= Len(sendArr[s])
  /\ toBeDeleted[s] \in Conns =>
       LET c == toBeDeleted[s] IN
       /\ sendFailed[c] =>
            conn[c] \in {"reset", "closed"} \/ (sock[s] = None /\ sendIO[s] # "pending")
       /\ At(s, {"failDec", "failClear"}) # {} => sendFailed[c]
       /\ ~sendFailed[c] /\ (sendFlag[s] = 0 \/ At(s, TakePcs) # {}) => sendCount[s] = 0
       /\ At(s, {"init"}) # {} => ~sendFailed[c] /\ echoed[c] = <<>>
       /\ At(s, {"init", "onAccept"}) # {} => arrived[c] = 0
CountsOK == \A s \in Sessions : CountOK(s)

LEMMA FreshStep ==
  ASSUME Control, Fresh, [Next]_vars
  PROVE  Fresh'
<1>0. Shape /\ DataTypes
  BY DataShape DEF Control
<1> SUFFICES ASSUME NEW c \in Conns, conn'[c] = "new"
             PROVE  arrived'[c] = arrived[c] /\ echoed'[c] = echoed[c] /\ conn[c] = "new"
                    /\ sendFailed'[c] = sendFailed[c] /\ refCount'[c] = refCount[c]
  BY DEF Fresh
<1> USE <1>0 DEF DataTypes, NetTypes, RefTypes, netVars
<1>1. ASSUME NEW t \in Threads, HolderStep(t)
      PROVE  arrived'[c] = arrived[c] /\ echoed'[c] = echoed[c] /\ conn[c] = "new"
             /\ sendFailed'[c] = sendFailed[c] /\ refCount'[c] = refCount[c]
  <2>1. UNCHANGED conn
    BY <1>1, QuietFrame DEF QuietStep
  <2>2. pc[t] \in SlotPcs
    BY <1>1, HolderFrame DEF SlotPcs
  <2>3. PICK d \in Conns : d = toBeDeleted[cur[t]]
    BY <2>2, Held DEF Control
  <2>4. d # c
    BY <2>1, <2>2, <2>3, Held DEF Control, OwnerOK
  <2>5. CASE SendPost(t)
    BY <2>1, <2>3, <2>4, <2>5 DEF SendPost, SendSize1, SendSize2, SendSize3, SendSize4, SizeTest,
       SendXchg1, SendXchg2, FlagXchg, SendClear1, SendClear2, SendFailClear, FlagReset,
       SendGather, SendPrepare, WSASendPosted, WSASendFails, SendFailDec
  <2>6. CASE RecvStep(t)
    BY <2>1, <2>6 DEF RecvStep, RecvPost, WSARecvPosted, WSARecvFails, RecvFail
  <2>7. CASE HandleStep(t)
    BY <2>1, <2>3, <2>4, <2>7 DEF HandleStep, OnAccept, SendDone, FlagClear, ProcessMessage,
       ProcessEnd, Unref, ReleaseAll
  <2> QED
    BY <1>1, <2>5, <2>6, <2>7 DEF HolderStep
<1>2. ASSUME NEW t \in Threads, Release(t)
      PROVE  arrived'[c] = arrived[c] /\ echoed'[c] = echoed[c] /\ conn[c] = "new"
             /\ sendFailed'[c] = sendFailed[c] /\ refCount'[c] = refCount[c]
  <2>1. pc[t] \in ReleasePcs
    BY <1>2 DEF Release, ReleaseDrain, ReleaseClose, ReleasePush, ReleasePcs
  <2>2. PICK d \in Conns : d = toBeDeleted[cur[t]]
    BY <2>1, Alone DEF Control
  <2>3. CASE ReleaseDrain(t)
    <3>1. UNCHANGED conn
      BY <2>3 DEF ReleaseDrain
    <3>2. d # c
      BY <2>1, <2>2, <3>1, Alone DEF Control, OwnerOK
    <3> QED
      BY <2>2, <2>3, <3>2 DEF ReleaseDrain, ReleaseAll
  <2>4. CASE ReleaseClose(t) \/ ReleasePush(t)
    BY <2>2, <2>4 DEF ReleaseClose, ReleasePush
  <2> QED
    BY <1>2, <2>3, <2>4 DEF Release
<1>3. CASE \/ \E t \in Threads : IODecrement(t)
           \/ \E t \in Threads, s \in Sessions : DequeueRecv(t, s) \/ DequeueSend(t, s)
           \/ \E t \in Threads : DequeueNull(t)
           \/ \E d \in Conns : Accept(d)
           \/ AcceptFails \/ InitSession \/ AcceptEnd
  BY <1>3 DEF IODecrement, DequeueRecv, DequeueSend, DequeueNull, Accept, AcceptFails,
     InitSession, AcceptEnd
<1>4. CASE OutsideStep
  <2>1. ASSUME NEW s \in Sessions,
               KernelCompletes(s) \/ \E k \in 1 .. MaxMsg : RecvArrives(s, k)
        PROVE  arrived'[c] = arrived[c] /\ echoed'[c] = echoed[c] /\ conn[c] = "new"
               /\ sendFailed'[c] = sendFailed[c] /\ refCount'[c] = refCount[c]
    <3>1. UNCHANGED conn
      BY <2>1 DEF KernelCompletes, RecvArrives, RecvEnds, SendCompletes, SendAborts
    <3>2. PICK d \in Conns : d = toBeDeleted[s]
      BY <2>1 DEF Control, IInv, ConnOK, KernelCompletes, RecvArrives, RecvEnds, SendCompletes,
         SendAborts
    <3>3. d # c
      BY <3>1, <3>2 DEF Control, OwnerOK
    <3> QED
      BY <2>1, <3>2, <3>3 DEF KernelCompletes, RecvArrives, RecvEnds, SendCompletes, SendAborts
  <2>2. CASE ClientStep \/ CallStop \/ (\E s \in Sessions : CallDisconnect(s)) \/ MainStep
    BY <2>2 DEF ClientStep, ClientClose, ClientReset, CallStop, CallDisconnect, MainStep,
       MainCheck, MainInvalidate, MainCancel, StopPost, StopJoined
  <2> QED
    BY <1>4, <2>1, <2>2 DEF OutsideStep, KernelStep
<1>5. CASE UNCHANGED vars
  BY <1>5 DEF vars
<1> QED
  BY <1>1, <1>2, <1>3, <1>4, <1>5, NextSplit
LEMMA NextShape ==
  ASSUME IInv, [Next]_vars
  PROVE  Shape' /\ DataTypes'
<1>1. TypeOK'
  BY IInvStep DEF IInv
<1>2. Shape'
  BY <1>1, ConstantsAssumption DEF TypeOK, Shape, IOStates, Threads
<1>3. DataTypes'
  BY <1>1, TypeParts DEF DataTypes
<1> QED
  BY <1>2, <1>3

LEMMA CountHolder ==
  ASSUME Control, NEW s \in Sessions, CountOK(s), toBeDeleted[s] \in Conns,
         NEW t \in Threads, HolderStep(t), cur[t] = s
  PROVE  CountOK(s)'
<1>0. Shape /\ DataTypes
  BY DataShape DEF Control
<1>1. /\ pc[t] \in RefPcs /\ pc'[t] \in RefPcs
      /\ \A u \in Threads : u # t => pc'[u] = pc[u]
      /\ UNCHANGED <<cur, op, toBeDeleted, conn>>
  BY <1>0, HolderFrame, QuietFrame DEF QuietStep
<1>2. pc[t] \in FlagPcs =>
         /\ sendFlag[s] = 1
         /\ sendIO[s] = IF pc[t] \in {"wsaSend", "failDec"} THEN "posting" ELSE "none"
         /\ \A u \in Threads : cur[u] = s /\ u # t => pc[u] \notin FlagPcs
  BY FlagAlone DEF Control
<1>3. At(s, {"init"}) = {}
  BY <1>1, Alone DEF Control, At, RefPcs, SendPcs, SlotPcs
<1>4. At(s, {"init"})' = {}
  BY <1>1, <1>3 DEF At, RefPcs, SendPcs
<1> USE <1>0, <1>1, <1>2, <1>3, <1>4 DEF Shape, DataTypes, SlotTypes, SendTypes, NetTypes,
    CountOK, At, Goto, AfterSend, FlagPcs, TakePcs, sendVars, ioVars, sockVars, netVars
<1>a. CASE SendSize1(t) \/ SendSize3(t)
  <2>1. /\ pc[t] \in {"size1", "size3"} /\ pc'[t] \in {"xchg1", "xchg2", "unref", "ioDec"}
        /\ UNCHANGED <<sendVars, sockVars, ioVars, netVars>>
    BY <1>a DEF SendSize1, SendSize3, SizeTest
  <2>2. At(s, {"post", "breakSock"})' = At(s, {"post", "breakSock"})
    BY <2>1
  <2>3. /\ At(s, {"failDec", "failClear"})' = At(s, {"failDec", "failClear"})
        /\ At(s, TakePcs)' = At(s, TakePcs)
        /\ At(s, {"init", "onAccept"})' = At(s, {"init", "onAccept"})
    BY <2>1
  <2> HIDE DEF At, TakePcs
  <2> QED
    BY <2>1, <2>2, <2>3
<1>5. CASE SendSize2(t) \/ SendSize4(t)
  <2>1. pc[t] \in {"size2", "size4"} /\ pc' \in {[pc EXCEPT ![t] = l] : l \in {"clear1", "clear2", "gather"}}
        /\ UNCHANGED <<sendVars, sockVars, ioVars, netVars>>
    BY <1>5 DEF SendSize2, SendSize4, SizeTest
  <2>2. At(s, TakePcs) # {}
    BY <2>1
  <2> QED
    BY <2>1, <2>2
<1>6. CASE SendXchg1(t) \/ SendXchg2(t)
  BY <1>6 DEF SendXchg1, SendXchg2, FlagXchg
<1>7. CASE SendClear1(t) \/ SendClear2(t) \/ SendFailClear(t)
  BY <1>7 DEF SendClear1, SendClear2, SendFailClear, FlagReset
<1>8. CASE SendGather(t)
  <2>1. /\ pc[t] = "gather" /\ pc' = [pc EXCEPT ![t] = "post"]
        /\ UNCHANGED <<sendFlag, sendCount, sockVars, ioVars, netVars>>
    BY <1>8 DEF SendGather
  <2> QED
    BY <2>1
<1>9. CASE SendPrepare(t)
  <2>1. /\ pc[t] = "post" /\ UNCHANGED <<sendFlag, sendArr, sockVars, netVars>>
        /\ sendIO' = [sendIO EXCEPT ![s] = "posting"]
    BY <1>9 DEF SendPrepare
  <2>2. CASE sock[s] = None
    <3>1. pc' = [pc EXCEPT ![t] = "breakSock"] /\ UNCHANGED sendCount
      BY <1>9, <2>2 DEF SendPrepare
    <3> QED
      BY <2>1, <2>2, <3>1
  <2>3. CASE sock[s] # None
    <3>1. pc' = [pc EXCEPT ![t] = "wsaSend"] /\ sendCount' = [sendCount EXCEPT ![s] = Len(sendArr[s])]
      BY <1>9, <2>3 DEF SendPrepare
    <3> QED
      BY <2>1, <2>3, <3>1
  <2> QED
    BY <2>2, <2>3
<1>10. CASE WSASendPosted(t) \/ WSASendFails(t)
  BY <1>10 DEF WSASendPosted, WSASendFails
<1>11. CASE SendFailDec(t)
  BY <1>11 DEF SendFailDec
<1>12. CASE RecvStep(t)
  BY <1>12 DEF RecvStep, RecvPost, WSARecvPosted, WSARecvFails, RecvFail
<1>13. CASE SendDone(t)
  <2>1. pc[t] = "sendDone" /\ sendCount[s] > 0
    BY <1>13 DEF SendDone, Control, Sends, SendOK, FlagOK
  <2>2. /\ pc' = [pc EXCEPT ![t] = "flagClear"] /\ sendCount' = [sendCount EXCEPT ![s] = 0]
        /\ UNCHANGED <<sendFlag, sendBuf, sendArr, sockVars, ioVars, netVars>>
    BY <1>13, <2>1 DEF SendDone
  <2> QED
    BY <2>1, <2>2
<1>14. CASE FlagClear(t)
  BY <1>14 DEF FlagClear
<1>15. CASE (t = Acceptor /\ OnAccept) \/ ProcessMessage(t)
  <2>1. /\ pc[t] \in {"onAccept", "loop"} /\ pc' = [pc EXCEPT ![t] = "size1"]
        /\ UNCHANGED <<sendFlag, sendCount, sendArr, sockVars, ioVars, netVars>>
    BY <1>15 DEF OnAccept, ProcessMessage
  <2> QED
    BY <2>1
<1>16. CASE ProcessEnd(t) \/ Unref(t)
  BY <1>16 DEF ProcessEnd, Unref
<1> QED
  BY <1>a, <1>5, <1>6, <1>7, <1>8, <1>9, <1>10, <1>11, <1>12, <1>13, <1>14, <1>15, <1>16
     DEF HolderStep, SendPost, HandleStep

\* a session nobody uses, or that is being set up or released
LEMMA CountIdle ==
  ASSUME NEW s \in Sessions, Shape', DataTypes', Idle(s)', sendCount'[s] = 0, At(s, {"init"})' = {},
         toBeDeleted'[s] \in Conns =>
           (sendFailed'[toBeDeleted'[s]] => conn'[toBeDeleted'[s]] \in {"reset", "closed"} \/ sock'[s] = None)
  PROVE  CountOK(s)'
<1>1. /\ At(s, {"failDec", "failClear"})' = {} /\ At(s, {"init", "onAccept"})' = {}
      /\ sendIO'[s] = "none"
  BY DEF At, Idle, RefPcs, SendPcs
<1>2. Len(sendArr'[s]) >= 0
  BY DEF DataTypes, SendTypes
<1> QED
  BY <1>1, <1>2 DEF CountOK
LEMMA CountLeave ==
  ASSUME Control, Next, NEW s \in Sessions, CountOK(s), toBeDeleted[s] \in Conns,
         NEW t \in Threads, IODecrement(t) \/ Release(t), cur[t] = s
  PROVE  CountOK(s)'
<1>0. Shape /\ DataTypes /\ Shape' /\ DataTypes'
  BY DataShape, NextShape DEF Control
<1>1. CASE IODecrement(t)
  <2>1. /\ pc[t] = "ioDec" /\ UNCHANGED <<sendVars, sendIO, sock, toBeDeleted, netVars>>
        /\ \A u \in Threads : u # t => pc'[u] = pc[u] /\ cur'[u] = cur[u]
        /\ pc'[t] \in {"drain", "acceptEnd", "gqcs"}
    BY <1>0, <1>1 DEF IODecrement, Goto, GoHome, sockVars, netVars, ioVars, Shape
  <2>2. \A u \in Threads, l \in {"post", "breakSock", "failDec", "failClear", "init", "onAccept"} \cup TakePcs :
           cur'[u] = s /\ pc'[u] = l <=> cur[u] = s /\ pc[u] = l
    BY <1>0, <2>1 DEF TakePcs
  <2>3. /\ At(s, {"post", "breakSock"})' = At(s, {"post", "breakSock"})
        /\ At(s, {"failDec", "failClear"})' = At(s, {"failDec", "failClear"})
        /\ At(s, TakePcs)' = At(s, TakePcs) /\ At(s, {"init"})' = At(s, {"init"})
        /\ At(s, {"init", "onAccept"})' = At(s, {"init", "onAccept"})
    BY <2>2 DEF At, TakePcs
  <2> QED
    BY <2>1, <2>3 DEF CountOK, sendVars, netVars
<1>2. CASE Release(t)
  <2>1. pc[t] \in ReleasePcs
    BY <1>2 DEF Release, ReleaseDrain, ReleaseClose, ReleasePush, ReleasePcs
  <2>2. Idle(s) /\ \A u \in Threads : u # t /\ cur[u] = s => pc[u] \notin SlotPcs
    BY <2>1, Alone DEF Control
  <2>3. /\ UNCHANGED <<recvIO, sendIO, sock, toBeDeleted, sendFailed>>
        /\ \A u \in Threads : u # t => pc'[u] = pc[u] /\ cur'[u] = cur[u]
        /\ pc'[t] \notin RefPcs \cup {"init"}
    BY <1>0, <1>2 DEF Release, ReleaseDrain, ReleaseClose, ReleasePush, ioVars, sockVars, netVars,
       Goto, GoHome, Shape, RefPcs, SendPcs
  <2>4. Idle(s)' /\ At(s, {"init"})' = {}
    BY <2>2, <2>3 DEF Idle, At, SlotPcs
  <2>5. CASE ReleaseDrain(t)
    <3>1. sendCount'[s] = 0 /\ UNCHANGED conn
      BY <1>0, <2>5 DEF ReleaseDrain, DataTypes, SendTypes, netVars
    <3>2. toBeDeleted'[s] \in Conns =>
           (sendFailed'[toBeDeleted'[s]] => conn'[toBeDeleted'[s]] \in {"reset", "closed"} \/ sock'[s] = None)
      BY <2>3, <3>1 DEF CountOK
    <3> QED
      BY <1>0, <2>4, <3>1, <3>2, CountIdle
  <2>6. CASE ReleaseClose(t) \/ ReleasePush(t)
    <3>1. pc[t] # "drain" /\ UNCHANGED sendCount
      BY <2>6 DEF ReleaseClose, ReleasePush, sendVars
    <3>2. ~InUse(s)
      BY <2>2, <3>1 DEF InUse, At, SlotPcs, ReleasePcs
    <3>3. sendCount'[s] = 0
      BY <3>1, <3>2 DEF Control, Sends, SendOK, FlagOK
    <3>4. conn'[toBeDeleted[s]] = conn[toBeDeleted[s]] \/ conn'[toBeDeleted[s]] = "closed"
      BY <1>0, <2>6 DEF ReleaseClose, ReleasePush, DataTypes, NetTypes, netVars
    <3>5. toBeDeleted'[s] \in Conns =>
           (sendFailed'[toBeDeleted'[s]] => conn'[toBeDeleted'[s]] \in {"reset", "closed"} \/ sock'[s] = None)
      BY <2>3, <3>4 DEF CountOK
    <3> QED
      BY <1>0, <2>4, <3>3, <3>5, CountIdle
  <2> QED
    BY <1>2, <2>5, <2>6 DEF Release
<1> QED
  BY <1>1, <1>2

LEMMA CountOther ==
  ASSUME Control, Next, NEW s \in Sessions, CountOK(s), OtherTouches(s)
  PROVE  CountOK(s)'
<1>0. Shape /\ DataTypes /\ OutsideStep
  BY DataShape DEF Control, OtherTouches, OutsideStep, KernelStep, ClientStep, MainStep
<1>1. UNCHANGED <<pc, cur, sendFlag, sendCount, sendArr, toBeDeleted, sendFailed>>
  BY <1>0, OutsideFrame DEF OtherTouches, KernelCompletes, RecvArrives, RecvEnds, SendCompletes,
     SendAborts, ClientClose, ClientReset, MainInvalidate, MainCancel, sendVars, sockVars, netVars
<1>2. /\ recvIO'[s] = recvIO[s] \/ (recvIO[s] = "pending" /\ recvIO'[s] = "done")
      /\ sendIO'[s] = sendIO[s] \/ (sendIO[s] = "pending" /\ sendIO'[s] = "done")
  BY <1>0, OutsideFrame
<1>3. sock'[s] = None \/ sock'[s] = sock[s]
  BY <1>0 DEF OtherTouches, KernelCompletes, RecvArrives, RecvEnds, SendCompletes,
     SendAborts, ClientClose, ClientReset, MainInvalidate, MainCancel, sockVars, DataTypes,
        SlotTypes
<1>4. conn[toBeDeleted[s]] \in {"reset", "closed"} =>
        conn'[toBeDeleted[s]] = conn[toBeDeleted[s]]
  BY <1>0 DEF OtherTouches, KernelCompletes, RecvArrives, RecvEnds, SendCompletes,
     SendAborts, ClientClose, ClientReset, MainInvalidate, MainCancel, netVars, DataTypes,
        NetTypes
\* nothing arrives, and nothing leaves, while the slot is set up
<1>5. At(s, {"init"}) # {} => UNCHANGED echoed
  <2>1. At(s, {"init"}) # {} => sendIO[s] = "none"
    BY DEF Control, IInv, SlotLife, Idle, At
  <2> QED
    BY <2>1 DEF OtherTouches, KernelCompletes, RecvArrives, RecvEnds, SendCompletes,
       SendAborts, ClientClose, ClientReset, MainInvalidate, MainCancel, netVars
<1>6. At(s, {"init", "onAccept"}) # {} => UNCHANGED arrived
  <2>1. At(s, {"init", "onAccept"}) # {} => recvIO[s] = "none"
    BY DEF Control, IInv, SlotLife, Idle, At, RecvExclusive, Receiving, RecvPcs
  <2> QED
    BY <2>1 DEF OtherTouches, KernelCompletes, RecvArrives, RecvEnds, SendCompletes,
       SendAborts, ClientClose, ClientReset, MainInvalidate, MainCancel, netVars
<1>8. /\ At(s, {"post", "breakSock"})' = At(s, {"post", "breakSock"})
      /\ At(s, {"failDec", "failClear"})' = At(s, {"failDec", "failClear"})
      /\ At(s, TakePcs)' = At(s, TakePcs) /\ At(s, {"init"})' = At(s, {"init"})
      /\ At(s, {"init", "onAccept"})' = At(s, {"init", "onAccept"})
  BY <1>1 DEF At
<1> QED
  BY <1>0, <1>1, <1>2, <1>3, <1>4, <1>5, <1>6, <1>8 DEF CountOK

LEMMA CountsStep ==
  ASSUME Control, Fresh, CountsOK, [Next]_vars
  PROVE  CountsOK'
<1>0. Shape /\ DataTypes
  BY DataShape DEF Control
<1> SUFFICES ASSUME NEW s \in Sessions PROVE CountOK(s)'
  BY DEF CountsOK
<1>1. CountOK(s)
  BY DEF CountsOK
<1>2. CASE UNCHANGED vars
  BY <1>1, <1>2 DEF vars, threadVars, sockVars, sendVars, ioVars, netVars, CountOK, At
<1> SUFFICES ASSUME Next PROVE CountOK(s)'
  BY <1>2
<1>a. Shape' /\ DataTypes'
  BY NextShape DEF Control
<1>3. CASE ~ThreadTouches(s) /\ ~OtherTouches(s)
  <2>1. Same(s)
    BY <1>3, Untouched DEF Control
  <2>2. /\ At(s, {"post", "breakSock"})' = At(s, {"post", "breakSock"})
        /\ At(s, {"failDec", "failClear"})' = At(s, {"failDec", "failClear"})
        /\ At(s, TakePcs)' = At(s, TakePcs) /\ At(s, {"init"})' = At(s, {"init"})
        /\ At(s, {"init", "onAccept"})' = At(s, {"init", "onAccept"})
    BY <2>1 DEF At, Same
  <2> QED
    BY <1>1, <2>1, <2>2 DEF Same, CountOK
<1>4. CASE OtherTouches(s)
  BY <1>1, <1>4, CountOther
<1>5. ASSUME NEW t \in Threads, cur[t] = s, HolderStep(t) \/ IODecrement(t) \/ Release(t)
      PROVE  CountOK(s)'
  <2>1. pc[t] \in SlotPcs
    BY <1>0, <1>5, HolderFrame DEF IODecrement, Release, ReleaseDrain, ReleaseClose, ReleasePush,
       SlotPcs, RefPcs, ReleasePcs
  <2>2. toBeDeleted[s] \in Conns
    BY <1>5, <2>1, Held DEF Control
  <2> QED
    BY <1>1, <1>5, <2>2, CountHolder, CountLeave
<1>6. ASSUME NEW t \in Threads, DequeueRecv(t, s) \/ DequeueSend(t, s)
      PROVE  CountOK(s)'
  <2>1. /\ pc[t] = "gqcs" /\ cur[t] = None
        /\ UNCHANGED <<sendVars, sock, toBeDeleted, conn, arrived, echoed, sendFailed>>
        /\ cur' = [cur EXCEPT ![t] = s]
        /\ \A u \in Threads : u # t => pc'[u] = pc[u]
        /\ pc'[t] \in {"ioDec", "loop", "sendDone"} /\ (sendIO'[s] = sendIO[s] \/ sendIO'[s] = "none")
    BY <1>0, <1>6 DEF DequeueRecv, DequeueSend, sockVars, netVars, Goto, Shape, Control, WorkOK,
       DataTypes, IOTypes
  <2>2. /\ At(s, {"post", "breakSock"})' = At(s, {"post", "breakSock"})
        /\ At(s, {"failDec", "failClear"})' = At(s, {"failDec", "failClear"})
        /\ At(s, TakePcs)' = At(s, TakePcs) /\ At(s, {"init"})' = At(s, {"init"})
        /\ At(s, {"init", "onAccept"})' = At(s, {"init", "onAccept"})
    BY <1>0, <2>1 DEF At, Shape, TakePcs
  <2> QED
    BY <1>1, <2>1, <2>2 DEF CountOK, sendVars
<1>7. ASSUME NEW c \in Conns, Accept(c), freeStack # <<>>, s = freeStack[Len(freeStack)]
      PROVE  CountOK(s)'
  <2>1. /\ Idle(s) /\ \A u \in Threads : cur[u] = s => pc[u] \notin SlotPcs
        /\ cur' = [cur EXCEPT ![Acceptor] = s] /\ pc' = [pc EXCEPT ![Acceptor] = "init"]
        /\ toBeDeleted' = [toBeDeleted EXCEPT ![s] = c]
    BY <1>7, Popped DEF Control
  <2>2. conn[c] = "new" /\ UNCHANGED <<sendVars, ioVars, arrived, echoed, sendFailed>>
    BY <1>7 DEF Accept
  <2>3. ~InUse(s)
    BY <2>1 DEF InUse, At, SlotPcs, ReleasePcs
  <2>4. sendCount[s] = 0
    BY <2>3 DEF Control, Sends, SendOK, FlagOK
  <2>5. At(s, {"failDec", "failClear"})' = {}
    BY <1>0, <2>1 DEF Shape, At, SlotPcs, RefPcs, SendPcs
  <2>6. toBeDeleted'[s] = c /\ arrived[c] = 0 /\ echoed[c] = <<>> /\ ~sendFailed[c]
    BY <1>0, <2>1, <2>2 DEF Fresh, DataTypes, SlotTypes
  <2>7. Len(sendArr[s]) >= 0
    BY <1>0 DEF DataTypes, SendTypes
  <2> QED
    BY <2>2, <2>4, <2>5, <2>6, <2>7 DEF CountOK, sendVars
<1>8. CASE InitSession /\ s = cur[Acceptor]
  <2>1. /\ pc[Acceptor] = "init" /\ pc' = [pc EXCEPT ![Acceptor] = "onAccept"] /\ UNCHANGED cur
        /\ UNCHANGED <<ioVars, sendBuf, sendArr, toBeDeleted, netVars>>
        /\ sendCount' = [sendCount EXCEPT ![s] = 0] /\ sendFlag' = [sendFlag EXCEPT ![s] = 0]
    BY <1>8 DEF InitSession, Goto
  <2>2. Idle(s) /\ \A u \in Threads : u # Acceptor /\ cur[u] = s => pc[u] \notin SlotPcs
    BY <1>0, <1>8, <2>1, Alone DEF Control, Shape
  <2>3. Acceptor \in At(s, {"init"}) /\ Acceptor \in At(s, {"init", "onAccept"})
    BY <1>0, <1>8, <2>1 DEF At, Shape
  <2>4. toBeDeleted[s] \in Conns =>
          ~sendFailed[toBeDeleted[s]] /\ arrived[toBeDeleted[s]] = 0
    BY <1>1, <2>3 DEF CountOK
  <2>5. At(s, {"failDec", "failClear"})' = {} /\ At(s, {"init"})' = {}
    BY <1>0, <2>1, <2>2 DEF Shape, At, SlotPcs, RefPcs, SendPcs
  <2>6. sendCount'[s] = 0 /\ Len(sendArr[s]) >= 0
    BY <1>0, <2>1 DEF DataTypes, SendTypes
  <2> QED
    BY <2>1, <2>4, <2>5, <2>6 DEF CountOK, netVars
<1> QED
  BY <1>3, <1>4, <1>5, <1>6, <1>7, <1>8 DEF ThreadTouches
(***************************************************************************)
(* Packets are numbered in the order they are queued                       *)
(***************************************************************************)
\* the packets b, b + 1, ...
RunFrom(q, b) == \A i \in 1 .. Len(q) : q[i] = b + i - 1

\* packets of a send that have not reached the client, if it did not fail
InFlight(s) ==
  IF At(s, {"post"}) # {} THEN Len(sendArr[s])
  ELSE IF At(s, {"sendDone"}) # {} \/ sendLen[s] > 0 THEN 0 ELSE sendCount[s]

\* n is the packet the session queues next: it answers the message that
\* follows those handled
Counts(s, n) ==
  LET c == toBeDeleted[s] IN
  /\ \A t \in Threads : cur[t] = s /\ Receiving(t) =>
       n + Behind(t) = arrived[c] + IF pc[t] = "onAccept" THEN 0 ELSE 1
  /\ (\A t \in Threads : cur[t] = s => ~Receiving(t)) => n + recvLen[s] = arrived[c] + 1

\* what is queued ends before n, what was gathered and not released comes
\* before that, and what the client has not got yet follows what it has
Run(s, n) ==
  LET c == toBeDeleted[s]
      first == n - Len(sendBuf[s]) IN
  /\ first >= 0 /\ RunFrom(sendBuf[s], first)
  /\ \E b \in Nat : b + Len(Gathered(s)) <= first /\ RunFrom(Gathered(s), b)
  /\ ~sendFailed[c] =>
       /\ Len(echoed[c]) + InFlight(s) = first /\ InFlight(s) <= Len(sendArr[s])
       /\ RunFrom(Prefix(sendArr[s], InFlight(s)), Len(echoed[c]))

Numbered(s) ==
  InUse(s) /\ At(s, {"breakSock"}) = {} => \E n \in Nat : Counts(s, n) /\ Run(s, n)
AllNumbered == \A s \in Sessions : Numbered(s)

LEMMA PrefixFacts ==
  ASSUME NEW q \in Seq(Int), NEW n \in Nat, n <= Len(q)
  PROVE  /\ Prefix(q, n) \in Seq(Int) /\ Len(Prefix(q, n)) = n
         /\ \A i \in 1 .. n : Prefix(q, n)[i] = q[i]
<1>1. Prefix(q, n) \in Seq(Int) /\ Len(Prefix(q, n)) = n
  BY DEF Prefix
<1>2. \A i \in 1 .. n : Prefix(q, n)[i] = q[i]
  BY DEF Prefix
<1> QED
  BY <1>1, <1>2

LEMMA PrefixAll ==
  ASSUME NEW q \in Seq(Int)
  PROVE  Prefix(q, Len(q)) = q /\ Prefix(q, 0) = <<>> /\ Len(Prefix(q, 0)) = 0
<1>1. Prefix(q, Len(q)) = q
  BY DEF Prefix
<1>2. Prefix(q, 0) = <<>>
  BY DEF Prefix
<1> QED
  BY <1>1, <1>2

LEMMA RunAppend ==
  ASSUME NEW q \in Seq(Int), NEW b \in Int, RunFrom(q, b), NEW x \in Int, x = b + Len(q)
  PROVE  /\ Append(q, x) \in Seq(Int) /\ Len(Append(q, x)) = Len(q) + 1
         /\ RunFrom(Append(q, x), b)
<1>1. /\ Append(q, x) \in Seq(Int) /\ Len(Append(q, x)) = Len(q) + 1 /\ Len(q) \in Nat
      /\ Append(q, x)[Len(q) + 1] = x
      /\ \A i \in 1 .. Len(q) : Append(q, x)[i] = q[i]
  OBVIOUS
<1> QED
  BY <1>1 DEF RunFrom

LEMMA RunConcat ==
  ASSUME NEW q \in Seq(Int), NEW r \in Seq(Int), NEW b \in Int, RunFrom(q, b), RunFrom(r, b + Len(q))
  PROVE  /\ q \o r \in Seq(Int) /\ Len(q \o r) = Len(q) + Len(r)
         /\ RunFrom(q \o r, b)
<1>1. /\ q \o r \in Seq(Int) /\ Len(q \o r) = Len(q) + Len(r) /\ Len(q) \in Nat /\ Len(r) \in Nat
  OBVIOUS
<1>2. \A i \in 1 .. Len(q) : (q \o r)[i] = q[i]
  OBVIOUS
<1>3. ASSUME NEW i \in Len(q) + 1 .. Len(q) + Len(r) PROVE (q \o r)[i] = b + i - 1
  <2>1. i - Len(q) \in 1 .. Len(r) /\ (q \o r)[i] = r[i - Len(q)]
    BY <1>1
  <2>2. r[i - Len(q)] = b + Len(q) + (i - Len(q)) - 1
    BY <2>1 DEF RunFrom
  <2> QED
    BY <1>1, <2>1, <2>2
<1> QED
  BY <1>1, <1>2, <1>3 DEF RunFrom

LEMMA RunTaken ==
  ASSUME NEW q \in Seq(Int), NEW b \in Int, RunFrom(q, b),
         NEW n \in Nat, n = Smaller(MaxSend, Len(q))
  PROVE  RunFrom(Prefix(q, n), b) /\ RunFrom(SubSeq(q, n + 1, Len(q)), b + n)
<1> DEFINE r == SubSeq(q, n + 1, Len(q))
           m == Len(q)
<1>0. m \in Nat
  OBVIOUS
<1>1. /\ n <= m /\ Len(Prefix(q, n)) = n /\ \A i \in 1 .. n : Prefix(q, n)[i] = q[i]
      /\ Len(r) = m - n /\ \A i \in 1 .. m - n : r[i] = q[n + i]
  BY Taken
<1>2. \A i \in 1 .. m : q[i] = b + i - 1
  BY DEF RunFrom
<1> HIDE DEF r, m
<1>3. \A i \in 1 .. n : Prefix(q, n)[i] = b + i - 1
  BY <1>0, <1>1, <1>2
<1>4. ASSUME NEW i \in 1 .. m - n PROVE r[i] = b + n + i - 1
  <2>1. n + i \in 1 .. m
    BY <1>0, <1>1
  <2>2. r[i] = q[n + i]
    BY <1>1
  <2>3. q[n + i] = b + (n + i) - 1
    BY <1>2, <2>1
  <2> QED
    BY <1>0, <2>2, <2>3
<1>5. RunFrom(Prefix(q, n), b)
  BY <1>1, <1>3 DEF RunFrom
<1>6. RunFrom(r, b + n)
  BY <1>1, <1>4 DEF RunFrom
<1> QED
  BY <1>5, <1>6 DEF r

\* a step that changes none of this
RunSame(s) ==
  LET c == toBeDeleted[s] IN
  /\ toBeDeleted'[s] = c /\ sendBuf'[s] = sendBuf[s] /\ sendArr'[s] = sendArr[s]
  /\ Gathered(s)' = Gathered(s)
  /\ ~sendFailed'[c] =>
       ~sendFailed[c] /\ InFlight(s)' = InFlight(s) /\ echoed'[c] = echoed[c]
CountsSame(s) ==
  LET c == toBeDeleted[s] IN
  /\ toBeDeleted'[s] = c /\ arrived'[c] = arrived[c] /\ recvLen'[s] = recvLen[s]
  /\ \A t \in Threads :
       /\ cur'[t] = s /\ Receiving(t)' <=> cur[t] = s /\ Receiving(t)
       /\ cur[t] = s /\ Receiving(t) =>
            Behind(t)' = Behind(t) /\ (pc'[t] = "onAccept" <=> pc[t] = "onAccept")

LEMMA RunKept ==
  ASSUME NEW s \in Sessions, NEW n \in Nat, Run(s, n), RunSame(s)
  PROVE  Run(s, n)'
BY DEF Run, RunSame

LEMMA CountsKept ==
  ASSUME NEW s \in Sessions, NEW n \in Nat, Counts(s, n), CountsSame(s)
  PROVE  Counts(s, n)'
BY DEF Counts, CountsSame
\* the thread t of session s is where no other thread of the session is
LEMMA HolderFacts ==
  ASSUME Control, Next, NEW s \in Sessions, NEW t \in Threads, HolderStep(t), cur[t] = s
  PROVE  /\ Shape /\ DataTypes /\ batch \in [Threads -> Nat] /\ toBeDeleted[s] \in Conns
         /\ pc[t] \in RefPcs /\ pc'[t] \in RefPcs /\ \A u \in Threads : u # t => pc'[u] = pc[u]
         /\ UNCHANGED <<cur, op, toBeDeleted, conn>>
         /\ ~Idle(s) /\ InUse(s) /\ At(s, {"breakSock"}) = {}
         /\ pc[t] \in FlagPcs =>
              /\ sendFlag[s] = 1
              /\ sendIO[s] = IF pc[t] \in {"wsaSend", "failDec"} THEN "posting" ELSE "none"
              /\ \A u \in Threads : cur[u] = s /\ u # t => pc[u] \notin FlagPcs
         /\ Receiving(t) =>
              /\ recvIO[s] \in {"none", "posting"}
              /\ \A u \in Threads : cur[u] = s /\ u # t => ~Receiving(u)
<1>1. Shape /\ DataTypes /\ batch \in [Threads -> Nat]
  BY DataShape DEF Control
<1>2. /\ pc[t] \in RefPcs /\ pc'[t] \in RefPcs
      /\ \A u \in Threads : u # t => pc'[u] = pc[u]
      /\ UNCHANGED <<cur, op, toBeDeleted, conn>>
  BY <1>1, HolderFrame, QuietFrame DEF QuietStep
<1>3. toBeDeleted[s] \in Conns
  BY <1>2, Held DEF Control, SlotPcs
<1>4. ~Idle(s) /\ InUse(s)
  BY <1>2 DEF Idle, InUse, At
<1>5. At(s, {"breakSock"}) = {}
  BY DEF Next, Running, BreakPcs, At
<1>6. pc[t] \in FlagPcs =>
         /\ sendFlag[s] = 1
         /\ sendIO[s] = IF pc[t] \in {"wsaSend", "failDec"} THEN "posting" ELSE "none"
         /\ \A u \in Threads : cur[u] = s /\ u # t => pc[u] \notin FlagPcs
  BY FlagAlone DEF Control
<1>7. Receiving(t) =>
        /\ recvIO[s] \in {"none", "posting"}
        /\ \A u \in Threads : cur[u] = s /\ u # t => ~Receiving(u)
  BY DEF Control, IInv, RecvExclusive
<1> QED
  BY <1>1, <1>2, <1>3, <1>4, <1>5, <1>6, <1>7

\* steps of SendPost that move no packet
LEMMA StillSend ==
  ASSUME Control, Next, NEW s \in Sessions, NEW t \in Threads, cur[t] = s,
         \/ SendSize1(t) \/ SendXchg1(t) \/ SendSize2(t) \/ SendClear1(t)
         \/ SendSize3(t) \/ SendXchg2(t) \/ SendSize4(t) \/ SendClear2(t)
         \/ WSASendPosted(t) \/ WSASendFails(t) \/ SendFailDec(t) \/ SendFailClear(t)
  PROVE  RunSame(s) /\ CountsSame(s)
<1>0. HolderStep(t)
  BY DEF HolderStep, SendPost
<1>1. /\ Shape /\ DataTypes /\ toBeDeleted[s] \in Conns
      /\ \A u \in Threads : u # t => pc'[u] = pc[u]
      /\ UNCHANGED <<cur, op, toBeDeleted>>
  BY <1>0, HolderFacts
<1>2. /\ UNCHANGED <<batch, sendBuf, sendArr, sendCount, arrived, echoed, recvLen, sendLen>>
      /\ ~sendFailed'[toBeDeleted[s]] => ~sendFailed[toBeDeleted[s]]
  BY <1>1 DEF SendSize1, SendSize2, SendSize3, SendSize4, SizeTest, SendXchg1, SendXchg2,
     FlagXchg,
     SendClear1, SendClear2, SendFailClear, FlagReset, WSASendPosted, WSASendFails, SendFailDec,
     sendVars, ioVars, netVars, DataTypes, NetTypes
<1>3. /\ pc[t] \in SendPcs \ {"gather", "post"}
      /\ pc'[t] \in (SendPcs \ {"post"}) \cup {AfterSend(t)}
  BY <1>1 DEF SendSize1, SendSize2, SendSize3, SendSize4, SizeTest, SendXchg1, SendXchg2,
     FlagXchg,
     SendClear1, SendClear2, SendFailClear, FlagReset, WSASendPosted, WSASendFails, SendFailDec,
     Goto, Shape, SendPcs
<1>4. At(s, {"post"})' = At(s, {"post"}) /\ At(s, {"sendDone"})' = At(s, {"sendDone"})
  BY <1>1, <1>3 DEF At, AfterSend, SendPcs
<1>5. RunSame(s)
  BY <1>1, <1>2, <1>4 DEF RunSame, Gathered, InFlight
<1>6. op[t] # "none"
  BY <1>3 DEF Control, WorkOK
<1>7. /\ Receiving(t)' <=> Receiving(t)
      /\ \A u \in Threads : Behind(u)' = Behind(u)
      /\ pc[t] # "onAccept" /\ pc'[t] # "onAccept"
      /\ \A u \in Threads : u # t => (Receiving(u)' <=> Receiving(u))
  BY <1>1, <1>2, <1>3, <1>6 DEF Receiving, Behind, AfterSend, RecvPcs, SendPcs
<1>8. CountsSame(s)
  BY <1>1, <1>2, <1>7 DEF CountsSame
<1> QED
  BY <1>5, <1>8

\* the other steps that move no packet
LEMMA StillRest ==
  ASSUME Control, Next, NEW s \in Sessions, NEW t \in Threads, cur[t] = s,
         \/ RecvPost(t) \/ WSARecvFails(t)
         \/ FlagClear(t) \/ ProcessEnd(t) \/ Unref(t),
         pc'[t] # "breakSock"
  PROVE  RunSame(s) /\ CountsSame(s)
<1>0. HolderStep(t)
  BY DEF HolderStep, RecvStep, HandleStep
<1>1. /\ Shape /\ DataTypes /\ toBeDeleted[s] \in Conns
      /\ \A u \in Threads : u # t => pc'[u] = pc[u]
      /\ UNCHANGED <<cur, op, toBeDeleted>>
  BY <1>0, HolderFacts
<1>2. /\ UNCHANGED <<batch, sendBuf, sendArr, sendCount, arrived, echoed, recvLen, sendLen, sendFailed>>
  BY <1>1 DEF RecvPost, WSARecvFails, FlagClear, ProcessEnd, Unref, sendVars, ioVars, netVars
<1>3. \/ pc[t] \in RecvPcs \ {"onAccept"} /\ pc'[t] \in RecvPcs \ {"onAccept"}
      \/ pc[t] = "flagClear" /\ pc'[t] = "size1" /\ op[t] = "send"
  BY <1>1 DEF RecvPost, WSARecvFails, FlagClear, ProcessEnd, Unref,
     Goto, Shape, RecvPcs, Control, IInv, CurOK
<1>4. At(s, {"post"})' = At(s, {"post"}) /\ At(s, {"sendDone"})' = At(s, {"sendDone"})
  BY <1>1, <1>3 DEF At, RecvPcs
<1>5. RunSame(s)
  BY <1>1, <1>2, <1>4 DEF RunSame, Gathered, InFlight
<1>6. /\ Receiving(t)' <=> Receiving(t)
      /\ \A u \in Threads : Behind(u)' = Behind(u)
      /\ pc[t] # "onAccept" /\ pc'[t] # "onAccept"
      /\ \A u \in Threads : u # t => (Receiving(u)' <=> Receiving(u))
  BY <1>1, <1>2, <1>3 DEF Receiving, Behind, RecvPcs, SendPcs
<1>7. CountsSame(s)
  BY <1>1, <1>2, <1>6 DEF CountsSame
<1> QED
  BY <1>5, <1>7

\* the thread hands the session's receive to the kernel, or gives it up
LEMMA ReceiveHandedOn ==
  ASSUME Control, Next, NEW s \in Sessions, NEW t \in Threads, cur[t] = s,
         WSARecvPosted(t) \/ RecvFail(t), NEW n \in Nat, Counts(s, n)
  PROVE  RunSame(s) /\ Counts(s, n)'
<1>0. HolderStep(t)
  BY DEF HolderStep, RecvStep
<1>1. /\ Shape /\ DataTypes /\ toBeDeleted[s] \in Conns
      /\ \A u \in Threads : u # t => pc'[u] = pc[u]
      /\ UNCHANGED <<cur, op, toBeDeleted>>
      /\ Receiving(t) => \A u \in Threads : cur[u] = s /\ u # t => ~Receiving(u)
      /\ Receiving(t) => recvIO[s] \in {"none", "posting"}
  BY <1>0, HolderFacts
<1>2. /\ UNCHANGED <<batch, sendBuf, sendArr, sendCount, arrived, echoed, recvLen, sendLen, sendFailed>>
      /\ pc[t] \in {"wsaRecv", "recvFail"} /\ pc' = [pc EXCEPT ![t] = "ioDec"]
  BY <1>1 DEF WSARecvPosted, RecvFail, sendVars, ioVars, netVars, Goto
<1>3. At(s, {"post"})' = At(s, {"post"}) /\ At(s, {"sendDone"})' = At(s, {"sendDone"})
  BY <1>1, <1>2 DEF At, Shape
<1>4. RunSame(s)
  BY <1>1, <1>2, <1>3 DEF RunSame, Gathered, InFlight
<1>5. Receiving(t) /\ Behind(t) = 0 /\ pc[t] # "onAccept"
  BY <1>2 DEF Receiving, RecvPcs, Control, WorkOK
<1>6. recvLen[s] = 0
  BY <1>1, <1>5 DEF Control, WorkOK
<1>7. n = arrived[toBeDeleted[s]] + 1
  BY <1>5 DEF Counts
<1>8. \A u \in Threads : cur'[u] = s => ~Receiving(u)'
  BY <1>1, <1>2, <1>5 DEF Receiving, RecvPcs, SendPcs, Shape
<1>9. Counts(s, n)'
  BY <1>1, <1>2, <1>6, <1>7, <1>8 DEF Counts
<1> QED
  BY <1>4, <1>9
\* the steps of a send leave the receive side alone
LEMMA SendKeepsCounts ==
  ASSUME Control, Next, NEW s \in Sessions, NEW t \in Threads, cur[t] = s,
         SendGather(t) \/ SendPrepare(t) \/ SendDone(t), pc'[t] # "breakSock"
  PROVE  CountsSame(s)
<1>0. HolderStep(t)
  BY DEF HolderStep, SendPost, HandleStep
<1>1. /\ Shape /\ toBeDeleted[s] \in Conns
      /\ \A u \in Threads : u # t => pc'[u] = pc[u]
      /\ UNCHANGED <<cur, op, toBeDeleted>>
  BY <1>0, HolderFacts
<1>2. UNCHANGED <<batch, arrived, recvLen>>
  BY DEF SendGather, SendPrepare, SendDone, ioVars, netVars
<1>3. \/ pc[t] \in {"gather", "post"} /\ pc'[t] \in {"post", "wsaSend"}
      \/ pc[t] = "sendDone" /\ pc'[t] \in {"flagClear", "breakCount"}
  BY <1>1 DEF SendGather, SendPrepare, SendDone, Goto, Shape
<1>4. /\ Receiving(t)' <=> Receiving(t)
      /\ \A u \in Threads : Behind(u)' = Behind(u)
      /\ pc[t] # "onAccept" /\ pc'[t] # "onAccept"
      /\ \A u \in Threads : u # t => (Receiving(u)' <=> Receiving(u))
  BY <1>1, <1>2, <1>3 DEF Receiving, Behind, RecvPcs, SendPcs
<1> QED
  BY <1>1, <1>2, <1>4 DEF CountsSame

\* packets move from the queue to _pSendPacketArr
LEMMA GatherNumbers ==
  ASSUME Control, Next, NEW s \in Sessions, NEW t \in Threads, cur[t] = s, CountOK(s),
         SendGather(t), NEW n \in Nat, Run(s, n)
  PROVE  Run(s, n)'
<1>0. HolderStep(t)
  BY DEF HolderStep, SendPost
<1> DEFINE c == toBeDeleted[s]
           q == sendBuf[s]
           k == Smaller(MaxSend, Len(q))
           rest == SubSeq(q, k + 1, Len(q))
           first == n - Len(q)
<1>1. /\ Shape /\ DataTypes /\ c \in Conns
      /\ \A u \in Threads : u # t => pc'[u] = pc[u]
      /\ UNCHANGED <<cur, op, toBeDeleted>>
      /\ pc[t] \in FlagPcs => \A u \in Threads : cur[u] = s /\ u # t => pc[u] \notin FlagPcs
      /\ pc[t] \in FlagPcs \ {"wsaSend", "failDec"} => sendIO[s] = "none"
  BY <1>0, HolderFacts
<1>a. /\ pc[t] = "gather" /\ pc' = [pc EXCEPT ![t] = "post"]
      /\ UNCHANGED <<sendCount, echoed, sendFailed, sendLen>>
      /\ sendArr' = [sendArr EXCEPT ![s] = Prefix(q, k)]
      /\ sendBuf' = [sendBuf EXCEPT ![s] = rest]
  <2>1. sendArr' = [sendArr EXCEPT ![s] = Prefix(q, k)]
    BY DEF SendGather
  <2>2. sendBuf' = [sendBuf EXCEPT ![s] = rest]
    BY Zenon DEF SendGather
  <2>3. pc[t] = "gather" /\ pc' = [pc EXCEPT ![t] = "post"]
        /\ UNCHANGED <<sendCount, echoed, sendFailed, sendLen>>
    BY DEF SendGather, Goto, ioVars, netVars
  <2> QED
    BY <2>1, <2>2, <2>3
<1> HIDE DEF rest
<1>2. /\ pc[t] = "gather" /\ pc' = [pc EXCEPT ![t] = "post"]
      /\ UNCHANGED <<sendCount, echoed, sendFailed, sendLen>>
      /\ sendArr'[s] = Prefix(q, k) /\ sendBuf'[s] = rest
  BY <1>a, <1>1 DEF DataTypes, SendTypes
<1>3. q \in Seq(Int) /\ Len(q) \in Nat /\ k \in Nat
  BY <1>1, TakenCount DEF DataTypes, SendTypes
<1>4. first \in Nat /\ RunFrom(q, first)
  BY <1>3 DEF Run
<1>5. /\ k <= Len(q) /\ Len(Prefix(q, k)) = k /\ Prefix(q, k) \in Seq(Int)
      /\ Len(rest) = Len(q) - k
      /\ RunFrom(Prefix(q, k), first) /\ RunFrom(rest, first + k)
  <2>1. \A v \in Seq(Int), m \in Nat : m = Smaller(MaxSend, Len(v)) =>
          /\ m <= Len(v) /\ Len(Prefix(v, m)) = m /\ Prefix(v, m) \in Seq(Int)
          /\ Len(SubSeq(v, m + 1, Len(v))) = Len(v) - m
    BY Taken
  <2>2. RunFrom(Prefix(q, k), first) /\ RunFrom(SubSeq(q, k + 1, Len(q)), first + k)
    BY <1>3, <1>4, RunTaken
  <2> HIDE DEF q, k, first
  <2> QED
    BY <1>3, <2>1, <2>2 DEF rest, k
<1>6. At(s, {"post"})' # {}
  BY <1>1, <1>2 DEF At, Shape
<1>7. Gathered(s)' = Prefix(q, k) /\ InFlight(s)' = k
  BY <1>2, <1>5, <1>6 DEF Gathered, InFlight
<1>8. ~sendFailed[c] => Len(echoed[c]) = first
  <2>1. At(s, {"post"}) = {} /\ At(s, {"sendDone"}) = {} /\ At(s, TakePcs) # {}
    BY <1>1, <1>2 DEF At, FlagPcs, TakePcs
  <2>2. sendLen[s] = 0
    BY <1>1, <1>2 DEF Control, WorkOK, FlagPcs
  <2>3. ~sendFailed[c] => sendCount[s] = 0
    BY <1>1, <2>1 DEF CountOK
  <2>4. ~sendFailed[c] => InFlight(s) = 0
    BY <2>1, <2>2, <2>3 DEF InFlight
  <2>5. echoed[c] \in Seq(Int)
    BY <1>1 DEF DataTypes, NetTypes
  <2> QED
    BY <2>4, <2>5 DEF Run
<1>9. Prefix(Prefix(q, k), k) = Prefix(q, k)
  BY <1>5, PrefixAll
<1>b. first = n - Len(q)
  OBVIOUS
<1> HIDE DEF c, q, k, first
<1>10. n - Len(rest) = first + k
  BY <1>3, <1>4, <1>5, <1>b
<1>11. first + k >= 0
  BY <1>3, <1>4
<1>12. \E b \in Nat : b + Len(Prefix(q, k)) <= first + k /\ RunFrom(Prefix(q, k), b)
  BY <1>3, <1>4, <1>5
<1>13. /\ n - Len(sendBuf'[s]) = first + k /\ RunFrom(sendBuf'[s], first + k)
       /\ \E b \in Nat : b + Len(Gathered(s)') <= first + k /\ RunFrom(Gathered(s)', b)
  BY <1>2, <1>5, <1>7, <1>10, <1>12
<1>14. ASSUME ~sendFailed'[c]
       PROVE  /\ Len(echoed'[c]) + InFlight(s)' = first + k /\ InFlight(s)' <= Len(sendArr'[s])
              /\ RunFrom(Prefix(sendArr'[s], InFlight(s)'), Len(echoed'[c]))
  <2>1. Len(echoed'[c]) = first
    BY <1>2, <1>8, <1>14
  <2>2. Len(sendArr'[s]) = k /\ Prefix(sendArr'[s], InFlight(s)') = Prefix(q, k)
    BY <1>2, <1>5, <1>7, <1>9
  <2> QED
    BY <1>3, <1>5, <1>7, <2>1, <2>2
<1>15. toBeDeleted'[s] = c
  BY <1>1 DEF c
<1> QED
  BY <1>11, <1>13, <1>14, <1>15 DEF Run

\* _sendCount is set, and what was gathered is sent
LEMMA PrepareNumbers ==
  ASSUME Control, Next, NEW s \in Sessions, NEW t \in Threads, cur[t] = s,
         SendPrepare(t), pc'[t] # "breakSock"
  PROVE  RunSame(s)
<1>0. HolderStep(t)
  BY DEF HolderStep, SendPost
<1>1. /\ Shape /\ DataTypes
      /\ \A u \in Threads : u # t => pc'[u] = pc[u]
      /\ UNCHANGED <<cur, op, toBeDeleted>>
      /\ pc[t] \in FlagPcs => \A u \in Threads : cur[u] = s /\ u # t => pc[u] \notin FlagPcs
      /\ pc[t] \in FlagPcs \ {"wsaSend", "failDec"} => sendIO[s] = "none"
  BY <1>0, HolderFacts
<1>2. /\ pc[t] = "post" /\ pc'[t] = "wsaSend"
      /\ UNCHANGED <<sendArr, sendBuf, echoed, sendFailed, sendLen>>
      /\ sendCount'[s] = Len(sendArr[s])
  BY <1>1 DEF SendPrepare, sendVars, ioVars, netVars, DataTypes, SendTypes, Shape, Goto
<1>3. sendArr[s] \in Seq(Int)
  BY <1>1 DEF DataTypes, SendTypes
<1>4. At(s, {"post"}) # {} /\ At(s, {"post"})' = {} /\ At(s, {"sendDone"})' = {}
  BY <1>1, <1>2 DEF At, FlagPcs
<1>5. sendLen[s] = 0
  BY <1>1, <1>2 DEF Control, WorkOK, FlagPcs
<1>6. Prefix(sendArr[s], Len(sendArr[s])) = sendArr[s]
  BY <1>3, PrefixAll
<1>7. Gathered(s)' = Gathered(s) /\ InFlight(s)' = InFlight(s)
  BY <1>2, <1>4, <1>5, <1>6 DEF Gathered, InFlight
<1> QED
  BY <1>1, <1>2, <1>7 DEF RunSame

\* the send is done: nothing is gathered or in flight
LEMMA DoneNumbers ==
  ASSUME Control, Next, NEW s \in Sessions, NEW t \in Threads, cur[t] = s,
         SendDone(t), NEW n \in Nat, Run(s, n)
  PROVE  Run(s, n)'
<1>0. HolderStep(t)
  BY DEF HolderStep, HandleStep
<1> DEFINE c == toBeDeleted[s]
<1>1. /\ Shape /\ DataTypes /\ c \in Conns
      /\ \A u \in Threads : u # t => pc'[u] = pc[u]
      /\ UNCHANGED <<cur, op, toBeDeleted>>
      /\ pc[t] \in FlagPcs => \A u \in Threads : cur[u] = s /\ u # t => pc[u] \notin FlagPcs
      /\ pc[t] \in FlagPcs \ {"wsaSend", "failDec"} => sendIO[s] = "none"
  BY <1>0, HolderFacts
<1>2. pc[t] = "sendDone" /\ sendCount[s] > 0
  BY DEF SendDone, Control, Sends, SendOK, FlagOK, At
<1>3. /\ pc' = [pc EXCEPT ![t] = "flagClear"] /\ sendCount'[s] = 0
      /\ UNCHANGED <<sendArr, sendBuf, echoed, sendFailed, sendLen>>
  <2>1. /\ pc' = [pc EXCEPT ![t] = "flagClear"] /\ sendCount' = [sendCount EXCEPT ![s] = 0]
        /\ UNCHANGED <<sendArr, sendBuf, ioVars, netVars>>
    BY <1>1, <1>2 DEF SendDone, Goto, DataTypes, SendTypes
  <2> QED
    BY <1>1, <2>1 DEF ioVars, netVars, DataTypes, SendTypes
<1>4. sendArr[s] \in Seq(Int) /\ Len(echoed[c]) \in Nat /\ Len(sendBuf[s]) \in Nat
  BY <1>1 DEF DataTypes, SendTypes, NetTypes
<1>5. At(s, {"sendDone"}) # {} /\ At(s, {"post"}) = {} /\ At(s, {"post"})' = {} /\ At(s, {"sendDone"})' = {}
  BY <1>1, <1>2, <1>3 DEF At, FlagPcs, Shape
<1>6. sendLen[s] = 0
  BY <1>1, <1>2 DEF Control, WorkOK, FlagPcs
<1>7. InFlight(s) = 0 /\ InFlight(s)' = 0 /\ Gathered(s)' = <<>>
  BY <1>3, <1>4, <1>5, <1>6, PrefixAll DEF InFlight, Gathered
<1>8. PICK first \in Nat : first = n - Len(sendBuf[s]) /\ RunFrom(sendBuf[s], first)
  BY <1>4 DEF Run
<1>9. ~sendFailed[c] => Len(echoed[c]) = first
  BY <1>4, <1>7, <1>8 DEF Run
<1>10. \E b \in Nat : b + Len(Gathered(s)') <= first /\ RunFrom(Gathered(s)', b)
  BY <1>7, <1>8 DEF RunFrom
<1>11. RunFrom(Prefix(sendArr[s], 0), Len(echoed[c])) /\ 0 <= Len(sendArr[s])
  BY <1>4, PrefixAll DEF RunFrom
<1> HIDE DEF c
<1>12. ASSUME ~sendFailed[c] PROVE Len(echoed[c]) + 0 = first
  <2>1. Len(echoed[c]) = first
    BY <1>9, <1>12
  <2> QED
    BY <1>8, <2>1
<1> QED
  BY <1>1, <1>3, <1>7, <1>8, <1>10, <1>11, <1>12 DEF Run, c
\* packet n is queued
LEMMA QueueNumbers ==
  ASSUME NEW s \in Sessions, DataTypes, toBeDeleted[s] \in Conns, NEW n \in Nat, Run(s, n),
         sendBuf'[s] = Append(sendBuf[s], n), toBeDeleted'[s] = toBeDeleted[s],
         UNCHANGED <<sendArr, sendFailed, echoed>>,
         Gathered(s)' = Gathered(s), InFlight(s)' = InFlight(s)
  PROVE  Run(s, n + 1)'
<1> DEFINE q == sendBuf[s]
<1>1. q \in Seq(Int) /\ Len(q) \in Nat
  BY DEF DataTypes, SendTypes
<1>2. PICK first \in Nat : first = n - Len(q) /\ RunFrom(q, first)
  BY <1>1 DEF Run
<1>3. n = first + Len(q)
  BY <1>1, <1>2
<1>4. Len(Append(q, n)) = Len(q) + 1 /\ RunFrom(Append(q, n), first)
  <2> HIDE DEF q
  <2> QED BY <1>1, <1>2, <1>3, RunAppend
<1>5. (n + 1) - Len(Append(q, n)) = first
  BY <1>1, <1>2, <1>4
<1>6. (n + 1) - Len(sendBuf'[s]) = first /\ n - Len(sendBuf[s]) = first
      /\ RunFrom(sendBuf'[s], first) /\ first >= 0
  BY <1>2, <1>4, <1>5
<1> QED
  BY <1>6 DEF Run

LEMMA AcceptNumbers ==
  ASSUME Control, Next, NEW s \in Sessions, CountOK(s), cur[Acceptor] = s, OnAccept,
         NEW n \in Nat, Counts(s, n), Run(s, n)
  PROVE  n = 0 /\ Counts(s, n + 1)' /\ Run(s, n + 1)'
<1>0. Acceptor \in Threads /\ HolderStep(Acceptor)
  BY DEF HolderStep, HandleStep, Threads
<1>1. /\ Shape /\ DataTypes /\ toBeDeleted[s] \in Conns
      /\ \A u \in Threads : u # Acceptor => pc'[u] = pc[u]
      /\ UNCHANGED <<cur, op, toBeDeleted>>
      /\ Receiving(Acceptor) => \A u \in Threads : cur[u] = s /\ u # Acceptor => ~Receiving(u)
  BY <1>0, HolderFacts
<1>2. /\ pc[Acceptor] = "onAccept" /\ pc' = [pc EXCEPT ![Acceptor] = "size1"]
      /\ sendBuf' = [sendBuf EXCEPT ![s] = Append(@, 0)]
      /\ UNCHANGED <<batch, sendArr, sendCount, sendLen, recvLen, arrived, echoed, sendFailed>>
  BY DEF OnAccept, Goto, ioVars, netVars
<1>3. Receiving(Acceptor) /\ op[Acceptor] = "accept" /\ Behind(Acceptor) = 0
  BY <1>0, <1>2 DEF Receiving, RecvPcs, Control, WorkOK, Behind
<1>4. arrived[toBeDeleted[s]] = 0
  <2>1. At(s, {"init", "onAccept"}) # {}
    BY <1>0, <1>2 DEF At
  <2> QED
    BY <1>1, <2>1 DEF CountOK
<1>5. n = 0
  BY <1>0, <1>2, <1>3, <1>4 DEF Counts
<1>6. At(s, {"post"})' = At(s, {"post"}) /\ At(s, {"sendDone"})' = At(s, {"sendDone"})
  BY <1>1, <1>2 DEF At, Shape
<1>7. Gathered(s)' = Gathered(s) /\ InFlight(s)' = InFlight(s)
  BY <1>2, <1>6 DEF Gathered, InFlight
<1>8. sendBuf'[s] = Append(sendBuf[s], n) /\ toBeDeleted'[s] = toBeDeleted[s]
  BY <1>1, <1>2, <1>5 DEF DataTypes, SendTypes
<1>9. Run(s, n + 1)'
  BY <1>1, <1>2, <1>7, <1>8, QueueNumbers
<1>10. \A u \in Threads : cur'[u] = s /\ Receiving(u)' => u = Acceptor
  BY <1>1, <1>2, <1>3 DEF Receiving
<1>11. Receiving(Acceptor)' /\ Behind(Acceptor)' = 0 /\ pc'[Acceptor] # "onAccept"
  BY <1>1, <1>2, <1>3 DEF Shape, Receiving, SendPcs, Behind
<1>12. Counts(s, n + 1)'
  BY <1>0, <1>1, <1>2, <1>4, <1>5, <1>10, <1>11 DEF Counts
<1> QED
  BY <1>5, <1>9, <1>12

LEMMA MessageNumbers ==
  ASSUME Control, Next, NEW s \in Sessions, NEW t \in Threads, cur[t] = s, ProcessMessage(t),
         NEW n \in Nat, Counts(s, n), Run(s, n)
  PROVE  /\ n = arrived[toBeDeleted[s]] - batch[t] + 1
         /\ Counts(s, n + 1)' /\ Run(s, n + 1)'
<1>0. HolderStep(t)
  BY DEF HolderStep, HandleStep
<1> DEFINE c == toBeDeleted[s]
<1>1. /\ Shape /\ DataTypes /\ c \in Conns /\ batch \in [Threads -> Nat]
      /\ \A u \in Threads : u # t => pc'[u] = pc[u]
      /\ UNCHANGED <<cur, op, toBeDeleted>>
      /\ Receiving(t) => \A u \in Threads : cur[u] = s /\ u # t => ~Receiving(u)
  BY <1>0, HolderFacts
<1>2. /\ pc[t] = "loop" /\ batch[t] > 0 /\ pc' = [pc EXCEPT ![t] = "size1"]
      /\ batch' = [batch EXCEPT ![t] = @ - 1]
      /\ sendBuf' = [sendBuf EXCEPT ![s] = Append(@, arrived[c] - batch[t] + 1)]
      /\ UNCHANGED <<sendArr, sendCount, sendLen, recvLen, arrived, echoed, sendFailed>>
  BY DEF ProcessMessage, Goto, ioVars, netVars
<1>3. op[t] = "recv" /\ Receiving(t) /\ Behind(t) = batch[t]
  BY <1>2 DEF Receiving, RecvPcs, Control, WorkOK, Behind
<1>4. arrived[c] \in Int /\ batch[t] \in Int
  BY <1>1, ConstantsAssumption DEF DataTypes, NetTypes
<1>5. n + batch[t] = arrived[c] + 1
  BY <1>2, <1>3 DEF Counts
<1>6. n = arrived[c] - batch[t] + 1
  BY <1>4, <1>5
<1>7. At(s, {"post"})' = At(s, {"post"}) /\ At(s, {"sendDone"})' = At(s, {"sendDone"})
  BY <1>1, <1>2 DEF At, Shape
<1>8. Gathered(s)' = Gathered(s) /\ InFlight(s)' = InFlight(s)
  BY <1>2, <1>7 DEF Gathered, InFlight
<1>9. sendBuf'[s] = Append(sendBuf[s], n) /\ toBeDeleted'[s] = toBeDeleted[s]
  BY <1>1, <1>2, <1>6 DEF DataTypes, SendTypes
<1>10. Run(s, n + 1)'
  BY <1>1, <1>2, <1>8, <1>9, QueueNumbers
<1>11. \A u \in Threads : cur'[u] = s /\ Receiving(u)' => u = t
  BY <1>1, <1>2, <1>3 DEF Receiving
<1>12. Receiving(t)' /\ Behind(t)' = batch[t] - 1 /\ pc'[t] # "onAccept"
  BY <1>1, <1>2, <1>3 DEF Shape, Receiving, SendPcs, Behind
<1>13. (n + 1) + (batch[t] - 1) = arrived[c] + 1
  BY <1>4, <1>5
<1>14. cur'[t] = s
  BY <1>1
<1>15. Counts(s, n + 1)'
  BY <1>1, <1>2, <1>11, <1>12, <1>13, <1>14 DEF Counts
<1> QED
  BY <1>6, <1>10, <1>15
LEMMA NumberedHolder ==
  ASSUME Control, Next, NEW s \in Sessions, CountOK(s), Numbered(s),
         NEW t \in Threads, HolderStep(t), cur[t] = s
  PROVE  Numbered(s)'
<1>1. /\ InUse(s) /\ At(s, {"breakSock"}) = {} /\ cur'[t] = s
  BY HolderFacts
<1>2. PICK n \in Nat : Counts(s, n) /\ Run(s, n)
  BY <1>1 DEF Numbered
<1> SUFFICES ASSUME At(s, {"breakSock"})' = {}
             PROVE  \E m \in Nat : Counts(s, m)' /\ Run(s, m)'
  BY DEF Numbered
<1>3. pc'[t] # "breakSock"
  BY <1>1 DEF At
<1>4. CASE RunSame(s) /\ CountsSame(s)
  BY <1>2, <1>4, RunKept, CountsKept
<1>5. CASE SendGather(t)
  BY <1>2, <1>3, <1>5, GatherNumbers, SendKeepsCounts, CountsKept
<1>6. CASE SendPrepare(t)
  BY <1>3, <1>4, <1>6, PrepareNumbers, SendKeepsCounts
<1>7. CASE SendDone(t)
  BY <1>2, <1>3, <1>7, DoneNumbers, SendKeepsCounts, CountsKept
<1>8. CASE WSARecvPosted(t) \/ RecvFail(t)
  BY <1>2, <1>8, ReceiveHandedOn, RunKept
<1>9. CASE (t = Acceptor /\ OnAccept) \/ ProcessMessage(t)
  <2>1. n + 1 \in Nat /\ Counts(s, n + 1)' /\ Run(s, n + 1)'
    BY <1>2, <1>9, AcceptNumbers, MessageNumbers
  <2> QED
    BY <2>1
<1>10. CASE SendPost(t) /\ ~SendGather(t) /\ ~SendPrepare(t)
  BY <1>4, <1>10, StillSend DEF SendPost
<1>11. CASE RecvPost(t) \/ WSARecvFails(t) \/ FlagClear(t) \/ ProcessEnd(t) \/ Unref(t)
  BY <1>3, <1>4, <1>11, StillRest
<1> QED
  BY <1>5, <1>6, <1>7, <1>8, <1>9, <1>10, <1>11 DEF HolderStep, RecvStep, HandleStep

LEMMA NumberedLeave ==
  ASSUME Control, Next, NEW s \in Sessions, Numbered(s),
         NEW t \in Threads, IODecrement(t) \/ Release(t), cur[t] = s
  PROVE  Numbered(s)'
<1>0. Shape /\ DataTypes
  BY DataShape DEF Control
<1>1. CASE IODecrement(t)
  <2>1. /\ pc[t] = "ioDec" /\ UNCHANGED <<batch, sendVars, recvLen, sendLen, toBeDeleted, netVars>>
        /\ \A u \in Threads : u # t => pc'[u] = pc[u] /\ cur'[u] = cur[u] /\ op'[u] = op[u]
        /\ pc'[t] \in {"drain", "acceptEnd", "gqcs"}
    BY <1>0, <1>1 DEF IODecrement, Goto, GoHome, sockVars, netVars, ioVars, Shape
  <2>2. InUse(s) /\ At(s, {"breakSock"}) = {}
    BY <2>1 DEF InUse, Idle, At, RefPcs, Next, Running, BreakPcs
  <2>3. At(s, {"post"})' = At(s, {"post"}) /\ At(s, {"sendDone"})' = At(s, {"sendDone"})
    BY <1>0, <2>1 DEF At, Shape
  <2>4. RunSame(s)
    BY <2>1, <2>3 DEF RunSame, Gathered, InFlight, sendVars, netVars
  <2>5. \A u \in Threads : u # t => (Receiving(u)' <=> Receiving(u)) /\ Behind(u)' = Behind(u)
    BY <2>1 DEF Receiving, Behind
  <2>6. ~Receiving(t) /\ ~Receiving(t)'
    BY <2>1 DEF Receiving, RecvPcs, SendPcs
  <2>7. CountsSame(s)
    BY <2>1, <2>5, <2>6 DEF CountsSame, netVars
  <2> QED
    BY <2>2, <2>4, <2>7, RunKept, CountsKept DEF Numbered
<1>2. CASE Release(t)
  <2>1. pc[t] \in ReleasePcs
    BY <1>2 DEF Release, ReleaseDrain, ReleaseClose, ReleasePush, ReleasePcs
  <2>2. Idle(s) /\ \A u \in Threads : u # t /\ cur[u] = s => pc[u] \notin SlotPcs
    BY <2>1, Alone DEF Control
  <2>3. /\ UNCHANGED <<recvIO, sendIO>>
        /\ \A u \in Threads : u # t => pc'[u] = pc[u] /\ cur'[u] = cur[u]
        /\ pc'[t] \notin RefPcs \cup {"drain"}
    BY <1>0, <1>2 DEF Release, ReleaseDrain, ReleaseClose, ReleasePush, ioVars, Goto, GoHome,
       Shape, RefPcs, SendPcs
  <2>4. ~InUse(s)'
    BY <2>2, <2>3 DEF InUse, Idle, At, SlotPcs, ReleasePcs
  <2> QED
    BY <2>4 DEF Numbered
<1> QED
  BY <1>1, <1>2

LEMMA NumberedDequeue ==
  ASSUME Control, Next, NEW s \in Sessions, Numbered(s),
         NEW t \in Threads, DequeueRecv(t, s) \/ DequeueSend(t, s)
  PROVE  Numbered(s)'
<1>0. Shape /\ DataTypes /\ batch \in [Threads -> Nat]
  BY DataShape DEF Control
<1>1. /\ pc[t] = "gqcs" /\ cur[t] = None /\ cur' = [cur EXCEPT ![t] = s]
      /\ UNCHANGED <<sendVars, toBeDeleted, netVars>>
      /\ \A u \in Threads : u # t => pc'[u] = pc[u] /\ op'[u] = op[u] /\ batch'[u] = batch[u]
      /\ pc'[t] \in {"ioDec", "loop", "sendDone"}
  BY <1>0 DEF DequeueRecv, DequeueSend, sockVars, netVars, Goto, Shape, Control, WorkOK
<1>2. InUse(s) /\ At(s, {"breakSock"}) = {}
  BY DEF InUse, Idle, DequeueRecv, DequeueSend, At, Next, Running, BreakPcs
<1>3. PICK n \in Nat : Counts(s, n) /\ Run(s, n)
  BY <1>2 DEF Numbered
<1>4. \A u \in Threads : u # t =>
        /\ (cur'[u] = s <=> cur[u] = s) /\ (Receiving(u)' <=> Receiving(u)) /\ Behind(u)' = Behind(u)
  BY <1>0, <1>1 DEF Shape, Receiving, Behind
<1>5. cur'[t] = s /\ cur[t] # s
  BY <1>0, <1>1 DEF Shape
<1>6. At(s, {"post"})' = At(s, {"post"})
  BY <1>0, <1>1 DEF At, Shape
\* the messages of the receive pass to the thread
<1>7. CASE DequeueRecv(t, s)
  <2>1. /\ recvIO[s] = "done" /\ recvLen'[s] = 0 /\ sendLen' = sendLen
        /\ pc'[t] = IF recvLen[s] = 0 THEN "ioDec" ELSE "loop"
        /\ op'[t] = "recv" /\ batch'[t] = recvLen[s]
    BY <1>0, <1>7 DEF DequeueRecv, Goto, Shape, DataTypes, IOTypes
  <2>2. At(s, {"sendDone"})' = At(s, {"sendDone"})
    BY <1>0, <1>1, <2>1 DEF At, Shape
  <2>3. RunSame(s)
    BY <1>1, <1>6, <2>1, <2>2 DEF RunSame, Gathered, InFlight, sendVars, netVars
  <2>4. \A u \in Threads : cur[u] = s => ~Receiving(u)
    BY <2>1 DEF Control, IInv, RecvExclusive
  <2>5. n + recvLen[s] = arrived[toBeDeleted[s]] + 1
    BY <1>3, <2>4 DEF Counts
  <2>6. Receiving(t)' => pc'[t] = "loop"
    BY <2>1 DEF Receiving, RecvPcs, SendPcs
  <2>7. pc'[t] = "loop" => Receiving(t)'
    BY DEF Receiving, RecvPcs
  <2>8. Behind(t)' = recvLen[s]
    BY <2>1 DEF Behind
  <2>9. pc'[t] = "ioDec" => n + recvLen'[s] = arrived[toBeDeleted[s]] + 1
    BY <2>1, <2>5
  <2>10. Counts(s, n)'
    BY <1>1, <1>4, <1>5, <2>1, <2>4, <2>5, <2>6, <2>7, <2>8, <2>9 DEF Counts, netVars
  <2> QED
    BY <1>3, <2>3, <2>10, RunKept DEF Numbered
<1>8. CASE DequeueSend(t, s)
  <2>1. /\ sendIO[s] = "done" /\ sendLen'[s] = 0 /\ recvLen' = recvLen
        /\ pc'[t] = IF sendLen[s] = 0 THEN "ioDec" ELSE "sendDone"
    BY <1>0, <1>8 DEF DequeueSend, Goto, Shape, DataTypes, IOTypes
  <2>2. At(s, {"sendDone"}) = {} /\ At(s, {"post"}) = {}
    BY <2>1 DEF At, Control, IInv, SendExclusive, FlagPcs
  <2>3. sendLen[s] \in Nat
    BY <1>0 DEF DataTypes, IOTypes
  <2>4. At(s, {"sendDone"})' # {} <=> sendLen[s] > 0
    BY <1>1, <1>4, <1>5, <2>1, <2>2, <2>3 DEF At
  <2>5. InFlight(s)' = InFlight(s)
    BY <1>1, <1>6, <2>1, <2>2, <2>3, <2>4 DEF InFlight, sendVars
  <2>6. RunSame(s)
    BY <1>1, <1>6, <2>5 DEF RunSame, Gathered, sendVars, netVars
  <2>7. ~Receiving(t)' /\ ~Receiving(t)
    BY <1>1, <2>1 DEF Receiving, RecvPcs, SendPcs
  <2>8. CountsSame(s)
    BY <1>1, <1>4, <1>5, <2>1, <2>7 DEF CountsSame, netVars, Receiving
  <2> QED
    BY <1>3, <2>6, <2>8, RunKept, CountsKept DEF Numbered
<1> QED
  BY <1>7, <1>8
\* the pending send reaches the client
LEMMA CompleteNumbers ==
  ASSUME Control, NEW s \in Sessions, CountOK(s), SendCompletes(s), NEW n \in Nat, Run(s, n)
  PROVE  LET c == toBeDeleted[s]
             out == Prefix(sendArr[s], sendCount[s]) IN
         /\ Run(s, n)'
         /\ c \in Conns /\ ~sendFailed[c] /\ out \in Seq(Int) /\ RunFrom(out, Len(echoed[c]))
         /\ echoed' = [echoed EXCEPT ![c] = @ \o out]
<1> DEFINE c == toBeDeleted[s]
           k == sendCount[s]
           out == Prefix(sendArr[s], k)
<1>1. /\ Shape /\ DataTypes /\ c \in Conns
  BY DataShape DEF Control, IInv, ConnOK, SendCompletes
<1>2. /\ UNCHANGED <<pc, cur, sendVars, toBeDeleted, sendFailed>>
      /\ sendIO[s] = "pending" /\ conn[c] \in {"open", "fin"}
      /\ sendLen' = [sendLen EXCEPT ![s] = k]
      /\ echoed' = [echoed EXCEPT ![c] = @ \o out]
  BY DEF SendCompletes, threadVars, sockVars
<1>3. ~sendFailed[c]
  BY <1>1, <1>2 DEF CountOK
<1>4. At(s, {"post"}) = {} /\ At(s, {"sendDone"}) = {}
  BY <1>2 DEF At, Control, IInv, SendExclusive, FlagPcs
<1>5. At(s, {"post"})' = {} /\ At(s, {"sendDone"})' = {}
  BY <1>2, <1>4 DEF At
<1>6. sendLen[s] = 0 /\ k > 0 /\ k \in Nat /\ sendLen'[s] = k
  BY <1>1, <1>2 DEF Control, WorkOK, Sends, SendOK, FlagOK, DataTypes, IOTypes, SendTypes
<1>7. InFlight(s) = k /\ InFlight(s)' = 0 /\ Gathered(s)' = Gathered(s)
  BY <1>2, <1>4, <1>5, <1>6 DEF InFlight, Gathered, sendVars
<1>8. PICK first \in Int : first = n - Len(sendBuf[s]) /\ first >= 0
  <2>1. n - Len(sendBuf[s]) \in Int
    BY <1>1 DEF DataTypes, SendTypes
  <2>2. n - Len(sendBuf[s]) >= 0
    BY DEF Run
  <2> QED
    BY <2>1, <2>2
<1>9. /\ RunFrom(sendBuf[s], first)
      /\ \E b \in Nat : b + Len(Gathered(s)) <= first /\ RunFrom(Gathered(s), b)
      /\ Len(echoed[c]) + k = first /\ k <= Len(sendArr[s])
      /\ RunFrom(out, Len(echoed[c]))
  BY <1>3, <1>7, <1>8 DEF Run
<1>10. sendArr[s] \in Seq(Int) /\ echoed[c] \in Seq(Int)
  BY <1>1 DEF DataTypes, SendTypes, NetTypes
<1>11. out \in Seq(Int) /\ Len(out) = k
  BY <1>6, <1>9, <1>10, PrefixFacts
<1>12. echoed'[c] = echoed[c] \o out
  BY <1>1, <1>2 DEF DataTypes, NetTypes
<1>13. Len(echoed'[c]) = first
  <2>1. \A q, r \in Seq(Int) : Len(q \o r) = Len(q) + Len(r)
    OBVIOUS
  <2> HIDE DEF out, c
  <2>2. Len(echoed[c] \o out) = Len(echoed[c]) + Len(out)
    BY <1>10, <1>11, <2>1
  <2> QED
    BY <1>9, <1>11, <1>12, <2>2
<1>14. RunFrom(Prefix(sendArr[s], 0), first) /\ 0 <= Len(sendArr[s])
  BY <1>10, PrefixAll DEF RunFrom
<1>15. toBeDeleted'[s] = c /\ sendBuf'[s] = sendBuf[s] /\ sendArr'[s] = sendArr[s]
  BY <1>2 DEF sendVars
<1>16. Len(echoed'[c]) + 0 = first
  BY <1>8, <1>13
<1> HIDE DEF c, k, out
<1>17. Run(s, n)'
  BY <1>7, <1>8, <1>9, <1>13, <1>14, <1>15, <1>16 DEF Run
<1> QED
  BY <1>1, <1>2, <1>3, <1>9, <1>11, <1>17 DEF c, k, out

LEMMA NumberedOther ==
  ASSUME Control, Next, NEW s \in Sessions, CountOK(s), Numbered(s), OtherTouches(s)
  PROVE  Numbered(s)'
<1>0. Shape /\ DataTypes /\ OutsideStep
  BY DataShape DEF Control, OtherTouches, OutsideStep, KernelStep, ClientStep, MainStep
<1>1. UNCHANGED <<pc, cur, op, batch, sendVars, toBeDeleted, sendFailed>>
  BY <1>0 DEF OtherTouches, KernelCompletes, RecvArrives, RecvEnds, SendCompletes,
     SendAborts, ClientClose, ClientReset, MainInvalidate, MainCancel, sendVars, sockVars,
        netVars,
     threadVars
<1>2. /\ recvIO'[s] = "none" <=> recvIO[s] = "none"
      /\ sendIO'[s] = "none" <=> sendIO[s] = "none"
  BY <1>0, OutsideFrame
<1>3. /\ At(s, {"post"})' = At(s, {"post"}) /\ At(s, {"sendDone"})' = At(s, {"sendDone"})
      /\ At(s, RefPcs)' = At(s, RefPcs) /\ At(s, {"drain"})' = At(s, {"drain"})
      /\ At(s, {"breakSock"})' = At(s, {"breakSock"})
  BY <1>1 DEF At
<1>4. InUse(s)' <=> InUse(s)
  BY <1>2, <1>3 DEF InUse, Idle
<1> SUFFICES ASSUME InUse(s), At(s, {"breakSock"}) = {}
             PROVE  \E n \in Nat : Counts(s, n)' /\ Run(s, n)'
  BY <1>3, <1>4 DEF Numbered
<1>5. PICK n \in Nat : Counts(s, n) /\ Run(s, n)
  BY DEF Numbered
<1>6. \A t \in Threads :
        (Receiving(t)' <=> Receiving(t)) /\ Behind(t)' = Behind(t)
  BY <1>1 DEF Receiving, Behind
<1>7. CASE UNCHANGED <<arrived, recvLen, sendLen, echoed>>
  <2>1. RunSame(s)
    BY <1>1, <1>3, <1>7 DEF RunSame, Gathered, InFlight, sendVars
  <2>2. CountsSame(s)
    BY <1>1, <1>6, <1>7 DEF CountsSame
  <2> QED
    BY <1>5, <2>1, <2>2, RunKept, CountsKept
<1>8. CASE SendCompletes(s)
  <2>1. CountsSame(s)
    BY <1>1, <1>6, <1>8 DEF CountsSame, SendCompletes
  <2> QED
    BY <1>5, <1>8, <2>1, CompleteNumbers, CountsKept
<1>9. ASSUME NEW k \in 1 .. MaxMsg, RecvArrives(s, k)
      PROVE  \E m \in Nat : Counts(s, m)' /\ Run(s, m)'
  <2>1. /\ recvIO[s] = "pending" /\ UNCHANGED <<sendLen, echoed>>
        /\ arrived' = [arrived EXCEPT ![toBeDeleted[s]] = @ + k]
        /\ recvLen' = [recvLen EXCEPT ![s] = k]
    BY <1>9 DEF RecvArrives
  <2>2. RunSame(s)
    BY <1>1, <1>3, <2>1 DEF RunSame, Gathered, InFlight, sendVars
  <2>3. \A t \in Threads : cur[t] = s => ~Receiving(t)
    BY <2>1 DEF Control, IInv, RecvExclusive
  <2>4. toBeDeleted[s] \in Conns /\ recvLen[s] = 0
    BY <2>1 DEF Control, IInv, ConnOK, WorkOK
  <2>5. /\ n + 0 = arrived[toBeDeleted[s]] + 1 /\ recvLen'[s] = k
        /\ arrived'[toBeDeleted[s]] = arrived[toBeDeleted[s]] + k
        /\ arrived[toBeDeleted[s]] \in Int /\ k \in Int
    BY <1>0, <1>5, <2>1, <2>3, <2>4, ConstantsAssumption DEF Counts, DataTypes, IOTypes, NetTypes
  <2>6. n + recvLen'[s] = arrived'[toBeDeleted[s]] + 1
    BY <2>5
  <2>7. Counts(s, n)'
    BY <1>1, <1>6, <2>3, <2>6 DEF Counts
  <2> QED
    BY <1>5, <2>2, <2>7, RunKept
<1> QED
  BY <1>7, <1>8, <1>9 DEF OtherTouches, KernelCompletes, RecvEnds, SendAborts, ClientClose,
     ClientReset, MainInvalidate, MainCancel, netVars, ioVars

LEMMA NumberedStep ==
  ASSUME Control, Fresh, CountsOK, AllNumbered, [Next]_vars
  PROVE  AllNumbered'
<1>0. Shape /\ DataTypes
  BY DataShape DEF Control
<1> SUFFICES ASSUME NEW s \in Sessions PROVE Numbered(s)'
  BY DEF AllNumbered
<1>1. CountOK(s) /\ Numbered(s)
  BY DEF CountsOK, AllNumbered
<1>2. CASE UNCHANGED vars
  <2>1. /\ At(s, {"post"})' = At(s, {"post"}) /\ At(s, {"sendDone"})' = At(s, {"sendDone"})
        /\ At(s, RefPcs)' = At(s, RefPcs) /\ At(s, {"drain"})' = At(s, {"drain"})
        /\ At(s, {"breakSock"})' = At(s, {"breakSock"})
    BY <1>2 DEF At, vars, threadVars
  <2>2. InUse(s)' <=> InUse(s)
    BY <1>2, <2>1 DEF InUse, Idle, vars, ioVars
  <2>3. \A t \in Threads :
          (Receiving(t)' <=> Receiving(t)) /\ Behind(t)' = Behind(t)
    BY <1>2 DEF Receiving, Behind, vars, threadVars
  <2>4. RunSame(s)
    BY <1>2, <2>1 DEF RunSame, Gathered, InFlight, vars, sendVars, ioVars, netVars, sockVars
  <2>5. CountsSame(s)
    BY <1>2, <2>3 DEF CountsSame, vars, threadVars, ioVars, netVars, sockVars
  <2> QED
    BY <1>1, <2>1, <2>2, <2>4, <2>5, RunKept, CountsKept DEF Numbered
<1> SUFFICES ASSUME Next PROVE Numbered(s)'
  BY <1>2
<1>3. CASE ~ThreadTouches(s) /\ ~OtherTouches(s)
  <2>0. Same(s)
    BY <1>3, Untouched DEF Control
  <2>1. /\ At(s, {"post"})' = At(s, {"post"}) /\ At(s, {"sendDone"})' = At(s, {"sendDone"})
        /\ At(s, RefPcs)' = At(s, RefPcs) /\ At(s, {"drain"})' = At(s, {"drain"})
        /\ At(s, {"breakSock"})' = At(s, {"breakSock"})
    BY <2>0 DEF At, Same
  <2>2. InUse(s)' <=> InUse(s)
    BY <2>0, <2>1 DEF InUse, Idle, Same
  <2> SUFFICES ASSUME InUse(s), At(s, {"breakSock"}) = {}
               PROVE  \E n \in Nat : Counts(s, n)' /\ Run(s, n)'
    BY <2>1, <2>2 DEF Numbered
  <2>3. toBeDeleted[s] \in Conns
    <3>1. invalidFlag[s] = 1
      BY DEF Control, MarkOK
    <3> QED
      BY <3>1 DEF Control, OwnerOK
  <2>4. \A t \in Threads : cur[t] = s =>
          (Receiving(t)' <=> Receiving(t)) /\ Behind(t)' = Behind(t)
    BY <2>0 DEF Receiving, Behind, Same
  <2>5. RunSame(s)
    BY <2>0, <2>1, <2>3 DEF RunSame, Gathered, InFlight, Same
  <2>6. CountsSame(s)
    BY <2>0, <2>3, <2>4 DEF CountsSame, Same
  <2> QED
    BY <1>1, <2>5, <2>6, RunKept, CountsKept DEF Numbered
<1>4. CASE OtherTouches(s)
  BY <1>1, <1>4, NumberedOther
<1>5. ASSUME NEW t \in Threads, cur[t] = s, HolderStep(t) \/ IODecrement(t) \/ Release(t)
      PROVE  Numbered(s)'
  BY <1>1, <1>5, NumberedHolder, NumberedLeave
<1>6. ASSUME NEW t \in Threads, DequeueRecv(t, s) \/ DequeueSend(t, s)
      PROVE  Numbered(s)'
  BY <1>1, <1>6, NumberedDequeue
<1>7. ASSUME NEW c \in Conns, Accept(c), freeStack # <<>>, s = freeStack[Len(freeStack)]
      PROVE  Numbered(s)'
  <2>1. /\ Idle(s) /\ \A u \in Threads : cur[u] = s => pc[u] \notin SlotPcs
        /\ cur' = [cur EXCEPT ![Acceptor] = s] /\ pc' = [pc EXCEPT ![Acceptor] = "init"]
    BY <1>7, Popped DEF Control
  <2>2. UNCHANGED <<recvIO, sendIO>>
    BY <1>7 DEF Accept, ioVars
  <2>3. ~InUse(s)'
    BY <1>0, <2>1, <2>2 DEF Shape, InUse, Idle, At, SlotPcs, RefPcs, SendPcs, ReleasePcs
  <2> QED
    BY <2>3 DEF Numbered
<1>8. CASE InitSession /\ s = cur[Acceptor]
  <2> DEFINE c == toBeDeleted[s]
  <2>1. /\ pc[Acceptor] = "init" /\ pc' = [pc EXCEPT ![Acceptor] = "onAccept"]
        /\ UNCHANGED <<cur, op, batch, recvLen, sendLen, sendBuf, sendArr, toBeDeleted, netVars>>
        /\ sendCount'[s] = 0
    BY <1>0, <1>8 DEF InitSession, Goto, DataTypes, SendTypes, ioVars
  <2>2. /\ Idle(s) /\ c \in Conns
        /\ \A u \in Threads : u # Acceptor /\ cur[u] = s => pc[u] \notin SlotPcs
    BY <1>0, <1>8, <2>1, Alone DEF Control, Shape
  <2>3. At(s, {"init"}) # {} /\ At(s, {"init", "onAccept"}) # {}
    BY <1>0, <1>8, <2>1 DEF At, Shape
  <2>4. echoed[c] = <<>> /\ arrived[c] = 0
    BY <1>1, <2>2, <2>3 DEF CountOK
  <2>5. ~InUse(s)
    BY <1>0, <1>8, <2>1, <2>2 DEF InUse, At, SlotPcs, ReleasePcs
  <2>6. sendBuf[s] = <<>>
    BY <2>5 DEF Control, Sends, SendOK, FlagOK
  <2>7. recvLen[s] = 0 /\ sendLen[s] = 0
    BY <2>2 DEF Idle, Control, WorkOK
  <2>8. At(s, {"post"})' = {} /\ At(s, {"sendDone"})' = {}
    BY <1>0, <1>8, <2>1, <2>2 DEF At, Shape, SlotPcs, RefPcs, SendPcs
  <2>9. sendArr[s] \in Seq(Int)
    BY <1>0 DEF DataTypes, SendTypes
  <2>10. Gathered(s)' = <<>> /\ InFlight(s)' = 0
    BY <2>1, <2>7, <2>8, <2>9, PrefixAll DEF Gathered, InFlight
  <2>11. RunFrom(<<>>, 0) /\ Len(<<>>) = 0
    BY DEF RunFrom
  <2>12. Prefix(sendArr[s], 0) = <<>> /\ 0 <= Len(sendArr[s])
    BY <2>9, PrefixAll
  <2>13. echoed'[c] = <<>> /\ sendBuf'[s] = <<>> /\ toBeDeleted'[s] = c /\ sendArr'[s] = sendArr[s]
    BY <2>1, <2>4, <2>6 DEF netVars
  <2> HIDE DEF c
  <2>14. Run(s, 0)'
    BY <2>10, <2>11, <2>12, <2>13 DEF Run
  <2>15. Receiving(Acceptor)' /\ Behind(Acceptor)' = 0
    <3>1. op[Acceptor] = "accept"
      BY <1>0, <2>1 DEF Control, WorkOK, Shape
    <3> QED
      BY <1>0, <2>1, <3>1 DEF Receiving, RecvPcs, Behind, Shape
  <2>16. \A u \in Threads : cur'[u] = s /\ Receiving(u)' => u = Acceptor
    BY <1>0, <2>1, <2>2 DEF Shape, Receiving, RecvPcs, SlotPcs, RefPcs, SendPcs
  <2>17. cur'[Acceptor] = s /\ pc'[Acceptor] = "onAccept" /\ Acceptor \in Threads
    BY <1>0, <1>8, <2>1 DEF Shape
  <2>18. arrived'[toBeDeleted'[s]] = 0
    BY <2>1, <2>4 DEF netVars, c
  <2>19. Counts(s, 0)'
    BY <2>15, <2>16, <2>17, <2>18 DEF Counts
  <2> QED
    BY <2>14, <2>19 DEF Numbered
<1> QED
  BY <1>3, <1>4, <1>5, <1>6, <1>7, <1>8 DEF ThreadTouches
(***************************************************************************)
(* What reaches the client                                                 *)
(***************************************************************************)
LEMMA EchoStep ==
  ASSUME Control, CountsOK, AllNumbered, EchoInOrder, [Next]_vars
  PROVE  EchoInOrder'
<1>0. Shape /\ DataTypes
  BY DataShape DEF Control
<1>1. \A c \in Conns : echoed[c] \in Seq(Int) /\ RunFrom(echoed[c], 0)
  BY <1>0 DEF DataTypes, NetTypes, EchoInOrder, RunFrom
<1> SUFFICES ASSUME NEW d \in Conns PROVE echoed'[d] \in Seq(Int) /\ RunFrom(echoed'[d], 0)
  BY DEF EchoInOrder, RunFrom
<1>2. CASE UNCHANGED echoed
  BY <1>1, <1>2
<1>3. ASSUME NEW s \in Sessions, SendCompletes(s), Next
      PROVE  echoed'[d] \in Seq(Int) /\ RunFrom(echoed'[d], 0)
  <2>1. InUse(s) /\ At(s, {"breakSock"}) = {}
    BY <1>3 DEF InUse, Idle, SendCompletes, Next, Running, BreakPcs, At
  <2>2. PICK n \in Nat : Run(s, n)
    BY <2>1 DEF AllNumbered, Numbered
  <2> DEFINE c == toBeDeleted[s]
             out == Prefix(sendArr[s], sendCount[s])
  <2>3. /\ c \in Conns /\ out \in Seq(Int) /\ RunFrom(out, Len(echoed[c]))
        /\ echoed' = [echoed EXCEPT ![c] = @ \o out]
    BY <1>3, <2>2, CompleteNumbers DEF CountsOK
  <2>4. echoed \in [Conns -> Seq(Int)]
    BY <1>0 DEF DataTypes, NetTypes
  <2> HIDE DEF c, out
  <2>5. echoed[c] \o out \in Seq(Int) /\ RunFrom(echoed[c] \o out, 0)
    <3>1. echoed[c] \in Seq(Int) /\ RunFrom(echoed[c], 0) /\ 0 + Len(echoed[c]) = Len(echoed[c])
      BY <1>1, <2>3
    <3> QED
      BY <2>3, <3>1, RunConcat
  <2>6. CASE d = c
    <3>1. echoed'[c] = echoed[c] \o out
      BY <2>3, <2>4
    <3> QED
      BY <2>5, <2>6, <3>1
  <2>7. CASE d # c
    BY <1>1, <2>3, <2>4, <2>7
  <2> QED
    BY <2>6, <2>7
<1>4. CASE \E t \in Threads : HolderStep(t)
  BY <1>2, <1>4, ZenonT(60)
     DEF HolderStep, SendPost, RecvStep, HandleStep, OnAccept, SendDone, FlagClear,
     ProcessMessage, ProcessEnd, Unref, RecvPost, WSARecvPosted, WSARecvFails, RecvFail,
     SendSize1, SendSize2, SendSize3, SendSize4, SizeTest, SendXchg1, SendXchg2, FlagXchg,
     SendClear1, SendClear2, SendFailClear, FlagReset, SendGather, SendPrepare, WSASendPosted,
     WSASendFails, SendFailDec, netVars
<1>5. CASE \/ \E t \in Threads : IODecrement(t) \/ Release(t)
           \/ \E t \in Threads, s \in Sessions : DequeueRecv(t, s) \/ DequeueSend(t, s)
           \/ \E t \in Threads : DequeueNull(t)
           \/ \E c \in Conns : Accept(c)
           \/ AcceptFails \/ InitSession \/ AcceptEnd
           \/ UNCHANGED vars
  BY <1>2, <1>5 DEF IODecrement, Release, ReleaseDrain, ReleaseClose, ReleasePush, DequeueRecv,
     DequeueSend, DequeueNull, Accept, AcceptFails, InitSession, AcceptEnd, vars, netVars
<1>6. CASE OutsideStep /\ ~(\E s \in Sessions : SendCompletes(s))
  BY <1>2, <1>6 DEF OutsideStep, ClientStep, ClientClose, ClientReset, KernelStep,
     KernelCompletes,
     RecvArrives, RecvEnds, SendAborts, CallStop, CallDisconnect, MainStep, MainCheck,
     MainInvalidate, MainCancel, StopPost, StopJoined, netVars
<1>7. CASE \E s \in Sessions : SendCompletes(s) /\ Next
  BY <1>3, <1>7
<1> QED
  BY <1>2, <1>4, <1>5, <1>6, <1>7, NextSplit DEF vars, netVars

LEMMA InitEcho == Init => Fresh /\ CountsOK /\ AllNumbered /\ EchoInOrder
<1> SUFFICES ASSUME Init PROVE Fresh /\ CountsOK /\ AllNumbered /\ EchoInOrder
  OBVIOUS
<1>1. Fresh /\ EchoInOrder
  BY DEF Init, Fresh, EchoInOrder
<1>2. ASSUME NEW s \in Sessions PROVE CountOK(s) /\ Numbered(s)
  <2>1. /\ \A t \in Threads : pc[t] \in {"accept", "gqcs"}
        /\ sendCount[s] = 0 /\ sendArr[s] = <<>> /\ recvIO[s] = "none" /\ sendIO[s] = "none"
        /\ toBeDeleted[s] \notin Conns
    BY <1>2, ConstantsAssumption DEF Init
  <2>2. ~InUse(s) /\ At(s, {"post", "breakSock"}) = {}
    BY <2>1 DEF InUse, Idle, At, RefPcs, SendPcs
  <2> QED
    BY <2>1, <2>2 DEF CountOK, Numbered
<1> QED
  BY <1>1, <1>2 DEF CountsOK, AllNumbered

Echoing == Control /\ Fresh /\ CountsOK /\ AllNumbered /\ EchoInOrder

LEMMA EchoInvariance == Spec => []Echoing
<1>1. Init => Echoing
  BY InitInv, InitSends, InitEcho DEF Echoing, Control
<1>2. Echoing /\ Control' /\ [Next]_vars => Echoing'
  BY FreshStep, CountsStep, NumberedStep, EchoStep DEF Echoing
<1> QED
  BY <1>1, <1>2, ControlInvariance, PTL DEF Spec

\* For every number of workers, sessions and clients: what a client receives is
\* the login packet and then the echo of its messages, each once and in order
\* (SendPost and the send completion of CLanServer.cpp), whoever sends, however
\* the packets are gathered, and whichever client had the slot before.
THEOREM EchoesInOrder == Spec => []EchoInOrder
<1>1. Echoing => EchoInOrder
  BY DEF Echoing
<1> QED
  BY <1>1, EchoInvariance, PTL
(***************************************************************************)
(* The references to a packet                                              *)
(***************************************************************************)
InQueue(s, p)    == \E i \in 1 .. Len(sendBuf[s]) : sendBuf[s][i] = p
InGathered(s, p) == \E i \in 1 .. Len(Gathered(s)) : Gathered(s)[i] = p
Queued(s, p)     == InQueue(s, p) \/ InGathered(s, p)
HandlePcs        == SendPcs \cup {"unref"}
Holding(s, p)    == \E t \in At(s, HandlePcs) : op[t] # "send" /\ Handled(t) = p
Refs(s, p)       == (IF Queued(s, p) THEN 1 ELSE 0) + (IF Holding(s, p) THEN 1 ELSE 0)

\* a packet still queued has exactly its references, even if a WSASend of the
\* connection failed
RefOK(s) ==
  LET c == toBeDeleted[s] IN
  c \in Conns /\ At(s, {"breakSock"}) = {} =>
    \A p \in Packets :
      /\ refCount[c][p] >= Refs(s, p)
      /\ ~sendFailed[c] \/ Queued(s, p) => refCount[c][p] = Refs(s, p)
RefsOK == \A s \in Sessions : RefOK(s)

LEMMA OneCopy ==
  ASSUME NEW q, NEW n \in Nat, DOMAIN q = 1 .. n, NEW p,
         \A i, j \in 1 .. n : q[i] = q[j] => i = j
  PROVE  Copies(q, p) = IF \E i \in 1 .. n : q[i] = p THEN 1 ELSE 0
<1>1. CASE \E i \in 1 .. n : q[i] = p
  <2>1. PICK i \in 1 .. n : q[i] = p
    BY <1>1
  <2>2. {j \in DOMAIN q : q[j] = p} = {i}
    BY <2>1
  <2>3. Cardinality({i}) = 1
    BY FS_Singleton
  <2> QED
    BY <1>1, <2>2, <2>3 DEF Copies
<1>2. CASE ~ \E i \in 1 .. n : q[i] = p
  <2>1. {j \in DOMAIN q : q[j] = p} = {}
    BY <1>2
  <2> QED
    BY <1>2, <2>1, FS_EmptySet DEF Copies
<1> QED
  BY <1>1, <1>2

LEMMA RunCopies ==
  ASSUME NEW q \in Seq(Int), NEW b \in Int, RunFrom(q, b), NEW p
  PROVE  Copies(q, p) = IF \E i \in 1 .. Len(q) : q[i] = p THEN 1 ELSE 0
<1>1. Len(q) \in Nat /\ DOMAIN q = 1 .. Len(q)
  OBVIOUS
<1>2. \A i, j \in 1 .. Len(q) : q[i] = q[j] => i = j
  BY <1>1 DEF RunFrom
<1> QED
  BY <1>1, <1>2, OneCopy

LEMMA RunsCopies ==
  ASSUME NEW q \in Seq(Int), NEW f \in Int, RunFrom(q, f),
         NEW r \in Seq(Int), NEW b \in Int, RunFrom(r, b), b + Len(r) <= f, NEW p
  PROVE  Copies(q \o r, p) = IF \/ \E i \in 1 .. Len(q) : q[i] = p
                                \/ \E i \in 1 .. Len(r) : r[i] = p
                             THEN 1 ELSE 0
<1> DEFINE m == Len(q)
           k == Len(r)
           w == q \o r
<1>1. m \in Nat /\ k \in Nat /\ DOMAIN w = 1 .. m + k
  BY ConcatDomain
<1>2. \A i \in 1 .. m : w[i] = q[i] /\ q[i] = f + i - 1
  BY DEF RunFrom
<1>3. \A i \in 1 .. k : w[m + i] = r[i]
  OBVIOUS
<1>4. \A i \in 1 .. k : r[i] = b + i - 1
  BY DEF RunFrom
<1>5. b + k <= f
  OBVIOUS
<1> HIDE DEF m, k, w
<1>6. \A i \in m + 1 .. m + k : i - m \in 1 .. k /\ w[i] = r[i - m] /\ w[i] = b + (i - m) - 1
  <2> SUFFICES ASSUME NEW i \in m + 1 .. m + k
               PROVE  i - m \in 1 .. k /\ w[i] = r[i - m] /\ w[i] = b + (i - m) - 1
    OBVIOUS
  <2>1. i - m \in 1 .. k /\ m + (i - m) = i
    BY <1>1
  <2> QED
    BY <1>3, <1>4, <2>1
<1>7. ASSUME NEW i \in 1 .. m + k, NEW j \in 1 .. m + k, w[i] = w[j] PROVE i = j
  <2>1. \A l \in 1 .. m + k : /\ l <= m => w[l] = f + l - 1
                              /\ l > m => w[l] = b + (l - m) - 1
    BY <1>1, <1>2, <1>6
  <2>2. i <= m <=> j <= m
    BY <1>1, <1>5, <1>7, <2>1
  <2> QED
    BY <1>1, <1>7, <2>1, <2>2
<1>8. (\E i \in 1 .. m + k : w[i] = p) <=> \/ \E i \in 1 .. m : q[i] = p
                                          \/ \E i \in 1 .. k : r[i] = p
  <2>1. ASSUME NEW i \in 1 .. m + k, w[i] = p
        PROVE  (\E j \in 1 .. m : q[j] = p) \/ (\E j \in 1 .. k : r[j] = p)
    BY <1>1, <1>2, <1>6, <2>1, SMTT(30)
  <2>2. ASSUME NEW i \in 1 .. m, q[i] = p PROVE \E j \in 1 .. m + k : w[j] = p
    BY <1>1, <1>2, <2>2
  <2>3. ASSUME NEW i \in 1 .. k, r[i] = p PROVE \E j \in 1 .. m + k : w[j] = p
    <3>1. m + i \in 1 .. m + k
      BY <1>1
    <3> QED
      BY <1>3, <2>3, <3>1
  <2> QED
    BY <2>1, <2>2, <2>3
<1>9. Copies(w, p) = IF \E i \in 1 .. m + k : w[i] = p THEN 1 ELSE 0
  <2>1. m + k \in Nat
    BY <1>1
  <2>2. \A i, j \in 1 .. m + k : w[i] = w[j] => i = j
    BY <1>7
  <2> QED
    BY <1>1, <2>1, <2>2, OneCopy
<1>10. Copies(w, p) = IF (\E i \in 1 .. m : q[i] = p) \/ (\E i \in 1 .. k : r[i] = p) THEN 1 ELSE 0
  BY <1>8, <1>9
<1> QED
  BY <1>10 DEF m, k, w

LEMMA GatheredSeq ==
  ASSUME Control, NEW s \in Sessions, CountOK(s), At(s, {"breakSock"}) = {}
  PROVE  Gathered(s) \in Seq(Int) /\ Len(Gathered(s)) \in Nat
<1>1. sendArr[s] \in Seq(Int) /\ sendCount[s] \in Nat
  BY DataShape DEF Control, DataTypes, SendTypes
<1>2. CASE At(s, {"post"}) # {}
  BY <1>1, <1>2 DEF Gathered
<1>3. CASE At(s, {"post"}) = {}
  <2>1. At(s, {"post", "breakSock"}) = {}
    BY <1>3 DEF At
  <2>2. sendCount[s] <= Len(sendArr[s])
    BY <2>1 DEF CountOK
  <2> QED
    BY <1>1, <1>3, <2>2, PrefixFacts DEF Gathered
<1> QED
  BY <1>2, <1>3

\* a step that leaves the packets of session s and their references alone
RefSame(s) ==
  LET c == toBeDeleted[s] IN
  /\ toBeDeleted'[s] = c /\ sendBuf'[s] = sendBuf[s] /\ Gathered(s)' = Gathered(s)
  /\ refCount'[c] = refCount[c] /\ (~sendFailed'[c] => ~sendFailed[c])
  /\ \A p : Holding(s, p)' <=> Holding(s, p)

LEMMA RefKept ==
  ASSUME NEW s \in Sessions, RefOK(s), RefSame(s), At(s, {"breakSock"}) = {}
  PROVE  RefOK(s)'
<1>1. \A p : Queued(s, p)' <=> Queued(s, p)
  BY DEF RefSame, Queued, InQueue, InGathered
<1>2. \A p : Refs(s, p)' = Refs(s, p)
  BY <1>1 DEF RefSame, Refs
<1> QED
  BY <1>1, <1>2 DEF RefOK, RefSame

LEMMA HoldingSame ==
  ASSUME NEW s \in Sessions,
         \A t \in Threads :
           /\ cur'[t] = s /\ pc'[t] \in HandlePcs /\ op'[t] # "send"
                <=> cur[t] = s /\ pc[t] \in HandlePcs /\ op[t] # "send"
           /\ cur[t] = s /\ pc[t] \in HandlePcs /\ op[t] # "send" => Handled(t)' = Handled(t)
  PROVE  \A p : Holding(s, p)' <=> Holding(s, p)
BY DEF Holding, At
\* the steps of SendPost, RecvPost and the loop that release no packet
LEMMA RefsStill ==
  ASSUME Control, Next, NEW s \in Sessions, RefOK(s), NEW t \in Threads, cur[t] = s,
         \/ SendPost(t) /\ ~SendGather(t)
         \/ RecvStep(t) \/ FlagClear(t) \/ ProcessEnd(t),
         pc'[t] # "breakSock"
  PROVE  RefOK(s)'
<1>0. HolderStep(t)
  BY DEF HolderStep, HandleStep
<1>1. /\ Shape /\ toBeDeleted[s] \in Conns /\ At(s, {"breakSock"}) = {}
      /\ \A u \in Threads : u # t => pc'[u] = pc[u]
      /\ UNCHANGED <<cur, op, toBeDeleted>>
  BY <1>0, HolderFacts
<1>2. RunSame(s)
  <2>1. CASE SendPost(t) /\ ~SendGather(t)
    BY <2>1, StillSend, PrepareNumbers DEF SendPost
  <2>2. CASE RecvPost(t) \/ WSARecvFails(t) \/ FlagClear(t) \/ ProcessEnd(t)
    BY <2>2, StillRest
  <2>3. CASE WSARecvPosted(t) \/ RecvFail(t)
    <3>1. InUse(s)
      BY <1>0, HolderFacts
    <3>2. /\ UNCHANGED <<sendBuf, sendArr, sendCount, echoed, sendLen, sendFailed>>
          /\ pc[t] \in {"wsaRecv", "recvFail"} /\ pc'[t] = "ioDec"
      BY <1>1, <2>3 DEF WSARecvPosted, RecvFail, sendVars, ioVars, netVars, Goto, Shape
    <3>3. At(s, {"post"})' = At(s, {"post"}) /\ At(s, {"sendDone"})' = At(s, {"sendDone"})
      BY <1>1, <3>2 DEF At
    <3> QED
      BY <1>1, <3>2, <3>3 DEF RunSame, Gathered, InFlight
  <2> QED
    BY <2>1, <2>2, <2>3 DEF HolderStep, RecvStep, HandleStep
<1>3. UNCHANGED <<refCount, arrived, batch>>
  BY DEF SendPost, SendSize1, SendSize2, SendSize3, SendSize4, SizeTest, SendXchg1, SendXchg2,
     FlagXchg, SendClear1, SendClear2, SendFailClear, FlagReset, SendPrepare, WSASendPosted,
     WSASendFails, SendFailDec, RecvStep, RecvPost, WSARecvPosted, WSARecvFails, RecvFail,
        FlagClear,
     ProcessEnd, netVars
<1>4. \A u \in Threads : Handled(u)' = Handled(u)
  BY <1>1, <1>3 DEF Handled
<1>5. pc[t] \in HandlePcs /\ op[t] # "send" <=> pc'[t] \in HandlePcs /\ op[t] # "send"
  <2>1. CASE SendPost(t)
    <3>1. pc[t] \in SendPcs /\ pc'[t] \in SendPcs \cup {AfterSend(t), "breakSock"}
      BY <1>1, <2>1, SendPostFrame
    <3>2. op[t] # "send" => AfterSend(t) = "unref"
      BY DEF AfterSend
    <3> QED
      BY <3>1, <3>2 DEF HandlePcs
  <2>2. CASE RecvStep(t) \/ ProcessEnd(t)
    <3>1. pc[t] \notin HandlePcs /\ pc'[t] \notin HandlePcs
      BY <1>1, <2>2 DEF RecvStep, RecvPost, WSARecvPosted, WSARecvFails, RecvFail, ProcessEnd,
         Goto, Shape, HandlePcs, SendPcs
    <3> QED
      BY <3>1
  <2>3. CASE FlagClear(t)
    <3>1. op[t] = "send"
      BY <2>3 DEF FlagClear, Control, IInv, CurOK
    <3> QED
      BY <3>1
  <2> QED
    BY <2>1, <2>2, <2>3
<1>6. \A p : Holding(s, p)' <=> Holding(s, p)
  BY <1>1, <1>4, <1>5, HoldingSame
<1>7. RefSame(s)
  BY <1>2, <1>3, <1>6 DEF RefSame, RunSame
<1> QED
  BY <1>1, <1>7, RefKept

\* what was gathered before, if anything, belongs to a WSASend that failed
LEMMA RefsGather ==
  ASSUME Control, Next, NEW s \in Sessions, CountOK(s), RefOK(s), NEW t \in Threads, cur[t] = s,
         SendGather(t)
  PROVE  RefOK(s)'
<1>0. HolderStep(t)
  BY DEF HolderStep, SendPost
<1> DEFINE c == toBeDeleted[s]
           q == sendBuf[s]
           k == Smaller(MaxSend, Len(q))
           rest == SubSeq(q, k + 1, Len(q))
<1>1. /\ Shape /\ DataTypes /\ c \in Conns /\ At(s, {"breakSock"}) = {}
      /\ \A u \in Threads : u # t => pc'[u] = pc[u]
      /\ UNCHANGED <<cur, op, toBeDeleted>>
      /\ pc[t] \in FlagPcs => \A u \in Threads : cur[u] = s /\ u # t => pc[u] \notin FlagPcs
  BY <1>0, HolderFacts
<1>a. /\ pc[t] = "gather" /\ pc' = [pc EXCEPT ![t] = "post"]
      /\ UNCHANGED <<refCount, batch, arrived, sendFailed>>
      /\ sendArr' = [sendArr EXCEPT ![s] = Prefix(q, k)]
      /\ sendBuf' = [sendBuf EXCEPT ![s] = rest]
  <2>1. sendArr' = [sendArr EXCEPT ![s] = Prefix(q, k)]
    BY DEF SendGather
  <2>2. sendBuf' = [sendBuf EXCEPT ![s] = rest]
    BY Zenon DEF SendGather
  <2>3. pc[t] = "gather" /\ pc' = [pc EXCEPT ![t] = "post"]
        /\ UNCHANGED <<refCount, batch, arrived, sendFailed>>
    BY DEF SendGather, Goto, netVars
  <2> QED
    BY <2>1, <2>2, <2>3
<1> HIDE DEF rest
<1>2. /\ sendArr'[s] = Prefix(q, k) /\ sendBuf'[s] = rest
  BY <1>a, <1>1 DEF DataTypes, SendTypes
<1>3. q \in Seq(Int) /\ Len(q) \in Nat /\ k \in Nat
  BY <1>1, TakenCount DEF DataTypes, SendTypes
<1>4. /\ k <= Len(q) /\ Len(Prefix(q, k)) = k /\ Len(rest) = Len(q) - k
      /\ \A i \in 1 .. k : Prefix(q, k)[i] = q[i]
      /\ \A i \in 1 .. Len(q) - k : rest[i] = q[k + i]
  BY <1>3, Taken DEF rest
<1>5. At(s, {"post"})' # {}
  BY <1>1, <1>a DEF At, Shape
<1>6. Gathered(s)' = Prefix(q, k)
  BY <1>2, <1>5 DEF Gathered
<1>7. ~sendFailed[c] => Gathered(s) = <<>>
  <2>1. At(s, {"post"}) = {} /\ At(s, TakePcs) # {}
    BY <1>1, <1>a DEF At, FlagPcs, TakePcs
  <2>2. ~sendFailed[c] => sendCount[s] = 0
    BY <1>1, <2>1 DEF CountOK
  <2>3. sendArr[s] \in Seq(Int)
    BY <1>1 DEF DataTypes, SendTypes
  <2> QED
    BY <2>1, <2>2, <2>3, PrefixAll DEF Gathered
<1>8. \A u \in Threads : Handled(u)' = Handled(u)
  BY <1>1, <1>a DEF Handled
<1>9. \A p : Holding(s, p)' <=> Holding(s, p)
  <2>1. pc[t] \in HandlePcs /\ pc'[t] \in HandlePcs
    BY <1>1, <1>a DEF Shape, HandlePcs, SendPcs
  <2> QED
    BY <1>1, <1>8, <2>1, HoldingSame
<1>b. c = toBeDeleted[s] /\ q = sendBuf[s]
  OBVIOUS
<1> HIDE DEF c, q, k
<1>10. \A p : Queued(s, p)' <=> InQueue(s, p)
  <2> TAKE p
  <2>1. Queued(s, p)' <=> \/ \E i \in 1 .. Len(q) - k : q[k + i] = p
                          \/ \E i \in 1 .. k : q[i] = p
    BY <1>2, <1>4, <1>6, ZenonT(60) DEF Queued, InQueue, InGathered
  <2>2. InQueue(s, p) <=> \E i \in 1 .. Len(q) : q[i] = p
    BY <1>b DEF InQueue
  <2>3. ASSUME NEW i \in 1 .. Len(q), q[i] = p
        PROVE  (\E j \in 1 .. Len(q) - k : q[k + j] = p) \/ (\E j \in 1 .. k : q[j] = p)
    <3>1. CASE i <= k
      BY <1>3, <2>3, <3>1
    <3>2. CASE i > k
      <4>1. i - k \in 1 .. Len(q) - k /\ k + (i - k) = i
        BY <1>3, <3>2
      <4> QED
        BY <2>3, <4>1
    <3> QED
      BY <1>3, <3>1, <3>2
  <2>4. ASSUME NEW j \in 1 .. Len(q) - k, q[k + j] = p PROVE \E i \in 1 .. Len(q) : q[i] = p
    <3>1. k + j \in 1 .. Len(q)
      BY <1>3, <1>4
    <3> QED
      BY <2>4, <3>1
  <2>5. ASSUME NEW j \in 1 .. k, q[j] = p PROVE \E i \in 1 .. Len(q) : q[i] = p
    BY <1>3, <1>4, <2>5
  <2> QED
    BY <2>1, <2>2, <2>3, <2>4, <2>5
<1>11. ~sendFailed[c] => \A p : ~InGathered(s, p)
  BY <1>7 DEF InGathered
<1>12. toBeDeleted'[s] = c /\ c \in Conns /\ refCount'[c] = refCount[c] /\ sendFailed'[c] = sendFailed[c]
  BY <1>1, <1>a, <1>b
<1>13. ASSUME NEW p \in Packets
       PROVE  /\ refCount[c][p] >= Refs(s, p)'
              /\ ~sendFailed[c] \/ Queued(s, p)' => refCount[c][p] = Refs(s, p)'
  <2>1. refCount[c][p] \in Int
    BY <1>1, <1>12 DEF DataTypes, RefTypes
  <2>2. /\ refCount[c][p] >= Refs(s, p)
        /\ ~sendFailed[c] \/ Queued(s, p) => refCount[c][p] = Refs(s, p)
    BY <1>1, <1>12, <1>b DEF RefOK
  <2>3. InQueue(s, p) => Queued(s, p)
    BY DEF Queued
  <2>4. ~sendFailed[c] => (Queued(s, p) <=> InQueue(s, p))
    BY <1>11 DEF Queued
  <2>5. Refs(s, p)' = (IF InQueue(s, p) THEN 1 ELSE 0) + (IF Holding(s, p) THEN 1 ELSE 0)
    BY <1>9, <1>10 DEF Refs
  <2> QED
    BY <1>10, <2>1, <2>2, <2>3, <2>4, <2>5 DEF Refs
<1> QED
  BY <1>12, <1>13 DEF RefOK

\* the packets of the finished send are released
LEMMA RefsDone ==
  ASSUME Control, Next, NEW s \in Sessions, CountOK(s), RefOK(s), NEW t \in Threads, cur[t] = s,
         SendDone(t), NEW n \in Nat, Run(s, n)
  PROVE  RefOK(s)'
<1>0. HolderStep(t)
  BY DEF HolderStep, HandleStep
<1> DEFINE c == toBeDeleted[s]
           g == Gathered(s)
<1>1. /\ Shape /\ DataTypes /\ c \in Conns /\ At(s, {"breakSock"}) = {}
      /\ \A u \in Threads : u # t => pc'[u] = pc[u]
      /\ UNCHANGED <<cur, op, toBeDeleted>>
      /\ pc[t] \in FlagPcs => \A u \in Threads : cur[u] = s /\ u # t => pc[u] \notin FlagPcs
  BY <1>0, HolderFacts
<1>2. pc[t] = "sendDone" /\ sendCount[s] > 0 /\ op[t] = "send"
  BY DEF SendDone, Control, Sends, SendOK, FlagOK, At, IInv, CurOK
<1>3. At(s, {"post"}) = {} /\ g = Prefix(sendArr[s], sendCount[s])
  BY <1>1, <1>2 DEF At, FlagPcs, Gathered
<1>4. /\ pc' = [pc EXCEPT ![t] = "flagClear"] /\ sendCount' = [sendCount EXCEPT ![s] = 0]
      /\ refCount' = [refCount EXCEPT ![c] = [p \in Packets |-> @[p] - Copies(g, p)]]
      /\ UNCHANGED <<batch, arrived, sendArr, sendBuf, sendFailed>>
  BY <1>1, <1>2, <1>3 DEF SendDone, ReleaseAll, Goto, netVars, DataTypes, SendTypes
<1>5. Gathered(s)' = <<>>
  <2>1. At(s, {"post"})' = {}
    BY <1>1, <1>3, <1>4 DEF At, Shape
  <2>2. sendArr[s] \in Seq(Int) /\ sendCount'[s] = 0
    BY <1>1, <1>4 DEF DataTypes, SendTypes
  <2> QED
    BY <1>4, <2>1, <2>2, PrefixAll DEF Gathered
<1>6. g \in Seq(Int) /\ Len(g) \in Nat
  BY <1>1, GatheredSeq
<1>7. Len(sendBuf[s]) \in Nat
  BY <1>1 DEF DataTypes, SendTypes
<1>8. \A p : Copies(g, p) = IF InGathered(s, p) THEN 1 ELSE 0
  <2>1. PICK b \in Nat : RunFrom(g, b)
    BY DEF Run
  <2> QED
    BY <1>6, <2>1, RunCopies DEF InGathered
<1>9. ASSUME NEW p, InGathered(s, p) PROVE ~InQueue(s, p)
  <2>1. PICK first \in Int : first = n - Len(sendBuf[s]) /\ RunFrom(sendBuf[s], first)
    BY <1>7 DEF Run
  <2>2. PICK b \in Nat : b + Len(g) <= first /\ RunFrom(g, b)
    BY <2>1 DEF Run
  <2>3. PICK i \in 1 .. Len(g) : p = b + i - 1
    BY <1>9, <2>2 DEF InGathered, RunFrom
  <2> HIDE DEF g
  <2>4. p \in Int /\ p < first
    BY <1>6, <2>2, <2>3
  <2>5. InQueue(s, p) => p >= first
    BY <1>7, <2>1 DEF InQueue, RunFrom
  <2> QED
    BY <2>1, <2>4, <2>5
<1>10. \A p : Holding(s, p)' <=> Holding(s, p)
  <2>1. \A u \in Threads : Handled(u)' = Handled(u)
    BY <1>1, <1>4 DEF Handled
  <2> QED
    BY <1>1, <1>2, <2>1, HoldingSame
<1>11. \A p : Queued(s, p)' <=> InQueue(s, p)
  BY <1>4, <1>5 DEF Queued, InQueue, InGathered
<1>12. /\ toBeDeleted'[s] = c /\ sendFailed'[c] = sendFailed[c]
       /\ \A p \in Packets : refCount'[c][p] = refCount[c][p] - IF InGathered(s, p) THEN 1 ELSE 0
  BY <1>1, <1>4, <1>8 DEF DataTypes, RefTypes
<1>13. ASSUME NEW p \in Packets
       PROVE  /\ refCount'[c][p] >= Refs(s, p)'
              /\ ~sendFailed[c] \/ Queued(s, p)' => refCount'[c][p] = Refs(s, p)'
  <2>1. refCount[c][p] \in Int
    BY <1>1 DEF DataTypes, RefTypes
  <2>2. /\ refCount[c][p] >= Refs(s, p)
        /\ ~sendFailed[c] \/ Queued(s, p) => refCount[c][p] = Refs(s, p)
    BY <1>1 DEF RefOK
  <2>3. Refs(s, p)' = (IF InQueue(s, p) THEN 1 ELSE 0) + (IF Holding(s, p) THEN 1 ELSE 0)
    BY <1>10, <1>11 DEF Refs
  <2>4. CASE InGathered(s, p)
    <3>1. refCount[c][p] = 1 + IF Holding(s, p) THEN 1 ELSE 0
      BY <2>2, <2>4 DEF Refs, Queued
    <3> QED
      BY <1>9, <1>12, <2>3, <2>4, <3>1
  <2>5. CASE ~InGathered(s, p)
    <3>1. Refs(s, p)' = Refs(s, p) /\ (Queued(s, p)' <=> Queued(s, p))
      BY <1>11, <2>3, <2>5 DEF Refs, Queued
    <3>2. refCount'[c][p] = refCount[c][p]
      BY <1>12, <2>1, <2>5
    <3> QED
      BY <2>2, <3>1, <3>2
  <2> QED
    BY <2>4, <2>5
<1> QED
  BY <1>12, <1>13 DEF RefOK
\* a new packet: one reference for the queue, one for the handler
LEMMA RefsQueue ==
  ASSUME Control, Next, NEW s \in Sessions, CountOK(s), RefOK(s), NEW t \in Threads, cur[t] = s,
         (t = Acceptor /\ OnAccept) \/ ProcessMessage(t),
         NEW n \in Nat, Counts(s, n), Run(s, n)
  PROVE  RefOK(s)'
<1>0. HolderStep(t)
  BY DEF HolderStep, HandleStep
<1> DEFINE c == toBeDeleted[s]
           q == sendBuf[s]
<1>1. /\ Shape /\ DataTypes /\ c \in Conns /\ batch \in [Threads -> Nat]
      /\ \A u \in Threads : u # t => pc'[u] = pc[u]
      /\ UNCHANGED <<cur, op, toBeDeleted>> /\ At(s, {"breakSock"}) = {}
      /\ Receiving(t) => \A u \in Threads : cur[u] = s /\ u # t => ~Receiving(u)
  BY <1>0, HolderFacts
<1>2. /\ pc[t] \in {"onAccept", "loop"} /\ pc' = [pc EXCEPT ![t] = "size1"]
      /\ op[t] = IF pc[t] = "onAccept" THEN "accept" ELSE "recv"
      /\ UNCHANGED <<sendCount, sendArr, sendFailed, arrived>>
  BY DEF OnAccept, ProcessMessage, Goto, netVars, Control, WorkOK
<1>3. /\ sendBuf' = [sendBuf EXCEPT ![s] = Append(@, n)]
      /\ refCount' = [refCount EXCEPT ![c][n] = 2]
      /\ Handled(t)' = n
  <2>1. CASE t = Acceptor /\ OnAccept
    <3>1. n = 0
      BY <2>1, AcceptNumbers
    <3>2. Handled(t)' = 0
      BY <1>1, <1>2, <2>1 DEF OnAccept, Handled
    <3> QED
      BY <2>1, <3>1, <3>2 DEF OnAccept
  <2>2. CASE ProcessMessage(t)
    <3>1. n = arrived[c] - batch[t] + 1
      BY <2>2, MessageNumbers
    <3>2. batch'[t] = batch[t] - 1 /\ op[t] = "recv"
      BY <1>1, <1>2, <2>2 DEF ProcessMessage
    <3>3. Handled(t)' = arrived[c] - (batch[t] - 1)
      BY <1>1, <1>2, <3>2 DEF Handled
    <3>4. arrived[c] \in Int /\ batch[t] \in Int
      BY <1>1, ConstantsAssumption DEF DataTypes, NetTypes
    <3>5. Handled(t)' = n
      BY <3>1, <3>3, <3>4
    <3> QED
      BY <2>2, <3>1, <3>5 DEF ProcessMessage
  <2> QED
    BY <2>1, <2>2
<1>4. q \in Seq(Int) /\ Len(q) \in Nat /\ sendBuf'[s] = Append(q, n)
  BY <1>1, <1>3 DEF DataTypes, SendTypes
<1>5. /\ Len(Append(q, n)) = Len(q) + 1 /\ Append(q, n)[Len(q) + 1] = n
      /\ \A i \in 1 .. Len(q) : Append(q, n)[i] = q[i]
  BY <1>4
<1>6. Gathered(s)' = Gathered(s)
  <2>1. At(s, {"post"})' = At(s, {"post"})
    BY <1>1, <1>2 DEF At, Shape
  <2> QED
    BY <1>2, <2>1 DEF Gathered
<1>7. \A p : Queued(s, p)' <=> Queued(s, p) \/ p = n
  <2> TAKE p
  <2>1. InGathered(s, p)' <=> InGathered(s, p)
    BY <1>6 DEF InGathered
  <2>2. InQueue(s, p)' <=> \E i \in 1 .. Len(q) + 1 : Append(q, n)[i] = p
    BY <1>4, <1>5 DEF InQueue
  <2>3. InQueue(s, p) <=> \E i \in 1 .. Len(q) : q[i] = p
    BY DEF InQueue
  <2> HIDE DEF q
  <2>4. InQueue(s, p)' <=> InQueue(s, p) \/ p = n
    BY <1>4, <1>5, <2>2, <2>3
  <2> QED
    BY <2>1, <2>4 DEF Queued
<1>8. \A p : ~Holding(s, p)
  <2>1. Receiving(t) /\ pc[t] \notin HandlePcs
    BY <1>2 DEF Receiving, RecvPcs, HandlePcs, SendPcs
  <2> QED
    BY <1>1, <2>1 DEF Holding, At, HandlePcs, Receiving, RecvPcs
<1>9. \A p : Holding(s, p)' <=> p = n
  <2>1. Receiving(t)
    BY <1>2 DEF Receiving, RecvPcs
  <2>2. \A u \in Threads : cur'[u] = s /\ pc'[u] \in HandlePcs /\ op'[u] # "send" => u = t
    BY <1>1, <1>2, <2>1 DEF HandlePcs, Receiving, RecvPcs
  <2>3. cur'[t] = s /\ pc'[t] \in HandlePcs /\ op'[t] # "send"
    BY <1>1, <1>2 DEF Shape, HandlePcs, SendPcs
  <2> QED
    BY <1>3, <2>2, <2>3 DEF Holding, At
<1>10. /\ toBeDeleted'[s] = c /\ sendFailed'[c] = sendFailed[c]
       /\ \A p \in Packets : refCount'[c][p] = IF p = n THEN 2 ELSE refCount[c][p]
  BY <1>1, <1>2, <1>3 DEF DataTypes, RefTypes
<1>11. ASSUME NEW p \in Packets
       PROVE  /\ refCount'[c][p] >= Refs(s, p)'
              /\ ~sendFailed[c] \/ Queued(s, p)' => refCount'[c][p] = Refs(s, p)'
  <2>1. CASE p = n
    <3>1. Refs(s, p)' = 2 /\ refCount'[c][p] = 2
      BY <1>7, <1>9, <1>10, <2>1 DEF Refs
    <3> QED
      BY <3>1
  <2>2. CASE p # n
    <3>1. Refs(s, p)' = Refs(s, p) /\ (Queued(s, p)' <=> Queued(s, p))
      BY <1>7, <1>8, <1>9, <2>2 DEF Refs
    <3>2. refCount'[c][p] = refCount[c][p]
      BY <1>10, <2>2
    <3> QED
      BY <1>1, <3>1, <3>2 DEF RefOK
  <2> QED
    BY <2>1, <2>2
<1> QED
  BY <1>10, <1>11 DEF RefOK

\* the handler gives its reference back
LEMMA RefsUnref ==
  ASSUME Control, Next, NEW s \in Sessions, RefOK(s), NEW t \in Threads, cur[t] = s, Unref(t)
  PROVE  RefOK(s)'
<1>0. HolderStep(t)
  BY DEF HolderStep, HandleStep
<1> DEFINE c == toBeDeleted[s]
           h == Handled(t)
<1>1. /\ Shape /\ DataTypes /\ c \in Conns
      /\ \A u \in Threads : u # t => pc'[u] = pc[u]
      /\ UNCHANGED <<cur, op, toBeDeleted>> /\ At(s, {"breakSock"}) = {}
      /\ Receiving(t) => \A u \in Threads : cur[u] = s /\ u # t => ~Receiving(u)
  BY <1>0, HolderFacts
<1>2. /\ pc[t] = "unref" /\ pc'[t] \in {"recvPost", "loop"}
      /\ UNCHANGED <<batch, sendCount, sendArr, sendBuf, sendFailed, arrived>>
      /\ refCount' = [refCount EXCEPT ![c] = [p \in Packets |-> @[p] - Copies(<<h>>, p)]]
  BY <1>1 DEF Unref, Goto, netVars, sendVars, Shape, ReleaseAll
<1>3. \A p : Copies(<<h>>, p) = IF p = h THEN 1 ELSE 0
  <2> TAKE p
  <2>1. DOMAIN <<h>> = 1 .. 1 /\ <<h>>[1] = h
    OBVIOUS
  <2>2. Copies(<<h>>, p) = IF \E i \in 1 .. 1 : <<h>>[i] = p THEN 1 ELSE 0
    <3> HIDE DEF h
    <3>1. \A i, j \in 1 .. 1 : <<h>>[i] = <<h>>[j] => i = j
      OBVIOUS
    <3> DEFINE q == <<h>>
    <3>2. 1 \in Nat /\ DOMAIN q = 1 .. 1 /\ \A i, j \in 1 .. 1 : q[i] = q[j] => i = j
      BY <2>1, <3>1
    <3> HIDE DEF q
    <3>3. Copies(q, p) = IF \E i \in 1 .. 1 : q[i] = p THEN 1 ELSE 0
      BY <3>2, OneCopy
    <3> QED
      BY <3>3 DEF q
  <2> QED
    BY <2>1, <2>2
<1>4. Gathered(s)' = Gathered(s)
  <2>1. At(s, {"post"})' = At(s, {"post"})
    BY <1>1, <1>2 DEF At
  <2> QED
    BY <1>2, <2>1 DEF Gathered
<1>5. \A p : Queued(s, p)' <=> Queued(s, p)
  BY <1>2, <1>4 DEF Queued, InQueue, InGathered
<1>6. Receiving(t) /\ op[t] # "send"
  BY <1>2 DEF Receiving, RecvPcs, Control, WorkOK
<1>7. \A p : Holding(s, p) <=> p = h
  <2>1. \A u \in Threads : cur[u] = s /\ pc[u] \in HandlePcs /\ op[u] # "send" => u = t
    BY <1>1, <1>6 DEF HandlePcs, Receiving, RecvPcs
  <2>2. pc[t] \in HandlePcs
    BY <1>2 DEF HandlePcs
  <2> QED
    BY <1>6, <2>1, <2>2 DEF Holding, At
<1>8. \A p : ~Holding(s, p)'
  <2>1. pc'[t] \notin HandlePcs
    BY <1>2 DEF HandlePcs, SendPcs
  <2>2. \A u \in Threads : cur[u] = s /\ pc[u] \in HandlePcs /\ op[u] # "send" => u = t
    BY <1>1, <1>6 DEF HandlePcs, Receiving, RecvPcs
  <2> QED
    BY <1>1, <2>1, <2>2 DEF Holding, At
<1>9. /\ toBeDeleted'[s] = c /\ sendFailed'[c] = sendFailed[c]
      /\ \A p \in Packets : refCount'[c][p] = refCount[c][p] - IF p = h THEN 1 ELSE 0
  BY <1>1, <1>2, <1>3 DEF DataTypes, RefTypes
<1>10. ASSUME NEW p \in Packets
       PROVE  /\ refCount'[c][p] >= Refs(s, p)'
              /\ ~sendFailed[c] \/ Queued(s, p)' => refCount'[c][p] = Refs(s, p)'
  <2>1. /\ refCount[c][p] >= Refs(s, p) /\ refCount[c][p] \in Int
        /\ ~sendFailed[c] \/ Queued(s, p) => refCount[c][p] = Refs(s, p)
    BY <1>1 DEF RefOK, DataTypes, RefTypes
  <2>2. Refs(s, p) = (IF Queued(s, p) THEN 1 ELSE 0) + IF p = h THEN 1 ELSE 0
    BY <1>7 DEF Refs
  <2>3. Refs(s, p)' = (IF Queued(s, p) THEN 1 ELSE 0) + 0
    BY <1>5, <1>8 DEF Refs
  <2>4. refCount'[c][p] = refCount[c][p] - IF p = h THEN 1 ELSE 0
    BY <1>9
  <2> HIDE DEF c, h
  <2> QED
    BY <1>5, <2>1, <2>2, <2>3, <2>4
<1> QED
  BY <1>9, <1>10 DEF RefOK
\* nobody handles a packet, none is queued or gathered
LEMMA RefsNone ==
  ASSUME NEW s \in Sessions, sendBuf[s] = <<>>, Gathered(s) = <<>>, At(s, HandlePcs) = {}, NEW p
  PROVE  ~Queued(s, p) /\ Refs(s, p) = 0
BY DEF Queued, InQueue, InGathered, Refs, Holding

\* where the session is not used nothing is queued or gathered
LEMMA NothingGathered ==
  ASSUME Control, NEW s \in Sessions, ~InUse(s)
  PROVE  sendBuf[s] = <<>> /\ sendCount[s] = 0 /\ Gathered(s) = <<>> /\ At(s, HandlePcs) = {}
<1>1. sendBuf[s] = <<>> /\ sendCount[s] = 0
  BY DEF Control, Sends, SendOK, FlagOK
<1>2. At(s, {"post"}) = {} /\ At(s, HandlePcs) = {}
  BY DEF InUse, Idle, At, HandlePcs, RefPcs, SendPcs
<1>3. sendArr[s] \in Seq(Int)
  BY DataShape DEF Control, DataTypes, SendTypes
<1> QED
  BY <1>1, <1>2, <1>3, PrefixAll DEF Gathered

\* a thread that releases the session finds exactly one reference to each packet left
LEMMA DrainFacts ==
  ASSUME Control, Next, NEW s \in Sessions, CountOK(s), Numbered(s), RefOK(s),
         NEW t \in Threads, cur[t] = s, pc[t] = "drain"
  PROVE  LET c == toBeDeleted[s]
             unsent == Prefix(sendArr[s], sendCount[s]) IN
         /\ c \in Conns /\ unsent = Gathered(s) /\ unsent \in Seq(Int)
         /\ \A p : Copies(sendBuf[s] \o unsent, p) = IF Queued(s, p) THEN 1 ELSE 0
         /\ \A p : ~Holding(s, p)
         /\ \A p \in Packets : Queued(s, p) => refCount[c][p] = 1
<1> DEFINE c == toBeDeleted[s]
           g == Gathered(s)
<1>1. /\ Idle(s) /\ c \in Conns
      /\ \A u \in Threads : u # t /\ cur[u] = s => pc[u] \notin SlotPcs
  BY Alone DEF Control, ReleasePcs
<1>2. InUse(s) /\ At(s, {"breakSock"}) = {}
  BY DEF InUse, At, Next, Running, BreakPcs
<1>3. At(s, {"post"}) = {} /\ At(s, HandlePcs) = {}
  BY <1>1 DEF Idle, At, HandlePcs, RefPcs, SendPcs
<1>4. g = Prefix(sendArr[s], sendCount[s])
  BY <1>3 DEF Gathered
<1>5. g \in Seq(Int)
  BY <1>2, GatheredSeq
<1>6. sendBuf[s] \in Seq(Int) /\ Len(sendBuf[s]) \in Nat
  BY DataShape DEF Control, DataTypes, SendTypes
<1>7. \A p : Copies(sendBuf[s] \o g, p) = IF Queued(s, p) THEN 1 ELSE 0
  <2>1. PICK n \in Nat : Run(s, n)
    BY <1>2 DEF Numbered
  <2>2. PICK first \in Int : first = n - Len(sendBuf[s]) /\ RunFrom(sendBuf[s], first)
    BY <1>6, <2>1 DEF Run
  <2>3. PICK b \in Nat : b + Len(g) <= first /\ RunFrom(g, b)
    BY <2>1, <2>2 DEF Run
  <2>4. b \in Int
    BY <2>3
  <2> HIDE DEF g
  <2> TAKE p
  <2>5. Copies(sendBuf[s] \o g, p) = IF \/ \E i \in 1 .. Len(sendBuf[s]) : sendBuf[s][i] = p
                                        \/ \E i \in 1 .. Len(g) : g[i] = p
                                     THEN 1 ELSE 0
    BY <1>5, <1>6, <2>2, <2>3, <2>4, RunsCopies
  <2> QED
    BY <2>5 DEF Queued, InQueue, InGathered, g
<1>8. \A p : ~Holding(s, p)
  BY <1>3 DEF Holding
<1>9. \A p \in Packets : Queued(s, p) => refCount[c][p] = 1
  BY <1>1, <1>2, <1>8 DEF RefOK, Refs
<1> QED
  BY <1>1, <1>4, <1>5, <1>7, <1>8, <1>9

LEMMA RefsLeave ==
  ASSUME Control, Next, NEW s \in Sessions, CountOK(s), Numbered(s), RefOK(s),
         NEW t \in Threads, IODecrement(t) \/ Release(t), cur[t] = s
  PROVE  RefOK(s)'
<1>0. Shape /\ DataTypes /\ At(s, {"breakSock"}) = {}
  BY DataShape DEF Control, Next, Running, BreakPcs, At
<1>1. CASE IODecrement(t) \/ ReleaseClose(t) \/ ReleasePush(t)
  <2>1. /\ pc[t] \in {"ioDec", "close", "push"}
        /\ UNCHANGED <<batch, sendVars, refCount, toBeDeleted, sendFailed, arrived>>
        /\ \A u \in Threads : u # t => pc'[u] = pc[u] /\ cur'[u] = cur[u] /\ op'[u] = op[u]
        /\ pc'[t] \in {"drain", "push", "acceptEnd", "gqcs"}
    BY <1>0, <1>1 DEF IODecrement, ReleaseClose, ReleasePush, Goto, GoHome, sockVars, netVars,
       Shape
  <2>2. At(s, {"post"})' = At(s, {"post"})
    BY <2>1 DEF At
  <2>3. Gathered(s)' = Gathered(s)
    BY <2>1, <2>2 DEF Gathered, sendVars
  <2>4. pc[t] \notin HandlePcs /\ pc'[t] \notin HandlePcs
    BY <2>1 DEF HandlePcs, SendPcs
  <2>5. \A u \in Threads : u # t => Handled(u)' = Handled(u)
    BY <2>1 DEF Handled
  <2>6. \A p : Holding(s, p)' <=> Holding(s, p)
    BY <2>1, <2>4, <2>5, HoldingSame
  <2>7. RefSame(s)
    BY <2>1, <2>3, <2>6 DEF RefSame, sendVars
  <2> QED
    BY <1>0, <2>7, RefKept
<1>2. CASE ReleaseDrain(t)
  <2> DEFINE c == toBeDeleted[s]
             q == sendBuf[s] \o Prefix(sendArr[s], sendCount[s])
  <2>1. /\ pc[t] = "drain" /\ UNCHANGED <<cur, op, batch, sendArr, toBeDeleted, sendFailed, arrived>>
        /\ sendBuf' = [sendBuf EXCEPT ![s] = <<>>] /\ sendCount' = [sendCount EXCEPT ![s] = 0]
        /\ refCount' = [refCount EXCEPT ![c] = [p \in Packets |-> @[p] - Copies(q, p)]]
    BY <1>2 DEF ReleaseDrain, ReleaseAll, sockVars, netVars
  <2>2. /\ c \in Conns
        /\ \A p : Copies(q, p) = IF Queued(s, p) THEN 1 ELSE 0
        /\ \A p : ~Holding(s, p)
        /\ \A p \in Packets : Queued(s, p) => refCount[c][p] = 1
    BY <2>1, DrainFacts
  <2>3. /\ \A u \in Threads : u # t /\ cur[u] = s => pc[u] \notin SlotPcs
    BY <2>1, Alone DEF Control, ReleasePcs
  <2>4. /\ \A u \in Threads : u # t => pc'[u] = pc[u]
        /\ pc'[t] \notin HandlePcs \cup {"post"}
    BY <1>0, <1>2 DEF ReleaseDrain, Goto, Shape, HandlePcs, SendPcs
  <2>5. At(s, HandlePcs)' = {} /\ At(s, {"post"})' = {}
    BY <2>1, <2>3, <2>4 DEF At, HandlePcs, SlotPcs, RefPcs, SendPcs
  <2>6. sendBuf'[s] = <<>> /\ sendCount'[s] = 0 /\ sendArr[s] \in Seq(Int)
    BY <1>0, <2>1 DEF DataTypes, SendTypes
  <2>7. Gathered(s)' = <<>>
    BY <2>1, <2>5, <2>6, PrefixAll DEF Gathered
  <2>8. \A p : ~Queued(s, p)' /\ Refs(s, p)' = 0
    BY <2>5, <2>6, <2>7 DEF Queued, InQueue, InGathered, Refs, Holding
  <2> HIDE DEF q, c
  <2>9. \A p \in Packets : refCount'[c][p] = refCount[c][p] - IF Queued(s, p) THEN 1 ELSE 0
    BY <1>0, <2>1, <2>2 DEF DataTypes, RefTypes
  <2>10. ASSUME NEW p \in Packets
         PROVE  /\ refCount'[c][p] >= 0
                /\ ~sendFailed[c] => refCount'[c][p] = 0
    <3>1. /\ refCount[c][p] >= Refs(s, p) /\ refCount[c][p] \in Int
          /\ ~sendFailed[c] \/ Queued(s, p) => refCount[c][p] = Refs(s, p)
      BY <1>0, <2>2 DEF RefOK, DataTypes, RefTypes, c
    <3>2. Refs(s, p) = IF Queued(s, p) THEN 1 ELSE 0
      BY <2>2 DEF Refs
    <3> QED
      BY <2>9, <3>1, <3>2
  <2>11. toBeDeleted'[s] = c /\ sendFailed'[c] = sendFailed[c]
    BY <2>1 DEF c
  <2> QED
    BY <2>8, <2>10, <2>11 DEF RefOK
<1> QED
  BY <1>1, <1>2 DEF Release

LEMMA RefsHolder ==
  ASSUME Control, Next, NEW s \in Sessions, CountOK(s), Numbered(s), RefOK(s),
         NEW t \in Threads, HolderStep(t), cur[t] = s
  PROVE  RefOK(s)'
<1>1. /\ InUse(s) /\ At(s, {"breakSock"}) = {} /\ cur'[t] = s
  BY HolderFacts
<1>2. PICK n \in Nat : Counts(s, n) /\ Run(s, n)
  BY <1>1 DEF Numbered
<1>3. CASE pc'[t] = "breakSock"
  <2>1. At(s, {"breakSock"})' # {}
    BY <1>1, <1>3 DEF At
  <2> QED
    BY <2>1 DEF RefOK
<1>4. CASE SendGather(t)
  BY <1>4, RefsGather
<1>5. CASE SendDone(t)
  BY <1>2, <1>5, RefsDone
<1>6. CASE (t = Acceptor /\ OnAccept) \/ ProcessMessage(t)
  BY <1>2, <1>6, RefsQueue
<1>7. CASE Unref(t)
  BY <1>7, RefsUnref
<1>8. CASE pc'[t] # "breakSock" /\ (\/ SendPost(t) /\ ~SendGather(t)
                                    \/ RecvStep(t) \/ FlagClear(t) \/ ProcessEnd(t))
  BY <1>8, RefsStill
<1> QED
  BY <1>3, <1>4, <1>5, <1>6, <1>7, <1>8 DEF HolderStep, HandleStep

\* the steps outside the threads of a session, and those of other sessions
LEMMA RefsAway ==
  ASSUME Control, Next, NEW s \in Sessions, RefOK(s),
         \/ ~ThreadTouches(s) /\ ~OtherTouches(s)
         \/ OtherTouches(s)
         \/ \E t \in Threads : DequeueRecv(t, s) \/ DequeueSend(t, s)
  PROVE  RefOK(s)'
<1>0. Shape /\ DataTypes /\ batch \in [Threads -> Nat] /\ At(s, {"breakSock"}) = {}
  BY DataShape DEF Control, Next, Running, BreakPcs, At
<1>1. CASE ~ThreadTouches(s) /\ ~OtherTouches(s)
  <2>1. Same(s)
    BY <1>1, Untouched DEF Control
  <2>2. At(s, {"post"})' = At(s, {"post"}) /\ At(s, {"breakSock"})' = At(s, {"breakSock"})
    BY <2>1 DEF At, Same
  <2>3. CASE toBeDeleted[s] \notin Conns
    BY <2>1, <2>3 DEF RefOK, Same
  <2>4. CASE toBeDeleted[s] \in Conns
    <3>1. Gathered(s)' = Gathered(s)
      BY <2>1, <2>2 DEF Gathered, Same
    <3>2. \A u \in Threads : cur[u] = s => Handled(u)' = Handled(u)
      BY <2>1, <2>4 DEF Handled, Same
    <3>3. \A p : Holding(s, p)' <=> Holding(s, p)
      BY <2>1, <3>2, HoldingSame DEF Same
    <3>4. RefSame(s)
      BY <2>1, <2>4, <3>1, <3>3 DEF RefSame, Same
    <3> QED
      BY <1>0, <3>4, RefKept
  <2> QED
    BY <2>3, <2>4
<1>2. CASE OtherTouches(s)
  <2>0. OutsideStep
    BY <1>2 DEF OtherTouches, OutsideStep, KernelStep, ClientStep, MainStep
  <2>1. UNCHANGED <<pc, cur, op, batch, sendVars, toBeDeleted, sendFailed, refCount>>
    BY <1>2 DEF OtherTouches, KernelCompletes, RecvArrives, RecvEnds, SendCompletes,
       SendAborts, ClientClose, ClientReset, MainInvalidate, MainCancel, sendVars, sockVars,
          netVars,
       threadVars
  <2>2. At(s, {"post"})' = At(s, {"post"})
    BY <2>1 DEF At
  <2>3. Gathered(s)' = Gathered(s)
    BY <2>1, <2>2 DEF Gathered, sendVars
  <2>4. \A u \in Threads : cur[u] = s /\ pc[u] \in HandlePcs /\ op[u] # "send" => Handled(u)' = Handled(u)
    <3>1. CASE UNCHANGED arrived
      BY <2>1, <3>1 DEF Handled
    <3>2. CASE recvIO[s] = "pending"
      BY <3>2 DEF Control, IInv, RecvExclusive, HandlePcs, Receiving, RecvPcs
    <3> QED
      BY <1>2, <3>1, <3>2 DEF OtherTouches, KernelCompletes, RecvArrives, RecvEnds, SendCompletes,
         SendAborts, ClientClose, ClientReset, MainInvalidate, MainCancel, netVars
  <2>5. \A p : Holding(s, p)' <=> Holding(s, p)
    BY <2>1, <2>4, HoldingSame
  <2>6. RefSame(s)
    BY <2>1, <2>3, <2>5 DEF RefSame, sendVars
  <2> QED
    BY <1>0, <2>6, RefKept
<1>3. ASSUME NEW t \in Threads, DequeueRecv(t, s) \/ DequeueSend(t, s)
      PROVE  RefOK(s)'
  <2>1. /\ pc[t] = "gqcs" /\ cur[t] = None /\ cur' = [cur EXCEPT ![t] = s]
        /\ UNCHANGED <<sendVars, toBeDeleted, sendFailed, arrived, refCount>>
        /\ \A u \in Threads : u # t => pc'[u] = pc[u] /\ op'[u] = op[u] /\ batch'[u] = batch[u]
        /\ pc'[t] \in {"ioDec", "loop", "sendDone"}
    BY <1>0, <1>3 DEF DequeueRecv, DequeueSend, sockVars, netVars, Goto, Shape, Control, WorkOK
  <2>2. At(s, {"post"})' = At(s, {"post"})
    BY <1>0, <2>1 DEF At, Shape
  <2>3. Gathered(s)' = Gathered(s)
    BY <2>1, <2>2 DEF Gathered, sendVars
  <2>4. \A u \in Threads : u # t => cur'[u] = cur[u] /\ Handled(u)' = Handled(u)
    BY <1>0, <2>1 DEF Handled, Shape
  <2>5. pc[t] \notin HandlePcs /\ pc'[t] \notin HandlePcs
    BY <2>1 DEF HandlePcs, SendPcs
  <2>6. \A p : Holding(s, p)' <=> Holding(s, p)
    BY <2>1, <2>4, <2>5, HoldingSame
  <2>7. RefSame(s)
    BY <2>1, <2>3, <2>6 DEF RefSame, sendVars
  <2> QED
    BY <1>0, <2>7, RefKept
<1> QED
  BY <1>1, <1>2, <1>3

LEMMA RefsStep ==
  ASSUME Control, Fresh, CountsOK, AllNumbered, RefsOK, [Next]_vars
  PROVE  RefsOK'
<1>0. Shape /\ DataTypes
  BY DataShape DEF Control
<1> SUFFICES ASSUME NEW s \in Sessions PROVE RefOK(s)'
  BY DEF RefsOK
<1>1. CountOK(s) /\ Numbered(s) /\ RefOK(s)
  BY DEF CountsOK, AllNumbered, RefsOK
<1>2. CASE UNCHANGED vars
  <2>1. \A t \in Threads : Handled(t)' = Handled(t)
    BY <1>2 DEF Handled, vars, threadVars, netVars, sockVars
  <2>2. \A p : Holding(s, p)' <=> Holding(s, p)
    BY <1>2, <2>1, HoldingSame DEF vars, threadVars
  <2>3. /\ At(s, {"post"})' = At(s, {"post"}) /\ At(s, {"breakSock"})' = At(s, {"breakSock"})
    BY <1>2 DEF At, vars, threadVars
  <2>4. RefSame(s)
    BY <1>2, <2>2, <2>3 DEF RefSame, Gathered, vars, sendVars, netVars, sockVars
  <2>5. CASE At(s, {"breakSock"}) = {}
    BY <1>1, <2>4, <2>5, RefKept
  <2>6. CASE At(s, {"breakSock"}) # {}
    BY <2>3, <2>6 DEF RefOK
  <2> QED
    BY <2>5, <2>6
<1> SUFFICES ASSUME Next PROVE RefOK(s)'
  BY <1>2
<1>3. ASSUME NEW t \in Threads, cur[t] = s, HolderStep(t) \/ IODecrement(t) \/ Release(t)
      PROVE  RefOK(s)'
  BY <1>1, <1>3, RefsHolder, RefsLeave
<1>4. ASSUME NEW c \in Conns, Accept(c), freeStack # <<>>, s = freeStack[Len(freeStack)]
      PROVE  RefOK(s)'
  <2>1. /\ Idle(s) /\ \A u \in Threads : cur[u] = s => pc[u] \notin SlotPcs
        /\ cur' = [cur EXCEPT ![Acceptor] = s] /\ pc' = [pc EXCEPT ![Acceptor] = "init"]
        /\ toBeDeleted' = [toBeDeleted EXCEPT ![s] = c]
    BY <1>4, Popped DEF Control
  <2>2. conn[c] = "new" /\ UNCHANGED <<sendVars, refCount, sendFailed>>
    BY <1>4 DEF Accept
  <2>3. ~InUse(s)
    BY <2>1 DEF InUse, At, SlotPcs, ReleasePcs
  <2>4. sendBuf[s] = <<>> /\ sendCount[s] = 0
    BY <2>3, NothingGathered
  <2>5. At(s, HandlePcs)' = {} /\ At(s, {"post"})' = {}
    BY <1>0, <2>1 DEF Shape, At, HandlePcs, SlotPcs, RefPcs, SendPcs
  <2>6. sendArr'[s] \in Seq(Int) /\ sendBuf'[s] = <<>> /\ sendCount'[s] = 0
    BY <1>0, <2>2, <2>4 DEF DataTypes, SendTypes, sendVars
  <2>7. Gathered(s)' = <<>>
    BY <2>5, <2>6, PrefixAll DEF Gathered
  <2>8. \A p : ~Queued(s, p)' /\ Refs(s, p)' = 0
    BY <2>5, <2>6, <2>7 DEF Queued, InQueue, InGathered, Refs, Holding
  <2>9. toBeDeleted'[s] = c /\ \A p \in Packets : refCount'[c][p] = 0
    BY <1>0, <2>1, <2>2 DEF Fresh, DataTypes, SlotTypes
  <2> QED
    BY <2>8, <2>9 DEF RefOK
<1>5. CASE InitSession /\ s = cur[Acceptor]
  <2>1. /\ pc[Acceptor] = "init" /\ pc' = [pc EXCEPT ![Acceptor] = "onAccept"]
        /\ UNCHANGED <<cur, op, batch, sendBuf, sendArr, toBeDeleted, refCount, sendFailed, arrived>>
        /\ sendCount'[s] = 0
    BY <1>0, <1>5 DEF InitSession, Goto, DataTypes, SendTypes, netVars
  <2>2. Idle(s) /\ \A u \in Threads : u # Acceptor /\ cur[u] = s => pc[u] \notin SlotPcs
    BY <1>0, <1>5, <2>1, Alone DEF Control, Shape
  <2>3. ~InUse(s)
    BY <1>0, <1>5, <2>1, <2>2 DEF InUse, At, SlotPcs, ReleasePcs
  <2>4. sendCount[s] = 0
    BY <2>3, NothingGathered
  <2>5. At(s, {"post"})' = At(s, {"post"}) /\ At(s, {"breakSock"}) = {}
    BY <1>0, <2>1, <2>2 DEF At, Shape, Next, Running, BreakPcs
  <2>6. Gathered(s)' = Gathered(s)
    BY <2>1, <2>4, <2>5 DEF Gathered
  <2>7. \A u \in Threads : Handled(u)' = Handled(u)
    BY <2>1 DEF Handled
  <2>8. \A p : Holding(s, p)' <=> Holding(s, p)
    BY <1>0, <2>1, <2>7, HoldingSame DEF Shape, HandlePcs, SendPcs
  <2>9. RefSame(s)
    BY <2>1, <2>6, <2>8 DEF RefSame
  <2> QED
    BY <1>1, <2>5, <2>9, RefKept
<1> QED
  BY <1>1, <1>3, <1>4, <1>5, RefsAway DEF ThreadTouches
\* Refs counts what PacketRefs counts: no packet is queued or gathered twice,
\* and one thread at most handles a packet of the session
LEMMA RefsExact ==
  ASSUME Control, NEW s \in Sessions, CountOK(s), Numbered(s), At(s, {"breakSock"}) = {}, NEW p
  PROVE  PacketRefs(s, p) = Refs(s, p)
<1> DEFINE g == Gathered(s)
           H == {t \in At(s, HandlePcs) : op[t] # "send" /\ Handled(t) = p}
<1>1. sendBuf[s] \in Seq(Int) /\ Len(sendBuf[s]) \in Nat
  BY DataShape DEF Control, DataTypes, SendTypes
<1>2. g \in Seq(Int)
  BY GatheredSeq
<1>3. PICK first \in Int, b \in Int :
        RunFrom(sendBuf[s], first) /\ RunFrom(g, b) /\ b + Len(g) <= first
  <2>1. CASE InUse(s)
    <3>1. PICK n \in Nat : Run(s, n)
      BY <2>1 DEF Numbered
    <3>2. PICK first \in Int : first = n - Len(sendBuf[s]) /\ RunFrom(sendBuf[s], first)
      BY <1>1, <3>1 DEF Run
    <3>3. PICK b \in Nat : b + Len(g) <= first /\ RunFrom(g, b)
      BY <3>1, <3>2 DEF Run
    <3>4. b \in Int
      BY <3>3
    <3> QED
      BY <3>2, <3>3, <3>4
  <2>2. CASE ~InUse(s)
    <3>1. sendBuf[s] = <<>> /\ g = <<>>
      BY <2>2, NothingGathered
    <3>2. RunFrom(<<>>, 0) /\ 0 + Len(<<>>) <= 0 /\ 0 \in Int
      BY DEF RunFrom
    <3> HIDE DEF g
    <3> QED
      BY <3>1, <3>2
  <2> QED
    BY <2>1, <2>2
<1>4. Copies(sendBuf[s] \o g, p) = IF Queued(s, p) THEN 1 ELSE 0
  <2> HIDE DEF g
  <2>1. Copies(sendBuf[s] \o g, p) = IF \/ \E i \in 1 .. Len(sendBuf[s]) : sendBuf[s][i] = p
                                        \/ \E i \in 1 .. Len(g) : g[i] = p
                                     THEN 1 ELSE 0
    BY <1>1, <1>2, <1>3, RunsCopies
  <2> QED
    BY <2>1 DEF Queued, InQueue, InGathered, g
<1>5. Cardinality(H) = IF Holding(s, p) THEN 1 ELSE 0
  <2>1. CASE Holding(s, p)
    <3>1. PICK t \in H : TRUE
      BY <2>1 DEF Holding
    <3>2. \A u \in H : u = t
      BY <3>1 DEF At, HandlePcs, Control, IInv, RecvExclusive, Receiving, RecvPcs
    <3>3. H = {t}
      BY <3>1, <3>2
    <3> QED
      BY <2>1, <3>3, FS_Singleton
  <2>2. CASE ~Holding(s, p)
    <3>1. H = {}
      BY <2>2 DEF Holding
    <3> QED
      BY <2>2, <3>1, NoThread
  <2> QED
    BY <2>1, <2>2
<1>6. PacketRefs(s, p) = Copies(sendBuf[s] \o g, p) + Cardinality(H)
  BY DEF PacketRefs, HandlePcs
<1> QED
  BY <1>4, <1>5, <1>6 DEF Refs

LEMMA InitRefs == Init => RefsOK
<1> SUFFICES ASSUME Init, NEW s \in Sessions PROVE RefOK(s)
  BY DEF RefsOK
<1>1. toBeDeleted[s] \notin Conns
  BY ConstantsAssumption DEF Init
<1> QED
  BY <1>1 DEF RefOK

LEMMA RefsInvariance == Spec => [](Echoing /\ RefsOK)
<1>1. Init => RefsOK
  BY InitRefs
<1>2. RefsOK /\ Echoing /\ [Next]_vars => RefsOK'
  BY RefsStep DEF Echoing
<1> QED
  BY <1>1, <1>2, EchoInvariance, PTL DEF Spec

\* For every number of workers, sessions and clients: a packet has exactly the
\* references that will be released (CPacket::AddRef and Release, and the loops
\* over _pSendPacketArr), or more where a WSASend of its connection failed at
\* once: it is never freed while queued or in flight, and leaks only there.
THEOREM ReferencesExact == Spec => []RefCountExact
<1>1. Echoing /\ RefsOK => RefCountExact
  <2> SUFFICES ASSUME Echoing, RefsOK, NEW s \in Sessions, NEW p \in Packets,
                      toBeDeleted[s] \in Conns, At(s, {"breakSock"}) = {}
               PROVE  LET c == toBeDeleted[s] IN
                      IF sendFailed[c] THEN refCount[c][p] >= PacketRefs(s, p)
                                       ELSE refCount[c][p] = PacketRefs(s, p)
    BY DEF RefCountExact
  <2>1. PacketRefs(s, p) = Refs(s, p)
    BY RefsExact DEF Echoing, CountsOK, AllNumbered
  <2> QED
    BY <2>1 DEF RefsOK, RefOK
<1> QED
  BY <1>1, RefsInvariance, PTL

(***************************************************************************)
(* No DebugBreak                                                           *)
(***************************************************************************)
\* the Break labels the server may reach: those Stop and Disconnect lead to,
\* and that of an empty index stack, if clients may come while no slot is free
BreaksOK ==
  \/ Running \/ \E t \in Threads : pc[t] = "breakSock"
  \/ pc[Acceptor] = "breakPop" /\ Overload

\* a thread that releases a session does not find a packet left over from a
\* send that somebody else still holds
LEMMA DrainGoesOn ==
  ASSUME Echoing, RefsOK, Next, NEW t \in Threads, ReleaseDrain(t)
  PROVE  pc' = [pc EXCEPT ![t] = "close"]
<1> DEFINE s == cur[t]
           c == toBeDeleted[s]
           unsent == Prefix(sendArr[s], sendCount[s])
<1>1. pc[t] = "drain" /\ s \in Sessions
  BY Alone DEF ReleaseDrain, Echoing, Control, ReleasePcs
<1>2. CountOK(s) /\ Numbered(s) /\ RefOK(s)
  BY <1>1 DEF Echoing, CountsOK, AllNumbered, RefsOK
<1>3. /\ c \in Conns /\ unsent = Gathered(s) /\ unsent \in Seq(Int)
      /\ \A p \in Packets : Queued(s, p) => refCount[c][p] = 1
  BY <1>1, <1>2, DrainFacts DEF Echoing
<1>4. InUse(s) /\ At(s, {"breakSock"}) = {}
  BY <1>1 DEF InUse, At, Next, Running, BreakPcs
<1>5. PICK n \in Nat : Counts(s, n) /\ Run(s, n)
  BY <1>2, <1>4 DEF Numbered
<1>6. n <= MaxMsg + 1
  <2>1. \A u \in Threads : cur[u] = s => ~Receiving(u)
    <3>1. \A u \in Threads : u # t /\ cur[u] = s => pc[u] \notin SlotPcs
      BY <1>1, Alone DEF Echoing, Control, ReleasePcs
    <3> QED
      BY <1>1, <3>1 DEF Receiving, RecvPcs, SlotPcs, RefPcs, SendPcs
  <2>2. n + recvLen[s] = arrived[c] + 1
    BY <1>5, <2>1 DEF Counts
  <2>3. recvLen[s] \in Nat /\ arrived[c] \in 0 .. MaxMsg
    BY <1>1, <1>3, DataShape DEF Echoing, Control, DataTypes, IOTypes, NetTypes
  <2> QED
    BY <2>2, <2>3, ConstantsAssumption
<1>7. Len(sendBuf[s]) \in Nat
  BY <1>1, DataShape DEF Echoing, Control, DataTypes, SendTypes
<1>8. PICK b \in Nat : b + Len(unsent) <= n - Len(sendBuf[s]) /\ RunFrom(unsent, b)
  BY <1>3, <1>5 DEF Run
<1>9. ASSUME NEW i \in DOMAIN unsent PROVE refCount[c][unsent[i]] = 1
  <2>1. i \in 1 .. Len(unsent) /\ Len(unsent) \in Nat
    BY <1>3, <1>9
  <2>2. unsent[i] = b + i - 1
    BY <1>8, <2>1 DEF RunFrom
  <2>3. Queued(s, unsent[i])
    BY <1>3, <2>1 DEF Queued, InGathered
  <2> DEFINE m == Len(sendBuf[s])
             l == Len(unsent)
  <2>4. b + l <= n - m /\ m \in Nat /\ l \in Nat /\ i \in 1 .. l /\ n \in Nat /\ MaxMsg \in Nat
    BY <1>5, <1>7, <1>8, <2>1, ConstantsAssumption
  <2> HIDE DEF unsent, m, l
  <2>5. b + i - 1 \in 0 .. MaxMsg
    BY <1>6, <2>4
  <2>6. unsent[i] \in Packets
    BY <2>2, <2>5 DEF Packets
  <2> QED
    BY <1>3, <2>3, <2>6
<1> QED
  BY <1>9 DEF ReleaseDrain, Goto

LEMMA BreaksStep ==
  ASSUME Echoing, RefsOK, BreaksOK, [Next]_vars
  PROVE  BreaksOK'
<1>0. Shape /\ DataTypes
  BY DataShape DEF Echoing, Control
<1>1. CASE UNCHANGED vars
  BY <1>1 DEF BreaksOK, Running, vars, threadVars
<1> SUFFICES ASSUME Next PROVE BreaksOK'
  BY <1>1
<1>2. \A u \in Threads : pc[u] \notin BreakPcs
  BY DEF Next, Running
<1>3. ASSUME NEW t \in Threads, \A u \in Threads : u # t => pc'[u] = pc[u],
             pc'[t] \notin BreakPcs \/ pc'[t] = "breakSock"
      PROVE  BreaksOK'
  BY <1>2, <1>3 DEF BreaksOK, Running
<1>4. ASSUME NEW t \in Threads, HolderStep(t) PROVE BreaksOK'
  <2>1. /\ pc'[t] \in RefPcs /\ \A u \in Threads : u # t => pc'[u] = pc[u]
    BY <1>0, <1>4, HolderFrame
  <2>2. pc'[t] # "breakCount"
    <3>1. CASE SendDone(t)
      <4>1. cur[t] \in Sessions /\ sendCount[cur[t]] > 0
        BY <3>1 DEF SendDone, Echoing, Control, IInv, CurOK, SlotPcs, RefPcs, Sends, SendOK,
           FlagOK, At
      <4> QED
        BY <1>0, <3>1, <4>1 DEF SendDone, Goto, Shape
    <3>2. CASE SendPost(t)
      <4>1. pc'[t] \in SendPcs \cup {AfterSend(t), "breakSock"}
        BY <1>0, <3>2, SendPostFrame
      <4> QED
        BY <4>1 DEF AfterSend, SendPcs
    <3>3. CASE RecvStep(t) \/ (HandleStep(t) /\ ~SendDone(t))
      BY <1>0, <3>3 DEF RecvStep, RecvPost, WSARecvPosted, WSARecvFails, RecvFail, HandleStep,
         OnAccept, FlagClear, ProcessMessage, ProcessEnd, Unref, Goto, Shape
    <3> QED
      BY <1>4, <3>1, <3>2, <3>3 DEF HolderStep
  <2>3. pc'[t] \notin BreakPcs \/ pc'[t] = "breakSock"
    BY <2>1, <2>2 DEF RefPcs, SendPcs, BreakPcs
  <2> QED
    BY <1>3, <2>1, <2>3
<1>5. ASSUME NEW t \in Threads, ReleaseDrain(t) PROVE BreaksOK'
  BY <1>0, <1>3, <1>5, DrainGoesOn DEF BreakPcs, Shape
<1>6. ASSUME NEW t \in Threads, IODecrement(t) \/ ReleaseClose(t) \/ ReleasePush(t) \/ DequeueNull(t)
      PROVE  BreaksOK'
  BY <1>0, <1>3, <1>6 DEF IODecrement, ReleaseClose, ReleasePush, DequeueNull, Goto, GoHome,
     Shape,
     BreakPcs
<1>7. ASSUME NEW t \in Threads, NEW s \in Sessions, DequeueRecv(t, s) \/ DequeueSend(t, s)
      PROVE  BreaksOK'
  BY <1>0, <1>3, <1>7 DEF DequeueRecv, DequeueSend, Goto, Shape, BreakPcs
<1>8. CASE AcceptFails \/ InitSession \/ AcceptEnd
  BY <1>0, <1>3, <1>8 DEF AcceptFails, InitSession, AcceptEnd, Goto, Shape, BreakPcs
<1>9. ASSUME NEW c \in Conns, Accept(c) PROVE BreaksOK'
  <2>1. CASE freeStack = <<>>
    BY <1>0, <1>9, <2>1 DEF Accept, Goto, Shape, BreaksOK
  <2>2. CASE freeStack # <<>>
    <3>1. pc' = [pc EXCEPT ![Acceptor] = "init"]
      BY <1>9, <2>2, Popped DEF Echoing, Control
    <3> QED
      BY <1>0, <1>3, <3>1 DEF Shape, BreakPcs
  <2> QED
    BY <2>1, <2>2
<1>10. CASE OutsideStep
  <2>1. UNCHANGED pc
    BY <1>0, <1>10, OutsideFrame
  <2> QED
    BY <1>2, <2>1 DEF BreaksOK, Running
<1> QED
  BY <1>1, <1>4, <1>5, <1>6, <1>7, <1>8, <1>9, <1>10, NextSplit DEF Release

LEMMA BreaksInvariance == Spec => [](Echoing /\ RefsOK /\ BreaksOK)
<1>1. Init => BreaksOK
  BY DEF Init, BreaksOK, Running, BreakPcs
<1>2. BreaksOK /\ (Echoing /\ RefsOK) /\ [Next]_vars => BreaksOK'
  BY BreaksStep
<1> QED
  BY <1>1, <1>2, RefsInvariance, PTL DEF Spec

\* For every number of workers, sessions and clients: as long as no client comes
\* while every slot is taken, no thread reaches a DebugBreak of CLanServer.cpp
\* but for those Stop and Disconnect lead to.
THEOREM NoBreak ==
  ASSUME ~Overload
  PROVE  Spec => []NoDebugBreak
<1>1. Echoing /\ RefsOK /\ BreaksOK => NoDebugBreak
  BY DEF BreaksOK, NoDebugBreak
<1> QED
  BY <1>1, BreaksInvariance, PTL
(***************************************************************************)
(* A session that is used, while the server runs                           *)
(***************************************************************************)
\* somebody receives for the session, is about to, or brings what arrived
Staying(s) ==
  \/ \E t \in Threads :
       cur[t] = s /\ (pc[t] = "init" \/ (Receiving(t) /\ pc[t] # "recvFail"))
  \/ recvIO[s] = "pending"
  \/ recvIO[s] = "done" /\ recvLen[s] > 0
StayOK(s) ==
  invalidFlag[s] = 1 =>
    /\ conn[toBeDeleted[s]] = "open" => Staying(s)
    /\ At(s, {"init"}) = {} => sock[s] = toBeDeleted[s]
\* nobody calls for a disconnection, and Stop has not begun
Undisturbed == listening /\ "Disconnect" \notin MainCalls
StaysOK == Undisturbed => mainPc = "idle" /\ \A s \in Sessions : StayOK(s)

LEMMA StayHolder ==
  ASSUME Control, Next, NEW s \in Sessions, StayOK(s),
         NEW t \in Threads, HolderStep(t), cur[t] = s
  PROVE  StayOK(s)'
<1>1. /\ Shape /\ DataTypes /\ toBeDeleted[s] \in Conns
      /\ pc[t] \in RefPcs /\ pc'[t] \in RefPcs /\ \A u \in Threads : u # t => pc'[u] = pc[u]
      /\ UNCHANGED <<cur, op, toBeDeleted, conn>>
  BY HolderFacts
<1>2. UNCHANGED invalidFlag
  BY QuietFrame DEF QuietStep
<1>3. UNCHANGED sock
  BY DEF HolderStep, SendPost, RecvStep, HandleStep, OnAccept, SendDone, FlagClear,
     ProcessMessage, ProcessEnd, Unref, RecvPost, WSARecvPosted, WSARecvFails, RecvFail,
     SendSize1, SendSize2, SendSize3, SendSize4, SizeTest, SendXchg1, SendXchg2, FlagXchg,
     SendClear1, SendClear2, SendFailClear, FlagReset, SendGather, SendPrepare, WSASendPosted,
     WSASendFails, SendFailDec, sockVars
<1>4. UNCHANGED recvLen
  BY DEF HolderStep, SendPost, RecvStep, HandleStep, OnAccept, SendDone, FlagClear,
     ProcessMessage, ProcessEnd, Unref, RecvPost, WSARecvPosted, WSARecvFails, RecvFail,
     SendSize1, SendSize2, SendSize3, SendSize4, SizeTest, SendXchg1, SendXchg2, FlagXchg,
     SendClear1, SendClear2, SendFailClear, FlagReset, SendGather, SendPrepare, WSASendPosted,
     WSASendFails, SendFailDec, ioVars
<1>5. At(s, {"init"})' = At(s, {"init"})
  BY <1>1 DEF At, RefPcs, SendPcs
<1> SUFFICES ASSUME invalidFlag[s] = 1, conn[toBeDeleted[s]] = "open",
                    At(s, {"init"}) = {} => sock[s] = toBeDeleted[s], Staying(s)
             PROVE  Staying(s)'
  BY <1>1, <1>2, <1>3, <1>5 DEF StayOK
<1>6. sock[s] # None
  <2>1. ASSUME NEW u \in Threads, cur[u] = s, pc[u] = "init" PROVE FALSE
    <3>1. Idle(s)
      BY <2>1, Alone DEF Control
    <3> QED
      BY <1>1, <3>1 DEF Idle, At
  <2>2. At(s, {"init"}) = {}
    BY <2>1 DEF At
  <2> QED
    BY <1>1, <2>2, ConstantsAssumption
<1>7. ASSUME NEW u \in Threads, u # t, cur[u] = s, pc[u] = "init" \/ (Receiving(u) /\ pc[u] # "recvFail")
      PROVE  Staying(s)'
  BY <1>1, <1>7 DEF Staying, Receiving
<1>8. CASE recvIO[s] # "none" /\ recvIO[s] # "posting"
  <2>1. \A u \in Threads : cur[u] = s => ~Receiving(u)
    BY <1>8 DEF Control, IInv, RecvExclusive
  <2>2. UNCHANGED recvIO
    <3>1. ~RecvStep(t)
      BY <2>1 DEF RecvStep, RecvPost, WSARecvPosted, WSARecvFails, RecvFail, Receiving, RecvPcs
    <3>2. CASE SendPost(t)
      BY <1>1, <3>2, SendPostFrame
    <3>3. CASE HandleStep(t)
      BY <3>3 DEF HandleStep, OnAccept, SendDone, FlagClear, ProcessMessage, ProcessEnd, Unref,
         ioVars
    <3> QED
      BY <3>1, <3>2, <3>3 DEF HolderStep
  <2>3. CASE \E u \in Threads : cur[u] = s /\ pc[u] = "init"
    <3>1. PICK u \in Threads : cur[u] = s /\ pc[u] = "init"
      BY <2>3
    <3> QED
      BY <1>1, <1>7, <3>1 DEF RefPcs, SendPcs
  <2> QED
    BY <1>4, <2>1, <2>2, <2>3 DEF Staying
<1>9. ASSUME Receiving(t), pc[t] # "recvFail" PROVE Staying(s)'
  <2>1. CASE WSARecvPosted(t)
    BY <1>1, <2>1 DEF WSARecvPosted, Staying, Shape
  <2>2. ASSUME Receiving(t)', pc'[t] # "recvFail" PROVE Staying(s)'
    BY <1>1, <2>2 DEF Staying
  <2>3. CASE SendPost(t)
    <3>1. pc[t] \in SendPcs /\ pc'[t] \in SendPcs \cup {AfterSend(t), "breakSock"}
      BY <1>1, <2>3, SendPostFrame
    <3>2. pc'[t] # "breakSock"
      BY <1>1, <1>6, <2>3 DEF SendPost, SendSize1, SendSize2, SendSize3, SendSize4, SizeTest,
         SendXchg1,
         SendXchg2, FlagXchg, SendClear1, SendClear2, SendFailClear, FlagReset, SendGather,
            SendPrepare,
         WSASendPosted, WSASendFails, SendFailDec, Goto, Shape, AfterSend
    <3>3. op[t] # "send"
      BY <1>9, <3>1 DEF Receiving, RecvPcs, SendPcs
    <3> QED
      BY <1>1, <2>2, <3>1, <3>2, <3>3 DEF AfterSend, Receiving, RecvPcs, SendPcs
  <2>4. CASE RecvPost(t) \/ WSARecvFails(t)
    BY <1>1, <1>6, <2>2, <2>4 DEF RecvPost, WSARecvFails, Goto, Shape, Receiving, RecvPcs
  <2>5. CASE RecvFail(t) \/ SendDone(t) \/ FlagClear(t)
    <3>1. pc[t] \in {"recvFail", "sendDone", "flagClear"}
      BY <2>5 DEF RecvFail, SendDone, FlagClear
    <3> QED
      BY <1>9, <3>1 DEF Receiving, RecvPcs, SendPcs
  <2>6. CASE (t = Acceptor /\ OnAccept) \/ ProcessMessage(t) \/ ProcessEnd(t) \/ Unref(t)
    <3>1. pc[t] \in RecvPcs /\ pc'[t] \in {"size1", "recvPost", "loop"}
      BY <1>1, <2>6 DEF OnAccept, ProcessMessage, ProcessEnd, Unref, Goto, Shape, RecvPcs
    <3>2. op[t] # "send"
      BY <3>1 DEF Control, WorkOK
    <3> QED
      BY <1>1, <2>2, <3>1, <3>2 DEF Receiving, RecvPcs, SendPcs
  <2> QED
    BY <2>1, <2>3, <2>4, <2>5, <2>6 DEF HolderStep, RecvStep, HandleStep
<1> QED
  BY <1>1, <1>7, <1>8, <1>9 DEF Staying, RefPcs, SendPcs

LEMMA StayOther ==
  ASSUME Control, Next, Undisturbed, mainPc = "idle", NEW s \in Sessions, StayOK(s),
         OtherTouches(s)
  PROVE  StayOK(s)'
<1>0. Shape /\ DataTypes
  BY DataShape DEF Control
<1>1. UNCHANGED <<pc, cur, op, toBeDeleted, sock, invalidFlag>>
  BY DEF OtherTouches, KernelCompletes, RecvArrives, RecvEnds, SendCompletes,
     SendAborts, ClientClose, ClientReset, MainInvalidate, MainCancel, threadVars, sockVars
<1>2. At(s, {"init"})' = At(s, {"init"})
  BY <1>1 DEF At
<1> SUFFICES ASSUME invalidFlag[s] = 1, conn'[toBeDeleted[s]] = "open",
                    conn[toBeDeleted[s]] = "open" => Staying(s)
             PROVE  Staying(s)'
  BY <1>1, <1>2 DEF StayOK
<1>3. toBeDeleted[s] \in Conns
  BY DEF Control, OwnerOK
<1>4. conn[toBeDeleted[s]] = "open"
  BY <1>0, <1>3 DEF OtherTouches, KernelCompletes, RecvArrives, RecvEnds, SendCompletes,
     SendAborts, ClientClose, ClientReset, MainInvalidate, MainCancel, netVars, DataTypes,
        NetTypes
<1>5. CASE \E t \in Threads :
              cur[t] = s /\ (pc[t] = "init" \/ (Receiving(t) /\ pc[t] # "recvFail"))
  BY <1>1, <1>5 DEF Staying, Receiving
<1>6. CASE UNCHANGED <<recvIO, recvLen>>
  BY <1>1, <1>4, <1>5, <1>6 DEF Staying
<1>7. ASSUME NEW k \in 1 .. MaxMsg, RecvArrives(s, k) PROVE Staying(s)'
  BY <1>0, <1>7 DEF RecvArrives, Staying, DataTypes, IOTypes
<1> QED
  BY <1>4, <1>6, <1>7 DEF OtherTouches, KernelCompletes, RecvEnds, SendCompletes,
     SendAborts, ClientClose, ClientReset, MainInvalidate, MainCancel, ioVars

LEMMA StayStep ==
  ASSUME Control, StaysOK, [Next]_vars
  PROVE  StaysOK'
<1>0. Shape /\ DataTypes
  BY DataShape DEF Control
<1> SUFFICES ASSUME Undisturbed' PROVE mainPc' = "idle" /\ \A s \in Sessions : StayOK(s)'
  BY DEF StaysOK
<1>1. CASE UNCHANGED vars
  <2>1. UNCHANGED <<pc, cur, op, conn, invalidFlag, toBeDeleted, sock, recvIO, recvLen, listening, mainPc>>
    BY <1>1 DEF vars, threadVars, serverVars, netVars, sockVars, ioVars, mainVars
  <2>2. \A t \in Threads : Receiving(t)' <=> Receiving(t)
    BY <2>1 DEF Receiving
  <2>3. \A s \in Sessions : (Staying(s)' <=> Staying(s)) /\ At(s, {"init"})' = At(s, {"init"})
    BY <2>1, <2>2 DEF Staying, At
  <2> QED
    BY <2>1, <2>3 DEF StaysOK, StayOK, Undisturbed
<1> SUFFICES ASSUME Next PROVE mainPc' = "idle" /\ \A s \in Sessions : StayOK(s)'
  BY <1>1
<1>2. Undisturbed
  <2>1. ASSUME NEW t \in Threads, HolderStep(t) PROVE UNCHANGED listening
    BY <2>1 DEF HolderStep, SendPost, RecvStep, HandleStep, OnAccept, SendDone, FlagClear,
       ProcessMessage, ProcessEnd, Unref, RecvPost, WSARecvPosted, WSARecvFails, RecvFail,
       SendSize1, SendSize2, SendSize3, SendSize4, SizeTest, SendXchg1, SendXchg2, FlagXchg,
       SendClear1, SendClear2, SendFailClear, FlagReset, SendGather, SendPrepare, WSASendPosted,
       WSASendFails, SendFailDec, serverVars
  <2>2. CASE \/ \E t \in Threads : IODecrement(t) \/ Release(t)
             \/ \E t \in Threads, s \in Sessions : DequeueRecv(t, s) \/ DequeueSend(t, s)
             \/ \E t \in Threads : DequeueNull(t)
             \/ \E c \in Conns : Accept(c)
             \/ AcceptFails \/ InitSession \/ AcceptEnd
             \/ UNCHANGED vars
    BY <2>2 DEF IODecrement, Release, ReleaseDrain, ReleaseClose, ReleasePush, DequeueRecv,
       DequeueSend, DequeueNull, Accept, AcceptFails, InitSession, AcceptEnd, vars, serverVars,
       Undisturbed
  <2>3. CASE OutsideStep
    BY <2>3 DEF OutsideStep, ClientStep, ClientClose, ClientReset, KernelStep, KernelCompletes,
       RecvArrives, RecvEnds, SendCompletes, SendAborts, CallStop, CallDisconnect, MainStep,
       MainCheck, MainInvalidate, MainCancel, StopPost, StopJoined, serverVars, Undisturbed
  <2> QED
    BY <2>1, <2>2, <2>3, NextSplit DEF Undisturbed
<1>3. mainPc = "idle" /\ \A s \in Sessions : StayOK(s)
  BY <1>2 DEF StaysOK
<1>4. mainPc' = "idle"
  <2>1. ASSUME NEW t \in Threads, HolderStep(t) PROVE UNCHANGED mainPc
    BY <2>1 DEF HolderStep, SendPost, RecvStep, HandleStep, OnAccept, SendDone, FlagClear,
       ProcessMessage, ProcessEnd, Unref, RecvPost, WSARecvPosted, WSARecvFails, RecvFail,
       SendSize1, SendSize2, SendSize3, SendSize4, SizeTest, SendXchg1, SendXchg2, FlagXchg,
       SendClear1, SendClear2, SendFailClear, FlagReset, SendGather, SendPrepare, WSASendPosted,
       WSASendFails, SendFailDec, mainVars
  <2>2. CASE \/ \E t \in Threads : IODecrement(t) \/ Release(t)
             \/ \E t \in Threads, s \in Sessions : DequeueRecv(t, s) \/ DequeueSend(t, s)
             \/ \E t \in Threads : DequeueNull(t)
             \/ \E c \in Conns : Accept(c)
             \/ AcceptFails \/ InitSession \/ AcceptEnd
             \/ UNCHANGED vars
    BY <1>3, <2>2 DEF IODecrement, Release, ReleaseDrain, ReleaseClose, ReleasePush, DequeueRecv,
       DequeueSend, DequeueNull, Accept, AcceptFails, InitSession, AcceptEnd, vars, mainVars
  <2>3. CASE OutsideStep
    BY <1>2, <1>3, <2>3 DEF OutsideStep, ClientStep, ClientClose, ClientReset, KernelStep,
       KernelCompletes,
       RecvArrives, RecvEnds, SendCompletes, SendAborts, CallStop, CallDisconnect, MainStep,
       MainCheck, MainInvalidate, MainCancel, StopPost, StopJoined, mainVars, Undisturbed
  <2> QED
    BY <1>3, <2>1, <2>2, <2>3, NextSplit
<1> SUFFICES ASSUME NEW s \in Sessions PROVE StayOK(s)'
  BY <1>4
<1>5. StayOK(s)
  BY <1>3
<1>6. CASE ~ThreadTouches(s) /\ ~OtherTouches(s)
  <2>1. Same(s)
    BY <1>6, Untouched DEF Control
  <2>2. At(s, {"init"})' = At(s, {"init"})
    BY <2>1 DEF At, Same
  <2>3. \A t \in Threads : cur[t] = s => (Receiving(t)' <=> Receiving(t))
    BY <2>1 DEF Same, Receiving
  <2>4. Staying(s)' <=> Staying(s)
    BY <2>1, <2>3 DEF Staying, Same
  <2>5. invalidFlag[s] = 1 => toBeDeleted[s] \in Conns
    BY DEF Control, OwnerOK
  <2> QED
    BY <1>5, <2>1, <2>2, <2>4, <2>5 DEF StayOK, Same
<1>7. CASE OtherTouches(s)
  BY <1>2, <1>3, <1>7, StayOther
<1>8. ASSUME NEW t \in Threads, cur[t] = s, HolderStep(t) PROVE StayOK(s)'
  BY <1>5, <1>8, StayHolder
<1>9. ASSUME NEW t \in Threads, cur[t] = s, IODecrement(t) \/ Release(t) PROVE StayOK(s)'
  <2>1. CASE ReleaseClose(t)
    <3>1. invalidFlag'[s] = 0
      BY <1>0, <1>9, <2>1 DEF ReleaseClose, DataTypes, SlotTypes
    <3> QED
      BY <3>1 DEF StayOK
  <2>2. CASE IODecrement(t) \/ ReleaseDrain(t) \/ ReleasePush(t)
    <3>1. /\ UNCHANGED <<conn, invalidFlag, toBeDeleted, sock, recvIO, recvLen>>
          /\ \A u \in Threads : u # t => pc'[u] = pc[u] /\ cur'[u] = cur[u] /\ op'[u] = op[u]
          /\ pc[t] \notin {"init"} \cup RecvPcs \cup SendPcs /\ pc'[t] # "init"
      BY <1>0, <2>2 DEF IODecrement, ReleaseDrain, ReleasePush, Goto, GoHome, sockVars, netVars,
         ioVars, Shape, RecvPcs, SendPcs
    <3>2. \A u \in Threads : u # t => (Receiving(u)' <=> Receiving(u))
      BY <3>1 DEF Receiving
    <3>3. At(s, {"init"})' = At(s, {"init"})
      BY <3>1 DEF At
    <3>4. Staying(s) => Staying(s)'
      BY <3>1, <3>2 DEF Staying, Receiving
    <3> QED
      BY <1>5, <3>1, <3>3, <3>4 DEF StayOK
  <2> QED
    BY <1>9, <2>1, <2>2 DEF Release
<1>10. ASSUME NEW t \in Threads, DequeueRecv(t, s) \/ DequeueSend(t, s) PROVE StayOK(s)'
  <2>1. /\ pc[t] = "gqcs" /\ cur[t] = None /\ cur' = [cur EXCEPT ![t] = s]
        /\ UNCHANGED <<conn, invalidFlag, toBeDeleted, sock>>
        /\ \A u \in Threads : u # t => pc'[u] = pc[u] /\ op'[u] = op[u] /\ cur'[u] = cur[u]
        /\ pc'[t] # "init"
    BY <1>0, <1>10 DEF DequeueRecv, DequeueSend, sockVars, netVars, Goto, Shape, Control, WorkOK
  <2>2. At(s, {"init"})' = At(s, {"init"})
    BY <1>0, <2>1 DEF At, Shape
  <2>3. \A u \in Threads : u # t => (Receiving(u)' <=> Receiving(u))
    BY <2>1 DEF Receiving
  <2>4. Staying(s) => Staying(s)'
    <3>1. CASE DequeueRecv(t, s)
      <4>1. recvIO[s] = "done" /\ (recvLen[s] > 0 => pc'[t] = "loop")
        BY <1>0, <3>1 DEF DequeueRecv, Goto, Shape, DataTypes, IOTypes
      <4>2. pc'[t] = "loop" => Receiving(t)' /\ pc'[t] # "recvFail" /\ cur'[t] = s
        BY <1>0, <2>1 DEF Receiving, RecvPcs, Shape
      <4>3. Staying(s) => \/ recvLen[s] > 0
                          \/ \E u \in Threads : u # t /\ cur[u] = s /\
                               (pc[u] = "init" \/ (Receiving(u) /\ pc[u] # "recvFail"))
        BY <1>0, <2>1, <4>1 DEF Staying, Shape
      <4> QED
        BY <2>1, <2>3, <4>1, <4>2, <4>3 DEF Staying
    <3>2. CASE DequeueSend(t, s)
      <4>1. UNCHANGED <<recvIO, recvLen>>
        BY <3>2 DEF DequeueSend
      <4> QED
        BY <1>0, <2>1, <2>3, <4>1 DEF Staying, Shape
    <3> QED
      BY <1>10, <3>1, <3>2
  <2> QED
    BY <1>5, <2>1, <2>2, <2>4 DEF StayOK
<1>11. ASSUME NEW c \in Conns, Accept(c), freeStack # <<>>, s = freeStack[Len(freeStack)]
       PROVE  StayOK(s)'
  <2>1. cur' = [cur EXCEPT ![Acceptor] = s] /\ pc' = [pc EXCEPT ![Acceptor] = "init"]
    BY <1>11, Popped DEF Control
  <2>2. Acceptor \in At(s, {"init"})' /\ Staying(s)'
    BY <1>0, <2>1 DEF At, Staying, Shape
  <2> QED
    BY <2>2 DEF StayOK
<1>12. CASE InitSession /\ s = cur[Acceptor]
  <2>1. /\ pc[Acceptor] = "init" /\ pc' = [pc EXCEPT ![Acceptor] = "onAccept"] /\ UNCHANGED cur
        /\ sock'[s] = toBeDeleted[s] /\ UNCHANGED toBeDeleted
    BY <1>0, <1>12 DEF InitSession, Goto, DataTypes, SlotTypes
  <2>2. Staying(s)'
    BY <1>0, <1>12, <2>1 DEF Staying, Receiving, RecvPcs, Shape
  <2> QED
    BY <2>1, <2>2 DEF StayOK
<1> QED
  BY <1>6, <1>7, <1>8, <1>9, <1>10, <1>11, <1>12 DEF ThreadTouches
(***************************************************************************)
(* The promise to the clients                                              *)
(***************************************************************************)
St == [c \in Conns |-> CASE conn[c] = "new"    -> "new"
                         [] conn[c] = "closed" -> "gone"
                         [] OTHER              -> "served"]
Ending == [c \in Conns |-> conn[c] \in {"fin", "reset", "closed"} \/ ~listening]
ServiceVars == <<St, Ending, arrived, echoed>>

\* what EchoService sees of a connection
LEMMA ServiceOf ==
  /\ Service!Served = {c \in Conns : St[c] = "served"}
  /\ \A c \in Conns : conn[c] \notin {"new", "closed"} => St[c] = "served"
  /\ \A c \in Conns : conn[c] = "new" => St[c] = "new"
  /\ \A c \in Conns : conn[c] = "closed" => St[c] = "gone"
BY DEF Service!Served, St

Serving == Echoing /\ RefsOK /\ StaysOK

LEMMA ServingInvariance == Spec => []Serving
<1>1. Init => StaysOK
  BY DEF Init, StaysOK, StayOK
<1>2. StaysOK /\ (Echoing /\ RefsOK) /\ [Next]_vars => StaysOK'
  BY StayStep DEF Echoing
<1>3. Echoing /\ RefsOK /\ StaysOK => Serving
  BY DEF Serving
<1> QED
  BY <1>1, <1>2, <1>3, RefsInvariance, PTL DEF Spec

\* a client is served: its slot was free, so fewer than SessionMax are
LEMMA ServeAccept ==
  ASSUME Serving, ~Overload, Next, NEW c \in Conns, Accept(c)
  PROVE  Service!Accept(c)
<1>0. Shape /\ DataTypes
  BY DataShape DEF Serving, Echoing, Control
<1>1. /\ conn' = [conn EXCEPT ![c] = "open"] /\ conn[c] = "new" /\ freeStack # <<>>
      /\ UNCHANGED <<arrived, echoed, listening>> /\ pc[Acceptor] = "accept"
  BY DEF Accept, serverVars
<1> DEFINE r == freeStack[Len(freeStack)]
           S == Service!Served
           T == Sessions \ {r}
<1>2. r \in Sessions /\ invalidFlag[r] # 1
  BY <1>1, Popped DEF Serving, Echoing, Control
<1>3. \A d \in S : d \in Conns /\ \E s \in T : toBeDeleted[s] = d
  <2> SUFFICES ASSUME NEW d \in S PROVE d \in Conns /\ \E s \in T : toBeDeleted[s] = d
    OBVIOUS
  <2>1. d \in Conns /\ conn[d] \notin {"new", "closed"}
    BY ServiceOf
  <2>2. PICK s \in Sessions : toBeDeleted[s] = d /\ invalidFlag[s] = 1
    BY <1>1, <2>1 DEF Serving, Echoing, Control, OwnerOK
  <2> QED
    BY <1>2, <2>1, <2>2
<1>4. IsFiniteSet(T) /\ Cardinality(T) = SessionMax - 1
  <2>1. SessionMax \in Nat \ {0}
    BY ConstantsAssumption
  <2>2. IsFiniteSet(Sessions) /\ Cardinality(Sessions) = SessionMax
    BY <2>1, FS_Interval DEF Sessions
  <2> QED
    BY <1>2, <2>2, FS_RemoveElement
<1>5. IsFiniteSet(S) /\ Cardinality(S) <= Cardinality(T) /\ Cardinality(S) \in Nat
  <2> DEFINE f == [d \in S |-> CHOOSE s \in T : toBeDeleted[s] = d]
  <2>1. \A d \in S : f[d] \in T /\ toBeDeleted[f[d]] = d
    BY <1>3
  <2> HIDE DEF f
  <2>2. f \in [S -> T]
    <3>1. f = [d \in S |-> f[d]]
      BY DEF f
    <3> QED
      BY <2>1, <3>1
  <2>3. \A d, e \in S : f[d] = f[e] => d = e
    BY <2>1
  <2> HIDE DEF S, T
  <2>4. f \in Injection(S, T)
    BY <2>2, <2>3 DEF Injection, IsInjective
  <2> QED
    BY <1>4, <2>4, FS_Injection, FS_CardinalityType
<1>6. Service!Cardinality(S) < SessionMax
  <2>1. Service!Cardinality(S) = Cardinality(S)
    BY Zenon DEF Service!Cardinality, Cardinality
  <2> HIDE DEF S, T
  <2> QED
    BY <1>4, <1>5, <2>1, ConstantsAssumption
<1>7. St' = [St EXCEPT ![c] = "served"] /\ St[c] = "new"
  BY <1>0, <1>1 DEF St, DataTypes, NetTypes
<1>8. Ending' = Ending
  BY <1>0, <1>1 DEF Ending, DataTypes, NetTypes
<1> QED
  BY <1>1, <1>6, <1>7, <1>8, Zenon DEF Service!Accept, St, Ending

\* a session ends, and its client has left or the server is stopped
LEMMA ServeEnd ==
  ASSUME Serving, "Disconnect" \notin MainCalls, NEW t \in Threads, ReleaseClose(t),
         NEW c \in Conns, toBeDeleted[cur[t]] = c
  PROVE  Service!End(c)
<1> DEFINE s == cur[t]
<1>0. Shape /\ DataTypes
  BY DataShape DEF Serving, Echoing, Control
<1>1. /\ pc[t] = "close" /\ UNCHANGED <<arrived, echoed, listening>>
      /\ conn' = [conn EXCEPT ![c] = "closed"]
  BY DEF ReleaseClose
<1>2. /\ s \in Sessions /\ Idle(s)
      /\ \A u \in Threads : u # t /\ cur[u] = s => pc[u] \notin SlotPcs
  BY <1>1, Alone DEF Serving, Echoing, Control, ReleasePcs
<1>3. invalidFlag[s] = 1
  <2>1. At(s, {"init", "close", "breakRef"}) # {}
    BY <1>1 DEF At
  <2> QED
    BY <1>2, <2>1 DEF Serving, Echoing, Control, MarkOK
<1>4. conn[c] # "new" /\ conn[c] # "closed"
  BY <1>2, <1>3 DEF Serving, Echoing, Control, OwnerOK
<1>5. ~Staying(s)
  BY <1>1, <1>2 DEF Staying, Idle, At, Receiving, RecvPcs, SlotPcs, RefPcs, SendPcs
<1>6. conn[c] \in {"fin", "reset"} \/ ~listening
  <2>1. ~Undisturbed \/ conn[c] # "open"
    BY <1>2, <1>3, <1>5 DEF Serving, StaysOK, StayOK
  <2> QED
    BY <1>0, <1>4, <2>1 DEF Undisturbed, DataTypes, NetTypes
<1>7. c \in Service!Served
  BY <1>4, ServiceOf
<1>8. St' = [St EXCEPT ![c] = "gone"]
  BY <1>0, <1>1 DEF St, DataTypes, NetTypes
<1>9. Ending' = Ending
  BY <1>0, <1>1, <1>6 DEF Ending, DataTypes, NetTypes
<1>10. Ending[c]
  BY <1>6 DEF Ending
<1> QED
  BY <1>1, <1>7, <1>8, <1>9, <1>10, Zenon DEF Service!End, St, Ending

\* what was sent reaches the client: the next packets, none before its message
LEMMA ServeEcho ==
  ASSUME Serving, Next, NEW s \in Sessions, SendCompletes(s)
  PROVE  \E c \in Conns : Service!Echo(c, Len(echoed'[c]) - Len(echoed[c]))
<1> DEFINE c == toBeDeleted[s]
           e == echoed[c]
           k == sendCount[s]
           out == Prefix(sendArr[s], k)
           run == [i \in 1 .. k |-> (0 + Len(e)) + i - 1]
<1>0. Shape /\ DataTypes /\ batch \in [Threads -> Nat]
  BY DataShape DEF Serving, Echoing, Control
<1>1. InUse(s) /\ At(s, {"breakSock"}) = {}
  BY DEF InUse, Idle, SendCompletes, Next, Running, BreakPcs, At
<1>2. PICK n \in Nat : Counts(s, n) /\ Run(s, n)
  BY <1>1 DEF Serving, Echoing, AllNumbered, Numbered
<1>3. /\ Run(s, n)'
      /\ c \in Conns /\ ~sendFailed[c] /\ out \in Seq(Int) /\ RunFrom(out, Len(e))
      /\ echoed' = [echoed EXCEPT ![c] = e \o out]
  BY <1>2, CompleteNumbers DEF Serving, Echoing, CountsOK
<1>4. /\ sendIO[s] = "pending" /\ conn[c] \in {"open", "fin"}
      /\ UNCHANGED <<conn, arrived, listening>>
  BY DEF SendCompletes, serverVars
<1>5. k > 0 /\ k \in Nat /\ sendArr[s] \in Seq(Int) /\ k <= Len(sendArr[s])
  <2>1. k > 0 /\ k \in Nat /\ sendArr[s] \in Seq(Int)
    BY <1>0, <1>4 DEF Serving, Echoing, Control, Sends, SendOK, FlagOK, DataTypes, SendTypes
  <2>2. k <= Len(sendArr[s])
    BY <1>4 DEF Serving, Echoing, Control, IInv, SendSizeOK
  <2> QED
    BY <2>1, <2>2
<1>6. e \in Seq(Int) /\ Len(e) \in Nat
  BY <1>0, <1>3 DEF DataTypes, NetTypes
<1>7. Len(out) = k
  BY <1>5, PrefixFacts
<1>8. out = run
  <2>1. out = [i \in 1 .. Len(out) |-> out[i]]
    <3> HIDE DEF out
    <3> QED
      BY <1>3
  <2>2. \A i \in 1 .. k : out[i] = (0 + Len(e)) + i - 1
    BY <1>3, <1>6, <1>7 DEF RunFrom
  <2> HIDE DEF out, e, k
  <2> QED
    BY <1>7, <2>1, <2>2
<1>9. echoed'[c] = e \o out /\ Len(e \o out) = Len(e) + k
  <2>1. echoed'[c] = e \o out
    BY <1>0, <1>3 DEF DataTypes, NetTypes
  <2>2. \A q, r \in Seq(Int) : Len(q \o r) = Len(q) + Len(r)
    OBVIOUS
  <2> HIDE DEF out, e, c, k
  <2> QED
    BY <1>3, <1>6, <1>7, <2>1, <2>2
<1>10. Len(echoed'[c]) - Len(echoed[c]) = k
  <2>1. Len(echoed'[c]) = Len(e) + k /\ echoed[c] = e
    BY <1>9
  <2> HIDE DEF e, c, k, out
  <2> QED
    BY <1>5, <1>6, <2>1
\* n is at most the number of messages and the login packet
<1>11. n <= arrived[c] + 1
  <2>1. arrived[c] \in Int
    BY <1>0, <1>3, ConstantsAssumption DEF DataTypes, NetTypes
  <2>2. CASE \A t \in Threads : cur[t] = s => ~Receiving(t)
    <3>1. n + recvLen[s] = arrived[c] + 1 /\ recvLen[s] \in Nat
      BY <1>0, <1>2, <2>2 DEF Counts, DataTypes, IOTypes
    <3> QED
      BY <2>1, <3>1
  <2>3. ASSUME NEW t \in Threads, cur[t] = s, Receiving(t) PROVE n <= arrived[c] + 1
    <3>1. n + Behind(t) = arrived[c] + IF pc[t] = "onAccept" THEN 0 ELSE 1
      BY <1>2, <2>3 DEF Counts
    <3>2. Behind(t) \in Nat
      BY <1>0 DEF Behind
    <3> QED
      BY <2>1, <3>1, <3>2
  <2> QED
    BY <2>2, <2>3
<1>12. Len(e) + k <= n
  <2>1. At(s, {"post"}) = {} /\ At(s, {"sendDone"}) = {}
    BY <1>4 DEF At, Serving, Echoing, Control, IInv, SendExclusive, FlagPcs
  <2>2. sendLen[s] = 0
    BY <1>4 DEF Serving, Echoing, Control, WorkOK
  <2>3. InFlight(s) = k
    BY <2>1, <2>2 DEF InFlight
  <2>4. Len(e) + k = n - Len(sendBuf[s])
    BY <1>2, <1>3, <2>3 DEF Run
  <2>5. Len(sendBuf[s]) \in Nat
    BY <1>0 DEF DataTypes, SendTypes
  <2>6. n \in Int
    BY <1>2
  <2> DEFINE m == Len(sendBuf[s])
  <2>7. Len(e) + k = n - m /\ m \in Nat
    BY <2>4, <2>5
  <2> HIDE DEF e, k, m
  <2> QED
    BY <1>5, <1>6, <2>6, <2>7
<1>13. (0 + Len(e)) + k - 1 <= arrived[c]
  <2>1. arrived[c] \in Int
    BY <1>0, <1>3, ConstantsAssumption DEF DataTypes, NetTypes
  <2> HIDE DEF e, k, c
  <2> QED
    BY <1>5, <1>6, <1>11, <1>12, <2>1
<1>14. c \in Service!Served
  BY <1>3, <1>4, ServiceOf
<1>15. echoed' = [echoed EXCEPT ![c] = e \o run]
  BY <1>3, <1>8
<1>16. St' = St /\ Ending' = Ending
  BY <1>4 DEF St, Ending
<1>17. Service!Echo(c, k)
  <2>1. k \in Nat \ {0}
    BY <1>5
  <2> QED
    BY <1>4, <1>13, <1>14, <1>15, <1>16, <2>1 DEF Service!Echo, St, Ending
<1> QED
  BY <1>3, <1>10, <1>17

\* what the clients and the kernel do, and Stop
LEMMA ServeOutside ==
  ASSUME Serving, Next, OutsideStep
  PROVE  Service!Next \/ UNCHANGED ServiceVars
<1>0. Shape /\ DataTypes
  BY DataShape DEF Serving, Echoing, Control
<1>1. ASSUME NEW c \in Conns, ClientClose(c) \/ ClientReset(c) PROVE Service!AskEnd(c)
  <2>1. /\ conn[c] \in {"open", "fin"} /\ UNCHANGED <<arrived, echoed, listening>>
        /\ \E v \in {"fin", "reset"} : conn' = [conn EXCEPT ![c] = v]
    BY <1>1 DEF ClientClose, ClientReset, serverVars
  <2>2. c \in Service!Served
    BY <2>1, ServiceOf
  <2>3. St' = St
    BY <1>0, <2>1 DEF St, DataTypes, NetTypes
  <2>4. Ending' = [Ending EXCEPT ![c] = TRUE]
    BY <1>0, <2>1 DEF Ending, DataTypes, NetTypes
  <2> QED
    BY <2>1, <2>2, <2>3, <2>4, Zenon DEF Service!AskEnd, St, Ending
<1>2. ASSUME NEW s \in Sessions, NEW k \in 1 .. MaxMsg, RecvArrives(s, k)
      PROVE  \E c \in Conns : Service!Arrive(c, arrived'[c] - arrived[c])
  <2> DEFINE c == toBeDeleted[s]
  <2>1. c \in Conns /\ conn[c] = "open" /\ UNCHANGED <<conn, echoed, listening>>
    <3>1. conn[c] = "open" /\ UNCHANGED <<conn, echoed, listening>> /\ recvIO[s] = "pending"
      BY <1>2 DEF RecvArrives, serverVars
    <3> QED
      BY <3>1 DEF Serving, Echoing, Control, IInv, ConnOK
  <2>2. arrived' = [arrived EXCEPT ![c] = arrived[c] + k] /\ arrived[c] \in Nat
    BY <1>0, <1>2, <2>1, ConstantsAssumption DEF RecvArrives, DataTypes, NetTypes
  <2>3. k \in Nat \ {0}
    BY ConstantsAssumption
  <2>4. arrived'[c] - arrived[c] = k
    BY <1>0, <2>1, <2>2, <2>3 DEF DataTypes, NetTypes
  <2>5. c \in Service!Served
    BY <2>1, ServiceOf
  <2>6. St' = St /\ Ending' = Ending
    BY <2>1 DEF St, Ending
  <2>7. Service!Arrive(c, k)
    BY <2>1, <2>2, <2>3, <2>5, <2>6 DEF Service!Arrive, St, Ending
  <2> QED
    BY <2>1, <2>4, <2>7
<1>3. CASE CallStop
  <2>1. listening' = FALSE /\ UNCHANGED <<conn, arrived, echoed>>
    BY <1>3 DEF CallStop, netVars
  <2>2. St' = St
    BY <2>1 DEF St
  <2>3. Ending' = [c \in Conns |-> TRUE]
    BY <2>1 DEF Ending
  <2> QED
    BY <2>1, <2>2, <2>3, Zenon DEF Service!Next, Service!AskAll, St, Ending
<1>4. ASSUME NEW s \in Sessions, RecvEnds(s) \/ SendAborts(s) \/ CallDisconnect(s)
      PROVE  UNCHANGED ServiceVars
  BY <1>4 DEF RecvEnds, SendAborts, CallDisconnect, ServiceVars, St, Ending, netVars, serverVars
<1>5. CASE MainStep
  BY <1>5 DEF MainStep, MainCheck, MainInvalidate, MainCancel, StopPost, StopJoined,
     ServiceVars, St, Ending, netVars, serverVars
<1> QED
  BY <1>1, <1>2, <1>3, <1>4, <1>5, ServeEcho DEF OutsideStep, ClientStep, KernelStep,
     KernelCompletes, Service!Next

\* everything else is between the threads
LEMMA ServeInside ==
  ASSUME Next, ~OutsideStep, \A c \in Conns : ~Accept(c), \A t \in Threads : ~ReleaseClose(t)
  PROVE  UNCHANGED ServiceVars
<1> SUFFICES UNCHANGED <<conn, arrived, echoed, listening>>
  BY DEF ServiceVars, St, Ending
<1>1. ASSUME NEW t \in Threads, HolderStep(t)
      PROVE  UNCHANGED <<conn, arrived, echoed, listening>>
  <2>1. CASE SendPost(t)
    BY <2>1 DEF SendPost, SendSize1, SendSize2, SendSize3, SendSize4, SizeTest,
       SendXchg1, SendXchg2, FlagXchg, SendClear1, SendClear2, SendFailClear, FlagReset,
       SendGather, SendPrepare, WSASendPosted, WSASendFails, SendFailDec, netVars, serverVars
  <2>2. CASE RecvStep(t)
    BY <2>2 DEF RecvStep, RecvPost, WSARecvPosted, WSARecvFails, RecvFail, netVars, serverVars
  <2>3. CASE HandleStep(t)
    BY <2>3 DEF HandleStep, OnAccept, SendDone, FlagClear, ProcessMessage, ProcessEnd, Unref,
       netVars, serverVars
  <2> QED
    BY <1>1, <2>1, <2>2, <2>3 DEF HolderStep
<1>2. ASSUME NEW t \in Threads, IODecrement(t) \/ Release(t) \/ DequeueNull(t)
      PROVE  UNCHANGED <<conn, arrived, echoed, listening>>
  BY <1>2 DEF IODecrement, Release, ReleaseDrain, ReleasePush, DequeueNull, netVars, serverVars
<1>3. ASSUME NEW t \in Threads, NEW s \in Sessions, DequeueRecv(t, s) \/ DequeueSend(t, s)
      PROVE  UNCHANGED <<conn, arrived, echoed, listening>>
  BY <1>3 DEF DequeueRecv, DequeueSend, netVars, serverVars
<1>4. CASE AcceptFails \/ InitSession \/ AcceptEnd \/ UNCHANGED vars
  BY <1>4 DEF AcceptFails, InitSession, AcceptEnd, vars, netVars, serverVars
<1> QED
  BY <1>1, <1>2, <1>3, <1>4, NextSplit

\* The third server serves its clients as EchoService promises, for every
\* number of them, of slots and of workers: at most SessionMax at a time, each
\* message echoed once, in order and to who sent it, and no session ended
\* before its client left or Stop closed the listening socket.  (Not where a
\* client may arrive while no index is on the stack, which ends the process in a
\* DebugBreak, nor where Disconnect is called, a reason EchoService does not see.)
THEOREM Serves ==
  ASSUME ~Overload, "Disconnect" \notin MainCalls
  PROVE  Spec => ServesEchoes
<1>1. Init => Service!Init
  <2> SUFFICES ASSUME Init PROVE Service!Init
    OBVIOUS
  <2>1. \A c \in Conns : conn[c] = "new"
    BY DEF Init
  <2>2. St = [c \in Conns |-> "new"]
    BY <2>1, Zenon DEF St
  <2>3. Ending = [c \in Conns |-> FALSE]
    <3>1. \A c \in Conns : (conn[c] \in {"fin", "reset", "closed"} \/ ~listening) = FALSE
      BY <2>1 DEF Init
    <3> QED
      BY <3>1, Zenon DEF Ending
  <2> QED
    BY <2>2, <2>3 DEF Init, Service!Init, St, Ending
<1>2. ASSUME Serving, Next PROVE Service!Next \/ UNCHANGED ServiceVars
  <2>1. CASE OutsideStep
    BY <1>2, <2>1, ServeOutside
  <2>2. ASSUME NEW c \in Conns, Accept(c) PROVE Service!Next
    BY <1>2, <2>2, ServeAccept DEF Service!Next
  <2>3. ASSUME NEW t \in Threads, ReleaseClose(t) PROVE Service!Next
    <3>1. pc[t] \in SlotPcs
      BY <2>3 DEF ReleaseClose, SlotPcs, ReleasePcs
    <3>2. PICK c \in Conns : toBeDeleted[cur[t]] = c
      BY <1>2, <3>1, Held DEF Serving, Echoing, Control
    <3>3. Service!End(c)
      BY <1>2, <2>3, <3>2, ServeEnd
    <3> QED
      BY <3>3 DEF Service!Next
  <2> QED
    BY <1>2, <2>1, <2>2, <2>3, ServeInside
<1>3. Serving /\ [Next]_vars => [Service!Next]_(Service!vars)
  <2>1. UNCHANGED vars => UNCHANGED ServiceVars
    BY DEF vars, netVars, serverVars, ServiceVars, St, Ending
  <2>2. UNCHANGED ServiceVars => UNCHANGED Service!vars
    BY Zenon DEF ServiceVars, Service!vars, St, Ending
  <2> QED
    BY <1>2, <2>1, <2>2
<1> QED
  BY <1>1, <1>3, ServingInvariance, PTL DEF Spec, ServesEchoes, Service!Spec
=============================================================================
