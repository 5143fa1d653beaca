------------------------------- MODULE Packet -------------------------------
(***************************************************************************)
(* CPacket, the serialization buffer messages are built in, read from and  *)
(* sent from.  One thread, the creator, makes a packet, takes a reference, *)
(* writes and reads it, gives it to SendPacket for some sessions and       *)
(* releases it, as OnAccept and ProcessRecvMessage do; the threads of the  *)
(* sessions send it and release it when the send has completed.  A session *)
(* whose connection broke keeps it in _pSendPacketArr, until the session   *)
(* is released or, where WSASend failed at once, another send takes its    *)
(* place.  No code of the repository catches an exception: a throw ends    *)
(* the process, as a DebugBreak does.                                      *)
(***************************************************************************)
EXTENDS Integers, Sequences, FiniteSets

Seqs == INSTANCE SequencesExt

CONSTANTS
  Capacity,    \* _capacity, eBUFFER_DEFAULT (1400)
  Widths,      \* sizes of the types of << and >>, and lengths in the other calls
  Sessions,    \* sessions the packet is sent to
  Home,        \* the session the creator acts for
  MaxClears    \* bound: calls of Clear

ASSUME PacketAssumption ==
  /\ Capacity \in Nat \ {0} /\ Widths \subseteq Nat
  /\ IsFiniteSet(Sessions) /\ Home \in Sessions /\ MaxClears \in Nat

VARIABLES
  front, rear, buf,   \* _front, _rear, _buffer; a byte not yet written is 0
  refs,               \* _refCount
  deletes,            \* times the packet has been deleted
  creator,            \* "build", "delete", "done"
  sender,             \* [Sessions -> where a session has it, see Places]
  len,                \* [Sessions -> length in the WSABUF]
  received,           \* [Sessions -> what the session's client got]
  wrote, got,         \* bytes written and bytes read or skipped, since Clear
  broken,             \* the sessions whose connection broke
  clears, ended       \* calls of Clear; has a throw or a DebugBreak ended the process?

vars == <<front, rear, buf, refs, deletes, creator, sender, len, received, broken,
          wrote, got, clears, ended>>

content == <<front, rear, buf, wrote, got, clears>>
sharing == <<refs, deletes, creator, sender, len, received, broken>>

Bytes == [1 .. Capacity -> Nat]

\* in _sendBuf; in _pSendPacketArr: of a WSASend under way, of one that ended
\* with no byte, of one that failed at once, and overwritten after that
Keeping == {"queued", "posted", "aborted", "failed", "lost"}
Places  == Keeping \cup {"none", "delete", "done"}

Init ==
  /\ front = 0 /\ rear = 0 /\ buf = [k \in 1 .. Capacity |-> 0]
  /\ refs = 1 /\ deletes = 0 /\ creator = "build"
  /\ sender = [s \in Sessions |-> "none"] /\ len = [s \in Sessions |-> 0]
  /\ received = [s \in Sessions |-> <<>>] /\ broken = {}
  /\ wrote = <<>> /\ got = <<>> /\ clears = 0 /\ ended = FALSE

Building == creator = "build" /\ ~ended
Unsent == \A s \in Sessions : sender[s] = "none"

Throw == ended' = TRUE /\ UNCHANGED <<content, sharing>>

\* n bytes at a position, each one of a kind; _rear moves
Stored(at, n) ==
  [k \in 1 .. Capacity |->
    IF k \in at + 1 .. at + n THEN 16 * clears + rear - at + k ELSE buf[k]]
WriteAt(at, n) ==
  /\ buf' = Stored(at, n) /\ rear' = rear + n
  /\ wrote' = wrote \o [k \in 1 .. n |-> 16 * clears + rear + k]
  /\ UNCHANGED <<front, got, clears, sharing, ended>>

\* a variant that stores at the read position
InsertAtFront(n) == IF Capacity < rear + n THEN Throw ELSE WriteAt(front, n)

\* operator << of every type but char, and PutData
Insert(n) ==
  IF Capacity < rear + n THEN Throw ELSE WriteAt(rear, n)

\* operator << of char asks for an unread byte as well
InsertChar ==
  IF rear < front + 1 \/ Capacity < rear + 1
  THEN Throw
  ELSE WriteAt(rear, 1)

\* the caller stores bytes behind _rear, then moves it (the code moves it, or
\* _front below, before it throws, which nobody is left to see; 0 stands for
\* a negative length too)
MoveWritePos(n) ==
  IF n = 0 \/ rear + n >= Capacity THEN Throw ELSE WriteAt(rear, n)

Writes ==
  /\ Building /\ Unsent
  /\ \E n \in Widths :
       Insert(n) \/ InsertChar \/ MoveWritePos(n)

\* operator >> of every type, and GetData
Extract(n) ==
  IF rear < front + n
  THEN Throw
  ELSE /\ front' = front + n
       /\ got' = got \o SubSeq(buf, front + 1, front + n)
       /\ UNCHANGED <<rear, buf, wrote, clears, sharing, ended>>

MoveReadPos(n) ==
  IF n = 0 \/ front + n > rear
  THEN Throw
  ELSE /\ front' = front + n
       /\ got' = got \o SubSeq(wrote, front + 1, front + n)
       /\ UNCHANGED <<rear, buf, wrote, clears, sharing, ended>>

Reads == Building /\ \E n \in Widths : Extract(n) \/ MoveReadPos(n)

Clear ==
  /\ Building /\ Unsent /\ clears < MaxClears
  /\ front' = 0 /\ rear' = 0
  /\ wrote' = <<>> /\ got' = <<>> /\ clears' = clears + 1
  /\ UNCHANGED <<buf, sharing, ended>>

\* a variant of AddRef that takes no reference
NoAddRef == UNCHANGED refs

AddRef == refs' = refs + 1

\* a packet, which has a header at least, goes into the queue of a session
SendPacket ==
  /\ Building /\ rear > 0
  /\ \E s \in Sessions :
       /\ sender[s] = "none"
       /\ AddRef
       /\ sender' = [sender EXCEPT ![s] = "queued"]
  /\ UNCHANGED <<content, deletes, creator, len, received, broken, ended>>

\* SendPost: the WSABUF takes the pointer and GetDataSize, which is _rear
\* (a variant sends as many bytes as are unread)
SendPostOf(s, size) ==
  /\ sender[s] = "queued" /\ ~ended
  /\ sender' = [sender EXCEPT ![s] = "posted"]
  /\ len' = [len EXCEPT ![s] = size]
  /\ UNCHANGED <<content, refs, deletes, creator, received, broken, ended>>
SendPostUnread(s) == SendPostOf(s, rear - front)
SendPost(s)       == SendPostOf(s, rear)

\* a packet in _pSendPacketArr changes its place there, by no act of its own
Moves(s, from, to) ==
  /\ sender[s] = from /\ ~ended
  /\ sender' = [sender EXCEPT ![s] = to]
  /\ UNCHANGED <<content, refs, deletes, creator, len, received, broken, ended>>

\* WSASend fails at once on a broken connection: the flag is given back, the
\* packet is not released ...
SendFails(s) == s \in broken /\ Moves(s, "queued", "failed")
\* ... and the next SendPost of the session gathers another one over it
Overwritten(s) == Moves(s, "failed", "lost")
\* the send ends with no byte: nothing is released, and the flag stays up
SendAborts(s) == s \in broken /\ Moves(s, "posted", "aborted")

ConnectionBreaks(s) ==
  /\ s \notin broken /\ ~ended
  /\ broken' = broken \cup {s}
  /\ UNCHANGED <<content, refs, deletes, creator, sender, len, received, ended>>

\* a variant that looks at the count before it is decremented
AfterReleaseNever == IF refs = 0 THEN "delete" ELSE "done"

\* who takes the last reference deletes the packet, in a step of its own
AfterRelease == IF refs = 1 THEN "delete" ELSE "done"
Decrement == refs' = refs - 1

\* the send completes with the bytes that lie in _buffer, and Release
SendDone(s) ==
  /\ sender[s] = "posted" /\ ~ended
  /\ received' = [received EXCEPT ![s] = SubSeq(buf, 1, len[s])]
  /\ Decrement /\ sender' = [sender EXCEPT ![s] = AfterRelease]
  /\ UNCHANGED <<content, deletes, creator, len, broken, ended>>

\* Release of the session, when nobody refers to it any more, drops what is in
\* its queue and in its array; nobody else may have a packet of the array, or
\* DebugBreak
Drain(s) ==
  /\ s \in broken /\ ~ended
  /\ sender[s] \in {"queued", "aborted", "failed"}
  /\ s = Home => creator = "done"
  /\ IF sender[s] # "queued" /\ refs # 1
       THEN ended' = TRUE /\ UNCHANGED <<refs, sender>>
       ELSE Decrement /\ sender' = [sender EXCEPT ![s] = AfterRelease] /\ UNCHANGED ended
  /\ UNCHANGED <<content, deletes, creator, len, received, broken>>

CreatorReleases ==
  /\ Building
  /\ Decrement /\ creator' = AfterRelease
  /\ UNCHANGED <<content, deletes, sender, len, received, broken, ended>>

Delete ==
  /\ ~ended
  /\ \/ /\ creator = "delete" /\ creator' = "done"
        /\ UNCHANGED sender
     \/ \E s \in Sessions :
          /\ sender[s] = "delete" /\ sender' = [sender EXCEPT ![s] = "done"]
          /\ UNCHANGED creator
  /\ deletes' = deletes + 1
  /\ UNCHANGED <<content, refs, len, received, broken, ended>>

SessionStep(s) ==
  SendPost(s) \/ SendFails(s) \/ SendDone(s) \/ SendAborts(s) \/ Drain(s)

Next ==
  \/ Writes \/ Reads \/ Clear \/ SendPacket \/ CreatorReleases \/ Delete
  \/ \E s \in Sessions : SessionStep(s) \/ Overwritten(s) \/ ConnectionBreaks(s)

\* The creator's handler returns; a session sends what is queued, a send ends,
\* and a session whose connection broke is released.  That another packet comes
\* to be sent after one that failed, nobody guarantees.
Fairness ==
  /\ WF_vars(CreatorReleases) /\ WF_vars(Delete)
  /\ \A s \in Sessions : WF_vars(SessionStep(s))

Spec == Init /\ [][Next]_vars
FairSpec == Spec /\ Fairness

-----------------------------------------------------------------------------
\* The variables have their types, and neither position leaves the buffer.
TypeOK ==
  /\ front \in 0 .. rear /\ rear \in 0 .. Capacity /\ buf \in Bytes
  /\ refs \in 0 .. Cardinality(Sessions) + 1 /\ deletes \in 0 .. 1
  /\ creator \in {"build", "delete", "done"}
  /\ sender \in [Sessions -> Places] /\ broken \subseteq Sessions
  /\ len \in [Sessions -> 0 .. Capacity]
  /\ clears \in 0 .. MaxClears /\ ended \in BOOLEAN

\* What >> and GetData give back is what << and PutData put in, in that order,
\* whatever the mixture of types, of skips and of a Clear with old bytes below.
ReadBack == Seqs!IsPrefix(got, wrote)

\* A client gets all that was written, also what the handler has read before
\* or reads while the packet is being sent (GetDataSize ignores _front), or
\* nothing, and that only where its connection broke.
SentWhole ==
  \A s \in Sessions :
    /\ received[s] \in {<<>>, wrote}
    /\ sender[s] \in {"delete", "done"} /\ s \notin broken => received[s] = wrote

\* The packet is deleted once, and never while the creator builds it, a queue
\* or an array holds it or the kernel reads it.  (Every variable is in its range
\* besides.)
AliveWhileUsed ==
  /\ TypeOK
  /\ deletes > 0 =>
    /\ deletes = 1 /\ creator = "done"
    /\ \A s \in Sessions : sender[s] \in {"none", "done"}

\* A packet is deleted in the end, also where its connections break, with one
\* exception: a WSASend that failed at once has left it in _pSendPacketArr
\* (CLanServer.cpp:488-499) and the session has sent another one since.
Deleted == <>(deletes = 1 \/ ended \/ \E s \in Sessions : sender[s] = "lost")

=============================================================================
