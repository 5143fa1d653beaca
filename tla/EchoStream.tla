----------------------------- MODULE EchoStream -----------------------------
(***************************************************************************)
(* The bytes of one session of the first server (Iocp_Echo): RecvPost      *)
(* lends the unused part of _recvBuf to Winsock, the client's stream       *)
(* arrives in pieces of any length, ProcessRecvMessage cuts it into        *)
(* messages again, SendPacket queues each in _sendBuf, and WSASend is lent *)
(* these bytes in place until it completes.  A message is a header of two  *)
(* bytes with the length of the rest, and the rest, which has the fixed    *)
(* size that SendPacket reads.                                             *)
(*                                                                         *)
(* The worker that handles a completion holds the session's critical       *)
(* section all along: no send completion is handled while the other one is *)
(* between two messages.  The kernel reads lent bytes as late as it can.   *)
(***************************************************************************)
EXTENDS RingBuffer

CONSTANTS
  PayloadSize,   \* bytes of the rest of a message (8 in the echo protocol)
  Window,        \* messages the client sends ahead of the echoes
  MaxMessages    \* bound: messages the client sends in all

HeaderSize  == 2  \* sizeof(stHeader), sizeof(short)
MessageSize == HeaderSize + PayloadSize

ASSUME SizesAssumption ==
  /\ PayloadSize \in 0 .. 255 /\ Window \in Nat /\ MaxMessages \in Nat
  /\ MessageSize < Capacity /\ Window * MessageSize < Capacity

VARIABLES
  rFront, rRear, rBuf,   \* _recvBuf
  state,                 \* of the receive: "posted", "done" (completed, the
                         \* completion not yet handled) or "loop" (in a worker)
  cbTransferred,         \* bytes of that completion
  sFront, sRear, sBuf,   \* _sendBuf
  sendFlag,              \* _sendFlag
  lent,                  \* the regions of the outstanding WSASend
  stream, toServer,      \* all bytes the client sent; those not yet received
  received               \* the bytes that reached the client

recvVars   == <<rFront, rRear, rBuf, state, cbTransferred>>
sendVars   == <<sFront, sRear, sBuf, sendFlag, lent>>
clientVars == <<stream, toServer, received>>
vars       == <<recvVars, sendVars, clientVars>>

Init ==
  /\ rFront = 0 /\ rRear = 0 /\ rBuf = Empty
  /\ state = "posted" /\ cbTransferred = 0
  /\ sFront = 0 /\ sRear = 0 /\ sBuf = Empty
  /\ sendFlag = 0 /\ lent = <<>>
  /\ stream = <<>> /\ toServer = <<>> /\ received = <<>>

\* the client sends its next message; no two bytes of the payloads are equal
ClientSends ==
  LET id == Len(stream) \div MessageSize + 1
      message == <<PayloadSize, 0>> \o [k \in 1 .. PayloadSize |-> 16 * id + k] IN
  /\ id <= MaxMessages
  /\ Len(stream) + MessageSize <= Len(received) + Window * MessageSize
  /\ stream' = stream \o message
  /\ toServer' = toServer \o message
  /\ UNCHANGED <<recvVars, sendVars, received>>

(***************************************************************************)
(* Receiving                                                               *)
(***************************************************************************)
\* the receive completes with the first bytes there are
Receive ==
  LET room == Order(SetRecvWsabufs(rFront, rRear)) IN
  /\ state = "posted"
  /\ \E k \in 1 .. Smaller(Len(room), Len(toServer)) :
       /\ rBuf' = Put(rBuf, room, SubSeq(toServer, 1, k))
       /\ toServer' = SubSeq(toServer, k + 1, Len(toServer))
       /\ cbTransferred' = k
  /\ state' = "done"
  /\ UNCHANGED <<rFront, rRear, sendVars, stream, received>>

Completed ==
  /\ state = "done"
  /\ rRear' = Move(rRear, cbTransferred)
  /\ state' = "loop"
  /\ UNCHANGED <<rFront, rBuf, cbTransferred, sendVars, clientVars>>

\* the length in the header at the front, low byte first
Size == LET h == Peek(rBuf, rFront, HeaderSize) IN h[1] + 256 * h[2]
\* a whole message is there (faulty variant: the header is not counted)
CompleteEarly ==
  UseSize(rFront, rRear) >= HeaderSize /\ UseSize(rFront, rRear) >= Size
Complete ==
  /\ UseSize(rFront, rRear) >= HeaderSize
  /\ UseSize(rFront, rRear) >= HeaderSize + Size

\* the payload is copied out, in two parts if it crosses the end of the ring
Payload ==
  LET start  == Move(rFront, HeaderSize)
      direct == DirectDequeueSize(start, rRear) IN
  IF direct < Size
    THEN Copy(rBuf, start, direct) \o Copy(rBuf, Move(start, direct), Size - direct)
    ELSE Copy(rBuf, start, Size)

(***************************************************************************)
(* Sending                                                                 *)
(***************************************************************************)
\* SendPost, with the flag and the ring as its caller leaves them (faulty
\* variant: an empty ring leaves the flag set)
SendPostOr(flag, front, rear, flagIfEmpty) ==
  \/ flag = 1 /\ sendFlag' = 1 /\ UNCHANGED lent
  \/ flag = 0 /\ UseSize(front, rear) = 0 /\ sendFlag' = flagIfEmpty /\ lent' = <<>>
  \/ flag = 0 /\ UseSize(front, rear) > 0 /\ sendFlag' = 1
     /\ lent' = SetSendWsabufs(front, rear)
SendPostKeepsFlag(flag, front, rear) == SendPostOr(flag, front, rear, 1)
SendPost(flag, front, rear)          == SendPostOr(flag, front, rear, 0)

\* Enqueue of the header and Enqueue of the rest, each cut to the room there
\* is: the first bytes of the message are stored
SendPacket(message) ==
  LET stored == SubSeq(message, 1, Smaller(FreeSize(sFront, sRear), Len(message)))
      rear   == Move(sRear, Len(stored)) IN
  /\ sBuf' = Enqueue(sBuf, sRear, stored)
  /\ sRear' = rear
  /\ SendPost(sendFlag, sFront, rear)
  /\ UNCHANGED sFront

\* one turn of ProcessRecvMessage's loop, with OnRecv and SendPacket (\E: TLC
\* evaluates the message once)
HandleMessage ==
  /\ state = "loop" /\ Complete
  /\ rFront' = Move(Move(rFront, HeaderSize), Size)
  /\ \E message \in {<<Size, 0>> \o Payload} : SendPacket(message)
  /\ UNCHANGED <<rRear, rBuf, state, cbTransferred, clientVars>>

\* the loop ends: the next receive is posted
RecvPost ==
  /\ state = "loop" /\ ~Complete
  /\ state' = "posted"
  /\ UNCHANGED <<rFront, rRear, rBuf, cbTransferred, sendVars, clientVars>>

\* the kernel has taken the lent bytes; the completion gives them back, clears
\* the flag and sends what was queued meanwhile
SendDone ==
  LET taken == Order(lent)
      front == Move(sFront, Len(taken)) IN
  /\ state # "loop" /\ lent # <<>>
  /\ received' = received \o [i \in DOMAIN taken |-> sBuf[taken[i]]]
  /\ sFront' = front
  /\ SendPost(0, front, sRear)
  /\ UNCHANGED <<recvVars, sRear, sBuf, stream, toServer>>

Next == ClientSends \/ Receive \/ Completed \/ HandleMessage \/ RecvPost \/ SendDone
Spec == Init /\ [][Next]_vars

\* the workers run, and Winsock delivers what was sent
FairSpec ==
  /\ Spec
  /\ WF_vars(Receive \/ Completed \/ HandleMessage \/ RecvPost) /\ WF_vars(SendDone)

(***************************************************************************)
(* Properties                                                              *)
(***************************************************************************)
\* Every variable stays in its range.
TypeOK ==
  /\ {rFront, rRear, sFront, sRear} \subseteq Positions
  /\ DOMAIN rBuf = Positions /\ DOMAIN sBuf = Positions
  /\ state \in {"posted", "done", "loop"} /\ sendFlag \in {0, 1}
  /\ cbTransferred \in 0 .. Capacity - 1

\* The client gets back the bytes it sent, in order and unchanged, however
\* the stream was cut, wherever the two rings wrap, and although the bytes
\* lent to WSASend stay in the ring while more are queued behind them.
EchoInOrder == Seqs!IsPrefix(received, stream)

\* Winsock is lent exactly the unused bytes, in the order in which they will
\* be read, and never none, which would end the receive with no byte and so
\* the session (NetLib.cpp:79).  (Every variable is in its range besides.)
LentIsUnused ==
  /\ TypeOK
  /\ state = "posted" =>
    LET room == Order(SetRecvWsabufs(rFront, rRear)) IN
    room # <<>> /\ room = Unused(rFront, rRear)

\* Every message sent is echoed: no byte waits in the send ring with nobody to
\* send it, none is cut off by a full ring (CRingBuffer.h:109) as long as the
\* client's window fits, and no receive ring is ever too full to go on.  (The
\* client ends after MaxMessages: from then on nothing may be left to echo.)
AllEchoed == []<>(Len(received) = Len(stream))
=============================================================================
