------------------------------ MODULE PtrRing ------------------------------
(***************************************************************************)
(* CRingPtrBuffer<CPacket*>, the send ring of the second server: pointers  *)
(* are stored byte by byte in a ring whose length is no multiple of their  *)
(* size, so that a pointer may straddle its end.  One thread enqueues; the *)
(* one that owns _sendFlag gathers the queued pointers for WSASend and     *)
(* dequeues them when the send completes.  They share no lock: the rear    *)
(* index is stored after the bytes, the front index after they were read.  *)
(* (Its Init is RingInit, and so on: BufferProofs extends EchoStream too.) *)
(***************************************************************************)
EXTENDS RingBuffer

CONSTANTS
  Word,      \* sizeof(void*): 8 in the code
  Packets,   \* packets, named by their pointers
  None       \* what no packet's bytes stand for

ASSUME WordAssumption == Word \in Nat \ {0} /\ Word < Capacity /\ None \notin Packets

VARIABLES
  front, rear, buf,   \* _front, _rear, _buffer
  pAt, pPacket,       \* the producer, and the packet it enqueues
  cAt, cRear,         \* the consumer, and its copy of _rear
  gathered,           \* pointers handed to WSASend and not yet dequeued
  taken               \* the bytes of the pointer being dequeued

ringVars == <<front, rear, buf, pAt, pPacket, cAt, cRear, gathered, taken>>

Pointer(p) == [k \in 1 .. Word |-> <<p, k>>]
Decode(bytes) ==
  IF \E p \in Packets : bytes = Pointer(p)
    THEN CHOOSE p \in Packets : bytes = Pointer(p) ELSE None

RingInit ==
  /\ front = 0 /\ rear = 0 /\ buf = Empty
  /\ pAt = "idle" /\ pPacket = None
  /\ cAt = "idle" /\ cRear = 0 /\ gathered = <<>> /\ taken = <<>>

(***************************************************************************)
(* Enqueue                                                                 *)
(***************************************************************************)
\* the free size, with the _front of this moment; too small is a DebugBreak
EnqueueSize ==
  /\ pAt = "idle"
  /\ pPacket' \in Packets
  /\ pAt' = IF FreeSize(front, rear) < Word THEN "break" ELSE "copy"
  /\ UNCHANGED <<front, rear, buf, cAt, cRear, gathered, taken>>

EnqueueCopy ==
  /\ pAt = "copy"
  /\ buf' = Enqueue(buf, rear, Pointer(pPacket))
  /\ pAt' = "publish"
  /\ UNCHANGED <<front, rear, pPacket, cAt, cRear, gathered, taken>>

EnqueuePublish ==
  /\ pAt = "publish"
  /\ rear' = Move(rear, Word)
  /\ pAt' = "idle" /\ pPacket' = None
  /\ UNCHANGED <<front, buf, cAt, cRear, gathered, taken>>

(***************************************************************************)
(* SetSendWsabufs                                                          *)
(***************************************************************************)
\* the positions first, first + Word, ... below limit
Every(first, limit) ==
  IF first >= limit THEN <<>>
  ELSE [i \in 1 .. (limit - first - 1) \div Word + 1 |-> first + (i - 1) * Word]
\* PickAt on each of some positions
PickAt(positions) == [i \in DOMAIN positions |-> Copy(buf, positions[i], Word)]

\* the pointers up to the end of the ring, and the bytes left over there
Direct(f)   == Every(f, Capacity - Word)
Leftover(f) == Capacity - (f + Len(Direct(f)) * Word)
EndPart(f)   == Copy(buf, Capacity - Leftover(f), Leftover(f))
StartPart(f) == Copy(buf, 0, Word - Leftover(f))

\* the pointers up to the end; the one put together from both ends; the others
\* (faulty variant: the parts of the pointer cut apart are swapped)
GatherWith(straddle, f, r) ==
  PickAt(Direct(f)) \o (IF Leftover(f) = 0 THEN <<>> ELSE <<straddle>>)
                    \o PickAt(Every(Word - Leftover(f), r))
GatherWrappedSwapped(f, r) == GatherWith(StartPart(f) \o EndPart(f), f, r)
GatherWrapped(f, r)        == GatherWith(EndPart(f) \o StartPart(f), f, r)

\* the owner of the flag has found the ring not empty
GatherRead ==
  /\ cAt = "idle" /\ UseSize(front, rear) # 0
  /\ cRear' = rear
  /\ cAt' = "gather"
  /\ UNCHANGED <<front, rear, buf, pAt, pPacket, gathered, taken>>

\* a number of pointers that is not the size's is a DebugBreak
Gather ==
  /\ cAt = "gather"
  /\ gathered' = IF front < cRear THEN PickAt(Every(front, cRear))
                                  ELSE GatherWrapped(front, cRear)
  /\ cAt' = IF Len(gathered') = UseSize(front, cRear) \div Word THEN "sent" ELSE "break"
  /\ UNCHANGED <<front, rear, buf, pAt, pPacket, cRear, taken>>

(***************************************************************************)
(* Dequeue, once for each pointer sent                                     *)
(***************************************************************************)
DequeueCopy ==
  /\ cAt = "sent" /\ gathered # <<>>
  /\ IF UseSize(front, rear) < Word
       THEN cAt' = "break" /\ UNCHANGED taken
       ELSE cAt' = "take" /\ taken' = Peek(buf, front, Word)
  /\ UNCHANGED <<front, rear, buf, pAt, pPacket, cRear, gathered>>

DequeueMove ==
  /\ cAt = "take"
  /\ front' = Move(front, Word)
  /\ gathered' = Tail(gathered)
  /\ cAt' = "took"
  /\ UNCHANGED <<rear, buf, pAt, pPacket, cRear, taken>>

\* the packet is released; the next one, or the end of the completion
Dequeued ==
  /\ cAt = "took"
  /\ cAt' = IF gathered = <<>> THEN "idle" ELSE "sent"
  /\ taken' = <<>>
  /\ UNCHANGED <<front, rear, buf, pAt, pPacket, cRear, gathered>>

Producer == EnqueueSize \/ EnqueueCopy \/ EnqueuePublish
Consumer == GatherRead \/ Gather \/ DequeueCopy \/ DequeueMove \/ Dequeued
\* a DebugBreak ends the process
RingNext == pAt # "break" /\ cAt # "break" /\ (Producer \/ Consumer)
RingSpec == RingInit /\ [][RingNext]_ringVars

(***************************************************************************)
(* Properties                                                              *)
(***************************************************************************)
\* Every variable stays in its range.
RingTypeOK ==
  /\ front \in Positions /\ rear \in Positions /\ cRear \in Positions
  /\ DOMAIN buf = Positions
  /\ pAt \in {"idle", "copy", "publish", "break"} /\ pPacket \in Packets \cup {None}
  /\ cAt \in {"idle", "gather", "sent", "take", "took", "break"}

\* the pointers between front and rear
Contents ==
  [i \in 1 .. UseSize(front, rear) \div Word |->
     Peek(buf, Move(front, (i - 1) * Word), Word)]

\* WSASend is handed exactly the packets that will be dequeued and released
\* when it completes, in the order in which they were queued, wherever the
\* ring ends and whatever is enqueued meanwhile.  In particular as many are
\* gathered as the size says (the assertion at CRingBuffer.h:711), and Dequeue
\* finds one for each (:479).  (Every variable is in its range besides.)
GatheredAreQueued ==
  /\ RingTypeOK
  /\ cAt # "break"
  /\ cAt \in {"sent", "take", "took"} => Seqs!IsPrefix(gathered, Contents)

\* the packets in the ring, and the calls its two threads are in
queue   == [i \in DOMAIN Contents |-> Decode(Contents[i])]
opState == [t \in {"producer", "consumer"} |->
  CASE t = "producer" /\ pAt \in {"copy", "publish"} -> <<"put", pPacket>>
    [] t = "consumer" /\ cAt = "take"                -> <<"get">>
    [] t = "consumer" /\ cAt = "took"                -> <<"got", Decode(taken)>>
    [] OTHER                                         -> <<"idle">>]

\* Whole pointers come out, in the order in which they went in: the ring is
\* a queue whose put takes effect when _rear is stored, and whose get when
\* _front is.
Queue == INSTANCE LinearSequence WITH
  Procs <- {"producer", "consumer"}, Items <- Packets, Lifo <- FALSE,
  seq <- queue, state <- opState
Linearizable == Queue!Spec
=============================================================================
