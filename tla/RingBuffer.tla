----------------------------- MODULE RingBuffer -----------------------------
(***************************************************************************)
(* The arithmetic of CRingBuffer: where the next bytes are read and        *)
(* written, how many there are, and the WSABUFs handed to Winsock.  One    *)
(* byte stays unused, so that front = rear means empty.  The same code is  *)
(* in all three servers; CRingPtrBuffer repeats it.                        *)
(***************************************************************************)
EXTENDS Integers, Sequences

Seqs == INSTANCE SequencesExt

CONSTANT Capacity    \* _capacity: the size asked for, and one

ASSUME CapacityAssumption == Capacity \in Nat \ {0}

Positions == 0 .. Capacity - 1
Empty     == [p \in Positions |-> 0]

Smaller(m, n) == IF m < n THEN m ELSE n

UseSize(front, rear)  == IF front <= rear THEN rear - front ELSE Capacity - front + rear
FreeSize(front, rear) == Capacity - 1 - UseSize(front, rear)

\* MoveFront, MoveRear
Move(pos, n)          == (pos + n) % Capacity

\* what can be written, or read, without a wrap
\* (faulty variant: the unused byte forgotten)
DirectEnqueueSizeWrong(front, rear) ==
  IF front > rear THEN front - rear - 1 ELSE Capacity - rear
DirectEnqueueSize(front, rear) ==
  CASE front > rear                -> front - rear - 1
    [] front <= rear /\ front = 0  -> Capacity - rear - 1
    [] front <= rear /\ front # 0  -> Capacity - rear

DirectDequeueSize(front, rear) ==
  IF front > rear THEN Capacity - front ELSE rear - front

\* the regions <<start, length>> of a receive and of a send
Regions(start, direct, total) ==
  IF total = direct THEN << <<start, direct>> >>
                    ELSE << <<start, direct>>, <<0, total - direct>> >>
SetRecvWsabufs(front, rear) ==
  Regions(rear, DirectEnqueueSize(front, rear), FreeSize(front, rear))
SetSendWsabufs(front, rear) ==
  Regions(front, DirectDequeueSize(front, rear), UseSize(front, rear))

\* the positions of some regions in the order Winsock uses them
Order(regions) ==
  LET At(r) == [i \in 1 .. r[2] |-> r[1] + i - 1] IN
  IF Len(regions) = 1 THEN At(regions[1]) ELSE At(regions[1]) \o At(regions[2])

\* a memcpy of n bytes from a position on; Peek and Dequeue copy in two parts
Copy(buf, pos, n)  == [i \in 1 .. n |-> buf[pos + i - 1]]
Peek(buf, front, n) ==
  LET first == Smaller(n, Capacity - front) IN
  Copy(buf, front, first) \o Copy(buf, 0, n - first)

\* the bytes go to the positions listed
Put(buf, positions, bytes) ==
  [p \in DOMAIN buf |->
    IF \E i \in DOMAIN bytes : positions[i] = p
      THEN bytes[CHOOSE i \in DOMAIN bytes : positions[i] = p]
      ELSE buf[p]]
\* Enqueue, once it is known that the bytes fit: memcpy in two parts
\* (faulty variant: the second part starts with the first byte again)
EnqueueFrom(buf, rear, bytes, second) ==
  LET first == Smaller(Len(bytes), Capacity - rear) IN
  Put(buf, Order(<< <<rear, first>>, <<0, Len(bytes) - first>> >>),
      SubSeq(bytes, 1, first) \o SubSeq(bytes, second, second + Len(bytes) - first - 1))
EnqueueNoOffset(buf, rear, bytes) == EnqueueFrom(buf, rear, bytes, 1)
Enqueue(buf, rear, bytes) ==
  EnqueueFrom(buf, rear, bytes, Smaller(Len(bytes), Capacity - rear) + 1)

\* the reference definition: the positions in use, oldest first, found by
\* walking from front to rear
Used(front, rear) ==
  LET n == CHOOSE k \in 0 .. Capacity - 1 : (front + k) % Capacity = rear IN
  [i \in 1 .. n |-> (front + i - 1) % Capacity]
Unused(front, rear) ==
  [i \in 1 .. Capacity - 1 - Len(Used(front, rear)) |-> (rear + i - 1) % Capacity]
=============================================================================
