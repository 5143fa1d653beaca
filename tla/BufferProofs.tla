----------------------------- MODULE BufferProofs -----------------------------
(***************************************************************************)
(* Theorems about the bytes of a session, EchoStream, for every capacity   *)
(* of the rings, every size of a message and every window; about the ring  *)
(* of pointers, PtrRing, for every capacity and every size of a pointer;   *)
(* and about what the packets of a session come to, EchoService.           *)
(*                                                                         *)
(* The arithmetic of the rings comes first: At(pos, j) is the j-th         *)
(* position from pos on, and Row(pos, n) the first n.  What Winsock is     *)
(* lent, what Enqueue writes and what Peek and Dequeue read, in one memcpy *)
(* or in two, are rows.                                                    *)
(*                                                                         *)
(* The inductive invariant of EchoStream says that every byte the client   *)
(* sent is on its way to the server, in one of the two rings, or back;     *)
(* that the bytes in each are those of the stream from a known place on;   *)
(* that Echoed, how many have been handled, is the start of a message; and *)
(* that the client's window leaves room for one more message in the send   *)
(* ring.  The one of PtrRing names the queued packets: the bytes between   *)
(* front and rear are their pointers, those behind rear the pointer being  *)
(* enqueued, and the gathered ones the first of them.                      *)
(***************************************************************************)
EXTENDS EchoStream, PtrRing, FiniteSetTheorems, TLAPS

(***************************************************************************)
(* The arithmetic of the ring                                              *)
(***************************************************************************)
\* the j-th position from pos on, the first being the 0-th
At(pos, j) == IF pos + j < Capacity THEN pos + j ELSE pos + j - Capacity
\* the positions of n bytes from pos on
Row(pos, n) == [i \in 1 .. n |-> At(pos, i - 1)]

\* The remainder of what is less than twice the divisor.
LEMMA Wrapped ==
  ASSUME NEW k \in Nat, k < Capacity + Capacity
  PROVE  k % Capacity = IF k < Capacity THEN k ELSE k - Capacity
  BY CapacityAssumption DEF CapacityAssumption

USE CapacityAssumption DEF CapacityAssumption, Positions

\* Where a position of the ring moves to.
LEMMA Moved ==
  ASSUME NEW pos \in Positions, NEW n \in Nat, n <= Capacity
  PROVE  Move(pos, n) = At(pos, n) /\ Move(pos, n) \in Positions
<1>1. pos + n \in Nat /\ pos + n < Capacity + Capacity
  OBVIOUS
<1>2. (pos + n) % Capacity = At(pos, n)
  BY <1>1, Wrapped DEF At
<1> QED BY <1>1, <1>2 DEF Move, At

\* The positions of fewer bytes than fit are distinct.
LEMMA AtDistinct ==
  ASSUME NEW pos \in Positions, NEW i \in 0 .. Capacity - 1, NEW j \in 0 .. Capacity - 1
  PROVE  /\ At(pos, i) \in Positions
         /\ At(pos, i) = At(pos, j) => i = j
  BY DEF At

\* Positions counted from one that has moved.
LEMMA AtMoved ==
  ASSUME NEW pos \in Positions, NEW n \in Nat, NEW j \in Nat, n + j <= Capacity
  PROVE  At(At(pos, n), j) = At(pos, n + j)
  BY DEF At

\* How much is used and how much is free, and what moving an end does to it.
LEMMA Sizes ==
  ASSUME NEW f \in Positions, NEW r \in Positions
  PROVE  /\ UseSize(f, r) \in 0 .. Capacity - 1 /\ FreeSize(f, r) \in 0 .. Capacity - 1
         /\ FreeSize(f, r) = Capacity - 1 - UseSize(f, r)
         /\ r = At(f, UseSize(f, r))
  BY DEF UseSize, FreeSize, At

\* MoveRear puts n bytes more into use, if they fit.
LEMMA RearMoves ==
  ASSUME NEW f \in Positions, NEW r \in Positions, NEW n \in Nat, n <= FreeSize(f, r)
  PROVE  /\ Move(r, n) \in Positions /\ Move(r, n) = At(f, UseSize(f, r) + n)
         /\ UseSize(f, Move(r, n)) = UseSize(f, r) + n
<1>1. n <= Capacity /\ FreeSize(f, r) \in 0 .. Capacity - 1
  BY Sizes
<1>2. Move(r, n) = At(r, n) /\ Move(r, n) \in Positions
  BY <1>1, Moved
<1>3. At(r, n) = At(f, UseSize(f, r) + n) /\ UseSize(f, At(r, n)) = UseSize(f, r) + n
  BY DEF UseSize, FreeSize, At
<1> QED BY <1>2, <1>3

\* MoveFront gives n of the bytes in use back.
LEMMA FrontMoves ==
  ASSUME NEW f \in Positions, NEW r \in Positions, NEW n \in Nat, n <= UseSize(f, r)
  PROVE  /\ Move(f, n) \in Positions /\ Move(f, n) = At(f, n)
         /\ UseSize(Move(f, n), r) = UseSize(f, r) - n
<1>1. n <= Capacity /\ UseSize(f, r) \in 0 .. Capacity - 1
  BY Sizes
<1>2. Move(f, n) = At(f, n) /\ Move(f, n) \in Positions
  BY <1>1, Moved
<1>3. UseSize(At(f, n), r) = UseSize(f, r) - n
  BY DEF UseSize, At
<1> QED BY <1>2, <1>3

\* A sequence is known by its length and its elements.
LEMMA SameRow ==
  ASSUME NEW pos \in Positions, NEW n \in Nat, NEW s \in Seq(Int), Len(s) = n,
         \A i \in 1 .. n : s[i] = At(pos, i - 1)
  PROVE  s = Row(pos, n)
<1>1. s \in [1 .. n -> Int] /\ DOMAIN s = 1 .. n
  OBVIOUS
<1>2. Row(pos, n) = [i \in 1 .. n |-> s[i]]
  BY DEF Row
<1> QED BY <1>1, <1>2

\* Two sequences are equal that have the same length and elements.
LEMMA SameSeq ==
  ASSUME NEW Cells, NEW s \in Seq(Cells), NEW t \in Seq(Cells), Len(s) = Len(t),
         \A i \in 1 .. Len(t) : s[i] = t[i]
  PROVE  s = t
<1>1. s \in [1 .. Len(t) -> Cells] /\ t \in [1 .. Len(t) -> Cells]
  OBVIOUS
<1> QED BY <1>1

\* Two regions that meet at the end of the ring are a row of positions.
LEMMA TwoRegions ==
  ASSUME NEW pos \in Positions, NEW d \in Nat, NEW n \in Nat, d <= n, n <= Capacity,
         pos + d <= Capacity, d = n \/ pos + d = Capacity
  PROVE  Order(<< <<pos, d>>, <<0, n - d>> >>) = Row(pos, n)
<1> DEFINE Reg(a, c) == [i \in 1 .. c |-> a + i - 1]
<1>1. Order(<< <<pos, d>>, <<0, n - d>> >>) = Reg(pos, d) \o Reg(0, n - d)
  BY DEF Order
<1>2. n - d \in Nat /\ Reg(pos, d) \in Seq(Int) /\ Reg(0, n - d) \in Seq(Int)
      /\ Len(Reg(pos, d)) = d /\ Len(Reg(0, n - d)) = n - d
  OBVIOUS
<1>3. ASSUME NEW i \in 1 .. n PROVE (Reg(pos, d) \o Reg(0, n - d))[i] = At(pos, i - 1)
  <2>1. CASE i <= d
    <3>1. (Reg(pos, d) \o Reg(0, n - d))[i] = Reg(pos, d)[i]
      BY <1>2, <2>1
    <3> QED BY <2>1, <3>1 DEF At
  <2>2. CASE i > d
    <3>1. i - d \in 1 .. n - d
      BY <2>2
    <3>2. (Reg(pos, d) \o Reg(0, n - d))[i] = Reg(0, n - d)[i - d]
      BY <1>2, <2>2
    <3> QED BY <2>2, <3>1, <3>2 DEF At
  <2> QED BY <2>1, <2>2
<1>4. /\ Len(Reg(pos, d) \o Reg(0, n - d)) = n
      /\ Reg(pos, d) \o Reg(0, n - d) \in Seq(Int)
  BY <1>2
<1> HIDE DEF Reg
<1>5. Reg(pos, d) \o Reg(0, n - d) = Row(pos, n)
  BY <1>3, <1>4, SameRow
<1> QED BY <1>1, <1>5

\* The same of what SetRecvWsabufs and SetSendWsabufs make of them.
LEMMA RegionsRow ==
  ASSUME NEW pos \in Positions, NEW d \in Nat, NEW n \in Nat, d <= n, n <= Capacity,
         pos + d <= Capacity, d = n \/ pos + d = Capacity
  PROVE  Order(Regions(pos, d, n)) = Row(pos, n)
<1>1. CASE d = n
  <2>1. Order(Regions(pos, d, n)) = [i \in 1 .. n |-> pos + i - 1]
    BY <1>1 DEF Order, Regions
  <2>2. \A i \in 1 .. n : pos + i - 1 = At(pos, i - 1)
    BY <1>1 DEF At
  <2> QED BY <2>1, <2>2 DEF Row
<1>2. CASE d # n
  BY <1>2, TwoRegions DEF Regions
<1> QED BY <1>1, <1>2

\* What Winsock is lent of a receive ring: the free bytes behind the rear.
LEMMA RecvRow ==
  ASSUME NEW f \in Positions, NEW r \in Positions
  PROVE  Order(SetRecvWsabufs(f, r)) = Row(r, FreeSize(f, r))
<1> DEFINE d == DirectEnqueueSize(f, r)
           n == FreeSize(f, r)
<1>1. /\ d \in Nat /\ n \in Nat /\ d <= n /\ n <= Capacity /\ r + d <= Capacity
      /\ d = n \/ r + d = Capacity
  BY SMTT(30) DEF DirectEnqueueSize, FreeSize, UseSize
<1> HIDE DEF d, n
<1>2. Order(Regions(r, d, n)) = Row(r, n)
  BY <1>1, RegionsRow
<1> QED BY <1>2 DEF SetRecvWsabufs, d, n

\* What it is lent of a send ring: the bytes in use.
LEMMA SendRow ==
  ASSUME NEW f \in Positions, NEW r \in Positions
  PROVE  Order(SetSendWsabufs(f, r)) = Row(f, UseSize(f, r))
<1> DEFINE d == DirectDequeueSize(f, r)
           n == UseSize(f, r)
<1>1. /\ d \in Nat /\ n \in Nat /\ d <= n /\ n <= Capacity /\ f + d <= Capacity
      /\ d = n \/ f + d = Capacity
  BY SMTT(30) DEF DirectDequeueSize, UseSize
<1> HIDE DEF d, n
<1>2. Order(Regions(f, d, n)) = Row(f, n)
  BY <1>1, RegionsRow
<1> QED BY <1>2 DEF SetSendWsabufs, d, n

\* What is lent of a receive ring is what the reference definition says.
LEMMA UnusedRow ==
  ASSUME NEW f \in Positions, NEW r \in Positions
  PROVE  Unused(f, r) = Row(r, FreeSize(f, r))
<1> DEFINE n == CHOOSE k \in 0 .. Capacity - 1 : (f + k) % Capacity = r
<1>1. UseSize(f, r) \in 0 .. Capacity - 1 /\ r = At(f, UseSize(f, r))
  BY Sizes
<1>2. \A k \in 0 .. Capacity - 1 : (f + k) % Capacity = At(f, k)
  BY Moved DEF Move
<1>3. \A k \in 0 .. Capacity - 1 : (f + k) % Capacity = r <=> k = UseSize(f, r)
  BY <1>1, <1>2, AtDistinct
<1>4. n = UseSize(f, r)
  BY <1>1, <1>3
<1>5. Len(Used(f, r)) = n
  <2>1. Used(f, r) = [i \in 1 .. n |-> (f + i - 1) % Capacity]
    BY DEF Used
  <2> HIDE DEF n
  <2>2. n \in Nat
    BY <1>1, <1>4
  <2> QED BY <2>1, <2>2
<1> HIDE DEF n
<1>6. FreeSize(f, r) = Capacity - 1 - n /\ FreeSize(f, r) \in 0 .. Capacity - 1
  BY <1>4, Sizes
<1>7. Unused(f, r) = [i \in 1 .. FreeSize(f, r) |-> (r + i - 1) % Capacity]
  BY <1>5, <1>6 DEF Unused
<1>8. \A i \in 1 .. FreeSize(f, r) : (r + i - 1) % Capacity = At(r, i - 1)
  <2> SUFFICES ASSUME NEW i \in 1 .. FreeSize(f, r) PROVE (r + i - 1) % Capacity = At(r, i - 1)
    OBVIOUS
  <2>1. i - 1 \in Nat /\ i - 1 <= Capacity /\ r + i - 1 = r + (i - 1)
    BY <1>6
  <2> QED BY <2>1, Moved DEF Move
<1> QED BY <1>7, <1>8 DEF Row

(***************************************************************************)
(* The bytes in the ring                                                   *)
(***************************************************************************)
\* What a write has to do: the bytes are there, the others unchanged.
IsWritten(Cells, new, mem, pos, bytes) ==
  /\ new \in [Positions -> Cells]
  /\ \A j \in 1 .. Len(bytes) : new[At(pos, j - 1)] = bytes[j]
  /\ \A p \in Positions : (\A j \in 1 .. Len(bytes) : p # At(pos, j - 1)) => new[p] = mem[p]

\* Put does it.
LEMMA Written ==
  ASSUME NEW Cells, NEW mem \in [Positions -> Cells], NEW pos \in Positions, NEW n \in 0 .. Capacity,
         NEW bytes \in Seq(Cells), Len(bytes) <= n, NEW b, b = Put(mem, Row(pos, n), bytes)
  PROVE  IsWritten(Cells, b, mem, pos, bytes)
<1> DEFINE m == Len(bytes)
<1>1. m \in Nat /\ DOMAIN bytes = 1 .. m /\ m <= n
  OBVIOUS
<1> HIDE DEF m
<1>2. \A i \in 1 .. m : Row(pos, n)[i] = At(pos, i - 1)
  BY <1>1 DEF Row
<1>3. b = [p \in Positions |->
            IF \E i \in 1 .. m : Row(pos, n)[i] = p
              THEN bytes[CHOOSE i \in 1 .. m : Row(pos, n)[i] = p] ELSE mem[p]]
  BY <1>1 DEF Put
<1>4. ASSUME NEW j \in 1 .. m PROVE b[At(pos, j - 1)] = bytes[j]
  <2>1. At(pos, j - 1) \in Positions
    <3>1. j - 1 \in 0 .. Capacity - 1
      BY <1>1
    <3> QED BY <3>1, AtDistinct
  <2>2. \A i \in 1 .. m : Row(pos, n)[i] = At(pos, j - 1) <=> i = j
    <3> SUFFICES ASSUME NEW i \in 1 .. m, At(pos, i - 1) = At(pos, j - 1) PROVE i = j
      BY <1>2
    <3>1. i - 1 \in 0 .. Capacity - 1 /\ j - 1 \in 0 .. Capacity - 1
      BY <1>1
    <3>2. i - 1 = j - 1
      BY <3>1, AtDistinct
    <3> QED BY <3>2, <1>1
  <2>3. (CHOOSE i \in 1 .. m : Row(pos, n)[i] = At(pos, j - 1)) = j
    BY <2>2
  <2>4. b[At(pos, j - 1)] = bytes[CHOOSE i \in 1 .. m : Row(pos, n)[i] = At(pos, j - 1)]
    BY <1>3, <2>1, <2>2
  <2> QED BY <2>3, <2>4
<1>5. ASSUME NEW p \in Positions, \A j \in 1 .. m : p # At(pos, j - 1) PROVE b[p] = mem[p]
  BY <1>2, <1>3, <1>5
<1>6. b \in [Positions -> Cells]
  <2>1. ASSUME NEW p \in Positions PROVE b[p] \in Cells
    <3>1. CASE \E j \in 1 .. m : p = At(pos, j - 1)
      <4>1. PICK j \in 1 .. m : p = At(pos, j - 1)
        BY <3>1
      <4>2. bytes[j] \in Cells
        BY <1>1
      <4> QED BY <1>4, <4>1, <4>2, Zenon
    <3>2. CASE \A j \in 1 .. m : p # At(pos, j - 1)
      BY <1>5, <3>2
    <3> QED BY <3>1, <3>2
  <2>2. b = [p \in Positions |-> b[p]]
    BY <1>3
  <2> QED BY <2>1, <2>2
<1> QED BY <1>4, <1>5, <1>6 DEF m, IsWritten

\* n bytes out of the ring, from a position on.
IsCopy(Cells, s, mem, pos, n) ==
  s \in Seq(Cells) /\ Len(s) = n /\ \A i \in 1 .. n : s[i] = mem[At(pos, i - 1)]

\* A memcpy in two parts, the second from the start of the ring.
Joined(mem, pos, d, e) == Copy(mem, pos, d) \o Copy(mem, 0, e)
\* Such a copy holds the bytes of a row.
LEMMA CopiedRow ==
  ASSUME NEW Cells, NEW mem \in [Positions -> Cells], NEW pos \in Positions,
         NEW d \in Nat, NEW e \in Nat, NEW n \in Nat, n = d + e,
         n <= Capacity, pos + d <= Capacity, d = n \/ pos + d = Capacity
  PROVE  IsCopy(Cells, Joined(mem, pos, d, e), mem, pos, n)
<1> DEFINE s == Copy(mem, pos, d)
           t == Copy(mem, 0, e)
<1>1. s \in Seq(Cells) /\ Len(s) = d /\ \A i \in 1 .. d : s[i] = mem[At(pos, i - 1)]
  <2>1. s = [i \in 1 .. d |-> mem[At(pos, i - 1)]]
    <3>1. \A i \in 1 .. d : pos + i - 1 = At(pos, i - 1)
      BY DEF At
    <3> QED BY <3>1 DEF Copy
  <2>2. \A i \in 1 .. d : mem[At(pos, i - 1)] \in Cells
    <3>1. \A i \in 1 .. d : At(pos, i - 1) \in Positions
      BY DEF At
    <3> QED BY <3>1, Zenon
  <2> HIDE DEF s
  <2> QED BY <2>1, <2>2
<1>2. t \in Seq(Cells) /\ Len(t) = e /\ \A i \in 1 .. e : t[i] = mem[At(pos, d + i - 1)]
  <2>1. t = [i \in 1 .. e |-> mem[At(pos, d + i - 1)]]
    <3>1. \A i \in 1 .. e : 0 + i - 1 = At(pos, d + i - 1)
      BY DEF At
    <3> QED BY <3>1 DEF Copy
  <2>2. \A i \in 1 .. e : mem[At(pos, d + i - 1)] \in Cells
    <3>1. \A i \in 1 .. e : At(pos, d + i - 1) \in Positions
      BY DEF At
    <3> QED BY <3>1, Zenon
  <2> HIDE DEF t
  <2> QED BY <2>1, <2>2
<1> HIDE DEF s, t
<1>3. s \o t \in Seq(Cells) /\ Len(s \o t) = n
  <2>1. s \in Seq(Cells) /\ t \in Seq(Cells)
    BY <1>1, <1>2
  <2>2. s \o t \in Seq(Cells) /\ Len(s \o t) = Len(s) + Len(t)
    BY <2>1
  <2> QED BY <1>1, <1>2, <2>2
<1>4. ASSUME NEW i \in 1 .. n PROVE (s \o t)[i] = mem[At(pos, i - 1)]
  <2>1. CASE i <= d
    BY <1>1, <1>2, <2>1
  <2>2. CASE i > d
    <3>1. i - d \in 1 .. e /\ d + (i - d) - 1 = i - 1
      BY <2>2
    <3>2. (s \o t)[i] = t[i - d]
      <4>1. s \in Seq(Cells) /\ t \in Seq(Cells) /\ Len(s) = d /\ Len(t) = e
        BY <1>1, <1>2
      <4> QED BY <2>2, <4>1, SMTT(60)
    <3>3. t[i - d] = mem[At(pos, d + (i - d) - 1)]
      BY <1>2, <3>1
    <3> QED BY <3>1, <3>2, <3>3, Zenon
  <2>3. i <= d \/ i > d
    OBVIOUS
  <2> QED BY <2>1, <2>2, <2>3, Zenon
<1>5. Joined(mem, pos, d, e) = s \o t
  BY DEF Joined, s, t
<1> QED BY <1>3, <1>4, <1>5 DEF IsCopy

\* A memcpy in one part.
LEMMA CopiedOnce ==
  ASSUME NEW Cells, NEW mem \in [Positions -> Cells], NEW pos \in Positions, NEW n \in Nat,
         pos + n <= Capacity
  PROVE  IsCopy(Cells, Copy(mem, pos, n), mem, pos, n)
<1> DEFINE s == Copy(mem, pos, n)
<1>1. s = [i \in 1 .. n |-> mem[At(pos, i - 1)]]
  <2>1. \A i \in 1 .. n : pos + i - 1 = At(pos, i - 1)
    BY DEF At
  <2> QED BY <2>1 DEF Copy
<1>2. \A i \in 1 .. n : mem[At(pos, i - 1)] \in Cells
  <2>1. \A i \in 1 .. n : At(pos, i - 1) \in Positions
    BY DEF At
  <2> QED BY <2>1, Zenon
<1> HIDE DEF s
<1>3. s \in Seq(Cells) /\ Len(s) = n /\ \A i \in 1 .. n : s[i] = mem[At(pos, i - 1)]
  BY <1>1, <1>2
<1> QED BY <1>3 DEF s, IsCopy

\* Peek reads the bytes from the front on.
LEMMA Peeked ==
  ASSUME NEW Cells, NEW mem \in [Positions -> Cells], NEW pos \in Positions, NEW n \in 0 .. Capacity
  PROVE  IsCopy(Cells, Peek(mem, pos, n), mem, pos, n)
<1>1. PICK d, e : d = Smaller(n, Capacity - pos) /\ e = n - d
  OBVIOUS
<1>2. /\ d \in Nat /\ e \in Nat /\ n \in Nat /\ n = d + e /\ n <= Capacity
      /\ pos + d <= Capacity /\ (d = n \/ pos + d = Capacity)
  BY <1>1 DEF Smaller
<1>3. Peek(mem, pos, n) = Joined(mem, pos, d, e)
  BY <1>1 DEF Peek, Joined
<1>4. IsCopy(Cells, Joined(mem, pos, d, e), mem, pos, n)
  BY <1>2, CopiedRow
<1> QED BY <1>3, <1>4, Zenon

\* A sequence cut in two is whole again.
LEMMA Rejoined ==
  ASSUME NEW Cells, NEW s \in Seq(Cells), NEW d \in 0 .. Len(s)
  PROVE  SubSeq(s, 1, d) \o SubSeq(s, d + 1, Len(s)) = s
<1> DEFINE t == SubSeq(s, 1, d)
           u == SubSeq(s, d + 1, Len(s))
           n == Len(s)
<1>0. n \in Nat /\ d \in Nat /\ d <= n
  OBVIOUS
<1>1. t \in Seq(Cells) /\ Len(t) = d /\ \A i \in 1 .. d : t[i] = s[i]
  OBVIOUS
<1>2. u \in Seq(Cells) /\ Len(u) = n - d /\ \A i \in 1 .. n - d : u[i] = s[d + i]
  OBVIOUS
<1> HIDE DEF t, u, n
<1>3. t \o u \in Seq(Cells) /\ Len(t \o u) = n
  <2>1. t \in Seq(Cells) /\ u \in Seq(Cells)
    BY <1>1, <1>2
  <2>2. t \o u \in Seq(Cells) /\ Len(t \o u) = Len(t) + Len(u)
    BY <2>1
  <2> QED BY <1>0, <1>1, <1>2, <2>2
<1>4. ASSUME NEW i \in 1 .. n PROVE (t \o u)[i] = s[i]
  <2>1. CASE i <= d
    BY <1>0, <1>1, <1>2, <2>1
  <2>2. CASE i > d
    <3>1. i - d \in 1 .. n - d /\ d + (i - d) = i
      BY <1>0, <2>2
    <3>2. (t \o u)[i] = u[i - d]
      BY <1>0, <1>1, <1>2, <2>2, SMTT(60)
    <3>3. u[i - d] = s[d + (i - d)]
      BY <1>2, <3>1
    <3> QED BY <3>1, <3>2, <3>3, Zenon
  <2>3. i <= d \/ i > d
    BY <1>0
  <2> QED BY <2>1, <2>2, <2>3, Zenon
<1>5. t \o u = s
  BY <1>3, <1>4, SameSeq DEF n
<1> QED BY <1>5 DEF t, u, n

\* Enqueue writes the bytes to the positions from the rear on.
LEMMA EnqueuedRow ==
  ASSUME NEW Cells, NEW mem, NEW pos \in Positions, NEW bytes \in Seq(Cells), Len(bytes) <= Capacity
  PROVE  Enqueue(mem, pos, bytes) = Put(mem, Row(pos, Len(bytes)), bytes)
<1> DEFINE n == Len(bytes)
           d == Smaller(n, Capacity - pos)
<1>0. n \in Nat /\ n <= Capacity
  OBVIOUS
<1>1. d \in Nat /\ d <= n /\ d \in 0 .. n /\ pos + d <= Capacity /\ (d = n \/ pos + d = Capacity)
  BY DEF Smaller
<1>2. d + 1 + n - d - 1 = n
  BY <1>0, <1>1
<1>3. Enqueue(mem, pos, bytes)
      = Put(mem, Order(<< <<pos, d>>, <<0, n - d>> >>),
            SubSeq(bytes, 1, d) \o SubSeq(bytes, d + 1, d + 1 + n - d - 1))
  BY DEF Enqueue, EnqueueFrom
<1> HIDE DEF d
<1>4. SubSeq(bytes, 1, d) \o SubSeq(bytes, d + 1, n) = bytes
  BY <1>1, Rejoined
<1>5. Order(<< <<pos, d>>, <<0, n - d>> >>) = Row(pos, n)
  <2> HIDE DEF n
  <2> QED BY <1>0, <1>1, TwoRegions
<1> QED BY <1>2, <1>3, <1>4, <1>5, Zenon

(***************************************************************************)
(* The inductive invariant of the bytes of a session                       *)
(***************************************************************************)
\* n bytes of the ring, from a position on, are those of the stream after the
\* first k
Holds(mem, pos, n, bytes, k) == \A j \in 1 .. n : mem[At(pos, j - 1)] = bytes[k + j]

rUse   == UseSize(rFront, rRear)
sUse   == UseSize(sFront, sRear)
\* bytes received, their completion not yet handled; bytes handled
Coming == IF state = "done" THEN cbTransferred ELSE 0
Echoed == Len(received) + sUse

\* Every variable has its type.
Types ==
  /\ rFront \in Positions /\ rRear \in Positions /\ sFront \in Positions /\ sRear \in Positions
  /\ rBuf \in [Positions -> Int] /\ sBuf \in [Positions -> Int]
  /\ state \in {"posted", "done", "loop"} /\ sendFlag \in {0, 1}
  /\ cbTransferred \in 0 .. Capacity - 1
  /\ stream \in Seq(Int) /\ toServer \in Seq(Int) /\ received \in Seq(Int)

\* Every byte sent is on its way, in one of the rings, or back.  The client's
\* window bounds what there is, and a loop leaves less than a message.
Amounts ==
  /\ rUse + Coming <= Capacity - 1
  /\ Echoed + rUse + Coming + Len(toServer) = Len(stream)
  /\ Len(stream) <= Len(received) + Window * MessageSize
  /\ state = "posted" => rUse < MessageSize

\* Each is where it should be.
Bytes ==
  /\ \A j \in 1 .. Len(received) : received[j] = stream[j]
  /\ Holds(sBuf, sFront, sUse, stream, Len(received))
  /\ Holds(rBuf, rFront, rUse + Coming, stream, Echoed)
  /\ \A j \in 1 .. Len(toServer) : toServer[j] = stream[Echoed + rUse + Coming + j]

\* Messages begin after the first b bytes, for b in starts, and the next one to
\* be handled is one of these or yet to be sent.
Heads(starts) ==
  /\ Len(stream) \in starts /\ Echoed \in starts
  /\ \A b \in starts :
       /\ b \in Nat /\ b <= Len(stream)
       /\ b # Len(stream) => /\ b + MessageSize \in starts
                             /\ stream[b + 1] = PayloadSize /\ stream[b + 2] = 0

\* What WSASend was lent are the first bytes in the send ring.
Lent == lent # <<>> => \E n \in 1 .. sUse : Order(lent) = Row(sFront, n)

\* The invariant for a given set of starts.
Good(starts) == Types /\ Amounts /\ Bytes /\ Heads(starts) /\ Lent
\* The inductive invariant.
IInv == \E starts : Good(starts)

\* What is known of the constants: no more arithmetic of theirs is needed.
LEMMA Constants ==
  /\ PayloadSize \in Nat /\ MessageSize \in Nat /\ MessageSize = 2 + PayloadSize
  /\ MessageSize < Capacity
  /\ Window * MessageSize \in Nat /\ Window * MessageSize < Capacity
  BY SizesAssumption DEF SizesAssumption, MessageSize, HeaderSize

\* The numbers in the invariant are naturals.
LEMMA Numbers ==
  ASSUME Types
  PROVE  /\ rUse \in 0 .. Capacity - 1 /\ sUse \in 0 .. Capacity - 1
         /\ Coming \in Nat /\ Echoed \in Nat /\ Echoed = Len(received) + sUse
         /\ Len(received) \in Nat /\ Len(stream) \in Nat /\ Len(toServer) \in Nat
         /\ FreeSize(rFront, rRear) = Capacity - 1 - rUse
         /\ FreeSize(sFront, sRear) = Capacity - 1 - sUse
<1>1. rUse \in 0 .. Capacity - 1 /\ sUse \in 0 .. Capacity - 1
  BY Sizes DEF Types, rUse, sUse
<1>2. FreeSize(rFront, rRear) = Capacity - 1 - rUse /\ FreeSize(sFront, sRear) = Capacity - 1 - sUse
  BY DEF FreeSize, rUse, sUse
<1>3. Len(received) \in Nat /\ Len(stream) \in Nat /\ Len(toServer) \in Nat
  BY DEF Types
<1>4. Coming \in Nat
  BY DEF Types, Coming
<1> QED BY <1>1, <1>2, <1>3, <1>4 DEF Echoed

\* What a sequence holds when another is put behind it.
LEMMA Appended ==
  ASSUME NEW s \in Seq(Int), NEW t \in Seq(Int)
  PROVE  /\ s \o t \in Seq(Int) /\ Len(s \o t) = Len(s) + Len(t)
         /\ \A i \in 1 .. Len(s) : (s \o t)[i] = s[i]
         /\ \A j \in 1 .. Len(t) : (s \o t)[Len(s) + j] = t[j]
  OBVIOUS

\* A header in the ring says how long the rest of a message is.
LEMMA HeaderRead ==
  ASSUME NEW starts, Types, Amounts, Bytes, Heads(starts), rUse >= HeaderSize
  PROVE  /\ Size = PayloadSize /\ Echoed # Len(stream)
         /\ stream[Echoed + 1] = PayloadSize /\ stream[Echoed + 2] = 0
<1> DEFINE h == Peek(rBuf, rFront, HeaderSize)
<1>1. HeaderSize = 2 /\ 2 <= Capacity /\ rUse >= 2
  BY Constants DEF HeaderSize
<1>2. h[1] = rBuf[At(rFront, 0)] /\ h[2] = rBuf[At(rFront, 1)]
  <2>1. rFront \in Positions /\ HeaderSize \in 0 .. Capacity /\ rBuf \in [Positions -> Int]
    BY <1>1 DEF Types
  <2>2. IsCopy(Int, h, rBuf, rFront, HeaderSize)
    BY <2>1, Peeked
  <2>3. 1 \in 1 .. HeaderSize /\ 2 \in 1 .. HeaderSize /\ 1 - 1 = 0 /\ 2 - 1 = 1
    BY <1>1
  <2> HIDE DEF h
  <2> QED BY <2>2, <2>3 DEF IsCopy
<1>3. Echoed # Len(stream)
  <2>1. Echoed + rUse + Coming + Len(toServer) = Len(stream)
    BY DEF Amounts
  <2>2. rUse \in Nat /\ Coming \in Nat /\ Echoed \in Nat /\ Len(toServer) \in Nat
    BY Numbers
  <2> HIDE DEF rUse, Coming, Echoed
  <2> QED BY <1>1, <2>1, <2>2
<1>4. stream[Echoed + 1] = PayloadSize /\ stream[Echoed + 2] = 0
  BY <1>3 DEF Heads
<1>5. rBuf[At(rFront, 0)] = stream[Echoed + 1] /\ rBuf[At(rFront, 1)] = stream[Echoed + 2]
  <2>1. 1 \in 1 .. rUse + Coming /\ 2 \in 1 .. rUse + Coming /\ 1 - 1 = 0 /\ 2 - 1 = 1
    BY <1>1, Numbers
  <2>2. \A j \in 1 .. rUse + Coming : rBuf[At(rFront, j - 1)] = stream[Echoed + j]
    BY DEF Bytes, Holds
  <2> QED BY <2>1, <2>2
<1>6. Size = h[1] + 256 * h[2]
  BY DEF Size
<1> HIDE DEF h
<1>7. Size = PayloadSize
  BY <1>2, <1>4, <1>5, <1>6, Constants
<1> QED BY <1>3, <1>4, <1>7

\* The loop has left less than a message, so there is room to receive.
LEMMA StepRecvPost ==
  ASSUME NEW starts, Good(starts), RecvPost
  PROVE  Good(starts)'
<1>1. /\ state = "loop" /\ ~Complete /\ state' = "posted"
      /\ UNCHANGED <<rFront, rRear, rBuf, cbTransferred, sFront, sRear, sBuf, sendFlag, lent,
                     stream, toServer, received>>
  BY DEF RecvPost, sendVars, clientVars
<1>2. Types /\ Types'
  BY <1>1 DEF Good, Types
<1>3. rUse' = rUse /\ sUse' = sUse /\ Echoed' = Echoed /\ Coming = 0 /\ Coming' = 0
  BY <1>1 DEF rUse, sUse, Echoed, Coming
<1>4. rUse < MessageSize
  <2> SUFFICES ASSUME rUse >= MessageSize PROVE FALSE
    BY <1>2, Numbers, Constants
  <2>1. rUse >= HeaderSize /\ rUse >= HeaderSize + PayloadSize
    BY <1>2, Numbers, Constants DEF HeaderSize
  <2>2. Size = PayloadSize
    BY <1>2, <2>1, HeaderRead DEF Good
  <2> QED BY <1>1, <2>1, <2>2 DEF Complete, rUse
<1>5. Amounts'
  BY <1>1, <1>3, <1>4 DEF Good, Amounts
<1>6. Bytes' /\ Heads(starts)' /\ Lent'
  BY <1>1, <1>3 DEF Good, Bytes, Heads, Lent
<1> QED BY <1>2, <1>5, <1>6 DEF Good

\* Bytes written behind those in use, of which they are the continuation.
LEMMA Extended ==
  ASSUME NEW mem \in [Positions -> Int], NEW f \in Positions, NEW r \in Positions,
         NEW n \in 0 .. Capacity, NEW bytes \in Seq(Int), Len(bytes) <= n,
         Len(bytes) <= FreeSize(f, r), NEW all, NEW k \in Nat,
         Holds(mem, f, UseSize(f, r), all, k),
         \A j \in 1 .. Len(bytes) : bytes[j] = all[k + UseSize(f, r) + j]
  PROVE  /\ Put(mem, Row(r, n), bytes) \in [Positions -> Int]
         /\ Holds(Put(mem, Row(r, n), bytes), f, UseSize(f, r) + Len(bytes), all, k)
<1>1. PICK b, u, m : b = Put(mem, Row(r, n), bytes) /\ u = UseSize(f, r) /\ m = Len(bytes)
  OBVIOUS
<1>2. u \in Nat /\ m \in Nat /\ u + m <= Capacity - 1 /\ r = At(f, u)
  <2>1. UseSize(f, r) \in 0 .. Capacity - 1 /\ FreeSize(f, r) = Capacity - 1 - UseSize(f, r)
        /\ r = At(f, UseSize(f, r))
    BY Sizes
  <2>2. m \in Nat /\ u \in 0 .. Capacity - 1 /\ m <= Capacity - 1 - u
    BY <1>1, <2>1
  <2> QED BY <1>1, <2>1, <2>2
<1>3. /\ b \in [Positions -> Int]
      /\ \A j \in 1 .. m : b[At(r, j - 1)] = bytes[j]
      /\ \A p \in Positions : (\A j \in 1 .. m : p # At(r, j - 1)) => b[p] = mem[p]
  <2>1. b = Put(mem, Row(r, n), bytes) /\ Len(bytes) = m
    BY <1>1
  <2>0. Len(bytes) <= n
    OBVIOUS
  <2>2. IsWritten(Int, b, mem, r, bytes)
    BY <2>0, <2>1, Written
  <2> QED BY <2>1, <2>2 DEF IsWritten
<1>4. ASSUME NEW j \in 1 .. m PROVE At(r, j - 1) = At(f, u + (j - 1))
  <2>1. j - 1 \in Nat /\ u + (j - 1) <= Capacity
    BY <1>2
  <2> QED BY <1>2, <2>1, AtMoved
<1>5. ASSUME NEW j \in 1 .. u + m PROVE b[At(f, j - 1)] = all[k + j]
  <2>1. j - 1 \in 0 .. Capacity - 1 /\ At(f, j - 1) \in Positions
    <3>1. j - 1 \in 0 .. Capacity - 1
      BY <1>2
    <3> QED BY <3>1, AtDistinct
  <2>2. CASE j <= u
    <3>1. ASSUME NEW i \in 1 .. m PROVE At(f, j - 1) # At(r, i - 1)
      <4>1. u + (i - 1) \in 0 .. Capacity - 1 /\ u + (i - 1) # j - 1
        BY <1>2, <2>2
      <4>2. At(f, u + (i - 1)) # At(f, j - 1)
        BY <2>1, <4>1, AtDistinct
      <4> QED BY <1>4, <4>2
    <3>2. b[At(f, j - 1)] = mem[At(f, j - 1)]
      BY <1>3, <2>1, <3>1
    <3>3. j \in 1 .. u
      BY <1>2, <2>2
    <3> QED BY <1>1, <3>2, <3>3 DEF Holds
  <2>3. CASE j > u
    <3>1. PICK i \in 1 .. m : j = u + i
      <4>1. u \in Nat /\ m \in Nat
        BY <1>2
      <4>2. j - u \in 1 .. m /\ j = u + (j - u)
        BY <2>3, <4>1
      <4> QED BY <4>2
    <3>2. u + (i - 1) = j - 1 /\ k + j = k + u + i
      BY <1>2, <3>1, SMTT(60)
    <3>3. b[At(f, j - 1)] = bytes[i]
      BY <1>3, <1>4, <3>2
    <3>4. bytes[i] = all[k + u + i]
      BY <1>1
    <3> QED BY <3>2, <3>3, <3>4
  <2> QED BY <1>2, <2>2, <2>3
<1>6. Holds(b, f, u + m, all, k)
  BY <1>5 DEF Holds
<1> QED BY <1>1, <1>3, <1>6

\* The bytes received come into use.
LEMMA StepCompleted ==
  ASSUME NEW starts, Good(starts), Completed
  PROVE  Good(starts)'
<1>1. /\ state = "done" /\ state' = "loop" /\ rRear' = Move(rRear, cbTransferred)
      /\ UNCHANGED <<rFront, rBuf, cbTransferred, sFront, sRear, sBuf, sendFlag, lent,
                     stream, toServer, received>>
  BY DEF Completed, sendVars, clientVars
<1>2. Types /\ Amounts /\ Coming = cbTransferred /\ cbTransferred \in Nat /\ Coming' = 0
  BY <1>1 DEF Good, Types, Coming
<1>3. sUse' = sUse /\ Echoed' = Echoed
  BY <1>1 DEF sUse, Echoed
<1>4. rRear' \in Positions /\ rUse' = rUse + Coming
  <2>1. rFront \in Positions /\ rRear \in Positions /\ rFront' = rFront
    BY <1>1, <1>2 DEF Types
  <2>2. cbTransferred <= FreeSize(rFront, rRear)
    <3>1. rUse + Coming <= Capacity - 1
      BY <1>2 DEF Amounts
    <3>2. rUse \in Nat /\ FreeSize(rFront, rRear) = Capacity - 1 - rUse
      BY <1>2, Numbers
    <3> HIDE DEF rUse
    <3> QED BY <1>2, <3>1, <3>2
  <2>3. rRear' \in Positions /\ UseSize(rFront, rRear') = UseSize(rFront, rRear) + cbTransferred
    BY <1>1, <1>2, <2>1, <2>2, RearMoves
  <2> QED BY <1>2, <2>1, <2>3 DEF rUse
<1>5. Types'
  BY <1>1, <1>2, <1>4 DEF Types
<1>6. rUse' + Coming' = rUse + Coming
  <2>1. rUse \in Nat /\ Coming \in Nat
    BY <1>2, Numbers
  <2> QED BY <1>2, <1>4, <2>1
<1>7. Amounts'
  <2>1. Echoed \in Nat /\ rUse \in Nat /\ Coming \in Nat /\ Len(toServer) \in Nat
    BY <1>2, Numbers
  <2> QED BY <1>1, <1>2, <1>3, <1>4, <2>1 DEF Amounts
<1>8. Bytes'
  <2>1. \A j \in 1 .. Len(toServer) : Echoed + rUse + Coming + j = Echoed + rUse' + Coming' + j
    <3>1. Echoed \in Nat /\ rUse \in Nat /\ Coming \in Nat /\ Len(toServer) \in Nat
      BY <1>2, Numbers
    <3> QED BY <1>2, <1>4, <3>1
  <2> QED BY <1>1, <1>3, <1>6, <2>1 DEF Good, Bytes
<1>9. Heads(starts)' /\ Lent'
  BY <1>1, <1>3 DEF Good, Heads, Lent
<1> QED BY <1>5, <1>7, <1>8, <1>9 DEF Good

\* Bytes come in, behind those in use.
LEMMA StepReceive ==
  ASSUME NEW starts, Good(starts), Receive
  PROVE  Good(starts)'
<1> DEFINE room == Order(SetRecvWsabufs(rFront, rRear))
<1>1. PICK k \in 1 .. Smaller(Len(room), Len(toServer)) :
        /\ rBuf' = Put(rBuf, room, SubSeq(toServer, 1, k))
        /\ toServer' = SubSeq(toServer, k + 1, Len(toServer))
        /\ cbTransferred' = k
  BY DEF Receive
<1>2. /\ state = "posted" /\ state' = "done"
      /\ UNCHANGED <<rFront, rRear, sFront, sRear, sBuf, sendFlag, lent, stream, received>>
  BY DEF Receive, sendVars
<1>3. Types /\ Amounts /\ Bytes /\ Coming = 0 /\ Coming' = k
  BY <1>1, <1>2 DEF Good, Coming
<1>4. rUse' = rUse /\ sUse' = sUse /\ Echoed' = Echoed
  BY <1>2 DEF rUse, sUse, Echoed
<1>5. PICK n : n = FreeSize(rFront, rRear)
  OBVIOUS
<1>6. n \in 0 .. Capacity - 1 /\ room = Row(rRear, n) /\ Len(room) = n /\ n = Capacity - 1 - rUse
  <2>1. n \in 0 .. Capacity - 1 /\ n = Capacity - 1 - rUse
    BY <1>3, <1>5, Numbers, Sizes DEF Types
  <2>2. room = Row(rRear, n)
    BY <1>3, <1>5, RecvRow DEF Types
  <2> QED BY <2>1, <2>2 DEF Row
<1> HIDE DEF room
<1>7. k \in Nat /\ k >= 1 /\ k <= n /\ k <= Len(toServer) /\ Len(toServer) \in Nat
  <2>1. Len(toServer) \in Nat
    BY <1>3, Numbers
  <2> QED BY <1>6, <2>1 DEF Smaller
<1>0. toServer \in Seq(Int)
  BY <1>3 DEF Types
<1>8. /\ SubSeq(toServer, 1, k) \in Seq(Int) /\ Len(SubSeq(toServer, 1, k)) = k
      /\ \A j \in 1 .. k : SubSeq(toServer, 1, k)[j] = toServer[j]
      /\ toServer' \in Seq(Int) /\ Len(toServer') = Len(toServer) - k
      /\ \A j \in 1 .. Len(toServer) - k : toServer'[j] = toServer[k + j]
  <2>1. PICK s : s = SubSeq(toServer, k + 1, Len(toServer))
    OBVIOUS
  <2>2. PICK len \in Nat : len = Len(toServer) /\ k <= len
    BY <1>7
  <2>3. /\ SubSeq(toServer, 1, k) \in Seq(Int) /\ Len(SubSeq(toServer, 1, k)) = k
        /\ \A j \in 1 .. k : SubSeq(toServer, 1, k)[j] = toServer[j]
    BY <1>0, <1>7, <2>2
  <2>4. /\ s \in Seq(Int) /\ Len(s) = len - k
        /\ \A j \in 1 .. len - k : s[j] = toServer[k + j]
    BY <1>0, <1>7, <2>1, <2>2
  <2>5. toServer' = s
    BY <1>1, <2>1
  <2> QED BY <2>2, <2>3, <2>4, <2>5, Zenon
<1>9. /\ Echoed \in Nat /\ rUse \in Nat /\ Len(received) \in Nat /\ Len(stream) \in Nat
      /\ Len(toServer) \in Nat
  BY <1>3, Numbers
<1>10. rBuf' \in [Positions -> Int] /\ Holds(rBuf', rFront, rUse + k, stream, Echoed)
  <2>1. PICK bytes : bytes = SubSeq(toServer, 1, k)
    OBVIOUS
  <2>2. /\ rBuf \in [Positions -> Int] /\ rFront \in Positions /\ rRear \in Positions
        /\ n \in 0 .. Capacity /\ bytes \in Seq(Int) /\ Len(bytes) = k /\ k <= n
        /\ rBuf' = Put(rBuf, Row(rRear, n), bytes)
    <3>1. rBuf \in [Positions -> Int] /\ rFront \in Positions /\ rRear \in Positions
      BY <1>3 DEF Types
    <3>2. rBuf' = Put(rBuf, Row(rRear, n), bytes)
      BY <1>1, <1>6, <2>1
    <3>3. n \in 0 .. Capacity
      BY <1>6
    <3> QED BY <1>7, <1>8, <2>1, <3>1, <3>2, <3>3
  <2>3. Holds(rBuf, rFront, UseSize(rFront, rRear), stream, Echoed)
    <3>1. rUse + Coming = UseSize(rFront, rRear)
      BY <1>3, <1>9 DEF rUse
    <3> QED BY <1>3, <3>1 DEF Bytes
  <2>4. \A j \in 1 .. Len(bytes) : bytes[j] = stream[Echoed + UseSize(rFront, rRear) + j]
    <3> SUFFICES ASSUME NEW j \in 1 .. k PROVE toServer[j] = stream[Echoed + rUse + j]
      BY <1>8, <2>1, <2>2 DEF rUse
    <3>1. j \in 1 .. Len(toServer) /\ Echoed + rUse + Coming + j = Echoed + rUse + j
      BY <1>3, <1>7, <1>9
    <3> QED BY <1>3, <3>1 DEF Bytes
  <2>5. Put(rBuf, Row(rRear, n), bytes) \in [Positions -> Int]
        /\ Holds(Put(rBuf, Row(rRear, n), bytes), rFront, UseSize(rFront, rRear) + Len(bytes),
                 stream, Echoed)
    <3>1. Len(bytes) <= n /\ Len(bytes) <= FreeSize(rFront, rRear) /\ Echoed \in Nat
      BY <1>5, <1>9, <2>2
    <3> QED BY <2>2, <2>3, <2>4, <3>1, Extended
  <2> QED BY <2>2, <2>5 DEF rUse
<1>11. Types'
  <2>1. cbTransferred' \in 0 .. Capacity - 1
    BY <1>1, <1>6, <1>7
  <2> QED BY <1>2, <1>3, <1>8, <1>10, <2>1 DEF Types
<1>12. Amounts'
  <2>1. /\ Echoed + rUse + 0 + Len(toServer) = Len(stream)
        /\ Len(stream) <= Len(received) + Window * MessageSize
    BY <1>3 DEF Amounts
  <2>2. rUse + k <= Capacity - 1 /\ Echoed + rUse + k + (Len(toServer) - k) = Len(stream)
    BY <1>6, <1>7, <1>9, <2>1
  <2> QED BY <1>2, <1>3, <1>4, <1>8, <2>1, <2>2 DEF Amounts
<1>13. Bytes'
  <2>1. ASSUME NEW j \in 1 .. Len(toServer')
        PROVE  toServer'[j] = stream[Echoed + rUse + k + j]
    <3>1. k + j \in 1 .. Len(toServer) /\ Echoed + rUse + Coming + (k + j) = Echoed + rUse + k + j
      BY <1>3, <1>7, <1>8, <1>9
    <3>2. toServer[k + j] = stream[Echoed + rUse + Coming + (k + j)]
      BY <1>3, <3>1 DEF Bytes
    <3> QED BY <1>8, <3>1, <3>2
  <2> QED BY <1>2, <1>3, <1>4, <1>10, <2>1 DEF Bytes
<1>14. Heads(starts)' /\ Lent'
  BY <1>2, <1>4 DEF Good, Heads, Lent
<1> QED BY <1>11, <1>12, <1>13, <1>14 DEF Good

\* Another message starts at the end of the stream.
LEMMA StepClientSends ==
  ASSUME NEW starts, Good(starts), ClientSends
  PROVE  \E more : Good(more)'
<1>1. PICK id : id = Len(stream) \div MessageSize + 1
  OBVIOUS
<1>2. PICK message : message = <<PayloadSize, 0>> \o [k \in 1 .. PayloadSize |-> 16 * id + k]
  OBVIOUS
<1>3. /\ Len(stream) + MessageSize <= Len(received) + Window * MessageSize
      /\ stream' = stream \o message /\ toServer' = toServer \o message
      /\ UNCHANGED <<rFront, rRear, rBuf, state, cbTransferred, sFront, sRear, sBuf, sendFlag,
                     lent, received>>
  BY <1>1, <1>2 DEF ClientSends, recvVars, sendVars
<1>4. Types /\ Amounts /\ Bytes /\ Heads(starts)
  BY DEF Good
<1>5. /\ Echoed \in Nat /\ rUse \in Nat /\ Coming \in Nat /\ Len(toServer) \in Nat
      /\ Len(stream) \in Nat /\ Len(received) \in Nat /\ Echoed = Len(received) + sUse /\ sUse \in Nat
  BY <1>4, Numbers
<1>6. /\ message \in Seq(Int) /\ Len(message) = MessageSize
      /\ message[1] = PayloadSize /\ message[2] = 0
  <2>1. id \in Int
    BY <1>1, <1>5, Constants
  <2>2. PICK rest : rest = [k \in 1 .. PayloadSize |-> 16 * id + k]
    OBVIOUS
  <2>3. rest \in Seq(Int) /\ Len(rest) = PayloadSize
    BY <2>1, <2>2, Constants
  <2>4. <<PayloadSize, 0>> \in Seq(Int) /\ Len(<<PayloadSize, 0>>) = 2
    BY Constants
  <2> QED BY <1>2, <2>2, <2>3, <2>4, Constants, Appended
<1>7. /\ stream' \in Seq(Int) /\ Len(stream') = Len(stream) + MessageSize
      /\ \A i \in 1 .. Len(stream) : stream'[i] = stream[i]
      /\ \A j \in 1 .. MessageSize : stream'[Len(stream) + j] = message[j]
  <2>1. stream \in Seq(Int)
    BY <1>4 DEF Types
  <2> QED BY <1>3, <1>6, <2>1, Appended
<1>8. /\ toServer' \in Seq(Int) /\ Len(toServer') = Len(toServer) + MessageSize
      /\ \A i \in 1 .. Len(toServer) : toServer'[i] = toServer[i]
      /\ \A j \in 1 .. MessageSize : toServer'[Len(toServer) + j] = message[j]
  <2>1. toServer \in Seq(Int)
    BY <1>4 DEF Types
  <2> QED BY <1>3, <1>6, <2>1, Appended
<1>9. rUse' = rUse /\ sUse' = sUse /\ Echoed' = Echoed /\ Coming' = Coming
  BY <1>3 DEF rUse, sUse, Echoed, Coming
<1>10. Types'
  BY <1>3, <1>4, <1>7, <1>8 DEF Types
<1>11. Amounts'
  <2>1. /\ rUse + Coming <= Capacity - 1 /\ Echoed + rUse + Coming + Len(toServer) = Len(stream)
        /\ state = "posted" => rUse < MessageSize
    BY <1>4 DEF Amounts
  <2>2. Echoed + rUse + Coming + (Len(toServer) + MessageSize) = Len(stream) + MessageSize
    BY <1>5, <2>1, Constants
  <2>3. Len(stream') <= Len(received) + Window * MessageSize
    BY <1>3, <1>7
  <2> QED BY <1>3, <1>7, <1>8, <1>9, <2>1, <2>2, <2>3 DEF Amounts
<1>12. Bytes'
  <2>0. Echoed + rUse + Coming + Len(toServer) = Len(stream)
    BY <1>4 DEF Amounts
  <2>1. \A j \in 1 .. Len(received) : received[j] = stream'[j]
    <3> SUFFICES ASSUME NEW j \in 1 .. Len(received) PROVE received[j] = stream'[j]
      OBVIOUS
    <3>1. j \in 1 .. Len(stream)
      BY <1>5, <2>0
    <3> QED BY <1>4, <1>7, <3>1 DEF Bytes
  <2>2. Holds(sBuf, sFront, sUse, stream', Len(received))
    <3> SUFFICES ASSUME NEW j \in 1 .. sUse
                 PROVE  sBuf[At(sFront, j - 1)] = stream'[Len(received) + j]
      BY DEF Holds
    <3>1. Len(received) + j \in 1 .. Len(stream)
      BY <1>5, <2>0
    <3> QED BY <1>4, <1>7, <3>1 DEF Bytes, Holds
  <2>3. Holds(rBuf, rFront, rUse + Coming, stream', Echoed)
    <3> SUFFICES ASSUME NEW j \in 1 .. rUse + Coming
                 PROVE  rBuf[At(rFront, j - 1)] = stream'[Echoed + j]
      BY DEF Holds
    <3>1. Echoed + j \in 1 .. Len(stream)
      BY <1>5, <2>0
    <3> QED BY <1>4, <1>7, <3>1 DEF Bytes, Holds
  <2>4. ASSUME NEW j \in 1 .. Len(toServer')
        PROVE  toServer'[j] = stream'[Echoed + rUse + Coming + j]
    <3>1. CASE j \in 1 .. Len(toServer)
      <4>1. Echoed + rUse + Coming + j \in 1 .. Len(stream)
        BY <1>5, <2>0, <3>1
      <4> QED BY <1>4, <1>7, <1>8, <3>1, <4>1 DEF Bytes
    <3>2. CASE j \notin 1 .. Len(toServer)
      <4>1. PICK i \in 1 .. MessageSize : j = Len(toServer) + i
        <5>1. j - Len(toServer) \in 1 .. MessageSize /\ j = Len(toServer) + (j - Len(toServer))
          BY <1>5, <1>8, <3>2, Constants
        <5> QED BY <5>1
      <4>2. Echoed + rUse + Coming + j = Len(stream) + i
        BY <1>5, <2>0, <4>1
      <4> QED BY <1>7, <1>8, <4>1, <4>2
    <3> QED BY <3>1, <3>2
  <2> QED BY <1>3, <1>9, <2>1, <2>2, <2>3, <2>4 DEF Bytes
<1>13. PICK more : more = starts \cup {Len(stream) + MessageSize}
  OBVIOUS
<1>14. Heads(more)'
  <2>1. Len(stream') \in more /\ Echoed' \in more
    BY <1>4, <1>7, <1>9, <1>13 DEF Heads
  <2>2. ASSUME NEW b \in more
        PROVE  /\ b \in Nat /\ b <= Len(stream')
               /\ b # Len(stream') => /\ b + MessageSize \in more
                                      /\ stream'[b + 1] = PayloadSize /\ stream'[b + 2] = 0
    <3>1. CASE b = Len(stream')
      BY <1>5, <1>7, <3>1, Constants
    <3>2. CASE b = Len(stream)
      <4>1. 1 \in 1 .. MessageSize /\ 2 \in 1 .. MessageSize
        BY Constants
      <4> QED BY <1>5, <1>6, <1>7, <1>13, <3>2, <4>1, Constants
    <3>3. CASE b # Len(stream) /\ b # Len(stream')
      <4>1. b \in starts
        BY <1>7, <1>13, <3>3
      <4>2. /\ b \in Nat /\ b <= Len(stream) /\ b + MessageSize \in starts
            /\ stream[b + 1] = PayloadSize /\ stream[b + 2] = 0
        BY <1>4, <3>3, <4>1 DEF Heads
      <4>3. b + MessageSize <= Len(stream)
        BY <1>4, <4>2 DEF Heads
      <4>4. b + 1 \in 1 .. Len(stream) /\ b + 2 \in 1 .. Len(stream) /\ b <= Len(stream')
        <5>1. /\ b \in Nat /\ b <= Len(stream) /\ b + MessageSize <= Len(stream)
              /\ Len(stream) \in Nat /\ Len(stream') = Len(stream) + MessageSize
          BY <1>5, <1>7, <4>2, <4>3
        <5>2. MessageSize \in Nat /\ MessageSize >= 2
          BY Constants
        <5> QED BY <5>1, <5>2
      <4>5. stream'[b + 1] = stream[b + 1] /\ stream'[b + 2] = stream[b + 2]
        BY <1>7, <4>4
      <4> QED BY <1>13, <4>2, <4>4, <4>5
    <3> QED BY <3>1, <3>2, <3>3
  <2> QED BY <2>1, <2>2 DEF Heads
<1>15. Lent'
  BY <1>3, <1>9 DEF Good, Lent
<1>16. Good(more)'
  BY <1>10, <1>11, <1>12, <1>14, <1>15 DEF Good
<1> QED BY <1>16

\* What a receiver gets out of the ring, in one memcpy or in two.
LEMMA DequeuedRow ==
  ASSUME NEW Cells, NEW mem \in [Positions -> Cells], NEW f \in Positions, NEW r \in Positions,
         NEW n \in Nat, n <= UseSize(f, r),
         NEW d, d = DirectDequeueSize(f, r), NEW s,
         s = IF d < n THEN Copy(mem, f, d) \o Copy(mem, Move(f, d), n - d) ELSE Copy(mem, f, n)
  PROVE  IsCopy(Cells, s, mem, f, n)
<1>1. /\ d \in Nat /\ n <= Capacity /\ f + d <= Capacity
      /\ d < n => f + d = Capacity
  BY SMTT(30) DEF DirectDequeueSize, UseSize
<1>2. CASE d < n
  <2>1. Move(f, d) = 0
    <3>1. Move(f, d) = At(f, d)
      BY <1>1, <1>2, Moved
    <3> QED BY <1>1, <1>2, <3>1 DEF At
  <2>2. PICK e : e = n - d
    OBVIOUS
  <2>3. e \in Nat /\ n = d + e /\ f + d = Capacity
    BY <1>1, <1>2, <2>2
  <2>4. s = Joined(mem, f, d, e)
    BY <1>2, <2>1, <2>2 DEF Joined
  <2>5. IsCopy(Cells, Joined(mem, f, d, e), mem, f, n)
    BY <1>1, <2>3, CopiedRow
  <2> QED BY <2>4, <2>5, Zenon
<1>3. CASE ~(d < n)
  <2>1. f + n <= Capacity /\ s = Copy(mem, f, n)
    BY <1>1, <1>3
  <2>2. IsCopy(Cells, Copy(mem, f, n), mem, f, n)
    BY <2>1, CopiedOnce
  <2> QED BY <2>1, <2>2, Zenon
<1> QED BY <1>2, <1>3

\* one sequence behind another
IsJoin(s, t, u) ==
  /\ s \in Seq(Int) /\ Len(s) = Len(t) + Len(u)
  /\ \A i \in 1 .. Len(t) : s[i] = t[i]
  /\ \A j \in 1 .. Len(u) : s[Len(t) + j] = u[j]
\* The concatenation is one.
LEMMA JoinIs ==
  ASSUME NEW s, NEW t \in Seq(Int), NEW u \in Seq(Int), s = t \o u
  PROVE  IsJoin(s, t, u)
  BY Appended DEF IsJoin

\* The message echoed is the next one of the stream.
LEMMA MessageRead ==
  ASSUME NEW starts, Types, Amounts, Bytes, Heads(starts), Complete, state = "loop",
         NEW message, message = <<Size, 0>> \o Payload
  PROVE  /\ Size = PayloadSize /\ rUse >= MessageSize /\ Echoed # Len(stream)
         /\ message \in Seq(Int) /\ Len(message) = MessageSize
         /\ \A j \in 1 .. MessageSize : message[j] = stream[Echoed + j]
<1>1. rUse >= HeaderSize /\ rUse >= HeaderSize + Size
  BY DEF Complete, rUse
<1>2. /\ Size = PayloadSize /\ Echoed # Len(stream)
      /\ stream[Echoed + 1] = PayloadSize /\ stream[Echoed + 2] = 0
  BY <1>1, HeaderRead
<1>3. rUse \in 0 .. Capacity - 1 /\ rUse >= 2 /\ rUse >= 2 + PayloadSize /\ PayloadSize \in Nat
      /\ MessageSize = 2 + PayloadSize /\ MessageSize \in Nat /\ Echoed \in Nat /\ Coming = 0
  BY <1>1, <1>2, Numbers, Constants DEF HeaderSize, Coming
<1>4. rFront \in Positions /\ rRear \in Positions /\ rBuf \in [Positions -> Int]
  BY DEF Types
<1>5. PICK start : start = Move(rFront, HeaderSize)
  OBVIOUS
<1>6. start \in Positions /\ start = At(rFront, 2) /\ UseSize(start, rRear) = rUse - 2
  <2>1. 2 \in Nat /\ 2 <= UseSize(rFront, rRear)
    BY <1>3 DEF rUse
  <2>2. start = Move(rFront, 2)
    BY <1>5 DEF HeaderSize
  <2> QED BY <1>4, <2>1, <2>2, FrontMoves DEF rUse
<1>7. PICK rest : rest = Payload
  OBVIOUS
<1>8. IsCopy(Int, rest, rBuf, start, PayloadSize)
  <2>1. PICK d : d = DirectDequeueSize(start, rRear)
    OBVIOUS
  <2>2. rest = IF d < PayloadSize
                 THEN Copy(rBuf, start, d) \o Copy(rBuf, Move(start, d), PayloadSize - d)
                 ELSE Copy(rBuf, start, PayloadSize)
    BY <1>2, <1>5, <1>7, <2>1 DEF Payload
  <2>3. PayloadSize <= UseSize(start, rRear)
    BY <1>3, <1>6
  <2>4. PayloadSize \in Nat
    BY <1>3
  <2> QED BY <1>4, <1>6, <2>1, <2>2, <2>3, <2>4, DequeuedRow
<1> USE DEF IsCopy
<1>9. ASSUME NEW i \in 1 .. PayloadSize PROVE rest[i] = stream[Echoed + (2 + i)]
  <2>1. At(start, i - 1) = At(rFront, 2 + (i - 1))
    <3>1. i - 1 \in Nat /\ 2 + (i - 1) <= Capacity
      BY <1>3
    <3> QED BY <1>4, <1>6, <3>1, AtMoved
  <2>2. 2 + i \in 1 .. rUse + Coming /\ 2 + (i - 1) = (2 + i) - 1
    BY <1>3
  <2>3. rBuf[At(rFront, (2 + i) - 1)] = stream[Echoed + (2 + i)]
    BY <2>2 DEF Bytes, Holds
  <2> QED BY <1>8, <2>1, <2>2, <2>3
<1>10. PICK head : head = <<Size, 0>>
  OBVIOUS
<1>11. head \in Seq(Int) /\ Len(head) = 2 /\ head[1] = PayloadSize /\ head[2] = 0
  BY <1>2, <1>3, <1>10
<1>12. message = head \o rest /\ head \in Seq(Int) /\ rest \in Seq(Int)
  BY <1>7, <1>8, <1>10, <1>11
<1>13. /\ message \in Seq(Int) /\ Len(message) = Len(head) + Len(rest)
       /\ \A i \in 1 .. Len(head) : message[i] = head[i]
       /\ \A j \in 1 .. Len(rest) : message[Len(head) + j] = rest[j]
  <2>1. IsJoin(message, head, rest)
    BY <1>12, JoinIs
  <2> QED BY <2>1 DEF IsJoin
<1>14. ASSUME NEW j \in 1 .. MessageSize PROVE message[j] = stream[Echoed + j]
  <2>1. CASE j = 1
    BY <1>2, <1>11, <1>13, <2>1
  <2>2. CASE j = 2
    BY <1>2, <1>11, <1>13, <2>2
  <2>3. CASE j > 2
    <3>1. PICK i \in 1 .. PayloadSize : j = 2 + i
      <4>1. j - 2 \in 1 .. PayloadSize /\ j = 2 + (j - 2)
        BY <1>3, <2>3
      <4> QED BY <4>1
    <3>2. message[2 + i] = rest[i]
      BY <1>8, <1>11, <1>13
    <3> QED BY <1>9, <3>1, <3>2
  <2>4. j = 1 \/ j = 2 \/ j > 2
    BY <1>3
  <2> QED BY <2>1, <2>2, <2>3, <2>4, Zenon
<1> QED BY <1>2, <1>3, <1>8, <1>11, <1>13, <1>14

\* What SendPost lends is the front of the send ring.
LEMMA Posted ==
  ASSUME NEW flag \in {0, 1}, NEW f \in Positions, NEW r \in Positions,
         SendPost(flag, f, r),
         flag = 1 /\ lent # <<>> => \E n \in 1 .. UseSize(f, r) : Order(lent) = Row(f, n)
  PROVE  /\ sendFlag' \in {0, 1}
         /\ lent' # <<>> => \E n \in 1 .. UseSize(f, r) : Order(lent') = Row(f, n)
<1>1. CASE flag = 1 /\ sendFlag' = 1 /\ UNCHANGED lent
  BY <1>1
<1>2. CASE sendFlag' = 0 /\ lent' = <<>>
  BY <1>2
<1>3. CASE UseSize(f, r) > 0 /\ sendFlag' = 1 /\ lent' = SetSendWsabufs(f, r)
  <2>1. Order(lent') = Row(f, UseSize(f, r))
    BY <1>3, SendRow
  <2>2. UseSize(f, r) \in 1 .. UseSize(f, r)
    <3>1. UseSize(f, r) \in 0 .. Capacity - 1
      BY Sizes
    <3>2. PICK n : n = UseSize(f, r)
      OBVIOUS
    <3>3. n \in 1 .. n
      BY <1>3, <3>1, <3>2
    <3> QED BY <3>2, <3>3
  <2> QED BY <1>3, <2>1, <2>2
<1> QED BY <1>1, <1>2, <1>3 DEF SendPost, SendPostOr

\* A message moves from the front of one ring to the rear of the other.
LEMMA StepHandleMessage ==
  ASSUME NEW starts, Good(starts), HandleMessage
  PROVE  Good(starts)'
<1>1. PICK message : message = <<Size, 0>> \o Payload /\ SendPacket(message)
  BY DEF HandleMessage
<1>2. /\ state = "loop" /\ Complete /\ rFront' = Move(Move(rFront, HeaderSize), Size)
      /\ UNCHANGED <<rRear, rBuf, state, cbTransferred, stream, toServer, received>>
  BY DEF HandleMessage, clientVars
<1>3. Types /\ Amounts /\ Bytes /\ Heads(starts) /\ Lent
  BY DEF Good
<1>4. /\ Size = PayloadSize /\ rUse >= MessageSize /\ Echoed # Len(stream)
      /\ message \in Seq(Int) /\ Len(message) = MessageSize
      /\ \A j \in 1 .. MessageSize : message[j] = stream[Echoed + j]
  BY <1>1, <1>2, <1>3, MessageRead
<1>5. /\ rUse \in 0 .. Capacity - 1 /\ sUse \in 0 .. Capacity - 1 /\ Echoed \in Nat
      /\ Echoed = Len(received) + sUse /\ Len(received) \in Nat /\ Len(toServer) \in Nat
      /\ Len(stream) \in Nat /\ FreeSize(sFront, sRear) = Capacity - 1 - sUse
      /\ MessageSize \in Nat /\ MessageSize = 2 + PayloadSize /\ PayloadSize \in Nat
      /\ Window * MessageSize \in Nat /\ Window * MessageSize < Capacity /\ Coming = 0
  BY <1>2, <1>3, Numbers, Constants DEF Coming
<1>6. Coming' = 0
  BY <1>2 DEF Coming
\* the client's window leaves room for it
<1>7. MessageSize <= FreeSize(sFront, sRear)
  <2>1. PICK w : w = Window * MessageSize
    OBVIOUS
  <2>2. Echoed + rUse + 0 + Len(toServer) = Len(stream) /\ Len(stream) <= Len(received) + w
    BY <1>3, <1>5, <2>1 DEF Amounts
  <2>3. w \in Nat /\ w < Capacity
    BY <1>5, <2>1
  <2> QED BY <1>4, <1>5, <2>2, <2>3, SMTT(60)
<1>8. /\ sBuf' = Put(sBuf, Row(sRear, MessageSize), message) /\ sRear' = Move(sRear, MessageSize)
      /\ SendPost(sendFlag, sFront, sRear') /\ sFront' = sFront
  <2>1. PICK stored : stored = SubSeq(message, 1, Smaller(FreeSize(sFront, sRear), Len(message)))
    OBVIOUS
  <2>2. stored = message
    <3>1. Smaller(FreeSize(sFront, sRear), Len(message)) = MessageSize
      <4>1. PICK free : free = FreeSize(sFront, sRear)
        OBVIOUS
      <4>2. MessageSize \in Nat /\ MessageSize <= free /\ free \in Int
        BY <1>5, <1>7, <4>1
      <4>3. Smaller(free, MessageSize) = MessageSize
        BY <4>2 DEF Smaller
      <4> QED BY <1>4, <4>1, <4>3
    <3>2. SubSeq(message, 1, Len(message)) = message
      BY <1>4
    <3> QED BY <1>4, <2>1, <3>1, <3>2, Zenon
  <2>3. /\ sBuf' = Enqueue(sBuf, sRear, message) /\ sRear' = Move(sRear, Len(message))
        /\ SendPost(sendFlag, sFront, sRear') /\ sFront' = sFront
    BY <1>1, <2>1, <2>2 DEF SendPacket
  <2>4. Enqueue(sBuf, sRear, message) = Put(sBuf, Row(sRear, Len(message)), message)
    <3>1. sRear \in Positions /\ Len(message) <= Capacity
      BY <1>3, <1>4, <1>5, <1>7 DEF Types
    <3> QED BY <1>4, <3>1, EnqueuedRow
  <2> QED BY <1>4, <2>3, <2>4
<1>9. /\ rFront' \in Positions /\ rUse' = rUse - MessageSize
      /\ rFront' = At(rFront, MessageSize)
  <2>1. rFront \in Positions /\ rRear \in Positions /\ rRear' = rRear
    BY <1>2, <1>3 DEF Types
  <2>2. PICK start : start = Move(rFront, 2)
    OBVIOUS
  <2>3. start \in Positions /\ start = At(rFront, 2) /\ UseSize(start, rRear) = rUse - 2
    <3>1. 2 \in Nat /\ 2 <= UseSize(rFront, rRear)
      BY <1>4, <1>5 DEF rUse
    <3> QED BY <2>1, <2>2, <3>1, FrontMoves DEF rUse
  <2>4. rFront' = Move(start, PayloadSize)
    BY <1>2, <1>4, <2>2 DEF HeaderSize
  <2>5. /\ rFront' \in Positions /\ rFront' = At(start, PayloadSize)
        /\ UseSize(rFront', rRear) = rUse - 2 - PayloadSize
    <3>1. PayloadSize \in Nat /\ PayloadSize <= UseSize(start, rRear)
      BY <1>4, <1>5, <2>3
    <3> QED BY <2>1, <2>3, <2>4, <3>1, FrontMoves
  <2>6. At(start, PayloadSize) = At(rFront, MessageSize)
    <3>1. 2 + PayloadSize <= Capacity /\ 2 \in Nat /\ PayloadSize \in Nat
      BY <1>4, <1>5
    <3>2. At(At(rFront, 2), PayloadSize) = At(rFront, 2 + PayloadSize)
      BY <2>1, <3>1, AtMoved
    <3> QED BY <1>5, <2>3, <3>2
  <2>7. rUse' = UseSize(rFront', rRear)
    BY <2>1 DEF rUse
  <2> QED BY <1>5, <2>5, <2>6, <2>7
<1>10. sRear' \in Positions /\ sUse' = sUse + MessageSize /\ Echoed' = Echoed + MessageSize
  <2>1. sFront \in Positions /\ sRear \in Positions
    BY <1>3 DEF Types
  <2>2. sRear' \in Positions /\ UseSize(sFront, sRear') = UseSize(sFront, sRear) + MessageSize
    BY <1>5, <1>7, <1>8, <2>1, RearMoves
  <2>3. sUse' = sUse + MessageSize
    BY <1>8, <2>2 DEF sUse
  <2>4. Echoed' = Len(received) + sUse'
    BY <1>2 DEF Echoed
  <2> QED BY <1>5, <2>2, <2>3, <2>4
<1>11. /\ sBuf' \in [Positions -> Int]
       /\ Holds(sBuf', sFront, sUse + MessageSize, stream, Len(received))
  <2>1. sBuf \in [Positions -> Int] /\ sFront \in Positions /\ sRear \in Positions
    BY <1>3 DEF Types
  <2>2. PICK n : n = MessageSize
    OBVIOUS
  <2>3. n \in 0 .. Capacity /\ Len(message) <= n /\ Len(message) <= FreeSize(sFront, sRear)
    <3>1. n \in Nat /\ n <= FreeSize(sFront, sRear) /\ Len(message) = n
      BY <1>4, <1>5, <1>7, <2>2
    <3>2. FreeSize(sFront, sRear) \in Int /\ FreeSize(sFront, sRear) <= Capacity
      BY <1>5
    <3> QED BY <3>1, <3>2
  <2>4. Holds(sBuf, sFront, UseSize(sFront, sRear), stream, Len(received))
    BY <1>3 DEF Bytes, sUse
  <2>5. \A j \in 1 .. Len(message) :
           message[j] = stream[Len(received) + UseSize(sFront, sRear) + j]
    BY <1>4, <1>5 DEF sUse
  <2>6. /\ Put(sBuf, Row(sRear, n), message) \in [Positions -> Int]
        /\ Holds(Put(sBuf, Row(sRear, n), message), sFront,
                 UseSize(sFront, sRear) + Len(message), stream, Len(received))
    <3>1. Len(received) \in Nat /\ message \in Seq(Int)
      BY <1>4, <1>5
    <3> QED BY <2>1, <2>3, <2>4, <2>5, <3>1, Extended
  <2> QED BY <1>4, <1>8, <2>2, <2>6 DEF sUse
<1>12. /\ sendFlag' \in {0, 1}
       /\ lent' # <<>> => \E n \in 1 .. UseSize(sFront, sRear') : Order(lent') = Row(sFront, n)
  <2>1. PICK back : back = sRear'
    OBVIOUS
  <2>2. UseSize(sFront, back) = sUse + MessageSize
    BY <1>8, <1>10, <2>1 DEF sUse
  <2>3. lent # <<>> => \E n \in 1 .. UseSize(sFront, back) : Order(lent) = Row(sFront, n)
    <3>1. \A n \in 1 .. sUse : n \in 1 .. sUse + MessageSize
      BY <1>5
    <3> QED BY <1>3, <2>2, <3>1 DEF Lent
  <2>4. sFront \in Positions /\ back \in Positions /\ sendFlag \in {0, 1}
        /\ SendPost(sendFlag, sFront, back)
    BY <1>3, <1>8, <1>10, <2>1 DEF Types
  <2> QED BY <2>1, <2>3, <2>4, Posted
<1>13. Types'
  BY <1>2, <1>3, <1>8, <1>9, <1>10, <1>11, <1>12 DEF Types
<1>14. Amounts'
  <2>1. /\ Echoed + rUse + 0 + Len(toServer) = Len(stream)
        /\ Len(stream) <= Len(received) + Window * MessageSize
    BY <1>3, <1>5 DEF Amounts
  <2>2. /\ rUse - MessageSize + 0 <= Capacity - 1
        /\ (Echoed + MessageSize) + (rUse - MessageSize) + 0 + Len(toServer) = Len(stream)
    <3>1. rUse \in Nat /\ rUse <= Capacity - 1 /\ MessageSize \in Nat /\ Echoed \in Nat
          /\ Len(toServer) \in Nat /\ Len(stream) \in Nat
      BY <1>5
    <3> HIDE DEF rUse, Echoed
    <3> QED BY <2>1, <3>1
  <2>3. state' # "posted"
    BY <1>2
  <2> QED BY <1>2, <1>6, <1>9, <1>10, <2>1, <2>2, <2>3 DEF Amounts
<1>15. Bytes'
  <2>1. Holds(sBuf', sFront', sUse', stream', Len(received'))
    BY <1>2, <1>8, <1>10, <1>11
  <2>2. Holds(rBuf', rFront', rUse' + Coming', stream', Echoed')
    <3> SUFFICES ASSUME NEW j \in 1 .. rUse - MessageSize
                 PROVE  rBuf[At(rFront', j - 1)] = stream[(Echoed + MessageSize) + j]
      <4>1. rUse' + Coming' = rUse - MessageSize
        <5>1. rUse \in Nat /\ MessageSize \in Nat
          BY <1>5
        <5> QED BY <1>6, <1>9, <5>1
      <4>2. rBuf' = rBuf /\ stream' = stream /\ Echoed' = Echoed + MessageSize
        BY <1>2, <1>10
      <4> QED BY <4>1, <4>2 DEF Holds
    <3>1. At(rFront', j - 1) = At(rFront, MessageSize + (j - 1))
      <4>1. j - 1 \in Nat /\ MessageSize + (j - 1) <= Capacity /\ rFront \in Positions
        BY <1>3, <1>4, <1>5 DEF Types
      <4> QED BY <1>5, <1>9, <4>1, AtMoved
    <3>2. MessageSize + j \in 1 .. rUse + Coming /\ (MessageSize + j) - 1 = MessageSize + (j - 1)
          /\ Echoed + (MessageSize + j) = (Echoed + MessageSize) + j
      BY <1>4, <1>5
    <3>3. rBuf[At(rFront, (MessageSize + j) - 1)] = stream[Echoed + (MessageSize + j)]
      BY <1>3, <3>2 DEF Bytes, Holds
    <3> QED BY <3>1, <3>2, <3>3
  <2>3. Echoed' + rUse' + Coming' = Echoed + rUse + Coming
    BY <1>4, <1>5, <1>6, <1>9, <1>10
  <2> QED BY <1>2, <1>3, <2>1, <2>2, <2>3 DEF Bytes
<1>16. Heads(starts)'
  <2>1. Echoed' \in starts
    BY <1>3, <1>4, <1>10 DEF Heads
  <2> QED BY <1>2, <1>3, <2>1 DEF Heads
<1>17. Lent'
  BY <1>8, <1>12 DEF Lent, sUse
<1> QED BY <1>13, <1>14, <1>15, <1>16, <1>17 DEF Good

\* The bytes lent are at the client and leave the ring.
LEMMA StepSendDone ==
  ASSUME NEW starts, Good(starts), SendDone
  PROVE  Good(starts)'
<1>1. Types /\ Amounts /\ Bytes /\ Heads(starts) /\ Lent
  BY DEF Good
<1>2. PICK n \in 1 .. sUse : Order(lent) = Row(sFront, n)
  BY <1>1 DEF Lent, SendDone
<1>3. /\ sUse \in 0 .. Capacity - 1 /\ Echoed \in Nat /\ Echoed = Len(received) + sUse
      /\ Len(received) \in Nat /\ n \in Nat /\ n >= 1 /\ n <= sUse /\ n <= Capacity
  BY <1>1, Numbers
<1>4. DOMAIN Row(sFront, n) = 1 .. n /\ Len(Row(sFront, n)) = n
      /\ \A i \in 1 .. n : Row(sFront, n)[i] = At(sFront, i - 1)
  BY <1>3 DEF Row
<1>5. PICK first : first = Move(sFront, n)
  OBVIOUS
<1>6. PICK out : out = [i \in 1 .. n |-> sBuf[At(sFront, i - 1)]]
  OBVIOUS
<1>7. /\ received' = received \o out /\ sFront' = first /\ SendPost(0, first, sRear)
      /\ UNCHANGED <<rFront, rRear, rBuf, state, cbTransferred, sRear, sBuf, stream, toServer>>
  <2>1. [i \in DOMAIN Row(sFront, n) |-> sBuf[Row(sFront, n)[i]]] = out
    BY <1>4, <1>6
  <2> QED BY <1>2, <1>4, <1>5, <2>1 DEF SendDone, recvVars
<1>8. first \in Positions /\ first = At(sFront, n) /\ sUse' = sUse - n
  <2>1. sFront \in Positions /\ sRear \in Positions /\ n <= UseSize(sFront, sRear)
    BY <1>1, <1>3 DEF Types, sUse
  <2>2. /\ first \in Positions /\ first = At(sFront, n)
        /\ UseSize(first, sRear) = UseSize(sFront, sRear) - n
    BY <1>3, <1>5, <2>1, FrontMoves
  <2> QED BY <1>7, <2>2 DEF sUse
<1>9. out \in Seq(Int) /\ Len(out) = n
      /\ \A j \in 1 .. n : out[j] = stream[Len(received) + j]
  <2>1. \A j \in 1 .. n : sBuf[At(sFront, j - 1)] = stream[Len(received) + j]
    <3>1. \A j \in 1 .. n : j \in 1 .. sUse
      BY <1>3
    <3> QED BY <1>1, <3>1 DEF Bytes, Holds
  <2>2. \A j \in 1 .. n : sBuf[At(sFront, j - 1)] \in Int
    <3> SUFFICES ASSUME NEW j \in 1 .. n PROVE sBuf[At(sFront, j - 1)] \in Int
      OBVIOUS
    <3>1. j - 1 \in 0 .. Capacity - 1 /\ sFront \in Positions
      BY <1>1, <1>3 DEF Types
    <3>2. At(sFront, j - 1) \in Positions
      BY <3>1, AtDistinct
    <3> QED BY <1>1, <3>2 DEF Types
  <2> QED BY <1>3, <1>6, <2>1, <2>2
<1>10. IsJoin(received', received, out)
  <2>1. received \in Seq(Int)
    BY <1>1 DEF Types
  <2> QED BY <1>7, <1>9, <2>1, JoinIs
<1>11. Len(received') = Len(received) + n /\ received' \in Seq(Int)
  BY <1>9, <1>10 DEF IsJoin
<1>12. Echoed' = Echoed /\ rUse' = rUse /\ Coming' = Coming
  <2>1. Echoed' = Len(received') + sUse'
    BY DEF Echoed
  <2>2. rUse' = rUse /\ Coming' = Coming
    BY <1>7 DEF rUse, Coming
  <2> QED BY <1>3, <1>8, <1>11, <2>1, <2>2
<1>13. /\ sendFlag' \in {0, 1}
       /\ lent' # <<>> => \E k \in 1 .. UseSize(first, sRear) : Order(lent') = Row(first, k)
  <2>1. sRear \in Positions
    BY <1>1 DEF Types
  <2> QED BY <1>7, <1>8, <2>1, Posted
<1>14. Types'
  BY <1>1, <1>7, <1>8, <1>11, <1>13 DEF Types
<1>15. Amounts'
  <2>1. PICK w : w = Window * MessageSize
    OBVIOUS
  <2>2. w \in Nat /\ Len(stream) <= Len(received) + w /\ Len(stream) \in Nat
    BY <1>1, <2>1, Constants, Numbers DEF Amounts
  <2>3. Len(stream) <= Len(received') + w
    BY <1>3, <1>11, <2>2
  <2> QED BY <1>1, <1>7, <1>12, <2>1, <2>3 DEF Amounts
<1>16. Bytes'
  <2>1. ASSUME NEW j \in 1 .. Len(received') PROVE received'[j] = stream[j]
    <3>1. CASE j \in 1 .. Len(received)
      BY <1>1, <1>10, <3>1 DEF IsJoin, Bytes
    <3>2. CASE j \notin 1 .. Len(received)
      <4>1. PICK i \in 1 .. n : j = Len(received) + i
        <5>1. j - Len(received) \in 1 .. n /\ j = Len(received) + (j - Len(received))
          BY <1>3, <1>11, <3>2
        <5> QED BY <5>1
      <4>2. received'[Len(received) + i] = out[i]
        BY <1>9, <1>10 DEF IsJoin
      <4> QED BY <1>9, <4>1, <4>2
    <3> QED BY <3>1, <3>2
  <2>2. Holds(sBuf, first, sUse - n, stream, Len(received) + n)
    <3> SUFFICES ASSUME NEW j \in 1 .. sUse - n
                 PROVE  sBuf[At(first, j - 1)] = stream[(Len(received) + n) + j]
      BY DEF Holds
    <3>1. At(first, j - 1) = At(sFront, n + (j - 1))
      <4>1. j - 1 \in Nat /\ n + (j - 1) <= Capacity /\ sFront \in Positions
        BY <1>1, <1>3 DEF Types
      <4> QED BY <1>3, <1>8, <4>1, AtMoved
    <3>2. n + j \in 1 .. sUse /\ (n + j) - 1 = n + (j - 1)
          /\ Len(received) + (n + j) = (Len(received) + n) + j
      BY <1>3
    <3>3. sBuf[At(sFront, (n + j) - 1)] = stream[Len(received) + (n + j)]
      BY <1>1, <3>2 DEF Bytes, Holds
    <3> QED BY <3>1, <3>2, <3>3
  <2>3. Holds(sBuf', sFront', sUse', stream', Len(received'))
    BY <1>7, <1>8, <1>11, <2>2
  <2> QED BY <1>1, <1>7, <1>12, <2>1, <2>3 DEF Bytes
<1>17. Heads(starts)'
  BY <1>1, <1>7, <1>12 DEF Heads
<1>18. Lent'
  <2>1. sUse' = UseSize(first, sRear)
    BY <1>7 DEF sUse
  <2> QED BY <1>7, <1>13, <2>1 DEF Lent
<1> QED BY <1>14, <1>15, <1>16, <1>17, <1>18 DEF Good

\* Nothing has been sent yet.
LEMMA Starts == Init => IInv
<1> SUFFICES ASSUME Init PROVE Good({0})
  BY DEF IInv
<1>1. /\ rFront = 0 /\ rRear = 0 /\ rBuf = Empty /\ state = "posted" /\ cbTransferred = 0
      /\ sFront = 0 /\ sRear = 0 /\ sBuf = Empty /\ sendFlag = 0 /\ lent = <<>>
      /\ stream = <<>> /\ toServer = <<>> /\ received = <<>>
  BY DEF Init
<1>2. rUse = 0 /\ sUse = 0 /\ Coming = 0 /\ Len(stream) = 0 /\ Len(toServer) = 0
      /\ Len(received) = 0 /\ Echoed = 0
  BY <1>1 DEF rUse, sUse, Coming, Echoed, UseSize
<1>3. Types
  <2>1. Empty \in [Positions -> Int] /\ 0 \in Positions
    BY DEF Empty
  <2> QED BY <1>1, <2>1 DEF Types
<1>4. Amounts
  BY <1>1, <1>2, Constants DEF Amounts
<1>5. Bytes
  BY <1>2 DEF Bytes, Holds
<1>6. Heads({0})
  BY <1>2 DEF Heads
<1>7. Lent
  BY <1>1 DEF Lent
<1> QED BY <1>3, <1>4, <1>5, <1>6, <1>7 DEF Good

\* Every step keeps the invariant, with one more start if the client sent.
LEMMA Preserved == IInv /\ [Next]_vars => IInv'
<1> SUFFICES ASSUME NEW starts, Good(starts), [Next]_vars PROVE \E more : Good(more)'
  BY DEF IInv
<1>1. CASE UNCHANGED vars
  <2>1. Types' /\ Amounts' /\ Lent'
    BY <1>1 DEF vars, recvVars, sendVars, clientVars, Good, Types, Amounts, Lent, rUse, sUse,
                Coming, Echoed
  <2>2. Bytes' /\ Heads(starts)'
    BY <1>1 DEF vars, recvVars, sendVars, clientVars, Good, Bytes, Holds, Heads,
                rUse, sUse, Coming, Echoed
  <2>3. Good(starts)'
    BY <2>1, <2>2 DEF Good
  <2> QED BY <2>3
<1>2. CASE ClientSends
  BY <1>2, StepClientSends
<1>3. CASE Receive
  BY <1>3, StepReceive
<1>4. CASE Completed
  BY <1>4, StepCompleted
<1>5. CASE HandleMessage
  BY <1>5, StepHandleMessage
<1>6. CASE RecvPost
  BY <1>6, StepRecvPost
<1>7. CASE SendDone
  BY <1>7, StepSendDone
<1> QED BY <1>1, <1>2, <1>3, <1>4, <1>5, <1>6, <1>7 DEF Next

\* So it holds of every reachable state.
LEMMA Invariance == Spec => []IInv
  BY Starts, Preserved, PTL DEF Spec

\* The client gets back the bytes it sent, in order and unchanged, for rings and
\* messages of any size: EchoInOrder, whatever RecvPost, SetRecvWsabufs, Enqueue,
\* SetSendWsabufs and the completions make of them.
THEOREM EchoesInOrder == Spec => []EchoInOrder
<1>1. ASSUME NEW starts, Good(starts) PROVE EchoInOrder
  <2>1. /\ received \in Seq(Int) /\ stream \in Seq(Int)
        /\ \A j \in 1 .. Len(received) : received[j] = stream[j]
    BY <1>1 DEF Good, Types, Bytes
  <2>2. Len(received) <= Len(stream)
    <3>1. Echoed + rUse + Coming + Len(toServer) = Len(stream)
      BY <1>1 DEF Good, Amounts
    <3>2. /\ Echoed = Len(received) + sUse /\ sUse \in Nat /\ rUse \in Nat /\ Coming \in Nat
          /\ Len(toServer) \in Nat /\ Len(received) \in Nat
      BY <1>1, Numbers DEF Good
    <3> QED BY <3>1, <3>2
  <2>3. SubSeq(received, 1, Len(received)) = SubSeq(stream, 1, Len(received))
    BY <2>1, <2>2
  <2> QED BY <2>2, <2>3 DEF EchoInOrder, Seqs!IsPrefix
<1>2. IInv => EchoInOrder
  BY <1>1 DEF IInv
<1> QED BY <1>2, Invariance, PTL

\* RecvPost always lends Winsock some bytes, exactly those not in use and in the
\* order in which they will be read: LentIsUnused.
THEOREM LentUnused == Spec => []LentIsUnused
<1>1. ASSUME NEW starts, Good(starts) PROVE LentIsUnused
  <2>1. TypeOK
    BY <1>1 DEF Good, Types, TypeOK
  <2>2. ASSUME state = "posted", NEW room, room = Order(SetRecvWsabufs(rFront, rRear))
        PROVE  room # <<>> /\ room = Unused(rFront, rRear)
    <3>1. rFront \in Positions /\ rRear \in Positions
      BY <1>1 DEF Good, Types
    <3>2. PICK n : n = FreeSize(rFront, rRear)
      OBVIOUS
    <3>3. room = Row(rRear, n) /\ room = Unused(rFront, rRear)
      BY <2>2, <3>1, <3>2, RecvRow, UnusedRow
    <3>4. n \in Nat /\ n >= 1
      <4>1. rUse < MessageSize
        BY <1>1, <2>2 DEF Good, Amounts
      <4>2. rUse \in Nat /\ n = Capacity - 1 - rUse
        BY <1>1, <3>2, Numbers DEF Good
      <4>3. MessageSize \in Nat /\ MessageSize < Capacity
        BY Constants
      <4> QED BY <4>1, <4>2, <4>3
    <3>5. Row(rRear, n) # <<>>
      <4>1. Len(Row(rRear, n)) = n
        BY <3>4 DEF Row
      <4>2. Len(<<>>) = 0 /\ n # 0
        BY <3>4
      <4> QED BY <4>1, <4>2, Zenon
    <3> QED BY <3>3, <3>5
  <2> QED BY <2>1, <2>2 DEF LentIsUnused
<1>2. IInv => LentIsUnused
  BY <1>1 DEF IInv
<1> QED BY <1>2, Invariance, PTL

(***************************************************************************)
(* The ring of pointers                                                    *)
(***************************************************************************)
\* where the pointer after i others begins
Off(i) == i * Word
\* the bytes of the packets' pointers, and the zeroes of the new ring
PointerBytes == {0} \cup (Packets \X (1 .. Word))

\* How far pointers reach.
LEMMA OffAt ==
  /\ Word \in Nat \ {0} /\ Word < Capacity
  /\ Off(0) = 0 /\ Off(1) = Word
  /\ \A i \in Nat : Off(i) \in Nat /\ Off(i + 1) = Off(i) + Word
<1>1. Word \in Nat \ {0} /\ Word < Capacity
  BY WordAssumption DEF WordAssumption
<1>2. ASSUME NEW i \in Nat PROVE i * Word \in Nat /\ (i + 1) * Word = i * Word + Word
  BY <1>1
<1>3. 0 * Word = 0 /\ 1 * Word = Word
  BY <1>1
<1> QED BY <1>1, <1>2, <1>3 DEF Off

\* A pointer that comes before another ends before it begins.
LEMMA OffGrows ==
  ASSUME NEW i \in Nat, NEW j \in Nat, i < j
  PROVE  Off(i) + Word <= Off(j)
<1>1. Word \in Nat
  BY OffAt
<1>2. PICK k \in Nat : j = i + 1 + k
  <2>1. j - i - 1 \in Nat /\ j = i + 1 + (j - i - 1)
    OBVIOUS
  <2> QED BY <2>1
<1>3. (i + 1 + k) * Word = i * Word + Word + k * Word /\ k * Word \in Nat /\ i * Word \in Nat
  BY <1>1
<1> QED BY <1>1, <1>2, <1>3 DEF Off

\* Pointers behind others.
LEMMA OffAdds ==
  ASSUME NEW i \in Nat, NEW j \in Nat
  PROVE  Off(i + j) = Off(i) + Off(j)
<1>1. Word \in Nat
  BY OffAt
<1>2. (i + j) * Word = i * Word + j * Word
  BY <1>1
<1> QED BY <1>2 DEF Off

\* How many pointers there are in so many bytes.
LEMMA OffDivides ==
  ASSUME NEW i \in Nat
  PROVE  Off(i) \div Word = i
<1>1. Word \in Nat \ {0}
  BY OffAt
<1>2. (i * Word) \div Word = i
  BY <1>1
<1> QED BY <1>2 DEF Off

\* The last pointer that begins before a limit.
LEMMA LastBefore ==
  ASSUME NEW n \in Nat \ {0}, NEW c, c = (n - 1) \div Word + 1
  PROVE  c \in Nat \ {0} /\ Off(c - 1) < n /\ n <= Off(c - 1) + Word
<1>1. Word \in Nat \ {0}
  BY OffAt
<1>2. PICK d : d = (n - 1) \div Word
  OBVIOUS
<1>3. d \in Nat /\ d * Word <= n - 1 /\ n - 1 < d * Word + Word
  BY <1>1, <1>2
<1>4. c = d + 1 /\ c - 1 = d
  BY <1>2, <1>3
<1> QED BY <1>1, <1>3, <1>4 DEF Off

\* The bytes of a pointer tell its packet.
LEMMA PointerIs ==
  ASSUME NEW p \in Packets
  PROVE  /\ Pointer(p) \in Seq(PointerBytes) /\ Len(Pointer(p)) = Word
         /\ \A k \in 1 .. Word : Pointer(p)[k] = <<p, k>>
         /\ Decode(Pointer(p)) = p
<1>1. Word \in Nat \ {0} /\ 1 \in 1 .. Word
  BY OffAt
<1>2. \A r \in Packets : Pointer(r) = Pointer(p) => r = p
  <2> SUFFICES ASSUME NEW r \in Packets, Pointer(r) = Pointer(p) PROVE r = p
    OBVIOUS
  <2>1. Pointer(r)[1] = <<r, 1>> /\ Pointer(p)[1] = <<p, 1>>
    BY <1>1 DEF Pointer
  <2> QED BY <2>1
<1>3. Decode(Pointer(p)) = p
  BY <1>2 DEF Decode
<1>4. /\ Pointer(p) \in Seq(PointerBytes) /\ Len(Pointer(p)) = Word
      /\ \A k \in 1 .. Word : Pointer(p)[k] = <<p, k>>
  BY <1>1 DEF Pointer, PointerBytes
<1> QED BY <1>3, <1>4

\* the ring holds a packet's pointer at a position
IsPointer(mem, pos, p) == \A k \in 1 .. Word : mem[At(pos, k - 1)] = <<p, k>>

\* What is read there is that pointer.
LEMMA PointerRead ==
  ASSUME NEW p \in Packets, NEW mem, NEW pos, NEW s, IsCopy(PointerBytes, s, mem, pos, Word),
         IsPointer(mem, pos, p)
  PROVE  s = Pointer(p)
<1>1. s \in Seq(PointerBytes) /\ Len(s) = Word /\ \A k \in 1 .. Word : s[k] = <<p, k>>
  BY DEF IsCopy, IsPointer
<1>2. /\ Pointer(p) \in Seq(PointerBytes) /\ Len(Pointer(p)) = Word
      /\ \A k \in 1 .. Word : Pointer(p)[k] = <<p, k>>
  BY PointerIs
<1> QED BY <1>1, <1>2, SameSeq

\* the pointers of n packets of a sequence, those after the first a
IsPointers(s, packets, a, n) ==
  /\ s \in Seq(Seq(PointerBytes)) /\ Len(s) = n
  /\ \A i \in 1 .. n : s[i] = Pointer(packets[a + i])

\* One batch of pointers behind another.
LEMMA PointersJoined ==
  ASSUME NEW packets, NEW a \in Nat, NEW m \in Nat, NEW n \in Nat, NEW s, NEW t,
         IsPointers(s, packets, a, m), IsPointers(t, packets, a + m, n)
  PROVE  IsPointers(s \o t, packets, a, m + n)
<1>1. s \in Seq(Seq(PointerBytes)) /\ t \in Seq(Seq(PointerBytes)) /\ Len(s) = m /\ Len(t) = n
  BY DEF IsPointers
<1>2. s \o t \in Seq(Seq(PointerBytes)) /\ Len(s \o t) = m + n
  <2>1. PICK Rows : Rows = Seq(PointerBytes)
    OBVIOUS
  <2>2. s \in Seq(Rows) /\ t \in Seq(Rows)
    BY <1>1, <2>1
  <2>3. s \o t \in Seq(Rows) /\ Len(s \o t) = Len(s) + Len(t)
    BY <2>2
  <2> QED BY <1>1, <2>1, <2>3
<1>3. ASSUME NEW i \in 1 .. m + n PROVE (s \o t)[i] = Pointer(packets[a + i])
  <2>1. CASE i <= m
    <3>1. (s \o t)[i] = s[i] /\ i \in 1 .. m
      BY <1>1, <2>1
    <3> QED BY <3>1 DEF IsPointers
  <2>2. CASE i > m
    <3>1. PICK j : j = i - m
      OBVIOUS
    <3>2. j \in 1 .. n /\ i = m + j /\ a + i = a + m + j
      BY <2>2, <3>1
    <3>3. (s \o t)[i] = t[j]
      <4>1. PICK Rows : Rows = Seq(PointerBytes)
        OBVIOUS
      <4>2. s \in Seq(Rows) /\ t \in Seq(Rows) /\ Len(s) = m /\ Len(t) = n
        BY <1>1, <4>1
      <4> QED BY <2>2, <3>1, <4>2, SMTT(60)
    <3>4. t[j] = Pointer(packets[a + m + j])
      BY <3>2 DEF IsPointers
    <3> QED BY <3>2, <3>3, <3>4, Zenon
  <2>3. i <= m \/ i > m
    OBVIOUS
  <2> QED BY <2>1, <2>2, <2>3, Zenon
<1> QED BY <1>2, <1>3 DEF IsPointers

\* Pointers, each read in one memcpy.
LEMMA PointersPicked ==
  ASSUME buf \in [Positions -> PointerBytes], NEW packets, NEW a \in Nat, NEW first \in Nat, NEW n \in Nat,
         \A i \in 1 .. n : /\ packets[a + i] \in Packets
                           /\ first + Off(i - 1) + Word <= Capacity
                           /\ IsPointer(buf, first + Off(i - 1), packets[a + i]),
         NEW positions, positions = [i \in 1 .. n |-> first + Off(i - 1)]
  PROVE  IsPointers(PickAt(positions), packets, a, n)
<1>1. ASSUME NEW i \in 1 .. n
      PROVE  /\ Copy(buf, positions[i], Word) \in Seq(PointerBytes)
             /\ Copy(buf, positions[i], Word) = Pointer(packets[a + i])
  <2>1. PICK pos : pos = first + Off(i - 1)
    OBVIOUS
  <2>2. positions[i] = pos
    BY <2>1
  <2>3. pos \in Positions /\ Word \in Nat /\ pos + Word <= Capacity
    <3>1. i - 1 \in Nat /\ Word \in Nat \ {0}
      BY OffAt
    <3>2. Off(i - 1) \in Nat /\ first + Off(i - 1) + Word <= Capacity
      BY <3>1, OffAt
    <3> QED BY <2>1, <3>1, <3>2
  <2>4. IsCopy(PointerBytes, Copy(buf, pos, Word), buf, pos, Word)
    BY <2>3, CopiedOnce
  <2>5. Copy(buf, pos, Word) = Pointer(packets[a + i])
    BY <2>1, <2>4, PointerRead
  <2> QED BY <2>2, <2>4, <2>5 DEF IsCopy
<1>2. PickAt(positions) = [i \in 1 .. n |-> Copy(buf, positions[i], Word)]
  BY DEF PickAt
<1>3. PICK s : s = PickAt(positions)
  OBVIOUS
<1>4. s \in Seq(Seq(PointerBytes)) /\ Len(s) = n /\ \A i \in 1 .. n : s[i] = Pointer(packets[a + i])
  BY <1>1, <1>2, <1>3
<1> QED BY <1>3, <1>4 DEF IsPointers

\* The positions below a limit: how many there are.
LEMMA EveryIs ==
  ASSUME NEW first \in Nat, NEW limit \in Int
  PROVE  \E n \in Nat :
           /\ Every(first, limit) = [i \in 1 .. n |-> first + Off(i - 1)]
           /\ limit <= first + Off(n)
           /\ n # 0 => first + Off(n - 1) < limit
<1>1. CASE first >= limit
  <2>1. Every(first, limit) = <<>>
    BY <1>1 DEF Every
  <2>2. limit <= first + Off(0) /\ 0 \in Nat
    BY <1>1, OffAt
  <2>3. <<>> = [i \in 1 .. 0 |-> first + Off(i - 1)]
    OBVIOUS
  <2> QED BY <2>1, <2>2, <2>3
<1>2. CASE first < limit
  <2>1. PICK n : n = limit - first
    OBVIOUS
  <2>2. n \in Nat \ {0}
    BY <1>2, <2>1
  <2>3. PICK c : c = (n - 1) \div Word + 1
    OBVIOUS
  <2>4. c \in Nat \ {0} /\ Off(c - 1) < n /\ n <= Off(c - 1) + Word
    BY <2>2, <2>3, LastBefore
  <2>5. Every(first, limit) = [i \in 1 .. c |-> first + Off(i - 1)]
    BY <1>2, <2>1, <2>3 DEF Every, Off
  <2>6. c - 1 \in Nat /\ Off(c) = Off(c - 1) + Word /\ Off(c - 1) \in Nat /\ Word \in Nat
    <3>1. c - 1 \in Nat /\ (c - 1) + 1 = c
      BY <2>4
    <3> QED BY <3>1, OffAt
  <2>7. limit <= first + Off(c) /\ first + Off(c - 1) < limit
    BY <2>1, <2>4, <2>6
  <2> QED BY <2>4, <2>5, <2>7
<1> QED BY <1>1, <1>2

\* Up to a limit that is a whole number of pointers away.
LEMMA EveryExact ==
  ASSUME NEW first \in Nat, NEW m \in Nat, NEW limit, limit = first + Off(m)
  PROVE  Every(first, limit) = [i \in 1 .. m |-> first + Off(i - 1)]
<1>1. Word \in Nat \ {0} /\ Off(m) \in Nat /\ limit \in Int
  BY OffAt
<1>2. PICK n \in Nat : /\ Every(first, limit) = [i \in 1 .. n |-> first + Off(i - 1)]
                       /\ limit <= first + Off(n)
                       /\ n # 0 => first + Off(n - 1) < limit
  BY <1>1, EveryIs
<1>3. Off(n) \in Nat
  BY OffAt
<1>4. CASE n < m
  <2>1. Off(n) + Word <= Off(m)
    BY <1>4, OffGrows
  <2> QED BY <1>1, <1>2, <1>3, <2>1
<1>5. CASE m < n
  <2>1. n # 0 /\ n - 1 \in Nat /\ m <= n - 1
    BY <1>5
  <2>2. PICK l \in Nat : l = n - 1
    BY <2>1
  <2>3. Off(l) \in Nat /\ (m = l \/ m < l)
    BY <2>1, <2>2, OffAt
  <2>4. m < l => Off(m) + Word <= Off(l)
    BY OffGrows
  <2>5. first + Off(l) < limit
    BY <1>2, <2>1, <2>2
  <2> QED BY <1>1, <2>3, <2>4, <2>5
<1> QED BY <1>2, <1>4, <1>5

(***************************************************************************)
(* The inductive invariant of the ring of pointers                         *)
(***************************************************************************)
\* Every variable has its type, and nothing the consumer asserts has failed.
RingTypes ==
  /\ front \in Positions /\ rear \in Positions /\ cRear \in Positions
  /\ buf \in [Positions -> PointerBytes]
  /\ pAt \in {"idle", "copy", "publish", "break"} /\ pPacket \in Packets \cup {None}
  /\ cAt \in {"idle", "gather", "sent", "take", "took"}

\* the packets between front and rear, oldest first
Queued(q) ==
  /\ q \in Seq(Packets)
  /\ UseSize(front, rear) = Off(Len(q))
  /\ \A i \in 1 .. Len(q) : IsPointer(buf, At(front, Off(i - 1)), q[i])

\* What the producer has room for is still free, and its bytes are still there.
Putting ==
  pAt \in {"copy", "publish"} =>
    /\ pPacket \in Packets
    /\ Word <= FreeSize(front, rear)
    /\ pAt = "publish" => IsPointer(buf, rear, pPacket)

\* The copy of _rear ends behind one of the queued packets.
Gathering(q) ==
  cAt = "gather" => \E m \in 1 .. Len(q) : UseSize(front, cRear) = Off(m)

\* Those handed to WSASend are the oldest of the queued packets.
Sending(q) ==
  cAt \in {"sent", "take", "took"} =>
    \E m \in 0 .. Len(q) : IsPointers(gathered, q, 0, m)

\* The pointer taken out is the first of them, and a packet's.
Getting(q) ==
  /\ cAt = "take" => gathered # <<>> /\ taken = Pointer(q[1])
  /\ cAt = "took" => \E p \in Packets : taken = Pointer(p)

RingGood(q) == RingTypes /\ Queued(q) /\ Putting /\ Gathering(q) /\ Sending(q) /\ Getting(q)
RingIInv == \E q : RingGood(q)

\* Where the queued pointers are: below the rear, within the ring.
LEMMA QueuedAt ==
  ASSUME NEW q, RingTypes, Queued(q)
  PROVE  /\ Len(q) \in Nat /\ Off(Len(q)) \in 0 .. Capacity - 1 /\ Off(Len(q)) = UseSize(front, rear)
         /\ rear = At(front, Off(Len(q)))
         /\ \A i \in 1 .. Len(q) :
              /\ q[i] \in Packets
              /\ i - 1 \in Nat /\ Off(i - 1) \in Nat /\ Off(i - 1) + Word <= Off(Len(q))
<1>1. q \in Seq(Packets) /\ Len(q) \in Nat /\ UseSize(front, rear) = Off(Len(q))
  BY DEF Queued
<1>2. UseSize(front, rear) \in 0 .. Capacity - 1 /\ rear = At(front, UseSize(front, rear))
  BY Sizes DEF RingTypes
<1>3. ASSUME NEW i \in 1 .. Len(q)
      PROVE  q[i] \in Packets /\ i - 1 \in Nat /\ Off(i - 1) \in Nat /\ Off(i - 1) + Word <= Off(Len(q))
  <2>1. PICK j \in Nat : j = i - 1
    OBVIOUS
  <2>2. j < Len(q) /\ q[i] \in Packets
    BY <1>1, <2>1
  <2>3. Off(j) \in Nat /\ Off(j) + Word <= Off(Len(q))
    BY <1>1, <2>2, OffAt, OffGrows
  <2> QED BY <2>1, <2>2, <2>3
<1> QED BY <1>1, <1>2, <1>3, Zenon

\* The size is asked for.
LEMMA StepEnqueueSize ==
  ASSUME NEW q, RingGood(q), EnqueueSize
  PROVE  RingGood(q)'
<1>1. RingTypes' /\ Queued(q)' /\ Gathering(q)' /\ Sending(q)' /\ Getting(q)'
  BY DEF EnqueueSize, RingGood, RingTypes, Queued, Gathering, Sending, Getting
<1>2. Putting'
  <2>1. FreeSize(front, rear) \in 0 .. Capacity - 1 /\ Word \in Nat
    BY Sizes, OffAt DEF RingGood, RingTypes
  <2> QED BY <2>1 DEF EnqueueSize, Putting
<1> QED BY <1>1, <1>2 DEF RingGood

\* The bytes are copied, behind those of the queued packets.
LEMMA StepEnqueueCopy ==
  ASSUME NEW q, RingGood(q), EnqueueCopy
  PROVE  RingGood(q)'
<1>1. RingTypes /\ Queued(q) /\ Putting /\ pAt = "copy"
  BY DEF RingGood, EnqueueCopy
<1>2. PICK p \in Packets : p = pPacket
  BY <1>1 DEF Putting
<1>3. PICK bytes : bytes = Pointer(p)
  OBVIOUS
<1>4. /\ bytes \in Seq(PointerBytes) /\ Len(bytes) = Word
      /\ \A k \in 1 .. Word : bytes[k] = <<p, k>>
  BY <1>3, PointerIs
<1>5. Word \in Nat \ {0} /\ Word < Capacity
  BY OffAt
<1>6. PICK b : b = buf'
  OBVIOUS
<1>7. IsWritten(PointerBytes, b, buf, rear, bytes)
  <2>1. rear \in Positions /\ buf \in [Positions -> PointerBytes] /\ Len(bytes) <= Capacity
        /\ Word \in 0 .. Capacity
    BY <1>1, <1>4, <1>5 DEF RingTypes
  <2>2. b = Put(buf, Row(rear, Word), bytes)
    <3>1. b = Enqueue(buf, rear, bytes)
      BY <1>2, <1>3, <1>6 DEF EnqueueCopy
    <3>2. Enqueue(buf, rear, bytes) = Put(buf, Row(rear, Len(bytes)), bytes)
      BY <1>4, <2>1, EnqueuedRow
    <3> QED BY <1>4, <3>1, <3>2
  <2> QED BY <1>4, <1>5, <2>1, <2>2, Written
<1>8. b \in [Positions -> PointerBytes] /\ IsPointer(b, rear, p)
  BY <1>4, <1>7 DEF IsWritten, IsPointer
<1>9. ASSUME NEW i \in 1 .. Len(q) PROVE IsPointer(b, At(front, Off(i - 1)), q[i])
  <2>1. PICK a \in Nat, u \in Nat :
          a = Off(i - 1) /\ u = Off(Len(q)) /\ a + Word <= u /\ rear = At(front, u)
          /\ u + Word <= Capacity - 1
    <3>1. Word <= FreeSize(front, rear) /\ FreeSize(front, rear) = Capacity - 1 - UseSize(front, rear)
      BY <1>1, Sizes DEF Putting, RingTypes
    <3>2. Off(i - 1) \in Nat /\ Off(i - 1) + Word <= Off(Len(q)) /\ Off(Len(q)) \in 0 .. Capacity - 1
          /\ Off(Len(q)) = UseSize(front, rear) /\ rear = At(front, Off(Len(q)))
      BY <1>1, QueuedAt
    <3> QED BY <1>5, <3>1, <3>2
  <2>2. ASSUME NEW k \in 1 .. Word PROVE b[At(At(front, a), k - 1)] = buf[At(At(front, a), k - 1)]
    <3>1. front \in Positions
      BY <1>1 DEF RingTypes
    <3>2. a + (k - 1) \in 0 .. Capacity - 1 /\ k - 1 \in Nat /\ a + (k - 1) < u
      BY <1>5, <2>1
    <3>3. At(At(front, a), k - 1) = At(front, a + (k - 1)) /\ At(front, a + (k - 1)) \in Positions
      BY <3>1, <3>2, AtMoved, AtDistinct
    <3>4. ASSUME NEW j \in 1 .. Len(bytes) PROVE At(front, a + (k - 1)) # At(rear, j - 1)
      <4>1. u + (j - 1) \in 0 .. Capacity - 1 /\ j - 1 \in Nat /\ u <= u + (j - 1)
        <5>1. j \in 1 .. Word
          BY <1>4
        <5> QED BY <1>5, <2>1, <5>1
      <4>2. At(rear, j - 1) = At(front, u + (j - 1))
        BY <2>1, <3>1, <4>1, AtMoved
      <4>3. At(front, a + (k - 1)) = At(front, u + (j - 1)) => a + (k - 1) = u + (j - 1)
        BY <3>1, <3>2, <4>1, AtDistinct
      <4>4. a + (k - 1) # u + (j - 1)
        BY <3>2, <4>1
      <4> QED BY <4>2, <4>3, <4>4
    <3> QED BY <1>7, <3>3, <3>4, Zenon DEF IsWritten
  <2>3. IsPointer(buf, At(front, a), q[i])
    BY <1>1, <2>1 DEF Queued
  <2>4. IsPointer(b, At(front, a), q[i])
    BY <2>2, <2>3 DEF IsPointer
  <2> QED BY <2>1, <2>4
<1>10. RingTypes'
  BY <1>1, <1>6, <1>8 DEF EnqueueCopy, RingTypes
<1>11. Queued(q)'
  BY <1>1, <1>6, <1>9 DEF EnqueueCopy, Queued
<1>12. Putting'
  BY <1>1, <1>2, <1>6, <1>8 DEF EnqueueCopy, Putting
<1>13. Gathering(q)' /\ Sending(q)' /\ Getting(q)'
  BY DEF EnqueueCopy, RingGood, Gathering, Sending, Getting
<1> QED BY <1>10, <1>11, <1>12, <1>13 DEF RingGood

\* The rear moves behind them: the packet is queued.
LEMMA StepEnqueuePublish ==
  ASSUME NEW q, RingGood(q), EnqueuePublish, NEW more, more = Append(q, pPacket)
  PROVE  RingGood(more)'
<1>1. RingTypes /\ Queued(q) /\ Putting /\ pAt = "publish"
  BY DEF RingGood, EnqueuePublish
<1>2. PICK p \in Packets : p = pPacket
  BY <1>1 DEF Putting
<1>3. PICK n \in Nat : n = Len(q)
  BY <1>1, QueuedAt
<1>4. /\ q \in Seq(Packets) /\ more \in Seq(Packets) /\ Len(more) = n + 1 /\ more[n + 1] = p
      /\ \A i \in 1 .. n : more[i] = q[i]
  <2>1. q \in Seq(Packets)
    BY <1>1 DEF Queued
  <2> QED BY <1>2, <1>3, <2>1
<1>5. PICK u \in Nat : u = Off(n) /\ u = UseSize(front, rear) /\ rear = At(front, u) /\ Off(n + 1) = u + Word
  BY <1>1, <1>3, QueuedAt, OffAt
<1>6. PICK r : r = rear'
  OBVIOUS
<1>7. r \in Positions /\ UseSize(front, r) = Off(n + 1)
  <2>1. front \in Positions /\ rear \in Positions /\ Word \in Nat /\ Word <= FreeSize(front, rear)
    BY <1>1, OffAt DEF Putting, RingTypes
  <2>2. Move(rear, Word) \in Positions /\ UseSize(front, Move(rear, Word)) = UseSize(front, rear) + Word
    BY <2>1, RearMoves
  <2> QED BY <1>5, <1>6, <2>2 DEF EnqueuePublish
<1>8. RingTypes'
  BY <1>1, <1>6, <1>7 DEF EnqueuePublish, RingTypes
<1>9. ASSUME NEW i \in 1 .. n + 1 PROVE IsPointer(buf, At(front, Off(i - 1)), more[i])
  <2>1. CASE i \in 1 .. n
    <3>1. IsPointer(buf, At(front, Off(i - 1)), q[i])
      BY <1>1, <1>3, <2>1 DEF Queued
    <3> QED BY <1>4, <2>1, <3>1
  <2>2. CASE i = n + 1
    <3>1. i - 1 = n /\ Off(n) = u
      BY <1>5, <2>2
    <3>2. IsPointer(buf, rear, p)
      BY <1>1, <1>2 DEF Putting
    <3>3. At(front, Off(i - 1)) = rear /\ more[i] = p
      BY <1>4, <1>5, <2>2, <3>1, Zenon
    <3> QED BY <3>2, <3>3, Zenon
  <2>3. i \in 1 .. n \/ i = n + 1
    OBVIOUS
  <2> QED BY <2>1, <2>2, <2>3, Zenon
<1>10. Queued(more)'
  BY <1>4, <1>6, <1>7, <1>9 DEF EnqueuePublish, Queued
<1>11. Putting'
  BY DEF EnqueuePublish, Putting
<1>12. Gathering(more)'
  <2> SUFFICES ASSUME cAt = "gather" PROVE \E m \in 1 .. Len(more) : UseSize(front, cRear) = Off(m)
    BY DEF EnqueuePublish, Gathering
  <2>1. PICK m \in 1 .. n : UseSize(front, cRear) = Off(m)
    BY <1>3 DEF RingGood, Gathering
  <2> QED BY <1>4, <2>1
<1>13. Sending(more)'
  <2> SUFFICES ASSUME cAt \in {"sent", "take", "took"} PROVE \E m \in 0 .. Len(more) : IsPointers(gathered, more, 0, m)
    BY DEF EnqueuePublish, Sending
  <2>1. PICK m \in 0 .. n : IsPointers(gathered, q, 0, m)
    BY <1>3 DEF RingGood, Sending
  <2>2. \A i \in 1 .. m : i \in 1 .. n /\ 0 + i = i
    OBVIOUS
  <2>3. IsPointers(gathered, more, 0, m)
    BY <1>4, <2>1, <2>2 DEF IsPointers
  <2>4. m \in 0 .. Len(more)
    BY <1>4
  <2> QED BY <2>3, <2>4
<1>14. Getting(more)'
  <2>1. cAt = "take" => more[1] = q[1]
    <3> SUFFICES ASSUME cAt = "take" PROVE 1 \in 1 .. n
      BY <1>4
    <3>1. PICK m \in 0 .. n : IsPointers(gathered, q, 0, m)
      BY <1>3 DEF RingGood, Sending
    <3>2. gathered # <<>>
      BY DEF RingGood, Getting
    <3>3. m # 0
      BY <3>1, <3>2 DEF IsPointers
    <3> QED BY <3>3
  <2> QED BY <2>1 DEF EnqueuePublish, RingGood, Getting
<1> QED BY <1>8, <1>10, <1>11, <1>12, <1>13, <1>14 DEF RingGood

\* The consumer finds a pointer, and copies the rear.
LEMMA StepGatherRead ==
  ASSUME NEW q, RingGood(q), GatherRead
  PROVE  RingGood(q)'
<1>1. RingTypes' /\ Queued(q)' /\ Putting' /\ Sending(q)' /\ Getting(q)'
  BY DEF GatherRead, RingGood, RingTypes, Queued, Putting, Sending, Getting
<1>2. Len(q) \in 1 .. Len(q)
  <2>1. Len(q) \in Nat /\ UseSize(front, rear) = Off(Len(q)) /\ UseSize(front, rear) # 0
    BY QueuedAt DEF RingGood, GatherRead
  <2>2. Len(q) # 0
    BY <2>1, OffAt
  <2> QED BY <2>1, <2>2
<1>3. UseSize(front', cRear') = Off(Len(q))
  BY DEF GatherRead, RingGood, Queued
<1>4. Gathering(q)'
  BY <1>2, <1>3 DEF Gathering
<1> QED BY <1>1, <1>4 DEF RingGood

\* One of the queued pointers, where the ring does not end before it does.
LEMMA QueuedStraight ==
  ASSUME NEW q, RingTypes, Queued(q), NEW i \in 1 .. Len(q), NEW pos \in Positions,
         pos = At(front, Off(i - 1))
  PROVE  q[i] \in Packets /\ IsPointer(buf, pos, q[i])
  BY QueuedAt DEF Queued

\* The pointers of a ring whose used part does not wrap.
LEMMA GatheredStraight ==
  ASSUME NEW q, RingTypes, Queued(q), NEW m \in 1 .. Len(q), UseSize(front, cRear) = Off(m),
         front < cRear
  PROVE  IsPointers(PickAt(Every(front, cRear)), q, 0, m)
<1>1. front \in Nat /\ cRear \in Nat /\ m \in Nat /\ cRear < Capacity /\ Len(q) \in Nat
  BY QueuedAt DEF RingTypes
<1>2. Off(m) \in Nat /\ cRear = front + Off(m)
  BY <1>1, OffAt DEF UseSize
<1>3. PICK positions : positions = Every(front, cRear)
  OBVIOUS
<1>4. positions = [i \in 1 .. m |-> front + Off(i - 1)]
  BY <1>1, <1>2, <1>3, EveryExact
<1>5. ASSUME NEW i \in 1 .. m
      PROVE  /\ q[0 + i] \in Packets
             /\ front + Off(i - 1) + Word <= Capacity
             /\ IsPointer(buf, front + Off(i - 1), q[0 + i])
  <2>1. PICK j \in Nat : j = i - 1
    OBVIOUS
  <2>2. j < m /\ i \in 1 .. Len(q) /\ 0 + i = i
    BY <1>1, <2>1
  <2>3. Off(j) \in Nat /\ Off(j) + Word <= Off(m) /\ Word \in Nat \ {0}
    BY <1>1, <2>2, OffAt, OffGrows
  <2>4. PICK pos : pos = front + Off(j)
    OBVIOUS
  <2>5. pos \in Positions /\ pos + Word <= Capacity /\ pos = At(front, Off(j))
    BY <1>1, <1>2, <2>3, <2>4 DEF At
  <2>6. q[i] \in Packets /\ IsPointer(buf, pos, q[i])
    BY <2>1, <2>2, <2>5, QueuedStraight
  <2> QED BY <2>1, <2>2, <2>4, <2>5, <2>6
<1>6. IsPointers(PickAt(positions), q, 0, m)
  BY <1>1, <1>4, <1>5, PointersPicked DEF RingTypes
<1> QED BY <1>3, <1>6

\* What is gathered up to the end of the ring, and how much is left over there.
LEMMA DirectIs ==
  ASSUME NEW f \in Positions
  PROVE  \E n \in Nat :
           /\ Direct(f) = [i \in 1 .. n |-> f + Off(i - 1)] /\ Len(Direct(f)) = n
           /\ Leftover(f) = Capacity - (f + Off(n))
           /\ Leftover(f) \in 1 .. Word
<1>1. Word \in Nat \ {0} /\ Word < Capacity /\ f \in Nat /\ Capacity - Word \in Int
  BY OffAt
<1>2. PICK n \in Nat : /\ Every(f, Capacity - Word) = [i \in 1 .. n |-> f + Off(i - 1)]
                       /\ Capacity - Word <= f + Off(n)
                       /\ n # 0 => f + Off(n - 1) < Capacity - Word
  BY <1>1, EveryIs
<1>3. Direct(f) = [i \in 1 .. n |-> f + Off(i - 1)] /\ Len(Direct(f)) = n
  BY <1>2 DEF Direct
<1>4. Leftover(f) = Capacity - (f + Off(n))
  BY <1>3 DEF Leftover, Off
<1>5. Off(n) \in Nat /\ f + Off(n) < Capacity
  <2>1. CASE n = 0
    BY <2>1, OffAt
  <2>2. CASE n # 0
    <3>1. PICK l \in Nat : l = n - 1 /\ n = l + 1
      <4>1. n - 1 \in Nat /\ n = (n - 1) + 1
        BY <2>2
      <4> QED BY <4>1
    <3>2. Off(l) \in Nat /\ Off(n) = Off(l) + Word /\ f + Off(l) < Capacity - Word
      BY <1>2, <2>2, <3>1, OffAt
    <3> QED BY <1>1, <3>2
  <2> QED BY <2>1, <2>2
<1>6. Leftover(f) \in 1 .. Word
  BY <1>1, <1>2, <1>4, <1>5
<1> QED BY <1>3, <1>4, <1>6

\* The pointers of a ring whose used part wraps: those up to the end, the one
\* that is put together, and those behind it.
LEMMA GatheredWrapped ==
  ASSUME NEW q, RingTypes, Queued(q), NEW m \in 1 .. Len(q), UseSize(front, cRear) = Off(m),
         ~(front < cRear)
  PROVE  IsPointers(GatherWrapped(front, cRear), q, 0, m)
<1>1. /\ front \in Positions /\ cRear \in Positions /\ m \in Nat \ {0} /\ Len(q) \in Nat /\ m <= Len(q)
      /\ Word \in Nat \ {0} /\ Word < Capacity /\ buf \in [Positions -> PointerBytes]
  <2>1. Len(q) \in Nat
    BY QueuedAt
  <2>2. Word \in Nat \ {0} /\ Word < Capacity
    BY OffAt
  <2> QED BY <2>1, <2>2 DEF RingTypes
<1>2. PICK n \in Nat, left \in Nat :
        /\ Direct(front) = [i \in 1 .. n |-> front + Off(i - 1)]
        /\ left = Leftover(front) /\ left = Capacity - (front + Off(n)) /\ left \in 1 .. Word
  <2>1. PICK n \in Nat :
          /\ Direct(front) = [i \in 1 .. n |-> front + Off(i - 1)]
          /\ Leftover(front) = Capacity - (front + Off(n)) /\ Leftover(front) \in 1 .. Word
    BY <1>1, DirectIs
  <2>2. PICK left \in Nat : left = Leftover(front)
    BY <1>1, <2>1
  <2> QED BY <2>1, <2>2
<1>3. PICK last \in Nat :
        /\ last = Off(n) /\ front + last + left = Capacity /\ 1 <= left /\ left <= Word
        /\ front \in Nat /\ cRear \in Nat /\ Word \in Nat
  <2>1. Off(n) \in Nat
    BY OffAt
  <2> QED BY <1>1, <1>2, <2>1
<1>4. Off(m) = Capacity - front + cRear
  <2>1. 0 < m /\ Off(0) + Word <= Off(m) /\ Off(0) = 0 /\ Off(m) \in Nat
    <3>1. 0 < m /\ m \in Nat /\ 0 \in Nat
      BY <1>1
    <3> QED BY <3>1, OffAt, OffGrows
  <2> QED BY <1>1, <2>1 DEF UseSize
<1>5. PICK e \in Nat : m = n + 1 + e
  <2>1. n < m
    <3> SUFFICES ASSUME ~(n < m) PROVE FALSE
      OBVIOUS
    <3>1. m = n \/ m < n
      BY <1>1
    <3>2. Off(m) \in Nat /\ Off(m) <= last
      <4>1. m < n => Off(m) + Word <= last
        BY <1>1, <1>3, OffGrows
      <4>2. Off(m) \in Nat
        BY <1>1, OffAt
      <4> QED BY <1>3, <3>1, <4>1, <4>2
    <3> QED BY <1>3, <1>4, <3>2
  <2>2. m - n - 1 \in Nat /\ m = n + 1 + (m - n - 1)
    BY <1>1, <2>1
  <2> QED BY <2>2
<1>6. PICK start \in Nat : start = Word - left
  BY <1>3
<1>7. PICK total \in Nat :
        total = Off(e) /\ cRear = start + total
        /\ \A off \in Nat : At(front, last + Word + off) = start + off
  <2>1. n + 1 \in Nat /\ Off(n + 1) = Off(n) + Word
    BY OffAt
  <2>2. Off(n + 1 + e) = Off(n + 1) + Off(e)
    BY <2>1, OffAdds
  <2>3. PICK total \in Nat : total = Off(e)
    BY OffAt
  <2>4. Capacity - front + cRear = last + Word + total
    BY <1>3, <1>4, <1>5, <2>1, <2>2, <2>3
  <2>5. ASSUME NEW off \in Nat
        PROVE  cRear = start + total /\ At(front, last + Word + off) = start + off
    <3>1. PICK f \in Nat, r \in Nat, w \in Nat :
            /\ f = front /\ r = cRear /\ w = Word
            /\ f + last + left = Capacity /\ left <= w /\ start = w - left
            /\ Capacity - f + r = last + w + total
      BY <1>3, <1>6, <2>4
    <3>2. r = start + total /\ At(f, last + w + off) = start + off
      BY <3>1 DEF At
    <3> QED BY <3>1, <3>2, Zenon
  <2> QED BY <2>3, <2>5
<1>8. PICK direct, straddle, rest :
        /\ direct = PickAt(Direct(front)) /\ straddle = EndPart(front) \o StartPart(front)
        /\ rest = PickAt(Every(start, cRear))
  OBVIOUS
<1>9. IsPointers(direct, q, 0, n)
  <2>1. ASSUME NEW i \in 1 .. n
        PROVE  /\ q[0 + i] \in Packets
               /\ front + Off(i - 1) + Word <= Capacity
               /\ IsPointer(buf, front + Off(i - 1), q[0 + i])
    <3>1. PICK j \in Nat : j = i - 1
      OBVIOUS
    <3>2. j < n /\ i \in 1 .. Len(q) /\ 0 + i = i
      BY <1>1, <1>5, <3>1
    <3>3. Off(j) \in Nat /\ Off(j) + Word <= last
      BY <1>3, <3>2, OffAt, OffGrows
    <3>4. PICK pos : pos = front + Off(j)
      OBVIOUS
    <3>5. pos \in Positions /\ pos + Word <= Capacity /\ pos = At(front, Off(j))
      <4>1. PICK off \in Nat : off = Off(j)
        BY <3>3
      <4>2. off + Word <= last /\ pos = front + off
        BY <3>3, <3>4, <4>1
      <4>3. pos \in Nat /\ pos < Capacity /\ pos + Word <= Capacity
        BY <1>1, <1>3, <4>2
      <4> QED BY <1>3, <4>1, <4>2, <4>3 DEF At
    <3>6. q[i] \in Packets /\ IsPointer(buf, pos, q[i])
      BY <3>1, <3>2, <3>5, QueuedStraight
    <3> QED BY <3>1, <3>2, <3>4, <3>5, <3>6
  <2>2. front \in Nat
    BY <1>1
  <2> QED BY <1>1, <1>2, <1>8, <2>1, <2>2, PointersPicked
<1>10. IsPointers(<<straddle>>, q, 0 + n, 1)
  <2>1. PICK pos : pos = front + last
    OBVIOUS
  <2>2. pos \in Positions /\ pos = Capacity - left /\ pos + left = Capacity /\ pos = At(front, Off(n))
    <3>1. pos \in Nat /\ pos < Capacity /\ pos = Capacity - left /\ pos + left = Capacity
      <4>1. pos \in Nat /\ pos + left = Capacity /\ 1 <= left
        BY <1>3, <2>1
      <4> QED BY <4>1
    <3>2. pos = At(front, last)
      BY <2>1, <3>1 DEF At
    <3>3. At(front, last) = At(front, Off(n))
      BY <1>3, Zenon
    <3> QED BY <3>1, <3>2, <3>3
  <2>3. straddle = Joined(buf, pos, left, start)
    BY <1>2, <1>6, <1>8, <2>2 DEF EndPart, StartPart, Joined
  <2>4. IsCopy(PointerBytes, straddle, buf, pos, Word)
    <3>1. Word \in Nat /\ Word = left + start /\ Word <= Capacity /\ pos + left <= Capacity
      <4>1. Word < Capacity
        BY <1>1
      <4> QED BY <1>3, <1>6, <2>2, <4>1
    <3>2. IsCopy(PointerBytes, Joined(buf, pos, left, start), buf, pos, Word)
      BY <1>1, <2>2, <3>1, CopiedRow
    <3> QED BY <2>3, <3>2, Zenon
  <2>5. n + 1 \in 1 .. Len(q) /\ (n + 1) - 1 = n
    BY <1>1, <1>5
  <2>6. q[n + 1] \in Packets /\ IsPointer(buf, pos, q[n + 1])
    BY <2>2, <2>5, QueuedStraight
  <2>7. straddle = Pointer(q[n + 1]) /\ straddle \in Seq(PointerBytes)
    BY <2>4, <2>6, PointerRead DEF IsCopy
  <2> QED BY <2>7 DEF IsPointers
<1>11. IsPointers(rest, q, n + 1, e)
  <2>1. ASSUME NEW i \in 1 .. e
        PROVE  /\ q[n + 1 + i] \in Packets
               /\ start + Off(i - 1) + Word <= Capacity
               /\ IsPointer(buf, start + Off(i - 1), q[n + 1 + i])
    <3>1. PICK j \in Nat : j = i - 1
      OBVIOUS
    <3>2. PICK k \in Nat : k = n + 1 + i
      OBVIOUS
    <3>3. j < e /\ k \in 1 .. Len(q) /\ k - 1 = n + 1 + j
      BY <1>1, <1>5, <3>1, <3>2
    <3>4. Off(j) \in Nat /\ Off(j) + Word <= Off(e) /\ Off(k - 1) = last + Word + Off(j)
      <4>1. n + 1 \in Nat /\ Off(n + 1) = Off(n) + Word
        BY OffAt
      <4>2. Off(n + 1 + j) = Off(n + 1) + Off(j)
        BY <4>1, OffAdds
      <4>3. Off(j) \in Nat /\ Off(j) + Word <= Off(e)
        BY <3>3, OffAt, OffGrows
      <4> QED BY <1>3, <3>3, <4>1, <4>2, <4>3
    <3>5. PICK off \in Nat, pos \in Nat : off = Off(j) /\ pos = start + Off(j)
      BY <3>4
    <3>6. pos \in Positions /\ pos + Word <= Capacity
      <4>1. start + total < Capacity
        BY <1>1, <1>7
      <4>2. off + Word <= total /\ pos = start + off /\ Word \in Nat \ {0}
        BY <1>1, <1>7, <3>4, <3>5
      <4>3. pos + Word < Capacity
        BY <4>1, <4>2
      <4> QED BY <4>2, <4>3
    <3>7. pos = At(front, Off(k - 1))
      <4>1. PICK a : a = Off(k - 1)
        OBVIOUS
      <4>2. a = last + Word + off /\ pos = start + off
        BY <3>4, <3>5, <4>1
      <4>3. pos = At(front, a)
        BY <1>7, <4>2
      <4> QED BY <4>1, <4>3
    <3>8. q[k] \in Packets /\ IsPointer(buf, pos, q[k])
      BY <3>3, <3>6, <3>7, QueuedStraight
    <3> QED BY <3>1, <3>2, <3>5, <3>6, <3>8
  <2>2. PICK positions : positions = Every(start, cRear)
    OBVIOUS
  <2>3. positions = [i \in 1 .. e |-> start + Off(i - 1)]
    BY <1>7, <2>2, EveryExact
  <2>4. n + 1 \in Nat /\ buf \in [Positions -> PointerBytes]
    BY <1>1
  <2>5. IsPointers(PickAt(positions), q, n + 1, e)
    BY <2>1, <2>3, <2>4, PointersPicked
  <2> QED BY <1>8, <2>2, <2>5
<1>12. IsPointers(direct \o <<straddle>>, q, 0, n + 1)
  BY <1>9, <1>10, PointersJoined
<1>13. IsPointers((direct \o <<straddle>>) \o rest, q, 0, m)
  <2>1. 0 + (n + 1) = n + 1 /\ n + 1 \in Nat
    OBVIOUS
  <2>2. IsPointers((direct \o <<straddle>>) \o rest, q, 0, n + 1 + e)
    BY <1>11, <1>12, <2>1, PointersJoined
  <2> QED BY <1>5, <2>2
<1>14. GatherWrapped(front, cRear) = direct \o <<straddle>> \o rest
  <2>1. Leftover(front) # 0
    BY <1>2
  <2> QED BY <1>2, <1>6, <1>8, <2>1 DEF GatherWrapped, GatherWith
<1> QED BY <1>13, <1>14

\* SetSendWsabufs gathers as many pointers as the size says, those of the
\* oldest packets.
LEMMA StepGather ==
  ASSUME NEW q, RingGood(q), Gather
  PROVE  RingGood(q)'
<1>1. RingTypes /\ Queued(q) /\ Putting /\ cAt = "gather"
  BY DEF RingGood, Gather
<1>2. PICK m \in 1 .. Len(q) : UseSize(front, cRear) = Off(m)
  BY <1>1 DEF RingGood, Gathering
<1>3. m \in Nat /\ m \in 0 .. Len(q) /\ m # 0
  <2>1. Len(q) \in Nat
    BY <1>1, QueuedAt
  <2> QED BY <2>1
<1>4. PICK g : g = gathered'
  OBVIOUS
<1>5. IsPointers(g, q, 0, m)
  <2>1. CASE front < cRear
    <3>1. g = PickAt(Every(front, cRear))
      BY <1>4, <2>1 DEF Gather
    <3> QED BY <1>1, <1>2, <2>1, <3>1, GatheredStraight
  <2>2. CASE ~(front < cRear)
    <3>1. g = GatherWrapped(front, cRear)
      BY <1>4, <2>2 DEF Gather
    <3> QED BY <1>1, <1>2, <2>2, <3>1, GatheredWrapped
  <2> QED BY <2>1, <2>2
<1>6. cAt' = "sent"
  <2>1. UseSize(front, cRear) \div Word = m
    BY <1>2, <1>3, OffDivides
  <2>2. Len(g) = m
    BY <1>5 DEF IsPointers
  <2> QED BY <1>4, <2>1, <2>2 DEF Gather
<1>7. RingTypes'
  BY <1>1, <1>6 DEF Gather, RingTypes
<1>8. Queued(q)' /\ Putting'
  BY <1>1 DEF Gather, Queued, Putting
<1>9. Gathering(q)' /\ Getting(q)'
  BY <1>6 DEF Gathering, Getting
<1>10. Sending(q)'
  BY <1>3, <1>4, <1>5 DEF Sending
<1> QED BY <1>7, <1>8, <1>9, <1>10 DEF RingGood

\* There is a pointer to dequeue for each that was gathered.
LEMMA Unreleased ==
  ASSUME NEW q, RingGood(q), cAt \in {"sent", "take"}, gathered # <<>>
  PROVE  /\ q \in Seq(Packets) /\ Len(q) \in Nat \ {0} /\ q[1] \in Packets
         /\ \E m \in 1 .. Len(q) : IsPointers(gathered, q, 0, m)
<1>1. q \in Seq(Packets)
  BY DEF RingGood, Queued
<1>2. PICK m \in 0 .. Len(q) : IsPointers(gathered, q, 0, m)
  BY DEF RingGood, Sending
<1>3. m # 0
  BY <1>2 DEF IsPointers
<1> QED BY <1>1, <1>2, <1>3

\* The oldest pointer is copied out of the ring.
LEMMA StepDequeueCopy ==
  ASSUME NEW q, RingGood(q), DequeueCopy
  PROVE  RingGood(q)' /\ cAt' = "take"
<1>1. RingTypes /\ Queued(q) /\ cAt = "sent" /\ gathered # <<>>
  BY DEF RingGood, DequeueCopy
<1>2. Len(q) \in Nat \ {0} /\ q[1] \in Packets
  BY <1>1, Unreleased
<1>3. Word \in Nat \ {0} /\ Word < Capacity
  BY OffAt
<1>4. UseSize(front, rear) \in Nat /\ ~(UseSize(front, rear) < Word)
  <2>1. 0 < Len(q) /\ Len(q) \in Nat /\ 0 \in Nat /\ Off(0) = 0
    BY <1>2, OffAt
  <2>2. Off(0) + Word <= Off(Len(q)) /\ Off(Len(q)) \in Nat
    BY <2>1, OffAt, OffGrows
  <2>3. UseSize(front, rear) = Off(Len(q))
    BY <1>1 DEF Queued
  <2> QED BY <1>3, <2>1, <2>2, <2>3
<1>5. cAt' = "take" /\ taken' = Peek(buf, front, Word)
  BY <1>4 DEF DequeueCopy
<1>6. Peek(buf, front, Word) = Pointer(q[1])
  <2>1. front \in Positions /\ buf \in [Positions -> PointerBytes] /\ Word \in 0 .. Capacity
    BY <1>1, <1>3 DEF RingTypes
  <2>2. IsCopy(PointerBytes, Peek(buf, front, Word), buf, front, Word)
    BY <2>1, Peeked
  <2>3. front = At(front, 0)
    BY <2>1 DEF At
  <2>4. Off(1 - 1) = 0 /\ 1 \in 1 .. Len(q)
    BY <1>2, OffAt
  <2>5. IsPointer(buf, front, q[1])
    BY <1>1, <2>1, <2>3, <2>4, QueuedStraight
  <2> QED BY <1>2, <2>2, <2>5, PointerRead
<1>7. RingTypes' /\ Queued(q)' /\ Putting' /\ Gathering(q)' /\ Sending(q)'
  BY <1>5 DEF DequeueCopy, RingGood, RingTypes, Queued, Putting, Gathering, Sending
<1>8. Getting(q)'
  BY <1>5, <1>6 DEF DequeueCopy, Getting
<1> QED BY <1>5, <1>7, <1>8 DEF RingGood

\* The front moves behind it: the packet is dequeued.
LEMMA StepDequeueMove ==
  ASSUME NEW q, RingGood(q), DequeueMove, NEW rest, rest = Tail(q)
  PROVE  RingGood(rest)'
<1>1. RingTypes /\ Queued(q) /\ Putting /\ cAt = "take" /\ gathered # <<>> /\ taken = Pointer(q[1])
  BY DEF RingGood, Getting, DequeueMove
<1>2. /\ q \in Seq(Packets) /\ Len(q) \in Nat \ {0} /\ q[1] \in Packets
      /\ \E m \in 1 .. Len(q) : IsPointers(gathered, q, 0, m)
  BY <1>1, Unreleased
<1>3. PICK n \in Nat : Len(q) = n + 1
  <2>1. Len(q) - 1 \in Nat /\ Len(q) = (Len(q) - 1) + 1
    BY <1>2
  <2> QED BY <2>1
<1>4. rest \in Seq(Packets) /\ Len(rest) = n /\ \A i \in 1 .. n : rest[i] = q[i + 1]
  BY <1>2, <1>3
<1>5. PICK f : f = front'
  OBVIOUS
<1>6. /\ f \in Positions /\ f = At(front, Word) /\ UseSize(f, rear) = Off(n)
      /\ FreeSize(front, rear) \in Nat /\ FreeSize(f, rear) = FreeSize(front, rear) + Word
      /\ Word \in Nat \ {0} /\ front \in Positions /\ rear \in Positions
  <2>1. front \in Positions /\ rear \in Positions /\ Word \in Nat \ {0}
    BY <1>1, OffAt DEF RingTypes
  <2>2. UseSize(front, rear) = Off(n) + Word /\ Off(n) \in Nat
    BY <1>1, <1>3, OffAt DEF Queued
  <2>3. f = Move(front, Word)
    BY <1>5 DEF DequeueMove
  <2>4. f \in Positions /\ f = At(front, Word) /\ UseSize(f, rear) = UseSize(front, rear) - Word
    BY <2>1, <2>2, <2>3, FrontMoves
  <2>5. /\ FreeSize(f, rear) = Capacity - 1 - UseSize(f, rear)
        /\ FreeSize(front, rear) = Capacity - 1 - UseSize(front, rear)
        /\ FreeSize(front, rear) \in 0 .. Capacity - 1
    BY <2>1, <2>4, Sizes
  <2> QED BY <2>1, <2>2, <2>4, <2>5
<1>7. RingTypes'
  BY <1>1, <1>5, <1>6 DEF DequeueMove, RingTypes
<1>8. ASSUME NEW i \in 1 .. n PROVE IsPointer(buf, At(f, Off(i - 1)), rest[i])
  <2>1. PICK j \in Nat, k \in Nat : j = i - 1 /\ k = i + 1 /\ k - 1 = j + 1 /\ j + 1 < Len(q) /\ k \in 1 .. Len(q)
    BY <1>3
  <2>2. Off(j) \in Nat /\ Off(j + 1) = Off(j) + Word
    BY <2>1, OffAt
  <2>3. PICK off \in Nat : off = Off(j) /\ Word + off = Off(k - 1) /\ Word + off <= Capacity
    <3>1. Off(k - 1) + Word <= Off(Len(q)) /\ Off(Len(q)) \in 0 .. Capacity - 1
      BY <1>1, <2>1, QueuedAt
    <3>2. Off(k - 1) = Off(j) + Word
      BY <2>1, <2>2
    <3> QED BY <1>6, <2>2, <3>1, <3>2
  <2>4. At(f, off) = At(front, Word + off)
    BY <1>6, <2>3, AtMoved
  <2>5. IsPointer(buf, At(front, Off(k - 1)), q[k])
    BY <1>1, <2>1 DEF Queued
  <2>6. rest[i] = q[k]
    BY <1>4, <2>1
  <2> QED BY <2>1, <2>3, <2>4, <2>5, <2>6
<1>9. Queued(rest)'
  BY <1>4, <1>5, <1>6, <1>8 DEF DequeueMove, Queued
<1>10. Putting'
  <2>1. pAt' = pAt /\ pPacket' = pPacket /\ buf' = buf /\ rear' = rear
    BY DEF DequeueMove
  <2>2. Word <= FreeSize(f, rear)
    BY <1>6
  <2> QED BY <1>1, <1>5, <2>1, <2>2 DEF Putting
<1>11. Gathering(rest)'
  BY DEF DequeueMove, Gathering
<1>12. Sending(rest)'
  <2>1. PICK m \in 1 .. Len(q) : IsPointers(gathered, q, 0, m)
    BY <1>2
  <2>2. PICK l \in Nat : m = l + 1
    <3>1. m - 1 \in Nat /\ m = (m - 1) + 1
      BY <1>2
    <3> QED BY <3>1
  <2>3. l \in 0 .. n
    BY <1>3, <2>2
  <2>4. PICK Rows : Rows = Seq(PointerBytes)
    OBVIOUS
  <2>5. gathered \in Seq(Rows) /\ Len(gathered) = l + 1 /\ \A i \in 1 .. l + 1 : gathered[i] = Pointer(q[0 + i])
    BY <2>1, <2>2, <2>4 DEF IsPointers
  <2>6. PICK g : g = Tail(gathered)
    OBVIOUS
  <2>7. g \in Seq(Rows) /\ Len(g) = l /\ \A i \in 1 .. l : g[i] = gathered[i + 1]
    BY <2>5, <2>6
  <2>8. \A i \in 1 .. l : g[i] = Pointer(rest[0 + i])
    <3> SUFFICES ASSUME NEW i \in 1 .. l PROVE g[i] = Pointer(rest[0 + i])
      OBVIOUS
    <3>1. i + 1 \in 1 .. l + 1 /\ 0 + i = i /\ 0 + (i + 1) = i + 1 /\ i \in 1 .. n
      BY <2>3
    <3>2. g[i] = gathered[i + 1] /\ gathered[i + 1] = Pointer(q[0 + (i + 1)])
      BY <2>5, <2>7, <3>1
    <3>3. rest[i] = q[i + 1]
      BY <1>4, <3>1
    <3> QED BY <3>1, <3>2, <3>3
  <2>9. IsPointers(g, rest, 0, l)
    BY <2>4, <2>7, <2>8 DEF IsPointers
  <2>10. gathered' = g
    BY <2>6 DEF DequeueMove
  <2> QED BY <1>4, <2>3, <2>9, <2>10 DEF Sending
<1>13. Getting(rest)'
  BY <1>1, <1>2 DEF DequeueMove, Getting
<1> QED BY <1>7, <1>9, <1>10, <1>11, <1>12, <1>13 DEF RingGood

\* Its packet is released.
LEMMA StepDequeued ==
  ASSUME NEW q, RingGood(q), Dequeued
  PROVE  RingGood(q)'
  BY DEF Dequeued, RingGood, RingTypes, Queued, Putting, Gathering, Sending, Getting

\* Initially the ring is empty.
LEMMA RingStarts == RingInit => RingIInv
<1> SUFFICES ASSUME RingInit PROVE RingGood(<<>>)
  BY DEF RingIInv
<1>1. front = 0 /\ rear = 0 /\ cRear = 0 /\ buf = Empty /\ 0 \in Positions
  BY DEF RingInit
<1>2. RingTypes
  BY <1>1 DEF RingInit, RingTypes, Empty, PointerBytes
<1>3. Queued(<<>>)
  <2>1. UseSize(front, rear) = 0 /\ Off(0) = 0
    BY <1>1, OffAt DEF UseSize
  <2>2. <<>> \in Seq(Packets) /\ Len(<<>>) = 0
    OBVIOUS
  <2> QED BY <2>1, <2>2 DEF Queued
<1>4. Putting /\ Gathering(<<>>) /\ Sending(<<>>) /\ Getting(<<>>)
  BY DEF RingInit, Putting, Gathering, Sending, Getting
<1> QED BY <1>2, <1>3, <1>4 DEF RingGood

\* what a step makes of the queued packets
After(q, more) ==
  \/ EnqueuePublish /\ more = Append(q, pPacket)
  \/ DequeueMove /\ more = Tail(q)
  \/ ~ EnqueuePublish /\ ~ DequeueMove /\ more = q

\* Every step preserves the invariant.
LEMMA RingStep ==
  ASSUME NEW q, RingGood(q), RingNext, NEW more, After(q, more)
  PROVE  RingGood(more)'
<1>1. CASE EnqueuePublish
  <2>1. ~ DequeueMove
    BY <1>1, OffAt DEF EnqueuePublish, DequeueMove
  <2>2. more = Append(q, pPacket)
    BY <1>1, <2>1 DEF After
  <2> QED BY <1>1, <2>2, StepEnqueuePublish
<1>2. CASE DequeueMove /\ ~ EnqueuePublish
  <2>1. more = Tail(q)
    BY <1>2 DEF After
  <2> QED BY <1>2, <2>1, StepDequeueMove
<1>3. CASE ~ EnqueuePublish /\ ~ DequeueMove
  <2>1. more = q
    BY <1>3 DEF After
  <2>2. RingGood(q)'
    BY <1>3, StepEnqueueSize, StepEnqueueCopy, StepGatherRead, StepGather, StepDequeueCopy, StepDequeued
       DEF RingNext, Producer, Consumer
  <2> QED BY <2>1, <2>2
<1> QED BY <1>1, <1>2, <1>3

\* Nor does a step that changes nothing disturb it.
LEMMA RingStutters ==
  ASSUME NEW q, RingGood(q), UNCHANGED ringVars
  PROVE  RingGood(q)'
  BY DEF ringVars, RingGood, RingTypes, Queued, Putting, Gathering, Sending, Getting

\* So it always holds.
LEMMA RingInvariance == RingSpec => []RingIInv
<1>1. RingIInv /\ [RingNext]_ringVars => RingIInv'
  <2> SUFFICES ASSUME RingIInv, [RingNext]_ringVars PROVE RingIInv'
    OBVIOUS
  <2>1. PICK q : RingGood(q)
    BY DEF RingIInv
  <2>2. CASE RingNext
    <3>1. PICK more : After(q, more)
      BY Zenon DEF After
    <3>2. RingGood(more)'
      BY <2>1, <2>2, <3>1, RingStep
    <3> QED BY <3>2 DEF RingIInv
  <2>3. CASE UNCHANGED ringVars
    <3>1. RingGood(q)'
      BY <2>1, <2>3, RingStutters
    <3> QED BY <3>1 DEF RingIInv
  <2> QED BY <2>2, <2>3
<1> QED BY <1>1, RingStarts, PTL DEF RingSpec

\* What lies between front and rear, byte by byte, are the pointers of the
\* queued packets.
LEMMA ContentsAre ==
  ASSUME NEW q, RingGood(q)
  PROVE  IsPointers(Contents, q, 0, Len(q)) /\ queue = q
<1>1. RingTypes /\ Queued(q)
  BY DEF RingGood
<1>2. PICK n \in Nat : n = Len(q) /\ UseSize(front, rear) \div Word = n
  BY <1>1, QueuedAt, OffDivides DEF Queued
<1>3. PICK c : c = Contents
  OBVIOUS
<1>4. c = [i \in 1 .. n |-> Peek(buf, Move(front, Off(i - 1)), Word)]
  BY <1>2, <1>3 DEF Contents, Off
<1>5. ASSUME NEW i \in 1 .. n
      PROVE  /\ c[i] \in Seq(PointerBytes) /\ c[i] = Pointer(q[i]) /\ Decode(c[i]) = q[i]
             /\ q[i] \in Packets
  <2>1. PICK off \in Nat : off = Off(i - 1) /\ off <= Capacity /\ i \in 1 .. Len(q)
    <3>1. Off(i - 1) \in Nat /\ Off(i - 1) + Word <= Off(Len(q)) /\ Off(Len(q)) \in 0 .. Capacity - 1
      BY <1>1, <1>2, QueuedAt
    <3>2. Word \in Nat \ {0}
      BY OffAt
    <3> QED BY <1>2, <3>1, <3>2
  <2>2. PICK pos : pos = Move(front, off)
    OBVIOUS
  <2>3. /\ pos \in Positions /\ pos = At(front, off)
        /\ buf \in [Positions -> PointerBytes] /\ Word \in 0 .. Capacity
    <3>1. front \in Positions /\ buf \in [Positions -> PointerBytes]
      BY <1>1 DEF RingTypes
    <3>2. Word \in 0 .. Capacity
      BY OffAt
    <3> QED BY <2>1, <2>2, <3>1, <3>2, Moved
  <2>4. q[i] \in Packets /\ IsPointer(buf, pos, q[i])
    BY <1>1, <2>1, <2>3, QueuedStraight
  <2>5. IsCopy(PointerBytes, Peek(buf, pos, Word), buf, pos, Word)
    BY <2>3, Peeked
  <2>6. c[i] = Peek(buf, pos, Word)
    BY <1>4, <2>1, <2>2
  <2>7. c[i] = Pointer(q[i])
    BY <2>4, <2>5, <2>6, PointerRead
  <2> QED BY <2>4, <2>7, PointerIs
<1>6. c \in Seq(Seq(PointerBytes)) /\ Len(c) = n /\ DOMAIN c = 1 .. n
  <2>1. PICK Rows : Rows = Seq(PointerBytes)
    OBVIOUS
  <2>2. \A i \in 1 .. n : c[i] \in Rows
    BY <1>5, <2>1
  <2>3. PICK at : at = [i \in 1 .. n |-> Move(front, Off(i - 1))]
    OBVIOUS
  <2>4. c = [i \in 1 .. n |-> Peek(buf, at[i], Word)]
    BY <1>4, <2>3
  <2>5. c \in Seq(Rows) /\ Len(c) = n /\ DOMAIN c = 1 .. n
    BY <2>2, <2>4
  <2> QED BY <2>1, <2>5
<1>7. IsPointers(c, q, 0, n)
  BY <1>5, <1>6 DEF IsPointers
<1>8. queue = q
  <2>1. queue = [i \in 1 .. n |-> q[i]]
    BY <1>3, <1>5, <1>6 DEF queue
  <2>2. q \in Seq(Packets)
    BY <1>1 DEF Queued
  <2> QED BY <1>2, <2>1, <2>2
<1> QED BY <1>2, <1>3, <1>7, <1>8

\* WSASend is handed exactly the packets that will be dequeued when it
\* completes, in the order in which they were queued, wherever the ring ends,
\* whatever the size of the ring and of a pointer: neither the assertion of
\* SetSendWsabufs on the number of pointers nor the one of Dequeue fails.
THEOREM Gathered == RingSpec => []GatheredAreQueued
<1>1. RingIInv => GatheredAreQueued
  <2> SUFFICES ASSUME RingIInv PROVE GatheredAreQueued
    OBVIOUS
  <2>1. PICK q : RingGood(q)
    BY DEF RingIInv
  <2>2. RingTypeOK /\ cAt # "break"
    BY <2>1 DEF RingGood, RingTypes, RingTypeOK
  <2>3. ASSUME cAt \in {"sent", "take", "took"} PROVE Seqs!IsPrefix(gathered, Contents)
    <3>1. PICK m \in 0 .. Len(q) : IsPointers(gathered, q, 0, m)
      BY <2>1, <2>3 DEF RingGood, Sending
    <3>2. IsPointers(Contents, q, 0, Len(q)) /\ Len(q) \in Nat
      BY <2>1, ContentsAre, QueuedAt DEF RingGood
    <3>3. PICK Rows, c : Rows = Seq(PointerBytes) /\ c = Contents
      OBVIOUS
    <3>4. /\ gathered \in Seq(Rows) /\ Len(gathered) = m /\ c \in Seq(Rows) /\ Len(c) = Len(q)
          /\ \A i \in 1 .. m : gathered[i] = c[i]
      BY <3>1, <3>2, <3>3 DEF IsPointers
    <3>5. SubSeq(gathered, 1, m) = SubSeq(c, 1, m)
      BY <3>1, <3>2, <3>4
    <3> QED BY <3>1, <3>2, <3>3, <3>4, <3>5 DEF Seqs!IsPrefix
  <2> QED BY <2>2, <2>3 DEF GatheredAreQueued
<1> QED BY <1>1, RingInvariance, PTL

\* What the producer, and the consumer, is in the middle of.
Producing(l, v) == IF l \in {"copy", "publish"} THEN <<"put", v>> ELSE <<"idle">>
Consuming(l, w) ==
  IF l = "take" THEN <<"get">> ELSE IF l = "took" THEN <<"got", Decode(w)>> ELSE <<"idle">>

\* opState, the two of them.
LEMMA CallsAre ==
  /\ opState = [t \in {"producer", "consumer"} |->
                 IF t = "producer" THEN Producing(pAt, pPacket) ELSE Consuming(cAt, taken)]
  /\ opState' = [t \in {"producer", "consumer"} |->
                  IF t = "producer" THEN Producing(pAt', pPacket') ELSE Consuming(cAt', taken')]
  BY DEF opState, Producing, Consuming

\* What a step of the one or of the other does to it.
LEMMA CallMoves ==
  ASSUME NEW x
  PROVE  /\ opState["producer"] = Producing(pAt, pPacket) /\ opState["consumer"] = Consuming(cAt, taken)
         /\ (UNCHANGED <<cAt, taken>> /\ Producing(pAt', pPacket') = x
              => opState' = [opState EXCEPT !["producer"] = x])
         /\ (UNCHANGED <<pAt, pPacket>> /\ Consuming(cAt', taken') = x
              => opState' = [opState EXCEPT !["consumer"] = x])
  BY CallsAre

\* The abstract queue is the packets in the ring, before and after a step.
LEMMA QueueIs ==
  ASSUME NEW CONSTANT q
  PROVE  (RingGood(q) => queue = q) /\ (RingGood(q) => queue = q)'
<1>1. RingGood(q) => queue = q
  BY ContentsAre
<1> QED BY <1>1, PTL

\* Every step is one of the queue's, or leaves it as it is.
LEMMA RingRefines ==
  ASSUME NEW q, RingGood(q), RingNext, NEW more, After(q, more), queue = q, queue' = more
  PROVE  Queue!Next \/ UNCHANGED <<queue, opState>>
<1>1. CASE EnqueueSize
  <2>1. ~ EnqueuePublish /\ ~ DequeueMove /\ UNCHANGED <<cAt, taken>> /\ pAt = "idle"
    BY <1>1 DEF EnqueueSize, EnqueuePublish, DequeueMove
  <2>2. queue' = queue /\ opState["producer"] = <<"idle">>
    BY <2>1, CallMoves DEF After, Producing
  <2>3. CASE pAt' = "copy"
    <3>1. PICK p \in Packets : pPacket' = p
      BY <1>1 DEF EnqueueSize
    <3>2. Producing(pAt', pPacket') = <<"put", p>>
      BY <2>3, <3>1 DEF Producing
    <3>3. opState' = [opState EXCEPT !["producer"] = <<"put", p>>]
      BY <2>1, <3>2, CallMoves
    <3>4. Queue!CallPut("producer")
      BY <2>2, <3>3 DEF Queue!CallPut
    <3> QED BY <3>4 DEF Queue!Next
  <2>4. CASE pAt' = "break"
    <3>1. opState' = opState
      BY <2>1, <2>4, CallsAre DEF Producing
    <3> QED BY <2>2, <3>1
  <2> QED BY <1>1, <2>3, <2>4 DEF EnqueueSize
<1>2. CASE EnqueuePublish
  <2>1. ~ DequeueMove /\ UNCHANGED <<cAt, taken>> /\ pAt = "publish" /\ pAt' = "idle"
    BY <1>2 DEF EnqueuePublish, DequeueMove
  <2>2. queue' = Append(queue, pPacket)
    BY <1>2, <2>1 DEF After
  <2>3. opState["producer"] = <<"put", pPacket>>
    BY <2>1, CallMoves DEF Producing
  <2>4. opState' = [opState EXCEPT !["producer"] = <<"idle">>]
    <3>1. Producing(pAt', pPacket') = <<"idle">>
      BY <2>1 DEF Producing
    <3> QED BY <2>1, <3>1, CallMoves
  <2>5. Queue!DoPut("producer")
    BY <2>2, <2>3, <2>4 DEF Queue!DoPut
  <2> QED BY <2>5 DEF Queue!Next
<1>3. CASE DequeueCopy
  <2>1. ~ EnqueuePublish /\ ~ DequeueMove /\ UNCHANGED <<pAt, pPacket>> /\ cAt = "sent" /\ cAt' = "take"
    BY <1>3, StepDequeueCopy DEF DequeueCopy, EnqueuePublish, DequeueMove
  <2>2. queue' = queue /\ opState["consumer"] = <<"idle">>
    BY <2>1, CallMoves DEF After, Consuming
  <2>3. opState' = [opState EXCEPT !["consumer"] = <<"get">>]
    <3>1. Consuming(cAt', taken') = <<"get">>
      BY <2>1 DEF Consuming
    <3> QED BY <2>1, <3>1, CallMoves
  <2>4. Queue!CallGet("consumer")
    BY <2>2, <2>3 DEF Queue!CallGet
  <2> QED BY <2>4 DEF Queue!Next
<1>4. CASE DequeueMove
  <2>1. ~ EnqueuePublish /\ UNCHANGED <<pAt, pPacket, taken>> /\ cAt = "take" /\ cAt' = "took"
    BY <1>4 DEF DequeueMove, EnqueuePublish
  <2>2. queue' = Tail(queue)
    BY <1>4, <2>1 DEF After
  <2>3. q \in Seq(Packets) /\ Len(q) \in Nat \ {0} /\ q[1] \in Packets /\ taken = Pointer(q[1])
    BY <1>4, Unreleased DEF RingGood, Getting, DequeueMove
  <2>4. queue # <<>> /\ Head(queue) = q[1] /\ Decode(taken') = q[1]
    BY <2>1, <2>3, PointerIs
  <2>5. opState["consumer"] = <<"get">>
    BY <2>1, CallMoves DEF Consuming
  <2>6. opState' = [opState EXCEPT !["consumer"] = <<"got", Head(queue)>>]
    <3>1. Consuming(cAt', taken') = <<"got", Head(queue)>>
      BY <2>1, <2>4 DEF Consuming
    <3> QED BY <2>1, <3>1, CallMoves
  <2>7. Queue!DoGet("consumer")
    BY <2>2, <2>4, <2>5, <2>6 DEF Queue!DoGet
  <2> QED BY <2>7 DEF Queue!Next
<1>5. CASE Dequeued
  <2>1. ~ EnqueuePublish /\ ~ DequeueMove /\ UNCHANGED <<pAt, pPacket>> /\ cAt = "took"
        /\ cAt' \in {"idle", "sent"}
    BY <1>5 DEF Dequeued, EnqueuePublish, DequeueMove
  <2>2. queue' = queue /\ opState["consumer"][1] = "got"
    BY <2>1, CallMoves DEF After, Consuming
  <2>3. opState' = [opState EXCEPT !["consumer"] = <<"idle">>]
    <3>1. Consuming(cAt', taken') = <<"idle">>
      BY <2>1 DEF Consuming
    <3> QED BY <2>1, <3>1, CallMoves
  <2>4. Queue!Return("consumer")
    BY <2>2, <2>3 DEF Queue!Return
  <2> QED BY <2>4 DEF Queue!Next
<1>6. CASE EnqueueCopy
  <2>1. ~ EnqueuePublish /\ ~ DequeueMove /\ UNCHANGED <<pPacket, cAt, taken>>
        /\ pAt = "copy" /\ pAt' = "publish"
    BY <1>6 DEF EnqueueCopy, EnqueuePublish, DequeueMove
  <2>2. opState' = opState
    BY <2>1, CallsAre DEF Producing
  <2> QED BY <2>1, <2>2 DEF After
<1>7. CASE GatherRead \/ Gather
  <2>1. ~ EnqueuePublish /\ ~ DequeueMove /\ UNCHANGED <<pAt, pPacket, taken>>
        /\ cAt \in {"idle", "gather"} /\ cAt' \in {"gather", "sent", "break"}
    BY <1>7 DEF GatherRead, Gather, EnqueuePublish, DequeueMove
  <2>2. opState' = opState
    BY <2>1, CallsAre DEF Consuming
  <2> QED BY <2>1, <2>2 DEF After
<1> QED BY <1>1, <1>2, <1>3, <1>4, <1>5, <1>6, <1>7 DEF RingNext, Producer, Consumer

\* The ring is a queue of packets: Enqueue takes effect when the rear index is
\* stored and Dequeue when the front index is, and what comes out is a whole
\* pointer, the oldest, for every size of the ring and of a pointer.
THEOREM LinearizableRing == RingSpec => Linearizable
<1>1. RingInit => Queue!Init
  <2> SUFFICES ASSUME RingInit PROVE Queue!Init
    OBVIOUS
  <2>1. PICK q : q = <<>>
    OBVIOUS
  <2>2. queue = <<>>
    <3>1. UseSize(front, rear) = 0 /\ 0 \div Word = 0
      BY OffAt, OffDivides DEF RingInit, UseSize
    <3>2. Contents = [i \in 1 .. 0 |-> Peek(buf, Move(front, (i - 1) * Word), Word)]
      BY <3>1 DEF Contents
    <3>3. DOMAIN Contents = {}
      BY <3>2
    <3> QED BY <3>3 DEF queue
  <2>3. opState = [t \in {"producer", "consumer"} |-> <<"idle">>]
    BY DEF RingInit, opState
  <2> QED BY <2>2, <2>3 DEF Queue!Init
<1>2. RingIInv /\ [RingNext]_ringVars => [Queue!Next]_<<queue, opState>>
  <2> SUFFICES ASSUME RingIInv, [RingNext]_ringVars PROVE Queue!Next \/ UNCHANGED <<queue, opState>>
    OBVIOUS
  <2>1. PICK q : RingGood(q)
    BY DEF RingIInv
  <2>2. CASE UNCHANGED ringVars
    BY <2>2 DEF ringVars, queue, Contents, opState
  <2>3. CASE RingNext
    <3>1. PICK more : After(q, more)
      BY Zenon DEF After
    <3>2. queue = q /\ queue' = more
      <4>1. RingGood(more)'
        BY <2>1, <2>3, <3>1, RingStep
      <4> QED BY <2>1, <4>1, QueueIs
    <3> QED BY <2>1, <2>3, <3>1, <3>2, RingRefines
  <2> QED BY <2>2, <2>3
<1> QED BY <1>1, <1>2, RingInvariance, PTL DEF RingSpec, Linearizable, Queue!Spec

(***************************************************************************)
(* What the clients of a server get back                                   *)
(*                                                                         *)
(* What the promise of EchoService comes to, for any clients, any limit    *)
(* and any number of messages.  LanServerProofs, RingServerProofs and      *)
(* LockedServerProofs show that the servers keep the promise, so they      *)
(* inherit what is proved here.                                            *)
(***************************************************************************)
CONSTANTS Conns, MaxServed, First
VARIABLES status, ending, arrived, echoed
Service == INSTANCE EchoService

\* The constants as the servers choose them: the first packet is the login
\* packet or the first echo.
ServiceConstants == IsFiniteSet(Conns) /\ MaxServed \in Nat /\ First \in {0, 1}

\* A client receives packets First, First + 1, ... without a gap, a double or
\* a stranger's, and none before the message it answers has arrived.
InOrder ==
  \A c \in Conns :
    /\ \A i \in DOMAIN echoed[c] : echoed[c][i] = First + i - 1
    /\ First + Len(echoed[c]) <= arrived[c] + 1

\* No more than the limit are served, and none is dropped without a reason.
Bounded == Cardinality(Service!Served) <= MaxServed
Reasoned == \A c \in Conns : status[c] = "gone" => ending[c]

\* Every variable stays in its range.
ServiceTypeOK ==
  /\ status \in [Conns -> {"new", "served", "gone"}] /\ ending \in [Conns -> BOOLEAN]
  /\ arrived \in [Conns -> Nat] /\ echoed \in [Conns -> Seq(Int)]

ServiceInv == ServiceConstants /\ ServiceTypeOK /\ InOrder /\ Bounded /\ Reasoned

\* n more packets: what the new sequence holds.
LEMMA MorePackets ==
  ASSUME NEW s \in Seq(Int), NEW n \in Nat, NEW f \in Int
  PROVE  LET more == s \o [i \in 1 .. n |-> f + i - 1] IN
         /\ more \in Seq(Int) /\ Len(more) = Len(s) + n
         /\ \A i \in 1 .. Len(s) : more[i] = s[i]
         /\ \A i \in Len(s) + 1 .. Len(s) + n : more[i] = f + (i - Len(s)) - 1
<1> DEFINE t == [i \in 1 .. n |-> f + i - 1]
<1>1. t \in Seq(Int) /\ Len(t) = n /\ \A i \in 1 .. n : t[i] = f + i - 1
  OBVIOUS
<1> HIDE DEF t
<1>2. s \o t \in Seq(Int) /\ Len(s \o t) = Len(s) + n
  BY <1>1, SMTT(30)
<1>3. \A i \in 1 .. Len(s) : (s \o t)[i] = s[i]
  BY <1>1
<1>4. ASSUME NEW i \in Len(s) + 1 .. Len(s) + n
      PROVE  (s \o t)[i] = f + (i - Len(s)) - 1
  <2>1. i - Len(s) \in 1 .. n
    OBVIOUS
  <2>2. (s \o t)[i] = t[i - Len(s)]
    BY <1>1, <2>1
  <2> QED BY <1>1, <2>1, <2>2
<1> QED BY <1>2, <1>3, <1>4 DEF t

\* Whether a connection is served is all that its limit looks at.
LEMMA FewerServed ==
  ASSUME ServiceInv, Service!Served' \subseteq Service!Served
  PROVE  Bounded'
<1>1. IsFiniteSet(Service!Served)
  BY FS_Subset DEF ServiceInv, ServiceConstants, Service!Served
<1>2. /\ Cardinality(Service!Served') <= Cardinality(Service!Served)
      /\ Cardinality(Service!Served') \in Nat
      /\ Cardinality(Service!Served) \in Nat
  BY <1>1, FS_Subset, FS_CardinalityType
<1> QED BY <1>2 DEF ServiceInv, ServiceConstants, Bounded

\* The promise holds of a service nobody has connected to yet.
LEMMA ServiceInitially == ServiceConstants /\ Service!Init => ServiceInv
<1> SUFFICES ASSUME ServiceConstants, Service!Init PROVE ServiceInv
  OBVIOUS
<1>1. ServiceTypeOK /\ InOrder /\ Reasoned
  BY DEF Service!Init, ServiceTypeOK, InOrder, Reasoned, ServiceConstants
<1>2. Service!Served = {}
  BY DEF Service!Init, Service!Served
<1>3. Bounded
  BY <1>2, FS_EmptySet DEF Bounded, ServiceConstants
<1> QED BY <1>1, <1>3 DEF ServiceInv

\* Each step keeps it: only Accept adds to Served, only Echo to what a client
\* received, and a reason to end a connection never goes away.
LEMMA ServiceStep == ServiceInv /\ [Service!Next]_(Service!vars) => ServiceInv'
<1> SUFFICES ASSUME ServiceInv, [Service!Next]_(Service!vars)
             PROVE  ServiceTypeOK' /\ InOrder' /\ Bounded' /\ Reasoned'
  BY DEF ServiceInv, ServiceConstants
<1> USE DEF ServiceInv, ServiceConstants, ServiceTypeOK
<1>1. CASE UNCHANGED Service!vars
  BY <1>1 DEF Service!vars, InOrder, Bounded, Reasoned, Service!Served
<1>2. CASE Service!AskAll
  <2>1. Service!Served' = Service!Served
    BY <1>2 DEF Service!AskAll, Service!Served
  <2> QED BY <1>2, <2>1 DEF Service!AskAll, InOrder, Bounded, Reasoned
<1>3. ASSUME NEW c \in Conns, Service!Accept(c)
      PROVE  ServiceTypeOK' /\ InOrder' /\ Bounded' /\ Reasoned'
  <2>1. Service!Served' = Service!Served \cup {c} /\ c \notin Service!Served
    BY <1>3 DEF Service!Accept, Service!Served
  <2>2. IsFiniteSet(Service!Served)
    BY FS_Subset DEF Service!Served
  <2>3. /\ Cardinality(Service!Served') = Cardinality(Service!Served) + 1
        /\ Cardinality(Service!Served) \in Nat
    BY <2>1, <2>2, FS_AddElement, FS_CardinalityType
  <2>4. Service!Cardinality(Service!Served) = Cardinality(Service!Served)
    BY Zenon DEF Service!Cardinality, Cardinality
  <2>5. Bounded'
    BY <1>3, <2>3, <2>4 DEF Service!Accept, Bounded
  <2> QED BY <1>3, <2>5 DEF Service!Accept, InOrder, Reasoned
<1>4. ASSUME NEW c \in Conns, Service!AskEnd(c)
      PROVE  ServiceTypeOK' /\ InOrder' /\ Bounded' /\ Reasoned'
  <2>1. Service!Served' = Service!Served
    BY <1>4 DEF Service!AskEnd, Service!Served
  <2> QED BY <1>4, <2>1 DEF Service!AskEnd, InOrder, Bounded, Reasoned
<1>5. ASSUME NEW c \in Conns, Service!End(c)
      PROVE  ServiceTypeOK' /\ InOrder' /\ Bounded' /\ Reasoned'
  <2>1. Bounded'
    <3>1. Service!Served' \subseteq Service!Served
      BY <1>5 DEF Service!End, Service!Served
    <3> QED BY <3>1, FewerServed
  <2> QED BY <1>5, <2>1 DEF Service!End, InOrder, Reasoned
<1>6. ASSUME NEW c \in Conns, NEW n, Service!Arrive(c, n)
      PROVE  ServiceTypeOK' /\ InOrder' /\ Bounded' /\ Reasoned'
  <2>1. arrived' \in [Conns -> Nat] /\ \A d \in Conns : arrived'[d] >= arrived[d]
    BY <1>6 DEF Service!Arrive
  <2>2. Service!Served' = Service!Served
    BY <1>6 DEF Service!Arrive, Service!Served
  <2>3. InOrder'
    BY <1>6, <2>1 DEF Service!Arrive, InOrder
  <2> QED BY <1>6, <2>1, <2>2, <2>3 DEF Service!Arrive, Bounded, Reasoned
<1>7. ASSUME NEW c \in Conns, NEW n, Service!Echo(c, n)
      PROVE  ServiceTypeOK' /\ InOrder' /\ Bounded' /\ Reasoned'
  <2> DEFINE f == First + Len(echoed[c])
             more == echoed[c] \o [i \in 1 .. n |-> f + i - 1]
  <2>1. n \in Nat /\ f \in Int /\ f + n - 1 <= arrived[c] /\ echoed[c] \in Seq(Int)
    BY <1>7 DEF Service!Echo
  <2>2. /\ more \in Seq(Int) /\ Len(more) = Len(echoed[c]) + n
        /\ \A i \in 1 .. Len(echoed[c]) : more[i] = echoed[c][i]
        /\ \A i \in Len(echoed[c]) + 1 .. Len(echoed[c]) + n :
             more[i] = f + (i - Len(echoed[c])) - 1
    <3> HIDE DEF f
    <3> QED BY <2>1, MorePackets
  <2>3. echoed' = [echoed EXCEPT ![c] = more]
    BY <1>7 DEF Service!Echo
  <2> HIDE DEF more
  <2>4. echoed' \in [Conns -> Seq(Int)] /\ echoed'[c] = more
    BY <2>2, <2>3
  <2>5. \A i \in DOMAIN more : more[i] = First + i - 1
    <3> SUFFICES ASSUME NEW i \in 1 .. Len(more) PROVE more[i] = First + i - 1
      BY <2>2
    <3> DEFINE k == Len(echoed[c])
    <3>1. k \in Nat /\ Len(more) = k + n /\ DOMAIN echoed[c] = 1 .. k
      BY <2>1, <2>2
    <3>2. CASE i \in 1 .. k
      BY <2>2, <3>1, <3>2 DEF InOrder
    <3>3. CASE i \in k + 1 .. k + n
      BY <2>2, <3>1, <3>3
    <3> HIDE DEF k
    <3> QED BY <2>1, <3>1, <3>2, <3>3
  <2>6. First + Len(more) <= arrived[c] + 1
    BY <2>1, <2>2
  <2>7. InOrder'
    <3> SUFFICES ASSUME NEW d \in Conns
                 PROVE  /\ \A i \in DOMAIN echoed'[d] : echoed'[d][i] = First + i - 1
                        /\ First + Len(echoed'[d]) <= arrived'[d] + 1
      BY DEF InOrder
    <3>1. arrived' = arrived
      BY <1>7 DEF Service!Echo
    <3>2. CASE d = c
      BY <2>4, <2>5, <2>6, <3>1, <3>2
    <3>3. CASE d # c
      BY <2>3, <3>1, <3>3 DEF InOrder
    <3> QED BY <3>2, <3>3
  <2>8. Service!Served' = Service!Served
    BY <1>7 DEF Service!Echo, Service!Served
  <2> QED BY <1>7, <2>4, <2>7, <2>8 DEF Service!Echo, Bounded, Reasoned
<1>8. ASSUME Service!Next PROVE ServiceTypeOK' /\ InOrder' /\ Bounded' /\ Reasoned'
  BY <1>2, <1>3, <1>4, <1>5, <1>6, <1>7, <1>8 DEF Service!Next
<1> QED BY <1>1, <1>8

\* The promise, for every number of connections and every limit: each client
\* receives the packets due to it, in their order, each once and none early;
\* no more than the limit are served; none is dropped without a reason.
THEOREM Promise == ServiceConstants /\ Service!Spec => [](InOrder /\ Bounded /\ Reasoned)
<1>1. ServiceInv => InOrder /\ Bounded /\ Reasoned
  BY DEF ServiceInv
<1> QED BY <1>1, ServiceInitially, ServiceStep, PTL DEF Service!Spec
=============================================================================
