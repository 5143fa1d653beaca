---------------------------- MODULE PacketProofs ----------------------------
(***************************************************************************)
(* Theorems about Packet, for a packet of any capacity, any types, and any *)
(* number of sessions it is sent to.                                       *)
(***************************************************************************)
EXTENDS Packet, FiniteSetTheorems, TLAPS

(***************************************************************************)
(* The inductive invariant                                                 *)
(***************************************************************************)
\* the sessions that hold a reference
Holders == {s \in Sessions : sender[s] \in Keeping}

Types ==
  /\ front \in Nat /\ rear \in 0 .. Capacity /\ front <= rear
  /\ buf \in Bytes /\ refs \in Nat /\ deletes \in 0 .. 1
  /\ creator \in {"build", "delete", "done"}
  /\ sender \in [Sessions -> Places] /\ broken \subseteq Sessions
  /\ len \in [Sessions -> 0 .. Capacity]
  /\ clears \in 0 .. MaxClears /\ ended \in BOOLEAN
  /\ wrote \in Seq(Nat) /\ got \in Seq(Nat) /\ received \in [Sessions -> Seq(Nat)]

\* a reference of the creator and one of each holder
Counted == refs = Cardinality(Holders) + IF creator = "build" THEN 1 ELSE 0

\* who took the last reference is alone
LastAlone ==
  /\ creator = "delete" =>
       refs = 0 /\ deletes = 0 /\ \A s \in Sessions : sender[s] # "delete"
  /\ \A s \in Sessions : sender[s] = "delete" =>
       refs = 0 /\ deletes = 0 /\ \A u \in Sessions : sender[u] = "delete" => u = s
  /\ deletes = 1 =>
       refs = 0 /\ creator # "delete" /\ \A s \in Sessions : sender[s] # "delete"

\* the buffer holds what was written, and what was read is its beginning
Content ==
  /\ Len(wrote) = rear /\ \A k \in 1 .. rear : buf[k] = wrote[k]
  /\ Len(got) = front /\ \A k \in 1 .. front : got[k] = wrote[k]

\* nothing is written once the packet is queued
Sent ==
  \A s \in Sessions :
    /\ sender[s] = "posted" => len[s] = rear
    /\ received[s] \in {<<>>, wrote} /\ (sender[s] = "none" => received[s] = <<>>)
    /\ sender[s] \in {"delete", "done"} /\ s \notin broken => received[s] = wrote

IInv == Types /\ Counted /\ LastAlone /\ Content /\ Sent

LEMMA Constants ==
  /\ Capacity \in Nat \ {0} /\ MaxClears \in Nat /\ IsFiniteSet(Sessions)
  /\ \A n \in Widths : n \in Nat
BY PacketAssumption

\* What a sequence holds that is part of another, or two others joined.
LEMMA Piece ==
  ASSUME NEW q \in Seq(Nat), NEW a \in Nat, NEW n \in Nat, a + n <= Len(q)
  PROVE  LET p == SubSeq(q, a + 1, a + n) IN
         p \in Seq(Nat) /\ Len(p) = n /\ \A k \in 1 .. n : p[k] = q[a + k]
<1> DEFINE p == SubSeq(q, a + 1, a + n)
<1>1. \A i \in a + 1 .. a + n : i \in 1 .. Len(q)
  OBVIOUS
<1>2. p \in Seq(Nat) /\ Len(p) = n
  OBVIOUS
<1>3. \A k \in 1 .. n : p[k] = q[a + k]
  OBVIOUS
<1> QED BY <1>2, <1>3

LEMMA Joined ==
  ASSUME NEW q \in Seq(Nat), NEW p \in Seq(Nat)
  PROVE  /\ q \o p \in Seq(Nat) /\ Len(q \o p) = Len(q) + Len(p)
         /\ \A k \in 1 .. Len(q) : (q \o p)[k] = q[k]
         /\ \A k \in Len(q) + 1 .. Len(q) + Len(p) : (q \o p)[k] = p[k - Len(q)]
OBVIOUS

(***************************************************************************)
(* The contents                                                            *)
(***************************************************************************)
\* n bytes are appended, or taken, or everything is dropped; the senders see
\* nothing of it.
LEMMA Written ==
  ASSUME IInv, NEW n \in Nat, rear + n <= Capacity, Unsent, WriteAt(rear, n)
  PROVE  IInv'
<1> DEFINE new == [k \in 1 .. n |-> 16 * clears + rear + k]
<1>0. /\ rear \in Nat /\ Capacity \in Nat /\ clears \in Nat /\ front \in Nat /\ front <= rear
      /\ buf \in [1 .. Capacity -> Nat] /\ wrote \in Seq(Nat) /\ Len(wrote) = rear
  BY Constants DEF IInv, Types, Content, Bytes
<1>1. new \in Seq(Nat) /\ Len(new) = n /\ \A k \in 1 .. n : new[k] = 16 * clears + rear + k
  <2>1. \A k \in 1 .. n : 16 * clears + rear + k \in Nat
    BY <1>0
  <2> QED BY <2>1
<1>2. /\ wrote' \in Seq(Nat) /\ Len(wrote') = rear + n
      /\ \A k \in 1 .. rear : wrote'[k] = wrote[k]
      /\ \A k \in rear + 1 .. rear + n : wrote'[k] = 16 * clears + k
  <2> HIDE DEF new
  <2>1. wrote' = wrote \o new
    BY DEF WriteAt, new
  <2>2. \A k \in rear + 1 .. rear + n : new[k - rear] = 16 * clears + k
    BY <1>0, <1>1
  <2> QED BY <1>0, <1>1, <2>1, <2>2, Joined
<1>3. /\ buf' \in Bytes /\ \A k \in 1 .. rear : buf'[k] = buf[k]
      /\ \A k \in rear + 1 .. rear + n : buf'[k] = 16 * clears + k
  <2>1. \A k \in 1 .. Capacity : 16 * clears + rear - rear + k = 16 * clears + k
                                 /\ 16 * clears + k \in Nat
    BY <1>0
  <2>2. buf' = [k \in 1 .. Capacity |->
                 IF k \in rear + 1 .. rear + n THEN 16 * clears + k ELSE buf[k]]
    BY <2>1 DEF WriteAt, Stored
  <2> QED BY <1>0, <2>1, <2>2 DEF Bytes
<1>4. Types'
  BY <1>0, <1>2, <1>3 DEF IInv, Types, WriteAt, sharing
<1>5. Counted' /\ LastAlone'
  BY DEF IInv, Counted, LastAlone, Holders, Keeping, WriteAt, sharing
<1>6. Content'
  <2>1. rear' = rear + n /\ front' = front /\ got' = got
    BY DEF WriteAt
  <2>2. ASSUME NEW k \in 1 .. rear + n PROVE buf'[k] = wrote'[k]
    <3>1. CASE k \in 1 .. rear
      <4>1. buf[k] = wrote[k]
        BY <3>1 DEF IInv, Content
      <4>2. wrote'[k] = wrote[k]
        BY ONLY <1>2, <3>1
      <4>3. buf'[k] = buf[k]
        BY ONLY <1>3, <3>1
      <4> QED BY ONLY <4>1, <4>2, <4>3
    <3>2. CASE k \in rear + 1 .. rear + n
      BY <1>2, <1>3, <3>2
    <3> QED BY <1>0, <3>1, <3>2
  <2>3. ASSUME NEW k \in 1 .. front PROVE got[k] = wrote'[k]
    BY <1>0, <1>2 DEF IInv, Content
  <2> QED BY <1>2, <2>1, <2>2, <2>3 DEF IInv, Content
<1>7. Sent'
  BY DEF IInv, Sent, Unsent, WriteAt, sharing
<1> QED BY <1>4, <1>5, <1>6, <1>7 DEF IInv

LEMMA WritesStep ==
  ASSUME IInv, Writes
  PROVE  IInv'
<1>0. rear \in Nat /\ Capacity \in Nat /\ \A m \in Widths : m \in Nat
  BY Constants DEF IInv, Types
<1>1. CASE Throw
  BY <1>1 DEF Throw, IInv, Types, Counted, LastAlone, Content, Sent, Holders, content, sharing
<1>2. CASE ~ Throw
  <2>1. PICK n \in Nat : rear + n <= Capacity /\ WriteAt(rear, n)
    BY <1>0, <1>2 DEF Writes, Insert, InsertChar, MoveWritePos
  <2> QED BY <2>1, Written DEF Writes
<1> QED BY <1>1, <1>2

LEMMA Read ==
  ASSUME IInv, NEW n \in Nat, front + n <= rear, NEW q,
         q = buf \/ q = wrote,
         front' = front + n, got' = got \o SubSeq(q, front + 1, front + n),
         UNCHANGED <<rear, buf, wrote, clears, sharing, ended>>
  PROVE  IInv'
<1>0. /\ rear \in Nat /\ Capacity \in Nat /\ rear <= Capacity /\ front \in Nat
      /\ buf \in Seq(Nat) /\ Len(buf) = Capacity
      /\ wrote \in Seq(Nat) /\ Len(wrote) = rear /\ got \in Seq(Nat) /\ Len(got) = front
      /\ \A k \in 1 .. rear : buf[k] = wrote[k]
      /\ \A k \in 1 .. front : got[k] = wrote[k]
  BY Constants DEF IInv, Types, Content, Bytes
<1>1. q \in Seq(Nat) /\ front + n <= Len(q) /\ \A k \in 1 .. rear : q[k] = wrote[k]
  <2>0. front + n <= Capacity /\ front + n <= rear
    BY <1>0
  <2>1. CASE q = buf
    BY ONLY <1>0, <2>0, <2>1, Zenon
  <2>2. CASE q = wrote
    BY ONLY <1>0, <2>0, <2>2, Zenon
  <2> QED BY <2>1, <2>2
<1> DEFINE new == SubSeq(q, front + 1, front + n)
<1>2. new \in Seq(Nat) /\ Len(new) = n /\ \A k \in 1 .. n : new[k] = q[front + k]
  <2>1. q \in Seq(Nat) /\ front \in Nat /\ n \in Nat /\ front + n <= Len(q)
    BY <1>0, <1>1
  <2> QED BY ONLY <2>1, Piece, Zenon
<1>3. /\ got' \in Seq(Nat) /\ Len(got') = front + n
      /\ \A k \in 1 .. front + n : got'[k] = wrote[k]
  <2> HIDE DEF new
  <2>1. got' = got \o new
    BY DEF new
  <2>2. ASSUME NEW k \in front + 1 .. front + n PROVE new[k - front] = wrote[k]
    <3>1. k - front \in 1 .. n /\ front + (k - front) = k /\ k \in 1 .. rear
      BY <1>0
    <3> QED BY <1>1, <1>2, <3>1
  <2>3. /\ got' \in Seq(Nat) /\ Len(got') = front + n
        /\ \A k \in 1 .. front : got'[k] = got[k]
        /\ \A k \in front + 1 .. front + n : got'[k] = new[k - front]
    <3>1. got \in Seq(Nat) /\ new \in Seq(Nat) /\ Len(got) = front /\ Len(new) = n
      BY <1>0, <1>2
    <3> QED BY ONLY <2>1, <3>1, Joined, Zenon
  <2>4. \A k \in 1 .. front + n : k \in 1 .. front \/ k \in front + 1 .. front + n
    BY <1>0
  <2> QED BY <1>0, <2>2, <2>3, <2>4
<1>4. Types'
  BY <1>0, <1>3 DEF IInv, Types, sharing
<1>5. Counted' /\ LastAlone' /\ Sent'
  BY DEF IInv, Counted, LastAlone, Sent, Holders, sharing
<1>6. Content'
  BY <1>0, <1>3 DEF IInv, Content
<1> QED BY <1>4, <1>5, <1>6 DEF IInv

LEMMA ReadsStep ==
  ASSUME IInv, Reads
  PROVE  IInv'
<1>0. rear \in Nat /\ front \in Nat /\ \A m \in Widths : m \in Nat
  BY Constants DEF IInv, Types
<1>1. CASE Throw
  BY <1>1 DEF Throw, IInv, Types, Counted, LastAlone, Content, Sent, Holders, content, sharing
<1>2. CASE ~ Throw
  <2>1. PICK n \in Widths : Extract(n) \/ MoveReadPos(n)
    BY DEF Reads
  <2>2. CASE Extract(n)
    <3>1. n \in Nat /\ front + n <= rear
      BY <1>0, <1>2, <2>2 DEF Extract
    <3> QED BY <1>2, <2>2, <3>1, Read DEF Extract
  <2>3. CASE MoveReadPos(n)
    <3>1. n \in Nat /\ front + n <= rear
      BY <1>0, <1>2, <2>3 DEF MoveReadPos
    <3> QED BY <1>2, <2>3, <3>1, Read DEF MoveReadPos
  <2> QED BY <2>1, <2>2, <2>3
<1> QED BY <1>1, <1>2

LEMMA ClearStep ==
  ASSUME IInv, Clear
  PROVE  IInv'
<1>1. Types'
  BY Constants DEF IInv, Types, Clear, sharing
<1>2. Counted' /\ LastAlone'
  BY DEF IInv, Counted, LastAlone, Holders, Clear, sharing
<1>3. Content'
  BY DEF Content, Clear
<1>4. Sent'
  BY DEF IInv, Sent, Unsent, Clear, sharing
<1> QED BY <1>1, <1>2, <1>3, <1>4 DEF IInv


(***************************************************************************)
(* The references                                                          *)
(***************************************************************************)
\* A session takes or drops a reference: Holders has one element more or less.
LEMMA OneHolderMore ==
  ASSUME IInv, NEW s \in Sessions, sender[s] = "none",
         sender' = [sender EXCEPT ![s] = "queued"]
  PROVE  Cardinality(Holders') = Cardinality(Holders) + 1
<1>1. Holders' = Holders \cup {s} /\ s \notin Holders
  BY DEF Holders, Keeping, IInv, Types
<1>2. IsFiniteSet(Holders)
  BY Constants, FS_Subset DEF Holders
<1> QED BY <1>1, <1>2, FS_AddElement

LEMMA OneHolderLess ==
  ASSUME IInv, NEW s \in Sessions, NEW l \in {"delete", "done"}, sender[s] \in Keeping,
         sender' = [sender EXCEPT ![s] = l]
  PROVE  /\ Cardinality(Holders') = Cardinality(Holders) - 1
         /\ Cardinality(Holders) \in Nat \ {0}
<1>1. Holders' = Holders \ {s} /\ s \in Holders
  BY DEF Holders, Keeping, IInv, Types
<1>2. IsFiniteSet(Holders)
  BY Constants, FS_Subset DEF Holders
<1>3. IsFiniteSet(Holders') /\ Cardinality(Holders') = Cardinality(Holders) - 1
  BY <1>1, <1>2, FS_RemoveElement
<1>4. Cardinality(Holders) \in Nat /\ Cardinality(Holders') \in Nat
  BY <1>2, <1>3, FS_CardinalityType
<1> QED BY <1>3, <1>4

LEMMA SendPacketStep ==
  ASSUME IInv, SendPacket
  PROVE  IInv'
<1>1. PICK s \in Sessions :
        sender[s] = "none" /\ AddRef /\ sender' = [sender EXCEPT ![s] = "queued"]
  BY DEF SendPacket
<1>2. refs \in Nat /\ refs' = refs + 1 /\ creator = "build" /\ creator' = creator
  BY <1>1 DEF IInv, Types, SendPacket, Building, AddRef
<1>3. Cardinality(Holders) \in Nat
  BY Constants, FS_Subset, FS_CardinalityType DEF Holders
<1>4. refs # 0
  BY <1>2, <1>3 DEF IInv, Counted
<1>5. Types'
  BY <1>1, <1>2 DEF IInv, Types, Places, Keeping, SendPacket, content
<1>6. Counted'
  BY <1>1, <1>2, <1>3, OneHolderMore DEF IInv, Counted
<1>7. LastAlone'
  BY <1>1, <1>2, <1>4 DEF IInv, Types, LastAlone, SendPacket
<1>8. Content'
  BY DEF IInv, Content, SendPacket, content
<1>9. Sent'
  BY <1>1 DEF IInv, Types, Sent, SendPacket, content
<1> QED BY <1>5, <1>6, <1>7, <1>8, <1>9 DEF IInv

\* A session keeps the packet in another place.
LEMMA Kept ==
  ASSUME IInv, NEW s \in Sessions, sender[s] \in Keeping, NEW to \in Keeping,
         sender' = [sender EXCEPT ![s] = to],
         len' \in [Sessions -> 0 .. Capacity],
         \A u \in Sessions : u # s => len'[u] = len[u],
         to = "posted" => len'[s] = rear,
         UNCHANGED <<content, refs, deletes, creator, received, broken, ended>>
  PROVE  IInv'
<1>1. Types'
  BY DEF IInv, Types, Places, content
<1>2. Holders' = Holders
  BY DEF Holders, IInv, Types
<1>3. to \notin {"none", "delete", "done"} /\ sender' \in [Sessions -> Places]
  BY DEF Keeping, Places, IInv, Types
<1>4. \A u \in Sessions : sender'[u] = (IF u = s THEN to ELSE sender[u])
  BY DEF IInv, Types
<1>5. Counted' /\ LastAlone' /\ Content'
  BY <1>2, <1>3, <1>4 DEF IInv, Counted, LastAlone, Content, content
<1>6. Sent'
  BY <1>3, <1>4 DEF IInv, Sent, content
<1> QED BY <1>1, <1>5, <1>6 DEF IInv

LEMMA SendPostStep ==
  ASSUME IInv, NEW s \in Sessions, SendPost(s)
  PROVE  IInv'
<1>1. /\ sender[s] = "queued" /\ sender' = [sender EXCEPT ![s] = "posted"]
      /\ len' = [len EXCEPT ![s] = rear]
      /\ UNCHANGED <<content, refs, deletes, creator, received, broken, ended>>
  BY DEF SendPost, SendPostOf
<1>2. /\ len' \in [Sessions -> 0 .. Capacity] /\ len'[s] = rear
      /\ \A u \in Sessions : u # s => len'[u] = len[u]
  BY <1>1 DEF IInv, Types
<1>3. sender[s] \in Keeping /\ "posted" \in Keeping
  BY <1>1 DEF Keeping
<1> QED BY <1>1, <1>2, <1>3, Kept

LEMMA MovesStep ==
  ASSUME IInv, NEW s \in Sessions, SendFails(s) \/ Overwritten(s) \/ SendAborts(s)
  PROVE  IInv'
<1>1. PICK to \in {"failed", "lost", "aborted"} :
        /\ sender[s] \in Keeping /\ sender' = [sender EXCEPT ![s] = to]
        /\ UNCHANGED <<content, refs, deletes, creator, len, received, broken, ended>>
  BY DEF SendFails, Overwritten, SendAborts, Moves, Keeping
<1>2. to \in Keeping /\ to # "posted" /\ len' \in [Sessions -> 0 .. Capacity] /\ len' = len
  BY <1>1 DEF Keeping, IInv, Types
<1> QED BY <1>1, <1>2, Kept

LEMMA BreaksStep ==
  ASSUME IInv, NEW s \in Sessions, ConnectionBreaks(s)
  PROVE  IInv'
<1>1. /\ broken' = broken \cup {s}
      /\ UNCHANGED <<content, refs, deletes, creator, sender, len, received, ended>>
  BY DEF ConnectionBreaks
<1>2. Types'
  BY <1>1 DEF IInv, Types, content
<1>3. Counted' /\ LastAlone' /\ Content'
  BY <1>1 DEF IInv, Counted, LastAlone, Content, Holders, content
<1>4. Sent'
  BY <1>1 DEF IInv, Sent, content
<1> QED BY <1>2, <1>3, <1>4 DEF IInv

\* A session drops a reference; who drops the last one deletes the packet.
LEMMA Dropped ==
  ASSUME IInv, NEW s \in Sessions, sender[s] \in Keeping, Decrement,
         sender' = [sender EXCEPT ![s] = AfterRelease],
         received' \in [Sessions -> Seq(Nat)],
         \A u \in Sessions : u # s => received'[u] = received[u],
         received'[s] \in {<<>>, wrote}, s \notin broken => received'[s] = wrote,
         UNCHANGED <<content, deletes, creator, len, broken, ended>>
  PROVE  IInv'
<1>1. refs' = refs - 1 /\ AfterRelease \in {"delete", "done"}
  BY DEF Decrement, AfterRelease
<1>2. /\ refs \in Nat /\ Cardinality(Holders) \in Nat \ {0}
      /\ Cardinality(Holders') = Cardinality(Holders) - 1
  BY <1>1, OneHolderLess DEF IInv, Types
<1>3. refs # 0 /\ refs' \in Nat /\ Counted'
  BY <1>1, <1>2, SMTT(30) DEF IInv, Types, Counted
<1>4. \A u \in Sessions : sender'[u] = (IF u = s THEN AfterRelease ELSE sender[u])
  BY DEF IInv, Types
<1>5. Types'
  BY <1>1, <1>3 DEF IInv, Types, Places, content
<1>6. LastAlone'
  <2>1. \A u \in Sessions : sender[u] # "delete"
    BY <1>3 DEF IInv, LastAlone
  <2>2. creator # "delete" /\ deletes # 1 /\ deletes \in 0 .. 1
    BY <1>3 DEF IInv, LastAlone, Types
  <2>3. AfterRelease = "delete" => refs' = 0
    BY <1>1, <1>2 DEF AfterRelease
  <2> QED BY <1>1, <1>4, <2>1, <2>2, <2>3 DEF LastAlone
<1>7. Content'
  BY DEF IInv, Content, content
<1>8. Sent'
  BY <1>1, <1>4 DEF IInv, Sent, content
<1> QED BY <1>3, <1>5, <1>6, <1>7, <1>8 DEF IInv

\* The client gets what was written: the length is that of all of it.
LEMMA SendDoneStep ==
  ASSUME IInv, NEW s \in Sessions, SendDone(s)
  PROVE  IInv'
<1>1. /\ sender[s] = "posted" /\ sender' = [sender EXCEPT ![s] = AfterRelease]
      /\ received' = [received EXCEPT ![s] = SubSeq(buf, 1, len[s])] /\ Decrement
      /\ UNCHANGED <<content, deletes, creator, len, broken, ended>>
  BY DEF SendDone
<1>2. SubSeq(buf, 1, len[s]) = wrote
  <2>1. /\ rear \in Nat /\ Capacity \in Nat /\ rear <= Capacity /\ len[s] = rear
        /\ wrote \in Seq(Nat) /\ Len(wrote) = rear /\ \A k \in 1 .. rear : buf[k] = wrote[k]
    BY <1>1, Constants DEF IInv, Types, Content, Sent
  <2>2. buf \in Seq(Nat) /\ Len(buf) = Capacity
    BY <2>1 DEF IInv, Types, Bytes
  <2>3. /\ SubSeq(buf, 0 + 1, 0 + rear) \in Seq(Nat) /\ Len(SubSeq(buf, 0 + 1, 0 + rear)) = rear
        /\ \A k \in 1 .. rear : SubSeq(buf, 0 + 1, 0 + rear)[k] = buf[0 + k]
    BY <2>1, <2>2, Piece
  <2>4. 0 + 1 = 1 /\ 0 + rear = rear /\ \A k \in 1 .. rear : 0 + k = k
    BY <2>1
  <2> DEFINE sent == SubSeq(buf, 1, rear)
  <2>5. sent \in Seq(Nat) /\ Len(sent) = rear /\ \A k \in 1 .. rear : sent[k] = wrote[k]
    BY <2>1, <2>3, <2>4
  <2> HIDE DEF sent
  <2>6. sent = wrote
    BY <2>1, <2>5
  <2> QED BY <2>1, <2>6 DEF sent
<1>3. /\ received' \in [Sessions -> Seq(Nat)] /\ received'[s] = wrote
      /\ \A u \in Sessions : u # s => received'[u] = received[u]
  BY <1>1, <1>2 DEF IInv, Types
<1>4. sender[s] \in Keeping
  BY <1>1 DEF Keeping
<1> QED BY <1>1, <1>3, <1>4, Dropped

\* The client of a session whose connection broke may have got nothing.
LEMMA DrainStep ==
  ASSUME IInv, NEW s \in Sessions, Drain(s)
  PROVE  IInv'
<1>1. /\ sender[s] \in Keeping /\ s \in broken
      /\ UNCHANGED <<content, deletes, creator, len, received, broken>>
  BY DEF Drain, Keeping
<1>2. CASE ended' = TRUE /\ UNCHANGED <<refs, sender>>
  <2>1. Types' /\ Counted' /\ LastAlone' /\ Content' /\ Sent'
    BY <1>1, <1>2 DEF IInv, Types, Counted, LastAlone, Content, Sent, Holders, content
  <2> QED BY <2>1 DEF IInv
<1>3. CASE Decrement /\ sender' = [sender EXCEPT ![s] = AfterRelease] /\ UNCHANGED ended
  <2>1. /\ received' = received /\ received' \in [Sessions -> Seq(Nat)]
        /\ received'[s] \in {<<>>, wrote}
    BY <1>1 DEF IInv, Types, Sent
  <2> QED BY <1>1, <1>3, <2>1, Dropped
<1> QED BY <1>2, <1>3 DEF Drain

LEMMA CreatorStep ==
  ASSUME IInv, CreatorReleases
  PROVE  IInv'
<1>1. /\ creator = "build" /\ creator' = AfterRelease /\ refs' = refs - 1
      /\ AfterRelease \in {"delete", "done"}
      /\ UNCHANGED <<content, deletes, sender, len, received, broken, ended>>
  BY DEF CreatorReleases, Building, Decrement, AfterRelease
<1>2. Holders' = Holders /\ Cardinality(Holders) \in Nat
  BY <1>1, Constants, FS_Subset, FS_CardinalityType DEF Holders
<1>3. refs \in Nat /\ refs = Cardinality(Holders) + 1
  BY <1>1 DEF IInv, Types, Counted
<1>4. refs # 0 /\ refs' \in Nat /\ Counted'
  BY <1>1, <1>2, <1>3 DEF Counted
<1>5. Types'
  BY <1>1, <1>4 DEF IInv, Types, content
<1>6. LastAlone'
  BY <1>1, <1>3, <1>4 DEF IInv, Types, LastAlone, AfterRelease
<1>7. Content' /\ Sent'
  BY <1>1 DEF IInv, Content, Sent, content
<1> QED BY <1>4, <1>5, <1>6, <1>7 DEF IInv

LEMMA DeleteStep ==
  ASSUME IInv, Delete
  PROVE  IInv'
<1>0. UNCHANGED <<content, refs, len, received, broken, ended>> /\ deletes' = deletes + 1
  BY DEF Delete
<1>1. CASE creator = "delete" /\ creator' = "done" /\ UNCHANGED sender
  <2>1. deletes = 0 /\ refs = 0 /\ \A s \in Sessions : sender[s] # "delete"
    BY <1>1 DEF IInv, LastAlone
  <2>2. Types'
    BY <1>0, <1>1, <2>1 DEF IInv, Types, content
  <2>3. Counted' /\ LastAlone' /\ Content' /\ Sent'
    BY <1>0, <1>1, <2>1 DEF IInv, Counted, LastAlone, Content, Sent, Holders, content
  <2> QED BY <2>2, <2>3 DEF IInv
<1>2. ASSUME NEW s \in Sessions,
             sender[s] = "delete", sender' = [sender EXCEPT ![s] = "done"], UNCHANGED creator
      PROVE  IInv'
  <2>1. /\ deletes = 0 /\ refs = 0 /\ creator # "delete"
        /\ \A u \in Sessions : sender[u] = "delete" => u = s
    BY <1>2 DEF IInv, LastAlone
  <2>2. Types'
    BY <1>0, <1>2, <2>1 DEF IInv, Types, Places, content
  <2>3. Holders' = Holders
    BY <1>2 DEF Holders, Keeping, IInv, Types
  <2>4. Counted' /\ LastAlone'
    BY <1>0, <1>2, <2>1, <2>3 DEF IInv, Types, Counted, LastAlone
  <2>5. Content' /\ Sent'
    BY <1>0, <1>2 DEF IInv, Types, Content, Sent, content
  <2> QED BY <2>2, <2>4, <2>5 DEF IInv
<1> QED BY <1>1, <1>2 DEF Delete

(***************************************************************************)
(* The theorems                                                            *)
(***************************************************************************)
LEMMA Invariance == Spec => []IInv
<1>1. Init => IInv
  <2> SUFFICES ASSUME Init PROVE IInv
    OBVIOUS
  <2>1. Holders = {} /\ Cardinality(Holders) = 0
    BY FS_EmptySet DEF Init, Holders, Keeping
  <2>2. Types
    <3>1. front \in Nat /\ rear \in 0 .. Capacity /\ front <= rear /\ buf \in Bytes
      BY Constants DEF Init, Bytes
    <3>2. refs \in Nat /\ deletes \in 0 .. 1 /\ clears \in 0 .. MaxClears
      BY Constants DEF Init
    <3>3. wrote \in Seq(Nat) /\ got \in Seq(Nat) /\ received \in [Sessions -> Seq(Nat)]
      BY DEF Init
    <3>4. len \in [Sessions -> 0 .. Capacity]
      BY Constants DEF Init
    <3>5. /\ creator \in {"build", "delete", "done"} /\ ended \in BOOLEAN
          /\ sender \in [Sessions -> Places] /\ broken \subseteq Sessions
      BY DEF Init, Places
    <3> QED BY <3>1, <3>2, <3>3, <3>4, <3>5 DEF Types
  <2>3. Counted /\ LastAlone /\ Content /\ Sent
    BY <2>1 DEF Init, Counted, LastAlone, Content, Sent
  <2> QED BY <2>2, <2>3 DEF IInv
<1>2. IInv /\ [Next]_vars => IInv'
  <2>1. IInv /\ UNCHANGED vars => IInv'
    BY DEF IInv, Types, Counted, LastAlone, Content, Sent, Holders, vars
  <2>2. IInv /\ Next => IInv'
    BY WritesStep, ReadsStep, ClearStep, SendPacketStep, SendPostStep, SendDoneStep,
       MovesStep, BreaksStep, DrainStep, CreatorStep, DeleteStep DEF Next, SessionStep
  <2> QED BY <2>1, <2>2
<1> QED BY <1>1, <1>2, PTL DEF Spec

\* What operator >> and GetData return is what operator << and PutData stored,
\* in that order, for every capacity and every mixture of types and lengths.
THEOREM ReadsWhatWasWritten == Spec => []ReadBack
<1>1. IInv => ReadBack
  <2> SUFFICES ASSUME IInv PROVE ReadBack
    OBVIOUS
  <2>1. /\ rear \in Nat /\ front \in Nat /\ front <= rear
        /\ wrote \in Seq(Nat) /\ Len(wrote) = rear /\ got \in Seq(Nat) /\ Len(got) = front
        /\ \A k \in 1 .. front : got[k] = wrote[k]
    BY Constants DEF IInv, Types, Content
  <2>2. /\ SubSeq(got, 0 + 1, 0 + front) \in Seq(Nat)
        /\ Len(SubSeq(got, 0 + 1, 0 + front)) = front
        /\ \A k \in 1 .. front : SubSeq(got, 0 + 1, 0 + front)[k] = got[0 + k]
    BY <2>1, Piece
  <2>3. /\ SubSeq(wrote, 0 + 1, 0 + front) \in Seq(Nat)
        /\ Len(SubSeq(wrote, 0 + 1, 0 + front)) = front
        /\ \A k \in 1 .. front : SubSeq(wrote, 0 + 1, 0 + front)[k] = wrote[0 + k]
    BY <2>1, Piece
  <2>4. 0 + 1 = 1 /\ 0 + front = front /\ \A k \in 1 .. front : 0 + k = k
    BY <2>1
  <2> DEFINE a == SubSeq(got, 1, front)
             b == SubSeq(wrote, 1, front)
  <2>5. a \in Seq(Nat) /\ Len(a) = front /\ \A k \in 1 .. front : a[k] = wrote[k]
    BY <2>1, <2>2, <2>4
  <2>6. b \in Seq(Nat) /\ Len(b) = front /\ \A k \in 1 .. front : b[k] = wrote[k]
    BY <2>3, <2>4
  <2> HIDE DEF a, b
  <2>7. a = b
    BY <2>5, <2>6
  <2> QED BY <2>1, <2>7 DEF ReadBack, Seqs!IsPrefix, a, b
<1> QED BY <1>1, Invariance, PTL

\* Every client receives the whole packet as it was written (GetDataSize is
\* _rear), whatever OnRecv has read from it before or meanwhile, or, where its
\* connection broke, nothing.
THEOREM WholeIsSent == Spec => []SentWhole
<1>1. IInv => SentWhole
  BY DEF IInv, Sent, SentWhole
<1> QED BY <1>1, Invariance, PTL

\* The packet is deleted at most once, and not before the creator and all the
\* sessions it was queued for have released it (AddRef and Release), for any
\* number of them, whose sends complete, are aborted or fail at once.
THEOREM NotDeletedEarly == Spec => []AliveWhileUsed
<1>1. IInv => AliveWhileUsed
  <2> SUFFICES ASSUME IInv PROVE AliveWhileUsed
    OBVIOUS
  <2>1. /\ IsFiniteSet(Holders) /\ Cardinality(Holders) \in Nat
        /\ Cardinality(Sessions) \in Nat /\ Cardinality(Holders) <= Cardinality(Sessions)
    BY Constants, FS_Subset, FS_CardinalityType DEF Holders
  <2>2. TypeOK
    BY <2>1, Constants DEF IInv, Types, Counted, TypeOK
  <2>3. ASSUME deletes > 0
        PROVE  deletes = 1 /\ creator = "done" /\ \A s \in Sessions : sender[s] \in {"none", "done"}
    <3>1. deletes = 1 /\ refs = 0 /\ creator # "delete" /\ \A s \in Sessions : sender[s] # "delete"
      BY <2>3 DEF IInv, Types, LastAlone
    <3>2. creator # "build" /\ Cardinality(Holders) = 0
      BY <2>1, <3>1 DEF IInv, Counted
    <3>3. Holders = {}
      BY <2>1, <3>2, FS_EmptySet
    <3> QED BY <3>1, <3>2, <3>3 DEF IInv, Types, Places, Keeping, Holders
  <2> QED BY <2>2, <2>3 DEF AliveWhileUsed
<1> QED BY <1>1, Invariance, PTL
=============================================================================
