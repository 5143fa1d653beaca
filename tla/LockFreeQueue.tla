--------------------------- MODULE LockFreeQueue ---------------------------
(***************************************************************************)
(* CLockFreeQueue (the packets a session has to send): a linked queue with *)
(* a dummy node, tagged head and tail pointers, untagged links, and a      *)
(* counter; nodes come from a CMemoryPool of its own.  One action per      *)
(* access to shared memory.  Only the thread that holds the session's send *)
(* flag, or that releases the session, takes, and one thread puts, for one *)
(* at a time handles the session's messages (RecvExclusive of LanServer).  *)
(* The retry loop of Enqueue is made for several that put at once: they    *)
(* are specified while nobody takes, for links carry no tag and are not    *)
(* safe when nodes come back under the hands of several.                   *)
(***************************************************************************)
EXTENDS MemoryPool, Sequences

CONSTANTS
  Consumer,    \* the thread that takes; the others put
  Items,       \* what is queued
  MaxLen       \* bound: items in the queue

Producers == Procs \ {Consumer}

ASSUME QueueAssumption == Consumer \in Procs /\ MaxLen \in Nat

VARIABLES
  putters,                            \* the threads that put: one, or several and none takes
  head, headId, tail, tailId, size,   \* _headValue, _headId, _tailValue, _tailId, _size
  next, data,                         \* _next and _data of each node
  item, nodeVal, enqTail, enqNext,    \* locals of Enqueue
  headVal, tailVal, headNext, newHead, taken   \* locals of Dequeue

enqVars == <<item, nodeVal, enqTail, enqNext>>
deqVars == <<headVal, tailVal, headNext, newHead, taken>>
vars == <<poolVars, pc, ret, putters, head, headId, tail, tailId, size, next, data, enqVars, deqVars>>

NoItem == 0

\* CLockFreeQueue(): the dummy is the pool's first block
Init ==
  \E dummy \in Blocks :
    /\ PoolInitFrom(Blocks \ {dummy})
    /\ putters \in {{t} : t \in Producers} \cup {Producers}
    /\ pc = [t \in Procs |-> "idle"] /\ ret = [t \in Procs |-> "idle"]
    /\ headId = NextTag(0) /\ head = <<headId, dummy>>
    /\ tailId = NextTag(0) /\ tail = <<tailId, dummy>>
    /\ size = 0
    /\ next = [b \in Blocks |-> Null] /\ data = [b \in Blocks |-> NoItem]
    /\ item = [t \in Producers |-> NoItem]
    /\ nodeVal = [t \in Producers |-> NullValue] /\ enqTail = [t \in Producers |-> NullValue]
    /\ enqNext = [t \in Producers |-> Null]
    /\ headVal = NullValue /\ tailVal = NullValue /\ headNext = Null /\ newHead = NullValue
    /\ taken = NoItem

\* the nodes after the dummy, oldest first
Linked ==
  LET at[n \in 0 .. Cardinality(Blocks)] ==
        IF n = 0 THEN Node(head)
        ELSE IF at[n - 1] = Null THEN Null ELSE next[at[n - 1]]
      last == CHOOSE n \in 0 .. Cardinality(Blocks) :
                /\ at[n] # Null
                /\ n = Cardinality(Blocks) \/ at[n + 1] = Null
  IN [i \in 1 .. last |-> at[i]]

(***************************************************************************)
(* Enqueue                                                                 *)
(***************************************************************************)
StartEnqueue(t) ==
  /\ pc[t] = "idle" /\ t \in putters /\ Len(Linked) < MaxLen
  /\ \E v \in Items : item' = [item EXCEPT ![t] = v]
  /\ Call(t, "alloc", "enqInit")
  /\ UNCHANGED <<poolVars, head, headId, tail, tailId, size, next, data,
                 nodeVal, enqTail, enqNext, deqVars>>

\* the node is filled in, and the tagged pointer to it made
EnqInit(t) ==
  /\ pc[t] = "enqInit"
  /\ data' = [data EXCEPT ![blk[t]] = item[t]]
  /\ next' = [next EXCEPT ![blk[t]] = Null]
  /\ tailId' = NextTag(tailId)
  /\ nodeVal' = [nodeVal EXCEPT ![t] = <<tailId', blk[t]>>]
  /\ Jump(t, "enqRead")
  /\ UNCHANGED <<poolVars, head, headId, tail, size, item, enqTail, enqNext, deqVars>>

EnqRead(t) ==
  /\ pc[t] = "enqRead"
  /\ enqTail' = [enqTail EXCEPT ![t] = tail]
  /\ Jump(t, "enqNext")
  /\ UNCHANGED <<poolVars, head, headId, tail, tailId, size, next, data,
                 item, nodeVal, enqNext, deqVars>>

\* the link of the node read, which may have left the queue by now
EnqNext(t) ==
  /\ pc[t] = "enqNext"
  /\ enqNext' = [enqNext EXCEPT ![t] = next[Node(enqTail[t])]]
  /\ Jump(t, IF enqNext'[t] = Null THEN "enqLink" ELSE "enqHelp")
  /\ UNCHANGED <<poolVars, head, headId, tail, tailId, size, next, data,
                 item, nodeVal, enqTail, deqVars>>

\* the tail lags behind: another thread is between its two exchanges
EnqHelp(t) ==
  /\ pc[t] = "enqHelp"
  /\ tailId' = NextTag(tailId)
  /\ tail' = IF tail = enqTail[t] THEN <<tailId', enqNext[t]>> ELSE tail
  /\ Jump(t, "enqRead")
  /\ UNCHANGED <<poolVars, head, headId, size, next, data, enqVars, deqVars>>

\* first exchange: the node is linked behind the last one
\* (faulty variant: whatever the link is)
EnqLinkIf(t, same) ==
  /\ pc[t] = "enqLink"
  /\ IF same
       THEN /\ next' = [next EXCEPT ![Node(enqTail[t])] = blk[t]]
            /\ held' = [held EXCEPT ![t] = @ \ {blk[t]}]
            /\ Jump(t, "enqSwing")
       ELSE Jump(t, "enqRead") /\ UNCHANGED <<next, held>>
  /\ UNCHANGED <<pTop, pId, pNext, fresh, pVal, pNxt, blk, blkVal, head, headId, tail, tailId,
                 size, data, enqVars, deqVars>>
EnqLinkBlind(t) == EnqLinkIf(t, TRUE)
EnqLink(t)      == EnqLinkIf(t, next[Node(enqTail[t])] = Null)

\* second exchange: the tail follows, unless someone has moved it already
\* (faulty variant: it is left to whoever comes next)
EnqSwingIf(t, same) ==
  /\ pc[t] = "enqSwing"
  /\ tail' = IF same THEN nodeVal[t] ELSE tail
  /\ Jump(t, "enqCount")
  /\ UNCHANGED <<poolVars, head, headId, tailId, size, next, data, enqVars, deqVars>>
EnqSwingSkips(t) == EnqSwingIf(t, FALSE)
EnqSwing(t)      == EnqSwingIf(t, tail = enqTail[t])

EnqCount(t) ==
  /\ pc[t] = "enqCount"
  /\ size' = size + 1
  /\ Jump(t, "idle")
  /\ UNCHANGED <<poolVars, head, headId, tail, tailId, next, data, enqVars, deqVars>>

(***************************************************************************)
(* Dequeue                                                                 *)
(***************************************************************************)
\* SendPost and Release ask for the size first
StartDequeue(t) ==
  /\ pc[t] = "idle" /\ size > 0 /\ Cardinality(putters) = 1
  /\ Jump(t, "deqCount")
  /\ UNCHANGED <<poolVars, head, headId, tail, tailId, size, next, data, enqVars, deqVars>>

\* a negative size is put right and is a DebugBreak
DeqCount(t) ==
  /\ pc[t] = "deqCount"
  /\ IF size - 1 < 0
       THEN Jump(t, "break") /\ UNCHANGED size
       ELSE Jump(t, "deqHead") /\ size' = size - 1
  /\ UNCHANGED <<poolVars, head, headId, tail, tailId, next, data, enqVars, deqVars>>

DeqHead(t) ==
  /\ pc[t] = "deqHead"
  /\ headVal' = head
  /\ Jump(t, "deqTail")
  /\ UNCHANGED <<poolVars, head, headId, tail, tailId, size, next, data, enqVars,
                 tailVal, headNext, newHead, taken>>

DeqTail(t) ==
  /\ pc[t] = "deqTail"
  /\ tailVal' = tail
  /\ Jump(t, "deqNext")
  /\ UNCHANGED <<poolVars, head, headId, tail, tailId, size, next, data, enqVars,
                 headVal, headNext, newHead, taken>>

\* The head may not pass the tail: if they meet, the tail is moved on, without
\* a tag (MAKE_NODE at CLockFreeQueue.h:106).  The three accesses of :102-107 are
\* one step here: with one consumer the branch is never taken (CountedIsLinked).
DeqNext(t) ==
  /\ pc[t] = "deqNext"
  /\ headNext' = next[Node(headVal)]
  /\ LET behind == headNext' # Null /\ Node(headVal) = Node(tailVal) IN
     /\ tail' = IF behind /\ tail = tailVal THEN <<0, next[Node(tailVal)]>> ELSE tail
     /\ Jump(t, IF headNext' = Null \/ behind THEN "deqHead" ELSE "deqData")
  /\ UNCHANGED <<poolVars, head, headId, tailId, size, next, data, enqVars,
                 headVal, tailVal, newHead, taken>>

\* the item is read before the node is won (faulty variant: the old dummy's)
DeqDataOf(t, node) ==
  /\ pc[t] = "deqData"
  /\ headId' = NextTag(headId)
  /\ newHead' = <<headId', headNext>>
  /\ taken' = data[node]
  /\ Jump(t, "deqCas")
  /\ UNCHANGED <<poolVars, head, tail, tailId, size, next, data, enqVars,
                 headVal, tailVal, headNext>>
DeqDataOfHead(t) == DeqDataOf(t, Node(headVal))
DeqData(t)       == DeqDataOf(t, headNext)

\* the first node becomes the dummy, the old dummy is freed
DeqCas(t) ==
  /\ pc[t] = "deqCas"
  /\ IF head = headVal
       THEN /\ head' = newHead
            /\ held' = [held EXCEPT ![t] = @ \cup {Node(headVal)}]
            /\ blk' = [blk EXCEPT ![t] = Node(headVal)]
            /\ Call(t, "free", "idle")
       ELSE Jump(t, "deqHead") /\ UNCHANGED <<head, held, blk>>
  /\ UNCHANGED <<pTop, pId, pNext, fresh, pVal, pNxt, blkVal, headId, tail, tailId, size,
                 next, data, enqVars, deqVars>>

EnqueueStep(t) ==
  EnqInit(t) \/ EnqRead(t) \/ EnqNext(t) \/ EnqHelp(t) \/ EnqLink(t) \/ EnqSwing(t) \/ EnqCount(t)
DequeueStep(t) ==
  \/ DeqCount(t) \/ DeqHead(t) \/ DeqTail(t) \/ DeqNext(t) \/ DeqData(t) \/ DeqCas(t)
PoolCall(t) ==
  /\ PoolStep(t)
  /\ UNCHANGED <<head, headId, tail, tailId, size, next, data, enqVars, deqVars>>

Next ==
  /\ \/ \E t \in Producers : StartEnqueue(t) \/ EnqueueStep(t)
     \/ StartDequeue(Consumer) \/ DequeueStep(Consumer)
     \/ \E t \in Procs : PoolCall(t)
  /\ UNCHANGED putters

Spec == Init /\ [][Next]_vars

(***************************************************************************)
(* Properties                                                              *)
(***************************************************************************)
AllocPcs  == {"alloc", "allocNext", "allocCas"}
FreePcs   == {"free", "freeRead", "freeLink", "freeCas"}
EnqPcs    == {"enqInit", "enqRead", "enqNext", "enqHelp", "enqLink", "enqSwing", "enqCount"}
BeforeCas == {"deqCount", "deqHead", "deqTail", "deqNext", "deqData", "deqCas"}

\* Every variable stays in its range.
TypeOK ==
  /\ PoolTypeOK
  /\ pc \in [Procs -> AllocPcs \cup FreePcs \cup EnqPcs \cup BeforeCas \cup {"idle", "break"}]
  /\ head \in Values /\ headId \in 0 .. TagMod - 1
  /\ tail \in Values /\ tailId \in 0 .. TagMod - 1
  /\ size \in 0 .. MaxLen + Cardinality(Producers)
  /\ next \in [Blocks -> Blocks \cup {Null}] /\ data \in [Blocks -> Items \cup {NoItem}]
  /\ nodeVal \in [Producers -> Values] /\ enqTail \in [Producers -> Values]
  /\ headVal \in Values /\ tailVal \in Values /\ newHead \in Values
  /\ headNext \in Blocks \cup {Null} /\ taken \in Items \cup {NoItem}

InQueue == {Node(head)} \cup {Linked[i] : i \in DOMAIN Linked}

\* Each node is in one place: in the queue, in the pool, with one thread, or
\* not allocated yet; and the queue has an end.  (Every variable is in its range
\* besides.)
NodesConserved ==
  /\ TypeOK
  /\ Cardinality(InQueue) = Len(Linked) + 1 /\ FreeChain[Cardinality(Blocks)] = Null
  /\ \A b \in Blocks :
       Cardinality({t \in Procs : b \in held[t]}) + (IF b \in fresh THEN 1 ELSE 0)
       + (IF b \in Free THEN 1 ELSE 0) + (IF b \in InQueue THEN 1 ELSE 0) = 1

\* What _size counts can be taken: a caller of GetSize that sees n items may
\* take n, so SendPost and Release never run into the DebugBreak at
\* CLockFreeQueue.h:77.  Nor do they wait for a producer: the tail has passed
\* what is counted, Dequeue never finds the head at the tail (:99) and goes once
\* through its loop.
CountedIsLinked ==
  /\ pc[Consumer] # "break"
  /\ size + (IF pc[Consumer] \in BeforeCas \ {"deqCount"} THEN 1 ELSE 0) <= Len(Linked)
  /\ pc[Consumer] = "deqNext" =>
       Node(headVal) # Node(tailVal) /\ next[Node(headVal)] # Null

\* The queue is a linearizable queue: Enqueue takes effect when the node is
\* linked, Dequeue when the head moves, and returns what was first then.
contents == [i \in DOMAIN Linked |-> data[Linked[i]]]
opState ==
  [t \in Procs |->
    IF t = Consumer
      THEN CASE pc[t] \in BeforeCas -> <<"get">>
             [] pc[t] \in FreePcs   -> <<"got", taken>>
             [] OTHER               -> <<"idle">>
      ELSE IF pc[t] \in (AllocPcs \cup EnqPcs) \ {"enqSwing", "enqCount"}
             THEN <<"put", item[t]>> ELSE <<"idle">>]
Abstract == INSTANCE LinearSequence WITH Lifo <- FALSE, seq <- contents, state <- opState
Linearizable == Abstract!Spec
=============================================================================
