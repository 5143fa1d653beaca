--------------------------- MODULE LockFreeStack ---------------------------
(***************************************************************************)
(* CLockFreeStack (the stack of free session indices): a linked stack with *)
(* tagged pointers, whose nodes come from a CMemoryPool of its own.  One   *)
(* action per access to shared memory.                                     *)
(***************************************************************************)
EXTENDS MemoryPool, Sequences

CONSTANT MaxPush     \* bound: calls of Push, and so of Pop and of the pool's
                     \* Alloc and Free; up to TagMod no tag comes twice

VARIABLES
  top, id,           \* _pTopNodeValue, _id
  next, value,       \* _pNextValue and _value of each node
  topVal, nextVal,   \* locals of Push and Pop: what was read
  nodeVal,           \* local of Push: the tagged pointer to the new node
  item,              \* the argument of Push, the result of Pop
  pushes, pushed, pops  \* calls of Push, those that returned, calls of Pop

stackVars == <<top, id, next, value, topVal, nextVal, nodeVal, item>>
callVars  == <<pushes, pushed, pops>>
vars == <<poolVars, pc, ret, stackVars, callVars>>

Items == 1 .. MaxPush

Init ==
  /\ PoolInit
  /\ pc = [t \in Procs |-> "idle"] /\ ret = [t \in Procs |-> "idle"]
  /\ top = NullValue /\ id = 0
  /\ next = [b \in Blocks |-> NullValue] /\ value = [b \in Blocks |-> 0]
  /\ topVal = [t \in Procs |-> NullValue] /\ nextVal = [t \in Procs |-> NullValue]
  /\ nodeVal = [t \in Procs |-> NullValue] /\ item = [t \in Procs |-> 0]
  /\ pushes = 0 /\ pushed = 0 /\ pops = 0

(***************************************************************************)
(* Push                                                                    *)
(***************************************************************************)
StartPush(t) ==
  /\ pc[t] = "idle" /\ pushes < MaxPush
  /\ pushes' = pushes + 1
  /\ item' = [item EXCEPT ![t] = pushes']
  /\ Call(t, "alloc", "pushInit")
  /\ UNCHANGED <<poolVars, top, id, next, value, topVal, nextVal, nodeVal, pushed, pops>>

\* the value, and the tagged pointer
PushInit(t) ==
  /\ pc[t] = "pushInit"
  /\ value' = [value EXCEPT ![blk[t]] = item[t]]
  /\ id' = NextTag(id)
  /\ nodeVal' = [nodeVal EXCEPT ![t] = <<id', blk[t]>>]
  /\ Jump(t, "pushRead")
  /\ UNCHANGED <<poolVars, top, next, topVal, nextVal, item, callVars>>

PushRead(t) ==
  /\ pc[t] = "pushRead"
  /\ topVal' = [topVal EXCEPT ![t] = top]
  /\ Jump(t, "pushLink")
  /\ UNCHANGED <<poolVars, top, id, next, value, nextVal, nodeVal, item, callVars>>

PushLink(t) ==
  /\ pc[t] = "pushLink"
  /\ next' = [next EXCEPT ![blk[t]] = topVal[t]]
  /\ Jump(t, "pushCas")
  /\ UNCHANGED <<poolVars, top, id, value, topVal, nextVal, nodeVal, item, callVars>>

\* the new node becomes the top, if the top is still the one linked to
\* (faulty variant: whatever the top is)
PushCasIf(t, same) ==
  /\ pc[t] = "pushCas"
  /\ IF same
       THEN /\ top' = nodeVal[t]
            /\ held' = [held EXCEPT ![t] = @ \ {blk[t]}]
            /\ pushed' = pushed + 1
            /\ Jump(t, "idle")
       ELSE Jump(t, "pushRead") /\ UNCHANGED <<top, held, pushed>>
  /\ UNCHANGED <<pTop, pId, pNext, fresh, pVal, pNxt, blk, blkVal, id, next, value, topVal,
                 nextVal, nodeVal, item, pushes, pops>>
PushCasStale(t) == PushCasIf(t, TRUE)
PushCas(t)      == PushCasIf(t, top = topVal[t])

(***************************************************************************)
(* Pop                                                                     *)
(***************************************************************************)
\* callers know that an item is there for them: one Pop for a Push that returned
StartPop(t) ==
  /\ pc[t] = "idle" /\ pops < pushed
  /\ pops' = pops + 1
  /\ Jump(t, "popRead")
  /\ UNCHANGED <<poolVars, stackVars, pushes, pushed>>

\* an empty stack is a DebugBreak
PopRead(t) ==
  /\ pc[t] = "popRead"
  /\ topVal' = [topVal EXCEPT ![t] = top]
  /\ Jump(t, IF top = NullValue THEN "break" ELSE "popNext")
  /\ UNCHANGED <<poolVars, top, id, next, value, nextVal, nodeVal, item, callVars>>

\* the link of a node that another thread may have popped by now
PopNext(t) ==
  /\ pc[t] = "popNext"
  /\ nextVal' = [nextVal EXCEPT ![t] = next[Node(topVal[t])]]
  /\ Jump(t, "popCas")
  /\ UNCHANGED <<poolVars, top, id, next, value, topVal, nodeVal, item, callVars>>

\* the next node becomes the top, if the top is still the one read
PopCas(t) ==
  /\ pc[t] = "popCas"
  /\ IF top = topVal[t]
       THEN /\ top' = nextVal[t]
            /\ held' = [held EXCEPT ![t] = @ \cup {Node(topVal[t])}]
            /\ Jump(t, "popTake")
       ELSE Jump(t, "popRead") /\ UNCHANGED <<top, held>>
  /\ UNCHANGED <<pTop, pId, pNext, fresh, pVal, pNxt, blk, blkVal, id, next, value, topVal,
                 nextVal, nodeVal, item, callVars>>

\* the value is read, the node freed
PopTake(t) ==
  /\ pc[t] = "popTake"
  /\ item' = [item EXCEPT ![t] = value[Node(topVal[t])]]
  /\ blk' = [blk EXCEPT ![t] = Node(topVal[t])]
  /\ Call(t, "free", "idle")
  /\ UNCHANGED <<pTop, pId, pNext, fresh, held, pVal, pNxt, blkVal, top, id, next, value, topVal,
                 nextVal, nodeVal, callVars>>

Step(t) ==
  \/ PushInit(t) \/ PushRead(t) \/ PushLink(t) \/ PushCas(t)
  \/ PopRead(t) \/ PopNext(t) \/ PopCas(t) \/ PopTake(t)
  \/ PoolStep(t) /\ UNCHANGED <<stackVars, callVars>>

Next == \E t \in Procs : StartPush(t) \/ StartPop(t) \/ Step(t)

Spec == Init /\ [][Next]_vars

(***************************************************************************)
(* Properties                                                              *)
(***************************************************************************)
PushPcs == {"pushInit", "pushRead", "pushLink", "pushCas"}
PopPcs  == {"popRead", "popNext", "popCas", "popTake"}
AllocPcs == {"alloc", "allocNext", "allocCas"}
FreePcs  == {"free", "freeRead", "freeLink", "freeCas"}

\* Every variable stays in its range.
TypeOK ==
  /\ PoolTypeOK
  /\ pc \in [Procs -> PushPcs \cup PopPcs \cup AllocPcs \cup FreePcs \cup {"idle", "break"}]
  /\ ret \in [Procs -> {"idle", "pushInit"}]
  /\ top \in Values /\ id \in 0 .. TagMod - 1
  /\ next \in [Blocks -> Values] /\ value \in [Blocks -> Items \cup {0}]
  /\ topVal \in [Procs -> Values] /\ nextVal \in [Procs -> Values]
  /\ nodeVal \in [Procs -> Values] /\ item \in [Procs -> Items \cup {0}]
  /\ pops <= pushed /\ pushed <= pushes /\ pushes <= MaxPush

\* the nodes from the top down; Null below the last
StackChain ==
  LET at[n \in 0 .. Cardinality(Blocks)] ==
        IF n = 0 THEN Node(top)
        ELSE IF at[n - 1] = Null THEN Null ELSE Node(next[at[n - 1]])
  IN at
InStack == {StackChain[n] : n \in DOMAIN StackChain} \ {Null}

\* Each node is in one place: in the stack, in the pool, with one thread, or
\* not allocated yet; and both lists end.  A node handed out twice by the pool,
\* popped twice, lost, or linked into a cycle would break it.  (Every variable
\* is in its range besides.)
NodesConserved ==
  /\ TypeOK
  /\ StackChain[Cardinality(Blocks)] = Null /\ FreeChain[Cardinality(Blocks)] = Null
  /\ \A b \in Blocks :
       Cardinality({t \in Procs : b \in held[t]}) + (IF b \in fresh THEN 1 ELSE 0)
       + (IF b \in Free THEN 1 ELSE 0) + (IF b \in InStack THEN 1 ELSE 0) = 1

\* The stack is a linearizable stack: Push takes effect with its exchange of
\* the top, and so does Pop, which returns the item that was on top then.  With
\* an item for every Pop, none ends in the DebugBreak at CLockFreeStack.h:70.
contents ==
  LET n == Cardinality(InStack) IN [i \in 1 .. n |-> value[StackChain[n - i]]]
opState ==
  [t \in Procs |->
    CASE pc[t] \in AllocPcs \cup PushPcs            -> <<"put", item[t]>>
      [] pc[t] \in {"popRead", "popNext", "popCas"} -> <<"get">>
      [] pc[t] = "popTake"                          -> <<"got", value[Node(topVal[t])]>>
      [] pc[t] \in FreePcs                          -> <<"got", item[t]>>
      [] OTHER                                      -> <<"idle">>]
Abstract == INSTANCE LinearSequence WITH Lifo <- TRUE, seq <- contents, state <- opState
Linearizable == Abstract!Spec
=============================================================================
