---------------------------- MODULE MemoryPool ----------------------------
(***************************************************************************)
(* CMemoryPool (CObjectPool.h, release build): the free list from which    *)
(* the lock-free stack and the lock-free queue take their nodes.           *)
(* One action per access to memory that other threads share.  A            *)
(* pointer carries the tag MAKE_VALUE puts into its upper bits: the pair   *)
(* <<tag, block>>.  A pool is made empty (every CMemoryPool of the program *)
(* is constructed with 0 blocks) and never gives memory back.              *)
(*                                                                         *)
(* The actions take and leave the program counter through pc and ret, so   *)
(* that the modules which use a pool run its code inside their own.        *)
(***************************************************************************)
EXTENDS Integers, FiniteSets

CONSTANTS
  Procs,        \* threads
  Blocks,       \* addresses malloc may return
  TagMod,       \* 2^17 in the code: the number of tags
  Null          \* the null pointer

ASSUME PoolAssumption ==
  /\ IsFiniteSet(Blocks) /\ Null \notin Blocks
  /\ TagMod \in Nat \ {0}

VARIABLES
  pTop, pId,    \* _pTopNodeValue, _id
  pNext,        \* _pNextValue of each block; it outlives the time in the list
  fresh,        \* addresses malloc has not returned yet
  held,         \* blocks a thread got from Alloc and has not given back
  pVal, pNxt,   \* locals: the value read from the top, the link to install
  blk, blkVal,  \* the block returned, or to be freed; its tagged pointer
  pc, ret       \* where the thread is, where Alloc or Free returns to

poolVars == <<pTop, pId, pNext, fresh, held, pVal, pNxt, blk, blkVal>>

NullValue     == <<0, Null>>
Node(v)       == v[2]                           \* MAKE_NODE
Values        == (0 .. TagMod - 1) \X (Blocks \cup {Null})
\* MAKE_VALUE: the counter is incremented, its lower bits are the tag
NextTag(id)   == (id + 1) % TagMod

\* an empty list; the blocks of f are still to come from malloc
PoolInitFrom(f) ==
  /\ pTop = NullValue /\ pId = 0
  /\ pNext = [b \in Blocks |-> NullValue]
  /\ fresh = f
  /\ held = [t \in Procs |-> {}]
  /\ pVal = [t \in Procs |-> NullValue] /\ pNxt = [t \in Procs |-> NullValue]
  /\ blk = [t \in Procs |-> Null] /\ blkVal = [t \in Procs |-> NullValue]
PoolInit == PoolInitFrom(Blocks)

Jump(t, l)   == pc' = [pc EXCEPT ![t] = l] /\ UNCHANGED ret
Call(t, l, r) == pc' = [pc EXCEPT ![t] = l] /\ ret' = [ret EXCEPT ![t] = r]

(***************************************************************************)
(* Alloc                                                                   *)
(***************************************************************************)
\* the top is read; an empty list means a new block from malloc
AllocRead(t) ==
  /\ pc[t] = "alloc"
  /\ pVal' = [pVal EXCEPT ![t] = pTop]
  /\ IF Node(pTop) = Null
       THEN \E b \in fresh :
              /\ fresh' = fresh \ {b}
              /\ held' = [held EXCEPT ![t] = @ \cup {b}]
              /\ blk' = [blk EXCEPT ![t] = b]
              /\ Jump(t, ret[t])
       ELSE Jump(t, "allocNext") /\ UNCHANGED <<fresh, held, blk>>
  /\ UNCHANGED <<pTop, pId, pNext, pNxt, blkVal>>

\* the link of the top block, which another thread may own by now
AllocNext(t) ==
  /\ pc[t] = "allocNext"
  /\ pNxt' = [pNxt EXCEPT ![t] = pNext[Node(pVal[t])]]
  /\ Jump(t, "allocCas")
  /\ UNCHANGED <<pTop, pId, pNext, fresh, held, pVal, blk, blkVal>>

\* the top is taken if it is still the value read, tag included
AllocCas(t) ==
  /\ pc[t] = "allocCas"
  /\ IF pTop = pVal[t]
       THEN /\ pTop' = pNxt[t]
            /\ blk' = [blk EXCEPT ![t] = Node(pVal[t])]
            /\ held' = [held EXCEPT ![t] = @ \cup {Node(pVal[t])}]
            /\ Jump(t, ret[t])
       ELSE Jump(t, "alloc") /\ UNCHANGED <<pTop, held, blk>>
  /\ UNCHANGED <<pId, pNext, fresh, pVal, pNxt, blkVal>>

(***************************************************************************)
(* Free of the block blk[t]                                                *)
(***************************************************************************)
FreeTag(t) ==
  /\ pc[t] = "free"
  /\ pId' = NextTag(pId)
  /\ blkVal' = [blkVal EXCEPT ![t] = <<pId', blk[t]>>]
  /\ Jump(t, "freeRead")
  /\ UNCHANGED <<pTop, pNext, fresh, held, pVal, pNxt, blk>>

FreeRead(t) ==
  /\ pc[t] = "freeRead"
  /\ pVal' = [pVal EXCEPT ![t] = pTop]
  /\ Jump(t, "freeLink")
  /\ UNCHANGED <<pTop, pId, pNext, fresh, held, pNxt, blk, blkVal>>

FreeLink(t) ==
  /\ pc[t] = "freeLink"
  /\ pNext' = [pNext EXCEPT ![blk[t]] = pVal[t]]
  /\ Jump(t, "freeCas")
  /\ UNCHANGED <<pTop, pId, fresh, held, pVal, pNxt, blk, blkVal>>

\* the block becomes the top, if the top is still the one linked to
FreeCas(t) ==
  /\ pc[t] = "freeCas"
  /\ IF pTop = pVal[t]
       THEN /\ pTop' = blkVal[t]
            /\ held' = [held EXCEPT ![t] = @ \ {blk[t]}]
            /\ Jump(t, ret[t])
       ELSE Jump(t, "freeRead") /\ UNCHANGED <<pTop, held>>
  /\ UNCHANGED <<pId, pNext, fresh, pVal, pNxt, blk, blkVal>>

PoolStep(t) ==
  \/ AllocRead(t) \/ AllocNext(t) \/ AllocCas(t)
  \/ FreeTag(t) \/ FreeRead(t) \/ FreeLink(t) \/ FreeCas(t)

(***************************************************************************)
(* What the properties of the users of a pool are made of                  *)
(***************************************************************************)
\* the blocks from the top down; Null below the last
FreeChain ==
  LET at[n \in 0 .. Cardinality(Blocks)] ==
        IF n = 0 THEN Node(pTop)
        ELSE IF at[n - 1] = Null THEN Null ELSE Node(pNext[at[n - 1]])
  IN at
Free == {FreeChain[n] : n \in DOMAIN FreeChain} \ {Null}

PoolTypeOK ==
  /\ pTop \in Values /\ pId \in 0 .. TagMod - 1
  /\ pNext \in [Blocks -> Values]
  /\ fresh \subseteq Blocks /\ held \in [Procs -> SUBSET Blocks]
  /\ pVal \in [Procs -> Values] /\ pNxt \in [Procs -> Values]
  /\ blk \in [Procs -> Blocks \cup {Null}] /\ blkVal \in [Procs -> Values]
=============================================================================
