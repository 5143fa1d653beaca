------------------------ MODULE LockFreeStackProofs ------------------------
(***************************************************************************)
(* Theorems about LockFreeStack, for every number of threads and nodes: no *)
(* node is lost or in two places, and the stack is linearizable.  They     *)
(* hold as long as no tag comes twice, that is for up to TagMod calls of   *)
(* Push (2^17 in the code); with more, an exchange could succeed on a top  *)
(* that was popped and pushed back between, and neither would hold.        *)
(*                                                                         *)
(* The inductive invariant says that there are two paths of links, p of    *)
(* the pool and q of the stack, from Null up to the top of each; which     *)
(* tags were given out; that each node is fresh, on one of the paths or    *)
(* held by one thread; and what the locals of each thread say of the       *)
(* paths: above all that a thread whose exchange would now succeed has     *)
(* read a link that is still that of the path.                             *)
(***************************************************************************)
EXTENDS LockFreeStack, FiniteSetTheorems, WellFoundedInduction, TLAPS

\* A linked list: its n links from the bottom up, q[0] being Null's and q[n]
\* the one the list is entered by.
Chain(first, links, n, q) ==
  /\ n \in Nat /\ q \in [0 .. n -> Values]
  /\ Node(q[0]) = Null /\ q[n] = first
  /\ \A i \in 1 .. n : Node(q[i]) \in Blocks /\ links[Node(q[i])] = q[i - 1]
  /\ \A i, j \in 1 .. n : Node(q[i]) = Node(q[j]) => i = j
Nodes(n, q) == {Node(q[i]) : i \in 1 .. n}
\* one more link, one less
More(n, q, v) == [i \in 0 .. n + 1 |-> IF i = n + 1 THEN v ELSE q[i]]
Less(n, q)    == [i \in 0 .. n - 1 |-> q[i]]

\* the tags of the first c calls of MAKE_VALUE
Tags(c) == {k % TagMod : k \in 1 .. c}
\* the threads at some places
Of(places, at) == {t \in Procs : at[t] \in places}

-----------------------------------------------------------------------------
\* A set of naturals has a least element: what takes the place of induction.
LEMMA LeastNat ==
  ASSUME NEW T, T \subseteq Nat, T # {}
  PROVE  \E x \in T : \A y \in T : x <= y
<1>1. IsWellFoundedOn(OpToRel(<, Nat), Nat)
  BY NatLessThanWellFounded
<1>2. PICK x \in T : \A y \in T : ~ (<<y, x>> \in OpToRel(<, Nat))
  BY <1>1, WFMin, Zenon
<1>3. \A y \in T : x <= y
  <2> SUFFICES ASSUME NEW y \in T PROVE x <= y
    OBVIOUS
  <2>1. x \in Nat /\ y \in Nat
    OBVIOUS
  <2>2. ~(y < x)
    BY <1>2, <2>1 DEF OpToRel
  <2> QED BY <2>1, <2>2
<1> QED BY <1>2, <1>3, Zenon

\* Up to TagMod calls the modulo of MAKE_VALUE only turns the last tag into 0.
LEMMA TagOf ==
  ASSUME NEW k \in Nat, k <= TagMod
  PROVE  k % TagMod = IF k = TagMod THEN 0 ELSE k
  BY PoolAssumption DEF PoolAssumption

\* The next tag was not given out before.
LEMMA NewTag ==
  ASSUME NEW c \in Nat, c < TagMod
  PROVE  /\ NextTag(c % TagMod) = (c + 1) % TagMod
         /\ (c + 1) % TagMod \in 0 .. TagMod - 1
         /\ (c + 1) % TagMod \notin Tags(c)
         /\ Tags(c + 1) = Tags(c) \cup {(c + 1) % TagMod}
<1>1. c + 1 \in Nat /\ c + 1 <= TagMod /\ c <= TagMod /\ TagMod \in Nat
  BY PoolAssumption DEF PoolAssumption
<1>2. c % TagMod = c
  BY <1>1, TagOf
<1>3. (c + 1) % TagMod = IF c + 1 = TagMod THEN 0 ELSE c + 1
  BY <1>1, TagOf
<1>4. (c + 1) % TagMod \notin Tags(c)
  <2> SUFFICES ASSUME NEW k \in 1 .. c PROVE k % TagMod # (c + 1) % TagMod
    BY DEF Tags
  <2>1. k % TagMod = k
    BY <1>1, TagOf
  <2> QED BY <1>3, <2>1
<1>5. \A k : k \in 1 .. c + 1 <=> k \in 1 .. c \/ k = c + 1
  OBVIOUS
<1>6. Tags(c + 1) = Tags(c) \cup {(c + 1) % TagMod}
  BY <1>5, Zenon DEF Tags
<1> QED BY <1>1, <1>2, <1>3, <1>4, <1>6 DEF NextTag

-----------------------------------------------------------------------------
\* How many threads are at the places S, when the thread u moves.
LEMMA Moves ==
  ASSUME NEW S, NEW at, NEW at1, NEW u \in Procs, IsFiniteSet(Of(S, at)),
         \A w \in Procs : w # u => at1[w] = at[w]
  PROVE  /\ IsFiniteSet(Of(S, at1))
         /\ Cardinality(Of(S, at)) \in Nat /\ Cardinality(Of(S, at1)) \in Nat
         /\ at[u] \in S => Cardinality(Of(S, at)) >= 1
         /\ at[u] \in S /\ at1[u] \notin S => Cardinality(Of(S, at1)) = Cardinality(Of(S, at)) - 1
         /\ at[u] \notin S /\ at1[u] \in S => Cardinality(Of(S, at1)) = Cardinality(Of(S, at)) + 1
         /\ (at[u] \in S <=> at1[u] \in S) => Cardinality(Of(S, at1)) = Cardinality(Of(S, at))
<1>1. Cardinality(Of(S, at)) \in Nat
  BY FS_CardinalityType, Zenon
<1>2. ASSUME at[u] \in S PROVE Cardinality(Of(S, at)) # 0
  <2>1. u \in Of(S, at)
    BY <1>2 DEF Of
  <2> QED BY <2>1, FS_EmptySet, Zenon
<1>3. CASE at[u] \in S /\ at1[u] \notin S
  <2>1. Of(S, at1) = Of(S, at) \ {u} /\ u \in Of(S, at)
    BY <1>3 DEF Of
  <2>2. IsFiniteSet(Of(S, at1)) /\ Cardinality(Of(S, at1)) = Cardinality(Of(S, at)) - 1
    BY <2>1, FS_RemoveElement, Zenon
  <2> QED BY <1>1, <1>2, <1>3, <2>2
<1>4. CASE at[u] \notin S /\ at1[u] \in S
  <2>1. Of(S, at1) = Of(S, at) \cup {u} /\ u \notin Of(S, at)
    BY <1>4 DEF Of
  <2>2. IsFiniteSet(Of(S, at1)) /\ Cardinality(Of(S, at1)) = Cardinality(Of(S, at)) + 1
    BY <2>1, FS_AddElement, Zenon
  <2> QED BY <1>1, <1>4, <2>2
<1>5. CASE at[u] \in S <=> at1[u] \in S
  <2>1. Of(S, at1) = Of(S, at)
    BY <1>5 DEF Of
  <2> QED BY <1>1, <1>2, <1>5, <2>1
<1> QED BY <1>3, <1>4, <1>5

-----------------------------------------------------------------------------
\* A list is empty when its top is Null, as TryPop and Alloc test it.
LEMMA ChainEnds ==
  ASSUME NEW first, NEW links, NEW n, NEW q, Chain(first, links, n, q)
  PROVE  n = 0 <=> Node(first) = Null
  BY PoolAssumption DEF Chain, PoolAssumption

\* Writing the link of a node that is not in the list leaves the list alone.
LEMMA ChainWrite ==
  ASSUME NEW first, NEW links, NEW n, NEW q, Chain(first, links, n, q), DOMAIN links = Blocks,
         NEW b, b \notin Nodes(n, q), NEW v
  PROVE  Chain(first, [links EXCEPT ![b] = v], n, q)
  BY DEF Chain, Nodes

\* Exchanging the top for a node linked to the old top adds that node.
LEMMA ChainMore ==
  ASSUME NEW first, NEW links, NEW n, NEW q, Chain(first, links, n, q),
         NEW v \in Values, Node(v) \in Blocks \ Nodes(n, q), links[Node(v)] = first
  PROVE  \E g : /\ Chain(v, links, n + 1, g) /\ Nodes(n + 1, g) = Nodes(n, q) \cup {Node(v)}
                /\ n \in Nat /\ g[n + 1] = v /\ \A i \in 0 .. n : g[i] = q[i]
<1> DEFINE g == More(n, q, v)
<1>1. n \in Nat /\ g \in [0 .. n + 1 -> Values] /\ g[n + 1] = v /\ (\A i \in 0 .. n : g[i] = q[i])
  BY DEF Chain, More
<1> HIDE DEF g
<1>2. \A i : i \in 1 .. n + 1 <=> i \in 1 .. n \/ i = n + 1
  BY <1>1
<1>3. Nodes(n + 1, g) = Nodes(n, q) \cup {Node(v)}
  BY <1>1, <1>2 DEF Nodes
<1>4. \A i \in 1 .. n + 1 : Node(g[i]) \in Blocks /\ links[Node(g[i])] = g[i - 1]
  BY <1>1, <1>2 DEF Chain
<1>5. \A i, j \in 1 .. n + 1 : Node(g[i]) = Node(g[j]) => i = j
  <2>1. \A i \in 1 .. n : g[i] = q[i] /\ Node(q[i]) # Node(v)
    BY <1>1 DEF Nodes
  <2>2. \A i, j \in 1 .. n : Node(q[i]) = Node(q[j]) => i = j
    BY DEF Chain
  <2> QED BY <1>1, <1>2, <2>1, <2>2
<1>6. Chain(v, links, n + 1, g)
  BY <1>1, <1>4, <1>5 DEF Chain
<1> QED BY <1>1, <1>3, <1>6

\* Exchanging the top for the link of its node takes that node off.
LEMMA ChainLess ==
  ASSUME NEW first, NEW links, NEW n, NEW q, Chain(first, links, n, q), n # 0
  PROVE  \E g : /\ Chain(q[n - 1], links, n - 1, g)
                /\ Nodes(n - 1, g) = Nodes(n, q) \ {Node(first)}
                /\ n \in Nat /\ \A i \in 0 .. n - 1 : g[i] = q[i]
<1> DEFINE g == Less(n, q)
<1>1. n \in Nat /\ n - 1 \in Nat /\ g \in [0 .. n - 1 -> Values] /\ (\A i \in 0 .. n - 1 : g[i] = q[i])
  BY DEF Chain, Less
<1> HIDE DEF g
<1>2. \A i : i \in 1 .. n <=> i \in 1 .. n - 1 \/ i = n
  BY <1>1
<1>3. Nodes(n - 1, g) = Nodes(n, q) \ {Node(first)} /\ Node(first) \in Nodes(n, q)
  BY <1>1, <1>2 DEF Nodes, Chain
<1>4. Chain(q[n - 1], links, n - 1, g)
  BY <1>1, <1>2 DEF Chain
<1> QED BY <1>1, <1>3, <1>4

\* A list has as many nodes as links, and no more than there are.
LEMMA ChainSize ==
  ASSUME NEW first, NEW links, NEW n, NEW q, Chain(first, links, n, q)
  PROVE  /\ IsFiniteSet(Nodes(n, q)) /\ Cardinality(Nodes(n, q)) = n
         /\ Cardinality(Blocks) \in Nat /\ n <= Cardinality(Blocks)
<1> DEFINE f == [i \in 1 .. n |-> Node(q[i])]
<1>1. n \in Nat /\ Nodes(n, q) \subseteq Blocks /\ IsFiniteSet(Blocks)
  BY PoolAssumption DEF Chain, Nodes, PoolAssumption
<1>2. f \in Bijection(1 .. n, Nodes(n, q))
  <2>1. f \in [1 .. n -> Nodes(n, q)] /\ \A i \in 1 .. n : f[i] = Node(q[i])
    BY DEF Nodes
  <2>2. \A i, j \in 1 .. n : f[i] = f[j] => i = j
    BY <2>1 DEF Chain
  <2>3. \A x \in Nodes(n, q) : \E i \in 1 .. n : f[i] = x
    BY <2>1 DEF Nodes
  <2> HIDE DEF f
  <2>4. f \in Injection(1 .. n, Nodes(n, q)) /\ f \in Surjection(1 .. n, Nodes(n, q))
    BY <2>1, <2>2, <2>3, Zenon DEF Injection, Surjection, IsInjective
  <2> QED BY <2>4, Zenon DEF Bijection
<1>3. ExistsBijection(1 .. n, Nodes(n, q))
  BY <1>2, Zenon DEF ExistsBijection
<1>4. Cardinality(Nodes(n, q)) = n
  BY <1>1, <1>3, FS_CountingElements, Zenon
<1>5. IsFiniteSet(Nodes(n, q)) /\ Cardinality(Nodes(n, q)) <= Cardinality(Blocks)
  BY <1>1, FS_Subset, Zenon
<1>6. Cardinality(Blocks) \in Nat
  BY <1>1, FS_CardinalityType, Zenon
<1> QED BY <1>4, <1>5, <1>6

\* Following the links from the top, as FreeChain and StackChain do, is
\* following the path downwards.
Walk(at, first, links) ==
  [k \in 0 .. Cardinality(Blocks) |->
     IF k = 0 THEN Node(first)
     ELSE IF at[k - 1] = Null THEN Null ELSE Node(links[at[k - 1]])]
Downwards(n, q) == [k \in 0 .. Cardinality(Blocks) |-> IF k <= n THEN Node(q[n - k]) ELSE Null]

\* The recursive walk is the path, read downwards: by the least place where they
\* would differ.
LEMMA WalkIsDown ==
  ASSUME NEW first, NEW links, NEW n, NEW q, Chain(first, links, n, q)
  PROVE  (CHOOSE at : at = Walk(at, first, links)) = Downwards(n, q)
<1> DEFINE D == 0 .. Cardinality(Blocks)
           g == Downwards(n, q)
<1>1. n \in Nat /\ Cardinality(Blocks) \in Nat /\ Node(q[0]) = Null /\ Node(q[n]) = Node(first)
      /\ \A i \in 1 .. n : Node(q[i]) # Null /\ links[Node(q[i])] = q[i - 1]
  BY ChainSize, PoolAssumption, SMTT(30) DEF Chain, PoolAssumption
<1>2. \A k \in D : g[k] = IF k = 0 THEN Node(first)
                          ELSE IF g[k - 1] = Null THEN Null ELSE Node(links[g[k - 1]])
  BY <1>1 DEF Downwards
<1>3. g = Walk(g, first, links)
  <2>1. g = [k \in D |-> g[k]]
    BY DEF Downwards
  <2> QED BY <1>2, <2>1 DEF Walk
<1>4. ASSUME NEW f, f = Walk(f, first, links) PROVE f = g
  <2> DEFINE T == {k \in D : f[k] # g[k]}
  <2>1. f = [k \in D |-> f[k]] /\ g = [k \in D |-> g[k]]
    BY <1>4 DEF Walk, Downwards
  <2>2. CASE T = {}
    <3>1. \A k \in D : f[k] = g[k]
      BY <2>2
    <3> QED BY <2>1, <3>1
  <2>3. CASE T # {}
    <3>1. T \subseteq Nat
      OBVIOUS
    <3>2. PICK x \in T : \A y \in T : x <= y
      BY <2>3, <3>1, LeastNat, Zenon
    <3>3. x \in D /\ f[x] # g[x]
      OBVIOUS
    <3>4. x = 0 \/ (x # 0 /\ x - 1 \in D /\ f[x - 1] = g[x - 1])
      <4>1. \A y \in D : f[y] # g[y] => x <= y
        BY <3>2
      <4>2. x \in D /\ x \in Nat
        BY <3>3
      <4> HIDE DEF g, T
      <4> QED BY <1>1, <4>1, <4>2
    <3>5. f[x] = IF x = 0 THEN Node(first)
                 ELSE IF f[x - 1] = Null THEN Null ELSE Node(links[f[x - 1]])
      BY <1>4, <3>3 DEF Walk
    <3> QED BY <1>2, <3>3, <3>4, <3>5
  <2> QED BY <2>2, <2>3
<1> HIDE DEF g
<1> QED BY <1>3, <1>4, Zenon DEF g

\* The walk ends at Null, and passes the nodes of the list.
LEMMA DownFrom ==
  ASSUME NEW first, NEW links, NEW n, NEW q, Chain(first, links, n, q)
  PROVE  /\ Downwards(n, q)[Cardinality(Blocks)] = Null
         /\ {Downwards(n, q)[k] : k \in DOMAIN Downwards(n, q)} \ {Null} = Nodes(n, q)
<1> DEFINE down == Downwards(n, q)
<1>1. n \in Nat /\ Cardinality(Blocks) \in Nat /\ n <= Cardinality(Blocks) /\ Node(q[0]) = Null
      /\ \A i \in 1 .. n : Node(q[i]) # Null
  <2>1. Cardinality(Blocks) \in Nat /\ n <= Cardinality(Blocks)
    BY ChainSize, ZenonT(60)
  <2> QED BY <2>1, PoolAssumption DEF Chain, PoolAssumption
<1>2. DOMAIN down = 0 .. Cardinality(Blocks)
      /\ \A k \in 0 .. Cardinality(Blocks) : down[k] = IF k <= n THEN Node(q[n - k]) ELSE Null
  BY DEF Downwards
<1> HIDE DEF down
<1>3. down[Cardinality(Blocks)] = Null
  BY <1>1, <1>2
<1>4. ASSUME NEW i \in 1 .. n PROVE Node(q[i]) \in {down[k] : k \in DOMAIN down} \ {Null}
  <2>1. n - i \in DOMAIN down /\ down[n - i] = Node(q[n - (n - i)]) /\ n - (n - i) = i
    BY <1>1, <1>2
  <2> QED BY <1>1, <2>1
<1>5. ASSUME NEW k \in DOMAIN down, down[k] # Null PROVE down[k] \in Nodes(n, q)
  <2>1. n - k \in 1 .. n /\ down[k] = Node(q[n - k])
    BY <1>1, <1>2, <1>5
  <2> QED BY <2>1 DEF Nodes
<1>6. {down[k] : k \in DOMAIN down} \ {Null} = Nodes(n, q)
  BY <1>4, <1>5, Zenon DEF Nodes
<1> QED BY <1>3, <1>6 DEF down

\* What FreeChain and Free of MemoryPool are, when p is the path of the pool.
LEMMA FreeIs ==
  ASSUME NEW m, NEW p, Chain(pTop, pNext, m, p)
  PROVE  FreeChain[Cardinality(Blocks)] = Null /\ Free = Nodes(m, p)
<1>1. FreeChain = CHOOSE at : at = Walk(at, pTop, pNext)
  BY DEF FreeChain, Walk
<1>2. FreeChain = Downwards(m, p)
  BY <1>1, WalkIsDown, Zenon
<1>3. /\ Downwards(m, p)[Cardinality(Blocks)] = Null
      /\ {Downwards(m, p)[k] : k \in DOMAIN Downwards(m, p)} \ {Null} = Nodes(m, p)
  BY DownFrom, ZenonT(60)
<1> QED BY <1>2, <1>3, Zenon DEF Free

\* What StackChain, InStack and contents are, when q is the path of the stack.
LEMMA StackIs ==
  ASSUME NEW n, NEW q, Chain(top, next, n, q)
  PROVE  /\ StackChain[Cardinality(Blocks)] = Null /\ InStack = Nodes(n, q)
         /\ contents = [i \in 1 .. n |-> value[Node(q[i])]]
<1>1. StackChain = CHOOSE at : at = Walk(at, top, next)
  BY DEF StackChain, Walk
<1>2. StackChain = Downwards(n, q)
  BY <1>1, WalkIsDown, Zenon
<1>3. StackChain[Cardinality(Blocks)] = Null /\ InStack = Nodes(n, q)
  <2>1. /\ Downwards(n, q)[Cardinality(Blocks)] = Null
        /\ {Downwards(n, q)[k] : k \in DOMAIN Downwards(n, q)} \ {Null} = Nodes(n, q)
    BY DownFrom, ZenonT(60)
  <2> QED BY <1>2, <2>1, Zenon DEF InStack
<1>4. Cardinality(InStack) = n /\ n \in Nat /\ n <= Cardinality(Blocks) /\ Cardinality(Blocks) \in Nat
  <2>1. /\ Cardinality(Nodes(n, q)) = n /\ n <= Cardinality(Blocks) /\ Cardinality(Blocks) \in Nat
    BY ChainSize, ZenonT(60)
  <2> QED BY <1>3, <2>1 DEF Chain
<1>5. \A i \in 1 .. n : StackChain[n - i] = Node(q[i])
  <2> TAKE i \in 1 .. n
  <2>1. n - i \in 0 .. Cardinality(Blocks) /\ n - i <= n /\ n - (n - i) = i
    BY <1>4
  <2> QED BY <1>2, <2>1 DEF Downwards
<1>6. contents = [i \in 1 .. n |-> value[StackChain[n - i]]]
  BY <1>4 DEF contents
<1> QED BY <1>3, <1>5, <1>6

-----------------------------------------------------------------------------
\* where the threads are
PushOpen == AllocPcs \cup PushPcs
PushWait == AllocPcs \cup {"pushInit"}
HasTag   == PushPcs \ {"pushInit"}
PopOpen  == {"popRead", "popNext", "popCas"}
PopWait  == PopPcs \cup {"free"}
HasRead  == {"popNext", "popCas"}
PoolRead == {"allocNext", "allocCas"}
PoolTag  == FreePcs \ {"free"}

\* How the calls counted, the tags given out (c by the stack, d by the pool) and
\* the length n of the stack follow from where the threads are.
Counts(n, c, d) ==
  /\ pushes \in Nat /\ pushed \in Nat /\ pops \in Nat
  /\ IsFiniteSet(Of(PushOpen, pc)) /\ pushed + Cardinality(Of(PushOpen, pc)) = pushes
  /\ c \in Nat /\ id = c % TagMod
  /\ IsFiniteSet(Of(PushWait, pc)) /\ c + Cardinality(Of(PushWait, pc)) = pushes
  /\ d \in Nat /\ pId = d % TagMod
  /\ IsFiniteSet(Of(PopWait, pc)) /\ d + Cardinality(Of(PopWait, pc)) = pops
  /\ IsFiniteSet(Of(PopOpen, pc)) /\ n + pops = pushed + Cardinality(Of(PopOpen, pc))

\* Which node is where, for places at, nodes held hd, arguments bk of Free and
\* of the rest of Push, links tv of Pop, and fresh nodes fr; P and Q are those in
\* the pool and in the stack.
Owned(at, hd, bk, tv, fr, P, Q) ==
  /\ \A t \in Procs : hd[t] = IF at[t] \in PushPcs \cup FreePcs THEN {bk[t]}
                              ELSE IF at[t] = "popTake" THEN {Node(tv[t])} ELSE {}
  /\ \A t \in Procs : at[t] \in PushPcs \cup FreePcs => bk[t] \in Blocks
  /\ \A t, u \in Procs : t # u => hd[t] \cap hd[u] = {}
  /\ \A t \in Procs : hd[t] \cap (fr \cup P \cup Q) = {}
  /\ fr \cap P = {} /\ fr \cap Q = {} /\ P \cap Q = {}
  /\ \A b \in Blocks : b \in fr \cup P \cup Q \/ \E t \in Procs : b \in hd[t]

\* The path of the pool, the tags on it, and what the threads in Alloc and Free
\* have read; no thread in Alloc has read a pointer that is yet to be freed.
PoolLinks(m, p, d) ==
  /\ Chain(pTop, pNext, m, p)
  /\ \A i \in 1 .. m : p[i][1] \in Tags(d)
  /\ \A t \in Procs : pc[t] \in AllocPcs => ret[t] = "pushInit"
  /\ \A t \in Procs : pc[t] \in FreePcs => ret[t] = "idle"
  /\ \A t \in Procs : pc[t] \in PoolRead => Node(pVal[t]) \in Blocks /\ pVal[t][1] \in Tags(d)
  /\ \A t \in Procs : pc[t] = "allocCas" => \A i \in 1 .. m : pVal[t] = p[i] => pNxt[t] = p[i - 1]
  /\ \A t \in Procs : pc[t] \in PoolTag => Node(blkVal[t]) = blk[t] /\ blkVal[t][1] \in Tags(d)
  /\ \A t \in Procs : pc[t] = "freeCas" => pNext[blk[t]] = pVal[t]
  /\ \A t, u \in Procs : pc[t] \in PoolRead /\ pc[u] \in PoolTag => pVal[t] # blkVal[u]

\* The same of the stack, for the threads in Push and Pop.
StackLinks(n, q, c) ==
  /\ Chain(top, next, n, q)
  /\ \A i \in 1 .. n : q[i][1] \in Tags(c)
  /\ \A t \in Procs : pc[t] \in HasRead \cup {"popTake"} =>
       Node(topVal[t]) \in Blocks /\ topVal[t][1] \in Tags(c)
  /\ \A t \in Procs : pc[t] = "popCas" => \A i \in 1 .. n : topVal[t] = q[i] => nextVal[t] = q[i - 1]
  /\ \A t \in Procs : pc[t] \in HasTag => Node(nodeVal[t]) = blk[t] /\ nodeVal[t][1] \in Tags(c)
  /\ \A t \in Procs : pc[t] = "pushCas" => next[blk[t]] = topVal[t]
  /\ \A t, u \in Procs : pc[t] \in HasRead /\ pc[u] \in HasTag => topVal[t] # nodeVal[u]

\* The values of the nodes in the stack, on their way in and on their way out.
Contents(n, q) ==
  /\ \A t \in Procs : pc[t] \in HasTag => value[blk[t]] = item[t]
  /\ \A t \in Procs : pc[t] \in PushPcs \cup AllocPcs \cup FreePcs => item[t] \in Items
  /\ \A i \in 1 .. n : value[Node(q[i])] \in Items
  /\ \A t \in Procs : pc[t] = "popTake" => value[Node(topVal[t])] \in Items

\* The invariant for two given paths and tag counts.
Good(m, p, n, q, c, d) ==
  /\ TypeOK /\ Counts(n, c, d) /\ Owned(pc, held, blk, topVal, fresh, Nodes(m, p), Nodes(n, q))
  /\ PoolLinks(m, p, d) /\ StackLinks(n, q, c) /\ Contents(n, q)
IInv == \E m, p, n, q, c, d : Good(m, p, n, q, c, d)
\* No tag comes twice.
Bounds == MaxPush \in Nat /\ MaxPush <= TagMod

\* How a step of one thread changes the numbers in Counts.
LEMMA CountsMove ==
  ASSUME NEW n, NEW c, NEW d, Counts(n, c, d), NEW t \in Procs,
         \A u \in Procs : u # t => pc'[u] = pc[u]
  PROVE  \A S \in {PushOpen, PushWait, PopWait, PopOpen} :
           /\ IsFiniteSet(Of(S, pc'))
           /\ Cardinality(Of(S, pc)) \in Nat /\ Cardinality(Of(S, pc')) \in Nat
           /\ pc[t] \in S => Cardinality(Of(S, pc)) >= 1
           /\ pc[t] \in S /\ pc'[t] \notin S => Cardinality(Of(S, pc')) = Cardinality(Of(S, pc)) - 1
           /\ pc[t] \notin S /\ pc'[t] \in S => Cardinality(Of(S, pc')) = Cardinality(Of(S, pc)) + 1
           /\ (pc[t] \in S <=> pc'[t] \in S) => Cardinality(Of(S, pc')) = Cardinality(Of(S, pc))
<1> TAKE S \in {PushOpen, PushWait, PopWait, PopOpen}
<1>1. IsFiniteSet(Of(S, pc))
  BY DEF Counts
<1>2. PICK a, a1 : a = pc /\ a1 = pc'
  OBVIOUS
<1>3. IsFiniteSet(Of(S, a)) /\ \A u \in Procs : u # t => a1[u] = a[u]
  BY <1>1, <1>2
<1>4. /\ IsFiniteSet(Of(S, a1))
      /\ Cardinality(Of(S, a)) \in Nat /\ Cardinality(Of(S, a1)) \in Nat
      /\ a[t] \in S => Cardinality(Of(S, a)) >= 1
      /\ a[t] \in S /\ a1[t] \notin S => Cardinality(Of(S, a1)) = Cardinality(Of(S, a)) - 1
      /\ a[t] \notin S /\ a1[t] \in S => Cardinality(Of(S, a1)) = Cardinality(Of(S, a)) + 1
      /\ (a[t] \in S <=> a1[t] \in S) => Cardinality(Of(S, a1)) = Cardinality(Of(S, a))
  BY <1>3, Moves
<1> QED BY <1>2, <1>4

\* A step that passes none of the places counted changes no number.
LEMMA CountsStay ==
  ASSUME NEW n, NEW c, NEW d, Counts(n, c, d), NEW t \in Procs, NEW l,
         DOMAIN pc = Procs, pc' = [pc EXCEPT ![t] = l],
         UNCHANGED <<id, pId, pushes, pushed, pops>>,
         pc[t] \in PushWait <=> l \in PushWait, pc[t] \in PushOpen <=> l \in PushOpen,
         pc[t] \in PopWait <=> l \in PopWait, pc[t] \in PopOpen <=> l \in PopOpen
  PROVE  Counts(n, c, d)'
<1>1. pc'[t] = l /\ \A u \in Procs : u # t => pc'[u] = pc[u]
  OBVIOUS
<1>2. \A S \in {PushOpen, PushWait, PopWait, PopOpen} :
        (pc[t] \in S <=> pc'[t] \in S) =>
          IsFiniteSet(Of(S, pc')) /\ Cardinality(Of(S, pc')) = Cardinality(Of(S, pc))
  BY <1>1, CountsMove
<1> QED BY <1>1, <1>2 DEF Counts

\* What the numbers say of a thread that is underway.
LEMMA Underway ==
  ASSUME NEW n, NEW c, NEW d, Counts(n, c, d), NEW t \in Procs
  PROVE  /\ pc[t] \in PushOpen => pushed < pushes
         /\ pc[t] \in PushWait => c < pushes
         /\ pc[t] \in PopWait => d < pops
         /\ pc[t] \in PopOpen /\ n \in Nat /\ pops <= pushed => n # 0
         /\ c <= pushes /\ d <= pops
<1>1. \A S \in {PushOpen, PushWait, PopWait, PopOpen} :
        Cardinality(Of(S, pc)) \in Nat /\ (pc[t] \in S => Cardinality(Of(S, pc)) >= 1)
  BY Moves DEF Counts
<1> QED BY <1>1 DEF Counts

\* Push is called.
LEMMA CountsStartPush ==
  ASSUME NEW n \in Nat, NEW c, NEW d, Counts(n, c, d), NEW t \in Procs, DOMAIN pc = Procs,
         pc[t] = "idle", pc' = [pc EXCEPT ![t] = "alloc"],
         pushes' = pushes + 1, UNCHANGED <<id, pId, pushed, pops>>
  PROVE  Counts(n, c, d)'
<1> DEFINE Size(S) == Cardinality(Of(S, pc))
           Size1(S) == Cardinality(Of(S, pc'))
<1>0. \A u \in Procs : u # t => pc'[u] = pc[u]
  OBVIOUS
<1>1. \A S \in {PushOpen, PushWait, PopWait, PopOpen} :
        /\ IsFiniteSet(Of(S, pc')) /\ Size(S) \in Nat /\ Size1(S) \in Nat
        /\ (pc[t] \in S /\ pc'[t] \notin S => Size1(S) = Size(S) - 1)
        /\ (pc[t] \notin S /\ pc'[t] \in S => Size1(S) = Size(S) + 1)
        /\ ((pc[t] \in S <=> pc'[t] \in S) => Size1(S) = Size(S))
  BY <1>0, CountsMove
<1>2. Size1(PushOpen) = Size(PushOpen) + 1 /\ Size1(PushWait) = Size(PushWait) + 1
      /\ Size1(PopWait) = Size(PopWait) /\ Size1(PopOpen) = Size(PopOpen)
  BY <1>1 DEF PushOpen, PushWait, PopWait, PopOpen, PushPcs, PopPcs, AllocPcs
<1> QED BY <1>1, <1>2 DEF Counts

\* Push gives out a tag of the stack.
LEMMA CountsPushInit ==
  ASSUME NEW n \in Nat, NEW c, NEW d, Counts(n, c, d), NEW t \in Procs, DOMAIN pc = Procs,
         pc[t] = "pushInit", pc' = [pc EXCEPT ![t] = "pushRead"],
         id' = (c + 1) % TagMod, UNCHANGED <<pId, pushes, pushed, pops>>
  PROVE  Counts(n, c + 1, d)'
<1> DEFINE Size(S) == Cardinality(Of(S, pc))
           Size1(S) == Cardinality(Of(S, pc'))
<1>0. \A u \in Procs : u # t => pc'[u] = pc[u]
  OBVIOUS
<1>1. \A S \in {PushOpen, PushWait, PopWait, PopOpen} :
        /\ IsFiniteSet(Of(S, pc')) /\ Size(S) \in Nat /\ Size1(S) \in Nat
        /\ (pc[t] \in S /\ pc'[t] \notin S => Size1(S) = Size(S) - 1)
        /\ (pc[t] \notin S /\ pc'[t] \in S => Size1(S) = Size(S) + 1)
        /\ ((pc[t] \in S <=> pc'[t] \in S) => Size1(S) = Size(S))
  BY <1>0, CountsMove
<1>2. Size1(PushOpen) = Size(PushOpen) /\ Size1(PushWait) = Size(PushWait) - 1
      /\ Size1(PopWait) = Size(PopWait) /\ Size1(PopOpen) = Size(PopOpen)
  BY <1>1 DEF PushOpen, PushWait, PopWait, PopOpen, PushPcs, PopPcs, AllocPcs
<1> QED BY <1>1, <1>2 DEF Counts

\* Push returns, its node being in the stack.
LEMMA CountsPushCas ==
  ASSUME NEW n \in Nat, NEW c, NEW d, Counts(n, c, d), NEW t \in Procs, DOMAIN pc = Procs,
         pc[t] = "pushCas", pc' = [pc EXCEPT ![t] = "idle"],
         pushed' = pushed + 1, UNCHANGED <<id, pId, pushes, pops>>
  PROVE  Counts(n + 1, c, d)'
<1> DEFINE Size(S) == Cardinality(Of(S, pc))
           Size1(S) == Cardinality(Of(S, pc'))
<1>0. \A u \in Procs : u # t => pc'[u] = pc[u]
  OBVIOUS
<1>1. \A S \in {PushOpen, PushWait, PopWait, PopOpen} :
        /\ IsFiniteSet(Of(S, pc')) /\ Size(S) \in Nat /\ Size1(S) \in Nat
        /\ (pc[t] \in S /\ pc'[t] \notin S => Size1(S) = Size(S) - 1)
        /\ (pc[t] \notin S /\ pc'[t] \in S => Size1(S) = Size(S) + 1)
        /\ ((pc[t] \in S <=> pc'[t] \in S) => Size1(S) = Size(S))
  BY <1>0, CountsMove
<1>2. Size1(PushOpen) = Size(PushOpen) - 1 /\ Size1(PushWait) = Size(PushWait)
      /\ Size1(PopWait) = Size(PopWait) /\ Size1(PopOpen) = Size(PopOpen)
  BY <1>1 DEF PushOpen, PushWait, PopWait, PopOpen, PushPcs, PopPcs, AllocPcs
<1> QED BY <1>1, <1>2 DEF Counts

\* Pop is called.
LEMMA CountsStartPop ==
  ASSUME NEW n \in Nat, NEW c, NEW d, Counts(n, c, d), NEW t \in Procs, DOMAIN pc = Procs,
         pc[t] = "idle", pc' = [pc EXCEPT ![t] = "popRead"],
         pops' = pops + 1, UNCHANGED <<id, pId, pushes, pushed>>
  PROVE  Counts(n, c, d)'
<1> DEFINE Size(S) == Cardinality(Of(S, pc))
           Size1(S) == Cardinality(Of(S, pc'))
<1>0. \A u \in Procs : u # t => pc'[u] = pc[u]
  OBVIOUS
<1>1. \A S \in {PushOpen, PushWait, PopWait, PopOpen} :
        /\ IsFiniteSet(Of(S, pc')) /\ Size(S) \in Nat /\ Size1(S) \in Nat
        /\ (pc[t] \in S /\ pc'[t] \notin S => Size1(S) = Size(S) - 1)
        /\ (pc[t] \notin S /\ pc'[t] \in S => Size1(S) = Size(S) + 1)
        /\ ((pc[t] \in S <=> pc'[t] \in S) => Size1(S) = Size(S))
  BY <1>0, CountsMove
<1>2. Size1(PushOpen) = Size(PushOpen) /\ Size1(PushWait) = Size(PushWait)
      /\ Size1(PopWait) = Size(PopWait) + 1 /\ Size1(PopOpen) = Size(PopOpen) + 1
  BY <1>1 DEF PushOpen, PushWait, PopWait, PopOpen, PushPcs, PopPcs, AllocPcs
<1> QED BY <1>1, <1>2 DEF Counts

\* Pop has its node.
LEMMA CountsPopCas ==
  ASSUME NEW n \in Nat, NEW c, NEW d, Counts(n, c, d), NEW t \in Procs, DOMAIN pc = Procs,
         pc[t] = "popCas", pc' = [pc EXCEPT ![t] = "popTake"],
         n # 0, UNCHANGED <<id, pId, pushes, pushed, pops>>
  PROVE  Counts(n - 1, c, d)'
<1> DEFINE Size(S) == Cardinality(Of(S, pc))
           Size1(S) == Cardinality(Of(S, pc'))
<1>0. \A u \in Procs : u # t => pc'[u] = pc[u]
  OBVIOUS
<1>1. \A S \in {PushOpen, PushWait, PopWait, PopOpen} :
        /\ IsFiniteSet(Of(S, pc')) /\ Size(S) \in Nat /\ Size1(S) \in Nat
        /\ (pc[t] \in S /\ pc'[t] \notin S => Size1(S) = Size(S) - 1)
        /\ (pc[t] \notin S /\ pc'[t] \in S => Size1(S) = Size(S) + 1)
        /\ ((pc[t] \in S <=> pc'[t] \in S) => Size1(S) = Size(S))
  BY <1>0, CountsMove
<1>2. Size1(PushOpen) = Size(PushOpen) /\ Size1(PushWait) = Size(PushWait)
      /\ Size1(PopWait) = Size(PopWait) /\ Size1(PopOpen) = Size(PopOpen) - 1
  BY <1>1 DEF PushOpen, PushWait, PopWait, PopOpen, PushPcs, PopPcs, AllocPcs
<1> QED BY <1>1, <1>2 DEF Counts

\* Free gives out a tag of the pool.
LEMMA CountsFreeTag ==
  ASSUME NEW n \in Nat, NEW c, NEW d, Counts(n, c, d), NEW t \in Procs, DOMAIN pc = Procs,
         pc[t] = "free", pc' = [pc EXCEPT ![t] = "freeRead"],
         pId' = (d + 1) % TagMod, UNCHANGED <<id, pushes, pushed, pops>>
  PROVE  Counts(n, c, d + 1)'
<1> DEFINE Size(S) == Cardinality(Of(S, pc))
           Size1(S) == Cardinality(Of(S, pc'))
<1>0. \A u \in Procs : u # t => pc'[u] = pc[u]
  OBVIOUS
<1>1. \A S \in {PushOpen, PushWait, PopWait, PopOpen} :
        /\ IsFiniteSet(Of(S, pc')) /\ Size(S) \in Nat /\ Size1(S) \in Nat
        /\ (pc[t] \in S /\ pc'[t] \notin S => Size1(S) = Size(S) - 1)
        /\ (pc[t] \notin S /\ pc'[t] \in S => Size1(S) = Size(S) + 1)
        /\ ((pc[t] \in S <=> pc'[t] \in S) => Size1(S) = Size(S))
  BY <1>0, CountsMove
<1>2. Size1(PushOpen) = Size(PushOpen) /\ Size1(PushWait) = Size(PushWait)
      /\ Size1(PopWait) = Size(PopWait) - 1 /\ Size1(PopOpen) = Size(PopOpen)
  BY <1>1 DEF PushOpen, PushWait, PopWait, PopOpen, PushPcs, PopPcs, AllocPcs
<1> QED BY <1>1, <1>2 DEF Counts

USE DEF PushPcs, PopPcs, AllocPcs, FreePcs, PushOpen, PushWait, HasTag, PopOpen, PopWait, HasRead, PoolRead,
        PoolTag, Jump, Call, vars, poolVars, stackVars, callVars

\* A thread that holds nothing takes a node from where nobody holds it.
LEMMA Taken ==
  ASSUME NEW P, NEW Q, Owned(pc, held, blk, topVal, fresh, P, Q),
         NEW t \in Procs, NEW b \in fresh \cup P \cup Q, b \in Blocks,
         held[t] = {}, held'[t] = {b}, \A u \in Procs : u # t => held'[u] = held[u],
         fresh' = fresh \ {b},
         \A u \in Procs : u # t => pc'[u] = pc[u] /\ blk'[u] = blk[u] /\ topVal'[u] = topVal[u],
         \/ pc'[t] \in PushPcs \cup FreePcs /\ blk'[t] = b
         \/ pc'[t] = "popTake" /\ Node(topVal'[t]) = b
  PROVE  Owned(pc', held', blk', topVal', fresh', P \ {b}, Q \ {b})
<1>1. held'[t] = {b} /\ \A u \in Procs : u # t => held'[u] = held[u]
  OBVIOUS
<1>2. \A u \in Procs : held'[u] = IF pc'[u] \in PushPcs \cup FreePcs THEN {blk'[u]}
                                ELSE IF pc'[u] = "popTake" THEN {Node(topVal'[u])} ELSE {}
  <2> TAKE u \in Procs
  <2>1. CASE u = t
    BY <1>1, <2>1
  <2>2. CASE u # t
    <3>1. held[u] = IF pc[u] \in PushPcs \cup FreePcs THEN {blk[u]}
                    ELSE IF pc[u] = "popTake" THEN {Node(topVal[u])} ELSE {}
      BY DEF Owned
    <3>2. /\ held'[u] = held[u] /\ pc'[u] = pc[u] /\ blk'[u] = blk[u] /\ topVal'[u] = topVal[u]
      BY <1>1, <2>2
    <3> QED BY <3>1, <3>2
  <2> QED BY <2>1, <2>2
<1>3. \A u \in Procs : pc'[u] \in PushPcs \cup FreePcs => blk'[u] \in Blocks
  BY DEF Owned
<1>4. \A u, w \in Procs : u # w => held'[u] \cap held'[w] = {}
  BY <1>1 DEF Owned
<1>5. \A u \in Procs : held'[u] \cap (fresh' \cup (P \ {b}) \cup (Q \ {b})) = {}
  BY <1>1 DEF Owned
<1>6. \A x \in Blocks : x \in fresh' \cup (P \ {b}) \cup (Q \ {b}) \/ \E u \in Procs : x \in held'[u]
  <2> TAKE x \in Blocks
  <2>1. CASE x = b
    BY <1>1, <2>1
  <2>2. CASE x # b
    <3>1. x \in fresh \cup P \cup Q \/ \E u \in Procs : u # t /\ x \in held[u]
      BY DEF Owned
    <3> QED BY <1>1, <2>2, <3>1
  <2> QED BY <2>1, <2>2
<1>7. fresh' \cap (P \ {b}) = {} /\ fresh' \cap (Q \ {b}) = {} /\ (P \ {b}) \cap (Q \ {b}) = {}
  BY DEF Owned
<1> QED BY <1>2, <1>3, <1>4, <1>5, <1>6, <1>7, Zenon DEF Owned

\* A thread gives what it holds to one of the lists.
LEMMA Given ==
  ASSUME NEW P, NEW Q, Owned(pc, held, blk, topVal, fresh, P, Q),
         NEW P1, NEW Q1,
         NEW t \in Procs, NEW b, held[t] = {b},
         P1 \cup Q1 = P \cup Q \cup {b}, P1 \cap Q1 = {}, fresh' = fresh,
         held'[t] = {}, \A u \in Procs : u # t => held'[u] = held[u],
         \A u \in Procs : u # t => pc'[u] = pc[u] /\ blk'[u] = blk[u] /\ topVal'[u] = topVal[u],
         pc'[t] \notin PushPcs \cup FreePcs \cup {"popTake"}
  PROVE  Owned(pc', held', blk', topVal', fresh', P1, Q1)
<1>1. held'[t] = {} /\ \A u \in Procs : u # t => held'[u] = held[u]
  OBVIOUS
<1>2. \A u \in Procs : held'[u] = IF pc'[u] \in PushPcs \cup FreePcs THEN {blk'[u]}
                                ELSE IF pc'[u] = "popTake" THEN {Node(topVal'[u])} ELSE {}
  <2> TAKE u \in Procs
  <2>1. CASE u = t
    BY <1>1, <2>1
  <2>2. CASE u # t
    BY <1>1, <2>2 DEF Owned
  <2> QED BY <2>1, <2>2
<1>3. \A u \in Procs : pc'[u] \in PushPcs \cup FreePcs => blk'[u] \in Blocks
  BY DEF Owned
<1>4. \A u, w \in Procs : u # w => held'[u] \cap held'[w] = {}
  BY <1>1 DEF Owned
<1>5. \A u \in Procs : held'[u] \cap (fresh \cup P1 \cup Q1) = {}
  BY <1>1 DEF Owned
<1>6. \A x \in Blocks : x \in fresh \cup P1 \cup Q1 \/ \E u \in Procs : x \in held'[u]
  <2> TAKE x \in Blocks
  <2>1. CASE x = b
    BY <2>1
  <2>2. CASE x # b
    BY <1>1, <2>2 DEF Owned
  <2> QED BY <2>1, <2>2
<1>7. fresh \cap P1 = {} /\ fresh \cap Q1 = {}
  BY DEF Owned
<1> QED BY <1>2, <1>3, <1>4, <1>5, <1>6, <1>7 DEF Owned

\* One step of a thread preserves the invariant: first the steps that leave both
\* lists as they are, which only read or write a node that the thread holds.
LEMMA StepPushRead ==
  ASSUME NEW t \in Procs, NEW m, NEW p, NEW n, NEW q, NEW c, NEW d,
         Good(m, p, n, q, c, d), Bounds,
         PushRead(t)
  PROVE  Good(m, p, n, q, c, d)'
<1>1. TypeOK'
  BY DEF PushRead, Good, TypeOK, PoolTypeOK
<1>2. Counts(n, c, d)'
  BY CountsStay DEF PushRead, Good, TypeOK
<1>3. Owned(pc, held, blk, topVal, fresh, Nodes(m, p), Nodes(n, q))'
  BY DEF PushRead, Good, TypeOK, PoolTypeOK, Owned
<1>4. PoolLinks(m, p, d)'
  BY DEF PushRead, Good, TypeOK, PoolTypeOK, PoolLinks
<1>5. StackLinks(n, q, c)'
  BY DEF PushRead, Good, TypeOK, StackLinks
<1>6. Contents(n, q)'
  BY DEF PushRead, Good, TypeOK, Contents
<1> QED BY <1>1, <1>2, <1>3, <1>4, <1>5, <1>6 DEF Good

LEMMA StepPushLink ==
  ASSUME NEW t \in Procs, NEW m, NEW p, NEW n, NEW q, NEW c, NEW d,
         Good(m, p, n, q, c, d), Bounds,
         PushLink(t)
  PROVE  Good(m, p, n, q, c, d)'
<1>1. TypeOK'
  BY DEF PushLink, Good, TypeOK, PoolTypeOK
<1>2. Counts(n, c, d)'
  BY CountsStay DEF PushLink, Good, TypeOK
<1>3. Owned(pc, held, blk, topVal, fresh, Nodes(m, p), Nodes(n, q))'
  BY DEF PushLink, Good, TypeOK, PoolTypeOK, Owned
<1>4. PoolLinks(m, p, d)'
  BY DEF PushLink, Good, TypeOK, PoolTypeOK, PoolLinks
<1>5. StackLinks(n, q, c)'
  <2>1. Chain(top, next, n, q)' /\ blk[t] \in Blocks
    <3>1. blk[t] \notin Nodes(n, q) /\ blk[t] \in Blocks
      BY DEF PushLink, Good, Owned
    <3> QED BY <3>1, ChainWrite DEF PushLink, Good, TypeOK, StackLinks
  <2>2. \A u \in Procs : u # t /\ pc[u] = "pushCas" => blk[u] # blk[t]
    BY DEF PushLink, Good, Owned
  <2> QED BY <2>1, <2>2 DEF PushLink, Good, TypeOK, StackLinks
<1>6. Contents(n, q)'
  BY DEF PushLink, Good, TypeOK, Contents
<1> QED BY <1>1, <1>2, <1>3, <1>4, <1>5, <1>6 DEF Good

LEMMA StepPopNext ==
  ASSUME NEW t \in Procs, NEW m, NEW p, NEW n, NEW q, NEW c, NEW d,
         Good(m, p, n, q, c, d), Bounds,
         PopNext(t)
  PROVE  Good(m, p, n, q, c, d)'
<1>1. TypeOK'
  BY DEF PopNext, Good, TypeOK, PoolTypeOK, StackLinks
<1>2. Counts(n, c, d)'
  BY CountsStay DEF PopNext, Good, TypeOK
<1>3. Owned(pc, held, blk, topVal, fresh, Nodes(m, p), Nodes(n, q))'
  BY DEF PopNext, Good, TypeOK, PoolTypeOK, Owned
<1>4. PoolLinks(m, p, d)'
  BY DEF PopNext, Good, TypeOK, PoolTypeOK, PoolLinks
<1>5. StackLinks(n, q, c)'
  <2>1. \A i \in 1 .. n : topVal[t] = q[i] => nextVal'[t] = q[i - 1]
    BY DEF PopNext, Good, TypeOK, StackLinks, Chain
  <2> QED BY <2>1 DEF PopNext, Good, TypeOK, StackLinks
<1>6. Contents(n, q)'
  BY DEF PopNext, Good, TypeOK, Contents
<1> QED BY <1>1, <1>2, <1>3, <1>4, <1>5, <1>6 DEF Good

LEMMA StepPopTake ==
  ASSUME NEW t \in Procs, NEW m, NEW p, NEW n, NEW q, NEW c, NEW d,
         Good(m, p, n, q, c, d), Bounds,
         PopTake(t)
  PROVE  Good(m, p, n, q, c, d)'
<1>1. TypeOK'
  BY DEF PopTake, Good, TypeOK, PoolTypeOK, StackLinks
<1>2. Counts(n, c, d)'
  BY CountsStay DEF PopTake, Good, TypeOK
<1>3. Owned(pc, held, blk, topVal, fresh, Nodes(m, p), Nodes(n, q))'
  BY DEF PopTake, Good, TypeOK, PoolTypeOK, Owned
<1>4. PoolLinks(m, p, d)'
  BY DEF PopTake, Good, TypeOK, PoolTypeOK, PoolLinks
<1>5. StackLinks(n, q, c)'
  BY DEF PopTake, Good, TypeOK, StackLinks
<1>6. Contents(n, q)'
  BY DEF PopTake, Good, TypeOK, Contents
<1> QED BY <1>1, <1>2, <1>3, <1>4, <1>5, <1>6 DEF Good

LEMMA StepAllocNext ==
  ASSUME NEW t \in Procs, NEW m, NEW p, NEW n, NEW q, NEW c, NEW d,
         Good(m, p, n, q, c, d), Bounds,
         AllocNext(t), UNCHANGED <<stackVars, callVars>>
  PROVE  Good(m, p, n, q, c, d)'
<1>1. TypeOK'
  BY DEF AllocNext, Good, TypeOK, PoolTypeOK, PoolLinks
<1>2. Counts(n, c, d)'
  BY CountsStay DEF AllocNext, Good, TypeOK
<1>3. Owned(pc, held, blk, topVal, fresh, Nodes(m, p), Nodes(n, q))'
  BY DEF AllocNext, Good, TypeOK, PoolTypeOK, Owned
<1>4. PoolLinks(m, p, d)'
  <2>1. \A i \in 1 .. m : pVal[t] = p[i] => pNxt'[t] = p[i - 1]
    BY DEF AllocNext, Good, TypeOK, PoolTypeOK, PoolLinks, Chain
  <2> QED BY <2>1 DEF AllocNext, Good, TypeOK, PoolTypeOK, PoolLinks
<1>5. StackLinks(n, q, c)'
  BY DEF AllocNext, Good, TypeOK, StackLinks
<1>6. Contents(n, q)'
  BY DEF AllocNext, Good, TypeOK, Contents
<1> QED BY <1>1, <1>2, <1>3, <1>4, <1>5, <1>6 DEF Good

LEMMA StepFreeRead ==
  ASSUME NEW t \in Procs, NEW m, NEW p, NEW n, NEW q, NEW c, NEW d,
         Good(m, p, n, q, c, d), Bounds,
         FreeRead(t), UNCHANGED <<stackVars, callVars>>
  PROVE  Good(m, p, n, q, c, d)'
<1>1. TypeOK'
  BY DEF FreeRead, Good, TypeOK, PoolTypeOK
<1>2. Counts(n, c, d)'
  BY CountsStay DEF FreeRead, Good, TypeOK
<1>3. Owned(pc, held, blk, topVal, fresh, Nodes(m, p), Nodes(n, q))'
  BY DEF FreeRead, Good, TypeOK, PoolTypeOK, Owned
<1>4. PoolLinks(m, p, d)'
  BY DEF FreeRead, Good, TypeOK, PoolTypeOK, PoolLinks
<1>5. StackLinks(n, q, c)'
  BY DEF FreeRead, Good, TypeOK, StackLinks
<1>6. Contents(n, q)'
  BY DEF FreeRead, Good, TypeOK, Contents
<1> QED BY <1>1, <1>2, <1>3, <1>4, <1>5, <1>6 DEF Good

LEMMA StepFreeLink ==
  ASSUME NEW t \in Procs, NEW m, NEW p, NEW n, NEW q, NEW c, NEW d,
         Good(m, p, n, q, c, d), Bounds,
         FreeLink(t), UNCHANGED <<stackVars, callVars>>
  PROVE  Good(m, p, n, q, c, d)'
<1>1. TypeOK'
  BY DEF FreeLink, Good, TypeOK, PoolTypeOK
<1>2. Counts(n, c, d)'
  BY CountsStay DEF FreeLink, Good, TypeOK
<1>3. Owned(pc, held, blk, topVal, fresh, Nodes(m, p), Nodes(n, q))'
  BY DEF FreeLink, Good, TypeOK, PoolTypeOK, Owned
<1>4. PoolLinks(m, p, d)'
  <2>1. Chain(pTop, pNext, m, p)' /\ blk[t] \in Blocks
    <3>1. blk[t] \notin Nodes(m, p) /\ blk[t] \in Blocks
      BY DEF FreeLink, Good, Owned
    <3> QED BY <3>1, ChainWrite DEF FreeLink, Good, TypeOK, PoolTypeOK, PoolLinks
  <2>2. \A u \in Procs : u # t /\ pc[u] = "freeCas" => blk[u] # blk[t]
    BY DEF FreeLink, Good, Owned
  <2> QED BY <2>1, <2>2 DEF FreeLink, Good, TypeOK, PoolTypeOK, PoolLinks
<1>5. StackLinks(n, q, c)'
  BY DEF FreeLink, Good, TypeOK, StackLinks
<1>6. Contents(n, q)'
  BY DEF FreeLink, Good, TypeOK, Contents
<1> QED BY <1>1, <1>2, <1>3, <1>4, <1>5, <1>6 DEF Good

\* What the top of either list is.
LEMMA TopOf ==
  ASSUME NEW first, NEW links, NEW n, NEW q, Chain(first, links, n, q), Node(first) # Null
  PROVE  /\ n \in Nat /\ n # 0 /\ n \in 1 .. n /\ q[n] = first
         /\ Node(first) \in Nodes(n, q) /\ Node(first) \in Blocks
  BY ChainEnds DEF Chain, Nodes

\* Then the steps of the pool.
LEMMA StepAllocFresh ==
  ASSUME NEW t \in Procs, NEW m, NEW p, NEW n, NEW q, NEW c, NEW d,
         Good(m, p, n, q, c, d), Bounds,
         AllocRead(t), UNCHANGED <<stackVars, callVars>>, Node(pTop) = Null
  PROVE  Good(m, p, n, q, c, d)'
<1>0. /\ pVal' = [pVal EXCEPT ![t] = pTop] /\ ret' = ret
      /\ UNCHANGED <<pTop, pId, pNext, pNxt, blkVal, stackVars, callVars>>
      /\ \E b \in fresh : /\ fresh' = fresh \ {b} /\ held' = [held EXCEPT ![t] = @ \cup {b}]
                         /\ blk' = [blk EXCEPT ![t] = b] /\ pc' = [pc EXCEPT ![t] = "pushInit"]
  BY DEF AllocRead, Good, PoolLinks
<1>a. PICK b \in fresh : /\ fresh' = fresh \ {b} /\ held' = [held EXCEPT ![t] = @ \cup {b}]
                        /\ blk' = [blk EXCEPT ![t] = b] /\ pc' = [pc EXCEPT ![t] = "pushInit"]
  BY <1>0
<1>b. pc[t] = "alloc"
  BY DEF AllocRead
<1>1. TypeOK'
  BY <1>0, <1>a, <1>b DEF Good, TypeOK, PoolTypeOK
<1>2. Counts(n, c, d)'
  BY <1>0, <1>a, <1>b, CountsStay DEF Good, TypeOK
<1>3. Owned(pc, held, blk, topVal, fresh, Nodes(m, p), Nodes(n, q))'
  <2>1. held[t] = {} /\ b \in Blocks /\ Nodes(m, p) \ {b} = Nodes(m, p) /\ Nodes(n, q) \ {b} = Nodes(n, q)
    BY <1>b DEF Good, TypeOK, PoolTypeOK, Owned
  <2>2. held'[t] = {b} /\ (\A u \in Procs : u # t => held'[u] = held[u]) /\ blk'[t] = b
        /\ \A u \in Procs : u # t => pc'[u] = pc[u] /\ blk'[u] = blk[u] /\ topVal'[u] = topVal[u]
    BY <1>0, <1>a, <2>1 DEF Good, TypeOK, PoolTypeOK
  <2>3. /\ Owned(pc, held, blk, topVal, fresh, Nodes(m, p), Nodes(n, q))
        /\ b \in fresh /\ fresh' = fresh \ {b} /\ pc'[t] = "pushInit"
    BY <1>a DEF Good, TypeOK, PoolTypeOK
  <2>4. Owned(pc', held', blk', topVal', fresh', Nodes(m, p) \ {b}, Nodes(n, q) \ {b})
    BY <2>1, <2>2, <2>3, Taken
  <2> QED BY <2>1, <2>4
<1>4. PoolLinks(m, p, d)'
  BY <1>0, <1>a, <1>b DEF Good, TypeOK, PoolTypeOK, PoolLinks
<1>5. StackLinks(n, q, c)'
  BY <1>0, <1>a, <1>b DEF Good, TypeOK, StackLinks
<1>6. Contents(n, q)'
  BY <1>0, <1>a, <1>b DEF Good, TypeOK, Contents
<1> QED BY <1>1, <1>2, <1>3, <1>4, <1>5, <1>6 DEF Good

LEMMA StepAllocSeen ==
  ASSUME NEW t \in Procs, NEW m, NEW p, NEW n, NEW q, NEW c, NEW d,
         Good(m, p, n, q, c, d), Bounds,
         AllocRead(t), UNCHANGED <<stackVars, callVars>>, Node(pTop) # Null
  PROVE  Good(m, p, n, q, c, d)'
<1>0. /\ pc[t] = "alloc" /\ pc' = [pc EXCEPT ![t] = "allocNext"] /\ ret' = ret
      /\ pVal' = [pVal EXCEPT ![t] = pTop]
      /\ UNCHANGED <<pTop, pId, pNext, pNxt, blkVal, fresh, held, blk, stackVars, callVars>>
  BY DEF AllocRead
<1>1. TypeOK'
  BY <1>0 DEF Good, TypeOK, PoolTypeOK
<1>2. Counts(n, c, d)'
  BY <1>0, CountsStay DEF Good, TypeOK
<1>3. Owned(pc, held, blk, topVal, fresh, Nodes(m, p), Nodes(n, q))'
  BY <1>0 DEF Good, TypeOK, PoolTypeOK, Owned
<1>4. PoolLinks(m, p, d)'
  <2>1. Node(pTop) \in Blocks /\ pTop[1] \in Tags(d) /\ Node(pTop) \in Nodes(m, p)
    BY TopOf DEF Good, PoolLinks
  <2>2. \A u \in Procs : pc[u] \in PoolTag => pTop # blkVal[u]
    <3>1. \A u \in Procs : pc[u] \in PoolTag => blk[u] \in held[u] /\ held[u] \cap Nodes(m, p) = {}
      BY DEF Good, Owned
    <3> QED BY <2>1, <3>1 DEF Good, PoolLinks
  <2> QED BY <1>0, <2>1, <2>2 DEF Good, TypeOK, PoolTypeOK, PoolLinks
<1>5. StackLinks(n, q, c)'
  BY <1>0 DEF Good, TypeOK, StackLinks
<1>6. Contents(n, q)'
  BY <1>0 DEF Good, TypeOK, Contents
<1> QED BY <1>1, <1>2, <1>3, <1>4, <1>5, <1>6 DEF Good

LEMMA StepAllocCas ==
  ASSUME NEW t \in Procs, NEW m, NEW p, NEW n, NEW q, NEW c, NEW d,
         Good(m, p, n, q, c, d), Bounds,
         AllocCas(t), UNCHANGED <<stackVars, callVars>>, pTop = pVal[t]
  PROVE  \E g : Good(m - 1, g, n, q, c, d)'
<1>0. /\ pc[t] = "allocCas" /\ pc' = [pc EXCEPT ![t] = "pushInit"] /\ ret' = ret
      /\ pTop' = pNxt[t] /\ blk' = [blk EXCEPT ![t] = Node(pTop)]
      /\ held' = [held EXCEPT ![t] = @ \cup {Node(pTop)}]
      /\ UNCHANGED <<pId, pNext, fresh, pVal, pNxt, blkVal, stackVars, callVars>>
  BY DEF AllocCas, Good, PoolLinks
<1>a. /\ m \in Nat /\ m # 0 /\ p[m] = pTop /\ Node(pTop) \in Blocks /\ Node(pTop) \in Nodes(m, p)
      /\ pNxt[t] = p[m - 1]
  BY <1>0, PoolAssumption, TopOf DEF Good, PoolLinks, PoolAssumption
<1>b. PICK g : /\ Chain(p[m - 1], pNext, m - 1, g)
               /\ Nodes(m - 1, g) = Nodes(m, p) \ {Node(pTop)}
               /\ \A i \in 0 .. m - 1 : g[i] = p[i]
  BY <1>a, ChainLess DEF Good, PoolLinks
<1>c. PICK b : b = Node(pTop)
  OBVIOUS
<1>1. TypeOK'
  BY <1>0, <1>a DEF Good, TypeOK, PoolTypeOK
<1>2. Counts(n, c, d)'
  BY <1>0, CountsStay DEF Good, TypeOK
<1>3. Owned(pc, held, blk, topVal, fresh, Nodes(m - 1, g), Nodes(n, q))'
  <2>1. /\ held[t] = {} /\ fresh \ {b} = fresh /\ b \in Blocks /\ b \in Nodes(m, p)
        /\ Nodes(n, q) = Nodes(n, q) \ {b} /\ Nodes(m - 1, g) = Nodes(m, p) \ {b}
    BY <1>0, <1>a, <1>b, <1>c DEF Good, TypeOK, PoolTypeOK, Owned
  <2>2. held'[t] = {b} /\ (\A u \in Procs : u # t => held'[u] = held[u]) /\ blk'[t] = b
        /\ \A u \in Procs : u # t => pc'[u] = pc[u] /\ blk'[u] = blk[u] /\ topVal'[u] = topVal[u]
    BY <1>0, <1>c, <2>1 DEF Good, TypeOK, PoolTypeOK
  <2>3. Owned(pc, held, blk, topVal, fresh, Nodes(m, p), Nodes(n, q)) /\ pc'[t] = "pushInit"
        /\ fresh' = fresh
    BY <1>0 DEF Good, TypeOK, PoolTypeOK
  <2> QED BY <2>1, <2>2, <2>3, Taken
<1>4. PoolLinks(m - 1, g, d)'
  BY <1>0, <1>a, <1>b DEF Good, TypeOK, PoolTypeOK, PoolLinks
<1>5. StackLinks(n, q, c)'
  BY <1>0, <1>a DEF Good, TypeOK, StackLinks
<1>6. Contents(n, q)'
  BY <1>0, <1>a DEF Good, TypeOK, Contents
<1> QED BY <1>1, <1>2, <1>3, <1>4, <1>5, <1>6 DEF Good

LEMMA StepFreeCas ==
  ASSUME NEW t \in Procs, NEW m, NEW p, NEW n, NEW q, NEW c, NEW d,
         Good(m, p, n, q, c, d), Bounds,
         FreeCas(t), UNCHANGED <<stackVars, callVars>>, pTop = pVal[t]
  PROVE  \E g : Good(m + 1, g, n, q, c, d)'
<1>0. /\ pc[t] = "freeCas" /\ pc' = [pc EXCEPT ![t] = "idle"] /\ ret' = ret
      /\ pTop' = blkVal[t] /\ held' = [held EXCEPT ![t] = @ \ {blk[t]}]
      /\ UNCHANGED <<pId, pNext, fresh, pVal, pNxt, blk, blkVal, stackVars, callVars>>
  BY DEF FreeCas, Good, PoolLinks
<1>a. /\ blkVal[t] \in Values /\ Node(blkVal[t]) = blk[t] /\ blk[t] \in Blocks /\ blk[t] \in held[t]
      /\ blk[t] \notin Nodes(m, p) /\ pNext[blk[t]] = pTop
  BY <1>0 DEF Good, TypeOK, PoolTypeOK, PoolLinks, Owned
<1>b. PICK g : /\ Chain(blkVal[t], pNext, m + 1, g)
               /\ Nodes(m + 1, g) = Nodes(m, p) \cup {blk[t]}
               /\ (\A i \in 0 .. m : g[i] = p[i]) /\ g[m + 1] = blkVal[t] /\ m \in Nat
  BY <1>a, ChainMore DEF Good, PoolLinks
<1>1. TypeOK'
  BY <1>0, <1>a DEF Good, TypeOK, PoolTypeOK
<1>2. Counts(n, c, d)'
  BY <1>0, CountsStay DEF Good, TypeOK
<1>3. Owned(pc, held, blk, topVal, fresh, Nodes(m + 1, g), Nodes(n, q))'
  <2>1. /\ held[t] = {blk[t]} /\ Nodes(m + 1, g) \cap Nodes(n, q) = {}
        /\ Nodes(m + 1, g) \cup Nodes(n, q) = Nodes(m, p) \cup Nodes(n, q) \cup {blk[t]}
    BY <1>0, <1>a, <1>b DEF Good, Owned
  <2>2. /\ held'[t] = {} /\ (\A u \in Procs : u # t => held'[u] = held[u]) /\ pc'[t] = "idle" /\ fresh' = fresh
        /\ \A u \in Procs : u # t => pc'[u] = pc[u] /\ blk'[u] = blk[u] /\ topVal'[u] = topVal[u]
    BY <1>0, <2>1 DEF Good, TypeOK, PoolTypeOK
  <2>3. PICK b : b = blk[t]
    OBVIOUS
  <2>4. Owned(pc, held, blk, topVal, fresh, Nodes(m, p), Nodes(n, q))
    BY DEF Good, TypeOK, PoolTypeOK
  <2> QED BY <2>1, <2>2, <2>3, <2>4, Given
<1>4. PoolLinks(m + 1, g, d)'
  <2>0. \A i : i \in 1 .. m + 1 <=> i \in 1 .. m \/ i = m + 1
    BY <1>b
  <2>1. \A i \in 1 .. m + 1 : g[i][1] \in Tags(d)
    BY <1>0, <1>b, <2>0 DEF Good, PoolLinks
  <2>2. \A u \in Procs : pc'[u] = "allocCas" =>
          \A i \in 1 .. m + 1 : pVal[u] = g[i] => pNxt[u] = g[i - 1]
    <3>1. \A u \in Procs : pc'[u] = "allocCas" =>
            pc[u] = "allocCas" /\ pVal[u] # blkVal[t]
            /\ \A i \in 1 .. m : pVal[u] = p[i] => pNxt[u] = p[i - 1]
      BY <1>0 DEF Good, TypeOK, PoolTypeOK, PoolLinks
    <3>2. \A i \in 1 .. m : i \in 0 .. m /\ i - 1 \in 0 .. m
      BY <1>b
    <3> QED BY <1>b, <2>0, <3>1, <3>2
  <2>3. Chain(pTop', pNext', m + 1, g)
    BY <1>0, <1>b
  <2> QED BY <1>0, <2>1, <2>2, <2>3 DEF Good, TypeOK, PoolTypeOK, PoolLinks
<1>5. StackLinks(n, q, c)'
  BY <1>0, <1>a DEF Good, TypeOK, StackLinks
<1>6. Contents(n, q)'
  BY <1>0, <1>a DEF Good, TypeOK, Contents
<1> QED BY <1>1, <1>2, <1>3, <1>4, <1>5, <1>6 DEF Good

LEMMA StepFreeTag ==
  ASSUME NEW t \in Procs, NEW m, NEW p, NEW n, NEW q, NEW c, NEW d,
         Good(m, p, n, q, c, d), Bounds,
         FreeTag(t), UNCHANGED <<stackVars, callVars>>
  PROVE  Good(m, p, n, q, c, d + 1)'
<1>a. d \in Nat /\ d < TagMod /\ pId = d % TagMod
  <2>1. Counts(n, c, d) /\ pc[t] \in PopWait
    BY DEF FreeTag, Good
  <2>2. d < pops
    BY <2>1, Underway
  <2> QED BY <2>1, <2>2, PoolAssumption DEF Good, TypeOK, Counts, Bounds, PoolAssumption
<1>b. pId' = (d + 1) % TagMod /\ pId' \in 0 .. TagMod - 1 /\ pId' \notin Tags(d) /\ pId' \in Tags(d + 1)
      /\ Tags(d) \subseteq Tags(d + 1)
  BY <1>a, NewTag DEF FreeTag
<1>1. TypeOK'
  <2>1. blk[t] \in Blocks /\ <<pId', blk[t]>> \in Values
    BY <1>b DEF FreeTag, Good, Owned, Values
  <2> QED BY <1>b, <2>1 DEF FreeTag, Good, TypeOK, PoolTypeOK
<1>2. Counts(n, c, d + 1)'
  <2>1. n \in Nat /\ Counts(n, c, d) /\ DOMAIN pc = Procs
    BY DEF Good, TypeOK, StackLinks, Chain
  <2> QED BY <1>b, <2>1, CountsFreeTag DEF FreeTag
<1>3. Owned(pc, held, blk, topVal, fresh, Nodes(m, p), Nodes(n, q))'
  BY DEF FreeTag, Good, TypeOK, PoolTypeOK, Owned
<1>4. PoolLinks(m, p, d + 1)'
  BY <1>b DEF FreeTag, Good, TypeOK, PoolTypeOK, PoolLinks, Node
<1>5. StackLinks(n, q, c)'
  BY DEF FreeTag, Good, TypeOK, StackLinks
<1>6. Contents(n, q)'
  BY DEF FreeTag, Good, TypeOK, Contents
<1> QED BY <1>1, <1>2, <1>3, <1>4, <1>5, <1>6 DEF Good

\* Then the calls, and the steps of the stack.
LEMMA StepStartPush ==
  ASSUME NEW t \in Procs, NEW m, NEW p, NEW n, NEW q, NEW c, NEW d,
         Good(m, p, n, q, c, d), Bounds,
         StartPush(t)
  PROVE  Good(m, p, n, q, c, d)'
<1>0. /\ pc[t] = "idle" /\ pc' = [pc EXCEPT ![t] = "alloc"] /\ ret' = [ret EXCEPT ![t] = "pushInit"]
      /\ pushes' = pushes + 1 /\ item' = [item EXCEPT ![t] = pushes + 1]
      /\ UNCHANGED <<poolVars, top, id, next, value, topVal, nextVal, nodeVal, pushed, pops>>
  BY DEF StartPush
<1>a. pushes + 1 \in Items /\ pushes + 1 <= MaxPush /\ pushed <= pushes + 1 /\ pushes \in Nat
  BY DEF StartPush, Good, Counts, TypeOK, Bounds, Items
<1>1. TypeOK'
  BY <1>0, <1>a DEF Good, TypeOK, PoolTypeOK
<1>2. Counts(n, c, d)'
  <2>1. n \in Nat /\ Counts(n, c, d) /\ DOMAIN pc = Procs
    BY DEF Good, TypeOK, StackLinks, Chain
  <2> QED BY <1>0, <2>1, CountsStartPush
<1>3. Owned(pc, held, blk, topVal, fresh, Nodes(m, p), Nodes(n, q))'
  BY <1>0 DEF Good, TypeOK, PoolTypeOK, Owned
<1>4. PoolLinks(m, p, d)'
  BY <1>0 DEF Good, TypeOK, PoolTypeOK, PoolLinks
<1>5. StackLinks(n, q, c)'
  BY <1>0 DEF Good, TypeOK, StackLinks
<1>6. Contents(n, q)'
  BY <1>0, <1>a DEF Good, TypeOK, Contents
<1> QED BY <1>1, <1>2, <1>3, <1>4, <1>5, <1>6 DEF Good

LEMMA StepPushInit ==
  ASSUME NEW t \in Procs, NEW m, NEW p, NEW n, NEW q, NEW c, NEW d,
         Good(m, p, n, q, c, d), Bounds,
         PushInit(t)
  PROVE  Good(m, p, n, q, c + 1, d)'
<1>a. c \in Nat /\ c < TagMod /\ id = c % TagMod
  <2>1. Counts(n, c, d) /\ pc[t] \in PushWait
    BY DEF PushInit, Good
  <2>2. c < pushes
    BY <2>1, Underway
  <2> QED BY <2>1, <2>2, PoolAssumption DEF Good, TypeOK, Counts, Bounds, PoolAssumption
<1>b. id' = (c + 1) % TagMod /\ id' \in 0 .. TagMod - 1 /\ id' \notin Tags(c) /\ id' \in Tags(c + 1)
      /\ Tags(c) \subseteq Tags(c + 1)
  BY <1>a, NewTag DEF PushInit
<1>1. TypeOK'
  <2>1. blk[t] \in Blocks /\ <<id', blk[t]>> \in Values /\ item[t] \in Items
    BY <1>b DEF PushInit, Good, Owned, Contents, Values
  <2> QED BY <1>b, <2>1 DEF PushInit, Good, TypeOK, PoolTypeOK
<1>2. Counts(n, c + 1, d)'
  <2>1. n \in Nat /\ Counts(n, c, d) /\ DOMAIN pc = Procs
    BY DEF Good, TypeOK, StackLinks, Chain
  <2> QED BY <1>b, <2>1, CountsPushInit DEF PushInit
<1>3. Owned(pc, held, blk, topVal, fresh, Nodes(m, p), Nodes(n, q))'
  BY DEF PushInit, Good, TypeOK, PoolTypeOK, Owned
<1>4. PoolLinks(m, p, d)'
  BY DEF PushInit, Good, TypeOK, PoolTypeOK, PoolLinks
<1>5. StackLinks(n, q, c + 1)'
  BY <1>b DEF PushInit, Good, TypeOK, StackLinks, Node
<1>6. Contents(n, q)'
  <2>1. /\ blk[t] \in Blocks /\ item[t] \in Items /\ value' = [value EXCEPT ![blk[t]] = item[t]]
        /\ item' = item /\ topVal' = topVal /\ blk' = blk
    BY DEF PushInit, Good, Owned, Contents
  <2>2. /\ \A u \in Procs : u # t /\ pc[u] \in HasTag => blk[u] # blk[t]
        /\ \A u \in Procs : pc[u] = "popTake" => Node(topVal[u]) # blk[t]
        /\ \A i \in 1 .. n : Node(q[i]) # blk[t]
    <3>1. /\ \A u \in Procs : pc[u] \in PushPcs \cup FreePcs => held[u] = {blk[u]}
          /\ \A u \in Procs : pc[u] = "popTake" => held[u] = {Node(topVal[u])}
          /\ pc[t] = "pushInit" /\ held[t] \cap Nodes(n, q) = {}
          /\ \A u \in Procs : u # t => held[t] \cap held[u] = {}
      BY DEF PushInit, Good, Owned
    <3>2. held[t] = {blk[t]}
      BY <3>1
    <3>3. blk[t] \notin Nodes(n, q) /\ \A u \in Procs : u # t => blk[t] \notin held[u]
      BY <3>1, <3>2
    <3>4. \A i \in 1 .. n : Node(q[i]) # blk[t]
      BY <3>3 DEF Nodes
    <3> QED BY <3>1, <3>3, <3>4
  <2> QED BY <2>1, <2>2 DEF PushInit, Good, TypeOK, Contents
<1> QED BY <1>1, <1>2, <1>3, <1>4, <1>5, <1>6 DEF Good

\* A thread whose exchange of the top fails starts over: only pc changes.
LEMMA StepRetry ==
  ASSUME NEW t \in Procs, NEW m, NEW p, NEW n, NEW q, NEW c, NEW d,
         Good(m, p, n, q, c, d), Bounds,
         \/ PushCas(t) /\ top # topVal[t]
         \/ PopCas(t) /\ top # topVal[t]
         \/ AllocCas(t) /\ UNCHANGED <<stackVars, callVars>> /\ pTop # pVal[t]
         \/ FreeCas(t) /\ UNCHANGED <<stackVars, callVars>> /\ pTop # pVal[t]
  PROVE  Good(m, p, n, q, c, d)'
<1>0. \/ pc[t] = "pushCas" /\ pc' = [pc EXCEPT ![t] = "pushRead"]
      \/ pc[t] = "popCas" /\ pc' = [pc EXCEPT ![t] = "popRead"]
      \/ pc[t] = "allocCas" /\ pc' = [pc EXCEPT ![t] = "alloc"]
      \/ pc[t] = "freeCas" /\ pc' = [pc EXCEPT ![t] = "freeRead"]
  BY DEF PushCas, PushCasIf, PopCas, AllocCas, FreeCas
<1>a. PICK l : l = pc'[t]
  OBVIOUS
<1>b. DOMAIN pc = Procs
  BY DEF Good, TypeOK
<1>1. /\ pc' = [pc EXCEPT ![t] = l]
      /\ \/ pc[t] = "pushCas" /\ l = "pushRead"
         \/ pc[t] = "popCas" /\ l = "popRead"
         \/ pc[t] = "allocCas" /\ l = "alloc"
         \/ pc[t] = "freeCas" /\ l = "freeRead"
  BY <1>0, <1>a, <1>b
<1>2. UNCHANGED <<poolVars, ret, stackVars, callVars>>
  BY DEF PushCas, PushCasIf, PopCas, AllocCas, FreeCas
<1>3. TypeOK'
  BY <1>1, <1>2 DEF Good, TypeOK, PoolTypeOK
<1>4. Counts(n, c, d)'
  BY <1>1, <1>2, CountsStay DEF Good, TypeOK
<1>5. Owned(pc, held, blk, topVal, fresh, Nodes(m, p), Nodes(n, q))'
  <2>1. /\ \A u \in Procs : pc'[u] \in PushPcs \cup FreePcs <=> pc[u] \in PushPcs \cup FreePcs
        /\ \A u \in Procs : pc'[u] = "popTake" <=> pc[u] = "popTake"
    BY <1>1 DEF Good, TypeOK
  <2> QED BY <1>2, <2>1 DEF Good, Owned
<1>6. PoolLinks(m, p, d)'
  BY <1>1, <1>2 DEF Good, TypeOK, PoolTypeOK, PoolLinks
<1>7. StackLinks(n, q, c)'
  BY <1>1, <1>2 DEF Good, TypeOK, StackLinks
<1>8. Contents(n, q)'
  BY <1>1, <1>2 DEF Good, TypeOK, Contents
<1> QED BY <1>3, <1>4, <1>5, <1>6, <1>7, <1>8 DEF Good

\* The exchange of Push: the new node is in the stack, above all others.
LEMMA StepPushCas ==
  ASSUME NEW t \in Procs, NEW m, NEW p, NEW n, NEW q, NEW c, NEW d,
         Good(m, p, n, q, c, d), Bounds,
         PushCas(t), top = topVal[t]
  PROVE  \E g : /\ Good(m, p, n + 1, g, c, d)'
                /\ (\A i \in 0 .. n : g[i] = q[i]) /\ g[n + 1] = nodeVal[t]
<1>0. /\ pc[t] = "pushCas" /\ pc' = [pc EXCEPT ![t] = "idle"] /\ ret' = ret
      /\ top' = nodeVal[t] /\ held' = [held EXCEPT ![t] = @ \ {blk[t]}] /\ pushed' = pushed + 1
      /\ UNCHANGED <<pTop, pId, pNext, fresh, pVal, pNxt, blk, blkVal, id, next, value, topVal,
                     nextVal, nodeVal, item, pushes, pops>>
  BY DEF PushCas, PushCasIf
<1>a. /\ nodeVal[t] \in Values /\ Node(nodeVal[t]) = blk[t] /\ blk[t] \in Blocks /\ blk[t] \in held[t]
      /\ blk[t] \notin Nodes(n, q) /\ next[blk[t]] = top
  BY <1>0 DEF Good, TypeOK, StackLinks, Owned
<1>b. PICK g : /\ Chain(nodeVal[t], next, n + 1, g)
               /\ Nodes(n + 1, g) = Nodes(n, q) \cup {blk[t]}
               /\ (\A i \in 0 .. n : g[i] = q[i]) /\ g[n + 1] = nodeVal[t] /\ n \in Nat
  BY <1>a, ChainMore DEF Good, StackLinks
<1>1. TypeOK'
  <2>1. Counts(n, c, d) /\ pushed < pushes
    BY <1>0, Underway DEF Good
  <2>2. pops <= pushed + 1 /\ pushed + 1 <= pushes
    BY <2>1 DEF Good, TypeOK, Counts
  <2> QED BY <1>0, <1>a, <2>2 DEF Good, TypeOK, PoolTypeOK
<1>2. Counts(n + 1, c, d)'
  <2>1. n \in Nat /\ Counts(n, c, d) /\ DOMAIN pc = Procs
    BY DEF Good, TypeOK, StackLinks, Chain
  <2> QED BY <1>0, <2>1, CountsPushCas
<1>3. Owned(pc, held, blk, topVal, fresh, Nodes(m, p), Nodes(n + 1, g))'
  <2>1. /\ held[t] = {blk[t]} /\ Nodes(m, p) \cap Nodes(n + 1, g) = {}
        /\ Nodes(m, p) \cup Nodes(n + 1, g) = Nodes(m, p) \cup Nodes(n, q) \cup {blk[t]}
    BY <1>0, <1>a, <1>b DEF Good, Owned
  <2>2. /\ held'[t] = {} /\ (\A u \in Procs : u # t => held'[u] = held[u]) /\ pc'[t] = "idle"
        /\ fresh' = fresh
        /\ \A u \in Procs : u # t => pc'[u] = pc[u] /\ blk'[u] = blk[u] /\ topVal'[u] = topVal[u]
    BY <1>0, <2>1 DEF Good, TypeOK, PoolTypeOK
  <2>3. PICK b : b = blk[t]
    OBVIOUS
  <2>4. Owned(pc, held, blk, topVal, fresh, Nodes(m, p), Nodes(n, q))
    BY DEF Good
  <2> QED BY <2>1, <2>2, <2>3, <2>4, Given
<1>4. PoolLinks(m, p, d)'
  BY <1>0, <1>a DEF Good, TypeOK, PoolTypeOK, PoolLinks
<1>5. StackLinks(n + 1, g, c)'
  <2>0. \A i : i \in 1 .. n + 1 <=> i \in 1 .. n \/ i = n + 1
    BY <1>b
  <2>1. \A i \in 1 .. n + 1 : g[i][1] \in Tags(c)
    BY <1>0, <1>b, <2>0 DEF Good, StackLinks
  <2>2. \A u \in Procs : pc'[u] = "popCas" =>
          \A i \in 1 .. n + 1 : topVal[u] = g[i] => nextVal[u] = g[i - 1]
    <3>1. \A u \in Procs : pc'[u] = "popCas" =>
            pc[u] = "popCas" /\ topVal[u] # nodeVal[t]
            /\ \A i \in 1 .. n : topVal[u] = q[i] => nextVal[u] = q[i - 1]
      BY <1>0 DEF Good, TypeOK, StackLinks
    <3>2. \A i \in 1 .. n : i \in 0 .. n /\ i - 1 \in 0 .. n
      BY <1>b
    <3> QED BY <1>b, <2>0, <3>1, <3>2
  <2>3. Chain(top', next', n + 1, g)
    BY <1>0, <1>b
  <2> QED BY <1>0, <2>1, <2>2, <2>3 DEF Good, TypeOK, StackLinks
<1>6. Contents(n + 1, g)'
  BY <1>0, <1>a, <1>b DEF Good, TypeOK, Contents
<1>7. Good(m, p, n + 1, g, c, d)'
  BY <1>1, <1>2, <1>3, <1>4, <1>5, <1>6 DEF Good
<1> QED BY <1>b, <1>7, Zenon

LEMMA StepStartPop ==
  ASSUME NEW t \in Procs, NEW m, NEW p, NEW n, NEW q, NEW c, NEW d,
         Good(m, p, n, q, c, d), Bounds,
         StartPop(t)
  PROVE  Good(m, p, n, q, c, d)'
<1>0. /\ pc[t] = "idle" /\ pc' = [pc EXCEPT ![t] = "popRead"] /\ ret' = ret
      /\ pops' = pops + 1 /\ pops + 1 <= pushed
      /\ UNCHANGED <<poolVars, stackVars, pushes, pushed>>
  BY DEF StartPop, Good, Counts
<1>1. TypeOK'
  BY <1>0 DEF Good, TypeOK, PoolTypeOK
<1>2. Counts(n, c, d)'
  <2>1. n \in Nat /\ Counts(n, c, d) /\ DOMAIN pc = Procs
    BY DEF Good, TypeOK, StackLinks, Chain
  <2> QED BY <1>0, <2>1, CountsStartPop
<1>3. Owned(pc, held, blk, topVal, fresh, Nodes(m, p), Nodes(n, q))'
  BY <1>0 DEF Good, TypeOK, PoolTypeOK, Owned
<1>4. PoolLinks(m, p, d)'
  BY <1>0 DEF Good, TypeOK, PoolTypeOK, PoolLinks
<1>5. StackLinks(n, q, c)'
  BY <1>0 DEF Good, TypeOK, StackLinks
<1>6. Contents(n, q)'
  BY <1>0 DEF Good, TypeOK, Contents
<1> QED BY <1>1, <1>2, <1>3, <1>4, <1>5, <1>6 DEF Good

LEMMA StepPopRead ==
  ASSUME NEW t \in Procs, NEW m, NEW p, NEW n, NEW q, NEW c, NEW d,
         Good(m, p, n, q, c, d), Bounds,
         PopRead(t)
  PROVE  Good(m, p, n, q, c, d)'
<1>a. n # 0
  <2>1. Counts(n, c, d) /\ pc[t] \in PopOpen /\ n \in Nat /\ pops <= pushed
    BY DEF PopRead, Good, TypeOK, StackLinks, Chain
  <2> QED BY <2>1, Underway
<1>b. Node(top) # Null
  BY <1>a, ChainEnds DEF Good, StackLinks
<1>c. /\ Node(top) \in Blocks /\ Node(top) \in Nodes(n, q) /\ top[1] \in Tags(c)
  BY <1>b, TopOf DEF Good, StackLinks
<1>0. /\ pc[t] = "popRead" /\ pc' = [pc EXCEPT ![t] = "popNext"] /\ ret' = ret
      /\ topVal' = [topVal EXCEPT ![t] = top]
      /\ UNCHANGED <<poolVars, top, id, next, value, nextVal, nodeVal, item, callVars>>
  <2>1. top # NullValue
    BY <1>b DEF NullValue, Node
  <2> QED BY <2>1 DEF PopRead
<1>1. TypeOK'
  BY <1>0 DEF Good, TypeOK, PoolTypeOK
<1>2. Counts(n, c, d)'
  BY <1>0, CountsStay DEF Good, TypeOK
<1>3. Owned(pc, held, blk, topVal, fresh, Nodes(m, p), Nodes(n, q))'
  BY <1>0 DEF Good, TypeOK, PoolTypeOK, Owned
<1>4. PoolLinks(m, p, d)'
  BY <1>0 DEF Good, TypeOK, PoolTypeOK, PoolLinks
<1>5. StackLinks(n, q, c)'
  <2>1. \A u \in Procs : pc[u] \in HasTag => top # nodeVal[u]
    <3>1. \A u \in Procs : pc[u] \in HasTag => blk[u] \in held[u] /\ held[u] \cap Nodes(n, q) = {}
      BY DEF Good, Owned
    <3> QED BY <1>c, <3>1 DEF Good, StackLinks
  <2> QED BY <1>0, <1>c, <2>1 DEF Good, TypeOK, StackLinks
<1>6. Contents(n, q)'
  BY <1>0 DEF Good, TypeOK, Contents
<1> QED BY <1>1, <1>2, <1>3, <1>4, <1>5, <1>6 DEF Good

\* The exchange of Pop: the top is off the stack, and the rest is what it was.
LEMMA StepPopCas ==
  ASSUME NEW t \in Procs, NEW m, NEW p, NEW n, NEW q, NEW c, NEW d,
         Good(m, p, n, q, c, d), Bounds,
         PopCas(t), top = topVal[t]
  PROVE  \E g : Good(m, p, n - 1, g, c, d)' /\ (\A i \in 0 .. n - 1 : g[i] = q[i])
<1>0. /\ pc[t] = "popCas" /\ pc' = [pc EXCEPT ![t] = "popTake"] /\ ret' = ret
      /\ top' = nextVal[t] /\ held' = [held EXCEPT ![t] = @ \cup {Node(top)}]
      /\ UNCHANGED <<pTop, pId, pNext, fresh, pVal, pNxt, blk, blkVal, id, next, value, topVal,
                     nextVal, nodeVal, item, callVars>>
  BY DEF PopCas
<1>a. /\ n \in Nat /\ n # 0 /\ q[n] = top /\ Node(top) \in Blocks /\ Node(top) \in Nodes(n, q)
      /\ nextVal[t] = q[n - 1]
  BY <1>0, PoolAssumption, TopOf DEF Good, StackLinks, PoolAssumption
<1>b. PICK g : /\ Chain(q[n - 1], next, n - 1, g)
               /\ Nodes(n - 1, g) = Nodes(n, q) \ {Node(top)}
               /\ \A i \in 0 .. n - 1 : g[i] = q[i]
  BY <1>a, ChainLess DEF Good, StackLinks
<1>c. PICK b : b = Node(top)
  OBVIOUS
<1>1. TypeOK'
  BY <1>0, <1>a DEF Good, TypeOK, PoolTypeOK
<1>2. Counts(n - 1, c, d)'
  <2>1. n \in Nat /\ Counts(n, c, d) /\ DOMAIN pc = Procs
    BY DEF Good, TypeOK, StackLinks, Chain
  <2> QED BY <1>0, <1>a, <2>1, CountsPopCas
<1>3. Owned(pc, held, blk, topVal, fresh, Nodes(m, p), Nodes(n - 1, g))'
  <2>1. /\ held[t] = {} /\ fresh \ {b} = fresh /\ b \in Blocks /\ b \in Nodes(n, q)
        /\ Nodes(m, p) = Nodes(m, p) \ {b} /\ Nodes(n - 1, g) = Nodes(n, q) \ {b}
    BY <1>0, <1>a, <1>b, <1>c DEF Good, TypeOK, PoolTypeOK, Owned
  <2>2. held'[t] = {b} /\ (\A u \in Procs : u # t => held'[u] = held[u]) /\ Node(topVal'[t]) = b
        /\ \A u \in Procs : u # t => pc'[u] = pc[u] /\ blk'[u] = blk[u] /\ topVal'[u] = topVal[u]
    BY <1>0, <1>c, <2>1 DEF Good, TypeOK, PoolTypeOK
  <2>3. Owned(pc, held, blk, topVal, fresh, Nodes(m, p), Nodes(n, q)) /\ pc'[t] = "popTake"
        /\ fresh' = fresh
    BY <1>0 DEF Good, TypeOK, PoolTypeOK
  <2> QED BY <2>1, <2>2, <2>3, Taken
<1>4. PoolLinks(m, p, d)'
  BY <1>0 DEF Good, TypeOK, PoolTypeOK, PoolLinks
<1>5. StackLinks(n - 1, g, c)'
  BY <1>0, <1>a, <1>b DEF Good, TypeOK, StackLinks
<1>6. Contents(n - 1, g)'
  BY <1>0, <1>a, <1>b DEF Good, TypeOK, Contents
<1>7. Good(m, p, n - 1, g, c, d)'
  BY <1>1, <1>2, <1>3, <1>4, <1>5, <1>6 DEF Good
<1> QED BY <1>b, <1>7, Zenon

-----------------------------------------------------------------------------
\* It holds at the start, with two empty paths.
LEMMA Starts ==
  ASSUME Init, Bounds
  PROVE  IInv
<1> DEFINE z == [i \in 0 .. 0 |-> NullValue]
<1>1. TypeOK
  BY PoolAssumption DEF PoolAssumption, Init, PoolInit, PoolInitFrom, TypeOK, PoolTypeOK, Bounds, Values,
                        NullValue
<1>2. Counts(0, 0, 0)
  <2>1. Of(PushOpen, pc) = {} /\ Of(PushWait, pc) = {} /\ Of(PopWait, pc) = {} /\ Of(PopOpen, pc) = {}
    BY DEF Init, Of
  <2>2. IsFiniteSet({}) /\ Cardinality({}) = 0
    BY FS_EmptySet, Zenon
  <2>3. 0 \in Nat /\ TagMod \in Nat \ {0} /\ 0 <= TagMod
    BY PoolAssumption DEF PoolAssumption
  <2>4. 0 % TagMod = 0
    BY <2>3, TagOf
  <2>5. \A S : Of(S, pc) = {} => IsFiniteSet(Of(S, pc)) /\ Cardinality(Of(S, pc)) = 0
    BY <2>2
  <2>6. pushes = 0 /\ pushed = 0 /\ pops = 0 /\ id = 0 /\ pId = 0
    BY DEF Init, PoolInit, PoolInitFrom
  <2> QED BY <2>1, <2>4, <2>5, <2>6 DEF Counts
<1>3. Chain(pTop, pNext, 0, z) /\ Chain(top, next, 0, z)
  BY <1>1 DEF Chain, Init, PoolInit, PoolInitFrom, TypeOK, NullValue, Node
<1>4. Nodes(0, z) = {}
  BY DEF Nodes
<1>5. Owned(pc, held, blk, topVal, fresh, Nodes(0, z), Nodes(0, z))
  BY <1>4 DEF Owned, Init, PoolInit, PoolInitFrom
<1>6. PoolLinks(0, z, 0) /\ StackLinks(0, z, 0) /\ Contents(0, z)
  BY <1>3 DEF PoolLinks, StackLinks, Contents, Init
<1>7. Good(0, z, 0, z, 0, 0)
  BY <1>1, <1>2, <1>3, <1>5, <1>6 DEF Good
<1> QED BY <1>7, Zenon DEF IInv

\* It survives a stuttering step.
LEMMA Stays ==
  ASSUME NEW m, NEW p, NEW n, NEW q, NEW c, NEW d, Good(m, p, n, q, c, d), UNCHANGED vars
  PROVE  Good(m, p, n, q, c, d)'
<1>1. TypeOK'
  BY DEF Good, TypeOK, PoolTypeOK
<1>2. Counts(n, c, d)'
  BY DEF Good, Counts
<1>3. Owned(pc, held, blk, topVal, fresh, Nodes(m, p), Nodes(n, q))'
  BY DEF Good, Owned
<1>4. PoolLinks(m, p, d)' /\ StackLinks(n, q, c)' /\ Contents(n, q)'
  BY DEF Good, PoolLinks, StackLinks, Contents
<1> QED BY <1>1, <1>2, <1>3, <1>4 DEF Good

\* A step of a thread that neither adds to the stack nor takes from it leaves
\* the links of the stack as they are.
LEMMA StepSame ==
  ASSUME NEW t \in Procs, NEW m, NEW p, NEW n, NEW q, NEW c, NEW d,
         Good(m, p, n, q, c, d), Bounds,
         StartPush(t) \/ StartPop(t) \/ Step(t),
         ~ ((PushCas(t) \/ PopCas(t)) /\ top = topVal[t])
  PROVE  \E m1, p1, c1, d1 : Good(m1, p1, n, q, c1, d1)'
<1>1. CASE StartPush(t)
  BY <1>1, StepStartPush
<1>2. CASE StartPop(t)
  BY <1>2, StepStartPop
<1>3. CASE PushInit(t)
  BY <1>3, StepPushInit
<1>4. CASE PushRead(t)
  BY <1>4, StepPushRead
<1>5. CASE PushLink(t)
  BY <1>5, StepPushLink
<1>6. CASE PushCas(t) /\ top # topVal[t]
  BY <1>6, StepRetry
<1>7. CASE PopRead(t)
  BY <1>7, StepPopRead
<1>8. CASE PopNext(t)
  BY <1>8, StepPopNext
<1>9. CASE PopCas(t) /\ top # topVal[t]
  BY <1>9, StepRetry
<1>10. CASE PopTake(t)
  BY <1>10, StepPopTake
<1>11. CASE AllocRead(t) /\ UNCHANGED <<stackVars, callVars>>
  BY <1>11, StepAllocFresh, StepAllocSeen
<1>12. CASE AllocNext(t) /\ UNCHANGED <<stackVars, callVars>>
  BY <1>12, StepAllocNext
<1>13. CASE AllocCas(t) /\ UNCHANGED <<stackVars, callVars>>
  BY <1>13, StepAllocCas, StepRetry
<1>14. CASE FreeTag(t) /\ UNCHANGED <<stackVars, callVars>>
  BY <1>14, StepFreeTag
<1>15. CASE FreeRead(t) /\ UNCHANGED <<stackVars, callVars>>
  BY <1>15, StepFreeRead
<1>16. CASE FreeLink(t) /\ UNCHANGED <<stackVars, callVars>>
  BY <1>16, StepFreeLink
<1>17. CASE FreeCas(t) /\ UNCHANGED <<stackVars, callVars>>
  BY <1>17, StepFreeCas, StepRetry
<1> QED BY <1>1, <1>2, <1>3, <1>4, <1>5, <1>6, <1>7, <1>8, <1>9, <1>10, <1>11, <1>12, <1>13, <1>14, <1>15, <1>16, <1>17 DEF Step, PoolStep

\* Every step preserves it.
LEMMA Preserved ==
  ASSUME IInv, Bounds, [Next]_vars
  PROVE  IInv'
<1>1. PICK m, p, n, q, c, d : Good(m, p, n, q, c, d)
  BY Zenon DEF IInv
<1>2. CASE UNCHANGED vars
  BY <1>1, <1>2, Stays DEF IInv
<1>3. ASSUME NEW t \in Procs, StartPush(t) \/ StartPop(t) \/ Step(t) PROVE IInv'
  <2>1. CASE PushCas(t) /\ top = topVal[t]
    BY <1>1, <2>1, StepPushCas DEF IInv
  <2>2. CASE PopCas(t) /\ top = topVal[t]
    BY <1>1, <2>2, StepPopCas DEF IInv
  <2>3. CASE ~ ((PushCas(t) \/ PopCas(t)) /\ top = topVal[t])
    BY <1>1, <1>3, <2>3, StepSame DEF IInv
  <2> QED BY <2>1, <2>2, <2>3, Zenon
<1> QED BY <1>2, <1>3, Zenon DEF Next

\* It implies NodesConserved: the paths are what FreeChain and StackChain walk.
LEMMA Conserves ==
  ASSUME IInv
  PROVE  NodesConserved
<1>1. PICK m, p, n, q, c, d : Good(m, p, n, q, c, d)
  BY Zenon DEF IInv
<1>2. /\ FreeChain[Cardinality(Blocks)] = Null /\ Free = Nodes(m, p)
      /\ StackChain[Cardinality(Blocks)] = Null /\ InStack = Nodes(n, q)
  <2>1. Chain(pTop, pNext, m, p) /\ Chain(top, next, n, q)
    BY <1>1 DEF Good, PoolLinks, StackLinks
  <2> QED BY <2>1, FreeIs, StackIs, Zenon
<1>3. ASSUME NEW b \in Blocks
      PROVE  Cardinality({t \in Procs : b \in held[t]}) + (IF b \in fresh THEN 1 ELSE 0)
             + (IF b \in Free THEN 1 ELSE 0) + (IF b \in InStack THEN 1 ELSE 0) = 1
  <2> DEFINE H == {t \in Procs : b \in held[t]}
  <2>1. /\ \A t, u \in Procs : t # u => held[t] \cap held[u] = {}
        /\ \A t \in Procs : held[t] \cap (fresh \cup Free \cup InStack) = {}
        /\ fresh \cap Free = {} /\ fresh \cap InStack = {} /\ Free \cap InStack = {}
        /\ b \in fresh \cup Free \cup InStack \/ \E t \in Procs : b \in held[t]
    BY <1>1, <1>2 DEF Good, Owned
  <2>2. CASE b \in fresh \cup Free \cup InStack
    <3>1. H = {}
      BY <2>1, <2>2
    <3>2. Cardinality(H) = 0
      BY <3>1, FS_EmptySet, Zenon
    <3> QED BY <2>1, <2>2, <3>2
  <2>3. CASE b \notin fresh \cup Free \cup InStack
    <3>1. PICK t \in Procs : b \in held[t]
      BY <2>1, <2>3
    <3>2. H = {t}
      BY <2>1, <3>1
    <3>3. Cardinality(H) = 1
      BY <3>2, FS_Singleton, Zenon
    <3> QED BY <2>3, <3>3
  <2> QED BY <2>2, <2>3
<1> QED BY <1>1, <1>2, <1>3 DEF NodesConserved, Good

\* It is an invariant.
LEMMA Invariance ==
  ASSUME Bounds
  PROVE  Spec => []IInv
<1>1. Init => IInv
  BY Starts
<1>2. IInv /\ [Next]_vars => IInv'
  BY Preserved
<1> QED BY <1>1, <1>2, PTL DEF Spec

-----------------------------------------------------------------------------
\* The nodes of the stack and of its pool are conserved: each is in the pool, in
\* the stack, fresh or held by exactly one thread, and both lists end at Null
\* (Push, Pop and the pool's Alloc and Free, CLockFreeStack.h, CObjectPool.h).
THEOREM Conserved ==
  ASSUME MaxPush \in Nat, MaxPush <= TagMod
  PROVE  Spec => []NodesConserved
<1>1. Bounds
  BY DEF Bounds
<1>2. Spec => []IInv
  BY <1>1, Invariance
<1>3. IInv => NodesConserved
  BY Conserves
<1> QED BY <1>2, <1>3, PTL

-----------------------------------------------------------------------------
\* What a thread is doing for its caller, from where it is, its argument or
\* result and the value of the node it popped.
Doing(l, v, w) ==
  IF l \in PushOpen THEN <<"put", v>>
  ELSE IF l \in PopOpen THEN <<"get">>
  ELSE IF l = "popTake" THEN <<"got", w>>
  ELSE IF l \in FreePcs THEN <<"got", v>> ELSE <<"idle">>
\* The values along the path, bottom first.
Listed(n, q, val) == [i \in 1 .. n |-> val[Node(q[i])]]

\* opState, thread by thread.
LEMMA OpIs ==
  /\ opState = [t \in Procs |-> Doing(pc[t], item[t], value[Node(topVal[t])])]
  /\ opState' = [t \in Procs |-> Doing(pc'[t], item'[t], value'[Node(topVal'[t])])]
  BY DEF opState, Doing

\* What one thread's step does to opState.
LEMMA OpMoves ==
  ASSUME NEW t \in Procs, NEW x,
         \A u \in Procs : u # t => /\ pc'[u] = pc[u] /\ item'[u] = item[u] /\ topVal'[u] = topVal[u]
                                   /\ pc[u] = "popTake" => value'[Node(topVal[u])] = value[Node(topVal[u])],
         Doing(pc'[t], item'[t], value'[Node(topVal'[t])]) = x
  PROVE  opState' = [opState EXCEPT ![t] = x]
<1>1. \A u \in Procs : u # t => Doing(pc'[u], item'[u], value'[Node(topVal'[u])])
                                = Doing(pc[u], item[u], value[Node(topVal[u])])
  BY DEF Doing
<1> QED BY <1>1, OpIs

\* A step after which its thread is doing the same leaves opState as it is.
LEMMA OpStays ==
  ASSUME NEW t \in Procs,
         \A u \in Procs : u # t => /\ pc'[u] = pc[u] /\ item'[u] = item[u] /\ topVal'[u] = topVal[u]
                                   /\ pc[u] = "popTake" => value'[Node(topVal[u])] = value[Node(topVal[u])],
         Doing(pc'[t], item'[t], value'[Node(topVal'[t])]) = Doing(pc[t], item[t], value[Node(topVal[t])])
  PROVE  opState' = opState
<1>1. \A u \in Procs : u # t => Doing(pc'[u], item'[u], value'[Node(topVal'[u])])
                                = Doing(pc[u], item[u], value[Node(topVal[u])])
  BY DEF Doing
<1> QED BY <1>1, OpIs

\* The abstract stack is what is listed along the path, before and after a step.
LEMMA ContentsAre ==
  ASSUME NEW CONSTANT n, NEW CONSTANT q
  PROVE  /\ Chain(top, next, n, q) => contents = Listed(n, q, value)
         /\ (Chain(top, next, n, q) => contents = Listed(n, q, value))'
<1>1. Chain(top, next, n, q) => contents = Listed(n, q, value)
  BY StackIs DEF Listed
<1> QED BY <1>1, PTL

\* The steps that neither call, nor return, nor exchange the top.
LEMMA Silent ==
  ASSUME NEW t \in Procs, NEW m, NEW p, NEW n, NEW q, NEW c, NEW d, Good(m, p, n, q, c, d),
         Step(t), ~ (PushCas(t) /\ top = topVal[t]), ~ (PopCas(t) /\ top = topVal[t]),
         ~ (FreeCas(t) /\ pTop = pVal[t])
  PROVE  opState' = opState
<1> DEFINE Quiet == /\ Doing(pc'[t], item'[t], value'[Node(topVal'[t])])
                       = Doing(pc[t], item[t], value[Node(topVal[t])])
                    /\ \A u \in Procs : u # t =>
                         /\ pc'[u] = pc[u] /\ item'[u] = item[u] /\ topVal'[u] = topVal[u]
                         /\ pc[u] = "popTake" => value'[Node(topVal[u])] = value[Node(topVal[u])]
<1>0. /\ pc \in [Procs -> PushPcs \cup PopPcs \cup AllocPcs \cup FreePcs \cup {"idle", "break"}]
      /\ item \in [Procs -> Items \cup {0}] /\ topVal \in [Procs -> Values]
      /\ value \in [Blocks -> Items \cup {0}]
      /\ \A u \in Procs : pc[u] \in AllocPcs => ret[u] = "pushInit"
  BY DEF Good, TypeOK, PoolLinks
<1>1. ASSUME PushRead(t) PROVE Quiet
  BY <1>0, <1>1 DEF PushRead, Doing
<1>2. ASSUME PushLink(t) PROVE Quiet
  BY <1>0, <1>2 DEF PushLink, Doing
<1>3. ASSUME PushCas(t) PROVE Quiet
  BY <1>0, <1>3 DEF PushCas, PushCasIf, Doing
<1>4. ASSUME PopNext(t) PROVE Quiet
  BY <1>0, <1>4 DEF PopNext, Doing
<1>5. ASSUME PopCas(t) PROVE Quiet
  BY <1>0, <1>5 DEF PopCas, Doing
<1>6. ASSUME PopTake(t) PROVE Quiet
  BY <1>0, <1>6 DEF PopTake, Doing
<1>7. ASSUME PushInit(t) PROVE Quiet
  <2>1. \A u \in Procs : u # t /\ pc[u] = "popTake" => Node(topVal[u]) # blk[t]
    BY <1>7 DEF PushInit, Good, Owned
  <2>2. blk[t] \in Blocks /\ \A u \in Procs : pc[u] = "popTake" => Node(topVal[u]) \in Blocks
    BY <1>7 DEF PushInit, Good, Owned, StackLinks
  <2> QED BY <1>0, <1>7, <2>1, <2>2 DEF PushInit, Doing
<1>8. ASSUME PopRead(t) PROVE Quiet
  <2>1. Counts(n, c, d) /\ pc[t] \in PopOpen /\ n \in Nat /\ pops <= pushed
    BY <1>8 DEF PopRead, Good, TypeOK, StackLinks, Chain
  <2>2. n # 0
    BY <2>1, Underway
  <2>3. top # NullValue
    BY <2>2, ChainEnds DEF Good, StackLinks, NullValue, Node
  <2> QED BY <1>0, <1>8, <2>3 DEF PopRead, Doing
<1>9. ASSUME AllocRead(t) /\ UNCHANGED <<stackVars, callVars>> PROVE Quiet
  BY <1>0, <1>9 DEF AllocRead, Doing
<1>10. ASSUME AllocNext(t) /\ UNCHANGED <<stackVars, callVars>> PROVE Quiet
  BY <1>0, <1>10 DEF AllocNext, Doing
<1>11. ASSUME AllocCas(t) /\ UNCHANGED <<stackVars, callVars>> PROVE Quiet
  BY <1>0, <1>11 DEF AllocCas, Doing
<1>12. ASSUME FreeTag(t) /\ UNCHANGED <<stackVars, callVars>> PROVE Quiet
  BY <1>0, <1>12 DEF FreeTag, Doing
<1>13. ASSUME FreeRead(t) /\ UNCHANGED <<stackVars, callVars>> PROVE Quiet
  BY <1>0, <1>13 DEF FreeRead, Doing
<1>14. ASSUME FreeLink(t) /\ UNCHANGED <<stackVars, callVars>> PROVE Quiet
  BY <1>0, <1>14 DEF FreeLink, Doing
<1>15. ASSUME FreeCas(t) /\ UNCHANGED <<stackVars, callVars>> PROVE Quiet
  BY <1>0, <1>15 DEF FreeCas, Doing
<1>16. Quiet
  BY <1>1, <1>2, <1>3, <1>4, <1>5, <1>6, <1>7, <1>8, <1>9, <1>10, <1>11, <1>12, <1>13, <1>14, <1>15 DEF Step, PoolStep
<1> QED BY <1>16, OpStays

\* Only a successful exchange of the top changes the abstract stack.
LEMMA SameContents ==
  ASSUME NEW t \in Procs, NEW m, NEW p, NEW n, NEW q, NEW c, NEW d,
         Good(m, p, n, q, c, d), Bounds,
         StartPush(t) \/ StartPop(t) \/ Step(t),
         ~ ((PushCas(t) \/ PopCas(t)) /\ top = topVal[t])
  PROVE  contents' = contents
<1>1. PICK m1, p1, c1, d1 : Good(m1, p1, n, q, c1, d1)'
  BY StepSame
<1>2. Chain(top, next, n, q) /\ Chain(top, next, n, q)'
  BY <1>1 DEF Good, StackLinks
<1>3. contents = Listed(n, q, value) /\ contents' = Listed(n, q, value')
  BY <1>2, ContentsAre DEF Listed
<1>4. \A i \in 1 .. n : value'[Node(q[i])] = value[Node(q[i])]
  <2>1. CASE PushInit(t)
    <3>1. blk[t] \in held[t] /\ held[t] \cap Nodes(n, q) = {}
      BY <2>1 DEF PushInit, Good, Owned
    <3>2. \A i \in 1 .. n : Node(q[i]) # blk[t]
      BY <3>1 DEF Nodes
    <3> QED BY <2>1, <3>2 DEF PushInit, Good, TypeOK
  <2>2. CASE ~ PushInit(t)
    <3>1. value' = value
      BY <2>2 DEF StartPush, StartPop, Step, PushRead, PushLink, PushCas, PushCasIf, PopRead, PopNext, PopCas,
                  PopTake
    <3> QED BY <3>1
  <2> QED BY <2>1, <2>2
<1> QED BY <1>3, <1>4 DEF Listed

\* Every step is a step of the abstract stack, or invisible.
LEMMA Refines ==
  ASSUME NEW t \in Procs, NEW m, NEW p, NEW n, NEW q, NEW c, NEW d,
         Good(m, p, n, q, c, d), Bounds,
         StartPush(t) \/ StartPop(t) \/ Step(t)
  PROVE  Abstract!Next \/ UNCHANGED <<contents, opState>>
<1>0. /\ pc \in [Procs -> PushPcs \cup PopPcs \cup AllocPcs \cup FreePcs \cup {"idle", "break"}]
      /\ item \in [Procs -> Items \cup {0}] /\ topVal \in [Procs -> Values]
      /\ \A u \in Procs : pc[u] \in FreePcs => ret[u] = "idle"
  BY DEF Good, TypeOK, PoolLinks
<1>1. opState[t] = Doing(pc[t], item[t], value[Node(topVal[t])])
  BY OpIs
<1>2. CASE StartPush(t)
  <2>1. contents' = contents
    BY <1>2, SameContents DEF StartPush, PushCas, PushCasIf, PopCas
  <2>2. pc[t] = "idle" /\ pushes + 1 \in Items
    BY <1>2 DEF StartPush, Good, Counts, Bounds, Items
  <2>3. /\ Doing(pc'[t], item'[t], value'[Node(topVal'[t])]) = <<"put", pushes + 1>>
        /\ \A u \in Procs : u # t => /\ pc'[u] = pc[u] /\ item'[u] = item[u] /\ topVal'[u] = topVal[u]
                                     /\ value' = value
    BY <1>0, <1>2 DEF StartPush, Doing
  <2>4. opState' = [opState EXCEPT ![t] = <<"put", pushes + 1>>]
    BY <2>3, OpMoves
  <2>5. opState[t] = <<"idle">>
    BY <1>1, <2>2 DEF Doing
  <2>6. Abstract!CallPut(t)
    BY <2>1, <2>2, <2>4, <2>5 DEF Abstract!CallPut
  <2> QED BY <2>6 DEF Abstract!Next
<1>3. CASE StartPop(t)
  <2>1. contents' = contents
    BY <1>3, SameContents DEF StartPop, PushCas, PushCasIf, PopCas
  <2>2. /\ pc[t] = "idle" /\ Doing(pc'[t], item'[t], value'[Node(topVal'[t])]) = <<"get">>
        /\ \A u \in Procs : u # t => /\ pc'[u] = pc[u] /\ item'[u] = item[u] /\ topVal'[u] = topVal[u]
                                     /\ value' = value
    BY <1>0, <1>3 DEF StartPop, Doing
  <2>3. opState' = [opState EXCEPT ![t] = <<"get">>]
    BY <2>2, OpMoves
  <2>4. opState[t] = <<"idle">>
    BY <1>1, <2>2 DEF Doing
  <2>5. Abstract!CallGet(t)
    BY <2>1, <2>3, <2>4 DEF Abstract!CallGet
  <2> QED BY <2>5 DEF Abstract!Next
<1>4. CASE FreeCas(t) /\ pTop = pVal[t] /\ UNCHANGED <<stackVars, callVars>>
  <2>1. contents' = contents
    BY <1>4 DEF contents, InStack, StackChain
  <2>2. /\ pc[t] = "freeCas" /\ Doing(pc'[t], item'[t], value'[Node(topVal'[t])]) = <<"idle">>
        /\ \A u \in Procs : u # t => /\ pc'[u] = pc[u] /\ item'[u] = item[u] /\ topVal'[u] = topVal[u]
                                     /\ value' = value
    BY <1>0, <1>4 DEF FreeCas, Doing
  <2>3. opState' = [opState EXCEPT ![t] = <<"idle">>]
    BY <2>2, OpMoves
  <2>4. opState[t][1] = "got"
    BY <1>1, <2>2 DEF Doing
  <2>5. Abstract!Return(t)
    BY <2>1, <2>3, <2>4 DEF Abstract!Return
  <2> QED BY <2>5 DEF Abstract!Next
<1>5. CASE PushCas(t) /\ top = topVal[t]
  <2>1. PICK g : /\ Good(m, p, n + 1, g, c, d)'
                 /\ (\A i \in 0 .. n : g[i] = q[i]) /\ g[n + 1] = nodeVal[t]
    BY <1>5, StepPushCas
  <2>2. Chain(top, next, n, q) /\ Chain(top, next, n + 1, g)' /\ n \in Nat
    BY <2>1 DEF Good, StackLinks, Chain
  <2>3. contents = Listed(n, q, value) /\ contents' = Listed(n + 1, g, value')
    BY <2>2, ContentsAre DEF Listed
  <2>4. pc[t] = "pushCas" /\ value' = value /\ value[Node(nodeVal[t])] = item[t]
    BY <1>5 DEF PushCas, PushCasIf, Good, Contents, StackLinks
  <2>5. contents' = Append(contents, item[t])
    <3>1. /\ Listed(n, q, value) = [i \in 1 .. n |-> value[Node(q[i])]]
          /\ Listed(n + 1, g, value) = [i \in 1 .. n + 1 |-> value[Node(g[i])]]
      BY DEF Listed
    <3>2. Append(Listed(n, q, value), item[t])
            = [i \in 1 .. n + 1 |-> IF i = n + 1 THEN item[t] ELSE value[Node(q[i])]]
      BY <2>2, <3>1
    <3>3. \A i \in 1 .. n + 1 : value[Node(g[i])] = IF i = n + 1 THEN item[t] ELSE value[Node(q[i])]
      BY <2>1, <2>2, <2>4
    <3> QED BY <2>3, <2>4, <3>1, <3>2, <3>3
  <2>6. /\ Doing(pc'[t], item'[t], value'[Node(topVal'[t])]) = <<"idle">>
        /\ \A u \in Procs : u # t => /\ pc'[u] = pc[u] /\ item'[u] = item[u] /\ topVal'[u] = topVal[u]
                                     /\ value' = value
    BY <1>0, <1>5 DEF PushCas, PushCasIf, Doing
  <2>7. opState' = [opState EXCEPT ![t] = <<"idle">>]
    BY <2>6, OpMoves
  <2>8. opState[t] = <<"put", item[t]>>
    BY <1>1, <2>4 DEF Doing
  <2>9. Abstract!DoPut(t)
    BY <2>5, <2>7, <2>8 DEF Abstract!DoPut
  <2> QED BY <2>9 DEF Abstract!Next
<1>6. CASE PopCas(t) /\ top = topVal[t]
  <2>1. PICK g : Good(m, p, n - 1, g, c, d)' /\ (\A i \in 0 .. n - 1 : g[i] = q[i])
    BY <1>6, StepPopCas
  <2>2. Chain(top, next, n, q) /\ Chain(top, next, n - 1, g)' /\ n \in Nat /\ n - 1 \in Nat /\ q[n] = top
    BY <2>1 DEF Good, StackLinks, Chain
  <2>3. contents = Listed(n, q, value) /\ contents' = Listed(n - 1, g, value')
    BY <2>2, ContentsAre DEF Listed
  <2>4. pc[t] = "popCas" /\ value' = value /\ pc'[t] = "popTake" /\ topVal' = topVal
    BY <1>0, <1>6 DEF PopCas
  <2>5. /\ Len(contents) = n /\ contents # <<>> /\ contents[Len(contents)] = value[Node(top)]
        /\ contents' = SubSeq(contents, 1, Len(contents) - 1)
    <3>1. /\ Listed(n, q, value) = [i \in 1 .. n |-> value[Node(q[i])]]
          /\ Listed(n - 1, g, value) = [i \in 1 .. n - 1 |-> value[Node(g[i])]]
      BY DEF Listed
    <3>2. /\ Len(Listed(n, q, value)) = n /\ Listed(n, q, value) # <<>>
          /\ Listed(n, q, value)[n] = value[Node(top)]
      BY <2>2, <3>1
    <3>3. SubSeq(Listed(n, q, value), 1, n - 1) = [i \in 1 .. n - 1 |-> value[Node(q[i])]]
      BY <2>2, <3>1
    <3>4. \A i \in 1 .. n - 1 : value[Node(g[i])] = value[Node(q[i])]
      BY <2>1, <2>2
    <3> QED BY <2>3, <2>4, <3>1, <3>2, <3>3, <3>4
  <2>6. /\ Doing(pc'[t], item'[t], value'[Node(topVal'[t])]) = <<"got", value[Node(top)]>>
        /\ \A u \in Procs : u # t => /\ pc'[u] = pc[u] /\ item'[u] = item[u] /\ topVal'[u] = topVal[u]
                                     /\ value' = value
    BY <1>0, <1>6, <2>4 DEF PopCas, Doing
  <2>7. opState' = [opState EXCEPT ![t] = <<"got", value[Node(top)]>>]
    BY <2>6, OpMoves
  <2>8. opState[t] = <<"get">>
    BY <1>1, <2>4 DEF Doing
  <2>9. Abstract!DoGet(t)
    BY <2>5, <2>7, <2>8 DEF Abstract!DoGet
  <2> QED BY <2>9 DEF Abstract!Next
<1>7. CASE /\ Step(t) /\ ~ ((PushCas(t) \/ PopCas(t)) /\ top = topVal[t])
           /\ ~ (FreeCas(t) /\ pTop = pVal[t])
  BY <1>7, Silent, SameContents
<1>8. Step(t) /\ FreeCas(t) => UNCHANGED <<stackVars, callVars>>
  BY DEF Step, FreeCas, PushInit, PushRead, PushLink, PushCas, PushCasIf, PopRead, PopNext, PopCas, PopTake
<1> QED BY <1>2, <1>3, <1>4, <1>5, <1>6, <1>7, <1>8, Zenon

\* The free session indices form a stack: Push takes effect with its exchange
\* of the top, Pop too, and no Pop meets an empty stack (CLockFreeStack.h).
THEOREM LinearizableStack ==
  ASSUME MaxPush \in Nat, MaxPush <= TagMod
  PROVE  Spec => Linearizable
<1>1. Bounds
  BY DEF Bounds
<1>2. Spec => []IInv
  BY <1>1, Invariance
<1>3. Init => Abstract!Init
  <2> SUFFICES ASSUME Init PROVE Abstract!Init
    OBVIOUS
  <2>1. opState = [t \in Procs |-> <<"idle">>]
    BY OpIs DEF Init, Doing
  <2>2. Chain(top, next, 0, [i \in 0 .. 0 |-> NullValue])
    BY PoolAssumption DEF PoolAssumption, Chain, Init, NullValue, Node, Values
  <2>3. contents = Listed(0, [i \in 0 .. 0 |-> NullValue], value)
    BY <2>2, ContentsAre
  <2>4. contents = <<>>
    BY <2>3 DEF Listed
  <2> QED BY <2>1, <2>4 DEF Abstract!Init
<1>4. IInv /\ [Next]_vars => [Abstract!Next]_<<contents, opState>>
  <2> SUFFICES ASSUME IInv, [Next]_vars PROVE Abstract!Next \/ UNCHANGED <<contents, opState>>
    OBVIOUS
  <2>1. CASE UNCHANGED vars
    BY <2>1 DEF contents, InStack, StackChain, opState
  <2>2. CASE Next
    <3>1. PICK m, p, n, q, c, d : Good(m, p, n, q, c, d)
      BY Zenon DEF IInv
    <3>2. PICK t \in Procs : StartPush(t) \/ StartPop(t) \/ Step(t)
      BY <2>2 DEF Next
    <3> QED BY <1>1, <3>1, <3>2, Refines
  <2> QED BY <2>1, <2>2
<1> QED BY <1>2, <1>3, <1>4, PTL DEF Spec, Linearizable, Abstract!Spec
=============================================================================
