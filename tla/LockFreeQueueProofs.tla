------------------------ MODULE LockFreeQueueProofs ------------------------
(***************************************************************************)
(* Theorems about LockFreeQueue, for finitely many putters of whatever     *)
(* number, every number of nodes and every length: no node is lost or in   *)
(* two places, what _size promises is linked, and the queue is             *)
(* linearizable.                                                           *)
(*                                                                         *)
(* Only one thread takes, as the send flag of a session sees to, and while *)
(* it takes only one puts; several put only while nobody takes. Both are   *)
(* the use that LanServer makes of the queue.                              *)
(*                                                                         *)
(* The inductive invariant says that there are two paths of links: p from  *)
(* Null up to the top of the pool, and q, which only ever grows at its     *)
(* end, whose part from a to b is the queue with its dummy and whose k-th  *)
(* node is the tail's; how a and b follow from _size and from where the    *)
(* threads are; that each node is fresh, on one of the paths or held by    *)
(* one thread; and what the locals of each thread say of the paths.        *)
(***************************************************************************)
EXTENDS LockFreeQueue, FiniteSetTheorems, WellFoundedInduction, TLAPS

\* A linked list with tagged links: its n links from the bottom up, q[0] being
\* Null's and q[n] the one the list is entered by.
Chain(first, links, n, q) ==
  /\ n \in Nat /\ q \in [0 .. n -> Values]
  /\ Node(q[0]) = Null /\ q[n] = first
  /\ \A i \in 1 .. n : Node(q[i]) \in Blocks /\ links[Node(q[i])] = q[i - 1]
  /\ \A i, j \in 1 .. n : Node(q[i]) = Node(q[j]) => i = j
Nodes(n, q) == {Node(q[i]) : i \in 1 .. n}
\* one more link, one less
More(n, q, v) == [i \in 0 .. n + 1 |-> IF i = n + 1 THEN v ELSE q[i]]
Less(n, q)    == [i \in 0 .. n - 1 |-> q[i]]

\* A linked list with bare links, whose ends both move: its nodes from a to b.
Path(first, links, a, b, q) ==
  /\ a \in Nat /\ b \in Nat /\ a <= b /\ q[a] = first
  /\ \A i \in a .. b : q[i] \in Blocks
  /\ \A i \in a .. b - 1 : links[q[i]] = q[i + 1]
  /\ links[q[b]] = Null
  /\ \A i, j \in a .. b : q[i] = q[j] => i = j
On(a, b, q) == {q[i] : i \in a .. b}
Longer(a, b, q, v) == [i \in a .. b + 1 |-> IF i = b + 1 THEN v ELSE q[i]]

\* the threads at some places
Of(places, at) == {t \in Procs : at[t] \in places}

-----------------------------------------------------------------------------
\* A set of naturals has a least element: what takes the place of induction.
LEMMA LeastNat ==
  ASSUME NEW T, T \subseteq Nat, T # {}
  PROVE  \E x \in T : \A y \in T : x <= y
<1>1. IsWellFoundedOn(OpToRel(<, Nat), Nat)
  BY NatLessThanWellFounded
<1>2. PICK x \in T : \A y \in T : ~ (<<y, x>> \in OpToRel(<, Nat))
  BY <1>1, WFMin, Zenon
<1>3. \A y \in T : x <= y
  <2> SUFFICES ASSUME NEW y \in T PROVE x <= y
    OBVIOUS
  <2>1. x \in Nat /\ y \in Nat
    OBVIOUS
  <2>2. ~(y < x)
    BY <1>2, <2>1 DEF OpToRel
  <2> QED BY <2>1, <2>2
<1> QED BY <1>2, <1>3, Zenon

\* How many threads are at the places S, when the thread u moves.
LEMMA Moves ==
  ASSUME NEW S, NEW at, NEW at1, NEW u \in Procs, IsFiniteSet(Of(S, at)),
         \A w \in Procs : w # u => at1[w] = at[w]
  PROVE  /\ IsFiniteSet(Of(S, at1))
         /\ Cardinality(Of(S, at)) \in Nat /\ Cardinality(Of(S, at1)) \in Nat
         /\ at[u] \in S => Cardinality(Of(S, at)) >= 1
         /\ at[u] \in S /\ at1[u] \notin S => Cardinality(Of(S, at1)) = Cardinality(Of(S, at)) - 1
         /\ at[u] \notin S /\ at1[u] \in S => Cardinality(Of(S, at1)) = Cardinality(Of(S, at)) + 1
         /\ (at[u] \in S <=> at1[u] \in S) => Cardinality(Of(S, at1)) = Cardinality(Of(S, at))
<1>1. Cardinality(Of(S, at)) \in Nat
  BY FS_CardinalityType, Zenon
<1>2. ASSUME at[u] \in S PROVE Cardinality(Of(S, at)) # 0
  <2>1. u \in Of(S, at)
    BY <1>2 DEF Of
  <2> QED BY <2>1, FS_EmptySet, Zenon
<1>3. CASE at[u] \in S /\ at1[u] \notin S
  <2>1. Of(S, at1) = Of(S, at) \ {u} /\ u \in Of(S, at)
    BY <1>3 DEF Of
  <2>2. IsFiniteSet(Of(S, at1)) /\ Cardinality(Of(S, at1)) = Cardinality(Of(S, at)) - 1
    BY <2>1, FS_RemoveElement, Zenon
  <2> QED BY <1>1, <1>2, <1>3, <2>2
<1>4. CASE at[u] \notin S /\ at1[u] \in S
  <2>1. Of(S, at1) = Of(S, at) \cup {u} /\ u \notin Of(S, at)
    BY <1>4 DEF Of
  <2>2. IsFiniteSet(Of(S, at1)) /\ Cardinality(Of(S, at1)) = Cardinality(Of(S, at)) + 1
    BY <2>1, FS_AddElement, Zenon
  <2> QED BY <1>1, <1>4, <2>2
<1>5. CASE at[u] \in S <=> at1[u] \in S
  <2>1. Of(S, at1) = Of(S, at)
    BY <1>5 DEF Of
  <2> QED BY <1>1, <1>2, <1>5, <2>1
<1> QED BY <1>3, <1>4, <1>5

\* A list is empty when its top is Null, as Alloc tests it.
LEMMA ChainEnds ==
  ASSUME NEW first, NEW links, NEW n, NEW q, Chain(first, links, n, q)
  PROVE  n = 0 <=> Node(first) = Null
  BY PoolAssumption DEF Chain, PoolAssumption

\* Writing the link of a node that is not in the list leaves the list alone.
LEMMA ChainWrite ==
  ASSUME NEW first, NEW links, NEW n, NEW q, Chain(first, links, n, q), DOMAIN links = Blocks,
         NEW b, b \notin Nodes(n, q), NEW v
  PROVE  Chain(first, [links EXCEPT ![b] = v], n, q)
  BY DEF Chain, Nodes

\* Exchanging the top for a node linked to the old top adds that node.
LEMMA ChainMore ==
  ASSUME NEW first, NEW links, NEW n, NEW q, Chain(first, links, n, q),
         NEW v \in Values, Node(v) \in Blocks \ Nodes(n, q), links[Node(v)] = first
  PROVE  \E g : /\ Chain(v, links, n + 1, g) /\ Nodes(n + 1, g) = Nodes(n, q) \cup {Node(v)}
                /\ n \in Nat /\ g[n + 1] = v /\ \A i \in 0 .. n : g[i] = q[i]
<1> DEFINE g == More(n, q, v)
<1>1. n \in Nat /\ g \in [0 .. n + 1 -> Values] /\ g[n + 1] = v /\ (\A i \in 0 .. n : g[i] = q[i])
  BY DEF Chain, More
<1> HIDE DEF g
<1>2. \A i : i \in 1 .. n + 1 <=> i \in 1 .. n \/ i = n + 1
  BY <1>1
<1>3. Nodes(n + 1, g) = Nodes(n, q) \cup {Node(v)}
  BY <1>1, <1>2 DEF Nodes
<1>4. \A i \in 1 .. n + 1 : Node(g[i]) \in Blocks /\ links[Node(g[i])] = g[i - 1]
  BY <1>1, <1>2 DEF Chain
<1>5. \A i, j \in 1 .. n + 1 : Node(g[i]) = Node(g[j]) => i = j
  <2>1. \A i \in 1 .. n : g[i] = q[i] /\ Node(q[i]) # Node(v)
    BY <1>1 DEF Nodes
  <2>2. \A i, j \in 1 .. n : Node(q[i]) = Node(q[j]) => i = j
    BY DEF Chain
  <2> QED BY <1>1, <1>2, <2>1, <2>2
<1>6. Chain(v, links, n + 1, g)
  BY <1>1, <1>4, <1>5 DEF Chain
<1> QED BY <1>1, <1>3, <1>6

\* Exchanging the top for the link of its node takes that node off.
LEMMA ChainLess ==
  ASSUME NEW first, NEW links, NEW n, NEW q, Chain(first, links, n, q), n # 0
  PROVE  \E g : /\ Chain(q[n - 1], links, n - 1, g)
                /\ Nodes(n - 1, g) = Nodes(n, q) \ {Node(first)}
                /\ n \in Nat /\ \A i \in 0 .. n - 1 : g[i] = q[i]
<1> DEFINE g == Less(n, q)
<1>1. n \in Nat /\ n - 1 \in Nat /\ g \in [0 .. n - 1 -> Values] /\ (\A i \in 0 .. n - 1 : g[i] = q[i])
  BY DEF Chain, Less
<1> HIDE DEF g
<1>2. \A i : i \in 1 .. n <=> i \in 1 .. n - 1 \/ i = n
  BY <1>1
<1>3. Nodes(n - 1, g) = Nodes(n, q) \ {Node(first)} /\ Node(first) \in Nodes(n, q)
  BY <1>1, <1>2 DEF Nodes, Chain
<1>4. Chain(q[n - 1], links, n - 1, g)
  BY <1>1, <1>2 DEF Chain
<1> QED BY <1>1, <1>3, <1>4

\* A list has as many nodes as links, and no more than there are.
LEMMA ChainSize ==
  ASSUME NEW first, NEW links, NEW n, NEW q, Chain(first, links, n, q)
  PROVE  /\ IsFiniteSet(Nodes(n, q)) /\ Cardinality(Nodes(n, q)) = n
         /\ Cardinality(Blocks) \in Nat /\ n <= Cardinality(Blocks)
<1> DEFINE f == [i \in 1 .. n |-> Node(q[i])]
<1>1. n \in Nat /\ Nodes(n, q) \subseteq Blocks /\ IsFiniteSet(Blocks)
  BY PoolAssumption DEF Chain, Nodes, PoolAssumption
<1>2. f \in Bijection(1 .. n, Nodes(n, q))
  <2>1. f \in [1 .. n -> Nodes(n, q)] /\ \A i \in 1 .. n : f[i] = Node(q[i])
    BY DEF Nodes
  <2>2. \A i, j \in 1 .. n : f[i] = f[j] => i = j
    BY <2>1 DEF Chain
  <2>3. \A x \in Nodes(n, q) : \E i \in 1 .. n : f[i] = x
    BY <2>1 DEF Nodes
  <2> HIDE DEF f
  <2>4. f \in Injection(1 .. n, Nodes(n, q)) /\ f \in Surjection(1 .. n, Nodes(n, q))
    BY <2>1, <2>2, <2>3, Zenon DEF Injection, Surjection, IsInjective
  <2> QED BY <2>4, Zenon DEF Bijection
<1>3. ExistsBijection(1 .. n, Nodes(n, q))
  BY <1>2, Zenon DEF ExistsBijection
<1>4. Cardinality(Nodes(n, q)) = n
  BY <1>1, <1>3, FS_CountingElements, Zenon
<1>5. IsFiniteSet(Nodes(n, q)) /\ Cardinality(Nodes(n, q)) <= Cardinality(Blocks)
  BY <1>1, FS_Subset, Zenon
<1>6. Cardinality(Blocks) \in Nat
  BY <1>1, FS_CardinalityType, Zenon
<1> QED BY <1>4, <1>5, <1>6

\* Following the links from the top, as FreeChain does, is following
\* the path downwards.
Walk(at, first, links) ==
  [k \in 0 .. Cardinality(Blocks) |->
     IF k = 0 THEN Node(first)
     ELSE IF at[k - 1] = Null THEN Null ELSE Node(links[at[k - 1]])]
Downwards(n, q) == [k \in 0 .. Cardinality(Blocks) |-> IF k <= n THEN Node(q[n - k]) ELSE Null]

\* The recursive walk is the path, read downwards: by the least place where they
\* would differ.
LEMMA WalkIsDown ==
  ASSUME NEW first, NEW links, NEW n, NEW q, Chain(first, links, n, q)
  PROVE  (CHOOSE at : at = Walk(at, first, links)) = Downwards(n, q)
<1> DEFINE D == 0 .. Cardinality(Blocks)
           g == Downwards(n, q)
<1>1. n \in Nat /\ Cardinality(Blocks) \in Nat /\ Node(q[0]) = Null /\ Node(q[n]) = Node(first)
      /\ \A i \in 1 .. n : Node(q[i]) # Null /\ links[Node(q[i])] = q[i - 1]
  BY ChainSize, PoolAssumption, SMTT(30) DEF Chain, PoolAssumption
<1>2. \A k \in D : g[k] = IF k = 0 THEN Node(first)
                          ELSE IF g[k - 1] = Null THEN Null ELSE Node(links[g[k - 1]])
  BY <1>1 DEF Downwards
<1>3. g = Walk(g, first, links)
  <2>1. g = [k \in D |-> g[k]]
    BY DEF Downwards
  <2> QED BY <1>2, <2>1 DEF Walk
<1>4. ASSUME NEW f, f = Walk(f, first, links) PROVE f = g
  <2> DEFINE T == {k \in D : f[k] # g[k]}
  <2>1. f = [k \in D |-> f[k]] /\ g = [k \in D |-> g[k]]
    BY <1>4 DEF Walk, Downwards
  <2>2. CASE T = {}
    <3>1. \A k \in D : f[k] = g[k]
      BY <2>2
    <3> QED BY <2>1, <3>1
  <2>3. CASE T # {}
    <3>1. T \subseteq Nat
      OBVIOUS
    <3>2. PICK x \in T : \A y \in T : x <= y
      BY <2>3, <3>1, LeastNat, Zenon
    <3>3. x \in D /\ f[x] # g[x]
      OBVIOUS
    <3>4. x = 0 \/ (x # 0 /\ x - 1 \in D /\ f[x - 1] = g[x - 1])
      <4>1. \A y \in D : f[y] # g[y] => x <= y
        BY <3>2
      <4>2. x \in D /\ x \in Nat
        BY <3>3
      <4> HIDE DEF g, T
      <4> QED BY <1>1, <4>1, <4>2
    <3>5. f[x] = IF x = 0 THEN Node(first)
                 ELSE IF f[x - 1] = Null THEN Null ELSE Node(links[f[x - 1]])
      BY <1>4, <3>3 DEF Walk
    <3> QED BY <1>2, <3>3, <3>4, <3>5
  <2> QED BY <2>2, <2>3
<1> HIDE DEF g
<1> QED BY <1>3, <1>4, Zenon DEF g

\* The walk ends at Null, and passes the nodes of the list.
LEMMA DownFrom ==
  ASSUME NEW first, NEW links, NEW n, NEW q, Chain(first, links, n, q)
  PROVE  /\ Downwards(n, q)[Cardinality(Blocks)] = Null
         /\ {Downwards(n, q)[k] : k \in DOMAIN Downwards(n, q)} \ {Null} = Nodes(n, q)
<1> DEFINE down == Downwards(n, q)
<1>1. n \in Nat /\ Cardinality(Blocks) \in Nat /\ n <= Cardinality(Blocks) /\ Node(q[0]) = Null
      /\ \A i \in 1 .. n : Node(q[i]) # Null
  <2>1. Cardinality(Blocks) \in Nat /\ n <= Cardinality(Blocks)
    BY ChainSize, ZenonT(60)
  <2> QED BY <2>1, PoolAssumption DEF Chain, PoolAssumption
<1>2. DOMAIN down = 0 .. Cardinality(Blocks)
      /\ \A k \in 0 .. Cardinality(Blocks) : down[k] = IF k <= n THEN Node(q[n - k]) ELSE Null
  BY DEF Downwards
<1> HIDE DEF down
<1>3. down[Cardinality(Blocks)] = Null
  BY <1>1, <1>2
<1>4. ASSUME NEW i \in 1 .. n PROVE Node(q[i]) \in {down[k] : k \in DOMAIN down} \ {Null}
  <2>1. n - i \in DOMAIN down /\ down[n - i] = Node(q[n - (n - i)]) /\ n - (n - i) = i
    BY <1>1, <1>2
  <2> QED BY <1>1, <2>1
<1>5. ASSUME NEW k \in DOMAIN down, down[k] # Null PROVE down[k] \in Nodes(n, q)
  <2>1. n - k \in 1 .. n /\ down[k] = Node(q[n - k])
    BY <1>1, <1>2, <1>5
  <2> QED BY <2>1 DEF Nodes
<1>6. {down[k] : k \in DOMAIN down} \ {Null} = Nodes(n, q)
  BY <1>4, <1>5, Zenon DEF Nodes
<1> QED BY <1>3, <1>6 DEF down

\* What FreeChain and Free of MemoryPool are, when p is the path of the pool.
LEMMA FreeIs ==
  ASSUME NEW m, NEW p, Chain(pTop, pNext, m, p)
  PROVE  FreeChain[Cardinality(Blocks)] = Null /\ Free = Nodes(m, p)
<1>1. FreeChain = CHOOSE at : at = Walk(at, pTop, pNext)
  BY DEF FreeChain, Walk
<1>2. FreeChain = Downwards(m, p)
  BY <1>1, WalkIsDown, Zenon
<1>3. /\ Downwards(m, p)[Cardinality(Blocks)] = Null
      /\ {Downwards(m, p)[k] : k \in DOMAIN Downwards(m, p)} \ {Null} = Nodes(m, p)
  BY DownFrom, ZenonT(60)
<1> QED BY <1>2, <1>3, Zenon DEF Free

\* What the top of the pool is.
LEMMA TopOf ==
  ASSUME NEW first, NEW links, NEW n, NEW q, Chain(first, links, n, q), Node(first) # Null
  PROVE  /\ n \in Nat /\ n # 0 /\ n \in 1 .. n /\ q[n] = first
         /\ Node(first) \in Nodes(n, q) /\ Node(first) \in Blocks
  BY ChainEnds DEF Chain, Nodes

-----------------------------------------------------------------------------
\* Only the last node of the queue has no next one.
LEMMA PathEnds ==
  ASSUME NEW first, NEW links, NEW a, NEW b, NEW q, Path(first, links, a, b, q), NEW j \in a .. b
  PROVE  /\ links[q[j]] = Null <=> j = b
         /\ links[q[j]] # Null => j + 1 \in a .. b /\ links[q[j]] = q[j + 1]
         /\ q[j] \in Blocks /\ q[j] \in On(a, b, q)
<1>1. a \in Nat /\ b \in Nat /\ j \in Nat
  BY DEF Path
<1>2. CASE j = b
  BY <1>1, <1>2 DEF Path, On
<1>3. CASE j # b
  <2>1. j \in a .. b - 1 /\ j + 1 \in a .. b
    BY <1>1, <1>3
  <2>2. links[q[j]] = q[j + 1] /\ q[j + 1] \in Blocks /\ q[j] \in Blocks
    BY <2>1 DEF Path
  <2>3. q[j + 1] # Null
    BY <2>2, PoolAssumption DEF PoolAssumption
  <2> QED BY <1>3, <2>1, <2>2, <2>3 DEF On
<1> QED BY <1>2, <1>3

\* Writing the link of a node that is not in the queue leaves the queue alone.
LEMMA PathWrite ==
  ASSUME NEW first, NEW links, NEW a, NEW b, NEW q, Path(first, links, a, b, q),
         NEW links1, \A x \in On(a, b, q) : links1[x] = links[x]
  PROVE  Path(first, links1, a, b, q)
<1>1. \A i \in a .. b : links1[q[i]] = links[q[i]]
  BY DEF On
<1>2. a \in Nat /\ b \in Nat /\ a <= b
  BY DEF Path
<1>3. b \in a .. b /\ \A i \in a .. b - 1 : i \in a .. b
  BY <1>2
<1> QED BY <1>1, <1>3 DEF Path

\* The first exchange of Enqueue, on the link of the last node, adds a node.
LEMMA PathLonger ==
  ASSUME NEW first, NEW links, NEW a, NEW b, NEW q, Path(first, links, a, b, q),
         NEW v \in Blocks \ On(a, b, q), NEW links1,
         links1[q[b]] = v, links1[v] = Null, \A x \in On(a, b, q) \ {q[b]} : links1[x] = links[x]
  PROVE  \E g : /\ Path(first, links1, a, b + 1, g) /\ On(a, b + 1, g) = On(a, b, q) \cup {v}
                /\ g[b + 1] = v /\ \A i \in a .. b : g[i] = q[i]
<1> DEFINE g == Longer(a, b, q, v)
<1>1. a \in Nat /\ b \in Nat /\ a <= b /\ b + 1 \in Nat /\ a <= b + 1
  BY DEF Path
<1>2. g[b + 1] = v /\ (\A i \in a .. b : g[i] = q[i])
  BY <1>1 DEF Longer
<1> HIDE DEF g
<1>3. \A i : i \in a .. b + 1 <=> i \in a .. b \/ i = b + 1
  BY <1>1
<1>4. a \in a .. b /\ b \in a .. b
  BY <1>1
<1>5. On(a, b + 1, g) = On(a, b, q) \cup {v}
  BY <1>2, <1>3 DEF On
<1>6. g[a] = first /\ \A i \in a .. b + 1 : g[i] \in Blocks
  BY <1>2, <1>3, <1>4 DEF Path
<1>7. \A i, j \in a .. b + 1 : g[i] = g[j] => i = j
  <2>1. \A i \in a .. b : g[i] = q[i] /\ q[i] # v
    BY <1>2 DEF On
  <2>2. \A i, j \in a .. b : q[i] = q[j] => i = j
    BY DEF Path
  <2> QED BY <1>2, <1>3, <2>1, <2>2
<1>8. \A i \in a .. b : links1[g[i]] = g[i + 1]
  <2> TAKE i \in a .. b
  <2>1. CASE i = b
    BY <1>2, <1>4, <2>1
  <2>2. CASE i # b
    <3>1. i \in a .. b - 1 /\ i + 1 \in a .. b
      BY <1>1, <2>2
    <3>2. q[i] \in On(a, b, q) /\ q[i] # q[b]
      BY <1>4, <2>2 DEF Path, On
    <3> QED BY <1>2, <3>1, <3>2 DEF Path
  <2> QED BY <2>1, <2>2
<1>9. b + 1 - 1 = b
  BY <1>1
<1>10. Path(first, links1, a, b + 1, g)
  BY <1>1, <1>2, <1>6, <1>7, <1>8, <1>9 DEF Path
<1> QED BY <1>2, <1>5, <1>10

\* The exchange of the head takes the old dummy off.
LEMMA PathShorter ==
  ASSUME NEW first, NEW links, NEW a, NEW b, NEW q, Path(first, links, a, b, q), a < b
  PROVE  /\ Path(q[a + 1], links, a + 1, b, q) /\ On(a + 1, b, q) = On(a, b, q) \ {first}
         /\ first \in On(a, b, q)
<1>1. a \in Nat /\ b \in Nat /\ a + 1 \in Nat /\ a + 1 <= b
  BY DEF Path
<1>2. \A i : i \in a .. b <=> i \in a + 1 .. b \/ i = a
  BY <1>1
<1>3. \A i \in a + 1 .. b - 1 : i \in a .. b - 1
  BY <1>1
<1>4. On(a + 1, b, q) = On(a, b, q) \ {first} /\ first \in On(a, b, q)
  <2>1. \A i \in a + 1 .. b : q[i] # first
    <3>1. \A i \in a + 1 .. b : i # a
      BY <1>1
    <3> QED BY <1>2, <3>1 DEF Path
  <2>2. q[a] = first
    BY DEF Path
  <2> QED BY <1>2, <2>1, <2>2 DEF On
<1>5. Path(q[a + 1], links, a + 1, b, q)
  BY <1>1, <1>2, <1>3 DEF Path
<1> QED BY <1>4, <1>5

\* The queue has as many nodes as links, and its dummy.
LEMMA PathSize ==
  ASSUME NEW first, NEW links, NEW a, NEW b, NEW q, Path(first, links, a, b, q)
  PROVE  /\ IsFiniteSet(On(a, b, q)) /\ Cardinality(On(a, b, q)) = b - a + 1
         /\ Cardinality(Blocks) \in Nat /\ b - a + 1 <= Cardinality(Blocks)
<1> DEFINE n == b - a + 1
           f == [i \in 1 .. n |-> q[a + i - 1]]
<1>0. a \in Nat /\ b \in Nat /\ a <= b /\ n \in Nat
  BY DEF Path
<1>1. On(a, b, q) \subseteq Blocks /\ IsFiniteSet(Blocks)
  BY PoolAssumption DEF Path, On, PoolAssumption
<1>2. f \in Bijection(1 .. n, On(a, b, q))
  <2>0. \A i \in 1 .. n : a + i - 1 \in a .. b
    BY <1>0
  <2>1. f \in [1 .. n -> On(a, b, q)] /\ \A i \in 1 .. n : f[i] = q[a + i - 1]
    BY <2>0 DEF On
  <2>2. \A i, j \in 1 .. n : f[i] = f[j] => i = j
    <3> TAKE i, j \in 1 .. n
    <3>1. f[i] = f[j] => a + i - 1 = a + j - 1
      BY <2>0, <2>1 DEF Path
    <3> QED BY <1>0, <3>1
  <2>3. \A x \in On(a, b, q) : \E i \in 1 .. n : f[i] = x
    <3> TAKE x \in On(a, b, q)
    <3>1. PICK i \in a .. b : x = q[i]
      BY DEF On
    <3>2. i - a + 1 \in 1 .. n /\ a + (i - a + 1) - 1 = i
      BY <1>0
    <3> QED BY <2>1, <3>1, <3>2
  <2> HIDE DEF f, n
  <2>4. f \in Injection(1 .. n, On(a, b, q)) /\ f \in Surjection(1 .. n, On(a, b, q))
    BY <2>1, <2>2, <2>3, Zenon DEF Injection, Surjection, IsInjective
  <2> QED BY <2>4, Zenon DEF Bijection
<1> HIDE DEF f, n
<1>3. ExistsBijection(1 .. n, On(a, b, q))
  BY <1>2, Zenon DEF ExistsBijection
<1>4. IsFiniteSet(On(a, b, q)) /\ Cardinality(On(a, b, q)) <= Cardinality(Blocks)
  BY <1>1, FS_Subset, Zenon
<1>5. Cardinality(On(a, b, q)) = n
  BY <1>0, <1>3, FS_CountingElements, Zenon
<1>6. Cardinality(Blocks) \in Nat
  BY <1>1, FS_CardinalityType, Zenon
<1> QED BY <1>4, <1>5, <1>6 DEF n

\* Following the links from the head, as Linked does, is following the path.
Along(at, first, links) ==
  [k \in 0 .. Cardinality(Blocks) |->
     IF k = 0 THEN first ELSE IF at[k - 1] = Null THEN Null ELSE links[at[k - 1]]]
\* The same, read off the path, and how long a walk is.
Onwards(a, b, q) == [k \in 0 .. Cardinality(Blocks) |-> IF k <= b - a THEN q[a + k] ELSE Null]
Last(at) ==
  CHOOSE n \in 0 .. Cardinality(Blocks) :
    /\ at[n] # Null
    /\ n = Cardinality(Blocks) \/ at[n + 1] = Null

\* The recursive walk from the head is the path.
LEMMA AlongIsOn ==
  ASSUME NEW first, NEW links, NEW a, NEW b, NEW q, Path(first, links, a, b, q)
  PROVE  (CHOOSE at : at = Along(at, first, links)) = Onwards(a, b, q)
<1> DEFINE D == 0 .. Cardinality(Blocks)
           g == Onwards(a, b, q)
<1>0. Cardinality(Blocks) \in Nat /\ b - a + 1 <= Cardinality(Blocks)
  BY PathSize, ZenonT(60)
<1>1. a \in Nat /\ b \in Nat /\ a <= b /\ q[a] = first
  BY DEF Path
<1>2. \A k \in D : g[k] = IF k = 0 THEN first ELSE IF g[k - 1] = Null THEN Null ELSE links[g[k - 1]]
  <2> TAKE k \in D
  <2>1. CASE k = 0
    BY <1>0, <1>1, <2>1 DEF Onwards
  <2>2. CASE k # 0 /\ k <= b - a
    <3>1. k - 1 \in D /\ a + (k - 1) \in a .. b - 1 /\ a + (k - 1) \in a .. b /\ a + (k - 1) + 1 = a + k
          /\ k - 1 <= b - a
      BY <1>0, <1>1, <2>2
    <3>2. g[k - 1] = q[a + (k - 1)] /\ g[k] = q[a + k]
      BY <2>2, <3>1 DEF Onwards
    <3>3. q[a + (k - 1)] # Null /\ links[q[a + (k - 1)]] = q[a + k]
      BY <3>1, PoolAssumption DEF Path, PoolAssumption
    <3> QED BY <2>2, <3>2, <3>3
  <2>3. CASE k # 0 /\ k - 1 = b - a
    <3>1. k - 1 \in D /\ a + (k - 1) = b /\ b \in a .. b /\ k - 1 <= b - a /\ ~ (k <= b - a)
      BY <1>0, <1>1, <2>3
    <3>2. g[k - 1] = q[b] /\ g[k] = Null
      BY <3>1 DEF Onwards
    <3>3. q[b] # Null /\ links[q[b]] = Null
      BY <3>1, PoolAssumption DEF Path, PoolAssumption
    <3> QED BY <2>3, <3>2, <3>3
  <2>4. CASE k - 1 > b - a
    <3>1. k - 1 \in D /\ ~ (k - 1 <= b - a) /\ ~ (k <= b - a) /\ k # 0
      BY <1>0, <1>1, <2>4
    <3>2. g[k - 1] = Null /\ g[k] = Null
      BY <3>1 DEF Onwards
    <3> QED BY <3>1, <3>2
  <2> QED BY <1>0, <1>1, <2>1, <2>2, <2>3, <2>4
<1>3. g = Along(g, first, links)
  <2>1. g = [k \in D |-> g[k]]
    BY DEF Onwards
  <2> QED BY <1>2, <2>1 DEF Along
<1>4. ASSUME NEW f, f = Along(f, first, links) PROVE f = g
  <2> DEFINE T == {k \in D : f[k] # g[k]}
  <2>1. f = [k \in D |-> f[k]] /\ g = [k \in D |-> g[k]]
    BY <1>4 DEF Along, Onwards
  <2>2. CASE T = {}
    <3>1. \A k \in D : f[k] = g[k]
      BY <2>2
    <3> QED BY <2>1, <3>1
  <2>3. CASE T # {}
    <3>1. T \subseteq Nat
      OBVIOUS
    <3>2. PICK x \in T : \A y \in T : x <= y
      BY <2>3, <3>1, LeastNat, Zenon
    <3>3. x \in D /\ f[x] # g[x]
      OBVIOUS
    <3>4. x = 0 \/ (x # 0 /\ x - 1 \in D /\ f[x - 1] = g[x - 1])
      <4>1. \A y \in D : f[y] # g[y] => x <= y
        BY <3>2
      <4>2. x \in D /\ x \in Nat
        BY <3>3
      <4> HIDE DEF g, T
      <4> QED BY <1>0, <4>1, <4>2
    <3>5. f[x] = IF x = 0 THEN first ELSE IF f[x - 1] = Null THEN Null ELSE links[f[x - 1]]
      BY <1>4, <3>3 DEF Along
    <3> QED BY <1>2, <3>3, <3>4, <3>5
  <2> QED BY <2>2, <2>3
<1> HIDE DEF g
<1>5. \A f : f = Along(f, first, links) => f = g
  BY <1>4
<1> QED BY <1>3, <1>5, Zenon DEF g

\* What Linked is, when q from a to b is the queue.
LEMMA LinkedIs ==
  ASSUME NEW a, NEW b, NEW q, Path(Node(head), next, a, b, q)
  PROVE  Linked = [i \in 1 .. b - a |-> q[a + i]] /\ Len(Linked) = b - a
<1> DEFINE at == CHOOSE f : f = Along(f, Node(head), next)
           g == Onwards(a, b, q)
<1>1. Linked = [i \in 1 .. Last(at) |-> at[i]]
  BY DEF Linked, Along, Last
<1>2. at = g
  BY AlongIsOn, Zenon
<1>3. Cardinality(Blocks) \in Nat /\ b - a + 1 <= Cardinality(Blocks)
  BY PathSize, ZenonT(60)
<1>4. a \in Nat /\ b \in Nat /\ a <= b /\ \A i \in a .. b : q[i] # Null
  BY PoolAssumption DEF Path, PoolAssumption
<1>5. \A k \in 0 .. Cardinality(Blocks) : g[k] = IF k <= b - a THEN q[a + k] ELSE Null
  BY DEF Onwards
<1> HIDE DEF g, at
<1>6. b - a \in 0 .. Cardinality(Blocks) /\ g[b - a] # Null /\ g[b - a + 1] = Null
  <2>1. b - a \in 0 .. Cardinality(Blocks) /\ b - a + 1 \in 0 .. Cardinality(Blocks)
        /\ ~ (b - a + 1 <= b - a) /\ a + (b - a) = b /\ b \in a .. b
    BY <1>3, <1>4
  <2> QED BY <1>4, <1>5, <2>1
<1>7. ASSUME NEW n \in 0 .. Cardinality(Blocks), g[n] # Null, n = Cardinality(Blocks) \/ g[n + 1] = Null
      PROVE  n = b - a
  <2>1. n <= b - a
    BY <1>5, <1>7
  <2>2. CASE n < b - a
    <3>1. n # Cardinality(Blocks) /\ n + 1 \in 0 .. Cardinality(Blocks) /\ n + 1 <= b - a
          /\ a + (n + 1) \in a .. b
      BY <1>3, <1>4, <2>2
    <3> QED BY <1>4, <1>5, <1>7, <3>1
  <2> QED BY <1>4, <2>1, <2>2
<1>8. Last(g) = b - a
  BY <1>6, <1>7 DEF Last
<1>9. \A i \in 1 .. b - a : g[i] = q[a + i]
  BY <1>3, <1>4, <1>5
<1>10. Linked = [i \in 1 .. b - a |-> q[a + i]]
  BY <1>1, <1>2, <1>8, <1>9
<1> QED BY <1>4, <1>10

-----------------------------------------------------------------------------
\* Where the threads are.
WithTail == {"enqNext", "enqHelp", "enqLink", "enqSwing"}
WithNode == {"enqRead", "enqNext", "enqHelp", "enqLink"}
Putting  == AllocPcs \cup {"enqInit"} \cup WithNode
Linking  == {"enqSwing", "enqCount"}
Holding  == {"enqInit"} \cup WithNode \cup FreePcs
Taking   == BeforeCas \ {"deqCount"}
HasHead  == {"deqTail", "deqNext", "deqData", "deqCas"}
PoolRead == {"allocNext", "allocCas"}
\* one thread puts, or none
Alone    == \A t, u \in putters : t = u

(***************************************************************************)
(* The inductive invariant.  The pool holds m nodes, entered by the links  *)
(* p; the queue the nodes q[a], the dummy, to q[b]; the tail is at q[k].   *)
(***************************************************************************)
\* The types of the variables, but for the bound of _size.
Types ==
  /\ PoolTypeOK
  /\ pc \in [Procs -> AllocPcs \cup FreePcs \cup EnqPcs \cup BeforeCas \cup {"idle", "break"}]
  /\ head \in Values /\ headId \in 0 .. TagMod - 1
  /\ tail \in Values /\ tailId \in 0 .. TagMod - 1
  /\ next \in [Blocks -> Blocks \cup {Null}] /\ data \in [Blocks -> Items \cup {NoItem}]
  /\ nodeVal \in [Producers -> Values] /\ enqTail \in [Producers -> Values]
  /\ headVal \in Values /\ tailVal \in Values /\ newHead \in Values
  /\ headNext \in Blocks \cup {Null} /\ taken \in Items \cup {NoItem}
  /\ DOMAIN ret = Procs /\ DOMAIN item = Producers /\ DOMAIN enqNext = Producers

\* Who does what.  Only the consumer frees and takes, and only where at most
\* one puts: where several do, the pool stays empty.
Roles(m) ==
  /\ putters \subseteq Producers
  /\ \A t \in Producers : pc[t] \in AllocPcs \cup EnqPcs \cup {"idle"}
  /\ pc[Consumer] \in BeforeCas \cup FreePcs \cup {"idle"}
  /\ \A t \in Producers : pc[t] # "idle" => t \in putters
  /\ pc[Consumer] # "idle" \/ m # 0 => Alone
  /\ \A t \in Procs : pc[t] \in AllocPcs => ret[t] = "enqInit"
  /\ \A t \in Procs : pc[t] \in FreePcs => ret[t] = "idle"

\* What _size says of the length.
Sizes(a, b) ==
  /\ size \in Nat
  /\ IsFiniteSet(Of(Linking, pc)) /\ IsFiniteSet(Of(Putting, pc))
  /\ size + Cardinality(Of(Linking, pc)) + (IF pc[Consumer] \in Taking THEN 1 ELSE 0) = b - a
  /\ b - a + Cardinality(Of(Putting, pc)) <= MaxLen + Cardinality(Producers)
  /\ pc[Consumer] = "deqCount" => size > 0

\* Which node is where, for places at, nodes held hd, nodes bk that are put or
\* freed, and fresh nodes fr; P and Q are those in the pool and in the queue.
Owned(at, hd, bk, fr, P, Q) ==
  /\ \A t \in Procs : hd[t] = IF at[t] \in Holding THEN {bk[t]} ELSE {}
  /\ \A t \in Procs : at[t] \in Holding => bk[t] \in Blocks
  /\ \A t, u \in Procs : t # u => hd[t] \cap hd[u] = {}
  /\ \A t \in Procs : hd[t] \cap (fr \cup P \cup Q) = {}
  /\ fr \cap P = {} /\ fr \cap Q = {} /\ P \cap Q = {}
  /\ \A b \in Blocks : b \in fr \cup P \cup Q \/ \E t \in Procs : b \in hd[t]

\* The node a thread read off the top of the pool is still in it: nobody else
\* allocates.  The thread is at l and has read v and then w.
InPool(l, v, w, m, p) == \E i \in 1 .. m : v = p[i] /\ (l = "allocCas" => w = p[i - 1])
PoolLinks(m, p) ==
  /\ Chain(pTop, pNext, m, p)
  /\ \A t \in Procs : pc[t] \in PoolRead => InPool(pc[t], pVal[t], pNxt[t], m, p)
  /\ \A t \in Procs : pc[t] \in FreePcs \ {"free"} => Node(blkVal[t]) = blk[t]
  /\ \A t \in Procs : pc[t] = "freeCas" => pNext[blk[t]] = pVal[t]

\* The tail is the last node, or the one before it while its putter is between
\* the two exchanges of Enqueue.
Ends(a, b, q, k) ==
  /\ Path(Node(head), next, a, b, q)
  /\ k \in a .. b /\ b - 1 <= k /\ Node(tail) = q[k]
  /\ k # b => \E t \in Producers : pc[t] = "enqSwing" /\ enqTail[t] = tail

\* A tail that was read is a node of the queue, at or behind the tail tl, where
\* it is if nobody else puts.  The thread is at l, has read v and then w, and
\* puts the node of x; ps are the putters.
AtTail(l, v, w, x, tl, ps, a, b, q, k) ==
  \E j \in a .. k :
    /\ Node(v) = q[j] /\ (j = k => v = tl) /\ ((\A t, u \in ps : t = u) => j = k)
    /\ l = "enqHelp" => j < b /\ w = q[j + 1]
    /\ l = "enqSwing" => j < b /\ Node(x) = q[j + 1]
\* What the putters have read.
Enqueues(a, b, q, k) ==
  /\ \A t \in Producers : pc[t] \in WithNode => Node(nodeVal[t]) = blk[t] /\ next[blk[t]] = Null
  /\ \A t \in Producers : pc[t] \in WithTail =>
       AtTail(pc[t], enqTail[t], enqNext[t], nodeVal[t], tail, putters, a, b, q, k)

\* Nobody else moves the head, and the tail is ahead of it.
Dequeues(a, q) ==
  /\ pc[Consumer] \in HasHead => headVal = head
  /\ pc[Consumer] = "deqNext" => Node(tailVal) # Node(head)
  /\ pc[Consumer] \in {"deqData", "deqCas"} => headNext = q[a + 1]
  /\ pc[Consumer] = "deqCas" => Node(newHead) = headNext

\* The items of the nodes in the queue, on their way in and on their way out.
Contents(a, b, q) ==
  /\ \A t \in Producers : pc[t] \in Putting => item[t] \in Items
  /\ \A t \in Producers : pc[t] \in WithNode => data[blk[t]] = item[t]
  /\ \A i \in a + 1 .. b : data[q[i]] \in Items
  /\ pc[Consumer] = "deqCas" => taken = data[q[a + 1]]

\* The invariant for two given paths.
Good(m, p, a, b, q, k) ==
  /\ Types /\ Roles(m) /\ Sizes(a, b) /\ Owned(pc, held, blk, fresh, Nodes(m, p), On(a, b, q))
  /\ PoolLinks(m, p) /\ Ends(a, b, q, k) /\ Enqueues(a, b, q, k) /\ Dequeues(a, q) /\ Contents(a, b, q)
IInv == \E m, p, a, b, q, k : Good(m, p, a, b, q, k)

\* finitely many threads
Bounds == IsFiniteSet(Procs)

-----------------------------------------------------------------------------
\* How a step of one thread changes the numbers in Sizes.
LEMMA SizesMove ==
  ASSUME NEW a, NEW b, Sizes(a, b), NEW t \in Procs, \A u \in Procs : u # t => pc'[u] = pc[u]
  PROVE  \A S \in {Linking, Putting} :
         /\ IsFiniteSet(Of(S, pc')) /\ Cardinality(Of(S, pc)) \in Nat /\ Cardinality(Of(S, pc')) \in Nat
         /\ pc[t] \in S => Cardinality(Of(S, pc)) >= 1
         /\ pc[t] \in S /\ pc'[t] \notin S => Cardinality(Of(S, pc')) = Cardinality(Of(S, pc)) - 1
         /\ pc[t] \notin S /\ pc'[t] \in S => Cardinality(Of(S, pc')) = Cardinality(Of(S, pc)) + 1
         /\ (pc[t] \in S <=> pc'[t] \in S) => Cardinality(Of(S, pc')) = Cardinality(Of(S, pc))
<1> TAKE S \in {Linking, Putting}
<1>1. IsFiniteSet(Of(S, pc))
  BY DEF Sizes
<1>2. PICK c, d : c = pc /\ d = pc'
  OBVIOUS
<1>3. IsFiniteSet(Of(S, c)) /\ \A u \in Procs : u # t => d[u] = c[u]
  BY <1>1, <1>2
<1>4. /\ IsFiniteSet(Of(S, d)) /\ Cardinality(Of(S, c)) \in Nat /\ Cardinality(Of(S, d)) \in Nat
      /\ c[t] \in S => Cardinality(Of(S, c)) >= 1
      /\ c[t] \in S /\ d[t] \notin S => Cardinality(Of(S, d)) = Cardinality(Of(S, c)) - 1
      /\ c[t] \notin S /\ d[t] \in S => Cardinality(Of(S, d)) = Cardinality(Of(S, c)) + 1
      /\ (c[t] \in S <=> d[t] \in S) => Cardinality(Of(S, d)) = Cardinality(Of(S, c))
  BY <1>3, Moves
<1> QED BY <1>2, <1>4

\* A step that passes none of the places counted changes no number.
LEMMA SizesStay ==
  ASSUME NEW a, NEW b, Sizes(a, b), NEW t \in Procs, NEW l, DOMAIN pc = Procs,
         pc' = [pc EXCEPT ![t] = l], size' = size,
         pc[t] \in Linking <=> l \in Linking, pc[t] \in Putting <=> l \in Putting,
         t = Consumer => (pc[t] \in Taking <=> l \in Taking) /\ l # "deqCount"
  PROVE  Sizes(a, b)'
<1>1. pc'[t] = l /\ (\A u \in Procs : u # t => pc'[u] = pc[u])
  OBVIOUS
<1>2. \A S \in {Linking, Putting} :
        (pc[t] \in S <=> pc'[t] \in S) =>
          IsFiniteSet(Of(S, pc')) /\ Cardinality(Of(S, pc')) = Cardinality(Of(S, pc))
  BY <1>1, SizesMove
<1>3. /\ pc'[Consumer] \in Taking <=> pc[Consumer] \in Taking
      /\ pc'[Consumer] = "deqCount" => pc[Consumer] = "deqCount"
  BY <1>1, QueueAssumption DEF QueueAssumption
<1> QED BY <1>1, <1>2, <1>3 DEF Sizes

\* Enqueue is called: one more is to be linked.
LEMMA SizesStartEnqueue ==
  ASSUME NEW a \in Nat, NEW b \in Nat, Sizes(a, b), NEW t \in Procs, DOMAIN pc = Procs,
         IsFiniteSet(Procs), t # Consumer, b - a < MaxLen, pc[Consumer] \notin Putting,
         pc[t] = "idle", pc' = [pc EXCEPT ![t] = "alloc"], size' = size
  PROVE  Sizes(a, b)'
<1>1. \A u \in Procs : u # t => pc'[u] = pc[u]
  OBVIOUS
<1> DEFINE Before(S) == Cardinality(Of(S, pc))
           After(S) == Cardinality(Of(S, pc'))
<1>2. \A S \in {Linking, Putting} :
        /\ IsFiniteSet(Of(S, pc')) /\ Before(S) \in Nat /\ After(S) \in Nat
        /\ (pc[t] \in S /\ pc'[t] \notin S => After(S) = Before(S) - 1)
        /\ (pc[t] \notin S /\ pc'[t] \in S => After(S) = Before(S) + 1)
        /\ ((pc[t] \in S <=> pc'[t] \in S) => After(S) = Before(S))
  BY <1>1, SizesMove
<1>3. After(Linking) = Before(Linking) /\ pc'[Consumer] = pc[Consumer]
  BY <1>2, QueueAssumption
     DEF Linking, Putting, WithNode, AllocPcs, Taking, BeforeCas, QueueAssumption
<1>4. After(Putting) <= Cardinality(Producers) /\ Cardinality(Producers) \in Nat
  <2>1. Of(Putting, pc') \subseteq Producers
    BY <1>1, QueueAssumption DEF Of, Producers, QueueAssumption
  <2>2. IsFiniteSet(Producers)
    BY FS_Subset DEF Producers
  <2> QED BY <2>1, <2>2, FS_Subset, FS_CardinalityType, Zenon
<1> QED BY <1>2, <1>3, <1>4, QueueAssumption DEF Sizes, QueueAssumption

\* The node is linked: one more in the queue, not yet counted.
LEMMA SizesEnqLink ==
  ASSUME NEW a \in Nat, NEW b \in Nat, Sizes(a, b), NEW t \in Procs, DOMAIN pc = Procs,
         t # Consumer, pc[t] = "enqLink", pc' = [pc EXCEPT ![t] = "enqSwing"], size' = size
  PROVE  Sizes(a, b + 1)'
<1>1. \A u \in Procs : u # t => pc'[u] = pc[u]
  OBVIOUS
<1> DEFINE Before(S) == Cardinality(Of(S, pc))
           After(S) == Cardinality(Of(S, pc'))
<1>2. \A S \in {Linking, Putting} :
        /\ IsFiniteSet(Of(S, pc')) /\ Before(S) \in Nat /\ After(S) \in Nat
        /\ (pc[t] \in S /\ pc'[t] \notin S => After(S) = Before(S) - 1)
        /\ (pc[t] \notin S /\ pc'[t] \in S => After(S) = Before(S) + 1)
        /\ ((pc[t] \in S <=> pc'[t] \in S) => After(S) = Before(S))
  BY <1>1, SizesMove
<1>3. After(Linking) = Before(Linking) + 1 /\ After(Putting) = Before(Putting) - 1
      /\ pc'[Consumer] = pc[Consumer]
  BY <1>2, QueueAssumption
     DEF Linking, Putting, WithNode, AllocPcs, Taking, BeforeCas, QueueAssumption
<1>4. b + 1 - a = b - a + 1
  OBVIOUS
<1>5. b + 1 - a + After(Putting) = b - a + Before(Putting)
  BY <1>2, <1>3
<1> QED BY <1>2, <1>3, <1>4, <1>5 DEF Sizes

\* _size counts it.
LEMMA SizesEnqCount ==
  ASSUME NEW a \in Nat, NEW b \in Nat, Sizes(a, b), NEW t \in Procs, DOMAIN pc = Procs,
         t # Consumer, pc[t] = "enqCount", pc' = [pc EXCEPT ![t] = "idle"], size' = size + 1
  PROVE  Sizes(a, b)'
<1>1. \A u \in Procs : u # t => pc'[u] = pc[u]
  OBVIOUS
<1> DEFINE Before(S) == Cardinality(Of(S, pc))
           After(S) == Cardinality(Of(S, pc'))
<1>2. \A S \in {Linking, Putting} :
        /\ IsFiniteSet(Of(S, pc')) /\ Before(S) \in Nat /\ After(S) \in Nat
        /\ (pc[t] \in S /\ pc'[t] \notin S => After(S) = Before(S) - 1)
        /\ (pc[t] \notin S /\ pc'[t] \in S => After(S) = Before(S) + 1)
        /\ ((pc[t] \in S <=> pc'[t] \in S) => After(S) = Before(S))
  BY <1>1, SizesMove
<1>3. After(Linking) = Before(Linking) - 1 /\ After(Putting) = Before(Putting)
      /\ pc'[Consumer] = pc[Consumer]
  BY <1>2, QueueAssumption
     DEF Linking, Putting, WithNode, AllocPcs, Taking, BeforeCas, QueueAssumption
<1> QED BY <1>2, <1>3 DEF Sizes

\* Dequeue is called.
LEMMA SizesStartDequeue ==
  ASSUME NEW a \in Nat, NEW b \in Nat, Sizes(a, b), NEW t \in Procs, DOMAIN pc = Procs,
         t = Consumer, pc[t] = "idle", size > 0, pc' = [pc EXCEPT ![t] = "deqCount"], size' = size
  PROVE  Sizes(a, b)'
<1>1. \A u \in Procs : u # t => pc'[u] = pc[u]
  OBVIOUS
<1> DEFINE Before(S) == Cardinality(Of(S, pc))
           After(S) == Cardinality(Of(S, pc'))
<1>2. \A S \in {Linking, Putting} :
        /\ IsFiniteSet(Of(S, pc')) /\ Before(S) \in Nat /\ After(S) \in Nat
        /\ (pc[t] \in S /\ pc'[t] \notin S => After(S) = Before(S) - 1)
        /\ (pc[t] \notin S /\ pc'[t] \in S => After(S) = Before(S) + 1)
        /\ ((pc[t] \in S <=> pc'[t] \in S) => After(S) = Before(S))
  BY <1>1, SizesMove
<1>3. After(Linking) = Before(Linking) /\ After(Putting) = Before(Putting)
      /\ pc'[Consumer] \notin Taking /\ pc[Consumer] \notin Taking
  BY <1>2 DEF Linking, Putting, WithNode, AllocPcs, Taking, BeforeCas
<1> QED BY <1>2, <1>3 DEF Sizes

\* _size was above 0: the node Dequeue is going to take is counted off.
LEMMA SizesDeqCount ==
  ASSUME NEW a \in Nat, NEW b \in Nat, Sizes(a, b), NEW t \in Procs, DOMAIN pc = Procs,
         t = Consumer, pc[t] = "deqCount", pc' = [pc EXCEPT ![t] = "deqHead"], size' = size - 1
  PROVE  Sizes(a, b)'
<1>1. \A u \in Procs : u # t => pc'[u] = pc[u]
  OBVIOUS
<1> DEFINE Before(S) == Cardinality(Of(S, pc))
           After(S) == Cardinality(Of(S, pc'))
<1>2. \A S \in {Linking, Putting} :
        /\ IsFiniteSet(Of(S, pc')) /\ Before(S) \in Nat /\ After(S) \in Nat
        /\ (pc[t] \in S /\ pc'[t] \notin S => After(S) = Before(S) - 1)
        /\ (pc[t] \notin S /\ pc'[t] \in S => After(S) = Before(S) + 1)
        /\ ((pc[t] \in S <=> pc'[t] \in S) => After(S) = Before(S))
  BY <1>1, SizesMove
<1>3. After(Linking) = Before(Linking) /\ After(Putting) = Before(Putting)
      /\ pc'[Consumer] \in Taking /\ pc[Consumer] \notin Taking /\ pc'[Consumer] # "deqCount"
  BY <1>2 DEF Linking, Putting, WithNode, AllocPcs, Taking, BeforeCas
<1>4. size > 0
  BY DEF Sizes
<1> QED BY <1>2, <1>3, <1>4 DEF Sizes

\* The head moves: one less in the queue.
LEMMA SizesDeqCas ==
  ASSUME NEW a \in Nat, NEW b \in Nat, Sizes(a, b), NEW t \in Procs, DOMAIN pc = Procs,
         IsFiniteSet(Procs),
         t = Consumer, pc[t] = "deqCas", pc' = [pc EXCEPT ![t] = "free"], size' = size
  PROVE  Sizes(a + 1, b)'
<1>1. \A u \in Procs : u # t => pc'[u] = pc[u]
  OBVIOUS
<1> DEFINE Before(S) == Cardinality(Of(S, pc))
           After(S) == Cardinality(Of(S, pc'))
<1>2. \A S \in {Linking, Putting} :
        /\ IsFiniteSet(Of(S, pc')) /\ Before(S) \in Nat /\ After(S) \in Nat
        /\ (pc[t] \in S /\ pc'[t] \notin S => After(S) = Before(S) - 1)
        /\ (pc[t] \notin S /\ pc'[t] \in S => After(S) = Before(S) + 1)
        /\ ((pc[t] \in S <=> pc'[t] \in S) => After(S) = Before(S))
  BY <1>1, SizesMove
<1>3. After(Linking) = Before(Linking) /\ After(Putting) = Before(Putting)
      /\ pc'[Consumer] \notin Taking /\ pc[Consumer] \in Taking /\ pc'[Consumer] # "deqCount"
  BY <1>2 DEF Linking, Putting, WithNode, AllocPcs, Taking, BeforeCas
<1>4. Cardinality(Producers) \in Nat /\ MaxLen \in Nat
  <2>1. IsFiniteSet(Producers)
    BY FS_Subset DEF Producers
  <2> QED BY <2>1, FS_CardinalityType, QueueAssumption DEF QueueAssumption
<1>5. PICK e : e = MaxLen + Cardinality(Producers) /\ e \in Nat
  BY <1>4
<1>6. b - (a + 1) = b - a - 1 /\ b - a + Before(Putting) <= e
  BY <1>5 DEF Sizes
<1>7. b - (a + 1) + After(Putting) <= e
  BY <1>2, <1>3, <1>5, <1>6
<1> QED BY <1>2, <1>3, <1>5, <1>6, <1>7 DEF Sizes

-----------------------------------------------------------------------------
USE QueueAssumption DEF QueueAssumption, Producers, AllocPcs, FreePcs, EnqPcs, BeforeCas, WithTail, WithNode,
    Putting, Linking, Holding, Taking, HasHead, PoolRead, Jump, Call, vars, poolVars, enqVars, deqVars

\* A thread that holds nothing takes a node from where nobody holds it.
LEMMA Taken ==
  ASSUME NEW P, NEW Q, Owned(pc, held, blk, fresh, P, Q),
         NEW t \in Procs, NEW b \in fresh \cup P \cup Q, b \in Blocks,
         held[t] = {}, held'[t] = {b}, \A u \in Procs : u # t => held'[u] = held[u],
         fresh' = fresh \ {b},
         \A u \in Procs : u # t => pc'[u] = pc[u] /\ blk'[u] = blk[u],
         pc'[t] \in Holding, blk'[t] = b
  PROVE  Owned(pc', held', blk', fresh', P \ {b}, Q \ {b})
<1>1. held'[t] = {b} /\ \A u \in Procs : u # t => held'[u] = held[u]
  OBVIOUS
<1>2. \A u \in Procs : held'[u] = IF pc'[u] \in Holding THEN {blk'[u]} ELSE {}
  <2> TAKE u \in Procs
  <2>1. CASE u = t
    BY <1>1, <2>1
  <2>2. CASE u # t
    <3>1. held[u] = IF pc[u] \in Holding THEN {blk[u]} ELSE {}
      BY DEF Owned
    <3>2. held'[u] = held[u] /\ pc'[u] = pc[u] /\ blk'[u] = blk[u]
      BY <1>1, <2>2
    <3> QED BY <3>1, <3>2
  <2> QED BY <2>1, <2>2
<1>3. \A u \in Procs : pc'[u] \in Holding => blk'[u] \in Blocks
  BY DEF Owned
<1>4. \A u, w \in Procs : u # w => held'[u] \cap held'[w] = {}
  BY <1>1 DEF Owned
<1>5. \A u \in Procs : held'[u] \cap (fresh' \cup (P \ {b}) \cup (Q \ {b})) = {}
  BY <1>1 DEF Owned
<1>6. \A x \in Blocks : x \in fresh' \cup (P \ {b}) \cup (Q \ {b}) \/ \E u \in Procs : x \in held'[u]
  <2> TAKE x \in Blocks
  <2>1. CASE x = b
    BY <1>1, <2>1
  <2>2. CASE x # b
    <3>1. x \in fresh \cup P \cup Q \/ \E u \in Procs : u # t /\ x \in held[u]
      BY DEF Owned
    <3> QED BY <1>1, <2>2, <3>1
  <2> QED BY <2>1, <2>2
<1>7. fresh' \cap (P \ {b}) = {} /\ fresh' \cap (Q \ {b}) = {} /\ (P \ {b}) \cap (Q \ {b}) = {}
  BY DEF Owned
<1> QED BY <1>2, <1>3, <1>4, <1>5, <1>6, <1>7, Zenon DEF Owned

\* A thread gives what it holds to the pool or to the queue.
LEMMA Given ==
  ASSUME NEW P, NEW Q, Owned(pc, held, blk, fresh, P, Q),
         NEW P1, NEW Q1,
         NEW t \in Procs, NEW b, held[t] = {b},
         P1 \cup Q1 = P \cup Q \cup {b}, P1 \cap Q1 = {}, fresh' = fresh,
         held'[t] = {}, \A u \in Procs : u # t => held'[u] = held[u],
         \A u \in Procs : u # t => pc'[u] = pc[u] /\ blk'[u] = blk[u],
         pc'[t] \notin Holding
  PROVE  Owned(pc', held', blk', fresh', P1, Q1)
<1>1. held'[t] = {} /\ \A u \in Procs : u # t => held'[u] = held[u]
  OBVIOUS
<1>2. \A u \in Procs : held'[u] = IF pc'[u] \in Holding THEN {blk'[u]} ELSE {}
  <2> TAKE u \in Procs
  <2>1. CASE u = t
    BY <1>1, <2>1
  <2>2. CASE u # t
    <3>1. held[u] = IF pc[u] \in Holding THEN {blk[u]} ELSE {}
      BY DEF Owned
    <3>2. held'[u] = held[u] /\ pc'[u] = pc[u] /\ blk'[u] = blk[u]
      BY <1>1, <2>2
    <3> QED BY <3>1, <3>2
  <2> QED BY <2>1, <2>2
<1>3. \A u \in Procs : pc'[u] \in Holding => blk'[u] \in Blocks
  BY DEF Owned
<1>4. \A u, w \in Procs : u # w => held'[u] \cap held'[w] = {}
  BY <1>1 DEF Owned
<1>5. \A u \in Procs : held'[u] \cap (fresh \cup P1 \cup Q1) = {}
  BY <1>1 DEF Owned
<1>6. \A x \in Blocks : x \in fresh \cup P1 \cup Q1 \/ \E u \in Procs : x \in held'[u]
  <2> TAKE x \in Blocks
  <2>1. CASE x = b
    BY <2>1
  <2>2. CASE x # b
    BY <1>1, <2>2 DEF Owned
  <2> QED BY <2>1, <2>2
<1>7. fresh \cap P1 = {} /\ fresh \cap Q1 = {}
  BY DEF Owned
<1> QED BY <1>2, <1>3, <1>4, <1>5, <1>6, <1>7 DEF Owned

\* A tag is one of the values that are.
LEMMA TagIs ==
  ASSUME NEW n \in Nat
  PROVE  NextTag(n) \in 0 .. TagMod - 1
  BY PoolAssumption DEF PoolAssumption, NextTag

\* One step of a thread preserves the invariant: first the steps that leave the
\* queue and its nodes as they are.
LEMMA StepEnqRead ==
  ASSUME NEW t \in Producers, NEW m, NEW p, NEW a, NEW b, NEW q, NEW k,
         Good(m, p, a, b, q, k), Bounds,
         EnqRead(t), UNCHANGED putters
  PROVE  Good(m, p, a, b, q, k)'
<1>0. Alone' <=> Alone
  BY DEF Alone
<1>1. Types'
  BY DEF EnqRead, Good, Types, PoolTypeOK
<1>2. Roles(m)'
  BY <1>0 DEF EnqRead, Good, Types, Roles
<1>3. Sizes(a, b)'
  BY SizesStay DEF EnqRead, Good, Types
<1>4. Owned(pc, held, blk, fresh, Nodes(m, p), On(a, b, q))'
  BY DEF EnqRead, Good, Types, PoolTypeOK, Owned
<1>5. PoolLinks(m, p)'
  BY DEF EnqRead, Good, Types, PoolTypeOK, PoolLinks
<1>6. Ends(a, b, q, k)'
  BY DEF EnqRead, Good, Types, Ends
<1>7. Enqueues(a, b, q, k)'
  <2>1. k \in a .. k /\ Node(tail) = q[k]
    BY DEF Good, Ends, Path
  <2>2. AtTail("enqNext", tail, enqNext[t], nodeVal[t], tail, putters, a, b, q, k)
    BY <2>1 DEF AtTail
  <2> QED BY <2>2 DEF EnqRead, Good, Types, PoolTypeOK, Enqueues
<1>8. Dequeues(a, q)'
  BY DEF EnqRead, Good, Types, Dequeues
<1>9. Contents(a, b, q)'
  BY DEF EnqRead, Good, Types, PoolTypeOK, Contents
<1> QED BY <1>1, <1>2, <1>3, <1>4, <1>5, <1>6, <1>7, <1>8, <1>9 DEF Good

LEMMA StepEnqCount ==
  ASSUME NEW t \in Producers, NEW m, NEW p, NEW a, NEW b, NEW q, NEW k,
         Good(m, p, a, b, q, k), Bounds,
         EnqCount(t), UNCHANGED putters
  PROVE  Good(m, p, a, b, q, k)'
<1>0. Alone' <=> Alone
  BY DEF Alone
<1>1. Types'
  BY DEF EnqCount, Good, Types, PoolTypeOK
<1>2. Roles(m)'
  BY <1>0 DEF EnqCount, Good, Types, Roles
<1>3. Sizes(a, b)'
  <2>1. a \in Nat /\ b \in Nat /\ Sizes(a, b) /\ DOMAIN pc = Procs
    BY DEF Good, Types, Ends, Path
  <2> QED BY <2>1, SizesEnqCount DEF EnqCount
<1>4. Owned(pc, held, blk, fresh, Nodes(m, p), On(a, b, q))'
  BY DEF EnqCount, Good, Types, PoolTypeOK, Owned
<1>5. PoolLinks(m, p)'
  BY DEF EnqCount, Good, Types, PoolTypeOK, PoolLinks
<1>6. Ends(a, b, q, k)'
  BY DEF EnqCount, Good, Types, Ends
<1>7. Enqueues(a, b, q, k)'
  BY DEF EnqCount, Good, Types, PoolTypeOK, Enqueues
<1>8. Dequeues(a, q)'
  BY DEF EnqCount, Good, Types, Dequeues
<1>9. Contents(a, b, q)'
  BY DEF EnqCount, Good, Types, PoolTypeOK, Contents
<1> QED BY <1>1, <1>2, <1>3, <1>4, <1>5, <1>6, <1>7, <1>8, <1>9 DEF Good

LEMMA StepStartEnqueue ==
  ASSUME NEW t \in Producers, NEW m, NEW p, NEW a, NEW b, NEW q, NEW k,
         Good(m, p, a, b, q, k), Bounds,
         StartEnqueue(t), UNCHANGED putters
  PROVE  Good(m, p, a, b, q, k)'
<1>0. Alone' <=> Alone
  BY DEF Alone
<1>1. Types'
  BY DEF StartEnqueue, Good, Types, PoolTypeOK
<1>2. Roles(m)'
  BY <1>0 DEF StartEnqueue, Good, Types, Roles
<1>3. Sizes(a, b)'
  <2>1. a \in Nat /\ b \in Nat /\ Sizes(a, b) /\ DOMAIN pc = Procs /\ pc[Consumer] \notin Putting
    BY DEF Good, Types, Roles, Ends, Path
  <2>2. Len(Linked) = b - a
    BY LinkedIs, Zenon DEF Good, Ends
  <2> QED BY <2>1, <2>2, SizesStartEnqueue DEF StartEnqueue, Bounds
<1>4. Owned(pc, held, blk, fresh, Nodes(m, p), On(a, b, q))'
  BY DEF StartEnqueue, Good, Types, PoolTypeOK, Owned
<1>5. PoolLinks(m, p)'
  BY DEF StartEnqueue, Good, Types, PoolTypeOK, PoolLinks
<1>6. Ends(a, b, q, k)'
  BY DEF StartEnqueue, Good, Types, Ends
<1>7. Enqueues(a, b, q, k)'
  BY DEF StartEnqueue, Good, Types, PoolTypeOK, Enqueues
<1>8. Dequeues(a, q)'
  BY DEF StartEnqueue, Good, Types, Dequeues
<1>9. Contents(a, b, q)'
  BY DEF StartEnqueue, Good, Types, PoolTypeOK, Contents
<1> QED BY <1>1, <1>2, <1>3, <1>4, <1>5, <1>6, <1>7, <1>8, <1>9 DEF Good

LEMMA StepStartDequeue ==
  ASSUME NEW t \in Procs, NEW m, NEW p, NEW a, NEW b, NEW q, NEW k,
         Good(m, p, a, b, q, k), Bounds,
         StartDequeue(t), UNCHANGED putters, t = Consumer
  PROVE  Good(m, p, a, b, q, k)'
<1>0. Alone' <=> Alone
  BY DEF Alone
<1>1. Types'
  BY DEF StartDequeue, Good, Types, PoolTypeOK
<1>2. Roles(m)'
  <2>1. IsFiniteSet(putters) /\ Cardinality(putters) = 1
    BY FS_Subset DEF StartDequeue, Good, Roles, Bounds
  <2>2. Alone
    BY <2>1, FS_Singleton DEF Alone
  <2> QED BY <1>0, <2>2 DEF StartDequeue, Good, Types, Roles
<1>3. Sizes(a, b)'
  <2>1. a \in Nat /\ b \in Nat /\ Sizes(a, b) /\ DOMAIN pc = Procs
    BY DEF Good, Types, Ends, Path
  <2> QED BY <2>1, SizesStartDequeue DEF StartDequeue
<1>4. Owned(pc, held, blk, fresh, Nodes(m, p), On(a, b, q))'
  BY DEF StartDequeue, Good, Types, PoolTypeOK, Owned
<1>5. PoolLinks(m, p)'
  BY DEF StartDequeue, Good, Types, PoolTypeOK, PoolLinks
<1>6. Ends(a, b, q, k)'
  BY DEF StartDequeue, Good, Types, Ends
<1>7. Enqueues(a, b, q, k)'
  BY DEF StartDequeue, Good, Types, PoolTypeOK, Enqueues
<1>8. Dequeues(a, q)'
  BY DEF StartDequeue, Good, Types, Dequeues
<1>9. Contents(a, b, q)'
  BY DEF StartDequeue, Good, Types, PoolTypeOK, Contents
<1> QED BY <1>1, <1>2, <1>3, <1>4, <1>5, <1>6, <1>7, <1>8, <1>9 DEF Good

LEMMA StepDeqCount ==
  ASSUME NEW t \in Procs, NEW m, NEW p, NEW a, NEW b, NEW q, NEW k,
         Good(m, p, a, b, q, k), Bounds,
         DeqCount(t), UNCHANGED putters, t = Consumer
  PROVE  Good(m, p, a, b, q, k)'
<1>0. Alone' <=> Alone
  BY DEF Alone
<1>a. /\ pc[t] = "deqCount" /\ pc' = [pc EXCEPT ![t] = "deqHead"] /\ size' = size - 1 /\ ret' = ret
      /\ UNCHANGED <<poolVars, head, headId, tail, tailId, next, data, enqVars, deqVars,
                     putters>>
  BY DEF DeqCount, Good, Sizes
<1>1. Types'
  BY <1>a DEF Good, Types, PoolTypeOK
<1>2. Roles(m)'
  BY <1>0, <1>a DEF Good, Types, Roles
<1>3. Sizes(a, b)'
  <2>1. a \in Nat /\ b \in Nat /\ Sizes(a, b) /\ DOMAIN pc = Procs
    BY DEF Good, Types, Ends, Path
  <2> QED BY <1>a, <2>1, SizesDeqCount
<1>4. Owned(pc, held, blk, fresh, Nodes(m, p), On(a, b, q))'
  BY <1>a DEF Good, Types, PoolTypeOK, Owned
<1>5. PoolLinks(m, p)'
  BY <1>a DEF Good, Types, PoolTypeOK, PoolLinks
<1>6. Ends(a, b, q, k)'
  BY <1>a DEF Good, Types, Ends
<1>7. Enqueues(a, b, q, k)'
  BY <1>a DEF Good, Types, PoolTypeOK, Enqueues
<1>8. Dequeues(a, q)'
  BY <1>a DEF Good, Types, Dequeues
<1>9. Contents(a, b, q)'
  BY <1>a DEF Good, Types, PoolTypeOK, Contents
<1> QED BY <1>1, <1>2, <1>3, <1>4, <1>5, <1>6, <1>7, <1>8, <1>9 DEF Good

LEMMA StepDeqHead ==
  ASSUME NEW t \in Procs, NEW m, NEW p, NEW a, NEW b, NEW q, NEW k,
         Good(m, p, a, b, q, k), Bounds,
         DeqHead(t), UNCHANGED putters, t = Consumer
  PROVE  Good(m, p, a, b, q, k)'
<1>0. Alone' <=> Alone
  BY DEF Alone
<1>1. Types'
  BY DEF DeqHead, Good, Types, PoolTypeOK
<1>2. Roles(m)'
  BY <1>0 DEF DeqHead, Good, Types, Roles
<1>3. Sizes(a, b)'
  BY SizesStay DEF DeqHead, Good, Types
<1>4. Owned(pc, held, blk, fresh, Nodes(m, p), On(a, b, q))'
  BY DEF DeqHead, Good, Types, PoolTypeOK, Owned
<1>5. PoolLinks(m, p)'
  BY DEF DeqHead, Good, Types, PoolTypeOK, PoolLinks
<1>6. Ends(a, b, q, k)'
  BY DEF DeqHead, Good, Types, Ends
<1>7. Enqueues(a, b, q, k)'
  BY DEF DeqHead, Good, Types, PoolTypeOK, Enqueues
<1>8. Dequeues(a, q)'
  BY DEF DeqHead, Good, Types, Dequeues
<1>9. Contents(a, b, q)'
  BY DEF DeqHead, Good, Types, PoolTypeOK, Contents
<1> QED BY <1>1, <1>2, <1>3, <1>4, <1>5, <1>6, <1>7, <1>8, <1>9 DEF Good

\* Where the consumer takes, the tail has passed the head.
LEMMA TailAhead ==
  ASSUME NEW m, NEW p, NEW a, NEW b, NEW q, NEW k,
         Good(m, p, a, b, q, k), pc[Consumer] \in Taking
  PROVE  /\ a \in Nat /\ b \in Nat /\ k \in Nat /\ a + 1 <= k /\ k <= b /\ a + 1 \in a .. b
         /\ Node(tail) = q[k] /\ Node(head) = q[a] /\ q[k] # q[a]
<1>1. a \in Nat /\ b \in Nat /\ k \in a .. b /\ b - 1 <= k /\ q[a] = Node(head) /\ Node(tail) = q[k]
      /\ \A i, j \in a .. b : q[i] = q[j] => i = j
  BY DEF Good, Ends, Path
<1>2. PICK s : s = Cardinality(Of(Linking, pc)) /\ s \in Nat /\ size + s + 1 = b - a /\ size \in Nat
  BY FS_CardinalityType DEF Good, Sizes
<1>3. CASE k = b
  BY <1>1, <1>2, <1>3
<1>4. CASE k # b
  <2>1. PICK t \in Producers : pc[t] = "enqSwing"
    BY <1>4 DEF Good, Ends
  <2>2. t \in Of(Linking, pc) /\ IsFiniteSet(Of(Linking, pc))
    BY <2>1 DEF Of, Good, Sizes
  <2>3. s # 0
    BY <1>2, <2>2, FS_EmptySet
  <2> QED BY <1>1, <1>2, <1>4, <2>3
<1> QED BY <1>3, <1>4

LEMMA StepDeqTail ==
  ASSUME NEW t \in Procs, NEW m, NEW p, NEW a, NEW b, NEW q, NEW k,
         Good(m, p, a, b, q, k), Bounds,
         DeqTail(t), UNCHANGED putters, t = Consumer
  PROVE  Good(m, p, a, b, q, k)'
<1>0. Alone' <=> Alone
  BY DEF Alone
<1>1. Types'
  BY DEF DeqTail, Good, Types, PoolTypeOK
<1>2. Roles(m)'
  BY <1>0 DEF DeqTail, Good, Types, Roles
<1>3. Sizes(a, b)'
  BY SizesStay DEF DeqTail, Good, Types
<1>4. Owned(pc, held, blk, fresh, Nodes(m, p), On(a, b, q))'
  BY DEF DeqTail, Good, Types, PoolTypeOK, Owned
<1>5. PoolLinks(m, p)'
  BY DEF DeqTail, Good, Types, PoolTypeOK, PoolLinks
<1>6. Ends(a, b, q, k)'
  BY DEF DeqTail, Good, Types, Ends
<1>7. Enqueues(a, b, q, k)'
  BY DEF DeqTail, Good, Types, PoolTypeOK, Enqueues
<1>8. Dequeues(a, q)'
  <2>1. Node(tail) # Node(head)
    BY TailAhead DEF DeqTail
  <2> QED BY <2>1 DEF DeqTail, Good, Types, Dequeues
<1>9. Contents(a, b, q)'
  BY DEF DeqTail, Good, Types, PoolTypeOK, Contents
<1> QED BY <1>1, <1>2, <1>3, <1>4, <1>5, <1>6, <1>7, <1>8, <1>9 DEF Good

LEMMA StepDeqNext ==
  ASSUME NEW t \in Procs, NEW m, NEW p, NEW a, NEW b, NEW q, NEW k,
         Good(m, p, a, b, q, k), Bounds,
         DeqNext(t), UNCHANGED putters, t = Consumer
  PROVE  Good(m, p, a, b, q, k)'
<1>0. Alone' <=> Alone
  BY DEF Alone
<1>a. next[Node(head)] = q[a + 1] /\ q[a + 1] \in Blocks /\ q[a + 1] # Null
  <2>1. pc[Consumer] \in Taking
    BY DEF DeqNext
  <2>2. a \in a .. b /\ a # b /\ a + 1 \in a .. b /\ Node(head) = q[a]
    BY <2>1, TailAhead
  <2>3. Path(Node(head), next, a, b, q)
    BY DEF Good, Ends
  <2> QED BY <2>2, <2>3, PathEnds
<1>b. /\ pc[t] = "deqNext" /\ pc' = [pc EXCEPT ![t] = "deqData"] /\ ret' = ret /\ headNext' = q[a + 1]
      /\ UNCHANGED <<poolVars, head, headId, tail, tailId, size, next, data, enqVars, headVal,
                     tailVal, newHead,
                     taken, putters>>
  BY <1>a DEF DeqNext, Good, Dequeues
<1>1. Types'
  BY <1>a, <1>b DEF Good, Types, PoolTypeOK
<1>2. Roles(m)'
  BY <1>0, <1>a, <1>b DEF Good, Types, Roles
<1>3. Sizes(a, b)'
  BY <1>a, <1>b, SizesStay DEF Good, Types
<1>4. Owned(pc, held, blk, fresh, Nodes(m, p), On(a, b, q))'
  BY <1>a, <1>b DEF Good, Types, PoolTypeOK, Owned
<1>5. PoolLinks(m, p)'
  BY <1>a, <1>b DEF Good, Types, PoolTypeOK, PoolLinks
<1>6. Ends(a, b, q, k)'
  BY <1>a, <1>b DEF Good, Types, Ends
<1>7. Enqueues(a, b, q, k)'
  BY <1>a, <1>b DEF Good, Types, PoolTypeOK, Enqueues
<1>8. Dequeues(a, q)'
  BY <1>a, <1>b DEF Good, Types, Dequeues
<1>9. Contents(a, b, q)'
  BY <1>a, <1>b DEF Good, Types, PoolTypeOK, Contents
<1> QED BY <1>1, <1>2, <1>3, <1>4, <1>5, <1>6, <1>7, <1>8, <1>9 DEF Good

\* Dequeue reads the data of the node after the dummy, which nobody writes.
LEMMA StepDeqData ==
  ASSUME NEW t \in Procs, NEW m, NEW p, NEW a, NEW b, NEW q, NEW k,
         Good(m, p, a, b, q, k), Bounds,
         DeqData(t), UNCHANGED putters, t = Consumer
  PROVE  Good(m, p, a, b, q, k)'
<1>0. Alone' <=> Alone
  BY DEF Alone
<1>a. /\ pc[t] = "deqData" /\ pc' = [pc EXCEPT ![t] = "deqCas"] /\ ret' = ret
      /\ headId' = NextTag(headId) /\ newHead' = <<headId', headNext>> /\ taken' = data[headNext]
      /\ UNCHANGED <<poolVars, head, tail, tailId, size, next, data, enqVars, headVal, tailVal,
                     headNext, putters>>
  BY DEF DeqData, DeqDataOf
<1>b. headNext = q[a + 1] /\ headNext \in Blocks
  <2>1. pc[Consumer] \in Taking
    BY <1>a
  <2>2. a + 1 \in a .. b
    BY <2>1, TailAhead
  <2> QED BY <1>a, <2>2 DEF Good, Dequeues, Ends, Path
<1>c. headId' \in 0 .. TagMod - 1
  BY <1>a, TagIs DEF Good, Types
<1>1. Types'
  <2>1. newHead' \in Values
    BY <1>a, <1>b, <1>c DEF Values
  <2> QED BY <1>a, <1>b, <1>c, <2>1 DEF Good, Types, PoolTypeOK
<1>2. Roles(m)'
  BY <1>0, <1>a, <1>b DEF Good, Types, Roles
<1>3. Sizes(a, b)'
  BY <1>a, <1>b, SizesStay DEF Good, Types
<1>4. Owned(pc, held, blk, fresh, Nodes(m, p), On(a, b, q))'
  BY <1>a, <1>b DEF Good, Types, PoolTypeOK, Owned
<1>5. PoolLinks(m, p)'
  BY <1>a, <1>b DEF Good, Types, PoolTypeOK, PoolLinks
<1>6. Ends(a, b, q, k)'
  BY <1>a, <1>b DEF Good, Types, Ends
<1>7. Enqueues(a, b, q, k)'
  BY <1>a, <1>b DEF Good, Types, PoolTypeOK, Enqueues
<1>8. Dequeues(a, q)'
  BY <1>a, <1>b DEF Good, Types, Dequeues, Node
<1>9. Contents(a, b, q)'
  BY <1>a, <1>b DEF Good, Types, PoolTypeOK, Contents
<1> QED BY <1>1, <1>2, <1>3, <1>4, <1>5, <1>6, <1>7, <1>8, <1>9 DEF Good

\* The node a thread holds is in no list, nor held by another.
LEMMA Held ==
  ASSUME NEW m, NEW p, NEW a, NEW b, NEW q, NEW k, Good(m, p, a, b, q, k),
         NEW t \in Procs, pc[t] \in Holding
  PROVE  /\ blk[t] \in Blocks /\ held[t] = {blk[t]}
         /\ blk[t] \notin Nodes(m, p) /\ blk[t] \notin On(a, b, q) /\ \A i \in a .. b : q[i] # blk[t]
         /\ \A u \in Procs : u # t /\ pc[u] \in Holding => blk[u] # blk[t]
<1>1. held[t] = {blk[t]} /\ blk[t] \in Blocks /\ \A u \in Procs : pc[u] \in Holding => held[u] = {blk[u]}
  BY DEF Good, Owned
<1>2. blk[t] \notin Nodes(m, p) /\ blk[t] \notin On(a, b, q)
  BY <1>1 DEF Good, Owned
<1>3. \A u \in Procs : u # t => held[t] \cap held[u] = {}
  BY DEF Good, Owned
<1> HIDE DEF Holding
<1>4. \A u \in Procs : u # t /\ pc[u] \in Holding => blk[u] # blk[t]
  BY <1>1, <1>3
<1>5. \A i \in a .. b : q[i] # blk[t]
  BY <1>2 DEF On
<1> QED BY <1>1, <1>2, <1>4, <1>5

\* Enqueue writes to its own node.
LEMMA StepEnqInit ==
  ASSUME NEW t \in Producers, NEW m, NEW p, NEW a, NEW b, NEW q, NEW k,
         Good(m, p, a, b, q, k), Bounds,
         EnqInit(t), UNCHANGED putters
  PROVE  Good(m, p, a, b, q, k)'
<1>0. Alone' <=> Alone
  BY DEF Alone
<1>a. /\ pc[t] = "enqInit" /\ pc' = [pc EXCEPT ![t] = "enqRead"] /\ ret' = ret
      /\ data' = [data EXCEPT ![blk[t]] = item[t]] /\ next' = [next EXCEPT ![blk[t]] = Null]
      /\ tailId' = NextTag(tailId) /\ nodeVal' = [nodeVal EXCEPT ![t] = <<tailId', blk[t]>>]
      /\ UNCHANGED <<poolVars, head, headId, tail, size, item, enqTail, enqNext, deqVars,
                     putters>>
  BY DEF EnqInit
<1>b. blk[t] \in Blocks /\ (\A i \in a .. b : q[i] # blk[t])
      /\ \A u \in Procs : u # t /\ pc[u] \in Holding => blk[u] # blk[t]
  BY <1>a, Held
<1>c. tailId' \in 0 .. TagMod - 1 /\ <<tailId', blk[t]>> \in Values /\ item[t] \in Items
  <2>1. tailId' \in 0 .. TagMod - 1 /\ item[t] \in Items
    BY <1>a, TagIs DEF Good, Types, Contents
  <2> QED BY <1>b, <2>1 DEF Values
<1>d. a \in Nat /\ b \in Nat
  BY DEF Good, Ends, Path
<1>1. Types'
  BY <1>a, <1>b, <1>c DEF Good, Types, PoolTypeOK
<1>2. Roles(m)'
  BY <1>0, <1>a, <1>b, <1>c DEF Good, Types, Roles
<1>3. Sizes(a, b)'
  BY <1>a, <1>b, <1>c, SizesStay DEF Good, Types
<1>4. Owned(pc, held, blk, fresh, Nodes(m, p), On(a, b, q))'
  BY <1>a, <1>b, <1>c DEF Good, Types, PoolTypeOK, Owned
<1>5. PoolLinks(m, p)'
  BY <1>a, <1>b, <1>c DEF Good, Types, PoolTypeOK, PoolLinks
<1>6. Ends(a, b, q, k)'
  <2>1. \A x \in On(a, b, q) : next'[x] = next[x]
    BY <1>a, <1>b DEF On
  <2>2. Path(Node(head), next, a, b, q)
    BY DEF Good, Ends
  <2>3. Path(Node(head), next, a, b, q)'
    BY <1>a, <2>1, <2>2, PathWrite
  <2> QED BY <1>a, <2>3 DEF Good, Types, Ends
<1>7. Enqueues(a, b, q, k)'
  BY <1>a, <1>b DEF Good, Types, PoolTypeOK, Enqueues, Node
<1>8. Dequeues(a, q)'
  BY <1>a, <1>b, <1>c DEF Good, Types, Dequeues
<1>9. Contents(a, b, q)'
  <2>1. \A i \in a + 1 .. b : i \in a .. b
    BY <1>d
  <2>2. pc[Consumer] = "deqCas" => a + 1 \in a .. b
    BY TailAhead
  <2> QED BY <1>a, <1>b, <1>c, <2>1, <2>2 DEF Good, Types, PoolTypeOK, Contents
<1> QED BY <1>1, <1>2, <1>3, <1>4, <1>5, <1>6, <1>7, <1>8, <1>9 DEF Good

\* Enqueue reads the link of the tail's node: Null if that is the last one.
LEMMA StepEnqNext ==
  ASSUME NEW t \in Producers, NEW m, NEW p, NEW a, NEW b, NEW q, NEW k,
         Good(m, p, a, b, q, k), Bounds,
         EnqNext(t), UNCHANGED putters
  PROVE  Good(m, p, a, b, q, k)'
<1>0. Alone' <=> Alone
  BY DEF Alone
<1>a. AtTail(pc[t], enqTail[t], enqNext[t], nodeVal[t], tail, putters, a, b, q, k) /\ pc[t] = "enqNext"
  BY DEF EnqNext, Good, Enqueues
<1>b. PICK j \in a .. k : /\ Node(enqTail[t]) = q[j] /\ (j = k => enqTail[t] = tail)
                          /\ (\A v, u \in putters : v = u) => j = k
  BY <1>a DEF AtTail
<1>c. j \in a .. b /\ q[j] \in Blocks /\ (next[q[j]] # Null => j + 1 \in a .. b /\ next[q[j]] = q[j + 1])
  <2>1. j \in a .. b /\ Path(Node(head), next, a, b, q)
    BY DEF Good, Ends, Path
  <2> QED BY <2>1, PathEnds
<1>d. /\ pc' = [pc EXCEPT ![t] = IF next[q[j]] = Null THEN "enqLink" ELSE "enqHelp"] /\ ret' = ret
      /\ enqNext' = [enqNext EXCEPT ![t] = next[q[j]]]
      /\ UNCHANGED <<poolVars, head, headId, tail, tailId, size, next, data, item, nodeVal,
                     enqTail, deqVars,
                     putters>>
  BY <1>b DEF EnqNext, Good, Types
<1>e. PICK l : l = (IF next[q[j]] = Null THEN "enqLink" ELSE "enqHelp")
  OBVIOUS
<1>f. pc' = [pc EXCEPT ![t] = l] /\ l \in {"enqLink", "enqHelp"} /\ (l = "enqHelp" => next[q[j]] # Null)
  BY <1>d, <1>e
<1>1. Types'
  BY <1>a, <1>d, <1>f DEF Good, Types, PoolTypeOK
<1>2. Roles(m)'
  BY <1>0, <1>a, <1>d, <1>f DEF Good, Types, Roles
<1>3. Sizes(a, b)'
  BY <1>a, <1>d, <1>f, SizesStay DEF Good, Types
<1>4. Owned(pc, held, blk, fresh, Nodes(m, p), On(a, b, q))'
  BY <1>a, <1>d, <1>f DEF Good, Types, PoolTypeOK, Owned
<1>5. PoolLinks(m, p)'
  BY <1>a, <1>d, <1>f DEF Good, Types, PoolTypeOK, PoolLinks
<1>6. Ends(a, b, q, k)'
  BY <1>a, <1>d, <1>f DEF Good, Types, Ends
<1>7. Enqueues(a, b, q, k)'
  <2>1. b \in Nat /\ a \in Nat
    BY DEF Good, Ends, Path
  <2>2. AtTail(l, enqTail[t], next[q[j]], nodeVal[t], tail, putters, a, b, q, k)
    BY <1>b, <1>c, <1>f, <2>1 DEF AtTail
  <2> QED BY <1>a, <1>d, <1>f, <2>2 DEF Good, Types, Enqueues
<1>8. Dequeues(a, q)'
  BY <1>a, <1>d, <1>f DEF Good, Types, Dequeues
<1>9. Contents(a, b, q)'
  BY <1>a, <1>d, <1>f DEF Good, Types, PoolTypeOK, Contents
<1> QED BY <1>1, <1>2, <1>3, <1>4, <1>5, <1>6, <1>7, <1>8, <1>9 DEF Good

\* A putter helps the tail on, or comes too late.
LEMMA StepEnqHelpMoves ==
  ASSUME NEW t \in Producers, NEW m, NEW p, NEW a, NEW b, NEW q, NEW k,
         Good(m, p, a, b, q, k), Bounds,
         EnqHelp(t), UNCHANGED putters, tail = enqTail[t]
  PROVE  Good(m, p, a, b, q, b)'
<1>0. Alone' <=> Alone
  BY DEF Alone
<1>a. AtTail(pc[t], enqTail[t], enqNext[t], nodeVal[t], tail, putters, a, b, q, k) /\ pc[t] = "enqHelp"
  BY DEF EnqHelp, Good, Enqueues
<1>b. PICK j \in a .. k : Node(enqTail[t]) = q[j] /\ j < b /\ enqNext[t] = q[j + 1]
  BY <1>a DEF AtTail
<1>c. /\ a \in Nat /\ b \in Nat /\ k \in a .. b /\ b - 1 <= k /\ Node(tail) = q[k] /\ j \in a .. b
      /\ (\A i \in a .. b : q[i] \in Blocks) /\ \A i, n \in a .. b : q[i] = q[n] => i = n
  BY DEF Good, Ends, Path

<1>d. j = k /\ k + 1 = b /\ k # b /\ b \in a .. b
  BY <1>b, <1>c
<1>e. /\ pc' = [pc EXCEPT ![t] = "enqRead"] /\ ret' = ret /\ tailId' = NextTag(tailId)
      /\ tail' = <<tailId', enqNext[t]>> /\ enqNext[t] = q[b] /\ q[b] \in Blocks
      /\ UNCHANGED <<poolVars, head, headId, size, next, data, enqVars, deqVars, putters>>
  BY <1>b, <1>c, <1>d DEF EnqHelp
<1>f. tailId' \in 0 .. TagMod - 1 /\ tail' \in Values
  <2>1. tailId' \in 0 .. TagMod - 1
    BY <1>e, TagIs DEF Good, Types
  <2> QED BY <1>e, <2>1 DEF Values
\* the putter that lags behind is another one
<1>g. ~ (\A v, u \in putters : v = u)
  <2>1. PICK u \in Producers : pc[u] = "enqSwing"
    BY <1>d DEF Good, Ends
  <2> QED BY <1>a, <2>1 DEF Good, Roles
<1>1. Types'
  BY <1>a, <1>e, <1>f DEF Good, Types, PoolTypeOK
<1>2. Roles(m)'
  BY <1>0, <1>a, <1>e, <1>f DEF Good, Types, Roles
<1>3. Sizes(a, b)'
  BY <1>a, <1>e, <1>f, SizesStay DEF Good, Types
<1>4. Owned(pc, held, blk, fresh, Nodes(m, p), On(a, b, q))'
  BY <1>a, <1>e, <1>f DEF Good, Types, PoolTypeOK, Owned
<1>5. PoolLinks(m, p)'
  BY <1>a, <1>e, <1>f DEF Good, Types, PoolTypeOK, PoolLinks
<1>6. Ends(a, b, q, b)'
  BY <1>c, <1>d, <1>e DEF Good, Types, Ends, Node
<1>7. Enqueues(a, b, q, b)'
  <2>1. ASSUME NEW l, NEW v, NEW w, NEW x, AtTail(l, v, w, x, tail, putters, a, b, q, k)
        PROVE  AtTail(l, v, w, x, tail', putters, a, b, q, b)
    <3>1. PICK i \in a .. k : /\ Node(v) = q[i]
                              /\ l = "enqHelp" => i < b /\ w = q[i + 1]
                              /\ l = "enqSwing" => i < b /\ Node(x) = q[i + 1]
      BY <2>1 DEF AtTail
    <3>2. i \in a .. b /\ i # b
      BY <1>c, <1>d
    <3> QED BY <1>g, <3>1, <3>2 DEF AtTail
  <2> QED BY <1>a, <1>e, <2>1 DEF Good, Types, Enqueues
<1>8. Dequeues(a, q)'
  BY <1>a, <1>e, <1>f DEF Good, Types, Dequeues
<1>9. Contents(a, b, q)'
  BY <1>a, <1>e, <1>f DEF Good, Types, PoolTypeOK, Contents
<1> QED BY <1>1, <1>2, <1>3, <1>4, <1>5, <1>6, <1>7, <1>8, <1>9 DEF Good

LEMMA StepEnqHelpLate ==
  ASSUME NEW t \in Producers, NEW m, NEW p, NEW a, NEW b, NEW q, NEW k,
         Good(m, p, a, b, q, k), Bounds,
         EnqHelp(t), UNCHANGED putters, tail # enqTail[t]
  PROVE  Good(m, p, a, b, q, k)'
<1>0. Alone' <=> Alone
  BY DEF Alone
<1>e. /\ pc[t] = "enqHelp" /\ pc' = [pc EXCEPT ![t] = "enqRead"] /\ ret' = ret /\ tailId' = NextTag(tailId)
      /\ UNCHANGED <<poolVars, head, headId, tail, size, next, data, enqVars, deqVars, putters>>
  BY DEF EnqHelp
<1>f. tailId' \in 0 .. TagMod - 1
  BY <1>e, TagIs DEF Good, Types
<1>1. Types'
  BY <1>e, <1>f DEF Good, Types, PoolTypeOK
<1>2. Roles(m)'
  BY <1>0, <1>e, <1>f DEF Good, Types, Roles
<1>3. Sizes(a, b)'
  BY <1>e, <1>f, SizesStay DEF Good, Types
<1>4. Owned(pc, held, blk, fresh, Nodes(m, p), On(a, b, q))'
  BY <1>e, <1>f DEF Good, Types, PoolTypeOK, Owned
<1>5. PoolLinks(m, p)'
  BY <1>e, <1>f DEF Good, Types, PoolTypeOK, PoolLinks
<1>6. Ends(a, b, q, k)'
  BY <1>e, <1>f DEF Good, Types, Ends
<1>7. Enqueues(a, b, q, k)'
  BY <1>e, <1>f DEF Good, Types, PoolTypeOK, Enqueues
<1>8. Dequeues(a, q)'
  BY <1>e, <1>f DEF Good, Types, Dequeues
<1>9. Contents(a, b, q)'
  BY <1>e, <1>f DEF Good, Types, PoolTypeOK, Contents
<1> QED BY <1>1, <1>2, <1>3, <1>4, <1>5, <1>6, <1>7, <1>8, <1>9 DEF Good

\* So does the one whose node it is.
LEMMA StepEnqSwingMoves ==
  ASSUME NEW t \in Producers, NEW m, NEW p, NEW a, NEW b, NEW q, NEW k,
         Good(m, p, a, b, q, k), Bounds,
         EnqSwing(t), UNCHANGED putters, tail = enqTail[t]
  PROVE  Good(m, p, a, b, q, b)'
<1>0. Alone' <=> Alone
  BY DEF Alone
<1>a. AtTail(pc[t], enqTail[t], enqNext[t], nodeVal[t], tail, putters, a, b, q, k) /\ pc[t] = "enqSwing"
  BY DEF EnqSwing, EnqSwingIf, Good, Enqueues
<1>b. PICK j \in a .. k : Node(enqTail[t]) = q[j] /\ j < b /\ Node(nodeVal[t]) = q[j + 1]
  BY <1>a DEF AtTail
<1>c. /\ a \in Nat /\ b \in Nat /\ k \in a .. b /\ b - 1 <= k /\ Node(tail) = q[k] /\ j \in a .. b
      /\ (\A i \in a .. b : q[i] \in Blocks) /\ \A i, n \in a .. b : q[i] = q[n] => i = n
  BY DEF Good, Ends, Path

<1>d. j = k /\ k + 1 = b /\ k # b /\ b \in a .. b
  BY <1>b, <1>c
<1>e. /\ pc' = [pc EXCEPT ![t] = "enqCount"] /\ ret' = ret
      /\ tail' = nodeVal[t] /\ Node(nodeVal[t]) = q[b] /\ nodeVal[t] \in Values
      /\ UNCHANGED <<poolVars, head, headId, tailId, size, next, data, enqVars, deqVars,
                     putters>>
  BY <1>b, <1>c, <1>d DEF EnqSwing, EnqSwingIf, Good, Types
<1>g. \A u \in Producers : pc[u] \in WithTail /\ u # t => ~ (\A v, w \in putters : v = w)
  BY <1>a DEF Good, Roles
<1>1. Types'
  BY <1>a, <1>e DEF Good, Types, PoolTypeOK
<1>2. Roles(m)'
  BY <1>0, <1>a, <1>e DEF Good, Types, Roles
<1>3. Sizes(a, b)'
  BY <1>a, <1>e, SizesStay DEF Good, Types
<1>4. Owned(pc, held, blk, fresh, Nodes(m, p), On(a, b, q))'
  BY <1>a, <1>e DEF Good, Types, PoolTypeOK, Owned
<1>5. PoolLinks(m, p)'
  BY <1>a, <1>e DEF Good, Types, PoolTypeOK, PoolLinks
<1>6. Ends(a, b, q, b)'
  BY <1>c, <1>d, <1>e DEF Good, Types, Ends
<1>7. Enqueues(a, b, q, b)'
  <2>1. ASSUME NEW l, NEW v, NEW w, NEW x, AtTail(l, v, w, x, tail, putters, a, b, q, k),
               ~ (\A u1, u2 \in putters : u1 = u2)
        PROVE  AtTail(l, v, w, x, tail', putters, a, b, q, b)
    <3>1. PICK i \in a .. k : /\ Node(v) = q[i]
                              /\ l = "enqHelp" => i < b /\ w = q[i + 1]
                              /\ l = "enqSwing" => i < b /\ Node(x) = q[i + 1]
      BY <2>1 DEF AtTail
    <3>2. i \in a .. b /\ i # b
      BY <1>c, <1>d
    <3> QED BY <2>1, <3>1, <3>2 DEF AtTail
  <2>2. \A u \in Producers : pc[u] \in WithTail /\ u # t =>
          AtTail(pc[u], enqTail[u], enqNext[u], nodeVal[u], tail', putters, a, b, q, b)
    BY <1>g, <2>1 DEF Good, Enqueues
  <2> QED BY <1>a, <1>e, <2>2 DEF Good, Types, Enqueues
<1>8. Dequeues(a, q)'
  BY <1>a, <1>e DEF Good, Types, Dequeues
<1>9. Contents(a, b, q)'
  BY <1>a, <1>e DEF Good, Types, PoolTypeOK, Contents
<1> QED BY <1>1, <1>2, <1>3, <1>4, <1>5, <1>6, <1>7, <1>8, <1>9 DEF Good

LEMMA StepEnqSwingLate ==
  ASSUME NEW t \in Producers, NEW m, NEW p, NEW a, NEW b, NEW q, NEW k,
         Good(m, p, a, b, q, k), Bounds,
         EnqSwing(t), UNCHANGED putters, tail # enqTail[t]
  PROVE  Good(m, p, a, b, q, k)'
<1>0. Alone' <=> Alone
  BY DEF Alone
<1>e. /\ pc[t] = "enqSwing" /\ pc' = [pc EXCEPT ![t] = "enqCount"] /\ ret' = ret
      /\ UNCHANGED <<poolVars, head, headId, tail, tailId, size, next, data, enqVars, deqVars,
                     putters>>
  BY DEF EnqSwing, EnqSwingIf
<1>1. Types'
  BY <1>e DEF Good, Types, PoolTypeOK
<1>2. Roles(m)'
  BY <1>0, <1>e DEF Good, Types, Roles
<1>3. Sizes(a, b)'
  BY <1>e, SizesStay DEF Good, Types
<1>4. Owned(pc, held, blk, fresh, Nodes(m, p), On(a, b, q))'
  BY <1>e DEF Good, Types, PoolTypeOK, Owned
<1>5. PoolLinks(m, p)'
  BY <1>e DEF Good, Types, PoolTypeOK, PoolLinks
<1>6. Ends(a, b, q, k)'
  BY <1>e DEF Good, Types, Ends
<1>7. Enqueues(a, b, q, k)'
  BY <1>e DEF Good, Types, PoolTypeOK, Enqueues
<1>8. Dequeues(a, q)'
  BY <1>e DEF Good, Types, Dequeues
<1>9. Contents(a, b, q)'
  BY <1>e DEF Good, Types, PoolTypeOK, Contents
<1> QED BY <1>1, <1>2, <1>3, <1>4, <1>5, <1>6, <1>7, <1>8, <1>9 DEF Good

\* The first exchange of Enqueue fails: someone else linked there.
LEMMA StepEnqLinkFails ==
  ASSUME NEW t \in Producers, NEW m, NEW p, NEW a, NEW b, NEW q, NEW k,
         Good(m, p, a, b, q, k), Bounds,
         EnqLink(t), UNCHANGED putters, next[Node(enqTail[t])] # Null
  PROVE  Good(m, p, a, b, q, k)'
<1>0. Alone' <=> Alone
  BY DEF Alone
<1>e. /\ pc[t] = "enqLink" /\ pc' = [pc EXCEPT ![t] = "enqRead"] /\ ret' = ret
      /\ UNCHANGED <<poolVars, head, headId, tail, tailId, size, next, data, enqVars, deqVars,
                     putters>>
  BY DEF EnqLink, EnqLinkIf
<1>1. Types'
  BY <1>e DEF Good, Types, PoolTypeOK
<1>2. Roles(m)'
  BY <1>0, <1>e DEF Good, Types, Roles
<1>3. Sizes(a, b)'
  BY <1>e, SizesStay DEF Good, Types
<1>4. Owned(pc, held, blk, fresh, Nodes(m, p), On(a, b, q))'
  BY <1>e DEF Good, Types, PoolTypeOK, Owned
<1>5. PoolLinks(m, p)'
  BY <1>e DEF Good, Types, PoolTypeOK, PoolLinks
<1>6. Ends(a, b, q, k)'
  BY <1>e DEF Good, Types, Ends
<1>7. Enqueues(a, b, q, k)'
  BY <1>e DEF Good, Types, PoolTypeOK, Enqueues
<1>8. Dequeues(a, q)'
  BY <1>e DEF Good, Types, Dequeues
<1>9. Contents(a, b, q)'
  BY <1>e DEF Good, Types, PoolTypeOK, Contents
<1> QED BY <1>1, <1>2, <1>3, <1>4, <1>5, <1>6, <1>7, <1>8, <1>9 DEF Good

\* It succeeds: the node was the last one, and the new one comes after it.
LEMMA StepEnqLink ==
  ASSUME NEW t \in Producers, NEW m, NEW p, NEW a, NEW b, NEW q, NEW k,
         Good(m, p, a, b, q, k), Bounds,
         EnqLink(t), UNCHANGED putters, next[Node(enqTail[t])] = Null
  PROVE  \E g : /\ Good(m, p, a, b + 1, g, k)'
                /\ g[b + 1] = blk[t] /\ \A i \in a .. b : g[i] = q[i]
<1>0. Alone' <=> Alone
  BY DEF Alone
<1>a. AtTail(pc[t], enqTail[t], enqNext[t], nodeVal[t], tail, putters, a, b, q, k) /\ pc[t] = "enqLink"
  BY DEF EnqLink, EnqLinkIf, Good, Enqueues
<1>b. PICK j \in a .. k : Node(enqTail[t]) = q[j] /\ (j = k => enqTail[t] = tail)
  BY <1>a DEF AtTail
<1>c. /\ a \in Nat /\ b \in Nat /\ a <= b /\ k \in a .. b /\ b - 1 <= k /\ Node(tail) = q[k]
      /\ Path(Node(head), next, a, b, q) /\ j \in a .. b
  BY DEF Good, Ends, Path
<1>d. j = b /\ k = b /\ b \in a .. b /\ enqTail[t] = tail /\ q[b] \in Blocks /\ next[q[b]] = Null
  <2>1. j = b
    BY <1>b, <1>c, PathEnds
  <2>2. b \in a .. b /\ k = b
    BY <1>c, <2>1
  <2> QED BY <1>b, <1>c, <2>1, <2>2 DEF Path
<1>e. /\ next' = [next EXCEPT ![q[b]] = blk[t]] /\ held' = [held EXCEPT ![t] = @ \ {blk[t]}]
      /\ pc' = [pc EXCEPT ![t] = "enqSwing"] /\ ret' = ret
      /\ UNCHANGED <<pTop, pId, pNext, fresh, pVal, pNxt, blk, blkVal, head, headId, tail,
                     tailId, size, data,
                     enqVars, deqVars, putters>>
  BY <1>b, <1>d DEF EnqLink, EnqLinkIf
<1>f. /\ blk[t] \in Blocks /\ held[t] = {blk[t]}
      /\ blk[t] \notin Nodes(m, p) /\ blk[t] \notin On(a, b, q) /\ blk[t] # q[b]
      /\ (\A u \in Procs : u # t /\ pc[u] \in Holding => blk[u] # blk[t])
      /\ (\A u \in Procs : pc[u] \in Holding => blk[u] # q[b])
      /\ next[blk[t]] = Null /\ Node(nodeVal[t]) = blk[t] /\ data[blk[t]] = item[t] /\ item[t] \in Items
  <2>1. \A u \in Procs : pc[u] \in Holding => \A i \in a .. b : q[i] # blk[u]
    BY Held
  <2>2. \A u \in Procs : pc[u] \in Holding => blk[u] # q[b]
    BY <1>d, <2>1
  <2> QED BY <1>a, <2>2, Held DEF Good, Enqueues, Contents
<1>g. PICK g : /\ Path(Node(head), next', a, b + 1, g) /\ On(a, b + 1, g) = On(a, b, q) \cup {blk[t]}
               /\ g[b + 1] = blk[t] /\ \A i \in a .. b : g[i] = q[i]
  <2>1. next'[q[b]] = blk[t] /\ next'[blk[t]] = Null /\ \A x \in On(a, b, q) \ {q[b]} : next'[x] = next[x]
    BY <1>d, <1>e, <1>f DEF Good, Types
  <2> QED BY <1>c, <1>f, <2>1, PathLonger
<1>h. \A i : i \in a + 1 .. b + 1 <=> i \in a + 1 .. b \/ i = b + 1
  BY <1>c
<1>i. pc[Consumer] \in Taking => a + 1 \in a .. b
  BY TailAhead
<1>1. Types'
  BY <1>d, <1>e, <1>f DEF Good, Types, PoolTypeOK
<1>2. Roles(m)'
  BY <1>0, <1>a, <1>e, <1>f DEF Good, Types, Roles
<1>3. Sizes(a, b + 1)'
  <2>1. Sizes(a, b) /\ DOMAIN pc = Procs
    BY DEF Good, Types
  <2> QED BY <1>a, <1>c, <1>e, <2>1, SizesEnqLink
<1>4. Owned(pc, held, blk, fresh, Nodes(m, p), On(a, b + 1, g))'
  <2>1. /\ Nodes(m, p) \cup On(a, b + 1, g) = Nodes(m, p) \cup On(a, b, q) \cup {blk[t]}
        /\ Nodes(m, p) \cap On(a, b + 1, g) = {} /\ held[t] = {blk[t]}
    BY <1>f, <1>g DEF Good, Owned
  <2>2. /\ held'[t] = {} /\ (\A u \in Procs : u # t => held'[u] = held[u]) /\ pc'[t] = "enqSwing" /\ fresh' = fresh
        /\ \A u \in Procs : u # t => pc'[u] = pc[u] /\ blk'[u] = blk[u]
    BY <1>e, <1>f DEF Good, Types, PoolTypeOK
  <2>3. PICK x : x = blk[t]
    OBVIOUS
  <2>4. PICK P, Q, Q1 : P = Nodes(m, p) /\ Q = On(a, b, q) /\ Q1 = On(a, b + 1, g)
    OBVIOUS
  <2>5. Owned(pc, held, blk, fresh, P, Q) /\ P \cup Q1 = P \cup Q \cup {x} /\ P \cap Q1 = {} /\ held[t] = {x}
    BY <2>1, <2>3, <2>4 DEF Good
  <2>6. pc'[t] \notin Holding
    BY <2>2
  <2> HIDE DEF Holding
  <2>7. Owned(pc', held', blk', fresh', P, Q1)
    BY <2>2, <2>5, <2>6, Given, SMTT(60)
  <2> QED BY <2>4, <2>7
<1>5. PoolLinks(m, p)'
  BY <1>a, <1>e, <1>f DEF Good, Types, PoolTypeOK, PoolLinks
<1>6. Ends(a, b + 1, g, k)'
  <2>1. k \in a .. b + 1 /\ b + 1 - 1 <= k /\ Node(tail) = g[k] /\ b + 1 \in Nat /\ a <= b + 1
    BY <1>c, <1>d, <1>g
  <2>2. \E u \in Producers : pc'[u] = "enqSwing" /\ enqTail'[u] = tail'
    BY <1>d, <1>e DEF Good, Types
  <2>3. Path(Node(head'), next', a, b + 1, g) /\ Node(tail') = g[k]
    BY <1>e, <1>g, <2>1
  <2>4. Path(Node(head), next, a, b + 1, g)'
    BY <2>3
  <2>5. (Node(tail) = g[k])'
    BY <2>3
  <2>6. (\E u \in Producers : pc[u] = "enqSwing" /\ enqTail[u] = tail)'
    BY <2>2
  <2>7. (k \in a .. b + 1 /\ b + 1 - 1 <= k)'
    BY <2>1
  <2>8. b \in Nat /\ a \in Nat /\ k \in Nat
    BY <1>c
  <2> QED BY <2>4, <2>5, <2>6, <2>7, <2>8 DEF Ends
<1>7. Enqueues(a, b + 1, g, k)'
  <2>1. ASSUME NEW l, NEW v, NEW w, NEW x, AtTail(l, v, w, x, tail, putters, a, b, q, k)
        PROVE  AtTail(l, v, w, x, tail, putters, a, b + 1, g, k)
    <3>1. PICK i \in a .. k : /\ Node(v) = q[i] /\ (i = k => v = tail)
                              /\ (\A u1, u2 \in putters : u1 = u2) => i = k
                              /\ l = "enqHelp" => i < b /\ w = q[i + 1]
                              /\ l = "enqSwing" => i < b /\ Node(x) = q[i + 1]
      BY <2>1 DEF AtTail
    <3>2. i \in a .. b /\ (i < b => i + 1 \in a .. b /\ i < b + 1)
      BY <1>c
    <3>3. g[i] = q[i] /\ (i < b => g[i + 1] = q[i + 1])
      BY <1>g, <3>2
    <3> QED BY <3>1, <3>2, <3>3 DEF AtTail
  <2>2. AtTail("enqSwing", enqTail[t], enqNext[t], nodeVal[t], tail, putters, a, b + 1, g, k)
    BY <1>c, <1>d, <1>f, <1>g DEF AtTail
  <2>3. \A u \in Producers : pc[u] \in WithNode => next'[blk[u]] = next[blk[u]]
    BY <1>e, <1>f DEF Good, Types
  <2>4. \A u \in Producers : pc'[u] \in WithTail =>
          AtTail(pc'[u], enqTail[u], enqNext[u], nodeVal[u], tail, putters, a, b + 1, g, k)
    BY <1>e, <2>1, <2>2 DEF Good, Types, Enqueues
  <2>5. \A u \in Producers : pc'[u] \in WithNode => Node(nodeVal[u]) = blk[u] /\ next'[blk[u]] = Null
    BY <1>e, <2>3 DEF Good, Types, Enqueues
  <2> QED BY <1>e, <2>4, <2>5 DEF Enqueues
<1>8. Dequeues(a, g)'
  BY <1>a, <1>e, <1>g, <1>i DEF Good, Types, Dequeues
<1>9. Contents(a, b + 1, g)'
  <2>1. \A i \in a + 1 .. b : i \in a .. b
    BY <1>c
  <2>2. \A i \in a + 1 .. b + 1 : data[g[i]] \in Items
    BY <1>f, <1>g, <1>h, <2>1 DEF Good, Contents
  <2> QED BY <1>a, <1>e, <1>g, <1>i, <2>2 DEF Good, Types, Contents
<1>10. Good(m, p, a, b + 1, g, k)'
  BY <1>1, <1>2, <1>3, <1>4, <1>5, <1>6, <1>7, <1>8, <1>9 DEF Good
<1> QED BY <1>g, <1>10

\* The head moves to the node after the dummy; nobody else moves it.
LEMMA StepDeqCas ==
  ASSUME NEW t \in Procs, NEW m, NEW p, NEW a, NEW b, NEW q, NEW k,
         Good(m, p, a, b, q, k), Bounds,
         DeqCas(t), UNCHANGED putters, t = Consumer
  PROVE  Good(m, p, a + 1, b, q, k)'
<1>0. Alone' <=> Alone
  BY DEF Alone
<1>a. pc[t] = "deqCas" /\ headVal = head /\ Node(newHead) = q[a + 1] /\ Alone /\ taken = data[q[a + 1]]
  BY DEF DeqCas, Good, Dequeues, Roles, Contents
<1>b. /\ head' = newHead /\ held' = [held EXCEPT ![t] = @ \cup {Node(head)}]
      /\ blk' = [blk EXCEPT ![t] = Node(head)]
      /\ pc' = [pc EXCEPT ![t] = "free"] /\ ret' = [ret EXCEPT ![t] = "idle"]
      /\ UNCHANGED <<pTop, pId, pNext, fresh, pVal, pNxt, blkVal, headId, tail, tailId, size,
                     next, data,
                     enqVars, deqVars, putters>>
  BY <1>a DEF DeqCas
<1>c. /\ a \in Nat /\ b \in Nat /\ k \in Nat /\ a + 1 <= k /\ k <= b /\ a + 1 \in a .. b /\ Node(tail) = q[k]
      /\ Path(Node(head), next, a, b, q)
  <2>1. pc[Consumer] \in Taking
    BY <1>a
  <2> QED BY <2>1, TailAhead DEF Good, Ends
<1>d. /\ Path(q[a + 1], next, a + 1, b, q) /\ On(a + 1, b, q) = On(a, b, q) \ {Node(head)}
      /\ Node(head) \in On(a, b, q)
  BY <1>c, PathShorter
<1>e. Node(head) \in Blocks
  BY <1>c DEF Path
<1>1. Types'
  BY <1>a, <1>b, <1>e DEF Good, Types, PoolTypeOK
<1>2. Roles(m)'
  BY <1>0, <1>a, <1>b DEF Good, Types, Roles
<1>3. Sizes(a + 1, b)'
  <2>1. Sizes(a, b) /\ DOMAIN pc = Procs
    BY DEF Good, Types
  <2> QED BY <1>a, <1>b, <1>c, <2>1, SizesDeqCas DEF Bounds
<1>4. Owned(pc, held, blk, fresh, Nodes(m, p), On(a + 1, b, q))'
  <2>1. PICK x : x = Node(head)
    OBVIOUS
  <2>2. /\ held[t] = {} /\ fresh \ {x} = fresh /\ x \in Blocks /\ x \in On(a, b, q)
        /\ Nodes(m, p) = Nodes(m, p) \ {x} /\ On(a + 1, b, q) = On(a, b, q) \ {x}
    <3>1. /\ fresh \cap On(a, b, q) = {} /\ Nodes(m, p) \cap On(a, b, q) = {}
          /\ held[t] = IF pc[t] \in Holding THEN {blk[t]} ELSE {}
      BY DEF Good, Owned
    <3>2. x \in On(a, b, q) /\ On(a + 1, b, q) = On(a, b, q) \ {x} /\ x \in Blocks
      BY <1>d, <1>e, <2>1
    <3> QED BY <1>a, <3>1, <3>2
  <2>3. held'[t] = {x} /\ (\A u \in Procs : u # t => held'[u] = held[u]) /\ blk'[t] = x
        /\ (\A u \in Procs : u # t => pc'[u] = pc[u] /\ blk'[u] = blk[u]) /\ pc'[t] = "free" /\ fresh' = fresh
    BY <1>b, <2>1, <2>2 DEF Good, Types, PoolTypeOK
  <2>4. Owned(pc, held, blk, fresh, Nodes(m, p), On(a, b, q))
    BY DEF Good
  <2> QED BY <2>2, <2>3, <2>4, Taken
<1>5. PoolLinks(m, p)'
  BY <1>a, <1>b, <1>e DEF Good, Types, PoolTypeOK, PoolLinks
<1>6. Ends(a + 1, b, q, k)'
  <2>1. k \in a + 1 .. b
    BY <1>c
  <2> QED BY <1>a, <1>b, <1>d, <2>1 DEF Good, Types, Ends
<1>7. Enqueues(a + 1, b, q, k)'
  <2>1. ASSUME NEW l, NEW v, NEW w, NEW x, AtTail(l, v, w, x, tail, putters, a, b, q, k)
        PROVE  AtTail(l, v, w, x, tail, putters, a + 1, b, q, k)
    <3>1. k \in a + 1 .. k
      BY <1>c
    <3> QED BY <1>a, <2>1, <3>1 DEF AtTail, Alone
  <2> QED BY <1>a, <1>b, <2>1 DEF Good, Types, PoolTypeOK, Enqueues
<1>8. Dequeues(a + 1, q)'
  BY <1>a, <1>b DEF Good, Types, Dequeues
<1>9. Contents(a + 1, b, q)'
  <2>1. \A i \in a + 1 + 1 .. b : i \in a + 1 .. b
    BY <1>c
  <2> QED BY <1>a, <1>b, <2>1 DEF Good, Types, PoolTypeOK, Contents
<1> QED BY <1>1, <1>2, <1>3, <1>4, <1>5, <1>6, <1>7, <1>8, <1>9 DEF Good

\* Then the steps of the pool.
LEMMA StepAllocFresh ==
  ASSUME NEW t \in Procs, NEW m, NEW p, NEW a, NEW b, NEW q, NEW k,
         Good(m, p, a, b, q, k), Bounds,
         AllocRead(t),
         UNCHANGED <<head, headId, tail, tailId, size, next, data, enqVars, deqVars>>,
         UNCHANGED putters, Node(pTop) = Null
  PROVE  Good(m, p, a, b, q, k)'
<1>0. Alone' <=> Alone
  BY DEF Alone
<1>z. PICK x \in fresh : /\ fresh' = fresh \ {x} /\ held' = [held EXCEPT ![t] = @ \cup {x}]
                         /\ blk' = [blk EXCEPT ![t] = x] /\ pc' = [pc EXCEPT ![t] = ret[t]]
  BY DEF AllocRead
<1>a. /\ pc[t] = "alloc" /\ fresh' = fresh \ {x} /\ held' = [held EXCEPT ![t] = @ \cup {x}]
      /\ blk' = [blk EXCEPT ![t] = x] /\ pc' = [pc EXCEPT ![t] = "enqInit"]
      /\ pVal' = [pVal EXCEPT ![t] = pTop] /\ ret' = ret
      /\ UNCHANGED <<pTop, pId, pNext, pNxt, blkVal, head, headId, tail, tailId, size, next,
                     data, enqVars,
                     deqVars, putters>>
  BY <1>z DEF AllocRead, Good, Roles
<1>b. t \in Producers /\ x \in Blocks /\ x \in fresh
  BY <1>a DEF Good, Types, PoolTypeOK, Roles
<1>1. Types'
  BY <1>a, <1>b DEF Good, Types, PoolTypeOK
<1>2. Roles(m)'
  BY <1>0, <1>a, <1>b DEF Good, Types, Roles
<1>3. Sizes(a, b)'
  BY <1>a, <1>b, SizesStay DEF Good, Types
<1>4. Owned(pc, held, blk, fresh, Nodes(m, p), On(a, b, q))'
  <2>1. /\ held[t] = {} /\ Nodes(m, p) \ {x} = Nodes(m, p) /\ On(a, b, q) \ {x} = On(a, b, q)
    <3>1. /\ fresh \cap On(a, b, q) = {} /\ fresh \cap Nodes(m, p) = {}
          /\ held[t] = IF pc[t] \in Holding THEN {blk[t]} ELSE {}
      BY DEF Good, Owned
    <3> QED BY <1>a, <1>b, <3>1
  <2>2. held'[t] = {x} /\ (\A u \in Procs : u # t => held'[u] = held[u]) /\ blk'[t] = x
        /\ (\A u \in Procs : u # t => pc'[u] = pc[u] /\ blk'[u] = blk[u]) /\ pc'[t] = "enqInit"
        /\ fresh' = fresh \ {x}
    BY <1>a, <2>1 DEF Good, Types, PoolTypeOK
  <2>3. PICK P, Q : P = Nodes(m, p) /\ Q = On(a, b, q)
    OBVIOUS
  <2>4. Owned(pc, held, blk, fresh, P, Q) /\ pc'[t] \in Holding
    BY <2>2, <2>3 DEF Good
  <2> HIDE DEF Holding
  <2>5. Owned(pc', held', blk', fresh', P \ {x}, Q \ {x})
    BY <1>b, <2>1, <2>2, <2>4, Taken, SMTT(60)
  <2> QED BY <2>1, <2>3, <2>5
<1>5. PoolLinks(m, p)'
  BY <1>a, <1>b DEF Good, Types, PoolTypeOK, PoolLinks
<1>6. Ends(a, b, q, k)'
  BY <1>a, <1>b DEF Good, Types, Ends
<1>7. Enqueues(a, b, q, k)'
  BY <1>a, <1>b DEF Good, Types, PoolTypeOK, Enqueues
<1>8. Dequeues(a, q)'
  BY <1>a, <1>b DEF Good, Types, Dequeues
<1>9. Contents(a, b, q)'
  BY <1>a, <1>b DEF Good, Types, PoolTypeOK, Contents
<1> QED BY <1>1, <1>2, <1>3, <1>4, <1>5, <1>6, <1>7, <1>8, <1>9 DEF Good

LEMMA StepAllocSeen ==
  ASSUME NEW t \in Procs, NEW m, NEW p, NEW a, NEW b, NEW q, NEW k,
         Good(m, p, a, b, q, k), Bounds,
         AllocRead(t),
         UNCHANGED <<head, headId, tail, tailId, size, next, data, enqVars, deqVars>>,
         UNCHANGED putters, Node(pTop) # Null
  PROVE  Good(m, p, a, b, q, k)'
<1>0. Alone' <=> Alone
  BY DEF Alone
<1>a. /\ pc[t] = "alloc" /\ pc' = [pc EXCEPT ![t] = "allocNext"] /\ ret' = ret
      /\ pVal' = [pVal EXCEPT ![t] = pTop]
      /\ UNCHANGED <<pTop, pId, pNext, pNxt, blkVal, fresh, held, blk, head, headId, tail,
                     tailId, size, next, data,
                     enqVars, deqVars, putters>>
  BY DEF AllocRead
<1>b. t \in Producers
  BY <1>a DEF Good, Roles
<1>1. Types'
  BY <1>a, <1>b DEF Good, Types, PoolTypeOK
<1>2. Roles(m)'
  BY <1>0, <1>a, <1>b DEF Good, Types, Roles
<1>3. Sizes(a, b)'
  BY <1>a, <1>b, SizesStay DEF Good, Types
<1>4. Owned(pc, held, blk, fresh, Nodes(m, p), On(a, b, q))'
  BY <1>a, <1>b DEF Good, Types, PoolTypeOK, Owned
<1>5. PoolLinks(m, p)'
  <2>1. m \in 1 .. m /\ p[m] = pTop
    BY TopOf DEF Good, PoolLinks
  <2>2. InPool("allocNext", pTop, pNxt[t], m, p)
    BY <2>1 DEF InPool
  <2> QED BY <1>a, <1>b, <2>2 DEF Good, Types, PoolTypeOK, PoolLinks
<1>6. Ends(a, b, q, k)'
  BY <1>a, <1>b DEF Good, Types, Ends
<1>7. Enqueues(a, b, q, k)'
  BY <1>a, <1>b DEF Good, Types, PoolTypeOK, Enqueues
<1>8. Dequeues(a, q)'
  BY <1>a, <1>b DEF Good, Types, Dequeues
<1>9. Contents(a, b, q)'
  BY <1>a, <1>b DEF Good, Types, PoolTypeOK, Contents
<1> QED BY <1>1, <1>2, <1>3, <1>4, <1>5, <1>6, <1>7, <1>8, <1>9 DEF Good

LEMMA StepAllocNext ==
  ASSUME NEW t \in Procs, NEW m, NEW p, NEW a, NEW b, NEW q, NEW k,
         Good(m, p, a, b, q, k), Bounds,
         AllocNext(t),
         UNCHANGED <<head, headId, tail, tailId, size, next, data, enqVars, deqVars>>,
         UNCHANGED putters
  PROVE  Good(m, p, a, b, q, k)'
<1>0. Alone' <=> Alone
  BY DEF Alone
<1>a. /\ pc[t] = "allocNext" /\ pc' = [pc EXCEPT ![t] = "allocCas"] /\ ret' = ret
      /\ pNxt' = [pNxt EXCEPT ![t] = pNext[Node(pVal[t])]]
      /\ UNCHANGED <<pTop, pId, pNext, pVal, blkVal, fresh, held, blk, head, headId, tail,
                     tailId, size, next, data,
                     enqVars, deqVars, putters>>
  BY DEF AllocNext
<1>b. t \in Producers
  BY <1>a DEF Good, Roles
<1>c. PICK i \in 1 .. m : pVal[t] = p[i]
  BY <1>a DEF Good, PoolLinks, InPool
<1>d. Node(pVal[t]) \in Blocks /\ pNext[Node(pVal[t])] = p[i - 1]
  BY <1>c DEF Good, PoolLinks, Chain
<1>1. Types'
  BY <1>a, <1>b, <1>d DEF Good, Types, PoolTypeOK
<1>2. Roles(m)'
  BY <1>0, <1>a, <1>b, <1>d DEF Good, Types, Roles
<1>3. Sizes(a, b)'
  BY <1>a, <1>b, <1>d, SizesStay DEF Good, Types
<1>4. Owned(pc, held, blk, fresh, Nodes(m, p), On(a, b, q))'
  BY <1>a, <1>b, <1>d DEF Good, Types, PoolTypeOK, Owned
<1>5. PoolLinks(m, p)'
  <2>1. InPool("allocCas", pVal[t], p[i - 1], m, p)
    BY <1>c DEF InPool
  <2> QED BY <1>a, <1>b, <1>d, <2>1 DEF Good, Types, PoolTypeOK, PoolLinks
<1>6. Ends(a, b, q, k)'
  BY <1>a, <1>b, <1>d DEF Good, Types, Ends
<1>7. Enqueues(a, b, q, k)'
  BY <1>a, <1>b, <1>d DEF Good, Types, PoolTypeOK, Enqueues
<1>8. Dequeues(a, q)'
  BY <1>a, <1>b, <1>d DEF Good, Types, Dequeues
<1>9. Contents(a, b, q)'
  BY <1>a, <1>b, <1>d DEF Good, Types, PoolTypeOK, Contents
<1> QED BY <1>1, <1>2, <1>3, <1>4, <1>5, <1>6, <1>7, <1>8, <1>9 DEF Good

LEMMA StepAllocCas ==
  ASSUME NEW t \in Procs, NEW m, NEW p, NEW a, NEW b, NEW q, NEW k,
         Good(m, p, a, b, q, k), Bounds,
         AllocCas(t),
         UNCHANGED <<head, headId, tail, tailId, size, next, data, enqVars, deqVars>>,
         UNCHANGED putters, pTop = pVal[t]
  PROVE  \E g : Good(m - 1, g, a, b, q, k)'
<1>0. Alone' <=> Alone
  BY DEF Alone
<1>a. /\ pc[t] = "allocCas" /\ pc' = [pc EXCEPT ![t] = "enqInit"] /\ ret' = ret
      /\ pTop' = pNxt[t] /\ blk' = [blk EXCEPT ![t] = Node(pTop)]
      /\ held' = [held EXCEPT ![t] = @ \cup {Node(pTop)}]
      /\ UNCHANGED <<pId, pNext, fresh, pVal, pNxt, blkVal, head, headId, tail, tailId, size,
                     next, data,
                     enqVars, deqVars, putters>>
  BY DEF AllocCas, Good, Roles
<1>b. t \in Producers
  BY <1>a DEF Good, Roles
<1>c. PICK i \in 1 .. m : pVal[t] = p[i] /\ pNxt[t] = p[i - 1]
  BY <1>a DEF Good, PoolLinks, InPool
<1>d. /\ m \in Nat /\ m # 0 /\ pNxt[t] = p[m - 1] /\ pNxt[t] \in Values
      /\ Node(pTop) \in Blocks /\ Node(pTop) \in Nodes(m, p)
  <2>1. Chain(pTop, pNext, m, p)
    BY DEF Good, PoolLinks
  <2>2. m \in Nat /\ m \in 1 .. m /\ p[m] = p[i]
    BY <1>c, <2>1 DEF Chain
  <2>3. i = m
    BY <2>1, <2>2 DEF Chain
  <2> QED BY <1>c, <2>1, <2>2, <2>3 DEF Chain, Nodes
<1>e. Alone /\ \A u \in Procs : pc[u] \in PoolRead => u = t
  <2>1. Alone
    BY <1>d DEF Good, Roles
  <2>2. t \in putters /\ \A u \in Procs : pc[u] \in PoolRead => u \in putters
    BY <1>a, <1>b DEF Good, Roles
  <2> QED BY <2>1, <2>2 DEF Alone
<1>f. PICK g : /\ Chain(p[m - 1], pNext, m - 1, g)
               /\ Nodes(m - 1, g) = Nodes(m, p) \ {Node(pTop)}
               /\ \A n \in 0 .. m - 1 : g[n] = p[n]
  BY <1>d, ChainLess DEF Good, PoolLinks
<1>1. Types'
  BY <1>a, <1>b, <1>d DEF Good, Types, PoolTypeOK
<1>2. Roles(m - 1)'
  BY <1>0, <1>a, <1>b, <1>e DEF Good, Types, Roles
<1>3. Sizes(a, b)'
  BY <1>a, <1>b, <1>d, SizesStay DEF Good, Types
<1>4. Owned(pc, held, blk, fresh, Nodes(m - 1, g), On(a, b, q))'
  <2>1. PICK x : x = Node(pTop)
    OBVIOUS
  <2>2. /\ held[t] = {} /\ fresh \ {x} = fresh /\ x \in Blocks /\ x \in Nodes(m, p)
        /\ On(a, b, q) = On(a, b, q) \ {x} /\ Nodes(m - 1, g) = Nodes(m, p) \ {x}
    <3>1. /\ fresh \cap Nodes(m, p) = {} /\ Nodes(m, p) \cap On(a, b, q) = {}
          /\ held[t] = IF pc[t] \in Holding THEN {blk[t]} ELSE {}
      BY DEF Good, Owned
    <3>2. x \in Nodes(m, p) /\ Nodes(m - 1, g) = Nodes(m, p) \ {x} /\ x \in Blocks
      BY <1>d, <1>f, <2>1
    <3> QED BY <1>a, <3>1, <3>2
  <2>3. held'[t] = {x} /\ (\A u \in Procs : u # t => held'[u] = held[u]) /\ blk'[t] = x
        /\ (\A u \in Procs : u # t => pc'[u] = pc[u] /\ blk'[u] = blk[u]) /\ pc'[t] = "enqInit" /\ fresh' = fresh
    BY <1>a, <2>1, <2>2 DEF Good, Types, PoolTypeOK
  <2>4. Owned(pc, held, blk, fresh, Nodes(m, p), On(a, b, q))
    BY DEF Good
  <2> QED BY <2>2, <2>3, <2>4, Taken
<1>5. PoolLinks(m - 1, g)'
  <2>1. Chain(pTop', pNext', m - 1, g)
    BY <1>a, <1>d, <1>f
  <2>2. \A u \in Procs : pc'[u] \notin PoolRead
    BY <1>a, <1>e DEF Good, Types
  <2> QED BY <1>a, <1>b, <2>1, <2>2 DEF Good, Types, PoolTypeOK, PoolLinks
<1>6. Ends(a, b, q, k)'
  BY <1>a, <1>b, <1>d DEF Good, Types, Ends
<1>7. Enqueues(a, b, q, k)'
  BY <1>a, <1>b, <1>d DEF Good, Types, PoolTypeOK, Enqueues
<1>8. Dequeues(a, q)'
  BY <1>a, <1>b, <1>d DEF Good, Types, Dequeues
<1>9. Contents(a, b, q)'
  BY <1>a, <1>b, <1>d DEF Good, Types, PoolTypeOK, Contents
<1>10. Good(m - 1, g, a, b, q, k)'
  BY <1>1, <1>2, <1>3, <1>4, <1>5, <1>6, <1>7, <1>8, <1>9 DEF Good
<1> QED BY <1>10

LEMMA StepFreeTag ==
  ASSUME NEW t \in Procs, NEW m, NEW p, NEW a, NEW b, NEW q, NEW k,
         Good(m, p, a, b, q, k), Bounds,
         FreeTag(t),
         UNCHANGED <<head, headId, tail, tailId, size, next, data, enqVars, deqVars>>,
         UNCHANGED putters
  PROVE  Good(m, p, a, b, q, k)'
<1>0. Alone' <=> Alone
  BY DEF Alone
<1>a. /\ pc[t] = "free" /\ pc' = [pc EXCEPT ![t] = "freeRead"] /\ ret' = ret
      /\ pId' = NextTag(pId) /\ blkVal' = [blkVal EXCEPT ![t] = <<pId', blk[t]>>]
      /\ UNCHANGED <<pTop, pNext, fresh, held, pVal, pNxt, blk, head, headId, tail, tailId,
                     size, next, data,
                     enqVars, deqVars, putters>>
  BY DEF FreeTag
<1>b. t = Consumer /\ t \notin Producers
  BY <1>a DEF Good, Roles
<1>c. pId' \in 0 .. TagMod - 1 /\ <<pId', blk[t]>> \in Values
  <2>1. pId' \in 0 .. TagMod - 1 /\ blk[t] \in Blocks
    BY <1>a, TagIs, Held DEF Good, Types, PoolTypeOK
  <2> QED BY <2>1 DEF Values
<1>1. Types'
  BY <1>a, <1>b, <1>c DEF Good, Types, PoolTypeOK
<1>2. Roles(m)'
  BY <1>0, <1>a, <1>b, <1>c DEF Good, Types, Roles
<1>3. Sizes(a, b)'
  BY <1>a, <1>b, <1>c, SizesStay DEF Good, Types
<1>4. Owned(pc, held, blk, fresh, Nodes(m, p), On(a, b, q))'
  BY <1>a, <1>b, <1>c DEF Good, Types, PoolTypeOK, Owned
<1>5. PoolLinks(m, p)'
  BY <1>a, <1>b DEF Good, Types, PoolTypeOK, PoolLinks, Node
<1>6. Ends(a, b, q, k)'
  BY <1>a, <1>b, <1>c DEF Good, Types, Ends
<1>7. Enqueues(a, b, q, k)'
  BY <1>a, <1>b, <1>c DEF Good, Types, PoolTypeOK, Enqueues
<1>8. Dequeues(a, q)'
  BY <1>a, <1>b, <1>c DEF Good, Types, Dequeues
<1>9. Contents(a, b, q)'
  BY <1>a, <1>b, <1>c DEF Good, Types, PoolTypeOK, Contents
<1> QED BY <1>1, <1>2, <1>3, <1>4, <1>5, <1>6, <1>7, <1>8, <1>9 DEF Good

LEMMA StepFreeRead ==
  ASSUME NEW t \in Procs, NEW m, NEW p, NEW a, NEW b, NEW q, NEW k,
         Good(m, p, a, b, q, k), Bounds,
         FreeRead(t),
         UNCHANGED <<head, headId, tail, tailId, size, next, data, enqVars, deqVars>>,
         UNCHANGED putters
  PROVE  Good(m, p, a, b, q, k)'
<1>0. Alone' <=> Alone
  BY DEF Alone
<1>a. /\ pc[t] = "freeRead" /\ pc' = [pc EXCEPT ![t] = "freeLink"] /\ ret' = ret
      /\ pVal' = [pVal EXCEPT ![t] = pTop]
      /\ UNCHANGED <<pTop, pId, pNext, fresh, held, pNxt, blk, blkVal, head, headId, tail,
                     tailId, size, next, data,
                     enqVars, deqVars, putters>>
  BY DEF FreeRead
<1>b. t = Consumer /\ t \notin Producers
  BY <1>a DEF Good, Roles
<1>1. Types'
  BY <1>a, <1>b DEF Good, Types, PoolTypeOK
<1>2. Roles(m)'
  BY <1>0, <1>a, <1>b DEF Good, Types, Roles
<1>3. Sizes(a, b)'
  BY <1>a, <1>b, SizesStay DEF Good, Types
<1>4. Owned(pc, held, blk, fresh, Nodes(m, p), On(a, b, q))'
  BY <1>a, <1>b DEF Good, Types, PoolTypeOK, Owned
<1>5. PoolLinks(m, p)'
  BY <1>a, <1>b DEF Good, Types, PoolTypeOK, PoolLinks
<1>6. Ends(a, b, q, k)'
  BY <1>a, <1>b DEF Good, Types, Ends
<1>7. Enqueues(a, b, q, k)'
  BY <1>a, <1>b DEF Good, Types, PoolTypeOK, Enqueues
<1>8. Dequeues(a, q)'
  BY <1>a, <1>b DEF Good, Types, Dequeues
<1>9. Contents(a, b, q)'
  BY <1>a, <1>b DEF Good, Types, PoolTypeOK, Contents
<1> QED BY <1>1, <1>2, <1>3, <1>4, <1>5, <1>6, <1>7, <1>8, <1>9 DEF Good

LEMMA StepFreeLink ==
  ASSUME NEW t \in Procs, NEW m, NEW p, NEW a, NEW b, NEW q, NEW k,
         Good(m, p, a, b, q, k), Bounds,
         FreeLink(t),
         UNCHANGED <<head, headId, tail, tailId, size, next, data, enqVars, deqVars>>,
         UNCHANGED putters
  PROVE  Good(m, p, a, b, q, k)'
<1>0. Alone' <=> Alone
  BY DEF Alone
<1>a. /\ pc[t] = "freeLink" /\ pc' = [pc EXCEPT ![t] = "freeCas"] /\ ret' = ret
      /\ pNext' = [pNext EXCEPT ![blk[t]] = pVal[t]]
      /\ UNCHANGED <<pTop, pId, fresh, held, pVal, pNxt, blk, blkVal, head, headId, tail,
                     tailId, size, next, data,
                     enqVars, deqVars, putters>>
  BY DEF FreeLink
<1>b. t = Consumer /\ t \notin Producers
  BY <1>a DEF Good, Roles
<1>c. blk[t] \in Blocks /\ blk[t] \notin Nodes(m, p)
  BY <1>a, Held
<1>1. Types'
  BY <1>a, <1>b, <1>c DEF Good, Types, PoolTypeOK
<1>2. Roles(m)'
  BY <1>0, <1>a, <1>b, <1>c DEF Good, Types, Roles
<1>3. Sizes(a, b)'
  BY <1>a, <1>b, <1>c, SizesStay DEF Good, Types
<1>4. Owned(pc, held, blk, fresh, Nodes(m, p), On(a, b, q))'
  BY <1>a, <1>b, <1>c DEF Good, Types, PoolTypeOK, Owned
<1>5. PoolLinks(m, p)'
  <2>1. Chain(pTop, pNext, m, p) /\ DOMAIN pNext = Blocks
    BY DEF Good, Types, PoolTypeOK, PoolLinks
  <2>2. Chain(pTop, pNext, m, p)'
    BY <1>a, <1>c, <2>1, ChainWrite
  <2>3. \A u \in Procs : pc[u] \in FreePcs => u = t
    BY <1>b DEF Good, Roles
  <2> QED BY <1>a, <1>b, <1>c, <2>2, <2>3 DEF Good, Types, PoolTypeOK, PoolLinks
<1>6. Ends(a, b, q, k)'
  BY <1>a, <1>b, <1>c DEF Good, Types, Ends
<1>7. Enqueues(a, b, q, k)'
  BY <1>a, <1>b, <1>c DEF Good, Types, PoolTypeOK, Enqueues
<1>8. Dequeues(a, q)'
  BY <1>a, <1>b, <1>c DEF Good, Types, Dequeues
<1>9. Contents(a, b, q)'
  BY <1>a, <1>b, <1>c DEF Good, Types, PoolTypeOK, Contents
<1> QED BY <1>1, <1>2, <1>3, <1>4, <1>5, <1>6, <1>7, <1>8, <1>9 DEF Good

LEMMA StepFreeCas ==
  ASSUME NEW t \in Procs, NEW m, NEW p, NEW a, NEW b, NEW q, NEW k,
         Good(m, p, a, b, q, k), Bounds,
         FreeCas(t),
         UNCHANGED <<head, headId, tail, tailId, size, next, data, enqVars, deqVars>>,
         UNCHANGED putters, pTop = pVal[t]
  PROVE  \E g : Good(m + 1, g, a, b, q, k)'
<1>0. Alone' <=> Alone
  BY DEF Alone
<1>a. /\ pc[t] = "freeCas" /\ pc' = [pc EXCEPT ![t] = "idle"] /\ ret' = ret
      /\ pTop' = blkVal[t] /\ held' = [held EXCEPT ![t] = @ \ {blk[t]}]
      /\ UNCHANGED <<pId, pNext, fresh, pVal, pNxt, blk, blkVal, head, headId, tail, tailId,
                     size, next, data,
                     enqVars, deqVars, putters>>
  BY DEF FreeCas, Good, Roles
<1>b. t = Consumer /\ t \notin Producers
  BY <1>a DEF Good, Roles
<1>c. /\ blkVal[t] \in Values /\ Node(blkVal[t]) = blk[t] /\ blk[t] \in Blocks /\ held[t] = {blk[t]}
      /\ blk[t] \notin Nodes(m, p) /\ blk[t] \notin On(a, b, q) /\ pNext[blk[t]] = pTop
  BY <1>a, Held DEF Good, Types, PoolTypeOK, PoolLinks
<1>d. PICK g : /\ Chain(blkVal[t], pNext, m + 1, g)
               /\ Nodes(m + 1, g) = Nodes(m, p) \cup {blk[t]}
               /\ m \in Nat /\ \A i \in 0 .. m : g[i] = p[i]
  BY <1>c, ChainMore DEF Good, PoolLinks
<1>e. Alone
  BY <1>a, <1>b DEF Good, Roles
<1>1. Types'
  BY <1>a, <1>b, <1>c DEF Good, Types, PoolTypeOK
<1>2. Roles(m + 1)'
  BY <1>0, <1>a, <1>b, <1>e DEF Good, Types, Roles
<1>3. Sizes(a, b)'
  BY <1>a, <1>b, <1>c, SizesStay DEF Good, Types
<1>4. Owned(pc, held, blk, fresh, Nodes(m + 1, g), On(a, b, q))'
  <2>1. /\ Nodes(m + 1, g) \cup On(a, b, q) = Nodes(m, p) \cup On(a, b, q) \cup {blk[t]}
        /\ Nodes(m + 1, g) \cap On(a, b, q) = {} /\ held[t] = {blk[t]}
    BY <1>c, <1>d DEF Good, Owned
  <2>2. /\ held'[t] = {} /\ (\A u \in Procs : u # t => held'[u] = held[u]) /\ pc'[t] = "idle" /\ fresh' = fresh
        /\ \A u \in Procs : u # t => pc'[u] = pc[u] /\ blk'[u] = blk[u]
    BY <1>a, <1>c DEF Good, Types, PoolTypeOK
  <2>3. PICK x : x = blk[t]
    OBVIOUS
  <2>4. Owned(pc, held, blk, fresh, Nodes(m, p), On(a, b, q))
    BY DEF Good
  <2> QED BY <2>1, <2>2, <2>3, <2>4, Given
<1>5. PoolLinks(m + 1, g)'
  <2>1. Chain(pTop', pNext', m + 1, g)
    BY <1>a, <1>d
  <2>2. ASSUME NEW l, NEW v, NEW w, InPool(l, v, w, m, p) PROVE InPool(l, v, w, m + 1, g)
    <3>1. PICK i \in 1 .. m : v = p[i] /\ (l = "allocCas" => w = p[i - 1])
      BY <2>2 DEF InPool
    <3>2. i \in 1 .. m + 1 /\ i \in 0 .. m /\ i - 1 \in 0 .. m
      BY <1>d
    <3>3. v = g[i] /\ (l = "allocCas" => w = g[i - 1])
      BY <1>d, <3>1, <3>2
    <3> QED BY <3>2, <3>3 DEF InPool
  <2>3. \A u \in Procs : pc[u] \in FreePcs => u = t
    BY <1>b DEF Good, Roles
  <2> QED BY <1>a, <1>b, <2>1, <2>2, <2>3 DEF Good, Types, PoolTypeOK, PoolLinks
<1>6. Ends(a, b, q, k)'
  BY <1>a, <1>b, <1>c DEF Good, Types, Ends
<1>7. Enqueues(a, b, q, k)'
  BY <1>a, <1>b, <1>c DEF Good, Types, PoolTypeOK, Enqueues
<1>8. Dequeues(a, q)'
  BY <1>a, <1>b, <1>c DEF Good, Types, Dequeues
<1>9. Contents(a, b, q)'
  BY <1>a, <1>b, <1>c DEF Good, Types, PoolTypeOK, Contents
<1>10. Good(m + 1, g, a, b, q, k)'
  BY <1>1, <1>2, <1>3, <1>4, <1>5, <1>6, <1>7, <1>8, <1>9 DEF Good
<1> QED BY <1>10

\* A thread whose exchange of the top fails starts over: only pc changes.
LEMMA StepPoolRetry ==
  ASSUME NEW t \in Procs, NEW m, NEW p, NEW a, NEW b, NEW q, NEW k,
         Good(m, p, a, b, q, k), Bounds,
         \/ AllocCas(t) /\ pTop # pVal[t]
         \/ FreeCas(t) /\ pTop # pVal[t], UNCHANGED putters,
         UNCHANGED <<head, headId, tail, tailId, size, next, data, enqVars, deqVars>>
  PROVE  Good(m, p, a, b, q, k)'
<1>0. Alone' <=> Alone
  BY DEF Alone
<1>a. \/ pc[t] = "allocCas" /\ pc' = [pc EXCEPT ![t] = "alloc"]
      \/ pc[t] = "freeCas" /\ pc' = [pc EXCEPT ![t] = "freeRead"]
  BY DEF AllocCas, FreeCas
<1>b. PICK l : l = pc'[t]
  OBVIOUS
<1>c. /\ pc' = [pc EXCEPT ![t] = l] /\ ret' = ret
      /\ \/ pc[t] = "allocCas" /\ l = "alloc"
         \/ pc[t] = "freeCas" /\ l = "freeRead"
      /\ UNCHANGED <<poolVars, head, headId, tail, tailId, size, next, data, enqVars, deqVars,
                     putters>>
  BY <1>a, <1>b DEF AllocCas, FreeCas, Good, Types
<1>1. Types'
  BY <1>c DEF Good, Types, PoolTypeOK
<1>2. Roles(m)'
  BY <1>0, <1>c DEF Good, Types, Roles
<1>3. Sizes(a, b)'
  BY <1>c, SizesStay DEF Good, Types
<1>4. Owned(pc, held, blk, fresh, Nodes(m, p), On(a, b, q))'
  BY <1>c DEF Good, Types, PoolTypeOK, Owned
<1>5. PoolLinks(m, p)'
  BY <1>c DEF Good, Types, PoolTypeOK, PoolLinks
<1>6. Ends(a, b, q, k)'
  BY <1>c DEF Good, Types, Ends
<1>7. Enqueues(a, b, q, k)'
  BY <1>c DEF Good, Types, PoolTypeOK, Enqueues
<1>8. Dequeues(a, q)'
  BY <1>c DEF Good, Types, Dequeues
<1>9. Contents(a, b, q)'
  BY <1>c DEF Good, Types, PoolTypeOK, Contents
<1> QED BY <1>1, <1>2, <1>3, <1>4, <1>5, <1>6, <1>7, <1>8, <1>9 DEF Good

-----------------------------------------------------------------------------
\* It holds at the start: an empty pool, and a queue of the dummy alone.
LEMMA Starts ==
  ASSUME Init, Bounds
  PROVE  IInv
<1> DEFINE z == [i \in 0 .. 0 |-> NullValue]
<1>0. PICK dummy \in Blocks :
        /\ PoolInitFrom(Blocks \ {dummy})
        /\ headId = NextTag(0) /\ head = <<headId, dummy>>
        /\ tailId = NextTag(0) /\ tail = <<tailId, dummy>>
  BY DEF Init
<1> DEFINE q == [i \in 0 .. 0 |-> dummy]
<1>1. /\ putters \subseteq Producers /\ size = 0 /\ pc = [t \in Procs |-> "idle"] /\ DOMAIN ret = Procs
      /\ next = [b \in Blocks |-> Null] /\ data = [b \in Blocks |-> NoItem]
      /\ item = [t \in Producers |-> NoItem]
      /\ nodeVal = [t \in Producers |-> NullValue] /\ enqTail = [t \in Producers |-> NullValue]
      /\ enqNext = [t \in Producers |-> Null] /\ headVal = NullValue /\ tailVal = NullValue
      /\ headNext = Null /\ newHead = NullValue /\ taken = NoItem
  BY DEF Init
<1>2. NextTag(0) \in 0 .. TagMod - 1 /\ 0 \in 0 .. TagMod - 1 /\ NullValue \in Values
  BY TagIs, PoolAssumption DEF PoolAssumption, NullValue, Values
<1>3. Types
  <2>1. PoolTypeOK
    BY <1>0, <1>2 DEF PoolInitFrom, PoolTypeOK
  <2>2. head \in Values /\ tail \in Values
    BY <1>0, <1>2 DEF Values
  <2> QED BY <1>0, <1>1, <1>2, <2>1, <2>2 DEF Types
<1>4. Roles(0)
  BY <1>1 DEF Roles
<1>5. Sizes(0, 0)
  <2>1. Of(Linking, pc) = {} /\ Of(Putting, pc) = {} /\ pc[Consumer] = "idle"
    BY <1>1 DEF Of
  <2>2. IsFiniteSet({}) /\ Cardinality({}) = 0
    BY FS_EmptySet, Zenon
  <2>3. Cardinality(Producers) \in Nat
    <3>1. IsFiniteSet(Producers)
      BY FS_Subset DEF Bounds
    <3> QED BY <3>1, FS_CardinalityType
  <2>4. PICK e : e = MaxLen + Cardinality(Producers) /\ 0 <= e
    BY <2>3
  <2>5. /\ IsFiniteSet(Of(Linking, pc)) /\ Cardinality(Of(Linking, pc)) = 0
        /\ IsFiniteSet(Of(Putting, pc)) /\ Cardinality(Of(Putting, pc)) = 0
    BY <2>1, <2>2
  <2> QED BY <1>1, <2>1, <2>4, <2>5 DEF Sizes
<1>6. Nodes(0, z) = {} /\ On(0, 0, q) = {dummy}
  BY DEF Nodes, On
<1>7. Owned(pc, held, blk, fresh, Nodes(0, z), On(0, 0, q))
  BY <1>0, <1>1, <1>6 DEF Owned, PoolInitFrom
<1>8. PoolLinks(0, z)
  <2>1. Chain(pTop, pNext, 0, z)
    BY <1>0, <1>2 DEF PoolInitFrom, Chain, NullValue, Node
  <2> QED BY <1>1, <2>1 DEF PoolLinks
<1>9. Ends(0, 0, q, 0)
  <2>1. Path(Node(head), next, 0, 0, q)
    BY <1>0, <1>1 DEF Path, Node
  <2>2. Node(tail) = q[0]
    BY <1>0 DEF Node
  <2> QED BY <2>1, <2>2 DEF Ends
<1> HIDE DEF z, q
<1>10. Enqueues(0, 0, q, 0) /\ Dequeues(0, q) /\ Contents(0, 0, q)
  BY <1>1 DEF Enqueues, Dequeues, Contents
<1>11. Good(0, z, 0, 0, q, 0)
  BY <1>3, <1>4, <1>5, <1>7, <1>8, <1>9, <1>10 DEF Good
<1> QED BY <1>11 DEF IInv

\* It survives a stuttering step.
LEMMA Stays ==
  ASSUME NEW m, NEW p, NEW a, NEW b, NEW q, NEW k, Good(m, p, a, b, q, k), UNCHANGED vars
  PROVE  Good(m, p, a, b, q, k)'
<1>1. Types' /\ Sizes(a, b)' /\ Dequeues(a, q)' /\ Contents(a, b, q)'
  BY DEF Good, Types, PoolTypeOK, Sizes, Dequeues, Contents
<1>2. Roles(m)'
  BY DEF Good, Roles, Alone
<1>3. Owned(pc, held, blk, fresh, Nodes(m, p), On(a, b, q))'
  BY DEF Good, Owned
<1>4. PoolLinks(m, p)' /\ Ends(a, b, q, k)' /\ Enqueues(a, b, q, k)'
  BY DEF Good, PoolLinks, Ends, Enqueues
<1> QED BY <1>1, <1>2, <1>3, <1>4 DEF Good

\* What one thread does in a step of Next.
ThreadStep(t) ==
  \/ t \in Producers /\ (StartEnqueue(t) \/ EnqueueStep(t))
  \/ t = Consumer /\ (StartDequeue(t) \/ DequeueStep(t))
  \/ PoolCall(t)
\* It links its node.
Links(t) == EnqLink(t) /\ next[Node(enqTail[t])] = Null

\* A step that neither links a node nor moves the head leaves the queue as it is.
LEMMA StepSame ==
  ASSUME NEW t \in Procs, NEW m, NEW p, NEW a, NEW b, NEW q, NEW k,
         Good(m, p, a, b, q, k), Bounds,
         ThreadStep(t), UNCHANGED putters, ~ Links(t), ~ DeqCas(t)
  PROVE  \E m1, p1, k1 : Good(m1, p1, a, b, q, k1)'
<1> DEFINE Kept == \E m1, p1, k1 : Good(m1, p1, a, b, q, k1)'
           Rest == UNCHANGED <<head, headId, tail, tailId, size, next, data, enqVars, deqVars>>
<1>1. ASSUME t \in Producers, StartEnqueue(t) PROVE Kept
  BY <1>1, StepStartEnqueue
<1>2. ASSUME t \in Producers, EnqInit(t) PROVE Kept
  BY <1>2, StepEnqInit
<1>3. ASSUME t \in Producers, EnqRead(t) PROVE Kept
  BY <1>3, StepEnqRead
<1>4. ASSUME t \in Producers, EnqNext(t) PROVE Kept
  BY <1>4, StepEnqNext
<1>5. ASSUME t \in Producers, EnqHelp(t) PROVE Kept
  BY <1>5, StepEnqHelpMoves, StepEnqHelpLate
<1>6. ASSUME t \in Producers, EnqLink(t) PROVE Kept
  BY <1>6, StepEnqLinkFails DEF Links
<1>7. ASSUME t \in Producers, EnqSwing(t) PROVE Kept
  BY <1>7, StepEnqSwingMoves, StepEnqSwingLate
<1>8. ASSUME t \in Producers, EnqCount(t) PROVE Kept
  BY <1>8, StepEnqCount
<1>9. ASSUME t = Consumer, StartDequeue(t) PROVE Kept
  BY <1>9, StepStartDequeue
<1>10. ASSUME t = Consumer, DeqCount(t) PROVE Kept
  BY <1>10, StepDeqCount
<1>11. ASSUME t = Consumer, DeqHead(t) PROVE Kept
  BY <1>11, StepDeqHead
<1>12. ASSUME t = Consumer, DeqTail(t) PROVE Kept
  BY <1>12, StepDeqTail
<1>13. ASSUME t = Consumer, DeqNext(t) PROVE Kept
  BY <1>13, StepDeqNext
<1>14. ASSUME t = Consumer, DeqData(t) PROVE Kept
  BY <1>14, StepDeqData
<1>15. ASSUME AllocRead(t), Rest PROVE Kept
  BY <1>15, StepAllocFresh, StepAllocSeen
<1>16. ASSUME AllocNext(t), Rest PROVE Kept
  BY <1>16, StepAllocNext
<1>17. ASSUME AllocCas(t), Rest PROVE Kept
  BY <1>17, StepAllocCas, StepPoolRetry
<1>18. ASSUME FreeTag(t), Rest PROVE Kept
  BY <1>18, StepFreeTag
<1>19. ASSUME FreeRead(t), Rest PROVE Kept
  BY <1>19, StepFreeRead
<1>20. ASSUME FreeLink(t), Rest PROVE Kept
  BY <1>20, StepFreeLink
<1>21. ASSUME FreeCas(t), Rest PROVE Kept
  BY <1>21, StepFreeCas, StepPoolRetry
<1> HIDE DEF Kept, Rest
<1>22. ThreadStep(t) =>
         \/ t \in Producers /\ StartEnqueue(t)
         \/ t \in Producers /\ EnqueueStep(t)
         \/ t = Consumer /\ StartDequeue(t)
         \/ t = Consumer /\ DequeueStep(t)
         \/ PoolStep(t) /\ Rest
  BY Zenon DEF ThreadStep, PoolCall, Rest
<1>23. t \in Producers /\ EnqueueStep(t) => Kept
  BY <1>2, <1>3, <1>4, <1>5, <1>6, <1>7, <1>8, Zenon DEF EnqueueStep
<1>24. t = Consumer /\ DequeueStep(t) => Kept
  BY <1>10, <1>11, <1>12, <1>13, <1>14, Zenon DEF DequeueStep
<1>25. PoolStep(t) /\ Rest => Kept
  BY <1>15, <1>16, <1>17, <1>18, <1>19, <1>20, <1>21, Zenon DEF PoolStep
<1>26. Kept
  BY <1>1, <1>9, <1>22, <1>23, <1>24, <1>25, Zenon
<1> QED BY <1>26 DEF Kept

\* Every step is one of a thread.
LEMMA SomeThread ==
  ASSUME Next
  PROVE  \E t \in Procs : ThreadStep(t) /\ UNCHANGED putters
  BY Zenon DEF Next, ThreadStep

\* Only a putter links, only the consumer moves the head.
LEMMA WhoMoves ==
  ASSUME NEW t \in Procs, NEW m, NEW p, NEW a, NEW b, NEW q, NEW k, Good(m, p, a, b, q, k)
  PROVE  (EnqLink(t) => t \in Producers) /\ (DeqCas(t) => t = Consumer)
  BY DEF Good, Roles, EnqLink, EnqLinkIf, DeqCas

\* Every step preserves the invariant.
LEMMA Preserved ==
  ASSUME IInv, Bounds, [Next]_vars
  PROVE  IInv'
<1>1. PICK m, p, a, b, q, k : Good(m, p, a, b, q, k)
  BY Zenon DEF IInv
<1>2. CASE UNCHANGED vars
  BY <1>1, <1>2, Stays DEF IInv
<1>3. ASSUME NEW t \in Procs, ThreadStep(t), UNCHANGED putters PROVE IInv'
  <2>0. (EnqLink(t) => t \in Producers) /\ (DeqCas(t) => t = Consumer)
    BY <1>1, WhoMoves
  <2>1. CASE Links(t)
    BY <1>1, <1>3, <2>0, <2>1, StepEnqLink DEF IInv, Links
  <2>2. CASE DeqCas(t)
    BY <1>1, <1>3, <2>0, <2>2, StepDeqCas DEF IInv
  <2>3. CASE ~ Links(t) /\ ~ DeqCas(t)
    BY <1>1, <1>3, <2>3, StepSame DEF IInv
  <2> QED BY <2>1, <2>2, <2>3, Zenon
<1>4. CASE Next
  BY <1>3, <1>4, SomeThread
<1> QED BY <1>2, <1>4

\* It is an invariant.
LEMMA Invariance ==
  ASSUME Bounds
  PROVE  Spec => []IInv
<1>1. Init => IInv
  BY Starts
<1>2. IInv /\ [Next]_vars => IInv'
  BY Preserved
<1> QED BY <1>1, <1>2, PTL DEF Spec

\* It implies NodesConserved: the paths are what FreeChain and Linked walk.
LEMMA Conserves ==
  ASSUME IInv, Bounds
  PROVE  NodesConserved
<1>1. PICK m, p, a, b, q, k : Good(m, p, a, b, q, k)
  BY Zenon DEF IInv
<1>2. FreeChain[Cardinality(Blocks)] = Null /\ Free = Nodes(m, p)
  BY <1>1, FreeIs, Zenon DEF Good, PoolLinks
<1>3. /\ Path(Node(head), next, a, b, q) /\ a \in Nat /\ b \in Nat /\ a <= b /\ q[a] = Node(head)
      /\ Linked = [i \in 1 .. b - a |-> q[a + i]] /\ Len(Linked) = b - a
  <2>1. Path(Node(head), next, a, b, q)
    BY <1>1 DEF Good, Ends
  <2>2. Linked = [i \in 1 .. b - a |-> q[a + i]] /\ Len(Linked) = b - a
    BY <2>1, LinkedIs, Zenon
  <2> QED BY <2>1, <2>2 DEF Path
<1>4. InQueue = On(a, b, q)
  <2>1. InQueue = {q[a]} \cup {q[a + i] : i \in 1 .. b - a}
    BY <1>3 DEF InQueue
  <2>2. ASSUME NEW i \in a .. b PROVE q[i] \in {q[a]} \cup {q[a + j] : j \in 1 .. b - a}
    <3>1. i = a \/ (i - a \in 1 .. b - a /\ a + (i - a) = i)
      BY <1>3
    <3> QED BY <3>1
  <2>3. ASSUME NEW j \in 1 .. b - a PROVE q[a + j] \in On(a, b, q)
    <3>1. a + j \in a .. b
      BY <1>3
    <3> QED BY <3>1 DEF On
  <2>4. q[a] \in On(a, b, q)
    BY <1>3 DEF On
  <2> QED BY <2>1, <2>2, <2>3, <2>4 DEF On
<1>5. Cardinality(InQueue) = Len(Linked) + 1
  BY <1>3, <1>4, PathSize
<1>6. TypeOK
  <2>1. size \in 0 .. MaxLen + Cardinality(Producers)
    <3>1. PICK s, r, e : /\ s = Cardinality(Of(Linking, pc)) /\ r = Cardinality(Of(Putting, pc))
                         /\ e = MaxLen + Cardinality(Producers)
      OBVIOUS
    <3>2. IsFiniteSet(Producers)
      BY FS_Subset DEF Bounds
    <3>3. s \in Nat /\ r \in Nat /\ e \in Nat
      BY <1>1, <3>1, <3>2, FS_CardinalityType DEF Good, Sizes
    <3>4. size \in Nat /\ size + s <= b - a /\ b - a + r <= e
      BY <1>1, <1>3, <3>1, <3>3 DEF Good, Sizes
    <3>5. size <= e
      BY <1>3, <3>3, <3>4
    <3> QED BY <3>1, <3>3, <3>4, <3>5
  <2> QED BY <1>1, <2>1 DEF Good, Types, TypeOK
<1>7. ASSUME NEW x \in Blocks
      PROVE  Cardinality({t \in Procs : x \in held[t]}) + (IF x \in fresh THEN 1 ELSE 0)
             + (IF x \in Free THEN 1 ELSE 0) + (IF x \in InQueue THEN 1 ELSE 0) = 1
  <2> DEFINE H == {t \in Procs : x \in held[t]}
  <2>1. /\ \A t, u \in Procs : t # u => held[t] \cap held[u] = {}
        /\ \A t \in Procs : held[t] \cap (fresh \cup Free \cup InQueue) = {}
        /\ fresh \cap Free = {} /\ fresh \cap InQueue = {} /\ Free \cap InQueue = {}
        /\ x \in fresh \cup Free \cup InQueue \/ \E t \in Procs : x \in held[t]
    BY <1>1, <1>2, <1>4 DEF Good, Owned
  <2>2. CASE x \in fresh \cup Free \cup InQueue
    <3>1. H = {}
      BY <2>1, <2>2
    <3>2. Cardinality(H) = 0
      BY <3>1, FS_EmptySet, Zenon
    <3> QED BY <2>1, <2>2, <3>2
  <2>3. CASE x \notin fresh \cup Free \cup InQueue
    <3>1. PICK t \in Procs : x \in held[t]
      BY <2>1, <2>3
    <3>2. H = {t}
      BY <2>1, <3>1
    <3>3. Cardinality(H) = 1
      BY <3>2, FS_Singleton, Zenon
    <3> QED BY <2>3, <3>3
  <2> QED BY <2>2, <2>3
<1> QED BY <1>2, <1>5, <1>6, <1>7 DEF NodesConserved

\* It implies CountedIsLinked: the queue is at least as long as _size says.
LEMMA Counted ==
  ASSUME IInv
  PROVE  CountedIsLinked
<1>1. PICK m, p, a, b, q, k : Good(m, p, a, b, q, k)
  BY Zenon DEF IInv
<1>2. Path(Node(head), next, a, b, q) /\ a \in Nat /\ b \in Nat
  BY <1>1 DEF Good, Ends, Path
<1>3. Len(Linked) = b - a
  BY <1>2, LinkedIs, Zenon
<1>4. pc[Consumer] # "break"
  BY <1>1 DEF Good, Roles
<1>5. size + (IF pc[Consumer] \in BeforeCas \ {"deqCount"} THEN 1 ELSE 0) <= Len(Linked)
  <2>1. Cardinality(Of(Linking, pc)) \in Nat
    BY <1>1, FS_CardinalityType DEF Good, Sizes
  <2> QED BY <1>1, <1>2, <1>3, <2>1 DEF Good, Sizes
<1>6. ASSUME pc[Consumer] = "deqNext"
      PROVE  Node(headVal) # Node(tailVal) /\ next[Node(headVal)] # Null
  <2>1. headVal = head /\ Node(tailVal) # Node(head)
    BY <1>1, <1>6 DEF Good, Dequeues
  <2>2. a \in a .. b /\ a # b /\ Node(head) = q[a]
    <3>1. pc[Consumer] \in Taking
      BY <1>6
    <3> QED BY <1>1, <3>1, TailAhead
  <2>3. next[q[a]] # Null
    BY <1>2, <2>2, PathEnds
  <2> QED BY <2>1, <2>2, <2>3
<1> QED BY <1>4, <1>5, <1>6 DEF CountedIsLinked

-----------------------------------------------------------------------------
\* The nodes of the queue and of its pool are conserved: each is in the pool, in
\* the queue, fresh or held by exactly one thread, and the pool and the queue end
\* at Null (Enqueue, Dequeue and the pool's Alloc and Free, CLockFreeQueue.h).
THEOREM Conserved ==
  ASSUME IsFiniteSet(Procs)
  PROVE  Spec => []NodesConserved
<1>1. Bounds
  BY DEF Bounds
<1>2. Spec => []IInv
  BY <1>1, Invariance
<1>3. IInv => NodesConserved
  BY <1>1, Conserves
<1> QED BY <1>2, <1>3, PTL

\* A consumer that has seen _size > 0 finds its node: Dequeue meets neither an
\* empty queue (CLockFreeQueue.h:77) nor the tail at the head (:99).
THEOREM CountedLinked ==
  ASSUME IsFiniteSet(Procs)
  PROVE  Spec => []CountedIsLinked
<1>1. Bounds
  BY DEF Bounds
<1>2. Spec => []IInv
  BY <1>1, Invariance
<1>3. IInv => CountedIsLinked
  BY Counted
<1> QED BY <1>2, <1>3, PTL

-----------------------------------------------------------------------------
\* What the thread u is doing for its caller, from where it is, its argument
\* and what the consumer took.
Doing(u, l, v, w) ==
  IF u = Consumer
    THEN IF l \in BeforeCas THEN <<"get">> ELSE IF l \in FreePcs THEN <<"got", w>> ELSE <<"idle">>
    ELSE IF l \in Putting THEN <<"put", v>> ELSE <<"idle">>
\* The items along the path, first in first.
Listed(a, b, q, val) == [i \in 1 .. b - a |-> val[q[a + i]]]

\* opState, thread by thread.
LEMMA OpIs ==
  /\ opState = [t \in Procs |-> Doing(t, pc[t], item[t], taken)]
  /\ opState' = [t \in Procs |-> Doing(t, pc'[t], item'[t], taken')]
  BY DEF opState, Doing

\* What one thread's step does to opState.
LEMMA OpMoves ==
  ASSUME NEW t \in Procs, NEW x,
         \A u \in Procs : u # t => pc'[u] = pc[u] /\ item'[u] = item[u] /\ (u = Consumer => taken' = taken),
         Doing(t, pc'[t], item'[t], taken') = x
  PROVE  opState' = [opState EXCEPT ![t] = x]
<1>1. \A u \in Procs : u # t => Doing(u, pc'[u], item'[u], taken') = Doing(u, pc[u], item[u], taken)
  BY DEF Doing
<1> QED BY <1>1, OpIs

\* A step after which its thread is doing the same leaves opState as it is.
LEMMA OpStays ==
  ASSUME NEW t \in Procs,
         \A u \in Procs : u # t => pc'[u] = pc[u] /\ item'[u] = item[u] /\ (u = Consumer => taken' = taken),
         Doing(t, pc'[t], item'[t], taken') = Doing(t, pc[t], item[t], taken)
  PROVE  opState' = opState
<1>1. \A u \in Procs : u # t => Doing(u, pc'[u], item'[u], taken') = Doing(u, pc[u], item[u], taken)
  BY DEF Doing
<1> QED BY <1>1, OpIs

\* The abstract queue is what is listed along the path, before and after a step.
LEMMA ContentsAre ==
  ASSUME NEW CONSTANT a, NEW CONSTANT b, NEW CONSTANT q
  PROVE  /\ Path(Node(head), next, a, b, q) => contents = Listed(a, b, q, data)
         /\ (Path(Node(head), next, a, b, q) => contents = Listed(a, b, q, data))'
<1>1. Path(Node(head), next, a, b, q) => contents = Listed(a, b, q, data)
  <2> SUFFICES ASSUME Path(Node(head), next, a, b, q) PROVE contents = Listed(a, b, q, data)
    OBVIOUS
  <2>1. Linked = [i \in 1 .. b - a |-> q[a + i]]
    BY LinkedIs, Zenon
  <2> QED BY <2>1 DEF contents, Listed
<1> QED BY <1>1, PTL

\* The steps that neither call, nor return, nor link, nor move the head.
LEMMA Silent ==
  ASSUME NEW t \in Procs, NEW m, NEW p, NEW a, NEW b, NEW q, NEW k, Good(m, p, a, b, q, k),
         ThreadStep(t), ~ StartEnqueue(t), ~ StartDequeue(t), ~ Links(t), ~ DeqCas(t),
         ~ (FreeCas(t) /\ pTop = pVal[t])
  PROVE  opState' = opState
<1> DEFINE Quiet == /\ Doing(t, pc'[t], item'[t], taken') = Doing(t, pc[t], item[t], taken)
                    /\ \A u \in Procs : u # t => /\ pc'[u] = pc[u] /\ item'[u] = item[u]
                                                 /\ u = Consumer => taken' = taken
           Rest == UNCHANGED <<head, headId, tail, tailId, size, next, data, enqVars, deqVars>>
<1>0. /\ DOMAIN pc = Procs /\ \A u \in Procs : pc[u] \in AllocPcs => ret[u] = "enqInit" /\ u # Consumer
      /\ pc[Consumer] = "deqCount" => size > 0
      /\ \A u \in Procs : pc[u] \in FreePcs => u = Consumer
  BY DEF Good, Types, Roles, Sizes
<1>2. ASSUME t \in Producers, EnqInit(t) PROVE Quiet
  BY <1>0, <1>2 DEF EnqInit, Doing
<1>3. ASSUME t \in Producers, EnqRead(t) PROVE Quiet
  BY <1>0, <1>3 DEF EnqRead, Doing
<1>4. ASSUME t \in Producers, EnqNext(t) PROVE Quiet
  BY <1>0, <1>4 DEF EnqNext, Doing
<1>5. ASSUME t \in Producers, EnqHelp(t) PROVE Quiet
  BY <1>0, <1>5 DEF EnqHelp, Doing
<1>6. ASSUME t \in Producers, EnqLink(t) PROVE Quiet
  BY <1>0, <1>6 DEF EnqLink, EnqLinkIf, Links, Doing
<1>7. ASSUME t \in Producers, EnqSwing(t) PROVE Quiet
  BY <1>0, <1>7 DEF EnqSwing, EnqSwingIf, Doing
<1>8. ASSUME t \in Producers, EnqCount(t) PROVE Quiet
  BY <1>0, <1>8 DEF EnqCount, Doing
<1>10. ASSUME t = Consumer, DeqCount(t) PROVE Quiet
  <2>1. size \in Nat /\ size > 0
    BY <1>0, <1>10 DEF DeqCount, Good, Sizes
  <2> QED BY <1>0, <1>10, <2>1 DEF DeqCount, Doing
<1>11. ASSUME t = Consumer, DeqHead(t) PROVE Quiet
  BY <1>0, <1>11 DEF DeqHead, Doing
<1>12. ASSUME t = Consumer, DeqTail(t) PROVE Quiet
  BY <1>0, <1>12 DEF DeqTail, Doing
<1>13. ASSUME t = Consumer, DeqNext(t) PROVE Quiet
  BY <1>0, <1>13 DEF DeqNext, Doing
<1>14. ASSUME t = Consumer, DeqData(t) PROVE Quiet
  BY <1>0, <1>14 DEF DeqData, DeqDataOf, Doing
<1>15. ASSUME AllocRead(t), Rest PROVE Quiet
  BY <1>0, <1>15 DEF AllocRead, Doing
<1>16. ASSUME AllocNext(t), Rest PROVE Quiet
  BY <1>0, <1>16 DEF AllocNext, Doing
<1>17. ASSUME AllocCas(t), Rest PROVE Quiet
  BY <1>0, <1>17 DEF AllocCas, Doing
<1>18. ASSUME FreeTag(t), Rest PROVE Quiet
  BY <1>0, <1>18 DEF FreeTag, Doing
<1>19. ASSUME FreeRead(t), Rest PROVE Quiet
  BY <1>0, <1>19 DEF FreeRead, Doing
<1>20. ASSUME FreeLink(t), Rest PROVE Quiet
  BY <1>0, <1>20 DEF FreeLink, Doing
<1>21. ASSUME FreeCas(t), Rest PROVE Quiet
  BY <1>0, <1>21 DEF FreeCas, Doing
<1> HIDE DEF Quiet, Rest
<1>22. \/ t \in Producers /\ EnqueueStep(t)
       \/ t = Consumer /\ DequeueStep(t)
       \/ PoolStep(t) /\ Rest
  BY Zenon DEF ThreadStep, PoolCall, Rest
<1>23. t \in Producers /\ EnqueueStep(t) => Quiet
  BY <1>2, <1>3, <1>4, <1>5, <1>6, <1>7, <1>8, Zenon DEF EnqueueStep
<1>24. t = Consumer /\ DequeueStep(t) => Quiet
  BY <1>10, <1>11, <1>12, <1>13, <1>14, Zenon DEF DequeueStep
<1>25. PoolStep(t) /\ Rest => Quiet
  BY <1>15, <1>16, <1>17, <1>18, <1>19, <1>20, <1>21, Zenon DEF PoolStep
<1>26. Quiet
  BY <1>22, <1>23, <1>24, <1>25, Zenon
<1> QED BY <1>26, OpStays DEF Quiet

\* Only a successful first exchange of Enqueue, or the exchange of the head,
\* changes the abstract queue.
LEMMA SameContents ==
  ASSUME NEW t \in Procs, NEW m, NEW p, NEW a, NEW b, NEW q, NEW k,
         Good(m, p, a, b, q, k), Bounds,
         ThreadStep(t), UNCHANGED putters, ~ Links(t), ~ DeqCas(t)
  PROVE  contents' = contents
<1>1. PICK m1, p1, k1 : Good(m1, p1, a, b, q, k1)'
  BY StepSame
<1>2. Path(Node(head), next, a, b, q) /\ Path(Node(head), next, a, b, q)' /\ a \in Nat /\ b \in Nat
  BY <1>1 DEF Good, Ends, Path
<1>3. contents = Listed(a, b, q, data) /\ contents' = Listed(a, b, q, data')
  BY <1>2, ContentsAre DEF Listed
<1>4. \A i \in 1 .. b - a : data'[q[a + i]] = data[q[a + i]]
  <2>1. CASE EnqInit(t)
    <3>1. \A i \in a .. b : q[i] # blk[t]
      BY <2>1, Held DEF EnqInit
    <3>2. \A i \in 1 .. b - a : a + i \in a .. b
      BY <1>2
    <3> QED BY <2>1, <3>1, <3>2 DEF EnqInit, Good, Types
  <2>2. CASE ~ EnqInit(t)
    <3>1. data' = data
      BY <2>2
         DEF ThreadStep, StartEnqueue, EnqueueStep, EnqRead, EnqNext, EnqHelp, EnqLink, EnqLinkIf, EnqSwing,
                  EnqSwingIf, EnqCount, StartDequeue, DequeueStep, DeqCount, DeqHead, DeqTail, DeqNext, DeqData,
                  DeqDataOf, PoolCall
    <3> QED BY <3>1
  <2> QED BY <2>1, <2>2
<1> QED BY <1>3, <1>4 DEF Listed

\* Every step is a step of the abstract queue, or invisible.
LEMMA Refines ==
  ASSUME NEW t \in Procs, NEW m, NEW p, NEW a, NEW b, NEW q, NEW k,
         Good(m, p, a, b, q, k), Bounds,
         ThreadStep(t), UNCHANGED putters
  PROVE  Abstract!Next \/ UNCHANGED <<contents, opState>>
<1>0. /\ DOMAIN pc = Procs /\ DOMAIN item = Producers
      /\ \A u \in Procs : pc[u] \in FreePcs => ret[u] = "idle" /\ u = Consumer
      /\ Consumer \notin Producers
  BY DEF Good, Types, Roles
<1>1. opState[t] = Doing(t, pc[t], item[t], taken)
  BY OpIs
<1>2. CASE StartEnqueue(t)
  <2>1. contents' = contents
    BY <1>2, SameContents DEF StartEnqueue, Links, EnqLink, EnqLinkIf, DeqCas
  <2>2. t \in Producers /\ t # Consumer
    BY <1>2 DEF StartEnqueue, Good, Roles
  <2>3. PICK v \in Items : item' = [item EXCEPT ![t] = v]
    BY <1>2 DEF StartEnqueue
  <2>4. /\ pc[t] = "idle" /\ Doing(t, pc'[t], item'[t], taken') = <<"put", v>>
        /\ \A u \in Procs : u # t => pc'[u] = pc[u] /\ item'[u] = item[u] /\ (u = Consumer => taken' = taken)
    BY <1>0, <1>2, <2>2, <2>3 DEF StartEnqueue, Doing
  <2>5. opState' = [opState EXCEPT ![t] = <<"put", v>>]
    BY <2>4, OpMoves
  <2>6. opState[t] = <<"idle">>
    BY <1>1, <2>2, <2>4 DEF Doing
  <2>7. Abstract!CallPut(t)
    BY <2>1, <2>3, <2>5, <2>6 DEF Abstract!CallPut
  <2> QED BY <2>7 DEF Abstract!Next
<1>3. CASE StartDequeue(t) /\ t = Consumer
  <2>1. contents' = contents
    BY <1>3, SameContents DEF StartDequeue, Links, EnqLink, EnqLinkIf, DeqCas
  <2>2. /\ pc[t] = "idle" /\ Doing(t, pc'[t], item'[t], taken') = <<"get">>
        /\ \A u \in Procs : u # t => pc'[u] = pc[u] /\ item'[u] = item[u] /\ (u = Consumer => taken' = taken)
    BY <1>0, <1>3 DEF StartDequeue, Doing
  <2>3. opState' = [opState EXCEPT ![t] = <<"get">>]
    BY <2>2, OpMoves
  <2>4. opState[t] = <<"idle">>
    BY <1>1, <1>3, <2>2 DEF Doing
  <2>5. Abstract!CallGet(t)
    BY <2>1, <2>3, <2>4 DEF Abstract!CallGet
  <2> QED BY <2>5 DEF Abstract!Next
<1>4. CASE FreeCas(t) /\ pTop = pVal[t]
  <2>0. pc[t] = "freeCas" /\ t = Consumer
    BY <1>0, <1>4 DEF FreeCas
  <2>1. UNCHANGED <<head, headId, tail, tailId, size, next, data, enqVars, deqVars>>
    BY <2>0
       DEF ThreadStep, StartDequeue, DequeueStep, DeqCount, DeqHead, DeqTail, DeqNext, DeqData, DeqDataOf,
                DeqCas, PoolCall
  <2>2. contents' = contents
    BY <2>1 DEF contents, Linked
  <2>3. /\ Doing(t, pc'[t], item'[t], taken') = <<"idle">>
        /\ \A u \in Procs : u # t => pc'[u] = pc[u] /\ item'[u] = item[u] /\ (u = Consumer => taken' = taken)
    BY <1>0, <1>4, <2>0, <2>1 DEF FreeCas, Doing
  <2>4. opState' = [opState EXCEPT ![t] = <<"idle">>]
    BY <2>3, OpMoves
  <2>5. opState[t][1] = "got"
    BY <1>1, <2>0 DEF Doing
  <2>6. Abstract!Return(t)
    BY <2>2, <2>4, <2>5 DEF Abstract!Return
  <2> QED BY <2>6 DEF Abstract!Next
<1>5. CASE Links(t)
  <2>0. t \in Producers /\ t # Consumer /\ pc[t] = "enqLink"
    BY <1>0, <1>5, WhoMoves DEF Links, EnqLink, EnqLinkIf
  <2>1. PICK g : Good(m, p, a, b + 1, g, k)' /\ g[b + 1] = blk[t] /\ \A i \in a .. b : g[i] = q[i]
    BY <1>5, <2>0, StepEnqLink DEF Links
  <2>2. Path(Node(head), next, a, b, q) /\ Path(Node(head), next, a, b + 1, g)' /\ a \in Nat /\ b \in Nat /\ a <= b
    BY <2>1 DEF Good, Ends, Path
  <2>3. contents = Listed(a, b, q, data) /\ contents' = Listed(a, b + 1, g, data')
    BY <2>2, ContentsAre DEF Listed
  <2>4. data' = data /\ data[blk[t]] = item[t]
    BY <1>5, <2>0 DEF Links, EnqLink, EnqLinkIf, Good, Contents
  <2>5. contents' = Append(contents, item[t])
    <3>1. PICK n : n = b - a /\ n \in Nat
      BY <2>2
    <3>2. Listed(a, b, q, data) = [i \in 1 .. n |-> data[q[a + i]]]
      BY <3>1 DEF Listed
    <3>3. Append(Listed(a, b, q, data), item[t])
            = [i \in 1 .. n + 1 |-> IF i = n + 1 THEN item[t] ELSE data[q[a + i]]]
      BY <3>1, <3>2
    <3>4. \A i \in 1 .. n + 1 : data[g[a + i]] = IF i = n + 1 THEN item[t] ELSE data[q[a + i]]
      <4> TAKE i \in 1 .. n + 1
      <4>1. i = n + 1 => a + i = b + 1
        BY <2>2, <3>1
      <4>2. i # n + 1 => a + i \in a .. b
        BY <2>2, <3>1
      <4> QED BY <2>1, <2>4, <4>1, <4>2
    <3>5. b + 1 - a = n + 1
      BY <2>2, <3>1
    <3>6. Listed(a, b + 1, g, data) = [i \in 1 .. n + 1 |-> data[g[a + i]]]
      BY <2>2, <3>1, <3>5 DEF Listed
    <3> QED BY <2>3, <2>4, <3>3, <3>4, <3>6
  <2>6. /\ Doing(t, pc'[t], item'[t], taken') = <<"idle">>
        /\ \A u \in Procs : u # t => pc'[u] = pc[u] /\ item'[u] = item[u] /\ (u = Consumer => taken' = taken)
    BY <1>0, <1>5, <2>0 DEF Links, EnqLink, EnqLinkIf, Doing
  <2>7. opState' = [opState EXCEPT ![t] = <<"idle">>]
    BY <2>6, OpMoves
  <2>8. opState[t] = <<"put", item[t]>>
    BY <1>1, <2>0 DEF Doing
  <2>9. Abstract!DoPut(t)
    BY <2>5, <2>7, <2>8 DEF Abstract!DoPut
  <2> QED BY <2>9 DEF Abstract!Next
<1>6. CASE DeqCas(t)
  <2>0. t = Consumer /\ pc[t] = "deqCas" /\ headVal = head /\ taken = data[q[a + 1]]
    BY <1>6, WhoMoves DEF DeqCas, Good, Dequeues, Contents
  <2>1. Good(m, p, a + 1, b, q, k)'
    BY <1>6, <2>0, StepDeqCas
  <2>2. Path(Node(head), next, a, b, q) /\ Path(Node(head), next, a + 1, b, q)' /\ a \in Nat /\ b \in Nat /\ a + 1 <= b
    BY <2>1 DEF Good, Ends, Path
  <2>3. contents = Listed(a, b, q, data) /\ contents' = Listed(a + 1, b, q, data')
    <3>1. PICK c : c = a + 1 /\ c \in Nat
      BY <2>2
    <3>2. Path(Node(head), next, c, b, q)'
      BY <2>2, <3>1
    <3>3. contents = Listed(a, b, q, data) /\ contents' = Listed(c, b, q, data')
      BY <2>2, <3>2, ContentsAre DEF Listed
    <3> QED BY <3>1, <3>3
  <2>4. data' = data /\ taken' = taken /\ pc' = [pc EXCEPT ![t] = "free"] /\ item' = item
    BY <1>6, <2>0 DEF DeqCas
  <2>5. contents # <<>> /\ Head(contents) = taken /\ contents' = Tail(contents)
    <3>1. PICK n : n = b - a /\ n \in Nat /\ n >= 1
      BY <2>2
    <3>2. Listed(a, b, q, data) = [i \in 1 .. n |-> data[q[a + i]]]
      BY <3>1 DEF Listed
    <3>3. /\ Listed(a, b, q, data) # <<>> /\ Head(Listed(a, b, q, data)) = data[q[a + 1]]
          /\ Tail(Listed(a, b, q, data)) = [i \in 1 .. n - 1 |-> data[q[a + (i + 1)]]]
      BY <3>1, <3>2
    <3>4. b - (a + 1) = n - 1 /\ \A i \in 1 .. n - 1 : a + 1 + i = a + (i + 1)
      BY <2>2, <3>1
    <3>5. Listed(a + 1, b, q, data) = [i \in 1 .. n - 1 |-> data[q[a + (i + 1)]]]
      BY <3>4 DEF Listed
    <3> QED BY <2>0, <2>3, <2>4, <3>3, <3>5
  <2>6. /\ Doing(t, pc'[t], item'[t], taken') = <<"got", taken>>
        /\ \A u \in Procs : u # t => pc'[u] = pc[u] /\ item'[u] = item[u] /\ (u = Consumer => taken' = taken)
    BY <1>0, <2>0, <2>4 DEF Doing
  <2>7. opState' = [opState EXCEPT ![t] = <<"got", taken>>]
    BY <2>6, OpMoves
  <2>8. opState[t] = <<"get">>
    BY <1>1, <2>0 DEF Doing
  <2>9. Abstract!DoGet(t)
    BY <2>5, <2>7, <2>8 DEF Abstract!DoGet
  <2> QED BY <2>9 DEF Abstract!Next
<1>7. CASE /\ ~ StartEnqueue(t) /\ ~ StartDequeue(t) /\ ~ Links(t) /\ ~ DeqCas(t)
           /\ ~ (FreeCas(t) /\ pTop = pVal[t])
  BY <1>7, Silent, SameContents
<1>8. StartDequeue(t) => StartEnqueue(t) \/ t = Consumer
  BY DEF ThreadStep, StartDequeue, EnqueueStep, EnqInit, EnqRead, EnqNext, EnqHelp, EnqLink, EnqLinkIf, EnqSwing,
         EnqSwingIf, EnqCount, PoolCall, PoolStep, AllocRead, AllocNext, AllocCas, FreeTag, FreeRead, FreeLink,
         FreeCas
<1> QED BY <1>2, <1>3, <1>4, <1>5, <1>6, <1>7, <1>8, Zenon

\* The packets to send form a queue: Enqueue takes effect with its first
\* exchange, Dequeue with its exchange of the head (CLockFreeQueue.h).
THEOREM LinearizableQueue ==
  ASSUME IsFiniteSet(Procs)
  PROVE  Spec => Linearizable
<1>1. Bounds
  BY DEF Bounds
<1>2. Spec => []IInv
  BY <1>1, Invariance
<1>3. Init => Abstract!Init
  <2> SUFFICES ASSUME Init PROVE Abstract!Init
    OBVIOUS
  <2>1. opState = [t \in Procs |-> <<"idle">>]
    BY OpIs DEF Init, Doing
  <2>2. PICK dummy \in Blocks : head = <<headId, dummy>> /\ next = [b \in Blocks |-> Null]
    BY DEF Init
  <2>3. Path(Node(head), next, 0, 0, [i \in 0 .. 0 |-> dummy])
    BY <2>2 DEF Path, Node
  <2>4. contents = Listed(0, 0, [i \in 0 .. 0 |-> dummy], data)
    BY <2>3, ContentsAre
  <2>5. contents = <<>>
    BY <2>4 DEF Listed
  <2> QED BY <2>1, <2>5 DEF Abstract!Init
<1>4. IInv /\ [Next]_vars => [Abstract!Next]_<<contents, opState>>
  <2> SUFFICES ASSUME IInv, [Next]_vars PROVE Abstract!Next \/ UNCHANGED <<contents, opState>>
    OBVIOUS
  <2>1. CASE UNCHANGED vars
    BY <2>1 DEF contents, Linked, opState
  <2>2. CASE Next
    <3>1. PICK m, p, a, b, q, k : Good(m, p, a, b, q, k)
      BY Zenon DEF IInv
    <3>2. PICK t \in Procs : ThreadStep(t) /\ UNCHANGED putters
      BY <2>2, SomeThread, Zenon
    <3> QED BY <1>1, <3>1, <3>2, Refines
  <2> QED BY <2>1, <2>2
<1> QED BY <1>2, <1>3, <1>4, PTL DEF Spec, Linearizable, Abstract!Spec
=============================================================================
