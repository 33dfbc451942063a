---------------------------- MODULE KVCacheProofs ----------------------------
(***************************************************************************)
(* The paged KV cache, for every number of blocks, block size and set of   *)
(* requests: the reference counts and the free queue are exact, no request  *)
(* reads the keys and values of another, the prefix cache tells the truth   *)
(* and its chains lose their tail first.  Then the scheduler that retains   *)
(* finished turns in it: a pin keeps a turn's prefix, nothing else retains  *)
(* blocks, and there is always something to give up for a running request.  *)
(***************************************************************************)
EXTENDS PinnedKV, CollectionLemmas

\* A request has the blocks and the hashes that its computed tokens need.
SizesFit ==
    \A r \in Requests :
        /\ computed[r] <= Len(Content[r])
        /\ Len(table[r]) = Cdiv(computed[r], BlockSize)
        /\ numCached[r] = Floor(computed[r], BlockSize)

\* Only a block with a hash is shared: a partly filled one has one owner.
SharedAreHashed ==
    \A r, q \in Requests : r # q =>
        \A i \in DOMAIN table[r], j \in DOMAIN table[q] :
            table[r][i] = table[q][j] => blockHash[table[r][i]] # NoHash

\* A cached block that nobody references is evicted before some block that
\* holds the prefix in front of it, or that one is still referenced.
TailBeforeHead ==
    \A r \in Requests : \A i \in FullBlocks(r), b \in Blocks :
        i > 1 /\ refCnt[b] = 0 /\ blockHash[b] = HashOf(r, i) =>
            \E c \in Blocks : /\ blockHash[c] = HashOf(r, i - 1)
                              /\ refCnt[c] > 0 \/ Precedes(freeQueue, b, c)

CacheInv ==
    /\ BooksTypeOK /\ RefCountExact /\ SizesFit /\ SharedAreHashed
    /\ ContentIsolated /\ CacheMapConsistent /\ TailBeforeHead

-----------------------------------------------------------------------------
(* Block arithmetic. *)

\* Whole blocks are ordered like their number.
LEMMA Products ==
    /\ BlockSize \in Nat \ {0}
    /\ \A i, j \in Nat : /\ i * BlockSize \in Nat
                         /\ i <= j <=> i * BlockSize <= j * BlockSize
                         /\ i = j <=> i * BlockSize = j * BlockSize
                         /\ i > 0 => i * BlockSize > 0
<1>1. BlockSize \in Nat \ {0}
  BY CacheAssumption
<1>2. ASSUME NEW b \in Nat \ {0}, NEW i \in Nat, NEW j \in Nat
      PROVE  /\ i * b \in Nat
             /\ i <= j <=> i * b <= j * b
             /\ i = j <=> i * b = j * b
             /\ i > 0 => i * b > 0
  <2>1. i * b \in Nat /\ j * b \in Nat /\ (i > 0 => i * b > 0)
    BY Z3
  <2>2. i <= j => i * b <= j * b
    BY Z3
  <2>3. ASSUME i > j PROVE i * b > j * b
    <3>1. i - j \in Nat \ {0} /\ i = (i - j) + j
      BY <2>3
    <3>2. (i - j) * b > 0
      BY <3>1, Z3
    <3>3. (i - j) * b = i * b - j * b
      BY Z3
    <3> QED
      BY <2>1, <3>2, <3>3
  <2>4. i < j => i * b < j * b
    <3> SUFFICES ASSUME i < j PROVE i * b < j * b
      OBVIOUS
    <3>1. j - i \in Nat \ {0} /\ j = (j - i) + i
      OBVIOUS
    <3>2. (j - i) * b > 0
      BY <3>1, Z3
    <3>3. (j - i) * b = j * b - i * b
      BY Z3
    <3> QED
      BY <2>1, <3>2, <3>3
  <2> QED
    BY <2>1, <2>2, <2>3, <2>4
<1> QED
  BY <1>1, <1>2

\* The blocks that a tokens fill.
LEMMA Floors ==
    ASSUME NEW a \in Nat
    PROVE  /\ Floor(a, BlockSize) \in Nat
           /\ \A i \in Nat : i <= Floor(a, BlockSize) <=> i * BlockSize <= a
<1> DEFINE q == Floor(a, BlockSize)
<1>1. q \in Nat /\ q * BlockSize <= a /\ a < (q + 1) * BlockSize
  <2>1. ASSUME NEW b \in Nat \ {0}
        PROVE  a \div b \in Nat /\ (a \div b) * b <= a /\ a < ((a \div b) + 1) * b
    BY Z3
  <2> QED
    BY <2>1, Products DEF Floor
<1> HIDE DEF q
<1>2. ASSUME NEW i \in Nat PROVE i <= q <=> i * BlockSize <= a
  <2>1. /\ i <= q <=> i * BlockSize <= q * BlockSize
        /\ q + 1 <= i <=> (q + 1) * BlockSize <= i * BlockSize
    BY <1>1, Products
  <2>2. i * BlockSize \in Nat /\ q * BlockSize \in Nat /\ (q + 1) * BlockSize \in Nat
    BY <1>1, Products
  <2> QED
    BY <1>1, <2>1, <2>2
<1> QED
  BY <1>1, <1>2 DEF q

\* The blocks that a tokens need.
LEMMA Ceilings ==
    ASSUME NEW a \in Nat
    PROVE  /\ Cdiv(a, BlockSize) \in Nat
           /\ \A i \in Nat : i < Cdiv(a, BlockSize) <=> i * BlockSize < a
<1> DEFINE q == Cdiv(a, BlockSize)
<1>1. /\ q \in Nat /\ q * BlockSize <= a + BlockSize - 1
      /\ a + BlockSize - 1 < (q + 1) * BlockSize
  <2>1. ASSUME NEW b \in Nat \ {0}, NEW c \in Nat
        PROVE  c \div b \in Nat /\ (c \div b) * b <= c /\ c < ((c \div b) + 1) * b
    BY Z3
  <2>2. a + BlockSize - 1 \in Nat
    BY Products
  <2> QED
    BY <2>1, <2>2, Products DEF Cdiv
<1> HIDE DEF q
<1>2. ASSUME NEW i \in Nat PROVE i < q <=> i * BlockSize < a
  <2>1. /\ i + 1 <= q <=> (i + 1) * BlockSize <= q * BlockSize
        /\ q <= i <=> q * BlockSize <= i * BlockSize
    BY <1>1, Products
  <2>2. /\ i * BlockSize \in Nat /\ q * BlockSize \in Nat /\ BlockSize \in Nat
        /\ (i + 1) * BlockSize = i * BlockSize + BlockSize
        /\ (q + 1) * BlockSize = q * BlockSize + BlockSize
    <3>1. \A x, b \in Nat : (x + 1) * b = x * b + b
      BY Z3
    <3> QED
      BY <1>1, <3>1, Products
  <2> QED
    BY <1>1, <2>1, <2>2
<1> QED
  BY <1>1, <1>2 DEF q

\* More tokens fill and need at least as many blocks.
LEMMA BlockCounts ==
    ASSUME NEW a \in Nat, NEW c \in Nat, a <= c
    PROVE  /\ Floor(a, BlockSize) <= Floor(c, BlockSize)
           /\ Cdiv(a, BlockSize) <= Cdiv(c, BlockSize)
           /\ Floor(a, BlockSize) <= Cdiv(a, BlockSize)
           /\ Cdiv(a, BlockSize) = 0 <=> a = 0
<1> DEFINE fa == Floor(a, BlockSize)
           fc == Floor(c, BlockSize)
           ca == Cdiv(a, BlockSize)
           cc == Cdiv(c, BlockSize)
<1>1. /\ fa \in Nat /\ fc \in Nat
      /\ \A i \in Nat : i <= fa <=> i * BlockSize <= a
      /\ \A i \in Nat : i <= fc <=> i * BlockSize <= c
  BY Floors
<1>2. /\ ca \in Nat /\ cc \in Nat
      /\ \A i \in Nat : i < ca <=> i * BlockSize < a
      /\ \A i \in Nat : i < cc <=> i * BlockSize < c
  BY Ceilings
<1> HIDE DEF fa, fc, ca, cc
<1>3. \A i \in Nat : i * BlockSize \in Nat
  BY Products
<1>4. fa <= fc
  BY <1>1, <1>3
<1>5. ca <= cc
  BY <1>2, <1>3
<1>6. fa <= ca
  <2>1. fa * BlockSize <= a /\ ~(ca * BlockSize < a)
    BY <1>1, <1>2
  <2>2. fa * BlockSize \in Nat /\ ca * BlockSize \in Nat
    BY <1>1, <1>2, <1>3
  <2>3. fa * BlockSize <= ca * BlockSize
    BY <2>1, <2>2
  <2> QED
    BY <1>1, <1>2, <2>3, Products
<1>7. ca = 0 <=> a = 0
  <2>1. 0 < ca <=> 0 * BlockSize < a
    BY <1>2
  <2>2. 0 * BlockSize = 0
    BY Products
  <2> QED
    BY <1>2, <2>1, <2>2
<1> QED
  BY <1>4, <1>5, <1>6, <1>7 DEF fa, fc, ca, cc

-----------------------------------------------------------------------------
(* Block hashes. *)

\* Lists that agree on a prefix agree on a shorter one.
LEMMA ShorterPrefix ==
    ASSUME NEW A, NEW B, NEW s \in Seq(A), NEW t \in Seq(B), NEW m \in Nat, NEW l \in Nat,
           l <= m, m <= Len(s), m <= Len(t), SubSeq(s, 1, m) = SubSeq(t, 1, m)
    PROVE  SubSeq(s, 1, l) = SubSeq(t, 1, l)
<1>1. \A i \in 1..m : SubSeq(s, 1, m)[i] = s[i] /\ SubSeq(t, 1, m)[i] = t[i]
  OBVIOUS
<1>2. \A i \in 1..m : s[i] = t[i]
  BY <1>1
<1>3. \A i \in 1..l : s[i] = t[i] /\ s[i] \in A \cup B
  BY <1>2
<1> DEFINE u == SubSeq(s, 1, l)
           v == SubSeq(t, 1, l)
<1>4. /\ u \in Seq(A \cup B) /\ v \in Seq(A \cup B) /\ Len(u) = l /\ Len(v) = l
      /\ \A i \in 1..l : u[i] = s[i] /\ v[i] = t[i]
  <2>1. u \in Seq(A) /\ v \in Seq(B) /\ A \subseteq A \cup B /\ B \subseteq A \cup B
    OBVIOUS
  <2>2. u \in Seq(A \cup B) /\ v \in Seq(A \cup B)
    <3> HIDE DEF u, v
    <3> QED
      BY <2>1, SeqMonotonic
  <2> QED
    BY <2>2
<1> HIDE DEF u, v
<1>5. u = v
  BY <1>3, <1>4, SeqEqual
<1> QED
  BY <1>5 DEF u, v

\* The hash of the i-th block stands for i whole blocks of tokens.
LEMMA HashLength ==
    ASSUME NEW r \in Requests
    PROVE  /\ Len(Content[r]) \in Nat \ {0}
           /\ Floor(Len(Content[r]), BlockSize) \in Nat
           /\ \A i \in FullBlocks(r) :
                 /\ i \in Nat \ {0} /\ i * BlockSize \in Nat \ {0}
                 /\ i * BlockSize <= Len(Content[r])
                 /\ Len(HashOf(r, i)) = i * BlockSize
                 /\ HashOf(r, i) \in Hashes
<1> DEFINE A == ToSet(Content[r])
<1>1. Content[r] \in Seq(A) /\ Content[r] # <<>>
  BY CacheAssumption
<1> HIDE DEF A
<1>2. Len(Content[r]) \in Nat \ {0}
  BY <1>1
<1>3. /\ Floor(Len(Content[r]), BlockSize) \in Nat
      /\ \A i \in Nat : i <= Floor(Len(Content[r]), BlockSize)
                            <=> i * BlockSize <= Len(Content[r])
  BY <1>2, Floors
<1>4. ASSUME NEW i \in FullBlocks(r)
      PROVE  /\ i \in Nat \ {0} /\ i * BlockSize \in Nat \ {0}
             /\ i * BlockSize <= Len(Content[r])
             /\ Len(HashOf(r, i)) = i * BlockSize
             /\ HashOf(r, i) \in Hashes
  <2>1. i \in Nat \ {0} /\ i <= Floor(Len(Content[r]), BlockSize)
    BY <1>3 DEF FullBlocks
  <2> DEFINE m == i * BlockSize
  <2>2. m \in Nat \ {0} /\ m <= Len(Content[r])
    BY <1>3, <2>1, Products
  <2>3. HashOf(r, i) = SubSeq(Content[r], 1, m)
    BY DEF HashOf
  <2> HIDE DEF m
  <2>4. Len(SubSeq(Content[r], 1, m)) = m
    BY <1>1, <2>2
  <2>5. HashOf(r, i) \in Hashes
    BY DEF Hashes
  <2> QED
    BY <2>1, <2>2, <2>3, <2>4, <2>5 DEF m
<1> QED
  BY <1>2, <1>3, <1>4

\* A request without tokens has no hash.
LEMMA NoHashIsNone == NoHash \notin Hashes
<1> SUFFICES ASSUME NEW r \in Requests, NEW i \in FullBlocks(r), HashOf(r, i) = NoHash
             PROVE  FALSE
  BY DEF Hashes
<1>1. Len(HashOf(r, i)) = i * BlockSize /\ i * BlockSize \in Nat \ {0}
  BY HashLength
<1>2. Len(NoHash) = 0
  BY DEF NoHash
<1> DEFINE m == i * BlockSize
<1> HIDE DEF m
<1>3. m # 0 /\ Len(HashOf(r, i)) = m
  BY <1>1 DEF m
<1> QED
  BY <1>2, <1>3

\* Equal hashes belong to the same place of two chains, which agree up to there.
LEMMA HashChains ==
    \A r, q \in Requests : \A i \in FullBlocks(r), j \in FullBlocks(q) :
        HashOf(r, i) = HashOf(q, j) =>
            /\ i = j
            /\ i > 1 => /\ i - 1 \in FullBlocks(r) /\ i - 1 \in FullBlocks(q)
                        /\ HashOf(r, i - 1) = HashOf(q, i - 1)
<1> SUFFICES ASSUME NEW r \in Requests, NEW q \in Requests,
                    NEW i \in FullBlocks(r), NEW j \in FullBlocks(q),
                    HashOf(r, i) = HashOf(q, j)
             PROVE  /\ i = j
                    /\ i > 1 => /\ i - 1 \in FullBlocks(r) /\ i - 1 \in FullBlocks(q)
                                /\ HashOf(r, i - 1) = HashOf(q, i - 1)
  OBVIOUS
<1>1. /\ i \in Nat \ {0} /\ j \in Nat \ {0}
      /\ Len(HashOf(r, i)) = i * BlockSize /\ Len(HashOf(q, j)) = j * BlockSize
      /\ i * BlockSize <= Len(Content[r]) /\ j * BlockSize <= Len(Content[q])
  BY HashLength
<1>2. i = j
  BY <1>1, Products
<1>3. ASSUME i > 1
      PROVE  /\ i - 1 \in FullBlocks(r) /\ i - 1 \in FullBlocks(q)
             /\ HashOf(r, i - 1) = HashOf(q, i - 1)
  <2>1. i - 1 \in Nat \ {0} /\ i - 1 <= i
    BY <1>1, <1>3
  <2>2. /\ Floor(Len(Content[r]), BlockSize) \in Nat
        /\ Floor(Len(Content[q]), BlockSize) \in Nat
    BY HashLength
  <2>3. i - 1 \in FullBlocks(r) /\ i - 1 \in FullBlocks(q)
    BY <1>2, <2>1, <2>2 DEF FullBlocks
  <2> DEFINE m == i * BlockSize
             l == (i - 1) * BlockSize
  <2>4. m \in Nat /\ l \in Nat /\ l <= m
    BY <1>1, <2>1, Products
  <2>5. m <= Len(Content[r]) /\ m <= Len(Content[q])
    BY <1>1, <1>2
  <2>6. SubSeq(Content[r], 1, m) = SubSeq(Content[q], 1, m)
    BY <1>2 DEF HashOf
  <2> HIDE DEF m, l
  <2>7. /\ Content[r] \in Seq(ToSet(Content[r]))
        /\ Content[q] \in Seq(ToSet(Content[q]))
    BY CacheAssumption
  <2>8. SubSeq(Content[r], 1, l) = SubSeq(Content[q], 1, l)
    BY <2>4, <2>5, <2>6, <2>7, ShorterPrefix
  <2> QED
    BY <2>3, <2>8 DEF HashOf, l
<1> QED
  BY <1>2, <1>3

\* No two full blocks of a request have the same hash.
LEMMA HashesDistinct ==
    ASSUME NEW r \in Requests, NEW i \in FullBlocks(r), NEW j \in FullBlocks(r),
           HashOf(r, i) = HashOf(r, j)
    PROVE  i = j
  BY HashChains

\* A block hash is found at one place of a chain only.
LEMMA HashPlace ==
    \A r, q \in Requests : \A i \in FullBlocks(r), j \in FullBlocks(q) :
        HashOf(r, i) = HashOf(q, j) => i = j
  BY HashChains

\* Two chains that share a block hash share the one in front of it.
LEMMA HashBefore ==
    \A r, q \in Requests : \A i :
        /\ i \in FullBlocks(r) /\ i \in FullBlocks(q) /\ i > 1 /\ HashOf(r, i) = HashOf(q, i)
        => HashOf(r, i - 1) = HashOf(q, i - 1)
  BY HashChains

-----------------------------------------------------------------------------
(* The steps. *)

\* A block is free exactly if no request has it.
LEMMA Unowned ==
    ASSUME BooksTypeOK, RefCountExact
    PROVE  /\ \A b \in Blocks : refCnt[b] = 0 <=> \A q \in Requests : b \notin ToSet(table[q])
           /\ \A q \in Requests : IsInjective(table[q])
           /\ IsInjective(freeQueue)
<1>1. ASSUME NEW b \in Blocks
      PROVE  refCnt[b] = 0 <=> \A q \in Requests : b \notin ToSet(table[q])
  <2> DEFINE O == {r \in Requests : Contains(table[r], b)}
  <2>1. IsFiniteSet(O)
    BY CacheAssumption, FS_Subset
  <2>2. refCnt[b] = Cardinality(O)
    BY DEF RefCountExact
  <2>3. refCnt[b] = 0 <=> O = {}
    <3> HIDE DEF O
    <3> QED
      BY <2>1, <2>2, FS_EmptySet
  <2>4. \A q \in Requests : Contains(table[q], b) <=> b \in ToSet(table[q])
    BY DEF Contains, ToSet, BooksTypeOK
  <2> QED
    BY <2>3, <2>4
<1>2. ASSUME NEW q \in Requests PROVE IsInjective(table[q])
  BY DEF RefCountExact, IsInjective
<1>3. IsInjective(freeQueue)
  BY DEF RefCountExact, IsInjective
<1> QED
  BY <1>1, <1>2, <1>3

\* hits is a chain of cached blocks that prefix caching may have found for r.
Found(r, hits) ==
    /\ hits \in Seq(Blocks)
    /\ Len(hits) <= Floor(Len(Content[r]), BlockSize)
    /\ \A i \in 1..Len(hits) : blockHash[hits[i]] = HashOf(r, i)
    /\ table[r] # <<>> => hits = <<>>

\* The tokens of r that need no new slots.
Ready(r, hits) == IF table[r] = <<>> THEN Len(hits) * BlockSize ELSE computed[r]

\* allocate_slots keeps the inductive invariant, for every chain of hits.
LEMMA AllocateKeeps ==
    ASSUME CacheInv, NEW r \in Requests, NEW hits, Found(r, hits),
           NEW n \in 1..Len(Content[r]), n >= Ready(r, hits),
           AllocateSlots(r, hits, n)
    PROVE  CacheInv' /\ ToSet(table[r]) \subseteq ToSet(table'[r])
<1> DEFINE k == NewBlockCount(r, hits, n)
           queue == Touched(freeQueue, hits)
           new == Popped(queue, k)
           rest == AfterPop(queue, k)
           old == table[r] \o hits
           tbl == old \o new
           before == IF table[r] = <<>> THEN Len(hits) ELSE numCached[r]
           full == Floor(n, BlockSize)
<1>1. /\ Len(Content[r]) \in Nat \ {0} /\ n \in Nat \ {0} /\ BlockSize \in Nat \ {0}
      /\ Floor(Len(Content[r]), BlockSize) \in Nat
  BY HashLength, Products
<1>2. /\ table[r] \in Seq(Blocks) /\ hits \in Seq(Blocks) /\ freeQueue \in Seq(Blocks)
      /\ Len(table[r]) \in Nat /\ Len(hits) \in Nat /\ computed[r] \in Nat
      /\ DOMAIN table[r] = 1..Len(table[r])
      /\ numCached[r] = Floor(computed[r], BlockSize)
      /\ Len(table[r]) = Cdiv(computed[r], BlockSize)
  BY DEF Found, CacheInv, BooksTypeOK, SizesFit
<1>3. /\ freeQueue' = rest
      /\ refCnt' = AddRefs(refCnt, ToSet(hits) \cup ToSet(new))
      /\ table' = [table EXCEPT ![r] = tbl]
      /\ numCached' = [numCached EXCEPT ![r] = full]
      /\ computed' = [computed EXCEPT ![r] = n]
      /\ BlocksToAllocate(refCnt, r, hits, n) <= Len(freeQueue)
      /\ cached' = CacheFull(Evict(cached, new), r, tbl, before, full)
  BY DEF AllocateSlots, AllocateFrom
<1>4. /\ full \in Nat /\ before \in Nat /\ before <= full
      /\ Floor(Ready(r, hits), BlockSize) = before
      /\ Len(old) = Len(table[r]) + Len(hits) /\ before <= Len(old)
      /\ Len(old) <= Cdiv(n, BlockSize) /\ full <= Cdiv(n, BlockSize)
      /\ Cdiv(n, BlockSize) \in Nat
      /\ k = Cdiv(n, BlockSize) - Len(old)
      /\ full <= Floor(Len(Content[r]), BlockSize)
      /\ \A i \in 1..full : i * BlockSize <= n /\ i \in FullBlocks(r)
  <2>1. full \in Nat /\ Cdiv(n, BlockSize) \in Nat /\ full <= Cdiv(n, BlockSize)
    BY <1>1, Floors, Ceilings, BlockCounts
  <2>2. Len(old) = Len(table[r]) + Len(hits)
    BY <1>2, ConcatProperties
  <2>3. k = Cdiv(n, BlockSize) - Len(old)
    BY <1>2, <2>1, <2>2 DEF NewBlockCount
  <2>4. full <= Floor(Len(Content[r]), BlockSize)
    BY <1>1, BlockCounts
  <2>5. \A i \in 1..full : i * BlockSize <= n /\ i \in FullBlocks(r)
    <3> SUFFICES ASSUME NEW i \in 1..full PROVE i * BlockSize <= n /\ i \in FullBlocks(r)
      OBVIOUS
    <3> HIDE DEF full
    <3>1. i \in Nat /\ i <= full /\ i <= Floor(Len(Content[r]), BlockSize)
      BY <1>1, <2>1, <2>4
    <3>2. i * BlockSize <= n
      BY <1>1, <3>1, Floors DEF full
    <3>3. i \in FullBlocks(r)
      BY <1>1, <3>1 DEF FullBlocks
    <3> QED
      BY <3>2, <3>3
  <2>6. CASE table[r] = <<>>
    <3>1. before = Len(hits) /\ Len(table[r]) = 0 /\ Ready(r, hits) = Len(hits) * BlockSize
      BY <2>6 DEF Ready
    <3>2. Len(hits) * BlockSize <= n /\ Len(hits) * BlockSize \in Nat
      BY <1>2, <3>1, Products
    <3>3. Len(hits) <= full
      <4>1. n \in Nat /\ Len(hits) \in Nat /\ Len(hits) * BlockSize <= n
        BY <1>1, <1>2, <3>2
      <4>2. \A i \in Nat : i <= Floor(n, BlockSize) <=> i * BlockSize <= n
        BY <4>1, Floors
      <4> QED
        BY <4>1, <4>2
    <3>4. Len(hits) <= Cdiv(n, BlockSize)
      BY <1>2, <2>1, <3>3
    <3>5. Floor(Len(hits) * BlockSize, BlockSize) = Len(hits)
      <4> DEFINE m == Len(hits) * BlockSize
                 f == Floor(m, BlockSize)
      <4>1. m \in Nat
        BY <3>2
      <4> HIDE DEF m
      <4>2. f \in Nat /\ \A i \in Nat : i <= f <=> i * BlockSize <= m
        BY <4>1, Floors
      <4> HIDE DEF f
      <4>3. Len(hits) <= f
        BY <1>2, <4>1, <4>2 DEF m
      <4>4. f * BlockSize <= m
        BY <4>2
      <4>5. f <= Len(hits)
        BY <1>2, <4>2, <4>4, Products DEF m
      <4> QED
        BY <1>2, <4>2, <4>3, <4>5 DEF f, m
    <3> HIDE DEF before, full, old, k
    <3> QED
      BY <1>2, <2>1, <2>2, <2>3, <2>4, <2>5, <3>1, <3>3, <3>4, <3>5
  <2>7. CASE table[r] # <<>>
    <3>1. before = Floor(computed[r], BlockSize) /\ Ready(r, hits) = computed[r]
      BY <1>2, <2>7 DEF Ready
    <3>2. Len(hits) = 0
      BY <2>7 DEF Found
    <3>3. computed[r] <= n
      BY <1>1, <1>2, <3>1
    <3>4. /\ Floor(computed[r], BlockSize) <= full
          /\ Cdiv(computed[r], BlockSize) <= Cdiv(n, BlockSize)
          /\ Floor(computed[r], BlockSize) <= Cdiv(computed[r], BlockSize)
          /\ Floor(computed[r], BlockSize) \in Nat
      BY <1>1, <1>2, <3>3, BlockCounts, Floors
    <3> HIDE DEF before, full, old, k
    <3> QED
      BY <1>2, <2>1, <2>2, <2>3, <2>4, <2>5, <3>1, <3>2, <3>4
  <2> QED
    BY <2>6, <2>7
\* The blocks that r has or shares: the full ones carry their hash, a partly filled
\* one has none and belongs to r alone.
<1>5. /\ old \in Seq(Blocks) /\ IsInjective(old)
      /\ DOMAIN old = 1..Len(old)
      /\ ToSet(old) = ToSet(table[r]) \cup ToSet(hits)
      /\ ToSet(table[r]) \cap ToSet(hits) = {}
  <2>1. IsInjective(table[r])
    BY Unowned DEF CacheInv
  <2>2. IsInjective(hits)
    <3> SUFFICES ASSUME NEW i \in 1..Len(hits), NEW j \in 1..Len(hits), hits[i] = hits[j]
                 PROVE  i = j
      BY <1>2 DEF IsInjective
    <3>1. HashOf(r, i) = HashOf(r, j)
      BY DEF Found
    <3>2. i \in FullBlocks(r) /\ j \in FullBlocks(r)
      BY <1>1, <1>2 DEF Found, FullBlocks
    <3> QED
      BY <3>1, <3>2, HashChains
  <2>3. ToSet(table[r]) \cap ToSet(hits) = {}
    <3>1. ToSet(<<>>) = {}
      BY DEF ToSet
    <3> QED
      BY <3>1 DEF Found
  <2>4. old \in Seq(Blocks)
    BY <1>2, ConcatProperties
  <2> QED
    BY <1>2, <2>1, <2>2, <2>3, <2>4, ConcatElements
<1>6. \A i \in 1..before : blockHash[old[i]] = HashOf(r, i) /\ i \in FullBlocks(r)
  <2> SUFFICES ASSUME NEW i \in 1..before
               PROVE  blockHash[old[i]] = HashOf(r, i)
    <3>1. \A i \in 1..before : i \in 1..full
      <4> HIDE DEF before, full
      <4> QED
        BY <1>4
    <3> QED
      BY <1>4, <3>1
  <2>1. CASE table[r] = <<>>
    <3>1. old = hits
      BY <1>2, <2>1, ConcatEmptySeq
    <3> QED
      BY <2>1, <3>1 DEF Found
  <2>2. CASE table[r] # <<>>
    <3>1. old = table[r]
      BY <1>2, <2>2, ConcatEmptySeq DEF Found
    <3>2. i \in DOMAIN table[r] /\ i <= numCached[r]
      <4>1. before = numCached[r]
        BY <2>2
      <4>2. i \in 1..Len(table[r])
        <5> HIDE DEF before, old
        <5> QED
          BY <1>4, <3>1
      <4> HIDE DEF before
      <4> QED
        BY <1>2, <1>4, <4>1, <4>2
    <3> QED
      BY <3>1, <3>2 DEF CacheInv, CacheMapConsistent
  <2> QED
    BY <2>1, <2>2
<1>7. \A i \in (before + 1)..Len(old) :
          /\ blockHash[old[i]] = NoHash
          /\ \A q \in Requests \ {r} : old[i] \notin ToSet(table[q])
          /\ old[i] \in ToSet(table[r])
  <2> SUFFICES ASSUME NEW i \in (before + 1)..Len(old)
               PROVE  /\ blockHash[old[i]] = NoHash
                      /\ \A q \in Requests \ {r} : old[i] \notin ToSet(table[q])
                      /\ old[i] \in ToSet(table[r])
    OBVIOUS
  <2>1. CASE table[r] = <<>>
    <3>1. before = Len(hits) /\ old = hits
      BY <1>2, <2>1, ConcatEmptySeq
    <3> HIDE DEF before, old
    <3> QED
      BY <1>2, <3>1
  <2>2. CASE table[r] # <<>>
    <3>1. old = table[r]
      BY <1>2, <2>2, ConcatEmptySeq DEF Found
    <3>2. before = numCached[r]
      BY <2>2
    <3>3. i \in DOMAIN table[r] /\ ~(i <= numCached[r])
      <4> HIDE DEF before, old
      <4> QED
        BY <1>2, <1>4, <3>1, <3>2
    <3>4. blockHash[old[i]] = NoHash
      BY <3>1, <3>3 DEF CacheInv, CacheMapConsistent
    <3>5. ASSUME NEW q \in Requests \ {r}, old[i] \in ToSet(table[q]) PROVE FALSE
      <4>1. PICK j \in DOMAIN table[q] : table[q][j] = old[i]
        BY <3>5 DEF ToSet
      <4> QED
        BY <3>1, <3>3, <3>4, <4>1 DEF CacheInv, SharedAreHashed
    <3>6. old[i] \in ToSet(table[r])
      BY <3>1, <3>3 DEF ToSet
    <3> QED
      BY <3>4, <3>5, <3>6
  <2> QED
    BY <2>1, <2>2
\* The free queue without the hits, and what is taken from its front.
<1>8. /\ queue \in Seq(Blocks) /\ IsInjective(queue)
      /\ ToSet(queue) = ToSet(freeQueue) \ ToSet(hits)
      /\ \A a, b : Precedes(freeQueue, a, b) /\ a \notin ToSet(hits) /\ b \notin ToSet(hits)
                       => Precedes(queue, a, b)
  <2>1. IsInjective(freeQueue)
    BY Unowned DEF CacheInv
  <2> QED
    BY <1>2, <2>1, RemovedProperties DEF Touched
<1>9. k \in 0..Len(queue)
  <2> DEFINE F == ToSet(freeQueue)
             H == ToSet(hits)
             Z == {b \in H : refCnt[b] = 0}
  <2>1. IsFiniteSet(F) /\ Cardinality(F) = Len(freeQueue)
    <3>1. IsInjective(freeQueue)
      BY Unowned DEF CacheInv
    <3> QED
      BY <1>2, <3>1, InjectiveLength
  <2>2. IsFiniteSet(F \ H) /\ Cardinality(F \ H) = Len(queue)
    BY <1>8, InjectiveLength
  <2>3. H \subseteq Blocks
    BY <1>2 DEF ToSet
  <2>4. F \cap H = Z
    BY <2>3 DEF CacheInv, RefCountExact
  <2>5. F = (F \ H) \cup (F \cap H) /\ (F \ H) \cap (F \cap H) = {}
    OBVIOUS
  <2> HIDE DEF F, H
  <2>6. Cardinality(F) = Cardinality(F \ H) + Cardinality(F \cap H)
    <3> DEFINE A == F \ H
               B == F \cap H
    <3>1. F = A \cup B /\ A \cap B = {} /\ IsFiniteSet(A) /\ IsFiniteSet(B)
      BY <2>1, <2>2, <2>5, FS_Subset
    <3> HIDE DEF A, B
    <3>2. Cardinality(A \cup B) = Cardinality(A) + Cardinality(B) - Cardinality(A \cap B)
      BY <3>1, FS_Union
    <3>3. Cardinality(A \cap B) = 0 /\ Cardinality(A) \in Nat /\ Cardinality(B) \in Nat
      BY <3>1, FS_EmptySet, FS_CardinalityType
    <3>4. Cardinality(F) = Cardinality(A) + Cardinality(B)
      BY <3>1, <3>2, <3>3
    <3> QED
      BY <3>4 DEF A, B
  <2>7. Cardinality(Z) \in Nat /\ Len(queue) \in Nat
    <3>1. IsFiniteSet(Z)
      BY <2>1, <2>4, FS_Subset
    <3> HIDE DEF queue, Z
    <3>2. Cardinality(Z) \in Nat
      BY <3>1, FS_CardinalityType
    <3>3. Len(queue) \in Nat
      BY <1>8
    <3> QED
      BY <3>2, <3>3
  <2>8. k + Cardinality(Z) <= Len(freeQueue)
    BY <1>3 DEF BlocksToAllocate, NewBlockCount, H
  <2>9. Len(freeQueue) = Len(queue) + Cardinality(Z)
    <3> HIDE DEF queue, Z
    <3> QED
      BY <2>1, <2>2, <2>4, <2>6
  <2>10. k \in Int /\ k >= 0
    <3> HIDE DEF k, old
    <3> QED
      BY <1>2, <1>4
  <2> HIDE DEF k, queue, Z
  <2> QED
    BY <2>7, <2>8, <2>9, <2>10
<1> HIDE DEF k, queue
<1>10. /\ new \in Seq(Blocks) /\ Len(new) = k /\ IsInjective(new)
       /\ rest \in Seq(Blocks) /\ IsInjective(rest)
       /\ ToSet(new) \cup ToSet(rest) = ToSet(queue)
       /\ ToSet(new) \cap ToSet(rest) = {}
       /\ \A a, b : Precedes(queue, a, b) /\ a \notin ToSet(new) => Precedes(rest, a, b)
  BY <1>8, <1>9, AfterFirst DEF Popped, AfterPop
<1> HIDE DEF new, rest, old, before, full
<1>11. \A b \in ToSet(new) : b \in Blocks /\ refCnt[b] = 0 /\ b \notin ToSet(hits)
                             /\ \A q \in Requests : b \notin ToSet(table[q])
  <2> SUFFICES ASSUME NEW b \in ToSet(new)
               PROVE  b \in Blocks /\ refCnt[b] = 0 /\ b \notin ToSet(hits)
                      /\ \A q \in Requests : b \notin ToSet(table[q])
    OBVIOUS
  <2>1. b \in ToSet(freeQueue) /\ b \notin ToSet(hits)
    BY <1>8, <1>10
  <2>2. b \in Blocks /\ refCnt[b] = 0
    BY <2>1 DEF CacheInv, RefCountExact
  <2> QED
    BY <2>1, <2>2, Unowned DEF CacheInv
<1>12. /\ tbl \in Seq(Blocks) /\ Len(tbl) = Cdiv(n, BlockSize) /\ DOMAIN tbl = 1..Len(tbl)
       /\ IsInjective(tbl)
       /\ ToSet(tbl) = ToSet(old) \cup ToSet(new)
       /\ \A i \in 1..Len(old) : tbl[i] = old[i]
       /\ \A i \in (Len(old) + 1)..Len(tbl) : tbl[i] \in ToSet(new)
  <2>1. ToSet(old) \cap ToSet(new) = {}
    BY <1>5, <1>11
  <2>2. /\ tbl \in Seq(Blocks) /\ Len(tbl) = Len(old) + Len(new) /\ IsInjective(tbl)
        /\ ToSet(tbl) = ToSet(old) \cup ToSet(new)
        /\ \A i \in 1..(Len(old) + Len(new)) :
              tbl[i] = IF i <= Len(old) THEN old[i] ELSE new[i - Len(old)]
    <3>1. old \in Seq(Blocks) /\ new \in Seq(Blocks) /\ IsInjective(old) /\ IsInjective(new)
      BY <1>5, <1>10
    <3>2. /\ tbl \in Seq(Blocks) /\ Len(tbl) = Len(old) + Len(new)
          /\ \A i \in 1..(Len(old) + Len(new)) :
                tbl[i] = IF i <= Len(old) THEN old[i] ELSE new[i - Len(old)]
      BY <3>1, ConcatProperties
    <3>3. IsInjective(tbl) /\ ToSet(tbl) = ToSet(old) \cup ToSet(new)
      BY <2>1, <3>1, ConcatElements
    <3> QED
      BY <3>2, <3>3
  <2> HIDE DEF tbl
  <2>3. Len(old) \in Nat /\ Len(new) \in Nat /\ DOMAIN new = 1..Len(new)
    BY <1>5, <1>10
  <2>4. Len(tbl) = Cdiv(n, BlockSize)
    BY <1>4, <1>10, <2>2, <2>3
  <2>5. \A i \in 1..Len(old) : tbl[i] = old[i]
    BY <2>2, <2>3
  <2>6. ASSUME NEW i \in (Len(old) + 1)..Len(tbl) PROVE tbl[i] \in ToSet(new)
    <3>1. i - Len(old) \in 1..Len(new) /\ i \in 1..(Len(old) + Len(new)) /\ ~(i <= Len(old))
      BY <2>2, <2>3
    <3> QED
      BY <2>2, <2>3, <3>1 DEF ToSet
  <2> QED
    BY <2>2, <2>4, <2>5, <2>6
<1>13. Len(old) \in Nat /\ Len(tbl) \in Nat /\ Len(old) <= Len(tbl) /\ full <= Len(tbl)
  BY <1>4, <1>5, <1>12
<1>14. blockHash' = [b \in Blocks |->
                IF \E i \in (before + 1)..full : tbl[i] = b
                   THEN HashOf(r, CHOOSE i \in (before + 1)..full : tbl[i] = b)
                   ELSE IF b \in ToSet(new) THEN NoHash ELSE blockHash[b]]
  BY DEF AllocateSlots, AllocateFrom, before, full, new, k, queue, old
<1>15. assigned' = [b \in Blocks |->
                IF \E i \in (before + 1)..Len(tbl) : tbl[i] = b
                   THEN DataOf(r, CHOOSE i \in DOMAIN tbl : tbl[i] = b, n)
                   ELSE assigned[b]]
  <2>1. before = Floor(IF table[r] = <<>> THEN Len(hits) * BlockSize
                       ELSE computed[r], BlockSize)
    BY <1>4 DEF Ready
  <2> QED
    BY <2>1 DEF AllocateSlots, AllocateFrom, new, k, queue, old
<1> HIDE DEF tbl
\* What becomes of the hashes and of what the blocks are for.
<1>16. \A i \in (before + 1)..full : blockHash'[tbl[i]] = HashOf(r, i) /\ i \in FullBlocks(r)
  <2> SUFFICES ASSUME NEW i \in (before + 1)..full
               PROVE  blockHash'[tbl[i]] = HashOf(r, i) /\ i \in FullBlocks(r)
    OBVIOUS
  <2>1. i \in 1..full /\ i \in DOMAIN tbl
    BY <1>4, <1>12, <1>13
  <2>2. tbl[i] \in Blocks
    BY <1>12, <2>1
  <2>3. \A j \in (before + 1)..full : tbl[j] = tbl[i] => j = i
    <3>1. \A j \in (before + 1)..full : j \in DOMAIN tbl
      BY <1>4, <1>12, <1>13
    <3> QED
      BY <1>12, <2>1, <3>1 DEF IsInjective
  <2>4. (CHOOSE j \in (before + 1)..full : tbl[j] = tbl[i]) = i
    BY <2>3
  <2> QED
    BY <1>4, <1>14, <2>1, <2>2, <2>4
<1>17. \A b \in Blocks : (\A i \in (before + 1)..full : tbl[i] # b) =>
           blockHash'[b] = IF b \in ToSet(new) THEN NoHash ELSE blockHash[b]
  BY <1>14
<1>18. \A i \in (before + 1)..Len(tbl) :
           \/ tbl[i] \in ToSet(new)
           \/ /\ blockHash[tbl[i]] = NoHash
              /\ tbl[i] \in ToSet(table[r])
              /\ \A q \in Requests \ {r} : tbl[i] \notin ToSet(table[q])
  <2> SUFFICES ASSUME NEW i \in (before + 1)..Len(tbl), tbl[i] \notin ToSet(new)
               PROVE  /\ blockHash[tbl[i]] = NoHash
                      /\ tbl[i] \in ToSet(table[r])
                      /\ \A q \in Requests \ {r} : tbl[i] \notin ToSet(table[q])
    OBVIOUS
  <2>1. i \in (before + 1)..Len(old) /\ i \in 1..Len(old)
    BY <1>4, <1>12, <1>13
  <2> QED
    BY <1>7, <1>12, <2>1
<1>19. \A i \in (before + 1)..full : i \in (before + 1)..Len(tbl)
  BY <1>4, <1>13
<1>20. \A b \in Blocks : blockHash[b] # NoHash /\ b \notin ToSet(new)
                             => blockHash'[b] = blockHash[b]
  BY <1>17, <1>18, <1>19
<1>21. \A i \in (before + 1)..Len(tbl) : assigned'[tbl[i]] = DataOf(r, i, n)
  <2> SUFFICES ASSUME NEW i \in (before + 1)..Len(tbl)
               PROVE  assigned'[tbl[i]] = DataOf(r, i, n)
    OBVIOUS
  <2>1. i \in DOMAIN tbl
    BY <1>4, <1>12, <1>13
  <2>2. tbl[i] \in Blocks
    BY <1>12, <2>1
  <2>3. (CHOOSE j \in DOMAIN tbl : tbl[j] = tbl[i]) = i
    BY <1>12, <2>1 DEF IsInjective
  <2> QED
    BY <1>15, <2>2, <2>3
<1>22. \A b \in Blocks : (\A i \in (before + 1)..Len(tbl) : tbl[i] # b) => assigned'[b] = assigned[b]
  BY <1>15
<1>23. \A q \in Requests \ {r} : \A b \in ToSet(table[q]) :
           /\ b \in Blocks /\ b \notin ToSet(new)
           /\ \A i \in (before + 1)..Len(tbl) : tbl[i] # b
           /\ blockHash'[b] = blockHash[b] /\ assigned'[b] = assigned[b]
  <2> SUFFICES ASSUME NEW q \in Requests \ {r}, NEW b \in ToSet(table[q])
               PROVE  /\ b \in Blocks /\ b \notin ToSet(new)
                      /\ \A i \in (before + 1)..Len(tbl) : tbl[i] # b
                      /\ blockHash'[b] = blockHash[b] /\ assigned'[b] = assigned[b]
    OBVIOUS
  <2>1. b \in Blocks
    BY DEF CacheInv, BooksTypeOK, ToSet
  <2>2. b \notin ToSet(new)
    BY <1>11
  <2>3. \A i \in (before + 1)..Len(tbl) : tbl[i] # b
    BY <1>18, <2>2
  <2> QED
    BY <1>17, <1>19, <1>22, <2>1, <2>2, <2>3
<1>24. \A h \in Hashes :
           /\ cached'[h] \in Seq(Blocks)
           /\ ToSet(cached'[h]) = (ToSet(cached[h]) \ ToSet(new))
                 \cup {tbl[i] : i \in {j \in (before + 1)..full : HashOf(r, j) = h}}
  <2> SUFFICES ASSUME NEW h \in Hashes
               PROVE  /\ cached'[h] \in Seq(Blocks)
                      /\ ToSet(cached'[h]) = (ToSet(cached[h]) \ ToSet(new))
                            \cup {tbl[i] : i \in {j \in (before + 1)..full : HashOf(r, j) = h}}
    OBVIOUS
  <2> DEFINE kept == Removed(cached[h], ToSet(new))
             mine == {i \in (before + 1)..full : HashOf(r, i) = h}
             one == CHOOSE i \in mine : TRUE
  <2>1. cached'[h] = IF mine = {} THEN kept ELSE Append(kept, tbl[one])
    BY <1>3 DEF CacheFull, Evict
  <2>2. cached[h] \in Seq(Blocks)
    BY DEF CacheInv, BooksTypeOK
  <2>3. kept \in Seq(Blocks) /\ ToSet(kept) = ToSet(cached[h]) \ ToSet(new)
    BY <2>2, RemovedProperties
  <2>4. CASE mine = {}
    <3>1. {tbl[i] : i \in mine} = {}
      BY <2>4
    <3> HIDE DEF kept, mine
    <3>2. cached'[h] = kept
      BY <2>1, <2>4
    <3>3. ToSet(cached'[h]) = (ToSet(cached[h]) \ ToSet(new)) \cup {tbl[i] : i \in mine}
      BY <2>3, <3>1, <3>2
    <3> QED
      BY <2>3, <3>2, <3>3 DEF mine
  <2>5. CASE mine # {}
    <3>1. one \in mine
      BY <2>5
    <3>2. \A i \in mine : i = one
      <4>1. \A i \in mine : i \in FullBlocks(r) /\ HashOf(r, i) = h
        BY <1>16
      <4> HIDE DEF mine, one
      <4> SUFFICES ASSUME NEW i \in mine PROVE i = one
        OBVIOUS
      <4>2. /\ i \in FullBlocks(r) /\ one \in FullBlocks(r)
            /\ HashOf(r, i) = HashOf(r, one)
        BY <3>1, <4>1
      <4> QED
        BY <4>2, HashesDistinct
    <3>3. one \in DOMAIN tbl
      BY <1>4, <1>12, <1>13, <3>1
    <3> HIDE DEF kept, mine, one
    <3>4. mine = {one}
      BY <3>1, <3>2
    <3>5. tbl[one] \in Blocks
      BY <1>12, <3>3
    <3>6. cached'[h] = Append(kept, tbl[one])
      BY <2>1, <2>5
    <3>7. /\ Append(kept, tbl[one]) \in Seq(Blocks)
          /\ ToSet(Append(kept, tbl[one])) = ToSet(kept) \cup {tbl[one]}
      BY <2>3, <3>5, AppendType, AppendElements
    <3>8. {tbl[i] : i \in mine} = {tbl[one]}
      BY <3>4
    <3>9. ToSet(cached'[h]) = (ToSet(cached[h]) \ ToSet(new)) \cup {tbl[i] : i \in mine}
      BY <2>3, <3>6, <3>7, <3>8
    <3> QED
      BY <3>6, <3>7, <3>9 DEF mine
  <2> QED
    BY <2>4, <2>5
<1>25. /\ table'[r] = tbl /\ \A q \in Requests \ {r} : table'[q] = table[q]
       /\ computed'[r] = n /\ \A q \in Requests \ {r} : computed'[q] = computed[q]
       /\ numCached'[r] = full /\ \A q \in Requests \ {r} : numCached'[q] = numCached[q]
  BY <1>3 DEF CacheInv, BooksTypeOK
<1>26. /\ \A b \in Blocks : refCnt[b] \in Nat
       /\ \A b \in Blocks : b \in ToSet(hits) \cup ToSet(new) => refCnt'[b] = refCnt[b] + 1
       /\ \A b \in Blocks : b \notin ToSet(hits) \cup ToSet(new) => refCnt'[b] = refCnt[b]
  BY <1>3 DEF CacheInv, BooksTypeOK, AddRefs
<1>27. BooksTypeOK'
  <2>1. table' \in [Requests -> Seq(Blocks)]
    BY <1>3, <1>12 DEF CacheInv, BooksTypeOK
  <2>2. numCached' \in [Requests -> Nat] /\ computed' \in [Requests -> Nat]
    BY <1>1, <1>3, <1>4 DEF CacheInv, BooksTypeOK
  <2>3. refCnt' \in [Blocks -> Nat]
    BY <1>3 DEF CacheInv, BooksTypeOK, AddRefs
  <2>4. freeQueue' \in Seq(Blocks)
    BY <1>3, <1>10
  <2>5. blockHash' \in [Blocks -> Hashes \cup {NoHash}]
    <3>1. ASSUME NEW b \in Blocks PROVE blockHash'[b] \in Hashes \cup {NoHash}
      <4>1. CASE \E i \in (before + 1)..full : tbl[i] = b
        <5>1. PICK i \in (before + 1)..full : tbl[i] = b
          BY <4>1
        <5> QED
          BY <1>16, <5>1, HashLength
      <4>2. CASE ~ \E i \in (before + 1)..full : tbl[i] = b
        BY <1>17, <4>2 DEF CacheInv, BooksTypeOK
      <4> QED
        BY <4>1, <4>2
    <3> QED
      BY <1>14, <3>1
  <2>6. cached' \in [Hashes -> Seq(Blocks)]
    BY <1>3, <1>24 DEF CacheFull
  <2>7. DOMAIN assigned' = Blocks
    BY <1>15
  <2> QED
    BY <2>1, <2>2, <2>3, <2>4, <2>5, <2>6, <2>7 DEF BooksTypeOK, Blocks, Hashes, FullBlocks,
       Floor, HashOf, NoHash
<1>28. ToSet(tbl) = ToSet(table[r]) \cup ToSet(hits) \cup ToSet(new)
  BY <1>5, <1>12
<1>29. RefCountExact'
  <2>1. ASSUME NEW b \in Blocks
        PROVE  refCnt'[b] = Cardinality({q \in Requests : Contains(table'[q], b)})
    <3> DEFINE O == {q \in Requests : Contains(table[q], b)}
               P == {q \in Requests : Contains(table'[q], b)}
    <3>1. IsFiniteSet(O) /\ refCnt[b] = Cardinality(O)
      BY CacheAssumption, FS_Subset DEF CacheInv, RefCountExact
    <3>2. \A q \in Requests : q \in O <=> b \in ToSet(table[q])
      <4>1. \A q \in Requests : table[q] \in Seq(Blocks)
        BY DEF CacheInv, BooksTypeOK
      <4>2. \A q \in Requests : DOMAIN table[q] = 1..Len(table[q])
        BY <4>1
      <4> QED
        BY <4>2, Zenon DEF Contains, ToSet
    <3>3. \A q \in Requests \ {r} : q \in P <=> q \in O
      BY <1>25
    <3>4. r \in P <=> b \in ToSet(tbl)
      BY <1>12, <1>25 DEF Contains, ToSet
    <3>5. O \subseteq Requests /\ P \subseteq Requests
      OBVIOUS
    <3> HIDE DEF O, P
    <3>6. CASE b \in ToSet(hits) \cup ToSet(new)
      <4>1. r \notin O
        BY <1>5, <1>11, <3>2, <3>6
      <4>2. P = O \cup {r}
        BY <1>28, <3>3, <3>4, <3>5, <3>6
      <4>3. Cardinality(P) = Cardinality(O) + 1
        BY <3>1, <4>1, <4>2, FS_AddElement
      <4> QED
        BY <1>26, <3>1, <3>6, <4>3 DEF P
    <3>7. CASE b \notin ToSet(hits) \cup ToSet(new)
      <4>1. P = O
        BY <1>28, <3>2, <3>3, <3>4, <3>5, <3>7
      <4> QED
        BY <1>26, <3>1, <3>7, <4>1 DEF P
    <3> QED
      BY <3>6, <3>7
  <2>2. \A q \in Requests : IsInjective(table'[q])
    BY <1>12, <1>25, Unowned DEF CacheInv
  <2>3. ToSet(freeQueue') = {b \in Blocks : refCnt'[b] = 0}
    <3>1. ToSet(freeQueue') = (ToSet(freeQueue) \ ToSet(hits)) \ ToSet(new)
      BY <1>3, <1>8, <1>10
    <3>2. ToSet(freeQueue) = {b \in Blocks : refCnt[b] = 0}
      BY DEF CacheInv, RefCountExact
    <3>3. \A b \in Blocks : refCnt'[b] = 0 <=> /\ b \notin ToSet(hits) \cup ToSet(new)
                                               /\ refCnt[b] = 0
      BY <1>26
    <3> QED
      BY <3>1, <3>2, <3>3
  <2>4. IsInjective(freeQueue')
    BY <1>3, <1>10
  <2>5. \A q \in Requests : \A i, j \in DOMAIN table'[q] : i # j => table'[q][i] # table'[q][j]
    BY <2>2 DEF IsInjective
  <2>6. \A i, j \in DOMAIN freeQueue' : i # j => freeQueue'[i] # freeQueue'[j]
    BY <2>4 DEF IsInjective
  <2> QED
    BY <2>1, <2>3, <2>5, <2>6 DEF RefCountExact, Blocks
<1>30. SizesFit'
  BY <1>12, <1>25 DEF CacheInv, SizesFit, full, Cdiv, Floor
<1>31. SharedAreHashed'
  <2> SUFFICES ASSUME NEW p \in Requests, NEW q \in Requests, p # q,
                      NEW i \in DOMAIN table'[p], NEW j \in DOMAIN table'[q],
                      table'[p][i] = table'[q][j]
               PROVE  blockHash'[table'[p][i]] # NoHash
    BY DEF SharedAreHashed, NoHash
  <2>1. CASE p # r /\ q # r
    <3>1. table'[p] = table[p] /\ table'[q] = table[q]
      BY <1>25, <2>1
    <3>2. blockHash[table[p][i]] # NoHash
      BY <3>1 DEF CacheInv, SharedAreHashed
    <3>3. table[p][i] \in ToSet(table[p])
      BY <3>1 DEF ToSet
    <3> QED
      BY <1>23, <2>1, <3>1, <3>2, <3>3
  \* The other request had the block before, so that r got it as a hit or shared it.
  <2>2. ASSUME NEW x \in Requests \ {r}, NEW b \in ToSet(table[x]), b \in ToSet(tbl)
        PROVE  blockHash'[b] # NoHash
    <3>1. b \in Blocks /\ b \notin ToSet(new) /\ blockHash'[b] = blockHash[b]
      BY <1>23, <2>2
    <3>2. CASE b \in ToSet(table[r])
      <4>1. PICK c \in DOMAIN table[r], d \in DOMAIN table[x] :
                table[r][c] = b /\ table[x][d] = b
        BY <2>2, <3>2 DEF ToSet
      <4>2. blockHash[b] # NoHash
        BY <4>1 DEF CacheInv, SharedAreHashed
      <4> QED
        BY <3>1, <4>2
    <3>3. CASE b \in ToSet(hits)
      <4>1. PICK c \in 1..Len(hits) : hits[c] = b
        BY <1>2, <3>3 DEF ToSet
      <4>2. blockHash[b] = HashOf(r, c) /\ c \in FullBlocks(r)
        BY <1>1, <1>2, <4>1 DEF Found, FullBlocks
      <4> QED
        BY <3>1, <4>2, HashLength, NoHashIsNone
    <3> QED
      BY <1>28, <2>2, <3>1, <3>2, <3>3
  <2>3. CASE p = r
    <3>1. table'[q] = table[q] /\ table'[p] = tbl
      BY <1>25, <2>3
    <3>2. table[q][j] \in ToSet(table[q]) /\ tbl[i] \in ToSet(tbl)
      BY <3>1 DEF ToSet
    <3> QED
      BY <2>2, <2>3, <3>1, <3>2
  <2>4. CASE q = r
    <3>1. table'[p] = table[p] /\ table'[q] = tbl
      BY <1>25, <2>4
    <3>2. table[p][i] \in ToSet(table[p]) /\ tbl[j] \in ToSet(tbl)
      BY <3>1 DEF ToSet
    <3> QED
      BY <2>2, <2>4, <3>1, <3>2
  <2> QED
    BY <2>1, <2>3, <2>4
<1>32. \A i \in 1..full : DataOf(r, i, n) = HashOf(r, i)
  <2> SUFFICES ASSUME NEW i \in 1..full PROVE DataOf(r, i, n) = HashOf(r, i)
    OBVIOUS
  <2>1. i * BlockSize <= n
    BY <1>4
  <2> QED
    BY <2>1 DEF DataOf, HashOf, Smaller
<1>33. \A i \in 1..before : /\ i \in 1..Len(old) /\ i \in 1..full /\ i \in DOMAIN tbl
                            /\ tbl[i] \in Blocks /\ tbl[i] \notin ToSet(new)
                            /\ blockHash[tbl[i]] = HashOf(r, i)
                            /\ blockHash[tbl[i]] # NoHash
                            /\ \A j \in (before + 1)..Len(tbl) : tbl[j] # tbl[i]
  <2> SUFFICES ASSUME NEW i \in 1..before
               PROVE  /\ i \in 1..Len(old) /\ i \in 1..full /\ i \in DOMAIN tbl
                      /\ tbl[i] \in Blocks /\ tbl[i] \notin ToSet(new)
                      /\ blockHash[tbl[i]] = HashOf(r, i)
                      /\ blockHash[tbl[i]] # NoHash
                      /\ \A j \in (before + 1)..Len(tbl) : tbl[j] # tbl[i]
    OBVIOUS
  <2>1. i \in 1..Len(old) /\ i \in 1..full /\ i \in DOMAIN tbl
    BY <1>4, <1>12, <1>13
  <2>2. tbl[i] = old[i] /\ tbl[i] \in Blocks /\ old[i] \in ToSet(old)
    BY <1>5, <1>12, <2>1 DEF ToSet
  <2>3. tbl[i] \notin ToSet(new)
    BY <1>5, <1>11, <2>2
  <2>4. blockHash[tbl[i]] = HashOf(r, i) /\ i \in FullBlocks(r)
    BY <1>6, <2>2
  <2>5. ASSUME NEW j \in (before + 1)..Len(tbl), tbl[j] = tbl[i] PROVE FALSE
    <3>1. j \in DOMAIN tbl /\ j # i
      BY <1>4, <1>12, <1>13
    <3> QED
      BY <1>12, <2>1, <2>5, <3>1 DEF IsInjective
  <2> QED
    BY <2>1, <2>2, <2>3, <2>4, <2>5, HashLength, NoHashIsNone
<1>34. ContentIsolated'
  <2> SUFFICES ASSUME NEW q \in Requests, NEW i \in DOMAIN table'[q]
               PROVE  assigned'[table'[q][i]] = DataOf(q, i, computed'[q])
    BY DEF ContentIsolated, DataOf
  <2>1. CASE q # r
    <3>1. table'[q] = table[q] /\ computed'[q] = computed[q]
      BY <1>25, <2>1
    <3>2. table[q][i] \in ToSet(table[q])
      BY <3>1 DEF ToSet
    <3>3. assigned[table[q][i]] = DataOf(q, i, computed[q])
      BY <3>1 DEF CacheInv, ContentIsolated
    <3> QED
      BY <1>23, <2>1, <3>1, <3>2, <3>3
  <2>2. CASE q = r
    <3>1. i \in 1..Len(tbl)
      BY <1>12, <1>25, <2>2
    <3>2. CASE i \in 1..before
      <4>1. assigned'[tbl[i]] = assigned[tbl[i]]
        BY <1>22, <1>33, <3>2
      <4>2. assigned[tbl[i]] = HashOf(r, i)
        BY <1>33, <3>2 DEF CacheInv, CacheMapConsistent
      <4>3. DataOf(r, i, n) = HashOf(r, i)
        BY <1>32, <1>33, <3>2
      <4> QED
        BY <1>25, <2>2, <4>1, <4>2, <4>3
    <3>3. CASE i \notin 1..before
      <4>1. i \in (before + 1)..Len(tbl)
        BY <1>4, <1>13, <3>1, <3>3
      <4> QED
        BY <1>21, <1>25, <2>2, <4>1
    <3> QED
      BY <3>2, <3>3
  <2> QED
    BY <2>1, <2>2
<1>35. CacheMapConsistent'
  <2>1. ASSUME NEW h \in Hashes, NEW b \in Blocks
        PROVE  Contains(cached'[h], b) <=> blockHash'[b] = h
    <3>1. Contains(cached'[h], b) <=> b \in ToSet(cached'[h])
      BY <1>24 DEF Contains, ToSet
    <3>2. b \in ToSet(cached[h]) <=> blockHash[b] = h
      <4>1. cached[h] \in Seq(Blocks)
        BY DEF CacheInv, BooksTypeOK
      <4>2. Contains(cached[h], b) <=> b \in ToSet(cached[h])
        BY <4>1 DEF Contains, ToSet
      <4> QED
        BY <4>2 DEF CacheInv, CacheMapConsistent
    <3>3. b \in ToSet(cached'[h]) <=>
              \/ b \in ToSet(cached[h]) /\ b \notin ToSet(new)
              \/ \E i \in (before + 1)..full : HashOf(r, i) = h /\ tbl[i] = b
      <4> HIDE DEF before, full
      <4> QED
        BY <1>24
    <3>4. h # NoHash
      BY NoHashIsNone
    <3>5. CASE \E i \in (before + 1)..full : tbl[i] = b
      <4>1. PICK i \in (before + 1)..full : tbl[i] = b
        BY <3>5
      <4>2. blockHash'[b] = HashOf(r, i)
        BY <1>16, <4>1
      <4>3. ~(b \in ToSet(cached[h]) /\ b \notin ToSet(new))
        BY <1>18, <1>19, <3>2, <3>4, <4>1
      <4>4. \A j \in (before + 1)..full : tbl[j] = b => HashOf(r, j) = HashOf(r, i)
        BY <1>16, <4>2
      <4> QED
        BY <3>1, <3>3, <4>1, <4>2, <4>3, <4>4
    <3>6. CASE ~ \E i \in (before + 1)..full : tbl[i] = b
      <4>1. blockHash'[b] = IF b \in ToSet(new) THEN NoHash ELSE blockHash[b]
        BY <1>17, <3>6
      <4> QED
        BY <3>1, <3>2, <3>3, <3>4, <3>6, <4>1
    <3> QED
      BY <3>5, <3>6
  <2>2. ASSUME NEW b \in Blocks, blockHash'[b] # NoHash PROVE assigned'[b] = blockHash'[b]
    <3>1. CASE \E i \in (before + 1)..full : tbl[i] = b
      <4>1. PICK i \in (before + 1)..full : tbl[i] = b
        BY <3>1
      <4>2. i \in 1..full /\ i \in (before + 1)..Len(tbl)
        BY <1>4, <1>13
      <4> QED
        BY <1>16, <1>21, <1>32, <4>1, <4>2
    <3>2. CASE ~ \E i \in (before + 1)..full : tbl[i] = b
      <4>1. b \notin ToSet(new) /\ blockHash'[b] = blockHash[b]
        BY <1>17, <2>2, <3>2
      <4>2. \A i \in (before + 1)..Len(tbl) : tbl[i] # b
        BY <1>18, <2>2, <4>1
      <4>3. assigned'[b] = assigned[b]
        BY <1>22, <4>2
      <4> QED
        BY <2>2, <4>1, <4>3 DEF CacheInv, CacheMapConsistent
    <3> QED
      BY <3>1, <3>2
  <2>3. ASSUME NEW q \in Requests, NEW i \in DOMAIN table'[q]
        PROVE  blockHash'[table'[q][i]] = IF i <= numCached'[q] THEN HashOf(q, i) ELSE NoHash
    <3>1. CASE q # r
      <4>1. table'[q] = table[q] /\ numCached'[q] = numCached[q]
        BY <1>25, <3>1
      <4>2. table[q][i] \in ToSet(table[q])
        BY <4>1, <2>3 DEF ToSet
      <4>3. blockHash[table[q][i]] = IF i <= numCached[q] THEN HashOf(q, i) ELSE NoHash
        BY <2>3, <4>1 DEF CacheInv, CacheMapConsistent
      <4> QED
        BY <1>23, <3>1, <4>1, <4>2, <4>3
    <3>2. CASE q = r
      <4>1. i \in 1..Len(tbl) /\ table'[q] = tbl /\ numCached'[q] = full
        BY <1>12, <1>25, <2>3, <3>2
      <4>2. CASE i \in 1..before
        <5>1. i <= full
          BY <1>4, <4>2
        <5>2. blockHash'[tbl[i]] = HashOf(r, i)
          BY <1>20, <1>33, <4>2
        <5> QED
          BY <3>2, <4>1, <5>1, <5>2
      <4>3. CASE i \in (before + 1)..full
        <5>1. i <= full
          BY <1>4, <4>3
        <5> QED
          BY <1>16, <3>2, <4>1, <4>3, <5>1
      <4>4. CASE i \notin 1..before /\ i \notin (before + 1)..full
        <5>1. i \in (before + 1)..Len(tbl) /\ ~(i <= full) /\ i \in DOMAIN tbl
          BY <1>4, <1>12, <1>13, <4>1, <4>4
        <5>2. \A j \in (before + 1)..full : tbl[j] # tbl[i]
          <6>1. \A j \in (before + 1)..full : j \in DOMAIN tbl /\ j # i
            BY <1>4, <1>12, <1>13, <4>4
          <6> QED
            BY <1>12, <5>1, <6>1 DEF IsInjective
        <5>3. tbl[i] \in Blocks
          BY <1>12, <5>1
        <5>4. blockHash'[tbl[i]] = NoHash
          BY <1>17, <1>18, <5>1, <5>2, <5>3
        <5> QED
          BY <3>2, <4>1, <5>1, <5>4
      <4> QED
        BY <4>2, <4>3, <4>4
    <3> QED
      BY <3>1, <3>2
  <2> QED
    BY <2>1, <2>2, <2>3
       DEF CacheMapConsistent, Hashes, Blocks, NoHash, HashOf, FullBlocks, Floor
<1>36. TailBeforeHead'
  <2> SUFFICES ASSUME NEW q \in Requests, NEW i \in FullBlocks(q), NEW b \in Blocks,
                      i > 1, refCnt'[b] = 0, blockHash'[b] = HashOf(q, i)
               PROVE  \E c \in Blocks : /\ blockHash'[c] = HashOf(q, i - 1)
                                        /\ refCnt'[c] > 0 \/ Precedes(freeQueue', b, c)
    BY DEF TailBeforeHead, Blocks, FullBlocks, HashOf, Floor, Precedes
  <2>1. refCnt[b] = 0 /\ b \notin ToSet(hits) /\ b \notin ToSet(new)
    BY <1>26
  <2>2. b \notin ToSet(tbl)
    BY <1>28, <2>1, Unowned DEF CacheInv
  <2>3. \A j \in (before + 1)..full : tbl[j] # b
    <3>1. \A j \in (before + 1)..full : j \in DOMAIN tbl
      BY <1>4, <1>12, <1>13
    <3> QED
      BY <2>2, <3>1 DEF ToSet
  <2>4. blockHash[b] = HashOf(q, i)
    BY <1>17, <2>1, <2>3
  <2>5. PICK c \in Blocks : /\ blockHash[c] = HashOf(q, i - 1)
                            /\ refCnt[c] > 0 \/ Precedes(freeQueue, b, c)
    BY <2>1, <2>4 DEF CacheInv, TailBeforeHead
  <2>6. blockHash[c] # NoHash
    <3>1. i - 1 \in FullBlocks(q)
      BY HashChains
    <3> QED
      BY <2>5, <3>1, HashLength, NoHashIsNone
  <2>7. CASE refCnt[c] > 0
    <3>1. c \notin ToSet(new)
      BY <1>11, <2>7
    <3>2. refCnt'[c] > 0
      BY <1>26, <2>7
    <3> QED
      BY <1>20, <2>5, <2>6, <3>1, <3>2
  <2>8. CASE c \in ToSet(hits)
    <3>1. c \notin ToSet(new)
      BY <1>11, <2>8
    <3>2. refCnt'[c] > 0
      BY <1>26, <2>8
    <3> QED
      BY <1>20, <2>5, <2>6, <3>1, <3>2
  <2>9. CASE Precedes(freeQueue, b, c) /\ c \notin ToSet(hits)
    <3>1. Precedes(queue, b, c)
      BY <1>8, <2>1, <2>9
    <3>2. Precedes(rest, b, c)
      BY <1>10, <2>1, <3>1
    <3>3. c \in ToSet(rest)
      BY <3>2 DEF Precedes, ToSet
    <3>4. c \notin ToSet(new)
      BY <1>10, <3>3
    <3> QED
      BY <1>3, <1>20, <2>5, <2>6, <3>2, <3>4
  <2> QED
    BY <2>5, <2>7, <2>8, <2>9
<1> QED
  BY <1>25, <1>27, <1>28, <1>29, <1>30, <1>31, <1>34, <1>35, <1>36 DEF CacheInv

\* find_longest_cache_hit stops at the first miss: the length is that of a chain of
\* hits, and the next block is not one unless no more may be used.
LEMMA HitLengthIs ==
    ASSUME NEW r \in Requests, NEW len \in 1..Len(Content[r])
    PROVE  /\ HitLength(r, len) \in 0..MaxHit(len) /\ IsHit(r, HitLength(r, len))
           /\ HitLength(r, len) < MaxHit(len) => ~IsHit(r, HitLength(r, len) + 1)
<1> DEFINE top == MaxHit(len)
           l == HitLength(r, len)
           Good(k) == IsHit(r, k) /\ (k < top => ~IsHit(r, k + 1))
           G == {k \in 0..top : IsHit(r, k)}
<1>1. Len(Content[r]) \in Nat \ {0} /\ Floor(Len(Content[r]), BlockSize) \in Nat
  BY HashLength
<1>2. len \in Nat \ {0} /\ len - 1 \in Nat /\ len - 1 <= Len(Content[r])
  BY <1>1
<1>3. /\ top \in Nat /\ top <= Floor(Len(Content[r]), BlockSize)
      /\ \A i \in Nat : i <= top <=> i * BlockSize <= len - 1
  BY <1>1, <1>2, Floors, BlockCounts DEF MaxHit
<1> HIDE DEF top
<1>4. \E k \in 0..top : Good(k)
  <2> SUFFICES ASSUME \A k \in 0..top : ~Good(k) PROVE FALSE
    OBVIOUS
  <2>1. 0 \in G
    BY <1>3 DEF IsHit
  <2>2. ASSUME NEW k \in 1..top, k - 1 \in G PROVE k \in G
    <3>1. k - 1 \in 0..top /\ k - 1 < top /\ (k - 1) + 1 = k /\ k \in 0..top
      BY <1>3
    <3> QED
      BY <2>2, <3>1
  <2>3. top \in G
    <3> HIDE DEF G
    <3>1. top \in 0..top
      BY <1>3
    <3> QED
      BY <1>3, <2>1, <2>2, <3>1, SegmentInduction
  <2>4. Good(top) /\ top \in 0..top
    BY <1>3, <2>3
  <2> QED
    BY <2>4
<1>5. l = CHOOSE k \in 0..top : Good(k)
  BY DEF HitLength, top
<1>6. l \in 0..top /\ Good(l)
  BY <1>4, <1>5
<1> QED
  BY <1>6 DEF top

\* find_longest_cache_hit: what the prefix cache finds for the first len tokens of
\* r is a chain of cached blocks, and leaves at least one token to compute.
LEMMA HitsAreFound ==
    ASSUME CacheInv, NEW r \in Requests, table[r] = <<>>, NEW len \in 1..Len(Content[r])
    PROVE  /\ Found(r, HitBlocks(r, len))
           /\ Len(HitBlocks(r, len)) = HitLength(r, len)
           /\ HitLength(r, len) \in Nat /\ HitLength(r, len) * BlockSize < len
<1> DEFINE top == MaxHit(len)
           l == HitLength(r, len)
<1>1. Len(Content[r]) \in Nat \ {0} /\ Floor(Len(Content[r]), BlockSize) \in Nat
  BY HashLength
<1>2. len \in Nat \ {0} /\ len - 1 \in Nat /\ len - 1 <= Len(Content[r])
  BY <1>1
<1>3. /\ top \in Nat /\ top <= Floor(Len(Content[r]), BlockSize)
      /\ \A i \in Nat : i <= top <=> i * BlockSize <= len - 1
  BY <1>1, <1>2, Floors, BlockCounts DEF MaxHit
<1>6. l \in 0..top /\ IsHit(r, l)
  BY HitLengthIs
<1> HIDE DEF l, top
<1>7. l \in Nat /\ l <= Floor(Len(Content[r]), BlockSize)
  BY <1>1, <1>3, <1>6
<1>8. l * BlockSize < len
  <2>1. l * BlockSize <= len - 1 /\ l * BlockSize \in Nat
    BY <1>3, <1>6, <1>7, Products
  <2> QED
    BY <1>2, <2>1
<1> DEFINE hits == HitBlocks(r, len)
<1>9. hits = [i \in 1..l |-> Head(LookUp(r, i))]
  BY DEF HitBlocks, l
<1> HIDE DEF hits
<1>10. ASSUME NEW i \in 1..l
       PROVE  Head(LookUp(r, i)) \in Blocks /\ blockHash[Head(LookUp(r, i))] = HashOf(r, i)
  <2> DEFINE s == cached[HashOf(r, i)]
  <2>1. i \in FullBlocks(r)
    BY <1>1, <1>7 DEF FullBlocks
  <2>2. HashOf(r, i) \in Hashes
    BY <2>1, HashLength
  <2>3. s \in Seq(Blocks) /\ s # <<>>
    BY <1>6, <2>2 DEF CacheInv, BooksTypeOK, IsHit, LookUp
  <2> HIDE DEF s
  <2>4. Head(s) \in Blocks /\ Contains(s, Head(s))
    BY <2>3 DEF Contains
  <2>5. blockHash[Head(s)] = HashOf(r, i)
    BY <2>2, <2>4 DEF CacheInv, CacheMapConsistent, s
  <2> QED
    BY <2>4, <2>5 DEF s, LookUp
<1>11. hits \in Seq(Blocks) /\ Len(hits) = l
  <2>1. hits \in [1..l -> Blocks]
    BY <1>9, <1>10
  <2> QED
    BY <1>7, <2>1
<1>12. \A i \in 1..l : blockHash[hits[i]] = HashOf(r, i)
  BY <1>9, <1>10
<1>13. Found(r, hits)
  BY <1>7, <1>11, <1>12 DEF Found
<1> QED
  BY <1>7, <1>8, <1>11, <1>13 DEF hits, l

\* KVCacheManager.free keeps the inductive invariant.
LEMMA FreeKeeps ==
    ASSUME CacheInv, NEW r \in Requests, Free(r)
    PROVE  CacheInv'
<1> DEFINE mine == ToSet(table[r])
           back == Reverse(table[r])
           freed == Removed(back, StillShared(ToSet(back)))
<1>1. /\ table[r] \in Seq(Blocks) /\ IsInjective(table[r]) /\ freeQueue \in Seq(Blocks)
      /\ IsInjective(freeQueue) /\ DOMAIN table[r] = 1..Len(table[r]) /\ Len(table[r]) \in Nat
  BY Unowned DEF CacheInv, BooksTypeOK
<1>2. /\ refCnt' = DropRefs(mine) /\ freeQueue' = freeQueue \o freed
      /\ table' = [table EXCEPT ![r] = <<>>]
      /\ numCached' = [numCached EXCEPT ![r] = 0] /\ computed' = [computed EXCEPT ![r] = 0]
      /\ UNCHANGED <<blockHash, cached, assigned>>
  BY DEF Free, AppendN, Unreferenced, FreeOrder
<1>3. /\ back \in Seq(Blocks) /\ IsInjective(back) /\ ToSet(back) = mine
  BY <1>1, ReverseProperties
<1>4. mine \subseteq Blocks
  BY <1>1 DEF ToSet
<1>5. \A b \in Blocks : /\ refCnt[b] \in Nat
                        /\ b \in mine => refCnt[b] > 0 /\ refCnt'[b] = refCnt[b] - 1
                        /\ b \notin mine => refCnt'[b] = refCnt[b]
  <2> SUFFICES ASSUME NEW b \in Blocks
               PROVE  /\ refCnt[b] \in Nat
                      /\ b \in mine => refCnt[b] > 0 /\ refCnt'[b] = refCnt[b] - 1
                      /\ b \notin mine => refCnt'[b] = refCnt[b]
    OBVIOUS
  <2>1. refCnt[b] \in Nat
    BY DEF CacheInv, BooksTypeOK
  <2>2. b \in mine => refCnt[b] # 0
    BY Unowned DEF CacheInv
  <2>3. refCnt'[b] = IF b \in mine THEN refCnt[b] - 1 ELSE refCnt[b]
    BY <1>2 DEF DropRefs
  <2> QED
    BY <2>1, <2>2, <2>3
<1>6. StillShared(ToSet(back)) = {b \in mine : refCnt'[b] # 0}
  BY <1>2, <1>3 DEF StillShared
<1>7. /\ freed \in Seq(Blocks) /\ IsInjective(freed)
      /\ ToSet(freed) = {b \in mine : refCnt'[b] = 0}
      /\ \A a, b : Precedes(back, a, b) /\ a \in ToSet(freed) /\ b \in ToSet(freed)
                       => Precedes(freed, a, b)
  <2> DEFINE S == StillShared(ToSet(back))
  <2>1. S = {b \in mine : refCnt'[b] # 0}
    BY <1>6
  <2> HIDE DEF S, back, mine
  <2>2. /\ Removed(back, S) \in Seq(Blocks) /\ IsInjective(Removed(back, S))
        /\ ToSet(Removed(back, S)) = mine \ S
        /\ \A a, b : Precedes(back, a, b) /\ a \notin S /\ b \notin S
                         => Precedes(Removed(back, S), a, b)
    BY <1>3, RemovedProperties
  <2>3. mine \ S = {b \in mine : refCnt'[b] = 0}
    BY <2>1
  <2> QED
    BY <2>2, <2>3 DEF S
<1> HIDE DEF back, freed, mine
<1>8. /\ freeQueue' \in Seq(Blocks) /\ ToSet(freeQueue') = ToSet(freeQueue) \cup ToSet(freed)
      /\ IsInjective(freeQueue')
  <2>1. ToSet(freeQueue) \cap ToSet(freed) = {}
    <3>1. ToSet(freeQueue) = {b \in Blocks : refCnt[b] = 0}
      BY DEF CacheInv, RefCountExact
    <3> QED
      BY <1>4, <1>5, <1>7, <3>1
  <2> QED
    BY <1>1, <1>2, <1>7, <2>1, ConcatProperties, ConcatElements
<1>9. /\ table'[r] = <<>> /\ computed'[r] = 0 /\ numCached'[r] = 0
      /\ \A q \in Requests \ {r} : /\ table'[q] = table[q] /\ computed'[q] = computed[q]
                                   /\ numCached'[q] = numCached[q]
  BY <1>2 DEF CacheInv, BooksTypeOK
<1>10. \A q \in Requests : DOMAIN table'[q] # {} => q # r
  BY <1>9
<1>11. BooksTypeOK'
  <2>1. table' \in [Requests -> Seq(Blocks)]
    BY <1>2 DEF CacheInv, BooksTypeOK
  <2>2. numCached' \in [Requests -> Nat] /\ computed' \in [Requests -> Nat]
    BY <1>2 DEF CacheInv, BooksTypeOK
  <2>3. refCnt' \in [Blocks -> Nat]
    <3>1. \A b \in Blocks : refCnt'[b] \in Nat
      BY <1>5
    <3> QED
      BY <1>2, <3>1 DEF DropRefs
  <2> QED
    BY <1>2, <1>8, <2>1, <2>2, <2>3 DEF CacheInv, BooksTypeOK, Blocks, Hashes, FullBlocks,
       Floor, HashOf, NoHash
<1>12. RefCountExact'
  <2>1. ASSUME NEW b \in Blocks
        PROVE  refCnt'[b] = Cardinality({q \in Requests : Contains(table'[q], b)})
    <3> DEFINE O == {q \in Requests : Contains(table[q], b)}
               P == {q \in Requests : Contains(table'[q], b)}
    <3>1. IsFiniteSet(O) /\ refCnt[b] = Cardinality(O)
      BY CacheAssumption, FS_Subset DEF CacheInv, RefCountExact
    <3>2. r \in O <=> b \in mine
      BY <1>1 DEF Contains, ToSet, mine
    <3>3. \A q \in Requests \ {r} : q \in P <=> q \in O
      BY <1>9
    <3>4. r \notin P
      BY <1>9 DEF Contains
    <3>5. P = O \ {r}
      BY <3>3, <3>4
    <3> HIDE DEF O, P
    <3>6. Cardinality(P) = IF b \in mine THEN Cardinality(O) - 1 ELSE Cardinality(O)
      BY <3>1, <3>2, <3>5, FS_RemoveElement
    <3> QED
      BY <1>5, <3>1, <3>6 DEF P
  <2>2. ToSet(freeQueue') = {b \in Blocks : refCnt'[b] = 0}
    <3>1. ToSet(freeQueue) = {b \in Blocks : refCnt[b] = 0}
      BY DEF CacheInv, RefCountExact
    <3> QED
      BY <1>4, <1>5, <1>7, <1>8, <3>1
  <2>3. \A q \in Requests : \A i, j \in DOMAIN table'[q] : i # j => table'[q][i] # table'[q][j]
    BY <1>9, <1>10 DEF CacheInv, RefCountExact
  <2>4. \A i, j \in DOMAIN freeQueue' : i # j => freeQueue'[i] # freeQueue'[j]
    BY <1>8 DEF IsInjective
  <2> QED
    BY <2>1, <2>2, <2>3, <2>4 DEF RefCountExact, Blocks
<1>13. SizesFit'
  <2> SUFFICES ASSUME NEW q \in Requests
               PROVE  /\ computed'[q] <= Len(Content[q])
                      /\ Len(table'[q]) = Cdiv(computed'[q], BlockSize)
                      /\ numCached'[q] = Floor(computed'[q], BlockSize)
    BY DEF SizesFit, Cdiv, Floor
  <2>1. CASE q # r
    BY <1>9, <2>1 DEF CacheInv, SizesFit
  <2>2. CASE q = r
    <3>1. Cdiv(0, BlockSize) = 0
      BY BlockCounts
    <3>2. Floor(0, BlockSize) = 0
      <4>1. Floor(0, BlockSize) \in Nat /\ Floor(0, BlockSize) <= Cdiv(0, BlockSize)
        BY BlockCounts, Floors
      <4> QED
        BY <3>1, <4>1
    <3>3. Len(Content[q]) \in Nat
      BY HashLength
    <3>4. Len(<<>>) = 0
      OBVIOUS
    <3> QED
      BY <1>9, <2>2, <3>1, <3>2, <3>3, <3>4
  <2> QED
    BY <2>1, <2>2
<1>14. SharedAreHashed'
  <2> SUFFICES ASSUME NEW p \in Requests, NEW q \in Requests, p # q,
                      NEW i \in DOMAIN table'[p], NEW j \in DOMAIN table'[q],
                      table'[p][i] = table'[q][j]
               PROVE  blockHash'[table'[p][i]] # NoHash
    BY DEF SharedAreHashed, NoHash
  <2>1. p # r /\ q # r
    BY <1>10
  <2>2. table'[p] = table[p] /\ table'[q] = table[q]
    BY <1>9, <2>1
  <2> QED
    BY <1>2, <2>2 DEF CacheInv, SharedAreHashed
<1>15. ContentIsolated'
  BY <1>2, <1>9, <1>10 DEF CacheInv, ContentIsolated, DataOf
<1>16. CacheMapConsistent'
  <2>1. \A h \in Hashes, b \in Blocks : Contains(cached'[h], b) <=> blockHash'[b] = h
    BY <1>2 DEF CacheInv, CacheMapConsistent
  <2>2. \A b \in Blocks : blockHash'[b] # NoHash => assigned'[b] = blockHash'[b]
    BY <1>2 DEF CacheInv, CacheMapConsistent
  <2>3. \A q \in Requests : \A i \in DOMAIN table'[q] :
            blockHash'[table'[q][i]] = IF i <= numCached'[q] THEN HashOf(q, i) ELSE NoHash
    BY <1>2, <1>9, <1>10 DEF CacheInv, CacheMapConsistent
  <2> QED
    BY <2>1, <2>2, <2>3
       DEF CacheMapConsistent, Hashes, Blocks, NoHash, HashOf, FullBlocks, Floor
<1>17. TailBeforeHead'
  <2> SUFFICES ASSUME NEW q \in Requests, NEW i \in FullBlocks(q), NEW b \in Blocks,
                      i > 1, refCnt'[b] = 0, blockHash'[b] = HashOf(q, i)
               PROVE  \E c \in Blocks : /\ blockHash'[c] = HashOf(q, i - 1)
                                        /\ refCnt'[c] > 0 \/ Precedes(freeQueue', b, c)
    BY DEF TailBeforeHead, Blocks, FullBlocks, HashOf, Floor, Precedes
  <2>0. blockHash' = blockHash /\ blockHash[b] = HashOf(q, i)
    BY <1>2
  <2> SUFFICES \E c \in Blocks : /\ blockHash[c] = HashOf(q, i - 1)
                                 /\ refCnt'[c] > 0 \/ Precedes(freeQueue', b, c)
    BY <2>0
  <2>1. \A c \in Blocks : refCnt'[c] \in Nat
    BY <1>5
  <2>2. CASE refCnt[b] = 0
    <3>1. b \in ToSet(freeQueue)
      BY <2>2 DEF CacheInv, RefCountExact
    <3>2. PICK c \in Blocks : /\ blockHash[c] = HashOf(q, i - 1)
                              /\ refCnt[c] > 0 \/ Precedes(freeQueue, b, c)
      BY <2>0, <2>2 DEF CacheInv, TailBeforeHead
    <3>3. CASE refCnt'[c] > 0
      BY <3>2, <3>3
    <3>4. CASE refCnt'[c] = 0 /\ refCnt[c] > 0
      <4>1. c \in ToSet(freed)
        BY <1>5, <1>7, <3>4
      <4>2. Precedes(freeQueue \o freed, b, c)
        BY <1>1, <1>7, <3>1, <4>1, ConcatPrecedes
      <4> QED
        BY <1>2, <3>2, <4>2
    <3>5. CASE Precedes(freeQueue, b, c)
      <4>1. Precedes(freeQueue \o freed, b, c)
        BY <1>1, <1>7, <3>5, ConcatPrecedes
      <4> QED
        BY <1>2, <3>2, <4>1
    <3> QED
      BY <2>1, <3>2, <3>3, <3>4, <3>5
  \* The block in front of b in the table of r is freed behind it, if at all.
  <2>3. CASE refCnt[b] # 0
    <3>1. b \in mine /\ b \in ToSet(freed)
      BY <1>5, <1>7, <2>3
    <3>2. PICK j \in 1..Len(table[r]) : table[r][j] = b
      BY <1>1, <3>1 DEF mine, ToSet
    <3>3. blockHash[b] # NoHash
      BY <2>0, HashLength, NoHashIsNone
    <3>4. j <= numCached[r] /\ blockHash[b] = HashOf(r, j)
      BY <1>1, <3>2, <3>3 DEF CacheInv, CacheMapConsistent
    <3>5. j \in FullBlocks(r)
      <4>1. /\ numCached[r] = Floor(computed[r], BlockSize)
            /\ computed[r] \in Nat /\ computed[r] <= Len(Content[r])
        BY DEF CacheInv, SizesFit, BooksTypeOK
      <4>2. Len(Content[r]) \in Nat /\ Floor(Len(Content[r]), BlockSize) \in Nat
        BY HashLength
      <4>3. /\ Floor(computed[r], BlockSize) <= Floor(Len(Content[r]), BlockSize)
            /\ Floor(computed[r], BlockSize) \in Nat
        BY <4>1, <4>2, BlockCounts, Floors
      <4> QED
        BY <1>1, <3>4, <4>1, <4>2, <4>3 DEF FullBlocks
    <3>6. j = i /\ HashOf(r, i - 1) = HashOf(q, i - 1)
      <4>1. HashOf(r, j) = HashOf(q, i)
        BY <2>0, <3>4
      <4>2. i \in FullBlocks(q) /\ j \in FullBlocks(r)
        BY <3>5
      <4>3. j = i
        BY <4>1, <4>2, HashPlace
      <4>4. HashOf(r, i) = HashOf(q, i) /\ i \in FullBlocks(r)
        BY <4>1, <4>2, <4>3
      <4>5. HashOf(r, i - 1) = HashOf(q, i - 1)
        BY <4>2, <4>4, HashBefore
      <4> QED
        BY <4>3, <4>5
    <3> DEFINE c == table[r][i - 1]
    <3>7. i \in Nat /\ i - 1 \in 1..Len(table[r]) /\ i - 1 < i
      BY <1>1, <3>6, HashLength
    <3>8. c \in Blocks /\ c \in mine
      BY <1>1, <3>7 DEF mine, ToSet
    <3>9. blockHash[c] = HashOf(q, i - 1)
      <4>1. numCached[r] \in Nat
        BY DEF CacheInv, BooksTypeOK
      <4>2. i - 1 <= numCached[r]
        BY <3>4, <3>6, <3>7, <4>1
      <4>3. blockHash[c] = HashOf(r, i - 1)
        BY <1>1, <3>7, <4>2 DEF CacheInv, CacheMapConsistent
      <4> QED
        BY <3>6, <4>3
    <3>10. Precedes(table[r], c, b)
      BY <1>1, <3>2, <3>6, <3>7 DEF Precedes
    <3> HIDE DEF c
    <3>11. CASE refCnt'[c] > 0
      BY <3>8, <3>9, <3>11
    <3>12. CASE refCnt'[c] = 0
      <4>1. c \in ToSet(freed)
        BY <1>7, <3>8, <3>12
      <4>2. Precedes(back, b, c)
        BY <1>1, <3>10, ReversePrecedes DEF back
      <4>3. Precedes(freed, b, c)
        BY <1>7, <3>1, <4>1, <4>2
      <4>4. Precedes(freeQueue \o freed, b, c)
        BY <1>1, <1>7, <4>3, ConcatPrecedes
      <4> QED
        BY <1>2, <3>8, <3>9, <4>4
    <3> QED
      BY <2>1, <3>8, <3>11, <3>12
  <2> QED
    BY <2>2, <2>3
<1> QED
  BY <1>11, <1>12, <1>13, <1>14, <1>15, <1>16, <1>17 DEF CacheInv

\* reset_prefix_cache keeps the inductive invariant: nobody has a block.
LEMMA ResetKeeps ==
    ASSUME CacheInv, ResetPrefixCache
    PROVE  CacheInv'
<1>1. /\ cached' = [h \in Hashes |-> <<>>] /\ blockHash' = [b \in Blocks |-> NoHash]
      /\ UNCHANGED <<table, numCached, computed, refCnt, freeQueue, assigned>>
      /\ Len(freeQueue) = NumBlocks
  BY DEF ResetPrefixCache
<1>2. \A b \in Blocks : refCnt[b] = 0
  <2> DEFINE F == ToSet(freeQueue)
  <2>1. IsFiniteSet(Blocks) /\ Cardinality(Blocks) = NumBlocks
    BY CacheAssumption, SegmentCardinality DEF Blocks
  <2>2. Cardinality(F) = NumBlocks
    <3>1. freeQueue \in Seq(Blocks) /\ IsInjective(freeQueue)
      BY Unowned DEF CacheInv, BooksTypeOK
    <3> QED
      BY <1>1, <3>1, InjectiveLength
  <2>3. F = {b \in Blocks : refCnt[b] = 0}
    BY DEF CacheInv, RefCountExact
  <2>4. F \in SUBSET Blocks
    BY <2>3
  <2> HIDE DEF F
  <2>5. Blocks = F
    BY <2>1, <2>2, <2>4, FS_Subset
  <2> QED
    BY <2>3, <2>5
<1>3. \A q \in Requests : DOMAIN table[q] = {}
  <2> SUFFICES ASSUME NEW q \in Requests, NEW i \in DOMAIN table[q] PROVE FALSE
    OBVIOUS
  <2>1. table[q][i] \in Blocks /\ table[q][i] \in ToSet(table[q])
    BY DEF CacheInv, BooksTypeOK, ToSet
  <2> QED
    BY <1>2, <2>1, Unowned DEF CacheInv
<1>4. \A q \in Requests : DOMAIN table'[q] = {}
  BY <1>1, <1>3
<1>5. BooksTypeOK'
  BY <1>1 DEF CacheInv, BooksTypeOK, Blocks, Hashes, FullBlocks, Floor, HashOf, NoHash
<1>6. RefCountExact'
  BY <1>1 DEF CacheInv, RefCountExact, Blocks
<1>7. SizesFit'
  BY <1>1 DEF CacheInv, SizesFit, Cdiv, Floor
<1>8. SharedAreHashed' /\ ContentIsolated'
  BY <1>4 DEF SharedAreHashed, ContentIsolated
<1>9. CacheMapConsistent'
  <2>1. ASSUME NEW h \in Hashes, NEW b \in Blocks
        PROVE  Contains(cached'[h], b) <=> blockHash'[b] = h
    <3>1. cached'[h] = <<>> /\ blockHash'[b] = NoHash /\ h # NoHash
      BY <1>1, NoHashIsNone
    <3> QED
      BY <3>1 DEF Contains
  <2>2. \A b \in Blocks : blockHash'[b] = NoHash
    BY <1>1
  <2> QED
    BY <1>4, <2>1, <2>2
       DEF CacheMapConsistent, Hashes, Blocks, NoHash, HashOf, FullBlocks, Floor
<1>10. TailBeforeHead'
  <2> SUFFICES ASSUME NEW q \in Requests, NEW i \in FullBlocks(q), NEW b \in Blocks,
                      blockHash'[b] = HashOf(q, i)
               PROVE  FALSE
    BY DEF TailBeforeHead, Blocks, FullBlocks, HashOf, Floor, Precedes
  <2>1. HashOf(q, i) = NoHash
    BY <1>1
  <2> QED
    BY <2>1, HashLength, NoHashIsNone
<1> QED
  BY <1>5, <1>6, <1>7, <1>8, <1>9, <1>10 DEF CacheInv

\* An empty pool satisfies the inductive invariant.
LEMMA CacheInitHolds == CacheInit => CacheInv
<1> SUFFICES ASSUME CacheInit PROVE CacheInv
  OBVIOUS
<1>1. /\ \A r \in Requests : table[r] = <<>> /\ numCached[r] = 0 /\ computed[r] = 0
      /\ \A b \in Blocks : refCnt[b] = 0 /\ blockHash[b] = NoHash
      /\ \A h \in Hashes : cached[h] = <<>>
      /\ freeQueue = [b \in 1..NumBlocks |-> b]
  BY DEF CacheInit, Blocks
<1>2. freeQueue \in Seq(Blocks) /\ DOMAIN freeQueue = Blocks /\ ToSet(freeQueue) = Blocks
  <2>1. freeQueue \in [1..NumBlocks -> Blocks]
    BY <1>1 DEF Blocks
  <2> QED
    BY <1>1, <2>1, CacheAssumption DEF Blocks, ToSet
<1>3. BooksTypeOK
  BY <1>2 DEF CacheInit, BooksTypeOK
<1>4. RefCountExact
  <2>1. ASSUME NEW b \in Blocks
        PROVE  refCnt[b] = Cardinality({r \in Requests : Contains(table[r], b)})
    <3>1. {r \in Requests : Contains(table[r], b)} = {}
      BY <1>1 DEF Contains
    <3> QED
      BY <1>1, <3>1, FS_EmptySet
  <2>2. \A r \in Requests : \A i, j \in DOMAIN table[r] : i # j => table[r][i] # table[r][j]
    BY <1>1
  <2>3. ToSet(freeQueue) = {b \in Blocks : refCnt[b] = 0}
    BY <1>1, <1>2
  <2>4. \A i, j \in DOMAIN freeQueue : i # j => freeQueue[i] # freeQueue[j]
    BY <1>1
  <2> QED
    BY <2>1, <2>2, <2>3, <2>4 DEF RefCountExact
<1>5. SizesFit
  <2> SUFFICES ASSUME NEW q \in Requests
               PROVE  /\ computed[q] <= Len(Content[q])
                      /\ Len(table[q]) = Cdiv(computed[q], BlockSize)
                      /\ numCached[q] = Floor(computed[q], BlockSize)
    BY DEF SizesFit
  <2>1. Cdiv(0, BlockSize) = 0
    BY BlockCounts
  <2>2. Floor(0, BlockSize) = 0
    <3>1. Floor(0, BlockSize) \in Nat /\ Floor(0, BlockSize) <= Cdiv(0, BlockSize)
      BY BlockCounts, Floors
    <3> QED
      BY <2>1, <3>1
  <2>3. Len(Content[q]) \in Nat /\ Len(<<>>) = 0
    BY HashLength
  <2> QED
    BY <1>1, <2>1, <2>2, <2>3
<1>6. SharedAreHashed /\ ContentIsolated
  BY <1>1 DEF SharedAreHashed, ContentIsolated
<1>7. CacheMapConsistent
  <2>1. \A h \in Hashes, b \in Blocks : Contains(cached[h], b) <=> blockHash[b] = h
    BY <1>1, NoHashIsNone DEF Contains
  <2> QED
    BY <1>1, <2>1 DEF CacheMapConsistent
<1>8. TailBeforeHead
  BY <1>1, HashLength, NoHashIsNone DEF TailBeforeHead
<1> QED
  BY <1>3, <1>4, <1>5, <1>6, <1>7, <1>8 DEF CacheInv

\* The inductive invariant reads nothing but the books.
LEMMA BooksStay ==
    ASSUME CacheInv, UNCHANGED books
    PROVE  CacheInv'
<1>1. UNCHANGED <<table, numCached, computed, refCnt, freeQueue, blockHash, cached, assigned>>
  BY DEF books
<1>2. BooksTypeOK'
  BY <1>1 DEF CacheInv, BooksTypeOK, Blocks, Hashes, FullBlocks, Floor, HashOf, NoHash
<1>3. RefCountExact' /\ SizesFit'
  BY <1>1 DEF CacheInv, RefCountExact, SizesFit, Blocks, Cdiv, Floor
<1>4. SharedAreHashed' /\ ContentIsolated'
  BY <1>1 DEF CacheInv, SharedAreHashed, ContentIsolated, NoHash, DataOf
<1>5. CacheMapConsistent'
  BY <1>1 DEF CacheInv, CacheMapConsistent, Blocks, Hashes, FullBlocks, Floor, HashOf, NoHash
<1>6. TailBeforeHead'
  BY <1>1 DEF CacheInv, TailBeforeHead, Precedes, Blocks, FullBlocks, Floor, HashOf
<1> QED
  BY <1>2, <1>3, <1>4, <1>5, <1>6 DEF CacheInv

\* A step that leaves the cache alone keeps its invariant.
LEMMA CacheStays ==
    ASSUME CacheInv, UNCHANGED kv
    PROVE  CacheInv'
  BY BooksStay DEF kv, books

\* A step only writes, or gives up, blocks of its requests.
WritesFit ==
    /\ due \in [Requests -> SUBSET Blocks] /\ blank \subseteq Blocks
    /\ \A r \in Requests : due[r] \subseteq ToSet(table[r])

\* Slots that were allocated are due, and blocks that are handed out not blank.
LEMMA AllocateWrites ==
    ASSUME CacheInv, CacheInv', WritesFit, NEW r \in Requests, NEW hits, Found(r, hits),
           NEW refs, NEW free, NEW n, AllocateFrom(refs, free, r, hits, n),
           ToSet(table[r]) \subseteq ToSet(table'[r])
    PROVE  /\ WritesFit' /\ blank' \subseteq blank
           /\ \A q \in Requests \ {r} : due'[q] = due[q]
<1> DEFINE start == Floor(IF table[r] = <<>> THEN Len(hits) * BlockSize ELSE computed[r],
                          BlockSize)
           tbl == table'[r]
           written == {tbl[i] : i \in (start + 1)..Len(tbl)}
<1>1. /\ table \in [Requests -> Seq(Blocks)] /\ table' \in [Requests -> Seq(Blocks)]
      /\ computed[r] \in Nat /\ Blocks' = Blocks
  BY DEF CacheInv, BooksTypeOK, Blocks
<1>2. \A q \in Requests \ {r} : table'[q] = table[q]
  BY <1>1 DEF AllocateFrom
<1>3. /\ due' = [due EXCEPT ![r] = @ \cup written]
      /\ blank' \subseteq blank
  <2> DEFINE k == NewBlockCount(r, hits, n)
             new == Popped(Touched(free, hits), k)
             t == table[r] \o hits \o new
  <2>1. table' = [table EXCEPT ![r] = t] /\ blank' = blank \ ToSet(new)
        /\ due' = [due EXCEPT ![r] = @ \cup {t[i] : i \in (start + 1)..Len(t)}]
    BY DEF AllocateFrom
  <2> HIDE DEF t, new, k
  <2>2. tbl = t
    BY <1>1, <2>1
  <2> QED
    BY <2>1, <2>2
<1>4. start \in Nat
  <2>1. Len(hits) \in Nat
    BY DEF Found
  <2>2. Len(hits) * BlockSize \in Nat
    BY <2>1, Products
  <2> QED
    BY <1>1, <2>2, Floors
<1>5. written \subseteq ToSet(table'[r])
  <2>1. DOMAIN tbl = 1..Len(tbl) /\ Len(tbl) \in Nat
    BY <1>1
  <2> HIDE DEF start
  <2> QED
    BY <1>4, <2>1 DEF ToSet
<1>6. \A q \in Requests : ToSet(table'[q]) \subseteq Blocks
  BY <1>1 DEF ToSet
<1> HIDE DEF written
<1>8. /\ due'[r] = due[r] \cup written /\ DOMAIN due' = Requests /\ due' = [q \in Requests |-> due'[q]]
      /\ \A q \in Requests \ {r} : due'[q] = due[q]
  BY <1>3 DEF WritesFit
<1>9. \A q \in Requests : due'[q] \subseteq ToSet(table'[q])
  BY <1>2, <1>5, <1>8 DEF WritesFit
<1>10. due' \in [Requests -> SUBSET Blocks]
  BY <1>6, <1>8, <1>9
<1> QED
  BY <1>1, <1>3, <1>8, <1>9, <1>10 DEF WritesFit, Blocks

\* What a request is freed of without being written is blank.
LEMMA FreeWrites ==
    ASSUME CacheInv, WritesFit, NEW r \in Requests, Free(r)
    PROVE  /\ WritesFit' /\ due'[r] = {} /\ blank' = blank \cup due[r]
           /\ \A q \in Requests \ {r} : due'[q] = due[q]
<1>1. /\ due' = [due EXCEPT ![r] = {}] /\ blank' = blank \cup due[r]
      /\ table' = [table EXCEPT ![r] = <<>>] /\ table \in [Requests -> Seq(Blocks)]
  BY DEF Free, CacheInv, BooksTypeOK
<1> QED
  BY <1>1 DEF WritesFit, Blocks

\* Executing the step, and steps that leave the cache alone.
LEMMA WritesStay ==
    ASSUME WritesFit, UNCHANGED table, blank' = blank,
           due' = due \/ due' = [r \in Requests |-> {}]
    PROVE  WritesFit'
  BY DEF WritesFit, Blocks

\* The inductive invariant is one, blocks that are given up before they are written
\* do not disturb the books, and in an orderly specification there are none.
LEMMA CacheStep ==
    ASSUME CacheInv, WritesFit, [CacheNext]_kv
    PROVE  /\ CacheInv' /\ WritesFit'
           /\ blank = {} /\ [FreesWritten]_kv => blank' = {}
<1>1. ASSUME NEW r \in Requests, NEW n \in 1..Len(Content[r]), ScheduleNew(r, n)
      PROVE  CacheInv' /\ WritesFit' /\ blank' \subseteq blank
  <2> DEFINE len == Len(Content[r])
             hits == HitBlocks(r, len)
  <2>1. table[r] = <<>> /\ n > HitLength(r, len) * BlockSize /\ AllocateSlots(r, hits, n)
    BY <1>1 DEF ScheduleNew
  <2>2. len \in 1..len
    BY HashLength
  <2>3. Found(r, hits) /\ Len(hits) = HitLength(r, len) /\ HitLength(r, len) \in Nat
    BY <2>1, <2>2, HitsAreFound
  <2>4. Ready(r, hits) = HitLength(r, len) * BlockSize
    BY <2>1, <2>3 DEF Ready
  <2> HIDE DEF hits, len
  <2>5. n >= Ready(r, hits)
    <3>1. n \in Nat /\ HitLength(r, len) * BlockSize \in Nat
      BY <2>3, HashLength, Products
    <3> QED
      BY <2>1, <2>4, <3>1
  <2>6. CacheInv' /\ ToSet(table[r]) \subseteq ToSet(table'[r])
    BY <2>1, <2>3, <2>5, AllocateKeeps
  <2> QED
    BY <2>1, <2>3, <2>6, AllocateWrites DEF AllocateSlots
<1>2. ASSUME NEW r \in Requests, NEW n \in 1..Len(Content[r]), ScheduleMore(r, n)
      PROVE  CacheInv' /\ WritesFit' /\ blank' \subseteq blank
  <2>1. table[r] # <<>> /\ n > computed[r] /\ AllocateSlots(r, <<>>, n)
    BY <1>2 DEF ScheduleMore
  <2>2. Found(r, <<>>)
    <3>1. Floor(Len(Content[r]), BlockSize) \in Nat
      BY HashLength
    <3> QED
      BY <3>1 DEF Found
  <2>3. n >= Ready(r, <<>>)
    <3>1. n \in Nat /\ computed[r] \in Nat
      BY HashLength DEF CacheInv, BooksTypeOK
    <3> QED
      BY <2>1, <3>1 DEF Ready
  <2>4. CacheInv' /\ ToSet(table[r]) \subseteq ToSet(table'[r])
    BY <2>1, <2>2, <2>3, AllocateKeeps
  <2> QED
    BY <2>1, <2>2, <2>4, AllocateWrites DEF AllocateSlots
<1>3. ASSUME NEW r \in Requests, Free(r)
      PROVE  CacheInv' /\ WritesFit' /\ (blank = {} /\ [FreesWritten]_kv => blank' = {})
  <2>1. WritesFit' /\ blank' = blank \cup due[r]
    BY <1>3, FreeWrites
  <2>2. table[r] # <<>> /\ table'[r] = <<>>
    BY <1>3 DEF Free, CacheInv, BooksTypeOK
  <2>3. UNCHANGED kv => FALSE
    BY <2>2 DEF kv
  <2>4. CacheInv'
    BY <1>3, FreeKeeps
  <2> QED
    BY <2>1, <2>2, <2>3, <2>4 DEF FreesWritten
<1>4. CASE ResetPrefixCache \/ Execute \/ UNCHANGED kv
  <2>1. UNCHANGED table /\ blank' = blank /\ (due' = due \/ due' = [r \in Requests |-> {}])
    BY <1>4 DEF ResetPrefixCache, Execute, WriteBatch, kv, books
  <2>2. CacheInv'
    BY <1>4, ResetKeeps, BooksStay, CacheStays DEF Execute, WriteBatch
  <2> QED
    BY <2>1, <2>2, WritesStay
<1> QED
  BY <1>1, <1>2, <1>3, <1>4 DEF CacheNext

\* The books are right whoever is freed, and only what was allocated is due.
LEMMA CacheInvariance == CacheSpec => [](CacheInv /\ WritesFit)
<1>1. CacheInit => CacheInv /\ WritesFit
  BY CacheInitHolds DEF CacheInit, WritesFit
<1> QED
  BY <1>1, CacheStep, PTL DEF CacheSpec

\* If nobody is freed before the step is executed no block is left blank.
LEMMA OrderlyInvariance == OrderlySpec => [](CacheInv /\ WritesFit /\ blank = {})
<1>1. CacheInit => CacheInv /\ WritesFit /\ blank = {}
  BY CacheInitHolds DEF CacheInit, WritesFit
<1>2. ASSUME CacheInv, WritesFit, blank = {}, [CacheNext /\ FreesWritten]_kv
      PROVE  (CacheInv /\ WritesFit /\ blank = {})'
  BY <1>2, CacheStep
<1> QED
  BY <1>1, <1>2, PTL DEF OrderlySpec

-----------------------------------------------------------------------------
(* The results. *)

\* However requests share, free and take over blocks, the reference counts and the
\* free queue are exact (BlockPool.touch, free_blocks, get_new_blocks).
THEOREM BlocksCorrect == CacheSpec => []BlocksSound
<1>1. CacheInv /\ WritesFit => BlocksSound
  BY DEF CacheInv, WritesFit, CacheTypeOK, BlocksSound
<1> QED
  BY <1>1, CacheInvariance, PTL

\* If no request is freed between being scheduled and being executed, every block
\* of a request is for the keys and values of its own tokens, the prefix cache tells
\* the truth about every block it offers, and whatever can be hit or read is written
\* or will be in this step (cache_full_blocks, _maybe_evict_cached_block).
THEOREM CacheCorrect == OrderlySpec => []CacheSound
<1>1. CacheInv /\ WritesFit /\ blank = {} => CacheSound
  <2> SUFFICES ASSUME CacheInv, WritesFit, blank = {} PROVE CacheSound
    OBVIOUS
  <2>1. \A r \in Requests : \A b \in due[r] : Contains(table[r], b)
    BY DEF CacheInv, BooksTypeOK, WritesFit, Contains, ToSet
  <2> QED
    BY <2>1 DEF CacheInv, CacheSound, ReadableIsWritten
<1> QED
  BY <1>1, OrderlyInvariance, PTL

\* Eviction takes the tail of a chain before its head, because free returns the
\* blocks of a request in reverse order: a lookup may stop at the first miss.
THEOREM ChainsCorrect == CacheSpec => []ChainsPrefixClosed
<1>1. CacheInv => ChainsPrefixClosed
  <2> SUFFICES ASSUME CacheInv, NEW r \in Requests, NEW i \in FullBlocks(r),
                      i > 1, cached[HashOf(r, i)] # <<>>
               PROVE  cached[HashOf(r, i - 1)] # <<>>
    BY DEF ChainsPrefixClosed
  <2>1. i - 1 \in FullBlocks(r) /\ HashOf(r, i - 1) \in Hashes /\ HashOf(r, i) \in Hashes
    BY HashChains, HashLength
  <2> DEFINE s == cached[HashOf(r, i)]
             b == Head(s)
  <2>2. s \in Seq(Blocks) /\ s # <<>>
    BY <2>1 DEF CacheInv, BooksTypeOK
  <2> HIDE DEF s
  <2>3. b \in Blocks /\ Contains(s, b)
    BY <2>2 DEF Contains
  <2> HIDE DEF b
  <2>4. blockHash[b] = HashOf(r, i)
    BY <2>1, <2>3 DEF CacheInv, CacheMapConsistent, s
  <2>5. \E c \in Blocks : blockHash[c] = HashOf(r, i - 1)
    <3>1. CASE refCnt[b] = 0
      BY <2>3, <2>4, <3>1 DEF CacheInv, TailBeforeHead
    <3>2. CASE refCnt[b] # 0
      <4>1. PICK q \in Requests : b \in ToSet(table[q])
        BY <2>3, <3>2, Unowned DEF CacheInv
      <4>2. /\ table[q] \in Seq(Blocks) /\ DOMAIN table[q] = 1..Len(table[q])
            /\ Len(table[q]) \in Nat
        BY DEF CacheInv, BooksTypeOK
      <4>3. PICK j \in 1..Len(table[q]) : table[q][j] = b
        BY <4>1, <4>2 DEF ToSet
      <4>4. blockHash[b] # NoHash
        BY <2>1, <2>4, NoHashIsNone
      <4>5. j <= numCached[q] /\ blockHash[b] = HashOf(q, j)
        BY <4>2, <4>3, <4>4 DEF CacheInv, CacheMapConsistent
      <4>6. j \in FullBlocks(q)
        <5>1. /\ numCached[q] = Floor(computed[q], BlockSize)
              /\ computed[q] \in Nat /\ computed[q] <= Len(Content[q])
          BY DEF CacheInv, SizesFit, BooksTypeOK
        <5>2. Len(Content[q]) \in Nat /\ Floor(Len(Content[q]), BlockSize) \in Nat
          BY HashLength
        <5>3. /\ Floor(computed[q], BlockSize) <= Floor(Len(Content[q]), BlockSize)
              /\ Floor(computed[q], BlockSize) \in Nat
          BY <5>1, <5>2, BlockCounts, Floors
        <5> QED
          BY <4>2, <4>5, <5>1, <5>2, <5>3 DEF FullBlocks
      <4>7. HashOf(q, j) = HashOf(r, i)
        BY <2>4, <4>5
      <4>8. j = i
        BY <4>6, <4>7, HashPlace
      <4>9. HashOf(q, i - 1) = HashOf(r, i - 1)
        BY <4>6, <4>7, <4>8, HashBefore
      <4>10. i \in Nat /\ i - 1 \in 1..Len(table[q]) /\ numCached[q] \in Nat
        BY <4>2, <4>8, HashLength DEF CacheInv, BooksTypeOK
      <4>11. i - 1 <= numCached[q]
        BY <4>5, <4>8, <4>10
      <4>12. blockHash[table[q][i - 1]] = HashOf(q, i - 1)
        BY <4>2, <4>10, <4>11 DEF CacheInv, CacheMapConsistent
      <4>13. table[q][i - 1] \in Blocks
        BY <4>2, <4>10
      <4> QED
        BY <4>9, <4>12, <4>13
    <3> QED
      BY <3>1, <3>2
  <2>6. PICK c \in Blocks : blockHash[c] = HashOf(r, i - 1)
    BY <2>5
  <2>7. Contains(cached[HashOf(r, i - 1)], c)
    BY <2>1, <2>6 DEF CacheInv, CacheMapConsistent
  <2> QED
    BY <2>7 DEF Contains
<1> QED
  BY <1>1, CacheInvariance, PTL

-----------------------------------------------------------------------------
(* Retention over the cache. *)

Scheduled == {b.req : b \in ToSet(batch)}
Pinned == {p.req : p \in ToSet(pins)}
InSchedule == pc \in {"running", "alloc", "waiting", "commit"}

\* Every variable that is not part of the cache has its type.
StateTypes ==
    /\ continuum \in BOOLEAN
    /\ status \in [Requests -> {"new", "waiting", "running", "preempted", "finished"}]
    /\ tokens \in [Requests -> Nat]
    /\ \A r \in Requests : tokens[r] \in Prompt[r]..Len(Content[r])
    /\ running \in Seq(Requests) /\ waiting \in Seq(Requests)
    /\ jobs \in Seq({Job[r] : r \in Requests})
    /\ pins \in Seq([req : Requests, left : 0..MaxHold])
    /\ pc \in {"input", "unpin", "running", "alloc", "waiting", "commit", "output", "free"}
    /\ index \in 1..(Cardinality(Requests) + 1)
    /\ current \in Requests \cup {None}
    /\ budget \in 0..MaxBatch
    /\ batch \in Seq([req : Requests, num : 1..MaxBatch])
    /\ unreported \in BOOLEAN /\ preempted \in BOOLEAN

\* A request is in the list that its status names, once, and its job is known.
ListsFit ==
    /\ IsInjective(running) /\ IsInjective(waiting)
    /\ \A r \in Requests :
          /\ r \in ToSet(running) <=> status[r] = "running"
          /\ r \in ToSet(waiting) <=> status[r] \in {"waiting", "preempted"}
          /\ status[r] # "new" => Job[r] \in ToSet(jobs)

\* A step schedules running requests, each once.
BatchFits ==
    /\ IsInjective(batch)
    /\ \A b, c \in ToSet(batch) : b.req = c.req => b = c
    /\ \A r \in Scheduled : status[r] = "running"
    /\ pc \in {"input", "unpin"} => batch = <<>>

\* f is what the batch gives every request.
IsShare(f) ==
    /\ f \in [Requests -> 0..MaxBatch]
    /\ \A b \in ToSet(batch) : f[b.req] = b.num
    /\ \A r \in Requests \ Scheduled : f[r] = 0

ShareTotal(f) == FoldFunction(+, 0, f)

\* The batch and the rest of the budget make up max_num_scheduled_tokens.
BudgetFits ==
    InSchedule => \E f \in [Requests -> 0..MaxBatch] :
                     IsShare(f) /\ budget + ShareTotal(f) = MaxBatch

\* Blocks come with the status "running", and there is something to compute for
\* every running request that is not scheduled yet.
ComputedFits ==
    \A r \in Requests :
        /\ tokens[r] = Len(Content[r]) => status[r] = "finished"
        /\ status[r] \in {"new", "waiting", "preempted"} => computed[r] = 0
        /\ status[r] = "running" =>
              /\ computed[r] > 0 /\ computed[r] <= tokens[r]
              /\ r \notin Scheduled => computed[r] < tokens[r]

\* Blocks stay after the end for a pin, or until _free_blocks is over; they are
\* those of the whole turn if it was completed.
PinsFit ==
    /\ IsInjective(pins)
    /\ \A p, q \in ToSet(pins) : Job[p.req] = Job[q.req] => p = q
    /\ \A r \in Requests :
          /\ status[r] = "finished" /\ computed[r] # 0 => r = current \/ r \in Pinned
          /\ r \in Pinned => status[r] = "finished"
          /\ r \in Pinned \cup {current} /\ tokens[r] = Len(Content[r])
                => computed[r] = Len(Content[r]) - 1

\* The request in hand, and the part of the RUNNING loop that is still to come.
LoopFits ==
    /\ current \in Requests <=> pc \in {"alloc", "free"}
    /\ pc = "free" => status[current] = "finished" /\ current \notin Pinned
    /\ pc = "alloc" =>
          /\ index <= Cardinality(Requests) /\ budget > 0
          /\ current \notin Scheduled
          /\ \E i \in DOMAIN running : i <= index /\ running[i] = current
    /\ pc \in {"running", "alloc"} =>
          \A i \in DOMAIN running : i >= index => running[i] \notin Scheduled

PinInv ==
    /\ CacheInv /\ StateTypes /\ ListsFit /\ BatchFits /\ BudgetFits
    /\ ComputedFits /\ PinsFit /\ LoopFits

\* The attempt for the request in hand fits the budget and the request.
AttemptFits ==
    /\ attempt \in 0..MaxBatch
    /\ pc = "alloc" => attempt \in 1..budget /\ computed[current] + attempt <= tokens[current]

\* Only the step being scheduled has writes to come, of what it schedules.
DueScheduled == \A r \in Requests : due[r] # {} => InSchedule /\ r \in Scheduled

\* Where the last running request is preempted, the request in hand is the one that
\* index names, nobody scheduled is preempted, and so no block is given up unwritten.
LastGoesFirst ==
    ~continuum => /\ blank = {}
                  /\ pc = "alloc" => index \in DOMAIN running /\ running[index] = current

StepInv == AttemptFits /\ WritesFit /\ DueScheduled /\ LastGoesFirst

\* A request has at least one prompt token and one token to generate.
LEMMA PromptFits ==
    \A r \in Requests : /\ Len(Content[r]) \in Nat \ {0}
                        /\ Prompt[r] \in Nat \ {0} /\ Prompt[r] < Len(Content[r])
<1> SUFFICES ASSUME NEW r \in Requests
             PROVE  /\ Len(Content[r]) \in Nat \ {0}
                    /\ Prompt[r] \in Nat \ {0} /\ Prompt[r] < Len(Content[r])
  OBVIOUS
<1>1. Len(Content[r]) \in Nat \ {0}
  BY HashLength
<1>2. Prompt[r] \in 1..(Len(Content[r]) - 1)
  BY RetentionAssumption
<1> QED
  BY <1>1, <1>2

\* A request has blocks exactly if some of its tokens have slots.
LEMMA BlocksForComputed ==
    ASSUME CacheInv
    PROVE  /\ computed \in [Requests -> Nat]
           /\ \A r \in Requests : table[r] = <<>> <=> computed[r] = 0
<1>1. computed \in [Requests -> Nat] /\ table \in [Requests -> Seq(Blocks)]
  BY DEF CacheInv, BooksTypeOK
<1> SUFFICES ASSUME NEW r \in Requests PROVE table[r] = <<>> <=> computed[r] = 0
  BY <1>1
<1>2. Len(table[r]) = Cdiv(computed[r], BlockSize) /\ computed[r] \in Nat
  BY <1>1 DEF CacheInv, SizesFit
<1>3. Cdiv(computed[r], BlockSize) = 0 <=> computed[r] = 0
  BY <1>2, BlockCounts
<1>4. table[r] = <<>> <=> Len(table[r]) = 0
  BY <1>1
<1> QED
  BY <1>2, <1>3, <1>4

\* kv_cache_manager.free takes all blocks of the request, and only those.
LEMMA FreeKVKeeps ==
    ASSUME CacheInv, NEW r \in Requests, FreeKV(r)
    PROVE  CacheInv' /\ computed' = [computed EXCEPT ![r] = 0]
<1>1. computed \in [Requests -> Nat] /\ (table[r] = <<>> <=> computed[r] = 0)
  BY BlocksForComputed
<1>2. CASE table[r] = <<>>
  <2>1. UNCHANGED kv
    BY <1>2 DEF FreeKV
  <2>2. CacheInv'
    BY <2>1, CacheStays
  <2> QED
    BY <1>1, <1>2, <2>1, <2>2 DEF kv
<1>3. CASE table[r] # <<>>
  <2>1. Free(r)
    BY <1>3 DEF FreeKV
  <2>2. CacheInv'
    BY <2>1, FreeKeeps
  <2> QED
    BY <2>1, <2>2 DEF Free
<1> QED
  BY <1>2, <1>3

\* Nothing of the invariant depends on how the fields of the cache change when
\* none does.
LEMMA KVStays ==
    ASSUME CacheInv, UNCHANGED kv
    PROVE  CacheInv' /\ computed' = computed
  BY CacheStays DEF kv

\* What a request is freed of is not written any more.
LEMMA FreeKVWrites ==
    ASSUME CacheInv, WritesFit, NEW r \in Requests, FreeKV(r)
    PROVE  /\ WritesFit' /\ due'[r] = {} /\ blank' = blank \cup due[r]
           /\ \A q \in Requests \ {r} : due'[q] = due[q]
<1>1. CASE table[r] = <<>>
  <2>1. UNCHANGED <<table, due, blank>>
    BY <1>1 DEF FreeKV, kv
  <2>2. due[r] = {}
    BY <1>1 DEF WritesFit, ToSet
  <2> QED
    BY <2>1, <2>2, WritesStay
<1>2. CASE table[r] # <<>>
  BY <1>2, FreeWrites DEF FreeKV
<1> QED
  BY <1>1, <1>2

\* The lists and the batch hold requests, and their sizes are bounded.
LEMMA Bounded ==
    ASSUME StateTypes, ListsFit
    PROVE  /\ Cardinality(Requests) \in Nat
           /\ Len(running) <= Cardinality(Requests)
<1>1. IsFiniteSet(Requests) /\ Cardinality(Requests) \in Nat
  BY CacheAssumption, FS_CardinalityType
<1>2. running \in Seq(Requests) /\ IsInjective(running)
  BY DEF StateTypes, ListsFit
<1>3. Cardinality(ToSet(running)) = Len(running)
  BY <1>2, InjectiveLength
<1>4. ToSet(running) \in SUBSET Requests
  BY <1>2 DEF ToSet
<1>5. Cardinality(ToSet(running)) <= Cardinality(Requests)
  BY <1>1, <1>4, FS_Subset
<1> QED
  BY <1>1, <1>3, <1>5

\* Pins and the entries of the batch are about requests.
LEMMA Records ==
    ASSUME StateTypes
    PROVE  /\ \A p \in ToSet(pins) : p.req \in Requests
           /\ \A b \in ToSet(batch) : b.req \in Requests /\ b.num \in 1..MaxBatch
           /\ Pinned \subseteq Requests /\ Scheduled \subseteq Requests
<1>1. ToSet(pins) \subseteq [req : Requests, left : 0..MaxHold]
  BY ElementsType DEF StateTypes
<1>2. ToSet(batch) \subseteq [req : Requests, num : 1..MaxBatch]
  BY ElementsType DEF StateTypes
<1>3. \A p \in ToSet(pins) : p.req \in Requests
  BY <1>1
<1>4. \A b \in ToSet(batch) : b.req \in Requests /\ b.num \in 1..MaxBatch
  BY <1>2
<1> QED
  BY <1>3, <1>4 DEF Pinned, Scheduled

\* The request in hand is not a pinned one.
LEMMA CurrentNotPinned ==
    ASSUME StateTypes, ListsFit, PinsFit, LoopFits
    PROVE  current \notin Pinned
<1> SUFFICES ASSUME current \in Pinned PROVE FALSE
  OBVIOUS
<1>2. current \in Requests
  BY Records
<1>3. status[current] = "finished"
  BY <1>2 DEF PinsFit
<1>4. pc = "alloc"
  BY <1>2 DEF LoopFits
<1>5. \E i \in DOMAIN running : running[i] = current
  BY <1>4 DEF LoopFits
<1>6. current \in ToSet(running)
  BY <1>5 DEF ToSet
<1>7. status[current] = "running"
  BY <1>2, <1>6 DEF ListsFit
<1> QED
  BY <1>3, <1>7

\* Initially nothing is retained, scheduled or queued.
LEMMA PinInit == Init => PinInv
<1> SUFFICES ASSUME Init PROVE PinInv
  OBVIOUS
<1>1. CacheInv /\ (\A r \in Requests : computed[r] = 0)
  BY CacheInitHolds DEF Init, CacheInit
<1>2. Cardinality(Requests) \in Nat
  BY CacheAssumption, FS_CardinalityType
<1>3. ToSet(batch) = {} /\ ToSet(pins) = {} /\ ToSet(running) = {} /\ ToSet(waiting) = {}
  BY DEF Init, ToSet
<1>4. Scheduled = {} /\ Pinned = {}
  BY <1>3 DEF Scheduled, Pinned
<1>5. StateTypes
  <2>1. tokens \in [Requests -> Nat] /\ \A r \in Requests : tokens[r] \in Prompt[r]..Len(Content[r])
    BY PromptFits, RetentionAssumption DEF Init
  <2>2. status \in [Requests -> {"new", "waiting", "running", "preempted", "finished"}]
    BY DEF Init
  <2>3. /\ running \in Seq(Requests) /\ waiting \in Seq(Requests)
        /\ jobs \in Seq({Job[r] : r \in Requests})
        /\ pins \in Seq([req : Requests, left : 0..MaxHold])
        /\ batch \in Seq([req : Requests, num : 1..MaxBatch])
    BY DEF Init
  <2>4. index \in 1..(Cardinality(Requests) + 1) /\ budget \in 0..MaxBatch
    BY <1>2, RetentionAssumption DEF Init
  <2> QED
    BY <2>1, <2>2, <2>3, <2>4 DEF Init, StateTypes
<1>6. ListsFit
  <2>1. IsInjective(running) /\ IsInjective(waiting)
    BY DEF Init, IsInjective
  <2> QED
    BY <1>3, <2>1 DEF Init, ListsFit
<1>7. BatchFits
  <2>1. IsInjective(batch)
    BY DEF Init, IsInjective
  <2> QED
    BY <1>3, <1>4, <2>1 DEF Init, BatchFits
<1>8. BudgetFits
  BY DEF Init, BudgetFits, InSchedule
<1>9. ComputedFits
  BY <1>1, PromptFits DEF Init, ComputedFits
<1>10. PinsFit
  <2>1. IsInjective(pins)
    BY DEF Init, IsInjective
  <2> QED
    BY <1>1, <1>3, <1>4, <2>1, RetentionAssumption DEF Init, PinsFit
<1>11. LoopFits
  BY RetentionAssumption DEF Init, LoopFits
<1> QED
  BY <1>1, <1>5, <1>6, <1>7, <1>8, <1>9, <1>10, <1>11 DEF PinInv

\* What depends on the lists alone stays with the lists.
LEMMA ListsStay ==
    ASSUME ListsFit, UNCHANGED <<status, running, waiting, jobs>>
    PROVE  ListsFit'
  BY DEF ListsFit

\* A step of the engine core that only moves on, within schedule() or out of it.
LEMMA ControlInv ==
    ASSUME PinInv, StateTypes', BudgetFits',
           UNCHANGED kv \/ UNCHANGED books,
           UNCHANGED <<status, tokens, running, waiting, jobs, pins, current, batch>>,
           pc' \in {"input", "unpin"} => batch = <<>>,
           \/ UNCHANGED <<pc, index, budget>>
           \/ /\ pc \notin {"alloc", "free"} /\ pc' \notin {"alloc", "free"}
              /\ pc' = "running" => batch = <<>>
    PROVE  PinInv'
<1> USE DEF PinInv
<1>1. CacheInv' /\ computed' = computed
  BY KVStays, BooksStay DEF books
<1>2. Scheduled' = Scheduled /\ Pinned' = Pinned
  BY DEF Scheduled, Pinned
<1>3. ListsFit'
  BY ListsStay
<1>4. BatchFits'
  BY <1>2 DEF BatchFits
<1>5. ComputedFits'
  BY <1>1, <1>2 DEF ComputedFits
<1>6. PinsFit'
  BY <1>1, <1>2 DEF PinsFit
<1>7. LoopFits'
  <2>1. CASE UNCHANGED <<pc, index, budget>>
    BY <1>2, <2>1 DEF LoopFits
  <2>2. CASE /\ pc \notin {"alloc", "free"} /\ pc' \notin {"alloc", "free"}
             /\ pc' = "running" => batch = <<>>
    <3>1. batch = <<>> => Scheduled = {}
      BY DEF Scheduled, ToSet
    <3> QED
      BY <1>2, <2>2, <3>1 DEF LoopFits
  <2> QED
    BY <2>1, <2>2
<1> QED
  BY <1>1, <1>3, <1>4, <1>5, <1>6, <1>7

\* The budget is the same as long as the batch is.
LEMMA BudgetStays ==
    ASSUME BudgetFits, UNCHANGED <<batch, budget>>, InSchedule' => InSchedule
    PROVE  BudgetFits'
<1>1. Scheduled' = Scheduled
  BY DEF Scheduled
<1>2. ASSUME NEW f PROVE IsShare(f)' <=> IsShare(f)
  BY <1>1 DEF IsShare
<1> QED
  BY <1>2 DEF BudgetFits

\* schedule() begins, and goes on to the RUNNING loop with all of its budget.
LEMMA BeginInv ==
    ASSUME PinInv, continuum' = continuum, BeginSchedule \/ BeginRunning
    PROVE  PinInv'
<1> USE DEF PinInv
<1>1. CASE BeginSchedule
  <2>1. StateTypes'
    BY <1>1 DEF BeginSchedule, StateTypes, queues, step
  <2>2. BudgetFits'
    BY <1>1 DEF BeginSchedule, BudgetFits, InSchedule
  <2> QED
    BY <1>1, <2>1, <2>2, ControlInv DEF BeginSchedule, queues, step, BatchFits
<1>2. CASE BeginRunning
  <2>1. batch = <<>> /\ batch' = <<>>
    BY <1>2 DEF BeginRunning, BatchFits
  <2>2. StateTypes'
    <3>1. 1 \in 1..(Cardinality(Requests) + 1) /\ MaxBatch \in 0..MaxBatch
      BY Bounded, RetentionAssumption
    <3>2. batch' \in Seq([req : Requests, num : 1..MaxBatch])
      BY <2>1 DEF StateTypes
    <3> QED
      BY <1>2, <3>1, <3>2 DEF BeginRunning, StateTypes, queues
  <2>3. BudgetFits'
    <3> DEFINE f == [r \in Requests |-> 0]
    <3>1. f \in [Requests -> 0..MaxBatch] /\ f \in [Requests -> Int]
      BY RetentionAssumption
    <3>2. ShareTotal(f) = 0
      <4>1. \A r \in Requests : f[r] = 0
        OBVIOUS
      <4> HIDE DEF f
      <4> QED
        BY <3>1, <4>1, CacheAssumption, TotalZero, Zenon DEF ShareTotal
    <3>3. ToSet(batch') = {} /\ Scheduled' = {}
      BY <2>1 DEF Scheduled, ToSet
    <3>4. IsShare(f)'
      BY <3>1, <3>3 DEF IsShare
    <3> HIDE DEF f
    <3>5. budget' + ShareTotal(f) = MaxBatch
      BY <1>2, <3>2, RetentionAssumption DEF BeginRunning
    <3> QED
      BY <3>1, <3>4, <3>5 DEF BudgetFits
  <2> QED
    BY <1>2, <2>1, <2>2, <2>3, ControlInv DEF BeginRunning, queues
<1> QED
  BY <1>1, <1>2

\* The loops end, and so does the step.
LEMMA LeaveInv ==
    ASSUME PinInv, continuum' = continuum,
           LeaveRunning \/ LeaveWaiting \/ EndSchedule \/ EndOutput
    PROVE  PinInv'
<1> USE DEF PinInv
<1>1. CASE LeaveRunning \/ LeaveWaiting
  <2>1. StateTypes'
    BY <1>1 DEF LeaveRunning, LeaveWaiting, StateTypes, queues, step
  <2>2. BudgetFits'
    BY <1>1, BudgetStays DEF LeaveRunning, LeaveWaiting, InSchedule, step
  <2>3. pc \notin {"alloc", "free"} /\ pc' \in {"waiting", "commit"}
    BY <1>1 DEF LeaveRunning, LeaveWaiting
  <2> QED
    BY <1>1, <2>1, <2>2, <2>3, ControlInv DEF LeaveRunning, LeaveWaiting, queues, step
<1>2. CASE EndSchedule
  <2>1. StateTypes'
    BY <1>2 DEF EndSchedule, StateTypes, step
  <2>2. BudgetFits'
    BY <1>2 DEF EndSchedule, BudgetFits, InSchedule
  <2> QED
    BY <1>2, <2>1, <2>2, ControlInv DEF EndSchedule, WriteBatch, step
<1>3. CASE EndOutput
  <2>1. StateTypes'
    <3>1. 1 \in 1..(Cardinality(Requests) + 1) /\ 0 \in 0..MaxBatch
      BY Bounded, RetentionAssumption
    <3> QED
      BY <1>3, <3>1 DEF EndOutput, StateTypes, queues
  <2>2. BudgetFits'
    BY <1>3 DEF EndOutput, BudgetFits, InSchedule
  <2> QED
    BY <1>3, <2>1, <2>2, ControlInv DEF EndOutput, queues
<1> QED
  BY <1>1, <1>2, <1>3

\* The RUNNING loop takes the next request in hand.
LEMMA PickRunningInv ==
    ASSUME PinInv, continuum' = continuum, PickRunning
    PROVE  PinInv'
<1> USE DEF PinInv
<1> DEFINE r == running[index]
<1>1. /\ pc = "running" /\ index <= Len(running) /\ budget > 0
      /\ current' = r /\ pc' = "alloc"
      /\ UNCHANGED <<kv, status, tokens, running, waiting, jobs, pins, unreported>>
      /\ UNCHANGED <<index, budget, batch, preempted>>
  BY DEF PickRunning, queues
<1>2. index \in DOMAIN running /\ index <= Cardinality(Requests)
  <2>1. running \in Seq(Requests) /\ index \in Nat \ {0} /\ Cardinality(Requests) \in Nat
    BY Bounded DEF StateTypes
  <2> QED
    BY <1>1, <2>1, Bounded
<1>3. r \in Requests /\ r \in ToSet(running) /\ status[r] = "running"
  <2>1. r \in ToSet(running)
    BY <1>2 DEF ToSet
  <2>2. r \in Requests
    BY <1>2 DEF StateTypes
  <2> QED
    BY <2>1, <2>2 DEF ListsFit
<1> HIDE DEF r
<1>4. CacheInv' /\ computed' = computed
  BY <1>1, KVStays
<1>5. Scheduled' = Scheduled /\ Pinned' = Pinned
  BY <1>1 DEF Scheduled, Pinned
<1>6. StateTypes'
  BY <1>1, <1>3 DEF StateTypes
<1>7. ListsFit'
  BY <1>1, ListsStay
<1>8. BatchFits' /\ BudgetFits'
  BY <1>1, <1>5, BudgetStays DEF BatchFits, InSchedule
<1>9. ComputedFits'
  BY <1>1, <1>4, <1>5 DEF ComputedFits
<1>10. PinsFit'
  <2>1. current \notin Requests
    BY <1>1 DEF LoopFits
  <2>2. tokens[r] # Len(Content[r])
    BY <1>3 DEF ComputedFits
  <2> QED
    BY <1>1, <1>3, <1>4, <1>5, <2>1, <2>2 DEF PinsFit
<1>11. LoopFits'
  <2>1. r \notin Scheduled
    BY <1>1, <1>2 DEF LoopFits, StateTypes, r
  <2>2. running[index] = r /\ index <= index
    BY DEF r, StateTypes
  <2> QED
    BY <1>1, <1>2, <1>3, <1>5, <2>1, <2>2 DEF LoopFits
<1> QED
  BY <1>4, <1>6, <1>7, <1>8, <1>9, <1>10, <1>11

\* unpin_request: the pin is gone and so are its request's blocks; no other pin,
\* and not the request in hand, loses any.
LEMMA UnpinInv ==
    ASSUME PinInv, NEW i \in DOMAIN pins, Unpin(i),
           UNCHANGED <<continuum, status, tokens, running, waiting, jobs, unreported, step>>,
           pc' = pc \/ (pc = "waiting" /\ pc' = "commit")
    PROVE  PinInv'
<1> USE DEF PinInv
<1> DEFINE q == pins[i].req
<1>1. /\ UNCHANGED <<status, tokens, running, waiting, jobs, unreported>>
      /\ UNCHANGED <<index, current, budget, batch, preempted>>
  BY DEF step
<1>2. /\ pins \in Seq([req : Requests, left : 0..MaxHold])
      /\ i \in 1..Len(pins) /\ pins' = RemoveAt(pins, i) /\ FreeKV(q)
  BY DEF StateTypes, Unpin
<1>3. pins[i] \in ToSet(pins) /\ q \in Pinned
  BY DEF ToSet, Pinned
<1>4. q \in Requests
  BY <1>3, Records
<1>5. /\ pins' \in Seq([req : Requests, left : 0..MaxHold])
      /\ ToSet(pins') = ToSet(pins) \ {pins[i]} /\ IsInjective(pins')
  BY <1>2, RemoveAtProperties, RemoveAtElements DEF PinsFit
<1>6. Pinned' = Pinned \ {q}
  <2>1. ASSUME NEW p \in ToSet(pins') PROVE p.req \in Pinned \ {q}
    BY <1>3, <1>5, <2>1 DEF PinsFit, Pinned
  <2>2. ASSUME NEW r \in Pinned, r # q PROVE r \in Pinned'
    <3>1. PICK p \in ToSet(pins) : p.req = r
      BY DEF Pinned
    <3>2. p \in ToSet(pins')
      BY <1>5, <2>2, <3>1
    <3> QED
      BY <3>1, <3>2 DEF Pinned
  <2> QED
    BY <2>1, <2>2 DEF Pinned
<1>7. CacheInv' /\ computed' = [computed EXCEPT ![q] = 0] /\ computed \in [Requests -> Nat]
  BY <1>2, <1>4, FreeKVKeeps, BlocksForComputed
<1>8. status[q] = "finished" /\ q # current
  BY <1>3, <1>4, CurrentNotPinned DEF PinsFit
<1> HIDE DEF q
<1>9. Scheduled' = Scheduled
  BY <1>1 DEF Scheduled
<1>10. StateTypes'
  BY <1>1, <1>5 DEF StateTypes
<1>11. ListsFit'
  BY <1>1, ListsStay
<1>12. BatchFits' /\ BudgetFits'
  BY <1>1, <1>9, BudgetStays DEF BatchFits, InSchedule
<1>13. ComputedFits'
  BY <1>1, <1>7, <1>8, <1>9 DEF ComputedFits
<1>14. PinsFit'
  <2>1. \A p, s \in ToSet(pins') : Job[p.req] = Job[s.req] => p = s
    BY <1>5 DEF PinsFit
  <2>2. ASSUME NEW r \in Requests
        PROVE  /\ status[r] = "finished" /\ computed'[r] # 0 => r = current \/ r \in Pinned'
               /\ r \in Pinned' => status[r] = "finished"
               /\ r \in Pinned' \cup {current} /\ tokens[r] = Len(Content[r])
                     => computed'[r] = Len(Content[r]) - 1
    BY <1>4, <1>6, <1>7, <1>8 DEF PinsFit
  <2> QED
    BY <1>1, <1>5, <2>1, <2>2 DEF PinsFit
<1>15. LoopFits'
  BY <1>1, <1>6, <1>9 DEF LoopFits
<1> QED
  BY <1>7, <1>10, <1>11, <1>12, <1>13, <1>14, <1>15

\* Whoever drops a pin: the end of the job's next turn, the end of its time, or
\* schedule() when it is out of blocks.
LEMMA PinDrops ==
    ASSUME PinInv, UnpinJob \/ UnpinExpired \/ ReleasePin
    PROVE  \E i \in DOMAIN pins : Unpin(i)
<1>1. CASE UnpinJob
  <2> DEFINE P == PinsOfJob(current)
  <2>1. P # {} /\ Unpin(CHOOSE i \in P : \A j \in P : i <= j)
    BY <1>1 DEF UnpinJob
  <2>2. P \subseteq 1..Len(pins) /\ Len(pins) \in Nat
    BY DEF PinsOfJob, PinInv, StateTypes
  <2>3. \E i \in P : \A j \in P : i <= j
    <3> DEFINE R == {p \in Nat \X Nat : p[1] <= p[2]}
    <3>1. IsFiniteSet(P)
      BY <2>2, SegmentCardinality, FS_Subset
    <3>2. \A a, b \in P : <<a, b>> \in R <=> a <= b
      BY <2>2
    <3>3. /\ \A a, b \in P : <<a, b>> \in R \/ <<b, a>> \in R
          /\ \A a, b, c \in P : <<a, b>> \in R /\ <<b, c>> \in R => <<a, c>> \in R
      BY <2>2, <3>2
    <3> HIDE DEF P, R
    <3>4. \E a \in P : \A b \in P : <<a, b>> \in R
      BY <2>1, <3>1, <3>3, LeastElement
    <3> QED
      BY <3>2, <3>4
  <2>4. (CHOOSE i \in P : \A j \in P : i <= j) \in P
    BY <2>3
  <2> QED
    BY <2>1, <2>4 DEF PinsOfJob
<1>2. CASE UnpinExpired \/ ReleasePin
  BY <1>2 DEF UnpinExpired, ReleasePin
<1> QED
  BY <1>1, <1>2

\* Dropping a pin, for whichever of the three reasons, keeps the invariant.
LEMMA PinDroppedInv ==
    ASSUME PinInv, continuum' = continuum, UnpinJob \/ UnpinExpired \/ ReleasePin
    PROVE  PinInv'
<1>1. PICK i \in DOMAIN pins : Unpin(i)
  BY PinDrops
<1>2. UNCHANGED <<continuum, status, tokens, running, waiting, jobs, unreported, step>>
  BY DEF UnpinJob, UnpinExpired, ReleasePin, step
<1>3. pc' = pc \/ (pc = "waiting" /\ pc' = "commit")
  BY DEF UnpinJob, UnpinExpired, ReleasePin
<1>4. Unpin(i)
  BY <1>1
<1> QED
  BY <1>2, <1>3, <1>4, UnpinInv

\* No blocks for a waiting request: a pin may be given up for it.
LEMMA BlockedWaitingInv ==
    ASSUME PinInv, continuum' = continuum, BlockedWaiting
    PROVE  PinInv'
<1>1. /\ pc = "waiting" /\ pc' = "commit"
      /\ UNCHANGED <<status, tokens, running, waiting, jobs, unreported, step>>
  BY DEF BlockedWaiting
<1>2. CASE \E i \in DOMAIN pins : Unpin(i)
  <2>1. PICK i \in DOMAIN pins : Unpin(i)
    BY <1>2
  <2>2. UNCHANGED <<continuum, status, tokens, running, waiting, jobs, unreported, step>>
    BY <1>1
  <2> QED
    BY <1>1, <2>1, <2>2, UnpinInv
<1>3. CASE UNCHANGED <<pins, kv>>
  <2>1. StateTypes'
    BY <1>1, <1>3 DEF PinInv, StateTypes, step
  <2>2. BudgetFits'
    BY <1>1, BudgetStays DEF PinInv, InSchedule, step
  <2> QED
    BY <1>1, <1>3, <2>1, <2>2, ControlInv DEF step
<1> QED
  BY <1>2, <1>3 DEF BlockedWaiting

\* Time passes: the pins are the same, with less time left.
LEMMA TickInv ==
    ASSUME PinInv, continuum' = continuum, Tick
    PROVE  PinInv'
<1> USE DEF PinInv
<1> DEFINE T == [req : Requests, left : 0..MaxHold]
           less(p) == [p EXCEPT !.left = IF @ = 0 THEN 0 ELSE @ - 1]
<1>1. /\ pc = "input" /\ pins' = [i \in DOMAIN pins |-> less(pins[i])]
      /\ UNCHANGED <<kv, status, tokens, running, waiting, jobs, unreported, pc>>
      /\ UNCHANGED <<index, current, budget, batch, preempted>>
  BY DEF Tick, step
<1>2. \A p \in T : less(p) \in T /\ less(p).req = p.req
  BY RetentionAssumption
<1>pins. pins \in Seq(T)
  BY DEF StateTypes
<1> HIDE DEF T, less
<1>3. /\ DOMAIN pins = 1..Len(pins) /\ Len(pins) \in Nat
      /\ \A i \in DOMAIN pins : pins[i] \in T
  BY <1>pins
<1>4. /\ pins' \in [1..Len(pins) -> T] /\ DOMAIN pins' = DOMAIN pins
      /\ \A i \in DOMAIN pins : pins'[i].req = pins[i].req
  BY <1>1, <1>2, <1>3
<1>5. pins' \in Seq(T)
  BY <1>3, <1>4
<1>6. \A i, j \in DOMAIN pins : Job[pins[i].req] = Job[pins[j].req] => i = j
  <2> SUFFICES ASSUME NEW i \in DOMAIN pins, NEW j \in DOMAIN pins,
                      Job[pins[i].req] = Job[pins[j].req]
               PROVE  i = j
    OBVIOUS
  <2>1. pins[i] \in ToSet(pins) /\ pins[j] \in ToSet(pins)
    BY DEF ToSet
  <2>2. pins[i] = pins[j] /\ IsInjective(pins)
    BY <2>1 DEF PinsFit
  <2> QED
    BY <2>2 DEF IsInjective
<1>7. Pinned' = Pinned
  BY <1>4 DEF Pinned, ToSet
<1>8. IsInjective(pins')
  BY <1>4, <1>6 DEF IsInjective
<1>9. \A p, q \in ToSet(pins') : Job[p.req] = Job[q.req] => p = q
  BY <1>4, <1>6 DEF ToSet
<1>10. CacheInv' /\ computed' = computed
  BY <1>1, KVStays
<1>11. Scheduled' = Scheduled
  BY <1>1 DEF Scheduled
<1>12. StateTypes'
  BY <1>1, <1>5 DEF StateTypes, T
<1>13. ListsFit'
  BY <1>1, ListsStay
<1>14. BatchFits' /\ BudgetFits'
  BY <1>1, <1>11, BudgetStays DEF BatchFits, InSchedule
<1>15. ComputedFits'
  BY <1>1, <1>10, <1>11 DEF ComputedFits
<1>16. PinsFit'
  BY <1>1, <1>7, <1>8, <1>9, <1>10 DEF PinsFit
<1>17. LoopFits'
  BY <1>1, <1>7, <1>11 DEF LoopFits
<1> QED
  BY <1>10, <1>12, <1>13, <1>14, <1>15, <1>16, <1>17

\* A client's request joins the waiting queue.
LEMMA AddRequestInv ==
    ASSUME PinInv, continuum' = continuum, NEW r \in Requests, AddRequest(r)
    PROVE  PinInv'
<1> USE DEF PinInv
<1>1. /\ pc = "input" /\ status[r] = "new"
      /\ status' = [status EXCEPT ![r] = "waiting"]
      /\ jobs' = IF Contains(jobs, Job[r]) THEN jobs ELSE Append(jobs, Job[r])
      /\ waiting' = Append(waiting, r)
      /\ UNCHANGED <<kv, tokens, running, pins, unreported, pc>>
      /\ UNCHANGED <<index, current, budget, batch, preempted>>
  BY DEF AddRequest, step
<1>2. r \notin ToSet(waiting) /\ r \notin ToSet(running)
  BY <1>1 DEF ListsFit
<1>3. /\ waiting' \in Seq(Requests) /\ ToSet(waiting') = ToSet(waiting) \cup {r}
      /\ IsInjective(waiting')
  BY <1>1, <1>2, AppendType, AppendElements DEF StateTypes, ListsFit
<1>4. /\ jobs' \in Seq({Job[q] : q \in Requests})
      /\ ToSet(jobs') = ToSet(jobs) \cup {Job[r]}
  <2> DEFINE J == {Job[q] : q \in Requests}
  <2>1. jobs \in Seq(J) /\ Job[r] \in J
    BY DEF StateTypes
  <2> HIDE DEF J
  <2>2. Contains(jobs, Job[r]) <=> Job[r] \in ToSet(jobs)
    BY <2>1 DEF Contains, ToSet
  <2>3. jobs' \in Seq(J) /\ ToSet(jobs') = ToSet(jobs) \cup {Job[r]}
    BY <1>1, <2>1, <2>2, AppendType, AppendElements
  <2> QED
    BY <2>3 DEF J
<1>5. CacheInv' /\ computed' = computed
  BY <1>1, KVStays
<1>6. Scheduled' = Scheduled /\ Pinned' = Pinned
  BY <1>1 DEF Scheduled, Pinned
<1>7. r \notin Scheduled /\ r \notin Pinned
  BY <1>1 DEF BatchFits, PinsFit
<1>8. status \in [Requests -> {"new", "waiting", "running", "preempted", "finished"}]
  BY DEF StateTypes
<1>9. StateTypes'
  BY <1>1, <1>3, <1>4 DEF StateTypes
<1>10. ListsFit'
  BY <1>1, <1>2, <1>3, <1>4, <1>8 DEF ListsFit
<1>11. BatchFits' /\ BudgetFits'
  <2>1. Scheduled \subseteq Requests
    BY Records
  <2> QED
    BY <1>1, <1>6, <1>7, <1>8, <2>1, BudgetStays DEF BatchFits, InSchedule
<1>12. ComputedFits'
  BY <1>1, <1>5, <1>6, <1>8 DEF ComputedFits
<1>13. PinsFit'
  BY <1>1, <1>5, <1>6, <1>7, <1>8 DEF PinsFit
<1>14. LoopFits'
  BY <1>1, <1>6 DEF LoopFits
<1> QED
  BY <1>5, <1>9, <1>10, <1>11, <1>12, <1>13, <1>14

\* _free_request: a request leaves its list and the batch; what it has computed is
\* all of its turn but the last token, if it is complete.
LEMMA FinishInv ==
    ASSUME PinInv, continuum' = continuum, NEW r \in Requests, BeginFree(r),
           pc \in {"input", "output"}, status[r] \notin {"new", "finished"},
           running' = Without(running, r), waiting' = Without(waiting, r),
           UNCHANGED <<kv, jobs, pins, index, budget, preempted>>,
           tokens' \in [Requests -> Nat], \A q \in Requests \ {r} : tokens'[q] = tokens[q],
           tokens'[r] \in Prompt[r]..Len(Content[r]),
           tokens'[r] = Len(Content[r]) => computed[r] = Len(Content[r]) - 1,
           batch' \in Seq([req : Requests, num : 1..MaxBatch]), IsInjective(batch'),
           ToSet(batch') \subseteq ToSet(batch), Scheduled' = Scheduled \ {r}
    PROVE  PinInv'
<1> USE DEF PinInv
<1>1. /\ status' = [status EXCEPT ![r] = "finished"] /\ unreported' = TRUE
      /\ current' = r /\ pc' = "free"
  BY DEF BeginFree
<1>2. /\ running' \in Seq(Requests) /\ ToSet(running') = ToSet(running) \ {r}
      /\ IsInjective(running')
  BY WithoutProperties, WithoutElements DEF StateTypes, ListsFit
<1>3. /\ waiting' \in Seq(Requests) /\ ToSet(waiting') = ToSet(waiting) \ {r}
      /\ IsInjective(waiting')
  BY WithoutProperties, WithoutElements DEF StateTypes, ListsFit
<1>4. CacheInv' /\ computed' = computed
  BY KVStays
<1>5. Pinned' = Pinned
  BY DEF Pinned
<1>6. r \notin Pinned /\ current \notin Requests
  BY DEF PinsFit, LoopFits
<1>7. status \in [Requests -> {"new", "waiting", "running", "preempted", "finished"}]
  BY DEF StateTypes
<1>8. Scheduled \subseteq Requests
  BY Records
<1>9. StateTypes'
  <2>1. \A q \in Requests : tokens'[q] \in Prompt[q]..Len(Content[q])
    BY DEF StateTypes
  <2> QED
    BY <1>1, <1>2, <1>3, <2>1 DEF StateTypes
<1>10. ListsFit'
  BY <1>1, <1>2, <1>3, <1>7 DEF ListsFit
<1>11. BatchFits'
  BY <1>1, <1>7, <1>8 DEF BatchFits
<1>12. BudgetFits'
  BY <1>1 DEF BudgetFits, InSchedule
<1>13. ComputedFits'
  <2> SUFFICES ASSUME NEW q \in Requests
               PROVE  /\ tokens'[q] = Len(Content[q]) => status'[q] = "finished"
                      /\ status'[q] \in {"new", "waiting", "preempted"} => computed[q] = 0
                      /\ status'[q] = "running" =>
                            /\ computed[q] > 0 /\ computed[q] <= tokens'[q]
                            /\ q \notin Scheduled' => computed[q] < tokens'[q]
    BY <1>4 DEF ComputedFits
  <2>1. CASE q = r
    BY <1>1, <1>7, <2>1
  <2>2. CASE q # r
    BY <1>1, <1>7, <2>2 DEF ComputedFits
  <2> QED
    BY <2>1, <2>2
<1>14. PinsFit'
  <2> SUFFICES ASSUME NEW q \in Requests
               PROVE  /\ status'[q] = "finished" /\ computed[q] # 0 => q = r \/ q \in Pinned
                      /\ q \in Pinned => status'[q] = "finished"
                      /\ q \in Pinned \cup {r} /\ tokens'[q] = Len(Content[q])
                            => computed[q] = Len(Content[q]) - 1
    BY <1>1, <1>4, <1>5 DEF PinsFit
  <2>1. CASE q = r
    BY <1>1, <1>6, <1>7, <2>1
  <2>2. CASE q # r
    BY <1>1, <1>6, <1>7, <2>2 DEF PinsFit
  <2> QED
    BY <2>1, <2>2
<1>15. LoopFits'
  BY <1>1, <1>5, <1>6, <1>7 DEF LoopFits
<1> QED
  BY <1>4, <1>9, <1>10, <1>11, <1>12, <1>13, <1>14, <1>15

\* finish_requests: a client aborts a request, of which it has not seen the end.
LEMMA AbortInv ==
    ASSUME PinInv, continuum' = continuum, NEW r \in Requests, Abort(r)
    PROVE  PinInv'
<1>1. /\ pc = "input" /\ status[r] \notin {"new", "finished"}
      /\ running' = Without(running, r) /\ waiting' = Without(waiting, r) /\ BeginFree(r)
      /\ UNCHANGED <<kv, jobs, pins, index, budget, preempted>>
      /\ tokens' = tokens /\ batch' = batch
  BY DEF Abort
<1>2. batch = <<>> /\ Scheduled = {} /\ Scheduled' = {}
  BY <1>1 DEF PinInv, BatchFits, Scheduled, ToSet
<1>3. /\ tokens' \in [Requests -> Nat] /\ \A q \in Requests \ {r} : tokens'[q] = tokens[q]
      /\ tokens'[r] \in Prompt[r]..Len(Content[r]) /\ tokens'[r] # Len(Content[r])
  BY <1>1 DEF PinInv, StateTypes, ComputedFits
<1>4. batch' \in Seq([req : Requests, num : 1..MaxBatch]) /\ IsInjective(batch')
  BY <1>1 DEF PinInv, StateTypes, BatchFits
<1> QED
  BY <1>1, <1>2, <1>3, <1>4, FinishInv

\* update_from_output handles the next output of the batch.
LEMMA OutputInv ==
    ASSUME PinInv, continuum' = continuum, Output
    PROVE  PinInv'
<1> USE DEF PinInv
<1> DEFINE T == [req : Requests, num : 1..MaxBatch]
           h == Head(batch)
           r == h.req
           sampled == computed[r] = tokens[r]
           stops == sampled /\ tokens[r] + 1 = Len(Content[r])
<1>1. /\ pc = "output" /\ batch # <<>>
      /\ tokens' = IF sampled THEN [tokens EXCEPT ![r] = @ + 1] ELSE tokens
      /\ IF stops THEN BeginFree(r) /\ running' = Without(running, r)
                  ELSE UNCHANGED <<status, unreported, current, pc, running>>
      /\ batch' = Tail(batch)
      /\ UNCHANGED <<kv, waiting, jobs, pins, index, budget, preempted>>
  BY DEF Output
<1>2. batch \in Seq(T) /\ IsInjective(batch)
  BY DEF StateTypes, BatchFits
<1>3. /\ batch' \in Seq(T) /\ IsInjective(batch')
      /\ h \in ToSet(batch) /\ ToSet(batch') = ToSet(batch) \ {h}
  <2> HIDE DEF T
  <2>1. Tail(batch) \in Seq(T)
    BY <1>1, <1>2
  <2> QED
    BY <1>1, <1>2, <2>1, TailElements
<1>4. r \in Requests /\ r \in Scheduled /\ status[r] = "running"
  BY <1>3, Records DEF Scheduled, BatchFits
<1>5. Scheduled' = Scheduled \ {r}
  <2>1. ASSUME NEW b \in ToSet(batch') PROVE b.req \in Scheduled \ {r}
    BY <1>3, <2>1 DEF BatchFits, Scheduled
  <2>2. ASSUME NEW q \in Scheduled, q # r PROVE q \in Scheduled'
    <3>1. PICK b \in ToSet(batch) : b.req = q
      BY DEF Scheduled
    <3>2. b \in ToSet(batch')
      BY <1>3, <2>2, <3>1
    <3> QED
      BY <3>1, <3>2 DEF Scheduled
  <2> QED
    BY <2>1, <2>2 DEF Scheduled
<1>6. /\ tokens \in [Requests -> Nat] /\ tokens[r] \in Prompt[r]..Len(Content[r])
      /\ tokens[r] < Len(Content[r]) /\ computed[r] \in Nat /\ computed[r] <= tokens[r]
      /\ Len(Content[r]) \in Nat /\ Prompt[r] \in Nat
  <2>1. tokens \in [Requests -> Nat] /\ tokens[r] \in Prompt[r]..Len(Content[r])
    BY <1>4 DEF StateTypes
  <2>2. tokens[r] # Len(Content[r]) /\ computed[r] <= tokens[r]
    BY <1>4 DEF ComputedFits
  <2> QED
    BY <1>4, <2>1, <2>2, PromptFits, BlocksForComputed
<1> HIDE DEF r, h
<1>7. /\ tokens' \in [Requests -> Nat] /\ \A q \in Requests \ {r} : tokens'[q] = tokens[q]
      /\ tokens'[r] = IF sampled THEN tokens[r] + 1 ELSE tokens[r]
      /\ tokens'[r] \in Prompt[r]..Len(Content[r])
  BY <1>1, <1>4, <1>6
<1>8. CASE stops
  <2>1. tokens'[r] = Len(Content[r]) => computed[r] = Len(Content[r]) - 1
    BY <1>6, <1>7, <1>8
  <2>2. waiting' = Without(waiting, r)
    <3>1. r \notin ToSet(waiting)
      BY <1>4 DEF ListsFit
    <3>2. ~Contains(waiting, r)
      BY <3>1 DEF Contains, ToSet, StateTypes
    <3> QED
      BY <1>1, <3>2 DEF Without
  <2>3. ToSet(batch') \subseteq ToSet(batch) /\ status[r] \notin {"new", "finished"}
    BY <1>3, <1>4
  <2> HIDE DEF stops, sampled
  <2> QED
    BY <1>1, <1>3, <1>4, <1>5, <1>7, <1>8, <2>1, <2>2, <2>3, FinishInv
<1>9. CASE ~stops
  <2>1. UNCHANGED <<status, unreported, current, pc, running>>
    BY <1>1, <1>9
  <2>2. CacheInv' /\ computed' = computed
    BY <1>1, KVStays
  <2>3. Pinned' = Pinned /\ r \notin Pinned /\ current \notin Requests
    BY <1>1, <1>4 DEF Pinned, PinsFit, LoopFits
  <2>4. computed[r] < tokens'[r] /\ tokens'[r] # Len(Content[r])
    BY <1>6, <1>7, <1>9
  <2>5. StateTypes'
    <3>1. \A q \in Requests : tokens'[q] \in Prompt[q]..Len(Content[q])
      BY <1>7 DEF StateTypes
    <3> QED
      BY <1>1, <1>3, <1>7, <2>1, <3>1 DEF StateTypes
  <2>6. ListsFit'
    BY <1>1, <2>1, ListsStay
  <2>7. BatchFits'
    BY <1>1, <1>3, <1>5, <2>1 DEF BatchFits
  <2>8. BudgetFits'
    BY <1>1, <2>1 DEF BudgetFits, InSchedule
  <2>9. ComputedFits'
    <3> SUFFICES ASSUME NEW q \in Requests
                 PROVE  /\ tokens'[q] = Len(Content[q]) => status[q] = "finished"
                        /\ status[q] \in {"new", "waiting", "preempted"} => computed[q] = 0
                        /\ status[q] = "running" =>
                              /\ computed[q] > 0 /\ computed[q] <= tokens'[q]
                              /\ q \notin Scheduled' => computed[q] < tokens'[q]
      BY <2>1, <2>2 DEF ComputedFits
    <3>1. CASE q = r
      BY <1>4, <1>6, <1>7, <2>4, <3>1 DEF ComputedFits
    <3>2. CASE q # r
      BY <1>5, <1>7, <3>2 DEF ComputedFits
    <3> QED
      BY <3>1, <3>2
  <2>10. PinsFit'
    BY <1>1, <1>7, <2>1, <2>2, <2>3 DEF PinsFit
  <2>11. LoopFits'
    BY <1>1, <2>1, <2>3 DEF LoopFits
  <2> QED
    BY <2>2, <2>5, <2>6, <2>7, <2>8, <2>9, <2>10, <2>11
<1> QED
  BY <1>8, <1>9

\* _free_blocks ends with a pin or with the blocks back in the pool.
LEMMA RetainOrFreeInv ==
    ASSUME PinInv, continuum' = continuum, RetainOrFree
    PROVE  PinInv'
<1> USE DEF PinInv
<1> DEFINE r == current
<1>1. /\ pc = "free" /\ PinsOfJob(r) = {} /\ pc' = "output" /\ current' = None
      /\ UNCHANGED <<status, tokens, running, waiting, jobs, unreported>>
      /\ UNCHANGED <<index, budget, batch, preempted>>
  BY DEF RetainOrFree
<1>2. r \in Requests /\ status[r] = "finished" /\ r \notin Pinned /\ None \notin Requests
  BY <1>1, RetentionAssumption DEF LoopFits
<1>3. Scheduled' = Scheduled
  BY <1>1 DEF Scheduled
<1>4. ListsFit'
  BY <1>1, ListsStay
<1>5. BatchFits'
  BY <1>1, <1>3 DEF BatchFits
<1>6. BudgetFits'
  BY <1>1 DEF BudgetFits, InSchedule
<1>7. PICK hold \in 0..MaxHold : \/ hold > 0 /\ PinRequest(r, hold)
                                 \/ hold = 0 /\ FreeKV(r) /\ UNCHANGED pins
  <2>1. 0 \in 0..MaxHold
    BY RetentionAssumption
  <2> QED
    BY <2>1 DEF RetainOrFree, ContinuumHold, InferceptHold
<1>8. CASE hold > 0 /\ PinRequest(r, hold)
  <2> DEFINE T == [req : Requests, left : 0..MaxHold]
             p == [req |-> r, left |-> hold]
  <2>1. pins' = Append(pins, p) /\ UNCHANGED kv
    BY <1>8 DEF PinRequest
  <2>2. pins \in Seq(T) /\ p \in T /\ IsInjective(pins) /\ p.req = r
    BY <1>2 DEF StateTypes, PinsFit
  <2>3. \A q \in ToSet(pins) : Job[q.req] # Job[r]
    BY <1>1 DEF PinsOfJob, ToSet
  <2>4. p \notin ToSet(pins)
    BY <2>2, <2>3
  <2>5. pins' \in Seq(T) /\ ToSet(pins') = ToSet(pins) \cup {p} /\ IsInjective(pins')
    <3> HIDE DEF T, p
    <3> QED
      BY <2>1, <2>2, <2>4, AppendType, AppendElements
  <2>6. Pinned' = Pinned \cup {r}
    BY <2>2, <2>5 DEF Pinned
  <2>7. CacheInv' /\ computed' = computed
    BY <2>1, KVStays
  <2>8. StateTypes'
    BY <1>1, <2>5 DEF StateTypes
  <2>9. ComputedFits'
    BY <1>1, <1>3, <2>7 DEF ComputedFits
  <2>10. PinsFit'
    <3>1. \A q, s \in ToSet(pins') : Job[q.req] = Job[s.req] => q = s
      BY <2>2, <2>3, <2>5 DEF PinsFit
    <3> HIDE DEF p
    <3> QED
      BY <1>1, <1>2, <2>5, <2>6, <2>7, <3>1 DEF PinsFit
  <2>11. LoopFits'
    BY <1>1, <1>2 DEF LoopFits
  <2> QED
    BY <1>4, <1>5, <1>6, <2>7, <2>8, <2>9, <2>10, <2>11
<1>9. CASE hold = 0 /\ FreeKV(r) /\ UNCHANGED pins
  <2>1. CacheInv' /\ computed' = [computed EXCEPT ![r] = 0] /\ computed \in [Requests -> Nat]
    BY <1>2, <1>9, FreeKVKeeps, BlocksForComputed
  <2>2. Pinned' = Pinned
    BY <1>9 DEF Pinned
  <2>3. StateTypes'
    BY <1>1, <1>9 DEF StateTypes
  <2>4. ComputedFits'
    BY <1>1, <1>2, <1>3, <2>1 DEF ComputedFits
  <2>5. PinsFit'
    BY <1>1, <1>2, <1>9, <2>1, <2>2 DEF PinsFit
  <2>6. LoopFits'
    BY <1>1, <1>2 DEF LoopFits
  <2> QED
    BY <1>4, <1>5, <1>6, <2>1, <2>3, <2>4, <2>5, <2>6
<1> QED
  BY <1>7, <1>8, <1>9

\* One share of the batch changes, and the sum by as much.
LEMMA SumUpdate ==
    ASSUME NEW f \in [Requests -> Int], NEW g \in [Requests -> Int], NEW r \in Requests,
           \A q \in Requests : q # r => g[q] = f[q]
    PROVE  ShareTotal(f) \in Int /\ ShareTotal(g) = ShareTotal(f) + (g[r] - f[r])
<1>1. IsFiniteSet(Requests)
  BY CacheAssumption
<1> QED
  BY <1>1, TotalUpdate, ZenonT(60) DEF ShareTotal

\* num tokens of the budget go to a request that had none.
LEMMA BatchGrows ==
    ASSUME StateTypes, BatchFits, BudgetFits, InSchedule,
           NEW r \in Requests, r \notin Scheduled, NEW num \in 1..budget,
           batch' = Append(batch, [req |-> r, num |-> num]), budget' = budget - num
    PROVE  /\ batch' \in Seq([req : Requests, num : 1..MaxBatch]) /\ IsInjective(batch')
           /\ \A b, c \in ToSet(batch') : b.req = c.req => b = c
           /\ Scheduled' = Scheduled \cup {r}
           /\ budget' \in 0..MaxBatch
           /\ BudgetFits'
<1> DEFINE T == [req : Requests, num : 1..MaxBatch]
           e == [req |-> r, num |-> num]
<1>1. budget \in 0..MaxBatch /\ num \in 1..MaxBatch /\ MaxBatch \in Nat
  BY RetentionAssumption DEF StateTypes
<1>2. batch \in Seq(T) /\ e \in T /\ IsInjective(batch) /\ e.req = r /\ e.num = num
  BY <1>1 DEF StateTypes, BatchFits
<1>3. \A b \in ToSet(batch) : b.req # r
  BY DEF Scheduled
<1>4. e \notin ToSet(batch)
  BY <1>2, <1>3
<1>5. batch' = Append(batch, e)
  OBVIOUS
<1>6. batch' \in Seq(T) /\ ToSet(batch') = ToSet(batch) \cup {e} /\ IsInjective(batch')
  <2> HIDE DEF T, e
  <2> QED
    BY <1>2, <1>4, <1>5, AppendType, AppendElements
<1> HIDE DEF e
<1>7. \A b, c \in ToSet(batch') : b.req = c.req => b = c
  BY <1>2, <1>3, <1>6 DEF BatchFits
<1>8. Scheduled' = Scheduled \cup {r}
  BY <1>2, <1>6 DEF Scheduled
<1>9. PICK f \in [Requests -> 0..MaxBatch] : IsShare(f) /\ budget + ShareTotal(f) = MaxBatch
  BY DEF BudgetFits
<1> DEFINE g == [f EXCEPT ![r] = num]
<1>10. /\ g \in [Requests -> 0..MaxBatch] /\ g \in [Requests -> Int] /\ f \in [Requests -> Int]
       /\ f[r] = 0 /\ g[r] = num /\ \A q \in Requests : q # r => g[q] = f[q]
  BY <1>1, <1>9 DEF IsShare
<1> HIDE DEF g
<1>11. ShareTotal(f) \in Int /\ ShareTotal(g) = ShareTotal(f) + (g[r] - f[r])
  BY <1>10, SumUpdate
<1>12. IsShare(g)'
  <2>1. \A b \in ToSet(batch') : g[b.req] = b.num
    BY <1>2, <1>3, <1>6, <1>9, <1>10, Records DEF IsShare
  <2>2. \A q \in Requests \ Scheduled' : g[q] = 0
    BY <1>8, <1>9, <1>10 DEF IsShare
  <2> QED
    BY <1>10, <2>1, <2>2 DEF IsShare
<1>13. budget' + ShareTotal(g) = MaxBatch
  BY <1>1, <1>9, <1>10, <1>11
<1>14. BudgetFits'
  BY <1>10, <1>12, <1>13 DEF BudgetFits
<1>15. budget' \in 0..MaxBatch
  BY <1>1
<1> QED
  BY <1>6, <1>7, <1>8, <1>14, <1>15

\* A chunk is not empty, stays within the budget and within the request.
LEMMA ChunkFits ==
    ASSUME StateTypes, budget > 0, NEW r \in Requests, NEW done \in Nat, done < tokens[r]
    PROVE  /\ NewTokens(r, done) \in 1..budget
           /\ done + NewTokens(r, done) \in 1..tokens[r]
           /\ done + NewTokens(r, done) \in 1..Len(Content[r])
<1>1. tokens[r] \in Nat /\ tokens[r] <= Len(Content[r]) /\ Len(Content[r]) \in Nat
  BY PromptFits DEF StateTypes
<1>2. budget \in Nat \ {0}
  BY RetentionAssumption DEF StateTypes
<1> QED
  BY <1>1, <1>2 DEF NewTokens, Smallest

\* The RUNNING loop gives the request in hand the slots of its next chunk.
LEMMA ScheduleRunningInv ==
    ASSUME PinInv, StepInv, continuum' = continuum, ScheduleRunning
    PROVE  PinInv' /\ StepInv'
<1> USE DEF PinInv
<1> DEFINE r == current
           num == attempt
           n == computed[r] + num
<1>1. /\ pc = "alloc" /\ AllocateSlots(r, <<>>, n) /\ batch' = Append(batch, [req |-> r, num |-> num])
      /\ budget' = budget - num /\ index' = index + 1 /\ current' = None /\ pc' = "running"
      /\ attempt' = 0
      /\ UNCHANGED <<status, tokens, running, waiting, jobs, pins, unreported>>
      /\ UNCHANGED preempted
  BY DEF ScheduleRunning, Slots, queues
<1>2. /\ r \in Requests /\ r \notin Scheduled /\ budget > 0 /\ index <= Cardinality(Requests)
      /\ None \notin Requests
  BY <1>1, RetentionAssumption DEF LoopFits
<1>3. PICK k \in DOMAIN running : k <= index /\ running[k] = r
  BY <1>1 DEF LoopFits
<1>4. status[r] = "running"
  BY <1>2, <1>3 DEF ListsFit, ToSet
<1>5. computed[r] \in Nat \ {0} /\ computed[r] < tokens[r] /\ table[r] # <<>>
  BY <1>2, <1>4, BlocksForComputed DEF ComputedFits
<1>6. num \in 1..budget /\ n \in 1..tokens[r] /\ n \in 1..Len(Content[r])
  <2>1. tokens[r] \in Nat /\ tokens[r] <= Len(Content[r]) /\ Len(Content[r]) \in Nat
    BY <1>2, PromptFits DEF StateTypes
  <2>2. num \in 1..budget /\ n <= tokens[r] /\ budget \in Nat
    BY <1>1, RetentionAssumption DEF StepInv, AttemptFits, StateTypes
  <2> HIDE DEF num
  <2> QED
    BY <1>5, <2>1, <2>2
<1>7. n > computed[r]
  BY <1>5, <1>6
<1> HIDE DEF n, num
<1>8. /\ CacheInv' /\ WritesFit' /\ blank' \subseteq blank
      /\ \A q \in Requests \ {r} : due'[q] = due[q]
  <2>1. Found(r, <<>>)
    <3>1. Floor(Len(Content[r]), BlockSize) \in Nat
      BY <1>2, HashLength
    <3> QED
      BY <3>1 DEF Found
  <2>2. n >= Ready(r, <<>>)
    BY <1>5, <1>6, <1>7 DEF Ready
  <2>3. CacheInv' /\ ToSet(table[r]) \subseteq ToSet(table'[r])
    BY <1>1, <1>2, <1>6, <2>1, <2>2, AllocateKeeps
  <2>4. AllocateFrom(refCnt, freeQueue, r, <<>>, n)
    BY <1>1 DEF AllocateSlots
  <2> QED
    BY <1>2, <2>1, <2>3, <2>4, AllocateWrites DEF StepInv
<1>9. computed' = [computed EXCEPT ![r] = n] /\ computed \in [Requests -> Nat]
  BY <1>1, BlocksForComputed DEF AllocateSlots, AllocateFrom
<1>10. /\ batch' \in Seq([req : Requests, num : 1..MaxBatch]) /\ IsInjective(batch')
       /\ \A b, c \in ToSet(batch') : b.req = c.req => b = c
       /\ Scheduled' = Scheduled \cup {r} /\ budget' \in 0..MaxBatch /\ BudgetFits'
  <2>1. InSchedule
    BY <1>1 DEF InSchedule
  <2> QED
    BY <1>1, <1>2, <1>6, <2>1, BatchGrows
<1>11. Pinned' = Pinned
  BY <1>1 DEF Pinned
<1>12. StateTypes'
  <2>1. index' \in 1..(Cardinality(Requests) + 1)
    <3>1. index \in Nat /\ index >= 1 /\ Cardinality(Requests) \in Nat
      BY Bounded DEF StateTypes
    <3> QED
      BY <1>1, <1>2, <3>1
  <2> QED
    BY <1>1, <1>10, <2>1 DEF StateTypes
<1>13. ListsFit'
  BY <1>1, ListsStay
<1>14. BatchFits'
  BY <1>1, <1>4, <1>10 DEF BatchFits
<1>15. ComputedFits'
  <2>1. n \in Nat /\ n > 0 /\ n <= tokens[r]
    BY <1>2, <1>6 DEF StateTypes
  <2> QED
    BY <1>1, <1>2, <1>4, <1>9, <1>10, <2>1 DEF ComputedFits
<1>16. PinsFit'
  <2>1. tokens[r] # Len(Content[r]) /\ r \notin Pinned
    BY <1>2, <1>4 DEF ComputedFits, PinsFit
  <2> QED
    BY <1>1, <1>2, <1>4, <1>9, <1>11, <2>1 DEF PinsFit
<1>17. LoopFits'
  <2>1. ASSUME NEW i \in DOMAIN running, i >= index + 1
        PROVE  running[i] \notin Scheduled \cup {r}
    <3>1. i \in Nat /\ k \in Nat /\ index \in Nat
      BY DEF StateTypes
    <3>2. i >= index /\ i # k
      BY <1>3, <2>1, <3>1
    <3>3. running[i] # r
      BY <1>3, <3>2 DEF ListsFit, IsInjective
    <3> QED
      BY <1>1, <3>2, <3>3 DEF LoopFits
  <2> QED
    BY <1>1, <1>2, <1>10, <2>1 DEF LoopFits
<1>18. StepInv'
  <2>1. AttemptFits'
    BY <1>1, RetentionAssumption DEF AttemptFits
  <2>2. DueScheduled'
    BY <1>1, <1>8, <1>10 DEF StepInv, DueScheduled, InSchedule
  <2>3. LastGoesFirst'
    BY <1>1, <1>8 DEF StepInv, LastGoesFirst
  <2> QED
    BY <1>8, <2>1, <2>2, <2>3 DEF StepInv
<1> QED
  BY <1>8, <1>10, <1>12, <1>13, <1>14, <1>15, <1>16, <1>17, <1>18

\* The job of a request that has arrived has a place among the jobs.
LEMMA EntryType ==
    ASSUME PinInv, NEW r \in Requests, status[r] # "new"
    PROVE  EntryOf(r) \in Nat
<1>1. Job[r] \in ToSet(jobs)
  BY DEF PinInv, ListsFit
<1>2. \E i \in DOMAIN jobs : jobs[i] = Job[r]
  BY <1>1 DEF ToSet
<1>3. EntryOf(r) \in DOMAIN jobs
  BY <1>2 DEF EntryOf, Position
<1>4. DOMAIN jobs \subseteq Nat
  BY DEF PinInv, StateTypes
<1> QED
  BY <1>3, <1>4

\* peek_request finds a waiting request, whatever the order.
LEMMA PeekWaits ==
    ASSUME PinInv, waiting # <<>>
    PROVE  Peek \in ToSet(waiting)
<1> DEFINE D == DOMAIN waiting
           pinned == {i \in D : \E p \in ToSet(pins) : Job[p.req] = Job[waiting[i]]}
           among == IF pinned # {} THEN pinned ELSE D
           key(i) == EntryOf(waiting[i])
           IsFirst(i) == \A j \in among : key(i) < key(j) \/ (key(i) = key(j) /\ i <= j)
           first == CHOOSE i \in among : IsFirst(i)
<1>1. waiting \in Seq(Requests) /\ D = 1..Len(waiting) /\ Len(waiting) \in Nat
  BY DEF PinInv, StateTypes
<1>2. 1 \in D
  BY <1>1
<1>3. among \subseteq D /\ among # {} /\ among \subseteq Nat /\ IsFiniteSet(among)
  <2>1. IsFiniteSet(D)
    BY <1>1, SegmentCardinality
  <2> QED
    BY <1>1, <1>2, <2>1, FS_Subset
<1>4. \A i \in among : key(i) \in Int
  <2> SUFFICES ASSUME NEW i \in D PROVE key(i) \in Int
    BY <1>3
  <2>1. waiting[i] \in Requests /\ waiting[i] \in ToSet(waiting)
    BY <1>1 DEF ToSet
  <2>2. status[waiting[i]] \in {"waiting", "preempted"}
    BY <2>1 DEF PinInv, ListsFit
  <2> QED
    BY <2>1, <2>2, EntryType
<1>5. \E i \in among : IsFirst(i)
  <2> DEFINE f == [i \in among |-> key(i)]
  <2>1. f \in [among -> Int] /\ \A i \in among : f[i] = key(i)
    BY <1>4
  <2> HIDE DEF among, key, f
  <2>2. \E i \in among : \A j \in among : f[i] < f[j] \/ (f[i] = f[j] /\ i <= j)
    BY <1>3, <2>1, FirstOfLeast
  <2> QED
    BY <2>1, <2>2
<1>6. first \in D
  BY <1>3, <1>5
<1>7. Peek = IF continuum THEN waiting[first] ELSE Head(waiting)
  BY DEF Peek
<1> HIDE DEF first
<1>8. waiting[first] \in ToSet(waiting) /\ Head(waiting) \in ToSet(waiting)
  BY <1>1, <1>2, <1>6 DEF ToSet
<1> QED
  BY <1>7, <1>8

\* A waiting request runs, with the blocks that prefix caching found for it.
LEMMA ScheduleWaitingInv ==
    ASSUME PinInv, StepInv, continuum' = continuum, ScheduleWaiting
    PROVE  PinInv' /\ StepInv'
<1> USE DEF PinInv
<1> DEFINE r == Peek
           hits == Hits(r)
           num == NewTokens(r, HitTokens(r))
           n == HitTokens(r) + num
<1>1. /\ pc = "waiting" /\ waiting # <<>> /\ budget > 0
      /\ AllocateSlots(r, hits, n)
      /\ waiting' = Without(waiting, r) /\ running' = Append(running, r)
      /\ status' = [status EXCEPT ![r] = "running"]
      /\ batch' = Append(batch, [req |-> r, num |-> num]) /\ budget' = budget - num
      /\ UNCHANGED <<tokens, jobs, pins, unreported, pc, index, current, attempt, preempted>>
  BY DEF ScheduleWaiting, MayAdmit, FirstSlots
<1>2. r \in Requests /\ r \in ToSet(waiting) /\ status[r] \in {"waiting", "preempted"}
  <2>1. r \in ToSet(waiting)
    BY <1>1, PeekWaits
  <2>2. r \in Requests
    BY <2>1, ElementsType DEF StateTypes
  <2> QED
    BY <2>1, <2>2 DEF ListsFit
<1> HIDE DEF r
<1>3. computed[r] = 0 /\ table[r] = <<>> /\ tokens[r] \in 1..Len(Content[r])
  <2>1. computed[r] = 0 /\ table[r] = <<>>
    BY <1>2, BlocksForComputed DEF ComputedFits
  <2>2. tokens[r] \in Prompt[r]..Len(Content[r])
    BY <1>2 DEF StateTypes
  <2> QED
    BY <1>2, <2>1, <2>2, PromptFits
<1>4. /\ Found(r, hits) /\ HitTokens(r) = Len(hits) * BlockSize
      /\ HitTokens(r) \in Nat /\ HitTokens(r) < tokens[r]
  <2>1. /\ Found(r, hits) /\ Len(hits) = HitLength(r, tokens[r])
        /\ HitLength(r, tokens[r]) \in Nat /\ HitLength(r, tokens[r]) * BlockSize < tokens[r]
    BY <1>2, <1>3, HitsAreFound DEF Hits
  <2>2. HitTokens(r) = Len(hits) * BlockSize
    BY DEF HitTokens
  <2>3. HitLength(r, tokens[r]) * BlockSize \in Nat
    BY <2>1, Products
  <2> QED
    BY <2>1, <2>2, <2>3
<1>5. num \in 1..budget /\ n \in 1..tokens[r] /\ n \in 1..Len(Content[r])
  BY <1>1, <1>2, <1>4, ChunkFits
<1>6. n > HitTokens(r)
  <2> HIDE DEF num
  <2>1. budget \in Nat
    BY RetentionAssumption DEF StateTypes
  <2> QED
    BY <1>4, <1>5, <2>1
<1> HIDE DEF n, num, hits
<1>7. /\ CacheInv' /\ WritesFit' /\ blank' \subseteq blank
      /\ \A q \in Requests \ {r} : due'[q] = due[q]
  <2>1. n >= Ready(r, hits)
    BY <1>3, <1>4, <1>5, <1>6 DEF Ready
  <2>2. CacheInv' /\ ToSet(table[r]) \subseteq ToSet(table'[r])
    BY <1>1, <1>2, <1>4, <1>5, <2>1, AllocateKeeps
  <2>3. AllocateFrom(refCnt, freeQueue, r, hits, n)
    BY <1>1 DEF AllocateSlots
  <2> QED
    BY <1>2, <1>4, <2>2, <2>3, AllocateWrites DEF StepInv
<1>8. computed' = [computed EXCEPT ![r] = n] /\ computed \in [Requests -> Nat]
  BY <1>1, BlocksForComputed DEF AllocateSlots, AllocateFrom
<1>9. r \notin Scheduled /\ r \notin ToSet(running) /\ r \notin Pinned
  BY <1>2 DEF BatchFits, ListsFit, PinsFit
<1>10. /\ batch' \in Seq([req : Requests, num : 1..MaxBatch]) /\ IsInjective(batch')
       /\ \A b, c \in ToSet(batch') : b.req = c.req => b = c
       /\ Scheduled' = Scheduled \cup {r} /\ budget' \in 0..MaxBatch /\ BudgetFits'
  <2>1. InSchedule
    BY <1>1 DEF InSchedule
  <2> QED
    BY <1>1, <1>2, <1>5, <1>9, <2>1, BatchGrows
<1>11. /\ running' \in Seq(Requests) /\ ToSet(running') = ToSet(running) \cup {r}
       /\ IsInjective(running')
  BY <1>1, <1>2, <1>9, AppendType, AppendElements DEF StateTypes, ListsFit
<1>12. /\ waiting' \in Seq(Requests) /\ ToSet(waiting') = ToSet(waiting) \ {r}
       /\ IsInjective(waiting')
  BY <1>1, WithoutProperties, WithoutElements DEF StateTypes, ListsFit
<1>13. Pinned' = Pinned
  BY <1>1 DEF Pinned
<1>14. status \in [Requests -> {"new", "waiting", "running", "preempted", "finished"}]
  BY DEF StateTypes
<1>15. StateTypes'
  BY <1>1, <1>10, <1>11, <1>12 DEF StateTypes
<1>16. ListsFit'
  BY <1>1, <1>2, <1>11, <1>12, <1>14 DEF ListsFit
<1>17. BatchFits'
  <2>1. Scheduled \subseteq Requests
    BY Records
  <2> QED
    BY <1>1, <1>2, <1>10, <1>14, <2>1 DEF BatchFits
<1>18. ComputedFits'
  <2>1. n \in Nat /\ n > 0 /\ n <= tokens[r] /\ tokens[r] # Len(Content[r])
    BY <1>2, <1>5 DEF StateTypes, ComputedFits
  <2> QED
    BY <1>1, <1>2, <1>8, <1>10, <1>14, <2>1 DEF ComputedFits
<1>19. PinsFit'
  <2>1. current \notin Requests
    BY <1>1 DEF LoopFits
  <2> QED
    BY <1>1, <1>2, <1>8, <1>9, <1>13, <1>14, <2>1 DEF PinsFit
<1>20. LoopFits'
  BY <1>1 DEF LoopFits
<1>21. StepInv'
  <2>1. AttemptFits'
    BY <1>1 DEF StepInv, AttemptFits
  <2>2. DueScheduled'
    BY <1>1, <1>7, <1>10 DEF StepInv, DueScheduled, InSchedule
  <2>3. LastGoesFirst'
    BY <1>1, <1>7 DEF StepInv, LastGoesFirst
  <2> QED
    BY <1>7, <2>1, <2>2, <2>3 DEF StepInv
<1> QED
  BY <1>7, <1>10, <1>15, <1>16, <1>17, <1>18, <1>19, <1>20, <1>21

\* pop_running_request_based_on_last_step and running.pop find a running request.
LEMMA VictimRuns ==
    ASSUME PinInv, running # <<>>
    PROVE  Victim \in ToSet(running)
<1> DEFINE D == DOMAIN running
           resumable == {i \in D : ~IsLastStep[running[i]]}
           among == IF resumable # {} THEN resumable ELSE D
           key(i) == EntryOf(running[i])
           IsFirst(i) == \A j \in among : key(j) < key(i) \/ (key(j) = key(i) /\ i <= j)
           first == CHOOSE i \in among : IsFirst(i)
<1>1. running \in Seq(Requests) /\ D = 1..Len(running) /\ Len(running) \in Nat
  BY DEF PinInv, StateTypes
<1>2. 1 \in D
  BY <1>1
<1>3. among \subseteq D /\ among # {} /\ among \subseteq Nat /\ IsFiniteSet(among)
  <2>1. IsFiniteSet(D)
    BY <1>1, SegmentCardinality
  <2> QED
    BY <1>1, <1>2, <2>1, FS_Subset
<1>4. \A i \in among : key(i) \in Nat
  <2> SUFFICES ASSUME NEW i \in D PROVE key(i) \in Nat
    BY <1>3
  <2>1. running[i] \in Requests /\ running[i] \in ToSet(running)
    BY <1>1 DEF ToSet
  <2>2. status[running[i]] = "running"
    BY <2>1 DEF PinInv, ListsFit
  <2> QED
    BY <2>1, <2>2, EntryType
<1>5. \E i \in among : IsFirst(i)
  <2> DEFINE f == [i \in among |-> 0 - key(i)]
  <2>1. f \in [among -> Int] /\ \A i \in among : f[i] = 0 - key(i)
    BY <1>4
  <2> HIDE DEF among, key, f
  <2>2. PICK i \in among : \A j \in among : f[i] < f[j] \/ (f[i] = f[j] /\ i <= j)
    BY <1>3, <2>1, FirstOfLeast
  <2>3. \A j \in among : key(j) < key(i) \/ (key(j) = key(i) /\ i <= j)
    <3> SUFFICES ASSUME NEW j \in among PROVE key(j) < key(i) \/ (key(j) = key(i) /\ i <= j)
      OBVIOUS
    <3>1. f[i] = 0 - key(i) /\ f[j] = 0 - key(j) /\ key(i) \in Nat /\ key(j) \in Nat
      BY <1>4, <2>1
    <3> QED
      BY <2>2, <3>1
  <2> QED
    BY <2>2, <2>3
<1>6. first \in D
  BY <1>3, <1>5
<1>7. Victim = IF continuum THEN running[first] ELSE Last(running)
  BY DEF Victim
<1> HIDE DEF first
<1>8. running[first] \in ToSet(running) /\ Last(running) \in ToSet(running)
  <2>1. Len(running) \in D
    BY <1>1, <1>2
  <2> QED
    BY <1>6, <2>1 DEF ToSet, Last
<1> QED
  BY <1>7, <1>8

\* The entry of a preempted request leaves the batch and gives back its tokens.
LEMMA BatchShrinks ==
    ASSUME StateTypes, BatchFits, BudgetFits, InSchedule, NEW v \in Requests, NEW mine,
           mine = {b \in ToSet(batch) : b.req = v},
           batch' = Removed(batch, mine),
           mine = {} => budget' = budget,
           mine # {} => \E b \in mine : budget' = budget + b.num
    PROVE  /\ batch' \in Seq([req : Requests, num : 1..MaxBatch]) /\ IsInjective(batch')
           /\ \A b, c \in ToSet(batch') : b.req = c.req => b = c
           /\ Scheduled' = Scheduled \ {v}
           /\ budget' \in 0..MaxBatch /\ budget' >= budget
           /\ BudgetFits'
<1> DEFINE T == [req : Requests, num : 1..MaxBatch]
<1>1. batch \in Seq(T) /\ IsInjective(batch)
  BY DEF StateTypes, BatchFits
<1> HIDE DEF T
<1>2. batch' \in Seq(T) /\ ToSet(batch') = ToSet(batch) \ mine /\ IsInjective(batch')
  BY <1>1, RemovedProperties
<1>3. \A b, c \in ToSet(batch') : b.req = c.req => b = c
  BY <1>2 DEF BatchFits
<1>4. Scheduled' = Scheduled \ {v}
  BY <1>2 DEF Scheduled
<1>5. PICK f \in [Requests -> 0..MaxBatch] : IsShare(f) /\ budget + ShareTotal(f) = MaxBatch
  BY DEF BudgetFits
<1>6. budget \in Nat /\ budget \in 0..MaxBatch /\ MaxBatch \in Nat
  BY RetentionAssumption DEF StateTypes
<1>7. budget' = budget + f[v] /\ f[v] \in Nat
  <2>1. f[v] \in Nat
    BY <1>6
  <2>2. CASE mine = {}
    <3>1. v \notin Scheduled
      BY <2>2 DEF Scheduled
    <3> QED
      BY <1>5, <1>6, <2>1, <2>2, <3>1 DEF IsShare
  <2>3. CASE mine # {}
    <3>1. PICK b \in mine : budget' = budget + b.num
      BY <2>3
    <3>2. f[v] = b.num
      BY <1>5 DEF IsShare
    <3> QED
      BY <2>1, <3>1, <3>2
  <2> QED
    BY <2>2, <2>3
<1> DEFINE g == [f EXCEPT ![v] = 0]
<1>8. /\ g \in [Requests -> 0..MaxBatch] /\ g \in [Requests -> Int] /\ f \in [Requests -> Int]
      /\ g \in [Requests -> Nat]
      /\ g[v] = 0 /\ \A q \in Requests : q # v => g[q] = f[q]
  BY <1>6
<1> HIDE DEF g
<1>9. ShareTotal(f) \in Int /\ ShareTotal(g) = ShareTotal(f) + (g[v] - f[v])
  BY <1>8, SumUpdate
<1>10. ShareTotal(g) \in Nat
  <2>1. IsFiniteSet(Requests)
    BY CacheAssumption
  <2> QED
    BY <1>8, <2>1, TotalNat, ZenonT(60) DEF ShareTotal
<1>11. IsShare(g)'
  <2>1. \A b \in ToSet(batch') : g[b.req] = b.num
    BY <1>2, <1>5, <1>8, Records DEF IsShare
  <2>2. \A q \in Requests \ Scheduled' : g[q] = 0
    BY <1>4, <1>5, <1>8 DEF IsShare
  <2> QED
    BY <1>8, <2>1, <2>2 DEF IsShare
<1>12. budget' + ShareTotal(g) = MaxBatch
  BY <1>5, <1>6, <1>7, <1>8, <1>9
<1>13. BudgetFits'
  BY <1>8, <1>11, <1>12 DEF BudgetFits
<1>14. budget' \in 0..MaxBatch /\ budget' >= budget
  BY <1>6, <1>7, <1>10, <1>12
<1> QED
  BY <1>2, <1>3, <1>4, <1>13, <1>14 DEF T

\* A running request is preempted for the one in hand, or is that one itself.
LEMMA PreemptRunningInv ==
    ASSUME PinInv, StepInv, continuum' = continuum, PreemptRunning
    PROVE  PinInv' /\ StepInv'
<1> USE DEF PinInv
<1>1. PICK v : v = Victim
  OBVIOUS
<1>2. PICK mine : mine = {b \in ToSet(batch) : b.req = v}
  OBVIOUS
<1>3. /\ pc = "alloc"
      /\ running' = Without(running, v) /\ FreeKV(v)
      /\ status' = [status EXCEPT ![v] = "preempted"]
      /\ waiting' = <<v>> \o waiting
      /\ batch' = Removed(batch, mine)
      /\ budget' = IF mine = {} THEN budget ELSE budget + (CHOOSE b \in mine : TRUE).num
      /\ pc' = IF v = current THEN "commit" ELSE "alloc"
      /\ current' = IF v = current THEN None ELSE current
      /\ attempt' = IF v = current THEN 0 ELSE attempt
      /\ preempted' = TRUE
      /\ UNCHANGED <<tokens, jobs, pins, unreported, index>>
  BY <1>1, <1>2 DEF PreemptRunning, OutOfBlocks
<1>4. /\ current \in Requests /\ current \notin Scheduled /\ budget > 0
      /\ index <= Cardinality(Requests)
  BY <1>3 DEF LoopFits
<1>5. PICK k \in DOMAIN running : k <= index /\ running[k] = current
  BY <1>3 DEF LoopFits
<1>6. v \in Requests /\ v \in ToSet(running) /\ status[v] = "running"
  <2>1. v \in ToSet(running)
    BY <1>1, <1>5, VictimRuns
  <2>2. v \in Requests
    BY <2>1, ElementsType DEF StateTypes
  <2> QED
    BY <2>1, <2>2 DEF ListsFit
<1>7. /\ running' \in Seq(Requests) /\ ToSet(running') = ToSet(running) \ {v}
      /\ IsInjective(running')
  BY <1>3, WithoutProperties, WithoutElements DEF StateTypes, ListsFit
<1>8. /\ waiting' \in Seq(Requests) /\ ToSet(waiting') = ToSet(waiting) \cup {v}
      /\ IsInjective(waiting')
  <2>1. v \notin ToSet(waiting) /\ waiting \in Seq(Requests) /\ IsInjective(waiting)
    BY <1>6 DEF ListsFit, StateTypes
  <2> DEFINE s == <<v>>
  <2>2. s \in Seq(Requests) /\ ToSet(s) = {v} /\ IsInjective(s) /\ waiting' = s \o waiting
    BY <1>3, <1>6, SingletonElements
  <2> HIDE DEF s
  <2>3. s \o waiting \in Seq(Requests)
    BY <2>1, <2>2
  <2>4. {v} \cap ToSet(waiting) = {}
    BY <2>1
  <2>5. ToSet(s \o waiting) = ToSet(waiting) \cup {v} /\ IsInjective(s \o waiting)
    BY <2>1, <2>2, <2>4, ConcatElements
  <2> QED
    BY <2>2, <2>3, <2>5
<1>9. CacheInv' /\ computed' = [computed EXCEPT ![v] = 0] /\ computed \in [Requests -> Nat]
  BY <1>3, <1>6, FreeKVKeeps, BlocksForComputed
<1>10. /\ batch' \in Seq([req : Requests, num : 1..MaxBatch]) /\ IsInjective(batch')
       /\ \A b, c \in ToSet(batch') : b.req = c.req => b = c
       /\ Scheduled' = Scheduled \ {v}
       /\ budget' \in 0..MaxBatch /\ budget' >= budget /\ BudgetFits'
  <2>1. InSchedule /\ StateTypes /\ BatchFits /\ BudgetFits
    BY <1>3 DEF InSchedule
  <2>2. /\ mine = {} => budget' = budget
        /\ mine # {} => \E b \in mine : budget' = budget + b.num
    <3>1. mine # {} => (CHOOSE b \in mine : TRUE) \in mine
      OBVIOUS
    <3> QED
      BY <1>3, <3>1
  <2> QED
    BY <1>2, <1>3, <1>6, <2>1, <2>2, BatchShrinks
<1>11. Pinned' = Pinned /\ v \notin Pinned
  BY <1>3, <1>6 DEF Pinned, PinsFit
<1>12. status \in [Requests -> {"new", "waiting", "running", "preempted", "finished"}]
  BY DEF StateTypes
<1>13. StateTypes'
  BY <1>3, <1>7, <1>8, <1>10 DEF StateTypes
<1>14. ListsFit'
  BY <1>3, <1>6, <1>7, <1>8, <1>12 DEF ListsFit
<1>15. BatchFits'
  <2>1. Scheduled \subseteq Requests
    BY Records
  <2> QED
    BY <1>3, <1>6, <1>10, <1>12, <2>1 DEF BatchFits
<1>16. ComputedFits'
  <2>1. tokens[v] # Len(Content[v])
    BY <1>6 DEF ComputedFits
  <2> QED
    BY <1>3, <1>6, <1>9, <1>10, <1>12, <2>1 DEF ComputedFits
<1>17. status[current] = "running"
  BY <1>4, <1>5 DEF ListsFit, ToSet
<1>18. PinsFit'
  <2>1. None \notin Requests
    BY RetentionAssumption
  <2> QED
    BY <1>3, <1>6, <1>9, <1>11, <1>12, <1>17, <2>1 DEF PinsFit
<1>19. LoopFits'
  <2>1. CASE v = current
    BY <1>3, <2>1, RetentionAssumption DEF LoopFits
  <2>2. CASE v # current
    <3> DEFINE j == Position(running, v)
    <3>1. Contains(running, v)
      <4>1. \E i \in DOMAIN running : running[i] = v
        BY <1>6 DEF ToSet
      <4> QED
        BY <4>1 DEF Contains, StateTypes
    <3>2. /\ running \in Seq(Requests) /\ Len(running) \in Nat /\ DOMAIN running = 1..Len(running)
          /\ j \in 1..Len(running) /\ running[j] = v /\ running' = RemoveAt(running, j)
      BY <1>3, <3>1, WithoutProperties DEF StateTypes, Without
    <3> HIDE DEF j
    <3>3. /\ Len(running') = Len(running) - 1 /\ DOMAIN running' = 1..(Len(running) - 1)
          /\ \A i \in 1..(Len(running) - 1) :
                running'[i] = IF i < j THEN running[i] ELSE running[i + 1]
      <4>1. /\ Len(RemoveAt(running, j)) = Len(running) - 1
            /\ \A i \in 1..(Len(running) - 1) :
                  RemoveAt(running, j)[i] = IF i < j THEN running[i] ELSE running[i + 1]
        BY <3>2, RemoveAtProperties
      <4>2. DOMAIN running' = 1..Len(running')
        BY <1>7
      <4> QED
        BY <3>2, <4>1, <4>2
    <3>4. \E i \in DOMAIN running' : i <= index /\ running'[i] = current
      <4>1. k # j /\ k \in 1..Len(running) /\ index \in Nat
        BY <1>5, <2>2, <3>2 DEF StateTypes
      <4>2. CASE k < j
        BY <1>5, <3>2, <3>3, <4>1, <4>2
      <4>3. CASE k > j
        <5>1. k - 1 \in 1..(Len(running) - 1) /\ ~(k - 1 < j) /\ (k - 1) + 1 = k /\ k - 1 <= index
          BY <1>5, <3>2, <4>1, <4>3
        <5> QED
          BY <1>5, <3>3, <5>1
      <4> QED
        BY <3>2, <4>1, <4>2, <4>3
    <3>5. \A i \in DOMAIN running' : i >= index => running'[i] \notin Scheduled'
      <4> SUFFICES ASSUME NEW i \in 1..(Len(running) - 1), i >= index
                   PROVE  running'[i] \notin Scheduled
        BY <1>10, <3>3
      <4>1. i \in DOMAIN running /\ i + 1 \in DOMAIN running /\ i + 1 >= index
        BY <3>2 DEF StateTypes
      <4>2. running[i] \notin Scheduled /\ running[i + 1] \notin Scheduled
        BY <1>3, <4>1 DEF LoopFits
      <4> QED
        BY <3>3, <4>2
    <3>6. budget' > 0
      BY <1>4, <1>10, RetentionAssumption DEF StateTypes
    <3> QED
      BY <1>3, <1>4, <1>10, <2>2, <3>4, <3>5, <3>6 DEF LoopFits
  <2> QED
    BY <2>1, <2>2
<1>20. PICK j \in DOMAIN running : j = Position(running, v) /\ running[j] = v
  <2>1. Contains(running, v) /\ running \in Seq(Requests)
    <3>1. \E i \in DOMAIN running : running[i] = v
      BY <1>6 DEF ToSet
    <3> QED
      BY <3>1 DEF Contains, StateTypes
  <2> QED
    BY <2>1, WithoutProperties
<1>21. StepInv'
  <2>1. AttemptFits'
    <3>1. CASE v = current
      BY <1>3, <3>1, RetentionAssumption DEF AttemptFits
    <3>2. CASE v # current
      <4>1. attempt' = attempt /\ current' = current /\ tokens' = tokens
            /\ computed'[current] = computed[current]
        BY <1>3, <1>4, <1>6, <1>9, <3>2
      <4>2. attempt \in 0..MaxBatch /\ attempt \in 1..budget
            /\ computed[current] + attempt <= tokens[current]
        BY <1>3 DEF StepInv, AttemptFits
      <4>3. attempt \in 1..budget'
        BY <1>10, <4>2, RetentionAssumption DEF StateTypes
      <4> QED
        BY <4>1, <4>2, <4>3 DEF AttemptFits
    <3> QED
      BY <3>1, <3>2
  <2>2. /\ WritesFit' /\ due'[v] = {} /\ blank' = blank \cup due[v]
        /\ \A q \in Requests \ {v} : due'[q] = due[q]
    BY <1>3, <1>6, FreeKVWrites DEF StepInv
  <2>3. DueScheduled'
    BY <1>3, <1>10, <2>2 DEF StepInv, DueScheduled, InSchedule
  <2>4. LastGoesFirst'
    <3> SUFFICES ASSUME ~continuum
                 PROVE  /\ blank' = {}
                        /\ pc' = "alloc" => index' \in DOMAIN running' /\ running'[index'] = current'
      BY DEF LastGoesFirst
    <3>1. /\ running \in Seq(Requests) /\ Len(running) \in Nat /\ DOMAIN running = 1..Len(running)
          /\ index \in 1..Len(running) /\ running[index] = current /\ blank = {}
      BY <1>3 DEF StepInv, LastGoesFirst, StateTypes
    <3>2. v = running[Len(running)] /\ Len(running) \in DOMAIN running /\ Len(running) >= index
      BY <1>1, <3>1 DEF Victim, Last
    <3>3. due[v] = {}
      BY <1>3, <1>6, <3>2 DEF LoopFits, StepInv, DueScheduled
    <3>4. j = Len(running)
      BY <1>20, <3>2 DEF ListsFit, IsInjective
    <3>5. ASSUME v # current PROVE index \in DOMAIN running' /\ running'[index] = current
      <4>1. index # j
        BY <1>20, <3>1, <3>5
      <4>2. index < j /\ index \in 1..(Len(running) - 1) /\ j \in 1..Len(running)
        <5>1. PICK l \in Nat : l = Len(running)
          BY <3>1
        <5>2. index \in 1..l /\ index # l /\ j = l
          BY <3>1, <3>4, <4>1, <5>1
        <5> HIDE DEF PinInv
        <5>3. index < l /\ index \in 1..(l - 1) /\ l \in 1..l
          BY <5>2
        <5> QED
          BY <5>1, <5>2, <5>3
      <4>3. running' = RemoveAt(running, j) /\ DOMAIN running' = 1..Len(running')
        <5>1. Contains(running, v)
          BY <1>20, <3>1 DEF Contains
        <5> QED
          BY <1>3, <1>7, <1>20, <5>1 DEF Without
      <4>4. /\ Len(RemoveAt(running, j)) = Len(running) - 1
            /\ \A i \in 1..(Len(running) - 1) :
                  RemoveAt(running, j)[i] = IF i < j THEN running[i] ELSE running[i + 1]
        BY <3>1, <4>2, RemoveAtProperties
      <4> QED
        BY <3>1, <4>2, <4>3, <4>4
    <3> QED
      BY <1>3, <2>2, <3>1, <3>3, <3>5
  <2> QED
    BY <2>1, <2>2, <2>3, <2>4 DEF StepInv
<1> QED
  BY <1>9, <1>10, <1>13, <1>14, <1>15, <1>16, <1>18, <1>19, <1>21

\* Steps that leave the cache alone and do not begin an attempt.
LEMMA StepStays ==
    ASSUME StepInv, UNCHANGED <<continuum, kv, attempt>>,
           InSchedule => InSchedule' /\ Scheduled' = Scheduled,
           pc' # "alloc" \/ UNCHANGED <<pc, index, running, current, budget, tokens>>
    PROVE  StepInv'
<1>1. UNCHANGED <<table, computed, due, blank>>
  BY DEF kv
<1>2. WritesFit'
  BY <1>1, WritesStay DEF StepInv
<1>3. DueScheduled'
  BY <1>1 DEF StepInv, DueScheduled
<1>4. AttemptFits' /\ LastGoesFirst'
  BY <1>1 DEF StepInv, AttemptFits, LastGoesFirst
<1> QED
  BY <1>2, <1>3, <1>4 DEF StepInv

\* Blocks of a finished request are given back: all of them are written.
LEMMA StepFrees ==
    ASSUME PinInv, StepInv, NEW q \in Requests, FreeKV(q), status[q] = "finished",
           UNCHANGED <<continuum, attempt, tokens, batch, budget, index, running>>,
           InSchedule => InSchedule',
           pc' # "alloc" \/ UNCHANGED <<pc, current>>
    PROVE  StepInv'
<1>1. q \notin Scheduled
  BY DEF PinInv, BatchFits
<1>2. due[q] = {}
  BY <1>1 DEF StepInv, DueScheduled
<1>3. /\ WritesFit' /\ due'[q] = {} /\ blank' = blank
      /\ \A r \in Requests : due'[r] = due[r]
  BY <1>2, FreeKVWrites DEF PinInv, StepInv
<1>4. Scheduled' = Scheduled
  BY DEF Scheduled
<1>5. DueScheduled'
  BY <1>3, <1>4 DEF StepInv, DueScheduled
<1>6. LastGoesFirst'
  BY <1>3 DEF StepInv, LastGoesFirst
<1>7. AttemptFits'
  <2>1. CASE pc' # "alloc"
    BY <2>1 DEF StepInv, AttemptFits
  <2>2. CASE pc = "alloc" /\ UNCHANGED <<pc, current>>
    <3>1. PICK i \in DOMAIN running : running[i] = current
      BY <2>2 DEF PinInv, LoopFits
    <3>2. current \in Requests /\ status[current] = "running"
      BY <2>2, <3>1 DEF PinInv, LoopFits, ListsFit, ToSet
    <3>3. computed'[current] = computed[current]
      BY <3>2, FreeKVKeeps, BlocksForComputed DEF PinInv
    <3> QED
      BY <2>2, <3>3 DEF StepInv, AttemptFits
  <2> QED
    BY <2>1, <2>2
<1> QED
  BY <1>3, <1>5, <1>6, <1>7 DEF StepInv

\* Whoever gives blocks back.
LEMMA StepUnpins ==
    ASSUME PinInv, StepInv, continuum' = continuum,
           UnpinJob \/ UnpinExpired \/ ReleasePin \/ BlockedWaiting \/ RetainOrFree
    PROVE  StepInv'
<1>1. CASE \E i \in DOMAIN pins : Unpin(i) /\ UNCHANGED step
                                 /\ UNCHANGED <<tokens, running>>
                                 /\ (pc' = pc \/ (pc = "waiting" /\ pc' = "commit"))
  <2>1. PICK i \in DOMAIN pins : Unpin(i) /\ UNCHANGED step
                                 /\ UNCHANGED <<tokens, running>>
                                 /\ (pc' = pc \/ (pc = "waiting" /\ pc' = "commit"))
    BY <1>1
  <2>2. PICK q : q = pins[i].req
    OBVIOUS
  <2>3. pins[i] \in ToSet(pins) /\ q \in Pinned
    BY <2>2 DEF ToSet, Pinned
  <2>4. q \in Requests /\ status[q] = "finished" /\ FreeKV(q)
    BY <2>1, <2>2, <2>3, Records DEF PinInv, PinsFit, Unpin
  <2>5. UNCHANGED <<attempt, batch, budget, index, current>>
    BY <2>1 DEF step
  <2> QED
    BY <2>1, <2>4, <2>5, StepFrees DEF InSchedule
<1>2. CASE UnpinJob \/ UnpinExpired \/ ReleasePin
  <2>1. PICK i \in DOMAIN pins : Unpin(i)
    BY <1>2, PinDrops
  <2>2. UNCHANGED <<tokens, running>> /\ UNCHANGED step /\ pc' = pc
    BY <1>2 DEF UnpinJob, UnpinExpired, ReleasePin
  <2> QED
    BY <1>1, <2>1, <2>2
<1>3. CASE BlockedWaiting
  <2>1. /\ pc = "waiting" /\ pc' = "commit" /\ UNCHANGED <<tokens, running>> /\ UNCHANGED step
    BY <1>3 DEF BlockedWaiting
  <2>2. CASE \E i \in DOMAIN pins : Unpin(i)
    BY <1>1, <2>1, <2>2
  <2>3. CASE UNCHANGED kv
    BY <2>1, <2>3, StepStays DEF step, InSchedule, Scheduled
  <2> QED
    BY <1>3, <2>2, <2>3 DEF BlockedWaiting
<1>4. CASE RetainOrFree
  <2>1. /\ pc = "free" /\ pc' = "output" /\ UNCHANGED <<tokens, running>>
        /\ UNCHANGED <<attempt, batch, budget, index>>
        /\ FreeKV(current) \/ UNCHANGED kv
    BY <1>4 DEF RetainOrFree, PinRequest
  <2>2. current \in Requests /\ status[current] = "finished"
    BY <2>1 DEF PinInv, LoopFits
  <2>3. CASE FreeKV(current)
    <3>1. PICK q : q = current
      OBVIOUS
    <3> QED
      BY <2>1, <2>2, <2>3, <3>1, StepFrees DEF InSchedule
  <2>4. CASE UNCHANGED kv
    BY <2>1, <2>4, StepStays DEF InSchedule
  <2> QED
    BY <2>1, <2>3, <2>4
<1> QED
  BY <1>2, <1>3, <1>4

\* The attempt of the request that is taken in hand, and the end of the step.
LEMMA StepMoves ==
    ASSUME PinInv, StepInv, continuum' = continuum, PickRunning \/ EndSchedule
    PROVE  StepInv'
<1>1. CASE PickRunning
  <2>1. PICK r : r = running[index]
    OBVIOUS
  <2>2. /\ pc = "running" /\ index <= Len(running) /\ budget > 0
        /\ current' = r /\ pc' = "alloc" /\ attempt' = NewTokens(r, computed[r])
        /\ UNCHANGED <<kv, tokens, running, index, budget, batch>>
    BY <1>1, <2>1 DEF PickRunning, queues
  <2>3. index \in DOMAIN running /\ r \in Requests
    BY <2>1, <2>2 DEF PinInv, StateTypes
  <2>4. status[r] = "running" /\ r \notin Scheduled
    <3>1. r \in ToSet(running)
      BY <2>1, <2>3 DEF ToSet
    <3>2. r \notin Scheduled
      BY <2>1, <2>2, <2>3 DEF PinInv, LoopFits, StateTypes
    <3> QED
      BY <2>3, <3>1, <3>2 DEF PinInv, ListsFit
  <2>5. computed[r] \in Nat /\ computed[r] < tokens[r]
    BY <2>3, <2>4, BlocksForComputed DEF PinInv, ComputedFits
  <2> DEFINE num == NewTokens(r, computed[r])
  <2>6. num \in 1..budget /\ computed[r] + num \in 1..tokens[r]
    BY <2>2, <2>3, <2>5, ChunkFits DEF PinInv
  <2> HIDE DEF num
  <2>7. /\ UNCHANGED <<computed, table, due, blank>>
        /\ attempt' = num
    BY <2>2 DEF kv, num
  <2>8. AttemptFits'
    <3>1. budget \in 0..MaxBatch /\ tokens[r] \in Nat
      BY <2>3 DEF PinInv, StateTypes
    <3>2. num \in 0..MaxBatch /\ computed[r] + num <= tokens[r]
      BY <2>5, <2>6, <3>1, RetentionAssumption
    <3> QED
      BY <2>2, <2>6, <2>7, <3>2 DEF AttemptFits
  <2>9. WritesFit'
    BY <2>7, WritesStay DEF StepInv
  <2>10. DueScheduled'
    BY <2>2, <2>7 DEF StepInv, DueScheduled, InSchedule, Scheduled
  <2>11. LastGoesFirst'
    BY <2>1, <2>2, <2>3, <2>7 DEF StepInv, LastGoesFirst
  <2> QED
    BY <2>8, <2>9, <2>10, <2>11 DEF StepInv
<1>2. CASE EndSchedule
  <2>1. /\ due' = [r \in Requests |-> {}] /\ blank' = blank /\ table' = table
        /\ pc' = "output" /\ attempt' = attempt
    BY <1>2 DEF EndSchedule, WriteBatch, books, step
  <2>2. WritesFit'
    BY <2>1, WritesStay DEF StepInv
  <2> QED
    BY <2>1, <2>2 DEF StepInv, DueScheduled, LastGoesFirst, AttemptFits
<1> QED
  BY <1>1, <1>2

\* Every step keeps the invariants.
LEMMA PinStep ==
    ASSUME PinInv, StepInv, [Next]_vars
    PROVE  PinInv' /\ StepInv'
<1>1. CASE UNCHANGED vars
  <2>1. /\ UNCHANGED <<continuum, kv, status, tokens, running, waiting, jobs, pins, unreported>>
        /\ UNCHANGED <<pc, index, current, budget, attempt, batch, preempted>>
    BY <1>1 DEF vars, queues, step
  <2>2. StateTypes'
    BY <2>1 DEF PinInv, StateTypes
  <2>3. BudgetFits'
    BY <2>1, BudgetStays DEF PinInv, InSchedule
  <2>4. pc' \in {"input", "unpin"} => batch = <<>>
    BY <2>1 DEF PinInv, BatchFits
  <2>5. StepInv'
    BY <2>1, StepStays DEF InSchedule, Scheduled
  <2> QED
    BY <2>1, <2>2, <2>3, <2>4, <2>5, ControlInv
<1>2. CASE Next
  <2>1. continuum' = continuum
    BY <1>2 DEF Next
  <2>2. CASE EngineStep
    <3>1. CASE PickRunning \/ EndSchedule
      BY <2>1, <3>1, PickRunningInv, LeaveInv, StepMoves
    <3>2. CASE ScheduleRunning \/ PreemptRunning \/ ScheduleWaiting
      BY <2>1, <3>2, ScheduleRunningInv, PreemptRunningInv, ScheduleWaitingInv
    <3>3. CASE UnpinJob \/ UnpinExpired \/ ReleasePin \/ BlockedWaiting \/ RetainOrFree
      BY <2>1, <3>3, PinDroppedInv, BlockedWaitingInv, RetainOrFreeInv, StepUnpins
    <3>4. CASE BeginSchedule \/ BeginRunning \/ LeaveRunning \/ LeaveWaiting
               \/ Output \/ EndOutput
      <4>1. PinInv'
        BY <2>1, <3>4, BeginInv, LeaveInv, OutputInv
      <4>2. UNCHANGED <<kv, attempt>> /\ pc' # "alloc"
        BY <3>4 DEF BeginSchedule, BeginRunning, LeaveRunning, LeaveWaiting, Output, EndOutput,
                    BeginFree, step
      <4>3. InSchedule => InSchedule' /\ batch' = batch
        BY <3>4 DEF BeginSchedule, BeginRunning, LeaveRunning, LeaveWaiting, Output, EndOutput,
                    InSchedule, step
      <4> QED
        BY <2>1, <4>1, <4>2, <4>3, StepStays DEF Scheduled
    <3> QED
      BY <2>2, <3>1, <3>2, <3>3, <3>4 DEF EngineStep, Schedule, UpdateFromOutput, FreeBlocks
  <2>3. CASE Tick
    BY <2>1, <2>3, TickInv, StepStays DEF Tick, step, InSchedule
  <2>4. ASSUME NEW r \in Requests, AddRequest(r) \/ Abort(r) PROVE PinInv' /\ StepInv'
    <3>1. UNCHANGED <<kv, attempt>> /\ pc = "input" /\ pc' # "alloc"
      BY <2>4 DEF AddRequest, Abort, BeginFree, step
    <3>2. StepInv'
      BY <2>1, <3>1, StepStays DEF InSchedule
    <3> QED
      BY <2>1, <2>4, <3>2, AddRequestInv, AbortInv
  <2>5. CASE Idle
    BY <1>1, <2>5 DEF Idle
  <2> QED
    BY <1>2, <2>2, <2>3, <2>4, <2>5 DEF Next
<1> QED
  BY <1>1, <1>2

\* The inductive invariants of retention.
LEMMA PinInvariance == Spec => [](PinInv /\ StepInv)
<1>1. Init => StepInv
  BY RetentionAssumption
     DEF Init, CacheInit, StepInv, AttemptFits, WritesFit, DueScheduled, LastGoesFirst
<1> QED
  BY <1>1, PinInit, PinStep, PTL DEF Spec

\* A chain of hits that a pinned turn keeps is found by the next turn.
LEMMA ChainFound ==
    ASSUME PinInv, NEW q \in Requests, NEW r \in Requests, tokens[r] \in 1..Len(Content[r]),
           computed[q] = Len(Content[q]) - 1, table[r] = <<>>,
           NEW i \in 1..Smallest(MaxHit(tokens[r]), MaxHit(Len(Content[q]))),
           HashOf(r, i) = HashOf(q, i)
    PROVE  i <= HitLength(r, tokens[r])
<1> DEFINE top == MaxHit(tokens[r])
           l == HitLength(r, tokens[r])
<1>1. /\ Len(Content[r]) \in Nat \ {0} /\ Len(Content[q]) \in Nat \ {0}
      /\ tokens[r] - 1 \in Nat /\ Len(Content[q]) - 1 \in Nat
  BY HashLength
<1>2. top \in Nat /\ MaxHit(Len(Content[q])) \in Nat
  BY <1>1, Floors DEF MaxHit
<1>3. i \in Nat \ {0} /\ i <= top /\ i <= MaxHit(Len(Content[q]))
  BY <1>2 DEF Smallest
<1>4. numCached[q] = MaxHit(Len(Content[q])) /\ Len(table[q]) = Cdiv(computed[q], BlockSize)
  BY DEF PinInv, CacheInv, SizesFit, MaxHit
<1>5. /\ table[q] \in Seq(Blocks) /\ DOMAIN table[q] = 1..Len(table[q]) /\ Len(table[q]) \in Nat
  BY DEF PinInv, CacheInv, BooksTypeOK
<1>6. numCached[q] <= Len(table[q])
  BY <1>1, <1>4, BlockCounts DEF MaxHit
<1>7. MaxHit(Len(Content[q])) <= Floor(Len(Content[q]), BlockSize)
      /\ top <= Floor(Len(Content[r]), BlockSize)
  BY <1>1, BlockCounts DEF MaxHit
<1>8. /\ Floor(Len(Content[r]), BlockSize) \in Nat /\ Floor(Len(Content[q]), BlockSize) \in Nat
  BY HashLength
<1> HIDE DEF top
<1>9. ASSUME NEW j \in 1..i PROVE HashOf(r, j) = HashOf(q, j) /\ HashOf(r, j) \in Hashes
  <2>1. i \in FullBlocks(r) /\ i \in FullBlocks(q) /\ j \in FullBlocks(r) /\ j \in Nat
    BY <1>2, <1>3, <1>7, <1>8 DEF FullBlocks
  <2>2. /\ i * BlockSize <= Len(Content[r]) /\ i * BlockSize <= Len(Content[q])
        /\ HashOf(r, j) \in Hashes
    BY <2>1, HashLength
  <2> DEFINE m == i * BlockSize
             s == j * BlockSize
  <2>3. m \in Nat /\ s \in Nat /\ s <= m
    BY <1>3, <2>1, Products
  <2>4. SubSeq(Content[r], 1, m) = SubSeq(Content[q], 1, m)
    BY DEF HashOf
  <2>5. /\ Content[r] \in Seq(ToSet(Content[r]))
        /\ Content[q] \in Seq(ToSet(Content[q]))
    BY CacheAssumption
  <2>6. m <= Len(Content[r]) /\ m <= Len(Content[q])
    BY <2>2
  <2> HIDE DEF m, s
  <2>7. SubSeq(Content[r], 1, s) = SubSeq(Content[q], 1, s)
    BY <2>3, <2>4, <2>5, <2>6, ShorterPrefix
  <2> QED
    BY <2>2, <2>7 DEF HashOf, s
<1>10. ASSUME NEW j \in 1..i PROVE LookUp(r, j) # <<>>
  <2>1. j \in DOMAIN table[q] /\ j <= numCached[q] /\ table[q][j] \in Blocks
    BY <1>2, <1>3, <1>4, <1>5, <1>6
  <2>2. blockHash[table[q][j]] = HashOf(r, j) /\ HashOf(r, j) \in Hashes
    BY <1>9, <2>1 DEF PinInv, CacheInv, CacheMapConsistent
  <2>3. Contains(cached[HashOf(r, j)], table[q][j])
    BY <2>1, <2>2 DEF PinInv, CacheInv, CacheMapConsistent
  <2> QED
    BY <2>3 DEF LookUp, Contains
<1>11. l \in 0..top /\ IsHit(r, l) /\ (l < top => ~IsHit(r, l + 1))
  BY HitLengthIs DEF PinInv, top
<1> HIDE DEF l
<1>12. ~(l + 1 <= i)
  <2> SUFFICES ASSUME l + 1 <= i PROVE FALSE
    OBVIOUS
  <2>1. l \in Nat /\ l < top
    BY <1>2, <1>3, <1>11
  <2>2. IsHit(r, l + 1)
    <3>1. \A j \in 1..(l + 1) : j \in 1..i
      BY <1>3, <2>1
    <3> QED
      BY <1>10, <3>1 DEF IsHit
  <2> QED
    BY <1>11, <2>1, <2>2
<1> QED
  BY <1>2, <1>3, <1>11, <1>12 DEF l

\* Pins retain what they are for: nothing is retained by accident, a job has one
\* pinned turn at most, and as long as a completed turn is pinned its successor finds
\* all of the common prefix in the cache (_free_blocks, pin_request, unpin_request).
THEOREM PinsCorrect == Spec => []PinsSound
<1>1. PinInv /\ StepInv => PinsSound
  <2> SUFFICES ASSUME PinInv, StepInv PROVE PinsSound
    OBVIOUS
  <2>1. TypeOK
    <3>1. index \in 1..(Len(running) + Cardinality(Requests) + 1)
      <4>1. /\ running \in Seq(Requests) /\ Cardinality(Requests) \in Nat
            /\ index \in 1..(Cardinality(Requests) + 1)
        BY Bounded DEF PinInv, StateTypes
      <4> QED
        BY <4>1
    <3> QED
      BY <3>1 DEF PinInv, StateTypes, CacheInv, TypeOK, CacheTypeOK, StepInv, AttemptFits, WritesFit
  <2>2. RetainedByPinOnly
    <3>1. ASSUME NEW r \in Requests, table[r] # <<>>
          PROVE  \/ status[r] = "running"
                 \/ status[r] = "finished" /\ (r = current \/ \E p \in ToSet(pins) : p.req = r)
      <4>1. computed[r] # 0
        BY <3>1, BlocksForComputed DEF PinInv
      <4>2. status[r] \in {"new", "waiting", "running", "preempted", "finished"}
        BY DEF PinInv, StateTypes
      <4>3. status[r] \in {"running", "finished"}
        BY <4>1, <4>2 DEF PinInv, ComputedFits
      <4>4. status[r] = "finished" => r = current \/ r \in Pinned
        BY <4>1 DEF PinInv, PinsFit
      <4> QED
        BY <4>3, <4>4 DEF Pinned
    <3>2. ASSUME NEW i \in DOMAIN pins, NEW j \in DOMAIN pins, i # j
          PROVE  Job[pins[i].req] # Job[pins[j].req]
      <4>1. pins[i] \in ToSet(pins) /\ pins[j] \in ToSet(pins)
        BY DEF ToSet
      <4>2. pins[i] # pins[j]
        BY <3>2 DEF PinInv, PinsFit, IsInjective
      <4> QED
        BY <4>1, <4>2 DEF PinInv, PinsFit
    <3> QED
      BY <3>1, <3>2 DEF RetainedByPinOnly
  <2>3. PinKeepsPrefix
    <3> SUFFICES ASSUME NEW p \in ToSet(pins), NEW r \in ToSet(waiting),
                        tokens[p.req] = Len(Content[p.req]),
                        NEW i \in 1..Smallest(MaxHit(tokens[r]), MaxHit(tokens[p.req])),
                        HashOf(r, i) = HashOf(p.req, i)
                 PROVE  i <= HitLength(r, tokens[r])
      BY DEF PinKeepsPrefix
    <3> DEFINE q == p.req
    <3>1. q \in Requests /\ q \in Pinned
      BY Records DEF PinInv, Pinned
    <3>2. r \in Requests /\ status[r] \in {"waiting", "preempted"}
      <4>1. r \in Requests
        BY ElementsType DEF PinInv, StateTypes
      <4> QED
        BY <4>1 DEF PinInv, ListsFit
    <3>3. computed[q] = Len(Content[q]) - 1
      BY <3>1 DEF PinInv, PinsFit
    <3>4. table[r] = <<>>
      BY <3>2, BlocksForComputed DEF PinInv, ComputedFits
    <3>5. tokens[r] \in 1..Len(Content[r])
      <4>1. tokens[r] \in Prompt[r]..Len(Content[r])
        BY <3>2 DEF PinInv, StateTypes
      <4> QED
        BY <3>2, <4>1, PromptFits
    <3>6. tokens[q] = Len(Content[q]) /\ HashOf(r, i) = HashOf(q, i)
          /\ i \in 1..Smallest(MaxHit(tokens[r]), MaxHit(Len(Content[q])))
      OBVIOUS
    <3> HIDE DEF q
    <3> QED
      BY <3>1, <3>2, <3>3, <3>4, <3>5, <3>6, ChainFound
  <2>4. ~continuum => HitsComputed
    BY DEF StepInv, LastGoesFirst, HitsComputed
  <2> QED
    BY <2>1, <2>2, <2>3, <2>4 DEF PinsSound
<1> QED
  BY <1>1, PinInvariance, PTL

\* When a running request is out of blocks there is another one to preempt or a pin
\* to give up: pop_running_request_based_on_last_step does not run dry, because the
\* pool holds any request that is alone in it.
THEOREM VictimCorrect == Spec => []AlwaysAVictim
<1>1. PinInv /\ StepInv => AlwaysAVictim
  <2> SUFFICES ASSUME PinInv, StepInv, OutOfBlocks, ReleasesPin, pins = <<>> PROVE FALSE
    BY DEF AlwaysAVictim
  <2> DEFINE r == current
             n == Slots(r)
             F == ToSet(freeQueue)
             M == ToSet(table[r])
  <2>1. pc = "alloc" /\ ~CanAllocate(r, <<>>, n) /\ Len(running) <= 1
    BY DEF OutOfBlocks, ReleasesPin
  <2>2. r \in Requests /\ r \notin Scheduled /\ budget > 0
    BY <2>1 DEF PinInv, LoopFits
  <2>3. PICK k \in DOMAIN running : running[k] = r
    BY <2>1 DEF PinInv, LoopFits
  <2>4. running \in Seq(Requests) /\ ToSet(running) = {r}
    <3>1. running \in Seq(Requests) /\ DOMAIN running = 1..Len(running) /\ Len(running) \in Nat
      BY DEF PinInv, StateTypes
    <3>2. DOMAIN running = {k}
      BY <2>1, <2>3, <3>1
    <3> QED
      BY <2>3, <3>1, <3>2 DEF ToSet
  <2>5. \A q \in Requests : status[q] = "running" <=> q = r
    BY <2>4 DEF PinInv, ListsFit
  <2>6. ASSUME NEW q \in Requests, q # r PROVE table[q] = <<>>
    <3>1. q \notin Pinned
      BY DEF Pinned, ToSet
    <3>2. status[q] \in {"new", "waiting", "preempted", "finished"}
      BY <2>5, <2>6 DEF PinInv, StateTypes
    <3>3. computed[q] = 0
      BY <2>6, <3>1, <3>2 DEF PinInv, ComputedFits, PinsFit
    <3> QED
      BY <3>3, BlocksForComputed DEF PinInv
  <2>7. /\ table[r] \in Seq(Blocks) /\ IsInjective(table[r]) /\ Len(table[r]) \in Nat
        /\ freeQueue \in Seq(Blocks) /\ IsInjective(freeQueue) /\ Len(freeQueue) \in Nat
    BY <2>2, Unowned DEF PinInv, CacheInv, BooksTypeOK
  <2>8. F = Blocks \ M
    <3>1. F = {b \in Blocks : refCnt[b] = 0}
      BY DEF PinInv, CacheInv, RefCountExact
    <3>2. \A b \in Blocks : refCnt[b] = 0 <=> b \notin M
      <4> SUFFICES ASSUME NEW b \in Blocks PROVE refCnt[b] = 0 <=> b \notin M
        OBVIOUS
      <4>1. refCnt[b] = 0 <=> \A q \in Requests : b \notin ToSet(table[q])
        BY Unowned DEF PinInv, CacheInv
      <4>2. \A q \in Requests : q # r => ToSet(table[q]) = {}
        BY <2>6 DEF ToSet
      <4> QED
        BY <2>2, <4>1, <4>2
    <3> QED
      BY <3>1, <3>2
  <2>9. Len(freeQueue) = NumBlocks - Len(table[r])
    <3>1. Cardinality(F) = Len(freeQueue) /\ Cardinality(M) = Len(table[r]) /\ IsFiniteSet(M)
      BY <2>7, InjectiveLength
    <3>2. M \subseteq Blocks
      BY <2>7, ElementsType
    <3>3. IsFiniteSet(Blocks) /\ Cardinality(Blocks) = NumBlocks /\ NumBlocks \in Nat
      BY CacheAssumption, SegmentCardinality DEF Blocks
    <3> HIDE DEF F, M
    <3>4. Cardinality(Blocks \ M) = Cardinality(Blocks) - Cardinality(Blocks \cap M)
      BY <3>3, FS_Difference
    <3>5. Blocks \cap M = M
      BY <3>2
    <3> QED
      BY <2>8, <3>1, <3>3, <3>4, <3>5
  <2>10. computed[r] \in Nat /\ computed[r] < tokens[r]
    BY <2>2, <2>5, BlocksForComputed DEF PinInv, ComputedFits
  <2>11. tokens[r] \in Nat /\ tokens[r] < Len(Content[r]) /\ Len(Content[r]) \in Nat
    <3>1. tokens[r] \in Prompt[r]..Len(Content[r]) /\ tokens[r] # Len(Content[r])
      BY <2>2, <2>5 DEF PinInv, StateTypes, ComputedFits
    <3> QED
      BY <2>2, <3>1, PromptFits
  <2>12. n \in Nat /\ n <= Len(Content[r]) - 1
    <3>1. attempt \in Nat /\ n = computed[r] + attempt /\ n <= tokens[r]
      BY <2>1, RetentionAssumption DEF StepInv, AttemptFits, Slots
    <3> HIDE DEF n
    <3> QED
      BY <2>10, <2>11, <3>1
  <2> HIDE DEF n
  <2>13. Cdiv(n, BlockSize) \in Nat /\ Cdiv(n, BlockSize) <= NumBlocks
    <3>1. Cdiv(n, BlockSize) <= Cdiv(Len(Content[r]) - 1, BlockSize)
      BY <2>11, <2>12, BlockCounts
    <3>2. Cdiv(Len(Content[r]) - 1, BlockSize) <= NumBlocks
      BY <2>2, RetentionAssumption
    <3>3. /\ Cdiv(n, BlockSize) \in Nat /\ Cdiv(Len(Content[r]) - 1, BlockSize) \in Nat
          /\ NumBlocks \in Nat
      <4>1. Len(Content[r]) - 1 \in Nat
        BY <2>11
      <4>2. \A a \in Nat : Cdiv(a, BlockSize) \in Nat
        BY Ceilings
      <4> QED
        BY <2>12, <4>1, <4>2, CacheAssumption
    <3> QED
      BY <3>1, <3>2, <3>3
  <2>14. BlocksToAllocate(refCnt, r, <<>>, n) = Cdiv(n, BlockSize) - Len(table[r])
    <3> DEFINE unused == {b \in ToSet(<<>>) : refCnt[b] = 0}
    <3>1. unused = {}
      BY DEF ToSet
    <3>2. BlocksToAllocate(refCnt, r, <<>>, n)
            = Cdiv(n, BlockSize) - Len(<<>>) - Len(table[r]) + Cardinality(unused)
      BY DEF BlocksToAllocate
    <3> HIDE DEF unused
    <3>3. Cardinality(unused) = 0 /\ Len(<<>>) = 0
      BY <3>1, FS_EmptySet
    <3> QED
      BY <2>7, <2>13, <3>2, <3>3
  <2>15. NumBlocks \in Nat
    BY CacheAssumption
  <2>16. CanAllocate(r, <<>>, n)
    BY <2>7, <2>9, <2>13, <2>14, <2>15 DEF CanAllocate
  <2> QED
    BY <2>1, <2>16
<1> QED
  BY <1>1, PinInvariance, PTL
=============================================================================
