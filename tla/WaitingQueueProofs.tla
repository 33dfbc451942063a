-------------------------- MODULE WaitingQueueProofs --------------------------
(***************************************************************************)
(* The waiting queues.  The one of the MARS policy, for any set of         *)
(* requests and any levels: the heap with lazy deletion loses nobody, and  *)
(* as long as an id is added once only it implements the ordered queue of  *)
(* MarsQueueSpec.  The one of the Autellix policy, with the scheduler      *)
(* around it, for any programs, thresholds and quanta: every request waits *)
(* in the deque of its level, the batch and the budget add up, and no      *)
(* program loses the service it was charged.                               *)
(***************************************************************************)
EXTENDS MarsRequestQueue, Autellix, CollectionLemmas

\* The heap is well formed, loses nobody and has a top.
HeapInv == TypeOK /\ EveryRequestReachable /\ IsFiniteSet(heap)

\* Orders count up for add_request and down for prepend_request.
OrdersInRange ==
    /\ prependSeq <= 0
    /\ \A e \in heap : e.order \in prependSeq..seq

\* No two entries share an order.
OrdersUnique == \A e, f \in heap : e.order = f.order => e = f

\* Whatever is left in the heap of a queued request is behind its key, because it
\* can only have come back by prepend_request.
StaleBehindKey == \A e \in heap : e.id \in requests => AtOrBefore(key[e.id], e)

\* The heap knows only requests that have been added.
HeapSeen == requests \subseteq seen /\ \A e \in heap : e.id \in seen

\* s lists the elements of R, once each, in the order of their keys.
Enumerates(s, R, K) ==
    /\ s \in Seq(R) /\ ToSet(s) = R
    /\ \A a, b \in R : Precedes(s, a, b) => Before(K[a], K[b])

IInv ==
    /\ HeapInv /\ OrdersInRange /\ OrdersUnique /\ StaleBehindKey /\ HeapSeen
    /\ IsFiniteSet(requests)
    /\ Enumerates(Iter, requests, key)

-----------------------------------------------------------------------------
(* The heap. *)

\* Entries and keys compare like pairs of integers.
LEMMA OrderTotal ==
    ASSUME NEW a, NEW b, NEW c, a.level \in Int, b.level \in Int, c.level \in Int,
           a.order \in Int, b.order \in Int, c.order \in Int
    PROVE  /\ AtOrBefore(a, a)
           /\ AtOrBefore(a, b) \/ AtOrBefore(b, a)
           /\ AtOrBefore(a, b) /\ AtOrBefore(b, c) => AtOrBefore(a, c)
           /\ Before(a, b) /\ AtOrBefore(b, c) => Before(a, c)
           /\ ~(Before(a, b) /\ AtOrBefore(b, a))
  BY DEF AtOrBefore, Before

\* _purge leaves every entry that counts; while a request is queued it leaves one
\* on top.
LEMMA PurgedProperties ==
    ASSUME HeapInv
    PROVE  /\ Purged \subseteq heap /\ IsFiniteSet(Purged)
           /\ \A e \in heap : Valid(e) => e \in Purged
           /\ requests # {} => Purged # {}
  <1> USE DEF HeapInv
  <1>1. Purged \subseteq heap
    BY DEF Purged
  <1>2. IsFiniteSet(Purged)
    BY <1>1, FS_Subset
  <1>3. ASSUME NEW e \in heap, Valid(e)
        PROVE  e \in Purged
    <2>1. e.level \in Int /\ e.order \in Int
      BY DEF TypeOK
    <2>2. AtOrBefore(e, e)
      BY <2>1, OrderTotal
    <2> QED
      BY <1>3, <2>2 DEF Purged
  <1>4. ASSUME requests # {}
        PROVE  Purged # {}
    <2>1. PICK r \in requests : TRUE
      BY <1>4
    <2>2. PICK e \in heap : Valid(e)
      BY <2>1 DEF EveryRequestReachable
    <2> QED
      BY <1>3, <2>2
  <1> QED
    BY <1>1, <1>2, <1>3, <1>4

\* The top of the heap, once it is purged, is a least entry.
LEMMA TopIsLeast ==
    ASSUME HeapInv, requests # {}
    PROVE  Top \in Purged /\ \A f \in Purged : AtOrBefore(Top, f)
  <1> DEFINE R == {p \in Purged \X Purged : AtOrBefore(p[1], p[2])}
  <1>1. Purged \subseteq heap /\ IsFiniteSet(Purged) /\ Purged # {}
    BY PurgedProperties
  <1>2. \A e \in Purged : e.level \in Int /\ e.order \in Int
    BY <1>1 DEF HeapInv, TypeOK
  <1>3. \A a, b \in Purged : <<a, b>> \in R <=> AtOrBefore(a, b)
    OBVIOUS
  <1>4. \A a, b \in Purged : <<a, b>> \in R \/ <<b, a>> \in R
    BY <1>2, <1>3, OrderTotal
  <1>5. \A a, b, c \in Purged : <<a, b>> \in R /\ <<b, c>> \in R => <<a, c>> \in R
    BY <1>2, <1>3, OrderTotal
  <1> HIDE DEF R
  <1>6. \E a \in Purged : \A b \in Purged : <<a, b>> \in R
    BY <1>1, <1>4, <1>5, LeastElement
  <1>7. \E a \in Purged : \A b \in Purged : AtOrBefore(a, b)
    BY <1>3, <1>6
  <1> QED
    BY <1>7 DEF Top

\* _push, whoever calls it, keeps the heap invariant.
LEMMA PushKeepsHeap ==
    ASSUME HeapInv, NEW r \in Ids, r \notin requests, NEW l \in Nat, NEW o \in Int,
           Push(r, l, o), seq' \in Nat, prependSeq' \in Int,
           out' \in Ids \cup {None}, seen' \subseteq Ids
    PROVE  HeapInv'
  <1> DEFINE new == [level |-> l, order |-> o, id |-> r, version |-> version[r] + 1]
  <1> USE DEF HeapInv
  <1>1. version \in [Ids -> Nat] /\ key \in [Ids -> [level : Nat, order : Int]]
    BY DEF TypeOK
  <1>2. version' = [version EXCEPT ![r] = version[r] + 1] /\ version' \in [Ids -> Nat]
    BY <1>1 DEF Push
  <1>3. /\ key' = [key EXCEPT ![r] = [level |-> l, order |-> o]]
        /\ key' \in [Ids -> [level : Nat, order : Int]]
    BY <1>1 DEF Push
  <1>4. heap' = heap \cup {new} /\ requests' = requests \cup {r}
    BY DEF Push
  <1>5. new \in [level : Nat, order : Int, id : Ids, version : Nat]
    BY <1>1
  <1>6. TypeOK'
    BY <1>2, <1>3, <1>4, <1>5 DEF TypeOK
  <1>7. IsFiniteSet(heap')
    BY <1>4, FS_AddElement
  <1>8. ASSUME NEW x \in requests'
        PROVE  \E e \in heap' : /\ e.id = x /\ Valid(e)'
                                /\ e.level = key'[x].level /\ e.order = key'[x].order
    <2>1. CASE x = r
      <3>1. /\ new.id = r /\ new.version = version[r] + 1
            /\ new.level = l /\ new.order = o
        OBVIOUS
      <3>2. key'[r] = [level |-> l, order |-> o] /\ version'[r] = version[r] + 1
        BY <1>1, <1>2, <1>3
      <3>3. new \in heap' /\ r \in requests'
        BY <1>4
      <3>4. PICK e \in heap' : e = new
        BY <3>3
      <3> HIDE DEF new
      <3> QED
        BY <2>1, <3>1, <3>2, <3>3, <3>4 DEF Valid
    <2>2. CASE x # r
      <3>1. x \in requests /\ x \in Ids
        BY <1>4, <1>8, <2>2 DEF TypeOK
      <3>2. PICK e \in heap : /\ e.id = x /\ Valid(e)
                              /\ e.level = key[x].level /\ e.order = key[x].order
        BY <3>1 DEF EveryRequestReachable
      <3>3. key'[x] = key[x] /\ version'[x] = version[x]
        BY <1>1, <1>2, <1>3, <2>2, <3>1
      <3> QED
        BY <1>4, <3>1, <3>2, <3>3 DEF Valid
    <2> QED
      BY <2>1, <2>2
  <1> QED
    BY <1>6, <1>7, <1>8 DEF EveryRequestReachable, Valid

\* Forgetting a request keeps it too, when nothing that counts for another one is
\* taken from the heap.
LEMMA ForgetKeepsHeap ==
    ASSUME HeapInv, NEW r \in Ids, Forget(r), heap' \subseteq heap,
           \A e \in heap : Valid(e) /\ e.id # r => e \in heap',
           UNCHANGED <<seq, prependSeq, seen>>, out' \in Ids \cup {None}
    PROVE  HeapInv'
  <1> USE DEF HeapInv
  <1>1. version \in [Ids -> Nat] /\ key \in [Ids -> [level : Nat, order : Int]]
    BY DEF TypeOK
  <1>2. version' = [version EXCEPT ![r] = 0] /\ version' \in [Ids -> Nat]
    BY <1>1 DEF Forget
  <1>3. key' = [key EXCEPT ![r] = NoKey] /\ key' \in [Ids -> [level : Nat, order : Int]]
    BY <1>1 DEF Forget, NoKey
  <1>4. requests' = requests \ {r}
    BY DEF Forget
  <1>5. TypeOK'
    BY <1>2, <1>3, <1>4 DEF TypeOK
  <1>6. IsFiniteSet(heap')
    BY FS_Subset
  <1>7. ASSUME NEW x \in requests'
        PROVE  \E e \in heap' : /\ e.id = x /\ Valid(e)'
                                /\ e.level = key'[x].level /\ e.order = key'[x].order
    <2>1. x \in requests /\ x \in Ids /\ x # r
      BY <1>4, <1>7 DEF TypeOK
    <2>2. PICK e \in heap : /\ e.id = x /\ Valid(e)
                            /\ e.level = key[x].level /\ e.order = key[x].order
      BY <2>1 DEF EveryRequestReachable
    <2>3. key'[x] = key[x] /\ version'[x] = version[x]
      BY <1>1, <1>2, <1>3, <2>1
    <2> QED
      BY <1>4, <2>1, <2>2, <2>3 DEF Valid
  <1> QED
    BY <1>5, <1>6, <1>7 DEF EveryRequestReachable, Valid

\* Every step keeps the heap invariant.
LEMMA HeapInvariance == HeapInv /\ [Next]_vars => HeapInv'
  <1> SUFFICES ASSUME HeapInv, [Next]_vars
               PROVE  HeapInv'
    OBVIOUS
  <1>0. TypeOK
    BY DEF HeapInv
  <1>1. ASSUME NEW r \in Ids, AddRequest(r)
        PROVE  HeapInv'
    <2>1. LevelOf[r] \in Nat /\ seq + 1 \in Int /\ seq' \in Nat
      BY <1>0, <1>1, QueueAssumption DEF AddRequest, TypeOK
    <2>2. r \notin requests /\ Push(r, LevelOf[r], seq + 1)
      BY <1>1 DEF AddRequest
    <2>3. prependSeq' \in Int /\ out' \in Ids \cup {None} /\ seen' \subseteq Ids
      BY <1>0, <1>1 DEF AddRequest, TypeOK
    <2> QED
      BY <2>1, <2>2, <2>3, PushKeepsHeap
  <1>2. ASSUME NEW r \in Ids, PrependRequest(r)
        PROVE  HeapInv'
    <2>1. 0 \in Nat /\ prependSeq - 1 \in Int /\ prependSeq' \in Int
      BY <1>0, <1>2 DEF PrependRequest, TypeOK
    <2>2. r \notin requests /\ Push(r, 0, prependSeq - 1)
      BY <1>2 DEF PrependRequest
    <2>3. seq' \in Nat /\ out' \in Ids \cup {None} /\ seen' \subseteq Ids
      BY <1>0, <1>2 DEF PrependRequest, TypeOK
    <2> QED
      BY <2>1, <2>2, <2>3, PushKeepsHeap
  <1>3. ASSUME NEW r \in Ids, RemoveRequest(r)
        PROVE  HeapInv'
    <2>1. Forget(r) /\ heap' = heap /\ UNCHANGED <<seq, prependSeq, seen>>
      BY <1>3 DEF RemoveRequest
    <2>2. out' \in Ids \cup {None}
      BY <1>0, <1>3 DEF RemoveRequest, TypeOK
    <2> QED
      BY <2>1, <2>2, ForgetKeepsHeap
  <1>4. ASSUME PeekRequest
        PROVE  HeapInv'
    <2>1. Top \in heap /\ Purged \subseteq heap /\ IsFiniteSet(Purged)
      BY <1>4, PurgedProperties, TopIsLeast DEF PeekRequest
    <2>2. TypeOK'
      BY <1>0, <1>4, <2>1 DEF PeekRequest, TypeOK
    <2>3. ASSUME NEW x \in requests'
          PROVE  \E e \in heap' : /\ e.id = x /\ Valid(e)'
                                  /\ e.level = key'[x].level /\ e.order = key'[x].order
      <3>1. PICK e \in heap : /\ e.id = x /\ Valid(e)
                              /\ e.level = key[x].level /\ e.order = key[x].order
        BY <1>4, <2>3 DEF PeekRequest, HeapInv, EveryRequestReachable
      <3> QED
        BY <1>4, <3>1, PurgedProperties DEF PeekRequest, Valid
    <2> QED
      BY <1>4, <2>1, <2>2, <2>3 DEF HeapInv, EveryRequestReachable, Valid, PeekRequest
  <1>5. ASSUME PopRequest
        PROVE  HeapInv'
    <2>1. Top \in heap /\ Purged \subseteq heap
      BY <1>5, PurgedProperties, TopIsLeast DEF PopRequest
    <2>2. Top.id \in Ids
      BY <1>0, <2>1 DEF TypeOK
    <2>3. Forget(Top.id) /\ heap' \subseteq heap /\ UNCHANGED <<seq, prependSeq, seen>>
      BY <1>5, <2>1 DEF PopRequest
    <2>4. \A e \in heap : Valid(e) /\ e.id # Top.id => e \in heap'
      BY <1>5, PurgedProperties DEF PopRequest
    <2>5. out' \in Ids \cup {None}
      BY <1>5, <2>2 DEF PopRequest
    <2> QED
      BY <2>2, <2>3, <2>4, <2>5, ForgetKeepsHeap
  <1>6. ASSUME UNCHANGED vars
        PROVE  HeapInv'
    BY <1>6 DEF vars, HeapInv, TypeOK, EveryRequestReachable, Valid
  <1> QED
    BY <1>1, <1>2, <1>3, <1>4, <1>5, <1>6 DEF Next

\* The queue starts empty.
LEMMA HeapInit == Init => HeapInv
  BY FS_EmptySet DEF Init, HeapInv, TypeOK, EveryRequestReachable, NoKey, None

\* The heap keeps an entry that counts, at its own key, for every queued request,
\* also when ids come back and versions restart: peek_request and pop_request find
\* somebody as long as the queue says it is not empty.
THEOREM HeapCorrect == Spec => []HeapSound
  <1>1. HeapInv => HeapSound
    BY DEF HeapInv, HeapSound
  <1> QED
    BY <1>1, HeapInit, HeapInvariance, PTL DEF Spec

-----------------------------------------------------------------------------
(* The order of __iter__. *)

\* The type of _key_by_id.
Keys == [Ids -> [level : Nat, order : Int]]

\* __iter__ for any requests and keys.
IterOf(R, K) ==
    CHOOSE s \in [1..Cardinality(R) -> R] :
        \A i, j \in 1..Cardinality(R) : i < j => Before(K[s[i]], K[s[j]])

\* A list in the order of the keys has no duplicates.
LEMMA SortedInjective ==
    ASSUME NEW K \in Keys, NEW R \in SUBSET Ids, NEW n \in Nat, NEW s \in [1..n -> R],
           \A i, j \in 1..n : i < j => Before(K[s[i]], K[s[j]])
    PROVE  s \in Seq(R) /\ Len(s) = n /\ DOMAIN s = 1..n /\ IsInjective(s)
  <1>1. s \in Seq(R) /\ Len(s) = n /\ DOMAIN s = 1..n
    OBVIOUS
  <1>2. ASSUME NEW i \in 1..n, NEW j \in 1..n, s[i] = s[j], i < j
        PROVE  FALSE
    <2>1. K[s[i]].level \in Int /\ K[s[i]].order \in Int
      BY DEF Keys
    <2> QED
      BY <1>2, <2>1 DEF Before
  <1> QED
    BY <1>1, <1>2 DEF IsInjective

\* There is only one way to list a set in the order of its keys.
LEMMA SortedUnique ==
    ASSUME NEW K \in Keys, NEW R \in SUBSET Ids, NEW n \in Nat,
           NEW s \in [1..n -> R], NEW t \in [1..n -> R],
           \A i, j \in 1..n : i < j => Before(K[s[i]], K[s[j]]),
           \A i, j \in 1..n : i < j => Before(K[t[i]], K[t[j]]),
           ToSet(s) = ToSet(t)
    PROVE  s = t
  <1> DEFINE G == {k \in 0..n : \A i \in 1..k : s[i] = t[i]}
  <1>1. /\ DOMAIN s = 1..n /\ IsInjective(s)
        /\ DOMAIN t = 1..n /\ IsInjective(t)
    BY SortedInjective
  <1>2. 0 \in G
    OBVIOUS
  <1>3. ASSUME NEW k \in 1..n, k - 1 \in G
        PROVE  k \in G
    <2>1. \A i \in 1..(k - 1) : s[i] = t[i]
      BY <1>3
    <2>2. PICK j \in 1..n : t[j] = s[k]
      BY <1>1 DEF ToSet
    <2>3. PICK m \in 1..n : s[m] = t[k]
      BY <1>1 DEF ToSet
    <2>4. j >= k
      BY <1>1, <2>1, <2>2 DEF IsInjective
    <2>5. m >= k
      BY <1>1, <2>1, <2>3 DEF IsInjective
    <2>6. s[k] = t[k]
      <3> SUFFICES ASSUME j > k, m > k
                   PROVE  FALSE
        BY <2>2, <2>3, <2>4, <2>5
      <3>1. Before(K[t[k]], K[s[k]]) /\ Before(K[s[k]], K[t[k]])
        BY <2>2, <2>3
      <3>2. /\ K[s[k]].level \in Int /\ K[s[k]].order \in Int
            /\ K[t[k]].level \in Int /\ K[t[k]].order \in Int
        BY DEF Keys
      <3> QED
        BY <3>1, <3>2 DEF Before
    <2> QED
      BY <2>1, <2>6
  <1> HIDE DEF G
  <1>4. \A k \in 0..n : k \in G
    BY <1>2, <1>3, SegmentInduction
  <1> QED
    BY <1>4 DEF G

\* __iter__ is the list that holds the requests in the order of their keys.
LEMMA IterIs ==
    ASSUME NEW K \in Keys, NEW R \in SUBSET Ids, NEW s, Enumerates(s, R, K)
    PROVE  IterOf(R, K) = s /\ IsFiniteSet(R) /\ IsInjective(s)
  <1> DEFINE n == Len(s)
             Ascends(u) == \A i, j \in 1..n : i < j => Before(K[u[i]], K[u[j]])
  <1>1. n \in Nat /\ s \in Seq(R) /\ s \in [1..n -> R] /\ DOMAIN s = 1..n
    BY DEF Enumerates
  <1>2. Ascends(s)
    <2> SUFFICES ASSUME NEW i \in 1..n, NEW j \in 1..n, i < j
                 PROVE  Before(K[s[i]], K[s[j]])
      OBVIOUS
    <2>1. Precedes(s, s[i], s[j]) /\ s[i] \in R /\ s[j] \in R
      BY <1>1 DEF Precedes
    <2> QED
      BY <2>1 DEF Enumerates
  <1> HIDE DEF n
  <1>3. IsInjective(s)
    BY <1>1, <1>2, SortedInjective
  <1>4. ToSet(s) = R
    BY DEF Enumerates
  <1>5. IsFiniteSet(R) /\ Cardinality(R) = n
    BY <1>1, <1>3, <1>4, InjectiveLength DEF n
  <1> DEFINE u == IterOf(R, K)
  <1>6. u \in [1..n -> R] /\ Ascends(u)
    <2>1. \E v \in [1..n -> R] : Ascends(v)
      BY <1>1, <1>2
    <2>2. u = CHOOSE v \in [1..n -> R] : Ascends(v)
      BY <1>5 DEF IterOf
    <2> HIDE DEF u, Ascends
    <2> QED
      BY <2>1, <2>2
  <1> HIDE DEF u
  <1>7. ToSet(u) = R
    <2>1. u \in Seq(R) /\ Len(u) = n /\ IsInjective(u) /\ DOMAIN u = 1..n
      BY <1>1, <1>6, SortedInjective
    <2>2. Cardinality(ToSet(u)) = n
      BY <2>1, InjectiveLength
    <2>3. ToSet(u) \subseteq R
      BY <1>6, <2>1 DEF ToSet
    <2> QED
      BY <1>5, <2>2, <2>3, FS_Subset
  <1>8. u = s
    BY <1>1, <1>2, <1>4, <1>6, <1>7, SortedUnique
  <1> QED
    BY <1>3, <1>5, <1>8 DEF u

\* What is left of an enumeration is one of what is left.
LEMMA EnumeratesRest ==
    ASSUME NEW K \in Keys, NEW R \in SUBSET Ids, NEW s, Enumerates(s, R, K),
           NEW r, NEW t, t \in Seq(R), ToSet(t) = R \ {r},
           \A a, b : Precedes(t, a, b) => Precedes(s, a, b),
           NEW L \in Keys, \A x \in Ids : x # r => L[x] = K[x]
    PROVE  Enumerates(t, R \ {r}, L)
  <1>1. t \in Seq(R \ {r})
    BY DEF ToSet
  <1>2. ASSUME NEW a \in R \ {r}, NEW b \in R \ {r}, Precedes(t, a, b)
        PROVE  Before(L[a], L[b])
    <2>1. Before(K[a], K[b])
      BY <1>2 DEF Enumerates
    <2> QED
      BY <2>1
  <1> QED
    BY <1>1, <1>2 DEF Enumerates

\* Deleting a position of a list brings nothing in front of anything else.
LEMMA RemoveAtPrecedes ==
    ASSUME NEW X, NEW s \in Seq(X), NEW i \in 1..Len(s), NEW a, NEW b,
           Precedes(RemoveAt(s, i), a, b)
    PROVE  Precedes(s, a, b)
  <1> DEFINE t == RemoveAt(s, i)
             old(k) == IF k < i THEN k ELSE k + 1
  <1>1. /\ t \in Seq(X) /\ Len(t) = Len(s) - 1
        /\ \A k \in 1..(Len(s) - 1) : t[k] = s[old(k)]
    BY RemoveAtProperties
  <1>2. DOMAIN t = 1..(Len(s) - 1) /\ DOMAIN s = 1..Len(s) /\ Len(s) \in Nat
    BY <1>1
  <1> HIDE DEF t
  <1>3. PICK k, m \in DOMAIN t : k < m /\ t[k] = a /\ t[m] = b
    BY DEF Precedes, t
  <1>4. old(k) \in DOMAIN s /\ old(m) \in DOMAIN s /\ old(k) < old(m)
    BY <1>2, <1>3
  <1>5. s[old(k)] = a /\ s[old(m)] = b
    BY <1>1, <1>2, <1>3
  <1> QED
    BY <1>4, <1>5 DEF Precedes

\* remove_request takes one request out of the enumeration, or nobody.
LEMMA EnumeratesWithout ==
    ASSUME NEW K \in Keys, NEW R \in SUBSET Ids, NEW s, Enumerates(s, R, K), NEW r,
           NEW L \in Keys, \A x \in Ids : x # r => L[x] = K[x]
    PROVE  Enumerates(Without(s, r), R \ {r}, L)
  <1>1. s \in Seq(R) /\ ToSet(s) = R /\ IsInjective(s)
    BY IterIs DEF Enumerates
  <1>2. Without(s, r) \in Seq(R) /\ ToSet(Without(s, r)) = R \ {r}
    BY <1>1, WithoutProperties, WithoutElements
  <1>3. ASSUME NEW a, NEW b, Precedes(Without(s, r), a, b)
        PROVE  Precedes(s, a, b)
    <2>1. CASE Contains(s, r)
      <3>1. Position(s, r) \in 1..Len(s)
        BY <1>1, <2>1, WithoutProperties
      <3>2. Without(s, r) = RemoveAt(s, Position(s, r))
        BY <2>1 DEF Without
      <3> QED
        BY <1>1, <1>3, <3>1, <3>2, RemoveAtPrecedes
    <2>2. CASE ~Contains(s, r)
      BY <1>3, <2>2 DEF Without
    <2> QED
      BY <2>1, <2>2
  <1> QED
    BY <1>2, <1>3, EnumeratesRest

\* pop_request takes the first one, whose key is before all others.
LEMMA EnumeratesTail ==
    ASSUME NEW K \in Keys, NEW R \in SUBSET Ids, NEW s, Enumerates(s, R, K), R # {}
    PROVE  /\ s # <<>> /\ Head(s) \in R
           /\ \A x \in R : x # Head(s) => Before(K[Head(s)], K[x])
           /\ \A L \in Keys : (\A x \in Ids : x # Head(s) => L[x] = K[x])
                  => Enumerates(Tail(s), R \ {Head(s)}, L)
  <1>1. s \in Seq(R) /\ ToSet(s) = R /\ IsInjective(s)
    BY IterIs DEF Enumerates
  <1>2. s # <<>>
    BY <1>1 DEF ToSet
  <1>3. Head(s) \in R /\ ToSet(Tail(s)) = R \ {Head(s)}
    BY <1>1, <1>2, TailElements
  <1>4. Tail(s) \in Seq(R) /\ s = <<Head(s)>> \o Tail(s) /\ <<Head(s)>> \in Seq(R)
    BY <1>1, <1>2, <1>3
  <1>5. ASSUME NEW x \in R, x # Head(s)
        PROVE  Before(K[Head(s)], K[x])
    <2>1. Head(s) \in ToSet(<<Head(s)>>)
      BY <1>3, SingletonElements
    <2>2. x \in ToSet(Tail(s))
      BY <1>3, <1>5
    <2>3. Precedes(s, Head(s), x)
      BY <1>4, <2>1, <2>2, ConcatPrecedes, Zenon
    <2> QED
      BY <1>3, <2>3 DEF Enumerates
  <1>6. ASSUME NEW a, NEW b, Precedes(Tail(s), a, b)
        PROVE  Precedes(s, a, b)
    BY <1>4, <1>6, ConcatPrecedes, Zenon
  <1>7. ASSUME NEW L \in Keys, \A x \in Ids : x # Head(s) => L[x] = K[x]
        PROVE  Enumerates(Tail(s), R \ {Head(s)}, L)
    BY <1>3, <1>4, <1>6, <1>7, EnumeratesRest
  <1> QED
    BY <1>2, <1>3, <1>5, <1>7

\* An enumeration with a new request in it: its own keys, and where it stands.
LEMMA EnumeratesMore ==
    ASSUME NEW K \in Keys, NEW R \in SUBSET Ids, NEW s, Enumerates(s, R, K),
           NEW r \in Ids, r \notin R, NEW L \in Keys, \A x \in Ids : x # r => L[x] = K[x],
           NEW a \in Seq(R), NEW b \in Seq(R), s = a \o b,
           \A x \in ToSet(a) : Before(L[x], L[r]),
           \A x \in ToSet(b) : Before(L[r], L[x])
    PROVE  Enumerates((a \o <<r>>) \o b, R \cup {r}, L)
  <1> DEFINE X == R \cup {r}
             c == a \o <<r>>
  <1>1. ToSet(s) = R /\ ToSet(s) = ToSet(a) \cup ToSet(b)
    BY ConcatElements DEF Enumerates
  <1>2. a \in Seq(X) /\ b \in Seq(X) /\ <<r>> \in Seq(X) /\ c \in Seq(X) /\ c \o b \in Seq(X)
    OBVIOUS
  <1>3. ToSet(<<r>>) = {r}
    BY SingletonElements
  <1>4. ToSet(c) = ToSet(a) \cup {r}
    BY <1>2, <1>3, ConcatElements
  <1>5. ToSet(c \o b) = X
    <2> HIDE DEF c
    <2>1. ToSet(c \o b) = ToSet(c) \cup ToSet(b)
      BY <1>2, ConcatElements
    <2> QED
      BY <1>1, <1>4, <2>1
  <1>6. \A x, y : ~Precedes(<<r>>, x, y)
    BY DEF Precedes
  <1>7. ASSUME NEW x \in R, NEW y \in R, Precedes(s, x, y)
        PROVE  Before(L[x], L[y])
    BY <1>7 DEF Enumerates
  <1>8. ASSUME NEW x, NEW y, Precedes(a, x, y)
        PROVE  Before(L[x], L[y])
    <2>1. Precedes(s, x, y)
      BY <1>8, ConcatPrecedes
    <2>2. x \in ToSet(s) /\ y \in ToSet(s)
      BY <2>1 DEF Precedes, ToSet
    <2> QED
      BY <1>1, <1>7, <2>1, <2>2
  <1>9. ASSUME NEW x, NEW y, Precedes(b, x, y)
        PROVE  Before(L[x], L[y])
    <2>1. Precedes(s, x, y)
      BY <1>9, ConcatPrecedes
    <2>2. x \in ToSet(s) /\ y \in ToSet(s)
      BY <2>1 DEF Precedes, ToSet
    <2> QED
      BY <1>1, <1>7, <2>1, <2>2
  <1>10. ASSUME NEW x \in X, NEW y \in X, Precedes(c \o b, x, y)
         PROVE  Before(L[x], L[y])
    <2>1. \/ Precedes(c, x, y)
          \/ Precedes(b, x, y)
          \/ x \in ToSet(c) /\ y \in ToSet(b)
      BY <1>2, <1>10, ConcatPrecedesOnly
    <2>2. CASE Precedes(c, x, y)
      <3>1. \/ Precedes(a, x, y)
            \/ Precedes(<<r>>, x, y)
            \/ x \in ToSet(a) /\ y \in ToSet(<<r>>)
        BY <1>2, <2>2, ConcatPrecedesOnly
      <3> QED
        BY <1>3, <1>6, <1>8, <3>1
    <2>3. CASE Precedes(b, x, y)
      BY <1>9, <2>3
    <2>4. CASE x \in ToSet(c) /\ y \in ToSet(b)
      <3>1. CASE x = r
        BY <2>4, <3>1
      <3>2. CASE x \in ToSet(a)
        <4>1. Precedes(s, x, y)
          BY <2>4, <3>2, ConcatPrecedes
        <4> QED
          BY <1>1, <1>7, <2>4, <3>2, <4>1
      <3> QED
        BY <1>4, <2>4, <3>1, <3>2
    <2> QED
      BY <2>1, <2>2, <2>3, <2>4
  <1> QED
    BY <1>2, <1>5, <1>10 DEF Enumerates

\* add_request: a key behind all others of its level is where the level order
\* inserts.
LEMMA EnumeratesInsert ==
    ASSUME NEW K \in Keys, NEW R \in SUBSET Ids, NEW s, Enumerates(s, R, K),
           NEW r \in Ids, r \notin R, NEW L \in Keys, \A x \in Ids : x # r => L[x] = K[x],
           \A x \in R : K[x].order < L[r].order,
           NEW lv \in [Ids -> Int], \A x \in Ids : lv[x] = L[x].level
    PROVE  Enumerates(InsertByLevel(s, lv, r), R \cup {r}, L)
  <1>1. s \in Seq(R) /\ ToSet(s) = R /\ s \in Seq(Ids)
    BY DEF Enumerates
  <1>2. InOrder(s, lv)
    <2> SUFFICES ASSUME NEW i \in DOMAIN s, NEW j \in DOMAIN s, i < j
                 PROVE  lv[s[i]] <= lv[s[j]]
      BY DEF InOrder
    <2>1. s[i] \in R /\ s[j] \in R /\ Precedes(s, s[i], s[j])
      BY <1>1 DEF Precedes
    <2>2. Before(K[s[i]], K[s[j]])
      BY <2>1 DEF Enumerates
    <2>3. lv[s[i]] = K[s[i]].level /\ lv[s[j]] = K[s[j]].level
      BY <2>1
    <2>4. lv[s[i]] \in Int /\ lv[s[j]] \in Int
      BY <2>1
    <2> QED
      BY <2>2, <2>3, <2>4 DEF Before
  <1>3. PICK a, b \in Seq(Ids) :
          /\ s = a \o b /\ InsertByLevel(s, lv, r) = (a \o <<r>>) \o b
          /\ \A x \in ToSet(a) : lv[x] <= lv[r]
          /\ \A x \in ToSet(b) : lv[r] < lv[x]
    BY <1>1, <1>2, InsertByLevelSplits
  <1>4. ToSet(a) \cup ToSet(b) = R
    BY <1>1, <1>3, ConcatElements
  <1>5. a \in Seq(R) /\ b \in Seq(R)
    <2>1. \A i \in DOMAIN a : a[i] \in R
      BY <1>4 DEF ToSet
    <2>2. \A i \in DOMAIN b : b[i] \in R
      BY <1>4 DEF ToSet
    <2> QED
      BY <2>1, <2>2
  <1>6. L[r].level \in Int /\ L[r].order \in Int
    BY DEF Keys
  <1>7. \A x \in R : /\ L[x] = K[x] /\ L[x].level \in Int /\ L[x].order \in Int
                     /\ x \in Ids
    BY DEF Keys
  <1>8. ASSUME NEW x \in ToSet(a)
        PROVE  Before(L[x], L[r])
    <2>1. x \in R /\ lv[x] <= lv[r]
      BY <1>3, <1>4, <1>8
    <2>2. lv[x] = L[x].level /\ lv[r] = L[r].level
      BY <1>7, <2>1
    <2>3. L[x].order < L[r].order
      BY <1>7, <2>1
    <2> QED
      BY <1>6, <1>7, <2>1, <2>2, <2>3 DEF Before
  <1>9. ASSUME NEW x \in ToSet(b)
        PROVE  Before(L[r], L[x])
    BY <1>3, <1>4, <1>6, <1>7 DEF Before
  <1>10. Enumerates((a \o <<r>>) \o b, R \cup {r}, L)
    <2>1. s = a \o b
      BY <1>3
    <2> QED
      BY <1>5, <1>8, <1>9, <2>1, EnumeratesMore
  <1> QED
    BY <1>3, <1>10

\* prepend_request: the best level and an order before all others is the front.
LEMMA EnumeratesPrepend ==
    ASSUME NEW K \in Keys, NEW R \in SUBSET Ids, NEW s, Enumerates(s, R, K),
           NEW r \in Ids, r \notin R, NEW L \in Keys, \A x \in Ids : x # r => L[x] = K[x],
           L[r].level = 0, \A x \in R : L[r].order < K[x].order
    PROVE  Enumerates(<<r>> \o s, R \cup {r}, L)
  <1>1. s \in Seq(R) /\ ToSet(s) = R
    BY DEF Enumerates
  <1>2. <<>> \in Seq(R) /\ s = <<>> \o s /\ (<<>> \o <<r>>) \o s = <<r>> \o s
    BY <1>1
  <1>3. ToSet(<<>>) = {}
    BY DEF ToSet
  <1>4. ASSUME NEW x \in ToSet(s)
        PROVE  Before(L[r], L[x])
    <2>1. x \in R /\ L[x] = K[x]
      BY <1>1
    <2>2. L[x].level \in Nat /\ L[x].order \in Int /\ L[r].order \in Int
      BY <2>1 DEF Keys
    <2> QED
      BY <2>1, <2>2 DEF Before
  <1>5. Enumerates((<<>> \o <<r>>) \o s, R \cup {r}, L)
    BY <1>1, <1>2, <1>3, <1>4, EnumeratesMore
  <1> QED
    BY <1>2, <1>5

-----------------------------------------------------------------------------
(* The heap with lazy deletion implements the ordered queue. *)

\* The levels of the queued requests, the abstract queue's other variable.
LevelsOf(K) == [x \in Ids |-> K[x].level]

\* What the lemmas below take from the invariant.
LEMMA QueueFacts ==
    ASSUME IInv
    PROVE  /\ key \in Keys /\ requests \in SUBSET Ids
           /\ Iter = IterOf(requests, key) /\ Iter' = IterOf(requests', key')
           /\ \A x \in requests : key[x].order \in prependSeq..seq
           /\ Iter \in Seq(requests) /\ ToSet(Iter) = requests
  <1>1. key \in Keys /\ requests \in SUBSET Ids
    BY DEF IInv, HeapInv, TypeOK, Keys
  <1>2. Iter = IterOf(requests, key) /\ Iter' = IterOf(requests', key')
    BY DEF Iter, IterOf
  <1>3. \A x \in requests : key[x].order \in prependSeq..seq
    BY DEF IInv, HeapInv, EveryRequestReachable, OrdersInRange
  <1>4. Iter \in Seq(requests) /\ ToSet(Iter) = requests
    BY DEF IInv, Enumerates
  <1> QED
    BY <1>1, <1>2, <1>3, <1>4

\* The list that enumerates the queue after a step is __iter__ after it.
LEMMA IterAfter ==
    ASSUME NEW s, key' \in Keys, requests' \in SUBSET Ids, Enumerates(s, requests', key')
    PROVE  /\ Iter' = s /\ IsFiniteSet(requests')
           /\ Enumerates(Iter, requests, key)'
  <1> DEFINE K == key'
             R == requests'
  <1>1. K \in Keys /\ R \in SUBSET Ids /\ Enumerates(s, R, K)
    OBVIOUS
  <1>2. Iter' = IterOf(R, K)
    BY DEF Iter, IterOf
  <1> HIDE DEF K, R
  <1>3. IterOf(R, K) = s /\ IsFiniteSet(R)
    BY <1>1, IterIs
  <1>4. Iter' = s
    BY <1>2, <1>3
  <1>5. IsFiniteSet(requests') /\ Enumerates(Iter', requests', key')
    BY <1>1, <1>3, <1>4 DEF K, R
  <1> QED
    BY <1>4, <1>5 DEF Enumerates, Before

\* What peek_request and pop_request find is the first request of __iter__: an old
\* entry of a request that came back is behind its current one, so that the order of
\* the entries that are left is the order of the keys.
LEMMA TopIsHead ==
    ASSUME IInv, requests # {}
    PROVE  Top \in Purged /\ Top.id = Head(Iter) /\ Head(Iter) \in requests
  <1> DEFINE h == Head(Iter)
  <1>1. HeapInv /\ TypeOK /\ key \in Keys /\ requests \in SUBSET Ids
    BY QueueFacts DEF IInv, HeapInv
  <1>2. h \in requests /\ \A x \in requests : x # h => Before(key[h], key[x])
    BY <1>1, EnumeratesTail DEF IInv
  <1> HIDE DEF h
  <1>3. PICK e \in heap : /\ e.id = h /\ Valid(e)
                          /\ e.level = key[h].level /\ e.order = key[h].order
    BY <1>1, <1>2 DEF HeapInv, EveryRequestReachable
  <1>4. e \in Purged
    BY <1>1, <1>3, PurgedProperties
  <1>5. Top \in Purged /\ AtOrBefore(Top, e) /\ Top \in heap
    BY <1>1, <1>4, TopIsLeast, PurgedProperties
  <1>6. PICK v \in heap : Valid(v) /\ AtOrBefore(v, Top)
    BY <1>5 DEF Purged
  <1>7. \A f \in heap : f.level \in Int /\ f.order \in Int
    BY <1>1 DEF TypeOK
  <1>8. \A x \in requests : key[x].level \in Int /\ key[x].order \in Int
    BY <1>1 DEF Keys
  <1>9. v.id \in requests /\ AtOrBefore(key[v.id], v)
    BY <1>6 DEF IInv, StaleBehindKey, Valid
  <1>10. AtOrBefore(key[h], key[v.id])
    BY <1>2, <1>8, <1>9 DEF AtOrBefore
  <1>11. AtOrBefore(e, key[v.id])
    BY <1>3, <1>10 DEF AtOrBefore, Before
  <1>12. AtOrBefore(e, v)
    BY <1>3, <1>7, <1>8, <1>9, <1>11, OrderTotal
  <1>13. AtOrBefore(e, Top)
    BY <1>3, <1>5, <1>6, <1>7, <1>12, OrderTotal
  <1>14. e.order = Top.order
    BY <1>3, <1>5, <1>7, <1>13 DEF AtOrBefore, Before
  <1>15. e = Top
    BY <1>3, <1>5, <1>14 DEF IInv, OrdersUnique
  <1> QED
    BY <1>2, <1>3, <1>5, <1>15 DEF h

\* What the invariant says of the heap's orders.
OrderInv == OrdersInRange /\ OrdersUnique /\ StaleBehindKey /\ HeapSeen

\* Taking entries and requests out disturbs no order.
LEMMA OrdersKept ==
    ASSUME IInv, heap' \subseteq heap, requests' \subseteq requests,
           \A x \in requests' : key'[x] = key[x], UNCHANGED <<seq, prependSeq, seen>>
    PROVE  OrderInv'
  <1>1. OrdersInRange'
    BY DEF IInv, OrdersInRange
  <1>2. OrdersUnique'
    BY DEF IInv, OrdersUnique
  <1>3. StaleBehindKey'
    <2> SUFFICES ASSUME NEW e \in heap', e.id \in requests'
                 PROVE  AtOrBefore(key'[e.id], e)
      BY DEF StaleBehindKey, AtOrBefore, Before
    <2>1. AtOrBefore(key[e.id], e)
      BY DEF IInv, StaleBehindKey
    <2> QED
      BY <2>1
  <1>4. HeapSeen'
    BY DEF IInv, HeapSeen
  <1> QED
    BY <1>1, <1>2, <1>3, <1>4 DEF OrderInv

\* A push with a new order does not either, when the request's old entries, if it
\* left any, are behind the new one.
LEMMA OrdersPushed ==
    ASSUME IInv, NEW r \in Ids, r \notin requests, NEW l \in Nat, NEW o \in Int,
           Push(r, l, o), seq' \in Int, prependSeq' \in Int,
           prependSeq' <= prependSeq, seq <= seq', o \in prependSeq'..seq',
           o \notin prependSeq..seq, seen \subseteq seen', r \in seen',
           \A e \in heap : e.id = r => l < e.level \/ (l = e.level /\ o < e.order)
    PROVE  OrderInv'
  <1> DEFINE new == [level |-> l, order |-> o, id |-> r, version |-> version[r] + 1]
             mine == [level |-> l, order |-> o]
  <1>0. TypeOK
    BY DEF IInv, HeapInv
  <1>1. heap' = heap \cup {new} /\ requests' = requests \cup {r}
    BY DEF Push
  <1>2. /\ key'[r] = mine
        /\ \A x \in requests : key'[x] = key[x]
    BY <1>0 DEF Push, TypeOK
  <1>3. new.level = l /\ new.order = o /\ new.id = r /\ mine.level = l /\ mine.order = o
    OBVIOUS
  <1> HIDE DEF new, mine
  <1>4. \A e \in heap : e.order \in prependSeq..seq /\ e.order \in Int /\ e.level \in Int
    BY <1>0 DEF IInv, OrdersInRange, TypeOK
  <1>5. seq \in Int /\ prependSeq \in Int /\ prependSeq <= 0
    BY <1>0 DEF TypeOK, IInv, OrdersInRange
  <1>6. OrdersInRange'
    <2>1. \A e \in heap : e.order \in prependSeq'..seq'
      BY <1>4, <1>5
    <2> QED
      BY <1>1, <1>3, <1>5, <2>1 DEF OrdersInRange
  <1>7. OrdersUnique'
    <2>1. \A e, f \in heap : e.order = f.order => e = f
      BY DEF IInv, OrdersUnique
    <2>2. \A e \in heap : e.order # new.order
      BY <1>3, <1>4
    <2>3. \A e, f \in heap \cup {new} : e.order = f.order => e = f
      BY <2>1, <2>2
    <2> QED
      BY <1>1, <2>3 DEF OrdersUnique
  <1>8. StaleBehindKey'
    <2> SUFFICES ASSUME NEW e \in heap', e.id \in requests'
                 PROVE  AtOrBefore(key'[e.id], e)
      BY DEF StaleBehindKey, AtOrBefore, Before
    <2>1. CASE e = new
      BY <1>2, <1>3, <2>1 DEF AtOrBefore
    <2>2. CASE e \in heap /\ e.id = r
      BY <1>2, <1>3, <2>2 DEF AtOrBefore, Before
    <2>3. CASE e \in heap /\ e.id # r
      <3>1. e.id \in requests
        BY <1>1, <2>3
      <3>2. AtOrBefore(key[e.id], e)
        BY <2>3, <3>1 DEF IInv, StaleBehindKey
      <3> QED
        BY <1>2, <3>1, <3>2
    <2> QED
      BY <1>1, <2>1, <2>2, <2>3
  <1>9. HeapSeen'
    <2>1. requests \subseteq seen /\ \A e \in heap : e.id \in seen
      BY DEF IInv, HeapSeen
    <2> QED
      BY <1>1, <1>3, <2>1 DEF HeapSeen
  <1> QED
    BY <1>6, <1>7, <1>8, <1>9 DEF OrderInv

\* The whole invariant after a step, from its parts.
LEMMA IInvAfter ==
    ASSUME HeapInv', OrderInv', NEW s, Enumerates(s, requests', key')
    PROVE  IInv' /\ Iter' = s
  <1>1. key' \in Keys /\ requests' \in SUBSET Ids
    BY DEF HeapInv, TypeOK, Keys
  <1>2. Iter' = s /\ IsFiniteSet(requests') /\ Enumerates(Iter, requests, key)'
    BY <1>1, IterAfter
  <1> QED
    BY <1>2 DEF IInv, OrderInv

\* The operations of the abstract queue are those of QueueOrder.
LEMMA SameOperations ==
    ASSUME NEW s, NEW r, NEW lv
    PROVE  /\ Queue!InsertByLevel(s, lv, r) = InsertByLevel(s, lv, r)
           /\ Queue!Without(s, r) = Without(s, r)
           /\ Queue!Contains(s, r) = Contains(s, r)
  <1>1. Queue!InsertPoint(s, lv, r) = InsertPoint(s, lv, r)
    BY DEF Queue!InsertPoint, InsertPoint, Queue!Cardinality, Cardinality,
           Queue!IsFiniteSet, IsFiniteSet
  <1>2. \A i, x : Queue!InsertAt(s, i, x) = InsertAt(s, i, x)
    BY DEF Queue!InsertAt, InsertAt
  <1>3. \A i : Queue!RemoveAt(s, i) = RemoveAt(s, i)
    BY DEF Queue!RemoveAt, RemoveAt
  <1>4. Queue!Contains(s, r) = Contains(s, r)
    BY DEF Queue!Contains, Contains
  <1>5. Queue!Position(s, r) = Position(s, r)
    BY DEF Queue!Position, Position
  <1> QED
    BY <1>1, <1>2, <1>3, <1>4, <1>5
    DEF Queue!InsertByLevel, InsertByLevel, Queue!Without, Without

\* add_request adds in the order of the levels.
LEMMA AddStep ==
    ASSUME ~ReuseIds, IInv, HeapInv', NEW r \in Ids, AddRequest(r)
    PROVE  IInv' /\ Queue!Add(r)
  <1> DEFINE lv == LevelsOf(key')
             t  == InsertByLevel(Iter, lv, r)
  <1>1. /\ r \notin requests /\ r \notin seen /\ Push(r, LevelOf[r], seq + 1)
        /\ seq' = seq + 1 /\ seen' = seen \cup {r} /\ UNCHANGED <<prependSeq, out>>
    BY DEF AddRequest
  <1>2. TypeOK /\ LevelOf[r] \in Nat /\ seq \in Nat /\ prependSeq \in Int /\ prependSeq <= 0
    BY QueueAssumption DEF IInv, HeapInv, TypeOK, OrdersInRange
  <1>3. \A e \in heap : e.id # r
    BY <1>1 DEF IInv, HeapSeen
  <1>4. OrderInv'
    <2>1. /\ seq + 1 \in Int /\ seq' \in Int /\ prependSeq' \in Int
          /\ prependSeq' <= prependSeq /\ seq <= seq'
          /\ seq + 1 \in prependSeq'..seq' /\ seq + 1 \notin prependSeq..seq
      BY <1>1, <1>2
    <2> QED
      BY <1>1, <1>2, <1>3, <2>1, OrdersPushed
  <1>5. /\ key \in Keys /\ requests \in SUBSET Ids
        /\ \A x \in requests : key[x].order \in prependSeq..seq
        /\ Iter \in Seq(requests) /\ ToSet(Iter) = requests
    BY QueueFacts
  <1>6. /\ key' \in Keys /\ \A x \in Ids : x # r => key'[x] = key[x]
        /\ key'[r] = [level |-> LevelOf[r], order |-> seq + 1]
        /\ requests' = requests \cup {r}
    BY <1>1, <1>2, <1>5 DEF Push, Keys
  <1>7. lv \in [Ids -> Int] /\ \A x \in Ids : lv[x] = key'[x].level
    BY <1>6 DEF LevelsOf, Keys
  <1>8. \A x \in requests : key[x].order < key'[r].order
    BY <1>2, <1>5, <1>6
  <1> HIDE DEF lv
  <1>9. Enumerates(t, requests', key')
    <2>1. Enumerates(Iter, requests, key)
      BY DEF IInv
    <2>2. Enumerates(t, requests \cup {r}, key')
      BY <1>1, <1>5, <1>6, <1>7, <1>8, <2>1, EnumeratesInsert
    <2> QED
      BY <1>6, <2>2
  <1>10. IInv' /\ Iter' = t
    BY <1>4, <1>9, IInvAfter
  <1>11. ~Contains(Iter, r)
    BY <1>1, <1>5 DEF Contains, ToSet
  <1>12. LevelsOf(key') = [LevelsOf(key) EXCEPT ![r] = LevelOf[r]]
    <2>1. key'[r].level = LevelOf[r]
      BY <1>6
    <2> QED
      BY <1>6, <2>1 DEF LevelsOf
  <1> QED
    BY <1>1, <1>10, <1>11, <1>12, SameOperations DEF Queue!Add, LevelsOf, lv

\* prepend_request adds at the front.
LEMMA PrependStep ==
    ASSUME IInv, HeapInv', NEW r \in Ids, PrependRequest(r)
    PROVE  IInv' /\ Queue!Prepend(r)
  <1> DEFINE t == <<r>> \o Iter
  <1>1. /\ r \notin requests /\ r \in seen /\ Push(r, 0, prependSeq - 1)
        /\ prependSeq' = prependSeq - 1 /\ UNCHANGED <<seq, out, seen>>
    BY DEF PrependRequest
  <1>2. TypeOK /\ seq \in Nat /\ prependSeq \in Int /\ prependSeq <= 0
    BY DEF IInv, HeapInv, TypeOK, OrdersInRange
  <1>3. ASSUME NEW e \in heap
        PROVE  0 < e.level \/ (0 = e.level /\ prependSeq - 1 < e.order)
    <2>1. e.level \in Nat /\ e.order \in prependSeq..seq
      BY <1>2 DEF TypeOK, IInv, OrdersInRange
    <2> QED
      BY <1>2, <2>1
  <1>4. OrderInv'
    <2>1. /\ prependSeq - 1 \in Int /\ seq' \in Int /\ prependSeq' \in Int /\ 0 \in Nat
          /\ prependSeq' <= prependSeq /\ seq <= seq'
          /\ prependSeq - 1 \in prependSeq'..seq' /\ prependSeq - 1 \notin prependSeq..seq
      BY <1>1, <1>2
    <2> QED
      BY <1>1, <1>3, <2>1, OrdersPushed
  <1>5. /\ key \in Keys /\ requests \in SUBSET Ids
        /\ \A x \in requests : key[x].order \in prependSeq..seq
        /\ Iter \in Seq(requests) /\ ToSet(Iter) = requests
    BY QueueFacts
  <1>6. /\ key' \in Keys /\ \A x \in Ids : x # r => key'[x] = key[x]
        /\ key'[r] = [level |-> 0, order |-> prependSeq - 1]
        /\ requests' = requests \cup {r}
    BY <1>1, <1>2, <1>5 DEF Push, Keys
  <1>7. key'[r].level = 0 /\ \A x \in requests : key'[r].order < key[x].order
    BY <1>2, <1>5, <1>6
  <1>8. Enumerates(t, requests', key')
    <2>1. Enumerates(Iter, requests, key)
      BY DEF IInv
    <2>2. Enumerates(t, requests \cup {r}, key')
      BY <1>1, <1>5, <1>6, <1>7, <2>1, EnumeratesPrepend
    <2> QED
      BY <1>6, <2>2
  <1>9. IInv' /\ Iter' = t
    BY <1>4, <1>8, IInvAfter
  <1>10. ~Contains(Iter, r)
    BY <1>1, <1>5 DEF Contains, ToSet
  <1>11. LevelsOf(key') = [LevelsOf(key) EXCEPT ![r] = 0]
    BY <1>6, <1>7 DEF LevelsOf
  <1> QED
    BY <1>1, <1>9, <1>10, <1>11, SameOperations DEF Queue!Prepend, LevelsOf

\* remove_request forgets one request, and the list is the same without it.
LEMMA RemoveStep ==
    ASSUME IInv, HeapInv', NEW r \in Ids, RemoveRequest(r)
    PROVE  IInv' /\ Queue!Drop(r)
  <1>1. Forget(r) /\ UNCHANGED <<heap, seq, prependSeq, out, seen>>
    BY DEF RemoveRequest
  <1>2. key \in Keys /\ requests \in SUBSET Ids
    BY QueueFacts
  <1>3. /\ key' \in Keys /\ \A x \in Ids : x # r => key'[x] = key[x]
        /\ key'[r].level = 0 /\ requests' = requests \ {r}
    BY <1>1, <1>2 DEF Forget, Keys, NoKey
  <1>4. OrderInv'
    BY <1>1, <1>2, <1>3, OrdersKept
  <1>5. Enumerates(Without(Iter, r), requests', key')
    <2>1. Enumerates(Iter, requests, key)
      BY DEF IInv
    <2>2. Enumerates(Without(Iter, r), requests \ {r}, key')
      BY <1>2, <1>3, <2>1, EnumeratesWithout
    <2> QED
      BY <1>3, <2>2
  <1>6. IInv' /\ Iter' = Without(Iter, r)
    BY <1>4, <1>5, IInvAfter
  <1>7. LevelsOf(key') = [LevelsOf(key) EXCEPT ![r] = 0]
    BY <1>3 DEF LevelsOf
  <1> QED
    BY <1>1, <1>6, <1>7, SameOperations DEF Queue!Drop, LevelsOf

\* peek_request returns the first request of the list and changes nothing but the
\* stale entries on top.
LEMMA PeekStep ==
    ASSUME IInv, HeapInv', PeekRequest
    PROVE  IInv' /\ Queue!Peek
  <1>1. /\ requests # {} /\ heap' = Purged /\ out' = Top.id
        /\ UNCHANGED <<requests, version, key, seq, prependSeq, seen>>
    BY DEF PeekRequest
  <1>2. Purged \subseteq heap /\ Top.id = Head(Iter)
    BY <1>1, PurgedProperties, TopIsHead DEF IInv
  <1>3. OrderInv'
    BY <1>1, <1>2, OrdersKept
  <1>4. Enumerates(Iter, requests', key')
    BY <1>1 DEF IInv
  <1>5. IInv' /\ Iter' = Iter
    BY <1>3, <1>4, IInvAfter
  <1>6. Iter # <<>>
    BY <1>1, QueueFacts, EnumeratesTail DEF IInv
  <1> QED
    BY <1>1, <1>2, <1>5, <1>6 DEF Queue!Peek

\* pop_request takes the first request of the list.
LEMMA PopStep ==
    ASSUME IInv, HeapInv', PopRequest
    PROVE  IInv' /\ Queue!Pop
  <1> DEFINE h == Head(Iter)
  <1>1. /\ requests # {} /\ heap' = Purged \ {Top} /\ out' = Top.id /\ Forget(Top.id)
        /\ UNCHANGED <<seq, prependSeq, seen>>
    BY DEF PopRequest
  <1>2. Purged \subseteq heap /\ Top.id = h /\ h \in requests
    BY <1>1, PurgedProperties, TopIsHead DEF IInv
  <1>3. key \in Keys /\ requests \in SUBSET Ids /\ h \in Ids
    BY <1>2, QueueFacts
  <1>4. /\ key' \in Keys /\ \A x \in Ids : x # h => key'[x] = key[x]
        /\ key'[h].level = 0 /\ requests' = requests \ {h}
    BY <1>1, <1>2, <1>3 DEF Forget, Keys, NoKey
  <1>5. OrderInv'
    BY <1>1, <1>2, <1>3, <1>4, OrdersKept
  <1>6. Enumerates(Iter, requests, key)
    BY DEF IInv
  <1>7. Iter # <<>> /\ Enumerates(Tail(Iter), requests', key')
    BY <1>1, <1>3, <1>4, <1>6, EnumeratesTail
  <1>8. IInv' /\ Iter' = Tail(Iter)
    BY <1>5, <1>7, IInvAfter
  <1>9. LevelsOf(key') = [LevelsOf(key) EXCEPT ![h] = 0]
    BY <1>3, <1>4 DEF LevelsOf
  <1> QED
    BY <1>1, <1>2, <1>7, <1>8, <1>9 DEF Queue!Pop, LevelsOf

\* Every step of the heap is a step of the ordered queue, or none.
LEMMA QueueStep ==
    ASSUME ~ReuseIds, IInv, [Next]_vars
    PROVE  IInv' /\ [Queue!Next]_(Queue!qvars)
  <1>0. HeapInv'
    BY HeapInvariance DEF IInv
  <1>1. ASSUME NEW r \in Ids, AddRequest(r)
        PROVE  IInv' /\ Queue!Next
    BY <1>0, <1>1, AddStep DEF Queue!Next
  <1>2. ASSUME NEW r \in Ids, PrependRequest(r)
        PROVE  IInv' /\ Queue!Next
    BY <1>0, <1>2, PrependStep DEF Queue!Next
  <1>3. ASSUME NEW r \in Ids, RemoveRequest(r)
        PROVE  IInv' /\ Queue!Next
    BY <1>0, <1>3, RemoveStep DEF Queue!Next
  <1>4. ASSUME PeekRequest
        PROVE  IInv' /\ Queue!Next
    BY <1>0, <1>4, PeekStep DEF Queue!Next
  <1>5. ASSUME PopRequest
        PROVE  IInv' /\ Queue!Next
    BY <1>0, <1>5, PopStep DEF Queue!Next
  <1>6. ASSUME UNCHANGED vars
        PROVE  IInv' /\ UNCHANGED Queue!qvars
    <2>1. Enumerates(Iter, requests', key')
      BY <1>6 DEF vars, IInv
    <2>2. OrderInv'
      BY <1>6, OrdersKept DEF vars
    <2>3. IInv' /\ Iter' = Iter
      BY <1>0, <2>1, <2>2, IInvAfter
    <2> QED
      BY <1>6, <2>3 DEF vars, Queue!qvars
  <1> QED
    BY <1>1, <1>2, <1>3, <1>4, <1>5, <1>6 DEF Next

\* The empty heap is the empty queue.
LEMMA QueueInit == Init => IInv /\ Queue!Init
  <1> SUFFICES ASSUME Init
               PROVE  IInv /\ Queue!Init
    OBVIOUS
  <1>1. HeapInv
    BY HeapInit
  <1>2. requests = {} /\ heap = {} /\ key \in Keys /\ out = None
    BY DEF Init, Keys, NoKey
  <1>3. OrderInv
    BY DEF Init, OrderInv, OrdersInRange, OrdersUnique, StaleBehindKey, HeapSeen
  <1>4. Enumerates(<<>>, requests, key)
    BY <1>2 DEF Enumerates, ToSet
  <1>5. IterOf(requests, key) = <<>> /\ IsFiniteSet(requests)
    BY <1>2, <1>4, IterIs
  <1>6. Iter = <<>>
    BY <1>5 DEF Iter, IterOf
  <1>7. [x \in Ids |-> key[x].level] = [x \in Ids |-> 0]
    BY DEF Init, NoKey
  <1> QED
    BY <1>1, <1>2, <1>3, <1>4, <1>5, <1>6, <1>7
    DEF IInv, OrderInv, Queue!Init, Queue!None, None

\* As long as add_request never sees an id again that has been in the queue, the
\* binary heap with lazy deletion, versions and two counters is a list in level
\* order: whatever the requests, their levels and the removals in between, every
\* peek and pop returns the first of the list.
THEOREM QueueRefined ==
    ASSUME ~ReuseIds
    PROVE  Spec => ImplementsQueue
  <1>1. Init => IInv /\ Queue!Init
    BY QueueInit
  <1>2. IInv /\ [Next]_vars => IInv' /\ [Queue!Next]_(Queue!qvars)
    BY QueueStep
  <1> QED
    BY <1>1, <1>2, PTL DEF Spec, ImplementsQueue, Queue!Spec

-----------------------------------------------------------------------------
(* The Autellix policy *)

\* schedule() is filling the batch.
Building == pc \in {"running", "alloc", "waiting", "commit"}

\* The requests in the queue of the policy in force.
Waits == IF policy = "FCFS" THEN ToSet(line) ELSE UNION {ToSet(queues[l]) : l \in Levels}

RequestTypes ==
    /\ status \in [Requests -> {"new", "waiting", "running", "preempted", "finished"}]
    /\ arrived \in Seq(Requests) /\ running \in Seq(Requests)
    /\ tokens \in [Requests -> Nat] /\ computed \in [Requests -> Nat]
    /\ blocks \in [Requests -> Nat]

WaitingTypes ==
    /\ policy \in {"AUTELLIX", "FCFS"}
    /\ queues \in [Levels -> Seq(Requests)]
    /\ line \in Seq(Requests)

FeedbackTypes ==
    /\ level \in [Requests -> Levels] /\ quanta \in [Requests -> Nat]
    /\ waited \in [Requests -> Nat] /\ served \in [Requests -> Nat]
    /\ atArrival \in [Requests -> Nat]
    /\ \A r \in Requests : quanta[r] <= QuantumOf(level[r])

ProgramTypes ==
    /\ service \in [Jobs -> Nat] /\ programWait \in [Jobs -> Nat]
    /\ finishedJobs \subseteq Jobs

StepTypes ==
    /\ unreported \in BOOLEAN /\ preempted \in BOOLEAN
    /\ pc \in {"input", "running", "alloc", "waiting", "commit", "output"}
    /\ index \in Nat \ {0} /\ current \in Requests \cup {Nobody}
    /\ budget \in 0..MaxBatch
    /\ num \in [Requests -> 0..MaxBatch] /\ batch \in Seq(Requests)

\* A deque holds the requests of its level, each once, and the index knows them;
\* under FCFS the deques are empty.
DequesFit ==
    /\ policy = "AUTELLIX" =>
          \A l \in Levels : \A r \in ToSet(queues[l]) :
              level[r] = l /\ r \in DOMAIN where /\ where[r] = l
    /\ policy = "FCFS" => \A l \in Levels : queues[l] = <<>>
    /\ DOMAIN where = UNION {ToSet(queues[l]) : l \in Levels}
    /\ \A l \in Levels : IsInjective(queues[l])
    /\ IsInjective(line)

\* The status of a request says in which of the lists it is.
StatusFits ==
    /\ \A r \in Requests :
          /\ status[r] \in {"waiting", "preempted"} <=> r \in Waits
          /\ status[r] = "running" <=> r \in ToSet(running)
          /\ status[r] # "new" <=> r \in ToSet(arrived)
    /\ IsInjective(running) /\ IsInjective(arrived)

\* Requests that run have the blocks of what the step will have computed.
PoolFits ==
    /\ \A r \in Requests : IF status[r] = "running" THEN blocks[r] >= BlocksFor(computed[r] + num[r])
                                                    ELSE blocks[r] = 0
    /\ FreeBlocks >= 0

\* A request that has not stopped has tokens to compute, unless its output is due.
TokensFit ==
    \A r \in Requests :
        /\ tokens[r] >= Prompt[r] /\ tokens[r] <= Total[r]
        /\ status[r] # "finished" => tokens[r] < Total[r]
        /\ status[r] \in {"new", "waiting", "preempted"} => computed[r] = 0
        /\ computed[r] + num[r] <= tokens[r]
        /\ status[r] = "running" => computed[r] < tokens[r] \/ (pc = "output" /\ r \in ToSet(batch))

\* The batch is of running requests, and what it lacks of the budget is left.
BatchFits ==
    /\ ToSet(batch) \subseteq ToSet(running) /\ IsInjective(batch)
    /\ Building => ToSet(batch) = {r \in Requests : num[r] > 0} /\ budget + TotalScheduled = MaxBatch
    /\ ~Building => \A r \in Requests : num[r] = 0
    /\ pc = "input" => batch = <<>>

\* The RUNNING loop has not scheduled whom it has not reached.
CursorFits ==
    /\ pc \in {"running", "alloc"} =>
          \A i \in DOMAIN running : i >= index => running[i] \notin ToSet(batch)
    /\ pc = "alloc" => index \in DOMAIN running /\ current = running[index] /\ budget > 0

\* The steps of a program follow each other.
StepsFollow ==
    \A r \in Requests : status[r] # "new" =>
        /\ Previous[r] # Nobody => status[Previous[r]] = "finished"
        /\ r \in LastSteps => \A s \in Requests \ {r} : Job[s] = Job[r] => status[s] = "finished"

\* A program is charged for its finished steps until its last one is over.
ServiceKept ==
    policy = "AUTELLIX" =>
        /\ \A p \in Requests \ LastSteps : status[p] = "finished" =>
              \/ service[Job[p]] >= atArrival[p] + served[p]
              \/ \E q \in LastSteps : Job[q] = Job[p] /\ status[q] = "finished"
        /\ \A r \in Requests : status[r] # "new" /\ Previous[r] \notin LastSteps \cup {Nobody} =>
              atArrival[r] >= atArrival[Previous[r]] + served[Previous[r]]

\* The tokens tried for the request in hand are due, left of the budget and of
\* its quantum.
AttemptFits ==
    /\ attempt \in 0..MaxBatch
    /\ pc = "alloc" => /\ attempt \in 1..budget
                       /\ computed[current] + attempt <= tokens[current]
                       /\ policy # "FCFS" => attempt <= Quantum(current)

\* The inductive invariant is PolicyInv /\ AttemptFits.
PolicyInv ==
    /\ RequestTypes /\ WaitingTypes /\ FeedbackTypes /\ ProgramTypes /\ StepTypes
    /\ DequesFit /\ StatusFits /\ PoolFits /\ TokensFit /\ BatchFits /\ CursorFits
    /\ StepsFollow /\ ServiceKept

\* Levels count from 1, and each has a quantum that fits a step.
LEMMA LevelFacts ==
    /\ Len(Quanta) \in Nat \ {0} /\ 1 \in Levels /\ Len(Quanta) \in Levels
    /\ \A l \in Levels : /\ l \in Nat \ {0} /\ l <= Len(Quanta)
                         /\ NextLevel(l) \in Levels
                         /\ QuantumOf(l) \in 1..MaxBatch
<1>1. /\ Quanta \in Seq(Nat \ {0}) /\ Thresholds \in Seq(Nat)
      /\ Len(Quanta) = Len(Thresholds) + 1 /\ MaxBatch \in Nat \ {0}
  BY PolicyAssumption
<1>2. Len(Thresholds) \in Nat /\ Len(Quanta) \in Nat \ {0}
  BY <1>1
<1>3. \A l \in Levels : l \in Nat \ {0} /\ l <= Len(Quanta) /\ Quanta[l] \in Nat \ {0}
  BY <1>1, <1>2 DEF Levels
<1>4. ASSUME NEW l \in Levels PROVE NextLevel(l) \in Levels /\ QuantumOf(l) \in 1..MaxBatch
  <2>1. Smallest(l, Len(Quanta)) = l
    BY <1>3 DEF Smallest
  <2>2. QuantumOf(l) \in 1..MaxBatch
    BY <1>1, <1>3, <2>1 DEF QuantumOf, Smallest
  <2>3. NextLevel(l) \in Levels
    BY <1>2, <1>3 DEF NextLevel, Smallest, Levels
  <2> QED
    BY <2>2, <2>3
<1> QED
  BY <1>2, <1>3, <1>4 DEF Levels

\* Finite sets of numbers have a least element.
LEMMA LeastIn ==
    ASSUME NEW A, A \subseteq Levels, A # {}
    PROVE  Min(A) \in A
<1> DEFINE R == {p \in A \X A : p[1] <= p[2]}
<1>1. A \subseteq Nat /\ IsFiniteSet(A)
  <2>1. IsFiniteSet(Levels)
    BY LevelFacts, SegmentCardinality DEF Levels
  <2> QED
    BY <2>1, LevelFacts, FS_Subset
<1>2. \A a, b \in A : <<a, b>> \in R <=> a <= b
  OBVIOUS
<1>3. /\ \A a, b \in A : <<a, b>> \in R \/ <<b, a>> \in R
      /\ \A a, b, c \in A : <<a, b>> \in R /\ <<b, c>> \in R => <<a, c>> \in R
  BY <1>1, <1>2
<1> HIDE DEF R
<1>4. \E a \in A : \A b \in A : <<a, b>> \in R
  BY <1>1, <1>3, LeastElement
<1>5. \E a \in A : \A b \in A : a <= b
  BY <1>2, <1>4
<1> QED
  BY <1>5 DEF Min

\* The level of a service is one of the levels.
LEMMA LevelForServiceType ==
    ASSUME NEW s
    PROVE  LevelForService(s) \in Levels
<1> DEFINE below == {l \in DOMAIN Thresholds : s < Thresholds[l]}
<1>1. below \subseteq Levels
  <2>1. Thresholds \in Seq(Nat) /\ Len(Quanta) = Len(Thresholds) + 1
    BY PolicyAssumption
  <2>2. DOMAIN Thresholds = 1..Len(Thresholds) /\ Len(Thresholds) \in Nat
    BY <2>1
  <2>3. \A l \in DOMAIN Thresholds : l \in Levels
    BY <2>1, <2>2 DEF Levels
  <2> QED
    BY <2>3
<1>2. LevelForService(s) = IF below = {} THEN Len(Quanta) ELSE Min(below)
  BY DEF LevelForService
<1> HIDE DEF below
<1>3. CASE below = {}
  BY <1>2, <1>3, LevelFacts
<1>4. CASE below # {}
  BY <1>1, <1>2, <1>4, LeastIn
<1> QED
  BY <1>3, <1>4

\* g[l] is the first l deques in a row.
Joins(g, qs) == g = [l \in 0..Len(Quanta) |-> IF l = 0 THEN <<>> ELSE g[l - 1] \o qs[l]]

\* The recursion that defines the row.
LEMMA ConcatIsJoined ==
    ASSUME NEW qs
    PROVE  Concat(qs) = (CHOOSE g : Joins(g, qs))[Len(Quanta)]
  BY DEF Concat, Joins

\* That recursion has a solution.
LEMMA JoinsExists ==
    ASSUME NEW qs \in [Levels -> Seq(Requests)]
    PROVE  \E g : g \in [0..Len(Quanta) -> Seq(Requests)] /\ Joins(g, qs)
<1> DEFINE n == Len(Quanta)
           D == Seq(Requests)
           F == [p \in (1..n) \X D |-> p[2] \o qs[p[1]]]
<1>1. n \in Nat /\ <<>> \in D
  BY LevelFacts
<1>2. \A i \in 1..n : qs[i] \in D
  BY DEF Levels
<1>3. \A i \in 1..n, s \in D : F[<<i, s>>] = s \o qs[i]
  OBVIOUS
<1>4. F \in [(1..n) \X D -> D]
  <2>1. \A p \in (1..n) \X D : p[2] \o qs[p[1]] \in D
    BY <1>2
  <2> QED
    BY <2>1
<1>5. PICK g : Recursion(g, <<>>, F, n, D)
  <2> DEFINE c == <<>>
  <2>1. c \in D
    BY <1>1
  <2> HIDE DEF D, F, n, c
  <2>2. \E g : Recursion(g, c, F, n, D)
    BY <1>1, <1>4, <2>1, RecursionExists
  <2> QED
    BY <2>2 DEF c
<1> HIDE DEF F, n
<1>6. g \in [0..n -> D] /\ g[0] = <<>> /\ \A i \in 1..n : g[i] = F[<<i, g[i - 1]>>]
  BY <1>5 DEF Recursion
<1> HIDE DEF D
<1>7. \A i \in 1..n : i - 1 \in 0..n
  BY <1>1
<1>8. \A i \in 1..n : g[i] = g[i - 1] \o qs[i]
  BY <1>3, <1>6, <1>7
<1> DEFINE h == [l \in 0..n |-> IF l = 0 THEN <<>> ELSE g[l - 1] \o qs[l]]
<1>9. \A i \in 0..n : g[i] = h[i]
  <2> SUFFICES ASSUME NEW i \in 0..n PROVE g[i] = h[i]
    OBVIOUS
  <2>1. CASE i = 0
    BY <1>6, <2>1
  <2>2. CASE i # 0
    <3>1. i \in 1..n
      BY <1>1, <2>2
    <3> QED
      BY <1>8, <2>2, <3>1
  <2> QED
    BY <2>1, <2>2
<1>10. g = h
  <2>1. g = [i \in 0..n |-> g[i]] /\ h = [i \in 0..n |-> h[i]]
    BY <1>6
  <2> HIDE DEF h
  <2> QED
    BY <1>9, <2>1
<1> QED
  BY <1>6, <1>10 DEF Joins, n, D

\* The row of the deques has what they have, and nothing twice if they share nothing.
LEMMA ConcatHolds ==
    ASSUME NEW qs \in [Levels -> Seq(Requests)]
    PROVE  /\ Concat(qs) \in Seq(Requests)
           /\ ToSet(Concat(qs)) = UNION {ToSet(qs[l]) : l \in Levels}
           /\ ((\A l \in Levels : IsInjective(qs[l]))
                /\ (\A l, m \in Levels : l # m => ToSet(qs[l]) \cap ToSet(qs[m]) = {}))
              => IsInjective(Concat(qs))
<1> DEFINE n == Len(Quanta)
           g == CHOOSE g : Joins(g, qs)
           apart == /\ \A l \in Levels : IsInjective(qs[l])
                    /\ \A l, m \in Levels : l # m => ToSet(qs[l]) \cap ToSet(qs[m]) = {}
           upTo(k) == UNION {ToSet(qs[l]) : l \in 1..k}
           Good(k) == /\ g[k] \in Seq(Requests) /\ ToSet(g[k]) = upTo(k)
                      /\ apart => IsInjective(g[k])
           G == {k \in 0..n : Good(k)}
<1>1. n \in Nat /\ Levels = 1..n
  BY LevelFacts DEF Levels
<1>2. Joins(g, qs)
  BY JoinsExists
<1> HIDE DEF g
<1>3. g[0] = <<>> /\ \A i \in 1..n : g[i] = g[i - 1] \o qs[i]
  <2>1. \A i \in 0..n : g[i] = IF i = 0 THEN <<>> ELSE g[i - 1] \o qs[i]
    BY <1>2 DEF Joins
  <2>2. 0 \in 0..n /\ \A i \in 1..n : i \in 0..n /\ i # 0
    BY <1>1
  <2> HIDE DEF n
  <2> QED
    BY <2>1, <2>2
<1>4. 0 \in G
  <2>1. upTo(0) = {}
    OBVIOUS
  <2>2. ToSet(<<>>) = {} /\ IsInjective(<<>>) /\ <<>> \in Seq(Requests)
    BY DEF ToSet, IsInjective
  <2>3. Good(0)
    <3> HIDE DEF upTo, apart
    <3> QED
      BY <1>3, <2>1, <2>2
  <2> HIDE DEF Good
  <2> QED
    BY <1>1, <2>3
<1>5. ASSUME NEW k \in 1..n, k - 1 \in G PROVE k \in G
  <2>1. g[k - 1] \in Seq(Requests) /\ ToSet(g[k - 1]) = upTo(k - 1) /\ (apart => IsInjective(g[k - 1]))
    BY <1>5
  <2>2. qs[k] \in Seq(Requests) /\ k \in Levels /\ g[k] = g[k - 1] \o qs[k]
    BY <1>1, <1>3
  <2>3. upTo(k) = upTo(k - 1) \cup ToSet(qs[k])
    <3>1. \A l \in 1..k : l = k \/ l \in 1..(k - 1)
      BY <1>1
    <3>2. k \in 1..k /\ \A l \in 1..(k - 1) : l \in 1..k
      BY <1>1
    <3> QED
      BY <3>1, <3>2
  <2>4. apart => IsInjective(qs[k]) /\ upTo(k - 1) \cap ToSet(qs[k]) = {}
    <3> SUFFICES ASSUME apart PROVE IsInjective(qs[k]) /\ upTo(k - 1) \cap ToSet(qs[k]) = {}
      OBVIOUS
    <3>1. \A l \in 1..(k - 1) : l \in Levels /\ l # k
      BY <1>1
    <3> QED
      BY <2>2, <3>1
  <2> HIDE DEF upTo, apart
  <2>5. /\ g[k] \in Seq(Requests) /\ ToSet(g[k]) = upTo(k)
        /\ apart => IsInjective(g[k])
    BY <2>1, <2>2, <2>3, <2>4, ConcatElements, ConcatProperties
  <2> QED
    BY <1>1, <2>5
<1>6. Good(n)
  <2> HIDE DEF G
  <2>1. \A k \in 0..n : k \in G
    BY <1>1, <1>4, <1>5, SegmentInduction
  <2>2. n \in 0..n
    BY <1>1
  <2> HIDE DEF Good
  <2> QED
    BY <2>1, <2>2 DEF G
<1>7. Concat(qs) = g[n]
  BY ConcatIsJoined DEF g
<1> QED
  BY <1>1, <1>6, <1>7

\* The waiting list holds those that wait, each once.
LEMMA WaitingHolds ==
    ASSUME WaitingTypes, DequesFit
    PROVE  /\ WaitingList \in Seq(Requests) /\ ToSet(WaitingList) = Waits
           /\ IsInjective(WaitingList) /\ Waits \subseteq Requests
           /\ policy = "FCFS" => Concat(queues) = <<>>
<1>1. /\ Concat(queues) \in Seq(Requests)
      /\ ToSet(Concat(queues)) = UNION {ToSet(queues[l]) : l \in Levels}
  BY ConcatHolds DEF WaitingTypes
<1>2. CASE policy = "FCFS"
  <2>1. UNION {ToSet(queues[l]) : l \in Levels} = {}
    BY <1>2 DEF DequesFit, ToSet
  <2>2. Concat(queues) = <<>>
    BY <1>1, <2>1, NothingIn
  <2>3. ToSet(line) \subseteq Requests
    BY ElementsType DEF WaitingTypes
  <2> QED
    BY <1>2, <2>2, <2>3 DEF WaitingList, Waits, WaitingTypes, DequesFit
<1>3. CASE policy = "AUTELLIX"
  <2>1. \A l, m \in Levels : l # m => ToSet(queues[l]) \cap ToSet(queues[m]) = {}
    BY <1>3 DEF DequesFit
  <2>2. IsInjective(Concat(queues))
    BY <2>1, ConcatHolds DEF WaitingTypes, DequesFit
  <2>3. ToSet(Concat(queues)) \subseteq Requests
    BY <1>1, ElementsType
  <2> QED
    BY <1>1, <1>3, <2>2, <2>3 DEF WaitingList, Waits
<1> QED
  BY <1>2, <1>3 DEF WaitingTypes

\* The waiting queue stays as it is as long as nobody in it changes level.
LEMMA QueueStays ==
    ASSUME WaitingTypes, DequesFit, UNCHANGED waiting, \A s \in Waits : level'[s] = level[s]
    PROVE  WaitingTypes' /\ DequesFit' /\ Waits' = Waits /\ WaitingList' = WaitingList
<1>1. policy' = policy /\ queues' = queues /\ where' = where /\ line' = line
  BY DEF waiting
<1>2. WaitingTypes' /\ Waits' = Waits /\ WaitingList' = WaitingList
  BY <1>1 DEF WaitingTypes, Waits, WaitingList, Concat
<1>3. policy = "AUTELLIX" => \A l \in Levels : \A r \in ToSet(queues[l]) : level'[r] = l
  BY DEF DequesFit, Waits
<1> QED
  BY <1>1, <1>2, <1>3 DEF DequesFit

\* A request that enters the deque of its level waits there.
LEMMA Entered ==
    ASSUME WaitingTypes, DequesFit, NEW r \in Requests, r \notin Waits, NEW l \in Levels,
           policy' = policy, \A s \in Requests \ {r} : level'[s] = level[s],
           policy = "AUTELLIX" => level'[r] = l,
           Enqueue(r, l) \/ (l = level[r] /\ Prepend(r))
    PROVE  WaitingTypes' /\ DequesFit' /\ Waits' = Waits \cup {r}
<1>1. CASE policy = "FCFS"
  <2>1. queues' = queues /\ where' = where /\ (line' = Append(line, r) \/ line' = <<r>> \o line)
    BY <1>1 DEF Enqueue, Prepend
  <2>2. line \in Seq(Requests) /\ IsInjective(line) /\ ToSet(line) = Waits
    BY <1>1 DEF WaitingTypes, DequesFit, Waits
  <2>3. line' \in Seq(Requests) /\ ToSet(line') = Waits \cup {r} /\ IsInjective(line')
    <3>1. <<r>> \in Seq(Requests) /\ ToSet(<<r>>) = {r} /\ IsInjective(<<r>>)
      BY SingletonElements
    <3>2. CASE line' = Append(line, r)
      BY <2>2, <3>2, AppendType, AppendElements
    <3>3. CASE line' = <<r>> \o line
      <4>1. ToSet(<<r>>) \cap ToSet(line) = {}
        BY <2>2, <3>1
      <4>2. /\ <<r>> \o line \in Seq(Requests) /\ IsInjective(<<r>> \o line)
            /\ ToSet(<<r>> \o line) = ToSet(<<r>>) \cup ToSet(line)
        BY <2>2, <3>1, <4>1, ConcatElements, ConcatProperties
      <4> QED
        BY <2>2, <3>1, <3>3, <4>2
    <3> QED
      BY <2>1, <3>2, <3>3
  <2> QED
    BY <1>1, <2>1, <2>3 DEF WaitingTypes, DequesFit, Waits
<1>2. CASE policy = "AUTELLIX"
  <2> DEFINE q == queues'[l]
  <2>1. /\ line' = line /\ where' = Map(l, r)
        /\ \/ queues' = [queues EXCEPT ![l] = Append(@, r)]
           \/ queues' = [queues EXCEPT ![l] = <<r>> \o @]
    BY <1>2 DEF Enqueue, Prepend
  <2>2. /\ queues \in [Levels -> Seq(Requests)] /\ queues[l] \in Seq(Requests)
        /\ IsInjective(queues[l]) /\ r \notin ToSet(queues[l])
    BY <1>2 DEF WaitingTypes, DequesFit, Waits
  <2>3. \A m \in Levels \ {l} : queues'[m] = queues[m]
    BY <2>1, <2>2
  <2>4. q \in Seq(Requests) /\ ToSet(q) = ToSet(queues[l]) \cup {r} /\ IsInjective(q)
    <3>1. <<r>> \in Seq(Requests) /\ ToSet(<<r>>) = {r} /\ IsInjective(<<r>>)
      BY SingletonElements
    <3>2. CASE q = Append(queues[l], r)
      <4> HIDE DEF q
      <4> QED
        BY <2>2, <3>2, AppendType, AppendElements
    <3>3. CASE q = <<r>> \o queues[l]
      <4> HIDE DEF q
      <4>1. ToSet(<<r>>) \cap ToSet(queues[l]) = {}
        BY <2>2, <3>1
      <4>2. /\ <<r>> \o queues[l] \in Seq(Requests) /\ IsInjective(<<r>> \o queues[l])
            /\ ToSet(<<r>> \o queues[l]) = ToSet(<<r>>) \cup ToSet(queues[l])
        BY <2>2, <3>1, <4>1, ConcatElements, ConcatProperties
      <4> QED
        BY <3>1, <3>3, <4>2
    <3> QED
      BY <2>1, <2>2, <3>2, <3>3
  <2>5. queues' \in [Levels -> Seq(Requests)]
    <3>1. queues' = [m \in Levels |-> queues'[m]]
      BY <2>1, <2>2
    <3>2. \A m \in Levels : queues'[m] \in Seq(Requests)
      BY <2>2, <2>3, <2>4
    <3> QED
      BY <3>1, <3>2
  <2> HIDE DEF q
  <2>6. UNION {ToSet(queues'[m]) : m \in Levels} = (UNION {ToSet(queues[m]) : m \in Levels}) \cup {r}
    BY <2>3, <2>4 DEF q
  <2>7. /\ DOMAIN where = Waits /\ DOMAIN where' = Waits \cup {r}
        /\ where'[r] = l /\ \A s \in Waits : where'[s] = where[s]
    <3>1. DOMAIN where = Waits
      BY <1>2 DEF DequesFit, Waits
    <3> QED
      BY <2>1, <3>1 DEF Map
  <2>8. \A s \in Waits : s # r /\ s \in Requests /\ level'[s] = level[s]
    BY WaitingHolds
  <2>9. \A m \in Levels : \A s \in ToSet(queues[m]) : s \in Waits
    BY <1>2 DEF Waits
  <2>10. ASSUME NEW m \in Levels, NEW s \in ToSet(queues'[m])
         PROVE  level'[s] = m /\ s \in DOMAIN where' /\ where'[s] = m
    <3>1. CASE s = r
      <4>1. m = l
        BY <2>3, <2>9, <3>1
      <4> QED
        BY <1>2, <2>7, <3>1, <4>1
    <3>2. CASE s # r
      <4>1. s \in ToSet(queues[m])
        BY <2>3, <2>4, <3>2 DEF q
      <4> QED
        BY <1>2, <2>7, <2>8, <2>9, <4>1 DEF DequesFit
    <3> QED
      BY <3>1, <3>2
  <2>11. \A m \in Levels : IsInjective(queues'[m])
    BY <2>3, <2>4 DEF q, DequesFit
  <2>12. Waits' = Waits \cup {r}
    BY <1>2, <2>6 DEF Waits
  <2>13. DequesFit'
    BY <1>2, <2>1, <2>6, <2>7, <2>10, <2>11 DEF DequesFit, Waits
  <2> QED
    BY <2>1, <2>5, <2>12, <2>13 DEF WaitingTypes
<1> QED
  BY <1>1, <1>2 DEF WaitingTypes

\* A request that is taken out leaves the deque of its level.
LEMMA TakenOut ==
    ASSUME WaitingTypes, DequesFit, NEW r \in Waits, policy' = policy,
           \A s \in Requests \ {r} : level'[s] = level[s], TakeOut(r)
    PROVE  WaitingTypes' /\ DequesFit' /\ Waits' = Waits \ {r}
<1>0. Waits \subseteq Requests
  BY WaitingHolds
<1>1. CASE policy = "FCFS"
  <2>1. queues' = queues /\ where' = where /\ line' = Without(line, r)
    BY <1>1 DEF TakeOut
  <2>2. line \in Seq(Requests) /\ IsInjective(line) /\ ToSet(line) = Waits
    BY <1>1 DEF WaitingTypes, DequesFit, Waits
  <2>3. line' \in Seq(Requests) /\ ToSet(line') = Waits \ {r} /\ IsInjective(line')
    BY <2>1, <2>2, WithoutProperties, WithoutElements
  <2> QED
    BY <1>1, <2>1, <2>3 DEF WaitingTypes, DequesFit, Waits
<1>2. CASE policy = "AUTELLIX"
  <2>1. PICK l \in Levels : r \in ToSet(queues[l])
    BY <1>2 DEF Waits
  <2>2. /\ queues \in [Levels -> Seq(Requests)] /\ queues[l] \in Seq(Requests)
        /\ IsInjective(queues[l]) /\ r \in DOMAIN where /\ where[r] = l
    <3>1. queues \in [Levels -> Seq(Requests)] /\ queues[l] \in Seq(Requests)
      BY DEF WaitingTypes
    <3>2. IsInjective(queues[l])
      BY DEF DequesFit
    <3>3. r \in DOMAIN where /\ where[r] = l
      BY <1>2, <2>1 DEF DequesFit
    <3> QED
      BY <3>1, <3>2, <3>3
  <2>3. ASSUME NEW m \in Levels PROVE Contains(queues[m], r) <=> r \in ToSet(queues[m])
    <3>1. queues[m] \in Seq(Requests)
      BY <2>2
    <3>2. DOMAIN queues[m] = 1..Len(queues[m])
      BY <3>1
    <3> QED
      BY <3>2 DEF Contains, ToSet
  <2>4. queues' = [queues EXCEPT ![l] = Without(@, r)] /\ where' = Unmap({r}) /\ line' = line
    <3> DEFINE holders == {m \in Levels : Contains(queues[m], r)}
    <3>1. l \in holders
      BY <2>1, <2>3
    <3>2. /\ line' = line
          /\ \/ holders = {} /\ UNCHANGED <<queues, where>>
             \/ /\ holders # {}
                /\ \E m \in {IF r \in DOMAIN where /\ where[r] \in holders THEN where[r]
                                                                           ELSE Min(holders)} :
                      queues' = [queues EXCEPT ![m] = Without(@, r)]
                /\ where' = Unmap({r})
      BY <1>2 DEF TakeOut
    <3> HIDE DEF holders
    <3> QED
      BY <2>2, <3>1, <3>2
  <2>5. \A m \in Levels \ {l} : queues'[m] = queues[m] /\ r \notin ToSet(queues[m])
    BY <1>2, <2>1, <2>2, <2>4 DEF DequesFit
  <2>6. /\ queues'[l] \in Seq(Requests) /\ ToSet(queues'[l]) = ToSet(queues[l]) \ {r}
        /\ IsInjective(queues'[l])
    <3>1. queues'[l] = Without(queues[l], r)
      BY <2>2, <2>4
    <3> QED
      BY <2>2, <3>1, WithoutProperties, WithoutElements
  <2>7. queues' \in [Levels -> Seq(Requests)]
    <3>1. queues' = [m \in Levels |-> queues'[m]]
      BY <2>2, <2>4
    <3>2. \A m \in Levels : queues'[m] \in Seq(Requests)
      BY <2>2, <2>5, <2>6
    <3> QED
      BY <3>1, <3>2
  <2>8. UNION {ToSet(queues'[m]) : m \in Levels} = (UNION {ToSet(queues[m]) : m \in Levels}) \ {r}
    BY <2>5, <2>6
  <2>9. /\ DOMAIN where = Waits /\ DOMAIN where' = Waits \ {r}
        /\ \A s \in Waits \ {r} : where'[s] = where[s]
    <3>1. DOMAIN where = Waits
      BY <1>2 DEF DequesFit, Waits
    <3> QED
      BY <2>4, <3>1 DEF Unmap
  <2>10. ASSUME NEW m \in Levels, NEW s \in ToSet(queues'[m])
         PROVE  level'[s] = m /\ s \in DOMAIN where' /\ where'[s] = m
    <3>1. s \in ToSet(queues[m]) /\ s # r
      BY <2>5, <2>6
    <3>2. s \in Waits /\ s \in Requests
      BY <1>0, <1>2, <3>1 DEF Waits
    <3> QED
      BY <1>2, <2>9, <3>1, <3>2 DEF DequesFit
  <2>11. \A m \in Levels : IsInjective(queues'[m])
    BY <2>5, <2>6 DEF DequesFit
  <2>12. Waits' = Waits \ {r}
    BY <1>2, <2>8 DEF Waits
  <2>13. DequesFit'
    BY <1>2, <2>4, <2>8, <2>9, <2>10, <2>11 DEF DequesFit, Waits
  <2> QED
    BY <2>4, <2>7, <2>12, <2>13 DEF WaitingTypes
<1> QED
  BY <1>1, <1>2 DEF WaitingTypes

\* The requests that have arrived have places of their own in the order of arrival.
LEMMA ArrivalOwn ==
    ASSUME arrived \in Seq(Requests), IsInjective(arrived)
    PROVE  /\ \A a \in ToSet(arrived) : Arrival(a) \in Nat
           /\ \A a, b \in ToSet(arrived) : Arrival(a) = Arrival(b) => a = b
<1>1. ASSUME NEW a \in ToSet(arrived) PROVE Arrival(a) \in DOMAIN arrived /\ arrived[Arrival(a)] = a
  <2>1. \E i \in DOMAIN arrived : arrived[i] = a
    BY DEF ToSet
  <2> QED
    BY <2>1 DEF Arrival, Position
<1>2. \A i \in DOMAIN arrived : i \in Nat
  BY LenProperties
<1> QED
  BY <1>1, <1>2

\* Sorting by arrival, and by level and then by arrival, lists everyone once.
LEMMA SortedLists ==
    ASSUME arrived \in Seq(Requests), IsInjective(arrived), level' \in [Requests -> Levels],
           NEW S, S \subseteq ToSet(arrived), S \subseteq Requests
    PROVE  /\ Sorted(S, Older) \in Seq(Requests) /\ ToSet(Sorted(S, Older)) = S
           /\ IsInjective(Sorted(S, Older))
           /\ Sorted(S, Sooner) \in Seq(Requests) /\ ToSet(Sorted(S, Sooner)) = S
           /\ IsInjective(Sorted(S, Sooner))
<1>1. IsFiniteSet(S)
  BY PolicyAssumption, FS_Subset
<1>2. \A a, b \in S : Arrival(a) \in Nat /\ (Arrival(a) = Arrival(b) => a = b)
  BY ArrivalOwn
<1>3. \A a \in S : level'[a] \in Nat
  BY LevelFacts
<1>4. Sorted(S, Older) \in Seq(Requests) /\ ToSet(Sorted(S, Older)) = S /\ IsInjective(Sorted(S, Older))
  <2> DEFINE before == [r \in S |-> {q \in S : Older(q, r)}]
             place == [r \in S |-> Cardinality(before[r]) + 1]
  <2>1. before \in [S -> SUBSET S] /\ \A a, b \in S : a \in before[b] <=> Older(a, b)
    OBVIOUS
  <2>2. Sorted(S, Older) = InPlaces(S, place)
    <3>1. [r \in S |-> Cardinality({q \in S : Older(q, r)}) + 1] = place
      OBVIOUS
    <3> HIDE DEF place
    <3> QED
      BY <3>1 DEF Sorted
  <2> HIDE DEF before
  <2>3. /\ \A a, b \in S : a # b => a \in before[b] \/ b \in before[a]
        /\ \A a \in S : a \notin before[a]
        /\ \A a, b, c \in S : a \in before[b] /\ b \in before[c] => a \in before[c]
    BY <1>2, <2>1 DEF Older
  <2>4. /\ InPlaces(S, place) \in Seq(S) /\ ToSet(InPlaces(S, place)) = S
        /\ IsInjective(InPlaces(S, place))
    <3>1. \A a \in S : Cardinality(before[a]) + 1 \in Int
      BY <1>1, <2>1, FS_Subset, FS_CardinalityType
    <3>2. place \in [S -> Int] /\ \A a \in S : place[a] = Cardinality(before[a]) + 1
      BY <3>1
    <3> HIDE DEF place
    <3> QED
      BY <1>1, <2>1, <2>3, <3>2, ListedByPlace
  <2> HIDE DEF place
  <2> QED
    BY <2>2, <2>4, SeqMonotonic
<1>5. Sorted(S, Sooner) \in Seq(Requests) /\ ToSet(Sorted(S, Sooner)) = S /\ IsInjective(Sorted(S, Sooner))
  <2> DEFINE before == [r \in S |-> {q \in S : Sooner(q, r)}]
             place == [r \in S |-> Cardinality(before[r]) + 1]
  <2>1. before \in [S -> SUBSET S] /\ \A a, b \in S : a \in before[b] <=> Sooner(a, b)
    OBVIOUS
  <2>2. Sorted(S, Sooner) = InPlaces(S, place)
    <3>1. [r \in S |-> Cardinality({q \in S : Sooner(q, r)}) + 1] = place
      OBVIOUS
    <3> HIDE DEF place
    <3> QED
      BY <3>1 DEF Sorted
  <2> HIDE DEF before
  <2>3. /\ \A a, b \in S : a # b => a \in before[b] \/ b \in before[a]
        /\ \A a \in S : a \notin before[a]
        /\ \A a, b, c \in S : a \in before[b] /\ b \in before[c] => a \in before[c]
    <3>1. \A a, b \in S : a # b => Sooner(a, b) \/ Sooner(b, a)
      BY <1>2, <1>3 DEF Sooner, Older
    <3>2. \A a \in S : ~Sooner(a, a)
      BY <1>2, <1>3 DEF Sooner, Older
    <3>3. \A a, b, c \in S : Sooner(a, b) /\ Sooner(b, c) => Sooner(a, c)
      BY <1>2, <1>3 DEF Sooner, Older
    <3> QED
      BY <2>1, <3>1, <3>2, <3>3
  <2>4. /\ InPlaces(S, place) \in Seq(S) /\ ToSet(InPlaces(S, place)) = S
        /\ IsInjective(InPlaces(S, place))
    <3>1. \A a \in S : Cardinality(before[a]) + 1 \in Int
      BY <1>1, <2>1, FS_Subset, FS_CardinalityType
    <3>2. place \in [S -> Int] /\ \A a \in S : place[a] = Cardinality(before[a]) + 1
      BY <3>1
    <3> HIDE DEF place
    <3> QED
      BY <1>1, <2>1, <2>3, <3>2, ListedByPlace
  <2> HIDE DEF place
  <2> QED
    BY <2>2, <2>4, SeqMonotonic
<1> QED
  BY <1>4, <1>5

\* The promoted requests are in the first deque, and the others where they were.
LEMMA MovedUp ==
    ASSUME WaitingTypes, DequesFit, policy = "AUTELLIX", policy' = policy, line' = line,
           NEW up, up \subseteq Waits, MoveUp(up),
           \A s \in up : level'[s] = 1, \A s \in Waits \ up : level'[s] = level[s]
    PROVE  WaitingTypes' /\ DequesFit' /\ Waits' = Waits
<1> DEFINE moved == Removed(WaitingList, Requests \ up)
<1>1. /\ WaitingList \in Seq(Requests) /\ ToSet(WaitingList) = Waits /\ IsInjective(WaitingList)
      /\ Waits \subseteq Requests /\ Waits = UNION {ToSet(queues[l]) : l \in Levels}
  BY WaitingHolds DEF Waits
<1>2. moved \in Seq(Requests) /\ ToSet(moved) = up /\ IsInjective(moved)
  <2>1. ToSet(moved) = Waits \ (Requests \ up)
    BY <1>1, RemovedProperties
  <2>2. Waits \ (Requests \ up) = up
    BY <1>1
  <2> QED
    BY <1>1, <2>1, <2>2, RemovedProperties
<1>3. \A l \in Levels : /\ queues[l] \in Seq(Requests) /\ IsInjective(queues[l])
                        /\ Removed(queues[l], up) \in Seq(Requests)
                        /\ ToSet(Removed(queues[l], up)) = ToSet(queues[l]) \ up
                        /\ IsInjective(Removed(queues[l], up))
  BY RemovedProperties DEF WaitingTypes, DequesFit
<1>4. /\ queues' = [l \in Levels |-> IF l = 1 THEN Removed(queues[l], up) \o moved
                                     ELSE Removed(queues[l], up)]
      /\ where' = [r \in DOMAIN where |-> IF r \in up THEN 1 ELSE where[r]]
  BY DEF MoveUp
<1> HIDE DEF moved
<1>5. /\ queues'[1] \in Seq(Requests) /\ ToSet(queues'[1]) = (ToSet(queues[1]) \ up) \cup up
      /\ IsInjective(queues'[1])
  <2>1. queues'[1] = Removed(queues[1], up) \o moved
    BY <1>4, LevelFacts
  <2>2. ToSet(Removed(queues[1], up)) \cap ToSet(moved) = {}
    BY <1>2, <1>3, LevelFacts
  <2>3. /\ Removed(queues[1], up) \o moved \in Seq(Requests)
        /\ ToSet(Removed(queues[1], up) \o moved) = ToSet(Removed(queues[1], up)) \cup ToSet(moved)
        /\ IsInjective(Removed(queues[1], up) \o moved)
    BY <1>2, <1>3, <2>2, LevelFacts, ConcatElements, ConcatProperties
  <2> QED
    BY <1>2, <1>3, <2>1, <2>3, LevelFacts
<1>6. \A l \in Levels \ {1} : /\ queues'[l] \in Seq(Requests) /\ IsInjective(queues'[l])
                              /\ ToSet(queues'[l]) = ToSet(queues[l]) \ up
  <2>1. \A l \in Levels \ {1} : queues'[l] = Removed(queues[l], up)
    BY <1>4
  <2> QED
    BY <1>3, <2>1
<1>7. queues' \in [Levels -> Seq(Requests)] /\ \A l \in Levels : IsInjective(queues'[l])
  <2>1. queues' = [l \in Levels |-> queues'[l]]
    BY <1>4
  <2>2. \A l \in Levels : queues'[l] \in Seq(Requests) /\ IsInjective(queues'[l])
    BY <1>5, <1>6
  <2> QED
    BY <2>1, <2>2
<1>8. UNION {ToSet(queues'[l]) : l \in Levels} = Waits
  <2>1. \A s \in Waits : \E l \in Levels : s \in ToSet(queues'[l])
    <3> SUFFICES ASSUME NEW s \in Waits PROVE \E l \in Levels : s \in ToSet(queues'[l])
      OBVIOUS
    <3>1. PICK l \in Levels : s \in ToSet(queues[l])
      BY <1>1
    <3>2. CASE s \in up
      BY <1>5, <3>2, LevelFacts
    <3>3. CASE s \notin up
      BY <1>5, <1>6, <3>1, <3>3
    <3> QED
      BY <3>2, <3>3
  <2>2. \A l \in Levels : ToSet(queues'[l]) \subseteq Waits
    <3>1. \A l \in Levels : ToSet(queues[l]) \subseteq Waits
      BY <1>1
    <3>2. ToSet(queues'[1]) \subseteq Waits
      BY <1>5, <3>1, LevelFacts
    <3> QED
      BY <1>6, <3>1, <3>2
  <2> QED
    BY <2>1, <2>2
<1>9. DOMAIN where = Waits /\ DOMAIN where' = Waits
  <2>1. DOMAIN where = Waits
    BY <1>1 DEF DequesFit
  <2> QED
    BY <1>4, <2>1
<1>10. ASSUME NEW l \in Levels, NEW s \in ToSet(queues'[l])
       PROVE  level'[s] = l /\ s \in DOMAIN where' /\ where'[s] = l
  <2>1. s \in Waits
    BY <1>8
  <2>2. CASE s \in up
    <3>1. l = 1
      BY <1>6, <2>2
    <3> QED
      BY <1>4, <1>9, <2>1, <2>2, <3>1
  <2>3. CASE s \notin up
    <3>1. s \in ToSet(queues[l])
      BY <1>5, <1>6, <2>3
    <3> QED
      BY <1>4, <1>9, <2>1, <2>3, <3>1 DEF DequesFit
  <2> QED
    BY <2>2, <2>3
<1>11. Waits' = Waits
  BY <1>8 DEF Waits
<1>12. WaitingTypes'
  BY <1>7 DEF WaitingTypes
<1>13. DequesFit'
  BY <1>7, <1>8, <1>9, <1>10 DEF DequesFit
<1> QED
  BY <1>11, <1>12, <1>13

\* The FCFS queue takes everyone over.
LEMMA Switched ==
    ASSUME WaitingTypes, DequesFit, policy = "AUTELLIX", SwitchToFcfs,
           arrived \in Seq(Requests), IsInjective(arrived), Waits \subseteq ToSet(arrived),
           level \in [Requests -> Levels]
    PROVE  WaitingTypes' /\ DequesFit' /\ Waits' = Waits
<1>1. /\ line' = Sorted(ToSet(Concat(queues)), Older) /\ policy' = "FCFS"
      /\ queues' = [l \in Levels |-> <<>>] /\ where' = <<>> /\ level' = level
  BY DEF SwitchToFcfs, EveryLevel, feedback
<1>2. ToSet(Concat(queues)) = Waits /\ Waits \subseteq Requests
  BY WaitingHolds DEF WaitingList
<1>3. line' \in Seq(Requests) /\ ToSet(line') = Waits /\ IsInjective(line')
  BY <1>1, <1>2, SortedLists
<1>4. \A l \in Levels : queues'[l] = <<>> /\ ToSet(queues'[l]) = {} /\ IsInjective(queues'[l])
  BY <1>1 DEF ToSet, IsInjective
<1>5. queues' \in [Levels -> Seq(Requests)]
  BY <1>1
<1>6. DOMAIN where' = {} /\ UNION {ToSet(queues'[l]) : l \in Levels} = {}
  BY <1>1, <1>4
<1>7. Waits' = Waits /\ WaitingTypes'
  BY <1>1, <1>3, <1>5 DEF Waits, WaitingTypes
<1>8. DequesFit'
  BY <1>1, <1>3, <1>4, <1>6 DEF DequesFit
<1> QED
  BY <1>7, <1>8

\* Blocks are counted in whole numbers, and more tokens never need fewer.
LEMMA BlocksForFacts ==
    ASSUME NEW a \in Nat, NEW b \in Nat, a <= b
    PROVE  BlocksFor(a) \in Nat /\ BlocksFor(b) \in Nat /\ BlocksFor(a) <= BlocksFor(b)
<1> DEFINE q(c) == (c + BlockSize - 1) \div BlockSize
<1>1. BlockSize \in Nat \ {0}
  BY PolicyAssumption
<1>2. ASSUME NEW c \in Nat, NEW d \in Nat \ {0}
      PROVE  c \div d \in Nat /\ (c \div d) * d <= c /\ c < ((c \div d) + 1) * d
  BY Z3
<1>3. ASSUME NEW x \in Nat, NEW y \in Nat, NEW d \in Nat \ {0}, x > y
      PROVE  x * d >= (y + 1) * d
  BY <1>3, Z3
<1>4. a + BlockSize - 1 \in Nat /\ b + BlockSize - 1 \in Nat
  BY <1>1
<1>5. /\ q(a) \in Nat /\ q(a) * BlockSize <= a + BlockSize - 1
      /\ q(b) \in Nat /\ b + BlockSize - 1 < (q(b) + 1) * BlockSize
  BY <1>1, <1>2, <1>4
<1>6. q(a) <= q(b)
  <2> SUFFICES ASSUME q(a) > q(b) PROVE FALSE
    BY <1>5
  <2>1. q(a) * BlockSize >= (q(b) + 1) * BlockSize
    <3> HIDE DEF q
    <3> QED
      BY <1>1, <1>3, <1>5
  <2>2. q(a) * BlockSize \in Int /\ (q(b) + 1) * BlockSize \in Int
    <3> HIDE DEF q
    <3> QED
      BY <1>1, <1>5
  <2> DEFINE x == q(a) * BlockSize
             y == (q(b) + 1) * BlockSize
  <2>3. x <= a + BlockSize - 1 /\ b + BlockSize - 1 < y /\ x >= y /\ x \in Int /\ y \in Int
    BY <1>5, <2>1, <2>2
  <2> HIDE DEF x, y
  <2> QED
    BY <1>1, <2>3
<1> QED
  BY <1>5, <1>6 DEF BlocksFor

\* What a change of one value makes of a sum.
LEMMA TallyUpdate ==
    ASSUME NEW f \in [Requests -> Int], NEW h \in [Requests -> Int], NEW r \in Requests,
           \A s \in Requests : s # r => h[s] = f[s]
    PROVE  Tally(f) \in Int /\ Tally(h) = Tally(f) + (h[r] - f[r])
<1>1. IsFiniteSet(Requests)
  BY PolicyAssumption
<1> QED
  BY <1>1, TotalUpdate, ZenonT(60) DEF Tally

\* A sum of natural numbers is one, and no less than each; a sum of zeros is zero.
LEMMA TallyNat ==
    ASSUME NEW f \in [Requests -> Nat]
    PROVE  /\ Tally(f) \in Nat /\ \A r \in Requests : f[r] <= Tally(f)
           /\ (\A r \in Requests : f[r] = 0) => Tally(f) = 0
<1>1. IsFiniteSet(Requests)
  BY PolicyAssumption
<1>2. Tally(f) \in Nat /\ \A r \in Requests : f[r] <= Tally(f)
  BY <1>1, TotalNat, ZenonT(60) DEF Tally
<1>3. ASSUME \A r \in Requests : f[r] = 0 PROVE Tally(f) = 0
  <2>1. f \in [Requests -> Int]
    OBVIOUS
  <2> QED
    BY <1>1, <1>3, <2>1, TotalZero, ZenonT(60) DEF Tally
<1> QED
  BY <1>2, <1>3

\* What the pool has left after the blocks of one request have changed.
LEMMA PoolAfter ==
    ASSUME blocks \in [Requests -> Nat], NEW r \in Requests, NEW m \in Nat,
           blocks' = [blocks EXCEPT ![r] = m]
    PROVE  /\ blocks' \in [Requests -> Nat] /\ FreeBlocks \in Int
           /\ FreeBlocks' = FreeBlocks + (blocks[r] - m)
<1>1. /\ blocks' \in [Requests -> Nat] /\ blocks'[r] = m
      /\ \A s \in Requests : s # r => blocks'[s] = blocks[s]
  OBVIOUS
<1>2. blocks \in [Requests -> Int] /\ blocks' \in [Requests -> Int]
  BY <1>1
<1>3. Tally(blocks) \in Int /\ Tally(blocks') = Tally(blocks) + (blocks'[r] - blocks[r])
  BY <1>1, <1>2, TallyUpdate
<1> QED
  BY <1>1, <1>3, PolicyAssumption DEF FreeBlocks

\* What the batch has after the tokens of one request have changed.
LEMMA TotalAfter ==
    ASSUME num \in [Requests -> 0..MaxBatch], NEW r \in Requests, NEW n \in 0..MaxBatch,
           num' = [num EXCEPT ![r] = n]
    PROVE  /\ num' \in [Requests -> 0..MaxBatch] /\ TotalScheduled \in Int
           /\ TotalScheduled' = TotalScheduled + (n - num[r])
<1>1. /\ num' \in [Requests -> 0..MaxBatch] /\ num'[r] = n
      /\ \A s \in Requests : s # r => num'[s] = num[s]
  OBVIOUS
<1>2. num \in [Requests -> Int] /\ num' \in [Requests -> Int]
  BY <1>1, PolicyAssumption
<1>3. Tally(num) \in Int /\ Tally(num') = Tally(num) + (num'[r] - num[r])
  BY <1>1, <1>2, TallyUpdate
<1> QED
  BY <1>1, <1>3 DEF TotalScheduled

\* A batch has a number of tokens, and no more than its step allows for one request.
LEMMA TotalType ==
    ASSUME num \in [Requests -> 0..MaxBatch]
    PROVE  /\ TotalScheduled \in Nat /\ \A r \in Requests : num[r] <= TotalScheduled
           /\ (\A r \in Requests : num[r] = 0) => TotalScheduled = 0
<1>1. num \in [Requests -> Nat]
  BY PolicyAssumption
<1> QED
  BY <1>1, TallyNat DEF TotalScheduled

\* A quantum is never used up when it is looked at, and fits its level.
LEMMA QuantumFits ==
    ASSUME FeedbackTypes, NEW r \in Requests
    PROVE  Quantum(r) \in 1..QuantumOf(level[r]) /\ QuantumOf(level[r]) \in 1..MaxBatch
<1>1. /\ level[r] \in Levels /\ quanta[r] \in Nat /\ quanta[r] <= QuantumOf(level[r])
      /\ QuantumOf(level[r]) \in 1..MaxBatch /\ MaxBatch \in Nat
  BY LevelFacts, PolicyAssumption DEF FeedbackTypes
<1> QED
  BY <1>1 DEF Quantum

\* A chunk has at least one token, and no more than are due, left and granted.
LEMMA ChunkFits ==
    ASSUME FeedbackTypes, NEW r \in Requests, budget \in 1..MaxBatch,
           tokens[r] \in Nat, computed[r] \in Nat, computed[r] < tokens[r]
    PROVE  /\ NewTokens(r) \in 1..budget /\ NewTokens(r) \in 1..MaxBatch
           /\ computed[r] + NewTokens(r) \in Nat /\ computed[r] + NewTokens(r) <= tokens[r]
           /\ policy # "FCFS" => NewTokens(r) <= Quantum(r)
<1>1. Quantum(r) \in Nat \ {0} /\ MaxBatch \in Nat \ {0} /\ budget \in Nat \ {0} /\ budget <= MaxBatch
  BY QuantumFits, PolicyAssumption
<1> DEFINE left == Smallest(tokens[r] - computed[r], budget)
           slice == Smallest(Quantum(r), MaxBatch)
<1>2. left \in 1..budget /\ left <= tokens[r] - computed[r]
  BY <1>1 DEF Smallest
<1>3. slice \in Nat \ {0} /\ slice <= Quantum(r)
  BY <1>1 DEF Smallest
<1>4. NewTokens(r) = IF policy = "FCFS" THEN left ELSE Smallest(left, slice)
  BY DEF NewTokens
<1> HIDE DEF left, slice
<1>5. Smallest(left, slice) \in 1..budget /\ Smallest(left, slice) <= left /\ Smallest(left, slice) <= slice
  BY <1>1, <1>2, <1>3 DEF Smallest
<1>6. CASE policy = "FCFS"
  BY <1>1, <1>2, <1>4, <1>6
<1>7. CASE policy # "FCFS"
  BY <1>1, <1>2, <1>3, <1>4, <1>5, <1>7
<1> QED
  BY <1>6, <1>7

\* Being scheduled changes the level, the quantum and the service of nobody else.
LEMMA Served ==
    ASSUME FeedbackTypes, NEW r \in Requests, NEW n \in Nat \ {0},
           policy # "FCFS" => n <= Quantum(r), OnScheduled(r, n)
    PROVE  /\ FeedbackTypes' /\ atArrival' = atArrival /\ waited' = waited
           /\ \A s \in Requests \ {r} : level'[s] = level[s] /\ served'[s] = served[s]
<1>1. CASE policy = "FCFS"
  BY <1>1 DEF OnScheduled, feedback, FeedbackTypes
<1>2. CASE policy # "FCFS"
  <2> DEFINE to == NextLevel(level[r])
  <2>1. PICK demoted \in BOOLEAN :
          /\ served' = [served EXCEPT ![r] = @ + n]
          /\ level' = IF demoted THEN [level EXCEPT ![r] = to] ELSE level
          /\ quanta' = [quanta EXCEPT ![r] = IF demoted THEN QuantumOf(to) ELSE Quantum(r) - n]
          /\ waited' = waited /\ atArrival' = atArrival
    <3> DEFINE full == n >= Smallest(Quantum(r), MaxBatch) /\ tokens[r] - computed[r] - n > 0
    <3>1. /\ served' = [served EXCEPT ![r] = @ + n]
          /\ level' = IF full THEN [level EXCEPT ![r] = to] ELSE level
          /\ quanta' = [quanta EXCEPT ![r] = IF full THEN QuantumOf(to) ELSE Quantum(r) - n]
          /\ waited' = waited /\ atArrival' = atArrival
      BY <1>2 DEF OnScheduled
    <3> HIDE DEF full
    <3>2. CASE full
      BY <3>1, <3>2
    <3>3. CASE ~full
      BY <3>1, <3>3
    <3> QED
      BY <3>2, <3>3
  <2>2. /\ level \in [Requests -> Levels] /\ to \in Levels /\ QuantumOf(to) \in 1..MaxBatch
        /\ served \in [Requests -> Nat] /\ quanta \in [Requests -> Nat] /\ MaxBatch \in Nat
    BY LevelFacts, PolicyAssumption DEF FeedbackTypes
  <2>3. /\ Quantum(r) \in Nat /\ n <= Quantum(r) /\ Quantum(r) <= QuantumOf(level[r])
        /\ QuantumOf(level[r]) \in Nat
    BY <1>2, <2>2, QuantumFits
  <2>4. served' \in [Requests -> Nat] /\ \A s \in Requests \ {r} : served'[s] = served[s]
    BY <2>1, <2>2
  <2>5. CASE demoted
    <3>1. /\ level' \in [Requests -> Levels] /\ level'[r] = to /\ quanta'[r] = QuantumOf(to)
          /\ \A s \in Requests \ {r} : level'[s] = level[s] /\ quanta'[s] = quanta[s]
      BY <2>1, <2>2, <2>5
    <3>2. quanta' \in [Requests -> Nat]
      BY <2>1, <2>2, <2>5
    <3>3. \A s \in Requests : quanta'[s] <= QuantumOf(level'[s])
      BY <2>2, <3>1 DEF FeedbackTypes
    <3> QED
      BY <2>1, <2>4, <3>1, <3>2, <3>3 DEF FeedbackTypes, QuantumOf
  <2>6. CASE ~demoted
    <3>1. /\ level' = level /\ quanta'[r] = Quantum(r) - n
          /\ \A s \in Requests \ {r} : quanta'[s] = quanta[s]
      BY <2>1, <2>2, <2>6
    <3>2. quanta' \in [Requests -> Nat]
      BY <2>1, <2>2, <2>3, <2>6
    <3>3. \A s \in Requests : quanta'[s] <= QuantumOf(level'[s])
      BY <2>2, <2>3, <3>1 DEF FeedbackTypes
    <3> QED
      BY <2>1, <2>4, <3>1, <3>2, <3>3 DEF FeedbackTypes, QuantumOf
  <2> QED
    BY <2>5, <2>6
<1> QED
  BY <1>1, <1>2

\* An entry of the batch takes its tokens from the budget.
LEMMA BatchGrows ==
    ASSUME StepTypes, BatchFits, Building, Building', NEW r \in Requests, r \notin ToSet(batch),
           NEW n \in 1..budget, Schedules(r, n),
           ToSet(running) \cup {r} \subseteq ToSet(running')
    PROVE  /\ budget' \in 0..MaxBatch /\ budget' = budget - n
           /\ num' \in [Requests -> 0..MaxBatch] /\ num'[r] = n
           /\ \A s \in Requests \ {r} : num'[s] = num[s]
           /\ batch' \in Seq(Requests) /\ ToSet(batch') = ToSet(batch) \cup {r}
           /\ BatchFits'
<1>1. num' = [num EXCEPT ![r] = n] /\ batch' = Append(batch, r) /\ budget' = budget - n
  BY DEF Schedules
<1>2. /\ num \in [Requests -> 0..MaxBatch] /\ batch \in Seq(Requests) /\ budget \in 0..MaxBatch
      /\ MaxBatch \in Nat /\ ToSet(batch) = {s \in Requests : num[s] > 0}
      /\ budget + TotalScheduled = MaxBatch
  BY PolicyAssumption DEF StepTypes, BatchFits
<1>3. n \in 0..MaxBatch /\ num[r] = 0 /\ n > 0 /\ budget' \in 0..MaxBatch
  <2>1. num[r] \in 0..MaxBatch /\ ~(num[r] > 0)
    BY <1>2
  <2> QED
    BY <1>1, <1>2, <2>1
<1>4. /\ num' \in [Requests -> 0..MaxBatch] /\ TotalScheduled \in Int
      /\ TotalScheduled' = TotalScheduled + (n - num[r])
  BY <1>1, <1>2, <1>3, TotalAfter
<1>5. num'[r] = n /\ \A s \in Requests \ {r} : num'[s] = num[s]
  BY <1>1, <1>2
<1>6. budget' + TotalScheduled' = MaxBatch
  BY <1>1, <1>2, <1>3, <1>4
<1>7. batch' \in Seq(Requests) /\ ToSet(batch') = ToSet(batch) \cup {r} /\ IsInjective(batch')
  BY <1>1, <1>2, AppendType, AppendElements DEF BatchFits
<1>8. ToSet(batch') = {s \in Requests : num'[s] > 0}
  <2>1. \A s \in Requests : s \in ToSet(batch') <=> num'[s] > 0
    BY <1>2, <1>3, <1>5, <1>7
  <2>2. ToSet(batch') \subseteq Requests
    BY <1>7, ElementsType
  <2> QED
    BY <2>1, <2>2
<1>9. ToSet(batch') \subseteq ToSet(running')
  BY <1>7 DEF BatchFits
<1>10. pc' # "input"
  BY DEF Building
<1>11. BatchFits'
  BY <1>6, <1>7, <1>8, <1>9, <1>10 DEF BatchFits
<1> QED
  BY <1>1, <1>3, <1>4, <1>5, <1>7, <1>11

\* A step that begins and ends no request, and serves none that is over, leaves
\* the account of the programs as it is.
LEMMA ServiceStays ==
    ASSUME RequestTypes, StepsFollow, ServiceKept, FeedbackTypes,
           \A s \in Requests : /\ status'[s] = "finished" <=> status[s] = "finished"
                               /\ status'[s] = "new" <=> status[s] = "new"
                               /\ status[s] = "finished" => served'[s] = served[s],
           service' = service, atArrival' = atArrival, policy' \in {policy, "FCFS"}
    PROVE  StepsFollow' /\ ServiceKept'
<1>1. \A r \in Requests : Previous[r] # Nobody => Previous[r] \in Requests
  BY PolicyAssumption
<1>2. LastSteps \subseteq Requests
  BY PolicyAssumption
<1>3. StepsFollow'
  BY <1>1 DEF StepsFollow
<1>4. CASE policy' = "FCFS"
  BY <1>3, <1>4 DEF ServiceKept
<1>5. CASE policy' = policy /\ policy = "AUTELLIX"
  <2>1. \A p \in Requests \ LastSteps : status'[p] = "finished" =>
           \/ service'[Job[p]] >= atArrival'[p] + served'[p]
           \/ \E q \in LastSteps : Job[q] = Job[p] /\ status'[q] = "finished"
    BY <1>2, <1>5 DEF ServiceKept
  <2>2. ASSUME NEW r \in Requests, status'[r] # "new", Previous[r] \notin LastSteps \cup {Nobody}
        PROVE  atArrival'[r] >= atArrival'[Previous[r]] + served'[Previous[r]]
    <3>1. Previous[r] \in Requests /\ status[Previous[r]] = "finished" /\ status[r] # "new"
      BY <1>1, <2>2 DEF StepsFollow
    <3> QED
      BY <1>5, <2>2, <3>1 DEF ServiceKept
  <2> QED
    BY <1>3, <1>5, <2>1, <2>2 DEF ServiceKept
<1> QED
  BY <1>3, <1>4, <1>5 DEF ServiceKept

\* When a request is over, its program has been charged for it, or is over too.
LEMMA Freed ==
    ASSUME RequestTypes, ProgramTypes, FeedbackTypes, StepsFollow, ServiceKept,
           policy \in {"AUTELLIX", "FCFS"},
           NEW r \in Requests, status[r] \notin {"new", "finished"}, NEW calls \in BOOLEAN,
           FreeRequest(r, calls), policy' = policy, served' = served, atArrival' = atArrival
    PROVE  /\ ProgramTypes' /\ StepsFollow' /\ ServiceKept' /\ unreported' \in BOOLEAN
           /\ status' = [status EXCEPT ![r] = "finished"] /\ blocks' = [blocks EXCEPT ![r] = 0]
<1>1. /\ status' = [status EXCEPT ![r] = "finished"] /\ blocks' = [blocks EXCEPT ![r] = 0]
      /\ unreported' = TRUE
  BY DEF FreeRequest
<1>2. /\ status'[r] = "finished" /\ \A s \in Requests \ {r} : status'[s] = status[s]
  BY <1>1 DEF RequestTypes
<1>3. \A s \in Requests : /\ status[s] = "finished" => status'[s] = "finished"
                          /\ status'[s] = "new" <=> status[s] = "new"
  BY <1>2
<1>4. /\ \A s \in Requests : Previous[s] # Nobody => Previous[s] \in Requests
      /\ LastSteps \subseteq Requests
  BY PolicyAssumption
<1>5. StepsFollow'
  BY <1>3, <1>4 DEF StepsFollow
<1>6. CASE policy = "FCFS"
  <2>1. service' = service /\ programWait' = programWait /\ finishedJobs' = finishedJobs
    BY <1>6 DEF FreeRequest, programs
  <2> QED
    BY <1>1, <1>5, <1>6, <2>1 DEF ServiceKept, ProgramTypes
<1>7. CASE policy = "AUTELLIX"
  <2> DEFINE j == Job[r]
  <2>1. /\ service' = [service EXCEPT ![j] = IF r \in LastSteps THEN 0 ELSE Charge(r)]
        /\ programWait' = [programWait EXCEPT ![j] = IF r \in LastSteps THEN 0 ELSE @ + waited[r]]
        /\ finishedJobs' = IF FcfsAfter > 0 /\ (r \in LastSteps \/ ~calls)
                           THEN finishedJobs \cup {j} ELSE finishedJobs
    BY <1>7 DEF FreeRequest
  <2>2. /\ j \in Jobs /\ service[j] \in Nat /\ programWait[j] \in Nat
        /\ waited[r] \in Nat /\ atArrival[r] \in Nat /\ served[r] \in Nat
    BY DEF ProgramTypes, FeedbackTypes, Jobs
  <2>3. Charge(r) \in Nat /\ Charge(r) >= service[j] /\ Charge(r) >= atArrival[r] + served[r]
    BY <2>2 DEF Charge, Largest
  <2>4. ProgramTypes'
    <3>1. service' \in [Jobs -> Nat]
      BY <2>1, <2>2, <2>3 DEF ProgramTypes
    <3>2. programWait' \in [Jobs -> Nat]
      BY <2>1, <2>2 DEF ProgramTypes
    <3>3. finishedJobs' \subseteq Jobs
      <4>1. finishedJobs' = finishedJobs \cup {j} \/ finishedJobs' = finishedJobs
        BY <2>1
      <4> QED
        BY <2>2, <4>1 DEF ProgramTypes
    <3> QED
      BY <3>1, <3>2, <3>3 DEF ProgramTypes
  <2>5. ASSUME NEW p \in Requests \ LastSteps, status'[p] = "finished"
        PROVE  \/ service'[Job[p]] >= atArrival'[p] + served'[p]
               \/ \E q \in LastSteps : Job[q] = Job[p] /\ status'[q] = "finished"
    <3>1. Job[p] \in Jobs /\ service[Job[p]] \in Nat /\ atArrival[p] \in Nat /\ served[p] \in Nat
      BY DEF Jobs, ProgramTypes, FeedbackTypes
    <3>2. CASE r \in LastSteps /\ Job[p] = j
      BY <1>2, <3>2
    <3>3. CASE r \notin LastSteps \/ Job[p] # j
      <4>1. service'[Job[p]] >= service[Job[p]] /\ service'[Job[p]] \in Nat
        BY <2>1, <2>2, <2>3, <3>1, <3>3 DEF ProgramTypes
      <4>2. CASE p = r
        <5>1. service'[j] = Charge(r)
          BY <2>1, <2>2, <2>5, <4>2 DEF ProgramTypes
        <5> QED
          BY <2>3, <4>2, <5>1
      <4>3. CASE p # r
        <5>1. status[p] = "finished"
          BY <1>2, <2>5, <4>3
        <5>2. \/ service[Job[p]] >= atArrival[p] + served[p]
              \/ \E q \in LastSteps : Job[q] = Job[p] /\ status[q] = "finished"
          BY <1>7, <5>1 DEF ServiceKept
        <5>3. CASE service[Job[p]] >= atArrival[p] + served[p]
          BY <3>1, <4>1, <5>3
        <5>4. CASE \E q \in LastSteps : Job[q] = Job[p] /\ status[q] = "finished"
          BY <1>3, <1>4, <5>4
        <5> QED
          BY <5>2, <5>3, <5>4
      <4> QED
        BY <4>2, <4>3
    <3> QED
      BY <3>2, <3>3
  <2>6. \A s \in Requests : status'[s] # "new" /\ Previous[s] \notin LastSteps \cup {Nobody} =>
              atArrival'[s] >= atArrival'[Previous[s]] + served'[Previous[s]]
    BY <1>3, <1>7 DEF ServiceKept
  <2>7. ServiceKept'
    BY <1>7, <2>5, <2>6 DEF ServiceKept
  <2> QED
    BY <1>1, <1>5, <2>4, <2>7
<1> QED
  BY <1>6, <1>7

\* Whoever is preempted runs.
LEMMA VictimRuns ==
    ASSUME RequestTypes, StatusFits, FeedbackTypes, running # <<>>
    PROVE  Victim \in ToSet(running)
<1>1. running \in Seq(Requests) /\ ToSet(running) \subseteq Requests /\ ToSet(running) # {}
  BY ElementsType, NothingIn DEF RequestTypes
<1>2. CASE policy = "FCFS"
  <2>1. Victim = running[Len(running)] /\ Len(running) \in DOMAIN running
    BY <1>1, <1>2, EmptySeq, LenProperties DEF Victim, Last
  <2> QED
    BY <2>1 DEF ToSet
<1>3. CASE policy # "FCFS"
  <2> DEFINE S == ToSet(running)
             est(r) == BlocksFor(computed[r])
             R == {p \in S \X S : p[1] = p[2] \/ Worse(p[1], p[2])}
  <2>1. IsFiniteSet(S)
    BY <1>1, PolicyAssumption, FS_Subset
  <2>2. \A a, b \in S : /\ level[a] \in Nat /\ est(a) \in Nat /\ Arrival(a) \in Nat
                        /\ Arrival(a) = Arrival(b) => a = b
    <3>1. \A a \in S : a \in ToSet(arrived) /\ a \in Requests
      BY <1>1 DEF StatusFits
    <3>2. \A a \in S : level[a] \in Nat
      BY <3>1, LevelFacts DEF FeedbackTypes
    <3>3. \A a \in S : est(a) \in Nat
      <4>1. \A a \in S : computed[a] \in Nat /\ computed[a] <= computed[a]
        BY <3>1 DEF RequestTypes
      <4>2. \A n \in Nat : BlocksFor(n) \in Nat
        BY BlocksForFacts
      <4> QED
        BY <4>1, <4>2
    <3>4. \A a, b \in S : Arrival(a) \in Nat /\ (Arrival(a) = Arrival(b) => a = b)
      BY <3>1, ArrivalOwn DEF RequestTypes, StatusFits
    <3> QED
      BY <3>2, <3>3, <3>4
  <2>3. \A a, b \in S : <<a, b>> \in R <=> (a = b \/ Worse(a, b))
    OBVIOUS
  <2>4. \A a, b \in S : Worse(a, b) <=>
            \/ level[a] > level[b]
            \/ level[a] = level[b] /\ est(a) > est(b)
            \/ level[a] = level[b] /\ est(a) = est(b) /\ Arrival(b) < Arrival(a)
    BY DEF Worse, Older
  <2> HIDE DEF R, est
  <2>5. \A a, b \in S : <<a, b>> \in R \/ <<b, a>> \in R
    <3>1. \A a, b \in S : a = b \/ Worse(a, b) \/ Worse(b, a)
      BY <2>2, <2>4
    <3> QED
      BY <2>3, <3>1
  <2>6. \A a, b, c \in S : Worse(a, b) /\ Worse(b, c) => Worse(a, c)
    BY <2>2, <2>4
  <2>7. \A a, b, c \in S : <<a, b>> \in R /\ <<b, c>> \in R => <<a, c>> \in R
    BY <2>3, <2>6
  <2>8. \E v \in S : \A b \in S : <<v, b>> \in R
    <3> HIDE DEF S
    <3>1. S # {}
      BY <1>1 DEF S
    <3> QED
      BY <2>1, <2>5, <2>7, <3>1, LeastElement
  <2>9. \E v \in S : \A b \in S \ {v} : Worse(v, b)
    BY <2>3, <2>8
  <2> QED
    BY <1>3, <2>9 DEF Victim
<1> QED
  BY <1>2, <1>3

\* A request arrives in the deque of the service that its program has attained.
LEMMA NewRequestInv ==
    ASSUME PolicyInv, NEW r \in Requests, NewRequest(r)
    PROVE  PolicyInv'
<1> USE DEF PolicyInv
<1> DEFINE l == LevelForService(service[Job[r]])
<1>1. /\ pc = "input" /\ status[r] = "new"
      /\ Previous[r] # Nobody => status[Previous[r]] = "finished"
      /\ r \in LastSteps => \A s \in Requests \ {r} : Job[s] = Job[r] => status[s] = "finished"
      /\ status' = [status EXCEPT ![r] = "waiting"] /\ arrived' = Append(arrived, r)
      /\ Enqueue(r, l)
      /\ tokens' = tokens /\ computed' = computed /\ blocks' = blocks /\ running' = running
      /\ policy' = policy /\ service' = service /\ programWait' = programWait
      /\ finishedJobs' = finishedJobs /\ unreported' = unreported /\ pc' = pc
      /\ index' = index /\ current' = current /\ budget' = budget /\ num' = num
      /\ batch' = batch /\ preempted' = preempted
  BY DEF NewRequest, programs, step
<1>2. /\ policy = "FCFS" => /\ level' = level /\ quanta' = quanta /\ waited' = waited
                            /\ served' = served /\ atArrival' = atArrival
      /\ policy # "FCFS" => /\ atArrival' = [atArrival EXCEPT ![r] = service[Job[r]]]
                            /\ waited' = [waited EXCEPT ![r] = 0]
                            /\ served' = [served EXCEPT ![r] = 0]
                            /\ level' = [level EXCEPT ![r] = l]
                            /\ quanta' = [quanta EXCEPT ![r] = QuantumOf(l)]
  BY DEF NewRequest, feedback
<1>3. /\ l \in Levels /\ QuantumOf(l) \in 1..MaxBatch /\ MaxBatch \in Nat
      /\ Job[r] \in Jobs /\ service[Job[r]] \in Nat
  BY LevelForServiceType, LevelFacts, PolicyAssumption DEF ProgramTypes, Jobs
<1> HIDE DEF l
<1>4. /\ status'[r] = "waiting" /\ \A s \in Requests \ {r} : status'[s] = status[s]
      /\ status' \in [Requests -> {"new", "waiting", "running", "preempted", "finished"}]
  BY <1>1 DEF RequestTypes
<1>5. /\ r \notin Waits /\ r \notin ToSet(running) /\ r \notin ToSet(arrived)
  BY <1>1 DEF StatusFits
<1>6. FeedbackTypes' /\ \A s \in Requests \ {r} : /\ level'[s] = level[s] /\ served'[s] = served[s]
                                                  /\ atArrival'[s] = atArrival[s]
  <2>1. CASE policy = "FCFS"
    BY <1>2, <2>1 DEF FeedbackTypes
  <2>2. CASE policy # "FCFS"
    <3>1. /\ level' \in [Requests -> Levels] /\ waited' \in [Requests -> Nat]
          /\ served' \in [Requests -> Nat] /\ atArrival' \in [Requests -> Nat]
          /\ quanta' \in [Requests -> Nat]
      BY <1>2, <1>3, <2>2 DEF FeedbackTypes
    <3>2. /\ level'[r] = l /\ quanta'[r] = QuantumOf(l)
          /\ \A s \in Requests \ {r} : level'[s] = level[s] /\ quanta'[s] = quanta[s]
      BY <1>2, <2>2 DEF FeedbackTypes
    <3>3. \A s \in Requests : quanta'[s] <= QuantumOf(level'[s])
      BY <1>3, <3>2 DEF FeedbackTypes
    <3> QED
      BY <1>2, <2>2, <3>1, <3>2, <3>3 DEF FeedbackTypes, QuantumOf
  <2> QED
    BY <2>1, <2>2
<1>7. WaitingTypes' /\ DequesFit' /\ Waits' = Waits \cup {r}
  <2>1. policy = "AUTELLIX" => level'[r] = l
    BY <1>2 DEF FeedbackTypes
  <2> QED
    BY <1>1, <1>3, <1>5, <1>6, <2>1, Entered
<1>8. /\ arrived' \in Seq(Requests) /\ ToSet(arrived') = ToSet(arrived) \cup {r}
      /\ IsInjective(arrived')
  BY <1>1, <1>5, AppendType, AppendElements DEF RequestTypes, StatusFits
<1>9. RequestTypes'
  BY <1>1, <1>4, <1>8 DEF RequestTypes
<1>10. ProgramTypes' /\ StepTypes'
  BY <1>1 DEF ProgramTypes, StepTypes
<1>11. StatusFits'
  <2>1. ASSUME NEW s \in Requests
        PROVE  /\ status'[s] \in {"waiting", "preempted"} <=> s \in Waits'
               /\ status'[s] = "running" <=> s \in ToSet(running')
               /\ status'[s] # "new" <=> s \in ToSet(arrived')
    <3>1. CASE s = r
      BY <1>1, <1>4, <1>5, <1>7, <1>8, <3>1
    <3>2. CASE s # r
      BY <1>1, <1>4, <1>7, <1>8, <3>2 DEF StatusFits
    <3> QED
      BY <3>1, <3>2
  <2> QED
    BY <1>1, <1>8, <2>1 DEF StatusFits
<1>12. PoolFits'
  <2>1. FreeBlocks' = FreeBlocks
    BY <1>1 DEF FreeBlocks
  <2> QED
    BY <1>1, <1>4, <2>1 DEF PoolFits, BlocksFor
<1>13. TokensFit'
  BY <1>1, <1>4 DEF TokensFit
<1>14. BatchFits' /\ CursorFits'
  BY <1>1 DEF BatchFits, CursorFits, Building, TotalScheduled
<1>15. /\ \A s \in Requests : Previous[s] # Nobody => Previous[s] \in Requests /\ Job[Previous[s]] = Job[s]
       /\ LastSteps \subseteq Requests
  BY PolicyAssumption
<1>16. ~\E q \in LastSteps : Job[q] = Job[r] /\ q # r /\ status[q] # "new"
  BY <1>1, <1>15 DEF StepsFollow
<1>17. StepsFollow'
  <2> SUFFICES ASSUME NEW s \in Requests, status'[s] # "new"
               PROVE  /\ Previous[s] # Nobody => status'[Previous[s]] = "finished"
                      /\ s \in LastSteps =>
                            \A t \in Requests \ {s} : Job[t] = Job[s] => status'[t] = "finished"
    BY DEF StepsFollow
  <2>1. CASE s = r
    <3>1. Previous[s] # Nobody => status'[Previous[s]] = "finished"
      BY <1>1, <1>4, <1>15, <2>1
    <3>2. r \in LastSteps => \A t \in Requests \ {r} : Job[t] = Job[r] => status'[t] = "finished"
      BY <1>1, <1>4
    <3> QED
      BY <2>1, <3>1, <3>2
  <2>2. CASE s # r
    <3>1. status[s] # "new"
      BY <1>4, <2>2
    <3>2. Previous[s] # Nobody => Previous[s] # r /\ status[Previous[s]] = "finished"
      BY <1>1, <3>1 DEF StepsFollow
    <3>3. Previous[s] # Nobody => status'[Previous[s]] = "finished"
      BY <1>4, <1>15, <3>2
    <3>4. ASSUME s \in LastSteps, NEW t \in Requests \ {s}, Job[t] = Job[s]
          PROVE  status'[t] = "finished"
      <4>1. t # r /\ status[t] = "finished"
        BY <1>1, <3>1, <3>4 DEF StepsFollow
      <4> QED
        BY <1>4, <4>1
    <3> QED
      BY <3>3, <3>4
  <2> QED
    BY <2>1, <2>2
<1>18. ServiceKept'
  <2> SUFFICES ASSUME policy = "AUTELLIX" PROVE ServiceKept'
    BY <1>1 DEF ServiceKept
  <2>1. ASSUME NEW p \in Requests \ LastSteps, status'[p] = "finished"
        PROVE  \/ service'[Job[p]] >= atArrival'[p] + served'[p]
               \/ \E q \in LastSteps : Job[q] = Job[p] /\ status'[q] = "finished"
    <3>1. p # r /\ status[p] = "finished"
      BY <1>4, <2>1
    <3>2. \/ service[Job[p]] >= atArrival[p] + served[p]
          \/ \E q \in LastSteps : Job[q] = Job[p] /\ status[q] = "finished"
      BY <3>1 DEF ServiceKept
    <3>3. \A q \in LastSteps : status[q] = "finished" => status'[q] = "finished"
      BY <1>1, <1>4, <1>15
    <3> QED
      BY <1>1, <1>6, <3>1, <3>2, <3>3
  <2>2. ASSUME NEW s \in Requests, status'[s] # "new", Previous[s] \notin LastSteps \cup {Nobody}
        PROVE  atArrival'[s] >= atArrival'[Previous[s]] + served'[Previous[s]]
    <3> DEFINE p == Previous[s]
    <3>1. p \in Requests \ LastSteps /\ Job[p] = Job[s]
      BY <1>15, <2>2
    <3>2. CASE s = r
      <4>1. status[p] = "finished" /\ p # r
        BY <1>1, <2>2, <3>2
      <4>2. service[Job[p]] >= atArrival[p] + served[p]
        <5>1. ~\E q \in LastSteps : Job[q] = Job[p] /\ status[q] = "finished"
          BY <1>1, <1>16, <3>1, <3>2
        <5> QED
          BY <3>1, <4>1, <5>1 DEF ServiceKept
      <4>3. atArrival'[r] = service[Job[r]]
        BY <1>2 DEF FeedbackTypes
      <4> QED
        BY <1>6, <3>1, <3>2, <4>1, <4>2, <4>3
    <3>3. CASE s # r
      <4>1. status[s] # "new" /\ status[p] = "finished" /\ p # r
        BY <1>1, <1>4, <2>2, <3>1, <3>3 DEF StepsFollow
      <4>2. atArrival[s] >= atArrival[p] + served[p]
        BY <2>2, <4>1 DEF ServiceKept
      <4> QED
        BY <1>6, <3>1, <3>3, <4>1, <4>2
    <3> QED
      BY <3>2, <3>3
  <2> QED
    BY <1>1, <2>1, <2>2 DEF ServiceKept
<1> QED
  BY <1>6, <1>7, <1>9, <1>10, <1>11, <1>12, <1>13, <1>14, <1>17, <1>18

\* The blocks of a request that is over or preempted go back to the pool.
LEMMA PoolReturned ==
    ASSUME RequestTypes, PoolFits, NEW r \in Requests, blocks' = [blocks EXCEPT ![r] = 0],
           status'[r] # "running",
           \A s \in Requests \ {r} : /\ status'[s] = status[s]
                                     /\ computed'[s] = computed[s] /\ num'[s] = num[s]
    PROVE  blocks' \in [Requests -> Nat] /\ PoolFits'
<1>1. blocks \in [Requests -> Nat] /\ blocks[r] \in Nat
  BY DEF RequestTypes
<1>2. blocks' \in [Requests -> Nat] /\ FreeBlocks \in Int /\ FreeBlocks' = FreeBlocks + (blocks[r] - 0)
  BY <1>1, PoolAfter
<1>3. FreeBlocks' >= 0
  BY <1>1, <1>2 DEF PoolFits
<1>4. ASSUME NEW s \in Requests
      PROVE  IF status'[s] = "running" THEN blocks'[s] >= BlocksFor(computed'[s] + num'[s])
                                       ELSE blocks'[s] = 0
  <2>1. CASE s = r
    BY <1>1, <2>1
  <2>2. CASE s # r
    <3>1. /\ blocks'[s] = blocks[s] /\ status'[s] = status[s]
          /\ computed'[s] = computed[s] /\ num'[s] = num[s]
      BY <1>1, <2>2
    <3> QED
      BY <3>1 DEF PoolFits
  <2> QED
    BY <2>1, <2>2
<1> QED
  BY <1>2, <1>3, <1>4 DEF PoolFits, BlocksFor

\* An abort takes its request out of the list that has it.
LEMMA AbortInv ==
    ASSUME PolicyInv, NEW r \in Requests, NEW calls \in BOOLEAN, Abort(r, calls)
    PROVE  PolicyInv'
<1> USE DEF PolicyInv
<1>1. /\ pc = "input" /\ status[r] \notin {"new", "finished"} /\ running' = Without(running, r)
      /\ IF status[r] = "running" THEN UNCHANGED <<queues, where, line>> ELSE TakeOut(r)
      /\ FreeRequest(r, calls)
      /\ arrived' = arrived /\ tokens' = tokens /\ computed' = computed /\ policy' = policy
      /\ level' = level /\ quanta' = quanta /\ waited' = waited /\ served' = served
      /\ atArrival' = atArrival /\ pc' = pc
      /\ index' = index /\ current' = current /\ budget' = budget /\ num' = num
      /\ batch' = batch /\ preempted' = preempted
  BY DEF Abort, feedback, step
<1>2. /\ ProgramTypes' /\ StepsFollow' /\ ServiceKept' /\ unreported' \in BOOLEAN
      /\ status' = [status EXCEPT ![r] = "finished"] /\ blocks' = [blocks EXCEPT ![r] = 0]
  BY <1>1, Freed DEF WaitingTypes
<1>3. /\ status'[r] = "finished" /\ \A s \in Requests \ {r} : status'[s] = status[s]
      /\ status' \in [Requests -> {"new", "waiting", "running", "preempted", "finished"}]
  BY <1>2 DEF RequestTypes
<1>4. /\ running' \in Seq(Requests) /\ ToSet(running') = ToSet(running) \ {r} /\ IsInjective(running')
  BY <1>1, WithoutProperties, WithoutElements DEF RequestTypes, StatusFits
<1>5. WaitingTypes' /\ DequesFit' /\ Waits' = Waits \ {r}
  <2>1. CASE status[r] = "running"
    <3>1. UNCHANGED waiting /\ r \notin Waits
      BY <1>1, <2>1 DEF waiting, StatusFits
    <3> QED
      BY <1>1, <3>1, QueueStays
  <2>2. CASE status[r] # "running"
    <3>1. r \in Waits
      BY <1>1, <2>2 DEF StatusFits, RequestTypes
    <3> QED
      BY <1>1, <2>2, <3>1, TakenOut
  <2> QED
    BY <2>1, <2>2
<1>6. FeedbackTypes' /\ StepTypes'
  BY <1>1, <1>2 DEF FeedbackTypes, StepTypes, QuantumOf
<1>7. StatusFits'
  <2>1. ASSUME NEW s \in Requests
        PROVE  /\ status'[s] \in {"waiting", "preempted"} <=> s \in Waits'
               /\ status'[s] = "running" <=> s \in ToSet(running')
               /\ status'[s] # "new" <=> s \in ToSet(arrived')
    <3>1. CASE s = r
      BY <1>1, <1>3, <1>4, <1>5, <3>1 DEF StatusFits
    <3>2. CASE s # r
      BY <1>1, <1>3, <1>4, <1>5, <3>2 DEF StatusFits
    <3> QED
      BY <3>1, <3>2
  <2> QED
    BY <1>1, <1>4, <2>1 DEF StatusFits
<1>8. blocks' \in [Requests -> Nat] /\ PoolFits'
  BY <1>1, <1>2, <1>3, PoolReturned
<1>9. RequestTypes'
  BY <1>1, <1>3, <1>4, <1>8 DEF RequestTypes
<1>10. TokensFit'
  BY <1>1, <1>3 DEF TokensFit
<1>11. batch = <<>> /\ ToSet(batch) = {} /\ ~Building
  BY <1>1 DEF BatchFits, ToSet, Building
<1>12. BatchFits' /\ CursorFits'
  BY <1>1, <1>11 DEF BatchFits, CursorFits, Building
<1> QED
  BY <1>2, <1>5, <1>6, <1>7, <1>8, <1>9, <1>10, <1>12

\* The promotions, and the change of queues, keep everyone.
LEMMA BeginScheduleInv ==
    ASSUME PolicyInv, BeginSchedule
    PROVE  PolicyInv'
<1> USE DEF PolicyInv
<1>1. /\ pc = "input" /\ pc' = "running" /\ index' = 1 /\ budget' = MaxBatch /\ preempted' = FALSE
      /\ num' = [r \in Requests |-> 0] /\ batch' = <<>>
      /\ status' = status /\ arrived' = arrived /\ tokens' = tokens /\ computed' = computed
      /\ blocks' = blocks /\ service' = service /\ programWait' = programWait
      /\ finishedJobs' = finishedJobs /\ unreported' = unreported /\ current' = current
  BY DEF BeginSchedule, reqs, programs
<1>2. /\ Waits \subseteq ToSet(arrived) /\ ToSet(running) \subseteq ToSet(arrived)
      /\ Waits \subseteq Requests /\ ToSet(running) \subseteq Requests
      /\ arrived \in Seq(Requests) /\ IsInjective(arrived) /\ running \in Seq(Requests)
  <2>1. Waits \subseteq Requests /\ ToSet(running) \subseteq Requests
    BY WaitingHolds, ElementsType DEF RequestTypes
  <2> QED
    BY <2>1 DEF StatusFits, RequestTypes
<1>3. /\ WaitingTypes' /\ DequesFit' /\ Waits' = Waits /\ FeedbackTypes'
      /\ running' \in Seq(Requests) /\ ToSet(running') = ToSet(running) /\ IsInjective(running')
      /\ policy' \in {policy, "FCFS"} /\ atArrival' = atArrival
      /\ \A s \in Requests : status[s] = "finished" => served'[s] = served[s]
  <2>1. CASE Switches
    <3>1. SwitchToFcfs /\ policy = "AUTELLIX"
      BY <2>1 DEF BeginSchedule, Switches
    <3>2. /\ running' = Sorted(ToSet(running), Older) /\ policy' = "FCFS" /\ level' = level
          /\ quanta' = quanta /\ waited' = waited /\ served' = served /\ atArrival' = atArrival
      BY <3>1 DEF SwitchToFcfs, feedback
    <3>3. WaitingTypes' /\ DequesFit' /\ Waits' = Waits
      BY <1>2, <3>1, Switched DEF FeedbackTypes
    <3>4. running' \in Seq(Requests) /\ ToSet(running') = ToSet(running) /\ IsInjective(running')
      BY <1>2, <3>2, SortedLists DEF FeedbackTypes
    <3>5. FeedbackTypes'
      BY <3>2 DEF FeedbackTypes, QuantumOf
    <3> QED
      BY <3>2, <3>3, <3>4, <3>5
  <2>2. CASE policy = "AUTELLIX" /\ ~Switches
    <3>1. Promote
      BY <2>2 DEF BeginSchedule
    <3> DEFINE active == ToSet(WaitingList) \cup ToSet(running)
               up == {r \in active : ShouldPromote(r)}
    <3>2. /\ level' = [r \in Requests |-> IF r \in up THEN 1 ELSE level[r]]
          /\ quanta' = [r \in Requests |-> IF r \in up THEN QuantumOf(1) ELSE quanta[r]]
          /\ waited' = [r \in Requests |-> IF r \in up THEN 0 ELSE waited[r]]
          /\ served' = [r \in Requests |-> IF r \in up THEN 0 ELSE served[r]]
          /\ MoveUp(up \cap ToSet(WaitingList))
          /\ running' = Sorted(ToSet(running), Sooner)
          /\ policy' = policy /\ line' = line /\ atArrival' = atArrival
      BY <3>1 DEF Promote
    <3>3. up \subseteq Waits \cup ToSet(running) /\ ToSet(WaitingList) = Waits
      BY WaitingHolds
    <3> HIDE DEF up
    <3>4. FeedbackTypes'
      <4>1. level' \in [Requests -> Levels]
        BY <3>2, LevelFacts DEF FeedbackTypes
      <4>2. /\ quanta' \in [Requests -> Nat] /\ waited' \in [Requests -> Nat]
            /\ served' \in [Requests -> Nat] /\ atArrival' \in [Requests -> Nat]
        <5>1. QuantumOf(1) \in Nat
          BY LevelFacts, PolicyAssumption
        <5>2. quanta' \in [Requests -> Nat]
          BY <3>2, <5>1 DEF FeedbackTypes
        <5>3. waited' \in [Requests -> Nat] /\ served' \in [Requests -> Nat]
          BY <3>2 DEF FeedbackTypes
        <5> QED
          BY <3>2, <5>2, <5>3 DEF FeedbackTypes
      <4>3. ASSUME NEW s \in Requests PROVE quanta'[s] <= QuantumOf(level'[s])
        <5>1. CASE s \in up
          <6>1. quanta'[s] = QuantumOf(1) /\ level'[s] = 1 /\ QuantumOf(1) \in 1..MaxBatch
            BY <3>2, <5>1, LevelFacts
          <6> QED
            BY <6>1, PolicyAssumption
        <5>2. CASE s \notin up
          BY <3>2, <5>2 DEF FeedbackTypes
        <5> QED
          BY <5>1, <5>2
      <4> QED
        BY <4>1, <4>2, <4>3 DEF FeedbackTypes, QuantumOf
    <3>5. running' \in Seq(Requests) /\ ToSet(running') = ToSet(running) /\ IsInjective(running')
      BY <1>2, <3>2, <3>4, SortedLists DEF FeedbackTypes
    <3>6. WaitingTypes' /\ DequesFit' /\ Waits' = Waits
      <4> DEFINE queued == up \cap Waits
      <4>1. /\ queued \subseteq Waits /\ MoveUp(queued)
            /\ \A s \in queued : level'[s] = 1
            /\ \A s \in Waits \ queued : level'[s] = level[s]
        BY <1>2, <3>2, <3>3
      <4> HIDE DEF queued
      <4> QED
        BY <2>2, <3>2, <4>1, MovedUp
    <3>7. \A s \in Requests : status[s] = "finished" => served'[s] = served[s]
      <4>1. \A s \in Requests : status[s] = "finished" => s \notin up
        BY <3>3 DEF StatusFits
      <4> QED
        BY <3>2, <4>1
    <3> QED
      BY <3>2, <3>4, <3>5, <3>6, <3>7
  <2>3. CASE ~Switches /\ policy # "AUTELLIX"
    <3>1. UNCHANGED <<running, waiting, feedback>>
      BY <2>3 DEF BeginSchedule, Switches
    <3>2. /\ running' = running /\ UNCHANGED waiting /\ policy' = policy /\ level' = level
          /\ quanta' = quanta /\ waited' = waited /\ served' = served /\ atArrival' = atArrival
      BY <3>1 DEF feedback, waiting
    <3>3. WaitingTypes' /\ DequesFit' /\ Waits' = Waits
      BY <3>2, QueueStays
    <3>4. FeedbackTypes'
      BY <3>2 DEF FeedbackTypes, QuantumOf
    <3> QED
      BY <1>2, <3>2, <3>3, <3>4 DEF StatusFits
  <2> QED
    BY <2>1, <2>2, <2>3 DEF Switches
<1>4. RequestTypes' /\ ProgramTypes'
  BY <1>1, <1>3 DEF RequestTypes, ProgramTypes
<1>5. MaxBatch \in Nat \ {0}
  BY PolicyAssumption
<1>6. num' \in [Requests -> 0..MaxBatch] /\ (\A r \in Requests : num'[r] = 0) /\ ToSet(batch') = {}
  BY <1>1, <1>5 DEF ToSet
<1>7. StepTypes'
  <2>1. batch' \in Seq(Requests) /\ budget' \in 0..MaxBatch /\ index' \in Nat \ {0}
    BY <1>1, <1>5
  <2> QED
    BY <1>1, <1>6, <2>1 DEF StepTypes
<1>8. StatusFits'
  BY <1>1, <1>3 DEF StatusFits
<1>9. \A r \in Requests : num[r] = 0
  BY <1>1 DEF BatchFits, Building
<1>10. PoolFits'
  <2>1. FreeBlocks' = FreeBlocks
    BY <1>1 DEF FreeBlocks
  <2>2. \A r \in Requests : num'[r] = num[r]
    BY <1>6, <1>9
  <2> QED
    BY <1>1, <2>1, <2>2 DEF PoolFits, BlocksFor
<1>11. TokensFit'
  <2>1. \A r \in Requests : num'[r] = num[r]
    BY <1>6, <1>9
  <2> QED
    BY <1>1, <2>1 DEF TokensFit
<1>12. BatchFits'
  <2>1. TotalScheduled' = 0
    <3>1. Tally(num') = 0
      <4>1. num' \in [Requests -> Nat]
        BY <1>1
      <4> QED
        BY <1>6, <4>1, TallyNat
    <3> QED
      BY <3>1 DEF TotalScheduled
  <2>2. IsInjective(batch')
    BY <1>1 DEF IsInjective
  <2> QED
    BY <1>1, <1>5, <1>6, <2>1, <2>2 DEF BatchFits, Building
<1>13. CursorFits'
  BY <1>1, <1>6 DEF CursorFits
<1>14. StepsFollow' /\ ServiceKept'
  BY <1>1, <1>3, ServiceStays
<1> QED
  BY <1>3, <1>4, <1>7, <1>8, <1>10, <1>11, <1>12, <1>13, <1>14

\* A quantum is granted to the request in hand.
LEMMA GrantKeeps ==
    ASSUME FeedbackTypes, NEW r \in Requests, quanta' = Granted(r),
           level' = level, waited' = waited, served' = served, atArrival' = atArrival
    PROVE  FeedbackTypes'
<1>1. CASE policy = "FCFS"
  <2>1. quanta' = quanta
    BY <1>1 DEF Granted
  <2> QED
    BY <2>1 DEF FeedbackTypes, QuantumOf
<1>2. CASE policy # "FCFS"
  <2>1. quanta' = [quanta EXCEPT ![r] = Quantum(r)]
    BY <1>2 DEF Granted
  <2>2. Quantum(r) \in Nat /\ Quantum(r) <= QuantumOf(level[r])
    <3>1. MaxBatch \in Nat
      BY PolicyAssumption
    <3> QED
      BY <3>1, QuantumFits
  <2>3. /\ quanta' \in [Requests -> Nat] /\ quanta'[r] = Quantum(r)
        /\ \A s \in Requests \ {r} : quanta'[s] = quanta[s]
    BY <2>1, <2>2 DEF FeedbackTypes
  <2>4. \A s \in Requests : quanta'[s] <= QuantumOf(level'[s])
    BY <2>2, <2>3 DEF FeedbackTypes
  <2> QED
    BY <2>3, <2>4 DEF FeedbackTypes, QuantumOf
<1> QED
  BY <1>1, <1>2

\* A step of the loops that touches no request and no entry of the batch.
LEMMA ControlStep ==
    ASSUME PolicyInv, UNCHANGED <<reqs, running, waiting, programs, unreported, num, batch>>,
           UNCHANGED <<level, waited, served, atArrival>>, FeedbackTypes', StepTypes', CursorFits',
           \/ Building /\ Building' /\ budget' = budget
           \/ ~Building /\ ~Building' /\ batch = <<>>
    PROVE  PolicyInv'
<1> USE DEF PolicyInv
<1>1. /\ status' = status /\ arrived' = arrived /\ tokens' = tokens /\ computed' = computed
      /\ blocks' = blocks /\ running' = running /\ UNCHANGED waiting /\ policy' = policy
      /\ service' = service /\ programWait' = programWait /\ finishedJobs' = finishedJobs
      /\ num' = num /\ batch' = batch /\ level' = level /\ served' = served /\ atArrival' = atArrival
  BY DEF reqs, programs, waiting
<1>2. WaitingTypes' /\ DequesFit' /\ Waits' = Waits
  BY <1>1, QueueStays
<1>3. RequestTypes' /\ ProgramTypes' /\ StatusFits'
  BY <1>1, <1>2 DEF RequestTypes, ProgramTypes, StatusFits
<1>4. PoolFits'
  <2>1. FreeBlocks' = FreeBlocks
    BY <1>1 DEF FreeBlocks
  <2> QED
    BY <1>1, <2>1 DEF PoolFits, BlocksFor
<1>5. TokensFit'
  <2>1. ~(pc = "output" /\ batch # <<>>)
    BY DEF Building
  <2>2. batch = <<>> => ToSet(batch) = {}
    BY DEF ToSet
  <2>3. \A r \in Requests : status[r] = "running" => computed[r] < tokens[r]
    BY <2>1, <2>2 DEF TokensFit
  <2> QED
    BY <1>1, <2>3 DEF TokensFit
<1>6. BatchFits'
  <2>1. TotalScheduled' = TotalScheduled
    BY <1>1 DEF TotalScheduled
  <2> QED
    BY <1>1, <2>1 DEF BatchFits, Building
<1>7. StepsFollow' /\ ServiceKept'
  BY <1>1, ServiceStays
<1> QED
  BY <1>2, <1>3, <1>4, <1>5, <1>6, <1>7

\* The RUNNING loop takes the next request in hand.
LEMMA PickRunningInv ==
    ASSUME PolicyInv, PickRunning
    PROVE  PolicyInv'
<1> USE DEF PolicyInv
<1>1. /\ pc = "running" /\ index <= Len(running) /\ budget > 0 /\ current' = running[index]
      /\ quanta' = Granted(running[index]) /\ pc' = "alloc"
      /\ UNCHANGED <<reqs, running, waiting, programs, unreported, num, batch>>
      /\ UNCHANGED <<level, waited, served, atArrival>>
      /\ index' = index /\ budget' = budget /\ preempted' = preempted
  BY DEF PickRunning
<1>2. index \in DOMAIN running /\ running[index] \in Requests
  BY <1>1 DEF RequestTypes, StepTypes
<1>3. FeedbackTypes'
  BY <1>1, <1>2, GrantKeeps
<1>4. StepTypes'
  BY <1>1, <1>2 DEF StepTypes
<1>5. CursorFits'
  BY <1>1, <1>2 DEF CursorFits
<1> QED
  BY <1>1, <1>3, <1>4, <1>5, ControlStep DEF Building

\* The RUNNING loop ends.
LEMMA LeaveRunningInv ==
    ASSUME PolicyInv, LeaveRunning
    PROVE  PolicyInv'
<1> USE DEF PolicyInv
<1>1. /\ pc = "running" /\ pc' \in {"commit", "waiting"}
      /\ UNCHANGED <<reqs, running, waiting, programs, unreported, num, batch>>
      /\ UNCHANGED <<level, waited, served, atArrival>> /\ quanta' = quanta
      /\ index' = index /\ budget' = budget /\ preempted' = preempted /\ current' = current
  BY DEF LeaveRunning, step, feedback
<1>2. FeedbackTypes' /\ StepTypes' /\ CursorFits'
  BY <1>1 DEF FeedbackTypes, StepTypes, CursorFits, QuantumOf
<1> QED
  BY <1>1, <1>2, ControlStep DEF Building

\* The WAITING loop ends.
LEMMA LeaveWaitingInv ==
    ASSUME PolicyInv, LeaveWaiting
    PROVE  PolicyInv'
<1> USE DEF PolicyInv
<1>1. /\ pc = "waiting" /\ pc' = "commit"
      /\ quanta' = IF MayAdmit THEN Granted(Head(WaitingList)) ELSE quanta
      /\ UNCHANGED <<reqs, running, waiting, programs, unreported, num, batch>>
      /\ UNCHANGED <<level, waited, served, atArrival>>
      /\ index' = index /\ budget' = budget /\ preempted' = preempted /\ current' = current
  BY DEF LeaveWaiting, step
<1>2. FeedbackTypes'
  <2>1. CASE MayAdmit
    <3>1. WaitingList \in Seq(Requests) /\ WaitingList # <<>>
      BY <2>1, WaitingHolds DEF MayAdmit
    <3>2. Head(WaitingList) \in Requests
      BY <3>1
    <3> QED
      BY <1>1, <2>1, <3>2, GrantKeeps
  <2>2. CASE ~MayAdmit
    BY <1>1, <2>2 DEF FeedbackTypes, QuantumOf
  <2> QED
    BY <2>1, <2>2
<1>3. StepTypes' /\ CursorFits'
  BY <1>1 DEF StepTypes, CursorFits
<1> QED
  BY <1>1, <1>2, <1>3, ControlStep DEF Building

\* update_from_output() ends.
LEMMA EndOutputInv ==
    ASSUME PolicyInv, EndOutput
    PROVE  PolicyInv'
<1> USE DEF PolicyInv
<1>1. /\ pc = "output" /\ batch = <<>> /\ pc' = "input"
      /\ UNCHANGED <<reqs, running, waiting, programs, unreported, num, batch>>
      /\ UNCHANGED <<level, waited, served, atArrival>> /\ quanta' = quanta
      /\ index' = 1 /\ budget' = 0 /\ preempted' = FALSE /\ current' = current
  BY DEF EndOutput, feedback
<1>2. FeedbackTypes' /\ CursorFits'
  BY <1>1 DEF FeedbackTypes, CursorFits, QuantumOf
<1>3. StepTypes'
  <2>1. budget' \in 0..MaxBatch /\ index' \in Nat \ {0}
    BY <1>1, PolicyAssumption
  <2>2. preempted' \in BOOLEAN
    BY <1>1
  <2>3. unreported' = unreported /\ num' = num /\ batch' = batch
    BY <1>1
  <2> QED
    BY <1>1, <2>1, <2>2, <2>3 DEF StepTypes
<1> QED
  BY <1>1, <1>2, <1>3, ControlStep DEF Building

\* The pool gives a scheduled request the blocks of its chunk.
LEMMA PoolTaken ==
    ASSUME RequestTypes, PoolFits, NEW r \in Requests, NEW n \in Nat,
           FitsPool(r, n), num[r] = 0, num'[r] = n,
           blocks' = [blocks EXCEPT ![r] = BlocksFor(computed[r] + n)],
           computed' = computed, status'[r] = "running",
           \A s \in Requests \ {r} : status'[s] = status[s] /\ num'[s] = num[s]
    PROVE  blocks' \in [Requests -> Nat] /\ PoolFits'
<1> DEFINE m == BlocksFor(computed[r] + n)
<1>1. blocks \in [Requests -> Nat] /\ blocks[r] \in Nat /\ computed[r] \in Nat /\ computed[r] + n \in Nat
  BY DEF RequestTypes
<1>2. m \in Nat
  BY <1>1, BlocksForFacts
<1>3. m - blocks[r] <= FreeBlocks
  BY DEF FitsPool
<1>4. blocks' = [blocks EXCEPT ![r] = m]
  OBVIOUS
<1> HIDE DEF m
<1>5. blocks' \in [Requests -> Nat] /\ FreeBlocks \in Int /\ FreeBlocks' = FreeBlocks + (blocks[r] - m)
  BY <1>1, <1>2, <1>4, PoolAfter
<1>6. FreeBlocks' >= 0
  BY <1>1, <1>2, <1>3, <1>5
<1>7. ASSUME NEW s \in Requests
      PROVE  IF status'[s] = "running" THEN blocks'[s] >= BlocksFor(computed'[s] + num'[s])
                                       ELSE blocks'[s] = 0
  <2>1. CASE s = r
    <3>1. blocks'[s] = m /\ computed'[s] + num'[s] = computed[r] + n
      BY <1>1, <1>4, <2>1
    <3> QED
      BY <1>2, <2>1, <3>1 DEF m
  <2>2. CASE s # r
    <3>1. /\ blocks'[s] = blocks[s] /\ status'[s] = status[s]
          /\ computed'[s] = computed[s] /\ num'[s] = num[s]
      BY <1>1, <1>4, <2>2
    <3> QED
      BY <3>1 DEF PoolFits
  <2> QED
    BY <2>1, <2>2
<1> QED
  BY <1>5, <1>6, <1>7 DEF PoolFits, BlocksFor

\* The request in hand is scheduled.
LEMMA ScheduleRunningInv ==
    ASSUME PolicyInv, AttemptFits, ScheduleRunning
    PROVE  PolicyInv'
<1> USE DEF PolicyInv
<1> DEFINE r == current
           n == attempt
<1>1. /\ pc = "alloc" /\ FitsPool(r, n) /\ blocks' = [blocks EXCEPT ![r] = BlocksFor(computed[r] + n)]
      /\ Schedules(r, n) /\ index' = index + 1 /\ current' = Nobody /\ pc' = "running"
      /\ status' = status /\ arrived' = arrived /\ tokens' = tokens /\ computed' = computed
      /\ running' = running /\ UNCHANGED waiting /\ policy' = policy
      /\ service' = service /\ programWait' = programWait /\ finishedJobs' = finishedJobs
      /\ unreported' = unreported /\ preempted' = preempted
  BY DEF ScheduleRunning, waiting, programs
<1>2. /\ index \in DOMAIN running /\ r = running[index] /\ budget > 0 /\ r \in ToSet(running)
      /\ r \in Requests /\ r \notin ToSet(batch)
  <2>1. index \in DOMAIN running /\ r = running[index] /\ budget > 0
    BY <1>1 DEF CursorFits
  <2>2. r \in ToSet(running) /\ r \in Requests
    BY <2>1, ElementsType DEF ToSet, RequestTypes
  <2>3. r \notin ToSet(batch)
    BY <1>1, <2>1 DEF CursorFits, StepTypes
  <2> QED
    BY <2>1, <2>2, <2>3
<1>3. Building /\ Building' /\ pc # "output"
  BY <1>1 DEF Building
<1>4. /\ budget \in 1..MaxBatch /\ tokens[r] \in Nat /\ computed[r] \in Nat
      /\ status[r] = "running" /\ computed[r] < tokens[r] /\ num[r] = 0
  <2>1. budget \in 1..MaxBatch
    BY <1>2, PolicyAssumption DEF StepTypes
  <2>2. status[r] = "running" /\ tokens[r] \in Nat /\ computed[r] \in Nat
    BY <1>2 DEF StatusFits, RequestTypes
  <2>3. computed[r] < tokens[r]
    BY <1>2, <1>3, <2>2 DEF TokensFit
  <2>4. num[r] \in 0..MaxBatch /\ ~(num[r] > 0)
    BY <1>2, <1>3 DEF StepTypes, BatchFits
  <2> QED
    BY <2>1, <2>2, <2>3, <2>4, PolicyAssumption
<1>5. /\ n \in 1..budget /\ n \in Nat \ {0} /\ computed[r] + n \in Nat /\ computed[r] + n <= tokens[r]
      /\ policy # "FCFS" => n <= Quantum(r)
  BY <1>1, <1>4 DEF AttemptFits
<1> HIDE DEF r, n
<1>6. /\ FeedbackTypes' /\ atArrival' = atArrival
      /\ \A s \in Requests \ {r} : level'[s] = level[s] /\ served'[s] = served[s]
  BY <1>1, <1>2, <1>5, Served DEF Schedules
<1>7. /\ budget' \in 0..MaxBatch /\ num' \in [Requests -> 0..MaxBatch] /\ num'[r] = n
      /\ \A s \in Requests \ {r} : num'[s] = num[s]
      /\ batch' \in Seq(Requests) /\ ToSet(batch') = ToSet(batch) \cup {r} /\ BatchFits'
  <2>1. ToSet(running) \cup {r} \subseteq ToSet(running')
    BY <1>1, <1>2
  <2> QED
    BY <1>1, <1>2, <1>3, <1>5, <2>1, BatchGrows
<1>8. WaitingTypes' /\ DequesFit' /\ Waits' = Waits
  <2>1. r \notin Waits /\ Waits \subseteq Requests
    BY <1>2, <1>4, WaitingHolds DEF StatusFits
  <2> QED
    BY <1>1, <1>6, <2>1, QueueStays
<1>9. blocks' \in [Requests -> Nat] /\ PoolFits'
  BY <1>1, <1>2, <1>4, <1>5, <1>7, PoolTaken
<1>10. RequestTypes' /\ ProgramTypes' /\ StatusFits'
  BY <1>1, <1>8, <1>9 DEF RequestTypes, ProgramTypes, StatusFits
<1>11. StepTypes'
  <2>1. index' \in Nat \ {0} /\ current' \in Requests \cup {Nobody}
    BY <1>1 DEF StepTypes
  <2>2. pc' \in {"input", "running", "alloc", "waiting", "commit", "output"}
    BY <1>1
  <2>3. unreported' \in BOOLEAN /\ preempted' \in BOOLEAN
    BY <1>1 DEF StepTypes
  <2> QED
    BY <1>7, <2>1, <2>2, <2>3 DEF StepTypes
<1>12. TokensFit'
  <2>1. ASSUME NEW s \in Requests PROVE computed'[s] + num'[s] <= tokens'[s]
    <3>1. CASE s = r
      BY <1>1, <1>5, <1>7, <3>1
    <3>2. CASE s # r
      BY <1>1, <1>7, <3>2 DEF TokensFit
    <3> QED
      BY <3>1, <3>2
  <2> QED
    BY <1>1, <1>3, <2>1 DEF TokensFit
<1>13. CursorFits'
  <2> SUFFICES ASSUME NEW i \in DOMAIN running, i >= index + 1 PROVE running[i] \notin ToSet(batch')
    BY <1>1 DEF CursorFits
  <2>1. i \in Nat /\ index \in Nat /\ i >= index /\ i # index
    <3>1. index \in Nat /\ running \in Seq(Requests)
      BY DEF RequestTypes, StepTypes
    <3>2. i \in Nat
      BY <3>1, LenProperties
    <3> QED
      BY <3>1, <3>2
  <2>2. running[i] \notin ToSet(batch)
    BY <1>1, <2>1 DEF CursorFits
  <2>3. running[i] # r
    BY <1>2, <2>1 DEF StatusFits, IsInjective
  <2> QED
    BY <1>7, <2>2, <2>3
<1>14. StepsFollow' /\ ServiceKept'
  <2>1. \A s \in Requests : status[s] = "finished" => served'[s] = served[s]
    BY <1>4, <1>6
  <2> QED
    BY <1>1, <1>6, <2>1, ServiceStays
<1> QED
  BY <1>6, <1>7, <1>8, <1>9, <1>10, <1>11, <1>12, <1>13, <1>14

\* A preempted request leaves the batch and its tokens return to the budget.
LEMMA BatchShrinks ==
    ASSUME StepTypes, BatchFits, Building, Building', NEW v \in Requests,
           num' = [num EXCEPT ![v] = 0], batch' = Without(batch, v), budget' = budget + Refund(v),
           ToSet(running') = ToSet(running) \ {v}
    PROVE  /\ budget' \in 0..MaxBatch /\ budget' >= budget
           /\ num' \in [Requests -> 0..MaxBatch] /\ num'[v] = 0
           /\ \A s \in Requests \ {v} : num'[s] = num[s]
           /\ batch' \in Seq(Requests) /\ ToSet(batch') \subseteq ToSet(batch)
           /\ BatchFits'
<1>1. /\ num \in [Requests -> 0..MaxBatch] /\ batch \in Seq(Requests) /\ budget \in 0..MaxBatch
      /\ MaxBatch \in Nat /\ ToSet(batch) = {s \in Requests : num[s] > 0}
      /\ budget + TotalScheduled = MaxBatch /\ budget' = budget + num[v]
  BY PolicyAssumption DEF StepTypes, BatchFits, Refund
<1>2. num[v] \in 0..MaxBatch /\ 0 \in 0..MaxBatch
  BY <1>1
<1>3. /\ num' \in [Requests -> 0..MaxBatch] /\ TotalScheduled \in Int
      /\ TotalScheduled' = TotalScheduled + (0 - num[v])
  BY <1>1, <1>2, TotalAfter
<1>4. TotalScheduled' \in Nat
  <2>1. num' \in [Requests -> Nat]
    BY <1>1, <1>3
  <2>2. Tally(num') \in Nat
    BY <2>1, TallyNat
  <2> QED
    BY <2>2 DEF TotalScheduled
<1>5. num'[v] = 0 /\ \A s \in Requests \ {v} : num'[s] = num[s]
  BY <1>1
<1>6. budget' + TotalScheduled' = MaxBatch /\ budget' \in 0..MaxBatch /\ budget' >= budget
  <2>1. /\ budget \in Nat /\ num[v] \in Nat /\ MaxBatch \in Nat /\ budget' = budget + num[v]
        /\ budget + TotalScheduled = MaxBatch
    BY <1>1, <1>2
  <2>2. budget' \in Nat /\ budget' >= budget
    BY <2>1
  <2> DEFINE a == num[v]
  <2>3. budget' + TotalScheduled' = MaxBatch
    <3>1. /\ TotalScheduled \in Int /\ TotalScheduled' = TotalScheduled + (0 - a)
          /\ a \in Nat /\ budget' = budget + a
      BY <1>3, <2>1
    <3> HIDE DEF a
    <3> QED
      BY <2>1, <3>1
  <2>4. budget' \in 0..MaxBatch
    BY <1>4, <2>1, <2>2, <2>3
  <2> QED
    BY <2>2, <2>3, <2>4
<1>7. batch' \in Seq(Requests) /\ ToSet(batch') = ToSet(batch) \ {v} /\ IsInjective(batch')
  BY <1>1, WithoutProperties, WithoutElements DEF BatchFits
<1>8. ToSet(batch') = {s \in Requests : num'[s] > 0}
  <2>1. \A s \in Requests : s \in ToSet(batch') <=> num'[s] > 0
    BY <1>1, <1>5, <1>7
  <2>2. ToSet(batch') \subseteq Requests
    BY <1>7, ElementsType
  <2> QED
    BY <2>1, <2>2
<1>9. ToSet(batch') \subseteq ToSet(running')
  BY <1>7 DEF BatchFits
<1>10. pc' # "input"
  BY DEF Building
<1>11. BatchFits'
  BY <1>6, <1>7, <1>8, <1>9, <1>10 DEF BatchFits
<1> QED
  BY <1>3, <1>5, <1>6, <1>7, <1>11

\* Taking a request out of the running list leaves the cursor on the one in hand.
LEMMA CursorMoves ==
    ASSUME RequestTypes, StatusFits, StepTypes, CursorFits, pc = "alloc",
           NEW v \in ToSet(running), running' = Without(running, v),
           index' = IF Position(running, v) < index THEN index - 1 ELSE index,
           ToSet(batch') \subseteq ToSet(batch), budget' >= budget, budget' \in 0..MaxBatch,
           pc' = IF v = current THEN "commit" ELSE "alloc",
           current' = IF v = current THEN Nobody ELSE current
    PROVE  index' \in Nat \ {0} /\ CursorFits'
<1> DEFINE p == Position(running, v)
<1>1. running \in Seq(Requests) /\ Contains(running, v)
  BY DEF RequestTypes, Contains, ToSet
<1>2. p \in 1..Len(running) /\ running[p] = v
  BY <1>1, WithoutProperties
<1>3. /\ running' = RemoveAt(running, p) /\ running' \in Seq(Requests)
      /\ Len(running') = Len(running) - 1 /\ Len(running) \in Nat
      /\ \A k \in 1..(Len(running) - 1) :
            running'[k] = IF k < p THEN running[k] ELSE running[k + 1]
  <2>1. running' = RemoveAt(running, p)
    BY <1>1 DEF Without
  <2> HIDE DEF p
  <2>2. /\ RemoveAt(running, p) \in Seq(Requests)
        /\ Len(RemoveAt(running, p)) = Len(running) - 1
        /\ \A k \in 1..(Len(running) - 1) :
              RemoveAt(running, p)[k] = IF k < p THEN running[k] ELSE running[k + 1]
    BY <1>1, <1>2, RemoveAtProperties
  <2>3. Len(running) \in Nat
    BY <1>1, LenProperties
  <2> QED
    BY <2>1, <2>2, <2>3
<1>4. DOMAIN running' = 1..(Len(running) - 1) /\ DOMAIN running = 1..Len(running)
  BY <1>1, <1>3, LenProperties
<1>5. index \in Nat \ {0} /\ index \in 1..Len(running) /\ current = running[index] /\ budget > 0
  BY <1>4 DEF StepTypes, CursorFits
<1>6. index' = IF p < index THEN index - 1 ELSE index
  OBVIOUS
<1> HIDE DEF p
<1>7. index' \in Nat \ {0}
  BY <1>2, <1>3, <1>5, <1>6
<1>8. CASE v = current
  BY <1>7, <1>8 DEF CursorFits
<1>9. CASE v # current
  <2>1. p # index
    BY <1>2, <1>5, <1>9
  <2>2. index' \in 1..(Len(running) - 1)
    BY <1>2, <1>3, <1>5, <1>6, <2>1
  <2>3. running'[index'] = current
    <3>1. CASE p < index
      <4>1. index' = index - 1 /\ ~(index' < p) /\ index' + 1 = index
        BY <1>2, <1>3, <1>5, <1>6, <3>1
      <4> QED
        BY <1>3, <1>5, <2>2, <4>1
    <3>2. CASE ~(p < index)
      <4>1. index' = index /\ index' < p
        BY <1>2, <1>3, <1>5, <1>6, <2>1, <3>2
      <4> QED
        BY <1>3, <1>5, <2>2, <4>1
    <3> QED
      BY <3>1, <3>2
  <2>4. ASSUME NEW i \in DOMAIN running', i >= index' PROVE running'[i] \notin ToSet(batch')
    <3>1. PICK k \in DOMAIN running : k >= index /\ running'[i] = running[k]
      <4>1. CASE i < p
        <5>1. index' = index /\ i \in 1..Len(running)
          BY <1>2, <1>3, <1>4, <1>5, <1>6, <2>4, <4>1
        <5> QED
          BY <1>3, <1>4, <2>4, <4>1, <5>1
      <4>2. CASE ~(i < p)
        <5>1. i + 1 \in 1..Len(running) /\ i + 1 >= index
          BY <1>2, <1>3, <1>4, <1>5, <1>6, <2>4, <4>2
        <5> QED
          BY <1>3, <1>4, <4>2, <5>1
      <4> QED
        BY <4>1, <4>2
    <3>2. running[k] \notin ToSet(batch)
      BY <3>1 DEF CursorFits
    <3> QED
      BY <3>1, <3>2
  <2>5. budget' > 0
    BY <1>5, PolicyAssumption DEF StepTypes
  <2>6. current' = current
    BY <1>9
  <2> QED
    BY <1>4, <1>7, <1>9, <2>2, <2>3, <2>4, <2>5, <2>6 DEF CursorFits
<1> QED
  BY <1>8, <1>9

\* A preemption puts its victim at the head of the deque of its level.
LEMMA PreemptRunningInv ==
    ASSUME PolicyInv, PreemptRunning
    PROVE  PolicyInv'
<1> USE DEF PolicyInv
<1> DEFINE v == Victim
<1>1. /\ pc = "alloc" /\ running' = Without(running, v)
      /\ num' = [num EXCEPT ![v] = 0] /\ batch' = Without(batch, v)
      /\ budget' = budget + Refund(v)
      /\ index' = IF Position(running, v) < index THEN index - 1 ELSE index
      /\ blocks' = [blocks EXCEPT ![v] = 0] /\ computed' = [computed EXCEPT ![v] = 0]
      /\ status' = [status EXCEPT ![v] = "preempted"] /\ Prepend(v)
      /\ pc' = IF v = current THEN "commit" ELSE "alloc"
      /\ current' = IF v = current THEN Nobody ELSE current
      /\ preempted' = TRUE
      /\ arrived' = arrived /\ tokens' = tokens /\ policy' = policy
      /\ level' = level /\ quanta' = quanta /\ waited' = waited /\ served' = served
      /\ atArrival' = atArrival /\ service' = service /\ programWait' = programWait
      /\ finishedJobs' = finishedJobs /\ unreported' = unreported
  BY DEF PreemptRunning, feedback, programs
<1>2. v \in ToSet(running) /\ v \in Requests /\ status[v] = "running" /\ v \notin Waits
  <2>1. running # <<>>
    BY <1>1 DEF CursorFits
  <2>2. v \in ToSet(running)
    BY <2>1, VictimRuns
  <2>3. v \in Requests
    BY <2>2, ElementsType DEF RequestTypes
  <2> QED
    BY <2>2, <2>3 DEF StatusFits
<1> HIDE DEF v
<1>3. /\ status'[v] = "preempted" /\ \A s \in Requests \ {v} : status'[s] = status[s]
      /\ status' \in [Requests -> {"new", "waiting", "running", "preempted", "finished"}]
      /\ computed' \in [Requests -> Nat] /\ computed'[v] = 0
      /\ \A s \in Requests \ {v} : computed'[s] = computed[s]
  BY <1>1, <1>2 DEF RequestTypes
<1>4. running' \in Seq(Requests) /\ ToSet(running') = ToSet(running) \ {v} /\ IsInjective(running')
  BY <1>1, WithoutProperties, WithoutElements DEF RequestTypes, StatusFits
<1>5. Building /\ Building' /\ pc' # "output"
  BY <1>1 DEF Building
<1>6. /\ budget' \in 0..MaxBatch /\ budget' >= budget
      /\ num' \in [Requests -> 0..MaxBatch] /\ num'[v] = 0
      /\ \A s \in Requests \ {v} : num'[s] = num[s]
      /\ batch' \in Seq(Requests) /\ ToSet(batch') \subseteq ToSet(batch) /\ BatchFits'
  BY <1>1, <1>2, <1>4, <1>5, BatchShrinks
<1>7. index' \in Nat \ {0} /\ CursorFits'
  BY <1>1, <1>2, <1>6, CursorMoves
<1>8. WaitingTypes' /\ DequesFit' /\ Waits' = Waits \cup {v}
  <2>1. level[v] \in Levels
    BY <1>2 DEF FeedbackTypes
  <2> QED
    BY <1>1, <1>2, <2>1, Entered
<1>9. FeedbackTypes' /\ ProgramTypes'
  BY <1>1 DEF FeedbackTypes, ProgramTypes, QuantumOf
<1>10. StepTypes'
  <2>1. preempted' \in BOOLEAN /\ current' \in Requests \cup {Nobody}
    BY <1>1 DEF StepTypes
  <2>2. pc' \in {"input", "running", "alloc", "waiting", "commit", "output"}
    BY <1>1
  <2> QED
    BY <1>1, <1>6, <1>7, <2>1, <2>2 DEF StepTypes
<1>11. StatusFits'
  <2>1. ASSUME NEW s \in Requests
        PROVE  /\ status'[s] \in {"waiting", "preempted"} <=> s \in Waits'
               /\ status'[s] = "running" <=> s \in ToSet(running')
               /\ status'[s] # "new" <=> s \in ToSet(arrived')
    <3>1. CASE s = v
      BY <1>1, <1>2, <1>3, <1>4, <1>8, <3>1 DEF StatusFits
    <3>2. CASE s # v
      BY <1>1, <1>3, <1>4, <1>8, <3>2 DEF StatusFits
    <3> QED
      BY <3>1, <3>2
  <2> QED
    BY <1>1, <1>4, <2>1 DEF StatusFits
<1>12. blocks' \in [Requests -> Nat] /\ PoolFits'
  BY <1>1, <1>2, <1>3, <1>6, PoolReturned
<1>13. RequestTypes'
  BY <1>1, <1>3, <1>4, <1>12 DEF RequestTypes
<1>14. TokensFit'
  <2> SUFFICES ASSUME NEW s \in Requests
               PROVE  /\ tokens'[s] >= Prompt[s] /\ tokens'[s] <= Total[s]
                      /\ status'[s] # "finished" => tokens'[s] < Total[s]
                      /\ status'[s] \in {"new", "waiting", "preempted"} => computed'[s] = 0
                      /\ computed'[s] + num'[s] <= tokens'[s]
                      /\ status'[s] = "running" => computed'[s] < tokens'[s]
    BY DEF TokensFit
  <2>1. CASE s = v
    BY <1>1, <1>2, <1>3, <1>6, <2>1 DEF TokensFit, RequestTypes
  <2>2. CASE s # v
    BY <1>1, <1>3, <1>6, <2>2 DEF TokensFit
  <2> QED
    BY <2>1, <2>2
<1>15. StepsFollow' /\ ServiceKept'
  BY <1>1, <1>2, <1>3, ServiceStays
<1> QED
  BY <1>6, <1>7, <1>8, <1>9, <1>10, <1>11, <1>12, <1>13, <1>14, <1>15

\* The first of the waiting requests is scheduled and runs.
LEMMA ScheduleWaitingInv ==
    ASSUME PolicyInv, ScheduleWaiting
    PROVE  PolicyInv'
<1> USE DEF PolicyInv
<1> DEFINE r == Head(WaitingList)
           n == NewTokens(r)
<1>1. /\ pc = "waiting" /\ MayAdmit /\ FitsPool(r, n) /\ TakeOut(r)
      /\ running' = Append(running, r) /\ status' = [status EXCEPT ![r] = "running"]
      /\ blocks' = [blocks EXCEPT ![r] = BlocksFor(n)] /\ Schedules(r, n)
      /\ arrived' = arrived /\ tokens' = tokens /\ computed' = computed /\ policy' = policy
      /\ service' = service /\ programWait' = programWait /\ finishedJobs' = finishedJobs
      /\ unreported' = unreported /\ pc' = pc /\ index' = index /\ current' = current
      /\ preempted' = preempted
  BY DEF ScheduleWaiting, programs
<1>2. /\ r \in Waits /\ r \in Requests /\ budget > 0
      /\ status[r] \in {"waiting", "preempted"} /\ r \notin ToSet(running) /\ r \notin ToSet(batch)
  <2>1. /\ WaitingList \in Seq(Requests) /\ WaitingList # <<>> /\ budget > 0
        /\ ToSet(WaitingList) = Waits /\ IsInjective(WaitingList) /\ Waits \subseteq Requests
    BY <1>1, WaitingHolds DEF MayAdmit
  <2>2. r \in Waits
    BY <2>1, TailElements
  <2>3. status[r] \in {"waiting", "preempted"} /\ r \notin ToSet(running)
    BY <2>1, <2>2 DEF StatusFits
  <2> QED
    BY <2>1, <2>2, <2>3 DEF BatchFits
<1>3. Building /\ Building' /\ pc' = "waiting"
  BY <1>1 DEF Building
<1>4. /\ budget \in 1..MaxBatch /\ tokens[r] \in Nat /\ computed[r] = 0
      /\ computed[r] < tokens[r] /\ num[r] = 0
  <2>1. budget \in 1..MaxBatch
    BY <1>2, PolicyAssumption DEF StepTypes
  <2>2. tokens[r] \in Nat /\ computed[r] = 0 /\ tokens[r] >= Prompt[r]
    BY <1>2 DEF RequestTypes, TokensFit
  <2>3. Prompt[r] \in Nat \ {0}
    BY <1>2, PolicyAssumption
  <2>4. num[r] \in 0..MaxBatch /\ ~(num[r] > 0)
    BY <1>2, <1>3 DEF StepTypes, BatchFits
  <2> QED
    BY <2>1, <2>2, <2>3, <2>4, PolicyAssumption
<1>5. /\ n \in 1..budget /\ n \in Nat \ {0} /\ computed[r] + n = n /\ n <= tokens[r]
      /\ policy # "FCFS" => n <= Quantum(r)
  <2>1. /\ n \in 1..budget /\ computed[r] + n <= tokens[r]
        /\ policy # "FCFS" => n <= Quantum(r)
    BY <1>2, <1>4, ChunkFits
  <2> HIDE DEF n, r
  <2> QED
    BY <1>4, <2>1
<1> HIDE DEF r, n
<1>6. /\ FeedbackTypes' /\ atArrival' = atArrival
      /\ \A s \in Requests \ {r} : level'[s] = level[s] /\ served'[s] = served[s]
  BY <1>1, <1>2, <1>5, Served DEF Schedules
<1>7. /\ running' \in Seq(Requests) /\ ToSet(running') = ToSet(running) \cup {r}
      /\ IsInjective(running')
  BY <1>1, <1>2, AppendType, AppendElements DEF RequestTypes, StatusFits
<1>8. /\ budget' \in 0..MaxBatch /\ num' \in [Requests -> 0..MaxBatch] /\ num'[r] = n
      /\ \A s \in Requests \ {r} : num'[s] = num[s]
      /\ batch' \in Seq(Requests) /\ BatchFits'
  BY <1>1, <1>2, <1>3, <1>5, <1>7, BatchGrows
<1>9. WaitingTypes' /\ DequesFit' /\ Waits' = Waits \ {r}
  BY <1>1, <1>2, <1>6, TakenOut
<1>10. /\ status'[r] = "running" /\ \A s \in Requests \ {r} : status'[s] = status[s]
       /\ status' \in [Requests -> {"new", "waiting", "running", "preempted", "finished"}]
  BY <1>1, <1>2 DEF RequestTypes
<1>11. blocks' \in [Requests -> Nat] /\ PoolFits'
  BY <1>1, <1>2, <1>4, <1>5, <1>8, <1>10, PoolTaken
<1>12. RequestTypes' /\ ProgramTypes'
  BY <1>1, <1>7, <1>10, <1>11 DEF RequestTypes, ProgramTypes
<1>13. StepTypes'
  BY <1>1, <1>8 DEF StepTypes
<1>14. StatusFits'
  <2>1. ASSUME NEW s \in Requests
        PROVE  /\ status'[s] \in {"waiting", "preempted"} <=> s \in Waits'
               /\ status'[s] = "running" <=> s \in ToSet(running')
               /\ status'[s] # "new" <=> s \in ToSet(arrived')
    <3>1. CASE s = r
      BY <1>1, <1>2, <1>7, <1>9, <1>10, <3>1 DEF StatusFits
    <3>2. CASE s # r
      BY <1>1, <1>7, <1>9, <1>10, <3>2 DEF StatusFits
    <3> QED
      BY <3>1, <3>2
  <2> QED
    BY <1>1, <1>7, <2>1 DEF StatusFits
<1>15. TokensFit'
  <2> SUFFICES ASSUME NEW s \in Requests
               PROVE  /\ tokens'[s] >= Prompt[s] /\ tokens'[s] <= Total[s]
                      /\ status'[s] # "finished" => tokens'[s] < Total[s]
                      /\ status'[s] \in {"new", "waiting", "preempted"} => computed'[s] = 0
                      /\ computed'[s] + num'[s] <= tokens'[s]
                      /\ status'[s] = "running" => computed'[s] < tokens'[s]
    BY DEF TokensFit
  <2>1. CASE s = r
    BY <1>1, <1>2, <1>4, <1>5, <1>8, <1>10, <2>1 DEF TokensFit
  <2>2. CASE s # r
    BY <1>1, <1>3, <1>8, <1>10, <2>2 DEF TokensFit
  <2> QED
    BY <2>1, <2>2
<1>16. CursorFits'
  BY <1>3 DEF CursorFits
<1>17. StepsFollow' /\ ServiceKept'
  <2>1. \A s \in Requests : /\ status'[s] = "finished" <=> status[s] = "finished"
                            /\ status'[s] = "new" <=> status[s] = "new"
                            /\ status[s] = "finished" => served'[s] = served[s]
    BY <1>2, <1>6, <1>10
  <2> QED
    BY <1>1, <1>6, <2>1, ServiceStays
<1> QED
  BY <1>6, <1>8, <1>9, <1>11, <1>12, <1>13, <1>14, <1>15, <1>16, <1>17

\* The computed tokens advance by what was scheduled.
LEMMA EndScheduleInv ==
    ASSUME PolicyInv, EndSchedule
    PROVE  PolicyInv'
<1> USE DEF PolicyInv
<1>1. /\ pc = "commit" /\ pc' = "output" /\ unreported' = FALSE
      /\ computed' = [r \in Requests |-> computed[r] + num[r]] /\ num' = [r \in Requests |-> 0]
      /\ status' = status /\ arrived' = arrived /\ tokens' = tokens /\ blocks' = blocks
      /\ running' = running /\ UNCHANGED waiting /\ policy' = policy /\ level' = level
      /\ quanta' = quanta /\ served' = served /\ atArrival' = atArrival
      /\ service' = service /\ programWait' = programWait /\ finishedJobs' = finishedJobs
      /\ index' = index /\ current' = current /\ budget' = budget /\ batch' = batch
      /\ preempted' = preempted
  BY DEF EndSchedule, waiting, programs
<1>2. waited' = IF policy = "FCFS" THEN waited
                ELSE [r \in Requests |->
                        IF num[r] = 0 /\ r \in ToSet(running) \cup ToSet(WaitingList)
                        THEN waited[r] + TotalScheduled ELSE waited[r]]
  BY DEF EndSchedule
<1>3. /\ Building /\ ~Building' /\ pc # "output" /\ MaxBatch \in Nat
      /\ num \in [Requests -> 0..MaxBatch] /\ TotalScheduled \in Nat
      /\ \A r \in Requests : num[r] \in Nat
      /\ ToSet(batch) = {r \in Requests : num[r] > 0}
  <2>1. Building /\ ~Building' /\ pc # "output"
    BY <1>1 DEF Building
  <2>2. num \in [Requests -> 0..MaxBatch] /\ MaxBatch \in Nat
    BY PolicyAssumption DEF StepTypes
  <2>3. TotalScheduled \in Nat
    BY <2>2, TotalType
  <2> QED
    BY <2>1, <2>2, <2>3 DEF BatchFits
<1>4. waited' \in [Requests -> Nat]
  <2>1. waited \in [Requests -> Nat]
    BY DEF FeedbackTypes
  <2>2. \A r \in Requests : waited[r] + TotalScheduled \in Nat
    BY <1>3, <2>1
  <2> QED
    BY <1>2, <2>1, <2>2
<1>5. FeedbackTypes' /\ ProgramTypes'
  BY <1>1, <1>4 DEF FeedbackTypes, ProgramTypes, QuantumOf
<1>6. WaitingTypes' /\ DequesFit' /\ Waits' = Waits
  BY <1>1, QueueStays
<1>7. \A r \in Requests : /\ computed'[r] = computed[r] + num[r] /\ num'[r] = 0
                          /\ computed[r] \in Nat /\ tokens[r] \in Nat
                          /\ computed'[r] \in Nat /\ computed'[r] + num'[r] = computed[r] + num[r]
  BY <1>1, <1>3 DEF RequestTypes
<1>8. RequestTypes' /\ StatusFits'
  <2>1. computed' \in [Requests -> Nat]
    BY <1>1, <1>7
  <2> QED
    BY <1>1, <1>6, <2>1 DEF RequestTypes, StatusFits
<1>9. StepTypes'
  <2>1. 0 \in 0..MaxBatch
    BY <1>3
  <2>2. num' \in [Requests -> 0..MaxBatch]
    BY <1>1, <2>1
  <2>3. unreported' \in BOOLEAN
    BY <1>1
  <2> QED
    BY <1>1, <2>2, <2>3 DEF StepTypes
<1>10. PoolFits'
  <2>1. FreeBlocks' = FreeBlocks
    BY <1>1 DEF FreeBlocks
  <2>2. ASSUME NEW r \in Requests
        PROVE  IF status'[r] = "running" THEN blocks'[r] >= BlocksFor(computed'[r] + num'[r])
                                         ELSE blocks'[r] = 0
    <3>1. computed'[r] + num'[r] = computed[r] + num[r]
      BY <1>7
    <3> QED
      BY <1>1, <3>1 DEF PoolFits
  <2> QED
    BY <2>1, <2>2 DEF PoolFits, BlocksFor
<1>11. TokensFit'
  <2> SUFFICES ASSUME NEW r \in Requests
               PROVE  /\ status[r] \in {"new", "waiting", "preempted"} => computed'[r] = 0
                      /\ computed'[r] + num'[r] <= tokens[r]
                      /\ status[r] = "running" => computed'[r] < tokens[r] \/ r \in ToSet(batch)
    BY <1>1 DEF TokensFit
  <2>1. computed'[r] + num'[r] <= tokens[r]
    BY <1>7 DEF TokensFit
  <2>2. r \notin ToSet(batch) => num[r] = 0 /\ computed'[r] = computed[r]
    BY <1>3, <1>7
  <2>3. status[r] # "running" => r \notin ToSet(batch)
    BY DEF BatchFits, StatusFits
  <2>4. status[r] \in {"new", "waiting", "preempted"} => computed'[r] = 0
    BY <2>2, <2>3 DEF TokensFit
  <2>5. status[r] = "running" => computed'[r] < tokens[r] \/ r \in ToSet(batch)
    BY <1>3, <2>2 DEF TokensFit
  <2> QED
    BY <2>1, <2>4, <2>5
<1>12. BatchFits' /\ CursorFits'
  BY <1>1, <1>3, <1>7 DEF BatchFits, CursorFits
<1>13. StepsFollow' /\ ServiceKept'
  BY <1>1, ServiceStays
<1> QED
  BY <1>5, <1>6, <1>8, <1>9, <1>10, <1>11, <1>12, <1>13

\* The output of a request is its next token; the last one ends the request.
LEMMA OutputInv ==
    ASSUME PolicyInv, Output
    PROVE  PolicyInv'
<1> USE DEF PolicyInv
<1> DEFINE r == Head(batch)
           stops == computed[r] = tokens[r] /\ tokens[r] + 1 = Total[r]
<1>1. /\ pc = "output" /\ batch # <<>> /\ batch' = Tail(batch)
      /\ tokens' = IF computed[r] = tokens[r] THEN [tokens EXCEPT ![r] = @ + 1] ELSE tokens
      /\ IF stops THEN /\ \E calls \in BOOLEAN : FreeRequest(r, calls)
                       /\ running' = Without(running, r)
                  ELSE UNCHANGED <<status, blocks, unreported, programs, running>>
      /\ arrived' = arrived /\ computed' = computed /\ UNCHANGED waiting /\ policy' = policy
      /\ level' = level /\ quanta' = quanta /\ waited' = waited /\ served' = served
      /\ atArrival' = atArrival /\ pc' = pc /\ index' = index /\ current' = current
      /\ budget' = budget /\ num' = num /\ preempted' = preempted
  BY DEF Output, feedback, waiting
<1>2. /\ batch \in Seq(Requests) /\ batch' \in Seq(Requests) /\ r \in ToSet(batch)
      /\ ToSet(batch') = ToSet(batch) \ {r} /\ IsInjective(batch')
  BY <1>1, TailElements DEF StepTypes, BatchFits
<1> HIDE DEF r
<1>3. /\ r \in Requests /\ r \in ToSet(running) /\ status[r] = "running" /\ r \notin Waits
      /\ ~Building /\ ~Building'
  <2>1. ToSet(running) \subseteq Requests
    BY ElementsType DEF RequestTypes
  <2> QED
    BY <1>1, <1>2, <2>1 DEF BatchFits, StatusFits, Building
<1>4. /\ tokens[r] \in Nat /\ computed[r] \in Nat /\ num[r] = 0 /\ Total[r] \in Nat /\ Prompt[r] \in Nat
      /\ computed[r] <= tokens[r] /\ tokens[r] < Total[r] /\ Prompt[r] <= tokens[r]
  <2>1. num[r] = 0 /\ tokens[r] \in Nat /\ computed[r] \in Nat
    BY <1>3 DEF BatchFits, RequestTypes
  <2>2. Total[r] \in Nat /\ Prompt[r] \in Nat
    BY <1>3, PolicyAssumption
  <2> QED
    BY <1>3, <2>1, <2>2 DEF TokensFit
<1>5. /\ tokens' \in [Requests -> Nat] /\ \A s \in Requests \ {r} : tokens'[s] = tokens[s]
      /\ tokens'[r] = IF computed[r] = tokens[r] THEN tokens[r] + 1 ELSE tokens[r]
  BY <1>1, <1>3, <1>4 DEF RequestTypes
<1>6. /\ WaitingTypes' /\ DequesFit' /\ Waits' = Waits
  BY <1>1, QueueStays
<1>7. FeedbackTypes' /\ CursorFits'
  BY <1>1 DEF FeedbackTypes, CursorFits, QuantumOf
<1>8. /\ ProgramTypes' /\ StepsFollow' /\ ServiceKept' /\ unreported' \in BOOLEAN
      /\ status' \in [Requests -> {"new", "waiting", "running", "preempted", "finished"}]
      /\ status'[r] = IF stops THEN "finished" ELSE "running"
      /\ \A s \in Requests \ {r} : status'[s] = status[s]
      /\ running' \in Seq(Requests) /\ IsInjective(running')
      /\ ToSet(running') = IF stops THEN ToSet(running) \ {r} ELSE ToSet(running)
      /\ blocks' \in [Requests -> Nat] /\ PoolFits'
  <2>1. CASE stops
    <3>1. PICK calls \in BOOLEAN : FreeRequest(r, calls)
      BY <1>1, <2>1
    <3>2. /\ ProgramTypes' /\ StepsFollow' /\ ServiceKept' /\ unreported' \in BOOLEAN
          /\ status' = [status EXCEPT ![r] = "finished"] /\ blocks' = [blocks EXCEPT ![r] = 0]
      <4>1. status[r] \notin {"new", "finished"} /\ policy \in {"AUTELLIX", "FCFS"}
        BY <1>3 DEF WaitingTypes
      <4> QED
        BY <1>1, <1>3, <3>1, <4>1, Freed
    <3>3. /\ status' \in [Requests -> {"new", "waiting", "running", "preempted", "finished"}]
          /\ status'[r] = "finished" /\ \A s \in Requests \ {r} : status'[s] = status[s]
      BY <1>3, <3>2 DEF RequestTypes
    <3>4. running' \in Seq(Requests) /\ ToSet(running') = ToSet(running) \ {r} /\ IsInjective(running')
      BY <1>1, <2>1, WithoutProperties, WithoutElements DEF RequestTypes, StatusFits
    <3>5. blocks' \in [Requests -> Nat] /\ PoolFits'
      BY <1>1, <1>3, <3>2, <3>3, PoolReturned
    <3> HIDE DEF PolicyInv
    <3> QED
      BY <2>1, <3>2, <3>3, <3>4, <3>5
  <2>2. CASE ~stops
    <3>1. /\ status' = status /\ blocks' = blocks /\ unreported' = unreported /\ running' = running
          /\ service' = service /\ programWait' = programWait /\ finishedJobs' = finishedJobs
      BY <1>1, <2>2 DEF programs
    <3>2. ProgramTypes' /\ unreported' \in BOOLEAN
      BY <3>1 DEF ProgramTypes, StepTypes
    <3>3. StepsFollow' /\ ServiceKept'
      BY <1>1, <3>1, ServiceStays
    <3>4. FreeBlocks' = FreeBlocks
      BY <3>1 DEF FreeBlocks
    <3>5. PoolFits'
      BY <1>1, <3>1, <3>4 DEF PoolFits, BlocksFor
    <3> QED
      BY <1>3, <2>2, <3>1, <3>2, <3>3, <3>5 DEF RequestTypes, StatusFits
  <2> QED
    BY <2>1, <2>2
<1>9. RequestTypes' /\ StepTypes'
  BY <1>1, <1>2, <1>5, <1>8 DEF RequestTypes, StepTypes
<1>10. StatusFits'
  <2>1. ASSUME NEW s \in Requests
        PROVE  /\ status'[s] \in {"waiting", "preempted"} <=> s \in Waits'
               /\ status'[s] = "running" <=> s \in ToSet(running')
               /\ status'[s] # "new" <=> s \in ToSet(arrived')
    <3>1. CASE s = r
      <4>1. r \in ToSet(arrived)
        BY <1>3 DEF StatusFits
      <4> QED
        BY <1>1, <1>3, <1>6, <1>8, <3>1, <4>1
    <3>2. CASE s # r
      BY <1>1, <1>6, <1>8, <3>2 DEF StatusFits
    <3> QED
      BY <3>1, <3>2
  <2> QED
    BY <1>1, <1>8, <2>1 DEF StatusFits
<1>11. TokensFit'
  <2> SUFFICES ASSUME NEW s \in Requests
               PROVE  /\ tokens'[s] >= Prompt[s] /\ tokens'[s] <= Total[s]
                      /\ status'[s] # "finished" => tokens'[s] < Total[s]
                      /\ status'[s] \in {"new", "waiting", "preempted"} => computed[s] = 0
                      /\ computed[s] + num[s] <= tokens'[s]
                      /\ status'[s] = "running" =>
                            computed[s] < tokens'[s] \/ (pc = "output" /\ s \in ToSet(batch'))
    BY <1>1 DEF TokensFit
  <2>1. CASE s = r
    BY <1>4, <1>5, <1>8, <2>1
  <2>2. CASE s # r
    BY <1>2, <1>5, <1>8, <2>2 DEF TokensFit
  <2> QED
    BY <2>1, <2>2
<1>12. BatchFits'
  BY <1>1, <1>2, <1>3, <1>8 DEF BatchFits
<1> QED
  BY <1>6, <1>7, <1>8, <1>9, <1>10, <1>11, <1>12

\* The engine core starts with nothing.
LEMMA PolicyInvInit ==
    AutellixInit => PolicyInv /\ AttemptFits
<1> SUFFICES ASSUME AutellixInit PROVE PolicyInv /\ AttemptFits
  OBVIOUS
<1> USE DEF AutellixInit
<1>1. ToSet(<<>>) = {} /\ IsInjective(<<>>) /\ <<>> \in Seq(Requests) /\ DOMAIN <<>> = {}
  BY DEF ToSet, IsInjective
<1>2. /\ MaxBatch \in Nat \ {0} /\ NumBlocks \in Nat /\ Prompt \in [Requests -> Nat \ {0}]
      /\ Total \in [Requests -> Nat] /\ \A r \in Requests : Total[r] > Prompt[r]
  BY PolicyAssumption
<1>3. RequestTypes
  BY <1>1, <1>2 DEF RequestTypes
<1>4. WaitingTypes
  BY <1>1 DEF WaitingTypes
<1>5. FeedbackTypes
  <2>1. 1 \in Levels /\ QuantumOf(1) \in 1..MaxBatch
    BY LevelFacts
  <2>2. \A r \in Requests : quanta[r] <= QuantumOf(level[r])
    BY <1>2, <2>1
  <2> QED
    BY <2>1, <2>2 DEF FeedbackTypes
<1>6. ProgramTypes
  BY DEF ProgramTypes
<1>7. StepTypes
  <2>1. unreported \in BOOLEAN /\ preempted \in BOOLEAN
    OBVIOUS
  <2>2. 0 \in 0..MaxBatch
    BY <1>2
  <2>3. num \in [Requests -> 0..MaxBatch] /\ budget \in 0..MaxBatch
    BY <2>2
  <2> QED
    BY <1>1, <2>1, <2>3 DEF StepTypes
<1>8. Waits = {} /\ \A l \in Levels : queues[l] = <<>>
  BY <1>1 DEF Waits
<1>9. DequesFit
  BY <1>1, <1>8 DEF DequesFit
<1>10. StatusFits
  BY <1>1, <1>8 DEF StatusFits
<1>11. FreeBlocks >= 0
  <2>1. Tally(blocks) = 0
    BY TallyNat DEF RequestTypes
  <2> QED
    BY <1>2, <2>1 DEF FreeBlocks
<1>12. PoolFits
  BY <1>11 DEF PoolFits
<1>13. TokensFit
  BY <1>2 DEF TokensFit
<1>14. BatchFits /\ CursorFits
  BY <1>1 DEF BatchFits, CursorFits, Building
<1>15. StepsFollow /\ ServiceKept
  BY PolicyAssumption DEF StepsFollow, ServiceKept
<1>16. AttemptFits
  BY <1>2 DEF AttemptFits
<1> QED
  BY <1>16, <1>3, <1>4, <1>5, <1>6, <1>7, <1>9, <1>10, <1>12, <1>13, <1>14, <1>15 DEF PolicyInv

\* A step that changes nothing keeps the invariant.
LEMMA PolicyStutter ==
    ASSUME PolicyInv, UNCHANGED autellix
    PROVE  PolicyInv'
<1> USE DEF PolicyInv
<1>1. UNCHANGED <<reqs, running, waiting, feedback, programs, unreported, pc, step>>
  BY DEF autellix
<1>2. /\ status' = status /\ arrived' = arrived /\ tokens' = tokens /\ computed' = computed
      /\ blocks' = blocks /\ running' = running /\ UNCHANGED waiting /\ policy' = policy
      /\ service' = service /\ programWait' = programWait /\ finishedJobs' = finishedJobs
      /\ level' = level /\ quanta' = quanta /\ waited' = waited /\ served' = served
      /\ atArrival' = atArrival /\ unreported' = unreported /\ pc' = pc
      /\ index' = index /\ current' = current /\ budget' = budget
      /\ num' = num /\ batch' = batch /\ preempted' = preempted
  BY <1>1 DEF reqs, waiting, feedback, programs, step
<1>3. WaitingTypes' /\ DequesFit' /\ Waits' = Waits
  BY <1>2, QueueStays
<1>4. RequestTypes' /\ ProgramTypes' /\ StatusFits'
  BY <1>2, <1>3 DEF RequestTypes, ProgramTypes, StatusFits
<1>5. FeedbackTypes' /\ CursorFits' /\ StepTypes' /\ TokensFit'
  BY <1>2 DEF FeedbackTypes, CursorFits, QuantumOf, StepTypes, TokensFit
<1>6. FreeBlocks' = FreeBlocks /\ TotalScheduled' = TotalScheduled /\ Building' = Building
  BY <1>2 DEF FreeBlocks, TotalScheduled, Building
<1>7. PoolFits' /\ BatchFits'
  BY <1>2, <1>6 DEF PoolFits, BatchFits, BlocksFor
<1>8. StepsFollow' /\ ServiceKept'
  BY <1>2, ServiceStays
<1> QED
  BY <1>3, <1>4, <1>5, <1>7, <1>8

\* Nothing but picking a request sets the attempt; a preemption can only free budget.
LEMMA AttemptStays ==
    ASSUME PolicyInv, AttemptFits, [AutellixNext]_autellix
    PROVE  AttemptFits'
<1> USE DEF PolicyInv
<1>1. CASE PickRunning
  <2>0. PICK r : r = running[index]
    OBVIOUS
  <2>1. /\ pc = "running" /\ index <= Len(running) /\ budget > 0 /\ current' = r
        /\ quanta' = Granted(r) /\ attempt' = NewTokens(r) /\ budget' = budget
        /\ computed' = computed /\ tokens' = tokens /\ policy' = policy /\ level' = level
    BY <1>1, <2>0 DEF PickRunning, reqs, waiting
  <2>2. index \in DOMAIN running /\ r \in Requests
    BY <2>0, <2>1 DEF RequestTypes, StepTypes
  <2>3. budget \in 1..MaxBatch /\ tokens[r] \in Nat /\ computed[r] \in Nat
    BY <2>1, <2>2, PolicyAssumption DEF StepTypes, RequestTypes
  <2>4. computed[r] < tokens[r]
    <3>1. status[r] = "running"
      BY <2>0, <2>2 DEF StatusFits, ToSet
    <3> QED
      BY <2>1, <2>2, <3>1 DEF TokensFit
  <2>5. policy # "FCFS" => Quantum(r)' = Quantum(r)
    <3> SUFFICES ASSUME policy # "FCFS" PROVE Quantum(r)' = Quantum(r)
      OBVIOUS
    <3>1. Quantum(r) \in Nat \ {0}
      BY <2>2, QuantumFits, PolicyAssumption
    <3>2. quanta'[r] = Quantum(r)
      BY <2>1, <2>2 DEF Granted, FeedbackTypes
    <3>3. Quantum(r)' = IF quanta'[r] <= 0 THEN QuantumOf(level[r]) ELSE quanta'[r]
      BY <2>1 DEF Quantum, QuantumOf
    <3> QED
      BY <3>1, <3>2, <3>3
  <2>6. /\ NewTokens(r) \in 1..budget /\ NewTokens(r) \in 1..MaxBatch
        /\ computed[r] + NewTokens(r) <= tokens[r]
        /\ policy # "FCFS" => NewTokens(r) <= Quantum(r)
    BY <2>2, <2>3, <2>4, ChunkFits
  <2>7. policy' # "FCFS" => attempt' <= Quantum(current)'
    <3>1. Quantum(current)' = Quantum(r)'
      BY <2>1 DEF Quantum, QuantumOf
    <3> QED
      BY <2>1, <2>5, <2>6, <3>1
  <2>8. attempt' \in 0..MaxBatch /\ attempt' \in 1..budget'
        /\ computed'[current'] + attempt' <= tokens'[current']
    BY <2>1, <2>6, PolicyAssumption
  <2> QED
    BY <2>7, <2>8 DEF AttemptFits
<1>2. CASE PreemptRunning
  <2> DEFINE v == Victim
  <2>1. /\ pc = "alloc" /\ num' = [num EXCEPT ![v] = 0] /\ budget' = budget + num[v]
        /\ computed' = [computed EXCEPT ![v] = 0] /\ pc' = IF v = current THEN "commit" ELSE "alloc"
        /\ current' = IF v = current THEN Nobody ELSE current
        /\ attempt' = IF v = current THEN 0 ELSE attempt
        /\ tokens' = tokens /\ policy' = policy /\ level' = level /\ quanta' = quanta
    BY <1>2 DEF PreemptRunning, Refund, feedback
  <2>2. v \in Requests
    <3>1. running # <<>>
      BY <2>1 DEF CursorFits
    <3> QED
      BY <3>1, VictimRuns, ElementsType DEF RequestTypes
  <2> HIDE DEF v
  <2>3. num[v] \in Nat /\ budget \in Nat /\ MaxBatch \in Nat
    BY <2>2, PolicyAssumption DEF StepTypes
  <2>4. CASE v = current
    BY <2>1, <2>3, <2>4 DEF AttemptFits
  <2>5. CASE v # current
    <3>1. current \in Requests
      BY <2>1, ElementsType DEF CursorFits, ToSet, RequestTypes
    <3>2. computed'[current] = computed[current]
      BY <2>1, <2>2, <2>5, <3>1 DEF RequestTypes
    <3>3. Quantum(current)' = IF quanta'[current'] <= 0 THEN QuantumOf(level'[current'])
                              ELSE quanta'[current']
      BY DEF Quantum, QuantumOf
    <3>4. Quantum(current)' = Quantum(current)
      BY <2>1, <2>5, <3>3 DEF Quantum
    <3>5. attempt' \in 1..budget' /\ attempt' \in 0..MaxBatch
      BY <2>1, <2>3, <2>5 DEF AttemptFits
    <3>6. computed'[current'] + attempt' <= tokens'[current']
      BY <2>1, <2>5, <3>2 DEF AttemptFits
    <3>7. policy' # "FCFS" => attempt' <= Quantum(current)'
      BY <2>1, <2>5, <3>4 DEF AttemptFits
    <3> QED
      BY <3>5, <3>6, <3>7 DEF AttemptFits
  <2> QED
    BY <2>4, <2>5
<1>3. CASE attempt' \in 0..MaxBatch /\ pc' # "alloc"
  BY <1>3 DEF AttemptFits
<1>4. CASE \/ BeginSchedule \/ LeaveRunning \/ ScheduleRunning \/ ScheduleWaiting
           \/ LeaveWaiting \/ EndSchedule \/ Output \/ EndOutput
  <2>1. pc' # "alloc"
    BY <1>4 DEF BeginSchedule, LeaveRunning, ScheduleRunning, ScheduleWaiting, LeaveWaiting,
                EndSchedule, Output, EndOutput
  <2>2. attempt' \in {0, attempt}
    BY <1>4 DEF BeginSchedule, LeaveRunning, ScheduleRunning, ScheduleWaiting, LeaveWaiting,
                EndSchedule, Output, EndOutput, step
  <2> QED
    BY <1>3, <2>1, <2>2, PolicyAssumption DEF AttemptFits
<1>5. CASE \E r \in Requests : NewRequest(r) \/ \E calls \in BOOLEAN : Abort(r, calls)
  <2>1. pc' # "alloc" /\ attempt' = attempt
    BY <1>5 DEF NewRequest, Abort, step
  <2> QED
    BY <1>3, <2>1 DEF AttemptFits
<1>6. CASE Idle \/ UNCHANGED autellix
  <2>1. /\ pc' = pc /\ attempt' = attempt /\ budget' = budget /\ current' = current
        /\ computed' = computed /\ tokens' = tokens /\ policy' = policy
        /\ level' = level /\ quanta' = quanta
    BY <1>6 DEF Idle, autellix, step, reqs, waiting, feedback
  <2> QED
    BY <2>1 DEF AttemptFits, Quantum, QuantumOf
<1> QED
  BY <1>1, <1>2, <1>4, <1>5, <1>6 DEF AutellixNext, EngineStep, Schedule

\* The invariant is inductive.
LEMMA PolicyInvariance ==
    PolicyInv /\ AttemptFits /\ [AutellixNext]_autellix => PolicyInv' /\ AttemptFits'
<1> SUFFICES ASSUME PolicyInv, AttemptFits, [AutellixNext]_autellix PROVE PolicyInv'
  BY AttemptStays
<1>1. CASE Schedule
  BY <1>1, BeginScheduleInv, PickRunningInv, LeaveRunningInv, ScheduleRunningInv,
     PreemptRunningInv, ScheduleWaitingInv, LeaveWaitingInv, EndScheduleInv DEF Schedule
<1>2. CASE Output
  BY <1>2, OutputInv
<1>3. CASE EndOutput
  BY <1>3, EndOutputInv
<1>4. CASE \E r \in Requests : NewRequest(r)
  BY <1>4, NewRequestInv
<1>5. CASE \E r \in Requests : \E calls \in BOOLEAN : Abort(r, calls)
  BY <1>5, AbortInv
<1>6. CASE Idle \/ UNCHANGED autellix
  BY <1>6, PolicyStutter DEF Idle
<1> QED
  BY <1>1, <1>2, <1>3, <1>4, <1>5, <1>6 DEF AutellixNext, EngineStep

\* What the invariant says of the lists, of the pool and of the types.
LEMMA PolicyInvTypes ==
    PolicyInv /\ AttemptFits => AutellixTypeOK
<1> SUFFICES ASSUME PolicyInv, AttemptFits PROVE AutellixTypeOK
  OBVIOUS
<1> USE DEF PolicyInv
<1>1. {tokens, computed, quanta, waited, served, atArrival} \subseteq [Requests -> Nat]
  BY DEF RequestTypes, FeedbackTypes
<1>2. ASSUME NEW r \in Requests
      PROVE  tokens[r] \in Prompt[r]..Total[r] /\ computed[r] \in 0..tokens[r]
  <2>1. /\ tokens[r] \in Nat /\ computed[r] \in Nat /\ num[r] \in Nat
        /\ Prompt[r] \in Nat /\ Total[r] \in Nat
    BY PolicyAssumption DEF RequestTypes, StepTypes
  <2> QED
    BY <2>1 DEF TokensFit
<1>3. blocks \in [Requests -> 0..NumBlocks]
  <2>1. blocks \in [Requests -> Nat] /\ NumBlocks \in Nat
    BY PolicyAssumption DEF RequestTypes
  <2>2. Tally(blocks) \in Nat /\ \A r \in Requests : blocks[r] <= Tally(blocks)
    BY <2>1, TallyNat
  <2>3. NumBlocks - Tally(blocks) >= 0
    BY DEF PoolFits, FreeBlocks
  <2>4. \A r \in Requests : blocks[r] \in 0..NumBlocks
    BY <2>1, <2>2, <2>3
  <2> QED
    BY <2>1, <2>4
<1>4. DOMAIN where \subseteq Requests /\ \A r \in DOMAIN where : where[r] \in Levels
  <2>1. ASSUME NEW r \in DOMAIN where
        PROVE  r \in Requests /\ where[r] \in Levels
    <3>1. PICK l \in Levels : r \in ToSet(queues[l])
      BY DEF DequesFit
    <3>2. policy # "FCFS"
      BY <3>1 DEF DequesFit, ToSet
    <3>3. r \in Requests
      BY <3>1, ElementsType DEF WaitingTypes
    <3> QED
      BY <3>1, <3>2, <3>3 DEF DequesFit, WaitingTypes
  <2> QED
    BY <2>1
<1>5. \A r \in Requests : quanta[r] \in 0..QuantumOf(level[r])
  BY LevelFacts, PolicyAssumption DEF FeedbackTypes
<1>6. {service, programWait} \subseteq [Jobs -> Nat] /\ finishedJobs \subseteq Jobs
  BY DEF ProgramTypes
<1>7. {unreported, preempted} \subseteq BOOLEAN
  BY DEF StepTypes
<1> QED
  BY <1>1, <1>2, <1>3, <1>4, <1>5, <1>6, <1>7
  DEF AutellixTypeOK, RequestTypes, WaitingTypes, FeedbackTypes, StepTypes, AttemptFits

\* Each waiting request is in the deque of its own level and in no other.
LEMMA PolicyInvLevels ==
    PolicyInv => InOwnLevel
<1> SUFFICES ASSUME PolicyInv PROVE InOwnLevel
  OBVIOUS
<1>1. \A l \in Levels : \A i \in DOMAIN queues[l] : queues[l][i] \in ToSet(queues[l])
  BY DEF ToSet
<1> QED
  BY <1>1 DEF PolicyInv, DequesFit, InOwnLevel

\* Nobody is lost, listed twice or left without the blocks of its tokens.
LEMMA PolicyInvLists ==
    PolicyInv => NothingLost
<1> SUFFICES ASSUME PolicyInv PROVE NothingLost
  OBVIOUS
<1> USE DEF PolicyInv
<1>1. /\ ToSet(WaitingList) = Waits /\ IsInjective(WaitingList)
      /\ policy = "FCFS" => Concat(queues) = <<>>
  BY WaitingHolds
<1>2. ASSUME NEW r \in Requests
      PROVE  /\ status[r] \in {"waiting", "preempted"} <=> Contains(WaitingList, r)
             /\ status[r] = "running" <=> Contains(running, r)
  <2>1. Contains(WaitingList, r) <=> r \in ToSet(WaitingList)
    <3>1. DOMAIN WaitingList = 1..Len(WaitingList)
      BY WaitingHolds
    <3> QED
      BY <3>1 DEF Contains, ToSet
  <2>2. Contains(running, r) <=> r \in ToSet(running)
    <3>1. DOMAIN running = 1..Len(running)
      BY DEF RequestTypes
    <3> QED
      BY <3>1 DEF Contains, ToSet
  <2> QED
    BY <1>1, <2>1, <2>2 DEF StatusFits
<1>3. ASSUME NEW r \in Requests
      PROVE  /\ status[r] = "running" => blocks[r] >= BlocksFor(computed[r])
             /\ status[r] # "running" => blocks[r] = 0
  <2>1. computed[r] \in Nat /\ num[r] \in Nat /\ blocks[r] \in Nat
    BY PolicyAssumption DEF RequestTypes, StepTypes
  <2>2. computed[r] + num[r] \in Nat /\ computed[r] <= computed[r] + num[r]
    BY <2>1
  <2>3. /\ BlocksFor(computed[r]) \in Nat /\ BlocksFor(computed[r] + num[r]) \in Nat
        /\ BlocksFor(computed[r]) <= BlocksFor(computed[r] + num[r])
    BY <2>1, <2>2, BlocksForFacts
  <2> QED
    BY <2>1, <2>3 DEF PoolFits
<1>4. IsInjective(running) /\ FreeBlocks >= 0
  BY DEF StatusFits, PoolFits
<1> QED
  BY <1>1, <1>2, <1>3, <1>4 DEF NothingLost

\* Under the Autellix policy a request waits in the deque of its level and
\* nowhere else, whatever is demoted, preempted, promoted, aborted and moved to
\* the FCFS queue; nobody is lost or in two lists, and the pool holds the blocks
\* of what was computed (AutellixRequestQueue, _autellix_apply_antistarvation,
\* _autellix_maybe_switch_to_fcfs).
THEOREM PolicyCorrect == AutellixSpec => []QueuesSound
<1>1. PolicyInv /\ AttemptFits => QueuesSound
  BY PolicyInvTypes, PolicyInvLevels, PolicyInvLists DEF QueuesSound
<1> QED
  BY PolicyInvInit, PolicyInvariance, <1>1, PTL DEF AutellixSpec

\* The batch and what is left of the token budget make up the budget of the
\* step, through every preemption of a request that was already in the batch
\* (schedule()).
THEOREM BudgetCorrect == AutellixSpec => []BudgetExact
<1>1. PolicyInv => BudgetExact
  BY DEF PolicyInv, BatchFits, Building, BudgetExact
<1> QED
  BY PolicyInvInit, PolicyInvariance, <1>1, PTL DEF AutellixSpec

\* A step of a program enters at no less service than the step before it was
\* charged (add_request, _free_request).
THEOREM ServiceCorrect == AutellixSpec => []ServiceCarriesOver
<1>1. PolicyInv => ServiceCarriesOver
  <2> SUFFICES ASSUME PolicyInv PROVE ServiceCarriesOver
    OBVIOUS
  <2>1. ToSet(arrived) \subseteq Requests
    BY ElementsType DEF PolicyInv, RequestTypes
  <2>2. \A r \in ToSet(arrived) : r \in Requests /\ status[r] # "new"
    BY <2>1 DEF PolicyInv, StatusFits
  <2> QED
    BY <2>2 DEF PolicyInv, ServiceKept, ServiceCarriesOver
<1> QED
  BY PolicyInvInit, PolicyInvariance, <1>1, PTL DEF AutellixSpec
=============================================================================
