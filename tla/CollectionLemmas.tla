--------------------------- MODULE CollectionLemmas ---------------------------
(***************************************************************************)
(* What the list operations of the models return: the type, the length,    *)
(* the elements and the absence of duplicates; and what the sum over a     *)
(* finite function is worth, whatever the order in which it is folded.     *)
(***************************************************************************)
EXTENDS QueueOrder, SequenceTheorems, FiniteSetTheorems, TLAPS

\* The number of positions in an initial segment.
LEMMA SegmentCardinality ==
    ASSUME NEW n \in Nat
    PROVE  IsFiniteSet(1..n) /\ Cardinality(1..n) = n
<1>1. /\ IsFiniteSet(1..n)
      /\ Cardinality(1..n) = IF 1 > n THEN 0 ELSE n - 1 + 1
  BY FS_Interval
<1> QED
  BY <1>1

\* Deleting position i of a list (del s[i]) shifts what is behind it.
LEMMA RemoveAtProperties ==
    ASSUME NEW S, NEW s \in Seq(S), NEW i \in 1..Len(s)
    PROVE  /\ RemoveAt(s, i) \in Seq(S)
           /\ Len(RemoveAt(s, i)) = Len(s) - 1
           /\ \A k \in 1..(Len(s) - 1) :
                 RemoveAt(s, i)[k] = IF k < i THEN s[k] ELSE s[k + 1]
<1> DEFINE a == SubSeq(s, 1, i - 1)
           b == SubSeq(s, i + 1, Len(s))
<1>1. /\ a \in Seq(S) /\ Len(a) = i - 1
      /\ \A k \in 1..(i - 1) : a[k] = s[k]
  OBVIOUS
<1>2. /\ b \in Seq(S) /\ Len(b) = Len(s) - i
      /\ \A k \in 1..(Len(s) - i) : b[k] = s[i + k]
  OBVIOUS
<1>3. RemoveAt(s, i) = a \o b
  BY DEF RemoveAt
<1> HIDE DEF a, b
<1>4. /\ a \o b \in Seq(S)
      /\ Len(a \o b) = Len(a) + Len(b)
      /\ \A k \in 1..(Len(a) + Len(b)) :
            (a \o b)[k] = IF k <= Len(a) THEN a[k] ELSE b[k - Len(a)]
  BY <1>1, <1>2, ConcatProperties
<1>5. ASSUME NEW k \in 1..(Len(s) - 1)
      PROVE  (a \o b)[k] = IF k < i THEN s[k] ELSE s[k + 1]
  <2>1. k < i => (a \o b)[k] = s[k]
    BY <1>1, <1>2, <1>4
  <2>2. ASSUME k >= i PROVE (a \o b)[k] = s[k + 1]
    <3>1. (a \o b)[k] = b[k - (i - 1)]
      BY <2>2, <1>1, <1>2, <1>4
    <3>2. b[k - (i - 1)] = s[i + (k - (i - 1))]
      BY <2>2, <1>2
    <3>3. i + (k - (i - 1)) = k + 1
      OBVIOUS
    <3> QED
      BY <3>1, <3>2, <3>3
  <2>3. k < i \/ k >= i
    OBVIOUS
  <2> QED
    BY <2>1, <2>2, <2>3
<1> QED
  BY <1>1, <1>2, <1>3, <1>4, <1>5

\* Inserting e at position i of a list (list.insert).
LEMMA InsertAtProperties ==
    ASSUME NEW S, NEW s \in Seq(S), NEW i \in 1..(Len(s) + 1), NEW e \in S
    PROVE  /\ InsertAt(s, i, e) \in Seq(S)
           /\ Len(InsertAt(s, i, e)) = Len(s) + 1
<1> DEFINE a == SubSeq(s, 1, i - 1)
           b == SubSeq(s, i, Len(s))
<1>1. a \in Seq(S) /\ Len(a) = i - 1
  OBVIOUS
<1>2. b \in Seq(S) /\ Len(b) = Len(s) + 1 - i
  OBVIOUS
<1>3. InsertAt(s, i, e) = (a \o <<e>>) \o b
  BY DEF InsertAt
<1> HIDE DEF a, b
<1>4. <<e>> \in Seq(S) /\ Len(<<e>>) = 1
  OBVIOUS
<1>5. a \o <<e>> \in Seq(S) /\ Len(a \o <<e>>) = i
  BY <1>1, <1>4, ConcatProperties
<1>6. (a \o <<e>>) \o b \in Seq(S) /\ Len((a \o <<e>>) \o b) = i + Len(b)
  BY <1>2, <1>5, ConcatProperties
<1> QED
  BY <1>2, <1>3, <1>6

\* list.remove finds the element or leaves the list alone.
LEMMA WithoutProperties ==
    ASSUME NEW S, NEW s \in Seq(S), NEW e
    PROVE  /\ Without(s, e) \in Seq(S)
           /\ Len(Without(s, e)) <= Len(s)
           /\ Contains(s, e) => /\ Position(s, e) \in 1..Len(s)
                                /\ s[Position(s, e)] = e
<1>1. Contains(s, e) => Position(s, e) \in 1..Len(s) /\ s[Position(s, e)] = e
  BY DEF Contains, Position
<1>2. CASE Contains(s, e)
  BY <1>1, <1>2, RemoveAtProperties DEF Without
<1>3. CASE ~Contains(s, e)
  BY <1>1, <1>3 DEF Without
<1> QED
  BY <1>2, <1>3

\* The insertion point of the level order lies within the list.
LEMMA InsertPointInList ==
    ASSUME NEW S, NEW s \in Seq(S), NEW lv, NEW e \in S
    PROVE  InsertPoint(s, lv, e) \in 1..(Len(s) + 1)
<1> DEFINE A == {i \in DOMAIN s : lv[s[i]] <= lv[e]}
<1>1. A \subseteq 1..Len(s)
  OBVIOUS
<1>2. IsFiniteSet(1..Len(s)) /\ Cardinality(1..Len(s)) = Len(s)
  <2>1. Len(s) \in Nat
    OBVIOUS
  <2> QED
    BY <2>1, SegmentCardinality
<1>3. Cardinality(A) \in Nat /\ Cardinality(A) <= Len(s)
  BY <1>1, <1>2, FS_Subset, FS_CardinalityType
<1> QED
  BY <1>3 DEF InsertPoint

\* Insertion in level order makes the list one longer.
LEMMA InsertByLevelProperties ==
    ASSUME NEW S, NEW s \in Seq(S), NEW lv, NEW e \in S
    PROVE  /\ InsertByLevel(s, lv, e) \in Seq(S)
           /\ Len(InsertByLevel(s, lv, e)) = Len(s) + 1
<1>1. InsertPoint(s, lv, e) \in 1..(Len(s) + 1)
  BY InsertPointInList
<1> QED
  BY <1>1, InsertAtProperties DEF InsertByLevel

\* list.append stays within the element type and is never empty.
LEMMA AppendType ==
    ASSUME NEW S, NEW s \in Seq(S), NEW e \in S
    PROVE  Append(s, e) \in Seq(S) /\ Append(s, e) # <<>>
<1>1. Append(s, e) \in Seq(S) /\ Len(Append(s, e)) = Len(s) + 1 /\ Len(s) \in Nat
  OBVIOUS
<1> QED
  BY <1>1

\* list.append: one element more; no duplicate when it is new.
LEMMA AppendElements ==
    ASSUME NEW S, NEW s \in Seq(S), NEW e \in S
    PROVE  /\ ToSet(Append(s, e)) = ToSet(s) \cup {e}
           /\ IsInjective(s) /\ e \notin ToSet(s) => IsInjective(Append(s, e))
<1>1. /\ DOMAIN Append(s, e) = 1..(Len(s) + 1)
      /\ Append(s, e)[Len(s) + 1] = e
      /\ \A k \in 1..Len(s) : Append(s, e)[k] = s[k]
  OBVIOUS
<1>2. DOMAIN s = 1..Len(s) /\ Len(s) \in Nat
  OBVIOUS
<1>3. ToSet(Append(s, e)) = ToSet(s) \cup {e}
  BY <1>1, <1>2 DEF ToSet
<1>4. IsInjective(s) /\ e \notin ToSet(s) => IsInjective(Append(s, e))
  BY <1>1, <1>2 DEF ToSet, IsInjective
<1> QED
  BY <1>3, <1>4

\* Deleting a position of a list without duplicates deletes that element.
LEMMA RemoveAtElements ==
    ASSUME NEW S, NEW s \in Seq(S), NEW i \in 1..Len(s), IsInjective(s)
    PROVE  /\ ToSet(RemoveAt(s, i)) = ToSet(s) \ {s[i]}
           /\ IsInjective(RemoveAt(s, i))
<1> DEFINE t == RemoveAt(s, i)
           old(k) == IF k < i THEN k ELSE k + 1
<1>1. t \in Seq(S) /\ Len(t) = Len(s) - 1
  BY RemoveAtProperties
<1>2. DOMAIN t = 1..(Len(s) - 1) /\ DOMAIN s = 1..Len(s) /\ Len(s) \in Nat /\ i \in Int
  BY <1>1
<1>3. \A k \in 1..(Len(s) - 1) : t[k] = s[old(k)]
  BY RemoveAtProperties
<1>4. \A k \in 1..(Len(s) - 1) : old(k) \in 1..Len(s) /\ old(k) # i
  BY <1>2
<1>5. \A k, m \in 1..(Len(s) - 1) : old(k) = old(m) => k = m
  BY <1>2
<1>6. \A m \in 1..Len(s) : m # i => \E k \in 1..(Len(s) - 1) : old(k) = m
  <2> SUFFICES ASSUME NEW m \in 1..Len(s), m # i
               PROVE  \E k \in 1..(Len(s) - 1) : old(k) = m
    OBVIOUS
  <2>1. CASE m < i
    <3>1. m \in 1..(Len(s) - 1) /\ old(m) = m
      BY <1>2, <2>1
    <3> QED
      BY <3>1
  <2>2. CASE m > i
    <3>1. m - 1 \in 1..(Len(s) - 1) /\ old(m - 1) = m
      BY <1>2, <2>2
    <3> QED
      BY <3>1
  <2> QED
    BY <1>2, <2>1, <2>2
<1> HIDE DEF t, old
<1>7. IsInjective(t)
  BY <1>2, <1>3, <1>4, <1>5 DEF IsInjective
<1>8. ToSet(t) \subseteq ToSet(s) \ {s[i]}
  BY <1>2, <1>3, <1>4 DEF IsInjective, ToSet
<1>9. ToSet(s) \ {s[i]} \subseteq ToSet(t)
  <2> SUFFICES ASSUME NEW m \in 1..Len(s), s[m] # s[i]
               PROVE  s[m] \in ToSet(t)
    BY <1>2 DEF ToSet
  <2>1. PICK k \in 1..(Len(s) - 1) : old(k) = m
    BY <1>6
  <2> QED
    BY <1>2, <1>3, <2>1 DEF ToSet
<1> QED
  BY <1>7, <1>8, <1>9 DEF t

\* The head of a list without duplicates does not occur in the tail.
LEMMA TailElements ==
    ASSUME NEW S, NEW s \in Seq(S), s # <<>>, IsInjective(s)
    PROVE  /\ Head(s) \in ToSet(s)
           /\ ToSet(Tail(s)) = ToSet(s) \ {Head(s)}
           /\ IsInjective(Tail(s))
<1>1. /\ DOMAIN s = 1..Len(s) /\ Len(s) \in Nat \ {0} /\ Head(s) = s[1]
      /\ DOMAIN Tail(s) = 1..(Len(s) - 1)
      /\ \A k \in 1..(Len(s) - 1) : Tail(s)[k] = s[k + 1]
  OBVIOUS
<1>2. IsInjective(Tail(s))
  BY <1>1 DEF IsInjective
<1>3. ToSet(Tail(s)) \subseteq ToSet(s) \ {Head(s)}
  BY <1>1 DEF IsInjective, ToSet
<1>4. ASSUME NEW m \in 1..Len(s), m # 1
      PROVE  s[m] \in ToSet(Tail(s))
  <2>1. m - 1 \in 1..(Len(s) - 1) /\ Tail(s)[m - 1] = s[m]
    BY <1>1, <1>4
  <2> QED
    BY <1>1, <2>1 DEF ToSet
<1>5. ToSet(s) \ {Head(s)} \subseteq ToSet(Tail(s))
  BY <1>1, <1>4 DEF ToSet
<1>6. Head(s) \in ToSet(s)
  BY <1>1 DEF ToSet
<1> QED
  BY <1>2, <1>3, <1>5, <1>6

\* list.remove on a list without duplicates.
LEMMA WithoutElements ==
    ASSUME NEW S, NEW s \in Seq(S), NEW e, IsInjective(s)
    PROVE  ToSet(Without(s, e)) = ToSet(s) \ {e} /\ IsInjective(Without(s, e))
<1>1. CASE Contains(s, e)
  BY <1>1, WithoutProperties, RemoveAtElements DEF Without
<1>2. CASE ~Contains(s, e)
  <2>1. e \notin ToSet(s)
    BY <1>2 DEF Contains, ToSet
  <2> QED
    BY <1>2, <2>1 DEF Without
<1> QED
  BY <1>1, <1>2

\* Concatenation: the elements of both, no duplicate when they share none.
LEMMA ConcatElements ==
    ASSUME NEW S, NEW s \in Seq(S), NEW t \in Seq(S)
    PROVE  /\ ToSet(s \o t) = ToSet(s) \cup ToSet(t)
           /\ IsInjective(s \o t) <=>
                 /\ IsInjective(s) /\ IsInjective(t)
                 /\ ToSet(s) \cap ToSet(t) = {}
<1> DEFINE u == s \o t
<1>1. /\ Len(s) \in Nat /\ Len(t) \in Nat
      /\ DOMAIN s = 1..Len(s) /\ DOMAIN t = 1..Len(t)
  OBVIOUS
<1>2. /\ u \in Seq(S) /\ Len(u) = Len(s) + Len(t)
      /\ \A k \in 1..(Len(s) + Len(t)) : u[k] = IF k <= Len(s) THEN s[k] ELSE t[k - Len(s)]
  BY ConcatProperties
<1>3. DOMAIN u = 1..(Len(s) + Len(t))
  BY <1>2
<1> HIDE DEF u
<1>4. \A k \in 1..Len(s) : k \in DOMAIN u /\ u[k] = s[k]
  BY <1>1, <1>2, <1>3
<1>5. \A k \in 1..Len(t) : k + Len(s) \in DOMAIN u /\ u[k + Len(s)] = t[k]
  <2> SUFFICES ASSUME NEW k \in 1..Len(t)
               PROVE  k + Len(s) \in DOMAIN u /\ u[k + Len(s)] = t[k]
    OBVIOUS
  <2>1. k + Len(s) \in DOMAIN u /\ ~(k + Len(s) <= Len(s)) /\ (k + Len(s)) - Len(s) = k
    BY <1>1, <1>3
  <2> QED
    BY <1>2, <1>3, <2>1
<1>6. \A k \in DOMAIN u : \/ k \in 1..Len(s)
                          \/ \E m \in 1..Len(t) : k = m + Len(s)
  <2> SUFFICES ASSUME NEW k \in DOMAIN u, k \notin 1..Len(s)
               PROVE  \E m \in 1..Len(t) : k = m + Len(s)
    OBVIOUS
  <2>1. k - Len(s) \in 1..Len(t) /\ k = (k - Len(s)) + Len(s)
    BY <1>1, <1>3
  <2> QED
    BY <2>1
<1>7. ToSet(u) = ToSet(s) \cup ToSet(t)
  <2>1. ToSet(u) \subseteq ToSet(s) \cup ToSet(t)
    BY <1>1, <1>4, <1>5, <1>6 DEF ToSet
  <2>2. ToSet(s) \subseteq ToSet(u)
    BY <1>1, <1>4 DEF ToSet
  <2>3. ToSet(t) \subseteq ToSet(u)
    BY <1>1, <1>5 DEF ToSet
  <2> QED
    BY <2>1, <2>2, <2>3
<1>8. ASSUME IsInjective(u)
      PROVE  IsInjective(s) /\ IsInjective(t) /\ ToSet(s) \cap ToSet(t) = {}
  <2>1. IsInjective(s)
    BY <1>1, <1>4, <1>8 DEF IsInjective
  <2>2. IsInjective(t)
    <3> SUFFICES ASSUME NEW k \in 1..Len(t), NEW m \in 1..Len(t), t[k] = t[m]
                 PROVE  k = m
      BY <1>1 DEF IsInjective
    <3>1. k + Len(s) = m + Len(s)
      BY <1>5, <1>8 DEF IsInjective
    <3> QED
      BY <1>1, <3>1
  <2>3. ToSet(s) \cap ToSet(t) = {}
    <3> SUFFICES ASSUME NEW k \in 1..Len(s), NEW m \in 1..Len(t), s[k] = t[m]
                 PROVE  FALSE
      BY <1>1 DEF ToSet
    <3>1. k = m + Len(s)
      BY <1>4, <1>5, <1>8 DEF IsInjective
    <3> QED
      BY <1>1, <3>1
  <2> QED
    BY <2>1, <2>2, <2>3
<1>9. ASSUME IsInjective(s), IsInjective(t), ToSet(s) \cap ToSet(t) = {}
      PROVE  IsInjective(u)
  <2> SUFFICES ASSUME NEW k \in DOMAIN u, NEW m \in DOMAIN u, u[k] = u[m]
               PROVE  k = m
    BY DEF IsInjective
  <2>1. \A a \in 1..Len(s), b \in 1..Len(t) : s[a] # t[b]
    BY <1>1, <1>9 DEF ToSet
  <2>2. CASE k \in 1..Len(s) /\ m \in 1..Len(s)
    BY <1>1, <1>4, <1>9, <2>2 DEF IsInjective
  <2>3. CASE k \in 1..Len(s) /\ m \notin 1..Len(s)
    BY <1>4, <1>5, <1>6, <2>1, <2>3
  <2>4. CASE k \notin 1..Len(s) /\ m \in 1..Len(s)
    BY <1>4, <1>5, <1>6, <2>1, <2>4
  <2>5. CASE k \notin 1..Len(s) /\ m \notin 1..Len(s)
    <3>1. PICK a \in 1..Len(t), b \in 1..Len(t) : k = a + Len(s) /\ m = b + Len(s)
      BY <1>6, <2>5
    <3>2. t[a] = t[b]
      BY <1>5, <3>1
    <3> QED
      BY <1>1, <1>9, <3>1, <3>2 DEF IsInjective
  <2> QED
    BY <2>2, <2>3, <2>4, <2>5
<1> QED
  BY <1>7, <1>8, <1>9 DEF u

\* A singleton list.
LEMMA SingletonElements ==
    ASSUME NEW S, NEW e \in S
    PROVE  /\ <<e>> \in Seq(S) /\ Len(<<e>>) = 1
           /\ ToSet(<<e>>) = {e} /\ IsInjective(<<e>>)
<1>1. DOMAIN <<e>> = 1..1 /\ <<e>>[1] = e
  OBVIOUS
<1> QED
  BY <1>1 DEF ToSet, IsInjective

\* Insertion anywhere: one element more; no duplicate when it is new.
LEMMA InsertAtElements ==
    ASSUME NEW S, NEW s \in Seq(S), NEW i \in 1..(Len(s) + 1), NEW e \in S
    PROVE  /\ ToSet(InsertAt(s, i, e)) = ToSet(s) \cup {e}
           /\ IsInjective(s) /\ e \notin ToSet(s) => IsInjective(InsertAt(s, i, e))
<1> DEFINE a == SubSeq(s, 1, i - 1)
           b == SubSeq(s, i, Len(s))
<1>1. a \in Seq(S) /\ b \in Seq(S)
  OBVIOUS
<1>2. a \o b = s
  <2>1. /\ 1 \in 1..(Len(s) + 1) /\ i - 1 \in (1 - 1)..Len(s) /\ Len(s) \in (i - 1)..Len(s)
        /\ (i - 1) + 1 = i
    OBVIOUS
  <2>2. SubSeq(s, 1, i - 1) \o SubSeq(s, (i - 1) + 1, Len(s)) = SubSeq(s, 1, Len(s))
    BY <2>1, ConcatAdjacentSubSeq
  <2>3. SubSeq(s, 1, Len(s)) = s
    BY SubSeqFull
  <2> QED
    BY <2>1, <2>2, <2>3
<1>3. InsertAt(s, i, e) = (a \o <<e>>) \o b
  BY DEF InsertAt
<1> HIDE DEF a, b
<1>4. <<e>> \in Seq(S) /\ ToSet(<<e>>) = {e} /\ IsInjective(<<e>>)
  BY SingletonElements
<1>5. a \o <<e>> \in Seq(S)
  BY <1>1, <1>4, ConcatProperties
<1>6. /\ ToSet(s) = ToSet(a) \cup ToSet(b)
      /\ IsInjective(s) <=> IsInjective(a) /\ IsInjective(b) /\ ToSet(a) \cap ToSet(b) = {}
  <2>1. /\ ToSet(a \o b) = ToSet(a) \cup ToSet(b)
        /\ IsInjective(a \o b) <=>
              IsInjective(a) /\ IsInjective(b) /\ ToSet(a) \cap ToSet(b) = {}
    BY <1>1, ConcatElements
  <2> QED
    BY <1>2, <2>1
<1>7. /\ ToSet(a \o <<e>>) = ToSet(a) \cup ToSet(<<e>>)
      /\ IsInjective(a \o <<e>>) <=>
            IsInjective(a) /\ IsInjective(<<e>>) /\ ToSet(a) \cap ToSet(<<e>>) = {}
  BY <1>1, <1>4, ConcatElements
<1>8. /\ ToSet((a \o <<e>>) \o b) = ToSet(a \o <<e>>) \cup ToSet(b)
      /\ IsInjective((a \o <<e>>) \o b) <=>
            /\ IsInjective(a \o <<e>>) /\ IsInjective(b)
            /\ ToSet(a \o <<e>>) \cap ToSet(b) = {}
  BY <1>1, <1>5, ConcatElements
<1> QED
  BY <1>3, <1>4, <1>6, <1>7, <1>8

\* The same for insertion in level order.
LEMMA InsertByLevelElements ==
    ASSUME NEW S, NEW s \in Seq(S), NEW lv, NEW e \in S
    PROVE  /\ ToSet(InsertByLevel(s, lv, e)) = ToSet(s) \cup {e}
           /\ IsInjective(s) /\ e \notin ToSet(s) => IsInjective(InsertByLevel(s, lv, e))
<1>1. InsertPoint(s, lv, e) \in 1..(Len(s) + 1)
  BY InsertPointInList
<1> QED
  BY <1>1, InsertAtElements DEF InsertByLevel

\* Reversal keeps the length, the elements and the absence of duplicates.
LEMMA ReverseProperties ==
    ASSUME NEW S, NEW s \in Seq(S)
    PROVE  /\ Reverse(s) \in Seq(S) /\ Len(Reverse(s)) = Len(s)
           /\ ToSet(Reverse(s)) = ToSet(s)
           /\ IsInjective(s) => IsInjective(Reverse(s))
<1> DEFINE t == Reverse(s)
           mirror(k) == (Len(s) - k) + 1
<1>1. Len(s) \in Nat /\ DOMAIN s = 1..Len(s)
  OBVIOUS
<1>2. \A k \in 1..Len(s) : mirror(k) \in 1..Len(s) /\ mirror(mirror(k)) = k
  BY <1>1
<1>3. DOMAIN t = 1..Len(s) /\ \A k \in 1..Len(s) : t[k] = s[mirror(k)]
  BY DEF Reverse
<1>4. t \in Seq(S) /\ Len(t) = Len(s)
  BY <1>1, <1>2 DEF Reverse
<1> HIDE DEF t, mirror
<1>5. ToSet(t) \subseteq ToSet(s)
  BY <1>1, <1>2, <1>3 DEF ToSet
<1>6. ASSUME NEW k \in 1..Len(s) PROVE s[k] \in ToSet(t)
  <2>1. mirror(k) \in DOMAIN t /\ t[mirror(k)] = s[k]
    BY <1>2, <1>3
  <2> QED
    BY <2>1 DEF ToSet
<1>7. ToSet(s) \subseteq ToSet(t)
  BY <1>1, <1>6 DEF ToSet
<1>8. ASSUME IsInjective(s) PROVE IsInjective(t)
  <2> SUFFICES ASSUME NEW k \in 1..Len(s), NEW m \in 1..Len(s), t[k] = t[m]
               PROVE  k = m
    BY <1>3 DEF IsInjective
  <2>1. mirror(k) = mirror(m)
    BY <1>1, <1>2, <1>3, <1>8 DEF IsInjective
  <2> QED
    BY <1>2, <2>1
<1> QED
  BY <1>4, <1>5, <1>7, <1>8 DEF t

-----------------------------------------------------------------------------
(* Lists in level order. *)

\* s is ordered by the levels lv.
InOrder(s, lv) == \A i, j \in DOMAIN s : i < j => lv[s[i]] <= lv[s[j]]

\* A set of positions with every earlier position in it is an initial segment.
LEMMA InitialSegment ==
    ASSUME NEW n \in Nat, NEW A \in SUBSET (1..n),
           \A i \in A : \A j \in 1..n : j < i => j \in A
    PROVE  Cardinality(A) \in 0..n /\ A = 1..Cardinality(A)
<1>1. IsFiniteSet(A) /\ Cardinality(A) \in Nat /\ Cardinality(A) <= n
  <2>1. IsFiniteSet(1..n) /\ Cardinality(1..n) = n
    BY SegmentCardinality
  <2>2. IsFiniteSet(A) /\ Cardinality(A) <= Cardinality(1..n)
    BY <2>1, FS_Subset
  <2> QED
    BY <2>1, <2>2, FS_CardinalityType
<1>2. ASSUME NEW i \in A PROVE i <= Cardinality(A)
  <2>1. i \in Nat /\ 1..i \subseteq A
    OBVIOUS
  <2> QED
    BY <1>1, <2>1, SegmentCardinality, FS_Subset
<1>3. ASSUME NEW i \in 1..Cardinality(A), i \notin A PROVE FALSE
  <2>1. i - 1 \in Nat /\ i \in 1..n
    BY <1>1
  <2>2. A \subseteq 1..(i - 1)
    BY <1>3, <2>1
  <2>3. IsFiniteSet(1..(i - 1)) /\ Cardinality(1..(i - 1)) = i - 1
    BY <2>1, SegmentCardinality
  <2>4. Cardinality(A) <= Cardinality(1..(i - 1))
    BY <2>2, <2>3, FS_Subset
  <2> QED
    BY <1>1, <2>1, <2>3, <2>4
<1>4. A \subseteq 1..Cardinality(A)
  BY <1>1, <1>2
<1>5. 1..Cardinality(A) \subseteq A
  BY <1>3
<1>6. Cardinality(A) \in 0..n
  BY <1>1
<1> QED
  BY <1>4, <1>5, <1>6

\* Deleting a position keeps the order.
LEMMA RemoveAtInOrder ==
    ASSUME NEW S, NEW s \in Seq(S), NEW i \in 1..Len(s), NEW lv, InOrder(s, lv)
    PROVE  InOrder(RemoveAt(s, i), lv)
<1> DEFINE t == RemoveAt(s, i)
           old(k) == IF k < i THEN k ELSE k + 1
<1>1. t \in Seq(S) /\ Len(t) = Len(s) - 1
  BY RemoveAtProperties
<1>2. DOMAIN t = 1..(Len(s) - 1) /\ DOMAIN s = 1..Len(s) /\ Len(s) \in Nat /\ i \in Int
  BY <1>1
<1>3. \A k \in 1..(Len(s) - 1) : t[k] = s[old(k)]
  BY RemoveAtProperties
<1>4. \A k \in 1..(Len(s) - 1) : old(k) \in 1..Len(s)
  BY <1>2
<1>5. \A k, m \in 1..(Len(s) - 1) : k < m => old(k) < old(m)
  BY <1>2
<1> HIDE DEF t, old
<1>6. InOrder(t, lv)
  BY <1>2, <1>3, <1>4, <1>5 DEF InOrder
<1> QED
  BY <1>6 DEF t

\* So does taking an element out, wherever it is.
LEMMA WithoutInOrder ==
    ASSUME NEW S, NEW s \in Seq(S), NEW e, NEW lv, InOrder(s, lv)
    PROVE  InOrder(Without(s, e), lv)
<1>1. CASE Contains(s, e)
  BY <1>1, WithoutProperties, RemoveAtInOrder DEF Without
<1>2. CASE ~Contains(s, e)
  BY <1>2 DEF Without
<1> QED
  BY <1>1, <1>2

\* So does taking the first element.
LEMMA TailInOrder ==
    ASSUME NEW S, NEW s \in Seq(S), s # <<>>, NEW lv, InOrder(s, lv)
    PROVE  InOrder(Tail(s), lv)
<1>1. /\ DOMAIN s = 1..Len(s) /\ Len(s) \in Nat \ {0}
      /\ DOMAIN Tail(s) = 1..(Len(s) - 1)
      /\ \A k \in 1..(Len(s) - 1) : Tail(s)[k] = s[k + 1]
  OBVIOUS
<1> SUFFICES ASSUME NEW i \in 1..(Len(s) - 1), NEW j \in 1..(Len(s) - 1), i < j
             PROVE  lv[Tail(s)[i]] <= lv[Tail(s)[j]]
  BY <1>1 DEF InOrder
<1>2. i + 1 \in DOMAIN s /\ j + 1 \in DOMAIN s /\ i + 1 < j + 1
  BY <1>1
<1>3. lv[s[i + 1]] <= lv[s[j + 1]]
  BY <1>2 DEF InOrder
<1> QED
  BY <1>1, <1>3

\* Two ordered lists make one when nothing in the second has a better level than
\* anything in the first.
LEMMA ConcatInOrder ==
    ASSUME NEW S, NEW s \in Seq(S), NEW t \in Seq(S), NEW lv,
           InOrder(s, lv), InOrder(t, lv),
           \A a \in ToSet(s), b \in ToSet(t) : lv[a] <= lv[b]
    PROVE  InOrder(s \o t, lv)
<1> DEFINE u == s \o t
<1>1. /\ Len(s) \in Nat /\ Len(t) \in Nat
      /\ DOMAIN s = 1..Len(s) /\ DOMAIN t = 1..Len(t)
  OBVIOUS
<1>2. /\ u \in Seq(S) /\ Len(u) = Len(s) + Len(t)
      /\ \A k \in 1..(Len(s) + Len(t)) : u[k] = IF k <= Len(s) THEN s[k] ELSE t[k - Len(s)]
  BY ConcatProperties
<1>3. DOMAIN u = 1..(Len(s) + Len(t))
  BY <1>2
<1> HIDE DEF u
<1> SUFFICES ASSUME NEW i \in DOMAIN u, NEW j \in DOMAIN u, i < j
             PROVE  lv[u[i]] <= lv[u[j]]
  BY DEF InOrder, u
<1>4. ASSUME NEW k \in DOMAIN u, k <= Len(s) PROVE k \in DOMAIN s /\ u[k] = s[k]
  BY <1>1, <1>2, <1>3, <1>4
<1>5. ASSUME NEW k \in DOMAIN u, ~(k <= Len(s))
      PROVE  k - Len(s) \in DOMAIN t /\ u[k] = t[k - Len(s)]
  BY <1>1, <1>2, <1>3, <1>5
<1>6. CASE j <= Len(s)
  <2>1. i <= Len(s)
    BY <1>1, <1>3, <1>6
  <2> QED
    BY <1>4, <1>6, <2>1 DEF InOrder
<1>7. CASE i <= Len(s) /\ ~(j <= Len(s))
  BY <1>4, <1>5, <1>7 DEF ToSet
<1>8. CASE ~(i <= Len(s)) /\ ~(j <= Len(s))
  <2>1. i - Len(s) < j - Len(s)
    BY <1>1, <1>3
  <2> QED
    BY <1>5, <1>8, <2>1 DEF InOrder
<1> QED
  BY <1>6, <1>7, <1>8

\* A list whose elements all have the same level is in order.
LEMMA FlatInOrder ==
    ASSUME NEW s, NEW lv, NEW l \in Int, \A e \in ToSet(s) : lv[e] = l
    PROVE  InOrder(s, lv)
BY DEF InOrder, ToSet

\* Insertion in level order splits an ordered list: the same and the better levels
\* stay in front of the new element, the others go behind it.
LEMMA InsertByLevelSplits ==
    ASSUME NEW S, NEW s \in Seq(S), NEW e \in S, NEW lv \in [S -> Int], InOrder(s, lv)
    PROVE  \E a, b \in Seq(S) :
              /\ s = a \o b /\ InsertByLevel(s, lv, e) = (a \o <<e>>) \o b
              /\ \A x \in ToSet(a) : lv[x] <= lv[e]
              /\ \A x \in ToSet(b) : lv[e] < lv[x]
<1> DEFINE A == {i \in DOMAIN s : lv[s[i]] <= lv[e]}
           k == Cardinality(A)
           a == SubSeq(s, 1, k)
           b == SubSeq(s, k + 1, Len(s))
<1>0. Len(s) \in Nat /\ DOMAIN s = 1..Len(s) /\ \A i \in 1..Len(s) : s[i] \in S
  OBVIOUS
<1>1. A \in SUBSET (1..Len(s))
  BY <1>0
<1>2. \A i \in 1..Len(s) : i \in A <=> lv[s[i]] <= lv[e]
  BY <1>0
<1>3. \A i \in A : \A j \in 1..Len(s) : j < i => j \in A
  <2> HIDE DEF A
  <2> SUFFICES ASSUME NEW i \in A, NEW j \in 1..Len(s), j < i PROVE j \in A
    OBVIOUS
  <2>1. lv[s[j]] <= lv[s[i]] /\ lv[s[i]] <= lv[e]
    BY <1>0, <1>1, <1>2 DEF InOrder
  <2>2. lv[s[j]] \in Int /\ lv[s[i]] \in Int /\ lv[e] \in Int
    BY <1>0, <1>1
  <2>3. lv[s[j]] <= lv[e]
    BY <2>1, <2>2
  <2> QED
    BY <1>2, <2>3
<1>4. k \in 0..Len(s) /\ A = 1..k
  <2> HIDE DEF A
  <2> QED
    BY <1>0, <1>1, <1>3, InitialSegment
<1>5. InsertByLevel(s, lv, e) = InsertAt(s, k + 1, e)
  BY DEF InsertByLevel, InsertPoint
<1> HIDE DEF A, k
<1>6. /\ a \in Seq(S) /\ Len(a) = k /\ b \in Seq(S) /\ Len(b) = Len(s) - k
      /\ \A i \in 1..k : a[i] = s[i]
      /\ \A i \in 1..(Len(s) - k) : b[i] = s[k + i]
  BY <1>4
<1>7. InsertAt(s, k + 1, e) = (a \o <<e>>) \o b
  <2>1. (k + 1) - 1 = k
    BY <1>4
  <2> QED
    BY <2>1 DEF InsertAt
<1>8. a \o b = s
  <2>1. /\ 1 \in 1..(Len(s) + 1) /\ k \in (1 - 1)..Len(s) /\ Len(s) \in k..Len(s)
    BY <1>0, <1>4
  <2>2. a \o b = SubSeq(s, 1, Len(s))
    BY <2>1, ConcatAdjacentSubSeq
  <2> QED
    BY <2>2, SubSeqFull
<1> HIDE DEF a, b
<1>9. DOMAIN a = 1..k /\ DOMAIN b = 1..(Len(s) - k) /\ k \in Nat
  BY <1>4, <1>6
<1>10. \A x \in ToSet(a) : lv[x] <= lv[e]
  <2> SUFFICES ASSUME NEW i \in 1..k PROVE lv[a[i]] <= lv[e]
    BY <1>9 DEF ToSet
  <2>1. i \in 1..Len(s) /\ i \in A
    BY <1>0, <1>4
  <2> QED
    BY <1>2, <1>6, <2>1
<1>11. \A x \in ToSet(b) : lv[e] < lv[x]
  <2> SUFFICES ASSUME NEW i \in 1..(Len(s) - k) PROVE lv[e] < lv[b[i]]
    BY <1>9 DEF ToSet
  <2>1. k + i \in 1..Len(s) /\ k + i \notin A
    BY <1>0, <1>4, <1>9
  <2>2. ~(lv[s[k + i]] <= lv[e]) /\ s[k + i] \in S
    BY <1>0, <1>2, <2>1
  <2>3. lv[s[k + i]] \in Int /\ lv[e] \in Int
    BY <2>2
  <2>4. lv[e] < lv[s[k + i]]
    BY <2>2, <2>3
  <2> QED
    BY <1>6, <2>4
<1>12. s = a \o b /\ InsertByLevel(s, lv, e) = (a \o <<e>>) \o b
  BY <1>5, <1>7, <1>8
<1>13. a \in Seq(S) /\ b \in Seq(S)
  BY <1>6
<1> QED
  BY <1>10, <1>11, <1>12, <1>13, Zenon

\* Insertion behind the last element of the same or a better level keeps the order.
LEMMA InsertByLevelInOrder ==
    ASSUME NEW S, NEW s \in Seq(S), NEW e \in S, NEW lv \in [S -> Int], InOrder(s, lv)
    PROVE  InOrder(InsertByLevel(s, lv, e), lv)
<1>1. PICK a, b \in Seq(S) :
          /\ s = a \o b /\ InsertByLevel(s, lv, e) = (a \o <<e>>) \o b
          /\ \A x \in ToSet(a) : lv[x] <= lv[e]
          /\ \A x \in ToSet(b) : lv[e] < lv[x]
  BY InsertByLevelSplits
<1>2. InOrder(a, lv) /\ InOrder(b, lv)
  <2>1. /\ Len(a) \in Nat /\ Len(b) \in Nat /\ DOMAIN s = 1..(Len(a) + Len(b))
        /\ DOMAIN a = 1..Len(a) /\ DOMAIN b = 1..Len(b)
        /\ \A i \in 1..(Len(a) + Len(b)) : s[i] = IF i <= Len(a) THEN a[i] ELSE b[i - Len(a)]
    BY <1>1, ConcatProperties
  <2>2. InOrder(a, lv)
    <3>1. \A i \in 1..Len(a) : i \in DOMAIN s /\ s[i] = a[i]
      BY <2>1
    <3> QED
      BY <2>1, <3>1 DEF InOrder
  <2>3. ASSUME NEW i \in 1..Len(b)
        PROVE  i + Len(a) \in DOMAIN s /\ s[i + Len(a)] = b[i]
    <3>1. /\ i + Len(a) \in 1..(Len(a) + Len(b)) /\ ~(i + Len(a) <= Len(a))
          /\ (i + Len(a)) - Len(a) = i
      BY <2>1
    <3> QED
      BY <2>1, <3>1
  <2>4. InOrder(b, lv)
    <3> SUFFICES ASSUME NEW i \in 1..Len(b), NEW j \in 1..Len(b), i < j
                 PROVE  lv[b[i]] <= lv[b[j]]
      BY <2>1 DEF InOrder
    <3>1. i + Len(a) < j + Len(a)
      BY <2>1
    <3> QED
      BY <2>3, <3>1 DEF InOrder
  <2> QED
    BY <2>2, <2>4
<1>3. /\ <<e>> \in Seq(S) /\ ToSet(<<e>>) = {e} /\ InOrder(<<e>>, lv)
  <2>1. InOrder(<<e>>, lv)
    BY DEF InOrder
  <2> QED
    BY <2>1, SingletonElements
<1>4. InOrder(a \o <<e>>, lv)
  BY <1>1, <1>2, <1>3, ConcatInOrder
<1>5. a \o <<e>> \in Seq(S) /\ ToSet(a \o <<e>>) = ToSet(a) \cup {e}
  BY <1>3, ConcatProperties, ConcatElements
<1>6. \A x \in ToSet(a \o <<e>>), y \in ToSet(b) : lv[x] <= lv[y]
  <2>1. ToSet(a) \subseteq S /\ ToSet(b) \subseteq S
    BY DEF ToSet
  <2> SUFFICES ASSUME NEW x \in ToSet(a) \cup {e}, NEW y \in ToSet(b) PROVE lv[x] <= lv[y]
    BY <1>5
  <2>2. lv[x] \in Int /\ lv[y] \in Int /\ lv[e] \in Int
    BY <2>1
  <2>3. lv[x] <= lv[e] /\ lv[e] < lv[y]
    BY <1>1, <2>2
  <2> QED
    BY <2>2, <2>3
<1>7. InOrder((a \o <<e>>) \o b, lv)
  BY <1>2, <1>4, <1>5, <1>6, ConcatInOrder
<1> QED
  BY <1>1, <1>7

-----------------------------------------------------------------------------
(* Sums.  FoldFunction adds the values of a function up one by one, the next   *)
(* one chosen from those left.  The fold is a recursive function over the      *)
(* subsets of the domain; that it exists, and that the order does not matter,  *)
(* follows by induction over the finite subsets, each time as the absence of a *)
(* minimal counterexample.                                                     *)

\* The element that a fold takes first.
Pick(s) == CHOOSE x \in s : TRUE

\* g sums f over every subset of S in the order in which a fold takes them.
Sums(g, f, S) ==
    g = [s \in SUBSET S |-> IF s = {} THEN 0 ELSE f[Pick(s)] + g[s \ {Pick(s)}]]

\* A fold over the values of f is the value of such a function.
LEMMA FoldIsSum ==
    ASSUME NEW f
    PROVE  FoldFunction(+, 0, f) = (CHOOSE g : Sums(g, f, DOMAIN f))[DOMAIN f]
  BY Zenon DEF FoldFunction, FoldFunctionOnSet, MapThenFoldSet, Sums, Pick

\* Induction over the subsets of a finite set: a minimal counterexample.
LEMMA MinimalSubset ==
    ASSUME NEW S, IsFiniteSet(S), NEW T, T \subseteq SUBSET S, T # {}
    PROVE  \E s \in T : \A t \in T : ~(t \subseteq s /\ t # s)
<1>1. IsWellFoundedOn(StrictSubsetOrdering(S), SUBSET S)
  BY FS_StrictSubsetOrderingWellFounded, FS_FiniteSubsetsOfFinite
<1>2. \E s \in T : \A t \in T : ~(<<t, s>> \in StrictSubsetOrdering(S))
  BY <1>1, WFMin
<1> QED
  BY <1>2 DEF StrictSubsetOrdering

\* It is one of them.
LEMMA PickIn == ASSUME NEW s, s # {} PROVE Pick(s) \in s
  BY DEF Pick

\* Two such functions agree where both are defined.
LEMMA SumsAgree ==
    ASSUME NEW S, IsFiniteSet(S), NEW f, NEW u \in SUBSET S, NEW v \in SUBSET S,
           NEW g, NEW h, Sums(g, f, u), Sums(h, f, v)
    PROVE  \A w \in (SUBSET u) \cap (SUBSET v) : g[w] = h[w]
<1> DEFINE T == {w \in (SUBSET u) \cap (SUBSET v) : g[w] # h[w]}
<1> SUFFICES ASSUME T # {} PROVE FALSE
  OBVIOUS
<1>1. T \subseteq SUBSET S
  OBVIOUS
<1>2. PICK w \in T : \A t \in T : ~(t \subseteq w /\ t # w)
  <2> HIDE DEF T
  <2> QED
    BY <1>1, MinimalSubset
<1>3. /\ g[w] = IF w = {} THEN 0 ELSE f[Pick(w)] + g[w \ {Pick(w)}]
      /\ h[w] = IF w = {} THEN 0 ELSE f[Pick(w)] + h[w \ {Pick(w)}]
  BY DEF Sums
<1>4. w # {} => Pick(w) \in w
  BY PickIn
<1> DEFINE t == w \ {Pick(w)}
<1>5. w # {} => g[t] = h[t]
  <2>1. w # {} => t \subseteq w /\ t # w /\ t \in (SUBSET u) \cap (SUBSET v)
    BY <1>4
  <2> QED
    BY <1>2, <2>1
<1> QED
  BY <1>3, <1>5

\* There is such a function for every finite set.
LEMMA SumsExist ==
    ASSUME NEW S, IsFiniteSet(S), NEW f
    PROVE  \A u \in SUBSET S : \E g : Sums(g, f, u)
<1> DEFINE T == {u \in SUBSET S : ~ \E g : Sums(g, f, u)}
<1> SUFFICES ASSUME T # {} PROVE FALSE
  OBVIOUS
<1>1. T \subseteq SUBSET S
  OBVIOUS
<1>2. PICK u \in T : \A t \in T : ~(t \subseteq u /\ t # u)
  <2> HIDE DEF T
  <2> QED
    BY <1>1, MinimalSubset
<1> DEFINE G(v) == CHOOSE g : Sums(g, f, v)
           g0 == [w \in SUBSET u |->
                    IF w = {} THEN 0
                    ELSE f[Pick(w)] + G(w \ {Pick(w)})[w \ {Pick(w)}]]
<1>3. \A v \in SUBSET u : v # u => Sums(G(v), f, v)
  BY <1>2
<1> HIDE DEF G
<1>4. ASSUME NEW w \in SUBSET u, w # u PROVE g0[w] = G(w)[w]
  <2>1. Sums(G(w), f, w)
    BY <1>3, <1>4
  <2>2. G(w)[w] = IF w = {} THEN 0 ELSE f[Pick(w)] + G(w)[w \ {Pick(w)}]
    BY <2>1 DEF Sums
  <2>3. ASSUME w # {} PROVE G(w)[w \ {Pick(w)}] = G(w \ {Pick(w)})[w \ {Pick(w)}]
    <3> DEFINE x == w \ {Pick(w)}
    <3>1. x \in SUBSET u /\ x # u /\ x \in SUBSET S /\ w \in SUBSET S /\ x \subseteq w
      BY <1>4
    <3>2. Sums(G(x), f, x)
      BY <1>3, <3>1
    <3> HIDE DEF x
    <3>3. x \in (SUBSET x) \cap (SUBSET w)
      BY <3>1
    <3>4. G(w)[x] = G(x)[x]
      BY <2>1, <3>1, <3>2, <3>3, SumsAgree
    <3> QED
      BY <3>4 DEF x
  <2> QED
    BY <2>2, <2>3
<1>5. Sums(g0, f, u)
  <2>1. ASSUME NEW w \in SUBSET u, w # {}
        PROVE  g0[w \ {Pick(w)}] = G(w \ {Pick(w)})[w \ {Pick(w)}]
    <3>1. Pick(w) \in w
      BY <2>1, PickIn
    <3>2. w \ {Pick(w)} \in SUBSET u /\ w \ {Pick(w)} # u
      BY <3>1
    <3> QED
      BY <1>4, <3>2
  <2> DEFINE g1 == [w \in SUBSET u |-> IF w = {} THEN 0 ELSE f[Pick(w)] + g0[w \ {Pick(w)}]]
  <2>2. \A w \in SUBSET u : g0[w] = g1[w]
    <3> SUFFICES ASSUME NEW w \in SUBSET u PROVE g0[w] = g1[w]
      OBVIOUS
    <3>1. g0[w] = IF w = {} THEN 0 ELSE f[Pick(w)] + G(w \ {Pick(w)})[w \ {Pick(w)}]
      OBVIOUS
    <3>2. g1[w] = IF w = {} THEN 0 ELSE f[Pick(w)] + g0[w \ {Pick(w)}]
      OBVIOUS
    <3> HIDE DEF g0, g1
    <3> QED
      BY <2>1, <3>1, <3>2
  <2>3. g0 = g1
    BY <2>2
  <2> QED
    BY <2>3 DEF Sums
<1>6. \E g : Sums(g, f, u)
  BY <1>5
<1> QED
  BY <1>2, <1>6

\* The function that sums f over the subsets of its domain.
SumOf(f) == CHOOSE g : Sums(g, f, DOMAIN f)

\* It satisfies the recursion that defines it.
LEMMA SumOfDef ==
    ASSUME NEW f, IsFiniteSet(DOMAIN f)
    PROVE  Sums(SumOf(f), f, DOMAIN f)
<1>1. DOMAIN f \in SUBSET DOMAIN f
  OBVIOUS
<1>2. \E g : Sums(g, f, DOMAIN f)
  BY <1>1, SumsExist
<1> QED
  BY <1>2 DEF SumOf

\* A sum of integers is an integer.
LEMMA SumType ==
    ASSUME NEW S, IsFiniteSet(S), NEW f \in [S -> Int]
    PROVE  /\ \A s \in SUBSET S : SumOf(f)[s] \in Int
           /\ SumOf(f)[{}] = 0
<1> DEFINE g == SumOf(f)
<1>1. DOMAIN f = S
  OBVIOUS
<1>2. \A s \in SUBSET S : g[s] = IF s = {} THEN 0 ELSE f[Pick(s)] + g[s \ {Pick(s)}]
  BY <1>1, SumOfDef DEF Sums
<1> HIDE DEF g
<1>3. \A s \in SUBSET S : g[s] \in Int
  <2> DEFINE T == {s \in SUBSET S : g[s] \notin Int}
  <2> SUFFICES ASSUME T # {} PROVE FALSE
    OBVIOUS
  <2>1. T \subseteq SUBSET S
    OBVIOUS
  <2>2. PICK s \in T : \A t \in T : ~(t \subseteq s /\ t # s)
    <3> HIDE DEF T
    <3> QED
      BY <2>1, MinimalSubset
  <2>3. s # {}
    <3>1. g[{}] = 0 /\ g[s] \notin Int
      BY <1>2
    <3> QED
      BY <3>1
  <2>4. Pick(s) \in s
    BY <2>3, PickIn
  <2>5. g[s \ {Pick(s)}] \in Int
    BY <2>2, <2>4
  <2>6. f[Pick(s)] \in Int
    BY <2>4
  <2>7. g[s] = f[Pick(s)] + g[s \ {Pick(s)}]
    BY <1>2, <2>3
  <2> QED
    BY <2>5, <2>6, <2>7
<1>4. g[{}] = 0
  BY <1>2
<1> QED
  BY <1>3, <1>4 DEF g

\* The order does not matter: any element can be taken first.
LEMMA SumRemove ==
    ASSUME NEW S, IsFiniteSet(S), NEW f \in [S -> Int]
    PROVE  \A s \in SUBSET S : \A x \in s : SumOf(f)[s] = f[x] + SumOf(f)[s \ {x}]
<1> DEFINE g == SumOf(f)
           T == {s \in SUBSET S : \E x \in s : g[s] # f[x] + g[s \ {x}]}
<1>1. DOMAIN f = S
  OBVIOUS
<1>2. \A s \in SUBSET S : g[s] = IF s = {} THEN 0 ELSE f[Pick(s)] + g[s \ {Pick(s)}]
  BY <1>1, SumOfDef DEF Sums
<1>3. \A s \in SUBSET S : g[s] \in Int
  BY SumType
<1> HIDE DEF g
<1>4. SUFFICES ASSUME T # {} PROVE FALSE
  BY DEF g
<1>5. T \subseteq SUBSET S
  OBVIOUS
<1>6. PICK s \in T : \A t \in T : ~(t \subseteq s /\ t # s)
  <2> HIDE DEF T
  <2> QED
    BY <1>4, <1>5, MinimalSubset
<1>7. PICK x \in s : g[s] # f[x] + g[s \ {x}]
  BY <1>6
<1> DEFINE p == Pick(s)
<1>8. p \in s /\ g[s] = f[p] + g[s \ {p}]
  BY <1>2, <1>7, PickIn
<1> HIDE DEF p
<1>9. x # p
  BY <1>7, <1>8
<1>10. g[s \ {p}] = f[x] + g[(s \ {p}) \ {x}]
  <2>1. s \ {p} \subseteq s /\ s \ {p} # s /\ s \ {p} \in SUBSET S /\ x \in s \ {p}
    BY <1>8, <1>9
  <2>2. s \ {p} \notin T
    BY <1>6, <2>1
  <2> QED
    BY <2>1, <2>2
<1>11. g[s \ {x}] = f[p] + g[(s \ {x}) \ {p}]
  <2>1. s \ {x} \subseteq s /\ s \ {x} # s /\ s \ {x} \in SUBSET S /\ p \in s \ {x}
    BY <1>7, <1>8, <1>9
  <2>2. s \ {x} \notin T
    BY <1>6, <2>1
  <2> QED
    BY <2>1, <2>2
<1>12. (s \ {p}) \ {x} = (s \ {x}) \ {p}
  OBVIOUS
<1>13. f[p] \in Int /\ f[x] \in Int /\ g[(s \ {x}) \ {p}] \in Int
  BY <1>3, <1>7, <1>8
<1> DEFINE c == g[(s \ {x}) \ {p}]
           a == g[s \ {p}]
           b == g[s \ {x}]
<1>14. a = f[x] + c /\ b = f[p] + c /\ g[s] = f[p] + a /\ g[s] # f[x] + b /\ c \in Int
  BY <1>7, <1>8, <1>10, <1>11, <1>12, <1>13
<1> HIDE DEF a, b, c
<1> QED
  BY <1>13, <1>14

\* A sum depends on the values of the summands only.
LEMMA SumCongruence ==
    ASSUME NEW S, IsFiniteSet(S), NEW f \in [S -> Int], NEW h \in [S -> Int],
           NEW u \in SUBSET S, \A x \in u : f[x] = h[x]
    PROVE  SumOf(f)[u] = SumOf(h)[u]
<1> DEFINE g == SumOf(f)
           k == SumOf(h)
           T == {s \in SUBSET u : g[s] # k[s]}
<1>1. /\ \A s \in SUBSET S : g[s] \in Int /\ \A x \in s : g[s] = f[x] + g[s \ {x}]
      /\ g[{}] = 0
  BY SumType, SumRemove
<1>2. /\ \A s \in SUBSET S : k[s] \in Int /\ \A x \in s : k[s] = h[x] + k[s \ {x}]
      /\ k[{}] = 0
  BY SumType, SumRemove
<1> HIDE DEF g, k
<1>3. ASSUME T # {} PROVE FALSE
  <2>1. T \subseteq SUBSET S
    OBVIOUS
  <2>2. PICK s \in T : \A t \in T : ~(t \subseteq s /\ t # s)
    <3> HIDE DEF T
    <3> QED
      BY <1>3, <2>1, MinimalSubset
  <2>3. s # {}
    BY <1>1, <1>2
  <2>4. PICK x \in s : TRUE
    BY <2>3
  <2>5. g[s \ {x}] = k[s \ {x}]
    BY <2>2
  <2>6. g[s] = f[x] + g[s \ {x}] /\ k[s] = h[x] + k[s \ {x}] /\ f[x] = h[x]
    BY <1>1, <1>2
  <2>7. g[s] # k[s]
    OBVIOUS
  <2> HIDE DEF T
  <2> QED
    BY <2>5, <2>6, <2>7
<1> QED
  BY <1>3 DEF g, k

\* The sum of all values, when one of them changes.
LEMMA TotalUpdate ==
    ASSUME NEW S, IsFiniteSet(S), NEW f \in [S -> Int], NEW h \in [S -> Int], NEW x \in S,
           \A y \in S : y # x => h[y] = f[y]
    PROVE  /\ FoldFunction(+, 0, f) \in Int
           /\ FoldFunction(+, 0, h) = FoldFunction(+, 0, f) + (h[x] - f[x])
<1>1. /\ FoldFunction(+, 0, f) = SumOf(f)[S]
      /\ FoldFunction(+, 0, h) = SumOf(h)[S]
  <2>1. DOMAIN f = S /\ DOMAIN h = S
    OBVIOUS
  <2> QED
    BY <2>1, FoldIsSum DEF SumOf
<1>2. S \in SUBSET S /\ S \ {x} \in SUBSET S
  OBVIOUS
<1>3. SumOf(f)[S] = f[x] + SumOf(f)[S \ {x}] /\ SumOf(h)[S] = h[x] + SumOf(h)[S \ {x}]
  BY <1>2, SumRemove
<1>4. SumOf(f)[S \ {x}] = SumOf(h)[S \ {x}]
  BY <1>2, SumCongruence
<1>5. SumOf(f)[S \ {x}] \in Int
  BY <1>2, SumType
<1>6. f[x] \in Int /\ h[x] \in Int
  OBVIOUS
<1> DEFINE a == SumOf(f)[S \ {x}]
<1> HIDE DEF a
<1>7. SumOf(f)[S] = f[x] + a /\ SumOf(h)[S] = h[x] + a /\ a \in Int
  BY <1>3, <1>4, <1>5 DEF a
<1>8. SumOf(f)[S] \in Int /\ SumOf(h)[S] = SumOf(f)[S] + (h[x] - f[x])
  BY <1>6, <1>7
<1> QED
  BY <1>1, <1>8

\* Nothing sums up to nothing.
LEMMA TotalZero ==
    ASSUME NEW S, IsFiniteSet(S), NEW f \in [S -> Int], \A x \in S : f[x] = 0
    PROVE  FoldFunction(+, 0, f) = 0
<1> DEFINE g == SumOf(f)
           T == {s \in SUBSET S : g[s] # 0}
<1>1. /\ \A s \in SUBSET S : g[s] \in Int /\ \A x \in s : g[s] = f[x] + g[s \ {x}]
      /\ g[{}] = 0
  BY SumType, SumRemove
<1>2. FoldFunction(+, 0, f) = g[S]
  <2>1. DOMAIN f = S
    OBVIOUS
  <2> QED
    BY <2>1, FoldIsSum DEF SumOf
<1> HIDE DEF g
<1>3. ASSUME T # {} PROVE FALSE
  <2>1. T \subseteq SUBSET S
    OBVIOUS
  <2>2. PICK s \in T : \A t \in T : ~(t \subseteq s /\ t # s)
    <3> HIDE DEF T
    <3> QED
      BY <1>3, <2>1, MinimalSubset
  <2>3. s # {}
    BY <1>1
  <2>4. PICK x \in s : TRUE
    BY <2>3
  <2>5. g[s \ {x}] = 0
    BY <2>2
  <2>6. g[s] = f[x] + g[s \ {x}] /\ f[x] = 0
    BY <1>1
  <2>7. g[s] # 0
    OBVIOUS
  <2> HIDE DEF T
  <2> QED
    BY <2>5, <2>6, <2>7
<1> QED
  BY <1>2, <1>3

\* A sum of naturals is at least every one of them.
LEMMA TotalNat ==
    ASSUME NEW S, IsFiniteSet(S), NEW f \in [S -> Nat]
    PROVE  /\ FoldFunction(+, 0, f) \in Nat
           /\ \A x \in S : f[x] <= FoldFunction(+, 0, f)
<1> DEFINE g == SumOf(f)
           T == {s \in SUBSET S : g[s] \notin Nat}
<1>0. f \in [S -> Int]
  OBVIOUS
<1>1. /\ \A s \in SUBSET S : g[s] \in Int /\ \A x \in s : g[s] = f[x] + g[s \ {x}]
      /\ g[{}] = 0
  BY <1>0, SumType, SumRemove
<1>2. FoldFunction(+, 0, f) = g[S]
  <2>1. DOMAIN f = S
    OBVIOUS
  <2> QED
    BY <2>1, FoldIsSum DEF SumOf
<1> HIDE DEF g
<1>3. ASSUME T # {} PROVE FALSE
  <2>1. T \subseteq SUBSET S
    OBVIOUS
  <2>2. PICK s \in T : \A t \in T : ~(t \subseteq s /\ t # s)
    <3> HIDE DEF T
    <3> QED
      BY <1>3, <2>1, MinimalSubset
  <2>3. s # {}
    <3>1. g[{}] \in Nat /\ g[s] \notin Nat
      BY <1>1
    <3> QED
      BY <3>1
  <2>4. PICK x \in s : TRUE
    BY <2>3
  <2>5. g[s \ {x}] \in Nat
    BY <2>2
  <2>6. g[s] = f[x] + g[s \ {x}] /\ f[x] \in Nat
    BY <1>1
  <2>7. g[s] \notin Nat
    OBVIOUS
  <2> HIDE DEF T
  <2> QED
    BY <2>5, <2>6, <2>7
<1>4. ASSUME NEW x \in S PROVE f[x] <= g[S]
  <2>1. S \in SUBSET S /\ S \ {x} \in SUBSET S
    OBVIOUS
  <2>2. g[S] = f[x] + g[S \ {x}] /\ g[S \ {x}] \in Nat /\ f[x] \in Nat
    BY <1>1, <1>3, <2>1
  <2> QED
    BY <2>2
<1>5. g[S] \in Nat
  BY <1>3
<1> QED
  BY <1>2, <1>4, <1>5

\* Sums are monotone: with smaller values the sum is not larger.
LEMMA TotalMonotone ==
    ASSUME NEW S, IsFiniteSet(S), NEW f \in [S -> Int], NEW h \in [S -> Int],
           \A x \in S : f[x] <= h[x]
    PROVE  /\ FoldFunction(+, 0, f) \in Int /\ FoldFunction(+, 0, h) \in Int
           /\ FoldFunction(+, 0, f) <= FoldFunction(+, 0, h)
<1> DEFINE g == SumOf(f)
           k == SumOf(h)
           T == {s \in SUBSET S : ~(g[s] <= k[s])}
<1>1. /\ \A s \in SUBSET S : g[s] \in Int /\ \A x \in s : g[s] = f[x] + g[s \ {x}]
      /\ g[{}] = 0
  BY SumType, SumRemove
<1>2. /\ \A s \in SUBSET S : k[s] \in Int /\ \A x \in s : k[s] = h[x] + k[s \ {x}]
      /\ k[{}] = 0
  BY SumType, SumRemove
<1>3. FoldFunction(+, 0, f) = g[S] /\ FoldFunction(+, 0, h) = k[S]
  <2>1. DOMAIN f = S /\ DOMAIN h = S
    OBVIOUS
  <2> QED
    BY <2>1, FoldIsSum DEF SumOf
<1> HIDE DEF g, k
<1>4. ASSUME T # {} PROVE FALSE
  <2>1. T \subseteq SUBSET S
    OBVIOUS
  <2>2. PICK s \in T : \A t \in T : ~(t \subseteq s /\ t # s)
    <3> HIDE DEF T
    <3> QED
      BY <1>4, <2>1, MinimalSubset
  <2>3. s # {}
    <3>1. g[{}] <= k[{}] /\ ~(g[s] <= k[s])
      BY <1>1, <1>2
    <3> QED
      BY <3>1
  <2>4. PICK x \in s : TRUE
    BY <2>3
  <2>5. s \in SUBSET S /\ s \ {x} \in SUBSET S /\ x \in S
    OBVIOUS
  <2>6. g[s \ {x}] <= k[s \ {x}]
    BY <2>2, <2>5
  <2>7. /\ g[s] = f[x] + g[s \ {x}] /\ k[s] = h[x] + k[s \ {x}]
        /\ g[s \ {x}] \in Int /\ k[s \ {x}] \in Int
        /\ f[x] \in Int /\ h[x] \in Int /\ f[x] <= h[x]
    BY <1>1, <1>2, <2>5
  <2>8. ~(g[s] <= k[s])
    OBVIOUS
  <2> HIDE DEF T
  <2> QED
    BY <2>6, <2>7, <2>8
<1>5. S \in SUBSET S
  OBVIOUS
<1>6. g[S] \in Int /\ k[S] \in Int /\ g[S] <= k[S]
  BY <1>1, <1>2, <1>4, <1>5
<1> QED
  BY <1>3, <1>6

\* A sum of equal values.
LEMMA TotalConstant ==
    ASSUME NEW S, IsFiniteSet(S), NEW f \in [S -> Int], NEW c \in Int, \A x \in S : f[x] = c
    PROVE  FoldFunction(+, 0, f) = c * Cardinality(S)
<1> DEFINE g == SumOf(f)
           T == {s \in SUBSET S : g[s] # c * Cardinality(s)}
<1>1. /\ \A s \in SUBSET S : g[s] \in Int /\ \A x \in s : g[s] = f[x] + g[s \ {x}]
      /\ g[{}] = 0
  BY SumType, SumRemove
<1>2. FoldFunction(+, 0, f) = g[S]
  <2>1. DOMAIN f = S
    OBVIOUS
  <2> QED
    BY <2>1, FoldIsSum DEF SumOf
<1> HIDE DEF g
<1>3. ASSUME T # {} PROVE FALSE
  <2>1. T \subseteq SUBSET S
    OBVIOUS
  <2>2. PICK s \in T : \A t \in T : ~(t \subseteq s /\ t # s)
    <3> HIDE DEF T
    <3> QED
      BY <1>3, <2>1, MinimalSubset
  <2>3. s # {}
    <3>1. g[{}] = c * Cardinality({}) /\ g[s] # c * Cardinality(s)
      BY <1>1, FS_EmptySet
    <3> QED
      BY <3>1
  <2>4. PICK x \in s : TRUE
    BY <2>3
  <2> DEFINE n == Cardinality(s \ {x})
  <2>5. g[s \ {x}] = c * n
    BY <2>2
  <2>6. g[s] = f[x] + g[s \ {x}] /\ f[x] = c
    BY <1>1
  <2>7. g[s] # c * Cardinality(s)
    OBVIOUS
  <2>8. n \in Nat /\ Cardinality(s) = n + 1
    <3>1. IsFiniteSet(s) /\ IsFiniteSet(s \ {x})
      BY FS_Subset
    <3>2. Cardinality((s \ {x}) \cup {x}) = Cardinality(s \ {x}) + 1
      BY <3>1, FS_AddElement
    <3>3. (s \ {x}) \cup {x} = s
      BY <2>4
    <3> QED
      BY <3>1, <3>2, <3>3, FS_CardinalityType
  <2> HIDE DEF T, n
  <2>9. c * (n + 1) = c + c * n
    BY <2>8
  <2> QED
    BY <2>5, <2>6, <2>7, <2>8, <2>9
<1>4. g[S] = c * Cardinality(S)
  BY <1>3
<1> QED
  BY <1>2, <1>4

\* A fold over some of the values of a function is the sum over these.
LEMMA OnSetIsSum ==
    ASSUME NEW S, IsFiniteSet(S), NEW f \in [S -> Int], NEW u \in SUBSET S
    PROVE  FoldFunctionOnSet(+, 0, f, u) = SumOf(f)[u]
<1>1. FoldFunctionOnSet(+, 0, f, u) = (CHOOSE g : Sums(g, f, u))[u]
  BY Zenon DEF FoldFunctionOnSet, MapThenFoldSet, Sums, Pick
<1> DEFINE g == CHOOSE g : Sums(g, f, u)
<1>2. Sums(g, f, u)
  <2>1. \E k : Sums(k, f, u)
    BY SumsExist
  <2> QED
    BY <2>1
<1>3. Sums(SumOf(f), f, S)
  <2>1. DOMAIN f = S
    OBVIOUS
  <2> QED
    BY <2>1, SumOfDef
<1>4. S \in SUBSET S /\ u \in (SUBSET u) \cap (SUBSET S)
  OBVIOUS
<1> HIDE DEF g
<1>5. g[u] = SumOf(f)[u]
  BY <1>2, <1>3, <1>4, SumsAgree
<1> QED
  BY <1>1, <1>5 DEF g

\* The sum over two sets without a common member.
LEMMA SumSplit ==
    ASSUME NEW S, IsFiniteSet(S), NEW f \in [S -> Int], NEW u \in SUBSET S
    PROVE  \A v \in SUBSET (S \ u) : SumOf(f)[u \cup v] = SumOf(f)[u] + SumOf(f)[v]
<1> DEFINE g == SumOf(f)
           T == {v \in SUBSET (S \ u) : g[u \cup v] # g[u] + g[v]}
<1>1. /\ \A s \in SUBSET S : g[s] \in Int /\ \A x \in s : g[s] = f[x] + g[s \ {x}]
      /\ g[{}] = 0
  BY SumType, SumRemove
<1> HIDE DEF g
<1>2. ASSUME T # {} PROVE FALSE
  <2>1. T \subseteq SUBSET S
    OBVIOUS
  <2>2. PICK v \in T : \A t \in T : ~(t \subseteq v /\ t # v)
    <3> HIDE DEF T
    <3> QED
      BY <1>2, <2>1, MinimalSubset
  <2>3. v # {}
    <3>1. u \cup {} = u /\ g[u] \in Int
      BY <1>1
    <3>2. g[u \cup v] # g[u] + g[v]
      OBVIOUS
    <3> HIDE DEF T
    <3>3. ASSUME v = {} PROVE FALSE
      <4>1. u \cup v = u /\ g[v] = 0
        BY <1>1, <3>3
      <4> QED
        BY <3>1, <3>2, <4>1
    <3> QED
      BY <3>3
  <2>4. PICK x \in v : TRUE
    BY <2>3
  <2> DEFINE w == v \ {x}
  <2>5. /\ v \in SUBSET S /\ w \in SUBSET S /\ w \in SUBSET (S \ u) /\ u \cup v \in SUBSET S
        /\ u \cup w \in SUBSET S /\ (u \cup v) \ {x} = u \cup w /\ x \in S /\ x \in u \cup v
    OBVIOUS
  <2>6. g[u \cup w] = g[u] + g[w]
    <3>1. w \subseteq v /\ w # v
      OBVIOUS
    <3> QED
      BY <2>2, <2>5, <3>1
  <2>7. /\ g[u \cup v] = f[x] + g[u \cup w] /\ g[v] = f[x] + g[w]
        /\ g[u] \in Int /\ g[w] \in Int /\ f[x] \in Int
    <3>1. w = v \ {x}
      OBVIOUS
    <3> HIDE DEF T, w
    <3>2. g[u \cup v] = f[x] + g[(u \cup v) \ {x}]
      BY <1>1, <2>5
    <3>3. g[v] = f[x] + g[v \ {x}]
      BY <1>1, <2>4, <2>5
    <3>4. g[u] \in Int /\ g[w] \in Int /\ f[x] \in Int
      BY <1>1, <2>5
    <3> QED
      BY <2>5, <3>1, <3>2, <3>3, <3>4
  <2>8. g[u \cup v] # g[u] + g[v]
    OBVIOUS
  <2> HIDE DEF T, w
  <2> QED
    BY <2>6, <2>7, <2>8
<1> QED
  BY <1>2 DEF g

\* A sum of naturals is a natural, and nothing sums up to nothing.
LEMMA SumNat ==
    ASSUME NEW S, IsFiniteSet(S), NEW f \in [S -> Nat]
    PROVE  \A u \in SUBSET S : /\ SumOf(f)[u] \in Nat
                               /\ (\A x \in u : f[x] = 0) => SumOf(f)[u] = 0
<1> DEFINE g == SumOf(f)
           T == {v \in SUBSET S : g[v] \notin Nat \/ ((\A x \in v : f[x] = 0) /\ g[v] # 0)}
<1>0. f \in [S -> Int]
  OBVIOUS
<1>1. /\ \A s \in SUBSET S : g[s] \in Int /\ \A x \in s : g[s] = f[x] + g[s \ {x}]
      /\ g[{}] = 0
  BY <1>0, SumType, SumRemove
<1> HIDE DEF g
<1>2. ASSUME T # {} PROVE FALSE
  <2>1. T \subseteq SUBSET S
    OBVIOUS
  <2>2. PICK v \in T : \A t \in T : ~(t \subseteq v /\ t # v)
    <3> HIDE DEF T
    <3> QED
      BY <1>2, <2>1, MinimalSubset
  <2>3. v # {}
    <3>1. g[v] \notin Nat \/ g[v] # 0
      OBVIOUS
    <3> HIDE DEF T
    <3>2. v = {} => g[v] = 0
      BY <1>1
    <3> QED
      BY <3>1, <3>2
  <2>4. PICK x \in v : TRUE
    BY <2>3
  <2>5. v \in SUBSET S /\ v \ {x} \in SUBSET S /\ x \in S
    OBVIOUS
  <2>6. /\ g[v \ {x}] \in Nat
        /\ (\A y \in v \ {x} : f[y] = 0) => g[v \ {x}] = 0
    BY <2>2, <2>5
  <2>7. g[v] = f[x] + g[v \ {x}] /\ f[x] \in Nat
    BY <1>1, <2>5
  <2> QED
    BY <2>6, <2>7
<1> QED
  BY <1>2 DEF g

\* A larger set has a larger sum.
LEMMA SumSubset ==
    ASSUME NEW S, IsFiniteSet(S), NEW f \in [S -> Nat], NEW u \in SUBSET S, NEW v \in SUBSET u
    PROVE  SumOf(f)[v] <= SumOf(f)[u]
<1>1. f \in [S -> Int] /\ v \in SUBSET S /\ u \ v \in SUBSET (S \ v) /\ v \cup (u \ v) = u /\ u \ v \in SUBSET S
  OBVIOUS
<1> DEFINE w == u \ v
<1>2. SumOf(f)[v \cup w] = SumOf(f)[v] + SumOf(f)[w]
  <2> HIDE DEF w
  <2>1. \A z \in SUBSET (S \ v) : SumOf(f)[v \cup z] = SumOf(f)[v] + SumOf(f)[z]
    BY <1>1, SumSplit
  <2>2. w \in SUBSET (S \ v)
    BY <1>1 DEF w
  <2> QED
    BY <2>1, <2>2
<1>3. SumOf(f)[v] \in Nat /\ SumOf(f)[u \ v] \in Nat
  BY <1>1, SumNat
<1>4. v \cup w = u
  BY <1>1
<1> HIDE DEF w
<1>5. SumOf(f)[u] = SumOf(f)[v] + SumOf(f)[w] /\ SumOf(f)[w] \in Nat
  BY <1>2, <1>3, <1>4 DEF w
<1> QED
  BY <1>3, <1>5

-----------------------------------------------------------------------------
(* Choices. *)

\* A total and transitive order has a least element in every finite set, so that
\* the choice of one (min, or the head of a sorted list) is a member of the set.
LEMMA LeastElement ==
    ASSUME NEW S, IsFiniteSet(S), S # {}, NEW R,
           \A a, b \in S : <<a, b>> \in R \/ <<b, a>> \in R,
           \A a, b, c \in S : <<a, b>> \in R /\ <<b, c>> \in R => <<a, c>> \in R
    PROVE  \E a \in S : \A b \in S : <<a, b>> \in R
<1> DEFINE T == {s \in SUBSET S : s # {} /\ ~ \E a \in s : \A b \in s : <<a, b>> \in R}
<1> SUFFICES ASSUME T # {} PROVE FALSE
  OBVIOUS
<1>1. T \subseteq SUBSET S
  OBVIOUS
<1>2. PICK s \in T : \A t \in T : ~(t \subseteq s /\ t # s)
  <2> HIDE DEF T
  <2> QED
    BY <1>1, MinimalSubset
<1>3. s \subseteq S /\ s # {} /\ ~ \E a \in s : \A b \in s : <<a, b>> \in R
  BY <1>2
<1>4. PICK x \in s : TRUE
  BY <1>3
<1>5. CASE s = {x}
  BY <1>3, <1>5
<1>6. CASE s # {x}
  <2>1. s \ {x} \subseteq s /\ s \ {x} # s /\ s \ {x} # {} /\ s \ {x} \in SUBSET S
    <3> HIDE DEF T
    <3>1. x \in s /\ s \subseteq S
      BY <1>3, <1>4
    <3>2. \E y \in s : y # x
      BY <1>6, <3>1
    <3> QED
      BY <3>1, <3>2
  <2>2. PICK m \in s \ {x} : \A b \in s \ {x} : <<m, b>> \in R
    <3> DEFINE t == s \ {x}
    <3>1. t \notin T
      <4> HIDE DEF T
      <4> QED
        BY <1>2, <2>1
    <3>2. t \in SUBSET S /\ t # {}
      BY <2>1
    <3> HIDE DEF t
    <3>3. \E a \in t : \A b \in t : <<a, b>> \in R
      BY <3>1, <3>2
    <3> QED
      BY <3>3 DEF t
  <2>3. CASE <<m, x>> \in R
    BY <1>3, <2>2, <2>3
  <2>4. CASE <<x, m>> \in R
    <3>1. \A b \in s : <<x, b>> \in R
      BY <1>3, <1>4, <2>2, <2>4
    <3> QED
      BY <1>3, <1>4, <3>1
  <2> QED
    BY <1>3, <1>4, <2>2, <2>3, <2>4
<1> QED
  BY <1>5, <1>6

\* Induction over an initial segment, with a set of positions for the predicate.
LEMMA SegmentInduction ==
    ASSUME NEW n \in Nat, NEW G, 0 \in G, \A k \in 1..n : k - 1 \in G => k \in G
    PROVE  \A k \in 0..n : k \in G
<1> DEFINE T == {k \in 0..n : k \notin G}
           R == {p \in (0..n) \X (0..n) : p[1] <= p[2]}
<1> SUFFICES ASSUME T # {} PROVE FALSE
  OBVIOUS
<1>1. IsFiniteSet(T)
  <2>1. IsFiniteSet(0..n)
    BY FS_Interval
  <2> QED
    BY <2>1, FS_Subset
<1>2. \A a, b \in T : <<a, b>> \in R <=> a <= b
  OBVIOUS
<1>3. \A a, b \in T : <<a, b>> \in R \/ <<b, a>> \in R
  <2> SUFFICES ASSUME NEW a \in T, NEW b \in T
               PROVE  <<a, b>> \in R \/ <<b, a>> \in R
    OBVIOUS
  <2>1. a \in Int /\ b \in Int
    OBVIOUS
  <2>2. a <= b \/ b <= a
    BY <2>1
  <2> HIDE DEF T, R
  <2> QED
    BY <1>2, <2>2
<1>4. \A a, b, c \in T : <<a, b>> \in R /\ <<b, c>> \in R => <<a, c>> \in R
  BY <1>2
<1>5. PICK a \in T : \A b \in T : <<a, b>> \in R
  <2> HIDE DEF T, R
  <2> QED
    BY <1>1, <1>3, <1>4, LeastElement
<1>6. a # 0 /\ a \in 0..n /\ a \notin G
  OBVIOUS
<1>7. a - 1 \in 0..n /\ ~(a <= a - 1)
  BY <1>6
<1>8. a - 1 \notin T
  BY <1>2, <1>5, <1>7
<1> QED
  BY <1>6, <1>7, <1>8

\* g starts with c, and F makes its next value of the last one.
Recursion(g, c, F, n, D) ==
    /\ g \in [0..n -> D]
    /\ g[0] = c
    /\ \A i \in 1..n : g[i] = F[<<i, g[i - 1]>>]

\* A recursion over an initial segment has a solution.
LEMMA RecursionExists ==
    ASSUME NEW n \in Nat, NEW D, NEW c \in D, NEW F \in [(1..n) \X D -> D]
    PROVE  \E g : Recursion(g, c, F, n, D)
<1> DEFINE Solves(g, k) == g \in [0..k -> D] /\ g[0] = c /\ \A i \in 1..k : g[i] = F[<<i, g[i - 1]>>]
           G == {k \in 0..n : \E g : Solves(g, k)}
<1>1. 0 \in G
  <2> DEFINE g0 == [i \in 0..0 |-> c]
  <2>1. Solves(g0, 0)
    OBVIOUS
  <2>2. 0 \in 0..n
    OBVIOUS
  <2> HIDE DEF Solves, g0
  <2> QED
    BY <2>1, <2>2
<1>2. ASSUME NEW k \in 1..n, k - 1 \in G PROVE k \in G
  <2>1. PICK g : Solves(g, k - 1)
    BY <1>2
  <2> DEFINE last == F[<<k, g[k - 1]>>]
             h == [i \in 0..k |-> IF i = k THEN last ELSE g[i]]
  <2>2. last \in D
    <3>1. g[k - 1] \in D
      BY <2>1
    <3> QED
      BY <3>1
  <2>3. h \in [0..k -> D]
    <3>1. \A i \in 0..k : i # k => g[i] \in D
      BY <2>1
    <3> HIDE DEF last
    <3> QED
      BY <2>2, <3>1
  <2>4. h[k] = last /\ \A i \in 0..(k - 1) : h[i] = g[i]
    OBVIOUS
  <2>5. h[0] = c
    BY <2>1, <2>4
  <2>6. \A i \in 1..k : h[i] = F[<<i, h[i - 1]>>]
    <3> HIDE DEF h
    <3> SUFFICES ASSUME NEW i \in 1..k PROVE h[i] = F[<<i, h[i - 1]>>]
      OBVIOUS
    <3>1. h[i - 1] = g[i - 1]
      BY <2>4
    <3>2. CASE i = k
      BY <2>4, <3>1, <3>2
    <3>3. CASE i # k
      BY <2>1, <2>4, <3>1, <3>3
    <3> QED
      BY <3>2, <3>3
  <2>7. Solves(h, k)
    BY <2>3, <2>5, <2>6
  <2> HIDE DEF Solves, h
  <2> QED
    BY <2>7
<1>3. \A k \in 0..n : k \in G
  <2> HIDE DEF G
  <2> QED
    BY <1>1, <1>2, SegmentInduction
<1>4. n \in G
  BY <1>3
<1> QED
  BY <1>4 DEF Recursion

-----------------------------------------------------------------------------
(* Lists without the elements of a set. *)

\* g filters the first n elements of s.
Filters(g, s, S, n) ==
    g = [i \in 0..n |-> IF i = 0 THEN <<>>
                        ELSE IF s[i] \in S THEN g[i - 1]
                        ELSE Append(g[i - 1], s[i])]

\* The recursion that defines the filtered list.
LEMMA RemovedIsFilter ==
    ASSUME NEW s, NEW S
    PROVE  Removed(s, S) = (CHOOSE g : Filters(g, s, S, Len(s)))[Len(s)]
  BY Zenon DEF Removed, Filters

\* The recursion has a solution.
LEMMA FiltersExist ==
    ASSUME NEW s, NEW S, NEW n \in Nat
    PROVE  \E g : Filters(g, s, S, n)
<1> DEFINE G == {k \in 0..n : \E g : Filters(g, s, S, k)}
<1>1. 0 \in G
  <2> DEFINE g0 == [i \in 0..0 |-> <<>>]
  <2>1. Filters(g0, s, S, 0)
    <3> DEFINE h == [i \in 0..0 |-> IF i = 0 THEN <<>>
                                    ELSE IF s[i] \in S THEN g0[i - 1]
                                    ELSE Append(g0[i - 1], s[i])]
    <3>1. \A i \in 0..0 : g0[i] = h[i]
      OBVIOUS
    <3>2. g0 = h
      BY <3>1
    <3> QED
      BY <3>2 DEF Filters
  <2> QED
    BY <2>1
<1>2. ASSUME NEW k \in 1..n, k - 1 \in G PROVE k \in G
  <2>1. PICK g : Filters(g, s, S, k - 1)
    BY <1>2
  <2> DEFINE last == IF s[k] \in S THEN g[k - 1] ELSE Append(g[k - 1], s[k])
             g1 == [i \in 0..k |-> IF i = k THEN last ELSE g[i]]
             h == [i \in 0..k |-> IF i = 0 THEN <<>>
                                  ELSE IF s[i] \in S THEN g1[i - 1]
                                  ELSE Append(g1[i - 1], s[i])]
  <2>2. g1[k] = last /\ \A i \in 0..(k - 1) : g1[i] = g[i]
    OBVIOUS
  <2>3. \A i \in 0..(k - 1) : g[i] = IF i = 0 THEN <<>>
                                     ELSE IF s[i] \in S THEN g[i - 1]
                                     ELSE Append(g[i - 1], s[i])
    BY <2>1 DEF Filters
  <2>4. DOMAIN g1 = 0..k /\ DOMAIN h = 0..k
    OBVIOUS
  <2>5. \A i \in 0..k : h[i] = IF i = 0 THEN <<>>
                               ELSE IF s[i] \in S THEN g1[i - 1]
                               ELSE Append(g1[i - 1], s[i])
    OBVIOUS
  <2>6. \A i \in 0..k : g1[i] = h[i]
    <3> HIDE DEF g1, h, last
    <3> SUFFICES ASSUME NEW i \in 0..k PROVE g1[i] = h[i]
      OBVIOUS
    <3>1. CASE i = k
      <4>1. k - 1 \in 0..(k - 1) /\ k # 0
        OBVIOUS
      <4> QED
        BY <2>2, <2>5, <3>1, <4>1 DEF last
    <3>2. CASE i # k /\ i = 0
      BY <2>2, <2>3, <2>5, <3>2
    <3>3. CASE i # k /\ i # 0
      <4>1. i \in 0..(k - 1) /\ i - 1 \in 0..(k - 1)
        BY <3>3
      <4> QED
        BY <2>2, <2>3, <2>5, <3>3, <4>1
    <3> QED
      BY <3>1, <3>2, <3>3
  <2>7. g1 = h
    <3> HIDE DEF g1, h
    <3>1. g1 = [i \in 0..k |-> g1[i]] /\ h = [i \in 0..k |-> h[i]]
      BY DEF g1, h
    <3> QED
      BY <2>6, <3>1
  <2>8. Filters(g1, s, S, k)
    BY <2>7 DEF Filters
  <2> QED
    BY <2>8
<1>3. \A k \in 0..n : k \in G
  <2> HIDE DEF G
  <2> QED
    BY <1>1, <1>2, SegmentInduction
<1> QED
  BY <1>3

\* What the filtered list holds: the elements of s that are not in S, in the order
\* of s, and no duplicate when s has none.
LEMMA RemovedProperties ==
    ASSUME NEW X, NEW s \in Seq(X), NEW S
    PROVE  /\ Removed(s, S) \in Seq(X)
           /\ ToSet(Removed(s, S)) = ToSet(s) \ S
           /\ IsInjective(s) => IsInjective(Removed(s, S))
           /\ \A a, b : Precedes(s, a, b) /\ a \notin S /\ b \notin S
                            => Precedes(Removed(s, S), a, b)
<1> DEFINE n == Len(s)
           f == CHOOSE g : Filters(g, s, S, Len(s))
           Upto(k) == {s[j] : j \in 1..k}
           Good(k) == /\ f[k] \in Seq(X)
                      /\ ToSet(f[k]) = Upto(k) \ S
                      /\ IsInjective(s) => IsInjective(f[k])
                      /\ \A i, j \in 1..k : i < j /\ s[i] \notin S /\ s[j] \notin S
                                               => Precedes(f[k], s[i], s[j])
           G == {k \in 0..n : Good(k)}
<1>1. n \in Nat /\ DOMAIN s = 1..n /\ \A j \in 1..n : s[j] \in X
  OBVIOUS
<1>2. Filters(f, s, S, n)
  BY <1>1, FiltersExist
<1>3. Removed(s, S) = f[n]
  BY RemovedIsFilter
<1> HIDE DEF f, n
<1>4. /\ f[0] = <<>>
      /\ \A k \in 1..n : f[k] = IF s[k] \in S THEN f[k - 1] ELSE Append(f[k - 1], s[k])
  <2>1. \A k \in 0..n : f[k] = IF k = 0 THEN <<>>
                               ELSE IF s[k] \in S THEN f[k - 1]
                               ELSE Append(f[k - 1], s[k])
    BY <1>2 DEF Filters
  <2> QED
    BY <1>1, <2>1
<1>5. 0 \in G
  <2>1. f[0] \in Seq(X) /\ DOMAIN f[0] = 1..0
    BY <1>4
  <2>2. 1..0 = {}
    OBVIOUS
  <2>3. ToSet(f[0]) = {} /\ IsInjective(f[0]) /\ Upto(0) = {}
    BY <2>1, <2>2 DEF ToSet, IsInjective
  <2> QED
    BY <1>1, <2>1, <2>2, <2>3
<1>6. ASSUME NEW k \in 1..n, k - 1 \in G PROVE k \in G
  <2>1. /\ f[k - 1] \in Seq(X)
        /\ ToSet(f[k - 1]) = Upto(k - 1) \ S
        /\ IsInjective(s) => IsInjective(f[k - 1])
        /\ \A i, j \in 1..(k - 1) : i < j /\ s[i] \notin S /\ s[j] \notin S
                                      => Precedes(f[k - 1], s[i], s[j])
    BY <1>6
  <2>2. Upto(k) = Upto(k - 1) \cup {s[k]}
    BY <1>1
  <2>3. k \in 0..n /\ s[k] \in X
    BY <1>1
  <2>4. CASE s[k] \in S
    <3>1. f[k] = f[k - 1]
      BY <1>4, <2>4
    <3>2. ToSet(f[k]) = Upto(k) \ S
      BY <2>1, <2>2, <2>4, <3>1
    <3>3. \A i, j \in 1..k : i < j /\ s[i] \notin S /\ s[j] \notin S
                                => Precedes(f[k], s[i], s[j])
      <4> SUFFICES ASSUME NEW i \in 1..k, NEW j \in 1..k, i < j, s[i] \notin S, s[j] \notin S
                   PROVE  Precedes(f[k], s[i], s[j])
        OBVIOUS
      <4>1. j # k
        BY <2>4
      <4>2. i \in 1..(k - 1) /\ j \in 1..(k - 1)
        BY <4>1
      <4> QED
        BY <2>1, <3>1, <4>2
    <3> HIDE DEF Upto
    <3> QED
      BY <2>1, <2>3, <3>1, <3>2, <3>3
  <2>5. CASE s[k] \notin S
    <3> DEFINE t == f[k - 1]
    <3>1. f[k] = Append(t, s[k])
      BY <1>4, <2>5
    <3>2. t \in Seq(X)
      BY <2>1
    <3> HIDE DEF t
    <3>3. /\ Append(t, s[k]) \in Seq(X)
          /\ ToSet(Append(t, s[k])) = ToSet(t) \cup {s[k]}
          /\ IsInjective(t) /\ s[k] \notin ToSet(t) => IsInjective(Append(t, s[k]))
      BY <2>3, <3>2, AppendElements, AppendType
    <3>4. ToSet(f[k]) = Upto(k) \ S
      BY <2>1, <2>2, <2>5, <3>1, <3>3 DEF t
    <3>5. IsInjective(s) => IsInjective(f[k])
      <4> SUFFICES ASSUME IsInjective(s) PROVE IsInjective(f[k])
        OBVIOUS
      <4>1. s[k] \notin Upto(k - 1)
        BY <1>1 DEF IsInjective
      <4> QED
        BY <2>1, <3>1, <3>3, <4>1 DEF t
    <3>6. /\ DOMAIN Append(t, s[k]) = 1..(Len(t) + 1) /\ Len(t) \in Nat /\ DOMAIN t = 1..Len(t)
          /\ Append(t, s[k])[Len(t) + 1] = s[k]
          /\ \A m \in 1..Len(t) : Append(t, s[k])[m] = t[m]
      BY <3>2
    <3>7. \A i, j \in 1..k : i < j /\ s[i] \notin S /\ s[j] \notin S
                                => Precedes(f[k], s[i], s[j])
      <4> SUFFICES ASSUME NEW i \in 1..k, NEW j \in 1..k, i < j, s[i] \notin S, s[j] \notin S
                   PROVE  Precedes(Append(t, s[k]), s[i], s[j])
        BY <3>1
      <4>1. CASE j # k
        <5>1. i \in 1..(k - 1) /\ j \in 1..(k - 1)
          BY <4>1
        <5>2. Precedes(t, s[i], s[j])
          BY <2>1, <5>1 DEF t
        <5>3. PICK a, b \in DOMAIN t : a < b /\ t[a] = s[i] /\ t[b] = s[j]
          BY <5>2 DEF Precedes
        <5>4. a \in 1..(Len(t) + 1) /\ b \in 1..(Len(t) + 1)
          BY <3>6
        <5> QED
          BY <3>6, <5>3, <5>4 DEF Precedes
      <4>2. CASE j = k
        <5>1. i \in 1..(k - 1)
          BY <4>2
        <5>2. s[i] \in ToSet(t)
          BY <2>1, <5>1 DEF t
        <5>3. PICK a \in 1..Len(t) : t[a] = s[i]
          BY <3>6, <5>2 DEF ToSet
        <5>4. a \in 1..(Len(t) + 1) /\ Len(t) + 1 \in 1..(Len(t) + 1) /\ a < Len(t) + 1
          BY <3>6
        <5> QED
          BY <3>6, <4>2, <5>3, <5>4 DEF Precedes
      <4> QED
        BY <4>1, <4>2
    <3> HIDE DEF Upto
    <3> QED
      BY <2>3, <3>1, <3>3, <3>4, <3>5, <3>7
  <2> QED
    BY <2>4, <2>5
<1>7. n \in G
  <2> HIDE DEF G
  <2>1. n \in 0..n
    BY <1>1
  <2> QED
    BY <1>1, <1>5, <1>6, <2>1, SegmentInduction
<1>8. Upto(n) = ToSet(s)
  BY <1>1 DEF ToSet
<1>9. ASSUME NEW a, NEW b, Precedes(s, a, b), a \notin S, b \notin S
      PROVE  Precedes(f[n], a, b)
  <2>1. PICK i, j \in 1..n : i < j /\ s[i] = a /\ s[j] = b
    BY <1>1, <1>9 DEF Precedes
  <2> QED
    BY <1>7, <1>9, <2>1
<1> QED
  BY <1>3, <1>7, <1>8, <1>9

\* Of a list without elements of S that is followed by one of elements of S only,
\* the first is left.
LEMMA RemovedSuffix ==
    ASSUME NEW X, NEW s \in Seq(X), NEW t \in Seq(X), NEW S,
           ToSet(s) \cap S = {}, ToSet(t) \subseteq S
    PROVE  Removed(s \o t, S) = s
<1> DEFINE u == s \o t
           m == Len(s)
           n == Len(u)
           f == CHOOSE g : Filters(g, u, S, Len(u))
           Part(k) == SubSeq(s, 1, IF k <= m THEN k ELSE m)
           G == {k \in 0..n : f[k] = Part(k)}
<1>1. /\ u \in Seq(X) /\ m \in Nat /\ n = m + Len(t) /\ Len(t) \in Nat
      /\ \A i \in 1..m : u[i] = s[i]
      /\ \A i \in (m + 1)..n : u[i] = t[i - m] /\ i - m \in 1..Len(t)
      /\ \A i \in 1..m : s[i] \in X /\ s[i] \notin S
      /\ \A i \in 1..Len(t) : t[i] \in S
  <2>1. u \in Seq(X) /\ m \in Nat /\ n = m + Len(t) /\ Len(t) \in Nat
    BY ConcatProperties
  <2>2. \A i \in 1..m : u[i] = s[i]
    BY <2>1, ConcatProperties
  <2>3. \A i \in (m + 1)..n : u[i] = t[i - m] /\ i - m \in 1..Len(t)
    BY <2>1, ConcatProperties
  <2>4. \A i \in 1..m : s[i] \in X /\ s[i] \notin S
    BY DEF ToSet
  <2>5. \A i \in 1..Len(t) : t[i] \in S
    BY DEF ToSet
  <2> HIDE DEF u, m
  <2> QED
    BY <2>1, <2>2, <2>3, <2>4, <2>5
<1> HIDE DEF u, m
<1>2. Filters(f, u, S, n)
  <2>1. n \in Nat
    BY <1>1
  <2>2. \E g : Filters(g, u, S, n)
    BY <2>1, FiltersExist
  <2> QED
    BY <2>2, Zenon
<1>3. Removed(u, S) = f[n]
  BY RemovedIsFilter
<1> HIDE DEF f, n
<1>4. /\ f[0] = <<>>
      /\ \A k \in 1..n : f[k] = IF u[k] \in S THEN f[k - 1] ELSE Append(f[k - 1], u[k])
  <2>1. \A k \in 0..n : f[k] = IF k = 0 THEN <<>>
                               ELSE IF u[k] \in S THEN f[k - 1]
                               ELSE Append(f[k - 1], u[k])
    BY <1>2 DEF Filters
  <2>2. n \in Nat /\ 0 \in 0..n /\ \A k \in 1..n : k \in 0..n /\ k # 0
    BY <1>1
  <2> QED
    BY <2>1, <2>2
<1>5. 0 \in G
  <2>1. n \in Nat /\ 0 <= m /\ 0 \in 0..n
    BY <1>1
  <2>2. Part(0) = <<>>
    BY <2>1
  <2> QED
    BY <1>4, <2>1, <2>2
<1>6. ASSUME NEW k \in 1..n, k - 1 \in G PROVE k \in G
  <2>1. f[k - 1] = Part(k - 1) /\ k \in 0..n
    BY <1>1, <1>6
  <2>2. CASE k <= m
    <3>1. k \in 1..m /\ k - 1 <= m /\ u[k] = s[k] /\ u[k] \notin S
      BY <1>1, <2>2
    <3>2. f[k] = Append(SubSeq(s, 1, k - 1), s[k])
      BY <1>4, <2>1, <3>1
    <3>3. Append(SubSeq(s, 1, k - 1), s[k]) = SubSeq(s, 1, k)
      BY <1>1, <3>1 DEF m
    <3> QED
      BY <2>1, <2>2, <3>2, <3>3
  <2>3. CASE k > m
    <3>1. k \in (m + 1)..n
      BY <1>1, <2>3
    <3>2. u[k] \in S
      BY <1>1, <3>1
    <3>3. f[k] = f[k - 1]
      BY <1>4, <3>2
    <3>4. Part(k - 1) = Part(k)
      <4>1. k - 1 <= m => k - 1 = m
        BY <1>1, <3>1
      <4> QED
        BY <1>1, <2>3, <4>1
    <3> QED
      BY <2>1, <3>3, <3>4
  <2>4. k \in Nat /\ m \in Nat
    BY <1>1
  <2>5. k <= m \/ k > m
    BY <2>4
  <2> HIDE DEF G
  <2> QED
    BY <2>2, <2>3, <2>5
<1>7. n \in Nat /\ n \in 0..n
  BY <1>1
<1>8. n \in G
  <2> HIDE DEF G
  <2> QED
    BY <1>5, <1>6, <1>7, SegmentInduction
<1>9. Part(n) = s
  <2>1. n >= m
    BY <1>1
  <2>2. SubSeq(s, 1, Len(s)) = s
    OBVIOUS
  <2>3. (IF n <= m THEN n ELSE m) = m
    BY <1>1, <1>7, <2>1
  <2> QED
    BY <2>2, <2>3 DEF m
<1> QED
  BY <1>3, <1>8, <1>9 DEF u

\* Concatenation keeps the order of both parts and puts the first part first.
LEMMA ConcatPrecedes ==
    ASSUME NEW X, NEW s \in Seq(X), NEW t \in Seq(X), NEW a, NEW b,
           \/ Precedes(s, a, b)
           \/ Precedes(t, a, b)
           \/ a \in ToSet(s) /\ b \in ToSet(t)
    PROVE  Precedes(s \o t, a, b)
<1> DEFINE u == s \o t
<1>1. /\ Len(s) \in Nat /\ Len(t) \in Nat
      /\ DOMAIN s = 1..Len(s) /\ DOMAIN t = 1..Len(t)
  OBVIOUS
<1>2. /\ DOMAIN u = 1..(Len(s) + Len(t))
      /\ \A k \in 1..(Len(s) + Len(t)) : u[k] = IF k <= Len(s) THEN s[k] ELSE t[k - Len(s)]
  BY ConcatProperties
<1> HIDE DEF u
<1>3. \A k \in 1..Len(s) : k \in DOMAIN u /\ u[k] = s[k]
  BY <1>1, <1>2
<1>4. ASSUME NEW k \in 1..Len(t)
      PROVE  k + Len(s) \in DOMAIN u /\ u[k + Len(s)] = t[k] /\ k + Len(s) > Len(s)
  <2>1. k + Len(s) \in DOMAIN u /\ ~(k + Len(s) <= Len(s)) /\ (k + Len(s)) - Len(s) = k
    BY <1>1, <1>2
  <2> QED
    BY <1>1, <1>2, <2>1
<1>5. CASE Precedes(s, a, b)
  BY <1>1, <1>3, <1>5 DEF Precedes, u
<1>6. CASE Precedes(t, a, b)
  <2>1. PICK i, j \in 1..Len(t) : i < j /\ t[i] = a /\ t[j] = b
    BY <1>1, <1>6 DEF Precedes
  <2>2. i + Len(s) < j + Len(s)
    BY <1>1, <2>1
  <2> QED
    BY <1>4, <2>1, <2>2 DEF Precedes, u
<1>7. CASE a \in ToSet(s) /\ b \in ToSet(t)
  <2>1. PICK i \in 1..Len(s), j \in 1..Len(t) : s[i] = a /\ t[j] = b
    BY <1>1, <1>7 DEF ToSet
  <2>2. i < j + Len(s)
    BY <1>1
  <2> QED
    BY <1>3, <1>4, <2>1, <2>2 DEF Precedes, u
<1> QED
  BY <1>5, <1>6, <1>7

\* Nothing else stands in front of anything in a concatenation.
LEMMA ConcatPrecedesOnly ==
    ASSUME NEW X, NEW s \in Seq(X), NEW t \in Seq(X), NEW a, NEW b, Precedes(s \o t, a, b)
    PROVE  \/ Precedes(s, a, b)
           \/ Precedes(t, a, b)
           \/ a \in ToSet(s) /\ b \in ToSet(t)
<1> DEFINE u == s \o t
<1>1. /\ Len(s) \in Nat /\ Len(t) \in Nat
      /\ DOMAIN s = 1..Len(s) /\ DOMAIN t = 1..Len(t)
  OBVIOUS
<1>2. /\ DOMAIN u = 1..(Len(s) + Len(t))
      /\ \A k \in 1..(Len(s) + Len(t)) : u[k] = IF k <= Len(s) THEN s[k] ELSE t[k - Len(s)]
  BY ConcatProperties
<1>3. PICK i, j \in DOMAIN u : i < j /\ u[i] = a /\ u[j] = b
  BY DEF Precedes
<1> HIDE DEF u
<1>4. ASSUME NEW k \in DOMAIN u, ~(k <= Len(s))
      PROVE  k - Len(s) \in 1..Len(t) /\ u[k] = t[k - Len(s)]
  BY <1>1, <1>2, <1>4
<1>5. CASE j <= Len(s)
  <2>1. i \in 1..Len(s) /\ j \in 1..Len(s)
    BY <1>1, <1>2, <1>3, <1>5
  <2> QED
    BY <1>1, <1>2, <1>3, <2>1 DEF Precedes
<1>6. CASE i <= Len(s) /\ ~(j <= Len(s))
  <2>1. i \in 1..Len(s) /\ s[i] = a
    BY <1>1, <1>2, <1>3, <1>6
  <2>2. j - Len(s) \in 1..Len(t) /\ t[j - Len(s)] = b
    BY <1>3, <1>4, <1>6
  <2> QED
    BY <1>1, <2>1, <2>2 DEF ToSet
<1>7. CASE ~(i <= Len(s))
  <2>1. ~(j <= Len(s))
    BY <1>1, <1>2, <1>3, <1>7
  <2>2. i - Len(s) \in 1..Len(t) /\ t[i - Len(s)] = a
    BY <1>3, <1>4, <1>7
  <2>3. j - Len(s) \in 1..Len(t) /\ t[j - Len(s)] = b
    BY <1>3, <1>4, <2>1
  <2>4. i - Len(s) < j - Len(s)
    BY <1>1, <1>2, <1>3
  <2> QED
    BY <1>1, <2>2, <2>3, <2>4 DEF Precedes
<1> QED
  BY <1>5, <1>6, <1>7

\* What is left of a list without duplicates after its first k elements were taken:
\* the others, in their order; whatever stands behind a taken element may be left,
\* but nothing that stands before one that was.
LEMMA AfterFirst ==
    ASSUME NEW X, NEW s \in Seq(X), IsInjective(s), NEW k \in 0..Len(s)
    PROVE  LET first == SubSeq(s, 1, k)
               rest  == SubSeq(s, k + 1, Len(s))
           IN  /\ first \in Seq(X) /\ Len(first) = k /\ \A i \in 1..k : first[i] = s[i]
               /\ rest \in Seq(X)
               /\ IsInjective(first) /\ IsInjective(rest)
               /\ ToSet(first) \cup ToSet(rest) = ToSet(s)
               /\ ToSet(first) \cap ToSet(rest) = {}
               /\ \A a, b : Precedes(s, a, b) /\ a \notin ToSet(first)
                                => Precedes(rest, a, b)
<1> DEFINE first == SubSeq(s, 1, k)
           rest  == SubSeq(s, k + 1, Len(s))
<1>1. Len(s) \in Nat /\ DOMAIN s = 1..Len(s)
  OBVIOUS
<1>2. /\ first \in Seq(X) /\ Len(first) = k /\ DOMAIN first = 1..k
      /\ \A i \in 1..k : first[i] = s[i]
  OBVIOUS
<1>3. /\ rest \in Seq(X) /\ Len(rest) = Len(s) - k /\ DOMAIN rest = 1..(Len(s) - k)
      /\ \A i \in 1..(Len(s) - k) : rest[i] = s[i + k]
  OBVIOUS
<1>4. first \o rest = s
  <2>1. /\ 1 \in 1..(Len(s) + 1) /\ k \in (1 - 1)..Len(s) /\ Len(s) \in k..Len(s)
    OBVIOUS
  <2>2. first \o rest = SubSeq(s, 1, Len(s))
    BY <2>1, ConcatAdjacentSubSeq
  <2> QED
    BY <2>2, SubSeqFull
<1> HIDE DEF first, rest
<1>5. /\ ToSet(first \o rest) = ToSet(first) \cup ToSet(rest)
      /\ IsInjective(first \o rest) <=>
            IsInjective(first) /\ IsInjective(rest) /\ ToSet(first) \cap ToSet(rest) = {}
  BY <1>2, <1>3, ConcatElements
<1>6. ASSUME NEW a, NEW b, Precedes(s, a, b), a \notin ToSet(first)
      PROVE  Precedes(rest, a, b)
  <2>1. PICK i, j \in 1..Len(s) : i < j /\ s[i] = a /\ s[j] = b
    BY <1>1, <1>6 DEF Precedes
  <2>2. i > k
    BY <1>1, <1>2, <1>6, <2>1 DEF ToSet
  <2>3. /\ i - k \in 1..(Len(s) - k) /\ j - k \in 1..(Len(s) - k) /\ i - k < j - k
        /\ (i - k) + k = i /\ (j - k) + k = j
    BY <1>1, <2>1, <2>2
  <2> QED
    BY <1>3, <2>1, <2>3 DEF Precedes
<1> QED
  BY <1>2, <1>3, <1>4, <1>5, <1>6 DEF first, rest

\* Reversal turns the order around.
LEMMA ReversePrecedes ==
    ASSUME NEW X, NEW s \in Seq(X), NEW a, NEW b, Precedes(s, b, a)
    PROVE  Precedes(Reverse(s), a, b)
<1>1. Len(s) \in Nat /\ DOMAIN s = 1..Len(s)
  OBVIOUS
<1>2. DOMAIN Reverse(s) = 1..Len(s) /\ \A k \in 1..Len(s) : Reverse(s)[k] = s[(Len(s) - k) + 1]
  BY DEF Reverse
<1>3. PICK i, j \in 1..Len(s) : i < j /\ s[i] = b /\ s[j] = a
  BY <1>1 DEF Precedes
<1> DEFINE p == (Len(s) - i) + 1
           q == (Len(s) - j) + 1
<1>4. /\ p \in 1..Len(s) /\ q \in 1..Len(s) /\ q < p
      /\ (Len(s) - p) + 1 = i /\ (Len(s) - q) + 1 = j
  BY <1>1, <1>3
<1> HIDE DEF p, q
<1>5. Reverse(s)[p] = b /\ Reverse(s)[q] = a
  BY <1>2, <1>3, <1>4
<1> QED
  BY <1>2, <1>4, <1>5 DEF Precedes

\* Two sets without a common member.
LEMMA DisjointUnion ==
    ASSUME NEW S, NEW U, IsFiniteSet(S), IsFiniteSet(U), S \cap U = {}
    PROVE  IsFiniteSet(S \cup U) /\ Cardinality(S \cup U) = Cardinality(S) + Cardinality(U)
<1>1. /\ IsFiniteSet(S \cup U)
      /\ Cardinality(S \cup U) = Cardinality(S) + Cardinality(U) - Cardinality(S \cap U)
  BY FS_Union
<1>2. Cardinality(S \cap U) = 0
  BY FS_EmptySet
<1>3. Cardinality(S) \in Nat /\ Cardinality(U) \in Nat
  BY FS_CardinalityType
<1> QED
  BY <1>1, <1>2, <1>3

\* The places of the elements of a set in a strict total order are their own.
LEMMA RanksDiffer ==
    ASSUME NEW S, IsFiniteSet(S), NEW R,
           \A a, b \in S : a # b => <<a, b>> \in R \/ <<b, a>> \in R,
           \A a \in S : <<a, a>> \notin R,
           \A a, b, c \in S : <<a, b>> \in R /\ <<b, c>> \in R => <<a, c>> \in R
    PROVE  /\ \A a \in S : Cardinality({q \in S : <<q, a>> \in R}) \in Nat
           /\ \A a, b \in S : Cardinality({q \in S : <<q, a>> \in R})
                                  = Cardinality({q \in S : <<q, b>> \in R}) => a = b
<1> DEFINE B(a) == {q \in S : <<q, a>> \in R}
<1>1. \A a \in S : IsFiniteSet(B(a)) /\ Cardinality(B(a)) \in Nat
  BY FS_Subset, FS_CardinalityType
<1>2. ASSUME NEW a \in S, NEW b \in S, <<a, b>> \in R
      PROVE  Cardinality(B(a)) # Cardinality(B(b))
  <2>1. B(a) \in SUBSET B(b) /\ a \in B(b) /\ a \notin B(a)
    BY <1>2
  <2> HIDE DEF B
  <2>2. B(a) # B(b)
    BY <2>1
  <2> QED
    BY <1>1, <2>1, <2>2, FS_Subset
<1>3. \A a, b \in S : Cardinality(B(a)) = Cardinality(B(b)) => a = b
  <2> SUFFICES ASSUME NEW a \in S, NEW b \in S, a # b PROVE Cardinality(B(a)) # Cardinality(B(b))
    OBVIOUS
  <2> HIDE DEF B
  <2>1. CASE <<a, b>> \in R
    BY <1>2, <2>1
  <2>2. CASE <<b, a>> \in R
    BY <1>2, <2>2
  <2> QED
    BY <2>1, <2>2
<1> QED
  BY <1>1, <1>3

\* Counting by an injective function onto a set.
LEMMA CountImage ==
    ASSUME NEW P, IsFiniteSet(P), NEW T, NEW f \in [P -> T],
           \A a, b \in P : f[a] = f[b] => a = b,
           \A t \in T : \E a \in P : f[a] = t
    PROVE  IsFiniteSet(T) /\ Cardinality(T) = Cardinality(P)
<1>1. f \in Bijection(P, T)
  BY DEF Bijection, Injection, Surjection, IsInjective
<1>2. ExistsBijection(P, T)
  BY <1>1 DEF ExistsBijection
<1> QED
  BY <1>2, FS_Bijection

\* A list without duplicates is as long as the set of its elements is large.
LEMMA InjectiveLength ==
    ASSUME NEW X, NEW s \in Seq(X), IsInjective(s)
    PROVE  IsFiniteSet(ToSet(s)) /\ Cardinality(ToSet(s)) = Len(s)
<1>1. Len(s) \in Nat /\ DOMAIN s = 1..Len(s)
  OBVIOUS
<1>2. s \in [1..Len(s) -> ToSet(s)]
  BY <1>1 DEF ToSet
<1>3. s \in Bijection(1..Len(s), ToSet(s))
  BY <1>1, <1>2 DEF ToSet, IsInjective, Bijection, Injection, Surjection
<1>4. ExistsBijection(1..Len(s), ToSet(s))
  BY <1>3 DEF ExistsBijection
<1>5. IsFiniteSet(1..Len(s)) /\ Cardinality(1..Len(s)) = Len(s)
  BY <1>1, SegmentCardinality
<1> QED
  BY <1>4, <1>5, FS_Bijection

\* The elements of a list have the type of the list.
LEMMA ElementsType ==
    ASSUME NEW S, NEW s \in Seq(S)
    PROVE  ToSet(s) \subseteq S
  BY DEF ToSet

\* Among finitely many places there is a first one of the least key.
LEMMA FirstOfLeast ==
    ASSUME NEW A, IsFiniteSet(A), A # {}, A \subseteq Nat, NEW key \in [A -> Int]
    PROVE  \E i \in A : \A j \in A : key[i] < key[j] \/ (key[i] = key[j] /\ i <= j)
<1> DEFINE R == {p \in A \X A : \/ key[p[1]] < key[p[2]]
                                \/ key[p[1]] = key[p[2]] /\ p[1] <= p[2]}
<1>1. \A a, b \in A : <<a, b>> \in R <=> (key[a] < key[b] \/ (key[a] = key[b] /\ a <= b))
  OBVIOUS
<1> HIDE DEF R
<1>2. \A a, b \in A : <<a, b>> \in R \/ <<b, a>> \in R
  <2> SUFFICES ASSUME NEW a \in A, NEW b \in A PROVE <<a, b>> \in R \/ <<b, a>> \in R
    OBVIOUS
  <2>1. key[a] \in Int /\ key[b] \in Int /\ a \in Nat /\ b \in Nat
    OBVIOUS
  <2>2. \/ key[a] < key[b] \/ (key[a] = key[b] /\ a <= b)
        \/ key[b] < key[a] \/ (key[b] = key[a] /\ b <= a)
    BY <2>1
  <2> QED
    BY <1>1, <2>2
<1>3. \A a, b, c \in A : <<a, b>> \in R /\ <<b, c>> \in R => <<a, c>> \in R
  <2> SUFFICES ASSUME NEW a \in A, NEW b \in A, NEW c \in A, <<a, b>> \in R, <<b, c>> \in R
               PROVE  <<a, c>> \in R
    OBVIOUS
  <2>1. /\ key[a] < key[b] \/ (key[a] = key[b] /\ a <= b)
        /\ key[b] < key[c] \/ (key[b] = key[c] /\ b <= c)
    BY <1>1
  <2>2. key[a] \in Int /\ key[b] \in Int /\ key[c] \in Int /\ a \in Nat /\ b \in Nat /\ c \in Nat
    OBVIOUS
  <2>3. key[a] < key[c] \/ (key[a] = key[c] /\ a <= c)
    BY <2>1, <2>2
  <2> QED
    BY <1>1, <2>3
<1>4. \E a \in A : \A b \in A : <<a, b>> \in R
  BY <1>2, <1>3, LeastElement
<1> QED
  BY <1>1, <1>4

\* A list that has at every place the element whose place it is.
LEMMA ListedOnce ==
    ASSUME NEW S, NEW n \in Nat, NEW place \in [S -> 1..n],
           \A a, b \in S : place[a] = place[b] => a = b,
           NEW s \in [1..n -> S], \A i \in 1..n : place[s[i]] = i
    PROVE  s \in Seq(S) /\ Len(s) = n /\ ToSet(s) = S /\ IsInjective(s)
<1>1. s \in Seq(S) /\ DOMAIN s = 1..n
  BY SeqDef
<1>2. Len(s) = n
  BY <1>1, LenProperties
<1>3. IsInjective(s)
  <2> SUFFICES ASSUME NEW i \in 1..n, NEW j \in 1..n, s[i] = s[j] PROVE i = j
    BY <1>1 DEF IsInjective
  <2> QED
    OBVIOUS
<1>4. ASSUME NEW a \in S PROVE a \in ToSet(s)
  <2>1. place[a] \in 1..n /\ s[place[a]] \in S /\ place[s[place[a]]] = place[a]
    OBVIOUS
  <2>2. s[place[a]] = a
    BY <2>1
  <2> QED
    BY <1>1, <2>1, <2>2 DEF ToSet
<1>5. \A x \in ToSet(s) : x \in S
  BY <1>1 DEF ToSet
<1> QED
  BY <1>1, <1>2, <1>3, <1>4, <1>5

\* The elements of a finite set in a strict total order, given by what comes
\* before each of them, are listed by their places.
LEMMA ListedByPlace ==
    ASSUME NEW S, IsFiniteSet(S), NEW before \in [S -> SUBSET S],
           \A a, b \in S : a # b => a \in before[b] \/ b \in before[a],
           \A a \in S : a \notin before[a],
           \A a, b, c \in S : a \in before[b] /\ b \in before[c] => a \in before[c],
           NEW place \in [S -> Int], \A a \in S : place[a] = Cardinality(before[a]) + 1
    PROVE  /\ InPlaces(S, place) \in Seq(S) /\ Len(InPlaces(S, place)) = Cardinality(S)
           /\ ToSet(InPlaces(S, place)) = S /\ IsInjective(InPlaces(S, place))
<1> DEFINE n == Cardinality(S)
           at(i) == CHOOSE r \in S : place[r] = i
           s == [i \in 1..n |-> at(i)]
<1>1. n \in Nat /\ IsFiniteSet(1..n) /\ Cardinality(1..n) = n
  BY FS_CardinalityType, SegmentCardinality
<1>2. \A a \in S : IsFiniteSet(before[a]) /\ Cardinality(before[a]) \in Nat /\ Cardinality(before[a]) < n
  <2> SUFFICES ASSUME NEW a \in S
               PROVE  /\ IsFiniteSet(before[a]) /\ Cardinality(before[a]) \in Nat
                      /\ Cardinality(before[a]) < n
    OBVIOUS
  <2>1. before[a] \in SUBSET S /\ before[a] # S
    OBVIOUS
  <2>2. IsFiniteSet(before[a]) /\ Cardinality(before[a]) <= n /\ Cardinality(before[a]) # n
    BY <2>1, FS_Subset
  <2> QED
    BY <1>1, <2>2, FS_CardinalityType
<1>3. ASSUME NEW a \in S, NEW b \in S, a \in before[b]
      PROVE  Cardinality(before[a]) # Cardinality(before[b])
  <2>1. before[a] \in SUBSET before[b] /\ before[a] # before[b]
    BY <1>3
  <2> QED
    BY <1>2, <2>1, FS_Subset
<1> HIDE DEF n
<1>4. \A a, b \in S : Cardinality(before[a]) = Cardinality(before[b]) => a = b
  BY <1>3
<1>5. place \in [S -> 1..n]
  <2>1. \A a \in S : Cardinality(before[a]) + 1 \in 1..n
    BY <1>1, <1>2
  <2> QED
    BY <2>1
<1>6. \A a, b \in S : place[a] = place[b] => a = b
  BY <1>2, <1>4
<1>7. place \in Injection(S, 1..n)
  BY <1>5, <1>6 DEF Injection, IsInjective
<1>8. place \in Surjection(S, 1..n)
  <2>1. Cardinality(S) = Cardinality(1..n)
    BY <1>1 DEF n
  <2> QED
    BY <1>1, <1>7, <2>1, FS_Injection
<1>9. \A i \in 1..n : at(i) \in S /\ place[at(i)] = i
  <2>1. \A i \in 1..n : \E a \in S : place[a] = i
    BY <1>8 DEF Surjection
  <2> QED
    BY <2>1
<1> HIDE DEF at
<1>10. s \in [1..n -> S] /\ \A i \in 1..n : place[s[i]] = i
  BY <1>9
<1> HIDE DEF s
<1>11. s \in Seq(S) /\ Len(s) = n /\ ToSet(s) = S /\ IsInjective(s)
  BY <1>1, <1>5, <1>6, <1>10, ListedOnce
<1>12. InPlaces(S, place) = s
  BY DEF InPlaces, s, at, n
<1> QED
  BY <1>11, <1>12 DEF n

\* A list of nothing is empty.
LEMMA NothingIn ==
    ASSUME NEW S, NEW s \in Seq(S)
    PROVE  ToSet(s) = {} <=> s = <<>>
<1>1. s = <<>> => ToSet(s) = {}
  BY DEF ToSet
<1>2. ASSUME s # <<>> PROVE s[1] \in ToSet(s)
  <2>1. 1 \in DOMAIN s
    BY <1>2, EmptySeq, LenProperties
  <2> QED
    BY <2>1 DEF ToSet
<1> QED
  BY <1>1, <1>2

\* Removing one place keeps the order of the others.
LEMMA RemoveAtKeepsOrder ==
    ASSUME NEW S, NEW s \in Seq(S), NEW k \in 1..Len(s), NEW a, NEW b,
           Precedes(s, a, b), a # s[k], b # s[k]
    PROVE  Precedes(RemoveAt(s, k), a, b)
<1>1. PICK i, j \in DOMAIN s : i < j /\ s[i] = a /\ s[j] = b
  BY DEF Precedes
<1> DEFINE t == RemoveAt(s, k)
           u == IF i < k THEN i ELSE i - 1
           v == IF j < k THEN j ELSE j - 1
<1>2. /\ t \in Seq(S) /\ Len(t) = Len(s) - 1
      /\ \A m \in 1..(Len(s) - 1) : t[m] = IF m < k THEN s[m] ELSE s[m + 1]
  BY RemoveAtProperties
<1> HIDE DEF t
<1>3. i \in 1..Len(s) /\ j \in 1..Len(s) /\ i # k /\ j # k /\ Len(s) \in Nat
  BY <1>1
<1>4. u \in 1..(Len(s) - 1) /\ v \in 1..(Len(s) - 1) /\ u < v
  BY <1>1, <1>3
<1>5. t[u] = a
  BY <1>1, <1>2, <1>3, <1>4
<1>6. t[v] = b
  BY <1>1, <1>2, <1>3, <1>4
<1>7. DOMAIN t = 1..(Len(s) - 1)
  BY <1>2
<1> HIDE DEF u, v
<1>8. Precedes(t, a, b)
  BY <1>4, <1>5, <1>6, <1>7 DEF Precedes
<1> QED
  BY <1>8 DEF t

\* So does list.remove.
LEMMA WithoutKeepsOrder ==
    ASSUME NEW S, NEW s \in Seq(S), NEW e, NEW a, NEW b,
           Precedes(s, a, b), a # e, b # e
    PROVE  Precedes(Without(s, e), a, b)
<1>1. CASE Contains(s, e)
  <2>1. Position(s, e) \in 1..Len(s) /\ s[Position(s, e)] = e
    BY <1>1, WithoutProperties
  <2> QED
    BY <1>1, <2>1, RemoveAtKeepsOrder DEF Without
<1>2. CASE ~Contains(s, e)
  BY <1>2 DEF Without
<1> QED
  BY <1>1, <1>2
=============================================================================
