------------------------------ MODULE QueueOrder ------------------------------
(***************************************************************************)
(* Order-keeping operations on lists of requests, tasks or blocks, shared  *)
(* by the scheduler, the specification of its waiting queue, the KV cache  *)
(* and the Concur controller.                                              *)
(***************************************************************************)
EXTENDS Integers, Sequences, FiniteSets, SequencesExt

Position(s, r) == CHOOSE i \in DOMAIN s : s[i] = r

\* list.remove: s without r, and s itself when r does not occur in it.
Without(s, r) == IF Contains(s, r) THEN RemoveAt(s, Position(s, r)) ELSE s

\* A list comprehension with a condition: s without the elements of S, in order.
Removed(s, S) ==
    LET f[i \in 0..Len(s)] ==
            IF i = 0 THEN <<>>
            ELSE IF s[i] \in S THEN f[i - 1]
            ELSE Append(f[i - 1], s[i])
    IN  f[Len(s)]

\* The same comprehension with the elements of S.
Kept(s, S) == Removed(s, ToSet(s) \ S)

\* a stands before b in s.
Precedes(s, a, b) == \E i, j \in DOMAIN s : i < j /\ s[i] = a /\ s[j] = b

\* list.sort: the elements of S in the order of before, which is strict and total.
InPlaces(S, place) == [i \in 1..Cardinality(S) |-> CHOOSE r \in S : place[r] = i]
Sorted(S, before(_, _)) == InPlaces(S, [r \in S |-> Cardinality({q \in S : before(q, r)}) + 1])

\* r behind every element of q whose level is the same or better (lower).
InsertPoint(q, lv, r) == Cardinality({i \in DOMAIN q : lv[q[i]] <= lv[r]}) + 1
InsertByLevel(q, lv, r) == InsertAt(q, InsertPoint(q, lv, r), r)
=============================================================================
