--------------------------- MODULE MarsRequestQueue ---------------------------
(***************************************************************************)
(* MarsRequestQueue of request_queue.py: a binary heap with lazy deletion. *)
(* Removing a request only forgets it in the dictionaries; its heap entry  *)
(* stays until it reaches the top.  An entry counts when its version is    *)
(* the request's current one, and versions restart when a request leaves.  *)
(***************************************************************************)
EXTENDS Integers, Sequences, FiniteSets

CONSTANTS
    Ids,        \* request ids
    LevelOf,    \* _get_level of every request
    ReuseIds,   \* may an id that has been in the queue be added again
    MaxAdds,    \* bound on _seq
    MaxPrepends \* bound on -_prepend_seq

ASSUME QueueAssumption ==
    /\ Ids \subseteq Nat
    /\ LevelOf \in [Ids -> Nat]
    /\ ReuseIds \in BOOLEAN
    /\ MaxAdds \in Nat /\ MaxPrepends \in Nat

VARIABLES
    heap,       \* _heap, the set of its entries
    requests,   \* the keys of _requests
    version,    \* _version, 0 when absent
    key,        \* _key_by_id
    seq,        \* _seq
    prependSeq, \* _prepend_seq
    out,        \* what the last peek or pop returned
    seen        \* the ids that have been enqueued by add_request

vars == <<heap, requests, version, key, seq, prependSeq, out, seen>>

None == 0 - 1
NoKey == [level |-> 0, order |-> 0]

\* Heap entries compare by level, then order; orders are never shared, so
\* arrival_time and the fields behind it do not decide anything.
Before(a, b) == a.level < b.level \/ (a.level = b.level /\ a.order < b.order)
AtOrBefore(a, b) == Before(a, b) \/ (a.level = b.level /\ a.order = b.order)

Init ==
    /\ heap = {} /\ requests = {}
    /\ version = [r \in Ids |-> 0]
    /\ key = [r \in Ids |-> NoKey]
    /\ seq = 0 /\ prependSeq = 0
    /\ out = None /\ seen = {}

\* Mutant: the entry carries the version before the push.
PushStale(r, l, o) ==
    /\ version' = [version EXCEPT ![r] = @ + 1]
    /\ requests' = requests \cup {r}
    /\ key' = [key EXCEPT ![r] = [level |-> l, order |-> o]]
    /\ heap' = heap \cup {[level |-> l, order |-> o, id |-> r, version |-> version[r]]}

Push(r, l, o) ==
    /\ version' = [version EXCEPT ![r] = @ + 1]
    /\ requests' = requests \cup {r}
    /\ key' = [key EXCEPT ![r] = [level |-> l, order |-> o]]
    /\ heap' = heap \cup {[level |-> l, order |-> o, id |-> r, version |-> version[r] + 1]}

\* An entry counts when its request is queued in its version.
Valid(e) == e.id \in requests /\ version[e.id] = e.version

\* Mutant: peek and pop take the top as it is.
PurgedNever == heap

\* _purge pops entries from the top until one counts.
Purged == {e \in heap : \E v \in heap : Valid(v) /\ AtOrBefore(v, e)}
Top == CHOOSE e \in Purged : \A f \in Purged : AtOrBefore(e, f)

\* Mutant: leaving the queue counts the version down.
ForgetByCounting(r) ==
    /\ requests' = requests \ {r}
    /\ version' = [version EXCEPT ![r] = @ - 1]
    /\ key' = [key EXCEPT ![r] = NoKey]

\* The dictionaries forget r; the heap does not.
Forget(r) ==
    /\ requests' = requests \ {r}
    /\ version' = [version EXCEPT ![r] = 0]
    /\ key' = [key EXCEPT ![r] = NoKey]

AddRequest(r) ==
    /\ r \notin requests
    /\ ReuseIds \/ r \notin seen
    /\ seq < MaxAdds
    /\ seq' = seq + 1
    /\ Push(r, LevelOf[r], seq + 1)
    /\ seen' = seen \cup {r}
    /\ UNCHANGED <<prependSeq, out>>

\* A preempted or skipped request, which has left the queue before.
PrependRequest(r) ==
    /\ r \notin requests
    /\ r \in seen
    /\ -prependSeq < MaxPrepends
    /\ prependSeq' = prependSeq - 1
    /\ Push(r, 0, prependSeq - 1)
    /\ UNCHANGED <<seq, out, seen>>

PeekRequest ==
    /\ requests # {}
    /\ heap' = Purged
    /\ out' = Top.id
    /\ UNCHANGED <<requests, version, key, seq, prependSeq, seen>>

PopRequest ==
    /\ requests # {}
    /\ heap' = Purged \ {Top}
    /\ out' = Top.id
    /\ Forget(Top.id)
    /\ UNCHANGED <<seq, prependSeq, seen>>

RemoveRequest(r) ==
    /\ Forget(r)
    /\ UNCHANGED <<heap, seq, prependSeq, out, seen>>

Next ==
    \/ \E r \in Ids : AddRequest(r) \/ PrependRequest(r) \/ RemoveRequest(r)
    \/ PeekRequest \/ PopRequest

Spec == Init /\ [][Next]_vars

-----------------------------------------------------------------------------
TypeOK ==
    /\ heap \subseteq [level : Nat, order : Int, id : Ids, version : Nat]
    /\ requests \subseteq Ids
    /\ version \in [Ids -> Nat]
    /\ key \in [Ids -> [level : Nat, order : Int]]
    /\ seq \in Nat /\ prependSeq \in Int
    /\ out \in Ids \cup {None}
    /\ seen \subseteq Ids

\* __iter__: the queued requests sorted by their keys.
Iter ==
    CHOOSE s \in [1..Cardinality(requests) -> requests] :
        \A i, j \in 1..Cardinality(requests) : i < j => Before(key[s[i]], key[s[j]])

\* Every queued request has an entry that counts, at its own key: peek and
\* pop never raise IndexError while the queue says it is not empty.
EveryRequestReachable ==
    \A r \in requests :
        \E e \in heap : /\ e.id = r /\ Valid(e)
                        /\ e.level = key[r].level /\ e.order = key[r].order

\* The heap is well formed and loses nobody, however many stale entries it has.
HeapSound == TypeOK /\ EveryRequestReachable

\* The heap with lazy deletion implements the ordered queue.
Queue == INSTANCE MarsQueueSpec WITH
    q <- Iter, lvl <- [r \in Ids |-> key[r].level]
ImplementsQueue == Queue!Spec
=============================================================================
