---------------------------- MODULE MarsQueueSpec ----------------------------
(***************************************************************************)
(* What the waiting queue of the MARS policy promises: a sequence ordered  *)
(* by level, first come first served within a level, in which a prepended  *)
(* request goes to the very front.                                         *)
(***************************************************************************)
EXTENDS QueueOrder

CONSTANTS
    Ids,      \* request ids
    LevelOf   \* the level add_request gives a request

VARIABLES q, lvl, out

None == 0 - 1

qvars == <<q, lvl, out>>

Init ==
    /\ q = <<>>
    /\ lvl = [r \in Ids |-> 0]
    /\ out = None

Add(r) ==
    /\ ~Contains(q, r)
    /\ lvl' = [lvl EXCEPT ![r] = LevelOf[r]]
    /\ q' = InsertByLevel(q, lvl', r)
    /\ UNCHANGED out

Prepend(r) ==
    /\ ~Contains(q, r)
    /\ lvl' = [lvl EXCEPT ![r] = 0]
    /\ q' = <<r>> \o q
    /\ UNCHANGED out

Peek ==
    /\ q # <<>>
    /\ out' = Head(q)
    /\ UNCHANGED <<q, lvl>>

Pop ==
    /\ q # <<>>
    /\ out' = Head(q)
    /\ q' = Tail(q)
    /\ lvl' = [lvl EXCEPT ![Head(q)] = 0]

Drop(r) ==
    /\ q' = Without(q, r)
    /\ lvl' = [lvl EXCEPT ![r] = 0]
    /\ UNCHANGED out

Next ==
    \/ \E r \in Ids : Add(r) \/ Prepend(r) \/ Drop(r)
    \/ Peek \/ Pop

Spec == Init /\ [][Next]_qvars
=============================================================================
