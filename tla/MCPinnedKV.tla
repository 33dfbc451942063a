------------------------------ MODULE MCPinnedKV ------------------------------
EXTENDS PinnedKV

\* Requests 1 and 2 are two turns of job "a": the second prompt is most of the
\* first turn and a tool result.  Request 3 repeats turn 1 while that may still be
\* served, request 4 is all of job "c".
All == <<
    [job |-> "a", prompt |-> 2, last |-> FALSE, before |-> {},
     text |-> <<"a1", "a2", "a3", "a4">>],
    [job |-> "a", prompt |-> 4, last |-> TRUE, before |-> {1},
     text |-> <<"a1", "a2", "a3", "a5", "a6">>],
    [job |-> "a", prompt |-> 2, last |-> FALSE, before |-> {},
     text |-> <<"a1", "a2", "x3", "x4">>],
    [job |-> "c", prompt |-> 1, last |-> TRUE, before |-> {},
     text |-> <<"c1", "c2", "c3">>] >>

Talks == [r \in Requests |-> All[r].text]
JobOf == [r \in Requests |-> All[r].job]
Prompts == [r \in Requests |-> All[r].prompt]
LastSteps == [r \in Requests |-> All[r].last]
TurnsBefore == [r \in Requests |-> All[r].before]

\* Jobs "b" and "c" have two turns.  The second prompt of "c" is longer than a
\* batch, that of "b" all of its first turn and a tool result; "a" is in its last
\* step and is preempted last.
Contended == <<
    [job |-> "c", prompt |-> 1, last |-> FALSE, before |-> {}, text |-> <<"c1", "c2">>],
    [job |-> "c", prompt |-> 13, last |-> FALSE, before |-> {1},
     text |-> <<"c1", "c2", "c3", "c4", "c5", "c6", "c7", "c8", "c9", "c10", "c11", "c12",
              "c13", "c14">>],
    [job |-> "a", prompt |-> 1, last |-> TRUE, before |-> {}, text |-> <<"a1", "a2", "a3", "a4">>],
    [job |-> "b", prompt |-> 1, last |-> FALSE, before |-> {}, text |-> <<"b1", "b2", "b3", "b4">>],
    [job |-> "b", prompt |-> 5, last |-> TRUE, before |-> {4},
     text |-> <<"b1", "b2", "b3", "b4", "b5", "b6">>] >>

ContendedTalks == [r \in Requests |-> Contended[r].text]
ContendedJobs == [r \in Requests |-> Contended[r].job]
ContendedPrompts == [r \in Requests |-> Contended[r].prompt]
ContendedLasts == [r \in Requests |-> Contended[r].last]
ContendedBefore == [r \in Requests |-> Contended[r].before]
=============================================================================
