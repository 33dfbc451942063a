-------------------------- MODULE MCReplayAdmission --------------------------
EXTENDS ReplayAdmission

\* A long request that exceeds the tail's budget and a short one; two long
\* requests that fit that budget one at a time.
TwoRequests == {<<9, 2>>, <<5, 5>>}

TwoLong == {<<5, 5>>}
=============================================================================
