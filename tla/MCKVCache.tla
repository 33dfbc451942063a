------------------------------ MODULE MCKVCache ------------------------------
EXTENDS KVCache

\* The first two conversations share a system prompt; the third begins with
\* tokens that are the second block of the first.
Conversations == <<
    <<"s", "s", "a", "a">>,
    <<"s", "s", "c", "c", "b">>,
    <<"a", "a", "b">> >>
==============================================================================
