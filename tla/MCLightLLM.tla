------------------------------ MODULE MCLightLLM ------------------------------
EXTENDS LightLLM

\* Request 1 begins like request 2, whose blocks it may hit; 2 and 3 have long
\* outputs, 4 has a long prompt.
All == <<
    [prompt |-> 3, text |-> <<"a", "b", "x", "y">>],
    [prompt |-> 2, text |-> <<"a", "b", "c", "d", "e", "f", "g", "h">>],
    [prompt |-> 2, text |-> <<"p", "q", "r", "s", "t", "u", "v", "w", "x", "y">>],
    [prompt |-> 5, text |-> <<"k", "l", "m", "n", "o", "p">>] >>

Texts == [r \in Requests |-> All[r].text]
Prompts == [r \in Requests |-> All[r].prompt]
Outputs == [r \in Requests |-> Len(All[r].text) - All[r].prompt]
=============================================================================
