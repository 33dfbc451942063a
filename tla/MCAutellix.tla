------------------------------ MODULE MCAutellix ------------------------------
EXTENDS Autellix

\* A program of three steps and two of one.
Programs == <<"a", "a", "a", "b", "c">>
Before == <<Nobody, 1, 2, Nobody, Nobody>>
Prompts == <<3, 5, 4, 2, 6>>
Ends == <<4, 6, 5, 4, 7>>
Service == <<3, 6>>
Slices == <<3, 2, 1>>
=============================================================================
