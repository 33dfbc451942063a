-------------------------- MODULE MCMarsRequestQueue --------------------------
EXTENDS MarsRequestQueue

Levels == <<0, 1, 0>>
=============================================================================
