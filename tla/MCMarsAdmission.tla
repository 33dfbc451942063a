--------------------------- MODULE MCMarsAdmission ---------------------------
EXTENDS MarsAdmission

\* One short task and three long ones of 32, 60 and 32 blocks: the two small
\* ones fit the budgets together, the large one goes with neither.
Estimates == <<500, 64, 960, 512>>
=============================================================================
