--------------------------- MODULE MCMarsScheduler ---------------------------
EXTENDS MarsScheduler

\* Mixed load: a long, a short, a middle-sized and a small request.
Prompts == <<6, 2, 5, 3>>
Outputs == <<2, 3, 1, 2>>

\* Two prompts that the cache holds one at a time but not together.
PromptsLong == <<8, 8>>
OutputsLong == <<1, 1>>

QuantaLong == <<2, 1>>
ThresholdsLong == <<4>>
Quanta3 == <<4, 2, 1>>
Thresholds3 == <<2, 4>>
=============================================================================
