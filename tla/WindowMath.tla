------------------------------ MODULE WindowMath ------------------------------
(***************************************************************************)
(* What the two external admission controllers of MARS compute alike: the  *)
(* one of the task driver (MarsAdmission) and the one of the replay driver *)
(* (ReplayAdmission).                                                      *)
(*                                                                         *)
(* Usage is counted in hundredths of a percent.                            *)
(***************************************************************************)
EXTENDS Integers

Lower(a, b) == IF a <= b THEN a ELSE b
Higher(a, b) == IF a >= b THEN a ELSE b
Clamp(lo, hi, n) == Higher(lo, Lower(hi, n))

\* round(), ties to even, of a non-negative fraction.
Round(n, d) ==
    LET q == (2 * n + d) \div (2 * d)
    IN  IF (2 * n + d) % (2 * d) = 0 /\ q % 2 = 1 THEN q - 1 ELSE q

\* kv_window_cap for a known usage: max up to the low watermark, min from the
\* high one on, and linear between them.
UsageCap(usage, low, high, min, max) ==
    IF usage <= low THEN max
    ELSE IF usage >= high THEN min
    ELSE Clamp(min, max, Round(max * (high - low) - (usage - low) * (max - min), high - low))

\* _kv_blocks_for_tokens
BlocksFor(tokens, blockSize) == (tokens + blockSize - 1) \div blockSize

\* BlockPool.get_usage of a pool of which one block is the null block.
PoolUsage(free, numBlocks) == 10000 - (10000 * free) \div (numBlocks - 1)

\* The blocks that a target ratio keeps back.
GuardBlocks(numBlocks, targetPct) == (numBlocks * (100 - targetPct) + 99) \div 100
=============================================================================
