-------------------------------- MODULE Ramp --------------------------------
(***************************************************************************)
(* internal/engine/ramp.go: the concurrency a block's ramp allows after a  *)
(* given time.                                                             *)
(***************************************************************************)
EXTENDS Integers

(* math.Round of a / b for a >= 0 and b > 0: halves go up.                 *)
RoundDiv(a, b) == (2 * a + b) \div (2 * b)

Clamp(n, lo, hi) == IF n < lo THEN lo ELSE IF n > hi THEN hi ELSE n

(* Mutant: the interpolation descends from the target.                     *)
ConcurrencyAtDown(plan, target, elapsed) ==
    LET start == IF plan.start < 1 THEN 1 ELSE plan.start
    IN  IF plan.up <= 0 THEN target
        ELSE IF elapsed <= 0 THEN start
        ELSE IF elapsed >= plan.up THEN target
        ELSE Clamp(RoundDiv(target * plan.up - (target - start) * elapsed, plan.up), 1, target)

(* concurrencyAt(plan, target, elapsed)                                    *)
ConcurrencyAt(plan, target, elapsed) ==
    LET start == IF plan.start < 1 THEN 1 ELSE plan.start
    IN  IF plan.up <= 0 THEN target
        ELSE IF elapsed <= 0 THEN start
        ELSE IF elapsed >= plan.up THEN target
        ELSE Clamp(RoundDiv(start * plan.up + (target - start) * elapsed, plan.up), 1, target)

(* initialLimit: the semaphore's first limit.                              *)
InitialLimit(plan, target) ==
    LET n == ConcurrencyAt(plan, target, 0) IN IF n < 1 THEN 1 ELSE n
=============================================================================
