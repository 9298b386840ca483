----------------------------- MODULE BreakerOps -----------------------------
(***************************************************************************)
(* internal/safety/breaker.go: the per-target circuit breaker as a record  *)
(* and the operations its mutex makes atomic.                              *)
(*                                                                         *)
(* age stands for clk.Since(openedAt), which the code only compares with   *)
(* the cooldown, and fails is only compared with the threshold: both       *)
(* saturate there, which no operation can tell from counting on.           *)
(***************************************************************************)
EXTENDS Naturals

CONSTANTS Threshold,  \* consecutive failures that open the breaker
          Cooldown    \* ticks before an open breaker admits a probe

(* NewBreaker raises a smaller threshold to 1.                             *)
ASSUME BreakerAssumption == Threshold \in Nat \ {0} /\ Cooldown \in Nat

BreakerStates == {"Closed", "Open", "HalfOpen"}

BreakerType == [state : BreakerStates, fails : 0..Threshold, age : 0..Cooldown]

NewBreaker == [state |-> "Closed", fails |-> 0, age |-> 0]

(* Mutant: the cooldown is not restarted.                                  *)
openKeepsClock(b) == [b EXCEPT !.state = "Open"]

(* open: the state, and openedAt = now.                                    *)
open(b) == [state |-> "Open", fails |-> b.fails, age |-> 0]

(* What Allow returns, and what it leaves behind.                          *)
CooledDown(b) == b.state = "Open" /\ b.age >= Cooldown
Admits(b) == b.state = "Closed" \/ CooledDown(b)
Allow(b) == IF CooledDown(b) THEN [b EXCEPT !.state = "HalfOpen"] ELSE b

(* Mutant: a success clears the streak and leaves the state alone.         *)
RecordSuccessStuck(b) == [b EXCEPT !.fails = 0]

RecordSuccess(b) == [state |-> "Closed", fails |-> 0, age |-> b.age]

(* Mutant: a failed probe is only counted.                                 *)
RecordFailureNoProbe(b) ==
    LET n == IF b.fails < Threshold THEN b.fails + 1 ELSE Threshold
    IN IF b.state = "HalfOpen" THEN [b EXCEPT !.fails = n]
       ELSE IF n >= Threshold THEN open([b EXCEPT !.fails = n]) ELSE [b EXCEPT !.fails = n]

(* A failed probe opens at once and is not counted; any other failure is   *)
(* counted, in the Open state too, where it restarts the cooldown.         *)
RecordFailure(b) ==
    LET n == IF b.fails < Threshold THEN b.fails + 1 ELSE Threshold
        counted == [b EXCEPT !.fails = n]
    IN CASE b.state = "HalfOpen" -> open(b)
         [] b.state # "HalfOpen" /\ n >= Threshold -> open(counted)
         [] OTHER -> counted

ForceOpen(b) == open(b)

(* The clock moves: clk.Since(openedAt) grows.                             *)
Elapse(b) == IF b.age < Cooldown THEN [b EXCEPT !.age = @ + 1] ELSE b
=============================================================================
