---------------------------- MODULE MCAdmission ----------------------------
(***************************************************************************)
(* The breaker and the limiter, which a request passes one after the other *)
(* and which share nothing: TLC checks every behaviour of one while the    *)
(* other is untouched.  Only the breaker has fairness, so what is left out *)
(* for the limiter's sake is no behaviour of the breaker.                  *)
(***************************************************************************)
EXTENDS Breaker, Limiter

vars == <<breakerVars, limiterVars>>

MCInit == BreakerInit /\ LimiterInit

OneAtATime == BreakerInit \/ LimiterInit

MCNext == \/ BreakerNext /\ UNCHANGED limiterVars /\ OneAtATime'
          \/ LimiterNext /\ UNCHANGED breakerVars /\ OneAtATime'

MCSpec == MCInit /\ [][MCNext]_vars /\ BreakerFairness
=============================================================================
