------------------------------ MODULE Breaker ------------------------------
(***************************************************************************)
(* One target's circuit breaker (BreakerOps) with the requests that use    *)
(* it: every worker asks Allow, is in flight for as long as its handler    *)
(* likes, and then records the outcome.  Several requests are in flight at *)
(* once, so outcomes arrive in any order and long after the state they     *)
(* were admitted in is gone.  How runAction calls the breaker is module    *)
(* Worker's subject; here a request that is given up without an outcome is *)
(* one of a run that is stopping (runAction's early returns after Allow).  *)
(***************************************************************************)
EXTENDS BreakerOps, FiniteSets

CONSTANTS Requests,   \* slots for requests in flight to the target
          MaxForced   \* bound on operator ForceOpen calls (TargetsDisable)

ASSUME RequestAssumption == IsFiniteSet(Requests) /\ MaxForced \in Nat

VARIABLES brk,        \* the breaker
          flight,     \* each request: "idle", or admitted as "normal" / "probe"
          sound,      \* requests that will succeed: admitted to a healed target
          healed,     \* the target answers again
          stopping,   \* the run is cancelled or the tripwire latched
          forced,     \* ForceOpen calls so far
          streak,     \* history: failures recorded since the last success
          sinceProbe  \* history: ticks since the last probe was admitted

breakerVars == <<brk, flight, sound, healed, stopping, forced, streak, sinceProbe>>
env == <<healed, stopping, forced>>

BreakerTypeOK ==
    /\ brk \in BreakerType
    /\ flight \in [Requests -> {"idle", "normal", "probe"}]
    /\ sound \subseteq Requests
    /\ healed \in BOOLEAN
    /\ stopping \in BOOLEAN
    /\ forced \in 0..MaxForced
    /\ streak \in 0..Threshold
    /\ sinceProbe \in 0..Cooldown

BreakerInit ==
    /\ brk = NewBreaker
    /\ flight = [r \in Requests |-> "idle"]
    /\ sound = {}
    /\ healed = FALSE
    /\ stopping = FALSE
    /\ forced = 0
    /\ streak = 0
    /\ sinceProbe = Cooldown

(* A request that Allow admits; one it refuses leaves no trace.            *)
Admit(r) ==
    /\ flight[r] = "idle"
    /\ Admits(brk)
    /\ brk' = Allow(brk)
    /\ flight' = [flight EXCEPT ![r] = IF CooledDown(brk) THEN "probe" ELSE "normal"]
    /\ sound' = IF healed THEN sound \cup {r} ELSE sound
    /\ sinceProbe' = IF CooledDown(brk) THEN 0 ELSE sinceProbe
    /\ UNCHANGED <<env, streak>>

Land(r) == /\ flight[r] # "idle"
           /\ flight' = [flight EXCEPT ![r] = "idle"]
           /\ sound' = sound \ {r}

(* recordBreaker with a success / with any other outcome.                  *)
Succeed(r) == /\ Land(r)
              /\ brk' = RecordSuccess(brk)
              /\ streak' = 0
              /\ UNCHANGED <<env, sinceProbe>>

Fail(r) == /\ Land(r)
           /\ r \notin sound
           /\ brk' = RecordFailure(brk)
           /\ streak' = IF streak < Threshold THEN streak + 1 ELSE streak
           /\ UNCHANGED <<env, sinceProbe>>

(* runAction returns between Allow and recordBreaker.                      *)
Abandon(r) == /\ stopping
              /\ Land(r)
              /\ UNCHANGED <<brk, env, streak, sinceProbe>>

Disable == /\ forced < MaxForced
           /\ forced' = forced + 1
           /\ brk' = ForceOpen(brk)
           /\ UNCHANGED <<flight, sound, healed, stopping, streak, sinceProbe>>

BreakerTick ==
    /\ brk' = Elapse(brk)
    /\ sinceProbe' = IF sinceProbe < Cooldown THEN sinceProbe + 1 ELSE sinceProbe
    /\ UNCHANGED <<flight, sound, env, streak>>

Heal == /\ ~healed
        /\ healed' = TRUE
        /\ UNCHANGED <<brk, flight, sound, stopping, forced, streak, sinceProbe>>

StopRun == /\ ~stopping
           /\ stopping' = TRUE
           /\ UNCHANGED <<brk, flight, sound, healed, forced, streak, sinceProbe>>

BreakerNext ==
    \/ \E r \in Requests : Admit(r) \/ Succeed(r) \/ Fail(r) \/ Abandon(r)
    \/ Disable
    \/ BreakerTick
    \/ Heal
    \/ StopRun

BreakerSpec == BreakerInit /\ [][BreakerNext]_breakerVars

(* Workers keep asking, handlers return with an outcome, time passes.      *)
(* Nobody has to heal the target, disable it or stop the run.              *)
BreakerFairness ==
    /\ \A r \in Requests : WF_breakerVars(Admit(r)) /\ WF_breakerVars(Succeed(r) \/ Fail(r))
    /\ WF_breakerVars(BreakerTick)

BreakerFairSpec == BreakerSpec /\ BreakerFairness

-----------------------------------------------------------------------------
(* A breaker that admits everybody has seen fewer than Threshold failures  *)
(* since the last success, in whatever order the outcomes of overlapping   *)
(* requests arrive and whatever it was doing when they did.                *)
ClosedBelowThreshold == brk.state = "Closed" => streak < Threshold

(* A closed breaker is never opened early: only by Threshold failures in a *)
(* row or by the operator.                                                 *)
OpensOnlyOnStreak ==
    [][brk.state = "Closed" /\ brk'.state = "Open" =>
          streak' = Threshold \/ forced' # forced]_breakerVars

(* A target that is down is left alone: two probes are at least Cooldown   *)
(* apart, even when late outcomes open and close the breaker in between.   *)
ProbesSpaced ==
    [][\A r \in Requests : flight[r] = "idle" /\ flight'[r] = "probe" =>
          sinceProbe >= Cooldown]_breakerVars

(* The breaker is never wedged: half-open, where Allow refuses everybody,  *)
(* there is a probe in flight whose outcome will move it on.  Only a run   *)
(* that is stopping may lose the probe.                                    *)
HalfOpenHasProbe ==
    brk.state = "HalfOpen" => stopping \/ \E r \in Requests : flight[r] = "probe"

(* Self-healing: once the target answers again, the breaker closes and     *)
(* stays closed, for every number of failures before.                      *)
SelfHeals == <>[](healed => brk.state = "Closed" \/ stopping)

(* breaker.go:54 "A probe is already in flight; admit only one at a time." *)
OneProbeAtATime == Cardinality({r \in Requests : flight[r] = "probe"}) <= 1
=============================================================================
