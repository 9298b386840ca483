------------------------------- MODULE Worker -------------------------------
(***************************************************************************)
(* internal/engine/worker.go: the virtual users' loop runWorker, with the  *)
(* safety and resilience composition of runAction and doWithRetry, and the *)
(* tripwire of internal/safety/tripwire.go they share.                     *)
(*                                                                         *)
(* A step is what a worker does between two points where others can act.   *)
(* The breakers are BreakerOps.  The limiter is reduced to its verdict,    *)
(* which may go either way at any time (module Limiter has its buckets);   *)
(* the semaphore to its counter (module Semaphore has its waiters); the    *)
(* gate to open or closed (modules Gate and GateSpec).                     *)
(***************************************************************************)
EXTENDS BreakerOps, FiniteSets, Integers

CONSTANTS Workers,     \* virtual users of one block
          Targets,     \* targets, each with a breaker
          Permits,     \* the block's semaphore limit
          MaxRetries,  \* Options.MaxRetries
          SessionMaxActions, \* Ceiling.PerSessionMaxActions
          Budget,      \* CapSpec.TotalRequestBudget
          MaxPauses,   \* bound on pauses
          NoTarget     \* the worker has no action

ASSUME WorkerAssumption ==
    /\ IsFiniteSet(Workers)
    /\ Permits \in Nat \ {0} /\ MaxRetries \in Nat /\ SessionMaxActions \in Nat
    /\ Budget \in Nat /\ MaxPauses \in Nat
    /\ NoTarget \notin Targets

VARIABLES pc,         \* where each worker is
          target,     \* target of each worker's action
          attempt,    \* doWithRetry's attempt
          actions,    \* runWorker's actions
          probes,     \* workers Allow admitted as a breaker's probe
          brk,        \* the breakers
          held,       \* permits out
          tripped,    \* Tripwire.tripped
          paused,     \* the gate is closed
          pauses,     \* pauses so far
          cancelled,  \* the run context is done
          late,       \* history: actions begun by each worker in this pause
          after,      \* history: workers the limiter admitted since the trip
          sent        \* history: handler calls, up to one above Budget

wvars == <<pc, target, attempt, actions, probes>>
env == <<paused, pauses, cancelled>>
hist == <<late, after, sent>>
vars == <<pc, target, attempt, actions, probes, brk, held, tripped, paused, pauses, cancelled,
          late, after, sent>>

(* next: at vs.Next.  gate: in gate.wait.  sleep: in the inter-action wait. *)
(* allow: at the breaker.  check, take: in Acquire, before and after the   *)
(* test of the tripwire.  permit: in Sem.acquire.  do: calling the handler.*)
(* backoff: sleeping before a retry.  release, unheld: runAction returns,  *)
(* with and without a permit.  returned: runWorker has returned.           *)
Locations == {"next", "gate", "sleep", "allow", "check", "take", "permit", "do", "backoff",
              "release", "unheld", "returned"}

TypeOK == /\ pc \in [Workers -> Locations]
          /\ target \in [Workers -> Targets \cup {NoTarget}]
          /\ attempt \in [Workers -> 0..MaxRetries]
          /\ actions \in [Workers -> 0..SessionMaxActions]
          /\ probes \subseteq Workers
          /\ brk \in [Targets -> BreakerType]
          /\ held \in 0..Permits
          /\ tripped \in BOOLEAN
          /\ paused \in BOOLEAN /\ pauses \in 0..MaxPauses
          /\ cancelled \in BOOLEAN
          /\ late \in [Workers -> Nat]
          /\ after \in [Workers -> Nat]
          /\ sent \in 0..Budget + 1

Init == /\ pc = [w \in Workers |-> "next"]
        /\ target = [w \in Workers |-> NoTarget]
        /\ attempt = [w \in Workers |-> 0]
        /\ actions = [w \in Workers |-> 0]
        /\ probes = {}
        /\ brk = [t \in Targets |-> NewBreaker]
        /\ held = 0
        /\ tripped = FALSE
        /\ paused = FALSE /\ pauses = 0
        /\ cancelled = FALSE
        /\ late = [w \in Workers |-> 0]
        /\ after = [w \in Workers |-> 0]
        /\ sent = 0

Goto(w, l) == pc' = [pc EXCEPT ![w] = l]

-----------------------------------------------------------------------------
(* runWorker.  vs.Next fails or is done, or the session's backstop holds.  *)
NextDone(w) ==
    /\ pc[w] = "next"
    /\ Goto(w, "returned")
    /\ UNCHANGED <<target, attempt, actions, probes, brk, held, tripped, env, hist>>

(* vs.Next plans an action on target t, or an idle step (NoTarget).        *)
NextStep(w, t) ==
    /\ pc[w] = "next"
    /\ ~cancelled
    /\ actions[w] < SessionMaxActions
    /\ Goto(w, "gate")
    /\ target' = [target EXCEPT ![w] = t]
    /\ UNCHANGED <<attempt, actions, probes, brk, held, tripped, env, hist>>

(* Mutant: the gate's state is read and ignored.                           *)
GateIgnored(w) ==
    /\ pc[w] = "gate"
    /\ ~cancelled
    /\ Goto(w, "sleep")
    /\ UNCHANGED <<target, attempt, actions, probes, brk, held, tripped, env, hist>>

(* gate.wait returns nil: every pause source is open.                      *)
GatePasses(w) ==
    /\ pc[w] = "gate"
    /\ ~paused /\ ~cancelled
    /\ Goto(w, "sleep")
    /\ UNCHANGED <<target, attempt, actions, probes, brk, held, tripped, env, hist>>

(* The wait is over: begin the action, or go round after an idle step.     *)
(* The gate is not looked at again.  A timer that has fired may win over a *)
(* context that is done as well.                                           *)
SleepEnds(w) ==
    /\ pc[w] = "sleep"
    /\ Goto(w, IF target[w] = NoTarget THEN "next" ELSE "allow")
    /\ late' = IF paused /\ target[w] # NoTarget THEN [late EXCEPT ![w] = @ + 1] ELSE late
    /\ UNCHANGED <<target, attempt, actions, probes, brk, held, tripped, env, after, sent>>

(* gate.wait or Sleep returns ctx.Err().                                   *)
WaitCancelled(w) ==
    /\ pc[w] \in {"gate", "sleep"}
    /\ cancelled
    /\ Goto(w, "returned")
    /\ UNCHANGED <<target, attempt, actions, probes, brk, held, tripped, env, hist>>

-----------------------------------------------------------------------------
(* runAction: breaker.Allow, or skip.                                      *)
AllowStep(w) ==
    LET b == brk[target[w]]
    IN /\ pc[w] = "allow"
       /\ brk' = [brk EXCEPT ![target[w]] = Allow(b)]
       /\ probes' = IF CooledDown(b) THEN probes \cup {w} ELSE probes
       /\ Goto(w, IF Admits(b) THEN "check" ELSE "unheld")
       /\ UNCHANGED <<target, attempt, actions, held, tripped, env, hist>>

(* Limiter.Acquire looks at the context and the tripwire before it locks.  *)
AcquireChecks(w) ==
    /\ pc[w] = "check"
    /\ Goto(w, IF cancelled THEN "unheld" ELSE IF tripped THEN "returned" ELSE "take")
    /\ UNCHANGED <<target, attempt, actions, probes, brk, held, tripped, env, hist>>

(* Both buckets have a token: a reservation.                               *)
AcquireAdmits(w) ==
    /\ pc[w] = "take"
    /\ Goto(w, "permit")
    /\ after' = IF tripped THEN [after EXCEPT ![w] = @ + 1] ELSE after
    /\ UNCHANGED <<target, attempt, actions, probes, brk, held, tripped, env, late, sent>>

(* Mutant: the worker of a refused request skips it and goes on.           *)
AcquireSkips(w) ==
    /\ pc[w] = "take"
    /\ Goto(w, "unheld")
    /\ UNCHANGED <<target, attempt, actions, probes, brk, held, tripped, env, hist>>

(* A cap is breached: Trip, and the worker returns for good.               *)
AcquireRefuses(w) ==
    /\ pc[w] = "take"
    /\ tripped' = TRUE
    /\ Goto(w, "returned")
    /\ UNCHANGED <<target, attempt, actions, probes, brk, held, env, hist>>

(* Sem.acquire: a permit, or the context's error.                          *)
PermitTaken(w) ==
    /\ pc[w] = "permit"
    /\ held < Permits
    /\ held' = held + 1
    /\ attempt' = [attempt EXCEPT ![w] = 0]
    /\ Goto(w, "do")
    /\ UNCHANGED <<target, actions, probes, brk, tripped, env, hist>>

PermitCancelled(w) ==
    /\ pc[w] = "permit"
    /\ cancelled
    /\ Goto(w, "unheld")
    /\ UNCHANGED <<target, attempt, actions, probes, brk, held, tripped, env, hist>>

-----------------------------------------------------------------------------
recordBreaker(w, ok) ==
    /\ brk' = [brk EXCEPT ![target[w]] = IF ok THEN RecordSuccess(@) ELSE RecordFailure(@)]
    /\ probes' = probes \ {w}

(* A request leaves for the target.                                        *)
Send == sent' = IF sent <= Budget THEN sent + 1 ELSE sent

(* No handler is registered for the protocol: a failure, nothing sent.     *)
LookupFails(w) ==
    /\ pc[w] = "do"
    /\ attempt[w] = 0
    /\ recordBreaker(w, FALSE)
    /\ Goto(w, "release")
    /\ UNCHANGED <<target, attempt, actions, held, tripped, env, hist>>

(* The handler succeeds; or it fails for good, panics, or has no attempt   *)
(* left.                                                                   *)
DoEnds(w, ok) ==
    /\ pc[w] = "do"
    /\ recordBreaker(w, ok)
    /\ Send
    /\ Goto(w, "release")
    /\ UNCHANGED <<target, attempt, actions, held, tripped, env, late, after>>

(* Mutant: the attempts are not counted.                                   *)
DoRetriesForever(w) ==
    /\ pc[w] = "do"
    /\ Send
    /\ Goto(w, "backoff")
    /\ UNCHANGED <<target, attempt, actions, probes, brk, held, tripped, env, late, after>>

(* A retryable failure with attempts left: back off, permit in hand.       *)
DoRetries(w) ==
    /\ pc[w] = "do"
    /\ attempt[w] < MaxRetries
    /\ attempt' = [attempt EXCEPT ![w] = @ + 1]
    /\ Send
    /\ Goto(w, "backoff")
    /\ UNCHANGED <<target, actions, probes, brk, held, tripped, env, late, after>>

(* The back-off is over: the handler again, without the breaker or the     *)
(* limiter.                                                                *)
BackoffEnds(w) ==
    /\ pc[w] = "backoff"
    /\ Goto(w, "do")
    /\ UNCHANGED <<target, attempt, actions, probes, brk, held, tripped, env, hist>>

(* Mutant: a cancelled retry goes straight back to the loop.               *)
BackoffForgets(w) ==
    /\ pc[w] = "backoff"
    /\ cancelled
    /\ recordBreaker(w, FALSE)
    /\ Goto(w, "unheld")
    /\ UNCHANGED <<target, attempt, actions, held, tripped, env, hist>>

(* Cancelled while backing off: an outcome that is not a success.          *)
BackoffCancelled(w) ==
    /\ pc[w] = "backoff"
    /\ cancelled
    /\ recordBreaker(w, FALSE)
    /\ Goto(w, "release")
    /\ UNCHANGED <<target, attempt, actions, held, tripped, env, hist>>

(* Mutant: skipped and cancelled actions are not counted.                  *)
FinishUncounted(w) ==
    /\ pc[w] \in {"release", "unheld"}
    /\ held' = IF pc[w] = "release" THEN held - 1 ELSE held
    /\ actions' = IF pc[w] = "release" THEN [actions EXCEPT ![w] = @ + 1] ELSE actions
    /\ probes' = probes \ {w}
    /\ Goto(w, "next")
    /\ UNCHANGED <<target, attempt, brk, tripped, env, hist>>

(* runAction's deferred release; runWorker counts and records the result,  *)
(* skipped and cancelled ones too.                                         *)
Finish(w) ==
    /\ pc[w] \in {"release", "unheld"}
    /\ held' = IF pc[w] = "release" THEN held - 1 ELSE held
    /\ actions' = [actions EXCEPT ![w] = @ + 1]
    /\ probes' = probes \ {w}
    /\ Goto(w, "next")
    /\ UNCHANGED <<target, attempt, brk, tripped, env, hist>>

-----------------------------------------------------------------------------
(* Environment: the operator or the schedule, the clock, Stop.             *)
Pause == /\ ~paused
         /\ pauses < MaxPauses
         /\ paused' = TRUE
         /\ pauses' = pauses + 1
         /\ UNCHANGED <<wvars, brk, held, tripped, cancelled, hist>>

Resume == /\ paused
          /\ paused' = FALSE
          /\ late' = [w \in Workers |-> 0]
          /\ UNCHANGED <<wvars, brk, held, tripped, pauses, cancelled, after, sent>>

Tick == /\ \E t \in Targets : brk[t].state = "Open" /\ brk[t].age < Cooldown
        /\ brk' = [t \in Targets |-> Elapse(brk[t])]
        /\ UNCHANGED <<wvars, held, tripped, env, hist>>

Cancel == /\ ~cancelled
          /\ cancelled' = TRUE
          /\ UNCHANGED <<wvars, brk, held, tripped, paused, pauses, hist>>

(* What a worker does once it has planned a step.                          *)
Proceed(w) == \/ GatePasses(w) \/ SleepEnds(w) \/ WaitCancelled(w)
              \/ AllowStep(w) \/ AcquireChecks(w) \/ AcquireAdmits(w) \/ AcquireRefuses(w)
              \/ PermitTaken(w) \/ PermitCancelled(w)
              \/ LookupFails(w) \/ (\E ok \in BOOLEAN : DoEnds(w, ok)) \/ DoRetries(w)
              \/ BackoffEnds(w) \/ BackoffCancelled(w)
              \/ Finish(w)

Next == \/ \E w \in Workers : \/ NextDone(w)
                              \/ \E t \in Targets \cup {NoTarget} : NextStep(w, t)
                              \/ Proceed(w)
        \/ Pause \/ Resume \/ Tick \/ Cancel

Spec == Init /\ [][Next]_vars

(* Runnable workers run; sleeps and handlers end; a permit that keeps      *)
(* coming free is had in the end; a session plans an action now and then,  *)
(* not idle steps for ever.  Nobody has to pause, resume or cancel, and a  *)
(* session need not be over until the context or its backstop ends it.     *)
(* Nothing is assumed of a worker at a closed gate: module Gate shows that *)
(* the wake-up of a cancelled wait can be lost.                            *)
AtClosedGate(w) == pc[w] = "gate" /\ paused

Fairness == \A w \in Workers :
    /\ WF_vars(~AtClosedGate(w) /\ Proceed(w))
    /\ SF_vars(PermitTaken(w))
    /\ SF_vars(\E t \in Targets : NextStep(w, t))
    /\ WF_vars((cancelled \/ actions[w] = SessionMaxActions) /\ NextDone(w))

FairSpec == Spec /\ Fairness

-----------------------------------------------------------------------------
(* Permits balance through skips, refusals, retries, panics and cancelled  *)
(* back-offs: held counts exactly the workers inside.                      *)
PermitsBalanced == held = Cardinality({w \in Workers : pc[w] \in {"do", "backoff", "release"}})

(* A half-open breaker has its probe on the way: runAction's early returns *)
(* between Allow and recordBreaker lose it only when the run is cancelled  *)
(* or the tripwire has latched, so no target is shut out of a live run.    *)
ProbeNotLost ==
    \A t \in Targets : brk[t].state = "HalfOpen" =>
        \/ cancelled \/ tripped
        \/ \E w \in probes : target[w] = t /\ pc[w] \in {"check", "take", "permit", "do", "backoff"}

(* Pausing quiesces: once the gate is closed a worker begins at most the   *)
(* one action it had already been let through for.                         *)
PauseQuiesces == \A w \in Workers : late[w] <= 1

(* The tripwire is the run's last word: the limiter admits a worker at     *)
(* most once after the latch, the request that had passed its test.        *)
TripAdmitsStragglers == \A w \in Workers : after[w] <= 1

(* Once the tripwire latches every worker of a run that is not paused      *)
(* returns, those that meet only open breakers too, which never get as far *)
(* as the tripwire and are stopped by the per-session backstop.            *)
TripStops == tripped ~> \/ \A w \in Workers : pc[w] = "returned"
                        \/ paused

(* Cancelling the run ends every worker, wherever it is: in a sleep, in    *)
(* the semaphore, in a handler, in a back-off.  Only the closed gate may   *)
(* keep one.                                                               *)
CancelStops == cancelled ~> \A w \in Workers : pc[w] = "returned" \/ AtClosedGate(w)

-----------------------------------------------------------------------------
(* tripwire.go:10-11 "It fires on total-request-budget exhaustion          *)
(* (CountRequest)".                                                        *)
BudgetTrips == sent > Budget => tripped
=============================================================================
