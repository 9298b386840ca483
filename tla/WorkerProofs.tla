---------------------------- MODULE WorkerProofs ----------------------------
(***************************************************************************)
(* The worker loop's safety for any number of workers, targets, permits,   *)
(* retries, pauses and any thresholds of the breakers.                     *)
(***************************************************************************)
EXTENDS Worker, FiniteSetTheorems, TLAPS

(* The workers that hold a permit.                                         *)
Holding == {"do", "backoff", "release"}
(* The workers between acquire and release.                                *)
Holders == {w \in Workers : pc[w] \in Holding}

(* runAction runs for an action only: an idle step has gone round before.  *)
Targeted ==
    \A w \in Workers :
        pc[w] \in {"allow", "check", "take", "permit", "do", "backoff"} => target[w] \in Targets

(* A step is planned only below the session's backstop.                    *)
BelowBackstop ==
    \A w \in Workers : pc[w] \notin {"next", "returned"} => actions[w] < SessionMaxActions

(* A worker that has begun an action in this pause is past its sleep, and  *)
(* only the open gate leads there again.                                   *)
LatePast == \A w \in Workers : late[w] = 0 \/ (late[w] = 1 /\ paused /\ pc[w] # "sleep")

(* A worker admitted after the latch is past the limiter, and the test of  *)
(* the tripwire keeps it from coming there again.                          *)
StragglerPast == \A w \in Workers : after[w] = 0 \/ (after[w] = 1 /\ tripped /\ pc[w] # "take")

(* The inductive invariant.                                                *)
WorkerInv == /\ TypeOK /\ PermitsBalanced /\ Targeted /\ BelowBackstop
             /\ ProbeNotLost /\ LatePast /\ StragglerPast

-----------------------------------------------------------------------------
(* The breaker's operations keep its type; only Allow, of a breaker whose  *)
(* cooldown is over, ends half-open.                                       *)
LEMMA BreakerFacts ==
    ASSUME NEW b \in BreakerType
    PROVE  /\ NewBreaker \in BreakerType /\ NewBreaker.state = "Closed"
           /\ Allow(b) \in BreakerType /\ RecordSuccess(b) \in BreakerType
           /\ RecordFailure(b) \in BreakerType /\ Elapse(b) \in BreakerType
           /\ RecordSuccess(b).state # "HalfOpen" /\ RecordFailure(b).state # "HalfOpen"
           /\ Elapse(b).state = b.state
           /\ ~CooledDown(b) => Allow(b) = b
           /\ CooledDown(b) => Admits(b)
  <1> USE BreakerAssumption DEF BreakerType, BreakerStates, open
  <1>1. NewBreaker \in BreakerType /\ NewBreaker.state = "Closed"
      BY DEF NewBreaker
  <1>2. Allow(b) \in BreakerType /\ (~CooledDown(b) => Allow(b) = b)
      BY DEF Allow
  <1>3. RecordSuccess(b) \in BreakerType /\ RecordSuccess(b).state # "HalfOpen"
      BY DEF RecordSuccess
  <1>4. RecordFailure(b) \in BreakerType /\ RecordFailure(b).state # "HalfOpen"
      BY DEF RecordFailure
  <1>5. Elapse(b) \in BreakerType /\ Elapse(b).state = b.state
      BY DEF Elapse
  <1> QED
      BY <1>1, <1>2, <1>3, <1>4, <1>5 DEF Admits

(* A worker that changes its place changes the count of the permits by     *)
(* what the two places hold, and nobody else's.                            *)
LEMMA PermitCount ==
    ASSUME TypeOK, PermitsBalanced, NEW w \in Workers, NEW l \in Locations, Goto(w, l),
           held' = held + (IF l \in Holding THEN 1 ELSE 0)
                        - (IF pc[w] \in Holding THEN 1 ELSE 0)
    PROVE  PermitsBalanced' /\ held' \in Nat
  <1>1. IsFiniteSet(Holders) /\ Cardinality(Holders) \in Nat /\ held = Cardinality(Holders)
      BY WorkerAssumption, FS_Subset, FS_CardinalityType DEF Holders, Holding, PermitsBalanced
  <1>2. /\ Holders' = IF l \in Holding THEN Holders \cup {w} ELSE Holders \ {w}
        /\ w \in Holders <=> pc[w] \in Holding
      BY DEF Holders, Goto, TypeOK
  <1>3. held' = Cardinality(Holders')
    <2>1. CASE l \in Holding /\ w \in Holders
      <3>1. Holders' = Holders
        BY <1>2, <2>1
      <3> QED
        BY <1>1, <1>2, <2>1, <3>1
    <2>2. CASE l \notin Holding /\ w \notin Holders
      <3>1. Holders' = Holders /\ held' = held
        BY <1>1, <1>2, <2>2
      <3> QED
        BY <1>1, <3>1
    <2>3. CASE l \in Holding /\ w \notin Holders
      <3>1. Cardinality(Holders') = Cardinality(Holders) + 1
        BY <1>1, <1>2, <2>3, FS_AddElement
      <3> QED
        BY <1>1, <1>2, <2>3, <3>1
    <2>4. CASE l \notin Holding /\ w \in Holders
      <3>1. Cardinality(Holders') = Cardinality(Holders) - 1
        BY <1>1, <1>2, <2>4, FS_RemoveElement
      <3> QED
        BY <1>1, <1>2, <2>4, <3>1
    <2> QED
      BY <2>1, <2>2, <2>3, <2>4
  <1>4. IsFiniteSet(Holders')
      BY WorkerAssumption, FS_Subset DEF Holders
  <1> QED
      BY <1>3, <1>4, FS_CardinalityType DEF PermitsBalanced, Holders, Holding

-----------------------------------------------------------------------------
(* Every step of a worker keeps the count of the permits.                  *)
LEMMA BalanceStep ==
    ASSUME TypeOK, PermitsBalanced, NEW w \in Workers, NEW t \in Targets \cup {NoTarget},
           NextDone(w) \/ NextStep(w, t) \/ Proceed(w)
    PROVE  PermitsBalanced' /\ held' \in Nat
  <1>1. ASSUME held' = held,
               \E l \in Locations : Goto(w, l) /\ (l \in Holding <=> pc[w] \in Holding)
        PROVE  PermitsBalanced' /\ held' \in Nat
    <2>1. PICK l \in Locations : Goto(w, l) /\ (l \in Holding <=> pc[w] \in Holding)
      BY <1>1
    <2>2. held' = held + (IF l \in Holding THEN 1 ELSE 0)
                       - (IF pc[w] \in Holding THEN 1 ELSE 0)
      BY <1>1, <2>1 DEF TypeOK
    <2> QED
      BY <2>1, <2>2, PermitCount
  <1>2. CASE NextDone(w) \/ NextStep(w, t) \/ GatePasses(w) \/ SleepEnds(w) \/ WaitCancelled(w)
      BY <1>1, <1>2 DEF NextDone, NextStep, GatePasses, SleepEnds, WaitCancelled, Locations, Holding
  <1>3. CASE AllowStep(w) \/ AcquireChecks(w) \/ AcquireAdmits(w) \/ AcquireRefuses(w)
             \/ PermitCancelled(w)
      BY <1>1, <1>3 DEF AllowStep, AcquireChecks, AcquireAdmits, AcquireRefuses, PermitCancelled,
         Locations, Holding
  <1>4. CASE LookupFails(w) \/ (\E ok \in BOOLEAN : DoEnds(w, ok)) \/ DoRetries(w)
             \/ BackoffEnds(w) \/ BackoffCancelled(w)
      BY <1>1, <1>4 DEF LookupFails, DoEnds, DoRetries, BackoffEnds, BackoffCancelled,
         Locations, Holding
  <1>5. CASE PermitTaken(w)
    <2>1. /\ Goto(w, "do") /\ "do" \in Locations
          /\ held' = held + (IF "do" \in Holding THEN 1 ELSE 0)
                          - (IF pc[w] \in Holding THEN 1 ELSE 0)
      BY <1>5 DEF PermitTaken, Locations, Holding, TypeOK
    <2> QED
      BY <2>1, PermitCount
  <1>6. CASE Finish(w)
    <2>1. /\ Goto(w, "next") /\ "next" \in Locations
          /\ held' = held + (IF "next" \in Holding THEN 1 ELSE 0)
                          - (IF pc[w] \in Holding THEN 1 ELSE 0)
      BY <1>6 DEF Finish, Locations, Holding, TypeOK
    <2> QED
      BY <2>1, PermitCount
  <1> QED
      BY <1>2, <1>3, <1>4, <1>5, <1>6 DEF Proceed

(* Every step of a worker keeps the types.                                 *)
LEMMA TypeStep ==
    ASSUME WorkerInv, NEW w \in Workers, NEW t \in Targets \cup {NoTarget},
           NextDone(w) \/ NextStep(w, t) \/ Proceed(w)
    PROVE  TypeOK'
  <1> USE WorkerAssumption DEF WorkerInv, TypeOK, Goto, Locations, env, hist
  <1>1. CASE NextDone(w) \/ NextStep(w, t)
      BY <1>1 DEF NextDone, NextStep
  <1>2. CASE GatePasses(w) \/ SleepEnds(w) \/ WaitCancelled(w)
      BY <1>2 DEF GatePasses, SleepEnds, WaitCancelled
  <1>3. CASE AllowStep(w)
    <2>1. target[w] \in Targets /\ Allow(brk[target[w]]) \in BreakerType
      BY <1>3, BreakerFacts DEF AllowStep, Targeted
    <2> QED
      BY <1>3, <2>1 DEF AllowStep
  <1>4. CASE AcquireChecks(w) \/ AcquireAdmits(w)
      BY <1>4 DEF AcquireChecks, AcquireAdmits
  <1>9. CASE AcquireRefuses(w)
      BY <1>9 DEF AcquireRefuses
  <1>5. CASE PermitTaken(w) \/ PermitCancelled(w)
      BY <1>5 DEF PermitTaken, PermitCancelled
  <1>6. CASE LookupFails(w) \/ (\E ok \in BOOLEAN : DoEnds(w, ok)) \/ BackoffCancelled(w)
    <2>1. PICK ok \in BOOLEAN : recordBreaker(w, ok)
      BY <1>6 DEF LookupFails, DoEnds, BackoffCancelled
    <2>2. target[w] \in Targets
      BY <1>6 DEF LookupFails, DoEnds, BackoffCancelled, Targeted
    <2>3. brk' \in [Targets -> BreakerType] /\ probes' \subseteq Workers
      BY <2>1, <2>2, BreakerFacts DEF recordBreaker
    <2>4. /\ pc' = [pc EXCEPT ![w] = "release"]
          /\ UNCHANGED <<target, attempt, actions, held, tripped, env, late, after>>
      BY <1>6 DEF LookupFails, DoEnds, BackoffCancelled
    <2>5. sent' = sent \/ Send
      BY <1>6 DEF LookupFails, DoEnds, BackoffCancelled
    <2>6. sent' \in 0..Budget + 1
      BY <2>5 DEF Send
    <2> QED
      BY <2>3, <2>4, <2>6
  <1>7. CASE DoRetries(w) \/ BackoffEnds(w)
      BY <1>7 DEF DoRetries, BackoffEnds, Send
  <1>8. CASE Finish(w)
    <2>1. actions[w] < SessionMaxActions
      BY <1>8 DEF Finish, BelowBackstop
    <2>2. held' \in Nat
      BY BalanceStep
    <2> QED
      BY <1>8, <2>1, <2>2 DEF Finish
  <1> QED
      BY <1>1, <1>2, <1>3, <1>4, <1>5, <1>6, <1>7, <1>8, <1>9 DEF Proceed

(* Every step of a worker keeps what is known of a worker past its sleep,  *)
(* past the limiter and below its backstop: most only move it.             *)
LEMMA PlaceStep ==
    ASSUME WorkerInv, NEW w \in Workers, NEW t \in Targets \cup {NoTarget},
           NextDone(w) \/ NextStep(w, t) \/ Proceed(w)
    PROVE  Targeted' /\ BelowBackstop' /\ LatePast' /\ StragglerPast'
  <1> USE WorkerAssumption
      DEF WorkerInv, TypeOK, Goto, env, hist, Targeted, BelowBackstop, LatePast, StragglerPast
  <1>1. CASE NextDone(w) \/ NextStep(w, t)
      BY <1>1 DEF NextDone, NextStep
  <1>2. CASE GatePasses(w) \/ WaitCancelled(w)
      BY <1>2 DEF GatePasses, WaitCancelled
  <1>3. CASE SleepEnds(w)
      BY <1>3 DEF SleepEnds
  <1>4. CASE AllowStep(w) \/ AcquireChecks(w)
      BY <1>4 DEF AllowStep, AcquireChecks
  <1>5. CASE AcquireAdmits(w)
      BY <1>5 DEF AcquireAdmits
  <1>6. CASE AcquireRefuses(w)
      BY <1>6 DEF AcquireRefuses
  <1>7. CASE PermitTaken(w) \/ PermitCancelled(w)
      BY <1>7 DEF PermitTaken, PermitCancelled
  <1>8. CASE LookupFails(w) \/ (\E ok \in BOOLEAN : DoEnds(w, ok)) \/ BackoffCancelled(w)
      BY <1>8 DEF LookupFails, DoEnds, BackoffCancelled
  <1>9. CASE DoRetries(w) \/ BackoffEnds(w)
      BY <1>9 DEF DoRetries, BackoffEnds
  <1>10. CASE Finish(w)
      BY <1>10 DEF Finish
  <1> QED
      BY <1>1, <1>2, <1>3, <1>4, <1>5, <1>6, <1>7, <1>8, <1>9, <1>10 DEF Proceed

(* The places between Allow and recordBreaker.                             *)
Under == {"check", "take", "permit", "do", "backoff"}

(* Every step of a worker keeps the probe of a half-open breaker: it moves *)
(* on, or its outcome is recorded, or the run is over.                     *)
LEMMA ProbeStep ==
    ASSUME WorkerInv, NEW w \in Workers, NEW t \in Targets \cup {NoTarget},
           NextDone(w) \/ NextStep(w, t) \/ Proceed(w)
    PROVE  ProbeNotLost'
  <1> USE DEF WorkerInv, TypeOK, Goto, env, hist
  <1>1. ASSUME brk' = brk, probes' = probes, cancelled' = cancelled, tripped => tripped',
               \A v \in Workers \ {w} : pc'[v] = pc[v] /\ target'[v] = target[v],
               \/ pc[w] \notin Under
               \/ pc'[w] \in Under /\ target'[w] = target[w]
               \/ cancelled \/ tripped'
        PROVE  ProbeNotLost'
    <2> SUFFICES ASSUME NEW u \in Targets, brk[u].state = "HalfOpen", ~cancelled, ~tripped'
                 PROVE  \E v \in probes' : target'[v] = u /\ pc'[v] \in Under
      BY <1>1 DEF ProbeNotLost, Under
    <2>1. PICK v \in probes : target[v] = u /\ pc[v] \in Under
      BY <1>1 DEF ProbeNotLost, Under
    <2> QED
      BY <1>1, <2>1
  <1>2. CASE NextDone(w) \/ NextStep(w, t) \/ GatePasses(w) \/ SleepEnds(w) \/ WaitCancelled(w)
      BY <1>1, <1>2 DEF NextDone, NextStep, GatePasses, SleepEnds, WaitCancelled, Under
  <1>3. CASE AcquireChecks(w) \/ AcquireAdmits(w) \/ PermitTaken(w) \/ PermitCancelled(w)
      BY <1>1, <1>3 DEF AcquireChecks, AcquireAdmits, PermitTaken, PermitCancelled, Under
  <1>4. CASE AcquireRefuses(w)
      BY <1>1, <1>4 DEF AcquireRefuses
  <1>5. CASE DoRetries(w) \/ BackoffEnds(w)
      BY <1>1, <1>5 DEF DoRetries, BackoffEnds, Under
  <1>6. CASE AllowStep(w)
    <2>1. target[w] \in Targets /\ brk[target[w]] \in BreakerType
      BY <1>6 DEF AllowStep, Targeted
    <2>2. CASE CooledDown(brk[target[w]])
      <3>1. /\ Admits(brk[target[w]]) /\ w \in probes' /\ probes \subseteq probes'
            /\ pc' = [pc EXCEPT ![w] = "check"] /\ pc[w] = "allow"
            /\ target' = target /\ cancelled' = cancelled /\ tripped' = tripped
            /\ \A u \in Targets : u # target[w] => brk'[u] = brk[u]
        BY <1>6, <2>1, <2>2, BreakerFacts DEF AllowStep
      <3> QED
        BY <3>1 DEF ProbeNotLost
    <2>3. CASE ~CooledDown(brk[target[w]])
      <3>1. brk' = brk /\ probes' = probes
        BY <1>6, <2>1, <2>3, BreakerFacts DEF AllowStep
      <3> QED
        BY <1>1, <1>6, <3>1 DEF AllowStep, Under
    <2> QED
      BY <2>2, <2>3
  <1>7. CASE LookupFails(w) \/ (\E ok \in BOOLEAN : DoEnds(w, ok)) \/ BackoffCancelled(w)
    <2>1. /\ \E ok \in BOOLEAN : recordBreaker(w, ok)
          /\ pc' = [pc EXCEPT ![w] = "release"]
          /\ UNCHANGED <<target, cancelled, tripped>>
          /\ target[w] \in Targets
      BY <1>7 DEF LookupFails, DoEnds, BackoffCancelled, Targeted
    <2>2. /\ brk'[target[w]].state # "HalfOpen"
          /\ \A u \in Targets : u # target[w] => brk'[u] = brk[u]
          /\ probes' = probes \ {w}
      BY <2>1, BreakerFacts DEF recordBreaker
    <2> QED
      BY <2>1, <2>2 DEF ProbeNotLost
  <1>8. CASE Finish(w)
      BY <1>8 DEF Finish, ProbeNotLost
  <1> QED
      BY <1>2, <1>3, <1>4, <1>5, <1>6, <1>7, <1>8 DEF Proceed

(* Every step keeps the invariant; pause, resume, the clock and the end of *)
(* the run touch no worker.                                                *)
LEMMA WorkerInvStep == WorkerInv /\ [Next]_vars => WorkerInv'
  <1> SUFFICES ASSUME WorkerInv, [Next]_vars PROVE WorkerInv'
      OBVIOUS
  <1> USE WorkerAssumption DEF env, hist, wvars
  <1>1. ASSUME NEW w \in Workers, NEW t \in Targets \cup {NoTarget},
               NextDone(w) \/ NextStep(w, t) \/ Proceed(w)
        PROVE  WorkerInv'
      BY <1>1, TypeStep, BalanceStep, PlaceStep, ProbeStep DEF WorkerInv
  <1>2. CASE Pause
      BY <1>2 DEF Pause, WorkerInv, TypeOK, PermitsBalanced, Targeted, BelowBackstop, ProbeNotLost,
         LatePast, StragglerPast
  <1>3. CASE Resume
      BY <1>3 DEF Resume, WorkerInv, TypeOK, PermitsBalanced, Targeted, BelowBackstop, ProbeNotLost,
         LatePast, StragglerPast
  <1>4. CASE Tick
    <2>1. brk' \in [Targets -> BreakerType] /\ \A u \in Targets : brk'[u].state = brk[u].state
      BY <1>4, BreakerFacts DEF Tick, WorkerInv, TypeOK
    <2> QED
      BY <1>4, <2>1 DEF Tick, WorkerInv, TypeOK, PermitsBalanced, Targeted, BelowBackstop,
         ProbeNotLost, LatePast, StragglerPast
  <1>5. CASE Cancel
      BY <1>5 DEF Cancel, WorkerInv, TypeOK, PermitsBalanced, Targeted, BelowBackstop, ProbeNotLost,
         LatePast, StragglerPast
  <1>6. CASE UNCHANGED vars
      BY <1>6 DEF vars, WorkerInv, TypeOK, PermitsBalanced, Targeted, BelowBackstop, ProbeNotLost,
         LatePast, StragglerPast
  <1> QED
      BY <1>1, <1>2, <1>3, <1>4, <1>5, <1>6 DEF Next

(* The inductive invariant of the worker loop.                             *)
THEOREM WorkerInvariant == Spec => []WorkerInv
  <1>1. Init => WorkerInv
    <2> SUFFICES ASSUME Init PROVE WorkerInv
      OBVIOUS
    <2>0. NewBreaker \in BreakerType
      BY BreakerAssumption DEF NewBreaker, BreakerType, BreakerStates
    <2>1. TypeOK
      <3>1. /\ pc \in [Workers -> Locations] /\ target \in [Workers -> Targets \cup {NoTarget}]
            /\ brk \in [Targets -> BreakerType] /\ probes \subseteq Workers
        BY <2>0 DEF Init, Locations
      <3>2. /\ attempt \in [Workers -> 0..MaxRetries]
            /\ actions \in [Workers -> 0..SessionMaxActions]
            /\ late \in [Workers -> Nat] /\ after \in [Workers -> Nat]
        BY WorkerAssumption DEF Init
      <3>3. held \in 0..Permits /\ pauses \in 0..MaxPauses /\ sent \in 0..Budget + 1
        BY WorkerAssumption DEF Init
      <3> QED
        BY <3>1, <3>2, <3>3, Zenon DEF Init, TypeOK
    <2>2. PermitsBalanced
      <3>1. {w \in Workers : pc[w] \in {"do", "backoff", "release"}} = {}
        BY DEF Init
      <3> QED
        BY <3>1, FS_EmptySet DEF Init, PermitsBalanced
    <2>3. Targeted /\ BelowBackstop /\ ProbeNotLost /\ LatePast /\ StragglerPast
      BY DEF Init, Targeted, BelowBackstop, ProbeNotLost, LatePast, StragglerPast, NewBreaker
    <2> QED
      BY <2>1, <2>2, <2>3 DEF WorkerInv
  <1> QED
      BY <1>1, WorkerInvStep, PTL DEF Spec

(* Permits balance for any number of workers and any limit: no path        *)
(* through runAction leaks one or returns one twice.                       *)
THEOREM PermitSafety == Spec => []PermitsBalanced
  <1>1. WorkerInv => PermitsBalanced
      BY DEF WorkerInv
  <1> QED
      BY <1>1, WorkerInvariant, PTL

(* No early return of runAction loses the probe of a half-open breaker in  *)
(* a live run.                                                             *)
THEOREM ProbeSafety == Spec => []ProbeNotLost
  <1>1. WorkerInv => ProbeNotLost
      BY DEF WorkerInv
  <1> QED
      BY <1>1, WorkerInvariant, PTL

(* A closed gate lets each worker begin at most one more action, and a     *)
(* tripped run admits each worker at most once more, however long it runs. *)
THEOREM QuiesceSafety == Spec => []PauseQuiesces /\ []TripAdmitsStragglers
  <1>1. WorkerInv => PauseQuiesces /\ TripAdmitsStragglers
      BY DEF WorkerInv, LatePast, StragglerPast, PauseQuiesces, TripAdmitsStragglers
  <1> QED
      BY <1>1, WorkerInvariant, PTL
=============================================================================
