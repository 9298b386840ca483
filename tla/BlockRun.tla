----------------------------- MODULE BlockRun ------------------------------
(***************************************************************************)
(* One block of a run on its clock: the scheduler that opens and closes    *)
(* the schedule's gate (runScheduler), the ramp governor that resizes the  *)
(* block's semaphore (runRampGovernor), and the vusers with their sessions *)
(* (internal/behavior: session, shaper, burst) and shared target selector  *)
(* (engine/selector.go).  What an action does after its wait is Worker's   *)
(* subject; here it takes one step.                                        *)
(*                                                                         *)
(* A goroutine may be late: between reading the clock and registering a    *)
(* sleep, and between being woken and going on, time may pass.  Jitter and *)
(* the time of day only scale a wait and are left out.                     *)
(***************************************************************************)
EXTENDS FakeClock, Schedule, Ramp, Persona

CONSTANTS MaxVUsers,   \* the vusers followed; a block has as many as its concurrency
          Steps,       \* by how much the clock is advanced at a time
          NoBlock

Sched == <<"scheduler", 0>>
Gov == <<"governor", 0>>
VUsers == {"vuser"} \X (1..MaxVUsers)

VARIABLES block, windows,       \* the scenario's
          cancelled,
          sched, readAt, planned, gate,
          gov, govStart, limit, patched,
          pos, rotatedAt,       \* the selector's cursor and lastRotate
          pc, plan, wait, burst, length, prior

schedVars == <<sched, readAt, planned, gate>>
rampVars == <<gov, govStart, limit, patched>>
selVars == <<pos, rotatedAt>>
vuserVars == <<pc, plan, wait, burst, length, prior>>
blockVars == <<clockVars, block, windows, cancelled, schedVars, rampVars, selVars, vuserVars>>

NoTarget == -1
Fresh == [started |-> FALSE, idle |-> FALSE, end |-> 0]

BlockInit ==
    /\ ClockInit
    /\ block = NoBlock /\ windows = <<>> /\ cancelled = FALSE
    /\ sched = "done" /\ readAt = 0 /\ planned = Never /\ gate = TRUE
    /\ gov = "left" /\ govStart = 0 /\ limit = 0 /\ patched = FALSE
    /\ pos = 0 /\ rotatedAt = 0
    /\ pc = [v \in VUsers |-> "done"] /\ plan = [v \in VUsers |-> NoTarget]
    /\ wait = [v \in VUsers |-> 0] /\ burst = [v \in VUsers |-> Fresh]
    /\ length = [v \in VUsers |-> 0] /\ prior = [v \in VUsers |-> "none"]

(* startBlock, newSelectorFor, buildSession and NewSession: the vusers,    *)
(* whose length is drawn once, the governor, and the scheduler if there is *)
(* a window.                                                               *)
Launch(b, ws) ==
    /\ block = NoBlock /\ block' = b /\ windows' = ws
    /\ limit' = InitialLimit(b.ramp, b.concurrency) /\ gov' = "start"
    /\ sched' = IF ws = <<>> THEN "done" ELSE "read"
    /\ pos' = 0 /\ rotatedAt' = now
    /\ pc' = [v \in VUsers |-> IF v[2] <= b.concurrency THEN "next" ELSE "done"]
    /\ length' \in [VUsers -> IF b.persona.length.kind = "" THEN {0} ELSE Samples(b.persona.length)]
    /\ UNCHANGED <<clockVars, cancelled, readAt, planned, gate, govStart, patched, plan, wait, burst, prior>>

-----------------------------------------------------------------------------
(* runScheduler: read the clock ...                                        *)
SchedRead ==
    /\ sched = "read" \/ (sched = "asleep" /\ Sched \in fired)
    /\ sched' = "set" /\ readAt' = now
    /\ DropWaiter(Sched)
    /\ UNCHANGED <<block, windows, cancelled, planned, gate, rampVars, selVars, vuserVars>>

(* ... set the gate by what was read, and sleep until the next transition. *)
SchedSleep ==
    /\ sched = "set"
    /\ gate' = Active(windows, readAt)
    /\ planned' = NextTransition(windows, readAt)
    /\ \/ planned' = Never /\ sched' = "done" /\ UNCHANGED clockVars
       \/ planned' # Never /\ sched' = "asleep" /\ AddWaiter(Sched, planned' - readAt)
    /\ UNCHANGED <<block, windows, cancelled, readAt, rampVars, selVars, vuserVars>>

(* runRampGovernor: nothing to do without a ramp, else a tick a second.    *)
GovStart ==
    /\ gov = "start" /\ govStart' = now
    /\ \/ block.ramp.up <= 0 /\ gov' = "arrived" /\ UNCHANGED clockVars
       \/ block.ramp.up > 0 /\ gov' = "waiting" /\ AddWaiter(Gov, 1)
    /\ UNCHANGED <<block, windows, cancelled, schedVars, limit, patched, selVars, vuserVars>>

GovTick ==
    /\ gov = "waiting" /\ Gov \in fired
    /\ limit' = ConcurrencyAt(block.ramp, block.concurrency, now - govStart)
    /\ \/ now - govStart >= block.ramp.up /\ gov' = "arrived" /\ DropWaiter(Gov)
       \/ now - govStart < block.ramp.up /\ UNCHANGED gov /\ AddWaiter(Gov, 1)
    /\ UNCHANGED <<block, windows, cancelled, schedVars, govStart, patched, selVars, vuserVars>>

(* A live patch of the concurrency (Patch has the whole of it), once.      *)
PatchLimit(n) ==
    /\ block # NoBlock /\ ~patched /\ patched' = TRUE
    /\ limit' = n
    /\ UNCHANGED <<clockVars, block, windows, cancelled, schedVars, gov, govStart, selVars, vuserVars>>

-----------------------------------------------------------------------------
(* rotatingSelector.maybeRotate                                            *)
Due == block.interval > 0 /\ now - rotatedAt >= block.interval
Rotations == IF ~Due THEN {pos}
             ELSE IF block.random THEN 0..(block.targets - 1)
             ELSE {(pos + 1) % block.targets}

(* Mutant: the trough is entered and its wait forgotten.                   *)
PhaseNoWait(b, d) ==
    IF ~b.started THEN [b |-> [started |-> TRUE, idle |-> FALSE, end |-> now + d.active], idle |-> FALSE, for |-> 0]
    ELSE IF now < b.end THEN [b |-> b, idle |-> FALSE, for |-> 0]
    ELSE IF b.idle THEN [b |-> [b EXCEPT !.idle = FALSE, !.end = now + d.active], idle |-> FALSE, for |-> 0]
    ELSE [b |-> [b EXCEPT !.idle = TRUE, !.end = now + d.idle], idle |-> TRUE, for |-> 0]

(* RenewalBurst.Phase with the dwells it would draw; AlwaysActive when the *)
(* persona has no burst.                                                   *)
Phase(b, d) ==
    IF ~b.started THEN [b |-> [started |-> TRUE, idle |-> FALSE, end |-> now + d.active], idle |-> FALSE, for |-> 0]
    ELSE IF now < b.end THEN [b |-> b, idle |-> FALSE, for |-> 0]
    ELSE IF b.idle THEN [b |-> [b EXCEPT !.idle = FALSE, !.end = now + d.active], idle |-> FALSE, for |-> 0]
    ELSE [b |-> [b EXCEPT !.idle = TRUE, !.end = now + d.idle], idle |-> TRUE, for |-> d.idle]

Dwells == [active : Samples(block.persona.burst.active), idle : Samples(block.persona.burst.idle)]
Bursty == block.persona.burst.active.kind # ""

(* applyPriorReaction                                                      *)
Reaction(w, p) == CASE p = "failed" -> 2 * w [] p = "slow" -> (3 * w) \div 2 [] OTHER -> w

(* A step of the session: its wait, and the action's target if it has one. *)
Decide(v, w, target) ==
    /\ pc' = [pc EXCEPT ![v] = "gate"]
    /\ wait' = [wait EXCEPT ![v] = w] /\ plan' = [plan EXCEPT ![v] = target]

(* chainShaper.Shape and the rest of session.Next for a targeted template. *)
Shape(v, cause) ==
    \/ cause \in {"control", "sub-resource"} /\ Decide(v, 0, pos') /\ UNCHANGED burst
    \/ /\ cause \notin {"control", "sub-resource"}
       /\ \E d \in (IF Bursty THEN Dwells ELSE {[active |-> 0, idle |-> 0]}),
             t \in Samples(block.persona.think_time) :
            LET ph == IF Bursty THEN Phase(burst[v], d) ELSE [b |-> burst[v], idle |-> FALSE, for |-> 0] IN
            /\ burst' = [burst EXCEPT ![v] = ph.b]
            /\ IF ph.idle THEN Decide(v, ph.for, NoTarget)
                          ELSE Decide(v, Reaction(t, prior[v]), pos')

(* session.Next: the session is over, and the worker returns ...           *)
NextDone(v) ==
    /\ pc[v] = "next"
    /\ (length[v] > 0 /\ now >= length[v]) \/ block.persona.abandon > 0
    /\ pc' = [pc EXCEPT ![v] = "done"]
    /\ UNCHANGED <<clockVars, block, windows, cancelled, schedVars, rampVars, selVars, plan, wait, burst, length, prior>>

(* ... or a template is drawn: one of another protocol than the block's    *)
(* has no target and is skipped without a wait.                            *)
NextStep(v, i) ==
    LET t == block.persona.mix[i] IN
    /\ pc[v] = "next" /\ ~(length[v] > 0 /\ now >= length[v])
    /\ block.persona.abandon < 100
    /\ \/ /\ t.protocol # block.protocol
          /\ Decide(v, 0, NoTarget) /\ UNCHANGED <<selVars, burst>>
       \/ /\ t.protocol = block.protocol
          /\ pos' \in Rotations
          /\ rotatedAt' = IF Due THEN now ELSE rotatedAt
          /\ Shape(v, t.cause)
    /\ UNCHANGED <<clockVars, block, windows, cancelled, schedVars, rampVars, length, prior>>

(* runWorker: gate.wait, then the sleep.                                   *)
PassGate(v) ==
    /\ pc[v] = "gate" /\ gate
    /\ pc' = [pc EXCEPT ![v] = "asleep"]
    /\ AddWaiter(v, wait[v])
    /\ UNCHANGED <<block, windows, cancelled, schedVars, rampVars, selVars, plan, wait, burst, length, prior>>

Wake(v) ==
    /\ pc[v] = "asleep" /\ v \in fired
    /\ pc' = [pc EXCEPT ![v] = IF plan[v] = NoTarget THEN "next" ELSE "act"]
    /\ wait' = [wait EXCEPT ![v] = 0]
    /\ DropWaiter(v)
    /\ UNCHANGED <<block, windows, cancelled, schedVars, rampVars, selVars, plan, burst, length, prior>>

(* runAction returns and Observe keeps its outcome.                        *)
Act(v, outcome) ==
    /\ pc[v] = "act"
    /\ pc' = [pc EXCEPT ![v] = "next"] /\ plan' = [plan EXCEPT ![v] = NoTarget]
    /\ prior' = [prior EXCEPT ![v] = outcome]
    /\ UNCHANGED <<clockVars, block, windows, cancelled, schedVars, rampVars, selVars, wait, burst, length>>

-----------------------------------------------------------------------------
CancelBlock ==
    /\ block # NoBlock /\ ~cancelled /\ cancelled' = TRUE
    /\ UNCHANGED <<clockVars, block, windows, schedVars, rampVars, selVars, vuserVars>>

(* ctx.Done, at each place where a goroutine waits or asks for the context.*)
SchedLeave ==
    /\ cancelled /\ sched = "asleep" /\ sched' = "done" /\ DropWaiter(Sched)
    /\ UNCHANGED <<block, windows, cancelled, readAt, planned, gate, rampVars, selVars, vuserVars>>

GovLeave ==
    /\ cancelled /\ gov = "waiting" /\ gov' = "left" /\ DropWaiter(Gov)
    /\ UNCHANGED <<block, windows, cancelled, schedVars, govStart, limit, patched, selVars, vuserVars>>

VUserLeave(v) ==
    /\ cancelled /\ pc[v] \in {"next", "gate", "asleep"}
    /\ pc' = [pc EXCEPT ![v] = "done"] /\ DropWaiter(v)
    /\ UNCHANGED <<block, windows, cancelled, schedVars, rampVars, selVars, plan, wait, burst, length, prior>>

BlockNext ==
    \/ SchedRead \/ SchedSleep \/ SchedLeave
    \/ GovStart \/ GovTick \/ GovLeave
    \/ block # NoBlock /\ \E n \in 1..block.concurrency : PatchLimit(n)
    \/ \E v \in VUsers :
         \/ NextDone(v) \/ PassGate(v) \/ Wake(v) \/ VUserLeave(v)
         \/ block # NoBlock /\ \E i \in DOMAIN block.persona.mix : NextStep(v, i)
         \/ \E o \in {"ok", "failed", "slow"} : Act(v, o)
    \/ CancelBlock
    \/ block # NoBlock /\ \E d \in Steps : Advance(d)
         /\ UNCHANGED <<block, windows, cancelled, schedVars, rampVars, selVars, vuserVars>>
-----------------------------------------------------------------------------
(* runScheduler "pauses/resumes the schedule gate source on each           *)
(* active<->inactive edge" (run.go): while it sleeps towards the           *)
(* transition it planned, and if it gave up because it found none, the     *)
(* gate is what the schedule says now.                                     *)
GateFollowsSchedule ==
    \/ sched = "asleep" /\ now < planned
    \/ sched = "done" /\ ~cancelled /\ windows # <<>>
    => gate = Active(windows, now)

(* Left alone, the governor only ever raises the limit, late as its ticks  *)
(* may be, and ends with the block's concurrency.                          *)
RampClimbs ==
    [][block # NoBlock /\ ~patched' =>
          limit' >= limit /\ (gov' = "arrived" => limit' = block.concurrency)]_blockVars

(* BurstPhase: a vuser that enters a trough performs no action until the   *)
(* trough has passed, whatever pauses and delays come in between.          *)
TroughQuiet ==
    \A v \in VUsers : pc[v] = "act" => ~(burst[v].idle /\ now < burst[v].end)

(* "the whole block moves together" (selector.go): an action goes to the   *)
(* target the block is on.                                                 *)
BlockMovesTogether == \A v \in VUsers : pc[v] = "act" => plan[v] = pos

(* "session complete -> engine recycles the vuser" (session.go): while the *)
(* run goes on a vuser whose session is over goes on too.                  *)
VUserRecycled == \A v \in VUsers :
    block # NoBlock /\ ~cancelled /\ v[2] <= block.concurrency => pc[v] # "done"

(* A patched limit stays: refuted at the governor's next tick.             *)
PatchLasts == [][patched /\ ~cancelled => limit' = limit]_blockVars
=============================================================================
