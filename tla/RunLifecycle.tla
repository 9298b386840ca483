---------------------------- MODULE RunLifecycle ----------------------------
(***************************************************************************)
(* The life of one engine run: internal/engine/state.go and the lifecycle  *)
(* half of internal/engine/run.go, with awaitRun of cmd/phantom/run.go as  *)
(* one of its callers.                                                     *)
(*                                                                         *)
(* Concurrent actors: the goroutines that call Pause, Resume and Stop; the *)
(* duration timer of every block; the scheduler; the complete() goroutine  *)
(* the last timer starts; and the workers, which for the lifecycle only    *)
(* run until they return (the ramp governors and the stats collector are   *)
(* workers here).  Pause and Resume change the state and then, in a second *)
(* step, the gate.  The gate is the atomic one of GateSpec, which module   *)
(* Gate shows gate.go to implement.                                        *)
(***************************************************************************)
EXTENDS Naturals, Sequences, FiniteSets

CONSTANTS Callers,     \* goroutines calling Pause / Resume / Stop
          Main,        \* the phantom run command, if it is one of Callers
          Blocks,      \* scenario blocks, each with its duration timer
          Workers,     \* every other goroutine counted by r.wg
          Stuck,       \* goroutines that do not return when cancelled
          Duration,    \* Duration[b]: block b's Duration, in ticks
          Events,      \* what the environment does: see AllEvents
          MaxCalls,    \* bound on Pause / Resume / Stop calls
          MaxEdges,    \* bound on schedule edges; 0: no schedule windows
          MaxReopens,  \* bound on generations of the gate's channel
          MaxTicks,    \* where the openTicks history variable saturates
          NoChan       \* a block timer that holds no gate channel

AllEvents == {"Pause", "Resume", "Stop", "StopCtx", "ParentCancel", "AuditFail"}

Operator == "operator"
Schedule == "schedule"
Sources == {Operator, Schedule}

ASSUME RunAssumption ==
    /\ Blocks # {} /\ IsFiniteSet(Blocks)
    /\ Blocks \cap Workers = {}
    /\ Stuck \subseteq Workers \cup Blocks
    /\ Duration \in [Blocks -> Nat \ {0}]
    /\ Events \subseteq AllEvents
    /\ MaxCalls \in Nat /\ MaxEdges \in Nat /\ MaxReopens \in Nat
    /\ MaxTicks \in Nat /\ \A b \in Blocks : Duration[b] <= MaxTicks
    /\ NoChan \notin Nat

VARIABLES state,       \* Run.state
          log,         \* destination states of the recorded audit events, in order
          lost,        \* history: an audit event was not recorded
          paused, gen, seen,  \* the gate: see GateSpec
          cancelled,   \* runCtx is done
          elapsed,     \* runBlockDuration's elapsed, per block
          seg,         \* time since segStart, per block
          bpc,         \* where each block timer is
          running,     \* workers that have not returned
          edges,       \* schedule edges applied so far
          scheduling,  \* the scheduler goroutine has not returned
          blocksLeft,  \* Run.blocksLeft
          cpc,         \* where the complete() goroutine is
          pc,          \* where each caller is
          result,      \* outcome of each caller's last call
          calls,       \* calls made so far
          runErr,      \* Run.err
          done,        \* Run.done is closed
          openTicks    \* history: time the gate was open

gateVars == <<paused, gen, seen>>
blockVars == <<elapsed, seg, bpc, blocksLeft>>
callVars == <<pc, result, calls>>
schedVars == <<edges, scheduling>>
vars == <<state, log, lost, paused, gen, seen, cancelled, elapsed, seg, bpc, running, edges,
          scheduling, blocksLeft, cpc, pc, result, calls, runErr, done, openTicks>>

G == INSTANCE GateSpec WITH Clients <- Blocks

States == {"Idle", "Running", "Paused", "Stopping", "Stopped", "Completing", "Completed"}

legalTransitions ==
    [s \in States |->
        CASE s = "Idle"       -> {"Running"}
          [] s = "Running"    -> {"Paused", "Stopping", "Completing"}
          [] s = "Paused"     -> {"Running", "Stopping"}
          [] s = "Stopping"   -> {"Stopped"}
          [] s = "Completing" -> {"Completed"}
          [] OTHER            -> {}]

(* auditActionFor: the destinations whose entry is audited.                *)
Audited == {"Running", "Stopping", "Stopped", "Completed"}

TypeOK == /\ state \in States
          /\ log \in Seq(Audited)
          /\ lost \in BOOLEAN
          /\ paused \in [Sources -> BOOLEAN]
          /\ gen \in 0..MaxReopens
          /\ seen \in [Blocks -> (0..MaxReopens) \cup {NoChan}]
          /\ cancelled \in BOOLEAN
          /\ elapsed \in [Blocks -> Nat]
          /\ seg \in [Blocks -> Nat]
          /\ bpc \in [Blocks -> {"unborn", "wait", "select", "expired", "exited"}]
          /\ running \subseteq Workers
          /\ edges \in 0..MaxEdges
          /\ scheduling \in BOOLEAN
          /\ blocksLeft \in 0..Cardinality(Blocks)
          /\ cpc \in {"none", "spawned", "cancel", "drain", "signal", "returned"}
          /\ pc \in [Callers -> {"idle", "pausing", "resuming", "cancel", "drain", "final",
                                 "signal", "reread", "awaitDone", "exit"}]
          /\ result \in [Callers -> {"none", "ok", "error"}]
          /\ calls \in 0..MaxCalls
          /\ runErr \in {"none", "grace", "ctx"}
          /\ done \in BOOLEAN
          /\ openTicks \in 0..MaxTicks

(* r.wg.Wait() returns: every goroutine counted by r.wg has returned.      *)
Drained == /\ running = {}
           /\ ~scheduling
           /\ \A b \in Blocks : bpc[b] \in {"expired", "exited"}

-----------------------------------------------------------------------------
(* The audit event of a transition.  The error of Append is discarded, and *)
(* there may be no sink at all: the run goes on without a record.          *)
AppendEvent(to) ==
    \/ to \notin Audited /\ UNCHANGED <<log, lost>>
    \/ to \in Audited /\ log' = Append(log, to) /\ UNCHANGED lost
    \/ to \in Audited /\ "AuditFail" \in Events /\ lost' = TRUE /\ UNCHANGED log

(* Mutant: the audit event is appended before the transition is checked.   *)
transitionToAuditFirst(to) ==
    /\ state' = IF to \in legalTransitions[state] THEN to ELSE state
    /\ AppendEvent(to)

(* transitionTo, under transMu: an illegal transition changes nothing and  *)
(* is an error the caller sees as Legal(to) = FALSE.                       *)
transitionTo(to) ==
    IF to \in legalTransitions[state]
    THEN state' = to /\ AppendEvent(to)
    ELSE UNCHANGED <<state, log, lost>>

Legal(to) == to \in legalTransitions[state]

Init == /\ state = "Idle"
        /\ log = <<>>
        /\ lost = FALSE
        /\ G!GateInit
        /\ cancelled = FALSE
        /\ elapsed = [b \in Blocks |-> 0]
        /\ seg = [b \in Blocks |-> 0]
        /\ bpc = [b \in Blocks |-> "unborn"]
        /\ running = {}
        /\ edges = 0
        /\ scheduling = FALSE
        /\ blocksLeft = 0
        /\ cpc = "none"
        /\ pc = [c \in Callers |-> "idle"]
        /\ result = [c \in Callers |-> "none"]
        /\ calls = 0
        /\ runErr = "none"
        /\ done = FALSE
        /\ openTicks = 0

(* Engine.Start and startSupervisor: every goroutine is spawned before     *)
(* Start hands the run to its callers.                                     *)
Start == /\ state = "Idle"
         /\ transitionTo("Running")
         /\ bpc' = [b \in Blocks |-> "wait"]
         /\ blocksLeft' = Cardinality(Blocks)
         /\ running' = Workers
         /\ scheduling' = (MaxEdges > 0)
         /\ UNCHANGED <<gateVars, cancelled, elapsed, seg, edges, cpc, callVars, runErr, done,
                        openTicks>>

-----------------------------------------------------------------------------
(* runBlockDuration.  The gate is open: take its channel, start a timer    *)
(* for the remaining duration.                                             *)
BlockEnter(b) ==
    /\ bpc[b] = "wait"
    /\ ~cancelled
    /\ G!Enter(b)
    /\ seg' = [seg EXCEPT ![b] = 0]
    /\ bpc' = [bpc EXCEPT ![b] = "select"]
    /\ UNCHANGED <<state, log, lost, cancelled, elapsed, running, schedVars, blocksLeft, cpc,
                   callVars, runErr, done, openTicks>>

(* The loop ends: one block less, and the last one starts complete().      *)
BlockExpires(b) ==
    /\ bpc' = [bpc EXCEPT ![b] = "expired"]
    /\ blocksLeft' = blocksLeft - 1
    /\ cpc' = IF blocksLeft' = 0 THEN "spawned" ELSE cpc

(* The select ends with elapsed = e: the loop goes round, or is over.      *)
BlockSegmentEnds(b, e) ==
    /\ bpc[b] = "select"
    /\ elapsed' = [elapsed EXCEPT ![b] = e]
    /\ seg' = [seg EXCEPT ![b] = 0]
    /\ G!Leave(b)
    /\ IF e < Duration[b]
       THEN bpc' = [bpc EXCEPT ![b] = "wait"] /\ UNCHANGED <<blocksLeft, cpc>>
       ELSE BlockExpires(b)
    /\ UNCHANGED <<state, log, lost, cancelled, running, schedVars, callVars, runErr, done,
                   openTicks>>

(* case <-closedCh: bank the active segment.                               *)
BlockGateCloses(b) ==
    bpc[b] = "select" /\ G!ChanClosed(seen[b]) /\ BlockSegmentEnds(b, elapsed[b] + seg[b])

(* Mutant: the time banked before the segment is counted twice.            *)
BlockTimerEarly(b) == seg[b] + 2 * elapsed[b] >= Duration[b] /\ BlockSegmentEnds(b, Duration[b])

(* case <-timer.C(): the remaining duration has passed.                    *)
BlockTimer(b) == seg[b] >= Duration[b] - elapsed[b] /\ BlockSegmentEnds(b, Duration[b])

(* ctx is done, in the select or inside waitOpenAndGetCloseCh: return      *)
(* without counting the block as finished.                                 *)
BlockCancelled(b) ==
    /\ bpc[b] \in {"wait", "select"}
    /\ cancelled
    /\ bpc' = [bpc EXCEPT ![b] = "exited"]
    /\ G!Leave(b)
    /\ UNCHANGED <<state, log, lost, cancelled, elapsed, seg, running, schedVars, blocksLeft, cpc,
                   callVars, runErr, done, openTicks>>

(* A worker returns: its session is over, or the context is done.          *)
WorkerReturns(w) ==
    /\ w \in running
    /\ running' = running \ {w}
    /\ UNCHANGED <<state, log, lost, gateVars, cancelled, blockVars, schedVars, cpc, callVars,
                   runErr, done, openTicks>>

(* runScheduler: one edge of the schedule; it returns when the context is  *)
(* done or no edge is left.                                                *)
SchedulerEdge ==
    /\ scheduling
    /\ edges < MaxEdges
    /\ edges' = edges + 1
    /\ IF paused[Schedule] THEN G!Resume(Schedule) ELSE G!Pause(Schedule)
    /\ UNCHANGED <<state, log, lost, cancelled, blockVars, running, scheduling, cpc, callVars,
                   runErr, done, openTicks>>

SchedulerReturns ==
    /\ scheduling
    /\ cancelled \/ edges = MaxEdges
    /\ scheduling' = FALSE
    /\ UNCHANGED <<state, log, lost, gateVars, cancelled, blockVars, running, edges, cpc, callVars,
                   runErr, done, openTicks>>

(* Time passes.  A block timer reacts to a gate closing before the clock   *)
(* moves on: what it counts is exact to one tick.  Closed time is seen by  *)
(* nobody, so only open time is modelled.                                  *)
Tick == /\ state # "Idle"
        /\ G!Open
        /\ \A b \in Blocks : bpc[b] = "select" => ~G!ChanClosed(seen[b])
        /\ seg' = [b \in Blocks |-> IF bpc[b] = "select" /\ seg[b] < Duration[b]
                                    THEN seg[b] + 1 ELSE seg[b]]
        /\ openTicks' = IF openTicks < MaxTicks THEN openTicks + 1 ELSE openTicks
        /\ UNCHANGED <<state, log, lost, gateVars, cancelled, elapsed, bpc, running, schedVars,
                       blocksLeft, cpc, callVars, runErr, done>>

-----------------------------------------------------------------------------
others == <<gateVars, blockVars, running, schedVars, callVars, runErr, openTicks>>

(* complete(), in its own goroutine: Completing, cancel, wait for everyone *)
(* with no time limit, Completed, close done.  If the run is not Running   *)
(* when it starts, complete returns and nothing calls it again.            *)
CompleteBegins ==
    /\ cpc = "spawned"
    /\ transitionTo("Completing")
    /\ cpc' = IF Legal("Completing") THEN "cancel" ELSE "returned"
    /\ UNCHANGED <<cancelled, done, others>>

CompleteCancels ==
    /\ cpc = "cancel"
    /\ cancelled' = TRUE
    /\ cpc' = "drain"
    /\ UNCHANGED <<state, log, lost, done, others>>

(* The terminal transition; without the wait for everyone, a mutant.       *)
CompleteHastily ==
    /\ cpc = "drain"
    /\ transitionTo("Completed")
    /\ cpc' = "signal"
    /\ UNCHANGED <<cancelled, done, others>>

CompleteDrained == Drained /\ CompleteHastily

(* Mutant: complete does not close done.                                   *)
CompleteSilent ==
    /\ cpc = "signal"
    /\ cpc' = "returned"
    /\ UNCHANGED <<state, log, lost, cancelled, done, others>>

CompleteSignals ==
    /\ cpc = "signal"
    /\ done' = TRUE
    /\ cpc' = "returned"
    /\ UNCHANGED <<state, log, lost, cancelled, others>>

-----------------------------------------------------------------------------
(* A caller's call begins / ends.  The phantom run command ends with its   *)
(* one Stop.                                                               *)
Begin(c, e) == /\ e \in Events
               /\ state # "Idle"
               /\ pc[c] = "idle"
               /\ calls < MaxCalls
               /\ calls' = calls + 1

Goto(c, l) == pc' = [pc EXCEPT ![c] = l] /\ result' = [result EXCEPT ![c] = "none"]

Return(c, r) == /\ pc' = [pc EXCEPT ![c] = IF c = Main THEN "exit" ELSE "idle"]
                /\ result' = [result EXCEPT ![c] = r]

rest == <<blockVars, running, schedVars, cpc, openTicks>>

Pause(c) ==
    /\ c # Main
    /\ Begin(c, "Pause")
    /\ transitionTo("Paused")
    /\ IF Legal("Paused") THEN Goto(c, "pausing") ELSE Return(c, "error")
    /\ UNCHANGED <<gateVars, cancelled, runErr, done, rest>>

PauseGate(c) ==
    /\ pc[c] = "pausing"
    /\ G!Pause(Operator)
    /\ Return(c, "ok")
    /\ UNCHANGED <<state, log, lost, cancelled, calls, runErr, done, rest>>

Resume(c) ==
    /\ c # Main
    /\ Begin(c, "Resume")
    /\ transitionTo("Running")
    /\ IF Legal("Running") THEN Goto(c, "resuming") ELSE Return(c, "error")
    /\ UNCHANGED <<gateVars, cancelled, runErr, done, rest>>

ResumeGate(c) ==
    /\ pc[c] = "resuming"
    /\ G!Resume(Operator)
    /\ Return(c, "ok")
    /\ UNCHANGED <<state, log, lost, cancelled, calls, runErr, done, rest>>

(* Mutant: Stop goes on whether or not its transition was legal.           *)
StopUnchecked(c) ==
    /\ Begin(c, "Stop")
    /\ transitionTo("Stopping")
    /\ Goto(c, "cancel")
    /\ UNCHANGED <<gateVars, cancelled, runErr, done, rest>>

(* Stop: the winner of the transition drives the run down; any other call  *)
(* looks at the state again and waits for done, or fails.                  *)
Stop(c) ==
    /\ Begin(c, "Stop")
    /\ transitionTo("Stopping")
    /\ Goto(c, IF Legal("Stopping") THEN "cancel" ELSE "reread")
    /\ UNCHANGED <<gateVars, cancelled, runErr, done, rest>>

StopReread(c) ==
    /\ pc[c] = "reread"
    /\ IF state \in {"Stopped", "Completed", "Completing"}
       THEN Goto(c, "awaitDone") ELSE Return(c, "error")
    /\ UNCHANGED <<state, log, lost, gateVars, cancelled, calls, runErr, done, rest>>

StopAwaitsDone(c) ==
    /\ pc[c] = "awaitDone"
    /\ done
    /\ Return(c, "ok")
    /\ UNCHANGED <<state, log, lost, gateVars, cancelled, calls, runErr, done, rest>>

StopCancels(c) ==
    /\ pc[c] = "cancel"
    /\ cancelled' = TRUE
    /\ Goto(c, "drain")
    /\ UNCHANGED <<state, log, lost, gateVars, calls, runErr, done, rest>>

setErr(e) == runErr' = IF runErr = "none" THEN e ELSE runErr

(* The three ways out of Stop's select.                                    *)
StopLeavesSelect(c) ==
    /\ pc[c] = "drain"
    /\ Goto(c, "final")
    /\ UNCHANGED <<state, log, lost, gateVars, cancelled, calls, done, rest>>

StopDrained(c) == Drained /\ StopLeavesSelect(c) /\ UNCHANGED runErr

(* Mutant: the grace deadline is never armed.                              *)
StopGraceMissing(c) == FALSE /\ UNCHANGED vars

StopGrace(c) == StopLeavesSelect(c) /\ setErr("grace")

StopCtxDone(c) == "StopCtx" \in Events /\ StopLeavesSelect(c) /\ setErr("ctx")

StopFinal(c) ==
    /\ pc[c] = "final"
    /\ transitionTo("Stopped")
    /\ Goto(c, "signal")
    /\ UNCHANGED <<gateVars, cancelled, calls, runErr, done, rest>>

StopSignals(c) ==
    /\ pc[c] = "signal"
    /\ done' = TRUE
    /\ Return(c, "ok")
    /\ UNCHANGED <<state, log, lost, gateVars, cancelled, calls, runErr, rest>>

(* awaitRun sees done: the command ends.  Its other two branches, the      *)
(* --duration limit and a signal, call Stop.                               *)
awaitRun ==
    /\ Main \in Callers
    /\ pc[Main] = "idle"
    /\ done
    /\ pc' = [pc EXCEPT ![Main] = "exit"]
    /\ UNCHANGED <<state, log, lost, gateVars, cancelled, result, calls, runErr, done, rest>>

(* The context given to Engine.Start is cancelled by its owner.            *)
ParentCancel ==
    /\ "ParentCancel" \in Events
    /\ state # "Idle"
    /\ ~cancelled
    /\ cancelled' = TRUE
    /\ UNCHANGED <<state, log, lost, gateVars, callVars, runErr, done, rest>>

-----------------------------------------------------------------------------
BlockStep(b) == BlockEnter(b) \/ BlockGateCloses(b) \/ BlockTimer(b) \/ BlockCancelled(b)

CompleteStep == CompleteBegins \/ CompleteCancels \/ CompleteDrained \/ CompleteSignals

(* The steps of a call that has begun.                                     *)
CallStep(c) == \/ PauseGate(c) \/ ResumeGate(c)
               \/ StopReread(c) \/ StopAwaitsDone(c)
               \/ StopCancels(c) \/ StopDrained(c) \/ StopGrace(c)
               \/ StopFinal(c) \/ StopSignals(c)

Next == \/ Start
        \/ \E b \in Blocks : BlockStep(b)
        \/ \E w \in Workers : WorkerReturns(w)
        \/ SchedulerEdge \/ SchedulerReturns
        \/ Tick
        \/ CompleteStep
        \/ \E c \in Callers : \/ Pause(c) \/ Resume(c) \/ Stop(c)
                              \/ CallStep(c) \/ StopCtxDone(c)
        \/ awaitRun
        \/ ParentCancel

Spec == Init /\ [][Next]_vars

(* Every goroutine that can run does (the Go scheduler), time passes, the  *)
(* schedule's edges come, and timers fire; a worker or block timer returns *)
(* once cancelled unless it is Stuck (a handler that ignores its context,  *)
(* or a waiter that lost its wake-up: Gate, CancelReleases).  Nobody has   *)
(* to call Pause, Resume or Stop.                                          *)
Fairness == /\ WF_vars(Start)
            /\ \A b \in Blocks : /\ WF_vars(BlockEnter(b) \/ BlockGateCloses(b) \/ BlockTimer(b))
                                 /\ b \notin Stuck => WF_vars(BlockCancelled(b))
            /\ \A w \in Workers \ Stuck : WF_vars(cancelled /\ WorkerReturns(w))
            /\ WF_vars(SchedulerEdge) /\ WF_vars(SchedulerReturns)
            /\ WF_vars(Tick)
            /\ WF_vars(CompleteStep)
            /\ \A c \in Callers : WF_vars(CallStep(c))
            /\ WF_vars(awaitRun)

FairSpec == Spec /\ Fairness

-----------------------------------------------------------------------------
Terminal == {"Stopped", "Completed"}

(* Wait's channel is closed only in a terminal state, and the callers it   *)
(* wakes see a state that will not change any more.                        *)
DoneIsTerminal == done => state \in Terminal

(* A run that ends with no error recorded has ended: every worker, block   *)
(* timer and the scheduler has returned.  Only the grace deadline and the  *)
(* Stop context may leave a goroutine behind, and both set Run.err first.  *)
CleanEndIsDrained == state \in Terminal /\ runErr = "none" => Drained

(* The natural end of a run means what it says: every block was active for *)
(* its whole Duration, with time under either pause source not counted,    *)
(* whatever the pauses, schedule edges and their overlap.                  *)
CompletionIsEarned ==
    state \in {"Completing", "Completed"} =>
        \A b \in Blocks : bpc[b] = "expired" /\ openTicks >= Duration[b]

(* Stop and complete exclude each other: of the concurrent callers and the *)
(* complete() goroutine at most one ever drives the run down, so the       *)
(* context is cancelled and the terminal state written by one of them.     *)
Drivers == {c \in Callers : pc[c] \in {"cancel", "drain", "final", "signal"}}
OneDriver ==
    /\ Cardinality(Drivers) <= 1
    /\ Drivers # {} => cpc \notin {"cancel", "drain", "signal"} /\ state \in {"Stopping", "Stopped"}
    /\ cpc \in {"cancel", "drain"} => state = "Completing"

(* Where a run may be after an audited state: nothing follows a terminal   *)
(* one, and only Stopped follows Stopping.                                 *)
After(s, t) == s = "Running" \/ (s = "Stopping" /\ t = "Stopped")

(* The audit trail never lies, even with records missing after a failed    *)
(* Append: the run has not left a terminal state, or Stopping except for   *)
(* Stopped, once the trail says it was entered.  As long as no record was  *)
(* lost, the trail tells the state: its last entry is the last audited     *)
(* state entered.                                                          *)
AuditTellsState ==
    LET last == log[Len(log)]
    IN /\ \A i \in 1..(Len(log) - 1) : After(log[i], log[i + 1])
       /\ log # <<>> => state # "Idle" /\ (state = last \/ After(last, state))
       /\ ~lost /\ state # "Idle" =>
              /\ log # <<>> /\ log[1] = "Running"
              /\ last = IF state \in Audited THEN state ELSE "Running"

(* Stop is bounded by GraceTimeout: a caller that takes the run into       *)
(* Stopping returns, with the run Stopped and done closed, even when a     *)
(* goroutine never comes back.                                             *)
StopEnds == \A c \in Callers : pc[c] = "cancel" ~> (state = "Stopped" /\ done /\ pc[c] # "signal")

(* A run nobody pauses, whose context is not cancelled from outside and    *)
(* whose goroutines return when cancelled, ends by itself: all blocks      *)
(* expire over the schedule's edges, everyone drains, done is closed, and  *)
(* the phantom run command exits.                                          *)
RunEnds == /\ [](state # "Paused")
           /\ [](cancelled => state # "Running")
           /\ <>[](state = "Idle" \/ Stuck \cap running = {})
           => <>(done /\ (Main \in Callers => pc[Main] = "exit"))

-----------------------------------------------------------------------------
(* Claims of the comments that the code does not keep.                     *)

(* state.go:80 "concurrent lifecycle calls serialize": with no Pause or    *)
(* Resume in progress, the operator's gate source is paused exactly when   *)
(* the run says so: a Running run is not silently held.                    *)
GateFollowsState ==
    (\A c \in Callers : pc[c] \notin {"pausing", "resuming"}) =>
        /\ state = "Running" => ~paused[Operator]
        /\ state = "Paused" => paused[Operator]

(* run.go:228 "Stop is idempotent": a Stop call never fails.               *)
StopNeverFails ==
    [][\A c \in Callers : pc[c] = "reread" => result'[c] # "error"]_vars

(* run.go:227-228 "waits on the WaitGroup bounded by GraceTimeout": every  *)
(* Stop call returns.                                                      *)
StopReturns ==
    \A c \in Callers : pc[c] \in {"cancel", "reread", "awaitDone"} ~> pc[c] \in {"idle", "exit"}

(* cmd/phantom/run.go:50 "run until every scenario block's duration        *)
(* elapses": once every block's duration has elapsed, a run that is not    *)
(* left paused ends.                                                       *)
ElapsedRunEnds == (state # "Idle" /\ blocksLeft = 0) ~> (done \/ state = "Paused")
=============================================================================
