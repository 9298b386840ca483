------------------------- MODULE RunLifecycleProofs -------------------------
(***************************************************************************)
(* Theorems about the life of a run, for any number of callers, blocks,    *)
(* workers and durations, and whichever goroutines never return.           *)
(***************************************************************************)
EXTENDS RunLifecycle, FiniteSetTheorems, TLAPS

(* Who may be where in which state: the callers inside a winning Stop and  *)
(* the complete() goroutine exclude each other through the state.          *)
Driven ==
    /\ \A c \in Callers : pc[c] \in {"cancel", "drain", "final"} => state = "Stopping"
    /\ \A c \in Callers : pc[c] = "signal" => state = "Stopped"
    /\ \A c, d \in Callers : c \in Drivers /\ d \in Drivers => c = d
    /\ cpc \in {"cancel", "drain"} => state = "Completing"
    /\ cpc = "signal" => state = "Completed"
    /\ done => state \in Terminal

(* A Stop that has left its select either saw everyone return or recorded  *)
(* an error.                                                               *)
Settled ==
    /\ \A c \in Callers : pc[c] = "final" => Drained \/ runErr # "none"
    /\ state \in Terminal => Drained \/ runErr # "none"

(* Blocks not yet expired are what blocksLeft counts.                      *)
Unexpired == {b \in Blocks : bpc[b] # "expired"}

(* The goroutines exist exactly once Start has run.                        *)
Born ==
    /\ (state = "Idle") <=> (\A b \in Blocks : bpc[b] = "unborn")
    /\ (\E b \in Blocks : bpc[b] = "unborn") => state = "Idle"
    /\ state = "Idle" => cpc = "none" /\ \A c \in Callers : pc[c] = "idle"

(* blocksLeft counts the unexpired blocks, and complete() exists only when *)
(* there is none.                                                          *)
Left ==
    /\ state # "Idle" => blocksLeft = Cardinality(Unexpired)
    /\ cpc # "none" => \A b \in Blocks : bpc[b] = "expired"
    /\ state \in {"Completing", "Completed"} => cpc # "none"

(* No block timer is ahead of the time the gate was open.                  *)
OnTime ==
    \A b \in Blocks :
        /\ bpc[b] \in {"unborn", "wait"} => seg[b] = 0
        /\ bpc[b] \in {"unborn", "wait", "select"} =>
              openTicks = MaxTicks \/ elapsed[b] + seg[b] <= openTicks
        /\ bpc[b] = "expired" => openTicks >= Duration[b]

Counted == Born /\ Left /\ OnTime

(* The inductive invariant.                                                *)
RunInv == TypeOK /\ Driven /\ Settled /\ Counted

(* The tests of the state that transitionTo makes.                         *)
LEMMA LegalTable ==
    /\ legalTransitions["Idle"] = {"Running"}
    /\ legalTransitions["Running"] = {"Paused", "Stopping", "Completing"}
    /\ legalTransitions["Paused"] = {"Running", "Stopping"}
    /\ legalTransitions["Stopping"] = {"Stopped"}
    /\ legalTransitions["Completing"] = {"Completed"}
    /\ legalTransitions["Stopped"] = {}
    /\ legalTransitions["Completed"] = {}
  BY DEF legalTransitions, States

(* transitionTo keeps the type of the state and of the audit trail, and    *)
(* moves only along the table.                                             *)
LEMMA TransitionStep ==
    ASSUME state \in States, log \in Seq(Audited), lost \in BOOLEAN, NEW to \in States,
           transitionTo(to)
    PROVE  /\ state' \in States
           /\ log' \in Seq(Audited) /\ lost' \in BOOLEAN
           /\ Legal(to) => state' = to
           /\ ~Legal(to) => state' = state
  <1>1. lost' \in BOOLEAN
      BY Zenon DEF transitionTo, AppendEvent
  <1>2. log' \in Seq(Audited)
      BY DEF transitionTo, AppendEvent
  <1> QED
      BY <1>1, <1>2 DEF transitionTo, Legal

(* The atomic gate keeps the types of its variables.                       *)
LEMMA GateStep ==
    ASSUME TypeOK, NEW s \in Sources, G!Pause(s) \/ G!Resume(s)
    PROVE  paused' \in [Sources -> BOOLEAN] /\ gen' \in 0..MaxReopens /\ seen' = seen
  <1>1. paused' = [paused EXCEPT ![s] = TRUE] \/ paused' = [paused EXCEPT ![s] = FALSE]
      BY DEF G!Pause, G!Resume
  <1>2. paused' \in [Sources -> BOOLEAN]
      BY <1>1, Zenon DEF TypeOK
  <1>3. gen' \in 0..MaxReopens /\ seen' = seen
      BY RunAssumption DEF RunAssumption, TypeOK, G!Pause, G!Resume
  <1> QED
      BY <1>2, <1>3

CallSteps(c) == Pause(c) \/ Resume(c) \/ Stop(c) \/ CallStep(c) \/ StopCtxDone(c)

(* Every step keeps the type of every variable.                            *)
LEMMA TypeStep == RunInv /\ [Next]_vars => TypeOK'
  <1> SUFFICES ASSUME TypeOK, Counted, [Next]_vars PROVE TypeOK'
      BY DEF RunInv
  <1> USE RunAssumption DEF RunAssumption, TypeOK, schedVars, callVars, gateVars, blockVars
  <1>0. Cardinality(Blocks) \in Nat
      BY FS_CardinalityType
  <1>1. CASE Start
      BY <1>1, <1>0, TransitionStep DEF Start, States
  <1>2. ASSUME NEW b \in Blocks, BlockEnter(b) PROVE TypeOK'
      BY <1>2 DEF BlockEnter, G!Enter
  <1>3. ASSUME NEW b \in Blocks, BlockGateCloses(b) \/ BlockTimer(b) PROVE TypeOK'
    <2>1. bpc[b] = "select" /\ state # "Idle"
      BY <1>3 DEF BlockGateCloses, BlockTimer, BlockSegmentEnds, Counted, Born
    <2>2. blocksLeft - 1 \in 0..Cardinality(Blocks)
      <3>1. b \in Unexpired /\ IsFiniteSet(Unexpired)
        BY <2>1, FS_Subset DEF Unexpired
      <3>2. Cardinality(Unexpired) # 0
        BY <3>1, FS_EmptySet
      <3> QED
        BY <1>0, <2>1, <3>1, <3>2, FS_CardinalityType DEF Counted, Left
    <2>3. PICK e \in Nat : BlockSegmentEnds(b, e)
      BY <1>3 DEF BlockGateCloses, BlockTimer
    <2> QED
      BY <2>2, <2>3 DEF BlockSegmentEnds, BlockExpires, G!Leave
  <1>4. ASSUME NEW b \in Blocks, BlockCancelled(b) PROVE TypeOK'
      BY <1>4 DEF BlockCancelled, G!Leave
  <1>5. CASE (\E w \in Workers : WorkerReturns(w)) \/ SchedulerReturns
      BY <1>5 DEF WorkerReturns, SchedulerReturns
  <1>6. CASE SchedulerEdge
      BY <1>6, GateStep DEF SchedulerEdge, Sources, Schedule
  <1>7. CASE Tick
      BY <1>7 DEF Tick
  <1>8. CASE CompleteStep
      BY <1>8, TransitionStep DEF CompleteStep, CompleteBegins, CompleteCancels, CompleteDrained,
         CompleteHastily, CompleteSignals, States, others
  <1>9. ASSUME NEW c \in Callers, CallSteps(c) PROVE TypeOK'
    <2> USE DEF rest
    <2>1. CASE Pause(c) \/ Resume(c) \/ Stop(c)
      <3>1. state' \in States /\ log' \in Seq(Audited) /\ lost' \in BOOLEAN
        BY <2>1, TransitionStep DEF Pause, Resume, Stop, States
      <3>2. calls' \in 0..MaxCalls
        BY <2>1 DEF Pause, Resume, Stop, Begin
      <3> QED
        BY <2>1, <3>1, <3>2 DEF Pause, Resume, Stop, Goto, Return
    <2>2. CASE PauseGate(c) \/ ResumeGate(c)
      <3>1. paused' \in [Sources -> BOOLEAN] /\ gen' \in 0..MaxReopens /\ seen' = seen
        BY <2>2, GateStep DEF PauseGate, ResumeGate, Sources, Operator
      <3>2. /\ UNCHANGED <<state, log, lost, cancelled, calls, runErr, done, rest>>
            /\ Return(c, "ok")
        BY <2>2 DEF PauseGate, ResumeGate
      <3> QED
        BY <3>1, <3>2 DEF Return
    <2>3. CASE StopReread(c) \/ StopAwaitsDone(c)
      <3>1. /\ UNCHANGED <<state, log, lost, gateVars, cancelled, calls, runErr, done, rest>>
            /\ Goto(c, "awaitDone") \/ Return(c, "ok") \/ Return(c, "error")
        BY <2>3 DEF StopReread, StopAwaitsDone
      <3> QED
        BY <3>1 DEF Goto, Return
    <2>4. CASE StopCancels(c)
      BY <2>4 DEF StopCancels, Goto
    <2>5. CASE StopSignals(c)
      BY <2>5 DEF StopSignals, Return
    <2>6. CASE StopDrained(c) \/ StopGrace(c) \/ StopCtxDone(c)
      <3>1. StopLeavesSelect(c) /\ runErr' \in {"none", "grace", "ctx"}
        BY <2>6 DEF StopDrained, StopGrace, StopCtxDone, setErr
      <3> QED
        BY <3>1 DEF StopLeavesSelect, Goto
    <2>7. CASE StopFinal(c)
      BY <2>7, TransitionStep DEF StopFinal, Goto, States
    <2> QED
      BY <1>9, <2>1, <2>2, <2>3, <2>4, <2>5, <2>6, <2>7 DEF CallSteps, CallStep
  <1>10. CASE awaitRun \/ ParentCancel
      BY <1>10 DEF awaitRun, ParentCancel, rest
  <1>11. CASE UNCHANGED vars
      BY <1>11 DEF vars
  <1> QED
      BY <1>1, <1>2, <1>3, <1>4, <1>5, <1>6, <1>7, <1>8, <1>9, <1>10, <1>11
      DEF Next, BlockStep, CallSteps

(* The steps of the block timers, the workers, the scheduler and the       *)
(* clock: none of them touches the state, a caller or done, and complete() *)
(* is at most spawned.                                                     *)
Background == \/ \E b \in Blocks : BlockStep(b)
              \/ \E w \in Workers : WorkerReturns(w)
              \/ SchedulerEdge \/ SchedulerReturns \/ Tick

(* What a background step leaves alone: whatever the lifecycle calls and   *)
(* complete() decide on.                                                   *)
LEMMA BackgroundFrame ==
    ASSUME Background
    PROVE  /\ UNCHANGED <<state, pc, done, runErr>>
           /\ cpc' = cpc \/ cpc' = "spawned"
  BY DEF Background, BlockStep, BlockEnter, BlockGateCloses, BlockTimer, BlockSegmentEnds,
     BlockExpires, BlockCancelled, WorkerReturns, SchedulerEdge, SchedulerReturns, Tick,
     schedVars, callVars

(* Every step keeps Driven: a Stop wins only from Running or Paused, where *)
(* nobody drives, and complete() only from Running.                        *)
LEMMA DrivenStep == RunInv /\ [Next]_vars => Driven'
  <1> SUFFICES ASSUME TypeOK, Driven, Counted, [Next]_vars PROVE Driven'
      BY DEF RunInv
  <1> USE LegalTable DEF Driven, Drivers, Terminal
  <1>1. CASE Start
      BY <1>1 DEF Start, transitionTo, Counted, Born, callVars
  <1>2. CASE Background
      BY <1>2, BackgroundFrame
  <1>3. CASE CompleteStep
    <2>1. CASE CompleteBegins
      BY <2>1 DEF CompleteBegins, transitionTo, Legal, others, callVars, TypeOK, States
    <2>2. CASE CompleteCancels \/ CompleteSignals
      BY <2>2 DEF CompleteCancels, CompleteSignals, others, callVars
    <2>3. CASE CompleteDrained
      BY <2>3 DEF CompleteDrained, CompleteHastily, transitionTo, others, callVars, TypeOK, States
    <2> QED
      BY <1>3, <2>1, <2>2, <2>3 DEF CompleteStep
  <1>4. ASSUME NEW c \in Callers, CallSteps(c) PROVE Driven'
    <2> USE DEF rest, TypeOK, Goto, Return
    <2>1. CASE Pause(c)
      BY <2>1 DEF Pause, Begin, transitionTo, Legal, States
    <2>2. CASE Resume(c)
      BY <2>2 DEF Resume, Begin, transitionTo, Legal, States
    <2>3. CASE Stop(c)
      BY <2>3 DEF Stop, Begin, transitionTo, Legal, States
    <2>4. CASE PauseGate(c) \/ ResumeGate(c) \/ StopReread(c) \/ StopAwaitsDone(c)
      <3>1. /\ UNCHANGED <<state, cpc, done>>
            /\ \E l \in {"idle", "exit", "awaitDone"} : pc' = [pc EXCEPT ![c] = l]
        BY <2>4 DEF PauseGate, ResumeGate, StopReread, StopAwaitsDone
      <3> QED
        BY <3>1
    <2>5. CASE StopCancels(c)
      BY <2>5 DEF StopCancels
    <2>6. CASE StopSignals(c)
      <3>1. /\ UNCHANGED <<state, cpc>> /\ pc[c] = "signal"
            /\ \E l \in {"idle", "exit"} : pc' = [pc EXCEPT ![c] = l]
        BY <2>6 DEF StopSignals
      <3> QED
        BY <3>1
    <2>7. CASE StopDrained(c) \/ StopGrace(c) \/ StopCtxDone(c)
      <3>1. /\ UNCHANGED <<state, cpc, done>>
            /\ pc[c] = "drain" /\ pc' = [pc EXCEPT ![c] = "final"]
        BY <2>7 DEF StopDrained, StopGrace, StopCtxDone, StopLeavesSelect
      <3> QED
        BY <3>1
    <2>8. CASE StopFinal(c)
      BY <2>8 DEF StopFinal, transitionTo, States
    <2> QED
      BY <1>4, <2>1, <2>2, <2>3, <2>4, <2>5, <2>6, <2>7, <2>8 DEF CallSteps, CallStep
  <1>5. CASE awaitRun \/ ParentCancel
      BY <1>5 DEF awaitRun, ParentCancel, rest, callVars, TypeOK
  <1>6. CASE UNCHANGED vars
      BY <1>6 DEF vars
  <1> QED
      BY <1>1, <1>2, <1>3, <1>4, <1>5, <1>6 DEF Next, Background, CallSteps

(* A drained run stays drained: no goroutine counted by r.wg is started    *)
(* after Start.                                                            *)
LEMMA DrainedStep ==
    ASSUME TypeOK, Counted, [Next]_vars, Drained PROVE Drained'
  <1> USE DEF Drained, TypeOK, schedVars, blockVars
  <1>0. state # "Idle"
      BY RunAssumption DEF RunAssumption, Counted, Born
  <1>1. CASE Start
      BY <1>0, <1>1 DEF Start
  <1>2. CASE Background
      BY <1>2 DEF Background, BlockStep, BlockEnter, BlockGateCloses, BlockTimer,
         BlockSegmentEnds, BlockCancelled, WorkerReturns, SchedulerEdge, SchedulerReturns, Tick
  <1>3. CASE CompleteStep
      BY <1>3 DEF CompleteStep, CompleteBegins, CompleteCancels, CompleteDrained, CompleteHastily,
         CompleteSignals, others
  <1>4. ASSUME NEW c \in Callers, CallSteps(c) PROVE Drained'
      BY <1>4 DEF CallSteps, CallStep, Pause, Resume, Stop, PauseGate, ResumeGate, StopReread,
         StopAwaitsDone, StopCancels, StopDrained, StopGrace, StopCtxDone, StopLeavesSelect,
         StopFinal, StopSignals, rest
  <1>5. CASE awaitRun \/ ParentCancel \/ UNCHANGED vars
      BY <1>5 DEF awaitRun, ParentCancel, vars, rest
  <1> QED
      BY <1>1, <1>2, <1>3, <1>4, <1>5 DEF Next, Background, CallSteps

(* Every step keeps Settled.                                               *)
LEMMA SettledStep == RunInv /\ [Next]_vars => Settled'
  <1> SUFFICES ASSUME TypeOK, Driven, Settled, Counted, [Next]_vars PROVE Settled'
      BY DEF RunInv
  <1> USE LegalTable DEF Settled, Terminal
  <1>0. Drained => Drained'
      BY DrainedStep
  <1>1. CASE Start
      BY <1>1 DEF Start, transitionTo, Counted, Born, callVars
  <1>2. CASE Background
      BY <1>0, <1>2, BackgroundFrame
  <1>3. CASE CompleteStep
    <2>1. CASE CompleteBegins
      BY <1>0, <2>1 DEF CompleteBegins, transitionTo, others, callVars, TypeOK, States
    <2>2. CASE CompleteCancels \/ CompleteSignals
      BY <1>0, <2>2 DEF CompleteCancels, CompleteSignals, others, callVars
    <2>3. CASE CompleteDrained
      BY <1>0, <2>3 DEF CompleteDrained, others, CompleteHastily
    <2> QED
      BY <1>3, <2>1, <2>2, <2>3 DEF CompleteStep
  <1>4. ASSUME NEW c \in Callers, CallSteps(c) PROVE Settled'
    <2> USE DEF rest, Goto, Return
    <2>1. CASE Pause(c) \/ Resume(c) \/ Stop(c)
      <3>1. runErr' = runErr /\ (state' \in Terminal => state' = state)
        BY <2>1 DEF Pause, Resume, Stop, transitionTo, TypeOK, States
      <3>2. \A d \in Callers : pc'[d] = "final" => pc[d] = "final"
        BY <2>1 DEF Pause, Resume, Stop, TypeOK
      <3> QED
        BY <1>0, <3>1, <3>2
    <2>2. CASE PauseGate(c) \/ ResumeGate(c) \/ StopReread(c) \/ StopAwaitsDone(c)
      <3>1. /\ UNCHANGED <<state, runErr>>
            /\ \A d \in Callers : pc'[d] = "final" => pc[d] = "final"
        BY <2>2 DEF PauseGate, ResumeGate, StopReread, StopAwaitsDone, TypeOK
      <3> QED
        BY <1>0, <3>1
    <2>3. CASE StopCancels(c) \/ StopSignals(c)
      BY <1>0, <2>3 DEF StopCancels, StopSignals, TypeOK
    <2>4. CASE StopDrained(c) \/ StopGrace(c) \/ StopCtxDone(c)
      <3>1. /\ state' = state /\ pc' = [pc EXCEPT ![c] = "final"]
            /\ (Drained /\ runErr' = runErr) \/ runErr' # "none"
            /\ runErr # "none" => runErr' # "none"
        BY <2>4 DEF StopDrained, StopGrace, StopCtxDone, StopLeavesSelect, setErr
      <3> QED
        BY <1>0, <3>1 DEF TypeOK
    <2>5. CASE StopFinal(c)
      <3>1. runErr' = runErr /\ pc' = [pc EXCEPT ![c] = "signal"] /\ pc[c] = "final"
        BY <2>5 DEF StopFinal
      <3> QED
        BY <1>0, <3>1 DEF TypeOK
    <2> QED
      BY <1>4, <2>1, <2>2, <2>3, <2>4, <2>5 DEF CallSteps, CallStep
  <1>5. CASE awaitRun \/ ParentCancel
      BY <1>0, <1>5 DEF awaitRun, ParentCancel, rest, callVars, TypeOK
  <1>6. CASE UNCHANGED vars
      BY <1>0, <1>6 DEF vars
  <1> QED
      BY <1>1, <1>2, <1>3, <1>4, <1>5, <1>6 DEF Next, Background, CallSteps

(* The steps outside the background and Start leave the blocks, the clock  *)
(* and blocksLeft alone.                                                   *)
LEMMA ForegroundFrame ==
    ASSUME \/ CompleteStep \/ awaitRun \/ ParentCancel \/ UNCHANGED vars
           \/ \E c \in Callers : CallSteps(c)
    PROVE  UNCHANGED <<bpc, elapsed, seg, blocksLeft, openTicks>>
  BY DEF CompleteStep, CompleteBegins, CompleteCancels, CompleteDrained, CompleteHastily,
     CompleteSignals, awaitRun, ParentCancel, CallSteps, CallStep, Pause, Resume, Stop, PauseGate,
     ResumeGate, StopReread, StopAwaitsDone, StopCancels, StopDrained, StopGrace, StopCtxDone,
     StopLeavesSelect, StopFinal, StopSignals, rest, others, vars, blockVars

(* Start happens once, and nobody makes the run Idle again.                *)
LEMMA BornStep == RunInv /\ [Next]_vars => Born'
  <1> SUFFICES ASSUME TypeOK, Driven, Born, [Next]_vars PROVE Born'
      BY DEF RunInv, Counted
  <1> USE RunAssumption, LegalTable DEF RunAssumption, Born
  <1>1. CASE Start
      BY <1>1 DEF Start, transitionTo
  <1>2. CASE Background
    <2>1. \A b \in Blocks : bpc'[b] = "unborn" <=> bpc[b] = "unborn"
      <3>1. \/ bpc' = bpc
            \/ \E b \in Blocks, l \in {"select", "wait", "expired", "exited"} :
                  bpc[b] # "unborn" /\ bpc' = [bpc EXCEPT ![b] = l]
        BY <1>2 DEF Background, BlockStep, BlockEnter, BlockGateCloses, BlockTimer,
           BlockSegmentEnds, BlockExpires, BlockCancelled, WorkerReturns, SchedulerEdge,
           SchedulerReturns, Tick, blockVars
      <3> QED
        BY <3>1 DEF TypeOK
    <2>2. state = "Idle" => cpc' = cpc
      BY <1>2 DEF Background, BlockStep, BlockEnter, BlockGateCloses, BlockTimer,
         BlockSegmentEnds, BlockCancelled, WorkerReturns, SchedulerEdge, SchedulerReturns, Tick
    <2> QED
      BY <1>2, <2>1, <2>2, BackgroundFrame
  <1>3. ASSUME \/ CompleteStep \/ awaitRun \/ ParentCancel \/ UNCHANGED vars
               \/ \E c \in Callers : CallSteps(c)
        PROVE  Born'
    <2>1. bpc' = bpc
      BY <1>3, ForegroundFrame
    <2>2. CASE state # "Idle"
      <3>1. state' # "Idle"
        BY <1>3, <2>2 DEF CompleteStep, CompleteBegins, CompleteCancels, CompleteDrained,
           CompleteHastily, CompleteSignals, awaitRun, ParentCancel, CallSteps, CallStep, Pause,
           Resume, Stop, PauseGate, ResumeGate, StopReread, StopAwaitsDone, StopCancels,
           StopDrained, StopGrace, StopCtxDone, StopLeavesSelect, StopFinal, StopSignals,
           transitionTo, vars
      <3> QED
        BY <2>1, <2>2, <3>1
    <2>3. CASE state = "Idle"
      <3>1. UNCHANGED vars \/ awaitRun
        BY <1>3, <2>3 DEF CompleteStep, CompleteBegins, CompleteCancels, CompleteDrained,
           CompleteHastily, CompleteSignals, ParentCancel, CallSteps, CallStep, Pause,
           Resume, Stop, PauseGate, ResumeGate, StopReread, StopAwaitsDone, StopCancels,
           StopDrained, StopGrace, StopCtxDone, StopLeavesSelect, StopFinal, StopSignals, Begin
      <3> QED
        BY <2>3, <3>1 DEF vars, awaitRun, Driven, Terminal
    <2> QED
      BY <2>2, <2>3
  <1> QED
      BY <1>1, <1>2, <1>3 DEF Next, Background, CallSteps

(* An expiring block leaves one unexpired block less, and the block that   *)
(* brings blocksLeft to zero is the last one.                              *)
LEMMA ExpiryStep ==
    ASSUME TypeOK, Left, state # "Idle", NEW b \in Blocks, bpc[b] = "select", BlockExpires(b)
    PROVE  /\ blocksLeft' = Cardinality(Unexpired')
           /\ cpc' # "none" => \A o \in Blocks : bpc'[o] = "expired"
  <1>1. Unexpired' = Unexpired \ {b} /\ b \in Unexpired
      BY DEF Unexpired, BlockExpires, TypeOK
  <1>2. IsFiniteSet(Unexpired)
      BY FS_Subset, RunAssumption DEF RunAssumption, Unexpired
  <1>3. IsFiniteSet(Unexpired') /\ Cardinality(Unexpired') = Cardinality(Unexpired) - 1
      BY <1>1, <1>2, FS_RemoveElement
  <1>4. blocksLeft' = Cardinality(Unexpired')
      BY <1>3 DEF Left, BlockExpires
  <1>5. ASSUME cpc' # "none" PROVE \A o \in Blocks : bpc'[o] = "expired"
    <2>1. CASE cpc # "none"
      BY <2>1 DEF Left
    <2>2. CASE cpc = "none"
      <3>1. Cardinality(Unexpired') = 0
        BY <1>4, <1>5, <2>2 DEF BlockExpires
      <3>2. Unexpired' = {}
        BY <1>3, <3>1, FS_EmptySet
      <3> QED
        BY <3>2 DEF Unexpired
    <2> QED
      BY <2>1, <2>2
  <1> QED
      BY <1>4, <1>5

(* blocksLeft keeps counting the timers that have not expired, so that     *)
(* exactly the last one of runBlockDuration starts complete().             *)
LEMMA LeftStep == RunInv /\ [Next]_vars => Left'
  <1> SUFFICES ASSUME TypeOK, Driven, Born, Left, [Next]_vars PROVE Left'
      BY DEF RunInv, Counted
  <1>1. CASE Start
    <2>1. Unexpired' = Blocks
      BY <1>1 DEF Start, Unexpired
    <2> QED
      BY <1>1, <2>1, LegalTable DEF Start, transitionTo, Born, Left
  <1>2. ASSUME NEW b \in Blocks, BlockGateCloses(b) \/ BlockTimer(b) PROVE Left'
    <2>1. PICK e : BlockSegmentEnds(b, e)
      BY <1>2 DEF BlockGateCloses, BlockTimer
    <2>2. state # "Idle" /\ state' = state /\ bpc[b] = "select"
      BY <2>1 DEF BlockSegmentEnds, Born
    <2>3. CASE e < Duration[b]
      <3>1. Unexpired' = Unexpired
        BY <2>1, <2>2, <2>3 DEF BlockSegmentEnds, Unexpired, TypeOK
      <3> QED
        BY <2>1, <2>2, <2>3, <3>1 DEF BlockSegmentEnds, Left
    <2>4. CASE ~(e < Duration[b])
      <3>1. BlockExpires(b)
        BY <2>1, <2>4 DEF BlockSegmentEnds
      <3>2. cpc # "none" => cpc' # "none"
        BY <3>1 DEF BlockExpires
      <3> QED
        BY <2>2, <3>1, <3>2, ExpiryStep DEF Left
    <2> QED
      BY <2>3, <2>4
  <1>3. ASSUME NEW b \in Blocks, BlockEnter(b) \/ BlockCancelled(b) PROVE Left'
    <2>1. /\ UNCHANGED <<state, blocksLeft, cpc>>
          /\ Unexpired' = Unexpired
          /\ bpc[b] # "expired"
      BY <1>3 DEF BlockEnter, BlockCancelled, Unexpired, TypeOK
    <2> QED
      BY <2>1 DEF Left
  <1>4. CASE (\E w \in Workers : WorkerReturns(w)) \/ SchedulerEdge \/ SchedulerReturns \/ Tick
      BY <1>4 DEF WorkerReturns, SchedulerEdge, SchedulerReturns, Tick, blockVars, Left, Unexpired
  <1>5. ASSUME \/ CompleteStep \/ awaitRun \/ ParentCancel \/ UNCHANGED vars
               \/ \E c \in Callers : CallSteps(c)
        PROVE  Left'
    <2>1. bpc' = bpc /\ blocksLeft' = blocksLeft /\ Unexpired' = Unexpired
      BY <1>5, ForegroundFrame DEF Unexpired
    <2>2. state = "Idle" => cpc' = cpc /\ state' = state
      BY <1>5, LegalTable DEF CompleteStep, CompleteBegins, CompleteCancels, CompleteDrained, Born,
         CompleteHastily, CompleteSignals, awaitRun, ParentCancel, CallSteps, CallStep, Pause,
         Resume, Stop, PauseGate, ResumeGate, StopReread, StopAwaitsDone, StopCancels, Begin,
         StopDrained, StopGrace, StopCtxDone, StopLeavesSelect, StopFinal, StopSignals, vars, rest
    <2>3. (cpc' # "none") <=> (cpc # "none")
      BY <1>5 DEF CompleteStep, CompleteBegins, CompleteCancels, CompleteDrained,
         CompleteHastily, CompleteSignals, awaitRun, ParentCancel, CallSteps, CallStep, Pause,
         Resume, Stop, PauseGate, ResumeGate, StopReread, StopAwaitsDone, StopCancels,
         StopDrained, StopGrace, StopCtxDone, StopLeavesSelect, StopFinal, StopSignals, vars, rest
    <2>4. state' \in {"Completing", "Completed"} => state' = state \/ cpc # "none"
      BY <1>5 DEF CompleteStep, CompleteBegins, CompleteCancels, CompleteDrained,
         CompleteHastily, CompleteSignals, awaitRun, ParentCancel, CallSteps, CallStep, Pause,
         Resume, Stop, PauseGate, ResumeGate, StopReread, StopAwaitsDone, StopCancels, vars,
         StopDrained, StopGrace, StopCtxDone, StopLeavesSelect, StopFinal, StopSignals, transitionTo
    <2> QED
      BY <2>1, <2>2, <2>3, <2>4 DEF Left
  <1> QED
      BY <1>1, <1>2, <1>3, <1>4, <1>5 DEF Next, BlockStep, CallSteps

(* A block's banked and running time never exceeds the time the gate was   *)
(* open: runBlockDuration does not count a pause.                          *)
LEMMA OnTimeStep == RunInv /\ [Next]_vars => OnTime'
  <1> SUFFICES ASSUME TypeOK, Born, OnTime, [Next]_vars PROVE OnTime'
      BY DEF RunInv, Counted
  <1> USE RunAssumption DEF RunAssumption, OnTime
  <1>1. CASE Start
      BY <1>1 DEF Start, Born
  <1>2. ASSUME NEW b \in Blocks, BlockEnter(b) PROVE OnTime'
      BY <1>2 DEF BlockEnter, TypeOK
  <1>3. ASSUME NEW b \in Blocks, BlockGateCloses(b) PROVE OnTime'
      BY <1>3 DEF BlockGateCloses, BlockSegmentEnds, BlockExpires, TypeOK
  <1>4. ASSUME NEW b \in Blocks, BlockTimer(b) PROVE OnTime'
      BY <1>4 DEF BlockTimer, BlockSegmentEnds, BlockExpires, TypeOK
  <1>5. ASSUME NEW b \in Blocks, BlockCancelled(b) PROVE OnTime'
      BY <1>5 DEF BlockCancelled, TypeOK
  <1>6. CASE Tick
      BY <1>6 DEF Tick, TypeOK
  <1>7. CASE (\E w \in Workers : WorkerReturns(w)) \/ SchedulerEdge \/ SchedulerReturns
      BY <1>7 DEF WorkerReturns, SchedulerEdge, SchedulerReturns, blockVars
  <1>8. ASSUME \/ CompleteStep \/ awaitRun \/ ParentCancel \/ UNCHANGED vars
               \/ \E c \in Callers : CallSteps(c)
        PROVE  OnTime'
      BY <1>8, ForegroundFrame
  <1> QED
      BY <1>1, <1>2, <1>3, <1>4, <1>5, <1>6, <1>7, <1>8 DEF Next, BlockStep, CallSteps

-----------------------------------------------------------------------------
(* The inductive invariant of the run holds in every reachable state.      *)
THEOREM RunInvariant == Spec => []RunInv
  <1>1. Init => RunInv
    <2> SUFFICES ASSUME Init PROVE RunInv
      OBVIOUS
    <2> USE RunAssumption DEF RunAssumption, Init
    <2>1. TypeOK
      <3>1. paused \in [Sources -> BOOLEAN] /\ cancelled \in BOOLEAN /\ scheduling \in BOOLEAN
            /\ done \in BOOLEAN /\ lost \in BOOLEAN
        BY Zenon DEF G!GateInit
      <3>2. Cardinality(Blocks) \in Nat
        BY FS_CardinalityType
      <3>3. log \in Seq(Audited) /\ gen \in 0..MaxReopens
        BY DEF G!GateInit
      <3> QED
        BY <3>1, <3>2, <3>3 DEF TypeOK, States, G!GateInit
    <2>2. Driven
      BY DEF Driven, Drivers
    <2>3. Settled /\ Born /\ Left
      BY DEF Settled, Born, Left, Terminal
    <2>4. OnTime
      BY DEF OnTime
    <2> QED
      BY <2>1, <2>2, <2>3, <2>4 DEF RunInv, Counted
  <1>2. RunInv /\ [Next]_vars => RunInv'
      BY TypeStep, DrivenStep, SettledStep, BornStep, LeftStep, OnTimeStep DEF RunInv, Counted
  <1> QED
      BY <1>1, <1>2, PTL DEF Spec

(* Wait's channel is closed only when the run is Stopped or Completed.     *)
THEOREM DoneSafety == Spec => []DoneIsTerminal
  <1>1. RunInv => DoneIsTerminal
      BY DEF RunInv, Driven, DoneIsTerminal
  <1> QED
      BY <1>1, RunInvariant, PTL

(* A run that ends without an error has drained every goroutine.           *)
THEOREM CleanEndSafety == Spec => []CleanEndIsDrained
  <1>1. RunInv => CleanEndIsDrained
      BY DEF RunInv, Settled, CleanEndIsDrained
  <1> QED
      BY <1>1, RunInvariant, PTL

(* A run completes only after every block was active for its Duration.     *)
THEOREM CompletionSafety == Spec => []CompletionIsEarned
  <1>1. RunInv => CompletionIsEarned
      BY DEF RunInv, Counted, Left, OnTime, CompletionIsEarned
  <1> QED
      BY <1>1, RunInvariant, PTL

(* One Stop call, or complete(), drives the run down, never two of them.   *)
THEOREM OneDriverSafety == Spec => []OneDriver
  <1>1. RunInv => OneDriver
    <2> SUFFICES ASSUME TypeOK, Driven PROVE OneDriver
      BY DEF RunInv
    <2>1. Cardinality(Drivers) <= 1
      <3>1. CASE Drivers = {}
        BY <3>1, FS_EmptySet
      <3>2. CASE Drivers # {}
        <4>1. PICK c \in Drivers : TRUE
          BY <3>2
        <4>2. Drivers = {c}
          BY <4>1 DEF Driven, Drivers
        <4> QED
          BY <4>2, FS_Singleton
      <3> QED
        BY <3>1, <3>2
    <2>2. Drivers # {} => cpc \notin {"cancel", "drain", "signal"} /\ state \in {"Stopping", "Stopped"}
      BY DEF Driven, Drivers
    <2> QED
      BY <2>1, <2>2 DEF OneDriver, Driven
  <1> QED
      BY <1>1, RunInvariant, PTL
-----------------------------------------------------------------------------
(* The audit trail, with what it is before Start.                          *)
Trail == /\ state = "Idle" => log = <<>>
         /\ AuditTellsState

(* A transition, legal or not, recorded or not, keeps the trail.           *)
LEMMA TransitionTrail ==
    ASSUME state \in States, log \in Seq(Audited), lost \in BOOLEAN, Trail, NEW to \in States,
           transitionTo(to)
    PROVE  Trail'
  <1> USE LegalTable DEF Trail, AuditTellsState
  <1>1. CASE ~Legal(to)
      BY <1>1 DEF transitionTo, Legal
  <1> SUFFICES ASSUME Legal(to) PROVE Trail'
      BY <1>1
  <1>2. /\ state' = to /\ to # "Idle"
        /\ AppendEvent(to)
        /\ \A s \in Audited : s = state \/ After(s, state) => After(s, to)
      BY DEF transitionTo, Legal, States, Audited, After
  <1>3. CASE to \notin Audited
    <2>1. log' = log /\ lost' = lost /\ state \in Audited
      BY <1>2, <1>3 DEF AppendEvent, Legal, States, Audited
    <2>2. state = "Running"
      BY <1>3 DEF Legal, States, Audited
    <2> QED
      BY <1>2, <1>3, <2>1, <2>2 DEF After
  <1>4. CASE to \in Audited /\ log' = Append(log, to) /\ lost' = lost
    <2>1. /\ Len(log') = Len(log) + 1 /\ log'[Len(log')] = to
          /\ \A i \in 1..Len(log) : log'[i] = log[i]
          /\ Len(log) \in Nat
      BY <1>4
    <2>2. \A i \in 1..(Len(log') - 1) : After(log'[i], log'[i + 1])
      <3>1. SUFFICES ASSUME NEW i \in 1..Len(log) PROVE After(log'[i], log'[i + 1])
        BY <2>1
      <3>2. CASE i < Len(log)
        BY <2>1, <3>2
      <3>3. CASE i = Len(log)
        <4>1. log # <<>> /\ log[i] \in Audited
          BY <3>3
        <4>2. log[i] = state \/ After(log[i], state)
          BY <3>3, <4>1
        <4> QED
          BY <1>2, <2>1, <3>3, <4>1, <4>2
      <3> QED
        BY <2>1, <3>2, <3>3
    <2>3. ~lost => log'[1] = "Running"
      <3>1. CASE state = "Idle"
        BY <1>2, <2>1, <3>1 DEF Legal
      <3>2. CASE state # "Idle"
        BY <2>1, <3>2
      <3> QED
        BY <3>1, <3>2
    <2> QED
      BY <1>2, <1>4, <2>1, <2>2, <2>3
  <1>5. CASE to \in Audited /\ log' = log /\ lost'
    <2>1. log # <<>> => log[Len(log)] \in Audited
      OBVIOUS
    <2> QED
      BY <1>2, <1>5, <2>1
  <1> QED
      BY <1>2, <1>3, <1>4, <1>5 DEF AppendEvent

(* Every step keeps the trail: what is not a transition leaves the state   *)
(* and the trail alone.                                                    *)
LEMMA TrailStep == RunInv /\ Trail /\ [Next]_vars => Trail'
  <1> SUFFICES ASSUME TypeOK, Trail, [Next]_vars PROVE Trail'
      BY DEF RunInv
  <1>1. \/ UNCHANGED <<state, log, lost>>
        \/ \E to \in States : transitionTo(to)
    <2>1. CASE Start
      BY <2>1 DEF Start, States
    <2>2. CASE Background
      BY <2>2 DEF Background, BlockStep, BlockEnter, BlockGateCloses, BlockTimer,
         BlockSegmentEnds, BlockCancelled, WorkerReturns, SchedulerEdge, SchedulerReturns, Tick
    <2>3. CASE CompleteStep
      BY <2>3 DEF CompleteStep, CompleteBegins, CompleteCancels, CompleteDrained, CompleteHastily,
         CompleteSignals, States
    <2>4. ASSUME NEW c \in Callers, CallSteps(c)
          PROVE  UNCHANGED <<state, log, lost>> \/ \E to \in States : transitionTo(to)
      BY <2>4 DEF CallSteps, CallStep, Pause, Resume, Stop, PauseGate, ResumeGate, StopReread,
         StopAwaitsDone, StopCancels, StopDrained, StopGrace, StopCtxDone, StopLeavesSelect,
         StopFinal, StopSignals, States
    <2>5. CASE awaitRun \/ ParentCancel \/ UNCHANGED vars
      BY <2>5 DEF awaitRun, ParentCancel, vars
    <2> QED
      BY <2>1, <2>2, <2>3, <2>4, <2>5 DEF Next, Background, CallSteps
  <1>2. CASE UNCHANGED <<state, log, lost>>
      BY <1>2 DEF Trail, AuditTellsState
  <1> QED
      BY <1>1, <1>2, TransitionTrail DEF TypeOK

(* Whatever the lifecycle calls that raced and whichever appends failed,   *)
(* the recorded events of a run are true of it and none follows the entry  *)
(* into a terminal state; with none lost they tell the state it is in.     *)
THEOREM AuditSafety == Spec => []AuditTellsState
  <1>1. Init => Trail
      BY DEF Init, Trail, AuditTellsState
  <1>2. Trail => AuditTellsState
      BY DEF Trail
  <1> QED
      BY <1>1, <1>2, RunInvariant, TrailStep, PTL DEF Spec
=============================================================================
