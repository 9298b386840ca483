----------------------------- MODULE GateProofs -----------------------------
(***************************************************************************)
(* Theorems about the pause gate, for any number of workers, blocks,       *)
(* reopenings and clock ticks.                                             *)
(*                                                                         *)
(* ChannelTracksGate and PausedTotalExact are not inductive by themselves: *)
(* a resume that replaces closeNotify needs to know that the fresh channel *)
(* was never closed, and one that banks a pause needs to know that the     *)
(* interval in progress started when the operator paused.  GateInv says    *)
(* exactly which channels are closed and what each clock field holds.      *)
(***************************************************************************)
EXTENDS Gate, TLAPS

(* The closed channels are those that were replaced and, while the gate is *)
(* closed, the current one; no caller holds a channel not yet made.        *)
ClosedExactly ==
    /\ \A g \in 0..MaxReopens : g \in closed <=> (g < closeNotify \/ (g = closeNotify /\ ~openLocked))
    /\ \A b \in Blocks : handed[b] # NoChan => handed[b] <= closeNotify

(* opPausedAt is set exactly while the operator source is paused, and with *)
(* the time since then the total is what the clock counted.                *)
Accounted ==
    /\ (opPausedAt # NoTime) <=> paused[Operator]
    /\ opPausedAt # NoTime => opPausedAt <= now /\ opTicks = opPausedTotal + (now - opPausedAt)
    /\ opPausedAt = NoTime => opTicks = opPausedTotal

(* The inductive invariant.                                                *)
GateInv == TypeOK /\ ClosedExactly /\ Accounted

(* The steps of a waiter and the cancellation leave the gate's own fields  *)
(* and the clock alone.                                                    *)
LEMMA WaitersKeepGate ==
    ASSUME NEW w \in Waiters, WaiterStep(w) \/ watcher(w)
    PROVE  UNCHANGED <<gvars, tvars, cancelled>>
  BY DEF WaiterStep, watcher, waitFast, waitSlow, loop, park, relock, again

(* Every step keeps the type of every variable.                            *)
LEMMA TypeStep == GateInv /\ [Next]_vars => TypeOK'
  <1> SUFFICES ASSUME TypeOK, Accounted, [Next]_vars PROVE TypeOK'
      BY DEF GateInv
  <1> USE GateAssumption DEF GateAssumption, TypeOK, Locations, gvars, tvars, wvars
  <1>1. ASSUME NEW s \in Sources, pause(s) PROVE TypeOK'
      BY <1>1 DEF pause
  <1>2. ASSUME NEW s \in Sources, resume(s) PROVE TypeOK'
    <2>1. opPausedTotal' \in Nat
      BY <1>2 DEF resume, reopen, Accounted
    <2> QED
      BY <1>2, <2>1 DEF resume, reopen, Broadcast
  <1>3. ASSUME NEW w \in Waiters, waitFast(w) PROVE TypeOK'
      BY <1>3 DEF waitFast, Return
  <1>4. ASSUME NEW w \in Waiters, waitSlow(w) PROVE TypeOK'
      BY <1>4 DEF waitSlow
  <1>5. ASSUME NEW w \in Waiters, loop(w) PROVE TypeOK'
      BY <1>5 DEF loop, Return
  <1>6. ASSUME NEW w \in Waiters, park(w) PROVE TypeOK'
      BY <1>6 DEF park
  <1>7. ASSUME NEW w \in Waiters, relock(w) PROVE TypeOK'
      BY <1>7 DEF relock
  <1>8. ASSUME NEW w \in Waiters, again(w) PROVE TypeOK'
      BY <1>8 DEF again
  <1>9. ASSUME NEW w \in Waiters, watcher(w) PROVE TypeOK'
      BY <1>9 DEF watcher, Broadcast
  <1>10. ASSUME straggler PROVE TypeOK'
      BY <1>10 DEF straggler, Broadcast
  <1>11. ASSUME cancel PROVE TypeOK'
      BY <1>11 DEF cancel
  <1>12. ASSUME tick PROVE TypeOK'
      BY <1>12 DEF tick
  <1>13. CASE UNCHANGED vars
      BY <1>13 DEF vars
  <1> QED
      BY <1>1, <1>2, <1>3, <1>4, <1>5, <1>6, <1>7, <1>8, <1>9, <1>10, <1>11, <1>12, <1>13
      DEF Next, WaiterStep

(* Every step keeps ClosedExactly: pause closes the current channel only   *)
(* when it takes the gate from open to closed, and the last resume         *)
(* replaces it by one that was never closed.                               *)
LEMMA ChannelStep == GateInv /\ [Next]_vars => ClosedExactly'
  <1> SUFFICES ASSUME TypeOK, ClosedExactly, [Next]_vars PROVE ClosedExactly'
      BY DEF GateInv
  <1> USE GateAssumption DEF GateAssumption
  <1>1. ASSUME NEW s \in Sources, pause(s) PROVE ClosedExactly'
    <2>1. openLocked' = FALSE
      BY <1>1 DEF pause, openLocked, TypeOK
    <2> QED
      BY <1>1, <2>1 DEF pause, ClosedExactly, TypeOK, tvars, wvars
  <1>2. ASSUME NEW s \in Sources, resume(s) PROVE ClosedExactly'
    <2> DEFINE nowOpen == \A o \in Sources \ {s} : ~paused[o]
    <2>1. /\ openLocked' <=> nowOpen
          /\ ~openLocked
          /\ closed' = closed /\ handed' = handed
          /\ closeNotify' = IF nowOpen THEN closeNotify + 1 ELSE closeNotify
          /\ closeNotify' \in 0..MaxReopens
      BY <1>2 DEF resume, reopen, openLocked, TypeOK
    <2> QED
      BY <2>1 DEF ClosedExactly, TypeOK
  <1>3. ASSUME NEW w \in Waiters, WaiterStep(w) \/ watcher(w) PROVE ClosedExactly'
    <2>1. /\ closed' = closed /\ closeNotify' = closeNotify /\ paused' = paused
          /\ openLocked' = openLocked
      BY <1>3, WaitersKeepGate DEF gvars, openLocked
    <2>2. \A b \in Blocks : handed'[b] \in {handed[b], NoChan, closeNotify}
      BY <1>3 DEF TypeOK, WaiterStep, watcher, waitFast, waitSlow, loop, park, relock, again, Return
    <2> QED
      BY <2>1, <2>2 DEF ClosedExactly, TypeOK
  <1>4. CASE straggler \/ cancel \/ tick \/ UNCHANGED vars
      BY <1>4 DEF straggler, cancel, tick, vars, gvars, tvars, wvars, ClosedExactly, openLocked
  <1> QED
      BY <1>1, <1>2, <1>3, <1>4 DEF Next

(* Every step keeps Accounted: only pause and resume of the operator's     *)
(* source, and the clock, touch what pausedTotal reads.                    *)
LEMMA AccountStep == GateInv /\ [Next]_vars => Accounted'
  <1> SUFFICES ASSUME TypeOK, Accounted, [Next]_vars PROVE Accounted'
      BY DEF GateInv
  <1> USE GateAssumption DEF GateAssumption
  <1>1. ASSUME NEW s \in Sources, pause(s) PROVE Accounted'
      BY <1>1 DEF pause, Accounted, TypeOK, tvars, wvars, Sources, Operator, Schedule
  <1>2. ASSUME NEW s \in Sources, resume(s) PROVE Accounted'
      BY <1>2 DEF resume, reopen, Accounted, TypeOK, tvars, Sources, Operator, Schedule
  <1>3. ASSUME NEW w \in Waiters, WaiterStep(w) \/ watcher(w) PROVE Accounted'
      BY <1>3, WaitersKeepGate DEF Accounted, gvars, tvars
  <1>4. CASE tick
      BY <1>4 DEF tick, Accounted, TypeOK, gvars, wvars, Sources, Operator, Schedule
  <1>5. CASE straggler \/ cancel \/ UNCHANGED vars
      BY <1>5 DEF straggler, cancel, vars, gvars, tvars, wvars, Accounted
  <1> QED
      BY <1>1, <1>2, <1>3, <1>4, <1>5 DEF Next

(* The gate's inductive invariant holds in every reachable state.          *)
THEOREM GateInvariant == Spec => []GateInv
  <1>1. Init => GateInv
    <2> SUFFICES ASSUME Init PROVE GateInv
      OBVIOUS
    <2> USE GateAssumption DEF GateAssumption, Init, newGate
    <2>1. TypeOK
      <3>1. paused \in [Sources -> BOOLEAN] /\ straggling \in BOOLEAN /\ cancelled \in BOOLEAN
        BY Zenon
      <3>2. 0 \in 0..MaxReopens /\ 0 \in 0..MaxNow /\ 0 \in Nat
        BY SMT
      <3> QED
        BY <3>1, <3>2 DEF TypeOK, Locations
    <2>2. ClosedExactly
      BY DEF ClosedExactly, openLocked
    <2>3. Accounted
      BY DEF Accounted, Sources, Operator, Schedule
    <2> QED
      BY <2>1, <2>2, <2>3 DEF GateInv
  <1>2. GateInv /\ [Next]_vars => GateInv'
      BY TypeStep, ChannelStep, AccountStep DEF GateInv
  <1> QED
      BY <1>1, <1>2, PTL DEF Spec

(* pause never closes a closed channel, whatever the order of the pauses   *)
(* and resumes of the two sources.                                         *)
THEOREM ChannelSafety == Spec => []ChannelTracksGate
  <1>1. GateInv => ChannelTracksGate
      BY DEF GateInv, ClosedExactly, ChannelTracksGate, TypeOK
  <1> QED
      BY <1>1, GateInvariant, PTL

(* A block timer's channel is closed as soon as the gate is.               *)
THEOREM HeldChannelSafety == Spec => []HeldChannelCloses
  <1>1. GateInv => HeldChannelCloses
      BY GateAssumption DEF GateAssumption, GateInv, ClosedExactly, HeldChannelCloses, TypeOK
  <1> QED
      BY <1>1, GateInvariant, PTL

(* pausedTotal counts the operator's pauses exactly.                       *)
THEOREM PausedTotalSafety == Spec => []PausedTotalExact
  <1>1. GateInv => PausedTotalExact
      BY DEF GateInv, Accounted, PausedTotalExact, pausedTotal
  <1> QED
      BY <1>1, GateInvariant, PTL

(* No caller is let through a closed gate, for any number of callers and   *)
(* spurious wake-ups.                                                      *)
THEOREM AdmissionSafety == Spec => AdmitsOnlyWhenOpen
  <1>1. TypeOK /\ [Next]_vars =>
          [\A w \in Waiters : (pc[w] # "open" /\ pc'[w] = "open") => openLocked /\ ~cancelled]_vars
    <2> SUFFICES ASSUME TypeOK, Next, NEW w \in Waiters, pc[w] # "open", pc'[w] = "open"
                 PROVE  openLocked /\ ~cancelled
      BY DEF vars
    <2>1. ASSUME NEW v \in Waiters, waitFast(v) \/ loop(v) PROVE openLocked /\ ~cancelled
      BY <2>1 DEF waitFast, loop, Return, TypeOK
    <2>2. ASSUME NEW v \in Waiters, waitSlow(v) \/ park(v) \/ relock(v) \/ again(v) \/ watcher(v)
          PROVE FALSE
      BY <2>2 DEF waitSlow, park, relock, again, watcher, Broadcast, TypeOK
    <2>3. ASSUME NEW s \in Sources, pause(s) \/ resume(s) PROVE FALSE
      BY <2>3 DEF pause, resume, reopen, Broadcast, wvars, TypeOK
    <2>4. CASE straggler \/ cancel \/ tick
      BY <2>4 DEF straggler, cancel, tick, Broadcast, wvars, TypeOK
    <2> QED
      BY <2>1, <2>2, <2>3, <2>4 DEF Next, WaiterStep
  <1>2. GateInv => TypeOK
      BY DEF GateInv
  <1> QED
      BY <1>1, <1>2, GateInvariant, PTL DEF Spec, AdmitsOnlyWhenOpen

(* The mutex and condition variable of gate.go implement the atomic gate   *)
(* the rest of the engine relies on.                                       *)
THEOREM GateRefinement == Spec => RefinesGateSpec
  <1>1. Init => Abstract!GateInit
      BY DEF Init, newGate, Abstract!GateInit
  <1>2. GateInv /\ [Next]_vars => [Abstract!GateNext]_(Abstract!gateVars)
    <2> SUFFICES ASSUME TypeOK, [Next]_vars
                 PROVE  Abstract!GateNext \/ UNCHANGED <<paused, closeNotify, handed>>
      BY DEF GateInv, Abstract!gateVars
    <2>1. ASSUME NEW s \in Sources, pause(s) PROVE Abstract!Pause(s)
      BY <2>1 DEF pause, Abstract!Pause, wvars
    <2>2. ASSUME NEW s \in Sources, resume(s) PROVE Abstract!Resume(s)
      BY <2>2, GateAssumption DEF GateAssumption, TypeOK, resume, reopen, Abstract!Resume
    <2>3. ASSUME NEW w \in Waiters, loop(w) \/ waitFast(w)
          PROVE  (\E c \in Blocks : Abstract!Enter(c)) \/ UNCHANGED <<paused, closeNotify, handed>>
      BY <2>3 DEF loop, waitFast, Return, gvars, openLocked, Abstract!Enter, Abstract!Open
    <2>4. ASSUME NEW w \in Waiters, again(w)
          PROVE  (\E c \in Blocks : Abstract!Leave(c)) \/ UNCHANGED <<paused, closeNotify, handed>>
      BY <2>4 DEF again, gvars, Abstract!Leave
    <2>5. ASSUME NEW w \in Waiters, waitSlow(w) \/ park(w) \/ relock(w) \/ watcher(w)
          PROVE  UNCHANGED <<paused, closeNotify, handed>>
      BY <2>5 DEF waitSlow, park, relock, watcher, gvars
    <2>6. CASE straggler \/ cancel \/ tick \/ UNCHANGED vars
      BY <2>6 DEF straggler, cancel, tick, vars, gvars, wvars
    <2> QED
      BY <2>1, <2>2, <2>3, <2>4, <2>5, <2>6 DEF Next, WaiterStep, Abstract!GateNext
  <1> QED
      BY <1>1, <1>2, GateInvariant, PTL DEF Spec, RefinesGateSpec, Abstract!GateSpecification
=============================================================================
