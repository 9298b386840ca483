-------------------------------- MODULE Gate --------------------------------
(***************************************************************************)
(* internal/engine/gate.go: the dual-source pause gate, at the grain of    *)
(* its mutex, its condition variable and the watcher goroutine that every  *)
(* blocked caller starts to turn a context cancellation into a Broadcast.  *)
(*                                                                         *)
(* Workers call wait; Blocks (the runBlockDuration goroutines) call        *)
(* waitOpenAndGetCloseCh.  pause and resume hold the mutex from beginning  *)
(* to end and are one step each.  A waiter is split where another thread   *)
(* can act: sync.Cond.Wait joins the notify list (Park) some time after    *)
(* the waiter read ctx.Err(), and a watcher broadcasts WITHOUT the mutex.  *)
(***************************************************************************)
EXTENDS Integers

CONSTANTS Workers,     \* goroutines calling gate.wait
          Blocks,      \* goroutines calling gate.waitOpenAndGetCloseCh
          MaxReopens,  \* bound on the number of closeNotify channels made
          MaxNow,      \* bound on the clock
          Free,        \* the mutex has no holder
          NoChan,      \* the caller holds no channel
          NoTime       \* the zero time.Time

Waiters == Workers \cup Blocks

Operator == "operator"
Schedule == "schedule"

(* gateSource: the operator's manual pause and the scheduler's edge.       *)
Sources == {Operator, Schedule}

ASSUME GateAssumption == /\ Workers \cap Blocks = {}
                         /\ MaxReopens \in Nat
                         /\ MaxNow \in Nat
                         /\ Free \notin Waiters
                         /\ NoChan \notin Nat
                         /\ NoTime \notin Nat

VARIABLES paused,         \* gate.paused
          closeNotify,    \* gate.closeNotify, by generation
          closed,         \* the generations whose channel has been closed
          opPausedAt,     \* gate.opPausedAt
          opPausedTotal,  \* gate.opPausedTotal
          now,            \* the injected clock
          opTicks,        \* history: ticks that passed while the operator paused
          mu,             \* holder of gate.mu, or Free
          pc,             \* where each waiter is
          watching,       \* waiters whose watcher goroutine still runs
          straggling,     \* a watcher may still run after its caller returned
          handed,         \* channel returned to a block by its last call
          cancelled       \* the run context is done

gvars == <<paused, closeNotify, closed, opPausedAt, opPausedTotal>>
tvars == <<now, opTicks>>
wvars == <<mu, pc, watching, straggling, handed>>
vars == <<paused, closeNotify, closed, opPausedAt, opPausedTotal, now, opTicks,
          mu, pc, watching, straggling, handed, cancelled>>

(* idle: outside the gate.  loop: holds mu at the head of the wait loop.   *)
(* parking: holds mu, has read ctx.Err() = nil, not yet on the notify list.*)
(* parked / woken: inside Cond.Wait, before / after it was notified.       *)
(* open / failed: the call returned nil / ctx.Err().                       *)
Locations == {"idle", "loop", "parking", "parked", "woken", "open", "failed"}

TypeOK == /\ paused \in [Sources -> BOOLEAN]
          /\ closeNotify \in 0..MaxReopens
          /\ closed \subseteq 0..MaxReopens
          /\ opPausedAt \in (0..MaxNow) \cup {NoTime}
          /\ opPausedTotal \in Nat
          /\ now \in 0..MaxNow
          /\ opTicks \in Nat
          /\ mu \in Waiters \cup {Free}
          /\ pc \in [Waiters -> Locations]
          /\ watching \subseteq Waiters
          /\ straggling \in BOOLEAN
          /\ handed \in [Blocks -> (0..MaxReopens) \cup {NoChan}]
          /\ cancelled \in BOOLEAN

-----------------------------------------------------------------------------
openLocked == \A s \in Sources : ~paused[s]

newGate == /\ paused = [s \in Sources |-> FALSE]
           /\ closeNotify = 0
           /\ closed = {}
           /\ opPausedAt = NoTime
           /\ opPausedTotal = 0

Init == /\ newGate
        /\ now = 0
        /\ opTicks = 0
        /\ mu = Free
        /\ pc = [w \in Waiters |-> "idle"]
        /\ watching = {}
        /\ straggling = FALSE
        /\ handed = [b \in Blocks |-> NoChan]
        /\ cancelled = FALSE

(* cond.Broadcast: everyone on the notify list leaves it.                  *)
Broadcast == [w \in Waiters |-> IF pc[w] = "parked" THEN "woken" ELSE pc[w]]

(* Mutant: the early return for an already paused source is dropped.       *)
pauseNotIdempotent(src) ==
    /\ mu = Free
    /\ paused' = [paused EXCEPT ![src] = TRUE]
    /\ opPausedAt' = IF src = Operator THEN now ELSE opPausedAt
    /\ closed' = IF openLocked THEN closed \cup {closeNotify} ELSE closed
    /\ UNCHANGED <<closeNotify, opPausedTotal, tvars, wvars, cancelled>>

pause(src) ==
    /\ mu = Free
    /\ ~paused[src]
    /\ paused' = [paused EXCEPT ![src] = TRUE]
    /\ opPausedAt' = IF src = Operator THEN now ELSE opPausedAt
    /\ closed' = IF openLocked THEN closed \cup {closeNotify} ELSE closed
    /\ UNCHANGED <<closeNotify, opPausedTotal, tvars, wvars, cancelled>>

(* What resume does, with the waiters left in location pcs.                *)
reopen(src, pcs) ==
    LET nowOpen == \A o \in Sources \ {src} : ~paused[o]
        opEnds  == src = Operator /\ opPausedAt # NoTime
    IN /\ mu = Free
       /\ paused[src]
       /\ nowOpen => closeNotify < MaxReopens
       /\ paused' = [paused EXCEPT ![src] = FALSE]
       /\ opPausedTotal' = IF opEnds THEN opPausedTotal + (now - opPausedAt) ELSE opPausedTotal
       /\ opPausedAt' = IF opEnds THEN NoTime ELSE opPausedAt
       /\ closeNotify' = IF nowOpen THEN closeNotify + 1 ELSE closeNotify
       /\ pc' = pcs
       /\ UNCHANGED <<closed, tvars, mu, watching, straggling, handed, cancelled>>

(* Mutant: resume forgets the Broadcast.                                   *)
resumeSilent(src) == reopen(src, pc)

(* Mutant: any resume replaces the channel, even with another source shut. *)
resumeAlwaysReplaces(src) ==
    /\ mu = Free
    /\ paused[src]
    /\ closeNotify < MaxReopens
    /\ paused' = [paused EXCEPT ![src] = FALSE]
    /\ closeNotify' = closeNotify + 1
    /\ pc' = Broadcast
    /\ UNCHANGED <<closed, opPausedAt, opPausedTotal, tvars, mu, watching, straggling, handed, cancelled>>

resume(src) == reopen(src, Broadcast)

-----------------------------------------------------------------------------
(* The call returns: the deferred Unlock frees the mutex, the deferred     *)
(* close(stop) tells the watcher to end, which it does in its own time.    *)
Return(w) ==
    /\ mu' = Free
    /\ watching' = watching \ {w}
    /\ straggling' = (straggling \/ w \in watching)
    /\ pc' = [pc EXCEPT ![w] = IF cancelled THEN "failed" ELSE "open"]
    /\ handed' = IF w \in Blocks /\ ~cancelled
                 THEN [handed EXCEPT ![w] = closeNotify] ELSE handed

(* wait on an open gate: no watcher is started.                            *)
waitFast(w) ==
    /\ w \in Workers
    /\ pc[w] = "idle"
    /\ mu = Free
    /\ openLocked
    /\ Return(w)
    /\ UNCHANGED <<gvars, tvars, cancelled>>

(* Entry of wait on a closed gate and of waitOpenAndGetCloseCh: take the   *)
(* mutex and start the watcher.                                            *)
waitSlow(w) ==
    /\ pc[w] = "idle"
    /\ mu = Free
    /\ w \in Workers => ~openLocked
    /\ mu' = w
    /\ watching' = watching \cup {w}
    /\ pc' = [pc EXCEPT ![w] = "loop"]
    /\ UNCHANGED <<gvars, tvars, straggling, handed, cancelled>>

(* The head of the for loop, with its two early returns.                   *)
loop(w) ==
    /\ pc[w] = "loop"
    /\ mu = w
    /\ \/ /\ openLocked \/ cancelled
          /\ Return(w)
       \/ /\ ~openLocked /\ ~cancelled
          /\ pc' = [pc EXCEPT ![w] = "parking"]
          /\ UNCHANGED <<mu, watching, straggling, handed>>
    /\ UNCHANGED <<gvars, tvars, cancelled>>

(* cond.Wait, first half: join the notify list, then unlock.               *)
park(w) ==
    /\ pc[w] = "parking"
    /\ pc' = [pc EXCEPT ![w] = "parked"]
    /\ mu' = Free
    /\ UNCHANGED <<gvars, tvars, watching, straggling, handed, cancelled>>

(* cond.Wait, second half: a notified waiter takes the mutex again.        *)
relock(w) ==
    /\ pc[w] = "woken"
    /\ mu = Free
    /\ mu' = w
    /\ pc' = [pc EXCEPT ![w] = "loop"]
    /\ UNCHANGED <<gvars, tvars, watching, straggling, handed, cancelled>>

(* The watcher goroutine: broadcasts once on ctx.Done(), without the lock. *)
watcher(w) ==
    /\ w \in watching
    /\ cancelled
    /\ watching' = watching \ {w}
    /\ pc' = Broadcast
    /\ UNCHANGED <<gvars, tvars, mu, straggling, handed, cancelled>>

(* A watcher whose caller has returned finds stop closed and ends, or, if  *)
(* the context is done as well, may take that branch of its select.        *)
straggler ==
    /\ straggling
    /\ straggling' \in BOOLEAN
    /\ \/ cancelled /\ pc' = Broadcast
       \/ UNCHANGED pc
    /\ UNCHANGED <<gvars, tvars, mu, watching, handed, cancelled>>

(* The caller comes back: the worker's next step, the block's next segment.*)
again(w) ==
    /\ pc[w] = "open"
    /\ pc' = [pc EXCEPT ![w] = "idle"]
    /\ handed' = IF w \in Blocks THEN [handed EXCEPT ![w] = NoChan] ELSE handed
    /\ UNCHANGED <<gvars, tvars, mu, watching, straggling, cancelled>>

-----------------------------------------------------------------------------
(* Environment: the run context is cancelled once; the clock advances.     *)
cancel == /\ ~cancelled
          /\ cancelled' = TRUE
          /\ UNCHANGED <<gvars, tvars, wvars>>

tick == /\ now < MaxNow
        /\ now' = now + 1
        /\ opTicks' = IF paused[Operator] THEN opTicks + 1 ELSE opTicks
        /\ UNCHANGED <<gvars, wvars, cancelled>>

WaiterStep(w) == \/ waitFast(w) \/ waitSlow(w) \/ loop(w) \/ park(w)
                 \/ relock(w) \/ again(w)

Next == \/ \E s \in Sources : pause(s) \/ resume(s)
        \/ \E w \in Waiters : WaiterStep(w) \/ watcher(w)
        \/ straggler
        \/ cancel
        \/ tick

Spec == Init /\ [][Next]_vars

(* The Go scheduler runs every runnable goroutine, and sync.Mutex hands    *)
(* the lock over in arrival order once a waiter starves: strong fairness   *)
(* for the steps that take the mutex, weak fairness for the others.  None  *)
(* for pause, resume, cancel and the clock, which are the callers' choice, *)
(* nor for starting another wait.                                          *)
Fairness == \A w \in Waiters : /\ WF_vars(loop(w))
                               /\ WF_vars(park(w))
                               /\ SF_vars(relock(w))
                               /\ WF_vars(watcher(w))

FairSpec == Spec /\ Fairness

-----------------------------------------------------------------------------
(* pausedTotal: the accumulated total plus the pause in progress.          *)
pausedTotal == IF opPausedAt = NoTime THEN opPausedTotal
               ELSE opPausedTotal + (now - opPausedAt)

(* pausedTotal is exactly the time that passed while the operator source   *)
(* was paused, over any sequence of repeated pauses and resumes of both    *)
(* sources: schedule pauses do not contribute, repeated pauses do not      *)
(* restart the interval.                                                   *)
PausedTotalExact == pausedTotal = opTicks

(* The current closeNotify channel is closed exactly while the gate is     *)
(* closed.  So close(g.closeNotify) in pause never closes a channel twice  *)
(* (a Go panic), whichever source pauses and resumes in whichever order.   *)
ChannelTracksGate == (closeNotify \in closed) <=> ~openLocked

(* A block timer is never left selecting on a channel nobody will close:   *)
(* whenever the gate is closed, every channel a block still holds has been *)
(* closed, and a channel is fresh only if it is the current one.           *)
HeldChannelCloses ==
    \A b \in Blocks : handed[b] # NoChan =>
        (handed[b] \in closed <=> (handed[b] # closeNotify \/ ~openLocked))

(* wait and waitOpenAndGetCloseCh return nil only while every source is    *)
(* open and the context is live, however often a waiter was woken before,  *)
(* by a half-open resume or by another caller's watcher.                   *)
AdmitsOnlyWhenOpen ==
    [][\A w \in Waiters : (pc[w] # "open" /\ pc'[w] = "open") =>
          openLocked /\ ~cancelled]_vars

Blocked(w) == pc[w] \in {"loop", "parking", "parked", "woken"}

(* A gate that is reopened and stays open lets every blocked caller out:   *)
(* the Broadcast of resume, made under the mutex, is never lost.           *)
ReopenReleases ==
    \A w \in Waiters : [](([]openLocked) => <>(~Blocked(w)))

(* gate.go:106 "if ctx is canceled while blocked, wait returns ctx.Err()   *)
(* promptly": a cancelled context lets every blocked caller out.           *)
CancelReleases == \A w \in Waiters : (cancelled /\ Blocked(w)) ~> ~Blocked(w)

-----------------------------------------------------------------------------
(* The mutex and condition variable implement the atomic gate.             *)
Abstract == INSTANCE GateSpec WITH Clients <- Blocks, gen <- closeNotify, seen <- handed

(* Every step of the fine-grained gate is an atomic pause, resume, entry   *)
(* or exit of GateSpec, or changes nothing a client can see.               *)
RefinesGateSpec == Abstract!GateSpecification
=============================================================================
