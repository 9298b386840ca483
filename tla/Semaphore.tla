----------------------------- MODULE Semaphore -----------------------------
(***************************************************************************)
(* internal/engine/semaphore.go: the resizable semaphore that bounds the   *)
(* actions in flight, at the grain of its mutex and condition variable.    *)
(*                                                                         *)
(* Users are the workers of the semaphore's block: acquire, hold, release, *)
(* again.  Setters are the block's ramp governor and, in the first block,  *)
(* ApplyPatch, which resize.  release and setLimit change the counters     *)
(* under the mutex and notify after unlocking it, and the watcher of an    *)
(* acquire broadcasts without the mutex, so a waiter can be overtaken in   *)
(* between.  The notify list of sync.Cond is first in, first out.          *)
(***************************************************************************)
EXTENDS Naturals, Sequences, FiniteSets

CONSTANTS Users,       \* worker goroutines
          Setters,     \* goroutines calling setLimit
          Limits,      \* the limits they set
          MaxResizes,  \* bound on setLimit calls
          Free         \* the mutex has no holder

(* Every caller sets at least 1: concurrencyAt, patchConcurrency and       *)
(* initialLimit have that floor.                                           *)
ASSUME SemaphoreAssumption == /\ IsFiniteSet(Users)
                              /\ Limits \subseteq Nat \ {0} /\ Limits # {}
                              /\ MaxResizes \in Nat
                              /\ Free \notin Users

VARIABLES limit, held,   \* the semaphore's fields
          mu,            \* holder of s.mu, or Free
          queue,         \* the notify list of s.cond
          pc,            \* where each user is
          watching,      \* users whose watcher goroutine still runs
          straggling,    \* a watcher may outlive its acquire
          announcing,    \* setters that have unlocked and not yet broadcast
          resizes,       \* setLimit calls so far
          peak,          \* history: the largest limit so far
          cancelled      \* the run context is done

counters == <<limit, held, peak>>
semVars == <<limit, held, mu, queue, pc, watching, straggling, announcing, resizes, peak, cancelled>>

(* idle: no permit wanted.  entering: watcher started, mutex not yet held. *)
(* loop: holds mu at the loop's test.  parking: read ctx.Err() = nil, not  *)
(* yet on the notify list.  parked, woken: inside Cond.Wait.  holding: has *)
(* a permit.  signalling: returned it, Signal still to come.  failed: the  *)
(* worker saw ctx.Err() and returned.                                      *)
Locations == {"idle", "entering", "loop", "parking", "parked", "woken", "holding", "signalling",
              "failed"}

SemTypeOK ==
    /\ limit \in Limits
    /\ held \in Nat
    /\ mu \in Users \cup {Free}
    /\ queue \in Seq(Users)
    /\ pc \in [Users -> Locations]
    /\ watching \subseteq Users
    /\ straggling \in BOOLEAN
    /\ announcing \subseteq Setters
    /\ resizes \in 0..MaxResizes
    /\ peak \in Limits
    /\ cancelled \in BOOLEAN

SemInit ==
    /\ limit \in Limits
    /\ held = 0
    /\ mu = Free
    /\ queue = <<>>
    /\ pc = [u \in Users |-> "idle"]
    /\ watching = {}
    /\ straggling = FALSE
    /\ announcing = {}
    /\ resizes = 0
    /\ peak = limit
    /\ cancelled = FALSE

-----------------------------------------------------------------------------
Goto(u, l) == pc' = [pc EXCEPT ![u] = l]

(* cond.Broadcast and cond.Signal.                                         *)
Broadcast == /\ queue' = <<>>
             /\ pc' = [u \in Users |-> IF pc[u] = "parked" THEN "woken" ELSE pc[u]]

(* Entry of acquire, before the lock.                                      *)
acquire(u) ==
    /\ pc[u] = "idle"
    /\ IF cancelled THEN Goto(u, "failed") /\ UNCHANGED watching
       ELSE Goto(u, "entering") /\ watching' = watching \cup {u}
    /\ UNCHANGED <<counters, mu, queue, straggling, announcing, resizes, cancelled>>

(* The mutex is taken: on entry, and again inside Cond.Wait.               *)
lock(u) ==
    /\ pc[u] \in {"entering", "woken"}
    /\ mu = Free
    /\ mu' = u
    /\ Goto(u, "loop")
    /\ UNCHANGED <<counters, queue, watching, straggling, announcing, resizes, cancelled>>

(* acquire returns: Unlock, and close(done) for the watcher.               *)
Return(u, l) == /\ Goto(u, l)
                /\ mu' = Free
                /\ watching' = watching \ {u}
                /\ straggling' = (straggling \/ u \in watching)

loopLeaks(u) ==
    /\ pc[u] = "loop"
    /\ IF held < limit
       THEN Return(u, IF cancelled THEN "failed" ELSE "holding") /\ held' = held + 1
       ELSE Goto(u, "parking") /\ UNCHANGED <<held, mu, watching, straggling>>
    /\ UNCHANGED <<limit, peak, queue, announcing, resizes, cancelled>>

(* for s.held >= s.limit: a free permit is taken even when the context is  *)
(* done; only a blocked caller looks at it.                                *)
loop(u) ==
    /\ pc[u] = "loop"
    /\ \/ /\ held < limit
          /\ held' = held + 1
          /\ Return(u, "holding")
       \/ /\ held >= limit
          /\ cancelled
          /\ Return(u, "failed")
          /\ UNCHANGED held
       \/ /\ held >= limit
          /\ ~cancelled
          /\ Goto(u, "parking")
          /\ UNCHANGED <<held, mu, watching, straggling>>
    /\ UNCHANGED <<limit, peak, queue, announcing, resizes, cancelled>>

(* cond.Wait: join the notify list, unlock.                                *)
park(u) ==
    /\ pc[u] = "parking"
    /\ Goto(u, "parked")
    /\ queue' = Append(queue, u)
    /\ mu' = Free
    /\ UNCHANGED <<counters, watching, straggling, announcing, resizes, cancelled>>

(* release, under the mutex.                                               *)
release(u) ==
    /\ pc[u] = "holding"
    /\ mu = Free
    /\ held' = IF held > 0 THEN held - 1 ELSE held
    /\ Goto(u, "signalling")
    /\ UNCHANGED <<limit, peak, mu, queue, watching, straggling, announcing, resizes, cancelled>>

(* Mutant: nobody is told of the permit.                                   *)
signalNobody(u) ==
    /\ pc[u] = "signalling"
    /\ Goto(u, "idle")
    /\ UNCHANGED <<counters, mu, queue, watching, straggling, announcing, resizes, cancelled>>

(* release's Signal: wakes the user at the head of the notify list.        *)
signal(u) ==
    /\ pc[u] = "signalling"
    /\ IF queue = <<>> THEN Goto(u, "idle") /\ UNCHANGED queue
       ELSE /\ pc' = [pc EXCEPT ![u] = "idle", ![Head(queue)] = "woken"]
            /\ queue' = Tail(queue)
    /\ UNCHANGED <<counters, mu, watching, straggling, announcing, resizes, cancelled>>

(* setLimit, under the mutex, and its Broadcast.                           *)
setLimit(s, n) ==
    /\ s \notin announcing
    /\ resizes < MaxResizes
    /\ resizes' = resizes + 1
    /\ mu = Free
    /\ limit' = n
    /\ peak' = IF n > peak THEN n ELSE peak
    /\ announcing' = announcing \cup {s}
    /\ UNCHANGED <<held, mu, queue, pc, watching, straggling, cancelled>>

announce(s) ==
    /\ s \in announcing
    /\ announcing' = announcing \ {s}
    /\ Broadcast
    /\ UNCHANGED <<counters, mu, watching, straggling, resizes, cancelled>>

(* The watcher of a pending acquire sees ctx.Done().                       *)
watcher(u) ==
    /\ u \in watching
    /\ cancelled
    /\ watching' = watching \ {u}
    /\ Broadcast
    /\ UNCHANGED <<counters, mu, straggling, announcing, resizes, cancelled>>

(* A watcher whose acquire has returned: it ends, and may broadcast first. *)
straggler ==
    /\ straggling
    /\ straggling' \in BOOLEAN
    /\ \/ cancelled /\ Broadcast
       \/ UNCHANGED <<queue, pc>>
    /\ UNCHANGED <<counters, mu, watching, announcing, resizes, cancelled>>

cancel == /\ ~cancelled
          /\ cancelled' = TRUE
          /\ UNCHANGED <<counters, mu, queue, pc, watching, straggling, announcing, resizes>>

UserStep(u) == \/ acquire(u) \/ lock(u) \/ loop(u) \/ park(u)
               \/ release(u) \/ signal(u)

SemNext ==
    \/ \E u \in Users : UserStep(u) \/ watcher(u)
    \/ \E s \in Setters : announce(s) \/ \E n \in Limits : setLimit(s, n)
    \/ straggler
    \/ cancel

SemSpec == SemInit /\ [][SemNext]_semVars

(* Runnable goroutines run, the mutex does not starve (sync.Mutex's        *)
(* starvation mode), and a worker that holds a permit finishes its action. *)
(* Nobody has to resize, cancel or want another permit.                    *)
SemFairness ==
    /\ \A u \in Users : /\ SF_semVars(lock(u)) /\ WF_semVars(loop(u)) /\ WF_semVars(park(u))
                        /\ SF_semVars(release(u)) /\ WF_semVars(signal(u))
                        /\ WF_semVars(watcher(u))
    /\ \A s \in Setters : WF_semVars(announce(s))

SemFairSpec == SemSpec /\ SemFairness

-----------------------------------------------------------------------------
Holders == {u \in Users : pc[u] = "holding"}

(* No permit is leaked or returned twice: held counts the workers inside,  *)
(* through every interleaving of acquire, release, resize and cancel.  So  *)
(* release's test of held > 0 never hides anything.                        *)
PermitsBalanced == held = Cardinality(Holders)

(* There are never more workers inside than the largest limit so far: a    *)
(* lowered limit drains, and nobody enters on a stale reading of it.       *)
WithinPeak == held <= peak

Waiting(u) == pc[u] \in {"entering", "loop", "parking", "parked", "woken"}

(* A free permit does not lie idle: it never happens that from some point  *)
(* on permits are free and somebody is parked all the time.  Signal wakes  *)
(* one waiter, which may lose the permit to a newcomer or find the limit   *)
(* lowered, and goes back to sleep.                                        *)
NoIdlePermit == []<>~(held < limit /\ \E u \in Users : pc[u] = "parked")

(* A lowered limit takes effect: the surplus drains.                       *)
LowerDrains == []<>(held <= limit)

(* Stop unblocks every waiter (semaphore.go:28-29).  The watcher can       *)
(* broadcast before its waiter is on the notify list, as in the gate; here *)
(* the Signal of a permit's release reaches the one waiter it can miss.    *)
CancelReleases == \A u \in Users : (cancelled /\ Waiting(u)) ~> ~Waiting(u)
=============================================================================
