----------------------------- MODULE FakeClock -----------------------------
(***************************************************************************)
(* internal/clock/fake.go, the clock the engine's tests run on.  A sleep   *)
(* or timer is measured from the instant at which it is registered and is  *)
(* fired by the Advance that reaches its deadline; the real clock differs  *)
(* only in that nobody calls Advance.  Each goroutine has at most one      *)
(* waiter.  AfterFunc and Set are used by no part of the engine.           *)
(***************************************************************************)
EXTENDS Integers

CONSTANTS Goroutines,  \* those that sleep or set timers
          Horizon      \* bound on the clock

VARIABLES now,
          deadline,    \* of each goroutine's waiter, or Idle
          fired        \* goroutines whose channel holds a value

clockVars == <<now, deadline, fired>>

Idle == -1

ClockInit == now = 0 /\ deadline = [g \in Goroutines |-> Idle] /\ fired = {}

(* Sleep and NewTimer, through addWaiter: a duration of zero or less does  *)
(* not wait.  The goroutine has taken its last value.                      *)
AddWaiter(g, d) ==
    /\ deadline' = [deadline EXCEPT ![g] = IF d <= 0 THEN Idle ELSE now + d]
    /\ fired' = IF d <= 0 THEN fired \cup {g} ELSE fired \ {g}
    /\ UNCHANGED now

(* The value is received, or the waiter stopped, and no new one made.      *)
DropWaiter(g) ==
    /\ deadline' = [deadline EXCEPT ![g] = Idle] /\ fired' = fired \ {g}
    /\ UNCHANGED now

(* Advance and fireDue: one pass over the waiters that are due.            *)
Advance(d) ==
    /\ now + d <= Horizon
    /\ now' = now + d
    /\ LET due == {g \in Goroutines : deadline[g] # Idle /\ deadline[g] <= now'} IN
       /\ fired' = fired \cup due
       /\ deadline' = [g \in Goroutines |-> IF g \in due THEN Idle ELSE deadline[g]]
=============================================================================
