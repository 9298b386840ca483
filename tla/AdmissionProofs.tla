-------------------------- MODULE AdmissionProofs --------------------------
(***************************************************************************)
(* What a worker passes on its way to a request: the circuit breaker of    *)
(* the target, for any threshold, cooldown and number of overlapping       *)
(* requests; the semaphore of the block, for any number of workers and     *)
(* resizes; the rate limiter, for any rates, bursts, targets and callers.  *)
(*                                                                         *)
(* PermitsBalanced is not inductive: a Signal overwrites the location of   *)
(* the user at the head of the notify list, so it has to be known that the *)
(* list holds those who are parked and nobody else.  NoLostWakeup needs    *)
(* the mutex: between the test of the loop and Cond.Wait's joining of the  *)
(* list no permit may become free unannounced.  The limiter's bounds       *)
(* forget what is still in the bucket, and the strengthening adds it: what *)
(* the window admitted, plus what the bucket could admit now, is within    *)
(* the burst and the window's refills.                                     *)
(***************************************************************************)
EXTENDS Breaker, Semaphore, Limiter, FiniteSetTheorems, TLAPS

(* While closed, the breaker's own count is the true streak, and below the *)
(* threshold: only in Closed, since a failed probe is not counted.         *)
Counted == brk.state = "Closed" => brk.fails = streak /\ streak < Threshold

(* While open, the last probe is at least as old as the cooldown running.  *)
Cooling == brk.state = "Open" => brk.age <= sinceProbe

(* The inductive invariant.                                                *)
BreakerInv == BreakerTypeOK /\ Counted /\ Cooling /\ HalfOpenHasProbe

(* What each operation of the breaker returns, field by field.             *)
LEMMA BreakerOpsType ==
    ASSUME NEW b \in BreakerType
    PROVE /\ NewBreaker \in BreakerType
          /\ Allow(b) \in BreakerType
          /\ RecordSuccess(b) \in BreakerType
          /\ RecordFailure(b) \in BreakerType
          /\ ForceOpen(b) \in BreakerType
          /\ Elapse(b) \in BreakerType
<1> USE BreakerAssumption DEF BreakerType, BreakerStates, open
<1>1. NewBreaker \in BreakerType
      BY DEF NewBreaker
<1>2. Allow(b) \in BreakerType
      BY DEF Allow
<1>3. RecordSuccess(b) \in BreakerType
      BY DEF RecordSuccess
<1>4. RecordFailure(b) \in BreakerType
      BY DEF RecordFailure
<1>5. ForceOpen(b) \in BreakerType
      BY DEF ForceOpen
<1>6. Elapse(b) \in BreakerType
      BY DEF Elapse
<1> QED
      BY <1>1, <1>2, <1>3, <1>4, <1>5, <1>6

(* RecordFailure by the state it finds: below the threshold a closed       *)
(* breaker counts, at the threshold it opens, and it never ends half-open. *)
LEMMA FailureCases ==
    ASSUME NEW b \in BreakerType
    PROVE /\ RecordFailure(b).state # "HalfOpen"
          /\ RecordFailure(b).state = "Closed" =>
                /\ b.state = "Closed"
                /\ RecordFailure(b).fails = b.fails + 1
                /\ b.fails + 1 < Threshold
          /\ RecordFailure(b).state = "Open" =>
                \/ RecordFailure(b).age = 0
                \/ b.state = "Open" /\ RecordFailure(b).age = b.age
          /\ b.state = "Closed" /\ RecordFailure(b).state = "Open" => b.fails + 1 >= Threshold
BY BreakerAssumption DEF RecordFailure, open, BreakerType, BreakerStates

(* Every step keeps the type of every variable.                            *)
LEMMA BreakerTypeStep == BreakerInv /\ [BreakerNext]_breakerVars => BreakerTypeOK'
<1> SUFFICES ASSUME BreakerInv, [BreakerNext]_breakerVars PROVE BreakerTypeOK'
    OBVIOUS
<1> USE BreakerAssumption, RequestAssumption DEF BreakerInv, BreakerTypeOK, env
<1>1. ASSUME NEW r \in Requests, Admit(r) PROVE BreakerTypeOK'
      BY <1>1, BreakerOpsType DEF Admit
<1>2. ASSUME NEW r \in Requests, Succeed(r) PROVE BreakerTypeOK'
      BY <1>2, BreakerOpsType DEF Succeed, Land
<1>3. ASSUME NEW r \in Requests, Fail(r) PROVE BreakerTypeOK'
      BY <1>3, BreakerOpsType DEF Fail, Land
<1>4. ASSUME NEW r \in Requests, Abandon(r) PROVE BreakerTypeOK'
      BY <1>4 DEF Abandon, Land
<1>5. CASE Disable
      BY <1>5, BreakerOpsType DEF Disable
<1>6. CASE BreakerTick
      BY <1>6, BreakerOpsType DEF BreakerTick
<1>7. CASE Heal \/ StopRun
      BY <1>7 DEF Heal, StopRun
<1>8. CASE UNCHANGED breakerVars
      BY <1>8 DEF breakerVars
<1> QED
      BY <1>1, <1>2, <1>3, <1>4, <1>5, <1>6, <1>7, <1>8 DEF BreakerNext

(* Every step keeps the rest of the invariant.                             *)
LEMMA BreakerInvStep == BreakerInv /\ [BreakerNext]_breakerVars => (Counted /\ Cooling /\ HalfOpenHasProbe)'
<1> SUFFICES ASSUME BreakerInv, [BreakerNext]_breakerVars PROVE (Counted /\ Cooling /\ HalfOpenHasProbe)'
    OBVIOUS
<1> USE BreakerAssumption DEF BreakerInv, BreakerTypeOK, Counted, Cooling, HalfOpenHasProbe, env,
        BreakerType, BreakerStates
<1>1. ASSUME NEW r \in Requests, Admit(r) PROVE (Counted /\ Cooling /\ HalfOpenHasProbe)'
      BY <1>1 DEF Admit, Allow, Admits, CooledDown
<1>2. ASSUME NEW r \in Requests, Succeed(r) PROVE (Counted /\ Cooling /\ HalfOpenHasProbe)'
      BY <1>2 DEF Succeed, Land, RecordSuccess
<1>3. ASSUME NEW r \in Requests, Fail(r) PROVE (Counted /\ Cooling /\ HalfOpenHasProbe)'
      BY <1>3, FailureCases DEF Fail, Land
<1>4. ASSUME NEW r \in Requests, Abandon(r) PROVE (Counted /\ Cooling /\ HalfOpenHasProbe)'
      BY <1>4 DEF Abandon
<1>5. CASE Disable
      BY <1>5 DEF Disable, ForceOpen, open
<1>6. CASE BreakerTick
      BY <1>6 DEF BreakerTick, Elapse
<1>7. CASE Heal \/ StopRun
      BY <1>7 DEF Heal, StopRun
<1>8. CASE UNCHANGED breakerVars
      BY <1>8 DEF breakerVars
<1> QED
      BY <1>1, <1>2, <1>3, <1>4, <1>5, <1>6, <1>7, <1>8 DEF BreakerNext

-----------------------------------------------------------------------------
(* The breaker's inductive invariant holds in every reachable state.       *)
THEOREM BreakerInvariant == BreakerSpec => []BreakerInv
<1>1. BreakerInit => BreakerInv
  <2> SUFFICES ASSUME BreakerInit PROVE BreakerInv
      OBVIOUS
  <2> USE BreakerAssumption, RequestAssumption DEF BreakerInit
  <2>1. NewBreaker \in BreakerType
        BY DEF NewBreaker, BreakerType, BreakerStates
  <2>2. BreakerTypeOK
    <3>1. healed \in BOOLEAN /\ stopping \in BOOLEAN /\ brk \in BreakerType /\ sound \subseteq Requests
          BY <2>1, Zenon
    <3>2. flight \in [Requests -> {"idle", "normal", "probe"}]
          OBVIOUS
    <3>3. forced \in 0..MaxForced /\ streak \in 0..Threshold /\ sinceProbe \in 0..Cooldown
          BY SMT
    <3> QED
          BY <3>1, <3>2, <3>3 DEF BreakerTypeOK
  <2>3. Counted /\ Cooling /\ HalfOpenHasProbe
        BY DEF NewBreaker, Counted, Cooling, HalfOpenHasProbe
  <2> QED
        BY <2>2, <2>3 DEF BreakerInv
<1>2. BreakerInv /\ [BreakerNext]_breakerVars => BreakerInv'
      BY BreakerTypeStep, BreakerInvStep DEF BreakerInv
<1> QED
      BY <1>1, <1>2, PTL DEF BreakerSpec

(* A closed breaker has seen fewer than Threshold failures in a row.       *)
THEOREM ClosedSafety == BreakerSpec => []ClosedBelowThreshold
<1>1. BreakerInv => ClosedBelowThreshold
      BY DEF BreakerInv, Counted, ClosedBelowThreshold
<1> QED
      BY <1>1, BreakerInvariant, PTL

(* A half-open breaker of a live run always has a probe in flight.         *)
THEOREM NeverWedged == BreakerSpec => []HalfOpenHasProbe
<1>1. BreakerInv => HalfOpenHasProbe
      BY DEF BreakerInv
<1> QED
      BY <1>1, BreakerInvariant, PTL

(* Probes of one target are at least Cooldown apart.                       *)
THEOREM ProbeSpacing == BreakerSpec => ProbesSpaced
<1> DEFINE Spaced == \A r \in Requests : flight[r] = "idle" /\ flight'[r] = "probe" =>
                        sinceProbe >= Cooldown
<1>1. BreakerInv /\ [BreakerNext]_breakerVars => [Spaced]_breakerVars
  <2> SUFFICES ASSUME BreakerInv, BreakerNext,
                      NEW r \in Requests, flight[r] = "idle", flight'[r] = "probe"
               PROVE sinceProbe >= Cooldown
      OBVIOUS
  <2> USE DEF BreakerInv, BreakerTypeOK
  <2>1. ASSUME NEW q \in Requests, Admit(q) PROVE sinceProbe >= Cooldown
        BY <2>1, BreakerAssumption
        DEF Admit, Admits, CooledDown, Cooling, BreakerType, BreakerStates
  <2>2. ASSUME NEW q \in Requests, Succeed(q) \/ Fail(q) \/ Abandon(q) PROVE FALSE
        BY <2>2 DEF Succeed, Fail, Abandon, Land
  <2>3. CASE Disable \/ BreakerTick \/ Heal \/ StopRun
        BY <2>3 DEF Disable, BreakerTick, Heal, StopRun
  <2> QED
        BY <2>1, <2>2, <2>3 DEF BreakerNext
<1> QED
      BY <1>1, BreakerInvariant, PTL DEF BreakerSpec, ProbesSpaced

(* A closed breaker opens only on Threshold failures in a row, or by the   *)
(* operator.                                                               *)
THEOREM OpeningSafety == BreakerSpec => OpensOnlyOnStreak
<1> DEFINE Earned == brk.state = "Closed" /\ brk'.state = "Open" =>
                        streak' = Threshold \/ forced' # forced
<1>1. BreakerInv /\ [BreakerNext]_breakerVars => [Earned]_breakerVars
  <2> SUFFICES ASSUME BreakerInv, BreakerNext, brk.state = "Closed", brk'.state = "Open"
               PROVE streak' = Threshold \/ forced' # forced
      OBVIOUS
  <2> USE BreakerAssumption, RequestAssumption DEF BreakerInv, BreakerTypeOK, Counted, BreakerType, BreakerStates
  <2>1. ASSUME NEW r \in Requests, Admit(r) PROVE FALSE
        BY <2>1 DEF Admit, Allow, CooledDown
  <2>2. ASSUME NEW r \in Requests, Succeed(r) \/ Abandon(r) PROVE FALSE
        BY <2>2 DEF Succeed, Abandon, RecordSuccess
  <2>3. ASSUME NEW r \in Requests, Fail(r) PROVE streak' = Threshold
        BY <2>3, FailureCases DEF Fail
  <2>4. CASE Disable
        BY <2>4 DEF Disable
  <2>5. CASE BreakerTick
        BY <2>5 DEF BreakerTick, Elapse
  <2>6. CASE Heal \/ StopRun
        BY <2>6 DEF Heal, StopRun
  <2> QED
        BY <2>1, <2>2, <2>3, <2>4, <2>5, <2>6 DEF BreakerNext
<1> QED
      BY <1>1, BreakerInvariant, PTL DEF BreakerSpec, OpensOnlyOnStreak

-----------------------------------------------------------------------------
(* The mutex belongs to the user between its lock and its unlock.          *)
MutexHeld == \A u \in Users : mu = u <=> pc[u] \in {"loop", "parking"}

(* The notify list holds the parked users, each once.                      *)
ListedOnce ==
    /\ \A i \in DOMAIN queue : pc[queue[i]] = "parked"
    /\ \A i, j \in DOMAIN queue : queue[i] = queue[j] => i = j
    /\ \A u \in Users : pc[u] = "parked" => \E i \in DOMAIN queue : queue[i] = u

(* Who is about to wait has seen no free permit, and there is still none.  *)
StillFull == \A u \in Users : pc[u] = "parking" => held >= limit

(* The users that are somewhere in S.                                      *)
Located(f, S) == {u \in Users : f[u] \in S}

(* Those that bring a wake-up, or were woken and will try for a permit.    *)
Coming == {"signalling", "woken", "loop"}

Inside == {"holding"}

(* No wake-up is lost (release and setLimit notify after unlocking, and a  *)
(* newcomer may overtake whom they wake): while somebody is parked and no  *)
(* resize is still to be announced, every free permit has a user coming.   *)
NoLostWakeup ==
    (\E u \in Users : pc[u] = "parked") /\ announcing = {} =>
        limit <= held + Cardinality(Located(pc, Coming))

(* The semaphore's inductive invariant.                                    *)
SemInv == /\ SemTypeOK /\ MutexHeld /\ ListedOnce /\ PermitsBalanced
          /\ WithinPeak /\ limit <= peak /\ StillFull /\ NoLostWakeup

(* One user moves: the count of those in S follows.                        *)
Moved(f, u, l) == [f EXCEPT ![u] = l]

LEMMA MoveCount ==
    ASSUME NEW f \in [Users -> Locations], NEW u \in Users, NEW l \in Locations, NEW S
    PROVE /\ Cardinality(Located(f, S)) \in Nat
          /\ Cardinality(Located(Moved(f, u, l), S)) \in Nat
          /\ (f[u] \in S <=> l \in S) =>
                Cardinality(Located(Moved(f, u, l), S)) = Cardinality(Located(f, S))
          /\ f[u] \notin S /\ l \in S =>
                Cardinality(Located(Moved(f, u, l), S)) = Cardinality(Located(f, S)) + 1
          /\ f[u] \in S /\ l \notin S =>
                Cardinality(Located(f, S)) = Cardinality(Located(Moved(f, u, l), S)) + 1
<1> DEFINE F == Located(f, S)
           G == Located(Moved(f, u, l), S)
<1>1. IsFiniteSet(F) /\ IsFiniteSet(G)
      BY SemaphoreAssumption, FS_Subset DEF Located, Moved
<1>2. Cardinality(F) \in Nat /\ Cardinality(G) \in Nat
      BY <1>1, FS_CardinalityType
<1>3. ASSUME f[u] \in S <=> l \in S PROVE G = F
      BY <1>3 DEF Located, Moved
<1>4. ASSUME f[u] \notin S, l \in S PROVE Cardinality(G) = Cardinality(F) + 1
  <2>1. G = F \cup {u} /\ u \notin F
        BY <1>4 DEF Located, Moved
  <2> QED
        BY <1>1, <2>1, FS_AddElement
<1>5. ASSUME f[u] \in S, l \notin S PROVE Cardinality(F) = Cardinality(G) + 1
  <2>1. F = G \cup {u} /\ u \notin G
        BY <1>5 DEF Located, Moved
  <2> QED
        BY <1>1, <2>1, FS_AddElement
<1> QED
      BY <1>2, <1>3, <1>4, <1>5

(* Who is inside, who is coming, location by location.                     *)
LEMMA WhoIsWhere ==
    /\ \A l : l \in Inside <=> l = "holding"
    /\ \A l : l \in Coming <=> l = "signalling" \/ l = "woken" \/ l = "loop"
BY DEF Inside, Coming

(* Broadcast moves nobody who holds a permit, and leaves nobody parked.    *)
LEMMA BroadcastMoves ==
    ASSUME SemTypeOK, ListedOnce, Broadcast
    PROVE /\ Holders' = Holders
          /\ queue' \in Seq(Users) /\ pc' \in [Users -> Locations]
          /\ ListedOnce'
          /\ \A u \in Users : pc'[u] # "parked"
          /\ \A u \in Users : pc'[u] \in {"loop", "parking"} <=> pc[u] \in {"loop", "parking"}
          /\ \A u \in Users : pc'[u] = "parking" <=> pc[u] = "parking"
BY DEF Broadcast, SemTypeOK, ListedOnce, Holders, Locations

(* Everything of the invariant but the two counts, after a user's step.    *)
LEMMA UserKeepsShape ==
    ASSUME SemInv, NEW u \in Users, UserStep(u)
    PROVE  (SemTypeOK /\ MutexHeld /\ ListedOnce /\ WithinPeak /\ limit <= peak /\ StillFull)'
<1> USE SemaphoreAssumption DEF SemInv, SemTypeOK, MutexHeld, ListedOnce, WithinPeak, StillFull,
        Locations, Goto, counters
<1>1. CASE acquire(u)
      BY <1>1 DEF acquire
<1>2. CASE lock(u)
      BY <1>2 DEF lock
<1>3. CASE loop(u)
  <2>0. \/ held < limit /\ held' = held + 1
        \/ held' = held
        BY <1>3 DEF loop
  <2>1. held' \in Nat /\ held' <= peak
        BY <2>0
  <2>10. pc' \in [Users -> Locations] /\ mu' \in Users \cup {Free} /\ watching' \subseteq Users
        BY <1>3 DEF loop, Return
  <2>2. straggling' \in BOOLEAN
        BY <1>3, Zenon DEF loop, Return
  <2>3. UNCHANGED <<limit, peak, queue, announcing, resizes, cancelled>> /\ pc[u] = "loop"
        BY <1>3 DEF loop
  <2>4. \A v \in Users \ {u} : pc'[v] = pc[v] /\ mu # v /\ pc[v] \notin {"loop", "parking"}
        BY <1>3 DEF loop, Return
  <2>5. mu' = u <=> pc'[u] \in {"loop", "parking"}
        BY <1>3 DEF loop, Return
  <2>6. pc'[u] \in {"holding", "failed", "parking"} /\ mu' \in {Free, u}
        BY <1>3 DEF loop, Return
  <2>7. pc'[u] = "parking" => held' >= limit'
        BY <1>3 DEF loop, Return
  <2>8. MutexHeld' /\ StillFull'
        BY <2>4, <2>5, <2>6, <2>7
  <2>9. ListedOnce'
        BY <2>10, <2>3, <2>4, <2>6
  <2> QED
        BY <2>1, <2>10, <2>2, <2>3, <2>8, <2>9
<1>4. CASE park(u)
  <2>1. /\ pc[u] = "parking" /\ pc' = [pc EXCEPT ![u] = "parked"] /\ mu' = Free
        /\ queue' = Append(queue, u)
        /\ UNCHANGED <<limit, held, peak, watching, straggling, announcing, resizes, cancelled>>
        BY <1>4 DEF park
  <2>2. /\ queue' \in Seq(Users) /\ Len(queue') = Len(queue) + 1 /\ queue'[Len(queue) + 1] = u
        /\ \A i \in DOMAIN queue : queue'[i] = queue[i] /\ i \in DOMAIN queue' /\ i # Len(queue) + 1
        /\ \A i \in DOMAIN queue' : i \in DOMAIN queue \/ i = Len(queue) + 1
        /\ Len(queue) + 1 \in DOMAIN queue'
        BY <2>1
  <2>3. pc' \in [Users -> Locations] /\ pc'[u] = "parked" /\ \A v \in Users \ {u} : pc'[v] = pc[v]
        BY <2>1
  <2>4. SemTypeOK'
        BY <2>1, <2>2, <2>3
  <2>5. MutexHeld' /\ StillFull'
        BY <2>1, <2>3
  <2>6. \A i \in DOMAIN queue : queue[i] \in Users \ {u}
        BY <2>1
  <2>7. \A i \in DOMAIN queue' : pc'[queue'[i]] = "parked"
        BY <2>2, <2>3, <2>6
  <2>8. \A i, j \in DOMAIN queue' : queue'[i] = queue'[j] => i = j
        BY <2>2, <2>6
  <2>9. \A v \in Users : pc'[v] = "parked" => \E i \in DOMAIN queue' : queue'[i] = v
        BY <2>2, <2>3
  <2> QED
        BY <2>1, <2>4, <2>5, <2>7, <2>8, <2>9
<1>5. CASE release(u)
  <2>1. /\ pc' = [pc EXCEPT ![u] = "signalling"] /\ pc[u] = "holding" /\ mu = Free
        /\ UNCHANGED <<limit, peak, mu, queue, watching, straggling, announcing, resizes, cancelled>>
        BY <1>5 DEF release
  <2>2. held' \in Nat /\ held' <= held
        BY <1>5 DEF release
  <2>3. \A v \in Users : pc[v] \notin {"loop", "parking"} /\ pc'[v] \notin {"loop", "parking"}
        BY <2>1
  <2>4. held' <= peak' /\ limit' <= peak'
        BY <2>1, <2>2
  <2>5. SemTypeOK'
        BY <2>1, <2>2
  <2>6. MutexHeld' /\ StillFull'
        BY <2>1, <2>3
  <2>7. ListedOnce'
        BY <2>1
  <2> QED
        BY <2>4, <2>5, <2>6, <2>7
<1>6. CASE signal(u)
  <2>1. pc[u] = "signalling" /\ UNCHANGED <<counters, mu, watching, straggling, announcing, resizes, cancelled>>
        BY <1>6 DEF signal
  <2>2. CASE queue = <<>>
        BY <1>6, <2>1, <2>2 DEF signal
  <2>3. CASE queue # <<>>
    <3> DEFINE h == Head(queue)
    <3>1. h = queue[1] /\ 1 \in DOMAIN queue /\ h \in Users /\ pc[h] = "parked" /\ h # u
          BY <2>1, <2>3
    <3>2. pc' = [pc EXCEPT ![u] = "idle", ![h] = "woken"] /\ queue' = Tail(queue)
          BY <1>6, <2>3 DEF signal
    <3>3. /\ queue' \in Seq(Users)
          /\ \A i \in DOMAIN queue' : i + 1 \in DOMAIN queue /\ queue'[i] = queue[i + 1]
          /\ \A i \in DOMAIN queue : i # 1 => i - 1 \in DOMAIN queue'
          BY <2>3, <3>2
    <3>4. /\ pc' \in [Users -> Locations] /\ pc'[h] = "woken" /\ pc'[u] = "idle"
          /\ \A v \in Users : v # u /\ v # h => pc'[v] = pc[v]
          BY <3>1, <3>2
    <3>5. SemTypeOK'
          BY <2>1, <3>3, <3>4
    <3>6. MutexHeld' /\ StillFull'
          BY <2>1, <3>1, <3>4
    <3>7. \A i \in DOMAIN queue' : pc'[queue'[i]] = "parked"
      <4> SUFFICES ASSUME NEW i \in DOMAIN queue' PROVE pc'[queue'[i]] = "parked"
          OBVIOUS
      <4>1. i + 1 \in DOMAIN queue /\ queue'[i] = queue[i + 1] /\ i + 1 # 1
            BY <3>3
      <4>2. queue[i + 1] # h /\ pc[queue[i + 1]] = "parked"
            BY <3>1, <4>1
      <4> QED
            BY <2>1, <3>4, <4>1, <4>2
    <3>8. \A i, j \in DOMAIN queue' : queue'[i] = queue'[j] => i = j
          BY <3>3
    <3>9. ASSUME NEW v \in Users, pc'[v] = "parked" PROVE \E i \in DOMAIN queue' : queue'[i] = v
      <4>1. v # h /\ v # u /\ pc[v] = "parked"
            BY <3>4, <3>9
      <4>2. PICK i \in DOMAIN queue : queue[i] = v
            BY <4>1
      <4>3. i # 1 /\ i - 1 \in DOMAIN queue' /\ queue'[i - 1] = queue[(i - 1) + 1] /\ i \in Int
            BY <3>1, <3>3, <4>1, <4>2
      <4> QED
            BY <4>2, <4>3
    <3>10. ListedOnce'
          BY <3>7, <3>8, <3>9
    <3> QED
          BY <2>1, <3>5, <3>6, <3>10
  <2> QED
        BY <2>2, <2>3
<1> QED
      BY <1>1, <1>2, <1>3, <1>4, <1>5, <1>6 DEF UserStep

(* held still counts the holders after a user's step.                      *)
LEMMA UserKeepsBalance ==
    ASSUME SemInv, NEW u \in Users, UserStep(u)
    PROVE  PermitsBalanced'
<1> USE DEF Goto, counters
<1>a. pc \in [Users -> Locations] /\ held \in Nat /\ limit \in Nat
      BY SemaphoreAssumption DEF SemInv, SemTypeOK
<1>b. held = Cardinality(Holders)
      BY DEF SemInv, PermitsBalanced
<1>0. {"idle", "entering", "loop", "parking", "parked", "woken", "holding", "signalling", "failed"} \subseteq Locations
      BY DEF Locations
<1>1. Holders = Located(pc, Inside) /\ Holders' = Located(pc', Inside)
      BY DEF Holders, Located, Inside
<1>2. CASE acquire(u) \/ lock(u) \/ park(u)
  <2>1. PICK l \in Locations \ {"holding"} : pc' = Moved(pc, u, l) /\ pc[u] # "holding" /\ held' = held
        BY <1>2 DEF acquire, lock, park, Locations, Moved
  <2>2. Cardinality(Located(pc', Inside)) = Cardinality(Located(pc, Inside))
        BY <2>1, MoveCount, WhoIsWhere, <1>a
  <2> QED
        BY <1>1, <2>1, <2>2, <1>b DEF PermitsBalanced
<1>3. CASE loop(u)
  <2>1. pc[u] = "loop"
        BY <1>3 DEF loop, Moved
  <2>2. CASE held < limit
    <3>1. pc' = Moved(pc, u, "holding") /\ held' = held + 1
          BY <1>3, <2>2, <1>a DEF loop, Return, Moved
    <3>2. Cardinality(Located(pc', Inside)) = Cardinality(Located(pc, Inside)) + 1
          BY <2>1, <3>1, MoveCount, WhoIsWhere, <1>0, <1>a
    <3> QED
          BY <1>1, <3>1, <3>2, <1>b DEF PermitsBalanced
  <2>3. CASE ~(held < limit)
    <3>1. PICK l \in {"failed", "parking"} : pc' = Moved(pc, u, l) /\ held' = held
          BY <1>3, <2>3, <1>a DEF loop, Return, Moved
    <3>2. Cardinality(Located(pc', Inside)) = Cardinality(Located(pc, Inside))
          BY <2>1, <3>1, MoveCount, WhoIsWhere, <1>0, <1>a
    <3> QED
          BY <1>1, <3>1, <3>2, <1>b DEF PermitsBalanced
  <2> QED
        BY <2>2, <2>3
<1>4. CASE release(u)
  <2>1. pc[u] = "holding" /\ pc' = Moved(pc, u, "signalling")
        BY <1>4 DEF release, Moved
  <2>2. /\ Cardinality(Located(pc, Inside)) = Cardinality(Located(pc', Inside)) + 1
        /\ Cardinality(Located(pc', Inside)) \in Nat
        BY <2>1, MoveCount, WhoIsWhere, <1>0, <1>a
  <2>3. held' = held - 1
        BY <1>1, <1>4, <2>2, <1>b DEF release, Moved
  <2> QED
        BY <1>1, <2>2, <2>3, <1>b DEF PermitsBalanced
<1>5. CASE signal(u)
  <2>1. pc[u] = "signalling" /\ held' = held
        BY <1>5 DEF signal, Moved
  <2>2. CASE queue = <<>>
    <3>1. pc' = Moved(pc, u, "idle")
          BY <1>5, <2>2 DEF signal, Moved
    <3>2. Cardinality(Located(pc', Inside)) = Cardinality(Located(pc, Inside))
          BY <2>1, <3>1, MoveCount, WhoIsWhere, <1>0, <1>a
    <3> QED
          BY <1>1, <2>1, <3>2, <1>b DEF PermitsBalanced
  <2>3. CASE queue # <<>>
    <3> DEFINE h == Head(queue)
               f == Moved(pc, u, "idle")
    <3>1. h \in Users /\ pc[h] = "parked" /\ h # u
          BY <2>1, <2>3, <1>a DEF ListedOnce, SemInv, SemTypeOK
    <3>2. pc' = Moved(f, h, "woken") /\ f \in [Users -> Locations] /\ f[h] = "parked"
          BY <1>5, <2>3, <3>1, <1>0, <1>a DEF signal, Moved
    <3>3. Cardinality(Located(f, Inside)) = Cardinality(Located(pc, Inside))
          BY <2>1, MoveCount, WhoIsWhere, <1>0, <1>a
    <3>4. Cardinality(Located(pc', Inside)) = Cardinality(Located(f, Inside))
      <4> HIDE DEF f
      <4> QED
          BY <3>1, <3>2, MoveCount, WhoIsWhere, <1>0, <1>a
    <3> QED
          BY <1>1, <2>1, <3>3, <3>4, <1>b DEF PermitsBalanced
  <2> QED
        BY <2>2, <2>3
<1> QED
      BY <1>2, <1>3, <1>4, <1>5 DEF UserStep

(* No user's step loses a wake-up: who takes a permit uses one up, who     *)
(* returns one brings one, who goes to sleep found none free.              *)
LEMMA UserKeepsWakeups ==
    ASSUME SemInv, NEW u \in Users, UserStep(u)
    PROVE  NoLostWakeup'
<1> SUFFICES ASSUME \E v \in Users : pc'[v] = "parked", announcing' = {}
             PROVE  limit' <= held' + Cardinality(Located(pc', Coming))
    BY DEF NoLostWakeup
<1> USE DEF Goto, counters
<1>a. pc \in [Users -> Locations] /\ held \in Nat /\ limit \in Nat
      BY SemaphoreAssumption DEF SemInv, SemTypeOK
<1>0. {"idle", "entering", "loop", "parking", "parked", "woken", "holding", "signalling", "failed"} \subseteq Locations
      BY DEF Locations
<1>1. announcing = {} /\ limit' = limit
      BY DEF UserStep, acquire, lock, loop, park, release, signal
<1>2. ASSUME \E v \in Users : pc[v] = "parked"
      PROVE  limit <= held + Cardinality(Located(pc, Coming))
      BY <1>1, <1>2 DEF SemInv, NoLostWakeup
<1>3. Cardinality(Located(pc, Coming)) \in Nat
      BY MoveCount, WhoIsWhere, <1>0, <1>a
<1>4. CASE acquire(u) \/ lock(u)
  <2>1. PICK l \in {"entering", "failed", "loop"} :
            pc' = Moved(pc, u, l) /\ held' = held /\ pc[u] \in {"idle", "entering", "woken"}
              /\ (pc[u] = "woken" => l = "loop")
        BY <1>4 DEF acquire, lock, Moved
  <2>2. /\ Cardinality(Located(pc', Coming)) >= Cardinality(Located(pc, Coming))
        /\ Cardinality(Located(pc', Coming)) \in Nat
        BY <1>3, <2>1, MoveCount, WhoIsWhere, <1>0, <1>a
  <2>3. \E v \in Users : pc[v] = "parked"
        BY <2>1, <1>a DEF Moved
  <2> QED
        BY <1>1, <1>2, <1>3, <2>1, <2>2, <2>3, <1>a
<1>5. CASE loop(u)
  <2>1. pc[u] = "loop"
        BY <1>5, <1>a DEF loop, Moved
  <2>2. PICK l \in {"holding", "failed", "parking"} : pc' = Moved(pc, u, l)
        BY <1>5 DEF loop, Return, Moved
  <2>3. /\ Cardinality(Located(pc, Coming)) = Cardinality(Located(pc', Coming)) + 1
        /\ Cardinality(Located(pc', Coming)) \in Nat
        BY <2>1, <2>2, MoveCount, WhoIsWhere, <1>0, <1>a
  <2>4. \E v \in Users : pc[v] = "parked"
        BY <2>2, <1>a DEF Moved
  <2>5. (held < limit /\ held' = held + 1) \/ (held >= limit /\ held' = held)
        BY <1>5, <1>a DEF loop, Moved
  <2> QED
        BY <1>1, <1>2, <2>3, <2>4, <2>5, <1>a
<1>6. CASE park(u)
  <2>1. held >= limit /\ held' = held /\ pc' = Moved(pc, u, "parked")
        BY <1>6 DEF park, StillFull, SemInv, Moved
  <2>2. Cardinality(Located(pc', Coming)) \in Nat
        BY <2>1, MoveCount, WhoIsWhere, <1>0, <1>a
  <2> QED
        BY <1>1, <2>1, <2>2, <1>a
<1>7. CASE release(u)
  <2>1. pc[u] = "holding" /\ pc' = Moved(pc, u, "signalling")
        BY <1>7 DEF release, Moved
  <2>2. Cardinality(Located(pc', Coming)) = Cardinality(Located(pc, Coming)) + 1
        BY <2>1, MoveCount, WhoIsWhere, <1>0, <1>a
  <2>3. held' = held \/ held' = held - 1
        BY <1>7 DEF release, Moved
  <2>4. \E v \in Users : pc[v] = "parked"
        BY <2>1, <1>a DEF Moved
  <2> QED
        BY <1>1, <1>2, <1>3, <2>2, <2>3, <2>4, <1>a
<1>8. CASE signal(u)
  <2>1. pc[u] = "signalling" /\ held' = held
        BY <1>8 DEF signal, Moved
  <2>2. queue # <<>>
        BY <1>8 DEF signal, ListedOnce, SemInv, SemTypeOK, Moved
  <2> DEFINE h == Head(queue)
             f == Moved(pc, u, "idle")
  <2>3. h \in Users /\ pc[h] = "parked" /\ h # u
        BY <2>1, <2>2, <1>a DEF ListedOnce, SemInv, SemTypeOK
  <2>4. pc' = Moved(f, h, "woken") /\ f \in [Users -> Locations] /\ f[h] = "parked"
        BY <1>8, <2>2, <2>3, <1>0, <1>a DEF signal, Moved
  <2>5. Cardinality(Located(pc, Coming)) = Cardinality(Located(f, Coming)) + 1
        BY <2>1, MoveCount, WhoIsWhere, <1>0, <1>a
  <2>6. Cardinality(Located(pc', Coming)) = Cardinality(Located(f, Coming)) + 1
    <3> HIDE DEF f
    <3> QED
        BY <2>3, <2>4, MoveCount, WhoIsWhere, <1>0, <1>a
  <2> QED
        BY <1>1, <1>2, <2>1, <2>3, <2>5, <2>6, <1>a
<1> QED
      BY <1>4, <1>5, <1>6, <1>7, <1>8 DEF UserStep

(* A step that broadcasts, and changes neither counters nor mutex.         *)
LEMMA BroadcastKeepsInv ==
    ASSUME SemInv, Broadcast, UNCHANGED <<limit, held, peak, mu>>,
           watching' \subseteq Users, straggling' \in BOOLEAN, announcing' \subseteq Setters,
           UNCHANGED <<resizes, cancelled>>
    PROVE  SemInv'
<1> USE DEF SemInv
<1>1. SemTypeOK'
      BY BroadcastMoves DEF SemTypeOK
<1>2. MutexHeld' /\ StillFull'
      BY BroadcastMoves DEF MutexHeld, StillFull
<1>3. ListedOnce' /\ Holders' = Holders /\ \A u \in Users : pc'[u] # "parked"
      BY BroadcastMoves
<1>4. PermitsBalanced'
      BY <1>3 DEF PermitsBalanced
<1>5. (WithinPeak /\ limit <= peak)'
      BY DEF WithinPeak
<1>6. NoLostWakeup'
      BY <1>3 DEF NoLostWakeup
<1> QED
      BY <1>1, <1>2, <1>3, <1>4, <1>5, <1>6

(* Every step of the semaphore keeps the invariant.                        *)
LEMMA SemInvStep == SemInv /\ [SemNext]_semVars => SemInv'
<1> SUFFICES ASSUME SemInv, [SemNext]_semVars PROVE SemInv'
    OBVIOUS
<1>1. ASSUME NEW u \in Users, UserStep(u) PROVE SemInv'
      BY <1>1, UserKeepsShape, UserKeepsBalance, UserKeepsWakeups DEF SemInv
<1>2. ASSUME NEW u \in Users, watcher(u) PROVE SemInv'
  <2>1. /\ Broadcast /\ UNCHANGED <<limit, held, peak, mu, resizes, cancelled>>
        /\ watching' \subseteq Users /\ announcing' \subseteq Setters
        BY <1>2 DEF watcher, counters, SemInv, SemTypeOK
  <2>2. straggling' \in BOOLEAN
        BY <1>2, Zenon DEF watcher, SemInv, SemTypeOK
  <2> QED
        BY <2>1, <2>2, BroadcastKeepsInv
<1>3. ASSUME NEW s \in Setters, announce(s) PROVE SemInv'
  <2>1. /\ Broadcast /\ UNCHANGED <<limit, held, peak, mu, resizes, cancelled>>
        /\ watching' \subseteq Users /\ announcing' \subseteq Setters
        BY <1>3 DEF announce, counters, SemInv, SemTypeOK
  <2>2. straggling' \in BOOLEAN
        BY <1>3, Zenon DEF announce, SemInv, SemTypeOK
  <2> QED
        BY <2>1, <2>2, BroadcastKeepsInv
<1>4. ASSUME NEW s \in Setters, NEW n \in Limits, setLimit(s, n) PROVE SemInv'
  <2> USE SemaphoreAssumption
  <2>1. /\ limit' = n /\ n \in Nat /\ resizes' = resizes + 1 /\ resizes < MaxResizes /\ mu = Free
        /\ announcing' = announcing \cup {s}
        /\ UNCHANGED <<held, mu, queue, pc, watching, straggling, cancelled>>
        BY <1>4 DEF setLimit
  <2>2. peak' \in Limits /\ peak' >= peak /\ peak' >= n
        BY <1>4 DEF setLimit, SemInv, SemTypeOK
  <2>3. SemTypeOK'
    <3>1. resizes' \in 0..MaxResizes
          BY <2>1 DEF SemInv, SemTypeOK
    <3>2. announcing' \subseteq Setters
          BY <2>1 DEF SemInv, SemTypeOK
    <3> QED
          BY <2>1, <2>2, <3>1, <3>2 DEF SemInv, SemTypeOK
  <2>4. (WithinPeak /\ limit <= peak)'
        BY <2>1, <2>2 DEF SemInv, SemTypeOK, WithinPeak
  <2>5. MutexHeld' /\ StillFull'
        BY <2>1 DEF SemInv, MutexHeld, StillFull
  <2>6. ListedOnce' /\ PermitsBalanced'
        BY <2>1 DEF SemInv, ListedOnce, PermitsBalanced, Holders
  <2>7. NoLostWakeup'
        BY <2>1 DEF NoLostWakeup
  <2> QED
        BY <2>3, <2>4, <2>5, <2>6, <2>7 DEF SemInv
<1>5. ASSUME UNCHANGED <<limit, held, peak, mu, queue, pc, watching, announcing, resizes>>,
             straggling' \in BOOLEAN, cancelled' \in BOOLEAN
      PROVE  SemInv'
  <2>1. SemTypeOK'
        BY <1>5 DEF SemInv, SemTypeOK
  <2>2. (MutexHeld /\ ListedOnce /\ StillFull)'
        BY <1>5 DEF SemInv, MutexHeld, ListedOnce, StillFull
  <2>3. (PermitsBalanced /\ WithinPeak /\ limit <= peak /\ NoLostWakeup)'
        BY <1>5 DEF SemInv, PermitsBalanced, Holders, WithinPeak, NoLostWakeup, Located
  <2> QED
        BY <2>1, <2>2, <2>3 DEF SemInv
<1>6. CASE straggler
  <2>1. CASE Broadcast
        BY <1>6, <2>1, BroadcastKeepsInv DEF straggler, counters, SemInv, SemTypeOK
  <2>2. CASE UNCHANGED <<queue, pc>>
        BY <1>5, <1>6, <2>2 DEF straggler, counters, SemInv, SemTypeOK
  <2> QED
        BY <1>6, <2>1, <2>2 DEF straggler
<1>7. CASE cancel
  <2>1. straggling' \in BOOLEAN /\ cancelled' \in BOOLEAN
        BY <1>7, Zenon DEF cancel, SemInv, SemTypeOK
  <2> QED
        BY <1>5, <1>7, <2>1 DEF cancel, counters
<1>8. CASE UNCHANGED semVars
  <2>1. straggling' \in BOOLEAN /\ cancelled' \in BOOLEAN
        BY <1>8, Zenon DEF semVars, SemInv, SemTypeOK
  <2> QED
        BY <1>5, <1>8, <2>1 DEF semVars
<1> QED
      BY <1>1, <1>2, <1>3, <1>4, <1>6, <1>7, <1>8 DEF SemNext

-----------------------------------------------------------------------------
(* The semaphore's inductive invariant holds in every reachable state.     *)
THEOREM SemInvariant == SemSpec => []SemInv
<1>1. SemInit => SemInv
  <2> SUFFICES ASSUME SemInit PROVE SemInv
      OBVIOUS
  <2> USE SemaphoreAssumption DEF SemInit
  <2>1. SemTypeOK
    <3>1. straggling \in BOOLEAN /\ cancelled \in BOOLEAN
          BY Zenon
    <3> QED
          BY <3>1 DEF SemTypeOK, Locations
  <2>2. MutexHeld /\ ListedOnce /\ StillFull /\ NoLostWakeup
        BY DEF MutexHeld, ListedOnce, StillFull, NoLostWakeup
  <2>3. Holders = {}
        BY DEF Holders
  <2>4. PermitsBalanced
        BY <2>3, FS_EmptySet DEF PermitsBalanced
  <2>5. WithinPeak /\ limit <= peak
        BY DEF WithinPeak
  <2> QED
        BY <2>1, <2>2, <2>4, <2>5 DEF SemInv
<1> QED
      BY <1>1, SemInvStep, PTL DEF SemSpec

(* The permits out are counted by the workers inside, through every        *)
(* interleaving of acquire, release, resize and cancel.                    *)
THEOREM SemPermitSafety == SemSpec => []PermitsBalanced
<1>1. SemInv => PermitsBalanced
      BY DEF SemInv
<1> QED
      BY <1>1, SemInvariant, PTL

(* Never more workers inside than the largest limit so far.                *)
THEOREM PeakSafety == SemSpec => []WithinPeak
<1>1. SemInv => WithinPeak
      BY DEF SemInv
<1> QED
      BY <1>1, SemInvariant, PTL

(* A free permit beside a parked worker always has somebody on the way to  *)
(* it: the safety half of NoIdlePermit.                                    *)
THEOREM WakeupSafety == SemSpec => []NoLostWakeup
<1>1. SemInv => NoLostWakeup
      BY DEF SemInv
<1> QED
      BY <1>1, SemInvariant, PTL

-----------------------------------------------------------------------------
(* The rate limiter.                                                       *)


(* What bucket b could give out now.                                       *)
Level(b, burst) == Capped(b.tokens + b.due, burst)

PtCredit == PtRate > 0 =>
    \A t \in Targets : used[t] + Level(pt[t], PtBurst) <= PtBurst + span * PtRate

GlobalCredit == GlobalRate > 0 =>
    usedAll + Level(global, GlobalBurst) <= GlobalBurst + span * GlobalRate

ByteCredit == ByteRate > 0 =>
    charged + Level(bytes, ByteBurst) <= ByteBurst + ticks * ByteRate

(* Nothing is counted before the window opens.                             *)
Fresh == ~window => span = 0 /\ usedAll = 0 /\ \A t \in Targets : used[t] = 0

(* A reservation that was not reconciled has observed nothing.             *)
Unobserved == \A c \in Callers : ~res[c].reconciled => res[c].actual = 0

(* No bucket of a positive rate holds more than its burst.                 *)
NoExcessCredit == /\ PtRate > 0 => \A t \in Targets : pt[t].tokens <= PtBurst
                  /\ GlobalRate > 0 => global.tokens <= GlobalBurst
                  /\ bytes.tokens <= ByteBurst

(* The inductive invariant.                                                *)
LimiterInv == /\ LimiterTypeOK /\ NoExcessCredit /\ PtCredit /\ GlobalCredit /\ ByteCredit
              /\ Fresh /\ span <= ticks /\ Unobserved

(* tryTake on a bucket of a positive rate: it stays a bucket within its    *)
(* burst, and its level falls by what was taken, or not at all.            *)
LEMMA TakeLevel ==
    ASSUME NEW b \in Bucket, NEW rate \in Nat, NEW burst \in Nat, NEW n \in Nat,
           rate > 0
    PROVE /\ tryTake(b, rate, burst, n) \in Bucket
          /\ tryTake(b, rate, burst, n).tokens <= burst
          /\ HasTokens(b, rate, burst, n) =>
                /\ Level(tryTake(b, rate, burst, n), burst) = Level(b, burst) - n
                /\ tryTake(b, rate, burst, n).tokens + n <= burst
                /\ tryTake(b, rate, burst, n).due = 0
          /\ ~HasTokens(b, rate, burst, n) =>
                Level(tryTake(b, rate, burst, n), burst) = Level(b, burst)
BY DEF Bucket, tryTake, HasTokens, refill, Level, Capped

(* Taking and handing back leaves the level as it was.                     *)
LEMMA GiveBackLevel ==
    ASSUME NEW b \in Bucket, NEW rate \in Nat, NEW burst \in Nat, NEW n \in Nat,
           rate > 0, HasTokens(b, rate, burst, n)
    PROVE /\ giveBack(tryTake(b, rate, burst, n), n) \in Bucket
          /\ giveBack(tryTake(b, rate, burst, n), n).tokens <= burst
          /\ Level(giveBack(tryTake(b, rate, burst, n), n), burst) = Level(b, burst)
BY DEF Bucket, tryTake, HasTokens, refill, Level, Capped, giveBack

(* A tick raises the level by at most the rate.                            *)
LEMMA AccrueLevel ==
    ASSUME NEW b \in Bucket, NEW rate \in Nat, NEW burst \in Nat
    PROVE /\ Accrue(b, rate) \in Bucket
          /\ Accrue(b, rate).tokens = b.tokens
          /\ Level(Accrue(b, rate), burst) <= Level(b, burst) + rate
BY DEF Bucket, Accrue, Level, Capped

(* Level is a number within the burst.                                     *)
LEMMA LevelType ==
    ASSUME NEW b \in Bucket, NEW burst \in Nat
    PROVE Level(b, burst) \in Nat /\ Level(b, burst) <= burst
BY DEF Bucket, Level, Capped

(* An unlimited bucket stays a bucket.                                     *)
LEMMA UnlimitedTake ==
    ASSUME NEW b \in Bucket, NEW burst \in Nat, NEW n \in Nat
    PROVE /\ tryTake(b, 0, burst, n) = b
          /\ giveBack(b, n) \in Bucket
BY DEF Bucket, tryTake, giveBack

(* What is refunded is what was not used, and no more than was reserved.   *)
LEMMA RefundIsUnspent ==
    ASSUME NEW r \in Reservations, ~r.reconciled => r.actual = 0
    PROVE Refund(r) = Unspent(r) /\ Refund(r) \in Nat /\ Refund(r) <= r.reserved
BY DEF Reservations, Refund, Unspent, Capped

-----------------------------------------------------------------------------
(* The per-target buckets: one takes or is left as it was, and the clock   *)
(* accrues to all of them.                                                 *)
LEMMA PtStep ==
    ASSUME LimiterInv, [LimiterNext]_limiterVars
    PROVE /\ pt' \in [Targets -> Bucket]
          /\ PtRate > 0 => \A t \in Targets : pt'[t].tokens <= PtBurst
          /\ PtCredit'
<1> USE LimiterAssumption DEF LimiterInv, LimiterTypeOK
<1> DEFINE P == /\ pt' \in [Targets -> Bucket]
                /\ PtRate > 0 => \A t \in Targets : pt'[t].tokens <= PtBurst
                /\ PtCredit'
<1>1. ASSUME NEW c \in Callers, NEW t \in Targets, NEW n \in Sizes, AcquireAdmits(c, t, n) PROVE P
  <2>1. CASE PtRate = 0
        BY <1>1, <2>1, UnlimitedTake DEF AcquireAdmits, takePt, PtCredit
  <2>2. CASE PtRate > 0
    <3>1. HasTokens(pt[t], PtRate, PtBurst, Token)
          BY <1>1 DEF AcquireAdmits, PtHas
    <3>2. /\ takePt(t) \in Bucket
          /\ takePt(t).tokens <= PtBurst
          /\ Level(takePt(t), PtBurst) = Level(pt[t], PtBurst) - Token
          BY <2>2, <3>1, TakeLevel DEF takePt
    <3>3. pt' = [pt EXCEPT ![t] = takePt(t)] /\ span' = span
          BY <1>1 DEF AcquireAdmits
    <3>4. used' \in [Targets -> Nat] /\ \A q \in Targets : used'[q] <= used[q] + (IF q = t THEN Token ELSE 0)
          BY <1>1 DEF AcquireAdmits
    <3>5. \A q \in Targets : Level(pt[q], PtBurst) \in Nat
          BY LevelType
    <3>6. PtCredit'
      <4>1. ASSUME NEW q \in Targets
            PROVE used'[q] + Level(pt'[q], PtBurst) <= PtBurst + span' * PtRate
        <5>1. used[q] + Level(pt[q], PtBurst) <= PtBurst + span * PtRate /\ span * PtRate \in Nat
              BY <2>2 DEF PtCredit
        <5>2. CASE q = t
          <6>1. Level(pt'[q], PtBurst) = Level(pt[q], PtBurst) - Token /\ used'[q] <= used[q] + Token
                BY <3>2, <3>3, <3>4, <5>2
          <6>2. used'[q] \in Nat /\ used[q] \in Nat /\ Level(pt[q], PtBurst) \in Nat
                BY <3>4, <3>5
          <6> QED
                BY <3>3, <5>1, <6>1, <6>2
        <5>3. CASE q # t
          <6>1. pt'[q] = pt[q] /\ used'[q] <= used[q]
                BY <3>3, <3>4, <5>3
          <6>2. used'[q] \in Nat /\ used[q] \in Nat /\ Level(pt[q], PtBurst) \in Nat
                BY <3>4, <3>5
          <6> QED
                BY <3>3, <5>1, <6>1, <6>2
        <5> QED
              BY <5>2, <5>3
      <4> QED
            BY <4>1 DEF PtCredit
    <3> QED
          BY <2>2, <3>2, <3>3, <3>6 DEF NoExcessCredit
  <2> QED
        BY <2>1, <2>2
<1>2. ASSUME NEW c \in Callers, NEW t \in Targets, AcquirePtRefuses(c, t) PROVE P
  <2>1. CASE PtRate = 0
        BY <1>2, <2>1 DEF AcquirePtRefuses, PtHas, HasTokens
  <2>2. CASE PtRate > 0
    <3>1. ~HasTokens(pt[t], PtRate, PtBurst, Token)
          BY <1>2 DEF AcquirePtRefuses, PtHas
    <3>2. /\ takePt(t) \in Bucket
          /\ takePt(t).tokens <= PtBurst
          /\ Level(takePt(t), PtBurst) = Level(pt[t], PtBurst)
          BY <2>2, <3>1, TakeLevel DEF takePt
    <3> QED
          BY <1>2, <2>2, <3>2 DEF AcquirePtRefuses, NoExcessCredit, PtCredit, history
  <2> QED
        BY <2>1, <2>2
<1>3. ASSUME NEW c \in Callers, NEW t \in Targets, PtHas(t),
             pt' = [pt EXCEPT ![t] = giveBack(takePt(t), Token)], UNCHANGED history
      PROVE P
  <2>1. CASE PtRate = 0
        BY <1>3, <2>1, UnlimitedTake DEF takePt, PtCredit
  <2>2. CASE PtRate > 0
    <3>1. /\ giveBack(takePt(t), Token) \in Bucket
          /\ giveBack(takePt(t), Token).tokens <= PtBurst
          /\ Level(giveBack(takePt(t), Token), PtBurst) = Level(pt[t], PtBurst)
          BY <1>3, <2>2, GiveBackLevel DEF takePt, PtHas
    <3> QED
          BY <1>3, <2>2, <3>1 DEF NoExcessCredit, PtCredit, history
  <2> QED
        BY <2>1, <2>2
<1>4. CASE LimiterTick
  <2>1. \A t \in Targets : /\ pt'[t] = Accrue(pt[t], PtRate)
                           /\ Accrue(pt[t], PtRate) \in Bucket
                           /\ Accrue(pt[t], PtRate).tokens = pt[t].tokens
                           /\ Level(Accrue(pt[t], PtRate), PtBurst) <= Level(pt[t], PtBurst) + PtRate
        BY <1>4, AccrueLevel DEF LimiterTick
  <2>2. pt' \in [Targets -> Bucket]
        BY <1>4, <2>1 DEF LimiterTick
  <2>3. PtCredit'
    <3>1. ASSUME PtRate > 0, NEW t \in Targets
          PROVE used'[t] + Level(pt'[t], PtBurst) <= PtBurst + span' * PtRate
      <4>1. Level(pt[t], PtBurst) \in Nat /\ Level(pt'[t], PtBurst) \in Nat /\ Level(pt'[t], PtBurst) <= PtBurst
            BY <2>2, LevelType
      <4>2. used'[t] = used[t] /\ used[t] \in Nat
            BY <1>4 DEF LimiterTick
      <4>3. CASE window
            BY <1>4, <2>1, <3>1, <4>1, <4>2, <4>3 DEF LimiterTick, PtCredit
      <4>4. CASE ~window
            BY <1>4, <4>1, <4>2, <4>4 DEF LimiterTick, Fresh
      <4> QED
            BY <4>3, <4>4
    <3> QED
          BY <3>1 DEF PtCredit
  <2> QED
        BY <2>1, <2>2, <2>3 DEF NoExcessCredit
<1>5. ASSUME UNCHANGED <<pt, used, span>> PROVE P
      BY <1>5 DEF NoExcessCredit, PtCredit
<1>6. ASSUME NEW c \in Callers, NEW t \in Targets, AcquireGlobalRefuses(c, t) PROVE P
      BY <1>3, <1>6 DEF AcquireGlobalRefuses
<1>7. ASSUME NEW c \in Callers, NEW t \in Targets, NEW n \in Sizes, AcquireBytesRefuse(c, t, n) PROVE P
      BY <1>3, <1>7 DEF AcquireBytesRefuse
<1>8. ASSUME NEW c \in Callers,
             (\E n \in Sizes : Reconcile(c, n)) \/ Release(c) \/ returnBytes(c)
      PROVE P
      BY <1>5, <1>8 DEF Reconcile, Release, returnBytes, history
<1>9. CASE OpenWindow \/ UNCHANGED limiterVars
      BY <1>5, <1>9 DEF OpenWindow, limiterVars
<1> QED
      BY <1>1, <1>2, <1>4, <1>6, <1>7, <1>8, <1>9 DEF LimiterNext

(* The bucket of all targets together.                                     *)
LEMMA GlobalStep ==
    ASSUME LimiterInv, [LimiterNext]_limiterVars
    PROVE /\ global' \in Bucket
          /\ GlobalRate > 0 => global'.tokens <= GlobalBurst
          /\ GlobalCredit'
<1> USE LimiterAssumption DEF LimiterInv, LimiterTypeOK
<1> DEFINE P == /\ global' \in Bucket
                /\ GlobalRate > 0 => global'.tokens <= GlobalBurst
                /\ GlobalCredit'
<1>a. Level(global, GlobalBurst) \in Nat /\ span * GlobalRate \in Nat
      BY LevelType
<1>1. ASSUME NEW c \in Callers, NEW t \in Targets, NEW n \in Sizes, AcquireAdmits(c, t, n) PROVE P
  <2>1. CASE GlobalRate = 0
        BY <1>1, <2>1, UnlimitedTake DEF AcquireAdmits, takeGlobal, GlobalCredit
  <2>2. CASE GlobalRate > 0
    <3>1. /\ takeGlobal \in Bucket
          /\ takeGlobal.tokens <= GlobalBurst
          /\ Level(takeGlobal, GlobalBurst) = Level(global, GlobalBurst) - Token
      <4>1. HasTokens(global, GlobalRate, GlobalBurst, Token)
            BY <1>1 DEF AcquireAdmits, GlobalHas
      <4> QED
            BY <2>2, <4>1, TakeLevel DEF takeGlobal
    <3>2. /\ global' = takeGlobal /\ span' = span
          /\ usedAll' \in Nat /\ usedAll' <= usedAll + Token
          BY <1>1 DEF AcquireAdmits
    <3> QED
          BY <1>a, <2>2, <3>1, <3>2 DEF GlobalCredit
  <2> QED
        BY <2>1, <2>2
<1>2. ASSUME NEW c \in Callers, NEW t \in Targets, AcquireGlobalRefuses(c, t) PROVE P
  <2>1. CASE GlobalRate = 0
        BY <1>2, <2>1 DEF AcquireGlobalRefuses, GlobalHas, HasTokens
  <2>2. CASE GlobalRate > 0
    <3>1. /\ takeGlobal \in Bucket
          /\ takeGlobal.tokens <= GlobalBurst
          /\ Level(takeGlobal, GlobalBurst) = Level(global, GlobalBurst)
      <4>1. ~HasTokens(global, GlobalRate, GlobalBurst, Token)
            BY <1>2 DEF AcquireGlobalRefuses, GlobalHas
      <4> QED
            BY <2>2, <4>1, TakeLevel DEF takeGlobal
    <3> QED
          BY <1>2, <2>2, <3>1 DEF AcquireGlobalRefuses, GlobalCredit, history
  <2> QED
        BY <2>1, <2>2
<1>3. ASSUME NEW c \in Callers, NEW t \in Targets, NEW n \in Sizes, AcquireBytesRefuse(c, t, n) PROVE P
  <2>1. CASE GlobalRate = 0
        BY <1>3, <2>1, UnlimitedTake DEF AcquireBytesRefuse, takeGlobal, GlobalCredit
  <2>2. CASE GlobalRate > 0
    <3>1. /\ giveBack(takeGlobal, Token) \in Bucket
          /\ giveBack(takeGlobal, Token).tokens <= GlobalBurst
          /\ Level(giveBack(takeGlobal, Token), GlobalBurst) = Level(global, GlobalBurst)
          BY <1>3, <2>2, GiveBackLevel DEF AcquireBytesRefuse, takeGlobal, GlobalHas
    <3> QED
          BY <1>3, <2>2, <3>1 DEF AcquireBytesRefuse, GlobalCredit, history
  <2> QED
        BY <2>1, <2>2
<1>4. CASE LimiterTick
  <2>1. /\ global' \in Bucket
        /\ global'.tokens = global.tokens
        /\ Level(global', GlobalBurst) <= Level(global, GlobalBurst) + GlobalRate
        BY <1>4, AccrueLevel DEF LimiterTick
  <2>2. Level(global', GlobalBurst) \in Nat /\ Level(global', GlobalBurst) <= GlobalBurst
        BY <2>1, LevelType
  <2>3. CASE window
        BY <1>4, <1>a, <2>1, <2>2, <2>3 DEF LimiterTick, GlobalCredit, NoExcessCredit
  <2>4. CASE ~window
        BY <1>4, <2>1, <2>2, <2>4 DEF LimiterTick, GlobalCredit, NoExcessCredit, Fresh
  <2> QED
        BY <2>3, <2>4
<1>5. ASSUME UNCHANGED <<global, usedAll, span>> PROVE P
      BY <1>5 DEF NoExcessCredit, GlobalCredit
<1>6. ASSUME NEW c \in Callers, NEW t \in Targets, AcquirePtRefuses(c, t) PROVE P
      BY <1>5, <1>6 DEF AcquirePtRefuses, history
<1>7. ASSUME NEW c \in Callers,
             (\E n \in Sizes : Reconcile(c, n)) \/ Release(c) \/ returnBytes(c)
      PROVE P
      BY <1>5, <1>7 DEF Reconcile, Release, returnBytes, history
<1>8. CASE OpenWindow \/ UNCHANGED limiterVars
      BY <1>5, <1>8 DEF OpenWindow, limiterVars
<1> QED
      BY <1>1, <1>2, <1>3, <1>4, <1>6, <1>7, <1>8 DEF LimiterNext

(* The byte bucket, which a release credits as well.                       *)
LEMMA ByteStep ==
    ASSUME LimiterInv, [LimiterNext]_limiterVars
    PROVE /\ bytes' \in Bucket
          /\ bytes'.tokens <= ByteBurst
          /\ charged' \in Int
          /\ ByteCredit'
<1> USE LimiterAssumption DEF LimiterInv, LimiterTypeOK
<1> DEFINE P == /\ bytes' \in Bucket
                /\ bytes'.tokens <= ByteBurst
                /\ charged' \in Int
                /\ ByteCredit'
<1>a. Level(bytes, ByteBurst) \in Nat /\ ticks * ByteRate \in Nat
      BY LevelType
<1>b. ASSUME NEW n \in Sizes PROVE Reserve(n) \in Nat
      BY <1>b DEF Reserve
<1>c. ASSUME ByteRate > 0, NEW m \in Nat
      PROVE LET taken == tryTake(bytes, ByteRate, ByteBurst, m)
            IN /\ taken \in Bucket
               /\ taken.tokens <= ByteBurst
               /\ HasTokens(bytes, ByteRate, ByteBurst, m) =>
                     Level(taken, ByteBurst) = Level(bytes, ByteBurst) - m
               /\ ~HasTokens(bytes, ByteRate, ByteBurst, m) =>
                     Level(taken, ByteBurst) = Level(bytes, ByteBurst)
      BY <1>c, TakeLevel
<1>1. ASSUME NEW c \in Callers, NEW t \in Targets, NEW n \in Sizes, AcquireAdmits(c, t, n) PROVE P
  <2>1. CASE ByteRate = 0
        BY <1>1, <2>1 DEF AcquireAdmits, takeBytes, Reserve, ByteCredit, NoExcessCredit
  <2>2. CASE ByteRate > 0
    <3>1. CASE Reserve(n) = 0
          BY <1>1, <2>2, <3>1 DEF AcquireAdmits, takeBytes, ByteCredit, NoExcessCredit
    <3>2. CASE Reserve(n) # 0
      <4>1. /\ takeBytes(Reserve(n)) \in Bucket
            /\ takeBytes(Reserve(n)).tokens <= ByteBurst
            /\ Level(takeBytes(Reserve(n)), ByteBurst) = Level(bytes, ByteBurst) - Reserve(n)
        <5>1. HasTokens(bytes, ByteRate, ByteBurst, Reserve(n))
              BY <1>1, <3>2 DEF AcquireAdmits, BytesHave
        <5>2. takeBytes(Reserve(n)) = tryTake(bytes, ByteRate, ByteBurst, Reserve(n))
              BY <3>2 DEF takeBytes
        <5> QED
              BY <1>b, <1>c, <2>2, <5>1, <5>2
      <4> QED
            BY <1>1, <1>a, <1>b, <2>2, <4>1 DEF AcquireAdmits, ByteCredit
    <3> QED
          BY <3>1, <3>2
  <2> QED
        BY <2>1, <2>2
<1>2. ASSUME NEW c \in Callers, NEW t \in Targets, NEW n \in Sizes, AcquireBytesRefuse(c, t, n) PROVE P
  <2>1. ByteRate > 0 /\ Reserve(n) # 0 /\ ~HasTokens(bytes, ByteRate, ByteBurst, Reserve(n))
        BY <1>2 DEF AcquireBytesRefuse, BytesHave, HasTokens
  <2>2. /\ takeBytes(Reserve(n)) \in Bucket
        /\ takeBytes(Reserve(n)).tokens <= ByteBurst
        /\ Level(takeBytes(Reserve(n)), ByteBurst) = Level(bytes, ByteBurst)
    <3>1. takeBytes(Reserve(n)) = tryTake(bytes, ByteRate, ByteBurst, Reserve(n))
          BY <2>1 DEF takeBytes
    <3> QED
          BY <1>b, <1>c, <2>1, <3>1
  <2> QED
        BY <1>2, <2>1, <2>2 DEF AcquireBytesRefuse, ByteCredit
<1>3. ASSUME NEW c \in Callers, returnBytes(c) PROVE P
  <2>1. /\ Refund(res[c]) = Unspent(res[c])
        /\ Refund(res[c]) \in Nat
        BY <1>3, RefundIsUnspent DEF Unobserved
  <2>2. CASE ByteRate = 0
        BY <1>3, <2>1, <2>2 DEF returnBytes, ByteCredit, NoExcessCredit
  <2>3. CASE ByteRate > 0
    <3>1. /\ bytes' \in Bucket
          /\ bytes'.tokens <= ByteBurst
          /\ Level(bytes', ByteBurst) <= Level(bytes, ByteBurst) + Refund(res[c])
          BY <1>3, <2>1, <2>3 DEF returnBytes, Bucket, Level, Capped
    <3>2. Level(bytes', ByteBurst) \in Nat
          BY <3>1, LevelType
    <3> QED
          BY <1>3, <1>a, <2>1, <2>3, <3>1, <3>2 DEF returnBytes, ByteCredit
  <2> QED
        BY <2>2, <2>3
<1>4. CASE LimiterTick
  <2>1. /\ bytes' \in Bucket
        /\ bytes'.tokens = bytes.tokens
        /\ Level(bytes', ByteBurst) <= Level(bytes, ByteBurst) + ByteRate
        BY <1>4, AccrueLevel DEF LimiterTick
  <2>2. Level(bytes', ByteBurst) \in Nat
        BY <2>1, LevelType
  <2> QED
        BY <1>4, <1>a, <2>1, <2>2 DEF LimiterTick, ByteCredit, NoExcessCredit
<1>5. ASSUME UNCHANGED <<bytes, charged, ticks>> PROVE P
      BY <1>5 DEF NoExcessCredit, ByteCredit
<1>6. ASSUME NEW c \in Callers, NEW t \in Targets, AcquirePtRefuses(c, t) \/ AcquireGlobalRefuses(c, t)
      PROVE P
      BY <1>5, <1>6 DEF AcquirePtRefuses, AcquireGlobalRefuses
<1>7. ASSUME NEW c \in Callers, (\E n \in Sizes : Reconcile(c, n)) \/ Release(c) PROVE P
      BY <1>5, <1>7 DEF Reconcile, Release
<1>8. CASE OpenWindow \/ UNCHANGED limiterVars
      BY <1>5, <1>8 DEF OpenWindow, limiterVars
<1> QED
      BY <1>1, <1>2, <1>3, <1>4, <1>6, <1>7, <1>8 DEF LimiterNext

(* The remaining variables keep their types, the window stays fresh until  *)
(* it opens, and a reservation observes nothing before Reconcile.          *)
LEMMA RestStep ==
    ASSUME LimiterInv, [LimiterNext]_limiterVars
    PROVE /\ res' \in [Callers -> Reservations]
          /\ ticks' \in 0..TickLimit
          /\ window' \in BOOLEAN
          /\ used' \in [Targets -> Nat]
          /\ usedAll' \in Nat
          /\ span' \in 0..TickLimit
          /\ span' <= ticks'
          /\ Fresh' /\ Unobserved'
<1> USE LimiterAssumption DEF LimiterInv, LimiterTypeOK, Fresh, Unobserved
<1> DEFINE R == res' \in [Callers -> Reservations] /\ Unobserved'
           W == /\ ticks' \in 0..TickLimit
                /\ window' \in BOOLEAN
                /\ used' \in [Targets -> Nat]
                /\ usedAll' \in Nat
                /\ span' \in 0..TickLimit
                /\ span' <= ticks'
                /\ Fresh'
<1>1. ASSUME NEW c \in Callers, NEW t \in Targets, NEW n \in Sizes, AcquireAdmits(c, t, n)
      PROVE R /\ W
  <2>1. R
        BY <1>1 DEF AcquireAdmits, Reserve, Reservations
  <2>2. W
        BY <1>1 DEF AcquireAdmits
  <2> QED
        BY <2>1, <2>2
<1>2. ASSUME UNCHANGED res PROVE R
      BY <1>2
<1>3. ASSUME UNCHANGED <<ticks, history>> PROVE W
      BY <1>3 DEF history
<1>4. ASSUME NEW c \in Callers, NEW t \in Targets,
             \/ AcquirePtRefuses(c, t) \/ AcquireGlobalRefuses(c, t)
             \/ \E n \in Sizes : AcquireBytesRefuse(c, t, n)
      PROVE R /\ W
      BY <1>2, <1>3, <1>4 DEF AcquirePtRefuses, AcquireGlobalRefuses, AcquireBytesRefuse
<1>5. ASSUME NEW c \in Callers, NEW n \in Sizes, Reconcile(c, n) PROVE R /\ W
  <2>1. R
        BY <1>5 DEF Reconcile, Reservations
  <2> QED
        BY <1>3, <1>5, <2>1 DEF Reconcile
<1>6. ASSUME NEW c \in Callers, Release(c) PROVE R /\ W
  <2>1. R
        BY <1>6 DEF Release, Reservations
  <2> QED
        BY <1>3, <1>6, <2>1 DEF Release
<1>7. ASSUME NEW c \in Callers, returnBytes(c) PROVE R /\ W
  <2>1. R
        BY <1>7 DEF returnBytes, NoReservation, Reservations
  <2> QED
        BY <1>3, <1>7, <2>1 DEF returnBytes
<1>8. CASE LimiterTick
  <2>1. R
        BY <1>2, <1>8 DEF LimiterTick
  <2>2. W
        BY <1>8 DEF LimiterTick
  <2> QED
        BY <2>1, <2>2
<1>9. CASE OpenWindow
  <2>1. R
        BY <1>2, <1>9 DEF OpenWindow
  <2>2. W
        BY <1>9 DEF OpenWindow
  <2> QED
        BY <2>1, <2>2
<1>10. CASE UNCHANGED limiterVars
       BY <1>2, <1>3, <1>10 DEF limiterVars, history
<1> QED
      BY <1>1, <1>4, <1>5, <1>6, <1>7, <1>8, <1>9, <1>10 DEF LimiterNext

-----------------------------------------------------------------------------
(* The limiter's inductive invariant holds in every reachable state.       *)
THEOREM LimiterInvariant == LimiterSpec => []LimiterInv
<1>1. LimiterInit => LimiterInv
  <2> SUFFICES ASSUME LimiterInit PROVE LimiterInv
      OBVIOUS
  <2> USE LimiterAssumption DEF LimiterInit, newTokenBucket
  <2>1. pt \in [Targets -> Bucket] /\ global \in Bucket /\ bytes \in Bucket
        BY DEF Bucket
  <2>2. res \in [Callers -> Reservations] /\ Unobserved
        BY DEF NoReservation, Reservations, Unobserved
  <2>3. LimiterTypeOK
    <3>1. used \in [Targets -> Nat] /\ usedAll \in Nat /\ charged \in Int
          OBVIOUS
    <3>2. window \in BOOLEAN
          BY Zenon
    <3>3. ticks \in 0..TickLimit /\ span \in 0..TickLimit
          OBVIOUS
    <3> QED
          BY <2>1, <2>2, <3>1, <3>2, <3>3 DEF LimiterTypeOK
  <2>4. NoExcessCredit /\ PtCredit /\ GlobalCredit /\ ByteCredit
        BY DEF NoExcessCredit, PtCredit, GlobalCredit, ByteCredit, Level, Capped
  <2>5. Fresh /\ span <= ticks
        BY DEF Fresh
  <2> QED
        BY <2>2, <2>3, <2>4, <2>5 DEF LimiterInv
<1>2. LimiterInv /\ [LimiterNext]_limiterVars => LimiterInv'
      BY PtStep, GlobalStep, ByteStep, RestStep DEF LimiterInv, LimiterTypeOK, NoExcessCredit
<1> QED
      BY <1>1, <1>2, PTL DEF LimiterSpec

(* In any window of time at most the burst plus the rate times its length  *)
(* is admitted, to each target and to all together.                        *)
THEOREM WindowSafety == LimiterSpec => []WindowBound
<1>1. LimiterInv => WindowBound
  <2> SUFFICES ASSUME LimiterInv PROVE WindowBound
      OBVIOUS
  <2> USE LimiterAssumption DEF LimiterInv, LimiterTypeOK
  <2>1. ASSUME PtRate > 0, NEW t \in Targets PROVE used[t] <= PtBurst + span * PtRate
    <3>1. Level(pt[t], PtBurst) \in Nat /\ span * PtRate \in Nat /\ used[t] \in Nat
          BY LevelType
    <3> QED
          BY <2>1, <3>1 DEF PtCredit
  <2>2. ASSUME GlobalRate > 0 PROVE usedAll <= GlobalBurst + span * GlobalRate
    <3>1. Level(global, GlobalBurst) \in Nat /\ span * GlobalRate \in Nat
          BY LevelType
    <3> QED
          BY <2>2, <3>1 DEF GlobalCredit
  <2> QED
        BY <2>1, <2>2 DEF WindowBound
<1> QED
      BY <1>1, LimiterInvariant, PTL

(* The streaming byte budget is never overdrawn.                           *)
THEOREM ByteSafety == LimiterSpec => []ByteBound
<1>1. LimiterInv => ByteBound
  <2> SUFFICES ASSUME LimiterInv, ByteRate > 0 PROVE charged <= ByteBurst + ticks * ByteRate
      BY DEF ByteBound
  <2> USE LimiterAssumption DEF LimiterInv, LimiterTypeOK
  <2>1. Level(bytes, ByteBurst) \in Nat /\ ticks * ByteRate \in Nat
        BY LevelType
  <2> QED
        BY <2>1 DEF ByteCredit
<1> QED
      BY <1>1, LimiterInvariant, PTL
=============================================================================
