------------------------------- MODULE Stats -------------------------------
(***************************************************************************)
(* internal/engine: stats.go (sharded atomic counters and the snapshot     *)
(* folded from them), histogram.go, publisher.go (latest-wins fan-out) and *)
(* runStatsCollector of run.go, which ties them together.                  *)
(*                                                                         *)
(* A counter is a cell <<scope, field>>: scope is a target's shard or      *)
(* "global" and field is requests, successes or failures, or scope is      *)
(* "hist" and field a bucket of the global histogram.  Record adds to its  *)
(* cells one at a time and snapshot loads them one at a time, each in the  *)
(* order of the code; work and todo hold what is left of that.  The cells  *)
(* of reconnects, panics and bytes follow the pattern of successes and are *)
(* left out, and so is a shard's own histogram, which nothing reads.  A    *)
(* published snapshot is its number in the order of publication.           *)
(***************************************************************************)
EXTENDS Integers, Sequences, FiniteSets, Functions

CONSTANTS Workers,     \* goroutines that call Record
          Targets,     \* target IDs that may have a shard
          FirstTargets,\* the sequence given to newCollector; a patch adds others
          Buckets,     \* number of histogram boundaries
          Subs,        \* callers of subscribe
          MaxRecords,  \* bound on the results recorded
          MaxSnaps     \* bound on the snapshots published

ASSUME StatsAssumption ==
    /\ FirstTargets \in Seq(Targets) /\ {"global", "hist"} \cap Targets = {}
    /\ IsFiniteSet(Workers) /\ "none" \notin Subs
    /\ Buckets \in Nat \ {0} /\ MaxRecords \in Nat /\ MaxSnaps \in Nat

Outcomes == {"successes", "failures", "none"}  \* "none": skipped or cancelled
Counts == <<"requests", "successes", "failures">>

(* The last slot is the overflow bucket.                                   *)
Slots == 1..(Buckets + 1)
Cells == ((Targets \cup {"global"}) \X Range(Counts)) \cup ({"hist"} \X Slots)

VARIABLES count,    \* every atomic counter
          targetIDs,\* the targets that have a shard, in order
          work,     \* work[w]: cells worker w has still to add to
          result,   \* result[w]: the <<target, outcome>> being recorded, or <<>>
          recorded, \* results so far
          pc,       \* where the collector goroutine is
          todo,     \* cells its snapshot has still to load
          snap,     \* what the snapshot has loaded, by cell
          last,     \* this is the publication on ctx.Done
          cur,      \* publisher.cur: the number of the published snapshot
          left,     \* subscribers publish has still to send to
          full,     \* the one whose channel it found full, or "none"
          sub,      \* off, added to p.subs, on, removed from p.subs, closed
          buf,      \* the channel of each subscriber, of capacity one
          seen,     \* the snapshot it received last
          cancelled

collector == <<count, targetIDs, work, result, recorded>>
fanout == <<sub, buf, seen>>
vars == <<collector, pc, todo, snap, last, cur, left, full, fanout, cancelled>>

None == [c \in {} |-> 0]
Results == {<<>>} \cup (Targets \X Outcomes)

TypeOK ==
    /\ count \in [Cells -> Nat] /\ targetIDs \in Seq(Targets)
    /\ work \in [Workers -> Seq(Cells)] /\ result \in [Workers -> Results]
    /\ recorded \in 0..MaxRecords
    /\ pc \in {"idle", "load", "lock", "send", "done"} /\ last \in BOOLEAN
    /\ todo \in Seq(Cells) /\ \E D \in SUBSET Cells : snap \in [D -> Nat]
    /\ cur \in Nat /\ left \subseteq Subs /\ full \in Subs \cup {"none"}
    /\ sub \in [Subs -> {"off", "added", "on", "removed", "closed"}]
    /\ buf \in [Subs -> Seq(Nat)] /\ seen \in [Subs -> Nat]
    /\ cancelled \in BOOLEAN

(* A run whose counters stand at n, with nobody recording or publishing.   *)
Quiet(n) ==
        /\ count = n
        /\ targetIDs = FirstTargets
        /\ work = [w \in Workers |-> <<>>] /\ result = [w \in Workers |-> <<>>]
        /\ recorded = 0
        /\ pc = "idle" /\ todo = <<>> /\ snap = None /\ last = FALSE
        /\ cur = 0 /\ left = {} /\ full = "none"
        /\ sub = [s \in Subs |-> "off"] /\ buf = [s \in Subs |-> <<>>]
        /\ seen = [s \in Subs |-> 0]
        /\ cancelled = FALSE

Init == Quiet([c \in Cells |-> 0])

-----------------------------------------------------------------------------
(* counterShard.record: the cells a result adds one to, in order.          *)
RecordCells(scope, o, b) ==
    <<<<scope, "requests">>>>
      \o (IF o = "none" THEN <<>> ELSE <<<<scope, o>>>>)
      \o (IF scope = "global" THEN <<<<"hist", b>>>> ELSE <<>>)

(* Mutant: the target's shard is counted before the global one.            *)
RecordShardFirst(w, t, o, b) ==
    /\ work[w] = <<>> /\ result[w] = <<>> /\ recorded < MaxRecords
    /\ work' = [work EXCEPT ![w] = (IF t \in Range(targetIDs) THEN RecordCells(t, o, b) ELSE <<>>)
                                     \o RecordCells("global", o, b)]
    /\ recorded' = recorded + 1
    /\ UNCHANGED <<count, targetIDs, result, pc, todo, snap, last, cur, left, full, fanout, cancelled>>

(* collector.Record: the global counters first ...                         *)
Record(w, t, o, b) ==
    /\ work[w] = <<>> /\ result[w] = <<>> /\ recorded < MaxRecords
    /\ work' = [work EXCEPT ![w] = RecordCells("global", o, b)]
    /\ result' = [result EXCEPT ![w] = <<t, o>>]
    /\ recorded' = recorded + 1
    /\ UNCHANGED <<count, targetIDs, pc, todo, snap, last, cur, left, full, fanout, cancelled>>

Add(w) ==
    /\ work[w] # <<>>
    /\ count' = [count EXCEPT ![Head(work[w])] = @ + 1]
    /\ work' = [work EXCEPT ![w] = Tail(@)]
    /\ UNCHANGED <<targetIDs, result, recorded, pc, todo, snap, last, cur, left, full, fanout, cancelled>>

(* ... then, under the read lock, the shard, if the target has one.        *)
Lookup(w) ==
    /\ work[w] = <<>> /\ result[w] # <<>>
    /\ LET t == result[w][1] IN
       work' = [work EXCEPT ![w] = IF t \in Range(targetIDs) THEN RecordCells(t, result[w][2], 1) ELSE <<>>]
    /\ result' = [result EXCEPT ![w] = <<>>]
    /\ UNCHANGED <<count, targetIDs, recorded, pc, todo, snap, last, cur, left, full, fanout, cancelled>>

(* A live patch adds a target.                                             *)
AddShard(t) ==
    /\ t \notin Range(targetIDs) /\ targetIDs' = Append(targetIDs, t)
    /\ UNCHANGED <<count, work, result, recorded, pc, todo, snap, last, cur, left, full, fanout, cancelled>>

-----------------------------------------------------------------------------
(* snapshot: the shards present at its start, one target after the other,  *)
(* the histogram, the global counters.                                     *)
LoadOrder ==
    LET n == Len(Counts) IN
    [i \in 1..(n * Len(targetIDs)) |-> <<targetIDs[((i - 1) \div n) + 1], Counts[((i - 1) % n) + 1]>>]
      \o [i \in Slots |-> <<"hist", i>>]
      \o [k \in 1..n |-> <<"global", Counts[k]>>]

(* runStatsCollector: at a tick, or for the last time on ctx.Done; when    *)
(* both are ready select takes either.                                     *)
StartSnapshot ==
    /\ pc = "idle"
    /\ \/ cur < MaxSnaps /\ last' = FALSE
       \/ cancelled /\ last' = TRUE
    /\ pc' = "load" /\ todo' = LoadOrder
    /\ UNCHANGED <<collector, snap, cur, left, full, fanout, cancelled>>

Load ==
    /\ pc = "load" /\ todo # <<>>
    /\ snap' = [c \in DOMAIN snap \cup {Head(todo)} |-> IF c = Head(todo) THEN count[c] ELSE snap[c]]
    /\ todo' = Tail(todo)
    /\ UNCHANGED <<collector, pc, last, cur, left, full, fanout, cancelled>>

(* The sum of the counters h of some cells, as the number of increments:   *)
(* the pairs of a cell and a number up to its count.                       *)
Units(h, cells) == UNION {{c} \X (1..h[c]) : c \in cells}
Total(h, cells) == Cardinality(Units(h, cells))

(* histogram.percentile of q per cent: the samples in the first n slots,   *)
(* and the rank to exceed, rounded up (a float product a little above a    *)
(* whole number raises it by one more, which hides no sample).             *)
SampleCount(h, n) == Total(h, {"hist"} \X (1..n))
Rank(h, q) == (q * SampleCount(h, Buckets + 1) + 99) \div 100

(* Mutant: the rank is rounded down and may be met exactly.                *)
PercentileLow(h, q) ==
    LET rank == (q * SampleCount(h, Buckets + 1)) \div 100
        crossing == {i \in 1..Buckets : SampleCount(h, i) >= rank}
    IN  IF SampleCount(h, Buckets + 1) = 0 THEN 0
        ELSE IF crossing = {} THEN Buckets
        ELSE CHOOSE i \in crossing : \A j \in crossing : i <= j

(* 0 for no samples, else the boundary of the first bucket at which the    *)
(* cumulative count exceeds the rank, or the last boundary.                *)
Percentile(h, q) ==
    LET crossing == {i \in 1..Buckets : SampleCount(h, i) > Rank(h, q)}
    IN  IF SampleCount(h, Buckets + 1) = 0 THEN 0
        ELSE IF crossing = {} THEN Buckets
        ELSE CHOOSE i \in crossing : \A j \in crossing : i <= j

(* publish: swap the pointer, then take p.mu and visit every channel.      *)
Store ==
    /\ pc = "load" /\ todo = <<>>
    /\ cur' = cur + 1 /\ pc' = "lock" /\ snap' = None
    /\ UNCHANGED <<collector, todo, last, left, full, fanout, cancelled>>

Lock ==
    /\ pc = "lock" /\ pc' = "send"
    /\ left' = {s \in Subs : sub[s] \in {"added", "on"}}
    /\ UNCHANGED <<collector, todo, snap, last, cur, full, fanout, cancelled>>

(* The first select: a send that finds room.                               *)
SendNow(s) ==
    /\ pc = "send" /\ full = "none" /\ s \in left /\ buf[s] = <<>>
    /\ buf' = [buf EXCEPT ![s] = <<cur>>]
    /\ left' = left \ {s}
    /\ UNCHANGED <<collector, pc, todo, snap, last, cur, full, sub, seen, cancelled>>

(* Mutant: a full channel is waited for.                                   *)
FullBlocks(s) == FALSE /\ full' = s

(* The first select found the channel full; the second comes later.        *)
Full(s) ==
    /\ pc = "send" /\ full = "none" /\ s \in left /\ buf[s] # <<>>
    /\ full' = s
    /\ UNCHANGED <<collector, pc, todo, snap, last, cur, left, fanout, cancelled>>

(* Mutant: a channel found full is left alone.                             *)
DrainNothing ==
    /\ full # "none" /\ full' = "none" /\ left' = left \ {full}
    /\ UNCHANGED <<collector, pc, todo, snap, last, cur, fanout, cancelled>>

(* The second select: drop the stale value and try again, or, when the     *)
(* subscriber has just taken it, leave without sending.                    *)
Drain ==
    /\ full # "none" /\ full' = "none"
    /\ \/ buf[full] # <<>> /\ buf' = [buf EXCEPT ![full] = <<>>] /\ UNCHANGED left
       \/ buf[full] = <<>> /\ left' = left \ {full} /\ UNCHANGED buf
    /\ UNCHANGED <<collector, pc, todo, snap, last, cur, sub, seen, cancelled>>

Unlock ==
    /\ pc = "send" /\ left = {}
    /\ pc' = IF last THEN "done" ELSE "idle"
    /\ UNCHANGED <<collector, todo, snap, last, cur, left, full, fanout, cancelled>>

-----------------------------------------------------------------------------
(* p.mu is free when publish is not between Lock and Unlock.               *)
MuFree == pc # "send"

Subscribe(s) ==
    /\ sub[s] = "off" /\ MuFree
    /\ sub' = [sub EXCEPT ![s] = "added"]
    /\ UNCHANGED <<collector, pc, todo, snap, last, cur, left, full, buf, seen, cancelled>>

(* subscribe returns p.latest(), read after p.mu is released.              *)
Latest(s) ==
    /\ sub[s] = "added"
    /\ sub' = [sub EXCEPT ![s] = "on"]
    /\ seen' = [seen EXCEPT ![s] = cur]
    /\ UNCHANGED <<collector, pc, todo, snap, last, cur, left, full, buf, cancelled>>

Receive(s) ==
    /\ sub[s] \in {"on", "removed", "closed"} /\ buf[s] # <<>>
    /\ seen' = [seen EXCEPT ![s] = buf[s][1]]
    /\ buf' = [buf EXCEPT ![s] = <<>>]
    /\ UNCHANGED <<collector, pc, todo, snap, last, cur, left, full, sub, cancelled>>

(* Mutant: the channel leaves the set without p.mu.                        *)
UnsubscribeUnlocked(s) ==
    /\ sub[s] = "on"
    /\ sub' = [sub EXCEPT ![s] = "removed"]
    /\ UNCHANGED <<collector, pc, todo, snap, last, cur, left, full, buf, seen, cancelled>>

(* The cancel function: delete under p.mu, then close.                     *)
Unsubscribe(s) ==
    /\ sub[s] = "on" /\ MuFree
    /\ sub' = [sub EXCEPT ![s] = "removed"]
    /\ UNCHANGED <<collector, pc, todo, snap, last, cur, left, full, buf, seen, cancelled>>

CloseChan(s) ==
    /\ sub[s] = "removed"
    /\ sub' = [sub EXCEPT ![s] = "closed"]
    /\ UNCHANGED <<collector, pc, todo, snap, last, cur, left, full, buf, seen, cancelled>>

CancelRun ==
    /\ ~cancelled /\ cancelled' = TRUE
    /\ UNCHANGED <<collector, pc, todo, snap, last, cur, left, full, fanout>>

Collector ==
    \/ StartSnapshot \/ Load \/ Store \/ Lock \/ Drain \/ Unlock
    \/ \E s \in Subs : SendNow(s) \/ Full(s)

Next ==
    \/ Collector
    \/ \E w \in Workers : Add(w) \/ Lookup(w)
    \/ \E w \in Workers, t \in Targets, o \in Outcomes, b \in Slots : Record(w, t, o, b)
    \/ \E t \in Targets : AddShard(t)
    \/ \E s \in Subs : Subscribe(s) \/ Latest(s) \/ Receive(s) \/ Unsubscribe(s) \/ CloseChan(s)
    \/ CancelRun

Spec == Init /\ [][Next]_vars /\ WF_vars(Collector)
-----------------------------------------------------------------------------
(* stats.go calls a snapshot a point-in-time view.  Torn as it is (it can  *)
(* show more successes than requests), the order of the loads against the  *)
(* order of the adds keeps its parts consistent: the shards never add up   *)
(* to more than the global count of the same field, nor the latency        *)
(* samples to more than the requests.                                      *)
SnapshotOrdered ==
    pc = "load" /\ todo = <<>> =>
        /\ \A f \in Range(Counts) :
             Total(snap, DOMAIN snap \cap (Targets \X {f})) <= snap[<<"global", f>>]
        /\ Total(snap, {"hist"} \X Slots) <= snap[<<"global", "requests">>]

(* histogram.percentile never understates: at least the asked share of the *)
(* samples lies at or under the boundary it reports, unless it reports the *)
(* last one.                                                               *)
PercentileNeverUnder ==
    pc = "load" /\ todo = <<>> => \A q \in {50, 90, 99} :
        LET p == Percentile(snap, q) IN
        p = Buckets \/ 100 * SampleCount(snap, p) >= q * SampleCount(snap, Buckets + 1)

(* "the upper boundary of the bucket in which the cumulative count crosses *)
(* q*total" (histogram.go:63-64): a percentile of some samples is the      *)
(* boundary of a bucket that holds one, or the last for an overflow.  The  *)
(* rank must be exceeded, so the percentile of a few samples reports the   *)
(* last boundary, 30 s, whatever they are.                                 *)
PercentileOfASample ==
    pc = "load" /\ todo = <<>> /\ SampleCount(snap, Buckets + 1) > 0 => \A q \in {50, 90, 99} :
        LET p == Percentile(snap, q) IN
        snap[<<"hist", p>>] > 0 \/ (p = Buckets /\ snap[<<"hist", Buckets + 1>>] > 0)

(* Between two publishes the newest snapshot a subscriber has received or  *)
(* finds in its channel is the published one or the one before it, however *)
(* its receives fall between the two selects of publish.                   *)
Newest(s) == IF buf[s] = <<>> \/ buf[s][1] < seen[s] THEN seen[s] ELSE buf[s][1]
BetweenPublishes == pc \in {"idle", "load", "done"}

LagAtMostOne ==
    BetweenPublishes => \A s \in Subs : sub[s] = "on" => Newest(s) >= cur - 1

(* "the subscriber always converges on the latest snapshot": publish       *)
(* leaves the newest snapshot with every subscriber.                       *)
ConvergesOnLatest ==
    BetweenPublishes => \A s \in Subs : sub[s] = "on" => Newest(s) = cur

(* publish never sends on a channel that its subscriber closed, which      *)
(* would panic the collector.                                              *)
NoSendOnClosed == \A s \in left : sub[s] # "closed"

(* The producer is never blocked by its subscribers: once the run is       *)
(* cancelled the collector publishes a last time and returns, even if no   *)
(* subscriber ever receives.                                               *)
CollectorEnds == cancelled ~> pc = "done"
=============================================================================
