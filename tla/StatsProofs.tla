---------------------------- MODULE StatsProofs ----------------------------
(***************************************************************************)
(* Statistics and publisher, for any number of workers, targets, buckets,  *)
(* results, snapshots and subscribers.                                     *)
(*                                                                         *)
(* None of the properties is inductive.  SnapshotOrdered compares loads    *)
(* made at different instants: it needs what holds of the counters at each *)
(* instant (a result reaches its shard after the global counters, so the   *)
(* shards lag by what the workers still owe) and that the global counters  *)
(* are loaded last.  LagAtMostOne needs what a channel can hold before and *)
(* after publish has visited it.                                           *)
(***************************************************************************)
EXTENDS Stats, FiniteSetTheorems, SequenceTheorems, WellFoundedInduction, TLAPS

Fields == {"requests", "successes", "failures"}

(* A worker that has added a result to the global counters adds it to a    *)
(* shard later, if at all.                                                 *)
InWork(w, c) == \E i \in DOMAIN work[w] : work[w][i] = c

Owes(w, f) ==
    IF result[w] = <<>> THEN \E t \in Targets : InWork(w, <<t, f>>)
    ELSE (f = "requests" \/ f = result[w][2]) /\ ~InWork(w, <<"global", f>>)

(* It adds the latency after the request.                                  *)
OwesSample(w) ==
    (\E b \in Slots : InWork(w, <<"hist", b>>)) /\ ~InWork(w, <<"global", "requests">>)

Owing(f) == {w \in Workers : Owes(w, f)}
OwingSample == {w \in Workers : OwesSample(w)}

(* What a worker has still to add: of the global counters the request      *)
(* first and the latency last, or each field of one shard once.            *)
Shaped ==
    \A w \in Workers :
        /\ result[w] # <<>> => \A i \in DOMAIN work[w] :
              /\ \/ work[w][i] = <<"global", "requests">> /\ i = 1
                 \/ work[w][i] = <<"global", result[w][2]>> /\ result[w][2] \in Fields \ {"requests"}
                 \/ work[w][i] \in {"hist"} \X Slots /\ i = Len(work[w])
        /\ result[w] = <<>> =>
              /\ \A i \in DOMAIN work[w] : work[w][i] \in Targets \X Fields
              /\ \A i, j \in DOMAIN work[w] : work[w][i][2] = work[w][j][2] => i = j

(* At every instant the shards, and the samples, lag behind by at least    *)
(* what is owed.                                                           *)
Lagging ==
    /\ IsFiniteSet(Units(count, Cells))
    /\ \A f \in Fields :
          Total(count, Targets \X {f}) + Cardinality(Owing(f)) <= count[<<"global", f>>]
    /\ Total(count, {"hist"} \X Slots) + Cardinality(OwingSample) <= count[<<"global", "requests">>]

(* A snapshot under way: what it has loaded was true then, the global      *)
(* counters come last, and what they cover is within them.                 *)
GlobalOnly == \A i \in DOMAIN todo : todo[i][1] = "global"

Loading ==
    /\ pc # "load" => snap = None
    /\ \A c \in DOMAIN snap : snap[c] <= count[c]
    /\ \A i, j \in DOMAIN todo : i < j /\ todo[i][1] = "global" => todo[j][1] = "global"
    /\ pc = "load" => \A c \in ({"global"} \X Fields) \cup ({"hist"} \X Slots) :
          c \in DOMAIN snap \/ \E i \in DOMAIN todo : todo[i] = c
    /\ \A f \in Fields : <<"global", f>> \in DOMAIN snap =>
          GlobalOnly /\ Total(snap, DOMAIN snap \cap (Targets \X {f})) <= snap[<<"global", f>>]
    /\ <<"global", "requests">> \in DOMAIN snap =>
          Total(snap, {"hist"} \X Slots) <= snap[<<"global", "requests">>]

(* publish: a channel it has still to visit holds the snapshot before, one *)
(* it has visited the current one, or its owner has taken what was there.  *)
Listening(s) == sub[s] \in {"added", "on"}

Publishing ==
    /\ left # {} => pc = "send"
    /\ \A s \in left : Listening(s)
    /\ full # "none" => full \in left
    /\ \A s \in Subs :
          /\ sub[s] = "off" => buf[s] = <<>>
          /\ Listening(s) /\ (pc = "lock" \/ s \in left) =>
                /\ buf[s] = <<>> \/ buf[s] = <<cur - 1>>
                /\ full = s /\ buf[s] = <<>> => sub[s] = "on" /\ seen[s] >= cur - 1
          /\ Listening(s) /\ pc # "lock" /\ s \notin left =>
                /\ buf[s] = <<>> \/ buf[s] = <<cur>>
                /\ sub[s] = "on" /\ buf[s] = <<>> => seen[s] >= cur - 1

(* The inductive invariant.                                                *)
StatsInv == TypeOK /\ Shaped /\ Lagging /\ Loading /\ Publishing

-----------------------------------------------------------------------------
(* The counters' fields and cells.                                         *)
LEMMA FieldsAre ==
    /\ Len(Counts) = 3 /\ DOMAIN Counts = 1..3
    /\ Counts[1] = "requests" /\ Counts[2] = "successes" /\ Counts[3] = "failures"
    /\ \A f : f \in Range(Counts) <=> f \in Fields
BY DEF Counts, Range, Fields

LEMMA CellsAre ==
    /\ \A s, f : <<s, f>> \in Cells <=>
          \/ (s \in Targets \/ s = "global") /\ f \in Fields
          \/ s = "hist" /\ f \in Slots
    /\ \A c \in Cells : c = <<c[1], c[2]>>
    /\ "global" \notin Targets /\ "hist" \notin Targets
    /\ Slots \subseteq Nat /\ 1 \in Slots
<1>1. Range(Counts) = Fields
      BY FieldsAre
<1>2. Buckets \in Nat /\ "global" \notin Targets /\ "hist" \notin Targets
      BY StatsAssumption
<1> QED
      BY <1>1, <1>2 DEF Cells, Slots

(* What is known of the tail of a sequence.                                *)
LEMMA TailFacts ==
    ASSUME NEW S, NEW s \in Seq(S), s # <<>>
    PROVE /\ Head(s) = s[1] /\ 1 \in DOMAIN s /\ s[1] \in S
          /\ Tail(s) \in Seq(S) /\ Len(Tail(s)) = Len(s) - 1
          /\ \A i \in DOMAIN Tail(s) : i + 1 \in DOMAIN s /\ Tail(s)[i] = s[i + 1]
          /\ \A i \in DOMAIN s : i # 1 => i - 1 \in DOMAIN Tail(s) /\ Tail(s)[i - 1] = s[i]
OBVIOUS

(* A function on 1..n is a sequence, and what a concatenation holds.       *)
LEMMA FunctionIsSeq ==
    ASSUME NEW S, NEW n \in Nat, NEW f \in [1..n -> S]
    PROVE f \in Seq(S) /\ Len(f) = n
OBVIOUS

LEMMA ConcatFacts ==
    ASSUME NEW S, NEW s \in Seq(S), NEW u \in Seq(S)
    PROVE /\ s \o u \in Seq(S) /\ Len(s \o u) = Len(s) + Len(u)
          /\ DOMAIN (s \o u) = 1..(Len(s) + Len(u))
          /\ \A i \in 1..Len(s) : (s \o u)[i] = s[i]
          /\ \A i \in 1..Len(u) : (s \o u)[Len(s) + i] = u[i]
<1>1. /\ s \o u \in Seq(S) /\ Len(s \o u) = Len(s) + Len(u)
      /\ Len(s) \in Nat /\ Len(u) \in Nat
      OBVIOUS
<1>2. \A i \in 1..Len(s) : (s \o u)[i] = s[i]
      OBVIOUS
<1>3. \A i \in 1..Len(u) : (s \o u)[Len(s) + i] = u[i]
  <2> TAKE i \in 1..Len(u)
  <2>1. Len(s) + i \in 1..(Len(s) + Len(u)) /\ ~(Len(s) + i <= Len(s)) /\ (Len(s) + i) - Len(s) = i
        BY <1>1
  <2> QED
        BY <2>1, ConcatProperties
<1> QED
      BY <1>1, <1>2, <1>3

(* The cells of one result: the request first, then the outcome, and for   *)
(* the global counters the latency last.                                   *)
LEMMA RecordFacts ==
    ASSUME NEW scope, NEW o \in Outcomes, NEW b \in Slots,
           scope = "global" \/ scope \in Targets
    PROVE LET r == RecordCells(scope, o, b) IN
          /\ r \in Seq(Cells)
          /\ 1 \in DOMAIN r /\ r[1] = <<scope, "requests">>
          /\ o # "none" => 2 \in DOMAIN r /\ r[2] = <<scope, o>>
          /\ scope = "global" => Len(r) \in DOMAIN r /\ r[Len(r)] = <<"hist", b>> /\ Len(r) > 1
          /\ Len(r) <= 3 /\ (o = "none" => Len(r) <= 2)
          /\ \A i \in DOMAIN r : \/ i = 1
                                 \/ i = 2 /\ o # "none" /\ r[i] = <<scope, o>>
                                 \/ i = Len(r) /\ scope = "global" /\ r[i] = <<"hist", b>>
<1> DEFINE R == <<scope, "requests">>
           O == <<scope, o>>
           H == <<"hist", b>>
           m == IF o = "none" THEN <<>> ELSE <<O>>
           z == IF scope = "global" THEN <<H>> ELSE <<>>
           r == RecordCells(scope, o, b)
<1>1. R \in Cells /\ H \in Cells /\ (o # "none" => O \in Cells)
      BY CellsAre DEF Outcomes, Fields
<1>2. r = <<R>> \o m \o z
      BY DEF RecordCells
<1> HIDE DEF R, O, H, r
<1>3. /\ m \in Seq(Cells)
      /\ o = "none" => Len(m) = 0
      /\ o # "none" => Len(m) = 1 /\ m[1] = O
      BY <1>1
<1>4. /\ z \in Seq(Cells)
      /\ scope # "global" => Len(z) = 0
      /\ scope = "global" => Len(z) = 1 /\ z[1] = H
      BY <1>1
<1> DEFINE a == <<R>> \o m
<1> HIDE DEF m, z
<1>5. /\ a \in Seq(Cells) /\ Len(a) = 1 + Len(m) /\ a[1] = R
      /\ o # "none" => a[2] = m[1]
      BY <1>1, <1>3
<1> HIDE DEF a
<1>6. r = a \o z
      BY <1>2 DEF a
<1>7. /\ r \in Seq(Cells) /\ Len(r) = Len(a) + Len(z)
      /\ \A i \in 1..Len(a) : r[i] = a[i]
      /\ \A i \in 1..Len(z) : r[Len(a) + i] = z[i]
      BY <1>4, <1>5, <1>6, ConcatFacts
<1> HIDE DEF r
<1>8. r[1] = R /\ Len(r) >= 1
      BY <1>3, <1>4, <1>5, <1>7
<1>9. o # "none" => r[2] = O /\ Len(r) >= 2
      BY <1>3, <1>4, <1>5, <1>7
<1>10. scope = "global" => r[Len(r)] = H /\ Len(r) > 1
  <2> SUFFICES ASSUME scope = "global" PROVE r[Len(r)] = H /\ Len(r) > 1
        OBVIOUS
  <2>1. 1 \in 1..Len(z) /\ z[1] = H /\ Len(m) \in Nat
        BY <1>3, <1>4
  <2>2. r[Len(a) + 1] = H
        BY <1>7, <2>1
  <2>3. Len(r) = Len(a) + 1 /\ Len(a) = 1 + Len(m)
        BY <1>4, <1>5, <1>7
  <2> QED
        BY <2>1, <2>2, <2>3
<1>11. DOMAIN r = 1..Len(r)
      BY <1>7
<1>12. Len(r) <= 3 /\ (o = "none" => Len(r) <= 2)
  <2> DEFINE x == Len(m)
             y == Len(z)
  <2>1. x \in 0..1 /\ y \in 0..1 /\ (o = "none" => x = 0)
        BY <1>3, <1>4
  <2>2. Len(r) = 1 + x + y
        BY <1>3, <1>4, <1>5, <1>7
  <2> HIDE DEF x, y
  <2> QED
        BY <2>1, <2>2
<1>13. ASSUME NEW i \in DOMAIN r
       PROVE i = 1 \/ (i = 2 /\ o # "none") \/ (i = Len(r) /\ scope = "global")
  <2> DEFINE x == Len(m)
             y == Len(z)
  <2>1. /\ x \in 0..1 /\ y \in 0..1
        /\ o = "none" => x = 0
        /\ scope # "global" => y = 0
        BY <1>3, <1>4
  <2>2. Len(r) = 1 + x + y /\ i \in 1..Len(r)
        BY <1>3, <1>4, <1>5, <1>7, <1>11
  <2> HIDE DEF x, y
  <2>3. (x = 0 /\ y = 0) \/ (x = 1 /\ y = 0) \/ (x = 0 /\ y = 1) \/ (x = 1 /\ y = 1)
        BY <2>1
  <2> QED
        BY <2>1, <2>2, <2>3
<1> QED
      BY <1>7, <1>8, <1>9, <1>10, <1>11, <1>12, <1>13 DEF r, R, O, H

-----------------------------------------------------------------------------
(* Sums of counters, as sets of increments.                                *)
LEMMA UnitsAre ==
    ASSUME NEW h, NEW C
    PROVE /\ \A c, k : <<c, k>> \in Units(h, C) <=> c \in C /\ k \in 1..h[c]
          /\ \A u \in Units(h, C) : \E c \in C : \E k \in 1..h[c] : u = <<c, k>>
<1>1. \A u : u \in Units(h, C) <=> \E c \in C : u \in {c} \X (1..h[c])
      BY DEF Units
<1> QED
      BY <1>1

(* Adding one to a counter adds one increment.                             *)
LEMMA OneMoreUnit ==
    ASSUME NEW h \in [Cells -> Nat], NEW c \in Cells, NEW C \in SUBSET Cells, NEW g,
           g[c] = h[c] + 1, \A d \in Cells : d # c => g[d] = h[d]
    PROVE /\ c \in C => \E x : Units(g, C) = Units(h, C) \cup {x} /\ x \notin Units(h, C)
          /\ c \notin C => Units(g, C) = Units(h, C)
<1>1. h[c] \in Nat /\ g[c] = h[c] + 1 /\ \A d \in Cells : d # c => g[d] = h[d]
      OBVIOUS
<1>2. \A d, k : <<d, k>> \in Units(g, C) <=> d \in C /\ k \in 1..g[d]
      BY UnitsAre
<1>3. \A d, k : <<d, k>> \in Units(h, C) <=> d \in C /\ k \in 1..h[d]
      BY UnitsAre
<1>4. /\ \A u \in Units(g, C) : \E d, k : u = <<d, k>>
      /\ \A u \in Units(h, C) : \E d, k : u = <<d, k>>
      BY UnitsAre
<1> DEFINE Ug == Units(g, C)
           Uh == Units(h, C)
           x == <<c, h[c] + 1>>
<1>5. 1..(h[c] + 1) = (1..h[c]) \cup {h[c] + 1} /\ h[c] + 1 \notin 1..h[c]
      BY <1>1
<1>6. ASSUME c \in C
      PROVE Ug = Uh \cup {x} /\ x \notin Uh
  <2>1. \A d, k : <<d, k>> \in Ug <=> <<d, k>> \in Uh \/ (d = c /\ k = h[c] + 1)
        BY <1>1, <1>2, <1>3, <1>5, <1>6
  <2>2. x \in Ug /\ x \notin Uh
        BY <2>1, <1>3, <1>5
  <2>3. \A u \in Ug : u \in Uh \/ u = x
        BY <2>1, <1>4
  <2>4. \A u \in Uh : u \in Ug
        BY <2>1, <1>4
  <2> HIDE DEF Ug, Uh, x
  <2>5. Ug = Uh \cup {x} /\ x \notin Uh
        BY <2>2, <2>3, <2>4
  <2> QED
        BY <2>5 DEF Ug, Uh, x
<1>7. ASSUME c \notin C PROVE Units(g, C) = Units(h, C)
  <2>1. \A d, k : <<d, k>> \in Units(g, C) <=> <<d, k>> \in Units(h, C)
        BY <1>1, <1>2, <1>3, <1>7
  <2>2. (\A u \in Ug : u \in Uh) /\ (\A u \in Uh : u \in Ug)
        BY <2>1, <1>4
  <2> QED
        BY <2>2
<1> QED
      BY <1>6, <1>7

LEMMA OneMore ==
    ASSUME NEW h \in [Cells -> Nat], NEW c \in Cells, NEW C \in SUBSET Cells, NEW g,
           g[c] = h[c] + 1, \A d \in Cells : d # c => g[d] = h[d], IsFiniteSet(Units(h, C))
    PROVE /\ IsFiniteSet(Units(g, C)) /\ Total(h, C) \in Nat
          /\ c \in C => Total(g, C) = Total(h, C) + 1
          /\ c \notin C => Total(g, C) = Total(h, C)
<1> DEFINE U == Units(h, C)
           V == Units(g, C)
<1>1. IsFiniteSet(U) /\ Cardinality(U) \in Nat
      BY FS_CardinalityType
<1>2. CASE c \in C
  <2>1. \E x : V = U \cup {x} /\ x \notin U
        BY <1>2, OneMoreUnit
  <2> HIDE DEF U, V
  <2>2. PICK x : V = U \cup {x} /\ x \notin U
        BY <2>1
  <2>3. IsFiniteSet(V) /\ Cardinality(V) = Cardinality(U) + 1
        BY <1>1, <2>2, FS_AddElement
  <2> QED
        BY <1>1, <1>2, <2>3 DEF Total, U, V
<1>3. CASE c \notin C
  <2>1. V = U
        BY <1>3, OneMoreUnit
  <2> QED
        BY <1>1, <1>3, <2>1 DEF Total
<1> QED
      BY <1>2, <1>3

(* The counters never fall: fewer cells, loaded earlier, sum to no more.   *)
LEMMA TotalGrows ==
    ASSUME NEW h, NEW C, NEW g, NEW D, IsFiniteSet(Units(g, D)),
           \A c \in C : c \in D /\ h[c] \in Nat /\ g[c] \in Nat /\ h[c] <= g[c]
    PROVE /\ IsFiniteSet(Units(h, C)) /\ Total(h, C) \in Nat /\ Total(g, D) \in Nat
          /\ Total(h, C) <= Total(g, D)
<1>1. Units(h, C) \subseteq Units(g, D)
  <2> SUFFICES ASSUME NEW u \in Units(h, C) PROVE u \in Units(g, D)
        OBVIOUS
  <2>1. PICK c \in C : \E k \in 1..h[c] : u = <<c, k>>
        BY UnitsAre
  <2>2. PICK k \in 1..h[c] : u = <<c, k>>
        BY <2>1
  <2>3. c \in D /\ k \in 1..g[c]
        BY <2>2
  <2> QED
        BY <2>2, <2>3, UnitsAre
<1> QED
      BY <1>1, FS_Subset, FS_CardinalityType DEF Total

-----------------------------------------------------------------------------
(* A snapshot loads the global counters last, and leaves out none of them  *)
(* and no bucket.                                                          *)
LEMMA LoadOrderFacts ==
    ASSUME targetIDs \in Seq(Targets)
    PROVE /\ LoadOrder \in Seq(Cells)
          /\ \A i, j \in DOMAIN LoadOrder :
                i < j /\ LoadOrder[i][1] = "global" => LoadOrder[j][1] = "global"
          /\ \A c \in ({"global"} \X Fields) \cup ({"hist"} \X Slots) :
                \E i \in DOMAIN LoadOrder : LoadOrder[i] = c
<1> DEFINE L == Len(targetIDs)
           a == [i \in 1..(3 * L) |-> <<targetIDs[((i - 1) \div 3) + 1], Counts[((i - 1) % 3) + 1]>>]
           b == [i \in Slots |-> <<"hist", i>>]
           g == [k \in 1..3 |-> <<"global", Counts[k]>>]
           o == LoadOrder
           S == Slots
<1>1. L \in Nat /\ 3 * L \in Nat /\ Buckets \in Nat
      BY StatsAssumption
<1>2. o = a \o b \o g
      BY FieldsAre DEF LoadOrder
<1>3. ASSUME NEW i \in 1..(3 * L)
      PROVE /\ <<targetIDs[((i - 1) \div 3) + 1], Counts[((i - 1) % 3) + 1]>> \in Cells
            /\ targetIDs[((i - 1) \div 3) + 1] # "global"
  <2>1. ((i - 1) \div 3) + 1 \in 1..L /\ ((i - 1) % 3) + 1 \in 1..3
        BY <1>1
  <2>2. targetIDs[((i - 1) \div 3) + 1] \in Targets
        BY <2>1
  <2>3. Counts[((i - 1) % 3) + 1] \in Fields
        BY <2>1, FieldsAre DEF Fields
  <2> QED
        BY <2>2, <2>3, CellsAre
<1>4. /\ a \in Seq(Cells) /\ Len(a) = 3 * L
      /\ \A i \in 1..Len(a) : a[i][1] # "global"
  <2>1. a \in [1..(3 * L) -> Cells]
        BY <1>3
  <2>2. a \in Seq(Cells) /\ Len(a) = 3 * L
        BY <1>1, <2>1, FunctionIsSeq
  <2>3. \A i \in 1..(3 * L) : a[i][1] # "global"
        BY <1>3
  <2> QED
        BY <2>2, <2>3
<1>5. /\ b \in Seq(Cells) /\ Len(b) = Buckets + 1
      /\ \A i \in 1..Len(b) : b[i] = <<"hist", i>>
  <2>1. b \in [1..(Buckets + 1) -> Cells]
        BY CellsAre DEF Slots
  <2>2. b \in Seq(Cells) /\ Len(b) = Buckets + 1
        BY <1>1, <2>1
  <2>3. \A i \in 1..(Buckets + 1) : b[i] = <<"hist", i>>
        BY DEF Slots
  <2> QED
        BY <2>2, <2>3
<1>6. /\ g \in Seq(Cells) /\ Len(g) = 3
      /\ g[1] = <<"global", "requests">> /\ g[2] = <<"global", "successes">>
      /\ g[3] = <<"global", "failures">>
  <2>1. g \in [1..3 -> Cells]
        BY CellsAre, FieldsAre DEF Fields
  <2> QED
        BY <2>1, FieldsAre
<1> DEFINE ab == a \o b
<1> HIDE DEF a, b, g, L, ab, o
<1>7a. ab = a \o b
      BY DEF ab
<1>7. /\ ab \in Seq(Cells) /\ Len(ab) = Len(a) + Len(b)
      /\ \A i \in 1..Len(a) : ab[i] = a[i]
      /\ \A i \in 1..Len(b) : ab[Len(a) + i] = b[i]
  <2>1. a \in Seq(Cells) /\ b \in Seq(Cells)
        BY <1>4, <1>5
  <2> QED
        BY <2>1, <1>7a, ConcatFacts
<1>8. o = ab \o g
      BY <1>2, <1>7a
<1>9. /\ o \in Seq(Cells) /\ Len(o) = Len(ab) + Len(g)
      /\ DOMAIN o = 1..(Len(ab) + Len(g))
      /\ \A i \in 1..Len(ab) : o[i] = ab[i]
      /\ \A i \in 1..Len(g) : o[Len(ab) + i] = g[i]
  <2>1. ab \in Seq(Cells) /\ g \in Seq(Cells)
        BY <1>6, <1>7
  <2> QED
        BY <2>1, <1>8, ConcatFacts
<1>10. ASSUME NEW i \in 1..Len(ab) PROVE o[i][1] # "global"
  <2>1. CASE i \in 1..Len(a)
        BY <1>4, <1>7, <1>9, <2>1
  <2>2. CASE i \notin 1..Len(a)
    <3>1. i - Len(a) \in 1..Len(b) /\ Len(a) + (i - Len(a)) = i
          BY <1>4, <1>5, <1>7, <2>2
    <3>2. ab[i] = b[i - Len(a)]
          BY <1>7, <3>1
    <3> QED
          BY <1>5, <1>9, <3>1, <3>2
  <2> QED
        BY <2>1, <2>2
<1>11. ASSUME NEW j \in DOMAIN o, j > Len(ab) PROVE o[j][1] = "global"
  <2>1. j - Len(ab) \in 1..3 /\ Len(ab) + (j - Len(ab)) = j
        BY <1>6, <1>7, <1>9, <1>11
  <2>2. o[j] = g[j - Len(ab)]
        BY <1>6, <1>9, <2>1
  <2>3. \A k \in 1..3 : g[k][1] = "global"
    <3>1. g[1][1] = "global" /\ g[2][1] = "global" /\ g[3][1] = "global"
          BY <1>6
    <3> QED
          BY <3>1
  <2> QED
        BY <2>1, <2>2, <2>3
<1>12. \A i, j \in DOMAIN o : i < j /\ o[i][1] = "global" => o[j][1] = "global"
      BY <1>6, <1>7, <1>9, <1>10, <1>11
<1>13. ASSUME NEW f \in Fields PROVE \E i \in DOMAIN o : o[i] = <<"global", f>>
  <2>1. \E k \in 1..Len(g) : g[k] = <<"global", f>>
        BY <1>6 DEF Fields
  <2>2. PICK k \in 1..Len(g) : g[k] = <<"global", f>>
        BY <2>1
  <2>3. Len(ab) + k \in DOMAIN o /\ o[Len(ab) + k] = <<"global", f>>
        BY <1>6, <1>7, <1>9, <2>2
  <2> QED
        BY <2>3
<1>14. ASSUME NEW k \in Slots PROVE \E i \in DOMAIN o : o[i] = <<"hist", k>>
  <2>1. k \in 1..Len(b) /\ b[k] = <<"hist", k>>
        BY <1>5 DEF Slots
  <2>2. Len(a) + k \in 1..Len(ab) /\ ab[Len(a) + k] = <<"hist", k>>
        BY <1>4, <1>5, <1>7, <2>1
  <2>3. Len(a) + k \in DOMAIN o /\ o[Len(a) + k] = <<"hist", k>>
        BY <1>6, <1>7, <1>9, <2>2
  <2> QED
        BY <2>3
<1>15. \A c \in ({"global"} \X Fields) \cup ({"hist"} \X Slots) : \E i \in DOMAIN o : o[i] = c
      BY <1>13, <1>14
<1> QED
      BY <1>9, <1>12, <1>15 DEF o

-----------------------------------------------------------------------------
(* What is left to add, step by step.                                      *)
LEMMA AddSteps ==
    ASSUME TypeOK, NEW w \in Workers, Add(w)
    PROVE LET c == work[w][1] IN
          /\ work[w] \in Seq(Cells) /\ 1 \in DOMAIN work[w] /\ c \in Cells
          /\ count \in [Cells -> Nat] /\ count' \in [Cells -> Nat]
          /\ count'[c] = count[c] + 1 /\ \A d \in Cells : d # c => count'[d] = count[d]
          /\ work' \in [Workers -> Seq(Cells)] /\ work'[w] = Tail(work[w])
          /\ \A v \in Workers : v # w => work'[v] = work[v]
          /\ result' = result
<1>1. work \in [Workers -> Seq(Cells)] /\ work[w] \in Seq(Cells) /\ work[w] # <<>>
      BY DEF TypeOK, Add
<1>2. Head(work[w]) = work[w][1] /\ 1 \in DOMAIN work[w] /\ work[w][1] \in Cells /\ Tail(work[w]) \in Seq(Cells)
      BY <1>1, TailFacts
<1> DEFINE c == work[w][1]
<1>3. count \in [Cells -> Nat] /\ count' = [count EXCEPT ![c] = @ + 1]
      BY <1>2 DEF TypeOK, Add
<1>4. work' = [work EXCEPT ![w] = Tail(work[w])] /\ result' = result
      BY DEF Add
<1>5. c \in Cells
      BY <1>2
<1> HIDE DEF c
<1>6. /\ count[c] \in Nat /\ count' \in [Cells -> Nat]
      /\ count'[c] = count[c] + 1 /\ \A d \in Cells : d # c => count'[d] = count[d]
      BY <1>3, <1>5
<1>7. work' \in [Workers -> Seq(Cells)] /\ work'[w] = Tail(work[w]) /\ \A v \in Workers : v # w => work'[v] = work[v]
      BY <1>1, <1>2, <1>4
<1> QED
      BY <1>1, <1>2, <1>3, <1>4, <1>5, <1>6, <1>7 DEF c

LEMMA InWorkAfterAdd ==
    ASSUME TypeOK, NEW w \in Workers, Add(w)
    PROVE /\ \A d : InWork(w, d)' => InWork(w, d)
          /\ \A d : InWork(w, d) => d = work[w][1] \/ InWork(w, d)'
          /\ \A v \in Workers : \A d : v # w => (InWork(v, d)' <=> InWork(v, d))
<1>1. work[w] \in Seq(Cells) /\ work[w] # <<>> /\ work'[w] = Tail(work[w])
      BY AddSteps DEF Add
<1>2. \A i \in DOMAIN Tail(work[w]) : i + 1 \in DOMAIN work[w] /\ Tail(work[w])[i] = work[w][i + 1]
      BY <1>1, TailFacts
<1>3. \A i \in DOMAIN work[w] : i # 1 => i - 1 \in DOMAIN Tail(work[w]) /\ Tail(work[w])[i - 1] = work[w][i]
      BY <1>1, TailFacts
<1>4. \A v \in Workers : v # w => work'[v] = work[v]
      BY AddSteps
<1>5. ASSUME NEW d, InWork(w, d)' PROVE InWork(w, d)
      BY <1>1, <1>2, <1>5 DEF InWork
<1>6. ASSUME NEW d, InWork(w, d), d # work[w][1] PROVE InWork(w, d)'
  <2>1. PICK i \in DOMAIN work[w] : work[w][i] = d
        BY <1>6 DEF InWork
  <2>2. i - 1 \in DOMAIN Tail(work[w]) /\ Tail(work[w])[i - 1] = d
        BY <1>3, <1>6, <2>1
  <2> QED
        BY <1>1, <2>2 DEF InWork
<1>7. ASSUME NEW v \in Workers, NEW d, v # w PROVE InWork(v, d)' <=> InWork(v, d)
      BY <1>4, <1>7 DEF InWork
<1> QED
      BY <1>5, <1>6, <1>7

(* A worker's debt grows only when it adds to the global counter of that   *)
(* field, and each add to a shard or to the histogram pays one off.        *)
LEMMA DebtAfterAdd ==
    ASSUME TypeOK, Shaped, NEW w \in Workers, Add(w)
    PROVE LET c == work[w][1] IN
          /\ \A f \in Fields : Owes(w, f)' => Owes(w, f) \/ c = <<"global", f>>
          /\ \A f \in Fields : c \in Targets \X {f} => Owes(w, f) /\ ~Owes(w, f)'
          /\ OwesSample(w)' => OwesSample(w) \/ c = <<"global", "requests">>
          /\ c \in {"hist"} \X Slots => OwesSample(w) /\ ~OwesSample(w)'
          /\ \A v \in Workers : v # w =>
                (\A f \in Fields : Owes(v, f)' <=> Owes(v, f)) /\ (OwesSample(v)' <=> OwesSample(v))
<1> DEFINE c == work[w][1]
<1>1. /\ work[w] \in Seq(Cells) /\ 1 \in DOMAIN work[w] /\ c \in Cells
      /\ work'[w] = Tail(work[w]) /\ work[w] # <<>>
      /\ \A v \in Workers : v # w => work'[v] = work[v]
      /\ result' = result
      BY AddSteps DEF Add
<1>2. /\ \A d : InWork(w, d)' => InWork(w, d)
      /\ \A d : InWork(w, d) => d = c \/ InWork(w, d)'
      /\ \A v \in Workers : \A d : v # w => (InWork(v, d)' <=> InWork(v, d))
      BY InWorkAfterAdd
<1>3. InWork(w, c)
      BY <1>1 DEF InWork
<1>4. \A f \in Fields : Owes(w, f)' => Owes(w, f) \/ c = <<"global", f>>
      BY <1>1, <1>2 DEF Owes
<1>5. OwesSample(w)' => OwesSample(w) \/ c = <<"global", "requests">>
      BY <1>2 DEF OwesSample
<1>6. ASSUME NEW f \in Fields, c \in Targets \X {f} PROVE Owes(w, f) /\ ~Owes(w, f)'
  <2>1. result[w] = <<>>
    <3> SUFFICES ASSUME result[w] # <<>> PROVE FALSE
          OBVIOUS
    <3>1. \/ c = <<"global", "requests">>
          \/ c = <<"global", result[w][2]>>
          \/ c \in {"hist"} \X Slots
          BY <1>1 DEF Shaped
    <3> QED
          BY <1>6, <3>1, CellsAre
  <2>2. \A i, j \in DOMAIN work[w] : work[w][i][2] = work[w][j][2] => i = j
        BY <2>1 DEF Shaped
  <2>3. Owes(w, f)
        BY <1>3, <1>6, <2>1 DEF Owes
  <2>4. ASSUME NEW t \in Targets, InWork(w, <<t, f>>)' PROVE FALSE
    <3>1. PICK i \in DOMAIN Tail(work[w]) : Tail(work[w])[i] = <<t, f>>
          BY <1>1, <2>4 DEF InWork
    <3>2. i + 1 \in DOMAIN work[w] /\ work[w][i + 1] = <<t, f>> /\ i \in Nat \ {0}
          BY <1>1, <3>1, TailFacts
    <3>3. work[w][i + 1][2] = work[w][1][2]
          BY <1>6, <3>2
    <3>4. i + 1 = 1
          BY <1>1, <2>2, <3>2, <3>3
    <3> QED
          BY <3>2, <3>4
  <2> QED
        BY <1>1, <2>1, <2>3, <2>4 DEF Owes
<1>7. ASSUME c \in {"hist"} \X Slots PROVE OwesSample(w) /\ ~OwesSample(w)'
  <2>1. result[w] # <<>>
    <3> SUFFICES ASSUME result[w] = <<>> PROVE FALSE
          OBVIOUS
    <3>1. c \in Targets \X Fields
          BY <1>1 DEF Shaped
    <3> QED
          BY <1>7, <3>1, CellsAre
  <2>2. 1 = Len(work[w])
    <3>1. \/ c = <<"global", "requests">>
          \/ c = <<"global", result[w][2]>>
          \/ 1 = Len(work[w])
          BY <1>1, <2>1 DEF Shaped
    <3> QED
          BY <1>7, <3>1
  <2>3. \A d : ~InWork(w, d)'
    <3> SUFFICES ASSUME NEW d, InWork(w, d)' PROVE FALSE
          OBVIOUS
    <3>1. PICK i \in DOMAIN Tail(work[w]) : Tail(work[w])[i] = d
          BY <1>1 DEF InWork
    <3>2. i + 1 \in DOMAIN work[w] /\ i \in Nat \ {0}
          BY <1>1, <3>1, TailFacts
    <3> QED
          BY <1>1, <2>2, <3>2
  <2>4. ~InWork(w, <<"global", "requests">>)
        BY <1>2, <1>7, <2>3
  <2>5. \E b \in Slots : c = <<"hist", b>>
        BY <1>7
  <2> QED
        BY <1>3, <2>3, <2>4, <2>5 DEF OwesSample
<1>8. ASSUME NEW v \in Workers, v # w
      PROVE (\A f \in Fields : Owes(v, f)' <=> Owes(v, f)) /\ (OwesSample(v)' <=> OwesSample(v))
  <2>1. \A d : InWork(v, d)' <=> InWork(v, d)
        BY <1>2, <1>8
  <2> QED
        BY <1>1, <2>1 DEF Owes, OwesSample
<1> QED
      BY <1>4, <1>5, <1>6, <1>7, <1>8

(* Sizes of a set that gains or loses one element.                         *)
LEMMA Cards ==
    ASSUME NEW A, IsFiniteSet(A), NEW B, NEW w
    PROVE /\ Cardinality(A) \in Nat
          /\ B \subseteq A => Cardinality(B) \in Nat /\ Cardinality(B) <= Cardinality(A)
          /\ B \subseteq A \cup {w} => Cardinality(B) \in Nat /\ Cardinality(B) <= Cardinality(A) + 1
          /\ B \subseteq A /\ w \in A /\ w \notin B => Cardinality(B) + 1 <= Cardinality(A)
<1>1. Cardinality(A) \in Nat
      BY FS_CardinalityType
<1>2. ASSUME B \subseteq A PROVE IsFiniteSet(B) /\ Cardinality(B) \in Nat /\ Cardinality(B) <= Cardinality(A)
      BY <1>2, FS_Subset, FS_CardinalityType
<1>3. ASSUME B \subseteq A \cup {w}
      PROVE Cardinality(B) \in Nat /\ Cardinality(B) <= Cardinality(A) + 1
  <2> DEFINE A1 == A \cup {w}
  <2>1. IsFiniteSet(A1) /\ Cardinality(A1) \in Nat /\ Cardinality(A1) <= Cardinality(A) + 1
    <3>1. CASE w \in A
      <4>1. A1 = A
            BY <3>1
      <4> HIDE DEF A1
      <4> QED
            BY <1>1, <4>1
    <3>2. CASE w \notin A
          BY <1>1, <3>2, FS_AddElement
    <3> QED
          BY <3>1, <3>2
  <2>2. B \subseteq A1
        BY <1>3
  <2> HIDE DEF A1
  <2>3. IsFiniteSet(B) /\ Cardinality(B) <= Cardinality(A1)
        BY <2>1, <2>2, FS_Subset
  <2>4. Cardinality(B) \in Nat
        BY <2>3, FS_CardinalityType
  <2> QED
        BY <1>1, <2>1, <2>3, <2>4
<1>4. ASSUME B \subseteq A, w \in A, w \notin B PROVE Cardinality(B) + 1 <= Cardinality(A)
  <2> DEFINE B1 == B \cup {w}
  <2>1. Cardinality(B1) = Cardinality(B) + 1
        BY <1>2, <1>4, FS_AddElement
  <2>2. B1 \subseteq A
        BY <1>4
  <2> HIDE DEF B1
  <2>3. Cardinality(B1) <= Cardinality(A)
        BY <2>2, FS_Subset
  <2> QED
        BY <2>1, <2>3
<1> QED
      BY <1>1, <1>2, <1>3, <1>4

(* Where the sums and the debts stand: finite, over cells that exist.      *)
LEMMA SumsAreFinite ==
    ASSUME TypeOK, IsFiniteSet(Units(count, Cells)), NEW f \in Fields
    PROVE /\ Targets \X {f} \in SUBSET Cells /\ IsFiniteSet(Units(count, Targets \X {f}))
          /\ {"hist"} \X Slots \in SUBSET Cells /\ IsFiniteSet(Units(count, {"hist"} \X Slots))
          /\ IsFiniteSet(Owing(f)) /\ IsFiniteSet(OwingSample)
          /\ <<"global", f>> \in Cells /\ <<"global", "requests">> \in Cells
<1>1. /\ Targets \X {f} \in SUBSET Cells /\ {"hist"} \X Slots \in SUBSET Cells
      /\ <<"global", f>> \in Cells /\ <<"global", "requests">> \in Cells
      BY CellsAre DEF Fields
<1>2. \A c \in Cells : count[c] \in Nat
      BY DEF TypeOK
<1>3. ASSUME NEW C \in SUBSET Cells PROVE IsFiniteSet(Units(count, C))
  <2>1. \A c \in C : c \in Cells /\ count[c] \in Nat /\ count[c] \in Nat /\ count[c] <= count[c]
        BY <1>2
  <2> QED
        BY <2>1, TotalGrows
<1>4. IsFiniteSet(Owing(f)) /\ IsFiniteSet(OwingSample)
  <2>1. IsFiniteSet(Workers) /\ Owing(f) \subseteq Workers /\ OwingSample \subseteq Workers
        BY StatsAssumption DEF Owing, OwingSample
  <2> QED
        BY <2>1, FS_Subset
<1> QED
      BY <1>1, <1>3, <1>4

(* The arithmetic of one add, to the cell c, by worker w: the sum over T   *)
(* with the debts A stays under the counter g.                             *)
LEMMA OneAdd ==
    ASSUME NEW h \in [Cells -> Nat], NEW k \in [Cells -> Nat], NEW c \in Cells,
           k[c] = h[c] + 1, \A d \in Cells : d # c => k[d] = h[d],
           NEW T \in SUBSET Cells, IsFiniteSet(Units(h, T)), NEW g \in Cells, g \notin T,
           NEW A, IsFiniteSet(A), NEW B, NEW w, B \subseteq A \cup {w},
           c # g => B \subseteq A,
           c \in T => w \in A /\ w \notin B,
           Total(h, T) + Cardinality(A) <= h[g]
    PROVE Total(k, T) + Cardinality(B) <= k[g]
<1>1. Total(h, T) \in Nat /\ (c \in T => Total(k, T) = Total(h, T) + 1) /\ (c \notin T => Total(k, T) = Total(h, T))
      BY OneMore
<1>2. /\ Cardinality(A) \in Nat
      /\ B \subseteq A => Cardinality(B) \in Nat /\ Cardinality(B) <= Cardinality(A)
      /\ B \subseteq A \cup {w} => Cardinality(B) \in Nat /\ Cardinality(B) <= Cardinality(A) + 1
      /\ B \subseteq A /\ w \in A /\ w \notin B => Cardinality(B) + 1 <= Cardinality(A)
      BY Cards
<1>3. h[g] \in Nat /\ (c # g => k[g] = h[g]) /\ (c = g => k[g] = h[g] + 1)
      OBVIOUS
<1>4. CASE c = g
      BY <1>1, <1>2, <1>3, <1>4
<1>5. CASE c \in T
      BY <1>1, <1>2, <1>3, <1>5
<1>6. CASE c # g /\ c \notin T
      BY <1>1, <1>2, <1>3, <1>6
<1> QED
      BY <1>4, <1>5, <1>6

(* An add, to any cell, keeps the lag.                                     *)
LEMMA AddKeepsLagging ==
    ASSUME TypeOK, Shaped, Lagging, NEW w \in Workers, Add(w)
    PROVE Lagging'
<1> DEFINE c == work[w][1]
<1>1. /\ c \in Cells /\ count \in [Cells -> Nat] /\ count' \in [Cells -> Nat]
      /\ count'[c] = count[c] + 1 /\ \A d \in Cells : d # c => count'[d] = count[d]
      BY AddSteps
<1>2. /\ \A f \in Fields : Owes(w, f)' => Owes(w, f) \/ c = <<"global", f>>
      /\ \A f \in Fields : c \in Targets \X {f} => Owes(w, f) /\ ~Owes(w, f)'
      /\ OwesSample(w)' => OwesSample(w) \/ c = <<"global", "requests">>
      /\ c \in {"hist"} \X Slots => OwesSample(w) /\ ~OwesSample(w)'
      BY DebtAfterAdd
<1>3. \A v \in Workers : v # w =>
          (\A f \in Fields : Owes(v, f)' <=> Owes(v, f)) /\ (OwesSample(v)' <=> OwesSample(v))
      BY DebtAfterAdd
<1> HIDE DEF c
<1>4. IsFiniteSet(Units(count, Cells))
      BY DEF Lagging
<1>5. IsFiniteSet(Units(count', Cells))
      BY <1>1, <1>4, OneMore
<1>6. ASSUME NEW f \in Fields
      PROVE Total(count', Targets \X {f}) + Cardinality(Owing(f)') <= count'[<<"global", f>>]
  <2> DEFINE T == Targets \X {f}
             A == Owing(f)
             B == Owing(f)'
             g == <<"global", f>>
  <2>1. T \in SUBSET Cells /\ IsFiniteSet(Units(count, T)) /\ IsFiniteSet(A) /\ g \in Cells
        BY <1>4, SumsAreFinite
  <2>2. Total(count, T) + Cardinality(A) <= count[g]
        BY DEF Lagging
  <2>3. g \notin T
        BY CellsAre
  <2>4. /\ c # g => B \subseteq A
        /\ B \subseteq A \cup {w}
        /\ c \in T => w \in A /\ w \notin B
        BY <1>2, <1>3 DEF Owing
  <2> HIDE DEF T, A, B, g
  <2>5. Total(count', T) + Cardinality(B) <= count'[g]
        BY <1>1, <2>1, <2>2, <2>3, <2>4, OneAdd
  <2> QED
        BY <2>5 DEF T, A, B, g
<1>7. Total(count', {"hist"} \X Slots) + Cardinality(OwingSample') <= count'[<<"global", "requests">>]
  <2> DEFINE T == {"hist"} \X Slots
             A == OwingSample
             B == OwingSample'
             g == <<"global", "requests">>
  <2>1. T \in SUBSET Cells /\ IsFiniteSet(Units(count, T)) /\ IsFiniteSet(A) /\ g \in Cells
        BY <1>4, SumsAreFinite DEF Fields
  <2>2. Total(count, T) + Cardinality(A) <= count[g]
        BY DEF Lagging
  <2>3. g \notin T
        OBVIOUS
  <2>4. /\ c # g => B \subseteq A
        /\ B \subseteq A \cup {w}
        /\ c \in T => w \in A /\ w \notin B
        BY <1>2, <1>3 DEF OwingSample
  <2> HIDE DEF T, A, B, g
  <2>5. Total(count', T) + Cardinality(B) <= count'[g]
        BY <1>1, <2>1, <2>2, <2>3, <2>4, OneAdd
  <2> QED
        BY <2>5 DEF T, A, B, g
<1> QED
      BY <1>5, <1>6, <1>7 DEF Lagging, Total, Units

(* The steps that add nothing, and leave no worker owing more.             *)
LEMMA NoAddKeepsLagging ==
    ASSUME TypeOK, Lagging, count' = count,
           \A v \in Workers : (\A f \in Fields : Owes(v, f)' => Owes(v, f)) /\ (OwesSample(v)' => OwesSample(v))
    PROVE Lagging'
<1>1. ASSUME NEW f \in Fields
      PROVE Total(count, Targets \X {f}) + Cardinality(Owing(f)') <= count[<<"global", f>>]
  <2> DEFINE A == Owing(f)
             B == Owing(f)'
             n == Total(count, Targets \X {f})
             k == count[<<"global", f>>]
  <2>1. IsFiniteSet(A) /\ B \subseteq A
        BY SumsAreFinite DEF Lagging, Owing
  <2>2. n \in Nat /\ k \in Nat
        BY SumsAreFinite, FS_CardinalityType DEF Lagging, Total, TypeOK
  <2>3. n + Cardinality(A) <= k
        BY DEF Lagging
  <2> HIDE DEF A, B, n, k
  <2>4. Cardinality(A) \in Nat /\ Cardinality(B) \in Nat /\ Cardinality(B) <= Cardinality(A)
        BY <2>1, Cards
  <2>5. n + Cardinality(B) <= k
        BY <2>2, <2>3, <2>4
  <2> QED
        BY <2>5 DEF B, n, k
<1>2. Total(count, {"hist"} \X Slots) + Cardinality(OwingSample') <= count[<<"global", "requests">>]
  <2> DEFINE A == OwingSample
             B == OwingSample'
             n == Total(count, {"hist"} \X Slots)
             k == count[<<"global", "requests">>]
  <2>1. IsFiniteSet(A) /\ B \subseteq A
        BY SumsAreFinite DEF Lagging, OwingSample, Fields
  <2>2. n \in Nat /\ k \in Nat
        BY SumsAreFinite, FS_CardinalityType DEF Lagging, Total, TypeOK, Fields
  <2>3. n + Cardinality(A) <= k
        BY DEF Lagging
  <2> HIDE DEF A, B, n, k
  <2>4. Cardinality(A) \in Nat /\ Cardinality(B) \in Nat /\ Cardinality(B) <= Cardinality(A)
        BY <2>1, Cards
  <2>5. n + Cardinality(B) <= k
        BY <2>2, <2>3, <2>4
  <2> QED
        BY <2>5 DEF B, n, k
<1> QED
      BY <1>1, <1>2 DEF Lagging, Total, Units

(* The steps that leave the counters and the debts alone.                  *)
LEMMA SameWork ==
    ASSUME NEW v \in Workers, work'[v] = work[v], result'[v] = result[v]
    PROVE /\ \A f \in Fields : Owes(v, f)' <=> Owes(v, f)
          /\ OwesSample(v)' <=> OwesSample(v)
<1>1. \A d : InWork(v, d)' <=> InWork(v, d)
      BY DEF InWork
<1> QED
      BY <1>1 DEF Owes, OwesSample

(* The pair a worker keeps while it records.                               *)
LEMMA ResultFacts ==
    ASSUME NEW t \in Targets, NEW o \in Outcomes
    PROVE <<t, o>> # <<>> /\ <<t, o>> \in Results /\ (o # "none" => o \in Fields \ {"requests"})
BY DEF Outcomes, Results, Fields

(* Record starts with the global counters and owes nothing yet.            *)
LEMMA RecordSteps ==
    ASSUME TypeOK, Shaped, Lagging, NEW w \in Workers, NEW t \in Targets, NEW o \in Outcomes, NEW b \in Slots,
           Record(w, t, o, b)
    PROVE /\ work' \in [Workers -> Seq(Cells)] /\ result' \in [Workers -> Results]
          /\ Shaped' /\ Lagging'
<1> DEFINE r == RecordCells("global", o, b)
<1>1. /\ r \in Seq(Cells)
      /\ 1 \in DOMAIN r /\ r[1] = <<"global", "requests">>
      /\ o # "none" => 2 \in DOMAIN r /\ r[2] = <<"global", o>>
      /\ \A i \in DOMAIN r : \/ i = 1
                             \/ i = 2 /\ o # "none" /\ r[i] = <<"global", o>>
                             \/ i = Len(r) /\ r[i] = <<"hist", b>>
  <2> DEFINE scope == "global"
  <2>1. scope = "global"
        OBVIOUS
  <2>2. scope = "global" \/ scope \in Targets
        BY <2>1
  <2> HIDE DEF scope
  <2> DEFINE q == RecordCells(scope, o, b)
  <2>3. /\ q \in Seq(Cells)
        /\ 1 \in DOMAIN q /\ q[1] = <<scope, "requests">>
        BY <2>2, RecordFacts
  <2>4. o # "none" => 2 \in DOMAIN q /\ q[2] = <<scope, o>>
        BY <2>2, RecordFacts
  <2>5. scope = "global" => q[Len(q)] = <<"hist", b>>
        BY <2>2, RecordFacts
  <2>6. ASSUME NEW i \in DOMAIN q
        PROVE i = 1 \/ (i = 2 /\ o # "none") \/ i = Len(q)
    <3>1. Len(q) <= 3 /\ (o = "none" => Len(q) <= 2)
          BY <2>2, RecordFacts
    <3>2. i \in 1..Len(q) /\ Len(q) \in Nat
          BY <2>3
    <3> HIDE DEF q
    <3> QED
          BY <3>1, <3>2
  <2>7. r = q
        BY <2>1
  <2> HIDE DEF r, q
  <2> QED
        BY <2>1, <2>3, <2>4, <2>5, <2>6, <2>7
<1>2. <<t, o>> # <<>> /\ <<t, o>> \in Results /\ (o # "none" => o \in Fields \ {"requests"})
      BY ResultFacts
<1>3. work' = [work EXCEPT ![w] = r] /\ result' = [result EXCEPT ![w] = <<t, o>>] /\ count' = count
      BY DEF Record
<1> DEFINE p == <<t, o>>
<1>4. p[2] = o /\ p # <<>> /\ p \in Results
      BY <1>2
<1> HIDE DEF r, p
<1>5. work' \in [Workers -> Seq(Cells)] /\ work'[w] = r /\ \A v \in Workers : v # w => work'[v] = work[v]
      BY <1>1, <1>3 DEF TypeOK
<1>6. result' \in [Workers -> Results] /\ result'[w] = p /\ \A v \in Workers : v # w => result'[v] = result[v]
      BY <1>3, <1>4 DEF TypeOK, p
<1>7. Shaped'
  <2> SUFFICES ASSUME NEW v \in Workers
               PROVE /\ result'[v] # <<>> => \A i \in DOMAIN work'[v] :
                          /\ \/ work'[v][i] = <<"global", "requests">> /\ i = 1
                             \/ work'[v][i] = <<"global", result'[v][2]>> /\ result'[v][2] \in Fields \ {"requests"}
                             \/ work'[v][i] \in {"hist"} \X Slots /\ i = Len(work'[v])
                     /\ result'[v] = <<>> =>
                          /\ \A i \in DOMAIN work'[v] : work'[v][i] \in Targets \X Fields
                          /\ \A i, j \in DOMAIN work'[v] : work'[v][i][2] = work'[v][j][2] => i = j
        BY DEF Shaped
  <2>1. CASE v # w
        BY <1>5, <1>6, <2>1 DEF Shaped
  <2>2. CASE v = w
    <3>1. ASSUME NEW i \in DOMAIN r
          PROVE \/ r[i] = <<"global", "requests">> /\ i = 1
                \/ r[i] = <<"global", o>> /\ o \in Fields \ {"requests"}
                \/ r[i] \in {"hist"} \X Slots /\ i = Len(r)
          BY <1>1, <1>2
    <3> QED
          BY <1>4, <1>5, <1>6, <2>2, <3>1
  <2> QED
        BY <2>1, <2>2
<1>8. Lagging'
  <2>1. ASSUME NEW f \in Fields PROVE ~Owes(w, f)'
    <3>1. InWork(w, <<"global", "requests">>)' /\ (o # "none" => InWork(w, <<"global", o>>)')
          BY <1>1, <1>5 DEF InWork
    <3>2. o = f => o # "none"
          BY DEF Fields
    <3> QED
          BY <1>4, <1>6, <3>1, <3>2 DEF Owes
  <2>2. ~OwesSample(w)'
    <3>1. InWork(w, <<"global", "requests">>)'
          BY <1>1, <1>5 DEF InWork
    <3> QED
          BY <3>1 DEF OwesSample
  <2>3. ASSUME NEW v \in Workers
        PROVE (\A f \in Fields : Owes(v, f)' => Owes(v, f)) /\ (OwesSample(v)' => OwesSample(v))
    <3>1. CASE v = w
          BY <2>1, <2>2, <3>1
    <3>2. CASE v # w
          BY <1>5, <1>6, <3>2, SameWork
    <3> QED
          BY <3>1, <3>2
  <2> QED
        BY <1>3, <2>3, NoAddKeepsLagging
<1> QED
      BY <1>5, <1>6, <1>7, <1>8

(* The shard's cells are exactly what was owed.                            *)
LEMMA LookupSteps ==
    ASSUME TypeOK, Shaped, Lagging, NEW w \in Workers, Lookup(w)
    PROVE /\ work' \in [Workers -> Seq(Cells)] /\ result' \in [Workers -> Results]
          /\ Shaped' /\ Lagging'
<1> DEFINE t == result[w][1]
           o == result[w][2]
           r == IF t \in Range(targetIDs) THEN RecordCells(t, o, 1) ELSE <<>>
<1>1. t \in Targets /\ o \in Outcomes /\ result[w] # <<>> /\ work[w] = <<>>
      BY DEF TypeOK, Lookup, Results
<1>2. /\ r \in Seq(Cells)
      /\ \A i \in DOMAIN r : \/ r[i] = <<t, "requests">> /\ i = 1
                             \/ r[i] = <<t, o>> /\ i = 2 /\ o # "none"
  <2>1. CASE t \in Range(targetIDs)
    <3> DEFINE q == RecordCells(t, o, 1)
    <3>1. t # "global" /\ 1 \in Slots
          BY <1>1, CellsAre
    <3>2. /\ q \in Seq(Cells)
          /\ 1 \in DOMAIN q /\ q[1] = <<t, "requests">>
          /\ \A i \in DOMAIN q : \/ i = 1
                                 \/ i = 2 /\ o # "none" /\ q[i] = <<t, o>>
                                 \/ i = Len(q) /\ t = "global" /\ q[i] = <<"hist", 1>>
          BY <1>1, <3>1, RecordFacts
    <3>3. r = q
          BY <2>1
    <3> HIDE DEF q, r
    <3> QED
          BY <3>1, <3>2, <3>3
  <2>2. CASE t \notin Range(targetIDs)
    <3>1. r = <<>>
          BY <2>2
    <3> HIDE DEF r
    <3> QED
          BY <3>1
  <2> QED
        BY <2>1, <2>2
<1>3. work' = [work EXCEPT ![w] = r] /\ result' = [result EXCEPT ![w] = <<>>] /\ count' = count
      BY DEF Lookup
<1>4. o # "none" => o \in Fields \ {"requests"}
      BY <1>1, ResultFacts
<1> HIDE DEF r, t, o
<1>5. work' \in [Workers -> Seq(Cells)] /\ work'[w] = r /\ \A v \in Workers : v # w => work'[v] = work[v]
      BY <1>2, <1>3 DEF TypeOK
<1>6. result' \in [Workers -> Results] /\ result'[w] = <<>> /\ \A v \in Workers : v # w => result'[v] = result[v]
      BY <1>3 DEF TypeOK, Results
<1>7. Shaped'
  <2> SUFFICES ASSUME NEW v \in Workers
               PROVE /\ result'[v] # <<>> => \A i \in DOMAIN work'[v] :
                          /\ \/ work'[v][i] = <<"global", "requests">> /\ i = 1
                             \/ work'[v][i] = <<"global", result'[v][2]>> /\ result'[v][2] \in Fields \ {"requests"}
                             \/ work'[v][i] \in {"hist"} \X Slots /\ i = Len(work'[v])
                     /\ result'[v] = <<>> =>
                          /\ \A i \in DOMAIN work'[v] : work'[v][i] \in Targets \X Fields
                          /\ \A i, j \in DOMAIN work'[v] : work'[v][i][2] = work'[v][j][2] => i = j
        BY DEF Shaped
  <2>1. CASE v # w
    <3>1. work'[v] = work[v] /\ result'[v] = result[v]
          BY <1>5, <1>6, <2>1
    <3> QED
          BY <3>1 DEF Shaped
  <2>2. CASE v = w
    <3>1. \A i \in DOMAIN r : r[i] \in Targets \X Fields
          BY <1>1, <1>2, <1>4 DEF Fields
    <3>2. \A i, j \in DOMAIN r : r[i][2] = r[j][2] => i = j
          BY <1>2, <1>4
    <3> QED
          BY <1>5, <1>6, <2>2, <3>1, <3>2
  <2> QED
        BY <2>1, <2>2
<1>8. Lagging'
  <2>1. ASSUME NEW f \in Fields, Owes(w, f)' PROVE Owes(w, f)
    <3>1. \E u \in Targets : InWork(w, <<u, f>>)'
          BY <1>6, <2>1 DEF Owes
    <3>2. PICK i \in DOMAIN r : \E u \in Targets : r[i] = <<u, f>>
          BY <1>5, <3>1 DEF InWork
    <3>3. f = "requests" \/ f = o
          BY <1>2, <3>2
    <3>4. ~InWork(w, <<"global", f>>)
          BY <1>1 DEF InWork
    <3> QED
          BY <1>1, <3>3, <3>4 DEF Owes, o
  <2>2. ~OwesSample(w)'
    <3>1. ASSUME NEW k \in Slots PROVE ~InWork(w, <<"hist", k>>)'
          BY <1>1, <1>2, <1>5, CellsAre DEF InWork
    <3> QED
          BY <3>1 DEF OwesSample
  <2>3. ASSUME NEW v \in Workers
        PROVE (\A f \in Fields : Owes(v, f)' => Owes(v, f)) /\ (OwesSample(v)' => OwesSample(v))
    <3>1. CASE v = w
          BY <2>1, <2>2, <3>1
    <3>2. CASE v # w
          BY <1>5, <1>6, <3>2, SameWork
    <3> QED
          BY <3>1, <3>2
  <2> QED
        BY <1>3, <2>3, NoAddKeepsLagging
<1> QED
      BY <1>5, <1>6, <1>7, <1>8

(* The tail of what was left keeps its shape.                              *)
LEMMA AddKeepsShaped ==
    ASSUME TypeOK, Shaped, NEW w \in Workers, Add(w)
    PROVE Shaped'
<1> SUFFICES ASSUME NEW v \in Workers
             PROVE /\ result'[v] # <<>> => \A i \in DOMAIN work'[v] :
                        /\ \/ work'[v][i] = <<"global", "requests">> /\ i = 1
                           \/ work'[v][i] = <<"global", result'[v][2]>> /\ result'[v][2] \in Fields \ {"requests"}
                           \/ work'[v][i] \in {"hist"} \X Slots /\ i = Len(work'[v])
                   /\ result'[v] = <<>> =>
                        /\ \A i \in DOMAIN work'[v] : work'[v][i] \in Targets \X Fields
                        /\ \A i, j \in DOMAIN work'[v] : work'[v][i][2] = work'[v][j][2] => i = j
      BY DEF Shaped
<1>1. /\ work[w] \in Seq(Cells) /\ work[w] # <<>> /\ work'[w] = Tail(work[w])
      /\ result' = result /\ \A u \in Workers : u # w => work'[u] = work[u]
      BY AddSteps DEF Add
<1>2. CASE v # w
      BY <1>1, <1>2 DEF Shaped
<1>3. CASE v = w
  <2> DEFINE q == work[w]
             r == Tail(work[w])
  <2>1. /\ Len(r) = Len(q) - 1 /\ r \in Seq(Cells) /\ q \in Seq(Cells)
        /\ \A i \in DOMAIN r : i + 1 \in DOMAIN q /\ r[i] = q[i + 1]
        BY <1>1, TailFacts
  <2> HIDE DEF r
  <2>2. \A i \in DOMAIN r : i \in Nat \ {0} /\ i + 1 # 1
        BY <2>1
  <2>3. ASSUME result[w] # <<>>, NEW i \in DOMAIN r
        PROVE \/ r[i] = <<"global", "requests">> /\ i = 1
              \/ r[i] = <<"global", result[w][2]>> /\ result[w][2] \in Fields \ {"requests"}
              \/ r[i] \in {"hist"} \X Slots /\ i = Len(r)
    <3>1. \/ q[i + 1] = <<"global", "requests">> /\ i + 1 = 1
          \/ q[i + 1] = <<"global", result[w][2]>> /\ result[w][2] \in Fields \ {"requests"}
          \/ q[i + 1] \in {"hist"} \X Slots /\ i + 1 = Len(q)
          BY <2>1, <2>3 DEF Shaped
    <3>2. i + 1 = Len(q) => i = Len(r)
          BY <2>1, <2>2
    <3> QED
          BY <2>1, <2>2, <3>1, <3>2
  <2>4. ASSUME result[w] = <<>>
        PROVE /\ \A i \in DOMAIN r : r[i] \in Targets \X Fields
              /\ \A i, j \in DOMAIN r : r[i][2] = r[j][2] => i = j
    <3>1. /\ \A i \in DOMAIN q : q[i] \in Targets \X Fields
          /\ \A i, j \in DOMAIN q : q[i][2] = q[j][2] => i = j
          BY <2>4 DEF Shaped
    <3> HIDE DEF q
    <3>2. \A i \in DOMAIN r : r[i] \in Targets \X Fields
          BY <2>1, <3>1
    <3>3. ASSUME NEW i \in DOMAIN r, NEW j \in DOMAIN r, r[i][2] = r[j][2] PROVE i = j
      <4>1. i + 1 = j + 1
            BY <2>1, <3>1, <3>3
      <4> QED
            BY <2>2, <4>1
    <3> QED
          BY <3>2, <3>3
  <2>5. work'[v] = r /\ result'[v] = result[w]
        BY <1>1, <1>3 DEF r
  <2> QED
        BY <2>3, <2>4, <2>5
<1> QED
      BY <1>2, <1>3

-----------------------------------------------------------------------------
(* What a snapshot has loaded.                                             *)
LEMMA SnapFacts ==
    ASSUME TypeOK
    PROVE DOMAIN snap \in SUBSET Cells /\ \A c \in DOMAIN snap : snap[c] \in Nat
BY DEF TypeOK

(* One load.                                                               *)
LEMMA LoadSteps ==
    ASSUME TypeOK, Load
    PROVE LET c == todo[1] IN
          /\ todo \in Seq(Cells) /\ todo # <<>> /\ 1 \in DOMAIN todo /\ c \in Cells
          /\ todo' = Tail(todo) /\ todo' \in Seq(Cells)
          /\ DOMAIN snap' = DOMAIN snap \cup {c}
          /\ snap'[c] = count[c] /\ \A d \in DOMAIN snap : d # c => snap'[d] = snap[d]
          /\ \E D \in SUBSET Cells : snap' \in [D -> Nat]
          /\ count' = count /\ pc = "load" /\ pc' = "load"
<1> DEFINE c == todo[1]
<1>1. todo \in Seq(Cells) /\ todo # <<>> /\ todo' = Tail(todo) /\ count' = count /\ pc = "load" /\ pc' = "load"
      BY DEF TypeOK, Load, collector
<1>2. Head(todo) = c /\ 1 \in DOMAIN todo /\ c \in Cells /\ Tail(todo) \in Seq(Cells)
      BY <1>1, TailFacts
<1>3. snap' = [d \in DOMAIN snap \cup {c} |-> IF d = c THEN count[d] ELSE snap[d]]
      BY <1>2 DEF Load
<1> HIDE DEF c
<1>4. /\ DOMAIN snap' = DOMAIN snap \cup {c} /\ snap'[c] = count[c]
      /\ \A d \in DOMAIN snap : d # c => snap'[d] = snap[d]
      BY <1>3
<1>5. count[c] \in Nat
      BY <1>2 DEF TypeOK
<1>6. snap' \in [DOMAIN snap \cup {c} -> Nat] /\ DOMAIN snap \cup {c} \in SUBSET Cells
      BY <1>2, <1>3, <1>5, SnapFacts
<1> QED
      BY <1>1, <1>2, <1>4, <1>6 DEF c

(* Cells loaded by now sum to no more than the counters do.                *)
LEMMA LoadedWithin ==
    ASSUME TypeOK, IsFiniteSet(Units(count, Cells)), NEW h, NEW C, NEW D \in SUBSET Cells,
           \A c \in C : c \in D /\ h[c] \in Nat /\ h[c] <= count[c]
    PROVE /\ IsFiniteSet(Units(h, C)) /\ Total(h, C) \in Nat /\ Total(count, D) \in Nat
          /\ Total(h, C) <= Total(count, D)
<1>1. \A c \in Cells : count[c] \in Nat
      BY DEF TypeOK
<1>2. IsFiniteSet(Units(count, D))
  <2>1. \A c \in D : c \in Cells /\ count[c] \in Nat /\ count[c] \in Nat /\ count[c] <= count[c]
        BY <1>1
  <2> QED
        BY <2>1, TotalGrows
<1>3. \A c \in C : c \in D /\ h[c] \in Nat /\ count[c] \in Nat /\ h[c] <= count[c]
      BY <1>1
<1> QED
      BY <1>2, <1>3, TotalGrows

(* Equal counters have equal sums.                                         *)
LEMMA SameTotal ==
    ASSUME NEW h, NEW g, NEW C, \A c \in C : h[c] = g[c]
    PROVE Total(h, C) = Total(g, C)
<1>1. \A u : u \in Units(h, C) <=> \E c \in C : u \in {c} \X (1..h[c])
      BY DEF Units
<1>2. \A u : u \in Units(g, C) <=> \E c \in C : u \in {c} \X (1..g[c])
      BY DEF Units
<1>3. ASSUME NEW u PROVE u \in Units(h, C) <=> u \in Units(g, C)
      BY <1>1, <1>2
<1>4. Units(h, C) = Units(g, C)
      BY <1>3
<1> QED
      BY <1>4 DEF Total

(* A global counter, when it is loaded, covers what was loaded before it.  *)
LEMMA LoadKeepsLoading ==
    ASSUME TypeOK, Lagging, Loading, Load
    PROVE Loading'
<1> DEFINE c == todo[1]
           S == DOMAIN snap
<1>1. /\ todo \in Seq(Cells) /\ todo # <<>> /\ 1 \in DOMAIN todo /\ c \in Cells /\ todo' = Tail(todo)
      /\ DOMAIN snap' = S \cup {c} /\ snap'[c] = count[c] /\ \A d \in S : d # c => snap'[d] = snap[d]
      /\ count' = count /\ pc = "load" /\ pc' = "load"
      BY LoadSteps
<1>2. /\ S \in SUBSET Cells /\ (\A d \in S : snap[d] \in Nat) /\ \A d \in Cells : count[d] \in Nat
      BY SnapFacts DEF TypeOK
<1>3. /\ \A i \in DOMAIN todo' : i + 1 \in DOMAIN todo /\ todo'[i] = todo[i + 1]
      /\ \A i \in DOMAIN todo : i # 1 => i - 1 \in DOMAIN todo' /\ todo'[i - 1] = todo[i]
      /\ DOMAIN todo' \subseteq Nat \ {0} /\ DOMAIN todo \subseteq Nat \ {0}
      BY <1>1, TailFacts
<1>4. /\ \A d \in S : snap[d] <= count[d]
      /\ \A i, j \in DOMAIN todo : i < j /\ todo[i][1] = "global" => todo[j][1] = "global"
      /\ \A d \in ({"global"} \X Fields) \cup ({"hist"} \X Slots) :
            d \in S \/ \E i \in DOMAIN todo : todo[i] = d
      /\ \A f \in Fields : <<"global", f>> \in S => GlobalOnly
      BY <1>1 DEF Loading
<1>5. \A d \in DOMAIN snap' : d \in Cells /\ snap'[d] \in Nat /\ snap'[d] <= count[d]
      BY <1>1, <1>2, <1>4
<1>6. \A i, j \in DOMAIN todo' : i < j /\ todo'[i][1] = "global" => todo'[j][1] = "global"
  <2> SUFFICES ASSUME NEW i \in DOMAIN todo', NEW j \in DOMAIN todo', i < j, todo'[i][1] = "global"
               PROVE todo'[j][1] = "global"
        OBVIOUS
  <2>1. i + 1 < j + 1 /\ todo[i + 1][1] = "global" /\ todo'[j] = todo[j + 1]
        BY <1>3
  <2> QED
        BY <1>3, <1>4, <2>1
<1>7. \A d \in ({"global"} \X Fields) \cup ({"hist"} \X Slots) :
          d \in DOMAIN snap' \/ \E i \in DOMAIN todo' : todo'[i] = d
  <2> SUFFICES ASSUME NEW d \in ({"global"} \X Fields) \cup ({"hist"} \X Slots), d \notin DOMAIN snap'
               PROVE \E i \in DOMAIN todo' : todo'[i] = d
        OBVIOUS
  <2>1. PICK i \in DOMAIN todo : todo[i] = d
        BY <1>1, <1>4
  <2>2. i # 1
        BY <1>1, <2>1
  <2> QED
        BY <1>3, <2>1, <2>2
<1>8. c[1] = "global" => GlobalOnly /\ GlobalOnly'
  <2> SUFFICES ASSUME c[1] = "global" PROVE GlobalOnly /\ GlobalOnly'
        OBVIOUS
  <2>1. ASSUME NEW i \in DOMAIN todo PROVE todo[i][1] = "global"
    <3>1. i = 1 \/ 1 < i
          BY <1>3
    <3> QED
          BY <1>1, <1>4, <3>1
  <2> QED
        BY <1>3, <2>1 DEF GlobalOnly
<1>9. \A f \in Fields : <<"global", f>> \in S => c[1] = "global"
      BY <1>1, <1>4 DEF GlobalOnly
<1> HIDE DEF c, S
<1>10. IsFiniteSet(Units(count, Cells))
      BY DEF Lagging
<1>11. ASSUME NEW f \in Fields, <<"global", f>> \in DOMAIN snap'
       PROVE GlobalOnly' /\ Total(snap', (DOMAIN snap') \cap (Targets \X {f})) <= snap'[<<"global", f>>]
  <2> DEFINE g == <<"global", f>>
             T == Targets \X {f}
             X == S \cap T
  <2>1. c[1] = "global"
    <3>1. CASE <<"global", f>> \in S
          BY <1>9, <3>1
    <3>2. CASE <<"global", f>> = c
          BY <3>2
    <3> QED
          BY <1>1, <1>11, <3>1, <3>2
  <2>2. c \notin T
        BY <2>1, CellsAre
  <2>3. (DOMAIN snap') \cap T = X
        BY <1>1, <2>2
  <2>4. \A d \in X : snap'[d] = snap[d]
        BY <1>1, <2>2
  <2>5. Total(snap', X) <= snap'[g]
    <3>1. CASE c = g
      <4>1. T \in SUBSET Cells /\ Cardinality(Owing(f)) \in Nat
            BY <1>10, SumsAreFinite, FS_CardinalityType
      <4>2. \A d \in X : d \in T /\ snap'[d] \in Nat /\ snap'[d] <= count[d]
            BY <1>2, <1>4, <2>4 DEF S
      <4>3. Total(count, T) + Cardinality(Owing(f)) <= count[g]
            BY DEF Lagging
      <4>4. snap'[g] = count[g] /\ count[g] \in Nat
            BY <1>1, <1>2, <3>1
      <4> HIDE DEF T, X, g
      <4>5. Total(snap', X) \in Nat /\ Total(count, T) \in Nat /\ Total(snap', X) <= Total(count, T)
            BY <1>10, <4>1, <4>2, LoadedWithin
      <4> QED
            BY <4>1, <4>3, <4>4, <4>5
    <3>2. CASE c # g
      <4>1. g \in S /\ snap'[g] = snap[g]
            BY <1>1, <1>11, <3>2
      <4>2. Total(snap, X) <= snap[g]
            BY <4>1 DEF Loading, S
      <4> HIDE DEF X, g
      <4>3. Total(snap', X) = Total(snap, X)
            BY <2>4, SameTotal
      <4> QED
            BY <4>1, <4>2, <4>3
    <3> QED
          BY <3>1, <3>2
  <2> QED
        BY <1>8, <2>1, <2>3, <2>5
<1>12. ASSUME <<"global", "requests">> \in DOMAIN snap'
       PROVE Total(snap', {"hist"} \X Slots) <= snap'[<<"global", "requests">>]
  <2> DEFINE g == <<"global", "requests">>
             T == {"hist"} \X Slots
  <2>0. "requests" \in Fields
        BY DEF Fields
  <2>1. c[1] = "global"
    <3>1. CASE g \in S
          BY <1>9, <2>0, <3>1
    <3>2. CASE g = c
          BY <3>2
    <3> QED
          BY <1>1, <1>12, <3>1, <3>2
  <2>2. c \notin T
        BY <2>1
  <2>3. T \subseteq S
    <3> SUFFICES ASSUME NEW d \in T PROVE d \in S
          OBVIOUS
    <3>1. \A i \in DOMAIN todo : todo[i][1] = "global"
          BY <1>8, <2>1 DEF GlobalOnly
    <3>2. d[1] = "hist"
          OBVIOUS
    <3> QED
          BY <1>4, <3>1, <3>2
  <2>4. \A d \in T : snap'[d] = snap[d]
        BY <1>1, <2>2, <2>3
  <2>5. CASE c = g
    <3>1. T \in SUBSET Cells /\ Cardinality(OwingSample) \in Nat
          BY <1>10, <2>0, SumsAreFinite, FS_CardinalityType
    <3>2. \A d \in T : d \in T /\ snap'[d] \in Nat /\ snap'[d] <= count[d]
          BY <1>2, <1>4, <2>3, <2>4 DEF S
    <3>3. Total(count, T) + Cardinality(OwingSample) <= count[g]
          BY DEF Lagging
    <3>4. snap'[g] = count[g] /\ count[g] \in Nat
          BY <1>1, <1>2, <2>5
    <3> HIDE DEF T, g
    <3>5. Total(snap', T) \in Nat /\ Total(count, T) \in Nat /\ Total(snap', T) <= Total(count, T)
          BY <1>10, <3>1, <3>2, LoadedWithin
    <3>6. Total(snap', T) <= snap'[g]
          BY <3>1, <3>3, <3>4, <3>5
    <3> QED
          BY <3>6 DEF T, g
  <2>6. CASE c # g
    <3>1. g \in S /\ snap'[g] = snap[g]
          BY <1>1, <1>12, <2>6
    <3>2. Total(snap, T) <= snap[g]
          BY <3>1 DEF Loading, S
    <3> HIDE DEF T, g
    <3>3. Total(snap', T) = Total(snap, T)
          BY <2>4, SameTotal
    <3>4. Total(snap', T) <= snap'[g]
          BY <3>1, <3>2, <3>3
    <3> QED
          BY <3>4 DEF T, g
  <2> QED
        BY <2>5, <2>6
<1> QED
      BY <1>1, <1>5, <1>6, <1>7, <1>11, <1>12 DEF Loading, Total, Units

(* The steps that load nothing.                                            *)
LEMMA NoLoadKeepsLoading ==
    ASSUME TypeOK, Loading, todo' = todo, snap' = snap, pc' = "load" <=> pc = "load",
           \A c \in Cells : count'[c] \in Nat /\ count[c] <= count'[c]
    PROVE Loading'
<1>1. /\ DOMAIN snap \in SUBSET Cells /\ (\A c \in DOMAIN snap : snap[c] \in Nat)
      /\ \A c \in Cells : count[c] \in Nat
      BY SnapFacts DEF TypeOK
<1>2. \A c \in DOMAIN snap : snap[c] <= count'[c]
  <2> SUFFICES ASSUME NEW c \in DOMAIN snap PROVE snap[c] <= count'[c]
        OBVIOUS
  <2>1. snap[c] <= count[c] /\ count[c] <= count'[c]
        BY <1>1 DEF Loading
  <2> QED
        BY <1>1, <2>1
<1>3. GlobalOnly' <=> GlobalOnly
      BY DEF GlobalOnly
<1> QED
      BY <1>2, <1>3 DEF Loading, Total, Units

(* The first and the last step of a snapshot.                              *)
LEMMA StartKeepsLoading ==
    ASSUME TypeOK, Loading, StartSnapshot
    PROVE todo' \in Seq(Cells) /\ Loading'
<1>1. /\ LoadOrder \in Seq(Cells)
      /\ \A i, j \in DOMAIN LoadOrder :
            i < j /\ LoadOrder[i][1] = "global" => LoadOrder[j][1] = "global"
      /\ \A c \in ({"global"} \X Fields) \cup ({"hist"} \X Slots) :
            \E i \in DOMAIN LoadOrder : LoadOrder[i] = c
      BY LoadOrderFacts DEF TypeOK
<1>2. todo' = LoadOrder /\ snap' = snap /\ pc = "idle" /\ pc' = "load"
      BY DEF StartSnapshot
<1>3. DOMAIN snap = {}
      BY <1>2 DEF Loading, None
<1> QED
      BY <1>1, <1>2, <1>3 DEF Loading

LEMMA StoreKeepsLoading ==
    ASSUME TypeOK, Loading, Store
    PROVE Loading'
<1>1. todo' = todo /\ snap' = None /\ pc' = "lock"
      BY DEF Store
<1>2. DOMAIN snap' = {}
      BY <1>1 DEF None
<1>3. \A i, j \in DOMAIN todo' : i < j /\ todo'[i][1] = "global" => todo'[j][1] = "global"
      BY <1>1 DEF Loading
<1> QED
      BY <1>1, <1>2, <1>3 DEF Loading

-----------------------------------------------------------------------------
(* The channels, step by step.                                             *)
LEMMA ChannelTypes ==
    ASSUME TypeOK
    PROVE /\ cur \in Nat /\ left \subseteq Subs /\ "none" \notin Subs
          /\ sub \in [Subs -> {"off", "added", "on", "removed", "closed"}]
          /\ buf \in [Subs -> Seq(Nat)] /\ seen \in [Subs -> Nat]
BY StatsAssumption DEF TypeOK

(* Steps that touch no channel, and do not start a publish.                *)
LEMMA OthersKeepPublishing ==
    ASSUME TypeOK, Publishing,
           UNCHANGED <<cur, left, full, sub, buf, seen>>,
           pc' = pc \/ {pc, pc'} \cap {"lock", "send"} = {} \/ (pc = "send" /\ left = {} /\ pc' # "lock")
    PROVE Publishing'
BY ChannelTypes DEF Publishing, Listening

(* publish: the pointer, then the mutex, then channel by channel.          *)
LEMMA StoreKeepsPublishing ==
    ASSUME TypeOK, Publishing, Store
    PROVE Publishing'
<1>1. /\ cur' = cur + 1 /\ pc = "load" /\ pc' = "lock" /\ left' = left /\ full' = full
      /\ sub' = sub /\ buf' = buf /\ seen' = seen
      BY DEF Store, fanout
<1>2. left = {} /\ full = "none" /\ "none" \notin Subs /\ cur \in Nat
      BY <1>1, ChannelTypes DEF Publishing
<1>3. cur' - 1 = cur
      BY <1>1, <1>2
<1> QED
      BY <1>1, <1>2, <1>3 DEF Publishing, Listening

LEMMA LockKeepsPublishing ==
    ASSUME TypeOK, Publishing, Lock
    PROVE Publishing'
<1>1. /\ pc = "lock" /\ pc' = "send" /\ left' = {s \in Subs : sub[s] \in {"added", "on"}}
      /\ cur' = cur /\ full' = full /\ sub' = sub /\ buf' = buf /\ seen' = seen
      BY DEF Lock, fanout
<1>2. left = {} /\ full = "none" /\ "none" \notin Subs
      BY <1>1, ChannelTypes DEF Publishing
<1> QED
      BY <1>1, <1>2 DEF Publishing, Listening

LEMMA SendKeepsPublishing ==
    ASSUME TypeOK, Publishing, NEW s \in Subs, SendNow(s)
    PROVE Publishing'
<1>1. /\ pc = "send" /\ pc' = pc /\ full = "none" /\ full' = full /\ s \in left /\ left' = left \ {s}
      /\ cur' = cur /\ sub' = sub /\ seen' = seen /\ buf' = [buf EXCEPT ![s] = <<cur>>]
      BY DEF SendNow
<1>2. buf'[s] = <<cur>> /\ \A r \in Subs : r # s => buf'[r] = buf[r]
      BY <1>1, ChannelTypes
<1>3. "none" \notin Subs
      BY ChannelTypes
<1> QED
      BY <1>1, <1>2, <1>3 DEF Publishing, Listening

LEMMA FullKeepsPublishing ==
    ASSUME TypeOK, Publishing, NEW s \in Subs, Full(s)
    PROVE Publishing'
<1>1. /\ pc = "send" /\ pc' = pc /\ full = "none" /\ full' = s /\ s \in left /\ buf[s] # <<>>
      /\ left' = left /\ cur' = cur /\ sub' = sub /\ seen' = seen /\ buf' = buf
      BY DEF Full, fanout
<1> QED
      BY <1>1, ChannelTypes DEF Publishing, Listening

LEMMA DrainKeepsPublishing ==
    ASSUME TypeOK, Publishing, Drain
    PROVE Publishing'
<1>1. /\ full # "none" /\ full' = "none" /\ pc' = pc /\ cur' = cur /\ sub' = sub /\ seen' = seen
      /\ \/ buf[full] # <<>> /\ buf' = [buf EXCEPT ![full] = <<>>] /\ left' = left
         \/ buf[full] = <<>> /\ left' = left \ {full} /\ buf' = buf
      BY DEF Drain
<1>2. full \in left /\ full \in Subs /\ pc = "send" /\ "none" \notin Subs
      BY <1>1, ChannelTypes DEF Publishing
<1>3. CASE buf' = [buf EXCEPT ![full] = <<>>] /\ left' = left
  <2>1. buf'[full] = <<>> /\ \A r \in Subs : r # full => buf'[r] = buf[r]
        BY <1>2, <1>3, ChannelTypes
  <2> QED
        BY <1>1, <1>2, <1>3, <2>1 DEF Publishing, Listening
<1>4. CASE buf[full] = <<>> /\ left' = left \ {full} /\ buf' = buf
      BY <1>1, <1>2, <1>4 DEF Publishing, Listening
<1> QED
      BY <1>1, <1>3, <1>4

(* The subscribers.                                                        *)
LEMMA SubscribeKeepsPublishing ==
    ASSUME TypeOK, Publishing, NEW s \in Subs, Subscribe(s)
    PROVE Publishing'
<1>1. /\ sub[s] = "off" /\ pc # "send" /\ sub' = [sub EXCEPT ![s] = "added"]
      /\ pc' = pc /\ full' = full /\ left' = left /\ cur' = cur /\ seen' = seen /\ buf' = buf
      BY DEF Subscribe, MuFree
<1>2. left = {} /\ full = "none" /\ "none" \notin Subs /\ buf[s] = <<>>
      BY <1>1, ChannelTypes DEF Publishing
<1>3. sub'[s] = "added" /\ \A r \in Subs : r # s => sub'[r] = sub[r]
      BY <1>1, ChannelTypes
<1> QED
      BY <1>1, <1>2, <1>3 DEF Publishing, Listening

LEMMA LatestKeepsPublishing ==
    ASSUME TypeOK, Publishing, NEW s \in Subs, Latest(s)
    PROVE Publishing'
<1>1. /\ sub[s] = "added" /\ sub' = [sub EXCEPT ![s] = "on"] /\ seen' = [seen EXCEPT ![s] = cur]
      /\ pc' = pc /\ full' = full /\ left' = left /\ cur' = cur /\ buf' = buf
      BY DEF Latest
<1>2. sub'[s] = "on" /\ \A r \in Subs : r # s => sub'[r] = sub[r]
      BY <1>1, ChannelTypes
<1>3. seen'[s] = cur /\ cur >= cur - 1 /\ \A r \in Subs : r # s => seen'[r] = seen[r]
      BY <1>1, ChannelTypes
<1> QED
      BY <1>1, <1>2, <1>3, ChannelTypes DEF Publishing, Listening

LEMMA ReceiveKeepsPublishing ==
    ASSUME TypeOK, Publishing, NEW s \in Subs, Receive(s)
    PROVE Publishing'
<1>1. /\ sub[s] \in {"on", "removed", "closed"} /\ buf[s] # <<>>
      /\ seen' = [seen EXCEPT ![s] = buf[s][1]] /\ buf' = [buf EXCEPT ![s] = <<>>]
      /\ pc' = pc /\ full' = full /\ left' = left /\ cur' = cur /\ sub' = sub
      BY DEF Receive
<1>2. buf'[s] = <<>> /\ \A r \in Subs : r # s => buf'[r] = buf[r]
      BY <1>1, ChannelTypes
<1>3. seen'[s] = buf[s][1] /\ \A r \in Subs : r # s => seen'[r] = seen[r]
      BY <1>1, ChannelTypes
<1>4. sub[s] = "on" => seen'[s] >= cur - 1
  <2>1. sub[s] = "on" => buf[s] = <<cur>> \/ buf[s] = <<cur - 1>>
        BY <1>1 DEF Publishing, Listening
  <2>2. <<cur>>[1] = cur /\ <<cur - 1>>[1] = cur - 1 /\ cur >= cur - 1
        BY ChannelTypes
  <2> QED
        BY <1>3, <2>1, <2>2, ChannelTypes
<1>5. ~(sub[s] \in {"off", "added"})
      BY <1>1
<1> QED
      BY <1>1, <1>2, <1>3, <1>4, <1>5 DEF Publishing, Listening

LEMMA LeaveKeepsPublishing ==
    ASSUME TypeOK, Publishing, NEW s \in Subs, Unsubscribe(s) \/ CloseChan(s)
    PROVE Publishing'
<1>1. /\ pc' = pc /\ full' = full /\ left' = left /\ cur' = cur /\ seen' = seen /\ buf' = buf
      /\ \/ sub[s] = "on" /\ pc # "send" /\ sub' = [sub EXCEPT ![s] = "removed"]
         \/ sub[s] = "removed" /\ sub' = [sub EXCEPT ![s] = "closed"]
      BY DEF Unsubscribe, CloseChan, MuFree
<1>2. sub'[s] \in {"removed", "closed"} /\ \A r \in Subs : r # s => sub'[r] = sub[r]
      BY <1>1, ChannelTypes
<1>3. s \notin left
      BY <1>1 DEF Publishing, Listening
<1>4. left \subseteq Subs
      BY ChannelTypes
<1> QED
      BY <1>1, <1>2, <1>3, <1>4 DEF Publishing, Listening

-----------------------------------------------------------------------------
(* Types, for the workers, the collector goroutine and the subscribers.    *)
LEMMA WorkerTypes ==
    ASSUME TypeOK, Shaped, Lagging, NEW w \in Workers,
           \/ Add(w) \/ Lookup(w)
           \/ \E t \in Targets, o \in Outcomes, b \in Slots : Record(w, t, o, b)
    PROVE TypeOK'
<1>1. CASE Add(w)
  <2>1. work' \in [Workers -> Seq(Cells)] /\ count' \in [Cells -> Nat] /\ result' = result
        BY <1>1, AddSteps
  <2> QED
        BY <1>1, <2>1 DEF TypeOK, Add, fanout
<1>2. CASE Lookup(w)
  <2>1. work' \in [Workers -> Seq(Cells)] /\ result' \in [Workers -> Results]
        BY <1>2, LookupSteps
  <2> QED
        BY <1>2, <2>1 DEF TypeOK, Lookup, fanout
<1>3. ASSUME NEW t \in Targets, NEW o \in Outcomes, NEW b \in Slots, Record(w, t, o, b)
      PROVE TypeOK'
  <2>1. work' \in [Workers -> Seq(Cells)] /\ result' \in [Workers -> Results]
        BY <1>3, RecordSteps
  <2>2. recorded' \in 0..MaxRecords
        BY <1>3, StatsAssumption DEF TypeOK, Record
  <2> QED
        BY <1>3, <2>1, <2>2 DEF TypeOK, Record, fanout
<1> QED
      BY <1>1, <1>2, <1>3

LEMMA CollectorTypes ==
    ASSUME TypeOK, Loading, Publishing, Collector
    PROVE TypeOK'
<1>1. CASE StartSnapshot
  <2>1. todo' \in Seq(Cells)
        BY <1>1, StartKeepsLoading
  <2>2. last' \in BOOLEAN
        BY <1>1, Zenon DEF StartSnapshot
  <2> QED
        BY <1>1, <2>1, <2>2 DEF TypeOK, StartSnapshot, collector, fanout
<1>2. CASE Load
  <2>1. todo' \in Seq(Cells) /\ \E D \in SUBSET Cells : snap' \in [D -> Nat]
        BY <1>2, LoadSteps
  <2> QED
        BY <1>2, <2>1 DEF TypeOK, Load, collector, fanout
<1>3. CASE Store
  <2>1. snap' \in [{} -> Nat] /\ {} \in SUBSET Cells /\ cur' \in Nat
        BY <1>3 DEF Store, None, TypeOK
  <2>2. \E D \in SUBSET Cells : snap' \in [D -> Nat]
        BY <2>1
  <2> QED
        BY <1>3, <2>1, <2>2 DEF TypeOK, Store, collector, fanout
<1>4. CASE Lock
      BY <1>4 DEF TypeOK, Lock, collector, fanout
<1>5. CASE Drain
  <2>1. full \in Subs
        BY <1>5 DEF TypeOK, Drain
  <2>2. buf' \in [Subs -> Seq(Nat)] /\ left' \subseteq Subs
    <3>1. buf \in [Subs -> Seq(Nat)] /\ left \subseteq Subs /\ <<>> \in Seq(Nat)
          BY DEF TypeOK
    <3>2. CASE buf' = [buf EXCEPT ![full] = <<>>] /\ left' = left
          BY <2>1, <3>1, <3>2
    <3>3. CASE left' = left \ {full} /\ buf' = buf
          BY <3>1, <3>3
    <3> QED
          BY <1>5, <3>2, <3>3 DEF Drain
  <2> QED
        BY <1>5, <2>2 DEF TypeOK, Drain, collector
<1>6. CASE Unlock
  <2>1. pc' \in {"idle", "done"}
        BY <1>6 DEF Unlock
  <2> QED
        BY <1>6, <2>1 DEF TypeOK, Unlock, collector, fanout
<1>7. ASSUME NEW s \in Subs, SendNow(s) PROVE TypeOK'
  <2>1. <<cur>> \in Seq(Nat)
        BY DEF TypeOK
  <2>2. buf' \in [Subs -> Seq(Nat)] /\ left' \subseteq Subs
        BY <1>7, <2>1 DEF TypeOK, SendNow
  <2> QED
        BY <1>7, <2>2 DEF TypeOK, SendNow, collector
<1>8. ASSUME NEW s \in Subs, Full(s) PROVE TypeOK'
      BY <1>8 DEF TypeOK, Full, collector, fanout
<1> QED
      BY <1>1, <1>2, <1>3, <1>4, <1>5, <1>6, <1>7, <1>8 DEF Collector

LEMMA SubscriberTypes ==
    ASSUME TypeOK, NEW s \in Subs,
           Subscribe(s) \/ Latest(s) \/ Receive(s) \/ Unsubscribe(s) \/ CloseChan(s)
    PROVE TypeOK'
<1>1. CASE Subscribe(s) \/ Unsubscribe(s) \/ CloseChan(s)
  <2>1. sub' \in [Subs -> {"off", "added", "on", "removed", "closed"}]
        BY <1>1 DEF TypeOK, Subscribe, Unsubscribe, CloseChan
  <2> QED
        BY <1>1, <2>1 DEF TypeOK, Subscribe, Unsubscribe, CloseChan, collector
<1>2. CASE Latest(s)
      BY <1>2 DEF TypeOK, Latest, collector
<1>3. CASE Receive(s)
  <2>1. buf[s] \in Seq(Nat) /\ buf[s] # <<>>
        BY <1>3 DEF TypeOK, Receive
  <2>2. buf[s][1] \in Nat /\ <<>> \in Seq(Nat)
        BY <2>1, TailFacts
  <2>3. seen' \in [Subs -> Nat] /\ buf' \in [Subs -> Seq(Nat)]
        BY <1>3, <2>2 DEF TypeOK, Receive
  <2> QED
        BY <1>3, <2>3 DEF TypeOK, Receive, collector
<1> QED
      BY <1>1, <1>2, <1>3

-----------------------------------------------------------------------------
(* The invariant holds at the start, and every step keeps it.              *)
LEMMA StatsInvInit == Init => StatsInv
<1> SUFFICES ASSUME Init PROVE StatsInv
      OBVIOUS
<1>1. TypeOK
  <2>1. snap \in [{} -> Nat] /\ {} \in SUBSET Cells
        BY DEF Init, Quiet, None
  <2>2. \E D \in SUBSET Cells : snap \in [D -> Nat]
        BY <2>1
  <2>3. last \in BOOLEAN /\ cancelled \in BOOLEAN
        BY Zenon DEF Init, Quiet
  <2>4. <<>> \in Seq(Cells) /\ <<>> \in Seq(Nat) /\ <<>> \in Results
        BY DEF Results
  <2> QED
        BY <2>2, <2>3, <2>4, StatsAssumption DEF Init, Quiet, TypeOK
<1>2. \A w \in Workers : DOMAIN work[w] = {} /\ result[w] = <<>>
      BY DEF Init, Quiet
<1>3. Shaped
      BY <1>2 DEF Shaped
<1>4. Lagging
  <2>1. \A w \in Workers : \A d : ~InWork(w, d)
        BY <1>2 DEF InWork
  <2>2. OwingSample = {} /\ \A f \in Fields : Owing(f) = {}
        BY <1>2, <2>1 DEF Owing, OwingSample, Owes, OwesSample
  <2>3. ASSUME NEW C \in SUBSET Cells PROVE Units(count, C) = {}
    <3>1. \A c \in C : 1..count[c] = {}
          BY DEF Init, Quiet
    <3> QED
          BY <3>1, UnitsAre
  <2>4. IsFiniteSet({}) /\ Cardinality({}) = 0
        BY FS_EmptySet
  <2>5. ASSUME NEW f \in Fields
        PROVE /\ Targets \X {f} \in SUBSET Cells /\ {"hist"} \X Slots \in SUBSET Cells
              /\ count[<<"global", f>>] = 0 /\ count[<<"global", "requests">>] = 0
        BY CellsAre DEF Init, Quiet, Fields
  <2>6. ASSUME NEW f \in Fields PROVE Total(count, Targets \X {f}) = 0 /\ Total(count, {"hist"} \X Slots) = 0
        BY <2>3, <2>4, <2>5 DEF Total
  <2>7. "requests" \in Fields
        BY DEF Fields
  <2> QED
    <3>1. IsFiniteSet(Units(count, Cells))
          BY <2>3, <2>4
    <3>2. ASSUME NEW f \in Fields
          PROVE Total(count, Targets \X {f}) + Cardinality(Owing(f)) <= count[<<"global", f>>]
      <4>1. Cardinality(Owing(f)) = 0
            BY <2>2, <2>4
      <4>2. Total(count, Targets \X {f}) = 0 /\ count[<<"global", f>>] = 0
            BY <2>5, <2>6
      <4> QED
            BY <4>1, <4>2
    <3>3. Total(count, {"hist"} \X Slots) + Cardinality(OwingSample) <= count[<<"global", "requests">>]
      <4>1. Cardinality(OwingSample) = 0
            BY <2>2, <2>4
      <4>2. Total(count, {"hist"} \X Slots) = 0 /\ count[<<"global", "requests">>] = 0
            BY <2>5, <2>6, <2>7
      <4> QED
            BY <4>1, <4>2
    <3> QED
          BY <3>1, <3>2, <3>3 DEF Lagging
<1>5. Loading
  <2>1. DOMAIN snap = {} /\ DOMAIN todo = {} /\ pc # "load" /\ snap = None
        BY DEF Init, Quiet, None
  <2> QED
        BY <2>1 DEF Loading
<1>6. Publishing
      BY DEF Init, Quiet, Publishing, Listening
<1> QED
      BY <1>1, <1>3, <1>4, <1>5, <1>6 DEF StatsInv

(* What the steps of the collector goroutine and of the subscribers leave  *)
(* alone.                                                                  *)
LEMMA SameCounters ==
    ASSUME TypeOK, Shaped, Lagging, count' = count, work' = work, result' = result
    PROVE Shaped' /\ Lagging'
<1>1. Shaped'
      BY DEF Shaped
<1>2. \A v \in Workers : (\A f \in Fields : Owes(v, f)' => Owes(v, f)) /\ (OwesSample(v)' => OwesSample(v))
      BY SameWork
<1> QED
      BY <1>1, <1>2, NoAddKeepsLagging

LEMMA StatsInvNext == StatsInv /\ [Next]_vars => StatsInv'
<1> SUFFICES ASSUME StatsInv, [Next]_vars PROVE StatsInv'
      OBVIOUS
<1>0. TypeOK /\ Shaped /\ Lagging /\ Loading /\ Publishing
      BY DEF StatsInv
<1>1. ASSUME NEW w \in Workers, Add(w) PROVE StatsInv'
  <2>1. TypeOK'
        BY <1>0, <1>1, WorkerTypes
  <2>2. Shaped' /\ Lagging'
        BY <1>0, <1>1, AddKeepsShaped, AddKeepsLagging
  <2>3. Loading'
    <3>1. \A c \in Cells : count'[c] \in Nat /\ count[c] <= count'[c]
      <4>1. /\ count \in [Cells -> Nat] /\ count' \in [Cells -> Nat] /\ count'[work[w][1]] = count[work[w][1]] + 1
            /\ work[w][1] \in Cells /\ \A d \in Cells : d # work[w][1] => count'[d] = count[d]
            BY <1>0, <1>1, AddSteps
      <4> DEFINE c0 == work[w][1]
      <4> HIDE DEF c0
      <4>2. /\ count'[c0] = count[c0] + 1 /\ \A d \in Cells : d # c0 => count'[d] = count[d]
            BY <4>1 DEF c0
      <4> QED
            BY <4>1, <4>2
    <3>2. todo' = todo /\ snap' = snap /\ pc' = pc
          BY <1>1 DEF Add
    <3> QED
          BY <1>0, <3>1, <3>2, NoLoadKeepsLoading
  <2>4. Publishing'
        BY <1>0, <1>1, OthersKeepPublishing DEF Add, fanout
  <2> QED
        BY <2>1, <2>2, <2>3, <2>4 DEF StatsInv
<1>2. \A c \in Cells : count[c] \in Nat /\ count[c] <= count[c]
      BY <1>0 DEF TypeOK
<1>3. ASSUME NEW w \in Workers, Lookup(w) PROVE StatsInv'
  <2>1. TypeOK'
        BY <1>0, <1>3, WorkerTypes
  <2>2. Shaped' /\ Lagging'
        BY <1>0, <1>3, LookupSteps
  <2>3. Loading'
        BY <1>0, <1>2, <1>3, NoLoadKeepsLoading DEF Lookup
  <2>4. Publishing'
        BY <1>0, <1>3, OthersKeepPublishing DEF Lookup, fanout
  <2> QED
        BY <2>1, <2>2, <2>3, <2>4 DEF StatsInv
<1>4. ASSUME NEW w \in Workers, NEW t \in Targets, NEW o \in Outcomes, NEW b \in Slots, Record(w, t, o, b)
      PROVE StatsInv'
  <2>1. TypeOK'
        BY <1>0, <1>4, WorkerTypes
  <2>2. Shaped' /\ Lagging'
        BY <1>0, <1>4, RecordSteps
  <2>3. Loading'
        BY <1>0, <1>2, <1>4, NoLoadKeepsLoading DEF Record
  <2>4. Publishing'
        BY <1>0, <1>4, OthersKeepPublishing DEF Record, fanout
  <2> QED
        BY <2>1, <2>2, <2>3, <2>4 DEF StatsInv
<1>5. ASSUME NEW t \in Targets, AddShard(t) PROVE StatsInv'
  <2>1. TypeOK'
    <3>1. targetIDs' \in Seq(Targets)
          BY <1>0, <1>5 DEF TypeOK, AddShard
    <3> QED
          BY <1>0, <1>5, <3>1 DEF TypeOK, AddShard, fanout
  <2>2. Shaped' /\ Lagging'
        BY <1>0, <1>5, SameCounters DEF AddShard
  <2>3. Loading'
        BY <1>0, <1>2, <1>5, NoLoadKeepsLoading DEF AddShard
  <2>4. Publishing'
        BY <1>0, <1>5, OthersKeepPublishing DEF AddShard, fanout
  <2> QED
        BY <2>1, <2>2, <2>3, <2>4 DEF StatsInv
<1>6. CASE Collector
  <2>1. TypeOK'
        BY <1>0, <1>6, CollectorTypes
  <2>2. Shaped' /\ Lagging'
    <3>1. count' = count /\ work' = work /\ result' = result
          BY <1>6 DEF Collector, StartSnapshot, Load, Store, Lock, Drain, Unlock, SendNow, Full, collector
    <3> QED
          BY <1>0, <3>1, SameCounters
  <2>3. Loading'
    <3>1. CASE Load
          BY <1>0, <3>1, LoadKeepsLoading
    <3>2. CASE StartSnapshot
          BY <1>0, <3>2, StartKeepsLoading
    <3>3. CASE Store
          BY <1>0, <3>3, StoreKeepsLoading
    <3>4. CASE Lock \/ Drain \/ Unlock \/ \E s \in Subs : SendNow(s) \/ Full(s)
      <4>1. todo' = todo /\ snap' = snap /\ count' = count
            BY <3>4 DEF Lock, Drain, Unlock, SendNow, Full, collector
      <4>2. pc' = "load" <=> pc = "load"
            BY <3>4 DEF Lock, Drain, Unlock, SendNow, Full
      <4> QED
            BY <1>0, <1>2, <4>1, <4>2, NoLoadKeepsLoading
    <3> QED
          BY <1>6, <3>1, <3>2, <3>3, <3>4 DEF Collector
  <2>4. Publishing'
    <3>1. CASE StartSnapshot
          BY <1>0, <3>1, OthersKeepPublishing DEF StartSnapshot, fanout
    <3>2. CASE Load
          BY <1>0, <3>2, OthersKeepPublishing DEF Load, fanout
    <3>3. CASE Store
          BY <1>0, <3>3, StoreKeepsPublishing
    <3>4. CASE Lock
          BY <1>0, <3>4, LockKeepsPublishing
    <3>5. CASE Drain
          BY <1>0, <3>5, DrainKeepsPublishing
    <3>6. CASE Unlock
          BY <1>0, <3>6, OthersKeepPublishing DEF Unlock, fanout
    <3>7. ASSUME NEW s \in Subs, SendNow(s) \/ Full(s) PROVE Publishing'
          BY <1>0, <3>7, SendKeepsPublishing, FullKeepsPublishing
    <3> QED
          BY <1>6, <3>1, <3>2, <3>3, <3>4, <3>5, <3>6, <3>7 DEF Collector
  <2> QED
        BY <2>1, <2>2, <2>3, <2>4 DEF StatsInv
<1>7. ASSUME NEW s \in Subs, Subscribe(s) \/ Latest(s) \/ Receive(s) \/ Unsubscribe(s) \/ CloseChan(s)
      PROVE StatsInv'
  <2>1. TypeOK'
        BY <1>0, <1>7, SubscriberTypes
  <2>2. count' = count /\ work' = work /\ result' = result /\ todo' = todo /\ snap' = snap /\ pc' = pc
        BY <1>7 DEF Subscribe, Latest, Receive, Unsubscribe, CloseChan, collector
  <2>3. Shaped' /\ Lagging'
        BY <1>0, <2>2, SameCounters
  <2>4. Loading'
        BY <1>0, <1>2, <2>2, NoLoadKeepsLoading
  <2>5. Publishing'
        BY <1>0, <1>7, SubscribeKeepsPublishing, LatestKeepsPublishing, ReceiveKeepsPublishing, LeaveKeepsPublishing
  <2> QED
        BY <2>1, <2>3, <2>4, <2>5 DEF StatsInv
<1>8. CASE CancelRun
  <2>1. TypeOK'
    <3>1. cancelled' \in BOOLEAN
          BY <1>8, Zenon DEF CancelRun
    <3> QED
          BY <1>0, <1>8, <3>1 DEF TypeOK, CancelRun, collector, fanout
  <2>2. Shaped' /\ Lagging'
        BY <1>0, <1>8, SameCounters DEF CancelRun, collector
  <2>3. Loading'
        BY <1>0, <1>2, <1>8, NoLoadKeepsLoading DEF CancelRun, collector
  <2>4. Publishing'
        BY <1>0, <1>8, OthersKeepPublishing DEF CancelRun, fanout
  <2> QED
        BY <2>1, <2>2, <2>3, <2>4 DEF StatsInv
<1>9. CASE UNCHANGED vars
  <2>1. TypeOK'
        BY <1>0, <1>9 DEF TypeOK, vars, collector, fanout
  <2>2. Shaped' /\ Lagging'
        BY <1>0, <1>9, SameCounters DEF vars, collector
  <2>3. Loading'
        BY <1>0, <1>2, <1>9, NoLoadKeepsLoading DEF vars, collector
  <2>4. Publishing'
        BY <1>0, <1>9, OthersKeepPublishing DEF vars, fanout
  <2> QED
        BY <2>1, <2>2, <2>3, <2>4 DEF StatsInv
<1> QED
      BY <1>1, <1>3, <1>4, <1>5, <1>6, <1>7, <1>8, <1>9 DEF Next

(* The inductive invariant, of every behaviour of the collector, its       *)
(* workers and its subscribers.                                            *)
THEOREM StatsInvariant == Spec => []StatsInv
BY StatsInvInit, StatsInvNext, PTL DEF Spec

(* A snapshot is ordered though it is torn: the shards it shows never add  *)
(* up to more than the global count, nor the samples to more than the      *)
(* requests, for any number of workers recording while it is loaded.       *)
THEOREM SnapshotSafety == Spec => []SnapshotOrdered
<1>1. StatsInv => SnapshotOrdered
  <2> SUFFICES ASSUME StatsInv, pc = "load", todo = <<>>
               PROVE /\ \A f \in Range(Counts) :
                          Total(snap, DOMAIN snap \cap (Targets \X {f})) <= snap[<<"global", f>>]
                     /\ Total(snap, {"hist"} \X Slots) <= snap[<<"global", "requests">>]
        BY DEF SnapshotOrdered
  <2>1. \A f \in Fields : <<"global", f>> \in DOMAIN snap
    <3>1. DOMAIN todo = {}
          OBVIOUS
    <3> QED
          BY <3>1 DEF StatsInv, Loading
  <2>2. \A f \in Range(Counts) : f \in Fields
        BY FieldsAre
  <2>3. "requests" \in Fields
        BY DEF Fields
  <2> QED
        BY <2>1, <2>2, <2>3 DEF StatsInv, Loading
<1> QED
      BY <1>1, StatsInvariant, PTL

(* publish never sends on a channel that its subscriber closed.            *)
THEOREM SendSafety == Spec => []NoSendOnClosed
<1>1. StatsInv => NoSendOnClosed
      BY DEF StatsInv, Publishing, Listening, NoSendOnClosed
<1> QED
      BY <1>1, StatsInvariant, PTL

(* Between two publishes a subscriber is at most one snapshot behind, for  *)
(* any number of subscribers.                                              *)
THEOREM LagSafety == Spec => []LagAtMostOne
<1>1. StatsInv => LagAtMostOne
  <2> SUFFICES ASSUME StatsInv, BetweenPublishes, NEW s \in Subs, sub[s] = "on"
               PROVE Newest(s) >= cur - 1
        BY DEF LagAtMostOne
  <2>1. cur \in Nat /\ seen[s] \in Nat
        BY ChannelTypes DEF StatsInv
  <2>2. pc # "lock" /\ left = {}
        BY DEF StatsInv, Publishing, BetweenPublishes
  <2>3. buf[s] = <<>> \/ buf[s] = <<cur>>
        BY <2>2 DEF StatsInv, Publishing, Listening
  <2>4. CASE buf[s] = <<>>
    <3>1. seen[s] >= cur - 1
          BY <2>2, <2>4 DEF StatsInv, Publishing, Listening
    <3> QED
          BY <2>4, <3>1 DEF Newest
  <2>5. CASE buf[s] = <<cur>>
    <3>1. buf[s] # <<>> /\ buf[s][1] = cur
          BY <2>5
    <3>2. Newest(s) = IF cur < seen[s] THEN seen[s] ELSE cur
          BY <3>1 DEF Newest
    <3> QED
          BY <2>1, <3>2
  <2> QED
        BY <2>3, <2>4, <2>5
<1> QED
      BY <1>1, StatsInvariant, PTL

-----------------------------------------------------------------------------
(* The percentile.  The number of samples is natural, and none lie under   *)
(* the first bucket.                                                       *)
LEMMA SampleCounts ==
    ASSUME StatsInv, pc = "load", todo = <<>>
    PROVE /\ SampleCount(snap, 0) = 0
          /\ \A n \in 0..(Buckets + 1) : SampleCount(snap, n) \in Nat
<1>1. TypeOK /\ IsFiniteSet(Units(count, Cells)) /\ Buckets \in Nat
      BY StatsAssumption DEF StatsInv, Lagging
<1>2. \A c \in {"hist"} \X Slots : c \in Cells /\ snap[c] \in Nat /\ snap[c] <= count[c]
  <2>1. DOMAIN todo = {}
        OBVIOUS
  <2>2. \A c \in {"hist"} \X Slots : c \in DOMAIN snap
        BY <2>1 DEF StatsInv, Loading
  <2> QED
        BY <1>1, <2>2, SnapFacts DEF StatsInv, Loading
<1>3. ASSUME NEW n \in 0..(Buckets + 1) PROVE SampleCount(snap, n) \in Nat
  <2> DEFINE C == {"hist"} \X (1..n)
  <2>1. \A c \in C : c \in {"hist"} \X Slots
        BY <1>1 DEF Slots
  <2>2. \A c \in C : c \in Cells /\ snap[c] \in Nat /\ snap[c] <= count[c]
        BY <1>2, <2>1
  <2> HIDE DEF C
  <2>3. Total(snap, C) \in Nat
        BY <1>1, <2>2, LoadedWithin
  <2> QED
        BY <2>3 DEF C, SampleCount
<1>4. SampleCount(snap, 0) = 0
  <2> DEFINE C == {"hist"} \X (1..0)
  <2>1. C = {}
        OBVIOUS
  <2> HIDE DEF C
  <2>2. Units(snap, C) = {}
        BY <2>1, UnitsAre
  <2>3. Total(snap, C) = 0
        BY <2>2, FS_EmptySet DEF Total
  <2> QED
        BY <2>3 DEF C, SampleCount
<1> QED
      BY <1>3, <1>4

(* A non-empty set of naturals has a least element.                        *)
LEMMA LeastNat ==
    ASSUME NEW T \in SUBSET Nat, T # {}
    PROVE  \E x \in T : \A y \in T : x <= y
<1>1. PICK x \in T : \A y \in T : ~(<<y, x>> \in OpToRel(<, Nat))
      BY WFMin, NatLessThanWellFounded
<1>2. \A y \in T : ~(y < x)
      BY <1>1 DEF OpToRel
<1> QED
      BY <1>2

(* The reported boundary has at least the asked share of the samples at or *)
(* under it, or is the last one, for any number of buckets.                *)
THEOREM PercentileSafety == Spec => []PercentileNeverUnder
<1>1. StatsInv => PercentileNeverUnder
  <2> SUFFICES ASSUME StatsInv, pc = "load", todo = <<>>, NEW q \in {50, 90, 99}
               PROVE LET p == Percentile(snap, q) IN
                     p = Buckets \/ 100 * SampleCount(snap, p) >= q * SampleCount(snap, Buckets + 1)
        BY DEF PercentileNeverUnder
  <2> DEFINE N == SampleCount(snap, Buckets + 1)
             R == Rank(snap, q)
             crossing == {i \in 1..Buckets : SampleCount(snap, i) > R}
             p == Percentile(snap, q)
  <2>1. Buckets \in Nat /\ q \in Nat
        BY StatsAssumption
  <2>2. N \in Nat /\ SampleCount(snap, 0) = 0 /\ \A n \in 1..Buckets : SampleCount(snap, n) \in Nat
        BY <2>1, SampleCounts
  <2>3. p = IF N = 0 THEN 0
            ELSE IF crossing = {} THEN Buckets
            ELSE CHOOSE i \in crossing : \A j \in crossing : i <= j
        BY DEF Percentile
  <2>4. R = (q * N + 99) \div 100
        BY DEF Rank
  <2> HIDE DEF N, R, p
  <2>5. CASE N = 0
    <3>1. p = 0
          BY <2>3, <2>5
    <3>2. 100 * SampleCount(snap, p) >= q * N
          BY <2>1, <2>2, <2>5, <3>1
    <3> QED
          BY <3>2 DEF p, N
  <2>6. CASE N # 0 /\ crossing = {}
    <3>1. p = Buckets
          BY <2>3, <2>6
    <3> QED
          BY <3>1 DEF p
  <2>7. CASE N # 0 /\ crossing # {}
    <3>1. crossing \in SUBSET Nat
          BY <2>1
    <3>2. p = CHOOSE i \in crossing : \A j \in crossing : i <= j
          BY <2>3, <2>7
    <3> HIDE DEF crossing
    <3>3. p \in crossing
          BY <2>7, <3>1, <3>2, LeastNat
    <3>4. p \in 1..Buckets /\ SampleCount(snap, p) > R
          BY <3>3 DEF crossing
    <3>5. q * N <= 100 * R /\ R \in Nat
      <4> DEFINE m == q * N
      <4>1. m \in Nat
            BY <2>1, <2>2
      <4>2. R = (m + 99) \div 100
            BY <2>4
      <4> HIDE DEF m
      <4>3. m <= 100 * R /\ R \in Nat
            BY <4>1, <4>2
      <4> QED
            BY <4>3 DEF m
    <3>6. 100 * SampleCount(snap, p) >= q * N
      <4> DEFINE m == q * N
                 k == SampleCount(snap, p)
      <4>1. m \in Nat /\ k \in Nat /\ m <= 100 * R /\ k > R
            BY <2>1, <2>2, <3>4, <3>5
      <4> HIDE DEF m, k
      <4>2. 100 * k >= m
            BY <3>5, <4>1
      <4> QED
            BY <4>2 DEF m, k
    <3> QED
          BY <3>6 DEF p, N
  <2> QED
        BY <2>5, <2>6, <2>7
<1> QED
      BY <1>1, StatsInvariant, PTL
=============================================================================
