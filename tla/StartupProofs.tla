---------------------------- MODULE StartupProofs ----------------------------
(***************************************************************************)
(* What holds of every file Validate accepts and of every block that is    *)
(* run, for any files, fleets, schedules, personas and numbers of vusers.  *)
(***************************************************************************)
EXTENDS Startup, WellFoundedInduction, TLAPS

-----------------------------------------------------------------------------
(* Arithmetic.                                                             *)

(* Quotient and remainder.                                                 *)
LEMMA DivMod ==
    ASSUME NEW a \in Int, NEW n \in Nat, n > 0
    PROVE  \E q \in Int, r \in 0..(n - 1) : a \div n = q /\ a % n = r /\ a = n * q + r
  <1>1. PICK q \in Int : q = a \div n
      OBVIOUS
  <1>2. PICK r \in Int : r = a % n
      OBVIOUS
  <1>3. r \in 0..(n - 1)
      BY <1>2
  <1>4. a = n * q + r
      BY <1>1, <1>2
  <1> QED
      BY <1>1, <1>2, <1>3, <1>4

(* Products and the order.                                                 *)
LEMMA MulMono ==
    ASSUME NEW n \in Nat, NEW x \in Int, NEW y \in Int, x <= y
    PROVE  n * x <= n * y /\ n * x \in Int /\ n * y \in Int
  OBVIOUS

(* They are the only ones.                                                 *)
LEMMA DivUnique ==
    ASSUME NEW n \in Nat, n > 0, NEW q \in Int, NEW r \in 0..(n - 1), NEW a \in Int, a = n * q + r
    PROVE  a \div n = q /\ a % n = r
  <1>1. PICK p \in Int, s \in 0..(n - 1) : a \div n = p /\ a % n = s /\ a = n * p + s
      BY DivMod
  <1>2. \A x, y \in Int : x < y => n * x + n <= n * y
    <2> TAKE x \in Int, y \in Int
    <2> HAVE x < y
    <2>1. n * (x + 1) <= n * y
      BY MulMono
    <2>2. n * (x + 1) = n * x + n
      OBVIOUS
    <2> QED
      BY <2>1, <2>2
  <1>3. ~(p < q)
    <2> SUFFICES ASSUME p < q PROVE FALSE
      OBVIOUS
    <2>1. n * p + n <= n * q /\ n * p \in Int /\ n * q \in Int
      BY <1>2
    <2> QED
      BY <1>1, <2>1
  <1>4. ~(q < p)
    <2> SUFFICES ASSUME q < p PROVE FALSE
      OBVIOUS
    <2>1. n * q + n <= n * p /\ n * p \in Int /\ n * q \in Int
      BY <1>2
    <2> QED
      BY <1>1, <2>1
  <1>5. p = q
      BY <1>3, <1>4
  <1>6. s = r
      BY <1>1, <1>5
  <1> QED
      BY <1>1, <1>5, <1>6

(* A non-empty set of naturals has a least element.                        *)
LEMMA LeastNat ==
    ASSUME NEW T \in SUBSET Nat, T # {}
    PROVE  \E x \in T : \A y \in T : x <= y
  <1>1. PICK x \in T : \A y \in T : ~(<<y, x>> \in OpToRel(<, Nat))
      BY WFMin, NatLessThanWellFounded
  <1>2. \A y \in T : ~(y < x)
      BY <1>1 DEF OpToRel
  <1> QED
      BY <1>2

(* A bounded one has a greatest.                                           *)
LEMMA GreatestNat ==
    ASSUME NEW n \in Nat, NEW T \in SUBSET (0..n), T # {}
    PROVE  \E x \in T : \A y \in T : y <= x
  <1> DEFINE U == {k \in Nat : n - k \in T}
  <1>1. \A y \in T : n - (n - y) = y /\ n - y \in Nat /\ n - y \in U
      OBVIOUS
  <1>2. U # {}
      BY <1>1
  <1>3. PICK k \in U : \A j \in U : k <= j
      BY <1>2, LeastNat
  <1>4. \A y \in T : y <= n - k
      BY <1>1, <1>3
  <1> QED
      BY <1>4

-----------------------------------------------------------------------------
(* The schedule.                                                           *)

(* A zone that does not shift.                                             *)
NoShift == Location.by = 0

(* Windows as Validate lets them through: within a day.                    *)
WindowsSane(ws) ==
    \A i \in DOMAIN ws : /\ ws[i].start \in Nat /\ ws[i].end \in Nat
                         /\ ws[i].start < ws[i].end /\ ws[i].end < DayLen

(* Midnight and the day of an instant, in a zone that does not shift.      *)
LEMMA DayFacts ==
    ASSUME NoShift, NEW t \in Nat
    PROVE  \E q \in Nat, r \in 0..(DayLen - 1) :
              /\ t = DayLen * q + r /\ Midnight(q) = DayLen * q
              /\ LocalDay(t) = q /\ SinceMidnight(t) = r
  <1>0. DayLen \in Nat /\ DayLen > 0
      BY ScheduleAssumption
  <1>1. \A d \in Int : Midnight(d) = DayLen * d /\ DayLen * d \in Int
    <2> TAKE d \in Int
    <2>1. d * DayLen = DayLen * d /\ DayLen * d \in Int
      BY <1>0
    <2>2. Midnight(d) = d * DayLen - 0
      BY DEF Midnight, NoShift
    <2> QED
      BY <2>1, <2>2
  <1>2. PICK q \in Int, r \in 0..(DayLen - 1) : t \div DayLen = q /\ t = DayLen * q + r
      BY <1>0, DivMod
  <1>3. q \in Nat
    <2> SUFFICES ASSUME q <= -1 PROVE FALSE
      BY <1>2
    <2>1. DayLen * q <= DayLen * (-1)
      BY <1>0, MulMono
    <2> QED
      BY <1>0, <1>1, <1>2, <2>1
  <1>4. Midnight(q) <= t /\ ~(Midnight(q + 1) <= t)
    <2>1. DayLen * (q + 1) = DayLen * q + DayLen
      BY <1>0
    <2> QED
      BY <1>0, <1>1, <1>2, <2>1
  <1> DEFINE near == {d \in (q - 1)..(q + 1) : Midnight(d) <= t}
  <1>5. q \in near /\ \A e \in near : e <= q
      BY <1>4
  <1>6. LocalDay(t) = q
    <2>1. LocalDay(t) = CHOOSE d \in near : \A e \in near : e <= d
      BY <1>2 DEF LocalDay
    <2>2. LocalDay(t) \in near /\ \A e \in near : e <= LocalDay(t)
      BY <1>5, <2>1
    <2> QED
      BY <1>5, <2>2
  <1>7. SinceMidnight(t) = r
    <2>1. t - Midnight(q) = r
      BY <1>1, <1>2
    <2>2. SinceMidnight(t) = r + 0
      BY <1>6, <2>1 DEF SinceMidnight, NoShift
    <2> QED
      BY <2>2
  <1> QED
      BY <1>1, <1>2, <1>3, <1>6, <1>7

(* The other way round: the instant of a time of a day.                    *)
LEMMA DayOf ==
    ASSUME NoShift, NEW q \in Nat, NEW r \in 0..(DayLen - 1), NEW t \in Nat, t = DayLen * q + r
    PROVE  LocalDay(t) = q /\ SinceMidnight(t) = r /\ Midnight(q) = DayLen * q
  <1>0. DayLen \in Nat /\ DayLen > 0
      BY ScheduleAssumption
  <1>1. PICK p \in Nat, s \in 0..(DayLen - 1) :
              /\ t = DayLen * p + s /\ Midnight(p) = DayLen * p
              /\ LocalDay(t) = p /\ SinceMidnight(t) = s
      BY DayFacts
  <1>2. t \div DayLen = q /\ t % DayLen = r
      BY <1>0, DivUnique
  <1>3. t \div DayLen = p /\ t % DayLen = s
      BY <1>0, <1>1, DivUnique
  <1>4. p = q /\ s = r
      BY <1>2, <1>3
  <1> QED
      BY <1>1, <1>4

(* Some window is open on a day, at a time of it.                          *)
Open(ws, d, c) ==
    \E i \in DOMAIN ws : d % WeekLen \in ws[i].days /\ c \in ws[i].start..(ws[i].end - 1)

(* Open changes only where a window of the day starts or ends: when the    *)
(* schedule changes at an instant, it is an edge of its day.               *)
LEMMA ChangeIsEdge ==
    ASSUME NoShift, NEW ws, WindowsSane(ws), NEW t \in Nat,
           ~(Active(ws, t + 1) <=> Active(ws, t))
    PROVE  t + 1 \in DayEdges(ws, LocalDay(t + 1))
  <1>0. DayLen \in Nat /\ DayLen > 0
      BY ScheduleAssumption
  <1>1. PICK p \in Nat, s \in 0..(DayLen - 1) :
              /\ t = DayLen * p + s /\ Midnight(p) = DayLen * p
              /\ LocalDay(t) = p /\ SinceMidnight(t) = s
      BY DayFacts
  <1>2. t + 1 \in Nat
      OBVIOUS
  <1>3. PICK q \in Nat, r \in 0..(DayLen - 1) :
              /\ t + 1 = DayLen * q + r /\ Midnight(q) = DayLen * q
              /\ LocalDay(t + 1) = q /\ SinceMidnight(t + 1) = r
      BY <1>2, DayFacts
  <1>4. ~(Open(ws, q, r) <=> Open(ws, p, s))
      BY <1>1, <1>3 DEF Active, Open
  <1>5. CASE s < DayLen - 1
    <2>1. s + 1 \in 0..(DayLen - 1) /\ t + 1 = DayLen * p + (s + 1)
      BY <1>0, <1>1, <1>5
    <2>2. q = p /\ r = s + 1
      BY <1>2, <1>3, <2>1, DayOf
    <2>3. PICK i \in DOMAIN ws :
              /\ q % WeekLen \in ws[i].days
              /\ ~(r \in ws[i].start..(ws[i].end - 1) <=> s \in ws[i].start..(ws[i].end - 1))
      BY <1>4, <2>2 DEF Open
    <2>4. r = ws[i].start \/ r = ws[i].end
      BY <2>2, <2>3 DEF WindowsSane
    <2> QED
      BY <1>3, <2>3, <2>4 DEF DayEdges
  <1>6. CASE s = DayLen - 1
    <2>1. /\ p + 1 \in Nat /\ 0 \in 0..(DayLen - 1)
          /\ t + 1 = DayLen * (p + 1) + 0
      BY <1>0, <1>1, <1>6
    <2>2. q = p + 1 /\ r = 0
      BY <1>2, <1>3, <2>1, DayOf
    <2>3. ~Open(ws, p, s)
      BY <1>0, <1>6 DEF Open, WindowsSane
    <2>4. PICK i \in DOMAIN ws :
              q % WeekLen \in ws[i].days /\ r \in ws[i].start..(ws[i].end - 1)
      BY <1>4, <2>3 DEF Open
    <2>5. r = ws[i].start
      BY <2>2, <2>4 DEF WindowsSane
    <2> QED
      BY <1>3, <2>4, <2>5 DEF DayEdges
  <1> QED
      BY <1>0, <1>5, <1>6

(* A week earlier the schedule was the same.                               *)
LEMMA WeekAgo ==
    ASSUME NoShift, NEW ws, NEW t \in Nat, NEW u \in Nat, LocalDay(u) > LocalDay(t) + WeekLen
    PROVE  \E v \in Nat : t < v /\ v < u /\ (Active(ws, v) <=> Active(ws, u))
  <1>0. DayLen \in Nat /\ DayLen > 0 /\ WeekLen \in Nat /\ WeekLen > 0
      BY ScheduleAssumption
  <1>1. PICK p \in Nat, s \in 0..(DayLen - 1) : t = DayLen * p + s /\ LocalDay(t) = p
      BY DayFacts
  <1>2. PICK q \in Nat, r \in 0..(DayLen - 1) :
              u = DayLen * q + r /\ LocalDay(u) = q /\ SinceMidnight(u) = r
      BY DayFacts
  <1>3. PICK d \in Nat : d = q - WeekLen /\ d < q /\ d >= p + 1
      BY <1>0, <1>1, <1>2
  <1>4. PICK v \in Int : v = DayLen * d + r
      BY <1>0
  <1>5. t < v
    <2>1. DayLen * (p + 1) <= DayLen * d
      BY <1>0, <1>3, MulMono
    <2>2. DayLen * (p + 1) = DayLen * p + DayLen /\ DayLen * p \in Int /\ DayLen * d \in Int
      BY <1>0
    <2> QED
      BY <1>0, <1>1, <1>4, <2>1, <2>2
  <1>6. v < u
    <2>1. DayLen * (d + 1) <= DayLen * q
      BY <1>0, <1>3, MulMono
    <2>2. DayLen * (d + 1) = DayLen * d + DayLen /\ DayLen * q \in Int /\ DayLen * d \in Int
      BY <1>0
    <2> QED
      BY <1>0, <1>2, <1>4, <2>1, <2>2
  <1>7. v \in Nat
      BY <1>5
  <1>8. LocalDay(v) = d /\ SinceMidnight(v) = r
      BY <1>4, <1>7, DayOf
  <1>9. d % WeekLen = q % WeekLen
    <2>1. PICK m \in Int, k \in 0..(WeekLen - 1) :
              q \div WeekLen = m /\ q % WeekLen = k /\ q = WeekLen * m + k
      BY <1>0, DivMod
    <2>2. m - 1 \in Int /\ d = WeekLen * (m - 1) + k
      BY <1>0, <1>3, <2>1
    <2>3. d % WeekLen = k
      BY <1>0, <2>2, DivUnique
    <2> QED
      BY <2>1, <2>3
  <1>10. Active(ws, v) <=> Active(ws, u)
      BY <1>2, <1>8, <1>9 DEF Active
  <1> QED
      BY <1>5, <1>6, <1>7, <1>10

(* Until the transition NextTransition finds the schedule stays as it is,  *)
(* and for ever if it finds none: an edge of a week and a day is enough.   *)
LEMMA NextIsFirst ==
    ASSUME NoShift, NEW ws, WindowsSane(ws), NEW t \in Nat, NEW u \in Nat, t <= u,
           NextTransition(ws, t) = Never \/ u < NextTransition(ws, t)
    PROVE  Active(ws, u) <=> Active(ws, t)
  <1> SUFFICES ASSUME ~(Active(ws, u) <=> Active(ws, t))
               PROVE  FALSE
      OBVIOUS
  <1> DEFINE Changed == {v \in Nat : t <= v /\ v <= u /\ ~(Active(ws, v) <=> Active(ws, t))}
  <1>1. PICK v \in Changed : \A w \in Changed : v <= w
    <2>1. u \in Changed
      OBVIOUS
    <2> QED
      BY <2>1, LeastNat
  <1>2. v \in Nat /\ t < v /\ v <= u /\ ~(Active(ws, v) <=> Active(ws, t))
      BY <1>1
  <1>3. v - 1 \in Nat /\ (v - 1) + 1 = v
      BY <1>2
  <1>4. Active(ws, v - 1) <=> Active(ws, t)
    <2>1. v - 1 \notin Changed /\ t <= v - 1 /\ v - 1 <= u
      BY <1>1, <1>2, <1>3
    <2> QED
      BY <1>3, <2>1
  <1>5. v \in DayEdges(ws, LocalDay(v))
    <2>1. ~(Active(ws, (v - 1) + 1) <=> Active(ws, v - 1))
      BY <1>2, <1>3, <1>4
    <2>2. (v - 1) + 1 \in DayEdges(ws, LocalDay((v - 1) + 1))
      BY <1>3, <2>1, ChangeIsEdge
    <2> QED
      BY <1>3, <2>2
  <1>6. LocalDay(v) \in Nat /\ LocalDay(t) \in Nat /\ WeekLen \in Nat
      BY <1>2, DayFacts, ScheduleAssumption
  <1>7. LocalDay(v) <= LocalDay(t) + WeekLen
    <2> SUFFICES ASSUME LocalDay(v) > LocalDay(t) + WeekLen
                 PROVE  FALSE
      BY <1>6
    <2>1. PICK w \in Nat : t < w /\ w < v /\ (Active(ws, w) <=> Active(ws, v))
      BY <1>2, WeekAgo
    <2>2. w \in Changed
      BY <1>2, <2>1
    <2> QED
      BY <1>1, <2>1, <2>2
  <1>8. LocalDay(t) <= LocalDay(v)
    <2>1. PICK p \in Nat, s \in 0..(DayLen - 1) : t = DayLen * p + s /\ LocalDay(t) = p
      BY DayFacts
    <2>2. PICK q \in Nat, r \in 0..(DayLen - 1) : v = DayLen * q + r /\ LocalDay(v) = q
      BY <1>2, DayFacts
    <2> SUFFICES ASSUME q + 1 <= p PROVE FALSE
      BY <2>1, <2>2
    <2>3. DayLen \in Nat
      BY ScheduleAssumption
    <2>4. DayLen * (q + 1) <= DayLen * p
      BY <2>3, MulMono
    <2>5. DayLen * (q + 1) = DayLen * q + DayLen /\ DayLen * q \in Int /\ DayLen * p \in Int
      BY <2>3
    <2> QED
      BY <1>2, <2>1, <2>2, <2>3, <2>4, <2>5
  <1> DEFINE days == LocalDay(t)..(LocalDay(t) + WeekLen)
             flips == {e \in UNION {DayEdges(ws, d) : d \in days} :
                          e > t /\ Active(ws, e) # Active(ws, t)}
  <1>9. v \in flips
    <2>1. LocalDay(v) \in days
      BY <1>6, <1>7, <1>8
    <2>2. v \in UNION {DayEdges(ws, d) : d \in days}
      BY <1>5, <2>1
    <2>3. Active(ws, v) # Active(ws, t)
      BY <1>2
    <2> QED
      BY <1>2, <2>2, <2>3
  <1>10. flips \subseteq Nat
    <2> SUFFICES ASSUME NEW d \in days, NEW e \in DayEdges(ws, d), e > t
                 PROVE  e \in Nat
      OBVIOUS
    <2>1. d \in Nat /\ DayLen \in Nat
      BY <1>6, ScheduleAssumption
    <2>2. Midnight(d) \in Int
      BY <2>1, ScheduleAssumption DEF Midnight, NoShift
    <2>3. e \in Int
      BY <2>2 DEF DayEdges, WindowsSane
    <2> QED
      BY <2>3
  <1>11. NextTransition(ws, t) \in flips /\ \A o \in flips : NextTransition(ws, t) <= o
    <2>1. \E e \in flips : \A o \in flips : e <= o
      BY <1>9, <1>10, LeastNat
    <2>2. NextTransition(ws, t) = CHOOSE e \in flips : \A o \in flips : e <= o
      BY <1>9 DEF NextTransition
    <2> HIDE DEF flips
    <2> QED
      BY <2>1, <2>2
  <1>12. NextTransition(ws, t) \in Nat /\ NextTransition(ws, t) <= v
      BY <1>9, <1>10, <1>11
  <1> QED
      BY <1>2, <1>12 DEF Never

-----------------------------------------------------------------------------
(* The ramp.                                                               *)

(* Division keeps the order.                                               *)
LEMMA DivMono ==
    ASSUME NEW n \in Nat, n > 0, NEW a \in Int, NEW b \in Int, a <= b
    PROVE  a \div n \in Int /\ b \div n \in Int /\ a \div n <= b \div n
  <1>1. PICK p \in Int, s \in 0..(n - 1) : a \div n = p /\ a % n = s /\ a = n * p + s
      BY DivMod
  <1>2. PICK q \in Int, r \in 0..(n - 1) : b \div n = q /\ b % n = r /\ b = n * q + r
      BY DivMod
  <1>3. p <= q
    <2> SUFFICES ASSUME q + 1 <= p PROVE FALSE
      OBVIOUS
    <2>1. n * (q + 1) <= n * p
      BY MulMono
    <2>2. n * (q + 1) = n * q + n /\ n * q \in Int /\ n * p \in Int
      OBVIOUS
    <2> QED
      BY <1>1, <1>2, <2>1, <2>2
  <1> QED
      BY <1>1, <1>2, <1>3

(* Rounding keeps the order and does not move an exact quotient.           *)
LEMMA RoundFacts ==
    ASSUME NEW n \in Nat, n > 0, NEW a \in Int, NEW b \in Int, a <= b, NEW k \in Int
    PROVE  /\ RoundDiv(a, n) \in Int /\ RoundDiv(b, n) \in Int
           /\ RoundDiv(a, n) <= RoundDiv(b, n)
           /\ RoundDiv(k * n, n) = k
  <1>1. 2 * n \in Nat /\ 2 * n > 0 /\ 2 * a + n \in Int /\ 2 * b + n \in Int
        /\ 2 * a + n <= 2 * b + n
      OBVIOUS
  <1>2. /\ RoundDiv(a, n) \in Int /\ RoundDiv(b, n) \in Int
        /\ RoundDiv(a, n) <= RoundDiv(b, n)
      BY <1>1, DivMono DEF RoundDiv
  <1>3. RoundDiv(k * n, n) = k
    <2>1. n \in 0..(2 * n - 1)
      OBVIOUS
    <2>2. PICK x \in Int : x = 2 * (k * n) + n
      OBVIOUS
    <2>3. x = (2 * n) * k + n
      BY <2>2
    <2>4. x \div (2 * n) = k
      BY <1>1, <2>1, <2>3, DivUnique
    <2> QED
      BY <2>2, <2>4 DEF RoundDiv
  <1> QED
      BY <1>2, <1>3

(* A ramp as Validate lets it through; without one, up is not positive.    *)
RampSane(ramp, target) ==
    /\ target \in Nat /\ target >= 1
    /\ ramp.up \in Int /\ ramp.start \in Int /\ ramp.start <= target

(* The limit is within bounds at any time and never falls as time passes.  *)
LEMMA RampFacts ==
    ASSUME NEW ramp, NEW target, RampSane(ramp, target), NEW e \in Int, NEW f \in Int, e <= f
    PROVE  /\ ConcurrencyAt(ramp, target, e) \in 1..target
           /\ ConcurrencyAt(ramp, target, f) \in 1..target
           /\ ConcurrencyAt(ramp, target, e) <= ConcurrencyAt(ramp, target, f)
           /\ ramp.up <= 0 \/ e >= ramp.up => ConcurrencyAt(ramp, target, e) = target
  <1>0. target \in Nat /\ target >= 1 /\ ramp.up \in Int /\ ramp.start \in Int
        /\ ramp.start <= target
      BY DEF RampSane
  <1>1. PICK n \in Int : n = ramp.up
      BY <1>0
  <1>2. PICK start \in Nat :
            start = (IF ramp.start < 1 THEN 1 ELSE ramp.start) /\ start >= 1 /\ start <= target
      BY <1>0
  <1> DEFINE Mid(x) == Clamp(RoundDiv(start * n + (target - start) * x, n), 1, target)
  <1>3. \A x \in Int : ConcurrencyAt(ramp, target, x) =
            IF n <= 0 THEN target ELSE IF x <= 0 THEN start ELSE IF x >= n THEN target ELSE Mid(x)
      BY <1>1, <1>2 DEF ConcurrencyAt
  <1>4. CASE n <= 0
      BY <1>0, <1>1, <1>3, <1>4
  <1>5. CASE n > 0
    <2>0. n \in Nat
      BY <1>5
    <2>1. \A x, y \in Int : x <= y /\ x >= 0 =>
              /\ Mid(x) \in start..target /\ Mid(y) \in start..target /\ Mid(x) <= Mid(y)
      <3> SUFFICES ASSUME NEW x \in Int, NEW y \in Int, x <= y, x >= 0
                   PROVE  /\ Mid(x) \in start..target /\ Mid(y) \in start..target
                          /\ Mid(x) <= Mid(y)
          OBVIOUS
      <3>1. PICK c \in Nat : c = target - start
          BY <1>0, <1>2
      <3>2. c * 0 <= c * x /\ c * x <= c * y /\ c * 0 = 0 /\ c * x \in Int /\ c * y \in Int
          BY MulMono
      <3>3. PICK k \in Int : k = start * n
          BY <2>0
      <3>4. k <= k + c * x /\ k + c * x <= k + c * y
          BY <3>2
      <3>5. RoundDiv(k, n) = start
          BY <1>5, <2>0, <3>3, RoundFacts
      <3>6. PICK a \in Int : a = RoundDiv(k + c * x, n) /\ start <= a
        <4>1. k + c * x \in Int
            BY <3>2
        <4> QED
            BY <1>5, <2>0, <3>4, <3>5, <4>1, RoundFacts
      <3>7. PICK b \in Int : b = RoundDiv(k + c * y, n) /\ a <= b
        <4>1. k + c * x \in Int /\ k + c * y \in Int
            BY <3>2
        <4> QED
            BY <1>5, <2>0, <3>4, <3>6, <4>1, RoundFacts
      <3>8. Mid(x) = Clamp(a, 1, target) /\ Mid(y) = Clamp(b, 1, target)
          BY <3>1, <3>3, <3>6, <3>7
      <3> HIDE DEF Mid
      <3> QED
          BY <1>0, <1>2, <3>6, <3>7, <3>8 DEF Clamp
    <2> HIDE DEF Mid
    <2>2. \A x \in Int : ConcurrencyAt(ramp, target, x) \in start..target
      <3> TAKE x \in Int
      <3>1. CASE x <= 0 \/ x >= n
          BY <1>0, <1>2, <1>3, <1>5, <3>1
      <3>2. CASE x > 0 /\ x < n
          BY <1>3, <1>5, <2>1, <3>2
      <3> QED
          BY <3>1, <3>2
    <2>3. ConcurrencyAt(ramp, target, e) <= ConcurrencyAt(ramp, target, f)
      <3>1. CASE e <= 0 \/ f >= n
        <4>1. ConcurrencyAt(ramp, target, e) = start \/ ConcurrencyAt(ramp, target, f) = target
            BY <1>3, <1>5, <3>1
        <4> QED
            BY <1>0, <1>2, <2>2, <4>1
      <3>2. CASE e > 0 /\ f < n
        <4>1. /\ ConcurrencyAt(ramp, target, e) = Mid(e)
              /\ ConcurrencyAt(ramp, target, f) = Mid(f)
            BY <1>3, <1>5, <3>2
        <4>2. Mid(e) <= Mid(f)
            BY <2>1, <3>2
        <4> QED
            BY <4>1, <4>2
      <3> QED
          BY <3>1, <3>2
    <2>4. e >= ramp.up => ConcurrencyAt(ramp, target, e) = target
      BY <1>1, <1>3, <1>5
    <2> QED
      BY <1>0, <1>1, <1>2, <1>5, <2>2, <2>3, <2>4
  <1> QED
      BY <1>4, <1>5

-----------------------------------------------------------------------------
(* The distributions.                                                      *)

(* A compiled distribution draws waits, within the bounds it states.       *)
LEMMA DistFacts ==
    ASSUME NEW r, DistTyped(r), DistOK(r)
    PROVE  Samples(r) \subseteq Nat /\ DistSane(r)
  <1>1. CASE r.kind = "constant"
    <2>1. r.d \in Nat /\ Samples(r) = {NonNeg(r.d)}
      BY <1>1 DEF DistTyped, DistOK, DurAtLeast, HasDur, Missing, Samples
    <2> QED
      BY <1>1, <2>1 DEF NonNeg, DistSane
  <1>2. CASE r.kind = "uniform"
    <2>1. r.min \in Nat /\ r.max \in Nat /\ r.min <= r.max
      BY <1>2 DEF DistTyped, DistOK, DurAtLeast, HasDur
    <2>2. Samples(r) = IF r.max <= r.min THEN {NonNeg(r.min)}
                       ELSE {NonNeg(d) : d \in r.min..(r.max - 1)}
      BY <1>2 DEF Samples
    <2>3. \A d \in Samples(r) : d \in Nat /\ d \in r.min..r.max
      BY <2>1, <2>2 DEF NonNeg
    <2> QED
      BY <1>2, <2>3 DEF DistSane
  <1>3. CASE r.kind = "normal"
    <2>1. r.min \in Nat /\ r.max \in Nat /\ r.min <= r.max /\ r.mean \in Int /\ r.stddev \in Int
      BY <1>3 DEF DistTyped, DistOK, DurAtLeast, HasDur
    <2>2. Samples(r) =
            {LET d == r.mean + z * r.stddev
                 up == IF d < r.min THEN r.min ELSE d
             IN  NonNeg(IF up > r.max THEN r.max ELSE up) : z \in -1..1}
      BY <1>3 DEF Samples
    <2>3. \A x \in Int : LET up == IF x < r.min THEN r.min ELSE x IN
              NonNeg(IF up > r.max THEN r.max ELSE up) \in r.min..r.max
      BY <2>1 DEF NonNeg
    <2>4. \A z \in -1..1 : r.mean + z * r.stddev \in Int
      BY <2>1
    <2>5. \A d \in Samples(r) : d \in r.min..r.max
      BY <2>2, <2>3, <2>4
    <2>6. \A d \in Samples(r) : d \in Nat
      BY <2>1, <2>5
    <2> QED
      BY <1>3, <2>5, <2>6 DEF DistSane
  <1>4. CASE r.kind = "lognormal"
    <2>1. r.scale \in Nat /\ r.sigma \in Nat
      BY <1>4 DEF DistTyped, DistOK, DurAtLeast, HasDur
    <2>2. Samples(r) = {(IF r.scale = 0 THEN 1 ELSE r.scale) * (1 + s) : s \in 0..r.sigma}
      BY <1>4 DEF Samples
    <2>3. PICK k \in Nat : k = IF r.scale = 0 THEN 1 ELSE r.scale
      BY <2>1
    <2>4. \A s \in 0..r.sigma : k * (1 + s) \in Nat
      <3> TAKE s \in 0..r.sigma
      <3>1. 0 <= 1 + s /\ 1 + s \in Int
          BY <2>1
      <3>2. k * 0 <= k * (1 + s) /\ k * (1 + s) \in Int /\ k * 0 = 0
          BY <3>1, MulMono
      <3> QED
          BY <3>2
    <2>5. Samples(r) \subseteq Nat
      BY <2>2, <2>3, <2>4
    <2> QED
      BY <1>4, <2>5 DEF DistSane
  <1>5. CASE r.kind = "exponential"
    <2>1. r.mean \in Nat
      BY <1>5 DEF DistTyped, DistOK, DurAtLeast, HasDur
    <2>2. Samples(r) = {x * r.mean : x \in 0..1}
      BY <1>5 DEF Samples
    <2>3. \A x \in 0..1 : x * r.mean \in Nat
      BY <2>1
    <2>4. Samples(r) \subseteq Nat
      BY <2>2, <2>3
    <2> QED
      BY <1>5, <2>4 DEF DistSane
  <1> QED
      BY <1>1, <1>2, <1>3, <1>4, <1>5 DEF DistOK

-----------------------------------------------------------------------------
(* What Validate accepts.                                                  *)

(* A persona whose draws are waits within their bounds.                    *)
PersonaSane(p) ==
    /\ DistSane(p.think_time) /\ DistSane(p.length)
    /\ \/ p.burst.active.kind = ""
       \/ /\ DistSane(p.burst.active) /\ Samples(p.burst.active) \subseteq Nat
          /\ DistSane(p.burst.idle) /\ Samples(p.burst.idle) \subseteq Nat

(* A block the engine can run.                                             *)
BlockSane(b) == RampSane(b.ramp, b.concurrency) /\ PersonaSane(b.persona)

(* The embedded personas are sound.                                        *)
LEMMA BuiltinSane ==
    ASSUME NEW p \in Builtins
    PROVE  PersonaSane(p)
  <1> DEFINE Logn == [kind |-> "lognormal", scale |-> 1, sigma |-> 1]
             Expo == [kind |-> "exponential", mean |-> 2]
             Norm == [kind |-> "normal", mean |-> 6, stddev |-> 2, min |-> 5, max |-> 8]
  <1>1. PICK name, protos : p = Builtin(name, protos)
      BY DEF Builtins
  <1>2. p.think_time = Logn /\ p.length = Norm /\ p.burst.active = Expo /\ p.burst.idle = Logn
      BY <1>1 DEF Builtin
  <1>3. DistTyped(Logn) /\ DistOK(Logn)
      BY DEF DistTyped, DistOK, DurAtLeast, HasDur, Missing
  <1>4. DistTyped(Expo) /\ DistOK(Expo)
      BY DEF DistTyped, DistOK, DurAtLeast, HasDur, Missing
  <1>5. DistTyped(Norm) /\ DistOK(Norm)
      BY DEF DistTyped, DistOK, DurAtLeast, HasDur, Missing
  <1> HIDE DEF Logn, Expo, Norm
  <1> QED
      BY <1>2, <1>3, <1>4, <1>5, DistFacts DEF PersonaSane

(* So are those of a file that compile.                                    *)
LEMMA CustomSane ==
    ASSUME NEW f, FileTyped(f), NEW i \in DOMAIN f.persona, PersonaErrors(f.persona[i]) = {}
    PROVE  PersonaSane(f.persona[i])
  <1> DEFINE p == f.persona[i]
  <1>1. /\ "think_time" \in DOMAIN p /\ "burst" \in DOMAIN p /\ "length" \in DOMAIN p
        /\ DistTyped(p.think_time) /\ DistTyped(p.length)
        /\ DistTyped(p.burst.active) /\ DistTyped(p.burst.idle)
    <2>1. "persona" \in Sections /\ Fields("persona") = {"name", "think_time", "burst", "length"}
      BY DEF Sections, Fields
    <2>2. /\ Fields("persona") \subseteq DOMAIN p
          /\ \A k \in DOMAIN p : FieldTyped("persona", k, p[k])
      BY <2>1 DEF FileTyped
    <2>3. "think_time" \in DOMAIN p /\ "burst" \in DOMAIN p /\ "length" \in DOMAIN p
      BY <2>1, <2>2
    <2>4. DistTyped(p.think_time) /\ DistTyped(p.length)
      BY <2>2, <2>3 DEF FieldTyped
    <2>5. DistTyped(p.burst.active) /\ DistTyped(p.burst.idle)
      BY <2>2, <2>3 DEF FieldTyped
    <2> QED
      BY <2>3, <2>4, <2>5
  <1>2. DistOK(p.think_time) /\ BurstOK(p.burst) /\ OptionalDistOK(p.length)
      BY <1>1 DEF PersonaErrors
  <1> HIDE DEF p
  <1>3. DistSane(p.length)
      BY <1>1, <1>2, DistFacts DEF OptionalDistOK, DistSane
  <1>4. DistSane(p.think_time)
      BY <1>1, <1>2, DistFacts
  <1>5. \/ p.burst.active.kind = ""
        \/ /\ DistSane(p.burst.active) /\ Samples(p.burst.active) \subseteq Nat
           /\ DistSane(p.burst.idle) /\ Samples(p.burst.idle) \subseteq Nat
      BY <1>1, <1>2, DistFacts DEF BurstOK
  <1>6. PersonaSane(p)
      BY <1>3, <1>4, <1>5 DEF PersonaSane
  <1> QED
      BY <1>6 DEF p

(* A name that resolves resolves to one of them.                           *)
LEMMA PersonaOfSane ==
    ASSUME NEW f, FileTyped(f), NEW name, Resolves(f, name)
    PROVE  PersonaSane(PersonaOf(f, name))
  <1> DEFINE own == {i \in DOMAIN f.persona :
                        PersonaErrors(f.persona[i]) = {} /\ f.persona[i].name = name}
  <1>1. CASE own # {}
    <2>1. PICK n \in DOMAIN f.persona \cup {0} : DOMAIN f.persona = 1..n
      <3>1. "persona" \in Sections
          BY DEF Sections
      <3>2. \E n \in DOMAIN f["persona"] \cup {0} : DOMAIN f["persona"] = 1..n
          BY <3>1, Zenon DEF FileTyped
      <3> QED
          BY <3>2
    <2>2. n \in Nat
      BY <2>1
    <2>3. own \in SUBSET (0..n)
      BY <2>1, <2>2
    <2>4. \E i \in own : \A j \in own : j <= i
      BY <1>1, <2>2, <2>3, GreatestNat
    <2> DEFINE c == CHOOSE i \in own : \A j \in own : j <= i
    <2>5. c \in own
      BY <2>4
    <2>6. PersonaOf(f, name) = f.persona[c]
      BY <1>1 DEF PersonaOf
    <2> HIDE DEF c
    <2> QED
      BY <2>5, <2>6, CustomSane
  <1>2. CASE own = {}
    <2>1. \E b \in Builtins : b.name = name
      BY <1>2 DEF Resolves
    <2>2. PersonaOf(f, name) = CHOOSE b \in Builtins : b.name = name
      BY <1>2 DEF PersonaOf
    <2>3. PersonaOf(f, name) \in Builtins
      BY <2>1, <2>2
    <2> QED
      BY <2>3, BuiltinSane
  <1> QED
      BY <1>1, <1>2

(* A time of day that parses lies within the day.                          *)
LEMMA HHMMFacts ==
    ASSUME NEW hm, ParsesHHMM(hm)
    PROVE  HHMM(hm) \in Nat /\ HHMM(hm) < DayLen
  <1>1. DayHours \in Nat /\ HourMinutes \in Nat /\ DayLen = DayHours * HourMinutes
      BY StartupAssumption
  <1>2. PICK h \in 0..(DayHours - 1), m \in 0..(HourMinutes - 1) : hm[1] = h /\ hm[2] = m
      BY DEF ParsesHHMM
  <1>3. HHMM(hm) = HourMinutes * h + m /\ DayLen = HourMinutes * DayHours
      BY <1>1, <1>2 DEF HHMM
  <1>4. HourMinutes * (h + 1) <= HourMinutes * DayHours /\ HourMinutes * 0 <= HourMinutes * h
      BY <1>1, MulMono
  <1>5. HourMinutes * (h + 1) = HourMinutes * h + HourMinutes /\ HourMinutes * h \in Int
        /\ HourMinutes * 0 = 0 /\ HourMinutes * DayHours \in Int
      BY <1>1
  <1> QED
      BY <1>1, <1>2, <1>3, <1>4, <1>5

(* The ceiling shipped with the program.                                   *)
LEMMA CeilingFacts ==
    /\ \A c \in CapFields : DefaultCeiling[c] \in Nat /\ DefaultCeiling[c] >= 1
    /\ \A c \in RateCaps : DefaultCeiling[c] >= 10000
  BY DEF DefaultCeiling, CapFields, RateCaps, CountCaps, SessionCaps

(* An agent's share of a cap, over the whole fleet, is within the ceiling, *)
(* or it is the floor of one and the agents outnumber the cap.             *)
LEMMA ShareFacts ==
    ASSUME NEW n \in Int, NEW c \in CapFields
    PROVE  /\ DividedBy(DefaultCeiling, n)[c] \in Nat
           /\ n <= 10000 => DividedBy(DefaultCeiling, n)[c] >= 1
           /\ \A v \in Nat : v <= DividedBy(DefaultCeiling, n)[c] => v = 0 \/ WithinFleet(n, c, v)
  <1>1. PICK a \in Nat : a = Agents(n) /\ a >= 1 /\ (n <= 10000 => a <= 10000)
      BY DEF Agents, FloorAtOne
  <1>2. PICK d \in Nat : d = DefaultCeiling[c] /\ d >= 1
      BY CeilingFacts
  <1>3. PICK q \in Int, r \in 0..(a - 1) : d \div a = q /\ d % a = r /\ d = a * q + r
    <2>1. a > 0 /\ d \in Int
      BY <1>1, <1>2
    <2> QED
      BY <2>1, DivMod
  <1>4. q \in Nat
    <2> SUFFICES ASSUME q <= -1 PROVE FALSE
      BY <1>3
    <2>1. a * q <= a * (-1) /\ a * q \in Int
      BY MulMono
    <2> QED
      BY <1>1, <1>2, <1>3, <2>1
  <1>5. a * q <= d
      BY <1>2, <1>3, <1>4
  <1>6. d >= 10000 /\ a <= 10000 => q >= 1
    <2> SUFFICES ASSUME d >= 10000, a <= 10000, q = 0 PROVE FALSE
      BY <1>4
    <2> QED
      BY <1>1, <1>3
  <1>7. DividedBy(DefaultCeiling, n)[c] =
            IF c \in SessionCaps THEN d
            ELSE IF c \in RateCaps THEN q ELSE FloorAtOne(q)
    <2>1. d \div Agents(n) = q
      BY <1>1, <1>3
    <2>2. DividedBy(DefaultCeiling, n)[c] =
            IF c \in SessionCaps THEN d
            ELSE IF c \in RateCaps THEN d \div Agents(n) ELSE FloorAtOne(d \div Agents(n))
      BY <1>2, Zenon DEF DividedBy
    <2> QED
      BY <2>1, <2>2, Zenon
  <1>8. \A v \in Nat : v <= q => a * v <= d
    <2> TAKE v \in Nat
    <2> HAVE v <= q
    <2>1. a * v <= a * q /\ a * v \in Int /\ a * q \in Int
      BY <1>4, MulMono
    <2> QED
      BY <1>2, <1>5, <2>1
  <1>9. DividedBy(DefaultCeiling, n)[c] \in Nat
      BY <1>2, <1>4, <1>7 DEF FloorAtOne
  <1>10. CASE c \in SessionCaps
      BY <1>2, <1>7, <1>9, <1>10 DEF WithinFleet
  <1>11. CASE c \in RateCaps /\ c \notin SessionCaps
    <2>1. DividedBy(DefaultCeiling, n)[c] = q /\ d >= 10000
      BY <1>2, <1>7, <1>11, CeilingFacts
    <2> QED
      BY <1>1, <1>2, <1>4, <1>6, <1>8, <1>11, <2>1 DEF WithinFleet
  <1>12. CASE c \in CountCaps /\ c \notin SessionCaps /\ c \notin RateCaps
    <2>1. DividedBy(DefaultCeiling, n)[c] = IF q < 1 THEN 1 ELSE q
      BY <1>7, <1>12 DEF FloorAtOne
    <2>2. q = 0 => a > d
      BY <1>1, <1>2, <1>3
    <2>3. ASSUME NEW v \in Nat, v <= DividedBy(DefaultCeiling, n)[c], v # 0
          PROVE  WithinFleet(n, c, v)
      <3>1. CASE q = 0
        BY <1>1, <1>2, <1>12, <2>1, <2>2, <2>3, <3>1 DEF WithinFleet
      <3>2. CASE q # 0
        BY <1>1, <1>2, <1>4, <1>8, <1>12, <2>1, <2>3, <3>2 DEF WithinFleet
      <3> QED
        BY <3>1, <3>2
    <2> QED
      BY <1>4, <1>9, <2>1, <2>3
  <1> QED
      BY <1>10, <1>11, <1>12 DEF CapFields

(* A file without errors passes every rule.                                *)
LEMMA NoErrors ==
    ASSUME NEW f, NEW o, FileErrors(f, o) = {}
    PROVE  /\ CapViolations(f.caps[1], AgentCeiling(o), o.cap_override) = {}
           /\ \A i \in DOMAIN f.block :
                 BlockErrors(f, o, i, Effective(f.caps[1], AgentCeiling(o))["max_concurrent_sessions"])
                    = {}
           /\ \A i \in DOMAIN f.window : WindowErrors(f.window[i]) = {}
  <1> DEFINE most == Effective(f.caps[1], AgentCeiling(o))["max_concurrent_sessions"]
             Cap == CapViolations(f.caps[1], AgentCeiling(o), o.cap_override)
             InTop == {<<"top", 1, k>> : k \in TopErrors(f)}
             NoBlocks == IF f.block = <<>> THEN {<<"top", 1, "scenarios">>} ELSE {}
             InCaps == {<<"caps", 1, k>> : k \in Cap}
             InPersona(i) == {<<"persona", i, k>> : k \in PersonaErrors(f.persona[i])}
             InBlock(i) == {<<"block", i, k>> : k \in BlockErrors(f, o, i, most)}
             InWindow(i) == {<<"window", i, k>> : k \in WindowErrors(f.window[i])}
             Personas == UNION {InPersona(i) : i \in DOMAIN f.persona}
             Blocks == UNION {InBlock(i) : i \in DOMAIN f.block}
             Windows == UNION {InWindow(i) : i \in DOMAIN f.window}
  <1>1. FileErrors(f, o) = InTop \cup NoBlocks \cup InCaps \cup Personas \cup Blocks \cup Windows
      BY DEF FileErrors
  <1>2. /\ \A k \in Cap : <<"caps", 1, k>> \in InCaps
        /\ \A i : \A k \in BlockErrors(f, o, i, most) : <<"block", i, k>> \in InBlock(i)
        /\ \A i : \A k \in WindowErrors(f.window[i]) : <<"window", i, k>> \in InWindow(i)
      OBVIOUS
  <1> HIDE DEF InTop, NoBlocks, InCaps, InPersona, InBlock, InWindow
  <1>3. /\ \A i \in DOMAIN f.block : InBlock(i) \subseteq Blocks
        /\ \A i \in DOMAIN f.window : InWindow(i) \subseteq Windows
      OBVIOUS
  <1> HIDE DEF Personas, Blocks, Windows
  <1>4. InCaps = {} /\ Blocks = {} /\ Windows = {}
      BY <1>1
  <1>5. \A i \in DOMAIN f.block : \A x : x \notin InBlock(i)
      BY <1>3, <1>4
  <1>6. \A i \in DOMAIN f.window : \A x : x \notin InWindow(i)
      BY <1>3, <1>4
  <1> QED
      BY <1>2, <1>4, <1>5, <1>6

(* The types of the fields of a section.                                   *)
LEMMA Typed ==
    ASSUME NEW f, FileTyped(f), NEW s \in Sections, NEW i \in DOMAIN f[s],
           NEW k \in Fields(s)
    PROVE  k \in DOMAIN f[s][i] /\ FieldTyped(s, k, f[s][i][k])
  <1>1. Fields(s) \subseteq DOMAIN f[s][i]
      BY DEF FileTyped
  <1>2. \A j \in DOMAIN f[s][i] : FieldTyped(s, j, f[s][i][j])
      BY DEF FileTyped
  <1> QED
      BY <1>1, <1>2

(* A cap in force is a NaN rate of the file, or a number; a positive one   *)
(* in a fleet small enough, and within its ceiling without the override.   *)
LEMMA CapFacts ==
    ASSUME NEW f, FileTyped(f), NEW o, o.agents \in Int, FileErrors(f, o) = {},
           NEW c \in CapFields
    PROVE  LET cap == Effective(f.caps[1], AgentCeiling(o))[c] IN
           \/ c \in RateCaps /\ cap = NaN /\ f.caps[1][c] = NaN
           \/ /\ cap \in Nat
              /\ o.agents <= 10000 => cap > 0
              /\ cap = 0 \/ o.cap_override \/ WithinFleet(o.agents, c, cap)
  <1>1. PICK d : d = f.caps[1][c]
      OBVIOUS
  <1>2. d \in Int \/ (c \in RateCaps /\ d = NaN)
    <2>1. "caps" \in Sections /\ c \in Fields("caps") /\ 1 \in DOMAIN f["caps"]
      BY DEF Sections, Fields, FileTyped
    <2>2. FieldTyped("caps", c, f["caps"][1][c])
      BY <2>1, Typed
    <2> QED
      BY <1>1, <2>2 DEF FieldTyped
  <1>3. PICK s \in Nat : s = DividedBy(DefaultCeiling, o.agents)[c]
      BY ShareFacts
  <1>4. PICK cap : /\ cap = Effective(f.caps[1], AgentCeiling(o))[c]
                   /\ cap = IF d = 0 THEN s ELSE d
    <2>1. Effective(f.caps[1], AgentCeiling(o))[c] = IF d = 0 THEN s ELSE d
      BY <1>1, <1>3, Zenon DEF Effective, AgentCeiling
    <2> QED
      BY <2>1
  <1>5. CASE c \in RateCaps /\ d = NaN
      BY <1>1, <1>4, <1>5, CapsAssumption
  <1>6. CASE d \in Int
    <2>1. CapViolations(f.caps[1], AgentCeiling(o), o.cap_override) = {}
      BY NoErrors
    <2>2. d # NaN
      BY <1>6, CapsAssumption
    <2>3. d >= 0 /\ (o.cap_override \/ d <= s)
      BY <1>1, <1>3, <1>6, <2>1, <2>2 DEF CapViolations, AgentCeiling
    <2>4. cap \in Nat /\ (o.cap_override \/ cap <= s) /\ (cap = 0 => s = 0)
      BY <1>4, <1>6, <2>3
    <2>5. /\ o.agents <= 10000 => s >= 1
          /\ \A v \in Nat : v <= s => v = 0 \/ WithinFleet(o.agents, c, v)
      BY <1>3, ShareFacts
    <2>6. cap = 0 \/ o.cap_override \/ WithinFleet(o.agents, c, cap)
      BY <2>4, <2>5
    <2>7. o.agents <= 10000 => cap > 0
      BY <2>4, <2>5
    <2> QED
      BY <1>4, <2>4, <2>6, <2>7
  <1> QED
      BY <1>2, <1>5, <1>6

(* The windows of a frozen schedule.                                       *)
LEMMA WindowFacts ==
    ASSUME NEW f, FileTyped(f), NEW o, FileErrors(f, o) = {}
    PROVE  /\ WindowsSane(Frozen(f, o).windows)
           /\ \A i \in DOMAIN Frozen(f, o).windows : Frozen(f, o).windows[i].days # {}
  <1> DEFINE ws == Frozen(f, o).windows
  <1>1. /\ DOMAIN ws = DOMAIN f.window
        /\ \A i \in DOMAIN f.window :
              ws[i] = [days |-> f.window[i].days,
                       start |-> HHMM(f.window[i].start), end |-> HHMM(f.window[i].end)]
      BY DEF Frozen
  <1> HIDE DEF ws
  <1>2. ASSUME NEW i \in DOMAIN f.window
        PROVE  /\ ws[i].days # {} /\ ws[i].start \in Nat /\ ws[i].end \in Nat
               /\ ws[i].start < ws[i].end /\ ws[i].end < DayLen
    <2>1. PICK w : w = f.window[i]
      OBVIOUS
    <2>2. "days" \in DOMAIN w /\ "start" \in DOMAIN w /\ "end" \in DOMAIN w
      <3>1. "window" \in Sections /\ i \in DOMAIN f["window"]
            /\ "days" \in Fields("window") /\ "start" \in Fields("window") /\ "end" \in Fields("window")
          BY DEF Sections, Fields
      <3> QED
          BY <2>1, <3>1, Typed
    <2>3. WindowErrors(w) = {}
      BY <2>1, NoErrors
    <2>4. w.days # {} /\ ParsesHHMM(w.start) /\ ParsesHHMM(w.end) /\ ~(HHMM(w.end) <= HHMM(w.start))
      BY <2>2, <2>3 DEF WindowErrors
    <2>5. /\ HHMM(w.start) \in Nat /\ HHMM(w.end) \in Nat /\ HHMM(w.end) < DayLen
      BY <2>4, HHMMFacts
    <2>6. /\ ws[i].days = w.days /\ ws[i].start = HHMM(w.start) /\ ws[i].end = HHMM(w.end)
      <3>1. PICK s, e : s = HHMM(w.start) /\ e = HHMM(w.end)
          OBVIOUS
      <3>2. ws[i] = [days |-> w.days, start |-> s, end |-> e]
          BY <1>1, <2>1, <3>1
      <3> QED
          BY <3>1, <3>2
    <2> QED
      BY <2>4, <2>5, <2>6, StartupAssumption
  <1>3. WindowsSane(ws) /\ \A i \in DOMAIN ws : ws[i].days # {}
      BY <1>1, <1>2 DEF WindowsSane
  <1> QED
      BY <1>3 DEF ws

(* The blocks of a frozen scenario.                                        *)
LEMMA BlockFacts ==
    ASSUME NEW f, FileTyped(f), NEW o, o.agents \in Int, FileErrors(f, o) = {},
           NEW i \in DOMAIN f.block
    PROVE  /\ BlockSane(Block(f, i))
           /\ Block(f, i).concurrency <=
                 Effective(f.caps[1], AgentCeiling(o))["max_concurrent_sessions"]
           /\ Block(f, i).insecure => o.allow_insecure
  <1>1. PICK most \in Nat : most = Effective(f.caps[1], AgentCeiling(o))["max_concurrent_sessions"]
    <2>1. "max_concurrent_sessions" \in CapFields \ RateCaps
      BY DEF CapFields, CountCaps, RateCaps
    <2> QED
      BY <2>1, CapFacts
  <1>2. PICK b : b = f.block[i]
      OBVIOUS
  <1>3. BlockErrors(f, o, i, most) = {}
      BY <1>1, NoErrors
  <1>4. /\ \A k \in {"concurrency", "start_concurrency", "up_seconds", "allow_insecure", "persona"} :
              k \in DOMAIN b
        /\ b.up_seconds \in Int /\ b.ramp \in BOOLEAN /\ b.allow_insecure \in BOOLEAN
    <2>1. "block" \in Sections /\ i \in DOMAIN f["block"]
          /\ Fields("block") = {"concurrency", "start_concurrency", "up_seconds", "ramp",
                                "allow_insecure", "persona"}
      BY DEF Sections, Fields
    <2>2. \A k \in Fields("block") : k \in DOMAIN b /\ FieldTyped("block", k, b[k])
      BY <1>2, <2>1, Typed
    <2>3. FieldTyped("block", "up_seconds", b.up_seconds) /\ FieldTyped("block", "ramp", b.ramp)
          /\ FieldTyped("block", "allow_insecure", b.allow_insecure)
      BY <2>1, <2>2
    <2>4. b.up_seconds \in Int /\ b.ramp \in BOOLEAN /\ b.allow_insecure \in BOOLEAN
      BY <2>3 DEF FieldTyped
    <2> QED
      BY <2>1, <2>2, <2>4
  <1>5. /\ Resolves(f, PersonaName(b)) /\ Concurrency(b) \in 1..most
        /\ b.ramp => StartConcurrency(b) \in 1..Concurrency(b)
        /\ b.allow_insecure => o.allow_insecure
      BY <1>2, <1>3, <1>4 DEF BlockErrors
  <1>6. PICK c \in Nat : c = Concurrency(b) /\ c >= 1 /\ c <= most
      BY <1>5
  <1>7. RampUp(b) \in Int
    <2>1. PICK x \in Int : x = b.up_seconds * Second
      BY <1>4, StartupAssumption
    <2>2. IntRange \in Nat /\ IntRange > 0 /\ 2 * IntRange \in Nat /\ 2 * IntRange > 0
      BY StartupAssumption
    <2>3. (x + IntRange) % (2 * IntRange) \in Int
      BY <2>2, DivMod
    <2> QED
      BY <2>1, <2>2, <2>3 DEF RampUp, Wrap
  <1>8. PICK p : p = PersonaOf(f, PersonaName(b)) /\ PersonaSane(p)
      BY <1>5, PersonaOfSane
  <1>9. PICK g : g = Block(f, i)
      OBVIOUS
  <1>10. /\ g.concurrency = c /\ g.insecure = b.allow_insecure
         /\ g.persona.think_time = p.think_time /\ g.persona.burst = p.burst
         /\ g.persona.length = p.length
      BY <1>2, <1>6, <1>8, <1>9 DEF Block
  <1>11. g.ramp = IF b.ramp THEN [up |-> RampUp(b), start |-> StartConcurrency(b)]
                            ELSE [up |-> 0, start |-> 0]
      BY <1>2, <1>9 DEF Block
  <1>12. g.ramp.up \in Int /\ g.ramp.start \in Int /\ g.ramp.start <= c
    <2>1. CASE b.ramp
      <3>1. StartConcurrency(b) \in 1..c
          BY <1>5, <1>6, <2>1
      <3> QED
          BY <1>6, <1>7, <1>11, <2>1, <3>1
    <2>2. CASE ~b.ramp
      BY <1>6, <1>11, <2>2
    <2> QED
      BY <2>1, <2>2
  <1>13. RampSane(g.ramp, g.concurrency)
      BY <1>6, <1>10, <1>12 DEF RampSane
  <1>14. PersonaSane(g.persona)
      BY <1>8, <1>10 DEF PersonaSane
  <1> QED
      BY <1>1, <1>5, <1>6, <1>9, <1>10, <1>13, <1>14 DEF BlockSane

-----------------------------------------------------------------------------
(* The invariant.                                                          *)

(* The marker of a block that was not launched is no block.                *)
NoBlockApart == \A b : View(b) # NoBlock

(* Until the launch: the file keeps its types through every repair, and a  *)
(* scenario is what the file at hand freezes to, which has no error.       *)
Configured ==
    block = NoBlock =>
        /\ FileTyped(file) /\ Repairable(file) /\ opts \in Invocations
        /\ errors # {} => scenario = NoScenario
        /\ scenario # NoScenario => FileErrors(file, opts) = {} /\ scenario = Frozen(file, opts)

(* Until the launch no goroutine runs.                                     *)
Unstarted ==
    block = NoBlock =>
        /\ sched = "done" /\ gov = "left" /\ windows = <<>> /\ ~patched
        /\ \A v \in VUsers : pc[v] = "done" /\ burst[v] = Fresh

(* From then on there is no scenario, and the block and its windows are as *)
(* Validate let them through.                                              *)
Launched ==
    block # NoBlock => scenario = NoScenario /\ BlockSane(block) /\ WindowsSane(windows)

(* The clock, and the functions of the goroutines.                         *)
Phases == [started : BOOLEAN, idle : BOOLEAN, end : Int]
Clocked ==
    /\ now \in Nat /\ deadline = [g \in Goroutines |-> deadline[g]]
    /\ pc = [v \in VUsers |-> pc[v]] /\ plan = [v \in VUsers |-> plan[v]]
    /\ wait = [v \in VUsers |-> wait[v]] /\ burst \in [VUsers -> Phases]

(* The gate and the plan are those of the instant the scheduler has read,  *)
(* which is in the past.                                                   *)
Planned == gate = Active(windows, readAt) /\ planned = NextTransition(windows, readAt)
Scheduled ==
    /\ readAt \in Nat /\ readAt <= now
    /\ sched = "asleep" => Planned /\ planned # Never
    /\ sched = "done" /\ ~cancelled /\ windows # <<>> => Planned /\ planned = Never

(* An unpatched limit is what the ramp allowed at some earlier instant.    *)
Ramped ==
    block # NoBlock /\ ~patched =>
        /\ gov = "start" => limit = ConcurrencyAt(block.ramp, block.concurrency, 0)
        /\ gov # "start" =>
              /\ govStart \in Nat /\ govStart <= now
              /\ \E e \in 0..(now - govStart) :
                    limit = ConcurrencyAt(block.ramp, block.concurrency, e)
        /\ gov = "arrived" => limit = block.concurrency

(* In a trough a vuser is gone, or its wait, begun or not, outlasts the    *)
(* trough and leads to no action.                                          *)
Resting(v) ==
    \/ pc[v] = "done"
    \/ /\ pc[v] = "gate" /\ plan[v] = NoTarget
       /\ wait[v] \in Int /\ now + wait[v] >= burst[v].end
    \/ /\ pc[v] = "asleep" /\ plan[v] = NoTarget
       /\ v \notin fired /\ deadline[v] # Idle
       /\ deadline[v] \in Int /\ deadline[v] >= burst[v].end
Troughs == \A v \in VUsers : burst[v].idle /\ now < burst[v].end => Resting(v)

(* The inductive invariant.                                                *)
StartupInv == /\ Configured /\ Unstarted /\ Launched /\ Clocked
              /\ Scheduled /\ Ramped /\ Troughs

-----------------------------------------------------------------------------
(* The steps.                                                              *)

(* A file whose reported fields are repaired, as Repair does it.           *)
Repaired(f, errs) ==
    [s \in DOMAIN f |-> [i \in DOMAIN f[s] |-> [k \in DOMAIN f[s][i] |->
        IF <<s, i, k>> \in errs THEN Sound[s][i][k] ELSE f[s][i][k]]]]

(* A repair keeps the types of a file.                                     *)
LEMMA RepairKeeps ==
    ASSUME NEW f, FileTyped(f), Repairable(f), NEW errs
    PROVE  FileTyped(Repaired(f, errs)) /\ Repairable(Repaired(f, errs))
  <1> DEFINE g == Repaired(f, errs)
  <1>1. DOMAIN f = Sections /\ DOMAIN g = Sections
      BY DEF FileTyped, Repaired
  <1>2. \A s \in Sections : g[s] = [i \in DOMAIN f[s] |-> [k \in DOMAIN f[s][i] |->
              IF <<s, i, k>> \in errs THEN Sound[s][i][k] ELSE f[s][i][k]]]
      BY <1>1 DEF Repaired
  <1> HIDE DEF g
  <1>3. \A s \in Sections :
            /\ DOMAIN g[s] = DOMAIN f[s]
            /\ \A i \in DOMAIN f[s] :
                  /\ DOMAIN g[s][i] = DOMAIN f[s][i]
                  /\ \A k \in DOMAIN f[s][i] : g[s][i][k] = Sound[s][i][k] \/ g[s][i][k] = f[s][i][k]
    <2> TAKE s \in Sections
    <2>1. DOMAIN g[s] = DOMAIN f[s]
      BY <1>2
    <2>2. ASSUME NEW i \in DOMAIN f[s]
          PROVE  /\ DOMAIN g[s][i] = DOMAIN f[s][i]
                 /\ \A k \in DOMAIN f[s][i] :
                       g[s][i][k] = Sound[s][i][k] \/ g[s][i][k] = f[s][i][k]
      <3>1. g[s][i] = [k \in DOMAIN f[s][i] |->
                          IF <<s, i, k>> \in errs THEN Sound[s][i][k] ELSE f[s][i][k]]
        <4>1. g[s] = [j \in DOMAIN f[s] |-> [k \in DOMAIN f[s][j] |->
                          IF <<s, j, k>> \in errs THEN Sound[s][j][k] ELSE f[s][j][k]]]
            BY <1>2
        <4> QED
            BY <2>2, <4>1, Zenon
      <3> QED
          BY <3>1
    <2> QED
      BY <2>1, <2>2
  <1>4. ASSUME NEW s \in Sections
        PROVE  /\ \E n \in DOMAIN g[s] \cup {0} : DOMAIN g[s] = 1..n
               /\ \A i \in DOMAIN g[s] :
                     /\ Fields(s) \subseteq DOMAIN g[s][i]
                     /\ \A k \in DOMAIN g[s][i] : FieldTyped(s, k, g[s][i][k])
    <2>1. \E n \in DOMAIN f[s] \cup {0} : DOMAIN f[s] = 1..n
      BY Zenon DEF FileTyped
    <2>2. \E n \in DOMAIN g[s] \cup {0} : DOMAIN g[s] = 1..n
      BY <1>3, <2>1
    <2>3. ASSUME NEW i \in DOMAIN g[s]
          PROVE  /\ Fields(s) \subseteq DOMAIN g[s][i]
                 /\ \A k \in DOMAIN g[s][i] : FieldTyped(s, k, g[s][i][k])
      <3>1. i \in DOMAIN f[s] /\ DOMAIN g[s][i] = DOMAIN f[s][i]
          BY <1>3, <2>3
      <3>2. Fields(s) \subseteq DOMAIN f[s][i]
          BY <3>1 DEF FileTyped
      <3>3. \A k \in DOMAIN f[s][i] : FieldTyped(s, k, f[s][i][k])
          BY <3>1 DEF FileTyped
      <3>4. \A k \in DOMAIN f[s][i] : FieldTyped(s, k, Sound[s][i][k])
          BY <3>1 DEF Repairable
      <3>5. ASSUME NEW k \in DOMAIN f[s][i]
            PROVE  FieldTyped(s, k, g[s][i][k])
        <4>1. g[s][i][k] = Sound[s][i][k] \/ g[s][i][k] = f[s][i][k]
            BY <1>3, <3>1
        <4> QED
            BY <3>3, <3>4, <4>1
      <3> QED
          BY <3>1, <3>2, <3>5
    <2> QED
      BY <2>2, <2>3
  <1>5. 1 \in DOMAIN g.caps
    <2>1. "caps" \in Sections /\ 1 \in DOMAIN f["caps"]
      BY DEF Sections, FileTyped
    <2> QED
      BY <1>3, <2>1
  <1>6. FileTyped(g)
      BY <1>1, <1>4, <1>5 DEF FileTyped
  <1>7. Repairable(g)
      BY <1>3 DEF Repairable
  <1> QED
      BY <1>6, <1>7 DEF g

(* The steps of each goroutine.                                            *)
SchedStep == SchedRead \/ SchedSleep \/ SchedLeave
GovStep == GovStart \/ GovTick \/ GovLeave \/ \E n \in 1..block.concurrency : PatchLimit(n)
VUserStep(v) ==
    \/ NextDone(v) \/ PassGate(v) \/ Wake(v) \/ VUserLeave(v)
    \/ \E i \in DOMAIN block.persona.mix : NextStep(v, i)
    \/ \E o \in {"ok", "failed", "slow"} : Act(v, o)
Tick == \E d \in Steps : Advance(d)
           /\ UNCHANGED <<block, windows, cancelled, schedVars, rampVars, selVars, vuserVars>>

(* Every step of a running block is one of theirs.                         *)
LEMMA Goroutine ==
    ASSUME BlockNext, block # NoBlock
    PROVE  SchedStep \/ GovStep \/ (\E v \in VUsers : VUserStep(v)) \/ CancelBlock \/ Tick
  BY Zenon DEF BlockNext, SchedStep, GovStep, VUserStep, Tick

(* Before the launch none of them can step.                                *)
LEMMA NothingRuns ==
    ASSUME Unstarted, block = NoBlock
    PROVE  ~BlockNext
  <1>1. sched = "done" /\ gov = "left" /\ \A v \in VUsers : pc[v] = "done"
      BY DEF Unstarted
  <1>2. ~SchedRead /\ ~SchedSleep /\ ~SchedLeave /\ ~GovStart /\ ~GovTick /\ ~GovLeave
      BY <1>1 DEF SchedRead, SchedSleep, SchedLeave, GovStart, GovTick, GovLeave
  <1>3. \A v \in VUsers : ~NextDone(v) /\ ~PassGate(v) /\ ~Wake(v) /\ ~VUserLeave(v)
      BY <1>1 DEF NextDone, PassGate, Wake, VUserLeave
  <1>4. \A v \in VUsers : \A o : ~Act(v, o)
      BY <1>1 DEF Act
  <1>5. ~CancelBlock
      BY DEF CancelBlock
  <1> QED
      BY <1>2, <1>3, <1>4, <1>5, Zenon DEF BlockNext

(* What a goroutine leaves to the others: their waiters, and all but its   *)
(* own variables.                                                          *)
Waiters(g) == \A h \in Goroutines : h # g => (deadline'[h] = deadline[h] /\ (h \in fired' <=> h \in fired))

(* Registering a waiter touches no other.                                  *)
LEMMA AddKeeps ==
    ASSUME deadline = [h \in Goroutines |-> deadline[h]], NEW g, NEW d, AddWaiter(g, d)
    PROVE  deadline' = [h \in Goroutines |-> deadline'[h]] /\ now' = now /\ Waiters(g)
  <1>1. PICK e : deadline' = [deadline EXCEPT ![g] = e]
      BY DEF AddWaiter
  <1>2. now' = now /\ (fired' = fired \cup {g} \/ fired' = fired \ {g})
      BY DEF AddWaiter
  <1> QED
      BY <1>1, <1>2 DEF Waiters

(* Nor does dropping one.                                                  *)
LEMMA DropKeeps ==
    ASSUME deadline = [h \in Goroutines |-> deadline[h]], NEW g, DropWaiter(g)
    PROVE  deadline' = [h \in Goroutines |-> deadline'[h]] /\ now' = now /\ Waiters(g)
  <1>1. PICK e : deadline' = [deadline EXCEPT ![g] = e]
      BY DEF DropWaiter
  <1>2. now' = now /\ fired' = fired \ {g}
      BY DEF DropWaiter
  <1> QED
      BY <1>1, <1>2 DEF Waiters

(* The scheduler's steps.                                                  *)
LEMMA SchedFrame ==
    ASSUME Clocked, SchedStep
    PROVE  /\ UNCHANGED <<block, windows, cancelled, rampVars, selVars, vuserVars>>
           /\ deadline' = [h \in Goroutines |-> deadline'[h]] /\ now' = now /\ Waiters(Sched)
  <1>0. deadline = [h \in Goroutines |-> deadline[h]]
      BY DEF Clocked
  <1>1. UNCHANGED <<block, windows, cancelled, rampVars, selVars, vuserVars>>
      BY DEF SchedStep, SchedRead, SchedSleep, SchedLeave
  <1>2. CASE UNCHANGED clockVars
      BY <1>0, <1>1, <1>2 DEF clockVars, Waiters
  <1>3. DropWaiter(Sched) \/ (\E d : AddWaiter(Sched, d)) \/ UNCHANGED clockVars
      BY DEF SchedStep, SchedRead, SchedSleep, SchedLeave
  <1> QED
      BY <1>0, <1>1, <1>2, <1>3, AddKeeps, DropKeeps

(* The governor's, and a patch of the limit.                               *)
LEMMA GovFrame ==
    ASSUME Clocked, GovStep
    PROVE  /\ UNCHANGED <<block, windows, cancelled, schedVars, selVars, vuserVars>>
           /\ deadline' = [h \in Goroutines |-> deadline'[h]] /\ now' = now /\ Waiters(Gov)
  <1>0. deadline = [h \in Goroutines |-> deadline[h]]
      BY DEF Clocked
  <1>1. UNCHANGED <<block, windows, cancelled, schedVars, selVars, vuserVars>>
      BY DEF GovStep, GovStart, GovTick, GovLeave, PatchLimit
  <1>2. CASE UNCHANGED clockVars
      BY <1>0, <1>1, <1>2 DEF clockVars, Waiters
  <1>3. DropWaiter(Gov) \/ (\E d : AddWaiter(Gov, d)) \/ UNCHANGED clockVars
      BY DEF GovStep, GovStart, GovTick, GovLeave, PatchLimit
  <1> QED
      BY <1>0, <1>1, <1>2, <1>3, AddKeeps, DropKeeps

(* A vuser's.                                                              *)
LEMMA VUserFrame ==
    ASSUME Clocked, NEW v \in VUsers, VUserStep(v)
    PROVE  /\ UNCHANGED <<block, windows, cancelled, schedVars, rampVars>>
           /\ deadline' = [h \in Goroutines |-> deadline'[h]] /\ now' = now /\ Waiters(v)
           /\ \E p, q, w, b : /\ pc' = [pc EXCEPT ![v] = p] /\ plan' = [plan EXCEPT ![v] = q]
                              /\ wait' = [wait EXCEPT ![v] = w] /\ burst' = [burst EXCEPT ![v] = b]
  <1>0. deadline = [h \in Goroutines |-> deadline[h]]
      BY DEF Clocked
  <1>1. /\ pc = [pc EXCEPT ![v] = pc[v]] /\ plan = [plan EXCEPT ![v] = plan[v]]
        /\ wait = [wait EXCEPT ![v] = wait[v]] /\ burst = [burst EXCEPT ![v] = burst[v]]
      BY DEF Clocked
  <1>2. UNCHANGED clockVars => deadline' = [h \in Goroutines |-> deadline'[h]] /\ now' = now /\ Waiters(v)
      BY <1>0 DEF clockVars, Waiters
  <1>3. CASE NextDone(v) \/ \E o \in {"ok", "failed", "slow"} : Act(v, o)
      BY <1>1, <1>2, <1>3 DEF NextDone, Act
  <1>4. CASE PassGate(v) \/ Wake(v) \/ VUserLeave(v)
    <2>1. DropWaiter(v) \/ \E d : AddWaiter(v, d)
      BY <1>4 DEF PassGate, Wake, VUserLeave
    <2>2. deadline' = [h \in Goroutines |-> deadline'[h]] /\ now' = now /\ Waiters(v)
      BY <1>0, <2>1, AddKeeps, DropKeeps
    <2> QED
      BY <1>1, <1>4, <2>2 DEF PassGate, Wake, VUserLeave
  <1>5. ASSUME NEW i \in DOMAIN block.persona.mix, NextStep(v, i)
        PROVE  /\ UNCHANGED <<clockVars, block, windows, cancelled, schedVars, rampVars>>
               /\ \E p, q, w, b :
                     /\ pc' = [pc EXCEPT ![v] = p] /\ plan' = [plan EXCEPT ![v] = q]
                     /\ wait' = [wait EXCEPT ![v] = w] /\ burst' = [burst EXCEPT ![v] = b]
    <2>1. UNCHANGED <<clockVars, block, windows, cancelled, schedVars, rampVars>>
      BY <1>5 DEF NextStep
    <2>2. PICK w, t : Decide(v, w, t)
      BY <1>5 DEF NextStep, Shape
    <2>3. PICK b : burst' = [burst EXCEPT ![v] = b]
      BY <1>1, <1>5 DEF NextStep, Shape
    <2>4. /\ pc' = [pc EXCEPT ![v] = "gate"] /\ plan' = [plan EXCEPT ![v] = t]
          /\ wait' = [wait EXCEPT ![v] = w]
      BY <2>2 DEF Decide
    <2> QED
      BY <2>1, <2>3, <2>4, Zenon
  <1> QED
      BY <1>2, <1>3, <1>4, <1>5 DEF VUserStep

(* The clock's.                                                            *)
LEMMA TickFrame ==
    ASSUME Clocked, Tick
    PROVE  /\ UNCHANGED <<block, windows, cancelled, schedVars, rampVars, selVars, vuserVars>>
           /\ deadline' = [h \in Goroutines |-> deadline'[h]]
           /\ now' \in Nat /\ now <= now'
           /\ \A g \in Goroutines :
                 LET due == deadline[g] # Idle /\ deadline[g] <= now' IN
                 /\ g \in fired' <=> g \in fired \/ due
                 /\ deadline'[g] = IF due THEN Idle ELSE deadline[g]
  <1>1. PICK d \in Steps : Advance(d)
                /\ UNCHANGED <<block, windows, cancelled, schedVars, rampVars, selVars, vuserVars>>
      BY DEF Tick
  <1>2. now \in Nat /\ d \in Nat /\ now' = now + d
      BY <1>1, StartupAssumption DEF Clocked, Advance
  <1> DEFINE due == {g \in Goroutines : deadline[g] # Idle /\ deadline[g] <= now'}
  <1>3. /\ fired' = fired \cup due
        /\ deadline' = [g \in Goroutines |-> IF g \in due THEN Idle ELSE deadline[g]]
      BY <1>1 DEF Advance
  <1> QED
      BY <1>1, <1>2, <1>3

(* The block and its windows are those it was launched with.               *)
LEMMA BlockKeeps ==
    ASSUME Clocked, BlockNext, block # NoBlock
    PROVE  UNCHANGED <<block, windows>>
  <1>1. CASE CancelBlock
      BY <1>1 DEF CancelBlock
  <1> QED
      BY <1>1, Goroutine, SchedFrame, GovFrame, VUserFrame, TickFrame

(* What Start makes of a scenario that Validate returned.                  *)
LEMMA StartFacts ==
    ASSUME Configured, NoBlockApart, scenario # NoScenario, NEW i \in DOMAIN scenario.blocks, Start(i)
    PROVE  /\ block = NoBlock /\ block' # NoBlock /\ scenario' = NoScenario
           /\ block' = View(scenario.blocks[i]) /\ Launch(block', windows')
           /\ BlockSane(block') /\ WindowsSane(windows')
  <1>1. /\ Launch(View(scenario.blocks[i]), scenario.windows)
        /\ scenario' = NoScenario
      BY DEF Start
  <1>2. /\ block = NoBlock /\ block' = View(scenario.blocks[i]) /\ windows' = scenario.windows
      BY <1>1 DEF Launch
  <1>3. block' # NoBlock
      BY <1>2 DEF NoBlockApart
  <1>4. /\ FileTyped(file) /\ FileErrors(file, opts) = {} /\ scenario = Frozen(file, opts)
        /\ opts.agents \in Int
      BY <1>2, StartupAssumption DEF Configured
  <1>5. WindowsSane(windows')
      BY <1>2, <1>4, WindowFacts
  <1>6. i \in DOMAIN file.block /\ scenario.blocks[i] = Block(file, i)
      BY <1>4 DEF Frozen
  <1>7. PICK b : b = scenario.blocks[i] /\ BlockSane(b)
      BY <1>4, <1>6, BlockFacts
  <1>8. block'.ramp = b.ramp /\ block'.concurrency = b.concurrency /\ block'.persona = b.persona
      BY <1>2, <1>7 DEF View
  <1>9. BlockSane(block')
      BY <1>7, <1>8 DEF BlockSane
  <1> QED
      BY <1>1, <1>2, <1>3, <1>5, <1>9

(* The configuration, until the launch and after it.                       *)
LEMMA ConfigStep ==
    ASSUME StartupInv, NoBlockApart, [Next]_vars
    PROVE  Configured' /\ Unstarted' /\ Launched'
  <1>0. Configured /\ Unstarted /\ Launched /\ Clocked
      BY DEF StartupInv
  <1>1. CASE block = NoBlock /\ ConfigNext /\ UNCHANGED blockVars
    <2>1. block' = NoBlock
      BY <1>1 DEF blockVars
    <2>2. Unstarted'
      BY <1>0, <1>1 DEF Unstarted, blockVars, schedVars, rampVars, vuserVars
    <2>3. Launched'
      BY <2>1 DEF Launched
    <2>4. /\ FileTyped(file) /\ Repairable(file) /\ opts \in Invocations
          /\ errors # {} => scenario = NoScenario
          /\ scenario # NoScenario => FileErrors(file, opts) = {} /\ scenario = Frozen(file, opts)
      BY <1>0, <1>1 DEF Configured
    <2>5. CASE Validate
      <3>1. /\ file' = file /\ opts' = opts /\ errors' = FileErrors(file, opts)
            /\ scenario' = IF errors' = {} THEN Frozen(file, opts) ELSE NoScenario
          BY <2>5 DEF Validate
      <3>2. Configured'
          BY <2>4, <3>1 DEF Configured
      <3> QED
          BY <2>2, <2>3, <3>2
    <2>6. CASE Repair
      <3>1. /\ opts' = opts /\ scenario' = scenario /\ scenario = NoScenario
            /\ file' = Repaired(file, errors)
          BY <2>4, <2>6 DEF Repair, Repaired
      <3>2. FileTyped(file') /\ Repairable(file')
          BY <2>4, <3>1, RepairKeeps
      <3>3. Configured'
          BY <2>4, <3>1, <3>2 DEF Configured
      <3> QED
          BY <2>2, <2>3, <3>3
    <2> QED
      BY <1>1, <2>5, <2>6 DEF ConfigNext
  <1>2. ASSUME scenario # NoScenario, NEW i \in DOMAIN scenario.blocks, Start(i)
        PROVE  Configured' /\ Unstarted' /\ Launched'
    <2>1. block' # NoBlock /\ scenario' = NoScenario /\ BlockSane(block') /\ WindowsSane(windows')
      BY <1>0, <1>2, StartFacts
    <2> QED
      BY <2>1 DEF Configured, Unstarted, Launched
  <1>3. CASE BlockNext /\ UNCHANGED configVars
    <2>1. block # NoBlock
      BY <1>0, <1>3, NothingRuns
    <2>2. block' = block /\ windows' = windows /\ scenario' = scenario
      BY <1>0, <1>3, <2>1, BlockKeeps DEF configVars
    <2> QED
      BY <1>0, <2>1, <2>2 DEF Configured, Unstarted, Launched
  <1>4. CASE UNCHANGED vars
    <2>1. /\ UNCHANGED <<block, windows, file, opts, errors, scenario>>
          /\ UNCHANGED <<sched, gov, patched, pc, burst>>
      BY <1>4 DEF vars, configVars, blockVars, schedVars, rampVars, vuserVars
    <2> QED
      BY <1>0, <2>1 DEF Configured, Unstarted, Launched
  <1> QED
      BY <1>1, <1>2, <1>3, <1>4 DEF Next

(* The schedule, the ramp and the vusers depend on nothing a Config step   *)
(* changes.                                                                *)
LEMMA Cases ==
    ASSUME StartupInv, NoBlockApart, [Next]_vars
    PROVE  \/ UNCHANGED blockVars
           \/ block # NoBlock /\ BlockNext
           \/ /\ block = NoBlock /\ block' # NoBlock /\ Launch(block', windows')
              /\ BlockSane(block')
  <1>1. ASSUME scenario # NoScenario, NEW i \in DOMAIN scenario.blocks, Start(i)
        PROVE  block = NoBlock /\ block' # NoBlock /\ Launch(block', windows') /\ BlockSane(block')
      BY <1>1, StartFacts DEF StartupInv
  <1>2. CASE BlockNext
      BY <1>2, NothingRuns DEF StartupInv
  <1>3. UNCHANGED vars => UNCHANGED blockVars
      BY DEF vars
  <1> QED
      BY <1>1, <1>2, <1>3 DEF Next

(* What a vuser's step does to its burst, and to a trough.                 *)
LEMMA BurstStep ==
    ASSUME StartupInv, block # NoBlock, NEW v \in VUsers, VUserStep(v)
    PROVE  /\ burst' \in [VUsers -> Phases]
           /\ burst'[v].idle /\ now < burst'[v].end =>
                 \/ burst'[v] = burst[v]
                 \/ /\ pc'[v] = "gate" /\ plan'[v] = NoTarget
                    /\ wait'[v] \in Int /\ now + wait'[v] >= burst'[v].end
  <1>0. /\ now \in Nat /\ burst \in [VUsers -> Phases]
        /\ pc = [u \in VUsers |-> pc[u]] /\ plan = [u \in VUsers |-> plan[u]]
        /\ wait = [u \in VUsers |-> wait[u]] /\ PersonaSane(block.persona)
      BY DEF StartupInv, Clocked, Launched, BlockSane
  <1>1. CASE UNCHANGED burst
      BY <1>0, <1>1
  <1>2. CASE NextDone(v) \/ PassGate(v) \/ Wake(v) \/ VUserLeave(v)
               \/ \E o \in {"ok", "failed", "slow"} : Act(v, o)
    <2>1. UNCHANGED burst
      BY <1>2 DEF NextDone, PassGate, Wake, VUserLeave, Act
    <2> QED
      BY <1>1, <2>1
  <1>3. ASSUME NEW i \in DOMAIN block.persona.mix, NextStep(v, i), burst' # burst
        PROVE  /\ burst' \in [VUsers -> Phases]
               /\ burst'[v].idle /\ now < burst'[v].end =>
                     \/ burst'[v] = burst[v]
                     \/ /\ pc'[v] = "gate" /\ plan'[v] = NoTarget
                        /\ wait'[v] \in Int /\ now + wait'[v] >= burst'[v].end
    <2>1. PICK cause : Shape(v, cause) /\ cause \notin {"control", "sub-resource"}
      <3>1. PICK c : Shape(v, c)
          BY <1>3 DEF NextStep
      <3>2. c \notin {"control", "sub-resource"}
          BY <1>3, <3>1 DEF Shape
      <3> QED
          BY <3>1, <3>2
    <2>2. PICK d \in (IF Bursty THEN Dwells ELSE {[active |-> 0, idle |-> 0]}),
               t \in Samples(block.persona.think_time) :
            LET ph == IF Bursty THEN Phase(burst[v], d) ELSE [b |-> burst[v], idle |-> FALSE, for |-> 0] IN
            /\ burst' = [burst EXCEPT ![v] = ph.b]
            /\ IF ph.idle THEN Decide(v, ph.for, NoTarget)
                          ELSE Decide(v, Reaction(t, prior[v]), pos')
      BY <2>1 DEF Shape
    <2>3. Bursty
      <3> SUFFICES ASSUME ~Bursty PROVE FALSE
          OBVIOUS
      <3>1. burst' = [burst EXCEPT ![v] = burst[v]]
          BY <2>2
      <3> QED
          BY <1>0, <1>3, <3>1
    <2>4. d.active \in Nat /\ d.idle \in Nat
      <3>1. d \in [active : Samples(block.persona.burst.active), idle : Samples(block.persona.burst.idle)]
          BY <2>2, <2>3 DEF Dwells
      <3>2. /\ Samples(block.persona.burst.active) \subseteq Nat
            /\ Samples(block.persona.burst.idle) \subseteq Nat
          BY <1>0, <2>3 DEF PersonaSane, Bursty
      <3> QED
          BY <3>1, <3>2
    <2>5. PICK ph : ph = Phase(burst[v], d)
      OBVIOUS
    <2>6. burst' = [burst EXCEPT ![v] = ph.b] /\ (ph.idle => Decide(v, ph.for, NoTarget))
      BY <2>2, <2>3, <2>5
    <2>7. PICK b \in Phases : b = burst[v]
      BY <1>0
    <2>8. /\ ph.b \in Phases
          /\ \/ ph.b = b \/ ~ph.b.idle
             \/ ph.idle /\ ph.for = d.idle /\ ph.b.end = now + d.idle
      <3>1. CASE ~b.started
          BY <1>0, <2>4, <2>5, <2>7, <3>1 DEF Phase, Phases
      <3>2. CASE b.started /\ now < b.end
          BY <2>5, <2>7, <3>2 DEF Phase
      <3>3. CASE b.started /\ ~(now < b.end) /\ b.idle
        <4>1. PICK e \in Int : e = now + d.active
            BY <1>0, <2>4
        <4>2. PICK n : n = [b EXCEPT !.idle = FALSE, !.end = e]
            OBVIOUS
        <4>3. n \in Phases /\ ~n.idle
            BY <4>2 DEF Phases
        <4>4. ph.b = n
            BY <2>5, <2>7, <3>3, <4>1, <4>2 DEF Phase
        <4> QED
            BY <4>3, <4>4
      <3>4. CASE b.started /\ ~(now < b.end) /\ ~b.idle
        <4>1. PICK e \in Int : e = now + d.idle
            BY <1>0, <2>4
        <4>2. PICK n : n = [b EXCEPT !.idle = TRUE, !.end = e]
            OBVIOUS
        <4>3. n \in Phases /\ n.end = e
            BY <4>2 DEF Phases
        <4>4. ph = [b |-> n, idle |-> TRUE, for |-> d.idle]
            BY <2>5, <2>7, <3>4, <4>1, <4>2 DEF Phase
        <4>5. ph.b = n /\ ph.idle /\ ph.for = d.idle
            BY <4>4
        <4> QED
            BY <4>1, <4>3, <4>5
      <3> QED
          BY <3>1, <3>2, <3>3, <3>4
    <2>9. burst' \in [VUsers -> Phases] /\ burst'[v] = ph.b
      BY <1>0, <2>6, <2>8
    <2>10. CASE ph.b = b \/ ~ph.b.idle
      BY <2>7, <2>9, <2>10
    <2>11. CASE ph.idle /\ ph.for = d.idle /\ ph.b.end = now + d.idle
      <3>1. pc'[v] = "gate" /\ plan'[v] = NoTarget /\ wait'[v] = d.idle
          BY <1>0, <2>6, <2>11 DEF Decide
      <3> QED
          BY <1>0, <2>4, <2>9, <2>11, <3>1
    <2> QED
      BY <2>8, <2>10, <2>11
  <1> QED
      BY <1>1, <1>2, <1>3 DEF VUserStep

(* The functions of the goroutines stay functions.                         *)
LEMMA ClockStep ==
    ASSUME StartupInv, NoBlockApart, [Next]_vars
    PROVE  Clocked' /\ now <= now'
  <1>0. Clocked /\ Launched
      BY DEF StartupInv
  <1>1. CASE UNCHANGED blockVars
      BY <1>0, <1>1 DEF blockVars, clockVars, vuserVars, Clocked
  <1>2. CASE Launch(block', windows')
    <2>1. /\ UNCHANGED <<clockVars, plan, wait, burst>> /\ pc' = [v \in VUsers |-> pc'[v]]
      BY <1>2 DEF Launch
    <2> QED
      BY <1>0, <2>1 DEF clockVars, Clocked
  <1>3. CASE SchedStep \/ GovStep
    <2>1. /\ UNCHANGED <<now, vuserVars>> /\ deadline' = [h \in Goroutines |-> deadline'[h]]
      BY <1>0, <1>3, SchedFrame, GovFrame
    <2> QED
      BY <1>0, <2>1 DEF vuserVars, Clocked
  <1>4. CASE CancelBlock
      BY <1>0, <1>4 DEF CancelBlock, clockVars, vuserVars, Clocked
  <1>5. CASE Tick
      BY <1>0, <1>5, TickFrame DEF vuserVars, Clocked
  <1>6. ASSUME NEW v \in VUsers, VUserStep(v), block # NoBlock
        PROVE  Clocked' /\ now <= now'
    <2>1. /\ deadline' = [h \in Goroutines |-> deadline'[h]] /\ now' = now
      BY <1>0, <1>6, VUserFrame
    <2>2. PICK p, q, w, b :
                 /\ pc' = [pc EXCEPT ![v] = p] /\ plan' = [plan EXCEPT ![v] = q]
                 /\ wait' = [wait EXCEPT ![v] = w] /\ burst' = [burst EXCEPT ![v] = b]
      BY <1>0, <1>6, VUserFrame
    <2>3. /\ pc' = [u \in VUsers |-> pc'[u]] /\ plan' = [u \in VUsers |-> plan'[u]]
          /\ wait' = [u \in VUsers |-> wait'[u]]
      BY <1>0, <2>2 DEF Clocked
    <2>4. burst' \in [VUsers -> Phases]
      BY <1>0, <1>6, BurstStep DEF Clocked
    <2> QED
      BY <1>0, <2>1, <2>3, <2>4 DEF Clocked
  <1> QED
      BY <1>1, <1>2, <1>3, <1>4, <1>5, <1>6, Cases, Goroutine

(* Time that has passed has passed.                                        *)
LEMMA Later ==
    ASSUME NEW m \in Nat, NEW n \in Nat, m <= n, NEW g \in Nat, g <= m, NEW x \in 0..(m - g)
    PROVE  x \in 0..(n - g) /\ g <= n
  OBVIOUS

(* The schedule.                                                           *)
LEMMA ScheduleStep ==
    ASSUME StartupInv, NoBlockApart, [Next]_vars
    PROVE  Scheduled'
  <1>0. Clocked /\ Scheduled /\ now \in Nat
      BY DEF StartupInv, Clocked
  <1>1. now' \in Nat /\ now <= now'
      BY ClockStep DEF Clocked
  <1>2. CASE UNCHANGED <<windows, cancelled, schedVars>>
      BY <1>0, <1>1, <1>2 DEF schedVars, Scheduled, Planned
  <1>3. CASE UNCHANGED blockVars
      BY <1>2, <1>3 DEF blockVars
  <1>4. CASE Launch(block', windows')
    <2>1. /\ readAt' = readAt /\ sched' = IF windows' = <<>> THEN "done" ELSE "read"
      BY <1>4 DEF Launch
    <2> QED
      BY <1>0, <1>1, <2>1 DEF Scheduled
  <1>5. CASE SchedRead
    <2>1. sched' = "set" /\ readAt' = now /\ now' = now
      BY <1>5 DEF SchedRead, DropWaiter
    <2> QED
      BY <1>0, <2>1 DEF Scheduled
  <1>6. CASE SchedSleep
    <2>1. /\ Planned' /\ UNCHANGED <<windows, readAt>>
          /\ (sched' = "done" /\ planned' = Never) \/ (sched' = "asleep" /\ planned' # Never)
      BY <1>6 DEF SchedSleep, Planned
    <2> QED
      BY <1>0, <1>1, <2>1 DEF Scheduled
  <1>7. CASE SchedLeave
    <2>1. cancelled' /\ sched' = "done" /\ readAt' = readAt
      BY <1>7 DEF SchedLeave
    <2> QED
      BY <1>0, <1>1, <2>1 DEF Scheduled
  <1>8. CASE CancelBlock
    <2>1. cancelled' /\ UNCHANGED <<windows, schedVars>>
      BY <1>8 DEF CancelBlock
    <2> QED
      BY <1>0, <1>1, <2>1 DEF schedVars, Scheduled, Planned
  <1>9. CASE GovStep \/ (\E v \in VUsers : VUserStep(v)) \/ Tick
      BY <1>0, <1>2, <1>9, GovFrame, VUserFrame, TickFrame
  <1> QED
      BY <1>3, <1>4, <1>5, <1>6, <1>7, <1>8, <1>9, Cases, Goroutine DEF SchedStep

(* The ramp: what holds of the limit, and that it only climbs.             *)
LEMMA RampStep ==
    ASSUME StartupInv, NoBlockApart, [Next]_vars
    PROVE  /\ Ramped'
           /\ block # NoBlock /\ ~patched' =>
                 limit' >= limit /\ (gov' = "arrived" => limit' = block.concurrency)
  <1>0. Clocked /\ Ramped /\ Launched /\ Unstarted /\ now \in Nat
      BY DEF StartupInv, Clocked
  <1>1. now' \in Nat /\ now <= now'
      BY ClockStep DEF Clocked
  <1> DEFINE At(e) == ConcurrencyAt(block.ramp, block.concurrency, e)
             Kept == block # NoBlock /\ ~patched => limit \in Int
  <1>2. block # NoBlock => /\ RampSane(block.ramp, block.concurrency)
                           /\ \A e, f \in Int : e <= f =>
                                 /\ At(e) \in Int /\ At(e) <= At(f)
                                 /\ block.ramp.up <= 0 \/ e >= block.ramp.up =>
                                       At(e) = block.concurrency
    <2> SUFFICES ASSUME block # NoBlock, NEW e \in Int, NEW f \in Int, e <= f
                 PROVE  /\ RampSane(block.ramp, block.concurrency)
                        /\ At(e) \in Int /\ At(e) <= At(f)
                        /\ block.ramp.up <= 0 \/ e >= block.ramp.up => At(e) = block.concurrency
      <3>1. block # NoBlock => RampSane(block.ramp, block.concurrency)
          BY <1>0 DEF Launched, BlockSane
      <3> QED
          BY <3>1
    <2>1. RampSane(block.ramp, block.concurrency)
      BY <1>0 DEF Launched, BlockSane
    <2>2. block.concurrency \in Nat
      BY <2>1 DEF RampSane
    <2>3. /\ At(e) \in 1..block.concurrency /\ At(e) <= At(f)
          /\ block.ramp.up <= 0 \/ e >= block.ramp.up => At(e) = block.concurrency
      BY <2>1, RampFacts
    <2> QED
      BY <2>1, <2>2, <2>3
  <1>3. Kept
    <2> SUFFICES ASSUME block # NoBlock, ~patched PROVE limit \in Int
      OBVIOUS
    <2>1. CASE gov = "start"
      <3>1. limit = At(0) /\ 0 \in Int
          BY <1>0, <2>1 DEF Ramped
      <3> QED
          BY <1>2, <3>1
    <2>2. CASE gov # "start"
      <3>1. PICK e \in 0..(now - govStart) : limit = At(e)
          BY <1>0, <2>2 DEF Ramped
      <3> QED
          BY <1>2, <3>1
    <2> QED
      BY <2>1, <2>2
  <1>4. CASE block # NoBlock /\ UNCHANGED <<block, rampVars>>
    <2>1. Ramped'
      <3> SUFFICES ASSUME ~patched
                   PROVE  /\ gov = "start" => limit = At(0)
                          /\ gov # "start" =>
                                /\ govStart \in Nat /\ govStart <= now'
                                /\ \E e \in 0..(now' - govStart) : limit = At(e)
                          /\ gov = "arrived" => limit = block.concurrency
          BY <1>4 DEF Ramped, rampVars
      <3>1. ASSUME gov # "start"
            PROVE  /\ govStart \in Nat /\ govStart <= now'
                   /\ \E e \in 0..(now' - govStart) : limit = At(e)
        <4>1. PICK e \in 0..(now - govStart) : limit = At(e)
            BY <1>0, <1>4, <3>1 DEF Ramped
        <4>2. govStart \in Nat /\ govStart <= now
            BY <1>0, <1>4, <3>1 DEF Ramped
        <4>3. e \in 0..(now' - govStart) /\ govStart <= now'
            BY <1>0, <1>1, <4>2, Later
        <4> QED
            BY <4>1, <4>2, <4>3
      <3> QED
          BY <1>0, <1>4, <3>1 DEF Ramped
    <2>2. ~patched' => limit' >= limit /\ (gov' = "arrived" => limit' = block.concurrency)
      BY <1>0, <1>3, <1>4 DEF Ramped, rampVars
    <2> QED
      BY <2>1, <2>2
  <1>5. CASE UNCHANGED blockVars
    <2>1. UNCHANGED <<block, rampVars>>
      BY <1>5 DEF blockVars
    <2>2. CASE block = NoBlock
      BY <2>1, <2>2 DEF Ramped
    <2> QED
      BY <1>4, <2>1, <2>2
  <1>6. ASSUME block = NoBlock, block' # NoBlock, Launch(block', windows'), BlockSane(block')
        PROVE  Ramped'
    <2>1. PICK b : b = block'
      OBVIOUS
    <2>2. /\ RampSane(b.ramp, b.concurrency) /\ 0 \in Int /\ 0 <= 0
      BY <1>6, <2>1 DEF BlockSane
    <2>3. ConcurrencyAt(b.ramp, b.concurrency, 0) \in 1..b.concurrency /\ b.concurrency \in Nat
      BY <2>2, RampFacts DEF RampSane
    <2>4. limit' = ConcurrencyAt(b.ramp, b.concurrency, 0) /\ gov' = "start"
      <3>1. limit' = InitialLimit(b.ramp, b.concurrency) /\ gov' = "start"
          BY <1>6, <2>1 DEF Launch
      <3> QED
          BY <2>3, <3>1 DEF InitialLimit
    <2> QED
      BY <2>1, <2>4 DEF Ramped
  <1>7. CASE block # NoBlock /\ GovStart
    <2>1. /\ gov = "start" /\ govStart' = now /\ limit' = limit /\ block' = block /\ now' = now
          /\ patched' = patched
          /\ (block.ramp.up <= 0 /\ gov' = "arrived") \/ gov' = "waiting"
      BY <1>7 DEF GovStart, AddWaiter, clockVars
    <2>2. ~patched => limit = At(0)
      BY <1>0, <1>7, <2>1 DEF Ramped
    <2>3. gov' = "arrived" => At(0) = block.concurrency
      BY <1>2, <1>7, <2>1
    <2>4. 0 \in 0..(now - now)
      BY <1>0
    <2>5. Ramped'
      BY <1>0, <1>7, <2>1, <2>2, <2>3, <2>4 DEF Ramped
    <2> QED
      BY <1>3, <1>7, <2>1, <2>2, <2>3, <2>5
  <1>8. CASE block # NoBlock /\ GovTick
    <2>1. /\ gov = "waiting" /\ govStart' = govStart /\ limit' = At(now - govStart)
          /\ block' = block /\ now' = now /\ patched' = patched
          /\ (now - govStart >= block.ramp.up /\ gov' = "arrived") \/ gov' = gov
      BY <1>8 DEF GovTick, AddWaiter, DropWaiter
    <2>2. CASE patched
      BY <2>1, <2>2 DEF Ramped
    <2>3. CASE ~patched
      <3>1. PICK e \in 0..(now - govStart) : limit = At(e)
          BY <1>0, <1>8, <2>1, <2>3 DEF Ramped
      <3>2. govStart \in Nat /\ govStart <= now
          BY <1>0, <1>8, <2>1, <2>3 DEF Ramped
      <3>3. PICK f \in Int : f = now - govStart /\ e <= f /\ e \in Int /\ f \in 0..(now - govStart)
          BY <1>0, <3>2
      <3>4. /\ At(e) \in Int /\ At(f) \in Int /\ At(e) <= At(f)
            /\ f >= block.ramp.up => At(f) = block.concurrency
          BY <1>2, <1>8, <3>3
      <3>5. Ramped'
          BY <1>8, <2>1, <2>3, <3>2, <3>3, <3>4 DEF Ramped
      <3> QED
          BY <2>1, <3>1, <3>3, <3>4, <3>5
    <2> QED
      BY <2>2, <2>3
  <1>9. CASE block # NoBlock /\ GovLeave
    <2>1. /\ gov = "waiting" /\ gov' = "left" /\ UNCHANGED <<block, govStart, limit, patched, now>>
      BY <1>9 DEF GovLeave, DropWaiter
    <2>2. Ramped'
      BY <1>0, <1>9, <2>1 DEF Ramped
    <2> QED
      BY <1>3, <1>9, <2>1, <2>2
  <1>10. CASE \E n \in 1..block.concurrency : PatchLimit(n)
    <2>1. patched'
      BY <1>10 DEF PatchLimit
    <2> QED
      BY <2>1 DEF Ramped
  <1>11. CASE block # NoBlock /\ (SchedStep \/ (\E v \in VUsers : VUserStep(v)) \/ Tick)
      BY <1>0, <1>4, <1>11, SchedFrame, VUserFrame, TickFrame
  <1>12. CASE CancelBlock
      BY <1>4, <1>12 DEF CancelBlock
  <1>13. CASE block # NoBlock /\ BlockNext
      BY <1>7, <1>8, <1>9, <1>10, <1>11, <1>12, <1>13, Goroutine DEF GovStep
  <1> QED
      BY <1>5, <1>6, <1>13, Cases

(* The vusers.                                                             *)
LEMMA TroughStep ==
    ASSUME StartupInv, NoBlockApart, [Next]_vars
    PROVE  Troughs'
  <1> SUFFICES ASSUME NEW v \in VUsers, burst'[v].idle, now' < burst'[v].end
               PROVE  Resting(v)'
      BY DEF Troughs
  <1>0. /\ Clocked /\ Troughs /\ Unstarted /\ now \in Nat /\ now' \in Nat /\ now <= now'
        /\ burst[v] \in Phases /\ burst'[v] \in Phases /\ v \in Goroutines
    <2>1. Clocked' /\ now <= now'
      BY ClockStep
    <2> QED
      BY <2>1, StartupAssumption DEF StartupInv, Clocked
  <1>1. burst'[v] = burst[v] => burst[v].idle /\ now < burst[v].end /\ Resting(v)
      BY <1>0 DEF Phases, Troughs
  <1>2. CASE UNCHANGED <<now, pc, plan, wait, burst>> /\ deadline'[v] = deadline[v]
             /\ (v \in fired' <=> v \in fired)
      BY <1>1, <1>2 DEF Resting
  <1>3. CASE UNCHANGED blockVars
      BY <1>2, <1>3 DEF blockVars, clockVars, vuserVars
  <1>4. CASE block = NoBlock /\ Launch(block', windows')
    <2>1. burst' = burst /\ burst[v] = Fresh
      BY <1>0, <1>4 DEF Launch, Unstarted
    <2> QED
      BY <2>1 DEF Fresh
  <1>5. CASE SchedStep
    <2>1. v # Sched
      BY DEF VUsers, Sched
    <2> QED
      BY <1>0, <1>2, <1>5, <2>1, SchedFrame DEF Waiters, vuserVars
  <1>6. CASE GovStep
    <2>1. v # Gov
      BY DEF VUsers, Gov
    <2> QED
      BY <1>0, <1>2, <1>6, <2>1, GovFrame DEF Waiters, vuserVars
  <1>7. CASE CancelBlock
      BY <1>2, <1>7 DEF CancelBlock, clockVars, vuserVars
  <1>8. CASE Tick
    <2>1. UNCHANGED <<pc, plan, wait, burst>>
      BY <1>0, <1>8, TickFrame DEF vuserVars
    <2>2. burst[v].idle /\ now < burst[v].end /\ Resting(v) /\ burst[v].end \in Int
      BY <1>0, <1>1, <2>1 DEF Phases
    <2>3. LET due == deadline[v] # Idle /\ deadline[v] <= now' IN
              /\ v \in fired' <=> v \in fired \/ due
              /\ deadline'[v] = IF due THEN Idle ELSE deadline[v]
      BY <1>0, <1>8, TickFrame
    <2>4. CASE pc[v] = "asleep"
      <3>1. plan[v] = NoTarget /\ v \notin fired /\ deadline[v] # Idle
            /\ deadline[v] \in Int /\ deadline[v] >= burst[v].end
          BY <2>2, <2>4 DEF Resting
      <3>2. ~(deadline[v] <= now')
          BY <1>0, <2>1, <2>2, <3>1
      <3> QED
          BY <2>1, <2>3, <2>4, <3>1, <3>2 DEF Resting
    <2>5. CASE pc[v] # "asleep"
      BY <1>0, <2>1, <2>2, <2>5 DEF Resting
    <2> QED
      BY <2>4, <2>5
  <1>9. ASSUME block # NoBlock, NEW u \in VUsers, VUserStep(u), u # v
        PROVE  Resting(v)'
    <2>1. PICK p, q, w, b :
                 /\ pc' = [pc EXCEPT ![u] = p] /\ plan' = [plan EXCEPT ![u] = q]
                 /\ wait' = [wait EXCEPT ![u] = w] /\ burst' = [burst EXCEPT ![u] = b]
      BY <1>0, <1>9, VUserFrame
    <2>2. /\ pc'[v] = pc[v] /\ plan'[v] = plan[v] /\ wait'[v] = wait[v] /\ burst'[v] = burst[v]
      BY <1>0, <1>9, <2>1 DEF Clocked
    <2>3. now' = now /\ deadline'[v] = deadline[v] /\ (v \in fired' <=> v \in fired)
      BY <1>0, <1>9, VUserFrame DEF Waiters
    <2> QED
      BY <1>1, <2>2, <2>3 DEF Resting
  <1>10. ASSUME block # NoBlock, VUserStep(v)
         PROVE  Resting(v)'
    <2>1. now' = now
      BY <1>0, <1>10, VUserFrame
    <2>2. CASE burst'[v] # burst[v]
      <3>1. /\ pc'[v] = "gate" /\ plan'[v] = NoTarget
            /\ wait'[v] \in Int /\ now + wait'[v] >= burst'[v].end
          BY <1>10, <2>1, <2>2, BurstStep
      <3> QED
          BY <2>1, <3>1 DEF Resting
    <2>3. CASE burst'[v] = burst[v]
      <3>1. burst[v].idle /\ now < burst[v].end /\ Resting(v) /\ burst[v].end \in Int
          BY <1>0, <1>1, <2>3 DEF Phases
      <3>2. pc[v] \in {"done", "gate", "asleep"} /\ (pc[v] = "asleep" => v \notin fired)
          BY <3>1 DEF Resting
      <3>3. PassGate(v) \/ VUserLeave(v)
        <4>1. ~NextDone(v) /\ ~Wake(v) /\ \A o : ~Act(v, o)
            BY <3>2 DEF NextDone, Wake, Act
        <4>2. \A i : ~NextStep(v, i)
            BY <3>2 DEF NextStep
        <4> QED
            BY <1>10, <4>1, <4>2 DEF VUserStep
      <3>4. CASE VUserLeave(v)
        <4>1. pc'[v] = "done"
            BY <1>0, <3>4 DEF VUserLeave, Clocked
        <4> QED
            BY <4>1 DEF Resting
      <3>5. CASE PassGate(v)
        <4>1. /\ pc[v] = "gate" /\ pc' = [pc EXCEPT ![v] = "asleep"] /\ plan' = plan
              /\ AddWaiter(v, wait[v])
            BY <3>5 DEF PassGate
        <4>2. plan[v] = NoTarget /\ wait[v] \in Int /\ now + wait[v] >= burst[v].end
            BY <3>1, <4>1 DEF Resting
        <4>3. wait[v] > 0
            BY <1>0, <3>1, <4>2
        <4>4. deadline' = [deadline EXCEPT ![v] = now + wait[v]] /\ fired' = fired \ {v}
          <5>1. PICK d \in Int : d = wait[v] /\ ~(d <= 0)
              BY <4>2, <4>3
          <5>2. AddWaiter(v, d)
              BY <4>1, <5>1
          <5>3. deadline' = [deadline EXCEPT ![v] = now + d] /\ fired' = fired \ {v}
              BY <5>1, <5>2 DEF AddWaiter
          <5> QED
              BY <5>1, <5>3
        <4>5. deadline'[v] = now + wait[v] /\ v \notin fired' /\ pc'[v] = "asleep"
            BY <1>0, <4>1, <4>4 DEF Clocked
        <4>6. deadline'[v] \in Int /\ deadline'[v] >= burst'[v].end /\ deadline'[v] # Idle
            BY <1>0, <2>3, <4>2, <4>3, <4>5 DEF Idle
        <4> QED
            BY <4>1, <4>2, <4>5, <4>6 DEF Resting
      <3> QED
          BY <3>3, <3>4, <3>5
    <2> QED
      BY <2>2, <2>3
  <1>11. CASE block # NoBlock /\ BlockNext
      BY <1>5, <1>6, <1>7, <1>8, <1>9, <1>10, <1>11, Goroutine
  <1> QED
      BY <1>3, <1>4, <1>11, Cases

-----------------------------------------------------------------------------
(* The theorems.                                                           *)

(* The inductive invariant, from a scenario file to the running block.     *)
THEOREM StartupInvariant ==
    ASSUME NoBlockApart
    PROVE  Spec => []StartupInv
  <1>1. Init => StartupInv
    <2> SUFFICES ASSUME Init PROVE StartupInv
      OBVIOUS
    <2>1. ConfigInit /\ BlockInit /\ ClockInit
      BY DEF Init, BlockInit
    <2>2. Configured
      <3>1. FileTyped(file) /\ Repairable(file) /\ opts \in Invocations /\ scenario = NoScenario
          BY <2>1, StartupAssumption DEF ConfigInit
      <3> QED
          BY <3>1 DEF Configured
    <2>3. Unstarted
      BY <2>1 DEF BlockInit, Unstarted
    <2>4. Launched /\ Ramped
      BY <2>1 DEF BlockInit, Launched, Ramped
    <2>5. burst = [v \in VUsers |-> Fresh] /\ Fresh \in Phases
      BY <2>1 DEF BlockInit, Fresh, Phases
    <2>6. Clocked
      BY <2>1, <2>5 DEF BlockInit, ClockInit, Clocked
    <2>7. Scheduled
      BY <2>1 DEF BlockInit, ClockInit, Scheduled
    <2>8. Troughs
      BY <2>5 DEF Fresh, Troughs
    <2> QED
      BY <2>2, <2>3, <2>4, <2>6, <2>7, <2>8 DEF StartupInv
  <1>2. StartupInv /\ [Next]_vars => StartupInv'
      BY ConfigStep, ClockStep, ScheduleStep, RampStep, TroughStep DEF StartupInv
  <1> QED
      BY <1>1, <1>2, PTL DEF Spec

(* The config boundary: whatever the file, however often it was repaired   *)
(* and whatever its durations wrapped round to, a scenario that leaves     *)
(* Validate asks for no more concurrency than the caps in force at any     *)
(* time of a ramp, its windows open before they close, and its personas    *)
(* draw waits within the bounds they state.                                *)
THEOREM BoundarySafety ==
    ASSUME NoBlockApart
    PROVE  Spec => []ConfigBoundary
  <1>1. StartupInv => ConfigBoundary
    <2> SUFFICES ASSUME StartupInv, scenario # NoScenario
                 PROVE  ConfigBoundary
      BY DEF ConfigBoundary
    <2>1. /\ FileTyped(file) /\ FileErrors(file, opts) = {} /\ scenario = Frozen(file, opts)
          /\ opts.agents \in Int
      BY StartupAssumption DEF StartupInv, Launched, Configured
    <2>2. \A i \in DOMAIN scenario.windows :
              LET w == scenario.windows[i] IN w.days # {} /\ 0 <= w.start /\ w.start < w.end
      BY <2>1, WindowFacts DEF WindowsSane
    <2>3. ASSUME NEW i \in DOMAIN scenario.blocks
          PROVE  LET b == scenario.blocks[i] IN
                 /\ \A e \in -1..(IntRange - 1) :
                       ConcurrencyAt(b.ramp, b.concurrency, e)
                           \in 1..scenario.caps["max_concurrent_sessions"]
                 /\ DistSane(b.persona.think_time) /\ DistSane(b.persona.length)
                 /\ b.persona.burst.active.kind = "" \/
                       (DistSane(b.persona.burst.active) /\ DistSane(b.persona.burst.idle))
      <3>1. PICK b : b = scenario.blocks[i]
          OBVIOUS
      <3>2. i \in DOMAIN file.block /\ b = Block(file, i)
          BY <2>1, <3>1 DEF Frozen
      <3>3. PICK most \in Nat : /\ most = scenario.caps["max_concurrent_sessions"]
                                /\ most = Effective(file.caps[1], AgentCeiling(opts))["max_concurrent_sessions"]
        <4>1. "max_concurrent_sessions" \in CapFields \ RateCaps
            BY DEF CapFields, CountCaps, RateCaps
        <4>2. Effective(file.caps[1], AgentCeiling(opts))["max_concurrent_sessions"] \in Nat
            BY <2>1, <4>1, CapFacts
        <4>3. scenario.caps = Effective(file.caps[1], AgentCeiling(opts))
            BY <2>1 DEF Frozen
        <4> QED
            BY <4>2, <4>3
      <3>4. RampSane(b.ramp, b.concurrency) /\ PersonaSane(b.persona) /\ b.concurrency <= most
          BY <2>1, <3>2, <3>3, BlockFacts DEF BlockSane
      <3>5. b.concurrency \in Nat
          BY <3>4 DEF RampSane
      <3>6. \A e \in -1..(IntRange - 1) : ConcurrencyAt(b.ramp, b.concurrency, e) \in 1..most
        <4> TAKE e \in -1..(IntRange - 1)
        <4>1. e \in Int /\ e <= e
            OBVIOUS
        <4>2. ConcurrencyAt(b.ramp, b.concurrency, e) \in 1..b.concurrency
            BY <3>4, <4>1, RampFacts
        <4> QED
            BY <3>4, <3>5, <4>2
      <3> QED
          BY <3>1, <3>3, <3>4, <3>6 DEF PersonaSane
    <2> QED
      BY <2>2, <2>3 DEF ConfigBoundary
  <1> QED
      BY <1>1, StartupInvariant, PTL

(* Fleets of at most ten thousand agents: rates are kept in whole          *)
(* thousandths here, and a larger fleet's share of the smallest one is     *)
(* below that.                                                             *)
SmallFleet == \A o \in Invocations : o.agents <= 10000

(* No file, by any repairs, relaxes a safety control the operator's flags  *)
(* do not, but for a rate it declares as NaN: no insecure block, no cap    *)
(* that is not positive, and without the override none whose sum over the  *)
(* fleet exceeds the ceiling, or one for each agent where the agents       *)
(* outnumber the cap.                                                      *)
THEOREM RelaxSafety ==
    ASSUME NoBlockApart, SmallFleet
    PROVE  Spec => []FlagsAloneRelax
  <1>1. StartupInv => FlagsAloneRelax
    <2> SUFFICES ASSUME StartupInv, scenario # NoScenario
                 PROVE  FlagsAloneRelax
      BY DEF FlagsAloneRelax
    <2>1. /\ FileTyped(file) /\ FileErrors(file, opts) = {} /\ scenario = Frozen(file, opts)
          /\ opts.agents \in Int /\ opts.agents <= 10000
      BY StartupAssumption DEF StartupInv, Launched, Configured, SmallFleet
    <2>2. ASSUME ~opts.allow_insecure, NEW i \in DOMAIN scenario.blocks
          PROVE  ~scenario.blocks[i].insecure
      <3>1. i \in DOMAIN file.block /\ scenario.blocks[i] = Block(file, i)
          BY <2>1 DEF Frozen
      <3> QED
          BY <2>1, <2>2, <3>1, BlockFacts
    <2>3. ASSUME NEW c \in CapFields
          PROVE  \/ c \in RateCaps /\ scenario.caps[c] = NaN /\ file.caps[1][c] = NaN
                 \/ /\ scenario.caps[c] > 0
                    /\ opts.cap_override \/ WithinFleet(opts.agents, c, scenario.caps[c])
      <3>1. PICK cap : cap = Effective(file.caps[1], AgentCeiling(opts))[c]
          OBVIOUS
      <3>2. \/ c \in RateCaps /\ cap = NaN /\ file.caps[1][c] = NaN
            \/ /\ cap \in Nat /\ cap > 0
               /\ opts.cap_override \/ WithinFleet(opts.agents, c, cap)
          BY <2>1, <3>1, CapFacts
      <3>3. scenario.caps[c] = cap
          BY <2>1, <3>1 DEF Frozen
      <3> QED
          BY <3>2, <3>3
    <2> QED
      BY <2>2, <2>3 DEF FlagsAloneRelax
  <1> QED
      BY <1>1, StartupInvariant, PTL

(* In a zone that does not shift, for any windows that Validate accepts,   *)
(* any length of day and week, and however late the scheduler reads and    *)
(* sleeps, the gate is what the schedule says until the planned instant.   *)
THEOREM ScheduleSafety ==
    ASSUME NoBlockApart, NoShift
    PROVE  Spec => []GateFollowsSchedule
  <1>1. StartupInv => GateFollowsSchedule
    <2> SUFFICES ASSUME StartupInv,
                        \/ sched = "asleep" /\ now < planned
                        \/ sched = "done" /\ ~cancelled /\ windows # <<>>
                 PROVE  gate = Active(windows, now)
      BY DEF GateFollowsSchedule
    <2>1. block # NoBlock
      BY DEF StartupInv, Unstarted
    <2>2. WindowsSane(windows) /\ now \in Nat /\ readAt \in Nat /\ readAt <= now
      BY <2>1 DEF StartupInv, Launched, Clocked, Scheduled
    <2>3. /\ gate = Active(windows, readAt)
          /\ NextTransition(windows, readAt) = Never \/ now < NextTransition(windows, readAt)
      BY DEF StartupInv, Scheduled, Planned
    <2>4. Active(windows, now) <=> Active(windows, readAt)
      BY <2>2, <2>3, NextIsFirst
    <2>5. Active(windows, now) \in BOOLEAN /\ Active(windows, readAt) \in BOOLEAN
      BY DEF Active
    <2> QED
      BY <2>3, <2>4, <2>5
  <1> QED
      BY <1>1, StartupInvariant, PTL

(* A vuser that has entered a trough performs no action before its end,    *)
(* for any personas and vusers, whatever pauses and delays come between.   *)
THEOREM TroughSafety ==
    ASSUME NoBlockApart
    PROVE  Spec => []TroughQuiet
  <1>1. StartupInv => TroughQuiet
      BY DEF StartupInv, Troughs, Resting, TroughQuiet
  <1> QED
      BY <1>1, StartupInvariant, PTL

(* Left alone the governor only ever raises the limit, however late its    *)
(* ticks come, and ends with the block's concurrency: for any ramp that    *)
(* Validate accepts.                                                       *)
THEOREM RampSafety ==
    ASSUME NoBlockApart
    PROVE  Spec => RampClimbs
  <1>1. StartupInv /\ [Next]_vars =>
            [block # NoBlock /\ ~patched' =>
                limit' >= limit /\ (gov' = "arrived" => limit' = block.concurrency)]_blockVars
      BY RampStep
  <1> QED
      BY <1>1, StartupInvariant, PTL DEF Spec, RampClimbs
=============================================================================
