------------------------------ MODULE Schedule ------------------------------
(***************************************************************************)
(* internal/schedule/schedule.go: when a schedule is active and when that  *)
(* next changes.  Instants are ticks since the first local midnight; a     *)
(* window is [days, start, end] with wall-clock times in ticks.            *)
(*                                                                         *)
(* Location is the schedule's time zone, which the time package reads from *)
(* the zone database: the day on which the wall clock is put forward (by = *)
(* 1) or back (by = -1) once `at' ticks of it have gone; by = 0 is a zone  *)
(* that does not shift.                                                    *)
(***************************************************************************)
EXTENDS Integers, Sequences, FiniteSets

CONSTANTS DayLen,     \* ticks of a day that does not shift
          WeekLen,    \* days of a week
          Location    \* [day, at, by]

ASSUME ScheduleAssumption ==
    /\ DayLen \in Nat \ {0, 1} /\ WeekLen \in Nat \ {0}
    /\ Location.day \in Nat /\ Location.at \in 1..(DayLen - 1) /\ Location.by \in -1..1

(* time.Date(y, m, d, 0, ...): the instant of a local midnight.            *)
Midnight(day) == day * DayLen - (IF day > Location.day THEN Location.by ELSE 0)

LocalDay(t) ==
    LET near == {d \in (t \div DayLen - 1)..(t \div DayLen + 1) : Midnight(d) <= t}
    IN  CHOOSE d \in near : \A e \in near : e <= d

(* sinceMidnight: read off the wall clock, so shifts are in it.            *)
SinceMidnight(t) ==
    LET e == t - Midnight(LocalDay(t))
    IN  e + (IF LocalDay(t) = Location.day /\ e >= Location.at THEN Location.by ELSE 0)

Active(windows, t) ==
    \/ windows = <<>>
    \/ \E i \in DOMAIN windows :
          /\ LocalDay(t) % WeekLen \in windows[i].days
          /\ SinceMidnight(t) \in windows[i].start..(windows[i].end - 1)

(* Mutant: a window's end is no edge.                                      *)
DayEdgesStarts(windows, day) ==
    {Midnight(day) + windows[i].start :
        i \in {j \in DOMAIN windows : day % WeekLen \in windows[j].days}}

(* dayEdges: the edges of a day are offsets added to its midnight.         *)
DayEdges(windows, day) ==
    LET on == {i \in DOMAIN windows : day % WeekLen \in windows[i].days}
    IN  {Midnight(day) + windows[i].start : i \in on}
          \cup {Midnight(day) + windows[i].end : i \in on}

(* The zero time of the code.                                              *)
Never == -1

(* NextTransition: the first edge after t, of today and of a week and one  *)
(* day more, at which the schedule is not what it is at t.                 *)
NextTransition(windows, t) ==
    LET days  == LocalDay(t)..(LocalDay(t) + WeekLen)
        flips == {e \in UNION {DayEdges(windows, d) : d \in days} :
                     e > t /\ Active(windows, e) # Active(windows, t)}
    IN  IF flips = {} THEN Never ELSE CHOOSE e \in flips : \A o \in flips : e <= o
=============================================================================
