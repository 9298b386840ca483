----------------------------- MODULE MCStartup -----------------------------
(***************************************************************************)
(* Startup for TLC: a typical file and every file that differs from it in  *)
(* one field, or in one field and the caps or the ramp; days of four hours *)
(* and weeks of two days.                                                  *)
(***************************************************************************)
EXTENDS Startup

MCGoroutines == {Sched, Gov} \cup VUsers
MCDayLen == DayHours * HourMinutes
MCWeekLen == Cardinality(Weekdays)
Fixed == [day |-> 0, at |-> 1, by |-> 0]
PutBack == [day |-> 0, at |-> 1, by |-> -1]

Host == [scheme |-> FALSE, at |-> FALSE, bracket |-> FALSE, colons |-> 0, port |-> NoPort, host |-> TRUE]
WithPort(p) == [Host EXCEPT !.colons = 1, !.port = p]

SoundBlock(i) ==
    [id |-> i, protocol |-> "http", targets |-> <<Host, WithPort(443)>>, target_rotation |-> "",
     interval |-> 2, allow_insecure |-> FALSE, allow_insecure_reason |-> "lab", persona |-> "",
     concurrency |-> 1, duration_minutes |-> 4, ramp |-> TRUE, up_seconds |-> 0, start_concurrency |-> 1]

SoundPersona ==
    [name |-> "quiet", think_time |-> Constant(1), jitter |-> [kind |-> "", fraction |-> 0],
     burst |-> [active |-> Constant(1), idle |-> Constant(2)],
     time_of_day |-> [location |-> "", weekday |-> <<>>, weekend |-> <<>>],
     length |-> NoDist, inter_task |-> NoDist, abandon |-> 0,
     mix |-> <<Template("http", "navigation")>>, fingerprints |-> ""]

SoundWindow == [days |-> {0, 1}, start |-> <<0, 0>>, end |-> <<3, 0>>]

MCSound ==
    [top |-> <<[name |-> "run", mode |-> "", weight_basis |-> "", allowed_domains |-> {}, timezone |-> "UTC"]>>,
     caps |-> <<[c \in CapFields |-> 0]>>,
     block |-> <<SoundBlock("a"), SoundBlock("b")>>,
     persona |-> <<SoundPersona>>,
     window |-> <<SoundWindow>>]

Typical == [MCSound EXCEPT !.block[1].concurrency = 3, !.block[1].up_seconds = 3,
                           !.block[1].persona = "quiet", !.block[2].persona = "quiet",
                           !.window[1].start = <<1, 0>>, !.window[1].end = <<2, 0>>]

Durs == {Missing, -1, 0, 2}
Dists == [kind : {"constant"}, d : Durs] \cup [kind : {"uniform"}, min : Durs, max : Durs]
           \cup [kind : {"normal"}, mean : {2}, stddev : {-1, 2}, min : {0, 1}, max : {0, 2}]
           \cup [kind : {"exponential"}, mean : Durs]
           \cup [kind : {"lognormal"}, scale : Durs, sigma : {-1, 1}]
Day(level) == [h \in 1..24 |-> level]

(* The values a field may have.                                            *)
Values(section, k) ==
    CASE section = "top" ->
           (CASE k = "name" -> {""} [] k = "mode" -> {"sequential", "serial"}
              [] k = "weight_basis" -> {"request_rate", "rps"}
              [] k = "allowed_domains" -> {{"example.org"}, {"bad_host"}} [] k = "timezone" -> {"nowhere"})
      [] section = "caps" ->
           (CASE k = "max_concurrent_sessions" -> {-1, 1, 2, 100}
              [] k = "concurrent_streams" -> {1, 3} [] k = "global_rps" -> {-5, 40000, 50000, NaN}
              [] OTHER -> {})
      [] section = "block" ->
           (CASE k = "id" -> {"", "a"} [] k = "protocol" -> {"stream", "gopher"}
              [] k = "targets" -> {<<>>, <<[Host EXCEPT !.scheme = TRUE]>>, <<[Host EXCEPT !.at = TRUE]>>,
                                   <<Host, WithPort(0)>>, <<WithPort(65536)>>, <<[Host EXCEPT !.host = FALSE]>>,
                                   <<[Host EXCEPT !.colons = 7]>>, <<[Host EXCEPT !.colons = 7, !.bracket = TRUE]>>}
              [] k = "target_rotation" -> {"random", "shuffle"} [] k = "interval" -> {-1, 0}
              [] k = "allow_insecure" -> {TRUE} [] k = "allow_insecure_reason" -> {""}
              [] k = "persona" -> {"", "admin", "ghost"}
              [] k = "concurrency" -> {-1, 0, 2, 21} [] k = "duration_minutes" -> {0, 1, 17}
              [] k = "ramp" -> {FALSE} [] k = "up_seconds" -> {-1, 0, 5, 20}
              [] k = "start_concurrency" -> {-1, 0, 2, 3, 4})
      [] section = "persona" ->
           (CASE k = "name" -> {"", "office-worker"} [] k = "think_time" -> Dists
              [] k = "jitter" -> [kind : {"proportional", "odd"}, fraction : {10, 101}]
              [] k = "burst" -> {[active |-> NoDist, idle |-> NoDist],
                                 [active |-> Constant(1), idle |-> NoDist]}
              [] k = "time_of_day" -> [location : {"", "UTC"}, weekday : {Day(50), <<>>}, weekend : {Day(0), Day(101)}]
              [] k = "length" -> {Constant(3), Constant(-1)} [] k = "inter_task" -> {Constant(1), [kind |-> "odd"]}
              [] k = "abandon" -> {100, 101} [] k = "fingerprints" -> {"default", "odd"}
              [] k = "mix" -> {<<>>, <<Template("http", "control"), Template("dns", "")>>,
                               <<Template("http", "odd")>>, <<[Template("ssh", "") EXCEPT !.weight = 0]>>,
                               <<[Template("ssh", "") EXCEPT !.verb = "GET /"]>>})
      [] section = "window" ->
           (CASE k = "days" -> {{}, {0}, {0, 9}} [] k = "start" -> {<<0, 0>>, <<2, 0>>, <<4, 0>>, <<1>>}
              [] k = "end" -> {<<3, 0>>, <<0, 0>>, <<1, 7>>})

(* f with one field changed.                                               *)
Variants(f) ==
    UNION {UNION {UNION {{[f EXCEPT ![s][i][k] = v] : v \in Values(s, k)} :
        k \in DOMAIN f[s][i]} : i \in DOMAIN f[s]} : s \in DOMAIN f}

(* Every file is validated and repaired; these, which differ in what the   *)
(* goroutines of block 1 read, are also run.                               *)
LaunchFiles ==
    {[Typical EXCEPT !.window = <<[days |-> d, start |-> <<h[1], 0>>, end |-> <<h[2], 0>>]>>] :
        d \in {{0}, {0, 1}}, h \in {<<0, 3>>, <<1, 2>>}}
      \cup {[Typical EXCEPT !.window = <<>>, !.block[1].up_seconds = u, !.block[1].start_concurrency = c] :
              u \in {2, 4, 20}, c \in 0..2}
      \cup {[Typical EXCEPT !.block[1].target_rotation = "random"], [Typical EXCEPT !.block[1].persona = ""]}
      \cup {[Typical EXCEPT !.persona[1].length = Constant(3),
               !.persona[1].mix = <<Template("http", "control"), Template("dns", ""), Template("http", "")>>]}

MCFiles ==
    {Typical} \cup LaunchFiles
      \cup UNION {Variants([Typical EXCEPT !.caps[1].max_concurrent_sessions = c]) : c \in {0, 2, 100}}
      \cup Variants([Typical EXCEPT !.block[1].ramp = FALSE])

MCInvocations == [agents : {0, 3, 25}, cap_override : BOOLEAN, allow_insecure : BOOLEAN]

(* A goroutine may be slow at will.  The governor meets the others nowhere *)
(* but at the clock: it or they stay where they were launched.  The vusers *)
(* are followed through the first day, the scheduler beyond the first week.*)
VUserHorizon == 4

GovMoved == gov \notin {"start", "left"} \/ patched
SchedMoved == block # NoBlock /\ sched # (IF windows = <<>> THEN "done" ELSE "read")
VUsersMoved == \E v \in VUsers : pc[v] \in {"gate", "asleep", "act"} \/ burst[v].started

InScope == /\ ~(GovMoved /\ (SchedMoved \/ VUsersMoved))
           /\ now > VUserHorizon => ~VUsersMoved

MCNext == /\ Next
          /\ block = NoBlock => block' = NoBlock \/ file \in LaunchFiles
          /\ InScope'

MCSpec == Init /\ [][MCNext]_vars
=============================================================================
