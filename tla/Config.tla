------------------------------- MODULE Config -------------------------------
(***************************************************************************)
(* internal/scenario/validate.go: Validate turns a decoded scenario file   *)
(* into the frozen scenario the engine runs, or reports its errors; and    *)
(* the operator who repairs what is reported and tries again.              *)
(*                                                                         *)
(* A file is a function of its sections: top, caps, block, persona and     *)
(* window, each a sequence of records.  An error is the path               *)
(* <<section, index, field>> of what it is about; their order is left out. *)
(***************************************************************************)
EXTENDS Caps, Ramp, Persona

CONSTANTS Minute, Second, \* in ticks
          IntRange,       \* a duration is an integer modulo 2 * IntRange
          DayHours, HourMinutes, Weekdays,
          Files,          \* the files an operator starts from
          Sound,          \* the values an operator repairs a field with
          Invocations,    \* the options of the command line
          MaxPasses,      \* bound on the calls of Validate
          NoScenario

VARIABLES file, opts,
          errors,     \* what the last Validate reported
          scenario,   \* what it returned, or NoScenario
          rejections  \* history: how many passes have failed

configVars == <<file, opts, errors, scenario, rejections>>

(* A product of durations wraps round.                                     *)
Wrap(d) == ((d + IntRange) % (2 * IntRange)) - IntRange

(* validateTarget: [scheme, at, bracket, colons, port, host]; host says    *)
(* whether validHost takes what is left.                                   *)
NoPort == -1
TargetOK(t) ==
    /\ ~t.scheme /\ ~t.at
    /\ t.bracket \/ t.colons <= 1
    /\ t.port = NoPort \/ t.port \in 1..65535
    /\ t.host

(* parseHHMM of <<h, m>>.                                                  *)
ParsesHHMM(hm) == Len(hm) = 2 /\ hm[1] \in 0..(DayHours - 1) /\ hm[2] \in 0..(HourMinutes - 1)
HHMM(hm) == hm[1] * HourMinutes + hm[2]

(* resolvePersonas: the built-ins, and over them the customs that compile. *)
Resolves(f, name) ==
    \/ \E b \in Builtins : b.name = name
    \/ \E i \in DOMAIN f.persona : PersonaErrors(f.persona[i]) = {} /\ f.persona[i].name = name

PersonaOf(f, name) ==
    LET own == {i \in DOMAIN f.persona : PersonaErrors(f.persona[i]) = {} /\ f.persona[i].name = name}
    IN  IF own # {} THEN f.persona[CHOOSE i \in own : \A j \in own : j <= i]
        ELSE CHOOSE b \in Builtins : b.name = name

PersonaName(b) == IF b.persona = "" THEN DefaultPersonaName ELSE b.persona

(* An omitted number of a block has a default.                             *)
Concurrency(b) == IF b.concurrency = 0 THEN 1 ELSE b.concurrency
StartConcurrency(b) == IF b.start_concurrency = 0 THEN Concurrency(b) ELSE b.start_concurrency
Duration(b) == Wrap(b.duration_minutes * Minute)
RampUp(b) == Wrap(b.up_seconds * Second)

-----------------------------------------------------------------------------
(* The fields of block i that validateBlock, validateBlockLoad,            *)
(* validateRamp and validateInsecureGate report, and a repeated id.        *)
BlockErrors(f, o, i, maxConcurrent) ==
    LET b == f.block[i] IN
    {k \in DOMAIN b :
        \/ k = "id" /\ (b.id = "" \/ \E j \in 1..(i - 1) : f.block[j].id = b.id)
        \/ k = "protocol" /\ b.protocol \notin Protocols
        \/ k = "target_rotation" /\ b.target_rotation \notin {"", "sequential", "random"}
        \/ k = "interval" /\ b.interval < 0
        \/ k = "targets" /\ (b.targets = <<>> \/ \E j \in DOMAIN b.targets : ~TargetOK(b.targets[j]))
        \/ k = "persona" /\ ~Resolves(f, PersonaName(b))
        \/ k = "concurrency" /\ Concurrency(b) \notin 1..maxConcurrent
        \/ k = "duration_minutes" /\ b.duration_minutes < 1
        \/ k = "up_seconds" /\ b.ramp /\ (b.up_seconds < 0 \/ RampUp(b) > Duration(b))
        \/ k = "start_concurrency" /\ b.ramp /\ StartConcurrency(b) \notin 1..Concurrency(b)
        \/ k = "allow_insecure_reason" /\ b.allow_insecure /\ b.allow_insecure_reason = ""
        \/ k = "allow_insecure" /\ b.allow_insecure /\ ~o.allow_insecure}

(* Mutant: a window that closes too early is reported at its start.        *)
WindowErrorsAtStart(w) ==
    {k \in DOMAIN w :
        \/ k = "days" /\ (w.days = {} \/ ~(w.days \subseteq Weekdays))
        \/ k = "start" /\ \/ ~ParsesHHMM(w.start)
                          \/ ParsesHHMM(w.end) /\ HHMM(w.end) <= HHMM(w.start)
        \/ k = "end" /\ ~ParsesHHMM(w.end)}

(* validateWindow                                                          *)
WindowErrors(w) ==
    {k \in DOMAIN w :
        \/ k = "days" /\ (w.days = {} \/ ~(w.days \subseteq Weekdays))
        \/ k = "start" /\ ~ParsesHHMM(w.start)
        \/ k = "end" /\ \/ ~ParsesHHMM(w.end)
                        \/ ParsesHHMM(w.start) /\ HHMM(w.end) <= HHMM(w.start)}

TopErrors(f) ==
    LET t == f.top[1] IN
    {k \in DOMAIN t :
        \/ k = "name" /\ t.name = ""
        \/ k = "mode" /\ t.mode \notin {"", "parallel", "sequential"}
        \/ k = "weight_basis" /\ t.weight_basis \notin {"", "vuser_population", "concurrency", "request_rate"}
        \/ k = "allowed_domains" /\ "bad_host" \in t.allowed_domains
        \/ k = "timezone" /\ t.timezone = "nowhere"}

AgentCeiling(o) == DividedBy(DefaultCeiling, o.agents)

(* Everything Validate adds to its accumulator.                            *)
FileErrors(f, o) ==
    LET most == Effective(f.caps[1], AgentCeiling(o))["max_concurrent_sessions"] IN
    {<<"top", 1, k>> : k \in TopErrors(f)}
      \cup (IF f.block = <<>> THEN {<<"top", 1, "scenarios">>} ELSE {})
      \cup {<<"caps", 1, k>> : k \in CapViolations(f.caps[1], AgentCeiling(o), o.cap_override)}
      \cup (UNION {{<<"persona", i, k>> : k \in PersonaErrors(f.persona[i])} : i \in DOMAIN f.persona})
      \cup (UNION {{<<"block", i, k>> : k \in BlockErrors(f, o, i, most)} : i \in DOMAIN f.block})
      \cup (UNION {{<<"window", i, k>> : k \in WindowErrors(f.window[i])} : i \in DOMAIN f.window})

(* The frozen scenario.                                                    *)
Block(f, i) ==
    LET b == f.block[i]
        p == PersonaOf(f, PersonaName(b)) IN
    [protocol |-> b.protocol, targets |-> Len(b.targets),
     random |-> b.target_rotation = "random", interval |-> Wrap(b.interval * Second),
     insecure |-> b.allow_insecure,
     concurrency |-> Concurrency(b), duration |-> Duration(b),
     ramp |-> IF b.ramp THEN [up |-> RampUp(b), start |-> StartConcurrency(b)]
                        ELSE [up |-> 0, start |-> 0],
     persona |-> [think_time |-> p.think_time, burst |-> p.burst, length |-> p.length,
                  abandon |-> p.abandon, mix |-> p.mix]]

Frozen(f, o) ==
    [caps |-> Effective(f.caps[1], AgentCeiling(o)),
     blocks |-> [i \in DOMAIN f.block |-> Block(f, i)],
     windows |-> [i \in DOMAIN f.window |->
                    [days |-> f.window[i].days,
                     start |-> HHMM(f.window[i].start), end |-> HHMM(f.window[i].end)]]]

-----------------------------------------------------------------------------
ConfigInit == /\ file \in Files /\ opts \in Invocations
              /\ errors = {} /\ scenario = NoScenario /\ rejections = 0

(* Validate: no scenario leaves it while there is an error.                *)
Validate ==
    /\ scenario = NoScenario /\ errors = {} /\ rejections < MaxPasses
    /\ errors' = FileErrors(file, opts)
    /\ scenario' = IF errors' = {} THEN Frozen(file, opts) ELSE NoScenario
    /\ rejections' = rejections + (IF errors' = {} THEN 0 ELSE 1)
    /\ UNCHANGED <<file, opts>>

(* The operator puts a sound value into every field that was reported.     *)
Repair ==
    /\ errors # {}
    /\ file' = [s \in DOMAIN file |-> [i \in DOMAIN file[s] |-> [k \in DOMAIN file[s][i] |->
                   IF <<s, i, k>> \in errors THEN Sound[s][i][k] ELSE file[s][i][k]]]]
    /\ errors' = {}
    /\ UNCHANGED <<opts, scenario, rejections>>

ConfigNext == Validate \/ Repair
-----------------------------------------------------------------------------
(* Holding a Scenario is proof the config boundary held (scenario.go): no  *)
(* block can ask for more concurrency than the caps in force, at any time  *)
(* of its ramp and whatever its durations wrapped round to, each window    *)
(* opens before it closes, and every draw from a persona's distributions   *)
(* is a wait within the bounds the persona states.                         *)
DistSane(r) == r.kind = "" \/ \A d \in Samples(r) :
                  d >= 0 /\ (r.kind \in {"uniform", "normal"} => d \in r.min..r.max)

ConfigBoundary ==
    scenario # NoScenario =>
        /\ \A i \in DOMAIN scenario.blocks :
              LET b == scenario.blocks[i] IN
              /\ \A e \in -1..(IntRange - 1) :
                    ConcurrencyAt(b.ramp, b.concurrency, e)
                        \in 1..scenario.caps["max_concurrent_sessions"]
              /\ DistSane(b.persona.think_time) /\ DistSane(b.persona.length)
              /\ b.persona.burst.active.kind = "" \/
                    (DistSane(b.persona.burst.active) /\ DistSane(b.persona.burst.idle))
        /\ \A i \in DOMAIN scenario.windows :
              LET w == scenario.windows[i] IN w.days # {} /\ 0 <= w.start /\ w.start < w.end

(* The caps of one agent of n add up, over the fleet, to no more than the  *)
(* ceiling; or the agents outnumber the cap and each has one.              *)
WithinFleet(n, c, cap) ==
    \/ c \in SessionCaps /\ cap <= DefaultCeiling[c]
    \/ c \notin SessionCaps /\ Agents(n) * cap <= DefaultCeiling[c]
    \/ c \in CountCaps /\ cap = 1 /\ Agents(n) > DefaultCeiling[c]

(* What a file cannot do, through any repairs: without the operator's flag *)
(* no block is insecure; every cap in force is positive, even with the     *)
(* override, and without it within the fleet's ceiling.  The exception is  *)
(* a rate the file declares as NaN.                                        *)
FlagsAloneRelax ==
    scenario # NoScenario =>
        /\ ~opts.allow_insecure => \A i \in DOMAIN scenario.blocks : ~scenario.blocks[i].insecure
        /\ \A c \in CapFields :
              \/ c \in RateCaps /\ scenario.caps[c] = NaN /\ file.caps[1][c] = NaN
              \/ /\ scenario.caps[c] > 0
                 /\ opts.cap_override \/ WithinFleet(opts.agents, c, scenario.caps[c])

(* "a file alone can never relax a safety control" (validate.go, Options): *)
(* without the operator's flags no block is insecure and no cap in force   *)
(* lets more through than the agent's share of the ceiling.  A NaN rate is *)
(* in force as it stands, and tryTake refuses nothing.                     *)
FileAloneRelaxesNothing ==
    scenario # NoScenario =>
        /\ ~opts.allow_insecure => \A i \in DOMAIN scenario.blocks : ~scenario.blocks[i].insecure
        /\ ~opts.cap_override => \A c \in CapFields :
              scenario.caps[c] # NaN /\ scenario.caps[c] <= AgentCeiling(opts)[c]

(* "so that the whole fleet, summed, stays within the original ceiling"    *)
(* (ceiling.go, DividedBy).  The floor of one exceeds it when there are    *)
(* more agents than the cap.                                               *)
FleetWithinCeiling ==
    scenario # NoScenario /\ ~opts.cap_override => \A c \in CapFields \ SessionCaps :
        scenario.caps[c] = NaN \/ Agents(opts.agents) * scenario.caps[c] <= DefaultCeiling[c]

(* "a single Validate pass reports ALL problems at once" (scenario.go): a  *)
(* repaired file is accepted by the next pass.                             *)
AllProblemsAtOnce == rejections <= 1

(* What holds instead: a cap out of bounds hides the concurrency it allows *)
(* and that hides the start of the ramp, so repairs end after three passes;*)
(* unless a duration wraps round, which is reported as the ramp's fault.   *)
Wraps(b) == b.duration_minutes * Minute # Duration(b)

RepairsBounded == rejections > 3 => \E i \in DOMAIN file.block : Wraps(file.block[i])

(* A block that was given a duration of at least a minute runs for a while *)
(* (validate.go: duration_minutes is required, >= 1).                      *)
DurationPositive ==
    scenario # NoScenario => \A i \in DOMAIN scenario.blocks : scenario.blocks[i].duration > 0
=============================================================================
