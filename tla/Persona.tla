------------------------------ MODULE Persona ------------------------------
(***************************************************************************)
(* internal/persona: how a raw persona is compiled (validate.go,           *)
(* decode.go), and the samples of the distributions it is made of          *)
(* (internal/behavior/dist.go).                                            *)
(*                                                                         *)
(* A duration is a number of ticks, or Missing, a number apart, when the   *)
(* YAML field is empty or does not parse.  Fractions are percentages.  A   *)
(* template is [protocol, verb, cause, pacing, weight].                    *)
(***************************************************************************)
EXTENDS Integers, Sequences, FiniteSets

Missing == -1000
Protocols == {"dns", "http", "ssh", "stream"}
HasDur(d) == d # Missing
DurAtLeast(d, lo) == HasDur(d) /\ d >= lo

(* Mutant: an inverted uniform range is let through.                       *)
DistOKInverted(r) ==
    CASE r.kind = "uniform"     -> DurAtLeast(r.min, 0) /\ HasDur(r.max)
      [] r.kind = "constant"    -> DurAtLeast(r.d, 0)
      [] OTHER                  -> FALSE

(* parseDist and its five builders.                                        *)
DistOK(r) ==
    CASE r.kind = "constant"    -> DurAtLeast(r.d, 0)
      [] r.kind = "uniform"     -> DurAtLeast(r.min, 0) /\ DurAtLeast(r.max, r.min)
      [] r.kind = "normal"      -> /\ DurAtLeast(r.mean, 0) /\ DurAtLeast(r.stddev, 0)
                                   /\ DurAtLeast(r.min, 0) /\ DurAtLeast(r.max, r.min)
      [] r.kind = "lognormal"   -> DurAtLeast(r.scale, 0) /\ r.sigma >= 0
      [] r.kind = "exponential" -> DurAtLeast(r.mean, 1)
      [] OTHER                  -> FALSE

NonNeg(d) == IF d < 0 THEN 0 ELSE d

(* Sample, over draws of the random source: -1, 0 and 1 for the Gaussian,  *)
(* 0 and 1 for the exponential.  exp of a Gaussian draw is taken as a      *)
(* factor of 1 or 2, more with a larger sigma.                             *)
Samples(r) ==
    CASE r.kind = "constant"    -> {NonNeg(r.d)}
      [] r.kind = "uniform"     -> IF r.max <= r.min THEN {NonNeg(r.min)}
                                   ELSE {NonNeg(d) : d \in r.min..(r.max - 1)}
      [] r.kind = "normal"      ->
            {LET d == r.mean + z * r.stddev
                 up == IF d < r.min THEN r.min ELSE d
             IN  NonNeg(IF up > r.max THEN r.max ELSE up) : z \in -1..1}
      [] r.kind = "lognormal"   -> {(IF r.scale = 0 THEN 1 ELSE r.scale) * (1 + s) : s \in 0..r.sigma}
      [] r.kind = "exponential" -> {x * r.mean : x \in 0..1}

(* parseBurst, parseCurve, parseJitter: an omitted part is the no-op one.  *)
BurstOK(b) ==
    (b.active.kind = "" /\ b.idle.kind = "") \/ (DistOK(b.active) /\ DistOK(b.idle))

CurveOK(c) ==
    \/ c.location = "" /\ c.weekday = <<>> /\ c.weekend = <<>>
    \/ /\ c.location # "" /\ c.location # "nowhere"
       /\ Len(c.weekday) = 24 /\ Len(c.weekend) = 24
       /\ \A h \in 1..24 : c.weekday[h] \in 0..100 /\ c.weekend[h] \in 0..100

JitterOK(j) == j.kind \in {"", "none"} \/ (j.kind = "proportional" /\ j.fraction \in 0..100)

(* compileShape: the two distributions of a session are optional.          *)
OptionalDistOK(r) == r.kind = "" \/ DistOK(r)

(* compileMix, parseCause, parsePacing, validVerb                          *)
TemplateOK(t) ==
    /\ t.protocol \in Protocols
    /\ t.cause \in {"", "navigation", "sub-resource", "background", "control"}
    /\ t.pacing \in {"", "shaper-managed", "self-paced"}
    /\ t.verb \notin {"", "GET /"}
    /\ t.weight > 0

MixOK(mix) == mix # <<>> /\ \A i \in DOMAIN mix : TemplateOK(mix[i])

(* Compile: the fields it reports; all of them are examined.               *)
PersonaErrors(p) ==
    {f \in DOMAIN p :
        \/ f = "name" /\ p.name = ""
        \/ f = "think_time" /\ ~DistOK(p.think_time)
        \/ f = "jitter" /\ ~JitterOK(p.jitter)
        \/ f = "burst" /\ ~BurstOK(p.burst)
        \/ f = "time_of_day" /\ ~CurveOK(p.time_of_day)
        \/ f = "length" /\ ~OptionalDistOK(p.length)
        \/ f = "inter_task" /\ ~OptionalDistOK(p.inter_task)
        \/ f = "abandon" /\ p.abandon \notin 0..100
        \/ f = "mix" /\ ~MixOK(p.mix)
        \/ f = "fingerprints" /\ p.fingerprints \notin {"", "default"}}

NoDist == [kind |-> ""]
Constant(d) == [kind |-> "constant", d |-> d]
Template(proto, cause) ==
    [protocol |-> proto, verb |-> "get", cause |-> cause, pacing |-> "", weight |-> 1]

(* The embedded library, with durations in ticks: no shipped persona has a *)
(* template for streams.                                                   *)
Builtin(name, protos) ==
    [name |-> name,
     think_time |-> [kind |-> "lognormal", scale |-> 1, sigma |-> 1],
     burst |-> [active |-> [kind |-> "exponential", mean |-> 2],
                idle   |-> [kind |-> "lognormal", scale |-> 1, sigma |-> 1]],
     length |-> [kind |-> "normal", mean |-> 6, stddev |-> 2, min |-> 5, max |-> 8],
     abandon |-> 3,
     mix |-> [i \in DOMAIN protos |-> Template(protos[i], "navigation")]]

Builtins == {Builtin("office-worker", <<"http", "dns", "http">>),
             Builtin("developer", <<"ssh", "http", "dns">>),
             Builtin("admin", <<"ssh", "ssh", "http", "dns">>)}
DefaultPersonaName == "office-worker"
=============================================================================
