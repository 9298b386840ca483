------------------------------ MODULE Startup ------------------------------
(***************************************************************************)
(* From a scenario file to a running block: the operator validates and     *)
(* repairs the file (Config), and the accepted scenario is launched        *)
(* (BlockRun), so that the schedules, ramps and personas the engine meets  *)
(* are those Validate lets through.                                        *)
(***************************************************************************)
EXTENDS Config, BlockRun

(* The numbers of a distribution are integers.                             *)
DistTyped(r) ==
    /\ r.kind = "constant" => r.d \in Int
    /\ r.kind = "uniform" => r.min \in Int /\ r.max \in Int
    /\ r.kind = "normal" => /\ r.mean \in Int /\ r.stddev \in Int
                            /\ r.min \in Int /\ r.max \in Int
    /\ r.kind = "lognormal" => r.scale \in Int /\ r.sigma \in Int
    /\ r.kind = "exponential" => r.mean \in Int

(* The fields of a section that the models read, and their types: strict   *)
(* decoding lets no other file through.                                    *)
Fields(s) ==
    CASE s = "caps"    -> CapFields
      [] s = "block"   -> {"concurrency", "start_concurrency", "up_seconds", "ramp",
                           "allow_insecure", "persona"}
      [] s = "persona" -> {"name", "think_time", "burst", "length"}
      [] s = "window"  -> {"days", "start", "end"}
      [] OTHER         -> {}

FieldTyped(s, k, v) ==
    /\ s = "caps" => v \in Int \/ (k \in RateCaps /\ v = NaN)
    /\ s = "block" /\ k = "up_seconds" => v \in Int
    /\ s = "block" /\ k \in {"ramp", "allow_insecure"} => v \in BOOLEAN
    /\ s = "persona" /\ k \in {"think_time", "length"} => DistTyped(v)
    /\ s = "persona" /\ k = "burst" => DistTyped(v.active) /\ DistTyped(v.idle)

Sections == {"top", "caps", "block", "persona", "window"}

FileTyped(f) ==
    /\ DOMAIN f = Sections /\ 1 \in DOMAIN f.caps
    /\ \A s \in Sections :
          /\ \E n \in DOMAIN f[s] \cup {0} : DOMAIN f[s] = 1..n
          /\ \A i \in DOMAIN f[s] :
                /\ Fields(s) \subseteq DOMAIN f[s][i]
                /\ \A k \in DOMAIN f[s][i] : FieldTyped(s, k, f[s][i][k])

(* Whatever is reported of a file can be repaired.                         *)
Repairable(f) ==
    \A s \in Sections : \A i \in DOMAIN f[s] : \A k \in DOMAIN f[s][i] :
        FieldTyped(s, k, Sound[s][i][k])

(* Validate and the schedule measure the same days; what repairs a field   *)
(* has its type.                                                           *)
ASSUME StartupAssumption ==
    /\ DayHours \in Nat /\ HourMinutes \in Nat /\ DayLen = DayHours * HourMinutes
    /\ Second \in Int /\ IntRange \in Nat \ {0}
    /\ VUsers \subseteq Goroutines
    /\ Steps \subseteq Nat
    /\ \A f \in Files : FileTyped(f) /\ Repairable(f)
    /\ \A o \in Invocations : o.agents \in Int

vars == <<configVars, blockVars>>

Init == ConfigInit /\ BlockInit

(* What the goroutines of a block read of it.                              *)
View(b) == [k \in {"protocol", "targets", "random", "interval", "concurrency", "ramp", "persona"} |-> b[k]]

(* Run.start: once it runs, nothing reads the file any more.               *)
Start(i) ==
    /\ scenario # NoScenario
    /\ Launch(View(scenario.blocks[i]), scenario.windows)
    /\ scenario' = NoScenario /\ file' = <<>> /\ opts' = <<>> /\ rejections' = 0
    /\ UNCHANGED errors

Next ==
    \/ block = NoBlock /\ ConfigNext /\ UNCHANGED blockVars
    \/ scenario # NoScenario /\ \E i \in DOMAIN scenario.blocks : Start(i)
    \/ BlockNext /\ UNCHANGED configVars

Spec == Init /\ [][Next]_vars
=============================================================================
