-------------------------------- MODULE Caps --------------------------------
(***************************************************************************)
(* internal/safety: the ceiling a scenario's caps may reach (ceiling.go),  *)
(* its division among the agents of a fleet, the caps in force             *)
(* (capspec.go) and the rules declared caps obey (validate.go).            *)
(*                                                                         *)
(* A set of caps is a function of the cap's YAML key.  Rates are counted   *)
(* in thousandths of a request per second and rounded down, where the code *)
(* divides floats; a rate in a file may also be YAML's .nan.               *)
(***************************************************************************)
EXTENDS Integers

CONSTANT NaN  \* the float that is not a number

ASSUME CapsAssumption == NaN \notin Int

RateCaps == {"per_target_rps", "global_rps"}
CountCaps == {"max_concurrent_sessions", "total_request_budget",
              "streaming_byte_rate_kbps", "concurrent_streams"}
SessionCaps == {"per_session_max_duration_seconds", "per_session_max_actions"}
CapFields == RateCaps \cup CountCaps \cup SessionCaps

DefaultCeiling ==
    [per_target_rps |-> 10000, global_rps |-> 50000,
     max_concurrent_sessions |-> 20, total_request_budget |-> 1000000,
     streaming_byte_rate_kbps |-> 12000, concurrent_streams |-> 3,
     per_session_max_duration_seconds |-> 1800, per_session_max_actions |-> 10000]

FloorAtOne(v) == IF v < 1 THEN 1 ELSE v

(* Validate and DividedBy both read a count below one as one.              *)
Agents(n) == FloorAtOne(n)

(* Mutant: the per-agent share is rounded up.                              *)
DividedByUp(c, n) ==
    [f \in CapFields |->
        IF f \in SessionCaps THEN c[f]
        ELSE IF f \in RateCaps THEN c[f] \div Agents(n)
        ELSE (c[f] + Agents(n) - 1) \div Agents(n)]

(* One agent's share: counts have a floor of one, and the caps of a single *)
(* session are not divided.                                                *)
DividedBy(c, n) ==
    [f \in CapFields |->
        IF f \in SessionCaps THEN c[f]
        ELSE IF f \in RateCaps THEN c[f] \div Agents(n)
        ELSE FloorAtOne(c[f] \div Agents(n))]

(* A declared cap of zero is unset and inherits the ceiling.               *)
Effective(declared, ceiling) ==
    [f \in CapFields |-> IF declared[f] = 0 THEN ceiling[f] ELSE declared[f]]

(* The caps ValidateCaps reports: a negative one always, one above the     *)
(* ceiling unless the operator passed the override.  A comparison with NaN *)
(* is false, so NaN is never reported.                                     *)
CapViolations(declared, ceiling, override) ==
    {f \in CapFields : /\ declared[f] # NaN
                       /\ declared[f] < 0 \/ (~override /\ declared[f] > ceiling[f])}
=============================================================================
