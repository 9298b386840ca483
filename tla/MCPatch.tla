------------------------------ MODULE MCPatch ------------------------------
(* Patch for TLC: two blocks that share a target, the first with one of    *)
(* its own, the second with an ID that begins with the first's and a       *)
(* slash, and patches that between them take every branch both ways.       *)
EXTENDS Patch, TLC

CONSTANTS b1, b2, w1, w2, h1, h2, h3

MCBlockOf == (w1 :> b1) @@ (w2 :> b2)
MCTargets == (b1 :> <<h1, h2>>) @@ (b2 :> <<h1>>)
MCUnder == (b1 :> {b1, b2}) @@ (b2 :> {b2})
MCCaps == [f \in CapFields |-> 2]
MCWeights == (b1 :> 2) @@ (b2 :> 4)

Caps(s) == [kind |-> "caps", set |-> s]
Concurrency(k) == [kind |-> "concurrency", n |-> k]
Weights(s) == [kind |-> "weights", set |-> s]
Rotation(s) == [kind |-> "rotation", sec |-> s]
Add(b, a) == [kind |-> "add", block |-> b, addr |-> a]
Disable(t) == [kind |-> "disable", tid |-> t]

MCPatches ==
    { <<Caps("global" :> 1), Concurrency(2)>>,
      <<Caps(("global" :> 3) @@ ("target" :> 1))>>,
      <<Concurrency(2), Rotation(-1)>>,
      <<Concurrency(0)>>,
      <<Weights(b1 :> 6), Rotation(1)>>,
      <<Weights(b2 :> 0)>>,
      <<Weights("unknown" :> 1)>>,
      <<Caps("target" :> 0)>>,
      <<Add("unknown", h3)>>,
      <<Add(b1, "otherScheme")>>,
      <<Add(b2, "unparsable")>>,
      <<Add(b1, h1), Add(b2, h3), Disable(h1)>>,
      <<Add(b2, h3), Add(b1, "outside")>>,
      <<Disable(<<b2, 1>>), Disable(<<b1, 2>>)>> }

(* Each claim of a comment needs one patch, or the same twice, to be       *)
(* refuted.                                                                *)
MCAddPatches == { <<Add(b2, h3)>> }
MCPartialPatches == { <<Concurrency(2), Rotation(-1)>> }
=============================================================================
