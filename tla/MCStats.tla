------------------------------ MODULE MCStats ------------------------------
(***************************************************************************)
(* The two halves of Stats share nothing but the number of the snapshot    *)
(* that passes from the collector to the publisher.  TLC checks every      *)
(* interleaving of Record and snapshot without subscribers and before the  *)
(* cancel, and every interleaving of publish, subscribers and the cancel   *)
(* without results; and, for the percentiles, the snapshot of a run in     *)
(* which SampleCounts of results have fallen into each bucket and none is  *)
(* being recorded.  What those were recorded as, no percentile reads.      *)
(***************************************************************************)
EXTENDS Stats

CONSTANT SampleCounts

NoTargets == <<>>

Filled(h) == [c \in Cells |-> CASE c[1] = "hist"                -> h[c[2]]
                               [] c = <<"global", "requests">> -> FoldFunction(+, 0, h)
                               [] OTHER                        -> 0]

MCInit == Init \/ \E h \in [Slots -> SampleCounts] : Quiet(Filled(h))

IsFilled == count[<<"global", "requests">>] > recorded

OneHalf == recorded = 0 \/ (~cancelled /\ \A s \in Subs : sub[s] = "off")

MCNext == \/ ~IsFilled /\ Next /\ OneHalf'
          \/ IsFilled /\ (StartSnapshot \/ Load)

MCSpec == MCInit /\ [][MCNext]_vars /\ WF_vars(Collector)
=============================================================================
