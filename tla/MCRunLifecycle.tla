--------------------------- MODULE MCRunLifecycle ---------------------------
(* RunLifecycle for TLC: durations, one block ending before the other, and *)
(* a bound on the audit sink's failures.  After a lost record no other     *)
(* one is lost, and neither the schedule nor a context interferes: the     *)
(* trail has to do with the callers, complete() and the command.           *)
EXTENDS RunLifecycle

CONSTANT Short  \* a block of one tick; the others last two

MCDuration == [b \in Blocks |-> IF b = Short THEN 1 ELSE 2]

OneLoss ==
    /\ lost /\ state' # state => log' # log \/ state' \notin Audited
    /\ lost' => /\ edges' = 0 /\ runErr' # "ctx"
                /\ cancelled' => state' \notin {"Running", "Paused"}

MCFairSpec == Init /\ [][Next /\ OneLoss]_vars /\ Fairness
=============================================================================
