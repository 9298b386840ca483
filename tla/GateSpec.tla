------------------------------ MODULE GateSpec ------------------------------
(***************************************************************************)
(* What the engine's dual-source pause gate promises its callers, with     *)
(* every operation a single step: the run is open only when every source   *)
(* is open, and a block timer that enters the open gate is given a channel *)
(* that is closed exactly when the gate has closed since.                  *)
(*                                                                         *)
(* A channel is named by its generation.  gen is the generation of the     *)
(* gate's current closeNotify channel; every earlier one is closed.        *)
(* Module Gate shows that the mutex and condition variable of gate.go      *)
(* implement this specification; module RunLifecycle is built on it.       *)
(***************************************************************************)
EXTENDS Naturals

CONSTANTS Sources,     \* the independent pause sources (gateSource)
          Clients,     \* the callers of waitOpenAndGetCloseCh
          MaxReopens,  \* bound on the generations of closeNotify
          NoChan       \* "holds no channel"

VARIABLES paused,      \* paused[s]: source s is paused
          gen,         \* generation of the current closeNotify channel
          seen         \* seen[c]: the channel client c selects on

gateVars == <<paused, gen, seen>>

Open == \A s \in Sources : ~paused[s]

(* A channel is closed when it was replaced, or when the gate is closed.   *)
ChanClosed(g) == g < gen \/ ~Open

GateInit == /\ paused = [s \in Sources |-> FALSE]
            /\ gen = 0
            /\ seen = [c \in Clients |-> NoChan]

Pause(s) == /\ paused' = [paused EXCEPT ![s] = TRUE]
            /\ UNCHANGED <<gen, seen>>

(* The source that makes the gate fully open again replaces the channel.   *)
Resume(s) ==
    /\ paused' = [paused EXCEPT ![s] = FALSE]
    /\ gen' = IF paused[s] /\ \A o \in Sources \ {s} : ~paused[o] THEN gen + 1 ELSE gen
    /\ gen' <= MaxReopens
    /\ UNCHANGED seen

Enter(c) == /\ Open
            /\ seen' = [seen EXCEPT ![c] = gen]
            /\ UNCHANGED <<paused, gen>>

Leave(c) == /\ seen' = [seen EXCEPT ![c] = NoChan]
            /\ UNCHANGED <<paused, gen>>

GateNext == \/ \E s \in Sources : Pause(s) \/ Resume(s)
            \/ \E c \in Clients : Enter(c) \/ Leave(c)

GateSpecification == GateInit /\ [][GateNext]_gateVars
=============================================================================
