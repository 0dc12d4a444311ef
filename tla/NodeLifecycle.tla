---------------------------- MODULE NodeLifecycle ----------------------------
(***************************************************************************)
(* What a node promises about its life, seen from outside: it serves       *)
(* inbound connections while it runs, admits none once it was asked to     *)
(* stop, serves nothing once it has stopped, and never comes back.         *)
(*                                                                         *)
(* This is the contract of the engine supervisor (priority of the shutdown *)
(* signal, cancellation wired into every child task); module Supervisor is *)
(* shown to implement it.                                                  *)
(***************************************************************************)
CONSTANT Conns      \* inbound connections

VARIABLES
    phase,          \* "running", "stopping" or "stopped"
    serving         \* connections a task of the node works on

lifecycleVars == <<phase, serving>>

LifecycleInit ==
    /\ phase = "running"
    /\ serving = {}

\* A connection is taken on: only by a node nobody asked to stop.
Admit(c) ==
    /\ phase = "running"
    /\ c \notin serving
    /\ serving' = serving \cup {c}
    /\ UNCHANGED phase

\* Work on a connection ends by itself.
Release(c) ==
    /\ phase # "stopped"
    /\ c \in serving
    /\ serving' = serving \ {c}
    /\ UNCHANGED phase

\* The node is asked to stop.
BeginStop ==
    /\ phase = "running"
    /\ phase' = "stopping"
    /\ UNCHANGED serving

\* The node stops, gracefully after `BeginStop` or at once when it is torn
\* down: whatever it still served is cut off.
Halt ==
    /\ phase # "stopped"
    /\ phase' = "stopped"
    /\ serving' = {}

LifecycleNext ==
    \/ \E c \in Conns : Admit(c) \/ Release(c)
    \/ BeginStop
    \/ Halt

LifecycleSpec == LifecycleInit /\ [][LifecycleNext]_lifecycleVars

=============================================================================
