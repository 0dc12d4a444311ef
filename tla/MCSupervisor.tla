---------------------------- MODULE MCSupervisor ----------------------------
(***************************************************************************)
(* Supervisor instantiated for TLC.  The sets of connections, peers and    *)
(* handles are model values given in the .cfg files.                       *)
(***************************************************************************)
EXTENDS Supervisor, TLC

\* Connections and handles are interchangeable in every action and in every
\* safety property, so their permutations may be identified.  Not used by
\* the liveness runs.
Symmetry == Permutations(Conns) \cup Permutations(Handles)

=============================================================================
