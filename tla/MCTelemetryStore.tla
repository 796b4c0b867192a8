---------------------------- MODULE MCTelemetryStore ----------------------------
(***************************************************************************)
(* A small instance of TelemetryStore: the times of heartbeats are half    *)
(* minutes.                                                                *)
(***************************************************************************)
EXTENDS TelemetryStore, TLC

MCUsages == {[tokens |-> 1, exact |-> TRUE, final |-> TRUE],
             [tokens |-> 1, exact |-> FALSE, final |-> TRUE],
             [tokens |-> 1, exact |-> TRUE, final |-> FALSE]}

\* Runs differ by their kind alone, which they are given when they start.
MCSymmetry == Permutations(Runs)

===============================================================================
