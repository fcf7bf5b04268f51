---------------------------- MODULE MCEventLog ----------------------------
(* Values for the constants of EventLog: see MCEventLog*.cfg. *)
EXTENDS EventLog, TLC

CONSTANTS c1, c2
MCCpus == {c1, c2}
MCSymmetry == Permutations(MCCpus)
=============================================================================
