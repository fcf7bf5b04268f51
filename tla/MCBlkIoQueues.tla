--------------------------- MODULE MCBlkIoQueues ---------------------------
(* Values for the constants of BlkIoQueues: see MCBlkIo*.cfg. *)
EXTENDS BlkIoQueues, TLC

CONSTANTS c1, c2, q1, none

MCCpus == {c1, c2}
MCEventIds == {q1} \X {"Q_BLOCKED", "Q_UNBLOCKED"}
                \cup {<<none, "LOST_REC">>, <<none, "OTHER">>}
MCSampledOn == q1 :> "Q_BLOCKED"
MCSymmetry == Permutations(MCCpus)
=============================================================================
