------------------------------ MODULE MCBlkIo ------------------------------
(* Values for the constants of BlkIo: see MCBlkIo.cfg. *)
EXTENDS BlkIo

CONSTANTS c1, c2, q1, ch1, none

MCCpus == {c1, c2}
MCEventIds == {q1} \X {"Q_BLOCKED", "Q_UNBLOCKED"} \cup {<<none, "LOST_REC">>}
                \cup {ch1} \X {"SENT", "RECEIVED"}
MCSampledOn == q1 :> "Q_BLOCKED"
MCSymmetry == Permutations(MCCpus)

(* Queues and channels only meet in the stamps of records: logs with both  *)
(* need not be as long as those with one of them.  An interrupt is any     *)
(* other record to a queue.                                                *)
MCBound == \/ index <= 3
           \/ index <= 4 /\ Len(heard[ch1]) <= 1
           \/ Len(heard[ch1]) = index

MCNext == IoNext /\ MCBound'
MCSpec == IoInit /\ [][MCNext]_ioVars
=============================================================================
