----------------------------- MODULE MCXenStats -----------------------------
(* Values for the constants of XenStats: see MCXenStats.cfg. *)
EXTENDS XenStats, TLC

CONSTANTS c1, c2, k1, k2, t1, t2

MCEventIds == DomainIds \cup XenIds \cup {LostRecords}
MCSymmetry == Permutations({c1, c2}) \cup Permutations({k1, k2}) \cup Permutations({t1, t2})
=============================================================================
