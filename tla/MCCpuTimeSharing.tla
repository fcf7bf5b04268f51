-------------------------- MODULE MCCpuTimeSharing --------------------------
(* Values for the constants of CpuTimeSharing: see MCCpuTime*.cfg. *)
EXTENDS CpuTimeSharing, TLC

CONSTANTS c1, c2

(* Domain 0 with its second VCPU, domain 1, which has the last slot, and   *)
(* the idle domain, which has it too.  A switch goes to another VCPU.      *)
MCVcpuIds == {<<0, 1>>, <<1, 0>>, <<Idle, 0>>}
MCSwitches == {Switch(v, w) : v, w \in MCVcpuIds} \ {Switch(v, v) : v \in MCVcpuIds}
MCEventIds == MCSwitches \cup {Infprev(1, 1), Infprev(Idle, 2), LostRecords, Other}

(* Only differences of stamps matter: the first record has the first one.  *)
MCNext == Next /\ (index' = 1 => event'.ns = 1)
MCSpec == Init /\ [][MCNext]_sharingVars

MCSymmetry == Permutations({c1, c2})
=============================================================================
