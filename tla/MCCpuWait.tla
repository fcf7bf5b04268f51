----------------------------- MODULE MCCpuWait -----------------------------
(* Values for the constants of CpuWait: see MCCpuWait.cfg. *)
EXTENDS CpuWait

CONSTANTS c1

(* Domain 0, whose id an empty slot of the table also shows, with one      *)
(* VCPU, and domain 1 with two.                                            *)
MCVcpus == {<<0, 0>>, <<1, 0>>, <<1, 1>>}
MCOneVcpu == {Wake(<<1, 0>>), Switch(<<1, 0>>), LostRecords}
MCEventIds == {Wake(v) : v \in MCVcpus} \cup {Switch(v) : v \in MCVcpus}
                \cup {LostRecords, Other}

VARIABLE oneVcpu           \* the log is of a single VCPU, and long

(* Stamps start above LongGap, as uptimes do, so that a lost record whose  *)
(* lastNs is 0 looks like a long gap.  A log of one VCPU may have          *)
(* MaxRecords records, enough for resets to fill the table; others have 5. *)
MCInit == Init /\ oneVcpu \in BOOLEAN
MCNext == /\ Next
          /\ UNCHANGED oneVcpu
          /\ index' = 1 => event'.ns = LongGap + 1
          /\ \/ event' = event
             \/ oneVcpu /\ event'.event_id \in MCOneVcpu
             \/ ~oneVcpu /\ index' <= 5
MCSpec == MCInit /\ [][MCNext]_<<waitVars, oneVcpu>>
=============================================================================
