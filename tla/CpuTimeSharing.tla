--------------------------- MODULE CpuTimeSharing ---------------------------
(***************************************************************************)
(* examples/cpu_time_sharing: how long each physical CPU ran each domain   *)
(* and each of its VCPUs.  switch_infprev remembers the run time that the  *)
(* hypervisor reports for the domain it leaves; switch_sched, called for   *)
(* every switch, adds up the time between switches, and starts a CPU it    *)
(* has not met with the run time remembered; lost_records clears both      *)
(* after a long gap.  The finalizer sums the CPUs' times up in a table     *)
(* with a row per domain, which it prints.                                 *)
(***************************************************************************)
EXTENDS EventFeed, UnsignedTime, KeyedList, Sequences, Functions, FiniteSetsExt

CONSTANTS VcpuIds,       \* domains with one of their VCPUs: <<dom, vcpu>>
          Idle,          \* the id of the idle domain, 0x7fff
          Runtimes,      \* run times switch_infprev reports
          MaxDoms,       \* MAX_DOMS, 25
          LongGap        \* LOST_REC_MAX_TIME

Switch(v, w) == <<"SWITCH", v, w>>               \* from VCPU v to VCPU w
Infprev(dom, runtime) == <<"INFPREV", dom, runtime>>
LostRecords == <<"LOST_REC">>
Other == <<"OTHER">>

Doms == {v[1] : v \in VcpuIds}

(* The tables are indexed by the domain id without a check.                *)
ASSUME DomsAssumption == /\ MaxDoms \in Nat \ {0}
                         /\ Doms \subseteq 0 .. MaxDoms - 1 \cup {Idle}
                         /\ \A v \in VcpuIds : v[2] \in Nat
ASSUME StampsFitAssumption == NsModulus > MaxNs
ASSUME RuntimesAssumption == Runtimes \subseteq Times
ASSUME LongGapAssumption == LongGap \in Nat
ASSUME IdsFiniteAssumption == IsFiniteSet(Cpus) /\ IsFiniteSet(VcpuIds)
ASSUME SharingIdsAssumption ==
    EventIds \subseteq {Switch(v, w) : v \in VcpuIds, w \in VcpuIds}
                         \cup {Infprev(dom, runtime) : dom \in Doms, runtime \in Runtimes}
                         \cup {LostRecords, Other}

VARIABLES lastRuntime,   \* per CPU met by switch_infprev, per slot
          cpuTimes,      \* per CPU met by switch_sched: its CpuTimes
          table,         \* totalDomRuntime, row after row, or a write outside of it
          ended,         \* the finalizers ran
          switches,      \* history: the switches of each CPU since the last reset
          reports        \* history: the run times reported on each CPU before
                         \* the first of these switches

sharingVars == <<feedVars, lastRuntime, cpuTimes, table, ended, switches, reports>>

Slots == 0 .. MaxDoms - 1

(* The idle domain has the last slot, which domain MaxDoms - 1 has too.    *)
SlotOf(dom) == IF dom = Idle THEN MaxDoms - 1 ELSE dom

(* A VCPU as an entry of cpuTimes knows it: by slot and VCPU id            *)
Entry(v) == <<SlotOf(v[1]), v[2]>>

Nothing == [cpu \in Cpus |-> << >>]

(* Before the finalizer, and when no CPU was met *)
NoTable == [overrun |-> FALSE, cells |-> << >>]

Init == /\ FeedInit
        /\ lastRuntime = << >>
        /\ cpuTimes = << >>
        /\ table = NoTable
        /\ ended = FALSE
        /\ switches = Nothing
        /\ reports = Nothing

-----------------------------------------------------------------------------
(* mutant: a CPU that is already in the list keeps its run time *)
FirstRuntimeOnly(dom, runtime) ==
    lastRuntime' = IF event'.cpu \in DOMAIN lastRuntime THEN lastRuntime
                   ELSE Put(lastRuntime, event'.cpu,
                            [[slot \in Slots |-> 0] EXCEPT ![SlotOf(dom)] = runtime])

(* switch_infprev_handler *)
SwitchInfprev(dom, runtime) ==
    LET cpu == event'.cpu
        known == IF cpu \in DOMAIN lastRuntime THEN lastRuntime[cpu]
                                               ELSE [slot \in Slots |-> 0]
    IN lastRuntime' = Put(lastRuntime, cpu, [known EXCEPT ![SlotOf(dom)] = runtime])

(* switch_infprev_last_runtime *)
LastRuntime(cpu, dom) ==
    IF cpu \in DOMAIN lastRuntime THEN lastRuntime[cpu][SlotOf(dom)] ELSE 0

(* mutant: the stamp of a new CPU is not set *)
NewCpuUnstamped(v, w) ==
    LET runtime == LastRuntime(event'.cpu, v[1])
    IN [prevNs |-> 0, prev |-> w, totalCpuTime |-> runtime,
        totalDomTime |-> [[slot \in Slots |-> 0] EXCEPT ![SlotOf(v[1])] = runtime],
        vcpuTimes |-> [e \in {Entry(v)} |-> runtime]]

(* The entry of a CPU met for the first time.  A slot's numVcpus is the    *)
(* number of entries of vcpuTimes that are its.                            *)
NewCpu(v, w) ==
    LET runtime == LastRuntime(event'.cpu, v[1])
    IN [prevNs |-> event'.ns, prev |-> w, totalCpuTime |-> runtime,
        totalDomTime |-> [[slot \in Slots |-> 0] EXCEPT ![SlotOf(v[1])] = runtime],
        vcpuTimes |-> [e \in {Entry(v)} |-> runtime]]

(* A VCPU not met on this CPU before starts with 0, lastRuntime being set  *)
(* for a new CPU only.                                                     *)
AddToVcpu(times, v, runtime) ==
    IF v \in DOMAIN times THEN [times EXCEPT ![v] = Plus(@, runtime)]
                          ELSE Put(times, v, 0)

(* mutant: the stamp is not moved on *)
KeepsPrevNs(c, v, w) ==
    LET runtime == Minus(event'.ns, c.prevNs)
    IN [c EXCEPT !.vcpuTimes = AddToVcpu(@, Entry(v), runtime),
                 !.totalDomTime[SlotOf(v[1])] = Plus(@, runtime),
                 !.totalCpuTime = Plus(@, runtime),
                 !.prev = w]

(* mutant: the run time goes to the VCPU that starts to run *)
CreditsNext(c, v, w) ==
    LET runtime == Minus(event'.ns, c.prevNs)
    IN [c EXCEPT !.vcpuTimes = AddToVcpu(@, Entry(w), runtime),
                 !.totalDomTime[SlotOf(v[1])] = Plus(@, runtime),
                 !.totalCpuTime = Plus(@, runtime),
                 !.prevNs = event'.ns,
                 !.prev = w]

(* The CPU c leaves the VCPU it was switched to, v, for w.                 *)
AddRuntime(c, v, w) ==
    LET runtime == Minus(event'.ns, c.prevNs)
    IN [c EXCEPT !.vcpuTimes = AddToVcpu(@, Entry(v), runtime),
                 !.totalDomTime[SlotOf(v[1])] = Plus(@, runtime),
                 !.totalCpuTime = Plus(@, runtime),
                 !.prevNs = event'.ns,
                 !.prev = w]

(* switch_sched_handler: a switch from another VCPU than the CPU was       *)
(* switched to last changes nothing, not even what is expected next.       *)
SwitchSched(v, w) ==
    LET cpu == event'.cpu
    IN \/ /\ cpu \in DOMAIN cpuTimes /\ cpuTimes[cpu].prev = v
          /\ cpuTimes' = [cpuTimes EXCEPT ![cpu] = AddRuntime(@, v, w)]
       \/ /\ cpu \in DOMAIN cpuTimes /\ cpuTimes[cpu].prev # v
          /\ UNCHANGED cpuTimes
       \/ /\ cpu \notin DOMAIN cpuTimes
          /\ cpuTimes' = Put(cpuTimes, cpu, NewCpu(v, w))

SeeSwitch(v, w) ==
    switches' = [switches EXCEPT ![event'.cpu] =
                   Append(@, [from |-> v, to |-> w, ns |-> event'.ns])]

SeeReport(dom, runtime) ==
    reports' = IF switches[event'.cpu] # << >> THEN reports
               ELSE [reports EXCEPT ![event'.cpu] =
                       Append(@, [slot |-> SlotOf(dom), runtime |-> runtime])]

(* switch_infprev_reset and switch_sched_reset *)
ResetData == /\ lastRuntime' = << >>
             /\ cpuTimes' = << >>
             /\ switches' = Nothing
             /\ reports' = Nothing

(* lost_records_handler *)
LostRecordsHandler ==
    \/ Minus(event'.ns, event'.lastNs) > LongGap /\ ResetData
    \/ /\ Minus(event'.ns, event'.lastNs) <= LongGap
       /\ UNCHANGED <<lastRuntime, cpuTimes, switches, reports>>

Record(cpu, id, ns) ==
    /\ ~ended
    /\ Feed(cpu, id, ns)
    /\ \/ \E dom \in Doms, runtime \in Runtimes :
            /\ id = Infprev(dom, runtime) /\ SwitchInfprev(dom, runtime)
            /\ SeeReport(dom, runtime)
            /\ UNCHANGED <<cpuTimes, switches>>
       \/ \E v, w \in VcpuIds :
            /\ id = Switch(v, w) /\ SwitchSched(v, w)
            /\ SeeSwitch(v, w)
            /\ UNCHANGED <<lastRuntime, reports>>
       \/ id = LostRecords /\ LostRecordsHandler
       \/ id = Other /\ UNCHANGED <<lastRuntime, cpuTimes, switches, reports>>
    /\ UNCHANGED <<table, ended>>

-----------------------------------------------------------------------------
(* The VCPU entries of all CPUs, each with its CPU *)
Entries == UNION {{cpu} \X (DOMAIN cpuTimes[cpu].vcpuTimes) : cpu \in DOMAIN cpuTimes}

EntriesOf(slot) == {e \in Entries : e[2][1] = slot}

(* calc_max_num_vcpus: a VCPU counts once for every CPU it ran on.         *)
MaxNumVcpus == Max({Cardinality(EntriesOf(slot)) : slot \in Slots})

(* totalDomRuntime[slot][column] in the memory of the table *)
Cell(slot, column) == slot * (MaxNumVcpus + 1) + column

(* mutant: the VCPUs' columns start at 0 *)
ColumnFromZero(e) == Cell(e[2][1], e[2][2])

(* The cell an entry of a CPU's VCPU is added to: that of its VCPU id,     *)
(* whatever the number of columns.                                         *)
VcpuCell(e) == Cell(e[2][1], e[2][2] + 1)

CellsUsed == {VcpuCell(e) : e \in Entries}

(* The time of a slot on all CPUs *)
TotalDomTime(slot) ==
    SumFunction([cpu \in DOMAIN cpuTimes |-> cpuTimes[cpu].totalDomTime[slot]])
      % NsModulus

(* The time of the VCPUs' entries es *)
VcpuTime(es) ==
    SumFunctionOnSet([e \in Entries |-> cpuTimes[e[1]].vcpuTimes[e[2]]], es)

Cells == 0 .. Cell(MaxDoms, 0) - 1

TotalDomRuntime ==
    [cell \in Cells |->
       Plus(SumFunctionOnSet([slot \in Slots |-> TotalDomTime(slot)],
                             {slot \in Slots : Cell(slot, 0) = cell}),
            VcpuTime({e \in Entries : VcpuCell(e) = cell}))]

(* switch_sched_finalize prints the table, and frees the lists, which      *)
(* nothing reads any more.                                                 *)
Finalize ==
    /\ ~ended
    /\ ended' = TRUE
    /\ table' = IF DOMAIN cpuTimes = {} THEN NoTable
                ELSE [overrun |-> ~ (CellsUsed \subseteq Cells), cells |-> TotalDomRuntime]
    /\ UNCHANGED <<feedVars, lastRuntime, cpuTimes, switches, reports>>

Next == \/ \E cpu \in Cpus, id \in EventIds, ns \in 1 .. MaxNs : Record(cpu, id, ns)
        \/ Finalize

Spec == Init /\ [][Next]_sharingVars

-----------------------------------------------------------------------------
TypeOK ==
    /\ FeedTypeOK
    /\ DOMAIN lastRuntime \subseteq Cpus
    /\ \A cpu \in DOMAIN lastRuntime : lastRuntime[cpu] \in [Slots -> Times]
    /\ DOMAIN cpuTimes \subseteq Cpus
    /\ \A cpu \in DOMAIN cpuTimes :
         LET c == cpuTimes[cpu]
         IN /\ c.prevNs \in 1 .. MaxNs /\ c.prev \in VcpuIds
            /\ c.totalCpuTime \in Times
            /\ c.totalDomTime \in [Slots -> Times]
            /\ DOMAIN c.vcpuTimes \subseteq {Entry(v) : v \in VcpuIds}
            /\ \A e \in DOMAIN c.vcpuTimes : c.vcpuTimes[e] \in Times
    /\ ended \in BOOLEAN
    /\ table \in {NoTable} \cup [overrun : BOOLEAN, cells : [Cells -> Times]]

First(cpu) == Entry(switches[cpu][1].from)

(* What a CPU starts with: the run time reported last of the domain it     *)
(* leaves first                                                            *)
Seed(cpu) ==
    LET its == {i \in DOMAIN reports[cpu] : reports[cpu][i].slot = First(cpu)[1]}
    IN IF its = {} THEN 0 ELSE reports[cpu][Max(its)].runtime

(* What a CPU has counted between two switches is time of the CPU, none of *)
(* it counted twice, whatever switches are missing or contradict others.   *)
Ledger == INSTANCE TimeLedger
            WITH Meters <- Cpus,
                 now <- IF event = NoEvent THEN 0 ELSE event.ns,
                 ledger <- [cpu \in DOMAIN cpuTimes |->
                              [since |-> switches[cpu][1].ns,
                               upto |-> cpuTimes[cpu].prevNs,
                               counted |-> Minus(cpuTimes[cpu].totalCpuTime, Seed(cpu))]]

ImplementsLedger == Ledger!Spec

(* A complete trace of a CPU: each switch leaves the VCPU the one before   *)
(* went to.                                                                *)
Complete(cpu) == \A i \in 1 .. Len(switches[cpu]) - 1 :
                   switches[cpu][i].to = switches[cpu][i+1].from

(* The stints of a CPU, numbered by the switch they start with; the last   *)
(* one has not ended.                                                      *)
Stints(cpu) == 1 .. Len(switches[cpu]) - 1
Ran(cpu, i) == Entry(switches[cpu][i].to)
Length(cpu, i) == switches[cpu][i+1].ns - switches[cpu][i].ns
TimeOf(cpu, stints) == SumFunctionOnSet([i \in Stints(cpu) |-> Length(cpu, i)], stints)

(* For a CPU whose trace is complete the domains' times are exact: a slot  *)
(* has the time of the stints of its domains, idle and domain MaxDoms - 1  *)
(* alike, and the slot of the domain that ran first has its reported run   *)
(* time besides.                                                           *)
TimesExact ==
    \A cpu \in DOMAIN cpuTimes :
      Complete(cpu) =>
        \A slot \in Slots :
          cpuTimes[cpu].totalDomTime[slot] =
            Plus(TimeOf(cpu, {i \in Stints(cpu) : Ran(cpu, i)[1] = slot}),
                 IF slot = First(cpu)[1] THEN Seed(cpu) ELSE 0)

(* The first stint of a VCPU on a CPU, unless it is the VCPU that ran      *)
(* there first of all *)
Missed(cpu) == {i \in Stints(cpu) : /\ Ran(cpu, i) # First(cpu)
                                    /\ \A j \in 1 .. i-1 : Ran(cpu, j) # Ran(cpu, i)}

(* Switch_sched.c:59-61, "add runtime to the domain and its vcpu".  For a  *)
(* CPU whose trace is complete a VCPU has, beyond the run time reported of *)
(* it, never more than the time of its stints, and never less than that of *)
(* all but its first one there, which line 95 leaves out: the time a VCPU  *)
(* loses is one stint for each CPU it ran on, however long the log.        *)
VcpuTimesWithinStints ==
    \A cpu \in DOMAIN cpuTimes :
      Complete(cpu) =>
        \A e \in DOMAIN cpuTimes[cpu].vcpuTimes :
          LET own == Minus(cpuTimes[cpu].vcpuTimes[e],
                           IF e = First(cpu) THEN Seed(cpu) ELSE 0)
              mine == {i \in Stints(cpu) : Ran(cpu, i) = e}
          IN /\ TimeOf(cpu, mine \ Missed(cpu)) <= own
             /\ own <= TimeOf(cpu, mine)

Printed == ended /\ DOMAIN cpuTimes # {}

DomColumnHolds(slot) == table.cells[Cell(slot, 0)] = TotalDomTime(slot)

VcpuColumnHolds(v) ==
    table.cells[Cell(v[1], v[2] + 1)] = VcpuTime({e \in Entries : e[2] = v}) % NsModulus

VcpusMet == {e[2] : e \in Entries}

(* As long as each VCPU id is less than the largest number of VCPU entries *)
(* of a domain, the table has the totals of domains and VCPUs.             *)
TableExactIfIdsFit ==
    Printed /\ (\A v \in VcpusMet : v[2] < MaxNumVcpus) =>
      /\ ~ table.overrun
      /\ \A slot \in Slots : DomColumnHolds(slot)
      /\ \A v \in VcpusMet : VcpuColumnHolds(v)

(* Switch_sched.c:199-200, "index 0 has total dom time", "index 1 and up   *)
(* has total vcpu time across all cpus".  A VCPU whose id is not less than *)
(* the number of VCPU entries is added to another domain's row, or outside *)
(* of the table.                                                           *)
TableHoldsTotals ==
    Printed => /\ ~ table.overrun
               /\ \A slot \in Slots : DomColumnHolds(slot)
               /\ \A v \in VcpusMet : VcpuColumnHolds(v)
=============================================================================
