------------------------------ MODULE CpuWait ------------------------------
(***************************************************************************)
(* examples/cpu_wait: how long domains wait for a CPU between the wake-up  *)
(* of one of their VCPUs and the switch to it.  domain_wake keeps a list   *)
(* of VCPUs per domain, switch_sched a table of MAX_DOMS domains and a     *)
(* histogram, and lost_records clears both after a long gap in the trace.  *)
(*                                                                         *)
(* One step is one record of the log with the handler of its id.  What     *)
(* switch_infprev, switch_infnext and the sched* fields of switch_sched    *)
(* remember is only read by sanity_check_domId, which nothing calls; their *)
(* records are among Other.                                                *)
(***************************************************************************)
EXTENDS EventFeed, UnsignedTime, KeyedList, Sequences, FiniteSetsExt, Functions

CONSTANTS Doms,          \* domain ids that occur in the log; 0 among them or not
          Vcpus,
          MaxDoms,       \* MAX_DOMS, 25
          BucketSize,    \* MAX_WAIT_TIME / NUM_SAMPLES
          NumSamples,    \* NUM_SAMPLES, 10
          LongGap,       \* LOST_REC_MAX_TIME
          Freed          \* buckets after free

Wake(v) == <<"WAKE", v>>
Switch(v) == <<"SWITCH", v>>       \* to VCPU v
LostRecords == <<"LOST_REC">>
Other == <<"OTHER">>               \* a switch to the idle domain, among others

(* domainWakeData is indexed by the domain id without a check: the ids of  *)
(* a log the program can read are below MAX_DOMS.                          *)
ASSUME DomsAssumption == Doms \subseteq 0 .. MaxDoms - 1 /\ MaxDoms \in Nat \ {0}
ASSUME WaitEventIdsAssumption ==
    EventIds \subseteq {Wake(v) : v \in Doms \X Vcpus} \cup {Switch(v) : v \in Doms \X Vcpus}
                         \cup {LostRecords, Other}
ASSUME HistogramAssumption == BucketSize \in Nat \ {0} /\ NumSamples \in Nat \ {0}
ASSUME LongGapAssumption == LongGap \in Nat
ASSUME StampsFitAssumption == NsModulus > MaxNs

VARIABLES woken,           \* domainWakeData: the entry of each VCPU met
          d,               \* switchSchedData.d
          numDoms,         \* add_dom_wait_time's static, and its copy in the data
          totalWaitTime,
          buckets,
          ended,           \* the finalizers ran
          since            \* history: wakes and switches since the last reset

waitVars == <<feedVars, woken, d, numDoms, totalWaitTime, buckets, ended, since>>

Slots == 0 .. MaxDoms - 1
EmptyTable == [i \in Slots |-> [domId |-> 0, domIdWaitTime |-> 0]]
EmptyHistogram == [b \in 0 .. NumSamples |-> 0]

Init == /\ FeedInit
        /\ woken = << >>
        /\ d = EmptyTable
        /\ numDoms = 0
        /\ totalWaitTime = 0
        /\ buckets = EmptyHistogram
        /\ ended = FALSE
        /\ since = << >>

-----------------------------------------------------------------------------
Remember(id) == since' = Append(since, [id |-> id, ns |-> event'.ns])

(* mutant: a VCPU that is already in the list is left as it is *)
FirstWakeOnly(v) ==
    /\ woken' = IF v \in DOMAIN woken THEN woken
                ELSE Put(woken, v, [wakeDomFlag |-> TRUE, wakeNs |-> event'.ns])
    /\ Remember(Wake(v))
    /\ UNCHANGED <<d, numDoms, totalWaitTime, buckets, ended>>

(* domain_wake_handler *)
DomainWake(v) ==
    /\ woken' = Put(woken, v, [wakeDomFlag |-> TRUE, wakeNs |-> event'.ns])
    /\ Remember(Wake(v))
    /\ UNCHANGED <<d, numDoms, totalWaitTime, buckets, ended>>

(* get_wake_dom_flag *)
WakeDomFlag(v) == v \in DOMAIN woken /\ woken[v].wakeDomFlag

(* reset_wake_dom_flag, of a VCPU in the list *)
ResetWakeDomFlag(v) == woken' = [woken EXCEPT ![v] = [wakeDomFlag |-> FALSE, wakeNs |-> 0]]

(* mutant: the last bucket taken for full one sample early *)
BucketBelow(diff) == IF diff \div BucketSize >= NumSamples - 1 THEN NumSamples
                     ELSE diff \div BucketSize

BucketOf(diff) == IF diff \div BucketSize >= NumSamples THEN NumSamples
                  ELSE diff \div BucketSize

SlotsOf(dom) == {i \in 0 .. numDoms - 1 : d[i].domId = dom}

(* add_dom_wait_time: a domain found in the table, and only such a domain, *)
(* also enters the histogram; a new one is appended, or ignored when the   *)
(* table is full.                                                          *)
AddToKnownDom(dom, diff) ==
    /\ SlotsOf(dom) # {}
    /\ d' = [d EXCEPT ![Min(SlotsOf(dom))].domIdWaitTime = Plus(@, diff)]
    /\ totalWaitTime' = Plus(totalWaitTime, diff)
    /\ buckets' = [buckets EXCEPT ![BucketOf(diff)] = @ + 1]
    /\ UNCHANGED numDoms

(* mutant: the test for a full table forgotten *)
AddAnyDom(dom, diff) ==
    /\ SlotsOf(dom) = {}
    /\ d' = [d EXCEPT ![numDoms] = [domId |-> dom, domIdWaitTime |-> diff]]
    /\ numDoms' = numDoms + 1
    /\ totalWaitTime' = Plus(totalWaitTime, diff)
    /\ UNCHANGED buckets

AddNewDom(dom, diff) ==
    /\ SlotsOf(dom) = {} /\ numDoms < MaxDoms
    /\ d' = [d EXCEPT ![numDoms] = [domId |-> dom, domIdWaitTime |-> diff]]
    /\ numDoms' = numDoms + 1
    /\ totalWaitTime' = Plus(totalWaitTime, diff)
    /\ UNCHANGED buckets

TableFull(dom) ==
    /\ SlotsOf(dom) = {} /\ numDoms = MaxDoms
    /\ UNCHANGED <<d, numDoms, totalWaitTime, buckets>>

(* switch_sched_handler, to a domain other than the idle one *)
SwitchSched(v) ==
    /\ \/ /\ WakeDomFlag(v)
          /\ LET diff == Minus(event'.ns, woken[v].wakeNs)
             IN \/ AddToKnownDom(v[1], diff)
                \/ AddNewDom(v[1], diff)
                \/ TableFull(v[1])
          /\ ResetWakeDomFlag(v)
       \/ /\ ~WakeDomFlag(v)
          /\ UNCHANGED <<woken, d, numDoms, totalWaitTime, buckets>>
    /\ Remember(Switch(v))
    /\ UNCHANGED ended

(* mutant: the total survives the reset *)
ResetKeepsTotal ==
    /\ d' = EmptyTable
    /\ buckets' = EmptyHistogram
    /\ UNCHANGED <<numDoms, totalWaitTime>>

(* The count of domains, static in add_dom_wait_time, stays.  The reset    *)
(* also clears the word after the last bucket, which is within what malloc *)
(* returned and no one reads.                                              *)
SwitchSchedReset ==
    /\ d' = EmptyTable
    /\ totalWaitTime' = 0
    /\ buckets' = EmptyHistogram
    /\ UNCHANGED numDoms

DomainWakeReset == woken' = << >>

ResetData == /\ SwitchSchedReset
             /\ DomainWakeReset
             /\ since' = << >>

(* lost_records_handler *)
LostRecordsHandler ==
    /\ \/ Minus(event'.ns, event'.lastNs) > LongGap /\ ResetData
       \/ /\ Minus(event'.ns, event'.lastNs) <= LongGap
          /\ UNCHANGED <<woken, d, numDoms, totalWaitTime, buckets, since>>
    /\ UNCHANGED ended

Record(cpu, id, ns) ==
    /\ ~ended
    /\ Feed(cpu, id, ns)
    /\ \/ \E v \in Doms \X Vcpus : id = Wake(v) /\ DomainWake(v)
       \/ \E v \in Doms \X Vcpus : id = Switch(v) /\ SwitchSched(v)
       \/ id = LostRecords /\ LostRecordsHandler
       \/ /\ id = Other
          /\ UNCHANGED <<woken, d, numDoms, totalWaitTime, buckets, ended, since>>

SwitchSchedFinalize == buckets' = Freed /\ UNCHANGED <<d, numDoms, totalWaitTime>>

DomainWakeFinalize == woken' = << >>

Finalize == /\ ~ended
            /\ ended' = TRUE
            /\ SwitchSchedFinalize
            /\ DomainWakeFinalize
            /\ UNCHANGED <<feedVars, since>>

Next == \/ \E cpu \in Cpus, id \in EventIds, ns \in 1 .. MaxNs : Record(cpu, id, ns)
        \/ Finalize

Spec == Init /\ [][Next]_waitVars

-----------------------------------------------------------------------------
TypeOK ==
    /\ FeedTypeOK
    /\ DOMAIN woken \subseteq Doms \X Vcpus
    /\ \A v \in DOMAIN woken : woken[v] \in [wakeDomFlag : BOOLEAN, wakeNs : 0 .. MaxNs]
    /\ d \in [Slots -> [domId : Doms \cup {0}, domIdWaitTime : Times]]
    /\ numDoms \in 0 .. MaxDoms
    /\ totalWaitTime \in Times
    /\ buckets \in [0 .. NumSamples -> Nat] \/ (ended /\ buckets = Freed)
    /\ ended \in BOOLEAN

(* A wake-up at since[j] is answered by the switch at since[i]: the two    *)
(* are of the same VCPU, and it is not woken or switched to in between.    *)
Answers(i, j) ==
    /\ j < i
    /\ since[i].id[1] = "SWITCH"
    /\ since[j].id = Wake(since[i].id[2])
    /\ \A k \in j+1 .. i-1 : since[k].id[2] # since[i].id[2]

(* The waits told by the records since the last reset *)
Waits == {[dom |-> since[w[1]].id[2][1], switch |-> w[1], wake |-> w[2],
           time |-> since[w[1]].ns - since[w[2]].ns] :
            w \in {x \in (DOMAIN since) \X (DOMAIN since) : Answers(x[1], x[2])}}

TotalTime(waits) == SumFunction([w \in waits |-> w.time]) % NsModulus

(* Domains the table has, or has room for.  numDoms outlives a reset, so   *)
(* the room is what the domains before and after all the resets left: of a *)
(* domain that came too late nothing is claimed.                           *)
Kept == {dom \in Doms : SlotsOf(dom) # {} \/ numDoms < MaxDoms}

SumOfSlots(slots) == SumFunction([i \in slots |-> d[i].domIdWaitTime]) % NsModulus

(* Each VCPU of dom is woken and switched to in turn, starting with a      *)
(* wake-up: nothing tells of an event that comes while it waits already,   *)
(* or of a switch to it that ends a wait without an event.                 *)
InTurn(dom) ==
    \A i \in DOMAIN since :
      since[i].id[2][1] = dom =>
        /\ since[i].id[1] = "SWITCH" => \E j \in DOMAIN since : Answers(i, j)
        /\ since[i].id[1] = "WAKE" =>
             \A j \in 1 .. i-1 :
               since[j].id = since[i].id => \E k \in j+1 .. i-1 : since[k].id[2] = since[i].id[2]

(* doc/cpu-wait-analysis.txt:30-37: a VCPU waits from the event it is to   *)
(* process until it is scheduled.  If the VCPUs of a domain are woken and  *)
(* switched to in turn, the time reported for it is that of their waits:   *)
(* each one counts once, for its own domain however the waits of several   *)
(* overlap, and none from before a reset counts.                           *)
WaitsExact ==
    LET waits == Waits
    IN \A dom \in Kept :
         InTurn(dom) =>
           SumOfSlots(SlotsOf(dom)) = TotalTime({w \in waits : w.dom = dom})

(* The printed total is the sum of the printed times of the domains.       *)
TotalIsSum == totalWaitTime = SumOfSlots(0 .. numDoms - 1)

(* The bounds the histogram prints for bucket b *)
InBounds(time, b) == /\ time >= b * BucketSize
                     /\ b < NumSamples => time < (b + 1) * BucketSize

(* The histogram has every wait in the bucket of its length, but may miss  *)
(* the first one of a domain, which enters the table instead.              *)
HistogramMissesFirsts ==
    ~ended =>
      LET waits == {w \in Waits : w.dom \in Kept}
          later == {w \in waits : \E x \in waits : x.dom = w.dom /\ x.switch < w.switch}
      IN \A b \in 0 .. NumSamples :
           /\ buckets[b] <= Cardinality({w \in waits : InBounds(w.time, b)})
           /\ buckets[b] >= Cardinality({w \in later : InBounds(w.time, b)})
=============================================================================
