------------------------------ MODULE XenStats ------------------------------
(***************************************************************************)
(* examples/xen_stats: how often each domain had an event, an exception,   *)
(* an interrupt or a hypercall, and Xen itself an exception or interrupt,  *)
(* of each type.  Six handlers, one per kind, count with the functions of  *)
(* Common.c: num_ev_* for a table with a row per domain, num_ev_in_xen_*   *)
(* for a single row.  lost_records clears all six after a long gap.        *)
(***************************************************************************)
EXTENDS EventFeed, UnsignedTime, KeyedList, Sequences, FiniteSets

CONSTANTS DomainKinds,   \* events, exceptions, interrupts, hypercalls
          XenKinds,      \* exceptions in Xen, interrupts in Xen
          Doms,          \* domain ids that occur in the log
          Idle,          \* the id of the idle domain, 0x7fff
          Types,         \* ports, vectors, hypercall numbers
          MaxDoms,       \* MAX_DOMS, 25
          CountModulus,  \* 2^32: a type's count is an unsigned int
          LongGap        \* LOST_REC_MAX_TIME

Count(kind, dom, type) == <<kind, dom, type>>    \* of a domain
CountInXen(kind, type) == <<kind, type>>
LostRecords == <<"LOST_REC">>

DomainIds == DomainKinds \X Doms \X Types
XenIds == XenKinds \X Types

(* The tables are indexed by the domain id without a check.                *)
ASSUME DomsAssumption == /\ MaxDoms \in Nat \ {0}
                         /\ Doms \subseteq 0 .. MaxDoms - 1 \cup {Idle}
ASSUME StatsIdsAssumption == EventIds \subseteq DomainIds \cup XenIds \cup {LostRecords}
ASSUME CountAssumption == CountModulus \in Nat \ {0, 1} /\ LongGap \in Nat
ASSUME StampsFitAssumption == NsModulus > MaxNs

VARIABLES row,           \* numEvents, numExceptions, ...: the NumEvs of each place
          ended,         \* the finalizers ran
          log            \* history: the records so far

statsVars == <<feedVars, row, ended, log>>

Slots == 0 .. MaxDoms - 1
SlotOf(dom) == IF dom = Idle THEN MaxDoms - 1 ELSE dom

(* The rows: one per kind and slot, and one per kind of Xen's              *)
Places == DomainKinds \X Slots \cup {<<kind>> : kind \in XenKinds}

EmptyRow == [totalEvsCount |-> 0, types |-> << >>]
EmptyRows == [place \in Places |-> EmptyRow]

Init == /\ FeedInit
        /\ row = EmptyRows
        /\ ended = FALSE
        /\ log = << >>

-----------------------------------------------------------------------------
(* mutant: the 32-bit count does not wrap *)
NeverWraps(r, type) ==
    [r EXCEPT !.types = Put(@, type, IF type \in DOMAIN @ THEN @[type] + 1 ELSE 1),
              !.totalEvsCount = Plus(@, 1)]

(* num_ev_handler and num_ev_in_xen_handler, on the row they found         *)
Counted(r, type) ==
    [r EXCEPT !.types = Put(@, type, IF type \in DOMAIN @ THEN (@[type] + 1) % CountModulus
                                                           ELSE 1),
              !.totalEvsCount = Plus(@, 1)]

NumEvHandler(place, type) == row' = [row EXCEPT ![place] = Counted(@, type)]

(* mutant: the rows of Xen's own kinds are forgotten *)
ResetDomains == row' = [place \in Places |-> IF Len(place) = 2 THEN EmptyRow ELSE row[place]]

(* num_ev_reset and num_ev_in_xen_reset, called for all six kinds.  The    *)
(* entries of the types are lost, not freed: the lists are emptied first.  *)
ResetAll == row' = EmptyRows

(* lost_records_handler *)
LostRecordsHandler ==
    \/ Minus(event'.ns, event'.lastNs) > LongGap /\ ResetAll
    \/ Minus(event'.ns, event'.lastNs) <= LongGap /\ UNCHANGED row

Record(cpu, id, ns) ==
    /\ ~ended
    /\ Feed(cpu, id, ns)
    /\ log' = Append(log, event')
    /\ \/ \E kind \in DomainKinds, dom \in Doms, type \in Types :
            id = Count(kind, dom, type) /\ NumEvHandler(<<kind, SlotOf(dom)>>, type)
       \/ \E kind \in XenKinds, type \in Types :
            id = CountInXen(kind, type) /\ NumEvHandler(<<kind>>, type)
       \/ id = LostRecords /\ LostRecordsHandler
    /\ UNCHANGED ended

(* num_ev_finalize and num_ev_in_xen_finalize print, and free what nothing *)
(* reads any more.                                                         *)
Finalize == /\ ~ended
            /\ ended' = TRUE
            /\ UNCHANGED <<feedVars, row, log>>

Next == \/ \E cpu \in Cpus, id \in EventIds, ns \in 1 .. MaxNs : Record(cpu, id, ns)
        \/ Finalize

Spec == Init /\ [][Next]_statsVars

-----------------------------------------------------------------------------
TypeOK ==
    /\ FeedTypeOK
    /\ DOMAIN row = Places
    /\ \A place \in Places :
         /\ DOMAIN row[place] = {"totalEvsCount", "types"}
         /\ row[place].totalEvsCount \in Times
         /\ DOMAIN row[place].types \subseteq Types
         /\ \A type \in DOMAIN row[place].types :
              row[place].types[type] \in 0 .. CountModulus - 1
    /\ ended \in BOOLEAN

(* Where a record of one of the six kinds belongs, told from its id        *)
PlaceOf(id) == IF id \in DomainIds THEN <<id[1], SlotOf(id[2])>> ELSE <<id[1]>>
TypeOf(id) == id[Len(id)]

(* The records after the last lost record with a long gap before it        *)
IsLongGap(ev) == ev.event_id = LostRecords /\ ev.ns - ev.lastNs > LongGap
SinceGap == {i \in DOMAIN log : \A j \in i .. Len(log) : ~IsLongGap(log[j])}

Hits(place) == {i \in SinceGap : /\ log[i].event_id # LostRecords
                                 /\ PlaceOf(log[i].event_id) = place}

(* Every row has exactly the records of its kind and domain since the last *)
(* long gap, a count for each type that occurred among them, domain        *)
(* MaxDoms - 1 counted with the idle one.  The counts wrap, at the width   *)
(* of a type's count or at that of the row's.                              *)
CountsExact ==
    \A place \in Places :
      LET hits == Hits(place)
      IN /\ row[place].totalEvsCount = Cardinality(hits) % NsModulus
         /\ DOMAIN row[place].types = {TypeOf(log[i].event_id) : i \in hits}
         /\ \A type \in DOMAIN row[place].types :
              row[place].types[type] =
                Cardinality({i \in hits : TypeOf(log[i].event_id) = type}) % CountModulus
=============================================================================
