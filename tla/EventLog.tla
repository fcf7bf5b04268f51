------------------------------ MODULE EventLog ------------------------------
(***************************************************************************)
(* src/src/Event.c: the trace log.  sort_events_by_ns reads the whole file *)
(* into the array eventList and sorts it by time; return_next_event hands  *)
(* the records out one by one, each stamped with lastNs, the time of "the  *)
(* record before it", from which the lost-record handlers compute how long *)
(* a gap in the trace lasted.                                              *)
(*                                                                         *)
(* C arrays are functions on 0 .. n-1.  The cycle counter of a record      *)
(* (field tsc) is the record's position in the file: no result is computed *)
(* from it, here it tells equal records apart.  Stamps are 64-bit nanoseconds since *)
(* boot: they are positive and their differences fit in a signed 64-bit    *)
(* integer for 292 years, so compare() is the order of the stamps.         *)
(***************************************************************************)
EXTENDS Integers, Sequences, Functions

CONSTANTS Cpus,          \* physical CPUs that write trace records
          EventIds,      \* event ids that occur in the log
          MaxNs,         \* bound: the largest nanosecond stamp
          MaxRecords,    \* bound: the number of records in the file
          NoEvent        \* content of the caller's buffer before it is filled

ASSUME MaxNsAssumption == MaxNs \in Nat \ {0}
ASSUME MaxRecordsAssumption == MaxRecords \in Nat

SUCCESS == 0
FAIL == -1

TraceRecord == [cpu : Cpus, event_id : EventIds, ns : 1 .. MaxNs]

Files == UNION {[1 .. n -> TraceRecord] : n \in 0 .. MaxRecords}

Event == [cpu : Cpus, event_id : EventIds, ns : 1 .. MaxNs,
          tsc : 1 .. MaxRecords, lastNs : 0 .. MaxNs]

ASSUME NoEventAssumption == NoEvent \notin Event

VARIABLES file,          \* the records of the log file, in file order
          open,          \* eventList # NULL
          eventList,     \* the records in memory
          numEvents,     \* how many there are
          eventCount,    \* how many were handed out
          event,         \* the caller's buffer, reader_loop's "event"
          ret            \* the result of the last return_next_event

logVars == <<file, open, eventList, numEvents, eventCount, event, ret>>

LogInit == /\ file \in Files
           /\ open = FALSE
           /\ eventList = << >>
           /\ numEvents = 0
           /\ eventCount = 0
           /\ event = NoEvent
           /\ ret = SUCCESS

-----------------------------------------------------------------------------
(* mutant: ev->lastNs = 0 forgotten, malloc's bytes stay *)
ParseLeavesGarbage(pos) ==
    [cpu |-> file[pos].cpu, event_id |-> file[pos].event_id,
     ns |-> file[pos].ns, tsc |-> pos, lastNs |-> MaxNs + 1]

(* parse_next_event on the record at position pos of the file *)
ParseNextEvent(pos) ==
    [cpu |-> file[pos].cpu, event_id |-> file[pos].event_id,
     ns |-> file[pos].ns, tsc |-> pos, lastNs |-> 0]

(* mutant: compare() truncates the difference, and qsort does nothing *)
AnyOrder(list, n) == TRUE

IsSorted(list, n) == \A i, j \in 0 .. n-1 : i < j => list[i].ns <= list[j].ns

(* sort_events_by_ns: numEvents is the file size over the record size, and *)
(* qsort leaves records with equal stamps in any order.                    *)
SortEventsByNs ==
    /\ ~open
    /\ open' = TRUE
    /\ numEvents' = Len(file)
    /\ \E position \in Bijection(0 .. Len(file) - 1, 1 .. Len(file)) :
         eventList' = [i \in 0 .. Len(file) - 1 |-> ParseNextEvent(position[i])]
    /\ IsSorted(eventList', Len(file))
    /\ UNCHANGED <<file, eventCount, event, ret>>

(* mutant: the walk does not stop at the first record of the CPU *)
IsAnyEarlier(j, k) == eventList[j].cpu = eventList[k].cpu

(* Walking back from record k, j is the first record of k's CPU. *)
IsPrevious(j, k) ==
    /\ eventList[j].cpu = eventList[k].cpu
    /\ \A m \in j+1 .. k-1 : eventList[m].cpu # eventList[k].cpu

(* The stamp return_next_event stores in lastNs of record k.  The loop     *)
(* walks back and stops at index 1 at the latest, so index 0 is never      *)
(* compared; the test (eventCount - i - 1) > 0 is unsigned, so it fails    *)
(* only for a record found at index 1, whose stamp is then not taken, and  *)
(* it holds when nothing was found, when the stamp of record 0 is taken    *)
(* whatever its CPU.                                                       *)
LastNs(k) ==
    IF k = 0 THEN eventList[k].lastNs
    ELSE IF \E j \in 1 .. k-1 : IsPrevious(j, k)
         THEN LET j == CHOOSE j \in 1 .. k-1 : IsPrevious(j, k)
              IN IF j = 1 THEN eventList[k].lastNs ELSE eventList[j].ns
         ELSE eventList[0].ns

(* mutant: eventCount++ forgotten *)
ReturnSameEvent ==
    /\ open
    /\ eventCount < numEvents
    /\ event' = eventList[eventCount]
    /\ ret' = SUCCESS
    /\ UNCHANGED <<file, open, eventList, numEvents, eventCount>>

ReturnNextEvent ==
    /\ open
    /\ eventCount < numEvents
    /\ eventList' = [eventList EXCEPT ![eventCount].lastNs = LastNs(eventCount)]
    /\ event' = eventList'[eventCount]
    /\ eventCount' = eventCount + 1
    /\ ret' = SUCCESS
    /\ UNCHANGED <<file, open, numEvents>>

ReturnNoEvent ==
    /\ open
    /\ eventCount >= numEvents
    /\ ret' = FAIL
    /\ UNCHANGED <<file, open, eventList, numEvents, eventCount, event>>

(* get_first_ns_ev_list and get_last_ns_ev_list; the second never looks at *)
(* index 0.  Both are only called with a CPU of an open, non-empty log.    *)
IndicesOf(cpu) == {i \in 0 .. numEvents - 1 : eventList[i].cpu = cpu}

GetFirstNsEvList(cpu) ==
    IF open /\ IndicesOf(cpu) # {}
    THEN eventList[CHOOSE i \in IndicesOf(cpu) : \A j \in IndicesOf(cpu) : i <= j].ns
    ELSE 0

(* mutant: the search starts one record too early *)
LastNsButOne(cpu) ==
    LET searched == IndicesOf(cpu) \ {0, numEvents - 1}
    IN IF open /\ searched # {}
       THEN eventList[CHOOSE i \in searched : \A j \in searched : i >= j].ns
       ELSE 0

GetLastNsEvList(cpu) ==
    LET searched == IndicesOf(cpu) \ {0}
    IN IF open /\ searched # {}
       THEN eventList[CHOOSE i \in searched : \A j \in searched : i >= j].ns
       ELSE 0

-----------------------------------------------------------------------------
LogNext == SortEventsByNs \/ ReturnNextEvent \/ ReturnNoEvent

LogSpec == LogInit /\ [][LogNext]_logVars /\ WF_logVars(LogNext)

-----------------------------------------------------------------------------
LogTypeOK ==
    /\ file \in Files
    /\ open \in BOOLEAN
    /\ numEvents = IF open THEN Len(file) ELSE 0
    /\ eventList \in [0 .. numEvents - 1 -> Event]
    /\ eventCount \in 0 .. numEvents
    /\ event \in Event \cup {NoEvent}
    /\ ret \in {SUCCESS, FAIL}

(* A record of the stream is a record of the log without its lastNs. *)
Bare(ev) == [ev EXCEPT !.lastNs = 0]

Todo == IF open THEN {Bare(eventList[i]) : i \in eventCount .. numEvents - 1}
                ELSE {ParseNextEvent(pos) : pos \in 1 .. Len(file)}

Abstract == INSTANCE EventStream WITH
              Records <- Event, NoRecord <- NoEvent, todo <- Todo,
              given <- IF event = NoEvent THEN NoEvent ELSE Bare(event),
              over <- ret = FAIL

(* return_next_event hands out every record of the file exactly once, in   *)
(* the order of the stamps, and reports the end only after the last one.   *)
ImplementsStream == Abstract!Stream

(* The next record of a CPU, with its stamp, is a function of what was     *)
(* handed out: the log is an EventFeed.                                    *)
OwnRecords(cpu) == {j \in 1 .. eventCount - 1 : eventList[j].cpu = cpu}

NextStamp(cpu) ==
    IF eventCount = 0 THEN 0
    ELSE IF OwnRecords(cpu) = {} THEN eventList[0].ns
    ELSE LET last == CHOOSE j \in OwnRecords(cpu) : \A m \in OwnRecords(cpu) : m <= j
         IN IF last = 1 THEN 0 ELSE eventList[last].ns

FeedOfLog == INSTANCE EventFeed WITH
               index <- eventCount,
               stamp <- [cpu \in Cpus |-> NextStamp(cpu)],
               event <- IF event = NoEvent THEN NoEvent
                        ELSE [cpu |-> event.cpu, event_id |-> event.event_id,
                              ns |-> event.ns, lastNs |-> event.lastNs]

(* What the analyses are driven by in the other modules is what this code  *)
(* hands out.                                                              *)
ImplementsFeed == FeedOfLog!FeedSpec

(* lastNs is never later than the record it is stored in, so the length of *)
(* a gap, ns - lastNs, which every lost-record handler computes in         *)
(* unsigned arithmetic, never wraps around.                                *)
GapNotNegative == event # NoEvent => event.lastNs <= event.ns

(* j is the record handed out before the last one of its CPU. *)
PrecedesEvent(j) ==
    /\ j \in 0 .. eventCount - 2
    /\ eventList[j].cpu = event.cpu
    /\ \A m \in j+1 .. eventCount - 2 : eventList[m].cpu # event.cpu

(* Event.c:136, "Keep track of last ns timestamp for lost_records check":  *)
(* the stamp of the CPU's previous record.  The code leaves lastNs 0 when  *)
(* that record is at index 1, so a gap of the whole uptime is seen.        *)
LastNsTracked ==
    event # NoEvent =>
      \A j \in 0 .. numEvents - 1 :
        PrecedesEvent(j) => event.lastNs = eventList[j].ns

(* Callers that keep asking are told the end of the log. *)
EndIsReported == <>(ret = FAIL)
=============================================================================
