-------------------------- MODULE ReaderProperties --------------------------
(***************************************************************************)
(* What a run of an analysis program must get right, stated against the    *)
(* histories of Reader: registration (order), callbacks (calls) and long   *)
(* gaps (gaps).                                                            *)
(***************************************************************************)
EXTENDS Reader

Entry(cpu) == CHOOSE e \in Range(cpuList) : e.cpu = cpu

TypeOK ==
    /\ LogTypeOK
    /\ CplTypeOK
    /\ handlerArray \in [Slots -> [event_id : {0} \cup Range(EventIdOf),
                                   handler_list : Seq(Handlers)]]
    /\ pc \in {"open", "register", "init", "fetch", "handle", "update", "total",
               "finalize", "exit", "exited", "crashed", "stopped"}
    /\ cursor \in [slot : 0 .. MaxEvents, k : Nat \ {0}]
    /\ order \in Seq(Handlers)
    /\ gaps \subseteq 0 .. eventCount - 1
    /\ calls \in Seq([kind : {"init", "process", "finalize"}, handler : Handlers,
                      index : -1 .. MaxRecords - 1])

-----------------------------------------------------------------------------
(* Which handlers found a slot, and in which order, told from the          *)
(* registrations alone.                                                    *)
RankOf(h) == CHOOSE i \in DOMAIN order : order[i] = h

FirstRankOfId(id) ==
    Min({i \in DOMAIN order : EventIdOf[order[i]] = id})

IdsUpTo(i) == {EventIdOf[order[j]] : j \in 1 .. i}

Accepted ==
    {h \in Range(order) :
       Cardinality(IdsUpTo(FirstRankOfId(EventIdOf[h]))) <= MaxEvents}

(* The order the library owes its callbacks: all initialisations, then the *)
(* records as they come, then all finalisations; among the callbacks of    *)
(* one phase or record, ids in the order they first registered and, for    *)
(* an id, handlers in the order they registered.  blk_io_queues relies on  *)
(* it: its lost-record handler must come first (main.c:26-50).             *)
PhaseRank(kind) == CASE kind = "init" -> 0 [] kind = "process" -> 1
                     [] kind = "finalize" -> 2

CallKey(c) == <<PhaseRank(c.kind), c.index,
                FirstRankOfId(EventIdOf[c.handler]), RankOf(c.handler)>>

Before(a, b) == \E n \in 1 .. Len(a) : /\ a[n] < b[n]
                                       /\ \A m \in 1 .. n-1 : a[m] = b[m]

CallOrder == \A i \in 1 .. Len(calls) - 1 :
               Before(CallKey(calls[i]), CallKey(calls[i+1]))

Called(kind, h) == {c.index : c \in {d \in Range(calls) :
                                       d.kind = kind /\ d.handler = h}}

(* No callback is missed and none is made to a handler that was turned     *)
(* away or for another id's record: outside the middle of a phase, every   *)
(* accepted handler was initialised, has seen exactly the records of its   *)
(* id handed out so far, and at the end was finalised.                     *)
CallsComplete ==
    \A h \in Handlers :
      /\ pc # "init" =>
           Called("init", h) =
             IF h \in Accepted /\ pc \notin {"open", "register", "stopped"}
             THEN {-1} ELSE {}
      /\ pc # "handle" =>
           Called("process", h) =
             {i \in 0 .. eventCount - 1 :
                h \in Accepted /\ eventList[i].event_id = EventIdOf[h]}
      /\ pc # "finalize" =>
           Called("finalize", h) =
             IF h \in Accepted /\ pc \in {"exit", "exited"} THEN {-1} ELSE {}

(* The registry never splits an id over two slots and keeps the slots in   *)
(* use in front, which the linear searches rely on.                        *)
SlotsCompact ==
    \A s, t \in Slots : s < t =>
      /\ handlerArray[s].event_id = 0 => handlerArray[t].event_id = 0
      /\ handlerArray[s].event_id = handlerArray[t].event_id =>
           handlerArray[t].event_id = 0

-----------------------------------------------------------------------------
(* Records the windows account for: all that were handed out and updated.  *)
Counted == 0 .. (IF pc \in {"handle", "update"} THEN eventCount - 2
                                                ELSE eventCount - 1)

RecordsOf(cpu) == {i \in Counted : eventList[i].cpu = cpu}

(* The record at which a CPU's window opens: its first one after the last  *)
(* long gap that it has records after, its very first one if no gap was.   *)
WindowStart(cpu) ==
    LET since(g) == {i \in RecordsOf(cpu) : i >= g}
        reopened == {g \in gaps : since(g) # {}}
    IN IF reopened = {} THEN Min(RecordsOf(cpu)) ELSE Min(since(Max(reopened)))

(* The list holds each CPU met so far once, with the window told from the  *)
(* log: time before a long gap is never counted for a CPU that was heard   *)
(* of after the gap, whichever CPU reported the gap.                       *)
WindowsFollowLog ==
    /\ {e.cpu : e \in Range(cpuList)} = {eventList[i].cpu : i \in Counted}
    /\ \A i, j \in DOMAIN cpuList : cpuList[i].cpu = cpuList[j].cpu => i = j
    /\ \A e \in Range(cpuList) : e.firstNs = eventList[WindowStart(e.cpu)].ns

(* The time reported for a CPU is exact: from the start of its window to   *)
(* its last record, for finalizers and for the summary alike.  It holds    *)
(* for every CPU with a record besides record 0 of the sorted log; for a   *)
(* CPU that has only that one get_last_ns_ev_list answers 0.               *)
TotalsExact ==
    pc \in {"finalize", "exit", "exited"} =>
      \A e \in Range(cpuList) :
        (\E i \in RecordsOf(e.cpu) : i > 0) =>
           /\ GetTotalTimeCpu(e) =
                eventList[Max(RecordsOf(e.cpu))].ns - eventList[WindowStart(e.cpu)].ns
           /\ GetTotalTimeCpu(e) <= maxCpuTotalTime

(* DONT MOVE THIS FUNC CALL (Reader.c:74): whenever a finalizer runs, the  *)
(* average it divides by is that of the whole log.                         *)
LastTime(cpu) == IF RecordsOf(cpu) = {0} THEN 0
                 ELSE eventList[Max(RecordsOf(cpu))].ns

FinalizersSeeTotals ==
    pc = "finalize" /\ cpuList # << >> =>
      /\ eventCount = Len(file)
      /\ avgTotalTime =
           (MapThenSumSet(LAMBDA cpu : Minus(LastTime(cpu), Entry(cpu).firstNs),
                          {e.cpu : e \in Range(cpuList)}) % NsModulus)
             \div Cardinality({e.cpu : e \in Range(cpuList)})

-----------------------------------------------------------------------------
(* The loop ends on every log, with a report unless the log could not be   *)
(* opened or is empty.                                                     *)
Terminates == <>(\/ pc = "exited"
                 \/ pc = "stopped"
                 \/ pc = "crashed" /\ file = << >>)
=============================================================================
