---------------------------- MODULE BlkIoQueues ----------------------------
(***************************************************************************)
(* The queue analysis of examples/blk_io_queues: the front and back        *)
(* request queues and the response ring, whose QueueState each is driven   *)
(* by a blocked and an unblocked handler, and the lost-record handler,     *)
(* which keeps times per CPU and tells every queue.  One step is one       *)
(* record of the log with the handler of its event id, as main.c registers *)
(* one handler per id.  The flag that lost_records_handler raises for a    *)
(* long gap is modelled with CpuList, in Reader.                           *)
(*                                                                         *)
(* Each queue writes a sample per stay in one of its states to a .dat      *)
(* file: the time returned when the message SampledOn[q] comes, if any.    *)
(***************************************************************************)
EXTENDS EventFeed, QueueState, Sequences, FiniteSetsExt

CONSTANTS Queues,        \* FrontRQueue, BackRQueue, FrontSRRespQueue
          SampledOn,     \* Q_BLOCKED, or Q_UNBLOCKED for the response ring
          Freed,         \* a QueueState pointer after queue_free_state, NULL
          NoQueue        \* the queue of an event that is not a queue's

(* Event ids: a queue with one of its messages, a lost record, and others. *)
LostRecords == <<NoQueue, "LOST_REC">>

IsQueueEvent(id) == id \in Queues \X {"Q_BLOCKED", "Q_UNBLOCKED"}

ASSUME EventIdsAssumption ==
    Queues \X {"Q_BLOCKED", "Q_UNBLOCKED"} \cup {LostRecords} \subseteq EventIds
ASSUME StampsFitAssumption == NsModulus > MaxNs
ASSUME NoQueueAssumption == NoQueue \notin Queues
ASSUME NoCpuAssumption == NoCpu \notin Cpus

QueueStates == [cpus : Cpus \cup {NoCpu},
                state : {"INIT", "BLOCKED", "UNBLOCKED", "UNKNOWN"},
                lastNs : 0 .. MaxNs, totalBlockedTime : Times,
                totalUnblockedTime : Times, totalTime : Times]

ASSUME FreedAssumption == Freed \notin QueueStates
ASSUME SampledOnAssumption == SampledOn \in [Queues -> {"Q_BLOCKED", "Q_UNBLOCKED"}]

VARIABLES queue,         \* the QueueState of each queue
          lrt,           \* lostRecTime.cpuList: a LostRecTime per CPU met
          lostRecCount,
          ended,         \* the finalizers run
          dat,           \* the .dat file of each queue: its samples
          told,          \* history: the messages a queue was sent
          cut,           \* history: a lost record made the queue UNKNOWN
                         \* while it was BLOCKED or UNBLOCKED
          credited,      \* history: time that lost_records_handler was given
                         \* and dropped, of the state the .dat file is about
          began          \* history: the stamp of the first record

blkVars == <<feedVars, queue, lrt, lostRecCount, ended, dat, told, cut, credited,
             began>>

Init == /\ FeedInit
        /\ queue = [q \in Queues |-> InitState]
        /\ lrt = << >>
        /\ lostRecCount = 0
        /\ ended = FALSE
        /\ dat = [q \in Queues |-> << >>]
        /\ told = [q \in Queues |-> << >>]
        /\ cut = [q \in Queues |-> FALSE]
        /\ credited = [q \in Queues |-> 0]
        /\ began = 0

-----------------------------------------------------------------------------
(* get_ev_before_lost_records_ns *)
EvBeforeLostRecordsNs(cpu) == IF cpu \in DOMAIN lrt THEN lrt[cpu].lastNs2 ELSE 0

Tell(q, msg) == Append(told[q], [msg |-> msg, ns |-> event'.ns])

Update(q, msg) ==
    /\ queue' = [queue EXCEPT ![q] = UpdateState(@, msg, event', 0)]
    /\ told' = [told EXCEPT ![q] = Tell(q, msg)]
    /\ UNCHANGED <<lrt, lostRecCount, ended, cut, credited>>

(* The handler of the message that ends what the .dat file is about *)
SamplingHandler(q, msg) ==
    /\ Update(q, msg)
    /\ LET wTime == TimeReturned(queue[q], queue'[q])
       IN dat' = IF wTime = 0 THEN dat ELSE [dat EXCEPT ![q] = Append(@, wTime)]

(* mutant: both handlers of the queue write samples *)
SamplesToo(q, msg) == SamplingHandler(q, msg)

PlainHandler(q, msg) == Update(q, msg) /\ UNCHANGED dat

(* The blocked and unblocked handlers of a queue *)
QueueHandler(q, msg) == \/ msg = SampledOn[q] /\ SamplingHandler(q, msg)
                        \/ msg # SampledOn[q] /\ PlainHandler(q, msg)

(* update_lrt_cpulist leaves lastNs2 of a new entry as malloc returned it. *)
LrtEntry(cpu, garbage) ==
    IF cpu \in DOMAIN lrt THEN lrt[cpu]
    ELSE [totalLostTime |-> 0, lastNs |-> 0, lastNs2 |-> garbage]

(* mutant: the test for event->lastNs forgotten *)
CountsUnstamped(ev, garbage) ==
    LET entry == LrtEntry(ev.cpu, garbage)
        updated == [totalLostTime |-> Plus(entry.totalLostTime,
                                           Minus(ev.ns, ev.lastNs)),
                    lastNs |-> ev.ns, lastNs2 |-> ev.lastNs]
    IN lrt' = [cpu \in DOMAIN lrt \cup {ev.cpu} |->
                 IF cpu = ev.cpu THEN updated ELSE lrt[cpu]]

(* lost_records_handler, lines 48-64; the number of records lost, data[0], *)
(* is only summed and printed, and left out.                               *)
UpdateLrt(ev, garbage) ==
    LET entry == LrtEntry(ev.cpu, garbage)
        updated == IF ev.lastNs = 0 THEN entry
                   ELSE [totalLostTime |-> Plus(entry.totalLostTime,
                                                Minus(ev.ns, ev.lastNs)),
                         lastNs |-> ev.ns, lastNs2 |-> ev.lastNs]
    IN lrt' = [cpu \in DOMAIN lrt \cup {ev.cpu} |->
                 IF cpu = ev.cpu THEN updated ELSE lrt[cpu]]

(* The state that ends with the message SampledOn[q] *)
SampledState(q) == IF SampledOn[q] = "Q_BLOCKED" THEN "UNBLOCKED" ELSE "BLOCKED"

(* lost_records_handler: the queues are told first, and so with the entry  *)
(* the previous lost record of the CPU left.  The time they return is not  *)
(* written to their files.                                                 *)
LostRecordsHandler ==
    LET before == EvBeforeLostRecordsNs(event'.cpu)
        Updated(q) == UpdateState(queue[q], "LOST_REC", event', before)
        Cuts(q) == queue[q].state \in {"BLOCKED", "UNBLOCKED"} /\ Updated(q) # queue[q]
        Dropped(q) == IF queue[q].state = SampledState(q)
                      THEN TimeReturned(queue[q], Updated(q)) ELSE 0
    IN /\ queue' = [q \in Queues |-> Updated(q)]
       /\ \E garbage \in Times : UpdateLrt(event', garbage)
       /\ lostRecCount' = lostRecCount + 1
       /\ told' = [q \in Queues |-> Tell(q, "LOST_REC")]
       /\ cut' = [q \in Queues |-> cut[q] \/ Cuts(q)]
       /\ credited' = [q \in Queues |-> Plus(credited[q], Dropped(q))]
       /\ UNCHANGED <<ended, dat>>

(* One record of the log, passed to the handler of its id. *)
Record(cpu, id, ns) ==
    /\ ~ended
    /\ Feed(cpu, id, ns)
    /\ began' = IF event = NoEvent THEN ns ELSE began
    /\ \/ \E q \in Queues, msg \in {"Q_BLOCKED", "Q_UNBLOCKED"} :
            id = <<q, msg>> /\ QueueHandler(q, msg)
       \/ id = LostRecords /\ LostRecordsHandler
       \/ /\ ~IsQueueEvent(id) /\ id # LostRecords
          /\ UNCHANGED <<queue, lrt, lostRecCount, ended, dat, told, cut, credited>>

(* The end of the log: the finalizers of the queues print and free. *)
EndOfLog == /\ ~ended
            /\ ended' = TRUE
            /\ UNCHANGED <<feedVars, queue, lrt, lostRecCount, dat, told, cut,
                           credited, began>>

Finalize(q) == /\ ended
               /\ queue[q] # Freed
               /\ queue' = [queue EXCEPT ![q] = Freed]
               /\ UNCHANGED <<feedVars, lrt, lostRecCount, ended, dat, told, cut,
                              credited, began>>

Next == \/ \E cpu \in Cpus, id \in EventIds, ns \in 1 .. MaxNs : Record(cpu, id, ns)
        \/ EndOfLog
        \/ \E q \in Queues : Finalize(q)

Spec == Init /\ [][Next]_blkVars

-----------------------------------------------------------------------------
Live == {q \in Queues : queue[q] # Freed}

TypeOK ==
    /\ FeedTypeOK
    /\ queue \in [Queues -> QueueStates \cup {Freed}]
    /\ DOMAIN lrt \subseteq Cpus
    /\ \A cpu \in DOMAIN lrt :
         lrt[cpu] \in [totalLostTime : Times, lastNs : 0 .. MaxNs, lastNs2 : Times]
    /\ lostRecCount \in 0 .. MaxRecords
    /\ dat \in [Queues -> Seq(Times)]
    /\ credited \in [Queues -> Times]
    /\ began \in 0 .. MaxNs
    /\ ended \in BOOLEAN

(* The blocked and the unblocked time of a queue are kept apart from their *)
(* total, in queue_update_state_blocked, _unblocked and _unknown: they     *)
(* make up the total, whatever messages repeat and whatever lost records   *)
(* add to either.                                                          *)
TimesAddUp ==
    \A q \in Live :
      queue[q].totalTime = Plus(queue[q].totalBlockedTime, queue[q].totalUnblockedTime)

TimeInFile(file) == SumFunction(file) % NsModulus

(* The .dat file of a queue and the time printed for the same state tell   *)
(* the same story, before, across and after lost records: they differ by   *)
(* the time that lost records ended, which is printed and in no sample,    *)
(* and by nothing else.                                                    *)
SamplesAgree ==
    \A q \in Live :
      LET shown == IF SampledState(q) = "UNBLOCKED" THEN queue[q].totalUnblockedTime
                                                    ELSE queue[q].totalBlockedTime
      IN shown = Plus(TimeInFile(dat[q]), credited[q])

(* The state of a queue at unit [u, u+1) of time, told from its messages   *)
(* alone: that of the last message before.  A lost record speaks for the   *)
(* queue only if nothing was heard of it yet; what it was up to then is    *)
(* taken to be the opposite of what the next message says.                 *)
Spoke(q) == {i \in DOMAIN told[q] : \/ told[q][i].msg # "LOST_REC"
                                    \/ i = 1}

SaidAt(q, u) == LET before == {i \in Spoke(q) : told[q][i].ns <= u}
                IN CHOOSE i \in before : \A j \in before : j <= i

Following(q, i) == CHOOSE j \in Spoke(q) : j > i /\ \A m \in Spoke(q) : m > i => j <= m

StateAt(q, u) ==
    LET i == SaidAt(q, u)
    IN IF told[q][i].msg # "LOST_REC" THEN StateAfter(told[q][i].msg)
       ELSE IF told[q][Following(q, i)].msg = "Q_BLOCKED" THEN "UNBLOCKED"
                                                          ELSE "BLOCKED"

(* Time is counted from the queue's first message up to its last change.   *)
CountedUnits(q) ==
    IF told[q] = << >> THEN {} ELSE told[q][1].ns .. queue[q].lastNs - 1

UnitsIn(q, state) == {u \in CountedUnits(q) : StateAt(q, u) = state}

(* As long as no lost record of the queue's own CPU intervened, the times  *)
(* are exact: each is the length of the stays told by the messages, with   *)
(* repeated messages and lost records of other CPUs left out of account.   *)
TimesExact ==
    \A q \in Live :
      ~cut[q] =>
        /\ queue[q].totalBlockedTime = Cardinality(UnitsIn(q, "BLOCKED"))
        /\ queue[q].totalUnblockedTime = Cardinality(UnitsIn(q, "UNBLOCKED"))

(* The gaps of a CPU do not overlap, and none is counted that has no       *)
(* record of the CPU before it: the time reported lost on it fits in the   *)
(* time the log covers, from its first record on.                          *)
LostTimeFits ==
    \A cpu \in DOMAIN lrt : lrt[cpu].totalLostTime <= event.ns - began

(* Queue_state.c:97-102: "In case of lost_rec, insert a Q_UNBLOCKED before *)
(* LOST_REC. Then, ns = is the last seen msg before lost records": a lost  *)
(* record of the queue's CPU adds the time up to the last record before    *)
(* it, which is its lastNs.  The code passes what the previous lost record *)
(* of that CPU left behind, or garbage, or nothing.                        *)
CreditsTimeBeforeGap ==
    [][\A q \in Live :
         (/\ lostRecCount' = lostRecCount + 1
          /\ queue[q].state \in {"BLOCKED", "UNBLOCKED"}
          /\ queue[q].cpus = event'.cpu
          /\ queue[q].lastNs <= event'.lastNs)
         => queue'[q].totalTime =
              Plus(queue[q].totalTime, event'.lastNs - queue[q].lastNs)]_blkVars
=============================================================================
