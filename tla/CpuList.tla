------------------------------ MODULE CpuList ------------------------------
(***************************************************************************)
(* src/src/CpuList.c: per physical CPU, the window of time the log covers. *)
(* The window opens at the CPU's first record (firstNs) and closes at its  *)
(* last one.  After a long gap in the trace a handler raises               *)
(* lostRecFlagGlobal; the next update spreads it over the list, and each   *)
(* CPU's window then opens anew at that CPU's next record, so that what    *)
(* was lost is not counted as observed time.                               *)
(***************************************************************************)
EXTENDS EventLog, UnsignedTime, FiniteSetsExt

ASSUME StampsFitAssumption == NsModulus > MaxNs

VARIABLES cpuList,             \* the list that reader->cpus heads
          lostRecFlagGlobal,   \* a long gap was met since the last update
          avgTotalTime,        \* get_avg_total_time()
          maxCpuTotalTime      \* get_max_total_time()

cplVars == <<cpuList, lostRecFlagGlobal, avgTotalTime, maxCpuTotalTime>>

(* init_cpulist and the globals; the entries' own lastNs stays 0 for good  *)
(* (update_last_ns is never called) and is left out.                       *)
CplInit == /\ cpuList = << >>
           /\ lostRecFlagGlobal = FALSE
           /\ avgTotalTime = 0
           /\ maxCpuTotalTime = 0

-----------------------------------------------------------------------------
(* set_last_record_flag *)
SetLastRecordFlag == lostRecFlagGlobal' = TRUE

(* set_last_record_flag_list *)
Flagged(list) == [i \in DOMAIN list |-> [list[i] EXCEPT !.lostRecFlag = TRUE]]

(* mutant: the flag is spread after the CPU's entry was looked at *)
FlagAfterUpdate(ev) ==
    LET Spread(list) == IF lostRecFlagGlobal THEN Flagged(list) ELSE list
    IN /\ \/ \E i \in DOMAIN cpuList :
               /\ cpuList[i].cpu = ev.cpu
               /\ cpuList' = Spread(IF cpuList[i].lostRecFlag
                                    THEN [cpuList EXCEPT ![i].firstNs = ev.ns,
                                                         ![i].lostRecFlag = FALSE]
                                    ELSE cpuList)
          \/ /\ \A i \in DOMAIN cpuList : cpuList[i].cpu # ev.cpu
             /\ cpuList' = Append(Spread(cpuList),
                                  [cpu |-> ev.cpu, firstNs |-> ev.ns,
                                   lostRecFlag |-> FALSE, totalTime |-> 0])
       /\ lostRecFlagGlobal' = FALSE
       /\ UNCHANGED <<avgTotalTime, maxCpuTotalTime>>

(* mutant: list_add_tail of the new entry forgotten *)
NeverListed(ev) ==
    /\ lostRecFlagGlobal' = FALSE
    /\ UNCHANGED <<cpuList, avgTotalTime, maxCpuTotalTime>>

(* update_cpulist, which also clears the global flag *)
UpdateCpulist(ev) ==
    LET list == IF lostRecFlagGlobal THEN Flagged(cpuList) ELSE cpuList
    IN /\ \/ \E i \in DOMAIN list :
               /\ list[i].cpu = ev.cpu
               /\ cpuList' = IF list[i].lostRecFlag
                             THEN [list EXCEPT ![i].firstNs = ev.ns,
                                               ![i].lostRecFlag = FALSE]
                             ELSE list
          \/ /\ \A i \in DOMAIN list : list[i].cpu # ev.cpu
             /\ cpuList' = Append(list, [cpu |-> ev.cpu, firstNs |-> ev.ns,
                                         lostRecFlag |-> FALSE, totalTime |-> 0])
       /\ lostRecFlagGlobal' = FALSE
       /\ UNCHANGED <<avgTotalTime, maxCpuTotalTime>>

(* get_first_ns; get_last_ns always falls through to the event list. *)
GetFirstNs(entry) ==
    IF entry.firstNs # 0 THEN entry.firstNs ELSE GetFirstNsEvList(entry.cpu)

GetLastNs(entry) == GetLastNsEvList(entry.cpu)

WindowTime(entry) == Minus(GetLastNs(entry), GetFirstNs(entry))

(* The loop of get_total_time adds up in an unsigned long long. *)
TotalOf(times) ==
    LET total[n \in 0 .. Len(times)] == IF n = 0 THEN 0 ELSE Plus(total[n-1], times[n])
    IN total[Len(times)]

(* get_total_time; with an empty list its average divides by zero. *)
GetTotalTime ==
    /\ cpuList # << >>
    /\ cpuList' = [i \in DOMAIN cpuList |->
                     [cpuList[i] EXCEPT !.totalTime = WindowTime(cpuList[i])]]
    /\ LET times == [i \in DOMAIN cpuList |-> WindowTime(cpuList[i])]
       IN /\ avgTotalTime' = TotalOf(times) \div Len(cpuList)
          /\ maxCpuTotalTime' = Max({maxCpuTotalTime} \cup Range(times))
    /\ UNCHANGED lostRecFlagGlobal

(* get_total_time_cpu, for a CPU of the list *)
GetTotalTimeCpu(entry) ==
    IF entry.totalTime # 0 THEN entry.totalTime ELSE WindowTime(entry)

-----------------------------------------------------------------------------
CplTypeOK ==
    /\ cpuList \in Seq([cpu : Cpus, firstNs : 1 .. MaxNs, lostRecFlag : BOOLEAN,
                        totalTime : Times])
    /\ lostRecFlagGlobal \in BOOLEAN
    /\ avgTotalTime \in Times
    /\ maxCpuTotalTime \in Times
=============================================================================
