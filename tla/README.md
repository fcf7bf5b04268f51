# Verification of xentrace-analysis

TLA+ models of the xentrace analysis library and of the tools built on it, TLC
configurations that check them on small instances, and proofs checked by TLAPS
that hold for every value of the constants. Every definition is a translation of
the C source under `src/`; `PROJECT.json` names the lines.

## 1. The system

`xentrace` (external) writes a binary log of fixed-size records, each with the
physical CPU, an event id, a cycle counter, a nanosecond stamp and five data
words. The launcher starts `xentrace`, waits for Ctrl-C, stops it and starts one
analysis program. Every analysis program links the same reader library: it
registers event handlers (init / process_event / finalize callbacks), the
library reads and sorts the whole log, passes every record to the handlers of
its event id, keeps per-CPU time windows, and calls the finalizers, which print.

### Inventory

| Part (source) | State | Operations | Interacts with | Hard part | Makes it correct |
|---|---|---|---|---|---|
| Event log, `src/src/Event.c` | array of records, its size, the read position | `sort_events_by_ns`, `return_next_event`, `get_first/last_ns_ev_list` | called by Reader and CpuList | unsigned index arithmetic, ties, search boundaries | each record once, in time order; `lastNs` is the stamp of the CPU's previous record |
| Handler registry, `src/src/EventHandler.c` | 200 slots: event id and handler list | `evh_register_handler`, `evh_call_handlers`, `_initializers`, `_finalizers` | called by Reader, calls the analyses | four separate linear searches over one table, refusal when full | every accepted handler is called for exactly its records, in registration order |
| CPU windows, `src/src/CpuList.c` | per CPU: window start, lost flag, total; a global lost flag | `update_cpulist`, `get_total_time`, `set_last_record_flag`, ... | Reader updates it, handlers raise the flag, finalizers read totals | two-level deferred flag, 0 as "unset", division by the number of CPUs | windows and totals are those told from the log; a long gap is not counted |
| Reader, `src/src/Reader.c` | program counter of the loop | `reader_init`, `reader_loop`, `reader_exit` | all of the above | order of update, totals and finalizers | terminates, finalizers see the totals of the whole log |
| Launcher, `src/src/Xentrace-analysis.c` | two children, signal mask | option handling, fork/exec, `sigsuspend`, `kill` | xentrace, analysis, terminal | signals racing fork, exec and exit | Ctrl-C is never lost, the analysis starts after the trace is stopped |
| blk_io queue state, `examples/blk_io_queues/Queue_state.c` | INIT/BLOCKED/UNBLOCKED/UNKNOWN, last stamp, three sums | `queue_update_state` and one function per state, free, getters | driven by the queue handlers and lost records | lost records between two messages, freed while others still register | blocked + unblocked = total; the sums tile the observed time |
| blk_io lost records, `Lost_records.c` | per CPU: counts, last two stamps | handler, `get_ev_before_lost_records_ns`, ... | feeds queue states, CpuList | calls the queues before it updates the stamp they read | the stamp used is that of the record before the gap |
| blk_io wait state, `Wait_state.c` | INIT/SENT/RECEIVED/UNKNOWN, histogram | `wait_update_state`, ... | send/receive handlers | reordered, missing messages | wait times are those of matching send/receive pairs |
| cpu_wait, `examples/cpu_wait` | per domain and VCPU wait sums, wake records, histogram | switch and wake handlers, reset on lost records | each other | table of 25 domains, reset that keeps a counter | total = sum over the domains, each wait counted once and for its own domain |
| cpu_time_sharing, `examples/cpu_time_sharing` | per CPU: last switch, run times of domains and VCPUs; run times reported | `switch_infprev`, `switch_sched`, reset on lost records, finalizer | one handler reads the other's list | contradicting switches, a new CPU or VCPU, a table indexed by VCPU id | no moment of a CPU counted twice, exact times for a complete trace, a table that holds them |
| xen_dom_time_sharing, `examples/xen_dom_time_sharing` | per CPU last exits, domain run time, time in Xen | exit-to-guest / exit-to-xen handlers | each reads the other's list | missing exits, who was last on a CPU | no moment of a CPU counted twice, exact times for a complete trace |
| xen_stats, `examples/xen_stats` | per kind and domain: a total, a list of types with counts | six counting handlers on two generic functions, reset on lost records | lost records clear all six | the reset, domain ids as indices | each row counts its records since the last long gap |
| histo, `Histogram.cpp`, `histo.cpp` | buckets | read a .dat file, bucket each sample | files blk_io wrote | the end of the file | each sample in its bucket |
| trap | one counter | count, print | - | - | - |
| list.h, Trace.h, Macros.h, Makefiles | - | vendored list, constants, build | - | - | - |

Everything but the launcher runs in one thread. What is hard there is order:
which handler sees a record first, what was updated before a callback reads it,
and what a gap in the log does to sums that span it. The launcher is where
processes and signals interleave.

## 2. Modules

### How they fit together

    EventStream  <-- refined by --  EventLog  -- refines -->  EventFeed
                                       |                          |
                                    CpuList                       | drives
                                       |                          v
                     EventHandler -- Reader      BlkIo = BlkIoQueues + WaitQueues + Histogram
                                       |         CpuWait
                               ReaderProperties  CpuTimeSharing
                                                 XenDomTime
    Launcher (processes and signals,             XenStats
              by itself)
                     TimeLedger  <-- refined by --  WaitQueues, CpuTimeSharing, XenDomTime

The library is modelled bottom-up and composed in `Reader`, with the log as a
parameter chosen in the initial state. An analysis is a set of handlers whose
only input is the record it is called with, so each one is modelled against
`EventFeed`, the records in time order with their `lastNs`, and the run
`event_log` checks that what `EventLog` hands out is a behaviour of `EventFeed`.
That keeps the analyses free of the sorting and of the searches, and makes every
short log one of their behaviours. The step from registering a handler to
calling it once per record of its id is what `Reader` establishes
(`CallsComplete`, `CallOrder`).

`BlkIo` composes what `examples/blk_io_queues/main.c` registers: the queues and
the interrupt channels take the same records of one log, one of them acts on
each, the finalizers run in the order of registration, and the histogram program
reads the .dat files they leave.

`TimeLedger` states what the three analyses that attribute the time of a CPU or
of a channel have in common: a meter opens at its first record and settles its
time in order, each piece counted or skipped and never looked at again. Each of
them is shown to implement it by a mapping of its own counters and stamps, whatever
records are missing or contradict others.

### Module by module

| Module | Source | State | Actions and operators |
|---|---|---|---|
| `EventStream` | (abstract) | records still to come, last stamp | hand out an earliest record, or report the end |
| `EventLog` | `Event.c` | `file`, `eventList`, `numEvents`, `eventCount`, the caller's buffer and the return code | `SortEventsByNs` (any sorted arrangement, since `qsort` is not stable), `ReturnNextEvent`, which stamps the record with `LastNs`, the code's backward search with its unsigned tests; the two first/last searches |
| `EventFeed` | (abstract view of `EventLog`) | position, the stamp each CPU's next record gets | `Feed` |
| `EventHandler` | `EventHandler.c` | the slot table | registration with its early returns, and the three walks |
| `CpuList` | `CpuList.c` | windows, flags, totals | `update_cpulist`, totals, the average |
| `Reader` | `Reader.c` and a `main` that registers handlers | the three above, a program counter | one step per library call or callback |
| `ReaderProperties` | - | history of calls | what a run of `Reader` must get right |
| `UnsignedTime` | `unsigned long long` | - | `Plus`, `Minus` modulo `NsModulus` |
| `KeyedList` | the lists the analyses search by CPU, domain or VCPU, and the `std::map` of the histogram program | - | `Put`: find the entry or append one |
| `QueueState` | `Queue_state.c` | - | the four `queue_update_state_*` functions as operators on a record |
| `BlkIoQueues` | `Lost_records.c` and the six queue handlers of blk_io | a `QueueState` and a .dat file per queue, an entry per CPU | one record with its handler; end of log; one finalizer per queue |
| `WaitQueues` | `Wait_state.c` and the four interrupt handlers | a `WaitData` and a .dat file per channel | as above |
| `Histogram` | `Histogram.cpp`, `histo.cpp` | - | the loop that buckets a file, as a fold |
| `BlkIo` | `main.c` of blk_io | the above | a record to queues and channels together; the finalizers |
| `TimeLedger` | (abstract) | per meter: since when, settled up to when, counted | `Open`, `Count`, `Reset` |
| `CpuWait` | `Domain_wake.c`, `Switch_sched.c`, `Lost_records.c` of cpu_wait | wake-up entries, table of domains with its static count, histogram | wake, switch, lost record (with the two resets), finalizers |
| `CpuTimeSharing` | `Switch_sched.c`, `Switch_infprev.c`, `Lost_records.c` of cpu_time_sharing | the two handlers' lists, the printed table | the two handlers, lost record (with the two resets), the finalizer that fills the table |
| `XenDomTime` | `Exit_to_xen.c`, `Exit_to_guest.c` | the two handlers' lists | the two handlers, finalizers |
| `XenStats` | `Common.c` and the seven handlers of xen_stats | a row per kind and domain | a record counted, lost record (with the six resets), finalizers |
| `Launcher` | `Xentrace-analysis.c` | program counter, signal state, log file, two children | one action per system call, one per actor outside |
| `LibraryProofs` (of the log and the reader), `BlkIoProofs`, `CpuWaitProofs`, `CpuTimeSharingProofs`, `XenDomTimeProofs`, `XenStatsProofs`, `LauncherProofs` | - | - | theorems |
| `FeedTheorems` | - | - | lemmas those about the analyses share |
| `MC*` | - | - | values of the constants |

A record of the log is handled in one step where a single handler is registered
for an id and callbacks cannot interleave, which is so in every analysis
(`main.c` of each registers one handler per id, and the library is single
threaded). `Reader` splits the same loop into its calls, because there the order
of update, callbacks and totals is what can go wrong.

History variables (named so in the comments) record what an action was given;
no guard reads them.

### What the code does that one might not expect

The models keep these, and the properties are stated around them:

* `lastNs` (`Event.c` 137-147). The test `(eventCount - i - 1) > 0` is unsigned. With no earlier
  record of the CPU it wraps and the stamp of record 0, whoever's it is, is used;
  with the previous record at index 1 it fails and `lastNs` stays 0. `LastNs` of
  `EventLog` computes exactly that, `stamp` of `EventFeed` is the same told forwards.
* `get_last_ns_ev_list` never looks at index 0, so the total of a CPU whose only
  record is record 0 wraps around. `TotalsExact` takes it as it is.
* The loop's `!feof` never turns false; the loop ends because no record is left.
* With an empty log `get_total_time` divides by zero: the program dies before
  the finalizers. The model ends there.
* `set_last_record_flag` works on two levels: the global flag is consumed by the
  next update of any CPU, the per-CPU flags at the next record of each CPU.
* A second registration of a handler is a second entry, which is called twice;
  the programs do not do it and the model does not either. Event id 0 marks a
  free slot, so no handler has it. The list of a free slot is not initialised in the code
  and empty in the model (`FreeSlot`): no search reads it before a registration sets it.
* `update_lrt_cpulist` and `Exit_to_xen.c` leave fields of new entries as
  `malloc` returned them: the models choose any value (`garbage`).
* A second wake-up overwrites the stamp of the first, so a wait is counted from
  the last wake-up before the switch (see the disagreements below).
* The first wait of a domain is not put in the histogram of cpu_wait.
* The number of domains of cpu_wait is a static variable that a reset does not touch: the
  slots are emptied and the count stays (`Switch_sched.c` 81 says "Retain value of
  num of Doms observed so far"). A domain that is met again after a reset takes a further slot,
  until the table is full and its waits are dropped. `WaitsExact` is about what
  the table keeps, and so does not tell whether a domain should have been dropped.
* cpu_time_sharing starts a CPU with the run time the hypervisor reported for the domain it
  leaves, and a VCPU that is new on a CPU with 0 instead of its stint; the domain gets
  both. `VcpuTimesWithinStints` bounds what a VCPU has from both sides.
* A switch that does not leave the VCPU the CPU was switched to last changes nothing in cpu_time_sharing,
  the expected VCPU included. The CPU's accounting stops until that VCPU is left once
  more, and then gives it all the time in between (`ImplementsLedger` holds all the same: it is
  time of that CPU, counted once).
* The idle domain has the slot of domain 24, so both are added up, and in xen_dom_time_sharing
  one's exit stamp takes the place of the other's (`TimesExact`, `CountsExact`, `ExactIfComplete`).
* The run times of a CPU new to `Exit_to_xen.c` start with what `malloc` returned, and are
  printed with it: `ExactIfComplete` has it as a part of the printed time (`LeftOver`).
* Lost records change nothing in xen_dom_time_sharing, whose resets are commented out: a time
  runs on across them. A CPU with a gap between its exits is not one whose trace is complete (`Complete`).
* The reset of xen_stats empties the lists of types and then walks them to free their
  entries: nothing is freed. No count depends on it.
* `histo` buckets one value more than a file has, since `feof` only holds after a read failed. The
  variable of that read is declared in the loop, so its value is indeterminate: `leftover` is any
  word, and `HistogramHasSamples` tolerates the one hit, wherever it lands.

## 3. Runs

Constants that only bound a run are `MaxNs`, `MaxRecords`, `MaxInterrupts`;
the `MCSpec` of an MC module bounds further, as its comments say.
`NsModulus` stands for 2^64: the runs use a small one that the stamps still fit
in, so that a difference below zero wraps as it does in the code.

| Run | Properties | Bounds and why they are enough |
|---|---|---|
| `event_log` | each record once, in time order, then the end (`ImplementsStream`, `EndIsReported`); what an analysis sees is `EventFeed`, `lastNs` with its two quirks included (`ImplementsFeed`); `lastNs` is never later than the record (`GapNotNegative`) | 2 CPUs, every file of up to 4 records with 3 stamps: the quirks need indices 0, 1 and 2, a record before and one after them; ties and every order of the file occur |
| `event_log_last_ns` | `LastNsTracked`, violated | as above |
| `reader_dispatch` | the handlers called, in which order, with which records (`CallOrder`, `CallsComplete`), slots in use stay contiguous (`SlotsCompact`), the program ends (`Terminates`) | any subset of 4 handlers of 3 ids in any order with 2 slots: two handlers on one id and a refused registration; up to 2 records |
| `reader_windows` | windows and totals are those of the log (`WindowsFollowLog`, `TotalsExact`), totals exist before a finalizer runs (`FinalizersSeeTotals`) | 2 CPUs, 4 records: a gap on one CPU, its own next record and one of the other CPU in either order. Logs are in time order here (`MCSortedInit`); sorting is checked in `event_log` |
| `blk_io` | blocked and unblocked time make up a queue's total (`TimesAddUp`); exact times while no lost record of the queue's CPU intervened (`TimesExact`); lost time fits in the time from the first record on (`LostTimeFits`); waits are those of answered interrupts (`WaitsExact`) and implement `TimeLedger` (`WaitsImplementLedger`); the .dat samples are the printed times, for a queue less exactly what lost records ended (`SamplesAgree`, `WaitSamplesAgree`), and their histogram has each in its bucket (`HistogramHasSamples`) | 1 queue, 1 channel, 2 CPUs. Queues share nothing but the lost-record entries, which no queue writes, channels share nothing. `MCBound`: any 3 records; 4 records with up to one interrupt, so that four messages take a queue through every pair of transitions with lost records among them; interrupts alone up to 5: sent twice, received twice and once more. A queue and a channel meet only in the stamps of the records, for which 3 are enough. `NsModulus` is 6, two above the largest stamp: a difference below zero wraps to a value a stamp may have, and what `malloc` left in `lastNs2` is any word |
| `blk_io_lost` | `CreditsTimeBeforeGap`, violated | 1 queue, 2 CPUs, 4 records |
| `cpu_wait` | `WaitsExact`, `TotalIsSum`, `HistogramMissesFirsts`, and the bound on slots in the type invariant | 2 slots. Either domain 0, whose id an empty slot shows too, and domain 1 with two VCPUs in 5 records: two waits and a lost record; or one VCPU in 8 records (`oneVcpu`): three waits with resets between them, one more than slots. The first stamp is `LongGap + 1`, as an uptime is: a `lastNs` of 0 is then a long gap. `WaitsExact` is about domains whose VCPUs are woken and switched to in turn, which both kinds of log have with waits that overlap and resets between |
| `xen_dom_time` | `ImplementsLedger`; a complete trace is counted exactly (`ExactIfComplete`) | 2 CPUs, 2 slots, the idle domain and domain 1 in the last one, domain 0 in the first; 4 records, lost ones among them, or 5 exits of one CPU (`MCNext`): exit to a guest, two exits to Xen and back to either slot. CPUs share no data. One garbage value, at which the word wraps. The first stamp is 1: only differences matter |
| `cpu_time` | `ImplementsLedger`; for a complete trace `TimesExact` and `VcpuTimesWithinStints`; the printed table while ids fit (`TableExactIfIdsFit`) | 2 CPUs, 2 slots, the idle domain in the last one; 4 records with 3 stamps: a reported run time, or a gap, and three switches, the second of which may contradict the first and the third resume |
| `cpu_time_table` | `TableHoldsTotals`, violated | as above |
| `xen_stats` | `CountsExact` | two kinds with a row per domain and one of Xen's own, 2 types, a domain and the idle one; 4 records: two counts, a gap, one more. `CountModulus` 2 stands for 2^32, so that a count wraps |
| `launcher` | `NoOrphan`; the analysis is not started while `xentrace` goes on tracing (`AnalysisOnStoppedTrace`); no Ctrl-C is lost (`InterruptOnRecord`, `InterruptStopsTrace`) | up to 3 Ctrl-C: before SIGINT is blocked, one to act on, one more |

Symmetry is used for CPUs, channels and domains where no constant tells them
apart, and only in runs without a liveness property.

`CHECK_DEADLOCK FALSE` is set for the analyses and the launcher, whose programs
end (a log ends, the launcher returns), and where the bounds end a behaviour.
`EventLog` and `Reader` check for deadlock: a caller may go on asking after
the end, and a program that ended stutters explicitly.

### Fairness

* `Reader`: weak fairness of its next step. It is one thread that runs until it
  returns; every step is enabled until then.
* `EventLog` by itself: weak fairness of the log's operation, that is, the caller keeps
  asking, as `reader_loop` does until the call fails. It is needed for
  `EndIsReported` only; `EventStream` states safety.
* `Launcher`: weak fairness of the launcher's own steps. Nothing is assumed of
  the user, of `xentrace` and of the analysis: no Ctrl-C need come,
  a child may never reach `exec` and may run for ever or end at any time.
* The analyses have no liveness property and no fairness.

### Disagreements found

1. `Event.c` 143, run `event_log_last_ns`. The comment at line 136 says "Keep track of last
   ns timestamp for lost_records check"; a record whose CPU's previous record is
   at index 1 gets 0. A lost record at that place is then a gap as
   long as the uptime.
2. `blk_io_queues/Lost_records.c` 43, run `blk_io_lost`. `Queue_state.c` 97-102 asks for the
   time of the last record before the gap; the queues are told before that time
   is stored, so they compute with what the previous lost record left,
   with nothing, or with uninitialised memory. The sums still add up
   (`TimesAddUp`), what they say does not.
3. `cpu_time_sharing/Switch_sched.c` 208, run `cpu_time_table`. The comments at 199-200 say
   that index 0 of a row has the domain's time and index 1 and up those of its VCPUs. A row
   has one column more than the most entries of VCPUs that a domain has, and is indexed with the VCPU
   id. If only VCPU 1 of a domain was met, its time goes to the next domain's
   index 0, or past the end of the table. `TableExactIfIdsFit` is what holds instead.

Two more have no run of their own; the properties of the passing runs are stated so that they do not
take the code's side:

4. `cpu_wait/Domain_wake.c` 45. `doc/cpu-wait-analysis.txt` 30-37 has a VCPU wait from the event it is to
   process until it is scheduled, and 49-51 has one that was preempted wait too. The code
   stores the stamp of every wake-up, so of several the last one counts, and has no wait without one. `WaitsExact` claims
   something only where the two agree, VCPUs that are woken and switched to in turn (`InTurn`). With that
   restriction dropped and waits told from the first event, TLC refutes it in three records: two wake-ups and a switch.
5. `cpu_time_sharing/Switch_sched.c` 95. The comment at 59-61 says "add runtime to the domain and its vcpu"; a VCPU
   new on a CPU that was met before gets `lastRuntime`, which is 0 there, and its first stint is in the domain's time
   only. `VcpuTimesWithinStints` bounds the damage: no VCPU is given another's time, and a VCPU loses at most one stint for each CPU.

## 4. Proofs

All theorems hold for every value of the constants that the named assumptions allow: any
number of CPUs, handlers, slots, queues, channels and domains, logs of any length, counters of any
width that the stamps fit in, any number of Ctrl-C. Each rests on an
inductive invariant: what follows says which, and why the property itself is not enough.

**The log** (`LibraryProofs`: `LogTypeCorrect`, `GapCorrect`, `LogImplementsStream`,
`LogImplementsFeed`). `LogInv` says more than that stamps do not decrease. The array is a
rearrangement of the file (`Reordered`: `tsc` of each entry names the record it was read from, no two
entries the same, none missing), it is sorted once opened (`IsSorted`), and records not yet handed out
have no `lastNs` while the caller's buffer holds the last one handed out (`Progress`).
For `EventStream`, the remaining records are mapped to the positions of the file whose entry has
not been handed out; `Reordered` gives that a step removes exactly one, `IsSorted` that
it is an earliest. For `EventFeed`, the stamp a CPU's next record gets, told from what was handed out
(`NextStamp`), is shown to be what the backward search of `LastNs` finds, quirks included.

**The library** (`LibraryProofs`: `ReaderTypeCorrect`, `ReaderSlotsCompact`, `ReaderCallOrder`,
`ReaderCallsComplete`, `ReaderWindowsFollowLog`, `ReaderTotalsExact`, `ReaderFinalizersSeeTotals`). `ReaderInv` is `LogInv` and six more parts.
  * `PlaceOK`: what the place in the program says of the log (in `handle` a record was handed
    out, from `total` on all were).
  * `RegistryOK`: the lists of the slots hold handlers of one id in the order of their registration, slots are in the
    order in which their ids came (`CameBefore`), and a handler without a slot was turned away with all
    slots taken by ids that came before (`TurnedAway`). `SlotsCompact` alone would not do: that a
    handler is called does not follow from the shape of the table. `ListedIsAccepted` then shows, by counting slots
    against ids, that the handlers with a slot are those whose id is one of the first `MaxEvents`.
  * `CallsOK`: a callback was made just when it is `Due`, which is told from the slot table, the cursor and the read
    position, and any two successive ones are in order. Completeness and order need each other: a new callback comes after
    the last one because the last one was due.
  * `WindowsOK`: a CPU's window opens at a record of its own such that every earlier one is cut off by a gap and no
    later gap has a record of the CPU behind it (`Opens`); its flag is set just while the last gap has none
    (`EntryIs`). The flags are what makes the property inductive: the listed start is right
    *now*, the flag says whether the next record will move it.
  * `TotalsOK`: from `get_total_time` on, an entry's total is its window's time. `TotalsExact` follows with the order of the
    stamps, which rules out a wrap-around. It also says that the average is that of the list's totals.
    `FinalizersSeeTotals` has a sum over a set of CPUs instead, in an order `CHOOSE` picks, where the code
    follows the list; both wrap around at points of their own. Each is shown to be the share of
    all CPUs in a plain sum, which no order changes, modulo the word (`SumOfList`, `WrapsAlike`, `AverageIsOfLog`).
  * `CplTypeOK`: types of the list. That the sum of the totals stays in range is `TotalType`.

**blk_io** (`BlkIoProofs`, about `IoSpec`, the whole program). `BlkInv` adds to types and
`TimesAddUp` that no queue is freed before the log ended (otherwise a handler would update a
freed queue) and that lost records are no more than records. A step of the program is a step of
`BlkIoQueues` or leaves it alone (`IoStepQueues`).
  * `BlkTypeCorrect`, `BlkTimesAddUp`: adding the same time to a part and to the whole keeps a sum
    modulo any number (`PlusParts`); the four update functions are dealt with in `UpdateOK`.
  * `BlkLostTimeFits`: `LostInv` bounds what a CPU lost by its own last stamp less the stamp of the first record, and relates both to the feed's.
  * `BlkSamplesAgree`: `SamplesInv` has the printed time as the sum of the samples and of what lost records ended (`credited`), for
    every queue not freed; a message adds to one of the two what it adds to the time (`SamplesRecordOK`).
  * `BlkTimesExact`: `QueueOK` ties a queue to its messages. Its blocked and unblocked time are
    the numbers of units of time, up to its last stamp, before which the last message said so, its last stamp is that
    of the message since which it stays in its state, and the sum is bounded by the time since its first
    message, so that nothing wraps. It is kept for a queue until a lost record cuts it (`Uncut`).
  * `BlkWaitsExact`, `BlkWaitSamplesAgree`, `BlkWaitsImplementLedger`: `ChannelOK` ties a channel to its interrupts: its stamp
    is that of the first of the last run of equal ones, its wait time the number of units in which an answer was owed.
  * `BlkHistogramHasSamples`: the loop of `histo` is a fold over the positions of a file. After any set of
    positions, every bucket holds as many hits as there are samples in it (`BucketsAre`); what the failed
    read left makes at most one more (`HistogramIs`). That two times share a bucket when their quotients agree is `DividesBetween`.

**cpu_wait** (`CpuWaitProofs`: `CpuWaitTypeCorrect`, `CpuWaitWaitsExact`, `CpuWaitTotalIsSum`, `CpuWaitHistogram`).
None of the four properties is inductive by itself. `WaitInv` adds:
  * `WokenOK`: a VCPU's entry is flagged just while there is a wake-up no switch has answered, and then has its stamp.
    There is at most one such wake-up (`Pending`), as a later one takes its place.
  * `NewAreNew`: while the table has room, a domain without a slot has had no wait since the last reset. `WaitsExact` says nothing of a
    domain without a slot once the table is full; without this part a domain that gets a slot later might
    have waits its new slot has not. The count of slots that a reset keeps is why "has room" cannot be told from the slots.
  * `WaitsOK`: types and finiteness of the waits told from the records, over which the sums and the histogram range.

  * `LastWakesExact`: `WaitsExact` without its restriction to VCPUs woken in turn, the waits being told from the last
    wake-up. It is what a step keeps, whether or not the domain's VCPUs are in turn.

A new wait adds one to the set of waits and one sum to the table, a reset empties both (`Cleared`, which covers the
initial state too).

**xen_stats** (`XenStatsProofs`: `StatsTypeCorrect`, `StatsCountsExact`). `StatsInv` has types, `CountsExact` and the type
of the records since the last reset. Rows and lists of types change together: a row is exact when its total and every type
of its list are the numbers of its records, each modulo its own width, 2^64 and 2^32 (`RowExact`), and a type not in
the list had none.

**cpu_time_sharing** (`CpuTimeSharingProofs`). `SharingInv` says for each CPU that it was not met and has no
entry (`Unmet`), or that its time, less what the hypervisor reported at first, fits between its first switch and its last
stamp (`Metered`, from which `SharingImplementsLedger`), and that the
entry is that of a complete trace if its switches are (`Exact`, from which `SharingTimesExact` and
`SharingVcpuTimesWithinStints`). `SharingTypeCorrect` includes the printed table (`TableTypes`). The second is needed for the whole entry, the expected VCPU included: exactness of the
times is not inductive without it. `SharingTableExact` adds `TableInv`, the printed table is that of
the entries, and shows that while ids fit no two totals share a cell (`TableCells`, on the arithmetic of row and column).

**xen_dom_time_sharing** (`XenDomTimeProofs`). `Known` says of each CPU's four values that the stamps of exits to guests are no later than
the last exit to Xen except for the latest one, and that the time counted fits in the time
settled. They are kept by slot, not by domain: two domains that share one share a stamp too. The first part is needed because the handler of exits to Xen counts from one of these stamps, chosen by comparing them. It gives `TimeTypeCorrect`
and `TimeImplementsLedger`; its last part, what the values are if exits alternate, gives `TimeExactIfComplete`, with `PrintedIs`: the printed time is this value and what the entry
started with.

**The ledger** (`TimeCountsOnce`, `SharingCountsOnce`, `BlkWaitsCountOnce`, each with its analysis). What implements the
ledger counts no moment twice, and none outside the time observed. The theorems state this promise (`CountedOnce`) for the
run times of xen_dom_time_sharing and cpu_time_sharing and for the waits of blk_io, and so give the
three refinements their meaning. For xen_dom_time_sharing these are what is added to an entry; the times as printed fit
in the time observed if `malloc` left zeros in it, which `TimeCountsOnce` says too (`PrintedFits`).

**The launcher** (`LauncherProofs`: `LauncherNoOrphan`, `LauncherStopsFirst`, `LauncherRemembers`). `LauncherInv`
says for each point of the launcher whether SIGINT is blocked, whether the handler is installed and whether
`xentrace` was told to stop. `NoOrphan` alone is not inductive: it needs that a process that can be
killed by a Ctrl-C has not forked yet.

**Shared lemmas** (`FeedTheorems`): unsigned sums and differences, the stamps of the feed, and sums over finite sets. What a
fold over a set or a function adds up to is proved without an induction theorem: the sets for which
a claim fails are well-founded by inclusion, and a smallest one is refuted.

**Assumptions.** Besides types: stamps fit in the word (`StampsFitAssumption`, 2^64 ns are 584 years); values that mark the
absence of a record, queue or CPU are none of them; reported run times and `malloc`'s bytes are words; a
count of xen_stats holds more than one value (`CountAssumption`), buckets have a width (`BucketSizesAssumption`,
`HistogramAssumption`) and a long gap is a natural number; the sets
of CPUs and VCPUs of cpu_time_sharing and the number of slots, over which the code sums, are
finite (`IdsFiniteAssumption`, `DomsAssumption`). All are named and evaluated by TLC on the runs.

Every invariant and action property of the passing runs is stated by a theorem. Only model-checked are the
liveness properties (`EndIsReported`, `Terminates`, `InterruptStopsTrace`), which are out of the prover's
reach. The three violated properties are TLC's too: each is refuted by a trace of one small instance.

## 5. Not modelled

* `trap`: one counter of records and a print; nothing to get wrong beyond what
  `Reader` shows of the dispatch. The handlers of blk_io that `main.c` does not register.
* `switch_infprev` and `switch_infnext` of cpu_wait: what they store is read only by
  `sanity_check_domId`, which nothing calls.
* Printing, percentages, the sums over CPUs that xen_dom_time_sharing prints, `data[0]` of lost records (only
  summed and printed), `MSG_UNKNOWN` of wait states (never sent).
* .dat files that cannot be opened: the handlers skip them with a message, the finalizers
  close them all the same. The model's files are always open.
* `list.h` itself: lists are sequences (`Append` is `list_add_tail`) or, where they are only searched by
  a key, functions (`KeyedList`). Several loops free an entry and then read its
  link (`domain_wake_reset`, `domain_wake_finalize`, the lists of `Switch_sched.c` in
  cpu_time_sharing), and one reset clears a bucket more than was allocated
  (`cpu_wait/Switch_sched.c` 208). The models take the links as still readable, which they are
  as long as nothing is allocated in between; no state of the models depends on it otherwise.
* Domain ids that the tables cannot hold: the arrays are indexed without a check, and
  `DomsAssumption` of each module leaves such ids out. The one of `CpuWait` leaves out the
  idle domain too: a switch to it is no wait and changes nothing (`Other`).
* A log is read without errors: one whose size is not that of whole records, or
  that cannot be read to its end, is left out. A log that cannot be opened ends
  the program (`OpenFails`).
* `xentrace` and the terminal: external, as far as the launcher sees them. That the
  analysis is started without waiting for `xentrace` to close its log is in the
  model, which has no property about it, since nothing in the repository says otherwise.

## 6. Plan

Order of work: the library first (everything depends on it), then the analyses
whose state machines and resets are hardest to test, then proofs.

1. Done: log, registry, windows, reader; blk_io queues and waits; cpu_wait;
   xen_dom_time_sharing; launcher.
2. Done: `CpuTimeSharing`, `XenStats`, `Histogram`; `BlkIo`, the queues and the
   channels as one program; `TimeLedger` and its three refinements; the runs of `CpuWait` as one.
3. Done: proofs about the log and its feed, the library with its totals and average, blk_io with its histograms,
   `CpuWait`, `CpuTimeSharing`, `XenDomTime`, `XenStats`, the launcher.
4. Left: a composition of one analysis with `Reader` instead of `EventFeed`, so that the
   lost-record flag and the windows meet the queues.
