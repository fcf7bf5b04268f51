----------------------------- MODULE XenDomTime -----------------------------
(***************************************************************************)
(* examples/xen_dom_time_sharing: how long each CPU ran a domain, and how  *)
(* long Xen.  The trace has a record when Xen is entered from a domain     *)
(* (TRC_EXIT_TO_XEN) and when it is left for one (TRC_EXIT_TO_GUEST).  The *)
(* two handlers keep a list of CPUs each and read each other's stamps, 0   *)
(* for none, to decide whether a record counts.  lost_records only counts  *)
(* its records, its resets being commented out.                            *)
(***************************************************************************)
EXTENDS EventFeed, UnsignedTime, KeyedList, Sequences, Functions, FiniteSetsExt

CONSTANTS Doms,          \* domain ids that occur in the log
          Idle,          \* the id of the idle domain, 0x7fff
          MaxDoms,       \* MAX_DOMS, 25
          Garbage        \* what malloc's memory may hold

ExitToXen(dom) == <<"EXIT_TO_XEN", dom>>
ExitToGuest(dom) == <<"EXIT_TO_GUEST", dom>>
LostRecords == <<"LOST_REC">>
Other == <<"OTHER">>

(* The lists' arrays are indexed by the domain id without a check.         *)
ASSUME DomsAssumption == /\ MaxDoms \in Nat \ {0}
                         /\ Doms \subseteq 0 .. MaxDoms - 1 \cup {Idle}
ASSUME ExitIdsAssumption ==
    EventIds \subseteq {ExitToXen(dom) : dom \in Doms} \cup {ExitToGuest(dom) : dom \in Doms}
                         \cup {LostRecords, Other}
ASSUME StampsFitAssumption == NsModulus > MaxNs
ASSUME GarbageAssumption == Garbage \subseteq Times

VARIABLES xenRuntime,    \* per CPU met by exit_to_guest: Xen's time, last exits
          domRuntime,    \* per CPU met by exit_to_xen: the domains' times
          lostRecCount,
          ended,         \* the finalizers ran
          garbage,       \* history: what a new entry of domRuntime held
          seen,          \* history: the exits of each CPU, with their slots
          gaps           \* history: after how many of them records were lost

timeVars == <<feedVars, xenRuntime, domRuntime, lostRecCount, ended, garbage, seen, gaps>>

Slots == 0 .. MaxDoms - 1

(* domId: the idle domain has the last slot, which domain MaxDoms - 1 has  *)
(* too.                                                                    *)
SlotOf(dom) == IF dom = Idle THEN MaxDoms - 1 ELSE dom

Init == /\ FeedInit
        /\ xenRuntime = << >>
        /\ domRuntime = << >>
        /\ lostRecCount = 0
        /\ ended = FALSE
        /\ garbage = << >>
        /\ seen = [cpu \in Cpus |-> << >>]
        /\ gaps = [cpu \in Cpus |-> {}]

-----------------------------------------------------------------------------
LastExitToXen(cpu) == IF cpu \in DOMAIN domRuntime THEN domRuntime[cpu].lastExitToXen ELSE 0

LastExitToGuest(cpu, slot) ==
    IF cpu \in DOMAIN xenRuntime THEN xenRuntime[cpu].exitToGuest[slot] ELSE 0

LatestExitToGuest(cpu) == Max({LastExitToGuest(cpu, slot) : slot \in Slots})

See(id) == seen' = [seen EXCEPT ![event'.cpu] = Append(@, [id |-> id, ns |-> event'.ns])]

(* mutant: every exit to Xen counts *)
CountAlways(slot) ==
    LET cpu == event'.cpu
        entered == LastExitToGuest(cpu, slot)
    IN \/ /\ cpu \in DOMAIN domRuntime
          /\ domRuntime' = [domRuntime EXCEPT ![cpu].lastExitToXen = event'.ns,
                              ![cpu].runtime[slot] = Plus(@, Minus(event'.ns, entered))]
          /\ UNCHANGED garbage
       \/ /\ cpu \notin DOMAIN domRuntime
          /\ domRuntime' = Put(domRuntime, cpu, [lastExitToXen |-> event'.ns,
                                                 runtime |-> [x \in Slots |-> 0]])
          /\ garbage' = Put(garbage, cpu, [x \in Slots |-> 0])

(* mutant: the stamp of a new entry is not set *)
UnstampedEntry(slot, ran, rest) == [lastExitToXen |-> 0, runtime |-> [rest EXCEPT ![slot] = ran]]

(* mutant: a new CPU's entry starts without the time of the domain *)
EntryWithoutTime(slot, ran, rest) ==
    [lastExitToXen |-> event'.ns, runtime |-> [rest EXCEPT ![slot] = 0]]

(* A new CPU's entry: the times in the other slots are not cleared.        *)
NewEntry(slot, ran, rest) ==
    [lastExitToXen |-> event'.ns, runtime |-> [rest EXCEPT ![slot] = ran]]

(* exit_to_xen_handler: the time since the exit to this domain is its run  *)
(* time, unless Xen was entered since.                                     *)
ExitToXenHandler(slot) ==
    LET cpu == event'.cpu
        entered == LastExitToGuest(cpu, slot)
        ran == IF entered = 0 THEN 0 ELSE Minus(event'.ns, entered)
    IN \/ /\ cpu \in DOMAIN domRuntime /\ LastExitToXen(cpu) < entered
          /\ domRuntime' = [domRuntime EXCEPT ![cpu].lastExitToXen = event'.ns,
                                              ![cpu].runtime[slot] = Plus(@, ran)]
          /\ UNCHANGED garbage
       \/ /\ cpu \in DOMAIN domRuntime /\ LastExitToXen(cpu) >= entered
          /\ UNCHANGED <<domRuntime, garbage>>
       \/ /\ cpu \notin DOMAIN domRuntime
          /\ \E rest \in [Slots -> Garbage] :
               /\ domRuntime' = Put(domRuntime, cpu, NewEntry(slot, ran, rest))
               /\ garbage' = Put(garbage, cpu, [rest EXCEPT ![slot] = 0])

(* exit_to_guest_handler: the time since the exit to Xen is Xen's, unless  *)
(* a guest was entered since.                                              *)
ExitToGuestHandler(slot) ==
    LET cpu == event'.cpu
        left == LastExitToXen(cpu)
        spent == IF left = 0 THEN 0 ELSE Minus(event'.ns, left)
    IN \/ /\ cpu \in DOMAIN xenRuntime /\ left > LatestExitToGuest(cpu)
          /\ xenRuntime' = [xenRuntime EXCEPT ![cpu].runtime = Plus(@, spent),
                                              ![cpu].exitToGuest[slot] = event'.ns]
       \/ /\ cpu \in DOMAIN xenRuntime /\ left <= LatestExitToGuest(cpu)
          /\ UNCHANGED xenRuntime
       \/ /\ cpu \notin DOMAIN xenRuntime
          /\ xenRuntime' =
               Put(xenRuntime, cpu,
                   [runtime |-> spent,
                    exitToGuest |-> [x \in Slots |-> IF x = slot THEN event'.ns ELSE 0]])

(* lost_records_handler *)
LostRecordsHandler == lostRecCount' = lostRecCount + 1

SeeGap == gaps' = [gaps EXCEPT ![event'.cpu] = @ \cup {Len(seen[event'.cpu])}]

Record(cpu, id, ns) ==
    /\ ~ended
    /\ Feed(cpu, id, ns)
    /\ \/ \E dom \in Doms : /\ id = ExitToXen(dom) /\ ExitToXenHandler(SlotOf(dom))
                            /\ See(ExitToXen(SlotOf(dom)))
                            /\ UNCHANGED <<xenRuntime, lostRecCount, gaps>>
       \/ \E dom \in Doms : /\ id = ExitToGuest(dom) /\ ExitToGuestHandler(SlotOf(dom))
                            /\ See(ExitToGuest(SlotOf(dom)))
                            /\ UNCHANGED <<domRuntime, lostRecCount, garbage, gaps>>
       \/ /\ id = LostRecords /\ LostRecordsHandler /\ SeeGap
          /\ UNCHANGED <<xenRuntime, domRuntime, garbage, seen>>
       \/ /\ id = Other
          /\ UNCHANGED <<xenRuntime, domRuntime, lostRecCount, garbage, seen, gaps>>
    /\ UNCHANGED ended

(* exit_to_xen_finalize and exit_to_guest_finalize print and free.         *)
Finalize ==
    /\ ~ended
    /\ ended' = TRUE
    /\ UNCHANGED <<feedVars, xenRuntime, domRuntime, lostRecCount, garbage, seen, gaps>>

Next == \/ \E cpu \in Cpus, id \in EventIds, ns \in 1 .. MaxNs : Record(cpu, id, ns)
        \/ Finalize

Spec == Init /\ [][Next]_timeVars

-----------------------------------------------------------------------------
TypeOK ==
    /\ FeedTypeOK
    /\ DOMAIN xenRuntime \subseteq Cpus
    /\ \A cpu \in DOMAIN xenRuntime :
         xenRuntime[cpu] \in [runtime : Times, exitToGuest : [Slots -> 0 .. MaxNs]]
    /\ DOMAIN domRuntime \subseteq Cpus
    /\ \A cpu \in DOMAIN domRuntime :
         domRuntime[cpu] \in [lastExitToXen : 1 .. MaxNs, runtime : [Slots -> Times]]
    /\ lostRecCount \in Nat
    /\ ended \in BOOLEAN

(* Times as printed, and what was in a new entry of domRuntime before it   *)
(* was used, which no code ever takes off again                            *)
XenTime(cpu) == IF cpu \in DOMAIN xenRuntime THEN xenRuntime[cpu].runtime ELSE 0
Printed(cpu, slot) == IF cpu \in DOMAIN domRuntime THEN domRuntime[cpu].runtime[slot] ELSE 0
LeftOver(cpu, slot) == IF cpu \in DOMAIN domRuntime THEN garbage[cpu][slot] ELSE 0

DomTime(cpu, slot) == Minus(Printed(cpu, slot), LeftOver(cpu, slot))

(* What both lists hold is settled up to the later of their stamps, which  *)
(* the handlers compare before they count.                                 *)
Settled(cpu) == Max({LastExitToXen(cpu), LatestExitToGuest(cpu)})

Counted(cpu) == XenTime(cpu) + SumFunction([slot \in Slots |-> DomTime(cpu, slot)])

LedgerOf == [cpu \in {c \in Cpus : seen[c] # << >>} |->
               [since |-> seen[cpu][1].ns, upto |-> Settled(cpu), counted |-> Counted(cpu)]]

(* Whatever exits are missing, repeated or of the wrong domain, no moment  *)
(* of a CPU is counted twice, by Xen and a domain or by two domains: each  *)
(* time counts from a moment not counted before, as TimeLedger has it.     *)
Ledger == INSTANCE TimeLedger
            WITH Meters <- Cpus,
                 now <- IF event = NoEvent THEN 0 ELSE event.ns,
                 ledger <- LedgerOf

ImplementsLedger == Ledger!Spec

(* Xen is entered from the domain it was left for, or one that shares its  *)
(* slot, and no two exits have the same stamp.                             *)
Follows(before, after) ==
    /\ before.ns < after.ns
    /\ \E slot \in Slots : \/ before.id = ExitToGuest(slot) /\ after.id = ExitToXen(slot)
                           \/ /\ before.id = ExitToXen(slot)
                              /\ after.id \in {ExitToGuest(x) : x \in Slots}

Alternate(exits) == \A i \in 1 .. Len(exits) - 1 : Follows(exits[i], exits[i+1])

(* A complete trace of a CPU: its exits alternate, and none of its records *)
(* was lost between two of them.                                           *)
Complete(cpu) == Alternate(seen[cpu]) /\ \A i \in 1 .. Len(seen[cpu]) - 1 : i \notin gaps[cpu]

TimeAfter(exits, ids) ==
    SumFunctionOnSet([i \in 1 .. Len(exits) - 1 |-> exits[i+1].ns - exits[i].ns],
                     {i \in 1 .. Len(exits) - 1 : exits[i].id \in ids})

(* For a CPU whose trace is complete the printed times are exact, but for  *)
(* what a new entry held: a slot has the time from each exit to one of its *)
(* domains to the next exit, the idle domain's and domain MaxDoms - 1's    *)
(* together, and Xen has the rest.                                         *)
ExactIfComplete ==
    \A cpu \in Cpus :
      Complete(cpu) =>
        /\ XenTime(cpu) = TimeAfter(seen[cpu], {ExitToXen(slot) : slot \in Slots})
        /\ \A slot \in Slots :
             Printed(cpu, slot) = Plus(TimeAfter(seen[cpu], {ExitToGuest(slot)}),
                                       LeftOver(cpu, slot))
=============================================================================
