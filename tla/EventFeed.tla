----------------------------- MODULE EventFeed -----------------------------
(***************************************************************************)
(* The records of a log as an analysis sees them: one after the other, in  *)
(* time order, each with the stamp lastNs that return_next_event gives it. *)
(* The analyses are driven by this specification instead of a whole log;   *)
(* EventLog is checked to implement it, so nothing an analysis is fed here *)
(* differs from what the library hands out.                                *)
(***************************************************************************)
EXTENDS Integers

CONSTANTS Cpus,          \* physical CPUs
          EventIds,      \* event ids that occur in the log
          MaxNs,         \* bound: the largest stamp
          MaxRecords,    \* bound: the number of records
          NoEvent        \* the caller's buffer before the first record

ASSUME FeedAssumption == MaxNs \in Nat \ {0} /\ MaxRecords \in Nat

(* A record as return_next_event fills it in *)
FeedRecord == [cpu : Cpus, event_id : EventIds, ns : 1 .. MaxNs, lastNs : 0 .. MaxNs]

ASSUME FeedNoEventAssumption == NoEvent \notin FeedRecord

VARIABLES index,         \* records handed out so far
          stamp,         \* per CPU, the lastNs its next record will get
          event          \* the record handed out last

feedVars == <<index, stamp, event>>

FeedInit == /\ index = 0
            /\ stamp = [cpu \in Cpus |-> 0]
            /\ event = NoEvent

(* Record 0 is everybody's previous record until they have one of their    *)
(* own, and record 1 leaves its CPU without a stamp (see LastNs of         *)
(* EventLog).                                                              *)
Restamp(cpu, ns) ==
    stamp' = IF index = 0 THEN [c \in Cpus |-> ns]
             ELSE [stamp EXCEPT ![cpu] = IF index = 1 THEN 0 ELSE ns]

Feed(cpu, id, ns) ==
    /\ index < MaxRecords
    /\ event # NoEvent => event.ns <= ns
    /\ event' = [cpu |-> cpu, event_id |-> id, ns |-> ns, lastNs |-> stamp[cpu]]
    /\ Restamp(cpu, ns)
    /\ index' = index + 1

FeedTypeOK ==
    /\ index \in 0 .. MaxRecords
    /\ stamp \in [Cpus -> 0 .. MaxNs]
    /\ event \in {NoEvent} \cup FeedRecord

FeedNext == \E cpu \in Cpus, id \in EventIds, ns \in 1 .. MaxNs : Feed(cpu, id, ns)

FeedSpec == FeedInit /\ [][FeedNext]_feedVars
=============================================================================
