---------------------------- MODULE BlkIoProofs ----------------------------
(***************************************************************************)
(* The times of the block I/O analysis, for any number of queues, channels *)
(* and CPUs and logs of any length.  Those of a queue add up, and are the  *)
(* lengths of its stays unless a lost record of its own CPU cut them;      *)
(* those of a channel are exact and no moment counts twice; both have what *)
(* is printed in their .dat files, but for what lost records ended; and    *)
(* the time reported lost fits in that of the log.                         *)
(***************************************************************************)
EXTENDS BlkIo, FeedTheorems

AddsUp(qst) == qst.totalTime = Plus(qst.totalBlockedTime, qst.totalUnblockedTime)

(* Besides types and sums: no queue is freed before the finalizers run,    *)
(* and no more lost records were counted than records read.                *)
NotFreedYet == ended \/ queue \in [Queues -> QueueStates]

BlkInv == /\ FeedInv
          /\ TypeOK
          /\ TimesAddUp
          /\ NotFreedYet
          /\ lostRecCount <= index

-----------------------------------------------------------------------------
LEMMA TimeReturnedOK ==
    ASSUME NEW qst \in QueueStates, NEW updated \in QueueStates
    PROVE  TimeReturned(qst, updated) \in Times
<1>1. qst.totalTime \in Int /\ updated.totalTime \in Int
  BY NsModulusAssumption DEF QueueStates, Times
<1>. QED
  BY <1>1, MinusTime DEF TimeReturned

(* Adding the same time to one part and to the whole keeps the sum. *)
LEMMA PlusParts ==
    ASSUME NEW b \in Times, NEW u \in Times, NEW s \in Times
    PROVE  /\ Plus(Plus(b, u), Plus(s, 0)) = Plus(Plus(b, s), Plus(u, 0))
           /\ Plus(Plus(b, u), Plus(0, s)) = Plus(Plus(b, 0), Plus(u, s))
<1>1. Plus(s, 0) = s /\ Plus(0, s) = s /\ Plus(u, 0) = u /\ Plus(b, 0) = b
  BY PlusCases, ZeroTime, NsModulusAssumption DEF Times
<1>2. Plus(Plus(b, u), s) = Plus(Plus(b, s), u)
  <2>. DEFINE bu == Plus(b, u)
              bs == Plus(b, s)
  <2>1. /\ bu \in Times
        /\ b + u < NsModulus => bu = b + u
        /\ b + u >= NsModulus => bu = b + u - NsModulus
    BY PlusCases
  <2>2. /\ bs \in Times
        /\ b + s < NsModulus => bs = b + s
        /\ b + s >= NsModulus => bs = b + s - NsModulus
    BY PlusCases
  <2>. HIDE DEF bu, bs
  <2>3. /\ bu + s < NsModulus => Plus(bu, s) = bu + s
        /\ bu + s >= NsModulus => Plus(bu, s) = bu + s - NsModulus
    BY <2>1, PlusCases
  <2>4. /\ bs + u < NsModulus => Plus(bs, u) = bs + u
        /\ bs + u >= NsModulus => Plus(bs, u) = bs + u - NsModulus
    BY <2>2, PlusCases
  <2>5. Plus(bu, s) = Plus(bs, u)
    BY <2>1, <2>2, <2>3, <2>4, NsModulusAssumption DEF Times
  <2>. QED
    BY <2>5 DEF bu, bs
<1>3. Plus(Plus(b, u), s) = Plus(b, Plus(u, s))
  <2>. DEFINE bu == Plus(b, u)
              us == Plus(u, s)
  <2>1. /\ bu \in Times
        /\ b + u < NsModulus => bu = b + u
        /\ b + u >= NsModulus => bu = b + u - NsModulus
    BY PlusCases
  <2>2. /\ us \in Times
        /\ u + s < NsModulus => us = u + s
        /\ u + s >= NsModulus => us = u + s - NsModulus
    BY PlusCases
  <2>. HIDE DEF bu, us
  <2>3. /\ bu + s < NsModulus => Plus(bu, s) = bu + s
        /\ bu + s >= NsModulus => Plus(bu, s) = bu + s - NsModulus
    BY <2>1, PlusCases
  <2>4. /\ b + us < NsModulus => Plus(b, us) = b + us
        /\ b + us >= NsModulus => Plus(b, us) = b + us - NsModulus
    BY <2>2, PlusCases
  <2>5. Plus(bu, s) = Plus(b, us)
    BY <2>1, <2>2, <2>3, <2>4, NsModulusAssumption DEF Times
  <2>. QED
    BY <2>5 DEF bu, us
<1>. QED
  BY <1>1, <1>2, <1>3

-----------------------------------------------------------------------------
(* Entering a state after time spent on one side *)
LEMMA EnterOK ==
    ASSUME NEW qst \in QueueStates, AddsUp(qst),
           NEW state \in {"INIT", "BLOCKED", "UNBLOCKED", "UNKNOWN"},
           NEW ev \in FeedRecord, NEW spent \in Times
    PROVE  /\ Enter(qst, state, ev, spent, 0) \in QueueStates
           /\ AddsUp(Enter(qst, state, ev, spent, 0))
           /\ Enter(qst, state, ev, 0, spent) \in QueueStates
           /\ AddsUp(Enter(qst, state, ev, 0, spent))
<1>. DEFINE b == qst.totalBlockedTime
            u == qst.totalUnblockedTime
<1>1. b \in Times /\ u \in Times /\ qst.totalTime \in Times
  BY DEF QueueStates
<1>2. qst.totalTime = Plus(b, u)
  BY DEF AddsUp
<1>3. ev.ns \in 0 .. MaxNs
  BY FeedAssumption DEF FeedRecord
<1>4. /\ Plus(b, spent) \in Times /\ Plus(u, spent) \in Times
      /\ Plus(b, 0) \in Times /\ Plus(u, 0) \in Times
      /\ Plus(spent, 0) \in Times /\ Plus(0, spent) \in Times
  BY <1>1, PlusCases, ZeroTime
<1>5. /\ Plus(qst.totalTime, Plus(spent, 0)) \in Times
      /\ Plus(qst.totalTime, Plus(0, spent)) \in Times
  BY <1>1, <1>4, PlusCases
<1>6. /\ Plus(qst.totalTime, Plus(spent, 0)) = Plus(Plus(b, spent), Plus(u, 0))
      /\ Plus(qst.totalTime, Plus(0, spent)) = Plus(Plus(b, 0), Plus(u, spent))
  BY <1>1, <1>2, PlusParts
<1>7. /\ Enter(qst, state, ev, spent, 0) \in QueueStates
      /\ Enter(qst, state, ev, 0, spent) \in QueueStates
  BY <1>3, <1>4, <1>5 DEF Enter, QueueStates
<1>8. AddsUp(Enter(qst, state, ev, spent, 0))
  BY <1>6 DEF Enter, AddsUp, QueueStates
<1>9. AddsUp(Enter(qst, state, ev, 0, spent))
  BY <1>6 DEF Enter, AddsUp, QueueStates
<1>. QED
  BY <1>7, <1>8, <1>9

(* What queue_update_state makes of a queue whose times add up. *)
LEMMA UpdateOK ==
    ASSUME NEW qst \in QueueStates, AddsUp(qst), NEW msg \in Messages,
           NEW ev \in FeedRecord, NEW before \in Times
    PROVE  /\ UpdateState(qst, msg, ev, before) \in QueueStates
           /\ AddsUp(UpdateState(qst, msg, ev, before))
<1>1. StateAfter(msg) \in {"BLOCKED", "UNBLOCKED", "UNKNOWN"}
  BY DEF StateAfter, Messages
<1>2. ev.ns \in 0 .. MaxNs /\ ev.cpu \in Cpus /\ qst.lastNs \in 0 .. MaxNs
  BY FeedAssumption DEF FeedRecord, QueueStates
<1>3. /\ Minus(ev.ns, qst.lastNs) \in Times
      /\ Minus(before, qst.lastNs) \in Times
  <2>1. before \in Int
    BY DEF Times
  <2>. QED
    BY <1>2, <2>1, MinusTime, FeedAssumption
<1>4. CASE qst.state = "INIT"
  <2>1. UpdateState(qst, msg, ev, before) = UpdateInit(qst, msg, ev)
    BY <1>4 DEF UpdateState
  <2>2. UpdateInit(qst, msg, ev) \in QueueStates
    BY <1>1, <1>2 DEF UpdateInit, QueueStates
  <2>3. AddsUp(UpdateInit(qst, msg, ev))
    BY DEF UpdateInit, AddsUp, QueueStates
  <2>. QED
    BY <2>1, <2>2, <2>3
<1>5. CASE qst.state \in {"BLOCKED", "UNBLOCKED"}
  <2>. DEFINE spent == IF msg # "LOST_REC" THEN Minus(ev.ns, qst.lastNs)
                       ELSE IF before # 0 THEN Minus(before, qst.lastNs) ELSE 0
  <2>1. spent \in Times
    BY <1>3, ZeroTime
  <2>2. UpdateState(qst, msg, ev, before) = UpdateKnown(qst, msg, ev, before)
    BY <1>5 DEF UpdateState
  <2>3. \/ UpdateKnown(qst, msg, ev, before) = qst
        \/ UpdateKnown(qst, msg, ev, before) = Enter(qst, StateAfter(msg), ev, spent, 0)
        \/ UpdateKnown(qst, msg, ev, before) = Enter(qst, StateAfter(msg), ev, 0, spent)
    BY DEF UpdateKnown
  <2>. HIDE DEF spent
  <2>. QED
    BY <1>1, <2>1, <2>2, <2>3, EnterOK
<1>6. CASE qst.state = "UNKNOWN"
  <2>. DEFINE spent == Minus(ev.ns, qst.lastNs)
  <2>1. UpdateState(qst, msg, ev, before) = UpdateUnknown(qst, msg, ev)
    BY <1>6 DEF UpdateState
  <2>2. \/ UpdateUnknown(qst, msg, ev) = qst
        \/ UpdateUnknown(qst, msg, ev) = Enter(qst, "BLOCKED", ev, 0, spent)
        \/ UpdateUnknown(qst, msg, ev) = Enter(qst, "UNBLOCKED", ev, spent, 0)
        \/ UpdateUnknown(qst, msg, ev) = Enter(qst, "UNKNOWN", ev, 0, 0)
    BY DEF UpdateUnknown, Messages
  <2>. HIDE DEF spent
  <2>. QED
    BY <1>3, <2>1, <2>2, EnterOK, ZeroTime DEF spent
<1>. QED
  BY <1>4, <1>5, <1>6 DEF QueueStates

-----------------------------------------------------------------------------
LEMMA InitOK == Init => BlkInv
<1>. SUFFICES ASSUME Init PROVE BlkInv
  OBVIOUS
<1>1. FeedInv /\ FeedTypeOK
  BY FeedInitOK DEF Init, FeedInv
<1>2. InitState \in QueueStates
  BY ZeroTime, FeedAssumption DEF InitState, QueueStates
<1>3. Plus(0, 0) = 0
  BY NsModulusAssumption DEF Plus
<1>4. \A q \in Queues : queue[q] = InitState
  BY DEF Init
<1>5. TimesAddUp
  BY <1>3, <1>4 DEF TimesAddUp, Live, InitState
<1>6. queue \in [Queues -> QueueStates]
  BY <1>2 DEF Init
<1>7. dat \in [Queues -> Seq(Times)] /\ credited \in [Queues -> Times]
  BY ZeroTime DEF Init
<1>8. DOMAIN lrt = {}
  BY DEF Init
<1>9. lostRecCount = 0 /\ index = 0 /\ ended = FALSE /\ began = 0
  BY DEF Init, FeedInit
<1>10. /\ queue \in [Queues -> QueueStates \cup {Freed}]
       /\ lostRecCount \in 0 .. MaxRecords /\ began \in 0 .. MaxNs
  BY <1>6, <1>9, FeedAssumption
<1>11. TypeOK
  BY <1>1, <1>7, <1>8, <1>9, <1>10 DEF TypeOK
<1>. QED
  BY <1>1, <1>5, <1>6, <1>9, <1>11 DEF BlkInv, NotFreedYet

(* Before the end of the log all queues are live, and their times add up. *)
LEMMA LiveQueues ==
    ASSUME BlkInv, ~ended
    PROVE  /\ queue \in [Queues -> QueueStates]
           /\ \A q \in Queues : queue[q] \in QueueStates /\ AddsUp(queue[q])
<1>1. queue \in [Queues -> QueueStates]
  BY DEF BlkInv, NotFreedYet
<1>2. \A q \in Queues : queue[q] \in QueueStates /\ q \in Live
  BY <1>1, FreedAssumption DEF Live
<1>. QED
  BY <1>1, <1>2 DEF BlkInv, TimesAddUp, AddsUp

(* If each queue is a live one whose times add up, so is the invariant's   *)
(* part about queues.                                                      *)
LEMMA QueuesOK ==
    ASSUME NEW f \in [Queues -> QueueStates], queue' = f,
           \A q \in Queues : AddsUp(f[q])
    PROVE  TimesAddUp' /\ NotFreedYet'
BY DEF TimesAddUp, Live, AddsUp, NotFreedYet

-----------------------------------------------------------------------------
(* One record read and handled *)
LEMMA RecordOK ==
    ASSUME BlkInv, NEW cpu \in Cpus, NEW id \in EventIds, NEW ns \in 1 .. MaxNs,
           Record(cpu, id, ns)
    PROVE  BlkInv'
<1>1. ~ended /\ Feed(cpu, id, ns)
  BY DEF Record
<1>2. FeedInv /\ FeedTypeOK
  BY DEF BlkInv, FeedInv
<1>3. FeedInv' /\ FeedTypeOK' /\ event' \in FeedRecord /\ index' = index + 1
  BY <1>1, <1>2, FeedOK DEF FeedInv
<1>4. /\ queue \in [Queues -> QueueStates]
      /\ \A q \in Queues : queue[q] \in QueueStates /\ AddsUp(queue[q])
  BY <1>1, LiveQueues
<1>5. /\ DOMAIN lrt \subseteq Cpus
      /\ \A c \in DOMAIN lrt :
           lrt[c] \in [totalLostTime : Times, lastNs : 0 .. MaxNs, lastNs2 : Times]
      /\ dat \in [Queues -> Seq(Times)] /\ credited \in [Queues -> Times]
      /\ lostRecCount \in 0 .. MaxRecords /\ lostRecCount <= index /\ ended \in BOOLEAN
  BY DEF BlkInv, TypeOK
<1>6. index \in 0 .. MaxRecords /\ index' \in 0 .. MaxRecords
  BY <1>2, <1>3 DEF FeedTypeOK
<1>7. /\ event'.cpu \in Cpus /\ event'.ns \in 0 .. MaxNs
      /\ event'.lastNs \in 0 .. MaxNs /\ event'.lastNs \in Times
      /\ began' \in 0 .. MaxNs
  <2>1. event'.cpu \in Cpus /\ event'.ns \in 0 .. MaxNs /\ event'.lastNs \in 0 .. MaxNs
    BY <1>3, FeedAssumption DEF FeedRecord
  <2>2. event'.lastNs \in Times
    BY <2>1, FeedAssumption, StampsFitAssumption, NsModulusAssumption DEF Times
  <2>3. began' \in 0 .. MaxNs
    BY FeedAssumption DEF Record, BlkInv, TypeOK
  <2>. QED
    BY <2>1, <2>2, <2>3
<1>8. ASSUME NEW q \in Queues, NEW msg \in Messages, QueueHandler(q, msg)
      PROVE  BlkInv'
  <2>. DEFINE updated == UpdateState(queue[q], msg, event', 0)
              f == [queue EXCEPT ![q] = updated]
  <2>1. updated \in QueueStates /\ AddsUp(updated)
    BY <1>3, <1>4, UpdateOK, ZeroTime
  <2>2. Update(q, msg)
    BY <1>8 DEF QueueHandler, SamplingHandler, PlainHandler
  <2>3. queue' = f /\ UNCHANGED <<lrt, lostRecCount, ended, cut, credited>>
    BY <2>2 DEF Update
  <2>4. TimeReturned(queue[q], updated) \in Times
    BY <1>4, <2>1, TimeReturnedOK
  <2>. HIDE DEF updated
  <2>5. f \in [Queues -> QueueStates] /\ \A p \in Queues : AddsUp(f[p])
    BY <1>4, <2>1
  <2>6. dat' \in [Queues -> Seq(Times)]
    <3>1. CASE UNCHANGED dat
      BY <1>5, <3>1
    <3>2. CASE SamplingHandler(q, msg)
      <4>. DEFINE wTime == TimeReturned(queue[q], queue'[q])
      <4>1. wTime \in Times
        BY <1>4, <2>3, <2>4
      <4>2. dat' = dat \/ dat' = [dat EXCEPT ![q] = Append(@, wTime)]
        BY <3>2 DEF SamplingHandler
      <4>. HIDE DEF wTime
      <4>3. dat[q] \in Seq(Times) /\ Append(dat[q], wTime) \in Seq(Times)
        BY <1>5, <4>1
      <4>. QED
        BY <1>5, <4>2, <4>3
    <3>. QED
      BY <1>8, <3>1, <3>2 DEF QueueHandler, PlainHandler
  <2>. HIDE DEF f
  <2>7. TimesAddUp' /\ NotFreedYet'
    BY <2>3, <2>5, QueuesOK
  <2>8. queue' \in [Queues -> QueueStates \cup {Freed}]
    BY <2>3, <2>5
  <2>9. TypeOK'
    BY <1>3, <1>5, <1>7, <2>3, <2>6, <2>8 DEF TypeOK
  <2>. QED
    BY <1>3, <1>5, <1>6, <2>3, <2>7, <2>9 DEF BlkInv
<1>9. ASSUME LostRecordsHandler
      PROVE  BlkInv'
  <2>. DEFINE before == EvBeforeLostRecordsNs(event'.cpu)
              f == [q \in Queues |-> UpdateState(queue[q], "LOST_REC", event', before)]
  <2>1. before \in Times
    BY <1>5, <1>7, ZeroTime DEF EvBeforeLostRecordsNs
  <2>2. queue' = f
    BY <1>9 DEF LostRecordsHandler
  <2>3. \A q \in Queues :
          /\ UpdateState(queue[q], "LOST_REC", event', before) \in QueueStates
          /\ AddsUp(UpdateState(queue[q], "LOST_REC", event', before))
    <3>. HIDE DEF before
    <3>. QED
      BY <1>3, <1>4, <2>1, UpdateOK DEF Messages
  <2>4. f \in [Queues -> QueueStates] /\ \A q \in Queues : AddsUp(f[q])
    BY <2>3
  <2>5. TimesAddUp' /\ NotFreedYet'
    <3>. HIDE DEF f
    <3>. QED
      BY <2>2, <2>4, QueuesOK
  <2>6. queue' \in [Queues -> QueueStates \cup {Freed}]
    <3>. HIDE DEF f
    <3>. QED
      BY <2>2, <2>4
  <2>7. /\ DOMAIN lrt' \subseteq Cpus
        /\ \A c \in DOMAIN lrt' :
             lrt'[c] \in [totalLostTime : Times, lastNs : 0 .. MaxNs, lastNs2 : Times]
    <3>1. PICK garbage \in Times : UpdateLrt(event', garbage)
      BY <1>9 DEF LostRecordsHandler
    <3>. DEFINE entry == LrtEntry(event'.cpu, garbage)
                lost == Minus(event'.ns, event'.lastNs)
                updated == IF event'.lastNs = 0 THEN entry
                           ELSE [totalLostTime |-> Plus(entry.totalLostTime, lost),
                                 lastNs |-> event'.ns, lastNs2 |-> event'.lastNs]
    <3>2. entry \in [totalLostTime : Times, lastNs : 0 .. MaxNs, lastNs2 : Times]
      BY <1>5, ZeroTime, FeedAssumption DEF LrtEntry
    <3>3. lost \in Times
      BY <1>7, MinusTime, FeedAssumption
    <3>4. lrt' = [c \in DOMAIN lrt \cup {event'.cpu} |->
                    IF c = event'.cpu THEN updated ELSE lrt[c]]
      BY <3>1 DEF UpdateLrt
    <3>. HIDE DEF entry, lost
    <3>5. entry.totalLostTime \in Times /\ Plus(entry.totalLostTime, lost) \in Times
      BY <3>2, <3>3, PlusCases
    <3>6. updated \in [totalLostTime : Times, lastNs : 0 .. MaxNs, lastNs2 : Times]
      BY <1>7, <3>2, <3>5
    <3>. HIDE DEF updated
    <3>. QED
      BY <1>5, <1>7, <3>4, <3>6
  <2>8. lostRecCount' = lostRecCount + 1 /\ UNCHANGED <<ended, dat>>
    BY <1>9 DEF LostRecordsHandler
  <2>9. lostRecCount' \in 0 .. MaxRecords /\ lostRecCount' <= index'
    BY <1>3, <1>5, <1>6, <2>8, FeedAssumption
  <2>10. credited' \in [Queues -> Times]
    <3>. DEFINE spent(q) == TimeReturned(queue[q],
                                UpdateState(queue[q], "LOST_REC", event', before))
                dropped(q) == IF queue[q].state = SampledState(q) THEN spent(q) ELSE 0
    <3>1. \A q \in Queues : spent(q) \in Times
      BY <1>4, <2>3, TimeReturnedOK
    <3>2. \A q \in Queues : Plus(credited[q], dropped(q)) \in Times
      <4>. HIDE DEF spent
      <4>. QED
        BY <1>5, <3>1, PlusCases, ZeroTime
    <3>3. credited' = [q \in Queues |-> Plus(credited[q], dropped(q))]
      BY <1>9 DEF LostRecordsHandler
    <3>. HIDE DEF dropped
    <3>. QED
      BY <3>2, <3>3
  <2>11. TypeOK'
    <3>. HIDE DEF before, f
    <3>. QED
      BY <1>3, <1>5, <1>7, <2>6, <2>7, <2>8, <2>9, <2>10 DEF TypeOK
  <2>. QED
    BY <1>3, <2>5, <2>9, <2>11 DEF BlkInv
<1>10. ASSUME UNCHANGED <<queue, lrt, lostRecCount, ended, dat, told, cut, credited>>
       PROVE  BlkInv'
  <2>1. TimesAddUp' /\ NotFreedYet'
    BY <1>10 DEF BlkInv, TimesAddUp, Live, NotFreedYet
  <2>2. TypeOK'
    BY <1>3, <1>7, <1>10 DEF BlkInv, TypeOK
  <2>. QED
    BY <1>3, <1>5, <1>6, <1>10, <2>1, <2>2 DEF BlkInv
<1>. QED
  BY <1>8, <1>9, <1>10 DEF Record, Messages

(* The end of the log, a finalizer, and a step that changes nothing here *)
LEMMA StepOK == BlkInv /\ [Next]_blkVars => BlkInv'
<1>. SUFFICES ASSUME BlkInv, [Next]_blkVars PROVE BlkInv'
  OBVIOUS
<1>1. CASE \E cpu \in Cpus, id \in EventIds, ns \in 1 .. MaxNs : Record(cpu, id, ns)
  BY <1>1, RecordOK
<1>2. CASE EndOfLog
  <2>1. FeedInv' /\ FeedTypeOK' /\ index' = index
    BY <1>2, FeedSame DEF EndOfLog, BlkInv, FeedInv, feedVars
  <2>2. TypeOK'
    BY <1>2, <2>1 DEF EndOfLog, BlkInv, TypeOK
  <2>3. TimesAddUp' /\ NotFreedYet'
    BY <1>2 DEF EndOfLog, BlkInv, TimesAddUp, Live, NotFreedYet
  <2>. QED
    BY <1>2, <2>1, <2>2, <2>3 DEF EndOfLog, BlkInv
<1>3. ASSUME NEW q \in Queues, Finalize(q)
      PROVE  BlkInv'
  <2>1. FeedInv' /\ FeedTypeOK' /\ index' = index
    BY <1>3, FeedSame DEF Finalize, BlkInv, FeedInv, feedVars
  <2>2. queue' \in [Queues -> QueueStates \cup {Freed}]
    BY <1>3 DEF Finalize, BlkInv, TypeOK
  <2>3. TypeOK'
    BY <1>3, <2>1, <2>2 DEF Finalize, BlkInv, TypeOK
  <2>4. TimesAddUp'
    <3>1. \A p \in Live' : p \in Live /\ queue'[p] = queue[p]
      BY <1>3 DEF Live, Finalize, BlkInv, TypeOK
    <3>. QED
      BY <3>1 DEF BlkInv, TimesAddUp
  <2>. QED
    BY <1>3, <2>1, <2>3, <2>4 DEF Finalize, BlkInv, NotFreedYet
<1>4. CASE UNCHANGED blkVars
  <2>1. FeedInv' /\ FeedTypeOK'
    BY <1>4, FeedSame DEF blkVars, BlkInv, FeedInv
  <2>. QED
    BY <1>4, <2>1
    DEF blkVars, feedVars, BlkInv, TypeOK, TimesAddUp, Live, NotFreedYet
<1>. QED
  BY <1>1, <1>2, <1>3, <1>4 DEF Next

-----------------------------------------------------------------------------
(* The time reported lost.  A CPU's sum fits between the first record of   *)
(* the log and the CPU's last lost record, from which the next gap starts  *)
(* at the earliest; a record that has a stamp has one of the log.          *)
LostInv ==
    /\ \A cpu \in DOMAIN lrt :
         /\ lrt[cpu].lastNs <= Now
         /\ \/ lrt[cpu].totalLostTime = 0 /\ lrt[cpu].lastNs = 0
            \/ lrt[cpu].totalLostTime <= lrt[cpu].lastNs - began
         /\ stamp[cpu] = 0 \/ lrt[cpu].lastNs <= stamp[cpu]
    /\ \A cpu \in Cpus : stamp[cpu] # 0 => event # NoEvent /\ began <= stamp[cpu]
    /\ event # NoEvent => began <= Now
    /\ DOMAIN lrt # {} => event # NoEvent

LEMMA LostFits == BlkInv /\ LostInv => LostTimeFits
<1>. SUFFICES ASSUME BlkInv, LostInv, NEW cpu \in DOMAIN lrt
              PROVE  lrt[cpu].totalLostTime <= event.ns - began
  BY DEF LostTimeFits
<1>1. event # NoEvent /\ began <= Now /\ began \in 0 .. MaxNs
  BY DEF LostInv, BlkInv, TypeOK
<1>2. event.ns \in 1 .. MaxNs
  BY <1>1 DEF BlkInv, FeedInv, FeedTypeOK, FeedRecord
<1>3. lrt[cpu].lastNs \in 0 .. MaxNs /\ lrt[cpu].totalLostTime \in Times
  BY DEF BlkInv, TypeOK
<1>. QED
  BY <1>1, <1>2, <1>3, FeedAssumption, NsModulusAssumption DEF LostInv, Now, Times

(* One entry after a lost record at ns with the stamp last *)
LEMMA GapAdds ==
    ASSUME NEW total \in Times, NEW before \in 0 .. MaxNs, NEW last \in 1 .. MaxNs,
           NEW ns \in 1 .. MaxNs, NEW start \in 0 .. MaxNs,
           start <= last, last <= ns, before <= last,
           total = 0 \/ total <= before - start
    PROVE  Plus(total, Minus(ns, last)) <= ns - start
<1>1. Minus(ns, last) = ns - last /\ ns - last \in Times
  BY MinusExact, StampsFitAssumption, FeedAssumption, NsModulusAssumption DEF Times
<1>2. total + (ns - last) <= ns - start
  BY FeedAssumption, NsModulusAssumption DEF Times
<1>3. total + (ns - last) < NsModulus
  BY <1>1, <1>2, StampsFitAssumption, FeedAssumption, NsModulusAssumption DEF Times
<1>. QED
  BY <1>1, <1>2, <1>3, PlusCases

LEMMA LostRecordKeeps ==
    ASSUME BlkInv, LostInv, NEW cpu \in Cpus, NEW id \in EventIds, NEW ns \in 1 .. MaxNs,
           Record(cpu, id, ns)
    PROVE  LostInv'
<1>1. /\ Now <= ns /\ Now' = ns /\ Now \in Nat /\ ns \in Nat
      /\ event' # NoEvent /\ event'.cpu = cpu /\ event'.ns = ns /\ event'.lastNs = stamp[cpu]
      /\ stamp[cpu] \in 0 .. MaxNs /\ stamp[cpu] <= ns
      /\ \A c \in Cpus : stamp'[c] \in {0, ns} \/ stamp'[c] = stamp[c]
      /\ stamp'[cpu] \in {0, ns}
  BY FeedOK, NowType, FeedAssumption DEF Record, BlkInv, FeedInv
<1>2. /\ DOMAIN lrt \subseteq Cpus /\ began \in 0 .. MaxNs
      /\ \A c \in DOMAIN lrt : lrt[c].lastNs \in 0 .. MaxNs /\ lrt[c].totalLostTime \in Times
  BY DEF BlkInv, TypeOK
<1>3. ASSUME NEW c \in DOMAIN lrt
      PROVE  /\ lrt[c].lastNs <= ns
             /\ stamp'[c] = 0 \/ lrt[c].lastNs <= stamp'[c]
  BY <1>1, <1>2 DEF LostInv
<1>4. /\ began' = IF event = NoEvent THEN ns ELSE began
      /\ event # NoEvent => began <= Now
      /\ DOMAIN lrt # {} => event # NoEvent
      /\ \A c \in Cpus : stamp[c] # 0 => event # NoEvent /\ began <= stamp[c]
  BY DEF Record, LostInv
<1>5. /\ began' <= ns
      /\ DOMAIN lrt # {} \/ stamp[cpu] # 0 => began' = began
      /\ \A c \in Cpus : stamp'[c] # 0 => began' <= stamp'[c]
  BY <1>1, <1>2, <1>4
<1>6. CASE UNCHANGED lrt
  <2>1. ASSUME NEW c \in DOMAIN lrt
        PROVE  \/ lrt[c].totalLostTime = 0 /\ lrt[c].lastNs = 0
               \/ lrt[c].totalLostTime <= lrt[c].lastNs - began'
    BY <1>5 DEF LostInv
  <2>. QED
    BY <1>1, <1>3, <1>5, <1>6, <2>1 DEF LostInv
<1>7. ASSUME NEW garbage \in Times, UpdateLrt(event', garbage)
      PROVE  LostInv'
  <2>. DEFINE entry == LrtEntry(cpu, garbage)
              total == Plus(entry.totalLostTime, Minus(ns, stamp[cpu]))
              updated == IF stamp[cpu] = 0 THEN entry
                         ELSE [totalLostTime |-> total, lastNs |-> ns,
                               lastNs2 |-> stamp[cpu]]
  <2>1. lrt' = [c \in DOMAIN lrt \cup {cpu} |-> IF c = cpu THEN updated ELSE lrt[c]]
    BY <1>1, <1>7 DEF UpdateLrt
  <2>2. /\ entry.lastNs \in 0 .. MaxNs /\ entry.totalLostTime \in Times
        /\ entry.lastNs <= ns
        /\ \/ entry.totalLostTime = 0 /\ entry.lastNs = 0
           \/ entry.totalLostTime <= entry.lastNs - began'
        /\ stamp[cpu] = 0 \/ entry.lastNs <= stamp[cpu]
        /\ stamp'[cpu] = 0 \/ entry.lastNs <= stamp'[cpu]
    <3>1. CASE cpu \in DOMAIN lrt
      <4>1. began' = began
        BY <1>5, <3>1
      <4>. QED
        BY <1>2, <1>3, <3>1, <4>1 DEF LrtEntry, LostInv
    <3>2. CASE cpu \notin DOMAIN lrt
      BY <1>1, <3>2, ZeroTime, FeedAssumption DEF LrtEntry
    <3>. QED
      BY <3>1, <3>2
  <2>. HIDE DEF entry
  <2>3. /\ updated.lastNs <= ns
        /\ \/ updated.totalLostTime = 0 /\ updated.lastNs = 0
           \/ updated.totalLostTime <= updated.lastNs - began'
        /\ stamp'[cpu] = 0 \/ updated.lastNs <= stamp'[cpu]
    <3>1. CASE stamp[cpu] = 0
      BY <2>2, <3>1
    <3>2. CASE stamp[cpu] # 0
      <4>1. began' \in 0 .. MaxNs /\ began' <= stamp[cpu]
        BY <1>2, <1>4, <1>5, <3>2
      <4>2. total <= ns - began'
        BY <1>1, <2>2, <3>2, <4>1, GapAdds
      <4>. HIDE DEF total
      <4>3. updated.totalLostTime = total /\ updated.lastNs = ns
        BY <3>2
      <4>. QED
        BY <1>1, <4>2, <4>3
    <3>. QED
      BY <3>1, <3>2
  <2>. HIDE DEF updated
  <2>4. ASSUME NEW c \in DOMAIN lrt'
        PROVE  /\ lrt'[c].lastNs <= Now'
               /\ \/ lrt'[c].totalLostTime = 0 /\ lrt'[c].lastNs = 0
                  \/ lrt'[c].totalLostTime <= lrt'[c].lastNs - began'
               /\ stamp'[c] = 0 \/ lrt'[c].lastNs <= stamp'[c]
    <3>1. CASE c = cpu
      BY <1>1, <2>1, <2>3, <3>1
    <3>2. CASE c # cpu
      <4>1. c \in DOMAIN lrt /\ lrt'[c] = lrt[c] /\ began' = began
        BY <1>5, <2>1, <3>2
      <4>. QED
        BY <1>1, <1>3, <4>1 DEF LostInv
    <3>. QED
      BY <3>1, <3>2
  <2>. QED
    BY <1>1, <1>5, <2>4 DEF LostInv
<1>8. UNCHANGED lrt \/ \E garbage \in Times : UpdateLrt(event', garbage)
  BY DEF Record, QueueHandler, SamplingHandler, PlainHandler, Update, LostRecordsHandler
<1>. QED
  BY <1>6, <1>7, <1>8

LEMMA LostStep == BlkInv /\ LostInv /\ [Next]_blkVars => LostInv'
<1>. SUFFICES ASSUME BlkInv, LostInv, [Next]_blkVars PROVE LostInv'
  OBVIOUS
<1>1. CASE \E cpu \in Cpus, id \in EventIds, ns \in 1 .. MaxNs : Record(cpu, id, ns)
  BY <1>1, LostRecordKeeps
<1>2. CASE UNCHANGED <<feedVars, lrt, began>>
  BY <1>2 DEF feedVars, LostInv, Now
<1>. QED
  BY <1>1, <1>2 DEF Next, EndOfLog, Finalize, blkVars

-----------------------------------------------------------------------------
(* The whole program: its queues step as BlkIoQueues does.                 *)
LEMMA IoInitQueues == IoInit => Init
BY DEF IoInit

LEMMA IoStepQueues == [IoNext]_ioVars => [Next]_blkVars
<1>. SUFFICES ASSUME [IoNext]_ioVars PROVE [Next]_blkVars
  OBVIOUS
<1>1. ASSUME NEW cpu \in Cpus, NEW id \in EventIds, NEW ns \in 1 .. MaxNs,
             IoRecord(cpu, id, ns)
      PROVE  Next
  BY <1>1 DEF IoRecord, Next
<1>2. CASE IoEndOfLog
  BY <1>2 DEF IoEndOfLog, Next
<1>3. ASSUME NEW q \in Queues, FinalizeQueue(q)
      PROVE  Next
  BY <1>3 DEF FinalizeQueue, Next
<1>4. ASSUME NEW ch \in Channels, FinalizeWait(ch)
      PROVE  UNCHANGED blkVars
  BY <1>4 DEF FinalizeWait, Wait!Finalize, Wait!feedVars, blkVars, feedVars
<1>5. CASE UNCHANGED ioVars
  BY <1>5 DEF ioVars
<1>. QED
  BY <1>1, <1>2, <1>3, <1>4, <1>5 DEF IoNext

(* The waits.  What they say of the log is also in BlkInv. *)
WaitData == [state : {"INIT", "SENT", "RECEIVED"}, lastNs : 0 .. MaxNs,
             totalWaitTime : Times]

WaitInv == /\ wdat \in [Channels -> WaitData]
           /\ freed \subseteq Channels
           /\ waitDat \in [Channels -> Seq(Times)]

LEMMA WaitTypes == BlkInv /\ WaitInv => IoTypeOK
BY DEF BlkInv, WaitInv, WaitData, IoTypeOK, TypeOK, FeedTypeOK, Times, Wait!TypeOK,
       Wait!FeedTypeOK, FeedRecord, Wait!FeedRecord, Wait!Times

LEMMA IoInitWaits == IoInit => WaitInv
BY ZeroTime, FeedAssumption DEF IoInit, Wait!Init, WaitInv, WaitData

(* An interrupt met with a state of its channel *)
LEMMA WaitUpdateOK ==
    ASSUME NEW w \in WaitData, NEW msg \in {"SENT", "RECEIVED"}, NEW ev \in FeedRecord
    PROVE  Wait!WaitUpdateState(w, msg, ev) \in WaitData
<1>1. w.state \in {"INIT", "SENT", "RECEIVED"} /\ w.totalWaitTime \in Times
      /\ w.lastNs \in 0 .. MaxNs /\ ev.ns \in 0 .. MaxNs
  BY FeedAssumption DEF WaitData, FeedRecord
<1>2. Wait!Plus(w.totalWaitTime, Wait!Minus(ev.ns, w.lastNs)) \in Times
  BY <1>1, NsModulusAssumption DEF Wait!Plus, Wait!Minus, Times
<1>3. CASE w.state = msg
  BY <1>3 DEF Wait!WaitUpdateState
<1>4. CASE w.state # msg
  <2>. DEFINE total == IF w.state = "SENT"
                       THEN Wait!Plus(w.totalWaitTime, Wait!Minus(ev.ns, w.lastNs))
                       ELSE w.totalWaitTime
  <2>1. Wait!WaitUpdateState(w, msg, ev) =
          [state |-> msg, lastNs |-> ev.ns, totalWaitTime |-> total]
    BY <1>4 DEF Wait!WaitUpdateState
  <2>2. total \in Times
    BY <1>1, <1>2
  <2>. HIDE DEF total
  <2>. QED
    BY <1>1, <2>1, <2>2 DEF WaitData
<1>. QED
  BY <1>3, <1>4

(* One interrupt handled: the state of its channel and the .dat file *)
LEMMA InterruptOK ==
    ASSUME WaitInv, NEW ch \in Channels, event' \in FeedRecord,
           Wait!SentHandler(ch) \/ Wait!ReceivedHandler(ch)
    PROVE  wdat' \in [Channels -> WaitData] /\ waitDat' \in [Channels -> Seq(Times)]
<1>1. PICK msg \in {"SENT", "RECEIVED"} : Wait!Update(ch, msg)
  BY DEF Wait!SentHandler, Wait!ReceivedHandler
<1>. DEFINE updated == Wait!WaitUpdateState(wdat[ch], msg, event')
            wTime == Wait!Minus(wdat'[ch].totalWaitTime, wdat[ch].totalWaitTime)
<1>2. wdat[ch] \in WaitData /\ updated \in WaitData
  BY WaitUpdateOK DEF WaitInv
<1>3. wdat' = [wdat EXCEPT ![ch] = updated]
  BY <1>1 DEF Wait!Update
<1>. HIDE DEF updated
<1>4. wdat' \in [Channels -> WaitData] /\ wdat'[ch] = updated
  BY <1>2, <1>3 DEF WaitInv
<1>5. wTime \in Times
  BY <1>2, <1>4, NsModulusAssumption DEF WaitData, Wait!Minus, Times
<1>6. waitDat' = waitDat \/ waitDat' = [waitDat EXCEPT ![ch] = Append(@, wTime)]
  BY DEF Wait!SentHandler, Wait!ReceivedHandler
<1>. HIDE DEF wTime
<1>7. waitDat[ch] \in Seq(Times) /\ Append(waitDat[ch], wTime) \in Seq(Times)
  BY <1>5 DEF WaitInv
<1>8. waitDat' \in [Channels -> Seq(Times)]
  BY <1>6, <1>7 DEF WaitInv
<1>. QED
  BY <1>4, <1>8

LEMMA IoStepWaits == BlkInv /\ WaitInv /\ [IoNext]_ioVars => WaitInv'
<1>. SUFFICES ASSUME BlkInv, WaitInv, [IoNext]_ioVars PROVE WaitInv'
  OBVIOUS
<1>1. ASSUME NEW cpu \in Cpus, NEW id \in EventIds, NEW ns \in 1 .. MaxNs,
             IoRecord(cpu, id, ns)
      PROVE  WaitInv'
  <2>1. FeedInv /\ Feed(cpu, id, ns)
    BY <1>1 DEF IoRecord, Record, BlkInv
  <2>2. event' \in FeedRecord
    BY <2>1, FeedOK
  <2>3. freed' = freed
    BY <1>1 DEF IoRecord, Wait!Record
  <2>4. ASSUME NEW ch \in Channels, Wait!SentHandler(ch) \/ Wait!ReceivedHandler(ch)
        PROVE  WaitInv'
    BY <2>2, <2>3, <2>4, InterruptOK DEF WaitInv
  <2>5. CASE UNCHANGED <<wdat, waitDat, heard>>
    BY <2>3, <2>5 DEF WaitInv
  <2>. QED
    BY <1>1, <2>4, <2>5 DEF IoRecord, Wait!Record
<1>2. CASE IoEndOfLog
  BY <1>2 DEF IoEndOfLog, Wait!EndOfLog, WaitInv
<1>3. ASSUME NEW q \in Queues, FinalizeQueue(q)
      PROVE  WaitInv'
  BY <1>3 DEF FinalizeQueue, WaitInv
<1>4. ASSUME NEW ch \in Channels, FinalizeWait(ch)
      PROVE  WaitInv'
  BY <1>4 DEF FinalizeWait, Wait!Finalize, WaitInv
<1>5. CASE UNCHANGED ioVars
  BY <1>5 DEF ioVars, WaitInv
<1>. QED
  BY <1>1, <1>2, <1>3, <1>4, <1>5 DEF IoNext

-----------------------------------------------------------------------------
(* The waits.  A channel is told from the interrupts heard of it.          *)
Interrupt == [msg : {"SENT", "RECEIVED"}, ns : 1 .. MaxNs]

(* Interrupts as the log has them: in time order, none after time t *)
InOrder(h, t) == /\ h \in Seq(Interrupt)
                 /\ \A i, j \in DOMAIN h : i <= j => h[i].ns <= h[j].ns
                 /\ \A i \in DOMAIN h : h[i].ns <= t

(* The moments at which an interrupt that was answered was outstanding *)
Answered(h, u) ==
    \E i, j \in DOMAIN h :
      /\ i < j /\ h[i].ns <= u /\ u < h[j].ns
      /\ h[i].msg = "SENT" /\ h[j].msg = "RECEIVED"
      /\ \A k \in i+1 .. j-1 : h[k].msg = "SENT"

Owed(h) == {u \in 1 .. MaxNs : Answered(h, u)}

(* The last run of equal interrupts starts with interrupt s. *)
RunStart(h, s) == /\ s \in DOMAIN h
                  /\ \A k \in s .. Len(h) : h[k].msg = h[Len(h)].msg
                  /\ s > 1 => h[s-1].msg # h[s].msg

(* Facts about one more interrupt *)
LEMMA Heard ==
    ASSUME NEW h \in Seq(Interrupt), NEW e \in Interrupt
    PROVE  /\ Append(h, e) \in Seq(Interrupt) /\ Append(h, e) # << >>
           /\ Len(Append(h, e)) = Len(h) + 1 /\ Len(h) \in Nat
           /\ DOMAIN h = 1 .. Len(h) /\ DOMAIN Append(h, e) = 1 .. Len(h) + 1
           /\ Append(h, e)[Len(h) + 1] = e
           /\ \A i \in 1 .. Len(h) : Append(h, e)[i] = h[i]
           /\ \A i \in 1 .. Len(h) : h[i] \in Interrupt
           /\ h # << >> => Len(h) \in DOMAIN h /\ 1 \in DOMAIN h
           /\ h = << >> => Len(h) = 0
<1>1. /\ Append(h, e) \in Seq(Interrupt) /\ Len(Append(h, e)) = Len(h) + 1 /\ Len(h) \in Nat
      /\ DOMAIN h = 1 .. Len(h)
      /\ Append(h, e)[Len(h) + 1] = e
      /\ \A i \in 1 .. Len(h) : Append(h, e)[i] = h[i]
      /\ \A i \in 1 .. Len(h) : h[i] \in Interrupt
  OBVIOUS
<1>2. DOMAIN Append(h, e) = 1 .. Len(h) + 1
  BY <1>1
<1>3. h = << >> <=> Len(h) = 0
  OBVIOUS
<1>4. Append(h, e) # << >>
  BY <1>1
<1>. QED
  BY <1>1, <1>2, <1>3, <1>4

LEMMA HeardInOrder ==
    ASSUME NEW h, NEW t \in Nat, InOrder(h, t), NEW e \in Interrupt, t <= e.ns
    PROVE  InOrder(Append(h, e), e.ns)
<1>1. \A i \in 1 .. Len(h) : h[i].ns \in Int /\ h[i].ns <= e.ns
  <2>1. \A i \in 1 .. Len(h) : h[i] \in Interrupt /\ h[i].ns <= t
    BY Heard DEF InOrder
  <2>. QED
    BY <2>1, FeedAssumption DEF Interrupt
<1>2. e.ns \in Int
  BY DEF Interrupt
<1>. QED
  BY <1>1, <1>2, Heard DEF InOrder

LEMMA OwedSame ==
    ASSUME NEW h \in Seq(Interrupt), NEW e \in Interrupt,
           e.msg = "SENT" \/ h = << >> \/ h[Len(h)].msg = "RECEIVED"
    PROVE  Owed(Append(h, e)) = Owed(h)
<1>. DEFINE n == Len(h)
            g == Append(h, e)
<1>1. /\ n \in Nat /\ DOMAIN h = 1 .. n /\ DOMAIN g = 1 .. n + 1
      /\ g[n + 1] = e /\ \A i \in 1 .. n : g[i] = h[i]
      /\ h = << >> => n = 0
  BY Heard
<1>. HIDE DEF n, g
<1>2. ASSUME NEW u \in 1 .. MaxNs, Answered(h, u)
      PROVE  Answered(g, u)
  <2>1. PICK i \in 1 .. n, j \in 1 .. n :
          /\ i < j /\ h[i].ns <= u /\ u < h[j].ns
          /\ h[i].msg = "SENT" /\ h[j].msg = "RECEIVED"
          /\ \A k \in i+1 .. j-1 : h[k].msg = "SENT"
    BY <1>1, <1>2 DEF Answered
  <2>2. i \in DOMAIN g /\ j \in DOMAIN g /\ g[i] = h[i] /\ g[j] = h[j]
    BY <1>1
  <2>3. \A k \in i+1 .. j-1 : g[k] = h[k]
    BY <1>1
  <2>. QED
    BY <2>1, <2>2, <2>3 DEF Answered
<1>3. ASSUME NEW u \in 1 .. MaxNs, Answered(g, u)
      PROVE  Answered(h, u)
  <2>1. PICK i \in 1 .. n + 1, j \in 1 .. n + 1 :
          /\ i < j /\ g[i].ns <= u /\ u < g[j].ns
          /\ g[i].msg = "SENT" /\ g[j].msg = "RECEIVED"
          /\ \A k \in i+1 .. j-1 : g[k].msg = "SENT"
    BY <1>1, <1>3 DEF Answered
  <2>2. CASE j = n + 1
    <3>1. i \in 1 .. n /\ n # 0 /\ e.msg = "RECEIVED" /\ h[i].msg = "SENT"
      BY <1>1, <2>1, <2>2
    <3>2. h[n].msg = "RECEIVED" /\ g[n] = h[n] /\ n \in 1 .. n
      BY <1>1, <3>1 DEF n
    <3>3. i # n
      BY <3>1, <3>2
    <3>4. n \in i+1 .. j-1
      BY <1>1, <2>2, <3>1, <3>3
    <3>. QED
      BY <2>1, <3>2, <3>4
  <2>3. CASE j # n + 1
    <3>1. i \in 1 .. n /\ j \in 1 .. n
      BY <1>1, <2>1, <2>3
    <3>2. \A k \in i+1 .. j-1 : g[k] = h[k]
      BY <1>1, <3>1
    <3>3. i \in DOMAIN h /\ j \in DOMAIN h /\ g[i] = h[i] /\ g[j] = h[j]
      BY <1>1, <3>1
    <3>. QED
      BY <2>1, <3>2, <3>3 DEF Answered
  <2>. QED
    BY <2>2, <2>3
<1>. QED
  BY <1>2, <1>3 DEF Owed, g

LEMMA OwedGrows ==
    ASSUME NEW h, NEW t \in Nat, InOrder(h, t), NEW e \in Interrupt, t <= e.ns,
           e.msg = "RECEIVED", h # << >>, h[Len(h)].msg = "SENT",
           NEW s, RunStart(h, s)
    PROVE  /\ Owed(Append(h, e)) = Owed(h) \cup (h[s].ns .. e.ns - 1)
           /\ Owed(h) \cap (h[s].ns .. e.ns - 1) = {}
<1>. DEFINE n == Len(h)
            g == Append(h, e)
<1>1. /\ n \in Nat /\ DOMAIN h = 1 .. n /\ DOMAIN g = 1 .. n + 1
      /\ g[n + 1] = e /\ \A i \in 1 .. n : g[i] = h[i]
      /\ \A i \in 1 .. n : h[i] \in Interrupt
      /\ n \in 1 .. n
  BY Heard DEF InOrder
<1>2. /\ s \in 1 .. n /\ \A k \in s .. n : h[k].msg = "SENT"
      /\ s > 1 => h[s-1].msg # "SENT"
  <2>1. s \in 1 .. n /\ \A k \in s .. n : h[k].msg = h[n].msg
    BY <1>1 DEF RunStart
  <2>2. s \in s .. n
    BY <1>1, <2>1
  <2>. QED
    BY <2>1, <2>2 DEF RunStart
<1>3. /\ \A i \in 1 .. n : h[i].ns \in 1 .. MaxNs
      /\ \A i, j \in 1 .. n : i <= j => h[i].ns <= h[j].ns
      /\ e.ns \in 1 .. MaxNs
  BY <1>1 DEF InOrder, Interrupt
<1>. HIDE DEF n, g
<1>4. ASSUME NEW u \in 1 .. MaxNs, Answered(h, u)
      PROVE  Answered(g, u) /\ u \notin h[s].ns .. e.ns - 1
  <2>1. PICK i \in 1 .. n, j \in 1 .. n :
          /\ i < j /\ h[i].ns <= u /\ u < h[j].ns
          /\ h[i].msg = "SENT" /\ h[j].msg = "RECEIVED"
          /\ \A k \in i+1 .. j-1 : h[k].msg = "SENT"
    BY <1>1, <1>4 DEF Answered
  <2>2. i \in DOMAIN g /\ j \in DOMAIN g /\ g[i] = h[i] /\ g[j] = h[j]
    BY <1>1
  <2>3. \A k \in i+1 .. j-1 : g[k] = h[k]
    BY <1>1
  <2>4. Answered(g, u)
    BY <2>1, <2>2, <2>3 DEF Answered
  <2>5. j < s
    BY <1>1, <1>2, <2>1
  <2>6. h[j].ns <= h[s].ns
    BY <1>1, <1>2, <1>3, <2>5
  <2>7. u < h[s].ns
    BY <1>2, <1>3, <2>1, <2>6
  <2>. QED
    BY <1>2, <1>3, <2>4, <2>7
<1>5. ASSUME NEW u \in 1 .. MaxNs, Answered(g, u), ~ Answered(h, u)
      PROVE  u \in h[s].ns .. e.ns - 1
  <2>1. PICK i \in 1 .. n + 1, j \in 1 .. n + 1 :
          /\ i < j /\ g[i].ns <= u /\ u < g[j].ns
          /\ g[i].msg = "SENT" /\ g[j].msg = "RECEIVED"
          /\ \A k \in i+1 .. j-1 : g[k].msg = "SENT"
    BY <1>1, <1>5 DEF Answered
  <2>2. ASSUME j # n + 1
        PROVE  FALSE
    <3>1. i \in 1 .. n /\ j \in 1 .. n
      BY <1>1, <2>1, <2>2
    <3>2. \A k \in i+1 .. j-1 : g[k] = h[k]
      BY <1>1, <3>1
    <3>3. g[i] = h[i] /\ g[j] = h[j] /\ i \in DOMAIN h /\ j \in DOMAIN h
      BY <1>1, <3>1
    <3>4. Answered(h, u)
      BY <2>1, <3>2, <3>3 DEF Answered
    <3>. QED
      BY <1>5, <3>4
  <2>3. i \in 1 .. n /\ u < e.ns /\ h[i].ns <= u /\ h[i].msg = "SENT"
    BY <1>1, <2>1, <2>2
  <2>4. \A k \in i .. n : h[k].msg = "SENT"
    <3>1. ASSUME NEW k \in i .. n
          PROVE  h[k].msg = "SENT"
      <4>1. CASE k = i
        BY <2>3, <4>1
      <4>2. CASE k # i
        <5>1. k \in i+1 .. j-1 /\ k \in 1 .. n
          BY <1>1, <2>2, <2>3, <4>2
        <5>. QED
          BY <1>1, <2>1, <5>1
      <4>. QED
        BY <4>1, <4>2
    <3>. QED
      BY <3>1
  <2>5. s <= i
    <3>1. SUFFICES ASSUME i < s PROVE FALSE
      BY <1>2, <2>3
    <3>2. s > 1 /\ s - 1 \in i .. n
      BY <1>1, <1>2, <2>3, <3>1
    <3>. QED
      BY <1>2, <2>4, <3>2
  <2>6. h[s].ns <= h[i].ns
    BY <1>2, <1>3, <2>3, <2>5
  <2>7. h[s].ns \in Int /\ h[i].ns \in Int /\ e.ns \in Int
    BY <1>2, <1>3, <2>3
  <2>8. h[i].ns <= u /\ u < e.ns
    BY <2>3
  <2>. QED
    BY <2>6, <2>7, <2>8
<1>6. ASSUME NEW u \in h[s].ns .. e.ns - 1
      PROVE  u \in 1 .. MaxNs /\ Answered(g, u)
  <2>1. u \in 1 .. MaxNs /\ h[s].ns <= u /\ u < e.ns
    <3>1. h[s].ns \in 1 .. MaxNs /\ e.ns \in 1 .. MaxNs
      BY <1>2, <1>3
    <3>. QED
      BY <3>1, FeedAssumption
  <2>2. s \in DOMAIN g /\ n + 1 \in DOMAIN g /\ s < n + 1 /\ g[s] = h[s]
    BY <1>1, <1>2
  <2>3. \A k \in s .. n : g[k].msg = "SENT"
    BY <1>1, <1>2
  <2>4. \A k \in s + 1 .. (n + 1) - 1 : g[k].msg = "SENT"
    BY <1>1, <1>2, <2>3
  <2>5. h[s].msg = "SENT"
    BY <1>1, <1>2
  <2>. QED
    BY <1>1, <2>1, <2>2, <2>4, <2>5 DEF Answered
<1>7. Owed(g) = Owed(h) \cup (h[s].ns .. e.ns - 1)
  <2>1. \A u \in Owed(g) : u \in Owed(h) \cup (h[s].ns .. e.ns - 1)
    BY <1>5 DEF Owed
  <2>2. \A u \in Owed(h) \cup (h[s].ns .. e.ns - 1) : u \in Owed(g)
    BY <1>4, <1>6 DEF Owed
  <2>. QED
    BY <2>1, <2>2
<1>8. Owed(h) \cap (h[s].ns .. e.ns - 1) = {}
  BY <1>4 DEF Owed
<1>. QED
  BY <1>7, <1>8 DEF g

-----------------------------------------------------------------------------
(* A sample at the end of a file adds to its sum. *)
LEMMA SumAppend ==
    ASSUME NEW file \in Seq(Times), NEW x \in Times
    PROVE  /\ SumFunction(Append(file, x)) = SumFunction(file) + x
           /\ SumFunction(file) \in Nat
           /\ SumFunction(<< >>) = 0
<1>. DEFINE n == Len(file)
            g == Append(file, x)
<1>1. /\ n \in Nat /\ DOMAIN file = 1 .. n /\ DOMAIN g = 1 .. n + 1
      /\ g[n + 1] = x /\ \A i \in 1 .. n : g[i] = file[i]
      /\ \A i \in 1 .. n : file[i] \in Times
  OBVIOUS
<1>2. DOMAIN << >> = {}
  OBVIOUS
<1>. HIDE DEF n, g
<1>. DEFINE D == 1 .. n
<1>3. /\ D \cup {n + 1} = 1 .. n + 1 /\ n + 1 \notin D
      /\ \A i \in D : g[i] = file[i] /\ file[i] \in Nat /\ file[i] \in Int /\ g[i] \in Int
      /\ g[n + 1] = x /\ x \in Int
  <2>1. D \cup {n + 1} = 1 .. n + 1 /\ n + 1 \notin D
    BY <1>1
  <2>2. \A y \in Times : y \in Nat /\ y \in Int
    BY NsModulusAssumption DEF Times
  <2>. QED
    BY <1>1, <2>1, <2>2
<1>4. IsFiniteSet(D)
  BY <1>1, FS_Interval
<1>. HIDE DEF D
<1>5. \A i \in D \cup {n + 1} : g[i] \in Int
  BY <1>3
<1>6. SumFunctionOnSet(g, D \cup {n + 1}) = g[n + 1] + SumFunctionOnSet(g, D)
  BY <1>3, <1>4, <1>5, SumAdd
<1>7. SumFunctionOnSet(g, D) = SumFunctionOnSet(file, D)
  BY <1>3, <1>4, SumSame
<1>8. SumFunctionOnSet(file, D) \in Nat
  BY <1>3, <1>4, SumType
<1>9. SumFunctionOnSet(g, DOMAIN g) = SumFunctionOnSet(file, DOMAIN file) + x
  <2>1. DOMAIN g = D \cup {n + 1} /\ DOMAIN file = D
    BY <1>1, <1>3 DEF D
  <2>. DEFINE sum == SumFunctionOnSet(file, D)
  <2>2. SumFunctionOnSet(g, D \cup {n + 1}) = x + sum
    BY <1>3, <1>6, <1>7
  <2>3. sum \in Int /\ x \in Int
    BY <1>3, <1>8
  <2>. HIDE DEF sum
  <2>4. x + sum = sum + x
    BY <2>3
  <2>. QED
    BY <2>1, <2>2, <2>4 DEF sum
<1>10. SumFunctionOnSet(<< >>, {}) = 0
  BY SumUnfold, FS_EmptySet
<1>. QED
  BY <1>1, <1>2, <1>8, <1>9, <1>10 DEF SumFunction, g, D

(* What a channel keeps, told from its interrupts: the last run of equal   *)
(* ones, and the time during which an answer was owed.                     *)
ChannelOK(h, w, file, t) ==
    /\ InOrder(h, t)
    /\ h = << >> => w = [state |-> "INIT", lastNs |-> 0, totalWaitTime |-> 0]
    /\ h # << >> => /\ w.state = h[Len(h)].msg
                    /\ \E s : RunStart(h, s) /\ w.lastNs = h[s].ns
                    /\ w.totalWaitTime <= w.lastNs - h[1].ns
    /\ w.totalWaitTime = Cardinality(Owed(h))
    /\ SumFunction(file) = w.totalWaitTime

(* The channel in a ledger *)
Entry(h, w) == [since |-> h[1].ns, upto |-> w.lastNs, counted |-> w.totalWaitTime]

ChannelStart == [state |-> "INIT", lastNs |-> 0, totalWaitTime |-> 0]

LEMMA ChannelInit == ChannelOK(<< >>, ChannelStart, << >>, 0)
<1>1. Owed(<< >>) = {}
  BY DEF Owed, Answered
<1>2. Cardinality({}) = 0
  BY FS_EmptySet
<1>3. SumFunction(<< >>) = 0
  <2>1. << >> \in Seq(Times)
    OBVIOUS
  <2>. QED
    BY <2>1, SumAppend, ZeroTime
<1>4. InOrder(<< >>, 0)
  BY DEF InOrder
<1>. QED
  BY <1>1, <1>2, <1>3, <1>4 DEF ChannelOK, ChannelStart

LEMMA ChannelLater ==
    ASSUME NEW h, NEW w, NEW file, NEW t \in Nat, NEW u \in Nat, t <= u,
           ChannelOK(h, w, file, t)
    PROVE  ChannelOK(h, w, file, u)
<1>1. InOrder(h, u)
  <2>1. \A i \in DOMAIN h : h[i] \in Interrupt /\ h[i].ns <= t
    BY DEF ChannelOK, InOrder
  <2>2. \A i \in DOMAIN h : h[i].ns <= u
    BY <2>1 DEF Interrupt
  <2>. QED
    BY <2>2 DEF ChannelOK, InOrder
<1>. QED
  BY <1>1 DEF ChannelOK

LEMMA RunGrows ==
    ASSUME NEW h \in Seq(Interrupt), NEW e \in Interrupt, h # << >>
    PROVE  /\ h[Len(h)].msg # e.msg => RunStart(Append(h, e), Len(h) + 1)
           /\ \A s : RunStart(h, s) /\ h[Len(h)].msg = e.msg =>
                 RunStart(Append(h, e), s) /\ Append(h, e)[s] = h[s]
<1>. DEFINE n == Len(h)
            g == Append(h, e)
<1>1. /\ n \in Nat /\ DOMAIN h = 1 .. n /\ DOMAIN g = 1 .. n + 1 /\ Len(g) = n + 1
      /\ g[n + 1] = e /\ \A i \in 1 .. n : g[i] = h[i]
      /\ n \in 1 .. n
  BY Heard
<1>. HIDE DEF n, g
<1>2. ASSUME h[n].msg # e.msg
      PROVE  RunStart(g, n + 1)
  <2>1. g[(n + 1) - 1] = h[n]
    BY <1>1
  <2>2. \A k \in n + 1 .. Len(g) : k = Len(g)
    BY <1>1
  <2>. QED
    BY <1>1, <1>2, <2>1, <2>2 DEF RunStart
<1>3. ASSUME NEW s, RunStart(h, s), h[n].msg = e.msg
      PROVE  RunStart(g, s) /\ g[s] = h[s]
  <2>1. s \in 1 .. n /\ \A k \in s .. n : h[k].msg = e.msg
    BY <1>1, <1>3 DEF RunStart, n
  <2>2. \A k \in s .. n + 1 : g[k].msg = e.msg
    <3>1. ASSUME NEW k \in s .. n + 1, k # n + 1
          PROVE  k \in s .. n /\ k \in 1 .. n
      BY <1>1, <2>1, <3>1
    <3>. QED
      BY <1>1, <2>1, <3>1
  <2>3. g[s] = h[s] /\ s \in DOMAIN g
    BY <1>1, <2>1
  <2>4. s > 1 => g[s-1].msg # g[s].msg
    <3>1. s > 1 => s - 1 \in 1 .. n
      BY <1>1, <2>1
    <3>. QED
      BY <1>1, <1>3, <2>3, <3>1 DEF RunStart
  <2>. QED
    BY <1>1, <2>2, <2>3, <2>4 DEF RunStart
<1>. QED
  BY <1>2, <1>3 DEF n, g

(* The .dat file after an update: what ReceivedHandler appends *)
Sampled(file, w, updated, msg) ==
    LET wTime == Wait!Minus(updated.totalWaitTime, w.totalWaitTime)
    IN IF msg = "SENT" \/ wTime = 0 THEN file ELSE Append(file, wTime)

(* How the entry of a channel that was heard before moves on *)
Counts(entry, upto, now, next) ==
    \/ next = entry
    \/ \E from \in upto .. now : \E to \in from .. now :
         next = [since |-> entry.since, upto |-> to, counted |-> entry.counted + (to - from)]

(* One interrupt: the channel stays as told, and its file with it. *)
LEMMA ChannelStep ==
    ASSUME NEW h, NEW w \in WaitData, NEW file \in Seq(Times), NEW t \in Nat,
           ChannelOK(h, w, file, t),
           NEW msg \in {"SENT", "RECEIVED"}, NEW ev \in FeedRecord, t <= ev.ns
    PROVE  LET updated == Wait!WaitUpdateState(w, msg, ev)
               g == Append(h, [msg |-> msg, ns |-> ev.ns])
           IN /\ ChannelOK(g, updated, Sampled(file, w, updated, msg), ev.ns)
              /\ h = << >> =>
                   Entry(g, updated) = [since |-> ev.ns, upto |-> ev.ns, counted |-> 0]
              /\ h # << >> => Counts(Entry(h, w), w.lastNs, ev.ns, Entry(g, updated))
<1>. DEFINE e == [msg |-> msg, ns |-> ev.ns]
            n == Len(h)
            updated == Wait!WaitUpdateState(w, msg, ev)
            g == Append(h, [msg |-> msg, ns |-> ev.ns])
            new == Sampled(file, w, updated, msg)
<1>. SUFFICES
       /\ ChannelOK(g, updated, new, ev.ns)
       /\ h = << >> => Entry(g, updated) = [since |-> ev.ns, upto |-> ev.ns, counted |-> 0]
       /\ h # << >> => Counts(Entry(h, w), w.lastNs, ev.ns, Entry(g, updated))
  OBVIOUS
<1>1. e \in Interrupt /\ ev.ns \in 1 .. MaxNs /\ e.ns = ev.ns /\ e.msg = msg /\ h \in Seq(Interrupt)
  BY DEF FeedRecord, Interrupt, ChannelOK, InOrder
<1>2. /\ g = Append(h, e) /\ g # << >> /\ Len(g) = n + 1 /\ n \in Nat /\ g[n + 1] = e
      /\ DOMAIN h = 1 .. n /\ \A i \in 1 .. n : g[i] = h[i] /\ h[i] \in Interrupt
      /\ h # << >> => n \in 1 .. n /\ 1 \in 1 .. n
      /\ h = << >> => n = 0
  BY <1>1, Heard
<1>3. InOrder(g, ev.ns)
  BY <1>1, <1>2, HeardInOrder DEF ChannelOK
<1>4. w.totalWaitTime \in Times /\ w.lastNs \in 0 .. MaxNs /\ w \in WaitData
  BY DEF WaitData
<1>5. Wait!Minus(w.totalWaitTime, w.totalWaitTime) = 0
  BY <1>4, NsModulusAssumption DEF Wait!Minus, Times
<1>6. g[1] = IF h = << >> THEN e ELSE h[1]
  BY <1>2
<1>. HIDE DEF e, n, updated, g
<1>7. CASE h = << >>
  <2>1. w = ChannelStart /\ w.state = "INIT" /\ w.totalWaitTime = 0
    BY <1>7 DEF ChannelOK, ChannelStart
  <2>2. updated = [state |-> msg, lastNs |-> ev.ns, totalWaitTime |-> 0]
    BY <2>1 DEF Wait!WaitUpdateState, updated
  <2>3. new = file
    BY <1>5, <2>1, <2>2 DEF Sampled
  <2>4. RunStart(g, 1) /\ g[1].ns = ev.ns /\ g[Len(g)].msg = msg
    BY <1>1, <1>2, <1>7 DEF RunStart
  <2>5. Owed(g) = Owed(h)
    BY <1>1, <1>2, <1>7, OwedSame
  <2>6. ChannelOK(g, updated, new, ev.ns)
    <3>1. 0 <= ev.ns - g[1].ns
      BY <1>1, <2>4
    <3>2. updated.totalWaitTime <= updated.lastNs - g[1].ns
      BY <2>2, <3>1
    <3>. QED
      BY <1>2, <1>3, <2>1, <2>2, <2>3, <2>4, <2>5, <3>2 DEF ChannelOK
  <2>7. Entry(g, updated) = [since |-> ev.ns, upto |-> ev.ns, counted |-> 0]
    BY <2>2, <2>4 DEF Entry
  <2>. QED
    BY <1>7, <2>6, <2>7
<1>8. CASE h # << >>
  <2>1. /\ w.state = h[n].msg /\ w.totalWaitTime <= w.lastNs - h[1].ns
        /\ w.totalWaitTime = Cardinality(Owed(h)) /\ SumFunction(file) = w.totalWaitTime
        /\ InOrder(h, t)
    BY <1>8 DEF ChannelOK, n
  <2>2. PICK s : RunStart(h, s) /\ w.lastNs = h[s].ns
    BY <1>8 DEF ChannelOK
  <2>3. s \in 1 .. n /\ h[s] \in Interrupt /\ h[s].ns <= t /\ h[1] \in Interrupt
    BY <1>2, <1>8, <2>1, <2>2 DEF RunStart, InOrder
  <2>4. h[s].ns \in 1 .. MaxNs /\ h[1].ns \in 1 .. MaxNs /\ w.lastNs <= ev.ns
    BY <1>1, <2>2, <2>3, FeedAssumption DEF Interrupt
  <2>5. g[1].ns = h[1].ns /\ g[Len(g)].msg = msg
    BY <1>1, <1>2, <1>6, <1>8
  <2>6. CASE w.state = msg
    <3>1. updated = w
      BY <2>6 DEF Wait!WaitUpdateState, updated
    <3>2. new = file
      BY <1>5, <3>1 DEF Sampled
    <3>3. RunStart(g, s) /\ g[s] = h[s]
      <4>1. h[Len(h)].msg = e.msg
        BY <1>1, <2>1, <2>6 DEF n
      <4>2. \A r : RunStart(h, r) /\ h[Len(h)].msg = e.msg =>
                      RunStart(Append(h, e), r) /\ Append(h, e)[r] = h[r]
        BY <1>1, <1>8, RunGrows
      <4>. QED
        BY <1>2, <2>2, <4>1, <4>2
    <3>4. Owed(g) = Owed(h)
      BY <1>1, <1>2, <1>8, <2>1, <2>6, OwedSame DEF n
    <3>5. ChannelOK(g, updated, new, ev.ns)
      BY <1>2, <1>3, <2>1, <2>2, <2>5, <2>6, <3>1, <3>2, <3>3, <3>4 DEF ChannelOK
    <3>6. Entry(g, updated) = Entry(h, w)
      BY <2>5, <3>1 DEF Entry
    <3>. QED
      BY <1>8, <3>5, <3>6 DEF Counts
  <2>7. CASE w.state # msg
    <3>. DEFINE total == updated.totalWaitTime
    <3>1. updated = [state |-> msg, lastNs |-> ev.ns, totalWaitTime |-> total]
      BY <2>7 DEF Wait!WaitUpdateState, updated
    <3>2. RunStart(g, n + 1) /\ g[n + 1].ns = ev.ns
      BY <1>1, <1>2, <1>8, <2>1, <2>7, RunGrows DEF n
    <3>3. CASE w.state = "RECEIVED"
      <4>1. total = w.totalWaitTime /\ msg = "SENT"
        BY <2>7, <3>3 DEF Wait!WaitUpdateState, updated
      <4>2. new = file
        BY <4>1 DEF Sampled
      <4>3. Owed(g) = Owed(h)
        BY <1>1, <1>2, <2>1, <3>3, OwedSame DEF n
      <4>4. total <= ev.ns - h[1].ns
        BY <1>1, <1>4, <2>1, <2>4, <4>1, NsModulusAssumption DEF Times
      <4>5. ChannelOK(g, updated, new, ev.ns)
        <5>. HIDE DEF new
        <5>. QED
          BY <1>2, <1>3, <2>1, <2>5, <3>1, <3>2, <4>1, <4>2, <4>3, <4>4 DEF ChannelOK
      <4>6. Counts(Entry(h, w), w.lastNs, ev.ns, Entry(g, updated))
        <5>1. ev.ns \in w.lastNs .. ev.ns /\ ev.ns \in ev.ns .. ev.ns
          BY <1>1, <1>4, <2>4
        <5>2. w.totalWaitTime = w.totalWaitTime + (ev.ns - ev.ns)
          BY <1>1, <1>4, NsModulusAssumption DEF Times
        <5>3. Entry(g, updated) = [since |-> h[1].ns, upto |-> ev.ns,
                                   counted |-> w.totalWaitTime + (ev.ns - ev.ns)]
          BY <2>5, <3>1, <4>1, <5>2 DEF Entry
        <5>. QED
          BY <5>1, <5>3 DEF Counts, Entry
      <4>. QED
        BY <1>8, <4>5, <4>6
    <3>4. CASE w.state = "SENT"
      <4>. DEFINE spent == ev.ns - w.lastNs
      <4>1. msg = "RECEIVED" /\ total = Wait!Plus(w.totalWaitTime, Wait!Minus(ev.ns, w.lastNs))
        BY <2>7, <3>4 DEF Wait!WaitUpdateState, updated
      <4>2. /\ spent \in Nat /\ spent \in Times
            /\ w.totalWaitTime + spent <= ev.ns - h[1].ns
            /\ w.totalWaitTime + spent \in Times
            /\ w.totalWaitTime \in Nat
        <5>1. /\ w.totalWaitTime \in Nat /\ w.lastNs \in Nat /\ ev.ns \in Nat /\ h[1].ns \in Nat
              /\ w.lastNs <= ev.ns /\ ev.ns < NsModulus /\ h[1].ns >= 1
              /\ w.totalWaitTime <= w.lastNs - h[1].ns /\ NsModulus \in Nat
          <6>1. /\ h[1].ns \in Nat /\ h[1].ns >= 1 /\ w.lastNs <= ev.ns
                /\ w.totalWaitTime <= w.lastNs - h[1].ns
            BY <1>1, <1>4, <2>1, <2>4
          <6>2. w.totalWaitTime \in Nat /\ w.lastNs \in Nat /\ NsModulus \in Nat
            BY <1>1, <1>4, <2>4, NsModulusAssumption DEF Times
          <6>3. ev.ns \in Nat /\ ev.ns < NsModulus
            BY <1>1, <1>4, StampsFitAssumption, FeedAssumption, NsModulusAssumption
          <6>. QED
            BY <6>1, <6>2, <6>3
        <5>2. spent \in Nat /\ spent < NsModulus
          BY <5>1
        <5>3. w.totalWaitTime + spent <= ev.ns - h[1].ns
          BY <5>1
        <5>. HIDE DEF spent
        <5>4. w.totalWaitTime + spent \in Nat /\ w.totalWaitTime + spent < NsModulus
          <6>1. \A x, y, upto, since, m \in Nat :
                  x + y <= upto - since /\ upto < m => x + y \in Nat /\ x + y < m
            OBVIOUS
          <6>. QED
            BY <5>1, <5>2, <5>3, <6>1
        <5>5. \A x \in Nat : x < NsModulus => x \in Times
          BY NsModulusAssumption DEF Times
        <5>. QED
          BY <5>1, <5>2, <5>3, <5>4, <5>5
      <4>3. Wait!Minus(ev.ns, w.lastNs) = spent
        <5>1. ev.ns \in Nat /\ w.lastNs \in Nat /\ w.lastNs <= ev.ns /\ ev.ns < NsModulus
          BY <1>1, <1>4, <2>4, StampsFitAssumption, FeedAssumption, NsModulusAssumption
        <5>2. Minus(ev.ns, w.lastNs) = spent
          BY <5>1, MinusExact
        <5>. QED
          BY <5>2 DEF Minus, Wait!Minus
      <4>. HIDE DEF spent
      <4>4. total = w.totalWaitTime + spent
        <5>1. w.totalWaitTime + spent < NsModulus
          BY <4>2, NsModulusAssumption DEF Times
        <5>2. Plus(w.totalWaitTime, spent) = w.totalWaitTime + spent
          BY <1>4, <4>2, <5>1, PlusCases
        <5>3. total = Wait!Plus(w.totalWaitTime, spent)
          BY <4>1, <4>3
        <5>. QED
          BY <5>2, <5>3 DEF Plus, Wait!Plus
      <4>5. Wait!Minus(total, w.totalWaitTime) = spent
        <5>1. total \in Nat /\ total < NsModulus /\ w.totalWaitTime <= total /\ total - w.totalWaitTime = spent
          BY <4>2, <4>4, NsModulusAssumption DEF Times
        <5>2. Minus(total, w.totalWaitTime) = spent
          BY <4>2, <5>1, MinusExact
        <5>. QED
          BY <5>2 DEF Minus, Wait!Minus
      <4>. HIDE DEF total
      <4>6. SumFunction(new) = w.totalWaitTime + spent
        <5>1. CASE spent = 0
          BY <2>1, <4>2, <4>5, <5>1 DEF Sampled, total
        <5>2. CASE spent # 0
          <6>1. new = Append(file, spent)
            BY <4>1, <4>5, <5>2 DEF Sampled, total
          <6>. QED
            BY <2>1, <4>2, <6>1, SumAppend
        <5>. QED
          BY <5>1, <5>2
      <4>7. Cardinality(Owed(g)) = w.totalWaitTime + spent
        <5>. DEFINE more == h[s].ns .. ev.ns - 1
        <5>1. Owed(g) = Owed(h) \cup more /\ Owed(h) \cap more = {}
          <6>1. InOrder(h, t) /\ t <= e.ns /\ e.msg = "RECEIVED" /\ h[Len(h)].msg = "SENT"
            BY <1>1, <2>1, <3>4, <4>1 DEF n
          <6>. QED
            BY <1>1, <1>2, <1>8, <2>2, <6>1, OwedGrows
        <5>2. IsFiniteSet(Owed(h))
          <6>1. IsFiniteSet(1 .. MaxNs) /\ Owed(h) \subseteq 1 .. MaxNs
            BY FS_Interval, FeedAssumption DEF Owed
          <6>. QED
            BY <6>1, FS_Subset
        <5>3. IsFiniteSet(more) /\ Cardinality(more) = spent
          <6>. DEFINE a == h[s].ns
                      b == ev.ns - 1
          <6>1. a \in Int /\ b \in Int /\ a <= b + 1 /\ b - a + 1 = spent
            BY <1>1, <2>2, <2>4 DEF spent
          <6>. HIDE DEF a, b
          <6>2. IsFiniteSet(a .. b) /\ Cardinality(a .. b) = IF a > b THEN 0 ELSE b - a + 1
            BY <6>1, FS_Interval
          <6>. QED
            BY <6>1, <6>2 DEF a, b
        <5>. HIDE DEF more
        <5>4. Cardinality(Owed(h) \cup more)
                = Cardinality(Owed(h)) + Cardinality(more) - Cardinality(Owed(h) \cap more)
          BY <5>2, <5>3, FS_Union
        <5>5. Cardinality(Owed(h) \cap more) = 0
          BY <5>1, FS_EmptySet
        <5>. QED
          <6>1. Cardinality(Owed(g)) = w.totalWaitTime + spent - 0
            BY <2>1, <5>1, <5>3, <5>4, <5>5
          <6>. QED
            BY <4>2, <6>1
      <4>8. ChannelOK(g, updated, new, ev.ns)
        <5>. HIDE DEF new
        <5>1. updated.totalWaitTime = w.totalWaitTime + spent /\ updated.lastNs = ev.ns /\ updated.state = msg
          BY <3>1, <4>4
        <5>2. updated.totalWaitTime <= updated.lastNs - g[1].ns
          BY <2>5, <4>2, <5>1
        <5>. QED
          BY <1>2, <1>3, <2>5, <3>2, <4>6, <4>7, <5>1, <5>2 DEF ChannelOK
      <4>9. Counts(Entry(h, w), w.lastNs, ev.ns, Entry(g, updated))
        <5>1. w.lastNs \in w.lastNs .. ev.ns /\ ev.ns \in w.lastNs .. ev.ns
          BY <1>1, <1>4, <2>4
        <5>2. Entry(g, updated) = [since |-> h[1].ns, upto |-> ev.ns,
                                   counted |-> w.totalWaitTime + (ev.ns - w.lastNs)]
          BY <2>5, <3>1, <4>4 DEF Entry, spent
        <5>. QED
          BY <5>1, <5>2 DEF Counts, Entry
      <4>. QED
        BY <1>8, <4>8, <4>9
    <3>5. w.state \in {"SENT", "RECEIVED"}
      BY <1>2, <1>8, <2>1 DEF Interrupt
    <3>. QED
      BY <3>3, <3>4, <3>5
  <2>. QED
    BY <2>6, <2>7
<1>. QED
  BY <1>7, <1>8

(* The whole program: every channel is as its interrupts tell.             *)
ChannelsInv ==
    /\ heard \in [Channels -> Seq(Interrupt)]
    /\ \A ch \in Channels : ChannelOK(heard[ch], wdat[ch], waitDat[ch], Now)

LedgerOf == [ch \in {c \in Channels : heard[c] # << >>} |-> Entry(heard[ch], wdat[ch])]

LEMMA LedgerIs ==
    /\ Now = 0 /\ LedgerOf = << >> => Wait!Ledger!Init
    /\ (Now' \in Nat /\ Now' >= Now /\ LedgerOf' = LedgerOf) => Wait!Ledger!Next
BY DEF Wait!Ledger!Init, Wait!Ledger!Next, LedgerOf, Entry, Now

LEMMA ChannelsInit == IoInit => ChannelsInv /\ Wait!Ledger!Init
<1>. SUFFICES ASSUME IoInit PROVE ChannelsInv /\ Wait!Ledger!Init
  OBVIOUS
<1>1. Now = 0
  BY FeedInitOK DEF IoInit, Init
<1>2. \A ch \in Channels : heard[ch] = << >> /\ wdat[ch] = ChannelStart /\ waitDat[ch] = << >>
  BY DEF IoInit, Wait!Init, ChannelStart
<1>3. heard \in [Channels -> Seq(Interrupt)]
  BY DEF IoInit, Wait!Init
<1>4. {c \in Channels : heard[c] # << >>} = {}
  BY <1>2
<1>5. LedgerOf = << >>
  BY <1>4 DEF LedgerOf
<1>. QED
  BY <1>1, <1>2, <1>3, <1>5, ChannelInit, LedgerIs DEF ChannelsInv

(* One interrupt of a channel *)
LEMMA InterruptStep ==
    ASSUME WaitInv, ChannelsInv, FeedTypeOK, NEW ch \in Channels,
           event' \in FeedRecord, Now <= event'.ns, Now' = event'.ns,
           Wait!SentHandler(ch) \/ Wait!ReceivedHandler(ch)
    PROVE  ChannelsInv' /\ Wait!Ledger!Next
<1>1. PICK msg \in {"SENT", "RECEIVED"} :
        \/ msg = "SENT" /\ Wait!SentHandler(ch)
        \/ msg = "RECEIVED" /\ Wait!ReceivedHandler(ch)
  OBVIOUS
<1>. DEFINE h == heard[ch]
            w == wdat[ch]
            file == waitDat[ch]
            updated == Wait!WaitUpdateState(w, msg, event')
            g == Append(h, [msg |-> msg, ns |-> event'.ns])
            new == Sampled(file, w, updated, msg)
<1>2. Now \in Nat /\ event'.ns \in Nat /\ event'.ns \in 1 .. MaxNs
  BY NowType, FeedAssumption DEF FeedRecord
<1>3. w \in WaitData /\ file \in Seq(Times) /\ h \in Seq(Interrupt) /\ ChannelOK(h, w, file, Now)
  BY DEF WaitInv, ChannelsInv
<1>4. wdat' = [wdat EXCEPT ![ch] = updated] /\ heard' = [heard EXCEPT ![ch] = g]
  BY <1>1 DEF Wait!SentHandler, Wait!ReceivedHandler, Wait!Update
<1>5. updated \in WaitData
  BY <1>3, WaitUpdateOK
<1>6. wdat'[ch] = updated /\ heard'[ch] = g
  BY <1>4 DEF WaitInv, ChannelsInv
<1>7. waitDat'[ch] = new
  <2>1. CASE msg = "SENT"
    BY <1>1, <2>1 DEF Wait!SentHandler, Sampled
  <2>2. CASE msg = "RECEIVED"
    <3>. DEFINE wTime == Wait!Minus(updated.totalWaitTime, w.totalWaitTime)
    <3>1. waitDat' = IF wTime = 0 THEN waitDat ELSE [waitDat EXCEPT ![ch] = Append(@, wTime)]
      BY <1>1, <1>6, <2>2 DEF Wait!ReceivedHandler
    <3>2. new = IF wTime = 0 THEN file ELSE Append(file, wTime)
      BY <2>2 DEF Sampled
    <3>. HIDE DEF wTime, new, updated
    <3>. QED
      BY <3>1, <3>2 DEF WaitInv
  <2>. QED
    BY <2>1, <2>2
<1>8. \A c \in Channels : c # ch => /\ heard'[c] = heard[c] /\ wdat'[c] = wdat[c]
                                    /\ waitDat'[c] = waitDat[c]
  BY <1>1, <1>4 DEF Wait!SentHandler, Wait!ReceivedHandler, WaitInv, ChannelsInv
<1>9. /\ ChannelOK(g, updated, new, event'.ns)
      /\ h = << >> => Entry(g, updated) = [since |-> event'.ns, upto |-> event'.ns, counted |-> 0]
      /\ h # << >> => Counts(Entry(h, w), w.lastNs, event'.ns, Entry(g, updated))
  <2>1. /\ w \in WaitData /\ file \in Seq(Times) /\ Now \in Nat /\ ChannelOK(h, w, file, Now)
        /\ msg \in {"SENT", "RECEIVED"} /\ event' \in FeedRecord /\ Now <= event'.ns
    BY <1>2, <1>3
  <2>. QED
    BY ONLY <2>1, ChannelStep, ZenonT(60)
<1>10. g \in Seq(Interrupt) /\ g # << >>
  <2>1. [msg |-> msg, ns |-> event'.ns] \in Interrupt
    BY <1>2 DEF Interrupt
  <2>. QED
    BY <1>3, <2>1, Heard
<1>. HIDE DEF h, w, file, updated, g, new
<1>11. ChannelsInv'
  <2>1. ASSUME NEW c \in Channels
        PROVE  ChannelOK(heard'[c], wdat'[c], waitDat'[c], Now')
    <3>1. CASE c = ch
      BY <1>6, <1>7, <1>9, <3>1
    <3>2. CASE c # ch
      BY <1>2, <1>8, <3>2, ChannelLater DEF ChannelsInv
    <3>. QED
      BY <3>1, <3>2
  <2>2. heard' \in [Channels -> Seq(Interrupt)]
    BY <1>4, <1>10 DEF ChannelsInv
  <2>. QED
    BY <2>1, <2>2 DEF ChannelsInv
<1>. DEFINE Heards == {c \in Channels : heard[c] # << >>}
<1>12. /\ LedgerOf = [c \in Heards |-> Entry(heard[c], wdat[c])]
       /\ LedgerOf' = [c \in Heards \cup {ch} |-> Entry(heard'[c], wdat'[c])]
  <2>1. {c \in Channels : heard'[c] # << >>} = Heards \cup {ch}
    BY <1>6, <1>8, <1>10
  <2>. QED
    BY <2>1 DEF LedgerOf
<1>13. \A c \in Heards : c # ch => Entry(heard'[c], wdat'[c]) = Entry(heard[c], wdat[c])
  BY <1>8
<1>14. Entry(heard'[ch], wdat'[ch]) = Entry(g, updated) /\ Entry(heard[ch], wdat[ch]) = Entry(h, w)
  BY <1>6 DEF h, w
<1>15. ch \in Heards <=> h # << >>
  BY DEF h
<1>16. CASE h = << >>
  <2>1. LedgerOf' = [x \in DOMAIN LedgerOf \cup {ch} |->
                       IF x = ch THEN [since |-> Now', upto |-> Now', counted |-> 0]
                                 ELSE LedgerOf[x]]
    BY <1>9, <1>12, <1>13, <1>14, <1>16
  <2>2. ch \notin DOMAIN LedgerOf
    BY <1>12, <1>15, <1>16
  <2>3. Wait!Ledger!Open(ch)
    BY <2>1, <2>2 DEF Wait!Ledger!Open, LedgerOf, Entry, Now
  <2>4. Now' \in Nat /\ Now' >= Now
    BY <1>2
  <2>. QED
    BY <1>11, <2>3, <2>4 DEF Wait!Ledger!Next, Now
<1>17. CASE h # << >>
  <2>1. Counts(Entry(h, w), w.lastNs, Now', Entry(g, updated))
    BY <1>9, <1>17
  <2>2. DOMAIN LedgerOf = Heards /\ ch \in Heards /\ Heards \cup {ch} = Heards
    BY <1>12, <1>15, <1>17
  <2>3. LedgerOf' = [LedgerOf EXCEPT ![ch] = Entry(g, updated)]
    BY <1>12, <1>13, <1>14, <2>2
  <2>4. LedgerOf[ch] = Entry(h, w) /\ LedgerOf[ch].upto = w.lastNs
    BY <1>12, <1>14, <2>2 DEF Entry
  <2>5. CASE Entry(g, updated) = Entry(h, w)
    <3>1. LedgerOf' = LedgerOf
      BY <1>12, <2>2, <2>3, <2>4, <2>5
    <3>. QED
      BY <1>2, <1>11, <3>1, LedgerIs
  <2>6. CASE Entry(g, updated) # Entry(h, w)
    <3>1. PICK from \in w.lastNs .. Now' : \E to \in from .. Now' :
            Entry(g, updated) = [since |-> Entry(h, w).since, upto |-> to,
                                 counted |-> Entry(h, w).counted + (to - from)]
      BY <2>1, <2>6 DEF Counts
    <3>2. PICK to \in from .. Now' :
            Entry(g, updated) = [since |-> Entry(h, w).since, upto |-> to,
                                 counted |-> Entry(h, w).counted + (to - from)]
      BY <3>1
    <3>3. LedgerOf' = [LedgerOf EXCEPT ![ch] = [since |-> @.since, upto |-> to,
                                                counted |-> @.counted + (to - from)]]
      BY <2>2, <2>3, <2>4, <3>2
    <3>4. Wait!Ledger!Count(ch)
      <4>1. from \in LedgerOf[ch].upto .. Now'
        BY <2>4
      <4>2. \E x \in LedgerOf[ch].upto .. Now' : \E y \in x .. Now' :
              LedgerOf' = [LedgerOf EXCEPT ![ch] = [since |-> @.since, upto |-> y,
                                                    counted |-> @.counted + (y - x)]]
        BY <3>2, <3>3, <4>1
      <4>3. ch \in DOMAIN LedgerOf
        BY <2>2
      <4>. QED
        BY <4>2, <4>3 DEF Wait!Ledger!Count, LedgerOf, Entry, Now
    <3>5. Now' \in Nat /\ Now' >= Now
      BY <1>2
    <3>. QED
      BY <1>11, <3>4, <3>5 DEF Wait!Ledger!Next, Now
  <2>. QED
    BY <2>5, <2>6
<1>. QED
  BY <1>11, <1>16, <1>17

LEMMA ChannelsStep ==
    BlkInv /\ WaitInv /\ ChannelsInv /\ [IoNext]_ioVars =>
      ChannelsInv' /\ [Wait!Ledger!Next]_(Wait!Ledger!ledgerVars)
<1>. SUFFICES ASSUME BlkInv, WaitInv, ChannelsInv, [IoNext]_ioVars
              PROVE  ChannelsInv' /\ Wait!Ledger!Next
  OBVIOUS
<1>1. FeedInv /\ FeedTypeOK
  BY DEF BlkInv, FeedInv
<1>2. ASSUME UNCHANGED <<wdat, waitDat, heard>>, Now <= Now', Now' \in Nat
      PROVE  ChannelsInv' /\ Wait!Ledger!Next
  <2>1. Now \in Nat
    BY <1>1, NowType
  <2>2. ChannelsInv'
    BY <1>2, <2>1, ChannelLater DEF ChannelsInv
  <2>3. LedgerOf' = LedgerOf
    BY <1>2 DEF LedgerOf, Entry
  <2>. QED
    BY <1>2, <2>1, <2>2, <2>3, LedgerIs
<1>3. ASSUME NEW cpu \in Cpus, NEW id \in EventIds, NEW ns \in 1 .. MaxNs,
             IoRecord(cpu, id, ns)
      PROVE  ChannelsInv' /\ Wait!Ledger!Next
  <2>1. event' \in FeedRecord /\ event'.ns = ns /\ Now <= ns /\ Now' = ns /\ ns \in Nat
    BY <1>1, <1>3, FeedOK, FeedAssumption DEF IoRecord, Record
  <2>2. ASSUME NEW ch \in Channels, Wait!SentHandler(ch) \/ Wait!ReceivedHandler(ch)
        PROVE  ChannelsInv' /\ Wait!Ledger!Next
    BY <1>1, <2>1, <2>2, InterruptStep
  <2>3. CASE UNCHANGED <<wdat, waitDat, heard>>
    BY <1>2, <2>1, <2>3
  <2>. QED
    BY <1>3, <2>2, <2>3 DEF IoRecord, Wait!Record
<1>4. CASE UNCHANGED <<feedVars, wdat, waitDat, heard>>
  <2>1. Now' = Now /\ Now \in Nat
    BY <1>1, <1>4, FeedSame, NowType
  <2>2. Now <= Now' /\ Now' \in Nat
    BY <2>1
  <2>. QED
    BY <1>2, <1>4, <2>2
<1>5. IoEndOfLog \/ (\E q \in Queues : FinalizeQueue(q)) \/ UNCHANGED ioVars
        => UNCHANGED <<feedVars, wdat, waitDat, heard>>
  BY DEF IoEndOfLog, EndOfLog, Wait!EndOfLog, FinalizeQueue, Finalize, ioVars, blkVars
<1>6. ASSUME NEW ch \in Channels, FinalizeWait(ch)
      PROVE  UNCHANGED <<feedVars, wdat, waitDat, heard>>
  BY <1>6 DEF FinalizeWait, Wait!Finalize, Wait!feedVars, feedVars
<1>. QED
  BY <1>3, <1>4, <1>5, <1>6 DEF IoNext

-----------------------------------------------------------------------------
Message == [msg : Messages, ns : 1 .. MaxNs]

ToldInOrder(h, t) == /\ h \in Seq(Message)
                     /\ \A i, j \in DOMAIN h : i <= j => h[i].ns <= h[j].ns
                     /\ \A i \in DOMAIN h : h[i].ns <= t

(* Spoke, SaidAt, Following, StateAt and UnitsIn of the messages h *)
Spoken(h) == {i \in DOMAIN h : h[i].msg # "LOST_REC" \/ i = 1}

SpokenBy(h, u) == {i \in Spoken(h) : h[i].ns <= u}

Said(h, u) == CHOOSE i \in SpokenBy(h, u) : \A j \in SpokenBy(h, u) : j <= i

NextSaid(h, i) == CHOOSE j \in Spoken(h) : j > i /\ \A m \in Spoken(h) : m > i => j <= m

StateIn(h, u) ==
    IF h[Said(h, u)].msg # "LOST_REC" THEN StateAfter(h[Said(h, u)].msg)
    ELSE IF h[NextSaid(h, Said(h, u))].msg = "Q_BLOCKED" THEN "UNBLOCKED" ELSE "BLOCKED"

Units(h, last, state) == {u \in h[1].ns .. last - 1 : StateIn(h, u) = state}

(* The queue is in its state since message s. *)
StaySince(h, x, s) == /\ s \in Spoken(h) /\ x.lastNs = h[s].ns
                      /\ \A k \in Spoken(h) : k >= s => StateAfter(h[k].msg) = x.state

(* What one more message tells *)
LEMMA MessageFacts ==
    ASSUME NEW h \in Seq(Message), NEW e \in Message
    PROVE  /\ Append(h, e) \in Seq(Message) /\ Append(h, e) # << >>
           /\ Len(Append(h, e)) = Len(h) + 1 /\ Len(h) \in Nat
           /\ DOMAIN h = 1 .. Len(h) /\ DOMAIN Append(h, e) = 1 .. Len(h) + 1
           /\ Append(h, e)[Len(h) + 1] = e
           /\ \A i \in 1 .. Len(h) : Append(h, e)[i] = h[i]
           /\ \A i \in 1 .. Len(h) : h[i] \in Message
           /\ h # << >> => 1 \in DOMAIN h
           /\ h = << >> => Len(h) = 0
<1>1. /\ Append(h, e) \in Seq(Message) /\ Len(Append(h, e)) = Len(h) + 1 /\ Len(h) \in Nat
      /\ DOMAIN h = 1 .. Len(h)
      /\ Append(h, e)[Len(h) + 1] = e
      /\ \A i \in 1 .. Len(h) : Append(h, e)[i] = h[i]
      /\ \A i \in 1 .. Len(h) : h[i] \in Message
  OBVIOUS
<1>2. DOMAIN Append(h, e) = 1 .. Len(h) + 1
  BY <1>1
<1>3. h = << >> <=> Len(h) = 0
  OBVIOUS
<1>4. Append(h, e) # << >>
  BY <1>1
<1>. QED
  BY <1>1, <1>2, <1>3, <1>4

LEMMA ToldLater ==
    ASSUME NEW h, NEW t \in Nat, ToldInOrder(h, t), NEW e \in Message, t <= e.ns
    PROVE  ToldInOrder(Append(h, e), e.ns)
<1>1. \A i \in 1 .. Len(h) : h[i].ns \in Int /\ h[i].ns <= e.ns
  <2>1. \A i \in 1 .. Len(h) : h[i] \in Message /\ h[i].ns <= t
    BY MessageFacts DEF ToldInOrder
  <2>. QED
    BY <2>1, FeedAssumption DEF Message
<1>2. e.ns \in Int
  BY DEF Message
<1>. QED
  BY <1>1, <1>2, MessageFacts DEF ToldInOrder

LEMMA SpokenGrows ==
    ASSUME NEW h \in Seq(Message), NEW e \in Message
    PROVE  /\ Spoken(Append(h, e)) = IF e.msg # "LOST_REC" \/ h = << >>
                                     THEN Spoken(h) \cup {Len(h) + 1} ELSE Spoken(h)
           /\ Spoken(h) \subseteq 1 .. Len(h)
           /\ \A i \in Spoken(h) : h[i].msg = "LOST_REC" => i = 1
           /\ h # << >> => 1 \in Spoken(h)
<1>1. /\ Len(h) \in Nat
      /\ DOMAIN h = 1 .. Len(h) /\ DOMAIN Append(h, e) = 1 .. Len(h) + 1
      /\ Append(h, e)[Len(h) + 1] = e
      /\ \A i \in 1 .. Len(h) : Append(h, e)[i] = h[i]
      /\ h # << >> => 1 \in DOMAIN h
      /\ h = << >> <=> Len(h) = 0
  BY MessageFacts
<1>2. ASSUME NEW i \in 1 .. Len(h) + 1
      PROVE  i \in Spoken(Append(h, e)) <=>
               i \in IF e.msg # "LOST_REC" \/ h = << >>
                     THEN Spoken(h) \cup {Len(h) + 1} ELSE Spoken(h)
  <2>1. CASE i = Len(h) + 1
    BY <1>1, <2>1 DEF Spoken
  <2>2. CASE i # Len(h) + 1
    <3>1. i \in 1 .. Len(h)
      BY <1>1, <2>2
    <3>. QED
      BY <1>1, <2>2, <3>1 DEF Spoken
  <2>. QED
    BY <2>1, <2>2
<1>3. Spoken(h) \subseteq 1 .. Len(h) /\ Spoken(Append(h, e)) \subseteq 1 .. Len(h) + 1
  BY <1>1 DEF Spoken
<1>4. Len(h) + 1 \in 1 .. Len(h) + 1 /\ 1 .. Len(h) \subseteq 1 .. Len(h) + 1
  BY <1>1
<1>5. Spoken(Append(h, e)) = IF e.msg # "LOST_REC" \/ h = << >>
                             THEN Spoken(h) \cup {Len(h) + 1} ELSE Spoken(h)
  BY <1>2, <1>3, <1>4
<1>. QED
  BY <1>1, <1>3, <1>5 DEF Spoken

(* The last message before a moment the queue was heard of exists. *)
LEMMA SaidIs ==
    ASSUME NEW h \in Seq(Message), NEW u \in Int, h # << >>, h[1].ns <= u
    PROVE  /\ Said(h, u) \in SpokenBy(h, u)
           /\ \A j \in SpokenBy(h, u) : j <= Said(h, u)
           /\ Said(h, u) \in Spoken(h) /\ Said(h, u) \in 1 .. Len(h) /\ h[Said(h, u)].ns <= u
<1>1. Len(h) \in Nat /\ DOMAIN h = 1 .. Len(h) /\ (Len(h) = 0 <=> h = << >>)
  OBVIOUS
<1>2. 1 \in SpokenBy(h, u)
  BY <1>1 DEF SpokenBy, Spoken
<1>3. SpokenBy(h, u) \subseteq 1 .. Len(h)
  BY <1>1 DEF SpokenBy, Spoken
<1>4. IsFiniteSet(SpokenBy(h, u))
  <2>1. IsFiniteSet(1 .. Len(h))
    BY <1>1, FS_Interval
  <2>. QED
    BY <1>3, <2>1, FS_Subset
<1>5. SpokenBy(h, u) \subseteq Int
  BY <1>1, <1>3
<1>6. \E i \in SpokenBy(h, u) : \A j \in SpokenBy(h, u) : j <= i
  <2>1. SpokenBy(h, u) # {}
    BY <1>2
  <2>. QED
    BY <1>4, <1>5, <2>1, LargestElement
<1>7. /\ Said(h, u) \in SpokenBy(h, u)
      /\ \A j \in SpokenBy(h, u) : j <= Said(h, u)
  BY <1>6 DEF Said
<1>8. Said(h, u) \in Spoken(h) /\ h[Said(h, u)].ns <= u
  BY <1>7 DEF SpokenBy
<1>. QED
  BY <1>3, <1>7, <1>8

(* A later message does not change what was said by u. *)
LEMMA SaidSame ==
    ASSUME NEW h \in Seq(Message), NEW e \in Message, NEW u \in Int, u < e.ns
    PROVE  SpokenBy(Append(h, e), u) = SpokenBy(h, u) /\ Said(Append(h, e), u) = Said(h, u)
<1>1. SpokenBy(Append(h, e), u) = SpokenBy(h, u)
  <2>1. ~ (e.ns <= u)
    BY FeedAssumption DEF Message
  <2>2. /\ Append(h, e)[Len(h) + 1] = e
        /\ \A i \in 1 .. Len(h) : Append(h, e)[i] = h[i]
    BY MessageFacts
  <2>3. /\ Spoken(Append(h, e)) = Spoken(h) \cup {Len(h) + 1} \/ Spoken(Append(h, e)) = Spoken(h)
        /\ Spoken(h) \subseteq 1 .. Len(h)
    BY SpokenGrows
  <2>. QED
    BY <2>1, <2>2, <2>3 DEF SpokenBy
<1>. QED
  BY <1>1 DEF Said

(* The next message after i exists if some later one does. *)
LEMMA NextSaidIs ==
    ASSUME NEW h \in Seq(Message), NEW i \in Nat, NEW k \in Spoken(h), k > i
    PROVE  /\ NextSaid(h, i) \in Spoken(h) /\ NextSaid(h, i) > i
           /\ \A m \in Spoken(h) : m > i => NextSaid(h, i) <= m
<1>. DEFINE S == {j \in Spoken(h) : j > i}
<1>1. Len(h) \in Nat /\ DOMAIN h = 1 .. Len(h)
  OBVIOUS
<1>2. S \in SUBSET Nat /\ k \in S
  BY <1>1 DEF Spoken
<1>. HIDE DEF S
<1>3. PICK j \in S : \A m \in S : j <= m
  BY <1>2, LeastNatural
<1>4. j \in Spoken(h) /\ j > i /\ \A m \in Spoken(h) : m > i => j <= m
  BY <1>3 DEF S
<1>. QED
  BY <1>4 DEF NextSaid

(* A later message does not change the states before, once it is known     *)
(* what the first one was about.                                           *)
LEMMA StateSame ==
    ASSUME NEW h \in Seq(Message), NEW e \in Message, NEW u \in Int, u < e.ns,
           h # << >>, h[1].ns <= u,
           h[1].msg = "LOST_REC" => \E k \in Spoken(h) : k > 1
    PROVE  StateIn(Append(h, e), u) = StateIn(h, u)
<1>. DEFINE g == Append(h, e)
            i == Said(h, u)
<1>1. /\ g[Len(h) + 1] = e /\ \A k \in 1 .. Len(h) : g[k] = h[k] /\ h[k] \in Message
      /\ Len(h) \in Nat /\ g \in Seq(Message)
  BY MessageFacts
<1>2. /\ Spoken(g) = Spoken(h) \cup {Len(h) + 1} \/ Spoken(g) = Spoken(h)
      /\ Spoken(h) \subseteq 1 .. Len(h)
      /\ \A k \in Spoken(h) : h[k].msg = "LOST_REC" => k = 1
  BY SpokenGrows
<1>3. i \in Spoken(h) /\ i \in 1 .. Len(h)
  BY SaidIs
<1>4. Said(g, u) = i
  BY SaidSame
<1>. HIDE DEF g, i
<1>5. CASE h[i].msg # "LOST_REC"
  BY <1>1, <1>3, <1>4, <1>5 DEF StateIn, i, g
<1>6. CASE h[i].msg = "LOST_REC"
  <2>1. i = 1
    BY <1>2, <1>3, <1>6
  <2>2. PICK k \in Spoken(h) : k > 1
    BY <1>6, <2>1
  <2>3. /\ NextSaid(h, 1) \in Spoken(h) /\ NextSaid(h, 1) > 1
        /\ \A m \in Spoken(h) : m > 1 => NextSaid(h, 1) <= m
    BY <2>2, NextSaidIs
  <2>4. NextSaid(g, 1) = NextSaid(h, 1)
    <3>. DEFINE j == NextSaid(h, 1)
                l == NextSaid(g, 1)
    <3>1. k \in Spoken(g)
      BY <1>2
    <3>2. /\ l \in Spoken(g) /\ l > 1
          /\ \A m \in Spoken(g) : m > 1 => l <= m
      BY <1>1, <2>2, <3>1, NextSaidIs
    <3>3. j \in 1 .. Len(h) /\ j \in Spoken(g)
      BY <1>2, <2>3
    <3>. HIDE DEF j, l
    <3>4. l <= j
      BY <2>3, <3>2, <3>3 DEF j
    <3>5. l \in 1 .. Len(h) + 1
      BY <1>1, <1>2, <3>2
    <3>6. l \in Spoken(h)
      BY <1>1, <1>2, <3>2, <3>3, <3>4, <3>5
    <3>7. j <= l
      BY <2>3, <3>2, <3>6 DEF j
    <3>. QED
      BY <3>3, <3>4, <3>5, <3>7 DEF j, l
  <2>5. h[NextSaid(h, 1)] = g[NextSaid(g, 1)]
    BY <1>1, <1>2, <2>3, <2>4
  <2>. QED
    BY <1>1, <1>3, <1>4, <1>6, <2>1, <2>5 DEF StateIn, i, g
<1>. QED
  BY <1>5, <1>6 DEF g

(* The state a queue is taken to have been in when a message ends it *)
Was(x, msg) == IF x.state # "UNKNOWN" THEN x.state
               ELSE IF msg = "Q_BLOCKED" THEN "UNBLOCKED" ELSE "BLOCKED"

LEMMA StateNew ==
    ASSUME NEW h \in Seq(Message), NEW e \in Message, h # << >>, NEW x, NEW s,
           StaySince(h, x, s), e.msg # "LOST_REC", h[1].ns <= x.lastNs,
           NEW u \in Int, x.lastNs <= u, u < e.ns
    PROVE  StateIn(Append(h, e), u) = Was(x, e.msg)
<1>. DEFINE g == Append(h, e)
            n == Len(h)
            i == Said(h, u)
<1>1. /\ g[n + 1] = e /\ \A k \in 1 .. n : g[k] = h[k] /\ h[k] \in Message
      /\ n \in Nat /\ g \in Seq(Message)
  BY MessageFacts
<1>2. /\ Spoken(g) = Spoken(h) \cup {n + 1}
      /\ Spoken(h) \subseteq 1 .. n
      /\ \A k \in Spoken(h) : h[k].msg = "LOST_REC" => k = 1
      /\ 1 \in Spoken(h)
  BY SpokenGrows
<1>3. /\ s \in Spoken(h) /\ x.lastNs = h[s].ns
      /\ \A k \in Spoken(h) : k >= s => StateAfter(h[k].msg) = x.state
  BY DEF StaySince
<1>4. \A k \in 1 .. n : h[k].ns \in Int /\ h[k].msg \in Messages
  BY <1>1 DEF Message
<1>5. h[1].ns <= u
  <2>1. 1 \in 1 .. n /\ s \in 1 .. n
    BY <1>2, <1>3
  <2>. QED
    BY <1>3, <1>4, <2>1
<1>6. i \in Spoken(h) /\ i \in 1 .. n /\ \A j \in SpokenBy(h, u) : j <= i
  BY <1>5, SaidIs
<1>7. Said(g, u) = i
  BY SaidSame
<1>8. s <= i
  BY <1>3, <1>6 DEF SpokenBy
<1>. HIDE DEF g, n, i
<1>9. StateAfter(h[i].msg) = x.state /\ h[i].msg \in Messages /\ g[i] = h[i]
  <2>1. i >= s
    BY <1>2, <1>3, <1>6, <1>8
  <2>. QED
    BY <1>1, <1>3, <1>4, <1>6, <2>1
<1>10. CASE h[i].msg # "LOST_REC"
  BY <1>7, <1>9, <1>10 DEF StateIn, Was, StateAfter, Messages, g
<1>11. CASE h[i].msg = "LOST_REC"
  <2>1. x.state = "UNKNOWN"
    BY <1>9, <1>11 DEF StateAfter
  <2>2. i = 1 /\ s = 1
    BY <1>2, <1>3, <1>6, <1>8, <1>11
  <2>3. ASSUME NEW k \in Spoken(h), k # 1
        PROVE  FALSE
    <3>1. k \in 1 .. n /\ k >= s
      BY <1>2, <2>2
    <3>2. StateAfter(h[k].msg) = "UNKNOWN" /\ h[k].msg \in Messages
      BY <1>3, <1>4, <2>1, <3>1
    <3>3. h[k].msg = "LOST_REC"
      BY <3>2 DEF StateAfter, Messages
    <3>. QED
      BY <1>2, <2>3, <3>3
  <2>4. n + 1 \in Spoken(g) /\ n + 1 > 1
    BY <1>1, <1>2, <1>6
  <2>5. NextSaid(g, 1) \in Spoken(g) /\ NextSaid(g, 1) > 1
    BY <1>1, <2>4, NextSaidIs
  <2>6. NextSaid(g, 1) = n + 1
    BY <1>2, <2>3, <2>5
  <2>. QED
    BY <1>1, <1>7, <1>9, <1>11, <2>1, <2>2, <2>6 DEF StateIn, Was, g
<1>. QED
  BY <1>10, <1>11

(* Nothing counted yet, or known what the first message was about: another *)
(* message leaves the time counted as it is.                               *)
LEMMA UnitsSame ==
    ASSUME NEW h \in Seq(Message), NEW e \in Message, h # << >>, NEW last \in Int, last <= e.ns,
           (h[1].msg = "LOST_REC" /\ last # h[1].ns) => \E k \in Spoken(h) : k > 1,
           NEW state
    PROVE  Units(Append(h, e), last, state) = Units(h, last, state)
<1>1. Append(h, e)[1] = h[1] /\ h[1].ns \in Int /\ e.ns \in Int
  <2>1. 1 \in 1 .. Len(h) /\ Append(h, e)[1] = h[1] /\ h[1] \in Message
    BY MessageFacts
  <2>. QED
    BY <2>1 DEF Message
<1>2. ASSUME NEW u \in h[1].ns .. last - 1
      PROVE  StateIn(Append(h, e), u) = StateIn(h, u)
  <2>1. u \in Int /\ u < e.ns /\ h[1].ns <= u /\ last # h[1].ns
    BY <1>1
  <2>. QED
    BY <2>1, StateSame
<1>. QED
  BY <1>1, <1>2 DEF Units

(* What a queue keeps, told from its messages alone *)
QueueOK(h, x, t) ==
    /\ ToldInOrder(h, t)
    /\ h = << >> => x = InitState
    /\ h # << >> =>
         /\ x.state \in {"BLOCKED", "UNBLOCKED", "UNKNOWN"}
         /\ \E s : StaySince(h, x, s)
         /\ h[1].msg = "LOST_REC" => x.cpus = NoCpu
         /\ h[1].ns <= x.lastNs
         /\ x.totalBlockedTime + x.totalUnblockedTime <= x.lastNs - h[1].ns
         /\ x.totalBlockedTime = Cardinality(Units(h, x.lastNs, "BLOCKED"))
         /\ x.totalUnblockedTime = Cardinality(Units(h, x.lastNs, "UNBLOCKED"))

(* The queue was cut by this message *)
CutBy(x, msg, ev, before) ==
    /\ msg = "LOST_REC" /\ x.state \in {"BLOCKED", "UNBLOCKED"}
    /\ UpdateState(x, msg, ev, before) # x

LEMMA UnknownAtFirst ==
    ASSUME NEW h \in Seq(Message), NEW x, NEW s, StaySince(h, x, s), h # << >>
    PROVE  /\ x.state = "UNKNOWN" => s = 1 /\ h[1].msg = "LOST_REC"
           /\ (x.state # "UNKNOWN" /\ h[1].msg = "LOST_REC") => s \in Spoken(h) /\ s > 1
<1>1. /\ s \in Spoken(h) /\ s \in 1 .. Len(h) /\ Len(h) \in Nat
      /\ h[s].msg = "LOST_REC" => s = 1
      /\ h[s] \in Message
  BY DEF StaySince, Spoken
<1>2. StateAfter(h[s].msg) = x.state /\ h[s].msg \in Messages
  BY <1>1 DEF StaySince, Message
<1>3. x.state = "UNKNOWN" <=> h[s].msg = "LOST_REC"
  BY <1>2 DEF StateAfter, Messages
<1>. QED
  BY <1>1, <1>3

(* A message that cuts nothing leaves the queue as it is, or ends a stay. *)
LEMMA UpdateCases ==
    ASSUME NEW x \in QueueStates, x.state # "INIT", NEW msg \in Messages, NEW ev \in FeedRecord,
           NEW before, ~ CutBy(x, msg, ev, before), x.state = "UNKNOWN" => x.cpus = NoCpu
    PROVE  \/ /\ UpdateState(x, msg, ev, before) = x
              /\ msg = "LOST_REC" \/ StateAfter(msg) = x.state
           \/ /\ msg # "LOST_REC" /\ StateAfter(msg) # x.state
              /\ LET spent == Minus(ev.ns, x.lastNs)
                 IN UpdateState(x, msg, ev, before) =
                      IF Was(x, msg) = "BLOCKED" THEN Enter(x, StateAfter(msg), ev, spent, 0)
                                                 ELSE Enter(x, StateAfter(msg), ev, 0, spent)
<1>1. x.state \in {"BLOCKED", "UNBLOCKED", "UNKNOWN"} /\ ev.cpu \in Cpus
  BY DEF QueueStates, FeedRecord
<1>2. CASE x.state \in {"BLOCKED", "UNBLOCKED"}
  <2>1. UpdateState(x, msg, ev, before) = UpdateKnown(x, msg, ev, before)
    BY <1>2 DEF UpdateState
  <2>2. CASE msg = "LOST_REC"
    BY <1>2, <2>2 DEF CutBy
  <2>3. CASE msg # "LOST_REC" /\ StateAfter(msg) = x.state
    BY <2>1, <2>3 DEF UpdateKnown
  <2>4. CASE msg # "LOST_REC" /\ StateAfter(msg) # x.state
    BY <1>2, <2>1, <2>4 DEF UpdateKnown, Was
  <2>. QED
    BY <2>2, <2>3, <2>4
<1>3. CASE x.state = "UNKNOWN"
  <2>1. UpdateState(x, msg, ev, before) = UpdateUnknown(x, msg, ev)
    BY <1>3 DEF UpdateState
  <2>2. CASE msg = "LOST_REC"
    BY <1>1, <1>3, <2>1, <2>2, NoCpuAssumption DEF UpdateUnknown
  <2>3. CASE msg = "Q_BLOCKED"
    BY <1>3, <2>1, <2>3 DEF UpdateUnknown, Was, StateAfter
  <2>4. CASE msg = "Q_UNBLOCKED"
    BY <1>3, <2>1, <2>4 DEF UpdateUnknown, Was, StateAfter
  <2>. QED
    BY <2>2, <2>3, <2>4 DEF Messages
<1>. QED
  BY <1>1, <1>2, <1>3

LEMMA HeardOfSince ==
    ASSUME NEW h \in Seq(Message), NEW x, NEW s, StaySince(h, x, s), h # << >>,
           h[1].msg = "LOST_REC", x.lastNs # h[1].ns
    PROVE  \E k \in Spoken(h) : k > 1
<1>1. s # 1
  BY DEF StaySince
<1>. QED
  BY <1>1, UnknownAtFirst

LEMMA UnitsGrow ==
    ASSUME NEW h \in Seq(Message), NEW e \in Message, h # << >>, NEW x, NEW s,
           StaySince(h, x, s), e.msg # "LOST_REC", h[1].ns <= x.lastNs,
           x.lastNs \in Int, x.lastNs <= e.ns, NEW state
    PROVE  /\ Cardinality(Units(Append(h, e), e.ns, state))
                = Cardinality(Units(h, x.lastNs, state))
                    + (IF Was(x, e.msg) = state THEN e.ns - x.lastNs ELSE 0)
           /\ Cardinality(Units(h, x.lastNs, state)) \in Nat
<1>. DEFINE g == Append(h, e)
            last == x.lastNs
            old == Units(h, last, state)
            more == IF Was(x, e.msg) = state THEN last .. e.ns - 1 ELSE {}
<1>1. g[1] = h[1] /\ h[1].ns \in Int /\ e.ns \in Int
  <2>1. 1 \in 1 .. Len(h) /\ g[1] = h[1] /\ h[1] \in Message
    BY MessageFacts
  <2>. QED
    BY <2>1 DEF Message
<1>2. Units(g, last, state) = old
  BY HeardOfSince, UnitsSame
<1>3. \A u \in last .. e.ns - 1 : StateIn(g, u) = Was(x, e.msg)
  <2>1. ASSUME NEW u \in last .. e.ns - 1
        PROVE  StateIn(g, u) = Was(x, e.msg)
    <3>1. u \in Int /\ x.lastNs <= u /\ u < e.ns
      BY <1>1
    <3>. QED
      BY <3>1, StateNew
  <2>. QED
    BY <2>1
<1>. HIDE DEF g, last
<1>4. Units(g, e.ns, state) = old \cup more /\ old \cap more = {}
  <2>1. h[1].ns .. e.ns - 1 = (h[1].ns .. last - 1) \cup (last .. e.ns - 1)
    BY <1>1 DEF last
  <2>2. (h[1].ns .. last - 1) \cap (last .. e.ns - 1) = {}
    BY <1>1 DEF last
  <2>3. Units(g, e.ns, state) = {u \in (h[1].ns .. last - 1) \cup (last .. e.ns - 1) : StateIn(g, u) = state}
    BY <1>1, <2>1 DEF Units
  <2>4. Units(g, last, state) = {u \in h[1].ns .. last - 1 : StateIn(g, u) = state}
    BY <1>1 DEF Units
  <2>. QED
    BY <1>2, <1>3, <2>2, <2>3, <2>4
<1>5. IsFiniteSet(old)
  <2>. DEFINE a == h[1].ns
              b == last - 1
  <2>1. old \subseteq a .. b
    BY DEF Units
  <2>2. IsFiniteSet(a .. b)
    <3>1. a \in Int /\ b \in Int
      BY <1>1 DEF last
    <3>. HIDE DEF a, b
    <3>. QED
      BY <3>1, FS_Interval
  <2>. HIDE DEF a, b, old
  <2>. QED
    BY <2>1, <2>2, FS_Subset
<1>6. IsFiniteSet(more) /\ Cardinality(more) = IF Was(x, e.msg) = state THEN e.ns - last ELSE 0
  <2>. DEFINE b == e.ns - 1
  <2>1. b \in Int /\ last \in Int /\ last <= b + 1 /\ b - last + 1 = e.ns - last
    BY <1>1 DEF last
  <2>. HIDE DEF b
  <2>2. IsFiniteSet(last .. b) /\ Cardinality(last .. b) = IF last > b THEN 0 ELSE b - last + 1
    BY <2>1, FS_Interval
  <2>3. Cardinality(last .. b) = e.ns - last
    BY <1>1, <2>1, <2>2
  <2>4. more = IF Was(x, e.msg) = state THEN last .. b ELSE {}
    BY DEF b
  <2>5. IsFiniteSet({}) /\ Cardinality({}) = 0
    BY FS_EmptySet
  <2>. HIDE DEF more
  <2>. QED
    BY <2>2, <2>3, <2>4, <2>5
<1>. HIDE DEF old, more
<1>7. Cardinality(old) \in Nat /\ Cardinality(more) \in Nat
  BY <1>5, <1>6, FS_CardinalityType
<1>8. Cardinality(old \cup more) = Cardinality(old) + Cardinality(more)
  <2>1. Cardinality(old \cup more) = Cardinality(old) + Cardinality(more) - Cardinality(old \cap more)
    BY <1>5, <1>6, FS_Union
  <2>2. Cardinality(old \cap more) = 0
    BY <1>4, FS_EmptySet
  <2>. QED
    BY <1>7, <2>1, <2>2
<1>. QED
  BY <1>4, <1>6, <1>7, <1>8 DEF g, last, old

(* Exact times do not wrap around: their sum is the total. *)
LEMMA TotalExact ==
    ASSUME NEW x \in QueueStates, AddsUp(x), NEW from \in Nat,
           x.totalBlockedTime + x.totalUnblockedTime <= x.lastNs - from
    PROVE  x.totalTime = x.totalBlockedTime + x.totalUnblockedTime
<1>1. /\ x.totalBlockedTime \in Times /\ x.totalUnblockedTime \in Times
      /\ x.lastNs \in Nat /\ x.lastNs < NsModulus
  BY StampsFitAssumption, FeedAssumption, NsModulusAssumption DEF QueueStates
<1>2. x.totalBlockedTime + x.totalUnblockedTime < NsModulus
  BY <1>1, NsModulusAssumption DEF Times
<1>. QED
  BY <1>1, <1>2, PlusCases DEF AddsUp

(* One message that does not cut: the queue stays as told, and the time    *)
(* returned is that of the stay it ends.                                   *)
LEMMA QueueStep ==
    ASSUME NEW h, NEW x \in QueueStates, AddsUp(x), NEW t \in Nat, QueueOK(h, x, t),
           NEW msg \in Messages, NEW ev \in FeedRecord, t <= ev.ns, NEW before \in Times,
           ~ CutBy(x, msg, ev, before)
    PROVE  LET updated == UpdateState(x, msg, ev, before)
               g == Append(h, [msg |-> msg, ns |-> ev.ns])
               wTime == TimeReturned(x, updated)
           IN /\ QueueOK(g, updated, ev.ns)
              /\ updated.totalBlockedTime
                   = x.totalBlockedTime + (IF msg = "Q_UNBLOCKED" THEN wTime ELSE 0)
              /\ updated.totalUnblockedTime
                   = x.totalUnblockedTime + (IF msg = "Q_BLOCKED" THEN wTime ELSE 0)
<1>. DEFINE e == [msg |-> msg, ns |-> ev.ns]
            n == Len(h)
            updated == UpdateState(x, msg, ev, before)
            g == Append(h, e)
            wTime == TimeReturned(x, updated)
<1>. SUFFICES
       /\ QueueOK(g, updated, ev.ns)
       /\ updated.totalBlockedTime
            = x.totalBlockedTime + (IF msg = "Q_UNBLOCKED" THEN wTime ELSE 0)
       /\ updated.totalUnblockedTime
            = x.totalUnblockedTime + (IF msg = "Q_BLOCKED" THEN wTime ELSE 0)
  OBVIOUS
<1>1. /\ e \in Message /\ ev.ns \in 1 .. MaxNs /\ e.ns = ev.ns /\ e.msg = msg
      /\ h \in Seq(Message) /\ ToldInOrder(h, t)
  BY DEF FeedRecord, Message, QueueOK, ToldInOrder
<1>2. /\ g # << >> /\ Len(g) = n + 1 /\ n \in Nat /\ g[n + 1] = e
      /\ DOMAIN h = 1 .. n /\ \A i \in 1 .. n : g[i] = h[i] /\ h[i] \in Message
      /\ h # << >> => 1 \in 1 .. n
      /\ h = << >> => n = 0
  BY <1>1, MessageFacts
<1>3. ToldInOrder(g, ev.ns)
  BY <1>1, ToldLater
<1>4. /\ x.totalBlockedTime \in Times /\ x.totalUnblockedTime \in Times
      /\ x.totalTime \in Times /\ x.lastNs \in 0 .. MaxNs
      /\ x.totalBlockedTime \in Nat /\ x.totalUnblockedTime \in Nat
      /\ x.totalTime \in Nat /\ x.lastNs \in Nat
      /\ ev.ns \in Nat /\ ev.ns < NsModulus
  BY <1>1, StampsFitAssumption, FeedAssumption, NsModulusAssumption DEF QueueStates, Times
<1>5. Minus(x.totalTime, x.totalTime) = 0
  BY <1>4, NsModulusAssumption DEF Minus
<1>6. updated \in QueueStates /\ AddsUp(updated)
  BY UpdateOK
<1>7. /\ Spoken(g) = IF msg # "LOST_REC" \/ h = << >> THEN Spoken(h) \cup {n + 1} ELSE Spoken(h)
      /\ Spoken(h) \subseteq 1 .. n
  BY <1>1, SpokenGrows
<1>. HIDE DEF e, n, g
<1>8. CASE h = << >>
  <2>1. x = InitState /\ Spoken(g) = {1} /\ g[1] = e
    <3>1. x = InitState
      BY <1>8 DEF QueueOK
    <3>2. n = 0 /\ Spoken(h) = {}
      BY <1>2, <1>7, <1>8
    <3>. QED
      BY <1>2, <1>7, <1>8, <3>1, <3>2
  <2>2. updated = UpdateInit(x, msg, ev)
    BY <2>1 DEF UpdateState, InitState
  <2>3. /\ updated.state = StateAfter(msg) /\ updated.lastNs = ev.ns
        /\ updated.totalBlockedTime = 0 /\ updated.totalUnblockedTime = 0
        /\ updated.totalTime = 0 /\ x.totalTime = 0
        /\ x.totalBlockedTime = 0 /\ x.totalUnblockedTime = 0
        /\ msg = "LOST_REC" => updated.cpus = NoCpu
    BY <2>1, <2>2 DEF UpdateInit, InitState
  <2>4. wTime = 0
    BY <1>5, <2>3 DEF TimeReturned
  <2>5. StateAfter(msg) \in {"BLOCKED", "UNBLOCKED", "UNKNOWN"}
    BY DEF StateAfter, Messages
  <2>. HIDE DEF updated, wTime
  <2>6. StaySince(g, updated, 1)
    BY <1>1, <2>1, <2>3 DEF StaySince
  <2>7. \A state : Units(g, updated.lastNs, state) = {}
    <3>1. g[1].ns .. updated.lastNs - 1 = {}
      BY <1>1, <1>4, <2>1, <2>3
    <3>. QED
      BY <3>1 DEF Units
  <2>8. Cardinality({}) = 0
    BY FS_EmptySet
  <2>9. QueueOK(g, updated, ev.ns)
    <3>1. 0 + 0 <= updated.lastNs - g[1].ns /\ g[1].ns <= updated.lastNs
      BY <1>1, <1>4, <2>1, <2>3
    <3>. QED
      BY <1>1, <1>2, <1>3, <2>1, <2>3, <2>5, <2>6, <2>7, <2>8, <3>1 DEF QueueOK
  <2>. QED
    BY <2>3, <2>4, <2>9
<1>9. CASE h # << >>
  <2>1. /\ x.state \in {"BLOCKED", "UNBLOCKED", "UNKNOWN"}
        /\ h[1].msg = "LOST_REC" => x.cpus = NoCpu
        /\ h[1].ns <= x.lastNs
        /\ x.totalBlockedTime + x.totalUnblockedTime <= x.lastNs - h[1].ns
        /\ x.totalBlockedTime = Cardinality(Units(h, x.lastNs, "BLOCKED"))
        /\ x.totalUnblockedTime = Cardinality(Units(h, x.lastNs, "UNBLOCKED"))
    BY <1>9 DEF QueueOK
  <2>2. PICK s : StaySince(h, x, s)
    BY <1>9 DEF QueueOK
  <2>3. /\ s \in Spoken(h) /\ s \in 1 .. n /\ x.lastNs = h[s].ns /\ h[s].ns <= t
        /\ \A k \in Spoken(h) : k >= s => StateAfter(h[k].msg) = x.state
        /\ x.lastNs <= ev.ns
    <3>1. s \in Spoken(h) /\ s \in 1 .. n /\ x.lastNs = h[s].ns
      BY <1>7, <2>2 DEF StaySince
    <3>2. h[s].ns <= t
      BY <1>1, <1>2, <3>1 DEF ToldInOrder
    <3>3. x.lastNs <= ev.ns
      BY <1>4, <3>1, <3>2
    <3>. QED
      BY <2>2, <3>1, <3>2, <3>3 DEF StaySince
  <2>4. /\ x.state = "UNKNOWN" => s = 1 /\ h[1].msg = "LOST_REC"
        /\ (x.state # "UNKNOWN" /\ h[1].msg = "LOST_REC") => s \in Spoken(h) /\ s > 1
    BY <1>1, <1>9, <2>2, UnknownAtFirst
  <2>5. g[1] = h[1] /\ h[1].ns \in Nat /\ h[1].ns >= 1
    BY <1>2, <1>9, FeedAssumption DEF Message
  <2>. DEFINE spent == Minus(ev.ns, x.lastNs)
  <2>6. \/ /\ updated = x
           /\ msg = "LOST_REC" \/ StateAfter(msg) = x.state
        \/ /\ msg # "LOST_REC" /\ StateAfter(msg) # x.state
           /\ updated = IF Was(x, msg) = "BLOCKED" THEN Enter(x, StateAfter(msg), ev, spent, 0)
                                                   ELSE Enter(x, StateAfter(msg), ev, 0, spent)
    BY <2>1, <2>4, UpdateCases
  <2>7. CASE updated = x /\ (msg = "LOST_REC" \/ StateAfter(msg) = x.state)
    <3>1. wTime = 0
      BY <1>5, <2>7 DEF TimeReturned
    <3>2. \A state : Units(g, x.lastNs, state) = Units(h, x.lastNs, state)
      <4>1. (h[1].msg = "LOST_REC" /\ x.lastNs # h[1].ns) => \E k \in Spoken(h) : k > 1
        BY <1>1, <1>9, <2>2, HeardOfSince
      <4>. QED
        BY <1>1, <1>4, <1>9, <2>3, <4>1, UnitsSame DEF g
    <3>3. StaySince(g, x, s)
      <4>1. \A k \in Spoken(g) : \/ k \in Spoken(h) /\ g[k] = h[k]
                                 \/ k = n + 1 /\ msg # "LOST_REC" /\ g[k] = e
        BY <1>2, <1>7, <1>9
      <4>2. s \in Spoken(g) /\ g[s] = h[s]
        BY <1>2, <1>7, <2>3
      <4>3. \A k \in Spoken(g) : k >= s => StateAfter(g[k].msg) = x.state
        BY <1>1, <2>3, <2>7, <4>1
      <4>. QED
        BY <2>3, <4>2, <4>3 DEF StaySince
    <3>4. QueueOK(g, x, ev.ns)
      BY <1>2, <1>3, <2>1, <2>5, <3>2, <3>3 DEF QueueOK
    <3>. QED
      BY <1>4, <2>7, <3>1, <3>4
  <2>8. CASE /\ msg # "LOST_REC" /\ StateAfter(msg) # x.state
             /\ updated = IF Was(x, msg) = "BLOCKED" THEN Enter(x, StateAfter(msg), ev, spent, 0)
                                                     ELSE Enter(x, StateAfter(msg), ev, 0, spent)
    <3>1. spent = ev.ns - x.lastNs /\ spent \in Nat /\ spent \in Times
      <4>1. spent = ev.ns - x.lastNs
        BY <1>4, <2>3, MinusExact
      <4>. QED
        BY <1>4, <2>3, <4>1, NsModulusAssumption DEF Times
    <3>. HIDE DEF spent
    <3>. DEFINE blocked == IF Was(x, msg) = "BLOCKED" THEN spent ELSE 0
                unblocked == IF Was(x, msg) = "UNBLOCKED" THEN spent ELSE 0
    <3>2. /\ Was(x, msg) \in {"BLOCKED", "UNBLOCKED"}
          /\ Was(x, msg) = "UNBLOCKED" <=> msg = "Q_BLOCKED"
          /\ Was(x, msg) = "BLOCKED" <=> msg = "Q_UNBLOCKED"
      BY <2>1, <2>8 DEF Was, StateAfter, Messages
    <3>3. /\ updated.state = StateAfter(msg) /\ updated.lastNs = ev.ns
          /\ updated.totalBlockedTime = Plus(x.totalBlockedTime, blocked)
          /\ updated.totalUnblockedTime = Plus(x.totalUnblockedTime, unblocked)
          /\ updated.cpus = x.cpus
      BY <2>8, <3>2 DEF Enter, QueueStates
    <3>4. /\ blocked \in Nat /\ unblocked \in Nat /\ blocked \in Times /\ unblocked \in Times
          /\ blocked + unblocked = spent
      BY <3>1, <3>2, ZeroTime
    <3>. HIDE DEF blocked, unblocked
    <3>5. /\ updated.totalBlockedTime = x.totalBlockedTime + blocked
          /\ updated.totalUnblockedTime = x.totalUnblockedTime + unblocked
          /\ x.totalBlockedTime + blocked + (x.totalUnblockedTime + unblocked) <= ev.ns - h[1].ns
      <4>1. x.totalBlockedTime + blocked + (x.totalUnblockedTime + unblocked) <= ev.ns - h[1].ns
        BY <1>4, <2>1, <2>5, <3>1, <3>4
      <4>2. x.totalBlockedTime + blocked < NsModulus /\ x.totalUnblockedTime + unblocked < NsModulus
        BY <1>4, <2>5, <3>4, <4>1, NsModulusAssumption
      <4>. QED
        BY <1>4, <3>3, <3>4, <4>1, <4>2, PlusCases
    <3>6. ASSUME NEW state
          PROVE  Cardinality(Units(g, ev.ns, state))
                   = Cardinality(Units(h, x.lastNs, state))
                       + (IF Was(x, msg) = state THEN ev.ns - x.lastNs ELSE 0)
      <4>1. /\ h \in Seq(Message) /\ e \in Message /\ h # << >> /\ StaySince(h, x, s)
            /\ e.msg # "LOST_REC" /\ h[1].ns <= x.lastNs
            /\ x.lastNs \in Int /\ x.lastNs <= e.ns
        BY <1>1, <1>4, <1>9, <2>1, <2>2, <2>3, <2>8
      <4>2. Cardinality(Units(Append(h, e), e.ns, state))
              = Cardinality(Units(h, x.lastNs, state))
                  + (IF Was(x, e.msg) = state THEN e.ns - x.lastNs ELSE 0)
        BY ONLY <4>1, UnitsGrow, ZenonT(60)
      <4>. QED
        BY <1>1, <4>2 DEF g
    <3>7. /\ updated.totalBlockedTime = Cardinality(Units(g, ev.ns, "BLOCKED"))
          /\ updated.totalUnblockedTime = Cardinality(Units(g, ev.ns, "UNBLOCKED"))
      BY <2>1, <3>1, <3>5, <3>6 DEF blocked, unblocked
    <3>8. wTime = spent
      <4>1. x.totalTime = x.totalBlockedTime + x.totalUnblockedTime
        BY <2>1, <2>5, TotalExact
      <4>2. updated.totalTime = updated.totalBlockedTime + updated.totalUnblockedTime
        <5>. HIDE DEF updated
        <5>1. updated.totalBlockedTime + updated.totalUnblockedTime <= updated.lastNs - h[1].ns
          BY <3>3, <3>5
        <5>. QED
          BY <1>6, <2>5, <5>1, TotalExact
      <4>3. updated.totalTime = x.totalTime + spent
        <5>. HIDE DEF updated
        <5>. QED
          BY <1>4, <3>4, <3>5, <4>1, <4>2
      <4>4. updated.totalTime \in Times
        BY <1>6 DEF QueueStates
      <4>5. Minus(updated.totalTime, x.totalTime) = updated.totalTime - x.totalTime
        <5>. HIDE DEF updated
        <5>1. updated.totalTime \in Nat /\ x.totalTime <= updated.totalTime /\ updated.totalTime < NsModulus
          BY <1>4, <3>1, <4>3, <4>4, NsModulusAssumption DEF Times
        <5>. QED
          BY <1>4, <5>1, MinusExact
      <4>. HIDE DEF updated
      <4>6. updated.totalTime - x.totalTime = spent
        BY <1>4, <3>1, <4>3
      <4>. QED
        BY <4>5, <4>6 DEF TimeReturned
    <3>. HIDE DEF updated, wTime
    <3>9. StaySince(g, updated, n + 1)
      <4>1. n + 1 \in Spoken(g) /\ g[n + 1].ns = ev.ns
        BY <1>1, <1>2, <1>7, <2>8
      <4>2. \A k \in Spoken(g) : k >= n + 1 => k = n + 1
        BY <1>2, <1>7
      <4>. QED
        BY <1>1, <1>2, <3>3, <4>1, <4>2 DEF StaySince
    <3>10. StateAfter(msg) \in {"BLOCKED", "UNBLOCKED", "UNKNOWN"}
      BY DEF StateAfter, Messages
    <3>11. g[1].ns <= ev.ns
      BY <1>4, <2>1, <2>3, <2>5
    <3>12. QueueOK(g, updated, ev.ns)
      BY <1>2, <1>3, <2>1, <2>5, <3>3, <3>5, <3>7, <3>9, <3>10, <3>11 DEF QueueOK
    <3>. QED
      BY <1>4, <3>2, <3>5, <3>8, <3>12 DEF blocked, unblocked
  <2>. HIDE DEF spent
  <2>. QED
    BY <2>6, <2>7, <2>8
<1>. QED
  BY <1>8, <1>9

LEMMA QueueLater ==
    ASSUME NEW h, NEW x, NEW t \in Nat, NEW u \in Nat, t <= u, QueueOK(h, x, t)
    PROVE  QueueOK(h, x, u)
<1>1. \A i \in DOMAIN h : h[i] \in Message /\ h[i].ns <= t
  BY DEF QueueOK, ToldInOrder
<1>2. \A i \in DOMAIN h : h[i].ns <= u
  BY <1>1 DEF Message
<1>. QED
  BY <1>2 DEF QueueOK, ToldInOrder

(* A queue that was not cut is as its messages tell. *)
Uncut(q, t) == QueueOK(told[q], queue[q], t)

ToldInv == /\ told \in [Queues -> Seq(Message)]
           /\ \A q \in Live : ~ cut[q] => Uncut(q, Now)

LEMMA ToldInit == Init => ToldInv
<1>. SUFFICES ASSUME Init PROVE ToldInv
  OBVIOUS
<1>1. Now = 0
  BY FeedInitOK DEF Init
<1>2. told \in [Queues -> Seq(Message)]
  BY DEF Init
<1>3. \A q \in Queues : told[q] = << >> /\ queue[q] = InitState
  BY DEF Init
<1>4. QueueOK(<< >>, InitState, 0)
  BY DEF QueueOK, ToldInOrder
<1>. QED
  BY <1>1, <1>2, <1>3, <1>4 DEF ToldInv, Uncut, Live

(* A message to a queue that stays uncut *)
LEMMA UncutStep ==
    ASSUME NEW q \in Queues, queue[q] \in QueueStates, AddsUp(queue[q]),
           NEW t \in Nat, Uncut(q, t), NEW msg \in Messages, NEW before \in Times,
           event' \in FeedRecord, t <= event'.ns,
           ~ CutBy(queue[q], msg, event', before),
           queue'[q] = UpdateState(queue[q], msg, event', before),
           told'[q] = Tell(q, msg)
    PROVE  QueueOK(told'[q], queue'[q], event'.ns)
<1>. DEFINE x == queue[q]
            h == told[q]
            ev == event'
<1>1. /\ x \in QueueStates /\ AddsUp(x) /\ t \in Nat /\ QueueOK(h, x, t) /\ msg \in Messages
      /\ ev \in FeedRecord /\ t <= ev.ns /\ before \in Times /\ ~ CutBy(x, msg, ev, before)
  BY DEF Uncut
<1>. HIDE DEF h, ev, x
<1>2. QueueOK(Append(h, [msg |-> msg, ns |-> ev.ns]), UpdateState(x, msg, ev, before), ev.ns)
  BY ONLY <1>1, QueueStep
<1>. QED
  BY <1>2 DEF Tell, h, ev, x

LEMMA ToldRecordOK ==
    ASSUME BlkInv, ToldInv, NEW cpu \in Cpus, NEW id \in EventIds, NEW ns \in 1 .. MaxNs,
           Record(cpu, id, ns)
    PROVE  ToldInv'
<1>1. /\ ~ended /\ Feed(cpu, id, ns) /\ FeedInv
      /\ event' \in FeedRecord /\ event'.ns = ns /\ Now <= ns /\ Now' = ns
      /\ Now \in Nat /\ ns \in Nat /\ event'.ns \in 1 .. MaxNs /\ event'.cpu \in Cpus
  <2>1. ~ended /\ Feed(cpu, id, ns) /\ FeedInv
    BY DEF Record, BlkInv
  <2>2. event' \in FeedRecord /\ event'.ns = ns /\ Now <= ns /\ Now' = ns /\ event'.cpu = cpu
    BY <2>1, FeedOK
  <2>. QED
    BY <2>1, <2>2, NowType, FeedAssumption DEF FeedInv
<1>2. /\ queue \in [Queues -> QueueStates] /\ Live = Queues
      /\ \A q \in Queues : queue[q] \in QueueStates /\ AddsUp(queue[q])
  <2>1. /\ queue \in [Queues -> QueueStates]
        /\ \A q \in Queues : queue[q] \in QueueStates /\ AddsUp(queue[q])
    BY <1>1, LiveQueues
  <2>. QED
    BY <2>1, FreedAssumption DEF Live
<1>3. \A c \in DOMAIN lrt : lrt[c].lastNs2 \in Times
  BY DEF BlkInv, TypeOK
<1>4. /\ told \in [Queues -> Seq(Message)]
      /\ \A q \in Queues : ~ cut[q] => Uncut(q, Now)
  BY <1>2 DEF ToldInv
<1>5. ASSUME NEW q \in Queues, queue'[q] = queue[q], told'[q] = told[q], Uncut(q, Now)
      PROVE  QueueOK(told'[q], queue'[q], Now')
  BY <1>1, <1>5, QueueLater DEF Uncut
<1>6. \A msg \in Messages : [msg |-> msg, ns |-> event'.ns] \in Message
  BY <1>1 DEF Message
<1>7. ASSUME NEW p \in Queues, NEW msg \in {"Q_BLOCKED", "Q_UNBLOCKED"}, QueueHandler(p, msg)
      PROVE  ToldInv'
  <2>1. Update(p, msg)
    BY <1>7 DEF QueueHandler, SamplingHandler, PlainHandler
  <2>2. /\ queue' = [queue EXCEPT ![p] = UpdateState(queue[p], msg, event', 0)]
        /\ told' = [told EXCEPT ![p] = Tell(p, msg)] /\ cut' = cut
    BY <2>1 DEF Update
  <2>5. \A q \in Queues : q # p => queue'[q] = queue[q] /\ told'[q] = told[q]
    BY <1>2, <1>4, <2>2
  <2>6. told' \in [Queues -> Seq(Message)]
    <3>1. msg \in Messages /\ told[p] \in Seq(Message)
      BY <1>4 DEF Messages
    <3>2. Tell(p, msg) \in Seq(Message)
      BY <1>6, <3>1 DEF Tell
    <3>. QED
      BY <1>4, <2>2, <3>2
  <2>7. ASSUME NEW q \in Queues, ~ cut'[q]
        PROVE  QueueOK(told'[q], queue'[q], Now')
    <3>1. Uncut(q, Now)
      BY <1>4, <2>2, <2>7
    <3>2. CASE q # p
      BY <1>5, <2>5, <3>1, <3>2
    <3>3. CASE q = p
      <4>1. ~ CutBy(queue[p], msg, event', 0) /\ msg \in Messages /\ 0 \in Times
        BY ZeroTime DEF CutBy, Messages
      <4>2. queue'[p] = UpdateState(queue[p], msg, event', 0) /\ told'[p] = Tell(p, msg)
        BY <1>2, <1>4, <2>2
      <4>3. queue[p] \in QueueStates /\ AddsUp(queue[p]) /\ Uncut(p, Now)
        BY <1>2, <3>1, <3>3
      <4>4. QueueOK(told'[p], queue'[p], event'.ns)
        BY <1>1, <4>1, <4>2, <4>3, UncutStep
      <4>. QED
        BY <1>1, <3>3, <4>4
    <3>. QED
      BY <3>2, <3>3
  <2>. QED
    BY <2>6, <2>7 DEF ToldInv, Live, Uncut
<1>8. ASSUME LostRecordsHandler
      PROVE  ToldInv'
  <2>. DEFINE before == EvBeforeLostRecordsNs(event'.cpu)
  <2>1. before \in Times
    BY <1>3, ZeroTime DEF EvBeforeLostRecordsNs
  <2>2. /\ queue' = [q \in Queues |-> UpdateState(queue[q], "LOST_REC", event', before)]
        /\ told' = [q \in Queues |-> Tell(q, "LOST_REC")]
        /\ cut' = [q \in Queues |-> cut[q] \/ CutBy(queue[q], "LOST_REC", event', before)]
    BY <1>8 DEF LostRecordsHandler, CutBy
  <2>. HIDE DEF before
  <2>3. told' \in [Queues -> Seq(Message)]
    <3>1. \A q \in Queues : Tell(q, "LOST_REC") \in Seq(Message)
      BY <1>4, <1>6 DEF Tell, Messages
    <3>. QED
      BY <2>2, <3>1
  <2>4. ASSUME NEW q \in Queues, ~ cut'[q]
        PROVE  QueueOK(told'[q], queue'[q], Now')
    <3>1. ~ cut[q] /\ ~ CutBy(queue[q], "LOST_REC", event', before)
      BY <2>2, <2>4
    <3>2. /\ queue'[q] = UpdateState(queue[q], "LOST_REC", event', before)
          /\ told'[q] = Tell(q, "LOST_REC")
      BY <2>2
    <3>3. queue[q] \in QueueStates /\ AddsUp(queue[q]) /\ Uncut(q, Now)
      BY <1>2, <1>4, <3>1
    <3>4. QueueOK(told'[q], queue'[q], event'.ns)
      BY <1>1, <2>1, <3>1, <3>2, <3>3, UncutStep DEF Messages
    <3>. QED
      BY <1>1, <3>4
  <2>. QED
    BY <2>3, <2>4 DEF ToldInv, Live, Uncut
<1>9. CASE UNCHANGED <<queue, told, cut>>
  <2>1. \A q \in Queues : ~ cut'[q] => QueueOK(told'[q], queue'[q], Now')
    BY <1>4, <1>5, <1>9
  <2>. QED
    BY <1>4, <1>9, <2>1 DEF ToldInv, Live, Uncut
<1>. QED
  BY <1>7, <1>8, <1>9 DEF Record

LEMMA ToldStep == BlkInv /\ ToldInv /\ [Next]_blkVars => ToldInv'
<1>. SUFFICES ASSUME BlkInv, ToldInv, [Next]_blkVars PROVE ToldInv'
  OBVIOUS
<1>1. CASE \E cpu \in Cpus, id \in EventIds, ns \in 1 .. MaxNs : Record(cpu, id, ns)
  BY <1>1, ToldRecordOK
<1>2. ASSUME UNCHANGED <<feedVars, told, cut>>,
             \A q \in Live' : q \in Live /\ queue'[q] = queue[q]
      PROVE  ToldInv'
  <2>1. Now' = Now
    BY <1>2, FeedSame DEF BlkInv
  <2>2. \A q \in Live' : ~ cut'[q] => QueueOK(told'[q], queue'[q], Now')
    BY <1>2, <2>1 DEF ToldInv, Uncut
  <2>. QED
    BY <1>2, <2>2 DEF ToldInv, Uncut
<1>3. CASE EndOfLog \/ UNCHANGED blkVars
  BY <1>2, <1>3 DEF EndOfLog, blkVars, Live
<1>4. ASSUME NEW q \in Queues, Finalize(q)
      PROVE  ToldInv'
  <2>1. \A p \in Live' : p \in Live /\ queue'[p] = queue[p]
    BY <1>4 DEF Live, Finalize, BlkInv, TypeOK
  <2>. QED
    BY <1>2, <1>4, <2>1 DEF Finalize
<1>. QED
  BY <1>1, <1>3, <1>4 DEF Next

(* What is told of one queue, in the words of the properties *)
LEMMA ToldProperties == BlkInv /\ ToldInv => TimesExact
<1>. SUFFICES ASSUME BlkInv, ToldInv, NEW q \in Live, ~ cut[q]
              PROVE  /\ queue[q].totalBlockedTime = Cardinality(UnitsIn(q, "BLOCKED"))
                     /\ queue[q].totalUnblockedTime = Cardinality(UnitsIn(q, "UNBLOCKED"))
  BY DEF TimesExact
<1>1. QueueOK(told[q], queue[q], Now)
  BY DEF ToldInv, Uncut
<1>2. CASE told[q] = << >>
  <2>1. \A state : UnitsIn(q, state) = {}
    BY <1>2 DEF UnitsIn, CountedUnits
  <2>2. queue[q].totalBlockedTime = 0 /\ queue[q].totalUnblockedTime = 0
    BY <1>1, <1>2 DEF QueueOK, InitState
  <2>. QED
    BY <2>1, <2>2, FS_EmptySet
<1>3. CASE told[q] # << >>
  <2>1. Spoke(q) = Spoken(told[q])
    BY DEF Spoke, Spoken
  <2>2. \A u : SaidAt(q, u) = Said(told[q], u)
    BY <2>1 DEF SaidAt, Said, SpokenBy
  <2>3. \A i : Following(q, i) = NextSaid(told[q], i)
    BY <2>1 DEF Following, NextSaid
  <2>4. \A u : StateAt(q, u) = StateIn(told[q], u)
    BY <2>2, <2>3 DEF StateAt, StateIn
  <2>5. \A state : UnitsIn(q, state) = Units(told[q], queue[q].lastNs, state)
    BY <1>3, <2>4 DEF UnitsIn, CountedUnits, Units
  <2>. QED
    BY <1>1, <1>3, <2>5 DEF QueueOK
<1>. QED
  BY <1>2, <1>3

-----------------------------------------------------------------------------
(* The file of a queue and its printed time, over any messages.  What a    *)
(* message adds to either side is the time it returns.                     *)
LEMMA AddedTime ==
    ASSUME NEW t \in Times, NEW a \in Times
    PROVE  Minus(Plus(t, a), t) = a /\ Minus(t, t) = 0
<1>1. Minus(t, t) = 0
  BY NsModulusAssumption DEF Minus, Times
<1>2. Minus(Plus(t, a), t) = Minus(t, t) + a
  BY <1>1, MinusLater, NsModulusAssumption DEF Times
<1>. QED
  BY <1>1, <1>2, NsModulusAssumption DEF Times

LEMMA PlusMoves ==
    ASSUME NEW a \in Times, NEW b \in Times, NEW c \in Times
    PROVE  /\ Plus(Plus(a, b), c) = Plus(Plus(a, c), b)
           /\ Plus(Plus(a, b), c) = Plus(a, Plus(b, c))
<1>1. Plus(Plus(a, b), Plus(c, 0)) = Plus(Plus(a, c), Plus(b, 0))
  BY PlusParts
<1>2. Plus(Plus(a, b), Plus(0, c)) = Plus(Plus(a, 0), Plus(b, c))
  BY PlusParts
<1>3. Plus(a, 0) = a /\ Plus(b, 0) = b /\ Plus(c, 0) = c /\ Plus(0, c) = c
  BY SmallRemainder
<1>. QED
  BY <1>1, <1>2, <1>3

(* The state whose time a message in this state adds to, if to any *)
TimedState(x, msg) == IF msg = "LOST_REC" THEN x.state
                      ELSE IF msg = "Q_BLOCKED" THEN "UNBLOCKED" ELSE "BLOCKED"

LEMMA AddsReturned ==
    ASSUME NEW x \in QueueStates, NEW msg \in Messages, NEW ev \in FeedRecord,
           NEW before \in Times
    PROVE  LET updated == UpdateState(x, msg, ev, before)
               wTime == TimeReturned(x, updated)
           IN /\ wTime \in Times
              /\ updated.totalBlockedTime
                   = Plus(x.totalBlockedTime,
                          IF TimedState(x, msg) = "BLOCKED" THEN wTime ELSE 0)
              /\ updated.totalUnblockedTime
                   = Plus(x.totalUnblockedTime,
                          IF TimedState(x, msg) = "UNBLOCKED" THEN wTime ELSE 0)
<1>. DEFINE updated == UpdateState(x, msg, ev, before)
            wTime == TimeReturned(x, updated)
            Adds(y) == /\ TimeReturned(x, y) \in Times
                       /\ y.totalBlockedTime
                            = Plus(x.totalBlockedTime,
                                   IF TimedState(x, msg) = "BLOCKED"
                                   THEN TimeReturned(x, y) ELSE 0)
                       /\ y.totalUnblockedTime
                            = Plus(x.totalUnblockedTime,
                                   IF TimedState(x, msg) = "UNBLOCKED"
                                   THEN TimeReturned(x, y) ELSE 0)
<1>. SUFFICES Adds(updated)
  OBVIOUS
<1>1. /\ x.totalBlockedTime \in Times /\ x.totalUnblockedTime \in Times
      /\ x.totalTime \in Times /\ x.lastNs \in Int
  BY DEF QueueStates
<1>2. /\ Plus(x.totalBlockedTime, 0) = x.totalBlockedTime
      /\ Plus(x.totalUnblockedTime, 0) = x.totalUnblockedTime
  BY <1>1, SmallRemainder
<1>3. ASSUME NEW y, /\ y.totalBlockedTime = x.totalBlockedTime
                    /\ y.totalUnblockedTime = x.totalUnblockedTime
                    /\ y.totalTime = x.totalTime
      PROVE  Adds(y)
  <2>1. TimeReturned(x, y) = 0
    BY <1>1, <1>3, AddedTime DEF TimeReturned
  <2>. QED
    BY <1>2, <1>3, <2>1, ZeroTime
<1>4. ASSUME NEW y, NEW state, NEW spent \in Times, NEW side \in {"BLOCKED", "UNBLOCKED"},
             TimedState(x, msg) = side,
             y = IF side = "BLOCKED" THEN Enter(x, state, ev, spent, 0)
                                     ELSE Enter(x, state, ev, 0, spent)
      PROVE  Adds(y)
  <2>1. Plus(spent, 0) = spent /\ Plus(0, spent) = spent
    BY SmallRemainder
  <2>2. y.totalTime = Plus(x.totalTime, spent)
    BY <1>4, <2>1 DEF Enter, QueueStates
  <2>3. TimeReturned(x, y) = spent
    BY <1>1, <2>2, AddedTime DEF TimeReturned
  <2>4. /\ y.totalBlockedTime
             = Plus(x.totalBlockedTime, IF side = "BLOCKED" THEN spent ELSE 0)
        /\ y.totalUnblockedTime
             = Plus(x.totalUnblockedTime, IF side = "UNBLOCKED" THEN spent ELSE 0)
    BY <1>4 DEF Enter, QueueStates
  <2>. QED
    BY <1>4, <2>3, <2>4
<1>5. /\ Minus(ev.ns, x.lastNs) \in Times /\ Minus(before, x.lastNs) \in Times
      /\ 0 \in Times
  <2>1. before \in Int
    BY DEF Times
  <2>2. ev.ns \in Int
    BY FeedAssumption DEF FeedRecord
  <2>. QED
    BY <1>1, <2>1, <2>2, MinusTime, ZeroTime
<1>6. CASE x.state = "INIT"
  <2>1. updated = UpdateInit(x, msg, ev)
    BY <1>6 DEF UpdateState
  <2>2. /\ updated.totalBlockedTime = x.totalBlockedTime
        /\ updated.totalUnblockedTime = x.totalUnblockedTime
        /\ updated.totalTime = x.totalTime
    BY <2>1 DEF UpdateInit, QueueStates
  <2>. HIDE DEF updated, Adds
  <2>. QED
    BY <1>3, <2>2
<1>7. CASE x.state \in {"BLOCKED", "UNBLOCKED"}
  <2>. DEFINE spent == IF msg # "LOST_REC" THEN Minus(ev.ns, x.lastNs)
                       ELSE IF before # 0 THEN Minus(before, x.lastNs) ELSE 0
  <2>1. updated = UpdateKnown(x, msg, ev, before) /\ spent \in Times
    BY <1>5, <1>7 DEF UpdateState
  <2>2. \/ updated = x
        \/ /\ TimedState(x, msg) = x.state
           /\ updated = IF x.state = "BLOCKED" THEN Enter(x, StateAfter(msg), ev, spent, 0)
                                               ELSE Enter(x, StateAfter(msg), ev, 0, spent)
    BY <1>7, <2>1 DEF UpdateKnown, TimedState, StateAfter, Messages
  <2>. HIDE DEF updated, spent, Adds
  <2>3. CASE updated = x
    BY <1>3, <2>3
  <2>. QED
    BY <1>4, <1>7, <2>1, <2>2, <2>3
<1>8. CASE x.state = "UNKNOWN"
  <2>. DEFINE spent == Minus(ev.ns, x.lastNs)
  <2>1. updated = UpdateUnknown(x, msg, ev) /\ spent \in Times
    BY <1>5, <1>8 DEF UpdateState
  <2>2. CASE msg = "LOST_REC"
    <3>1. updated = x \/ updated = Enter(x, "UNKNOWN", ev, 0, 0)
      BY <2>1, <2>2 DEF UpdateUnknown
    <3>2. Plus(0, 0) = 0 /\ Plus(x.totalTime, 0) = x.totalTime
      BY <1>1, SmallRemainder, ZeroTime
    <3>3. /\ updated.totalBlockedTime = x.totalBlockedTime
          /\ updated.totalUnblockedTime = x.totalUnblockedTime
          /\ updated.totalTime = x.totalTime
      BY <1>2, <3>1, <3>2 DEF Enter, QueueStates
    <3>. HIDE DEF updated, Adds
    <3>. QED
      BY <1>3, <3>3
  <2>3. CASE msg = "Q_BLOCKED"
    <3>1. updated = Enter(x, "BLOCKED", ev, 0, spent) /\ TimedState(x, msg) = "UNBLOCKED"
      BY <2>1, <2>3 DEF UpdateUnknown, TimedState
    <3>. HIDE DEF updated, spent, Adds
    <3>. QED
      BY <1>4, <2>1, <3>1
  <2>4. CASE msg = "Q_UNBLOCKED"
    <3>1. updated = Enter(x, "UNBLOCKED", ev, spent, 0) /\ TimedState(x, msg) = "BLOCKED"
      BY <2>1, <2>4 DEF UpdateUnknown, TimedState
    <3>. HIDE DEF updated, spent, Adds
    <3>. QED
      BY <1>4, <2>1, <3>1
  <2>. QED
    BY <2>2, <2>3, <2>4 DEF Messages
<1>. QED
  BY <1>6, <1>7, <1>8 DEF QueueStates

(* The time of a queue that its .dat file is about *)
Shown(q, x) == IF SampledState(q) = "UNBLOCKED" THEN x.totalUnblockedTime
                                                ELSE x.totalBlockedTime

InFileOrDropped(q) == Shown(q, queue[q]) = Plus(TimeInFile(dat[q]), credited[q])

SamplesInv == \A q \in Live : InFileOrDropped(q)

LEMMA TimeInFileAppend ==
    ASSUME NEW file \in Seq(Times), NEW w \in Times
    PROVE  /\ TimeInFile(file) \in Times
           /\ TimeInFile(Append(file, w)) = Plus(TimeInFile(file), w)
<1>. DEFINE sum == SumFunction(file)
<1>1. sum \in Nat /\ SumFunction(Append(file, w)) = sum + w
  BY SumAppend
<1>. HIDE DEF sum
<1>2. (sum + w) % NsModulus = ((sum % NsModulus) + w) % NsModulus
  <2>1. sum \in Int /\ w \in Int
    BY <1>1 DEF Times
  <2>. QED
    BY <2>1, WrapEarly
<1>3. sum % NsModulus \in Times
  BY <1>1, DivMod
<1>. QED
  BY <1>1, <1>2, <1>3 DEF TimeInFile, Plus, sum

(* One message to a queue: the time it returns for the state its file is   *)
(* about goes to the file, or is dropped.                                  *)
LEMMA SamplesStepOK ==
    ASSUME NEW q \in Queues, queue[q] \in QueueStates, dat[q] \in Seq(Times),
           credited[q] \in Times, InFileOrDropped(q),
           NEW msg \in Messages, NEW before \in Times, event' \in FeedRecord,
           queue'[q] = UpdateState(queue[q], msg, event', before),
           LET wTime == TimeReturned(queue[q], queue'[q])
           IN /\ dat'[q] = IF msg = SampledOn[q] /\ wTime # 0
                           THEN Append(dat[q], wTime) ELSE dat[q]
              /\ credited'[q] =
                   IF msg = "LOST_REC"
                   THEN Plus(credited[q],
                             IF queue[q].state = SampledState(q) THEN wTime ELSE 0)
                   ELSE credited[q]
    PROVE  InFileOrDropped(q)'
<1>. DEFINE x == queue[q]
            wTime == TimeReturned(x, queue'[q])
            time == TimeInFile(dat[q])
            timed == TimedState(x, msg) = SampledState(q)
            added == IF timed THEN wTime ELSE 0
<1>1. /\ wTime \in Times
      /\ queue'[q].totalBlockedTime
           = Plus(x.totalBlockedTime, IF TimedState(x, msg) = "BLOCKED" THEN wTime ELSE 0)
      /\ queue'[q].totalUnblockedTime
           = Plus(x.totalUnblockedTime, IF TimedState(x, msg) = "UNBLOCKED" THEN wTime ELSE 0)
  BY AddsReturned
<1>2. /\ dat'[q] = IF msg = SampledOn[q] /\ wTime # 0 THEN Append(dat[q], wTime) ELSE dat[q]
      /\ credited'[q] = IF msg = "LOST_REC"
                        THEN Plus(credited[q], IF x.state = SampledState(q) THEN wTime ELSE 0)
                        ELSE credited[q]
      /\ Shown(q, x) = Plus(time, credited[q])
  BY DEF InFileOrDropped
<1>3. time \in Times /\ TimeInFile(Append(dat[q], wTime)) = Plus(time, wTime)
  BY <1>1, TimeInFileAppend
<1>4. SampledOn[q] \in {"Q_BLOCKED", "Q_UNBLOCKED"}
  BY SampledOnAssumption
<1>5. SampledState(q) \in {"BLOCKED", "UNBLOCKED"}
  BY DEF SampledState
<1>. HIDE DEF wTime, time
<1>6. Shown(q, queue'[q]) = Plus(Shown(q, x), added)
  BY <1>1, <1>5 DEF Shown
<1>7. timed <=> \/ msg = "LOST_REC" /\ x.state = SampledState(q)
                \/ msg # "LOST_REC" /\ msg = SampledOn[q]
  BY <1>4 DEF TimedState, SampledState, Messages
<1>8. Plus(Plus(time, credited[q]), added) = Plus(TimeInFile(dat'[q]), credited'[q])
  <2>1. CASE msg = "LOST_REC"
    <3>1. dat'[q] = dat[q] /\ credited'[q] = Plus(credited[q], added)
      BY <1>2, <1>4, <1>7, <2>1
    <3>. HIDE DEF timed
    <3>2. added \in Times
      BY <1>1, ZeroTime
    <3>. HIDE DEF added
    <3>. QED
      BY <1>3, <3>1, <3>2, PlusMoves DEF time
  <2>2. CASE msg # "LOST_REC" /\ ~ timed
    <3>1. dat'[q] = dat[q] /\ credited'[q] = credited[q] /\ added = 0
      BY <1>2, <1>7, <2>2
    <3>2. Plus(time, credited[q]) \in Times
      BY <1>3, PlusCases
    <3>. QED
      BY <3>1, <3>2, SmallRemainder DEF time
  <2>3. CASE msg # "LOST_REC" /\ timed
    <3>1. credited'[q] = credited[q] /\ added = wTime
      BY <1>2, <2>3
    <3>2. TimeInFile(dat'[q]) = Plus(time, wTime)
      <4>1. CASE wTime # 0
        BY <1>2, <1>3, <1>7, <2>3, <4>1
      <4>2. CASE wTime = 0
        BY <1>2, <1>3, <4>2, SmallRemainder DEF time
      <4>. QED
        BY <4>1, <4>2
    <3>. QED
      BY <1>1, <1>3, <3>1, <3>2, PlusMoves
  <2>. QED
    BY <2>1, <2>2, <2>3
<1>9. Shown(q, queue'[q]) = Plus(TimeInFile(dat'[q]), credited'[q])
  BY <1>2, <1>6, <1>8
<1>. QED
  BY <1>9 DEF InFileOrDropped, Shown, SampledState, TimeInFile

LEMMA SamplesInit == Init => SamplesInv
<1>. SUFFICES ASSUME Init, NEW q \in Queues PROVE InFileOrDropped(q)
  BY DEF SamplesInv, Live
<1>1. SumFunction(<< >>) = 0
  <2>1. << >> \in Seq(Times)
    OBVIOUS
  <2>. QED
    BY <2>1, SumAppend, ZeroTime
<1>2. 0 % NsModulus = 0 /\ Plus(0, 0) = 0
  BY ZeroTime, SmallRemainder
<1>3. queue[q] = InitState /\ dat[q] = << >> /\ credited[q] = 0
  BY DEF Init
<1>. QED
  BY <1>1, <1>2, <1>3 DEF InFileOrDropped, Shown, InitState, TimeInFile

LEMMA SamplesRecordOK ==
    ASSUME BlkInv, SamplesInv, NEW cpu \in Cpus, NEW id \in EventIds, NEW ns \in 1 .. MaxNs,
           Record(cpu, id, ns)
    PROVE  SamplesInv'
<1>1. ~ended /\ Feed(cpu, id, ns) /\ event' \in FeedRecord
  BY FeedOK DEF Record, BlkInv
<1>2. queue \in [Queues -> QueueStates] /\ Live = Queues
  BY <1>1, LiveQueues, FreedAssumption DEF Live
<1>3. /\ dat \in [Queues -> Seq(Times)] /\ credited \in [Queues -> Times]
      /\ \A c \in DOMAIN lrt : lrt[c].lastNs2 \in Times
      /\ \A q \in Queues : InFileOrDropped(q)
  BY <1>2 DEF BlkInv, TypeOK, SamplesInv
<1>4. ASSUME NEW q \in Queues, queue'[q] = queue[q], dat'[q] = dat[q], credited'[q] = credited[q]
      PROVE  InFileOrDropped(q)'
  BY <1>3, <1>4 DEF InFileOrDropped, Shown, SampledState, TimeInFile
<1>5. ASSUME NEW p \in Queues, NEW msg \in {"Q_BLOCKED", "Q_UNBLOCKED"}, QueueHandler(p, msg),
             NEW q \in Queues
      PROVE  InFileOrDropped(q)'
  <2>. DEFINE wTime == TimeReturned(queue[p], queue'[p])
  <2>1. /\ queue' = [queue EXCEPT ![p] = UpdateState(queue[p], msg, event', 0)]
        /\ credited' = credited
    BY <1>5 DEF QueueHandler, SamplingHandler, PlainHandler, Update
  <2>2. dat' = IF msg = SampledOn[p] /\ wTime # 0 THEN [dat EXCEPT ![p] = Append(@, wTime)] ELSE dat
    BY <1>5 DEF QueueHandler, SamplingHandler, PlainHandler
  <2>. HIDE DEF wTime
  <2>3. CASE q # p
    BY <1>2, <1>3, <1>4, <2>1, <2>2, <2>3
  <2>4. CASE q = p
    <3>1. dat'[p] = IF msg = SampledOn[p] /\ wTime # 0 THEN Append(dat[p], wTime) ELSE dat[p]
      BY <1>3, <2>2
    <3>2. queue'[p] = UpdateState(queue[p], msg, event', 0) /\ credited'[p] = credited[p]
      BY <1>2, <2>1
    <3>3. /\ queue[p] \in QueueStates /\ dat[p] \in Seq(Times) /\ credited[p] \in Times
          /\ InFileOrDropped(p) /\ msg \in Messages /\ msg # "LOST_REC"
      BY <1>2, <1>3 DEF Messages
    <3>4. InFileOrDropped(p)'
      BY <1>1, <3>1, <3>2, <3>3, SamplesStepOK, ZeroTime DEF wTime
    <3>. QED
      BY <2>4, <3>4
  <2>. QED
    BY <2>3, <2>4
<1>6. ASSUME LostRecordsHandler, NEW q \in Queues
      PROVE  InFileOrDropped(q)'
  <2>. DEFINE before == EvBeforeLostRecordsNs(event'.cpu)
              wTime == TimeReturned(queue[q], queue'[q])
  <2>1. before \in Times
    BY <1>3, ZeroTime DEF EvBeforeLostRecordsNs
  <2>2. /\ queue'[q] = UpdateState(queue[q], "LOST_REC", event', before)
        /\ credited'[q] = Plus(credited[q], IF queue[q].state = SampledState(q)
                                            THEN wTime ELSE 0)
        /\ dat' = dat
    BY <1>6 DEF LostRecordsHandler
  <2>3. SampledOn[q] # "LOST_REC"
    BY SampledOnAssumption
  <2>4. /\ queue[q] \in QueueStates /\ dat[q] \in Seq(Times) /\ credited[q] \in Times
        /\ InFileOrDropped(q) /\ "LOST_REC" \in Messages
    BY <1>2, <1>3 DEF Messages
  <2>. HIDE DEF before
  <2>. QED
    BY <1>1, <2>1, <2>2, <2>3, <2>4, SamplesStepOK
<1>7. ASSUME UNCHANGED <<queue, dat, credited>>, NEW q \in Queues
      PROVE  InFileOrDropped(q)'
  BY <1>4, <1>7
<1>. QED
  BY <1>5, <1>6, <1>7 DEF Record, SamplesInv, Live

LEMMA SamplesStep == BlkInv /\ SamplesInv /\ [Next]_blkVars => SamplesInv'
<1>. SUFFICES ASSUME BlkInv, SamplesInv, [Next]_blkVars PROVE SamplesInv'
  OBVIOUS
<1>1. CASE \E cpu \in Cpus, id \in EventIds, ns \in 1 .. MaxNs : Record(cpu, id, ns)
  BY <1>1, SamplesRecordOK
<1>2. ASSUME UNCHANGED <<dat, credited>>, \A q \in Live' : q \in Live /\ queue'[q] = queue[q]
      PROVE  SamplesInv'
  BY <1>2 DEF SamplesInv, InFileOrDropped, Shown, SampledState, TimeInFile
<1>3. CASE EndOfLog \/ UNCHANGED blkVars
  BY <1>2, <1>3 DEF EndOfLog, blkVars, Live
<1>4. ASSUME NEW q \in Queues, Finalize(q)
      PROVE  SamplesInv'
  <2>1. \A p \in Live' : p \in Live /\ queue'[p] = queue[p]
    BY <1>4 DEF Live, Finalize, BlkInv, TypeOK
  <2>. QED
    BY <1>2, <1>4, <2>1 DEF Finalize
<1>. QED
  BY <1>1, <1>3, <1>4 DEF Next

-----------------------------------------------------------------------------
(* The histogram is the iteration of BucketData, which takes away the last *)
(* sample first.  After the samples at positions T each of their buckets   *)
(* has as many as there are of them in it.                                 *)
Buckets(g, s, w) ==
    g = [T \in SUBSET DOMAIN s |->
           IF T = {} THEN << >> ELSE BucketData(g[T \ {Max(T)}], s[Max(T)], w)]

InKey(s, T, w, key) == {i \in T : s[i] \div w = key}

Hits(s, T, w) ==
    [key \in {s[i] \div w : i \in T} |-> Cardinality(InKey(s, T, w, key))]

Counted(s, T, w) == IF T = {} THEN << >> ELSE Hits(s, T, w)

LEMMA MapIs ==
    ASSUME NEW file, NEW w, NEW x
    PROVE  MapWaitTimes(file, w, x)
             = (CHOOSE g : Buckets(g, Reads(file, x), w))[DOMAIN Reads(file, x)]
BY DEF MapWaitTimes, FoldLeft, MapThenFoldSet, Buckets

LEMMA MaxIn ==
    ASSUME NEW T, IsFiniteSet(T), T \subseteq Int, T # {}
    PROVE  Max(T) \in T
<1>1. PICK x \in T : \A y \in T : y <= x
  BY LargestElement
<1>. QED
  BY <1>1, ChosenLargest DEF Max

(* One more sample *)
LEMMA HitsAdd ==
    ASSUME NEW s, NEW w, NEW T, IsFiniteSet(T), NEW i \in T
    PROVE  Counted(s, T, w) = BucketData(Counted(s, T \ {i}, w), s[i], w)
<1>. DEFINE R == T \ {i}
            map == Counted(s, R, w)
            new == s[i] \div w
            In(U, key) == InKey(s, U, w, key)
<1>1. IsFiniteSet(R) /\ T = R \cup {i} /\ i \notin R
  BY FS_Subset
<1>2. \A key : IsFiniteSet(In(R, key)) /\ Cardinality(In(R, key)) \in Nat
  BY <1>1, FS_Subset, FS_CardinalityType DEF InKey
<1>3. In(T, new) = In(R, new) \cup {i} /\ i \notin In(R, new)
  BY <1>1 DEF InKey
<1>4. Cardinality(In(T, new)) = Cardinality(In(R, new)) + 1
  <2>. HIDE DEF In, new
  <2>. QED
    BY <1>2, <1>3, FS_AddElement
<1>5. ASSUME NEW key, key # new PROVE In(T, key) = In(R, key)
  BY <1>1, <1>5 DEF InKey
<1>6. DOMAIN map = {s[j] \div w : j \in R}
  BY DEF Counted, Hits
<1>7. \A key \in DOMAIN map : map[key] = Cardinality(In(R, key))
  BY <1>6 DEF Counted, Hits
<1>8. new \notin DOMAIN map => Cardinality(In(T, new)) = 1
  <2>1. new \notin DOMAIN map => In(R, new) = {}
    BY <1>6 DEF InKey
  <2>. HIDE DEF In, new, map
  <2>. QED
    BY <1>4, <2>1, FS_EmptySet
<1>9. {s[j] \div w : j \in T} = DOMAIN map \cup {new}
  BY <1>1, <1>6
<1>10. \A key \in DOMAIN map \cup {new} :
         Cardinality(In(T, key)) = IF key = new THEN IF new \in DOMAIN map THEN map[new] + 1 ELSE 1
                                                ELSE map[key]
  BY <1>4, <1>5, <1>7, <1>8
<1>11. Counted(s, T, w) = [key \in {s[j] \div w : j \in T} |-> Cardinality(In(T, key))]
  BY DEF Counted, Hits
<1>. HIDE DEF In, map, new
<1>12. Counted(s, T, w)
         = [key \in DOMAIN map \cup {new} |->
              IF key = new THEN IF new \in DOMAIN map THEN map[new] + 1 ELSE 1 ELSE map[key]]
  BY <1>9, <1>10, <1>11
<1>. QED
  BY <1>12 DEF BucketData, Put, map, new

LEMMA BucketsAre ==
    ASSUME NEW s, NEW w, IsFiniteSet(DOMAIN s), DOMAIN s \subseteq Int
    PROVE  (CHOOSE g : Buckets(g, s, w))[DOMAIN s] = Counted(s, DOMAIN s, w)
<1>. DEFINE h == [T \in SUBSET DOMAIN s |-> Counted(s, T, w)]
            g == CHOOSE f : Buckets(f, s, w)
<1>1. ASSUME NEW T \in SUBSET DOMAIN s, T # {}
      PROVE  /\ Max(T) \in T /\ T \ {Max(T)} \in SUBSET DOMAIN s
             /\ Counted(s, T, w) = BucketData(Counted(s, T \ {Max(T)}, w), s[Max(T)], w)
  BY <1>1, FS_Subset, MaxIn, HitsAdd
<1>2. Buckets(h, s, w)
  <2>1. ASSUME NEW T \in SUBSET DOMAIN s
        PROVE  Counted(s, T, w)
                 = IF T = {} THEN << >> ELSE BucketData(h[T \ {Max(T)}], s[Max(T)], w)
    BY <1>1 DEF Counted
  <2>. QED
    BY <2>1 DEF Buckets
<1>3. Buckets(g, s, w)
  BY <1>2
<1>. HIDE DEF g
<1>. DEFINE Bad == {T \in SUBSET DOMAIN s : g[T] # Counted(s, T, w)}
<1>. SUFFICES ASSUME Bad # {} PROVE FALSE
  BY DEF g
<1>4. PICK T \in Bad : \A U \in Bad : U \subseteq T => U = T
  <2>1. Bad \in SUBSET (SUBSET DOMAIN s)
    OBVIOUS
  <2>. HIDE DEF Bad
  <2>. QED
    BY <2>1, MinimalSubset
<1>5. T \in SUBSET DOMAIN s /\ g[T] # Counted(s, T, w)
  OBVIOUS
<1>6. g[T] = IF T = {} THEN << >> ELSE BucketData(g[T \ {Max(T)}], s[Max(T)], w)
  BY <1>3, <1>5 DEF Buckets
<1>7. T # {}
  BY <1>5, <1>6 DEF Counted
<1>8. T \ {Max(T)} # T /\ T \ {Max(T)} \in SUBSET DOMAIN s
  BY <1>1, <1>5, <1>7
<1>9. g[T \ {Max(T)}] = Counted(s, T \ {Max(T)}, w)
  BY <1>4, <1>8
<1>. QED
  BY <1>1, <1>5, <1>6, <1>7, <1>9

(* The histogram of a file, by the value bucketed after the last sample    *)
LEMMA HistogramIs ==
    ASSUME NEW file \in Seq(Times), NEW w \in Nat \ {0}, NEW last \in Times
    PROVE  LET map == MapWaitTimes(file, w, last)
           IN /\ DOMAIN map = {t \div w : t \in {file[i] : i \in DOMAIN file} \cup {last}}
              /\ \A key \in Nat :
                   (IF key \in DOMAIN map THEN map[key] ELSE 0)
                     = Cardinality(Within(file, w, key)) + (IF last \div w = key THEN 1 ELSE 0)
<1>. DEFINE n == Len(file)
            s == Reads(file, last)
            map == MapWaitTimes(file, w, last)
            In(key) == InKey(s, DOMAIN s, w, key)
<1>1. /\ n \in Nat /\ DOMAIN file = 1 .. n /\ (n = 0 <=> file = << >>)
      /\ \A i \in 1 .. n : file[i] \in Times
  OBVIOUS
<1>2. s = Append(file, last)
  BY DEF Reads
<1>4. DOMAIN s = 1 .. (n + 1) /\ s[n + 1] = last /\ \A i \in 1 .. n : s[i] = file[i]
  BY <1>1, <1>2
<1>5. map = Hits(s, DOMAIN s, w)
  <2>1. IsFiniteSet(DOMAIN s) /\ DOMAIN s \subseteq Int /\ DOMAIN s # {}
    <3>1. IsFiniteSet(1 .. (n + 1)) /\ 1 .. (n + 1) \subseteq Int /\ 1 \in 1 .. (n + 1)
      BY <1>1, FS_Interval
    <3>. QED
      BY <1>4, <3>1
  <2>. QED
    BY <2>1, MapIs, BucketsAre DEF Counted
<1>. HIDE DEF s, n, map
<1>6. DOMAIN map = {s[i] \div w : i \in 1 .. (n + 1)}
  BY <1>4, <1>5 DEF Hits
<1>7. DOMAIN map = {t \div w : t \in {file[i] : i \in DOMAIN file} \cup {last}}
  <2>1. 1 .. (n + 1) = 1 .. n \cup {n + 1}
    BY <1>1
  <2>. QED
    BY <1>1, <1>4, <1>6, <2>1
<1>8. ASSUME NEW key \in Nat
      PROVE  (IF key \in DOMAIN map THEN map[key] ELSE 0)
               = Cardinality(Within(file, w, key)) + (IF last \div w = key THEN 1 ELSE 0)
  <2>1. IsFiniteSet(Within(file, w, key)) /\ Cardinality(Within(file, w, key)) \in Nat
    <3>1. IsFiniteSet(1 .. n) /\ Within(file, w, key) \subseteq 1 .. n
      BY <1>1, FS_Interval DEF Within
    <3>. QED
      BY <3>1, FS_Subset, FS_CardinalityType
  <2>2. ASSUME NEW i \in 1 .. n
        PROVE  i \in Within(file, w, key) <=> file[i] \div w = key
    <3>1. file[i] \in Nat
      BY <1>1 DEF Times
    <3>2. /\ file[i] \div w \in Nat
          /\ file[i] >= key * w <=> key <= file[i] \div w
          /\ file[i] < (key + 1) * w <=> file[i] \div w <= key
      BY <3>1, DividesBetween
    <3>3. i \in Within(file, w, key) <=> file[i] >= key * w /\ file[i] < (key + 1) * w
      <4>1. key * w \in Nat
        OBVIOUS
      <4>. QED
        BY <1>1, <3>1, <4>1 DEF Within
    <3>. QED
      BY <3>2, <3>3
  <2>3. Within(file, w, key) = {i \in 1 .. n : file[i] \div w = key}
    BY <1>1, <2>2 DEF Within
  <2>4. In(key) = Within(file, w, key) \cup (IF last \div w = key THEN {n + 1} ELSE {})
    BY <1>1, <1>4, <2>3 DEF InKey
  <2>5. n + 1 \notin Within(file, w, key)
    BY <1>1, <2>3
  <2>6. Cardinality(In(key))
          = Cardinality(Within(file, w, key)) + (IF last \div w = key THEN 1 ELSE 0)
    <3>. HIDE DEF In
    <3>1. CASE last \div w = key
      BY <2>1, <2>4, <2>5, <3>1, FS_AddElement
    <3>2. CASE last \div w # key
      BY <2>1, <2>4, <3>2
    <3>. QED
      BY <3>1, <3>2
  <2>7. key \notin DOMAIN map => In(key) = {}
    BY <1>4, <1>6 DEF InKey
  <2>8. key \in DOMAIN map => map[key] = Cardinality(In(key))
    BY <1>5, <1>6 DEF Hits
  <2>. QED
    BY <2>6, <2>7, <2>8, FS_EmptySet
<1>. QED
  BY <1>7, <1>8 DEF map

-----------------------------------------------------------------------------
(* The variables of queues and waits keep their types: sums stay within    *)
(* unsigned 64 bits, and no handler reads a queue that was freed.          *)
THEOREM BlkTypeCorrect == IoSpec => []IoTypeOK
<1>1. IoInit => BlkInv
  BY InitOK, IoInitQueues
<1>2. BlkInv /\ WaitInv /\ [IoNext]_ioVars => BlkInv' /\ WaitInv'
  BY StepOK, IoStepQueues, IoStepWaits
<1>. QED
  BY <1>1, <1>2, IoInitWaits, WaitTypes, PTL DEF IoSpec

(* Blocked and unblocked time of a queue make up its total, whatever the   *)
(* messages, lost records and garbage stamps were.                         *)
THEOREM BlkTimesAddUp == IoSpec => []TimesAddUp
<1>1. IoInit => BlkInv
  BY InitOK, IoInitQueues
<1>2. BlkInv /\ [IoNext]_ioVars => BlkInv'
  BY StepOK, IoStepQueues
<1>3. BlkInv => TimesAddUp
  BY DEF BlkInv
<1>. QED
  BY <1>1, <1>2, <1>3, PTL DEF IoSpec

(* The time reported lost on a CPU fits in the time from the first record  *)
(* of the log on: gaps of a CPU do not overlap, and their lengths never    *)
(* wrap around.                                                            *)
THEOREM BlkLostTimeFits == IoSpec => []LostTimeFits
<1>1. IoInit => BlkInv /\ LostInv
  BY InitOK, IoInitQueues DEF Init, FeedInit, LostInv
<1>2. BlkInv /\ LostInv /\ [IoNext]_ioVars => BlkInv' /\ LostInv'
  BY StepOK, LostStep, IoStepQueues
<1>. QED
  BY <1>1, <1>2, LostFits, PTL DEF IoSpec

(* The blocked and unblocked times of a queue are exact, as long as no     *)
(* lost record of its own CPU intervened: each is the length of the stays  *)
(* its messages tell of.                                                   *)
THEOREM BlkTimesExact == IoSpec => []TimesExact
<1>1. IoInit => BlkInv /\ ToldInv
  BY InitOK, IoInitQueues, ToldInit
<1>2. BlkInv /\ ToldInv /\ [IoNext]_ioVars => BlkInv' /\ ToldInv'
  BY StepOK, IoStepQueues, ToldStep
<1>. QED
  BY <1>1, <1>2, ToldProperties, PTL DEF IoSpec

(* The .dat file of a queue has all the time that is printed of the state  *)
(* it is about, but for what lost records returned, whatever the log.      *)
THEOREM BlkSamplesAgree == IoSpec => []SamplesAgree
<1>1. IoInit => BlkInv /\ SamplesInv
  BY InitOK, IoInitQueues, SamplesInit
<1>2. BlkInv /\ SamplesInv /\ [IoNext]_ioVars => BlkInv' /\ SamplesInv'
  BY StepOK, IoStepQueues, SamplesStep
<1>3. SamplesInv => SamplesAgree
  BY DEF SamplesInv, InFileOrDropped, Shown, SamplesAgree
<1>. QED
  BY <1>1, <1>2, <1>3, PTL DEF IoSpec

(* The wait time printed is the time during which an interrupt that was    *)
(* answered was outstanding, however interrupts repeat or are missing.     *)
THEOREM BlkWaitsExact == IoSpec => []WaitsExact
<1>1. IoInit => BlkInv /\ WaitInv /\ ChannelsInv
  BY InitOK, IoInitQueues, IoInitWaits, ChannelsInit
<1>2. BlkInv /\ WaitInv /\ ChannelsInv /\ [IoNext]_ioVars
        => BlkInv' /\ WaitInv' /\ ChannelsInv'
  BY StepOK, IoStepQueues, IoStepWaits, ChannelsStep
<1>3. ChannelsInv => WaitsExact
  <2>. SUFFICES ASSUME ChannelsInv, NEW ch \in Channels
                PROVE  wdat[ch].totalWaitTime
                         = Cardinality({u \in 1 .. MaxNs : Wait!Outstanding(ch, u)})
    BY DEF WaitsExact, Wait!WaitsExact, Wait!Cardinality, Cardinality
  <2>1. \A u \in 1 .. MaxNs : Wait!Outstanding(ch, u) <=> Answered(heard[ch], u)
    BY DEF Wait!Outstanding, Answered
  <2>2. {u \in 1 .. MaxNs : Wait!Outstanding(ch, u)} = Owed(heard[ch])
    BY <2>1 DEF Owed
  <2>. QED
    BY <2>2 DEF ChannelsInv, ChannelOK
<1>. QED
  BY <1>1, <1>2, <1>3, PTL DEF IoSpec

(* The .dat file of a channel has all the time that is printed.            *)
THEOREM BlkWaitSamplesAgree == IoSpec => []WaitSamplesAgree
<1>1. IoInit => BlkInv /\ WaitInv /\ ChannelsInv
  BY InitOK, IoInitQueues, IoInitWaits, ChannelsInit
<1>2. BlkInv /\ WaitInv /\ ChannelsInv /\ [IoNext]_ioVars
        => BlkInv' /\ WaitInv' /\ ChannelsInv'
  BY StepOK, IoStepQueues, IoStepWaits, ChannelsStep
<1>3. WaitInv /\ ChannelsInv => WaitSamplesAgree
  <2>. SUFFICES ASSUME WaitInv, ChannelsInv, NEW ch \in Channels
                PROVE  wdat[ch].totalWaitTime = Wait!SumFunction(waitDat[ch]) % NsModulus
    BY DEF WaitSamplesAgree, Wait!SamplesAgree
  <2>1. Wait!SumFunction(waitDat[ch]) = SumFunction(waitDat[ch])
    BY DEF Wait!SumFunction, Wait!SumFunctionOnSet, Wait!FoldFunctionOnSet,
           Wait!MapThenFoldSet, SumFunction, SumFunctionOnSet, FoldFunctionOnSet,
           MapThenFoldSet
  <2>2. wdat[ch].totalWaitTime \in Times /\ SumFunction(waitDat[ch]) = wdat[ch].totalWaitTime
    BY DEF WaitInv, WaitData, ChannelsInv, ChannelOK
  <2>3. \A x \in Times : x = x % NsModulus
    BY NsModulusAssumption DEF Times
  <2>. QED
    BY <2>1, <2>2, <2>3
<1>. QED
  BY <1>1, <1>2, <1>3, PTL DEF IoSpec

(* The waits settle each moment of a channel once: they implement the      *)
(* ledger, and inherit what it promises.                                   *)
THEOREM BlkWaitsImplementLedger == IoSpec => WaitsImplementLedger
<1>1. IoInit => BlkInv /\ WaitInv /\ ChannelsInv /\ Wait!Ledger!Init
  BY InitOK, IoInitQueues, IoInitWaits, ChannelsInit
<1>2. BlkInv /\ WaitInv /\ ChannelsInv /\ [IoNext]_ioVars
        => /\ BlkInv' /\ WaitInv' /\ ChannelsInv'
           /\ [Wait!Ledger!Next]_(Wait!Ledger!ledgerVars)
  BY StepOK, IoStepQueues, IoStepWaits, ChannelsStep
<1>. QED
  BY <1>1, <1>2, PTL DEF IoSpec, WaitsImplementLedger, Wait!ImplementsLedger, Wait!Ledger!Spec

(* The wait time printed for a channel fits in the time the channel was    *)
(* observed: no moment of it is counted twice.                             *)
THEOREM BlkWaitsCountOnce == IoSpec => []Wait!Ledger!CountedOnce
<1>1. IoInit => BlkInv /\ WaitInv /\ ChannelsInv
  BY InitOK, IoInitQueues, IoInitWaits, ChannelsInit
<1>2. BlkInv /\ WaitInv /\ ChannelsInv /\ [IoNext]_ioVars
        => BlkInv' /\ WaitInv' /\ ChannelsInv'
  BY StepOK, IoStepQueues, IoStepWaits, ChannelsStep
<1>3. ChannelsInv => Wait!Ledger!CountedOnce
  <2>. SUFFICES ASSUME ChannelsInv, NEW ch \in Channels, heard[ch] # << >>
                PROVE  /\ wdat[ch].totalWaitTime >= 0
                       /\ wdat[ch].totalWaitTime <= wdat[ch].lastNs - heard[ch][1].ns
                       /\ wdat[ch].lastNs <= Now
    BY DEF Wait!Ledger!CountedOnce, Now
  <2>1. ChannelOK(heard[ch], wdat[ch], waitDat[ch], Now)
    BY DEF ChannelsInv
  <2>2. PICK s : RunStart(heard[ch], s) /\ wdat[ch].lastNs = heard[ch][s].ns
    BY <2>1 DEF ChannelOK
  <2>3. heard[ch][s].ns <= Now
    BY <2>1, <2>2 DEF ChannelOK, InOrder, RunStart
  <2>4. wdat[ch].totalWaitTime \in Nat
    <3>1. IsFiniteSet(1 .. MaxNs)
      BY FS_Interval, FeedAssumption
    <3>2. Owed(heard[ch]) \subseteq 1 .. MaxNs
      BY DEF Owed
    <3>. QED
      BY <2>1, <3>1, <3>2, FS_Subset, FS_CardinalityType DEF ChannelOK
  <2>. QED
    BY <2>1, <2>2, <2>3, <2>4 DEF ChannelOK
<1>. QED
  BY <1>1, <1>2, <1>3, PTL DEF IoSpec

(* The histogram of a .dat file has each sample in the bucket within whose *)
(* printed bounds it lies, and at most one hit that no sample made,        *)
(* whatever the last read left to be bucketed.                             *)
THEOREM BlkHistogramHasSamples == IoSpec => []HistogramHasSamples
<1>1. IoInit => BlkInv
  BY InitOK, IoInitQueues
<1>2. BlkInv /\ WaitInv /\ [IoNext]_ioVars => BlkInv' /\ WaitInv'
  BY StepOK, IoStepQueues, IoStepWaits
<1>3. BlkInv /\ WaitInv => HistogramHasSamples
  <2>. SUFFICES ASSUME BlkInv, WaitInv,
                       NEW file \in Files, NEW bucket \in BucketSizes, NEW leftover \in Times
                PROVE  LET map == MapWaitTimes(file, bucket, leftover)
                           keys == DOMAIN map \cup {t \div bucket : t \in Times}
                           hits(key) == IF key \in DOMAIN map THEN map[key] ELSE 0
                           samples(key) == Cardinality(Within(file, bucket, key))
                       IN \E stray \in keys :
                            \A key \in keys :
                              /\ samples(key) <= hits(key)
                              /\ hits(key) <= samples(key) + (IF key = stray THEN 1 ELSE 0)
    BY DEF HistogramHasSamples
  <2>1. file \in Seq(Times) /\ bucket \in Nat \ {0}
    BY BucketSizesAssumption DEF Files, BlkInv, TypeOK, WaitInv
  <2>. DEFINE map == MapWaitTimes(file, bucket, leftover)
              keys == DOMAIN map \cup {t \div bucket : t \in Times}
              hits(key) == IF key \in DOMAIN map THEN map[key] ELSE 0
              samples(key) == Cardinality(Within(file, bucket, key))
              stray == leftover \div bucket
  <2>2. /\ DOMAIN map = {t \div bucket : t \in {file[i] : i \in DOMAIN file} \cup {leftover}}
        /\ \A key \in Nat : hits(key) = samples(key) + (IF stray = key THEN 1 ELSE 0)
    BY <2>1, HistogramIs
  <2>3. \A t \in Times : t \div bucket \in Nat
    BY <2>1, DividesBetween DEF Times
  <2>4. \A i \in DOMAIN file : file[i] \in Times
    BY <2>1
  <2>5. keys \subseteq Nat /\ stray \in keys
    <3>. HIDE DEF map
    <3>. QED
      BY <2>2, <2>3, <2>4
  <2>6. \A key \in Nat : samples(key) \in Nat
    <3>1. \A key : Within(file, bucket, key) \subseteq DOMAIN file
      BY DEF Within
    <3>2. IsFiniteSet(DOMAIN file)
      BY <2>1, FS_Interval
    <3>. QED
      BY <3>1, <3>2, FS_Subset, FS_CardinalityType
  <2>. HIDE DEF map, stray, keys, hits, samples
  <2>7. \A key \in keys : /\ samples(key) <= hits(key)
                         /\ hits(key) <= samples(key) + (IF key = stray THEN 1 ELSE 0)
    BY <2>2, <2>5, <2>6
  <2>8. \E x \in keys : \A key \in keys :
          /\ samples(key) <= hits(key)
          /\ hits(key) <= samples(key) + (IF key = x THEN 1 ELSE 0)
    BY <2>5, <2>7
  <2>. QED
    BY <2>8 DEF map, keys, hits, samples
<1>. QED
  BY <1>1, <1>2, <1>3, IoInitWaits, PTL DEF IoSpec
=============================================================================
