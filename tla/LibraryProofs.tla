--------------------------- MODULE LibraryProofs ---------------------------
(***************************************************************************)
(* The library, for any set of handlers, event ids and CPUs, any number of *)
(* slots and logs of any length.  The event log hands out every record     *)
(* once and in time order, and implements EventStream and EventFeed; who   *)
(* is called back, for which records and in which order; and the windows   *)
(* and totals of the CPUs are those of the log.                            *)
(***************************************************************************)
EXTENDS ReaderProperties, FiniteSetTheorems, WellFoundedInduction, TLAPS

(* What holds of the array besides its type: it is the file, reordered by  *)
(* time; records not handed out have no lastNs yet; the caller's buffer    *)
(* holds the record handed out last.                                       *)
Reordered ==
    /\ \A i \in 0 .. numEvents - 1 :
         /\ eventList[i].tsc \in 1 .. numEvents
         /\ eventList[i].cpu = file[eventList[i].tsc].cpu
         /\ eventList[i].event_id = file[eventList[i].tsc].event_id
         /\ eventList[i].ns = file[eventList[i].tsc].ns
    /\ \A i, j \in 0 .. numEvents - 1 :
         eventList[i].tsc = eventList[j].tsc => i = j
    /\ \A pos \in 1 .. numEvents : \E i \in 0 .. numEvents - 1 : eventList[i].tsc = pos

Progress ==
    /\ \A i \in eventCount .. numEvents - 1 : eventList[i].lastNs = 0
    /\ ~open => event = NoEvent /\ ret = SUCCESS
    /\ ret = FAIL => eventCount = numEvents
    /\ event # NoEvent => eventCount > 0 /\ event = eventList[eventCount - 1]

LogInv == /\ LogTypeOK
          /\ Reordered
          /\ IsSorted(eventList, numEvents)
          /\ Progress
          /\ GapNotNegative

(* A log file is a sequence of at most MaxRecords records. *)
LEMMA FileType ==
    ASSUME file \in Files
    PROVE  /\ Len(file) \in 0 .. MaxRecords
           /\ file \in [1 .. Len(file) -> TraceRecord]
<1>1. PICK n \in 0 .. MaxRecords : file \in [1 .. n -> TraceRecord]
  BY DEF Files
<1>2. n \in Nat /\ file \in Seq(TraceRecord) /\ Len(file) = n
  BY <1>1, MaxRecordsAssumption
<1>. QED
  BY <1>1, <1>2

(* What parse_next_event makes of a record of the file. *)
LEMMA ParsedType ==
    ASSUME file \in Files, NEW pos \in 1 .. Len(file)
    PROVE  /\ ParseNextEvent(pos) \in Event
           /\ ParseNextEvent(pos).tsc = pos
           /\ ParseNextEvent(pos).lastNs = 0
           /\ Bare(ParseNextEvent(pos)) = ParseNextEvent(pos)
<1>1. /\ Len(file) \in 0 .. MaxRecords
      /\ file[pos] \in TraceRecord
  BY FileType
<1>2. pos \in 1 .. MaxRecords /\ 0 \in 0 .. MaxNs
  BY <1>1, MaxRecordsAssumption, MaxNsAssumption
<1>3. ParseNextEvent(pos) \in Event
  BY <1>1, <1>2 DEF ParseNextEvent, Event, TraceRecord
<1>. QED
  BY <1>3 DEF ParseNextEvent, Bare, Event

LEMMA LogInvInit == LogInit => LogInv
<1>. SUFFICES ASSUME LogInit PROVE LogInv
  OBVIOUS
<1>1. 0 .. numEvents - 1 = {} /\ eventCount .. numEvents - 1 = {} /\ 1 .. numEvents = {}
  BY DEF LogInit
<1>2. eventList \in [0 .. numEvents - 1 -> Event]
  BY <1>1 DEF LogInit
<1>3. LogTypeOK
  <2>1. /\ file \in Files /\ open \in BOOLEAN
        /\ event \in Event \cup {NoEvent} /\ ret \in {SUCCESS, FAIL}
    BY DEF LogInit
  <2>2. ~open /\ numEvents = 0 /\ eventCount \in 0 .. numEvents
    BY DEF LogInit
  <2>. QED
    BY <1>2, <2>1, <2>2 DEF LogTypeOK
<1>. QED
  BY <1>1, <1>3 DEF LogInit, LogInv, Reordered, IsSorted, Progress, GapNotNegative,
                    SUCCESS, FAIL

LEMMA SortKeepsInv == LogInv /\ SortEventsByNs => LogInv'
<1>. SUFFICES ASSUME LogInv, SortEventsByNs PROVE LogInv'
  OBVIOUS
<1>. DEFINE n == Len(file)
<1>1. n \in 0 .. MaxRecords /\ n \in Nat /\ numEvents' = n
  BY FileType, MaxRecordsAssumption DEF LogInv, LogTypeOK, SortEventsByNs
<1>2. PICK position \in Bijection(0 .. n-1, 1 .. n) :
        eventList' = [i \in 0 .. n-1 |-> ParseNextEvent(position[i])]
  BY DEF SortEventsByNs
<1>3. /\ position \in [0 .. n-1 -> 1 .. n]
      /\ \A i, j \in 0 .. n-1 : position[i] = position[j] => i = j
      /\ \A pos \in 1 .. n : \E i \in 0 .. n-1 : position[i] = pos
  BY <1>2 DEF Bijection, Injection, Surjection, IsInjective
<1>4. \A i \in 0 .. n-1 : /\ eventList'[i] = ParseNextEvent(position[i])
                          /\ eventList'[i] \in Event
                          /\ eventList'[i].tsc = position[i]
                          /\ eventList'[i].lastNs = 0
  BY <1>2, <1>3, ParsedType DEF LogInv, LogTypeOK
<1>5. eventCount = 0 /\ event = NoEvent /\ ret = SUCCESS
  BY DEF LogInv, LogTypeOK, Progress, SortEventsByNs
<1>6. LogTypeOK'
  <2>1. eventList' \in [0 .. n-1 -> Event]
    BY <1>2, <1>4
  <2>. QED
    BY <1>1, <1>5, <2>1 DEF LogInv, LogTypeOK, SortEventsByNs
<1>7. Reordered'
  <2>1. ASSUME NEW i \in 0 .. n-1
        PROVE  /\ eventList'[i].tsc \in 1 .. n
               /\ eventList'[i].cpu = file[eventList'[i].tsc].cpu
               /\ eventList'[i].event_id = file[eventList'[i].tsc].event_id
               /\ eventList'[i].ns = file[eventList'[i].tsc].ns
    <3>. DEFINE p == position[i]
    <3>1. /\ ParseNextEvent(p).cpu = file[p].cpu
          /\ ParseNextEvent(p).event_id = file[p].event_id
          /\ ParseNextEvent(p).ns = file[p].ns
      BY DEF ParseNextEvent
    <3>2. eventList'[i] = ParseNextEvent(p) /\ eventList'[i].tsc = p
      BY <1>4
    <3>3. p \in 1 .. n
      BY <1>3
    <3>. HIDE DEF p
    <3>. QED
      BY <3>1, <3>2, <3>3
  <2>2. ASSUME NEW i \in 0 .. n-1, NEW j \in 0 .. n-1,
               eventList'[i].tsc = eventList'[j].tsc
        PROVE  i = j
    <3>1. position[i] = position[j]
      BY <1>4, <2>2
    <3>. QED
      BY <1>3, <3>1
  <2>3. ASSUME NEW pos \in 1 .. n
        PROVE  \E i \in 0 .. n-1 : eventList'[i].tsc = pos
    <3>1. PICK i \in 0 .. n-1 : position[i] = pos
      BY <1>3
    <3>. QED
      BY <1>4, <3>1
  <2>. HIDE DEF n
  <2>4. file' = file
    BY DEF SortEventsByNs
  <2>. QED
    BY <1>1, <2>1, <2>2, <2>3, <2>4 DEF Reordered
<1>8. IsSorted(eventList, numEvents)'
  BY <1>1 DEF SortEventsByNs, IsSorted
<1>9. Progress'
  BY <1>1, <1>4, <1>5 DEF Progress, SortEventsByNs, SUCCESS, FAIL
<1>10. GapNotNegative'
  BY <1>5 DEF GapNotNegative, SortEventsByNs
<1>. QED
  BY <1>6, <1>7, <1>8, <1>9, <1>10 DEF LogInv

(* The stamp stored in lastNs is that of an earlier record, or 0. *)
LEMMA LastNsBound ==
    ASSUME LogInv, eventCount < numEvents
    PROVE  /\ LastNs(eventCount) \in 0 .. MaxNs
           /\ LastNs(eventCount) <= eventList[eventCount].ns
<1>. DEFINE k == eventCount
<1>1. /\ numEvents \in Nat /\ k \in 0 .. numEvents - 1
      /\ \A i \in 0 .. numEvents - 1 : eventList[i] \in Event
      /\ eventList[k].lastNs = 0
  <2>1. /\ numEvents \in Nat /\ k \in 0 .. numEvents - 1
        /\ eventList \in [0 .. numEvents - 1 -> Event]
    BY FileType, MaxRecordsAssumption DEF LogInv, LogTypeOK
  <2>. QED
    BY <2>1 DEF LogInv, Progress
<1>2. \A i \in 0 .. k : /\ eventList[i].ns \in 1 .. MaxNs
                        /\ eventList[i].ns <= eventList[k].ns
  BY <1>1 DEF LogInv, IsSorted, Event
<1>. HIDE DEF k
<1>3. CASE k = 0 \/ \E j \in 1 .. k-1 : IsPrevious(j, k) /\ j = 1
                                        /\ j = CHOOSE i \in 1 .. k-1 : IsPrevious(i, k)
  BY <1>1, <1>2, <1>3, MaxNsAssumption DEF LastNs, k
<1>4. CASE k # 0 /\ ~\E j \in 1 .. k-1 : IsPrevious(j, k)
  BY <1>1, <1>2, <1>4, MaxNsAssumption DEF LastNs, k
<1>5. CASE \E j \in 1 .. k-1 : IsPrevious(j, k)
  <2>. DEFINE j == CHOOSE j \in 1 .. k-1 : IsPrevious(j, k)
  <2>1. j \in 1 .. k-1 /\ k # 0
    BY <1>1, <1>5
  <2>2. LastNs(k) = IF j = 1 THEN eventList[k].lastNs ELSE eventList[j].ns
    BY <1>5, <2>1 DEF LastNs
  <2>. HIDE DEF j
  <2>3. eventList[j].ns \in 1 .. MaxNs /\ eventList[j].ns <= eventList[k].ns
    BY <1>1, <1>2, <2>1
  <2>. QED
    BY <1>1, <1>2, <2>2, <2>3, MaxNsAssumption DEF k
<1>. QED
  BY <1>3, <1>4, <1>5

LEMMA ReturnKeepsInv == LogInv /\ ReturnNextEvent => LogInv'
<1>. SUFFICES ASSUME LogInv, ReturnNextEvent PROVE LogInv'
  OBVIOUS
<1>. DEFINE k == eventCount
            L == LastNs(k)
<1>1. /\ numEvents \in Nat /\ k \in 0 .. numEvents - 1
      /\ eventList \in [0 .. numEvents - 1 -> Event]
      /\ numEvents' = numEvents /\ eventCount' = k + 1 /\ file' = file /\ open' = open
      /\ open /\ ret' = SUCCESS
  BY FileType, MaxRecordsAssumption DEF LogInv, LogTypeOK, ReturnNextEvent
<1>2. L \in 0 .. MaxNs /\ L <= eventList[k].ns
  BY LastNsBound DEF ReturnNextEvent
<1>3. eventList' = [eventList EXCEPT ![k] = [eventList[k] EXCEPT !.lastNs = L]]
  BY DEF ReturnNextEvent
<1>. HIDE DEF L
<1>4. /\ eventList' \in [0 .. numEvents - 1 -> Event]
      /\ eventList'[k].lastNs = L
      /\ \A i \in 0 .. numEvents - 1 :
           /\ i # k => eventList'[i] = eventList[i]
           /\ eventList'[i].cpu = eventList[i].cpu
           /\ eventList'[i].event_id = eventList[i].event_id
           /\ eventList'[i].ns = eventList[i].ns
           /\ eventList'[i].tsc = eventList[i].tsc
  BY <1>1, <1>2, <1>3 DEF Event
<1>5. event' = eventList'[k]
  BY DEF ReturnNextEvent
<1>6. LogTypeOK'
  BY <1>1, <1>4, <1>5 DEF LogInv, LogTypeOK
<1>7. Reordered'
  <2>1. \A i \in 0 .. numEvents - 1 :
          /\ eventList'[i].tsc \in 1 .. numEvents
          /\ eventList'[i].cpu = file[eventList'[i].tsc].cpu
          /\ eventList'[i].event_id = file[eventList'[i].tsc].event_id
          /\ eventList'[i].ns = file[eventList'[i].tsc].ns
    BY <1>4 DEF LogInv, Reordered
  <2>2. \A i, j \in 0 .. numEvents - 1 :
          eventList'[i].tsc = eventList'[j].tsc => i = j
    BY <1>4 DEF LogInv, Reordered
  <2>3. \A pos \in 1 .. numEvents : \E i \in 0 .. numEvents - 1 : eventList'[i].tsc = pos
    BY <1>4 DEF LogInv, Reordered
  <2>. QED
    BY <1>1, <2>1, <2>2, <2>3 DEF Reordered
<1>8. IsSorted(eventList, numEvents)'
  BY <1>1, <1>4 DEF LogInv, IsSorted
<1>9. Progress'
  <2>1. event' = eventList'[eventCount' - 1] /\ eventCount' > 0
    BY <1>1, <1>5
  <2>2. \A i \in k+1 .. numEvents - 1 : eventList'[i].lastNs = 0
    BY <1>1, <1>4 DEF LogInv, Progress
  <2>. QED
    BY <1>1, <2>1, <2>2 DEF Progress, SUCCESS, FAIL
<1>10. GapNotNegative'
  BY <1>1, <1>2, <1>4, <1>5 DEF GapNotNegative
<1>. QED
  BY <1>6, <1>7, <1>8, <1>9, <1>10 DEF LogInv

LEMMA LogInvNext == LogInv /\ [LogNext]_logVars => LogInv'
<1>. SUFFICES ASSUME LogInv, [LogNext]_logVars PROVE LogInv'
  OBVIOUS
<1>1. CASE SortEventsByNs
  BY <1>1, SortKeepsInv
<1>2. CASE ReturnNextEvent
  BY <1>2, ReturnKeepsInv
<1>3. CASE ReturnNoEvent
  BY <1>3, FileType, MaxRecordsAssumption
  DEF LogInv, LogTypeOK, Reordered, IsSorted, Progress, GapNotNegative,
      ReturnNoEvent, SUCCESS, FAIL
<1>4. CASE UNCHANGED logVars
  BY <1>4 DEF logVars, LogInv, LogTypeOK, Reordered, IsSorted, Progress, GapNotNegative
<1>. QED
  BY <1>1, <1>2, <1>3, <1>4 DEF LogNext

(* The invariant of every behaviour of the event log. *)
THEOREM LogInvariant == LogSpec => []LogInv
<1>1. LogInit => LogInv
  BY LogInvInit
<1>2. LogInv /\ [LogNext]_logVars => LogInv'
  BY LogInvNext
<1>. QED
  BY <1>1, <1>2, PTL DEF LogSpec

(* The variables of the event log keep their types. *)
THEOREM LogTypeCorrect == LogSpec => []LogTypeOK
  BY LogInvariant, PTL DEF LogInv

(* The length of a gap in the trace is never negative. *)
THEOREM GapCorrect == LogSpec => []GapNotNegative
  BY LogInvariant, PTL DEF LogInv

-----------------------------------------------------------------------------
(* A record in memory is a record of the file. *)
LEMMA BareIsParsed ==
    ASSUME LogInv, NEW i \in 0 .. numEvents - 1
    PROVE  /\ eventList[i].tsc \in 1 .. Len(file)
           /\ Bare(eventList[i]) = ParseNextEvent(eventList[i].tsc)
           /\ Bare(eventList[i]) \in Event
           /\ Bare(eventList[i]).ns = eventList[i].ns
           /\ Bare(eventList[i]).tsc = eventList[i].tsc
<1>1. open
  BY DEF LogInv, LogTypeOK
<1>2. /\ eventList[i] \in Event
      /\ eventList[i].tsc \in 1 .. Len(file)
      /\ eventList[i].cpu = file[eventList[i].tsc].cpu
      /\ eventList[i].event_id = file[eventList[i].tsc].event_id
      /\ eventList[i].ns = file[eventList[i].tsc].ns
  BY <1>1 DEF LogInv, LogTypeOK, Reordered
<1>3. Bare(eventList[i]) = ParseNextEvent(eventList[i].tsc)
  BY <1>2 DEF Bare, ParseNextEvent, Event
<1>. QED
  BY <1>2, <1>3, ParsedType DEF LogInv, LogTypeOK, ParseNextEvent

LEMMA InitImplements == LogInit => Abstract!StreamInit
<1>. SUFFICES ASSUME LogInit PROVE Abstract!StreamInit
  OBVIOUS
<1>1. Todo \in SUBSET Event
  BY ParsedType DEF LogInit, Todo
<1>2. ret # FAIL /\ event = NoEvent
  BY DEF LogInit, SUCCESS, FAIL
<1>. QED
  BY <1>1, <1>2 DEF Abstract!StreamInit

LEMMA SortImplements ==
    ASSUME LogInv, LogInv', SortEventsByNs
    PROVE  UNCHANGED Abstract!streamVars
<1>1. /\ ~open /\ open' = TRUE /\ file' = file /\ event' = event /\ ret' = ret
      /\ eventCount' = 0 /\ numEvents' = Len(file) /\ Len(file) \in Nat
  BY FileType, MaxRecordsAssumption DEF LogInv, LogTypeOK, SortEventsByNs
<1>2. Todo' = {Bare(eventList'[i]) : i \in 0 .. numEvents' - 1}
  BY <1>1 DEF Todo
<1>3. \A i \in 0 .. numEvents' - 1 :
        /\ eventList'[i].tsc \in 1 .. Len(file)
        /\ Bare(eventList'[i]) = ParseNextEvent(eventList'[i].tsc)
  <2>1. ASSUME NEW i \in 0 .. numEvents' - 1
        PROVE  /\ eventList'[i] \in Event
               /\ eventList'[i].tsc \in 1 .. Len(file)
               /\ eventList'[i].cpu = file[eventList'[i].tsc].cpu
               /\ eventList'[i].event_id = file[eventList'[i].tsc].event_id
               /\ eventList'[i].ns = file[eventList'[i].tsc].ns
    BY <1>1 DEF LogInv, LogTypeOK, Reordered
  <2>. QED
    BY <2>1 DEF Bare, ParseNextEvent, Event
<1>4. \A pos \in 1 .. Len(file) : \E i \in 0 .. numEvents' - 1 : eventList'[i].tsc = pos
  BY <1>1 DEF LogInv, Reordered
<1>5. Todo' = {ParseNextEvent(pos) : pos \in 1 .. Len(file)}
  BY <1>2, <1>3, <1>4
<1>6. Todo' = Todo
  BY <1>1, <1>5 DEF Todo
<1>. QED
  BY <1>1, <1>6 DEF Abstract!streamVars

LEMMA ReturnImplements ==
    ASSUME LogInv, LogInv', ReturnNextEvent
    PROVE  Abstract!Give
<1>. DEFINE k == eventCount
            r == Bare(eventList[k])
<1>1. /\ open /\ open' = open /\ file' = file /\ numEvents' = numEvents
      /\ eventCount' = k + 1 /\ ret' = SUCCESS /\ ret = SUCCESS
      /\ numEvents \in Nat /\ k \in 0 .. numEvents - 1
      /\ eventList \in [0 .. numEvents - 1 -> Event]
      /\ event' = eventList'[k]
  BY FileType, MaxRecordsAssumption DEF LogInv, LogTypeOK, Progress, ReturnNextEvent
<1>2. \A i \in k+1 .. numEvents - 1 : eventList'[i] = eventList[i]
  BY <1>1 DEF ReturnNextEvent
<1>3. eventList'[k] = [eventList[k] EXCEPT !.lastNs = LastNs(k)]
  BY <1>1 DEF ReturnNextEvent
<1>4. Bare(event') = r /\ event' # NoEvent
  <2>1. event' \in Event
    BY <1>1 DEF LogInv, LogTypeOK
  <2>. QED
    BY <1>1, <1>3, <2>1, NoEventAssumption DEF Bare, Event
<1>. HIDE DEF k
<1>5. Todo = {Bare(eventList[i]) : i \in k .. numEvents - 1}
  BY <1>1 DEF Todo, k
<1>6. Todo' = {Bare(eventList[i]) : i \in k+1 .. numEvents - 1}
  BY <1>1, <1>2 DEF Todo
<1>7. \A s \in Todo : r.ns <= s.ns
  <2>1. ASSUME NEW i \in k .. numEvents - 1
        PROVE  r.ns <= Bare(eventList[i]).ns
    <3>1. eventList[k].ns <= eventList[i].ns
      BY <1>1, <2>1 DEF LogInv, IsSorted, Event
    <3>. QED
      BY <1>1, <2>1, <3>1, BareIsParsed
  <2>. QED
    BY <1>5, <2>1
<1>8. \A i \in k+1 .. numEvents - 1 : Bare(eventList[i]) # r
  <2>1. ASSUME NEW i \in k+1 .. numEvents - 1
        PROVE  Bare(eventList[i]).tsc # r.tsc
    <3>1. eventList[i].tsc # eventList[k].tsc
      BY <1>1, <2>1 DEF LogInv, Reordered
    <3>. QED
      BY <1>1, <2>1, <3>1, BareIsParsed
  <2>. QED
    BY <2>1
<1>9. Todo' = Todo \ {r} /\ r \in Todo
  <2>1. k .. numEvents - 1 = {k} \cup (k+1 .. numEvents - 1)
    BY <1>1
  <2>. QED
    BY <1>5, <1>6, <1>8, <2>1
<1>. QED
  BY <1>1, <1>4, <1>7, <1>9 DEF Abstract!Give, SUCCESS, FAIL

LEMMA NextImplements ==
    LogInv /\ LogInv' /\ [LogNext]_logVars => [Abstract!StreamNext]_(Abstract!streamVars)
<1>. SUFFICES ASSUME LogInv, LogInv', [LogNext]_logVars
              PROVE  [Abstract!StreamNext]_(Abstract!streamVars)
  OBVIOUS
<1>1. CASE SortEventsByNs
  BY <1>1, SortImplements
<1>2. CASE ReturnNextEvent
  BY <1>2, ReturnImplements DEF Abstract!StreamNext
<1>3. CASE ReturnNoEvent
  <2>1. open /\ eventCount = numEvents /\ numEvents \in Nat
    BY <1>3, FileType, MaxRecordsAssumption DEF LogInv, LogTypeOK, ReturnNoEvent
  <2>2. Todo = {}
    BY <2>1 DEF Todo
  <2>3. Todo' = Todo /\ event' = event /\ ret' = FAIL
    BY <1>3, <2>1 DEF Todo, ReturnNoEvent
  <2>. QED
    BY <2>2, <2>3 DEF Abstract!StreamNext, Abstract!Finish
<1>4. CASE UNCHANGED logVars
  <2>1. Todo' = Todo
    BY <1>4 DEF Todo, logVars, ParseNextEvent
  <2>. QED
    BY <1>4, <2>1 DEF Abstract!streamVars, logVars
<1>. QED
  BY <1>1, <1>2, <1>3, <1>4 DEF LogNext

(* return_next_event implements the promise of EventStream: every record   *)
(* once, in time order, then the end.                                      *)
THEOREM LogImplementsStream == LogSpec => ImplementsStream
<1>1. LogInit => Abstract!StreamInit
  BY InitImplements
<1>2. LogInv /\ LogInv' /\ [LogNext]_logVars => [Abstract!StreamNext]_(Abstract!streamVars)
  BY NextImplements
<1>. QED
  BY <1>1, <1>2, LogInvariant, PTL DEF LogSpec, ImplementsStream, Abstract!Stream

-----------------------------------------------------------------------------
(* A non-empty set of natural numbers has a smallest one. *)
LEMMA LeastNatural ==
    ASSUME NEW T \in SUBSET Nat, T # {}
    PROVE  \E m \in T : \A t \in T : m <= t
<1>. DEFINE Less == OpToRel(<, Nat)
<1>1. IsWellFoundedOn(Less, Nat)
  BY NatLessThanWellFounded
<1>2. \A t \in Nat, u \in Nat : t < u => <<t, u>> \in Less
  BY DEF OpToRel
<1>. HIDE DEF Less
<1>3. PICK m \in T : \A t \in T : ~ (<<t, m>> \in Less)
  BY <1>1, WFMin
<1>4. ASSUME NEW t \in T PROVE m <= t
  <2>1. m \in Nat /\ t \in Nat /\ ~ (t < m)
    BY <1>2, <1>3
  <2>. QED
    BY <2>1
<1>. QED
  BY <1>4

(* The log as the feed of the analyses.  A non-empty set of indices below  *)
(* a bound has a largest one, which is the one that CHOOSE finds.          *)
LEMMA LargestIndex ==
    ASSUME NEW n \in Nat, NEW S \in SUBSET (0 .. n), S # {}
    PROVE  \E j \in S : \A i \in S : i <= j
<1>. DEFINE T == {t \in Nat : n - t \in S}
<1>1. T \in SUBSET Nat /\ T # {}
  <2>1. PICK i \in S : TRUE
    OBVIOUS
  <2>2. n - i \in T
    BY <2>1
  <2>. QED
    BY <2>2
<1>2. PICK m \in T : \A t \in T : m <= t
  <2>. HIDE DEF T
  <2>. QED
    BY <1>1, LeastNatural
<1>3. ASSUME NEW i \in S PROVE i <= n - m
  <2>1. n - i \in T
    BY <1>3
  <2>2. m <= n - i
    BY <1>2, <2>1
  <2>. QED
    BY <2>2
<1>. QED
  BY <1>3

LEMMA ChosenIndex ==
    ASSUME NEW n \in Nat, NEW S \in SUBSET (0 .. n), NEW last \in S,
           \A i \in S : i <= last
    PROVE  (CHOOSE j \in S : \A m \in S : m <= j) = last
<1>1. ASSUME NEW j \in S, \A m \in S : m <= j
      PROVE  j = last
  BY <1>1
<1>. QED
  BY <1>1

(* return_next_event stamps a record as NextStamp says: walking back finds *)
(* the last record its CPU has had since record 1.                         *)
LEMMA StampIsNext ==
    ASSUME LogInv, eventCount < numEvents
    PROVE  LastNs(eventCount) = NextStamp(eventList[eventCount].cpu)
<1>. DEFINE k == eventCount
            cpu == eventList[k].cpu
            own == OwnRecords(cpu)
<1>1. /\ k \in Nat /\ numEvents \in Nat
      /\ eventList[k].lastNs = 0
  <2>1. k \in Nat /\ numEvents \in Nat
    BY FileType, MaxRecordsAssumption DEF LogInv, LogTypeOK
  <2>. QED
    BY <2>1 DEF LogInv, Progress
<1>2. own \in SUBSET (1 .. k-1) /\ own \in SUBSET (0 .. k)
  BY <1>1 DEF OwnRecords
<1>3. \A j \in 1 .. k-1 : j \in own <=> eventList[j].cpu = cpu
  BY DEF OwnRecords
<1>4. k # 0 =>
        NextStamp(cpu) = IF own = {} THEN eventList[0].ns
                         ELSE LET last == CHOOSE j \in own : \A m \in own : m <= j
                              IN IF last = 1 THEN 0 ELSE eventList[last].ns
  BY DEF NextStamp
<1>. HIDE DEF own
<1>5. CASE k = 0
  BY <1>1, <1>5 DEF LastNs, NextStamp
<1>6. CASE k # 0 /\ own = {}
  <2>1. \A j \in 1 .. k-1 : ~ IsPrevious(j, k)
    BY <1>3, <1>6 DEF IsPrevious
  <2>. QED
    BY <1>4, <1>6, <2>1 DEF LastNs
<1>7. CASE k # 0 /\ own # {}
  <2>1. PICK last \in own : \A m \in own : m <= last
    BY <1>1, <1>2, <1>7, LargestIndex
  <2>2. (CHOOSE j \in own : \A m \in own : m <= j) = last
    BY <1>1, <1>2, <2>1, ChosenIndex
  <2>3. last \in 1 .. k-1
    BY <1>2
  <2>4. IsPrevious(last, k)
    <3>1. \A m \in last+1 .. k-1 : m \notin own
      BY <1>1, <2>1, <2>3
    <3>. QED
      BY <1>1, <1>3, <2>3, <3>1 DEF IsPrevious
  <2>5. ASSUME NEW j \in 1 .. k-1, IsPrevious(j, k) PROVE j = last
    <3>1. j \in own
      BY <1>3, <2>5 DEF IsPrevious
    <3>2. ~ (last \in j+1 .. k-1)
      BY <1>3, <2>3, <2>5 DEF IsPrevious
    <3>. QED
      BY <1>1, <2>1, <2>3, <3>1, <3>2
  <2>6. (CHOOSE j \in 1 .. k-1 : IsPrevious(j, k)) = last
    BY <2>3, <2>4, <2>5
  <2>7. LastNs(k) = IF last = 1 THEN eventList[k].lastNs ELSE eventList[last].ns
    BY <1>7, <2>3, <2>4, <2>6 DEF LastNs
  <2>8. NextStamp(cpu) = IF last = 1 THEN 0 ELSE eventList[last].ns
    BY <1>4, <1>7, <2>2
  <2>. QED
    BY <1>1, <2>7, <2>8
<1>. QED
  BY <1>5, <1>6, <1>7

(* What a record that was handed out changes of the stamps to come. *)
LEMMA RestampsLikeFeed ==
    ASSUME LogInv, ReturnNextEvent, NEW c \in Cpus
    PROVE  NextStamp(c)' =
             IF eventCount = 0 THEN eventList[eventCount].ns
             ELSE IF c # eventList[eventCount].cpu THEN NextStamp(c)
             ELSE IF eventCount = 1 THEN 0 ELSE eventList[eventCount].ns
<1>. DEFINE k == eventCount
            own == OwnRecords(c)
            owned == OwnRecords(c)'
<1>1. /\ numEvents \in Nat /\ k \in 0 .. numEvents - 1 /\ k \in Nat
      /\ eventList \in [0 .. numEvents - 1 -> Event]
      /\ eventCount' = k + 1
  BY FileType, MaxRecordsAssumption DEF LogInv, LogTypeOK, ReturnNextEvent
<1>2. \A i \in 0 .. k : /\ eventList'[i].cpu = eventList[i].cpu
                        /\ eventList'[i].ns = eventList[i].ns
  BY <1>1 DEF ReturnNextEvent, Event
<1>3. /\ owned \in SUBSET (1 .. k) /\ owned \in SUBSET (0 .. k)
      /\ \A j \in 1 .. k : j \in owned <=> eventList[j].cpu = c
  BY <1>1, <1>2 DEF OwnRecords
<1>4. own = owned \ {k}
  BY <1>1, <1>3 DEF OwnRecords
<1>5. NextStamp(c)' = IF owned = {} THEN eventList'[0].ns
                      ELSE LET last == CHOOSE j \in owned : \A m \in owned : m <= j
                           IN IF last = 1 THEN 0 ELSE eventList'[last].ns
  BY <1>1 DEF NextStamp
<1>6. k # 0 =>
        NextStamp(c) = IF own = {} THEN eventList[0].ns
                       ELSE LET last == CHOOSE j \in own : \A m \in own : m <= j
                            IN IF last = 1 THEN 0 ELSE eventList[last].ns
  BY DEF NextStamp
<1>. HIDE DEF own, owned
<1>7. CASE owned = {}
  <2>1. own = {} /\ (k # 0 => eventList[k].cpu # c)
    BY <1>1, <1>3, <1>4, <1>7
  <2>. QED
    BY <1>1, <1>2, <1>5, <1>6, <1>7, <2>1
<1>8. CASE owned # {}
  <2>1. PICK last \in owned : \A m \in owned : m <= last
    BY <1>1, <1>3, <1>8, LargestIndex
  <2>2. (CHOOSE j \in owned : \A m \in owned : m <= j) = last
    BY <1>1, <1>3, <2>1, ChosenIndex
  <2>3. last \in 1 .. k /\ k # 0
    BY <1>1, <1>3
  <2>4. NextStamp(c)' = IF last = 1 THEN 0 ELSE eventList[last].ns
    <3>1. NextStamp(c)' = IF last = 1 THEN 0 ELSE eventList'[last].ns
      BY <1>5, <1>8, <2>2
    <3>2. eventList'[last].ns = eventList[last].ns
      BY <1>1, <1>2, <2>3
    <3>. QED
      BY <3>1, <3>2
  <2>5. CASE eventList[k].cpu = c
    <3>1. k \in owned
      BY <1>1, <1>3, <2>3, <2>5
    <3>2. last = k
      BY <1>1, <2>1, <2>3, <3>1
    <3>. QED
      BY <2>3, <2>4, <2>5, <3>2
  <2>6. CASE eventList[k].cpu # c
    <3>1. k \notin owned
      BY <1>3, <2>3, <2>6
    <3>2. own = owned
      BY <1>4, <3>1
    <3>3. NextStamp(c) = IF last = 1 THEN 0 ELSE eventList[last].ns
      BY <1>6, <1>8, <2>2, <2>3, <3>2
    <3>. QED
      BY <2>3, <2>4, <2>6, <3>3
  <2>. QED
    BY <2>5, <2>6
<1>. QED
  BY <1>7, <1>8

LEMMA InitFeeds == LogInit => FeedOfLog!FeedInit
BY DEF LogInit, FeedOfLog!FeedInit, NextStamp

LEMMA ReturnFeeds ==
    ASSUME LogInv, LogInv', ReturnNextEvent
    PROVE  FeedOfLog!FeedNext
<1>. DEFINE k == eventCount
            ev == eventList[k]
            Stamps == [cpu \in Cpus |-> NextStamp(cpu)]
            AsFed == IF event = NoEvent THEN NoEvent
                     ELSE [cpu |-> event.cpu, event_id |-> event.event_id,
                           ns |-> event.ns, lastNs |-> event.lastNs]
<1>1. /\ numEvents \in 0 .. MaxRecords /\ k \in 0 .. numEvents - 1
      /\ ev \in Event /\ eventCount' = k + 1
      /\ eventList \in [0 .. numEvents - 1 -> Event]
  BY FileType, MaxRecordsAssumption DEF LogInv, LogTypeOK, ReturnNextEvent
<1>2. ev.cpu \in Cpus /\ ev.event_id \in EventIds /\ ev.ns \in 1 .. MaxNs
  BY <1>1 DEF Event
<1>3. k < MaxRecords
  BY <1>1, MaxRecordsAssumption
<1>4. AsFed # NoEvent => AsFed.ns <= ev.ns
  <2>. SUFFICES ASSUME event # NoEvent PROVE event.ns <= ev.ns
    OBVIOUS
  <2>1. k > 0 /\ event = eventList[k-1]
    BY DEF LogInv, Progress
  <2>. QED
    BY <1>1, <2>1, MaxRecordsAssumption DEF LogInv, IsSorted
<1>5. AsFed' = [cpu |-> ev.cpu, event_id |-> ev.event_id, ns |-> ev.ns,
                lastNs |-> Stamps[ev.cpu]]
  <2>1. event' = [ev EXCEPT !.lastNs = LastNs(k)]
    BY <1>1 DEF ReturnNextEvent
  <2>2. event' # NoEvent
    <3>1. event' \in Event
      BY <1>1 DEF LogInv, LogTypeOK, ReturnNextEvent
    <3>. QED
      BY <3>1, NoEventAssumption
  <2>3. LastNs(k) = Stamps[ev.cpu]
    BY <1>1, <1>2, StampIsNext
  <2>. HIDE DEF Stamps
  <2>. QED
    BY <1>1, <2>1, <2>2, <2>3 DEF Event
<1>6. Stamps' = IF k = 0 THEN [c \in Cpus |-> ev.ns]
                ELSE [Stamps EXCEPT ![ev.cpu] = IF k = 1 THEN 0 ELSE ev.ns]
  BY <1>2, RestampsLikeFeed
<1>7. FeedOfLog!Feed(ev.cpu, ev.event_id, ev.ns)
  BY <1>1, <1>3, <1>4, <1>5, <1>6 DEF FeedOfLog!Feed, FeedOfLog!Restamp
<1>. QED
  BY <1>2, <1>7 DEF FeedOfLog!FeedNext

LEMMA NextFeeds ==
    LogInv /\ LogInv' /\ [LogNext]_logVars => [FeedOfLog!FeedNext]_(FeedOfLog!feedVars)
<1>. SUFFICES ASSUME LogInv, LogInv', [LogNext]_logVars
              PROVE  [FeedOfLog!FeedNext]_(FeedOfLog!feedVars)
  OBVIOUS
<1>1. CASE SortEventsByNs
  <2>1. /\ eventCount = 0 /\ UNCHANGED <<eventCount, event>>
    BY <1>1 DEF LogInv, LogTypeOK, SortEventsByNs
  <2>2. \A c \in Cpus : NextStamp(c) = 0 /\ NextStamp(c)' = 0
    BY <2>1 DEF NextStamp
  <2>. QED
    BY <2>1, <2>2 DEF FeedOfLog!feedVars
<1>2. CASE ReturnNextEvent
  BY <1>2, ReturnFeeds
<1>3. CASE UNCHANGED <<eventList, eventCount, event>>
  <2>1. \A c \in Cpus : NextStamp(c)' = NextStamp(c)
    BY <1>3 DEF NextStamp, OwnRecords
  <2>. QED
    BY <1>3, <2>1 DEF FeedOfLog!feedVars
<1>. QED
  BY <1>1, <1>2, <1>3 DEF LogNext, ReturnNoEvent, logVars

(* The library hands out a feed of the analyses: records in time order,    *)
(* each with the stamp that EventFeed, from which the other modules take   *)
(* their records, gives it.                                                *)
THEOREM LogImplementsFeed == LogSpec => ImplementsFeed
<1>1. LogInit => FeedOfLog!FeedInit
  BY InitFeeds
<1>2. LogInv /\ LogInv' /\ [LogNext]_logVars => [FeedOfLog!FeedNext]_(FeedOfLog!feedVars)
  BY NextFeeds
<1>. QED
  BY <1>1, <1>2, LogInvariant, PTL DEF LogSpec, ImplementsFeed, FeedOfLog!FeedSpec

-----------------------------------------------------------------------------
(***************************************************************************)
(* The library as a whole                                                  *)
(***************************************************************************)
Places == {"open", "register", "init", "fetch", "handle", "update", "total",
           "finalize", "exit", "exited", "crashed", "stopped"}

(* What the place in the program says of the log *)
PlaceOK ==
    /\ pc \in Places
    /\ open <=> pc \notin {"open", "stopped"}
    /\ eventCount > 0 => event # NoEvent
    /\ pc \in {"register", "init"} => eventCount = 0
    /\ pc \in {"handle", "update"} => eventCount > 0
    /\ pc \in {"total", "finalize", "exit", "exited", "crashed"} => eventCount = numEvents

LEMMA PlaceInit == Init => LogInv /\ PlaceOK
<1>. SUFFICES ASSUME Init PROVE LogInv /\ PlaceOK
  OBVIOUS
<1>1. LogInv
  BY LogInvInit DEF Init
<1>. QED
  BY <1>1 DEF Init, LogInit, PlaceOK, Places

LEMMA LogCounts ==
    LogInv => /\ numEvents \in Nat /\ eventCount \in 0 .. numEvents /\ numEvents <= MaxRecords
              /\ eventList \in [0 .. numEvents - 1 -> Event]
              /\ ~open => numEvents = 0 /\ eventCount = 0
<1>. SUFFICES ASSUME LogInv
              PROVE  /\ numEvents \in Nat /\ eventCount \in 0 .. numEvents
                     /\ numEvents <= MaxRecords
                     /\ eventList \in [0 .. numEvents - 1 -> Event]
                     /\ ~open => numEvents = 0 /\ eventCount = 0
  OBVIOUS
<1>1. Len(file) \in Nat /\ Len(file) <= MaxRecords /\ MaxRecords \in Nat
  BY FileType, MaxRecordsAssumption DEF LogInv, LogTypeOK
<1>. QED
  BY <1>1 DEF LogInv, LogTypeOK

LEMMA PlaceStep == LogInv /\ PlaceOK /\ [Next]_readerVars => LogInv' /\ PlaceOK'
<1>. SUFFICES ASSUME LogInv, PlaceOK, [Next]_readerVars PROVE LogInv' /\ PlaceOK'
  OBVIOUS
<1>1. numEvents \in Nat /\ eventCount \in 0 .. numEvents /\ (~open => numEvents = 0 /\ eventCount = 0)
  BY LogCounts
<1>2. CASE OpenLog
  <2>1. LogInv'
    BY <1>2, SortKeepsInv DEF OpenLog
  <2>. QED
    BY <1>1, <1>2, <2>1 DEF OpenLog, Goto, SortEventsByNs, PlaceOK, Places
<1>3. CASE Fetch
  <2>1. CASE ReturnNextEvent /\ Goto("handle")
    <3>1. LogInv'
      BY <2>1, ReturnKeepsInv
    <3>2. event' # NoEvent
      <4>1. event' \in Event
        BY <1>1, <2>1, LogCounts, <3>1 DEF ReturnNextEvent, LogInv, LogTypeOK
      <4>. QED
        BY <4>1, NoEventAssumption
    <3>. QED
      BY <1>1, <1>3, <2>1, <3>1, <3>2 DEF ReturnNextEvent, Goto, PlaceOK, Places, Fetch
  <2>2. CASE ReturnNoEvent /\ Goto("total")
    <3>1. LogInv'
      BY <2>2, LogInvNext DEF LogNext
    <3>. QED
      BY <1>1, <1>3, <2>2, <3>1 DEF ReturnNoEvent, Goto, PlaceOK, Places, Fetch
  <2>. QED
    BY <1>3, <2>1, <2>2 DEF Fetch
<1>4. CASE UNCHANGED logVars
  <2>1. LogInv'
    BY <1>4, LogInvNext
  <2>. USE DEF PlaceOK, Places
  <2>2. UNCHANGED <<open, event, eventCount, numEvents>>
    BY <1>4 DEF logVars
  <2>3. CASE OpenFails \/ StartLoop \/ HandlersReturn \/ Update \/ Total \/ DivideByZero \/ ReaderExit
    <3>1. CASE OpenFails
      BY <2>1, <2>2, <3>1 DEF OpenFails, Goto
    <3>2. CASE StartLoop
      BY <2>1, <2>2, <3>2 DEF StartLoop, Goto
    <3>3. CASE HandlersReturn
      BY <2>1, <2>2, <3>3 DEF HandlersReturn, Goto
    <3>4. CASE Update
      BY <2>1, <2>2, <3>4 DEF Update, Goto
    <3>5. CASE Total
      BY <2>1, <2>2, <3>5 DEF Total, Goto
    <3>6. CASE DivideByZero
      BY <2>1, <2>2, <3>6 DEF DivideByZero, Goto
    <3>7. CASE ReaderExit
      BY <2>1, <2>2, <3>7 DEF ReaderExit, Goto
    <3>. QED
      BY <2>3, <3>1, <3>2, <3>3, <3>4, <3>5, <3>6, <3>7
  <2>4. CASE CallInitializers
    <3>1. pc = "init" /\ pc' \in {"init", "fetch"}
      BY <2>4 DEF CallInitializers, Walk, Goto
    <3>. QED
      BY <2>1, <2>2, <3>1
  <2>5. CASE CallFinalizers
    <3>1. pc = "finalize" /\ pc' \in {"finalize", "exit"}
      BY <2>5 DEF CallFinalizers, Walk, Goto
    <3>. QED
      BY <2>1, <2>2, <3>1
  <2>6. CASE UNCHANGED pc
    BY <2>1, <2>2, <2>6
  <2>7. CASE OpenLog \/ Fetch
    BY <1>2, <1>3, <2>7
  <2>8. (\E h \in Handlers : Register(h)) \/ CallHandler \/ Terminated \/ UNCHANGED readerVars
          => UNCHANGED pc
    BY DEF Register, CallHandler, Terminated, readerVars
  <2>. QED
    BY <2>3, <2>4, <2>5, <2>6, <2>7, <2>8 DEF Next
<1>5. OpenLog \/ Fetch \/ UNCHANGED logVars
  BY DEF Next, OpenFails, Register, StartLoop, CallInitializers, CallFinalizers, Walk, CallHandler,
         HandlersReturn, Update, Total, DivideByZero, ReaderExit, Terminated, readerVars
<1>. QED
  BY <1>2, <1>3, <1>4, <1>5

-----------------------------------------------------------------------------
(* The arithmetic of the windows *)
LEMMA MinusType ==
    ASSUME NEW a \in Int, NEW b \in Int PROVE Minus(a, b) \in Times
BY NsModulusAssumption DEF Minus, Times

LEMMA MinusExact ==
    ASSUME NEW a \in Nat, NEW b \in Nat, b <= a, a < NsModulus
    PROVE  Minus(a, b) = a - b
BY NsModulusAssumption DEF Minus

(* The partial sums of get_total_time: they exist, by the smallest length  *)
(* for which they would not, and fit in an unsigned long long, by the      *)
(* smallest position at which they would not.                              *)
Sums(times, s, n) == s = [i \in 0 .. n |-> IF i = 0 THEN 0 ELSE Plus(s[i-1], times[i])]

LEMMA SumsExist ==
    ASSUME NEW times \in Seq(Times)
    PROVE  \A n \in 0 .. Len(times) : \E s : Sums(times, s, n)
<1>. DEFINE Bad == {n \in 0 .. Len(times) : ~ \E s : Sums(times, s, n)}
<1>1. SUFFICES ASSUME Bad # {} PROVE FALSE
  OBVIOUS
<1>2. Bad \in SUBSET Nat
  OBVIOUS
<1>3. PICK n \in Bad : \A t \in Bad : n <= t
  <2>. HIDE DEF Bad
  <2>. QED
    BY <1>1, <1>2, LeastNatural
<1>4. n # 0
  <2>1. Sums(times, [i \in 0 .. 0 |-> 0], 0)
    BY DEF Sums
  <2>. QED
    BY <2>1
<1>5. n \in Nat /\ n - 1 \in Nat
  BY <1>2, <1>4
<1>6. PICK s : Sums(times, s, n-1)
  <2>1. n - 1 \in 0 .. Len(times) /\ n - 1 \notin Bad
    BY <1>2, <1>3, <1>4
  <2>. QED
    BY <2>1
<1>. DEFINE t == [i \in 0 .. n |-> IF i = n THEN Plus(s[n-1], times[n]) ELSE s[i]]
<1>7. ASSUME NEW i \in 0 .. n
      PROVE  t[i] = IF i = 0 THEN 0 ELSE Plus(t[i-1], times[i])
  <2>1. CASE i = n
    BY <1>5, <2>1
  <2>2. CASE i # n
    <3>1. i \in 0 .. n-1 /\ t[i] = s[i]
      BY <1>5, <2>2
    <3>2. s[i] = IF i = 0 THEN 0 ELSE Plus(s[i-1], times[i])
      BY <1>6, <3>1 DEF Sums
    <3>3. i # 0 => t[i-1] = s[i-1]
      BY <1>5, <2>2
    <3>. QED
      BY <3>1, <3>2, <3>3
  <2>. QED
    BY <2>1, <2>2
<1>8. Sums(times, t, n)
  BY <1>7 DEF Sums
<1>. QED
  BY <1>8

LEMMA SumsType ==
    ASSUME NEW times \in Seq(Times), NEW n \in 0 .. Len(times), NEW s, Sums(times, s, n)
    PROVE  s[n] \in Times
<1>. DEFINE Bad == {i \in 0 .. n : s[i] \notin Times}
<1>1. SUFFICES ASSUME Bad # {} PROVE FALSE
  OBVIOUS
<1>2. Bad \in SUBSET Nat
  OBVIOUS
<1>3. PICK i \in Bad : \A j \in Bad : i <= j
  <2>. HIDE DEF Bad
  <2>. QED
    BY <1>1, <1>2, LeastNatural
<1>4. i \in 0 .. n /\ s[i] = IF i = 0 THEN 0 ELSE Plus(s[i-1], times[i])
  BY DEF Sums
<1>5. i # 0
  BY <1>4, NsModulusAssumption DEF Times
<1>6. i - 1 \in 0 .. n /\ s[i-1] \in Times
  BY <1>3, <1>4, <1>5
<1>7. times[i] \in Times
  <2>1. i \in 1 .. Len(times)
    BY <1>4, <1>5
  <2>. QED
    BY <2>1
<1>8. s[i] \in Times
  <2>1. \A x, y \in Times : Plus(x, y) \in Times
    BY NsModulusAssumption DEF Plus, Times
  <2>. QED
    BY <1>4, <1>5, <1>6, <1>7, <2>1
<1>. QED
  BY <1>8

(* What get_total_time adds up fits in an unsigned long long. *)
LEMMA TotalType == ASSUME NEW times \in Seq(Times) PROVE TotalOf(times) \in Times
<1>. DEFINE n == Len(times)
            total == CHOOSE s : Sums(times, s, n)
<1>1. n \in 0 .. Len(times)
  OBVIOUS
<1>2. \E s : Sums(times, s, n)
  BY <1>1, SumsExist
<1>3. Sums(times, total, n)
  BY <1>2
<1>4. TotalOf(times) = total[n]
  BY DEF TotalOf, Sums
<1>. HIDE DEF total
<1>5. total[n] \in Times
  BY <1>1, <1>3, SumsType
<1>. QED
  BY <1>4, <1>5

-----------------------------------------------------------------------------
(* What the partial sums end with does not depend on the order of the list *)
(* nor on where they wrap around.                                          *)
LEMMA UpTo ==
    ASSUME NEW n \in Nat, NEW Good, 0 \in Good,
           \A i \in 1 .. n : i - 1 \in Good => i \in Good
    PROVE  \A i \in 0 .. n : i \in Good
<1>. DEFINE Bad == {i \in 0 .. n : i \notin Good}
<1>1. SUFFICES ASSUME Bad # {} PROVE FALSE
  OBVIOUS
<1>2. PICK i \in Bad : \A j \in Bad : i <= j
  <2>1. Bad \in SUBSET Nat
    OBVIOUS
  <2>. HIDE DEF Bad
  <2>. QED
    BY <1>1, <2>1, LeastNatural
<1>3. i \in 1 .. n /\ i - 1 \in 0 .. n
  OBVIOUS
<1>4. i - 1 \notin Bad
  BY <1>2, <1>3
<1>. QED
  BY <1>3, <1>4

(* Sums without wrapping around *)
Partial(v, s, n) == s = [i \in 0 .. n |-> IF i = 0 THEN 0 ELSE s[i-1] + v[i]]

PartialSums(v, n) == CHOOSE s : Partial(v, s, n)

LEMMA PartialIs ==
    ASSUME NEW n \in Nat, NEW v, \A i \in 1 .. n : v[i] \in Nat
    PROVE  /\ PartialSums(v, n)[0] = 0
           /\ \A i \in 1 .. n : PartialSums(v, n)[i] = PartialSums(v, n)[i-1] + v[i]
           /\ \A i \in 0 .. n : PartialSums(v, n)[i] \in Nat
<1>. DEFINE Good == {k \in 0 .. n : \E s : Partial(v, s, k)}
            s == PartialSums(v, n)
            Fits == {i \in 0 .. n : s[i] \in Nat}
<1>1. 0 \in Good
  <2>1. Partial(v, [i \in 0 .. 0 |-> 0], 0)
    BY DEF Partial
  <2>. QED
    BY <2>1
<1>2. ASSUME NEW k \in 1 .. n, k - 1 \in Good PROVE k \in Good
  <2>1. PICK r : Partial(v, r, k - 1)
    BY <1>2
  <2>. DEFINE t == [i \in 0 .. k |-> IF i = k THEN r[k-1] + v[k] ELSE r[i]]
  <2>2. ASSUME NEW i \in 0 .. k
        PROVE  t[i] = IF i = 0 THEN 0 ELSE t[i-1] + v[i]
    <3>1. CASE i = k
      BY <3>1
    <3>2. CASE i # k
      <4>1. i \in 0 .. k-1 /\ t[i] = r[i]
        BY <3>2
      <4>2. r[i] = IF i = 0 THEN 0 ELSE r[i-1] + v[i]
        BY <2>1, <4>1 DEF Partial
      <4>3. i # 0 => t[i-1] = r[i-1]
        BY <3>2
      <4>. QED
        BY <4>1, <4>2, <4>3
    <3>. QED
      BY <3>1, <3>2
  <2>3. Partial(v, t, k)
    BY <2>2 DEF Partial
  <2>. QED
    BY <2>3
<1>3. \A k \in 0 .. n : k \in Good
  <2>. HIDE DEF Good
  <2>. QED
    BY <1>1, <1>2, UpTo
<1>4. Partial(v, s, n)
  BY <1>3 DEF PartialSums
<1>. HIDE DEF s
<1>5. s[0] = 0 /\ \A i \in 1 .. n : s[i] = s[i-1] + v[i]
  BY <1>4 DEF Partial
<1>6. 0 \in Fits
  BY <1>5
<1>7. ASSUME NEW i \in 1 .. n, i - 1 \in Fits PROVE i \in Fits
  BY <1>5, <1>7
<1>8. \A i \in 0 .. n : i \in Fits
  <2>. HIDE DEF Fits
  <2>. QED
    BY <1>6, <1>7, UpTo
<1>. QED
  BY <1>5, <1>8 DEF s

(* A sum that already wrapped around ends like one that wraps at the end. *)
LEMMA WrapsAlike ==
    ASSUME NEW a \in Nat, NEW b \in Nat
    PROVE  ((a % NsModulus) + b) % NsModulus = (a + b) % NsModulus
<1>. DEFINE q == a \div NsModulus
            r == a % NsModulus
            p == (r + b) \div NsModulus
            t == (r + b) % NsModulus
<1>1. a = (NsModulus * q) + r /\ q \in Int /\ r \in Nat
  BY NsModulusAssumption
<1>2. r + b = (NsModulus * p) + t /\ p \in Int /\ t \in Times
  <2>1. r + b \in Nat
    BY <1>1
  <2>. HIDE DEF r
  <2>. QED
    BY <2>1, NsModulusAssumption DEF Times
<1>. HIDE DEF q, r, p, t
<1>3. a + b = (NsModulus * (q + p)) + t /\ q + p \in Int
  <2>1. a + b = (NsModulus * q) + (NsModulus * p) + t
    BY <1>1, <1>2, NsModulusAssumption DEF Times
  <2>. QED
    BY <1>1, <1>2, <2>1, NsModulusAssumption DEF Times
<1>4. ASSUME NEW c \in Int, NEW d \in Int, NEW e \in Times, c = (NsModulus * d) + e
      PROVE  c % NsModulus = e
  BY <1>4, NsModulusAssumption DEF Times
<1>5. (a + b) % NsModulus = t
  BY <1>2, <1>3, <1>4
<1>. QED
  BY <1>5 DEF t, r

LEMMA TotalWraps ==
    ASSUME NEW times \in Seq(Times)
    PROVE  TotalOf(times) = PartialSums(times, Len(times))[Len(times)] % NsModulus
<1>. DEFINE n == Len(times)
            total == CHOOSE s : Sums(times, s, n)
            s == PartialSums(times, n)
            Good == {i \in 0 .. n : total[i] = s[i] % NsModulus}
<1>1. n \in Nat /\ \A i \in 1 .. n : times[i] \in Nat
  <2>1. n \in Nat /\ \A i \in 1 .. n : times[i] \in Times
    OBVIOUS
  <2>. QED
    BY <2>1 DEF Times
<1>2. Sums(times, total, n)
  <2>1. \E t : Sums(times, t, n)
    BY SumsExist
  <2>. QED
    BY <2>1
<1>3. TotalOf(times) = total[n]
  BY DEF TotalOf, Sums
<1>. HIDE DEF total, s, n
<1>4. total[0] = 0 /\ \A i \in 1 .. n : total[i] = Plus(total[i-1], times[i])
  BY <1>1, <1>2 DEF Sums
<1>5. /\ s[0] = 0 /\ \A i \in 1 .. n : s[i] = s[i-1] + times[i]
      /\ \A i \in 0 .. n : s[i] \in Nat
  BY <1>1, PartialIs DEF s
<1>6. 0 \in Good
  BY <1>1, <1>4, <1>5, NsModulusAssumption
<1>7. ASSUME NEW i \in 1 .. n, i - 1 \in Good PROVE i \in Good
  <2>1. i \in 0 .. n /\ i - 1 \in 0 .. n /\ s[i-1] \in Nat /\ times[i] \in Nat
    BY <1>1, <1>5
  <2>2. total[i] = ((s[i-1] % NsModulus) + times[i]) % NsModulus
    BY <1>4, <1>7 DEF Plus
  <2>3. total[i] = (s[i-1] + times[i]) % NsModulus
    BY <2>1, <2>2, WrapsAlike
  <2>. QED
    BY <1>5, <2>1, <2>3
<1>8. \A i \in 0 .. n : i \in Good
  <2>. HIDE DEF Good
  <2>. QED
    BY <1>1, <1>6, <1>7, UpTo
<1>. QED
  BY <1>1, <1>3, <1>8 DEF s, n

(* The part of a sum of times[1], ..., times[n] that the keys c[i] in T    *)
(* have in it                                                              *)
Shares(c, times, n, T) ==
    PartialSums([i \in 1 .. n |-> IF c[i] \in T THEN times[i] ELSE 0], n)

Share(c, times, n, T) == Shares(c, times, n, T)[n]

LEMMA SharesAre ==
    ASSUME NEW c, NEW n \in Nat, NEW times, \A i \in 1 .. n : times[i] \in Nat, NEW T
    PROVE  LET s == Shares(c, times, n, T)
           IN /\ s[0] = 0
              /\ \A i \in 1 .. n : s[i] = s[i-1] + IF c[i] \in T THEN times[i] ELSE 0
              /\ \A i \in 0 .. n : s[i] \in Nat
<1>. DEFINE w == [i \in 1 .. n |-> IF c[i] \in T THEN times[i] ELSE 0]
<1>1. \A i \in 1 .. n : w[i] \in Nat
  OBVIOUS
<1>2. \A i \in 1 .. n : w[i] = IF c[i] \in T THEN times[i] ELSE 0
  OBVIOUS
<1>3. Shares(c, times, n, T) = PartialSums(w, n)
  BY DEF Shares
<1>. HIDE DEF w
<1>. QED
  BY <1>1, <1>2, <1>3, PartialIs

LEMMA ShareNone ==
    ASSUME NEW c, NEW n \in Nat, NEW times, \A i \in 1 .. n : times[i] \in Nat
    PROVE  Share(c, times, n, {}) = 0
<1>. DEFINE s == Shares(c, times, n, {})
            Good == {i \in 0 .. n : s[i] = 0}
<1>1. s[0] = 0 /\ \A i \in 1 .. n : s[i] = s[i-1] + 0
  BY SharesAre
<1>. HIDE DEF s
<1>2. 0 \in Good
  BY <1>1
<1>3. ASSUME NEW i \in 1 .. n, i - 1 \in Good PROVE i \in Good
  BY <1>1, <1>3
<1>4. \A i \in 0 .. n : i \in Good
  <2>. HIDE DEF Good
  <2>. QED
    BY <1>2, <1>3, UpTo
<1>. QED
  BY <1>4 DEF Share, s

LEMMA ShareAll ==
    ASSUME NEW c, NEW n \in Nat, NEW times, \A i \in 1 .. n : times[i] \in Nat,
           NEW T, \A i \in 1 .. n : c[i] \in T
    PROVE  Share(c, times, n, T) = PartialSums(times, n)[n]
<1>. DEFINE s == Shares(c, times, n, T)
            p == PartialSums(times, n)
            Good == {i \in 0 .. n : s[i] = p[i]}
<1>1. p[0] = 0 /\ \A i \in 1 .. n : p[i] = p[i-1] + times[i]
  BY PartialIs
<1>2. s[0] = 0 /\ \A i \in 1 .. n : s[i] = s[i-1] + times[i]
  BY SharesAre
<1>. HIDE DEF s, p
<1>3. 0 \in Good
  BY <1>1, <1>2
<1>4. ASSUME NEW i \in 1 .. n, i - 1 \in Good PROVE i \in Good
  BY <1>1, <1>2, <1>4
<1>5. \A i \in 0 .. n : i \in Good
  <2>. HIDE DEF Good
  <2>. QED
    BY <1>3, <1>4, UpTo
<1>. QED
  BY <1>5 DEF Share, s, p

LEMMA ShareAdd ==
    ASSUME NEW c, NEW n \in Nat, NEW times, \A i \in 1 .. n : times[i] \in Nat,
           \A i, j \in 1 .. n : c[i] = c[j] => i = j, NEW T, NEW k \in 1 .. n, c[k] \in T,
           NEW R, R = T \ {c[k]}
    PROVE  Share(c, times, n, T) = times[k] + Share(c, times, n, R)
<1>. DEFINE s == Shares(c, times, n, T)
            r == Shares(c, times, n, R)
            Good == {i \in 0 .. n : s[i] = r[i] + IF i >= k THEN times[k] ELSE 0}
<1>1. \A i \in 1 .. n : c[i] \in R <=> c[i] \in T /\ i # k
  OBVIOUS
<1>2. /\ s[0] = 0 /\ r[0] = 0 /\ \A i \in 0 .. n : r[i] \in Nat
      /\ \A i \in 1 .. n : /\ s[i] = s[i-1] + IF c[i] \in T THEN times[i] ELSE 0
                          /\ r[i] = r[i-1] + IF c[i] \in R THEN times[i] ELSE 0
  BY SharesAre
<1>. HIDE DEF s, r
<1>3. 0 \in Good
  BY <1>2
<1>4. ASSUME NEW i \in 1 .. n, i - 1 \in Good PROVE i \in Good
  <2>1. /\ s[i] = s[i-1] + IF c[i] \in T THEN times[i] ELSE 0
        /\ r[i] = r[i-1] + IF c[i] \in R THEN times[i] ELSE 0
        /\ r[i-1] \in Nat /\ r[i] \in Nat
    BY <1>2
  <2>2. s[i-1] = r[i-1] + IF i - 1 >= k THEN times[k] ELSE 0
    BY <1>4
  <2>3. CASE i = k
    BY <1>1, <2>1, <2>2, <2>3
  <2>4. CASE i # k
    BY <1>1, <2>1, <2>2, <2>4
  <2>. QED
    BY <2>3, <2>4
<1>5. \A i \in 0 .. n : i \in Good
  <2>. HIDE DEF Good
  <2>. QED
    BY <1>3, <1>4, UpTo
<1>6. s[n] = r[n] + times[k] /\ r[n] \in Nat
  BY <1>2, <1>5
<1>. QED
  BY <1>6 DEF Share, s, r

-----------------------------------------------------------------------------
(* The windows of the CPUs.  A window opens at an own record w: own        *)
(* records before w are cut off by a gap, and no gap after w has own       *)
(* records behind it.                                                      *)
Opens(w, own) ==
    /\ w \in own
    /\ \A j \in own : j < w => \E g \in gaps : j < g /\ g <= w
    /\ \A g \in gaps : g > w => \A j \in own : j < g

(* An entry is flagged while the last gap has no own record behind it.     *)
EntryIs(cpu, firstNs, flag) ==
    /\ \E w \in RecordsOf(cpu) : Opens(w, RecordsOf(cpu)) /\ firstNs = eventList[w].ns
    /\ flag <=> \E g \in gaps \cap Counted : \A j \in RecordsOf(cpu) : j < g

WindowsOK ==
    /\ gaps \subseteq 0 .. eventCount - 1
    /\ lostRecFlagGlobal <=> pc \in {"handle", "update"} /\ eventCount - 1 \in gaps
    /\ \A i, j \in DOMAIN cpuList : cpuList[i].cpu = cpuList[j].cpu => i = j
    /\ \A k \in Counted : \E i \in DOMAIN cpuList : cpuList[i].cpu = eventList[k].cpu
    /\ \A i \in DOMAIN cpuList :
         EntryIs(cpuList[i].cpu, cpuList[i].firstNs, cpuList[i].lostRecFlag)

LEMMA WindowsInit == Init => CplTypeOK /\ WindowsOK
<1>. SUFFICES ASSUME Init PROVE CplTypeOK /\ WindowsOK
  OBVIOUS
<1>1. cpuList = << >> /\ DOMAIN cpuList = {} /\ eventCount = 0 /\ pc = "open" /\ gaps = {}
      /\ lostRecFlagGlobal = FALSE /\ avgTotalTime = 0 /\ maxCpuTotalTime = 0
  BY DEF Init, LogInit, CplInit
<1>2. Counted = {}
  BY <1>1 DEF Counted
<1>3. CplTypeOK
  <2>1. \A T : << >> \in Seq(T)
    OBVIOUS
  <2>2. 0 \in Times
    BY NsModulusAssumption DEF Times
  <2>. QED
    BY <1>1, <2>1, <2>2 DEF CplTypeOK
<1>. QED
  BY <1>1, <1>2, <1>3 DEF WindowsOK

(* The indices that count are indices of the array. *)
LEMMA CountedIndices ==
    ASSUME LogInv, PlaceOK
    PROVE  /\ Counted \subseteq 0 .. eventCount - 1 /\ Counted \subseteq 0 .. numEvents - 1
           /\ eventCount \in Nat /\ numEvents \in Nat
           /\ \A k \in Counted : k \in Nat /\ eventList[k] \in Event
<1>1. /\ numEvents \in Nat /\ eventCount \in 0 .. numEvents
      /\ eventList \in [0 .. numEvents - 1 -> Event]
  BY LogCounts
<1>. QED
  BY <1>1 DEF Counted

(* Steps that leave the windows alone: the counted records and the entries *)
(* but for their totals stay, new gaps are behind all counted records.     *)
LEMMA WindowsStay ==
    ASSUME WindowsOK, Counted' = Counted, gaps \subseteq gaps', Counted \subseteq Nat,
           \A g \in gaps' \ gaps : \A k \in Counted : k < g,
           \A k \in Counted : /\ eventList'[k].cpu = eventList[k].cpu
                              /\ eventList'[k].ns = eventList[k].ns,
           DOMAIN cpuList' = DOMAIN cpuList,
           \A i \in DOMAIN cpuList : /\ cpuList'[i].cpu = cpuList[i].cpu
                                     /\ cpuList'[i].firstNs = cpuList[i].firstNs
                                     /\ cpuList'[i].lostRecFlag = cpuList[i].lostRecFlag,
           gaps' \subseteq 0 .. eventCount' - 1,
           lostRecFlagGlobal' <=> pc' \in {"handle", "update"} /\ eventCount' - 1 \in gaps'
    PROVE  WindowsOK'
<1>1. \A cpu : RecordsOf(cpu)' = RecordsOf(cpu) /\ RecordsOf(cpu) \subseteq Counted
  BY DEF RecordsOf
<1>2. gaps' \cap Counted = gaps \cap Counted
  <2>1. \A g \in Counted : g \in Nat /\ ~ (g < g)
    OBVIOUS
  <2>. QED
    BY <2>1
<1>3. ASSUME NEW cpu, NEW w \in RecordsOf(cpu), Opens(w, RecordsOf(cpu))
      PROVE  Opens(w, RecordsOf(cpu))'
  <2>1. /\ \A j \in RecordsOf(cpu) : j < w => \E g \in gaps' : j < g /\ g <= w
        /\ \A g \in gaps' : g > w => \A j \in RecordsOf(cpu) : j < g
    BY <1>1, <1>3 DEF Opens
  <2>. QED
    BY <1>1, <2>1 DEF Opens
<1>4. ASSUME NEW cpu, NEW firstNs, NEW flag, EntryIs(cpu, firstNs, flag)
      PROVE  EntryIs(cpu, firstNs, flag)'
  <2>1. PICK w \in RecordsOf(cpu) : Opens(w, RecordsOf(cpu)) /\ firstNs = eventList[w].ns
    BY <1>4 DEF EntryIs
  <2>2. w \in RecordsOf(cpu)' /\ Opens(w, RecordsOf(cpu))' /\ firstNs = eventList'[w].ns
    BY <1>1, <1>3, <2>1
  <2>3. flag <=> \E g \in (gaps \cap Counted)' : \A j \in RecordsOf(cpu)' : j < g
    BY <1>1, <1>2, <1>4 DEF EntryIs
  <2>. QED
    BY <2>2, <2>3 DEF EntryIs
<1>5. ASSUME NEW i \in DOMAIN cpuList'
      PROVE  EntryIs(cpuList[i].cpu, cpuList[i].firstNs, cpuList[i].lostRecFlag)'
  <2>1. EntryIs(cpuList[i].cpu, cpuList[i].firstNs, cpuList[i].lostRecFlag)
    BY DEF WindowsOK
  <2>. DEFINE c == cpuList'[i].cpu
              f == cpuList'[i].firstNs
              l == cpuList'[i].lostRecFlag
  <2>2. EntryIs(c, f, l)
    BY <2>1
  <2>3. PICK cc, ff, ll : cc = c /\ ff = f /\ ll = l
    OBVIOUS
  <2>4. EntryIs(cc, ff, ll)'
    <3>1. EntryIs(cc, ff, ll)
      BY <2>2, <2>3
    <3>. QED
      BY <1>4, <3>1
  <2>. QED
    BY <2>3, <2>4 DEF EntryIs
<1>6. \A i, j \in DOMAIN cpuList' : cpuList'[i].cpu = cpuList'[j].cpu => i = j
  BY DEF WindowsOK
<1>7. \A k \in Counted' : \E i \in DOMAIN cpuList' : cpuList'[i].cpu = eventList'[k].cpu
  BY DEF WindowsOK
<1>. QED
  BY <1>5, <1>6, <1>7 DEF WindowsOK

(* What update_cpulist makes of the entries when a record of cpu counts    *)
EntriesFollow(cpu, ns, lost) ==
    /\ \A c, f, l : c # cpu /\ EntryIs(c, f, l) => EntryIs(c, f, l \/ lost)'
    /\ \A f, l : EntryIs(cpu, f, l) /\ (l \/ lost) => EntryIs(cpu, ns, FALSE)'
    /\ \A f : EntryIs(cpu, f, FALSE) /\ ~ lost => EntryIs(cpu, f, FALSE)'
    /\ RecordsOf(cpu) = {} => EntryIs(cpu, ns, FALSE)'

LEMMA RecordCounted ==
    ASSUME LogInv, PlaceOK, gaps \subseteq 0 .. eventCount - 1, pc = "update", pc' = "fetch",
           UNCHANGED <<logVars, gaps>>,
           NEW k, k = eventCount - 1, NEW cpu, cpu = eventList[k].cpu,
           NEW ns, ns = eventList[k].ns,
           NEW lost \in BOOLEAN, lost <=> k \in gaps
    PROVE  EntriesFollow(cpu, ns, lost)
<1>1. /\ eventCount \in Nat /\ eventCount > 0 /\ k \in Nat /\ eventCount = k + 1
  BY LogCounts DEF PlaceOK
<1>2. Counted = 0 .. k-1 /\ Counted' = 0 .. k
  BY <1>1 DEF Counted, logVars
<1>3. /\ \A c : c # cpu => RecordsOf(c)' = RecordsOf(c)
      /\ RecordsOf(cpu)' = RecordsOf(cpu) \cup {k}
      /\ \A c : RecordsOf(c) \subseteq 0 .. k-1
  <2>1. eventList' = eventList
    BY DEF logVars
  <2>2. Counted' = Counted \cup {k}
    BY <1>1, <1>2
  <2>. QED
    BY <1>2, <2>1, <2>2 DEF RecordsOf
<1>4. gaps \subseteq 0 .. k /\ gaps' = gaps /\ eventList' = eventList
  BY <1>1 DEF logVars
<1>5. \A w, own : Opens(w, own)' <=> Opens(w, own)
  BY <1>4 DEF Opens
<1>6. ASSUME NEW c, NEW set, set = RecordsOf(c)', NEW w \in set, Opens(w, set),
             NEW f, f = eventList[w].ns, NEW l,
             l <=> \E g \in gaps \cap (0 .. k) : \A j \in set : j < g
      PROVE  EntryIs(c, f, l)'
  <2>1. Opens(w, set)'
    BY <1>5, <1>6
  <2>. QED
    BY <1>2, <1>4, <1>6, <2>1 DEF EntryIs
<1>. DEFINE own == RecordsOf(cpu)
            owned == own \cup {k}
<1>7. own \subseteq 0 .. k-1 /\ RecordsOf(cpu)' = owned
  BY <1>3
<1>8. ASSUME NEW c, NEW f, NEW l, c # cpu, EntryIs(c, f, l)
      PROVE  EntryIs(c, f, l \/ lost)'
  <2>. DEFINE mine == RecordsOf(c)
  <2>1. mine \subseteq 0 .. k-1 /\ RecordsOf(c)' = mine
    BY <1>3, <1>8
  <2>2. PICK w \in mine : Opens(w, mine) /\ f = eventList[w].ns
    BY <1>8 DEF EntryIs
  <2>3. l <=> \E g \in gaps \cap (0 .. k-1) : \A j \in mine : j < g
    BY <1>2, <1>8 DEF EntryIs
  <2>. HIDE DEF mine
  <2>4. (l \/ lost) <=> \E g \in gaps \cap (0 .. k) : \A j \in mine : j < g
    <3>1. \A j \in mine : j < k
      BY <1>1, <2>1
    <3>2. \A g \in gaps : g \in 0 .. k-1 \/ g = k
      BY <1>1, <1>4
    <3>. QED
      BY <1>1, <2>3, <3>1, <3>2
  <2>. QED
    BY <1>2, <1>4, <1>6, <2>1, <2>2, <2>4
<1>9. ~ \E g \in gaps \cap (0 .. k) : \A j \in owned : j < g
  <2>1. k \in owned
    OBVIOUS
  <2>2. \A g \in gaps : g <= k /\ g \in Nat
    BY <1>1, <1>4
  <2>. QED
    BY <1>1, <2>1, <2>2
<1>10. ASSUME NEW w \in owned, Opens(w, owned), NEW f, f = eventList[w].ns
      PROVE EntryIs(cpu, f, FALSE)'
  <2>. HIDE DEF owned
  <2>. QED
    BY <1>6, <1>9, <1>10, <1>7
<1>11. ASSUME NEW f, NEW l, EntryIs(cpu, f, l), l \/ lost
       PROVE  EntryIs(cpu, ns, FALSE)'
  <2>1. \E g \in gaps : (\A j \in own : j < g) /\ g <= k
    <3>1. CASE lost
      BY <1>1, <1>7, <3>1
    <3>2. CASE ~ lost
      <4>1. \E g \in gaps \cap Counted : \A j \in own : j < g
        BY <1>11, <3>2 DEF EntryIs
      <4>. QED
        BY <1>1, <1>2, <4>1
    <3>. QED
      BY <3>1, <3>2
  <2>2. Opens(k, owned)
    <3>1. \A j \in owned : j < k => \E g \in gaps : j < g /\ g <= k
      BY <1>1, <1>7, <2>1
    <3>2. \A g \in gaps : ~ (g > k)
      BY <1>1, <1>4
    <3>. QED
      BY <1>7, <3>1, <3>2 DEF Opens
  <2>3. k \in owned
    OBVIOUS
  <2>. QED
    BY <1>10, <2>2, <2>3
<1>12. ASSUME NEW f, EntryIs(cpu, f, FALSE), ~ lost
       PROVE  EntryIs(cpu, f, FALSE)'
  <2>1. PICK w \in own : Opens(w, own) /\ f = eventList[w].ns
    BY <1>12 DEF EntryIs
  <2>2. \A g \in gaps : g \in 0 .. k-1
    BY <1>1, <1>4, <1>12
  <2>3. ~ \E g \in gaps : \A j \in own : j < g
    BY <1>2, <1>12, <2>2 DEF EntryIs
  <2>4. \A g \in gaps : ~ (g > w)
    BY <2>1, <2>3 DEF Opens
  <2>5. \A j \in own : j < w => \E g \in gaps : j < g /\ g <= w
    BY <2>1 DEF Opens
  <2>6. w \in Nat /\ w < k /\ w \in owned
    BY <1>1, <1>7, <2>1
  <2>7. \A j \in owned : j < w => j \in own
    BY <1>1, <2>6
  <2>8. Opens(w, owned)
    BY <2>4, <2>5, <2>6, <2>7 DEF Opens
  <2>. QED
    BY <1>10, <2>1, <2>6, <2>8
<1>13. ASSUME own = {} PROVE EntryIs(cpu, ns, FALSE)'
  <2>1. Opens(k, owned)
    <3>1. owned = {k}
      BY <1>7, <1>13
    <3>2. \A g \in gaps : ~ (g > k)
      BY <1>1, <1>4
    <3>. HIDE DEF owned
    <3>. QED
      BY <1>1, <3>1, <3>2 DEF Opens
  <2>2. k \in owned
    OBVIOUS
  <2>. QED
    BY <1>10, <2>1, <2>2
<1>14. \A c, f, l : c # cpu /\ EntryIs(c, f, l) => EntryIs(c, f, l \/ lost)'
  BY <1>8
<1>15. \A f, l : EntryIs(cpu, f, l) /\ (l \/ lost) => EntryIs(cpu, ns, FALSE)'
  BY <1>11
<1>16. \A f : EntryIs(cpu, f, FALSE) /\ ~ lost => EntryIs(cpu, f, FALSE)'
  BY <1>12
<1>. QED
  BY <1>13, <1>14, <1>15, <1>16 DEF EntriesFollow

LEMMA UpdateKeepsWindows ==
    ASSUME LogInv, PlaceOK, CplTypeOK, WindowsOK, Update
    PROVE  CplTypeOK' /\ WindowsOK'
<1>. PICK k : k = eventCount - 1
  OBVIOUS
<1>. PICK cpu, ns, lost : cpu = eventList[k].cpu /\ ns = eventList[k].ns /\ lost = (k \in gaps)
  OBVIOUS
<1>. DEFINE list == IF lostRecFlagGlobal THEN Flagged(cpuList) ELSE cpuList
            Entries == [cpu : Cpus, firstNs : 1 .. MaxNs, lostRecFlag : BOOLEAN, totalTime : Times]
            fresh == [cpu |-> cpu, firstNs |-> ns, lostRecFlag |-> FALSE, totalTime |-> 0]
<1>1. /\ pc = "update" /\ pc' = "fetch" /\ UNCHANGED <<logVars, gaps>>
      /\ UpdateCpulist(event) /\ lostRecFlagGlobal' = FALSE
  BY DEF Update, Goto, UpdateCpulist
<1>2. /\ numEvents \in Nat /\ eventCount \in 1 .. numEvents /\ k \in Nat
      /\ eventList[k] \in Event /\ event = eventList[k]
  <2>1. eventCount > 0 /\ event # NoEvent
    BY <1>1 DEF PlaceOK
  <2>. QED
    BY <2>1, LogCounts DEF LogInv, Progress
<1>3. cpu \in Cpus /\ ns \in 1 .. MaxNs
  BY <1>2 DEF Event
<1>4. gaps \subseteq 0 .. eventCount - 1 /\ (lostRecFlagGlobal <=> lost)
      /\ cpuList \in Seq(Entries) /\ lostRecFlagGlobal \in BOOLEAN /\ lost \in BOOLEAN
  BY <1>1 DEF WindowsOK, CplTypeOK
<1>5. list \in Seq(Entries) /\ DOMAIN list = DOMAIN cpuList /\ Len(list) = Len(cpuList)
      /\ \A i \in DOMAIN cpuList :
           /\ list[i] \in Entries /\ cpuList[i] \in Entries
           /\ list[i].cpu = cpuList[i].cpu /\ list[i].firstNs = cpuList[i].firstNs
           /\ list[i].lostRecFlag = (cpuList[i].lostRecFlag \/ lost)
  <2>. HIDE DEF Entries
  <2>1. \A i \in DOMAIN cpuList : cpuList[i] \in Entries
    BY <1>4
  <2>2. \A i \in DOMAIN cpuList :
          LET e == [cpuList[i] EXCEPT !.lostRecFlag = TRUE]
          IN e \in Entries /\ e.cpu = cpuList[i].cpu /\ e.firstNs = cpuList[i].firstNs
             /\ e.lostRecFlag = TRUE
    BY <2>1 DEF Entries
  <2>3. CASE lost
    <3>1. list = [i \in DOMAIN cpuList |-> [cpuList[i] EXCEPT !.lostRecFlag = TRUE]]
      BY <1>4, <2>3 DEF Flagged
    <3>2. Len(cpuList) \in Nat /\ DOMAIN cpuList = 1 .. Len(cpuList)
      BY <1>4
    <3>3. list \in Seq(Entries) /\ Len(list) = Len(cpuList) /\ DOMAIN list = DOMAIN cpuList
      BY <2>2, <3>1, <3>2
    <3>. QED
      BY <2>1, <2>2, <2>3, <3>1, <3>3
  <2>4. CASE ~ lost
    <3>1. list = cpuList
      BY <1>4, <2>4
    <3>2. \A i \in DOMAIN cpuList : cpuList[i].lostRecFlag \in BOOLEAN
      BY <2>1 DEF Entries
    <3>. QED
      BY <1>4, <2>1, <2>4, <3>1, <3>2
  <2>. QED
    BY <2>3, <2>4
<1>6. EntriesFollow(cpu, ns, lost)
  <2>1. /\ LogInv /\ PlaceOK /\ gaps \subseteq 0 .. eventCount - 1
        /\ pc = "update" /\ pc' = "fetch" /\ UNCHANGED <<logVars, gaps>>
        /\ k = eventCount - 1 /\ cpu = eventList[k].cpu /\ ns = eventList[k].ns
        /\ lost \in BOOLEAN /\ (lost <=> k \in gaps)
    BY <1>1, <1>4
  <2>. QED
    BY ONLY <2>1, RecordCounted
<1>7. /\ \A c, f, l : c # cpu /\ EntryIs(c, f, l) => EntryIs(c, f, l \/ lost)'
      /\ \A f, l : EntryIs(cpu, f, l) /\ (l \/ lost) => EntryIs(cpu, ns, FALSE)'
      /\ \A f : EntryIs(cpu, f, FALSE) /\ ~ lost => EntryIs(cpu, f, FALSE)'
      /\ RecordsOf(cpu) = {} => EntryIs(cpu, ns, FALSE)'
  BY <1>6 DEF EntriesFollow
<1>8. /\ Counted' = Counted \cup {k} /\ eventList' = eventList
      /\ RecordsOf(cpu) = {j \in Counted : eventList[j].cpu = cpu}
  <2>1. Counted = 0 .. k-1 /\ Counted' = 0 .. k
    BY <1>1, <1>2 DEF Counted, logVars
  <2>. QED
    BY <1>1, <1>2, <2>1 DEF RecordsOf, logVars
<1>. HIDE DEF list, Entries, fresh
<1>9. ASSUME cpuList' \in Seq(Entries), DOMAIN cpuList \subseteq DOMAIN cpuList',
             \A j \in DOMAIN cpuList : cpuList'[j].cpu = cpuList[j].cpu,
             \A i, j \in DOMAIN cpuList' : cpuList'[i].cpu = cpuList'[j].cpu => i = j,
             \E j \in DOMAIN cpuList' : cpuList'[j].cpu = cpu,
             \A j \in DOMAIN cpuList' :
               \E c, f, l : /\ c = cpuList'[j].cpu /\ f = cpuList'[j].firstNs
                            /\ l = cpuList'[j].lostRecFlag /\ EntryIs(c, f, l)'
      PROVE  CplTypeOK' /\ WindowsOK'
  <2>1. CplTypeOK'
    <3>1. lostRecFlagGlobal' = FALSE /\ UNCHANGED <<avgTotalTime, maxCpuTotalTime>>
      BY <1>1 DEF UpdateCpulist
    <3>. QED
      BY <1>9, <3>1 DEF CplTypeOK, Entries
  <2>2. \A m \in Counted' : \E j \in DOMAIN cpuList' : cpuList'[j].cpu = eventList'[m].cpu
    <3>1. \A m \in Counted : \E j \in DOMAIN cpuList : cpuList[j].cpu = eventList[m].cpu
      BY DEF WindowsOK
    <3>. QED
      BY <1>8, <1>9, <3>1
  <2>3. ASSUME NEW j \in DOMAIN cpuList'
        PROVE  EntryIs(cpuList[j].cpu, cpuList[j].firstNs, cpuList[j].lostRecFlag)'
    <3>1. PICK c, f, l : /\ c = cpuList'[j].cpu /\ f = cpuList'[j].firstNs
                         /\ l = cpuList'[j].lostRecFlag /\ EntryIs(c, f, l)'
      BY <1>9
    <3>. QED
      BY <3>1 DEF EntryIs
  <2>4. gaps' \subseteq 0 .. eventCount' - 1 /\ pc' = "fetch" /\ lostRecFlagGlobal' = FALSE
    BY <1>1, <1>4 DEF logVars
  <2>. QED
    BY <1>9, <2>1, <2>2, <2>3, <2>4 DEF WindowsOK
<1>10. /\ \A i, j \in DOMAIN cpuList : cpuList[i].cpu = cpuList[j].cpu => i = j
      /\ \A i \in DOMAIN cpuList :
           EntryIs(cpuList[i].cpu, cpuList[i].firstNs, cpuList[i].lostRecFlag)
  BY DEF WindowsOK
<1>11. ASSUME NEW j \in DOMAIN cpuList, cpuList[j].cpu # cpu, cpuList'[j] = list[j]
       PROVE  \E c, f, l : /\ c = cpuList'[j].cpu /\ f = cpuList'[j].firstNs
                           /\ l = cpuList'[j].lostRecFlag /\ EntryIs(c, f, l)'
  <2>1. PICK c, f, l : c = cpuList[j].cpu /\ f = cpuList[j].firstNs /\ l = cpuList[j].lostRecFlag
    OBVIOUS
  <2>2. EntryIs(c, f, l \/ lost)'
    BY <1>7, <1>10, <1>11, <2>1
  <2>3. cpuList'[j].cpu = c /\ cpuList'[j].firstNs = f /\ cpuList'[j].lostRecFlag = (l \/ lost)
    BY <1>5, <1>11, <2>1
  <2>. QED
    BY <2>2, <2>3
<1>12. ASSUME NEW i \in DOMAIN list, list[i].cpu = event.cpu,
              cpuList' = IF list[i].lostRecFlag
                         THEN [list EXCEPT ![i].firstNs = event.ns, ![i].lostRecFlag = FALSE]
                         ELSE list
       PROVE  CplTypeOK' /\ WindowsOK'
  <2>. DEFINE opened == [list[i] EXCEPT !.firstNs = ns, !.lostRecFlag = FALSE]
  <2>1. /\ i \in DOMAIN cpuList /\ cpuList[i].cpu = cpu /\ list[i].cpu = cpu
        /\ event.cpu = cpu /\ event.ns = ns
    BY <1>2, <1>5, <1>12
  <2>2. /\ opened \in Entries /\ opened.cpu = cpu /\ opened.firstNs = ns
        /\ opened.lostRecFlag = FALSE
    <3>1. list[i] \in Entries
      BY <1>5, <2>1
    <3>. QED
      BY <1>3, <2>1, <3>1 DEF Entries
  <2>3. CASE list[i].lostRecFlag
    <3>1. cpuList' = [list EXCEPT ![i] = opened]
      BY <1>12, <2>1, <2>3
    <3>. HIDE DEF opened
    <3>2. cpuList' \in Seq(Entries) /\ DOMAIN cpuList' = DOMAIN cpuList /\ cpuList'[i] = opened
          /\ \A j \in DOMAIN cpuList : j # i => cpuList'[j] = list[j]
      BY <1>5, <2>1, <2>2, <3>1
    <3>3. \A j \in DOMAIN cpuList : cpuList'[j].cpu = cpuList[j].cpu
      BY <1>5, <2>1, <2>2, <3>2
    <3>4. EntryIs(cpu, ns, FALSE)'
      <4>1. PICK f, l : f = cpuList[i].firstNs /\ l = cpuList[i].lostRecFlag
        OBVIOUS
      <4>2. EntryIs(cpu, f, l) /\ (l \/ lost)
        BY <1>5, <1>10, <2>1, <2>3, <4>1
      <4>. QED
        BY <1>7, <4>2
    <3>5. ASSUME NEW j \in DOMAIN cpuList'
          PROVE  \E c, f, l : /\ c = cpuList'[j].cpu /\ f = cpuList'[j].firstNs
                              /\ l = cpuList'[j].lostRecFlag /\ EntryIs(c, f, l)'
      <4>1. CASE j = i
        BY <2>2, <3>2, <3>4, <4>1
      <4>2. CASE j # i
        BY <1>10, <1>11, <2>1, <3>2, <4>2
      <4>. QED
        BY <4>1, <4>2
    <3>. QED
      BY <1>9, <1>10, <2>1, <3>2, <3>3, <3>5
  <2>4. CASE ~ list[i].lostRecFlag
    <3>1. cpuList' = list
      BY <1>12, <2>4
    <3>2. cpuList' \in Seq(Entries) /\ DOMAIN cpuList' = DOMAIN cpuList
          /\ \A j \in DOMAIN cpuList : cpuList'[j] = list[j] /\ cpuList'[j].cpu = cpuList[j].cpu
      BY <1>5, <3>1
    <3>3. /\ cpuList[i].lostRecFlag = FALSE /\ ~ lost /\ cpuList'[i].lostRecFlag = FALSE
          /\ cpuList'[i].cpu = cpu /\ cpuList'[i].firstNs = cpuList[i].firstNs
      <4>1. cpuList[i].lostRecFlag \in BOOLEAN
        BY <1>5, <2>1 DEF Entries
      <4>. QED
        BY <1>4, <1>5, <2>1, <2>4, <3>2, <4>1
    <3>4. ASSUME NEW j \in DOMAIN cpuList'
          PROVE  \E c, f, l : /\ c = cpuList'[j].cpu /\ f = cpuList'[j].firstNs
                              /\ l = cpuList'[j].lostRecFlag /\ EntryIs(c, f, l)'
      <4>1. CASE j = i
        <5>1. PICK f : f = cpuList[i].firstNs
          OBVIOUS
        <5>2. EntryIs(cpu, f, FALSE)
          BY <1>10, <2>1, <3>3, <5>1
        <5>3. EntryIs(cpu, f, FALSE)'
          BY <1>7, <3>3, <5>2
        <5>. QED
          BY <3>3, <4>1, <5>1, <5>3
      <4>2. CASE j # i
        BY <1>10, <1>11, <2>1, <3>2, <4>2
      <4>. QED
        BY <4>1, <4>2
    <3>. QED
      BY <1>9, <1>10, <2>1, <3>2, <3>4
  <2>. QED
    BY <2>3, <2>4
<1>13. ASSUME \A i \in DOMAIN list : list[i].cpu # event.cpu, cpuList' = Append(list, fresh)
       PROVE  CplTypeOK' /\ WindowsOK'
  <2>. DEFINE n == Len(cpuList)
  <2>1. /\ n \in Nat /\ DOMAIN cpuList = 1 .. n /\ DOMAIN list = 1 .. n /\ Len(list) = n
        /\ event.cpu = cpu
    BY <1>2, <1>4, <1>5
  <2>2. /\ fresh \in Entries /\ fresh.cpu = cpu /\ fresh.firstNs = ns
        /\ fresh.lostRecFlag = FALSE
    BY <1>3, NsModulusAssumption DEF Entries, fresh, Times
  <2>3. /\ cpuList' \in Seq(Entries) /\ DOMAIN cpuList' = 1 .. n+1 /\ cpuList'[n+1] = fresh
        /\ \A j \in 1 .. n : cpuList'[j] = list[j]
    <3>1. list \in Seq(Entries) /\ Len(list) = n
      BY <1>5
    <3>. HIDE DEF n
    <3>. QED
      BY <1>13, <2>1, <2>2, <3>1
  <2>4. \A j \in 1 .. n : cpuList'[j].cpu = cpuList[j].cpu /\ cpuList[j].cpu # cpu
    BY <1>5, <1>13, <2>1, <2>3
  <2>5. RecordsOf(cpu) = {}
    <3>1. \A m \in Counted : \E j \in DOMAIN cpuList : cpuList[j].cpu = eventList[m].cpu
      BY DEF WindowsOK
    <3>. QED
      BY <1>8, <2>1, <2>4, <3>1
  <2>6. EntryIs(cpu, ns, FALSE)'
    BY <1>7, <2>5
  <2>. HIDE DEF n
  <2>7. ASSUME NEW j \in DOMAIN cpuList'
        PROVE  \E c, f, l : /\ c = cpuList'[j].cpu /\ f = cpuList'[j].firstNs
                            /\ l = cpuList'[j].lostRecFlag /\ EntryIs(c, f, l)'
    <3>1. CASE j = n+1
      BY <2>2, <2>3, <2>6, <3>1
    <3>2. CASE j # n+1
      <4>1. j \in 1 .. n
        BY <2>1, <2>3, <3>2
      <4>. QED
        BY <1>11, <2>1, <2>3, <2>4, <4>1
    <3>. QED
      BY <3>1, <3>2
  <2>8. \A i, j \in 1 .. n+1 : cpuList'[i].cpu = cpuList'[j].cpu => i = j
    <3>1. \A i \in 1 .. n+1 : i = n+1 \/ i \in 1 .. n
      BY <2>1
    <3>2. \A i \in 1 .. n : /\ cpuList'[i].cpu = cpuList[i].cpu
                             /\ cpuList'[i].cpu # cpuList'[n+1].cpu
      BY <2>2, <2>3, <2>4
    <3>3. \A i, j \in 1 .. n : cpuList[i].cpu = cpuList[j].cpu => i = j
      BY <1>10, <2>1
    <3>. QED
      BY <3>1, <3>2, <3>3
  <2>9. DOMAIN cpuList \subseteq DOMAIN cpuList' /\ n+1 \in DOMAIN cpuList'
    BY <2>1, <2>3
  <2>. QED
    BY <1>9, <2>1, <2>2, <2>3, <2>4, <2>7, <2>8, <2>9
<1>. QED
  BY <1>1, <1>2, <1>12, <1>13 DEF UpdateCpulist, list, fresh

(* What get_total_time reads of an entry and of the log *)
LEMMA WindowTimeType ==
    ASSUME LogInv, CplTypeOK, NEW i \in DOMAIN cpuList
    PROVE  /\ WindowTime(cpuList[i]) \in Times
           /\ GetFirstNs(cpuList[i]) = cpuList[i].firstNs
           /\ cpuList[i].firstNs \in 1 .. MaxNs
<1>1. cpuList[i].firstNs \in 1 .. MaxNs
  <2>. DEFINE Entries == [cpu : Cpus, firstNs : 1 .. MaxNs, lostRecFlag : BOOLEAN,
                          totalTime : Times]
  <2>1. cpuList \in Seq(Entries)
    BY DEF CplTypeOK
  <2>. HIDE DEF Entries
  <2>2. cpuList[i] \in Entries
    BY <2>1
  <2>. QED
    BY <2>2 DEF Entries
<1>2. GetFirstNs(cpuList[i]) = cpuList[i].firstNs
  BY <1>1, MaxNsAssumption DEF GetFirstNs
<1>3. GetLastNs(cpuList[i]) \in Int
  <2>. DEFINE searched == IndicesOf(cpuList[i].cpu) \ {0}
  <2>1. numEvents \in Nat /\ eventList \in [0 .. numEvents - 1 -> Event]
    BY LogCounts
  <2>2. searched \in SUBSET (0 .. numEvents) /\ searched \subseteq 0 .. numEvents - 1
    BY <2>1 DEF IndicesOf
  <2>3. GetLastNs(cpuList[i]) =
          IF open /\ searched # {}
          THEN eventList[CHOOSE j \in searched : \A m \in searched : j >= m].ns
          ELSE 0
    BY DEF GetLastNs, GetLastNsEvList
  <2>. HIDE DEF searched
  <2>4. CASE searched # {}
    <3>1. PICK last \in searched : \A m \in searched : m <= last
      BY <2>1, <2>2, <2>4, LargestIndex
    <3>2. \A m \in searched : last >= m
      BY <2>2, <3>1
    <3>3. PICK j \in searched : j = CHOOSE x \in searched : \A m \in searched : x >= m
      BY <3>2
    <3>4. eventList[j].ns \in Int
      BY <2>1, <2>2 DEF Event
    <3>. QED
      BY <2>3, <3>3, <3>4
  <2>. QED
    BY <2>3, <2>4
<1>. QED
  BY <1>1, <1>2, <1>3, MaxNsAssumption, MinusType DEF WindowTime

(* The largest of some times *)
LEMMA MaxOfTimes ==
    ASSUME NEW S \in SUBSET Times, S # {}
    PROVE  Max(S) \in S /\ \A x \in S : x <= Max(S)
<1>1. NsModulus - 1 \in Nat /\ S \in SUBSET (0 .. NsModulus - 1)
  BY NsModulusAssumption DEF Times
<1>2. PICK m \in S : \A x \in S : x <= m
  BY <1>1, LargestIndex
<1>3. \A x \in S : m >= x
  BY <1>1, <1>2
<1>4. Max(S) \in S /\ \A x \in S : Max(S) >= x
  BY <1>3 DEF Max
<1>. QED
  BY <1>1, <1>4

(* get_total_time keeps the types and all of an entry but its total. *)
LEMMA TotalsType ==
    ASSUME LogInv, CplTypeOK, GetTotalTime
    PROVE  /\ CplTypeOK'
           /\ DOMAIN cpuList' = DOMAIN cpuList
           /\ \A i \in DOMAIN cpuList : /\ cpuList'[i].cpu = cpuList[i].cpu
                                        /\ cpuList'[i].firstNs = cpuList[i].firstNs
                                        /\ cpuList'[i].lostRecFlag = cpuList[i].lostRecFlag
                                        /\ cpuList'[i].totalTime = WindowTime(cpuList[i])
           /\ \A i \in DOMAIN cpuList : WindowTime(cpuList[i]) <= maxCpuTotalTime'
<1>. DEFINE Entries == [cpu : Cpus, firstNs : 1 .. MaxNs, lostRecFlag : BOOLEAN, totalTime : Times]
            times == [i \in DOMAIN cpuList |-> WindowTime(cpuList[i])]
            n == Len(cpuList)
<1>1. /\ cpuList \in Seq(Entries) /\ DOMAIN cpuList = 1 .. n /\ n \in Nat /\ n # 0
      /\ \A i \in DOMAIN cpuList : cpuList[i] \in Entries
  <2>1. cpuList \in Seq(Entries) /\ cpuList # << >>
    BY DEF CplTypeOK, GetTotalTime
  <2>. HIDE DEF Entries
  <2>. QED
    BY <2>1
<1>2. times \in Seq(Times) /\ Len(times) = n /\ Range(times) \subseteq Times
      /\ \A i \in DOMAIN cpuList : times[i] = WindowTime(cpuList[i]) /\ times[i] \in Range(times)
  <2>1. \A i \in DOMAIN cpuList : WindowTime(cpuList[i]) \in Times
    BY WindowTimeType
  <2>. QED
    BY <1>1, <2>1 DEF Range
<1>3. /\ cpuList' = [i \in DOMAIN cpuList |-> [cpuList[i] EXCEPT !.totalTime = WindowTime(cpuList[i])]]
      /\ avgTotalTime' = TotalOf(times) \div n
      /\ maxCpuTotalTime' = Max({maxCpuTotalTime} \cup Range(times))
      /\ lostRecFlagGlobal' = lostRecFlagGlobal
  BY DEF GetTotalTime
<1>. HIDE DEF times, n, Entries
<1>4. /\ cpuList' \in Seq(Entries) /\ DOMAIN cpuList' = DOMAIN cpuList
      /\ \A i \in DOMAIN cpuList : /\ cpuList'[i].cpu = cpuList[i].cpu
                                   /\ cpuList'[i].firstNs = cpuList[i].firstNs
                                   /\ cpuList'[i].lostRecFlag = cpuList[i].lostRecFlag
                                   /\ cpuList'[i].totalTime = WindowTime(cpuList[i])
  <2>1. ASSUME NEW i \in DOMAIN cpuList
        PROVE  /\ cpuList'[i] \in Entries
               /\ cpuList'[i].cpu = cpuList[i].cpu
               /\ cpuList'[i].firstNs = cpuList[i].firstNs
               /\ cpuList'[i].lostRecFlag = cpuList[i].lostRecFlag
               /\ cpuList'[i].totalTime = WindowTime(cpuList[i])
    <3>1. WindowTime(cpuList[i]) \in Times /\ cpuList[i] \in Entries
      BY <1>1, WindowTimeType
    <3>2. cpuList'[i] = [cpuList[i] EXCEPT !.totalTime = WindowTime(cpuList[i])]
      BY <1>3
    <3>. QED
      BY <3>1, <3>2 DEF Entries
  <2>2. DOMAIN cpuList' = 1 .. n /\ cpuList' \in Seq(Entries)
    <3>1. cpuList' \in [1 .. n -> Entries]
      BY <1>1, <1>3, <2>1
    <3>. QED
      BY <1>1, <3>1
  <2>. QED
    BY <1>1, <2>1, <2>2
<1>5. avgTotalTime' \in Times
  <2>. DEFINE total == TotalOf(times)
  <2>1. total \in Times
    BY <1>2, TotalType
  <2>2. avgTotalTime' = total \div n
    BY <1>3
  <2>. HIDE DEF total
  <2>3. total \div n \in Nat /\ total \div n <= total
    BY <1>1, <2>1 DEF Times
  <2>. QED
    BY <2>1, <2>2, <2>3, NsModulusAssumption DEF Times
<1>6. /\ maxCpuTotalTime' \in Times
      /\ \A i \in DOMAIN cpuList : WindowTime(cpuList[i]) <= maxCpuTotalTime'
  <2>. DEFINE S == {maxCpuTotalTime} \cup Range(times)
  <2>1. S \in SUBSET Times /\ S # {}
    BY <1>2 DEF CplTypeOK
  <2>2. Max(S) \in S /\ \A x \in S : x <= Max(S)
    BY <2>1, MaxOfTimes
  <2>3. \A i \in DOMAIN cpuList : WindowTime(cpuList[i]) \in S
    BY <1>2
  <2>. QED
    BY <1>3, <2>1, <2>2, <2>3
<1>7. CplTypeOK'
  BY <1>3, <1>4, <1>5, <1>6 DEF CplTypeOK, Entries
<1>. QED
  BY <1>4, <1>6, <1>7

LEMMA WindowsStep ==
    LogInv /\ PlaceOK /\ CplTypeOK /\ WindowsOK /\ [Next]_readerVars => CplTypeOK' /\ WindowsOK'
<1>. SUFFICES ASSUME LogInv, PlaceOK, CplTypeOK, WindowsOK, [Next]_readerVars
              PROVE  CplTypeOK' /\ WindowsOK'
  OBVIOUS
<1>1. /\ Counted \subseteq 0 .. eventCount - 1 /\ Counted \subseteq 0 .. numEvents - 1
      /\ eventCount \in Nat /\ numEvents \in Nat
      /\ \A k \in Counted : k \in Nat /\ eventList[k] \in Event
  BY CountedIndices
<1>2. /\ gaps \subseteq 0 .. eventCount - 1
      /\ lostRecFlagGlobal <=> pc \in {"handle", "update"} /\ eventCount - 1 \in gaps
  BY DEF WindowsOK
<1>3. ASSUME UNCHANGED <<cplVars, gaps>>, Counted' = Counted,
             \A k \in Counted : /\ eventList'[k].cpu = eventList[k].cpu
                                /\ eventList'[k].ns = eventList[k].ns,
             gaps \subseteq 0 .. eventCount' - 1,
             lostRecFlagGlobal <=> pc' \in {"handle", "update"} /\ eventCount' - 1 \in gaps
      PROVE  CplTypeOK' /\ WindowsOK'
  <2>1. CplTypeOK'
    BY <1>3 DEF CplTypeOK, cplVars
  <2>2. WindowsOK'
    <3>1. cpuList' = cpuList /\ lostRecFlagGlobal' = lostRecFlagGlobal /\ gaps' = gaps
      BY <1>3 DEF cplVars
    <3>. QED
      BY <1>1, <1>3, <3>1, WindowsStay
  <2>. QED
    BY <2>1, <2>2
<1>4. ASSUME UNCHANGED <<logVars, cplVars, gaps>>,
             pc \in {"handle", "update"} <=> pc' \in {"handle", "update"}
      PROVE  CplTypeOK' /\ WindowsOK'
  <2>1. UNCHANGED <<cplVars, gaps, eventList, eventCount>>
    BY <1>4 DEF logVars
  <2>2. Counted' = Counted
    BY <1>4, <2>1 DEF Counted
  <2>. QED
    BY <1>2, <1>3, <1>4, <2>1, <2>2
<1>5. CASE OpenLog
  <2>1. eventCount = 0 /\ eventCount' = 0 /\ pc = "open" /\ pc' = "register"
        /\ UNCHANGED <<cplVars, gaps>>
    BY <1>5, LogCounts DEF OpenLog, SortEventsByNs, Goto
  <2>2. Counted = {} /\ Counted' = {}
    BY <2>1 DEF Counted
  <2>. QED
    BY <1>2, <1>3, <2>1, <2>2
<1>6. CASE Fetch
  <2>1. CASE ReturnNextEvent /\ Goto("handle")
    <3>1. /\ pc = "fetch" /\ pc' = "handle" /\ eventCount' = eventCount + 1
          /\ eventCount \in 0 .. numEvents - 1
          /\ eventList \in [0 .. numEvents - 1 -> Event] /\ UNCHANGED <<cplVars, gaps>>
      BY <1>1, <1>6, <2>1, LogCounts DEF Fetch, Goto, ReturnNextEvent
    <3>2. Counted' = Counted
      BY <1>1, <3>1 DEF Counted
    <3>3. \A k \in Counted : /\ eventList'[k].cpu = eventList[k].cpu
                             /\ eventList'[k].ns = eventList[k].ns
      <4>1. \A k \in Counted : k # eventCount
        BY <1>1
      <4>. QED
        BY <1>1, <2>1, <3>1, <4>1 DEF ReturnNextEvent
    <3>4. gaps \subseteq 0 .. eventCount' - 1 /\ ~ lostRecFlagGlobal /\ eventCount' - 1 \notin gaps
      BY <1>1, <1>2, <3>1
    <3>. QED
      BY <1>3, <3>1, <3>2, <3>3, <3>4
  <2>2. CASE ReturnNoEvent /\ Goto("total")
    <3>1. pc = "fetch" /\ pc' = "total" /\ UNCHANGED <<cplVars, gaps, eventList, eventCount>>
      BY <1>6, <2>2 DEF Fetch, ReturnNoEvent, Goto
    <3>2. Counted' = Counted
      BY <3>1 DEF Counted
    <3>. QED
      BY <1>2, <1>3, <3>1, <3>2
  <2>. QED
    BY <1>6, <2>1, <2>2 DEF Fetch
<1>7. CASE CallHandler
  <2>1. /\ pc = "handle" /\ pc' = pc /\ UNCHANGED logVars
        /\ UNCHANGED <<cpuList, avgTotalTime, maxCpuTotalTime>>
        /\ \/ lostRecFlagGlobal' = TRUE /\ gaps' = gaps \cup {eventCount - 1}
           \/ UNCHANGED <<lostRecFlagGlobal, gaps>>
    BY <1>7 DEF CallHandler, SetLastRecordFlag
  <2>2. UNCHANGED <<eventList, eventCount>> /\ Counted' = Counted /\ Counted = 0 .. eventCount - 2
    BY <2>1 DEF Counted, logVars
  <2>3. eventCount > 0
    BY <2>1 DEF PlaceOK
  <2>4. CplTypeOK'
    BY <2>1 DEF CplTypeOK
  <2>5. /\ gaps \subseteq gaps' /\ gaps' \subseteq 0 .. eventCount' - 1
        /\ \A g \in gaps' \ gaps : g = eventCount - 1
        /\ lostRecFlagGlobal' <=> pc' \in {"handle", "update"} /\ eventCount' - 1 \in gaps'
    <3>1. eventCount - 1 \in 0 .. eventCount - 1 /\ eventCount' = eventCount
          /\ pc' \in {"handle", "update"} /\ pc \in {"handle", "update"}
      BY <1>1, <2>1, <2>2, <2>3
    <3>2. CASE lostRecFlagGlobal' = TRUE /\ gaps' = gaps \cup {eventCount - 1}
      BY <1>2, <3>1, <3>2
    <3>3. CASE UNCHANGED <<lostRecFlagGlobal, gaps>>
      BY <1>2, <3>1, <3>3
    <3>. QED
      BY <2>1, <3>2, <3>3
  <2>6. \A g \in gaps' \ gaps : \A k \in Counted : k < g
    BY <1>1, <2>2, <2>5
  <2>7. WindowsOK'
    BY <1>1, <2>1, <2>2, <2>5, <2>6, WindowsStay
  <2>. QED
    BY <2>4, <2>7
<1>8. CASE Update
  BY <1>8, UpdateKeepsWindows
<1>9. CASE Total
  <2>1. /\ pc = "total" /\ pc' = "finalize" /\ UNCHANGED <<logVars, gaps>> /\ GetTotalTime
        /\ lostRecFlagGlobal' = lostRecFlagGlobal
    BY <1>9 DEF Total, Goto, GetTotalTime
  <2>2. UNCHANGED <<eventList, eventCount>> /\ Counted' = Counted
    BY <2>1 DEF Counted, logVars
  <2>3. /\ gaps \subseteq gaps' /\ gaps' \ gaps = {} /\ gaps' \subseteq 0 .. eventCount' - 1
        /\ lostRecFlagGlobal' <=> pc' \in {"handle", "update"} /\ eventCount' - 1 \in gaps'
    BY <1>2, <2>1, <2>2
  <2>4. WindowsOK'
    BY <1>1, <2>1, <2>2, <2>3, WindowsStay, TotalsType
  <2>. QED
    BY <2>1, <2>4, TotalsType
<1>10. CASE HandlersReturn
  BY <1>4, <1>10 DEF HandlersReturn, Goto
<1>11. CASE OpenFails \/ StartLoop \/ DivideByZero \/ ReaderExit
  BY <1>4, <1>11 DEF OpenFails, StartLoop, DivideByZero, ReaderExit, Goto
<1>12. CASE (\E h \in Handlers : Register(h)) \/ Terminated \/ UNCHANGED readerVars
  BY <1>4, <1>12 DEF Register, Terminated, readerVars
<1>13. CASE CallInitializers \/ CallFinalizers
  <2>1. /\ UNCHANGED <<logVars, cplVars, gaps>>
        /\ pc \in {"init", "finalize"} /\ pc' \in {"init", "fetch", "finalize", "exit"}
    BY <1>13 DEF CallInitializers, CallFinalizers, Walk, Goto
  <2>. QED
    BY <1>4, <2>1
<1>. QED
  BY <1>5, <1>6, <1>7, <1>8, <1>9, <1>10, <1>11, <1>12, <1>13 DEF Next

(* The largest and the smallest of some indices *)
LEMMA MaxIs ==
    ASSUME NEW S \in SUBSET Nat, NEW m \in S, \A x \in S : x <= m PROVE Max(S) = m
<1>1. \A x \in S : m >= x
  OBVIOUS
<1>2. ASSUME NEW j \in S, \A x \in S : j >= x PROVE j = m
  BY <1>2
<1>. QED
  BY <1>1, <1>2 DEF Max

LEMMA MinIs ==
    ASSUME NEW S \in SUBSET Nat, NEW m \in S, \A x \in S : m <= x PROVE Min(S) = m
<1>1. ASSUME NEW j \in S, \A x \in S : j <= x PROVE j = m
  BY <1>1
<1>. QED
  BY <1>1 DEF Min

(* The record at which a window opens is the one WindowStart finds. *)
LEMMA OpensAtStart ==
    ASSUME LogInv, PlaceOK, gaps \subseteq 0 .. eventCount - 1,
           NEW cpu, NEW w \in RecordsOf(cpu), Opens(w, RecordsOf(cpu))
    PROVE  WindowStart(cpu) = w
<1>. DEFINE own == RecordsOf(cpu)
            reopened == {g \in gaps : {i \in own : i >= g} # {}}
            since == {i \in own : i >= Max(reopened)}
<1>1. /\ own \in SUBSET Nat /\ w \in own /\ eventCount \in Nat
      /\ gaps \in SUBSET (0 .. eventCount) /\ gaps \in SUBSET Nat
  BY CountedIndices DEF RecordsOf
<1>2. WindowStart(cpu) = IF reopened = {} THEN Min(own) ELSE Min(since)
  BY DEF WindowStart
<1>3. /\ \A j \in own : j < w => \E g \in gaps : j < g /\ g <= w
      /\ \A g \in gaps : g > w => \A j \in own : j < g
  BY DEF Opens
<1>. HIDE DEF own
<1>4. reopened \in SUBSET (0 .. eventCount) /\ reopened \in SUBSET Nat
      /\ \A g \in gaps : g \in reopened <=> \E i \in own : i >= g
  BY <1>1
<1>5. CASE reopened = {}
  <2>1. ASSUME NEW j \in own PROVE w <= j
    <3>1. SUFFICES ASSUME j < w PROVE FALSE
      BY <1>1
    <3>2. PICK g \in gaps : j < g /\ g <= w
      BY <1>3, <3>1
    <3>3. g \in reopened
      BY <1>1, <1>4, <3>2
    <3>. QED
      BY <1>5, <3>3
  <2>. QED
    BY <1>1, <1>2, <1>5, <2>1, MinIs
<1>6. CASE reopened # {}
  <2>. HIDE DEF reopened
  <2>1. PICK m \in reopened : \A g \in reopened : g <= m
    BY <1>1, <1>4, <1>6, LargestIndex
  <2>2. Max(reopened) = m /\ m \in Nat
    BY <1>4, <2>1, MaxIs
  <2>3. m \in gaps /\ m <= w
    <3>1. m \in gaps
      BY DEF reopened
    <3>2. PICK i \in own : i >= m
      BY <1>4, <3>1
    <3>. QED
      BY <1>1, <1>3, <2>2, <3>1, <3>2
  <2>4. since \in SUBSET Nat /\ w \in since
    BY <1>1, <2>2, <2>3
  <2>5. ASSUME NEW j \in since PROVE w <= j
    <3>1. SUFFICES ASSUME j < w PROVE FALSE
      BY <1>1, <2>4
    <3>2. j \in own /\ j >= m /\ j \in Nat
      BY <1>1, <2>2
    <3>3. PICK g \in gaps : j < g /\ g <= w
      BY <1>3, <3>1, <3>2
    <3>4. g \in reopened /\ g \in Nat
      BY <1>1, <1>4, <3>3
    <3>. QED
      BY <2>1, <2>2, <3>2, <3>3, <3>4
  <2>. HIDE DEF since
  <2>6. Min(since) = w
    BY <2>4, <2>5, MinIs
  <2>. QED
    BY <1>2, <1>6, <2>6
<1>. QED
  BY <1>5, <1>6

LEMMA WindowsFollow == LogInv /\ PlaceOK /\ WindowsOK => WindowsFollowLog
<1>. SUFFICES ASSUME LogInv, PlaceOK, WindowsOK PROVE WindowsFollowLog
  OBVIOUS
<1>1. ASSUME NEW e \in Range(cpuList)
      PROVE  /\ \E i \in Counted : eventList[i].cpu = e.cpu
             /\ e.firstNs = eventList[WindowStart(e.cpu)].ns
  <2>1. PICK i \in DOMAIN cpuList : e = cpuList[i]
    BY DEF Range
  <2>2. EntryIs(e.cpu, e.firstNs, e.lostRecFlag)
    BY <2>1 DEF WindowsOK
  <2>3. PICK w \in RecordsOf(e.cpu) : Opens(w, RecordsOf(e.cpu)) /\ e.firstNs = eventList[w].ns
    BY <2>2 DEF EntryIs
  <2>4. WindowStart(e.cpu) = w
    BY <2>3, OpensAtStart DEF WindowsOK
  <2>. QED
    BY <2>3, <2>4 DEF RecordsOf
<1>2. \A k \in Counted : \E e \in Range(cpuList) : e.cpu = eventList[k].cpu
  BY DEF WindowsOK, Range
<1>3. {e.cpu : e \in Range(cpuList)} = {eventList[i].cpu : i \in Counted}
  BY <1>1, <1>2
<1>. QED
  BY <1>1, <1>3 DEF WindowsOK, WindowsFollowLog

-----------------------------------------------------------------------------
(* From get_total_time on, an entry's total is that of its window, and the *)
(* average that of all windows.                                            *)
AverageOfList ==
    avgTotalTime = TotalOf([i \in DOMAIN cpuList |-> WindowTime(cpuList[i])]) \div Len(cpuList)

TotalsOK ==
    pc \in {"finalize", "exit", "exited"} =>
      /\ \A i \in DOMAIN cpuList : /\ cpuList[i].totalTime = WindowTime(cpuList[i])
                                   /\ WindowTime(cpuList[i]) <= maxCpuTotalTime
      /\ AverageOfList

LEMMA TotalsStep ==
    LogInv /\ CplTypeOK /\ TotalsOK /\ [Next]_readerVars => TotalsOK'
<1>. SUFFICES ASSUME LogInv, CplTypeOK, TotalsOK, [Next]_readerVars PROVE TotalsOK'
  OBVIOUS
<1>1. CASE Total
  <2>1. UNCHANGED logVars /\ GetTotalTime
    BY <1>1 DEF Total
  <2>2. ASSUME NEW i \in DOMAIN cpuList'
        PROVE  WindowTime(cpuList[i])' = WindowTime(cpuList[i])
    <3>1. cpuList'[i].cpu = cpuList[i].cpu /\ cpuList'[i].firstNs = cpuList[i].firstNs
      BY <2>1, TotalsType
    <3>. QED
      BY <2>1, <3>1 DEF logVars, WindowTime, GetFirstNs, GetLastNs, GetFirstNsEvList,
                        GetLastNsEvList, IndicesOf
  <2>3. AverageOfList'
    <3>1. DOMAIN cpuList' = DOMAIN cpuList /\ Len(cpuList') = Len(cpuList)
      BY <2>1, TotalsType DEF CplTypeOK
    <3>2. [i \in DOMAIN cpuList |-> WindowTime(cpuList[i])]'
            = [i \in DOMAIN cpuList |-> WindowTime(cpuList[i])]
      BY <2>2, <3>1
    <3>. QED
      BY <2>1, <3>1, <3>2 DEF AverageOfList, GetTotalTime
  <2>. QED
    BY <2>1, <2>2, <2>3, TotalsType DEF TotalsOK
<1>2. ASSUME pc' \in {"finalize", "exit", "exited"}, ~ Total
      PROVE  pc \in {"finalize", "exit", "exited"} /\ UNCHANGED <<logVars, cplVars>>
  <2>1. CASE CallFinalizers
    BY <2>1 DEF CallFinalizers, Walk
  <2>2. CASE ReaderExit \/ Terminated \/ UNCHANGED readerVars
    BY <1>2, <2>2 DEF ReaderExit, Goto, Terminated, readerVars
  <2>3. CallFinalizers \/ ReaderExit \/ Terminated \/ UNCHANGED readerVars
    BY <1>2 DEF Next, OpenLog, OpenFails, Register, StartLoop, CallInitializers, Walk, Fetch,
                CallHandler, HandlersReturn, Update, DivideByZero, Goto
  <2>. QED
    BY <2>1, <2>2, <2>3
<1>3. ASSUME pc \in {"finalize", "exit", "exited"}, UNCHANGED <<logVars, cplVars>>
      PROVE  TotalsOK'
  <2>1. /\ cpuList' = cpuList /\ maxCpuTotalTime' = maxCpuTotalTime
        /\ avgTotalTime' = avgTotalTime
    BY <1>3 DEF cplVars
  <2>2. ASSUME NEW i \in DOMAIN cpuList'
        PROVE  WindowTime(cpuList[i])' = WindowTime(cpuList[i])
    BY <1>3, <2>1 DEF logVars, WindowTime, GetFirstNs, GetLastNs, GetFirstNsEvList,
                      GetLastNsEvList, IndicesOf
  <2>3. AverageOfList => AverageOfList'
    <3>1. [i \in DOMAIN cpuList |-> WindowTime(cpuList[i])]'
            = [i \in DOMAIN cpuList |-> WindowTime(cpuList[i])]
      BY <2>1, <2>2
    <3>. QED
      BY <2>1, <3>1 DEF AverageOfList
  <2>. QED
    BY <1>3, <2>1, <2>2, <2>3 DEF TotalsOK
<1>. QED
  BY <1>1, <1>2, <1>3 DEF TotalsOK

LEMMA TotalsAreExact ==
    LogInv /\ PlaceOK /\ CplTypeOK /\ WindowsOK /\ TotalsOK => TotalsExact
<1>. SUFFICES ASSUME LogInv, PlaceOK, CplTypeOK, WindowsOK, TotalsOK,
                     pc \in {"finalize", "exit", "exited"},
                     NEW e \in Range(cpuList), \E i \in RecordsOf(e.cpu) : i > 0
              PROVE  /\ GetTotalTimeCpu(e) = eventList[Max(RecordsOf(e.cpu))].ns
                                               - eventList[WindowStart(e.cpu)].ns
                     /\ GetTotalTimeCpu(e) <= maxCpuTotalTime
  BY DEF TotalsExact
<1>. DEFINE own == RecordsOf(e.cpu)
            w == WindowStart(e.cpu)
            searched == IndicesOf(e.cpu) \ {0}
<1>1. PICK i \in DOMAIN cpuList : e = cpuList[i]
  BY DEF Range
<1>2. /\ GetTotalTimeCpu(e) = WindowTime(e) /\ GetTotalTimeCpu(e) <= maxCpuTotalTime
      /\ GetFirstNs(e) = e.firstNs
  BY <1>1, WindowTimeType DEF TotalsOK, GetTotalTimeCpu
<1>3. /\ open /\ eventCount = numEvents /\ numEvents \in Nat
      /\ eventList \in [0 .. numEvents - 1 -> Event]
  BY LogCounts DEF PlaceOK
<1>4. own = IndicesOf(e.cpu) /\ own \in SUBSET (0 .. numEvents) /\ own \in SUBSET Nat
      /\ own \subseteq 0 .. numEvents - 1
  BY <1>3 DEF RecordsOf, Counted, IndicesOf
<1>5. w \in own /\ e.firstNs = eventList[w].ns
  <2>1. EntryIs(e.cpu, e.firstNs, e.lostRecFlag)
    BY <1>1 DEF WindowsOK
  <2>2. PICK v \in own : Opens(v, own) /\ e.firstNs = eventList[v].ns
    BY <2>1 DEF EntryIs
  <2>3. w = v
    BY <2>2, OpensAtStart DEF WindowsOK
  <2>. QED
    BY <2>2, <2>3
<1>6. searched = own \ {0} /\ searched # {}
  BY <1>4
<1>7. GetLastNs(e) = eventList[CHOOSE j \in searched : \A m \in searched : j >= m].ns
  BY <1>3, <1>6 DEF GetLastNs, GetLastNsEvList
<1>. HIDE DEF own, w, searched
<1>8. PICK last \in searched : \A j \in searched : j <= last
  BY <1>3, <1>4, <1>6, LargestIndex
<1>9. last \in own /\ last \in Nat /\ \A j \in own : j <= last
  BY <1>4, <1>6, <1>8
<1>10. Max(own) = last
  BY <1>4, <1>9, MaxIs
<1>11. (CHOOSE j \in searched : \A m \in searched : j >= m) = last
  <2>1. searched \in SUBSET Nat
    BY <1>4, <1>6
  <2>2. Max(searched) = last
    BY <1>8, <2>1, MaxIs
  <2>. QED
    BY <2>2 DEF Max
<1>12. /\ eventList[last].ns \in 1 .. MaxNs /\ eventList[w].ns \in 1 .. MaxNs
       /\ eventList[w].ns <= eventList[last].ns
  <2>1. last \in 0 .. numEvents - 1 /\ w \in 0 .. numEvents - 1 /\ w <= last
    BY <1>4, <1>5, <1>9
  <2>2. eventList[last] \in Event /\ eventList[w] \in Event
    BY <1>3, <2>1
  <2>3. w = last \/ w < last
    BY <1>3, <2>1
  <2>. QED
    BY <1>3, <2>1, <2>2, <2>3 DEF LogInv, IsSorted, Event
<1>13. WindowTime(e) = eventList[last].ns - eventList[w].ns
  <2>1. WindowTime(e) = Minus(eventList[last].ns, eventList[w].ns)
    BY <1>2, <1>5, <1>7, <1>11 DEF WindowTime
  <2>. QED
    BY <1>12, <2>1, MaxNsAssumption, StampsFitAssumption, NsModulusAssumption, MinusExact
<1>. QED
  BY <1>2, <1>10, <1>13 DEF own, w

(* get_last_ns finds the last record of the CPU, but for record 0. *)
LEMMA LastTimeIs ==
    ASSUME LogInv, PlaceOK, pc = "finalize", NEW e, \E i \in Counted : eventList[i].cpu = e.cpu
    PROVE  GetLastNs(e) = LastTime(e.cpu)
<1>. DEFINE own == RecordsOf(e.cpu)
            searched == IndicesOf(e.cpu) \ {0}
<1>1. open /\ eventCount = numEvents /\ numEvents \in Nat
  BY LogCounts DEF PlaceOK
<1>2. /\ own = IndicesOf(e.cpu) /\ own \in SUBSET (0 .. numEvents) /\ own \in SUBSET Nat
      /\ searched = own \ {0} /\ own # {}
  BY <1>1 DEF RecordsOf, Counted, IndicesOf
<1>3. GetLastNs(e) = IF searched # {}
                     THEN eventList[CHOOSE j \in searched : \A m \in searched : j >= m].ns
                     ELSE 0
  BY <1>1 DEF GetLastNs, GetLastNsEvList
<1>4. LastTime(e.cpu) = IF own = {0} THEN 0 ELSE eventList[Max(own)].ns
  BY DEF LastTime
<1>. HIDE DEF own, searched
<1>5. CASE searched = {}
  <2>1. own = {0}
    BY <1>2, <1>5
  <2>. QED
    BY <1>3, <1>4, <1>5, <2>1
<1>6. CASE searched # {}
  <2>1. searched \in SUBSET (0 .. numEvents) /\ searched \in SUBSET Nat
    BY <1>2
  <2>2. PICK last \in searched : \A j \in searched : j <= last
    BY <1>1, <1>6, <2>1, LargestIndex
  <2>3. last \in own /\ last \in Nat /\ \A j \in own : j <= last
    BY <1>2, <2>1, <2>2
  <2>4. Max(own) = last /\ Max(searched) = last
    BY <1>2, <2>1, <2>2, <2>3, MaxIs
  <2>5. own # {0}
    BY <1>2, <1>6
  <2>. QED
    BY <1>3, <1>4, <1>6, <2>4, <2>5 DEF Max
<1>. QED
  BY <1>5, <1>6

(* MapThenSumSet adds up the CPUs in an order of its own. *)
CpuTime(cpu) == Minus(LastTime(cpu), Entry(cpu).firstNs)

OneOf(s) == CHOOSE x \in s : TRUE

AddsUp(g, S) ==
    g = [s \in SUBSET S |-> IF s = {} THEN 0 ELSE CpuTime(OneOf(s)) + g[s \ {OneOf(s)}]]

SumOfCpus(S) == (CHOOSE g : AddsUp(g, S))[S]

LEMMA SumOfCpusIs ==
    ASSUME NEW S
    PROVE  MapThenSumSet(LAMBDA cpu : Minus(LastTime(cpu), Entry(cpu).firstNs), S) = SumOfCpus(S)
BY DEF MapThenSumSet, MapThenFoldSet, SumOfCpus, AddsUp, CpuTime, OneOf

LEMMA KeysCounted ==
    ASSUME NEW c, NEW n \in Nat, \A i, j \in 1 .. n : c[i] = c[j] => i = j,
           NEW S, \A i \in 1 .. n : c[i] \in S, \A x \in S : \E i \in 1 .. n : x = c[i]
    PROVE  IsFiniteSet(S) /\ Cardinality(S) = n
<1>. DEFINE at == [i \in 1 .. n |-> c[i]]
            I == 1 .. n
<1>1. IsFiniteSet(I)
  BY FS_Interval
<1>2. Cardinality(I) = n
  <2>1. Cardinality(I) = IF 1 > n THEN 0 ELSE n - 1 + 1
    BY FS_Interval
  <2>. QED
    BY <2>1
<1>3. at \in [I -> S]
  OBVIOUS
<1>4. \A i \in I : at[i] = c[i]
  OBVIOUS
<1>5. \A x \in S : \E i \in I : x = at[i]
  BY <1>4
<1>. HIDE DEF at, I
<1>6. at \in Surjection(I, S)
  BY <1>3, <1>4, <1>5 DEF Surjection
<1>7. at \in Injection(I, S)
  <2>1. \A i, j \in I : at[i] = at[j] => i = j
    BY <1>4 DEF I
  <2>. QED
    BY <1>3, <2>1 DEF Injection, IsInjective
<1>. QED
  BY <1>1, <1>2, <1>6, <1>7, FS_Surjection

LEMMA SubsetsWellFounded ==
    ASSUME NEW S, IsFiniteSet(S)
    PROVE  IsWellFoundedOn(StrictSubsetOrdering(S), SUBSET S)
BY FS_StrictSubsetOrderingWellFounded, FS_FiniteSubsetsOfFinite

(* Position i of a list has CPU c[i] and its time. *)
ListsTimes(c, n, times, S) ==
    /\ n \in Nat
    /\ \A i \in 1 .. n : times[i] \in Nat
    /\ \A i, j \in 1 .. n : c[i] = c[j] => i = j
    /\ \A i \in 1 .. n : CpuTime(c[i]) = times[i]
    /\ \A i \in 1 .. n : c[i] \in S
    /\ \A x \in S : \E i \in 1 .. n : x = c[i]

LEMMA SumOfList ==
    ASSUME NEW c, NEW n, NEW times, NEW S, ListsTimes(c, n, times, S)
    PROVE  SumOfCpus(S) = PartialSums(times, n)[n] /\ Cardinality(S) = n
<1>1. /\ n \in Nat /\ \A i \in 1 .. n : times[i] \in Nat
      /\ \A i, j \in 1 .. n : c[i] = c[j] => i = j
      /\ \A i \in 1 .. n : CpuTime(c[i]) = times[i]
      /\ \A i \in 1 .. n : c[i] \in S
      /\ \A x \in S : \E i \in 1 .. n : x = c[i]
  BY DEF ListsTimes
<1>2. Share(c, times, n, {}) = 0
  BY <1>1, ShareNone
<1>3. ASSUME NEW T \in SUBSET S, NEW x \in T
      PROVE  Share(c, times, n, T) = CpuTime(x) + Share(c, times, n, T \ {x})
  <2>. DEFINE R == T \ {x}
  <2>1. PICK k \in 1 .. n : x = c[k]
    BY <1>1, <1>3
  <2>2. R = T \ {c[k]} /\ c[k] \in T
    BY <1>3, <2>1
  <2>. HIDE DEF R
  <2>3. Share(c, times, n, T) = times[k] + Share(c, times, n, R)
    BY <1>1, <2>1, <2>2, ShareAdd
  <2>. QED
    BY <1>1, <2>1, <2>3 DEF R
<1>. DEFINE h == [s \in SUBSET S |-> Share(c, times, n, s)]
            g == CHOOSE f : AddsUp(f, S)
<1>4. IsFiniteSet(S) /\ Cardinality(S) = n
  BY <1>1, KeysCounted
<1>5. ASSUME NEW s \in SUBSET S, s # {}
      PROVE  /\ OneOf(s) \in s
             /\ Share(c, times, n, s) = CpuTime(OneOf(s)) + Share(c, times, n, s \ {OneOf(s)})
  <2>1. OneOf(s) \in s
    BY <1>5 DEF OneOf
  <2>. QED
    BY <1>3, <2>1
<1>6. AddsUp(h, S)
  <2>1. ASSUME NEW s \in SUBSET S
        PROVE  h[s] = IF s = {} THEN 0 ELSE CpuTime(OneOf(s)) + h[s \ {OneOf(s)}]
    <3>1. CASE s = {}
      BY <1>2, <3>1
    <3>2. CASE s # {}
      <4>1. s \ {OneOf(s)} \in SUBSET S
        OBVIOUS
      <4>. QED
        BY <1>5, <3>2, <4>1
    <3>. QED
      BY <3>1, <3>2
  <2>2. h = [s \in SUBSET S |-> h[s]]
    OBVIOUS
  <2>. HIDE DEF h
  <2>. QED
    BY <2>1, <2>2 DEF AddsUp
<1>7. AddsUp(g, S)
  BY <1>6
<1>. HIDE DEF g, h
<1>. DEFINE Bad == {s \in SUBSET S : g[s] # Share(c, times, n, s)}
<1>8. Bad = {}
  <2>1. SUFFICES ASSUME Bad # {} PROVE FALSE
    OBVIOUS
  <2>2. PICK s \in Bad : \A r \in Bad : ~ (<<r, s>> \in StrictSubsetOrdering(S))
    <3>1. IsWellFoundedOn(StrictSubsetOrdering(S), SUBSET S)
      BY <1>4, SubsetsWellFounded
    <3>2. Bad \subseteq SUBSET S
      OBVIOUS
    <3>. HIDE DEF Bad
    <3>. QED
      BY <2>1, <3>1, <3>2, WFMin
  <2>3. s \in SUBSET S /\ g[s] # Share(c, times, n, s)
    OBVIOUS
  <2>4. g[s] = IF s = {} THEN 0 ELSE CpuTime(OneOf(s)) + g[s \ {OneOf(s)}]
    BY <1>7, <2>3 DEF AddsUp
  <2>5. s # {}
    BY <1>2, <2>3, <2>4
  <2>6. s \ {OneOf(s)} \in SUBSET S /\ s \ {OneOf(s)} # s /\ s \ {OneOf(s)} \subseteq s
    BY <1>5, <2>3, <2>5
  <2>7. g[s \ {OneOf(s)}] = Share(c, times, n, s \ {OneOf(s)})
    BY <2>2, <2>6 DEF StrictSubsetOrdering
  <2>. QED
    BY <1>5, <2>3, <2>4, <2>5, <2>7
<1>9. g[S] = Share(c, times, n, S)
  BY <1>8
<1>10. Share(c, times, n, S) = PartialSums(times, n)[n]
  BY <1>1, ShareAll
<1>. QED
  BY <1>4, <1>9, <1>10 DEF g, SumOfCpus

(* The average the finalizers divide by *)
LEMMA AverageIsOfLog ==
    LogInv /\ PlaceOK /\ CplTypeOK /\ WindowsOK /\ TotalsOK => FinalizersSeeTotals
<1>. SUFFICES ASSUME LogInv, PlaceOK, CplTypeOK, WindowsOK, TotalsOK,
                     pc = "finalize", cpuList # << >>
              PROVE  /\ eventCount = Len(file)
                     /\ avgTotalTime =
                          (MapThenSumSet(LAMBDA cpu : Minus(LastTime(cpu), Entry(cpu).firstNs),
                                         {e.cpu : e \in Range(cpuList)}) % NsModulus)
                            \div Cardinality({e.cpu : e \in Range(cpuList)})
  BY DEF FinalizersSeeTotals
<1>. DEFINE n == Len(cpuList)
            S == {e.cpu : e \in Range(cpuList)}
            c == [i \in 1 .. n |-> cpuList[i].cpu]
            times == [i \in DOMAIN cpuList |-> WindowTime(cpuList[i])]
<1>1. eventCount = Len(file)
  BY DEF PlaceOK, LogInv, LogTypeOK
<1>2. n \in Nat /\ DOMAIN cpuList = 1 .. n
  BY DEF CplTypeOK
<1>3. (\A i \in 1 .. n : c[i] \in S) /\ \A x \in S : \E i \in 1 .. n : x = c[i]
  BY <1>2 DEF Range
<1>4. ASSUME NEW i \in 1 .. n, NEW j \in 1 .. n, c[i] = c[j] PROVE i = j
  BY <1>2, <1>4 DEF WindowsOK
<1>5. ASSUME NEW i \in 1 .. n
      PROVE  times[i] \in Times /\ CpuTime(c[i]) = times[i]
  <2>1. WindowTime(cpuList[i]) \in Times /\ GetFirstNs(cpuList[i]) = cpuList[i].firstNs
    BY <1>2, WindowTimeType
  <2>2. Entry(c[i]) = cpuList[i]
    <3>1. cpuList[i] \in Range(cpuList) /\ cpuList[i].cpu = c[i]
      BY <1>2 DEF Range
    <3>2. ASSUME NEW e \in Range(cpuList), e.cpu = c[i] PROVE e = cpuList[i]
      <4>1. PICK j \in 1 .. n : e = cpuList[j]
        BY <1>2 DEF Range
      <4>. QED
        BY <1>4, <3>2, <4>1
    <3>. QED
      BY <3>1, <3>2 DEF Entry
  <2>3. \E k \in Counted : eventList[k].cpu = cpuList[i].cpu
    BY <1>2 DEF WindowsOK, EntryIs, RecordsOf
  <2>4. GetLastNs(cpuList[i]) = LastTime(c[i])
    BY <1>2, <2>3, LastTimeIs
  <2>. QED
    BY <1>2, <2>1, <2>2, <2>4 DEF CpuTime, WindowTime
<1>6. times \in Seq(Times) /\ Len(times) = n
  BY <1>2, <1>5
<1>7. avgTotalTime = TotalOf(times) \div n
  BY DEF TotalsOK, AverageOfList
<1>8. \A i \in 1 .. n : times[i] \in Nat
  <2>. HIDE DEF times
  <2>. QED
    BY <1>5 DEF Times
<1>. HIDE DEF n, S, c, times
<1>9. TotalOf(times) = PartialSums(times, n)[n] % NsModulus
  BY <1>6, TotalWraps
<1>10. SumOfCpus(S) = PartialSums(times, n)[n] /\ Cardinality(S) = n
  <2>1. ListsTimes(c, n, times, S)
    BY <1>2, <1>3, <1>4, <1>5, <1>8 DEF ListsTimes
  <2>. QED
    BY <2>1, SumOfList
<1>11. MapThenSumSet(LAMBDA cpu : Minus(LastTime(cpu), Entry(cpu).firstNs), S)
         = SumOfCpus(S)
  BY SumOfCpusIs
<1>. QED
  BY <1>1, <1>7, <1>9, <1>10, <1>11 DEF S

-----------------------------------------------------------------------------
(* The registry.  ListOf(s) holds handlers of one id in the order they     *)
(* registered, slots fill from the front in the order their ids came, and  *)
(* a handler is turned away only when all slots belong to earlier ids.     *)
IdOf(s) == handlerArray[s].event_id
ListOf(s) == handlerArray[s].handler_list
SlotType == [event_id : {0} \cup Range(EventIdOf), handler_list : Seq(Handlers)]

Listed(h) == \E s \in Slots : \E k \in DOMAIN ListOf(s) : ListOf(s)[k] = h

(* id was registered before the i-th registration *)
CameBefore(id, i) == \E j \in DOMAIN order : j < i /\ EventIdOf[order[j]] = id

TurnedAway(i) == \A s \in Slots : /\ IdOf(s) \notin {0, EventIdOf[order[i]]}
                                  /\ CameBefore(IdOf(s), i)

ListsOK ==
    \A s \in Slots :
      /\ IdOf(s) = 0 <=> ListOf(s) = << >>
      /\ \A k \in DOMAIN ListOf(s) : \E i \in DOMAIN order : order[i] = ListOf(s)[k]
      /\ \A k \in DOMAIN ListOf(s) : EventIdOf[ListOf(s)[k]] = IdOf(s)
      /\ \A k, l \in DOMAIN ListOf(s) : \A i, j \in DOMAIN order :
           k < l /\ order[i] = ListOf(s)[k] /\ order[j] = ListOf(s)[l] => i < j

RegistryOK ==
    /\ handlerArray \in [Slots -> SlotType]
    /\ order \in Seq(Handlers)
    /\ \A i, j \in DOMAIN order : order[i] = order[j] => i = j
    /\ SlotsCompact
    /\ ListsOK
    /\ \A i \in DOMAIN order : Listed(order[i]) \/ TurnedAway(i)
    /\ \A s, t \in Slots : s < t /\ IdOf(t) # 0 =>
         \A i \in DOMAIN order : EventIdOf[order[i]] = IdOf(t) => CameBefore(IdOf(s), i)

-----------------------------------------------------------------------------
(* The callbacks.  Due(c): callback c has been made by now. *)
CallRecords == [kind : {"init", "process", "finalize"}, handler : Handlers,
                index : -1 .. MaxRecords - 1]

Passed(h) == \E s \in Slots : \E k \in DOMAIN ListOf(s) :
               /\ ListOf(s)[k] = h
               /\ \/ s < cursor.slot
                  \/ s = cursor.slot /\ k < cursor.k

Reached(h) == \E k \in DOMAIN CalledFor(event.event_id) :
                k < cursor.k /\ CalledFor(event.event_id)[k] = h

Initialized(h) == \/ pc = "init" /\ Passed(h)
                  \/ pc \notin {"open", "register", "stopped", "init"} /\ Listed(h)
Seen(h, i) == /\ i \in 0 .. eventCount - 1
              /\ Listed(h) /\ eventList[i].event_id = EventIdOf[h]
              /\ (pc = "handle" /\ i = eventCount - 1) => Reached(h)
Finalized(h) == \/ pc = "finalize" /\ Passed(h)
                \/ pc \in {"exit", "exited"} /\ Listed(h)

Due(c) == \/ c.kind = "init" /\ c.index = -1 /\ Initialized(c.handler)
          \/ c.kind = "process" /\ Seen(c.handler, c.index)
          \/ c.kind = "finalize" /\ c.index = -1 /\ Finalized(c.handler)

CallsOK ==
    /\ cursor \in [slot : 0 .. MaxEvents, k : Nat \ {0}]
    /\ calls \in Seq(CallRecords)
    /\ pc \in {"open", "register"} => calls = << >>
    /\ \A c \in CallRecords : (\E i \in DOMAIN calls : calls[i] = c) <=> Due(c)
    /\ CallOrder

-----------------------------------------------------------------------------
LEMMA RegistryInit == Init => RegistryOK
<1>. SUFFICES ASSUME Init PROVE RegistryOK
  OBVIOUS
<1>1. order = << >> /\ DOMAIN order = {} /\ order \in Seq(Handlers)
  BY DEF Init
<1>2. \A s \in Slots : IdOf(s) = 0 /\ ListOf(s) = << >> /\ DOMAIN ListOf(s) = {}
                       /\ handlerArray[s].event_id = 0
  BY DEF Init, EvhInit, FreeSlot, IdOf, ListOf
<1>3. handlerArray \in [Slots -> SlotType]
  <2>1. \A S : << >> \in Seq(S)
    OBVIOUS
  <2>2. FreeSlot \in SlotType
    BY <2>1 DEF FreeSlot, SlotType
  <2>. QED
    BY <2>2 DEF Init, EvhInit
<1>4. SlotsCompact
  BY <1>2 DEF SlotsCompact
<1>5. ListsOK
  BY <1>1, <1>2 DEF ListsOK
<1>. QED
  BY <1>1, <1>2, <1>3, <1>4, <1>5 DEF RegistryOK

(* Slots are natural numbers, so that a search that can stop does stop. *)
LEMMA SearchStops ==
    ASSUME NEW ids, SlotsWith(ids) # {}
    PROVE  \E slot \in Slots : IsFirst(slot, SlotsWith(ids))
<1>1. SlotsWith(ids) \in SUBSET Nat /\ SlotsWith(ids) \subseteq Slots
  BY MaxEventsAssumption DEF SlotsWith, Slots
<1>2. PICK m \in SlotsWith(ids) : \A t \in SlotsWith(ids) : m <= t
  BY <1>1, LeastNatural
<1>. QED
  BY <1>1, <1>2 DEF IsFirst

LEMMA SlotFacts ==
    ASSUME RegistryOK, NEW s \in Slots
    PROVE  /\ IdOf(s) \in Nat /\ ListOf(s) \in Seq(Handlers)
           /\ handlerArray[s] \in SlotType
           /\ DOMAIN ListOf(s) = 1 .. Len(ListOf(s)) /\ Len(ListOf(s)) \in Nat
           /\ IdOf(s) # 0 => 1 \in DOMAIN ListOf(s) /\ CameBefore(IdOf(s), Len(order) + 1)
<1>1. handlerArray[s] \in SlotType
  BY DEF RegistryOK
<1>2. IdOf(s) \in {0} \cup Range(EventIdOf) /\ ListOf(s) \in Seq(Handlers)
  BY <1>1 DEF SlotType, IdOf, ListOf
<1>3. Range(EventIdOf) \subseteq Nat
  BY EventIdOfAssumption DEF Range
<1>4. DOMAIN ListOf(s) = 1 .. Len(ListOf(s)) /\ Len(ListOf(s)) \in Nat
  BY <1>2
<1>5. ASSUME IdOf(s) # 0
      PROVE  1 \in DOMAIN ListOf(s) /\ CameBefore(IdOf(s), Len(order) + 1)
  <2>1. ListOf(s) # << >>
    BY <1>5 DEF RegistryOK, ListsOK
  <2>2. 1 \in DOMAIN ListOf(s)
    BY <1>2, <2>1
  <2>3. PICK i \in DOMAIN order : order[i] = ListOf(s)[1]
    BY <2>2 DEF RegistryOK, ListsOK
  <2>4. EventIdOf[order[i]] = IdOf(s)
    BY <2>2, <2>3 DEF RegistryOK, ListsOK
  <2>5. i < Len(order) + 1
    BY DEF RegistryOK
  <2>. QED
    BY <2>2, <2>4, <2>5 DEF CameBefore
<1>. QED
  BY <1>1, <1>2, <1>3, <1>4, <1>5

LEMMA Appended ==
    ASSUME NEW S, NEW q \in Seq(S), NEW e \in S
    PROVE  /\ Append(q, e) # << >> /\ DOMAIN Append(q, e) = 1 .. Len(q) + 1
           /\ Append(q, e)[Len(q) + 1] = e
           /\ \A k \in 1 .. Len(q) : Append(q, e)[k] = q[k]
OBVIOUS

LEMMA RegisterKeepsRegistry ==
    ASSUME RegistryOK, NEW h \in Handlers, Register(h)
    PROVE  RegistryOK'
<1>. DEFINE id == EventIdOf[h]
            n == Len(order)
<1>1. id \in Nat /\ id # 0 /\ id \in Range(EventIdOf)
  BY EventIdOfAssumption DEF Range
<1>2. /\ order \in Seq(Handlers) /\ n \in Nat /\ DOMAIN order = 1 .. n
      /\ order' \in Seq(Handlers) /\ DOMAIN order' = 1 .. n+1
      /\ order'[n+1] = h /\ \A i \in 1 .. n : order'[i] = order[i]
  BY DEF RegistryOK, Register
<1>3. \A i \in 1 .. n : order[i] # h
  BY <1>2 DEF Register, Range
<1>. HIDE DEF n
<1>4. \A i, j \in DOMAIN order' : order'[i] = order'[j] => i = j
  <2>1. \A i \in 1 .. n+1 : i = n+1 \/ i \in 1 .. n
    BY <1>2
  <2>. QED
    BY <1>2, <1>3, <2>1 DEF RegistryOK
<1>5. ASSUME NEW x, NEW i \in 1 .. n+1, \E j \in 1 .. n : j < i /\ EventIdOf[order[j]] = x
      PROVE  CameBefore(x, i)'
  BY <1>2, <1>5 DEF CameBefore
<1>6. \A s \in Slots : IdOf(s) # 0 => \E j \in 1 .. n : j < n+1 /\ EventIdOf[order[j]] = IdOf(s)
  BY <1>2, SlotFacts DEF CameBefore, n
<1>7. /\ handlerArray \in [Slots -> SlotType] /\ SlotsCompact /\ ListsOK
      /\ Slots \subseteq Nat
      /\ \A i \in 1 .. n : Listed(order[i]) \/ TurnedAway(i)
      /\ \A s, t \in Slots : s < t /\ IdOf(t) # 0 =>
           \A i \in 1 .. n : EventIdOf[order[i]] = IdOf(t) => CameBefore(IdOf(s), i)
  <2>1. Slots \subseteq Nat
    BY MaxEventsAssumption DEF Slots
  <2>. QED
    BY <1>2, <2>1 DEF RegistryOK
<1>8. \A x, i : i \in 1 .. n /\ CameBefore(x, i) => CameBefore(x, i)'
  <2>1. SUFFICES ASSUME NEW x, NEW i \in 1 .. n, CameBefore(x, i) PROVE CameBefore(x, i)'
    OBVIOUS
  <2>2. \E j \in 1 .. n : j < i /\ EventIdOf[order[j]] = x
    BY <1>2, <2>1 DEF CameBefore
  <2>3. i \in 1 .. n+1
    BY <1>2
  <2>. QED
    BY <1>5, <2>2, <2>3
<1>9. \A s, t \in Slots : s < t /\ IdOf(t) # 0 => IdOf(s) # 0
  BY <1>7 DEF SlotsCompact, IdOf
<1>10. ASSUME NEW s \in Slots, IdOf(s)' = IdOf(s), ListOf(s)' = ListOf(s)
       PROVE  /\ IdOf(s)' = 0 <=> ListOf(s)' = << >>
              /\ \A k \in DOMAIN ListOf(s)' : \E i \in DOMAIN order' : order'[i] = ListOf(s)'[k]
              /\ \A k \in DOMAIN ListOf(s)' : EventIdOf[ListOf(s)'[k]] = IdOf(s)'
              /\ \A k, l \in DOMAIN ListOf(s)' : \A i, j \in DOMAIN order' :
                   k < l /\ order'[i] = ListOf(s)'[k] /\ order'[j] = ListOf(s)'[l] => i < j
  <2>1. \A k \in DOMAIN ListOf(s) : \E i \in 1 .. n : order[i] = ListOf(s)[k]
    BY <1>2, <1>7 DEF ListsOK
  <2>2. \A k \in DOMAIN ListOf(s) : \A i \in 1 .. n+1 :
          order'[i] = ListOf(s)[k] => i \in 1 .. n /\ order[i] = ListOf(s)[k]
    <3>1. \A i \in 1 .. n+1 : i = n+1 \/ i \in 1 .. n
      BY <1>2
    <3>. QED
      BY <1>2, <1>3, <2>1, <3>1
  <2>3. \A k, l \in DOMAIN ListOf(s) : \A i, j \in 1 .. n :
          k < l /\ order[i] = ListOf(s)[k] /\ order[j] = ListOf(s)[l] => i < j
    <3>1. \A k, l \in DOMAIN ListOf(s) : \A i, j \in DOMAIN order :
            k < l /\ order[i] = ListOf(s)[k] /\ order[j] = ListOf(s)[l] => i < j
      BY <1>7 DEF ListsOK
    <3>. QED
      BY <1>2, <3>1
  <2>4. /\ IdOf(s) = 0 <=> ListOf(s) = << >>
        /\ \A k \in DOMAIN ListOf(s) : EventIdOf[ListOf(s)[k]] = IdOf(s)
    BY <1>7 DEF ListsOK
  <2>5. \A k \in DOMAIN ListOf(s) : \E i \in 1 .. n+1 : order'[i] = ListOf(s)[k]
    <3>1. 1 .. n \subseteq 1 .. n+1
      BY <1>2
    <3>. QED
      BY <1>2, <2>1, <3>1
  <2>6. \A k, l \in DOMAIN ListOf(s) : \A i, j \in 1 .. n+1 :
          k < l /\ order'[i] = ListOf(s)[k] /\ order'[j] = ListOf(s)[l] => i < j
    BY <2>2, <2>3
  <2>. QED
    BY <1>2, <1>10, <2>4, <2>5, <2>6
<1>11. ASSUME \A slot \in Slots : ~ Accepts(slot, h) PROVE RegistryOK'
  <2>1. handlerArray' = handlerArray
    BY <1>11 DEF Register, EvhRegisterHandler
  <2>2. SlotsWith({0, id}) = {}
    BY <1>11, SearchStops DEF Accepts
  <2>3. \A s \in Slots : IdOf(s) # 0 /\ IdOf(s) # id
    BY <2>2 DEF SlotsWith, IdOf
  <2>4. \A s : IdOf(s)' = IdOf(s) /\ ListOf(s)' = ListOf(s)
    BY <2>1 DEF IdOf, ListOf
  <2>5. ListsOK'
    <3>. SUFFICES ASSUME NEW s \in Slots
                  PROVE  /\ IdOf(s)' = 0 <=> ListOf(s)' = << >>
                         /\ \A k \in DOMAIN ListOf(s)' :
                              \E i \in DOMAIN order' : order'[i] = ListOf(s)'[k]
                         /\ \A k \in DOMAIN ListOf(s)' : EventIdOf[ListOf(s)'[k]] = IdOf(s)'
                         /\ \A k, l \in DOMAIN ListOf(s)' : \A i, j \in DOMAIN order' :
                              k < l /\ order'[i] = ListOf(s)'[k] /\ order'[j] = ListOf(s)'[l]
                                => i < j
      BY DEF ListsOK
    <3>. QED
      BY <1>10, <2>4
  <2>6. ASSUME NEW i \in 1 .. n+1 PROVE (Listed(order[i]) \/ TurnedAway(i))'
    <3>1. CASE i = n+1
      <4>1. \A s \in Slots : CameBefore(IdOf(s), i)'
        BY <1>2, <1>5, <1>6, <2>3, <2>4, <3>1
      <4>. QED
        BY <1>2, <2>3, <2>4, <3>1, <4>1 DEF TurnedAway
    <3>2. CASE i \in 1 .. n /\ Listed(order[i])
      BY <1>2, <2>4, <3>2 DEF Listed
    <3>3. CASE i \in 1 .. n /\ TurnedAway(i)
      <4>1. \A s \in Slots : IdOf(s) \notin {0, EventIdOf[order[i]]} /\ CameBefore(IdOf(s), i)
        BY <3>3 DEF TurnedAway
      <4>2. \A s \in Slots : CameBefore(IdOf(s), i)'
        BY <1>8, <2>4, <3>3, <4>1
      <4>. QED
        BY <1>2, <2>4, <3>3, <4>1, <4>2 DEF TurnedAway
    <3>. QED
      BY <1>2, <1>7, <3>1, <3>2, <3>3
  <2>7. ASSUME NEW s \in Slots, NEW t \in Slots, s < t, IdOf(t) # 0,
               NEW i \in 1 .. n+1, EventIdOf[order'[i]] = IdOf(t)
        PROVE  CameBefore(IdOf(s), i)'
    <3>1. i \in 1 .. n
      BY <1>2, <2>3, <2>7
    <3>2. CameBefore(IdOf(s), i)
      BY <1>2, <1>7, <2>7, <3>1
    <3>. QED
      BY <1>8, <2>4, <3>1, <3>2
  <2>8. SlotsCompact'
    BY <1>7, <2>1 DEF SlotsCompact
  <2>. QED
    BY <1>2, <1>4, <1>7, <2>1, <2>4, <2>5, <2>6, <2>7, <2>8 DEF RegistryOK
<1>12. ASSUME NEW slot \in Slots, Accepts(slot, h),
              handlerArray' = [handlerArray EXCEPT ![slot] =
                                 [event_id |-> EventIdOf[h],
                                  handler_list |-> Append(@.handler_list, h)]]
       PROVE  RegistryOK'
  <2>. DEFINE m == Len(ListOf(slot))
              old == ListOf(slot)
              new == Append(old, h)
  <2>1. /\ slot \in Nat /\ old \in Seq(Handlers) /\ m \in Nat /\ DOMAIN old = 1 .. m
        /\ handlerArray[slot] \in SlotType /\ old = handlerArray[slot].handler_list
    BY <1>7, SlotFacts DEF ListOf
  <2>2. /\ IdOf(slot) \in {0, id}
        /\ \A s \in Slots : s < slot => IdOf(s) # 0 /\ IdOf(s) # id
    <3>1. IsFirst(slot, SlotsWith({0, id}))
      BY <1>12 DEF Accepts
    <3>. QED
      BY <1>7, <3>1 DEF IsFirst, SlotsWith, IdOf
  <2>3. /\ IdOf(slot)' = id /\ ListOf(slot)' = Append(old, h)
        /\ \A s \in Slots : s # slot => IdOf(s)' = IdOf(s) /\ ListOf(s)' = ListOf(s)
        /\ handlerArray' \in [Slots -> SlotType]
    <3>1. handlerArray' = [handlerArray EXCEPT ![slot] =
                             [event_id |-> id, handler_list |-> Append(old, h)]]
      BY <1>12, <2>1
    <3>2. [event_id |-> id, handler_list |-> Append(old, h)] \in SlotType
      BY <1>1, <2>1 DEF SlotType
    <3>. HIDE DEF old, m
    <3>3. /\ handlerArray'[slot] = [event_id |-> id, handler_list |-> Append(old, h)]
          /\ \A s \in Slots : s # slot => handlerArray'[s] = handlerArray[s]
          /\ handlerArray' \in [Slots -> SlotType]
      BY <1>7, <3>1, <3>2
    <3>. QED
      BY <3>3 DEF IdOf, ListOf
  <2>4. \A s \in Slots : s # slot => IdOf(s) # id
    <3>1. SUFFICES ASSUME NEW s \in Slots, s # slot, IdOf(s) = id PROVE FALSE
      OBVIOUS
    <3>2. s > slot
      BY <1>7, <2>2, <3>1
    <3>. QED
      BY <1>1, <1>7, <2>2, <3>1, <3>2 DEF SlotsCompact, IdOf
  <2>5. IdOf(slot) = 0 => \A i \in 1 .. n : EventIdOf[order[i]] # id
    <3>1. SUFFICES ASSUME IdOf(slot) = 0, NEW i \in 1 .. n, EventIdOf[order[i]] = id
                   PROVE  FALSE
      OBVIOUS
    <3>2. ~ TurnedAway(i)
      BY <3>1 DEF TurnedAway
    <3>3. PICK s \in Slots : \E k \in DOMAIN ListOf(s) : ListOf(s)[k] = order[i]
      BY <1>7, <3>2 DEF Listed
    <3>4. IdOf(s) = id
      BY <1>7, <3>1, <3>3 DEF ListsOK
    <3>. QED
      BY <1>1, <2>4, <3>1, <3>4
  <2>6. \A s \in Slots : IdOf(s) # 0 => IdOf(s)' = IdOf(s)
    BY <2>2, <2>3
  <2>7. SlotsCompact'
    <3>1. SUFFICES ASSUME NEW s \in Slots, NEW t \in Slots, s < t
                   PROVE  /\ IdOf(s)' = 0 => IdOf(t)' = 0
                          /\ IdOf(s)' = IdOf(t)' => IdOf(t)' = 0
      BY DEF SlotsCompact, IdOf
    <3>2. /\ IdOf(s) = 0 => IdOf(t) = 0
          /\ IdOf(s) = IdOf(t) => IdOf(t) = 0
      BY <1>7, <3>1 DEF SlotsCompact, IdOf
    <3>3. CASE s = slot
      BY <1>1, <2>2, <2>3, <2>4, <3>1, <3>2, <3>3
    <3>4. CASE t = slot
      BY <1>1, <2>2, <2>3, <2>4, <3>1, <3>2, <3>4
    <3>5. CASE s # slot /\ t # slot
      BY <2>3, <3>2, <3>5
    <3>. QED
      BY <3>3, <3>4, <3>5
  <2>8. /\ new # << >> /\ DOMAIN new = 1 .. m+1 /\ new[m+1] = h
        /\ \A k \in 1 .. m : new[k] = old[k]
    BY <2>1, Appended
  <2>9. ListsOK'
    <3>. SUFFICES ASSUME NEW s \in Slots
                  PROVE  /\ IdOf(s)' = 0 <=> ListOf(s)' = << >>
                         /\ \A k \in DOMAIN ListOf(s)' :
                              \E i \in DOMAIN order' : order'[i] = ListOf(s)'[k]
                         /\ \A k \in DOMAIN ListOf(s)' : EventIdOf[ListOf(s)'[k]] = IdOf(s)'
                         /\ \A k, l \in DOMAIN ListOf(s)' : \A i, j \in DOMAIN order' :
                              k < l /\ order'[i] = ListOf(s)'[k] /\ order'[j] = ListOf(s)'[l]
                                => i < j
      BY DEF ListsOK
    <3>1. CASE s # slot
      BY <1>10, <2>3, <3>1
    <3>2. CASE s = slot
      <4>1. /\ \A k \in 1 .. m : \E i \in 1 .. n : order[i] = old[k]
            /\ \A k \in 1 .. m : EventIdOf[old[k]] = IdOf(slot)
            /\ IdOf(slot) = 0 => m = 0
            /\ \A k, l \in 1 .. m : \A i, j \in 1 .. n :
                 k < l /\ order[i] = old[k] /\ order[j] = old[l] => i < j
        <5>1. IdOf(slot) = 0 => m = 0
          BY <1>7 DEF ListsOK
        <5>2. /\ \A k \in DOMAIN old : \E i \in DOMAIN order : order[i] = old[k]
              /\ \A k \in DOMAIN old : EventIdOf[old[k]] = IdOf(slot)
              /\ \A k, l \in DOMAIN old : \A i, j \in DOMAIN order :
                   k < l /\ order[i] = old[k] /\ order[j] = old[l] => i < j
          BY <1>7 DEF ListsOK
        <5>. HIDE DEF old, m
        <5>. QED
          BY <1>2, <2>1, <5>1, <5>2
      <4>. HIDE DEF old, m, n, new
      <4>2. /\ new # << >> /\ DOMAIN new = 1 .. m+1 /\ new[m+1] = h
            /\ \A k \in 1 .. m : new[k] = old[k]
            /\ \A k \in 1 .. m+1 : k = m+1 \/ k \in 1 .. m
            /\ \A i \in 1 .. n+1 : i = n+1 \/ i \in 1 .. n
        <5>1. /\ \A k \in 1 .. m+1 : k = m+1 \/ k \in 1 .. m
              /\ \A i \in 1 .. n+1 : i = n+1 \/ i \in 1 .. n
          BY <1>2, <2>1
        <5>. QED
          BY <2>8, <5>1
      <4>3. ASSUME NEW k \in 1 .. m+1 PROVE EventIdOf[new[k]] = id
        <5>1. CASE k = m+1
          BY <4>2, <5>1
        <5>2. CASE k \in 1 .. m
          <6>1. m # 0 /\ IdOf(slot) # 0
            BY <2>1, <4>1, <5>2
          <6>2. new[k] = old[k] /\ EventIdOf[old[k]] = IdOf(slot)
            BY <4>1, <4>2, <5>2
          <6>. QED
            BY <2>2, <6>1, <6>2
        <5>. QED
          BY <4>2, <5>1, <5>2
      <4>4. \A k \in 1 .. m+1 : \E i \in 1 .. n+1 : order'[i] = new[k]
        <5>1. 1 .. n \subseteq 1 .. n+1 /\ n+1 \in 1 .. n+1
          BY <1>2
        <5>. QED
          BY <1>2, <4>1, <4>2, <5>1
      <4>5. ASSUME NEW k \in 1 .. m+1, NEW l \in 1 .. m+1, k < l, NEW i \in 1 .. n+1,
                   NEW j \in 1 .. n+1, order'[i] = new[k], order'[j] = new[l]
            PROVE  i < j
        <5>1. k \in 1 .. m
          BY <2>1, <4>5
        <5>2. i \in 1 .. n /\ order[i] = old[k]
          <6>1. order'[i] = old[k]
            BY <4>2, <4>5, <5>1
          <6>2. old[k] # h
            BY <1>3, <4>1, <5>1
          <6>3. i # n+1
            BY <1>2, <6>1, <6>2
          <6>. QED
            BY <1>2, <4>2, <6>1, <6>3
        <5>3. CASE l = m+1
          <6>1. j \notin 1 .. n
            BY <1>2, <1>3, <4>2, <4>5, <5>3
          <6>. QED
            BY <1>2, <4>2, <5>2, <6>1
        <5>4. CASE l \in 1 .. m
          <6>1. order'[j] = old[l] /\ old[l] # h
            BY <1>3, <4>1, <4>2, <4>5, <5>4
          <6>2. j \in 1 .. n /\ order[j] = old[l]
            BY <1>2, <4>2, <6>1
          <6>. QED
            BY <4>1, <4>5, <5>1, <5>2, <5>4, <6>2
        <5>. QED
          BY <4>2, <5>3, <5>4
      <4>6. IdOf(s)' = id /\ ListOf(s)' = new
        BY <2>3, <3>2 DEF new
      <4>. QED
        BY <1>1, <1>2, <4>2, <4>3, <4>4, <4>5, <4>6
    <3>. QED
      BY <3>1, <3>2
  <2>10. \A g : Listed(g) => Listed(g)'
    <3>1. SUFFICES ASSUME NEW g, NEW s \in Slots, NEW k \in DOMAIN ListOf(s), ListOf(s)[k] = g
                   PROVE  \E l \in DOMAIN ListOf(s)' : ListOf(s)'[l] = g
      BY DEF Listed
    <3>2. CASE s = slot
      <4>1. k \in 1 .. m /\ k \in 1 .. m+1
        BY <2>1, <3>2
      <4>. QED
        BY <2>3, <2>8, <3>1, <3>2, <4>1
    <3>3. CASE s # slot
      BY <2>3, <3>1, <3>3
    <3>. QED
      BY <3>2, <3>3
  <2>11. Listed(h)'
    <3>1. m+1 \in DOMAIN ListOf(slot)' /\ ListOf(slot)'[m+1] = h
      BY <2>1, <2>3, <2>8
    <3>. QED
      BY <3>1 DEF Listed
  <2>12. ASSUME NEW i \in 1 .. n+1 PROVE (Listed(order[i]) \/ TurnedAway(i))'
    <3>1. PICK g : g = order'[i]
      OBVIOUS
    <3>2. CASE i = n+1
      <4>1. Listed(g)'
        BY <1>2, <2>11, <3>1, <3>2
      <4>. QED
        BY <3>1, <4>1 DEF Listed
    <3>3. CASE i \in 1 .. n /\ Listed(order[i])
      <4>1. Listed(g)'
        BY <1>2, <2>10, <3>1, <3>3
      <4>. QED
        BY <3>1, <4>1 DEF Listed
    <3>4. CASE i \in 1 .. n /\ TurnedAway(i)
      <4>1. \A s \in Slots : /\ IdOf(s) # 0 /\ IdOf(s) # EventIdOf[order[i]]
                             /\ CameBefore(IdOf(s), i)
        BY <3>4 DEF TurnedAway
      <4>2. \A s \in Slots : IdOf(s)' = IdOf(s)
        BY <2>6, <4>1
      <4>3. \A s \in Slots : CameBefore(IdOf(s), i)'
        BY <1>8, <3>4, <4>1, <4>2
      <4>. QED
        BY <1>2, <3>4, <4>1, <4>2, <4>3 DEF TurnedAway
    <3>. QED
      BY <1>2, <1>7, <3>2, <3>3, <3>4
  <2>13. ASSUME NEW s \in Slots, NEW t \in Slots, s < t, IdOf(t)' # 0,
                NEW i \in 1 .. n+1, EventIdOf[order'[i]] = IdOf(t)'
         PROVE  CameBefore(IdOf(s), i)'
    <3>1. IdOf(s) # 0 /\ IdOf(s)' = IdOf(s)
      <4>1. IdOf(s) # 0
        <5>1. CASE t = slot
          BY <2>2, <2>13, <5>1
        <5>2. CASE t # slot
          BY <1>9, <2>3, <2>13, <5>2
        <5>. QED
          BY <5>1, <5>2
      <4>. QED
        BY <2>6, <4>1
    <3>2. CASE i = n+1
      <4>1. \E j \in 1 .. n : j < i /\ EventIdOf[order[j]] = IdOf(s)
        BY <1>6, <3>1, <3>2
      <4>. QED
        BY <1>5, <3>1, <4>1
    <3>3. CASE i \in 1 .. n
      <4>1. EventIdOf[order[i]] = IdOf(t)'
        BY <1>2, <2>13, <3>3
      <4>2. IdOf(t) # 0 /\ IdOf(t)' = IdOf(t)
        <5>1. CASE t = slot
          BY <2>2, <2>3, <2>5, <3>3, <4>1, <5>1
        <5>2. CASE t # slot
          BY <2>3, <2>13, <5>2
        <5>. QED
          BY <2>6, <5>1, <5>2
      <4>3. CameBefore(IdOf(s), i)
        BY <1>7, <2>13, <3>3, <4>1, <4>2
      <4>. QED
        BY <1>8, <3>1, <3>3, <4>3
    <3>. QED
      BY <1>2, <3>2, <3>3
  <2>. QED
    BY <1>2, <1>4, <2>3, <2>7, <2>9, <2>12, <2>13 DEF RegistryOK
<1>. QED
  BY <1>11, <1>12 DEF Register, EvhRegisterHandler

-----------------------------------------------------------------------------
(* Ranks: of a handler, and of the first handler with an id *)
LEMMA RankIs ==
    ASSUME RegistryOK, NEW i \in DOMAIN order
    PROVE  RankOf(order[i]) = i
<1>1. \A j \in DOMAIN order : order[j] = order[i] => j = i
  BY DEF RegistryOK
<1>. QED
  BY <1>1 DEF RankOf

LEMMA FirstRankIs ==
    ASSUME RegistryOK, NEW i \in DOMAIN order, NEW id, EventIdOf[order[i]] = id
    PROVE  /\ FirstRankOfId(id) \in DOMAIN order
           /\ EventIdOf[order[FirstRankOfId(id)]] = id
           /\ \A j \in DOMAIN order : EventIdOf[order[j]] = id => FirstRankOfId(id) <= j
<1>. DEFINE S == {j \in DOMAIN order : EventIdOf[order[j]] = id}
<1>1. DOMAIN order = 1 .. Len(order) /\ Len(order) \in Nat
  BY DEF RegistryOK
<1>2. S \in SUBSET Nat /\ i \in S
  BY <1>1
<1>3. FirstRankOfId(id) = Min(S)
  BY DEF FirstRankOfId
<1>4. \A j \in DOMAIN order : j \in S <=> EventIdOf[order[j]] = id
  OBVIOUS
<1>5. S \subseteq DOMAIN order
  OBVIOUS
<1>. HIDE DEF S
<1>6. PICK m \in S : \A j \in S : m <= j
  BY <1>2, LeastNatural
<1>7. Min(S) = m
  BY <1>2, <1>6, MinIs
<1>. QED
  BY <1>3, <1>4, <1>5, <1>6, <1>7

(* A handler is in the list of a slot just when a slot has its id. *)
LEMMA ListedIff ==
    ASSUME RegistryOK, NEW i \in DOMAIN order
    PROVE  Listed(order[i]) <=> \E s \in Slots : IdOf(s) = EventIdOf[order[i]]
BY DEF RegistryOK, ListsOK, Listed, TurnedAway

(* The handlers that found a slot are those whose id was among the first   *)
(* MaxEvents ids to come: counting slots against ids, which the searches   *)
(* of evh_register_handler never do.                                       *)
LEMMA ListedIsAccepted ==
    ASSUME RegistryOK, NEW h
    PROVE  Listed(h) <=> h \in Accepted
<1>1. DOMAIN order = 1 .. Len(order) /\ Len(order) \in Nat /\ order \in Seq(Handlers)
  BY DEF RegistryOK
<1>2. CASE h \notin Range(order)
  <2>1. ~ Listed(h)
    BY <1>2 DEF Listed, RegistryOK, ListsOK, Range
  <2>. QED
    BY <1>2, <2>1 DEF Accepted
<1>3. CASE h \in Range(order)
  <2>1. PICK i \in DOMAIN order : order[i] = h
    BY <1>3 DEF Range
  <2>. DEFINE id == EventIdOf[h]
              r == FirstRankOfId(id)
              N == IdsUpTo(r)
  <2>2. /\ r \in DOMAIN order /\ EventIdOf[order[r]] = id
        /\ \A j \in DOMAIN order : EventIdOf[order[j]] = id => r <= j
    BY <2>1, FirstRankIs
  <2>3. h \in Accepted <=> Cardinality(N) <= MaxEvents
    BY <1>3 DEF Accepted
  <2>. HIDE DEF r
  <2>4. /\ r \in Nat /\ r \in 1 .. Len(order) /\ 1 .. r \subseteq DOMAIN order
        /\ N = {EventIdOf[order[j]] : j \in 1 .. r}
    BY <1>1, <2>2 DEF IdsUpTo
  <2>5. IsFiniteSet(N)
    <3>. DEFINE f == [j \in 1 .. r |-> EventIdOf[order[j]]]
    <3>1. f \in Surjection(1 .. r, N)
      BY <2>4 DEF Surjection
    <3>2. IsFiniteSet(1 .. r)
      BY <2>4, FS_Interval
    <3>. QED
      BY <3>1, <3>2, FS_Surjection
  <2>6. IsFiniteSet(Slots) /\ Cardinality(Slots) = MaxEvents
    BY MaxEventsAssumption, FS_Interval DEF Slots
  <2>7. id # 0
    <3>1. h \in Handlers
      BY <1>1, <2>1
    <3>. QED
      BY <3>1, EventIdOfAssumption
  <2>8. \A s, t \in Slots : IdOf(s) = IdOf(t) /\ IdOf(s) # 0 => s = t
    <3>1. \A s, t \in Slots : s < t /\ IdOf(s) = IdOf(t) => IdOf(t) = 0
      BY DEF RegistryOK, SlotsCompact, IdOf
    <3>2. Slots \subseteq Int
      BY DEF Slots
    <3>. QED
      BY <3>1, <3>2
  <2>. HIDE DEF N
  <2>9. ASSUME NEW s \in Slots, IdOf(s) = id PROVE Cardinality(N) <= MaxEvents
    <3>1. ASSUME NEW j \in 1 .. r
          PROVE  \E t \in Slots : IdOf(t) = EventIdOf[order[j]]
      <4>1. j \in DOMAIN order
        BY <2>4
      <4>2. CASE TurnedAway(j)
        <5>1. PICK l \in DOMAIN order : l < j /\ EventIdOf[order[l]] = id
          BY <2>9, <4>2 DEF TurnedAway, CameBefore
        <5>2. r <= l
          BY <2>2, <5>1
        <5>. QED
          BY <1>1, <2>4, <5>1, <5>2
      <4>3. CASE Listed(order[j])
        BY <4>1, <4>3, ListedIff
      <4>. QED
        BY <4>1, <4>2, <4>3 DEF RegistryOK
    <3>. DEFINE f == [x \in N |-> CHOOSE t \in Slots : IdOf(t) = x]
    <3>2. \A x \in N : f[x] \in Slots /\ IdOf(f[x]) = x
      BY <2>4, <3>1
    <3>. HIDE DEF f
    <3>3. f \in [N -> Slots]
      <4>1. f = [x \in N |-> f[x]]
        BY DEF f
      <4>. QED
        BY <3>2, <4>1
    <3>4. f \in Injection(N, Slots)
      <4>1. \A x, y \in N : f[x] = f[y] => x = y
        BY <3>2
      <4>. QED
        BY <3>3, <4>1 DEF Injection, IsInjective
    <3>. QED
      BY <2>6, <3>4, FS_Injection
  <2>10. ASSUME ~ \E s \in Slots : IdOf(s) = id PROVE ~ (Cardinality(N) <= MaxEvents)
    <3>1. TurnedAway(r)
      BY <2>2, <2>10, ListedIff DEF RegistryOK
    <3>2. \A s \in Slots : IdOf(s) # 0 /\ IdOf(s) # id /\ IdOf(s) \in N
      <4>1. SUFFICES ASSUME NEW s \in Slots
                     PROVE  IdOf(s) # 0 /\ IdOf(s) # id /\ IdOf(s) \in N
        OBVIOUS
      <4>2. IdOf(s) \notin {0, id} /\ CameBefore(IdOf(s), r)
        BY <2>2, <3>1 DEF TurnedAway
      <4>3. PICK j \in DOMAIN order : j < r /\ EventIdOf[order[j]] = IdOf(s)
        BY <4>2 DEF CameBefore
      <4>4. j \in 1 .. r
        BY <1>1, <2>4, <4>3
      <4>. QED
        BY <2>4, <4>2, <4>3, <4>4
    <3>. DEFINE f == [s \in Slots |-> IdOf(s)]
    <3>3. f \in Injection(Slots, N \ {id})
      BY <2>8, <3>2 DEF Injection, IsInjective
    <3>4. IsFiniteSet(N \ {id}) /\ Cardinality(N \ {id}) = Cardinality(N) - 1
          /\ Cardinality(N) \in Nat
      <4>1. id \in N
        BY <2>2, <2>4
      <4>. QED
        BY <2>5, <4>1, FS_RemoveElement, FS_CardinalityType
    <3>. HIDE DEF f
    <3>5. MaxEvents <= Cardinality(N \ {id})
      BY <2>6, <3>3, <3>4, FS_Injection
    <3>. QED
      BY <3>4, <3>5, MaxEventsAssumption
  <2>11. Listed(h) <=> \E s \in Slots : IdOf(s) = id
    BY <2>1, ListedIff
  <2>. QED
    BY <2>3, <2>9, <2>10, <2>11
<1>. QED
  BY <1>2, <1>3

-----------------------------------------------------------------------------
(* An event is passed to the list of the one slot that has its id. *)
LEMMA SlotOfId ==
    ASSUME RegistryOK, NEW s \in Slots, NEW t \in Slots, IdOf(s) = IdOf(t), IdOf(s) # 0
    PROVE  s = t
<1>1. \A x, y \in Slots : x < y /\ IdOf(x) = IdOf(y) => IdOf(y) = 0
  BY DEF RegistryOK, SlotsCompact, IdOf
<1>2. Slots \subseteq Int
  BY DEF Slots
<1>. QED
  BY <1>1, <1>2

LEMMA CalledForIs ==
    ASSUME RegistryOK, NEW id
    PROVE  \/ \E s \in Slots : IdOf(s) = id /\ CalledFor(id) = ListOf(s)
           \/ CalledFor(id) = << >> /\ \A s \in Slots : IdOf(s) # id
<1>1. CASE SlotsWith({id}) = {}
  <2>1. \A s \in Slots : IdOf(s) # id
    BY <1>1 DEF SlotsWith, IdOf
  <2>. QED
    BY <1>1, <2>1 DEF CalledFor
<1>2. CASE SlotsWith({id}) # {}
  <2>. DEFINE slot == CHOOSE slot \in Slots : IsFirst(slot, SlotsWith({id}))
  <2>1. slot \in Slots /\ IsFirst(slot, SlotsWith({id}))
    BY <1>2, SearchStops
  <2>2. CalledFor(id) = handlerArray[slot].handler_list
    BY <1>2 DEF CalledFor
  <2>. HIDE DEF slot
  <2>3. IdOf(slot) = id
    BY <2>1 DEF IsFirst, SlotsWith, IdOf
  <2>. QED
    BY <2>1, <2>2, <2>3 DEF ListOf
<1>. QED
  BY <1>1, <1>2

LEMMA CalledIff ==
    ASSUME RegistryOK, NEW id
    PROVE  /\ CalledFor(id) \in Seq(Handlers)
           /\ DOMAIN CalledFor(id) = 1 .. Len(CalledFor(id)) /\ Len(CalledFor(id)) \in Nat
           /\ \A k \in DOMAIN CalledFor(id) : /\ Listed(CalledFor(id)[k])
                                              /\ EventIdOf[CalledFor(id)[k]] = id
                                              /\ CalledFor(id)[k] \in Handlers
           /\ \A h \in Handlers : Listed(h) /\ EventIdOf[h] = id =>
                                    \E k \in DOMAIN CalledFor(id) : CalledFor(id)[k] = h
           /\ \A k, l \in DOMAIN CalledFor(id) :
                k < l => RankOf(CalledFor(id)[k]) < RankOf(CalledFor(id)[l])
<1>1. \A h \in Handlers : EventIdOf[h] # 0
  BY EventIdOfAssumption
<1>2. ASSUME NEW h \in Handlers, Listed(h), EventIdOf[h] = id
      PROVE  \E s \in Slots : IdOf(s) = id /\ \E k \in DOMAIN ListOf(s) : ListOf(s)[k] = h
  BY <1>2 DEF Listed, RegistryOK, ListsOK
<1>3. CASE CalledFor(id) = << >> /\ \A s \in Slots : IdOf(s) # id
  <2>1. << >> \in Seq(Handlers) /\ DOMAIN << >> = {} /\ Len(<< >>) = 0 /\ DOMAIN << >> = 1 .. 0
    OBVIOUS
  <2>. QED
    BY <1>2, <1>3, <2>1
<1>4. CASE \E s \in Slots : IdOf(s) = id /\ CalledFor(id) = ListOf(s)
  <2>1. PICK s \in Slots : IdOf(s) = id /\ CalledFor(id) = ListOf(s)
    BY <1>4
  <2>2. /\ ListOf(s) \in Seq(Handlers) /\ DOMAIN ListOf(s) = 1 .. Len(ListOf(s))
        /\ Len(ListOf(s)) \in Nat
    BY SlotFacts
  <2>3. \A k \in DOMAIN ListOf(s) : /\ Listed(ListOf(s)[k]) /\ EventIdOf[ListOf(s)[k]] = id
                                    /\ ListOf(s)[k] \in Handlers
    <3>1. \A k \in DOMAIN ListOf(s) : EventIdOf[ListOf(s)[k]] = id
      BY <2>1 DEF RegistryOK, ListsOK
    <3>2. \A k \in DOMAIN ListOf(s) : ListOf(s)[k] \in Handlers
      BY <2>2
    <3>. QED
      BY <3>1, <3>2 DEF Listed
  <2>4. ASSUME NEW h \in Handlers, Listed(h), EventIdOf[h] = id
        PROVE  \E k \in DOMAIN ListOf(s) : ListOf(s)[k] = h
    <3>1. PICK t \in Slots : IdOf(t) = id /\ \E k \in DOMAIN ListOf(t) : ListOf(t)[k] = h
      BY <1>2, <2>4
    <3>2. t = s
      BY <1>1, <2>1, <2>4, <3>1, SlotOfId
    <3>. QED
      BY <3>1, <3>2
  <2>5. ASSUME NEW k \in DOMAIN ListOf(s), NEW l \in DOMAIN ListOf(s), k < l
        PROVE  RankOf(ListOf(s)[k]) < RankOf(ListOf(s)[l])
    <3>1. PICK i \in DOMAIN order : order[i] = ListOf(s)[k]
      BY DEF RegistryOK, ListsOK
    <3>2. PICK j \in DOMAIN order : order[j] = ListOf(s)[l]
      BY DEF RegistryOK, ListsOK
    <3>3. i < j
      BY <2>5, <3>1, <3>2 DEF RegistryOK, ListsOK
    <3>4. RankOf(order[i]) = i /\ RankOf(order[j]) = j
      BY RankIs
    <3>. QED
      BY <3>1, <3>2, <3>3, <3>4
  <2>. QED
    BY <2>1, <2>2, <2>3, <2>4, <2>5
<1>. QED
  BY <1>3, <1>4, CalledForIs

(* Ids come before ids in the order of their slots. *)
LEMMA SlotsInOrder ==
    ASSUME RegistryOK, NEW s \in Slots, NEW t \in Slots, s < t,
           NEW k \in DOMAIN ListOf(s), NEW l \in DOMAIN ListOf(t)
    PROVE  FirstRankOfId(EventIdOf[ListOf(s)[k]]) < FirstRankOfId(EventIdOf[ListOf(t)[l]])
<1>1. /\ EventIdOf[ListOf(s)[k]] = IdOf(s) /\ EventIdOf[ListOf(t)[l]] = IdOf(t)
      /\ \E i \in DOMAIN order : order[i] = ListOf(s)[k]
      /\ \E i \in DOMAIN order : order[i] = ListOf(t)[l]
  BY DEF RegistryOK, ListsOK
<1>2. IdOf(t) # 0
  <2>1. ListOf(t) # << >>
    OBVIOUS
  <2>. QED
    BY <2>1 DEF RegistryOK, ListsOK
<1>3. PICK i \in DOMAIN order : EventIdOf[order[i]] = IdOf(t)
  BY <1>1
<1>. DEFINE r == FirstRankOfId(IdOf(t))
<1>4. r \in DOMAIN order /\ EventIdOf[order[r]] = IdOf(t)
  BY <1>3, FirstRankIs
<1>. HIDE DEF r
<1>5. PICK j \in DOMAIN order : j < r /\ EventIdOf[order[j]] = IdOf(s)
  BY <1>2, <1>4 DEF RegistryOK, CameBefore
<1>6. FirstRankOfId(IdOf(s)) \in DOMAIN order /\ FirstRankOfId(IdOf(s)) <= j
  BY <1>5, FirstRankIs
<1>7. DOMAIN order \subseteq Nat
  BY DEF RegistryOK
<1>. QED
  BY <1>1, <1>4, <1>5, <1>6, <1>7 DEF r

(* Keys are compared from the left. *)
LEMMA BeforeCases ==
    ASSUME NEW a1 \in Int, NEW a2 \in Int, NEW a3 \in Int, NEW a4 \in Int,
           NEW b1 \in Int, NEW b2 \in Int, NEW b3 \in Int, NEW b4 \in Int,
           \/ a1 < b1
           \/ a1 = b1 /\ a2 < b2
           \/ a1 = b1 /\ a2 = b2 /\ a3 < b3
           \/ a1 = b1 /\ a2 = b2 /\ a3 = b3 /\ a4 < b4
    PROVE  Before(<<a1, a2, a3, a4>>, <<b1, b2, b3, b4>>)
<1>. DEFINE a == <<a1, a2, a3, a4>>
            b == <<b1, b2, b3, b4>>
<1>1. /\ Len(a) = 4 /\ a[1] = a1 /\ a[2] = a2 /\ a[3] = a3 /\ a[4] = a4
      /\ b[1] = b1 /\ b[2] = b2 /\ b[3] = b3 /\ b[4] = b4
  OBVIOUS
<1>. HIDE DEF a, b
<1>2. \E n \in 1 .. 4 : /\ a[n] < b[n]
                        /\ \A m \in 1 .. n-1 : a[m] = b[m]
  <2>1. CASE a1 < b1
    <3>1. a[1] < b[1] /\ \A m \in 1 .. 1-1 : a[m] = b[m]
      BY <1>1, <2>1
    <3>. QED
      BY <3>1
  <2>2. CASE a1 = b1 /\ a2 < b2
    <3>1. a[2] < b[2] /\ \A m \in 1 .. 2-1 : a[m] = b[m]
      BY <1>1, <2>2
    <3>. QED
      BY <3>1
  <2>3. CASE a1 = b1 /\ a2 = b2 /\ a3 < b3
    <3>1. a[3] < b[3] /\ \A m \in 1 .. 3-1 : a[m] = b[m]
      BY <1>1, <2>3
    <3>. QED
      BY <3>1
  <2>4. CASE a1 = b1 /\ a2 = b2 /\ a3 = b3 /\ a4 < b4
    <3>1. a[4] < b[4] /\ \A m \in 1 .. 4-1 : a[m] = b[m]
      BY <1>1, <2>4
    <3>. QED
      BY <3>1
  <2>. QED
    BY <2>1, <2>2, <2>3, <2>4
<1>. QED
  BY <1>1, <1>2 DEF Before, a, b

LEMMA ListedRanks ==
    ASSUME RegistryOK, NEW h, Listed(h)
    PROVE  /\ h \in Handlers /\ RankOf(h) \in Int /\ FirstRankOfId(EventIdOf[h]) \in Int
<1>1. PICK i \in DOMAIN order : order[i] = h
  BY DEF RegistryOK, ListsOK, Listed
<1>2. DOMAIN order \subseteq Int /\ order[i] \in Handlers
  BY DEF RegistryOK
<1>. QED
  BY <1>1, <1>2, RankIs, FirstRankIs

LEMMA KeyBefore ==
    ASSUME RegistryOK, NEW c \in CallRecords, NEW d \in CallRecords,
           Listed(c.handler), Listed(d.handler),
           \/ c.kind = "init" /\ d.kind # "init"
           \/ c.kind = "process" /\ d.kind = "finalize"
           \/ c.kind = d.kind /\ c.index < d.index
           \/ /\ c.kind = d.kind /\ c.index = d.index
              /\ FirstRankOfId(EventIdOf[c.handler]) < FirstRankOfId(EventIdOf[d.handler])
           \/ /\ c.kind = d.kind /\ c.index = d.index
              /\ EventIdOf[c.handler] = EventIdOf[d.handler]
              /\ RankOf(c.handler) < RankOf(d.handler)
    PROVE  Before(CallKey(c), CallKey(d))
<1>. DEFINE p == PhaseRank(c.kind)
            q == PhaseRank(d.kind)
            f == FirstRankOfId(EventIdOf[c.handler])
            g == FirstRankOfId(EventIdOf[d.handler])
            x == RankOf(c.handler)
            y == RankOf(d.handler)
            i == c.index
            j == d.index
<1>1. f \in Int /\ g \in Int /\ x \in Int /\ y \in Int
  BY ListedRanks
<1>2. i \in Int /\ j \in Int
  BY MaxRecordsAssumption DEF CallRecords
<1>3. /\ c.kind \in {"init", "process", "finalize"} /\ d.kind \in {"init", "process", "finalize"}
      /\ \A kind \in {"init", "process", "finalize"} :
           PhaseRank(kind) = IF kind = "init" THEN 0 ELSE IF kind = "process" THEN 1 ELSE 2
  BY DEF CallRecords, PhaseRank
<1>4. p \in Int /\ q \in Int /\ (c.kind = d.kind => p = q)
      /\ (c.kind = "init" /\ d.kind # "init" => p < q)
      /\ (c.kind = "process" /\ d.kind = "finalize" => p < q)
  BY <1>3
<1>5. EventIdOf[c.handler] = EventIdOf[d.handler] => f = g
  OBVIOUS
<1>6. CallKey(c) = <<p, i, f, x>> /\ CallKey(d) = <<q, j, g, y>>
  BY DEF CallKey
<1>7. \/ p < q
      \/ p = q /\ i < j
      \/ p = q /\ i = j /\ f < g
      \/ p = q /\ i = j /\ f = g /\ x < y
  BY <1>4, <1>5
<1>. HIDE DEF p, q, f, g, x, y, i, j
<1>8. Before(<<p, i, f, x>>, <<q, j, g, y>>)
  BY <1>1, <1>2, <1>4, <1>7, BeforeCases
<1>. QED
  BY <1>6, <1>8

(* A handler that was passed comes before the one at the cursor. *)
LEMMA PassedBefore ==
    ASSUME RegistryOK, NEW g, Passed(g),
           NEW s \in Slots, s = cursor.slot, NEW k \in DOMAIN ListOf(s), k = cursor.k,
           NEW h, h = ListOf(s)[k]
    PROVE  /\ Listed(g) /\ Listed(h)
           /\ \/ FirstRankOfId(EventIdOf[g]) < FirstRankOfId(EventIdOf[h])
              \/ EventIdOf[g] = EventIdOf[h] /\ RankOf(g) < RankOf(h)
<1>1. Listed(g) /\ Listed(h)
  BY DEF Passed, Listed
<1>2. PICK t \in Slots : \E l \in DOMAIN ListOf(t) :
        /\ ListOf(t)[l] = g
        /\ \/ t < cursor.slot
           \/ t = cursor.slot /\ l < cursor.k
  BY DEF Passed
<1>3. PICK l \in DOMAIN ListOf(t) : /\ ListOf(t)[l] = g
                                    /\ \/ t < s
                                       \/ t = s /\ l < k
  BY <1>2
<1>4. CASE t < s
  BY <1>1, <1>3, <1>4, SlotsInOrder
<1>5. CASE t = s /\ l < k
  <2>1. EventIdOf[g] = IdOf(s) /\ EventIdOf[h] = IdOf(s)
    BY <1>3, <1>5 DEF RegistryOK, ListsOK
  <2>2. PICK i \in DOMAIN order : order[i] = g
    BY <1>1 DEF RegistryOK, ListsOK, Listed
  <2>3. PICK j \in DOMAIN order : order[j] = h
    BY <1>1 DEF RegistryOK, ListsOK, Listed
  <2>4. i < j
    BY <1>3, <1>5, <2>2, <2>3 DEF RegistryOK, ListsOK
  <2>5. RankOf(g) = i /\ RankOf(h) = j
    BY <2>2, <2>3, RankIs
  <2>. QED
    BY <1>1, <2>1, <2>4, <2>5
<1>. QED
  BY <1>3, <1>4, <1>5

-----------------------------------------------------------------------------
(* Steps that make no callback, and steps that make one *)
LEMMA NoCallMade ==
    ASSUME CallsOK, UNCHANGED <<order, calls>>,
           cursor' \in [slot : 0 .. MaxEvents, k : Nat \ {0}],
           pc' \in {"open", "register"} => pc \in {"open", "register"},
           \A c \in CallRecords : Due(c)' <=> Due(c)
    PROVE  CallsOK'
<1>1. \A d : CallKey(d)' = CallKey(d)
  BY DEF CallKey, FirstRankOfId, RankOf
<1>2. \A i \in 1 .. Len(calls') - 1 : Before(CallKey(calls[i])', CallKey(calls[i+1])')
  <2>. SUFFICES ASSUME NEW i \in 1 .. Len(calls) - 1
                PROVE  Before(CallKey(calls[i])', CallKey(calls[i+1])')
    OBVIOUS
  <2>1. PICK d, e : d = calls[i] /\ e = calls[i+1]
    OBVIOUS
  <2>2. CallKey(calls[i])' = CallKey(d) /\ CallKey(calls[i+1])' = CallKey(e)
    BY <1>1, <2>1
  <2>. QED
    BY <2>1, <2>2 DEF CallsOK, CallOrder
<1>3. CallOrder'
  BY <1>2 DEF CallOrder
<1>. QED
  BY <1>3 DEF CallsOK

LEMMA CallMade ==
    ASSUME CallsOK, UNCHANGED order, NEW c \in CallRecords, calls' = Append(calls, c),
           cursor' \in [slot : 0 .. MaxEvents, k : Nat \ {0}],
           pc' \notin {"open", "register"},
           \A d \in CallRecords : Due(d)' <=> Due(d) \/ d = c,
           \A d \in CallRecords : Due(d) => Before(CallKey(d), CallKey(c))
    PROVE  CallsOK'
<1>. DEFINE n == Len(calls)
<1>1. calls \in Seq(CallRecords) /\ n \in Nat /\ DOMAIN calls = 1 .. n
  BY DEF CallsOK
<1>2. /\ calls' \in Seq(CallRecords) /\ DOMAIN calls' = 1 .. n+1 /\ Len(calls') = n+1
      /\ calls'[n+1] = c /\ \A i \in 1 .. n : calls'[i] = calls[i]
  BY <1>1
<1>. HIDE DEF n
<1>3. \A i \in 1 .. n+1 : i = n+1 \/ i \in 1 .. n
  BY <1>1
<1>4. \A d : CallKey(d)' = CallKey(d)
  BY DEF CallKey, FirstRankOfId, RankOf
<1>5. \A d \in CallRecords : (\E i \in 1 .. n : calls[i] = d) <=> Due(d)
  BY <1>1 DEF CallsOK
<1>6. \A d \in CallRecords : (\E i \in DOMAIN calls' : calls'[i] = d) <=> Due(d)'
  <2>1. 1 .. n \subseteq 1 .. n+1 /\ n+1 \in 1 .. n+1
    BY <1>1
  <2>. QED
    BY <1>2, <1>3, <1>5, <2>1
<1>7. ASSUME NEW i \in 1 .. n PROVE Before(CallKey(calls'[i]), CallKey(calls'[i+1]))
  <2>1. CASE i = n
    <3>1. calls[i] \in CallRecords /\ Due(calls[i])
      BY <1>1, <1>5
    <3>. QED
      BY <1>2, <2>1, <3>1
  <2>2. CASE i # n
    <3>1. i \in 1 .. n-1 /\ i+1 \in 1 .. n
      BY <1>1, <2>2
    <3>2. Before(CallKey(calls[i]), CallKey(calls[i+1]))
      BY <3>1 DEF CallsOK, CallOrder, n
    <3>. QED
      BY <1>2, <3>1, <3>2
  <2>. QED
    BY <2>1, <2>2
<1>8. CallOrder'
  <2>1. \A i \in 1 .. Len(calls') - 1 : Before(CallKey(calls[i])', CallKey(calls[i+1])')
    <3>. SUFFICES ASSUME NEW i \in 1 .. n
                  PROVE  Before(CallKey(calls[i])', CallKey(calls[i+1])')
      BY <1>1, <1>2
    <3>1. PICK d, e : d = calls'[i] /\ e = calls'[i+1]
      OBVIOUS
    <3>2. CallKey(calls[i])' = CallKey(d) /\ CallKey(calls[i+1])' = CallKey(e)
      BY <1>4, <3>1
    <3>. QED
      BY <1>7, <3>1, <3>2
  <2>. QED
    BY <2>1 DEF CallOrder
<1>. QED
  BY <1>2, <1>6, <1>8 DEF CallsOK


LEMMA NothingCalled ==
    ASSUME calls' = << >>, cursor' \in [slot : 0 .. MaxEvents, k : Nat \ {0}],
           \A c \in CallRecords : ~ Due(c)'
    PROVE  CallsOK'
<1>1. calls' \in Seq(CallRecords) /\ DOMAIN calls' = {} /\ 1 .. Len(calls') - 1 = {}
  <2>1. \A S : << >> \in Seq(S)
    OBVIOUS
  <2>. QED
    BY <2>1
<1>2. CallOrder'
  BY <1>1 DEF CallOrder
<1>. QED
  BY <1>1, <1>2 DEF CallsOK

LEMMA CallsInit == Init => CallsOK
<1>. SUFFICES ASSUME Init PROVE CallsOK
  OBVIOUS
<1>1. calls = << >> /\ DOMAIN calls = {} /\ 1 .. Len(calls) - 1 = {} /\ eventCount = 0
  BY DEF Init, LogInit
<1>2. calls \in Seq(CallRecords)
  <2>1. \A S : << >> \in Seq(S)
    OBVIOUS
  <2>. QED
    BY <1>1, <2>1
<1>3. \A c \in CallRecords : ~ Due(c)
  BY <1>1 DEF Init, Due, Initialized, Seen, Finalized
<1>4. CallOrder
  BY <1>1 DEF CallOrder
<1>. QED
  BY <1>1, <1>2, <1>3, <1>4, MaxEventsAssumption DEF CallsOK, Init

(* What a step that leaves the registry alone leaves alone *)
LEMMA ListsStay ==
    ASSUME handlerArray' = handlerArray
    PROVE  /\ \A h : Listed(h)' <=> Listed(h)
           /\ \A id : CalledFor(id)' = CalledFor(id)
BY DEF Listed, ListOf, CalledFor, SlotsWith

LEMMA DueFollows ==
    ASSUME \A h : Initialized(h)' <=> Initialized(h),
           \A h, i : Seen(h, i)' <=> Seen(h, i),
           \A h : Finalized(h)' <=> Finalized(h)
    PROVE  \A c \in CallRecords : Due(c)' <=> Due(c)
BY DEF Due

(* The three steps of a walk over the slots *)
LEMMA WalkPassesOne ==
    ASSUME RegistryOK, handlerArray' = handlerArray,
           NEW s \in Slots, s = cursor.slot, NEW k \in DOMAIN ListOf(s), k = cursor.k,
           cursor'.slot = s, cursor'.k = k + 1
    PROVE  \A g : Passed(g)' <=> Passed(g) \/ g = ListOf(s)[k]
<1>1. \A t : ListOf(t)' = ListOf(t)
  BY DEF ListOf
<1>2. \A t \in Slots : DOMAIN ListOf(t) \subseteq Int /\ t \in Int
  BY SlotFacts DEF Slots
<1>3. \A t \in Slots : \A l \in DOMAIN ListOf(t) : l < k + 1 <=> l < k \/ l = k
  BY <1>2
<1>. SUFFICES ASSUME NEW g PROVE Passed(g)' <=> Passed(g) \/ g = ListOf(s)[k]
  OBVIOUS
<1>4. Passed(g)' <=> \E t \in Slots : \E l \in DOMAIN ListOf(t) :
                       /\ ListOf(t)[l] = g
                       /\ \/ t < s
                          \/ t = s /\ l < k + 1
  BY <1>1 DEF Passed, Slots
<1>5. Passed(g) <=> \E t \in Slots : \E l \in DOMAIN ListOf(t) :
                      /\ ListOf(t)[l] = g
                      /\ \/ t < s
                         \/ t = s /\ l < k
  BY DEF Passed
<1>. QED
  BY <1>3, <1>4, <1>5

LEMMA WalkNextSlot ==
    ASSUME RegistryOK, handlerArray' = handlerArray,
           NEW s \in Slots, s = cursor.slot, cursor.k \in Nat \ {0}, cursor.k \notin DOMAIN ListOf(s),
           cursor'.slot = s + 1, cursor'.k = 1
    PROVE  \A g : Passed(g)' <=> Passed(g)
<1>1. \A t : ListOf(t)' = ListOf(t)
  BY DEF ListOf
<1>2. \A t \in Slots : t \in Int /\ DOMAIN ListOf(t) = 1 .. Len(ListOf(t)) /\ Len(ListOf(t)) \in Nat
  BY SlotFacts DEF Slots
<1>3. \A l \in DOMAIN ListOf(s) : l < cursor.k
  BY <1>2
<1>4. \A t \in Slots : /\ t < s + 1 <=> t < s \/ t = s
                       /\ \A l \in DOMAIN ListOf(t) : ~(l < 1)
  BY <1>2
<1>. SUFFICES ASSUME NEW g PROVE Passed(g)' <=> Passed(g)
  OBVIOUS
<1>5. Passed(g)' <=> \E t \in Slots : \E l \in DOMAIN ListOf(t) :
                       /\ ListOf(t)[l] = g
                       /\ \/ t < s + 1
                          \/ t = s + 1 /\ l < 1
  BY <1>1 DEF Passed, Slots
<1>6. Passed(g) <=> \E t \in Slots : \E l \in DOMAIN ListOf(t) :
                      /\ ListOf(t)[l] = g
                      /\ \/ t < s
                         \/ t = s /\ l < cursor.k
  BY DEF Passed
<1>. QED
  BY <1>3, <1>4, <1>5, <1>6

LEMMA WalkEnds ==
    ASSUME RegistryOK, cursor.slot \in 0 .. MaxEvents, ~ InUse(cursor.slot)
    PROVE  \A g : Listed(g) <=> Passed(g)
<1>1. Slots \subseteq Int /\ \A s \in Slots : s < MaxEvents
  BY MaxEventsAssumption DEF Slots
<1>2. \A s \in Slots : IdOf(s) = 0 => DOMAIN ListOf(s) = {}
  <2>1. DOMAIN << >> = {}
    OBVIOUS
  <2>. QED
    BY <2>1 DEF RegistryOK, ListsOK
<1>3. \A s \in Slots : DOMAIN ListOf(s) # {} => s < cursor.slot
  <2>. SUFFICES ASSUME NEW s \in Slots, IdOf(s) # 0 PROVE s < cursor.slot
    BY <1>2
  <2>1. CASE cursor.slot \notin Slots
    <3>1. cursor.slot = MaxEvents
      BY <2>1, MaxEventsAssumption DEF Slots
    <3>. QED
      BY <1>1, <3>1
  <2>2. CASE cursor.slot \in Slots
    <3>1. PICK u \in Slots : IdOf(u) = 0 /\ u <= cursor.slot
      BY <2>2, <1>1 DEF InUse, SlotsWith, IdOf
    <3>2. ~(u < s)
      BY <3>1 DEF RegistryOK, SlotsCompact, IdOf
    <3>3. u # s
      BY <3>1
    <3>. QED
      BY <1>1, <2>2, <3>1, <3>2, <3>3
  <2>. QED
    BY <2>1, <2>2
<1>. QED
  BY <1>3 DEF Listed, Passed


(* evh_call_initializers and evh_call_finalizers *)
LEMMA WalkKeepsCalls ==
    ASSUME LogInv, PlaceOK, RegistryOK, CallsOK, NEW phase, NEW next, Walk(phase, next),
           \/ phase = "init" /\ next = "fetch"
           \/ phase = "finalize" /\ next = "exit"
    PROVE  CallsOK'
<1>1. /\ pc = phase /\ handlerArray' = handlerArray /\ order' = order
      /\ eventList' = eventList /\ eventCount' = eventCount /\ event' = event
  BY DEF Walk, logVars
<1>2. cursor \in [slot : 0 .. MaxEvents, k : Nat \ {0}] /\ MaxEvents \in Nat
  BY MaxEventsAssumption DEF CallsOK
<1>3. \A h : Listed(h)' <=> Listed(h)
  BY <1>1, ListsStay
<1>4. phase = "init" => eventCount = 0 /\ \A h, i : ~ Seen(h, i) /\ ~ Seen(h, i)'
  BY <1>1 DEF PlaceOK, Seen
<1>. DEFINE s == cursor.slot
            k == cursor.k
<1>5. CASE /\ IsCallback(cursor.slot, cursor.k)
           /\ Call(phase, handlerArray[cursor.slot].handler_list[cursor.k], -1)
           /\ UNCHANGED pc
  <2>. DEFINE h == ListOf(s)[k]
              c == [kind |-> phase, handler |-> h, index |-> -1]
  <2>1. s \in Slots /\ k \in DOMAIN ListOf(s)
    BY <1>5 DEF IsCallback, InUse, ListOf
  <2>2. Listed(h) /\ h \in Handlers
    BY <2>1, ListedRanks DEF Listed
  <2>3. calls' = Append(calls, c)
    BY <1>5 DEF Call, ListOf
  <2>4. /\ cursor' = [cursor EXCEPT !.k = @ + 1] /\ cursor'.slot = s /\ cursor'.k = k + 1
        /\ cursor' \in [slot : 0 .. MaxEvents, k : Nat \ {0}]
    BY <1>2, <1>5 DEF Call
  <2>5. \A g : Passed(g)' <=> Passed(g) \/ g = h
    BY <1>1, <2>1, <2>4, WalkPassesOne
  <2>6. c \in CallRecords
    BY <2>2, MaxRecordsAssumption DEF CallRecords
  <2>7. c.kind = phase /\ c.handler = h /\ c.index = -1
    OBVIOUS
  <2>8. \A d \in CallRecords : d = c <=> d.kind = phase /\ d.handler = h /\ d.index = -1
    BY DEF CallRecords
  <2>9. \A d \in CallRecords : Passed(d.handler) =>
          /\ Listed(d.handler)
          /\ \/ FirstRankOfId(EventIdOf[d.handler]) < FirstRankOfId(EventIdOf[h])
             \/ EventIdOf[d.handler] = EventIdOf[h] /\ RankOf(d.handler) < RankOf(h)
    BY <2>1, PassedBefore
  <2>. HIDE DEF h, c, s, k
  <2>10. ASSUME NEW d \in CallRecords PROVE Due(d)' <=> Due(d) \/ d = c
    <3>1. pc' = phase
      BY <1>1, <1>5
    <3>2. CASE phase = "init"
      <4>1. \A g : /\ Initialized(g) <=> Passed(g)
                   /\ Initialized(g)' <=> Passed(g)'
                   /\ ~ Finalized(g) /\ ~ Finalized(g)'
        BY <1>1, <3>1, <3>2 DEF Initialized, Finalized
      <4>. QED
        BY <1>4, <2>5, <2>8, <3>2, <4>1 DEF Due
    <3>3. CASE phase = "finalize"
      <4>1. \A g : /\ Initialized(g) <=> Listed(g)
                   /\ Initialized(g)' <=> Listed(g)
                   /\ Finalized(g) <=> Passed(g)
                   /\ Finalized(g)' <=> Passed(g)'
        BY <1>1, <1>3, <3>1, <3>3 DEF Initialized, Finalized
      <4>2. \A g, i : Seen(g, i)' <=> Seen(g, i)
        BY <1>1, <1>3, <3>1, <3>3 DEF Seen
      <4>. QED
        BY <2>5, <2>8, <3>3, <4>1, <4>2 DEF Due
    <3>. QED
      BY <3>2, <3>3
  <2>11. ASSUME NEW d \in CallRecords, Due(d) PROVE Before(CallKey(d), CallKey(c))
    <3>1. CASE d.kind = phase
      <4>1. Passed(d.handler) /\ d.index = -1
        BY <1>1, <2>11, <3>1 DEF Due, Initialized, Finalized
      <4>. QED
        BY <2>2, <2>6, <2>7, <2>9, <3>1, <4>1, KeyBefore
    <3>2. CASE d.kind # phase
      <4>1. phase = "finalize"
        <5>1. d.kind \in {"init", "process", "finalize"}
          BY DEF CallRecords
        <5>. QED
          BY <1>1, <1>4, <2>11, <3>2, <5>1 DEF Due, Finalized
      <4>2. Listed(d.handler) /\ d.kind \in {"init", "process"}
        BY <1>1, <2>11, <3>2, <4>1 DEF Due, Initialized, Seen, CallRecords
      <4>. QED
        BY <2>2, <2>6, <2>7, <4>1, <4>2, KeyBefore
    <3>. QED
      BY <3>1, <3>2
  <2>12. pc' \notin {"open", "register"}
    BY <1>1, <1>5
  <2>. QED
    BY <1>1, <2>3, <2>4, <2>6, <2>10, <2>11, <2>12, CallMade
<1>6. CASE /\ InUse(cursor.slot)
           /\ ~IsCallback(cursor.slot, cursor.k)
           /\ cursor' = [slot |-> cursor.slot + 1, k |-> 1]
           /\ UNCHANGED <<pc, calls>>
  <2>1. s \in Slots /\ k \notin DOMAIN ListOf(s) /\ k \in Nat \ {0}
    BY <1>2, <1>6 DEF IsCallback, InUse, ListOf
  <2>2. /\ cursor'.slot = s + 1 /\ cursor'.k = 1
        /\ cursor' \in [slot : 0 .. MaxEvents, k : Nat \ {0}]
    BY <1>2, <1>6, <2>1 DEF Slots
  <2>3. \A g : Passed(g)' <=> Passed(g)
    BY <1>1, <2>1, <2>2, WalkNextSlot
  <2>4. pc' = pc /\ order' = order /\ calls' = calls
    BY <1>1, <1>6
  <2>5. /\ \A g : Initialized(g)' <=> Initialized(g)
        /\ \A g : Finalized(g)' <=> Finalized(g)
    BY <1>3, <2>3, <2>4 DEF Initialized, Finalized
  <2>6. \A g, i : Seen(g, i)' <=> Seen(g, i)
    <3>1. pc # "handle"
      BY <1>1
    <3>. QED
      BY <1>1, <1>3, <2>4, <3>1 DEF Seen
  <2>7. \A c \in CallRecords : Due(c)' <=> Due(c)
    BY <2>5, <2>6, DueFollows
  <2>. QED
    BY <2>2, <2>4, <2>7, NoCallMade
<1>7. CASE ~InUse(cursor.slot) /\ Goto(next) /\ UNCHANGED calls
  <2>1. \A g : Listed(g) <=> Passed(g)
    BY <1>2, <1>7, WalkEnds
  <2>2. pc' = next /\ cursor' \in [slot : 0 .. MaxEvents, k : Nat \ {0}]
    BY <1>2, <1>7 DEF Goto
  <2>3. /\ \A g : Initialized(g)' <=> Initialized(g)
        /\ \A g : Finalized(g)' <=> Finalized(g)
    BY <1>1, <1>3, <2>1, <2>2 DEF Initialized, Finalized
  <2>4. \A g, i : Seen(g, i)' <=> Seen(g, i)
    <3>1. pc # "handle" /\ pc' # "handle"
      BY <1>1, <2>2
    <3>. QED
      BY <1>1, <1>3, <3>1 DEF Seen
  <2>5. \A c \in CallRecords : Due(c)' <=> Due(c)
    BY <2>3, <2>4, DueFollows
  <2>6. UNCHANGED <<order, calls>> /\ pc' \notin {"open", "register"}
    BY <1>1, <1>7, <2>2
  <2>. QED
    BY <2>2, <2>5, <2>6, NoCallMade
<1>. QED
  BY <1>5, <1>6, <1>7 DEF Walk


(* evh_call_handlers, one callback *)
LEMMA CallHandlerKeepsCalls ==
    ASSUME LogInv, PlaceOK, RegistryOK, CallsOK, CallHandler
    PROVE  CallsOK'
<1>. DEFINE id == event.event_id
            k == cursor.k
            h == CalledFor(id)[k]
            c == [kind |-> "process", handler |-> h, index |-> eventCount - 1]
<1>1. /\ pc = "handle" /\ k \in DOMAIN CalledFor(id)
      /\ calls' = Append(calls, c) /\ cursor' = [cursor EXCEPT !.k = @ + 1]
      /\ pc' = pc /\ handlerArray' = handlerArray /\ order' = order
      /\ eventList' = eventList /\ eventCount' = eventCount /\ event' = event
  BY DEF CallHandler, Call, logVars
<1>2. /\ cursor \in [slot : 0 .. MaxEvents, k : Nat \ {0}]
      /\ cursor' \in [slot : 0 .. MaxEvents, k : Nat \ {0}] /\ cursor'.k = k + 1
  BY <1>1 DEF CallsOK
<1>3. /\ numEvents \in Nat /\ eventCount \in 0 .. numEvents /\ numEvents <= MaxRecords
      /\ MaxRecords \in Nat /\ eventCount > 0
  BY <1>1, LogCounts, MaxRecordsAssumption DEF PlaceOK
<1>4. event = eventList[eventCount - 1]
  BY <1>1, <1>3 DEF PlaceOK, LogInv, Progress
<1>5. Listed(h) /\ EventIdOf[h] = id /\ h \in Handlers
  BY <1>1, CalledIff
<1>6. c \in CallRecords
  BY <1>3, <1>5 DEF CallRecords
<1>7. c.kind = "process" /\ c.handler = h /\ c.index = eventCount - 1
  OBVIOUS
<1>8. \A d \in CallRecords : d = c <=> d.kind = "process" /\ d.handler = h /\ d.index = eventCount - 1
  BY DEF CallRecords
<1>9. /\ \A g : Listed(g)' <=> Listed(g)
      /\ \A e : CalledFor(e)' = CalledFor(e)
  BY <1>1, ListsStay
<1>10. \A l \in DOMAIN CalledFor(id) : l \in Int
  BY CalledIff
<1>11. ASSUME NEW g PROVE Reached(g)' <=> Reached(g) \/ g = h
  <2>1. Reached(g)' <=> \E l \in DOMAIN CalledFor(id) : l < k + 1 /\ CalledFor(id)[l] = g
    BY <1>1, <1>2, <1>9 DEF Reached
  <2>2. Reached(g) <=> \E l \in DOMAIN CalledFor(id) : l < k /\ CalledFor(id)[l] = g
    BY DEF Reached
  <2>3. \A l \in DOMAIN CalledFor(id) : l < k + 1 <=> l < k \/ l = k
    BY <1>2, <1>10
  <2>. QED
    BY <1>1, <2>1, <2>2, <2>3
<1>12. ASSUME NEW g, Reached(g) PROVE EventIdOf[g] = id /\ RankOf(g) < RankOf(h)
  <2>1. PICK l \in DOMAIN CalledFor(id) : l < k /\ CalledFor(id)[l] = g
    BY <1>12 DEF Reached
  <2>. QED
    BY <1>1, <2>1, CalledIff
<1>. HIDE DEF k, h, c
<1>13. ASSUME NEW d \in CallRecords PROVE Due(d)' <=> Due(d) \/ d = c
  <2>1. \A g : /\ Initialized(g)' <=> Initialized(g)
               /\ ~ Finalized(g) /\ ~ Finalized(g)'
    BY <1>1, <1>9 DEF Initialized, Finalized
  <2>2. \A g, i : Seen(g, i)' <=> Seen(g, i) \/ (g = h /\ i = eventCount - 1)
    <3>. SUFFICES ASSUME NEW g, NEW i
                  PROVE  Seen(g, i)' <=> Seen(g, i) \/ (g = h /\ i = eventCount - 1)
      OBVIOUS
    <3>1. Seen(g, i)' <=> /\ i \in 0 .. eventCount - 1
                          /\ Listed(g) /\ eventList[i].event_id = EventIdOf[g]
                          /\ i = eventCount - 1 => Reached(g) \/ g = h
      BY <1>1, <1>9, <1>11 DEF Seen
    <3>2. Seen(g, i) <=> /\ i \in 0 .. eventCount - 1
                         /\ Listed(g) /\ eventList[i].event_id = EventIdOf[g]
                         /\ i = eventCount - 1 => Reached(g)
      BY <1>1 DEF Seen
    <3>3. eventCount - 1 \in 0 .. eventCount - 1
      BY <1>3
    <3>. QED
      BY <1>4, <1>5, <3>1, <3>2, <3>3
  <2>. QED
    BY <1>8, <2>1, <2>2 DEF Due
<1>14. ASSUME NEW d \in CallRecords, Due(d) PROVE Before(CallKey(d), CallKey(c))
  <2>1. CASE d.kind = "init"
    <3>1. Listed(d.handler)
      BY <1>1, <1>14, <2>1 DEF Due, Initialized
    <3>. QED
      BY <1>5, <1>6, <1>7, <2>1, <3>1, KeyBefore
  <2>2. CASE d.kind = "process"
    <3>1. Seen(d.handler, d.index)
      BY <1>14, <2>2 DEF Due
    <3>2. Listed(d.handler) /\ d.index \in 0 .. eventCount - 1
      BY <3>1 DEF Seen
    <3>3. CASE d.index = eventCount - 1
      <4>1. Reached(d.handler)
        BY <1>1, <3>1, <3>3 DEF Seen
      <4>. QED
        BY <1>5, <1>6, <1>7, <1>12, <2>2, <3>2, <3>3, <4>1, KeyBefore
    <3>4. CASE d.index # eventCount - 1
      <4>1. d.index < eventCount - 1
        BY <1>3, <3>2, <3>4
      <4>. QED
        BY <1>5, <1>6, <1>7, <2>2, <3>2, <4>1, KeyBefore
    <3>. QED
      BY <3>3, <3>4
  <2>3. CASE d.kind = "finalize"
    BY <1>1, <1>14, <2>3 DEF Due, Finalized
  <2>. QED
    BY <2>1, <2>2, <2>3 DEF CallRecords
<1>15. pc' \notin {"open", "register"}
  BY <1>1
<1>. QED
  BY <1>1, <1>2, <1>6, <1>13, <1>14, <1>15, CallMade

(* return_next_event hands out a record nobody has seen *)
LEMMA FetchKeepsCalls ==
    ASSUME LogInv, PlaceOK, RegistryOK, CallsOK, Fetch
    PROVE  CallsOK'
<1>1. /\ pc = "fetch" /\ handlerArray' = handlerArray /\ order' = order /\ calls' = calls
      /\ pc' \in {"handle", "total"} /\ cursor' = [slot |-> 0, k |-> 1]
  BY DEF Fetch, Goto
<1>2. cursor' \in [slot : 0 .. MaxEvents, k : Nat \ {0}] /\ cursor'.k = 1
  BY <1>1, MaxEventsAssumption
<1>3. \A g : Listed(g)' <=> Listed(g)
  BY <1>1, ListsStay
<1>4. /\ \A g : Initialized(g)' <=> Initialized(g)
      /\ \A g : Finalized(g)' <=> Finalized(g)
  BY <1>1, <1>3 DEF Initialized, Finalized
<1>5. \A g, i : Seen(g, i)' <=> Seen(g, i)
  <2>. SUFFICES ASSUME NEW g, NEW i PROVE Seen(g, i)' <=> Seen(g, i)
    OBVIOUS
  <2>1. Seen(g, i) <=> /\ i \in 0 .. eventCount - 1
                       /\ Listed(g) /\ eventList[i].event_id = EventIdOf[g]
    BY <1>1 DEF Seen
  <2>2. CASE ReturnNextEvent /\ Goto("handle")
    <3>1. /\ numEvents \in Nat /\ eventCount \in 0 .. numEvents - 1 /\ eventCount' = eventCount + 1
          /\ eventList \in [0 .. numEvents - 1 -> Event]
          /\ eventList' = [eventList EXCEPT ![eventCount].lastNs = LastNs(eventCount)]
      BY <2>2, LogCounts DEF ReturnNextEvent
    <3>2. \A j \in 0 .. eventCount - 1 : eventList'[j] = eventList[j]
      BY <3>1
    <3>3. ~ Reached(g)'
      <4>1. \A l \in DOMAIN CalledFor(event.event_id)' : l \in Int /\ l >= 1
        <5>1. \A e : DOMAIN CalledFor(e)' = 1 .. Len(CalledFor(e)) /\ Len(CalledFor(e)) \in Nat
          BY <1>1, ListsStay, CalledIff
        <5>2. PICK e : e = event'.event_id
          OBVIOUS
        <5>. QED
          BY <1>1, <5>1, <5>2, ListsStay
      <4>. QED
        BY <1>2, <4>1 DEF Reached
    <3>4. Seen(g, i)' <=> /\ i \in 0 .. eventCount
                          /\ Listed(g) /\ eventList'[i].event_id = EventIdOf[g]
                          /\ i # eventCount
      <4>1. pc' = "handle" /\ eventCount' - 1 = eventCount
        BY <2>2, <3>1 DEF Goto
      <4>. QED
        BY <1>3, <3>3, <4>1 DEF Seen
    <3>5. i \in 0 .. eventCount - 1 <=> i \in 0 .. eventCount /\ i # eventCount
      BY <3>1
    <3>. QED
      BY <2>1, <3>2, <3>4, <3>5
  <2>3. CASE ReturnNoEvent /\ Goto("total")
    BY <1>3, <2>1, <2>3 DEF ReturnNoEvent, Goto, Seen
  <2>. QED
    BY <2>2, <2>3 DEF Fetch
<1>6. \A c \in CallRecords : Due(c)' <=> Due(c)
  BY <1>4, <1>5, DueFollows
<1>7. UNCHANGED <<order, calls>> /\ pc' \notin {"open", "register"}
  BY <1>1
<1>. QED
  BY <1>2, <1>6, <1>7, NoCallMade


(* A step that neither calls back nor reads a record *)
LEMMA PlaceChanges ==
    ASSUME LogInv, PlaceOK, RegistryOK, CallsOK, UNCHANGED <<logVars, handlerArray, order, calls>>,
           \/ UNCHANGED <<pc, cursor>>
           \/ /\ cursor' = [slot |-> 0, k |-> 1] /\ pc \notin {"open", "register", "init", "finalize"}
              /\ <<pc, pc'>> \in {<<"handle", "update">>, <<"update", "fetch">>,
                                  <<"total", "finalize">>, <<"total", "crashed">>,
                                  <<"exit", "exited">>},
           pc = "handle" /\ pc' = "update" => \A l \in DOMAIN CalledFor(event.event_id) : l < cursor.k
    PROVE  CallsOK'
<1>1. /\ eventList' = eventList /\ eventCount' = eventCount /\ event' = event
      /\ handlerArray' = handlerArray /\ order' = order /\ calls' = calls
  BY DEF logVars
<1>2. /\ \A g : Listed(g)' <=> Listed(g)
      /\ \A e : CalledFor(e)' = CalledFor(e)
  BY <1>1, ListsStay
<1>3. CASE UNCHANGED <<pc, cursor>>
  <2>1. \A g : Passed(g)' <=> Passed(g)
    BY <1>1, <1>3 DEF Passed, ListOf
  <2>2. \A g : Reached(g)' <=> Reached(g)
    BY <1>1, <1>2, <1>3 DEF Reached
  <2>3. /\ \A g : Initialized(g)' <=> Initialized(g)
        /\ \A g : Finalized(g)' <=> Finalized(g)
        /\ \A g, i : Seen(g, i)' <=> Seen(g, i)
    BY <1>1, <1>2, <1>3, <2>1, <2>2 DEF Initialized, Finalized, Seen
  <2>4. \A c \in CallRecords : Due(c)' <=> Due(c)
    BY <2>3, DueFollows
  <2>5. cursor' \in [slot : 0 .. MaxEvents, k : Nat \ {0}]
    BY <1>3 DEF CallsOK
  <2>. QED
    BY <1>1, <1>3, <2>4, <2>5, NoCallMade
<1>4. CASE /\ cursor' = [slot |-> 0, k |-> 1] /\ pc \notin {"open", "register", "init", "finalize"}
           /\ <<pc, pc'>> \in {<<"handle", "update">>, <<"update", "fetch">>,
                               <<"total", "finalize">>, <<"total", "crashed">>,
                               <<"exit", "exited">>}
  <2>1. \/ pc = "handle" /\ pc' = "update"
        \/ pc = "update" /\ pc' = "fetch"
        \/ pc = "total" /\ pc' = "finalize"
        \/ pc = "total" /\ pc' = "crashed"
        \/ pc = "exit" /\ pc' = "exited"
    BY <1>4
  <2>2. cursor' \in [slot : 0 .. MaxEvents, k : Nat \ {0}] /\ cursor'.slot = 0 /\ cursor'.k = 1
    BY <1>4, MaxEventsAssumption
  <2>3. \A g : ~ Passed(g)'
    <3>1. \A t \in Slots : /\ ~ (t < 0)
                           /\ \A l \in DOMAIN ListOf(t) : ~ (l < 1)
      BY SlotFacts DEF Slots
    <3>2. \A t : ListOf(t)' = ListOf(t)
      BY <1>1 DEF ListOf
    <3>. QED
      BY <2>2, <3>1, <3>2 DEF Passed, Slots
  <2>4. /\ \A g : Initialized(g)' <=> Initialized(g)
        /\ \A g : Finalized(g)' <=> Finalized(g)
    BY <1>2, <2>1, <2>3 DEF Initialized, Finalized
  <2>5. \A g, i : Seen(g, i)' <=> Seen(g, i)
    <3>. SUFFICES ASSUME NEW g, NEW i PROVE Seen(g, i)' <=> Seen(g, i)
      OBVIOUS
    <3>1. Seen(g, i)' <=> /\ i \in 0 .. eventCount - 1
                          /\ Listed(g) /\ eventList[i].event_id = EventIdOf[g]
      BY <1>1, <1>2, <2>1 DEF Seen
    <3>2. CASE pc # "handle"
      BY <3>1, <3>2 DEF Seen
    <3>3. CASE pc = "handle"
      <4>1. ASSUME Listed(g), EventIdOf[g] = event.event_id PROVE Reached(g)
        <5>1. g \in Handlers
          BY <4>1, ListedRanks
        <5>2. PICK l \in DOMAIN CalledFor(event.event_id) : CalledFor(event.event_id)[l] = g
          BY <4>1, <5>1, CalledIff
        <5>. QED
          BY <2>1, <3>3, <5>2 DEF Reached
      <4>2. i = eventCount - 1 => event = eventList[i]
        <5>1. event # NoEvent
          <6>1. eventCount > 0
            BY <3>3 DEF PlaceOK
          <6>. QED
            BY <6>1 DEF PlaceOK
        <5>. QED
          BY <5>1 DEF LogInv, Progress
      <4>. QED
        BY <3>1, <4>1, <4>2 DEF Seen
    <3>. QED
      BY <3>2, <3>3
  <2>6. \A c \in CallRecords : Due(c)' <=> Due(c)
    BY <2>4, <2>5, DueFollows
  <2>7. pc' \notin {"open", "register"}
    BY <2>1
  <2>. QED
    BY <1>1, <2>2, <2>6, <2>7, NoCallMade
<1>. QED
  BY <1>3, <1>4

LEMMA CallsStep ==
    LogInv /\ PlaceOK /\ RegistryOK /\ CallsOK /\ [Next]_readerVars => CallsOK'
<1>. SUFFICES ASSUME LogInv, PlaceOK, RegistryOK, CallsOK, [Next]_readerVars
              PROVE  CallsOK'
  OBVIOUS
<1>1. [slot |-> 0, k |-> 1] \in [slot : 0 .. MaxEvents, k : Nat \ {0}]
  BY MaxEventsAssumption
<1>2. cursor \in [slot : 0 .. MaxEvents, k : Nat \ {0}]
  BY DEF CallsOK
<1>3. pc \in {"open", "register"} => eventCount = 0 /\ calls = << >>
  <2>1. pc = "open" => ~ open
    BY DEF PlaceOK
  <2>. QED
    BY <2>1, LogCounts DEF PlaceOK, CallsOK
<1>4. CASE OpenLog
  <2>1. /\ calls' = << >> /\ eventCount' = 0 /\ pc' = "register"
        /\ cursor' = [slot |-> 0, k |-> 1]
    BY <1>3, <1>4 DEF OpenLog, SortEventsByNs, Goto
  <2>2. \A c \in CallRecords : ~ Due(c)'
    BY <2>1 DEF Due, Initialized, Seen, Finalized
  <2>. QED
    BY <1>1, <2>1, <2>2, NothingCalled
<1>5. CASE OpenFails
  <2>1. /\ calls' = << >> /\ eventCount' = 0 /\ pc' = "stopped"
        /\ cursor' = [slot |-> 0, k |-> 1]
    BY <1>3, <1>5 DEF OpenFails, Goto, logVars
  <2>2. \A c \in CallRecords : ~ Due(c)'
    BY <2>1 DEF Due, Initialized, Seen, Finalized
  <2>. QED
    BY <1>1, <2>1, <2>2, NothingCalled
<1>6. ASSUME NEW h \in Handlers, Register(h) PROVE CallsOK'
  <2>1. /\ calls' = << >> /\ eventCount' = 0 /\ pc' = "register" /\ cursor' = cursor
    BY <1>3, <1>6 DEF Register, logVars
  <2>2. \A c \in CallRecords : ~ Due(c)'
    BY <2>1 DEF Due, Initialized, Seen, Finalized
  <2>. QED
    BY <1>2, <2>1, <2>2, NothingCalled
<1>7. CASE StartLoop
  <2>1. /\ calls' = << >> /\ eventCount' = 0 /\ pc' = "init" /\ handlerArray' = handlerArray
        /\ cursor' = [slot |-> 0, k |-> 1] /\ cursor'.slot = 0 /\ cursor'.k = 1
    BY <1>3, <1>7 DEF StartLoop, Goto, logVars
  <2>2. \A g : ~ Passed(g)'
    <3>1. \A t \in Slots : /\ ~ (t < 0)
                           /\ \A l \in DOMAIN ListOf(t) : ~ (l < 1)
      BY SlotFacts DEF Slots
    <3>2. \A t : ListOf(t)' = ListOf(t)
      BY <2>1 DEF ListOf
    <3>. QED
      BY <2>1, <3>1, <3>2 DEF Passed, Slots
  <2>3. \A c \in CallRecords : ~ Due(c)'
    BY <2>1, <2>2 DEF Due, Initialized, Seen, Finalized
  <2>. QED
    BY <1>1, <2>1, <2>3, NothingCalled
<1>8. CASE CallInitializers \/ CallFinalizers
  BY <1>8, WalkKeepsCalls DEF CallInitializers, CallFinalizers
<1>9. CASE Fetch
  BY <1>9, FetchKeepsCalls
<1>10. CASE CallHandler
  BY <1>10, CallHandlerKeepsCalls
<1>11. CASE HandlersReturn
  <2>1. \A l \in DOMAIN CalledFor(event.event_id) : l < cursor.k
    <3>1. cursor.k \in Nat \ {0} /\ cursor.k \notin DOMAIN CalledFor(event.event_id)
      BY <1>2, <1>11 DEF HandlersReturn
    <3>. QED
      BY <3>1, CalledIff
  <2>2. /\ UNCHANGED <<logVars, handlerArray, order, calls>>
        /\ pc = "handle" /\ pc' = "update" /\ cursor' = [slot |-> 0, k |-> 1]
    BY <1>11 DEF HandlersReturn, Goto
  <2>. QED
    BY <2>1, <2>2, PlaceChanges
<1>12. CASE Update \/ Total \/ DivideByZero \/ ReaderExit
  <2>1. /\ UNCHANGED <<logVars, handlerArray, order, calls>>
        /\ cursor' = [slot |-> 0, k |-> 1]
        /\ \/ pc = "update" /\ pc' = "fetch"
           \/ pc = "total" /\ pc' = "finalize"
           \/ pc = "total" /\ pc' = "crashed"
           \/ pc = "exit" /\ pc' = "exited"
    BY <1>12 DEF Update, Total, DivideByZero, ReaderExit, Goto
  <2>. QED
    BY <2>1, PlaceChanges
<1>13. CASE UNCHANGED readerVars
  <2>1. UNCHANGED <<logVars, handlerArray, order, calls>> /\ UNCHANGED <<pc, cursor>>
    BY <1>13 DEF readerVars
  <2>2. ~ (pc = "handle" /\ pc' = "update")
    BY <2>1
  <2>. QED
    BY <2>1, <2>2, PlaceChanges
<1>. QED
  BY <1>4, <1>5, <1>6, <1>7, <1>8, <1>9, <1>10, <1>11, <1>12, <1>13 DEF Next, Terminated


-----------------------------------------------------------------------------
(* From who is listed to who was called *)
LEMMA RegistryStep == RegistryOK /\ [Next]_readerVars => RegistryOK'
<1>. SUFFICES ASSUME RegistryOK, [Next]_readerVars PROVE RegistryOK'
  OBVIOUS
<1>1. ASSUME NEW h \in Handlers, Register(h) PROVE RegistryOK'
  BY <1>1, RegisterKeepsRegistry
<1>2. ASSUME UNCHANGED <<handlerArray, order>> PROVE RegistryOK'
  BY <1>2 DEF RegistryOK, SlotsCompact, ListsOK, Listed, TurnedAway, CameBefore, IdOf, ListOf,
              Slots, SlotType
<1>3. (\E h \in Handlers : Register(h)) \/ UNCHANGED <<handlerArray, order>>
  BY DEF Next, OpenLog, OpenFails, StartLoop, CallInitializers, CallFinalizers, Walk, Fetch,
         CallHandler, HandlersReturn, Update, Total, DivideByZero, ReaderExit, Terminated,
         readerVars
<1>. QED
  BY <1>1, <1>2, <1>3

LEMMA CalledIs ==
    ASSUME CallsOK, NEW kind \in {"init", "process", "finalize"}, NEW h \in Handlers, NEW x
    PROVE  x \in Called(kind, h) <=>
             /\ x \in -1 .. MaxRecords - 1
             /\ Due([kind |-> kind, handler |-> h, index |-> x])
<1>. DEFINE c == [kind |-> kind, handler |-> h, index |-> x]
<1>1. calls \in Seq(CallRecords) /\ \A d \in Range(calls) : d \in CallRecords
  BY DEF CallsOK, Range
<1>2. \A d \in CallRecords : d \in Range(calls) <=> Due(d)
  BY DEF CallsOK, Range
<1>3. \A d \in CallRecords : d = c <=> d.kind = kind /\ d.handler = h /\ d.index = x
  BY DEF CallRecords
<1>4. x \in Called(kind, h) <=>
        \E d \in Range(calls) : d.kind = kind /\ d.handler = h /\ d.index = x
  BY DEF Called
<1>5. x \in -1 .. MaxRecords - 1 <=> c \in CallRecords
  BY DEF CallRecords
<1>. HIDE DEF c
<1>6. x \in Called(kind, h) <=> c \in CallRecords /\ Due(c)
  BY <1>1, <1>2, <1>3, <1>4
<1>. QED
  BY <1>5, <1>6 DEF c

LEMMA CallsAreComplete ==
    LogInv /\ PlaceOK /\ RegistryOK /\ CallsOK => CallsComplete
<1>. SUFFICES ASSUME LogInv, PlaceOK, RegistryOK, CallsOK, NEW h \in Handlers
              PROVE  /\ pc # "init" =>
                          Called("init", h) =
                            IF h \in Accepted /\ pc \notin {"open", "register", "stopped"}
                            THEN {-1} ELSE {}
                     /\ pc # "handle" =>
                          Called("process", h) =
                            {i \in 0 .. eventCount - 1 :
                               h \in Accepted /\ eventList[i].event_id = EventIdOf[h]}
                     /\ pc # "finalize" =>
                          Called("finalize", h) =
                            IF h \in Accepted /\ pc \in {"exit", "exited"} THEN {-1} ELSE {}
  BY DEF CallsComplete
<1>1. h \in Accepted <=> Listed(h)
  BY ListedIsAccepted
<1>2. -1 \in -1 .. MaxRecords - 1 /\ 0 .. eventCount - 1 \subseteq -1 .. MaxRecords - 1
  BY LogCounts, MaxRecordsAssumption
<1>3. ASSUME pc # "init"
      PROVE  Called("init", h) =
               IF h \in Accepted /\ pc \notin {"open", "register", "stopped"} THEN {-1} ELSE {}
  <2>1. \A x : Due([kind |-> "init", handler |-> h, index |-> x]) <=> x = -1 /\ Initialized(h)
    BY DEF Due
  <2>2. Initialized(h) <=> h \in Accepted /\ pc \notin {"open", "register", "stopped"}
    BY <1>1, <1>3 DEF Initialized
  <2>3. \A x : x \in Called("init", h) <=> x = -1 /\ Initialized(h)
    BY <1>2, <2>1, CalledIs
  <2>. QED
    BY <2>2, <2>3
<1>4. ASSUME pc # "handle"
      PROVE  Called("process", h) =
               {i \in 0 .. eventCount - 1 :
                  h \in Accepted /\ eventList[i].event_id = EventIdOf[h]}
  <2>1. \A x : Due([kind |-> "process", handler |-> h, index |-> x]) <=> Seen(h, x)
    BY DEF Due
  <2>2. \A x : Seen(h, x) <=> /\ x \in 0 .. eventCount - 1
                              /\ h \in Accepted /\ eventList[x].event_id = EventIdOf[h]
    BY <1>1, <1>4 DEF Seen
  <2>3. \A x : x \in Called("process", h) <=> x \in -1 .. MaxRecords - 1 /\ Seen(h, x)
    BY <2>1, CalledIs
  <2>. QED
    BY <1>2, <2>2, <2>3
<1>5. ASSUME pc # "finalize"
      PROVE  Called("finalize", h) =
               IF h \in Accepted /\ pc \in {"exit", "exited"} THEN {-1} ELSE {}
  <2>1. \A x : Due([kind |-> "finalize", handler |-> h, index |-> x]) <=> x = -1 /\ Finalized(h)
    BY DEF Due
  <2>2. Finalized(h) <=> h \in Accepted /\ pc \in {"exit", "exited"}
    BY <1>1, <1>5 DEF Finalized
  <2>3. \A x : x \in Called("finalize", h) <=> x = -1 /\ Finalized(h)
    BY <1>2, <2>1, CalledIs
  <2>. QED
    BY <2>2, <2>3
<1>. QED
  BY <1>3, <1>4, <1>5

-----------------------------------------------------------------------------
ReaderInv == /\ LogInv
             /\ PlaceOK
             /\ CplTypeOK
             /\ WindowsOK
             /\ TotalsOK
             /\ RegistryOK
             /\ CallsOK

LEMMA ReaderInitInv == Init => ReaderInv
<1>. SUFFICES ASSUME Init PROVE ReaderInv
  OBVIOUS
<1>1. TotalsOK
  BY DEF Init, TotalsOK
<1>. QED
  BY <1>1, PlaceInit, WindowsInit, RegistryInit, CallsInit DEF ReaderInv

LEMMA ReaderStep == ReaderInv /\ [Next]_readerVars => ReaderInv'
BY PlaceStep, WindowsStep, TotalsStep, RegistryStep, CallsStep DEF ReaderInv

LEMMA ReaderInvariant == Spec => []ReaderInv
<1>1. Init => ReaderInv
  BY ReaderInitInv
<1>2. ReaderInv /\ [Next]_readerVars => ReaderInv'
  BY ReaderStep
<1>. QED
  BY <1>1, <1>2, PTL DEF Spec

(* Type correctness of the library: log, registry, windows, totals and the *)
(* place in the program, and no callback has an index outside the log.     *)
THEOREM ReaderTypeCorrect == Spec => []TypeOK
<1>1. ReaderInv => TypeOK
  <2>. SUFFICES ASSUME ReaderInv PROVE TypeOK
    OBVIOUS
  <2>1. LogTypeOK /\ CplTypeOK
    BY DEF ReaderInv, LogInv
  <2>2. handlerArray \in [Slots -> [event_id : {0} \cup Range(EventIdOf),
                                    handler_list : Seq(Handlers)]]
    BY DEF ReaderInv, RegistryOK, SlotType
  <2>3. order \in Seq(Handlers)
    BY DEF ReaderInv, RegistryOK
  <2>4. /\ cursor \in [slot : 0 .. MaxEvents, k : Nat \ {0}]
        /\ calls \in Seq([kind : {"init", "process", "finalize"}, handler : Handlers,
                          index : -1 .. MaxRecords - 1])
    BY DEF ReaderInv, CallsOK, CallRecords
  <2>5. gaps \subseteq 0 .. eventCount - 1
    BY DEF ReaderInv, WindowsOK
  <2>6. pc \in {"open", "register", "init", "fetch", "handle", "update", "total",
                "finalize", "exit", "exited", "crashed", "stopped"}
    BY DEF ReaderInv, PlaceOK, Places
  <2>. QED
    BY <2>1, <2>2, <2>3, <2>4, <2>5, <2>6 DEF TypeOK
<1>. QED
  BY <1>1, ReaderInvariant, PTL

(* However the handlers register and however often an id comes back, no id *)
(* gets two slots and no free slot lies in front of one in use: the linear *)
(* searches of EventHandler.c find what they look for.                     *)
THEOREM ReaderSlotsCompact == Spec => []SlotsCompact
<1>1. ReaderInv => SlotsCompact
  BY DEF ReaderInv, RegistryOK
<1>. QED
  BY <1>1, ReaderInvariant, PTL

(* Callbacks come in the order the library owes: the phases, the records   *)
(* in a phase, ids by first registration, handlers by registration.        *)
THEOREM ReaderCallOrder == Spec => []CallOrder
<1>1. ReaderInv => CallOrder
  BY DEF ReaderInv, CallsOK
<1>. QED
  BY <1>1, ReaderInvariant, PTL

(* Every handler that found a slot is initialised, sees exactly the records*)
(* of its id and is finalised; one that was turned away is never called.   *)
THEOREM ReaderCallsComplete == Spec => []CallsComplete
<1>1. ReaderInv => CallsComplete
  BY CallsAreComplete DEF ReaderInv
<1>. QED
  BY <1>1, ReaderInvariant, PTL

(* update_cpulist and the lost-record flag keep each CPU's window at what  *)
(* the log and the gaps say, whichever CPUs the gaps were met on.          *)
THEOREM ReaderWindowsFollowLog == Spec => []WindowsFollowLog
<1>1. ReaderInv => WindowsFollowLog
  BY WindowsFollow DEF ReaderInv
<1>. QED
  BY <1>1, ReaderInvariant, PTL

(* get_total_time reports for each CPU the time from its window's start to *)
(* its last record, with no wrap-around, and a maximum not below it.       *)
THEOREM ReaderTotalsExact == Spec => []TotalsExact
<1>1. ReaderInv => TotalsExact
  BY TotalsAreExact DEF ReaderInv
<1>. QED
  BY <1>1, ReaderInvariant, PTL

(* DONT MOVE THIS FUNC CALL (Reader.c:74): whenever a finalizer runs, all  *)
(* records were handed out and the average is that of the whole log, in    *)
(* whatever order the CPUs came and wherever the sum wrapped around.       *)
THEOREM ReaderFinalizersSeeTotals == Spec => []FinalizersSeeTotals
<1>1. ReaderInv => FinalizersSeeTotals
  BY AverageIsOfLog DEF ReaderInv
<1>. QED
  BY <1>1, ReaderInvariant, PTL
=============================================================================
