--------------------------- MODULE XenStatsProofs ---------------------------
(***************************************************************************)
(* The counts of xen_stats for any kinds, domains and types, counters of   *)
(* any width and logs of any length.                                       *)
(***************************************************************************)
EXTENDS XenStats, FeedTheorems

StatsInv == /\ FeedInv
            /\ TypeOK
            /\ log \in Seq(FeedRecord)
            /\ CountsExact

-----------------------------------------------------------------------------
(* A count that wraps around is one more, modulo its width. *)
LEMMA OneMoreWraps ==
    ASSUME NEW m \in Nat \ {0}, NEW c \in Nat
    PROVE  /\ c % m \in 0 .. m - 1 /\ (c + 1) % m \in 0 .. m - 1
           /\ ((c % m) + 1) % m = (c + 1) % m
<1>. DEFINE q == c \div m
            r == c % m
<1>1. c = (m * q) + r /\ q \in Int /\ r \in 0 .. m - 1
  OBVIOUS
<1>. HIDE DEF q, r
<1>2. CASE r + 1 < m
  <2>1. c + 1 = (m * q) + (r + 1) /\ r + 1 \in 0 .. m - 1
    BY <1>1, <1>2
  <2>2. (c + 1) % m = r + 1 /\ (r + 1) % m = r + 1
    BY <1>1, <2>1
  <2>. QED
    BY <1>1, <2>2 DEF r
<1>3. CASE r + 1 = m
  <2>1. c + 1 = m * (q + 1) /\ q + 1 \in Int
    BY <1>1, <1>3
  <2>2. (c + 1) % m = 0 /\ (r + 1) % m = 0
    BY <1>1, <1>3, <2>1
  <2>. QED
    BY <1>1, <2>2 DEF r
<1>. QED
  BY <1>1, <1>2, <1>3 DEF r

-----------------------------------------------------------------------------
(* An id tells its kind, by the number of its parts, its place and type.   *)
LEMMA SlotIsSlot == ASSUME NEW dom \in Doms PROVE SlotOf(dom) \in Slots
BY DomsAssumption DEF SlotOf, Slots

LEMMA DomainIdIs ==
    ASSUME NEW kind \in DomainKinds, NEW dom \in Doms, NEW type \in Types
    PROVE  LET id == Count(kind, dom, type)
           IN /\ id # LostRecords /\ TypeOf(id) = type
              /\ PlaceOf(id) = <<kind, SlotOf(dom)>> /\ <<kind, SlotOf(dom)>> \in Places
<1>. DEFINE id == Count(kind, dom, type)
<1>1. id = <<kind, dom, type>> /\ Len(id) = 3 /\ id[1] = kind /\ id[2] = dom /\ id[3] = type
  BY DEF Count
<1>2. id \in DomainIds
  BY <1>1 DEF DomainIds
<1>3. Len(LostRecords) = 1
  BY DEF LostRecords
<1>4. <<kind, SlotOf(dom)>> \in DomainKinds \X Slots
  BY SlotIsSlot
<1>. HIDE DEF id
<1>. QED
  BY <1>1, <1>2, <1>3, <1>4 DEF PlaceOf, TypeOf, Places, id

LEMMA XenIdIs ==
    ASSUME NEW kind \in XenKinds, NEW type \in Types
    PROVE  LET id == CountInXen(kind, type)
           IN /\ id # LostRecords /\ TypeOf(id) = type
              /\ PlaceOf(id) = <<kind>> /\ <<kind>> \in Places
<1>. DEFINE id == CountInXen(kind, type)
<1>1. id = <<kind, type>> /\ Len(id) = 2 /\ id[1] = kind /\ id[2] = type
  BY DEF CountInXen
<1>2. id \notin DomainIds
  <2>1. \A x \in DomainIds : Len(x) = 3
    BY DEF DomainIds
  <2>. QED
    BY <1>1, <2>1
<1>3. Len(LostRecords) = 1
  BY DEF LostRecords
<1>. HIDE DEF id
<1>. QED
  BY <1>1, <1>2, <1>3 DEF PlaceOf, TypeOf, Places, id

-----------------------------------------------------------------------------
(* What one more record does to the hits of a place *)
LEMMA HitsAre ==
    ASSUME log \in Seq(FeedRecord), NEW place
    PROVE  /\ Hits(place) \subseteq 1 .. Len(log) /\ IsFiniteSet(Hits(place))
           /\ Len(log) + 1 \notin Hits(place)
<1>1. Hits(place) \subseteq 1 .. Len(log) /\ Len(log) \in Nat
  BY DEF Hits, SinceGap
<1>2. IsFiniteSet(1 .. Len(log)) /\ Len(log) + 1 \notin 1 .. Len(log)
  BY <1>1, FS_Interval
<1>. QED
  BY <1>1, <1>2, FS_Subset

LEMMA RecordSeen ==
    ASSUME log \in Seq(FeedRecord), NEW e \in FeedRecord, log' = Append(log, e), NEW place
    PROVE  /\ log' \in Seq(FeedRecord) /\ log'[Len(log) + 1] = e
           /\ \A i \in 1 .. Len(log) : log'[i] = log[i]
           /\ IsLongGap(e) => Hits(place)' = {}
           /\ ~ IsLongGap(e) =>
                Hits(place)' = Hits(place) \cup
                  IF e.event_id # LostRecords /\ PlaceOf(e.event_id) = place
                  THEN {Len(log) + 1} ELSE {}
<1>. DEFINE n == Len(log)
            k == n + 1
<1>1. /\ n \in Nat /\ DOMAIN log = 1 .. n /\ DOMAIN log' = 1 .. k /\ Len(log') = k
      /\ log' \in Seq(FeedRecord) /\ log'[k] = e
      /\ \A i \in 1 .. n : log'[i] = log[i]
  OBVIOUS
<1>2. /\ SinceGap = {i \in 1 .. n : \A j \in i .. n : ~ IsLongGap(log[j])}
      /\ SinceGap' = {i \in 1 .. k : \A j \in i .. k : ~ IsLongGap(log'[j])}
  BY <1>1 DEF SinceGap, IsLongGap
<1>. HIDE DEF n
<1>3. 1 .. k = 1 .. n \cup {k} /\ k \notin 1 .. n /\ \A i \in 1 .. n : i .. k = i .. n \cup {k}
  BY <1>1
<1>4. \A i \in 1 .. n : i .. n \subseteq 1 .. n
  BY <1>1
<1>5. IsLongGap(e) => SinceGap' = {}
  BY <1>1, <1>2, <1>3
<1>6. ~ IsLongGap(e) => SinceGap' = SinceGap \cup {k}
  <2>. SUFFICES ASSUME ~ IsLongGap(e) PROVE SinceGap' = SinceGap \cup {k}
    OBVIOUS
  <2>1. k .. k = {k}
    BY <1>1
  <2>2. \A i \in 1 .. n : i \in SinceGap' <=> i \in SinceGap
    BY <1>1, <1>2, <1>3, <1>4
  <2>3. k \in SinceGap'
    BY <1>1, <1>2, <1>3, <2>1
  <2>. QED
    BY <1>2, <1>3, <2>2, <2>3
<1>7. /\ Hits(place) = {i \in SinceGap : /\ log[i].event_id # LostRecords
                                         /\ PlaceOf(log[i].event_id) = place}
      /\ Hits(place)' = {i \in SinceGap' : /\ log'[i].event_id # LostRecords
                                           /\ PlaceOf(log'[i].event_id) = place}
  BY DEF Hits, PlaceOf
<1>8. SinceGap \subseteq 1 .. n
  BY <1>2
<1>9. \A i \in SinceGap : log'[i] = log[i]
  BY <1>1, <1>8
<1>. HIDE DEF k
<1>10. ASSUME ~ IsLongGap(e)
       PROVE  Hits(place)' = Hits(place) \cup
                IF e.event_id # LostRecords /\ PlaceOf(e.event_id) = place THEN {k} ELSE {}
  <2>1. SinceGap' = SinceGap \cup {k}
    BY <1>6, <1>10
  <2>2. k \in Hits(place)' <=> e.event_id # LostRecords /\ PlaceOf(e.event_id) = place
    BY <1>1, <1>7, <2>1
  <2>3. \A i \in SinceGap : i \in Hits(place)' <=> i \in Hits(place)
    BY <1>7, <1>9, <2>1
  <2>4. Hits(place)' \subseteq SinceGap \cup {k} /\ Hits(place) \subseteq SinceGap
    BY <1>7, <2>1
  <2>. QED
    BY <2>2, <2>3, <2>4
<1>11. IsLongGap(e) => Hits(place)' = {}
  BY <1>5, <1>7
<1>. QED
  BY <1>1, <1>10, <1>11 DEF n, k

-----------------------------------------------------------------------------
(* What is to hold of one row, the count of its hits of one type *)
OfType(place, type) == {i \in Hits(place) : TypeOf(log[i].event_id) = type}

RowTyped(r) == /\ DOMAIN r = {"totalEvsCount", "types"}
               /\ r.totalEvsCount \in Times
               /\ DOMAIN r.types \subseteq Types
               /\ \A type \in DOMAIN r.types : r.types[type] \in 0 .. CountModulus - 1

RowExact(r, place) ==
    /\ r.totalEvsCount = Cardinality(Hits(place)) % NsModulus
    /\ DOMAIN r.types = {TypeOf(log[i].event_id) : i \in Hits(place)}
    /\ \A type \in DOMAIN r.types :
         r.types[type] = Cardinality(OfType(place, type)) % CountModulus

Rows == /\ DOMAIN row = Places
        /\ \A place \in Places : RowTyped(row[place]) /\ RowExact(row[place], place)

LEMMA RowsAre ==
    /\ StatsInv <=> FeedInv /\ ended \in BOOLEAN /\ log \in Seq(FeedRecord) /\ Rows
    /\ StatsInv' <=> /\ FeedInv' /\ ended' \in BOOLEAN /\ log' \in Seq(FeedRecord)
                     /\ Rows'
BY DEF StatsInv, Rows, RowTyped, RowExact, OfType, TypeOK, CountsExact, FeedInv

LEMMA OfTypeIs ==
    ASSUME log \in Seq(FeedRecord), NEW place, NEW type
    PROVE  /\ IsFiniteSet(OfType(place, type)) /\ Cardinality(OfType(place, type)) \in Nat
           /\ Cardinality(Hits(place)) \in Nat /\ Len(log) + 1 \notin OfType(place, type)
<1>1. OfType(place, type) \subseteq Hits(place) /\ IsFiniteSet(Hits(place))
      /\ Len(log) + 1 \notin Hits(place)
  BY HitsAre DEF OfType
<1>. QED
  BY <1>1, FS_Subset, FS_CardinalityType

(* A row stays as it is while its hits do. *)
LEMMA RowStays ==
    ASSUME log \in Seq(FeedRecord), NEW e \in FeedRecord, log' = Append(log, e),
           NEW place, Hits(place)' = Hits(place), NEW r, RowExact(r, place), r = row'[place]
    PROVE  RowExact(row[place], place)'
<1>1. \A i \in Hits(place) : log'[i] = log[i]
  BY HitsAre, RecordSeen
<1>2. \A type : OfType(place, type)' = OfType(place, type)
  BY <1>1 DEF OfType, TypeOf
<1>3. {TypeOf(log'[i].event_id) : i \in Hits(place)} = {TypeOf(log[i].event_id) : i \in Hits(place)}
  BY <1>1
<1>. QED
  BY <1>2, <1>3 DEF RowExact, TypeOf

(* num_ev_handler *)
LEMMA RowCounts ==
    ASSUME log \in Seq(FeedRecord), NEW e \in FeedRecord, log' = Append(log, e),
           NEW place, Hits(place)' = Hits(place) \cup {Len(log) + 1},
           NEW type \in Types, TypeOf(e.event_id) = type,
           NEW r, RowTyped(r), RowExact(r, place), row'[place] = Counted(r, type)
    PROVE  RowTyped(row[place])' /\ RowExact(row[place], place)'
<1>. DEFINE k == Len(log) + 1
            s == row'[place]
            next == IF type \in DOMAIN r.types THEN (r.types[type] + 1) % CountModulus ELSE 1
<1>1. /\ s.types = Put(r.types, type, next)
      /\ s.totalEvsCount = Plus(r.totalEvsCount, 1)
      /\ DOMAIN s = DOMAIN r
  BY DEF Counted, RowTyped
<1>2. /\ DOMAIN s.types = DOMAIN r.types \cup {type} /\ s.types[type] = next
      /\ \A t \in DOMAIN r.types : t # type => s.types[t] = r.types[t]
  BY <1>1 DEF Put
<1>3. /\ log'[k] = e /\ \A i \in Hits(place) : log'[i] = log[i]
      /\ k \notin Hits(place) /\ IsFiniteSet(Hits(place))
  BY HitsAre, RecordSeen
<1>4. {TypeOf(log'[i].event_id) : i \in Hits(place)'}
        = {TypeOf(log[i].event_id) : i \in Hits(place)} \cup {type}
  BY <1>3
<1>5. \A t : OfType(place, t)' = OfType(place, t) \cup IF t = type THEN {k} ELSE {}
  BY <1>3 DEF OfType, TypeOf
<1>6. Cardinality(Hits(place)') = Cardinality(Hits(place)) + 1
  BY <1>3, FS_AddElement
<1>7. Cardinality(OfType(place, type)') = Cardinality(OfType(place, type)) + 1
  BY <1>5, OfTypeIs, FS_AddElement
<1>8. \A t : t # type => OfType(place, t)' = OfType(place, t)
  BY <1>5
<1>9. /\ s.totalEvsCount = Cardinality(Hits(place)') % NsModulus
      /\ s.totalEvsCount \in Times
  <2>1. r.totalEvsCount = Cardinality(Hits(place)) % NsModulus /\ Cardinality(Hits(place)) \in Nat
    BY OfTypeIs DEF RowExact
  <2>2. /\ ((Cardinality(Hits(place)) % NsModulus) + 1) % NsModulus
             = (Cardinality(Hits(place)) + 1) % NsModulus
        /\ (Cardinality(Hits(place)) + 1) % NsModulus \in 0 .. NsModulus - 1
    BY <2>1, OneMoreWraps, NsModulusAssumption
  <2>. QED
    BY <1>1, <1>6, <2>1, <2>2 DEF Plus, Times
<1>10. next = Cardinality(OfType(place, type)') % CountModulus /\ next \in 0 .. CountModulus - 1
  <2>. DEFINE c == Cardinality(OfType(place, type))
  <2>1. c \in Nat /\ CountModulus \in Nat \ {0} /\ CountModulus > 1
    BY OfTypeIs, CountAssumption
  <2>2. CASE type \in DOMAIN r.types
    <3>1. r.types[type] = c % CountModulus
      BY <2>2 DEF RowExact
    <3>. HIDE DEF c
    <3>2. next = (c + 1) % CountModulus /\ (c + 1) % CountModulus \in 0 .. CountModulus - 1
      BY <2>1, <2>2, <3>1, OneMoreWraps
    <3>. QED
      BY <1>7, <3>2 DEF c
  <2>3. CASE type \notin DOMAIN r.types
    <3>1. OfType(place, type) = {}
      BY <2>3 DEF RowExact, OfType
    <3>2. c = 0 /\ next = 1
      BY <2>3, <3>1, FS_EmptySet
    <3>. HIDE DEF c
    <3>3. 1 % CountModulus = 1 /\ 1 \in 0 .. CountModulus - 1
      BY <2>1
    <3>. QED
      BY <1>7, <3>2, <3>3 DEF c
  <2>. QED
    BY <2>2, <2>3
<1>. HIDE DEF next, k
<1>11. \A t \in DOMAIN s.types : /\ s.types[t] = Cardinality(OfType(place, t)') % CountModulus
                                 /\ s.types[t] \in 0 .. CountModulus - 1
  <2>1. \A t \in DOMAIN r.types : /\ r.types[t] = Cardinality(OfType(place, t)) % CountModulus
                                  /\ r.types[t] \in 0 .. CountModulus - 1
    BY DEF RowExact, RowTyped
  <2>. HIDE DEF s
  <2>2. ASSUME NEW t \in DOMAIN s.types, t # type
        PROVE  /\ s.types[t] = Cardinality(OfType(place, t)') % CountModulus
               /\ s.types[t] \in 0 .. CountModulus - 1
    BY <1>2, <1>8, <2>1, <2>2
  <2>. QED
    BY <1>2, <1>10, <2>2
<1>12. DOMAIN s.types = {TypeOf(log'[i].event_id) : i \in Hits(place)'}
  BY <1>2, <1>4 DEF RowExact
<1>13. DOMAIN s.types \subseteq Types
  BY <1>2 DEF RowTyped
<1>14. RowTyped(s)
  BY <1>1, <1>9, <1>11, <1>13 DEF RowTyped
<1>15. RowExact(row[place], place)'
  BY <1>9, <1>11, <1>12 DEF RowExact, TypeOf
<1>. QED
  BY <1>14, <1>15 DEF RowTyped

LEMMA EmptyRowOK ==
    ASSUME NEW place, Hits(place)' = {}, row'[place] = EmptyRow
    PROVE  RowTyped(row[place])' /\ RowExact(row[place], place)'
<1>1. EmptyRow.totalEvsCount = 0 /\ DOMAIN EmptyRow.types = {}
      /\ DOMAIN EmptyRow = {"totalEvsCount", "types"}
  BY DEF EmptyRow
<1>2. Cardinality({}) = 0 /\ 0 % NsModulus = 0 /\ 0 \in Times
  BY FS_EmptySet, NsModulusAssumption DEF Times
<1>. QED
  BY <1>1, <1>2 DEF RowTyped, RowExact

-----------------------------------------------------------------------------
LEMMA StatsInit == Init => StatsInv
<1>. SUFFICES ASSUME Init PROVE StatsInv
  OBVIOUS
<1>1. FeedInv /\ log = << >> /\ ended \in BOOLEAN /\ log \in Seq(FeedRecord)
  <2>1. FeedInv /\ log = << >> /\ ended = FALSE
    BY FeedInitOK DEF Init
  <2>2. << >> \in Seq(FeedRecord)
    OBVIOUS
  <2>. QED
    BY <2>1, <2>2
<1>2. \A place : Hits(place) = {}
  BY <1>1 DEF Hits, SinceGap
<1>3. DOMAIN row = Places /\ \A place \in Places : row[place] = EmptyRow
  BY DEF Init, EmptyRows
<1>4. EmptyRow.totalEvsCount = 0 /\ DOMAIN EmptyRow.types = {}
      /\ DOMAIN EmptyRow = {"totalEvsCount", "types"}
  BY DEF EmptyRow
<1>5. Cardinality({}) = 0 /\ 0 % NsModulus = 0 /\ 0 \in Times
  BY FS_EmptySet, NsModulusAssumption DEF Times
<1>6. Rows
  BY <1>2, <1>3, <1>4, <1>5 DEF Rows, RowTyped, RowExact
<1>. QED
  BY <1>1, <1>6, RowsAre

(* One record of a kind that is counted *)
LEMMA CountStep ==
    ASSUME Rows, log \in Seq(FeedRecord), NEW e \in FeedRecord, log' = Append(log, e),
           NEW place \in Places, NEW type \in Types, e.event_id # LostRecords,
           PlaceOf(e.event_id) = place, TypeOf(e.event_id) = type, NumEvHandler(place, type)
    PROVE  Rows'
<1>1. ~ IsLongGap(e)
  BY DEF IsLongGap
<1>2. Hits(place)' = Hits(place) \cup {Len(log) + 1}
  BY <1>1, RecordSeen
<1>3. ASSUME NEW p \in Places, p # place
      PROVE  Hits(p)' = Hits(p)
  <2>1. ~ (e.event_id # LostRecords /\ PlaceOf(e.event_id) = p)
    BY <1>3
  <2>2. Hits(p)' = Hits(p) \cup {}
    BY <1>1, <2>1, RecordSeen
  <2>. QED
    BY <2>2
<1>4. /\ DOMAIN row' = Places /\ row'[place] = Counted(row[place], type)
      /\ \A p \in Places : p # place => row'[p] = row[p]
  BY DEF NumEvHandler, Rows
<1>5. RowTyped(row[place])' /\ RowExact(row[place], place)'
  BY <1>2, <1>4, RowCounts DEF Rows
<1>6. ASSUME NEW p \in Places, p # place
      PROVE  RowTyped(row[p])' /\ RowExact(row[p], p)'
  BY <1>3, <1>4, <1>6, RowStays DEF Rows, RowTyped
<1>. QED
  BY <1>4, <1>5, <1>6 DEF Rows

LEMMA StatsStep == StatsInv /\ [Next]_statsVars => StatsInv'
<1>. SUFFICES ASSUME StatsInv, [Next]_statsVars PROVE StatsInv'
  OBVIOUS
<1>1. FeedInv /\ ended \in BOOLEAN /\ log \in Seq(FeedRecord) /\ Rows
  BY RowsAre
<1>2. ASSUME NEW cpu \in Cpus, NEW id \in EventIds, NEW ns \in 1 .. MaxNs,
             Record(cpu, id, ns)
      PROVE  StatsInv'
  <2>1. /\ FeedInv' /\ event' \in FeedRecord /\ event'.event_id = id
        /\ event'.lastNs \in Nat /\ event'.ns \in Nat /\ event'.lastNs <= event'.ns
        /\ event'.ns < NsModulus
    BY <1>1, <1>2, FeedOK, FeedAssumption, StampsFitAssumption, NsModulusAssumption DEF Record
  <2>2. log' = Append(log, event') /\ ended' = ended
    BY <1>2 DEF Record
  <2>3. log' \in Seq(FeedRecord)
    BY <1>1, <2>1, <2>2
  <2>4. ASSUME NEW kind \in DomainKinds, NEW dom \in Doms, NEW type \in Types,
               id = Count(kind, dom, type), NumEvHandler(<<kind, SlotOf(dom)>>, type)
        PROVE  Rows'
    BY <1>1, <2>1, <2>2, <2>4, DomainIdIs, CountStep
  <2>5. ASSUME NEW kind \in XenKinds, NEW type \in Types,
               id = CountInXen(kind, type), NumEvHandler(<<kind>>, type)
        PROVE  Rows'
    BY <1>1, <2>1, <2>2, <2>5, XenIdIs, CountStep
  <2>6. ASSUME id = LostRecords, LostRecordsHandler
        PROVE  Rows'
    <3>1. Minus(event'.ns, event'.lastNs) = event'.ns - event'.lastNs
      BY <2>1, MinusExact
    <3>2. CASE IsLongGap(event')
      <4>1. DOMAIN row' = Places /\ \A place \in Places : row'[place] = EmptyRow
        BY <2>6, <3>1, <3>2, <2>1, CountAssumption DEF LostRecordsHandler, IsLongGap, ResetAll, EmptyRows
      <4>2. \A place : Hits(place)' = {}
        BY <1>1, <2>1, <2>2, <3>2, RecordSeen
      <4>. QED
        BY <4>1, <4>2, EmptyRowOK DEF Rows
    <3>3. CASE ~ IsLongGap(event')
      <4>1. row' = row
        BY <2>6, <3>1, <3>3, <2>1, CountAssumption DEF LostRecordsHandler, IsLongGap
      <4>2. \A place : Hits(place)' = Hits(place)
        BY <1>1, <2>1, <2>2, <2>6, <3>3, RecordSeen
      <4>3. ASSUME NEW place \in Places
            PROVE  RowTyped(row[place])' /\ RowExact(row[place], place)'
        BY <1>1, <2>1, <2>2, <4>1, <4>2, RowStays DEF Rows, RowTyped
      <4>. QED
        BY <1>1, <4>1, <4>3 DEF Rows
    <3>. QED
      BY <3>2, <3>3
  <2>7. Rows'
    BY <1>2, <2>4, <2>5, <2>6 DEF Record
  <2>. QED
    BY <1>1, <2>1, <2>2, <2>3, <2>7, RowsAre
<1>3. ASSUME Finalize \/ UNCHANGED statsVars
      PROVE  StatsInv'
  <2>1. UNCHANGED <<feedVars, row, log>> /\ ended' \in BOOLEAN
    BY <1>1, <1>3 DEF Finalize, statsVars
  <2>2. FeedInv'
    BY <1>1, <2>1, FeedSame
  <2>3. \A place : Hits(place)' = Hits(place)
    BY <2>1 DEF Hits, SinceGap, IsLongGap, PlaceOf
  <2>4. \A place, type : OfType(place, type)' = OfType(place, type)
    BY <2>1, <2>3 DEF OfType, TypeOf
  <2>5. ASSUME NEW place \in Places
        PROVE  RowTyped(row[place])' /\ RowExact(row[place], place)'
    <3>1. row' = row /\ log' = log /\ RowTyped(row[place]) /\ RowExact(row[place], place)
      BY <1>1, <2>1 DEF Rows
    <3>2. RowTyped(row[place])'
      BY <3>1 DEF RowTyped
    <3>3. RowExact(row[place], place)'
      BY <2>3, <2>4, <3>1 DEF RowExact, TypeOf
    <3>. QED
      BY <3>2, <3>3
  <2>6. Rows'
    BY <1>1, <2>1, <2>5 DEF Rows
  <2>. QED
    BY <1>1, <2>1, <2>2, <2>6, RowsAre
<1>. QED
  BY <1>2, <1>3 DEF Next

-----------------------------------------------------------------------------
(* No handler leaves its table: every record finds the row of its kind and *)
(* slot, and the counts stay within their width.                           *)
THEOREM StatsTypeCorrect == Spec => []TypeOK
<1>1. StatsInv => TypeOK
  BY DEF StatsInv
<1>. QED
  BY <1>1, StatsInit, StatsStep, PTL DEF Spec

(* What is printed for a kind, domain and type is the number of its        *)
(* records since the last long gap, up to the width of the counters.       *)
THEOREM StatsCountsExact == Spec => []CountsExact
<1>1. StatsInv => CountsExact
  BY DEF StatsInv
<1>. QED
  BY <1>1, StatsInit, StatsStep, PTL DEF Spec
=============================================================================
