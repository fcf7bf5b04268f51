------------------------ MODULE CpuTimeSharingProofs ------------------------
(***************************************************************************)
(* The times of cpu_time_sharing for any number of CPUs, domains and VCPUs *)
(* and logs of any length: no moment of a CPU counts twice; with a         *)
(* complete trace domains have their exact times, and VCPUs no more than   *)
(* their own and all but their first stint on a CPU; and the table has the *)
(* totals of both, unless a VCPU id is too large for its columns.          *)
(***************************************************************************)
EXTENDS CpuTimeSharing, FeedTheorems

Ids == {Entry(v) : v \in VcpuIds}

VcpuTables == UNION {[es -> Times] : es \in SUBSET Ids}

CpuEntries == [prevNs : 1 .. MaxNs, prev : VcpuIds, totalCpuTime : Times,
               totalDomTime : [Slots -> Times], vcpuTimes : VcpuTables]

Switched == [from : VcpuIds, to : VcpuIds, ns : 1 .. MaxNs]
Reported == [slot : Slots, runtime : Runtimes]

(* Seed, Complete, Stints, ... of the switches h and the reports rs *)
LastReport(rs, slot) ==
    LET its == {i \in DOMAIN rs : rs[i].slot = slot}
    IN IF its = {} THEN 0 ELSE rs[Max(its)].runtime

CompleteIn(h) == \A i \in 1 .. Len(h) - 1 : h[i].to = h[i+1].from
StintsIn(h) == 1 .. Len(h) - 1
RanIn(h, i) == Entry(h[i].to)
FirstIn(h) == Entry(h[1].from)
TimeIn(h, stints) == SumFunctionOnSet([i \in StintsIn(h) |-> h[i+1].ns - h[i].ns], stints)
MissedIn(h) == {i \in StintsIn(h) : /\ RanIn(h, i) # FirstIn(h)
                                    /\ \A j \in 1 .. i-1 : RanIn(h, j) # RanIn(h, i)}
SlotStints(h, slot) == {i \in StintsIn(h) : RanIn(h, i)[1] = slot}
VcpuStints(h, e) == {i \in StintsIn(h) \ MissedIn(h) : RanIn(h, i) = e}

(* What a CPU counted beyond its seed fits in the time it was observed. *)
Metered(c, h, seed) == /\ h[1].ns <= c.prevNs
                       /\ Minus(c.totalCpuTime, seed) <= c.prevNs - h[1].ns

(* The times of c are those of the switches h, if they are complete. *)
Exact(c, h, seed) ==
    CompleteIn(h) =>
      /\ c.prev = h[Len(h)].to /\ c.prevNs = h[Len(h)].ns
      /\ \A slot \in Slots :
           c.totalDomTime[slot] = Plus(TimeIn(h, SlotStints(h, slot)),
                                       IF slot = FirstIn(h)[1] THEN seed ELSE 0)
      /\ \A e \in Ids : e \in DOMAIN c.vcpuTimes
                          <=> e = FirstIn(h) \/ \E i \in StintsIn(h) : RanIn(h, i) = e
      /\ \A e \in DOMAIN c.vcpuTimes :
           c.vcpuTimes[e] = Plus(TimeIn(h, VcpuStints(h, e)),
                                 IF e = FirstIn(h) THEN seed ELSE 0)

(* What is known of one CPU: its list entry l of run times, or none, its   *)
(* entry c, or none, its switches h and its reports rs.                    *)
Unmet(cpu) ==
    /\ cpu \notin DOMAIN cpuTimes
    /\ switches[cpu] = << >>
    /\ \A dom \in Doms : LastRuntime(cpu, dom) = LastReport(reports[cpu], SlotOf(dom))

Met(cpu) ==
    /\ cpu \in DOMAIN cpuTimes /\ switches[cpu] # << >>
    /\ cpuTimes[cpu] \in CpuEntries /\ cpuTimes[cpu].prevNs <= Now
    /\ Metered(cpuTimes[cpu], switches[cpu],
               LastReport(reports[cpu], FirstIn(switches[cpu])[1]))
    /\ Exact(cpuTimes[cpu], switches[cpu],
             LastReport(reports[cpu], FirstIn(switches[cpu])[1]))

SharingInv ==
    /\ FeedInv
    /\ DOMAIN lastRuntime \subseteq Cpus
    /\ \A cpu \in DOMAIN lastRuntime : lastRuntime[cpu] \in [Slots -> Times]
    /\ DOMAIN cpuTimes \subseteq Cpus
    /\ ended \in BOOLEAN
    /\ switches \in [Cpus -> Seq(Switched)]
    /\ reports \in [Cpus -> Seq(Reported)]
    /\ \A cpu \in Cpus : Unmet(cpu) \/ Met(cpu)

-----------------------------------------------------------------------------
LEMMA SlotIsSlot == ASSUME NEW dom \in Doms PROVE SlotOf(dom) \in Slots
BY DomsAssumption DEF SlotOf, Slots

LEMMA EntryIsId == ASSUME NEW v \in VcpuIds
                   PROVE  /\ Entry(v) \in Ids /\ Entry(v)[1] = SlotOf(v[1])
                          /\ v[1] \in Doms /\ SlotOf(v[1]) \in Slots
BY SlotIsSlot DEF Entry, Ids, Doms

LEMMA TableIs ==
    ASSUME NEW t \in VcpuTables
    PROVE  /\ DOMAIN t \subseteq Ids /\ t = [e \in DOMAIN t |-> t[e]]
           /\ \A e \in DOMAIN t : t[e] \in Times
BY DEF VcpuTables

LEMMA TableAdded ==
    ASSUME NEW t \in VcpuTables, NEW e \in Ids, NEW r \in Times
    PROVE  /\ AddToVcpu(t, e, r) \in VcpuTables
           /\ DOMAIN AddToVcpu(t, e, r) = DOMAIN t \cup {e}
           /\ \A x \in DOMAIN t : x # e => AddToVcpu(t, e, r)[x] = t[x]
           /\ AddToVcpu(t, e, r)[e] = IF e \in DOMAIN t THEN Plus(t[e], r) ELSE 0
<1>1. DOMAIN t \subseteq Ids /\ \A x \in DOMAIN t : t[x] \in Times
  BY TableIs
<1>2. CASE e \in DOMAIN t
  <2>1. Plus(t[e], r) \in Times
    BY <1>1, <1>2, PlusCases
  <2>. QED
    BY <1>1, <1>2, <2>1 DEF AddToVcpu, VcpuTables
<1>3. CASE e \notin DOMAIN t
  <2>1. AddToVcpu(t, e, r) = [x \in DOMAIN t \cup {e} |-> IF x \in DOMAIN t THEN t[x] ELSE 0]
    BY <1>3 DEF AddToVcpu, Put
  <2>. QED
    BY <1>1, <1>3, <2>1, ZeroTime DEF VcpuTables
<1>. QED
  BY <1>2, <1>3

(* What a CPU counts when it leaves v for w: c becomes d. *)
Left(c, d, v, w, ns) ==
    LET r == Minus(ns, c.prevNs)
    IN /\ d \in CpuEntries /\ d.prevNs = ns /\ d.prev = w
       /\ d.totalCpuTime = Plus(c.totalCpuTime, r)
       /\ d.totalDomTime = [c.totalDomTime EXCEPT ![SlotOf(v[1])] = Plus(@, r)]
       /\ d.vcpuTimes = AddToVcpu(c.vcpuTimes, Entry(v), r)

LEMMA RuntimeAdded ==
    ASSUME NEW c \in CpuEntries, NEW v \in VcpuIds, NEW w \in VcpuIds,
           event'.ns \in 1 .. MaxNs
    PROVE  Left(c, AddRuntime(c, v, w), v, w, event'.ns)
<1>. DEFINE d == AddRuntime(c, v, w)
            r == Minus(event'.ns, c.prevNs)
<1>1. r \in Times
  BY MinusTime DEF CpuEntries
<1>2. /\ d.prevNs = event'.ns /\ d.prev = w
      /\ d.totalCpuTime = Plus(c.totalCpuTime, r)
      /\ d.totalDomTime = [c.totalDomTime EXCEPT ![SlotOf(v[1])] = Plus(@, r)]
      /\ d.vcpuTimes = AddToVcpu(c.vcpuTimes, Entry(v), r)
      /\ d = [prevNs |-> d.prevNs, prev |-> d.prev, totalCpuTime |-> d.totalCpuTime,
              totalDomTime |-> d.totalDomTime, vcpuTimes |-> d.vcpuTimes]
  <2>1. c = [prevNs |-> c.prevNs, prev |-> c.prev, totalCpuTime |-> c.totalCpuTime,
             totalDomTime |-> c.totalDomTime, vcpuTimes |-> c.vcpuTimes]
    BY DEF CpuEntries
  <2>2. d = [c EXCEPT !.vcpuTimes = AddToVcpu(@, Entry(v), r),
                      !.totalDomTime[SlotOf(v[1])] = Plus(@, r),
                      !.totalCpuTime = Plus(@, r),
                      !.prevNs = event'.ns,
                      !.prev = w]
    BY DEF AddRuntime
  <2>. HIDE DEF d, r
  <2>. QED
    BY <2>1, <2>2
<1>3. d.totalCpuTime \in Times
  BY <1>1, <1>2, PlusCases DEF CpuEntries
<1>4. d.totalDomTime \in [Slots -> Times]
  <2>. DEFINE f == c.totalDomTime
              more == Plus(f[SlotOf(v[1])], r)
  <2>1. f \in [Slots -> Times] /\ SlotOf(v[1]) \in Slots
    BY EntryIsId DEF CpuEntries
  <2>2. more \in Times
    BY <1>1, <2>1, PlusCases
  <2>3. d.totalDomTime = [f EXCEPT ![SlotOf(v[1])] = more]
    BY <1>2
  <2>. HIDE DEF d, f, more
  <2>. QED
    BY <2>1, <2>2, <2>3
<1>5. d.vcpuTimes \in VcpuTables
  <2>1. c.vcpuTimes \in VcpuTables
    BY DEF CpuEntries
  <2>2. AddToVcpu(c.vcpuTimes, Entry(v), r) \in VcpuTables
    BY <1>1, <2>1, TableAdded, EntryIsId
  <2>. QED
    BY <1>2, <2>2
<1>6. d \in CpuEntries
  BY <1>2, <1>3, <1>4, <1>5 DEF CpuEntries
<1>. QED
  BY <1>2, <1>6 DEF Left

(* The entry of a CPU met when it leaves v for w *)
Fresh(d, v, w, ns, seed) ==
    /\ d \in CpuEntries /\ d.prevNs = ns /\ d.prev = w
    /\ d.totalCpuTime = seed
    /\ d.totalDomTime = [slot \in Slots |-> IF slot = SlotOf(v[1]) THEN seed ELSE 0]
    /\ d.vcpuTimes = [e \in {Entry(v)} |-> seed]

LEMMA NewEntry ==
    ASSUME NEW v \in VcpuIds, NEW w \in VcpuIds, event'.ns \in 1 .. MaxNs,
           NEW seed \in Times, LastRuntime(event'.cpu, v[1]) = seed
    PROVE  Fresh(NewCpu(v, w), v, w, event'.ns, seed)
<1>1. [slot \in Slots |-> IF slot = SlotOf(v[1]) THEN seed ELSE 0] \in [Slots -> Times]
  BY ZeroTime
<1>2. [e \in {Entry(v)} |-> seed] \in VcpuTables
  <2>1. {Entry(v)} \in SUBSET Ids
    BY EntryIsId
  <2>2. [e \in {Entry(v)} |-> seed] \in [{Entry(v)} -> Times]
    OBVIOUS
  <2>. QED
    BY <2>1, <2>2 DEF VcpuTables
<1>. QED
  BY <1>1, <1>2 DEF NewCpu, CpuEntries, Fresh

-----------------------------------------------------------------------------
(* The run time reported last of a slot *)
LEMMA ReportsFinite ==
    ASSUME NEW rs \in Seq(Reported), NEW slot
    PROVE  LET its == {i \in DOMAIN rs : rs[i].slot = slot}
           IN its # {} => /\ Max(its) \in its
                          /\ \A i \in its : i <= Max(its)
<1>. DEFINE its == {i \in DOMAIN rs : rs[i].slot = slot}
<1>. SUFFICES ASSUME its # {} PROVE Max(its) \in its /\ \A i \in its : i <= Max(its)
  OBVIOUS
<1>1. its \subseteq 1 .. Len(rs) /\ its \subseteq Int
  OBVIOUS
<1>2. IsFiniteSet(its)
  <2>1. IsFiniteSet(1 .. Len(rs))
    BY FS_Interval
  <2>. QED
    BY <1>1, <2>1, FS_Subset
<1>. HIDE DEF its
<1>3. PICK x \in its : \A y \in its : y <= x
  BY <1>1, <1>2, LargestElement
<1>4. Max(its) = x
  BY <1>1, <1>3, ChosenLargest DEF Max
<1>. QED
  BY <1>3, <1>4

LEMMA ReportIs ==
    ASSUME NEW rs \in Seq(Reported), NEW slot, NEW r \in Reported
    PROVE  /\ LastReport(rs, slot) \in Times
           /\ LastReport(<< >>, slot) = 0
           /\ LastReport(Append(rs, r), slot)
                = IF r.slot = slot THEN r.runtime ELSE LastReport(rs, slot)
<1>. DEFINE n == Len(rs) + 1
            its == {i \in DOMAIN rs : rs[i].slot = slot}
            more == {i \in DOMAIN Append(rs, r) : Append(rs, r)[i].slot = slot}
<1>1. its # {} => Max(its) \in its /\ \A i \in its : i <= Max(its)
  BY ReportsFinite
<1>2. more # {} => Max(more) \in more /\ \A i \in more : i <= Max(more)
  <2>1. Append(rs, r) \in Seq(Reported)
    OBVIOUS
  <2>. QED
    BY <2>1, ReportsFinite
<1>3. LastReport(rs, slot) \in Times
  <2>1. \A i \in its : rs[i].runtime \in Times
    <3>1. \A i \in its : rs[i] \in Reported
      OBVIOUS
    <3>2. \A x \in Reported : x.runtime \in Times
      BY RuntimesAssumption DEF Reported
    <3>. QED
      BY <3>1, <3>2
  <2>2. its # {} => rs[Max(its)].runtime \in Times
    <3>. HIDE DEF its
    <3>. QED
      BY <1>1, <2>1
  <2>. QED
    BY <2>2, ZeroTime DEF LastReport
<1>4. LastReport(<< >>, slot) = 0
  BY DEF LastReport
<1>5. /\ DOMAIN rs = 1 .. Len(rs) /\ DOMAIN Append(rs, r) = 1 .. n /\ Len(rs) \in Nat
      /\ Append(rs, r)[n] = r /\ \A i \in DOMAIN rs : Append(rs, r)[i] = rs[i]
  OBVIOUS
<1>6. CASE r.slot = slot
  <2>1. n \in more /\ \A i \in more : i \in 1 .. n
    BY <1>5, <1>6
  <2>2. Max(more) \in more /\ Max(more) = n
    <3>1. more # {} /\ n <= Max(more) /\ Max(more) \in 1 .. n
      BY <1>2, <2>1
    <3>2. Max(more) \in more
      BY <1>2, <3>1
    <3>. HIDE DEF more
    <3>. QED
      BY <1>5, <3>1, <3>2
  <2>. QED
    BY <1>3, <1>4, <1>5, <1>6, <2>1, <2>2 DEF LastReport
<1>7. CASE r.slot # slot
  <2>1. more = its
    BY <1>5, <1>7
  <2>2. its # {} => Append(rs, r)[Max(its)] = rs[Max(its)]
    BY <1>1, <1>5
  <2>. QED
    BY <1>3, <1>4, <1>7, <2>1, <2>2 DEF LastReport
<1>. QED
  BY <1>6, <1>7

-----------------------------------------------------------------------------
(* One more switch: it ends the stint that the one before started. *)
LEMMA StintAdded ==
    ASSUME NEW h \in Seq(Switched), h # << >>, NEW sw \in Switched
    PROVE  LET n == Len(h)
               g == Append(h, sw)
           IN /\ n \in Nat \ {0} /\ n \notin StintsIn(h) /\ StintsIn(h) \subseteq 1 .. n
              /\ StintsIn(g) = StintsIn(h) \cup {n}
              /\ Len(g) = n + 1 /\ g[n + 1] = sw /\ g # << >>
              /\ FirstIn(g) = FirstIn(h) /\ g[1] = h[1]
              /\ \A i \in 1 .. n : RanIn(g, i) = RanIn(h, i) /\ g[i] = h[i]
              /\ CompleteIn(g) <=> CompleteIn(h) /\ h[n].to = sw.from
<1>. DEFINE n == Len(h)
            g == Append(h, sw)
<1>1. /\ n \in Nat \ {0} /\ Len(g) = n + 1 /\ g[n + 1] = sw /\ g # << >>
      /\ \A i \in 1 .. n : g[i] = h[i]
  OBVIOUS
<1>. HIDE DEF n, g
<1>2. StintsIn(h) = 1 .. n - 1 /\ StintsIn(g) = 1 .. n
  BY <1>1 DEF StintsIn, n
<1>3. n \notin 1 .. n - 1 /\ 1 .. n - 1 \subseteq 1 .. n /\ 1 .. n = (1 .. n - 1) \cup {n} /\ 1 \in 1 .. n
  BY <1>1
<1>4. \A i \in 1 .. n : RanIn(g, i) = RanIn(h, i)
  BY <1>1 DEF RanIn
<1>5. g[1] = h[1] /\ FirstIn(g) = FirstIn(h)
  BY <1>1, <1>3 DEF FirstIn
<1>6. CompleteIn(g) <=> CompleteIn(h) /\ h[n].to = sw.from
  <2>1. CompleteIn(g) <=> \A i \in 1 .. n : g[i].to = g[i+1].from
    BY <1>1 DEF CompleteIn
  <2>2. CompleteIn(h) <=> \A i \in 1 .. n - 1 : h[i].to = h[i+1].from
    BY DEF CompleteIn, n
  <2>3. \A i \in 1 .. n - 1 : g[i] = h[i] /\ g[i+1] = h[i+1]
    BY <1>1
  <2>4. g[n] = h[n] /\ g[n+1] = sw
    BY <1>1, <1>3
  <2>. QED
    BY <1>3, <2>1, <2>2, <2>3, <2>4
<1>. QED
  BY <1>1, <1>2, <1>3, <1>4, <1>5, <1>6 DEF n, g

LEMMA StintsTime ==
    ASSUME NEW h \in Seq(Switched), h # << >>, NEW sw \in Switched,
           NEW S \in SUBSET StintsIn(h)
    PROVE  LET n == Len(h)
               g == Append(h, sw)
           IN /\ TimeIn(h, S) \in Int
              /\ TimeIn(g, S) = TimeIn(h, S)
              /\ TimeIn(g, S \cup {n}) = TimeIn(h, S) + (sw.ns - h[n].ns)
<1>. DEFINE n == Len(h)
            g == Append(h, sw)
            f == [i \in StintsIn(h) |-> h[i+1].ns - h[i].ns]
            e == [i \in StintsIn(g) |-> g[i+1].ns - g[i].ns]
<1>1. /\ n \in Nat \ {0} /\ n \notin StintsIn(h) /\ StintsIn(h) \subseteq 1 .. n
      /\ StintsIn(g) = StintsIn(h) \cup {n}
      /\ Len(g) = n + 1 /\ g[n + 1] = sw
      /\ \A i \in 1 .. n : g[i] = h[i]
  BY StintAdded
<1>2. g \in Seq(Switched) /\ \A i \in 1 .. n : h[i] \in Switched
  OBVIOUS
<1>3. StintsIn(h) = 1 .. n - 1
  BY DEF StintsIn
<1>4. \A i \in StintsIn(h) : f[i] \in Int
  <2>1. \A x, y \in Switched : x.ns - y.ns \in Int
    BY DEF Switched
  <2>2. \A i \in StintsIn(h) : i \in 1 .. n /\ i + 1 \in 1 .. n
    BY <1>1, <1>3
  <2>. HIDE DEF n, g
  <2>. QED
    BY <1>2, <2>1, <2>2
<1>5. \A i \in StintsIn(h) : e[i] = f[i]
  <2>1. \A i \in StintsIn(h) : i \in 1 .. n /\ i + 1 \in 1 .. n /\ i \in StintsIn(g)
    BY <1>1, <1>3
  <2>. HIDE DEF n, g
  <2>. QED
    BY <1>1, <2>1
<1>6. e[n] = sw.ns - h[n].ns /\ e[n] \in Int
  <2>1. n \in StintsIn(g) /\ g[n] = h[n] /\ h[n] \in Switched
    BY <1>1, <1>2
  <2>2. sw.ns - h[n].ns \in Int
    BY <2>1 DEF Switched
  <2>. HIDE DEF g
  <2>. QED
    BY <1>1, <2>1, <2>2
<1>7. IsFiniteSet(S) /\ n \notin S
  <2>1. IsFiniteSet(1 .. n - 1)
    BY <1>1, FS_Interval
  <2>. QED
    BY <1>1, <1>3, <2>1, FS_Subset
<1>. HIDE DEF f, e, n, g
<1>8. SumFunctionOnSet(e, S) = SumFunctionOnSet(f, S) /\ SumFunctionOnSet(f, S) \in Int
  BY <1>4, <1>5, <1>7, SumSame, SumType
<1>9. SumFunctionOnSet(e, S \cup {n}) = e[n] + SumFunctionOnSet(e, S)
  <2>1. \A x \in S \cup {n} : e[x] \in Int
    BY <1>4, <1>5, <1>6
  <2>. QED
    BY <1>7, <2>1, SumAdd
<1>10. e[n] + SumFunctionOnSet(e, S) = SumFunctionOnSet(f, S) + e[n]
  BY <1>6, <1>8
<1>. QED
  BY <1>6, <1>8, <1>9, <1>10 DEF TimeIn, e, f, n, g

(* The stints of a slot, and those a VCPU is given the time of, with one   *)
(* stint more                                                              *)
LEMMA StintsOfOne ==
    ASSUME NEW h \in Seq(Switched), h # << >>, NEW sw \in Switched, NEW slot, NEW e
    PROVE  LET n == Len(h)
               g == Append(h, sw)
               x == RanIn(h, n)
               known == x = FirstIn(h) \/ \E i \in StintsIn(h) : RanIn(h, i) = x
           IN /\ SlotStints(g, slot) = IF x[1] = slot THEN SlotStints(h, slot) \cup {n}
                                                       ELSE SlotStints(h, slot)
              /\ VcpuStints(g, e) = IF x = e /\ known THEN VcpuStints(h, e) \cup {n}
                                                       ELSE VcpuStints(h, e)
              /\ x = e /\ ~ known => VcpuStints(h, e) = {}
              /\ SlotStints(h, slot) \subseteq StintsIn(h)
              /\ VcpuStints(h, e) \subseteq StintsIn(h)
<1>. DEFINE n == Len(h)
            g == Append(h, sw)
            x == RanIn(h, n)
            known == x = FirstIn(h) \/ \E i \in StintsIn(h) : RanIn(h, i) = x
<1>1. /\ n \in Nat \ {0} /\ n \notin StintsIn(h) /\ StintsIn(h) \subseteq 1 .. n
      /\ StintsIn(g) = StintsIn(h) \cup {n}
      /\ FirstIn(g) = FirstIn(h)
      /\ \A i \in 1 .. n : RanIn(g, i) = RanIn(h, i)
  BY StintAdded
<1>2. StintsIn(h) = 1 .. n - 1
  BY DEF StintsIn
<1>. HIDE DEF n, g
<1>3. \A i \in StintsIn(g) : RanIn(g, i) = RanIn(h, i)
  BY <1>1
<1>4. SlotStints(g, slot) = IF x[1] = slot THEN SlotStints(h, slot) \cup {n}
                                           ELSE SlotStints(h, slot)
  BY <1>1, <1>3 DEF SlotStints
<1>5. \A i \in StintsIn(g) : \A j \in 1 .. i - 1 : j \in StintsIn(h) /\ RanIn(g, j) = RanIn(h, j)
  BY <1>1, <1>2
<1>6. \A i \in StintsIn(h) : i \in MissedIn(g) <=> i \in MissedIn(h)
  BY <1>1, <1>3, <1>5 DEF MissedIn
<1>7. n \in MissedIn(g) <=> ~ known
  <2>1. n \in StintsIn(g) /\ RanIn(g, n) = x /\ 1 .. n - 1 = StintsIn(h)
    BY <1>1, <1>2, <1>3
  <2>2. n \in MissedIn(g) <=> /\ RanIn(g, n) # FirstIn(g)
                               /\ \A j \in 1 .. n-1 : RanIn(g, j) # RanIn(g, n)
    BY <2>1 DEF MissedIn
  <2>3. \A j \in StintsIn(h) : RanIn(g, j) = RanIn(h, j)
    BY <1>1
  <2>. QED
    BY <1>1, <2>1, <2>2, <2>3
<1>. HIDE DEF known
<1>8. VcpuStints(g, e) = IF x = e /\ known THEN VcpuStints(h, e) \cup {n} ELSE VcpuStints(h, e)
  BY <1>1, <1>3, <1>6, <1>7 DEF VcpuStints
<1>9. x = e /\ ~ known => VcpuStints(h, e) = {}
  BY DEF VcpuStints, known
<1>. QED
  BY <1>4, <1>8, <1>9 DEF SlotStints, VcpuStints, n, g, known

-----------------------------------------------------------------------------
(* A CPU met with this switch *)
LEMMA ExactFirst ==
    ASSUME NEW sw \in Switched, NEW c, NEW seed \in Times,
           Fresh(c, sw.from, sw.to, sw.ns, seed)
    PROVE  /\ Metered(c, <<sw>>, seed) /\ Exact(c, <<sw>>, seed)
           /\ FirstIn(<<sw>>) = Entry(sw.from)
<1>. DEFINE h == <<sw>>
<1>. USE DEF Fresh
<1>1. StintsIn(h) = {} /\ h[1] = sw /\ h[Len(h)] = sw
  BY DEF StintsIn
<1>2. \A slot : SlotStints(h, slot) = {} /\ VcpuStints(h, slot) = {}
  BY <1>1 DEF SlotStints, VcpuStints
<1>3. TimeIn(h, {}) = 0
  BY SumUnfold, FS_EmptySet DEF TimeIn
<1>4. FirstIn(h) = Entry(sw.from)
  BY <1>1 DEF FirstIn
<1>. HIDE DEF h
<1>5. Metered(c, h, seed)
  <2>1. Minus(seed, seed) = 0 /\ sw.ns \in Nat
    <3>1. seed \in Nat /\ seed < NsModulus /\ seed - seed = 0
      BY NsModulusAssumption DEF Times
    <3>2. Minus(seed, seed) = seed - seed
      BY <3>1, MinusExact
    <3>3. sw.ns \in Nat
      BY FeedAssumption DEF Switched
    <3>. QED
      BY <3>1, <3>2, <3>3
  <2>. QED
    BY <1>1, <2>1 DEF Metered
<1>6. Plus(0, seed) = seed /\ Plus(0, 0) = 0
  BY SmallRemainder, ZeroTime
<1>7. \A slot \in Slots :
        c.totalDomTime[slot] = Plus(TimeIn(h, SlotStints(h, slot)),
                                    IF slot = FirstIn(h)[1] THEN seed ELSE 0)
  <2>1. Entry(sw.from)[1] = SlotOf(sw.from[1])
    BY DEF Entry
  <2>. QED
    BY <1>2, <1>3, <1>4, <1>6, <2>1
<1>8. /\ \A e \in Ids : e \in DOMAIN c.vcpuTimes
                          <=> e = FirstIn(h) \/ \E i \in StintsIn(h) : RanIn(h, i) = e
      /\ \A e \in DOMAIN c.vcpuTimes :
           c.vcpuTimes[e] = Plus(TimeIn(h, VcpuStints(h, e)),
                                 IF e = FirstIn(h) THEN seed ELSE 0)
  BY <1>1, <1>2, <1>3, <1>4, <1>6
<1>9. Exact(c, h, seed)
  BY <1>1, <1>7, <1>8 DEF Exact
<1>. QED
  BY <1>4, <1>5, <1>9 DEF h

(* A switch that the CPU does not expect *)
LEMMA ExactBroken ==
    ASSUME NEW h \in Seq(Switched), h # << >>, NEW sw \in Switched, NEW c, NEW seed,
           Exact(c, h, seed), c.prev # sw.from
    PROVE  Exact(c, Append(h, sw), seed)
<1>1. CompleteIn(Append(h, sw)) => CompleteIn(h) /\ h[Len(h)].to = sw.from
  BY StintAdded
<1>. QED
  BY <1>1 DEF Exact

(* A switch from the VCPU it was switched to last *)
LEMMA ExactLater ==
    ASSUME NEW h \in Seq(Switched), h # << >>, NEW seed \in Times, NEW c \in CpuEntries,
           NEW v \in VcpuIds, NEW w \in VcpuIds, NEW ns \in 1 .. MaxNs, NEW d,
           Left(c, d, v, w, ns), c.prevNs <= ns, c.prev = v,
           Metered(c, h, seed), Exact(c, h, seed)
    PROVE  LET g == Append(h, [from |-> v, to |-> w, ns |-> ns])
           IN /\ Metered(d, g, seed) /\ Exact(d, g, seed)
              /\ Minus(d.totalCpuTime, seed) = Minus(c.totalCpuTime, seed) + (ns - c.prevNs)
<1>. DEFINE sw == [from |-> v, to |-> w, ns |-> ns]
            g == Append(h, sw)
            n == Len(h)
            r == ns - c.prevNs
            entry == Entry(v)
<1>1. sw \in Switched /\ sw.from = v /\ sw.to = w /\ sw.ns = ns
  BY DEF Switched
<1>2. /\ ns \in Nat /\ c.prevNs \in Nat /\ r \in Times /\ r \in Nat
      /\ Minus(ns, c.prevNs) = r
  <2>1. ns \in Nat /\ c.prevNs \in Nat /\ ns < NsModulus
    BY StampsFitAssumption, FeedAssumption, NsModulusAssumption DEF CpuEntries
  <2>2. Minus(ns, c.prevNs) = r
    BY <2>1, MinusExact
  <2>. QED
    BY <2>1, <2>2, NsModulusAssumption DEF Times
<1>3. /\ d \in CpuEntries /\ d.prevNs = ns /\ d.prev = w
      /\ d.totalCpuTime = Plus(c.totalCpuTime, r)
      /\ d.totalDomTime = [c.totalDomTime EXCEPT ![entry[1]] = Plus(@, r)]
      /\ d.vcpuTimes = AddToVcpu(c.vcpuTimes, entry, r)
  BY <1>2, EntryIsId DEF Left
<1>4. /\ n \in Nat \ {0} /\ n \notin StintsIn(h) /\ StintsIn(g) = StintsIn(h) \cup {n}
      /\ Len(g) = n + 1 /\ g[n + 1] = sw /\ g # << >>
      /\ FirstIn(g) = FirstIn(h) /\ g[1] = h[1]
      /\ \A i \in 1 .. n : RanIn(g, i) = RanIn(h, i) /\ g[i] = h[i]
      /\ CompleteIn(g) <=> CompleteIn(h) /\ h[n].to = sw.from
      /\ StintsIn(h) \subseteq 1 .. n
  BY <1>1, StintAdded
<1>. HIDE DEF g, sw
<1>5. /\ Metered(d, g, seed)
      /\ Minus(d.totalCpuTime, seed) = Minus(c.totalCpuTime, seed) + r
  <2>1. h[1].ns \in Nat
    <3>1. h[1] \in Switched
      OBVIOUS
    <3>. QED
      BY <3>1, FeedAssumption DEF Switched
  <2>. DEFINE m == Minus(c.totalCpuTime, seed)
  <2>2. m \in Times /\ c.totalCpuTime \in Int /\ seed \in Int
    <3>1. c.totalCpuTime \in Int /\ seed \in Int
      BY NsModulusAssumption DEF CpuEntries, Times
    <3>. QED
      BY <3>1, MinusTime
  <2>3. h[1].ns <= c.prevNs /\ m <= c.prevNs - h[1].ns
    BY DEF Metered
  <2>. DEFINE first == h[1].ns
              prev == c.prevNs
  <2>4. first \in Nat /\ prev \in Nat /\ ns \in Nat /\ prev <= ns /\ ns < NsModulus /\ r = ns - prev
    BY <1>2, <2>1, StampsFitAssumption, FeedAssumption, NsModulusAssumption
  <2>5. m + r \in Times /\ m + r <= ns - first /\ first <= ns
    <3>1. \A x, y, f, p, t \in Nat :
            x <= p - f /\ y = t - p /\ p <= t /\ f <= p => x + y \in Nat /\ x + y <= t - f /\ f <= t
      OBVIOUS
    <3>2. \A x, t, f \in Nat : x <= t - f /\ t < NsModulus => x \in Times
      BY NsModulusAssumption DEF Times
    <3>. HIDE DEF m, first, prev, r
    <3>3. /\ m \in Nat /\ m <= prev - first /\ first <= prev
      BY <2>2, <2>3, NsModulusAssumption DEF Times, first, prev
    <3>4. r \in Nat
      BY <2>4
    <3>5. m + r \in Nat /\ m + r <= ns - first /\ first <= ns
      BY <2>4, <3>1, <3>3, <3>4
    <3>. QED
      BY <2>4, <3>2, <3>5
  <2>6. Minus(Plus(c.totalCpuTime, r), seed) = m + r
    <3>1. Minus(c.totalCpuTime, seed) + r \in Times
      BY <2>5
    <3>. QED
      BY <1>2, <2>2, <3>1, MinusLater
  <2>. QED
    BY <1>3, <1>4, <2>5, <2>6 DEF Metered
<1>6. ASSUME CompleteIn(g) PROVE Exact(d, g, seed)
  <2>1. CompleteIn(h) /\ c.prevNs = h[n].ns /\ RanIn(h, n) = entry
    BY <1>1, <1>4, <1>6 DEF Exact, RanIn
  <2>. HIDE DEF n
  <2>2. ASSUME NEW S \in SUBSET StintsIn(h)
        PROVE  /\ TimeIn(h, S) \in Int /\ TimeIn(g, S) = TimeIn(h, S)
               /\ TimeIn(g, S \cup {n}) = TimeIn(h, S) + r
    BY <1>1, <2>1, StintsTime DEF g, n
  <2>. HIDE DEF r, entry
  <2>3. ASSUME NEW slot \in Slots
        PROVE  d.totalDomTime[slot] = Plus(TimeIn(g, SlotStints(g, slot)),
                                           IF slot = FirstIn(g)[1] THEN seed ELSE 0)
    <3>. DEFINE start == IF slot = FirstIn(h)[1] THEN seed ELSE 0
                S == SlotStints(h, slot)
                f == c.totalDomTime
    <3>1. /\ SlotStints(g, slot) = IF entry[1] = slot THEN S \cup {n} ELSE S
          /\ S \in SUBSET StintsIn(h)
      BY <1>1, <2>1, StintsOfOne, ZenonT(60) DEF g, n
    <3>2. f[slot] = Plus(TimeIn(h, S), start)
      BY <2>1 DEF Exact
    <3>3. f \in [Slots -> Times] /\ d.totalDomTime = [f EXCEPT ![entry[1]] = Plus(@, r)]
      BY <1>3 DEF CpuEntries
    <3>4. start \in Int /\ r \in Int
      BY <1>2, ZeroTime, NsModulusAssumption DEF Times
    <3>5. Plus(Plus(TimeIn(h, S), start), r) = Plus(TimeIn(h, S) + r, start)
      <4>1. TimeIn(h, S) \in Int
        BY <2>2, <3>1
      <4>. HIDE DEF start, S
      <4>. QED
        BY <3>4, <4>1, PlusLater
    <3>6. FirstIn(g) = FirstIn(h)
      BY <1>4
    <3>. HIDE DEF S, f
    <3>7. CASE entry[1] = slot
      <4>1. d.totalDomTime[slot] = Plus(f[slot], r)
        BY <3>3, <3>7
      <4>2. TimeIn(g, SlotStints(g, slot)) = TimeIn(h, S) + r
        BY <2>2, <3>1, <3>7
      <4>. QED
        BY <3>2, <3>5, <3>6, <4>1, <4>2
    <3>8. CASE entry[1] # slot
      <4>1. d.totalDomTime[slot] = f[slot]
        BY <3>3, <3>8
      <4>2. TimeIn(g, SlotStints(g, slot)) = TimeIn(h, S)
        BY <2>2, <3>1, <3>8
      <4>. QED
        BY <3>2, <3>6, <4>1, <4>2
    <3>. QED
      BY <3>7, <3>8
  <2>. DEFINE known == entry = FirstIn(h) \/ \E i \in StintsIn(h) : RanIn(h, i) = entry
              t == c.vcpuTimes
  <2>4. /\ t \in VcpuTables /\ entry \in Ids /\ r \in Times
        /\ DOMAIN d.vcpuTimes = DOMAIN t \cup {entry}
        /\ \A x \in DOMAIN t : x # entry => d.vcpuTimes[x] = t[x]
        /\ d.vcpuTimes[entry] = IF entry \in DOMAIN t THEN Plus(t[entry], r) ELSE 0
    <3>1. t \in VcpuTables /\ r \in Times
      BY <1>2 DEF CpuEntries
    <3>2. entry \in Ids
      BY EntryIsId DEF entry
    <3>3. d.vcpuTimes = AddToVcpu(t, entry, r)
      BY <1>3
    <3>. HIDE DEF t
    <3>4. DOMAIN AddToVcpu(t, entry, r) = DOMAIN t \cup {entry}
      BY <3>1, <3>2, TableAdded
    <3>5. AddToVcpu(t, entry, r)[entry] = IF entry \in DOMAIN t THEN Plus(t[entry], r) ELSE 0
      BY <3>1, <3>2, TableAdded
    <3>6. \A x \in DOMAIN t : x # entry => AddToVcpu(t, entry, r)[x] = t[x]
      BY <3>1, <3>2, TableIs DEF AddToVcpu, Put
    <3>. QED
      BY <3>1, <3>2, <3>3, <3>4, <3>5, <3>6
  <2>5. \A e \in Ids : e \in DOMAIN t
                       <=> e = FirstIn(h) \/ \E i \in StintsIn(h) : RanIn(h, i) = e
    BY <2>1 DEF Exact
  <2>6. known <=> entry \in DOMAIN t
    BY <2>4, <2>5
  <2>7. ASSUME NEW e \in Ids
        PROVE  e \in DOMAIN d.vcpuTimes
                 <=> e = FirstIn(g) \/ \E i \in StintsIn(g) : RanIn(g, i) = e
    <3>1. \A i \in StintsIn(h) : RanIn(g, i) = RanIn(h, i)
      BY <1>4
    <3>2. RanIn(g, n) = entry
      <4>1. n \in 1 .. n
        BY <1>4
      <4>. QED
        BY <1>4, <2>1, <4>1
    <3>3. (\E i \in StintsIn(g) : RanIn(g, i) = e)
            <=> (\E i \in StintsIn(h) : RanIn(h, i) = e) \/ e = entry
      BY <1>4, <3>1, <3>2
    <3>. QED
      BY <1>4, <2>4, <2>5, <3>3
  <2>8. ASSUME NEW e \in DOMAIN d.vcpuTimes
        PROVE  d.vcpuTimes[e] = Plus(TimeIn(g, VcpuStints(g, e)),
                                     IF e = FirstIn(g) THEN seed ELSE 0)
    <3>. DEFINE start == IF e = FirstIn(h) THEN seed ELSE 0
                S == VcpuStints(h, e)
    <3>1. /\ VcpuStints(g, e) = IF entry = e /\ known THEN S \cup {n} ELSE S
          /\ entry = e /\ ~ known => S = {}
          /\ S \in SUBSET StintsIn(h)
      BY <1>1, <2>1, StintsOfOne, ZenonT(60) DEF g, n
    <3>2. e \in DOMAIN t => t[e] = Plus(TimeIn(h, S), start)
      BY <2>1 DEF Exact
    <3>3. start \in Int /\ r \in Int
      BY <1>2, ZeroTime, NsModulusAssumption DEF Times
    <3>4. Plus(Plus(TimeIn(h, S), start), r) = Plus(TimeIn(h, S) + r, start)
      <4>1. TimeIn(h, S) \in Int
        BY <2>2, <3>1
      <4>. HIDE DEF start, S
      <4>. QED
        BY <3>3, <4>1, PlusLater
    <3>5. FirstIn(g) = FirstIn(h)
      BY <1>4
    <3>6. CASE entry = e /\ known
      <4>. HIDE DEF S, t, known
      <4>1. d.vcpuTimes[e] = Plus(t[e], r) /\ e \in DOMAIN t
        BY <2>4, <2>6, <3>6
      <4>2. TimeIn(g, VcpuStints(g, e)) = TimeIn(h, S) + r
        BY <2>2, <3>1, <3>6
      <4>. QED
        BY <3>2, <3>4, <3>5, <4>1, <4>2
    <3>7. CASE entry = e /\ ~ known
      <4>1. d.vcpuTimes[e] = 0
        BY <2>4, <2>6, <3>7
      <4>2. VcpuStints(g, e) = {} /\ e # FirstIn(h)
        BY <3>1, <3>7
      <4>3. TimeIn(g, {}) = 0
        BY SumUnfold, FS_EmptySet DEF TimeIn
      <4>4. Plus(0, 0) = 0
        BY ZeroTime, SmallRemainder
      <4>. QED
        BY <3>5, <4>1, <4>2, <4>3, <4>4
    <3>8. CASE entry # e
      <4>. HIDE DEF S, t, known
      <4>1. d.vcpuTimes[e] = t[e] /\ e \in DOMAIN t
        BY <2>4, <3>8
      <4>2. TimeIn(g, VcpuStints(g, e)) = TimeIn(h, S)
        BY <2>2, <3>1, <3>8
      <4>. QED
        BY <3>2, <3>5, <4>1, <4>2
    <3>. QED
      BY <3>6, <3>7, <3>8
  <2>9. d.prev = g[Len(g)].to /\ d.prevNs = g[Len(g)].ns
    BY <1>1, <1>3, <1>4
  <2>. QED
    BY <2>3, <2>7, <2>8, <2>9 DEF Exact
<1>7. Exact(d, g, seed)
  BY <1>6 DEF Exact
<1>. QED
  BY <1>5, <1>7 DEF g, sw

-----------------------------------------------------------------------------
(* The ledger of the refinement *)
SeedOf(cpu) == LastReport(reports[cpu], FirstIn(switches[cpu])[1])
LedgerEntry(cpu) == [since |-> switches[cpu][1].ns, upto |-> cpuTimes[cpu].prevNs,
                     counted |-> Minus(cpuTimes[cpu].totalCpuTime, SeedOf(cpu))]
LedgerOf == [cpu \in DOMAIN cpuTimes |-> LedgerEntry(cpu)]

LEMMA LedgerIs ==
    /\ Now = 0 /\ LedgerOf = << >> => Ledger!Init
    /\ (Now' \in Nat /\ Now' >= Now /\ LedgerOf' = LedgerOf) => Ledger!Next
    /\ (Now' \in Nat /\ Now' >= Now /\ LedgerOf' = << >>) => Ledger!Next
BY DEF Ledger!Init, Ledger!Next, Ledger!Reset, LedgerOf, LedgerEntry, SeedOf, LastReport,
       FirstIn, Seed, First, Now

(* A CPU of which nothing is remembered *)
LEMMA AllUnmet ==
    ASSUME lastRuntime = << >>, cpuTimes = << >>, switches = Nothing, reports = Nothing
    PROVE  /\ DOMAIN lastRuntime \subseteq Cpus /\ DOMAIN cpuTimes \subseteq Cpus
           /\ \A cpu \in DOMAIN lastRuntime : lastRuntime[cpu] \in [Slots -> Times]
           /\ switches \in [Cpus -> Seq(Switched)] /\ reports \in [Cpus -> Seq(Reported)]
           /\ \A cpu \in Cpus : Unmet(cpu)
           /\ LedgerOf = << >>
<1>1. DOMAIN lastRuntime = {} /\ DOMAIN cpuTimes = {}
  OBVIOUS
<1>2. \A cpu \in Cpus : switches[cpu] = << >> /\ reports[cpu] = << >>
  BY DEF Nothing
<1>3. \A slot : LastReport(<< >>, slot) = 0
  BY DEF LastReport
<1>4. << >> \in Seq(Switched) /\ << >> \in Seq(Reported)
  OBVIOUS
<1>. QED
  BY <1>1, <1>2, <1>3, <1>4 DEF Nothing, Unmet, LastRuntime, LedgerOf

LEMMA SharingInit == Init => SharingInv /\ Ledger!Init
<1>. SUFFICES ASSUME Init PROVE SharingInv /\ Ledger!Init
  OBVIOUS
<1>1. FeedInv /\ Now = 0 /\ ended \in BOOLEAN
  BY FeedInitOK DEF Init
<1>. QED
  BY <1>1, AllUnmet, LedgerIs DEF Init, SharingInv

(* lost_records_handler after a long gap *)
LEMMA ResetStep ==
    ASSUME ResetData, FeedInv', Now <= Now', Now' \in Nat, ended' \in BOOLEAN
    PROVE  SharingInv' /\ Ledger!Next
<1>1. /\ lastRuntime' = << >> /\ cpuTimes' = << >>
      /\ switches' = Nothing /\ reports' = Nothing
  BY DEF ResetData
<1>2. /\ DOMAIN lastRuntime' = {} /\ DOMAIN cpuTimes' = {}
      /\ \A cpu \in Cpus : switches'[cpu] = << >> /\ reports'[cpu] = << >>
  BY <1>1 DEF Nothing
<1>3. \A slot : LastReport(<< >>, slot) = 0
  BY DEF LastReport
<1>4. << >> \in Seq(Switched) /\ << >> \in Seq(Reported)
  OBVIOUS
<1>5. \A cpu \in Cpus : Unmet(cpu)'
  BY <1>2, <1>3 DEF Unmet, LastRuntime
<1>6. LedgerOf' = << >>
  BY <1>2 DEF LedgerOf
<1>7. switches' \in [Cpus -> Seq(Switched)] /\ reports' \in [Cpus -> Seq(Reported)]
  BY <1>1, <1>4 DEF Nothing
<1>8. SharingInv'
  BY <1>2, <1>5, <1>7 DEF SharingInv
<1>9. Ledger!Next
  BY <1>6, LedgerIs
<1>. QED
  BY <1>8, <1>9

(* What is known of a CPU stays true as time goes by. *)
LEMMA MetLater ==
    ASSUME SharingInv, NEW cpu \in Cpus, Now <= Now', Now' \in Nat,
           cpu \in DOMAIN cpuTimes' <=> cpu \in DOMAIN cpuTimes,
           cpu \in DOMAIN cpuTimes => cpuTimes'[cpu] = cpuTimes[cpu],
           switches'[cpu] = switches[cpu], reports'[cpu] = reports[cpu],
           cpu \in DOMAIN lastRuntime' <=> cpu \in DOMAIN lastRuntime,
           lastRuntime'[cpu] = lastRuntime[cpu]
    PROVE  Unmet(cpu)' \/ Met(cpu)'
<1>1. Unmet(cpu) \/ Met(cpu)
  BY DEF SharingInv
<1>2. Unmet(cpu) => Unmet(cpu)'
  BY DEF Unmet, LastRuntime
<1>3. ASSUME Met(cpu) PROVE Met(cpu)'
  <2>1. cpuTimes[cpu].prevNs \in Int /\ Now \in Int
    BY <1>3, NowType DEF Met, CpuEntries, SharingInv, FeedInv
  <2>2. cpuTimes'[cpu].prevNs <= Now'
    BY <1>3, <2>1 DEF Met
  <2>. QED
    BY <1>3, <2>2 DEF Met
<1>. QED
  BY <1>1, <1>2, <1>3

LEMMA SharingLater ==
    ASSUME SharingInv, UNCHANGED <<lastRuntime, cpuTimes, switches, reports>>,
           FeedInv', Now <= Now', Now' \in Nat, ended' \in BOOLEAN
    PROVE  SharingInv' /\ Ledger!Next
<1>1. \A cpu \in Cpus : Unmet(cpu)' \/ Met(cpu)'
  BY MetLater
<1>2. LedgerOf' = LedgerOf
  BY DEF LedgerOf, LedgerEntry, SeedOf, FirstIn, LastReport
<1>. QED
  BY <1>1, <1>2, LedgerIs DEF SharingInv

(* switch_infprev_handler *)
LEMMA ReportStep ==
    ASSUME SharingInv, FeedInv', Now <= Now', Now' \in Nat, ended' \in BOOLEAN,
           event'.cpu \in Cpus,
           NEW dom \in Doms, NEW runtime \in Runtimes,
           SwitchInfprev(dom, runtime), SeeReport(dom, runtime), UNCHANGED <<cpuTimes, switches>>
    PROVE  SharingInv' /\ Ledger!Next
<1>. DEFINE cpu == event'.cpu
            r == [slot |-> SlotOf(dom), runtime |-> runtime]
            known == IF cpu \in DOMAIN lastRuntime THEN lastRuntime[cpu]
                                                   ELSE [slot \in Slots |-> 0]
            more == [known EXCEPT ![SlotOf(dom)] = runtime]
<1>1. /\ SlotOf(dom) \in Slots /\ r \in Reported /\ runtime \in Times
      /\ \A d \in Doms : SlotOf(d) \in Slots
  BY SlotIsSlot, RuntimesAssumption DEF Reported
<1>2. known \in [Slots -> Times] /\ more \in [Slots -> Times]
  BY <1>1, ZeroTime DEF SharingInv
<1>3. lastRuntime' = Put(lastRuntime, cpu, more)
  BY DEF SwitchInfprev
<1>4. /\ cpu \in DOMAIN lastRuntime' /\ lastRuntime'[cpu] = more
      /\ \A c : c # cpu => /\ c \in DOMAIN lastRuntime' <=> c \in DOMAIN lastRuntime
                           /\ c \in DOMAIN lastRuntime => lastRuntime'[c] = lastRuntime[c]
      /\ DOMAIN lastRuntime' = DOMAIN lastRuntime \cup {cpu}
  <2>. HIDE DEF more
  <2>. QED
    BY <1>3 DEF Put
<1>5. reports' = IF switches[cpu] # << >> THEN reports
                 ELSE [reports EXCEPT ![cpu] = Append(@, r)]
  BY DEF SeeReport
<1>6. reports' \in [Cpus -> Seq(Reported)] /\ \A c \in Cpus : c # cpu => reports'[c] = reports[c]
  <2>1. reports \in [Cpus -> Seq(Reported)] /\ \A c \in Cpus : Append(reports[c], r) \in Seq(Reported)
    BY <1>1 DEF SharingInv
  <2>. HIDE DEF r
  <2>. QED
    BY <1>5, <2>1
<1>. HIDE DEF known, more
<1>7. ASSUME NEW c \in Cpus
      PROVE  Unmet(c)' \/ Met(c)'
  <2>1. CASE Unmet(c)
    <3>1. c \notin DOMAIN cpuTimes' /\ switches'[c] = << >>
      BY <2>1 DEF Unmet
    <3>2. ASSUME NEW d \in Doms
          PROVE  LastRuntime(c, d)' = LastReport(reports'[c], SlotOf(d))
      <4>1. LastRuntime(c, d) = LastReport(reports[c], SlotOf(d))
        BY <2>1 DEF Unmet
      <4>2. CASE c # cpu
        BY <1>4, <1>6, <4>1, <4>2 DEF LastRuntime
      <4>3. CASE c = cpu
        <5>1. reports'[c] = Append(reports[c], r) /\ reports[c] \in Seq(Reported)
          BY <1>5, <2>1, <4>3 DEF Unmet, SharingInv
        <5>2. LastReport(reports'[c], SlotOf(d))
                = IF r.slot = SlotOf(d) THEN r.runtime ELSE LastReport(reports[c], SlotOf(d))
          BY <1>1, <5>1, ReportIs
        <5>3. LastRuntime(c, d)' = more[SlotOf(d)]
          BY <1>4, <4>3 DEF LastRuntime
        <5>4. LastRuntime(c, d) = known[SlotOf(d)]
          BY <1>1, <4>3 DEF LastRuntime, known
        <5>5. more[SlotOf(d)] = IF SlotOf(dom) = SlotOf(d) THEN runtime ELSE known[SlotOf(d)]
          BY <1>1, <1>2 DEF more
        <5>. QED
          BY <4>1, <5>2, <5>3, <5>4, <5>5
      <4>. QED
        BY <4>2, <4>3
    <3>. QED
      BY <3>1, <3>2 DEF Unmet
  <2>2. CASE Met(c)
    <3>1. c = cpu => reports' = reports
      BY <1>5, <2>2 DEF Met
    <3>2. reports'[c] = reports[c]
      BY <1>6, <3>1
    <3>3. cpuTimes[c].prevNs \in Int /\ Now \in Int
      BY <2>2, NowType DEF Met, CpuEntries, SharingInv, FeedInv
    <3>4. cpuTimes'[c].prevNs <= Now'
      BY <2>2, <3>3 DEF Met
    <3>. QED
      BY <2>2, <3>2, <3>4 DEF Met
  <2>. QED
    BY <2>1, <2>2 DEF SharingInv
<1>8. \A c \in DOMAIN lastRuntime' : lastRuntime'[c] \in [Slots -> Times]
  BY <1>2, <1>4 DEF SharingInv
<1>9. SharingInv'
  BY <1>4, <1>6, <1>7, <1>8 DEF SharingInv
<1>10. LedgerOf' = LedgerOf
  <2>1. \A c \in DOMAIN cpuTimes : c \in Cpus /\ switches[c] # << >>
    BY DEF SharingInv, Unmet, Met
  <2>2. \A c \in DOMAIN cpuTimes : reports'[c] = reports[c]
    BY <1>5, <1>6, <2>1
  <2>. QED
    BY <2>2 DEF LedgerOf, LedgerEntry, SeedOf
<1>. QED
  BY <1>9, <1>10, LedgerIs

LEMMA ReportInTimes ==
    ASSUME SharingInv, NEW cpu \in Cpus, NEW slot
    PROVE  LastReport(reports[cpu], slot) \in Times
<1>1. PICK rs \in Seq(Reported) : rs = reports[cpu]
  BY DEF SharingInv
<1>2. CASE rs = << >>
  BY <1>1, <1>2, ZeroTime DEF LastReport
<1>3. CASE rs # << >>
  <2>1. rs[1] \in Reported
    BY <1>3
  <2>. QED
    BY <1>1, <2>1, ReportIs
<1>. QED
  BY <1>2, <1>3

(* switch_sched_handler *)
LEMMA SwitchStep ==
    ASSUME SharingInv, FeedInv', ended' \in BOOLEAN,
           NEW cpu \in Cpus, event'.cpu = cpu, event' \in FeedRecord, Now <= event'.ns,
           Now' = event'.ns, NEW v \in VcpuIds, NEW w \in VcpuIds,
           SwitchSched(v, w), SeeSwitch(v, w), UNCHANGED <<lastRuntime, reports>>
    PROVE  SharingInv' /\ Ledger!Next
<1>. DEFINE h == switches[cpu]
            sw == [from |-> v, to |-> w, ns |-> event'.ns]
            g == Append(h, sw)
            D == DOMAIN cpuTimes
<1>1. /\ cpu \in Cpus /\ event'.ns \in 1 .. MaxNs /\ Now' \in Nat /\ Now \in Nat
      /\ Now <= Now' /\ event'.ns \in Nat
  BY NowType, FeedAssumption DEF FeedRecord, SharingInv, FeedInv
<1>2. sw \in Switched /\ sw.from = v /\ sw.to = w /\ sw.ns = event'.ns
  BY <1>1 DEF Switched
<1>3. h \in Seq(Switched) /\ g \in Seq(Switched) /\ g # << >>
  <2>1. h \in Seq(Switched)
    BY <1>1 DEF SharingInv
  <2>. HIDE DEF h, sw
  <2>. QED
    BY <1>2, <2>1
<1>4. /\ switches' \in [Cpus -> Seq(Switched)] /\ switches'[cpu] = g
      /\ \A c \in Cpus : c # cpu => switches'[c] = switches[c]
  <2>1. switches' = [switches EXCEPT ![cpu] = g]
    BY DEF SeeSwitch
  <2>2. switches \in [Cpus -> Seq(Switched)]
    BY DEF SharingInv
  <2>. HIDE DEF g
  <2>. QED
    BY <1>1, <1>3, <2>1, <2>2
<1>5. D \subseteq Cpus /\ \A c \in Cpus : Unmet(c) \/ Met(c)
  BY DEF SharingInv
<1>6. ASSUME /\ DOMAIN cpuTimes' = D \cup {cpu}
             /\ \A c \in D : c # cpu => cpuTimes'[c] = cpuTimes[c]
             /\ Met(cpu)'
      PROVE  SharingInv'
  <2>1. ASSUME NEW c \in Cpus, c # cpu
        PROVE  Unmet(c)' \/ Met(c)'
    <3>1. c \in DOMAIN cpuTimes' <=> c \in DOMAIN cpuTimes
      BY <1>6, <2>1
    <3>2. c \in DOMAIN cpuTimes => cpuTimes'[c] = cpuTimes[c]
      BY <1>6, <2>1
    <3>3. switches'[c] = switches[c] /\ reports'[c] = reports[c]
      BY <1>4, <2>1
    <3>. QED
      BY <1>1, <3>1, <3>2, <3>3, MetLater
  <2>2. DOMAIN cpuTimes' \subseteq Cpus
    BY <1>1, <1>5, <1>6
  <2>3. /\ DOMAIN lastRuntime' \subseteq Cpus /\ reports' \in [Cpus -> Seq(Reported)]
        /\ \A c \in DOMAIN lastRuntime' : lastRuntime'[c] \in [Slots -> Times]
    BY DEF SharingInv
  <2>. HIDE DEF D
  <2>. QED
    BY <1>4, <1>6, <2>1, <2>2, <2>3 DEF SharingInv
<1>7. \A c \in D : c # cpu => switches'[c] = switches[c] /\ SeedOf(c)' = SeedOf(c)
  BY <1>4, <1>5 DEF SeedOf
<1>8. CASE Met(cpu)
  <2>. DEFINE c == cpuTimes[cpu]
              seed == SeedOf(cpu)
  <2>1. /\ cpu \in D /\ h # << >> /\ c \in CpuEntries /\ c.prevNs <= Now
        /\ Metered(c, h, seed) /\ Exact(c, h, seed)
    BY <1>8 DEF Met, SeedOf
  <2>2. g[1] = h[1] /\ FirstIn(g) = FirstIn(h) /\ SeedOf(cpu)' = seed
    <3>1. g[1] = h[1] /\ FirstIn(g) = FirstIn(h)
      BY <1>2, <1>3, <2>1, StintAdded
    <3>. QED
      BY <1>4, <3>1 DEF SeedOf
  <2>3. seed \in Times
    BY ReportInTimes DEF SeedOf
  <2>4. c.prevNs \in Nat /\ c.prevNs <= event'.ns
    <3>1. c.prevNs \in Nat
      BY <2>1, FeedAssumption DEF CpuEntries
    <3>. QED
      BY <1>1, <2>1, <3>1
  <2>5. CASE c.prev = v
    <3>. DEFINE d == AddRuntime(c, v, w)
    <3>1. Left(c, d, v, w, event'.ns)
      BY <1>1, <2>1, RuntimeAdded
    <3>2. /\ Metered(d, g, seed) /\ Exact(d, g, seed)
          /\ Minus(d.totalCpuTime, seed) = Minus(c.totalCpuTime, seed) + (event'.ns - c.prevNs)
      BY <1>1, <1>3, <2>1, <2>3, <2>4, <2>5, <3>1, ExactLater
    <3>3. cpuTimes' = [cpuTimes EXCEPT ![cpu] = d]
      BY <2>1, <2>5 DEF SwitchSched
    <3>4. d \in CpuEntries /\ d.prevNs = event'.ns
      BY <3>1 DEF Left
    <3>. HIDE DEF d
    <3>5. /\ DOMAIN cpuTimes' = D \cup {cpu} /\ DOMAIN cpuTimes' = D
          /\ \A x \in D : x # cpu => cpuTimes'[x] = cpuTimes[x]
          /\ cpuTimes'[cpu] = d
      BY <2>1, <3>3
    <3>6. Met(cpu)'
      <4>1. d.prevNs <= Now'
        BY <1>1, <3>4
      <4>. HIDE DEF g
      <4>. QED
        BY <1>3, <1>4, <2>1, <2>2, <3>2, <3>4, <3>5, <4>1 DEF Met, SeedOf
    <3>7. SharingInv'
      BY <1>6, <3>5, <3>6
    <3>8. LedgerOf' = [LedgerOf EXCEPT ![cpu] =
                         [since |-> @.since, upto |-> event'.ns,
                          counted |-> @.counted + (event'.ns - c.prevNs)]]
      <4>1. LedgerEntry(cpu)' = [since |-> LedgerEntry(cpu).since, upto |-> event'.ns,
                                 counted |-> LedgerEntry(cpu).counted + (event'.ns - c.prevNs)]
        BY <1>4, <2>2, <3>2, <3>4, <3>5 DEF LedgerEntry
      <4>2. \A x \in D : x # cpu => LedgerEntry(x)' = LedgerEntry(x)
        BY <1>7, <3>5 DEF LedgerEntry
      <4>3. LedgerOf' = [x \in D |-> LedgerEntry(x)'] /\ LedgerOf = [x \in D |-> LedgerEntry(x)]
        BY <3>5 DEF LedgerOf
      <4>. HIDE DEF D, c
      <4>. QED
        BY <2>1, <4>1, <4>2, <4>3
    <3>9. Ledger!Count(cpu)
      <4>1. cpu \in DOMAIN LedgerOf /\ LedgerOf[cpu].upto = c.prevNs
        BY <2>1 DEF LedgerOf, LedgerEntry
      <4>2. c.prevNs \in LedgerOf[cpu].upto .. Now' /\ event'.ns \in c.prevNs .. Now'
        BY <1>1, <2>4, <4>1
      <4>3. \E x \in LedgerOf[cpu].upto .. Now' : \E y \in x .. Now' :
              LedgerOf' = [LedgerOf EXCEPT ![cpu] = [since |-> @.since, upto |-> y,
                                                     counted |-> @.counted + (y - x)]]
        BY <3>8, <4>2
      <4>. QED
        BY <4>1, <4>3 DEF Ledger!Count, LedgerOf, LedgerEntry, SeedOf, LastReport,
                          FirstIn, Seed, First, Now
    <3>10. Ledger!Next
      BY <1>1, <3>9 DEF Ledger!Next, Now
    <3>. QED
      BY <3>7, <3>10
  <2>6. CASE c.prev # v
    <3>1. UNCHANGED cpuTimes
      BY <2>1, <2>6 DEF SwitchSched
    <3>2. Exact(c, g, seed) /\ Metered(c, g, seed)
      BY <1>2, <1>3, <2>1, <2>2, <2>6, ExactBroken DEF Metered
    <3>3. Met(cpu)'
      <4>1. c.prevNs <= Now'
        BY <1>1, <2>1, <2>4
      <4>. HIDE DEF g
      <4>. QED
        BY <1>3, <1>4, <2>1, <2>2, <3>1, <3>2, <4>1 DEF Met, SeedOf
    <3>4. SharingInv'
      BY <1>6, <2>1, <3>1, <3>3
    <3>5. \A x \in D : LedgerEntry(x)' = LedgerEntry(x)
      <4>1. LedgerEntry(cpu)' = LedgerEntry(cpu)
        BY <1>4, <2>2, <3>1 DEF LedgerEntry
      <4>. QED
        BY <1>7, <3>1, <4>1 DEF LedgerEntry
    <3>6. LedgerOf' = LedgerOf
      BY <3>1, <3>5 DEF LedgerOf
    <3>. QED
      BY <1>1, <3>4, <3>6, LedgerIs
  <2>. QED
    BY <2>5, <2>6
<1>9. CASE Unmet(cpu)
  <2>. DEFINE d == NewCpu(v, w)
  <2>1. PICK seed \in Times : seed = LastReport(reports[cpu], SlotOf(v[1]))
    BY ReportInTimes
  <2>2. cpu \notin D /\ h = << >> /\ LastRuntime(event'.cpu, v[1]) = seed
    BY <1>9, <2>1, EntryIsId DEF Unmet
  <2>3. g = <<sw>>
    <3>. HIDE DEF h, sw
    <3>. QED
      BY <2>2
  <2>4. Fresh(d, v, w, event'.ns, seed)
    BY <1>1, <2>2, NewEntry
  <2>5. cpuTimes' = Put(cpuTimes, cpu, d)
    BY <2>2 DEF SwitchSched
  <2>. HIDE DEF d
  <2>6. /\ DOMAIN cpuTimes' = D \cup {cpu}
        /\ \A x \in D : x # cpu => cpuTimes'[x] = cpuTimes[x]
        /\ cpuTimes'[cpu] = d
    BY <2>5 DEF Put
  <2>7. /\ Metered(d, <<sw>>, seed) /\ Exact(d, <<sw>>, seed) /\ FirstIn(<<sw>>) = Entry(v)
        /\ Entry(v)[1] = SlotOf(v[1])
    <3>1. Entry(v)[1] = SlotOf(v[1]) /\ Entry(sw.from) = Entry(v)
      BY <1>2, EntryIsId
    <3>2. Fresh(d, sw.from, sw.to, sw.ns, seed)
      BY <1>2, <2>4
    <3>3. sw \in Switched
      BY <1>2
    <3>. HIDE DEF sw
    <3>4. /\ Metered(d, <<sw>>, seed) /\ Exact(d, <<sw>>, seed)
          /\ FirstIn(<<sw>>) = Entry(sw.from)
      BY <3>2, <3>3, ExactFirst
    <3>. QED
      BY <3>1, <3>4
  <2>8. SeedOf(cpu)' = seed
    BY <1>4, <2>1, <2>3, <2>7 DEF SeedOf
  <2>9. Met(cpu)'
    <3>1. d.prevNs <= Now' /\ d \in CpuEntries
      BY <1>1, <2>4 DEF Fresh
    <3>. HIDE DEF g
    <3>2. Metered(d, switches'[cpu], SeedOf(cpu)') /\ Exact(d, switches'[cpu], SeedOf(cpu)')
      BY <1>4, <2>3, <2>7, <2>8
    <3>. QED
      BY <1>3, <1>4, <2>4, <2>6, <3>1, <3>2 DEF Met, SeedOf
  <2>10. SharingInv'
    BY <1>6, <2>6, <2>9
  <2>11. LedgerEntry(cpu)' = [since |-> Now', upto |-> Now', counted |-> 0]
    <3>1. switches'[cpu][1].ns = event'.ns
      <4>1. switches'[cpu] = <<sw>>
        BY <1>4, <2>3
      <4>. HIDE DEF sw
      <4>. QED
        BY <1>2, <4>1
    <3>2. Minus(seed, seed) = 0
      <4>1. seed \in Nat /\ seed < NsModulus /\ seed - seed = 0
        BY NsModulusAssumption DEF Times
      <4>2. Minus(seed, seed) = seed - seed
        BY <4>1, MinusExact
      <4>. QED
        BY <4>1, <4>2
    <3>. QED
      BY <2>4, <2>6, <2>8, <3>1, <3>2 DEF LedgerEntry, Fresh
  <2>12. LedgerOf' = [x \in DOMAIN LedgerOf \cup {cpu} |->
                        IF x = cpu THEN [since |-> Now', upto |-> Now', counted |-> 0]
                                   ELSE LedgerOf[x]]
    <3>1. \A x \in D : x # cpu => LedgerEntry(x)' = LedgerEntry(x)
      BY <1>7, <2>6 DEF LedgerEntry
    <3>2. /\ LedgerOf' = [x \in D \cup {cpu} |-> LedgerEntry(x)']
          /\ LedgerOf = [x \in D |-> LedgerEntry(x)]
      BY <2>6 DEF LedgerOf
    <3>. HIDE DEF D
    <3>. QED
      BY <2>11, <3>1, <3>2
  <2>13. cpu \notin DOMAIN LedgerOf
    BY <2>2 DEF LedgerOf
  <2>14. Ledger!Open(cpu)
    BY <2>12, <2>13 DEF Ledger!Open, LedgerOf, LedgerEntry, SeedOf, LastReport,
                        FirstIn, Seed, First, Now
  <2>15. Ledger!Next
    BY <1>1, <2>14 DEF Ledger!Next, Now
  <2>. QED
    BY <2>10, <2>15
<1>. QED
  BY <1>1, <1>5, <1>8, <1>9

LEMMA SharingStep == SharingInv /\ [Next]_sharingVars => SharingInv' /\ Ledger!Next
<1>. SUFFICES ASSUME SharingInv, [Next]_sharingVars PROVE SharingInv' /\ Ledger!Next
  OBVIOUS
<1>1. FeedInv /\ Now \in Nat /\ ended \in BOOLEAN
  BY NowType DEF SharingInv, FeedInv
<1>2. ASSUME NEW cpu \in Cpus, NEW id \in EventIds, NEW ns \in 1 .. MaxNs,
             Record(cpu, id, ns)
      PROVE  SharingInv' /\ Ledger!Next
  <2>1. /\ FeedInv' /\ event' \in FeedRecord /\ event'.cpu = cpu /\ event'.ns = ns
        /\ Now <= event'.ns /\ Now' = event'.ns /\ event'.ns \in Nat
    BY <1>1, <1>2, FeedOK, FeedAssumption DEF Record
  <2>2. ended' \in BOOLEAN
    BY <1>1, <1>2 DEF Record
  <2>3. ASSUME NEW dom \in Doms, NEW runtime \in Runtimes,
               SwitchInfprev(dom, runtime), SeeReport(dom, runtime),
               UNCHANGED <<cpuTimes, switches>>
        PROVE  SharingInv' /\ Ledger!Next
    BY <2>1, <2>2, <2>3, ReportStep
  <2>4. ASSUME NEW v \in VcpuIds, NEW w \in VcpuIds,
               SwitchSched(v, w), SeeSwitch(v, w), UNCHANGED <<lastRuntime, reports>>
        PROVE  SharingInv' /\ Ledger!Next
    BY <2>1, <2>2, <2>4, SwitchStep
  <2>5. CASE ResetData
    BY <2>1, <2>2, <2>5, ResetStep
  <2>6. CASE UNCHANGED <<lastRuntime, cpuTimes, switches, reports>>
    BY <2>1, <2>2, <2>6, SharingLater
  <2>. QED
    BY <1>2, <2>3, <2>4, <2>5, <2>6 DEF Record, LostRecordsHandler
<1>3. ASSUME Finalize \/ UNCHANGED sharingVars
      PROVE  SharingInv' /\ Ledger!Next
  <2>1. UNCHANGED feedVars /\ UNCHANGED <<lastRuntime, cpuTimes, switches, reports>>
    BY <1>3 DEF Finalize, sharingVars
  <2>2. ended' \in BOOLEAN
    BY <1>1, <1>3 DEF Finalize, sharingVars
  <2>3. FeedInv' /\ Now' = Now
    BY <1>1, <2>1, FeedSame
  <2>4. Now <= Now' /\ Now' \in Nat
    BY <1>1, <2>3
  <2>. QED
    BY <2>1, <2>2, <2>3, <2>4, SharingLater
<1>. QED
  BY <1>2, <1>3 DEF Next

LEMMA MetHolds ==
    ASSUME SharingInv, NEW cpu \in DOMAIN cpuTimes
    PROVE  cpu \in Cpus /\ Met(cpu)
BY DEF SharingInv, Unmet

-----------------------------------------------------------------------------
(* Cells of the table: rows do not overlap. *)
LEMMA CellFacts ==
    ASSUME NEW m \in Nat, MaxNumVcpus = m,
           NEW s \in Slots, NEW c \in 0 .. m, NEW t \in Slots, NEW d \in 0 .. m
    PROVE  /\ Cell(s, c) \in Cells
           /\ Cell(s, c) = Cell(t, d) => s = t /\ c = d
<1>. DEFINE w == m + 1
<1>1. s \in Nat /\ t \in Nat /\ c \in Nat /\ d \in Nat /\ c < w /\ d < w /\ w \in Nat /\ MaxDoms \in Nat
  BY DomsAssumption DEF Slots
<1>. HIDE DEF w
<1>2. ASSUME NEW x \in Nat, NEW y \in Nat, x < y
      PROVE  (x * w) + w <= y * w
  <2>1. (y - x) - 1 \in Nat
    BY <1>2
  <2>2. y * w = (x * w) + w + (((y - x) - 1) * w)
    BY <1>1
  <2>3. ((y - x) - 1) * w \in Nat
    BY <1>1, <2>1
  <2>4. x * w \in Nat /\ y * w \in Nat
    BY <1>1
  <2>. DEFINE rest == ((y - x) - 1) * w
              a == x * w
              b == y * w
  <2>. HIDE DEF rest, a, b
  <2>5. a + w <= b
    BY <1>1, <2>2, <2>3, <2>4 DEF rest, a, b
  <2>. QED
    BY <2>5 DEF a, b
<1>3. s * w \in Nat /\ t * w \in Nat /\ MaxDoms * w \in Nat
  BY <1>1
<1>4. Cell(s, c) = (s * w) + c /\ Cell(t, d) = (t * w) + d /\ Cells = 0 .. (MaxDoms * w) - 1
  BY <1>3 DEF Cell, Cells, w
<1>5. s < MaxDoms
  BY DomsAssumption DEF Slots
<1>6. (s * w) + w <= MaxDoms * w
  BY <1>1, <1>2, <1>5
<1>7. s < t => (s * w) + w <= t * w
  BY <1>1, <1>2
<1>8. t < s => (t * w) + w <= s * w
  BY <1>1, <1>2
<1>. DEFINE a == s * w
            b == t * w
            e == MaxDoms * w
<1>9. a \in Nat /\ b \in Nat /\ e \in Nat /\ (s = t => a = b)
  BY <1>3
<1>10. /\ a + c \in 0 .. e - 1
       /\ a + c = b + d => s = t /\ c = d
  <2>1. a + w <= e /\ (s < t => a + w <= b) /\ (t < s => b + w <= a)
    BY <1>6, <1>7, <1>8
  <2>. HIDE DEF a, b, e
  <2>. QED
    BY <1>1, <1>9, <2>1
<1>. QED
  BY <1>4, <1>10

(* There are finitely many entries, and those of a slot are counted.       *)
LEMMA EntriesFinite ==
    ASSUME SharingInv
    PROVE  /\ IsFiniteSet(Entries) /\ MaxNumVcpus \in Nat
           /\ \A e \in Entries :
                /\ e[1] \in DOMAIN cpuTimes /\ e[2] \in Ids
                /\ e[2] \in DOMAIN cpuTimes[e[1]].vcpuTimes
                /\ cpuTimes[e[1]].vcpuTimes[e[2]] \in Times
<1>1. IsFiniteSet(Ids)
  <2>. DEFINE f == [v \in VcpuIds |-> Entry(v)]
  <2>1. Ids = {f[v] : v \in VcpuIds}
    BY DEF Ids
  <2>. HIDE DEF f
  <2>. QED
    BY <2>1, IdsFiniteAssumption, FiniteRange
<1>2. ASSUME NEW cpu \in DOMAIN cpuTimes
      PROVE  /\ cpu \in Cpus /\ DOMAIN cpuTimes[cpu].vcpuTimes \subseteq Ids
             /\ \A x \in DOMAIN cpuTimes[cpu].vcpuTimes : cpuTimes[cpu].vcpuTimes[x] \in Times
  <2>1. cpu \in Cpus /\ cpuTimes[cpu] \in CpuEntries
    BY MetHolds DEF Met
  <2>2. cpuTimes[cpu].vcpuTimes \in VcpuTables
    BY <2>1 DEF CpuEntries
  <2>. QED
    BY <2>1, <2>2, TableIs
<1>3. ASSUME NEW e \in Entries
      PROVE  \E cpu \in DOMAIN cpuTimes : \E x \in DOMAIN cpuTimes[cpu].vcpuTimes : e = <<cpu, x>>
  BY <1>3 DEF Entries
<1>4. \A e \in Entries :
        /\ e[1] \in DOMAIN cpuTimes /\ e[2] \in Ids
        /\ e[2] \in DOMAIN cpuTimes[e[1]].vcpuTimes
        /\ cpuTimes[e[1]].vcpuTimes[e[2]] \in Times
        /\ e \in Cpus \X Ids
  <2>. SUFFICES ASSUME NEW e \in Entries, NEW cpu \in DOMAIN cpuTimes,
                       NEW x \in DOMAIN cpuTimes[cpu].vcpuTimes, e = <<cpu, x>>
                PROVE  /\ e[1] \in DOMAIN cpuTimes /\ e[2] \in Ids
                       /\ e[2] \in DOMAIN cpuTimes[e[1]].vcpuTimes
                       /\ cpuTimes[e[1]].vcpuTimes[e[2]] \in Times
                       /\ e \in Cpus \X Ids
    BY <1>3
  <2>1. e[1] = cpu /\ e[2] = x
    OBVIOUS
  <2>2. cpu \in Cpus /\ x \in Ids /\ cpuTimes[cpu].vcpuTimes[x] \in Times
    BY <1>2
  <2>. QED
    BY <2>1, <2>2
<1>5. IsFiniteSet(Entries)
  <2>1. IsFiniteSet(Cpus \X Ids)
    BY <1>1, IdsFiniteAssumption, FS_Product
  <2>2. Entries \subseteq Cpus \X Ids
    BY <1>4
  <2>. QED
    BY <2>1, <2>2, FS_Subset
<1>6. MaxNumVcpus \in Nat
  <2>. DEFINE f == [slot \in Slots |-> Cardinality(EntriesOf(slot))]
              S == {Cardinality(EntriesOf(slot)) : slot \in Slots}
  <2>1. S = {f[slot] : slot \in Slots}
    OBVIOUS
  <2>2. IsFiniteSet(Slots) /\ 0 \in Slots
    <3>1. MaxDoms - 1 \in Int /\ 0 \in 0 .. MaxDoms - 1
      BY DomsAssumption
    <3>. QED
      BY <3>1, FS_Interval DEF Slots
  <2>3. IsFiniteSet(S)
    <3>. HIDE DEF f, S
    <3>. QED
      BY <2>1, <2>2, FiniteRange
  <2>4. \A slot \in Slots : Cardinality(EntriesOf(slot)) \in Nat
    <3>1. \A slot : EntriesOf(slot) \subseteq Entries
      BY DEF EntriesOf
    <3>2. \A slot : IsFiniteSet(EntriesOf(slot))
      BY <1>5, <3>1, FS_Subset
    <3>. QED
      BY <3>2, FS_CardinalityType
  <2>5. S \subseteq Nat /\ S \subseteq Int /\ S # {}
    BY <2>2, <2>4
  <2>. HIDE DEF S
  <2>6. PICK x \in S : \A y \in S : y <= x
    BY <2>3, <2>5, LargestElement
  <2>7. Max(S) = x
    BY <2>5, <2>6, ChosenLargest DEF Max
  <2>. QED
    BY <2>5, <2>6, <2>7 DEF MaxNumVcpus, S
<1>. QED
  BY <1>4, <1>5, <1>6

(* What the finalizer printed, all it printed it from being as it was *)
Table == IF DOMAIN cpuTimes = {} THEN NoTable
         ELSE [overrun |-> ~ (CellsUsed \subseteq Cells), cells |-> TotalDomRuntime]

TableInv == table = IF ended THEN Table ELSE NoTable

LEMMA TableSame == UNCHANGED cpuTimes => Table' = Table
<1>. SUFFICES ASSUME UNCHANGED cpuTimes PROVE Table' = Table
  OBVIOUS
<1>1. Entries' = Entries
  BY DEF Entries
<1>2. MaxNumVcpus' = MaxNumVcpus
  BY <1>1 DEF MaxNumVcpus, EntriesOf
<1>3. Cells' = Cells /\ CellsUsed' = CellsUsed
  BY <1>1, <1>2 DEF Cells, CellsUsed, VcpuCell, Cell
<1>4. TotalDomRuntime' = TotalDomRuntime
  BY <1>1, <1>2 DEF TotalDomRuntime, Cells, VcpuCell, Cell, VcpuTime, TotalDomTime
<1>. QED
  BY <1>3, <1>4 DEF Table, NoTable

LEMMA TableStep == SharingInv /\ TableInv /\ [Next]_sharingVars => TableInv'
<1>. SUFFICES ASSUME SharingInv, TableInv, [Next]_sharingVars PROVE TableInv'
  OBVIOUS
<1>1. CASE UNCHANGED sharingVars
  BY <1>1, TableSame DEF TableInv, sharingVars
<1>2. ASSUME NEW cpu \in Cpus, NEW id \in EventIds, NEW ns \in 1 .. MaxNs,
             Record(cpu, id, ns)
      PROVE  TableInv'
  BY <1>2 DEF TableInv, Record
<1>3. CASE Finalize
  <2>1. table' = Table /\ ended' /\ UNCHANGED cpuTimes
    BY <1>3 DEF Finalize, Table
  <2>. QED
    BY <2>1, TableSame DEF TableInv
<1>. QED
  BY <1>1, <1>2, <1>3 DEF Next

(* The sum over one element *)
LEMMA SumOfOne ==
    ASSUME NEW f, NEW x, f[x] \in Int
    PROVE  SumFunctionOnSet(f, {x}) = f[x] /\ SumFunctionOnSet(f, {}) = 0
<1>1. SumFunctionOnSet(f, {}) = 0
  BY SumUnfold, FS_EmptySet
<1>2. SumFunctionOnSet(f, {} \cup {x}) = f[x] + SumFunctionOnSet(f, {})
  BY SumAdd, FS_EmptySet
<1>3. {} \cup {x} = {x}
  OBVIOUS
<1>. QED
  BY <1>1, <1>2, <1>3

(* A column of VCPU ids below MaxNumVcpus, and where a cell is from        *)
LEMMA TableCells ==
    ASSUME SharingInv, \A v \in VcpusMet : v[2] < MaxNumVcpus
    PROVE  /\ CellsUsed \subseteq Cells
           /\ \A slot \in Slots :
                /\ Cell(slot, 0) \in Cells
                /\ {s \in Slots : Cell(s, 0) = Cell(slot, 0)} = {slot}
                /\ {e \in Entries : VcpuCell(e) = Cell(slot, 0)} = {}
           /\ \A v \in VcpusMet :
                /\ Cell(v[1], v[2] + 1) \in Cells
                /\ {s \in Slots : Cell(s, 0) = Cell(v[1], v[2] + 1)} = {}
                /\ {e \in Entries : VcpuCell(e) = Cell(v[1], v[2] + 1)} = {e \in Entries : e[2] = v}
<1>1. PICK m \in Nat : MaxNumVcpus = m
  BY EntriesFinite
<1>2. \A v \in VcpusMet : /\ v[1] \in Slots /\ v[2] + 1 \in 0 .. m /\ v[2] + 1 # 0
                          /\ v[2] \in Nat /\ v = <<v[1], v[2]>>
  <2>. SUFFICES ASSUME NEW v \in VcpusMet
                PROVE  /\ v[1] \in Slots /\ v[2] + 1 \in 0 .. m /\ v[2] + 1 # 0
                       /\ v[2] \in Nat /\ v = <<v[1], v[2]>>
    OBVIOUS
  <2>1. v \in Ids
    BY EntriesFinite DEF VcpusMet
  <2>2. PICK id \in VcpuIds : v = Entry(id)
    BY <2>1 DEF Ids
  <2>3. v[1] = SlotOf(id[1]) /\ v[2] = id[2] /\ v = <<v[1], v[2]>>
    BY <2>2 DEF Entry
  <2>4. v[1] \in Slots /\ v[2] \in Nat
    BY <2>3, EntryIsId, DomsAssumption
  <2>5. v[2] < m
    BY <1>1
  <2>. QED
    BY <2>3, <2>4, <2>5
<1>3. \A e \in Entries : e[2] \in VcpusMet
  BY DEF VcpusMet
<1>4. 0 \in 0 .. m
  OBVIOUS
<1>5. ASSUME NEW s \in Slots, NEW c \in 0 .. m, NEW t \in Slots, NEW d \in 0 .. m
      PROVE  /\ Cell(s, c) \in Cells
             /\ Cell(s, c) = Cell(t, d) => s = t /\ c = d
  BY <1>1, CellFacts
<1>6. CellsUsed \subseteq Cells
  BY <1>2, <1>3, <1>5 DEF CellsUsed, VcpuCell
<1>7. ASSUME NEW slot \in Slots
      PROVE  /\ Cell(slot, 0) \in Cells
             /\ {s \in Slots : Cell(s, 0) = Cell(slot, 0)} = {slot}
             /\ {e \in Entries : VcpuCell(e) = Cell(slot, 0)} = {}
  <2>1. \A s \in Slots : Cell(s, 0) = Cell(slot, 0) => s = slot
    BY <1>4, <1>5
  <2>2. ASSUME NEW e \in Entries PROVE VcpuCell(e) # Cell(slot, 0)
    <3>1. e[2] \in VcpusMet
      BY <1>3
    <3>2. e[2][1] \in Slots /\ e[2][2] + 1 \in 0 .. m /\ e[2][2] + 1 # 0
      BY <1>2, <3>1
    <3>. QED
      BY <1>4, <1>5, <3>2 DEF VcpuCell
  <2>3. Cell(slot, 0) \in Cells
    BY <1>4, <1>5
  <2>. QED
    BY <2>1, <2>2, <2>3
<1>8. ASSUME NEW v \in VcpusMet
      PROVE  /\ Cell(v[1], v[2] + 1) \in Cells
             /\ {s \in Slots : Cell(s, 0) = Cell(v[1], v[2] + 1)} = {}
             /\ {e \in Entries : VcpuCell(e) = Cell(v[1], v[2] + 1)} = {e \in Entries : e[2] = v}
  <2>1. v[1] \in Slots /\ v[2] + 1 \in 0 .. m /\ v[2] + 1 # 0
    BY <1>2
  <2>2. \A s \in Slots : Cell(s, 0) # Cell(v[1], v[2] + 1)
    BY <1>4, <1>5, <2>1
  <2>3. ASSUME NEW e \in Entries, VcpuCell(e) = Cell(v[1], v[2] + 1)
        PROVE  e[2] = v
    <3>1. e[2] \in VcpusMet
      BY <1>3
    <3>2. e[2][1] \in Slots /\ e[2][2] + 1 \in 0 .. m /\ e[2][2] \in Nat /\ e[2] = <<e[2][1], e[2][2]>>
      BY <1>2, <3>1
    <3>3. e[2][1] = v[1] /\ e[2][2] + 1 = v[2] + 1
      BY <1>5, <2>1, <2>3, <3>2 DEF VcpuCell
    <3>4. e[2][2] = v[2]
      BY <1>2, <3>2, <3>3
    <3>. QED
      BY <1>2, <3>2, <3>3, <3>4
  <2>4. \A e \in Entries : e[2] = v => VcpuCell(e) = Cell(v[1], v[2] + 1)
    BY DEF VcpuCell
  <2>5. Cell(v[1], v[2] + 1) \in Cells
    BY <1>5, <2>1
  <2>. QED
    BY <2>2, <2>3, <2>4, <2>5
<1>. QED
  BY <1>6, <1>7, <1>8

(* The sums of the table are times. *)
LEMMA TableTimes ==
    ASSUME SharingInv
    PROVE  /\ \A slot \in Slots : TotalDomTime(slot) \in Times
           /\ \A es \in SUBSET Entries : VcpuTime(es) \in Int
           /\ VcpuTime({}) = 0
<1>1. ASSUME NEW slot \in Slots PROVE TotalDomTime(slot) \in Times
  <2>. DEFINE f == [cpu \in DOMAIN cpuTimes |-> cpuTimes[cpu].totalDomTime[slot]]
  <2>1. IsFiniteSet(DOMAIN cpuTimes)
    BY IdsFiniteAssumption, FS_Subset DEF SharingInv
  <2>2. \A cpu \in DOMAIN cpuTimes : f[cpu] \in Int
    <3>. SUFFICES ASSUME NEW cpu \in DOMAIN cpuTimes PROVE f[cpu] \in Int
      OBVIOUS
    <3>1. cpuTimes[cpu] \in CpuEntries
      BY MetHolds DEF Met
    <3>2. cpuTimes[cpu].totalDomTime \in [Slots -> Times]
      BY <3>1 DEF CpuEntries
    <3>3. cpuTimes[cpu].totalDomTime[slot] \in Times
      BY <3>2
    <3>. QED
      BY <3>3 DEF Times
  <2>3. DOMAIN f = DOMAIN cpuTimes
    OBVIOUS
  <2>4. SumFunctionOnSet(f, DOMAIN cpuTimes) \in Int
    <3>. HIDE DEF f
    <3>. QED
      BY <2>1, <2>2, SumType
  <2>5. TotalDomTime(slot) = SumFunctionOnSet(f, DOMAIN cpuTimes) % NsModulus
    BY DEF TotalDomTime, SumFunction
  <2>. QED
    BY <2>4, <2>5, DivMod
<1>. DEFINE g == [e \in Entries |-> cpuTimes[e[1]].vcpuTimes[e[2]]]
<1>2. \A e \in Entries : g[e] \in Int
  BY EntriesFinite DEF Times
<1>3. \A es : VcpuTime(es) = SumFunctionOnSet(g, es)
  BY DEF VcpuTime
<1>4. ASSUME NEW es \in SUBSET Entries PROVE VcpuTime(es) \in Int
  <2>1. IsFiniteSet(es)
    BY EntriesFinite, FS_Subset
  <2>. HIDE DEF g
  <2>2. \A e \in es : g[e] \in Int
    BY <1>2
  <2>3. SumFunctionOnSet(g, es) \in Int
    BY <2>1, <2>2, SumType
  <2>. QED
    BY <1>3, <2>3
<1>5. VcpuTime({}) = 0
  <2>. HIDE DEF g
  <2>. QED
    BY <1>3, SumUnfold, FS_EmptySet
<1>. QED
  BY <1>1, <1>4, <1>5

LEMMA TableHolds == SharingInv /\ TableInv => TableExactIfIdsFit
<1>. SUFFICES ASSUME SharingInv, TableInv, Printed, \A v \in VcpusMet : v[2] < MaxNumVcpus
              PROVE  /\ ~ table.overrun
                     /\ \A slot \in Slots : DomColumnHolds(slot)
                     /\ \A v \in VcpusMet : VcpuColumnHolds(v)
  BY DEF TableExactIfIdsFit
<1>1. table = [overrun |-> ~ (CellsUsed \subseteq Cells), cells |-> TotalDomRuntime]
  BY DEF Printed, TableInv, Table
<1>2. ~ table.overrun /\ table.cells = TotalDomRuntime
  BY <1>1, TableCells
<1>. DEFINE f == [slot \in Slots |-> TotalDomTime(slot)]
<1>3. ASSUME NEW cell \in Cells
      PROVE  TotalDomRuntime[cell] =
               Plus(SumFunctionOnSet(f, {slot \in Slots : Cell(slot, 0) = cell}),
                    VcpuTime({e \in Entries : VcpuCell(e) = cell}))
  BY DEF TotalDomRuntime
<1>4. ASSUME NEW slot \in Slots PROVE DomColumnHolds(slot)
  <2>1. f[slot] = TotalDomTime(slot) /\ f[slot] \in Int /\ f[slot] \in Times
    BY TableTimes DEF Times
  <2>2. SumFunctionOnSet(f, {slot}) = f[slot]
    <3>. HIDE DEF f
    <3>. QED
      BY <2>1, SumOfOne
  <2>. HIDE DEF f
  <2>3. /\ Cell(slot, 0) \in Cells
        /\ {s \in Slots : Cell(s, 0) = Cell(slot, 0)} = {slot}
        /\ {e \in Entries : VcpuCell(e) = Cell(slot, 0)} = {}
    BY TableCells
  <2>4. TotalDomRuntime[Cell(slot, 0)] = Plus(SumFunctionOnSet(f, {slot}), VcpuTime({}))
    BY <1>3, <2>3
  <2>5. TotalDomRuntime[Cell(slot, 0)] = Plus(TotalDomTime(slot), 0)
    BY <2>1, <2>2, <2>4, TableTimes
  <2>6. Plus(TotalDomTime(slot), 0) = TotalDomTime(slot)
    BY <2>1, SmallRemainder
  <2>. QED
    BY <1>2, <2>5, <2>6 DEF DomColumnHolds
<1>5. ASSUME NEW v \in VcpusMet PROVE VcpuColumnHolds(v)
  <2>. DEFINE es == {e \in Entries : e[2] = v}
              cell == Cell(v[1], v[2] + 1)
  <2>1. /\ cell \in Cells
        /\ {s \in Slots : Cell(s, 0) = cell} = {}
        /\ {e \in Entries : VcpuCell(e) = cell} = es
    BY TableCells
  <2>2. SumFunctionOnSet(f, {}) = 0
    BY SumUnfold, FS_EmptySet
  <2>3. VcpuTime(es) \in Int
    <3>1. es \in SUBSET Entries
      OBVIOUS
    <3>. QED
      BY <3>1, TableTimes
  <2>. HIDE DEF f, es, cell
  <2>4. TotalDomRuntime[cell] = Plus(0, VcpuTime(es))
    BY <1>3, <2>1, <2>2
  <2>5. TotalDomRuntime[cell] = VcpuTime(es) % NsModulus
    BY <2>3, <2>4 DEF Plus
  <2>. QED
    BY <1>2, <2>5 DEF VcpuColumnHolds, es, cell
<1>. QED
  BY <1>2, <1>4, <1>5

(* The cells of the table are times, whatever was written where. *)
LEMMA TableTypes ==
    ASSUME SharingInv, TableInv
    PROVE  table \in {NoTable} \cup [overrun : BOOLEAN, cells : [Cells -> Times]]
<1>. DEFINE f == [slot \in Slots |-> TotalDomTime(slot)]
<1>1. IsFiniteSet(Slots)
  BY FS_Interval, DomsAssumption DEF Slots
<1>2. ASSUME NEW cell \in Cells
      PROVE  Plus(SumFunctionOnSet(f, {slot \in Slots : Cell(slot, 0) = cell}),
                  VcpuTime({e \in Entries : VcpuCell(e) = cell})) \in Times
  <2>. DEFINE S == {slot \in Slots : Cell(slot, 0) = cell}
              es == {e \in Entries : VcpuCell(e) = cell}
  <2>1. IsFiniteSet(S) /\ es \in SUBSET Entries
    BY <1>1, FS_Subset
  <2>2. \A slot \in S : f[slot] \in Int
    BY TableTimes DEF Times
  <2>. HIDE DEF f, S, es
  <2>3. SumFunctionOnSet(f, S) \in Int
    BY <2>1, <2>2, SumType
  <2>4. VcpuTime(es) \in Int
    BY <2>1, TableTimes
  <2>5. (SumFunctionOnSet(f, S) + VcpuTime(es)) % NsModulus \in Times
    <3>1. SumFunctionOnSet(f, S) + VcpuTime(es) \in Int
      BY <2>3, <2>4
    <3>. QED
      BY <3>1, DivMod
  <2>. QED
    BY <2>5 DEF Plus, S, es
<1>3. TotalDomRuntime \in [Cells -> Times]
  BY <1>2 DEF TotalDomRuntime
<1>4. (~ (CellsUsed \subseteq Cells)) \in BOOLEAN
  OBVIOUS
<1>. QED
  BY <1>3, <1>4 DEF TableInv, Table

LEMMA SharingTypes == SharingInv /\ TableInv => TypeOK
<1>. SUFFICES ASSUME SharingInv, TableInv PROVE TypeOK
  OBVIOUS
<1>1. ASSUME NEW cpu \in DOMAIN cpuTimes
      PROVE  LET c == cpuTimes[cpu]
             IN /\ c.prevNs \in 1 .. MaxNs /\ c.prev \in VcpuIds
                /\ c.totalCpuTime \in Times
                /\ c.totalDomTime \in [Slots -> Times]
                /\ DOMAIN c.vcpuTimes \subseteq {Entry(v) : v \in VcpuIds}
                /\ \A e \in DOMAIN c.vcpuTimes : c.vcpuTimes[e] \in Times
  <2>. DEFINE c == cpuTimes[cpu]
  <2>1. c \in CpuEntries
    BY <1>1, MetHolds DEF Met
  <2>. HIDE DEF c
  <2>2. c.vcpuTimes \in VcpuTables
    BY <2>1 DEF CpuEntries
  <2>. QED
    BY <2>1, <2>2, TableIs DEF CpuEntries, Ids, c
<1>. QED
  BY <1>1, TableTypes DEF TypeOK, SharingInv, FeedInv

-----------------------------------------------------------------------------
(* The switches of a CPU are in the order of time: any of their stints     *)
(* together take no negative time, and no longer than all of them.         *)
Ordered(h) == \A S \in SUBSET StintsIn(h) : /\ TimeIn(h, S) \in Nat
                                             /\ TimeIn(h, S) <= h[Len(h)].ns - h[1].ns

OrderInv == \A cpu \in Cpus :
              LET h == switches[cpu]
              IN h # << >> => h[Len(h)].ns <= Now /\ Ordered(h)

LEMMA OrderedAdded ==
    ASSUME NEW h \in Seq(Switched), NEW sw \in Switched,
           h # << >> => Ordered(h) /\ h[Len(h)].ns <= sw.ns
    PROVE  LET g == Append(h, sw)
           IN g # << >> /\ g[Len(g)].ns = sw.ns /\ Ordered(g)
<1>. DEFINE g == Append(h, sw)
            n == Len(h)
<1>1. g # << >> /\ Len(g) = n + 1 /\ g[Len(g)] = sw /\ n \in Nat
  OBVIOUS
<1>2. sw.ns \in Nat
  BY FeedAssumption DEF Switched
<1>3. CASE h = << >>
  <2>1. n = 0 /\ g[1] = sw /\ StintsIn(g) = {}
    BY <1>1, <1>3 DEF StintsIn
  <2>2. TimeIn(g, {}) = 0
    BY SumUnfold, FS_EmptySet DEF TimeIn
  <2>3. g[Len(g)].ns - g[1].ns = 0
    BY <1>1, <1>2, <2>1
  <2>. HIDE DEF g
  <2>5. Ordered(g)
    <3>. SUFFICES ASSUME NEW S \in SUBSET StintsIn(g)
                  PROVE  TimeIn(g, S) \in Nat /\ TimeIn(g, S) <= g[Len(g)].ns - g[1].ns
      BY DEF Ordered
    <3>1. S = {}
      BY <2>1
    <3>2. TimeIn(g, S) = 0
      BY <2>2, <3>1
    <3>. QED
      BY <2>3, <3>2
  <2>. QED
    BY <1>1, <2>5 DEF g
<1>4. CASE h # << >>
  <2>1. /\ n \in Nat \ {0} /\ n \notin StintsIn(h) /\ StintsIn(g) = StintsIn(h) \cup {n}
        /\ g[1] = h[1]
    BY <1>4, StintAdded
  <2>2. h[1].ns \in Nat /\ h[n].ns \in Nat /\ h[n].ns <= sw.ns
    <3>1. h[1] \in Switched /\ h[n] \in Switched
      BY <1>4
    <3>2. \A x \in Switched : x.ns \in Nat
      BY FeedAssumption DEF Switched
    <3>. QED
      BY <1>4, <3>1, <3>2
  <2>3. ASSUME NEW S \in SUBSET StintsIn(g)
        PROVE  TimeIn(g, S) \in Nat /\ TimeIn(g, S) <= sw.ns - h[1].ns
    <3>. DEFINE R == S \ {n}
    <3>1. R \in SUBSET StintsIn(h) /\ (S = R \/ S = R \cup {n})
      BY <2>1
    <3>2. TimeIn(h, R) \in Nat /\ TimeIn(h, R) <= h[n].ns - h[1].ns
      BY <1>4, <3>1 DEF Ordered
    <3>. HIDE DEF R
    <3>3. TimeIn(g, R) = TimeIn(h, R) /\ TimeIn(g, R \cup {n}) = TimeIn(h, R) + (sw.ns - h[n].ns)
      BY <1>4, <3>1, StintsTime
    <3>. HIDE DEF g, n
    <3>4. TimeIn(g, R) \in Nat /\ TimeIn(g, R) <= sw.ns - h[1].ns
      BY <1>2, <2>2, <3>2, <3>3
    <3>5. TimeIn(g, R \cup {n}) \in Nat /\ TimeIn(g, R \cup {n}) <= sw.ns - h[1].ns
      BY <1>2, <2>2, <3>2, <3>3
    <3>. QED
      BY <3>1, <3>4, <3>5
  <2>. HIDE DEF g
  <2>4. Ordered(g)
    BY <1>1, <2>1, <2>3 DEF Ordered
  <2>. QED
    BY <1>1, <2>4 DEF g
<1>. QED
  BY <1>3, <1>4

LEMMA OrderStep == SharingInv /\ OrderInv /\ [Next]_sharingVars => OrderInv'
<1>. SUFFICES ASSUME SharingInv, OrderInv, [Next]_sharingVars PROVE OrderInv'
  OBVIOUS
<1>1. FeedInv /\ Now \in Nat /\ switches \in [Cpus -> Seq(Switched)]
  BY NowType DEF SharingInv, FeedInv
<1>2. ASSUME switches' = switches, Now' \in Nat, Now <= Now' PROVE OrderInv'
  <2>. SUFFICES ASSUME NEW cpu \in Cpus, switches[cpu] # << >>
                PROVE  /\ switches[cpu][Len(switches[cpu])].ns <= Now'
                       /\ Ordered(switches[cpu])
    BY <1>2 DEF OrderInv
  <2>1. switches[cpu][Len(switches[cpu])].ns \in Nat
    <3>1. switches[cpu] \in Seq(Switched)
      BY <1>1
    <3>2. switches[cpu][Len(switches[cpu])] \in Switched
      BY <3>1
    <3>. QED
      BY <3>2, FeedAssumption DEF Switched
  <2>. QED
    BY <1>1, <1>2, <2>1 DEF OrderInv
<1>3. ASSUME NEW cpu \in Cpus, NEW id \in EventIds, NEW ns \in 1 .. MaxNs,
             Record(cpu, id, ns)
      PROVE  OrderInv'
  <2>1. /\ event'.cpu = cpu /\ event'.ns = ns /\ Now <= ns /\ Now' = ns /\ ns \in Nat
    BY <1>1, <1>3, FeedOK, FeedAssumption DEF Record
  <2>2. CASE switches' = switches
    BY <1>2, <2>1, <2>2
  <2>3. CASE switches' = Nothing
    BY <2>3 DEF OrderInv, Nothing
  <2>4. ASSUME NEW v \in VcpuIds, NEW w \in VcpuIds, SeeSwitch(v, w) PROVE OrderInv'
    <3>. DEFINE sw == [from |-> v, to |-> w, ns |-> ns]
                h == switches[cpu]
    <3>1. switches' = [switches EXCEPT ![cpu] = Append(@, sw)]
      BY <2>1, <2>4 DEF SeeSwitch
    <3>2. h \in Seq(Switched) /\ sw \in Switched /\ sw.ns = ns
      BY <1>1 DEF Switched
    <3>3. h # << >> => Ordered(h) /\ h[Len(h)].ns <= sw.ns
      <4>. SUFFICES ASSUME h # << >> PROVE Ordered(h) /\ h[Len(h)].ns <= ns
        BY <3>2
      <4>1. Ordered(h) /\ h[Len(h)].ns <= Now
        BY DEF OrderInv
      <4>2. h[Len(h)] \in Switched
        BY <3>2
      <4>3. h[Len(h)].ns \in Nat
        BY <4>2, FeedAssumption DEF Switched
      <4>. QED
        BY <1>1, <2>1, <4>1, <4>3
    <3>. HIDE DEF h, sw
    <3>4. LET g == Append(h, sw) IN g # << >> /\ g[Len(g)].ns = sw.ns /\ Ordered(g)
      BY <3>2, <3>3, OrderedAdded
    <3>. SUFFICES ASSUME NEW c \in Cpus, switches'[c] # << >>
                  PROVE  /\ switches'[c][Len(switches'[c])].ns <= Now'
                         /\ Ordered(switches'[c])
      BY DEF OrderInv
    <3>5. CASE c = cpu
      <4>1. switches'[c] = Append(h, sw)
        BY <1>1, <3>1, <3>5 DEF h
      <4>. QED
        BY <2>1, <3>2, <3>4, <4>1
    <3>6. CASE c # cpu
      <4>1. switches'[c] = switches[c]
        BY <1>1, <3>1, <3>6
      <4>2. switches[c] \in Seq(Switched) /\ switches[c] # << >>
        BY <1>1, <4>1
      <4>3. switches[c][Len(switches[c])] \in Switched
        BY <4>2
      <4>4. switches[c][Len(switches[c])].ns \in Nat
        BY <4>3, FeedAssumption DEF Switched
      <4>5. Ordered(switches[c]) /\ switches[c][Len(switches[c])].ns <= Now
        BY <4>2 DEF OrderInv
      <4>. QED
        BY <1>1, <2>1, <4>1, <4>4, <4>5
    <3>. QED
      BY <3>5, <3>6
  <2>. QED
    BY <1>3, <2>2, <2>3, <2>4 DEF Record, LostRecordsHandler, ResetData
<1>4. CASE Finalize \/ UNCHANGED sharingVars
  <2>1. UNCHANGED feedVars /\ switches' = switches
    BY <1>4 DEF Finalize, sharingVars
  <2>. QED
    BY <1>1, <1>2, <2>1, FeedSame
<1>. QED
  BY <1>3, <1>4 DEF Next

(* More stints take no less time. *)
LEMMA MoreStints ==
    ASSUME NEW h, Ordered(h), NEW S \in SUBSET StintsIn(h), NEW T \in SUBSET S,
           IsFiniteSet(S), \A i \in S : h[i+1].ns - h[i].ns \in Int
    PROVE  TimeIn(h, T) <= TimeIn(h, S)
<1>. DEFINE f == [i \in StintsIn(h) |-> h[i+1].ns - h[i].ns]
            R == S \ T
<1>1. /\ IsFiniteSet(R) /\ IsFiniteSet(T) /\ T \cap R = {} /\ T \cup R = S
      /\ R \in SUBSET StintsIn(h) /\ T \in SUBSET StintsIn(h)
  BY FS_Subset
<1>2. \A i \in T \cup R : f[i] \in Int
  BY <1>1
<1>3. TimeIn(h, R) \in Nat /\ TimeIn(h, T) \in Nat
  BY <1>1 DEF Ordered
<1>. HIDE DEF f, R
<1>4. SumFunctionOnSet(f, T \cup R) = SumFunctionOnSet(f, T) + SumFunctionOnSet(f, R)
  BY <1>1, <1>2, SumUnion
<1>5. TimeIn(h, S) = TimeIn(h, T) + TimeIn(h, R)
  BY <1>1, <1>4 DEF TimeIn, f
<1>. QED
  BY <1>3, <1>5

-----------------------------------------------------------------------------
(* The lists, the times and the table that is printed keep their types:    *)
(* sums stay within unsigned 64 bits, a CPU's entry only has VCPUs that    *)
(* occur, and every cell of the table has a time.                          *)
THEOREM SharingTypeCorrect == Spec => []TypeOK
<1>1. Init => TableInv
  BY DEF Init, TableInv
<1>. QED
  BY <1>1, SharingInit, SharingStep, TableStep, SharingTypes, PTL DEF Spec

(* For a CPU whose trace is complete the domains' times are exact, however *)
(* many stints there are and whatever run time was reported.               *)
THEOREM SharingTimesExact == Spec => []TimesExact
<1>1. SharingInv => TimesExact
  <2>. SUFFICES ASSUME SharingInv, NEW cpu \in DOMAIN cpuTimes, Complete(cpu),
                       NEW slot \in Slots
                PROVE  cpuTimes[cpu].totalDomTime[slot] =
                         Plus(TimeOf(cpu, {i \in Stints(cpu) : Ran(cpu, i)[1] = slot}),
                              IF slot = First(cpu)[1] THEN Seed(cpu) ELSE 0)
    BY DEF TimesExact
  <2>1. Met(cpu)
    BY MetHolds
  <2>2. CompleteIn(switches[cpu])
    BY DEF Complete, CompleteIn
  <2>3. Exact(cpuTimes[cpu], switches[cpu], Seed(cpu)) /\ First(cpu) = FirstIn(switches[cpu])
    BY <2>1 DEF Met, Seed, LastReport, First, FirstIn
  <2>4. TimeOf(cpu, {i \in Stints(cpu) : Ran(cpu, i)[1] = slot})
          = TimeIn(switches[cpu], SlotStints(switches[cpu], slot))
    BY DEF TimeOf, TimeIn, Stints, StintsIn, Length, Ran, RanIn, SlotStints
  <2>. QED
    BY <2>2, <2>3, <2>4 DEF Exact
<1>. QED
  BY <1>1, SharingInit, SharingStep, PTL DEF Spec

(* A VCPU is given no time in which it did not run, and loses no more than *)
(* its first stint on each CPU.                                            *)
THEOREM SharingVcpuTimesWithinStints == Spec => []VcpuTimesWithinStints
<1>1. SharingInv /\ OrderInv => VcpuTimesWithinStints
  <2>. SUFFICES ASSUME SharingInv, OrderInv, NEW cpu \in DOMAIN cpuTimes, Complete(cpu),
                       NEW e \in DOMAIN cpuTimes[cpu].vcpuTimes
                PROVE  LET own == Minus(cpuTimes[cpu].vcpuTimes[e],
                                        IF e = First(cpu) THEN Seed(cpu) ELSE 0)
                           mine == {i \in Stints(cpu) : Ran(cpu, i) = e}
                       IN /\ TimeOf(cpu, mine \ Missed(cpu)) <= own
                          /\ own <= TimeOf(cpu, mine)
    BY DEF VcpuTimesWithinStints
  <2>. DEFINE h == switches[cpu]
              seed == IF e = First(cpu) THEN Seed(cpu) ELSE 0
              own == Minus(cpuTimes[cpu].vcpuTimes[e], seed)
              all == {i \in StintsIn(h) : RanIn(h, i) = e}
  <2>1. Met(cpu) /\ cpu \in Cpus /\ h # << >> /\ h \in Seq(Switched)
    BY MetHolds DEF Met, SharingInv
  <2>2. CompleteIn(h)
    BY DEF Complete, CompleteIn
  <2>3. Exact(cpuTimes[cpu], h, Seed(cpu)) /\ First(cpu) = FirstIn(h)
    BY <2>1 DEF Met, Seed, LastReport, First, FirstIn
  <2>4. Missed(cpu) = MissedIn(h) /\ Stints(cpu) = StintsIn(h)
        /\ \A i : Ran(cpu, i) = RanIn(h, i)
    BY DEF Missed, MissedIn, Stints, StintsIn, Ran, RanIn, First, FirstIn
  <2>5. \A S : TimeOf(cpu, S) = TimeIn(h, S)
    BY DEF TimeOf, TimeIn, Stints, StintsIn, Length
  <2>6. cpuTimes[cpu].vcpuTimes[e] = Plus(TimeIn(h, VcpuStints(h, e)), seed)
    BY <2>2, <2>3 DEF Exact
  <2>7. Ordered(h)
    BY <2>1 DEF OrderInv
  <2>8. seed \in Int
    <3>1. Seed(cpu) = LastReport(reports[cpu], FirstIn(switches[cpu])[1])
      BY DEF Seed, First, FirstIn, LastReport
    <3>2. Seed(cpu) \in Times
      BY <2>1, <3>1, ReportInTimes
    <3>. QED
      BY <3>2, NsModulusAssumption DEF Times
  <2>9. VcpuStints(h, e) = all \ MissedIn(h) /\ VcpuStints(h, e) \in SUBSET all
        /\ all \in SUBSET StintsIn(h)
    BY DEF VcpuStints
  <2>10. \A i \in StintsIn(h) : h[i] \in Switched /\ h[i+1] \in Switched
    BY <2>1 DEF StintsIn
  <2>11. 1 \in 1 .. Len(h) /\ Len(h) \in 1 .. Len(h)
    BY <2>1
  <2>12. h[1].ns \in 1 .. MaxNs /\ h[Len(h)].ns \in 1 .. MaxNs
    <3>1. h[1] \in Switched /\ h[Len(h)] \in Switched
      BY <2>1, <2>11
    <3>. QED
      BY <3>1 DEF Switched
  <2>. HIDE DEF seed, h, all
  <2>13. IsFiniteSet(all) /\ \A i \in all : h[i+1].ns - h[i].ns \in Int
    <3>1. IsFiniteSet(StintsIn(h))
      BY <2>1, FS_Interval DEF StintsIn
    <3>2. \A i \in all : h[i].ns \in 1 .. MaxNs /\ h[i+1].ns \in 1 .. MaxNs
      BY <2>9, <2>10 DEF Switched
    <3>. QED
      BY <2>9, <3>1, <3>2, FS_Subset
  <2>. DEFINE t == TimeIn(h, VcpuStints(h, e))
  <2>14. t <= TimeIn(h, all)
    BY <2>7, <2>9, <2>13, MoreStints
  <2>15. t \in Nat /\ t < NsModulus
    <3>1. VcpuStints(h, e) \in SUBSET StintsIn(h)
      BY <2>9
    <3>2. t \in Nat /\ t <= h[Len(h)].ns - h[1].ns
      BY <2>7, <3>1 DEF Ordered
    <3>. QED
      BY <2>12, <3>2, StampsFitAssumption, FeedAssumption, NsModulusAssumption
  <2>. HIDE DEF t
  <2>16. own = t
    <3>1. Minus(Plus(t, seed), seed) = ((t + seed) + (-seed)) % NsModulus
      <4>1. (((t + seed) % NsModulus) + (-seed)) % NsModulus = ((t + seed) + (-seed)) % NsModulus
        BY <2>8, <2>15, WrapEarly
      <4>2. ((t + seed) % NsModulus) \in Int
        BY <2>8, <2>15, DivMod DEF Times
      <4>3. ((t + seed) % NsModulus) + (-seed) = ((t + seed) % NsModulus) - seed
        BY <2>8, <4>2
      <4>. QED
        BY <4>1, <4>3 DEF Minus, Plus
    <3>2. (t + seed) + (-seed) = t
      BY <2>8, <2>15
    <3>3. t % NsModulus = t
      BY <2>15, SmallRemainder, NsModulusAssumption DEF Times
    <3>. QED
      BY <2>6, <3>1, <3>2, <3>3 DEF t
  <2>17. {i \in Stints(cpu) : Ran(cpu, i) = e} = all
    BY <2>4 DEF all
  <2>18. TimeOf(cpu, all \ Missed(cpu)) = t /\ TimeOf(cpu, all) = TimeIn(h, all)
    BY <2>4, <2>5, <2>9 DEF t
  <2>. QED
    BY <2>14, <2>15, <2>16, <2>17, <2>18 DEF seed
<1>2. Init => OrderInv
  BY DEF Init, OrderInv, Nothing
<1>. QED
  BY <1>1, <1>2, SharingInit, SharingStep, OrderStep, PTL DEF Spec

(* A CPU settles its time in order and counts no moment twice, whatever    *)
(* switches are missing or contradict others: the analysis implements the  *)
(* ledger.                                                                 *)
THEOREM SharingImplementsLedger == Spec => ImplementsLedger
<1>1. SharingInv /\ [Next]_sharingVars => SharingInv' /\ [Ledger!Next]_(Ledger!ledgerVars)
  BY SharingStep
<1>. QED
  BY <1>1, SharingInit, PTL DEF Spec, ImplementsLedger, Ledger!Spec

(* The table that is printed has the total of every domain and of every    *)
(* VCPU, as long as no VCPU id reaches the largest number of VCPU entries  *)
(* of a domain: no other row is added to, and nothing written outside.     *)
THEOREM SharingTableExact == Spec => []TableExactIfIdsFit
<1>1. Init => TableInv
  BY DEF Init, TableInv
<1>. QED
  BY <1>1, SharingInit, SharingStep, TableStep, TableHolds, PTL DEF Spec

(* What a CPU has counted fits in the time between its first switch and    *)
(* the last one it counted up to: no moment is counted twice.              *)
THEOREM SharingCountsOnce == Spec => []Ledger!CountedOnce
<1>1. SharingInv => Ledger!CountedOnce
  <2>. SUFFICES ASSUME SharingInv, NEW cpu \in DOMAIN cpuTimes
                PROVE  /\ Minus(cpuTimes[cpu].totalCpuTime, Seed(cpu)) >= 0
                       /\ Minus(cpuTimes[cpu].totalCpuTime, Seed(cpu))
                            <= cpuTimes[cpu].prevNs - switches[cpu][1].ns
                       /\ cpuTimes[cpu].prevNs <= Now
    BY DEF Ledger!CountedOnce, Now
  <2>1. Met(cpu)
    BY MetHolds
  <2>2. Seed(cpu) = LastReport(reports[cpu], FirstIn(switches[cpu])[1])
    BY DEF Seed, First, FirstIn, LastReport
  <2>. DEFINE c == cpuTimes[cpu]
              seed == LastReport(reports[cpu], FirstIn(switches[cpu])[1])
  <2>3. Minus(c.totalCpuTime, seed) \in Times
    <3>1. c.totalCpuTime \in Times /\ cpu \in Cpus
      BY <2>1, MetHolds DEF Met, CpuEntries
    <3>2. seed \in Times
      BY <3>1, ReportInTimes
    <3>. HIDE DEF seed
    <3>3. c.totalCpuTime \in Int /\ seed \in Int
      BY <3>1, <3>2, NsModulusAssumption DEF Times
    <3>. QED
      BY <3>3, MinusTime
  <2>. HIDE DEF seed
  <2>4. Minus(c.totalCpuTime, seed) >= 0
    BY <2>3, NsModulusAssumption DEF Times
  <2>. QED
    BY <2>1, <2>2, <2>4 DEF Met, Metered, seed
<1>. QED
  BY <1>1, SharingInit, SharingStep, PTL DEF Spec
=============================================================================
