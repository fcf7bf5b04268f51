-------------------------- MODULE XenDomTimeProofs --------------------------
(***************************************************************************)
(* The times of xen_dom_time_sharing for any number of CPUs and slots,     *)
(* logs of any length and whatever new entries held: no moment of a CPU    *)
(* counts twice, and a complete trace is counted exactly.                  *)
(*                                                                         *)
(* What one CPU's two list entries amount to are four values: the stamp x  *)
(* of the last exit to Xen, the stamps g of the last exits to each slot,   *)
(* Xen's time xt and the slots' times dt.  The lemmas about them do not    *)
(* mention the state; h is what was seen of the CPU.                       *)
(***************************************************************************)
EXTENDS XenDomTime, FeedTheorems

XenIds == {ExitToXen(slot) : slot \in Slots}
ExitIds == XenIds \cup {ExitToGuest(slot) : slot \in Slots}
Exits == [id : ExitIds, ns : 1 .. MaxNs]

Stamps == 0 .. MaxNs
Largest(g) == Max({g[slot] : slot \in Slots})
Upto(x, g) == Max({x, Largest(g)})

(* The entry that the last exit e was about has the later stamp. *)
LastIs(x, g, e) ==
    \/ e.id \in XenIds /\ x = e.ns /\ Largest(g) < x
    \/ \E slot \in Slots : e.id = ExitToGuest(slot) /\ g[slot] = e.ns /\ x < g[slot]

Exact(x, g, xt, dt, h) ==
    Alternate(h) =>
      /\ LastIs(x, g, h[Len(h)])
      /\ xt = TimeAfter(h, XenIds)
      /\ \A slot \in Slots : dt[slot] = TimeAfter(h, {ExitToGuest(slot)})

(* The stamps of exits to guests are settled but for the latest one, and   *)
(* the time counted fits in the time settled.                              *)
Known(x, g, xt, dt, h, now) ==
    /\ h \in Seq(Exits) /\ h # << >>
    /\ x \in Stamps /\ g \in [Slots -> Stamps]
    /\ xt \in Times /\ dt \in [Slots -> Times]
    /\ h[1].ns <= Upto(x, g) /\ Upto(x, g) <= now
    /\ xt + SumFunction(dt) <= Upto(x, g) - h[1].ns
    /\ \A slot \in Slots : g[slot] = Largest(g) \/ g[slot] <= x
    /\ Exact(x, g, xt, dt, h)

-----------------------------------------------------------------------------
LEMMA SlotsFinite == IsFiniteSet(Slots) /\ Slots # {}
<1>1. MaxDoms - 1 \in Nat /\ 0 \in 0 .. MaxDoms - 1
  BY DomsAssumption
<1>. QED
  BY <1>1, FS_Interval DEF Slots

LEMMA SlotIsSlot == ASSUME NEW dom \in Doms PROVE SlotOf(dom) \in Slots
BY DomsAssumption DEF SlotOf, Slots

(* The times of a CPU that exit_to_xen has not met, and of one it has *)
LEMMA DomTimeIs ==
    ASSUME NEW cpu, NEW slot
    PROVE  /\ cpu \notin DOMAIN domRuntime => DomTime(cpu, slot) = 0
           /\ cpu \in DOMAIN domRuntime =>
                DomTime(cpu, slot) = Minus(domRuntime[cpu].runtime[slot], garbage[cpu][slot])
           /\ cpu \in DOMAIN domRuntime' =>
                DomTime(cpu, slot)' = Minus(domRuntime'[cpu].runtime[slot], garbage'[cpu][slot])
<1>1. Minus(0, 0) = 0
  BY NsModulusAssumption, MinusExact
<1>. QED
  BY <1>1 DEF DomTime, Printed, LeftOver

LEMMA LargestIs ==
    ASSUME NEW g \in [Slots -> Stamps]
    PROVE  /\ Largest(g) \in Stamps
           /\ \A slot \in Slots : g[slot] <= Largest(g)
           /\ \E slot \in Slots : g[slot] = Largest(g)
<1>. DEFINE S == {g[slot] : slot \in Slots}
<1>1. S \subseteq Int /\ S # {} /\ S \subseteq Stamps
  BY SlotsFinite DEF Stamps
<1>2. IsFiniteSet(S)
  BY SlotsFinite, FiniteRange
<1>3. /\ \A slot \in Slots : g[slot] \in S
      /\ \A s \in S : \E slot \in Slots : g[slot] = s
  OBVIOUS
<1>4. Largest(g) = Max(S)
  BY DEF Largest
<1>. HIDE DEF S
<1>5. PICK s \in S : \A y \in S : y <= s
  BY <1>1, <1>2, LargestElement
<1>6. Max(S) = s
  BY <1>1, <1>5, ChosenLargest DEF Max
<1>. QED
  BY <1>1, <1>3, <1>4, <1>5, <1>6

(* The later of the two stamps *)
LEMMA UptoIs ==
    ASSUME NEW x \in Stamps, NEW g \in [Slots -> Stamps]
    PROVE  /\ Upto(x, g) \in Stamps /\ x \in Nat /\ Largest(g) \in Nat
           /\ Upto(x, g) = IF x < Largest(g) THEN Largest(g) ELSE x
<1>1. x \in Nat /\ Largest(g) \in Nat /\ Largest(g) \in Stamps
  BY LargestIs, FeedAssumption DEF Stamps
<1>. DEFINE S == {x, Largest(g)}
            y == IF x < Largest(g) THEN Largest(g) ELSE x
<1>2. S \subseteq Int /\ y \in S /\ \A z \in S : z <= y
  BY <1>1
<1>3. Upto(x, g) = Max(S)
  BY DEF Upto
<1>. HIDE DEF S, y
<1>4. Max(S) = y
  BY <1>2, ChosenLargest DEF Max
<1>. QED
  BY <1>1, <1>3, <1>4 DEF y

(* The sum of the domains' times, and with one of them changed *)
LEMMA SumIsNat ==
    ASSUME NEW dt \in [Slots -> Times]
    PROVE  /\ SumFunction(dt) \in Nat
           /\ \A slot \in Slots : dt[slot] \in Nat /\ dt[slot] <= SumFunction(dt)
<1>1. DOMAIN dt = Slots /\ \A slot \in Slots : dt[slot] \in Nat /\ dt[slot] \in Int
  BY NsModulusAssumption DEF Times
<1>2. SumFunction(dt) = SumFunctionOnSet(dt, Slots)
  BY <1>1 DEF SumFunction
<1>3. SumFunctionOnSet(dt, Slots) \in Nat
  BY <1>1, SlotsFinite, SumType
<1>4. ASSUME NEW slot \in Slots PROVE dt[slot] <= SumFunction(dt)
  <2>1. SumFunctionOnSet(dt, Slots) = dt[slot] + SumFunctionOnSet(dt, Slots \ {slot})
    BY <1>1, SlotsFinite, SumRemove
  <2>2. IsFiniteSet(Slots \ {slot})
    BY SlotsFinite, FS_Subset
  <2>3. SumFunctionOnSet(dt, Slots \ {slot}) \in Nat
    BY <1>1, <2>2, SumType
  <2>. QED
    BY <1>1, <1>2, <2>1, <2>3
<1>. QED
  BY <1>1, <1>2, <1>3, <1>4

LEMMA SumChanged ==
    ASSUME NEW dt \in [Slots -> Times], NEW e \in [Slots -> Times], NEW slot \in Slots,
           \A y \in Slots : y # slot => e[y] = dt[y]
    PROVE  SumFunction(e) = SumFunction(dt) + (e[slot] - dt[slot])
<1>1. /\ DOMAIN dt = Slots /\ DOMAIN e = Slots
      /\ \A y \in Slots : dt[y] \in Int /\ e[y] \in Int
  BY NsModulusAssumption DEF Times
<1>2. SumFunctionOnSet(e, Slots) = SumFunctionOnSet(dt, Slots) + (e[slot] - dt[slot])
  BY <1>1, SlotsFinite, SumUpdate
<1>. QED
  BY <1>1, <1>2 DEF SumFunction

LEMMA SumOfZeros == SumFunction([slot \in Slots |-> 0]) = 0
<1>. DEFINE z == [slot \in Slots |-> 0]
            Bad == {S \in SUBSET Slots : SumFunctionOnSet(z, S) # 0}
<1>1. \A slot \in Slots : z[slot] = 0
  OBVIOUS
<1>2. SumFunction(z) = SumFunctionOnSet(z, Slots)
  BY DEF SumFunction
<1>3. Bad = {}
  <2>. SUFFICES ASSUME Bad # {} PROVE FALSE
    OBVIOUS
  <2>1. Bad \in SUBSET (SUBSET Slots) /\ IsFiniteSet(Slots)
    BY SlotsFinite
  <2>2. PICK S \in Bad : \A U \in Bad : U \subseteq S => U = S
    <3>. HIDE DEF Bad
    <3>. QED
      BY <2>1, MinimalSubset
  <2>3. S \in SUBSET Slots /\ SumFunctionOnSet(z, S) # 0 /\ IsFiniteSet(S)
    BY <2>1, FS_Subset
  <2>4. S # {}
    BY <2>3, SumUnfold
  <2>5. SumFunctionOnSet(z, S) = z[Pick(S)] + SumFunctionOnSet(z, S \ {Pick(S)}) /\ Pick(S) \in S
    BY <2>3, <2>4, SumUnfold, PickIn
  <2>6. S \ {Pick(S)} \notin Bad
    BY <2>2, <2>5
  <2>7. SumFunctionOnSet(z, S \ {Pick(S)}) = 0 /\ z[Pick(S)] = 0
    BY <1>1, <2>3, <2>5, <2>6
  <2>. HIDE DEF z
  <2>. QED
    BY <2>3, <2>5, <2>7
<1>. QED
  BY <1>2, <1>3

-----------------------------------------------------------------------------
(* One more exit of the CPU *)
LEMMA ExitSeen ==
    ASSUME NEW h \in Seq(Exits), h # << >>, NEW e \in Exits
    PROVE  /\ Append(h, e) \in Seq(Exits) /\ Append(h, e) # << >>
           /\ Append(h, e)[1] = h[1] /\ Append(h, e)[Len(Append(h, e))] = e
           /\ h[1] \in Exits /\ h[Len(h)] \in Exits
           /\ Alternate(Append(h, e)) <=> Alternate(h) /\ Follows(h[Len(h)], e)
<1>. DEFINE n == Len(h)
            k == Append(h, e)
<1>1. /\ n \in Nat \ {0} /\ Len(k) = n + 1 /\ k[n + 1] = e /\ k # << >>
      /\ k \in Seq(Exits) /\ \A i \in 1 .. n : k[i] = h[i] /\ h[i] \in Exits
  OBVIOUS
<1>. HIDE DEF n, k
<1>2. 1 \in 1 .. n /\ n \in 1 .. n /\ 1 .. n = (1 .. n - 1) \cup {n}
  BY <1>1
<1>3. Alternate(k) <=> \A i \in 1 .. n : Follows(k[i], k[i+1])
  BY <1>1 DEF Alternate
<1>4. Alternate(h) <=> \A i \in 1 .. n - 1 : Follows(h[i], h[i+1])
  BY DEF Alternate, n
<1>5. \A i \in 1 .. n - 1 : k[i] = h[i] /\ k[i+1] = h[i+1]
  BY <1>1
<1>6. Alternate(k) <=> Alternate(h) /\ Follows(h[n], e)
  BY <1>1, <1>2, <1>3, <1>4, <1>5
<1>. QED
  BY <1>1, <1>2, <1>6 DEF n, k

LEMMA TimeAdded ==
    ASSUME NEW h \in Seq(Exits), h # << >>, NEW e \in Exits, NEW ids
    PROVE  /\ TimeAfter(h, ids) \in Int
           /\ TimeAfter(Append(h, e), ids) =
                TimeAfter(h, ids) + IF h[Len(h)].id \in ids THEN e.ns - h[Len(h)].ns ELSE 0
<1>. DEFINE n == Len(h)
            k == Append(h, e)
            S == {i \in 1 .. n - 1 : h[i].id \in ids}
            f == [i \in 1 .. Len(h) - 1 |-> h[i+1].ns - h[i].ns]
            d == [i \in 1 .. Len(k) - 1 |-> k[i+1].ns - k[i].ns]
<1>1. /\ n \in Nat \ {0} /\ Len(k) = n + 1 /\ k[n + 1] = e
      /\ k \in Seq(Exits) /\ \A i \in 1 .. n : k[i] = h[i] /\ h[i] \in Exits
  OBVIOUS
<1>2. TimeAfter(h, ids) = SumFunctionOnSet(f, S)
  BY DEF TimeAfter
<1>3. TimeAfter(k, ids) = SumFunctionOnSet(d, {i \in 1 .. n : k[i].id \in ids})
  <2>1. Len(k) - 1 = n
    BY <1>1
  <2>. QED
    BY <2>1 DEF TimeAfter
<1>4. \A i \in 1 .. n - 1 : /\ f[i] = h[i+1].ns - h[i].ns /\ f[i] \in Int /\ d[i] = f[i]
                            /\ k[i] = h[i]
  <2>1. \A i \in 1 .. n - 1 : i \in 1 .. n /\ i + 1 \in 1 .. n /\ i \in 1 .. Len(k) - 1
    BY <1>1
  <2>2. \A y, z \in Exits : y.ns - z.ns \in Int
    BY DEF Exits
  <2>3. \A i \in 1 .. n - 1 : f[i] = h[i+1].ns - h[i].ns /\ d[i] = k[i+1].ns - k[i].ns
    <3>1. \A i \in 1 .. Len(h) - 1 : f[i] = h[i+1].ns - h[i].ns
      OBVIOUS
    <3>2. \A i \in 1 .. Len(k) - 1 : d[i] = k[i+1].ns - k[i].ns
      OBVIOUS
    <3>. HIDE DEF k, f, d
    <3>. QED
      BY <2>1, <3>1, <3>2
  <2>. HIDE DEF n, k, f, d
  <2>4. \A i \in 1 .. n - 1 : /\ k[i] = h[i] /\ k[i+1] = h[i+1]
                              /\ h[i] \in Exits /\ h[i+1] \in Exits
    BY <1>1, <2>1
  <2>5. \A i \in 1 .. n - 1 : h[i+1].ns - h[i].ns \in Int
    BY <2>2, <2>4
  <2>. QED
    BY <2>3, <2>4, <2>5
<1>5. d[n] = e.ns - h[n].ns /\ d[n] \in Int
  <2>1. n \in 1 .. Len(k) - 1 /\ n \in 1 .. n
    BY <1>1
  <2>2. k[n] = h[n] /\ h[n] \in Exits /\ d[n] = k[n+1].ns - k[n].ns
    BY <1>1, <2>1
  <2>3. e.ns - h[n].ns \in Int
    BY <2>2 DEF Exits
  <2>. HIDE DEF d, k
  <2>. QED
    BY <1>1, <2>2, <2>3
<1>6. IsFiniteSet(S) /\ n \notin S /\ \A i \in S : i \in 1 .. n - 1
  <2>1. n - 1 \in Int /\ IsFiniteSet(1 .. n - 1)
    BY <1>1, FS_Interval
  <2>2. S \subseteq 1 .. n - 1 /\ n \notin 1 .. n - 1
    BY <1>1
  <2>. QED
    BY <2>1, <2>2, FS_Subset
<1>7. {i \in 1 .. n : k[i].id \in ids} = IF h[n].id \in ids THEN S \cup {n} ELSE S
  <2>1. 1 .. n = (1 .. n - 1) \cup {n} /\ k[n] = h[n] /\ \A i \in 1 .. n - 1 : k[i] = h[i]
    BY <1>1
  <2>. HIDE DEF n, k
  <2>. QED
    BY <2>1
<1>. HIDE DEF f, d, S, n, k
<1>8. SumFunctionOnSet(d, S) = SumFunctionOnSet(f, S) /\ SumFunctionOnSet(f, S) \in Int
  BY <1>4, <1>6, SumSame, SumType
<1>9. SumFunctionOnSet(d, S \cup {n}) = d[n] + SumFunctionOnSet(d, S)
  <2>1. \A i \in S \cup {n} : d[i] \in Int
    BY <1>4, <1>5, <1>6
  <2>. QED
    BY <1>6, <2>1, SumAdd
<1>10. TimeAfter(k, ids) = TimeAfter(h, ids) + IF h[n].id \in ids THEN d[n] ELSE 0
  <2>1. TimeAfter(k, ids) = SumFunctionOnSet(d, IF h[n].id \in ids THEN S \cup {n} ELSE S)
    BY <1>3, <1>7
  <2>2. CASE h[n].id \in ids
    BY <1>2, <1>5, <1>8, <1>9, <2>1, <2>2
  <2>3. CASE h[n].id \notin ids
    BY <1>2, <1>8, <2>1, <2>3
  <2>. QED
    BY <2>2, <2>3
<1>. QED
  BY <1>2, <1>5, <1>8, <1>10 DEF n, k

LEMMA TimeOfOne ==
    ASSUME NEW e \in Exits, NEW ids
    PROVE  /\ TimeAfter(<<e>>, ids) = 0 /\ Alternate(<<e>>)
           /\ <<e>> \in Seq(Exits) /\ <<e>> # << >> /\ <<e>>[1] = e /\ Len(<<e>>) = 1
<1>1. <<e>> \in Seq(Exits) /\ <<e>> # << >> /\ <<e>>[1] = e /\ Len(<<e>>) = 1
  OBVIOUS
<1>2. 1 .. Len(<<e>>) - 1 = {}
  BY <1>1
<1>3. {i \in 1 .. Len(<<e>>) - 1 : <<e>>[i].id \in ids} = {}
  BY <1>2
<1>4. TimeAfter(<<e>>, ids) = SumFunctionOnSet([i \in 1 .. Len(<<e>>) - 1 |-> <<e>>[i+1].ns - <<e>>[i].ns], {})
  BY <1>3 DEF TimeAfter
<1>5. \A f : SumFunctionOnSet(f, {}) = 0
  BY SumUnfold, FS_EmptySet
<1>6. Alternate(<<e>>)
  BY <1>2 DEF Alternate
<1>. QED
  BY <1>1, <1>4, <1>5, <1>6

-----------------------------------------------------------------------------
(* What is known of a CPU stays true as time goes by. *)
LEMMA KnownLater ==
    ASSUME NEW x, NEW g, NEW xt, NEW dt, NEW h, NEW now \in Nat, NEW later \in Nat,
           now <= later, Known(x, g, xt, dt, h, now)
    PROVE  Known(x, g, xt, dt, h, later)
<1>1. Upto(x, g) \in Nat
  BY UptoIs, FeedAssumption DEF Known, Stamps
<1>. QED
  BY <1>1 DEF Known

(* The ids of exits *)
LEMMA ExitIdsDiffer ==
    ASSUME NEW d1, NEW d2
    PROVE  /\ ExitToXen(d1) # ExitToGuest(d2)
           /\ ExitToXen(d1) = ExitToXen(d2) => d1 = d2
           /\ ExitToGuest(d1) = ExitToGuest(d2) => d1 = d2
BY DEF ExitToXen, ExitToGuest

(* The first exit of a CPU *)
LEMMA FirstExit ==
    ASSUME NEW x \in Stamps, NEW g \in [Slots -> Stamps], NEW dt, NEW e \in Exits,
           dt = [slot \in Slots |-> 0],
           \/ e.id \in XenIds /\ x = e.ns /\ \A slot \in Slots : g[slot] = 0
           \/ \E d \in Slots : /\ e.id = ExitToGuest(d) /\ x = 0 /\ g[d] = e.ns
                              /\ \A slot \in Slots : slot # d => g[slot] = 0
    PROVE  Known(x, g, 0, dt, <<e>>, e.ns) /\ Upto(x, g) = e.ns
<1>1. e.ns \in 1 .. MaxNs /\ e.ns \in Nat /\ e.ns > 0
  BY FeedAssumption DEF Exits
<1>2. \A slot \in Slots : g[slot] \in Nat /\ g[slot] <= Largest(g)
  BY LargestIs, FeedAssumption DEF Stamps
<1>3. PICK top \in Slots : g[top] = Largest(g)
  BY LargestIs
<1>4. /\ Upto(x, g) = IF x < Largest(g) THEN Largest(g) ELSE x
      /\ x \in Nat /\ Largest(g) \in Nat
  BY UptoIs
<1>5. /\ Upto(x, g) = e.ns
      /\ LastIs(x, g, e)
      /\ \A slot \in Slots : g[slot] = Largest(g) \/ g[slot] <= x
  <2>1. CASE e.id \in XenIds /\ x = e.ns /\ \A slot \in Slots : g[slot] = 0
    BY <1>1, <1>2, <1>3, <1>4, <2>1 DEF LastIs
  <2>2. ASSUME NEW d \in Slots, e.id = ExitToGuest(d), x = 0, g[d] = e.ns,
               \A slot \in Slots : slot # d => g[slot] = 0
        PROVE  /\ Upto(x, g) = e.ns
               /\ LastIs(x, g, e)
               /\ \A slot \in Slots : g[slot] = Largest(g) \/ g[slot] <= x
    <3>1. top = d
      BY <1>1, <1>2, <1>3, <2>2
    <3>. QED
      BY <1>1, <1>2, <1>3, <1>4, <2>2, <3>1 DEF LastIs
  <2>. QED
    BY <2>1, <2>2
<1>6. /\ <<e>> \in Seq(Exits) /\ <<e>> # << >> /\ <<e>>[1] = e /\ Len(<<e>>) = 1
      /\ \A ids : TimeAfter(<<e>>, ids) = 0
  BY TimeOfOne
<1>. DEFINE h == <<e>>
<1>. HIDE DEF h
<1>7. Exact(x, g, 0, dt, h)
  BY <1>5, <1>6 DEF Exact, h
<1>8. SumFunction(dt) = 0 /\ dt \in [Slots -> Times] /\ 0 \in Times
  BY SumOfZeros, ZeroTime
<1>9. 0 + 0 <= e.ns - e.ns
  BY <1>1
<1>. QED
  BY <1>1, <1>5, <1>6, <1>7, <1>8, <1>9 DEF Known, h

(* exit_to_xen_handler counts r for slot, nothing if no exit to it is known. *)
LEMMA DomTimeFits ==
    ASSUME NEW x, NEW g, NEW xt, NEW dt, NEW h, NEW now \in Nat, Known(x, g, xt, dt, h, now),
           NEW ns \in 1 .. MaxNs, now <= ns, NEW slot \in Slots, NEW r,
           \/ x < g[slot] /\ r = ns - g[slot]
           \/ x = 0 /\ g[slot] = 0 /\ r = 0
    PROVE  /\ r \in Nat /\ r \in Times /\ dt[slot] \in Nat /\ dt[slot] + r \in Times
           /\ Upto(x, g) + r <= ns /\ Upto(x, g) \in Nat
<1>1. /\ Upto(x, g) = IF x < Largest(g) THEN Largest(g) ELSE x
      /\ x \in Nat /\ Largest(g) \in Nat /\ Upto(x, g) \in Nat
  BY UptoIs, FeedAssumption DEF Known, Stamps
<1>2. g[slot] \in Nat /\ g[slot] <= Largest(g)
  BY LargestIs, FeedAssumption DEF Stamps, Known
<1>3. g[slot] = Largest(g) \/ g[slot] <= x
  BY DEF Known
<1>4. r \in Nat /\ Upto(x, g) + r <= ns /\ ns \in Nat /\ ns < NsModulus
  BY <1>1, <1>2, <1>3, StampsFitAssumption, FeedAssumption, NsModulusAssumption DEF Known
<1>5. dt[slot] \in Nat /\ dt[slot] <= SumFunction(dt) /\ SumFunction(dt) \in Nat /\ xt \in Nat
  BY SumIsNat, NsModulusAssumption DEF Known, Times
<1>6. h[1].ns \in Nat
  <2>1. h[1] \in Exits
    BY DEF Known
  <2>. QED
    BY <2>1, FeedAssumption DEF Exits
<1>7. xt + SumFunction(dt) <= Upto(x, g) - h[1].ns
  BY DEF Known
<1>8. dt[slot] + r <= ns
  BY <1>1, <1>4, <1>5, <1>6, <1>7
<1>. QED
  BY <1>1, <1>4, <1>5, <1>8, NsModulusAssumption DEF Times

LEMMA DomTimeCounted ==
    ASSUME NEW x, NEW g, NEW xt, NEW dt, NEW h, NEW now \in Nat, Known(x, g, xt, dt, h, now),
           NEW ns \in 1 .. MaxNs, now <= ns, NEW slot \in Slots, NEW r,
           \/ x < g[slot] /\ r = ns - g[slot]
           \/ x = 0 /\ g[slot] = 0 /\ r = 0,
           NEW e \in [Slots -> Times], e[slot] = dt[slot] + r,
           \A y \in Slots : y # slot => e[y] = dt[y],
           NEW exit \in Exits, exit.id = ExitToXen(slot), exit.ns = ns
    PROVE  /\ Known(ns, g, xt, e, Append(h, exit), ns)
           /\ Upto(ns, g) = ns /\ xt + SumFunction(e) = (xt + SumFunction(dt)) + r
<1>1. /\ r \in Nat /\ dt[slot] \in Nat
      /\ Upto(x, g) + r <= ns /\ Upto(x, g) \in Nat
  <2>1. /\ now \in Nat /\ Known(x, g, xt, dt, h, now) /\ ns \in 1 .. MaxNs /\ now <= ns
        /\ slot \in Slots
        /\ \/ x < g[slot] /\ r = ns - g[slot]
           \/ x = 0 /\ g[slot] = 0 /\ r = 0
    OBVIOUS
  <2>. QED
    BY ONLY <2>1, DomTimeFits
<1>2. /\ Upto(x, g) = IF x < Largest(g) THEN Largest(g) ELSE x
      /\ x \in Nat /\ Largest(g) \in Nat
  BY UptoIs DEF Known
<1>3. ns \in Stamps /\ ns \in Nat /\ g \in [Slots -> Stamps]
  BY FeedAssumption DEF Stamps, Known
<1>4. Upto(ns, g) = ns
  <2>1. Upto(ns, g) = IF ns < Largest(g) THEN Largest(g) ELSE ns
    BY <1>3, UptoIs
  <2>2. Largest(g) <= ns
    BY <1>2, <1>3 DEF Known
  <2>. QED
    BY <1>2, <1>3, <2>1, <2>2
<1>5. /\ SumFunction(e) = SumFunction(dt) + r
      /\ SumFunction(dt) \in Nat /\ xt \in Nat
  <2>1. dt \in [Slots -> Times]
    BY DEF Known
  <2>2. SumFunction(e) = SumFunction(dt) + (e[slot] - dt[slot])
    BY <2>1, SumChanged
  <2>3. SumFunction(dt) \in Nat
    BY <2>1, SumIsNat
  <2>. QED
    BY <1>1, <2>2, <2>3, NsModulusAssumption DEF Known, Times
<1>6. \A y \in Slots : g[y] \in Nat /\ g[y] <= ns /\ g[y] <= Largest(g) /\ Largest(g) <= ns
  <2>1. \A y \in Slots : g[y] \in Nat /\ g[y] <= Largest(g)
    BY <1>3, LargestIs, FeedAssumption DEF Stamps
  <2>2. Largest(g) <= ns
    BY <1>2, <1>3 DEF Known
  <2>. QED
    BY <1>2, <1>3, <2>1, <2>2
<1>7. /\ Append(h, exit) \in Seq(Exits) /\ Append(h, exit) # << >>
      /\ Append(h, exit)[1] = h[1] /\ Append(h, exit)[Len(Append(h, exit))] = exit
      /\ h[1] \in Exits /\ h[Len(h)] \in Exits
      /\ Alternate(Append(h, exit)) <=> Alternate(h) /\ Follows(h[Len(h)], exit)
  BY ExitSeen DEF Known
<1>8. h[1].ns \in Nat /\ h[1].ns <= Upto(x, g) /\ xt + SumFunction(dt) <= Upto(x, g) - h[1].ns
  BY <1>7, FeedAssumption DEF Known, Exits
<1>9. /\ h[1].ns <= ns
      /\ xt + SumFunction(e) = (xt + SumFunction(dt)) + r
      /\ xt + SumFunction(e) <= ns - h[1].ns
  BY <1>1, <1>3, <1>5, <1>8
<1>10. Exact(ns, g, xt, e, Append(h, exit))
  <2>. SUFFICES ASSUME Alternate(Append(h, exit))
                PROVE  /\ LastIs(ns, g, exit)
                       /\ xt = TimeAfter(Append(h, exit), XenIds)
                       /\ \A y \in Slots : e[y] = TimeAfter(Append(h, exit), {ExitToGuest(y)})
    BY <1>7 DEF Exact
  <2>. DEFINE last == h[Len(h)]
  <2>1. last \in Exits /\ Alternate(h) /\ last.ns < ns /\ last.id = ExitToGuest(slot)
    <3>1. last \in Exits /\ Alternate(h) /\ Follows(last, exit)
      BY <1>7
    <3>. QED
      BY <3>1, ExitIdsDiffer DEF Follows
  <2>2. /\ LastIs(x, g, last) /\ xt = TimeAfter(h, XenIds)
        /\ \A y \in Slots : dt[y] = TimeAfter(h, {ExitToGuest(y)})
    BY <2>1 DEF Known, Exact
  <2>3. g[slot] = last.ns /\ x < g[slot]
    BY <2>1, <2>2, ExitIdsDiffer DEF LastIs, XenIds
  <2>4. r = ns - last.ns /\ Largest(g) = last.ns /\ last.ns \in Nat
    <3>1. g[slot] = Largest(g) \/ g[slot] <= x
      BY DEF Known
    <3>. QED
      BY <1>2, <1>6, <2>3, <3>1
  <2>5. LastIs(ns, g, exit)
    BY <2>1, <2>4 DEF LastIs, XenIds
  <2>. HIDE DEF last
  <2>6. last.id \notin XenIds /\ \A y \in Slots : last.id \in {ExitToGuest(y)} <=> y = slot
    BY <2>1, ExitIdsDiffer DEF XenIds
  <2>7. ASSUME NEW ids
        PROVE  /\ TimeAfter(h, ids) \in Int
               /\ TimeAfter(Append(h, exit), ids) =
                    TimeAfter(h, ids) + IF last.id \in ids THEN ns - last.ns ELSE 0
    BY TimeAdded DEF last, Known
  <2>8. xt = TimeAfter(Append(h, exit), XenIds)
    BY <2>2, <2>6, <2>7
  <2>9. ASSUME NEW y \in Slots PROVE e[y] = TimeAfter(Append(h, exit), {ExitToGuest(y)})
    <3>1. CASE y = slot
      BY <2>2, <2>4, <2>6, <2>7, <3>1
    <3>2. CASE y # slot
      <4>1. TimeAfter(Append(h, exit), {ExitToGuest(y)}) = TimeAfter(h, {ExitToGuest(y)}) + 0
        BY <2>6, <2>7, <3>2
      <4>2. TimeAfter(h, {ExitToGuest(y)}) \in Int /\ e[y] = dt[y]
        BY <2>7, <3>2
      <4>. QED
        BY <2>2, <4>1, <4>2
    <3>. QED
      BY <3>1, <3>2
  <2>. QED
    BY <2>5, <2>8, <2>9
<1>. QED
  BY <1>3, <1>4, <1>6, <1>7, <1>9, <1>10 DEF Known

(* exit_to_guest_handler counts the time since the last exit to Xen. *)
LEMMA XenTimeFits ==
    ASSUME NEW x, NEW g, NEW xt, NEW dt, NEW h, NEW now \in Nat, Known(x, g, xt, dt, h, now),
           NEW ns \in 1 .. MaxNs, now <= ns, x > Largest(g)
    PROVE  /\ ns - x \in Times /\ ns - x \in Nat /\ xt \in Nat /\ xt + (ns - x) \in Times
           /\ Upto(x, g) = x /\ x \in Nat /\ x <= ns /\ x # 0
<1>1. /\ Upto(x, g) = x /\ x \in Nat /\ Largest(g) \in Nat
  BY UptoIs DEF Known
<1>2. SumFunction(dt) \in Nat /\ xt \in Nat
  BY SumIsNat, NsModulusAssumption DEF Known, Times
<1>3. h[1].ns \in Nat
  <2>1. h[1] \in Exits
    BY DEF Known
  <2>. QED
    BY <2>1, FeedAssumption DEF Exits
<1>4. xt + SumFunction(dt) <= x - h[1].ns /\ x <= ns
  BY <1>1 DEF Known
<1>5. ns \in Nat /\ ns < NsModulus
  BY StampsFitAssumption, FeedAssumption, NsModulusAssumption
<1>. QED
  BY <1>1, <1>2, <1>3, <1>4, <1>5, NsModulusAssumption DEF Times

LEMMA XenTimeCounted ==
    ASSUME NEW x, NEW g, NEW xt, NEW dt, NEW h, NEW now \in Nat, Known(x, g, xt, dt, h, now),
           NEW ns \in 1 .. MaxNs, now <= ns, x > Largest(g), NEW slot \in Slots,
           NEW f \in [Slots -> Stamps], f[slot] = ns,
           \A y \in Slots : y # slot => f[y] = g[y],
           NEW exit \in Exits, exit.id = ExitToGuest(slot), exit.ns = ns
    PROVE  /\ Known(x, f, xt + (ns - x), dt, Append(h, exit), ns)
           /\ Upto(x, f) = ns
<1>1. /\ ns - x \in Nat /\ xt \in Nat /\ xt + (ns - x) \in Times
      /\ Upto(x, g) = x /\ x \in Nat /\ x <= ns
  BY XenTimeFits
<1>2. ns \in Nat /\ x \in Stamps /\ g \in [Slots -> Stamps]
  BY FeedAssumption DEF Known
<1>3. \A y \in Slots : g[y] \in Nat /\ g[y] < x
  <2>1. Largest(g) \in Nat
    BY <1>2, UptoIs
  <2>2. \A y \in Slots : g[y] \in Nat /\ g[y] <= Largest(g)
    BY <1>2, LargestIs, FeedAssumption DEF Stamps
  <2>. QED
    BY <1>1, <2>1, <2>2
<1>4. Largest(f) = ns
  <2>1. PICK top \in Slots : f[top] = Largest(f)
    BY LargestIs
  <2>2. f[slot] <= Largest(f) /\ Largest(f) \in Nat
    BY LargestIs, FeedAssumption DEF Stamps
  <2>3. top # slot => f[top] < ns
    BY <1>1, <1>2, <1>3
  <2>. QED
    BY <1>2, <2>1, <2>2, <2>3
<1>5. Upto(x, f) = ns
  BY <1>1, <1>2, <1>4, UptoIs
<1>6. SumFunction(dt) \in Nat
  BY SumIsNat DEF Known
<1>7. /\ Append(h, exit) \in Seq(Exits) /\ Append(h, exit) # << >>
      /\ Append(h, exit)[1] = h[1] /\ Append(h, exit)[Len(Append(h, exit))] = exit
      /\ h[1] \in Exits /\ h[Len(h)] \in Exits
      /\ Alternate(Append(h, exit)) <=> Alternate(h) /\ Follows(h[Len(h)], exit)
  BY ExitSeen DEF Known
<1>8. h[1].ns \in Nat /\ h[1].ns <= x /\ xt + SumFunction(dt) <= x - h[1].ns
  BY <1>1, <1>7, FeedAssumption DEF Known, Exits
<1>9. /\ h[1].ns <= ns
      /\ (xt + (ns - x)) + SumFunction(dt) <= ns - h[1].ns
  BY <1>1, <1>2, <1>6, <1>8
<1>10. \A y \in Slots : f[y] = Largest(f) \/ f[y] <= x
  BY <1>1, <1>3, <1>4
<1>11. Exact(x, f, xt + (ns - x), dt, Append(h, exit))
  <2>. SUFFICES ASSUME Alternate(Append(h, exit))
                PROVE  /\ LastIs(x, f, exit)
                       /\ xt + (ns - x) = TimeAfter(Append(h, exit), XenIds)
                       /\ \A y \in Slots : dt[y] = TimeAfter(Append(h, exit), {ExitToGuest(y)})
    BY <1>7 DEF Exact
  <2>. DEFINE last == h[Len(h)]
  <2>1. last \in Exits /\ Alternate(h) /\ last.ns < ns /\ last.id \in XenIds
    <3>1. last \in Exits /\ Alternate(h) /\ Follows(last, exit)
      BY <1>7
    <3>. QED
      BY <3>1, ExitIdsDiffer DEF Follows, XenIds
  <2>2. /\ LastIs(x, g, last) /\ xt = TimeAfter(h, XenIds)
        /\ \A y \in Slots : dt[y] = TimeAfter(h, {ExitToGuest(y)})
    BY <2>1 DEF Known, Exact
  <2>3. x = last.ns
    BY <2>1, <2>2, ExitIdsDiffer DEF LastIs, XenIds
  <2>4. LastIs(x, f, exit)
    BY <2>1, <2>3 DEF LastIs
  <2>. HIDE DEF last
  <2>5. \A y \in Slots : last.id \notin {ExitToGuest(y)}
    BY <2>1, ExitIdsDiffer DEF XenIds
  <2>6. ASSUME NEW ids
        PROVE  /\ TimeAfter(h, ids) \in Int
               /\ TimeAfter(Append(h, exit), ids) =
                    TimeAfter(h, ids) + IF last.id \in ids THEN ns - last.ns ELSE 0
    BY TimeAdded DEF last, Known
  <2>7. xt + (ns - x) = TimeAfter(Append(h, exit), XenIds)
    BY <2>1, <2>2, <2>3, <2>6
  <2>8. ASSUME NEW y \in Slots PROVE dt[y] = TimeAfter(Append(h, exit), {ExitToGuest(y)})
    <3>1. TimeAfter(Append(h, exit), {ExitToGuest(y)}) = TimeAfter(h, {ExitToGuest(y)}) + 0
      BY <2>5, <2>6
    <3>2. TimeAfter(h, {ExitToGuest(y)}) \in Int
      BY <2>6
    <3>. QED
      BY <2>2, <3>1, <3>2
  <2>. QED
    BY <2>4, <2>7, <2>8
<1>. QED
  BY <1>1, <1>2, <1>5, <1>7, <1>9, <1>10, <1>11 DEF Known

(* An exit that is not counted contradicts the one before. *)
LEMMA ExitSkipped ==
    ASSUME NEW x, NEW g, NEW xt, NEW dt, NEW h, NEW now \in Nat, Known(x, g, xt, dt, h, now),
           NEW later \in Nat, now <= later, NEW exit \in Exits, NEW slot \in Slots,
           \/ exit.id = ExitToXen(slot) /\ x >= g[slot]
           \/ exit.id = ExitToGuest(slot) /\ x <= Largest(g)
    PROVE  Known(x, g, xt, dt, Append(h, exit), later)
<1>1. Known(x, g, xt, dt, h, later)
  BY KnownLater
<1>2. /\ Append(h, exit) \in Seq(Exits) /\ Append(h, exit) # << >>
      /\ Append(h, exit)[1] = h[1]
      /\ Alternate(Append(h, exit)) <=> Alternate(h) /\ Follows(h[Len(h)], exit)
  BY ExitSeen DEF Known
<1>3. x \in Nat /\ Largest(g) \in Nat /\ g[slot] \in Nat
  BY UptoIs, FeedAssumption DEF Known, Stamps
<1>4. ~ Alternate(Append(h, exit))
  <2>. SUFFICES ASSUME Alternate(Append(h, exit)) PROVE FALSE
    OBVIOUS
  <2>. DEFINE last == h[Len(h)]
  <2>1. Alternate(h) /\ Follows(last, exit)
    BY <1>2
  <2>2. LastIs(x, g, last)
    BY <2>1 DEF Known, Exact
  <2>. HIDE DEF last
  <2>3. CASE exit.id = ExitToXen(slot) /\ x >= g[slot]
    <3>1. last.id = ExitToGuest(slot)
      BY <2>1, <2>3, ExitIdsDiffer DEF Follows
    <3>. QED
      BY <1>3, <2>2, <2>3, <3>1, ExitIdsDiffer DEF LastIs, XenIds
  <2>4. CASE exit.id = ExitToGuest(slot) /\ x <= Largest(g)
    <3>1. last.id \in XenIds
      BY <2>1, <2>4, ExitIdsDiffer DEF Follows, XenIds
    <3>. QED
      BY <1>3, <2>2, <2>4, <3>1, ExitIdsDiffer DEF LastIs, XenIds
  <2>. QED
    BY <2>3, <2>4
<1>. QED
  BY <1>1, <1>2, <1>4 DEF Known, Exact

-----------------------------------------------------------------------------
(* The four values of a CPU *)
GuestStamps(cpu) == [slot \in Slots |-> LastExitToGuest(cpu, slot)]
DomTimes(cpu) == [slot \in Slots |-> DomTime(cpu, slot)]

CpuOK(cpu) == Known(LastExitToXen(cpu), GuestStamps(cpu), XenTime(cpu), DomTimes(cpu),
                    seen[cpu], Now)

XenEntries == [runtime : Times, exitToGuest : [Slots -> Stamps]]
DomEntries == [lastExitToXen : 1 .. MaxNs, runtime : [Slots -> Times]]

TimeInv ==
    /\ FeedInv
    /\ DOMAIN xenRuntime \subseteq Cpus
    /\ \A cpu \in DOMAIN xenRuntime : xenRuntime[cpu] \in XenEntries
    /\ DOMAIN domRuntime \subseteq Cpus
    /\ \A cpu \in DOMAIN domRuntime : /\ domRuntime[cpu] \in DomEntries
                                      /\ garbage[cpu] \in [Slots -> Times]
    /\ DOMAIN garbage = DOMAIN domRuntime
    /\ lostRecCount \in Nat
    /\ ended \in BOOLEAN
    /\ seen \in [Cpus -> Seq(Exits)]
    /\ \A cpu \in Cpus : IF seen[cpu] = << >>
                         THEN cpu \notin DOMAIN xenRuntime /\ cpu \notin DOMAIN domRuntime
                         ELSE CpuOK(cpu)

(* What the ledger has of a CPU is told from them, before and after a step. *)
LEMMA LatestIs ==
    ASSUME NEW cpu
    PROVE  /\ LatestExitToGuest(cpu) = Largest(GuestStamps(cpu))
           /\ Settled(cpu) = Upto(LastExitToXen(cpu), GuestStamps(cpu))
           /\ Settled(cpu)' = Upto(LastExitToXen(cpu)', GuestStamps(cpu)')
           /\ Counted(cpu) = XenTime(cpu) + SumFunction(DomTimes(cpu))
           /\ Counted(cpu)' = XenTime(cpu)' + SumFunction(DomTimes(cpu)')
<1>1. {LastExitToGuest(cpu, slot) : slot \in Slots} = {GuestStamps(cpu)[slot] : slot \in Slots}
  BY DEF GuestStamps
<1>2. {LastExitToGuest(cpu, slot)' : slot \in Slots} = {GuestStamps(cpu)'[slot] : slot \in Slots}
  BY DEF GuestStamps
<1>3. LatestExitToGuest(cpu) = Largest(GuestStamps(cpu))
  BY <1>1 DEF LatestExitToGuest, Largest
<1>4. LatestExitToGuest(cpu)' = Max({GuestStamps(cpu)'[slot] : slot \in Slots})
  BY <1>2 DEF LatestExitToGuest
<1>5. Settled(cpu)' = Upto(LastExitToXen(cpu)', GuestStamps(cpu)')
  BY <1>4 DEF Settled, Upto, Largest
<1>. QED
  BY <1>3, <1>5 DEF Settled, Upto, Counted, DomTimes

LEMMA TimeInit == Init => TimeInv /\ Ledger!Init
<1>. SUFFICES ASSUME Init PROVE TimeInv /\ Ledger!Init
  OBVIOUS
<1>1. FeedInv /\ Now = 0
  BY FeedInitOK DEF Init
<1>2. DOMAIN xenRuntime = {} /\ DOMAIN domRuntime = {} /\ DOMAIN garbage = {}
  BY DEF Init
<1>3. seen \in [Cpus -> Seq(Exits)] /\ \A cpu \in Cpus : seen[cpu] = << >>
  BY DEF Init
<1>4. TimeInv
  BY <1>1, <1>2, <1>3 DEF Init, TimeInv
<1>5. LedgerOf = << >>
  BY <1>3 DEF LedgerOf
<1>. QED
  BY <1>1, <1>4, <1>5 DEF Ledger!Init, Now

(* Nothing but time goes by for a CPU. *)
LEMMA CpuLater ==
    ASSUME TimeInv, NEW cpu \in Cpus, Now <= Now', Now' \in Nat,
           cpu \in DOMAIN xenRuntime' <=> cpu \in DOMAIN xenRuntime,
           cpu \in DOMAIN xenRuntime => xenRuntime'[cpu] = xenRuntime[cpu],
           cpu \in DOMAIN domRuntime' <=> cpu \in DOMAIN domRuntime,
           cpu \in DOMAIN domRuntime => /\ domRuntime'[cpu] = domRuntime[cpu]
                                        /\ garbage'[cpu] = garbage[cpu],
           seen'[cpu] = seen[cpu]
    PROVE  /\ IF seen'[cpu] = << >>
              THEN cpu \notin DOMAIN xenRuntime' /\ cpu \notin DOMAIN domRuntime'
              ELSE CpuOK(cpu)'
           /\ Settled(cpu)' = Settled(cpu) /\ Counted(cpu)' = Counted(cpu)
<1>1. /\ LastExitToXen(cpu)' = LastExitToXen(cpu) /\ XenTime(cpu)' = XenTime(cpu)
      /\ \A slot \in Slots : LastExitToGuest(cpu, slot)' = LastExitToGuest(cpu, slot)
      /\ \A slot \in Slots : DomTime(cpu, slot)' = DomTime(cpu, slot)
  BY DEF LastExitToXen, XenTime, LastExitToGuest, DomTime, Printed, LeftOver
<1>2. GuestStamps(cpu)' = GuestStamps(cpu) /\ DomTimes(cpu)' = DomTimes(cpu)
  BY <1>1 DEF GuestStamps, DomTimes
<1>3. CpuOK(cpu) => CpuOK(cpu)'
  <2>1. Now \in Nat
    BY NowType DEF TimeInv, FeedInv
  <2>. DEFINE K(now) == Known(LastExitToXen(cpu), GuestStamps(cpu), XenTime(cpu),
                              DomTimes(cpu), seen[cpu], now)
  <2>2. K(Now) => K(Now')
    BY <2>1, KnownLater
  <2>3. CpuOK(cpu) = K(Now) /\ CpuOK(cpu)' = K(Now')
    BY <1>1, <1>2 DEF CpuOK
  <2>. QED
    BY <2>2, <2>3
<1>4. Settled(cpu)' = Settled(cpu)
  BY <1>1, <1>2, LatestIs
<1>5. Counted(cpu)' = Counted(cpu)
  BY <1>1, <1>2, LatestIs
<1>6. IF seen[cpu] = << >>
      THEN cpu \notin DOMAIN xenRuntime /\ cpu \notin DOMAIN domRuntime
      ELSE CpuOK(cpu)
  BY DEF TimeInv
<1>. QED
  BY <1>3, <1>4, <1>5, <1>6

LEMMA TimeLater ==
    ASSUME TimeInv, FeedInv', Now <= Now', Now' \in Nat, ended' \in BOOLEAN, lostRecCount' \in Nat,
           UNCHANGED <<xenRuntime, domRuntime, garbage, seen>>
    PROVE  TimeInv' /\ Ledger!Next
<1>1. ASSUME NEW cpu \in Cpus
      PROVE  /\ IF seen'[cpu] = << >>
                THEN cpu \notin DOMAIN xenRuntime' /\ cpu \notin DOMAIN domRuntime'
                ELSE CpuOK(cpu)'
             /\ Settled(cpu)' = Settled(cpu) /\ Counted(cpu)' = Counted(cpu)
  BY CpuLater
<1>2. LedgerOf' = LedgerOf
  BY <1>1 DEF LedgerOf
<1>3. TimeInv'
  BY <1>1 DEF TimeInv
<1>. QED
  BY <1>2, <1>3 DEF Ledger!Next, Now

-----------------------------------------------------------------------------
(* An exit changes what is known of its CPU only. *)
LEMMA OneCpu ==
    ASSUME TimeInv, FeedInv', Now <= Now', Now' \in Nat, ended' \in BOOLEAN, lostRecCount' \in Nat,
           NEW cpu \in Cpus, NEW exit \in Exits,
           seen' = [seen EXCEPT ![cpu] = Append(@, exit)],
           DOMAIN xenRuntime' \subseteq DOMAIN xenRuntime \cup {cpu},
           DOMAIN domRuntime' \subseteq DOMAIN domRuntime \cup {cpu},
           DOMAIN xenRuntime \subseteq DOMAIN xenRuntime',
           DOMAIN domRuntime \subseteq DOMAIN domRuntime',
           DOMAIN garbage' = DOMAIN domRuntime',
           \A c \in DOMAIN xenRuntime : c # cpu => xenRuntime'[c] = xenRuntime[c],
           \A c \in DOMAIN domRuntime : c # cpu => /\ domRuntime'[c] = domRuntime[c]
                                                   /\ garbage'[c] = garbage[c],
           cpu \in DOMAIN xenRuntime' => xenRuntime'[cpu] \in XenEntries,
           cpu \in DOMAIN domRuntime' => /\ domRuntime'[cpu] \in DomEntries
                                         /\ garbage'[cpu] \in [Slots -> Times],
           CpuOK(cpu)'
    PROVE  /\ TimeInv'
           /\ \A c \in Cpus : c # cpu => /\ seen'[c] = seen[c]
                                         /\ Settled(c)' = Settled(c)
                                         /\ Counted(c)' = Counted(c)
<1>1. /\ seen' \in [Cpus -> Seq(Exits)] /\ seen'[cpu] # << >>
      /\ \A c \in Cpus : c # cpu => seen'[c] = seen[c]
  <2>1. seen \in [Cpus -> Seq(Exits)] /\ seen[cpu] \in Seq(Exits)
    BY DEF TimeInv
  <2>2. Append(seen[cpu], exit) \in Seq(Exits) /\ Append(seen[cpu], exit) # << >>
    BY <2>1
  <2>. QED
    BY <2>1, <2>2
<1>2. ASSUME NEW c \in Cpus, c # cpu
      PROVE  /\ IF seen'[c] = << >>
                THEN c \notin DOMAIN xenRuntime' /\ c \notin DOMAIN domRuntime'
                ELSE CpuOK(c)'
             /\ Settled(c)' = Settled(c) /\ Counted(c)' = Counted(c)
  <2>1. c \in DOMAIN xenRuntime' <=> c \in DOMAIN xenRuntime
    BY <1>2
  <2>2. c \in DOMAIN domRuntime' <=> c \in DOMAIN domRuntime
    BY <1>2
  <2>3. seen'[c] = seen[c] /\ (c \in DOMAIN xenRuntime => xenRuntime'[c] = xenRuntime[c])
    BY <1>1, <1>2
  <2>4. c \in DOMAIN domRuntime => domRuntime'[c] = domRuntime[c] /\ garbage'[c] = garbage[c]
    BY <1>2
  <2>. QED
    BY <2>1, <2>2, <2>3, <2>4, CpuLater
<1>3. /\ DOMAIN xenRuntime' \subseteq Cpus /\ DOMAIN domRuntime' \subseteq Cpus
      /\ \A c \in DOMAIN xenRuntime' : xenRuntime'[c] \in XenEntries
      /\ \A c \in DOMAIN domRuntime' : /\ domRuntime'[c] \in DomEntries
                                       /\ garbage'[c] \in [Slots -> Times]
  BY DEF TimeInv
<1>. QED
  BY <1>1, <1>2, <1>3 DEF TimeInv

(* The ledger opens a meter with the first exit, *)
LEMMA LedgerOpens ==
    ASSUME TimeInv, Now <= Now', Now' \in Nat, NEW cpu \in Cpus, NEW exit,
           seen' = [seen EXCEPT ![cpu] = Append(@, exit)], exit.ns = Now',
           seen[cpu] = << >>, Settled(cpu)' = Now', Counted(cpu)' = 0,
           \A c \in Cpus : c # cpu => /\ seen'[c] = seen[c]
                                      /\ Settled(c)' = Settled(c)
                                      /\ Counted(c)' = Counted(c)
    PROVE  Ledger!Next
<1>1. seen'[cpu] = <<exit>> /\ <<exit>> # << >> /\ seen'[cpu][1].ns = Now'
  BY DEF TimeInv
<1>. DEFINE M == {c \in Cpus : seen[c] # << >>}
            E(c) == [since |-> seen[c][1].ns, upto |-> Settled(c), counted |-> Counted(c)]
<1>2. LedgerOf = [c \in M |-> E(c)] /\ LedgerOf' = [c \in M \cup {cpu} |-> E(c)']
  <2>1. {c \in Cpus : seen'[c] # << >>} = M \cup {cpu}
    BY <1>1
  <2>. QED
    BY <2>1 DEF LedgerOf
<1>3. cpu \notin M /\ E(cpu)' = [since |-> Now', upto |-> Now', counted |-> 0]
  BY <1>1
<1>4. \A c \in M : E(c)' = E(c)
  BY <1>3
<1>. HIDE DEF M, E
<1>5. LedgerOf' = [c \in DOMAIN LedgerOf \cup {cpu} |->
                     IF c = cpu THEN [since |-> Now', upto |-> Now', counted |-> 0]
                                ELSE LedgerOf[c]]
  BY <1>2, <1>3, <1>4
<1>6. Ledger!Open(cpu)
  BY <1>2, <1>3, <1>5 DEF Ledger!Open, Now
<1>. QED
  BY <1>6 DEF Ledger!Next, Now

(* counts the time r that ends now, or skips some with r = 0, *)
LEMMA LedgerCounts ==
    ASSUME TimeInv, Now <= Now', Now' \in Nat, NEW cpu \in Cpus, NEW exit \in Exits,
           seen' = [seen EXCEPT ![cpu] = Append(@, exit)], seen[cpu] # << >>,
           NEW r \in Nat, Settled(cpu) \in Nat, Settled(cpu) + r <= Now',
           Settled(cpu)' = Now', Counted(cpu)' = Counted(cpu) + r,
           \A c \in Cpus : c # cpu => /\ seen'[c] = seen[c]
                                      /\ Settled(c)' = Settled(c)
                                      /\ Counted(c)' = Counted(c)
    PROVE  Ledger!Next
<1>1. seen'[cpu] # << >> /\ seen'[cpu][1] = seen[cpu][1]
  <2>1. seen[cpu] \in Seq(Exits) /\ seen'[cpu] = Append(seen[cpu], exit)
    BY DEF TimeInv
  <2>. QED
    BY <2>1, ExitSeen
<1>. DEFINE M == {c \in Cpus : seen[c] # << >>}
            E(c) == [since |-> seen[c][1].ns, upto |-> Settled(c), counted |-> Counted(c)]
<1>2. LedgerOf = [c \in M |-> E(c)] /\ LedgerOf' = [c \in M |-> E(c)']
  <2>1. {c \in Cpus : seen'[c] # << >>} = M
    BY <1>1
  <2>. QED
    BY <2>1 DEF LedgerOf
<1>3. cpu \in M /\ E(cpu).upto = Settled(cpu)
  OBVIOUS
<1>. HIDE DEF E
<1>4. PICK from \in Nat : from \in Settled(cpu) .. Now' /\ Now' \in from .. Now' /\ Now' - from = r
  <2>1. ASSUME NEW n \in Nat, NEW s \in Nat, s + r <= n
        PROVE  \E from \in Nat : from \in s .. n /\ n \in from .. n /\ n - from = r
    <3>1. n - r \in Nat /\ n - r \in s .. n /\ n - (n - r) = r
      BY <2>1
    <3>. QED
      BY <3>1
  <2>. QED
    BY <2>1
<1>5. E(cpu)' = [since |-> E(cpu).since, upto |-> Now',
                 counted |-> E(cpu).counted + (Now' - from)]
  <2>1. Counted(cpu)' = Counted(cpu) + (Now' - from)
    BY <1>4
  <2>2. E(cpu)' = [since |-> seen'[cpu][1].ns, upto |-> Settled(cpu)', counted |-> Counted(cpu)']
    BY DEF E
  <2>. QED
    BY <1>1, <2>1, <2>2 DEF E
<1>6. \A c \in M : c # cpu => E(c)' = E(c)
  BY DEF E
<1>. HIDE DEF M
<1>7. LedgerOf' = [LedgerOf EXCEPT ![cpu] = [since |-> @.since, upto |-> Now',
                                             counted |-> @.counted + (Now' - from)]]
  BY <1>2, <1>3, <1>5, <1>6
<1>8. cpu \in DOMAIN LedgerOf /\ LedgerOf[cpu].upto = Settled(cpu)
  BY <1>2, <1>3
<1>9. \E a \in LedgerOf[cpu].upto .. Now' : \E b \in a .. Now' :
        LedgerOf' = [LedgerOf EXCEPT ![cpu] = [since |-> @.since, upto |-> b,
                                               counted |-> @.counted + (b - a)]]
  BY <1>4, <1>7, <1>8
<1>10. Ledger!Count(cpu)
  BY <1>8, <1>9 DEF Ledger!Count, Now
<1>. QED
  BY <1>10 DEF Ledger!Next, Now

(* or stays as it is. *)
LEMMA LedgerStays ==
    ASSUME TimeInv, Now <= Now', Now' \in Nat, NEW cpu \in Cpus, NEW exit \in Exits,
           seen' = [seen EXCEPT ![cpu] = Append(@, exit)], seen[cpu] # << >>,
           Settled(cpu)' = Settled(cpu), Counted(cpu)' = Counted(cpu),
           \A c \in Cpus : c # cpu => /\ seen'[c] = seen[c]
                                      /\ Settled(c)' = Settled(c)
                                      /\ Counted(c)' = Counted(c)
    PROVE  Ledger!Next
<1>1. seen'[cpu] # << >> /\ seen'[cpu][1] = seen[cpu][1]
  <2>1. seen[cpu] \in Seq(Exits) /\ seen'[cpu] = Append(seen[cpu], exit)
    BY DEF TimeInv
  <2>. QED
    BY <2>1, ExitSeen
<1>2. {c \in Cpus : seen'[c] # << >>} = {c \in Cpus : seen[c] # << >>}
  BY <1>1
<1>3. LedgerOf' = LedgerOf
  BY <1>1, <1>2 DEF LedgerOf
<1>. QED
  BY <1>3 DEF Ledger!Next, Now

-----------------------------------------------------------------------------
(* What a new entry of domRuntime starts with is not the domains' time. *)
LEMMA NewTimes ==
    ASSUME NEW rest \in [Slots -> Times], NEW slot \in Slots, NEW r \in Times, NEW d \in Slots
    PROVE  Minus([rest EXCEPT ![slot] = r][d], [rest EXCEPT ![slot] = 0][d]) =
             IF d = slot THEN r ELSE 0
<1>1. \A t \in Times : Minus(t, t) = 0 /\ Minus(t, 0) = t
  <2>. SUFFICES ASSUME NEW t \in Times PROVE Minus(t, t) = 0 /\ Minus(t, 0) = t
    OBVIOUS
  <2>1. t \in Nat /\ t < NsModulus /\ 0 <= t /\ t - t = 0 /\ t - 0 = t
    BY NsModulusAssumption DEF Times
  <2>. QED
    BY <2>1, MinusExact
<1>. QED
  BY <1>1

(* exit_to_xen_handler *)
LEMMA XenStep ==
    ASSUME TimeInv, FeedInv', ended' \in BOOLEAN, lostRecCount' \in Nat, NEW cpu \in Cpus, event'.cpu = cpu,
           NEW ns \in 1 .. MaxNs, event'.ns = ns, Now <= ns, Now' = ns,
           NEW slot \in Slots, ExitToXenHandler(slot), See(ExitToXen(slot)), UNCHANGED xenRuntime
    PROVE  TimeInv' /\ Ledger!Next
<1>. DEFINE exit == [id |-> ExitToXen(slot), ns |-> ns]
            h == seen[cpu]
            x == LastExitToXen(cpu)
            g == GuestStamps(cpu)
            xt == XenTime(cpu)
            dt == DomTimes(cpu)
            ran == IF LastExitToGuest(cpu, slot) = 0 THEN 0
                   ELSE Minus(ns, LastExitToGuest(cpu, slot))
<1>1. /\ exit \in Exits /\ exit.id = ExitToXen(slot) /\ exit.ns = ns
      /\ exit.id \in XenIds /\ ns \in Nat /\ ns \in Stamps /\ Now \in Nat /\ Now <= Now' /\ Now' \in Nat
      /\ ns < NsModulus /\ ns > 0
  BY NowType, FeedAssumption, StampsFitAssumption, NsModulusAssumption
     DEF Exits, ExitIds, XenIds, Stamps, TimeInv, FeedInv
<1>2. seen' = [seen EXCEPT ![cpu] = Append(@, exit)] /\ h \in Seq(Exits)
      /\ seen'[cpu] = Append(h, exit)
  BY DEF See, TimeInv
<1>. HIDE DEF exit
<1>3. GuestStamps(cpu)' = g /\ XenTime(cpu)' = xt /\ g[slot] = LastExitToGuest(cpu, slot)
  BY DEF GuestStamps, LastExitToGuest, XenTime
<1>4. /\ DOMAIN xenRuntime' = DOMAIN xenRuntime
      /\ cpu \in DOMAIN xenRuntime' => xenRuntime'[cpu] \in XenEntries
      /\ DOMAIN garbage = DOMAIN domRuntime
  BY DEF TimeInv
<1>5. g \in [Slots -> Stamps] /\ g[slot] \in Nat
  <2>1. \A d \in Slots : LastExitToGuest(cpu, d) \in Stamps
    BY FeedAssumption DEF LastExitToGuest, TimeInv, XenEntries, Stamps
  <2>. QED
    BY <2>1, FeedAssumption DEF GuestStamps, Stamps
<1>6. ASSUME NEW rest \in [Slots -> Times], ran \in Times, cpu \notin DOMAIN domRuntime,
             domRuntime' = Put(domRuntime, cpu, NewEntry(slot, ran, rest)),
             garbage' = Put(garbage, cpu, [rest EXCEPT ![slot] = 0])
      PROVE  /\ LastExitToXen(cpu)' = ns /\ x = 0
             /\ \A d \in Slots : DomTimes(cpu)'[d] = IF d = slot THEN ran ELSE 0
             /\ DomTimes(cpu)' \in [Slots -> Times]
             /\ dt = [d \in Slots |-> 0]
             /\ DOMAIN domRuntime' = DOMAIN domRuntime \cup {cpu}
             /\ DOMAIN garbage' = DOMAIN domRuntime'
             /\ domRuntime'[cpu] \in DomEntries /\ garbage'[cpu] \in [Slots -> Times]
             /\ \A c \in DOMAIN domRuntime : c # cpu => /\ domRuntime'[c] = domRuntime[c]
                                                        /\ garbage'[c] = garbage[c]
  <2>1. /\ domRuntime'[cpu] = [lastExitToXen |-> ns, runtime |-> [rest EXCEPT ![slot] = ran]]
        /\ garbage'[cpu] = [rest EXCEPT ![slot] = 0]
        /\ DOMAIN domRuntime' = DOMAIN domRuntime \cup {cpu}
        /\ DOMAIN garbage' = DOMAIN garbage \cup {cpu}
        /\ \A c \in DOMAIN domRuntime : c # cpu => domRuntime'[c] = domRuntime[c]
        /\ \A c \in DOMAIN garbage : c # cpu => garbage'[c] = garbage[c]
    BY <1>6 DEF Put, NewEntry
  <2>. HIDE DEF ran
  <2>2. \A d \in Slots : DomTime(cpu, d)' = IF d = slot THEN ran ELSE 0
    <3>. SUFFICES ASSUME NEW d \in Slots PROVE DomTime(cpu, d)' = IF d = slot THEN ran ELSE 0
      OBVIOUS
    <3>1. DomTime(cpu, d)' = Minus([rest EXCEPT ![slot] = ran][d], [rest EXCEPT ![slot] = 0][d])
      BY <2>1, DomTimeIs
    <3>. QED
      BY <1>6, <3>1, NewTimes
  <2>3. /\ domRuntime'[cpu] \in DomEntries /\ garbage'[cpu] \in [Slots -> Times]
    <3>1. [rest EXCEPT ![slot] = ran] \in [Slots -> Times] /\ [rest EXCEPT ![slot] = 0] \in [Slots -> Times]
      BY <1>6, ZeroTime
    <3>. QED
      BY <1>1, <2>1, <3>1 DEF DomEntries
  <2>4. LastExitToXen(cpu)' = ns /\ x = 0
    BY <1>6, <2>1 DEF LastExitToXen
  <2>5. dt = [d \in Slots |-> 0]
    BY <1>6, DomTimeIs DEF DomTimes
  <2>6. /\ \A d \in Slots : DomTimes(cpu)'[d] = IF d = slot THEN ran ELSE 0
        /\ DomTimes(cpu)' \in [Slots -> Times]
    BY <1>6, <2>2, ZeroTime DEF DomTimes
  <2>. QED
    BY <1>4, <2>1, <2>3, <2>4, <2>5, <2>6
<1>7. /\ Settled(cpu) = Upto(x, g) /\ Settled(cpu)' = Upto(LastExitToXen(cpu)', g)
      /\ Counted(cpu) = xt + SumFunction(dt)
      /\ Counted(cpu)' = xt + SumFunction(DomTimes(cpu)')
  BY <1>3, LatestIs
<1>8. /\ h = << >> => cpu \notin DOMAIN xenRuntime /\ cpu \notin DOMAIN domRuntime
      /\ h # << >> => Known(x, g, xt, dt, h, Now)
  BY DEF TimeInv, CpuOK
<1>9. CpuOK(cpu)' = Known(LastExitToXen(cpu)', g, xt, DomTimes(cpu)', Append(h, exit), ns)
  BY <1>2, <1>3 DEF CpuOK
<1>. HIDE DEF h, x, g, xt, dt, ran
<1>10. CASE h = << >>
  <2>1. /\ cpu \notin DOMAIN xenRuntime /\ cpu \notin DOMAIN domRuntime
    BY <1>8, <1>10
  <2>2. xt = 0 /\ (\A d \in Slots : g[d] = 0) /\ ran = 0
    BY <2>1 DEF xt, g, ran, XenTime, GuestStamps, LastExitToGuest
  <2>3. PICK rest \in [Slots -> Garbage] :
          /\ domRuntime' = Put(domRuntime, cpu, NewEntry(slot, ran, rest))
          /\ garbage' = Put(garbage, cpu, [rest EXCEPT ![slot] = 0])
    BY <2>1 DEF ExitToXenHandler, ran
  <2>4. rest \in [Slots -> Times] /\ ran \in Times
    BY <2>2, GarbageAssumption, ZeroTime
  <2>. DEFINE e == DomTimes(cpu)'
  <2>5. /\ LastExitToXen(cpu)' = ns
        /\ \A d \in Slots : e[d] = IF d = slot THEN ran ELSE 0
        /\ e \in [Slots -> Times]
        /\ DOMAIN domRuntime' = DOMAIN domRuntime \cup {cpu}
        /\ DOMAIN garbage' = DOMAIN domRuntime'
        /\ domRuntime'[cpu] \in DomEntries /\ garbage'[cpu] \in [Slots -> Times]
        /\ \A c \in DOMAIN domRuntime : c # cpu => /\ domRuntime'[c] = domRuntime[c]
                                                   /\ garbage'[c] = garbage[c]
    BY <1>6, <2>1, <2>3, <2>4
  <2>6. e = [d \in Slots |-> 0]
    BY <2>2, <2>5
  <2>. HIDE DEF e
  <2>7. Known(ns, g, 0, e, <<exit>>, exit.ns) /\ Upto(ns, g) = exit.ns
    BY <1>1, <1>5, <2>2, <2>6, FirstExit
  <2>8. Append(h, exit) = <<exit>>
    BY <1>10
  <2>9. CpuOK(cpu)' /\ Settled(cpu)' = Now' /\ Counted(cpu)' = 0
    BY <1>1, <1>7, <1>9, <2>2, <2>5, <2>6, <2>7, <2>8, SumOfZeros DEF e
  <2>10. /\ TimeInv'
         /\ \A c \in Cpus : c # cpu => /\ seen'[c] = seen[c]
                                       /\ Settled(c)' = Settled(c)
                                       /\ Counted(c)' = Counted(c)
    BY <1>1, <1>2, <1>4, <2>5, <2>9, OneCpu
  <2>11. seen[cpu] = << >> /\ exit.ns = Now'
    BY <1>1, <1>10 DEF h
  <2>12. Ledger!Next
    BY <1>1, <1>2, <2>9, <2>10, <2>11, LedgerOpens, ZenonT(60)
  <2>. QED
    BY <2>10, <2>12
<1>11. ASSUME h # << >>, NEW e \in [Slots -> Times], e = DomTimes(cpu)',
              LastExitToXen(cpu)' = ns, NEW r,
              \/ x < g[slot] /\ r = ns - g[slot]
              \/ x = 0 /\ g[slot] = 0 /\ r = 0,
              e[slot] = dt[slot] + r, \A y \in Slots : y # slot => e[y] = dt[y],
              DOMAIN domRuntime' = DOMAIN domRuntime \cup {cpu},
              DOMAIN garbage' = DOMAIN domRuntime',
              domRuntime'[cpu] \in DomEntries, garbage'[cpu] \in [Slots -> Times],
              \A c \in DOMAIN domRuntime : c # cpu => /\ domRuntime'[c] = domRuntime[c]
                                                      /\ garbage'[c] = garbage[c]
       PROVE  TimeInv' /\ Ledger!Next
  <2>1. Known(x, g, xt, dt, h, Now)
    BY <1>8, <1>11
  <2>2. /\ r \in Nat /\ Upto(x, g) + r <= ns /\ Upto(x, g) \in Nat
    BY <1>1, <1>11, <2>1, DomTimeFits
  <2>3. /\ Known(ns, g, xt, e, Append(h, exit), ns)
        /\ Upto(ns, g) = ns /\ xt + SumFunction(e) = (xt + SumFunction(dt)) + r
    BY <1>1, <1>11, <2>1, DomTimeCounted
  <2>4. /\ CpuOK(cpu)' /\ Settled(cpu)' = Now' /\ Counted(cpu)' = Counted(cpu) + r
        /\ Settled(cpu) \in Nat /\ Settled(cpu) + r <= Now'
    BY <1>1, <1>7, <1>9, <1>11, <2>2, <2>3
  <2>5. /\ TimeInv'
        /\ \A c \in Cpus : c # cpu => /\ seen'[c] = seen[c]
                                      /\ Settled(c)' = Settled(c)
                                      /\ Counted(c)' = Counted(c)
    BY <1>1, <1>2, <1>4, <1>11, <2>4, OneCpu
  <2>6. seen[cpu] # << >>
    BY <1>11 DEF h
  <2>7. Ledger!Next
    BY <1>1, <1>2, <2>2, <2>4, <2>5, <2>6, LedgerCounts
  <2>. QED
    BY <2>5, <2>7
<1>12. ASSUME h # << >>, cpu \in DOMAIN domRuntime, x < g[slot],
              domRuntime' = [domRuntime EXCEPT ![cpu].lastExitToXen = ns,
                                               ![cpu].runtime[slot] = Plus(@, ran)],
              UNCHANGED garbage
       PROVE  TimeInv' /\ Ledger!Next
  <2>. DEFINE r == ns - g[slot]
              c == domRuntime[cpu]
              z == garbage[cpu]
              e == DomTimes(cpu)'
  <2>1. /\ r \in Times /\ r \in Nat /\ dt[slot] \in Nat /\ dt[slot] + r \in Times
        /\ x \in Nat
    <3>1. Known(x, g, xt, dt, h, Now)
      BY <1>8, <1>12
    <3>2. x \in Nat
      BY <3>1, FeedAssumption DEF Known, Stamps
    <3>. QED
      BY <1>1, <1>12, <3>1, <3>2, DomTimeFits
  <2>2. ran = r
    <3>1. g[slot] # 0 /\ g[slot] <= ns
      <4>1. r \in Nat
        BY <2>1
      <4>. QED
        BY <1>1, <1>5, <1>12, <2>1, <4>1
    <3>2. Minus(ns, g[slot]) = ns - g[slot]
      BY <1>1, <1>5, <3>1, MinusExact
    <3>. QED
      BY <1>3, <3>1, <3>2 DEF ran
  <2>3. c \in DomEntries /\ z \in [Slots -> Times] /\ c.runtime \in [Slots -> Times]
    BY <1>12 DEF TimeInv, DomEntries
  <2>4. /\ domRuntime'[cpu] = [lastExitToXen |-> ns,
                               runtime |-> [c.runtime EXCEPT ![slot] = Plus(@, r)]]
        /\ DOMAIN domRuntime' = DOMAIN domRuntime /\ DOMAIN garbage' = DOMAIN garbage
        /\ garbage'[cpu] = z
        /\ \A y \in DOMAIN domRuntime : y # cpu => /\ domRuntime'[y] = domRuntime[y]
                                                   /\ garbage'[y] = garbage[y]
    BY <1>12, <2>2, <2>3 DEF DomEntries
  <2>5. cpu \in DOMAIN domRuntime' /\ DOMAIN domRuntime' = DOMAIN domRuntime \cup {cpu}
        /\ DOMAIN garbage' = DOMAIN domRuntime' /\ LastExitToXen(cpu)' = ns
    <3>1. cpu \in DOMAIN domRuntime
      BY <1>12
    <3>2. DOMAIN domRuntime' = DOMAIN domRuntime /\ DOMAIN garbage' = DOMAIN domRuntime
      <4>1. DOMAIN garbage = DOMAIN domRuntime
        BY <1>12 DEF TimeInv
      <4>. QED
        BY <2>4, <4>1
    <3>3. cpu \in DOMAIN domRuntime' /\ DOMAIN domRuntime' = DOMAIN domRuntime \cup {cpu}
      BY ONLY <3>1, <3>2
    <3>4. LastExitToXen(cpu)' = domRuntime'[cpu].lastExitToXen
      BY ONLY <3>3 DEF LastExitToXen
    <3>. QED
      BY <2>4, <3>2, <3>3, <3>4
  <2>. HIDE DEF r, c, z
  <2>6. \A d \in Slots : /\ dt[d] = Minus(c.runtime[d], z[d])
                        /\ c.runtime[d] \in Times /\ z[d] \in Times
    BY <1>12, <2>3, DomTimeIs DEF dt, DomTimes, c, z
  <2>7. [c.runtime EXCEPT ![slot] = Plus(@, r)] \in [Slots -> Times]
    BY <2>1, <2>3, <2>6, PlusCases
  <2>8. domRuntime'[cpu] \in DomEntries /\ garbage'[cpu] \in [Slots -> Times]
    BY <1>1, <2>3, <2>4, <2>7 DEF DomEntries
  <2>9. \A d \in Slots : e[d] = Minus([c.runtime EXCEPT ![slot] = Plus(@, r)][d], z[d])
    <3>. SUFFICES ASSUME NEW d \in Slots
                  PROVE  DomTime(cpu, d)' = Minus([c.runtime EXCEPT ![slot] = Plus(@, r)][d], z[d])
      BY DEF DomTimes
    <3>1. DomTime(cpu, d)' = Minus(domRuntime'[cpu].runtime[d], garbage'[cpu][d])
      BY <2>5, DomTimeIs
    <3>2. domRuntime'[cpu].runtime[d] = [c.runtime EXCEPT ![slot] = Plus(@, r)][d]
      BY <2>4
    <3>. QED
      BY <2>4, <3>1, <3>2
  <2>10. e[slot] = dt[slot] + r
    <3>1. c.runtime[slot] \in Int /\ z[slot] \in Int /\ r \in Int
      BY <2>1, <2>6 DEF Times
    <3>2. Minus(c.runtime[slot], z[slot]) + r \in Times
      BY <2>1, <2>6
    <3>3. Minus(Plus(c.runtime[slot], r), z[slot]) = Minus(c.runtime[slot], z[slot]) + r
      BY <3>1, <3>2, MinusLater
    <3>4. e[slot] = Minus(Plus(c.runtime[slot], r), z[slot])
      BY <2>3, <2>9
    <3>. QED
      BY <2>6, <3>3, <3>4
  <2>11. \A y \in Slots : y # slot => e[y] = dt[y]
    BY <2>3, <2>6, <2>9
  <2>12. e \in [Slots -> Times]
    <3>1. \A d \in Slots : dt[d] \in Times
      BY <1>8, <1>12 DEF Known
    <3>2. e = [d \in Slots |-> e[d]]
      BY DEF DomTimes
    <3>. HIDE DEF e
    <3>3. \A d \in Slots : e[d] \in Times
      BY <2>1, <2>10, <2>11, <3>1
    <3>. QED
      BY <3>2, <3>3
  <2>13. x < g[slot] /\ r = ns - g[slot]
    BY <1>12 DEF r
  <2>14. e = DomTimes(cpu)'
    OBVIOUS
  <2>. HIDE DEF e
  <2>. QED
    BY <1>11, <1>12, <2>4, <2>8, <2>10, <2>11, <2>12, <2>5, <2>13, <2>14
<1>13. ASSUME h # << >>, cpu \in DOMAIN domRuntime, x >= g[slot], UNCHANGED <<domRuntime, garbage>>
       PROVE  TimeInv' /\ Ledger!Next
  <2>1. LastExitToXen(cpu)' = x /\ DomTimes(cpu)' = dt
    BY <1>13 DEF LastExitToXen, DomTimes, DomTime, Printed, LeftOver, x, dt
  <2>2. Known(x, g, xt, dt, Append(h, exit), ns)
    BY <1>1, <1>8, <1>13, ExitSkipped
  <2>3. CpuOK(cpu)' /\ Settled(cpu)' = Settled(cpu) /\ Counted(cpu)' = Counted(cpu)
    BY <1>7, <1>9, <2>1, <2>2
  <2>4. /\ domRuntime' = domRuntime /\ garbage' = garbage /\ xenRuntime' = xenRuntime
        /\ domRuntime'[cpu] \in DomEntries /\ garbage'[cpu] \in [Slots -> Times]
    BY <1>13 DEF TimeInv
  <2>5. /\ TimeInv'
        /\ \A c \in Cpus : c # cpu => /\ seen'[c] = seen[c]
                                      /\ Settled(c)' = Settled(c)
                                      /\ Counted(c)' = Counted(c)
    BY <1>1, <1>2, <1>4, <1>13, <2>3, <2>4, OneCpu
  <2>6. seen[cpu] # << >>
    BY <1>13 DEF h
  <2>7. Ledger!Next
    BY <1>1, <1>2, <2>3, <2>5, <2>6, LedgerStays
  <2>. QED
    BY <2>5, <2>7
<1>14. ASSUME h # << >>, cpu \notin DOMAIN domRuntime, NEW rest \in [Slots -> Garbage],
              domRuntime' = Put(domRuntime, cpu, NewEntry(slot, ran, rest)),
              garbage' = Put(garbage, cpu, [rest EXCEPT ![slot] = 0])
       PROVE  TimeInv' /\ Ledger!Next
  <2>1. x = 0 /\ Known(x, g, xt, dt, h, Now)
    BY <1>8, <1>14 DEF x, LastExitToXen
  <2>2. \/ x < g[slot] /\ ran = ns - g[slot]
        \/ x = 0 /\ g[slot] = 0 /\ ran = 0
    <3>1. CASE g[slot] = 0
      BY <1>3, <2>1, <3>1 DEF ran
    <3>2. CASE g[slot] # 0
      <4>1. g[slot] <= ns /\ x < g[slot]
        <5>1. Upto(x, g) <= Now /\ g[slot] <= Largest(g)
          BY <1>5, <2>1, LargestIs DEF Known
        <5>2. /\ Upto(x, g) = IF x < Largest(g) THEN Largest(g) ELSE x
              /\ x \in Nat /\ Largest(g) \in Nat
          BY <2>1, UptoIs DEF Known
        <5>. QED
          BY <1>1, <1>5, <2>1, <3>2, <5>1, <5>2
      <4>2. Minus(ns, g[slot]) = ns - g[slot]
        BY <1>1, <1>5, <4>1, MinusExact
      <4>. QED
        BY <1>3, <3>2, <4>1, <4>2 DEF ran
    <3>. QED
      BY <3>1, <3>2
  <2>3. ran \in Times
    BY <1>1, <2>1, <2>2, DomTimeFits
  <2>4. rest \in [Slots -> Times]
    BY GarbageAssumption
  <2>. DEFINE e == DomTimes(cpu)'
  <2>5. /\ LastExitToXen(cpu)' = ns
        /\ \A d \in Slots : e[d] = IF d = slot THEN ran ELSE 0
        /\ e \in [Slots -> Times]
        /\ dt = [d \in Slots |-> 0]
        /\ DOMAIN domRuntime' = DOMAIN domRuntime \cup {cpu}
        /\ DOMAIN garbage' = DOMAIN domRuntime'
        /\ domRuntime'[cpu] \in DomEntries /\ garbage'[cpu] \in [Slots -> Times]
        /\ \A c \in DOMAIN domRuntime : c # cpu => /\ domRuntime'[c] = domRuntime[c]
                                                   /\ garbage'[c] = garbage[c]
    BY <1>6, <1>14, <2>3, <2>4
  <2>6. e = DomTimes(cpu)'
    OBVIOUS
  <2>. HIDE DEF e
  <2>7. ran \in Nat
    BY <2>3, NsModulusAssumption DEF Times
  <2>8. e[slot] = dt[slot] + ran /\ \A y \in Slots : y # slot => e[y] = dt[y]
    BY <2>5, <2>7
  <2>. QED
    BY <1>11, <1>14, <2>2, <2>5, <2>6, <2>8
<1>15. \/ /\ cpu \in DOMAIN domRuntime /\ x < g[slot]
          /\ domRuntime' = [domRuntime EXCEPT ![cpu].lastExitToXen = ns,
                                              ![cpu].runtime[slot] = Plus(@, ran)]
          /\ UNCHANGED garbage
       \/ cpu \in DOMAIN domRuntime /\ x >= g[slot] /\ UNCHANGED <<domRuntime, garbage>>
       \/ /\ cpu \notin DOMAIN domRuntime
          /\ \E rest \in [Slots -> Garbage] :
               /\ domRuntime' = Put(domRuntime, cpu, NewEntry(slot, ran, rest))
               /\ garbage' = Put(garbage, cpu, [rest EXCEPT ![slot] = 0])
  BY <1>3 DEF ExitToXenHandler, ran, x
<1>. QED
  BY <1>10, <1>12, <1>13, <1>14, <1>15

(* exit_to_guest_handler *)
LEMMA GuestStep ==
    ASSUME TimeInv, FeedInv', ended' \in BOOLEAN, lostRecCount' \in Nat, NEW cpu \in Cpus, event'.cpu = cpu,
           NEW ns \in 1 .. MaxNs, event'.ns = ns, Now <= ns, Now' = ns,
           NEW slot \in Slots, ExitToGuestHandler(slot), See(ExitToGuest(slot)),
           UNCHANGED <<domRuntime, garbage>>
    PROVE  TimeInv' /\ Ledger!Next
<1>. DEFINE exit == [id |-> ExitToGuest(slot), ns |-> ns]
            h == seen[cpu]
            x == LastExitToXen(cpu)
            g == GuestStamps(cpu)
            xt == XenTime(cpu)
            dt == DomTimes(cpu)
            spent == IF x = 0 THEN 0 ELSE Minus(ns, x)
            new == [y \in Slots |-> IF y = slot THEN ns ELSE 0]
<1>1. /\ exit \in Exits /\ exit.id = ExitToGuest(slot) /\ exit.ns = ns
      /\ ns \in Nat /\ ns \in Stamps /\ Now \in Nat /\ Now <= Now' /\ Now' \in Nat
      /\ ns < NsModulus /\ ns > 0 /\ 0 \in Stamps /\ ended' \in BOOLEAN
  BY NowType, FeedAssumption, StampsFitAssumption, NsModulusAssumption
     DEF Exits, ExitIds, Stamps, TimeInv, FeedInv
<1>2. seen' = [seen EXCEPT ![cpu] = Append(@, exit)] /\ h \in Seq(Exits)
      /\ seen'[cpu] = Append(h, exit)
  BY DEF See, TimeInv
<1>. HIDE DEF exit
<1>3. /\ LastExitToXen(cpu)' = x /\ DomTimes(cpu)' = dt
      /\ LatestExitToGuest(cpu) = Largest(g)
  BY LatestIs DEF LastExitToXen, DomTimes, DomTime, Printed, LeftOver
<1>4. /\ DOMAIN domRuntime' = DOMAIN domRuntime
      /\ cpu \in DOMAIN domRuntime' => /\ domRuntime'[cpu] \in DomEntries
                                       /\ garbage'[cpu] \in [Slots -> Times]
      /\ DOMAIN garbage' = DOMAIN domRuntime'
      /\ \A c \in DOMAIN domRuntime : c # cpu => /\ domRuntime'[c] = domRuntime[c]
                                                 /\ garbage'[c] = garbage[c]
  BY DEF TimeInv
<1>5. x \in Nat /\ x \in Stamps
  BY FeedAssumption DEF LastExitToXen, TimeInv, DomEntries, Stamps
<1>6. /\ Settled(cpu) = Upto(x, g) /\ Settled(cpu)' = Upto(x, GuestStamps(cpu)')
      /\ Counted(cpu) = xt + SumFunction(dt)
      /\ Counted(cpu)' = XenTime(cpu)' + SumFunction(dt)
  BY <1>3, LatestIs
<1>7. /\ h = << >> => cpu \notin DOMAIN xenRuntime /\ cpu \notin DOMAIN domRuntime
      /\ h # << >> => Known(x, g, xt, dt, h, Now)
  BY DEF TimeInv, CpuOK
<1>8. CpuOK(cpu)' = Known(x, GuestStamps(cpu)', XenTime(cpu)', dt, Append(h, exit), ns)
  BY <1>2, <1>3 DEF CpuOK
<1>9. ASSUME cpu \notin DOMAIN xenRuntime, spent \in Times,
             xenRuntime' = Put(xenRuntime, cpu, [runtime |-> spent, exitToGuest |-> new])
      PROVE  /\ GuestStamps(cpu)' = new /\ new \in [Slots -> Stamps]
             /\ XenTime(cpu)' = spent /\ xt = 0 /\ \A d \in Slots : g[d] = 0
             /\ DOMAIN xenRuntime' = DOMAIN xenRuntime \cup {cpu}
             /\ xenRuntime'[cpu] \in XenEntries
             /\ \A c \in DOMAIN xenRuntime : c # cpu => xenRuntime'[c] = xenRuntime[c]
  <2>1. /\ xenRuntime'[cpu] = [runtime |-> spent, exitToGuest |-> new]
        /\ DOMAIN xenRuntime' = DOMAIN xenRuntime \cup {cpu}
        /\ \A c \in DOMAIN xenRuntime : c # cpu => xenRuntime'[c] = xenRuntime[c]
    BY <1>9 DEF Put
  <2>2. new \in [Slots -> Stamps] /\ new = [d \in Slots |-> new[d]]
    BY <1>1
  <2>. HIDE DEF new, spent
  <2>3. xenRuntime'[cpu] \in XenEntries
    BY <1>9, <2>1, <2>2 DEF XenEntries
  <2>4. cpu \in DOMAIN xenRuntime' /\ XenTime(cpu)' = spent
    BY <2>1 DEF XenTime
  <2>5. \A d \in Slots : LastExitToGuest(cpu, d)' = new[d]
    BY <2>1, <2>4 DEF LastExitToGuest
  <2>6. GuestStamps(cpu)' = new
    BY <2>2, <2>5 DEF GuestStamps
  <2>7. xt = 0 /\ \A d \in Slots : g[d] = 0
    BY <1>9 DEF XenTime, GuestStamps, LastExitToGuest
  <2>. QED
    BY <2>1, <2>2, <2>3, <2>4, <2>6, <2>7
<1>10. \A d \in Slots : new[d] = IF d = slot THEN ns ELSE 0
  OBVIOUS
<1>. HIDE DEF h, x, g, xt, dt, spent, new
<1>11. CASE h = << >>
  <2>1. cpu \notin DOMAIN xenRuntime /\ cpu \notin DOMAIN domRuntime
    BY <1>7, <1>11
  <2>2. x = 0 /\ spent = 0 /\ dt = [d \in Slots |-> 0] /\ spent \in Times
    BY <2>1, ZeroTime, DomTimeIs DEF x, spent, dt, LastExitToXen, DomTimes
  <2>3. xenRuntime' = Put(xenRuntime, cpu, [runtime |-> spent, exitToGuest |-> new])
    BY <2>1 DEF ExitToGuestHandler, spent, x, new
  <2>4. /\ GuestStamps(cpu)' = new /\ new \in [Slots -> Stamps]
        /\ XenTime(cpu)' = spent
        /\ DOMAIN xenRuntime' = DOMAIN xenRuntime \cup {cpu}
        /\ xenRuntime'[cpu] \in XenEntries
        /\ \A c \in DOMAIN xenRuntime : c # cpu => xenRuntime'[c] = xenRuntime[c]
    BY <1>9, <2>1, <2>2, <2>3
  <2>5. Known(x, new, 0, dt, <<exit>>, exit.ns) /\ Upto(x, new) = exit.ns
    BY <1>1, <1>5, <1>10, <2>2, <2>4, FirstExit
  <2>6. Append(h, exit) = <<exit>>
    BY <1>11
  <2>7. CpuOK(cpu)' /\ Settled(cpu)' = Now' /\ Counted(cpu)' = 0
    BY <1>1, <1>6, <1>8, <2>2, <2>4, <2>5, <2>6, SumOfZeros
  <2>8. /\ TimeInv'
        /\ \A c \in Cpus : c # cpu => /\ seen'[c] = seen[c]
                                      /\ Settled(c)' = Settled(c)
                                      /\ Counted(c)' = Counted(c)
    BY <1>1, <1>2, <1>4, <2>4, <2>7, OneCpu
  <2>9. seen[cpu] = << >> /\ exit.ns = Now'
    BY <1>1, <1>11 DEF h
  <2>10. Ledger!Next
    BY <1>1, <1>2, <2>7, <2>8, <2>9, LedgerOpens
  <2>. QED
    BY <2>8, <2>10
<1>12. ASSUME h # << >>, x > Largest(g), NEW f \in [Slots -> Stamps], GuestStamps(cpu)' = f,
              f[slot] = ns, \A y \in Slots : y # slot => f[y] = g[y],
              XenTime(cpu)' = xt + (ns - x),
              DOMAIN xenRuntime' = DOMAIN xenRuntime \cup {cpu},
              xenRuntime'[cpu] \in XenEntries,
              \A c \in DOMAIN xenRuntime : c # cpu => xenRuntime'[c] = xenRuntime[c]
       PROVE  TimeInv' /\ Ledger!Next
  <2>1. Known(x, g, xt, dt, h, Now)
    BY <1>7, <1>12
  <2>2. /\ ns - x \in Nat /\ xt \in Nat /\ Upto(x, g) = x /\ x <= ns
    BY <1>1, <1>12, <2>1, XenTimeFits
  <2>3. Known(x, f, xt + (ns - x), dt, Append(h, exit), ns) /\ Upto(x, f) = ns
    BY <1>1, <1>12, <2>1, XenTimeCounted
  <2>4. SumFunction(dt) \in Nat
    BY <2>1, SumIsNat DEF Known
  <2>. DEFINE r == ns - x
  <2>5. /\ CpuOK(cpu)' /\ Settled(cpu)' = Now' /\ Counted(cpu)' = Counted(cpu) + r
        /\ Settled(cpu) \in Nat /\ Settled(cpu) + r <= Now' /\ r \in Nat
    BY <1>1, <1>5, <1>6, <1>8, <1>12, <2>2, <2>3, <2>4
  <2>. HIDE DEF r
  <2>6. /\ TimeInv'
        /\ \A c \in Cpus : c # cpu => /\ seen'[c] = seen[c]
                                      /\ Settled(c)' = Settled(c)
                                      /\ Counted(c)' = Counted(c)
    BY <1>1, <1>2, <1>4, <1>12, <2>5, OneCpu
  <2>7. seen[cpu] # << >>
    BY <1>12 DEF h
  <2>8. Ledger!Next
    BY <1>1, <1>2, <2>5, <2>6, <2>7, LedgerCounts
  <2>. QED
    BY <2>6, <2>8
<1>13. ASSUME h # << >>, x > Largest(g)
       PROVE  ns - x \in Times /\ spent = ns - x /\ xt \in Nat /\ xt + (ns - x) \in Times
  <2>1. /\ ns - x \in Times /\ xt \in Nat /\ xt + (ns - x) \in Times /\ x <= ns /\ x # 0
    BY <1>1, <1>7, <1>13, XenTimeFits
  <2>2. Minus(ns, x) = ns - x
    BY <1>1, <1>5, <2>1, MinusExact
  <2>. QED
    BY <2>1, <2>2 DEF spent
<1>14. ASSUME h # << >>, cpu \in DOMAIN xenRuntime, x > Largest(g),
              xenRuntime' = [xenRuntime EXCEPT ![cpu].runtime = Plus(@, spent),
                                               ![cpu].exitToGuest[slot] = ns]
       PROVE  TimeInv' /\ Ledger!Next
  <2>. DEFINE c == xenRuntime[cpu]
              f == [c.exitToGuest EXCEPT ![slot] = ns]
  <2>1. /\ c \in XenEntries /\ c.exitToGuest \in [Slots -> Stamps] /\ c.runtime = xt
        /\ g = [d \in Slots |-> c.exitToGuest[d]]
    BY <1>14 DEF TimeInv, XenEntries, xt, g, XenTime, GuestStamps, LastExitToGuest
  <2>2. Plus(xt, spent) = xt + (ns - x)
    <3>1. spent = ns - x /\ xt \in Nat /\ xt + (ns - x) \in Times /\ ns - x \in Times
      BY <1>13, <1>14
    <3>2. \A a, b \in Times : a + b \in Times => Plus(a, b) = a + b
      BY NsModulusAssumption DEF Plus, Times
    <3>3. xt \in Times
      BY <1>7, <1>14 DEF Known
    <3>. QED
      BY <3>1, <3>2, <3>3
  <2>3. /\ xenRuntime'[cpu] = [runtime |-> xt + (ns - x), exitToGuest |-> f]
        /\ DOMAIN xenRuntime' = DOMAIN xenRuntime
        /\ \A y \in DOMAIN xenRuntime : y # cpu => xenRuntime'[y] = xenRuntime[y]
    BY <1>14, <2>1, <2>2 DEF XenEntries
  <2>4. /\ f \in [Slots -> Stamps] /\ f[slot] = ns
        /\ \A y \in Slots : y # slot => f[y] = g[y]
        /\ f = [d \in Slots |-> f[d]]
    BY <1>1, <2>1
  <2>5. cpu \in DOMAIN xenRuntime' /\ DOMAIN xenRuntime' = DOMAIN xenRuntime \cup {cpu}
    <3>1. cpu \in DOMAIN xenRuntime
      BY <1>14
    <3>. QED
      BY <2>3, <3>1
  <2>. HIDE DEF c, f
  <2>6. xenRuntime'[cpu] \in XenEntries /\ XenTime(cpu)' = xt + (ns - x)
    <3>1. xt + (ns - x) \in Times
      BY <1>13, <1>14
    <3>. QED
      BY <2>3, <2>4, <2>5, <3>1 DEF XenEntries, XenTime
  <2>7. \A d \in Slots : LastExitToGuest(cpu, d)' = f[d]
    BY <2>3, <2>5 DEF LastExitToGuest
  <2>8. GuestStamps(cpu)' = f
    BY <2>4, <2>7 DEF GuestStamps
  <2>. QED
    BY <1>12, <1>14, <2>3, <2>4, <2>5, <2>6, <2>8
<1>15. ASSUME h # << >>, cpu \in DOMAIN xenRuntime, x <= Largest(g), UNCHANGED xenRuntime
       PROVE  TimeInv' /\ Ledger!Next
  <2>1. GuestStamps(cpu)' = g /\ XenTime(cpu)' = xt
    BY <1>15 DEF LastExitToGuest, GuestStamps, XenTime, g, xt
  <2>2. Known(x, g, xt, dt, Append(h, exit), ns)
    BY <1>1, <1>7, <1>15, ExitSkipped
  <2>3. CpuOK(cpu)' /\ Settled(cpu)' = Settled(cpu) /\ Counted(cpu)' = Counted(cpu)
    BY <1>6, <1>8, <2>1, <2>2
  <2>4. xenRuntime' = xenRuntime /\ xenRuntime'[cpu] \in XenEntries
    BY <1>15 DEF TimeInv
  <2>5. /\ TimeInv'
        /\ \A c \in Cpus : c # cpu => /\ seen'[c] = seen[c]
                                      /\ Settled(c)' = Settled(c)
                                      /\ Counted(c)' = Counted(c)
    BY <1>1, <1>2, <1>4, <1>15, <2>3, <2>4, OneCpu
  <2>6. seen[cpu] # << >>
    BY <1>15 DEF h
  <2>7. Ledger!Next
    BY <1>1, <1>2, <2>3, <2>5, <2>6, LedgerStays
  <2>. QED
    BY <2>5, <2>7
<1>16. ASSUME h # << >>, cpu \notin DOMAIN xenRuntime,
              xenRuntime' = Put(xenRuntime, cpu, [runtime |-> spent, exitToGuest |-> new])
       PROVE  TimeInv' /\ Ledger!Next
  <2>1. \A d \in Slots : g[d] = 0
    BY <1>16 DEF g, GuestStamps, LastExitToGuest
  <2>2. x > Largest(g)
    <3>1. Known(x, g, xt, dt, h, Now)
      BY <1>7, <1>16
    <3>2. Largest(g) = 0
      BY <2>1, <3>1, LargestIs DEF Known
    <3>3. Upto(x, g) = IF x < Largest(g) THEN Largest(g) ELSE x
      BY <3>1, UptoIs DEF Known
    <3>4. h[1].ns \in 1 .. MaxNs /\ h[1].ns <= Upto(x, g)
      <4>1. h[1] \in Exits
        BY <3>1 DEF Known
      <4>. QED
        BY <3>1, <4>1 DEF Known, Exits
    <3>. QED
      BY <1>5, <3>2, <3>3, <3>4, FeedAssumption
  <2>3. spent \in Times /\ spent = ns - x
    BY <1>13, <1>16, <2>2
  <2>4. /\ GuestStamps(cpu)' = new /\ new \in [Slots -> Stamps]
        /\ XenTime(cpu)' = spent /\ xt = 0
        /\ DOMAIN xenRuntime' = DOMAIN xenRuntime \cup {cpu}
        /\ xenRuntime'[cpu] \in XenEntries
        /\ \A c \in DOMAIN xenRuntime : c # cpu => xenRuntime'[c] = xenRuntime[c]
    BY <1>9, <1>16, <2>3
  <2>5. XenTime(cpu)' = xt + (ns - x)
    BY <1>1, <1>5, <2>3, <2>4
  <2>6. new[slot] = ns /\ \A y \in Slots : y # slot => new[y] = g[y]
    BY <1>10, <2>1
  <2>. QED
    BY <1>12, <1>16, <2>2, <2>4, <2>5, <2>6
<1>17. \/ /\ cpu \in DOMAIN xenRuntime /\ x > Largest(g)
          /\ xenRuntime' = [xenRuntime EXCEPT ![cpu].runtime = Plus(@, spent),
                                              ![cpu].exitToGuest[slot] = ns]
       \/ cpu \in DOMAIN xenRuntime /\ x <= Largest(g) /\ UNCHANGED xenRuntime
       \/ /\ cpu \notin DOMAIN xenRuntime
          /\ xenRuntime' = Put(xenRuntime, cpu, [runtime |-> spent, exitToGuest |-> new])
  BY <1>3 DEF ExitToGuestHandler, spent, new, x
<1>. QED
  BY <1>11, <1>14, <1>15, <1>16, <1>17

-----------------------------------------------------------------------------
LEMMA TimeStep == TimeInv /\ [Next]_timeVars => TimeInv' /\ Ledger!Next
<1>. SUFFICES ASSUME TimeInv, [Next]_timeVars PROVE TimeInv' /\ Ledger!Next
  OBVIOUS
<1>1. FeedInv /\ Now \in Nat /\ ended \in BOOLEAN /\ lostRecCount \in Nat
  BY NowType DEF TimeInv, FeedInv
<1>2. ASSUME NEW cpu \in Cpus, NEW id \in EventIds, NEW ns \in 1 .. MaxNs,
             Record(cpu, id, ns)
      PROVE  TimeInv' /\ Ledger!Next
  <2>1. /\ FeedInv' /\ event'.cpu = cpu /\ event'.ns = ns
        /\ Now <= ns /\ Now' = ns /\ ns \in Nat
    BY <1>1, <1>2, FeedOK, FeedAssumption DEF Record
  <2>2. ended' \in BOOLEAN /\ lostRecCount' \in Nat
    BY <1>1, <1>2 DEF Record, LostRecordsHandler
  <2>3. ASSUME NEW dom \in Doms, ExitToXenHandler(SlotOf(dom)),
               See(ExitToXen(SlotOf(dom))), UNCHANGED xenRuntime
        PROVE  TimeInv' /\ Ledger!Next
    BY <2>1, <2>2, <2>3, SlotIsSlot, XenStep
  <2>4. ASSUME NEW dom \in Doms, ExitToGuestHandler(SlotOf(dom)),
               See(ExitToGuest(SlotOf(dom))), UNCHANGED <<domRuntime, garbage>>
        PROVE  TimeInv' /\ Ledger!Next
    BY <2>1, <2>2, <2>4, SlotIsSlot, GuestStep
  <2>5. CASE UNCHANGED <<xenRuntime, domRuntime, garbage, seen>>
    BY <2>1, <2>2, <2>5, TimeLater
  <2>. QED
    BY <1>2, <2>3, <2>4, <2>5 DEF Record
<1>3. ASSUME Finalize \/ UNCHANGED timeVars
      PROVE  TimeInv' /\ Ledger!Next
  <2>1. UNCHANGED feedVars /\ UNCHANGED <<xenRuntime, domRuntime, garbage, seen>>
    BY <1>3 DEF Finalize, timeVars
  <2>2. ended' \in BOOLEAN /\ lostRecCount' \in Nat
    BY <1>1, <1>3 DEF Finalize, timeVars
  <2>3. FeedInv' /\ Now' = Now
    BY <1>1, <2>1, FeedSame
  <2>4. Now <= Now' /\ Now' \in Nat
    BY <1>1, <2>3
  <2>. QED
    BY <2>1, <2>2, <2>3, <2>4, TimeLater
<1>. QED
  BY <1>2, <1>3 DEF Next

(* The lists have entries of CPUs of the log with stamps of the log and    *)
(* times of unsigned long long, whatever is recorded.                      *)
THEOREM TimeTypeCorrect == Spec => []TypeOK
<1>1. TimeInv => TypeOK
  <2>. SUFFICES ASSUME TimeInv PROVE TypeOK
    OBVIOUS
  <2>1. FeedTypeOK
    BY DEF TimeInv, FeedInv
  <2>. QED
    BY <2>1 DEF TimeInv, TypeOK, XenEntries, DomEntries, Stamps
<1>. QED
  BY <1>1, TimeInit, TimeStep, PTL DEF Spec

(* What is printed for a slot is its time and what its entry started with. *)
LEMMA PrintedIs ==
    ASSUME TimeInv, NEW cpu \in Cpus, NEW slot \in Slots
    PROVE  /\ Printed(cpu, slot) \in Times /\ LeftOver(cpu, slot) \in Times
           /\ Printed(cpu, slot) = Plus(DomTime(cpu, slot), LeftOver(cpu, slot))
<1>1. Printed(cpu, slot) \in Times /\ LeftOver(cpu, slot) \in Times
  BY ZeroTime DEF TimeInv, DomEntries, Printed, LeftOver
<1>2. ASSUME NEW p \in Times, NEW l \in Times PROVE Plus(Minus(p, l), l) = p
  <2>1. p \in Int /\ l \in Int /\ p - l \in Int /\ (p - l) + l = p
    BY NsModulusAssumption DEF Times
  <2>2. (((p - l) % NsModulus) + l) % NsModulus = ((p - l) + l) % NsModulus
    BY <2>1, NsModulusAssumption, WrapEarly
  <2>3. p % NsModulus = p
    BY SmallRemainder
  <2>. QED
    BY <2>1, <2>2, <2>3 DEF Plus, Minus
<1>. QED
  BY <1>1, <1>2 DEF DomTime

(* In a trace where exits to a guest and exits to Xen alternate and none   *)
(* is lost, Xen is charged the time after exits to Xen, and each slot is   *)
(* printed with the time after exits to its domains, to the nanosecond,    *)
(* and what malloc left in the entry.                                      *)
THEOREM TimeExactIfComplete == Spec => []ExactIfComplete
<1>1. TimeInv => ExactIfComplete
  <2>. SUFFICES ASSUME TimeInv, NEW cpu \in Cpus, Alternate(seen[cpu])
                PROVE  /\ XenTime(cpu) = TimeAfter(seen[cpu], XenIds)
                       /\ \A slot \in Slots : DomTime(cpu, slot) = TimeAfter(seen[cpu], {ExitToGuest(slot)})
    BY PrintedIs DEF ExactIfComplete, Complete, XenIds
  <2>1. CASE seen[cpu] = << >>
    <3>1. XenTime(cpu) = 0 /\ \A slot \in Slots : DomTime(cpu, slot) = 0
      BY <2>1, DomTimeIs DEF TimeInv, XenTime
    <3>2. \A ids : TimeAfter(<< >>, ids) = 0
      <4>. SUFFICES ASSUME NEW ids PROVE TimeAfter(<< >>, ids) = 0
        OBVIOUS
      <4>1. Len(<< >>) = 0 /\ 1 .. 0 - 1 = {}
        OBVIOUS
      <4>2. {i \in 1 .. Len(<< >>) - 1 : << >>[i].id \in ids} = {}
        BY <4>1
      <4>3. \A f : SumFunctionOnSet(f, {}) = 0
        BY SumUnfold, FS_EmptySet
      <4>. QED
        BY <4>2, <4>3 DEF TimeAfter
    <3>. QED
      BY <2>1, <3>1, <3>2
  <2>2. CASE seen[cpu] # << >>
    <3>1. CpuOK(cpu)
      BY <2>2 DEF TimeInv
    <3>2. /\ XenTime(cpu) = TimeAfter(seen[cpu], XenIds)
          /\ \A slot \in Slots : DomTimes(cpu)[slot] = TimeAfter(seen[cpu], {ExitToGuest(slot)})
      BY <3>1 DEF CpuOK, Known, Exact
    <3>. QED
      BY <3>2 DEF DomTimes
  <2>. QED
    BY <2>1, <2>2
<1>. QED
  BY <1>1, TimeInit, TimeStep, PTL DEF Spec

(* Whatever exits are missing, double or contradictory, a CPU settles its  *)
(* time in order and counts no moment twice, for Xen or for any domain:    *)
(* the analysis implements the ledger.                                     *)
THEOREM TimeImplementsLedger == Spec => ImplementsLedger
<1>1. TimeInv /\ [Next]_timeVars => TimeInv' /\ [Ledger!Next]_(Ledger!ledgerVars)
  BY TimeStep
<1>. QED
  BY <1>1, TimeInit, PTL DEF Spec, ImplementsLedger, Ledger!Spec

(* Where exit_to_xen met a CPU with an entry that malloc left zero, or has *)
(* not met it, the times printed for Xen and for all its slots are at most *)
(* the time from the CPU's first exit to the last one that counted.        *)
PrintedFits ==
    \A cpu \in Cpus :
      seen[cpu] # << >> /\ (\A slot \in Slots : LeftOver(cpu, slot) = 0) =>
        XenTime(cpu) + SumFunction([slot \in Slots |-> Printed(cpu, slot)])
          <= Settled(cpu) - seen[cpu][1].ns

(* What is added to a CPU's times, Xen's and all its domains' together,    *)
(* fits in the time it was observed: no moment is counted twice.  The      *)
(* printed times are this and what the new entry held, so they fit too if  *)
(* it held zeros, and need not otherwise.                                  *)
THEOREM TimeCountsOnce == Spec => [](Ledger!CountedOnce /\ PrintedFits)
<1>1. TimeInv => Ledger!CountedOnce /\ PrintedFits
  <2>. SUFFICES ASSUME TimeInv, NEW cpu \in Cpus, seen[cpu] # << >>
                PROVE  /\ Counted(cpu) >= 0
                       /\ Counted(cpu) <= Settled(cpu) - seen[cpu][1].ns
                       /\ Settled(cpu) <= Now
                       /\ (\A slot \in Slots : LeftOver(cpu, slot) = 0) =>
                            XenTime(cpu) + SumFunction([slot \in Slots |-> Printed(cpu, slot)])
                              = Counted(cpu)
    BY DEF Ledger!CountedOnce, LedgerOf, Now, PrintedFits
  <2>1. CpuOK(cpu)
    BY DEF TimeInv
  <2>2. XenTime(cpu) \in Nat /\ SumFunction(DomTimes(cpu)) \in Nat
    BY <2>1, SumIsNat, NsModulusAssumption DEF CpuOK, Known, Times
  <2>3. ASSUME \A slot \in Slots : LeftOver(cpu, slot) = 0
        PROVE  [slot \in Slots |-> Printed(cpu, slot)] = DomTimes(cpu)
    <3>. SUFFICES ASSUME NEW slot \in Slots PROVE Printed(cpu, slot) = DomTime(cpu, slot)
      BY DEF DomTimes
    <3>1. Printed(cpu, slot) \in Times
      BY PrintedIs
    <3>2. Minus(Printed(cpu, slot), 0) = Printed(cpu, slot)
      BY <3>1, SmallRemainder, NsModulusAssumption DEF Minus, Times
    <3>. QED
      BY <2>3, <3>2 DEF DomTime
  <2>. QED
    BY <2>1, <2>2, <2>3, LatestIs DEF CpuOK, Known
<1>. QED
  BY <1>1, TimeInit, TimeStep, PTL DEF Spec
=============================================================================
