--------------------------- MODULE CpuWaitProofs ---------------------------
(***************************************************************************)
(* The waits of cpu_wait for any domains, VCPUs, size of the table, width  *)
(* of the counters and of the buckets, and logs of any length.             *)
(***************************************************************************)
EXTENDS CpuWait, FeedTheorems

Remembered == [id : {Wake(v) : v \in Doms \X Vcpus} \cup {Switch(v) : v \in Doms \X Vcpus},
               ns : 1 .. MaxNs]

(* The wake-ups of a VCPU that its next switch would answer *)
Pending(v) == {j \in DOMAIN since : /\ since[j].id = Wake(v)
                                    /\ \A k \in j + 1 .. Len(since) : since[k].id[2] # v}

(* What domain_wake remembers of a VCPU is its pending wake-up. *)
WokenOK ==
    \A v \in Doms \X Vcpus :
      \/ WakeDomFlag(v) /\ \E j \in DOMAIN since : /\ Pending(v) = {j}
                                                   /\ woken[v].wakeNs = since[j].ns
      \/ ~ WakeDomFlag(v) /\ Pending(v) = {}

(* WaitsExact for every log: a VCPU woken while it waits is given the time *)
(* from its last wake-up on, and one switched to without a wake-up none.   *)
LastWakesExact ==
    \A dom \in Kept : SumOfSlots(SlotsOf(dom)) = TotalTime({w \in Waits : w.dom = dom})

-----------------------------------------------------------------------------
(* Ids, and the records kept of them *)
LEMMA IdsAre ==
    ASSUME NEW v \in Doms \X Vcpus
    PROVE  /\ v[1] \in Doms
           /\ Wake(v)[1] = "WAKE" /\ Wake(v)[2] = v /\ Switch(v)[1] = "SWITCH" /\ Switch(v)[2] = v
           /\ Wake(v) # LostRecords /\ Wake(v) # Other
           /\ Switch(v) # LostRecords /\ Switch(v) # Other
<1>1. Len(Wake(v)) = 2 /\ Len(Switch(v)) = 2 /\ Len(LostRecords) = 1 /\ Len(Other) = 1
  BY DEF Wake, Switch, LostRecords, Other
<1>. QED
  BY <1>1 DEF Wake, Switch

LEMMA RecordIs ==
    ASSUME NEW r \in Remembered
    PROVE  /\ r.id[2] \in Doms \X Vcpus /\ r.id[2][1] \in Doms /\ r.ns \in 1 .. MaxNs
           /\ r.ns \in Nat /\ MaxNs \in Nat
           /\ r.id \in {Wake(r.id[2]), Switch(r.id[2])}
<1>1. PICK v \in Doms \X Vcpus : r.id = Wake(v) \/ r.id = Switch(v)
  BY DEF Remembered
<1>2. r.ns \in 1 .. MaxNs /\ r.ns \in Nat /\ MaxNs \in Nat
  BY FeedAssumption DEF Remembered
<1>. QED
  BY <1>1, <1>2, IdsAre

-----------------------------------------------------------------------------
(* The waits, one by one *)
WaitOf(i, j) == [dom |-> since[i].id[2][1], switch |-> i, wake |-> j,
                 time |-> since[i].ns - since[j].ns]

LEMMA WaitsAre ==
    /\ \A w : w \in Waits <=> \E i, j \in DOMAIN since : Answers(i, j) /\ w = WaitOf(i, j)
    /\ \A w : w \in Waits' <=> \E i, j \in DOMAIN since' : Answers(i, j)' /\ w = WaitOf(i, j)'
<1>1. Waits = {WaitOf(x[1], x[2]) : x \in {y \in (DOMAIN since) \X (DOMAIN since) : Answers(y[1], y[2])}}
  BY DEF Waits, WaitOf
<1>2. \A w : w \in Waits <=> \E i, j \in DOMAIN since : Answers(i, j) /\ w = WaitOf(i, j)
  <2>1. ASSUME NEW w \in Waits
        PROVE  \E i, j \in DOMAIN since : Answers(i, j) /\ w = WaitOf(i, j)
    BY <1>1
  <2>2. ASSUME NEW i \in DOMAIN since, NEW j \in DOMAIN since, Answers(i, j)
        PROVE  WaitOf(i, j) \in Waits
    <3>1. <<i, j>> \in {y \in (DOMAIN since) \X (DOMAIN since) : Answers(y[1], y[2])}
      BY <2>2
    <3>. QED
      BY <1>1, <3>1
  <2>. QED
    BY <2>1, <2>2
<1>3. Waits' = {WaitOf(x[1], x[2])' : x \in {y \in (DOMAIN since') \X (DOMAIN since') : Answers(y[1], y[2])'}}
  BY DEF Waits, WaitOf
<1>4. \A w : w \in Waits' <=> \E i, j \in DOMAIN since' : Answers(i, j)' /\ w = WaitOf(i, j)'
  <2>1. ASSUME NEW w \in Waits'
        PROVE  \E i, j \in DOMAIN since' : Answers(i, j)' /\ w = WaitOf(i, j)'
    BY <1>3
  <2>2. ASSUME NEW i \in DOMAIN since', NEW j \in DOMAIN since', Answers(i, j)'
        PROVE  WaitOf(i, j)' \in Waits'
    <3>1. <<i, j>> \in {y \in (DOMAIN since') \X (DOMAIN since') : Answers(y[1], y[2])'}
      BY <2>2
    <3>. QED
      BY <1>3, <3>1
  <2>. QED
    BY <2>1, <2>2
<1>. QED
  BY <1>2, <1>4

(* One more record leaves the earlier waits, and can only add those that   *)
(* it ends itself.                                                         *)
LEMMA Appended ==
    ASSUME since \in Seq(Remembered), NEW r \in Remembered, since' = Append(since, r)
    PROVE  /\ since' \in Seq(Remembered) /\ Len(since) \in Nat /\ Len(since') = Len(since) + 1
           /\ DOMAIN since = 1 .. Len(since) /\ DOMAIN since' = 1 .. Len(since) + 1
           /\ DOMAIN since' = DOMAIN since \cup {Len(since) + 1}
           /\ Len(since) + 1 \notin DOMAIN since
           /\ since'[Len(since) + 1] = r
           /\ \A i \in DOMAIN since : since'[i] = since[i] /\ since[i] \in Remembered
OBVIOUS

LEMMA AnswersAre ==
    ASSUME since \in Seq(Remembered), NEW r \in Remembered, since' = Append(since, r),
           NEW n \in Nat, n = Len(since), NEW k, k = n + 1
    PROVE  /\ \A i, j \in 1 .. n : Answers(i, j)' <=> Answers(i, j)
           /\ \A i \in 1 .. n : ~ Answers(i, k)'
           /\ ~ Answers(k, k)'
           /\ \A j \in 1 .. n :
                Answers(k, j)' <=> r.id[1] = "SWITCH" /\ j \in Pending(r.id[2])
<1>1. /\ DOMAIN since = 1 .. n /\ since'[k] = r
      /\ \A i \in 1 .. n : since'[i] = since[i]
  BY Appended
<1>2. ASSUME NEW i \in 1 .. n, NEW j \in 1 .. n
      PROVE  Answers(i, j)' <=> Answers(i, j)
  <2>1. \A x \in j + 1 .. i - 1 : since'[x] = since[x]
    BY <1>1
  <2>2. since'[i] = since[i] /\ since'[j] = since[j]
    BY <1>1
  <2>. QED
    BY <2>1, <2>2 DEF Answers, Wake
<1>3. (\A i \in 1 .. n : ~ Answers(i, k)') /\ ~ Answers(k, k)'
  BY <1>1 DEF Answers
<1>4. ASSUME NEW j \in 1 .. n
      PROVE  Answers(k, j)' <=> r.id[1] = "SWITCH" /\ j \in Pending(r.id[2])
  <2>1. j < k /\ k - 1 = n
    OBVIOUS
  <2>2. \A x \in j + 1 .. n : since'[x] = since[x]
    BY <1>1
  <2>3. Answers(k, j)' <=> /\ r.id[1] = "SWITCH" /\ since[j].id = Wake(r.id[2])
                           /\ \A x \in j + 1 .. n : since[x].id[2] # r.id[2]
    BY <1>1, <2>1, <2>2 DEF Answers, Wake
  <2>. QED
    BY <1>1, <2>3 DEF Pending
<1>. QED
  BY <1>2, <1>3, <1>4

(* The wait that a switch r ends, begun by the wake-up since[j] *)
Ended(r, j) == [dom |-> r.id[2][1], switch |-> Len(since) + 1, wake |-> j,
                time |-> r.ns - since[j].ns]

LEMMA WaitsGrow ==
    ASSUME since \in Seq(Remembered), NEW r \in Remembered, since' = Append(since, r)
    PROVE  \A w : w \in Waits' <=>
                    \/ w \in Waits
                    \/ r.id[1] = "SWITCH" /\ \E j \in Pending(r.id[2]) : w = Ended(r, j)
<1>1. PICK n \in Nat : n = Len(since)
  BY Appended
<1>. DEFINE k == n + 1
            D == 1 .. n
<1>2. /\ DOMAIN since = D /\ DOMAIN since' = D \cup {k} /\ since'[k] = r
      /\ \A i \in D : since'[i] = since[i]
  BY <1>1, Appended
<1>3. /\ \A i, j \in D : WaitOf(i, j)' = WaitOf(i, j)
      /\ \A j \in D : WaitOf(k, j)' = Ended(r, j)
  <2>1. \A i, j \in D : WaitOf(i, j)' = WaitOf(i, j)
    BY <1>2 DEF WaitOf
  <2>2. \A j \in D : WaitOf(k, j)' = Ended(r, j)
    BY <1>1, <1>2 DEF WaitOf, Ended
  <2>. QED
    BY <2>1, <2>2
<1>4. /\ \A i, j \in D : Answers(i, j)' <=> Answers(i, j)
      /\ \A i \in D : ~ Answers(i, k)'
      /\ ~ Answers(k, k)'
      /\ \A j \in D : Answers(k, j)' <=> r.id[1] = "SWITCH" /\ j \in Pending(r.id[2])
  BY <1>1, AnswersAre
<1>5. Pending(r.id[2]) \subseteq D
  BY <1>2 DEF Pending
<1>6. \A w : w \in Waits <=> \E i, j \in D : Answers(i, j) /\ w = WaitOf(i, j)
  BY <1>2, WaitsAre
<1>7. \A w : w \in Waits' <=> \E i, j \in D \cup {k} : Answers(i, j)' /\ w = WaitOf(i, j)'
  BY <1>2, WaitsAre
<1>. HIDE DEF D, k
<1>8. ASSUME NEW w
      PROVE  w \in Waits' <=> \/ \E i, j \in D : Answers(i, j)' /\ w = WaitOf(i, j)'
                              \/ \E j \in D : Answers(k, j)' /\ w = WaitOf(k, j)'
  BY <1>4, <1>7
<1>9. ASSUME NEW w
      PROVE  /\ (\E i, j \in D : Answers(i, j)' /\ w = WaitOf(i, j)') <=> w \in Waits
             /\ (\E j \in D : Answers(k, j)' /\ w = WaitOf(k, j)') <=>
                  r.id[1] = "SWITCH" /\ \E j \in Pending(r.id[2]) : w = Ended(r, j)
  BY <1>3, <1>4, <1>5, <1>6
<1>. QED
  BY <1>8, <1>9

(* A wake-up is pending until the VCPU's next record. *)
LEMMA PendingAre ==
    ASSUME since \in Seq(Remembered), NEW r \in Remembered, since' = Append(since, r),
           NEW v \in Doms \X Vcpus
    PROVE  /\ r.id[2] # v => Pending(v)' = Pending(v)
           /\ r.id = Wake(v) => Pending(v)' = {Len(since) + 1}
           /\ r.id = Switch(v) => Pending(v)' = {}
<1>. DEFINE n == Len(since)
            k == n + 1
<1>1. /\ n \in Nat /\ DOMAIN since = 1 .. n /\ DOMAIN since' = 1 .. k /\ since'[k] = r
      /\ Len(since') = k /\ \A i \in 1 .. n : since'[i] = since[i]
  BY Appended
<1>2. /\ Pending(v) = {j \in 1 .. n : since[j].id = Wake(v) /\ \A x \in j + 1 .. n : since[x].id[2] # v}
      /\ Pending(v)' = {j \in 1 .. k : since'[j].id = Wake(v) /\ \A x \in j + 1 .. k : since'[x].id[2] # v}
  BY <1>1 DEF Pending, Wake
<1>. HIDE DEF n
<1>3. \A j \in 1 .. n : j + 1 .. k = (j + 1 .. n) \cup {k} /\ j + 1 .. n \subseteq 1 .. n
  BY <1>1
<1>4. k + 1 .. k = {} /\ 1 .. k = 1 .. n \cup {k} /\ k \notin 1 .. n
  BY <1>1
<1>5. /\ Wake(v)[1] = "WAKE" /\ Wake(v)[2] = v /\ Switch(v)[1] = "SWITCH" /\ Switch(v)[2] = v
  BY IdsAre
<1>. HIDE DEF k
<1>6. \A j \in 1 .. n : j \in Pending(v)' <=> j \in Pending(v) /\ r.id[2] # v
  <2>. SUFFICES ASSUME NEW j \in 1 .. n PROVE j \in Pending(v)' <=> j \in Pending(v) /\ r.id[2] # v
    OBVIOUS
  <2>1. \A x \in j + 1 .. n : since'[x] = since[x]
    BY <1>1, <1>3
  <2>2. j \in Pending(v)' <=> since[j].id = Wake(v) /\ \A x \in j + 1 .. k : since'[x].id[2] # v
    BY <1>1, <1>2, <1>4
  <2>3. (\A x \in j + 1 .. k : since'[x].id[2] # v)
          <=> (\A x \in j + 1 .. n : since[x].id[2] # v) /\ r.id[2] # v
    BY <1>1, <1>3, <2>1
  <2>. QED
    BY <1>2, <2>2, <2>3
<1>7. k \in Pending(v)' <=> r.id = Wake(v)
  BY <1>1, <1>2, <1>4
<1>8. Pending(v)' \subseteq 1 .. n \cup {k} /\ Pending(v) \subseteq 1 .. n
  BY <1>2, <1>4
<1>. QED
  BY <1>4, <1>5, <1>6, <1>7, <1>8 DEF k, n
-----------------------------------------------------------------------------
(* Sums that wrap around, of any function on a finite set *)
LEMMA WrappedEmpty ==
    ASSUME NEW h, DOMAIN h = {}
    PROVE  SumFunction(h) % NsModulus = 0
<1>1. SumFunction(h) = 0
  BY SumUnfold, FS_EmptySet DEF SumFunction
<1>. QED
  BY <1>1, NsModulusAssumption

LEMMA WrappedType ==
    ASSUME NEW h, IsFiniteSet(DOMAIN h), \A x \in DOMAIN h : h[x] \in Int
    PROVE  SumFunction(h) \in Int /\ SumFunction(h) % NsModulus \in Times
<1>1. SumFunction(h) \in Int
  BY SumType DEF SumFunction
<1>. QED
  BY <1>1, DivMod

LEMMA WrappedAdd ==
    ASSUME NEW h, IsFiniteSet(DOMAIN h), NEW g, NEW y, y \notin DOMAIN h,
           DOMAIN g = DOMAIN h \cup {y}, \A x \in DOMAIN g : g[x] \in Int,
           \A x \in DOMAIN h : g[x] = h[x]
    PROVE  SumFunction(g) % NsModulus = Plus(SumFunction(h) % NsModulus, g[y])
<1>. DEFINE S == DOMAIN h
            t == SumFunctionOnSet(h, S)
            a == g[y]
<1>1. SumFunctionOnSet(g, S \cup {y}) = g[y] + SumFunctionOnSet(g, S)
  <2>. HIDE DEF S
  <2>1. IsFiniteSet(S) /\ y \notin S /\ \A x \in S \cup {y} : g[x] \in Int
    BY DEF S
  <2>. QED
    BY <2>1, SumAdd
<1>2. SumFunctionOnSet(g, S) = t
  BY SumSame
<1>3. t \in Int /\ a \in Int
  BY SumType
<1>4. SumFunction(g) = a + t /\ SumFunction(h) = t
  BY <1>1, <1>2 DEF SumFunction
<1>. HIDE DEF t, a
<1>5. ((t % NsModulus) + a) % NsModulus = (t + a) % NsModulus /\ t + a = a + t
  BY <1>3, WrapEarly
<1>. QED
  BY <1>4, <1>5 DEF Plus, a

LEMMA WrappedUpdate ==
    ASSUME NEW h, IsFiniteSet(DOMAIN h), NEW g, NEW y \in DOMAIN h, DOMAIN g = DOMAIN h,
           \A x \in DOMAIN h : h[x] \in Int, NEW diff \in Int,
           \A x \in DOMAIN h : x # y => g[x] = h[x], g[y] = Plus(h[y], diff)
    PROVE  SumFunction(g) % NsModulus = Plus(SumFunction(h) % NsModulus, diff)
<1>. DEFINE t == SumFunction(h)
            a == h[y]
            b == g[y]
<1>1. a \in Int /\ b \in Int /\ t \in Int /\ b = (a + diff) % NsModulus
  BY WrappedType, DivMod DEF Plus, Times
<1>2. \A x \in DOMAIN h : h[x] \in Int /\ g[x] \in Int
  BY <1>1
<1>3. SumFunction(g) = t + (b - a)
  BY <1>2, SumUpdate DEF SumFunction
<1>. HIDE DEF t, a, b
<1>4. (((a + diff) % NsModulus) + (t - a)) % NsModulus = ((a + diff) + (t - a)) % NsModulus
  BY <1>1, WrapEarly
<1>5. /\ ((a + diff) % NsModulus) + (t - a) = t + (b - a)
      /\ (a + diff) + (t - a) = t + diff
  BY <1>1
<1>6. ((t % NsModulus) + diff) % NsModulus = (t + diff) % NsModulus
  BY <1>1, WrapEarly
<1>. QED
  BY <1>3, <1>4, <1>5, <1>6 DEF Plus, t

LEMMA WrappedZeros ==
    ASSUME NEW h, IsFiniteSet(DOMAIN h), \A x \in DOMAIN h : h[x] = 0
    PROVE  SumFunction(h) % NsModulus = 0
<1>. DEFINE Bad == {S \in SUBSET (DOMAIN h) : SumFunctionOnSet(h, S) # 0}
<1>1. Bad = {}
  <2>. SUFFICES ASSUME Bad # {} PROVE FALSE
    OBVIOUS
  <2>1. PICK S \in Bad : \A U \in Bad : U \subseteq S => U = S
    <3>1. Bad \in SUBSET (SUBSET (DOMAIN h))
      OBVIOUS
    <3>. HIDE DEF Bad
    <3>. QED
      BY <3>1, MinimalSubset
  <2>2. S \in SUBSET (DOMAIN h) /\ SumFunctionOnSet(h, S) # 0 /\ IsFiniteSet(S)
    BY FS_Subset
  <2>3. S # {}
    BY <2>2, SumUnfold
  <2>. DEFINE R == S \ {Pick(S)}
  <2>4. SumFunctionOnSet(h, S) = h[Pick(S)] + SumFunctionOnSet(h, R) /\ Pick(S) \in S
    BY <2>2, <2>3, SumUnfold, PickIn
  <2>5. R \notin Bad /\ R \in SUBSET (DOMAIN h)
    BY <2>1, <2>4
  <2>6. SumFunctionOnSet(h, R) = 0 /\ h[Pick(S)] = 0
    BY <2>2, <2>4, <2>5
  <2>. QED
    BY <2>2, <2>4, <2>6
<1>2. SumFunction(h) = 0
  BY <1>1 DEF SumFunction
<1>. QED
  BY <1>2, NsModulusAssumption

(* The two sums of the model *)
LEMMA TotalTimeIs ==
    /\ TotalTime({}) = 0
    /\ \A W : IsFiniteSet(W) /\ (\A w \in W : w.time \in Int) => TotalTime(W) \in Times
<1>1. TotalTime({}) = 0
  BY WrappedEmpty DEF TotalTime
<1>2. ASSUME NEW W, IsFiniteSet(W), \A w \in W : w.time \in Int
      PROVE  TotalTime(W) \in Times
  <2>. DEFINE h == [w \in W |-> w.time]
  <2>1. IsFiniteSet(DOMAIN h) /\ \A w \in DOMAIN h : h[w] \in Int
    BY <1>2
  <2>. HIDE DEF h
  <2>2. SumFunction(h) % NsModulus \in Times
    BY <2>1, WrappedType
  <2>. QED
    BY <2>2 DEF TotalTime, h
<1>. QED
  BY <1>1, <1>2

LEMMA OneMoreWait ==
    ASSUME NEW W, IsFiniteSet(W), \A w \in W : w.time \in Int, NEW x, x \notin W, x.time \in Int
    PROVE  TotalTime(W \cup {x}) = Plus(TotalTime(W), x.time)
<1>. DEFINE h == [w \in W |-> w.time]
            g == [w \in W \cup {x} |-> w.time]
<1>1. /\ DOMAIN h = W /\ DOMAIN g = W \cup {x} /\ g[x] = x.time
      /\ \A w \in W : g[w] = h[w] /\ h[w] \in Int
  OBVIOUS
<1>. HIDE DEF h, g
<1>2. SumFunction(g) % NsModulus = Plus(SumFunction(h) % NsModulus, g[x])
  BY <1>1, WrappedAdd
<1>. QED
  BY <1>1, <1>2 DEF TotalTime, h, g

SlotSum(f, S) == SumFunction([i \in S |-> f[i].domIdWaitTime]) % NsModulus

LEMMA SlotSumIs ==
    /\ \A S : SumOfSlots(S) = SlotSum(d, S)
    /\ \A S : SumOfSlots(S)' = SlotSum(d', S)
BY DEF SumOfSlots, SlotSum

LEMMA SlotSumSame ==
    ASSUME NEW f, NEW g, NEW S, \A i \in S : g[i].domIdWaitTime = f[i].domIdWaitTime
    PROVE  SlotSum(g, S) = SlotSum(f, S)
<1>1. [i \in S |-> g[i].domIdWaitTime] = [i \in S |-> f[i].domIdWaitTime]
  OBVIOUS
<1>. QED
  BY <1>1 DEF SlotSum

LEMMA SlotSumZeros ==
    ASSUME NEW f, NEW S, IsFiniteSet(S), \A i \in S : f[i].domIdWaitTime = 0
    PROVE  SlotSum(f, S) = 0
<1>. DEFINE h == [i \in S |-> f[i].domIdWaitTime]
<1>1. IsFiniteSet(DOMAIN h) /\ \A i \in DOMAIN h : h[i] = 0
  OBVIOUS
<1>. HIDE DEF h
<1>2. SumFunction(h) % NsModulus = 0
  BY <1>1, WrappedZeros
<1>. QED
  BY <1>2 DEF SlotSum, h

LEMMA SlotSumUpdate ==
    ASSUME NEW f, NEW g, NEW S, IsFiniteSet(S), \A i \in S : f[i].domIdWaitTime \in Int,
           NEW m \in S, NEW diff \in Int, g[m].domIdWaitTime = Plus(f[m].domIdWaitTime, diff),
           \A i \in S : i # m => g[i].domIdWaitTime = f[i].domIdWaitTime
    PROVE  SlotSum(g, S) = Plus(SlotSum(f, S), diff)
<1>. DEFINE h == [i \in S |-> f[i].domIdWaitTime]
            k == [i \in S |-> g[i].domIdWaitTime]
<1>1. /\ DOMAIN h = S /\ DOMAIN k = S /\ k[m] = Plus(h[m], diff)
      /\ \A i \in S : h[i] \in Int /\ (i # m => k[i] = h[i])
  OBVIOUS
<1>. HIDE DEF h, k
<1>2. SumFunction(k) % NsModulus = Plus(SumFunction(h) % NsModulus, diff)
  BY <1>1, WrappedUpdate
<1>. QED
  BY <1>2 DEF SlotSum, h, k

LEMMA SlotSumAdd ==
    ASSUME NEW f, NEW S, IsFiniteSet(S), NEW m, m \notin S,
           \A i \in S \cup {m} : f[i].domIdWaitTime \in Int
    PROVE  SlotSum(f, S \cup {m}) = Plus(SlotSum(f, S), f[m].domIdWaitTime)
<1>. DEFINE h == [i \in S |-> f[i].domIdWaitTime]
            k == [i \in S \cup {m} |-> f[i].domIdWaitTime]
<1>1. /\ DOMAIN h = S /\ DOMAIN k = S \cup {m} /\ k[m] = f[m].domIdWaitTime
      /\ \A i \in S : h[i] \in Int /\ k[i] = h[i]
      /\ \A i \in S \cup {m} : k[i] \in Int
  OBVIOUS
<1>. HIDE DEF h, k
<1>2. SumFunction(k) % NsModulus = Plus(SumFunction(h) % NsModulus, k[m])
  BY <1>1, WrappedAdd
<1>. QED
  BY <1>1, <1>2 DEF SlotSum, h, k

-----------------------------------------------------------------------------
(* A time is within the bounds of one bucket, the one it is put into. *)
LEMMA BucketsDivide ==
    ASSUME NEW time \in Nat
    PROVE  /\ BucketOf(time) \in 0 .. NumSamples
           /\ \A b \in 0 .. NumSamples : InBounds(time, b) <=> b = BucketOf(time)
<1>. DEFINE q == time \div BucketSize
<1>1. /\ BucketSize \in Nat \ {0} /\ NumSamples \in Nat \ {0}
  BY HistogramAssumption
<1>2. q \in Nat
  BY <1>1
<1>3. BucketOf(time) = IF q >= NumSamples THEN NumSamples ELSE q
  BY DEF BucketOf
<1>4. ASSUME NEW b \in Nat
      PROVE  /\ (time >= b * BucketSize <=> b <= q)
             /\ (time < (b + 1) * BucketSize <=> q <= b)
  BY <1>1, DividesBetween DEF q
<1>. HIDE DEF q
<1>5. ASSUME NEW b \in 0 .. NumSamples
      PROVE  InBounds(time, b) <=> b = BucketOf(time)
  <2>1. b \in Nat
    BY <1>1
  <2>2. InBounds(time, b) <=> b <= q /\ (b < NumSamples => q <= b)
    BY <1>4, <2>1 DEF InBounds
  <2>. QED
    BY <1>1, <1>2, <1>3, <2>1, <2>2
<1>. QED
  BY <1>1, <1>2, <1>3, <1>5
-----------------------------------------------------------------------------
(* The invariant.  While the table has room, a domain that is not in it    *)
(* has not waited; the first wait of a domain is told from the later ones  *)
(* by this.                                                                *)
WaitsOf(dom) == {w \in Waits : w.dom = dom}

WaitsOK ==
    /\ IsFiniteSet(Waits)
    /\ \A w \in Waits : w.dom \in Doms /\ w.time \in 0 .. MaxNs /\ w.switch \in DOMAIN since

NewAreNew == numDoms < MaxDoms => \A dom \in Doms : SlotsOf(dom) = {} => WaitsOf(dom) = {}

WaitInv ==
    /\ FeedInv
    /\ TypeOK
    /\ since \in Seq(Remembered)
    /\ \A j \in DOMAIN since : since[j].ns <= Now
    /\ WaitsOK
    /\ ~ ended => WokenOK
    /\ NewAreNew
    /\ LastWakesExact
    /\ TotalIsSum
    /\ HistogramMissesFirsts

(* The table and the waits, in terms of what a step changes *)
LEMMA TableIs ==
    /\ LastWakesExact <=> \A dom \in Doms : SlotsOf(dom) # {} \/ numDoms < MaxDoms =>
                        SlotSum(d, SlotsOf(dom)) = TotalTime(WaitsOf(dom))
    /\ LastWakesExact' <=> \A dom \in Doms : SlotsOf(dom)' # {} \/ numDoms' < MaxDoms =>
                         SlotSum(d', SlotsOf(dom)') = TotalTime(WaitsOf(dom)')
    /\ TotalIsSum <=> totalWaitTime = SlotSum(d, 0 .. numDoms - 1)
    /\ TotalIsSum' <=> totalWaitTime' = SlotSum(d', 0 .. numDoms' - 1)
<1>1. LastWakesExact <=> \A dom \in Doms : SlotsOf(dom) # {} \/ numDoms < MaxDoms =>
                       SlotSum(d, SlotsOf(dom)) = TotalTime(WaitsOf(dom))
  BY DEF LastWakesExact, Kept, SumOfSlots, SlotSum, WaitsOf, TotalTime
<1>2. LastWakesExact' <=> \A dom \in Doms : SlotsOf(dom)' # {} \/ numDoms' < MaxDoms =>
                        SlotSum(d', SlotsOf(dom)') = TotalTime(WaitsOf(dom)')
  BY DEF LastWakesExact, Kept, SumOfSlots, SlotSum, WaitsOf, TotalTime
<1>3. TotalIsSum <=> totalWaitTime = SlotSum(d, 0 .. numDoms - 1)
  BY DEF TotalIsSum, SumOfSlots, SlotSum
<1>4. TotalIsSum' <=> totalWaitTime' = SlotSum(d', 0 .. numDoms' - 1)
  BY DEF TotalIsSum, SumOfSlots, SlotSum
<1>. QED
  BY <1>1, <1>2, <1>3, <1>4

LEMMA SlotsAre ==
    ASSUME TypeOK
    PROVE  /\ MaxDoms \in Nat /\ numDoms \in Nat /\ numDoms <= MaxDoms
           /\ 0 .. numDoms - 1 \subseteq Slots /\ IsFiniteSet(0 .. numDoms - 1)
           /\ \A dom : SlotsOf(dom) \subseteq 0 .. numDoms - 1 /\ IsFiniteSet(SlotsOf(dom))
           /\ \A i \in Slots : /\ d[i].domIdWaitTime \in Times /\ d[i].domIdWaitTime \in Int
                               /\ d[i].domId \in Doms \cup {0}
<1>1. MaxDoms \in Nat /\ numDoms \in Nat /\ numDoms <= MaxDoms
  BY DomsAssumption DEF TypeOK
<1>2. 0 .. numDoms - 1 \subseteq Slots /\ IsFiniteSet(0 .. numDoms - 1)
  BY <1>1, FS_Interval DEF Slots
<1>3. \A dom : SlotsOf(dom) \subseteq 0 .. numDoms - 1
  BY DEF SlotsOf
<1>4. \A dom : IsFiniteSet(SlotsOf(dom))
  BY <1>2, <1>3, FS_Subset
<1>5. \A i \in Slots : /\ d[i].domIdWaitTime \in Times /\ d[i].domIdWaitTime \in Int
                       /\ d[i].domId \in Doms \cup {0}
  BY DEF TypeOK, Times
<1>. QED
  BY <1>1, <1>2, <1>3, <1>4, <1>5

LEMMA LeastSlot ==
    ASSUME TypeOK, NEW dom, SlotsOf(dom) # {}
    PROVE  Min(SlotsOf(dom)) \in SlotsOf(dom)
<1>1. SlotsOf(dom) \subseteq Nat
  BY SlotsAre
<1>2. \E x \in SlotsOf(dom) : \A y \in SlotsOf(dom) : x <= y
  BY <1>1, LeastNatural
<1>. QED
  BY <1>2 DEF Min

(* One more wait: of its domain only *)
LEMMA WaitsOfAre ==
    ASSUME NEW x, Waits' = Waits \cup {x}, NEW dom
    PROVE  WaitsOf(dom)' = IF x.dom = dom THEN WaitsOf(dom) \cup {x} ELSE WaitsOf(dom)
BY DEF WaitsOf

LEMMA SumOfWaits ==
    ASSUME WaitsOK, NEW x, x \notin Waits, x.time \in Int, NEW dom
    PROVE  /\ TotalTime(WaitsOf(dom)) \in Times
           /\ TotalTime(WaitsOf(dom) \cup {x}) = Plus(TotalTime(WaitsOf(dom)), x.time)
<1>1. IsFiniteSet(WaitsOf(dom))
  <2>1. WaitsOf(dom) \in SUBSET Waits
    BY DEF WaitsOf
  <2>. QED
    BY <2>1, FS_Subset DEF WaitsOK
<1>2. \A w \in WaitsOf(dom) : w.time \in Int
  BY FeedAssumption DEF WaitsOf, WaitsOK
<1>3. x \notin WaitsOf(dom)
  BY DEF WaitsOf
<1>4. TotalTime(WaitsOf(dom)) \in Times
  BY <1>1, <1>2, TotalTimeIs
<1>. QED
  BY <1>1, <1>2, <1>3, <1>4, OneMoreWait

(* add_dom_wait_time, of a domain in the table *)
LEMMA KnownDom ==
    ASSUME TypeOK, NEW dom, NEW diff, AddToKnownDom(dom, diff)
    PROVE  /\ \E m \in SlotsOf(dom) :
                /\ m \in 0 .. numDoms - 1 /\ m \in Slots /\ d[m].domId = dom
                /\ d' = [d EXCEPT ![m].domIdWaitTime = Plus(@, diff)]
                /\ \A i \in Slots : i # m => d'[i] = d[i]
                /\ d'[m].domIdWaitTime = Plus(d[m].domIdWaitTime, diff)
           /\ numDoms' = numDoms /\ totalWaitTime' = Plus(totalWaitTime, diff)
           /\ \A e : SlotsOf(e)' = SlotsOf(e)
           /\ Kept' = Kept
<1>1. PICK m : m = Min(SlotsOf(dom)) /\ m \in SlotsOf(dom)
  BY LeastSlot DEF AddToKnownDom
<1>2. m \in 0 .. numDoms - 1 /\ m \in Slots /\ d[m].domId = dom
  BY <1>1, SlotsAre DEF SlotsOf
<1>3. d' = [d EXCEPT ![m].domIdWaitTime = Plus(@, diff)] /\ numDoms' = numDoms
      /\ totalWaitTime' = Plus(totalWaitTime, diff)
  BY <1>1 DEF AddToKnownDom
<1>4. /\ \A i \in Slots : i # m => d'[i] = d[i]
      /\ \A i \in Slots : d'[i].domId = d[i].domId
      /\ d'[m].domIdWaitTime = Plus(d[m].domIdWaitTime, diff)
  BY <1>2, <1>3 DEF TypeOK
<1>5. \A e : SlotsOf(e)' = SlotsOf(e)
  BY <1>3, <1>4, SlotsAre DEF SlotsOf
<1>6. Kept' = Kept
  BY <1>3, <1>5 DEF Kept
<1>. QED
  BY <1>1, <1>2, <1>3, <1>4, <1>5, <1>6

LEMMA KnownDomSums ==
    ASSUME TypeOK, WaitsOK, NewAreNew, LastWakesExact, TotalIsSum,
           NEW x, x \notin Waits, x.time \in Int, Waits' = Waits \cup {x},
           AddToKnownDom(x.dom, x.time)
    PROVE  NewAreNew' /\ LastWakesExact' /\ TotalIsSum'
<1>1. PICK m \in SlotsOf(x.dom) :
         /\ m \in 0 .. numDoms - 1 /\ m \in Slots /\ d[m].domId = x.dom
         /\ \A i \in Slots : i # m => d'[i] = d[i]
         /\ d'[m].domIdWaitTime = Plus(d[m].domIdWaitTime, x.time)
  BY KnownDom
<1>2. m \in 0 .. numDoms - 1 /\ m \in Slots /\ d[m].domId = x.dom
  BY <1>1
<1>3. numDoms' = numDoms /\ totalWaitTime' = Plus(totalWaitTime, x.time)
  BY KnownDom
<1>4. /\ \A i \in Slots : i # m => d'[i] = d[i]
      /\ d'[m].domIdWaitTime = Plus(d[m].domIdWaitTime, x.time)
  BY <1>1
<1>5. \A dom : SlotsOf(dom)' = SlotsOf(dom)
  BY KnownDom
<1>6. NewAreNew'
  <2>1. \A dom : SlotsOf(dom) = {} => WaitsOf(dom)' = WaitsOf(dom)
    BY <1>1, WaitsOfAre
  <2>. QED
    BY <1>3, <1>5, <2>1 DEF NewAreNew
<1>7. ASSUME NEW S, S \subseteq 0 .. numDoms - 1, m \in S
      PROVE  SlotSum(d', S) = Plus(SlotSum(d, S), x.time)
  <2>1. IsFiniteSet(S) /\ S \subseteq Slots
    BY <1>7, SlotsAre, FS_Subset
  <2>2. \A i \in S : d[i].domIdWaitTime \in Int /\ (i # m => d'[i].domIdWaitTime = d[i].domIdWaitTime)
    BY <1>4, <2>1, SlotsAre
  <2>3. PICK f, g, diff : f = d /\ g = d' /\ diff = x.time
    OBVIOUS
  <2>4. /\ \A i \in S : f[i].domIdWaitTime \in Int
        /\ \A i \in S : i # m => g[i].domIdWaitTime = f[i].domIdWaitTime
        /\ g[m].domIdWaitTime = Plus(f[m].domIdWaitTime, diff)
        /\ diff \in Int /\ m \in S /\ IsFiniteSet(S)
    BY <1>4, <1>7, <2>1, <2>2, <2>3
  <2>5. SlotSum(g, S) = Plus(SlotSum(f, S), diff)
    BY ONLY <2>4, SlotSumUpdate
  <2>. QED
    BY <2>3, <2>5
<1>8. ASSUME NEW dom \in Doms, SlotsOf(dom) # {} \/ numDoms < MaxDoms
      PROVE  SlotSum(d', SlotsOf(dom)) = TotalTime(WaitsOf(dom)')
  <2>1. SlotSum(d, SlotsOf(dom)) = TotalTime(WaitsOf(dom))
    BY <1>8, TableIs
  <2>2. CASE dom = x.dom
    <3>1. SlotSum(d', SlotsOf(dom)) = Plus(SlotSum(d, SlotsOf(dom)), x.time)
      BY <1>1, <1>7, <2>2, SlotsAre
    <3>2. WaitsOf(dom)' = WaitsOf(dom) \cup {x}
      BY <2>2, WaitsOfAre
    <3>. QED
      BY <2>1, <3>1, <3>2, SumOfWaits
  <2>3. CASE dom # x.dom
    <3>1. WaitsOf(dom)' = WaitsOf(dom)
      BY <2>3, WaitsOfAre
    <3>2. m \notin SlotsOf(dom)
      BY <1>2, <2>3 DEF SlotsOf
    <3>3. \A i \in SlotsOf(dom) : d'[i].domIdWaitTime = d[i].domIdWaitTime
      <4>1. \A i \in SlotsOf(dom) : i \in Slots
        BY SlotsAre
      <4>. QED
        BY <1>4, <3>2, <4>1
    <3>. QED
      BY <2>1, <3>1, <3>3, SlotSumSame
  <2>. QED
    BY <2>2, <2>3
<1>9. LastWakesExact'
  <2>1. \A dom \in Doms : SlotsOf(dom)' # {} \/ numDoms' < MaxDoms =>
                            SlotSum(d', SlotsOf(dom)') = TotalTime(WaitsOf(dom)')
    BY <1>3, <1>5, <1>8
  <2>. QED
    BY <2>1, TableIs
<1>10. TotalIsSum'
  <2>1. SlotSum(d', 0 .. numDoms - 1) = Plus(SlotSum(d, 0 .. numDoms - 1), x.time)
    BY <1>2, <1>7
  <2>. QED
    BY <1>3, <2>1, TableIs
<1>. QED
  BY <1>6, <1>9, <1>10

(* add_dom_wait_time, of a domain that is appended to the table *)
LEMMA NewDomSums ==
    ASSUME TypeOK, WaitsOK, NewAreNew, LastWakesExact, TotalIsSum,
           NEW x, x \notin Waits, x.time \in Times, x.dom \in Doms, Waits' = Waits \cup {x},
           AddNewDom(x.dom, x.time)
    PROVE  NewAreNew' /\ LastWakesExact' /\ TotalIsSum'
<1>1. PICK m : m = numDoms
  OBVIOUS
<1>2. /\ m \in Nat /\ m < MaxDoms /\ m \in Slots /\ m \notin 0 .. m - 1 /\ x.time \in Int
      /\ 0 .. (m + 1) - 1 = 0 .. m - 1 \cup {m} /\ 0 .. m - 1 \subseteq Slots
      /\ IsFiniteSet(0 .. m - 1)
  BY <1>1, SlotsAre DEF AddNewDom, Slots, Times
<1>3. /\ d' = [d EXCEPT ![m] = [domId |-> x.dom, domIdWaitTime |-> x.time]] /\ numDoms' = m + 1
      /\ totalWaitTime' = Plus(totalWaitTime, x.time) /\ SlotsOf(x.dom) = {}
  BY <1>1 DEF AddNewDom
<1>4. /\ \A i \in Slots : i # m => d'[i] = d[i]
      /\ d'[m].domId = x.dom /\ d'[m].domIdWaitTime = x.time
  BY <1>2, <1>3 DEF TypeOK
<1>5. /\ \A dom : SlotsOf(dom) = {i \in 0 .. m - 1 : d[i].domId = dom}
      /\ \A dom : SlotsOf(dom)' = {i \in 0 .. m - 1 \cup {m} : d'[i].domId = dom}
  BY <1>1, <1>2, <1>3 DEF SlotsOf
<1>6. /\ \A dom : dom # x.dom => SlotsOf(dom)' = SlotsOf(dom)
      /\ SlotsOf(x.dom)' = {m}
  <2>1. \A i \in 0 .. m - 1 : d'[i] = d[i]
    BY <1>2, <1>4
  <2>2. \A dom : dom # x.dom => SlotsOf(dom)' = SlotsOf(dom)
    BY <1>4, <1>5, <2>1
  <2>3. SlotsOf(x.dom)' = {m}
    BY <1>3, <1>4, <1>5, <2>1
  <2>. QED
    BY <2>2, <2>3
<1>7. \A i \in 0 .. m - 1 : d'[i].domIdWaitTime = d[i].domIdWaitTime /\ d[i].domIdWaitTime \in Int
  BY <1>2, <1>4, SlotsAre
<1>8. WaitsOf(x.dom) = {}
  BY <1>1, <1>2, <1>3 DEF NewAreNew
<1>9. ASSUME NEW dom \in Doms, dom # x.dom
      PROVE  SlotsOf(dom)' = SlotsOf(dom) /\ WaitsOf(dom)' = WaitsOf(dom)
  BY <1>6, <1>9, WaitsOfAre
<1>10. NewAreNew'
  BY <1>1, <1>2, <1>6, <1>9 DEF NewAreNew
<1>11. SlotSum(d', {m}) = TotalTime(WaitsOf(x.dom)')
  <2>1. WaitsOf(x.dom)' = {} \cup {x}
    BY <1>8, WaitsOfAre
  <2>2. TotalTime({} \cup {x}) = Plus(TotalTime({}), x.time)
    BY <1>2, FS_EmptySet, OneMoreWait
  <2>3. SlotSum(d', {} \cup {m}) = Plus(SlotSum(d', {}), d'[m].domIdWaitTime)
    <3>1. PICK f, S : f = d' /\ S = {}
      OBVIOUS
    <3>2. IsFiniteSet(S) /\ m \notin S /\ \A i \in S \cup {m} : f[i].domIdWaitTime \in Int
      BY <1>2, <1>4, <3>1, FS_EmptySet
    <3>3. SlotSum(f, S \cup {m}) = Plus(SlotSum(f, S), f[m].domIdWaitTime)
      BY <3>2, SlotSumAdd
    <3>. QED
      BY <3>1, <3>3
  <2>4. SlotSum(d', {}) = 0 /\ TotalTime({}) = 0
    BY FS_EmptySet, SlotSumZeros, TotalTimeIs
  <2>5. {} \cup {m} = {m}
    OBVIOUS
  <2>. QED
    BY <1>4, <2>1, <2>2, <2>3, <2>4, <2>5
<1>12. ASSUME NEW dom \in Doms
       PROVE  SlotSum(d', SlotsOf(dom)') = TotalTime(WaitsOf(dom)')
  <2>1. CASE dom = x.dom
    BY <1>6, <1>11, <2>1
  <2>2. CASE dom # x.dom
    <3>1. SlotSum(d, SlotsOf(dom)) = TotalTime(WaitsOf(dom))
      BY <1>1, <1>2, TableIs
    <3>2. \A i \in SlotsOf(dom) : d'[i].domIdWaitTime = d[i].domIdWaitTime
      BY <1>5, <1>7
    <3>. QED
      BY <1>9, <2>2, <3>1, <3>2, SlotSumSame
  <2>. QED
    BY <2>1, <2>2
<1>13. LastWakesExact'
  BY <1>12, TableIs
<1>14. TotalIsSum'
  <2>1. SlotSum(d', 0 .. m - 1) = SlotSum(d, 0 .. m - 1)
    BY <1>7, SlotSumSame
  <2>2. \A i \in 0 .. m - 1 \cup {m} : d'[i].domIdWaitTime \in Int
    BY <1>2, <1>4, <1>7
  <2>3. SlotSum(d', 0 .. m - 1 \cup {m}) = Plus(SlotSum(d', 0 .. m - 1), x.time)
    <3>1. PICK f, S : f = d' /\ S = 0 .. m - 1
      OBVIOUS
    <3>2. IsFiniteSet(S) /\ m \notin S /\ \A i \in S \cup {m} : f[i].domIdWaitTime \in Int
      BY <1>2, <2>2, <3>1
    <3>3. SlotSum(f, S \cup {m}) = Plus(SlotSum(f, S), f[m].domIdWaitTime)
      BY <3>2, SlotSumAdd
    <3>. QED
      BY <1>4, <3>1, <3>3
  <2>. QED
    BY <1>1, <1>2, <1>3, <2>1, <2>3, TableIs
<1>. QED
  BY <1>10, <1>13, <1>14

(* add_dom_wait_time, of a domain that the table has no room for *)
LEMMA FullTableSums ==
    ASSUME TypeOK, NewAreNew, LastWakesExact, TotalIsSum,
           NEW x, Waits' = Waits \cup {x}, TableFull(x.dom)
    PROVE  NewAreNew' /\ LastWakesExact' /\ TotalIsSum'
<1>1. d' = d /\ numDoms' = numDoms /\ totalWaitTime' = totalWaitTime /\ numDoms = MaxDoms
      /\ SlotsOf(x.dom) = {} /\ ~ (numDoms < MaxDoms)
  BY SlotsAre DEF TableFull
<1>2. \A dom : SlotsOf(dom)' = SlotsOf(dom)
  BY <1>1 DEF SlotsOf
<1>3. \A dom : SlotsOf(dom) # {} => WaitsOf(dom)' = WaitsOf(dom)
  BY <1>1, WaitsOfAre
<1>4. NewAreNew'
  BY <1>1 DEF NewAreNew
<1>5. LastWakesExact'
  <2>1. \A dom \in Doms : SlotsOf(dom)' # {} \/ numDoms' < MaxDoms =>
                            SlotSum(d', SlotsOf(dom)') = TotalTime(WaitsOf(dom)')
    BY <1>1, <1>2, <1>3, TableIs
  <2>. QED
    BY <2>1, TableIs
<1>6. TotalIsSum'
  BY <1>1, TableIs
<1>. QED
  BY <1>4, <1>5, <1>6
-----------------------------------------------------------------------------
(* The histogram *)
KeptWaits == {w \in Waits : w.dom \in Kept}
LaterWaits == {w \in KeptWaits : \E x \in KeptWaits : x.dom = w.dom /\ x.switch < w.switch}
InBucket(W, b) == {w \in W : InBounds(w.time, b)}

LEMMA HistogramIs ==
    /\ HistogramMissesFirsts <=>
         (~ ended => \A b \in 0 .. NumSamples :
                       /\ buckets[b] <= Cardinality(InBucket(KeptWaits, b))
                       /\ buckets[b] >= Cardinality(InBucket(LaterWaits, b)))
    /\ HistogramMissesFirsts' <=>
         (~ ended' => \A b \in 0 .. NumSamples :
                        /\ buckets'[b] <= Cardinality(InBucket(KeptWaits', b))
                        /\ buckets'[b] >= Cardinality(InBucket(LaterWaits', b)))
<1>1. HistogramMissesFirsts <=>
         (~ ended => \A b \in 0 .. NumSamples :
                       /\ buckets[b] <= Cardinality(InBucket(KeptWaits, b))
                       /\ buckets[b] >= Cardinality(InBucket(LaterWaits, b)))
  BY DEF HistogramMissesFirsts, KeptWaits, LaterWaits, InBucket
<1>2. HistogramMissesFirsts' <=>
         (~ ended' => \A b \in 0 .. NumSamples :
                        /\ buckets'[b] <= Cardinality(InBucket(KeptWaits', b))
                        /\ buckets'[b] >= Cardinality(InBucket(LaterWaits', b)))
  BY DEF HistogramMissesFirsts, KeptWaits, LaterWaits, InBucket, InBounds
<1>. QED
  BY <1>1, <1>2

LEMMA InBucketIs ==
    ASSUME NEW W, IsFiniteSet(W), NEW b
    PROVE  /\ Cardinality(InBucket(W, b)) \in Nat /\ IsFiniteSet(InBucket(W, b))
           /\ \A V : V \subseteq W =>
                Cardinality(InBucket(V, b)) \in Nat
                /\ Cardinality(InBucket(V, b)) <= Cardinality(InBucket(W, b))
<1>1. InBucket(W, b) \in SUBSET W
  BY DEF InBucket
<1>2. IsFiniteSet(InBucket(W, b))
  BY <1>1, FS_Subset
<1>3. \A V : V \subseteq W => InBucket(V, b) \in SUBSET InBucket(W, b)
  BY DEF InBucket
<1>. QED
  BY <1>2, <1>3, FS_Subset, FS_CardinalityType

LEMMA InBucketGrows ==
    ASSUME NEW W, IsFiniteSet(W), NEW x, x \notin W, x.time \in Nat, NEW b \in 0 .. NumSamples
    PROVE  Cardinality(InBucket(W \cup {x}, b)) =
             Cardinality(InBucket(W, b)) + IF b = BucketOf(x.time) THEN 1 ELSE 0
<1>1. InBucket(W \cup {x}, b) = IF b = BucketOf(x.time) THEN InBucket(W, b) \cup {x}
                                                        ELSE InBucket(W, b)
  BY BucketsDivide DEF InBucket
<1>2. x \notin InBucket(W, b) /\ IsFiniteSet(InBucket(W, b)) /\ Cardinality(InBucket(W, b)) \in Nat
  BY InBucketIs DEF InBucket
<1>3. Cardinality(InBucket(W, b) \cup {x}) = Cardinality(InBucket(W, b)) + 1
  BY <1>2, FS_AddElement
<1>. QED
  BY <1>1, <1>2, <1>3

LEMMA KeptAreFinite ==
    ASSUME WaitsOK
    PROVE  IsFiniteSet(KeptWaits) /\ IsFiniteSet(LaterWaits) /\ LaterWaits \subseteq KeptWaits
<1>1. KeptWaits \in SUBSET Waits /\ LaterWaits \in SUBSET Waits /\ LaterWaits \subseteq KeptWaits
  BY DEF KeptWaits, LaterWaits
<1>. QED
  BY <1>1, FS_Subset DEF WaitsOK

LEMMA KnownDomHistogram ==
    ASSUME TypeOK, since \in Seq(Remembered), ~ ended, WaitsOK, HistogramMissesFirsts,
           NEW x, x \notin Waits, x.time \in Nat, x.dom \in Doms, x.switch \in Int,
           \A w \in Waits : w.switch < x.switch, Waits' = Waits \cup {x},
           AddToKnownDom(x.dom, x.time)
    PROVE  HistogramMissesFirsts'
<1>1. Kept' = Kept /\ x.dom \in Kept
  BY KnownDom DEF Kept, AddToKnownDom
<1>2. KeptWaits' = KeptWaits \cup {x} /\ x \notin KeptWaits
  BY <1>1 DEF KeptWaits
<1>3. LaterWaits' \subseteq LaterWaits \cup {x}
  <2>1. ASSUME NEW w \in KeptWaits
        PROVE  ~ (x.switch < w.switch)
    <3>1. w \in Waits /\ w.switch < x.switch /\ w.switch \in Int
      BY DEF KeptWaits, WaitsOK
    <3>. QED
      BY <3>1
  <2>2. LaterWaits' = {w \in KeptWaits' : \E y \in KeptWaits' : y.dom = w.dom /\ y.switch < w.switch}
    BY DEF LaterWaits
  <2>. QED
    BY <1>2, <2>1, <2>2 DEF LaterWaits
<1>4. /\ IsFiniteSet(KeptWaits) /\ IsFiniteSet(LaterWaits) /\ x \notin LaterWaits
      /\ IsFiniteSet(LaterWaits \cup {x})
  BY <1>2, KeptAreFinite, FS_AddElement DEF LaterWaits
<1>5. /\ buckets \in [0 .. NumSamples -> Nat] /\ BucketOf(x.time) \in 0 .. NumSamples
      /\ buckets' = [buckets EXCEPT ![BucketOf(x.time)] = @ + 1]
  BY BucketsDivide DEF TypeOK, AddToKnownDom
<1>6. ASSUME NEW b \in 0 .. NumSamples
      PROVE  /\ buckets'[b] <= Cardinality(InBucket(KeptWaits', b))
             /\ buckets'[b] >= Cardinality(InBucket(LaterWaits', b))
  <2>. DEFINE more == IF b = BucketOf(x.time) THEN 1 ELSE 0
              k == Cardinality(InBucket(KeptWaits, b))
              l == Cardinality(InBucket(LaterWaits, b))
              m == Cardinality(InBucket(LaterWaits', b))
  <2>1. buckets[b] \in Nat /\ buckets'[b] = buckets[b] + more
    BY <1>5
  <2>2. Cardinality(InBucket(KeptWaits', b)) = k + more /\ k \in Nat
    BY <1>2, <1>4, InBucketGrows, InBucketIs
  <2>3. m <= l + more /\ m \in Nat /\ l \in Nat
    <3>1. Cardinality(InBucket(LaterWaits \cup {x}, b)) = l + more /\ l \in Nat
      BY <1>4, InBucketGrows, InBucketIs
    <3>. QED
      BY <1>3, <1>4, <3>1, InBucketIs
  <2>4. buckets[b] <= k /\ buckets[b] >= l
    BY HistogramIs
  <2>5. more \in Nat
    OBVIOUS
  <2>. HIDE DEF more, k, l, m
  <2>. QED
    BY <2>1, <2>2, <2>3, <2>4, <2>5 DEF m
<1>. QED
  BY <1>6, HistogramIs

LEMMA NewDomHistogram ==
    ASSUME TypeOK, ~ ended, WaitsOK, NewAreNew, HistogramMissesFirsts,
           NEW x, x \notin Waits, x.time \in Nat, x.dom \in Doms, x.switch \in Int,
           Waits' = Waits \cup {x}, AddNewDom(x.dom, x.time)
    PROVE  HistogramMissesFirsts'
<1>1. PICK m : m = numDoms
  OBVIOUS
<1>2. /\ m \in Nat /\ m < MaxDoms /\ m \in Slots
      /\ 0 .. (m + 1) - 1 = 0 .. m - 1 \cup {m} /\ 0 .. m - 1 \subseteq Slots /\ m \notin 0 .. m - 1
  BY <1>1, SlotsAre DEF AddNewDom, Slots
<1>3. /\ d' = [d EXCEPT ![m] = [domId |-> x.dom, domIdWaitTime |-> x.time]] /\ numDoms' = m + 1
      /\ SlotsOf(x.dom) = {} /\ buckets' = buckets
  BY <1>1 DEF AddNewDom
<1>4. /\ \A i \in 0 .. m - 1 : d'[i] = d[i]
      /\ d'[m].domId = x.dom
  BY <1>2, <1>3 DEF TypeOK
<1>5. /\ \A dom : SlotsOf(dom) = {i \in 0 .. m - 1 : d[i].domId = dom}
      /\ \A dom : SlotsOf(dom)' = {i \in 0 .. m - 1 \cup {m} : d'[i].domId = dom}
  BY <1>1, <1>2, <1>3 DEF SlotsOf
<1>6. \A w \in Waits : w.dom \in Doms /\ SlotsOf(w.dom) # {} /\ w.dom # x.dom
  <2>1. \A w \in Waits : w.dom \in Doms /\ w \in WaitsOf(w.dom)
    BY DEF WaitsOf, WaitsOK
  <2>. QED
    BY <1>1, <1>2, <1>3, <2>1 DEF NewAreNew
<1>7. Waits \subseteq KeptWaits /\ KeptWaits \subseteq Waits
  BY <1>6 DEF KeptWaits, Kept
<1>8. \A w \in Waits' : w.dom \in Kept'
  <2>1. \A dom : SlotsOf(dom) \subseteq SlotsOf(dom)'
    BY <1>4, <1>5
  <2>2. SlotsOf(x.dom)' # {}
    BY <1>4, <1>5
  <2>3. \A w \in Waits' : w.dom \in Doms /\ SlotsOf(w.dom)' # {}
    BY <1>6, <2>1, <2>2
  <2>4. Kept' = {dom \in Doms : SlotsOf(dom)' # {} \/ numDoms' < MaxDoms}
    BY DEF Kept
  <2>. QED
    BY <2>3, <2>4
<1>9. KeptWaits' = KeptWaits \cup {x} /\ x \notin KeptWaits
  BY <1>7, <1>8 DEF KeptWaits
<1>10. LaterWaits' = LaterWaits
  <2>1. LaterWaits' = {w \in KeptWaits' : \E y \in KeptWaits' : y.dom = w.dom /\ y.switch < w.switch}
    BY DEF LaterWaits
  <2>2. \A w \in KeptWaits : w.dom # x.dom
    BY <1>6, <1>7
  <2>3. ~ (x.switch < x.switch)
    OBVIOUS
  <2>4. ASSUME NEW w
        PROVE  w \in LaterWaits' <=> w \in LaterWaits \/ (w = x /\ x.switch < x.switch)
    BY <1>9, <2>1, <2>2 DEF LaterWaits
  <2>. QED
    BY <2>3, <2>4, <1>9 DEF LaterWaits
<1>11. IsFiniteSet(KeptWaits)
  BY KeptAreFinite
<1>12. ASSUME NEW b \in 0 .. NumSamples
       PROVE  /\ buckets'[b] <= Cardinality(InBucket(KeptWaits', b))
              /\ buckets'[b] >= Cardinality(InBucket(LaterWaits', b))
  <2>1. buckets[b] <= Cardinality(InBucket(KeptWaits, b)) /\ buckets[b] \in Nat
        /\ buckets[b] >= Cardinality(InBucket(LaterWaits, b))
    BY HistogramIs DEF TypeOK
  <2>2. /\ Cardinality(InBucket(KeptWaits, b)) \in Nat
        /\ \/ Cardinality(InBucket(KeptWaits', b)) = Cardinality(InBucket(KeptWaits, b)) + 1
           \/ Cardinality(InBucket(KeptWaits', b)) = Cardinality(InBucket(KeptWaits, b)) + 0
    BY <1>9, <1>11, InBucketGrows, InBucketIs
  <2>. QED
    BY <1>3, <1>10, <2>1, <2>2
<1>. QED
  BY <1>12, HistogramIs

LEMMA FullTableHistogram ==
    ASSUME TypeOK, ~ ended, ended' = ended, HistogramMissesFirsts,
           NEW x, Waits' = Waits \cup {x}, TableFull(x.dom)
    PROVE  HistogramMissesFirsts'
<1>1. d' = d /\ numDoms' = numDoms /\ buckets' = buckets /\ x.dom \notin Kept
  BY SlotsAre DEF TableFull, Kept
<1>2. Kept' = Kept
  BY <1>1 DEF Kept, SlotsOf
<1>3. KeptWaits' = KeptWaits
  BY <1>1, <1>2 DEF KeptWaits
<1>4. LaterWaits' = LaterWaits
  BY <1>3 DEF LaterWaits
<1>. QED
  BY <1>1, <1>3, <1>4, HistogramIs
-----------------------------------------------------------------------------
(* What the records since the last reset tell after one more *)
LEMMA RememberStep ==
    ASSUME WaitInv, NEW r \in Remembered, since' = Append(since, r), Now <= r.ns, Now' = r.ns
    PROVE  since' \in Seq(Remembered) /\ \A j \in DOMAIN since' : since'[j].ns <= Now'
<1>1. /\ since' \in Seq(Remembered) /\ DOMAIN since' = DOMAIN since \cup {Len(since) + 1}
      /\ since'[Len(since) + 1] = r
      /\ \A i \in DOMAIN since : since'[i] = since[i] /\ since[i] \in Remembered
  BY Appended DEF WaitInv
<1>2. Now \in Nat /\ r.ns \in Nat
  BY NowType, RecordIs DEF WaitInv, FeedInv
<1>3. \A j \in DOMAIN since : since[j].ns \in Nat /\ since[j].ns <= Now
  BY <1>1, RecordIs DEF WaitInv
<1>. QED
  BY <1>1, <1>2, <1>3

LEMMA WokenStep ==
    ASSUME WokenOK, since \in Seq(Remembered), NEW r \in Remembered, since' = Append(since, r),
           NEW v \in Doms \X Vcpus,
           \A u \in Doms \X Vcpus : u # v =>
             /\ WakeDomFlag(u)' <=> WakeDomFlag(u)
             /\ WakeDomFlag(u) => woken'[u] = woken[u],
           \/ r.id = Wake(v) /\ WakeDomFlag(v)' /\ woken'[v].wakeNs = r.ns
           \/ r.id = Switch(v) /\ ~ WakeDomFlag(v)'
    PROVE  WokenOK'
<1>1. PICK k : k = Len(since) + 1
  OBVIOUS
<1>2. /\ DOMAIN since' = DOMAIN since \cup {k} /\ since'[k] = r
      /\ \A i \in DOMAIN since : since'[i] = since[i]
  BY <1>1, Appended
<1>3. r.id[2] = v
  BY IdsAre
<1>4. ASSUME NEW u \in Doms \X Vcpus
      PROVE  \/ WakeDomFlag(u)' /\ \E j \in DOMAIN since' : /\ Pending(u)' = {j}
                                                            /\ woken'[u].wakeNs = since'[j].ns
             \/ ~ WakeDomFlag(u)' /\ Pending(u)' = {}
  <2>1. CASE u # v
    <3>1. Pending(u)' = Pending(u)
      BY <1>3, <2>1, PendingAre
    <3>2. \/ WakeDomFlag(u) /\ \E j \in DOMAIN since : /\ Pending(u) = {j}
                                                       /\ woken[u].wakeNs = since[j].ns
          \/ ~ WakeDomFlag(u) /\ Pending(u) = {}
      BY DEF WokenOK
    <3>. QED
      BY <1>2, <2>1, <3>1, <3>2
  <2>2. CASE u = v
    <3>1. CASE r.id = Wake(v) /\ WakeDomFlag(v)' /\ woken'[v].wakeNs = r.ns
      <4>1. Pending(v)' = {k}
        BY <1>1, <3>1, PendingAre
      <4>. QED
        BY <1>2, <2>2, <3>1, <4>1
    <3>2. CASE r.id = Switch(v) /\ ~ WakeDomFlag(v)'
      <4>1. Pending(v)' = {}
        BY <3>2, PendingAre
      <4>. QED
        BY <2>2, <3>2, <4>1
    <3>. QED
      BY <3>1, <3>2
  <2>. QED
    BY <2>1, <2>2
<1>. QED
  BY <1>4 DEF WokenOK

(* A step after which there are the same waits and the same table *)
LEMMA TableSame ==
    ASSUME WaitInv, Waits' = Waits, DOMAIN since \subseteq DOMAIN since',
           UNCHANGED <<d, numDoms, totalWaitTime>>,
           ended' \/ (UNCHANGED <<buckets, ended>>)
    PROVE  WaitsOK' /\ NewAreNew' /\ LastWakesExact' /\ TotalIsSum' /\ HistogramMissesFirsts'
<1>1. d' = d /\ numDoms' = numDoms /\ totalWaitTime' = totalWaitTime
  OBVIOUS
<1>2. WaitsOK'
  BY DEF WaitInv, WaitsOK
<1>3. \A dom : SlotsOf(dom)' = SlotsOf(dom) /\ WaitsOf(dom)' = WaitsOf(dom)
  BY <1>1 DEF SlotsOf, WaitsOf
<1>4. NewAreNew'
  BY <1>1, <1>3 DEF WaitInv, NewAreNew
<1>5. LastWakesExact'
  <2>1. \A dom \in Doms : SlotsOf(dom)' # {} \/ numDoms' < MaxDoms =>
                            SlotSum(d', SlotsOf(dom)') = TotalTime(WaitsOf(dom)')
    BY <1>1, <1>3, TableIs DEF WaitInv
  <2>. QED
    BY <2>1, TableIs
<1>6. TotalIsSum'
  BY <1>1, TableIs DEF WaitInv
<1>7. HistogramMissesFirsts'
  <2>1. Kept' = Kept
    BY <1>1, <1>3 DEF Kept
  <2>2. KeptWaits' = KeptWaits
    BY <2>1 DEF KeptWaits
  <2>3. LaterWaits' = LaterWaits
    BY <2>2 DEF LaterWaits
  <2>. QED
    BY <2>2, <2>3, HistogramIs DEF WaitInv
<1>. QED
  BY <1>2, <1>4, <1>5, <1>6, <1>7

(* domain_wake_handler *)
LEMMA WakeStep ==
    ASSUME WaitInv, ~ ended, FeedInv', event'.ns \in 1 .. MaxNs, Now <= event'.ns,
           Now' = event'.ns, NEW v \in Doms \X Vcpus, DomainWake(v)
    PROVE  WaitInv'
<1>1. PICK r : r = [id |-> Wake(v), ns |-> event'.ns]
  OBVIOUS
<1>2. /\ r \in Remembered /\ r.id = Wake(v) /\ r.ns = event'.ns /\ since' = Append(since, r)
      /\ since \in Seq(Remembered) /\ WokenOK /\ r.id[1] = "WAKE"
  BY <1>1, IdsAre DEF DomainWake, Remember, Remembered, WaitInv
<1>3. /\ woken' = Put(woken, v, [wakeDomFlag |-> TRUE, wakeNs |-> r.ns])
      /\ UNCHANGED <<d, numDoms, totalWaitTime, buckets, ended>>
  BY <1>2 DEF DomainWake
<1>4. /\ DOMAIN woken' = DOMAIN woken \cup {v}
      /\ woken'[v] = [wakeDomFlag |-> TRUE, wakeNs |-> r.ns]
      /\ \A u \in DOMAIN woken : u # v => woken'[u] = woken[u]
  BY <1>3 DEF Put
<1>5. TypeOK'
  <2>1. [wakeDomFlag |-> TRUE, wakeNs |-> r.ns] \in [wakeDomFlag : BOOLEAN, wakeNs : 0 .. MaxNs]
    BY <1>2, FeedAssumption
  <2>2. \A u \in DOMAIN woken' : woken'[u] \in [wakeDomFlag : BOOLEAN, wakeNs : 0 .. MaxNs]
    BY <1>4, <2>1 DEF WaitInv, TypeOK
  <2>3. DOMAIN woken' \subseteq Doms \X Vcpus
    BY <1>4 DEF WaitInv, TypeOK
  <2>. QED
    BY <1>3, <2>2, <2>3 DEF WaitInv, TypeOK, FeedInv
<1>6. since' \in Seq(Remembered) /\ \A j \in DOMAIN since' : since'[j].ns <= Now'
  BY <1>2, RememberStep
<1>7. WokenOK'
  <2>1. WakeDomFlag(v)' /\ woken'[v].wakeNs = r.ns
    BY <1>4 DEF WakeDomFlag
  <2>2. ASSUME NEW u \in Doms \X Vcpus, u # v
        PROVE  /\ WakeDomFlag(u)' <=> WakeDomFlag(u)
               /\ WakeDomFlag(u) => woken'[u] = woken[u]
    BY <1>4, <2>2 DEF WakeDomFlag
  <2>. QED
    BY <1>2, <2>1, <2>2, WokenStep
<1>8. Waits' = Waits
  BY <1>2, WaitsGrow
<1>9. DOMAIN since \subseteq DOMAIN since'
  BY <1>2, Appended
<1>. QED
  BY <1>3, <1>5, <1>6, <1>7, <1>8, <1>9, TableSame DEF WaitInv

(* The table's part of switch_sched_handler stays well-typed. *)
LEMMA TableTyped ==
    ASSUME TypeOK, ~ ended, NEW dom \in Doms, NEW diff \in Times, diff \in Nat,
           AddToKnownDom(dom, diff) \/ AddNewDom(dom, diff) \/ TableFull(dom)
    PROVE  /\ d' \in [Slots -> [domId : Doms \cup {0}, domIdWaitTime : Times]]
           /\ numDoms' \in 0 .. MaxDoms /\ totalWaitTime' \in Times
           /\ buckets' \in [0 .. NumSamples -> Nat]
<1>1. /\ d \in [Slots -> [domId : Doms \cup {0}, domIdWaitTime : Times]]
      /\ numDoms \in 0 .. MaxDoms /\ totalWaitTime \in Times
      /\ buckets \in [0 .. NumSamples -> Nat]
  BY DEF TypeOK
<1>2. CASE AddToKnownDom(dom, diff)
  <2>1. PICK m \in Slots : /\ d' = [d EXCEPT ![m].domIdWaitTime = Plus(@, diff)]
                           /\ d'[m].domIdWaitTime = Plus(d[m].domIdWaitTime, diff)
    BY <1>2, KnownDom
  <2>2. Plus(d[m].domIdWaitTime, diff) \in Times /\ Plus(totalWaitTime, diff) \in Times
    BY <1>1, PlusCases
  <2>3. d' \in [Slots -> [domId : Doms \cup {0}, domIdWaitTime : Times]]
    BY <1>1, <2>1, <2>2
  <2>4. buckets' \in [0 .. NumSamples -> Nat]
    <3>1. buckets' = [buckets EXCEPT ![BucketOf(diff)] = @ + 1]
      BY <1>2 DEF AddToKnownDom
    <3>2. BucketOf(diff) \in 0 .. NumSamples
      BY BucketsDivide
    <3>. QED
      BY <1>1, <3>1, <3>2
  <2>5. numDoms' = numDoms /\ totalWaitTime' = Plus(totalWaitTime, diff)
    BY <1>2 DEF AddToKnownDom
  <2>. QED
    BY <1>1, <2>2, <2>3, <2>4, <2>5
<1>3. CASE AddNewDom(dom, diff)
  <2>1. Plus(totalWaitTime, diff) \in Times
    BY <1>1, PlusCases
  <2>2. /\ d' = [d EXCEPT ![numDoms] = [domId |-> dom, domIdWaitTime |-> diff]]
        /\ numDoms' = numDoms + 1 /\ numDoms < MaxDoms
        /\ totalWaitTime' = Plus(totalWaitTime, diff) /\ buckets' = buckets
    BY <1>3 DEF AddNewDom
  <2>3. numDoms' \in 0 .. MaxDoms
    BY <1>1, <2>2, DomsAssumption
  <2>4. [domId |-> dom, domIdWaitTime |-> diff] \in [domId : Doms \cup {0}, domIdWaitTime : Times]
    OBVIOUS
  <2>5. d' \in [Slots -> [domId : Doms \cup {0}, domIdWaitTime : Times]]
    BY <1>1, <2>2, <2>4
  <2>. QED
    BY <1>1, <2>1, <2>2, <2>3, <2>5
<1>4. CASE TableFull(dom)
  BY <1>1, <1>4 DEF TableFull
<1>. QED
  BY <1>2, <1>3, <1>4

(* switch_sched_handler *)
LEMMA SwitchStep ==
    ASSUME WaitInv, ~ ended, FeedInv', event'.ns \in 1 .. MaxNs, Now <= event'.ns,
           Now' = event'.ns, NEW v \in Doms \X Vcpus, SwitchSched(v)
    PROVE  WaitInv'
<1>1. PICK r : r = [id |-> Switch(v), ns |-> event'.ns]
  OBVIOUS
<1>2. /\ r \in Remembered /\ r.id = Switch(v) /\ r.ns = event'.ns /\ since' = Append(since, r)
      /\ since \in Seq(Remembered) /\ WokenOK /\ r.id[1] = "SWITCH" /\ r.id[2] = v /\ v[1] \in Doms
      /\ ended' = ended
  BY <1>1, IdsAre DEF SwitchSched, Remember, Remembered, WaitInv
<1>3. since' \in Seq(Remembered) /\ \A j \in DOMAIN since' : since'[j].ns <= Now'
  BY <1>2, RememberStep
<1>4. DOMAIN since \subseteq DOMAIN since' /\ Len(since) + 1 \in DOMAIN since' /\ Len(since) \in Nat
      /\ DOMAIN since = 1 .. Len(since) /\ \A j \in DOMAIN since : since[j] \in Remembered
  BY <1>2, Appended
<1>5. CASE ~ WakeDomFlag(v)
  <2>1. UNCHANGED <<woken, d, numDoms, totalWaitTime, buckets>>
    BY <1>5 DEF SwitchSched
  <2>2. TypeOK'
    BY <1>2, <2>1 DEF WaitInv, TypeOK, FeedInv
  <2>3. WokenOK'
    <3>1. ASSUME NEW u \in Doms \X Vcpus
          PROVE  (WakeDomFlag(u)' <=> WakeDomFlag(u)) /\ woken'[u] = woken[u]
      BY <2>1 DEF WakeDomFlag
    <3>. QED
      BY <1>2, <1>5, <3>1, WokenStep
  <2>4. Waits' = Waits
    <3>1. Pending(v) = {}
      BY <1>2, <1>5 DEF WokenOK
    <3>. QED
      BY <1>2, <3>1, WaitsGrow
  <2>. QED
    BY <1>2, <1>3, <1>4, <2>1, <2>2, <2>3, <2>4, TableSame DEF WaitInv
<1>6. CASE WakeDomFlag(v)
  <2>1. PICK j \in DOMAIN since : Pending(v) = {j} /\ woken[v].wakeNs = since[j].ns
    BY <1>2, <1>6 DEF WokenOK
  <2>2. PICK x : x = Ended(r, j)
    OBVIOUS
  <2>3. x.dom = v[1] /\ x.switch = Len(since) + 1 /\ x.time = r.ns - since[j].ns
    BY <1>2, <2>2 DEF Ended
  <2>4. /\ x.time \in 0 .. MaxNs /\ x.time \in Nat /\ x.time \in Times /\ x.time \in Int
        /\ Minus(event'.ns, woken[v].wakeNs) = x.time
    <3>1. since[j].ns \in 1 .. MaxNs /\ since[j].ns \in Nat /\ since[j].ns <= Now /\ Now \in Nat
      BY <1>4, RecordIs, NowType DEF WaitInv, FeedInv
    <3>2. r.ns \in Nat /\ r.ns <= MaxNs /\ Now <= r.ns /\ MaxNs \in Nat /\ MaxNs < NsModulus
      BY <1>2, RecordIs, StampsFitAssumption
    <3>3. since[j].ns <= r.ns /\ r.ns < NsModulus /\ NsModulus \in Nat
      BY <3>1, <3>2, NsModulusAssumption
    <3>4. Minus(r.ns, since[j].ns) = r.ns - since[j].ns
      BY <3>1, <3>2, <3>3, MinusExact
    <3>. QED
      BY <1>2, <2>1, <2>3, <3>1, <3>2, <3>3, <3>4 DEF Times
  <2>5. \A w \in Waits : w.switch \in Int /\ w.switch < x.switch
    BY <1>4, <2>3 DEF WaitInv, WaitsOK
  <2>6. x \notin Waits /\ x.switch \in Int /\ x.dom \in Doms
    BY <1>2, <1>4, <2>3, <2>5
  <2>7. Waits' = Waits \cup {x}
    BY <1>2, <2>1, <2>2, WaitsGrow
  <2>8. /\ AddToKnownDom(x.dom, x.time) \/ AddNewDom(x.dom, x.time) \/ TableFull(x.dom)
        /\ ResetWakeDomFlag(v)
    BY <1>6, <2>3, <2>4 DEF SwitchSched
  <2>9. /\ v \in DOMAIN woken /\ DOMAIN woken' = DOMAIN woken
        /\ woken'[v] = [wakeDomFlag |-> FALSE, wakeNs |-> 0]
        /\ \A u \in DOMAIN woken : u # v => woken'[u] = woken[u]
    BY <1>6, <2>8 DEF ResetWakeDomFlag, WakeDomFlag
  <2>10. TypeOK'
    <3>1. [wakeDomFlag |-> FALSE, wakeNs |-> 0] \in [wakeDomFlag : BOOLEAN, wakeNs : 0 .. MaxNs]
      BY FeedAssumption
    <3>2. \A u \in DOMAIN woken' : woken'[u] \in [wakeDomFlag : BOOLEAN, wakeNs : 0 .. MaxNs]
      BY <2>9, <3>1 DEF WaitInv, TypeOK
    <3>3. /\ d' \in [Slots -> [domId : Doms \cup {0}, domIdWaitTime : Times]]
          /\ numDoms' \in 0 .. MaxDoms /\ totalWaitTime' \in Times
          /\ buckets' \in [0 .. NumSamples -> Nat]
      BY <2>4, <2>6, <2>8, TableTyped DEF WaitInv
    <3>4. DOMAIN woken' \subseteq Doms \X Vcpus /\ ended' \in BOOLEAN
      BY <1>2, <2>9 DEF WaitInv, TypeOK
    <3>. QED
      BY <3>2, <3>3, <3>4 DEF TypeOK, FeedInv
  <2>11. WokenOK'
    <3>1. ~ WakeDomFlag(v)'
      BY <2>9 DEF WakeDomFlag
    <3>2. ASSUME NEW u \in Doms \X Vcpus, u # v
          PROVE  /\ WakeDomFlag(u)' <=> WakeDomFlag(u)
                 /\ WakeDomFlag(u) => woken'[u] = woken[u]
      BY <2>9, <3>2 DEF WakeDomFlag
    <3>. QED
      BY <1>2, <3>1, <3>2, WokenStep
  <2>12. WaitsOK'
    <3>1. IsFiniteSet(Waits \cup {x})
      BY FS_AddElement DEF WaitInv, WaitsOK
    <3>. QED
      BY <1>4, <2>3, <2>4, <2>6, <2>7, <3>1 DEF WaitInv, WaitsOK
  <2>13. NewAreNew' /\ LastWakesExact' /\ TotalIsSum'
    BY <2>4, <2>6, <2>7, <2>8, KnownDomSums, NewDomSums, FullTableSums DEF WaitInv
  <2>14. HistogramMissesFirsts'
    BY <1>2, <2>4, <2>5, <2>6, <2>7, <2>8, KnownDomHistogram, NewDomHistogram,
       FullTableHistogram DEF WaitInv
  <2>. QED
    BY <1>3, <2>10, <2>11, <2>12, <2>13, <2>14 DEF WaitInv
<1>. QED
  BY <1>5, <1>6
-----------------------------------------------------------------------------
(* What Init and a reset clear *)
Cleared == /\ since = << >>
           /\ woken = << >>
           /\ d = EmptyTable
           /\ numDoms \in 0 .. MaxDoms
           /\ totalWaitTime = 0
           /\ buckets = EmptyHistogram

LEMMA ClearedOK ==
    Cleared /\ FeedInv /\ ended \in BOOLEAN => WaitInv
<1>. SUFFICES ASSUME Cleared, FeedInv, ended \in BOOLEAN PROVE WaitInv
  OBVIOUS
<1>1. since = << >> /\ DOMAIN since = {} /\ since \in Seq(Remembered) /\ DOMAIN woken = {}
  <2>1. since = << >> /\ woken = << >>
    BY DEF Cleared
  <2>2. << >> \in Seq(Remembered) /\ DOMAIN << >> = {}
    OBVIOUS
  <2>. QED
    BY <2>1, <2>2
<1>2. Waits = {}
  BY <1>1, WaitsAre
<1>3. /\ d \in [Slots -> [domId : Doms \cup {0}, domIdWaitTime : Times]]
      /\ \A i \in Slots : d[i].domIdWaitTime = 0
      /\ numDoms \in 0 .. MaxDoms /\ totalWaitTime = 0 /\ totalWaitTime \in Times
      /\ buckets \in [0 .. NumSamples -> Nat] /\ \A b \in 0 .. NumSamples : buckets[b] = 0
  BY ZeroTime DEF Cleared, EmptyTable, EmptyHistogram
<1>4. TypeOK
  BY <1>1, <1>3 DEF TypeOK, FeedInv
<1>5. \A j \in DOMAIN since : since[j].ns <= Now
  BY <1>1
<1>6. WaitsOK
  BY <1>2, FS_EmptySet DEF WaitsOK
<1>7. WokenOK
  BY <1>1 DEF WokenOK, WakeDomFlag, Pending
<1>8. \A dom : WaitsOf(dom) = {}
  BY <1>2 DEF WaitsOf
<1>9. NewAreNew
  BY <1>8 DEF NewAreNew
<1>10. ASSUME NEW S, S \subseteq Slots, IsFiniteSet(S)
       PROVE  SlotSum(d, S) = 0
  <2>1. \A i \in S : d[i].domIdWaitTime = 0
    BY <1>3, <1>10
  <2>. QED
    BY <1>10, <2>1, SlotSumZeros
<1>11. LastWakesExact
  <2>1. \A dom : SlotsOf(dom) \subseteq Slots /\ IsFiniteSet(SlotsOf(dom))
    BY <1>4, SlotsAre
  <2>2. \A dom \in Doms : SlotSum(d, SlotsOf(dom)) = TotalTime(WaitsOf(dom))
    BY <1>8, <1>10, <2>1, TotalTimeIs
  <2>. QED
    BY <2>2, TableIs
<1>12. TotalIsSum
  BY <1>3, <1>4, <1>10, SlotsAre, TableIs
<1>13. HistogramMissesFirsts
  <2>1. KeptWaits = {} /\ LaterWaits = {}
    BY <1>2 DEF KeptWaits, LaterWaits
  <2>2. \A b : Cardinality(InBucket({}, b)) = 0
    BY FS_EmptySet DEF InBucket
  <2>. QED
    BY <1>3, <2>1, <2>2, HistogramIs
<1>. QED
  BY <1>1, <1>4, <1>5, <1>6, <1>7, <1>9, <1>11, <1>12, <1>13 DEF WaitInv

LEMMA ClearedNext ==
    Cleared' /\ FeedInv' /\ ended' \in BOOLEAN => WaitInv'
<1>1. (Cleared /\ FeedInv /\ ended \in BOOLEAN => WaitInv)'
  BY ClearedOK, PTL
<1>. QED
  BY <1>1

LEMMA WaitInit == Init => WaitInv
<1>. SUFFICES ASSUME Init PROVE WaitInv
  OBVIOUS
<1>1. numDoms \in 0 .. MaxDoms
  BY DomsAssumption DEF Init
<1>2. Cleared /\ ended \in BOOLEAN
  BY <1>1 DEF Init, Cleared
<1>. QED
  BY <1>2, FeedInitOK, ClearedOK DEF Init

(* A step that leaves the data as it is, or ends the program *)
LEMMA OtherStep ==
    ASSUME WaitInv, FeedInv', Now <= Now', UNCHANGED <<d, numDoms, totalWaitTime, since>>,
           \/ UNCHANGED <<woken, buckets, ended>>
           \/ ended' = TRUE /\ woken' = << >> /\ buckets' = Freed
    PROVE  WaitInv'
<1>1. since' = since /\ since \in Seq(Remembered) /\ DOMAIN since' = DOMAIN since
  BY DEF WaitInv
<1>2. Waits' = Waits /\ \A v : Pending(v)' = Pending(v)
  <2>1. Waits' = Waits
    BY <1>1 DEF Waits, Answers
  <2>2. \A v : Pending(v)' = Pending(v)
    BY <1>1 DEF Pending
  <2>. QED
    BY <2>1, <2>2
<1>3. \A j \in DOMAIN since' : since'[j].ns <= Now'
  <2>1. Now \in Nat /\ Now' \in Nat
    <3>1. FeedTypeOK /\ FeedTypeOK'
      BY DEF WaitInv, FeedInv
    <3>2. (FeedTypeOK => Now \in 0 .. MaxNs /\ Now \in Nat)'
      BY NowType, PTL
    <3>. QED
      BY <3>1, <3>2, NowType
  <2>2. \A j \in DOMAIN since : since[j].ns \in Nat /\ since[j].ns <= Now
    BY <1>1, RecordIs DEF WaitInv
  <2>. QED
    BY <1>1, <2>1, <2>2
<1>4. TypeOK'
  <2>1. CASE UNCHANGED <<woken, buckets, ended>>
    BY <2>1 DEF WaitInv, TypeOK, FeedInv
  <2>2. CASE ended' = TRUE /\ woken' = << >> /\ buckets' = Freed
    <3>1. DOMAIN woken' = {}
      BY <2>2
    <3>. QED
      BY <2>2, <3>1 DEF WaitInv, TypeOK, FeedInv
  <2>. QED
    BY <2>1, <2>2
<1>5. ~ ended' => WokenOK'
  <2>. SUFFICES ASSUME ~ ended' PROVE WokenOK'
    OBVIOUS
  <2>1. woken' = woken /\ WokenOK
    BY DEF WaitInv
  <2>2. \A v : WakeDomFlag(v)' <=> WakeDomFlag(v)
    BY <2>1 DEF WakeDomFlag
  <2>. QED
    BY <1>1, <1>2, <2>1, <2>2 DEF WokenOK
<1>6. ended' \/ UNCHANGED <<buckets, ended>>
  OBVIOUS
<1>. QED
  BY <1>1, <1>2, <1>3, <1>4, <1>5, <1>6, TableSame DEF WaitInv

LEMMA WaitStep == WaitInv /\ [Next]_waitVars => WaitInv'
<1>. SUFFICES ASSUME WaitInv, [Next]_waitVars PROVE WaitInv'
  OBVIOUS
<1>1. FeedInv /\ ended \in BOOLEAN
  BY DEF WaitInv, TypeOK
<1>2. ASSUME NEW cpu \in Cpus, NEW id \in EventIds, NEW ns \in 1 .. MaxNs,
             Record(cpu, id, ns)
      PROVE  WaitInv'
  <2>1. /\ FeedInv' /\ event'.ns = ns /\ event'.ns \in 1 .. MaxNs
        /\ Now <= event'.ns /\ Now' = event'.ns /\ Now <= Now' /\ ~ ended
    BY <1>1, <1>2, FeedOK DEF Record
  <2>2. ASSUME NEW v \in Doms \X Vcpus, DomainWake(v)
        PROVE  WaitInv'
    BY <2>1, <2>2, WakeStep
  <2>3. ASSUME NEW v \in Doms \X Vcpus, SwitchSched(v)
        PROVE  WaitInv'
    BY <2>1, <2>3, SwitchStep
  <2>4. ASSUME LostRecordsHandler
        PROVE  WaitInv'
    <3>1. CASE ResetData /\ UNCHANGED ended
      <4>1. Cleared'
        BY <3>1 DEF ResetData, SwitchSchedReset, DomainWakeReset, Cleared, WaitInv, TypeOK,
                    EmptyTable, EmptyHistogram, Slots
      <4>. QED
        BY <1>1, <2>1, <3>1, <4>1, ClearedNext
    <3>2. CASE UNCHANGED <<woken, d, numDoms, totalWaitTime, buckets, since, ended>>
      BY <2>1, <3>2, OtherStep
    <3>. QED
      BY <2>4, <3>1, <3>2 DEF LostRecordsHandler
  <2>5. ASSUME UNCHANGED <<woken, d, numDoms, totalWaitTime, buckets, ended, since>>
        PROVE  WaitInv'
    BY <2>1, <2>5, OtherStep
  <2>. QED
    BY <1>2, <2>2, <2>3, <2>4, <2>5 DEF Record
<1>3. ASSUME Finalize \/ UNCHANGED waitVars
      PROVE  WaitInv'
  <2>1. /\ UNCHANGED <<feedVars, d, numDoms, totalWaitTime, since>>
        /\ \/ UNCHANGED <<woken, buckets, ended>>
           \/ ended' = TRUE /\ woken' = << >> /\ buckets' = Freed
    BY <1>3 DEF Finalize, SwitchSchedFinalize, DomainWakeFinalize, waitVars
  <2>2. FeedInv' /\ Now' = Now /\ Now \in Nat
    BY <1>1, <2>1, FeedSame, NowType DEF FeedInv
  <2>3. Now <= Now'
    BY <2>2
  <2>. QED
    BY <2>1, <2>2, <2>3, OtherStep
<1>. QED
  BY <1>2, <1>3 DEF Next

-----------------------------------------------------------------------------
(* No handler leaves its table: the slots of the domains stay within       *)
(* MAX_DOMS, the buckets within NUM_SAMPLES and the one for the rest.      *)
THEOREM CpuWaitTypeCorrect == Spec => []TypeOK
<1>1. WaitInv => TypeOK
  BY DEF WaitInv
<1>. QED
  BY <1>1, WaitInit, WaitStep, PTL DEF Spec

(* The time reported for a domain that the table has, and whose VCPUs are  *)
(* woken and switched to in turn, is that of their waits: every wake-up    *)
(* that a switch to the VCPU answered, once, since the last long gap.      *)
THEOREM CpuWaitWaitsExact == Spec => []WaitsExact
<1>1. WaitInv => WaitsExact
  BY DEF WaitInv, LastWakesExact, WaitsExact
<1>. QED
  BY <1>1, WaitInit, WaitStep, PTL DEF Spec

(* The total that switch_sched_finalize prints is the sum of what it       *)
(* prints for the domains.                                                 *)
THEOREM CpuWaitTotalIsSum == Spec => []TotalIsSum
<1>1. WaitInv => TotalIsSum
  BY DEF WaitInv
<1>. QED
  BY <1>1, WaitInit, WaitStep, PTL DEF Spec

(* The histogram has every wait in the bucket of its length, save that it  *)
(* may miss the first one of a domain.                                     *)
THEOREM CpuWaitHistogram == Spec => []HistogramMissesFirsts
<1>1. WaitInv => HistogramMissesFirsts
  BY DEF WaitInv
<1>. QED
  BY <1>1, WaitInit, WaitStep, PTL DEF Spec
=============================================================================
