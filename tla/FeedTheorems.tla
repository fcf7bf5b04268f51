---------------------------- MODULE FeedTheorems ----------------------------
(***************************************************************************)
(* What the proofs about the analyses share: unsigned time, the records an *)
(* analysis is fed, and finite sets and the sums over them.                *)
(***************************************************************************)
EXTENDS EventFeed, UnsignedTime, Functions, FiniteSetTheorems, WellFoundedInduction,
        TLAPS

(* Unsigned sums and differences *)
LEMMA ZeroTime == 0 \in Times
BY NsModulusAssumption DEF Times

LEMMA PlusCases ==
    ASSUME NEW a \in Times, NEW b \in Times
    PROVE  /\ Plus(a, b) \in Times
           /\ a + b < NsModulus => Plus(a, b) = a + b
           /\ a + b >= NsModulus => Plus(a, b) = a + b - NsModulus
BY NsModulusAssumption DEF Plus, Times

LEMMA MinusTime ==
    ASSUME NEW a \in Int, NEW b \in Int
    PROVE  Minus(a, b) \in Times
BY NsModulusAssumption DEF Minus, Times

LEMMA MinusExact ==
    ASSUME NEW a \in Nat, NEW b \in Nat, b <= a, a < NsModulus
    PROVE  Minus(a, b) = a - b
BY NsModulusAssumption DEF Minus

(* An integer is a multiple of the modulus and its remainder, which is the *)
(* only number below the modulus that makes one of it.                     *)
LEMMA DivMod ==
    ASSUME NEW a \in Int
    PROVE  /\ a = (NsModulus * (a \div NsModulus)) + (a % NsModulus)
           /\ a \div NsModulus \in Int /\ a % NsModulus \in Times
BY NsModulusAssumption DEF Times

LEMMA RemainderIs ==
    ASSUME NEW a \in Int, NEW q \in Int, NEW r \in Times, a = (NsModulus * q) + r
    PROVE  a % NsModulus = r
BY NsModulusAssumption DEF Times

(* Whether a sum wraps around on the way or at the end is the same. *)
LEMMA WrapEarly ==
    ASSUME NEW a \in Int, NEW b \in Int
    PROVE  ((a % NsModulus) + b) % NsModulus = (a + b) % NsModulus
<1>. DEFINE q == a \div NsModulus
            r == a % NsModulus
            p == (r + b) \div NsModulus
            s == (r + b) % NsModulus
<1>1. a = (NsModulus * q) + r /\ q \in Int /\ r \in Int
  BY DivMod DEF Times
<1>2. r + b = (NsModulus * p) + s /\ p \in Int /\ s \in Times
  BY <1>1, DivMod
<1>. HIDE DEF q, r, p, s
<1>3. a + b = (NsModulus * q) + (NsModulus * p) + s /\ s \in Int
  BY <1>1, <1>2, NsModulusAssumption DEF Times
<1>4. a + b = (NsModulus * (q + p)) + s /\ q + p \in Int
  BY <1>1, <1>2, <1>3, NsModulusAssumption
<1>5. (a + b) % NsModulus = s
  BY <1>2, <1>4, RemainderIs
<1>. QED
  BY <1>5 DEF s, r

LEMMA SmallRemainder ==
    ASSUME NEW a \in Times
    PROVE  a % NsModulus = a /\ Plus(a, 0) = a /\ Plus(0, a) = a
BY NsModulusAssumption DEF Times, Plus

(* Time added to a sum that wraps around is added to what was summed up,   *)
(* and to what the sum is ahead of some value.                             *)
LEMMA PlusLater ==
    ASSUME NEW a \in Int, NEW b \in Int, NEW r \in Int
    PROVE  Plus(Plus(a, b), r) = Plus(a + r, b)
<1>1. (((a + b) % NsModulus) + r) % NsModulus = ((a + b) + r) % NsModulus
  BY WrapEarly
<1>2. (a + b) + r = (a + r) + b
  OBVIOUS
<1>. QED
  BY <1>1, <1>2 DEF Plus

LEMMA MinusLater ==
    ASSUME NEW a \in Int, NEW b \in Int, NEW r \in Int, Minus(a, b) + r \in Times
    PROVE  Minus(Plus(a, r), b) = Minus(a, b) + r
<1>1. (((a + r) % NsModulus) + (-b)) % NsModulus = ((a + r) + (-b)) % NsModulus
  BY WrapEarly
<1>2. (((a - b) % NsModulus) + r) % NsModulus = ((a - b) + r) % NsModulus
  BY WrapEarly
<1>3. (a + r) + (-b) = (a - b) + r
  OBVIOUS
<1>4. (a + r) % NsModulus \in Int
  BY DivMod DEF Times
<1>5. ((a + r) % NsModulus) + (-b) = ((a + r) % NsModulus) - b
  BY <1>4
<1>6. (((a - b) % NsModulus) + r) % NsModulus = ((a - b) % NsModulus) + r
  BY SmallRemainder DEF Minus
<1>. QED
  BY <1>1, <1>2, <1>3, <1>5, <1>6 DEF Plus, Minus

-----------------------------------------------------------------------------
(* The stamp of the last record; a record's lastNs is never later.         *)
Now == IF event = NoEvent THEN 0 ELSE event.ns

FeedInv == /\ FeedTypeOK
           /\ \A cpu \in Cpus : stamp[cpu] <= Now

LEMMA FeedInitOK == FeedInit => FeedInv /\ Now = 0
BY FeedAssumption DEF FeedInit, FeedInv, FeedTypeOK, Now

LEMMA NowType == FeedTypeOK => Now \in 0 .. MaxNs /\ Now \in Nat
BY FeedAssumption DEF FeedTypeOK, FeedRecord, Now

(* One record of the feed *)
LEMMA FeedOK ==
    ASSUME FeedInv, NEW cpu \in Cpus, NEW id \in EventIds, NEW ns \in 1 .. MaxNs,
           Feed(cpu, id, ns)
    PROVE  /\ FeedInv' /\ event' \in FeedRecord /\ event' # NoEvent
           /\ event'.cpu = cpu /\ event'.event_id = id /\ event'.ns = ns
           /\ event'.lastNs = stamp[cpu] /\ stamp[cpu] \in 0 .. MaxNs /\ stamp[cpu] <= ns
           /\ Now <= ns /\ Now' = ns
           /\ index' = index + 1
           /\ \A c \in Cpus : stamp'[c] \in {0, ns} \/ stamp'[c] = stamp[c]
           /\ stamp'[cpu] \in {0, ns}
<1>1. stamp[cpu] \in 0 .. MaxNs /\ ns \in 0 .. MaxNs /\ 0 \in 0 .. MaxNs
  BY FeedAssumption DEF FeedInv, FeedTypeOK
<1>2. event' = [cpu |-> cpu, event_id |-> id, ns |-> ns, lastNs |-> stamp[cpu]]
  BY DEF Feed
<1>3. event' \in FeedRecord
  BY <1>1, <1>2 DEF FeedRecord
<1>4. event' # NoEvent
  BY <1>3, FeedNoEventAssumption
<1>5. Now <= ns /\ Now' = ns /\ Now \in Nat
  BY <1>1, <1>2, <1>4, NowType, FeedAssumption DEF Feed, Now, FeedInv
<1>6. index' \in 0 .. MaxRecords /\ index' = index + 1
  BY FeedAssumption DEF Feed, FeedInv, FeedTypeOK
<1>7. /\ stamp' \in [Cpus -> 0 .. MaxNs]
      /\ \A c \in Cpus : stamp'[c] \in {0, ns} \/ stamp'[c] = stamp[c]
      /\ stamp'[cpu] \in {0, ns}
  BY <1>1 DEF Feed, Restamp, FeedInv, FeedTypeOK
<1>8. \A c \in Cpus : stamp'[c] <= ns
  <2>1. \A c \in Cpus : stamp[c] <= Now /\ stamp[c] \in 0 .. MaxNs
    BY DEF FeedInv, FeedTypeOK
  <2>. QED
    BY <1>1, <1>5, <1>7, <2>1, FeedAssumption
<1>9. stamp[cpu] <= ns
  BY <1>1, <1>5, FeedAssumption DEF FeedInv
<1>10. FeedInv'
  BY <1>3, <1>5, <1>6, <1>7, <1>8 DEF FeedInv, FeedTypeOK
<1>. QED
  BY <1>1, <1>2, <1>3, <1>4, <1>5, <1>6, <1>7, <1>9, <1>10

LEMMA FeedSame ==
    ASSUME FeedInv, UNCHANGED feedVars
    PROVE  FeedInv' /\ Now' = Now
BY DEF feedVars, FeedInv, FeedTypeOK, Now

-----------------------------------------------------------------------------
(* Quotients: t is in the interval of width w that starts at k * w just if *)
(* k is t divided by w.                                                    *)
LEMMA TimesLe ==
    ASSUME NEW a \in Nat, NEW b \in Nat, NEW c \in Nat, a <= b
    PROVE  a * c <= b * c
<1>. DEFINE k == b - a
<1>1. k \in Nat /\ b = a + k
  OBVIOUS
<1>. HIDE DEF k
<1>2. b * c = (a * c) + (k * c) /\ k * c \in Nat /\ a * c \in Nat
  BY <1>1
<1>. QED
  BY <1>2

LEMMA DividesBetween ==
    ASSUME NEW t \in Nat, NEW w \in Nat \ {0}, NEW k \in Nat
    PROVE  /\ t \div w \in Nat
           /\ t >= k * w <=> k <= t \div w
           /\ t < (k + 1) * w <=> t \div w <= k
<1>. DEFINE q == t \div w
<1>1. q \in Nat /\ q * w <= t /\ t < (q + 1) * w
  OBVIOUS
<1>. HIDE DEF q
<1>2. /\ k * w \in Int /\ q * w \in Int
      /\ (k + 1) * w \in Int /\ (q + 1) * w \in Int
  BY <1>1
<1>3. CASE k <= q
  <2>1. k * w <= q * w
    BY <1>1, <1>3, TimesLe
  <2>2. q > k => (k + 1) * w <= q * w
    BY <1>1, TimesLe
  <2>3. q <= k => k = q
    BY <1>1, <1>3
  <2>4. t >= k * w
    BY <1>1, <1>2, <2>1
  <2>5. q > k => ~ (t < (k + 1) * w)
    BY <1>1, <1>2, <2>2
  <2>6. q <= k => t < (k + 1) * w
    BY <1>1, <2>3
  <2>. QED
    BY <1>1, <1>3, <2>4, <2>5, <2>6 DEF q
<1>4. CASE k > q
  <2>1. (q + 1) * w <= k * w /\ k * w <= (k + 1) * w
    BY <1>1, <1>4, TimesLe
  <2>2. ~ (t >= k * w) /\ t < (k + 1) * w
    BY <1>1, <1>2, <2>1
  <2>. QED
    BY <1>1, <1>4, <2>2 DEF q
<1>. QED
  BY <1>1, <1>3, <1>4

-----------------------------------------------------------------------------
(* Finite sets.  Induction over subsets is done by taking a smallest one   *)
(* that has not the property.                                              *)
(*                                                                         *)
(* Among sets of subsets of a finite set there is a smallest one. *)
LEMMA MinimalSubset ==
    ASSUME NEW S, IsFiniteSet(S), NEW Bad \in SUBSET (SUBSET S), Bad # {}
    PROVE  \E T \in Bad : \A U \in Bad : U \subseteq T => U = T
<1>1. IsWellFoundedOn(StrictSubsetOrdering(S), SUBSET S)
  BY FS_StrictSubsetOrderingWellFounded, FS_FiniteSubsetsOfFinite
<1>2. PICK T \in Bad : \A U \in Bad : ~ (<<U, T>> \in StrictSubsetOrdering(S))
  BY <1>1, WFMin
<1>. QED
  BY <1>2 DEF StrictSubsetOrdering

(* A set of naturals that is not empty has a smallest element. *)
LEMMA LeastNatural ==
    ASSUME NEW S \in SUBSET Nat, S # {}
    PROVE  \E x \in S : \A y \in S : x <= y
<1>. DEFINE Less == OpToRel(<, Nat)
<1>1. IsWellFoundedOn(Less, Nat)
  BY NatLessThanWellFounded
<1>2. \A x \in Nat, y \in Nat : x < y => <<x, y>> \in Less
  BY DEF OpToRel
<1>. HIDE DEF Less
<1>3. PICK x \in S : \A y \in S : ~ (<<y, x>> \in Less)
  BY <1>1, WFMin
<1>4. ASSUME NEW y \in S PROVE x <= y
  <2>1. x \in Nat /\ y \in Nat /\ ~ (y < x)
    BY <1>2, <1>3
  <2>. QED
    BY <2>1
<1>. QED
  BY <1>4

(* The range of a function on a finite set is finite. *)
LEMMA FiniteRange ==
    ASSUME NEW S, IsFiniteSet(S), NEW f
    PROVE  IsFiniteSet({f[x] : x \in S})
<1>. DEFINE T == {f[x] : x \in S}
            g == [x \in S |-> f[x]]
<1>1. g \in Surjection(S, T)
  BY DEF Surjection
<1>. HIDE DEF T, g
<1>2. IsFiniteSet(T)
  BY <1>1, FS_Surjection
<1>. QED
  BY <1>2 DEF T

(* A finite set of integers that is not empty has a largest element, and   *)
(* it is the one that CHOOSE finds.                                        *)
LEMMA LargestElement ==
    ASSUME NEW S, IsFiniteSet(S), S # {}
    PROVE  S \subseteq Int => \E x \in S : \A y \in S : y <= x
<1>1. SUFFICES ASSUME S \subseteq Int PROVE \E x \in S : \A y \in S : y <= x
  OBVIOUS
<1>. DEFINE Bad == {T \in SUBSET S : T # {} /\ ~ \E x \in T : \A y \in T : y <= x}
<1>. SUFFICES ASSUME Bad # {} PROVE FALSE
  OBVIOUS
<1>2. PICK T \in Bad : \A U \in Bad : U \subseteq T => U = T
  <2>1. Bad \in SUBSET (SUBSET S)
    OBVIOUS
  <2>. HIDE DEF Bad
  <2>. QED
    BY <2>1, MinimalSubset
<1>3. PICK x \in T : TRUE
  OBVIOUS
<1>. DEFINE R == T \ {x}
<1>4. R \in SUBSET S /\ R \subseteq T /\ R # T
  BY <1>3
<1>5. R = {} \/ \E z \in R : \A y \in R : y <= z
  BY <1>2, <1>4
<1>6. CASE R = {}
  <2>1. \A y \in T : y = x
    BY <1>6
  <2>2. x \in Int /\ T \in Bad
    BY <1>1, <1>3
  <2>. QED
    BY <1>3, <2>1, <2>2
<1>7. ASSUME NEW z \in R, \A y \in R : y <= z
      PROVE  FALSE
  <2>1. x \in Int /\ z \in Int /\ z \in T
    BY <1>1, <1>3, <1>4
  <2>2. x <= z => \A y \in T : y <= z
    BY <1>7, <2>1
  <2>3. z <= x => \A y \in T : y <= x
    <3>1. \A y \in R : y \in Int
      BY <1>1, <1>4
    <3>. QED
      BY <1>7, <2>1, <3>1
  <2>4. x <= z \/ z <= x
    BY <2>1
  <2>. QED
    BY <1>3, <2>1, <2>2, <2>3, <2>4
<1>. QED
  BY <1>5, <1>6, <1>7

LEMMA ChosenLargest ==
    ASSUME NEW S, S \subseteq Int, NEW x \in S, \A y \in S : y <= x
    PROVE  /\ (CHOOSE z \in S : \A y \in S : y <= z) = x
           /\ (CHOOSE z \in S : \A y \in S : z >= y) = x
<1>1. ASSUME NEW z \in S, \A y \in S : y <= z
      PROVE  z = x
  BY <1>1
<1>2. ASSUME NEW z \in S, \A y \in S : z >= y
      PROVE  z = x
  BY <1>2
<1>3. \A y \in S : x >= y
  OBVIOUS
<1>. QED
  BY <1>1, <1>2, <1>3

-----------------------------------------------------------------------------
Pick(s) == CHOOSE x \in s : TRUE

(* The community modules define SumFunctionOnSet by a recursive function g *)
(* that takes away one element after the other, whichever CHOOSE picks;    *)
(* what is needed of it is that the order does not matter.                 *)
Iterates(g, f, S) ==
    g = [s \in SUBSET S |-> IF s = {} THEN 0 ELSE f[Pick(s)] + g[s \ {Pick(s)}]]

Iteration(f, S) == CHOOSE g : Iterates(g, f, S)

LEMMA SumIs ==
    ASSUME NEW f, NEW S
    PROVE  SumFunctionOnSet(f, S) = Iteration(f, S)[S]
BY DEF SumFunctionOnSet, FoldFunctionOnSet, MapThenFoldSet, Iteration, Iterates, Pick

LEMMA PickIn ==
    ASSUME NEW S, S # {}
    PROVE  Pick(S) \in S
BY DEF Pick

(* Two iterations agree where both are defined. *)
LEMMA IterationsAgree ==
    ASSUME NEW f, NEW S, IsFiniteSet(S), NEW T, NEW g, NEW h,
           Iterates(g, f, S), Iterates(h, f, T), NEW U, U \subseteq S, U \subseteq T
    PROVE  g[U] = h[U]
<1>. DEFINE Bad == {V \in SUBSET S : V \subseteq T /\ g[V] # h[V]}
<1>. SUFFICES ASSUME Bad # {} PROVE FALSE
  OBVIOUS
<1>1. PICK V \in Bad : \A W \in Bad : W \subseteq V => W = V
  <2>1. Bad \in SUBSET (SUBSET S)
    OBVIOUS
  <2>. HIDE DEF Bad
  <2>. QED
    BY <2>1, MinimalSubset
<1>2. V \in SUBSET S /\ V \in SUBSET T /\ g[V] # h[V]
  OBVIOUS
<1>3. /\ g[V] = IF V = {} THEN 0 ELSE f[Pick(V)] + g[V \ {Pick(V)}]
      /\ h[V] = IF V = {} THEN 0 ELSE f[Pick(V)] + h[V \ {Pick(V)}]
  BY <1>2 DEF Iterates
<1>4. V # {}
  BY <1>2, <1>3
<1>5. V \ {Pick(V)} # V /\ V \ {Pick(V)} \subseteq V
  BY <1>4, PickIn
<1>6. g[V \ {Pick(V)}] = h[V \ {Pick(V)}]
  BY <1>1, <1>2, <1>5
<1>. QED
  BY <1>2, <1>3, <1>6

LEMMA IterationExists ==
    ASSUME NEW f, NEW S, IsFiniteSet(S)
    PROVE  Iterates(Iteration(f, S), f, S)
<1>. DEFINE Bad == {T \in SUBSET S : ~ Iterates(Iteration(f, T), f, T)}
<1>. SUFFICES ASSUME Bad # {} PROVE FALSE
  OBVIOUS
<1>1. PICK T \in Bad : \A U \in Bad : U \subseteq T => U = T
  <2>1. Bad \in SUBSET (SUBSET S)
    OBVIOUS
  <2>. HIDE DEF Bad
  <2>. QED
    BY <2>1, MinimalSubset
<1>. DEFINE Value(s) == IF s = {} THEN 0 ELSE f[Pick(s)] + Iteration(f, s \ {Pick(s)})[s \ {Pick(s)}]
            h == [s \in SUBSET T |-> Value(s)]
<1>2. ASSUME NEW U \in SUBSET T, U # T
      PROVE  Iterates(Iteration(f, U), f, U) /\ IsFiniteSet(U)
  BY <1>1, <1>2, FS_Subset
<1>3. ASSUME NEW s \in SUBSET T, s # T
      PROVE  h[s] = Iteration(f, s)[s]
  <2>1. CASE s = {}
    <3>1. Iteration(f, s)[s] = 0
      BY <1>2, <1>3, <2>1 DEF Iterates
    <3>. QED
      BY <2>1, <3>1
  <2>2. CASE s # {}
    <3>. DEFINE u == s \ {Pick(s)}
    <3>1. u \in SUBSET T /\ u # T /\ u \subseteq s
      BY <1>3
    <3>2. Iteration(f, s)[s] = f[Pick(s)] + Iteration(f, s)[u]
      BY <1>2, <1>3, <2>2 DEF Iterates
    <3>3. Iteration(f, s)[u] = Iteration(f, u)[u]
      <4>1. Iterates(Iteration(f, s), f, s) /\ IsFiniteSet(s)
        BY <1>2, <1>3
      <4>2. Iterates(Iteration(f, u), f, u)
        BY <1>2, <3>1
      <4>. QED
        BY <4>1, <4>2, <3>1, IterationsAgree
    <3>. QED
      BY <2>2, <3>2, <3>3
  <2>. QED
    BY <2>1, <2>2
<1>4. Iterates(h, f, T)
  <2>1. ASSUME NEW s \in SUBSET T
        PROVE  h[s] = IF s = {} THEN 0 ELSE f[Pick(s)] + h[s \ {Pick(s)}]
    <3>1. CASE s # {}
      <4>1. s \ {Pick(s)} \in SUBSET T /\ s \ {Pick(s)} # T
        BY <3>1, PickIn
      <4>2. h[s \ {Pick(s)}] = Iteration(f, s \ {Pick(s)})[s \ {Pick(s)}]
        BY <1>3, <4>1
      <4>. QED
        BY <3>1, <4>2
    <3>. QED
      BY <3>1
  <2>. HIDE DEF Value
  <2>2. h = [s \in SUBSET T |-> h[s]]
    OBVIOUS
  <2>. QED
    BY <2>1, <2>2 DEF Iterates
<1>5. \E g : Iterates(g, f, T)
  BY <1>4
<1>. QED
  BY <1>1, <1>5 DEF Iteration

-----------------------------------------------------------------------------
(* The sum takes away one element after the other. *)
LEMMA SumUnfold ==
    ASSUME NEW f, NEW S, IsFiniteSet(S)
    PROVE  /\ SumFunctionOnSet(f, {}) = 0
           /\ S # {} => SumFunctionOnSet(f, S) = f[Pick(S)] + SumFunctionOnSet(f, S \ {Pick(S)})
<1>1. Iterates(Iteration(f, S), f, S) /\ S \in SUBSET S
  BY IterationExists
<1>2. SumFunctionOnSet(f, {}) = 0
  <2>1. Iterates(Iteration(f, {}), f, {})
    BY IterationExists, FS_EmptySet
  <2>. QED
    BY <2>1, SumIs DEF Iterates
<1>3. ASSUME S # {}
      PROVE  SumFunctionOnSet(f, S) = f[Pick(S)] + SumFunctionOnSet(f, S \ {Pick(S)})
  <2>. DEFINE R == S \ {Pick(S)}
  <2>1. R \subseteq S /\ IsFiniteSet(R)
    BY FS_Subset
  <2>2. Iterates(Iteration(f, R), f, R)
    BY <2>1, IterationExists
  <2>3. Iteration(f, S)[R] = Iteration(f, R)[R]
    BY <1>1, <2>1, <2>2, IterationsAgree
  <2>4. Iteration(f, S)[S] = f[Pick(S)] + Iteration(f, S)[R]
    BY <1>1, <1>3 DEF Iterates
  <2>. QED
    BY <2>3, <2>4, SumIs
<1>. QED
  BY <1>2, <1>3

(* The sum of integers is an integer, and that of naturals a natural. *)
LEMMA SumType ==
    ASSUME NEW f, NEW S, IsFiniteSet(S)
    PROVE  /\ (\A x \in S : f[x] \in Int) => SumFunctionOnSet(f, S) \in Int
           /\ (\A x \in S : f[x] \in Nat) => SumFunctionOnSet(f, S) \in Nat
<1>1. ASSUME NEW N, N = Int \/ N = Nat, \A x \in S : f[x] \in N
      PROVE  SumFunctionOnSet(f, S) \in N
  <2>. DEFINE Bad == {T \in SUBSET S : SumFunctionOnSet(f, T) \notin N}
  <2>. SUFFICES ASSUME Bad # {} PROVE FALSE
    OBVIOUS
  <2>1. PICK T \in Bad : \A U \in Bad : U \subseteq T => U = T
    <3>1. Bad \in SUBSET (SUBSET S)
      OBVIOUS
    <3>. HIDE DEF Bad
    <3>. QED
      BY <3>1, MinimalSubset
  <2>2. T \subseteq S /\ IsFiniteSet(T) /\ SumFunctionOnSet(f, T) \notin N
    BY FS_Subset
  <2>3. T # {}
    <3>1. SumFunctionOnSet(f, {}) = 0
      BY <2>2, SumUnfold
    <3>2. 0 \in N
      BY <1>1
    <3>. QED
      BY <2>2, <3>1, <3>2
  <2>. DEFINE p == Pick(T)
              R == T \ {p}
  <2>4. p \in T /\ R \in SUBSET S /\ R \subseteq T /\ R # T
    BY <2>2, <2>3, PickIn
  <2>5. SumFunctionOnSet(f, R) \in N
    BY <2>1, <2>4
  <2>6. SumFunctionOnSet(f, T) = f[p] + SumFunctionOnSet(f, R)
    BY <2>2, <2>3, SumUnfold
  <2>7. f[p] \in N
    BY <1>1, <2>2, <2>4
  <2>. HIDE DEF p, R
  <2>. QED
    BY <1>1, <2>2, <2>5, <2>6, <2>7
<1>. QED
  BY <1>1

(* Sums of functions that agree on the set are equal. *)
LEMMA SumSame ==
    ASSUME NEW f, NEW g, NEW S, IsFiniteSet(S), \A x \in S : f[x] = g[x]
    PROVE  SumFunctionOnSet(f, S) = SumFunctionOnSet(g, S)
<1>. DEFINE Bad == {T \in SUBSET S : SumFunctionOnSet(f, T) # SumFunctionOnSet(g, T)}
<1>. SUFFICES ASSUME Bad # {} PROVE FALSE
  OBVIOUS
<1>1. PICK T \in Bad : \A U \in Bad : U \subseteq T => U = T
  <2>1. Bad \in SUBSET (SUBSET S)
    OBVIOUS
  <2>. HIDE DEF Bad
  <2>. QED
    BY <2>1, MinimalSubset
<1>2. T \subseteq S /\ IsFiniteSet(T) /\ SumFunctionOnSet(f, T) # SumFunctionOnSet(g, T)
  BY FS_Subset
<1>3. T # {}
  BY <1>2, SumUnfold
<1>. DEFINE p == Pick(T)
            R == T \ {p}
<1>4. p \in T /\ R \in SUBSET S /\ R \subseteq T /\ R # T
  BY <1>2, <1>3, PickIn
<1>5. SumFunctionOnSet(f, R) = SumFunctionOnSet(g, R)
  BY <1>1, <1>4
<1>6. SumFunctionOnSet(f, T) = f[p] + SumFunctionOnSet(f, R) /\ SumFunctionOnSet(g, T) = g[p] + SumFunctionOnSet(g, R)
  BY <1>2, <1>3, SumUnfold
<1>. QED
  BY <1>2, <1>4, <1>5, <1>6

(* Any element can be taken away first. *)
LEMMA SumRemove ==
    ASSUME NEW f, NEW S, IsFiniteSet(S), \A x \in S : f[x] \in Int, NEW y \in S
    PROVE  SumFunctionOnSet(f, S) = f[y] + SumFunctionOnSet(f, S \ {y})
<1>. DEFINE Bad == {T \in SUBSET S : \E x \in T : SumFunctionOnSet(f, T) # f[x] + SumFunctionOnSet(f, T \ {x})}
<1>. SUFFICES ASSUME Bad # {} PROVE FALSE
  OBVIOUS
<1>1. PICK T \in Bad : \A U \in Bad : U \subseteq T => U = T
  <2>1. Bad \in SUBSET (SUBSET S)
    OBVIOUS
  <2>. HIDE DEF Bad
  <2>. QED
    BY <2>1, MinimalSubset
<1>2. T \subseteq S /\ IsFiniteSet(T)
  BY FS_Subset
<1>3. PICK x \in T : SumFunctionOnSet(f, T) # f[x] + SumFunctionOnSet(f, T \ {x})
  OBVIOUS
<1>. DEFINE p == Pick(T)
            R == T \ {p}
<1>4. p \in T /\ R \in SUBSET S /\ R \subseteq T /\ R # T /\ IsFiniteSet(R)
  BY <1>2, PickIn, FS_Subset
<1>5. SumFunctionOnSet(f, T) = f[p] + SumFunctionOnSet(f, R)
  BY <1>2, SumUnfold
<1>6. x # p
  BY <1>3, <1>5
<1>7. x \in R
  BY <1>6
<1>8. SumFunctionOnSet(f, R) = f[x] + SumFunctionOnSet(f, R \ {x})
  BY <1>1, <1>4, <1>7
<1>. DEFINE Q == T \ {x}
<1>9. p \in Q /\ Q \in SUBSET S /\ Q \subseteq T /\ Q # T
  BY <1>2, <1>4, <1>6
<1>10. SumFunctionOnSet(f, Q) = f[p] + SumFunctionOnSet(f, Q \ {p})
  BY <1>1, <1>9
<1>11. Q \ {p} = R \ {x} /\ IsFiniteSet(R \ {x})
  BY <1>4, FS_Subset
<1>12. f[x] \in Int /\ f[p] \in Int /\ SumFunctionOnSet(f, R \ {x}) \in Int
  BY <1>2, <1>4, <1>11, SumType
<1>13. SumFunctionOnSet(f, T) # f[x] + SumFunctionOnSet(f, Q)
  BY <1>3
<1>. DEFINE rest == SumFunctionOnSet(f, R \ {x})
<1>14. SumFunctionOnSet(f, Q) = f[p] + rest
  BY <1>10, <1>11
<1>15. SumFunctionOnSet(f, T) = f[p] + (f[x] + rest)
  BY <1>5, <1>8
<1>16. rest \in Int
  BY <1>12
<1>. HIDE DEF p, Bad, Q, R, rest
<1>. QED
  BY <1>12, <1>13, <1>14, <1>15, <1>16

(* Adding an element adds its value. *)
LEMMA SumAdd ==
    ASSUME NEW f, NEW S, IsFiniteSet(S), NEW y, y \notin S,
           \A x \in S \cup {y} : f[x] \in Int
    PROVE  SumFunctionOnSet(f, S \cup {y}) = f[y] + SumFunctionOnSet(f, S)
<1>1. IsFiniteSet(S \cup {y}) /\ (S \cup {y}) \ {y} = S
  BY FS_AddElement
<1>. QED
  BY <1>1, SumRemove

(* Changing the value of one element changes the sum by the difference. *)
LEMMA SumUpdate ==
    ASSUME NEW f, NEW g, NEW S, IsFiniteSet(S), NEW y \in S,
           \A x \in S : f[x] \in Int /\ g[x] \in Int,
           \A x \in S : x # y => g[x] = f[x]
    PROVE  SumFunctionOnSet(g, S) = SumFunctionOnSet(f, S) + (g[y] - f[y])
<1>1. IsFiniteSet(S \ {y})
  BY FS_Subset
<1>2. SumFunctionOnSet(g, S \ {y}) = SumFunctionOnSet(f, S \ {y})
  BY <1>1, SumSame
<1>3. SumFunctionOnSet(f, S) = f[y] + SumFunctionOnSet(f, S \ {y}) /\ SumFunctionOnSet(g, S) = g[y] + SumFunctionOnSet(g, S \ {y})
  BY SumRemove
<1>4. SumFunctionOnSet(f, S \ {y}) \in Int
  BY <1>1, SumType
<1>. QED
  BY <1>2, <1>3, <1>4

(* A sum over two disjoint sets is the sum of their sums. *)
LEMMA SumUnion ==
    ASSUME NEW f, NEW S, NEW T, IsFiniteSet(S), IsFiniteSet(T), S \cap T = {},
           \A x \in S \cup T : f[x] \in Int
    PROVE  SumFunctionOnSet(f, S \cup T) = SumFunctionOnSet(f, S) + SumFunctionOnSet(f, T)
<1>. DEFINE Bad == {U \in SUBSET T : SumFunctionOnSet(f, S \cup U) # SumFunctionOnSet(f, S) + SumFunctionOnSet(f, U)}
<1>. SUFFICES ASSUME Bad # {} PROVE FALSE
  OBVIOUS
<1>1. PICK U \in Bad : \A V \in Bad : V \subseteq U => V = U
  <2>1. Bad \in SUBSET (SUBSET T)
    OBVIOUS
  <2>. HIDE DEF Bad
  <2>. QED
    BY <2>1, MinimalSubset
<1>2. U \subseteq T /\ IsFiniteSet(U) /\ SumFunctionOnSet(f, S \cup U) # SumFunctionOnSet(f, S) + SumFunctionOnSet(f, U)
  BY FS_Subset
<1>3. SumFunctionOnSet(f, S) \in Int
  BY SumType
<1>4. U # {}
  <2>1. SumFunctionOnSet(f, {}) = 0
    BY SumUnfold
  <2>2. ASSUME U = {} PROVE FALSE
    <3>1. S \cup U = S
      BY <2>2
    <3>. QED
      BY <1>2, <1>3, <2>1, <2>2, <3>1
  <2>. QED
    BY <2>2
<1>5. PICK y \in U : TRUE
  BY <1>4
<1>. DEFINE V == U \ {y}
<1>6. V \in SUBSET T /\ V \subseteq U /\ V # U /\ IsFiniteSet(V) /\ IsFiniteSet(S \cup U)
  BY <1>2, <1>5, FS_Subset, FS_Union
<1>7. SumFunctionOnSet(f, S \cup V) = SumFunctionOnSet(f, S) + SumFunctionOnSet(f, V)
  BY <1>1, <1>6
<1>8. (S \cup U) \ {y} = S \cup V /\ y \in S \cup U
  BY <1>2, <1>5
<1>9. SumFunctionOnSet(f, S \cup U) = f[y] + SumFunctionOnSet(f, S \cup V)
  <2>1. \A x \in S \cup U : f[x] \in Int
    BY <1>2
  <2>. HIDE DEF V, Bad
  <2>. QED
    BY <1>6, <1>8, <2>1, SumRemove
<1>10. SumFunctionOnSet(f, U) = f[y] + SumFunctionOnSet(f, V)
  <2>1. \A x \in U : f[x] \in Int
    BY <1>2
  <2>. HIDE DEF Bad
  <2>. QED
    BY <1>2, <1>5, <2>1, SumRemove
<1>11. SumFunctionOnSet(f, V) \in Int /\ f[y] \in Int
  BY <1>2, <1>6, SumType
<1>. HIDE DEF V, Bad
<1>. QED
  BY <1>2, <1>3, <1>7, <1>9, <1>10, <1>11
=============================================================================
