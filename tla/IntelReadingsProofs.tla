------------------------- MODULE IntelReadingsProofs -------------------------
(***************************************************************************)
(* For any number of packages, any width of the energy counters and any    *)
(* number of resets and samples: the totals of every domain count every    *)
(* wrap, and the difference of the performance counters is the work done.  *)
(***************************************************************************)
EXTENDS IntelReadings, FiniteSetTheorems, WellFoundedInduction, TLAPS

-----------------------------------------------------------------------------
(* Arithmetic of the counters *)

\* A multiple of a positive number that lies strictly between its negative
\* and its double is none of it, or one.
LEMMA SmallMultiple ==
  ASSUME NEW w \in Nat \ {0}, NEW k \in Int, w * k > 0 - w, w * k < 2 * w
  PROVE  k = 0 \/ k = 1
<1>1. ASSUME k >= 2 PROVE FALSE
  <2>1. w * k >= w * 2  BY <1>1, SMTT(30)
  <2> QED  BY <2>1
<1>2. ASSUME k <= 0 - 1 PROVE FALSE
  <2>1. w * k <= w * (0 - 1)  BY <1>2, SMTT(30)
  <2> QED  BY <2>1
<1> QED  BY <1>1, <1>2

LEMMA Division ==
  ASSUME NEW n \in Nat, NEW w \in Nat \ {0}
  PROVE  /\ n \div w \in Nat /\ (n % w) \in 0 .. (w - 1)
         /\ n = w * (n \div w) + (n % w)
  BY SMTT(30)

\* A counter that advanced by less than a whole turn wrapped at most once,
\* and it did if the second reading is the smaller one.
LEMMA OneWrap ==
  ASSUME NEW w \in Nat \ {0}, NEW a \in Nat, NEW c \in Nat, a <= c, c - a < w
  PROVE  (c % w) - (a % w) = c - a - (IF (a % w) > (c % w) THEN w ELSE 0)
<1> DEFINE qa == a \div w
           qc == c \div w
<1>1. qa \in Nat /\ (a % w) \in 0 .. (w - 1) /\ a = w * qa + (a % w)
  BY Division
<1>2. qc \in Nat /\ (c % w) \in 0 .. (w - 1) /\ c = w * qc + (c % w)
  BY Division
<1>3. w * (qc - qa) = w * qc - w * qa
  BY <1>1, <1>2, SMTT(30)
<1> DEFINE ma == w * qa
           mc == w * qc
           k == qc - qa
<1>4. ma \in Nat /\ mc \in Nat /\ k \in Int
  BY <1>1, <1>2
<1>5. w * k = mc - ma /\ a = ma + (a % w) /\ c = mc + (c % w)
  BY <1>1, <1>2, <1>3
<1>6. w * k \in Int /\ w * k = c - a - ((c % w) - (a % w))
  <2> HIDE DEF ma, mc, k
  <2> QED  BY <1>1, <1>2, <1>4, <1>5
<1>7. w * k > 0 - w /\ w * k < 2 * w
  <2> HIDE DEF k
  <2> QED  BY <1>1, <1>2, <1>6
<1>8. k = 0 \/ k = 1
  <2> HIDE DEF k
  <2> QED  BY <1>4, <1>7, SmallMultiple
<1>9. CASE k = 0
  <2>1. w * k = 0  BY <1>9
  <2> HIDE DEF k
  <2> QED  BY <2>1, <1>1, <1>2, <1>6
<1>10. CASE k = 1
  <2>1. w * k = w  BY <1>10
  <2> HIDE DEF k
  <2> QED  BY <2>1, <1>1, <1>2, <1>6
<1> QED  BY <1>8, <1>9, <1>10

\* energyDelta of two readings of such a counter: one unit is lost in a wrap.
LEMMA DeltaOfReadings ==
  ASSUME NEW a \in Nat, NEW c \in Nat, a <= c, c - a < CounterWord
  PROVE  /\ energyDelta((a % CounterWord), (c % CounterWord))
              = c - a - (IF (a % CounterWord) > (c % CounterWord) THEN 1 ELSE 0)
         /\ (a % CounterWord) \in Nat /\ (c % CounterWord) \in Nat
<1>1. CounterWord \in Nat \ {0}  BY RaplAssumption
<1>2. (a % CounterWord) \in Nat /\ (c % CounterWord) \in Nat
  BY <1>1, Division
<1>3. (c % CounterWord) - (a % CounterWord)
        = c - a - (IF (a % CounterWord) > (c % CounterWord) THEN CounterWord ELSE 0)
  BY <1>1, OneWrap
<1> QED  BY <1>1, <1>2, <1>3 DEF energyDelta

\* What an unsigned difference of small numbers is.
LEMMA UnsignedDifference ==
  ASSUME NEW n \in Nat, NEW w \in Nat, n < w
  PROVE  (w + n) % w = n
<1>1. w \in Nat \ {0} /\ w + n \in Nat  OBVIOUS
<1> DEFINE q == (w + n) \div w
           r == (w + n) % w
<1>2. q \in Nat /\ r \in 0 .. (w - 1) /\ w + n = w * q + r
  BY <1>1, Division
<1>3. w * (q - 1) = w * q - w
  BY <1>2, SMTT(30)
<1>4. q - 1 \in Int /\ w * (q - 1) = n - r
  BY <1>2, <1>3
<1>5. q - 1 = 0 \/ q - 1 = 1
  <2> HIDE DEF q, r
  <2>1. w * (q - 1) > 0 - w /\ w * (q - 1) < 2 * w
    BY <1>2, <1>4
  <2> QED  BY <2>1, <1>1, <1>4, SmallMultiple
<1>6. ASSUME q - 1 = 1 PROVE FALSE
  <2>1. w * (q - 1) = w  BY <1>6
  <2> HIDE DEF q, r
  <2> QED  BY <2>1, <1>2, <1>4
<1>7. w * (q - 1) = 0  BY <1>5, <1>6
<1> HIDE DEF q, r
<1>8. n = r  BY <1>2, <1>4, <1>7
<1> QED  BY <1>8 DEF r

-----------------------------------------------------------------------------
(* Sums over a finite set *)

\* A set of natural numbers has a least element: induction, for sets.
LEMMA LeastNat ==
  ASSUME NEW T \in SUBSET Nat, T # {}
  PROVE  \E n \in T : \A m \in T : n <= m
<1> DEFINE R == OpToRel(<, Nat)
<1>1. IsWellFoundedOn(R, Nat)
  BY NatLessThanWellFounded
<1>2. \A i, j \in Nat : i < j => <<i, j>> \in R
  BY DEF OpToRel
<1> HIDE DEF R
<1>3. PICK n \in T : \A m \in T : <<m, n>> \notin R
  BY <1>1, WFMin
<1>4. \A m \in T : n <= m
  <2> SUFFICES ASSUME NEW m \in T PROVE n <= m
    OBVIOUS
  <2>1. m \in Nat /\ n \in Nat
    OBVIOUS
  <2>2. ~ (m < n)  BY <1>2, <1>3, <2>1
  <2> QED  BY <2>1, <2>2
<1> QED  BY <1>4

\* The element a sum takes out of a set.
Pick(s) == CHOOSE x \in s : TRUE

\* The sums of F over the subsets of S, as MapThenSumSet computes them: each
\* from that of a smaller subset in the table g.
SumsFrom(F, S, g) ==
  [s \in SUBSET S |-> IF s = {} THEN 0 ELSE F[Pick(s)] + g[s \ {Pick(s)}]]

SumTable(F, S) == CHOOSE g : g = SumsFrom(F, S, g)

\* The sum of F over S.
Sum(F, S) == SumTable(F, S)[S]

\* What is taken out of a finite set leaves a smaller one.
LEMMA PickLeaves ==
  ASSUME NEW S, IsFiniteSet(S), NEW s \in SUBSET S
  PROVE  /\ IsFiniteSet(s) /\ Cardinality(s) \in Nat
         /\ Cardinality(s) <= Cardinality(S) /\ Cardinality(S) \in Nat
         /\ Cardinality(s) = 0 <=> s = {}
         /\ s # {} => /\ Pick(s) \in s /\ s \ {Pick(s)} \in SUBSET S
                      /\ Cardinality(s \ {Pick(s)}) = Cardinality(s) - 1
<1>1. IsFiniteSet(s) /\ Cardinality(s) <= Cardinality(S)
  BY FS_Subset
<1>2. Cardinality(s) \in Nat /\ Cardinality(S) \in Nat
  BY <1>1, FS_CardinalityType
<1>3. Cardinality(s) = 0 <=> s = {}
  BY <1>1, FS_EmptySet
<1>4. ASSUME s # {}
      PROVE  /\ Pick(s) \in s /\ s \ {Pick(s)} \in SUBSET S
             /\ Cardinality(s \ {Pick(s)}) = Cardinality(s) - 1
  <2>1. Pick(s) \in s  BY <1>4 DEF Pick
  <2> QED  BY <1>1, <2>1, FS_RemoveElement
<1> QED  BY <1>1, <1>2, <1>3, <1>4

\* Induction over the subsets of a finite set, one element at a time.
LEMMA SubsetInduction ==
  ASSUME NEW S, IsFiniteSet(S), NEW Good,
         {} \in Good,
         \A s \in SUBSET S : s # {} /\ s \ {Pick(s)} \in Good => s \in Good
  PROVE  SUBSET S \subseteq Good
<1> DEFINE Bad == {s \in SUBSET S : s \notin Good}
           T == {n \in Nat : \E s \in Bad : Cardinality(s) = n}
<1>1. SUFFICES ASSUME Bad # {} PROVE FALSE
  OBVIOUS
<1>2. T # {} /\ T \in SUBSET Nat
  <2>1. PICK s \in Bad : TRUE  BY <1>1
  <2>2. Cardinality(s) \in Nat  BY <2>1, PickLeaves
  <2> QED  BY <2>1, <2>2
<1>3. PICK n \in T : \A m \in T : n <= m
  <2> HIDE DEF T
  <2> QED  BY <1>2, LeastNat
<1>4. PICK s \in Bad : Cardinality(s) = n
  BY <1>3
<1> DEFINE u == s \ {Pick(s)}
<1>5. s \in SUBSET S /\ s # {} /\ u \notin Good
  BY <1>4
<1>6. u \in Bad /\ Cardinality(u) = n - 1 /\ n - 1 \in Nat
  <2>1. u \in SUBSET S /\ Cardinality(u) = n - 1 /\ Cardinality(u) \in Nat
    <3>1. u \in SUBSET S /\ Cardinality(u) = Cardinality(s) - 1
      BY <1>5, PickLeaves
    <3>2. Cardinality(u) \in Nat
      <4> HIDE DEF u
      <4> QED  BY <3>1, PickLeaves
    <3> QED  BY <1>4, <3>1, <3>2
  <2> QED  BY <1>5, <2>1
<1>7. n - 1 \in T /\ n \in Nat
  BY <1>3, <1>6
<1> QED  BY <1>3, <1>7

\* The table of sums exists.
LEMMA SumTableExists ==
  ASSUME NEW S, IsFiniteSet(S), NEW F \in [S -> Int]
  PROVE  \E g : g = SumsFrom(F, S, g)
<1> DEFINE Small(n) == {s \in SUBSET S : Cardinality(s) <= n}
           Table(g, n) ==
             g = [s \in Small(n) |->
                    IF s = {} THEN 0 ELSE F[Pick(s)] + g[s \ {Pick(s)}]]
           T == {n \in Nat : ~ \E g : Table(g, n)}
<1>1. SUFFICES T = {}
  <2>1. Cardinality(S) \in Nat /\ Small(Cardinality(S)) = SUBSET S
    BY PickLeaves
  <2>2. \E g : Table(g, Cardinality(S))
    BY <1>1, <2>1
  <2> QED  BY <2>1, <2>2 DEF SumsFrom
<1>2. SUFFICES ASSUME T # {} PROVE FALSE
  OBVIOUS
<1>3. PICK n \in T : \A m \in T : n <= m
  <2>1. T \in SUBSET Nat  OBVIOUS
  <2> HIDE DEF T
  <2> QED  BY <1>2, <2>1, LeastNat
<1>4. n # 0
  <2>1. Small(0) = {{}}
    <3>1. \A s \in SUBSET S :
            Cardinality(s) \in Nat /\ (Cardinality(s) = 0 <=> s = {})
      BY PickLeaves
    <3>2. \A s \in SUBSET S : Cardinality(s) <= 0 <=> s = {}
      BY <3>1
    <3> QED  BY <3>2
  <2>2. Table([s \in Small(0) |-> 0], 0)
    BY <2>1
  <2> QED  BY <2>2
<1>5. n - 1 \in Nat /\ n - 1 \notin T
  <2>1. n \in Nat
    BY <1>3
  <2> HIDE DEF T
  <2> QED  BY <1>3, <1>4, <2>1
<1>6. PICK g : Table(g, n - 1)
  BY <1>5
<1> DEFINE h == [s \in Small(n) |->
                   IF s = {} THEN 0 ELSE F[Pick(s)] + g[s \ {Pick(s)}]]
<1>7. ASSUME NEW s \in Small(n), s # {}
      PROVE  h[s \ {Pick(s)}] = g[s \ {Pick(s)}]
  <2> DEFINE u == s \ {Pick(s)}
  <2>1. u \in SUBSET S /\ Cardinality(u) = Cardinality(s) - 1
        /\ Cardinality(s) \in Nat /\ Cardinality(s) <= n
    BY <1>7, PickLeaves
  <2>2. n \in Nat
    BY <1>3
  <2>3. u \in Small(n - 1) /\ u \in Small(n)
    BY <2>1, <2>2
  <2>4. g[u] = IF u = {} THEN 0 ELSE F[Pick(u)] + g[u \ {Pick(u)}]
    BY <1>6, <2>3
  <2>5. h[u] = IF u = {} THEN 0 ELSE F[Pick(u)] + g[u \ {Pick(u)}]
    BY <2>3
  <2> QED  BY <2>4, <2>5
<1>8. Table(h, n)
  <2>1. \A s \in Small(n) :
          (IF s = {} THEN 0 ELSE F[Pick(s)] + g[s \ {Pick(s)}])
            = (IF s = {} THEN 0 ELSE F[Pick(s)] + h[s \ {Pick(s)}])
    BY <1>7
  <2> QED  BY <2>1, Zenon
<1> QED  BY <1>3, <1>8

\* How a sum is computed.
LEMMA SumRule ==
  ASSUME NEW S, IsFiniteSet(S), NEW F \in [S -> Int]
  PROVE  /\ SumTable(F, S) \in [SUBSET S -> Int]
         /\ SumTable(F, S)[{}] = 0
         /\ \A s \in SUBSET S : s # {} =>
              SumTable(F, S)[s] = F[Pick(s)] + SumTable(F, S)[s \ {Pick(s)}]
<1> DEFINE t == SumTable(F, S)
<1>1. t = [s \in SUBSET S |->
             IF s = {} THEN 0 ELSE F[Pick(s)] + t[s \ {Pick(s)}]]
  <2>1. t = SumsFrom(F, S, t)
    BY SumTableExists, Zenon DEF SumTable
  <2> QED  BY <2>1 DEF SumsFrom
<1> HIDE DEF t
<1>2. t[{}] = 0 /\ \A s \in SUBSET S : s # {} =>
                     t[s] = F[Pick(s)] + t[s \ {Pick(s)}]
  BY <1>1
<1> DEFINE Good == {s \in SUBSET S : t[s] \in Int}
<1>3. {} \in Good
  BY <1>2
<1>4. ASSUME NEW s \in SUBSET S, s # {}, s \ {Pick(s)} \in Good
      PROVE  s \in Good
  <2>1. Pick(s) \in S /\ t[s \ {Pick(s)}] \in Int
    BY <1>4, PickLeaves
  <2>2. F[Pick(s)] \in Int /\ t[s] = F[Pick(s)] + t[s \ {Pick(s)}]
    BY <1>2, <1>4, <2>1
  <2> QED  BY <2>1, <2>2
<1>5. SUBSET S \subseteq Good
  <2> HIDE DEF Good
  <2> QED  BY <1>3, <1>4, SubsetInduction
<1> QED  BY <1>1, <1>2, <1>5 DEF t

\* H combines F, times k, with G.
Combined(H, k, F, G, S) ==
  /\ k \in Int
  /\ F \in [S -> Int] /\ G \in [S -> Int] /\ H \in [S -> Int]
  /\ \A x \in S : H[x] = k * F[x] + G[x]

\* Sums are linear.
LEMMA SumLinear ==
  ASSUME NEW S, IsFiniteSet(S), NEW k, NEW F, NEW G, NEW H,
         Combined(H, k, F, G, S)
  PROVE  /\ Sum(H, S) = k * Sum(F, S) + Sum(G, S)
         /\ Sum(F, S) \in Int /\ Sum(G, S) \in Int /\ Sum(H, S) \in Int
<1> DEFINE f == SumTable(F, S)
           g == SumTable(G, S)
           h == SumTable(H, S)
           Good == {s \in SUBSET S : h[s] = k * f[s] + g[s]}
<1>0. /\ k \in Int
      /\ F \in [S -> Int] /\ G \in [S -> Int] /\ H \in [S -> Int]
      /\ \A x \in S : H[x] = k * F[x] + G[x]
  BY DEF Combined
<1>1. /\ f \in [SUBSET S -> Int] /\ f[{}] = 0
      /\ \A s \in SUBSET S : s # {} => f[s] = F[Pick(s)] + f[s \ {Pick(s)}]
  BY <1>0, SumRule
<1>2. /\ g \in [SUBSET S -> Int] /\ g[{}] = 0
      /\ \A s \in SUBSET S : s # {} => g[s] = G[Pick(s)] + g[s \ {Pick(s)}]
  BY <1>0, SumRule
<1>3. /\ h \in [SUBSET S -> Int] /\ h[{}] = 0
      /\ \A s \in SUBSET S : s # {} => h[s] = H[Pick(s)] + h[s \ {Pick(s)}]
  BY <1>0, SumRule
<1> HIDE DEF f, g, h
<1>4. {} \in Good
  BY <1>0, <1>1, <1>2, <1>3
<1>5. ASSUME NEW s \in SUBSET S, s # {}, s \ {Pick(s)} \in Good
      PROVE  s \in Good
  <2> DEFINE x == Pick(s)
             u == s \ {x}
  <2>1. x \in S /\ u \in SUBSET S
    BY <1>5, PickLeaves
  <2>2. /\ F[x] \in Int /\ G[x] \in Int /\ H[x] = k * F[x] + G[x]
        /\ f[u] \in Int /\ g[u] \in Int /\ h[u] = k * f[u] + g[u]
    BY <1>0, <1>1, <1>2, <1>5, <2>1
  <2>3. \A a, b \in Int : k * (a + b) = k * a + k * b
    BY <1>0
  <2>4. k * (F[x] + f[u]) = k * F[x] + k * f[u]
    BY <2>2, <2>3
  <2>5. /\ f[s] = F[x] + f[u] /\ g[s] = G[x] + g[u] /\ h[s] = H[x] + h[u]
    BY <1>1, <1>2, <1>3, <1>5
  <2> DEFINE kF == k * F[x]
             kf == k * f[u]
  <2>6. kF \in Int /\ kf \in Int
    BY <1>0, <2>2
  <2>7. H[x] = kF + G[x] /\ h[u] = kf + g[u] /\ k * f[s] = kF + kf
    BY <2>2, <2>4, <2>5
  <2> HIDE DEF kF, kf, x, u
  <2>8. h[s] = k * f[s] + g[s]
    BY <2>2, <2>5, <2>6, <2>7
  <2> QED  BY <2>8
<1>6. SUBSET S \subseteq Good
  <2> HIDE DEF Good
  <2> QED  BY <1>4, <1>5, SubsetInduction
<1> QED  BY <1>1, <1>2, <1>3, <1>6 DEF Sum, f, g, h

\* A sum of terms within 0 .. m.
LEMMA SumBounded ==
  ASSUME NEW S, IsFiniteSet(S), NEW m \in Nat, NEW F \in [S -> Int],
         \A x \in S : F[x] \in 0 .. m
  PROVE  Sum(F, S) \in 0 .. m * Cardinality(S)
<1> DEFINE f == SumTable(F, S)
           Good == {s \in SUBSET S : f[s] \in 0 .. m * Cardinality(s)}
<1>1. /\ f \in [SUBSET S -> Int] /\ f[{}] = 0
      /\ \A s \in SUBSET S : s # {} => f[s] = F[Pick(s)] + f[s \ {Pick(s)}]
  BY SumRule
<1> HIDE DEF f
<1>2. {} \in Good
  <2>1. {} \in SUBSET S /\ Cardinality({}) = 0
    BY PickLeaves
  <2> QED  BY <1>1, <2>1
<1>3. ASSUME NEW s \in SUBSET S, s # {}, s \ {Pick(s)} \in Good
      PROVE  s \in Good
  <2> DEFINE x == Pick(s)
             u == s \ {x}
             c == Cardinality(u)
             d == Cardinality(s)
  <2>1. x \in S /\ u \in SUBSET S /\ d \in Nat /\ c = d - 1
    BY <1>3, PickLeaves
  <2>2. c \in Nat
    BY <2>1, PickLeaves
  <2>3. F[x] \in 0 .. m /\ f[u] \in 0 .. m * c /\ f[s] = F[x] + f[u]
    BY <1>1, <1>3, <2>1
  <2> HIDE DEF c, d, x, u
  <2>4. m * d = m * c + m
    <3>1. d = c + 1
      BY <2>1, <2>2
    <3>2. \A y \in Nat : m * (y + 1) = m * y + m
      OBVIOUS
    <3> QED  BY <2>2, <3>1, <3>2
  <2> DEFINE mc == m * c
  <2>5. mc \in Nat /\ m * d = mc + m /\ f[u] \in 0 .. mc
    BY <2>2, <2>3, <2>4
  <2> HIDE DEF mc
  <2>6. f[s] \in 0 .. m * d
    BY <2>3, <2>5
  <2> QED  BY <2>6 DEF d
<1>4. SUBSET S \subseteq Good
  <2> HIDE DEF Good
  <2> QED  BY <1>2, <1>3, SubsetInduction
<1> QED  BY <1>4 DEF Sum, f
-----------------------------------------------------------------------------
(* The performance counter *)

\* The counter was read as k since the last reset, with d kernels done by then.
Current(k, d) == k = d - (work - counter)

\* Types, and which readings are of the present count: the kernels done before
\* the last reset are work - counter.
WorkInv ==
  /\ pc \in {"idle", "first", "second"} /\ sampling \in {"no", "counter", "time"}
  /\ now \in Nat /\ counter \in Nat /\ work \in 0 .. MaxWork
  /\ counter <= work /\ perfCounter \in Nat
  /\ curr.kernelsCount \in Nat /\ next.kernelsCount \in Nat
  /\ seen \in [curr : 0 .. MaxWork, next : 0 .. MaxWork]
  /\ seen.curr <= seen.next /\ seen.next <= work
  /\ sampling = "no" /\ pc # "first" => Current(next.kernelsCount, seen.next)
  /\ sampling = "no" /\ pc = "idle" => Current(curr.kernelsCount, seen.curr)
  /\ sampling # "no" /\ pc # "first" => Current(curr.kernelsCount, seen.curr)
  /\ sampling = "time" => Current(perfCounter, seen.next)

LEMMA WorkInitially == ASSUME Init PROVE WorkInv
  BY StateAssumption DEF Init, WorkInv, Current

LEMMA WorkBegins == ASSUME WorkInv, BeginSample PROVE WorkInv'
  BY StateAssumption DEF WorkInv, Current, BeginSample, clock

LEMMA WorkCounted == ASSUME WorkInv, ReadCounter PROVE WorkInv'
  BY StateAssumption DEF WorkInv, Current, ReadCounter, clock

\* Whatever the power is, a reading is of the present count.
LEMMA WorkFinishes ==
  ASSUME WorkInv, NEW power, FinishSample(power)
  PROVE  WorkInv'
  BY StateAssumption DEF WorkInv, Current, FinishSample, AfterSample, clock

LEMMA WorkKept == ASSUME WorkInv, UNCHANGED vars PROVE WorkInv'
  BY DEF WorkInv, Current, vars, clock, readings

LEMMA WorkStep ==
  ASSUME WorkInv, [IntelNext]_intelVars
  PROVE  WorkInv'
<1>1. ASSUME EmptyRapl \/ FillRapl PROVE WorkInv'
  BY <1>1, WorkKept DEF EmptyRapl, FillRapl
<1>2. ASSUME ResetDevice PROVE WorkInv'
  BY <1>2, StateAssumption DEF ResetDevice, BeginReset, WorkInv, Current, readings
<1>3. ASSUME SampleDevice \/ ReadPcm PROVE WorkInv'
  BY <1>3, WorkBegins, WorkCounted DEF SampleDevice, ReadPcm
<1>4. ASSUME FinishDevice PROVE WorkInv'
  BY <1>4, WorkFinishes DEF FinishDevice
<1>5. ASSUME Execute PROVE WorkInv'
  BY <1>5, StateAssumption DEF Execute, Work, WorkInv, Current, readings
<1>6. ASSUME NEW spent, Elapse(spent) PROVE WorkInv'
  BY <1>6 DEF Elapse, Tick, WorkInv, Current, readings
<1>7. ASSUME UNCHANGED intelVars PROVE WorkInv'
  BY <1>7, WorkKept DEF intelVars
<1> QED  BY <1>1, <1>2, <1>3, <1>4, <1>5, <1>6, <1>7 DEF IntelNext

LEMMA WorkGivesDelta == ASSUME WorkInv PROVE DeltaIsWork
<1> SUFFICES ASSUME pc = "idle", sampling = "no"
             PROVE  perfCounterDelta = seen.next - seen.curr
  BY DEF DeltaIsWork
<1> DEFINE n == next.kernelsCount - curr.kernelsCount
<1>1. n = seen.next - seen.curr /\ n \in 0 .. MaxWork
  BY StateAssumption DEF WorkInv, Current
<1>2. n \in Nat /\ Word \in Nat /\ n < Word
  BY <1>1, StateAssumption
<1>3. perfCounterDelta = (Word + n) % Word
  <2>1. (Word + next.kernelsCount) - curr.kernelsCount = Word + n
    BY StateAssumption DEF WorkInv
  <2> QED  BY <2>1 DEF perfCounterDelta
<1> QED  BY <1>1, <1>2, <1>3, UnsignedDifference

-----------------------------------------------------------------------------
(* The energy counters *)

Counts == [Domains -> Int]
States == [energy : Counts, time : Nat]
Objects == [previous : States, current : States, next : States, total : Counts]

\* What a sample does to a Rapl object.
LEMMA SampleEffect ==
  ASSUME NEW r \in Objects, NEW read \in States
  PROVE  /\ sample(r, read) \in Objects
         /\ sample(r, read).current = read
         /\ sample(r, read).previous = r.current
         /\ \A d \in Domains : sample(r, read).total[d]
              = r.total[d] + energyDelta(r.current.energy[d], read.energy[d])
<1>1. \A a, b \in Int : energyDelta(a, b) \in Int
  BY RaplAssumption DEF energyDelta
<1> DEFINE i == getCurrentEnergyIncrement(r, read)
<1>2. i \in Counts /\ \A d \in Domains :
        i[d] = energyDelta(r.current.energy[d], read.energy[d])
  BY <1>1 DEF getCurrentEnergyIncrement, EnergyIncrement, Counts, States, Objects
<1>3. Plus(r.total, i) \in Counts /\ \A d \in Domains :
        Plus(r.total, i)[d] = r.total[d] + i[d]
  BY <1>2 DEF Plus, Counts, Objects
<1>4. rotateStates(r, read) = [previous |-> r.current, current |-> read,
                              next |-> r.previous, total |-> r.total]
  BY DEF rotateStates
<1>5. sample(r, read) = [previous |-> r.current, current |-> read,
                        next |-> r.previous, total |-> Plus(r.total, i)]
  <2> DEFINE f == rotateStates(r, read)
             t == Plus(r.total, i)
  <2>1. f.total = r.total
    BY <1>4
  <2>2. sample(r, read) = [f EXCEPT !.total = Plus(f.total, i)]
    BY DEF sample
  <2>3. Plus(f.total, i) = t
    BY <2>1
  <2> HIDE DEF f, t
  <2>4. f = [previous |-> r.current, current |-> read,
             next |-> r.previous, total |-> r.total]
    BY <1>4 DEF f
  <2>5. [f EXCEPT !.total = t] = [previous |-> r.current, current |-> read,
                                 next |-> r.previous, total |-> t]
    BY <2>4
  <2> QED  BY <2>2, <2>3, <2>5 DEF t
<1> HIDE DEF i
<1> QED  BY <1>2, <1>3, <1>5 DEF Objects

\* The account of a domain of a package, at every moment: less than a turn of
\* the counter has passed since its last reading, except while reset() has
\* emptied the readings and not yet taken the first.
Account(p, d) ==
  /\ atCurrent[p][d] <= consumed[p][d]
  /\ raplPc # "first" => consumed[p][d] - atCurrent[p][d] < CounterWord
  /\ rapl[p].current.energy[d]
       = IF raplPc # "first" /\ d \in ReadDomains
         THEN atCurrent[p][d] % CounterWord ELSE 0
  /\ raplPc = "ready" =>
       rapl[p].total[d] = IF d \in ReadDomains THEN Counted(p, d) ELSE 0

AccountInv ==
  /\ now \in Nat /\ raplPc \in {"ready", "first", "second"}
  /\ consumed \in [Packages -> [Domains -> Nat]]
  /\ atCurrent \in [Packages -> [Domains -> Nat]]
  /\ atReset \in [Packages -> [Domains -> Nat]]
  /\ wraps \in [Packages -> [Domains -> Nat]]
  /\ rapl \in [Packages -> Objects]
  /\ \A p \in Packages, d \in Domains : Account(p, d)

\* What the counters show when they are read.
LEMMA ReadingsShow ==
  ASSUME AccountInv, NEW p \in Packages
  PROVE  /\ Readings[p] \in States
         /\ \A d \in Domains : Readings[p].energy[d]
              = IF d \in ReadDomains THEN consumed[p][d] % CounterWord ELSE 0
<1>1. \A d \in Domains : consumed[p][d] \in Nat
  BY DEF AccountInv
<1>2. \A n \in Nat : n % CounterWord \in Nat
  BY RaplAssumption, Division
<1>3. Readings[p] = RaplState(consumed[p], now)
  BY DEF Readings
<1> QED
  BY <1>1, <1>2, <1>3 DEF RaplState, States, Counts, AccountInv

LEMMA AccountInitially == ASSUME IntelInit PROVE AccountInv
<1>1. consumed \in [Packages -> [Domains -> Nat]] /\ now = 0
  BY ReadingsAssumption DEF IntelInit, Init
<1>2. Nothing \in [Domains -> Nat] /\ Nothing \in Counts
  BY DEF Nothing, Counts
<1>3. \A n \in Nat : n % CounterWord \in Nat
  BY RaplAssumption, Division
<1>4. \A p \in Packages :
        /\ Readings[p] \in States
        /\ \A d \in Domains : Readings[p].energy[d]
             = IF d \in ReadDomains THEN consumed[p][d] % CounterWord ELSE 0
  BY <1>1, <1>3 DEF Readings, RaplState, States, Counts
<1>5. rapl \in [Packages -> Objects]
  BY <1>1, <1>2, <1>4 DEF IntelInit, Objects, States
<1>6. ASSUME NEW p \in Packages, NEW d \in Domains PROVE Account(p, d)
  <2>1. /\ rapl[p].current = Readings[p] /\ rapl[p].total = Nothing
        /\ atCurrent = consumed /\ atReset = consumed
        /\ wraps[p] = Nothing /\ raplPc = "ready"
    BY DEF IntelInit
  <2>2. consumed[p][d] \in Nat /\ Nothing[d] = 0
    BY <1>1 DEF Nothing
  <2>3. rapl[p].current.energy[d]
          = IF d \in ReadDomains THEN consumed[p][d] % CounterWord ELSE 0
    BY <1>4, <2>1
  <2> QED  BY <2>1, <2>2, <2>3, RaplAssumption DEF Account, Counted
<1> QED  BY <1>1, <1>2, <1>5, <1>6 DEF AccountInv, IntelInit

\* A sample of every Rapl object, as a step of reset() or of the accumulator:
\* where a turn of the counter cannot have been missed, the total grows by what
\* was consumed since the last reading, less one for a wrap.
LEMMA SampledEffect ==
  ASSUME AccountInv
  PROVE  /\ Sampled \in [Packages -> Objects]
         /\ \A p \in Packages, d \in Domains :
              Sampled[p].current.energy[d]
                = IF d \in ReadDomains THEN consumed[p][d] % CounterWord ELSE 0
         /\ raplPc = "ready" => \A p \in Packages, d \in Domains :
              Sampled[p].total[d] =
                IF d \notin ReadDomains THEN 0
                ELSE rapl[p].total[d] + consumed[p][d] - atCurrent[p][d]
                     - (IF rapl[p].current.energy[d] > Readings[p].energy[d]
                        THEN 1 ELSE 0)
<1>1. ASSUME NEW p \in Packages
      PROVE  /\ Readings[p] \in States /\ rapl[p] \in Objects
             /\ Sampled[p] = sample(rapl[p], Readings[p])
             /\ Sampled[p] \in Objects /\ Sampled[p].current = Readings[p]
             /\ \A d \in Domains : Sampled[p].total[d] = rapl[p].total[d]
                  + energyDelta(rapl[p].current.energy[d], Readings[p].energy[d])
  <2>1. Readings[p] \in States /\ rapl[p] \in Objects
    BY ReadingsShow DEF AccountInv
  <2>2. Sampled[p] = sample(rapl[p], Readings[p])
    BY DEF Sampled
  <2> QED  BY <2>1, <2>2, SampleEffect
<1>2. Sampled \in [Packages -> Objects]
  BY <1>1 DEF Sampled
<1>3. ASSUME NEW p \in Packages, NEW d \in Domains
      PROVE  Sampled[p].current.energy[d]
               = IF d \in ReadDomains THEN consumed[p][d] % CounterWord ELSE 0
  BY <1>1, ReadingsShow
<1>4. ASSUME raplPc = "ready", NEW p \in Packages, NEW d \in Domains
      PROVE  Sampled[p].total[d] =
               IF d \notin ReadDomains THEN 0
               ELSE rapl[p].total[d] + consumed[p][d] - atCurrent[p][d]
                    - (IF rapl[p].current.energy[d] > Readings[p].energy[d]
                       THEN 1 ELSE 0)
  <2> DEFINE before == rapl[p].current.energy[d]
             after == Readings[p].energy[d]
  <2>1. Account(p, d) /\ rapl[p].total[d] \in Int
    BY <1>1 DEF AccountInv, Objects, Counts
  <2>2. Sampled[p].total[d] = rapl[p].total[d] + energyDelta(before, after)
    BY <1>1
  <2>3. CASE d \notin ReadDomains
    <3>1. before = 0 /\ after = 0 /\ rapl[p].total[d] = 0
      BY <1>4, <2>1, <2>3, ReadingsShow DEF Account
    <3>2. energyDelta(0, 0) = 0
      BY RaplAssumption DEF energyDelta
    <3> QED  BY <2>2, <2>3, <3>1, <3>2
  <2>4. CASE d \in ReadDomains
    <3> DEFINE a == atCurrent[p][d]
               c == consumed[p][d]
    <3>1. before = a % CounterWord /\ after = c % CounterWord
      BY <1>4, <2>1, <2>4, ReadingsShow DEF Account
    <3>2. a \in Nat /\ c \in Nat
      BY DEF AccountInv
    <3>3. a <= c /\ c - a < CounterWord
      BY <1>4, <2>1 DEF Account
    <3> HIDE DEF a, c
    <3>4. energyDelta(a % CounterWord, c % CounterWord)
            = c - a - (IF (a % CounterWord) > (c % CounterWord) THEN 1 ELSE 0)
      BY <3>2, <3>3, DeltaOfReadings
    <3> HIDE DEF before, after
    <3>5. energyDelta(before, after) = c - a - (IF before > after THEN 1 ELSE 0)
      BY <3>1, <3>4
    <3>6. Sampled[p].total[d] = rapl[p].total[d] + c - a
                                - (IF before > after THEN 1 ELSE 0)
      BY <2>1, <2>2, <3>2, <3>5
    <3> QED  BY <2>4, <3>6 DEF a, c, before, after
  <2> QED  BY <2>3, <2>4
<1> QED  BY <1>2, <1>3, <1>4

LEMMA EmptyKeepsAccount == ASSUME AccountInv, EmptyRapl PROVE AccountInv'
<1>1. /\ raplPc' = "first" /\ now' = now /\ consumed' = consumed
      /\ atCurrent' = atCurrent /\ atReset' = atReset /\ wraps' = wraps
      /\ rapl' = [p \in Packages |-> Emptied(rapl[p], now)]
  BY DEF EmptyRapl, vars, clock
<1> DEFINE empty == [energy |-> Nothing, time |-> now]
<1>2. empty \in States /\ \A d \in Domains : empty.energy[d] = 0
  BY DEF States, Counts, Nothing, AccountInv
<1>3. ASSUME NEW p \in Packages
      PROVE  Emptied(rapl[p], now) \in Objects /\ rapl'[p].current = empty
  BY <1>1, <1>2 DEF Emptied, Objects, AccountInv
<1>4. rapl' \in [Packages -> Objects]
  BY <1>1, <1>3
<1>5. ASSUME NEW p \in Packages, NEW d \in Domains PROVE Account(p, d)'
  BY <1>1, <1>2, <1>3 DEF Account, AccountInv
<1> QED  BY <1>1, <1>4, <1>5 DEF AccountInv

LEMMA FillKeepsAccount == ASSUME AccountInv, FillRapl PROVE AccountInv'
<1>1. /\ raplPc' = "second" /\ now' = now /\ consumed' = consumed
      /\ atCurrent' = consumed /\ atReset' = atReset /\ wraps' = wraps
      /\ rapl' = Sampled
  BY DEF FillRapl, vars, clock
<1>2. ASSUME NEW p \in Packages, NEW d \in Domains PROVE Account(p, d)'
  <2>1. consumed[p][d] \in Nat /\ CounterWord \in Nat \ {0}
    BY RaplAssumption DEF AccountInv
  <2> QED  BY <1>1, <2>1, SampledEffect DEF Account
<1> QED  BY <1>1, <1>2, SampledEffect DEF AccountInv

LEMMA ResetKeepsAccount == ASSUME AccountInv, ResetDevice PROVE AccountInv'
<1>1. /\ raplPc' = "ready" /\ now' = now /\ consumed' = consumed
      /\ atCurrent' = consumed /\ atReset' = consumed
      /\ wraps' = [p \in Packages |-> Nothing]
      /\ rapl' = [p \in Packages |-> TotalZeroed(Sampled[p])]
  BY DEF ResetDevice, BeginReset
<1>2. Nothing \in [Domains -> Nat] /\ Nothing \in Counts
      /\ \A d \in Domains : Nothing[d] = 0
  BY DEF Nothing, Counts
<1>3. ASSUME NEW p \in Packages
      PROVE  /\ rapl'[p] \in Objects /\ rapl'[p].total = Nothing
             /\ rapl'[p].current = Sampled[p].current
  <2>1. Sampled[p] \in Objects  BY SampledEffect
  <2>2. rapl'[p] = [Sampled[p] EXCEPT !.total = Nothing]
    BY <1>1 DEF TotalZeroed
  <2> QED  BY <1>2, <2>1, <2>2 DEF Objects
<1>4. rapl' \in [Packages -> Objects]
  BY <1>1, <1>3
<1>5. ASSUME NEW p \in Packages, NEW d \in Domains PROVE Account(p, d)'
  <2>1. consumed[p][d] \in Nat /\ CounterWord \in Nat \ {0}
    BY RaplAssumption DEF AccountInv
  <2>2. wraps'[p][d] = 0 /\ rapl'[p].total[d] = 0
    BY <1>1, <1>2, <1>3
  <2>3. Counted(p, d)' = 0
    BY <1>1, <2>1, <2>2 DEF Counted
  <2> QED  BY <1>1, <1>3, <2>1, <2>2, <2>3, SampledEffect DEF Account
<1> QED  BY <1>1, <1>2, <1>4, <1>5 DEF AccountInv

LEMMA SampleKeepsAccount == ASSUME AccountInv, SampleDevice PROVE AccountInv'
<1>1. now' = now
  BY DEF SampleDevice, BeginSample, clock
<1>2. /\ raplPc = "ready" /\ raplPc' = "ready" /\ now' = now
      /\ consumed' = consumed /\ atCurrent' = consumed /\ atReset' = atReset
      /\ rapl' = Sampled
      /\ wraps' = [p \in Packages |-> [d \in Domains |->
           IF rapl[p].current.energy[d] > Readings[p].energy[d]
           THEN wraps[p][d] + 1 ELSE wraps[p][d]]]
  BY <1>1 DEF SampleDevice, triggerPowerApiSample
<1>3. wraps' \in [Packages -> [Domains -> Nat]]
  BY <1>2 DEF AccountInv
<1>4. ASSUME NEW p \in Packages, NEW d \in Domains PROVE Account(p, d)'
  <2>1. /\ consumed[p][d] \in Nat /\ atCurrent[p][d] \in Nat
        /\ atReset[p][d] \in Nat /\ wraps[p][d] \in Nat
        /\ CounterWord \in Nat \ {0}
    BY RaplAssumption DEF AccountInv
  <2> DEFINE w == IF rapl[p].current.energy[d] > Readings[p].energy[d]
                  THEN 1 ELSE 0
  <2>2. wraps'[p][d] = wraps[p][d] + w /\ w \in Nat
    BY <1>2, <2>1
  <2>3. rapl'[p].total[d] = IF d \notin ReadDomains THEN 0
                            ELSE rapl[p].total[d] + consumed[p][d]
                                 - atCurrent[p][d] - w
    BY <1>2, SampledEffect
  <2>4. d \in ReadDomains => rapl[p].total[d] = Counted(p, d)
    BY <1>2 DEF AccountInv, Account
  <2> HIDE DEF w
  <2>5. d \in ReadDomains => rapl'[p].total[d] = Counted(p, d)'
    <3>1. Counted(p, d)' = consumed[p][d] - atReset[p][d] - (wraps[p][d] + w)
      BY <1>2, <2>2 DEF Counted
    <3>2. Counted(p, d) = atCurrent[p][d] - atReset[p][d] - wraps[p][d]
      BY DEF Counted
    <3>3. Counted(p, d) + consumed[p][d] - atCurrent[p][d] - w = Counted(p, d)'
      BY <2>1, <2>2, <3>1, <3>2
    <3> QED  BY <2>3, <2>4, <3>3
  <2> QED  BY <1>2, <2>1, <2>3, <2>5, SampledEffect DEF Account
<1> QED  BY <1>2, <1>3, <1>4, SampledEffect DEF AccountInv

LEMMA ElapseKeepsAccount ==
  ASSUME AccountInv, NEW spent \in [Packages -> Steps], Elapse(spent)
  PROVE  AccountInv'
<1>1. /\ now' = now + 1 /\ raplPc' = raplPc /\ rapl' = rapl
      /\ atCurrent' = atCurrent /\ atReset' = atReset /\ wraps' = wraps
      /\ consumed' = [p \in Packages |->
                        [d \in Domains |-> consumed[p][d] + spent[p][d]]]
  BY DEF Elapse, Tick
<1>2. ASSUME NEW p \in Packages, NEW d \in Domains
      PROVE  /\ spent[p][d] \in Nat /\ consumed[p][d] \in Nat
             /\ atCurrent[p][d] \in Nat
             /\ consumed'[p][d] = consumed[p][d] + spent[p][d]
  BY <1>1, ReadingsAssumption DEF AccountInv
<1>3. consumed' \in [Packages -> [Domains -> Nat]] /\ now' \in Nat
  BY <1>1, <1>2 DEF AccountInv
<1>4. ASSUME NEW p \in Packages, NEW d \in Domains PROVE Account(p, d)'
  <2>1. Account(p, d)  BY DEF AccountInv
  <2>2. raplPc # "first" =>
          consumed[p][d] + spent[p][d] - atCurrent[p][d] < CounterWord
    BY DEF Elapse
  <2>3. Counted(p, d)' = Counted(p, d)
    BY <1>1 DEF Counted
  <2> QED  BY <1>1, <1>2, <2>1, <2>2, <2>3 DEF Account
<1> QED  BY <1>1, <1>3, <1>4 DEF AccountInv

LEMMA AccountKept ==
  ASSUME AccountInv, now' = now, raplPc' = raplPc, UNCHANGED accounts
  PROVE  AccountInv'
  BY DEF AccountInv, accounts, Account, Counted

LEMMA AccountStep ==
  ASSUME AccountInv, [IntelNext]_intelVars
  PROVE  AccountInv'
<1>1. ASSUME Execute PROVE AccountInv'
  BY <1>1, AccountKept DEF Execute, Work
<1>2. ASSUME UNCHANGED intelVars PROVE AccountInv'
  BY <1>2, AccountKept DEF intelVars, vars, clock
<1>3. ASSUME ReadPcm \/ FinishDevice PROVE AccountInv'
  BY <1>3, AccountKept DEF ReadPcm, ReadCounter, FinishDevice, FinishSample, clock
<1> QED
  BY <1>1, <1>2, <1>3, EmptyKeepsAccount, FillKeepsAccount, ResetKeepsAccount,
     SampleKeepsAccount, ElapseKeepsAccount DEF IntelNext

-----------------------------------------------------------------------------
(* The two accountings *)

\* A division the code makes in doubles is exact here when the scale of powers
\* is a multiple of every time.
ExactPowers == \A dt \in 1 .. MaxTime : Scale % dt = 0

\* MaxPower is what the device may draw: m is the most a package consumes in a
\* tick.
PowersBounded(m) ==
  /\ m \in Nat
  /\ \A spent \in Steps : spent[DefaultDomain] <= m
  /\ Scale * m * Cardinality(Packages) <= MaxPower

\* The clock, the readings of the Rapl objects, and how far apart the two
\* times of a sample are.
ClockInv(m) ==
  /\ now \in 0 .. MaxTime /\ readAt \in 0 .. now /\ interval \in 0 .. readAt
  /\ next.time \in 0 .. now /\ curr.time \in 0 .. now
  /\ total \in Nat /\ samples \in Nat
  /\ opening \in [ours : Nat, theirs : Int]
  /\ sampling # "no" => raplPc = "ready"
  /\ raplPc = "ready" =>
       /\ \A p \in Packages :
            /\ rapl[p].current.time = readAt
            /\ consumed[p][DefaultDomain] - atCurrent[p][DefaultDomain]
                 <= m * (now - readAt)
       /\ sampling = "no" /\ pc # "first" => next.time - readAt \in 0 .. MaxLag
       /\ sampling # "no" => now - readAt \in 0 .. MaxLag
       /\ sampling # "no" /\ pc # "first" =>
            curr.time - (readAt - interval) \in 0 .. MaxLag
       /\ resets > 0 /\ pc # "first" => samples # 0

\* EnergyIsConsumed, with the energy counted that the sample in progress has
\* not added to the total yet.
AgreeWith(counted, pending) ==
  LET ours == (total - opening.ours) * TicksPerMs
      theirs == Scale * counted - pending - opening.theirs
  IN  /\ ours <= theirs + (samples - 1) * MaxPower * MaxLag
      /\ theirs <= ours + (samples - 1) * MaxPower * (MaxLag + TicksPerMs - 1)

Counting(C) ==
  C \in [Packages -> Int] /\ \A p \in Packages : C[p] = Counted(p, DefaultDomain)

PowerOf(p) == getCurrentPower(rapl[p])[DefaultDomain]

Powering(W) ==
  W \in [Packages -> Int] /\ \A p \in Packages : W[p] = PowerOf(p)

Agree ==
  raplPc = "ready" => \E C, W :
    /\ Counting(C)
    /\ sampling # "no" => Powering(W) /\ Sum(W, Packages) \in 0 .. MaxPower
    /\ resets > 0 /\ pc # "first" =>
         AgreeWith(Sum(C, Packages),
                   IF sampling = "no" THEN 0 ELSE interval * Sum(W, Packages))

\* The operator of the module is the sum of a function.
LEMMA CountedIsSum ==
  MapThenSumSet(LAMBDA p : Counted(p, DefaultDomain), Packages)
    = Sum([p \in Packages |-> Counted(p, DefaultDomain)], Packages)
<1> DEFINE F == [p \in Packages |-> Counted(p, DefaultDomain)]
           P(g) == [s \in SUBSET Packages |->
                      IF s = {} THEN 0
                      ELSE Counted(Pick(s), DefaultDomain) + g[s \ {Pick(s)}]]
           Q(g) == SumsFrom(F, Packages, g)
<1>1. \A s \in SUBSET Packages : s # {} => Pick(s) \in Packages
  BY DEF Pick
<1>2. \A g : P(g) = Q(g)
  BY <1>1 DEF SumsFrom
<1>3. MapThenSumSet(LAMBDA p : Counted(p, DefaultDomain), Packages)
        = (CHOOSE g : g = P(g))[Packages]
  BY DEF MapThenSumSet, MapThenFoldSet, Pick
<1>4. Sum(F, Packages) = (CHOOSE g : g = Q(g))[Packages]
  BY DEF Sum, SumTable
<1> HIDE DEF P, Q, F
<1>5. (CHOOSE g : g = P(g)) = (CHOOSE g : g = Q(g))
  BY <1>2, Zenon
<1> QED  BY <1>3, <1>4, <1>5 DEF F

LEMMA PowerIsSum ==
  getCurrentPowerInWatts(rapl, DefaultDomain)
    = Sum([p \in Packages |-> PowerOf(p)], Packages)
<1> DEFINE F == [p \in Packages |-> PowerOf(p)]
           P(g) == [s \in SUBSET Packages |->
                      IF s = {} THEN 0
                      ELSE PowerOf(Pick(s)) + g[s \ {Pick(s)}]]
           Q(g) == SumsFrom(F, Packages, g)
<1>1. \A s \in SUBSET Packages : s # {} => Pick(s) \in Packages
  BY DEF Pick
<1>2. \A g : P(g) = Q(g)
  BY <1>1 DEF SumsFrom
<1>3. getCurrentPowerInWatts(rapl, DefaultDomain)
        = (CHOOSE g : g = P(g))[Packages]
  BY DEF getCurrentPowerInWatts, MapThenSumSet, MapThenFoldSet, Pick, PowerOf
<1>4. Sum(F, Packages) = (CHOOSE g : g = Q(g))[Packages]
  BY DEF Sum, SumTable
<1> HIDE DEF P, Q, F
<1>5. (CHOOSE g : g = P(g)) = (CHOOSE g : g = Q(g))
  BY <1>2, Zenon
<1> QED  BY <1>3, <1>4, <1>5 DEF F

\* A power times its time is the energy.
LEMMA ExactPower ==
  ASSUME NEW i \in Nat, NEW dt \in Nat, NEW m \in Nat, i <= m * dt,
         dt # 0 => Scale % dt = 0
  PROVE  /\ calculate_power(i, dt, Scale) \in 0 .. Scale * m
         /\ dt * calculate_power(i, dt, Scale) = Scale * i
<1>1. Scale \in Nat \ {0}  BY RaplAssumption
<1>2. CASE dt = 0
  <2>1. i = 0 /\ Scale * m \in Nat  BY <1>1, <1>2
  <2> QED  BY <1>1, <1>2, <2>1 DEF calculate_power
<1>3. CASE dt # 0
  <2> DEFINE q == Scale \div dt
             x == q * i
  <2>1. q \in Nat /\ Scale = dt * q
    <3>1. dt \in Nat \ {0}  BY <1>3
    <3>2. q \in Nat /\ Scale = dt * q + (Scale % dt)
      BY <1>1, <3>1, Division
    <3> QED  BY <1>3, <3>2
  <2>2. x \in Nat /\ dt * x = Scale * i
    <3> HIDE DEF q
    <3>1. \A u, v, w \in Nat : u * (v * w) = (u * v) * w
      BY SMTT(30)
    <3>2. x \in Nat
      BY <2>1
    <3> QED  BY <2>1, <3>1, <3>2
  <2> HIDE DEF x
  <2>3. (dt * x) \div dt = x
    <3>1. \A u, v \in Nat : u # 0 => (u * v) \div u = v
      BY SMTT(30)
    <3> QED  BY <1>3, <2>2, <3>1
  <2>4. calculate_power(i, dt, Scale) = x
    BY <1>3, <2>2, <2>3 DEF calculate_power
  <2>5. x <= Scale * m
    <3> DEFINE y == Scale * m
    <3>1. y \in Nat /\ Scale * i <= dt * y
      <4>1. \A u, v, w, z \in Nat : v <= w * z => u * v <= z * (u * w)
        <5>1. \A u, v, w \in Nat : v <= w => u * v <= u * w
          BY SMTT(30)
        <5>2. \A u, w, z \in Nat : u * (w * z) = z * (u * w)
          BY SMTT(30)
        <5>3. \A w, z \in Nat : w * z \in Nat
          OBVIOUS
        <5> QED  BY <5>1, <5>2, <5>3
      <4>2. y \in Nat
        BY <1>1
      <4> QED  BY <1>1, <4>1, <4>2
    <3> HIDE DEF y
    <3>2. \A u, v, w \in Nat : u # 0 /\ u * v <= u * w => v <= w
      BY SMTT(30)
    <3> QED  BY <1>3, <2>2, <3>1, <3>2 DEF y
  <2>6. Scale * m \in Nat
    BY <1>1
  <2> QED  BY <2>2, <2>4, <2>5, <2>6
<1> QED  BY <1>2, <1>3

\* What a package counts in a sample is its power times the time.
LEMMA PowerOfPackage ==
  ASSUME AccountInv, NEW m \in Nat, ClockInv(m), ExactPowers,
         raplPc = "ready", NEW p \in Packages
  PROVE  LET i == energyDelta(rapl[p].current.energy[DefaultDomain],
                              Readings[p].energy[DefaultDomain])
             power == getCurrentPower(Sampled[p])[DefaultDomain]
         IN  /\ i \in Nat /\ power \in 0 .. Scale * m
             /\ (now - readAt) * power = Scale * i
             /\ Sampled[p].total[DefaultDomain] = rapl[p].total[DefaultDomain] + i
<1> DEFINE d == DefaultDomain
           dt == now - readAt
           a == atCurrent[p][d]
           c == consumed[p][d]
           before == rapl[p].current.energy[d]
           after == Readings[p].energy[d]
           i == energyDelta(before, after)
<1>1. d \in Domains /\ d \in ReadDomains /\ EnergyUnits(d) = Scale
  BY DEF DefaultDomain, Domains, ReadDomains, EnergyUnits
<1>2. rapl[p] \in Objects /\ Readings[p] \in States
  BY ReadingsShow DEF AccountInv
<1>3. Sampled[p] = sample(rapl[p], Readings[p])
  BY DEF Sampled
<1>4. /\ Sampled[p].previous = rapl[p].current
      /\ Sampled[p].current = Readings[p]
      /\ Sampled[p].total[d] = rapl[p].total[d] + i
  BY <1>1, <1>2, <1>3, SampleEffect
<1>5. Readings[p].time = now /\ rapl[p].current.time = readAt
  BY DEF Readings, RaplState, ClockInv
<1>6. dt \in Nat /\ dt <= MaxTime /\ c - a <= m * dt
  BY StateAssumption DEF ClockInv
<1>7. /\ a \in Nat /\ c \in Nat /\ a <= c /\ c - a < CounterWord
      /\ before = (a % CounterWord)
  BY <1>1 DEF AccountInv, Account
<1>8. after = (c % CounterWord)
  BY <1>1, ReadingsShow
<1>9. i = c - a - (IF (a % CounterWord) > (c % CounterWord) THEN 1 ELSE 0)
  <2> HIDE DEF a, c, before, after
  <2> QED  BY <1>7, <1>8, DeltaOfReadings
<1>10. i \in Nat /\ i <= c - a
  <2> HIDE DEF a, c, i
  <2>1. (a % CounterWord) > (c % CounterWord) => a # c
    BY <1>7, DeltaOfReadings
  <2> QED  BY <1>7, <1>9, <2>1
<1>11. i <= m * dt
  <2> DEFINE md == m * dt
  <2>1. md \in Int /\ c - a <= md
    BY <1>6
  <2> HIDE DEF a, c, i, md
  <2>2. i <= md
    BY <1>7, <1>10, <2>1
  <2> QED  BY <2>2 DEF md
<1>12. getCurrentPower(Sampled[p])[d] = calculate_power(i, dt, Scale)
  BY <1>1, <1>4, <1>5 DEF getCurrentPower, current_power,
     getPreviousEnergyIncrement, EnergyIncrement
<1>13. dt # 0 => Scale % dt = 0
  BY <1>6 DEF ExactPowers
<1> HIDE DEF d, dt, i
<1>14. /\ calculate_power(i, dt, Scale) \in 0 .. Scale * m
       /\ dt * calculate_power(i, dt, Scale) = Scale * i
  BY <1>6, <1>10, <1>11, <1>13, ExactPower
<1> QED  BY <1>4, <1>10, <1>12, <1>14 DEF d, dt, i

\* And what all packages count is the power of the device times the time.
LEMMA PowerOfDevice ==
  ASSUME AccountInv, NEW m \in Nat, PowersBounded(m), ClockInv(m), ExactPowers,
         raplPc = "ready", NEW C \in [Packages -> Int],
         NEW D \in [Packages -> Int],
         \A p \in Packages : /\ C[p] = rapl[p].total[DefaultDomain]
                             /\ D[p] = Sampled[p].total[DefaultDomain]
  PROVE  /\ Sum(C, Packages) \in Int /\ Sum(D, Packages) \in Int
         /\ \E W \in [Packages -> Int] :
              /\ \A p \in Packages : W[p] = getCurrentPower(Sampled[p])[DefaultDomain]
              /\ Sum(W, Packages) \in 0 .. MaxPower
              /\ Scale * Sum(D, Packages)
                   = Scale * Sum(C, Packages) + (now - readAt) * Sum(W, Packages)
<1> DEFINE d == DefaultDomain
           dt == now - readAt
           I == [p \in Packages |-> energyDelta(rapl[p].current.energy[d],
                                                Readings[p].energy[d])]
           W == [p \in Packages |-> getCurrentPower(Sampled[p])[d]]
           H == [p \in Packages |-> dt * W[p]]
           Z == [p \in Packages |-> 0]
           power == Sum(W, Packages)
<1>1. IsFiniteSet(Packages) /\ Scale \in Nat /\ Scale * m \in Nat
  BY ReadingsAssumption, RaplAssumption
<1>2. \A p \in Packages :
        /\ I[p] \in Nat /\ W[p] \in 0 .. Scale * m /\ dt * W[p] = Scale * I[p]
        /\ D[p] = C[p] + I[p]
  BY PowerOfPackage
<1>3. dt \in Nat
  BY DEF ClockInv
<1>4. /\ I \in [Packages -> Int] /\ W \in [Packages -> Int]
      /\ Z \in [Packages -> Int]
  <2>1. \A p \in Packages : I[p] \in Int /\ W[p] \in Int
    <3> HIDE DEF I, W
    <3> QED  BY <1>1, <1>2
  <2> QED  BY <2>1
<1> HIDE DEF I, W, dt, power
<1>5. \A p \in Packages : dt * W[p] \in Int /\ H[p] = dt * W[p] + Z[p]
  BY <1>3, <1>4
<1>6. H \in [Packages -> Int]
  BY <1>5
<1>7. \A p \in Packages : H[p] = Scale * I[p] + Z[p]
  BY <1>1, <1>2, <1>4
<1> HIDE DEF H, Z
<1>8. /\ Sum(H, Packages) = dt * Sum(W, Packages) + Sum(Z, Packages)
      /\ Sum(W, Packages) \in Int /\ Sum(Z, Packages) \in Int
  <2>1. Combined(H, dt, W, Z, Packages)
    BY <1>3, <1>4, <1>5, <1>6 DEF Combined
  <2> QED  BY <1>1, <2>1, SumLinear
<1>9. /\ Sum(H, Packages) = Scale * Sum(I, Packages) + Sum(Z, Packages)
      /\ Sum(I, Packages) \in Int
  <2>1. Combined(H, Scale, I, Z, Packages)
    BY <1>1, <1>4, <1>6, <1>7 DEF Combined
  <2> QED  BY <1>1, <2>1, SumLinear
<1>10. /\ Sum(D, Packages) = Sum(C, Packages) + Sum(I, Packages)
       /\ Sum(C, Packages) \in Int /\ Sum(D, Packages) \in Int
  <2>1. Combined(D, 1, I, C, Packages)
    BY <1>2, <1>4 DEF Combined
  <2>2. /\ Sum(D, Packages) = 1 * Sum(I, Packages) + Sum(C, Packages)
        /\ Sum(C, Packages) \in Int /\ Sum(D, Packages) \in Int
    BY <1>1, <2>1, SumLinear
  <2> QED  BY <1>9, <2>2
<1>11. dt * Sum(W, Packages) = Scale * Sum(I, Packages)
  <2> DEFINE x == dt * Sum(W, Packages)
             y == Scale * Sum(I, Packages)
  <2>1. x \in Int /\ y \in Int
    BY <1>1, <1>3, <1>8, <1>9
  <2>2. Sum(H, Packages) = x + Sum(Z, Packages)
        /\ Sum(H, Packages) = y + Sum(Z, Packages)
    BY <1>8, <1>9
  <2> HIDE DEF x, y
  <2>3. x = y
    BY <1>8, <2>1, <2>2
  <2> QED  BY <2>3 DEF x, y
<1>12. power = Sum(W, Packages)
  BY DEF power
<1>13. power \in 0 .. MaxPower
  <2>1. Sum(W, Packages) \in 0 .. (Scale * m) * Cardinality(Packages)
    BY <1>1, <1>2, <1>4, SumBounded
  <2>2. Scale * m * Cardinality(Packages) <= MaxPower /\ MaxPower \in Nat
    BY StateAssumption DEF PowersBounded
  <2>3. Scale * m * Cardinality(Packages) \in Int
    BY <1>1, FS_CardinalityType
  <2> QED  BY <1>8, <1>12, <2>1, <2>2, <2>3
<1>14. Scale * Sum(D, Packages) = Scale * Sum(C, Packages) + dt * power
  <2>1. \A u, v \in Int : Scale * (u + v) = Scale * u + Scale * v
    BY <1>1
  <2> QED  BY <1>9, <1>10, <1>11, <1>12, <2>1
<1>15. \A p \in Packages : W[p] = getCurrentPower(Sampled[p])[DefaultDomain]
  BY DEF W, d
<1> QED  BY <1>4, <1>10, <1>13, <1>14, <1>15 DEF dt, power

EnergyInv(m) == ClockInv(m) /\ Agree

\* The sum of what is counted.
LEMMA CountingExists ==
  ASSUME AccountInv
  PROVE  \E C : Counting(C)
<1>1. DefaultDomain \in Domains
  BY DEF DefaultDomain, Domains
<1>2. \A p \in Packages : Counted(p, DefaultDomain) \in Int
  BY <1>1 DEF AccountInv, Counted
<1>3. Counting([p \in Packages |-> Counted(p, DefaultDomain)])
  BY <1>2 DEF Counting
<1> QED  BY <1>3

LEMMA CountingSum ==
  ASSUME NEW C, Counting(C)
  PROVE  Sum(C, Packages) \in Int /\ CountedEnergy = Scale * Sum(C, Packages)
<1>1. C \in [Packages -> Int] /\ IsFiniteSet(Packages)
  BY ReadingsAssumption DEF Counting
<1>2. Combined(C, 0, C, C, Packages)
  BY <1>1 DEF Combined
<1>3. Sum(C, Packages) \in Int
  BY <1>1, <1>2, SumLinear
<1>4. C = [p \in Packages |-> Counted(p, DefaultDomain)]
  BY DEF Counting
<1>5. CountedEnergy = Scale * Sum(C, Packages)
  BY <1>4, CountedIsSum DEF CountedEnergy
<1> QED  BY <1>3, <1>5

LEMMA EnergyInitially ==
  ASSUME IntelInit, NEW m \in Nat
  PROVE  EnergyInv(m)
<1>1. AccountInv
  BY AccountInitially
<1>2. /\ now = 0 /\ next.time = 0 /\ curr.time = 0 /\ readAt = 0 /\ interval = 0
      /\ total = 0 /\ samples = 0 /\ resets = 0 /\ sampling = "no"
      /\ opening = [ours |-> 0, theirs |-> 0]
      /\ MaxTime \in Nat /\ MaxLag \in Nat /\ atCurrent = consumed
  BY StateAssumption DEF IntelInit, Init
<1>3. \A p \in Packages : rapl[p].current.time = 0
  BY <1>2 DEF IntelInit, Readings, RaplState
<1>4. DefaultDomain \in Domains
  BY DEF DefaultDomain, Domains
<1>5. \A p \in Packages : consumed[p][DefaultDomain] \in Nat
  BY <1>1, <1>4 DEF AccountInv
<1>6. ClockInv(m)
  BY <1>2, <1>3, <1>5 DEF ClockInv
<1>7. Agree
  BY <1>1, <1>2, CountingExists DEF Agree
<1> QED  BY <1>6, <1>7 DEF EnergyInv

\* A reset starts both accounts; nothing is compared until its first sample.
LEMMA EnergyReset ==
  ASSUME AccountInv, NEW m \in Nat, EnergyInv(m), ResetDevice
  PROVE  EnergyInv(m)'
<1>1. /\ now' = now /\ next' = next /\ curr' = curr
      /\ readAt' = now /\ interval' = 0
      /\ total' = 0 /\ samples' = 0 /\ pc' = "first" /\ opening' = opening
      /\ sampling' = "no" /\ consumed' = consumed /\ atCurrent' = consumed
      /\ rapl' = [p \in Packages |-> TotalZeroed(Sampled[p])]
  BY DEF ResetDevice, BeginReset, readings
<1>2. /\ now \in 0 .. MaxTime /\ next.time \in 0 .. now /\ curr.time \in 0 .. now
      /\ opening \in [ours : Nat, theirs : Int] /\ MaxTime \in Nat
  BY StateAssumption DEF EnergyInv, ClockInv
<1>3. DefaultDomain \in Domains
  BY DEF DefaultDomain, Domains
<1>4. \A p \in Packages :
        consumed[p][DefaultDomain] \in Nat /\ Readings[p].time = now
  BY <1>3 DEF AccountInv, Readings, RaplState
<1>5. ASSUME NEW p \in Packages PROVE rapl'[p].current.time = now
  <2>1. rapl[p] \in Objects /\ Readings[p] \in States
    BY ReadingsShow DEF AccountInv
  <2>2. Sampled[p] \in Objects /\ Sampled[p].current = Readings[p]
    BY <2>1, SampleEffect DEF Sampled
  <2>3. rapl'[p] = [Sampled[p] EXCEPT !.total = Nothing]
    BY <1>1 DEF TotalZeroed
  <2>4. rapl'[p].current = Sampled[p].current
    BY <2>2, <2>3 DEF Objects
  <2> QED  BY <1>4, <2>2, <2>4
<1>6. ClockInv(m)'
  <2>1. \A p \in Packages :
          consumed'[p][DefaultDomain] - atCurrent'[p][DefaultDomain] = 0
    BY <1>1, <1>4
  <2>2. m * (now' - readAt') = 0
    BY <1>1, <1>2
  <2>3. \A p \in Packages :
          /\ rapl'[p].current.time = readAt'
          /\ consumed'[p][DefaultDomain] - atCurrent'[p][DefaultDomain]
               <= m * (now' - readAt')
    BY <1>1, <1>5, <2>1, <2>2
  <2> QED  BY <1>1, <1>2, <2>3 DEF ClockInv
<1>7. AccountInv'
  BY ResetKeepsAccount
<1>8. (\E C : Counting(C))'
  BY <1>7, CountingExists, PTL
<1>9. Agree'
  BY <1>1, <1>8 DEF Agree
<1> QED  BY <1>6, <1>9 DEF EnergyInv

\* What the Rapl objects count at the beginning of a sample is their power
\* times the time since they were read before, which is pending.
LEMMA EnergyBegin ==
  ASSUME AccountInv, NEW m \in Nat, PowersBounded(m), EnergyInv(m), ExactPowers,
         SampleDevice
  PROVE  EnergyInv(m)'
<1>1. /\ raplPc = "ready" /\ raplPc' = "ready" /\ pc' = pc /\ resets' = resets
      /\ sampling = "no" /\ sampling' = "counter"
      /\ now' = now /\ next' = next /\ curr' = next
      /\ readAt' = now /\ interval' = now - readAt
      /\ total' = total /\ samples' = samples /\ opening' = opening
      /\ rapl' = Sampled /\ atCurrent' = consumed /\ consumed' = consumed
  BY DEF SampleDevice, triggerPowerApiSample, BeginSample, clock
<1>2. /\ now \in 0 .. MaxTime /\ MaxTime \in Nat /\ MaxLag \in Nat
      /\ readAt \in 0 .. now /\ next.time \in 0 .. now
      /\ total \in Nat /\ samples \in Nat
      /\ opening \in [ours : Nat, theirs : Int]
      /\ pc # "first" => next.time - readAt \in 0 .. MaxLag
      /\ resets > 0 /\ pc # "first" => samples # 0
  BY <1>1, StateAssumption DEF EnergyInv, ClockInv
<1>3. DefaultDomain \in Domains /\ DefaultDomain \in ReadDomains
  BY DEF DefaultDomain, Domains, ReadDomains
<1>4. PICK C : /\ Counting(C)
               /\ resets > 0 /\ pc # "first" => AgreeWith(Sum(C, Packages), 0)
  BY <1>1 DEF EnergyInv, Agree
<1>5. AccountInv'
  BY SampleKeepsAccount
<1>6. PICK D \in [Packages -> Int] :
        \A p \in Packages : D[p] = Sampled[p].total[DefaultDomain]
  <2>1. \A p \in Packages : Sampled[p].total[DefaultDomain] \in Int
    BY <1>3, SampledEffect DEF Objects, Counts
  <2>2. [p \in Packages |-> Sampled[p].total[DefaultDomain]] \in [Packages -> Int]
    BY <2>1
  <2> QED  BY <2>2
<1>7. /\ C \in [Packages -> Int]
      /\ \A p \in Packages : /\ C[p] = rapl[p].total[DefaultDomain]
                             /\ D[p] = Sampled[p].total[DefaultDomain]
                             /\ D[p] = Counted(p, DefaultDomain)'
  BY <1>1, <1>3, <1>4, <1>5, <1>6 DEF AccountInv, Account, Counting
<1>8. PICK W \in [Packages -> Int] :
        /\ \A p \in Packages : W[p] = getCurrentPower(Sampled[p])[DefaultDomain]
        /\ Sum(W, Packages) \in 0 .. MaxPower
        /\ Scale * Sum(D, Packages)
             = Scale * Sum(C, Packages) + (now - readAt) * Sum(W, Packages)
        /\ Sum(C, Packages) \in Int /\ Sum(D, Packages) \in Int
  BY <1>1, <1>6, <1>7, PowerOfDevice DEF EnergyInv
<1>9. Counting(D)'
  BY <1>6, <1>7 DEF Counting
<1>10. Powering(W)'
  <2>1. \A p \in Packages : PowerOf(p)' = getCurrentPower(Sampled[p])[DefaultDomain]
    BY <1>1 DEF PowerOf
  <2> QED  BY <1>8, <2>1 DEF Powering
<1>11. resets > 0 /\ pc # "first" =>
         AgreeWith(Sum(D, Packages), interval * Sum(W, Packages))'
  <2> SUFFICES ASSUME resets > 0, pc # "first"
               PROVE  AgreeWith(Sum(D, Packages), interval * Sum(W, Packages))'
    OBVIOUS
  <2> DEFINE sC == Scale * Sum(C, Packages)
             sD == Scale * Sum(D, Packages)
             pending == (now - readAt) * Sum(W, Packages)
  <2>1. sC \in Int /\ sD \in Int /\ pending \in Int /\ sD = sC + pending
    BY <1>2, <1>8, RaplAssumption
  <2>2. interval' * Sum(W, Packages) = pending
    BY <1>1
  <2>3. (sC - 0) - opening.theirs = (sD - pending) - opening.theirs
    <3> HIDE DEF sC, sD, pending
    <3> QED  BY <1>2, <2>1
  <2>4. AgreeWith(Sum(C, Packages), 0)
    BY <1>4
  <2> QED  BY <1>1, <2>2, <2>3, <2>4 DEF AgreeWith, sC, sD
<1>12. Agree'
  BY <1>1, <1>8, <1>9, <1>10, <1>11 DEF Agree
<1>13. ClockInv(m)'
  <2>1. \A p \in Packages : rapl'[p].current.time = now
    <3> SUFFICES ASSUME NEW p \in Packages PROVE rapl'[p].current.time = now
      OBVIOUS
    <3>1. rapl[p] \in Objects /\ Readings[p] \in States
      BY ReadingsShow DEF AccountInv
    <3>2. Sampled[p].current = Readings[p]
      BY <3>1, SampleEffect DEF Sampled
    <3> QED  BY <1>1, <3>2 DEF Readings, RaplState
  <2>2. \A p \in Packages : consumed[p][DefaultDomain] \in Nat
    BY <1>3 DEF AccountInv
  <2>3. m * (now' - readAt') = 0
    BY <1>1, <1>2
  <2>4. \A p \in Packages :
          /\ rapl'[p].current.time = readAt'
          /\ consumed'[p][DefaultDomain] - atCurrent'[p][DefaultDomain]
               <= m * (now' - readAt')
    BY <1>1, <2>1, <2>2, <2>3
  <2>5. /\ interval' \in 0 .. readAt' /\ now' - readAt' \in 0 .. MaxLag
        /\ readAt' - interval' = readAt
    BY <1>1, <1>2
  <2> QED  BY <1>1, <1>2, <2>4, <2>5 DEF ClockInv
<1> QED  BY <1>12, <1>13 DEF EnergyInv

\* The arithmetic of a sample: whole milliseconds of the x ticks are counted.
LEMMA SampleArithmetic ==
  ASSUME NEW x \in Nat, NEW power \in 0 .. MaxPower
  PROVE  /\ power * (x \div TicksPerMs) \in Nat
         /\ power * (x \div TicksPerMs) * TicksPerMs <= power * x
         /\ power * x <= power * (x \div TicksPerMs) * TicksPerMs
                           + MaxPower * (TicksPerMs - 1)
<1> DEFINE T == TicksPerMs
           q == x \div T
           r == x % T
           pq == power * q
           pT == pq * T
<1>1. T \in Nat \ {0} /\ MaxPower \in Nat /\ power \in Nat /\ power <= MaxPower
  BY StateAssumption
<1>2. q \in Nat /\ r \in 0 .. (T - 1) /\ x = T * q + r
  BY <1>1, Division
<1>3. pq \in Nat /\ pT \in Nat
  BY <1>1, <1>2
<1>4. power * x = pT + power * r
  <2> HIDE DEF q, r
  <2>1. \A u, v, w, z \in Nat : u * (v * w + z) = (u * w) * v + u * z
    BY SMTT(30)
  <2>2. r \in Nat /\ T \in Nat
    BY <1>1, <1>2
  <2> QED  BY <1>1, <1>2, <2>1, <2>2
<1>5. power * r \in Nat /\ power * r <= MaxPower * (T - 1)
  <2> HIDE DEF r
  <2>1. \A u, v, w, z \in Nat : u <= v /\ w <= z => u * w \in Nat /\ u * w <= v * z
    <3>1. \A u, v, w \in Nat : u <= v => u * w <= v * w /\ w * u <= w * v
      BY SMTT(30)
    <3>2. \A u, v \in Nat : u * v \in Nat
      OBVIOUS
    <3> QED  BY <3>1, <3>2
  <2>2. r \in Nat /\ r <= T - 1 /\ T - 1 \in Nat
    BY <1>1, <1>2
  <2> QED  BY <1>1, <2>1, <2>2
<1> DEFINE pr == power * r
           px == power * x
           mT == MaxPower * (T - 1)
<1>6. px = pT + pr /\ pr \in Nat /\ pr <= mT /\ mT \in Int
  BY <1>1, <1>4, <1>5
<1>7. pT <= px /\ px <= pT + mT
  <2> HIDE DEF pT, pr, px, mT
  <2> QED  BY <1>3, <1>6
<1> QED  BY <1>3, <1>7

\* The time x between two samples and the time i between the readings of the
\* Rapl objects in them differ by what the two samples took.
LEMMA LagArithmetic ==
  ASSUME NEW i \in Nat, NEW x \in Nat, NEW power \in 0 .. MaxPower,
         x <= i + MaxLag, i <= x + MaxLag
  PROVE  /\ power * x <= i * power + MaxPower * MaxLag
         /\ i * power <= power * x + MaxPower * MaxLag
<1>1. power \in Nat /\ MaxPower \in Nat /\ MaxLag \in Nat /\ power <= MaxPower
  BY StateAssumption
<1>2. \A u, v, w, z, k \in Nat :
        u <= v + w /\ k <= z => k * u <= v * k + z * w
  <2> SUFFICES ASSUME NEW u \in Nat, NEW v \in Nat, NEW w \in Nat, NEW z \in Nat,
                      NEW k \in Nat, u <= v + w, k <= z
               PROVE  k * u <= v * k + z * w
    OBVIOUS
  <2>1. k * u <= k * (v + w)
    BY SMTT(30)
  <2>2. k * (v + w) = v * k + k * w
    BY SMTT(30)
  <2>3. k * w <= z * w
    BY SMTT(30)
  <2>4. k * u \in Nat /\ v * k \in Nat /\ k * w \in Nat /\ z * w \in Nat
    OBVIOUS
  <2> QED  BY <2>1, <2>2, <2>3, <2>4
<1>3. power * x <= i * power + MaxPower * MaxLag
  BY <1>1, <1>2
<1>4. power * i <= x * power + MaxPower * MaxLag
  BY <1>1, <1>2
<1>5. power * i = i * power /\ x * power = power * x
  BY <1>1
<1> QED  BY <1>3, <1>4, <1>5

\* The end of a sample adds to the total the power times the time since the
\* sample before; what is pending is settled but for what the truncation drops
\* and for the difference of the two times.
LEMMA EnergyFinish ==
  ASSUME AccountInv, NEW m \in Nat, EnergyInv(m), FinishDevice
  PROVE  EnergyInv(m)'
<1> DEFINE power == getCurrentPowerInWatts(rapl, DefaultDomain)
           x == now - curr.time
           q == x \div TicksPerMs
<1>1. /\ raplPc = "ready" /\ raplPc' = "ready" /\ resets' = resets
      /\ sampling = "time" /\ sampling' = "no" /\ pc' = AfterSample(pc)
      /\ now' = now /\ next'.time = now /\ curr' = curr
      /\ readAt' = readAt /\ interval' = interval
      /\ total' = total + power * q /\ samples' = samples + 1
      /\ opening' = IF pc = "first" THEN [ours |-> total', theirs |-> CountedEnergy]
                    ELSE opening
      /\ rapl' = rapl /\ atCurrent' = atCurrent /\ consumed' = consumed
      /\ atReset' = atReset /\ wraps' = wraps
  BY DEF FinishDevice, FinishSample, TimeDeltaMs, clock, measured, accounts,
     EnergyInv, ClockInv
<1>2. pc' # "first"
  BY <1>1 DEF AfterSample
<1>3. /\ now \in 0 .. MaxTime /\ MaxTime \in Nat /\ MaxLag \in Nat
      /\ readAt \in 0 .. now /\ interval \in 0 .. readAt
      /\ next.time \in 0 .. now /\ curr.time \in 0 .. now
      /\ total \in Nat /\ samples \in Nat
      /\ opening \in [ours : Nat, theirs : Int]
      /\ now - readAt \in 0 .. MaxLag
      /\ pc # "first" => curr.time - (readAt - interval) \in 0 .. MaxLag
  BY <1>1, StateAssumption DEF EnergyInv, ClockInv
<1>4. PICK C, W :
        /\ Counting(C) /\ Powering(W) /\ Sum(W, Packages) \in 0 .. MaxPower
        /\ resets > 0 /\ pc # "first" =>
             AgreeWith(Sum(C, Packages), interval * Sum(W, Packages))
  BY <1>1 DEF EnergyInv, Agree
<1>5. power = Sum(W, Packages)
  <2>1. W = [p \in Packages |-> PowerOf(p)]
    BY <1>4 DEF Powering
  <2> QED  BY <2>1, PowerIsSum
<1>6. power \in 0 .. MaxPower /\ power \in Nat
  BY <1>4, <1>5
<1>7. Sum(C, Packages) \in Int /\ CountedEnergy = Scale * Sum(C, Packages)
  BY <1>4, CountingSum
<1>8. x \in Nat
  BY <1>3
<1> HIDE DEF power, x
<1>9. /\ power * q \in Nat /\ power * q * TicksPerMs <= power * x
      /\ power * x <= power * q * TicksPerMs + MaxPower * (TicksPerMs - 1)
  BY <1>6, <1>8, SampleArithmetic
<1> HIDE DEF q
<1>10. Counting(C)'
  <2>1. \A p \in Packages : Counted(p, DefaultDomain)' = Counted(p, DefaultDomain)
    BY <1>1 DEF Counted
  <2> QED  BY <1>4, <2>1 DEF Counting
<1>11. ClockInv(m)'
  <2>1. now' - readAt' \in 0 .. MaxLag /\ total' \in Nat /\ samples' \in Nat
        /\ samples' # 0
    BY <1>1, <1>3, <1>9
  <2>2. opening' \in [ours : Nat, theirs : Int]
    <3>1. CountedEnergy \in Int
      BY <1>7, RaplAssumption
    <3> QED  BY <1>1, <1>3, <2>1, <3>1
  <2>3. \A p \in Packages :
          /\ rapl'[p].current.time = readAt'
          /\ consumed'[p][DefaultDomain] - atCurrent'[p][DefaultDomain]
               <= m * (now' - readAt')
    BY <1>1 DEF EnergyInv, ClockInv
  <2> QED  BY <1>1, <1>3, <2>1, <2>2, <2>3 DEF ClockInv
<1>12. ASSUME resets > 0 PROVE AgreeWith(Sum(C, Packages), 0)'
  <2> DEFINE sC == Scale * Sum(C, Packages)
             T == TicksPerMs
  <2>1. sC \in Int /\ T \in Nat \ {0} /\ MaxPower \in Nat /\ MaxLag \in Nat
    BY <1>7, StateAssumption, RaplAssumption
  <2>2. CASE pc = "first"
    <3>1. opening'.ours = total' /\ opening'.theirs = sC
      BY <1>1, <1>7, <2>2
    <3>2. (total' - opening'.ours) * T = 0 /\ (sC - 0) - opening'.theirs = 0
      BY <1>1, <1>3, <1>9, <2>1, <3>1
    <3> DEFINE dL == (samples' - 1) * MaxPower * MaxLag
               dT == (samples' - 1) * MaxPower * (MaxLag + T - 1)
    <3>3. dL \in Nat /\ dT \in Nat
      <4>1. \A u, v, w \in Nat : u * v * w \in Nat
        OBVIOUS
      <4>2. samples' - 1 \in Nat /\ MaxLag + T - 1 \in Nat
        BY <1>1, <1>3, <2>1
      <4> QED  BY <2>1, <4>1, <4>2
    <3>4. 0 <= 0 + dL /\ 0 <= 0 + dT
      <4> HIDE DEF dL, dT
      <4> QED  BY <3>3
    <3> QED  BY <3>2, <3>4 DEF AgreeWith
  <2>3. CASE pc # "first"
    <3> DEFINE ours == (total - opening.ours) * T
               pending == interval * power
               theirs == sC - pending - opening.theirs
               px == power * x
               pT == power * q * T
               mL == MaxPower * MaxLag
               mT == MaxPower * (T - 1)
               dL == (samples - 1) * MaxPower * MaxLag
               dT == (samples - 1) * MaxPower * (MaxLag + T - 1)
    <3>1. opening' = opening
      BY <1>1, <2>3
    <3>2. ours <= theirs + dL /\ theirs <= ours + dT
      BY <1>4, <1>5, <1>12, <2>3 DEF AgreeWith
    <3>3. /\ ours \in Int /\ pending \in Int /\ px \in Int /\ pT \in Int
          /\ mL \in Int /\ mT \in Int /\ dL \in Int /\ dT \in Int
          /\ opening.theirs \in Int /\ theirs \in Int
      BY <1>3, <1>6, <1>8, <1>9, <2>1
    <3>4. px <= pending + mL /\ pending <= px + mL
      <4>1. x <= interval + MaxLag /\ interval <= x + MaxLag /\ interval \in Nat
        BY <1>3, <2>3 DEF x
      <4> QED  BY <1>6, <1>8, <4>1, LagArithmetic
    <3>5. pT <= px /\ px <= pT + mT
      BY <1>9
    <3>6. (total' - opening'.ours) * T = ours + pT
      <4>1. \A a, b, c, t \in Int : ((a + b) - c) * t = (a - c) * t + b * t
        BY SMTT(30)
      <4>2. total \in Int /\ power * q \in Int /\ opening.ours \in Int /\ T \in Int
        BY <1>3, <1>9, <2>1
      <4> QED  BY <1>1, <3>1, <4>1, <4>2
    <3>7. (samples' - 1) * MaxPower * MaxLag = dL + mL
      <4>1. \A u, v, w \in Int : ((u + 1) - 1) * v * w = (u - 1) * v * w + v * w
        BY SMTT(30)
      <4> QED  BY <1>1, <1>3, <2>1, <4>1
    <3>8. (samples' - 1) * MaxPower * (MaxLag + T - 1) = dT + mL + mT
      <4>1. \A u, v, w, t \in Int :
              ((u + 1) - 1) * v * (w + t - 1)
                = (u - 1) * v * (w + t - 1) + v * w + v * (t - 1)
        BY SMTT(30)
      <4> QED  BY <1>1, <1>3, <2>1, <4>1
    <3>9. (sC - 0) - opening'.theirs = theirs + pending
      <4> HIDE DEF sC, pending
      <4> QED  BY <2>1, <3>1, <3>3
    <3> HIDE DEF ours, theirs, pending, px, pT, mL, mT, dL, dT
    <3>10. /\ ours + pT <= (theirs + pending) + (dL + mL)
           /\ theirs + pending <= (ours + pT) + (dT + mL + mT)
      BY <3>2, <3>3, <3>4, <3>5
    <3> QED  BY <3>6, <3>7, <3>8, <3>9, <3>10 DEF AgreeWith, sC, T
  <2> QED  BY <1>12, <2>2, <2>3
<1>13. Agree'
  BY <1>1, <1>10, <1>12 DEF Agree
<1> QED  BY <1>11, <1>13 DEF EnergyInv

\* Time passes: a package consumes no more than m in a tick.
LEMMA EnergyElapse ==
  ASSUME AccountInv, NEW m \in Nat, PowersBounded(m), EnergyInv(m),
         NEW spent \in [Packages -> Steps], Elapse(spent)
  PROVE  EnergyInv(m)'
<1>1. /\ now < MaxTime /\ now' = now + 1 /\ raplPc' = raplPc /\ rapl' = rapl
      /\ atCurrent' = atCurrent /\ atReset' = atReset /\ wraps' = wraps
      /\ consumed' = [p \in Packages |->
                        [d \in Domains |-> consumed[p][d] + spent[p][d]]]
      /\ sampling # "no" => now - readAt < MaxLag
      /\ UNCHANGED <<pc, sampling, next, curr, readAt, interval, total, samples,
                     resets, opening>>
  BY DEF Elapse, Tick, readings, measured
<1>2. DefaultDomain \in Domains
  BY DEF DefaultDomain, Domains
<1>3. /\ now \in 0 .. MaxTime /\ MaxTime \in Nat /\ MaxLag \in Nat
      /\ readAt \in 0 .. now /\ next.time \in 0 .. now /\ curr.time \in 0 .. now
  BY StateAssumption DEF EnergyInv, ClockInv
<1>4. m * (now' - readAt') = m * (now - readAt) + m
  <2>1. now' - readAt' = (now - readAt) + 1 /\ now - readAt \in Nat
    BY <1>1, <1>3
  <2>2. \A u \in Nat : m * (u + 1) = m * u + m
    OBVIOUS
  <2> QED  BY <2>1, <2>2
<1>5. ClockInv(m)'
  <2>1. ASSUME raplPc = "ready", NEW p \in Packages
        PROVE  /\ rapl'[p].current.time = readAt'
               /\ consumed'[p][DefaultDomain] - atCurrent'[p][DefaultDomain]
                    <= m * (now' - readAt')
    <3> DEFINE md == m * (now - readAt)
               c == consumed[p][DefaultDomain]
               a == atCurrent[p][DefaultDomain]
               e == spent[p][DefaultDomain]
    <3>1. /\ c \in Nat /\ a \in Nat /\ e \in Nat /\ e <= m
          /\ consumed'[p][DefaultDomain] = c + e
      BY <1>1, <1>2, ReadingsAssumption DEF AccountInv, PowersBounded
    <3>2. rapl[p].current.time = readAt /\ c - a <= md
      BY <2>1 DEF EnergyInv, ClockInv
    <3>3. md \in Nat
      BY <1>3
    <3> HIDE DEF md, c, a, e
    <3>4. (c + e) - a <= md + m
      BY <3>1, <3>2, <3>3
    <3> QED  BY <1>1, <1>4, <3>1, <3>2, <3>4 DEF md, c, a
  <2>2. now' \in 0 .. MaxTime /\ readAt' \in 0 .. now' /\ next'.time \in 0 .. now'
        /\ curr'.time \in 0 .. now'
    BY <1>1, <1>3
  <2>3. sampling # "no" => now' - readAt' \in 0 .. MaxLag
    BY <1>1, <1>3
  <2> QED  BY <1>1, <2>1, <2>2, <2>3 DEF EnergyInv, ClockInv
<1>6. Agree'
  <2>1. \A p \in Packages : /\ Counted(p, DefaultDomain)' = Counted(p, DefaultDomain)
                            /\ PowerOf(p)' = PowerOf(p)
    BY <1>1 DEF Counted, PowerOf
  <2> QED  BY <1>1, <2>1 DEF EnergyInv, Agree, AgreeWith, Counting, Powering
<1> QED  BY <1>5, <1>6 DEF EnergyInv

\* A step that touches neither the clock nor an account.
LEMMA EnergyKept ==
  ASSUME NEW m \in Nat, EnergyInv(m),
         UNCHANGED <<now, pc, next, curr, readAt, interval, total, samples, resets,
                     opening>>,
         \/ raplPc' # "ready" /\ sampling' = "no"
         \/ /\ UNCHANGED <<raplPc, accounts>>
            /\ sampling' # "no" <=> sampling # "no"
  PROVE  EnergyInv(m)'
<1>1. CASE raplPc' # "ready" /\ sampling' = "no"
  BY <1>1 DEF EnergyInv, ClockInv, Agree
<1>2. CASE UNCHANGED <<raplPc, accounts>> /\ (sampling' # "no" <=> sampling # "no")
  <2>1. ClockInv(m)'
    BY <1>2 DEF EnergyInv, ClockInv, accounts
  <2>2. \A p \in Packages : /\ Counted(p, DefaultDomain)' = Counted(p, DefaultDomain)
                            /\ PowerOf(p)' = PowerOf(p)
    BY <1>2 DEF Counted, PowerOf, accounts
  <2>3. Agree'
    BY <1>2, <2>2 DEF EnergyInv, Agree, AgreeWith, Counting, Powering
  <2> QED  BY <2>1, <2>3 DEF EnergyInv
<1> QED  BY <1>1, <1>2

LEMMA EnergyStep ==
  ASSUME AccountInv, NEW m \in Nat, PowersBounded(m), EnergyInv(m), ExactPowers,
         [IntelNext]_intelVars
  PROVE  EnergyInv(m)'
<1>1. CASE EmptyRapl \/ FillRapl
  <2>1. /\ UNCHANGED <<now, pc, next, curr, readAt, interval, total, samples,
                       resets, opening>>
        /\ raplPc' # "ready" /\ sampling' = "no"
    BY <1>1 DEF EmptyRapl, FillRapl, vars, clock, readings, measured, EnergyInv,
       ClockInv
  <2> QED  BY <2>1, EnergyKept
<1>2. CASE Execute \/ ReadPcm \/ UNCHANGED intelVars
  <2>1. UNCHANGED <<now, pc, next, curr, readAt, interval, total, samples, resets,
                    opening>>
    BY <1>2 DEF Execute, Work, ReadPcm, ReadCounter, intelVars, vars, clock,
       readings, measured
  <2>2. UNCHANGED <<raplPc, accounts>> /\ (sampling' # "no" <=> sampling # "no")
    BY <1>2 DEF Execute, Work, ReadPcm, ReadCounter, intelVars, vars
  <2> QED  BY <2>1, <2>2, EnergyKept
<1> QED
  BY <1>1, <1>2, EnergyReset, EnergyBegin, EnergyFinish, EnergyElapse DEF IntelNext

-----------------------------------------------------------------------------
(* Theorems *)

\* The difference of performance counters is the work done between the two
\* readings, although a reset zeroes the counter and the readings survive it.
THEOREM ReadingsDelta == IntelSpec => []DeltaIsWork
<1>1. IntelInit => WorkInv
  BY WorkInitially DEF IntelInit
<1>2. WorkInv /\ [IntelNext]_intelVars => WorkInv'
  BY WorkStep
<1>3. WorkInv => DeltaIsWork
  BY WorkGivesDelta
<1> QED  BY <1>1, <1>2, <1>3, PTL DEF IntelSpec

\* Between two resets the total of every domain that is read is the energy it
\* consumed, less one unit for each wrap of its counter.
THEOREM ReadingsCountWraps == IntelSpec => []TotalCountsWraps
<1>1. IntelInit => AccountInv
  BY AccountInitially
<1>2. AccountInv /\ [IntelNext]_intelVars => AccountInv'
  BY AccountStep
<1>3. AccountInv => TotalCountsWraps
  BY DEF AccountInv, Account, TotalCountsWraps
<1> QED  BY <1>1, <1>2, <1>3, PTL DEF IntelSpec

\* The two accountings agree: from the first sample of a reset on, DEPO's own
\* sum of powers times times and what the Rapl objects counted differ by no more
\* than what each sample drops below a millisecond and than the time it takes
\* from the reading of the Rapl objects to its own.
THEOREM ReadingsAgree ==
  ASSUME ExactPowers, NEW m \in Nat, PowersBounded(m)
  PROVE  IntelSpec => []EnergyIsConsumed
<1>1. IntelInit => AccountInv /\ EnergyInv(m)
  BY AccountInitially, EnergyInitially
<1>2. AccountInv /\ EnergyInv(m) /\ [IntelNext]_intelVars
        => AccountInv' /\ EnergyInv(m)'
  BY AccountStep, EnergyStep
<1>3. EnergyInv(m) => EnergyIsConsumed
  <2> SUFFICES ASSUME EnergyInv(m), raplPc = "ready", sampling = "no",
                      pc # "first", resets > 0
               PROVE  EnergyIsConsumed
    BY DEF EnergyIsConsumed
  <2>1. PICK C : Counting(C) /\ AgreeWith(Sum(C, Packages), 0)
    BY DEF EnergyInv, Agree
  <2> DEFINE c == CountedEnergy
  <2>2. c = Scale * Sum(C, Packages) /\ c \in Int
    BY <2>1, CountingSum, RaplAssumption
  <2>3. c - 0 = c
    <3> HIDE DEF c
    <3> QED  BY <2>2
  <2> QED  BY <2>1, <2>2, <2>3 DEF EnergyIsConsumed, AgreeWith, c
<1> QED  BY <1>1, <1>2, <1>3, PTL DEF IntelSpec

=============================================================================
