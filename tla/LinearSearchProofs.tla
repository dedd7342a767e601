------------------------- MODULE LinearSearchProofs -------------------------
(***************************************************************************)
(* For every range of limits and every outcome of the measurements: the    *)
(* linear search programs limits of the device only, leaves no gap, keeps  *)
(* the best result it saw and returns a limit that it measured or that of  *)
(* the reference.                                                          *)
(***************************************************************************)
EXTENDS LinearSearch, TLAPS

\* The last step is clamped to the minimum.
LEMMA NextLimitWithin ==
  ASSUME current \in Min..Max
  PROVE  NextLimit \in Min..Max
<1>1. STEP \in Nat  BY LinearAssumption DEF STEP
<1> QED  BY <1>1, LinearAssumption DEF NextLimit

\* A measurement is a result of the limit it was made under.
LEMMA MeasurementResult ==
  ASSUME NEW cap \in (Min..Max) \union {RefCap}, NEW m \in Measurements(cap)
  PROVE  /\ m \in Results /\ m.cap = cap
         /\ [m EXCEPT !.cap = RefCap] \in Measurements(RefCap)
<1>1. PICK i \in Instructions, e \in Energies : m = PowAndPerfResult(cap, i, e)
  BY DEF Measurements
<1>2. [m EXCEPT !.cap = RefCap] = PowAndPerfResult(RefCap, i, e)
  BY <1>1 DEF PowAndPerfResult
<1> QED  BY <1>1, <1>2 DEF Results, Measurements, PowAndPerfResult

\* TypeOK with the relations it needs: during a window the limit programmed is
\* the current one, and the result kept is one of a limit that was measured.
LinearInv ==
  /\ TypeOK
  /\ pc = "sample" => limit = current
  /\ best.cap \in tried \union {RefCap}
  /\ ResultMeasured

\* The sweep starts at the maximum.
LEMMA LinearInit == Init => LinearInv
<1> SUFFICES ASSUME Init PROVE LinearInv
  OBVIOUS
<1>1. Max \in Min..Max  BY LinearAssumption
<1>2. best \in Results /\ best.cap = RefCap
  BY MeasurementResult DEF Init
<1> QED  BY <1>1, <1>2 DEF Init, LinearInv, TypeOK, ResultMeasured

\* A window and what follows it.
LEMMA LinearSample == LinearInv /\ SampleWindow => LinearInv'
<1> SUFFICES ASSUME LinearInv, SampleWindow PROVE LinearInv'
  OBVIOUS
<1>1. limit = current /\ current \in Min..Max /\ pc = "sample"
  BY DEF SampleWindow, LinearInv, TypeOK
<1>2. PICK m \in Measurements(limit) :
        /\ best' = IF Better(m) THEN m ELSE best
        /\ tried' = tried \union {limit}
        /\ seen' = seen \union {[m EXCEPT !.cap = RefCap]}
        /\ procStatus' \in {procStatus, 0}
        /\ IF current = Min
           THEN pc' = "done" /\ result' = best'.cap /\ UNCHANGED current
           ELSE pc' = "loop" /\ current' = NextLimit /\ UNCHANGED result
        /\ UNCHANGED <<metric, reference, limit, windows>>
  BY DEF SampleWindow
<1>3. /\ m \in Results /\ m.cap = limit
      /\ [m EXCEPT !.cap = RefCap] \in Measurements(RefCap)
  BY <1>1, MeasurementResult
<1>4. best' \in Results /\ best'.cap \in tried' \union {RefCap}
  BY <1>2, <1>3 DEF LinearInv, TypeOK
<1>5. seen' \subseteq Measurements(RefCap)
  BY <1>2, <1>3 DEF LinearInv, TypeOK
<1>6. tried' \subseteq Min..Max /\ procStatus' \in {0, 1}
  BY <1>1, <1>2 DEF LinearInv, TypeOK
<1>7. CASE current = Min
  <2>1. best'.cap \in (Min..Max) \union {RefCap}  BY <1>4, <1>6
  <2> QED
    BY <1>1, <1>2, <1>4, <1>5, <1>6, <1>7, <2>1
    DEF LinearInv, TypeOK, ResultMeasured
<1>8. CASE current # Min
  <2>1. NextLimit \in Min..Max  BY <1>1, NextLimitWithin
  <2> QED
    BY <1>1, <1>2, <1>4, <1>5, <1>6, <1>8, <2>1
    DEF LinearInv, TypeOK, ResultMeasured
<1> QED  BY <1>7, <1>8

\* LinearInv is inductive.
LEMMA LinearInvariant == Spec => []LinearInv
<1>1. LinearInv /\ [Next]_vars => LinearInv'
  <2> SUFFICES ASSUME LinearInv, [Next]_vars PROVE LinearInv'
    OBVIOUS
  <2>1. CASE TryCap
    BY <2>1 DEF TryCap, LinearInv, TypeOK, ResultMeasured
  <2>2. CASE LoopEnds
    <3>1. best.cap \in (Min..Max) \union {RefCap}
      BY DEF LinearInv, TypeOK
    <3> QED  BY <2>2, <3>1 DEF LoopEnds, LinearInv, TypeOK, ResultMeasured
  <2>3. CASE Returned \/ UNCHANGED vars
    BY <2>3 DEF Returned, vars, LinearInv, TypeOK, ResultMeasured
  <2> QED  BY <2>1, <2>2, <2>3, LinearSample DEF Next
<1> QED  BY <1>1, LinearInit, PTL DEF Spec

\* Type correctness: the sweep never computes or programs a limit outside of
\* the range, whatever its length and the rounding of its step.
THEOREM LinearTypeCorrect == Spec => []TypeOK
<1>1. LinearInv => TypeOK  BY DEF LinearInv
<1> QED  BY <1>1, LinearInvariant, PTL

\* The limit returned was measured, or is the limit of the reference.
THEOREM LinearResultMeasured == Spec => []ResultMeasured
<1>1. LinearInv => ResultMeasured  BY DEF LinearInv
<1> QED  BY <1>1, LinearInvariant, PTL

-----------------------------------------------------------------------------
(* What a sweep covers *)

\* Above the current limit every value has a measured limit less than or
\* exactly a step above it; a sweep is through at the minimum, unless the
\* application exited.
CoverInv ==
  /\ \A c \in current..(Max - 1) : \E d \in tried : c < d /\ d <= c + STEP
  /\ current = Max \/ Max \in tried
  /\ pc = "done" /\ procStatus # 0 => current = Min /\ {Min, Max} \subseteq tried

\* A window covers the step below its limit, however the step is clamped.
LEMMA CoverSample == LinearInv /\ CoverInv /\ SampleWindow => CoverInv'
<1> SUFFICES ASSUME LinearInv, CoverInv, SampleWindow PROVE CoverInv'
  OBVIOUS
<1>1. limit = current /\ current \in Min..Max
  BY DEF SampleWindow, LinearInv, TypeOK
<1>2. STEP \in Nat  BY LinearAssumption DEF STEP
<1>3. tried' = tried \union {current} /\ STEP' = STEP
  BY <1>1 DEF SampleWindow, STEP
<1>4. Max \in tried'  BY <1>3 DEF CoverInv
<1>5. CASE current = Min
  <2>1. current' = Min  BY <1>5 DEF SampleWindow
  <2>2. \A c \in Min..(Max - 1) : \E d \in tried' : c < d /\ d <= c + STEP
    BY <1>3, <1>5 DEF CoverInv
  <2> QED  BY <1>3, <1>4, <1>5, <2>1, <2>2 DEF CoverInv
<1>6. CASE current # Min
  <2>1. current' = NextLimit /\ pc' = "loop"  BY <1>6 DEF SampleWindow
  <2>2. \A c \in current'..(Max - 1) : \E d \in tried' : c < d /\ d <= c + STEP
    <3> SUFFICES ASSUME NEW c \in current'..(Max - 1)
                 PROVE  \E d \in tried' : c < d /\ d <= c + STEP
      OBVIOUS
    <3>1. current' \in Min..Max  BY <1>1, <2>1, NextLimitWithin
    <3>2. CASE c >= current
      <4>1. c \in current..(Max - 1)
        BY <1>1, <3>1, <3>2, LinearAssumption
      <4> QED  BY <1>3, <4>1 DEF CoverInv
    <3>3. CASE c < current
      <4>1. c < current /\ current <= c + STEP
        BY <1>1, <1>2, <2>1, <3>1, <3>3, LinearAssumption DEF NextLimit
      <4> QED  BY <1>3, <4>1
    <3> QED  BY <1>1, <3>1, <3>2, <3>3, LinearAssumption
  <2> QED  BY <1>3, <1>4, <2>1, <2>2 DEF CoverInv
<1> QED  BY <1>5, <1>6

\* A sweep that the application's exit does not cut short leaves no gap in the
\* range wider than a step, whatever the range and the rounding of the step.
THEOREM LinearCoverage == Spec => []RangeCovered
<1>1. Init => CoverInv
  BY LinearAssumption DEF Init, CoverInv
<1>2. LinearInv /\ CoverInv /\ [Next]_vars => CoverInv'
  <2> SUFFICES ASSUME LinearInv, CoverInv, [Next]_vars PROVE CoverInv'
    OBVIOUS
  <2>1. CASE TryCap
    BY <2>1 DEF TryCap, CoverInv, STEP
  <2>2. CASE LoopEnds
    BY <2>2 DEF LoopEnds, CoverInv, STEP
  <2>3. CASE Returned \/ UNCHANGED vars
    BY <2>3 DEF Returned, vars, CoverInv, STEP
  <2> QED  BY <2>1, <2>2, <2>3, CoverSample DEF Next
<1>3. CoverInv => RangeCovered
  BY DEF CoverInv, RangeCovered
<1> QED  BY <1>1, <1>2, <1>3, LinearInvariant, PTL DEF Spec

-----------------------------------------------------------------------------
(* What a sweep keeps *)

\* Quotients a / i compared by cross-multiplication: what does not beat l
\* does not beat an r that beats l either, a window without instructions
\* included.
LEMMA CrossTransitive ==
  ASSUME NEW a \in Nat, NEW i \in Nat, NEW b \in Nat, NEW j \in Nat,
         NEW c \in Nat, NEW k \in Nat,
         a * j > b * i,        \* b / j is below a / i
         ~(a * k > c * i)      \* c / k is not
  PROVE  ~(b * k > c * j)
<1>1. CASE i = 0
  <2>1. a > 0  BY <1>1, SMTT(30)
  <2>2. k = 0  BY <1>1, <2>1, SMTT(30)
  <2> QED  BY <2>2, SMTT(30)
<1>2. CASE i > 0
  <2>1. (b * i) * k <= (a * j) * k  BY SMTT(30)
  <2>2. (a * k) * j <= (c * i) * j  BY SMTT(30)
  <2>3. (b * k) * i <= (c * j) * i  BY <2>1, <2>2, SMTT(30)
  <2> QED  BY <1>2, <2>3, SMTT(30)
<1> QED  BY <1>1, <1>2

LEMMA BetterTransitive ==
  ASSUME NEW l \in Results, NEW r \in Results, NEW m \in Results,
         NEW mode \in TargetMetric,
         IsRightBetter(l, r, mode), ~IsRightBetter(l, m, mode)
  PROVE  ~IsRightBetter(r, m, mode)
<1>1. \A x \in {l, r, m} : x.energy \in Nat /\ x.instr \in Nat /\ x.myPlusMetric = 1
  BY LinearAssumption DEF Results, Measurements, PowAndPerfResult
<1>2. CASE mode = "MIN_E"
  <2>1. l.energy * r.instr > r.energy * l.instr
    BY <1>2 DEF IsRightBetter, MoreEnergyPerInstr
  <2>2. ~(l.energy * m.instr > m.energy * l.instr)
    BY <1>2 DEF IsRightBetter, MoreEnergyPerInstr
  <2>3. ~(r.energy * m.instr > m.energy * r.instr)
    BY <1>1, <2>1, <2>2, CrossTransitive
  <2> QED  BY <1>2, <2>3 DEF IsRightBetter, MoreEnergyPerInstr
<1>3. CASE mode = "MIN_E_X_T"
  <2> DEFINE sq(x) == x.instr * x.instr
  <2>1. sq(l) \in Nat /\ sq(r) \in Nat /\ sq(m) \in Nat  BY <1>1
  <2>2. l.energy * sq(r) > r.energy * sq(l)
    BY <1>1, <1>3 DEF IsRightBetter, LessEnergyTimeProd
  <2>3. ~(l.energy * sq(m) > m.energy * sq(l))
    BY <1>1, <1>3 DEF IsRightBetter, LessEnergyTimeProd
  <2> HIDE DEF sq
  <2>4. ~(r.energy * sq(m) > m.energy * sq(r))
    BY <1>1, <2>1, <2>2, <2>3, CrossTransitive
  <2>5. ~(sq(r) * m.energy < sq(m) * r.energy)
    BY <1>1, <2>1, <2>4
  <2> QED  BY <1>3, <2>5 DEF sq, IsRightBetter, LessEnergyTimeProd
<1>4. CASE mode = "MIN_M_PLUS"
  BY <1>1, <1>4 DEF IsRightBetter
<1> QED  BY <1>2, <1>3, <1>4 DEF TargetMetric

\* The comparison looks at no limit, and prefers nothing to itself.
LEMMA BetterIgnoresCap ==
  ASSUME NEW l \in Results, NEW m \in Results, NEW cap, NEW mode \in TargetMetric
  PROVE  /\ IsRightBetter(l, [m EXCEPT !.cap = cap], mode)
              = IsRightBetter(l, m, mode)
         /\ ~IsRightBetter(m, m, mode)
<1> DEFINE n == [m EXCEPT !.cap = cap]
<1>1. /\ n.energy = m.energy /\ n.instr = m.instr
      /\ n.myPlusMetric = m.myPlusMetric
  BY DEF Results, Measurements, PowAndPerfResult
<1>2. /\ m.energy \in Nat /\ m.instr \in Nat /\ m.myPlusMetric = 1
  BY LinearAssumption DEF Results, Measurements, PowAndPerfResult
<1>3. ~IsRightBetter(m, m, mode)
  <2>1. ~MoreEnergyPerInstr(m, m)  BY <1>2 DEF MoreEnergyPerInstr
  <2>2. ~LessEnergyTimeProd(m, m)  BY <1>2 DEF LessEnergyTimeProd
  <2>3. ~(m.myPlusMetric > m.myPlusMetric)  BY <1>2
  <2> QED  BY <2>1, <2>2, <2>3 DEF IsRightBetter, TargetMetric
<1>4. IsRightBetter(l, n, mode) = IsRightBetter(l, m, mode)
  <2>1. MoreEnergyPerInstr(l, n) = MoreEnergyPerInstr(l, m)
    BY <1>1, Zenon DEF MoreEnergyPerInstr
  <2>2. LessEnergyTimeProd(l, n) = LessEnergyTimeProd(l, m)
    BY <1>1, Zenon DEF LessEnergyTimeProd
  <2> QED  BY <1>1, <2>1, <2>2, Zenon DEF IsRightBetter, TargetMetric
<1> QED  BY <1>3, <1>4

LEMMA ModesMetric == Modes \subseteq TargetMetric
BY DEF Modes, parseArgs, TargetMetric

\* A window keeps the better result.
LEMMA BestSample ==
  LinearInv /\ NothingBetterSeen /\ SampleWindow => NothingBetterSeen'
<1> SUFFICES ASSUME LinearInv, NothingBetterSeen, SampleWindow
             PROVE  NothingBetterSeen'
  OBVIOUS
<1>1. PICK m \in Measurements(limit) :
        /\ best' = IF Better(m) THEN m ELSE best
        /\ seen' = seen \union {[m EXCEPT !.cap = RefCap]}
        /\ reference' = reference /\ metric' = metric
  BY DEF SampleWindow
<1>2. /\ best \in Results /\ metric \in TargetMetric
      /\ reference \in Results /\ seen \subseteq Results
  BY ModesMetric DEF LinearInv, TypeOK, Results
<1>3. m \in Results
  BY MeasurementResult DEF LinearInv, TypeOK
<1>4. ASSUME NEW x \in seen \union {reference}
      PROVE  ~IsRightBetter(best', x, metric)
  <2>1. x \in Results /\ ~IsRightBetter(best, x, metric)
    BY <1>2 DEF NothingBetterSeen
  <2>2. CASE Better(m)
    BY <1>1, <1>2, <1>3, <2>1, <2>2, BetterTransitive DEF Better
  <2>3. CASE ~Better(m)
    BY <1>1, <2>1, <2>3
  <2> QED  BY <2>2, <2>3
<1>5. ~IsRightBetter(best', [m EXCEPT !.cap = RefCap], metric)
  <2>1. CASE Better(m)
    BY <1>1, <1>2, <1>3, <2>1, BetterIgnoresCap
  <2>2. CASE ~Better(m)
    BY <1>1, <1>2, <1>3, <2>2, BetterIgnoresCap DEF Better
  <2> QED  BY <2>1, <2>2
<1> QED  BY <1>1, <1>4, <1>5 DEF NothingBetterSeen

\* The result a sweep keeps is beaten by no window it saw and not by the
\* reference, for every metric a session can have.
THEOREM LinearKeepsBest == Spec => []NothingBetterSeen
<1>1. Init => NothingBetterSeen
  <2> SUFFICES ASSUME Init PROVE NothingBetterSeen
    OBVIOUS
  <2>1. reference \in Results /\ best = reference /\ seen = {}
    BY DEF Init, Results
  <2>2. metric \in TargetMetric  BY ModesMetric DEF Init
  <2>3. ~IsRightBetter(reference, reference, metric)
    BY <2>1, <2>2, BetterIgnoresCap
  <2> QED  BY <2>1, <2>3, Zenon DEF NothingBetterSeen
<1>2. LinearInv /\ NothingBetterSeen /\ [Next]_vars => NothingBetterSeen'
  <2> SUFFICES ASSUME LinearInv, NothingBetterSeen, [Next]_vars
               PROVE  NothingBetterSeen'
    OBVIOUS
  <2>1. CASE TryCap
    BY <2>1 DEF TryCap, NothingBetterSeen
  <2>2. CASE LoopEnds
    BY <2>2 DEF LoopEnds, NothingBetterSeen
  <2>3. CASE Returned \/ UNCHANGED vars
    BY <2>3 DEF Returned, vars, NothingBetterSeen
  <2> QED  BY <2>1, <2>2, <2>3, BestSample DEF Next
<1> QED  BY <1>1, <1>2, LinearInvariant, PTL DEF Spec

-----------------------------------------------------------------------------
(* What a sweep promises *)

\* On a range of at least ninety micro watts the remainder of the division by
\* ten is at most a step, so that one clamped step ends the sweep.
Ample == Min = Max \/ Min + 90 <= Max

\* Until the last step each window is a step below the one before it.
WindowInv ==
  /\ current > Min =>
       current = Max - STEP * (IF pc = "sample" THEN windows - 1 ELSE windows)
  /\ pc = "sample" => windows >= 1 /\ windows <= 12
  /\ pc = "loop" => windows <= 11

\* How many whole steps fit above the minimum.
LEMMA StepsAbove ==
  ASSUME Ample, NEW k \in Int, Max - STEP * k > Min
  PROVE  k <= 10
<1>1. Max - Min \in Nat /\ STEP = (Max - Min) \div 10 /\ STEP \in Nat
  BY LinearAssumption DEF STEP
<1>2. Max - Min <= 10 * STEP + 9
  BY <1>1
<1>3. Min = Max \/ STEP >= 9
  BY <1>1, LinearAssumption DEF Ample
<1> SUFFICES ASSUME k >= 11 PROVE FALSE
  OBVIOUS
<1>4. STEP * k >= STEP * 11
  BY <1>1, SMTT(30)
<1>5. STEP * k \in Int /\ STEP * k < Max - Min
  BY <1>1, LinearAssumption
<1> DEFINE sk == STEP * k
<1> HIDE DEF sk
<1>6. sk >= 11 * STEP /\ sk < Max - Min /\ sk \in Int
  BY <1>1, <1>4, <1>5 DEF sk
<1> QED  BY <1>1, <1>2, <1>3, <1>6, LinearAssumption

LEMMA WindowStep ==
  ASSUME Ample, LinearInv, WindowInv, [Next]_vars
  PROVE  WindowInv'
<1>1. STEP' = STEP /\ STEP \in Nat
  BY LinearAssumption DEF STEP
<1>2. windows \in Nat /\ current \in Min..Max
  BY DEF LinearInv, TypeOK
<1>3. CASE TryCap
  <2>1. /\ pc = "loop" /\ pc' = "sample" /\ windows' = windows + 1
        /\ current' = current
    BY <1>3 DEF TryCap
  <2>2. windows' - 1 = windows
    BY <1>2, <2>1
  <2> QED  BY <1>1, <1>2, <2>1, <2>2 DEF WindowInv
<1>4. CASE SampleWindow
  <2>1. pc = "sample" /\ windows' = windows
    BY <1>4 DEF SampleWindow
  <2>2. CASE current = Min
    BY <1>1, <1>4, <2>1, <2>2, LinearAssumption DEF SampleWindow, WindowInv
  <2>3. CASE current # Min
    <3>1. pc' = "loop" /\ current' = NextLimit
      BY <1>4, <2>3 DEF SampleWindow
    <3>2. current > Min
      BY <1>2, <2>3, LinearAssumption
    <3>3. current = Max - STEP * (windows - 1)
      BY <2>1, <3>2 DEF WindowInv
    <3>4. windows - 1 <= 10
      BY <1>2, <3>2, <3>3, StepsAbove
    <3>5. STEP * windows = STEP * (windows - 1) + STEP
      BY <1>1, <1>2, SMTT(30)
    <3>6. current' > Min => current' = current - STEP
      BY <1>1, <1>2, <3>1, LinearAssumption DEF NextLimit
    <3> DEFINE sw == STEP * (windows - 1)
               sn == STEP * windows
    <3>7. sw \in Int /\ sn = sw + STEP /\ current = Max - sw
      BY <1>1, <1>2, <3>3, <3>5
    <3>8. current' > Min => current' = Max - sn
      <4> HIDE DEF sw, sn
      <4> QED  BY <1>1, <3>6, <3>7, LinearAssumption
    <3>9. windows' <= 11
      BY <1>2, <2>1, <3>4
    <3> QED  BY <1>1, <2>1, <3>1, <3>8, <3>9 DEF WindowInv
  <2> QED  BY <2>2, <2>3
<1>5. CASE LoopEnds
  BY <1>1, <1>5 DEF LoopEnds, WindowInv
<1>6. CASE Returned \/ UNCHANGED vars
  BY <1>1, <1>6 DEF Returned, vars, WindowInv
<1> QED  BY <1>3, <1>4, <1>5, <1>6 DEF Next

\* The safety half of the refinement: on every ample range the sweep takes at
\* most twelve windows, each under a limit of the range, and then returns one
\* limit of the range or that of the reference, once.
THEOREM LinearKeepsPromise ==
  ASSUME Ample
  PROVE  Spec => Promise!Init /\ [][Promise!Next]_(Promise!vars)
<1>1. Init => WindowInv
  <2> SUFFICES ASSUME Init PROVE WindowInv
    OBVIOUS
  <2>1. STEP * 0 = 0 /\ windows = 0 /\ current = Max /\ pc = "loop"
    BY LinearAssumption DEF Init, STEP
  <2> QED  BY <2>1, LinearAssumption DEF WindowInv
<1>2. Init => Promise!Init
  BY DEF Init, Promise!Init, PhaseOf
<1>3. LinearInv /\ WindowInv /\ [Next]_vars => [Promise!Next]_(Promise!vars)
  <2> SUFFICES ASSUME LinearInv, WindowInv, [Next]_vars
               PROVE  [Promise!Next]_(Promise!vars)
    OBVIOUS
  <2>1. CASE TryCap
    BY <2>1 DEF TryCap, LinearInv, TypeOK, WindowInv, PhaseOf, Promise!Next,
       Promise!TryCap
  <2>2. CASE SampleWindow
    <3>1. LinearInv'
      BY <2>2, LinearSample
    <3>2. pc = "sample" /\ UNCHANGED <<limit, windows>>
      BY <2>2 DEF SampleWindow
    <3>3. CASE current = Min
      BY <2>2, <3>1, <3>2, <3>3 DEF SampleWindow, LinearInv, TypeOK, PhaseOf,
         Promise!Next, Promise!ChooseCap
    <3>4. CASE current # Min
      BY <2>2, <3>2, <3>4 DEF SampleWindow, PhaseOf, Promise!vars
    <3> QED  BY <3>3, <3>4
  <2>3. CASE LoopEnds
    <3>1. best.cap \in (Min..Max) \union {RefCap}
      BY DEF LinearInv, TypeOK
    <3> QED
      BY <2>3, <3>1 DEF LoopEnds, PhaseOf, Promise!Next, Promise!ChooseCap
  <2>4. CASE Returned \/ UNCHANGED vars
    BY <2>4 DEF Returned, vars, PhaseOf, Promise!vars
  <2> QED  BY <2>1, <2>2, <2>3, <2>4 DEF Next
<1>4. LinearInv /\ WindowInv /\ [Next]_vars => WindowInv'
  BY WindowStep
<1> QED  BY <1>1, <1>2, <1>3, <1>4, LinearInvariant, PTL DEF Spec

=============================================================================
