------------------------ MODULE GoldenSectionProofs ------------------------
(***************************************************************************)
(* For every range of limits and every outcome of the measurements: the    *)
(* golden section search programs and returns limits of the device only,   *)
(* and compares results of its current candidates only, the left one below *)
(* the right one; it takes at most nine windows; and where the energy has  *)
(* one minimum, it keeps it in the range.                                  *)
(***************************************************************************)
EXTENDS GoldenSection, TLAPS

\* The golden part of a length lies within it.
LEMMA GoldenPartWithin ==
  ASSUME NEW x \in Int
  PROVE  /\ GoldenPart(x) \in Int
         /\ 0 <= x => 0 <= GoldenPart(x) /\ GoldenPart(x) <= x
         /\ x <= 0 => x <= GoldenPart(x) /\ GoldenPart(x) <= 0
BY DEF GoldenPart

\* So a new candidate lies between the end it is measured from and the other.
LEMMA CandidateWithin ==
  ASSUME NEW x \in Min..Max, NEW y \in Min..Max
  PROVE  /\ y - GoldenPart(y - x) \in Min..Max
         /\ x + GoldenPart(y - x) \in Min..Max
<1>1. x \in Int /\ y \in Int /\ y - x \in Int
  BY GoldenAssumption
<1> DEFINE g == GoldenPart(y - x)
<1>2. /\ g \in Int
      /\ 0 <= y - x => 0 <= g /\ g <= y - x
      /\ y - x <= 0 => y - x <= g /\ g <= 0
  BY <1>1, GoldenPartWithin
<1> HIDE DEF g
<1>3. y - g \in Min..Max /\ x + g \in Min..Max
  BY <1>1, <1>2, GoldenAssumption
<1> QED  BY <1>3 DEF g

\* The middle of a range of limits is a limit.
LEMMA MiddleWithin ==
  ASSUME NEW x \in Min..Max, NEW y \in Min..Max
  PROVE  (x + y) \div 2 \in Min..Max
BY GoldenAssumption

\* What a window yields is a result of the limit it ran under.
LEMMA MeasurementResult ==
  ASSUME NEW cap \in (Min..Max) \union {RefCap},
         optimum \in Nat,
         NEW m \in Measurements(cap)
  PROVE  m \in Results /\ m.cap = cap
<1>1. cap \in Nat  BY GoldenAssumption
<1>2. CASE optimum = 0
  BY <1>2, GoldenAssumption DEF Measurements, PowAndPerfResult, Results
<1>3. CASE optimum # 0
  <2>1. m = PowAndPerfResult(cap, 1, 1 + Distance(cap, optimum))
    BY <1>3 DEF Measurements
  <2>2. 1 + Distance(cap, optimum) \in Nat
    BY <1>1 DEF Distance
  <2> QED  BY <2>1, <2>2 DEF PowAndPerfResult, Results
<1> QED  BY <1>2, <1>3

\* The range and its candidates are limits of the device, and every result in
\* hand is one of the candidate it stands for.
GoldenInv ==
  /\ TypeOK
  /\ a \in Min..Max /\ b \in Min..Max
  /\ left \in Min..Max /\ right \in Min..Max
  /\ ~measureL => tmp.cap = left
  /\ ~measureR => tmp.cap = right
  /\ pc \in {"right", "compare"} => fL.cap = left
  /\ pc = "compare" => fR.cap = right

\* The search starts from the whole range.
LEMMA GoldenInit == Init => GoldenInv
<1> SUFFICES ASSUME Init PROVE GoldenInv
  OBVIOUS
<1>1. Min \in Min..Max /\ Max \in Min..Max
  BY GoldenAssumption
<1>2. left \in Min..Max /\ right \in Min..Max
  BY <1>1, CandidateWithin DEF Init
<1>3. optimum \in Nat /\ optimum \in Optima
  BY GoldenAssumption DEF Init
<1>4. tmp \in Results
  BY <1>3, MeasurementResult DEF Init
<1>5. measureL \in BOOLEAN /\ measureR \in BOOLEAN /\ measureL /\ measureR
  BY Zenon DEF Init
<1>6. TypeOK
  BY <1>1, <1>2, <1>3, <1>4, <1>5, GoldenAssumption DEF Init, TypeOK
<1> QED  BY <1>1, <1>2, <1>5, <1>6 DEF Init, GoldenInv

\* Obtaining a result, measured or carried over.
LEMMA GoldenObtain ==
  GoldenInv /\ (ObtainLeft \/ ObtainRight) => GoldenInv'
<1> SUFFICES ASSUME GoldenInv, ObtainLeft \/ ObtainRight PROVE GoldenInv'
  OBVIOUS
<1>0. optimum \in Nat
  BY GoldenAssumption DEF GoldenInv, TypeOK
<1>1. CASE ObtainLeft
  <2>1. fL' \in Results /\ fL'.cap = left
    BY <1>0, <1>1, MeasurementResult DEF ObtainLeft, GoldenInv, TypeOK
  <2>2. /\ limit' \in (Min..Max) \union {RefCap} /\ windows' \in Nat
        /\ procStatus' \in {0, 1}
    BY <1>1 DEF ObtainLeft, Measure, GoldenInv, TypeOK
  <2> QED  BY <1>1, <2>1, <2>2 DEF ObtainLeft, GoldenInv, TypeOK
<1>2. CASE ObtainRight
  <2>1. fR' \in Results /\ fR'.cap = right
    BY <1>0, <1>2, MeasurementResult DEF ObtainRight, GoldenInv, TypeOK
  <2>2. /\ limit' \in (Min..Max) \union {RefCap} /\ windows' \in Nat
        /\ procStatus' \in {0, 1}
    BY <1>2 DEF ObtainRight, Measure, GoldenInv, TypeOK
  <2> QED  BY <1>2, <2>1, <2>2 DEF ObtainRight, GoldenInv, TypeOK
<1> QED  BY <1>1, <1>2

\* Narrowing keeps the ends and the candidates within the range of the device,
\* and carries the result of the candidate that stays.
LEMMA GoldenCompare == GoldenInv /\ Compare => GoldenInv'
<1> SUFFICES ASSUME GoldenInv, Compare PROVE GoldenInv'
  OBVIOUS
<1>1. TakeLeftPart \/ TakeRightPart
  BY DEF Compare, Narrow
<1>2. /\ a' \in Min..Max /\ b' \in Min..Max
      /\ left' \in Min..Max /\ right' \in Min..Max
  BY <1>1, CandidateWithin DEF TakeLeftPart, TakeRightPart, GoldenInv
<1>3. /\ measureL' \in BOOLEAN /\ measureR' \in BOOLEAN
      /\ measureL' # measureR'
  BY <1>1, Zenon DEF TakeLeftPart, TakeRightPart
<1>4. /\ tmp' \in Results
      /\ ~measureL' => tmp'.cap = left'
      /\ ~measureR' => tmp'.cap = right'
  <2>1. pc = "compare"  BY DEF Compare
  <2>2. CASE TakeLeftPart
    BY <2>1, <2>2 DEF TakeLeftPart, GoldenInv, TypeOK
  <2>3. CASE TakeRightPart
    BY <2>1, <2>3 DEF TakeRightPart, GoldenInv, TypeOK
  <2> QED  BY <1>1, <2>2, <2>3
<1>5. result' \in (Min..Max) \union {RefCap}
  <2>1. (a' + b') \div 2 \in Min..Max
    BY <1>2, MiddleWithin
  <2>2. result' = (a' + b') \div 2 \/ result' = result
    BY Zenon DEF Compare
  <2> QED  BY <2>1, <2>2 DEF GoldenInv, TypeOK
<1>6. TypeOK'
  <2>1. /\ a' \in Nat /\ b' \in Nat /\ left' \in Int /\ right' \in Int
    BY <1>2, GoldenAssumption
  <2>2. UNCHANGED <<optimum, fL, fR, limit, windows>>
    BY DEF Compare
  <2>3. procStatus' \in {0, 1} /\ pc' \in {"done", "loop"}
    BY DEF Compare, GoldenInv, TypeOK
  <2> QED
    BY <1>3, <1>4, <1>5, <2>1, <2>2, <2>3 DEF GoldenInv, TypeOK
<1> QED  BY <1>2, <1>3, <1>4, <1>6 DEF Compare, GoldenInv

\* The end of the loop returns the middle of the range.
LEMMA GoldenReturn == GoldenInv /\ LoopEnds => GoldenInv'
<1> SUFFICES ASSUME GoldenInv, LoopEnds PROVE GoldenInv'
  OBVIOUS
<1>1. (a + b) \div 2 \in Min..Max
  BY MiddleWithin DEF GoldenInv
<1> QED  BY <1>1 DEF LoopEnds, GoldenInv, TypeOK

\* GoldenInv is inductive.
LEMMA GoldenInvariant == Spec => []GoldenInv
<1>1. GoldenInv /\ [Next]_vars => GoldenInv'
  <2> SUFFICES ASSUME GoldenInv, [Next]_vars PROVE GoldenInv'
    OBVIOUS
  <2>1. CASE Returned \/ UNCHANGED vars
    BY <2>1 DEF Returned, vars, GoldenInv, TypeOK
  <2> QED
    BY <2>1, GoldenObtain, GoldenCompare, GoldenReturn DEF Next, Step
<1> QED  BY <1>1, GoldenInit, PTL DEF Spec

\* Type correctness: whatever the windows yield, every limit the search
\* programs or returns is one of the device's range or the reference's.
THEOREM GoldenTypeCorrect == Spec => []TypeOK
<1>1. GoldenInv => TypeOK  BY DEF GoldenInv
<1> QED  BY <1>1, GoldenInvariant, PTL

\* Both results a turn compares were measured at its current candidates: the
\* one carried over by tmp is never that of a candidate that was dropped.
THEOREM GoldenReuse == Spec => []ReuseIsCurrent
<1>1. GoldenInv => ReuseIsCurrent  BY DEF GoldenInv, ReuseIsCurrent
<1> QED  BY <1>1, GoldenInvariant, PTL

-----------------------------------------------------------------------------
(* Rounding. Were the golden part exact, the candidate that is carried over *)
(* would lie in the golden section of the new range. With three places and *)
(* rounding it drifts from there by less than Drift in each turn, and the   *)
(* eight turns the search takes are too few for the candidates to cross.    *)

Width == Max - Min

\* Limits are micro watts of a device that reports whole watts: its range is
\* empty or not narrow.
WattRange == Width = 0 \/ Width >= 10000

Drift == 4 + Width \div 13000

\* The length of the range after so many turns, in thousandths of Width.
Share(t) == <<1000, 618, 382, 237, 147, 91, 57, 36, 23>>[t + 1]

\* The range and the candidates after t turns: the fresh candidate is exact.
Shape(t) ==
  LET length == b - a
      fromLeft == length - GoldenPart(length)
      fromRight == GoldenPart(length)
  IN  /\ 1000 * length <= Share(t) * Width + 21000 * Drift
      /\ fromLeft - t * Drift <= left - a /\ left - a <= fromLeft + t * Drift
      /\ fromRight - t * Drift <= right - a /\ right - a <= fromRight + t * Drift
      /\ measureL => left - a = fromLeft
      /\ measureR => right - a = fromRight

\* How many windows t turns have taken: two the first and one every other.
Windows(t) ==
  /\ t = 0 => measureL /\ measureR
  /\ t > 0 => measureL = ~measureR
  /\ pc = "loop" => windows = IF t = 0 THEN 0 ELSE t + 1
  /\ pc = "right" => windows = IF measureR THEN t + 1 ELSE t + 2
  /\ pc = "compare" => windows = t + 2

\* The search is in its turn t + 1, of eight at most.
NarrowInv ==
  /\ pc \in {"right", "compare"} => b - a > EPSILON
  /\ pc # "done" => \E t \in 0..8 : Shape(t) /\ Windows(t)

LEMMA GoldenPartBounds ==
  ASSUME NEW x \in Int
  PROVE  /\ GoldenPart(x) \in Int
         /\ 1000 * GoldenPart(x) <= 618 * x
         /\ 618 * x <= 1000 * GoldenPart(x) + 999
BY DEF GoldenPart

LEMMA WidthFacts ==
  /\ Width \in Nat /\ Drift \in Nat /\ EPSILON \in Nat
  /\ 25 * EPSILON <= Width /\ Width <= 25 * EPSILON + 24
  /\ Width <= 13000 * (Drift - 3)
  /\ 13000 * (Drift - 4) <= Width
BY GoldenAssumption DEF Width, Drift, EPSILON

\* Each share is the golden part of the one before.
LEMMA ShareFacts ==
  /\ Share(0) = 1000 /\ Share(8) = 23
  /\ \A t \in 0..7 : 618 * (Share(t) * Width) <= 1000 * (Share(t + 1) * Width)
  /\ \A t \in 0..8 : Share(t) * Width \in Nat
<1>1. Width \in Nat  BY WidthFacts
<1>2. /\ Share(0) = 1000 /\ Share(1) = 618 /\ Share(2) = 382 /\ Share(3) = 237
      /\ Share(4) = 147 /\ Share(5) = 91 /\ Share(6) = 57 /\ Share(7) = 36
      /\ Share(8) = 23
  BY DEF Share
<1>3. ASSUME NEW t \in 0..7
      PROVE  618 * (Share(t) * Width) <= 1000 * (Share(t + 1) * Width)
  <2>1. t \in {0, 1, 2, 3, 4, 5, 6, 7}  OBVIOUS
  <2>2. CASE t \in {0, 1}  BY <1>1, <1>2, <2>2
  <2>3. CASE t \in {2, 3}  BY <1>1, <1>2, <2>3
  <2>4. CASE t \in {4, 5}  BY <1>1, <1>2, <2>4
  <2>5. CASE t \in {6, 7}  BY <1>1, <1>2, <2>5
  <2> QED  BY <2>1, <2>2, <2>3, <2>4, <2>5
<1>4. ASSUME NEW t \in 0..8 PROVE Share(t) * Width \in Nat
  <2>1. t \in {0, 1, 2, 3, 4, 5, 6, 7, 8}  OBVIOUS
  <2>2. Share(t) \in Nat  BY <1>2, <2>1
  <2> QED  BY <1>1, <2>2
<1> QED  BY <1>2, <1>3, <1>4

\* A range that is still narrowed has had fewer than eight turns.
LEMMA TurnsLeft ==
  ASSUME WattRange, GoldenInv, b - a > EPSILON, NEW t \in 0..8, Shape(t)
  PROVE  t \in 0..7 /\ Width >= 10000
<1>1. /\ a \in Int /\ b \in Int /\ b - a <= Width /\ Width >= 10000
  <2>1. a \in Min..Max /\ b \in Min..Max  BY DEF GoldenInv
  <2>2. a \in Int /\ b \in Int /\ b - a <= Width
    BY <2>1, GoldenAssumption DEF Width
  <2> QED  BY <2>2, WidthFacts DEF WattRange
<1>2. CASE t = 8
  <2>1. 1000 * (b - a) <= 23 * Width + 21000 * Drift
    BY <1>2, ShareFacts DEF Shape
  <2> QED  BY <1>1, <2>1, WidthFacts
<1>3. CASE t # 8
  BY <1>1, <1>3
<1> QED  BY <1>2, <1>3

\* The candidates of a range that is still narrowed are apart.
LEMMA CandidatesApart ==
  ASSUME WattRange, GoldenInv, b - a > EPSILON, NEW t \in 0..8, Shape(t),
         measureL \/ measureR
  PROVE  left < right
<1> DEFINE length == b - a
           g == GoldenPart(length)
           d == t * Drift
<1>1. t \in 0..7 /\ Width >= 10000  BY TurnsLeft
<1>2. /\ a \in Int /\ b \in Int /\ left \in Int /\ right \in Int /\ length \in Int
      /\ length > EPSILON
  BY DEF GoldenInv, TypeOK
<1>3. g \in Int /\ 1000 * g <= 618 * length /\ 618 * length <= 1000 * g + 999
  BY <1>2, GoldenPartBounds
<1>4. d \in Nat /\ d <= 7 * Drift
  BY <1>1, WidthFacts
<1>5. \/ left - a = length - g /\ g - d <= right - a
      \/ right - a = g /\ left - a <= length - g + d
  BY DEF Shape
<1> HIDE DEF length, g, d
<1>6. 2 * g - length > d
  BY <1>1, <1>2, <1>3, <1>4, WidthFacts
<1> QED  BY <1>2, <1>3, <1>4, <1>5, <1>6

\* One turn narrows the range by the golden part and adds a Drift.
LEMMA ShapeStep ==
  ASSUME WattRange, GoldenInv, b - a > EPSILON, NEW t \in 0..8, Shape(t),
         measureL \/ measureR, TakeLeftPart \/ TakeRightPart
  PROVE  t + 1 \in 0..8 /\ Shape(t + 1)'
<1> DEFINE length == b - a
           g == GoldenPart(length)
           newLength == b' - a'
           h == GoldenPart(newLength)
           d == t * Drift
           l == left - a
           r == right - a
           w == Share(t) * Width
           v == Share(t + 1) * Width
<1>1. t \in 0..7 /\ Width >= 10000 /\ t + 1 \in 0..8  BY TurnsLeft
<1>2. /\ a \in Int /\ b \in Int /\ left \in Int /\ right \in Int /\ length \in Int
      /\ length <= Width /\ l \in Int /\ r \in Int
  <2>1. a \in Min..Max /\ b \in Min..Max /\ left \in Int /\ right \in Int
    BY DEF GoldenInv, TypeOK
  <2> QED  BY <2>1, GoldenAssumption DEF Width
<1>3. g \in Int /\ 1000 * g <= 618 * length /\ 618 * length <= 1000 * g + 999
  BY <1>2, GoldenPartBounds
<1>4. /\ d \in Nat /\ d <= 7 * Drift /\ (t + 1) * Drift = d + Drift
      /\ Drift \in Nat /\ Width \in Nat /\ Width <= 13000 * (Drift - 3)
  BY <1>1, WidthFacts
<1>5. w \in Nat /\ v \in Nat /\ 618 * w <= 1000 * v
  BY <1>1, ShareFacts
<1>6. /\ 1000 * length <= w + 21000 * Drift
      /\ length - g - d <= l /\ l <= length - g + d
      /\ g - d <= r /\ r <= g + d
      /\ l = length - g \/ r = g
  BY DEF Shape
<1>7. SUFFICES
        /\ 1000 * newLength <= v + 21000 * Drift
        /\ newLength - h - (d + Drift) <= left' - a'
        /\ left' - a' <= newLength - h + (d + Drift)
        /\ h - (d + Drift) <= right' - a' /\ right' - a' <= h + (d + Drift)
        /\ measureL' => left' - a' = newLength - h
        /\ measureR' => right' - a' = h
  <2>1. /\ Shape(t + 1)' <=>
             /\ 1000 * newLength <= v + 21000 * Drift
             /\ newLength - h - (t + 1) * Drift <= left' - a'
             /\ left' - a' <= newLength - h + (t + 1) * Drift
             /\ h - (t + 1) * Drift <= right' - a'
             /\ right' - a' <= h + (t + 1) * Drift
             /\ measureL' => left' - a' = newLength - h
             /\ measureR' => right' - a' = h
    BY DEF Shape, Share, Drift, Width, GoldenPart
  <2> HIDE DEF newLength, h, d, v
  <2> QED  BY <1>1, <1>4, <2>1
<1>8. 0 <= length
  BY <1>2, WidthFacts
<1>9. CASE TakeLeftPart
  <2>1. a' = a /\ b' = right /\ left' = right - GoldenPart(right - a) /\ right' = left
    BY <1>9 DEF TakeLeftPart
  <2>2. measureL' = TRUE /\ measureR' = FALSE
    BY <1>9, Zenon DEF TakeLeftPart
  <2>3. newLength = r /\ right' - a' = l
    BY <2>1
  <2>4. h = GoldenPart(r)
    BY <2>3
  <2>5. h \in Int /\ 1000 * h <= 618 * r /\ 618 * r <= 1000 * h + 999
    BY <1>2, <2>4, GoldenPartBounds
  <2>6. left' - a' = newLength - h
    <3>1. left' - a' = (right - h) - a /\ right \in Int /\ a \in Int /\ r = right - a
      BY <1>2, <2>1, <2>4
    <3> HIDE DEF newLength, h, r
    <3> QED  BY <2>3, <2>5, <3>1
  <2> HIDE DEF length, g, newLength, h, d, l, r, w, v
  <2>7. 1000 * r <= v + 21000 * Drift
    BY <1>1, <1>2, <1>3, <1>4, <1>5, <1>6
  <2>8. h <= l + (d + Drift)
    <3>1. CASE r = g
      BY <1>2, <1>3, <1>4, <1>6, <1>8, <2>5, <3>1
    <3>2. CASE l = length - g
      BY <1>2, <1>3, <1>4, <1>6, <1>8, <2>5, <3>2
    <3> QED  BY <1>6, <3>1, <3>2
  <2>9. l <= h + (d + Drift)
    <3>1. CASE r = g
      BY <1>2, <1>3, <1>4, <1>6, <1>8, <2>5, <3>1
    <3>2. CASE l = length - g
      BY <1>2, <1>3, <1>4, <1>6, <1>8, <2>5, <3>2
    <3> QED  BY <1>6, <3>1, <3>2
  <2>10. /\ newLength \in Int /\ right' - a' = l /\ left' - a' = newLength - h
         /\ d + Drift \in Nat
    BY <1>2, <1>4, <2>3, <2>6
  <2>11. 1000 * newLength <= v + 21000 * Drift
    BY <2>3, <2>7
  <2> DEFINE x == left' - a'
             y == right' - a'
             e == d + Drift
  <2> HIDE DEF x, y, e
  <2>12. newLength - h - e <= x /\ x <= newLength - h + e
    BY <2>5, <2>10 DEF x, e
  <2>13. h - e <= y /\ y <= h + e
    BY <1>2, <2>5, <2>8, <2>9, <2>10 DEF y, e
  <2>14. /\ newLength - h - (d + Drift) <= left' - a'
         /\ left' - a' <= newLength - h + (d + Drift)
    BY <2>12 DEF x, e
  <2>15. h - (d + Drift) <= right' - a' /\ right' - a' <= h + (d + Drift)
    BY <2>13 DEF y, e
  <2> QED  BY <2>2, <2>6, <2>11, <2>14, <2>15
<1>10. CASE TakeRightPart
  <2>1. a' = left /\ b' = b /\ right' = left + GoldenPart(b - left) /\ left' = right
    BY <1>10 DEF TakeRightPart
  <2>2. measureL' = FALSE /\ measureR' = TRUE
    BY <1>10, Zenon DEF TakeRightPart
  <2>3. h = GoldenPart(b - left) /\ newLength = b - left
    BY <2>1
  <2>4. /\ newLength \in Int /\ h \in Int
        /\ 1000 * h <= 618 * newLength /\ 618 * newLength <= 1000 * h + 999
    BY <1>2, <2>3, GoldenPartBounds
  <2>5. /\ newLength = length - l /\ left' - a' = r - l /\ right' = left + h
        /\ a' = left
    BY <1>2, <2>1, <2>3
  <2>6. right' - a' = h
    <3> HIDE DEF h
    <3> QED  BY <1>2, <2>4, <2>5
  <2> HIDE DEF length, g, newLength, h, d, l, r, w, v
  <2>7. 1000 * newLength <= v + 21000 * Drift
    <3>1. newLength <= g + d
      BY <1>2, <1>3, <1>4, <1>6, <2>4, <2>5
    <3> QED  BY <1>1, <1>2, <1>3, <1>4, <1>5, <1>6, <2>4, <3>1
  <2>8. newLength - h <= r - l + (d + Drift)
    <3>1. CASE r = g
      BY <1>2, <1>3, <1>4, <1>6, <1>8, <2>4, <2>5, <3>1
    <3>2. CASE l = length - g
      BY <1>2, <1>3, <1>4, <1>6, <1>8, <2>4, <2>5, <3>2
    <3> QED  BY <1>6, <3>1, <3>2
  <2>9. r - l <= newLength - h + (d + Drift)
    <3>1. CASE r = g
      BY <1>2, <1>3, <1>4, <1>6, <1>8, <2>4, <2>5, <3>1
    <3>2. CASE l = length - g
      BY <1>2, <1>3, <1>4, <1>6, <1>8, <2>4, <2>5, <3>2
    <3> QED  BY <1>6, <3>1, <3>2
  <2> DEFINE x == left' - a'
             y == right' - a'
             e == d + Drift
  <2>10. e \in Nat /\ x = r - l /\ y = h
    BY <1>4, <2>5, <2>6
  <2> HIDE DEF x, y, e
  <2>11. newLength - h - e <= x /\ x <= newLength - h + e
    BY <1>2, <2>4, <2>8, <2>9, <2>10 DEF e
  <2>12. h - e <= y /\ y <= h + e
    BY <2>4, <2>10
  <2>13. /\ newLength - h - (d + Drift) <= left' - a'
         /\ left' - a' <= newLength - h + (d + Drift)
    BY <2>11 DEF x, e
  <2>14. h - (d + Drift) <= right' - a' /\ right' - a' <= h + (d + Drift)
    BY <2>12 DEF y, e
  <2> QED  BY <2>2, <2>6, <2>7, <2>13, <2>14
<1> QED  BY <1>9, <1>10

\* Before the first turn the candidates are exact.
LEMMA NarrowInit == Init => NarrowInv
<1> SUFFICES ASSUME Init PROVE NarrowInv
  OBVIOUS
<1>1. measureL /\ measureR
  BY Zenon DEF Init
<1>2. pc = "loop" /\ windows = 0
  BY DEF Init
<1> DEFINE g == GoldenPart(Max - Min)
<1>3. /\ a = Min /\ b = Max /\ left = Max - g /\ right = Min + g
      /\ Min \in Int /\ Max \in Int
  BY GoldenAssumption DEF Init
<1>4. g \in Int /\ b - a \in Int /\ g = GoldenPart(b - a) /\ b - a = Width
  BY <1>3, GoldenPartBounds DEF Width
<1> HIDE DEF g
<1>5. left - a = b - a - g /\ right - a = g
  BY <1>3, <1>4
<1>6. Share(0) = 1000 /\ 0 * Drift = 0 /\ Drift \in Nat /\ Width \in Nat
  BY ShareFacts, WidthFacts
<1>7. Shape(0)
  BY <1>4, <1>5, <1>6 DEF Shape
<1>8. Windows(0)
  BY <1>1, <1>2 DEF Windows
<1>9. 0 \in 0..8
  OBVIOUS
<1> QED  BY <1>2, <1>7, <1>8, <1>9 DEF NarrowInv

\* One of the candidates is measured in each turn.
LEMMA OneMeasured ==
  ASSUME NEW t \in 0..8, Windows(t)
  PROVE  measureL \/ measureR
<1>1. CASE t = 0
  BY <1>1 DEF Windows
<1>2. CASE t # 0
  <2>1. t > 0  BY <1>2
  <2>2. measureL = ~measureR  BY <2>1 DEF Windows
  <2> QED  BY <2>2, Zenon
<1> QED  BY <1>1, <1>2

\* A result is obtained within the turn, and a measured one takes a window.
LEMMA NarrowObtain ==
  GoldenInv /\ NarrowInv /\ (ObtainLeft \/ ObtainRight) => NarrowInv'
<1> SUFFICES ASSUME GoldenInv, NarrowInv, ObtainLeft \/ ObtainRight
             PROVE  NarrowInv'
  OBVIOUS
<1>1. /\ UNCHANGED <<a, b, left, right, measureL, measureR>>
      /\ pc \in {"loop", "right"} /\ pc' \in {"right", "compare"}
  BY DEF ObtainLeft, ObtainRight
<1>2. PICK t \in 0..8 : Shape(t) /\ Windows(t)
  BY <1>1 DEF NarrowInv
<1>3. b' - a' > EPSILON
  BY <1>1 DEF NarrowInv, ObtainLeft, ObtainRight
<1>4. Shape(t)'
  BY <1>1, <1>2 DEF Shape, Share, Drift, Width, GoldenPart
<1>5. windows \in Nat /\ measureL \in BOOLEAN /\ measureR \in BOOLEAN
  BY DEF GoldenInv, TypeOK
<1>6. CASE ObtainLeft
  <2>1. /\ pc = "loop" /\ pc' = "right"
        /\ measureL => windows' = windows + 1
        /\ ~measureL => windows' = windows
    BY <1>6 DEF ObtainLeft, Measure
  <2>2. windows = IF t = 0 THEN 0 ELSE t + 1
    BY <1>2, <2>1 DEF Windows
  <2>3. /\ t = 0 => measureL /\ measureR
        /\ t > 0 => measureL = ~measureR
    BY <1>2 DEF Windows
  <2>4. measureR => windows' = t + 1
    BY <1>5, <2>1, <2>2, <2>3
  <2>5. ~measureR => windows' = t + 2
    BY <1>5, <2>1, <2>2, <2>3
  <2>6. Windows(t)'
    BY <1>1, <1>5, <2>1, <2>3, <2>4, <2>5 DEF Windows
  <2> QED  BY <1>3, <1>4, <2>6 DEF NarrowInv
<1>7. CASE ObtainRight
  <2>1. /\ pc = "right" /\ pc' = "compare"
        /\ measureR => windows' = windows + 1
        /\ ~measureR => windows' = windows
    BY <1>7 DEF ObtainRight, Measure
  <2>2. windows = IF measureR THEN t + 1 ELSE t + 2
    BY <1>2, <2>1 DEF Windows
  <2>3. /\ t = 0 => measureL /\ measureR
        /\ t > 0 => measureL = ~measureR
    BY <1>2 DEF Windows
  <2>4. windows' = t + 2
    BY <1>5, <2>1, <2>2
  <2>5. Windows(t)'
    BY <1>1, <1>5, <2>1, <2>3, <2>4 DEF Windows
  <2> QED  BY <1>3, <1>4, <2>5 DEF NarrowInv
<1> QED  BY <1>6, <1>7

\* Narrowing starts the next turn.
LEMMA NarrowCompare ==
  ASSUME WattRange, GoldenInv, NarrowInv, Compare
  PROVE  NarrowInv'
<1>1. /\ pc = "compare" /\ pc' \in {"loop", "done"} /\ windows' = windows
      /\ TakeLeftPart \/ TakeRightPart
  BY DEF Compare, Narrow
<1>2. PICK t \in 0..8 : Shape(t) /\ Windows(t)
  BY <1>1 DEF NarrowInv
<1>3. b - a > EPSILON
  BY <1>1 DEF NarrowInv
<1>4. t + 1 \in 0..8 /\ Shape(t + 1)'
  BY <1>1, <1>2, <1>3, OneMeasured, ShapeStep
<1>5. measureL' = ~measureR'
  BY <1>1, Zenon DEF TakeLeftPart, TakeRightPart
<1>6. windows' = (t + 1) + 1 /\ t + 1 > 0
  BY <1>1, <1>2 DEF Windows
<1>7. Windows(t + 1)'
  BY <1>1, <1>5, <1>6 DEF Windows
<1> QED  BY <1>1, <1>4, <1>7 DEF NarrowInv

\* NarrowInv is inductive.
LEMMA NarrowInvariant ==
  ASSUME WattRange
  PROVE  Spec => []NarrowInv
<1>1. GoldenInv /\ NarrowInv /\ [Next]_vars => NarrowInv'
  <2> SUFFICES ASSUME GoldenInv, NarrowInv, [Next]_vars PROVE NarrowInv'
    OBVIOUS
  <2>1. CASE LoopEnds
    BY <2>1 DEF LoopEnds, NarrowInv
  <2>2. CASE Returned \/ UNCHANGED vars
    <3>1. UNCHANGED <<pc, a, b, left, right, measureL, measureR, windows>>
      BY <2>2 DEF Returned, vars
    <3> QED  BY <3>1 DEF NarrowInv, Shape, Windows
  <2> QED
    BY <2>1, <2>2, NarrowObtain, NarrowCompare DEF Next, Step
<1> QED  BY <1>1, GoldenInvariant, NarrowInit, PTL DEF Spec

\* The candidates never cross: although the one carried over was computed, and
\* rounded, for the range before, every turn compares two different limits, the
\* left one below the right one.
THEOREM GoldenOrdered ==
  ASSUME WattRange
  PROVE  Spec => []CandidatesOrdered
<1>1. GoldenInv /\ NarrowInv => CandidatesOrdered
  <2> SUFFICES ASSUME GoldenInv, NarrowInv, pc \in {"right", "compare"}
               PROVE  left < right
    BY DEF CandidatesOrdered
  <2>1. PICK t \in 0..8 : Shape(t) /\ Windows(t)
    BY DEF NarrowInv
  <2> QED  BY <2>1, OneMeasured, CandidatesApart DEF NarrowInv
<1> QED  BY <1>1, GoldenInvariant, NarrowInvariant, PTL

-----------------------------------------------------------------------------
(* The refinement of CapSearch: its initial state and its steps. That the   *)
(* search returns is fairness, and left to TLC.                             *)

\* A window is measured before the ninth.
LEMMA WindowsLeft ==
  ASSUME WattRange, GoldenInv, NarrowInv, b - a > EPSILON,
         \/ pc = "loop"
         \/ pc = "right" /\ measureR
  PROVE  windows < 9
<1>1. PICK t \in 0..8 : Shape(t) /\ Windows(t)
  BY DEF NarrowInv
<1>2. t \in 0..7
  BY <1>1, TurnsLeft
<1>3. windows = 0 \/ windows = t + 1
  BY <1>1 DEF Windows
<1> QED  BY <1>2, <1>3

\* Every step of the golden section search is one CapSearch allows: it
\* measures nine windows at most, each under a limit of the device range, and
\* then returns a limit of that range or that of the reference.
THEOREM GoldenKeepsPromise ==
  ASSUME WattRange
  PROVE  Spec => Promise!Init /\ [][Promise!Next]_(Promise!vars)
<1>1. Init => Promise!Init
  BY DEF Init, Promise!Init, PhaseOf
<1>2. GoldenInv /\ NarrowInv /\ [Next]_vars => [Promise!Next]_(Promise!vars)
  <2> SUFFICES ASSUME GoldenInv, NarrowInv, [Next]_vars
               PROVE  [Promise!Next]_(Promise!vars)
    OBVIOUS
  <2>1. CASE ObtainLeft
    <3>1. /\ pc = "loop" /\ pc' = "right" /\ UNCHANGED result
          /\ \/ windows' = windows + 1 /\ limit' = left
             \/ UNCHANGED <<limit, windows>>
      BY <2>1 DEF ObtainLeft, Measure
    <3>2. windows < 9 /\ left \in Min..Max
      BY <2>1, <3>1, WindowsLeft DEF ObtainLeft, GoldenInv
    <3> QED
      BY <3>1, <3>2 DEF PhaseOf, Promise!Next, Promise!TryCap, Promise!vars
  <2>2. CASE ObtainRight
    <3>1. /\ pc = "right" /\ pc' = "compare" /\ UNCHANGED result
          /\ \/ measureR /\ windows' = windows + 1 /\ limit' = right
             \/ UNCHANGED <<limit, windows>>
      BY <2>2 DEF ObtainRight, Measure
    <3>2. right \in Min..Max /\ b - a > EPSILON
      BY <3>1 DEF GoldenInv, NarrowInv
    <3>3. measureR => windows < 9
      BY <3>1, <3>2, WindowsLeft
    <3> QED
      BY <3>1, <3>2, <3>3 DEF PhaseOf, Promise!Next, Promise!TryCap, Promise!vars
  <2>3. CASE Compare
    <3>1. /\ pc = "compare" /\ UNCHANGED <<limit, windows>>
          /\ \/ pc' = "done" /\ result' = (a' + b') \div 2
             \/ pc' = "loop" /\ UNCHANGED result
      BY <2>3 DEF Compare
    <3>2. a' \in Min..Max /\ b' \in Min..Max
      BY <2>3, GoldenCompare DEF GoldenInv
    <3>3. (a' + b') \div 2 \in Min..Max
      BY <3>2, MiddleWithin
    <3> QED
      BY <3>1, <3>3 DEF PhaseOf, Promise!Next, Promise!ChooseCap, Promise!vars
  <2>4. CASE LoopEnds
    <3>1. (a + b) \div 2 \in Min..Max
      BY MiddleWithin DEF GoldenInv
    <3> QED
      BY <2>4, <3>1 DEF LoopEnds, PhaseOf, Promise!Next, Promise!ChooseCap
  <2>5. CASE Returned \/ UNCHANGED vars
    BY <2>5 DEF Returned, vars, PhaseOf, Promise!vars
  <2> QED  BY <2>1, <2>2, <2>3, <2>4, <2>5 DEF Next, Step
<1> QED
  BY <1>1, <1>2, GoldenInvariant, NarrowInvariant, PTL DEF Spec

-----------------------------------------------------------------------------
(* An energy with one minimum. *)

\* The minimum is a limit of the device.
MinimumInRange == Optima \subseteq {0} \union (Min..Max)

\* The session compares energies: under MIN_M_PLUS all results are equal.
ComparesEnergy == Metric \in {"MIN_E", "MIN_E_X_T"}

\* A result of a window under this limit, of an application with an optimum.
MeasuredAt(m, cap) == m.instr = 1 /\ m.energy = 1 + Distance(cap, optimum)

\* The minimum is in the range, and the results in hand tell where it is.
MinimumInv ==
  optimum # 0 =>
    /\ a <= optimum /\ optimum <= b
    /\ ~measureL => MeasuredAt(tmp, left)
    /\ ~measureR => MeasuredAt(tmp, right)
    /\ pc \in {"right", "compare"} => MeasuredAt(fL, left)
    /\ pc = "compare" => MeasuredAt(fR, right)
    /\ pc = "done" /\ procStatus # 0 =>
         b - a <= EPSILON /\ result = (a + b) \div 2

\* The comparison prefers the candidate that is nearer to the minimum.
LEMMA NearerIsBetter ==
  ASSUME ComparesEnergy, GoldenInv,
         MeasuredAt(fL, left), MeasuredAt(fR, right)
  PROVE  IsRightBetter(fL, fR, Metric)
           <=> Distance(left, optimum) > Distance(right, optimum)
<1> DEFINE x == Distance(left, optimum)
           y == Distance(right, optimum)
<1>1. x \in Int /\ y \in Int
  BY GoldenAssumption DEF GoldenInv, TypeOK, Distance
<1>2. /\ fL.instr = 1 /\ fL.energy = 1 + x
      /\ fR.instr = 1 /\ fR.energy = 1 + y
  BY DEF MeasuredAt
<1> HIDE DEF x, y
<1>3. MoreEnergyPerInstr(fL, fR) <=> x > y
  BY <1>1, <1>2 DEF MoreEnergyPerInstr
<1>4. LessEnergyTimeProd(fL, fR) <=> x > y
  BY <1>1, <1>2 DEF LessEnergyTimeProd
<1>5. IsRightBetter(fL, fR, Metric) <=> x > y
  BY <1>3, <1>4 DEF ComparesEnergy, IsRightBetter
<1> QED  BY <1>5 DEF x, y

\* So the part of the range that is dropped does not hold the minimum.
LEMMA MinimumCompare ==
  ASSUME ComparesEnergy, GoldenInv, MinimumInv, Compare, left < right
  PROVE  MinimumInv'
<1> SUFFICES ASSUME optimum # 0
             PROVE  /\ a' <= optimum /\ optimum <= b'
                    /\ ~measureL' => MeasuredAt(tmp, left)'
                    /\ ~measureR' => MeasuredAt(tmp, right)'
                    /\ pc' \notin {"right", "compare"}
                    /\ pc' = "done" => procStatus' = 0
  BY DEF Compare, MinimumInv
<1>1. /\ optimum \in Nat /\ a \in Nat /\ b \in Nat
      /\ left \in Int /\ right \in Int
      /\ a <= optimum /\ optimum <= b
  BY GoldenAssumption DEF GoldenInv, TypeOK, MinimumInv
<1>2. MeasuredAt(fL, left) /\ MeasuredAt(fR, right)
  BY DEF Compare, MinimumInv
<1>3. pc' \notin {"right", "compare"} /\ (pc' = "done" => procStatus' = 0)
  BY DEF Compare
<1>4. optimum' = optimum
  BY DEF Compare
<1>5. CASE IsRightBetter(fL, fR, Metric)
  <2>1. TakeRightPart
    BY <1>5 DEF Compare, Narrow
  <2>2. Distance(left, optimum) > Distance(right, optimum)
    BY <1>2, <1>5, NearerIsBetter
  <2>3. left <= optimum
    BY <1>1, <2>2 DEF Distance
  <2>4. a' = left /\ b' = b /\ left' = right /\ tmp' = fR
    BY <2>1 DEF TakeRightPart
  <2>5. ~measureL' /\ measureR'
    BY <2>1, Zenon DEF TakeRightPart
  <2>6. MeasuredAt(tmp, left)'
    BY <1>2, <1>4, <2>4 DEF MeasuredAt, Distance
  <2> QED  BY <1>1, <1>3, <2>3, <2>4, <2>5, <2>6
<1>6. CASE ~IsRightBetter(fL, fR, Metric)
  <2>1. TakeLeftPart
    BY <1>6 DEF Compare, Narrow
  <2>2. ~(Distance(left, optimum) > Distance(right, optimum))
    BY <1>2, <1>6, NearerIsBetter
  <2>3. optimum <= right
    BY <1>1, <2>2 DEF Distance
  <2>4. a' = a /\ b' = right /\ right' = left /\ tmp' = fL
    BY <2>1 DEF TakeLeftPart
  <2>5. ~measureR' /\ measureL'
    BY <2>1, Zenon DEF TakeLeftPart
  <2>6. MeasuredAt(tmp, right)'
    BY <1>2, <1>4, <2>4 DEF MeasuredAt, Distance
  <2> QED  BY <1>1, <1>3, <2>3, <2>4, <2>5, <2>6
<1> QED  BY <1>5, <1>6

\* MinimumInv is inductive.
LEMMA MinimumInvariant ==
  ASSUME WattRange, MinimumInRange, ComparesEnergy
  PROVE  Spec => []MinimumInv
<1>1. Init => MinimumInv
  <2> SUFFICES ASSUME Init PROVE MinimumInv
    OBVIOUS
  <2>1. measureL /\ measureR
    BY Zenon DEF Init
  <2>2. optimum # 0 => Min <= optimum /\ optimum <= Max
    BY GoldenAssumption DEF Init, MinimumInRange
  <2> QED  BY <2>1, <2>2 DEF Init, MinimumInv
<1>2. GoldenInv /\ CandidatesOrdered /\ MinimumInv /\ [Next]_vars => MinimumInv'
  <2> SUFFICES ASSUME GoldenInv, CandidatesOrdered, MinimumInv, [Next]_vars
               PROVE  MinimumInv'
    OBVIOUS
  <2>1. ASSUME optimum # 0, NEW cap, NEW m \in Measurements(cap)
        PROVE  MeasuredAt(m, cap)
    BY <2>1 DEF Measurements, PowAndPerfResult, MeasuredAt
  <2>2. CASE ObtainLeft
    <3>1. optimum # 0 => MeasuredAt(fL', left)
      BY <2>1, <2>2 DEF ObtainLeft, MinimumInv
    <3>2. /\ UNCHANGED <<optimum, a, b, left, right, measureL, measureR, tmp>>
          /\ pc' = "right"
      BY <2>2 DEF ObtainLeft
    <3> QED  BY <3>1, <3>2 DEF MinimumInv, MeasuredAt, Distance
  <2>3. CASE ObtainRight
    <3>1. optimum # 0 => MeasuredAt(fR', right)
      BY <2>1, <2>3 DEF ObtainRight, MinimumInv
    <3>2. /\ UNCHANGED <<optimum, a, b, left, right, measureL, measureR, tmp, fL>>
          /\ pc = "right" /\ pc' = "compare"
      BY <2>3 DEF ObtainRight
    <3> QED  BY <3>1, <3>2 DEF MinimumInv, MeasuredAt, Distance
  <2>4. CASE Compare
    <3>1. left < right
      BY <2>4 DEF Compare, CandidatesOrdered
    <3> QED  BY <2>4, <3>1, MinimumCompare
  <2>5. CASE LoopEnds
    BY <2>5 DEF LoopEnds, MinimumInv, MeasuredAt, Distance, GoldenInv, TypeOK,
       EPSILON
  <2>6. CASE Returned \/ UNCHANGED vars
    BY <2>6 DEF Returned, vars, MinimumInv, MeasuredAt, Distance
  <2> QED  BY <2>2, <2>3, <2>4, <2>5, <2>6 DEF Next, Step
<1> QED
  BY <1>1, <1>2, GoldenInvariant, GoldenOrdered, PTL DEF Spec

\* Where the energy has one minimum, the range never loses it, and a search the
\* application's exit does not cut short returns a limit within half of EPSILON
\* of it, up to rounding.
THEOREM GoldenMinimum ==
  ASSUME WattRange, MinimumInRange, ComparesEnergy
  PROVE  Spec => []MinimumKept
<1>1. GoldenInv /\ MinimumInv => MinimumKept
  <2> SUFFICES ASSUME GoldenInv, MinimumInv, optimum # 0
               PROVE  /\ a <= optimum /\ optimum <= b
                      /\ pc = "done" /\ procStatus # 0 =>
                           2 * Distance(result, optimum) <= EPSILON + 1
    BY DEF MinimumKept
  <2>1. /\ optimum \in Nat /\ a \in Nat /\ b \in Nat
        /\ a <= optimum /\ optimum <= b
    BY GoldenAssumption DEF GoldenInv, TypeOK, MinimumInv
  <2>2. ASSUME pc = "done", procStatus # 0
        PROVE  2 * Distance(result, optimum) <= EPSILON + 1
    <3>1. b - a <= EPSILON /\ result = (a + b) \div 2
      BY <2>2 DEF MinimumInv
    <3> QED  BY <2>1, <3>1, WidthFacts DEF Distance
  <2> QED  BY <2>1, <2>2
<1> QED  BY <1>1, GoldenInvariant, MinimumInvariant, PTL

=============================================================================
