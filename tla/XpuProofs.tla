----------------------------- MODULE XpuProofs -----------------------------
(***************************************************************************)
(* An Intel GPU: its limits, and its metric collector.                     *)
(*                                                                         *)
(* For every device whose range is at most four times its lowest limit,    *)
(* and every sequence of runs that end, crash or fail anywhere, a run that *)
(* begins to tune has found the whole range (XpuInv).                      *)
(*                                                                         *)
(* For every list of metric groups, any reports and any number of calls,   *)
(* the buffers of the collector are kept apart, no report is added up      *)
(* twice, the counter is within its bracket, and the stream is open, on a  *)
(* group that has the metrics, whenever it is read (CollectorInv).         *)
(***************************************************************************)
EXTENDS XpuLimits, MetricCollector, SequenceTheorems, WellFoundedInduction, TLAPS

-----------------------------------------------------------------------------
(* The limits *)

\* The rounding of a limit to whole watts loses less than a watt.
LEMMA WholeBelow ==
  ASSUME NEW k \in Kinds
  PROVE  /\ MostOf(k) \in Nat /\ MostOf(k) <= MaxLimit[k]
         /\ Whole(MaxLimit)[k] \in Nat /\ Whole(MinLimit)[k] \in Nat
         /\ Whole(MaxLimit)[k] = MaxLimit[k] \div Unit
         /\ Whole(MinLimit)[k] = MinLimit[k] \div Unit
<1>1. Unit \in Nat \ {0} /\ MaxLimit[k] \in Nat /\ MinLimit[k] \in Nat
  BY XpuAssumption
<1>2. \A a, u \in Nat : u # 0 => (a \div u) \in Nat /\ u * (a \div u) <= a
  BY SMTT(30)
<1> QED  BY <1>1, <1>2 DEF MostOf, Whole

\* The device clamps to the range it accepts.
LEMMA ClampedWithin ==
  ASSUME NEW k \in Kinds, NEW v \in Nat
  PROVE  /\ Clamped(k, v) \in Accepted(k)
         /\ v >= MaxLimit[k] => Clamped(k, v) = MaxLimit[k]
         /\ v <= MinLimit[k] => Clamped(k, v) = MinLimit[k]
         /\ v <= MaxLimit[k] => Clamped(k, v) >= v
         /\ v \in Accepted(k) => Clamped(k, v) = v
<1>1. MaxLimit[k] \in Nat /\ MinLimit[k] \in Nat /\ MinLimit[k] <= MaxLimit[k]
  BY XpuAssumption
<1> QED  BY <1>1 DEF Clamped, Accepted

\* Looking a card up finds a card.
LEMMA DomainFound ==
  ASSUME NEW devID \in DevIds,
         NEW h \in UNION {getPowerDomain(d) : d \in getL0Device(devID)}
  PROVE  h \in Domains /\ Card(h)
<1>1. PICK d \in getL0Device(devID) : h \in getPowerDomain(d)
  OBVIOUS
<1>2. Drivers # <<>> /\ d = devID + 1 /\ Len(Drivers[1]) > devID
  BY <1>1, XpuAssumption DEF getL0Device
<1>3. d \in DOMAIN Drivers[1]
  BY <1>2, XpuAssumption
<1>4. PICK p \in DOMAIN Drivers[1][d] : h = <<d, p>> /\ Card(<<d, p>>)
  BY <1>1 DEF getPowerDomain
<1> QED  BY <1>2, <1>3, <1>4 DEF Domains

\* The kinds the constructor is through with.
Probed(k) == pc = "running" \/ (pc # "off" /\ kind = "peak" /\ k = "sustained")

PcTypes == {"off", "probeMin", "probeMax", "putBack", "default", "running"}

\* Types, and what each step of the probe has established. Whatever a killed
\* run leaves in the device is a limit it accepts, which is all the next probe
\* needs.
XpuInv ==
  /\ pc \in PcTypes /\ kind \in Kinds /\ tunes \in Kinds /\ clean \in BOOLEAN
  /\ limit \in [Domains -> [Kinds -> Nat]]
  /\ low \in [Kinds -> Nat] /\ high \in [Kinds -> Nat]
  /\ default \in [Kinds -> Nat]
  /\ \A h \in Domains, k \in Kinds : limit[h][k] \in Accepted(k)
  /\ \A h \in Domains : Card(h) \/ limit[h] = MaxLimit
  /\ pc # "off" \/ clean => power_handle \in Domains /\ Card(power_handle)
  /\ pc # "off" => ~clean
  /\ pc \in {"probeMin", "probeMax", "putBack"} => found \in Accepted(kind)
  /\ pc \in {"probeMax", "putBack", "default"} =>
       low[kind] = Whole(MinLimit)[kind]
  /\ pc \in {"putBack", "default"} => high[kind] = Whole(MaxLimit)[kind]
  /\ pc = "default" => default[kind] = Whole(MaxLimit)[kind]
  /\ \A k \in Kinds : Probed(k) =>
       /\ low[k] = Whole(MinLimit)[k] /\ high[k] = Whole(MaxLimit)[k]
       /\ default[k] = Whole(MaxLimit)[k]
       /\ \/ pc = "running" /\ k = tunes
          \/ Programmed(k) \in MostOf(k)..MaxLimit[k]
  /\ pc = "off" /\ clean =>
       \A k \in Kinds : Programmed(k) \in MostOf(k)..MaxLimit[k]

\* What a write of the program changes.
LEMMA Written ==
  ASSUME XpuInv, NEW k \in Kinds, NEW v \in Nat,
         power_handle \in Domains, Card(power_handle), Program(k, v)
  PROVE  /\ limit' \in [Domains -> [Kinds -> Nat]]
         /\ \A h \in Domains, l \in Kinds : limit'[h][l] \in Accepted(l)
         /\ \A h \in Domains : Card(h) \/ limit'[h] = MaxLimit
         /\ limit'[power_handle][k] = Clamped(k, v)
         /\ \A l \in Kinds \ {k} :
              limit'[power_handle][l] = limit[power_handle][l]
<1>1. Clamped(k, v) \in Nat /\ Clamped(k, v) \in Accepted(k)
  BY ClampedWithin, XpuAssumption DEF Accepted
<1>2. limit \in [Domains -> [Kinds -> Nat]]
  BY DEF XpuInv
<1>3. /\ \A h \in Domains \ {power_handle} : limit'[h] = limit[h]
      /\ limit'[power_handle] = [limit[power_handle] EXCEPT ![k] = Clamped(k, v)]
      /\ DOMAIN limit' = Domains
  BY <1>2 DEF Program
<1>4. /\ limit'[power_handle] \in [Kinds -> Nat]
      /\ limit'[power_handle][k] = Clamped(k, v)
      /\ \A l \in Kinds \ {k} :
           limit'[power_handle][l] = limit[power_handle][l]
  BY <1>1, <1>2, <1>3
<1>5. limit' \in [Domains -> [Kinds -> Nat]]
  BY <1>1, <1>2 DEF Program
<1> QED  BY <1>1, <1>3, <1>4, <1>5 DEF XpuInv

LEMMA XpuInvInit == XpuInit => XpuInv
<1> SUFFICES ASSUME XpuInit PROVE XpuInv
  OBVIOUS
<1>1. PICK l \in Limits : limit = [h \in Domains |-> IF Card(h) THEN l ELSE MaxLimit]
  BY DEF XpuInit
<1>2. l \in [Kinds -> Nat] /\ \A k \in Kinds : l[k] \in Accepted(k)
  BY XpuAssumption DEF Limits, Kinds, Accepted
<1>3. MaxLimit \in [Kinds -> Nat] /\ \A k \in Kinds : MaxLimit[k] \in Accepted(k)
  BY XpuAssumption DEF Accepted
<1>4. limit \in [Domains -> [Kinds -> Nat]]
  BY <1>1, <1>2, <1>3
<1>5. \A h \in Domains, k \in Kinds : limit[h][k] \in Accepted(k)
  BY <1>1, <1>2, <1>3
<1>6. \A h \in Domains : Card(h) \/ limit[h] = MaxLimit
  BY <1>1
<1> QED  BY <1>4, <1>5, <1>6 DEF XpuInit, XpuInv, Probed, PcTypes, Kinds

LEMMA StartStep ==
  ASSUME XpuInv, NEW devID \in DevIds, Start(devID)
  PROVE  XpuInv'
<1>1. power_handle' \in Domains /\ Card(power_handle')
  BY DomainFound DEF Start
<1>2. found' \in Accepted("sustained")
  BY <1>1 DEF Start, XpuInv, Kinds
<1> QED  BY <1>1, <1>2 DEF Start, XpuInv, Probed, PcTypes, Kinds, Card, Domains

LEMMA ProbeMinStep == XpuInv /\ ProbeMin => XpuInv'
<1> SUFFICES ASSUME XpuInv, ProbeMin PROVE XpuInv'
  OBVIOUS
<1>1. Unit \in Nat /\ kind \in Kinds /\ power_handle \in Domains /\ Card(power_handle)
  BY XpuAssumption DEF XpuInv, ProbeMin
<1>2. Clamped(kind, Unit) = MinLimit[kind]
  BY <1>1, ClampedWithin, XpuAssumption
<1>3. low'[kind] = Whole(MinLimit)[kind] /\ low' \in [Kinds -> Nat]
  BY <1>1, <1>2, Written, WholeBelow DEF ProbeMin, XpuInv
<1> QED
  BY <1>1, <1>3, Written
  DEF ProbeMin, XpuInv, Probed, PcTypes, Kinds, Programmed, Card

\* Four times any limit of the range is beyond its end.
LEMMA ProbeMaxStep == XpuInv /\ ProbeMax => XpuInv'
<1> SUFFICES ASSUME XpuInv, ProbeMax PROVE XpuInv'
  OBVIOUS
<1>1. kind \in Kinds /\ power_handle \in Domains /\ Card(power_handle)
  BY DEF XpuInv, ProbeMax
<1>2. 4 * found \in Nat /\ 4 * found >= MaxLimit[kind]
  <2>1. found \in Accepted(kind)  BY DEF XpuInv, ProbeMax
  <2>2. /\ MinLimit[kind] \in Nat /\ MaxLimit[kind] \in Nat
        /\ MaxLimit[kind] <= 4 * MinLimit[kind]
    BY <1>1, XpuAssumption
  <2> QED  BY <2>1, <2>2 DEF Accepted
<1>3. Clamped(kind, 4 * found) = MaxLimit[kind]
  BY <1>1, <1>2, ClampedWithin
<1>4. high'[kind] = Whole(MaxLimit)[kind] /\ high' \in [Kinds -> Nat]
  BY <1>1, <1>2, <1>3, Written, WholeBelow DEF ProbeMax, XpuInv
<1> QED
  BY <1>1, <1>2, <1>4, Written
  DEF ProbeMax, XpuInv, Probed, PcTypes, Kinds, Programmed, Card

LEMMA PutBackStep == XpuInv /\ PutBack => XpuInv'
<1> SUFFICES ASSUME XpuInv, PutBack PROVE XpuInv'
  OBVIOUS
<1>1. kind \in Kinds /\ power_handle \in Domains /\ Card(power_handle)
  BY DEF XpuInv, PutBack
<1>2. found \in Nat
  <2>1. found \in Accepted(kind)  BY DEF XpuInv, PutBack
  <2>2. MinLimit[kind] \in Nat /\ MaxLimit[kind] \in Nat
    BY <1>1, XpuAssumption
  <2> QED  BY <2>1, <2>2 DEF Accepted
<1>3. default'[kind] = Whole(MaxLimit)[kind] /\ default' \in [Kinds -> Nat]
  BY <1>1 DEF PutBack, XpuInv
<1> QED
  BY <1>1, <1>2, <1>3, Written
  DEF PutBack, XpuInv, Probed, PcTypes, Kinds, Programmed, Card

\* Programming the default leaves less than a watt below the largest limit.
LEMMA DefaultWritten ==
  ASSUME XpuInv, NEW k \in Kinds,
         power_handle \in Domains, Card(power_handle),
         default[k] = Whole(MaxLimit)[k], Program(k, Unit * default[k])
  PROVE  /\ Unit * default[k] \in Nat
         /\ limit'[power_handle][k] \in MostOf(k)..MaxLimit[k]
<1>1. Unit * default[k] = MostOf(k)
  BY DEF MostOf
<1>2. /\ MostOf(k) \in Nat /\ MostOf(k) <= MaxLimit[k]
      /\ MaxLimit[k] \in Nat /\ MinLimit[k] \in Nat
  BY WholeBelow, XpuAssumption
<1>3. Clamped(k, MostOf(k)) >= MostOf(k) /\ Clamped(k, MostOf(k)) \in Accepted(k)
  BY <1>2, ClampedWithin
<1>4. limit'[power_handle][k] = Clamped(k, MostOf(k))
  BY <1>1, <1>2, Written
<1> QED  BY <1>1, <1>2, <1>3, <1>4 DEF Accepted

LEMMA ProgramDefaultStep == XpuInv /\ ProgramDefault => XpuInv'
<1> SUFFICES ASSUME XpuInv, ProgramDefault PROVE XpuInv'
  OBVIOUS
<1>1. /\ kind \in Kinds /\ power_handle \in Domains /\ Card(power_handle)
      /\ default[kind] = Whole(MaxLimit)[kind]
  BY DEF XpuInv, ProgramDefault
<1>2. /\ Unit * default[kind] \in Nat
      /\ limit'[power_handle][kind] \in MostOf(kind)..MaxLimit[kind]
  BY <1>1, DefaultWritten DEF ProgramDefault
<1>3. CASE kind = "sustained"
  <2>1. found' \in Accepted("peak")
    BY <1>1, <1>3 DEF ProgramDefault, Programmed, XpuInv, Kinds
  <2> QED
    BY <1>1, <1>2, <1>3, <2>1, Written
    DEF ProgramDefault, XpuInv, Probed, PcTypes, Kinds, Programmed, Card
<1>4. CASE kind = "peak"
  BY <1>1, <1>2, <1>4, Written
  DEF ProgramDefault, XpuInv, Probed, PcTypes, Kinds, Programmed, Card
<1> QED  BY <1>1, <1>3, <1>4 DEF Kinds

\* A search changes the one limit it tunes.
LEMMA SetLimitStep ==
  ASSUME XpuInv, NEW v, SetLimit(v)
  PROVE  XpuInv'
<1>1. /\ tunes \in Kinds /\ power_handle \in Domains /\ Card(power_handle)
      /\ low[tunes] \in Nat /\ high[tunes] \in Nat
  BY DEF XpuInv, SetLimit
<1>2. Unit * v \in Nat
  BY <1>1, XpuAssumption DEF SetLimit
<1> QED
  BY <1>1, <1>2, Written
  DEF SetLimit, memory, XpuInv, Probed, PcTypes, Kinds, Programmed, Card

LEMMA RestoreStep == XpuInv /\ RestoreAndEnd => XpuInv'
<1> SUFFICES ASSUME XpuInv, RestoreAndEnd PROVE XpuInv'
  OBVIOUS
<1>1. /\ tunes \in Kinds /\ power_handle \in Domains /\ Card(power_handle)
      /\ default[tunes] = Whole(MaxLimit)[tunes]
  BY DEF XpuInv, RestoreAndEnd, Probed
<1>2. /\ Unit * default[tunes] \in Nat
      /\ limit'[power_handle][tunes] \in MostOf(tunes)..MaxLimit[tunes]
  BY <1>1, DefaultWritten DEF RestoreAndEnd
<1> QED
  BY <1>1, <1>2, Written
  DEF RestoreAndEnd, memory, XpuInv, Probed, PcTypes, Kinds, Programmed, Card

\* XpuInv is inductive.
LEMMA XpuInvariant == XpuSpec => []XpuInv
<1>1. XpuInv /\ [XpuNext]_xpuVars => XpuInv'
  <2> SUFFICES ASSUME XpuInv, [XpuNext]_xpuVars PROVE XpuInv'
    OBVIOUS
  <2>1. ASSUME NEW devID \in DevIds, Start(devID) PROVE XpuInv'
    BY <2>1, StartStep
  <2>2. CASE InitFails
    BY <2>2 DEF InitFails, memory, XpuInv, Probed, PcTypes, Programmed, Card
  <2>3. CASE Crash
    BY <2>3 DEF Crash, memory, XpuInv, Probed, PcTypes, Programmed, Card
  <2>4. CASE UNCHANGED xpuVars
    BY <2>4 DEF xpuVars, XpuInv, Probed, PcTypes, Programmed, Card
  <2>5. ASSUME NEW v \in Tested[tunes], SetLimit(v) PROVE XpuInv'
    BY <2>5, SetLimitStep
  <2> QED
    BY <2>1, <2>2, <2>3, <2>4, <2>5, ProbeMinStep, ProbeMaxStep, PutBackStep,
       ProgramDefaultStep, RestoreStep
    DEF XpuNext
<1> QED  BY <1>1, XpuInvInit, PTL DEF XpuSpec

\* Whatever a run that was killed or that failed has left in the card, the
\* next one to tune has found its full range and made its largest limit the
\* default; domains that are no card keep their limits for ever.
THEOREM XpuFindsFullRange == XpuSpec => []RunFindsFullRange
<1>1. XpuInv => RunFindsFullRange
  <2> SUFFICES ASSUME XpuInv PROVE RunFindsFullRange
    OBVIOUS
  <2>1. pc = "running" =>
          /\ low = Whole(MinLimit)
          /\ high = Whole(MaxLimit) /\ default = Whole(MaxLimit)
    BY DEF XpuInv, Probed, Whole
  <2> QED  BY <2>1 DEF XpuInv, Probed, RunFindsFullRange
<1> QED  BY <1>1, XpuInvariant, PTL

-----------------------------------------------------------------------------
(* The metric collector *)

Opening == {"activate", "createPool", "createEvent", "openStream"}
Looping == {"loop", "read", "append"}
Closing == {"close", "destroyEvent", "destroyPool", "deactivate"}
BeforeStart == {"creating", "context", "indexing", "thrown"}
Calling == {"idle", "sum", "return", "clear"}
Leaving == {"join", "destroy", "ended"}

\* Types of what the proofs look at.
TypeInv ==
  /\ held \in {1, 2} /\ current \in {1, 2}
  /\ index \in Nat /\ acc \in Nat /\ accumulated \in Nat
  /\ added \in Nat /\ gets \in Nat /\ produced \in Nat
  /\ buffers \in [{1, 2} -> Seq(MetricResult)]
  /\ storage \in MetricResult /\ streamer \in MetricResult
  /\ counted \in SUBSET Nat

\* Where the two threads are together. The collector throws only while the
\* main thread waits for it, or has not got so far: never during a call.
ControlInv ==
  \/ /\ main \in BeforeStart /\ collector = "off" /\ state = "IDLE"
  \/ /\ main = "starting" /\ collector \in Opening /\ state = "IDLE"
  \/ /\ main \in Calling \union {"starting"} /\ collector \in Looping
     /\ state = "ENABLED"
  \/ /\ main \in Leaving /\ collector \in Looping \union Closing \union {"ended"}
     /\ state = "DISABLED"
  \/ /\ main = "aborted" /\ collector \in Opening \union Closing
     /\ state \in {"IDLE", "DISABLED"}

LEMMA ControlInitially == ASSUME Init PROVE ControlInv
  BY DEF Init, ControlInv, BeforeStart

LEMMA ControlStep == ASSUME ControlInv, [Next]_vars PROVE ControlInv'
<1>1. ASSUME NEW inst, Execute(inst) PROVE ControlInv'
  BY <1>1 DEF ControlInv, Execute, mainVars, collectorVars
<1>2. ASSUME OpenNext PROVE ControlInv'
  BY <1>2 DEF ControlInv, OpenNext, Opens, CollectorUnchanged, mainVars,
     BeforeStart, Opening, Looping, Closing, Leaving, Calling
<1>3. ASSUME CloseNext PROVE ControlInv'
  <2>1. /\ collector \in Closing /\ collector' \in Closing \union {"ended"}
        /\ main # "aborted" /\ UNCHANGED <<main, state>>
    BY <1>3 DEF CloseNext, Closes, CollectorUnchanged, mainVars, Closing
  <2>2. main \in Leaving /\ state = "DISABLED"
    BY <2>1 DEF ControlInv, Opening, Looping, Closing, Leaving
  <2> QED  BY <2>1, <2>2 DEF ControlInv
<1>4. ASSUME CollectorThrows PROVE ControlInv'
  BY <1>4 DEF ControlInv, CollectorThrows, collectorVars, Opening, Looping, Closing
<1>5. ASSUME TestState \/ ReadData \/ ReadFails \/ AppendCalculatedMetrics
             \/ CalculationFails
      PROVE  ControlInv'
  BY <1>5 DEF ControlInv, TestState, ReadData, ReadFails, CalculationFails,
     AppendCalculatedMetrics, CollectorUnchanged, mainVars,
     BeforeStart, Opening, Looping, Closing, Leaving, Calling
<1>6. ASSUME FindGroup \/ CreateContext \/ StartCollector \/ SetUpThrows
      PROVE  ControlInv'
  BY <1>6 DEF ControlInv, FindGroup, CreateContext, StartCollector,
     SetUpThrows, SettingUp, Goto, BeforeStart, Opening, Calling, Leaving
<1>7. ASSUME Enabled \/ BeginGet \/ AddOne \/ SumEnds \/ ClearAndReturn
             \/ BeginReset \/ EndReset \/ Disable \/ Join
      PROVE  ControlInv'
  BY <1>7 DEF ControlInv, Enabled, BeginGet, AddOne, SumEnds, ClearAndReturn,
     BeginReset, EndReset, Disable, Join, Goto, MainUnchanged, BeforeStart,
     Calling, Leaving
<1>8. ASSUME DestroyContext PROVE ControlInv'
  BY <1>8 DEF ControlInv, DestroyContext, Goto, collectorVars, BeforeStart,
     Calling, Leaving
<1>9. ASSUME UNCHANGED vars PROVE ControlInv'
  BY <1>9 DEF ControlInv, vars
<1> QED
  BY <1>1, <1>2, <1>3, <1>4, <1>5, <1>6, <1>7, <1>8, <1>9
     DEF Next, CollectorStep, MainStep

-----------------------------------------------------------------------------
(* Types *)

\* The steps of both threads before and after the collection touch none of
\* what the rest of the proofs is about.
Data == <<held, current, index, acc, accumulated, added, gets, buffers, counted>>

Outside ==
  \/ OpenNext \/ CloseNext \/ CollectorThrows \/ TestState \/ ReadFails
  \/ FindGroup \/ CreateContext \/ StartCollector \/ SetUpThrows
  \/ Enabled \/ Disable \/ Join \/ DestroyContext

LEMMA OutsideKeeps ==
  ASSUME Outside
  PROVE  /\ UNCHANGED Data /\ UNCHANGED <<storage, produced>>
         /\ streamer' \in {streamer, NoReports}
<1>1. ASSUME OpenNext \/ CloseNext \/ CollectorThrows \/ TestState \/ ReadFails
      PROVE  UNCHANGED Data /\ UNCHANGED <<storage, produced>>
             /\ streamer' \in {streamer, NoReports}
  BY <1>1 DEF OpenNext, Opens, CloseNext, Closes, CollectorThrows, TestState,
     ReadFails, CollectorUnchanged, mainVars, collectorVars, history, Data
<1>2. ASSUME FindGroup \/ CreateContext \/ StartCollector \/ SetUpThrows
      PROVE  UNCHANGED Data /\ UNCHANGED <<storage, produced, streamer>>
  BY <1>2 DEF FindGroup, CreateContext, StartCollector, SetUpThrows,
     SettingUp, history, Data
<1>3. ASSUME Enabled \/ Disable \/ Join \/ DestroyContext
      PROVE  UNCHANGED Data /\ UNCHANGED <<storage, produced, streamer>>
  BY <1>3 DEF Enabled, Disable, Join, DestroyContext, MainUnchanged,
     collectorVars, history, Data
<1> QED  BY <1>1, <1>2, <1>3 DEF Outside

\* The steps of the collection.
Inside ==
  \/ \E inst \in Amounts : Execute(inst)
  \/ ReadData \/ AppendCalculatedMetrics \/ CalculationFails
  \/ BeginGet \/ AddOne \/ SumEnds \/ ClearAndReturn \/ BeginReset \/ EndReset

LEMMA NextSplits == ASSUME [Next]_vars PROVE Outside \/ Inside \/ UNCHANGED vars
  BY DEF Next, CollectorStep, MainStep, Outside, Inside

LEMMA NoReportsType == NoReports \in MetricResult
  BY DEF NoReports, MetricResult

\* What a get does to the counter, in multiples of a million.
LEMMA WholeMillions ==
  ASSUME NEW a \in Nat, NEW b \in Nat
  PROVE  /\ b \div Million \in Nat
         /\ a * Million \in Nat /\ (a + (b \div Million)) * Million \in Nat
         /\ (a + (b \div Million)) * Million <= a * Million + b
         /\ a * Million + b
              <= (a + (b \div Million)) * Million + (Million - 1)
<1>1. Million \in Nat \ {0}  BY CollectorAssumption
<1>2. /\ b \div Million \in Nat /\ b % Million \in 0 .. (Million - 1)
      /\ b = Million * (b \div Million) + (b % Million)
  BY <1>1, SMTT(30)
<1> DEFINE q == b \div Million
           r == b % Million
<1>3. (a + q) * Million = a * Million + Million * q
  BY <1>1, <1>2, SMTT(30)
<1>4. a * Million \in Nat /\ Million * q \in Nat
  BY <1>1, <1>2
<1> DEFINE am == a * Million
           mq == Million * q
           both == (a + q) * Million
<1>5. both = am + mq /\ b = mq + r /\ am \in Nat /\ mq \in Nat
      /\ r \in 0 .. (Million - 1) /\ q \in Nat
  BY <1>2, <1>3, <1>4
<1>6. both \in Nat /\ both <= am + b /\ am + b <= both + (Million - 1)
  <2> HIDE DEF am, mq, both, r, q
  <2> QED  BY <1>1, <1>5
<1> QED  BY <1>5, <1>6

LEMMA TypesInitially == ASSUME Init PROVE TypeInv
  BY NoReportsType DEF Init, TypeInv

\* The element the main thread adds up next.
LEMMA NextElement ==
  ASSUME TypeInv, AddOne
  PROVE  /\ index + 1 \in 1 .. Len(buffers[held])
         /\ buffers[held][index + 1].inst \in Nat
         /\ buffers[held][index + 1].ids \in SUBSET Nat
<1>1. buffers[held] \in Seq(MetricResult) /\ index + 1 \in 1 .. Len(buffers[held])
  BY DEF TypeInv, AddOne
<1>2. buffers[held][index + 1] \in MetricResult
  BY <1>1
<1> QED  BY <1>1, <1>2 DEF MetricResult

LEMMA TypesStep == ASSUME TypeInv, [Next]_vars PROVE TypeInv'
<1>1. ASSUME Outside PROVE TypeInv'
  BY <1>1, OutsideKeeps, NoReportsType DEF TypeInv, Data
<1>2. ASSUME NEW inst \in Amounts, Execute(inst) PROVE TypeInv'
  BY <1>2, CollectorAssumption
     DEF TypeInv, Execute, mainVars, collectorVars, history, MetricResult
<1>3. ASSUME ReadData \/ CalculationFails PROVE TypeInv'
  BY <1>3, NoReportsType DEF TypeInv, ReadData, CalculationFails,
     CollectorUnchanged, mainVars, history
<1>4. ASSUME AppendCalculatedMetrics PROVE TypeInv'
  BY <1>4, NoReportsType DEF TypeInv, AppendCalculatedMetrics,
     CollectorUnchanged, mainVars, history
<1>5. ASSUME BeginGet \/ BeginReset \/ SumEnds PROVE TypeInv'
  <2>1. Other(current) \in {1, 2}
    BY DEF TypeInv, Other
  <2>2. CASE BeginGet
    BY <2>1, <2>2 DEF TypeInv, BeginGet, SwapBuffers, MainUnchanged
  <2>3. CASE BeginReset
    BY <2>1, <2>3 DEF TypeInv, BeginReset, SwapBuffers, MainUnchanged
  <2>4. CASE SumEnds
    BY <2>4 DEF TypeInv, SumEnds, MainUnchanged, history
  <2> QED  BY <1>5, <2>2, <2>3, <2>4
<1>6. ASSUME AddOne PROVE TypeInv'
  <2>3. /\ buffers[held][index + 1].inst \in Nat
        /\ buffers[held][index + 1].ids \in SUBSET Nat
    BY <1>6, NextElement
  <2>4. counted \union buffers[held][index + 1].ids \in SUBSET Nat
    BY <2>3 DEF TypeInv
  <2>5. counted' \in SUBSET Nat
    BY <1>6, <2>4 DEF AddOne
  <2>6. index' \in Nat /\ acc' \in Nat /\ added' \in Nat
    <3> DEFINE n == buffers[held][index + 1].inst
    <3>1. index' = index + 1 /\ acc' = acc + n /\ added' = added + n /\ n \in Nat
      BY <1>6, <2>3 DEF AddOne
    <3> HIDE DEF n
    <3> QED  BY <3>1 DEF TypeInv
  <2>7. UNCHANGED <<held, current, accumulated, gets, produced, buffers,
                    storage, streamer>>
    BY <1>6 DEF AddOne, MainUnchanged
  <2> QED  BY <2>5, <2>6, <2>7 DEF TypeInv
<1>7. ASSUME ClearAndReturn PROVE TypeInv'
  <2>1. acc \div Million \in Nat
    BY WholeMillions DEF TypeInv
  <2> QED  BY <1>7, <2>1 DEF TypeInv, ClearAndReturn, MainUnchanged, history
<1>8. ASSUME EndReset PROVE TypeInv'
  BY <1>8 DEF TypeInv, EndReset, MainUnchanged, history
<1>9. ASSUME UNCHANGED vars PROVE TypeInv'
  BY <1>9 DEF TypeInv, vars
<1> QED
  BY <1>1, <1>2, <1>3, <1>4, <1>5, <1>6, <1>7, <1>8, <1>9, NextSplits DEF Inside

-----------------------------------------------------------------------------
(* The double buffer *)

Adding == main \in {"sum", "return"}

SwapInv ==
  /\ WithoutMutex => held # current
  /\ ~WithoutMutex => buffers[Other(current)] = <<>>
  /\ Adding => index <= Len(buffers[held])
  /\ main = "return" => index = Len(buffers[held])

\* No step outside of the collection begins or ends a call, since the thread
\* does not throw during one.
LEMMA OutsideCalls ==
  ASSUME ControlInv, Outside
  PROVE  main' = main \/ ~(WithoutMutex \/ WithoutMutex')
<1>1. ASSUME OpenNext \/ CloseNext \/ TestState \/ ReadFails PROVE main' = main
  BY <1>1 DEF OpenNext, Opens, CloseNext, Closes, TestState, ReadFails,
     CollectorUnchanged, mainVars
<1>2. ASSUME CollectorThrows PROVE ~(WithoutMutex \/ WithoutMutex')
  BY <1>2 DEF CollectorThrows, WithoutMutex, ControlInv, BeforeStart, Opening,
     Looping, Closing, Calling, Leaving
<1>3. ASSUME FindGroup \/ CreateContext \/ StartCollector \/ SetUpThrows
      PROVE  ~(WithoutMutex \/ WithoutMutex')
  BY <1>3 DEF FindGroup, CreateContext, StartCollector, SetUpThrows,
     SettingUp, Goto, WithoutMutex
<1>4. ASSUME Enabled \/ Disable \/ Join \/ DestroyContext
      PROVE  ~(WithoutMutex \/ WithoutMutex')
  BY <1>4 DEF Enabled, Disable, Join, DestroyContext, Goto, WithoutMutex
<1> QED  BY <1>1, <1>2, <1>3, <1>4 DEF Outside

\* The collector's appending is seen by the current buffer only.
LEMMA AppendEffect ==
  ASSUME TypeInv, AppendCalculatedMetrics
  PROVE  /\ \A b \in {1, 2} : b # current => buffers'[b] = buffers[b]
         /\ buffers'[current] = Append(buffers[current], storage)
         /\ UNCHANGED <<main, held, current, index, acc, accumulated, added,
                        gets, counted, streamer, produced>>
         /\ storage' = NoReports
  BY DEF TypeInv, AppendCalculatedMetrics, CollectorUnchanged, mainVars, history

\* A buffer is cleared.
LEMMA ClearEffect ==
  ASSUME TypeInv, ClearAndReturn \/ EndReset
  PROVE  /\ buffers'[held] = <<>>
         /\ \A b \in {1, 2} : b # held => buffers'[b] = buffers[b]
         /\ UNCHANGED <<held, current, index, counted, storage, streamer,
                        produced, added, gets>>
         /\ WithoutMutex /\ main' = "idle"
  BY DEF TypeInv, ClearAndReturn, EndReset, Goto, WithoutMutex, MainUnchanged,
     history

LEMMA SwapInitially == ASSUME Init PROVE SwapInv
  BY DEF Init, SwapInv, WithoutMutex, Adding, Other

LEMMA SwapStep ==
  ASSUME TypeInv, ControlInv, SwapInv, [Next]_vars
  PROVE  SwapInv'
<1>1. ASSUME Outside PROVE SwapInv'
  BY <1>1, OutsideKeeps, OutsideCalls
     DEF SwapInv, Data, WithoutMutex, Adding, Other
<1>2. ASSUME NEW inst, Execute(inst) PROVE SwapInv'
  BY <1>2 DEF SwapInv, Execute, mainVars, WithoutMutex, Adding, Other
<1>3. ASSUME ReadData \/ CalculationFails PROVE SwapInv'
  BY <1>3 DEF SwapInv, ReadData, CalculationFails, CollectorUnchanged, mainVars,
     WithoutMutex, Adding, Other
<1>4. ASSUME AppendCalculatedMetrics PROVE SwapInv'
  <2>1. Other(current) \in {1, 2} /\ Other(current) # current
    BY DEF Other, TypeInv
  <2>2. buffers'[Other(current)] = buffers[Other(current)]
    BY <1>4, <2>1, AppendEffect
  <2>3. WithoutMutex => buffers'[held] = buffers[held]
    BY <1>4, AppendEffect DEF SwapInv, TypeInv
  <2> QED
    BY <1>4, <2>2, <2>3, AppendEffect
       DEF SwapInv, WithoutMutex, Adding, Other
<1>5. ASSUME BeginGet PROVE SwapInv'
  BY <1>5 DEF SwapInv, BeginGet, Goto, SwapBuffers, WithoutMutex, Adding,
     Other, TypeInv
<1>6. ASSUME BeginReset PROVE SwapInv'
  BY <1>6 DEF SwapInv, BeginReset, Goto, SwapBuffers, WithoutMutex, Adding,
     Other, TypeInv
<1>7. ASSUME AddOne PROVE SwapInv'
  BY <1>7 DEF SwapInv, AddOne, WithoutMutex, Adding, Other, TypeInv
<1>8. ASSUME SumEnds PROVE SwapInv'
  BY <1>8 DEF SwapInv, SumEnds, Goto, WithoutMutex, Adding, Other, TypeInv
<1>9. ASSUME ClearAndReturn \/ EndReset PROVE SwapInv'
  <2>1. held = Other(current)
    BY <1>9, ClearEffect DEF SwapInv, Other, TypeInv
  <2> QED
    BY <1>9, <2>1, ClearEffect DEF SwapInv, WithoutMutex, Adding, Other
<1>10. ASSUME UNCHANGED vars PROVE SwapInv'
  BY <1>10 DEF SwapInv, vars, WithoutMutex, Adding, Other
<1> QED
  BY <1>1, <1>2, <1>3, <1>4, <1>5, <1>6, <1>7, <1>8, <1>9, <1>10, NextSplits
     DEF Inside

-----------------------------------------------------------------------------
(* The counter *)

\* The instructions of a get under way are not in the counter yet, and it has
\* not dropped anything.
Pending == IF Adding THEN acc ELSE 0
GetsDone == IF Adding THEN gets - 1 ELSE gets

BracketInv ==
  /\ Adding => gets >= 1
  /\ accumulated * Million + Pending <= added
  /\ added <= accumulated * Million + Pending + GetsDone * (Million - 1)

Counter == <<accumulated, Pending, GetsDone, added>>

LEMMA BracketKept ==
  ASSUME BracketInv, UNCHANGED Counter, Adding' => gets' >= 1
  PROVE  BracketInv'
<1>1. /\ accumulated' = accumulated /\ Pending' = Pending
      /\ GetsDone' = GetsDone /\ added' = added
  BY DEF Counter
<1> QED  BY <1>1 DEF BracketInv

LEMMA BracketInitially == ASSUME Init PROVE BracketInv
<1>1. Million \in Nat \ {0}  BY CollectorAssumption
<1>2. 0 * Million = 0 /\ 0 * (Million - 1) = 0
  BY <1>1
<1>3. ~Adding /\ accumulated = 0 /\ added = 0 /\ gets = 0
  BY DEF Init, Adding
<1> QED  BY <1>2, <1>3 DEF BracketInv, Pending, GetsDone

LEMMA BracketStep ==
  ASSUME TypeInv, ControlInv, BracketInv, [Next]_vars
  PROVE  BracketInv'
<1> DEFINE Idle == main' = main \/ ~(WithoutMutex \/ WithoutMutex')
<1>1. ASSUME Idle, UNCHANGED <<acc, gets, added, accumulated>> PROVE BracketInv'
  <2>1. Adding' = Adding
    BY <1>1 DEF WithoutMutex, Adding
  <2>2. Pending' = Pending /\ GetsDone' = GetsDone
    BY <1>1, <2>1 DEF Pending, GetsDone
  <2>3. Adding' => gets' >= 1
    BY <1>1, <2>1 DEF BracketInv
  <2> QED  BY <1>1, <2>2, <2>3, BracketKept DEF Counter
<1>2. ASSUME Outside PROVE BracketInv'
  BY <1>1, <1>2, OutsideKeeps, OutsideCalls DEF Data
<1>3. ASSUME NEW inst, Execute(inst) PROVE BracketInv'
  BY <1>1, <1>3 DEF Execute, mainVars, history
<1>4. ASSUME ReadData \/ CalculationFails \/ AppendCalculatedMetrics
      PROVE  BracketInv'
  BY <1>1, <1>4 DEF ReadData, CalculationFails, AppendCalculatedMetrics,
     CollectorUnchanged, mainVars, history
<1>5. ASSUME BeginGet PROVE BracketInv'
  <2>1. /\ ~Adding /\ Adding' /\ gets' = gets + 1 /\ acc' = 0
        /\ added' = added /\ accumulated' = accumulated /\ gets \in Nat
    BY <1>5 DEF BeginGet, Goto, Adding, TypeInv
  <2>2. Pending = 0 /\ Pending' = 0 /\ GetsDone = gets /\ GetsDone' = gets
    BY <2>1 DEF Pending, GetsDone
  <2>3. gets' >= 1
    BY <2>1
  <2> QED  BY <2>1, <2>2, <2>3, BracketKept DEF Counter
<1>6. ASSUME AddOne PROVE BracketInv'
  <2> DEFINE n == buffers[held][index + 1].inst
  <2>2. n \in Nat
    BY <1>6, NextElement
  <2>3. /\ Adding /\ Adding' /\ gets' = gets /\ acc' = acc + n
        /\ added' = added + n /\ accumulated' = accumulated
    BY <1>6 DEF AddOne, Adding
  <2> HIDE DEF n
  <2>4. Pending = acc /\ Pending' = acc + n /\ GetsDone' = GetsDone
    BY <2>3 DEF Pending, GetsDone
  <2> DEFINE am == accumulated * Million
             dm == GetsDone * (Million - 1)
  <2>5. am \in Nat /\ dm \in Int /\ added \in Nat /\ acc \in Nat
    BY <2>3, CollectorAssumption DEF TypeInv, GetsDone
  <2>6. am + acc <= added /\ added <= am + acc + dm
    BY <2>4 DEF BracketInv
  <2>7. (accumulated * Million)' = am /\ (GetsDone * (Million - 1))' = dm
    BY <2>3, <2>4
  <2>8. am + (acc + n) <= added + n /\ added + n <= am + (acc + n) + dm
    <3> HIDE DEF am, dm
    <3> QED  BY <2>2, <2>5, <2>6
  <2> QED  BY <2>3, <2>4, <2>7, <2>8 DEF BracketInv
<1>7. ASSUME SumEnds PROVE BracketInv'
  <2>1. /\ Adding /\ Adding'
        /\ UNCHANGED <<acc, gets, added, accumulated>>
    BY <1>7 DEF SumEnds, Goto, Adding, history
  <2>2. Pending' = Pending /\ GetsDone' = GetsDone
    BY <2>1 DEF Pending, GetsDone
  <2> QED  BY <2>1, <2>2, BracketKept DEF Counter, BracketInv
<1>8. ASSUME ClearAndReturn PROVE BracketInv'
  <2>1. /\ Adding /\ ~Adding' /\ gets' = gets /\ added' = added
        /\ accumulated' = accumulated + (acc \div Million)
    BY <1>8 DEF ClearAndReturn, Goto, Adding, history
  <2> DEFINE am == accumulated * Million
             both == (accumulated + (acc \div Million)) * Million
             m == Million - 1
             dm == (gets - 1) * m
             dm1 == gets * m
  <2>2. /\ am \in Nat /\ both \in Nat /\ both <= am + acc
        /\ am + acc <= both + m
    BY WholeMillions DEF TypeInv
  <2>3. m \in Nat /\ added \in Nat /\ acc \in Nat /\ gets \in Nat
    BY CollectorAssumption DEF TypeInv
  <2>4. dm1 = dm + m /\ dm \in Int
    BY <2>3, SMTT(30)
  <2>5. am + acc <= added /\ added <= am + acc + dm
    BY <2>1 DEF BracketInv, Pending, GetsDone
  <2>6. both + 0 <= added /\ added <= both + 0 + dm1
    <3> HIDE DEF am, both, m, dm, dm1
    <3> QED  BY <2>2, <2>3, <2>4, <2>5
  <2>7. Pending' = 0 /\ GetsDone' = gets
    BY <2>1 DEF Pending, GetsDone
  <2> QED  BY <2>1, <2>6, <2>7 DEF BracketInv
<1>9. ASSUME BeginReset PROVE BracketInv'
  <2>1. ~Adding' /\ accumulated' = 0 /\ added' = 0 /\ gets' = 0
    BY <1>9 DEF BeginReset, Goto, Adding
  <2>2. 0 * Million = 0 /\ 0 * (Million - 1) = 0
    BY CollectorAssumption
  <2> QED  BY <2>1, <2>2 DEF BracketInv, Pending, GetsDone
<1>10. ASSUME EndReset PROVE BracketInv'
  <2>1. ~Adding /\ ~Adding' /\ UNCHANGED <<acc, gets, added, accumulated>>
    BY <1>10 DEF EndReset, Goto, Adding, history
  <2>2. Pending' = Pending /\ GetsDone' = GetsDone
    BY <2>1 DEF Pending, GetsDone
  <2> QED  BY <2>1, <2>2, BracketKept DEF Counter
<1>11. ASSUME UNCHANGED vars PROVE BracketInv'
  BY <1>1, <1>11 DEF vars
<1> QED
  BY <1>2, <1>3, <1>4, <1>5, <1>6, <1>7, <1>8, <1>9, <1>10, <1>11, NextSplits
     DEF Inside

-----------------------------------------------------------------------------
(* The reports *)

\* The get under way has added this element up.
AddedUp(b, i) == Adding /\ b = held /\ i <= index

\* A report is in one place: in the stream, at the collector, in an element of
\* a buffer or, once added up, counted.
ReportInv ==
  /\ \A x \in streamer.ids : x < produced /\ x \notin storage.ids /\ x \notin counted
  /\ \A x \in storage.ids : x < produced /\ x \notin counted
  /\ \A x \in counted : x < produced
  /\ \A b \in {1, 2} : \A i \in 1 .. Len(buffers[b]) : \A x \in buffers[b][i].ids :
       /\ x < produced /\ x \notin streamer.ids /\ x \notin storage.ids
       /\ x \in counted <=> AddedUp(b, i)
       /\ \A c \in {1, 2} : \A j \in 1 .. Len(buffers[c]) :
            x \in buffers[c][j].ids => c = b /\ j = i

LEMMA ReportsInitially == ASSUME Init PROVE ReportInv
  BY DEF Init, ReportInv, NoReports

\* A report of an element of a buffer is nowhere else.
LEMMA ReportsOf ==
  ASSUME ReportInv, NEW b \in {1, 2}, NEW i \in 1 .. Len(buffers[b]),
         NEW x \in buffers[b][i].ids
  PROVE  /\ x < produced /\ x \notin streamer.ids /\ x \notin storage.ids
         /\ x \in counted <=> AddedUp(b, i)
         /\ \A c \in {1, 2} : \A j \in 1 .. Len(buffers[c]) :
              x \in buffers[c][j].ids => c = b /\ j = i
  BY DEF ReportInv

\* A step that leaves the buffers and what is counted alone, and takes no
\* report from nowhere.
LEMMA ReportsMove ==
  ASSUME ReportInv, TypeInv, UNCHANGED <<buffers, counted>>,
         \A b \in {1, 2} : \A i \in 1 .. Len(buffers[b]) :
           AddedUp(b, i)' <=> AddedUp(b, i),
         \/ UNCHANGED <<streamer, storage, produced>>
         \/ streamer' = NoReports /\ storage' \in {storage, streamer}
            /\ produced' = produced
         \/ streamer' = streamer /\ storage' = NoReports /\ produced' = produced
         \/ /\ produced' = produced + 1 /\ storage' = storage
            /\ streamer'.ids \subseteq streamer.ids \union {produced}
  PROVE  ReportInv'
<1>1. NoReports.ids = {}
  BY DEF NoReports
<1>2. produced \in Nat
  BY DEF TypeInv
<1>3. \A x \in streamer.ids : x \in Nat
  BY DEF TypeInv, MetricResult
<1>4. \A x \in storage.ids : x \in Nat
  BY DEF TypeInv, MetricResult
<1>5. \A x \in counted : x \in Nat
  BY DEF TypeInv
<1>6. \A b \in {1, 2} : \A i \in 1 .. Len(buffers[b]) : \A x \in buffers[b][i].ids :
        x \in Nat
  <2>1. \A b \in {1, 2} : buffers[b] \in Seq(MetricResult)
    BY DEF TypeInv
  <2>2. \A b \in {1, 2} : \A i \in 1 .. Len(buffers[b]) : buffers[b][i] \in MetricResult
    BY <2>1
  <2> QED  BY <2>2 DEF MetricResult
<1>7. CASE UNCHANGED <<streamer, storage, produced>>
  BY <1>7 DEF ReportInv
<1>8. CASE /\ streamer' = NoReports /\ storage' \in {storage, streamer}
           /\ produced' = produced
  BY <1>1, <1>8 DEF ReportInv
<1>9. CASE streamer' = streamer /\ storage' = NoReports /\ produced' = produced
  BY <1>1, <1>9 DEF ReportInv
<1>10. CASE /\ produced' = produced + 1 /\ storage' = storage
            /\ streamer'.ids \subseteq streamer.ids \union {produced}
  <2>1. \A x \in Nat : x < produced => x < produced' /\ x # produced
    BY <1>2, <1>10
  <2>2. \A x \in streamer'.ids : x \in streamer.ids \/ x = produced
    BY <1>10
  <2>3. produced < produced'
    BY <1>2, <1>10
  <2>4. \A x \in streamer'.ids :
          x < produced' /\ x \notin storage'.ids /\ x \notin counted'
    BY <2>1, <2>2, <2>3, <1>3, <1>4, <1>5, <1>10 DEF ReportInv
  <2>5. \A x \in storage'.ids : x < produced' /\ x \notin counted'
    BY <2>1, <1>4, <1>10 DEF ReportInv
  <2>6. \A x \in counted' : x < produced'
    BY <2>1, <1>5 DEF ReportInv
  <2>7. \A b \in {1, 2} : \A i \in 1 .. Len(buffers[b]) : \A x \in buffers[b][i].ids :
          x < produced' /\ x \notin streamer'.ids /\ x \notin storage'.ids
    BY <2>1, <2>2, <1>6, <1>10 DEF ReportInv
  <2> QED  BY <2>4, <2>5, <2>6, <2>7 DEF ReportInv
<1> QED  BY <1>7, <1>8, <1>9, <1>10

LEMMA ReportsAppended ==
  ASSUME ReportInv, TypeInv, SwapInv, AppendCalculatedMetrics
  PROVE  ReportInv'
<1> DEFINE n == Len(buffers[current]) + 1
<1>1. current \in {1, 2} /\ buffers[current] \in Seq(MetricResult)
      /\ storage \in MetricResult
  BY DEF TypeInv
<1>2. \A b \in {1, 2} : b # current => buffers'[b] = buffers[b]
  BY AppendEffect
<1>3. /\ Len(buffers'[current]) = n /\ n \in Nat \ {0}
      /\ buffers'[current][n] = storage
      /\ \A i \in 1 .. Len(buffers[current]) : buffers'[current][i] = buffers[current][i]
  BY <1>1, AppendEffect
<1>4. /\ UNCHANGED <<main, held, current, index, counted, streamer, produced>>
      /\ storage'.ids = {}
  BY AppendEffect DEF NoReports
<1>5. \A b, i : /\ AddedUp(b, i)' <=> AddedUp(b, i)
                /\ b = current => ~AddedUp(b, i)
  BY <1>4 DEF AddedUp, Adding, SwapInv, WithoutMutex
<1> DEFINE New(b, i) == b = current /\ i = n
<1>6. ASSUME NEW b \in {1, 2}, NEW i \in 1 .. Len(buffers'[b])
      PROVE  \/ New(b, i) /\ buffers'[b][i] = storage
             \/ ~New(b, i) /\ i \in 1 .. Len(buffers[b]) /\ buffers'[b][i] = buffers[b][i]
  <2>1. CASE b # current
    BY <1>2, <1>6, <2>1
  <2>2. CASE b = current
    <3>1. Len(buffers[current]) \in Nat
      BY <1>1
    <3>2. i = n \/ i \in 1 .. Len(buffers[current])
      BY <1>3, <1>6, <2>2, <3>1
    <3>3. i \in 1 .. Len(buffers[current]) => i # n
      BY <3>1
    <3> QED  BY <1>3, <2>2, <3>2, <3>3
  <2> QED  BY <2>1, <2>2
<1> HIDE DEF n
<1>7. ASSUME NEW b \in {1, 2}, NEW i \in 1 .. Len(buffers'[b]),
             NEW x \in buffers'[b][i].ids
      PROVE  /\ x < produced /\ x \notin streamer.ids
             /\ x \in counted <=> AddedUp(b, i)
             /\ \A c \in {1, 2} : \A j \in 1 .. Len(buffers'[c]) :
                  x \in buffers'[c][j].ids => c = b /\ j = i
  <2>1. ASSUME NEW c \in {1, 2}, NEW j \in 1 .. Len(buffers'[c]),
               x \in buffers'[c][j].ids
        PROVE  c = b /\ j = i
    <3>1. ASSUME NEW e \in {1, 2}, NEW k \in 1 .. Len(buffers'[e]),
                 x \in buffers'[e][k].ids
          PROVE  \/ New(e, k) /\ x \in storage.ids
                 \/ ~New(e, k) /\ k \in 1 .. Len(buffers[e]) /\ x \in buffers[e][k].ids
      BY <1>6, <3>1
    <3>2. CASE New(b, i) /\ New(c, j)
      BY <3>2
    <3>3. ASSUME NEW e \in {1, 2}, NEW k \in 1 .. Len(buffers[e]), x \in buffers[e][k].ids
          PROVE  /\ x \notin storage.ids
                 /\ \A f \in {1, 2} : \A l \in 1 .. Len(buffers[f]) :
                      x \in buffers[f][l].ids => f = e /\ l = k
      BY <3>3, ReportsOf
    <3>4. \/ New(b, i) /\ x \in storage.ids
          \/ ~New(b, i) /\ i \in 1 .. Len(buffers[b]) /\ x \in buffers[b][i].ids
      BY <1>7, <3>1
    <3>5. \/ New(c, j) /\ x \in storage.ids
          \/ ~New(c, j) /\ j \in 1 .. Len(buffers[c]) /\ x \in buffers[c][j].ids
      BY <2>1, <3>1
    <3> HIDE DEF New
    <3>6. CASE ~New(b, i) /\ ~New(c, j)
      BY <3>3, <3>4, <3>5, <3>6
    <3>7. CASE New(b, i) <=> ~New(c, j)
      BY <3>3, <3>4, <3>5, <3>7
    <3> QED  BY <3>2, <3>6, <3>7
  <2>2. CASE New(b, i) /\ buffers'[b][i] = storage
    <3>1. x \in storage.ids
      BY <1>7, <2>2
    <3>2. x < produced /\ x \notin streamer.ids /\ x \notin counted
      BY <3>1 DEF ReportInv
    <3>3. b = current /\ i = n
      BY <2>2
    <3> QED  BY <1>5, <2>1, <3>2, <3>3
  <2>3. CASE ~New(b, i) /\ i \in 1 .. Len(buffers[b]) /\ buffers'[b][i] = buffers[b][i]
    <3>1. x \in buffers[b][i].ids
      BY <1>7, <2>3
    <3>2. x < produced /\ x \notin streamer.ids /\ (x \in counted <=> AddedUp(b, i))
      BY <2>3, <3>1, ReportsOf
    <3> HIDE DEF New
    <3> QED  BY <2>1, <3>2, Zenon
  <2> QED  BY <1>6, <2>2, <2>3
<1>8. /\ \A x \in streamer.ids : x < produced /\ x \notin counted
      /\ \A x \in counted : x < produced
  BY DEF ReportInv
<1> HIDE DEF New
<1> QED  BY <1>4, <1>5, <1>7, <1>8 DEF ReportInv

LEMMA ReportsAdded ==
  ASSUME ReportInv, TypeInv, SwapInv, AddOne
  PROVE  /\ ReportInv'
         /\ index' = index + 1
         /\ buffers[held][index + 1].ids \intersect counted = {}
<1> DEFINE n == index + 1
           ids == buffers[held][n].ids
<1>1. /\ held \in {1, 2} /\ n \in 1 .. Len(buffers[held]) /\ index \in Nat
      /\ \A b \in {1, 2} : Len(buffers[b]) \in Nat
  BY NextElement DEF TypeInv
<1>2. /\ counted' = counted \union ids /\ index' = n
      /\ UNCHANGED <<held, buffers, storage, streamer, produced>>
      /\ Adding /\ Adding'
  BY DEF AddOne, Adding, MainUnchanged
<1>3. ~AddedUp(held, n)
  BY <1>1 DEF AddedUp
<1>4. \A b \in {1, 2} : \A i \in 1 .. Len(buffers[b]) :
        AddedUp(b, i)' <=> AddedUp(b, i) \/ (b = held /\ i = n)
  BY <1>1, <1>2 DEF AddedUp
<1>5. \A x \in ids : x \notin counted /\ x < produced /\ x \notin streamer.ids
                    /\ x \notin storage.ids
  BY <1>1, <1>3 DEF ReportInv
<1>6. ASSUME NEW b \in {1, 2}, NEW i \in 1 .. Len(buffers[b]), NEW x \in buffers[b][i].ids
      PROVE  x \in counted' <=> AddedUp(b, i)'
  <2>1. x \in ids <=> b = held /\ i = n
    BY <1>1, <1>6 DEF ReportInv
  <2>2. x \in counted <=> AddedUp(b, i)
    BY <1>6 DEF ReportInv
  <2> HIDE DEF ids, n
  <2> QED  BY <1>2, <1>4, <1>6, <2>1, <2>2
<1> HIDE DEF ids, n
<1>7. ReportInv'
  BY <1>2, <1>5, <1>6 DEF ReportInv
<1> QED  BY <1>2, <1>5, <1>7 DEF n, ids

LEMMA ReportsCleared ==
  ASSUME ReportInv, TypeInv, SwapInv, ClearAndReturn \/ EndReset
  PROVE  ReportInv'
<1>1. /\ buffers'[held] = <<>>
      /\ \A b \in {1, 2} : b # held => buffers'[b] = buffers[b]
      /\ UNCHANGED <<held, index, counted, storage, streamer, produced>>
      /\ ~Adding' /\ held \in {1, 2}
  BY ClearEffect DEF Adding, TypeInv
<1>2. ASSUME NEW b \in {1, 2}, NEW i \in 1 .. Len(buffers'[b])
      PROVE  /\ b # held /\ i \in 1 .. Len(buffers[b]) /\ buffers'[b][i] = buffers[b][i]
             /\ ~AddedUp(b, i) /\ ~AddedUp(b, i)'
  BY <1>1, <1>2 DEF AddedUp
<1>3. ASSUME NEW b \in {1, 2}, NEW i \in 1 .. Len(buffers'[b]),
             NEW x \in buffers'[b][i].ids
      PROVE  /\ x < produced /\ x \notin streamer.ids /\ x \notin storage.ids
             /\ x \in counted <=> AddedUp(b, i)'
             /\ \A c \in {1, 2} : \A j \in 1 .. Len(buffers'[c]) :
                  x \in buffers'[c][j].ids => c = b /\ j = i
  <2>1. i \in 1 .. Len(buffers[b]) /\ x \in buffers[b][i].ids
    BY <1>2, <1>3
  <2>2. /\ x < produced /\ x \notin streamer.ids /\ x \notin storage.ids
        /\ x \in counted <=> AddedUp(b, i)
    BY <2>1, ReportsOf
  <2>3. ASSUME NEW c \in {1, 2}, NEW j \in 1 .. Len(buffers'[c]),
               x \in buffers'[c][j].ids
        PROVE  c = b /\ j = i
    <3>1. j \in 1 .. Len(buffers[c]) /\ x \in buffers[c][j].ids
      BY <1>2, <2>3
    <3> QED  BY <2>1, <3>1, ReportsOf
  <2> QED  BY <1>2, <2>2, <2>3
<1> QED  BY <1>1, <1>3 DEF ReportInv

LEMMA ReportStep ==
  ASSUME TypeInv, ControlInv, SwapInv, ReportInv, [Next]_vars
  PROVE  ReportInv'
<1>1. ASSUME main' = main \/ ~(WithoutMutex \/ WithoutMutex'), UNCHANGED <<held, index>>
      PROVE  \A b, i : AddedUp(b, i)' <=> AddedUp(b, i)
  BY <1>1 DEF AddedUp, Adding, WithoutMutex
<1>2. ASSUME Outside PROVE ReportInv'
  <2>1. UNCHANGED <<held, index, buffers, counted>>
    BY <1>2, OutsideKeeps DEF Data
  <2>2. \A b, i : AddedUp(b, i)' <=> AddedUp(b, i)
    BY <1>1, <1>2, <2>1, OutsideCalls
  <2> QED  BY <1>2, <2>1, <2>2, OutsideKeeps, ReportsMove
<1>3. ASSUME NEW inst, Execute(inst) PROVE ReportInv'
  <2>1. /\ UNCHANGED <<main, held, index, buffers, counted>>
        /\ produced' = produced + 1 /\ storage' = storage
    BY <1>3 DEF Execute, mainVars, collectorVars, history
  <2>2. streamer'.ids \subseteq streamer.ids \union {produced}
    BY <1>3 DEF Execute
  <2> QED  BY <1>1, <2>1, <2>2, ReportsMove
<1>4. ASSUME ReadData \/ CalculationFails PROVE ReportInv'
  <2>1. /\ UNCHANGED <<main, held, index, buffers, counted, produced>>
        /\ \/ streamer' = NoReports /\ storage' = streamer
           \/ streamer' = streamer /\ storage' = NoReports
    BY <1>4 DEF ReadData, CalculationFails, CollectorUnchanged, mainVars, history
  <2> QED  BY <1>1, <2>1, ReportsMove
<1>5. ASSUME BeginGet \/ BeginReset PROVE ReportInv'
  <2>1. /\ UNCHANGED <<buffers, counted, storage, streamer, produced>>
        /\ ~Adding /\ ~(Adding /\ index > 0)'
    BY <1>5 DEF BeginGet, BeginReset, Goto, MainUnchanged, Adding
  <2>2. ASSUME NEW b \in {1, 2}, NEW i \in 1 .. Len(buffers[b])
        PROVE  ~AddedUp(b, i) /\ ~AddedUp(b, i)'
    <3>1. i > 0  OBVIOUS
    <3>2. Adding' => index' = 0
      BY <1>5 DEF BeginGet, BeginReset, Goto, Adding
    <3> QED  BY <2>1, <3>1, <3>2 DEF AddedUp
  <2> QED  BY <2>1, <2>2, ReportsMove
<1>6. ASSUME SumEnds PROVE ReportInv'
  <2>1. UNCHANGED <<held, index, buffers, counted, storage, streamer, produced>>
        /\ Adding /\ Adding'
    BY <1>6 DEF SumEnds, Goto, MainUnchanged, history, Adding
  <2>2. \A b, i : AddedUp(b, i)' <=> AddedUp(b, i)
    BY <2>1 DEF AddedUp
  <2> QED  BY <2>1, <2>2, ReportsMove
<1>7. ASSUME UNCHANGED vars PROVE ReportInv'
  <2>1. UNCHANGED <<main, held, index, buffers, counted, storage, streamer, produced>>
    BY <1>7 DEF vars
  <2> QED  BY <1>1, <2>1, ReportsMove
<1> QED
  BY <1>2, <1>3, <1>4, <1>5, <1>6, <1>7, ReportsAppended, ReportsAdded,
     ReportsCleared, NextSplits DEF Inside

\* A step of a get adds an element up, and nothing else moves its index.
LEMMA OnlyAddOne ==
  ASSUME TypeInv, ControlInv, [Next]_vars, main = "sum", index' = index + 1
  PROVE  AddOne
<1>1. index' # index
  BY DEF TypeInv
<1>2. ASSUME Outside PROVE FALSE
  BY <1>1, <1>2, OutsideKeeps DEF Data
<1>3. ASSUME \/ \E inst \in Amounts : Execute(inst)
             \/ ReadData \/ AppendCalculatedMetrics \/ CalculationFails
      PROVE  FALSE
  BY <1>1, <1>3 DEF Execute, ReadData, AppendCalculatedMetrics,
     CalculationFails, CollectorUnchanged, mainVars
<1>4. ASSUME BeginGet \/ SumEnds \/ ClearAndReturn \/ BeginReset \/ EndReset PROVE FALSE
  BY <1>1, <1>4 DEF BeginGet, SumEnds, ClearAndReturn, BeginReset, EndReset, Goto
<1>5. ASSUME UNCHANGED vars PROVE FALSE
  BY <1>1, <1>5 DEF vars
<1> QED  BY <1>2, <1>3, <1>4, <1>5, NextSplits DEF Inside

-----------------------------------------------------------------------------
(* What is open when *)

\* A group that SetMetricIndices accepts.
HasMetrics(g) ==
  /\ g.name = GroupName
  /\ \A name \in Required : \E i \in 2 .. Len(g.metrics) : g.metrics[i] = name

\* What the collector has open at each of its control points.
OpenedInv ==
  /\ collector = "activate" => opened = {"context"}
  /\ collector = "createPool" => opened = {"context", "groups"}
  /\ collector = "createEvent" => opened = {"context", "groups", "pool"}
  /\ collector = "openStream" => opened = {"context", "groups", "pool", "event"}
  /\ collector \in Looping \union {"close"} => opened = Resources
  /\ collector = "destroyEvent" => opened = {"context", "groups", "pool", "event"}
  /\ collector = "destroyPool" => opened = {"context", "groups", "pool"}
  /\ collector = "deactivate" => opened = {"context", "groups"}
  /\ collector = "ended" => IF main = "ended" THEN opened \subseteq {"context"}
                            ELSE opened = {"context"}

\* Strengthening of StreamIsOpen: what was made sure of before the collector
\* was started, and that it has ended before the context is destroyed.
StreamInv ==
  /\ OpenedInv
  /\ groups \in GroupLists
  /\ main = "creating" => opened = {}
  /\ main = "context" =>
       /\ opened = {} /\ group \in MetricGroup \union {NoGroup}
       /\ group = NoGroup \/ group.name = GroupName
  /\ main = "indexing" =>
       opened = {"context"} /\ group \in MetricGroup \union {NoGroup}
       /\ group.name = GroupName
  /\ main = "thrown" => opened \subseteq {"context"}
  /\ collector # "off" => HasMetrics(group)
  /\ main \in {"destroy", "ended"} => collector = "ended"

\* A set of natural numbers has a least element, and Min chooses it.
LEMMA MinOf ==
  ASSUME NEW T \in SUBSET Nat, T # {}
  PROVE  Min(T) \in T
<1> DEFINE R == OpToRel(<, Nat)
<1>1. IsWellFoundedOn(R, Nat)
  BY NatLessThanWellFounded
<1>2. \A i, j \in Nat : i < j => <<i, j>> \in R
  BY DEF OpToRel
<1> HIDE DEF R
<1>3. PICK n \in T : \A m \in T : <<m, n>> \notin R
  BY <1>1, WFMin
<1>4. \A m \in T : n <= m
  <2> SUFFICES ASSUME NEW m \in T PROVE n <= m
    OBVIOUS
  <2>1. m \in Nat /\ n \in Nat
    OBVIOUS
  <2>2. ~ (m < n)  BY <1>2, <1>3, <2>1
  <2> QED  BY <2>1, <2>2
<1> QED  BY <1>4, Zenon DEF Min

\* The group that is found is of the list, and has the name.
LEMMA GroupFound ==
  ASSUME StreamInv, FindGroup
  PROVE  /\ group' \in MetricGroup \union {NoGroup}
         /\ group' = NoGroup \/ group'.name = GroupName
<1> DEFINE I == {i \in 1 .. Len(groups) :
                   groups[i].name = GroupName /\ groups[i].timeBased}
<1>1. group' = IF (IF I # {} THEN Min(I) ELSE 0) = 0 THEN NoGroup
               ELSE groups[IF I # {} THEN Min(I) ELSE 0]
  BY DEF FindGroup, SelectInSeq
<1>2. groups \in Seq(MetricGroup)
  BY CollectorAssumption DEF StreamInv
<1>3. CASE I = {}
  BY <1>1, <1>3
<1>4. CASE I # {}
  <2>1. I \in SUBSET Nat
    BY <1>2, LenProperties
  <2>2. Min(I) \in I
    <3> HIDE DEF I
    <3> QED  BY <1>4, <2>1, MinOf
  <2>3. Min(I) # 0 /\ groups[Min(I)].name = GroupName
        /\ groups[Min(I)] \in MetricGroup
    BY <1>2, <2>2, ElementOfSeq
  <2> HIDE DEF I
  <2> QED  BY <1>1, <1>4, <2>3
<1> QED  BY <1>3, <1>4

\* A metric with a position past the first is there.
LEMMA MetricFound ==
  ASSUME group \in MetricGroup \union {NoGroup}, NEW name, GetMetricId(name) > 0
  PROVE  \E i \in 2 .. Len(group.metrics) : group.metrics[i] = name
<1> DEFINE I == {i \in 1 .. Len(group.metrics) : group.metrics[i] = name}
<1>1. GetMetricId(name) = (IF I # {} THEN Min(I) ELSE 0) - 1
  BY DEF GetMetricId, SelectInSeq
<1>2. group.metrics \in Seq(STRING)
  <2>1. CASE group \in MetricGroup
    BY <2>1 DEF MetricGroup
  <2>2. CASE group = NoGroup
    <3>1. group.metrics = <<>>  BY <2>2 DEF NoGroup
    <3> QED  BY <3>1, EmptySeq
  <2> QED  BY <2>1, <2>2
<1>3. Len(group.metrics) \in Nat
  BY <1>2, LenProperties
<1>4. I # {}
  <2> HIDE DEF I
  <2> QED  BY <1>1
<1>5. Min(I) \in I
  <2>1. I \in SUBSET Nat  BY <1>3
  <2> HIDE DEF I
  <2> QED  BY <1>4, <2>1, MinOf
<1>6. Min(I) - 1 > 0 /\ Min(I) \in Nat
  <2>1. Min(I) \in Nat  BY <1>3, <1>5
  <2> HIDE DEF I
  <2> QED  BY <1>1, <1>4, <2>1
<1>7. Min(I) \in 2 .. Len(group.metrics) /\ group.metrics[Min(I)] = name
  BY <1>3, <1>5, <1>6
<1> QED  BY <1>7

\* The steps of the main thread before it has started the collector.
LEMMA StreamSetUpStep ==
  ASSUME ControlInv, StreamInv,
         FindGroup \/ CreateContext \/ StartCollector \/ SetUpThrows
  PROVE  StreamInv'
<1>1. /\ collector = "off" /\ main \in BeforeStart /\ groups' = groups
  BY DEF ControlInv, BeforeStart, Calling, Leaving, FindGroup, CreateContext,
     StartCollector, SetUpThrows, SettingUp, Goto
<1>2. CASE FindGroup
  <2>1. main = "creating" /\ main' = "context" /\ UNCHANGED <<opened, collector>>
    BY <1>2 DEF FindGroup, SettingUp, Goto
  <2> QED
    BY <1>1, <1>2, <2>1, GroupFound DEF StreamInv, OpenedInv, Looping
<1>3. CASE CreateContext
  <2>1. /\ main = "context" /\ UNCHANGED <<group, collector>>
        /\ main' = IF group = NoGroup THEN "thrown" ELSE "indexing"
        /\ opened' = {"context"}
    BY <1>3 DEF CreateContext, SettingUp, Goto
  <2> QED  BY <1>1, <2>1 DEF StreamInv, OpenedInv, Looping
<1>4. CASE StartCollector
  <2>1. /\ main = "indexing" /\ main' = "starting" /\ collector' = "activate"
        /\ UNCHANGED <<group, opened>>
        /\ \A name \in Required : GetMetricId(name) > 0
    BY <1>4 DEF StartCollector, SettingUp, Goto
  <2>2. HasMetrics(group)
    BY <2>1, MetricFound DEF StreamInv, HasMetrics
  <2>3. HasMetrics(group')
    BY <2>1, <2>2 DEF HasMetrics
  <2> QED  BY <1>1, <2>1, <2>3 DEF StreamInv, OpenedInv, Looping
<1>5. CASE SetUpThrows
  <2>1. /\ main \in {"creating", "context", "indexing"} /\ main' = "thrown"
        /\ UNCHANGED <<group, opened, collector>>
    BY <1>5 DEF SetUpThrows, SettingUp, Goto
  <2> QED  BY <1>1, <2>1 DEF StreamInv, OpenedInv, Looping
<1> QED  BY <1>2, <1>3, <1>4, <1>5

LEMMA StreamStep ==
  ASSUME ControlInv, StreamInv, [Next]_vars
  PROVE  StreamInv'
<1> DEFINE Kept == UNCHANGED <<groups, group>>
<1>1. CASE FindGroup \/ CreateContext \/ StartCollector \/ SetUpThrows
  BY <1>1, StreamSetUpStep
<1>2. CASE OpenNext
  <2>1. Kept /\ main' = main
    BY <1>2 DEF OpenNext, Opens, CollectorUnchanged, mainVars
  <2>2. main = "starting" /\ main' = main
    BY <1>2, <2>1 DEF OpenNext, Opens, ControlInv, Opening, Looping, Closing
  <2>3. OpenedInv'
    BY <1>2, <2>2 DEF StreamInv, OpenedInv, Looping, OpenNext, Opens, Resources
  <2>4. collector # "off"
    BY <1>2 DEF OpenNext, Opens
  <2> QED  BY <2>1, <2>2, <2>3, <2>4 DEF StreamInv, HasMetrics
<1>3. CASE CloseNext
  <2>1. Kept /\ main' = main
    BY <1>3 DEF CloseNext, Closes, CollectorUnchanged, mainVars
  <2>2. main = "join"
    BY <1>3 DEF CloseNext, Closes, ControlInv, Opening, Looping, Closing,
       Leaving, StreamInv
  <2>3. OpenedInv'
    BY <1>3, <2>1, <2>2
    DEF StreamInv, OpenedInv, Looping, CloseNext, Closes, Resources
  <2>4. collector # "off"
    BY <1>3 DEF CloseNext, Closes
  <2> QED  BY <2>1, <2>2, <2>3, <2>4 DEF StreamInv, HasMetrics
<1>4. CASE CollectorThrows
  <2>1. /\ Kept /\ UNCHANGED <<opened, collector>> /\ main' = "aborted"
        /\ collector \notin {"off", "ended"}
    BY <1>4 DEF CollectorThrows, setUp, collectorVars
  <2> QED  BY <2>1 DEF StreamInv, OpenedInv, HasMetrics, Looping
<1>5. CASE TestState \/ ReadData \/ ReadFails \/ AppendCalculatedMetrics
           \/ CalculationFails
  <2>1. /\ Kept /\ UNCHANGED <<opened, main>> /\ collector \in Looping
        /\ collector' \in Looping \union {"close"}
    BY <1>5 DEF TestState, ReadData, ReadFails, AppendCalculatedMetrics,
       CalculationFails, CollectorUnchanged, mainVars, setUp, Looping
  <2> QED  BY <2>1 DEF StreamInv, OpenedInv, HasMetrics, Looping
<1>6. CASE \/ \E inst \in Amounts : Execute(inst)
           \/ UNCHANGED vars
  BY <1>6 DEF StreamInv, OpenedInv, HasMetrics, Execute, vars, setUp, mainVars,
     collectorVars
<1>7. CASE Enabled \/ BeginGet \/ AddOne \/ SumEnds \/ ClearAndReturn
           \/ BeginReset \/ EndReset \/ Disable
  <2>1. /\ Kept /\ UNCHANGED <<opened, collector>>
        /\ main' \in Calling \union {"join"} /\ main \in Calling \union {"starting"}
    BY <1>7 DEF Enabled, BeginGet, AddOne, SumEnds, ClearAndReturn, BeginReset,
       EndReset, Disable, Goto, MainUnchanged, setUp, Calling
  <2> QED  BY <2>1 DEF StreamInv, OpenedInv, HasMetrics, Calling
<1>8. CASE Join
  <2>1. /\ Kept /\ UNCHANGED <<opened, collector>>
        /\ main = "join" /\ main' = "destroy" /\ collector = "ended"
    BY <1>8 DEF Join, Goto, MainUnchanged, setUp
  <2> QED  BY <2>1 DEF StreamInv, OpenedInv, HasMetrics
<1>9. CASE DestroyContext
  <2>1. /\ Kept /\ UNCHANGED collector /\ opened' \subseteq opened
        /\ main = "destroy" /\ main' = "ended"
    BY <1>9 DEF DestroyContext, Goto, collectorVars
  <2> QED  BY <2>1 DEF StreamInv, OpenedInv, HasMetrics, Looping
<1> QED
  BY <1>1, <1>2, <1>3, <1>4, <1>5, <1>6, <1>7, <1>8, <1>9
  DEF Next, CollectorStep, MainStep

-----------------------------------------------------------------------------
(* Theorems *)

CollectorInv == TypeInv /\ ControlInv /\ SwapInv /\ BracketInv /\ ReportInv

LEMMA CollectorInvariant == Spec => []CollectorInv
<1>1. Init => CollectorInv
  BY TypesInitially, ControlInitially, SwapInitially, BracketInitially,
     ReportsInitially DEF CollectorInv
<1>2. CollectorInv /\ [Next]_vars => CollectorInv'
  BY TypesStep, ControlStep, SwapStep, BracketStep, ReportStep DEF CollectorInv
<1> QED  BY <1>1, <1>2, PTL DEF Spec

\* The buffer the main thread walks over without the mutex is never the one
\* the collector appends to.
THEOREM CollectorBuffers == Spec => []BuffersApart
<1>1. CollectorInv => BuffersApart
  BY DEF CollectorInv, SwapInv, BuffersApart
<1> QED  BY <1>1, CollectorInvariant, PTL

\* The counter is what was added up since the last reset, less what each get
\* dropped below a million.
THEOREM CollectorCounts == Spec => []CounterBracket
<1>1. ASSUME CollectorInv PROVE CounterBracket
  <2> SUFFICES ASSUME main \in {"idle", "clear"}
               PROVE  /\ accumulated * Million <= added
                      /\ added <= accumulated * Million + gets * (Million - 1)
    BY DEF CounterBracket
  <2>1. Pending = 0 /\ GetsDone = gets
    BY DEF Pending, GetsDone, Adding
  <2> DEFINE am == accumulated * Million
             dm == gets * (Million - 1)
  <2>2. am \in Nat /\ dm \in Int /\ added \in Nat
    BY <1>1, CollectorAssumption DEF CollectorInv, TypeInv
  <2>3. am + 0 <= added /\ added <= am + 0 + dm
    BY <1>1, <2>1 DEF CollectorInv, BracketInv
  <2> HIDE DEF am, dm
  <2>4. am <= added /\ added <= am + dm
    BY <2>2, <2>3
  <2> QED  BY <2>4 DEF am, dm
<1> QED  BY <1>1, CollectorInvariant, PTL

\* No report is added up twice, and none is cleared that was to be added up.
THEOREM CollectorCountsOnce == Spec => CountedOnce
<1>1. ASSUME CollectorInv, [Next]_vars, main = "sum", index' = index + 1
      PROVE  buffers[held][index'].ids \intersect counted = {}
  BY <1>1, OnlyAddOne, ReportsAdded DEF CollectorInv
<1>2. ASSUME CollectorInv, main = "return"
      PROVE  Ids(buffers[held]) \subseteq counted
  <2>1. held \in {1, 2} /\ index = Len(buffers[held]) /\ ReportInv /\ Adding
    BY <1>2 DEF CollectorInv, TypeInv, SwapInv, Adding
  <2>2. ASSUME NEW i \in 1 .. Len(buffers[held]), NEW x \in buffers[held][i].ids
        PROVE  x \in counted
    <3>1. AddedUp(held, i)
      BY <2>1 DEF AddedUp
    <3> QED  BY <2>1, <3>1, ReportsOf
  <2> QED  BY <2>2 DEF Ids
<1>3. CollectorInv /\ [Next]_vars =>
        [/\ main = "sum" /\ index' = index + 1 =>
               buffers[held][index'].ids \intersect counted = {}
         /\ main = "return" => Ids(buffers[held]) \subseteq counted]_vars
  BY <1>1, <1>2
<1> QED  BY <1>3, CollectorInvariant, PTL DEF Spec, CountedOnce

\* Whatever groups the device has and whichever call fails: nothing is open
\* that hangs on something closed, and the loop reads an open stream of a group
\* that has every metric past its first position.
THEOREM CollectorStream == Spec => []StreamIsOpen
<1>1. Init => StreamInv
  BY DEF Init, StreamInv, OpenedInv, Looping
<1>2. CollectorInv /\ StreamInv /\ [Next]_vars => StreamInv'
  BY StreamStep DEF CollectorInv
<1>3. CollectorInv /\ StreamInv => StreamIsOpen
  <2> SUFFICES ASSUME ControlInv, StreamInv PROVE StreamIsOpen
    BY DEF CollectorInv
  <2>1. \A r \in opened : Parents(r) \subseteq opened
    BY DEF StreamInv, OpenedInv, ControlInv, BeforeStart, Opening, Looping,
       Closing, Calling, Leaving, Resources, Parents
  <2>2. state = "ENABLED" => "stream" \in opened
    BY DEF StreamInv, OpenedInv, ControlInv, Looping, Resources
  <2>3. collector \in Looping => "stream" \in opened /\ HasMetrics(group)
    BY DEF StreamInv, OpenedInv, Looping, Resources
  <2>4. main = "destroy" => opened = {"context"}
    BY DEF StreamInv, OpenedInv
  <2> QED  BY <2>1, <2>2, <2>3, <2>4 DEF StreamIsOpen, HasMetrics, Looping
<1> QED  BY <1>1, <1>2, <1>3, CollectorInvariant, PTL DEF Spec

=============================================================================
