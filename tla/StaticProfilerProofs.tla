------------------------ MODULE StaticProfilerProofs ------------------------
(***************************************************************************)
(* For every range of limits, every list of caps and every end of every    *)
(* run of the application: the averages StEP reports come from runs under  *)
(* the limit they are reported for, and no cap outlives a profile that     *)
(* came to its end.                                                        *)
(***************************************************************************)
EXTENDS StaticProfiler, SequenceTheorems, WellFoundedInduction, TLAPS

Phases == {"warmup", "reference", "caps"}

PcTypes == {"main", "eco", "run", "measured", "list", "nextCap", "select",
            "return", "ended", "terminated", "runaway"}

\* Limits a device may have.
Powers == Int \union {Default}

\* What the runs of a result were made for and under.
Made == [phase : Phases, limit : Powers]

Sums == [powercap : Powers \union {0}, energy : Nat, time : Nat, runs : Nat,
         under : SUBSET Made]

ProfilerTypeOK ==
  /\ pc \in PcTypes /\ phase \in Phases /\ refused \in SUBSET {"cap", "default"}
  /\ range \in Ranges /\ limit \in Powers
  /\ caps \in Seq(Int) /\ candidate \in Int
  /\ sum \in Sums /\ results \in Seq(Sums)

\* The limit the device has is the default outside the list of caps and the
\* cap measured within it; a sum holds runs of one purpose under one limit.
ProfilerInv ==
  /\ ProfilerTypeOK
  /\ CapOutlivesOnlyFailure
  /\ phase # "caps" => results = <<>> /\ limit = Default
  /\ phase = "caps" => Len(results) > 0
  /\ pc \in {"main", "eco"} => sum = NoResult /\ phase = "warmup"
  /\ pc \in {"list", "nextCap", "select", "return"} => phase = "caps"
  /\ pc = "run" =>
       /\ sum.runs < NumIterations
       /\ sum.under = IF sum.runs = 0 THEN {}
                      ELSE {[phase |-> phase, limit |-> limit]}
  /\ pc = "measured" /\ phase # "warmup" =>
       /\ sum.runs = NumIterations
       /\ sum.under = {[phase |-> phase, limit |-> limit]}
  /\ pc \in {"run", "measured"} /\ phase = "caps" =>
       /\ Len(results) <= Len(caps)
       /\ "cap" \notin refused => limit = Current
  /\ ResultsUnderTheirCap

LEMMA NoResultType == NoResult \in Sums
BY DEF NoResult, Sums

LEMMA StepInteger ==
  ASSUME range \in Ranges PROVE Step \in Int
<1>1. range.high \in Nat /\ range.low \in Nat /\ PercentStep \in Nat
  BY ProfilerAssumption
<1>2. (range.high - range.low) \div 100 \in Int
  BY <1>1
<1> QED  BY <1>1, <1>2 DEF Step

\* A run adds its measures to the sum, and where it was made.
LEMMA RunStep ==
  ASSUME ProfilerInv, NEW m \in Measures \union Partial, RunCounts(m)
  PROVE  ProfilerInv'
<1>1. /\ pc = "run" /\ sum' = AddRun(sum, RunResult(m))
      /\ UNCHANGED <<range, limit, caps, candidate, phase, results, refused>>
  BY DEF RunCounts, device, lists
<1>2. m.energy \in Nat /\ m.time \in Nat
  BY ProfilerAssumption
<1>3. sum \in Sums /\ phase \in Phases /\ limit \in Powers
  BY DEF ProfilerInv, ProfilerTypeOK
<1> DEFINE made == [phase |-> phase, limit |-> limit]
<1>4. /\ sum' \in Sums /\ sum'.runs = sum.runs + 1
      /\ sum'.under = sum.under \union {made}
  <2>1. made \in Made  BY <1>3 DEF Made
  <2>2. sum' = [sum EXCEPT !.energy = sum.energy + m.energy,
                           !.time = sum.time + m.time, !.runs = sum.runs + 1,
                           !.under = sum.under \union {made}]
    BY <1>1, Zenon DEF AddRun, RunResult
  <2>3. /\ sum.energy + m.energy \in Nat /\ sum.time + m.time \in Nat
        /\ sum.runs + 1 \in Nat /\ sum.under \union {made} \in SUBSET Made
    BY <1>2, <1>3, <2>1 DEF Sums
  <2> HIDE DEF made
  <2> QED  BY <1>3, <2>2, <2>3 DEF Sums
<1>5. /\ sum.runs \in Nat /\ sum.runs < NumIterations
      /\ sum'.under = {made}
  BY <1>1, <1>3, <1>4 DEF ProfilerInv, Sums
<1>6. pc' = IF RunsComplete(sum') THEN "measured" ELSE "run"
  BY DEF RunCounts
<1>7. CASE RunsComplete(sum')
  <2>1. pc' = "measured" /\ (phase # "warmup" => sum'.runs = NumIterations)
    BY <1>6, <1>7 DEF RunsComplete
  <2> QED
    BY <1>1, <1>4, <1>5, <2>1
    DEF ProfilerInv, ProfilerTypeOK, PcTypes, Current, CapOutlivesOnlyFailure,
        ResultsUnderTheirCap
<1>8. CASE ~RunsComplete(sum')
  <2>1. pc' = "run" /\ sum'.runs < NumIterations /\ sum'.runs # 0
    BY <1>4, <1>5, <1>6, <1>8, ProfilerAssumption DEF RunsComplete
  <2> QED
    BY <1>1, <1>4, <1>5, <2>1
    DEF ProfilerInv, ProfilerTypeOK, PcTypes, Current, CapOutlivesOnlyFailure,
        ResultsUnderTheirCap
<1> QED  BY <1>7, <1>8

\* The reference is the first result, under the default.
LEMMA ReferenceStep == ProfilerInv /\ ReferenceDone => ProfilerInv'
<1> SUFFICES ASSUME ProfilerInv, ReferenceDone PROVE ProfilerInv'
  OBVIOUS
<1> DEFINE reference == [sum EXCEPT !.powercap = limit]
<1>1. /\ pc = "measured" /\ phase = "reference" /\ pc' = "list" /\ phase' = "caps"
      /\ results' = <<reference>> /\ candidate' = range.high
      /\ UNCHANGED <<range, limit, caps, sum, refused>>
  BY DEF ReferenceDone, device
<1>2. limit = Default /\ limit \in Powers /\ sum \in Sums /\ range \in Ranges
  BY <1>1 DEF ProfilerInv, ProfilerTypeOK
<1>3. /\ reference \in Sums /\ reference.powercap = limit
      /\ reference.runs = sum.runs /\ reference.under = sum.under
  BY <1>2 DEF Sums
<1>4. range.high \in Int  BY <1>2, ProfilerAssumption
<1>5. results' \in Seq(Sums) /\ Len(results') = 1 /\ results'[1] = reference
  BY <1>1, <1>3
<1>6. ResultsUnderTheirCap'
  <2>1. /\ reference.runs = NumIterations /\ reference.powercap = Default
        /\ reference.under = {[phase |-> "reference", limit |-> Default]}
    BY <1>1, <1>2, <1>3 DEF ProfilerInv
  <2>2. DOMAIN results' = {1}  BY <1>5
  <2> HIDE DEF reference
  <2> QED  BY <1>1, <1>5, <2>1, <2>2 DEF ResultsUnderTheirCap
<1> QED
  BY <1>1, <1>2, <1>4, <1>5, <1>6
  DEF ProfilerInv, ProfilerTypeOK, PcTypes, Phases, CapOutlivesOnlyFailure

\* Programming the next cap; a device that refuses it is remembered.
LEMMA SetCapStep ==
  ASSUME ProfilerInv, NEW accepted \in BOOLEAN, SetCap(accepted)
  PROVE  ProfilerInv'
<1>1. /\ pc = "nextCap" /\ pc' = "run" /\ sum' = NoResult
      /\ Len(results) <= Len(caps) /\ phase = "caps"
      /\ limit' = IF accepted THEN Current ELSE limit
      /\ refused' = IF accepted THEN refused ELSE refused \union {"cap"}
      /\ UNCHANGED <<range, caps, candidate, phase, results>>
  BY DEF SetCap, lists, ProfilerInv
<1>2. Current \in Int
  BY <1>1 DEF Current, ProfilerInv, ProfilerTypeOK
<1>3. /\ refused' \in SUBSET {"cap", "default"}
      /\ "cap" \notin refused' => "cap" \notin refused /\ accepted
  BY <1>1 DEF ProfilerInv, ProfilerTypeOK
<1>4. limit' \in Powers /\ ("cap" \notin refused' => limit' = Current')
  BY <1>1, <1>2, <1>3 DEF Current, Powers, ProfilerInv, ProfilerTypeOK
<1>5. sum'.runs = 0 /\ sum'.under = {} /\ NumIterations > 0
  BY <1>1, ProfilerAssumption DEF NoResult
<1>6. ResultsUnderTheirCap'
  BY <1>1, <1>3 DEF ProfilerInv, ResultsUnderTheirCap
<1> QED
  BY <1>1, <1>3, <1>4, <1>5, <1>6, NoResultType
  DEF ProfilerInv, ProfilerTypeOK, PcTypes, CapOutlivesOnlyFailure

\* The average under a cap is appended to the results.
LEMMA CapDoneStep == ProfilerInv /\ CapDone => ProfilerInv'
<1> SUFFICES ASSUME ProfilerInv, CapDone PROVE ProfilerInv'
  OBVIOUS
<1> DEFINE average == [sum EXCEPT !.powercap = Current]
<1>1. /\ pc = "measured" /\ phase = "caps" /\ pc' \in {"select", "nextCap"}
      /\ results' = Append(results, average)
      /\ UNCHANGED <<range, limit, caps, candidate, phase, sum, refused>>
  BY DEF CapDone, device, lists
<1>2. /\ results \in Seq(Sums) /\ sum \in Sums /\ caps \in Seq(Int)
      /\ Len(results) \in 1..Len(caps) /\ Len(results) \in Nat
  BY <1>1 DEF ProfilerInv, ProfilerTypeOK
<1>3. Current \in Int  BY <1>2 DEF Current
<1>4. /\ average \in Sums /\ average.powercap = Current
      /\ average.runs = NumIterations
      /\ average.under = {[phase |-> "caps", limit |-> limit]}
  BY <1>1, <1>2, <1>3 DEF Sums, Powers, ProfilerInv
<1>5. /\ results' \in Seq(Sums) /\ Len(results') = Len(results) + 1
      /\ \A i \in 1..Len(results) : results'[i] = results[i]
      /\ results'[Len(results) + 1] = average
  BY <1>1, <1>2, <1>4, AppendProperties
<1>6. ResultsUnderTheirCap'
  <2> SUFFICES ASSUME NEW i \in 1..(Len(results) + 1)
               PROVE  /\ results'[i].runs = NumIterations
                      /\ "cap" \notin refused =>
                           results'[i].under =
                             {[phase |-> IF i = 1 THEN "reference" ELSE "caps",
                               limit |-> results'[i].powercap]}
                      /\ i = 1 => results'[i].powercap = Default
    BY <1>1, <1>2, <1>5 DEF ResultsUnderTheirCap
  <2>1. CASE i \in 1..Len(results)
    <3>1. /\ results[i].runs = NumIterations
          /\ "cap" \notin refused =>
               results[i].under =
                 {[phase |-> IF i = 1 THEN "reference" ELSE "caps",
                   limit |-> results[i].powercap]}
          /\ i = 1 => results[i].powercap = Default
      <4>1. i \in DOMAIN results  BY <1>2, <2>1
      <4> QED  BY <4>1 DEF ProfilerInv, ResultsUnderTheirCap
    <3>2. results'[i] = results[i]
      BY <1>5, <2>1
    <3> HIDE DEF average
    <3> QED  BY <3>1, <3>2
  <2>2. CASE i = Len(results) + 1
    <3>1. i # 1 /\ ("cap" \notin refused => limit = Current)
      BY <1>1, <1>2, <2>2 DEF ProfilerInv
    <3> QED  BY <1>4, <1>5, <2>2, <3>1
  <2> QED  BY <1>2, <2>1, <2>2
<1> QED
  BY <1>1, <1>2, <1>5, <1>6
  DEF ProfilerInv, ProfilerTypeOK, PcTypes, CapOutlivesOnlyFailure

\* ProfilerInv is inductive.
LEMMA ProfilerInvariant == Spec => []ProfilerInv
<1>1. Init => ProfilerInv
  <2> SUFFICES ASSUME Init PROVE ProfilerInv
    OBVIOUS
  <2>1. range.high \in Int  BY ProfilerAssumption DEF Init
  <2>2. ProfilerTypeOK
    <3>1. refused \in SUBSET {"cap", "default"}  BY DEF Init
    <3>2. caps \in Seq(Int) /\ results \in Seq(Sums)  BY DEF Init
    <3> QED
      BY <2>1, <3>1, <3>2, NoResultType
      DEF Init, ProfilerTypeOK, PcTypes, Phases, Powers
  <2>3. ResultsUnderTheirCap /\ CapOutlivesOnlyFailure
    BY DEF Init, ResultsUnderTheirCap, CapOutlivesOnlyFailure
  <2> QED  BY <2>2, <2>3 DEF Init, ProfilerInv
<1>2. ProfilerInv /\ [Next]_vars => ProfilerInv'
  <2> SUFFICES ASSUME ProfilerInv, [Next]_vars PROVE ProfilerInv'
    OBVIOUS
  <2> USE DEF ProfilerInv, ProfilerTypeOK, PcTypes, Phases, device, lists,
              Current, CapOutlivesOnlyFailure, ResultsUnderTheirCap
  <2>1. CASE Main
    BY <2>1 DEF Main
  <2>2. CASE ConstructEco
    <3>1. sum.runs = 0 /\ sum.under = {} /\ 0 < NumIterations
      BY <2>2, ProfilerAssumption DEF ConstructEco, NoResult
    <3> QED  BY <2>2, <3>1 DEF ConstructEco
  <2>3. CASE RunTerminates \/ Kill
    BY <2>3 DEF RunTerminates, Kill
  <2>4. CASE WarmupDone
    BY <2>4, ProfilerAssumption, NoResultType DEF WarmupDone, NoResult
  <2>5. CASE AppendCap
    <3>1. Step \in Int  BY StepInteger
    <3>2. caps' \in Seq(Int) /\ candidate' \in Int
      BY <2>5, <3>1 DEF AppendCap
    <3> QED  BY <2>5, <3>2 DEF AppendCap
  <2>6. CASE ListDone
    BY <2>6 DEF ListDone
  <2>7. CASE CapsDone
    BY <2>7 DEF CapsDone
  <2>8. CASE Select
    BY <2>8 DEF Select
  <2>9. CASE DestroyEco
    BY <2>9 DEF DestroyEco, Powers
  <2>10. CASE UNCHANGED vars
    BY <2>10 DEF vars
  <2> QED
    BY <2>1, <2>2, <2>3, <2>4, <2>5, <2>6, <2>7, <2>8, <2>9, <2>10,
       RunStep, ReferenceStep, SetCapStep, CapDoneStep
    DEF Next, Profile
<1> QED  BY <1>1, <1>2, PTL DEF Spec

\* Unless the device refuses a cap, each average is one of NumIterations runs
\* under the limit it is reported for; the warm-up is in none.
THEOREM ProfilerResults == Spec => []ResultsUnderTheirCap
<1>1. ProfilerInv => ResultsUnderTheirCap  BY DEF ProfilerInv
<1> QED  BY <1>1, ProfilerInvariant, PTL

\* A profile that comes to its end leaves the limit the device had before, unless
\* the device refused that limit; only a failure or a kill leaves a cap otherwise.
THEOREM ProfilerRestores == Spec => []CapOutlivesOnlyFailure
<1>1. ProfilerInv => CapOutlivesOnlyFailure  BY DEF ProfilerInv
<1> QED  BY <1>1, ProfilerInvariant, PTL

-----------------------------------------------------------------------------
(* What the application is called with *)

\* argv as typed until main has looked for the device flag, without it after.
ArgsInv ==
  /\ typed \in CommandLines
  /\ pc = "main" => argv = typed
  /\ pc \notin {"main", "terminated"} => argv = RemoveDeviceFlag(typed)

\* Shifting the arguments is taking the first away and the last twice.
LEMMA FlagRemoved ==
  ASSUME NEW args \in CommandLines
  PROVE  RemoveDeviceFlag(args) =
           IF Head(args) = DeviceFlag THEN Append(Tail(args), Last(args)) ELSE args
<1> DEFINE S == ToSet(args)
           e(i) == IF i < Len(args) THEN args[i + 1] ELSE args[i]
           t == Tail(args)
<1>1. args \in Seq(S) /\ args # <<>>
  BY ProfilerAssumption
<1> HIDE DEF S
<1>2. Len(args) \in Nat \ {0} /\ DOMAIN args = 1 .. Len(args)
  BY <1>1, EmptySeq, LenProperties
<1>3. /\ t \in Seq(S) /\ Len(t) = Len(args) - 1
      /\ \A i \in 1 .. Len(t) : t[i] = args[i + 1]
  BY <1>1, HeadTailProperties
<1>4. Last(args) = args[Len(args)] /\ Last(args) \in S
  BY <1>1, <1>2, ElementOfSeq DEF Last
<1> HIDE DEF t
<1> DEFINE u == Append(t, Last(args))
<1>5. /\ u \in Seq(S) /\ Len(u) = Len(t) + 1
      /\ \A i \in 1 .. Len(t) : u[i] = t[i]
      /\ u[Len(t) + 1] = Last(args)
  BY <1>3, <1>4, AppendProperties
<1> HIDE DEF u
<1>6. /\ DOMAIN u = 1 .. Len(args)
      /\ \A i \in 1 .. Len(args) : u[i] = e(i)
  <2>1. Len(u) = Len(args)  BY <1>2, <1>3, <1>5
  <2>2. DOMAIN u = 1 .. Len(args)  BY <1>5, <2>1, LenProperties
  <2> SUFFICES ASSUME NEW i \in 1 .. Len(args) PROVE u[i] = e(i)
    BY <2>2
  <2>3. CASE i < Len(args)
    <3>1. i \in 1 .. Len(t)  BY <1>2, <1>3, <2>3
    <3> QED  BY <1>3, <1>5, <2>3, <3>1
  <2>4. CASE i = Len(args)
    <3>1. Len(t) + 1 = i  BY <1>2, <1>3, <2>4
    <3>2. u[i] = args[i]  BY <1>4, <1>5, <2>4, <3>1
    <3>3. e(i) = args[i]  BY <1>2, <2>4
    <3> QED  BY <3>2, <3>3
  <2>5. i < Len(args) \/ i = Len(args)
    <3>1. \A n \in Nat : \A k \in 1 .. n : k < n \/ k = n
      OBVIOUS
    <3> QED  BY <1>2, <3>1, Zenon
  <2> QED  BY <2>3, <2>4, <2>5, Zenon
<1>7. u = [i \in 1 .. Len(args) |-> e(i)]
  <2> HIDE DEF e
  <2>1. u = [i \in DOMAIN u |-> u[i]]  BY <1>5
  <2> QED  BY <1>6, <2>1
<1> QED  BY <1>2, <1>7 DEF RemoveDeviceFlag, t, u

\* The application gets every argument that was typed for it, in order, and the
\* last one twice when StEP has taken a device flag away, on every command line.
THEOREM ProfilerArguments == Spec => []AppArgumentsKept
<1>1. Init => ArgsInv
  BY DEF Init, ArgsInv
<1>2. ArgsInv /\ [Next]_vars => ArgsInv'
  <2> SUFFICES ASSUME ArgsInv, [Next]_vars PROVE ArgsInv'
    OBVIOUS
  <2> USE DEF ArgsInv, device, lists
  <2>1. CASE Main
    BY <2>1 DEF Main
  <2>2. CASE ConstructEco \/ RunTerminates \/ WarmupDone \/ ReferenceDone
    BY <2>2 DEF ConstructEco, RunTerminates, WarmupDone, ReferenceDone
  <2>3. CASE \E m \in Measures \union Partial : RunCounts(m)
    BY <2>3 DEF RunCounts
  <2>4. CASE AppendCap \/ ListDone \/ \E accepted \in BOOLEAN : SetCap(accepted)
    BY <2>4 DEF AppendCap, ListDone, SetCap
  <2>5. CASE CapDone \/ CapsDone \/ Select \/ DestroyEco \/ Kill
    BY <2>5 DEF CapDone, CapsDone, Select, DestroyEco, Kill
  <2>6. CASE UNCHANGED vars
    BY <2>6 DEF vars
  <2> QED  BY <2>1, <2>2, <2>3, <2>4, <2>5, <2>6 DEF Next, Profile
<1>3. ArgsInv => AppArgumentsKept
  BY FlagRemoved DEF ArgsInv, AppArgumentsKept
<1> QED  BY <1>1, <1>2, <1>3, PTL DEF Spec

-----------------------------------------------------------------------------
(* The list of caps *)

\* The bound on the length of the list leaves room for every list that ends:
\* a step is at least half of PercentStep percent of the range, because the
\* hundredth part of the range is rounded down from less than twice as much.
Roomy == MaxCaps * PercentStep >= 200

\* The caps go down from the highest limit step by step, and the candidate is
\* the step after the last one.
CapsInv ==
  /\ range \in Ranges
  /\ phase # "caps" => caps = <<>>
  /\ pc \in {"list", "nextCap", "select", "return", "runaway"} => phase = "caps"
  /\ pc \in {"main", "eco"} => phase # "caps"
  /\ caps \in Seq(Int) /\ candidate \in Int
  /\ phase = "caps" /\ Step > 0 /\ range.low >= Step =>
       /\ candidate = range.high - Len(caps) * Step
       /\ candidate >= range.low - Step
       /\ \A i \in DOMAIN caps : caps[i] \in range.low .. range.high
       /\ IF caps = <<>> THEN candidate = range.high
          ELSE caps[1] = range.high /\ caps[Len(caps)] - Step = candidate
       /\ pc \notin {"list", "terminated"} => candidate < range.low
       /\ pc # "runaway"

\* Two hundred hundredths of the range are more than the range.
LEMMA ListFits ==
  ASSUME Roomy, range \in Ranges, Step > 0
  PROVE  range.high - MaxCaps * Step < range.low
<1>1. /\ range.high \in Nat /\ range.low \in Nat /\ range.low <= range.high
      /\ PercentStep \in 1 .. 100 /\ MaxCaps \in Nat
  BY ProfilerAssumption
<1> DEFINE d == (range.high - range.low) \div 100
<1>2. d \in Nat /\ range.high - range.low < 100 * d + 100
  BY <1>1
<1> HIDE DEF d
<1>3. Step = d * PercentStep  BY DEF Step, d
<1>4. d > 0  BY <1>1, <1>2, <1>3
<1>5. MaxCaps * Step = (MaxCaps * PercentStep) * d
  BY <1>1, <1>2, <1>3
<1>6. MaxCaps * PercentStep \in Nat /\ MaxCaps * PercentStep >= 200
  BY <1>1 DEF Roomy
<1>7. \A a, b \in Nat : a >= 200 => a * b >= 200 * b
  OBVIOUS
<1>8. (MaxCaps * PercentStep) * d >= 200 * d
  BY <1>2, <1>6, <1>7
<1>9. MaxCaps * Step \in Int  BY <1>2, <1>5, <1>6
<1> QED  BY <1>1, <1>2, <1>4, <1>5, <1>8, <1>9

\* One more cap in the list.
LEMMA AppendCapStep ==
  ASSUME CapsInv, AppendCap
  PROVE  CapsInv'
<1>1. /\ pc = "list" /\ pc' = pc /\ InLoop /\ phase = "caps"
      /\ caps' = Append(caps, candidate) /\ candidate' = candidate - Step
      /\ UNCHANGED <<range, phase>>
  BY DEF AppendCap, device, CapsInv
<1>2. /\ range \in Ranges /\ Step \in Int /\ candidate \in Int /\ caps \in Seq(Int)
      /\ range.low \in Nat /\ range.high \in Nat /\ range.low <= range.high
  BY StepInteger, ProfilerAssumption DEF CapsInv
<1>3. /\ caps' \in Seq(Int) /\ caps' # <<>> /\ Len(caps') = Len(caps) + 1
      /\ \A i \in 1 .. Len(caps) : caps'[i] = caps[i]
      /\ caps'[Len(caps) + 1] = candidate /\ Len(caps) \in Nat
      /\ DOMAIN caps' = 1 .. Len(caps) + 1 /\ DOMAIN caps = 1 .. Len(caps)
  BY <1>1, <1>2, AppendProperties, LenProperties
<1>4. Step' = Step /\ candidate' \in Int
  BY <1>1, <1>2 DEF Step
<1> SUFFICES ASSUME Step > 0, range.low >= Step
             PROVE  /\ candidate' = range.high - Len(caps') * Step
                    /\ candidate' >= range.low - Step
                    /\ \A i \in DOMAIN caps' :
                         caps'[i] \in range.low .. range.high
                    /\ caps'[1] = range.high
                    /\ caps'[Len(caps')] - Step = candidate'
  BY <1>1, <1>2, <1>3, <1>4 DEF CapsInv
<1>5. /\ candidate = range.high - Len(caps) * Step
      /\ candidate >= range.low - Step
      /\ \A i \in DOMAIN caps : caps[i] \in range.low .. range.high
      /\ IF caps = <<>> THEN candidate = range.high
         ELSE caps[1] = range.high /\ caps[Len(caps)] - Step = candidate
  BY <1>1 DEF CapsInv
<1>6. candidate >= range.low
  BY <1>1, <1>2, <1>5 DEF InLoop
<1>7. \A n, s \in Int : (n + 1) * s = n * s + s /\ n * s \in Int
  OBVIOUS
<1>8. (Len(caps) + 1) * Step = Len(caps) * Step + Step /\ Len(caps) * Step \in Int
  BY <1>2, <1>3, <1>7
<1>9. /\ candidate' = range.high - Len(caps') * Step
      /\ candidate' >= range.low - Step
  BY <1>1, <1>2, <1>3, <1>5, <1>6, <1>8, SMTT(30)
<1>10. candidate <= range.high
  <2>1. \A n \in Nat, s \in Int : s > 0 => n * s >= 0
    OBVIOUS
  <2>2. Len(caps) * Step >= 0  BY <1>2, <1>3, <2>1
  <2> QED  BY <1>2, <1>5, <1>8, <2>2
<1>11. caps'[1] = range.high
  <2>1. CASE caps = <<>>
    BY <1>3, <1>5, <2>1
  <2>2. CASE caps # <<>>
    <3>1. 1 \in 1 .. Len(caps)  BY <1>2, <2>2, EmptySeq
    <3> QED  BY <1>3, <1>5, <2>2, <3>1
  <2> QED  BY <2>1, <2>2
<1>12. \A i \in DOMAIN caps' : caps'[i] \in range.low .. range.high
  <2> SUFFICES ASSUME NEW i \in 1 .. Len(caps) + 1
               PROVE  caps'[i] \in range.low .. range.high
    BY <1>3
  <2>1. CASE i \in 1 .. Len(caps)
    BY <1>3, <1>5, <2>1
  <2>2. CASE i = Len(caps) + 1
    BY <1>2, <1>3, <1>6, <1>10, <2>2
  <2> QED  BY <1>3, <2>1, <2>2
<1> QED  BY <1>1, <1>3, <1>9, <1>11, <1>12

\* The loop ends below the lowest limit, and before the bound does.
LEMMA ListDoneStep ==
  ASSUME Roomy, CapsInv, ListDone
  PROVE  CapsInv'
<1>1. /\ pc = "list" /\ phase = "caps" /\ UNCHANGED <<range, caps, candidate, phase>>
      /\ pc' = IF ~InLoop THEN "nextCap" ELSE "runaway"
      /\ InLoop => Len(caps) = MaxCaps
  BY DEF ListDone, device, lists, CapsInv
<1>2. Step' = Step  BY <1>1 DEF Step
<1>3. ASSUME Step > 0, range.low >= Step
      PROVE  pc' = "nextCap" /\ candidate < range.low
  <2>1. /\ range \in Ranges /\ range.low \in Nat /\ range.high \in Nat
        /\ Step \in Int /\ candidate \in Int
    BY StepInteger, ProfilerAssumption DEF CapsInv
  <2>2. candidate = range.high - Len(caps) * Step
    BY <1>1, <1>3 DEF CapsInv
  <2>3. range.high - MaxCaps * Step < range.low
    BY <1>3, <2>1, ListFits
  <2>4. ~InLoop
    <3>1. ASSUME InLoop PROVE FALSE
      <4>1. candidate < range.low  BY <1>1, <2>2, <2>3, <3>1
      <4>2. candidate >= 0  BY <1>1, <1>3, <2>1 DEF CapsInv
      <4> QED  BY <2>1, <3>1, <4>1, <4>2 DEF InLoop
    <3> QED  BY <3>1
  <2> QED  BY <1>1, <2>1, <2>4 DEF InLoop
<1> QED  BY <1>1, <1>2, <1>3 DEF CapsInv

\* Every device whose lowest limit is not below a step: its list of caps
\* starts at the highest limit, stays in the range and ends less than a step
\* above the lowest.
THEOREM ProfilerCaps ==
  ASSUME Roomy
  PROVE  Spec => []CapsCoverRange
<1>1. Init => CapsInv
  <2> SUFFICES ASSUME Init PROVE CapsInv
    OBVIOUS
  <2>1. range.high \in Int  BY ProfilerAssumption DEF Init
  <2> QED  BY <2>1 DEF Init, CapsInv
<1>2. CapsInv /\ [Next]_vars => CapsInv'
  <2> SUFFICES ASSUME CapsInv, [Next]_vars PROVE CapsInv'
    OBVIOUS
  <2> USE DEF CapsInv, Step, device, lists
  <2>1. CASE Main \/ ConstructEco \/ RunTerminates \/ WarmupDone
    BY <2>1 DEF Main, ConstructEco, RunTerminates, WarmupDone
  <2>2. CASE ReferenceDone
    <3>1. /\ range \in Ranges /\ Step \in Int
          /\ range.low \in Nat /\ range.high \in Nat /\ range.low <= range.high
      BY StepInteger, ProfilerAssumption
    <3>2. /\ caps' = <<>> /\ candidate' = range.high /\ pc' = "list"
          /\ phase' = "caps" /\ range' = range
      BY <2>2 DEF ReferenceDone
    <3>3. Len(caps') * Step = 0
      BY <3>1, <3>2
    <3> QED  BY <3>1, <3>2, <3>3, SMTT(30)
  <2>3. CASE \E m \in Measures \union Partial : RunCounts(m)
    BY <2>3 DEF RunCounts
  <2>4. CASE \E accepted \in BOOLEAN : SetCap(accepted)
    BY <2>4 DEF SetCap
  <2>5. CASE CapDone \/ CapsDone \/ Select \/ DestroyEco \/ Kill
    BY <2>5 DEF CapDone, CapsDone, Select, DestroyEco, Kill
  <2>6. CASE UNCHANGED vars
    BY <2>6 DEF vars
  <2> QED
    BY <2>1, <2>2, <2>3, <2>4, <2>5, <2>6, AppendCapStep, ListDoneStep
    DEF Next, Profile
<1>3. CapsInv => CapsCoverRange
  <2> SUFFICES ASSUME CapsInv, pc \notin {"list", "terminated"}, phase = "caps",
                      Step > 0, range.low >= Step
               PROVE  /\ pc # "runaway" /\ Head(caps) = range.high
                      /\ \A i \in DOMAIN caps : caps[i] \in range.low .. range.high
                      /\ Last(caps) - Step < range.low
    BY DEF CapsCoverRange, RoomForStep
  <2>1. /\ range.low \in Nat /\ range.high \in Nat /\ range.low <= range.high
        /\ candidate < range.low /\ caps \in Seq(Int)
    BY ProfilerAssumption DEF CapsInv
  <2>2. caps # <<>>  BY <2>1 DEF CapsInv
  <2>3. caps[1] = range.high /\ caps[Len(caps)] - Step = candidate
    BY <2>2 DEF CapsInv
  <2> QED  BY <2>1, <2>2, <2>3 DEF CapsInv, Last
<1> QED  BY <1>1, <1>2, <1>3, PTL DEF Spec

-----------------------------------------------------------------------------
(* The results reported as best *)

\* Every run of the application uses energy and takes time. Where a run could
\* use none, energy x time would not tell its time.
Positive == \A m \in Measures \union Partial : m.energy > 0 /\ m.time > 0

\* Sums of runs are positive, and the results are complete when the choice is
\* made.
PositiveInv ==
  /\ sum.runs > 0 => sum.energy > 0 /\ sum.time > 0
  /\ \A i \in DOMAIN results : results[i].energy > 0 /\ results[i].time > 0
  /\ choice # <<>> => pc \in {"return", "ended", "terminated"} /\ phase = "caps"
  /\ ChoiceUndominated

\* A set of natural numbers has a least element.
LEMMA LeastNat ==
  ASSUME NEW T \in SUBSET Nat, T # {}
  PROVE  \E n \in T : \A m \in T : n <= m
<1> DEFINE R == OpToRel(<, Nat)
<1>1. IsWellFoundedOn(R, Nat)
  BY NatLessThanWellFounded
<1>2. \A i, j \in Nat : i < j => <<i, j>> \in R
  BY DEF OpToRel
<1> HIDE DEF R
<1>3. PICK n \in T : \A m \in T : <<m, n>> \notin R
  BY <1>1, WFMin
<1>4. \A m \in T : n <= m
  <2> SUFFICES ASSUME NEW m \in T PROVE n <= m
    OBVIOUS
  <2>1. m \in Nat /\ n \in Nat
    OBVIOUS
  <2>2. ~ (m < n)  BY <1>2, <1>3, <2>1
  <2> QED  BY <2>1, <2>2
<1> QED  BY <1>4

\* The value of a result in each of the metrics is a natural number.
LEMMA MetricNatural ==
  ASSUME results \in Seq(Sums), NEW m \in Metric, NEW i \in DOMAIN results
  PROVE  MetricOf(m, results[i]) \in Nat
<1>1. DOMAIN results = 1 .. Len(results) /\ Len(results) \in Nat
  BY LenProperties
<1>2. 1 \in DOMAIN results  BY <1>1
<1>3. results[i] \in Sums /\ results[1] \in Sums
  BY <1>1, <1>2, ElementOfSeq
<1>4. /\ results[i].energy \in Nat /\ results[i].time \in Nat
      /\ results[1].energy \in Nat /\ results[1].time \in Nat
  BY <1>3 DEF Sums
<1>5. \A a, b \in Nat : a * b \in Nat /\ a + b \in Nat
  OBVIOUS
<1>6. K - 1 \in Nat  BY ProfilerAssumption
<1>7. /\ (K - 1) * results[i].energy \in Nat
      /\ results[i].time * results[1].energy \in Nat
  BY <1>4, <1>5, <1>6
<1>8. mPlus(results[i], results[1]) \in Nat
  BY <1>4, <1>5, <1>7 DEF mPlus
<1>9. enerTimeProd(results[i]) \in Nat
  BY <1>4, <1>5 DEF enerTimeProd
<1> QED  BY <1>4, <1>8, <1>9 DEF MetricOf, Metric

\* std::min_element finds a result that no other is below.
LEMMA MinElementLeast ==
  ASSUME results \in Seq(Sums), Len(results) > 0, NEW m \in Metric
  PROVE  /\ MinElement(m) \in DOMAIN results
         /\ \A i \in DOMAIN results :
              MetricOf(m, results[MinElement(m)]) <= MetricOf(m, results[i])
<1> DEFINE value(i) == MetricOf(m, results[i])
           T == {value(i) : i \in DOMAIN results}
<1>1. DOMAIN results = 1 .. Len(results) /\ Len(results) \in Nat
  BY LenProperties
<1>2. \A i \in DOMAIN results : value(i) \in Nat
  BY MetricNatural
<1>3. T \in SUBSET Nat /\ T # {}
  <2>1. 1 \in DOMAIN results  BY <1>1
  <2> HIDE DEF value
  <2> QED  BY <1>2, <2>1
<1>4. PICK v \in T : \A w \in T : v <= w
  <2> HIDE DEF T
  <2> QED  BY <1>3, LeastNat
<1> DEFINE F == {i \in DOMAIN results : value(i) = v}
<1>5. F \in SUBSET Nat /\ F # {}
  <2> HIDE DEF value
  <2> QED  BY <1>1, <1>4
<1>6. PICK f \in F : \A i \in F : f <= i
  <2> HIDE DEF F
  <2> QED  BY <1>5, LeastNat
<1> HIDE DEF value
<1>7. /\ f \in DOMAIN results
      /\ \A j \in DOMAIN results :
           value(f) < value(j) \/ (value(f) = value(j) /\ f <= j)
  <2>1. f \in DOMAIN results /\ value(f) = v  BY <1>6
  <2> SUFFICES ASSUME NEW j \in DOMAIN results
               PROVE  value(f) < value(j) \/ (value(f) = value(j) /\ f <= j)
    BY <2>1
  <2>2. v <= value(j) /\ v \in Nat /\ value(j) \in Nat
    BY <1>2, <1>4, <2>1
  <2>3. value(j) = v => f <= j  BY <1>6
  <2> QED  BY <2>1, <2>2, <2>3
<1>8. MinElement(m) =
        CHOOSE i \in DOMAIN results :
          \A j \in DOMAIN results :
            value(i) < value(j) \/ (value(i) = value(j) /\ i <= j)
  BY DEF MinElement, value
<1>9. /\ MinElement(m) \in DOMAIN results
      /\ \A j \in DOMAIN results :
           \/ value(MinElement(m)) < value(j)
           \/ value(MinElement(m)) = value(j) /\ MinElement(m) <= j
  BY <1>7, <1>8, Zenon
<1>10. \A i \in DOMAIN results : value(MinElement(m)) <= value(i)
  BY <1>2, <1>9
<1> QED  BY <1>9, <1>10 DEF value

\* A result that dominates another is below it in energy x time and, where the
\* energy counts, in M+.
LEMMA DominatesIsBelow ==
  ASSUME results \in Seq(Sums), NEW m \in Metric, m = "Et" \/ (m = "M+" /\ K > 1),
         \A i \in DOMAIN results : results[i].energy > 0 /\ results[i].time > 0,
         NEW i \in DOMAIN results, NEW j \in DOMAIN results,
         Dominates(results[i], results[j])
  PROVE  MetricOf(m, results[i]) < MetricOf(m, results[j])
<1>1. DOMAIN results = 1 .. Len(results) /\ Len(results) \in Nat
  BY LenProperties
<1>2. 1 \in DOMAIN results  BY <1>1
<1>3. results[i] \in Sums /\ results[j] \in Sums /\ results[1] \in Sums
  BY <1>1, <1>2, ElementOfSeq
<1> DEFINE e == results[i].energy
           t == results[i].time
           f == results[j].energy
           u == results[j].time
           a == (K - 1) * results[1].time
           b == results[1].energy
<1>4. /\ e \in Nat \ {0} /\ t \in Nat \ {0} /\ f \in Nat \ {0} /\ u \in Nat \ {0}
      /\ b \in Nat \ {0} /\ results[1].time \in Nat \ {0}
  BY <1>2, <1>3, SMTT(30) DEF Sums
<1>5. e <= f /\ t <= u /\ (e < f \/ t < u)
  BY DEF Dominates
<1>6. \A x, y, z \in Nat \ {0} : /\ x < y => x * z < y * z
                                 /\ x <= y => x * z <= y * z
                                 /\ x * z \in Nat \ {0} /\ x * z = z * x
  OBVIOUS
<1>7. CASE m = "Et"
  <2>1. MetricOf(m, results[i]) = e * t /\ MetricOf(m, results[j]) = f * u
    BY <1>7 DEF MetricOf, enerTimeProd
  <2> HIDE DEF e, t, f, u
  <2>2. /\ e * t <= f * t /\ (e < f => e * t < f * t)
        /\ f * t <= f * u /\ (t < u => f * t < f * u)
        /\ e * t \in Nat /\ f * t \in Nat /\ f * u \in Nat
    BY <1>4, <1>5, <1>6
  <2> QED  BY <1>5, <2>1, <2>2
<1>8. CASE m = "M+" /\ K > 1
  <2>1. K - 1 \in Nat \ {0}  BY <1>8, ProfilerAssumption
  <2>2. a \in Nat \ {0}  BY <1>4, <1>6, <2>1
  <2>3. \A x, y, z \in Int : (x * y) * z = (x * z) * y
    OBVIOUS
  <2>4. /\ (K - 1) * e * results[1].time = a * e
        /\ (K - 1) * f * results[1].time = a * f
    BY <1>4, <2>1, <2>3
  <2>5. /\ MetricOf(m, results[i]) = a * e + t * b
        /\ MetricOf(m, results[j]) = a * f + u * b
    BY <1>8, <2>4 DEF MetricOf, mPlus
  <2> HIDE DEF e, t, f, u, a, b
  <2>6. /\ a * e <= a * f /\ (e < f => a * e < a * f)
        /\ t * b <= u * b /\ (t < u => t * b < u * b)
        /\ a * e \in Nat /\ a * f \in Nat /\ t * b \in Nat /\ u * b \in Nat
    BY <1>4, <1>5, <1>6, <2>2
  <2> QED  BY <1>5, <2>5, <2>6
<1> QED  BY <1>7, <1>8

\* So nothing dominates the first of the smallest.
LEMMA MinElementUndominated ==
  ASSUME results \in Seq(Sums), Len(results) > 0,
         \A i \in DOMAIN results : results[i].energy > 0 /\ results[i].time > 0
  PROVE  \A m \in IF K > 1 THEN {"Et", "M+"} ELSE {"Et"}, i \in DOMAIN results :
           ~Dominates(results[i], results[MinElement(m)])
<1> SUFFICES ASSUME NEW m \in Metric, m = "Et" \/ (m = "M+" /\ K > 1),
                    NEW i \in DOMAIN results,
                    Dominates(results[i], results[MinElement(m)])
             PROVE  FALSE
  BY DEF Metric
<1>1. /\ MinElement(m) \in DOMAIN results
      /\ MetricOf(m, results[MinElement(m)]) <= MetricOf(m, results[i])
  BY MinElementLeast
<1>2. MetricOf(m, results[i]) < MetricOf(m, results[MinElement(m)])
  BY <1>1, DominatesIsBelow
<1>3. /\ MetricOf(m, results[i]) \in Nat
      /\ MetricOf(m, results[MinElement(m)]) \in Nat
  BY <1>1, MetricNatural
<1> QED  BY <1>1, <1>2, <1>3

\* Sums of positive measures stay positive, and the choice is made at the end.
LEMMA PositiveStep ==
  ASSUME Positive, ProfilerInv, PositiveInv, [Next]_vars
  PROVE  PositiveInv'
<1> USE DEF device, lists
<1>1. CASE Main \/ ConstructEco \/ RunTerminates \/ AppendCap \/ ListDone \/ CapsDone
  BY <1>1 DEF PositiveInv, ChoiceUndominated, Main, ConstructEco,
     RunTerminates, AppendCap, ListDone, CapsDone
<1>2. ASSUME NEW m \in Measures \union Partial, RunCounts(m)
      PROVE  PositiveInv'
  <2>1. /\ pc = "run" /\ results' = results /\ choice' = choice
        /\ sum' = AddRun(sum, RunResult(m))
    BY <1>2 DEF RunCounts
  <2>2. /\ sum \in Sums /\ sum.energy \in Nat /\ sum.time \in Nat
        /\ m.energy \in Nat /\ m.time \in Nat /\ m.energy > 0 /\ m.time > 0
    BY ProfilerAssumption DEF ProfilerInv, ProfilerTypeOK, Sums, Positive
  <2>3. sum'.energy = sum.energy + m.energy /\ sum'.time = sum.time + m.time
    BY <2>1, <2>2 DEF AddRun, RunResult, Sums
  <2>4. choice = <<>>  BY <2>1 DEF PositiveInv
  <2> QED  BY <2>1, <2>2, <2>3, <2>4 DEF PositiveInv, ChoiceUndominated
<1>3. CASE WarmupDone \/ \E accepted \in BOOLEAN : SetCap(accepted)
  <2>1. /\ results' = results /\ choice' = choice /\ sum'.runs = 0
        /\ pc \in {"measured", "nextCap"}
    BY <1>3 DEF WarmupDone, SetCap, NoResult
  <2> QED  BY <2>1 DEF PositiveInv, ChoiceUndominated
<1>4. CASE ReferenceDone
  <2>1. /\ pc = "measured" /\ phase = "reference" /\ sum' = sum /\ choice' = choice
        /\ results' = <<[sum EXCEPT !.powercap = limit]>>
    BY <1>4 DEF ReferenceDone
  <2>2. sum \in Sums /\ sum.energy > 0 /\ sum.time > 0
    BY <2>1, ProfilerAssumption
    DEF ProfilerInv, ProfilerTypeOK, PositiveInv
  <2>3. /\ DOMAIN results' = {1}
        /\ results'[1].energy = sum.energy /\ results'[1].time = sum.time
    BY <2>1, <2>2 DEF Sums
  <2> QED  BY <2>1, <2>2, <2>3 DEF PositiveInv, ChoiceUndominated
<1>5. CASE CapDone
  <2> DEFINE average == [sum EXCEPT !.powercap = Current]
  <2>1. /\ pc = "measured" /\ phase = "caps" /\ sum' = sum /\ choice' = choice
        /\ results' = Append(results, average)
    BY <1>5 DEF CapDone
  <2>2. /\ sum \in Sums /\ sum.energy > 0 /\ sum.time > 0 /\ results \in Seq(Sums)
        /\ Len(results) \in 1 .. Len(caps) /\ caps \in Seq(Int)
    BY <2>1, ProfilerAssumption
    DEF ProfilerInv, ProfilerTypeOK, PositiveInv
  <2>3. Current \in Int  BY <2>2 DEF Current
  <2>4. /\ average \in Sums /\ average.energy = sum.energy
        /\ average.time = sum.time
    BY <2>2, <2>3 DEF Sums, Powers
  <2>5. /\ DOMAIN results' = 1 .. Len(results) + 1
        /\ DOMAIN results = 1 .. Len(results) /\ Len(results) \in Nat
        /\ \A i \in 1 .. Len(results) : results'[i] = results[i]
        /\ results'[Len(results) + 1] = average
    BY <2>1, <2>2, <2>4, AppendProperties, LenProperties
  <2> HIDE DEF average
  <2> QED  BY <2>1, <2>2, <2>4, <2>5 DEF PositiveInv, ChoiceUndominated
<1>6. CASE Select
  <2>1. /\ pc' = "return" /\ UNCHANGED <<sum, results, phase>> /\ phase = "caps"
        /\ choice' = [m \in Metric |-> results[MinElement(m)]]
    BY <1>6 DEF Select, ProfilerInv
  <2>2. \A m \in IF K > 1 THEN {"Et", "M+"} ELSE {"Et"}, i \in DOMAIN results :
          ~Dominates(results[i], results[MinElement(m)])
    BY <2>1, MinElementUndominated DEF ProfilerInv, ProfilerTypeOK, PositiveInv
  <2>3. \A m \in IF K > 1 THEN {"Et", "M+"} ELSE {"Et"} :
          choice'[m] = results[MinElement(m)]
    BY <2>1 DEF Metric
  <2>4. ChoiceUndominated'
    BY <2>1, <2>2, <2>3 DEF ChoiceUndominated
  <2> QED  BY <2>1, <2>4 DEF PositiveInv
<1>7. CASE DestroyEco \/ UNCHANGED vars
  BY <1>7 DEF PositiveInv, ChoiceUndominated, DestroyEco, vars
<1>8. CASE Kill
  BY <1>8 DEF PositiveInv, ChoiceUndominated, Kill
<1> QED  BY <1>1, <1>2, <1>3, <1>4, <1>5, <1>6, <1>7, <1>8 DEF Next, Profile

\* Whatever was measured, no result beats the one reported for energy x time,
\* or for M+ where the energy counts in it, in one of energy and time without
\* being worse in the other.
THEOREM ProfilerChoice ==
  ASSUME Positive
  PROVE  Spec => []ChoiceUndominated
<1>1. Init => PositiveInv
  BY DEF Init, PositiveInv, ChoiceUndominated, NoResult
<1>2. ProfilerInv /\ PositiveInv /\ [Next]_vars => PositiveInv'
  BY PositiveStep
<1>3. PositiveInv => ChoiceUndominated
  BY DEF PositiveInv
<1> QED  BY <1>1, <1>2, <1>3, ProfilerInvariant, PTL DEF Spec

=============================================================================
