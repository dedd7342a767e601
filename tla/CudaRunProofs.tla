--------------------------- MODULE CudaRunProofs ---------------------------
(***************************************************************************)
(* For every card, every set of limits and every sequence of runs of DEPO  *)
(* and StEP, ended or killed: a run that comes to its end, no call of NVML *)
(* having failed in it, leaves the limit it found; and for every number of *)
(* launches a single thread makes, and every value of                      *)
(* INJECTION_KERNEL_COUNT, the counter read from the file is a recent one, *)
(* and the one reported at the end complete.                               *)
(***************************************************************************)
EXTENDS CudaRun, TLAPS

\* Between the constructor and the destructor the default is the limit the run
\* found, or a call has failed: it is read before the first write, and by the
\* run itself, so that what an earlier run left does not matter.
LimitInv ==
  /\ limit \in Nat \ {0} /\ found \in Nat \ {0}
  /\ default \in (Nat \ {0}) \union {Failed}
  /\ nvmlFailed \in BOOLEAN
  /\ main = "device" => found = limit
  /\ main \notin {"off", "device"} => nvmlFailed \/ default = found
  /\ main = "ended" => nvmlFailed \/ limit = found

\* The limits NVML is given: none, one of the range, or the default.
LEMMA ProgrammedLimit ==
  ASSUME LimitInv, NEW to \in Limits \union {0, default}, NEW ok \in BOOLEAN,
         Programmed(to, ok)
  PROVE  /\ limit' \in Nat \ {0} /\ nvmlFailed' \in BOOLEAN
         /\ default' = default
         /\ ~nvmlFailed' => ~nvmlFailed /\ ok
         /\ ok /\ to \in Nat \ {0} => limit' = to
<1>1. nvmlFailed' = (nvmlFailed \/ ~ok) /\ default' = default
  BY DEF Programmed
<1>2. nvmlFailed' \in BOOLEAN /\ (~nvmlFailed' => ~nvmlFailed /\ ok)
  BY <1>1 DEF LimitInv
<1>3. limit' = IF ok /\ to \notin {0, Failed} THEN to ELSE limit
  BY DEF Programmed
<1>4. limit' \in Nat \ {0}
  BY <1>3, CudaAssumption DEF LimitInv, Failed
<1>5. ok /\ to \in Nat \ {0} => limit' = to
  BY <1>3 DEF Failed
<1> QED  BY <1>1, <1>2, <1>4, <1>5

LEMMA LimitConstruct == LimitInv /\ ConstructDevice => LimitInv'
<1> SUFFICES ASSUME LimitInv, ConstructDevice PROVE LimitInv'
  OBVIOUS
<1>1. /\ main = "device" /\ main' = "environment" /\ found = limit
      /\ limit' = limit /\ found' = found
      /\ default' \in {limit, Failed}
      /\ nvmlFailed' = (default' = Failed)
  BY DEF ConstructDevice, GotoMain, getPowerLimitInWatts, LimitInv
<1>2. nvmlFailed' \in BOOLEAN  BY <1>1
<1>3. nvmlFailed' \/ default' = found'  BY <1>1
<1> QED  BY <1>1, <1>2, <1>3 DEF LimitInv

LEMMA LimitTune ==
  ASSUME LimitInv, NEW to \in Limits \union {0, default}, NEW ok \in BOOLEAN,
         Tune(to, ok) \/ NextLimit(to, ok)
  PROVE  LimitInv'
<1>1. /\ Programmed(to, ok) /\ found' = found
      /\ main \notin {"off", "device"} /\ main' \in {"run", "reset"}
  BY DEF Tune, NextLimit, GotoMain
<1>2. nvmlFailed' \/ default' = found'
  BY <1>1, ProgrammedLimit DEF LimitInv
<1> QED  BY <1>1, <1>2, ProgrammedLimit DEF LimitInv

\* The destructor writes the default: the limit found.
LEMMA LimitRestored ==
  ASSUME LimitInv, NEW ok \in BOOLEAN, DestroyEco(ok)
  PROVE  LimitInv'
<1>1. /\ Programmed(default, ok) /\ found' = found
      /\ main = "reported" /\ main' = "ended"
  BY DEF DestroyEco, GotoMain
<1>2. nvmlFailed' \/ default' = found'
  BY <1>1, ProgrammedLimit DEF LimitInv
<1>3. nvmlFailed' \/ limit' = found'
  <2> SUFFICES ASSUME ~nvmlFailed' PROVE limit' = found'
    BY Zenon
  <2>1. default = found /\ ok
    BY <1>1, ProgrammedLimit DEF LimitInv
  <2> QED  BY <1>1, <2>1, ProgrammedLimit DEF LimitInv
<1> QED  BY <1>1, <1>2, <1>3, ProgrammedLimit DEF LimitInv

\* LimitInv is inductive; the other actions write no limit.
LEMMA LimitInvariant == CudaSpec => []LimitInv
<1>1. CudaInit => LimitInv
  BY CudaAssumption DEF CudaInit, LimitInv
<1>2. LimitInv /\ [CudaNext]_cudaVars => LimitInv'
  <2> SUFFICES ASSUME LimitInv, [CudaNext]_cudaVars PROVE LimitInv'
    OBVIOUS
  <2>1. ASSUME NEW name \in {"DEPO", "StEP"}, Start(name) PROVE LimitInv'
    BY <2>1 DEF Start, GotoMain, LimitInv
  <2>2. ASSUME NEW range \in BOOLEAN, NEW ok \in BOOLEAN,
               \/ \E to \in getMinMaxLimitInWatts(range) \union {default} :
                    Tune(to, ok)
               \/ \E to \in getMinMaxLimitInWatts(range) : NextLimit(to, ok)
        PROVE  LimitInv'
    BY <2>2, LimitTune DEF getMinMaxLimitInWatts
  <2>3. CASE EndsAtOnce \/ SetEnvironment \/ NoLibraryPath
    BY <2>3 DEF EndsAtOnce, SetEnvironment, NoLibraryPath, GotoMain, card, LimitInv
  <2>4. CASE ResetCounter \/ Fork
    BY <2>4 DEF ResetCounter, Fork, GotoMain, card, LimitInv
  <2>5. CASE SampleCounter \/ ReturnCounter
    BY <2>5 DEF SampleCounter, ReturnCounter, process, card, LimitInv
  <2>6. CASE AppEnded \/ StdExit
    BY <2>6 DEF AppEnded, StdExit, GotoMain, card, LimitInv
  <2>7. CASE Exit \/ Crash
    BY <2>7 DEF Exit, Crash, GotoMain, card, LimitInv
  <2>8. CASE AppStep /\ UNCHANGED process /\ UNCHANGED card
    BY <2>8 DEF process, card, LimitInv
  <2>9. CASE UNCHANGED cudaVars
    BY <2>9 DEF cudaVars, LimitInv
  <2>10. CASE \E ok \in BOOLEAN : DestroyEco(ok)
    BY <2>10, LimitRestored
  <2> QED
    BY <2>1, <2>2, <2>3, <2>4, <2>5, <2>6, <2>7, <2>8, <2>9, <2>10,
       LimitConstruct
    DEF CudaNext
<1> QED  BY <1>1, <1>2, PTL DEF CudaSpec

\* A run that ends leaves the limit it found, whatever it programmed in
\* between and however the runs before it ended, if no call failed in it.
THEOREM CudaKeepsLimit == CudaSpec => []EndedRunKeepsLimit
<1>1. LimitInv => EndedRunKeepsLimit
  BY DEF LimitInv, EndedRunKeepsLimit
<1> QED  BY <1>1, LimitInvariant, PTL

-----------------------------------------------------------------------------
(* The kernel counter of an application with one launching thread *)

\* With several threads that launch kernels the accesses to the counter and to
\* the stream race, and the file does not hold a count (CountNeverFalls fails).
OneThread == \E t : Threads = {t}

\* Where a thread neither counts nor writes.
Resting == {"run", "initialize", "lock", "configure", "configImage",
            "prefixImage", "dataImage", "unlock", "exit", "exitLocked"}

Counting == {"add", "test", "open", "write", "close"}

\* A count of whole groups of maxNumRanges launches.
Whole(n) == n \in Nat /\ (n % maxNumRanges) = 0

ClosedStream == [open |-> FALSE, failed |-> FALSE]

OpenStream == [open |-> TRUE, failed |-> FALSE]

\* What the file and the stream are at each control point of the only thread.
CountedAt(t) ==
  /\ pc[t] \in Resting \union {"add"} =>
       /\ Whole(file) /\ stream = ClosedStream
       /\ file <= globalCounter /\ globalCounter < file + maxNumRanges
  /\ pc[t] \in {"test", "open"} =>
       /\ Whole(file) /\ stream = ClosedStream
       /\ file < globalCounter /\ globalCounter <= file + maxNumRanges
  /\ pc[t] \in {"open", "write", "close"} => Whole(globalCounter)
  /\ pc[t] = "write" => file = NoLine /\ stream = OpenStream
  /\ pc[t] = "close" => file = globalCounter /\ stream = OpenStream
  /\ IF pc[t] = "add" THEN loaded[t] = globalCounter /\ launches = globalCounter + 1
     ELSE launches = globalCounter

CounterType ==
  /\ pc \in [Threads -> Resting \union Counting]
  /\ loaded \in [Threads -> Nat]
  /\ globalCounter \in Nat /\ launches \in Nat
  /\ kernelCount \in Int \union {Unset} /\ injected \in BOOLEAN

\* The file counts the launches of the application of this run.
FileCounts ==
  \A t \in Threads :
    IF injected THEN CountedAt(t) ELSE pc[t] = "run" /\ file = 0

\* An application runs only between fork and wait, or beyond a killed tool; the
\* counter is reset before each, and read after its end.
CounterInv ==
  /\ main # "off" => CounterType /\ tool \in {"DEPO", "StEP"}
  /\ reader = "in" => main \in {"run", "report"}
  /\ app = "running" => main \in {"off", "run"}
  /\ app = "exited" => \A t \in Threads : pc[t] = "run"
  /\ main = "fork" => file = 0
  /\ tool = "DEPO" /\ main \notin {"off", "device", "environment"} =>
       injected /\ kernelCount = 1
  /\ main \in {"run", "report", "reported"} => FileCounts
  /\ main = "reported" /\ RunsWithSampling => value = file

LEMMA RangesPositive ==
  ASSUME kernelCount \in Int \union {Unset}
  PROVE  maxNumRanges \in Nat \ {0}
BY DEF maxNumRanges

\* Adding a group to whole groups gives whole groups, and nothing between does.
LEMMA WholeGroups ==
  ASSUME NEW M \in Nat \ {0}, NEW n \in Nat, (n % M) = 0
  PROVE  /\ ((n + M) % M) = 0
         /\ \A r \in 0 .. M - 1 : ((n + r) % M) = r
<1>1. \A a \in Nat : /\ a \div M \in Nat /\ (a % M) \in 0 .. M - 1
                     /\ a = M * (a \div M) + (a % M)
  BY SMTT(30)
<1> DEFINE q == n \div M
<1>2. q \in Nat /\ n = M * q
  BY <1>1
<1> HIDE DEF q
<1>3. ASSUME NEW p \in Nat, NEW r \in 0 .. M - 1, NEW s \in 0 .. M - 1,
             NEW k \in Nat, M * p + r = M * k + s
      PROVE  r = s
  <2>1. \A i, j \in Nat : i < j => M * i + M <= M * j
    <3> SUFFICES ASSUME NEW i \in Nat, NEW j \in Nat, i < j
                 PROVE  M * i + M <= M * j
      OBVIOUS
    <3>1. PICK d \in Nat : j = i + 1 + d
      <4>1. j - i - 1 \in Nat /\ j = i + 1 + (j - i - 1)  OBVIOUS
      <4> QED  BY <4>1
    <3>2. M * j = M * i + M + M * d /\ M * d >= 0
      BY <3>1, SMTT(30)
    <3>3. M * i \in Nat /\ M * d \in Nat /\ M * j \in Nat  OBVIOUS
    <3> QED  BY <3>2, <3>3
  <2>2. M * p \in Nat /\ M * k \in Nat  OBVIOUS
  <2>3. p < k => M * p + M <= M * k  BY <2>1
  <2>4. k < p => M * k + M <= M * p  BY <2>1
  <2> DEFINE mp == M * p
             mk == M * k
  <2>5. p = k => mp = mk  OBVIOUS
  <2> HIDE DEF mp, mk
  <2> QED  BY <1>3, <2>2, <2>3, <2>4, <2>5 DEF mp, mk
<1>4. ASSUME NEW r \in 0 .. M - 1 PROVE ((n + r) % M) = r
  <2>1. n + r \in Nat  OBVIOUS
  <2> DEFINE k == (n + r) \div M
             s == (n + r) % M
  <2>2. k \in Nat /\ s \in 0 .. M - 1 /\ n + r = M * k + s
    BY <1>1, <2>1
  <2> HIDE DEF k, s
  <2>3. M * q + r = M * k + s  BY <1>2, <2>2
  <2>4. r = s  BY <1>2, <1>3, <2>2, <2>3
  <2> QED  BY <2>4 DEF s
<1>5. ((n + M) % M) = 0
  <2>1. n + M \in Nat /\ n + M = M * (q + 1) /\ q + 1 \in Nat /\ 0 \in 0 .. M - 1
    BY <1>2, SMTT(30)
  <2> DEFINE k == (n + M) \div M
             s == (n + M) % M
  <2>2. k \in Nat /\ s \in 0 .. M - 1 /\ n + M = M * k + s
    BY <1>1, <2>1
  <2> HIDE DEF k, s
  <2>3. M * (q + 1) + 0 = M * k + s  BY <2>1, <2>2
  <2>4. s = 0  BY <1>3, <2>1, <2>2, <2>3
  <2> QED  BY <2>4 DEF s
<1> QED  BY <1>4, <1>5

\* A whole group is the launches but for the rest.
LEMMA WholeIsRounded ==
  ASSUME kernelCount \in Int \union {Unset}, NEW n, Whole(n),
         NEW m \in Nat, n <= m, m < n + maxNumRanges
  PROVE  n = m - (m % maxNumRanges)
<1>1. maxNumRanges \in Nat \ {0} /\ n \in Nat /\ (n % maxNumRanges) = 0
  BY RangesPositive DEF Whole
<1> DEFINE M == maxNumRanges
           r == m - n
<1>2. r \in 0 .. M - 1 /\ m = n + r  BY <1>1
<1>3. \A k \in 0 .. M - 1 : ((n + k) % M) = k
  BY <1>1, WholeGroups
<1> HIDE DEF M, r
<1>4. (m % M) = r  BY <1>2, <1>3
<1>5. r = m - n  BY DEF r
<1> QED  BY <1>1, <1>4, <1>5 DEF M

\* One step of the only thread.
LEMMA CountStep ==
  ASSUME NEW t \in Threads, Threads = {t}, CounterType, FileCounts, Step(t)
  PROVE  FileCounts' /\ CounterType'
<1> DEFINE M == maxNumRanges
<1>1. /\ M \in Nat \ {0} /\ M' = M
      /\ UNCHANGED <<kernelCount, injected>> /\ app = "running"
  <2>1. UNCHANGED <<kernelCount, injected>> /\ app = "running"
    BY DEF Step, Goto, environment, Launch, Add, Test, Open, Write, Close,
       ContextCreated, InitializeState, LockContexts, InitializeContextData,
       GetCounterAvailability, GetConfigImage, GetCounterDataPrefixImage,
       InitializeDataImage, Configures, UnlockContexts, EndExecution
  <2>2. M' = M  BY <2>1 DEF maxNumRanges
  <2> QED  BY <2>1, <2>2, RangesPositive DEF CounterType
<1>2. \A n \in Nat : (n % M) = 0 =>
        /\ ((n + M) % M) = 0
        /\ \A r \in 0 .. M - 1 : ((n + r) % M) = r
  BY <1>1, WholeGroups
<1> HIDE DEF M
<1>3. \A n : Whole(n)' <=> n \in Nat /\ (n % M) = 0
  BY <1>1 DEF Whole, M
<1>4. \A n : Whole(n) <=> n \in Nat /\ (n % M) = 0
  BY DEF Whole, M
<1>5. /\ pc \in [Threads -> Resting \union Counting] /\ loaded \in [Threads -> Nat]
      /\ globalCounter \in Nat /\ launches \in Nat
      /\ kernelCount \in Int \union {Unset} /\ injected \in BOOLEAN
  BY DEF CounterType
<1>6. CASE ~injected
  <2>1. pc[t] = "run" /\ file = 0  BY <1>6 DEF FileCounts
  <2>2. Launch(t)
    BY <1>6, <2>1 DEF Step, Goto, Launch, Add, Test, Open, Write, Close,
       ContextCreated, InitializeState, LockContexts, InitializeContextData,
       GetCounterAvailability, GetConfigImage, GetCounterDataPrefixImage,
       InitializeDataImage, Configures, UnlockContexts, EndExecution
  <2>3. /\ pc' = [pc EXCEPT ![t] = "run"] /\ file' = file
        /\ loaded' = [loaded EXCEPT ![t] = loaded[t]]
        /\ globalCounter' = globalCounter /\ launches' = launches + 1
    BY <1>6, <2>2 DEF Launch, Goto
  <2>4. pc' \in [Threads -> Resting \union Counting] /\ loaded' \in [Threads -> Nat]
    BY <1>5, <2>3 DEF Resting
  <2>5. FileCounts'
    BY <1>1, <1>5, <1>6, <2>1, <2>3 DEF FileCounts
  <2> QED  BY <1>1, <1>5, <2>3, <2>4, <2>5 DEF CounterType
<1>7. CASE injected
  <2>0. CountedAt(t)  BY <1>7 DEF FileCounts
  <2> SUFFICES CountedAt(t)' /\ CounterType'
    BY <1>1, <1>7 DEF FileCounts
  <2>1. CASE Launch(t)
    <3>1. /\ pc[t] = "run" /\ pc' = [pc EXCEPT ![t] = "add"]
          /\ launches' = launches + 1
          /\ loaded' = [loaded EXCEPT ![t] = globalCounter]
          /\ UNCHANGED <<globalCounter, stream, file>>
      BY <1>7, <2>1 DEF Launch, Goto
    <3>2. /\ pc'[t] = "add" /\ loaded'[t] = globalCounter
          /\ pc' \in [Threads -> Resting \union Counting]
          /\ loaded' \in [Threads -> Nat]
      BY <1>5, <3>1 DEF Counting
    <3> QED
      BY <1>1, <1>3, <1>4, <1>5, <2>0, <3>1, <3>2
      DEF CountedAt, CounterType, Resting, M
  <2>2. CASE Add(t)
    <3>1. /\ pc[t] = "add" /\ pc' = [pc EXCEPT ![t] = "test"]
          /\ globalCounter' = loaded[t] + 1
          /\ UNCHANGED <<loaded, stream, file, launches>>
      BY <2>2 DEF Add, Goto
    <3>2. pc'[t] = "test" /\ pc' \in [Threads -> Resting \union Counting]
      BY <1>5, <3>1 DEF Counting
    <3>3. loaded[t] = globalCounter /\ launches = globalCounter + 1
      BY <2>0, <3>1 DEF CountedAt
    <3> QED
      BY <1>1, <1>3, <1>4, <1>5, <2>0, <3>1, <3>2, <3>3
      DEF CountedAt, CounterType, Resting, M
  <2>3. CASE Test(t)
    <3>1. /\ pc[t] = "test"
          /\ pc' = [pc EXCEPT ![t] = IF WritesNow THEN "open" ELSE "run"]
          /\ UNCHANGED <<loaded, globalCounter, stream, file, launches>>
      BY <2>3 DEF Test, Goto
    <3>2. /\ pc'[t] = IF WritesNow THEN "open" ELSE "run"
          /\ pc' \in [Threads -> Resting \union Counting]
      BY <1>5, <3>1 DEF Counting, Resting
    <3>3. WritesNow <=> (globalCounter % M) = 0
      BY DEF WritesNow, M
    <3>4. /\ Whole(file) /\ stream = ClosedStream /\ launches = globalCounter
          /\ file < globalCounter /\ globalCounter <= file + M
      BY <2>0, <3>1 DEF CountedAt, M
    <3>5. CASE WritesNow
      <4>1. Whole(globalCounter)'
        BY <1>3, <1>5, <3>1, <3>3, <3>5
      <4> QED
        BY <1>1, <1>3, <1>4, <1>5, <3>1, <3>2, <3>4, <3>5, <4>1
        DEF CountedAt, CounterType, Resting, M
    <3>6. CASE ~WritesNow
      <4>1. globalCounter # file + M
        BY <1>2, <1>4, <3>3, <3>4, <3>6
      <4>2. globalCounter < file + M
        BY <1>1, <1>4, <1>5, <3>4, <4>1
      <4> QED
        BY <1>1, <1>3, <1>4, <1>5, <3>1, <3>2, <3>4, <3>6, <4>2
        DEF CountedAt, CounterType, Resting, M
    <3> QED  BY <3>5, <3>6
  <2>4. CASE Open(t)
    <3>1. /\ pc[t] = "open" /\ pc' = [pc EXCEPT ![t] = "write"]
          /\ UNCHANGED <<loaded, globalCounter, launches>>
          /\ IF stream.open
             THEN stream' = [stream EXCEPT !.failed = TRUE] /\ UNCHANGED file
             ELSE stream' = OpenStream /\ file' = NoLine
      BY <2>4 DEF Open, Goto, OpenStream
    <3>2. pc'[t] = "write" /\ pc' \in [Threads -> Resting \union Counting]
      BY <1>5, <3>1 DEF Counting
    <3>3. /\ ~stream.open /\ Whole(globalCounter) /\ launches = globalCounter
      BY <2>0, <3>1 DEF CountedAt, ClosedStream
    <3> QED
      BY <1>1, <1>3, <1>4, <1>5, <3>1, <3>2, <3>3
      DEF CountedAt, CounterType, Resting, M
  <2>5. CASE Write(t)
    <3>1. /\ pc[t] = "write" /\ pc' = [pc EXCEPT ![t] = "close"]
          /\ UNCHANGED <<loaded, globalCounter, launches>>
          /\ stream' = [stream EXCEPT !.failed = stream.failed \/ ~stream.open]
          /\ file' = IF ~stream.open \/ stream.failed THEN file
                     ELSE IF file = NoLine THEN globalCounter
                     ELSE (IF globalCounter < 10 THEN 10 ELSE 100) * file
                            + globalCounter
      BY <2>5 DEF Write, Goto
    <3>2. pc'[t] = "close" /\ pc' \in [Threads -> Resting \union Counting]
      BY <1>5, <3>1 DEF Counting
    <3>3. /\ file = NoLine /\ stream = OpenStream /\ Whole(globalCounter)
          /\ launches = globalCounter
      BY <2>0, <3>1 DEF CountedAt
    <3>4. stream' = OpenStream
      BY <3>1, <3>3, Zenon DEF OpenStream
    <3>5. file' = globalCounter
      BY <3>1, <3>3 DEF OpenStream
    <3> QED
      BY <1>1, <1>3, <1>4, <1>5, <3>1, <3>2, <3>3, <3>4, <3>5
      DEF CountedAt, CounterType, Resting, M
  <2>6. CASE Close(t)
    <3>1. /\ pc[t] = "close" /\ pc' = [pc EXCEPT ![t] = "run"]
          /\ UNCHANGED <<loaded, globalCounter, file, launches>>
          /\ stream' = [open |-> FALSE, failed |-> stream.failed \/ ~stream.open]
      BY <2>6 DEF Close, Goto
    <3>2. pc'[t] = "run" /\ pc' \in [Threads -> Resting \union Counting]
      BY <1>5, <3>1 DEF Resting
    <3>3. /\ file = globalCounter /\ stream = OpenStream /\ Whole(globalCounter)
          /\ launches = globalCounter
      BY <2>0, <3>1 DEF CountedAt
    <3>4. stream' = ClosedStream
      BY <3>1, <3>3 DEF OpenStream, ClosedStream
    <3> QED
      BY <1>1, <1>3, <1>4, <1>5, <3>1, <3>2, <3>3, <3>4
      DEF CountedAt, CounterType, Resting, M
  <2>7. CASE ContextCreated(t) \/ InitializeState(t) \/ LockContexts(t)
             \/ InitializeContextData(t) \/ UnlockContexts(t)
    <3>1. /\ pc[t] \in Resting
          /\ \E to \in Resting : pc' = [pc EXCEPT ![t] = to]
          /\ UNCHANGED <<loaded, globalCounter, stream, file, launches>>
      BY <2>7 DEF ContextCreated, InitializeState, LockContexts,
         InitializeContextData, GetCounterAvailability, GetConfigImage,
         GetCounterDataPrefixImage, InitializeDataImage, Configures,
         UnlockContexts, Goto, Resting
    <3>2. pc'[t] \in Resting /\ pc' \in [Threads -> Resting \union Counting]
      BY <1>5, <3>1
    <3> QED
      BY <1>1, <1>3, <1>4, <1>5, <2>0, <3>1, <3>2
      DEF CountedAt, CounterType, Resting, M
  <2>8. CASE EndExecution(t)
    BY <1>1, <1>3, <1>4, <1>5, <2>0, <2>8
    DEF CountedAt, CounterType, EndExecution, library, M
  <2> QED
    BY <2>1, <2>2, <2>3, <2>4, <2>5, <2>6, <2>7, <2>8 DEF Step
<1> QED  BY <1>6, <1>7

\* A step of the application, under a tool or beyond one that was killed.
LEMMA CounterAppStep ==
  ASSUME OneThread, CounterInv, AppStep, UNCHANGED process, UNCHANGED card
  PROVE  CounterInv'
<1>1. UNCHANGED <<main, tool, noTuning>> /\ app = "running"
  BY DEF process, AppStep, AppExits, AppKilled, Step, Goto, Launch, Add, Test,
     Open, Write, Close, ContextCreated, InitializeState, LockContexts,
     InitializeContextData, GetCounterAvailability, GetConfigImage,
     GetCounterDataPrefixImage, InitializeDataImage, Configures, UnlockContexts,
     EndExecution
<1>2. main \in {"off", "run"}
  BY <1>1 DEF CounterInv
<1>3. CASE \E t \in Threads : Step(t)
  <2>1. PICK t \in Threads : Step(t)  BY <1>3
  <2>2. Threads = {t}  BY DEF OneThread
  <2>3. /\ UNCHANGED <<kernelCount, injected, reader, value>>
        /\ app' \in {"running", "failed"}
    BY <1>1, <2>1 DEF Step, Goto, environment, readerVars, Launch, Add, Test, Open,
       Write, Close, ContextCreated, InitializeState, LockContexts,
       InitializeContextData, GetCounterAvailability, GetConfigImage,
       GetCounterDataPrefixImage, InitializeDataImage, Configures,
       UnlockContexts, EndExecution
  <2>4. CASE main = "run"
    <3>1. FileCounts' /\ CounterType'
      BY <2>1, <2>2, <2>4, CountStep DEF CounterInv
    <3> QED  BY <1>1, <2>3, <2>4, <3>1 DEF CounterInv
  <2>5. CASE main = "off"
    BY <1>1, <2>3, <2>5 DEF CounterInv
  <2> QED  BY <1>2, <2>4, <2>5
<1>4. CASE AppExits("exited") \/ AppExits("failed") \/ AppKilled
  BY <1>1, <1>4 DEF AppExits, AppKilled, CounterInv, CounterType, FileCounts,
     CountedAt, Whole, maxNumRanges, environment, library, readerVars,
     RunsWithSampling
<1> QED  BY <1>3, <1>4 DEF AppStep

\* The steps of the tool up to the fork.
LEMMA CounterStartStep ==
  ASSUME OneThread, CounterInv,
         \/ \E name \in {"DEPO", "StEP"} : Start(name)
         \/ EndsAtOnce \/ ConstructDevice \/ SetEnvironment \/ NoLibraryPath
         \/ ResetCounter \/ Fork
  PROVE  CounterInv'
<1>1. ASSUME NEW name \in {"DEPO", "StEP"}, Start(name) PROVE CounterInv'
  <2>1. /\ main' = "device" /\ app' = "none" /\ reader' = "out" /\ tool' = name
        /\ pc' = [u \in Threads |-> "run"] /\ loaded' = [u \in Threads |-> 0]
        /\ globalCounter' = 0 /\ launches' = 0
        /\ kernelCount' \in KernelCounts \union {Unset} /\ injected' \in BOOLEAN
    BY <1>1, Zenon DEF Start, Fresh, GotoMain
  <2>2. CounterType'
    BY <2>1, CounterAssumption DEF CounterType, Resting
  <2> QED  BY <2>1, <2>2 DEF CounterInv
<1>2. CASE EndsAtOnce \/ NoLibraryPath
  <2>1. /\ main' = "off" /\ main \notin {"off", "run", "report"}
        /\ UNCHANGED <<app, reader, pc, tool>>
    BY <1>2 DEF EndsAtOnce, NoLibraryPath, GotoMain, CounterUnchanged, vars
  <2> QED  BY <2>1 DEF CounterInv
<1>3. CASE ConstructDevice
  <2>1. /\ main = "device" /\ main' = "environment" /\ UNCHANGED vars
        /\ UNCHANGED tool
    BY <1>3 DEF ConstructDevice, GotoMain, CounterUnchanged
  <2> QED  BY <2>1 DEF CounterInv, CounterType, vars
<1>4. CASE SetEnvironment
  <2>1. /\ main = "environment" /\ main' = "reset"
        /\ UNCHANGED <<pc, loaded, globalCounter, launches, app, reader, tool>>
        /\ IF tool = "DEPO" THEN injected' = TRUE /\ kernelCount' = 1
           ELSE UNCHANGED <<kernelCount, injected>>
    BY <1>4 DEF SetEnvironment, GotoMain, environment, library, readerVars
  <2>2. /\ CounterType /\ tool \in {"DEPO", "StEP"} /\ app # "running"
        /\ reader # "in"
    BY <2>1 DEF CounterInv
  <2>3. injected' \in BOOLEAN /\ kernelCount' \in Int \union {Unset}
    <3>1. CASE tool = "DEPO"
      <4>1. injected' \in BOOLEAN  BY <2>1, <3>1, Zenon
      <4>2. kernelCount' = 1  BY <2>1, <3>1
      <4> QED  BY <4>1, <4>2
    <3>2. CASE tool # "DEPO"
      BY <2>1, <2>2, <3>2 DEF CounterType
    <3> QED  BY <3>1, <3>2
  <2>4. CounterType'
    BY <2>1, <2>2, <2>3 DEF CounterType
  <2>5. tool' = "DEPO" => injected' /\ kernelCount' = 1
    BY <2>1
  <2> QED  BY <2>1, <2>2, <2>4, <2>5 DEF CounterInv
<1>5. CASE ResetCounter
  <2>1. /\ main = "reset" /\ main' \in {"off", "fork"} /\ file' = 0
        /\ UNCHANGED <<pc, loaded, globalCounter, launches, kernelCount, injected,
                       app, reader, tool>>
    BY <1>5 DEF ResetCounter, GotoMain, environment, library, readerVars
  <2> QED  BY <2>1 DEF CounterInv, CounterType
<1>6. CASE Fork
  <2>1. /\ main = "fork" /\ main' = "run" /\ app' = "running" /\ file' = file
        /\ UNCHANGED <<kernelCount, injected, reader, tool>>
        /\ pc' = [u \in Threads |-> "run"] /\ loaded' = [u \in Threads |-> 0]
        /\ globalCounter' = 0 /\ launches' = 0 /\ stream' = ClosedStream
    BY <1>6 DEF Fork, GotoMain, Fresh, environment, ClosedStream
  <2>2. /\ CounterType /\ tool \in {"DEPO", "StEP"} /\ file = 0 /\ reader # "in"
        /\ tool = "DEPO" => injected /\ kernelCount = 1
    BY <2>1 DEF CounterInv
  <2>3. CounterType'
    BY <2>1, <2>2 DEF CounterType, Resting
  <2>4. maxNumRanges' \in Nat \ {0} /\ (0 % maxNumRanges') = 0
    <3>1. maxNumRanges' = maxNumRanges  BY <2>1 DEF maxNumRanges
    <3>2. maxNumRanges \in Nat \ {0}  BY <2>2, RangesPositive DEF CounterType
    <3>3. \A M \in Nat \ {0} : (0 % M) = 0  OBVIOUS
    <3> QED  BY <3>1, <3>2, <3>3
  <2>5. FileCounts'
    <3> SUFFICES ASSUME NEW t \in Threads
                 PROVE  IF injected' THEN CountedAt(t)'
                        ELSE pc'[t] = "run" /\ file' = 0
      BY DEF FileCounts
    <3>1. pc'[t] = "run" /\ file' = 0  BY <2>1, <2>2
    <3>2. Whole(file)'  BY <2>4, <3>1 DEF Whole
    <3>3. CountedAt(t)'
      <4>1. stream' = ClosedStream /\ globalCounter' = 0 /\ launches' = 0
        BY <2>1
      <4>2. \A m \in Nat \ {0} : 0 <= 0 /\ 0 < 0 + m  OBVIOUS
      <4>3. 0 <= 0 /\ 0 < 0 + maxNumRanges'  BY <2>4, <4>2, Zenon
      <4> QED  BY <3>1, <3>2, <4>1, <4>3 DEF CountedAt
    <3> QED  BY <3>1, <3>3
  <2> QED  BY <2>1, <2>2, <2>3, <2>5 DEF CounterInv
<1> QED  BY <1>1, <1>2, <1>3, <1>4, <1>5, <1>6

\* What the counter and the file are stays where neither is written.
LEMMA CountsUnchanged ==
  ASSUME UNCHANGED <<kernelCount, injected, pc, loaded, globalCounter, stream,
                     file, launches>>
  PROVE  (FileCounts => FileCounts') /\ (CounterType => CounterType')
BY DEF FileCounts, CountedAt, Whole, maxNumRanges, CounterType

\* The steps of the tool from the fork to the end.
LEMMA CounterRunStep ==
  ASSUME CounterInv,
         \/ \E to : \E ok \in BOOLEAN : Tune(to, ok) \/ NextLimit(to, ok)
         \/ SampleCounter \/ ReturnCounter \/ AppEnded \/ StdExit
         \/ (\E ok \in BOOLEAN : DestroyEco(ok)) \/ Exit \/ Crash
  PROVE  CounterInv'
<1>1. /\ UNCHANGED <<kernelCount, injected, pc, loaded, globalCounter, stream,
                     file, launches, app, tool, noTuning>>
      /\ main # "off"
  BY DEF Tune, NextLimit, SampleCounter, ReturnCounter, AppEnded, StdExit,
     DestroyEco, Exit, Crash, GotoMain, CounterUnchanged, vars, environment,
     library, readerVars, CallGetPerfCounter, ReadFile, process
<1>2. /\ FileCounts => FileCounts'
      /\ CounterType' /\ tool' \in {"DEPO", "StEP"}
      /\ app' = "exited" => \A t \in Threads : pc'[t] = "run"
      /\ RunsWithSampling' = RunsWithSampling
  BY <1>1, CountsUnchanged DEF CounterInv, RunsWithSampling
<1>3. CASE \E to : \E ok \in BOOLEAN : Tune(to, ok) \/ NextLimit(to, ok)
  <2>1. /\ UNCHANGED <<reader, value>>
        /\ \/ main = "run" /\ main' = "run"
           \/ main = "reported" /\ main' = "reset"
    BY <1>3 DEF Tune, NextLimit, GotoMain, CounterUnchanged, vars
  <2> QED  BY <1>1, <1>2, <2>1 DEF CounterInv
<1>4. CASE SampleCounter
  <2>1. main = "run" /\ main' = "run"
    BY <1>4 DEF SampleCounter, process
  <2> QED  BY <1>1, <1>2, <2>1 DEF CounterInv
<1>5. CASE ReturnCounter
  <2>1. /\ main \in {"run", "report"} /\ reader' = "out" /\ value' = file
        /\ main' = IF main = "run" THEN "run" ELSE "reported"
    BY <1>5 DEF ReturnCounter, ReadFile
  <2> QED  BY <1>1, <1>2, <2>1 DEF CounterInv
<1>6. CASE AppEnded
  <2>1. /\ main = "run" /\ reader = "out" /\ app # "running"
        /\ IF RunsWithSampling THEN main' = "report"
           ELSE main' = "reported" /\ reader' = reader
    BY <1>6 DEF AppEnded
  <2> QED  BY <1>1, <1>2, <2>1 DEF CounterInv
<1>7. CASE StdExit
  <2>1. main' = "off" /\ reader = "out" /\ reader' = reader
    BY <1>7 DEF StdExit, GotoMain, CounterUnchanged, vars
  <2> QED  BY <1>1, <1>2, <2>1 DEF CounterInv
<1>8. CASE \/ \E ok \in BOOLEAN : DestroyEco(ok)
           \/ Exit
  <2>1. /\ UNCHANGED <<reader, value>>
        /\ \/ main = "reported" /\ main' = "ended"
           \/ main = "ended" /\ main' = "off"
    BY <1>8 DEF DestroyEco, Exit, GotoMain, CounterUnchanged, vars
  <2> QED  BY <1>1, <1>2, <2>1 DEF CounterInv
<1>9. CASE Crash
  <2>1. main' = "off" /\ reader' = "gone"
    BY <1>9 DEF Crash
  <2> QED  BY <1>1, <1>2, <2>1 DEF CounterInv
<1> QED  BY <1>3, <1>4, <1>5, <1>6, <1>7, <1>8, <1>9

\* CounterInv is inductive.
LEMMA CounterInvariant == ASSUME OneThread PROVE CudaSpec => []CounterInv
<1>1. CudaInit => CounterInv
  BY DEF CudaInit, CounterInv
<1>2. CounterInv /\ [CudaNext]_cudaVars => CounterInv'
  <2> SUFFICES ASSUME CounterInv, [CudaNext]_cudaVars PROVE CounterInv'
    OBVIOUS
  <2>1. CASE UNCHANGED cudaVars
    <3>1. /\ UNCHANGED <<kernelCount, injected, pc, loaded, globalCounter, stream,
                         file, launches>>
          /\ UNCHANGED <<main, tool, noTuning, app, reader, value>>
      BY <2>1 DEF cudaVars, vars
    <3> QED  BY <3>1, CountsUnchanged DEF CounterInv, RunsWithSampling
  <2> QED
    BY <2>1, CounterAppStep, CounterStartStep, CounterRunStep DEF CudaNext
<1> QED  BY <1>1, <1>2, PTL DEF CudaSpec

\* What a run without tuning reports at the end of its application is every
\* launch under DEPO, and under StEP the whole groups of maxNumRanges, however
\* many launches there were and whatever the runs before it left.
THEOREM CudaReports ==
  ASSUME OneThread
  PROVE  CudaSpec => []ReportCountsLaunches
<1>1. CounterInv => ReportCountsLaunches
  <2> SUFFICES ASSUME CounterInv, main = "reported", app = "exited",
                      RunsWithSampling
               PROVE  value = CASE tool = "DEPO" -> launches
                                [] tool = "StEP" /\ injected ->
                                     launches - (launches % maxNumRanges)
                                [] OTHER -> 0
    BY DEF ReportCountsLaunches
  <2>1. PICK t : Threads = {t}  BY DEF OneThread
  <2>2. /\ pc[t] = "run" /\ value = file /\ CounterType
        /\ IF injected THEN CountedAt(t) ELSE file = 0
        /\ tool \in {"DEPO", "StEP"}
        /\ tool = "DEPO" => injected /\ kernelCount = 1
    BY <2>1 DEF CounterInv, FileCounts
  <2>3. ASSUME injected
        PROVE  /\ Whole(file) /\ launches \in Nat /\ file <= launches
               /\ launches < file + maxNumRanges
    BY <2>2, <2>3 DEF CountedAt, CounterType, Resting
  <2>4. injected => file = launches - (launches % maxNumRanges)
    BY <2>2, <2>3, WholeIsRounded DEF CounterType
  <2>5. kernelCount = 1 /\ injected => file = launches
    <3> SUFFICES ASSUME kernelCount = 1, injected PROVE file = launches
      OBVIOUS
    <3>1. maxNumRanges = 1
      BY CounterAssumption DEF maxNumRanges
    <3> QED  BY <2>3, <3>1 DEF Whole
  <2> QED  BY <2>2, <2>4, <2>5
<1> QED  BY <1>1, CounterInvariant, PTL

\* Only ReturnCounter leaves getPerfCounter, but for a kill.
LEMMA OnlyReadReturns ==
  ASSUME CounterInv, [CudaNext]_cudaVars, reader = "in", reader' = "out"
  PROVE  ReturnCounter
<1>1. main \in {"run", "report"}
  BY DEF CounterInv
<1>2. ASSUME NEW name \in {"DEPO", "StEP"}, Start(name) PROVE FALSE
  BY <1>1, <1>2 DEF Start, GotoMain
<1>3. ASSUME EndsAtOnce \/ ConstructDevice \/ SetEnvironment \/ NoLibraryPath
             \/ ResetCounter \/ Fork
      PROVE  FALSE
  BY <1>1, <1>3 DEF EndsAtOnce, ConstructDevice, SetEnvironment, NoLibraryPath,
     ResetCounter, Fork, GotoMain
<1>4. ASSUME NEW to, NEW ok \in BOOLEAN, Tune(to, ok) \/ NextLimit(to, ok) PROVE FALSE
  BY <1>4 DEF Tune, NextLimit, CounterUnchanged, vars
<1>5. ASSUME SampleCounter \/ AppEnded \/ StdExit \/ Exit \/ Crash PROVE FALSE
  BY <1>5 DEF SampleCounter, CallGetPerfCounter, AppEnded, StdExit, Exit, Crash,
     CounterUnchanged, vars
<1>6. ASSUME NEW ok \in BOOLEAN, DestroyEco(ok) PROVE FALSE
  BY <1>6 DEF DestroyEco, CounterUnchanged, vars
<1>7. ASSUME AppStep PROVE FALSE
  BY <1>7 DEF AppStep, AppExits, AppKilled, readerVars, Step, Goto, Launch, Add,
     Test, Open, Write, Close, ContextCreated, InitializeState, LockContexts,
     InitializeContextData, GetCounterAvailability, GetConfigImage,
     GetCounterDataPrefixImage, InitializeDataImage, Configures, UnlockContexts,
     EndExecution
<1>8. ASSUME UNCHANGED cudaVars PROVE FALSE
  BY <1>8 DEF cudaVars, vars
<1> QED
  BY <1>2, <1>3, <1>4, <1>5, <1>6, <1>7, <1>8 DEF CudaNext

\* What getPerfCounter returns is at most maxNumRanges launches old, at whatever
\* moment of a rewrite the file is read.
THEOREM CudaCountRecent ==
  ASSUME OneThread
  PROVE  CudaSpec => CountIsRecent
<1>1. ASSUME CounterInv, [CudaNext]_cudaVars, injected, reader = "in", reader' = "out"
      PROVE  value' <= launches /\ launches <= value' + maxNumRanges
  <2>1. /\ main \in {"run", "report"} /\ file # NoLine /\ value' = file
    BY <1>1, OnlyReadReturns DEF ReturnCounter, ReadFile
  <2>2. PICK t : Threads = {t}  BY DEF OneThread
  <2>3. CountedAt(t) /\ CounterType
    BY <1>1, <2>1, <2>2 DEF CounterInv, FileCounts
  <2>4. /\ maxNumRanges \in Nat \ {0} /\ pc[t] \in Resting \union Counting
        /\ globalCounter \in Nat
    BY <2>2, <2>3, RangesPositive DEF CounterType
  <2> QED
    BY <2>1, <2>3, <2>4 DEF CountedAt, Whole, Resting, Counting
<1>2. CounterInv /\ [CudaNext]_cudaVars =>
        [injected /\ reader = "in" /\ reader' = "out" =>
           value' <= launches /\ launches <= value' + maxNumRanges]_vars
  BY <1>1
<1> QED  BY <1>2, CounterInvariant, PTL DEF CudaSpec, CountIsRecent

=============================================================================
