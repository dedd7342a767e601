---------------------------- MODULE FoldProofs ----------------------------
(***************************************************************************)
(* The two modules that compute with folds over sequences: the limits of   *)
(* an Intel CPU, over every sequence of runs that end or are killed        *)
(* anywhere, and the trigger, over every sequence of samples.              *)
(*                                                                         *)
(* A fold is the last entry of a table that is filled from its first entry *)
(* on, so what it yields is shown by induction over the entries, with the  *)
(* entries that are as they should be for the set. For IntelLimits they    *)
(* give packages and directories; RunInv then follows the files: what a    *)
(* process has still to write makes up for what they do not hold yet. For  *)
(* PowerTrigger they give the bounds of a sum; TriggerInv then says which  *)
(* readings each average in filter_ is about.                              *)
(***************************************************************************)
EXTENDS IntelLimits, PowerTrigger, FiniteSetTheorems, WellFoundedInduction,
        TLAPS

-----------------------------------------------------------------------------
(* The dump *)

\* While the run that created the dump reads, the dump holds what is read.
DumpInv ==
  /\ DumpKeepsFirst
  /\ pc = "reading" => unread \subseteq Available
  /\ pc = "reading" /\ dumps =>
       /\ first = FirstPackage /\ DOMAIN dump = Available \ unread
       /\ \A d \in DOMAIN dump : /\ dump[d] = first[d]
                                /\ Before(d) \intersect Available \subseteq DOMAIN dump

LEMMA SameFirst ==
  ASSUME UNCHANGED <<machine, reg>>
  PROVE  FirstPackage' = FirstPackage /\ Available' = Available
BY DEF machine, FirstPackage, Available, dirs, profile, totalPackages, firstCores,
       ReadZone

\* The dump holds what the files of the first package held when it was
\* created, section after section, whatever runs and tools are killed
\* afterwards, and all of it once its creator has read the defaults.
THEOREM DumpKept == Spec => []DumpKeepsFirst
<1>1. Init => DumpInv
  BY DEF Init, DumpInv, DumpKeepsFirst
<1>2. DumpInv /\ [Next]_vars => DumpInv'
  <2> SUFFICES ASSUME DumpInv, [Next]_vars PROVE DumpInv'
    OBVIOUS
  <2>0. UNCHANGED machine /\ Available' = Available
    <3>1. UNCHANGED machine
      BY DEF Next, vars, machine, Start, ReadDefaults, InitRapl, MsrFails, SetLimit,
             Restore, MonitorEnds, SetPowerLimit, Write, Written, Exit, Crash
    <3> QED  BY <3>1 DEF machine, Available, profile
  <2> USE DEF DumpInv
  <2>1. ASSUME NEW isMonitor \in BOOLEAN, Start(isMonitor) PROVE DumpInv'
    <3>1. /\ pc' = "reading" /\ unread' = Available
          /\ FirstPackage' = FirstPackage
          /\ dumps' = (dump = Missing)
          /\ dump' = IF dump = Missing THEN <<>> ELSE dump
          /\ first' = IF dump = Missing THEN FirstPackage ELSE first
      BY <2>1, SameFirst DEF Start
    <3>2. DOMAIN <<>> = {}
      OBVIOUS
    <3>3. CASE dump = Missing
      BY <2>0, <3>1, <3>2, <3>3 DEF DumpKeepsFirst
    <3>4. CASE dump # Missing
      BY <2>0, <3>1, <3>4 DEF DumpKeepsFirst
    <3> QED  BY <3>3, <3>4
  <2>2. CASE ReadDefaults
    <3>1. PICK d \in unread :
            /\ Before(d) \intersect unread = {}
            /\ dump' = IF dumps THEN WithSection(d, FirstPackage[d]) ELSE dump
            /\ unread' = unread \ {d}
            /\ pc' = IF unread = {d} THEN "probing" ELSE "reading"
      BY <2>2 DEF ReadDefaults
    <3>2. /\ pc = "reading" /\ UNCHANGED <<dumps, first>> /\ d \in Available
          /\ FirstPackage' = FirstPackage /\ unread' \subseteq Available
      BY <2>2, <3>1, SameFirst DEF ReadDefaults
    <3>3. CASE ~dumps
      BY <2>0, <3>1, <3>2, <3>3 DEF DumpKeepsFirst
    <3>4. CASE dumps
      <4>1. /\ first = FirstPackage /\ DOMAIN dump = Available \ unread
            /\ dump' = [e \in DOMAIN dump \union {d} |->
                          IF e = d THEN FirstPackage[d] ELSE dump[e]]
        BY <3>1, <3>2, <3>4 DEF WithSection
      <4>2. /\ DOMAIN dump' = Available \ unread'
            /\ dump'[d] = first[d]
            /\ \A e \in DOMAIN dump : e # d => dump'[e] = dump[e]
        BY <3>1, <3>2, <4>1
      <4>3. Before(d) \intersect Available \subseteq DOMAIN dump'
        BY <3>1, <4>2
      <4>4. \A e \in DOMAIN dump : /\ dump[e] = first[e]
                                   /\ Before(e) \intersect Available \subseteq DOMAIN dump
        BY <3>2, <3>4
      <4>5. DOMAIN dump \subseteq DOMAIN dump'
        BY <3>1, <4>1, <4>2
      <4>6. \A e \in DOMAIN dump' :
              dump'[e] = first[e] /\ Before(e) \intersect Available \subseteq DOMAIN dump'
        BY <3>1, <4>1, <4>2, <4>3, <4>4, <4>5
      <4>7. pc' # "reading" => DOMAIN dump' = Available
        BY <3>1, <4>2
      <4> QED  BY <2>0, <3>2, <3>4, <4>1, <4>2, <4>6, <4>7 DEF DumpKeepsFirst, Before
    <3> QED  BY <3>3, <3>4
  <2>3. CASE /\ UNCHANGED <<dump, dumps, first>> /\ pc' # "reading"
             /\ \/ pc' \in {"off", "setting"}
                \/ pc \notin {"off", "reading", "setting"}
    BY <2>0, <2>3 DEF DumpKeepsFirst
  <2>4. CASE UNCHANGED <<dump, dumps, first, pc, unread, reg>>
    BY <2>0, <2>4, SameFirst DEF DumpKeepsFirst
  <2>5. \/ \E isMonitor \in BOOLEAN : Start(isMonitor)
        \/ ReadDefaults
        \/ UNCHANGED <<dump, dumps, first, pc, unread, reg>>
        \/ /\ UNCHANGED <<dump, dumps, first>> /\ pc' # "reading"
           /\ \/ pc' \in {"off", "setting"}
              \/ pc \notin {"off", "reading", "setting"}
    <3>1. CASE Write
      BY <3>1 DEF Write, run
    <3>2. CASE \/ (\E power \in IdlePowers : InitRapl(power)) \/ MsrFails
               \/ (\E c \in Caps : SetLimit(c))
               \/ Restore("writing") \/ Restore("ending") \/ MonitorEnds
               \/ (\E asked \in ToolLimits : SetPowerLimit(asked))
               \/ Written \/ Exit \/ Crash
      BY <3>2 DEF InitRapl, MsrFails, SetLimit, Restore, MonitorEnds, SetPowerLimit,
                  Written, Exit, Crash, run
    <3>3. CASE UNCHANGED vars
      BY <3>3 DEF vars
    <3> QED  BY <3>1, <3>2, <3>3 DEF Next
  <2> QED  BY <2>1, <2>2, <2>3, <2>4, <2>5
<1> QED  BY <1>1, <1>2, PTL DEF Spec, DumpInv

-----------------------------------------------------------------------------
(* Folds over a sequence *)

\* A set of natural numbers has a least element: induction, for sets.
LEMMA LeastNat ==
  ASSUME NEW T \in SUBSET Nat, T # {}
  PROVE  \E n \in T : \A m \in T : n <= m
<1> DEFINE R == OpToRel(<, Nat)
<1>1. IsWellFoundedOn(R, Nat)
  BY NatLessThanWellFounded
<1>2. \A i, j \in Nat : i < j => <<i, j>> \in R
  BY DEF OpToRel
<1> HIDE DEF R
<1>3. PICK n \in T : \A m \in T : <<m, n>> \notin R
  BY <1>1, WFMin
<1>4. \A m \in T : n <= m
  <2> SUFFICES ASSUME NEW m \in T PROVE n <= m
    OBVIOUS
  <2>1. m \in Nat /\ n \in Nat
    OBVIOUS
  <2>2. ~ (m < n)  BY <1>2, <1>3, <2>1
  <2> QED  BY <2>1, <2>2
<1> QED  BY <1>4

\* Induction over the first numbers, for sets.
LEMMA NumberInduction ==
  ASSUME NEW n \in Nat, NEW Good,
         0 \in Good, \A i \in 1 .. n : i - 1 \in Good => i \in Good
  PROVE  0 .. n \subseteq Good
<1> DEFINE T == {i \in 0 .. n : i \notin Good}
<1>1. SUFFICES ASSUME T # {} PROVE FALSE
  OBVIOUS
<1>2. PICK i \in T : \A m \in T : i <= m
  <2>1. T \in SUBSET Nat  OBVIOUS
  <2> HIDE DEF T
  <2> QED  BY <1>1, <2>1, LeastNat
<1>3. i # 0 /\ i \in 1 .. n /\ i - 1 \in 0 .. n
  BY <1>2
<1>4. i - 1 \notin T
  <2>1. i - 1 \in Nat /\ i \in Nat /\ i - 1 < i
    BY <1>3
  <2> HIDE DEF T
  <2> QED  BY <1>2, <2>1
<1> QED  BY <1>2, <1>3, <1>4

\* A fold from the left takes the last index out of a set of indices.
LEMMA LastIndex ==
  ASSUME NEW n \in Nat, NEW s \in SUBSET (1 .. n), s # {}
  PROVE  /\ Max(s) \in s /\ \A i \in s : i <= Max(s)
         /\ s \ {Max(s)} \in SUBSET (1 .. (Max(s) - 1))
         /\ Max(s) \in 1 .. n
<1> DEFINE T == {m \in Nat : \A i \in s : i <= m}
<1>1. T # {} /\ T \in SUBSET Nat
  <2>1. n \in T  OBVIOUS
  <2> QED  BY <2>1
<1>2. PICK m \in T : \A k \in T : m <= k
  <2> HIDE DEF T
  <2> QED  BY <1>1, LeastNat
<1>3. m \in s
  <2> SUFFICES ASSUME m \notin s PROVE FALSE
    OBVIOUS
  <2>1. \A i \in s : i \in Nat /\ i <= m /\ i # m /\ i > 0
    BY <1>2
  <2>2. m \in Nat /\ m # 0
    <3>1. PICK i \in s : TRUE  OBVIOUS
    <3> QED  BY <1>2, <2>1, <3>1
  <2>3. m - 1 \in T
    BY <2>1, <2>2
  <2> HIDE DEF T
  <2> QED  BY <1>2, <2>2, <2>3
<1>4. \A i \in s : m >= i
  BY <1>2
<1>5. Max(s) \in s /\ \A i \in s : Max(s) >= i
  BY <1>3, <1>4 DEF Max
<1> HIDE DEF T
<1>6. /\ Max(s) \in 1 .. n
      /\ \A i \in s : i \in 1 .. n /\ i <= Max(s)
  BY <1>5
<1>7. \A i \in s \ {Max(s)} : i \in 1 .. (Max(s) - 1)
  BY <1>6
<1> QED  BY <1>5, <1>6, <1>7

\* What a fold over 1 .. n chooses: each entry is made from that of a smaller
\* set of indices.
FoldTable(g, n, A, base, step) ==
  /\ g \in [SUBSET (1 .. n) -> A]
  /\ \A s \in SUBSET (1 .. n) :
       g[s] = IF s = {} THEN base ELSE step[Max(s)][g[s \ {Max(s)}]]

\* There is such a table when the step is a function on A.
LEMMA FoldTableExists ==
  ASSUME NEW n \in Nat, NEW A, NEW base \in A, NEW step \in [1 .. n -> [A -> A]]
  PROVE  \E g : FoldTable(g, n, A, base, step)
<1> DEFINE Table(g, i) ==
             /\ g \in [SUBSET (1 .. i) -> A]
             /\ \A s \in SUBSET (1 .. i) :
                  g[s] = IF s = {} THEN base
                         ELSE step[Max(s)][g[s \ {Max(s)}]]
           Good == {i \in 0 .. n : \E g : Table(g, i)}
<1>1. 0 \in Good
  <2>1. SUBSET (1 .. 0) = {{}}
    OBVIOUS
  <2>2. Table([s \in SUBSET (1 .. 0) |-> base], 0)
    BY <2>1
  <2>3. 0 \in 0 .. n  OBVIOUS
  <2> HIDE DEF Table
  <2> QED  BY <2>2, <2>3
<1>2. ASSUME NEW i \in 1 .. n, i - 1 \in Good PROVE i \in Good
  <2>1. PICK g : Table(g, i - 1)
    BY <1>2
  <2> DEFINE Turn(s) == IF s = {} THEN base
                        ELSE step[Max(s)][g[s \ {Max(s)}]]
             h == [s \in SUBSET (1 .. i) |-> Turn(s)]
  <2>2. ASSUME NEW s \in SUBSET (1 .. i), s # {}
        PROVE  /\ s \ {Max(s)} \in SUBSET (1 .. (i - 1))
               /\ Max(s) \in 1 .. n
    <3>1. i \in Nat  OBVIOUS
    <3>2. s \ {Max(s)} \in SUBSET (1 .. (Max(s) - 1)) /\ Max(s) \in 1 .. i
      BY <2>2, <3>1, LastIndex
    <3> QED  BY <3>2
  <2>3. ASSUME NEW s \in SUBSET (1 .. i) PROVE Turn(s) \in A
    <3>1. CASE s = {}
      BY <3>1
    <3>2. CASE s # {}
      <4>1. g[s \ {Max(s)}] \in A /\ Max(s) \in 1 .. n
        BY <2>1, <2>2, <3>2
      <4> QED  BY <3>2, <4>1
    <3> QED  BY <3>1, <3>2
  <2>4. ASSUME NEW u \in SUBSET (1 .. (i - 1)) PROVE h[u] = g[u]
    <3>1. u \in SUBSET (1 .. i)  OBVIOUS
    <3>2. h[u] = Turn(u)  BY <3>1
    <3> QED  BY <2>1, <3>2
  <2>5. ASSUME NEW s \in SUBSET (1 .. i)
        PROVE  h[s] = IF s = {} THEN base ELSE step[Max(s)][h[s \ {Max(s)}]]
    <3>1. h[s] = Turn(s)  OBVIOUS
    <3>2. s # {} => h[s \ {Max(s)}] = g[s \ {Max(s)}]
      BY <2>2, <2>4
    <3> HIDE DEF h
    <3> QED  BY <3>1, <3>2
  <2>6. h \in [SUBSET (1 .. i) -> A]
    <3> HIDE DEF Turn
    <3> QED  BY <2>3
  <2>7. Table(h, i)
    <3> HIDE DEF h, Turn
    <3> QED  BY <2>5, <2>6
  <2>8. i \in 0 .. n  OBVIOUS
  <2> HIDE DEF Table, h
  <2> QED  BY <2>7, <2>8
<1>3. 0 .. n \subseteq Good
  <2> HIDE DEF Good
  <2> QED  BY <1>1, <1>2, NumberInduction
<1>4. PICK g : Table(g, n)
  <2>1. n \in 0 .. n  OBVIOUS
  <2> HIDE DEF Table
  <2> QED  BY <1>3, <2>1
<1> QED  BY <1>4 DEF FoldTable

-----------------------------------------------------------------------------
(* The packages *)

\* A core at which detectPackages finds a package is appended.
Found(c, cores, i) ==
  IF Len(cores) <= Scanned(c)[i] THEN Append(cores, i) ELSE cores

\* The fold of detectPackages, core by core.
LEMMA PackageTable ==
  ASSUME NEW c \in Seq(Nat)
  PROVE  \E g : /\ g[{}] = <<>>
                /\ \A i \in 1 .. Len(c) :
                     g[1 .. i] = Found(c, g[1 .. (i - 1)], i)
                /\ detectPackages(c) = g[1 .. Len(c)]
<1> DEFINE n == Len(c)
           A == Seq(Nat)
           step == [i \in 1 .. n |-> [a \in A |-> Found(c, a, i)]]
           ids == [i \in DOMAIN Scanned(c) |-> i]
           Entry(g, s) == IF s = {} THEN <<>>
                          ELSE Found(c, g[s \ {Max(s)}], ids[Max(s)])
           T == CHOOSE g : g = [s \in SUBSET DOMAIN ids |-> Entry(g, s)]
<1>1. n \in Nat /\ Offline \notin Nat /\ \A i \in DOMAIN c : c[i] \in Nat
  BY IntelAssumption
<1>2. Scanned(c) = c /\ DOMAIN c = 1 .. n
  BY <1>1 DEF Scanned
<1>3. detectPackages(c) = T[1 .. n]
  <2>1. detectPackages(c) = T[DOMAIN ids]
    BY DEF detectPackages, FoldLeft, MapThenFoldSet, Found
  <2>2. DOMAIN ids = 1 .. n
    BY <1>2
  <2> QED  BY <2>1, <2>2, Zenon
<1>4. T = [s \in SUBSET (1 .. n) |-> Entry(T, s)]
  <2>1. step \in [1 .. n -> [A -> A]]
    <3>1. ASSUME NEW a \in A, NEW i \in 1 .. n PROVE Found(c, a, i) \in A
      BY <1>1 DEF Found
    <3> QED  BY <3>1
  <2>2. PICK g : FoldTable(g, n, A, <<>>, step)
    <3>1. <<>> \in A  OBVIOUS
    <3> HIDE DEF step, n, A
    <3> QED  BY <1>1, <2>1, <3>1, FoldTableExists
  <2>3. ASSUME NEW s \in SUBSET (1 .. n) PROVE g[s] = Entry(g, s)
    <3>1. CASE s = {}
      BY <2>2, <3>1 DEF FoldTable
    <3>2. CASE s # {}
      <4>1. Max(s) \in 1 .. n /\ s \ {Max(s)} \in SUBSET (1 .. n)
        BY <1>1, <3>2, LastIndex
      <4>2. step[Max(s)][g[s \ {Max(s)}]] = Found(c, g[s \ {Max(s)}], Max(s))
        BY <2>2, <4>1 DEF FoldTable
      <4>3. ids[Max(s)] = Max(s)
        BY <1>2, <4>1
      <4> QED  BY <2>2, <3>2, <4>2, <4>3 DEF FoldTable
    <3> QED  BY <3>1, <3>2
  <2>4. g = [s \in SUBSET (1 .. n) |-> Entry(g, s)]
    <3> HIDE DEF Entry, n, A
    <3> QED  BY <2>2, <2>3 DEF FoldTable
  <2>5. DOMAIN ids = 1 .. n
    BY <1>2
  <2> HIDE DEF Entry, n, ids
  <2>6. g = [s \in SUBSET DOMAIN ids |-> Entry(g, s)]
    BY <2>4, <2>5
  <2>7. T = [s \in SUBSET DOMAIN ids |-> Entry(T, s)]
    BY <2>6, Zenon
  <2> QED  BY <2>5, <2>7
<1>5. T[{}] = <<>>
  <2> HIDE DEF T, n
  <2> QED  BY <1>4
<1>6. ASSUME NEW i \in 1 .. n PROVE T[1 .. i] = Found(c, T[1 .. (i - 1)], i)
  <2>1. 1 .. i \in SUBSET (1 .. n) /\ i \in 1 .. i
    BY <1>1
  <2>2. Max(1 .. i) = i
    <3>1. Max(1 .. i) \in 1 .. i /\ i <= Max(1 .. i)
      <4>1. i \in Nat
        BY <1>1
      <4>2. 1 .. i \in SUBSET (1 .. i) /\ 1 .. i # {}
        BY <2>1
      <4> HIDE DEF n
      <4> QED  BY <2>1, <4>1, <4>2, LastIndex
    <3> QED  BY <1>1, <3>1
  <2>3. (1 .. i) \ {i} = 1 .. (i - 1)
    OBVIOUS
  <2>4. T[1 .. i] = Entry(T, 1 .. i)
    <3> HIDE DEF T, n, Entry
    <3> QED  BY <1>4, <2>1
  <2>5. ids[i] = i
    BY <1>2
  <2> HIDE DEF T
  <2> QED  BY <2>1, <2>2, <2>3, <2>4, <2>5
<1> HIDE DEF T
<1> QED  BY <1>3, <1>5, <1>6

\* On a processor the loop is right for, the first cores of the packages are
\* found, and the package ids are those from 0 on.
LEMMA PackagesFound ==
  ASSUME NEW c \in Seq(Nat), c # <<>>, Regular(c)
  PROVE  /\ detectPackages(c) \in Seq(Nat)
         /\ {c[i] : i \in DOMAIN c} = 0 .. Len(detectPackages(c)) - 1
         /\ \A k \in 1 .. Len(detectPackages(c)) :
              c[detectPackages(c)[k]] = k - 1
         /\ Len(detectPackages(c)) \in Nat \ {0}
<1> DEFINE n == Len(c)
           Right(cores, i) ==
             /\ cores \in Seq(1 .. n)
             /\ {c[j] : j \in 1 .. i} = 0 .. Len(cores) - 1
             /\ \A k \in 1 .. Len(cores) : c[cores[k]] = k - 1
<1>1. n \in Nat \ {0} /\ DOMAIN c = 1 .. n /\ \A i \in 1 .. n : c[i] \in Nat
  OBVIOUS
<1>2. \A i \in 1 .. n :
        c[i] = 0 \/ \E j \in 1 .. i - 1 : c[j] = c[i] \/ c[j] = c[i] - 1
  BY <1>1 DEF Regular
<1>3. Scanned(c) = c
  BY <1>1, IntelAssumption DEF Scanned
<1>4. PICK g : /\ g[{}] = <<>>
               /\ \A i \in 1 .. Len(c) :
                    g[1 .. i] = Found(c, g[1 .. (i - 1)], i)
               /\ detectPackages(c) = g[1 .. Len(c)]
  BY PackageTable
<1> DEFINE Good == {i \in 0 .. n : Right(g[1 .. i], i)}
<1>5. 0 \in Good
  <2>1. 1 .. 0 = {}  OBVIOUS
  <2>2. g[1 .. 0] = <<>>
    BY <1>4, <2>1
  <2>3. Right(<<>>, 0)
    BY <1>1
  <2>4. 0 \in 0 .. n
    BY <1>1
  <2> HIDE DEF Right
  <2> QED  BY <2>2, <2>3, <2>4
<1>6. ASSUME NEW i \in 1 .. n, i - 1 \in Good PROVE i \in Good
  <2> DEFINE f == g[1 .. (i - 1)]
  <2>1. Right(f, i - 1)
    <3> HIDE DEF Right
    <3> QED  BY <1>6
  <2>2. g[1 .. i] = IF Len(f) <= c[i] THEN Append(f, i) ELSE f
    BY <1>3, <1>4 DEF Found
  <2> HIDE DEF f
  <2>3. i \in Nat /\ Len(f) \in Nat /\ c[i] \in Nat
    BY <1>1, <2>1
  <2>4. \A j \in 1 .. i - 1 : c[j] \in 0 .. Len(f) - 1
    BY <2>1
  <2>5. {c[j] : j \in 1 .. i} = {c[j] : j \in 1 .. i - 1} \union {c[i]}
    <3>1. 1 .. i = 1 .. (i - 1) \union {i}  OBVIOUS
    <3> QED  BY <3>1
  <2>6. CASE Len(f) <= c[i]
    <3>1. c[i] = Len(f)
      <4>1. CASE c[i] = 0
        BY <2>3, <2>6, <4>1
      <4>2. CASE c[i] # 0
        <5>1. PICK j \in 1 .. i - 1 : c[j] = c[i] \/ c[j] = c[i] - 1
          BY <1>2, <4>2
        <5> QED  BY <2>3, <2>4, <2>6, <5>1
      <4> QED  BY <4>1, <4>2
    <3> DEFINE a == Append(f, i)
    <3>2. /\ a \in Seq(1 .. n) /\ Len(a) = Len(f) + 1
          /\ \A k \in 1 .. Len(f) : a[k] = f[k]
          /\ a[Len(f) + 1] = i
      BY <2>1, <2>3
    <3>3. g[1 .. i] = a
      BY <2>2, <2>6
    <3> HIDE DEF a
    <3>4. (0 .. Len(f) - 1) \union {c[i]} = 0 .. Len(a) - 1
      <4>1. \A m \in Nat : (0 .. m - 1) \union {m} = 0 .. (m + 1) - 1
        OBVIOUS
      <4> QED  BY <2>3, <3>1, <3>2, <4>1
    <3>5. ASSUME NEW k \in 1 .. Len(a) PROVE c[a[k]] = k - 1
      <4>1. k \in 1 .. Len(f) \/ k = Len(f) + 1
        BY <2>3, <3>2
      <4>2. CASE k \in 1 .. Len(f)
        <5>1. a[k] = f[k] /\ c[f[k]] = k - 1
          BY <2>1, <3>2, <4>2
        <5> QED  BY <5>1
      <4>3. CASE k = Len(f) + 1
        <5>1. a[k] = i /\ c[i] = k - 1
          BY <2>3, <3>1, <3>2, <4>3
        <5> QED  BY <5>1
      <4> QED  BY <4>1, <4>2, <4>3
    <3>6. Right(a, i)
      BY <2>1, <2>5, <3>2, <3>4, <3>5
    <3>7. i \in 0 .. n
      BY <2>3
    <3> HIDE DEF Right
    <3> QED  BY <3>3, <3>6, <3>7
  <2>7. CASE ~(Len(f) <= c[i])
    <3>1. c[i] \in 0 .. Len(f) - 1
      BY <2>3, <2>7
    <3>2. Right(f, i)
      BY <2>1, <2>5, <3>1
    <3> HIDE DEF Right
    <3> QED  BY <2>2, <2>7, <3>2
  <2> QED  BY <2>6, <2>7
<1>7. 0 .. n \subseteq Good
  <2> HIDE DEF Good
  <2> QED  BY <1>1, <1>5, <1>6, NumberInduction
<1>8. Right(detectPackages(c), n)
  <2>1. n \in 0 .. n  BY <1>1
  <2> HIDE DEF Right
  <2> QED  BY <1>4, <1>7, <2>1
<1> DEFINE cores == detectPackages(c)
<1>9. c[1] \in 0 .. Len(cores) - 1
  BY <1>1, <1>8
<1>10. Len(cores) \in Nat /\ cores \in Seq(Nat)
  BY <1>8
<1> HIDE DEF cores
<1>11. Len(cores) # 0
  BY <1>9, <1>10
<1> QED  BY <1>1, <1>8, <1>10, <1>11 DEF cores

-----------------------------------------------------------------------------
(* The directories *)

DirsRecords == [pkg : Seq(Seq(Nat)), pp0 : Seq(Seq(Nat)), pp1 : Seq(Seq(Nat)),
                dram : Seq(Seq(Nat))]

Profiles == [pp0 : BOOLEAN, pp1 : BOOLEAN, dram : BOOLEAN]

LEMMA ProfileOfModel ==
  ASSUME NEW m
  PROVE  powerProfile(m) \in Profiles /\ (powerProfile(m).pp1 => powerProfile(m).pp0)
BY DEF powerProfile, Profile, Profiles

LEMMA AddDirsType ==
  ASSUME NEW a \in Profiles, NEW D \in DirsRecords, NEW p \in Nat
  PROVE  AddDirs(a, D, p) \in DirsRecords
<1>1. <<p>> \in Seq(Nat) /\ <<p, 0>> \in Seq(Nat) /\ <<p, 1>> \in Seq(Nat)
      /\ <<p, 2>> \in Seq(Nat)
  OBVIOUS
<1>2. \A s \in Seq(Seq(Nat)), z \in Seq(Nat) : Append(s, z) \in Seq(Seq(Nat))
  OBVIOUS
<1>3. /\ D.pkg \in Seq(Seq(Nat)) /\ D.pp0 \in Seq(Seq(Nat))
      /\ D.pp1 \in Seq(Seq(Nat)) /\ D.dram \in Seq(Seq(Nat))
  BY DEF DirsRecords
<1> DEFINE R == AddDirs(a, D, p)
<1>4. /\ R.pkg \in Seq(Seq(Nat)) /\ R.pp0 \in Seq(Seq(Nat))
      /\ R.pp1 \in Seq(Seq(Nat)) /\ R.dram \in Seq(Seq(Nat))
      /\ R = [pkg |-> R.pkg, pp0 |-> R.pp0, pp1 |-> R.pp1, dram |-> R.dram]
  BY <1>1, <1>2, <1>3 DEF AddDirs
<1> HIDE DEF R
<1>5. R \in DirsRecords
  BY <1>4 DEF DirsRecords
<1> QED  BY <1>5 DEF R

\* The fold of prepareRaplDirs, package by package.
LEMMA DirsTable ==
  ASSUME NEW a \in Profiles, NEW n \in Nat
  PROVE  \E g : /\ g[{}] = NoDirs
                /\ \A i \in 1 .. n :
                     g[1 .. i] = AddDirs(a, g[1 .. (i - 1)], i - 1)
                /\ prepareRaplDirs(a, n) = g[1 .. n]
<1> DEFINE A == DirsRecords
           step == [i \in 1 .. n |-> [D \in A |-> AddDirs(a, D, i - 1)]]
           ids == [i \in 1 .. n |-> i - 1]
           Entry(g, s) == IF s = {} THEN NoDirs
                          ELSE AddDirs(a, g[s \ {Max(s)}], ids[Max(s)])
           T == CHOOSE g : g = [s \in SUBSET DOMAIN ids |-> Entry(g, s)]
<1>1. DOMAIN ids = 1 .. n
  OBVIOUS
<1>3. prepareRaplDirs(a, n) = T[1 .. n]
  <2>1. prepareRaplDirs(a, n) = T[DOMAIN ids]
    BY DEF prepareRaplDirs, FoldLeft, MapThenFoldSet
  <2> QED  BY <2>1, <1>1, Zenon
<1>4. T = [s \in SUBSET (1 .. n) |-> Entry(T, s)]
  <2>1. step \in [1 .. n -> [A -> A]]
    <3>1. ASSUME NEW D \in A, NEW i \in 1 .. n PROVE AddDirs(a, D, i - 1) \in A
      BY AddDirsType
    <3> HIDE DEF A
    <3> QED  BY <3>1
  <2>2. PICK g : FoldTable(g, n, A, NoDirs, step)
    <3>1. NoDirs \in A
      BY DEF NoDirs, DirsRecords
    <3> HIDE DEF step, A
    <3> QED  BY <2>1, <3>1, FoldTableExists
  <2>3. ASSUME NEW s \in SUBSET (1 .. n) PROVE g[s] = Entry(g, s)
    <3>1. CASE s = {}
      BY <2>2, <3>1 DEF FoldTable
    <3>2. CASE s # {}
      <4>1. Max(s) \in 1 .. n /\ s \ {Max(s)} \in SUBSET (1 .. n)
        BY <3>2, LastIndex
      <4>2. step[Max(s)][g[s \ {Max(s)}]]
              = AddDirs(a, g[s \ {Max(s)}], Max(s) - 1)
        BY <2>2, <4>1 DEF FoldTable
      <4>3. ids[Max(s)] = Max(s) - 1
        BY <4>1
      <4> QED  BY <2>2, <3>2, <4>2, <4>3 DEF FoldTable
    <3> QED  BY <3>1, <3>2
  <2>4. g = [s \in SUBSET (1 .. n) |-> Entry(g, s)]
    <3> HIDE DEF Entry, A
    <3> QED  BY <2>2, <2>3 DEF FoldTable
  <2> HIDE DEF Entry, ids
  <2>6. g = [s \in SUBSET DOMAIN ids |-> Entry(g, s)]
    BY <1>1, <2>4
  <2>7. T = [s \in SUBSET DOMAIN ids |-> Entry(T, s)]
    BY <2>6, Zenon
  <2> QED  BY <1>1, <2>7
<1>5. T[{}] = NoDirs
  <2> HIDE DEF T
  <2> QED  BY <1>4
<1>6. ASSUME NEW i \in 1 .. n PROVE T[1 .. i] = AddDirs(a, T[1 .. (i - 1)], i - 1)
  <2>1. 1 .. i \in SUBSET (1 .. n) /\ i \in 1 .. i /\ i \in Nat
    OBVIOUS
  <2>2. Max(1 .. i) = i
    <3>1. Max(1 .. i) \in 1 .. i /\ i <= Max(1 .. i)
      <4>1. 1 .. i \in SUBSET (1 .. i) /\ 1 .. i # {}
        BY <2>1
      <4> QED  BY <2>1, <4>1, LastIndex
    <3> QED  BY <3>1
  <2>3. (1 .. i) \ {i} = 1 .. (i - 1)
    OBVIOUS
  <2>4. T[1 .. i] = Entry(T, 1 .. i)
    <3> HIDE DEF T, Entry
    <3> QED  BY <1>4, <2>1
  <2>5. ids[i] = i - 1
    OBVIOUS
  <2> HIDE DEF T
  <2> QED  BY <2>1, <2>2, <2>3, <2>4, <2>5
<1> HIDE DEF T
<1> QED  BY <1>3, <1>5, <1>6

PowerDomains == {"pkg", "pp0", "pp1", "dram"}

\* The zone of a domain of package p, as the driver numbers it.
ZoneOf(a, d, p) == IF d = "pkg" THEN <<p>> ELSE <<p, SubZone(a, d)>>

\* Only the first package has a DRAM directory when there is PP0 and not PP1.
OnlyFirst(a, d) == d = "dram" /\ a.pp0 /\ ~a.pp1

DirsOf(a, d, n) ==
  IF d # "pkg" /\ ~a[d] THEN 0 ELSE IF OnlyFirst(a, d) /\ n > 1 THEN 1 ELSE n

\* What one turn of prepareRaplDirsFromAvailableDomains adds for a domain.
LEMMA AddedDir ==
  ASSUME NEW a \in Profiles, a.pp1 => a.pp0, NEW D \in DirsRecords,
         NEW p \in Nat, NEW d \in PowerDomains
  PROVE  AddDirs(a, D, p)[d] =
           IF /\ d = "pkg" \/ a[d]
              /\ OnlyFirst(a, d) => D[d] = <<>>
           THEN Append(D[d], ZoneOf(a, d, p)) ELSE D[d]
<1>1. a.pp0 \in BOOLEAN /\ a.pp1 \in BOOLEAN /\ a.dram \in BOOLEAN
  BY DEF Profiles
<1>2. OnlyFirst(a, "dram") => SubZone(a, "dram") = 1
  BY <1>1 DEF OnlyFirst, SubZone, One
<1>3. CASE d = "pkg"
  BY <1>3 DEF AddDirs, ZoneOf, OnlyFirst
<1>4. CASE d = "pp0"
  BY <1>1, <1>4 DEF AddDirs, ZoneOf, OnlyFirst, SubZone
<1>5. CASE d = "pp1"
  <2>1. a.pp1 => SubZone(a, "pp1") = 1
    BY DEF SubZone, One
  <2> QED  BY <1>1, <1>5, <2>1 DEF AddDirs, ZoneOf, OnlyFirst
<1>6. CASE d = "dram"
  <2>1. a.pp1 => SubZone(a, "dram") = 2
    BY DEF SubZone, One
  <2>2. ~a.pp0 /\ ~a.pp1 => SubZone(a, "dram") = 0
    BY DEF SubZone, One
  <2> QED  BY <1>1, <1>2, <1>6, <2>1, <2>2 DEF AddDirs, ZoneOf, OnlyFirst
<1> QED  BY <1>3, <1>4, <1>5, <1>6 DEF PowerDomains

\* The directories are the zones of the domains, package by package.
LEMMA DirsFound ==
  ASSUME NEW a \in Profiles, a.pp1 => a.pp0, NEW n \in Nat
  PROVE  /\ prepareRaplDirs(a, n) \in DirsRecords
         /\ \A d \in PowerDomains :
              /\ prepareRaplDirs(a, n)[d] \in Seq(Seq(Nat))
              /\ Len(prepareRaplDirs(a, n)[d]) = DirsOf(a, d, n)
              /\ \A i \in 1 .. DirsOf(a, d, n) :
                   prepareRaplDirs(a, n)[d][i] = ZoneOf(a, d, i - 1)
<1> DEFINE Right(D, i) ==
             /\ D \in DirsRecords
             /\ \A d \in PowerDomains :
                  /\ D[d] \in Seq(Seq(Nat))
                  /\ Len(D[d]) = DirsOf(a, d, i)
                  /\ \A k \in 1 .. DirsOf(a, d, i) : D[d][k] = ZoneOf(a, d, k - 1)
<1>1. PICK g : /\ g[{}] = NoDirs
               /\ \A i \in 1 .. n :
                    g[1 .. i] = AddDirs(a, g[1 .. (i - 1)], i - 1)
               /\ prepareRaplDirs(a, n) = g[1 .. n]
  BY DirsTable
<1> DEFINE Good == {i \in 0 .. n : Right(g[1 .. i], i)}
<1>2. 0 \in Good
  <2>1. 1 .. 0 = {}  OBVIOUS
  <2>2. g[1 .. 0] = NoDirs
    BY <1>1, <2>1
  <2>3. \A d \in PowerDomains : DirsOf(a, d, 0) = 0 /\ NoDirs[d] = <<>>
    BY DEF DirsOf, NoDirs, PowerDomains
  <2>4. Right(NoDirs, 0)
    <3>1. NoDirs \in DirsRecords
      BY DEF DirsRecords, NoDirs
    <3>2. \A d \in PowerDomains :
            NoDirs[d] \in Seq(Seq(Nat)) /\ Len(NoDirs[d]) = 0
      <4>1. <<>> \in Seq(Seq(Nat)) /\ Len(<<>>) = 0
        OBVIOUS
      <4> QED  BY <2>3, <4>1, Zenon
    <3>3. \A d \in PowerDomains : \A k \in 1 .. DirsOf(a, d, 0) : FALSE
      BY <2>3
    <3> QED  BY <2>3, <3>1, <3>2, <3>3
  <2>5. 0 \in 0 .. n
    OBVIOUS
  <2> HIDE DEF Right
  <2> QED  BY <2>2, <2>4, <2>5
<1>3. ASSUME NEW i \in 1 .. n, i - 1 \in Good PROVE i \in Good
  <2> DEFINE D == g[1 .. (i - 1)]
             E == g[1 .. i]
  <2>1. Right(D, i - 1)
    <3> HIDE DEF Right
    <3> QED  BY <1>3
  <2>2. E = AddDirs(a, D, i - 1)
    BY <1>1
  <2> HIDE DEF D, E
  <2>3. i \in Nat /\ i - 1 \in Nat /\ i >= 1
    OBVIOUS
  <2>4. E \in DirsRecords
    BY <2>1, <2>2, <2>3, AddDirsType
  <2>5. ASSUME NEW d \in PowerDomains
        PROVE  /\ E[d] \in Seq(Seq(Nat))
               /\ Len(E[d]) = DirsOf(a, d, i)
               /\ \A k \in 1 .. DirsOf(a, d, i) : E[d][k] = ZoneOf(a, d, k - 1)
    <3> DEFINE old == D[d]
               zone == ZoneOf(a, d, i - 1)
               m == DirsOf(a, d, i - 1)
    <3>1. /\ old \in Seq(Seq(Nat)) /\ Len(old) = m
          /\ \A k \in 1 .. m : old[k] = ZoneOf(a, d, k - 1)
      BY <2>1
    <3>2. E[d] = IF (d = "pkg" \/ a[d]) /\ (OnlyFirst(a, d) => old = <<>>)
                 THEN Append(old, zone) ELSE old
      BY <2>1, <2>2, <2>3, AddedDir
    <3>3. zone \in Seq(Nat)
      <4>1. One(a.pp0) \in Nat /\ One(a.pp1) \in Nat
        BY DEF One
      <4>2. d # "pkg" => SubZone(a, d) \in Nat
        BY <4>1 DEF SubZone, PowerDomains
      <4> QED  BY <2>3, <4>2 DEF ZoneOf
    <3>4. old = <<>> <=> m = 0
      BY <3>1
    <3> HIDE DEF old
    <3>5. CASE (d = "pkg" \/ a[d]) /\ (OnlyFirst(a, d) => old = <<>>)
      <4>1. m = i - 1 /\ DirsOf(a, d, i) = i
        BY <2>3, <3>4, <3>5 DEF DirsOf
      <4> HIDE DEF zone, m
      <4>2. E[d] = Append(old, zone)
        BY <3>2, <3>5
      <4>3. /\ E[d] \in Seq(Seq(Nat)) /\ Len(E[d]) = i /\ E[d][i] = zone
            /\ \A k \in 1 .. i - 1 : E[d][k] = old[k]
        BY <2>3, <3>1, <3>3, <4>1, <4>2
      <4> QED  BY <2>3, <3>1, <4>1, <4>3 DEF zone
    <3>6. CASE ~((d = "pkg" \/ a[d]) /\ (OnlyFirst(a, d) => old = <<>>))
      <4>1. DirsOf(a, d, i) = m
        BY <2>3, <3>4, <3>6 DEF DirsOf
      <4> QED  BY <3>1, <3>2, <3>6, <4>1
    <3> QED  BY <3>5, <3>6
  <2>6. Right(E, i)
    BY <2>4, <2>5
  <2>7. i \in 0 .. n
    OBVIOUS
  <2> HIDE DEF Right
  <2> QED  BY <2>6, <2>7 DEF E
<1>4. 0 .. n \subseteq Good
  <2> HIDE DEF Good
  <2> QED  BY <1>2, <1>3, NumberInduction
<1>5. Right(prepareRaplDirs(a, n), n)
  <2>1. n \in 0 .. n
    OBVIOUS
  <2> HIDE DEF Right
  <2> QED  BY <1>1, <1>4, <2>1
<1> QED  BY <1>5

-----------------------------------------------------------------------------
(* Sequences of writes *)

LEMMA RangeConcat ==
  ASSUME NEW T, NEW s \in Seq(T), NEW t \in Seq(T)
  PROVE  s \o t \in Seq(T) /\ Range(s \o t) = Range(s) \union Range(t)
<1>1. /\ s \o t \in Seq(T) /\ Len(s \o t) = Len(s) + Len(t)
      /\ \A i \in 1 .. Len(s) + Len(t) :
           (s \o t)[i] = IF i <= Len(s) THEN s[i] ELSE t[i - Len(s)]
  OBVIOUS
<1>2. Len(s) \in Nat /\ Len(t) \in Nat /\ DOMAIN s = 1 .. Len(s)
      /\ DOMAIN t = 1 .. Len(t)
  OBVIOUS
<1> DEFINE u == s \o t
<1>3. DOMAIN u = 1 .. Len(s) + Len(t)
  BY <1>1, <1>2
<1>4. \A i \in DOMAIN s : i \in DOMAIN u /\ u[i] = s[i]
  BY <1>1, <1>2, <1>3
<1>5. \A i \in DOMAIN t : Len(s) + i \in DOMAIN u /\ u[Len(s) + i] = t[i]
  BY <1>1, <1>2, <1>3
<1>6. \A i \in DOMAIN u : \/ i \in DOMAIN s /\ u[i] = s[i]
                          \/ i - Len(s) \in DOMAIN t /\ u[i] = t[i - Len(s)]
  BY <1>1, <1>2, <1>3
<1> HIDE DEF u
<1>7. Range(u) = Range(s) \union Range(t)
  BY <1>4, <1>5, <1>6 DEF Range
<1> QED  BY <1>1, <1>7 DEF u

LEMMA RangeTail ==
  ASSUME NEW T, NEW s \in Seq(T), s # <<>>
  PROVE  /\ Head(s) \in T /\ Tail(s) \in Seq(T)
         /\ Range(s) = {Head(s)} \union Range(Tail(s))
<1>1. /\ Tail(s) \in Seq(T) /\ Len(Tail(s)) = Len(s) - 1 /\ Len(s) \in Nat \ {0}
      /\ \A i \in 1 .. Len(s) - 1 : Tail(s)[i] = s[i + 1]
      /\ Head(s) = s[1] /\ DOMAIN s = 1 .. Len(s) /\ s[1] \in T
  OBVIOUS
<1> DEFINE u == Tail(s)
<1>2. DOMAIN u = 1 .. Len(s) - 1
  BY <1>1
<1>3. \A i \in DOMAIN s : i = 1 \/ (i - 1 \in DOMAIN u /\ u[i - 1] = s[i])
  BY <1>1, <1>2
<1>4. \A i \in DOMAIN u : i + 1 \in DOMAIN s /\ u[i] = s[i + 1]
  BY <1>1, <1>2
<1> HIDE DEF u
<1>5. 1 \in DOMAIN s
  BY <1>1
<1>6. Range(s) = {Head(s)} \union Range(u)
  BY <1>1, <1>3, <1>4, <1>5 DEF Range
<1> QED  BY <1>1, <1>6 DEF u

LEMMA FlattenRange ==
  ASSUME NEW T, NEW ss \in Seq(Seq(T))
  PROVE  /\ FlattenSeq(ss) \in Seq(T)
         /\ Range(FlattenSeq(ss)) = UNION {Range(ss[i]) : i \in DOMAIN ss}
<1> DEFINE n == Len(ss)
           Rule(f, k) == IF k = 1 THEN ss[k] ELSE f[k - 1] \o ss[k]
           Table(f, i) == /\ f \in [1 .. i -> Seq(T)]
                          /\ \A k \in 1 .. i : f[k] = Rule(f, k)
           F == CHOOSE f : f = [i \in 1 .. n |-> Rule(f, i)]
           Good == {i \in 0 .. n : \E f : Table(f, i)}
<1>1. n \in Nat /\ DOMAIN ss = 1 .. n /\ \A i \in 1 .. n : ss[i] \in Seq(T)
  OBVIOUS
<1>2. CASE n = 0
  <2>1. ss = <<>>
    BY <1>1, <1>2
  <2>2. FlattenSeq(ss) = <<>>
    BY <2>1 DEF FlattenSeq
  <2>3. DOMAIN ss = {} /\ Range(<<>>) = {} /\ <<>> \in Seq(T)
    BY <1>1, <1>2 DEF Range
  <2> QED  BY <2>2, <2>3
<1>3. CASE n # 0
  <2>1. FlattenSeq(ss) = F[n]
    <3>1. ~(Len(ss) = 0)
      BY <1>3
    <3> QED  BY <3>1 DEF FlattenSeq
  <2>2. 0 \in Good
    <3>1. Table([i \in 1 .. 0 |-> <<>>], 0)
      BY <1>1
    <3>2. 0 \in 0 .. n
      BY <1>1
    <3> HIDE DEF Table, n
    <3> QED  BY <3>1, <3>2
  <2>3. ASSUME NEW i \in 1 .. n, i - 1 \in Good PROVE i \in Good
    <3>1. PICK f : Table(f, i - 1)
      BY <2>3
    <3> DEFINE h == [k \in 1 .. i |-> Rule(f, k)]
    <3>2. i \in Nat /\ i >= 1
      BY <1>1
    <3>3. ASSUME NEW k \in 1 .. i PROVE Rule(f, k) \in Seq(T)
      <4>1. ss[k] \in Seq(T)
        BY <1>1, <3>2
      <4>2. CASE k = 1
        BY <4>1, <4>2
      <4>3. CASE k # 1
        <5>1. f[k - 1] \in Seq(T)
          BY <3>1, <3>2, <4>3
        <5>2. f[k - 1] \o ss[k] \in Seq(T)
          BY <4>1, <5>1
        <5> QED  BY <4>3, <5>2
      <4> QED  BY <4>2, <4>3
    <3>4. ASSUME NEW k \in 1 .. i PROVE h[k] = Rule(h, k)
      <4>1. h[k] = Rule(f, k)
        OBVIOUS
      <4>2. k # 1 => h[k - 1] = f[k - 1]
        <5>1. k # 1 => k - 1 \in 1 .. i /\ k - 1 \in 1 .. (i - 1)
          BY <3>2
        <5>2. k # 1 => h[k - 1] = Rule(f, k - 1) /\ f[k - 1] = Rule(f, k - 1)
          <6> HIDE DEF Rule
          <6> QED  BY <3>1, <5>1
        <5> QED  BY <5>2
      <4> HIDE DEF h
      <4> QED  BY <4>1, <4>2
    <3>5. h \in [1 .. i -> Seq(T)]
      <4> HIDE DEF Rule
      <4> QED  BY <3>3
    <3>6. Table(h, i)
      <4> HIDE DEF h, Rule
      <4> QED  BY <3>4, <3>5
    <3>7. i \in 0 .. n
      BY <1>1
    <3> HIDE DEF Table, h
    <3> QED  BY <3>6, <3>7
  <2>4. PICK f : Table(f, n)
    <3>1. 0 .. n \subseteq Good
      <4> HIDE DEF Good, n
      <4> QED  BY <1>1, <2>2, <2>3, NumberInduction
    <3>2. n \in 0 .. n
      BY <1>1
    <3> HIDE DEF Table, n
    <3> QED  BY <3>1, <3>2
  <2>5. F = [i \in 1 .. n |-> Rule(F, i)]
    <3> HIDE DEF Rule, n
    <3>1. f = [i \in 1 .. n |-> Rule(f, i)]
      BY <2>4
    <3> QED  BY <3>1, Zenon
  <2>6. \A i \in 1 .. n : F[i] = Rule(F, i)
    <3> HIDE DEF Rule, n, F
    <3> QED  BY <2>5
  <2> HIDE DEF F
  <2> DEFINE Up(i) == UNION {Range(ss[j]) : j \in 1 .. i}
             Whole == {i \in 0 .. n :
                         i # 0 => F[i] \in Seq(T) /\ Range(F[i]) = Up(i)}
  <2>7. 0 \in Whole
    BY <1>1
  <2>8. ASSUME NEW i \in 1 .. n, i - 1 \in Whole PROVE i \in Whole
    <3>1. i \in Nat /\ i \in 0 .. n /\ ss[i] \in Seq(T)
      BY <1>1
    <3>2. CASE i = 1
      <4>1. F[1] = ss[1]
        BY <2>6, <3>2
      <4>2. Up(1) = Range(ss[1])
        OBVIOUS
      <4> HIDE DEF Up
      <4> QED  BY <3>1, <3>2, <4>1, <4>2
    <3>3. CASE i # 1
      <4>1. F[i] = F[i - 1] \o ss[i]
        BY <2>6, <3>3
      <4>2. F[i - 1] \in Seq(T) /\ Range(F[i - 1]) = Up(i - 1)
        BY <2>8, <3>1, <3>3
      <4>3. Up(i) = Up(i - 1) \union Range(ss[i])
        <5>1. 1 .. i = 1 .. (i - 1) \union {i}
          BY <3>1
        <5> QED  BY <5>1
      <4>4. F[i] \in Seq(T) /\ Range(F[i]) = Range(F[i - 1]) \union Range(ss[i])
        BY <3>1, <4>1, <4>2, RangeConcat
      <4> HIDE DEF Up
      <4> QED  BY <3>1, <4>2, <4>3, <4>4
    <3> QED  BY <3>2, <3>3
  <2>9. 0 .. n \subseteq Whole
    <3> HIDE DEF Whole, n
    <3> QED  BY <1>1, <2>7, <2>8, NumberInduction
  <2>10. F[n] \in Seq(T) /\ Range(F[n]) = Up(n)
    <3>1. n \in 0 .. n
      BY <1>1
    <3>2. n \in Whole
      <4> HIDE DEF Whole, n
      <4> QED  BY <2>9, <3>1
    <3> HIDE DEF Up, n
    <3> QED  BY <1>3, <3>2
  <2> QED  BY <1>1, <2>1, <2>10
<1> QED  BY <1>2, <1>3

-----------------------------------------------------------------------------
(* The machine *)

Zs == Zones(profile, Cardinality(Ids))

LEMMA MachineFound ==
  ASSUME cpus \in Processors, Regular(cpus)
  PROVE  /\ totalPackages \in Nat \ {0}
         /\ Ids = 0 .. totalPackages - 1 /\ Packages = Ids
         /\ Cardinality(Ids) = totalPackages
         /\ Initialized = Ids
         /\ profile \in Profiles /\ (profile.pp1 => profile.pp0)
<1>1. cpus \in Seq(Nat \union {Offline}) /\ cpus # <<>> /\ Offline \notin Nat
  BY IntelAssumption
<1>2. \A i \in DOMAIN cpus : cpus[i] # Offline
  BY DEF Regular
<1>3. cpus \in Seq(Nat)
  <2>1. /\ DOMAIN cpus = 1 .. Len(cpus) /\ Len(cpus) \in Nat
        /\ \A i \in 1 .. Len(cpus) : cpus[i] \in Nat \union {Offline}
    BY <1>1
  <2>2. \A i \in 1 .. Len(cpus) : cpus[i] \in Nat
    BY <1>2, <2>1
  <2>3. cpus = [i \in 1 .. Len(cpus) |-> cpus[i]]
    BY <1>1
  <2>4. [i \in 1 .. Len(cpus) |-> cpus[i]] \in Seq(Nat)
    BY <2>1, <2>2
  <2> QED  BY <2>3, <2>4
<1> DEFINE cores == detectPackages(cpus)
           n == Len(cores)
<1>4. /\ cores \in Seq(Nat)
      /\ {cpus[i] : i \in DOMAIN cpus} = 0 .. n - 1
      /\ \A k \in 1 .. n : cpus[cores[k]] = k - 1
      /\ n \in Nat \ {0}
  BY <1>1, <1>3, PackagesFound
<1>5. Ids = 0 .. n - 1
  <2>1. {j \in DOMAIN cpus : cpus[j] # Offline} = DOMAIN cpus
    BY <1>2
  <2> QED  BY <1>4, <2>1 DEF Ids
<1>6. Cardinality(Ids) = n
  <2>1. 0 \in Int /\ n - 1 \in Int
    BY <1>4
  <2>2. Cardinality(0 .. n - 1) = IF 0 > n - 1 THEN 0 ELSE n - 1 - 0 + 1
    <3> HIDE DEF n
    <3> QED  BY <2>1, FS_Interval
  <2> HIDE DEF n
  <2> QED  BY <1>4, <1>5, <2>2
<1>7. Initialized = Ids
  <2>1. Range(cores) = {cores[k] : k \in 1 .. n}
    BY <1>4 DEF Range
  <2>2. Initialized = {cpus[cores[k]] : k \in 1 .. n}
    BY <2>1 DEF Initialized, firstCores
  <2>3. Initialized = {k - 1 : k \in 1 .. n}
    <3> HIDE DEF n, cores
    <3> QED  BY <1>4, <2>2
  <2> HIDE DEF n
  <2>4. {k - 1 : k \in 1 .. n} = 0 .. n - 1
    <3>1. \A i \in 0 .. n - 1 : i + 1 \in 1 .. n /\ i = i + 1 - 1
      BY <1>4
    <3>2. \A k \in 1 .. n : k - 1 \in 0 .. n - 1
      BY <1>4
    <3> QED  BY <3>1, <3>2
  <2> QED  BY <1>5, <2>3, <2>4
<1>8. totalPackages = n
  BY DEF totalPackages, firstCores
<1>9. Packages = Ids
  BY <1>4, <1>5, <1>6 DEF Packages
<1>10. profile \in Profiles /\ (profile.pp1 => profile.pp0)
  BY ProfileOfModel DEF profile
<1> HIDE DEF n
<1> QED  BY <1>4, <1>5, <1>6, <1>7, <1>8, <1>9, <1>10

\* The zones of a domain have that domain.
LEMMA ZonesOfDomains ==
  ASSUME cpus \in Processors, Regular(cpus)
  PROVE  /\ \A d \in PowerDomains, p \in Packages :
              d = "pkg" \/ profile[d] =>
                LET z == ZoneOf(profile, d, p)
                IN  /\ z \in Zs /\ DomainOf(z) = d /\ z \in Seq(Nat) /\ z[1] = p
                    /\ Len(z) = 1 <=> d = "pkg"
         /\ \A z \in Zs : z \in Seq(Nat)
                          /\ (Len(z) = 1 => \E p \in Packages : z = <<p>>)
<1>1. /\ profile \in Profiles /\ Packages = 0 .. Cardinality(Ids) - 1
      /\ Cardinality(Ids) \in Nat
  BY MachineFound DEF Packages
<1>2. /\ profile.pp0 \in BOOLEAN /\ profile.pp1 \in BOOLEAN
      /\ profile.dram \in BOOLEAN
  BY <1>1 DEF Profiles
<1> DEFINE Sub == {"pp0", "pp1", "dram"}
           N(d) == SubZone(profile, d)
<1>3. N("pp0") = 0 /\ N("pp1") = One(profile.pp0)
      /\ N("dram") = One(profile.pp0) + One(profile.pp1)
  BY DEF SubZone
<1>4. One(profile.pp0) \in {0, 1} /\ One(profile.pp1) \in {0, 1}
      /\ (profile.pp0 => One(profile.pp0) = 1)
      /\ (profile.pp1 => One(profile.pp1) = 1)
  BY DEF One
<1>5. \A d \in Sub : N(d) \in Nat
  <2> HIDE DEF N
  <2> QED  BY <1>3, <1>4
<1>6. \A d, e \in Sub : profile[d] /\ profile[e] /\ N(d) = N(e) => d = e
  <2> HIDE DEF N
  <2> QED  BY <1>3, <1>4
<1>7. \A p \in Packages : <<p>> \in Zs
  BY <1>1 DEF Zs, Zones
<1>8. \A p \in Packages, d \in Sub : profile[d] => <<p, N(d)>> \in Zs
  BY <1>1 DEF Zs, Zones
<1>9. \A z \in Zs : \/ \E p \in Packages : z = <<p>>
                    \/ \E p \in Packages, d \in Sub : z = <<p, N(d)>>
  BY <1>1 DEF Zs, Zones
<1>10. ASSUME NEW d \in Sub, NEW p \in Packages, profile[d]
       PROVE  DomainOf(<<p, N(d)>>) = d
  <2> DEFINE z == <<p, N(d)>>
  <2>1. Len(z) = 2 /\ z[2] = N(d)
    OBVIOUS
  <2> HIDE DEF z
  <2>2. DomainOf(z) = CHOOSE e \in Sub : profile[e] /\ N(e) = z[2]
    BY <2>1 DEF DomainOf
  <2>3. \A e \in Sub : profile[e] /\ N(e) = z[2] => e = d
    <3> HIDE DEF N, Sub
    <3> QED  BY <1>6, <1>10, <2>1
  <2> HIDE DEF N, Sub
  <2>4. \E e \in Sub : profile[e] /\ N(e) = z[2]
    BY <1>10, <2>1
  <2>5. DomainOf(z) \in Sub /\ profile[DomainOf(z)] /\ N(DomainOf(z)) = z[2]
    BY <2>2, <2>4
  <2> QED  BY <2>3, <2>5 DEF z
<1>11. ASSUME NEW d \in PowerDomains, NEW p \in Packages, d = "pkg" \/ profile[d]
       PROVE  LET z == ZoneOf(profile, d, p)
              IN  /\ z \in Zs /\ DomainOf(z) = d /\ z \in Seq(Nat) /\ z[1] = p
                  /\ Len(z) = 1 <=> d = "pkg"
  <2>1. CASE d = "pkg"
    BY <1>1, <1>7, <2>1 DEF ZoneOf, DomainOf
  <2>2. CASE d # "pkg"
    <3>1. d \in Sub /\ profile[d]
      BY <1>11, <2>2 DEF PowerDomains
    <3>2. ZoneOf(profile, d, p) = <<p, N(d)>>
      BY <2>2 DEF ZoneOf
    <3>3. <<p, N(d)>> \in Zs /\ DomainOf(<<p, N(d)>>) = d
      BY <1>8, <1>10, <3>1
    <3>4. N(d) \in Nat /\ p \in Nat
      BY <1>1, <1>5, <3>1
    <3> HIDE DEF N
    <3>5. /\ <<p, N(d)>> \in Seq(Nat) /\ <<p, N(d)>>[1] = p
          /\ Len(<<p, N(d)>>) # 1
      BY <3>4
    <3> QED  BY <2>2, <3>2, <3>3, <3>5
  <2> QED  BY <2>1, <2>2
<1>12. ASSUME NEW z \in Zs
       PROVE  z \in Seq(Nat) /\ (Len(z) = 1 => \E p \in Packages : z = <<p>>)
  <2>1. CASE \E p \in Packages : z = <<p>>
    BY <1>1, <2>1
  <2>2. ASSUME NEW p \in Packages, NEW d \in Sub, z = <<p, N(d)>>
        PROVE  z \in Seq(Nat) /\ Len(z) # 1
    <3>1. N(d) \in Nat /\ p \in Nat
      BY <1>1, <1>5
    <3> HIDE DEF N
    <3> QED  BY <2>2, <3>1
  <2> HIDE DEF N
  <2> QED  BY <1>9, <2>1, <2>2
<1> QED  BY <1>11, <1>12

\* The directories, domain by domain.
LEMMA DirsAreZones ==
  ASSUME cpus \in Processors, Regular(cpus)
  PROVE  \A d \in PowerDomains :
           /\ dirs[d] \in Seq(Seq(Nat))
           /\ Len(dirs[d]) = DirsOf(profile, d, totalPackages)
           /\ DOMAIN dirs[d] = 1 .. DirsOf(profile, d, totalPackages)
           /\ \A i \in DOMAIN dirs[d] :
                /\ i - 1 \in Packages /\ (d = "pkg" \/ profile[d])
                /\ dirs[d][i] = ZoneOf(profile, d, i - 1)
<1>1. /\ totalPackages \in Nat \ {0} /\ Packages = 0 .. totalPackages - 1
      /\ profile \in Profiles /\ (profile.pp1 => profile.pp0)
  BY MachineFound
<1> SUFFICES ASSUME NEW d \in PowerDomains
             PROVE  /\ dirs[d] \in Seq(Seq(Nat))
                    /\ Len(dirs[d]) = DirsOf(profile, d, totalPackages)
                    /\ DOMAIN dirs[d] = 1 .. DirsOf(profile, d, totalPackages)
                    /\ \A i \in DOMAIN dirs[d] :
                         /\ i - 1 \in Packages /\ (d = "pkg" \/ profile[d])
                         /\ dirs[d][i] = ZoneOf(profile, d, i - 1)
  OBVIOUS
<1> DEFINE n == DirsOf(profile, d, totalPackages)
<1>2. /\ dirs[d] \in Seq(Seq(Nat)) /\ Len(dirs[d]) = n
      /\ \A i \in 1 .. n : dirs[d][i] = ZoneOf(profile, d, i - 1)
  BY <1>1, DirsFound DEF dirs
<1>3. n \in Nat /\ n <= totalPackages /\ (n # 0 => d = "pkg" \/ profile[d])
  BY <1>1 DEF DirsOf
<1> HIDE DEF n
<1>4. DOMAIN dirs[d] = 1 .. n
  BY <1>2
<1>5. \A i \in 1 .. n : i - 1 \in Packages /\ (d = "pkg" \/ profile[d])
  BY <1>1, <1>3
<1> QED  BY <1>2, <1>4, <1>5 DEF n

\* What the zones and the machine are does not change.
ZonesInv == cpus \in Processors /\ DOMAIN reg = Zs

LEMMA SameMachine ==
  ASSUME UNCHANGED machine
  PROVE  /\ Zs' = Zs /\ Ids' = Ids /\ profile' = profile /\ dirs' = dirs
         /\ totalPackages' = totalPackages /\ Packages' = Packages
         /\ Initialized' = Initialized /\ locked' = locked
         /\ \A z : DomainOf(z)' = DomainOf(z)
         /\ \A id : PackageOf(id)' = PackageOf(id)
BY DEF machine, Zs, Ids, profile, dirs, totalPackages, firstCores, Packages,
       Initialized, DomainOf, PackageOf

\* The directories of a domain are zones of that domain, one for each package,
\* with the exception for DRAM.
THEOREM DirsMatch == Spec => []DirsMatchDomains
<1>1. Init => ZonesInv
  <2> SUFFICES ASSUME Init PROVE ZonesInv
    OBVIOUS
  <2> QED  BY DEF Init, ZonesInv, Zs
<1>2. ZonesInv /\ [Next]_vars => ZonesInv'
  <2> SUFFICES ASSUME ZonesInv, [Next]_vars PROVE ZonesInv'
    OBVIOUS
  <2>1. UNCHANGED machine /\ (UNCHANGED reg \/ Write)
    BY DEF Next, vars, machine, Start, ReadDefaults, InitRapl, MsrFails, SetLimit,
           Restore, MonitorEnds, SetPowerLimit, Write, Written, Exit, Crash
  <2>2. DOMAIN reg' = DOMAIN reg
    BY <2>1 DEF Write
  <2> QED  BY <2>1, <2>2, SameMachine DEF ZonesInv, machine
<1>3. ZonesInv => DirsMatchDomains
  <2> SUFFICES ASSUME ZonesInv, Regular(cpus) PROVE DirsMatchDomains
    BY DEF DirsMatchDomains
  <2> USE DEF ZonesInv
  <2>0. DOMAIN dirs = PowerDomains
    <3>1. profile \in Profiles /\ totalPackages \in Nat
          /\ (profile.pp1 => profile.pp0)
      BY MachineFound
    <3>2. dirs \in DirsRecords
      BY <3>1, DirsFound DEF dirs
    <3> QED  BY <3>2 DEF DirsRecords, PowerDomains
  <2> SUFFICES ASSUME NEW d \in PowerDomains
               PROVE
      /\ \A i \in DOMAIN dirs[d] :
           dirs[d][i] \in DOMAIN reg /\ DomainOf(dirs[d][i]) = d
      /\ d = "pkg" \/ profile[d] =>
           {dirs[d][i][1] : i \in DOMAIN dirs[d]} =
             IF d = "dram" /\ profile.pp0 /\ ~profile.pp1 THEN {0} ELSE Packages
    BY <2>0 DEF DirsMatchDomains
  <2>1. cpus \in Processors /\ DOMAIN reg = Zs
    OBVIOUS
  <2>2. /\ totalPackages \in Nat \ {0} /\ Packages = 0 .. totalPackages - 1
        /\ profile \in Profiles
    BY <2>1, MachineFound
  <2> DEFINE n == DirsOf(profile, d, totalPackages)
  <2>3. /\ DOMAIN dirs[d] = 1 .. n
        /\ \A i \in 1 .. n :
             /\ i - 1 \in Packages /\ (d = "pkg" \/ profile[d])
             /\ dirs[d][i] = ZoneOf(profile, d, i - 1)
    BY <2>1, DirsAreZones
  <2>4. \A i \in 1 .. n :
          dirs[d][i] \in Zs /\ DomainOf(dirs[d][i]) = d /\ dirs[d][i][1] = i - 1
    <3> HIDE DEF n
    <3> QED  BY <2>1, <2>3, ZonesOfDomains
  <2>5. ASSUME d = "pkg" \/ profile[d]
        PROVE  {dirs[d][i][1] : i \in DOMAIN dirs[d]} =
                 IF OnlyFirst(profile, d) THEN {0} ELSE Packages
    <3>1. n = IF OnlyFirst(profile, d) THEN 1 ELSE totalPackages
      BY <2>2, <2>5 DEF DirsOf
    <3> HIDE DEF n
    <3>2. {dirs[d][i][1] : i \in DOMAIN dirs[d]} = {i - 1 : i \in 1 .. n}
      BY <2>3, <2>4
    <3>3. {i - 1 : i \in 1 .. n} = 0 .. n - 1
      <4>1. n \in Nat
        BY <2>2, <3>1
      <4>2. \A j \in 0 .. n - 1 : j + 1 \in 1 .. n /\ j = j + 1 - 1
        BY <4>1
      <4>3. \A i \in 1 .. n : i - 1 \in 0 .. n - 1
        BY <4>1
      <4> QED  BY <4>2, <4>3
    <3>4. 0 .. 1 - 1 = {0}
      OBVIOUS
    <3> QED  BY <2>2, <3>1, <3>2, <3>3, <3>4
  <2> QED  BY <2>1, <2>3, <2>4, <2>5 DEF OnlyFirst
<1> QED  BY <1>1, <1>2, <1>3, PTL DEF Spec

-----------------------------------------------------------------------------
(* What writes do to the files *)

\* The registers of a package that a cap changes.
CapRegisters == {"power", "window"}

LEMMA FilesEqual ==
  ASSUME NEW f \in Files, NEW h \in Files,
         \A q \in Registers : f[q] = h[q]
  PROVE  f = h
BY DEF Files, Registers

LEMMA SetRegister ==
  ASSUME NEW f \in Files, NEW r \in Registers, NEW v,
         IF r = "enabled" THEN v \in BOOLEAN ELSE v \in Int
  PROVE  /\ [f EXCEPT ![r] = v] \in Files
         /\ [f EXCEPT ![r] = v][r] = v
         /\ \A q \in Registers : q # r => [f EXCEPT ![r] = v][q] = f[q]
<1>1. CASE r = "power"
  BY <1>1 DEF Files, Registers
<1>2. CASE r = "window"
  BY <1>2 DEF Files, Registers
<1>3. CASE r = "enabled"
  BY <1>3 DEF Files, Registers
<1> QED  BY <1>1, <1>2, <1>3 DEF Registers

LEMMA RegisterType ==
  ASSUME NEW f \in Files, NEW r \in Registers
  PROVE  IF r = "enabled" THEN f[r] \in BOOLEAN ELSE f[r] \in Int
BY DEF Files, Registers

WriteRecords == [zone : Seq(Nat), register : Registers, value : Int \union BOOLEAN]

\* The sub-zones, and what is no limit of a package, are as they left the
\* factory, and the windows are windows a register can hold.
Untouched(files) ==
  /\ files \in [Zs -> Files]
  /\ \A z \in Zs : IF Len(z) = 1 THEN files[z]["enabled"] = Factory["pkg"]["enabled"]
                   ELSE files[z] = Factory[DomainOf(z)]
  /\ \A z \in Zs : Quantized(files[z]["window"]) = files[z]["window"]

\* A value the register keeps as it is.
Stable(register, v) ==
  v \in Int /\ (register = "window" => Quantized(v) = v)

\* A write to a package is one of a limit or a window, and one to a sub-zone
\* writes what is there.
Harmless(e) ==
  /\ e \in WriteRecords
  /\ e.zone \in Zs =>
       IF Len(e.zone) = 1 THEN e.register \in CapRegisters /\ Stable(e.register, Held(e))
       ELSE e.value = Factory[DomainOf(e.zone)][e.register]

HarmlessList(s) == s \in Seq(WriteRecords) /\ \A e \in Range(s) : Harmless(e)

\* Every package has the limit and the window of goal, unless it is locked, or
\* there is a write that is still to give it to it, and none that gives it
\* another one.
Gives(s, files, goal) ==
  /\ \A e \in Range(s) : e.zone \in Zs /\ Len(e.zone) = 1 =>
       Held(e) = goal[e.register]
  /\ \A p \in Packages \ locked, r \in CapRegisters :
       \/ files[<<p>>][r] = goal[r]
       \/ \E e \in Range(s) : e.zone = <<p>> /\ e.register = r

Given(files, goal) ==
  \A p \in Packages \ locked, r \in CapRegisters : files[<<p>>][r] = goal[r]

LEMMA FactoryTypes ==
  ASSUME NEW d \in PowerDomains
  PROVE  Factory[d] \in Files
BY IntelAssumption DEF PowerDomains

LEMMA WriteEffect ==
  ASSUME cpus \in Processors, Regular(cpus), Untouched(reg),
         HarmlessList(todo),
         Write
  PROVE  /\ UNCHANGED machine
         /\ HarmlessList(todo')
         /\ Untouched(reg')
         /\ \E w \in WriteRecords :
              /\ Range(todo) = {w} \union Range(todo')
              /\ \A z \in Zs, r \in Registers :
                   reg'[z][r] = IF z = w.zone /\ r = w.register /\ ~Locked(z)
                                THEN Held(w) ELSE reg[z][r]
<1> DEFINE w == Head(todo)
<1>1. /\ todo # <<>> /\ todo' = Tail(todo) /\ UNCHANGED machine
      /\ reg' = IF w.zone \in DOMAIN reg /\ ~Locked(w.zone)
                THEN [reg EXCEPT ![w.zone][w.register] = Held(w)] ELSE reg
  BY DEF Write
<1>2. /\ w \in WriteRecords /\ todo' \in Seq(WriteRecords)
      /\ Range(todo) = {w} \union Range(todo')
  BY <1>1, RangeTail DEF HarmlessList
<1>3. Harmless(w) /\ \A e \in Range(todo') : Harmless(e)
  BY <1>2 DEF HarmlessList
<1> HIDE DEF w
<1>4. DOMAIN reg = Zs /\ \A z \in Zs : reg[z] \in Files
  BY DEF Untouched
<1>5. CASE w.zone \notin Zs \/ Locked(w.zone)
  <2>1. reg' = reg
    BY <1>1, <1>4, <1>5
  <2> QED  BY <1>1, <1>2, <1>3, <1>5, <2>1 DEF HarmlessList
<1>6. CASE w.zone \in Zs /\ ~Locked(w.zone)
  <2> DEFINE u == w.zone
             old == reg[u]
             held == Held(w)
             new == [old EXCEPT ![w.register] = held]
  <2>1. reg' = [reg EXCEPT ![u] = new]
    BY <1>1, <1>4, <1>6
  <2>2. w.register \in Registers /\ old \in Files
    BY <1>2, <1>4, <1>6 DEF WriteRecords
  <2>3. /\ IF w.register = "enabled" THEN held \in BOOLEAN ELSE held \in Int
        /\ w.register = "window" => Quantized(held) = held
        /\ Len(u) = 1 => w.register # "enabled"
        /\ Len(u) # 1 => held = old[w.register] /\ old = Factory[DomainOf(u)]
    <3>1. CASE Len(u) = 1
      BY <1>3, <1>6, <3>1 DEF Harmless, CapRegisters, Stable
    <3>2. CASE Len(u) # 1
      <4>1. w.value = Factory[DomainOf(u)][w.register] /\ old = Factory[DomainOf(u)]
        BY <1>3, <1>6, <3>2 DEF Harmless, Untouched
      <4>2. IF w.register = "enabled" THEN old[w.register] \in BOOLEAN
            ELSE old[w.register] \in Int
        BY <2>2, RegisterType
      <4>3. Quantized(old["window"]) = old["window"]
        BY <1>6 DEF Untouched
      <4>4. held = old[w.register]
        BY <4>1, <4>3 DEF Held
      <4>5. w.register = "window" => Quantized(held) = held
        BY <4>3, <4>4
      <4> QED  BY <3>2, <4>1, <4>2, <4>4, <4>5
    <3> QED  BY <3>1, <3>2
  <2> HIDE DEF old, held
  <2>4. /\ new \in Files /\ new[w.register] = held
        /\ \A q \in Registers : q # w.register => new[q] = old[q]
    <3> DEFINE r == w.register
               v == held
    <3>1. r \in Registers /\ old \in Files
          /\ IF r = "enabled" THEN v \in BOOLEAN ELSE v \in Int
      BY <2>2, <2>3
    <3> HIDE DEF r, v
    <3>2. /\ [old EXCEPT ![r] = v] \in Files
          /\ [old EXCEPT ![r] = v][r] = v
          /\ \A q \in Registers : q # r => [old EXCEPT ![r] = v][q] = old[q]
      BY <3>1, SetRegister
    <3> QED  BY <3>2 DEF r, v
  <2> HIDE DEF new
  <2>5. /\ DOMAIN reg' = Zs /\ reg'[u] = new
        /\ \A z \in Zs : z # u => reg'[z] = reg[z]
        /\ reg' \in [Zs -> Files]
    <3>1. reg \in [Zs -> Files]
      BY DEF Untouched
    <3> HIDE DEF u
    <3> QED  BY <1>6, <2>1, <2>4, <3>1 DEF u
  <2>6. Len(u) # 1 => new = old
    <3> SUFFICES ASSUME Len(u) # 1 PROVE new = old
      OBVIOUS
    <3>1. \A q \in Registers : new[q] = old[q]
      BY <2>3, <2>4
    <3> QED  BY <2>2, <2>4, <3>1, FilesEqual
  <2>7. Len(u) = 1 => new["enabled"] = old["enabled"]
    BY <2>3, <2>4 DEF Registers
  <2>10. Quantized(new["window"]) = new["window"]
    <3>1. Quantized(old["window"]) = old["window"]
      BY <1>6 DEF Untouched, old
    <3>2. CASE w.register = "window"
      <4>1. new["window"] = held /\ Quantized(held) = held
        BY <2>3, <2>4, <3>2
      <4> QED  BY <4>1
    <3>3. CASE w.register # "window"
      <4>1. new["window"] = old["window"]
        BY <2>4, <3>3 DEF Registers
      <4> QED  BY <3>1, <4>1
    <3> QED  BY <3>2, <3>3
  <2>8. Untouched(reg')
    <3>1. ASSUME NEW z \in Zs
          PROVE  IF Len(z) = 1 THEN reg'[z]["enabled"] = Factory["pkg"]["enabled"]
                 ELSE reg'[z] = Factory[DomainOf(z)]
      <4>1. CASE z = u
        BY <2>5, <2>6, <2>7, <4>1 DEF Untouched, old
      <4>2. CASE z # u
        BY <2>5, <4>2 DEF Untouched
      <4> QED  BY <4>1, <4>2
    <3>2. ASSUME NEW z \in Zs
          PROVE  Quantized(reg'[z]["window"]) = reg'[z]["window"]
      <4>1. CASE z = u
        <5>1. reg'[z] = new
          BY <2>5, <4>1
        <5> QED  BY <2>10, <5>1
      <4>2. CASE z # u
        <5>1. reg'[z] = reg[z]
          BY <2>5, <4>2
        <5> QED  BY <5>1 DEF Untouched
      <4> QED  BY <4>1, <4>2
    <3> QED  BY <2>5, <3>1, <3>2 DEF Untouched
  <2>9. \A z \in Zs, r \in Registers :
          reg'[z][r] = IF z = u /\ r = w.register /\ ~Locked(z) THEN Held(w)
                       ELSE reg[z][r]
    <3>1. ~Locked(u) /\ held = Held(w)
      BY <1>6 DEF held
    <3> QED  BY <2>4, <2>5, <3>1 DEF old
  <2> QED  BY <1>1, <1>2, <1>3, <2>8, <2>9 DEF HarmlessList
<1> QED  BY <1>5, <1>6

LEMMA WriteGives ==
  ASSUME cpus \in Processors, Regular(cpus), Untouched(reg),
         HarmlessList(todo),
         Write, NEW goal, Gives(todo, reg, goal)
  PROVE  Gives(todo', reg', goal)
<1>1. PICK w \in WriteRecords :
        /\ Range(todo) = {w} \union Range(todo')
        /\ \A z \in Zs, r \in Registers :
             reg'[z][r] = IF z = w.zone /\ r = w.register /\ ~Locked(z)
                          THEN Held(w) ELSE reg[z][r]
  BY WriteEffect
<1>3. \A e \in Range(todo') : e.zone \in Zs /\ Len(e.zone) = 1 =>
         Held(e) = goal[e.register]
  BY <1>1 DEF Gives
<1>4. ASSUME NEW p \in Packages \ locked, NEW r \in CapRegisters
      PROVE  \/ reg'[<<p>>][r] = goal[r]
             \/ \E e \in Range(todo') : e.zone = <<p>> /\ e.register = r
  <2>1. <<p>> \in Zs /\ Len(<<p>>) = 1 /\ r \in Registers /\ ~Locked(<<p>>)
    BY ZonesOfDomains DEF PowerDomains, ZoneOf, CapRegisters, Registers, Locked
  <2>2. CASE w.zone = <<p>> /\ w.register = r
    <3>1. Held(w) = goal[r]
      BY <1>1, <2>1, <2>2 DEF Gives
    <3> QED  BY <1>1, <2>1, <2>2, <3>1
  <2>3. CASE ~(w.zone = <<p>> /\ w.register = r)
    <3>1. reg'[<<p>>][r] = reg[<<p>>][r]
      BY <1>1, <2>1, <2>3
    <3>2. CASE reg[<<p>>][r] = goal[r]
      BY <3>1, <3>2
    <3>3. CASE reg[<<p>>][r] # goal[r]
      <4>1. PICK e \in Range(todo) : e.zone = <<p>> /\ e.register = r
        BY <3>3 DEF Gives
      <4> QED  BY <1>1, <2>3, <4>1
    <3> QED  BY <3>2, <3>3
  <2> QED  BY <2>2, <2>3
<1> QED  BY <1>3, <1>4 DEF Gives

LEMMA WritesRange ==
  ASSUME NEW zones \in Seq(Seq(Nat)), NEW r \in Registers,
         NEW v \in Int \union BOOLEAN
  PROVE  /\ Writes(zones, r, v) \in Seq(WriteRecords)
         /\ Range(Writes(zones, r, v)) =
              {[zone |-> zones[i], register |-> r, value |-> v] :
                 i \in DOMAIN zones}
<1>1. /\ DOMAIN zones = 1 .. Len(zones) /\ Len(zones) \in Nat
      /\ \A i \in DOMAIN zones : zones[i] \in Seq(Nat)
  OBVIOUS
<1> DEFINE W(i) == [zone |-> zones[i], register |-> r, value |-> v]
<1>2. \A i \in 1 .. Len(zones) : W(i) \in WriteRecords
  BY <1>1 DEF WriteRecords
<1> HIDE DEF W
<1>3. [i \in 1 .. Len(zones) |-> W(i)] \in Seq(WriteRecords)
  BY <1>1, <1>2
<1>4. Writes(zones, r, v) = [i \in 1 .. Len(zones) |-> W(i)]
  BY <1>1 DEF Writes, W
<1>5. Range([i \in 1 .. Len(zones) |-> W(i)]) = {W(i) : i \in 1 .. Len(zones)}
  BY DEF Range
<1> QED  BY <1>1, <1>3, <1>4, <1>5 DEF W

CapGoal(c) == [power |-> PackageCap(c), window |-> Quantized(ShortWindow)]

\* What setPowerLimitInMicroWatts writes.
LEMMA CapWrites ==
  ASSUME cpus \in Processors, Regular(cpus), NEW c \in Nat, NEW files,
         NEW s, s = Writes(dirs.pkg, "window", ShortWindow)
                      \o Writes(dirs.pkg, "power", PackageCap(c))
  PROVE  HarmlessList(s) /\ Gives(s, files, CapGoal(c))
<1>1. /\ totalPackages \in Nat \ {0} /\ Packages = 0 .. totalPackages - 1
      /\ profile \in Profiles
  BY MachineFound
<1> DEFINE pkgs == dirs.pkg
<1>2. /\ pkgs \in Seq(Seq(Nat)) /\ DOMAIN pkgs = 1 .. totalPackages
      /\ \A i \in 1 .. totalPackages : pkgs[i] = <<i - 1>>
  <2>1. "pkg" \in PowerDomains /\ DirsOf(profile, "pkg", totalPackages) = totalPackages
    BY <1>1 DEF PowerDomains, DirsOf, OnlyFirst
  <2>2. dirs["pkg"] \in Seq(Seq(Nat)) /\ DOMAIN dirs["pkg"] = 1 .. totalPackages
        /\ \A i \in 1 .. totalPackages : dirs["pkg"][i] = ZoneOf(profile, "pkg", i - 1)
    BY <2>1, DirsAreZones
  <2> QED  BY <2>2 DEF ZoneOf
<1>3. PackageCap(c) \in Int /\ ShortWindow \in Int
  <2>1. \A a \in Nat, b \in Nat \ {0} : (a \div b) \in Int
    BY SMTT(30)
  <2> QED  BY <1>1, <2>1, IntelAssumption DEF PackageCap
<1> HIDE DEF pkgs
<1> DEFINE ws == Writes(pkgs, "window", ShortWindow)
           ps == Writes(pkgs, "power", PackageCap(c))
           W(i) == [zone |-> <<i - 1>>, register |-> "window", value |-> ShortWindow]
           P(i) == [zone |-> <<i - 1>>, register |-> "power", value |-> PackageCap(c)]
<1>4. /\ ws \in Seq(WriteRecords)
      /\ Range(ws) = {W(i) : i \in 1 .. totalPackages}
  <2>1. "window" \in Registers  BY DEF Registers
  <2>2. ws \in Seq(WriteRecords)
        /\ Range(ws) = {[zone |-> pkgs[i], register |-> "window",
                         value |-> ShortWindow] : i \in DOMAIN pkgs}
    BY <1>2, <1>3, <2>1, WritesRange
  <2> QED  BY <1>2, <2>2
<1>5. /\ ps \in Seq(WriteRecords)
      /\ Range(ps) = {P(i) : i \in 1 .. totalPackages}
  <2>1. "power" \in Registers  BY DEF Registers
  <2>2. ps \in Seq(WriteRecords)
        /\ Range(ps) = {[zone |-> pkgs[i], register |-> "power",
                         value |-> PackageCap(c)] : i \in DOMAIN pkgs}
    BY <1>2, <1>3, <2>1, WritesRange
  <2> QED  BY <1>2, <2>2
<1> HIDE DEF ws, ps
<1>6. /\ s \in Seq(WriteRecords)
      /\ Range(s) = {W(i) : i \in 1 .. totalPackages}
                      \union {P(i) : i \in 1 .. totalPackages}
  BY <1>4, <1>5, RangeConcat DEF ws, ps, pkgs
<1>7. \A i \in 1 .. totalPackages : Len(<<i - 1>>) = 1
  OBVIOUS
<1>8. \A e \in Range(s) : Harmless(e) /\ Held(e) = CapGoal(c)[e.register]
  <2>1. \A e \in Range(s) : e \in WriteRecords
    BY <1>6 DEF Range
  <2>2. \A e \in Range(s) :
          /\ Len(e.zone) = 1 /\ e.register \in CapRegisters
          /\ Stable(e.register, Held(e)) /\ Held(e) = CapGoal(c)[e.register]
    <3>1. Quantized(ShortWindow) \in Int
          /\ Quantized(Quantized(ShortWindow)) = Quantized(ShortWindow)
      BY IntelAssumption
    <3>2. \A i \in 1 .. totalPackages :
            /\ Held(W(i)) = Quantized(ShortWindow) /\ Held(P(i)) = PackageCap(c)
            /\ W(i).register = "window" /\ P(i).register = "power"
            /\ Len(W(i).zone) = 1 /\ Len(P(i).zone) = 1
      BY <1>7 DEF Held
    <3> HIDE DEF W, P
    <3>3. \A e \in Range(s) : \E i \in 1 .. totalPackages : e = W(i) \/ e = P(i)
      BY <1>6
    <3>4. \A i \in 1 .. totalPackages :
            /\ Stable(W(i).register, Held(W(i))) /\ Stable(P(i).register, Held(P(i)))
            /\ Held(W(i)) = CapGoal(c)[W(i).register]
            /\ Held(P(i)) = CapGoal(c)[P(i).register]
      BY <1>3, <3>1, <3>2 DEF CapGoal, Stable
    <3> QED  BY <3>2, <3>3, <3>4 DEF CapRegisters
  <2> QED  BY <2>1, <2>2 DEF Harmless
<1>9. ASSUME NEW p \in Packages \ locked, NEW r \in CapRegisters
      PROVE  \E e \in Range(s) : e.zone = <<p>> /\ e.register = r
  <2>1. p + 1 \in 1 .. totalPackages /\ p + 1 - 1 = p
    BY <1>1
  <2>2. W(p + 1) \in Range(s) /\ P(p + 1) \in Range(s)
    <3> HIDE DEF W, P
    <3> QED  BY <1>6, <2>1
  <2>3. W(p + 1).zone = <<p>> /\ W(p + 1).register = "window"
        /\ P(p + 1).zone = <<p>> /\ P(p + 1).register = "power"
    <3>1. p \in Int
      BY <1>1
    <3> QED  BY <3>1
  <2> HIDE DEF W, P
  <2> QED  BY <2>2, <2>3 DEF CapRegisters
<1> QED  BY <1>6, <1>8, <1>9 DEF HarmlessList, Gives

-----------------------------------------------------------------------------
(* What the operations write *)

LEMMA RangeOf ==
  ASSUME NEW S, NEW s \in Seq(S)
  PROVE  \A e \in Range(s) : e \in S
BY DEF Range

\* What RestoreZones writes of one domain.
LEMMA RestoreRange ==
  ASSUME cpus \in Processors, Regular(cpus), NEW d \in PowerDomains,
         NEW regs \in Seq(Registers), defaults[d] \in Files
  PROVE  /\ RestoreZones(d, regs) \in Seq(WriteRecords)
         /\ \A e \in Range(RestoreZones(d, regs)) :
              \E i \in DOMAIN dirs[d], k \in DOMAIN regs :
                /\ e.zone = dirs[d][i] /\ e.register = regs[k]
                /\ e.value = defaults[d][e.register]
         /\ \A i \in DOMAIN dirs[d], k \in DOMAIN regs :
              \E e \in Range(RestoreZones(d, regs)) :
                e.zone = dirs[d][i] /\ e.register = regs[k]
<1> DEFINE zones == dirs[d]
           R(i, k) == [zone |-> zones[i], register |-> regs[k],
                       value |-> defaults[d][regs[k]]]
           Row(i) == [k \in DOMAIN regs |-> R(i, k)]
           rows == [i \in DOMAIN zones |-> Row(i)]
<1>1. /\ zones \in Seq(Seq(Nat)) /\ DOMAIN zones = 1 .. Len(zones)
      /\ Len(zones) \in Nat /\ \A i \in DOMAIN zones : zones[i] \in Seq(Nat)
  <2>1. zones \in Seq(Seq(Nat))
    BY DirsAreZones
  <2> HIDE DEF zones
  <2> QED  BY <2>1
<1>2. /\ DOMAIN regs = 1 .. Len(regs) /\ Len(regs) \in Nat
      /\ \A k \in DOMAIN regs : regs[k] \in Registers
  OBVIOUS
<1>3. \A k \in DOMAIN regs : defaults[d][regs[k]] \in Int \union BOOLEAN
  <2>1. \A r \in Registers : defaults[d][r] \in Int \union BOOLEAN
    BY RegisterType
  <2> QED  BY <1>2, <2>1
<1> HIDE DEF zones
<1>4. \A i \in DOMAIN zones, k \in DOMAIN regs : R(i, k) \in WriteRecords
  BY <1>1, <1>2, <1>3 DEF WriteRecords
<1>5. \A i \in DOMAIN zones : Row(i) \in Seq(WriteRecords)
  <2> HIDE DEF R
  <2> QED  BY <1>2, <1>4
<1>6. rows \in Seq(Seq(WriteRecords))
  <2> HIDE DEF Row
  <2> QED  BY <1>1, <1>5
<1>7. RestoreZones(d, regs) = FlattenSeq(rows)
  BY DEF RestoreZones, zones
<1>8. /\ FlattenSeq(rows) \in Seq(WriteRecords)
      /\ Range(FlattenSeq(rows)) = UNION {Range(rows[i]) : i \in DOMAIN rows}
  <2> HIDE DEF rows
  <2> QED  BY <1>6, FlattenRange
<1>9. \A i \in DOMAIN zones : Range(rows[i]) = {R(i, k) : k \in DOMAIN regs}
  <2> HIDE DEF R
  <2> QED  BY DEF Range
<1>10. DOMAIN rows = DOMAIN zones
  OBVIOUS
<1> HIDE DEF rows
<1>11. \A e \in Range(FlattenSeq(rows)) :
         \E i \in DOMAIN zones, k \in DOMAIN regs : e = R(i, k)
  <2> HIDE DEF R
  <2> QED  BY <1>8, <1>9, <1>10
<1>12. \A i \in DOMAIN zones, k \in DOMAIN regs : R(i, k) \in Range(FlattenSeq(rows))
  <2> HIDE DEF R
  <2> QED  BY <1>8, <1>9, <1>10
<1> DEFINE s == RestoreZones(d, regs)
<1>13. s \in Seq(WriteRecords) /\ Range(s) = Range(FlattenSeq(rows))
  BY <1>7, <1>8
<1> HIDE DEF s
<1>14. \A e \in Range(s) :
         \E i \in DOMAIN zones, k \in DOMAIN regs :
           /\ e.zone = zones[i] /\ e.register = regs[k]
           /\ e.value = defaults[d][e.register]
  <2>1. \A i \in DOMAIN zones, k \in DOMAIN regs :
          /\ R(i, k).zone = zones[i] /\ R(i, k).register = regs[k]
          /\ R(i, k).value = defaults[d][R(i, k).register]
    OBVIOUS
  <2> HIDE DEF R
  <2> QED  BY <1>11, <1>13, <2>1
<1>15. \A i \in DOMAIN zones, k \in DOMAIN regs :
         \E e \in Range(s) : e.zone = zones[i] /\ e.register = regs[k]
  <2> SUFFICES ASSUME NEW i \in DOMAIN zones, NEW k \in DOMAIN regs
               PROVE  \E e \in Range(s) : e.zone = zones[i] /\ e.register = regs[k]
    OBVIOUS
  <2>1. R(i, k) \in Range(s)
    BY <1>12, <1>13
  <2> QED  BY <2>1
<1> QED  BY <1>13, <1>14, <1>15 DEF zones, s

\* The writes of a sub-domain put back what is there.
LEMMA RestoreSub ==
  ASSUME cpus \in Processors, Regular(cpus), NEW d \in PowerDomains, d # "pkg",
         defaults[d] = Factory[d]
  PROVE  LET s == RestoreZones(d, <<"power", "window", "enabled">>)
         IN  /\ HarmlessList(s)
             /\ \A e \in Range(s) : Len(e.zone) # 1
<1> DEFINE regs == <<"power", "window", "enabled">>
           s == RestoreZones(d, regs)
<1>1. regs \in Seq(Registers)
  BY DEF Registers
<1>2. defaults[d] \in Files
  BY FactoryTypes
<1> HIDE DEF regs
<1>3. /\ s \in Seq(WriteRecords)
      /\ \A e \in Range(s) :
           \E i \in DOMAIN dirs[d], k \in DOMAIN regs :
             /\ e.zone = dirs[d][i] /\ e.register = regs[k]
             /\ e.value = defaults[d][e.register]
  BY <1>1, <1>2, RestoreRange
<1>4. \A i \in DOMAIN dirs[d] : Len(dirs[d][i]) # 1 /\ DomainOf(dirs[d][i]) = d
  <2>1. \A i \in DOMAIN dirs[d] :
          /\ i - 1 \in Packages /\ (d = "pkg" \/ profile[d])
          /\ dirs[d][i] = ZoneOf(profile, d, i - 1)
    BY DirsAreZones
  <2> QED  BY <2>1, ZonesOfDomains
<1> HIDE DEF s
<1>5. \A e \in Range(s) : e \in WriteRecords
  BY <1>3 DEF Range
<1>6. \A e \in Range(s) :
        Len(e.zone) # 1 /\ e.value = Factory[DomainOf(e.zone)][e.register]
  BY <1>3, <1>4
<1> QED  BY <1>3, <1>5, <1>6 DEF HarmlessList, Harmless, s, regs

\* Those of the packages give each the limit and the window of the defaults.
LEMMA RestorePackages ==
  ASSUME cpus \in Processors, Regular(cpus), defaults["pkg"] \in Files,
         Quantized(defaults["pkg"]["window"]) = defaults["pkg"]["window"], NEW files
  PROVE  LET s == RestoreZones("pkg", <<"power", "window">>)
         IN  HarmlessList(s) /\ Gives(s, files, defaults["pkg"])
<1> DEFINE regs == <<"power", "window">>
           s == RestoreZones("pkg", regs)
           pkgs == dirs["pkg"]
<1>1. /\ regs \in Seq(Registers) /\ "pkg" \in PowerDomains
      /\ DOMAIN regs = {1, 2} /\ regs[1] = "power" /\ regs[2] = "window"
      /\ \A k \in DOMAIN regs : regs[k] \in CapRegisters
  BY DEF Registers, PowerDomains, CapRegisters
<1>2. /\ totalPackages \in Nat \ {0} /\ Packages = 0 .. totalPackages - 1
      /\ profile \in Profiles
  BY MachineFound
<1>3. /\ DOMAIN pkgs = 1 .. totalPackages
      /\ \A i \in 1 .. totalPackages : pkgs[i] = <<i - 1>>
  <2>1. DirsOf(profile, "pkg", totalPackages) = totalPackages
    BY <1>2 DEF DirsOf, OnlyFirst
  <2>2. DOMAIN pkgs = 1 .. totalPackages
        /\ \A i \in 1 .. totalPackages : pkgs[i] = ZoneOf(profile, "pkg", i - 1)
    BY <1>1, <2>1, DirsAreZones
  <2> QED  BY <2>2 DEF ZoneOf
<1> HIDE DEF regs, pkgs
<1>4. /\ s \in Seq(WriteRecords)
      /\ \A e \in Range(s) :
           \E i \in DOMAIN pkgs, k \in DOMAIN regs :
             /\ e.zone = pkgs[i] /\ e.register = regs[k]
             /\ e.value = defaults["pkg"][e.register]
      /\ \A i \in DOMAIN pkgs, k \in DOMAIN regs :
           \E e \in Range(s) : e.zone = pkgs[i] /\ e.register = regs[k]
  BY <1>1, RestoreRange DEF pkgs
<1> HIDE DEF s
<1>5. \A e \in Range(s) : e \in WriteRecords
  BY <1>4 DEF Range
<1>6. \A e \in Range(s) : /\ Len(e.zone) = 1 /\ e.register \in CapRegisters
                          /\ e.value = defaults["pkg"][e.register]
  <2>1. \A i \in DOMAIN pkgs : Len(pkgs[i]) = 1
    <3>1. \A i \in 1 .. totalPackages : Len(<<i - 1>>) = 1
      OBVIOUS
    <3> QED  BY <1>3, <3>1
  <2> QED  BY <1>1, <1>4, <2>1
<1>7. \A r \in CapRegisters : defaults["pkg"][r] \in Int
  BY RegisterType DEF CapRegisters, Registers
<1>11. \A e \in Range(s) : /\ Stable(e.register, Held(e))
                           /\ Held(e) = defaults["pkg"][e.register]
  <2>1. \A r \in CapRegisters : Stable(r, defaults["pkg"][r])
    BY <1>7 DEF Stable, CapRegisters
  <2>2. \A e \in Range(s) : Held(e) = defaults["pkg"][e.register]
    BY <1>6 DEF Held
  <2> QED  BY <1>6, <2>1, <2>2
<1>8. HarmlessList(s)
  BY <1>4, <1>5, <1>6, <1>11 DEF HarmlessList, Harmless
<1>9. ASSUME NEW p \in Packages \ locked, NEW r \in CapRegisters
      PROVE  \E e \in Range(s) : e.zone = <<p>> /\ e.register = r
  <2>1. p + 1 \in DOMAIN pkgs /\ p + 1 - 1 = p
    BY <1>2, <1>3
  <2>2. pkgs[p + 1] = <<p>>
    <3>1. p \in Int
      BY <1>2
    <3> QED  BY <1>3, <2>1, <3>1
  <2>3. PICK k \in DOMAIN regs : regs[k] = r
    BY <1>1 DEF CapRegisters
  <2>4. PICK e \in Range(s) : e.zone = pkgs[p + 1] /\ e.register = regs[k]
    BY <1>4, <2>1
  <2> QED  BY <2>2, <2>3, <2>4
<1>10. Gives(s, files, defaults["pkg"])
  BY <1>6, <1>9, <1>11 DEF Gives
<1> QED  BY <1>8, <1>10 DEF s, regs

\* restoreDefaultLimits: sub-domains get what they have, packages the defaults.
LEMMA RestoreGives ==
  ASSUME cpus \in Processors, Regular(cpus), defaults["pkg"] \in Files,
         Quantized(defaults["pkg"]["window"]) = defaults["pkg"]["window"],
         \A d \in PowerDomains : d # "pkg" => defaults[d] = Factory[d],
         NEW files
  PROVE  HarmlessList(RestoreWrites) /\ Gives(RestoreWrites, files, defaults["pkg"])
<1> DEFINE all == <<"power", "window", "enabled">>
           a == RestoreZones("pkg", <<"power", "window">>)
           b == RestoreZones("pp0", all)
           c == RestoreZones("pp1", all)
           d == RestoreZones("dram", all)
<1>1. HarmlessList(a) /\ Gives(a, files, defaults["pkg"])
  BY RestorePackages
<1>2. HarmlessList(b) /\ \A e \in Range(b) : Len(e.zone) # 1
  BY RestoreSub DEF PowerDomains
<1>3. HarmlessList(c) /\ \A e \in Range(c) : Len(e.zone) # 1
  BY RestoreSub DEF PowerDomains
<1>4. HarmlessList(d) /\ \A e \in Range(d) : Len(e.zone) # 1
  BY RestoreSub DEF PowerDomains
<1>5. RestoreWrites = ((a \o b) \o c) \o d
  BY DEF RestoreWrites
<1> HIDE DEF a, b, c, d
<1> DEFINE ab == a \o b
           abc == ab \o c
<1>6. ab \in Seq(WriteRecords) /\ Range(ab) = Range(a) \union Range(b)
  BY <1>1, <1>2, RangeConcat DEF HarmlessList
<1> HIDE DEF ab
<1>7. abc \in Seq(WriteRecords) /\ Range(abc) = Range(ab) \union Range(c)
  BY <1>3, <1>6, RangeConcat DEF HarmlessList
<1> HIDE DEF abc
<1>8. abc \o d \in Seq(WriteRecords) /\ Range(abc \o d) = Range(abc) \union Range(d)
  BY <1>4, <1>7, RangeConcat DEF HarmlessList
<1> DEFINE s == RestoreWrites
<1>9. /\ s \in Seq(WriteRecords)
      /\ Range(s) = Range(a) \union Range(b) \union Range(c) \union Range(d)
  BY <1>5, <1>6, <1>7, <1>8 DEF ab, abc
<1> HIDE DEF s
<1>10. HarmlessList(s)
  BY <1>1, <1>2, <1>3, <1>4, <1>9 DEF HarmlessList
<1>11. Gives(s, files, defaults["pkg"])
  <2>1. ASSUME NEW e \in Range(s), e.zone \in Zs, Len(e.zone) = 1
        PROVE  Held(e) = defaults["pkg"][e.register]
    <3>1. e \in Range(a)
      BY <1>2, <1>3, <1>4, <1>9, <2>1
    <3> QED  BY <1>1, <2>1, <3>1 DEF Gives
  <2>2. Range(a) \subseteq Range(s)
    BY <1>9
  <2>3. ASSUME NEW p \in Packages \ locked, NEW r \in CapRegisters
        PROVE  \/ files[<<p>>][r] = defaults["pkg"][r]
               \/ \E e \in Range(s) : e.zone = <<p>> /\ e.register = r
    BY <1>1, <2>2 DEF Gives
  <2> HIDE DEF a, b, c, d
  <2> QED  BY <2>1, <2>3 DEF Gives
<1> QED  BY <1>10, <1>11 DEF s

\* What set_cpu_power_limit writes: limits and windows of packages.
LEMMA ToolWrites ==
  ASSUME cpus \in Processors, Regular(cpus), NEW asked \in ToolLimits,
         NEW s, s = FlattenSeq([p \in 1 .. 2 |->
                      Writes(<<<<p - 1>>>>, "power", asked.power)
                        \o Writes(<<<<p - 1>>>>, "window", asked.window)])
  PROVE  HarmlessList(s)
<1> DEFINE ps(p) == Writes(<<<<p - 1>>>>, "power", asked.power)
           ws(p) == Writes(<<<<p - 1>>>>, "window", asked.window)
           rows == [p \in 1 .. 2 |-> ps(p) \o ws(p)]
<1>1. asked.power \in Int /\ asked.window \in Int
  BY IntelAssumption
<1>8. /\ Quantized(asked.window) \in Int
      /\ Quantized(Quantized(asked.window)) = Quantized(asked.window)
  BY IntelAssumption
<1> DEFINE Fits(e) == /\ Len(e.zone) = 1 /\ e.register \in CapRegisters
                      /\ Stable(e.register, Held(e))
<1>2. ASSUME NEW p \in 1 .. 2
      PROVE  /\ ps(p) \o ws(p) \in Seq(WriteRecords)
             /\ \A e \in Range(ps(p) \o ws(p)) : Fits(e)
  <2> DEFINE zones == <<<<p - 1>>>>
  <2>1. /\ zones \in Seq(Seq(Nat)) /\ DOMAIN zones = {1} /\ Len(zones[1]) = 1
    OBVIOUS
  <2> HIDE DEF zones
  <2>2. /\ ps(p) \in Seq(WriteRecords)
        /\ Range(ps(p)) = {[zone |-> zones[i], register |-> "power",
                            value |-> asked.power] : i \in DOMAIN zones}
    <3>0. "power" \in Registers
      BY DEF Registers
    <3> DEFINE v == asked.power
    <3>2. v \in Int \union BOOLEAN
      BY <1>1
    <3> HIDE DEF v
    <3>1. /\ Writes(zones, "power", v) \in Seq(WriteRecords)
          /\ Range(Writes(zones, "power", v)) =
               {[zone |-> zones[i], register |-> "power", value |-> v] :
                  i \in DOMAIN zones}
      BY <2>1, <3>0, <3>2, WritesRange
    <3> QED  BY <3>1 DEF zones, v
  <2>3. /\ ws(p) \in Seq(WriteRecords)
        /\ Range(ws(p)) = {[zone |-> zones[i], register |-> "window",
                            value |-> asked.window] : i \in DOMAIN zones}
    <3>0. "window" \in Registers
      BY DEF Registers
    <3> DEFINE v == asked.window
    <3>2. v \in Int \union BOOLEAN
      BY <1>1
    <3> HIDE DEF v
    <3>1. /\ Writes(zones, "window", v) \in Seq(WriteRecords)
          /\ Range(Writes(zones, "window", v)) =
               {[zone |-> zones[i], register |-> "window", value |-> v] :
                  i \in DOMAIN zones}
      BY <2>1, <3>0, <3>2, WritesRange
    <3> QED  BY <3>1 DEF zones, v
  <2> HIDE DEF ps, ws
  <2>4. /\ ps(p) \o ws(p) \in Seq(WriteRecords)
        /\ Range(ps(p) \o ws(p)) = Range(ps(p)) \union Range(ws(p))
    BY <2>2, <2>3, RangeConcat
  <2>5. \A e \in Range(ps(p)) : /\ Len(e.zone) = 1 /\ e.register = "power"
                                /\ e.value = asked.power
    BY <2>1, <2>2
  <2>6. \A e \in Range(ws(p)) : /\ Len(e.zone) = 1 /\ e.register = "window"
                                /\ e.value = asked.window
    BY <2>1, <2>3
  <2>7. \A e \in Range(ps(p)) : Fits(e)
    BY <1>1, <2>5 DEF CapRegisters, Stable, Held
  <2>8. \A e \in Range(ws(p)) : Fits(e)
    BY <1>8, <2>6 DEF CapRegisters, Stable, Held
  <2> HIDE DEF Fits
  <2> QED  BY <2>4, <2>7, <2>8
<1> HIDE DEF ps, ws
<1>3. rows \in Seq(Seq(WriteRecords)) /\ DOMAIN rows = 1 .. 2
  BY <1>2
<1>4. s = FlattenSeq(rows)
  BY DEF ps, ws
<1>5. \A p \in DOMAIN rows : \A e \in Range(rows[p]) : Fits(e)
  <2> HIDE DEF Fits
  <2> QED  BY <1>2
<1> HIDE DEF rows, Fits
<1>6. /\ s \in Seq(WriteRecords)
      /\ Range(s) = UNION {Range(rows[p]) : p \in DOMAIN rows}
  BY <1>3, <1>4, FlattenRange
<1>7. \A e \in Range(s) : Fits(e) /\ e \in WriteRecords
  <2>1. \A e \in Range(s) : Fits(e)
    BY <1>5, <1>6
  <2>2. \A e \in Range(s) : e \in WriteRecords
    BY <1>6, RangeOf
  <2> QED  BY <2>1, <2>2
<1> QED  BY <1>6, <1>7 DEF HarmlessList, Harmless, Fits

-----------------------------------------------------------------------------
(* The invariant of a run *)

\* From the end of the constructor to the end of the process.
Up == {"running", "writing", "ending", "ended"}

\* Capping is on, where the BIOS did not lock it.
PowerLimitBits == [capping : BOOLEAN, pp0Clamp : BOOLEAN]

CappingInv ==
  /\ msr \in [Ids -> PowerLimitBits]
  /\ pc \in Up => \A id \in Ids : PackageOf(id) \in locked \/ msr[id].capping

\* The defaults are those of the factory, but for the limit and the window of
\* the packages: for these, what the first package had when the run started.
DefaultsInv ==
  /\ DOMAIN defaults = PowerDomains
  /\ \A d \in PowerDomains : d # "pkg" => defaults[d] = Factory[d]
  /\ pc = "reading" => unread \subseteq Available
  /\ pc \in {"probing"} \union Up \/ (pc = "reading" /\ "pkg" \notin unread) =>
       defaults["pkg"] = atStart[<<0>>]

\* The packages that are locked keep what they have.
LockedInv == \A p \in Packages \intersect locked : reg[<<p>>] = atStart[<<p>>]

\* Nothing is written before the first cap, and by the monitor never.
ReadOnlyInv ==
  /\ pc \in {"reading", "probing"} => reg = atStart /\ wanted = 0
  /\ monitor /\ pc \in {"reading", "probing"} \union Up =>
       reg = atStart /\ wanted = 0 /\ pc \notin {"writing", "ending"}

\* What is written adds up to the cap, or to the defaults.
WritesInv ==
  /\ wanted \in Nat
  /\ pc = "writing" /\ wanted # 0 => Gives(todo, reg, CapGoal(wanted))
  /\ pc = "running" /\ wanted # 0 => Given(reg, CapGoal(wanted))
  /\ pc = "ending" => Gives(todo, reg, defaults["pkg"])
  /\ pc = "ended" /\ ~monitor => Given(reg, defaults["pkg"])

RunInv ==
  /\ cpus \in Processors
  /\ Regular(cpus) =>
       /\ Untouched(reg) /\ Untouched(atStart) /\ HarmlessList(todo)
       /\ CappingInv /\ DefaultsInv /\ LockedInv /\ ReadOnlyInv /\ WritesInv

LEMMA SamePredicates ==
  ASSUME UNCHANGED machine
  PROVE  /\ Untouched(reg)' <=> Untouched(reg')
         /\ Untouched(atStart)' <=> Untouched(atStart')
         /\ HarmlessList(todo)' <=> HarmlessList(todo')
         /\ Gives(todo, reg, defaults["pkg"])' <=> Gives(todo', reg', defaults'["pkg"])
         /\ Gives(todo, reg, CapGoal(wanted))' <=> Gives(todo', reg', CapGoal(wanted'))
         /\ Given(reg, defaults["pkg"])' <=> Given(reg', defaults'["pkg"])
         /\ Given(reg, CapGoal(wanted))' <=> Given(reg', CapGoal(wanted'))
<1>1. cpus' = cpus /\ model' = model
  BY DEF machine
<1>2. Zs' = Zs /\ Packages' = Packages /\ profile' = profile /\ locked' = locked
  BY SameMachine
<1>3. Untouched(reg)' <=> Untouched(reg')
  BY <1>2 DEF Untouched, DomainOf
<1>4. Untouched(atStart)' <=> Untouched(atStart')
  BY <1>2 DEF Untouched, DomainOf
<1>5. HarmlessList(todo)' <=> HarmlessList(todo')
  BY <1>2 DEF HarmlessList, Harmless, DomainOf
<1>6. Gives(todo, reg, defaults["pkg"])' <=> Gives(todo', reg', defaults'["pkg"])
  BY <1>2 DEF Gives
<1>7. CapGoal(wanted)' = CapGoal(wanted')
  BY SameMachine DEF CapGoal, PackageCap
<1>8. Gives(todo, reg, CapGoal(wanted))' <=> Gives(todo', reg', CapGoal(wanted'))
  BY <1>2, <1>7 DEF Gives
<1>9. Given(reg, defaults["pkg"])' <=> Given(reg', defaults'["pkg"])
  BY <1>2 DEF Given
<1>10. Given(reg, CapGoal(wanted))' <=> Given(reg', CapGoal(wanted'))
  BY <1>2, <1>7 DEF Given
<1> QED  BY <1>3, <1>4, <1>5, <1>6, <1>8, <1>9, <1>10

LEMMA DomainsOfZones ==
  ASSUME cpus \in Processors, Regular(cpus)
  PROVE  \A z \in Zs : /\ DomainOf(z) \in PowerDomains
                       /\ (Len(z) = 1 <=> DomainOf(z) = "pkg")
<1> SUFFICES ASSUME NEW z \in Zs
             PROVE  DomainOf(z) \in PowerDomains /\ (Len(z) = 1 <=> DomainOf(z) = "pkg")
  OBVIOUS
<1>1. PICK d \in PowerDomains, p \in Packages :
        (d = "pkg" \/ profile[d]) /\ z = ZoneOf(profile, d, p)
  <2>1. CASE \E p \in Packages : z = <<p>>
    BY <2>1 DEF ZoneOf, PowerDomains
  <2>2. CASE \E p \in Packages, d \in {"pp0", "pp1", "dram"} :
               profile[d] /\ z = <<p, SubZone(profile, d)>>
    <3>1. PICK p \in Packages, d \in {"pp0", "pp1", "dram"} :
               profile[d] /\ z = <<p, SubZone(profile, d)>>
      BY <2>2
    <3>2. d \in PowerDomains /\ d # "pkg"
      BY DEF PowerDomains
    <3> QED  BY <3>1, <3>2 DEF ZoneOf
  <2> QED  BY <2>1, <2>2 DEF Zs, Zones, Packages
<1> QED  BY <1>1, ZonesOfDomains

LEMMA RunInvInit == Init => RunInv
<1> SUFFICES ASSUME Init, Regular(cpus)
             PROVE  /\ cpus \in Processors
                    /\ Untouched(reg) /\ Untouched(atStart) /\ HarmlessList(todo)
                    /\ CappingInv /\ DefaultsInv /\ LockedInv /\ ReadOnlyInv
                    /\ WritesInv
  BY DEF RunInv, Init
<1>1. /\ cpus \in Processors /\ reg = [z \in Zs |-> Factory[DomainOf(z)]]
      /\ pc = "off" /\ todo = <<>> /\ wanted = 0 /\ atStart = reg
      /\ msr = [id \in Ids |-> [capping |-> FALSE, pp0Clamp |-> TRUE]]
      /\ defaults = Factory
  BY DEF Init, Zs
<1>2. Untouched(reg)
  <2>1. \A z \in Zs : DomainOf(z) \in PowerDomains /\ (Len(z) = 1 <=> DomainOf(z) = "pkg")
    BY <1>1, DomainsOfZones
  <2>2. \A z \in Zs : Factory[DomainOf(z)] \in Files
    BY <2>1, FactoryTypes
  <2>3. reg \in [Zs -> Files]
    BY <1>1, <2>2
  <2>4. \A d \in PowerDomains : Quantized(Factory[d]["window"]) = Factory[d]["window"]
    BY IntelAssumption DEF PowerDomains
  <2>5. \A z \in Zs : Quantized(reg[z]["window"]) = reg[z]["window"]
    BY <1>1, <2>1, <2>4
  <2> QED  BY <1>1, <2>1, <2>3, <2>5 DEF Untouched
<1>3. HarmlessList(todo)
  BY <1>1 DEF HarmlessList, Range
<1>4. CappingInv
  BY <1>1 DEF CappingInv, Up, PowerLimitBits
<1>5. DefaultsInv
  <2>1. DOMAIN Factory = PowerDomains
    BY IntelAssumption DEF PowerDomains
  <2> QED  BY <1>1, <2>1 DEF DefaultsInv, Up
<1>6. LockedInv /\ ReadOnlyInv /\ WritesInv
  BY <1>1 DEF LockedInv, ReadOnlyInv, WritesInv, Up
<1> QED  BY <1>1, <1>2, <1>3, <1>4, <1>5, <1>6

\* The defaults once they are read.
LEMMA DefaultsType ==
  ASSUME cpus \in Processors, Regular(cpus), Untouched(atStart), DefaultsInv,
         pc \in {"probing"} \union Up
  PROVE  /\ defaults["pkg"] \in Files
         /\ Quantized(defaults["pkg"]["window"]) = defaults["pkg"]["window"]
         /\ \A d \in PowerDomains : d # "pkg" => defaults[d] = Factory[d]
<1>1. <<0>> \in Zs
  <2>1. 0 \in Packages /\ "pkg" \in PowerDomains
    BY MachineFound DEF PowerDomains
  <2>2. ZoneOf(profile, "pkg", 0) \in Zs
    BY <2>1, ZonesOfDomains
  <2> QED  BY <2>2 DEF ZoneOf
<1>2. defaults["pkg"] = atStart[<<0>>]
  BY DEF DefaultsInv
<1> QED  BY <1>1, <1>2 DEF Untouched, DefaultsInv

\* The zones and what is still to be written.
LEMMA FilesStep ==
  ASSUME cpus \in Processors, Regular(cpus), Untouched(reg), Untouched(atStart),
         HarmlessList(todo), DefaultsInv, [Next]_vars
  PROVE  /\ UNCHANGED machine
         /\ Untouched(reg') /\ Untouched(atStart') /\ HarmlessList(todo')
<1>1. HarmlessList(<<>>)
  BY DEF HarmlessList, Range
<1>2. ASSUME NEW isMonitor \in BOOLEAN, Start(isMonitor)
      PROVE  UNCHANGED machine /\ reg' = reg /\ atStart' = reg /\ todo' = <<>>
  BY <1>2 DEF Start
<1>3. CASE \/ ReadDefaults \/ \E power \in IdlePowers : InitRapl(power)
           \/ MsrFails \/ MonitorEnds \/ Written \/ Exit \/ UNCHANGED vars
  BY <1>3 DEF ReadDefaults, InitRapl, MsrFails, MonitorEnds, Written, Exit,
              machine, run, vars
<1>4. CASE Crash
  BY <1>1, <1>4 DEF Crash, run
<1>5. ASSUME NEW c \in Caps, SetLimit(c)
      PROVE  /\ UNCHANGED machine
             /\ Untouched(reg') /\ Untouched(atStart') /\ HarmlessList(todo')
  <2>1. c \in Nat
    BY IntelAssumption
  <2>2. HarmlessList(todo')
    BY <1>5, <2>1, CapWrites DEF SetLimit
  <2> QED  BY <1>5, <2>2 DEF SetLimit
<1>6. ASSUME NEW next \in {"writing", "ending"}, Restore(next)
      PROVE  /\ UNCHANGED machine
             /\ Untouched(reg') /\ Untouched(atStart') /\ HarmlessList(todo')
  <2>1. HarmlessList(RestoreWrites)
    BY <1>6, DefaultsType, RestoreGives DEF Restore, Up
  <2> QED  BY <1>6, <2>1 DEF Restore
<1>7. ASSUME NEW asked \in ToolLimits, SetPowerLimit(asked)
      PROVE  /\ UNCHANGED machine
             /\ Untouched(reg') /\ Untouched(atStart') /\ HarmlessList(todo')
  <2>1. HarmlessList(todo')
    BY <1>7, ToolWrites DEF SetPowerLimit
  <2> QED  BY <1>7, <2>1 DEF SetPowerLimit
<1>8. CASE Write
  <2>1. atStart' = atStart
    BY <1>8 DEF Write, run
  <2> QED  BY <1>8, <2>1, WriteEffect
<1> QED  BY <1>1, <1>2, <1>3, <1>4, <1>5, <1>6, <1>7, <1>8 DEF Next

LEMMA CappingEnabled ==
  ASSUME NEW id \in Ids, msr[id] \in PowerLimitBits
  PROVE  /\ EnableCapping(id) \in PowerLimitBits
         /\ PackageOf(id) \in locked \/ EnableCapping(id).capping
<1>1. CASE PackageOf(id) \in locked
  BY <1>1 DEF EnableCapping, checkLockedByBIOS
<1>2. CASE PackageOf(id) \notin locked
  <2>1. EnableCapping(id) = [capping |-> TRUE, pp0Clamp |-> FALSE]
    BY <1>2 DEF EnableCapping, checkLockedByBIOS, SetBits, PowerLimitBits
  <2> QED  BY <2>1 DEF PowerLimitBits
<1> QED  BY <1>1, <1>2

\* The registers.
LEMMA CappingStep ==
  ASSUME cpus \in Processors, Regular(cpus), CappingInv, [Next]_vars
  PROVE  CappingInv'
<1>1. UNCHANGED machine
  BY DEF Next, vars, machine, Start, ReadDefaults, InitRapl, MsrFails, SetLimit,
         Restore, MonitorEnds, SetPowerLimit, Write, Written, Exit, Crash
<1>2. Ids' = Ids /\ locked' = locked /\ \A id : PackageOf(id)' = PackageOf(id)
  BY <1>1, SameMachine
<1>3. CASE msr' = msr /\ (pc \in Up \/ pc' \notin Up)
  BY <1>2, <1>3 DEF CappingInv
<1>4. ASSUME NEW power \in IdlePowers, InitRapl(power) PROVE CappingInv'
  <2>1. msr' = [id \in Ids |-> EnableCapping(id)]
    BY <1>4, MachineFound DEF InitRapl
  <2>2. \A id \in Ids : /\ EnableCapping(id) \in PowerLimitBits
                        /\ PackageOf(id) \in locked \/ EnableCapping(id).capping
    <3>1. \A id \in Ids : msr[id] \in PowerLimitBits
      BY DEF CappingInv
    <3> QED  BY <3>1, CappingEnabled
  <2> QED  BY <1>2, <2>1, <2>2 DEF CappingInv
<1>5. [Next]_vars /\ ~(\E power \in IdlePowers : InitRapl(power)) =>
        msr' = msr /\ (pc \in Up \/ pc' \notin Up)
  BY DEF Next, vars, Start, ReadDefaults, MsrFails, SetLimit, Restore,
         MonitorEnds, SetPowerLimit, Write, Written, Exit, Crash, Up
<1> QED  BY <1>3, <1>4, <1>5

\* What the constructor takes for the defaults.
LEMMA FirstPackageFound ==
  ASSUME cpus \in Processors, Regular(cpus), Untouched(reg)
  PROVE  \A d \in Available :
           /\ d \in PowerDomains
           /\ FirstPackage[d] = IF d = "pkg" THEN reg[<<0>>] ELSE Factory[d]
<1>1. /\ totalPackages \in Nat \ {0} /\ Packages = 0 .. totalPackages - 1
      /\ profile \in Profiles /\ (profile.pp1 => profile.pp0)
  BY MachineFound
<1>2. ASSUME NEW d \in Available
      PROVE  d \in PowerDomains /\ (d = "pkg" \/ profile[d])
  BY DEF Available, PowerDomains
<1>3. ASSUME NEW d \in Available
      PROVE  FirstPackage[d] = reg[ZoneOf(profile, d, 0)]
             /\ ZoneOf(profile, d, 0) \in Zs
             /\ DomainOf(ZoneOf(profile, d, 0)) = d
             /\ (Len(ZoneOf(profile, d, 0)) = 1 <=> d = "pkg")
  <2> DEFINE list == dirs[d]
  <2>0. DirsOf(profile, d, totalPackages) \in Nat \ {0}
    BY <1>1, <1>2 DEF DirsOf
  <2>1. /\ list \in Seq(Seq(Nat)) /\ Len(list) \in Nat \ {0}
        /\ \A i \in DOMAIN list :
             /\ i - 1 \in Packages /\ (d = "pkg" \/ profile[d])
             /\ list[i] = ZoneOf(profile, d, i - 1)
    BY <1>2, <2>0, DirsAreZones
  <2> HIDE DEF list
  <2>2. 1 \in DOMAIN list /\ Head(list) = list[1] /\ 1 - 1 = 0
    BY <2>1
  <2>3. /\ 0 \in Packages /\ (d = "pkg" \/ profile[d])
        /\ Head(list) = ZoneOf(profile, d, 0)
    BY <2>1, <2>2
  <2>4. /\ ZoneOf(profile, d, 0) \in Zs /\ DomainOf(ZoneOf(profile, d, 0)) = d
        /\ (Len(ZoneOf(profile, d, 0)) = 1 <=> d = "pkg")
    BY <1>2, <2>3, ZonesOfDomains
  <2>5. FirstPackage[d] = ReadZone(Head(list))
    BY DEF FirstPackage, list
  <2>6. DOMAIN reg = Zs
    BY DEF Untouched
  <2> QED  BY <2>3, <2>4, <2>5, <2>6 DEF ReadZone
<1>4. ASSUME NEW d \in Available
      PROVE  FirstPackage[d] = IF d = "pkg" THEN reg[<<0>>] ELSE Factory[d]
  <2>1. CASE d = "pkg"
    BY <1>3, <2>1 DEF ZoneOf
  <2>2. CASE d # "pkg"
    BY <1>3, <2>2 DEF Untouched
  <2> QED  BY <2>1, <2>2
<1> QED  BY <1>2, <1>4

\* The defaults.
LEMMA DefaultsStep ==
  ASSUME cpus \in Processors, Regular(cpus), Untouched(reg), DefaultsInv,
         ReadOnlyInv, [Next]_vars
  PROVE  DefaultsInv'
<1>0. Available' = Available /\ "pkg" \in Available
  <2>1. UNCHANGED machine
    BY DEF Next, vars, machine, Start, ReadDefaults, InitRapl, MsrFails, SetLimit,
           Restore, MonitorEnds, SetPowerLimit, Write, Written, Exit, Crash
  <2>2. profile' = profile
    BY <2>1, SameMachine
  <2> QED  BY <2>2 DEF Available
<1>1. CASE ReadDefaults
  <2>1. PICK d \in unread :
          /\ defaults' = [defaults EXCEPT ![d] = FirstPackage[d]]
          /\ unread' = unread \ {d}
          /\ pc' = IF unread = {d} THEN "probing" ELSE "reading"
    BY <1>1 DEF ReadDefaults
  <2>2. pc = "reading" /\ atStart' = atStart /\ reg = atStart /\ d \in Available
    BY <1>1 DEF ReadDefaults, ReadOnlyInv, DefaultsInv
  <2>3. /\ d \in PowerDomains
        /\ FirstPackage[d] = IF d = "pkg" THEN reg[<<0>>] ELSE Factory[d]
    BY <2>2, FirstPackageFound
  <2>4. /\ DOMAIN defaults' = PowerDomains
        /\ defaults'[d] = IF d = "pkg" THEN atStart[<<0>>] ELSE Factory[d]
        /\ \A e \in PowerDomains : e # d => defaults'[e] = defaults[e]
    BY <2>1, <2>2, <2>3 DEF DefaultsInv
  <2>5. \A e \in PowerDomains : e # "pkg" => defaults'[e] = Factory[e]
    BY <2>3, <2>4 DEF DefaultsInv
  <2>6. unread' \subseteq Available'
    BY <1>0, <2>1, <2>2 DEF DefaultsInv
  <2>7. "pkg" \notin unread' => defaults'["pkg"] = atStart'[<<0>>]
    <3>1. CASE d = "pkg"
      BY <2>2, <2>4, <3>1
    <3>2. CASE d # "pkg"
      <4>1. "pkg" \in PowerDomains
        BY DEF PowerDomains
      <4> QED  BY <2>1, <2>2, <2>4, <3>2, <4>1 DEF DefaultsInv
    <3> QED  BY <3>1, <3>2
  <2>8. pc' = "probing" => "pkg" \notin unread'
    BY <2>1
  <2>9. pc' \in {"probing", "reading"}
    BY <2>1
  <2> QED  BY <2>4, <2>5, <2>6, <2>7, <2>8, <2>9 DEF DefaultsInv, Up
<1>2. CASE /\ UNCHANGED <<defaults, atStart>>
           /\ \/ UNCHANGED <<pc, unread>>
              \/ /\ pc' # "reading"
                 /\ pc \in {"probing"} \union Up \/ pc' \notin {"probing"} \union Up
  BY <1>0, <1>2 DEF DefaultsInv
<1>3. ASSUME NEW isMonitor \in BOOLEAN, Start(isMonitor) PROVE DefaultsInv'
  BY <1>0, <1>3 DEF Start, DefaultsInv, Up
<1>4. \/ ReadDefaults
      \/ \E isMonitor \in BOOLEAN : Start(isMonitor)
      \/ /\ UNCHANGED <<defaults, atStart>>
         /\ \/ UNCHANGED <<pc, unread>>
            \/ /\ pc' # "reading"
               /\ pc \in {"probing"} \union Up \/ pc' \notin {"probing"} \union Up
  BY DEF Next, vars, run, InitRapl, MsrFails, SetLimit, Restore,
         MonitorEnds, SetPowerLimit, Write, Written, Exit, Crash, Up
<1> QED  BY <1>1, <1>2, <1>3, <1>4

\* A write to a locked package is lost.
LEMMA LockedStep ==
  ASSUME cpus \in Processors, Regular(cpus), Untouched(reg), HarmlessList(todo),
         LockedInv, [Next]_vars
  PROVE  LockedInv'
<1>1. UNCHANGED machine
  BY DEF Next, vars, machine, Start, ReadDefaults, InitRapl, MsrFails, SetLimit,
         Restore, MonitorEnds, SetPowerLimit, Write, Written, Exit, Crash
<1>2. Packages' = Packages /\ locked' = locked
  BY <1>1, SameMachine
<1>3. CASE Write
  <2>1. atStart' = atStart
    BY <1>3 DEF Write, run
  <2>2. ASSUME NEW p \in Packages \intersect locked PROVE reg'[<<p>>] = reg[<<p>>]
    <3>1. Locked(<<p>>)
      BY DEF Locked
    <3>2. /\ DOMAIN reg = Zs
          /\ reg' = IF Head(todo).zone \in DOMAIN reg /\ ~Locked(Head(todo).zone)
                    THEN [reg EXCEPT ![Head(todo).zone][Head(todo).register] =
                            Held(Head(todo))]
                    ELSE reg
      BY <1>3 DEF Write, Untouched
    <3>3. Head(todo).zone # <<p>> \/ reg' = reg
      BY <3>1, <3>2
    <3>4. <<p>> \in Zs
      BY ZonesOfDomains DEF PowerDomains, ZoneOf
    <3> QED  BY <3>2, <3>3, <3>4
  <2> QED  BY <1>2, <2>1, <2>2 DEF LockedInv
<1>4. CASE \E isMonitor \in BOOLEAN : Start(isMonitor)
  BY <1>2, <1>4 DEF Start, LockedInv
<1>5. CASE UNCHANGED <<reg, atStart>>
  BY <1>2, <1>5 DEF LockedInv
<1>6. \/ Write
      \/ \E isMonitor \in BOOLEAN : Start(isMonitor)
      \/ UNCHANGED <<reg, atStart>>
  BY DEF Next, vars, run, ReadDefaults, InitRapl, MsrFails, SetLimit, Restore,
         MonitorEnds, SetPowerLimit, Written, Exit, Crash
<1> QED  BY <1>3, <1>4, <1>5, <1>6

\* Runs that write nothing.
LEMMA ReadOnlyStep ==
  ASSUME ReadOnlyInv, [Next]_vars
  PROVE  ReadOnlyInv'
<1> USE DEF ReadOnlyInv, Up
<1>1. ASSUME NEW isMonitor \in BOOLEAN, Start(isMonitor) PROVE ReadOnlyInv'
  BY <1>1 DEF Start
<1>2. CASE ReadDefaults
  BY <1>2 DEF ReadDefaults
<1>3. ASSUME NEW power \in IdlePowers, InitRapl(power) PROVE ReadOnlyInv'
  BY <1>3 DEF InitRapl
<1>4. CASE MsrFails \/ Exit \/ Crash
  BY <1>4 DEF MsrFails, Exit, Crash, run
<1>5. ASSUME NEW c \in Caps, SetLimit(c) PROVE ReadOnlyInv'
  BY <1>5 DEF SetLimit
<1>6. CASE Restore("writing") \/ Restore("ending")
  BY <1>6 DEF Restore
<1>7. CASE MonitorEnds
  BY <1>7 DEF MonitorEnds, run
<1>8. ASSUME NEW asked \in ToolLimits, SetPowerLimit(asked) PROVE ReadOnlyInv'
  BY <1>8 DEF SetPowerLimit
<1>9. CASE Write
  BY <1>9 DEF Write, run
<1>10. CASE Written
  BY <1>10 DEF Written, run
<1>11. CASE UNCHANGED vars
  BY <1>11 DEF vars
<1> QED
  BY <1>1, <1>2, <1>3, <1>4, <1>5, <1>6, <1>7, <1>8, <1>9, <1>10, <1>11 DEF Next

\* Once there is nothing to write any more, the packages have it.
LEMMA NothingLeft ==
  ASSUME NEW files, NEW goal, Gives(<<>>, files, goal)
  PROVE  Given(files, goal)
<1>1. Range(<<>>) = {}
  BY DEF Range
<1> QED  BY <1>1 DEF Gives, Given

\* The caps and the defaults that are on their way.
LEMMA WritesStep ==
  ASSUME cpus \in Processors, Regular(cpus), Untouched(reg), Untouched(atStart),
         HarmlessList(todo), DefaultsInv, ReadOnlyInv, WritesInv, [Next]_vars
  PROVE  WritesInv'
<1>1. UNCHANGED machine
  BY FilesStep
<1>2. WritesInv' <=>
        /\ wanted' \in Nat
        /\ pc' = "writing" /\ wanted' # 0 => Gives(todo', reg', CapGoal(wanted'))
        /\ pc' = "running" /\ wanted' # 0 => Given(reg', CapGoal(wanted'))
        /\ pc' = "ending" => Gives(todo', reg', defaults'["pkg"])
        /\ pc' = "ended" /\ ~monitor' => Given(reg', defaults'["pkg"])
  BY <1>1, SamePredicates DEF WritesInv
<1>3. ASSUME NEW isMonitor \in BOOLEAN, Start(isMonitor) PROVE WritesInv'
  BY <1>2, <1>3 DEF Start
<1>4. CASE ReadDefaults
  BY <1>2, <1>4 DEF ReadDefaults, WritesInv
<1>5. ASSUME NEW power \in IdlePowers, InitRapl(power) PROVE WritesInv'
  BY <1>2, <1>5 DEF InitRapl, WritesInv, ReadOnlyInv
<1>6. CASE MsrFails \/ Exit \/ Crash
  BY <1>2, <1>6 DEF MsrFails, Exit, Crash, run, WritesInv
<1>7. ASSUME NEW c \in Caps, SetLimit(c) PROVE WritesInv'
  <2>1. c \in Nat
    BY IntelAssumption
  <2>2. Gives(todo', reg', CapGoal(c))
    BY <1>7, <2>1, CapWrites DEF SetLimit
  <2> QED  BY <1>2, <1>7, <2>1, <2>2 DEF SetLimit
<1>8. ASSUME NEW next \in {"writing", "ending"}, Restore(next) PROVE WritesInv'
  <2>1. Gives(RestoreWrites, reg, defaults["pkg"])
    BY <1>8, DefaultsType, RestoreGives DEF Restore, Up
  <2>2. /\ todo' = RestoreWrites /\ wanted' = 0
        /\ UNCHANGED <<reg, defaults>> /\ pc' \in {"writing", "ending"}
    BY <1>8 DEF Restore
  <2> QED  BY <1>2, <2>1, <2>2
<1>9. CASE MonitorEnds
  BY <1>2, <1>9 DEF MonitorEnds, run, WritesInv
<1>10. ASSUME NEW asked \in ToolLimits, SetPowerLimit(asked) PROVE WritesInv'
  BY <1>2, <1>10 DEF SetPowerLimit, WritesInv
<1>11. CASE Write
  <2>1. UNCHANGED <<wanted, pc, defaults, monitor>> /\ pc \in {"writing", "ending", "setting"}
    BY <1>11 DEF Write, run
  <2>2. pc = "writing" /\ wanted # 0 => Gives(todo', reg', CapGoal(wanted))
    BY <1>11, WriteGives DEF WritesInv
  <2>3. pc = "ending" => Gives(todo', reg', defaults["pkg"])
    BY <1>11, WriteGives DEF WritesInv
  <2> QED  BY <1>2, <2>1, <2>2, <2>3 DEF WritesInv
<1>12. CASE Written
  <2>1. UNCHANGED <<wanted, reg, defaults, monitor>> /\ todo = <<>>
    BY <1>12 DEF Written, run
  <2>2. \/ pc = "writing" /\ pc' = "running"
        \/ pc = "ending" /\ pc' = "ended"
        \/ pc = "setting" /\ pc' = "off"
    BY <1>12 DEF Written
  <2>3. pc = "writing" /\ wanted # 0 => Given(reg, CapGoal(wanted))
    BY <2>1, NothingLeft DEF WritesInv
  <2>4. pc = "ending" => Given(reg, defaults["pkg"])
    BY <2>1, NothingLeft DEF WritesInv
  <2> QED  BY <1>2, <2>1, <2>2, <2>3, <2>4 DEF WritesInv
<1>13. CASE UNCHANGED vars
  BY <1>2, <1>13 DEF vars, WritesInv
<1> QED
  BY <1>3, <1>4, <1>5, <1>6, <1>7, <1>8, <1>9, <1>10, <1>11, <1>12, <1>13 DEF Next

LEMMA RunInvHolds == Spec => []RunInv
<1>1. RunInv /\ [Next]_vars => RunInv'
  <2> SUFFICES ASSUME RunInv, [Next]_vars PROVE RunInv'
    OBVIOUS
  <2>1. UNCHANGED machine
    BY DEF Next, vars, machine, Start, ReadDefaults, InitRapl, MsrFails, SetLimit,
           Restore, MonitorEnds, SetPowerLimit, Write, Written, Exit, Crash
  <2>2. cpus' = cpus /\ cpus \in Processors
    BY <2>1 DEF machine, RunInv
  <2>3. CASE ~Regular(cpus)
    BY <2>2, <2>3 DEF RunInv
  <2>4. CASE Regular(cpus)
    <3>1. /\ Untouched(reg) /\ Untouched(atStart) /\ HarmlessList(todo)
          /\ CappingInv /\ DefaultsInv /\ LockedInv /\ ReadOnlyInv /\ WritesInv
      BY <2>4 DEF RunInv
    <3>2. Untouched(reg') /\ Untouched(atStart') /\ HarmlessList(todo')
      BY <2>2, <2>4, <3>1, FilesStep
    <3>3. Untouched(reg)' /\ Untouched(atStart)' /\ HarmlessList(todo)'
      BY <2>1, <3>2, SamePredicates
    <3>4. CappingInv'
      BY <2>2, <2>4, <3>1, CappingStep
    <3>5. DefaultsInv'
      BY <2>2, <2>4, <3>1, DefaultsStep
    <3>6. ReadOnlyInv'
      BY <3>1, ReadOnlyStep
    <3>7. WritesInv'
      BY <2>2, <2>4, <3>1, WritesStep
    <3>8. LockedInv'
      BY <2>2, <2>4, <3>1, LockedStep
    <3> QED  BY <2>2, <3>3, <3>4, <3>5, <3>6, <3>7, <3>8 DEF RunInv
  <2> QED  BY <2>3, <2>4
<1> QED  BY <1>1, RunInvInit, PTL DEF Spec

\* Division rounds down, and loses less than the divisor.
LEMMA ShareOfCap ==
  ASSUME NEW c \in Nat, NEW n \in Nat \ {0}
  PROVE  n * (c \div n) \in c - n + 1 .. c
<1> DEFINE q == c \div n
           r == (c % n)
<1>1. q \in Int /\ r \in 0 .. n - 1 /\ c = n * q + r
  BY SMTT(30)
<1> HIDE DEF q, r
<1> DEFINE m == n * q
<1>2. m \in Int /\ c = m + r
  BY <1>1
<1> HIDE DEF m
<1>3. m \in c - n + 1 .. c
  BY <1>1, <1>2
<1> QED  BY <1>3 DEF m, q

\* A cap is shared out over the packages of a processor the loop is right for,
\* and takes effect in those the BIOS did not lock, whatever killed runs and
\* tools did before.
THEOREM CapEnforced == Spec => []CapIsEnforced
<1>1. RunInv => CapIsEnforced
  <2> SUFFICES ASSUME RunInv, pc = "running", wanted # 0, Regular(cpus)
               PROVE  /\ \A p \in Packages \ locked :
                           /\ Cardinality(Packages) * reg[<<p>>].power \in
                                wanted - Cardinality(Packages) + 1 .. wanted
                           /\ reg[<<p>>].window = Quantized(ShortWindow)
                      /\ \A id \in Ids : PackageOf(id) \in locked \/ msr[id].capping
    BY DEF CapIsEnforced
  <2>1. /\ totalPackages \in Nat \ {0} /\ Cardinality(Packages) = totalPackages
    BY MachineFound DEF RunInv
  <2>2. wanted \in Nat /\ Given(reg, CapGoal(wanted))
    BY DEF RunInv, WritesInv
  <2>3. \A id \in Ids : PackageOf(id) \in locked \/ msr[id].capping
    BY DEF RunInv, CappingInv, Up
  <2>4. \A p \in Packages \ locked :
          /\ reg[<<p>>].power = wanted \div totalPackages
          /\ reg[<<p>>].window = Quantized(ShortWindow)
    BY <2>2 DEF Given, CapGoal, CapRegisters, PackageCap
  <2>5. totalPackages * (wanted \div totalPackages) \in
          wanted - totalPackages + 1 .. wanted
    BY <2>1, <2>2, ShareOfCap
  <2> QED  BY <2>1, <2>3, <2>4, <2>5
<1> QED  BY <1>1, RunInvHolds, PTL

\* A run that comes to its end leaves the files as it found them, whatever
\* killed runs and tools did before it.
THEOREM NoTrace == Spec => []RunLeavesNoTrace
<1>1. RunInv => RunLeavesNoTrace
  <2> SUFFICES ASSUME RunInv, pc = "ended", Regular(cpus)
               PROVE  /\ monitor \/ Alike(reg)
                      /\ monitor \/ Alike(atStart) => reg = atStart
    BY DEF RunLeavesNoTrace
  <2>1. /\ cpus \in Processors /\ Untouched(reg) /\ Untouched(atStart)
        /\ DefaultsInv /\ LockedInv /\ ReadOnlyInv /\ WritesInv
    BY DEF RunInv
  <2>2. CASE monitor
    BY <2>1, <2>2 DEF ReadOnlyInv, Up
  <2>3. CASE ~monitor
    <3>1. Given(reg, atStart[<<0>>])
      BY <2>1, <2>3 DEF WritesInv, DefaultsInv, Up
    <3>2. /\ 0 \in Packages
          /\ \A p \in Packages : /\ <<p>> \in Zs /\ reg[<<p>>] \in Files
                                 /\ reg[<<p>>]["enabled"] = Factory["pkg"]["enabled"]
                                 /\ atStart[<<p>>] \in Files
                                 /\ atStart[<<p>>]["enabled"] = Factory["pkg"]["enabled"]
      <4>1. 0 \in Packages
        BY <2>1, MachineFound
      <4>2. ASSUME NEW p \in Packages
            PROVE  <<p>> \in Zs /\ Len(<<p>>) = 1
        BY <2>1, ZonesOfDomains DEF ZoneOf, PowerDomains
      <4> QED  BY <2>1, <4>1, <4>2 DEF Untouched
    <3>3. \A p \in Packages \ locked : reg[<<p>>] = atStart[<<0>>]
      <4> SUFFICES ASSUME NEW p \in Packages \ locked PROVE reg[<<p>>] = atStart[<<0>>]
        OBVIOUS
      <4>1. \A q \in Registers : reg[<<p>>][q] = atStart[<<0>>][q]
        BY <3>1, <3>2 DEF Given, CapRegisters, Registers
      <4> QED  BY <3>2, <4>1, FilesEqual
    <3>6. \A p \in Packages \intersect locked : reg[<<p>>] = atStart[<<p>>]
      BY <2>1 DEF LockedInv
    <3>7. reg[<<0>>] = atStart[<<0>>]
      BY <3>2, <3>3, <3>6
    <3>4. Alike(reg)
      BY <3>3, <3>7 DEF Alike
    <3>5. ASSUME Alike(atStart) PROVE reg = atStart
      <4>1. \A p \in Packages : reg[<<p>>] = atStart[<<p>>]
        BY <3>3, <3>5, <3>6 DEF Alike
      <4>2. \A z \in Zs : reg[z] = atStart[z]
        <5> SUFFICES ASSUME NEW z \in Zs PROVE reg[z] = atStart[z]
          OBVIOUS
        <5>1. CASE Len(z) = 1
          BY <2>1, <4>1, <5>1, ZonesOfDomains
        <5>2. CASE Len(z) # 1
          BY <2>1, <5>2 DEF Untouched
        <5> QED  BY <5>1, <5>2
      <4>3. reg \in [Zs -> Files] /\ atStart \in [Zs -> Files]
        BY <2>1 DEF Untouched
      <4> QED  BY <4>2, <4>3
    <3> QED  BY <2>3, <3>4, <3>5
  <2> QED  BY <2>2, <2>3
<1> QED  BY <1>1, RunInvHolds, PTL

-----------------------------------------------------------------------------
(* Sums *)

\* The fold of getSum, point by point.
LEMMA SumTable ==
  ASSUME NEW f, f.data \in Seq(Int)
  PROVE  \E g : /\ g[{}] = 0
                /\ \A i \in 1 .. Len(f.data) :
                     g[1 .. i] = g[1 .. (i - 1)] + f.data[i]
                /\ getSum(f) = g[1 .. Len(f.data)]
<1> DEFINE ids == f.data
           n == Len(ids)
           step == [i \in 1 .. n |-> [a \in Int |-> a + ids[i]]]
           Entry(g, s) == IF s = {} THEN 0 ELSE g[s \ {Max(s)}] + ids[Max(s)]
           T == CHOOSE g : g = [s \in SUBSET DOMAIN ids |-> Entry(g, s)]
<1>1. n \in Nat /\ DOMAIN ids = 1 .. n /\ \A i \in 1 .. n : ids[i] \in Int
  OBVIOUS
<1>2. getSum(f) = T[DOMAIN ids]
  BY DEF getSum, FoldLeft, MapThenFoldSet
<1> HIDE DEF ids, n
<1>3. step \in [1 .. n -> [Int -> Int]]
  BY <1>1
<1>4. PICK g : FoldTable(g, n, Int, 0, step)
  <2>1. 0 \in Int  OBVIOUS
  <2> HIDE DEF step
  <2> QED  BY <1>1, <1>3, <2>1, FoldTableExists
<1>5. ASSUME NEW s \in SUBSET (1 .. n) PROVE g[s] = Entry(g, s)
  <2>1. CASE s = {}
    BY <1>4, <2>1 DEF FoldTable
  <2>2. CASE s # {}
    <3>1. Max(s) \in 1 .. n /\ s \ {Max(s)} \in SUBSET (1 .. n)
      BY <1>1, <2>2, LastIndex
    <3>2. g[s \ {Max(s)}] \in Int
      BY <1>4, <3>1 DEF FoldTable
    <3>3. step[Max(s)][g[s \ {Max(s)}]] = g[s \ {Max(s)}] + ids[Max(s)]
      BY <3>1, <3>2
    <3> QED  BY <1>4, <2>2, <3>3 DEF FoldTable
  <2> QED  BY <2>1, <2>2
<1>6. g = [s \in SUBSET (1 .. n) |-> Entry(g, s)]
  <2> HIDE DEF Entry
  <2> QED  BY <1>4, <1>5 DEF FoldTable
<1> HIDE DEF Entry
<1>7. g = [s \in SUBSET DOMAIN ids |-> Entry(g, s)]
  BY <1>1, <1>6
<1>8. T = [s \in SUBSET DOMAIN ids |-> Entry(T, s)]
  BY <1>7, Zenon
<1> HIDE DEF T
<1>9. \A s \in SUBSET (1 .. n) : T[s] = Entry(T, s)
  BY <1>1, <1>8
<1>10. T[{}] = 0
  BY <1>9 DEF Entry
<1>11. ASSUME NEW i \in 1 .. n PROVE T[1 .. i] = T[1 .. (i - 1)] + ids[i]
  <2>0. i \in Nat /\ 1 <= i /\ i <= n
    BY <1>1
  <2>1. 1 .. i \in SUBSET (1 .. n) /\ 1 .. i # {} /\ i \in Nat
    <3>1. i \in 1 .. i
      BY <2>0
    <3>2. \A k \in 1 .. i : k \in 1 .. n
      BY <1>1, <2>0
    <3> QED  BY <2>0, <3>1, <3>2
  <2>2. Max(1 .. i) \in 1 .. i /\ \A k \in 1 .. i : k <= Max(1 .. i)
    <3>1. 1 .. i \in SUBSET (1 .. i)
      OBVIOUS
    <3> QED  BY <2>1, <3>1, LastIndex
  <2>3. Max(1 .. i) = i
    BY <2>1, <2>2
  <2>4. (1 .. i) \ {i} = 1 .. (i - 1)
    BY <2>1
  <2> QED  BY <1>9, <2>1, <2>3, <2>4 DEF Entry
<1> QED  BY <1>1, <1>2, <1>10, <1>11 DEF n, ids

\* How much an extreme moves a sum away from all points being the other one.
Extra(i, k, amount) == IF k \in 1 .. i THEN amount ELSE 0

LEMMA SumBounds ==
  ASSUME NEW f, f.data \in Seq(Int), NEW lo \in Int, NEW hi \in Int,
         \A i \in 1 .. Len(f.data) : lo <= f.data[i] /\ f.data[i] <= hi,
         NEW p \in Nat, p \in 1 .. Len(f.data) => f.data[p] = hi,
         NEW q \in Nat, q \in 1 .. Len(f.data) => f.data[q] = lo
  PROVE  LET n == Len(f.data)
         IN  /\ getSum(f) \in Int
             /\ n * lo + Extra(n, p, hi - lo) <= getSum(f)
             /\ getSum(f) <= n * hi - Extra(n, q, hi - lo)
<1> DEFINE n == Len(f.data)
<1>1. PICK g : /\ g[{}] = 0
               /\ \A i \in 1 .. n : g[1 .. i] = g[1 .. (i - 1)] + f.data[i]
               /\ getSum(f) = g[1 .. n]
  BY SumTable
<1>2. n \in Nat /\ \A i \in 1 .. n : f.data[i] \in Int
  OBVIOUS
<1> HIDE DEF n
<1> DEFINE Bounded(i) == /\ g[1 .. i] \in Int
                         /\ i * lo + Extra(i, p, hi - lo) <= g[1 .. i]
                         /\ g[1 .. i] <= i * hi - Extra(i, q, hi - lo)
           Good == {i \in 0 .. n : Bounded(i)}
<1>3. 0 \in Good
  <2>1. 1 .. 0 = {} /\ 0 \in 0 .. n
    BY <1>2
  <2>2. Extra(0, p, hi - lo) = 0 /\ Extra(0, q, hi - lo) = 0
    BY DEF Extra
  <2>3. 0 * lo = 0 /\ 0 * hi = 0
    OBVIOUS
  <2> QED  BY <1>1, <2>1, <2>2, <2>3
<1>4. ASSUME NEW i \in 1 .. n, i - 1 \in Good PROVE i \in Good
  <2> DEFINE j == i - 1
             u == g[1 .. j]
             x == f.data[i]
  <2>1. u \in Int /\ x \in Int /\ lo <= x /\ x <= hi /\ g[1 .. i] = u + x
        /\ i \in Nat /\ j \in Nat /\ i \in 0 .. n
    BY <1>1, <1>2, <1>4 DEF n
  <2>2. j * lo + Extra(j, p, hi - lo) <= u /\ u <= j * hi - Extra(j, q, hi - lo)
    BY <1>4
  <2>3. i * lo = j * lo + lo /\ i * hi = j * hi + hi
        /\ j * lo \in Int /\ j * hi \in Int
    <3>1. \A a, b \in Int : (b + 1) * a = b * a + a /\ b * a \in Int
      OBVIOUS
    <3>2. i = j + 1 /\ j \in Int
      BY <2>1
    <3> HIDE DEF j
    <3>3. /\ (j + 1) * lo = j * lo + lo /\ j * lo \in Int
          /\ (j + 1) * hi = j * hi + hi /\ j * hi \in Int
      BY <3>1, <3>2
    <3> QED  BY <3>2, <3>3
  <2>4. Extra(i, p, hi - lo) = IF p = i THEN hi - lo ELSE Extra(j, p, hi - lo)
    BY <2>1 DEF Extra
  <2>5. Extra(i, q, hi - lo) = IF q = i THEN hi - lo ELSE Extra(j, q, hi - lo)
    BY <2>1 DEF Extra
  <2>6. Extra(j, p, hi - lo) \in Int /\ Extra(j, q, hi - lo) \in Int
        /\ (p = i => Extra(j, p, hi - lo) = 0) /\ (q = i => Extra(j, q, hi - lo) = 0)
    BY <2>1 DEF Extra
  <2>7. (p = i => x = hi) /\ (q = i => x = lo)
    BY <1>2 DEF n
  <2> HIDE DEF u, x
  <2> DEFINE jl == j * lo
             jh == j * hi
             il == i * lo
             ih == i * hi
             ejp == Extra(j, p, hi - lo)
             ejq == Extra(j, q, hi - lo)
             eip == Extra(i, p, hi - lo)
             eiq == Extra(i, q, hi - lo)
  <2>8. /\ il = jl + lo /\ ih = jh + hi /\ jl \in Int /\ jh \in Int
        /\ jl + ejp <= u /\ u <= jh - ejq
        /\ eip = (IF p = i THEN hi - lo ELSE ejp)
        /\ eiq = (IF q = i THEN hi - lo ELSE ejq)
        /\ ejp \in Int /\ ejq \in Int /\ (p = i => ejp = 0) /\ (q = i => ejq = 0)
    BY <2>2, <2>3, <2>4, <2>5, <2>6
  <2>9. il + eip <= u + x /\ u + x <= ih - eiq
    <3> HIDE DEF jl, jh, il, ih, ejp, ejq, eip, eiq, j
    <3>1. il + eip <= u + x
      <4>1. CASE p = i
        BY <2>1, <2>7, <2>8, <4>1
      <4>2. CASE p # i
        BY <2>1, <2>8, <4>2
      <4> QED  BY <4>1, <4>2
    <3>2. u + x <= ih - eiq
      <4>1. CASE q = i
        BY <2>1, <2>7, <2>8, <4>1
      <4>2. CASE q # i
        BY <2>1, <2>8, <4>2
      <4> QED  BY <4>1, <4>2
    <3> QED  BY <3>1, <3>2
  <2> QED  BY <2>1, <2>9
<1>5. 0 .. n \subseteq Good
  <2> HIDE DEF Good
  <2> QED  BY <1>2, <1>3, <1>4, NumberInduction
<1>6. n \in Good
  <2>1. n \in 0 .. n
    BY <1>2
  <2> HIDE DEF Good
  <2> QED  BY <1>5, <2>1
<1> QED  BY <1>1, <1>6 DEF n

-----------------------------------------------------------------------------
(* The invariant of the trigger *)

\* The slot the j-th value before the next one went to.
Back(f, j) ==
  IF f.active - j >= 1 THEN f.active - j ELSE f.active - j + Len(f.data)

\* A filter that holds points of S.
Ring(f, S) ==
  /\ f = [data |-> f.data, active |-> f.active]
  /\ f.data \in Seq(S)
  /\ Len(f.data) <= FilterSize
  /\ f.active \in 1 .. FilterSize
  /\ Len(f.data) < FilterSize => f.active = 1

\* The i-th reading before the next one, in a history.
Past(s, i) == s[Len(s) - i + 1]

Least(a, b) == IF a <= b THEN a ELSE b

\* The readings preFilter_ held when the j-th last average was taken.
Window(s, j) == (j + 1) .. Least(j + FilterSize, Len(s))

\* What the j-th last average says of the readings it was taken of.
Averages(x, s, j) ==
  /\ \A v \in Int :
       Window(s, j) # {} /\ (\A i \in Window(s, j) : Past(s, i) = v) =>
         x = v * Scale
  /\ (\A i \in Window(s, j) : Past(s, i) # -1) => x \in Nat \union {NaN}

TriggerInv ==
  /\ type \in {"WITH_WAIT", "IMMEDIATE"}
  /\ samples \in 0 .. (2 * FilterSize)
  /\ recent \in Seq(Nat \union {-1, NaN}) /\ Len(recent) = samples
  /\ Ring(preFilter, Nat \union {-1, NaN})
  /\ Ring(filter, Int \union {NaN})
  /\ Len(preFilter.data) = Least(FilterSize, samples)
  /\ Len(filter.data) = Least(FilterSize, samples)
  /\ \A j \in 1 .. Len(preFilter.data) :
       preFilter.data[Back(preFilter, j)] = Past(recent, j)
  /\ \A j \in 1 .. Len(filter.data) :
       Averages(filter.data[Back(filter, j)], recent, j)
  /\ samples \in 1 .. FilterSize => filter.data[1] = NaN

LEMMA Numbers ==
  /\ FilterSize \in Nat /\ FilterSize > 2 /\ 2 * FilterSize \in Nat
  /\ Scale \in Nat /\ Scale > 0
  /\ Percent \in Nat /\ Percent > 0 /\ Percent <= 10
  /\ NaN \notin Int /\ NaN \notin Nat /\ NaN # -1
<1>1. NaN \notin Int /\ -1 \in Int /\ \A m \in Nat : m \in Int
  BY TriggerAssumption
<1>2. NaN \notin Nat /\ NaN # -1
  BY <1>1
<1> QED  BY <1>1, <1>2, TriggerAssumption

\* Every slot of a filter is the j-th last one, for one j.
LEMMA EverySlot ==
  ASSUME NEW S, NEW f, Ring(f, S)
  PROVE  /\ \A j \in 1 .. Len(f.data) : Back(f, j) \in 1 .. Len(f.data)
         /\ \A k \in 1 .. Len(f.data) :
              \E j \in 1 .. Len(f.data) : k = Back(f, j)
<1> DEFINE n == Len(f.data)
           a == f.active
<1>1. n \in Nat /\ a \in Nat /\ a >= 1 /\ FilterSize \in Nat /\ a <= FilterSize
      /\ n <= FilterSize /\ (n < FilterSize => a = 1)
  BY Numbers DEF Ring
<1>2. \A j \in 1 .. n : Back(f, j) = IF a - j >= 1 THEN a - j ELSE a - j + n
  BY DEF Back
<1> HIDE DEF n, a
<1>3. ASSUME NEW j \in 1 .. n PROVE Back(f, j) \in 1 .. n
  BY <1>1, <1>2
<1>4. ASSUME NEW k \in 1 .. n PROVE \E j \in 1 .. n : k = Back(f, j)
  <2>1. CASE k < a
    <3>1. a - k \in 1 .. n
      BY <1>1, <2>1
    <3>2. Back(f, a - k) = k
      BY <1>1, <1>2, <2>1, <3>1
    <3> QED  BY <3>1, <3>2
  <2>2. CASE k >= a
    <3>1. a - k + n \in 1 .. n
      BY <1>1, <2>2
    <3>2. Back(f, a - k + n) = k
      BY <1>1, <1>2, <2>2, <3>1
    <3> QED  BY <3>1, <3>2
  <2> QED  BY <1>1, <2>1, <2>2
<1> QED  BY <1>3, <1>4 DEF n

\* What one more value does to a filter: it is the last one, and those before
\* are one step older.
LEMMA Stored ==
  ASSUME NEW S, NEW f, Ring(f, S), NEW x \in S
  PROVE  LET g == storeDataPoint(f, x)
         IN  /\ Ring(g, S)
             /\ Len(g.data) = Least(FilterSize, Len(f.data) + 1)
             /\ g.data[Back(g, 1)] = x
             /\ \A j \in 1 .. (Len(g.data) - 1) :
                  g.data[Back(g, j + 1)] = f.data[Back(f, j)]
             /\ Len(f.data) < FilterSize =>
                  g.data[Len(f.data) + 1] = x
                  /\ \A k \in 1 .. Len(f.data) : g.data[k] = f.data[k]
<1> DEFINE n == Len(f.data)
           a == f.active
           g == storeDataPoint(f, x)
<1>1. n \in Nat /\ a \in Nat /\ a >= 1 /\ FilterSize \in Nat /\ a <= FilterSize
      /\ n <= FilterSize /\ (n < FilterSize => a = 1) /\ FilterSize > 2
  BY Numbers DEF Ring
<1>2. f.data \in Seq(S) /\ f = [data |-> f.data, active |-> f.active]
  BY DEF Ring
<1>3. CASE n = FilterSize
  <2>1. g = [data |-> [f.data EXCEPT ![a] = x], active |-> shiftActiveIndex(a)]
    BY <1>3 DEF storeDataPoint
  <2>2. g.data = [f.data EXCEPT ![a] = x] /\ g.active = shiftActiveIndex(a)
        /\ g = [data |-> g.data, active |-> g.active]
    BY <2>1
  <2>3. a \in 1 .. n
    BY <1>1, <1>3
  <2>4. g.data \in Seq(S) /\ Len(g.data) = n
        /\ \A k \in 1 .. n : g.data[k] = IF k = a THEN x ELSE f.data[k]
    BY <1>2, <2>2, <2>3
  <2>5. g.active = IF a + 1 > FilterSize THEN 1 ELSE a + 1
    BY <2>2 DEF shiftActiveIndex
  <2>6. \A j \in 1 .. n :
          /\ Back(f, j) = IF a - j >= 1 THEN a - j ELSE a - j + n
          /\ Back(g, j) = IF g.active - j >= 1 THEN g.active - j
                          ELSE g.active - j + n
    BY <2>4 DEF Back
  <2> HIDE DEF g, n, a
  <2>7. Ring(g, S)
    BY <1>1, <1>3, <2>2, <2>4, <2>5 DEF Ring
  <2>8. Back(g, 1) = a /\ 1 \in 1 .. n
    BY <1>1, <1>3, <2>5, <2>6
  <2>9. ASSUME NEW j \in 1 .. (n - 1)
        PROVE  g.data[Back(g, j + 1)] = f.data[Back(f, j)]
    <3>1. j \in 1 .. n /\ j + 1 \in 1 .. n
      BY <1>1
    <3>2. Back(g, j + 1) = Back(f, j) /\ Back(f, j) \in 1 .. n /\ Back(f, j) # a
      BY <1>1, <1>3, <2>5, <2>6, <3>1
    <3> QED  BY <2>4, <3>2
  <2>10. Least(FilterSize, n + 1) = n
    BY <1>1, <1>3 DEF Least
  <2>11. g.data[Back(g, 1)] = x
    BY <2>3, <2>4, <2>8
  <2> QED  BY <1>1, <1>3, <2>4, <2>7, <2>9, <2>10, <2>11 DEF g, n
<1>4. CASE n # FilterSize
  <2>1. g = [f EXCEPT !.data = Append(f.data, x)]
    BY <1>4 DEF storeDataPoint
  <2>2. g.data = Append(f.data, x) /\ g.active = a
        /\ g = [data |-> g.data, active |-> g.active]
    BY <1>2, <2>1
  <2>3. a = 1 /\ n < FilterSize
    BY <1>1, <1>4
  <2>4. g.data \in Seq(S) /\ Len(g.data) = n + 1 /\ g.data[n + 1] = x
        /\ \A k \in 1 .. n : g.data[k] = f.data[k]
    BY <1>2, <2>2
  <2>6. /\ \A j \in 1 .. n : Back(f, j) = n + 1 - j
        /\ \A j \in 1 .. (n + 1) : Back(g, j) = n + 2 - j
    <3>1. /\ f.active = 1 /\ g.active = 1
          /\ Len(f.data) = n /\ Len(g.data) = n + 1
      BY <2>2, <2>3, <2>4
    <3> HIDE DEF g, n, a
    <3> QED  BY <1>1, <3>1 DEF Back
  <2> HIDE DEF g, n, a
  <2>7. Ring(g, S)
    BY <1>1, <2>2, <2>3, <2>4 DEF Ring
  <2>8. Back(g, 1) = n + 1
    BY <1>1, <2>6
  <2>9. ASSUME NEW j \in 1 .. n
        PROVE  g.data[Back(g, j + 1)] = f.data[Back(f, j)]
    <3>1. j + 1 \in 1 .. (n + 1) /\ n + 1 - j \in 1 .. n
      BY <1>1
    <3>2. Back(g, j + 1) = n + 1 - j /\ Back(f, j) = n + 1 - j
      BY <1>1, <2>6, <3>1
    <3> QED  BY <2>4, <3>1, <3>2
  <2>10. Least(FilterSize, n + 1) = n + 1 /\ n + 1 - 1 = n
    BY <1>1, <2>3 DEF Least
  <2> QED  BY <1>1, <2>3, <2>4, <2>7, <2>8, <2>9, <2>10 DEF g, n
<1> QED  BY <1>3, <1>4

\* t is the history s with x as its last entry, and n entries at most.
Longer(t, s, x, n) ==
  /\ Len(t) = IF Len(s) < n THEN Len(s) + 1 ELSE n
  /\ t[Len(t)] = x
  /\ \A i \in 1 .. (Len(t) - 1) : t[Len(t) - i] = s[Len(s) - i + 1]

LEMMA Kept ==
  ASSUME NEW S, NEW s \in Seq(S), NEW x \in S, NEW n \in Nat, n > 0,
         Len(s) <= n
  PROVE  /\ KeepLast(n, Append(s, x)) \in Seq(S)
         /\ Longer(KeepLast(n, Append(s, x)), s, x, n)
<1> DEFINE u == Append(s, x)
           m == Len(s)
<1>1. u \in Seq(S) /\ Len(u) = m + 1 /\ u[m + 1] = x /\ m \in Nat /\ m <= n
      /\ \A i \in 1 .. m : u[i] = s[i]
  OBVIOUS
<1>2. CASE m < n
  <2>1. KeepLast(n, u) = u
    BY <1>1, <1>2 DEF KeepLast
  <2> QED  BY <1>1, <1>2, <2>1 DEF Longer
<1>3. CASE m = n
  <2>1. KeepLast(n, u) = Tail(u)
    BY <1>1, <1>3 DEF KeepLast
  <2>2. Tail(u) \in Seq(S) /\ Len(Tail(u)) = m
        /\ \A i \in 1 .. m : Tail(u)[i] = u[i + 1]
    BY <1>1
  <2> QED  BY <1>1, <1>3, <2>1, <2>2 DEF Longer
<1> QED  BY <1>1, <1>2, <1>3

-----------------------------------------------------------------------------
(* Averages *)

\* Points have a largest and a smallest one.
LEMMA Extremes ==
  ASSUME NEW s \in Seq(Int), s # <<>>
  PROVE  \E p, q \in 1 .. Len(s) :
           \A k \in 1 .. Len(s) : s[q] <= s[k] /\ s[k] <= s[p]
<1> DEFINE n == Len(s)
           Reached(i) == \E p, q \in 1 .. i :
                         \A k \in 1 .. i : s[q] <= s[k] /\ s[k] <= s[p]
           Good == {i \in 0 .. n : i = 0 \/ Reached(i)}
<1>1. n \in Nat /\ n > 0 /\ \A k \in 1 .. n : s[k] \in Int
  OBVIOUS
<1> HIDE DEF n
<1>2. 0 \in Good
  BY <1>1
<1>3. ASSUME NEW i \in 1 .. n, i - 1 \in Good PROVE i \in Good
  <2>0. i \in Nat /\ i >= 1 /\ i <= n /\ i \in 1 .. i /\ i \in 0 .. n
    BY <1>1
  <2>1. CASE i = 1
    <3>1. \A k \in 1 .. i : s[i] <= s[k] /\ s[k] <= s[i]
      BY <1>1, <2>0, <2>1
    <3>2. Reached(i)
      BY <2>0, <3>1
    <3> QED  BY <2>0, <3>2
  <2>2. CASE i # 1
    <3>1. PICK p, q \in 1 .. (i - 1) :
            \A k \in 1 .. (i - 1) : s[q] <= s[k] /\ s[k] <= s[p]
      BY <1>3, <2>0, <2>2
    <3> DEFINE p1 == IF s[i] >= s[p] THEN i ELSE p
               q1 == IF s[i] <= s[q] THEN i ELSE q
    <3>2. /\ p \in 1 .. n /\ q \in 1 .. n /\ p \in 1 .. i /\ q \in 1 .. i
          /\ \A k \in 1 .. i : k = i \/ k \in 1 .. (i - 1)
      BY <1>1, <2>0
    <3>3. s[p] \in Int /\ s[q] \in Int /\ s[i] \in Int
          /\ \A k \in 1 .. i : s[k] \in Int
      BY <1>1, <2>0, <3>2
    <3>4. p1 \in 1 .. i /\ q1 \in 1 .. i
      BY <2>0, <3>2
    <3>5. s[p] <= s[p1] /\ s[i] <= s[p1] /\ s[q1] <= s[q] /\ s[q1] <= s[i]
          /\ s[p1] \in Int /\ s[q1] \in Int
      BY <3>3
    <3> HIDE DEF p1, q1
    <3>6. ASSUME NEW k \in 1 .. i PROVE s[q1] <= s[k] /\ s[k] <= s[p1]
      <4>1. CASE k = i
        BY <3>5, <4>1
      <4>2. CASE k \in 1 .. (i - 1)
        <5>1. s[q] <= s[k] /\ s[k] <= s[p]
          BY <3>1, <4>2
        <5>2. s[k] \in Int
          BY <3>3
        <5> DEFINE x == s[k]
                   low == s[q]
                   high == s[p]
                   low1 == s[q1]
                   high1 == s[p1]
        <5>3. /\ x \in Int /\ low \in Int /\ high \in Int /\ low1 \in Int
              /\ high1 \in Int
              /\ low <= x /\ x <= high /\ low1 <= low /\ high <= high1
          BY <3>3, <3>5, <5>1, <5>2
        <5>4. low1 <= x /\ x <= high1
          <6> HIDE DEF x, low, high, low1, high1
          <6> QED  BY <5>3
        <5> QED  BY <5>4
      <4> QED  BY <3>2, <4>1, <4>2
    <3>7. Reached(i)
      BY <3>4, <3>6
    <3> QED  BY <2>0, <3>7
  <2> QED  BY <2>1, <2>2
<1>4. 0 .. n \subseteq Good
  <2> HIDE DEF Good
  <2> QED  BY <1>1, <1>2, <1>3, NumberInduction
<1>5. n \in Good
  <2>1. n \in 0 .. n
    BY <1>1
  <2> HIDE DEF Good
  <2> QED  BY <1>4, <2>1
<1>6. Reached(n)
  BY <1>1, <1>5
<1> QED  BY <1>6 DEF n

\* A sum divided by the number of its points.
LEMMA Quotient ==
  ASSUME NEW n \in Nat, n > 0, NEW a \in Int
  PROVE  /\ (a \div n) \in Int
         /\ a >= 0 => (a \div n) >= 0
         /\ \A w \in Int : a = n * w => (a \div n) = w
<1>1. (a \div n) \in Int
  OBVIOUS
<1>2. /\ n * (a \div n) <= a
      /\ a < n * ((a \div n) + 1)
  OBVIOUS
<1> DEFINE d == a \div n
<1>3. d \in Int /\ n * d <= a /\ a < n * (d + 1)
  BY <1>1, <1>2
<1> HIDE DEF d
<1>4. a >= 0 => d >= 0
  <2> SUFFICES ASSUME a >= 0, d <= -1 PROVE FALSE
    BY <1>3
  <2>1. n * (d + 1) <= 0
    <3>1. \A x, y \in Int : (x > 0 /\ y <= 0) => x * y <= 0
      OBVIOUS
    <3>2. d + 1 \in Int /\ d + 1 <= 0
      BY <1>3
    <3> QED  BY <3>1, <3>2
  <2> QED  BY <1>3, <2>1
<1>5. ASSUME NEW w \in Int, a = n * w PROVE d = w
  <2>1. \A x, y \in Int : x < y => n * (x + 1) <= n * y
    OBVIOUS
  <2>2. \A x, y \in Int : x < y => n * x < n * y
    OBVIOUS
  <2>3. ~ (d < w)
    BY <1>3, <1>5, <2>1
  <2>4. ~ (w < d)
    BY <1>3, <1>5, <2>2
  <2> QED  BY <1>3, <2>3, <2>4
<1> QED  BY <1>3, <1>4, <1>5 DEF d

\* The average of the values of a filter.
LEMMA Average ==
  ASSUME NEW f, f.data \in Seq(Nat \union {-1, NaN})
  PROVE  /\ getSMA(f) \in Int \union {NaN}
         /\ \A v \in Int :
              f.data # <<>> /\ (\A k \in 1 .. Len(f.data) : f.data[k] = v) =>
                getSMA(f) = v * Scale
         /\ (\A k \in 1 .. Len(f.data) : f.data[k] # -1) =>
              getSMA(f) \in Nat \union {NaN}
         /\ f.data = <<>> => getSMA(f) = NaN
<1> DEFINE n == Len(f.data)
<1>1. n \in Nat /\ Range(f.data) = {f.data[k] : k \in 1 .. n}
      /\ (f.data = <<>> <=> n = 0)
  BY DEF Range
<1>2. CASE f.data = <<>> \/ NaN \in Range(f.data)
  <2>1. getSMA(f) = NaN
    BY <1>2 DEF getSMA
  <2>2. ASSUME NEW v \in Int, f.data # <<>>,
               \A k \in 1 .. Len(f.data) : f.data[k] = v
        PROVE  FALSE
    BY <1>1, <1>2, <2>2, Numbers
  <2> QED  BY <2>1, <2>2
<1>3. CASE f.data # <<>> /\ NaN \notin Range(f.data)
  <2>1. n > 0 /\ \A k \in 1 .. n : f.data[k] \in Nat \union {-1}
    BY <1>1, <1>3
  <2>2. f.data \in Seq(Int)
    BY <2>1
  <2>3. getSMA(f) = (getSum(f) * Scale) \div n
    BY <1>3 DEF getSMA
  <2>4. PICK p, q \in 1 .. n :
          \A k \in 1 .. n : f.data[q] <= f.data[k] /\ f.data[k] <= f.data[p]
    BY <1>3, <2>2, Extremes
  <2> DEFINE lo == f.data[q]
             hi == f.data[p]
  <2>5. lo \in Int /\ hi \in Int /\ lo <= hi /\ p \in Nat /\ q \in Nat
        /\ \A k \in 1 .. n : lo <= f.data[k] /\ f.data[k] <= hi
    BY <1>1, <2>1, <2>4
  <2>6. /\ getSum(f) \in Int
        /\ n * lo + Extra(n, p, hi - lo) <= getSum(f)
        /\ getSum(f) <= n * hi - Extra(n, q, hi - lo)
    BY <2>2, <2>5, SumBounds
  <2>7. Extra(n, p, hi - lo) = hi - lo /\ Extra(n, q, hi - lo) = hi - lo
    BY <1>1, <2>4 DEF Extra
  <2> HIDE DEF n
  <2> DEFINE sum == getSum(f)
             nl == n * lo
             nh == n * hi
  <2>8. sum \in Int /\ nl + (hi - lo) <= sum /\ sum <= nh - (hi - lo)
        /\ nl \in Int /\ nh \in Int
    <3>1. nl \in Int /\ nh \in Int
      BY <1>1, <2>5
    <3>2. sum \in Int /\ nl + (hi - lo) <= sum /\ sum <= nh - (hi - lo)
      <4> HIDE DEF lo, hi
      <4> QED  BY <2>6, <2>7
    <3> QED  BY <3>1, <3>2
  <2>9. getSMA(f) = (sum * Scale) \div n /\ sum * Scale \in Int
    BY <2>3, <2>8, Numbers
  <2>10. getSMA(f) \in Int
    <3> HIDE DEF sum
    <3> QED  BY <1>1, <2>1, <2>9, Quotient
  <2>11. ASSUME NEW v \in Int, \A k \in 1 .. n : f.data[k] = v
         PROVE  getSMA(f) = v * Scale
    <3>1. lo = v /\ hi = v
      BY <2>4, <2>11
    <3>2. sum = n * v
      <4>1. nl = n * v /\ nh = n * v
        BY <3>1
      <4> HIDE DEF sum, nl, nh
      <4> QED  BY <2>8, <3>1, <4>1
    <3>3. sum * Scale = n * (v * Scale) /\ v * Scale \in Int
      <4>1. \A a, b, c \in Int : (a * b) * c = a * (b * c) /\ b * c \in Int
        OBVIOUS
      <4>2. Scale \in Int /\ n \in Int
        BY <1>1, Numbers
      <4>3. (n * v) * Scale = n * (v * Scale) /\ v * Scale \in Int
        BY <4>1, <4>2
      <4> HIDE DEF sum
      <4> QED  BY <3>2, <4>3
    <3> HIDE DEF sum
    <3> QED  BY <1>1, <2>1, <2>9, <3>3, Quotient
  <2>12. ASSUME \A k \in 1 .. n : f.data[k] # -1
         PROVE  getSMA(f) \in Nat
    <3>1. lo \in Nat /\ hi >= lo
      BY <2>1, <2>4, <2>5, <2>12
    <3>2. nl >= 0
      <4>1. \A a, b \in Nat : a * b >= 0
        OBVIOUS
      <4> QED  BY <1>1, <3>1, <4>1
    <3>3. sum >= 0
      <4> HIDE DEF sum, nl, nh, lo, hi
      <4> QED  BY <2>5, <2>8, <3>1, <3>2
    <3>4. sum * Scale >= 0
      <4>1. \A a, b \in Nat : a * b >= 0
        OBVIOUS
      <4>2. sum \in Nat /\ Scale \in Nat
        BY <2>8, <3>3, Numbers
      <4> HIDE DEF sum
      <4> QED  BY <4>1, <4>2
    <3> HIDE DEF sum
    <3>5. (sum * Scale) \div n >= 0 /\ (sum * Scale) \div n \in Int
      BY <1>1, <2>1, <2>9, <3>4, Quotient
    <3> QED  BY <2>9, <3>5
  <2> QED  BY <1>3, <2>10, <2>11, <2>12 DEF n
<1> QED  BY <1>2, <1>3

\* The arithmetic of a spread that is small next to the average of the points
\* without the two extremes: it is small next to the average of all of them.
LEMMA SmallSpread ==
  ASSUME NEW n \in Nat, n > 2, NEW percent \in 1 .. 10,
         NEW lo \in Nat, NEW hi \in Nat, NEW sum \in Int, lo <= hi,
         n * lo + (hi - lo) <= sum, sum <= n * hi - (hi - lo),
         100 * (hi - lo) * (n - 2) < percent * (sum - hi - lo)
  PROVE  100 * n * (hi - lo) < (percent + 1) * sum
<1> DEFINE d == hi - lo
           c == sum - hi - lo
           nl == n * lo
           nh == n * hi
<1>0. percent \in Int /\ percent >= 1 /\ percent <= 10 /\ n \in Int
      /\ lo \in Int /\ hi \in Int
  OBVIOUS
<1>1. /\ d \in Nat /\ c \in Int /\ nl \in Nat /\ nh \in Nat
      /\ nl + d <= sum /\ sum <= nh - d
  OBVIOUS
<1>2. (n - 2) * hi = nh - 2 * hi /\ nl >= 3 * lo
  <2>1. \A a, b \in Int : (a - 2) * b = a * b - 2 * b
    OBVIOUS
  <2>2. \A a, b \in Nat : a > 2 => a * b >= 3 * b
    OBVIOUS
  <2> QED  BY <1>0, <2>1, <2>2
<1>3. c <= (n - 2) * hi /\ c \in Int
  <2> HIDE DEF nl, nh
  <2> QED  BY <1>0, <1>1, <1>2
<1>4. percent * c <= percent * ((n - 2) * hi)
  <2>1. \A a, b \in Int : a <= b => percent * a <= percent * b
    OBVIOUS
  <2>2. (n - 2) * hi \in Int
    BY <1>0
  <2> HIDE DEF c
  <2> QED  BY <1>3, <2>1, <2>2
<1>5. (100 * d) * (n - 2) < (percent * hi) * (n - 2)
  <2>1. \A a, b, e \in Int : a * (b * e) = (a * e) * b /\ a * (b * e) \in Int
    OBVIOUS
  <2>2. percent * ((n - 2) * hi) = (percent * hi) * (n - 2)
        /\ percent * ((n - 2) * hi) \in Int /\ n - 2 \in Int
    BY <1>0, <2>1
  <2>3. percent * c \in Int /\ (100 * d) * (n - 2) \in Int
    BY <1>0, <1>1
  <2>4. (100 * d) * (n - 2) < percent * c
    OBVIOUS
  <2> HIDE DEF c, d
  <2> QED  BY <1>4, <2>2, <2>3, <2>4
<1>6. 100 * d < percent * hi
  <2>1. \A a, b, e \in Int : (e > 0 /\ a * e < b * e) => a < b
    OBVIOUS
  <2>2. 100 * d \in Int /\ percent * hi \in Int /\ n - 2 \in Int /\ n - 2 > 0
    BY <1>0, <1>1
  <2> HIDE DEF d
  <2> QED  BY <1>5, <2>1, <2>2
<1>7. percent * hi <= 10 * hi /\ percent * d <= 10 * d
      /\ percent * hi \in Int /\ percent * d \in Int
  <2>1. \A a \in Nat : percent * a <= 10 * a
    OBVIOUS
  <2> QED  BY <1>0, <1>1, <2>1
<1>8. hi <= sum /\ percent * d <= sum
  <2> HIDE DEF nl, nh
  <2> QED  BY <1>0, <1>1, <1>2, <1>6, <1>7
<1>9. percent * hi = percent * lo + percent * d
      /\ percent * lo \in Int
  <2>1. \A a, b, e \in Int : a * (b + e) = a * b + a * e /\ a * b \in Int
    OBVIOUS
  <2>2. hi = lo + d /\ d \in Int
    OBVIOUS
  <2> HIDE DEF d
  <2> QED  BY <1>0, <2>1, <2>2
<1>10. percent * c = percent * sum - percent * hi - percent * lo
       /\ percent * sum \in Int
  <2>1. \A a, b, e, h \in Int :
          a * (b - e - h) = a * b - a * e - a * h /\ a * b \in Int
    OBVIOUS
  <2> QED  BY <1>0, <2>1
<1>11. (percent + 1) * sum = percent * sum + sum
  <2>1. \A a, b \in Int : (a + 1) * b = a * b + b
    OBVIOUS
  <2> QED  BY <1>0, <2>1
<1>12. 100 * n * d = (100 * d) * (n - 2) + 200 * d
       /\ (100 * d) * (n - 2) \in Int
  <2>1. \A a, b \in Int : 100 * a * b = (100 * b) * (a - 2) + 200 * b
                          /\ (100 * b) * (a - 2) \in Int
    OBVIOUS
  <2> QED  BY <1>0, <1>1, <2>1
<1>13. (100 * d) * (n - 2) < percent * c
  OBVIOUS
<1> DEFINE ph == percent * hi
           pl == percent * lo
           pd == percent * d
           ps == percent * sum
           prc == percent * c
           dn == (100 * d) * (n - 2)
<1>14. 100 * d < ph /\ pd <= sum /\ ph = pl + pd /\ prc = ps - ph - pl
       /\ dn < prc /\ ph \in Int /\ pl \in Int /\ pd \in Int /\ ps \in Int
       /\ dn \in Int
  BY <1>6, <1>7, <1>8, <1>9, <1>10, <1>12, <1>13
<1>15. dn + 200 * d < ps + sum
  <2> HIDE DEF ph, pl, pd, ps, prc, dn, d
  <2> QED  BY <1>1, <1>14
<1> QED  BY <1>11, <1>12, <1>15

-----------------------------------------------------------------------------
(* The invariant is inductive *)

LEMMA TriggerStarts == TriggerInit => TriggerInv
<1> SUFFICES ASSUME TriggerInit PROVE TriggerInv
  OBVIOUS
<1>1. recent = <<>> /\ samples = 0 /\ type \in {"WITH_WAIT", "IMMEDIATE"}
      /\ preFilter = EmptyFilter /\ filter = EmptyFilter
  BY DEF TriggerInit
<1>2. /\ EmptyFilter.data = <<>> /\ EmptyFilter.active = 1
      /\ EmptyFilter = [data |-> EmptyFilter.data, active |-> EmptyFilter.active]
  BY DEF EmptyFilter
<1>3. \A S : Ring(EmptyFilter, S)
  BY <1>2, Numbers DEF Ring
<1>4. Least(FilterSize, 0) = 0 /\ 0 \in 0 .. (2 * FilterSize)
  BY Numbers DEF Least
<1> QED  BY <1>1, <1>2, <1>3, <1>4, Numbers DEF TriggerInv

LEMMA TriggerSteps ==
  ASSUME TriggerInv, NEW reading \in Nat \union {-1, NaN},
         NEW active \in BOOLEAN, Sampled(reading, active)
  PROVE  TriggerInv'
<1> DEFINE k == Len(recent)
           S == Nat \union {-1, NaN}
           T == Int \union {NaN}
           average == getSMA(preFilter)
<1>1. /\ k \in Nat /\ k <= 2 * FilterSize /\ samples = k
      /\ FilterSize \in Nat /\ FilterSize > 2 /\ recent \in Seq(S)
  BY Numbers DEF TriggerInv
<1>2. /\ filter' = storeDataPoint(filter, average)
      /\ preFilter' = storeDataPoint(preFilter, reading)
      /\ recent' = KeepLast(2 * FilterSize, Append(recent, reading))
      /\ samples' = IF samples < 2 * FilterSize THEN samples + 1 ELSE samples
      /\ type' = type
  BY DEF Sampled, appendPowerSampleToSmaFilter
<1>3. /\ recent' \in Seq(S)
      /\ Len(recent') = IF k < 2 * FilterSize THEN k + 1 ELSE 2 * FilterSize
      /\ recent'[Len(recent')] = reading
      /\ \A i \in 1 .. (Len(recent') - 1) :
           recent'[Len(recent') - i] = recent[k - i + 1]
  <2> DEFINE N == 2 * FilterSize
  <2>1. N \in Nat /\ N > 0
    BY <1>1
  <2> HIDE DEF N, S
  <2>2. recent' = KeepLast(N, Append(recent, reading)) /\ recent \in Seq(S)
        /\ reading \in S /\ Len(recent) <= N
    BY <1>1, <1>2 DEF N, S
  <2>3. /\ recent' \in Seq(S)
        /\ Len(recent') = IF Len(recent) < N THEN Len(recent) + 1 ELSE N
        /\ recent'[Len(recent')] = reading
        /\ \A i \in 1 .. (Len(recent') - 1) :
             recent'[Len(recent') - i] = recent[Len(recent) - i + 1]
    <3>1. Longer(recent', recent, reading, N) /\ recent' \in Seq(S)
      BY <2>1, <2>2, Kept
    <3> QED  BY <3>1 DEF Longer
  <2>4. k = Len(recent)
    OBVIOUS
  <2> HIDE DEF k
  <2>5. Len(recent') = IF k < 2 * FilterSize THEN k + 1 ELSE 2 * FilterSize
    BY <2>3, <2>4 DEF N
  <2>6. \A i \in 1 .. (Len(recent') - 1) :
          recent'[Len(recent') - i] = recent[k - i + 1]
    BY <2>3, <2>4
  <2> QED  BY <2>3, <2>5, <2>6
<1>4. /\ samples' = Len(recent') /\ samples' \in 0 .. (2 * FilterSize)
      /\ samples' \in Nat
  BY <1>1, <1>2, <1>3
<1>5. /\ Past(recent', 1) = reading
      /\ \A i \in 1 .. (Len(recent') - 1) : Past(recent', i + 1) = Past(recent, i)
  <2>1. Len(recent') \in Nat
    BY <1>3
  <2>2. Len(recent') - 1 + 1 = Len(recent')
    BY <2>1
  <2>3. \A i \in 1 .. (Len(recent') - 1) :
          Len(recent') - (i + 1) + 1 = Len(recent') - i
    BY <2>1
  <2> QED  BY <1>3, <2>2, <2>3 DEF Past
<1>6. /\ Ring(preFilter, S) /\ Ring(filter, T)
      /\ Len(preFilter.data) = Least(FilterSize, k)
      /\ Len(filter.data) = Least(FilterSize, k)
  BY <1>1 DEF TriggerInv
<1>7. /\ average \in T
      /\ \A v \in Int :
           preFilter.data # <<>>
           /\ (\A i \in 1 .. Len(preFilter.data) : preFilter.data[i] = v) =>
             average = v * Scale
      /\ (\A i \in 1 .. Len(preFilter.data) : preFilter.data[i] # -1) =>
           average \in Nat \union {NaN}
      /\ preFilter.data = <<>> => average = NaN
  BY <1>6, Average DEF Ring
<1>8. /\ Ring(preFilter', S)
      /\ Len(preFilter'.data) = Least(FilterSize, Len(preFilter.data) + 1)
      /\ preFilter'.data[Back(preFilter', 1)] = reading
      /\ \A j \in 1 .. (Len(preFilter'.data) - 1) :
           preFilter'.data[Back(preFilter', j + 1)] =
             preFilter.data[Back(preFilter, j)]
  <2> HIDE DEF average
  <2> QED  BY <1>2, <1>6, Stored
<1>9. /\ Ring(filter', T)
      /\ Len(filter'.data) = Least(FilterSize, Len(filter.data) + 1)
      /\ filter'.data[Back(filter', 1)] = average
      /\ \A j \in 1 .. (Len(filter'.data) - 1) :
           filter'.data[Back(filter', j + 1)] = filter.data[Back(filter, j)]
      /\ Len(filter.data) < FilterSize =>
           filter'.data[Len(filter.data) + 1] = average
           /\ \A i \in 1 .. Len(filter.data) : filter'.data[i] = filter.data[i]
  <2>1. average \in T
    BY <1>7
  <2> HIDE DEF average, T
  <2> QED  BY <1>2, <1>6, <2>1, Stored
<1> HIDE DEF k, average
<1>10. /\ Len(preFilter'.data) = Least(FilterSize, samples')
       /\ Len(filter'.data) = Least(FilterSize, samples')
       /\ Len(filter'.data) <= FilterSize /\ Len(filter'.data) <= Len(recent')
       /\ Len(preFilter'.data) <= Len(recent')
       /\ Len(filter'.data) \in Nat /\ Len(preFilter'.data) \in Nat
  <2>1. /\ Least(FilterSize, k) = IF k < FilterSize THEN k ELSE FilterSize
        /\ Least(FilterSize, Least(FilterSize, k) + 1) =
             IF k < FilterSize THEN k + 1 ELSE FilterSize
    BY <1>1 DEF Least
  <2>2. Least(FilterSize, samples') = IF k < FilterSize THEN k + 1 ELSE FilterSize
    <3>1. samples' = IF k < 2 * FilterSize THEN k + 1 ELSE 2 * FilterSize
      BY <1>3, <1>4
    <3> QED  BY <1>1, <3>1 DEF Least
  <2>3. /\ Len(filter'.data) = IF k < FilterSize THEN k + 1 ELSE FilterSize
        /\ Len(preFilter'.data) = IF k < FilterSize THEN k + 1 ELSE FilterSize
    BY <1>6, <1>8, <1>9, <2>1
  <2>4. Len(recent') = IF k < 2 * FilterSize THEN k + 1 ELSE 2 * FilterSize
    BY <1>3
  <2> QED  BY <1>1, <2>2, <2>3, <2>4
<1>11. /\ \A j \in 1 .. Len(preFilter.data) :
            preFilter.data[Back(preFilter, j)] = Past(recent, j)
       /\ \A j \in 1 .. Len(filter.data) :
            Averages(filter.data[Back(filter, j)], recent, j)
       /\ k \in 1 .. FilterSize => filter.data[1] = NaN
  BY <1>1 DEF TriggerInv
<1>12. ASSUME NEW j \in 1 .. Len(preFilter'.data)
       PROVE  preFilter'.data[Back(preFilter', j)] = Past(recent', j)
  <2>1. CASE j = 1
    BY <1>5, <1>8, <2>1
  <2>2. CASE j # 1
    <3> DEFINE i == j - 1
    <3>1. i \in 1 .. (Len(preFilter'.data) - 1) /\ j = i + 1
          /\ i \in 1 .. (Len(recent') - 1)
      BY <1>3, <1>10, <2>2
    <3>2. i \in 1 .. Len(preFilter.data)
      BY <1>1, <1>6, <1>8, <3>1 DEF Least
    <3> HIDE DEF i
    <3>3. Past(recent', i + 1) = Past(recent, i)
      BY <1>5, <3>1
    <3>4. preFilter'.data[Back(preFilter', i + 1)] = Past(recent, i)
      BY <1>8, <1>11, <3>1, <3>2
    <3> QED  BY <3>1, <3>3, <3>4
  <2> QED  BY <2>1, <2>2
<1>13. ASSUME NEW j \in 1 .. Len(filter'.data)
       PROVE  Averages(filter'.data[Back(filter', j)], recent', j)
  <2>1. CASE j = 1
    <3> DEFINE m == Len(preFilter.data)
    <3>1. /\ m \in Nat /\ Window(recent', 1) = 2 .. (m + 1)
          /\ m <= Len(recent') - 1
          /\ (preFilter.data = <<>> <=> m = 0)
      <4>1. Window(recent', 1) = 2 .. Least(1 + FilterSize, Len(recent'))
        BY DEF Window
      <4>2. m \in Nat /\ (preFilter.data = <<>> <=> m = 0)
        BY <1>6 DEF Ring
      <4>3. Least(1 + FilterSize, Len(recent')) = m + 1
            /\ m <= Len(recent') - 1
        BY <1>1, <1>3, <1>6 DEF Least, k
      <4> QED  BY <4>1, <4>2, <4>3
    <3>2. \A i \in 1 .. m : i + 1 \in Window(recent', 1) /\ Past(recent', i + 1) = Past(recent, i)
      BY <1>3, <1>5, <3>1
    <3>3. \A l \in 1 .. m : \E i \in 1 .. m : l = Back(preFilter, i)
      BY <1>6, EverySlot
    <3>4. \A l \in 1 .. m :
            \E i \in 1 .. m : preFilter.data[l] = Past(recent', i + 1)
      BY <1>11, <3>2, <3>3
    <3>5. ASSUME NEW v \in Int, Window(recent', 1) # {},
                 \A i \in Window(recent', 1) : Past(recent', i) = v
          PROVE  average = v * Scale
      <4>1. m # 0
        BY <3>1, <3>5
      <4>2. \A l \in 1 .. m : preFilter.data[l] = v
        BY <3>2, <3>4, <3>5
      <4> QED  BY <1>7, <3>1, <4>1, <4>2
    <3>6. ASSUME \A i \in Window(recent', 1) : Past(recent', i) # -1
          PROVE  average \in Nat \union {NaN}
      <4>1. \A l \in 1 .. m : preFilter.data[l] # -1
        BY <3>2, <3>4, <3>6
      <4> QED  BY <1>7, <4>1
    <3>7. Averages(average, recent', 1)
      BY <3>5, <3>6 DEF Averages
    <3> QED  BY <1>9, <2>1, <3>7
  <2>2. CASE j # 1
    <3> DEFINE i == j - 1
               x == filter.data[Back(filter, i)]
    <3>1. /\ i \in 1 .. (Len(filter'.data) - 1) /\ j = i + 1
          /\ i \in 1 .. (FilterSize - 1) /\ i \in Nat
          /\ i \in 1 .. Len(filter.data)
      BY <1>1, <1>6, <1>9, <1>10, <2>2 DEF Least
    <3> HIDE DEF i
    <3>2. filter'.data[Back(filter', j)] = x /\ Averages(x, recent, i)
      BY <1>9, <1>11, <3>1
    <3>3. \A l \in Window(recent, i) :
            l + 1 \in Window(recent', j)
            /\ Past(recent', l + 1) = Past(recent, l)
      <4>1. ASSUME NEW l \in Window(recent, i)
            PROVE  l + 1 \in Window(recent', j) /\ l \in 1 .. (Len(recent') - 1)
        <5>1. l \in (i + 1) .. Least(i + FilterSize, k)
          BY <4>1 DEF Window, k
        <5>2. Window(recent', j) = (j + 1) .. Least(j + FilterSize, Len(recent'))
          BY DEF Window
        <5>3. l + 1 <= Least(j + FilterSize, Len(recent'))
              /\ l <= Len(recent') - 1 /\ l \in Nat /\ l >= i + 1
          BY <1>1, <1>3, <3>1, <5>1 DEF Least
        <5>4. /\ Len(recent') \in Nat /\ j \in Nat
              /\ Least(j + FilterSize, Len(recent')) \in Nat
          BY <1>1, <1>3, <3>1 DEF Least
        <5> QED  BY <3>1, <5>2, <5>3, <5>4
      <4> QED  BY <1>5, <4>1
    <3>4. Window(recent', j) # {} => Window(recent, i) # {}
      <4> SUFFICES ASSUME NEW l \in Window(recent', j)
                   PROVE  i + 1 \in Window(recent, i)
        OBVIOUS
      <4>1. /\ l \in (j + 1) .. Least(j + FilterSize, Len(recent'))
            /\ Len(recent') \in Nat /\ j \in Nat
        BY <1>3, <1>4, <3>1 DEF Window
      <4>2. Window(recent, i) = (i + 1) .. Least(i + FilterSize, k)
        BY DEF Window, k
      <4>3. j + 1 <= Len(recent')
        BY <1>1, <4>1 DEF Least
      <4>4. i + 1 <= k
        BY <1>1, <1>3, <3>1, <4>3
      <4>5. Least(i + FilterSize, k) \in Nat /\ i + 1 <= Least(i + FilterSize, k)
        BY <1>1, <3>1, <4>4 DEF Least
      <4> QED  BY <3>1, <4>2, <4>5
    <3> HIDE DEF x
    <3>5. Averages(x, recent', j)
      BY <3>2, <3>3, <3>4 DEF Averages
    <3> QED  BY <3>2, <3>5
  <2> QED  BY <2>1, <2>2
<1>14. samples' \in 1 .. FilterSize => filter'.data[1] = NaN
  <2> SUFFICES ASSUME samples' \in 1 .. FilterSize PROVE filter'.data[1] = NaN
    OBVIOUS
  <2>1. k < FilterSize /\ Len(filter.data) = k /\ Len(preFilter.data) = k
    BY <1>1, <1>3, <1>4, <1>6 DEF Least
  <2>2. CASE k = 0
    <3>1. preFilter.data = <<>>
      BY <1>6, <2>1, <2>2 DEF Ring
    <3> QED  BY <1>7, <1>9, <2>1, <2>2, <3>1
  <2>3. CASE k # 0
    <3>1. k \in 1 .. FilterSize /\ 1 \in 1 .. k
      BY <1>1, <2>1, <2>3
    <3>2. filter.data[1] = NaN /\ 1 \in 1 .. Len(filter.data)
      BY <1>11, <2>1, <3>1
    <3>3. Len(filter.data) < FilterSize
      BY <2>1
    <3>4. filter'.data[1] = filter.data[1]
      BY <1>9, <3>2, <3>3
    <3> QED  BY <3>2, <3>4
  <2> QED  BY <2>2, <2>3
<1> QED
  BY <1>1, <1>2, <1>3, <1>4, <1>8, <1>9, <1>10, <1>12, <1>13, <1>14 DEF TriggerInv

LEMMA TriggerInvariant == TriggerSpec => []TriggerInv
<1>1. TriggerInv /\ [TriggerNext]_triggerVars => TriggerInv'
  <2> SUFFICES ASSUME TriggerInv, [TriggerNext]_triggerVars PROVE TriggerInv'
    OBVIOUS
  <2>1. CASE TriggerNext
    <3>1. PICK power \in Powers, ok \in BOOLEAN, active \in BOOLEAN :
            DeviceSample(power, ok, active)
      BY <2>1 DEF TriggerNext
    <3> DEFINE reading == getCurrentPowerInWatts(power, ok)
    <3>2. reading \in Nat \union {-1, NaN}
      BY TriggerAssumption DEF getCurrentPowerInWatts, CudaPower, XpuPower
    <3>3. Sampled(reading, active)
      BY <3>1 DEF DeviceSample
    <3> HIDE DEF reading
    <3> QED  BY <3>2, <3>3, TriggerSteps
  <2>2. CASE UNCHANGED triggerVars
    <3>1. /\ type' = type /\ preFilter' = preFilter /\ filter' = filter
          /\ recent' = recent /\ samples' = samples
      BY <2>2 DEF triggerVars
    <3> QED
      BY <3>1 DEF TriggerInv, Ring, Averages, Window, Past, Back
  <2> QED  BY <2>1, <2>2
<1> QED  BY <1>1, TriggerStarts, PTL DEF TriggerSpec

\* The extremes of the points of a filter.
LEMMA MaxMin ==
  ASSUME NEW s \in Seq(Int), NEW p \in 1 .. Len(s), NEW q \in 1 .. Len(s),
         \A k \in 1 .. Len(s) : s[q] <= s[k] /\ s[k] <= s[p]
  PROVE  Max(Range(s)) = s[p] /\ Min(Range(s)) = s[q]
<1> DEFINE R == Range(s)
<1>1. /\ \A y \in R : \E k \in 1 .. Len(s) : y = s[k]
      /\ s[p] \in R /\ s[q] \in R
  BY DEF Range
<1>2. \A y \in R : y \in Int /\ s[q] <= y /\ y <= s[p]
  BY <1>1
<1>3. s[p] \in Int /\ s[q] \in Int
  OBVIOUS
<1>4. \A y \in R : s[p] >= y
  BY <1>2, <1>3
<1> HIDE DEF R
<1>5. Max(R) \in R /\ \A y \in R : Max(R) >= y
  BY <1>1, <1>4 DEF Max
<1>6. Min(R) \in R /\ \A y \in R : Min(R) <= y
  BY <1>1, <1>2 DEF Min
<1>7. Max(R) >= s[p] /\ Max(R) <= s[p] /\ Max(R) \in Int
  BY <1>1, <1>2, <1>5
<1>8. Min(R) <= s[q] /\ s[q] <= Min(R) /\ Min(R) \in Int
  BY <1>1, <1>2, <1>6
<1> DEFINE M == Max(R)
           m == Min(R)
           a == s[p]
           b == s[q]
<1>9. M \in Int /\ m \in Int /\ a \in Int /\ b \in Int
      /\ M >= a /\ M <= a /\ m <= b /\ b <= m
  BY <1>3, <1>7, <1>8
<1>10. M = a /\ m = b
  <2> HIDE DEF M, m, a, b
  <2> QED  BY <1>9
<1> QED  BY <1>10 DEF R

\* A device that draws the same positive power is ready once the averages in
\* filter_ cover equal readings only.
THEOREM SteadyDeviceIsReady == TriggerSpec => []SteadyIsReady
<1>1. TriggerInv => SteadyIsReady
  <2> DEFINE covered == Front(recent)
             n == Len(filter.data)
  <2> SUFFICES ASSUME TriggerInv, type = "WITH_WAIT", samples = 2 * FilterSize,
                      Cardinality(Range(covered)) = 1,
                      Range(covered) \intersect {0, NaN} = {}
               PROVE  isDeviceReadyForTuning
    BY DEF SteadyIsReady
  <2>1. /\ FilterSize \in Nat /\ FilterSize > 2 /\ samples = 2 * FilterSize
        /\ Len(recent) = 2 * FilterSize
        /\ recent \in Seq(Nat \union {-1, NaN})
    BY Numbers DEF TriggerInv
  <2>2. /\ Ring(filter, Int \union {NaN}) /\ Len(filter.data) = Least(FilterSize, samples)
        /\ \A j \in 1 .. n : Averages(filter.data[Back(filter, j)], recent, j)
    BY DEF TriggerInv
  <2>3. n = FilterSize
    BY <2>1, <2>2 DEF Least
  <2>4. PICK v : Range(covered) = {v}
    <3>1. IsFiniteSet(Range(covered))
      <4>1. covered = [i \in 1 .. (2 * FilterSize - 1) |-> recent[i]]
        BY <2>1 DEF Front
      <4>2. DOMAIN covered = 1 .. (2 * FilterSize - 1)
        BY <4>1
      <4>3. IsFiniteSet(1 .. (2 * FilterSize - 1))
        <5>1. 1 \in Int /\ 2 * FilterSize - 1 \in Int
          BY <2>1
        <5> QED  BY <5>1, FS_Interval
      <4>4. covered \in Surjection(DOMAIN covered, Range(covered))
        BY <4>1, <4>2 DEF Surjection, Range, covered
      <4> HIDE DEF covered
      <4> QED  BY <4>2, <4>3, <4>4, FS_Surjection
    <3> HIDE DEF covered
    <3> QED  BY <3>1, FS_CardinalityType, FS_Singleton
  <2>5. /\ \A i \in 1 .. (2 * FilterSize - 1) : recent[i] = v
        /\ v \in Int /\ v # 0
    <3>1. /\ covered = [i \in 1 .. (2 * FilterSize - 1) |-> recent[i]]
      BY <2>1 DEF Front
    <3>2. DOMAIN covered = 1 .. (2 * FilterSize - 1)
          /\ \A i \in 1 .. (2 * FilterSize - 1) :
               covered[i] = recent[i] /\ recent[i] \in Nat \union {-1, NaN}
      BY <2>1, <3>1
    <3> HIDE DEF covered
    <3>3. \A i \in 1 .. (2 * FilterSize - 1) : recent[i] \in Range(covered)
      BY <3>2 DEF Range
    <3>4. 1 \in 1 .. (2 * FilterSize - 1)
      BY <2>1
    <3>5. recent[1] = v /\ v \in Nat \union {-1, NaN} /\ v \notin {0, NaN}
      BY <2>4, <3>2, <3>3, <3>4
    <3> QED  BY <2>4, <3>3, <3>5
  <2> HIDE DEF covered
  <2> DEFINE w == v * Scale
  <2>6. w \in Int /\ w # 0
    <3>1. \A a, b \in Int : (a # 0 /\ b > 0) => a * b # 0 /\ a * b \in Int
      OBVIOUS
    <3>2. v \in Int /\ Scale \in Int /\ v # 0 /\ Scale > 0
      BY <2>5, Numbers
    <3> QED  BY <3>1, <3>2
  <2>7. ASSUME NEW j \in 1 .. n PROVE filter.data[Back(filter, j)] = w
    <3>1. Window(recent, j) = (j + 1) .. (j + FilterSize)
      BY <2>1, <2>3 DEF Window, Least
    <3>2. ASSUME NEW i \in Window(recent, j) PROVE Past(recent, i) = v
      <4>1. 2 * FilterSize - i + 1 \in 1 .. (2 * FilterSize - 1)
        BY <2>1, <2>3, <3>1
      <4> QED  BY <2>1, <2>5, <4>1 DEF Past
    <3>3. j + 1 \in Window(recent, j)
      BY <2>1, <2>3, <3>1
    <3> HIDE DEF n
    <3> QED  BY <2>2, <2>5, <3>2, <3>3 DEF Averages
  <2>8. ASSUME NEW k \in 1 .. n PROVE filter.data[k] = w
    <3>1. PICK j \in 1 .. n : k = Back(filter, j)
      BY <2>2, EverySlot
    <3> HIDE DEF w
    <3> QED  BY <2>7, <3>1
  <2> HIDE DEF w
  <2>9. filter.data \in Seq(Int)
    BY <2>2, <2>6, <2>8 DEF Ring
  <2>10. 1 \in 1 .. n /\ n \in Nat
    BY <2>1, <2>3
  <2>11. Max(Range(filter.data)) = w /\ Min(Range(filter.data)) = w
    <3>1. \A k \in 1 .. n : filter.data[1] <= filter.data[k]
                            /\ filter.data[k] <= filter.data[1]
      BY <2>6, <2>8, <2>10
    <3> QED  BY <2>8, <2>9, <2>10, <3>1, MaxMin
  <2>12. getSum(filter) = n * w
    <3>1. \A k \in 1 .. n : w <= filter.data[k] /\ filter.data[k] <= w
      BY <2>6, <2>8
    <3>2. /\ getSum(filter) \in Int
          /\ n * w + Extra(n, 0, w - w) <= getSum(filter)
          /\ getSum(filter) <= n * w - Extra(n, 0, w - w)
      <4>1. /\ 0 \in Nat /\ (0 \in 1 .. n => filter.data[0] = w)
            /\ w \in Int
        BY <2>6, <2>10
      <4> QED  BY <2>9, <3>1, <4>1, SumBounds
    <3>3. Extra(n, 0, w - w) = 0
      BY <2>10 DEF Extra
    <3>4. n * w \in Int
      BY <2>6, <2>10
    <3> HIDE DEF n
    <3> QED  BY <3>2, <3>3, <3>4
  <2>13. NaN \notin Range(filter.data)
    <3>1. w # NaN
      BY <2>6, Numbers
    <3> QED  BY <2>8, <3>1 DEF Range
  <2> DEFINE cleaned == getSum(filter) - w - w
  <2>14. cleaned # 0 /\ cleaned \in Int
    <3>1. \A a, b \in Int : (a > 2 /\ b # 0) => a * b - b - b # 0 /\ a * b \in Int
      OBVIOUS
    <3>2. n \in Int /\ n > 2
      BY <2>1, <2>3
    <3> HIDE DEF n
    <3> QED  BY <2>6, <2>12, <3>1, <3>2
  <2>15. cleaned > 0 => 100 * (w - w) * (n - 2) < Percent * cleaned
    <3>1. \A a, b \in Int : (a > 0 /\ b > 0) => a * b > 0
      OBVIOUS
    <3>2. Percent \in Int /\ Percent > 0
      BY Numbers
    <3>3. 100 * (w - w) * (n - 2) = 0
      BY <2>6, <2>10
    <3> HIDE DEF cleaned, n
    <3> QED  BY <2>14, <3>1, <3>2, <3>3
  <2>16. RelativeErrorBelow(filter, Percent)
    BY <2>1, <2>3, <2>11, <2>13, <2>14, <2>15 DEF RelativeErrorBelow
  <2> QED  BY <2>16 DEF isDeviceReadyForTuning
<1> QED  BY <1>1, TriggerInvariant, PTL

\* Readiness is about steady power, over a full window.
THEOREM ReadyDeviceIsSteady == TriggerSpec => []ReadyIsSteady
<1>1. TriggerInv => ReadyIsSteady
  <2> DEFINE points == Range(filter.data)
             n == Len(filter.data)
             sum == getSum(filter)
  <2> SUFFICES ASSUME TriggerInv, type = "WITH_WAIT", isDeviceReadyForTuning
               PROVE  /\ samples > FilterSize /\ NaN \notin points
                      /\ -1 \notin Range(recent) =>
                           100 * FilterSize * (Max(points) - Min(points)) <
                             (Percent + 1) * getSum(filter)
    BY DEF ReadyIsSteady
  <2>1. /\ n > 2 /\ NaN \notin points
        /\ sum - Max(points) - Min(points) # 0
        /\ sum - Max(points) - Min(points) > 0 =>
             100 * (Max(points) - Min(points)) * (n - 2)
               < Percent * (sum - Max(points) - Min(points))
    BY DEF isDeviceReadyForTuning, RelativeErrorBelow
  <2>2. /\ FilterSize \in Nat /\ samples \in Nat /\ Len(recent) = samples
        /\ FilterSize > 2
        /\ recent \in Seq(Nat \union {-1, NaN})
        /\ Ring(filter, Int \union {NaN}) /\ n = Least(FilterSize, samples)
        /\ \A j \in 1 .. n : Averages(filter.data[Back(filter, j)], recent, j)
        /\ samples \in 1 .. FilterSize => filter.data[1] = NaN
    BY Numbers DEF TriggerInv
  <2>3. n \in Nat /\ points = {filter.data[k] : k \in 1 .. n}
        /\ filter.data \in Seq(Int \union {NaN})
    <3>1. filter.data \in Seq(Int \union {NaN})
      BY <2>2 DEF Ring
    <3>2. n \in Nat /\ DOMAIN filter.data = 1 .. n
      BY <3>1
    <3> QED  BY <3>1, <3>2 DEF Range
  <2>4. samples > FilterSize
    <3>1. 1 \in 1 .. n /\ filter.data[1] # NaN
      BY <2>1, <2>3
    <3>2. samples # 0
      BY <2>1, <2>2 DEF Least
    <3> QED  BY <2>2, <3>1, <3>2
  <2>5. n = FilterSize
    BY <2>2, <2>4 DEF Least
  <2>6. ASSUME -1 \notin Range(recent)
        PROVE  100 * FilterSize * (Max(points) - Min(points)) < (Percent + 1) * sum
    <3>1. ASSUME NEW j \in 1 .. n
          PROVE  filter.data[Back(filter, j)] \in Nat \union {NaN}
      <4>1. \A i \in Window(recent, j) : Past(recent, i) # -1
        <5> SUFFICES ASSUME NEW i \in Window(recent, j)
                     PROVE  Past(recent, i) # -1
          OBVIOUS
        <5>1. Len(recent) - i + 1 \in 1 .. Len(recent)
          BY <2>2, <2>5 DEF Window, Least
        <5> QED  BY <2>6, <5>1 DEF Past, Range
      <4> QED  BY <2>2, <4>1 DEF Averages
    <3>2. \A k \in 1 .. n : filter.data[k] \in Nat
      <4>1. \A k \in 1 .. n : filter.data[k] \in Nat \union {NaN}
        BY <2>2, <3>1, EverySlot
      <4> QED  BY <2>1, <2>3, <4>1
    <3>3. filter.data \in Seq(Int) /\ filter.data # <<>>
      BY <2>1, <2>3, <3>2
    <3>4. PICK p, q \in 1 .. n :
            \A k \in 1 .. n : filter.data[q] <= filter.data[k]
                              /\ filter.data[k] <= filter.data[p]
      BY <3>3, Extremes
    <3> DEFINE lo == filter.data[q]
               hi == filter.data[p]
    <3>5. Max(points) = hi /\ Min(points) = lo
      BY <3>3, <3>4, MaxMin
    <3>6. /\ lo \in Nat /\ hi \in Nat /\ lo <= hi /\ p \in Nat /\ q \in Nat
          /\ lo \in Int /\ hi \in Int
          /\ \A k \in 1 .. n : lo <= filter.data[k] /\ filter.data[k] <= hi
      BY <2>3, <3>2, <3>4
    <3>7. /\ sum \in Int
          /\ n * lo + Extra(n, p, hi - lo) <= sum
          /\ sum <= n * hi - Extra(n, q, hi - lo)
      BY <3>3, <3>6, SumBounds
    <3>8. Extra(n, p, hi - lo) = hi - lo /\ Extra(n, q, hi - lo) = hi - lo
      BY <2>3, <3>4 DEF Extra
    <3> HIDE DEF n, lo, hi, sum, points
    <3>9. n * lo + (hi - lo) <= sum /\ sum <= n * hi - (hi - lo)
      BY <3>7, <3>8
    <3>10. sum - hi - lo > 0
      <4>1. n * lo \in Int /\ n * lo >= 2 * lo
        <5>1. \A a, b \in Nat : a > 2 => a * b >= 2 * b /\ a * b \in Int
          OBVIOUS
        <5> QED  BY <2>1, <2>3, <3>6, <5>1
      <4>2. sum - hi - lo # 0
        BY <2>1, <3>5
      <4> DEFINE nl == n * lo
      <4>3. nl \in Int /\ nl >= 2 * lo /\ nl + (hi - lo) <= sum
        BY <3>9, <4>1
      <4> HIDE DEF nl
      <4> QED  BY <3>6, <3>7, <4>2, <4>3
    <3>11. 100 * (hi - lo) * (n - 2) < Percent * (sum - hi - lo)
      BY <2>1, <3>5, <3>10
    <3>12. 100 * n * (hi - lo) < (Percent + 1) * sum
      <4>1. Percent \in 1 .. 10
        BY Numbers
      <4> QED  BY <2>1, <2>3, <3>6, <3>7, <3>9, <3>11, <4>1, SmallSpread
    <3> QED  BY <2>5, <3>5, <3>12
  <2> QED  BY <2>1, <2>4, <2>6
<1> QED  BY <1>1, TriggerInvariant, PTL

=============================================================================
