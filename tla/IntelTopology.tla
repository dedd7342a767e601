--------------------------- MODULE IntelTopology ---------------------------
(***************************************************************************)
(* What IntelDevice finds out about a CPU before it touches it: the first  *)
(* core of each package, the power domains of the model and the powercap   *)
(* directories of both.                                                    *)
(*                                                                         *)
(* A processor is the sequence of the package ids of its cores; Offline    *)
(* stands for a core without a topology directory. A directory is a zone   *)
(* of the powercap driver: <<p>> is package p, <<p, s>> its sub-zone s.    *)
(***************************************************************************)
EXTENDS Naturals, Sequences, SequencesExt

CONSTANT Offline

\* The model of the processor /proc/cpuinfo lists last; another vendor or another
\* family is printed, and no reason to stop.
detectCPU(cpuinfo) == Last(cpuinfo).model

\* The loop ends at the first core that has no topology file.
Scanned(cpus) ==
  LET holes == {i \in DOMAIN cpus : cpus[i] = Offline}
  IN  IF holes = {} THEN cpus
      ELSE SubSeq(cpus, 1, (CHOOSE i \in holes : \A j \in holes : i <= j) - 1)

\* pkgToFirstCoreMap_, cores counted from 1: a core begins a package when its
\* package id is not below the number of packages found so far.
detectPackages(cpus) ==
  FoldLeft(LAMBDA first, i : IF Len(first) <= Scanned(cpus)[i]
                             THEN Append(first, i) ELSE first,
           <<>>, [i \in DOMAIN Scanned(cpus) |-> i])

\* The processors the loop is right for: every core online, package ids from 0
\* in the order of their first cores.
Regular(cpus) ==
  \A i \in DOMAIN cpus :
    /\ cpus[i] # Offline
    /\ cpus[i] = 0 \/ \E j \in 1 .. i - 1 : cpus[j] \in {cpus[i], cpus[i] - 1}

Profile(pp0, pp1, dram) == [pp0 |-> pp0, pp1 |-> pp1, dram |-> dram]

\* detectPowerCapsAvailability, one model for each family of the switch.
powerProfile(model) ==
  CASE model = "SANDYBRIDGE_EP" -> Profile(TRUE, FALSE, TRUE)  \* IVYBRIDGE_EP
    [] model = "SKYLAKE"        -> Profile(TRUE, FALSE, TRUE)  \* KABYLAKE
    [] model = "HASWELL_EP"     -> Profile(FALSE, FALSE, TRUE) \* SKYLAKE_X, KNL
    [] model = "SANDYBRIDGE"    -> Profile(TRUE, TRUE, FALSE)  \* IVYBRIDGE
    [] model = "HASWELL"        -> Profile(TRUE, TRUE, TRUE)   \* BROADWELL, Atom
    [] OTHER                    -> Profile(FALSE, FALSE, FALSE)

NoDirs == [pkg |-> <<>>, pp0 |-> <<>>, pp1 |-> <<>>, dram |-> <<>>]

\* Variant: every domain but the package takes the first sub-zone.
AddDirs_FirstSubZone(profile, dirs, p) ==
  [d \in DOMAIN dirs |->
     CASE d = "pkg"  -> Append(dirs.pkg, <<p>>)
       [] d # "pkg" /\ profile[d] -> Append(dirs[d], <<p, 0>>)
       [] OTHER      -> dirs[d]]

\* One turn of prepareRaplDirsFromAvailableDomains. Without PP1 the DRAM
\* directory :1 is taken only while there is no DRAM directory at all: of
\* several packages with PP0 and without PP1 the first one gets it.
AddDirs(profile, dirs, p) ==
  [pkg  |-> Append(dirs.pkg, <<p>>),
   pp0  |-> IF profile.pp0 THEN Append(dirs.pp0, <<p, 0>>) ELSE dirs.pp0,
   pp1  |-> IF profile.pp1 THEN Append(dirs.pp1, <<p, 1>>) ELSE dirs.pp1,
   dram |-> CASE ~profile.dram                  -> dirs.dram
              [] profile.dram /\ ~profile.pp0 /\ ~profile.pp1
                                                -> Append(dirs.dram, <<p, 0>>)
              [] profile.dram /\ profile.pp1    -> Append(dirs.dram, <<p, 2>>)
              [] OTHER -> IF dirs.dram = <<>> THEN Append(dirs.dram, <<p, 1>>)
                          ELSE dirs.dram]

prepareRaplDirs(profile, packages) ==
  FoldLeft(LAMBDA dirs, p : AddDirs(profile, dirs, p), NoDirs,
           [i \in 1 .. packages |-> i - 1])

\* The zones the driver has: the domains of a package are numbered in order.
One(available) == IF available THEN 1 ELSE 0

SubZone(profile, d) ==
  CASE d = "pp0"  -> 0
    [] d = "pp1"  -> One(profile.pp0)
    [] d = "dram" -> One(profile.pp0) + One(profile.pp1)

Zones(profile, packages) ==
  {<<p>> : p \in 0 .. packages - 1}
    \union {<<p, SubZone(profile, d)>> :
              p \in 0 .. packages - 1,
              d \in {e \in {"pp0", "pp1", "dram"} : profile[e]}}

=============================================================================
