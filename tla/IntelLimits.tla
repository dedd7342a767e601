----------------------------- MODULE IntelLimits -----------------------------
(***************************************************************************)
(* The power limits of an Intel CPU over runs of DEPO that may crash.      *)
(*                                                                         *)
(* IntelDevice finds the packages and the directories of their power       *)
(* domains, takes the values of the first package for the defaults of all  *)
(* of them, dumps these to a file unless it exists, domain after domain,   *)
(* and switches capping on in the register of each package, by way of its  *)
(* first core. A cap is split over the packages: first all time windows,   *)
(* then all limits. Restoring writes the defaults back, file after file. A *)
(* run may be killed after each write. The constraint 1 of a package is    *)
(* read and written back like the others, and is left out.                 *)
(*                                                                         *)
(* The hardware has its own mind: a package the BIOS locked keeps limit    *)
(* and window whatever is written, and a register holds certain windows    *)
(* only, so that a window is read back as another one than was written.    *)
(*                                                                         *)
(* Two more tools of the repository touch the machine between such runs:   *)
(* cpu_power_monitor constructs an IntelDevice and never programs a limit, *)
(* set_cpu_power_limit writes limits and windows and leaves them.          *)
(***************************************************************************)
EXTENDS IntelTopology, Integers, FiniteSets

CONSTANTS
  Processors,   \* the processors, each a sequence of package ids
  CpuInfos,     \* what /proc/cpuinfo says of the processors of a machine
  Factory,      \* what the zones of each domain hold at first
  Caps,         \* limits a search programs, for the whole device
  IdlePowers,   \* idle power the constructor may measure
  ShortWindow,  \* the 200 ms setPowerLimitInMicroWatts sets
  Quantized(_), \* the window the register holds when another one is asked for
  Missing,      \* there is no dump file
  ToolLimits,   \* what set_cpu_power_limit is asked for: power and window
  MaxRuns,      \* bound: runs of DEPO and of the tools
  MaxSets       \* bound: caps programmed in one run

Registers == {"power", "window", "enabled"}
Files == [power : Int, window : Int, enabled : BOOLEAN]

ASSUME IntelAssumption ==
  /\ Offline \notin Nat
  /\ \A cpus \in Processors :
       cpus \in Seq(Nat \union {Offline}) /\ cpus # <<>> /\ cpus[1] # Offline
  /\ Factory \in [pkg : Files, pp0 : Files, pp1 : Files, dram : Files]
  /\ Caps \subseteq Nat /\ IdlePowers \subseteq Nat /\ ShortWindow \in Int
  /\ ToolLimits \subseteq [power : Int, window : Int]
  /\ \A w \in {ShortWindow} \union {asked.window : asked \in ToolLimits} :
       Quantized(w) \in Int /\ Quantized(Quantized(w)) = Quantized(w)
  /\ \A d \in DOMAIN Factory : Quantized(Factory[d].window) = Factory[d].window
  /\ MaxRuns \in Nat /\ MaxSets \in Nat

VARIABLES
  cpus, model,  \* the machine
  locked,   \* the packages whose limits the BIOS locked
  reg,      \* the files of each zone: power, window, enabled
  msr,      \* power limit register of each package: the bits Rapl touches
  dump,     \* default_limits_dump.txt
  pc,       \* the running process, "off" when there is none
  monitor,  \* the process is cpu_power_monitor
  unread,   \* domains whose defaults are still to be read
  defaults, \* raplDefaultCaps_
  idle,     \* idlePowerConsumption_
  dumps,    \* this run created the dump file
  todo,     \* writes the running operation still has to do
  sets,     \* caps this run has programmed
  wanted,   \* history: the cap programmed last, 0 for the defaults
  runs,     \* history: runs started
  atStart,  \* history: the files when the run started
  first     \* history: the limits found when the dump file was created

machine == <<cpus, model, locked>>
run == <<unread, defaults, idle, dumps, sets, wanted, runs, atStart, monitor,
         first>>
vars == <<cpus, model, locked, reg, msr, dump, pc, unread, defaults, idle, dumps,
          todo, sets, wanted, runs, atStart, monitor, first>>

\* The packages there are, by the ids of their cores; the driver numbers their
\* zones in the order of the ids.
Ids == {cpus[i] : i \in {j \in DOMAIN cpus : cpus[j] # Offline}}

Packages == 0 .. Cardinality(Ids) - 1
PackageOf(id) == Cardinality({other \in Ids : other < id})

profile == powerProfile(model)
firstCores == detectPackages(cpus)
totalPackages == Len(firstCores)
dirs == prepareRaplDirs(profile, totalPackages)

\* The domains whose defaults are read, and the order they are read in.
Available == {"pkg"} \union {d \in {"pp0", "pp1", "dram"} : profile[d]}

Before(d) ==
  CASE d = "pkg"  -> {}
    [] d = "pp0"  -> {"pkg"}
    [] d = "pp1"  -> {"pkg", "pp0"}
    [] d = "dram" -> {"pkg", "pp0", "pp1"}

DomainOf(zone) ==
  IF Len(zone) = 1 THEN "pkg"
  ELSE CHOOSE d \in {"pp0", "pp1", "dram"} :
         profile[d] /\ SubZone(profile, d) = zone[2]

Init ==
  /\ cpus \in Processors /\ model \in {detectCPU(info) : info \in CpuInfos}
  /\ locked \in SUBSET Packages
  /\ reg = [z \in Zones(profile, Cardinality(Ids)) |-> Factory[DomainOf(z)]]
  /\ msr = [id \in Ids |-> [capping |-> FALSE, pp0Clamp |-> TRUE]]
  /\ dump = Missing /\ pc = "off"
  /\ unread = {} /\ defaults = Factory /\ idle = 0 /\ dumps = FALSE /\ todo = <<>>
  /\ sets = 0 /\ wanted = 0 /\ runs = 0
  /\ atStart = reg /\ monitor = FALSE /\ first = Factory

-----------------------------------------------------------------------------
(* The constructor *)

\* readLimitFromFile: -1, which is "enabled", when the file does not open.
ReadZone(zone) ==
  IF zone \in DOMAIN reg THEN reg[zone]
  ELSE [power |-> -1, window |-> -1, enabled |-> TRUE]

\* The first package stands for all of them.
FirstPackage == [d \in Available |-> ReadZone(Head(dirs[d]))]

\* A dump file that is missing is created, empty.
Start(isMonitor) ==
  /\ pc = "off" /\ runs < MaxRuns
  /\ pc' = "reading" /\ runs' = runs + 1 /\ monitor' = isMonitor
  /\ unread' = Available
  /\ dumps' = (dump = Missing)
  /\ dump' = IF dump = Missing THEN <<>> ELSE dump
  /\ first' = IF dump = Missing THEN FirstPackage ELSE first
  /\ sets' = 0 /\ todo' = <<>> /\ wanted' = 0 /\ atStart' = reg
  /\ UNCHANGED machine /\ UNCHANGED <<reg, msr, defaults, idle>>

\* The dump with the section of one more domain: name, limits and windows.
WithSection(d, files) ==
  [e \in DOMAIN dump \union {d} |-> IF e = d THEN files ELSE dump[e]]

\* Variant: the dump is rewritten by every run.
ReadDefaults_AlwaysDumped ==
  /\ pc = "reading"
  /\ \E d \in unread :
       /\ Before(d) \intersect unread = {}
       /\ defaults' = [defaults EXCEPT ![d] = FirstPackage[d]]
       /\ dump' = WithSection(d, FirstPackage[d])
       /\ unread' = unread \ {d}
       /\ pc' = IF unread = {d} THEN "probing" ELSE "reading"
  /\ UNCHANGED machine
  /\ UNCHANGED <<reg, msr, idle, dumps, todo, sets, wanted,
                 runs, atStart, monitor, first>>

\* One domain after the other is read; a run that created the dump writes the
\* section of the domain before it goes on, and the stream is flushed.
ReadDefaults ==
  /\ pc = "reading"
  /\ \E d \in unread :
       /\ Before(d) \intersect unread = {}
       /\ defaults' = [defaults EXCEPT ![d] = FirstPackage[d]]
       /\ dump' = IF dumps THEN WithSection(d, FirstPackage[d]) ELSE dump
       /\ unread' = unread \ {d}
       /\ pc' = IF unread = {d} THEN "probing" ELSE "reading"
  /\ UNCHANGED machine
  /\ UNCHANGED <<reg, msr, idle, dumps, todo, sets, wanted,
                 runs, atStart, monitor, first>>

\* Variant: the second and further Rapl objects are not initialised.
Initialized_First == {cpus[firstCores[1]]}

\* The packages initRaplObjectsForEachPKG makes a Rapl object for.
Initialized == {cpus[core] : core \in Range(firstCores)}

checkLockedByBIOS(id) == PackageOf(id) \in locked

\* The bits enableClamping and enablePowerCapping set in the register of the
\* package, and disableClamping clears in the one of PP0.
SetBits(r) == [r EXCEPT !.capping = TRUE, !.pp0Clamp = FALSE]

\* Unless the BIOS locked the register. Nothing ever undoes it.
EnableCapping(id) == IF checkLockedByBIOS(id) THEN msr[id] ELSE SetBits(msr[id])

\* initRaplObjectsForEachPKG and checkIdlePowerConsumption.
InitRapl(power) ==
  /\ pc = "probing" /\ pc' = "running"
  /\ msr' = [id \in Ids |-> IF id \in Initialized THEN EnableCapping(id)
                            ELSE msr[id]]
  /\ idle' = power
  /\ UNCHANGED machine
  /\ UNCHANGED <<reg, dump, unread, defaults, dumps, todo, sets, wanted,
                 runs, atStart, monitor, first>>

\* A register that cannot be opened, read or written ends the process.
MsrFails ==
  /\ pc = "probing" /\ pc' = "off"
  /\ UNCHANGED machine /\ UNCHANGED run /\ UNCHANGED <<reg, msr, dump, todo>>

getMinMaxLimitInWatts == <<idle, totalPackages * defaults.pkg.power>>

-----------------------------------------------------------------------------
(* The run *)

Writes(zones, register, value) ==
  [i \in DOMAIN zones |->
    [zone |-> zones[i], register |-> register, value |-> value]]

PackageCap(c) == c \div totalPackages

\* setPowerLimitInMicroWatts: all windows, then all limits.
SetLimit(c) ==
  /\ ~monitor /\ pc = "running" /\ pc' = "writing"
  /\ sets < MaxSets /\ sets' = sets + 1
  /\ getMinMaxLimitInWatts[1] <= c /\ c <= getMinMaxLimitInWatts[2]
  /\ todo' = Writes(dirs.pkg, "window", ShortWindow)
               \o Writes(dirs.pkg, "power", PackageCap(c))
  /\ wanted' = c
  /\ UNCHANGED machine
  /\ UNCHANGED <<reg, msr, dump, unread, defaults, idle, dumps,
                 runs, atStart, monitor, first>>

\* The files of one zone after the other.
RestoreZones(domain, registers) ==
  FlattenSeq([i \in DOMAIN dirs[domain] |->
    [k \in DOMAIN registers |->
      [zone |-> dirs[domain][i], register |-> registers[k],
       value |-> defaults[domain][registers[k]]]]])

\* Variant: the windows of the packages are not written back.
RestoreWrites_LimitOnly == RestoreZones("pkg", <<"power">>)

RestoreWrites ==
  RestoreZones("pkg", <<"power", "window">>)
    \o RestoreZones("pp0", <<"power", "window", "enabled">>)
    \o RestoreZones("pp1", <<"power", "window", "enabled">>)
    \o RestoreZones("dram", <<"power", "window", "enabled">>)

\* restoreDefaultLimits, between rounds or in the destructor of Eco.
Restore(next) ==
  /\ ~monitor /\ pc = "running" /\ pc' = next
  /\ todo' = RestoreWrites
  /\ wanted' = 0
  /\ UNCHANGED machine
  /\ UNCHANGED <<reg, msr, dump, unread, defaults, idle, dumps, sets,
                 runs, atStart, monitor, first>>

\* cpu_power_monitor: the application it started has exited with 0. After any
\* other end its loop goes on for ever.
MonitorEnds ==
  /\ monitor /\ pc = "running" /\ pc' = "ended"
  /\ UNCHANGED machine /\ UNCHANGED run /\ UNCHANGED <<reg, msr, dump, todo>>

\* set_cpu_power_limit: the first two packages, whether they are there or not.
SetPowerLimit(asked) ==
  /\ pc = "off" /\ runs < MaxRuns
  /\ pc' = "setting" /\ runs' = runs + 1
  /\ todo' = FlattenSeq([p \in 1 .. 2 |->
                Writes(<<<<p - 1>>>>, "power", asked.power)
                  \o Writes(<<<<p - 1>>>>, "window", asked.window)])
  /\ UNCHANGED machine
  /\ UNCHANGED <<reg, msr, dump, unread, defaults, idle, dumps, sets, wanted,
                 atStart, monitor, first>>

\* Limit and window of a package the BIOS locked are not overwritten.
Locked(zone) == Len(zone) = 1 /\ zone[1] \in locked

Held(w) == IF w.register = "window" THEN Quantized(w.value) ELSE w.value

\* writeLimitToFile: a file that does not open is skipped, and nobody looks
\* whether the file took the value.
Write ==
  /\ pc \in {"writing", "ending", "setting"} /\ todo # <<>>
  /\ LET w == Head(todo)
     IN  reg' = IF w.zone \in DOMAIN reg /\ ~Locked(w.zone)
                THEN [reg EXCEPT ![w.zone][w.register] = Held(w)] ELSE reg
  /\ todo' = Tail(todo)
  /\ UNCHANGED machine /\ UNCHANGED run /\ UNCHANGED <<msr, dump, pc>>

Written ==
  /\ pc \in {"writing", "ending", "setting"} /\ todo = <<>>
  /\ pc' = CASE pc = "writing" -> "running"
             [] pc = "ending" -> "ended"
             [] pc = "setting" -> "off"
  /\ UNCHANGED machine /\ UNCHANGED run /\ UNCHANGED <<reg, msr, dump, todo>>

\* The process has returned from main ...
Exit ==
  /\ pc = "ended" /\ pc' = "off"
  /\ UNCHANGED machine /\ UNCHANGED run /\ UNCHANGED <<reg, msr, dump, todo>>

\* ... or is killed; the packages and the file keep what they have.
Crash ==
  /\ pc \notin {"off", "ended"} /\ pc' = "off"
  /\ todo' = <<>>
  /\ UNCHANGED machine /\ UNCHANGED run /\ UNCHANGED <<reg, msr, dump>>

Next ==
  \/ \E isMonitor \in BOOLEAN : Start(isMonitor)
  \/ ReadDefaults
  \/ \E power \in IdlePowers : InitRapl(power)
  \/ MsrFails
  \/ \E c \in Caps : SetLimit(c)
  \/ Restore("writing") \/ Restore("ending")
  \/ MonitorEnds
  \/ \E asked \in ToolLimits : SetPowerLimit(asked)
  \/ Write \/ Written \/ Exit \/ Crash

Spec == Init /\ [][Next]_vars

-----------------------------------------------------------------------------
(* Properties *)

\* Every package that can be programmed has the limits of the first one.
Alike(files) == \A p \in Packages \ locked : files[<<p>>] = files[<<0>>]

\* A run that comes to its end leaves every file of every domain as it found
\* it, if the packages were alike when it started; and whatever a killed run
\* or tool left in the packages, a run of DEPO that ends leaves them alike.
\* Packages the BIOS locked need not be like the others.
RunLeavesNoTrace ==
  pc = "ended" /\ Regular(cpus) =>
    /\ monitor \/ Alike(reg)
    /\ monitor \/ Alike(atStart) => reg = atStart

\* The dump holds nothing but limits found when it was created: crashes and
\* later runs, which take lowered limits for defaults, do not spoil it. It is
\* the only record of the original limits then. It has no gap, and a run that
\* created it has completed it when the defaults are read; a run that is killed
\* before leaves the first sections, and no later run adds the others.
DumpKeepsFirst ==
  dump # Missing =>
    /\ \A d \in DOMAIN dump :
         dump[d] = first[d] /\ Before(d) \intersect Available \subseteq DOMAIN dump
    /\ dumps /\ pc \notin {"off", "reading", "setting"} => DOMAIN dump = Available

\* A programmed cap takes effect where the BIOS lets it: each package has its
\* share, the shares do not add up to more than the cap, the window is the one
\* the register has for 200 ms, and capping is switched on. Locked packages use
\* what they did before, and nobody is told. On a processor that is not Regular
\* a package is missed or counted twice.
CapIsEnforced ==
  pc = "running" /\ wanted # 0 /\ Regular(cpus) =>
    /\ \A p \in Packages \ locked :
         /\ Cardinality(Packages) * reg[<<p>>].power \in
              wanted - Cardinality(Packages) + 1 .. wanted
         /\ reg[<<p>>].window = Quantized(ShortWindow)
    /\ \A id \in Ids : PackageOf(id) \in locked \/ msr[id].capping

\* The directories of a domain are zones of that domain, one for each package.
\* Only the DRAM of a processor with PP0 and without PP1 has the directory of
\* its first package alone.
DirsMatchDomains ==
  Regular(cpus) =>
    \A d \in DOMAIN dirs :
      /\ \A i \in DOMAIN dirs[d] :
           dirs[d][i] \in DOMAIN reg /\ DomainOf(dirs[d][i]) = d
      /\ d = "pkg" \/ profile[d] =>
           {dirs[d][i][1] : i \in DOMAIN dirs[d]} =
             IF d = "dram" /\ profile.pp0 /\ ~profile.pp1 THEN {0} ELSE Packages

=============================================================================
