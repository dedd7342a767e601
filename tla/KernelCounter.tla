--------------------------- MODULE KernelCounter ---------------------------
(***************************************************************************)
(* The kernel counter of CUDA applications, a file two processes share.    *)
(*                                                                         *)
(* The injection library runs in the threads of the tuned application: at  *)
(* every launch it adds one to globalCounter and, each maxNumRanges        *)
(* launches, truncates the file "kernels_count", writes the counter to it  *)
(* and closes it, through one std::ofstream, without a lock. A context of  *)
(* the application is configured under ctxDataMutex when it is created;    *)
(* what the library keeps of it is not used any more. DEPO reads the file  *)
(* in CudaDevice::getPerfCounter and tries again while it finds no line.   *)
(*                                                                         *)
(* With several threads the accesses to the counter and to the stream race;*)
(* every interleaving of their loads, stores and stream calls is taken.    *)
(***************************************************************************)
EXTENDS Integers, FiniteSets

CONSTANTS
  Threads,       \* threads of the application that launch kernels
  Unset,         \* INJECTION_KERNEL_COUNT is not in the environment
  KernelCounts,  \* what it may be set to otherwise
  NoThread,      \* nobody holds ctxDataMutex
  MaxLaunches,   \* bound: launches of one application
  MaxReads       \* bound: calls of getPerfCounter

ASSUME CounterAssumption ==
  /\ KernelCounts \subseteq Int /\ Unset \notin Int /\ NoThread \notin Threads
  /\ MaxLaunches \in 0 .. 99 /\ MaxReads \in Nat

VARIABLES
  kernelCount,   \* INJECTION_KERNEL_COUNT, as the application inherits it
  injected,      \* CUDA_INJECTION64_PATH names the library
  pc,            \* control point of each thread
  loaded,        \* what each thread loaded from globalCounter
  globalCounter,
  mutex,         \* who holds ctxDataMutex
  stream,        \* kernelCounterFile: is it open, has an operation failed
  file,          \* the digits in "kernels_count", NoLine when there are none
  app,           \* the application: "none", "running", "exited", "failed", "killed"
  reader,        \* DEPO: "out" of getPerfCounter, "in" its loop, or "gone"
  value,         \* what getPerfCounter returned last
  launches,      \* history: launches of this application so far
  reads          \* history: calls of getPerfCounter

environment == <<kernelCount, injected>>
library == <<pc, loaded, globalCounter, mutex, stream, launches>>
readerVars == <<reader, value, reads>>
vars == <<kernelCount, injected, pc, loaded, globalCounter, mutex, stream, file,
          app, reader, value, launches, reads>>

NoLine == 0 - 1

\* CtxProfilerData: 10 unless the environment says otherwise.
maxNumRanges ==
  IF kernelCount = Unset \/ kernelCount < 1 THEN 10 ELSE kernelCount

-----------------------------------------------------------------------------
(* A thread of the application in ProfilerCallbackHandler *)

Goto(t, from, to) ==
  /\ app = "running" /\ pc[t] = from
  /\ pc' = [pc EXCEPT ![t] = to]
  /\ UNCHANGED environment /\ UNCHANGED readerVars

\* ++globalCounter is a load; without the library a launch is just a launch.
Launch(t) ==
  /\ Goto(t, "run", IF injected THEN "add" ELSE "run")
  /\ launches < MaxLaunches /\ launches' = launches + 1
  /\ loaded' = [loaded EXCEPT ![t] = IF injected THEN globalCounter ELSE @]
  /\ UNCHANGED <<globalCounter, mutex, stream, file, app>>

\* ... and a store.
Add(t) ==
  /\ Goto(t, "add", "test")
  /\ globalCounter' = loaded[t] + 1
  /\ UNCHANGED <<loaded, mutex, stream, file, app, launches>>

\* Variant: the file is rewritten one launch late.
WritesNow_Late == globalCounter % maxNumRanges = 1 /\ globalCounter > 1

\* contextData[ctx], made by its default constructor when there is none.
WritesNow == globalCounter % maxNumRanges = 0

Test(t) ==
  /\ Goto(t, "test", IF WritesNow THEN "open" ELSE "run")
  /\ UNCHANGED <<loaded, globalCounter, mutex, stream, file, app, launches>>

\* open truncates the file and clears the stream; on an open stream it fails.
Open(t) ==
  /\ Goto(t, "open", "write")
  /\ IF stream.open
     THEN stream' = [stream EXCEPT !.failed = TRUE] /\ UNCHANGED file
     ELSE stream' = [open |-> TRUE, failed |-> FALSE] /\ file' = NoLine
  /\ UNCHANGED <<loaded, globalCounter, mutex, app, launches>>

\* Variant: the number is not flushed and the close is forgotten.
Write_NotFlushed(t) ==
  /\ Goto(t, "write", "close")
  /\ UNCHANGED <<loaded, globalCounter, mutex, stream, file, app, launches>>

\* << globalCounter << flush appends the digits of what the counter is now.
Write(t) ==
  /\ Goto(t, "write", "close")
  /\ file' = IF ~stream.open \/ stream.failed THEN file
             ELSE IF file = NoLine THEN globalCounter
             ELSE (IF globalCounter < 10 THEN 10 ELSE 100) * file + globalCounter
  /\ stream' = [stream EXCEPT !.failed = @ \/ ~stream.open]
  /\ UNCHANGED <<loaded, globalCounter, mutex, app, launches>>

Close(t) ==
  /\ Goto(t, "close", "run")
  /\ stream' = [open |-> FALSE, failed |-> stream.failed \/ ~stream.open]
  /\ UNCHANGED <<loaded, globalCounter, mutex, file, app, launches>>

\* A context is created, the device asked for its number and its properties; a
\* call that fails ends in exit, here and below.
ContextCreated(t) ==
  /\ injected
  /\ Goto(t, "run", "initialize") \/ Goto(t, "run", "exit")
  /\ UNCHANGED <<loaded, globalCounter, mutex, stream, file, app, launches>>

\* Once in a process. Then the device is asked whether it can be profiled.
InitializeState(t) ==
  /\ Goto(t, "initialize", "lock") \/ Goto(t, "initialize", "exit")
  /\ UNCHANGED <<loaded, globalCounter, mutex, stream, file, app, launches>>

\* A context that can be profiled is stored, another one forgotten.
LockContexts(t) ==
  /\ Goto(t, "lock", "configure") \/ Goto(t, "lock", "unlock")
  /\ mutex = NoThread /\ mutex' = t
  /\ UNCHANGED <<loaded, globalCounter, stream, file, app, launches>>

\* InitializeContextData: images for sessions that are never begun, made by
\* calls of CUPTI, any of which may fail and end in exit, the lock held.
Configures(t, from, to) ==
  /\ Goto(t, from, to) \/ Goto(t, from, "exitLocked")
  /\ UNCHANGED <<loaded, globalCounter, mutex, stream, file, app, launches>>

GetCounterAvailability(t) == Configures(t, "configure", "configImage")

\* That the metrics cannot be evaluated is dropped, here and in the next step.
GetConfigImage(t) == Configures(t, "configImage", "prefixImage")

GetCounterDataPrefixImage(t) == Configures(t, "prefixImage", "dataImage")

InitializeDataImage(t) == Configures(t, "dataImage", "unlock")

InitializeContextData(t) ==
  \/ GetCounterAvailability(t) \/ GetConfigImage(t)
  \/ GetCounterDataPrefixImage(t) \/ InitializeDataImage(t)

UnlockContexts(t) ==
  /\ Goto(t, "unlock", "run")
  /\ mutex' = NoThread
  /\ UNCHANGED <<loaded, globalCounter, stream, file, app, launches>>

\* exit runs EndExecution, which takes the lock and releases it. The thread
\* that holds it already waits for itself.
EndExecution(t) ==
  /\ app = "running" /\ pc[t] \in {"exit", "exitLocked"} /\ mutex = NoThread
  /\ app' = "failed"
  /\ UNCHANGED environment /\ UNCHANGED library /\ UNCHANGED readerVars
  /\ UNCHANGED file

Step(t) ==
  \/ Launch(t) \/ Add(t) \/ Test(t) \/ Open(t) \/ Write(t) \/ Close(t)
  \/ ContextCreated(t) \/ InitializeState(t) \/ LockContexts(t)
  \/ InitializeContextData(t) \/ UnlockContexts(t) \/ EndExecution(t)

\* An application that starts has its own counter; the driver loads the library.
Fresh(state) ==
  /\ app' = state
  /\ pc' = [t \in Threads |-> "run"] /\ loaded' = [t \in Threads |-> 0]
  /\ globalCounter' = 0 /\ mutex' = NoThread
  /\ stream' = [open |-> FALSE, failed |-> FALSE]
  /\ launches' = 0

\* Without launches it may fail: execvp, or InitializeInjection, which exits when
\* it cannot subscribe to the callbacks. It exits with no thread in the handler ...
AppExits(how) ==
  /\ app = "running" /\ app' = how
  /\ \A t \in Threads : pc[t] = "run"
  /\ how = "failed" => launches = 0
  /\ UNCHANGED environment /\ UNCHANGED library /\ UNCHANGED readerVars
  /\ UNCHANGED file

\* ... or is killed, its threads anywhere.
AppKilled ==
  /\ app = "running" /\ app' = "killed"
  /\ UNCHANGED environment /\ UNCHANGED library /\ UNCHANGED readerVars
  /\ UNCHANGED file

AppStep ==
  \/ \E t \in Threads : Step(t)
  \/ AppExits("exited") \/ AppExits("failed") \/ AppKilled

-----------------------------------------------------------------------------
(* DEPO *)

CallGetPerfCounter ==
  /\ reader = "out" /\ reader' = "in"
  /\ reads < MaxReads /\ reads' = reads + 1
  /\ UNCHANGED environment /\ UNCHANGED library
  /\ UNCHANGED <<file, app, value>>

\* readValueFromFile; without a line it gives -1 and the loop goes on.
ReadFile ==
  /\ reader = "in" /\ file # NoLine
  /\ reader' = "out"
  /\ value' = file
  /\ UNCHANGED environment /\ UNCHANGED library
  /\ UNCHANGED <<file, app, reads>>

ReadAgain == reader = "in" /\ file = NoLine /\ UNCHANGED vars

Reader == CallGetPerfCounter \/ ReadFile \/ ReadAgain

-----------------------------------------------------------------------------
(* The counter alone: one application, forked after a reset *)

Init ==
  /\ kernelCount \in KernelCounts \union {Unset} /\ injected = TRUE
  /\ pc = [t \in Threads |-> "run"] /\ loaded = [t \in Threads |-> 0]
  /\ globalCounter = 0 /\ mutex = NoThread
  /\ stream = [open |-> FALSE, failed |-> FALSE]
  /\ file = 0
  /\ app = "running" /\ reader = "out" /\ value = 0
  /\ launches = 0 /\ reads = 0

Next == AppStep \/ Reader

Spec == Init /\ [][Next]_vars

\* The operating system schedules the threads of both processes.
Fairness ==
  /\ \A t \in Threads : WF_vars(Step(t))
  /\ WF_vars(ReadFile)

FairSpec == Spec /\ Fairness

-----------------------------------------------------------------------------
(* Properties *)

\* What getPerfCounter returns is a count the application has reached, and at
\* most maxNumRanges launches old, whatever moment of the rewrite the file is
\* read at: a rewrite in progress is never taken for a count.
CountIsRecent ==
  [][injected /\ reader = "in" /\ reader' = "out" =>
       /\ value' <= launches
       /\ launches <= value' + maxNumRanges]_vars

\* "This code supports multiple contexts and multithreading through locking
\* shared data structures" (header of injection_2.cpp): the count DEPO reads
\* never goes back, so the unsigned differences taken of it never wrap.
CountNeverFalls == [][value' >= value]_vars

\* getPerfCounter returns: the file does not stay without a line, unless the
\* application is killed between the truncation and the write.
GetPerfCounterReturns == reader = "in" ~> reader # "in" \/ app = "killed"

=============================================================================
