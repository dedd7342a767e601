-------------------------- MODULE MetricCollector --------------------------
(***************************************************************************)
(* ZeMetricCollector, the instruction counter of Intel GPUs.               *)
(*                                                                         *)
(* The device streams reports of the instructions it executed. The         *)
(* COLLECTOR thread reads a report from the stream and appends it, under   *)
(* the mutex, to the current one of two buffers. The MAIN thread swaps the *)
(* buffers under the mutex and then, without it, walks over the other one  *)
(* and clears it, either to add it up (getAccumulatedMetricsSinceLastReset)*)
(* or to drop it (resetAccumulatedMetrics).                                *)
(*                                                                         *)
(* Before that, the main thread picks the metric group and its metrics,    *)
(* and the collector opens, one after the other, what the stream hangs     *)
(* on; after it, the collector gives that back. Every Level Zero call may  *)
(* fail: an exception of the main thread ends the construction, one of the *)
(* collector ends the process.                                             *)
(*                                                                         *)
(* A result here holds the identities of the reports it sums and their     *)
(* instructions, in units of which Million make what the counter counts.   *)
(***************************************************************************)
EXTENDS Integers, Sequences, SequencesExt

CONSTANTS
  GroupLists, \* lists of metric groups a device may have
  GroupName,  \* the group XPUDevice asks for
  Required,   \* the names of the metrics it adds up
  Amounts,    \* instructions of one report
  Million,    \* what the accumulated counter counts: 10^6 instructions
  MaxReports, \* bound: reports the device produces
  MaxCalls    \* bound: calls of the main thread

MetricGroup == [name : STRING, timeBased : BOOLEAN, metrics : Seq(STRING)]

ASSUME CollectorAssumption ==
  /\ \A list \in GroupLists : list \in Seq(MetricGroup)
  /\ Amounts \subseteq Nat
  /\ Million \in Nat \ {0}
  /\ MaxReports \in Nat /\ MaxCalls \in Nat

VARIABLES
  groups,    \* the metric groups of the device
  group,     \* metric_group_
  opened,    \* what is open: context, groups, pool, event, stream
  main,      \* control point of the main thread
  acc,       \* acc_sum
  index,     \* elements of the swapped buffer added so far
  held,      \* metric_results_to_process, or to_reset
  value,     \* what getPerfCounter returned last
  buffers,   \* metric_results1_, metric_results2_
  current,   \* which of them current_metric_results_ points to
  accumulated, \* accumulated_metrics_
  collector, \* control point of the collector thread
  storage,   \* reports it read from the stream
  state,     \* collector_state_
  streamer,  \* reports that wait in the metric streamer
  produced,  \* history: reports the device produced
  calls,     \* history: calls of the main thread
  counted,   \* history: identities of the reports that were added up
  added,     \* history: instructions added up since the last reset
  gets       \* history: gets since the last reset

mainVars == <<main, acc, index, held, value, accumulated, calls>>
collectorVars == <<collector, storage, state>>
setUp == <<groups, group, opened>>
vars == <<groups, group, opened, main, acc, index, held, value, buffers, current, accumulated,
          collector, storage, state, streamer, produced, calls, counted,
          added, gets>>
history == <<counted, added, gets>>

MetricResult == [ids : SUBSET Nat, inst : Nat]

Other(b) == 3 - b

NoReports == [ids |-> {}, inst |-> 0]

Ids(buffer) == UNION {buffer[i].ids : i \in 1 .. Len(buffer)}

NoGroup == [name |-> "", timeBased |-> FALSE, metrics |-> <<>>]

Init ==
  /\ groups \in GroupLists /\ group = NoGroup /\ opened = {}
  /\ main = "creating" /\ acc = 0 /\ index = 0 /\ held = 1 /\ value = 0
  /\ buffers = [b \in {1, 2} |-> <<>>] /\ current = 1 /\ accumulated = 0
  /\ collector = "off" /\ storage = NoReports /\ state = "IDLE"
  /\ streamer = NoReports /\ produced = 0 /\ calls = 0
  /\ counted = {} /\ added = 0 /\ gets = 0

-----------------------------------------------------------------------------
(* The device *)

\* Some instructions were executed; their report waits in the stream.
Execute(inst) ==
  /\ produced < MaxReports
  /\ produced' = produced + 1
  /\ streamer' = IF "stream" \notin opened THEN streamer
                 ELSE [ids  |-> streamer.ids \union {produced},
                       inst |-> streamer.inst + inst]
  /\ UNCHANGED setUp /\ UNCHANGED mainVars /\ UNCHANGED collectorVars
  /\ UNCHANGED <<buffers, current>> /\ UNCHANGED history

-----------------------------------------------------------------------------
(* The collector thread *)

CollectorUnchanged ==
  /\ UNCHANGED mainVars /\ UNCHANGED history
  /\ UNCHANGED <<current, produced>>

\* Variant: the state is published before the stream is opened.
Opens_Early(from, resource, to) ==
  /\ collector = from /\ main # "aborted" /\ collector' = to
  /\ opened' = opened \union {resource}
  /\ state' = IF resource = "event" THEN "ENABLED" ELSE state
  /\ UNCHANGED <<groups, group, buffers, storage, streamer>>
  /\ CollectorUnchanged

\* Collect opens one thing after the other; with the stream open it publishes
\* the state.
Opens(from, resource, to) ==
  /\ collector = from /\ main # "aborted" /\ collector' = to
  /\ opened' = opened \union {resource}
  /\ state' = IF resource = "stream" THEN "ENABLED" ELSE state
  /\ UNCHANGED <<groups, group, buffers, storage, streamer>>
  /\ CollectorUnchanged

OpenNext ==
  \/ Opens("activate", "groups", "createPool")
  \/ Opens("createPool", "pool", "createEvent")
  \/ Opens("createEvent", "event", "openStream")
  \/ Opens("openStream", "stream", "loop")

\* After the loop it gives them back.
Closes(from, resource, to) ==
  /\ collector = from /\ main # "aborted" /\ collector' = to
  /\ opened' = opened \ {resource}
  /\ streamer' = IF resource = "stream" THEN NoReports ELSE streamer
  /\ UNCHANGED <<groups, group, buffers, storage, state>> /\ CollectorUnchanged

CloseNext ==
  \/ Closes("close", "stream", "destroyEvent")
  \/ Closes("destroyEvent", "event", "destroyPool")
  \/ Closes("destroyPool", "pool", "deactivate")
  \/ Closes("deactivate", "groups", "ended")

\* A call outside of the loop fails: nobody catches what the thread throws,
\* and std::terminate ends the process.
CollectorThrows ==
  /\ collector \in {"activate", "createPool", "createEvent", "openStream",
                    "close", "destroyEvent", "destroyPool", "deactivate"}
  /\ main # "aborted" /\ main' = "aborted"
  /\ UNCHANGED setUp /\ UNCHANGED collectorVars /\ UNCHANGED history
  /\ UNCHANGED <<acc, index, held, value, buffers, current, accumulated,
                 streamer, produced, calls>>

\* Variant: the loop tests for the wrong state.
TestState_Idle ==
  /\ collector = "loop"
  /\ collector' = IF state = "IDLE" THEN "close" ELSE "read"
  /\ UNCHANGED setUp /\ UNCHANGED <<buffers, storage, state, streamer>> /\ CollectorUnchanged

TestState ==
  /\ collector = "loop"
  /\ collector' = IF state = "DISABLED" THEN "close" ELSE "read"
  /\ UNCHANGED setUp /\ UNCHANGED <<buffers, storage, state, streamer>> /\ CollectorUnchanged

\* zetMetricStreamerReadData takes all that waits.
ReadData ==
  /\ collector = "read"
  /\ collector' = IF streamer = NoReports THEN "loop" ELSE "append"
  /\ storage' = streamer /\ streamer' = NoReports
  /\ UNCHANGED setUp
  /\ UNCHANGED <<buffers, state>> /\ CollectorUnchanged

\* The event or the read fails: the loop goes on.
ReadFails ==
  /\ collector = "read" /\ collector' = "loop"
  /\ UNCHANGED setUp
  /\ UNCHANGED <<buffers, storage, state, streamer>> /\ CollectorUnchanged

\* Variant: the result goes to the buffer that is not the current one.
AppendCalculatedMetrics_ToSpare ==
  /\ collector = "append" /\ collector' = "loop"
  /\ buffers' = [buffers EXCEPT ![Other(current)] = Append(@, storage)]
  /\ storage' = NoReports
  /\ UNCHANGED setUp /\ UNCHANGED <<state, streamer>> /\ CollectorUnchanged

\* The reports are summed into one result; under the mutex it is appended to
\* the buffer that is the current one by then.
AppendCalculatedMetrics ==
  /\ collector = "append" /\ collector' = "loop"
  /\ buffers' = [buffers EXCEPT ![current] = Append(@, storage)]
  /\ storage' = NoReports
  /\ UNCHANGED setUp /\ UNCHANGED <<state, streamer>> /\ CollectorUnchanged

\* The reports cannot be calculated, and are lost.
CalculationFails ==
  /\ collector = "append" /\ collector' = "loop"
  /\ storage' = NoReports
  /\ UNCHANGED setUp /\ UNCHANGED <<buffers, state, streamer>>
  /\ CollectorUnchanged

CollectorStep ==
  \/ OpenNext \/ TestState \/ ReadData \/ ReadFails \/ AppendCalculatedMetrics
  \/ CalculationFails \/ CloseNext \/ CollectorThrows

-----------------------------------------------------------------------------
(* The main thread *)

MainUnchanged ==
  UNCHANGED setUp /\ UNCHANGED <<collector, storage, streamer, produced>>

Goto(from, to) == main = from /\ main' = to

SettingUp(from, to) ==
  /\ Goto(from, to)
  /\ UNCHANGED <<groups, acc, index, held, value, buffers, current, accumulated,
                 storage, state, streamer, produced, calls>>
  /\ UNCHANGED history

\* Create: the first time-based group of the name. Without any group it
\* throws; without the wanted one the constructor does, which is called next.
FindGroup ==
  /\ groups # <<>>
  /\ SettingUp("creating", "context")
  /\ LET i == SelectInSeq(groups, LAMBDA g : g.name = GroupName /\ g.timeBased)
     IN  group' = IF i = 0 THEN NoGroup ELSE groups[i]
  /\ UNCHANGED <<opened, collector>>

CreateContext ==
  /\ SettingUp("context", IF group = NoGroup THEN "thrown" ELSE "indexing")
  /\ opened' = {"context"}
  /\ UNCHANGED <<group, collector>>

\* GetMetricId: the position of the first metric of the name, from 0; -1 where
\* there is none.
GetMetricId(name) ==
  SelectInSeq(group.metrics, LAMBDA metric : metric = name) - 1

\* SetMetricIndices takes position 0 for a missing metric. Then EnableMetrics
\* starts the thread ...
StartCollector ==
  /\ \A name \in Required : GetMetricId(name) > 0
  /\ SettingUp("indexing", "starting")
  /\ collector' = "activate"
  /\ UNCHANGED <<group, opened>>

\* A call fails, a group or a metric is missing: the exception ends the
\* construction of the device. Nobody destroys the context.
SetUpThrows ==
  \E from \in {"creating", "context", "indexing"} :
    SettingUp(from, "thrown") /\ UNCHANGED <<group, opened, collector>>

\* ... and waits until the collector is enabled.
Enabled ==
  /\ Goto("starting", "idle")
  /\ state = "ENABLED"
  /\ UNCHANGED <<acc, index, held, value, buffers, current, accumulated,
                 state, calls>>
  /\ MainUnchanged /\ UNCHANGED history

\* Under the mutex.
SwapBuffers == held' = current /\ current' = Other(current)

BeginGet ==
  /\ Goto("idle", "sum")
  /\ calls < MaxCalls /\ calls' = calls + 1
  /\ SwapBuffers
  /\ acc' = 0 /\ index' = 0
  /\ gets' = gets + 1
  /\ UNCHANGED <<value, buffers, accumulated, state, counted, added>>
  /\ MainUnchanged

AddOne ==
  /\ main = "sum" /\ index < Len(buffers[held])
  /\ index' = index + 1
  /\ acc' = acc + buffers[held][index + 1].inst
  /\ counted' = counted \union buffers[held][index + 1].ids
  /\ added' = added + buffers[held][index + 1].inst
  /\ UNCHANGED <<main, held, value, buffers, current, accumulated, state,
                 calls, gets>>
  /\ MainUnchanged

SumEnds ==
  /\ Goto("sum", "return") /\ index = Len(buffers[held])
  /\ UNCHANGED <<acc, index, held, value, buffers, current, accumulated,
                 state, calls>>
  /\ MainUnchanged /\ UNCHANGED history

\* Variant: the buffer is not cleared.
ClearAndReturn_NotCleared ==
  /\ Goto("return", "idle")
  /\ accumulated' = accumulated + acc \div Million
  /\ value' = accumulated'
  /\ UNCHANGED <<acc, index, held, buffers, current, state, calls>>
  /\ MainUnchanged /\ UNCHANGED history

\* The buffer is cleared, and whole millions are added to the counter.
ClearAndReturn ==
  /\ Goto("return", "idle")
  /\ buffers' = [buffers EXCEPT ![held] = <<>>]
  /\ accumulated' = accumulated + acc \div Million
  /\ value' = accumulated'
  /\ UNCHANGED <<acc, index, held, current, state, calls>>
  /\ MainUnchanged /\ UNCHANGED history

\* Variant: the counter keeps its value.
BeginReset_CounterKept ==
  /\ Goto("idle", "clear")
  /\ calls < MaxCalls /\ calls' = calls + 1
  /\ SwapBuffers
  /\ added' = 0 /\ gets' = 0
  /\ UNCHANGED <<acc, index, value, buffers, accumulated, state, counted>>
  /\ MainUnchanged

\* resetAccumulatedMetrics zeroes the counter and swaps ...
BeginReset ==
  /\ Goto("idle", "clear")
  /\ calls < MaxCalls /\ calls' = calls + 1
  /\ accumulated' = 0
  /\ SwapBuffers
  /\ added' = 0 /\ gets' = 0
  /\ UNCHANGED <<acc, index, value, buffers, state, counted>>
  /\ MainUnchanged

\* ... and then clears the buffer it swapped out.
EndReset ==
  /\ Goto("clear", "idle")
  /\ buffers' = [buffers EXCEPT ![held] = <<>>]
  /\ UNCHANGED <<acc, index, held, value, current, accumulated, state, calls>>
  /\ MainUnchanged /\ UNCHANGED history

\* DisableMetrics ...
Disable ==
  /\ Goto("idle", "join")
  /\ state' = "DISABLED"
  /\ UNCHANGED <<acc, index, held, value, buffers, current, accumulated,
                 calls>>
  /\ MainUnchanged /\ UNCHANGED history

\* ... joins the thread.
Join ==
  /\ Goto("join", "destroy")
  /\ collector = "ended"
  /\ UNCHANGED <<acc, index, held, value, buffers, current, accumulated,
                 state, calls>>
  /\ MainUnchanged /\ UNCHANGED history

\* The destructor goes on; a context that cannot be destroyed is logged. It runs
\* for a user of the class who destroys the object: ~XPUDevice only disables the
\* collection and leaves its collector alone.
DestroyContext ==
  /\ Goto("destroy", "ended")
  /\ opened' \in {opened, opened \ {"context"}}
  /\ UNCHANGED <<acc, index, held, value, buffers, current, accumulated,
                 state, calls>>
  /\ UNCHANGED <<groups, group, produced, streamer>>
  /\ UNCHANGED collectorVars /\ UNCHANGED history

MainStep ==
  \/ FindGroup \/ CreateContext \/ StartCollector \/ SetUpThrows
  \/ Enabled \/ BeginGet \/ AddOne \/ SumEnds \/ ClearAndReturn
  \/ BeginReset \/ EndReset \/ Disable \/ Join \/ DestroyContext

Next == (\E inst \in Amounts : Execute(inst)) \/ CollectorStep \/ MainStep

Spec == Init /\ [][Next]_vars

\* Both threads are scheduled.
FairSpec == Spec /\ WF_vars(CollectorStep) /\ WF_vars(MainStep)

-----------------------------------------------------------------------------
(* Properties *)

Resources == {"context", "groups", "pool", "event", "stream"}

WithoutMutex == main \in {"sum", "return", "clear"}

\* The buffer the main thread walks over without the mutex is never the one
\* the collector appends to, and a buffer that becomes the current one is
\* empty: the swap is all that keeps the two threads apart.
BuffersApart ==
  IF WithoutMutex THEN held # current ELSE buffers[Other(current)] = <<>>

\* No report is added up twice, and a buffer that is cleared after it was added
\* up holds no report that was not, although the collector appends all the
\* while.
CountedOnce ==
  [][/\ main = "sum" /\ index' = index + 1 =>
          buffers[held][index'].ids \intersect counted = {}
     /\ main = "return" => Ids(buffers[held]) \subseteq counted]_vars

\* Between two resets the counter is what was added up, less what each get
\* drops below a whole million: often enough asked, it need not move at all.
CounterBracket ==
  main \in {"idle", "clear"} =>
    /\ accumulated * Million <= added
    /\ added <= accumulated * Million + gets * (Million - 1)

\* What hangs on what.
Parents(resource) ==
  CASE resource = "context" -> {}
    [] resource \in {"groups", "pool"} -> {"context"}
    [] resource = "event" -> {"pool"}
    [] resource = "stream" -> {"groups", "event"}

\* Nothing is used or left open that hangs on something closed: each resource
\* is opened after and closed before those it hangs on, the constructor hands
\* the counter out and the loop reads it only with the stream open, on a group
\* that has every metric past its first position, and after a shutdown no more
\* is left than the context.
StreamIsOpen ==
  /\ \A r \in opened : Parents(r) \subseteq opened
  /\ state = "ENABLED" => "stream" \in opened
  /\ collector \in {"loop", "read", "append"} =>
       /\ "stream" \in opened /\ group.name = GroupName
       /\ \A name \in Required : \E i \in 2 .. Len(group.metrics) :
            group.metrics[i] = name
  /\ main = "destroy" => opened = {"context"}

\* Neither the constructor nor the destructor waits for ever: the collector
\* becomes enabled, and sees that it is disabled, unless it ends the process.
WaitsReturn ==
  /\ main = "starting" ~> main \in {"idle", "aborted"}
  /\ main = "join" ~> main \in {"ended", "aborted"}

=============================================================================
