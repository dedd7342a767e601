-------------------------- MODULE MCMetricCollector --------------------------
(* MetricCollector with devices that have the group and its metrics, have  *)
(* them at a wrong place, or do not have them.                             *)
EXTENDS MetricCollector

Group(name, timeBased, metrics) ==
  [name |-> name, timeBased |-> timeBased, metrics |-> metrics]

MCGroupLists ==
  {<<Group("ComputeBasic", FALSE, <<"time", "ALU0", "XMX">>),
     Group("ComputeBasic", TRUE, <<"time", "ALU0", "XMX">>)>>,
   <<Group("ComputeBasic", TRUE, <<"ALU0", "XMX">>)>>,
   <<Group("Other", TRUE, <<"time", "ALU0", "XMX">>)>>,
   <<>>}
MCRequired == {"ALU0", "XMX"}

=============================================================================
