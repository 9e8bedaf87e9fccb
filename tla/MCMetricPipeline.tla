-------------------------- MODULE MCMetricPipeline --------------------------
(***************************************************************************)
(* Instances of MetricPipeline for TLC: the http plugin, which may reject  *)
(* an event and survives a failed load, and the oomkill plugin, which does *)
(* neither.                                                                *)
(***************************************************************************)
EXTENDS MetricPipeline

MCPlugin == {"http", "oomkill"}
MCHttp == {"http"}
MCFatal == {"oomkill"}

\* Events that overtake the capacity of every stage, and one of another plugin.
MCMaxEvent == [p \in MCPlugin |-> IF p = "http" THEN 2 ELSE 1]
=============================================================================
