---------------------------- MODULE MCRedMetric ----------------------------
(***************************************************************************)
(* Instances of RedMetric for TLC.                                         *)
(***************************************************************************)
EXTENDS RedMetric

\* Pods of one name in two name spaces, and another pod.
MCPod == {[name |-> "web-0", ns |-> "blue", svc |-> "web"],
          [name |-> "web-0", ns |-> "green", svc |-> "web"],
          [name |-> "db-0", ns |-> "blue", svc |-> "db"]}

\* Half a millisecond, and a duration the float32 takes for 17 milliseconds.
MCDurations == {500000, 16999999}

CountedAs(d, ms) == Ms([duration |-> d]) = ms

\* Values of the expression in IEEE single precision: the fraction is cut off, a
\* nanosecond is rounded up, and 1077 milliseconds are counted as 1076.
ASSUME MsExamples ==
    /\ CountedAs(0, 0) /\ CountedAs(999999, 0) /\ CountedAs(1000000, 1)
    /\ CountedAs(15999999, 15) /\ CountedAs(16999998, 16) /\ CountedAs(16999999, 17)
    /\ CountedAs(1075000000, 1075) /\ CountedAs(1076999999, 1076) /\ CountedAs(1077000000, 1076)
=============================================================================
