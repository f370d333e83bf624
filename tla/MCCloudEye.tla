----------------------------- MODULE MCCloudEye -----------------------------
(***************************************************************************)
(* Five resources of a metric and none of another, in three pages of two   *)
(* when the second one stands and in two when it does not: at most two are *)
(* read.  Three series fit in an answer, two in a batch.                   *)
(***************************************************************************)
EXTENDS CloudEye, TLC

CONSTANTS c1, c2

MCMetricOf == [r \in Resources |-> "cpu"]
MCReach == <<4, 3, 4, 2, 1>>

Query(op, metric, dim, ok) == [op |-> op, metric |-> metric, dim |-> dim, wellFormed |-> ok]

MCCalls ==
    {Query("instant", "cpu", None, TRUE), Query("range", "cpu", None, TRUE),
     Query("range", "disk", None, TRUE), Query("instant", "cpu", 2, FALSE),
     Query("instant", "cpu", 2, TRUE),
     [op |-> "label_values", metric |-> None], [op |-> "alerts"], [op |-> "rules"]}
=============================================================================
