----------------------------- MODULE MCMetricPath -----------------------------
(* Bounded instances of MetricPath for TLC. *)
EXTENDS MetricPath
=============================================================================
