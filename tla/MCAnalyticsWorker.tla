-------------------------- MODULE MCAnalyticsWorker --------------------------
(* Instances of AnalyticsWorker for TLC. *)
EXTENDS AnalyticsWorker, TLC
=============================================================================
