-------------------------- MODULE MCAnalysisLifecycle --------------------------
(* Small instances of AnalysisLifecycle for TLC. *)
EXTENDS AnalysisLifecycle

CONSTANTS w1, o1

OneWorkflow == {w1}
OneOperator == {o1}
================================================================================
