----------------------- MODULE MCEvaluationPipeline -----------------------
(***************************************************************************)
(* Small instances of EvaluationPipeline for TLC.                          *)
(***************************************************************************)
EXTENDS EvaluationPipeline
=============================================================================
