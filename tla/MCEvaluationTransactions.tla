---------------------- MODULE MCEvaluationTransactions ----------------------
(***************************************************************************)
(* A small instance of EvaluationTransactions for TLC.                     *)
(***************************************************************************)
EXTENDS EvaluationTransactions
=============================================================================
