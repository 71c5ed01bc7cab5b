---------------------- MODULE EvaluationStateMachine ----------------------
(***************************************************************************)
(* The evaluation lifecycle as data: the statuses and the table of         *)
(* permitted transitions of domain/evaluation/stateMachine.ts.  No state,  *)
(* only operators, shared by the abstract lifecycle (EvaluationLifecycle)  *)
(* and by the detailed pipeline (EvaluationPipeline).                      *)
(***************************************************************************)

EvaluationStatuses ==
    {"PENDING", "RUNNING_CHECKS", "AWAITING_REVIEW", "UNDER_REVIEW",
     "SCORED", "FINALIZED", "FAILED", "CANCELLED"}

Transitions ==
    [PENDING         |-> {"RUNNING_CHECKS", "CANCELLED"},
     RUNNING_CHECKS  |-> {"AWAITING_REVIEW", "FAILED"},
     AWAITING_REVIEW |-> {"UNDER_REVIEW", "CANCELLED"},
     UNDER_REVIEW    |-> {"SCORED", "CANCELLED"},
     SCORED          |-> {"FINALIZED", "UNDER_REVIEW"},
     FINALIZED       |-> {},
     FAILED          |-> {},
     CANCELLED       |-> {}]

TerminalStatuses == {"FINALIZED", "FAILED", "CANCELLED"}

CanTransition(from, to) == to \in Transitions[from]

IsTerminal(status) == status \in TerminalStatuses
=============================================================================
