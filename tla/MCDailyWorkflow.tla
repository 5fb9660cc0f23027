--------------------------- MODULE MCDailyWorkflow ---------------------------
(***************************************************************************)
(* The daily workflow of definitions.py, and the executors of executors.py *)
(* reduced to the statuses they return.  With the code's own executors the *)
(* proposal of portfolio_workflow is never approved yet, so that           *)
(* paper_trade_candidate_generation always asks for attention; the         *)
(* registry of the repository's tests replaces it by one that succeeds.    *)
(***************************************************************************)
EXTENDS DailyWorkflow

DailyMaxAttempts == [s \in 1..8 |-> IF s \in {1, 2, 8} THEN 2 ELSE 1]
DailyAutoRetry == {1, 2, 8}
DailyFailureAction ==
    [s \in 1..8 |-> CASE s \in {6, 7} -> "attention_required_stop"
                      [] s = 8 -> "partial_continue"
                      [] OTHER -> "fail_workflow"]
DailyReturns ==
    [s \in 1..8 |-> IF s = 7 THEN StepVerdict ELSE {"succeeded"}]
=============================================================================
