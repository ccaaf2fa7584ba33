-------------------------- MODULE MCEvaluationRuns --------------------------
(***************************************************************************)
(* Small instances of EvaluationRuns for TLC: two documents, of which the  *)
(* evaluated identity may see the first.                                   *)
(***************************************************************************)
EXTENDS EvaluationRuns, TLC

Grounded ==
  [operation |-> "grounded_chat", expected |-> {"own"}, forbidden |-> {"foreign"},
   citation_required |-> TRUE]

MCDocuments == {"own", "foreign"}
OneChat == <<Grounded>>
TwoChats == <<Grounded, Grounded>>
=============================================================================
