---------------------------- MODULE ReplayLedger ----------------------------
(***************************************************************************)
(* What sending a chat message under a client_message_id promises: the     *)
(* identifier is claimed at most once, and it is settled by one step that  *)
(* writes the question and its answer together, or the question alone and  *)
(* a failure.  A claim that is never settled stays claimed.                *)
(***************************************************************************)
EXTENDS Naturals

CONSTANT Ids

VARIABLES
  ledger,    \* what is recorded under an identifier
  questions, \* user messages stored for an identifier
  answers    \* assistant messages stored for an identifier

vars == <<ledger, questions, answers>>

Init ==
  /\ ledger = [i \in Ids |-> "free"]
  /\ questions = [i \in Ids |-> 0]
  /\ answers = [i \in Ids |-> 0]

Claim(i) ==
  /\ ledger[i] = "free"
  /\ ledger' = [ledger EXCEPT ![i] = "claimed"]
  /\ UNCHANGED <<questions, answers>>

\* A message that needs no search is claimed and answered at once.
Answer(i) ==
  /\ ledger[i] \in {"free", "claimed"}
  /\ ledger' = [ledger EXCEPT ![i] = "answered"]
  /\ questions' = [questions EXCEPT ![i] = @ + 1]
  /\ answers' = [answers EXCEPT ![i] = @ + 1]

Fail(i) ==
  /\ ledger[i] = "claimed"
  /\ ledger' = [ledger EXCEPT ![i] = "failed"]
  /\ questions' = [questions EXCEPT ![i] = @ + 1]
  /\ UNCHANGED answers

Next == \E i \in Ids : Claim(i) \/ Answer(i) \/ Fail(i)

Spec == Init /\ [][Next]_vars
=============================================================================
