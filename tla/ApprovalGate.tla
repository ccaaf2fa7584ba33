---------------------------- MODULE ApprovalGate ----------------------------
(***************************************************************************)
(* What human approval promises for an agent run, without requests, locks, *)
(* rows or retries: a tool call that needs consent happens at most once    *)
(* for each consent, it is the very action the consent was asked for, and  *)
(* neither a question nor a call ever happens out of turn.                 *)
(***************************************************************************)
EXTENDS Sequences

CONSTANTS Runs,     \* agent runs
          Actions,  \* canonical action hashes
          NoAction  \* no action is asked for or consented to

VARIABLES phase,     \* [Runs -> {"none", "working", "waiting", "over"}]
          asked,     \* [Runs -> the action the user is being asked about]
          consent,   \* [Runs -> the consented action that has not run yet]
          performed  \* [Runs -> the consent-requiring actions done, in order]

gateVars == <<phase, asked, consent, performed>>

Init ==
  /\ phase = [r \in Runs |-> "none"]
  /\ asked = [r \in Runs |-> NoAction]
  /\ consent = [r \in Runs |-> NoAction]
  /\ performed = [r \in Runs |-> <<>>]

Start(r) ==
  /\ phase[r] = "none"
  /\ phase' = [phase EXCEPT ![r] = "working"]
  /\ UNCHANGED <<asked, consent, performed>>

\* A run asks only when every earlier consent has been used.
Ask(r, a) ==
  /\ phase[r] = "working"
  /\ consent[r] = NoAction
  /\ phase' = [phase EXCEPT ![r] = "waiting"]
  /\ asked' = [asked EXCEPT ![r] = a]
  /\ UNCHANGED <<consent, performed>>

Grant(r) ==
  /\ phase[r] = "waiting"
  /\ phase' = [phase EXCEPT ![r] = "working"]
  /\ consent' = [consent EXCEPT ![r] = asked[r]]
  /\ asked' = [asked EXCEPT ![r] = NoAction]
  /\ UNCHANGED performed

Perform(r) ==
  /\ phase[r] = "working"
  /\ consent[r] # NoAction
  /\ performed' = [performed EXCEPT ![r] = Append(@, consent[r])]
  /\ consent' = [consent EXCEPT ![r] = NoAction]
  /\ UNCHANGED <<phase, asked>>

\* Finished, refused, stopped or failed: an unanswered question is withdrawn.
Over(r) ==
  /\ phase[r] \in {"working", "waiting"}
  /\ phase' = [phase EXCEPT ![r] = "over"]
  /\ asked' = [asked EXCEPT ![r] = NoAction]
  /\ UNCHANGED <<consent, performed>>

Next ==
  \E r \in Runs :
    \/ Start(r)
    \/ \E a \in Actions : Ask(r, a)
    \/ Grant(r)
    \/ Perform(r)
    \/ Over(r)

Spec == Init /\ [][Next]_gateVars
=============================================================================
