---------------------------- MODULE EvidenceBook ----------------------------
(***************************************************************************)
(* What the evidence identifiers ev_1, ev_2, ... of one agent run promise: *)
(* they are handed out in order, an identifier once handed out names the   *)
(* same chunk for the rest of the run, however often the run is paused and *)
(* rebuilt, and nothing is handed out once the run has ended.              *)
(***************************************************************************)
EXTENDS Naturals

CONSTANT Chunks

VARIABLES
  book,  \* the chunk each identifier names: ev_N is the number N
  open   \* the run has not ended

vars == <<book, open>>

Init == book = <<>> /\ open = TRUE

\* One observation numbers its chunks, if it has any, after the ones already
\* numbered and without a gap, and may be the one that ends the run.
Next ==
  /\ open /\ open' \in BOOLEAN
  /\ \A i \in DOMAIN book' : i \in Nat \ {0} /\ 1..i \subseteq DOMAIN book'
  /\ \A i \in DOMAIN book : i \in DOMAIN book' /\ book'[i] = book[i]
  /\ \A i \in DOMAIN book' : book'[i] \in Chunks

Spec == Init /\ [][Next]_vars
=============================================================================
