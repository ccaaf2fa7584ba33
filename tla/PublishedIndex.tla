--------------------------- MODULE PublishedIndex ---------------------------
(***************************************************************************)
(* What the document lifecycle promises to search, without requests,       *)
(* locks, files or embeddings: at every instant a document offers at most  *)
(* one version, a version is offered at most once, the replacement of one  *)
(* version by the next is a single step, and withdrawal is for ever.       *)
(***************************************************************************)
EXTENDS FiniteSets

CONSTANTS Docs,    \* documents
          Numbers  \* version numbers

VARIABLES offered,   \* [Docs -> the versions search may return]
          spent,     \* [Docs -> the versions ever offered]
          withdrawn  \* [Docs -> the document was deleted]

indexVars == <<offered, spent, withdrawn>>

\* A database that is being upgraded may already offer documents.
Init ==
  /\ offered \in [Docs -> {{}} \cup {{n} : n \in Numbers}]
  /\ spent = offered
  /\ withdrawn = [d \in Docs |-> FALSE]

Publish(d, n) ==
  /\ ~withdrawn[d]
  /\ n \notin spent[d]
  /\ offered' = [offered EXCEPT ![d] = {n}]
  /\ spent' = [spent EXCEPT ![d] = @ \cup {n}]
  /\ UNCHANGED withdrawn

Withdraw(d) ==
  /\ ~withdrawn[d]
  /\ offered' = [offered EXCEPT ![d] = {}]
  /\ withdrawn' = [withdrawn EXCEPT ![d] = TRUE]
  /\ UNCHANGED spent

Next == \E d \in Docs : Withdraw(d) \/ \E n \in Numbers : Publish(d, n)

Spec == Init /\ [][Next]_indexVars
=============================================================================
