------------------------ MODULE MCDocumentLifecycle ------------------------
(***************************************************************************)
(* Small instances of DocumentLifecycle for TLC.                           *)
(***************************************************************************)
EXTENDS DocumentLifecycle, TLC

\* Requests are interchangeable, and so are idempotency keys.
MCSymmetry == Permutations(Requests) \cup Permutations(Keys)
=============================================================================
