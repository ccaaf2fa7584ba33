--------------------------- MODULE MCChatDelivery ---------------------------
(***************************************************************************)
(* Small instances of ChatDelivery for TLC.                                *)
(***************************************************************************)
EXTENDS ChatDelivery, TLC

\* Requests are interchangeable, and so are identifiers and pages.
MCSymmetry == Permutations(Requests) \cup Permutations(Ids) \cup Permutations(Tabs)
=============================================================================
