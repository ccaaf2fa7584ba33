---------------------------- MODULE MCAgentRuns ----------------------------
(***************************************************************************)
(* Small instances of AgentRuns for TLC.                                   *)
(***************************************************************************)
EXTENDS AgentRuns, TLC

CONSTANTS a1, a2, a3, c1, s1, s2

\* s1 may read every chunk, s2 none of them.
MCScopeChunks == [s \in Scopes |-> IF s = s1 THEN Chunks ELSE {}]

\* Runs and requests are interchangeable.
MCSymmetry == Permutations(Requests) \cup Permutations(Runs)
=============================================================================
