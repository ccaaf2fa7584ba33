--------------------------- MODULE MCToolGateway ---------------------------
(***************************************************************************)
(* Small instances of ToolGateway for TLC.                                 *)
(***************************************************************************)
EXTENDS ToolGateway, TLC

MCSymmetry == Permutations(Chunks)
=============================================================================
