--------------------------- MODULE MCTcpSynBacklog --------------------------
(***************************************************************************)
(* An instance of TcpSynBacklog for TLC.                                   *)
(***************************************************************************)
EXTENDS TcpSynBacklog, TLC

MCSymmetry == Permutations(CPU)
=============================================================================
