------------------------------ MODULE MCPosSync ------------------------------
(* Instances of PosSync for TLC.                                            *)
EXTENDS PosSync

CONSTANTS w1, w2
=============================================================================
