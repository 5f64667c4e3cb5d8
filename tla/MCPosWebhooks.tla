---------------------------- MODULE MCPosWebhooks ----------------------------
(* Instances of PosWebhooks for TLC.                                        *)
EXTENDS PosWebhooks

CONSTANTS w1, w2
=============================================================================
