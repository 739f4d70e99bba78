--------------------------- MODULE MCBlockchainMgr ---------------------------
(* BlockchainMgr on a small instance. *)
EXTENDS BlockchainMgr

CONSTANTS r1
=============================================================================
