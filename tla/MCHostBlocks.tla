---------------------------- MODULE MCHostBlocks ----------------------------
(* HostBlocks on small instances. *)
EXTENDS HostBlocks
=============================================================================
