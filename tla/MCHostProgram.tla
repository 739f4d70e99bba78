---------------------------- MODULE MCHostProgram ----------------------------
(* HostProgram on small instances. *)
EXTENDS HostProgram

CONSTANTS a, b, r1, r2
=============================================================================
