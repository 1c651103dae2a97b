---------------------------- MODULE MCDiscovery ----------------------------
(***************************************************************************)
(* Discovery on small instances: two or three datacenters, the third one   *)
(* learned from the cloud; a poll and a command's discovery.               *)
(***************************************************************************)
EXTENDS Discovery

CONSTANTS na, sg, new, front, back, poll, command
=============================================================================
