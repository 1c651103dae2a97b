--------------------------- MODULE MCCoordinator ---------------------------
(***************************************************************************)
(* Coordinator on small instances: two datacenters, one or both of them    *)
(* with a WebSocket.                                                       *)
(***************************************************************************)
EXTENDS Coordinator

CONSTANTS na, sg
=============================================================================
