----------------------------- MODULE MCSession -----------------------------
(***************************************************************************)
(* Session on a small instance: polls and token checks in the background,  *)
(* and a user's commands.                                                  *)
(***************************************************************************)
EXTENDS Session

CONSTANTS background, command, na, eu

\* The background is at one datacenter, the command's lock in the other.
Apart == [p \in Tasks |-> IF p = background THEN na ELSE eu]
=============================================================================
