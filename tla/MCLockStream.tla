---------------------------- MODULE MCLockStream ----------------------------
(***************************************************************************)
(* LockStream on small instances.  The seconds are scaled down: what       *)
(* matters is only that a stamp may run back by as much as the reorder     *)
(* window at most, and that a power cycle takes longer than both together. *)
(***************************************************************************)
EXTENDS LockStream

\* The lock as the first poll finds it.
FoundLocked == {[bolt |-> "locked", door |-> "closed", battery |-> 50, online |-> TRUE]}
=============================================================================
