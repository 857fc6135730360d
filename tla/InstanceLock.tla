---------------------------- MODULE InstanceLock ----------------------------
(***************************************************************************)
(* What the single-instance lock promises: it is free, owned by one process *)
(* or orphaned, and passes from one process to another only by way of a     *)
(* release.  An orphaned lock, left by a process that could not release it, *)
(* stays so.                                                                *)
(***************************************************************************)
CONSTANT Procs

VARIABLE owner

Free == owner = "free"

Take == owner = "free" /\ owner' \in Procs

Release == owner \in Procs /\ owner' \in {"free", "orphan"}

Spec == Free /\ [][Take \/ Release]_owner
=============================================================================
