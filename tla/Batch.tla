-------------------------------- MODULE Batch --------------------------------
(***************************************************************************)
(* What the executor promises the scheduler about a plan: its actions are   *)
(* settled one after the other, in order, each exactly once and for good,   *)
(* as completed or as failed; a simulated action never fails.               *)
(***************************************************************************)
EXTENDS Integers, Sequences

CONSTANTS Size, Simulated

VARIABLES settled, completed, failures

batch == <<settled, completed, failures>>

Start == settled = 0 /\ completed = <<>> /\ failures = <<>>

Complete ==
  /\ settled < Size /\ settled' = settled + 1
  /\ completed' = Append(completed, settled + 1)
  /\ UNCHANGED failures

Fail ==
  /\ settled < Size /\ settled' = settled + 1
  /\ settled + 1 \notin Simulated
  /\ failures' = Append(failures, settled + 1)
  /\ UNCHANGED completed

Spec == Start /\ [][Complete \/ Fail]_batch
=============================================================================
