---------------------------- MODULE WatermarkGate ----------------------------
(***************************************************************************)
(* What the scheduler promises about deletions, with nothing of how: a      *)
(* cleaning cycle begins only on a file system measured to be full to the   *)
(* high watermark, deletes only while the latest measurement is above the   *)
(* target watermark, and may end at any time.  A level is a number of bytes *)
(* used of a total, and nothing is rounded.                                 *)
(***************************************************************************)
EXTENDS Integers

CONSTANTS Levels, HighWatermark, TargetWatermark, NoLevel, DryRun

VARIABLES
  mode,     \* "idle" or "cleaning"
  level,    \* latest usage measured in this cycle
  issued    \* deletes issued in this cycle

gate == <<mode, level, issued>>

Idle == mode = "idle" /\ level = NoLevel /\ issued = 0

Begin ==
  /\ mode = "idle" /\ mode' = "cleaning"
  /\ \E l \in Levels :
       l.used * 100 >= HighWatermark * l.total /\ l.total > 0 /\ level' = l
  /\ UNCHANGED issued

Delete ==
  /\ mode = "cleaning" /\ ~DryRun
  /\ level.used * 100 > TargetWatermark * level.total
  /\ issued' = issued + 1
  /\ UNCHANGED <<mode, level>>

Measure ==
  /\ mode = "cleaning"
  /\ level' \in Levels
  /\ UNCHANGED <<mode, issued>>

End ==
  /\ mode = "cleaning" /\ mode' = "idle"
  /\ level' = NoLevel
  /\ issued' = 0

Spec == Idle /\ [][Begin \/ Delete \/ Measure \/ End]_gate
=============================================================================
