---------------------------- MODULE MCScheduler ----------------------------
(* Values of the constants of Scheduler for TLC: usage below, at and above  *)
(* both watermarks, between two percents, beyond the range of percent_used, *)
(* and of no file system; candidate lists that end the planning pass in     *)
(* each of its ways (something to delete, nothing actionable, nothing but   *)
(* the cap).                                                                *)
EXTENDS Scheduler

MCText == {"", "app"}
MCTrim == [t \in MCText |-> t]

Deletable(kind, size) ==
  [identifier |-> "app", display_name |-> None, labels |-> {},
   backend |-> "Docker", resource_kind |-> kind, size_bytes |-> size,
   age_days |-> 7, in_use |-> "no", referenced |-> "no", protected |-> FALSE,
   metadata_complete |-> TRUE, metadata_ambiguous |-> FALSE]

InUse == [Deletable("Container", 1) EXCEPT !.in_use = "yes"]

MCReadings ==
  {[used |-> 2, total |-> 200], [used |-> 3, total |-> 200],
   [used |-> 5, total |-> 200], [used |-> 6, total |-> 200],
   [used |-> 9, total |-> 300], [used |-> 0, total |-> 0]}

MCCandidateLists ==
  {<<>>, <<InUse>>, <<Deletable("Volume", 5)>>,
   <<Deletable("Image", 2), Deletable("Container", 1)>>,
   <<Deletable("Volume", None), Deletable("Image", 1)>>,
   <<InUse, Deletable("BuildCache", 9)>>}
=============================================================================
