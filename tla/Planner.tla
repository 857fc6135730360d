------------------------------ MODULE Planner ------------------------------
(***************************************************************************)
(* The conversion of discovered candidates into an action plan              *)
(* (src/src/planner.rs, CleanupPlanner::plan), as operators: the state of   *)
(* one pass over the candidates is a record and PlanCandidate is the body   *)
(* of the loop.  PlannerLoop is the loop on its own, Scheduler runs it once *)
(* per iteration of the watermark loop.                                     *)
(***************************************************************************)
EXTENDS Policy, SequencesExt

CONSTANTS
  RequestBackend,        \* backend the request is for
  MaxDeletePerRunGb,     \* CleanupConfig::max_delete_per_run_gb
  BytesPerGib,           \* 1024^3 in the code
  MaxU64,                \* largest u64
  DryRun                 \* CleanupConfig::dry_run

ASSUME PlannerAssumption ==
  /\ RequestBackend \in Backends
  /\ MaxDeletePerRunGb \in Nat
  /\ BytesPerGib \in Nat
  /\ MaxU64 \in Nat
  /\ MaxDeletePerRunGb <= MaxU64
  /\ DryRun \in BOOLEAN

CapReached == "deletion_cap_reached"

(* saturating_mul of the configured GiB by BYTES_PER_GIB. *)
MaxDeleteBytes ==
  IF MaxDeletePerRunGb * BytesPerGib > MaxU64
  THEN MaxU64
  ELSE MaxDeletePerRunGb * BytesPerGib

PlannedAction == [candidate : Candidate, dry_run : BOOLEAN]
SkipReasons ==
  Reasons \cup {CapReached, "candidate_backend_mismatch",
                "candidate_size_unknown"}
SkippedCandidate == [candidate : Candidate, reason : SkipReasons]

PlanState ==
  [remaining : Nat,
   reserved  : BOOLEAN,
   actions   : Seq(PlannedAction),
   skipped   : Seq(SkippedCandidate)]

InitialPlan ==
  [remaining |-> MaxDeleteBytes, reserved |-> FALSE,
   actions |-> <<>>, skipped |-> <<>>]

Skip(plan, c, why) ==
  [plan EXCEPT !.skipped = Append(@, [candidate |-> c, reason |-> why])]

Take(plan, c, left) ==
  [plan EXCEPT !.actions = Append(@, [candidate |-> c, dry_run |-> DryRun]),
               !.remaining = left]

(* Mutated form of ReserveForUnknown: the reservation leaves the budget.    *)
UnknownKeepsBudget(plan, c) ==
  IF plan.remaining = 0 \/ plan.reserved
  THEN Skip(plan, c, CapReached)
  ELSE [Take(plan, c, plan.remaining) EXCEPT !.reserved = TRUE]

(* A candidate of unknown size is taken at most once per plan, and reserves *)
(* all that is left of the budget.                                          *)
ReserveForUnknown(plan, c) ==
  IF plan.remaining = 0 \/ plan.reserved
  THEN Skip(plan, c, IF plan.remaining = 0 THEN CapReached
                                           ELSE "candidate_size_unknown")
  ELSE [Take(plan, c, 0) EXCEPT !.reserved = TRUE]

(* Mutated forms of SpendOnKnown: no comparison with the budget; the chunk  *)
(* leaves the budget unspent; a candidate that fits exactly is skipped.     *)
SpendUnchecked(plan, c) == Take(plan, c, plan.remaining - c.size_bytes)

ChunkKeepsBudget(plan, c) ==
  IF c.size_bytes <= plan.remaining
  THEN Take(plan, c, plan.remaining - c.size_bytes)
  ELSE IF c.resource_kind = "BuildCache" /\ plan.remaining > 0
  THEN Take(plan, [c EXCEPT !.size_bytes = plan.remaining], plan.remaining)
  ELSE Skip(plan, c, CapReached)

SkipExactFit(plan, c) ==
  IF c.size_bytes < plan.remaining
  THEN Take(plan, c, plan.remaining - c.size_bytes)
  ELSE IF c.resource_kind = "BuildCache" /\ plan.remaining > 0
  THEN Take(plan, [c EXCEPT !.size_bytes = plan.remaining], 0)
  ELSE Skip(plan, c, CapReached)

(* Build cache is the one kind that may be deleted in part: what does not   *)
(* fit is cut down to the rest of the budget.                               *)
SpendOnKnown(plan, c) ==
  IF c.size_bytes <= plan.remaining
  THEN Take(plan, c, plan.remaining - c.size_bytes)
  ELSE IF c.resource_kind = "BuildCache" /\ plan.remaining > 0
  THEN Take(plan, [c EXCEPT !.size_bytes = plan.remaining], 0)
  ELSE Skip(plan, c, CapReached)

(* One iteration of the loop over the candidates. *)
PlanCandidate(plan, c) ==
  IF RejectionReason(c) # None THEN Skip(plan, c, RejectionReason(c))
  ELSE IF c.backend # RequestBackend
  THEN Skip(plan, c, "candidate_backend_mismatch")
  ELSE IF c.size_bytes = None
  THEN ReserveForUnknown(plan, c)
  ELSE SpendOnKnown(plan, c)

-----------------------------------------------------------------------------
(* What the policy promises about a planned action, said without its order  *)
(* of checks: everything about it is known, nothing uses, refers to or      *)
(* protects it, and it is old enough.  An allowlist entry protects whatever *)
(* blanks surround it.                                                      *)
Listed(names, allowlist) ==
  \E n \in names, entry \in allowlist :
    n # None /\ Trim[n] = Trim[entry] /\ Trim[n] # Blank

ProvablySafe(c) ==
  /\ c.metadata_complete /\ ~c.metadata_ambiguous /\ ~c.protected
  /\ c.in_use = "no" /\ c.referenced = "no"
  /\ c.age_days # None /\ c.age_days >= MinUnusedAgeDays
  /\ c.backend = RequestBackend
  /\ c.resource_kind = "Image" =>
       ~Listed({c.identifier, c.display_name}, ProtectedImages)
  /\ c.resource_kind = "Volume" =>
       ~Listed({c.identifier, c.display_name}, ProtectedVolumes)
  /\ ~Listed(c.labels, ProtectedLabels)
=============================================================================
