---------------------------- MODULE PlannerLoop ----------------------------
(***************************************************************************)
(* One call of CleanupPlanner::plan (src/src/planner.rs) as a state         *)
(* machine: each step is one iteration of the loop over the candidates.     *)
(* `planned' is a history variable, the bytes of known size the plan has    *)
(* committed so far; the code keeps only what is left of the budget.        *)
(***************************************************************************)
EXTENDS Planner

CONSTANT CandidateLists   \* what discovery may hand to the planner

ASSUME CandidateListsAssumption == CandidateLists \subseteq Seq(Candidate)

VARIABLES candidates, visited, plan, planned

vars == <<candidates, visited, plan, planned>>

(* Bytes an action is known to reclaim. *)
KnownBytes(action) ==
  IF action.candidate.size_bytes = None THEN 0 ELSE action.candidate.size_bytes

Unknown(action) == action.candidate.size_bytes = None

Init ==
  /\ candidates \in CandidateLists
  /\ visited = 0
  /\ plan = InitialPlan
  /\ planned = 0

Visit ==
  /\ visited < Len(candidates)
  /\ visited' = visited + 1
  /\ plan' = PlanCandidate(plan, candidates[visited + 1])
  /\ planned' = IF Len(plan'.actions) = Len(plan.actions)
                THEN planned
                ELSE planned + KnownBytes(plan'.actions[Len(plan'.actions)])
  /\ UNCHANGED candidates

Spec == Init /\ [][Visit]_vars

-----------------------------------------------------------------------------
TypeOK ==
  /\ candidates \in CandidateLists
  /\ visited \in 0 .. Len(candidates)
  /\ plan \in PlanState
  /\ planned \in Nat

(* The bytes of known size in a plan and what is left of the budget add up  *)
(* to the configured cap until a candidate of unknown size reserves the     *)
(* rest; after that nothing is left.  So no plan, on any list, goes past    *)
(* max_delete_per_run_gb (planner.rs, the two budget variables).            *)
BudgetAccounted ==
  IF plan.reserved
  THEN plan.remaining = 0 /\ planned <= MaxDeleteBytes
  ELSE planned + plan.remaining = MaxDeleteBytes

(* A plan holds at most one candidate of unknown size, and after it only    *)
(* candidates that cost nothing: whatever that one deletes, no later action *)
(* of the plan adds a byte to it (planner.rs, "at most one unknown-size     *)
(* candidate may proceed").                                                 *)
UnknownClosesBudget ==
  \A i, j \in DOMAIN plan.actions :
    i < j /\ Unknown(plan.actions[i]) =>
      plan.actions[j].candidate.size_bytes = 0

(* The cap skips nothing it need not: a candidate skipped for it would not  *)
(* fit in the budget that is left, even at the end of the pass, and build   *)
(* cache is skipped only when no byte is left.                              *)
NoNeedlessSkip ==
  \A i \in DOMAIN plan.skipped :
    LET skip == plan.skipped[i] IN
    skip.reason = CapReached =>
      /\ skip.candidate.size_bytes # None =>
           plan.remaining < skip.candidate.size_bytes
      /\ skip.candidate.size_bytes = None
           \/ skip.candidate.resource_kind = "BuildCache" =>
           plan.remaining = 0

(* Only provably safe candidates are planned. *)
OnlySafePlanned ==
  \A i \in DOMAIN plan.actions : ProvablySafe(plan.actions[i].candidate)
=============================================================================
