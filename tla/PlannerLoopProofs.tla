------------------------- MODULE PlannerLoopProofs -------------------------
(***************************************************************************)
(* Proofs about PlannerLoop, for every list of candidates, every cap and    *)
(* every configuration of the policy.                                       *)
(***************************************************************************)
EXTENDS PlannerLoop, PlannerProofs

-----------------------------------------------------------------------------
(* An unknown size in the plan implies the reservation: with it the three   *)
(* budget properties are inductive.                                         *)
UnknownReserves ==
  \A i \in DOMAIN plan.actions : Unknown(plan.actions[i]) => plan.reserved

IInv ==
  /\ TypeOK
  /\ BudgetAccounted
  /\ UnknownReserves
  /\ UnknownClosesBudget
  /\ NoNeedlessSkip
  /\ OnlySafePlanned

LEMMA InitIInv == Init => IInv
<1> USE PlannerAssumption DEF PlannerAssumption
<1>1. MaxDeleteBytes \in Nat
  BY DEF MaxDeleteBytes
<1> SUFFICES ASSUME Init PROVE IInv
  OBVIOUS
<1>2. InitialPlan \in PlanState
  BY <1>1 DEF InitialPlan, PlanState
<1>3. TypeOK
  BY <1>2, CandidateListsAssumption DEF Init, TypeOK
<1>4. BudgetAccounted
  BY <1>1 DEF Init, InitialPlan, BudgetAccounted
<1> QED
  BY <1>3, <1>4 DEF Init, InitialPlan, IInv, UnknownReserves,
     UnknownClosesBudget, NoNeedlessSkip, OnlySafePlanned

(* The iteration that skips a candidate. *)
LEMMA SkipKeepsIInv ==
  ASSUME IInv, Visit, NEW c \in Candidate, Skipped(plan, c, plan')
  PROVE  BudgetAccounted' /\ UnknownReserves' /\ UnknownClosesBudget'
           /\ NoNeedlessSkip' /\ OnlySafePlanned'
<1>1. PICK why \in SkipReasons :
        /\ plan' = Skip(plan, c, why)
        /\ why = CapReached => CapJustified(plan, c)
  BY DEF Skipped
<1> DEFINE entry == [candidate |-> c, reason |-> why]
<1>2. /\ plan'.actions = plan.actions
      /\ plan'.skipped = Append(plan.skipped, entry)
      /\ plan'.remaining = plan.remaining
      /\ plan'.reserved = plan.reserved
  BY <1>1 DEF Skip, IInv, TypeOK, PlanState
<1>3. planned' = planned
  BY <1>2 DEF Visit
<1>4. NoNeedlessSkip'
  <2> SUFFICES ASSUME NEW i \in DOMAIN plan'.skipped,
                      plan'.skipped[i].reason = CapReached
               PROVE  CapJustified(plan', plan'.skipped[i].candidate)
    BY DEF NoNeedlessSkip, CapJustified
  <2>1. plan.skipped \in Seq(SkippedCandidate)
    BY DEF IInv, TypeOK, PlanState
  <2>2. CASE i = Len(plan.skipped) + 1
    BY <2>1, <2>2, <1>1, <1>2 DEF CapJustified
  <2>3. CASE i \in DOMAIN plan.skipped
    BY <2>1, <2>3, <1>2 DEF CapJustified, IInv, NoNeedlessSkip
  <2> QED BY <2>1, <2>2, <2>3, <1>2
<1> QED
  BY <1>2, <1>3, <1>4 DEF IInv, BudgetAccounted, UnknownReserves,
     UnknownClosesBudget, OnlySafePlanned

(* The iteration that plans one. *)
LEMMA TakeKeepsIInv ==
  ASSUME IInv, Visit, TypeOK',
         NEW d \in Candidate, ProvablySafe(d), Appends(plan, d, plan')
  PROVE  BudgetAccounted' /\ UnknownReserves' /\ UnknownClosesBudget'
           /\ NoNeedlessSkip' /\ OnlySafePlanned'
<1> DEFINE action == [candidate |-> d, dry_run |-> DryRun]
           n == Len(plan.actions)
<1> USE PolicyAssumption DEF PolicyAssumption
<1>1. /\ plan.actions \in Seq(PlannedAction)
      /\ plan.remaining \in Nat /\ planned \in Nat
      /\ plan.reserved \in BOOLEAN
      /\ d.size_bytes \in Nat \cup {None}
  BY DEF IInv, TypeOK, PlanState, Candidate
<1>2. plan'.actions = Append(plan.actions, action) /\ plan'.skipped = plan.skipped
  BY DEF Appends
<1>3. /\ DOMAIN plan'.actions = 1 .. n + 1
      /\ DOMAIN plan.actions = 1 .. n
      /\ n \in Nat
      /\ plan'.actions[n + 1] = action
      /\ \A i \in 1 .. n : plan'.actions[i] = plan.actions[i]
  BY <1>1, <1>2
<1>4. planned' = planned + KnownBytes(action)
  <2>1. Len(plan'.actions) = n + 1 BY <1>1, <1>2
  <2> QED BY <2>1, <1>3 DEF Visit
<1>5. BudgetAccounted'
  <2>1. CASE d.size_bytes \in Nat
    <3>1. KnownBytes(action) = d.size_bytes
      BY <2>1 DEF KnownBytes
    <3>2. /\ plan'.remaining = plan.remaining - d.size_bytes
          /\ plan'.reserved = plan.reserved /\ d.size_bytes <= plan.remaining
      BY <2>1 DEF Appends
    <3>3. MaxDeleteBytes \in Nat
      BY PlannerAssumption DEF PlannerAssumption, MaxDeleteBytes
    <3> QED BY <2>1, <3>1, <3>2, <3>3, <1>1, <1>4 DEF IInv, BudgetAccounted
  <2>2. CASE d.size_bytes = None
    <3>1. KnownBytes(action) = 0
      BY <2>2 DEF KnownBytes
    <3>2. plan'.remaining = 0 /\ plan'.reserved /\ ~plan.reserved
      BY <2>2 DEF Appends
    <3> QED BY <3>1, <3>2, <1>1, <1>4 DEF IInv, BudgetAccounted
  <2> QED BY <2>1, <2>2, <1>1
<1>6. UnknownReserves'
  BY <1>3 DEF IInv, UnknownReserves, Appends, Unknown
<1>7. UnknownClosesBudget'
  <2>1. ASSUME NEW i \in 1 .. n, Unknown(plan.actions[i])
        PROVE  d.size_bytes = 0
    <3>1. plan.reserved /\ plan.remaining = 0
      BY <1>3, <2>1 DEF IInv, UnknownReserves, BudgetAccounted
    <3> QED BY <3>1, <1>1 DEF Appends
  <2>2. ASSUME NEW i \in 1 .. n + 1, NEW j \in 1 .. n + 1, i < j,
               Unknown(plan'.actions[i])
        PROVE  plan'.actions[j].candidate.size_bytes = 0
    <3>1. i \in 1 .. n /\ Unknown(plan.actions[i])
      BY <1>3, <2>2 DEF Unknown
    <3>2. CASE j = n + 1
      BY <1>3, <2>1, <3>1, <3>2
    <3>3. CASE j \in 1 .. n
      BY <1>3, <2>2, <3>1, <3>3 DEF IInv, UnknownClosesBudget
    <3> QED BY <1>3, <3>2, <3>3
  <2> QED BY <1>3, <2>2 DEF UnknownClosesBudget, Unknown
<1>8. NoNeedlessSkip'
  <2> SUFFICES ASSUME NEW i \in DOMAIN plan.skipped,
                      plan.skipped[i].reason = CapReached
               PROVE  CapJustified(plan', plan.skipped[i].candidate)
    BY <1>2 DEF NoNeedlessSkip, CapJustified
  <2>1. CapJustified(plan, plan.skipped[i].candidate)
    BY DEF IInv, NoNeedlessSkip, CapJustified
  <2>2. plan.skipped[i].candidate.size_bytes \in Nat \cup {None}
    <3>1. plan.skipped[i] \in SkippedCandidate
      BY DEF IInv, TypeOK, PlanState
    <3> QED BY <3>1 DEF SkippedCandidate, Candidate
  <2>3. /\ plan'.remaining \in Nat /\ plan'.remaining <= plan.remaining
    BY <1>1 DEF Appends
  <2> QED BY <2>1, <2>2, <2>3, <1>1 DEF CapJustified
<1>9. OnlySafePlanned'
  <2>1. ProvablySafe(d)' BY DEF ProvablySafe, Listed
  <2> QED BY <1>3, <2>1 DEF IInv, OnlySafePlanned
<1> QED BY <1>5, <1>6, <1>7, <1>8, <1>9

LEMMA VisitKeepsIInv == IInv /\ Visit => IInv'
<1> SUFFICES ASSUME IInv, Visit PROVE IInv'
  OBVIOUS
<1> DEFINE c == candidates[visited + 1]
<1>1. /\ candidates \in Seq(Candidate) /\ visited \in Nat
      /\ visited < Len(candidates)
      /\ plan \in PlanState
  BY CandidateListsAssumption DEF IInv, TypeOK, Visit
<1>2. c \in Candidate
  BY <1>1
<1>3. Skipped(plan, c, plan') \/ (ProvablySafe(c) /\ Taken(plan, c, plan'))
  BY <1>1, <1>2, PlanCandidateCases DEF Visit
<1>4. plan' \in PlanState
  BY <1>1, <1>2, <1>3, SkippedTyped, TakenAppends
<1>5. TypeOK'
  <2>1. Len(plan'.actions) # Len(plan.actions) =>
          KnownBytes(plan'.actions[Len(plan'.actions)]) \in Nat
    <3> SUFFICES ASSUME Len(plan'.actions) # Len(plan.actions)
                 PROVE  KnownBytes(plan'.actions[Len(plan'.actions)]) \in Nat
      OBVIOUS
    <3>1. plan'.actions \in Seq(PlannedAction) /\ plan.actions \in Seq(PlannedAction)
      BY <1>1, <1>4 DEF PlanState
    <3>2. ~Skipped(plan, c, plan')
      BY <1>1, <1>2, SkippedTyped
    <3>3. PICK d \in Candidate : Appends(plan, d, plan')
      BY <1>1, <1>2, <1>3, <3>2, TakenAppends
    <3>4. plan'.actions[Len(plan'.actions)] \in PlannedAction
      BY <3>1, <3>3 DEF Appends
    <3> QED BY <3>4 DEF KnownBytes, PlannedAction, Candidate
  <2> QED BY <1>1, <1>4, <2>1 DEF TypeOK, Visit, IInv
<1>6. CASE Skipped(plan, c, plan')
  BY <1>2, <1>5, <1>6, SkipKeepsIInv DEF IInv
<1>7. CASE ProvablySafe(c) /\ Taken(plan, c, plan')
  <2>1. PICK d \in Candidate : ProvablySafe(d) /\ Appends(plan, d, plan')
    BY <1>1, <1>2, <1>7, TakenAppends
  <2> QED BY <1>5, <2>1, TakeKeepsIInv DEF IInv
<1> QED BY <1>3, <1>6, <1>7

THEOREM Invariance == Spec => []IInv
<1>1. IInv /\ UNCHANGED vars => IInv'
  BY DEF IInv, vars, TypeOK, BudgetAccounted, UnknownReserves,
     UnknownClosesBudget, NoNeedlessSkip, OnlySafePlanned
<1> QED BY <1>1, InitIInv, VisitKeepsIInv, PTL DEF Spec

(* The planner's state stays well-typed: budget, actions and skips. *)
THEOREM TypeCorrect == Spec => []TypeOK
BY Invariance, PTL DEF IInv

(* No plan goes past the configured deletion cap (planner.rs, the two       *)
(* budget variables), for every list of candidates and every cap.           *)
THEOREM CapHolds == Spec => []BudgetAccounted
BY Invariance, PTL DEF IInv

(* At most one candidate of unknown size is planned, and nothing that costs *)
(* a byte after it (planner.rs, the unknown-size fallback).                 *)
THEOREM UnknownIsLast == Spec => []UnknownClosesBudget
BY Invariance, PTL DEF IInv

(* The cap never skips a candidate the remaining budget would pay for       *)
(* (planner.rs, the size comparison and the build-cache chunk).             *)
THEOREM CapSkipsOnlyMisfits == Spec => []NoNeedlessSkip
BY Invariance, PTL DEF IInv

(* Every planned action is provably safe: the ordered fail-closed checks of *)
(* policy.rs and the backend check of planner.rs leave no gap.              *)
THEOREM PlansOnlySafe == Spec => []OnlySafePlanned
BY Invariance, PTL DEF IInv

-----------------------------------------------------------------------------
(* A provably safe candidate is skipped for the budget alone: a plan leaves *)
(* it out only because it does not fit into what the cap allows, or because *)
(* its size is unknown and the plan already holds one of unknown size       *)
(* (planner.rs, the skip reasons; nothing safe is lost to the policy or to  *)
(* the backend check).                                                      *)
SafeSkippedForBudget ==
  \A i \in DOMAIN plan.skipped :
    ProvablySafe(plan.skipped[i].candidate) =>
      plan.skipped[i].reason \in {CapReached, "candidate_size_unknown"}

LEMMA SkipOfSafe ==
  ASSUME NEW p \in PlanState, NEW c \in Candidate, NEW q, q = PlanCandidate(p, c)
  PROVE  \/ q.skipped = p.skipped
         \/ \E why \in SkipReasons :
              /\ q.skipped = Append(p.skipped, [candidate |-> c, reason |-> why])
              /\ ProvablySafe(c) => why \in {CapReached, "candidate_size_unknown"}
<1> USE DEF PlanState, SkipReasons, Skip, Take
<1>1. CASE RejectionReason(c) # None
  <2>1. RejectionReason(c) \in Reasons
    BY <1>1 DEF RejectionReason, Reasons
  <2>2. ~ProvablySafe(c)
    BY <1>1, PolicyIsExact DEF ProvablySafe
  <2>3. q.skipped = Append(p.skipped, [candidate |-> c, reason |-> RejectionReason(c)])
    BY <1>1 DEF PlanCandidate
  <2> QED BY <2>1, <2>2, <2>3
<1>2. CASE RejectionReason(c) = None /\ c.backend # RequestBackend
  <2>1. ~ProvablySafe(c)
    BY <1>2 DEF ProvablySafe
  <2>2. q.skipped = Append(p.skipped,
                [candidate |-> c, reason |-> "candidate_backend_mismatch"])
    BY <1>2 DEF PlanCandidate
  <2> QED BY <2>1, <2>2
<1>3. CASE RejectionReason(c) = None /\ c.backend = RequestBackend
  <2>1. CASE c.size_bytes = None
    BY <1>3, <2>1 DEF PlanCandidate, ReserveForUnknown
  <2>2. CASE c.size_bytes # None
    BY <1>3, <2>2 DEF PlanCandidate, SpendOnKnown
  <2> QED BY <2>1, <2>2
<1> QED BY <1>1, <1>2, <1>3

(* For every list of candidates and every cap (planner.rs, the loop over   *)
(* the candidates; policy.rs, the checks).                                 *)
THEOREM SafeIsSkippedForBudget == Spec => []SafeSkippedForBudget
<1>1. Init => SafeSkippedForBudget
  BY DEF Init, InitialPlan, SafeSkippedForBudget
<1>2. TypeOK /\ SafeSkippedForBudget /\ [Visit]_vars => SafeSkippedForBudget'
  <2> SUFFICES ASSUME TypeOK, SafeSkippedForBudget, [Visit]_vars,
                      NEW i \in DOMAIN plan'.skipped,
                      ProvablySafe(plan'.skipped[i].candidate)
               PROVE  plan'.skipped[i].reason \in {CapReached, "candidate_size_unknown"}
    BY DEF SafeSkippedForBudget, ProvablySafe, Listed
  <2>1. plan.skipped \in Seq(SkippedCandidate) /\ plan \in PlanState
    BY DEF TypeOK, PlanState
  <2>2. CASE plan'.skipped = plan.skipped
    BY <2>2 DEF SafeSkippedForBudget
  <2>3. CASE plan'.skipped # plan.skipped
    <3> DEFINE c == candidates[visited + 1]
    <3>1. Visit
      BY <2>3 DEF vars
    <3>2. c \in Candidate
      BY <3>1, CandidateListsAssumption DEF TypeOK, Visit
    <3>3. PICK why :
            /\ plan'.skipped = Append(plan.skipped, [candidate |-> c, reason |-> why])
            /\ ProvablySafe(c) => why \in {CapReached, "candidate_size_unknown"}
      BY <2>1, <2>3, <3>1, <3>2, SkipOfSafe DEF Visit
    <3>4. CASE i = Len(plan.skipped) + 1
      BY <2>1, <3>3, <3>4
    <3>5. CASE i \in DOMAIN plan.skipped
      BY <2>1, <3>3, <3>5 DEF SafeSkippedForBudget
    <3> QED BY <2>1, <3>3, <3>4, <3>5
  <2> QED BY <2>2, <2>3
<1> QED BY <1>1, <1>2, TypeCorrect, PTL DEF Spec
=============================================================================
