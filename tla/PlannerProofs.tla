---------------------------- MODULE PlannerProofs ----------------------------
(***************************************************************************)
(* The policy accepts what is provably safe and nothing else, and lemmas    *)
(* about one iteration of the planner's loop (Planner), on which the proofs *)
(* about PlannerLoop, Scheduler and BuildCache rest.                        *)
(***************************************************************************)
EXTENDS Planner, TLAPS

(* A candidate without a rejection reason, of the backend of the request,   *)
(* is provably safe to delete: the ordered checks of rejection_reason leave *)
(* no gap.                                                                  *)
LEMMA AcceptedIsSafe ==
  ASSUME NEW c \in Candidate,
         RejectionReason(c) = None, c.backend = RequestBackend
  PROVE  ProvablySafe(c)
<1> USE PolicyAssumption DEF PolicyAssumption, Reasons
<1>1. /\ c.metadata_complete
      /\ ~c.metadata_ambiguous
      /\ ~c.protected
  BY DEF RejectionReason, Candidate
<1>p. /\ ~IsProtectedImage(c)
      /\ ~IsProtectedVolume(c)
      /\ ~MatchesProtectedLabel(c)
  BY <1>1 DEF RejectionReason
<1>u. c.in_use \notin {"yes", "unknown"}
  BY <1>1, <1>p DEF RejectionReason
<1>r. c.referenced \notin {"yes", "unknown"}
  BY <1>1, <1>p, <1>u DEF RejectionReason
<1>a. c.age_days # None /\ ~(c.age_days < MinUnusedAgeDays)
  BY <1>1, <1>p, <1>u, <1>r DEF RejectionReason
<1>2. /\ c.in_use = "no" /\ c.referenced = "no"
      /\ c.age_days >= MinUnusedAgeDays
  BY <1>u, <1>r, <1>a DEF Candidate, Flags
<1>3. ASSUME NEW allowlist, ~NameMatches(c, allowlist)
      PROVE  ~Listed({c.identifier, c.display_name}, allowlist)
  BY <1>3 DEF NameMatches, ValueMatchesAllowlist, Listed
<1>4. ~Listed(c.labels, ProtectedLabels)
  BY <1>p DEF MatchesProtectedLabel, ValueMatchesAllowlist, Listed
<1> QED
  BY <1>1, <1>p, <1>a, <1>2, <1>3, <1>4
     DEF ProvablySafe, IsProtectedImage, IsProtectedVolume

(* The policy is exact: of the candidates of the request's backend those    *)
(* and only those that are provably safe have no rejection reason.  The     *)
(* fail-closed checks of policy.rs reject nothing they need not.            *)
THEOREM PolicyIsExact ==
  ASSUME NEW c \in Candidate, c.backend = RequestBackend
  PROVE  RejectionReason(c) = None <=> ProvablySafe(c)
<1> USE PolicyAssumption DEF PolicyAssumption
<1> SUFFICES ASSUME ProvablySafe(c) PROVE RejectionReason(c) = None
  BY AcceptedIsSafe
<1>1. /\ c.metadata_complete /\ ~c.metadata_ambiguous /\ ~c.protected
      /\ c.in_use = "no" /\ c.referenced = "no"
      /\ c.age_days \in Nat /\ c.age_days >= MinUnusedAgeDays
  BY DEF ProvablySafe, Candidate
<1>2. /\ c.identifier \in Text /\ c.display_name \in Text \cup {None}
      /\ c.labels \subseteq Text
  BY DEF Candidate
<1>3. ASSUME NEW allowlist, NameMatches(c, allowlist)
      PROVE  Listed({c.identifier, c.display_name}, allowlist)
  BY <1>2, <1>3 DEF NameMatches, ValueMatchesAllowlist, Listed
<1>4. ~IsProtectedImage(c) /\ ~IsProtectedVolume(c)
  BY <1>3 DEF ProvablySafe, IsProtectedImage, IsProtectedVolume
<1>5. ~MatchesProtectedLabel(c)
  <2> SUFFICES ASSUME NEW label \in c.labels,
                      ValueMatchesAllowlist(label, ProtectedLabels)
               PROVE  Listed(c.labels, ProtectedLabels)
    BY DEF ProvablySafe, MatchesProtectedLabel
  <2> QED BY <1>2 DEF ValueMatchesAllowlist, Listed
<1>6. ~(c.age_days < MinUnusedAgeDays) /\ c.age_days # None
  BY <1>1
<1> QED BY <1>1, <1>4, <1>5, <1>6 DEF RejectionReason

(* What one iteration of the loop may do: skip the candidate, for the cap   *)
(* only when it does not fit; take it whole; take it with the rest of the   *)
(* budget because its size is unknown; or take a chunk of it.               *)
CapJustified(p, c) ==
  /\ c.size_bytes # None => p.remaining < c.size_bytes
  /\ c.size_bytes = None \/ c.resource_kind = "BuildCache" => p.remaining = 0

Skipped(p, c, q) ==
  \E why \in SkipReasons :
    q = Skip(p, c, why) /\ (why = CapReached => CapJustified(p, c))

TakenWhole(p, c, q) ==
  /\ c.size_bytes \in Nat /\ c.size_bytes <= p.remaining
  /\ q = Take(p, c, p.remaining - c.size_bytes)

TakenUnknown(p, c, q) ==
  /\ c.size_bytes = None /\ p.remaining # 0 /\ ~p.reserved
  /\ q = [Take(p, c, 0) EXCEPT !.reserved = TRUE]

TakenInPart(p, c, q) ==
  /\ p.remaining > 0
  /\ q = Take(p, [c EXCEPT !.size_bytes = p.remaining], 0)

Taken(p, c, q) ==
  \/ TakenWhole(p, c, q)
  \/ TakenUnknown(p, c, q)
  \/ TakenInPart(p, c, q)

LEMMA PlanCandidateCases ==
  ASSUME NEW p \in PlanState, NEW c \in Candidate,
         NEW q, q = PlanCandidate(p, c)
  PROVE  Skipped(p, c, q) \/ (ProvablySafe(c) /\ Taken(p, c, q))
<1> USE DEF SkipReasons
<1>0. p.remaining \in Nat /\ c.size_bytes \in Nat \cup {None}
  BY DEF PlanState, Candidate
<1>1. CASE RejectionReason(c) # None
  <2>1. RejectionReason(c) \in Reasons
    BY <1>1 DEF RejectionReason, Reasons
  <2>2. CapReached \notin Reasons
    BY DEF Reasons, CapReached
  <2>3. q = Skip(p, c, RejectionReason(c))
    BY <1>1 DEF PlanCandidate
  <2> QED BY <2>1, <2>2, <2>3 DEF Skipped
<1>2. CASE RejectionReason(c) = None /\ c.backend # RequestBackend
  <2>1. "candidate_backend_mismatch" # CapReached BY DEF CapReached
  <2>2. q = Skip(p, c, "candidate_backend_mismatch")
    BY <1>2 DEF PlanCandidate
  <2> QED BY <2>1, <2>2 DEF Skipped
<1>3. CASE RejectionReason(c) = None /\ c.backend = RequestBackend
  <2>1. ProvablySafe(c) BY <1>3, AcceptedIsSafe
  <2>2. CASE c.size_bytes = None
    <3>1. q = ReserveForUnknown(p, c) BY <1>3, <2>2 DEF PlanCandidate
    <3>2. CASE p.remaining = 0
      BY <3>1, <3>2, <2>2 DEF ReserveForUnknown, Skipped, CapJustified, CapReached
    <3>3. CASE p.remaining # 0 /\ p.reserved
      <4>1. q = Skip(p, c, "candidate_size_unknown")
        BY <3>1, <3>3 DEF ReserveForUnknown
      <4> QED BY <4>1 DEF Skipped, CapReached
    <3>4. CASE p.remaining # 0 /\ ~p.reserved
      BY <3>1, <3>4, <2>1, <2>2 DEF ReserveForUnknown, TakenUnknown, Taken
    <3> QED BY <3>2, <3>3, <3>4
  <2>3. CASE c.size_bytes # None
    <3>1. q = SpendOnKnown(p, c) BY <1>3, <2>3 DEF PlanCandidate
    <3>2. CASE c.size_bytes <= p.remaining
      BY <3>1, <3>2, <2>1, <2>3, <1>0 DEF SpendOnKnown, TakenWhole, Taken
    <3>3. CASE ~(c.size_bytes <= p.remaining)
                 /\ c.resource_kind = "BuildCache" /\ p.remaining > 0
      BY <3>1, <3>3, <2>1 DEF SpendOnKnown, TakenInPart, Taken
    <3>4. CASE ~(c.size_bytes <= p.remaining)
                 /\ ~(c.resource_kind = "BuildCache" /\ p.remaining > 0)
      <4>1. q = Skip(p, c, CapReached) BY <3>1, <3>4 DEF SpendOnKnown
      <4>2. CapJustified(p, c) BY <3>4, <1>0, <2>3 DEF CapJustified
      <4> QED BY <4>1, <4>2 DEF Skipped, CapReached
    <3> QED BY <3>2, <3>3, <3>4
  <2> QED BY <2>2, <2>3
<1> QED BY <1>1, <1>2, <1>3

(* Seen from the plan, an action is appended either with a known cost, paid *)
(* from the budget, or with an unknown one, which closes the budget.        *)
Appends(p, d, q) ==
  /\ q.actions = Append(p.actions, [candidate |-> d, dry_run |-> DryRun])
  /\ q.skipped = p.skipped
  /\ \/ /\ d.size_bytes \in Nat /\ d.size_bytes <= p.remaining
        /\ q.remaining = p.remaining - d.size_bytes
        /\ q.reserved = p.reserved
     \/ /\ d.size_bytes = None /\ p.remaining # 0 /\ ~p.reserved
        /\ q.remaining = 0
        /\ q.reserved

LEMMA TakeFields ==
  ASSUME NEW p \in PlanState, NEW d \in Candidate, NEW left \in Nat
  PROVE  /\ Take(p, d, left) \in PlanState
         /\ Take(p, d, left).actions
              = Append(p.actions, [candidate |-> d, dry_run |-> DryRun])
         /\ Take(p, d, left).skipped = p.skipped
         /\ Take(p, d, left).remaining = left
         /\ Take(p, d, left).reserved = p.reserved
<1>1. [candidate |-> d, dry_run |-> DryRun] \in PlannedAction
  BY PlannerAssumption DEF PlannerAssumption, PlannedAction
<1>2. Append(p.actions, [candidate |-> d, dry_run |-> DryRun])
        \in Seq(PlannedAction)
  BY <1>1 DEF PlanState
<1> QED BY <1>2 DEF Take, PlanState

LEMMA TakenAppends ==
  ASSUME NEW p \in PlanState, NEW c \in Candidate, ProvablySafe(c),
         NEW q, Taken(p, c, q)
  PROVE  /\ q \in PlanState
         /\ \E d \in Candidate : ProvablySafe(d) /\ Appends(p, d, q)
<1>0. p.remaining \in Nat
  BY DEF PlanState
<1>1. CASE TakenWhole(p, c, q)
  <2>1. p.remaining - c.size_bytes \in Nat
    BY <1>0, <1>1 DEF TakenWhole
  <2> QED BY <1>1, <2>1, TakeFields DEF TakenWhole, Appends
<1>2. CASE TakenUnknown(p, c, q)
  <2>0. PICK left \in Nat : left = 0
    OBVIOUS
  <2> DEFINE r == Take(p, c, left)
  <2>1. /\ r \in PlanState /\ r.skipped = p.skipped /\ r.remaining = left
        /\ r.actions = Append(p.actions, [candidate |-> c, dry_run |-> DryRun])
    BY TakeFields
  <2> HIDE DEF r
  <2>2. q = [r EXCEPT !.reserved = TRUE]
    BY <1>2, <2>0 DEF TakenUnknown, r
  <2>3. /\ q \in PlanState /\ q.reserved
        /\ q.actions = r.actions /\ q.skipped = r.skipped
        /\ q.remaining = r.remaining
    BY <2>1, <2>2 DEF PlanState
  <2> QED BY <1>2, <2>0, <2>1, <2>3 DEF TakenUnknown, Appends
<1>3. CASE TakenInPart(p, c, q)
  <2>0. PICK left \in Nat : left = 0
    OBVIOUS
  <2> DEFINE d == [c EXCEPT !.size_bytes = p.remaining]
  <2>1. d \in Candidate /\ d.size_bytes = p.remaining
    BY <1>0 DEF Candidate
  <2>2. ProvablySafe(d)
    BY DEF ProvablySafe, Candidate
  <2> HIDE DEF d
  <2>3. q = Take(p, d, left)
    BY <1>3, <2>0 DEF TakenInPart, d
  <2>4. /\ q \in PlanState
        /\ q.actions = Append(p.actions, [candidate |-> d, dry_run |-> DryRun])
        /\ q.skipped = p.skipped /\ q.remaining = left
        /\ q.reserved = p.reserved
    BY <2>1, <2>3, TakeFields
  <2>5. Appends(p, d, q)
    BY <1>0, <2>0, <2>1, <2>4 DEF Appends
  <2> QED BY <2>1, <2>2, <2>4, <2>5
<1> QED BY <1>1, <1>2, <1>3 DEF Taken

LEMMA SkippedTyped ==
  ASSUME NEW p \in PlanState, NEW c \in Candidate, NEW q, Skipped(p, c, q)
  PROVE  q \in PlanState /\ q.actions = p.actions
<1>1. PICK why \in SkipReasons : q = Skip(p, c, why)
  BY DEF Skipped
<1>2. [candidate |-> c, reason |-> why] \in SkippedCandidate
  BY DEF SkippedCandidate
<1>3. Append(p.skipped, [candidate |-> c, reason |-> why])
        \in Seq(SkippedCandidate)
  BY <1>2 DEF PlanState
<1> QED BY <1>1, <1>3 DEF Skip, PlanState

LEMMA InitialPlanTyped == InitialPlan \in PlanState
<1>1. MaxDeleteBytes \in Nat
  BY PlannerAssumption DEF PlannerAssumption, MaxDeleteBytes
<1> QED BY <1>1 DEF InitialPlan, PlanState

(* The planner's pass stays well-typed. *)
LEMMA PlanCandidateTyped ==
  ASSUME NEW p \in PlanState, NEW c \in Candidate
  PROVE  PlanCandidate(p, c) \in PlanState
BY PlanCandidateCases, SkippedTyped, TakenAppends
=============================================================================
