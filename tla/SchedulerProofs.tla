--------------------------- MODULE SchedulerProofs ---------------------------
(***************************************************************************)
(* Proofs about Scheduler, for every configuration, every list of           *)
(* candidates and every sequence of answers of the backend: it implements   *)
(* WatermarkGate, deletes only after a clean bill of health, accounts for   *)
(* every action, deletes nothing in a dry run and only what is provably     *)
(* safe otherwise, and has less to do with each of its steps.               *)
(***************************************************************************)
EXTENDS Scheduler, PlannerProofs, WellFoundedInduction

InLoop == pc \in {"loop", "target", "discover", "plan", "execute", "recollect"}

AboveTarget == pc \in {"discover", "plan", "execute", "recollect"}

(* What the place of run_once says about the tick so far. *)
Placed ==
  /\ pc \in {"health", "usage"} =>
       /\ usage = None /\ issued = 0
       /\ ~report.cleanup_started /\ report.iterations = 0
  /\ pc = "target" => report.iterations < IterationLimit
  /\ InLoop => /\ report.cleanup_started
               /\ usage \in Readings /\ PercentUsed(usage) # None
  /\ AboveTarget => Above(usage, TargetWatermark)
  /\ AboveTarget \/ pc \in {"usage", "target"} => vetted
  /\ ~Ended => ~trouble

(* Every planned action is completed, failed or still in the queue.         *)
Accounted ==
  /\ report.actions_planned
       = report.actions_completed + report.action_failures + Len(queue)
  /\ pc # "execute" => queue = <<>>

IInv == TypeOK /\ Placed /\ Accounted /\ DryRunDeletesNothing

LEMMA IterationLimitPositive == IterationLimit \in Nat \ {0}
BY SchedulerAssumption DEF SchedulerAssumption, IterationLimit

(* What the percent says of the bytes it is computed from.                  *)
LEMMA Quotient ==
  ASSUME NEW n \in Nat, NEW d \in Nat, d > 0
  PROVE  /\ n \div d \in Nat /\ (n \div d) * d <= n
         /\ n < (n \div d + 1) * d
OBVIOUS

LEMMA Monotonic ==
  ASSUME NEW a \in Nat, NEW b \in Nat, a <= b, NEW d \in Nat
  PROVE  a * d <= b * d
OBVIOUS

LEMMA PercentTyped ==
  ASSUME NEW s \in Readings, PercentUsed(s) # None
  PROVE  /\ s.used \in Nat /\ s.total \in Nat /\ s.total > 0
         /\ \E q \in Nat :
              /\ PercentUsed(s) = q % 256
              /\ q * s.total <= s.used * 100
              /\ InRange(s) => q <= 100 /\ s.used * 100 < (q + 1) * s.total
<1> DEFINE n == s.used * 100
           h == IF n > MaxU64 THEN MaxU64 ELSE n
           q == h \div s.total
<1>1. s.used \in Nat /\ s.total \in Nat /\ MaxU64 \in Nat
  BY SchedulerAssumption, PlannerAssumption
     DEF SchedulerAssumption, PlannerAssumption
<1>2. s.total # 0 /\ PercentUsed(s) = q % 256 BY DEF PercentUsed
<1>3. n \in Nat /\ h \in Nat /\ h <= n BY <1>1
<1>4. q \in Nat /\ q * s.total <= h /\ h < (q + 1) * s.total
  <2> HIDE DEF h
  <2> QED BY <1>1, <1>2, <1>3, Quotient
<1>5. q * s.total <= n
  <2>1. q * s.total \in Nat
    <3> HIDE DEF q
    <3> QED BY <1>1, <1>4
  <2> HIDE DEF q, h, n
  <2> QED BY <1>3, <1>4, <2>1
<1>6. ASSUME InRange(s) PROVE q <= 100 /\ n < (q + 1) * s.total
  <2>1. n <= s.total * 100 /\ n <= MaxU64 BY <1>1, <1>6 DEF InRange
  <2>2. h = n BY <1>3, <2>1, <1>1
  <2> HIDE DEF q, h, n
  <2>3. 101 <= q => 101 * s.total <= q * s.total BY <1>1, <1>4, Monotonic
  <2>4. q * s.total \in Nat BY <1>1, <1>4
  <2>5. ~(101 <= q) BY <1>1, <1>2, <1>3, <1>5, <2>1, <2>3, <2>4
  <2> QED BY <1>4, <2>2, <2>5
<1> HIDE DEF q
<1> QED BY <1>1, <1>2, <1>4, <1>5, <1>6

(* However percent_used saturates, rounds and cuts down, what it says is at *)
(* or above a watermark is so in bytes; in the range of its arithmetic what *)
(* it says is below is so too.                                              *)
THEOREM PercentFaithful ==
  ASSUME NEW s \in Readings, PercentUsed(s) # None, NEW p \in Nat
  PROVE  /\ PercentUsed(s) \in Nat
         /\ PercentUsed(s) >= p => AtLeast(s, p)
         /\ PercentUsed(s) > p => Above(s, p)
         /\ InRange(s) /\ PercentUsed(s) < p => ~AtLeast(s, p)
<1>1. PICK q \in Nat :
        /\ PercentUsed(s) = q % 256
        /\ q * s.total <= s.used * 100
        /\ InRange(s) => q <= 100 /\ s.used * 100 < (q + 1) * s.total
  BY PercentTyped
<1>2. s.used \in Nat /\ s.total \in Nat /\ s.total > 0 BY PercentTyped
<1>3. q % 256 \in Nat /\ q % 256 <= q /\ (q <= 100 => q % 256 = q) OBVIOUS
<1>4. /\ p * s.total \in Nat /\ (p + 1) * s.total \in Nat
      /\ q * s.total \in Nat /\ (q + 1) * s.total \in Nat
      /\ (p + 1) * s.total = p * s.total + s.total
  BY <1>2
<1>5. p <= q => p * s.total <= q * s.total BY <1>2, Monotonic
<1>6. p + 1 <= q => (p + 1) * s.total <= q * s.total BY <1>2, Monotonic
<1>7. q + 1 <= p => (q + 1) * s.total <= p * s.total BY <1>2, Monotonic
<1>8. PercentUsed(s) >= p => AtLeast(s, p)
  BY <1>1, <1>2, <1>3, <1>4, <1>5 DEF AtLeast
<1>9. PercentUsed(s) > p => Above(s, p)
  BY <1>1, <1>2, <1>3, <1>4, <1>6 DEF Above
<1>10. InRange(s) /\ PercentUsed(s) < p => ~AtLeast(s, p)
  BY <1>1, <1>2, <1>3, <1>4, <1>7 DEF AtLeast
<1> QED BY <1>1, <1>3, <1>8, <1>9, <1>10

LEMMA NewReportTyped ==
  /\ NewReport \in Report
  /\ ~NewReport.cleanup_started
  /\ NewReport.iterations = 0
  /\ NewReport.actions_planned = 0
  /\ NewReport.actions_completed = 0
  /\ NewReport.action_failures = 0
  /\ NewReport.reclaimed_estimated_bytes = 0
<1>1. "BelowHighWatermark" \in StopReasons BY DEF StopReasons
<1>2. 0 \in 0 .. IterationLimit BY IterationLimitPositive
<1> QED BY <1>1, <1>2 DEF NewReport, Report

(* The values of a tick that has not begun. *)
Fresh ==
  /\ pc = "health" /\ report = NewReport /\ usage = None
  /\ pending = <<>> /\ plan = InitialPlan /\ queue = <<>>
  /\ issued = 0 /\ unknowns = 0
  /\ vetted = FALSE /\ trouble = FALSE /\ stale = FALSE

LEMMA FreshIInv == Fresh /\ ticks \in Nat => IInv
<1> SUFFICES ASSUME Fresh, ticks \in Nat PROVE IInv
  OBVIOUS
<1>1. TypeOK
  <2>1. pc \in Locations /\ usage \in Snapshots \cup {None}
    BY DEF Fresh, Locations
  <2>2. /\ report \in Report /\ plan \in PlanState
        /\ pending \in Seq(Candidate) /\ queue \in Seq(PlannedAction)
    BY NewReportTyped, InitialPlanTyped DEF Fresh
  <2>3. /\ issued \in Nat /\ unknowns \in Nat
        /\ vetted \in BOOLEAN /\ trouble \in BOOLEAN /\ stale \in BOOLEAN
    BY DEF Fresh
  <2> QED BY <2>1, <2>2, <2>3 DEF TypeOK
<1>2. Placed
  BY NewReportTyped DEF Fresh, Placed, InLoop, AboveTarget
<1>3. Accounted
  BY NewReportTyped DEF Fresh, Accounted
<1>4. DryRunDeletesNothing
  BY NewReportTyped DEF Fresh, DryRunDeletesNothing
<1> QED BY <1>1, <1>2, <1>3, <1>4 DEF IInv

LEMMA InitIInv == Init => IInv
<1> SUFFICES ASSUME Init PROVE IInv
  OBVIOUS
<1>1. Fresh BY DEF Init, Fresh
<1>2. ticks \in Nat BY DEF Init
<1> QED BY <1>1, <1>2, FreshIInv

(* A return of run_once keeps the report typed and its counters.            *)
LEMMA FinishFields ==
  ASSUME NEW base \in Report, NEW reason \in StopReasons,
         NEW final \in Snapshots \cup {None}, NEW error \in BOOLEAN,
         Finish(reason, final, error, base), ticks \in Nat
  PROVE  /\ report' \in Report /\ ticks' \in Nat
         /\ pc' \in Locations /\ Ended' /\ pc' # "execute"
         /\ report'.actions_planned = base.actions_planned
         /\ report'.actions_completed = base.actions_completed
         /\ report'.action_failures = base.action_failures
         /\ report'.reclaimed_estimated_bytes = base.reclaimed_estimated_bytes
<1>1. pc' \in {"sleeping", "exited"} BY DEF Finish
<1>2. ticks' \in Nat BY DEF Finish
<1>3. report' = [base EXCEPT !.stop_reason = reason, !.final_usage = final,
                             !.last_error = error]
  BY DEF Finish
<1>4. /\ report' \in Report
      /\ report'.actions_planned = base.actions_planned
      /\ report'.actions_completed = base.actions_completed
      /\ report'.action_failures = base.action_failures
      /\ report'.reclaimed_estimated_bytes = base.reclaimed_estimated_bytes
  BY <1>3 DEF Report
<1> QED BY <1>1, <1>2, <1>4 DEF Ended, Locations

(* The other variables of a step that keeps their types. *)
OthersTyped ==
  /\ usage \in Snapshots \cup {None}
  /\ pending \in Seq(Candidate)
  /\ plan \in PlanState
  /\ queue \in Seq(PlannedAction)
  /\ issued \in Nat /\ unknowns \in Nat
  /\ vetted \in BOOLEAN /\ trouble \in BOOLEAN /\ stale \in BOOLEAN

(* A step that ends the tick outside a batch. *)
LEMMA FinishKeepsIInv ==
  ASSUME IInv, OthersTyped', UNCHANGED issued, queue' = <<>>,
         NEW base \in Report, NEW reason \in StopReasons,
         NEW final \in Snapshots \cup {None}, NEW error \in BOOLEAN,
         Finish(reason, final, error, base),
         base.actions_planned = base.actions_completed + base.action_failures,
         base.reclaimed_estimated_bytes = report.reclaimed_estimated_bytes
  PROVE  IInv'
<1>1. /\ report' \in Report /\ ticks' \in Nat
      /\ pc' \in Locations /\ Ended' /\ pc' # "execute"
      /\ report'.actions_planned = base.actions_planned
      /\ report'.actions_completed = base.actions_completed
      /\ report'.action_failures = base.action_failures
      /\ report'.reclaimed_estimated_bytes = base.reclaimed_estimated_bytes
  BY FinishFields DEF IInv, TypeOK
<1>2. TypeOK' BY <1>1 DEF TypeOK, OthersTyped
<1>3. Placed' BY <1>1 DEF Placed, Ended, InLoop, AboveTarget
<1>4. Accounted'
  <2>1. Len(queue') = 0 OBVIOUS
  <2>2. /\ base.actions_completed \in Nat /\ base.action_failures \in Nat
    BY DEF Report
  <2> QED BY <1>1, <2>1, <2>2 DEF Accounted
<1>5. DryRunDeletesNothing' BY <1>1 DEF IInv, DryRunDeletesNothing
<1> QED BY <1>2, <1>3, <1>4, <1>5 DEF IInv

(* Outside a batch the queue is empty and the account is settled. *)
LEMMA SettledAccount ==
  ASSUME IInv, pc # "execute"
  PROVE  /\ report.actions_planned
              = report.actions_completed + report.action_failures
         /\ queue = <<>>
<1>1. queue = <<>> BY DEF IInv, Accounted
<1>2. Len(queue) = 0 BY <1>1
<1>3. /\ report.actions_completed \in Nat /\ report.action_failures \in Nat
  BY DEF IInv, TypeOK, Report
<1> QED BY <1>1, <1>2, <1>3 DEF IInv, Accounted

-----------------------------------------------------------------------------
(* The calls of the backend. *)
LEMMA WakeKeepsIInv == IInv /\ Wake => IInv'
<1>1. IInv /\ Wake => Fresh' /\ (ticks \in Nat)'
  BY DEF Wake, Fresh, IInv, TypeOK
<1> QED BY <1>1, FreshIInv, PTL

(* Any answer to a health check but healthy ends the tick. *)
LEMMA UnhealthyKeepsIInv ==
  ASSUME IInv, pc \in {"health", "loop"}, NEW next,
         NEW answer \in HealthAnswers \ {"healthy"},
         StopUnlessHealthy(answer, next),
         vetted' = (answer = "healthy"),
         trouble' = (trouble \/ answer # "healthy"),
         UNCHANGED <<usage, pending, plan, queue, issued, unknowns, stale>>
  PROVE  IInv'
<1>1. OthersTyped' BY DEF OthersTyped, IInv, TypeOK
<1>2. queue' = <<>> /\ report.actions_planned
                         = report.actions_completed + report.action_failures
  BY SettledAccount
<1>3. report \in Report /\ usage \in Snapshots \cup {None}
  BY DEF IInv, TypeOK
<1>4. /\ "BackendUnhealthy" \in StopReasons
      /\ "HealthCheckFailed" \in StopReasons
  BY DEF StopReasons
<1>5. \/ Finish("BackendUnhealthy", usage, FALSE, report)
      \/ Finish("HealthCheckFailed", usage, TRUE, report)
  BY DEF StopUnlessHealthy, HealthAnswers
<1> QED BY <1>1, <1>2, <1>3, <1>4, <1>5, FinishKeepsIInv

LEMMA CheckHealthKeepsIInv ==
  ASSUME IInv, CheckHealth
  PROVE  IInv'
<1>1. PICK answer \in HealthAnswers :
        /\ StopUnlessHealthy(answer, "usage")
        /\ vetted' = (answer = "healthy")
        /\ trouble' = (trouble \/ answer # "healthy")
  BY DEF CheckHealth
<1>2. CASE answer = "healthy"
  <2>1. pc' = "usage" /\ vetted' /\ (trouble' <=> trouble)
          /\ UNCHANGED <<ticks, report, usage, pending, plan, queue, issued,
                         unknowns, stale>>
    BY <1>1, <1>2 DEF CheckHealth, StopUnlessHealthy, Continue
  <2>2. vetted' \in BOOLEAN /\ trouble' \in BOOLEAN BY <1>1
  <2>3. TypeOK' BY <2>1, <2>2 DEF IInv, TypeOK, Locations
  <2>4. Placed'
    BY <2>1 DEF CheckHealth, IInv, Placed, Ended, InLoop, AboveTarget
  <2>5. Accounted' /\ DryRunDeletesNothing'
    BY <2>1 DEF CheckHealth, IInv, Accounted, DryRunDeletesNothing
  <2> QED BY <2>3, <2>4, <2>5 DEF IInv
<1>3. CASE answer # "healthy"
  BY <1>1, <1>3, UnhealthyKeepsIInv DEF CheckHealth
<1> QED BY <1>2, <1>3

LEMMA RecheckHealthKeepsIInv ==
  ASSUME IInv, RecheckHealth
  PROVE  IInv'
<1>1. PICK answer \in HealthAnswers :
        /\ StopUnlessHealthy(answer, "target")
        /\ vetted' = (answer = "healthy")
        /\ trouble' = (trouble \/ answer # "healthy")
  BY DEF RecheckHealth
<1>2. CASE answer = "healthy"
  <2>1. pc' = "target" /\ vetted' /\ (trouble' <=> trouble)
          /\ UNCHANGED <<ticks, report, usage, pending, plan, queue, issued,
                         unknowns, stale>>
    BY <1>1, <1>2 DEF RecheckHealth, StopUnlessHealthy, Continue
  <2>2. vetted' \in BOOLEAN /\ trouble' \in BOOLEAN BY <1>1
  <2>3. TypeOK' BY <2>1, <2>2 DEF IInv, TypeOK, Locations
  <2>4. Placed'
    BY <2>1 DEF RecheckHealth, IInv, Placed, Ended, InLoop, AboveTarget
  <2>5. Accounted' /\ DryRunDeletesNothing'
    BY <2>1 DEF RecheckHealth, IInv, Accounted, DryRunDeletesNothing
  <2> QED BY <2>3, <2>4, <2>5 DEF IInv
<1>3. CASE answer # "healthy"
  BY <1>1, <1>3, UnhealthyKeepsIInv DEF RecheckHealth
<1> QED BY <1>2, <1>3

(* Calls that fail end the tick. *)
LEMMA FailedCallKeepsIInv ==
  ASSUME IInv, CollectUsageFails \/ DiscoverFails \/ RecollectUsageFails
  PROVE  IInv'
<1>1. OthersTyped'
  BY DEF OthersTyped, IInv, TypeOK, CollectUsageFails, DiscoverFails,
         RecollectUsageFails
<1>2. queue' = <<>> /\ report.actions_planned
                         = report.actions_completed + report.action_failures
  BY SettledAccount DEF CollectUsageFails, DiscoverFails, RecollectUsageFails
<1>3. report \in Report /\ usage \in Snapshots \cup {None}
  BY DEF IInv, TypeOK
<1>4. /\ "UsageCollectionFailed" \in StopReasons
      /\ "CandidateDiscoveryFailed" \in StopReasons
  BY DEF StopReasons
<1>5. \/ Finish("UsageCollectionFailed", None, TRUE, report)
      \/ Finish("UsageCollectionFailed", usage, TRUE, report)
      \/ Finish("CandidateDiscoveryFailed", usage, TRUE, report)
  BY DEF CollectUsageFails, DiscoverFails, RecollectUsageFails
<1>6. UNCHANGED issued
  BY DEF CollectUsageFails, DiscoverFails, RecollectUsageFails
<1> QED BY <1>1, <1>2, <1>3, <1>4, <1>5, <1>6, FinishKeepsIInv

LEMMA CollectUsageKeepsIInv ==
  ASSUME IInv, CollectUsage
  PROVE  IInv'
<1> USE SchedulerAssumption DEF SchedulerAssumption
<1>1. PICK snapshot \in Snapshots :
        LET seen == [report EXCEPT !.initial_usage = snapshot] IN
        /\ usage' = snapshot
        /\ trouble' = (trouble \/ PercentUsed(snapshot) = None)
        /\ IF PercentUsed(snapshot) = None
           THEN Finish("UsagePercentUnknown", snapshot, FALSE, seen)
           ELSE IF ~StartsCleanup(PercentUsed(snapshot))
           THEN Finish("BelowHighWatermark", snapshot, FALSE, seen)
           ELSE /\ report' = [seen EXCEPT !.cleanup_started = TRUE]
                /\ Continue("target")
  BY DEF CollectUsage
<1> DEFINE seen == [report EXCEPT !.initial_usage = snapshot]
<1>2. /\ seen \in Report
      /\ seen.iterations = report.iterations
      /\ seen.actions_planned = report.actions_planned
      /\ seen.actions_completed = report.actions_completed
      /\ seen.action_failures = report.action_failures
      /\ seen.reclaimed_estimated_bytes = report.reclaimed_estimated_bytes
  BY DEF IInv, TypeOK, Report
<1>3. /\ queue = <<>>
      /\ report.actions_planned
           = report.actions_completed + report.action_failures
  BY SettledAccount DEF CollectUsage
<1>4. OthersTyped'
  BY <1>1 DEF OthersTyped, IInv, TypeOK, CollectUsage
<1>5. UNCHANGED <<pending, plan, queue, issued, unknowns, vetted, stale>>
  BY DEF CollectUsage
<1>6. /\ "UsagePercentUnknown" \in StopReasons
      /\ "BelowHighWatermark" \in StopReasons
  BY DEF StopReasons
<1>7. CASE PercentUsed(snapshot) = None \/ ~StartsCleanup(PercentUsed(snapshot))
  <2>1. \/ Finish("UsagePercentUnknown", snapshot, FALSE, seen)
        \/ Finish("BelowHighWatermark", snapshot, FALSE, seen)
    BY <1>1, <1>7
  <2> HIDE DEF seen
  <2> QED BY <1>2, <1>3, <1>4, <1>5, <1>6, <2>1, FinishKeepsIInv
<1>8. CASE PercentUsed(snapshot) # None /\ StartsCleanup(PercentUsed(snapshot))
  <2>1. report' = [seen EXCEPT !.cleanup_started = TRUE]
          /\ pc' = "target" /\ ticks' = ticks
    BY <1>1, <1>8 DEF Continue
  <2> HIDE DEF seen
  <2>2. /\ report' \in Report /\ report'.cleanup_started
        /\ report'.iterations = report.iterations
        /\ report'.actions_planned = report.actions_planned
        /\ report'.actions_completed = report.actions_completed
        /\ report'.action_failures = report.action_failures
        /\ report'.reclaimed_estimated_bytes
             = report.reclaimed_estimated_bytes
    BY <1>2, <2>1 DEF Report
  <2>3. /\ usage' \in Readings /\ PercentUsed(usage') # None
        /\ trouble' <=> trouble
    BY <1>1, <1>8 DEF Snapshots
  <2>4. TypeOK'
    BY <1>4, <2>1, <2>2 DEF OthersTyped, IInv, TypeOK, Locations
  <2>5. report.iterations = 0
    BY DEF CollectUsage, IInv, Placed
  <2>6. Placed'
    BY <1>5, <2>1, <2>2, <2>3, <2>5, IterationLimitPositive
       DEF CollectUsage, IInv, Placed, Ended, InLoop, AboveTarget
  <2>7. Accounted' /\ DryRunDeletesNothing'
    BY <1>5, <2>1, <2>2 DEF CollectUsage, IInv, Accounted, DryRunDeletesNothing
  <2> QED BY <2>4, <2>6, <2>7 DEF IInv
<1> QED BY <1>7, <1>8

LEMMA RecollectUsageKeepsIInv ==
  ASSUME IInv, RecollectUsage
  PROVE  IInv'
<1>1. PICK snapshot \in Snapshots :
        /\ usage' = snapshot
        /\ trouble' = (trouble \/ PercentUsed(snapshot) = None)
        /\ IF PercentUsed(snapshot) = None
           THEN Finish("UsagePercentUnknown", snapshot, FALSE, report)
           ELSE Continue("loop") /\ UNCHANGED report
  BY DEF RecollectUsage
<1>2. /\ queue = <<>>
      /\ report.actions_planned
           = report.actions_completed + report.action_failures
  BY SettledAccount DEF RecollectUsage
<1>3. OthersTyped'
  BY <1>1 DEF OthersTyped, IInv, TypeOK, RecollectUsage
<1>4. UNCHANGED <<queue, issued>> BY DEF RecollectUsage
<1>5. CASE PercentUsed(snapshot) = None
  <2>1. Finish("UsagePercentUnknown", snapshot, FALSE, report)
    BY <1>1, <1>5
  <2>2. "UsagePercentUnknown" \in StopReasons BY DEF StopReasons
  <2>3. report \in Report BY DEF IInv, TypeOK
  <2> QED BY <1>2, <1>3, <1>4, <2>1, <2>2, <2>3, FinishKeepsIInv
<1>6. CASE PercentUsed(snapshot) # None
  <2>1. pc' = "loop" /\ ticks' = ticks /\ report' = report
    BY <1>1, <1>6 DEF Continue
  <2>2. /\ usage' \in Readings /\ PercentUsed(usage') # None
        /\ trouble' <=> trouble
    BY <1>1, <1>6 DEF Snapshots
  <2>3. TypeOK' BY <1>3, <2>1 DEF OthersTyped, IInv, TypeOK, Locations
  <2>4. Placed'
    BY <2>1, <2>2 DEF RecollectUsage, IInv, Placed, Ended, InLoop, AboveTarget
  <2>5. Accounted' /\ DryRunDeletesNothing'
    BY <1>2, <1>4, <2>1 DEF RecollectUsage, IInv, Accounted, DryRunDeletesNothing
  <2> QED BY <2>3, <2>4, <2>5 DEF IInv
<1> QED BY <1>5, <1>6

-----------------------------------------------------------------------------
(* The steps of an iteration without the backend. *)
LEMMA ReachLimitKeepsIInv ==
  ASSUME IInv, ReachLimit
  PROVE  IInv'
<1>1. OthersTyped' BY DEF OthersTyped, IInv, TypeOK, ReachLimit, tickVars
<1>2. queue' = <<>> /\ report.actions_planned
                         = report.actions_completed + report.action_failures
  BY SettledAccount DEF ReachLimit
<1>3. report \in Report /\ usage \in Snapshots \cup {None}
  BY DEF IInv, TypeOK
<1>4. "IterationLimitReached" \in StopReasons BY DEF StopReasons
<1>5. Finish("IterationLimitReached", usage, FALSE, report) /\ UNCHANGED issued
  BY DEF ReachLimit, tickVars
<1> QED BY <1>1, <1>2, <1>3, <1>4, <1>5, FinishKeepsIInv

LEMMA CheckTargetKeepsIInv ==
  ASSUME IInv, CheckTarget
  PROVE  IInv'
<1>1. UNCHANGED <<usage, pending, plan, queue, issued, unknowns, vetted,
                  trouble, stale>>
  BY DEF CheckTarget, tickVars
<1>2. OthersTyped' BY <1>1 DEF OthersTyped, IInv, TypeOK
<1>3. queue' = <<>> /\ report.actions_planned
                         = report.actions_completed + report.action_failures
  BY <1>1, SettledAccount DEF CheckTarget
<1>4. CASE TargetReached(PercentUsed(usage))
  <2>1. Finish("TargetWatermarkReached", usage, FALSE, report)
    BY <1>4 DEF CheckTarget
  <2>2. report \in Report /\ usage \in Snapshots \cup {None}
    BY DEF IInv, TypeOK
  <2>3. "TargetWatermarkReached" \in StopReasons BY DEF StopReasons
  <2> QED BY <1>1, <1>2, <1>3, <2>1, <2>2, <2>3, FinishKeepsIInv
<1>5. CASE ~TargetReached(PercentUsed(usage))
  <2>1. /\ report' = [report EXCEPT !.iterations = @ + 1]
        /\ pc' = "discover" /\ ticks' = ticks
    BY <1>5 DEF CheckTarget, Continue
  <2>2. report.iterations \in 0 .. IterationLimit
          /\ report.iterations < IterationLimit
    BY DEF CheckTarget, IInv, TypeOK, Placed, Report
  <2>3. report.iterations + 1 \in 0 .. IterationLimit
    BY <2>2, IterationLimitPositive
  <2>4. /\ report' \in Report
        /\ report'.cleanup_started = report.cleanup_started
        /\ report'.actions_planned = report.actions_planned
        /\ report'.actions_completed = report.actions_completed
        /\ report'.action_failures = report.action_failures
        /\ report'.reclaimed_estimated_bytes
             = report.reclaimed_estimated_bytes
    BY <2>1, <2>3 DEF IInv, TypeOK, Report
  <2>5. TypeOK' BY <1>2, <2>1, <2>4 DEF OthersTyped, IInv, TypeOK, Locations
  <2>6. Above(usage, TargetWatermark)
    <3>1. usage \in Readings /\ PercentUsed(usage) # None
      BY DEF CheckTarget, IInv, Placed, InLoop
    <3>2. TargetWatermark \in Nat
      BY SchedulerAssumption DEF SchedulerAssumption
    <3>3. PercentUsed(usage) > TargetWatermark
      BY <1>5, <3>1, <3>2, PercentFaithful DEF TargetReached
    <3> QED BY <3>1, <3>2, <3>3, PercentFaithful
  <2>7. Placed'
    BY <1>1, <2>1, <2>4, <2>6
       DEF CheckTarget, IInv, Placed, Ended, InLoop, AboveTarget
  <2>8. Accounted' /\ DryRunDeletesNothing'
    BY <1>1, <2>1, <2>4 DEF CheckTarget, IInv, Accounted, DryRunDeletesNothing
  <2> QED BY <2>5, <2>7, <2>8 DEF IInv
<1> QED BY <1>4, <1>5

LEMMA DiscoverKeepsIInv ==
  ASSUME IInv, Discover
  PROVE  IInv'
<1>1. /\ pc' = "plan"
      /\ UNCHANGED <<ticks, report, usage, queue, issued, unknowns, vetted,
                     trouble, stale>>
  BY DEF Discover, Continue, tickVars
<1>2. pending' \in Seq(Candidate) /\ plan' \in PlanState
  BY SchedulerAssumption, InitialPlanTyped DEF SchedulerAssumption, Discover
<1>3. TypeOK' BY <1>1, <1>2 DEF IInv, TypeOK, Locations
<1>4. Placed' BY <1>1 DEF Discover, IInv, Placed, Ended, InLoop, AboveTarget
<1>5. Accounted' /\ DryRunDeletesNothing'
  BY <1>1 DEF Discover, IInv, Accounted, DryRunDeletesNothing
<1> QED BY <1>3, <1>4, <1>5 DEF IInv

LEMMA PlanNextKeepsIInv ==
  ASSUME IInv, PlanNext
  PROVE  IInv'
<1>1. UNCHANGED <<pc, report, usage, queue, ticks, issued, unknowns, vetted,
                  trouble, stale>>
  BY DEF PlanNext, tickVars
<1>2. pending \in Seq(Candidate) /\ pending # <<>> /\ plan \in PlanState
  BY DEF PlanNext, IInv, TypeOK
<1>3. Head(pending) \in Candidate /\ Tail(pending) \in Seq(Candidate)
  BY <1>2
<1>4. plan' \in PlanState /\ pending' \in Seq(Candidate)
  BY <1>2, <1>3, PlanCandidateTyped DEF PlanNext
<1>5. TypeOK' BY <1>1, <1>4 DEF IInv, TypeOK
<1>6. Placed' BY <1>1 DEF IInv, Placed, Ended, InLoop, AboveTarget
<1>7. Accounted' /\ DryRunDeletesNothing'
  BY <1>1 DEF IInv, Accounted, DryRunDeletesNothing
<1> QED BY <1>5, <1>6, <1>7 DEF IInv

LEMMA FinishPlanKeepsIInv ==
  ASSUME IInv, FinishPlan
  PROVE  IInv'
<1> DEFINE counted ==
      [report EXCEPT !.actions_planned = @ + Len(plan.actions),
                     !.skipped_candidates = @ + Len(plan.skipped)]
<1>1. UNCHANGED <<usage, pending, plan, issued, unknowns, vetted, trouble,
                  stale>>
  BY DEF FinishPlan, tickVars
<1>2. /\ plan.actions \in Seq(PlannedAction)
      /\ Len(plan.actions) \in Nat /\ Len(plan.skipped) \in Nat
  BY DEF IInv, TypeOK, PlanState
<1>3. report \in Report /\ report.actions_planned \in Nat
        /\ report.skipped_candidates \in Nat
        /\ report.actions_completed \in Nat /\ report.action_failures \in Nat
  BY DEF IInv, TypeOK, Report
<1>4. /\ counted \in Report
      /\ counted.actions_planned = report.actions_planned + Len(plan.actions)
      /\ counted.cleanup_started = report.cleanup_started
      /\ counted.iterations = report.iterations
      /\ counted.actions_completed = report.actions_completed
      /\ counted.action_failures = report.action_failures
      /\ counted.reclaimed_estimated_bytes = report.reclaimed_estimated_bytes
  <2>1. PICK a \in Nat : a = report.actions_planned + Len(plan.actions)
    BY <1>2, <1>3
  <2>2. PICK n \in Nat : n = report.skipped_candidates + Len(plan.skipped)
    BY <1>2, <1>3
  <2>3. counted = [report EXCEPT !.actions_planned = a,
                                 !.skipped_candidates = n]
    BY <2>1, <2>2
  <2> HIDE DEF counted
  <2> QED BY <1>3, <2>1, <2>3 DEF Report
<1>5. queue' = plan.actions BY DEF FinishPlan
<1>6. OthersTyped' BY <1>1, <1>2, <1>5 DEF OthersTyped, IInv, TypeOK
<1>7. report.actions_planned
        = report.actions_completed + report.action_failures
  BY SettledAccount DEF FinishPlan
<1>8. CASE plan.actions = <<>>
  <2>1. Finish(NoActionStopReason(plan.skipped), usage, FALSE, counted)
    BY <1>8 DEF FinishPlan
  <2>2. NoActionStopReason(plan.skipped) \in StopReasons
    BY DEF NoActionStopReason, StopReasons
  <2>3. usage \in Snapshots \cup {None} BY DEF IInv, TypeOK
  <2>4. Len(plan.actions) = 0 BY <1>8
  <2> HIDE DEF counted
  <2>5. counted.actions_planned
          = counted.actions_completed + counted.action_failures
    BY <1>3, <1>4, <1>7, <2>4
  <2> QED
    BY <1>1, <1>4, <1>5, <1>6, <1>8, <2>1, <2>2, <2>3, <2>5, FinishKeepsIInv
<1>9. CASE plan.actions # <<>>
  <2>1. report' = counted /\ pc' = "execute" /\ ticks' = ticks
    BY <1>9 DEF FinishPlan, Continue
  <2> HIDE DEF counted
  <2>2. TypeOK' BY <1>4, <1>6, <2>1 DEF OthersTyped, IInv, TypeOK, Locations
  <2>3. Placed'
    BY <1>1, <1>4, <2>1 DEF FinishPlan, IInv, Placed, Ended, InLoop, AboveTarget
  <2>4. Accounted'
    BY <1>2, <1>3, <1>4, <1>5, <1>7, <2>1 DEF Accounted
  <2>5. DryRunDeletesNothing'
    BY <1>1, <1>4, <2>1 DEF IInv, DryRunDeletesNothing
  <2> QED BY <2>2, <2>3, <2>4, <2>5 DEF IInv
<1> QED BY <1>8, <1>9

-----------------------------------------------------------------------------
(* The batch. *)
LEMMA FirstOfQueue ==
  ASSUME IInv, queue # <<>>
  PROVE  /\ Head(queue) \in PlannedAction /\ Tail(queue) \in Seq(PlannedAction)
         /\ Len(queue) = Len(Tail(queue)) + 1
         /\ Len(Tail(queue)) \in Nat
         /\ KnownBytes(Head(queue)) \in Nat
<1>1. queue \in Seq(PlannedAction) BY DEF IInv, TypeOK
<1>2. /\ Head(queue) \in PlannedAction /\ Tail(queue) \in Seq(PlannedAction)
      /\ Len(queue) = Len(Tail(queue)) + 1 /\ Len(Tail(queue)) \in Nat
  BY <1>1
<1>3. KnownBytes(Head(queue)) \in Nat
  BY <1>2 DEF KnownBytes, PlannedAction, Candidate
<1> QED BY <1>2, <1>3

(* An executed action moves from the queue to one of the two counters.      *)
LEMMA ActionKeepsIInv ==
  ASSUME IInv, pc = "execute", queue # <<>>, queue' = Tail(queue),
         UNCHANGED <<pc, usage, pending, plan, ticks, vetted, trouble>>,
         report' \in Report,
         \/ /\ report'.actions_completed = report.actions_completed + 1
            /\ report'.action_failures = report.action_failures
         \/ /\ report'.actions_completed = report.actions_completed
            /\ report'.action_failures = report.action_failures + 1,
         report'.actions_planned = report.actions_planned,
         report'.cleanup_started = report.cleanup_started,
         report'.iterations = report.iterations,
         issued' \in Nat, unknowns' \in Nat, stale' \in BOOLEAN,
         DryRun =>
           /\ issued' = issued
           /\ report'.reclaimed_estimated_bytes
                = report.reclaimed_estimated_bytes
  PROVE  IInv'
<1>1. /\ Tail(queue) \in Seq(PlannedAction)
      /\ Len(queue) = Len(Tail(queue)) + 1 /\ Len(Tail(queue)) \in Nat
  BY FirstOfQueue
<1>2. /\ report.actions_completed \in Nat /\ report.action_failures \in Nat
  BY DEF IInv, TypeOK, Report
<1>3. TypeOK' BY <1>1 DEF IInv, TypeOK
<1>4. Placed' BY DEF IInv, Placed, Ended, InLoop, AboveTarget
<1>5. Accounted'
  <2>1. report.actions_planned = report.actions_completed
                                   + report.action_failures + Len(queue)
    BY DEF IInv, Accounted
  <2>2. Len(queue') = Len(Tail(queue)) OBVIOUS
  <2>3. report'.actions_completed + report'.action_failures
          = report.actions_completed + report.action_failures + 1
    <3>1. CASE /\ report'.actions_completed = report.actions_completed + 1
               /\ report'.action_failures = report.action_failures
      BY <1>2, <3>1
    <3>2. CASE /\ report'.actions_completed = report.actions_completed
               /\ report'.action_failures = report.action_failures + 1
      BY <1>2, <3>2
    <3> QED BY <3>1, <3>2
  <2>4. report'.actions_planned = report'.actions_completed
                                    + report'.action_failures + Len(queue')
    BY <1>1, <1>2, <2>1, <2>2, <2>3
  <2> QED BY <2>4 DEF Accounted
<1>6. DryRunDeletesNothing' BY DEF IInv, DryRunDeletesNothing
<1> QED BY <1>3, <1>4, <1>5, <1>6 DEF IInv

LEMMA SimulateActionKeepsIInv ==
  ASSUME IInv, ExecuteAction, SimulateAction
  PROVE  IInv'
<1>1. /\ report \in Report /\ report.actions_completed \in Nat
      /\ issued \in Nat /\ unknowns \in Nat /\ stale \in BOOLEAN
  BY DEF IInv, TypeOK, Report
<1>2. PICK n \in Nat : n = report.actions_completed + 1 BY <1>1
<1>3. /\ pc = "execute" /\ queue # <<>> /\ queue' = Tail(queue)
      /\ UNCHANGED <<pc, usage, pending, plan, ticks, vetted, trouble>>
      /\ UNCHANGED <<issued, unknowns, stale>>
      /\ report' = [report EXCEPT !.actions_completed = n]
  BY <1>2 DEF ExecuteAction, SimulateAction, tickVars
<1>4. /\ report' \in Report /\ report'.actions_completed = n
      /\ report'.action_failures = report.action_failures
      /\ report'.actions_planned = report.actions_planned
      /\ report'.cleanup_started = report.cleanup_started
      /\ report'.iterations = report.iterations
      /\ report'.reclaimed_estimated_bytes = report.reclaimed_estimated_bytes
  BY <1>1, <1>3 DEF Report
<1> QED BY <1>1, <1>2, <1>3, <1>4, ActionKeepsIInv

LEMMA CompleteActionKeepsIInv ==
  ASSUME IInv, ExecuteAction, CompleteAction
  PROVE  IInv'
<1>1. /\ report \in Report /\ report.actions_completed \in Nat
      /\ report.reclaimed_estimated_bytes \in Nat
      /\ issued \in Nat /\ unknowns \in Nat
  BY DEF IInv, TypeOK, Report
<1>2. PICK n \in Nat : n = report.actions_completed + 1 BY <1>1
<1>3. PICK bytes \in Nat :
        bytes = report.reclaimed_estimated_bytes + KnownBytes(Head(queue))
  BY <1>1, FirstOfQueue DEF ExecuteAction
<1>4. /\ pc = "execute" /\ queue # <<>> /\ queue' = Tail(queue)
      /\ UNCHANGED <<pc, usage, pending, plan, ticks, vetted, trouble>>
      /\ issued' \in Nat /\ stale' \in BOOLEAN /\ ~DryRun
      /\ report' = [report EXCEPT !.actions_completed = n,
                                  !.reclaimed_estimated_bytes = bytes]
  BY <1>1, <1>2, <1>3 DEF ExecuteAction, CompleteAction, Simulated
<1>5. unknowns' \in Nat BY <1>1 DEF CompleteAction
<1>6. /\ report' \in Report /\ report'.actions_completed = n
      /\ report'.action_failures = report.action_failures
      /\ report'.actions_planned = report.actions_planned
      /\ report'.cleanup_started = report.cleanup_started
      /\ report'.iterations = report.iterations
  BY <1>1, <1>4 DEF Report
<1> QED BY <1>2, <1>4, <1>5, <1>6, ActionKeepsIInv

LEMMA FailActionKeepsIInv ==
  ASSUME IInv, ExecuteAction, FailAction
  PROVE  IInv'
<1>1. /\ report \in Report /\ report.action_failures \in Nat
      /\ issued \in Nat /\ unknowns \in Nat /\ stale \in BOOLEAN
  BY DEF IInv, TypeOK, Report
<1>2. PICK n \in Nat : n = report.action_failures + 1 BY <1>1
<1>3. /\ pc = "execute" /\ queue # <<>> /\ queue' = Tail(queue)
      /\ UNCHANGED <<pc, usage, pending, plan, ticks, vetted, trouble>>
      /\ issued' \in Nat /\ UNCHANGED <<unknowns, stale>> /\ ~DryRun
      /\ report' = [report EXCEPT !.action_failures = n]
  BY <1>1, <1>2 DEF ExecuteAction, FailAction, Simulated
<1>4. /\ report' \in Report /\ report'.action_failures = n
      /\ report'.actions_completed = report.actions_completed
      /\ report'.actions_planned = report.actions_planned
      /\ report'.cleanup_started = report.cleanup_started
      /\ report'.iterations = report.iterations
  BY <1>1, <1>3 DEF Report
<1> QED BY <1>1, <1>2, <1>3, <1>4, ActionKeepsIInv

LEMMA FinishBatchKeepsIInv ==
  ASSUME IInv, FinishBatch
  PROVE  IInv'
<1>1. UNCHANGED <<usage, pending, plan, queue, issued, unknowns, vetted,
                  trouble, stale>>
  BY DEF FinishBatch, tickVars
<1>2. OthersTyped' BY <1>1 DEF OthersTyped, IInv, TypeOK
<1>3. queue' = <<>> /\ Len(queue) = 0 BY <1>1 DEF FinishBatch
<1>4. /\ report \in Report /\ usage \in Snapshots \cup {None}
      /\ report.actions_completed \in Nat /\ report.action_failures \in Nat
  BY DEF IInv, TypeOK, Report
<1>5. report.actions_planned
        = report.actions_completed + report.action_failures
  BY <1>3, <1>4 DEF IInv, Accounted
<1>6. CASE report.action_failures > 0
  <2>1. Finish("ExecutionFailuresDetected", usage, TRUE, report)
    BY <1>6 DEF FinishBatch
  <2>2. "ExecutionFailuresDetected" \in StopReasons BY DEF StopReasons
  <2> QED
    BY <1>1, <1>2, <1>3, <1>4, <1>5, <2>1, <2>2, FinishKeepsIInv
<1>7. CASE ~(report.action_failures > 0)
  <2>1. pc' = "recollect" /\ ticks' = ticks /\ report' = report
    BY <1>7 DEF FinishBatch, Continue
  <2>2. TypeOK' BY <1>2, <2>1 DEF OthersTyped, IInv, TypeOK, Locations
  <2>3. Placed'
    BY <1>1, <2>1 DEF FinishBatch, IInv, Placed, Ended, InLoop, AboveTarget
  <2>4. Accounted' BY <1>1, <1>3, <2>1 DEF IInv, Accounted
  <2>5. DryRunDeletesNothing'
    BY <1>1, <2>1 DEF IInv, DryRunDeletesNothing
  <2> QED BY <2>2, <2>3, <2>4, <2>5 DEF IInv
<1> QED BY <1>6, <1>7

-----------------------------------------------------------------------------
LEMMA StutterKeepsIInv ==
  ASSUME IInv, UNCHANGED vars
  PROVE  IInv'
<1>1. UNCHANGED <<pc, report, usage, pending, plan, queue, ticks, issued,
                  unknowns, vetted, trouble, stale>>
  BY DEF vars, tickVars
<1>2. TypeOK' BY <1>1 DEF IInv, TypeOK
<1>3. Placed' BY <1>1 DEF IInv, Placed, Ended, InLoop, AboveTarget
<1>4. Accounted' /\ DryRunDeletesNothing'
  BY <1>1 DEF IInv, Accounted, DryRunDeletesNothing
<1> QED BY <1>2, <1>3, <1>4 DEF IInv

LEMMA ExecuteActionKeepsIInv == IInv /\ ExecuteAction => IInv'
BY SimulateActionKeepsIInv, CompleteActionKeepsIInv, FailActionKeepsIInv
   DEF ExecuteAction

LEMMA NextKeepsIInv == IInv /\ [Next]_vars => IInv'
BY WakeKeepsIInv, CheckHealthKeepsIInv, FailedCallKeepsIInv,
   CollectUsageKeepsIInv, ReachLimitKeepsIInv, RecheckHealthKeepsIInv,
   CheckTargetKeepsIInv, DiscoverKeepsIInv, PlanNextKeepsIInv,
   FinishPlanKeepsIInv, ExecuteActionKeepsIInv, FinishBatchKeepsIInv, RecollectUsageKeepsIInv,
   StutterKeepsIInv
   DEF Next, Tick, Exited

(* The tick is well typed, its report accounts for every planned action,    *)
(* and its position says what has been measured and vetted: the inductive   *)
(* invariant the theorems below are read off from.                          *)
THEOREM TickInvariance == Spec => []IInv
BY InitIInv, NextKeepsIInv, PTL DEF Spec

(* Every value run_once keeps, its report among them, stays in its type     *)
(* however many iterations and ticks run.                                   *)
THEOREM TickTypeCorrect == Spec => []TypeOK
<1>1. IInv => TypeOK BY DEF IInv
<1> QED BY <1>1, TickInvariance, PTL

(* A finished tick's report accounts for every planned action as completed  *)
(* or failed: no batch and no return of run_once loses one.                 *)
THEOREM AllActionsAccounted == Spec => []EveryActionAccounted
<1>1. IInv => EveryActionAccounted
  BY SettledAccount DEF EveryActionAccounted, Ended
<1> QED BY <1>1, TickInvariance, PTL

(* In a dry run nothing is handed to the backend and no byte is claimed.    *)
THEOREM DryRunIsInert == Spec => []DryRunDeletesNothing
<1>1. IInv => DryRunDeletesNothing BY DEF IInv
<1> QED BY <1>1, TickInvariance, PTL

-----------------------------------------------------------------------------
(* What stands behind the stop reason: a cycle begins at the high watermark *)
(* and goes on only after a batch without failures, in which something was  *)
(* completed; usage is older than a deletion only until it is measured, or  *)
(* the tick ends with an error.                                             *)
Reasoned ==
  /\ report.action_failures > 0 => pc = "execute" \/ Ended
  /\ pc \in {"loop", "recollect"} => report.actions_completed > 0
  /\ pc = "execute" => report.actions_planned > 0
  /\ pc = "target" => \/ report.actions_completed > 0
                      \/ PercentUsed(usage) >= HighWatermark
  /\ pc \in {"loop", "discover", "plan", "execute", "recollect"} =>
       report.iterations > 0
  /\ ~report.cleanup_started => report.actions_planned = 0
  /\ stale => pc \in {"execute", "recollect"} \/ (Ended /\ report.last_error)
  /\ StopReasonJustified

Errors == {"HealthCheckFailed", "UsageCollectionFailed",
           "CandidateDiscoveryFailed", "ExecutionFailuresDetected"}
Troubles == {"BackendUnhealthy", "HealthCheckFailed", "UsageCollectionFailed",
             "UsagePercentUnknown", "CandidateDiscoveryFailed"}

(* A step within the tick. *)
LEMMA GoesOn ==
  ASSUME Reasoned, pc' \notin {"sleeping", "exited"}, report' = report,
         pc' \in {"loop", "recollect"} => report.actions_completed > 0,
         pc' = "execute" => report.actions_planned > 0,
         pc' = "target" => \/ report.actions_completed > 0
                           \/ PercentUsed(usage') >= HighWatermark,
         pc' \in {"loop", "discover", "plan", "execute", "recollect"} =>
           report.iterations > 0,
         pc' # "execute" => ~(report.action_failures > 0),
         stale' => pc' \in {"execute", "recollect"}
  PROVE  Reasoned'
BY DEF Reasoned, StopReasonJustified, Ended

(* A return of run_once, with what its reason asserts. *)
LEMMA Returns ==
  ASSUME IInv, Reasoned, NEW base \in Report, NEW reason \in StopReasons,
         NEW error \in BOOLEAN, error <=> reason \in Errors,
         Finish(reason, usage', error, base),
         \/ ~base.cleanup_started /\ base.actions_planned = 0
         \/ base.cleanup_started,
         base.action_failures > 0 <=> reason = "ExecutionFailuresDetected",
         trouble' <=> reason \in Troubles,
         stale' => reason \in Errors,
         reason = "BelowHighWatermark" =>
           /\ ~base.cleanup_started
           /\ InRange(usage') => ~AtLeast(usage', HighWatermark),
         reason = "TargetWatermarkReached" =>
           /\ base.actions_completed > 0
           /\ InRange(usage') => ~AtLeast(usage', TargetWatermark + 1),
         reason \in {"NoActionableCandidates", "DeletionCapReached"} =>
           Above(usage', TargetWatermark) /\ base.iterations > 0,
         reason = "IterationLimitReached" => base.iterations = IterationLimit,
         reason = "UsagePercentUnknown" => usage'.total = 0
  PROVE  Reasoned'
<1>1. report' = [base EXCEPT !.stop_reason = reason, !.final_usage = usage',
                             !.last_error = error]
  BY DEF Finish
<1>2. /\ report'.stop_reason = reason /\ report'.final_usage = usage'
      /\ report'.last_error = error
      /\ report'.cleanup_started = base.cleanup_started
      /\ report'.iterations = base.iterations
      /\ report'.actions_planned = base.actions_planned
      /\ report'.actions_completed = base.actions_completed
      /\ report'.action_failures = base.action_failures
  BY <1>1 DEF Report
<1>3. pc' \in {"sleeping", "exited"} BY DEF Finish
<1>4. StopReasonJustified'
  BY <1>2, <1>3 DEF StopReasonJustified, Errors, Troubles
<1> QED BY <1>2, <1>3, <1>4 DEF Reasoned, Ended

LEMMA FreshReasoned == Fresh => Reasoned
BY NewReportTyped DEF Fresh, Reasoned, StopReasonJustified, Ended

LEMMA HealthReasoned ==
  ASSUME IInv, Reasoned, CheckHealth \/ RecheckHealth
  PROVE  Reasoned'
<1>1. PICK answer \in HealthAnswers, next \in {"usage", "target"} :
        /\ StopUnlessHealthy(answer, next)
        /\ pc = IF next = "usage" THEN "health" ELSE "loop"
        /\ trouble' = (trouble \/ answer # "healthy")
  BY DEF CheckHealth, RecheckHealth
<1>2. UNCHANGED <<usage, stale>> BY DEF CheckHealth, RecheckHealth
<1>3. pc \in {"health", "loop"} /\ ~Ended BY <1>1 DEF Ended
<1>4. ~(report.action_failures > 0) /\ ~stale BY <1>3 DEF Reasoned
<1>5. CASE answer = "healthy"
  <2>1. pc' = next /\ report' = report
    BY <1>1, <1>5 DEF StopUnlessHealthy, Continue
  <2>2. next = "target" => report.actions_completed > 0
    BY <1>1 DEF Reasoned
  <2> QED BY <1>2, <1>4, <2>1, <2>2, GoesOn
<1>6. CASE answer # "healthy"
  <2>2. PICK reason \in {"BackendUnhealthy", "HealthCheckFailed"},
             error \in BOOLEAN :
          Finish(reason, usage', error, report) /\ (error <=> reason \in Errors)
    BY <1>1, <1>2, <1>6 DEF StopUnlessHealthy, HealthAnswers, Errors
  <2>3. reason \in StopReasons /\ reason \in Troubles
    BY DEF StopReasons, Troubles
  <2>4. report \in Report /\ trouble'
    BY <1>1, <1>6 DEF IInv, TypeOK
  <2>5. report.cleanup_started \/ report.actions_planned = 0 BY DEF Reasoned
  <2>6. report.cleanup_started \in BOOLEAN BY <2>4 DEF Report
  <2> QED BY <1>2, <1>4, <2>2, <2>3, <2>4, <2>5, <2>6, Returns
<1> QED BY <1>5, <1>6

LEMMA FailedCallReasoned ==
  ASSUME IInv, Reasoned, CollectUsageFails \/ DiscoverFails \/ RecollectUsageFails
  PROVE  Reasoned'
<1>1. /\ UNCHANGED <<usage, stale>> /\ trouble'
      /\ pc \in {"usage", "discover", "recollect"}
  BY DEF CollectUsageFails, DiscoverFails, RecollectUsageFails
<1>2. pc = "usage" => usage = None BY DEF IInv, Placed
<1>3. PICK reason \in {"UsageCollectionFailed", "CandidateDiscoveryFailed"} :
        Finish(reason, usage', TRUE, report)
  BY <1>1, <1>2
     DEF CollectUsageFails, DiscoverFails, RecollectUsageFails
<1>4. reason \in StopReasons /\ reason \in Troubles /\ reason \in Errors
  BY DEF StopReasons, Troubles, Errors
<1>5. report \in Report BY DEF IInv, TypeOK
<1>6. ~(report.action_failures > 0) BY <1>1 DEF Reasoned, Ended
<1>7. report.cleanup_started \/ report.actions_planned = 0 BY DEF Reasoned
<1>8. report.cleanup_started \in BOOLEAN BY <1>5 DEF Report
<1> QED BY <1>1, <1>3, <1>4, <1>5, <1>6, <1>7, <1>8, Returns

LEMMA UnknownPercent ==
  ASSUME NEW s \in Readings, PercentUsed(s) = None
  PROVE  s.total = 0
<1>1. s.used \in Nat /\ s.total \in Nat /\ MaxU64 \in Nat /\ None \notin Nat
  BY SchedulerAssumption, PlannerAssumption, PolicyAssumption
     DEF SchedulerAssumption, PlannerAssumption, PolicyAssumption
<1> DEFINE h == IF s.used * 100 > MaxU64 THEN MaxU64 ELSE s.used * 100
           q == h \div s.total
<1>2. h \in Nat BY <1>1
<1> HIDE DEF h
<1>3. ASSUME s.total # 0 PROVE FALSE
  <2>1. q \in Nat BY <1>1, <1>2, <1>3, Quotient
  <2>2. q % 256 \in Nat BY <2>1
  <2>3. PercentUsed(s) = q % 256 BY <1>3 DEF PercentUsed, h
  <2> QED BY <1>1, <2>2, <2>3
<1> QED BY <1>3

LEMMA CollectUsageReasoned ==
  ASSUME IInv, Reasoned, CollectUsage
  PROVE  Reasoned'
<1>1. PICK snapshot \in Snapshots :
        LET seen == [report EXCEPT !.initial_usage = snapshot] IN
        /\ usage' = snapshot
        /\ trouble' = (trouble \/ PercentUsed(snapshot) = None)
        /\ IF PercentUsed(snapshot) = None
           THEN Finish("UsagePercentUnknown", snapshot, FALSE, seen)
           ELSE IF ~StartsCleanup(PercentUsed(snapshot))
           THEN Finish("BelowHighWatermark", snapshot, FALSE, seen)
           ELSE /\ report' = [seen EXCEPT !.cleanup_started = TRUE]
                /\ Continue("target")
  BY DEF CollectUsage
<1> DEFINE seen == [report EXCEPT !.initial_usage = snapshot]
<1>2. /\ seen \in Report
      /\ seen.cleanup_started = report.cleanup_started
      /\ seen.iterations = report.iterations
      /\ seen.actions_planned = report.actions_planned
      /\ seen.actions_completed = report.actions_completed
      /\ seen.action_failures = report.action_failures
  BY DEF IInv, TypeOK, Report
<1>3. /\ pc = "usage" /\ ~report.cleanup_started /\ ~trouble /\ stale' = stale
      /\ usage' \in Readings
  BY <1>1 DEF CollectUsage, IInv, Placed, Ended, Snapshots
<1>4. /\ report.actions_planned = 0 /\ ~stale /\ ~(report.action_failures > 0)
  BY <1>3 DEF Reasoned, Ended
<1>5. HighWatermark \in Nat BY SchedulerAssumption DEF SchedulerAssumption
<1>6. CASE PercentUsed(snapshot) = None
  <2>1. Finish("UsagePercentUnknown", usage', FALSE, seen) /\ trouble'
    BY <1>1, <1>6
  <2>2. "UsagePercentUnknown" \in (StopReasons \cap Troubles) \ Errors
    BY DEF StopReasons, Troubles, Errors
  <2>3. usage'.total = 0 BY <1>1, <1>3, <1>6, UnknownPercent
  <2> HIDE DEF seen
  <2> QED BY <1>2, <1>3, <1>4, <2>1, <2>2, <2>3, Returns
<1>7. CASE PercentUsed(snapshot) # None /\ ~StartsCleanup(PercentUsed(snapshot))
  <2>1. Finish("BelowHighWatermark", usage', FALSE, seen) /\ ~trouble'
    BY <1>1, <1>3, <1>7
  <2>2. /\ "BelowHighWatermark" \in StopReasons
        /\ "BelowHighWatermark" \notin Troubles \cup Errors
    BY DEF StopReasons, Troubles, Errors
  <2>3. PercentUsed(usage') \in Nat
    BY <1>1, <1>3, <1>5, <1>7, PercentFaithful
  <2>4. InRange(usage') => ~AtLeast(usage', HighWatermark)
    <3>1. PercentUsed(usage') < HighWatermark
      BY <1>1, <1>5, <1>7, <2>3 DEF StartsCleanup
    <3> QED BY <1>1, <1>3, <1>5, <1>7, <3>1, PercentFaithful
  <2> HIDE DEF seen
  <2> QED BY <1>2, <1>3, <1>4, <2>1, <2>2, <2>4, Returns
<1>8. CASE PercentUsed(snapshot) # None /\ StartsCleanup(PercentUsed(snapshot))
  <2>1. report' = [seen EXCEPT !.cleanup_started = TRUE] /\ pc' = "target"
    BY <1>1, <1>8 DEF Continue
  <2> HIDE DEF seen
  <2>2. /\ report'.cleanup_started
        /\ report'.action_failures = report.action_failures
    BY <1>2, <2>1 DEF Report
  <2>3. PercentUsed(usage') >= HighWatermark BY <1>1, <1>8 DEF StartsCleanup
  <2> QED BY <1>3, <1>4, <2>1, <2>2, <2>3
          DEF Reasoned, StopReasonJustified, Ended
<1> QED BY <1>6, <1>7, <1>8

LEMMA RecollectUsageReasoned ==
  ASSUME IInv, Reasoned, RecollectUsage
  PROVE  Reasoned'
<1>1. PICK snapshot \in Snapshots :
        /\ usage' = snapshot
        /\ trouble' = (trouble \/ PercentUsed(snapshot) = None)
        /\ IF PercentUsed(snapshot) = None
           THEN Finish("UsagePercentUnknown", snapshot, FALSE, report)
           ELSE Continue("loop") /\ UNCHANGED report
  BY DEF RecollectUsage
<1>2. /\ pc = "recollect" /\ ~stale' /\ ~trouble /\ usage' \in Readings
      /\ report \in Report
  BY <1>1 DEF RecollectUsage, IInv, TypeOK, Placed, Ended, Snapshots
<1>3. /\ report.iterations > 0 /\ report.actions_completed > 0
      /\ ~(report.action_failures > 0)
      /\ report.cleanup_started \/ report.actions_planned = 0
  BY <1>2 DEF Reasoned, Ended
<1>4. CASE PercentUsed(snapshot) = None
  <2>1. Finish("UsagePercentUnknown", usage', FALSE, report) /\ trouble'
    BY <1>1, <1>4
  <2>2. "UsagePercentUnknown" \in (StopReasons \cap Troubles) \ Errors
    BY DEF StopReasons, Troubles, Errors
  <2>3. usage'.total = 0 BY <1>1, <1>2, <1>4, UnknownPercent
  <2>5. report.cleanup_started \in BOOLEAN BY <1>2 DEF Report
  <2> QED BY <1>2, <1>3, <2>1, <2>2, <2>3, <2>5, Returns
<1>5. CASE PercentUsed(snapshot) # None
  <2>1. pc' = "loop" /\ report' = report BY <1>1, <1>5 DEF Continue
  <2> QED BY <1>2, <1>3, <2>1, GoesOn
<1> QED BY <1>4, <1>5

LEMMA ReachLimitReasoned ==
  ASSUME IInv, Reasoned, ReachLimit
  PROVE  Reasoned'
<1>1. /\ pc = "loop" /\ report.iterations = IterationLimit
      /\ UNCHANGED <<usage, trouble, stale>>
      /\ Finish("IterationLimitReached", usage', FALSE, report)
  BY DEF ReachLimit, tickVars
<1>2. /\ ~trouble /\ report \in Report BY <1>1 DEF IInv, TypeOK, Placed, Ended
<1>3. /\ ~stale /\ ~(report.action_failures > 0)
      /\ report.cleanup_started \/ report.actions_planned = 0
  BY <1>1 DEF Reasoned, Ended
<1>4. /\ "IterationLimitReached" \in StopReasons
      /\ "IterationLimitReached" \notin Troubles \cup Errors
  BY DEF StopReasons, Troubles, Errors
<1>5. report.cleanup_started \in BOOLEAN BY <1>2 DEF Report
<1> QED BY <1>1, <1>2, <1>3, <1>4, <1>5, Returns

LEMMA CheckTargetReasoned ==
  ASSUME IInv, Reasoned, CheckTarget
  PROVE  Reasoned'
<1>1. pc = "target" /\ UNCHANGED <<usage, trouble, stale>>
  BY DEF CheckTarget, tickVars
<1>2. /\ ~trouble /\ report \in Report /\ report.cleanup_started
      /\ usage \in Readings /\ PercentUsed(usage) # None
  BY <1>1 DEF IInv, TypeOK, Placed, Ended, InLoop
<1>3. ~stale /\ ~(report.action_failures > 0) BY <1>1 DEF Reasoned, Ended
<1>4. /\ HighWatermark \in Nat /\ TargetWatermark \in Nat
      /\ TargetWatermark < HighWatermark
  BY SchedulerAssumption DEF SchedulerAssumption
<1>5. PercentUsed(usage) \in Nat BY <1>2, <1>4, PercentFaithful
<1>6. CASE TargetReached(PercentUsed(usage))
  <2>1. Finish("TargetWatermarkReached", usage', FALSE, report)
    BY <1>1, <1>6 DEF CheckTarget
  <2>2. /\ "TargetWatermarkReached" \in StopReasons
        /\ "TargetWatermarkReached" \notin Troubles \cup Errors
    BY DEF StopReasons, Troubles, Errors
  <2>3. PercentUsed(usage) <= TargetWatermark BY <1>6 DEF TargetReached
  <2>4. report.actions_completed > 0
    BY <1>1, <1>4, <1>5, <2>3 DEF Reasoned
  <2>5. InRange(usage) => ~AtLeast(usage, TargetWatermark + 1)
    <3>1. TargetWatermark + 1 \in Nat /\ PercentUsed(usage) < TargetWatermark + 1
      BY <1>4, <1>5, <2>3
    <3> QED BY <1>2, <3>1, PercentFaithful
  <2> QED BY <1>1, <1>2, <1>3, <2>1, <2>2, <2>4, <2>5, Returns
<1>7. CASE ~TargetReached(PercentUsed(usage))
  <2>1. pc' = "discover" /\ report' = [report EXCEPT !.iterations = @ + 1]
    BY <1>7 DEF CheckTarget, Continue
  <2>2. /\ report'.iterations > 0 /\ report'.cleanup_started
        /\ report'.action_failures = report.action_failures
    BY <1>2, <2>1 DEF Report
  <2> QED BY <1>1, <1>3, <2>1, <2>2 DEF Reasoned, StopReasonJustified, Ended
<1> QED BY <1>6, <1>7

LEMMA PlanningReasoned ==
  ASSUME IInv, Reasoned, Discover \/ PlanNext
  PROVE  Reasoned'
<1>1. /\ pc \in {"discover", "plan"} /\ pc' = "plan"
      /\ UNCHANGED <<report, stale>>
  BY DEF Discover, PlanNext, Continue, tickVars
<1>2. /\ report.iterations > 0 /\ ~stale /\ ~(report.action_failures > 0)
  BY <1>1 DEF Reasoned, Ended
<1> QED BY <1>1, <1>2, GoesOn

LEMMA FinishPlanReasoned ==
  ASSUME IInv, Reasoned, FinishPlan
  PROVE  Reasoned'
<1> DEFINE counted ==
             [report EXCEPT !.actions_planned = @ + Len(plan.actions),
                            !.skipped_candidates = @ + Len(plan.skipped)]
<1>1. /\ pc = "plan" /\ UNCHANGED <<usage, trouble, stale>>
      /\ report \in Report /\ ~trouble /\ report.cleanup_started
      /\ Above(usage, TargetWatermark)
  BY DEF FinishPlan, tickVars, IInv, TypeOK, Placed, Ended, InLoop, AboveTarget
<1>2. /\ report.iterations > 0 /\ ~stale /\ ~(report.action_failures > 0)
  BY <1>1 DEF Reasoned, Ended
<1>3. plan.actions \in Seq(PlannedAction) /\ plan.skipped \in Seq(SkippedCandidate)
  BY DEF IInv, TypeOK, PlanState
<1>4. Len(plan.actions) \in Nat /\ Len(plan.skipped) \in Nat BY <1>3
<1>5. /\ counted \in Report
      /\ counted.cleanup_started = report.cleanup_started
      /\ counted.iterations = report.iterations
      /\ counted.actions_planned = report.actions_planned + Len(plan.actions)
      /\ counted.action_failures = report.action_failures
  <2>1. report.actions_planned \in Nat /\ report.skipped_candidates \in Nat
    BY <1>1 DEF Report
  <2>2. PICK a \in Nat : a = report.actions_planned + Len(plan.actions)
    BY <1>4, <2>1
  <2>3. PICK n \in Nat : n = report.skipped_candidates + Len(plan.skipped)
    BY <1>4, <2>1
  <2>4. counted = [report EXCEPT !.actions_planned = a,
                                 !.skipped_candidates = n]
    BY <2>2, <2>3
  <2> HIDE DEF counted
  <2> QED BY <1>1, <2>2, <2>4 DEF Report
<1>6. CASE plan.actions = <<>>
  <2>1. PICK reason \in {"NoActionableCandidates", "DeletionCapReached"} :
          Finish(reason, usage', FALSE, counted)
    BY <1>1, <1>6 DEF FinishPlan, NoActionStopReason
  <2>2. reason \in StopReasons /\ reason \notin Troubles \cup Errors
    BY DEF StopReasons, Troubles, Errors
  <2> HIDE DEF counted
  <2> QED BY <1>1, <1>2, <1>5, <2>1, <2>2, Returns
<1>7. CASE plan.actions # <<>>
  <2>1. report' = counted /\ pc' = "execute"
    BY <1>7 DEF FinishPlan, Continue
  <2>2. Len(plan.actions) > 0 BY <1>3, <1>7
  <2> HIDE DEF counted
  <2>3. report.actions_planned \in Nat BY <1>1 DEF Report
  <2>4. report'.actions_planned > 0 BY <1>4, <1>5, <2>1, <2>2, <2>3
  <2> QED BY <1>1, <1>2, <1>5, <2>1, <2>4
          DEF Reasoned, StopReasonJustified, Ended
<1> QED BY <1>6, <1>7

LEMMA ActionReasoned ==
  ASSUME IInv, Reasoned, ExecuteAction
  PROVE  Reasoned'
<1>1. pc = "execute" /\ pc' = "execute"
  BY DEF ExecuteAction
<1>2. /\ report'.cleanup_started = report.cleanup_started
      /\ report'.iterations = report.iterations
      /\ report'.actions_planned = report.actions_planned
  BY DEF ExecuteAction, SimulateAction, CompleteAction, FailAction, IInv, TypeOK,
         Report
<1> QED BY <1>1, <1>2 DEF Reasoned, StopReasonJustified, Ended

LEMMA FinishBatchReasoned ==
  ASSUME IInv, Reasoned, FinishBatch
  PROVE  Reasoned'
<1>1. /\ pc = "execute" /\ queue = <<>> /\ UNCHANGED <<usage, trouble, stale>>
      /\ report \in Report /\ ~trouble
  BY DEF FinishBatch, tickVars, IInv, TypeOK, Placed, Ended
<1>2. /\ report.iterations > 0 /\ report.actions_planned > 0
      /\ report.cleanup_started \/ report.actions_planned = 0
  BY <1>1 DEF Reasoned
<1>3. report.cleanup_started \in BOOLEAN BY <1>1 DEF Report
<1>4. CASE report.action_failures > 0
  <2>1. Finish("ExecutionFailuresDetected", usage', TRUE, report)
    BY <1>1, <1>4 DEF FinishBatch
  <2>2. /\ "ExecutionFailuresDetected" \in StopReasons \cap Errors
        /\ "ExecutionFailuresDetected" \notin Troubles
    BY DEF StopReasons, Troubles, Errors
  <2> QED BY <1>1, <1>2, <1>3, <1>4, <2>1, <2>2, Returns
<1>5. CASE ~(report.action_failures > 0)
  <2>1. pc' = "recollect" /\ report' = report
    BY <1>5 DEF FinishBatch, Continue
  <2>2. Len(queue) = 0 BY <1>1
  <2>3. report.actions_completed \in Nat /\ report.action_failures \in Nat
    BY <1>1 DEF Report
  <2>4. report.actions_completed > 0
    BY <1>2, <1>5, <2>2, <2>3 DEF IInv, Accounted
  <2> QED BY <1>2, <1>5, <2>1, <2>4, GoesOn
<1> QED BY <1>4, <1>5

LEMMA WakeReasoned == Wake => Reasoned'
<1>1. Wake => Fresh' BY DEF Wake, Fresh
<1> QED BY <1>1, FreshReasoned, PTL

LEMMA NextReasoned == IInv /\ Reasoned /\ [Next]_vars => Reasoned'
<1> SUFFICES ASSUME IInv, Reasoned, [Next]_vars PROVE Reasoned' OBVIOUS
<1>1. CASE UNCHANGED vars
  BY <1>1 DEF vars, tickVars, Reasoned, StopReasonJustified, Ended
<1> QED
  BY <1>1, WakeReasoned, HealthReasoned, FailedCallReasoned, CollectUsageReasoned,
     RecollectUsageReasoned, ReachLimitReasoned, CheckTargetReasoned,
     PlanningReasoned, FinishPlanReasoned, ActionReasoned, FinishBatchReasoned
  DEF Next, Tick, Exited

LEMMA ReasonedAlways == Spec => []Reasoned
<1>1. Init => Reasoned
  <2>1. Init => Fresh BY DEF Init, Fresh
  <2> QED BY <2>1, FreshReasoned
<1> QED BY <1>1, NextReasoned, TickInvariance, PTL DEF Spec

(* What the stop reason of a tick asserts is true: of the bytes last        *)
(* measured, of the calls that failed and of the actions that ran.          *)
THEOREM ReasonsHold == Spec => []StopReasonJustified
<1>1. Reasoned => StopReasonJustified BY DEF Reasoned
<1> QED BY <1>1, ReasonedAlways, PTL

(* The usage a tick without an error ends with was measured after the last  *)
(* of its deletions, whichever return of run_once ended it.                 *)
THEOREM FinalUsageIsLast == Spec => []FinalUsageMeasured
<1>1. Reasoned => FinalUsageMeasured
  BY DEF Reasoned, FinalUsageMeasured, Ended
<1> QED BY <1>1, ReasonedAlways, PTL

-----------------------------------------------------------------------------
(* What a sequence of actions weighs: the weights of its suffixes, from the *)
(* last to the first, come to at most n.                                    *)
Weighs(s, w, n) ==
  \E f \in [1 .. Len(s) + 1 -> Nat] :
    /\ f[Len(s) + 1] = 0
    /\ \A i \in 1 .. Len(s) : f[i] = f[i + 1] + w[s[i]]
    /\ f[1] <= n

Weights == [PlannedAction -> Nat]
Bytes == [a \in PlannedAction |-> KnownBytes(a)]
Unknown ==
  [a \in PlannedAction |-> IF a.candidate.size_bytes = None THEN 1 ELSE 0]

LEMMA WeightsTyped == Bytes \in Weights /\ Unknown \in Weights
<1>1. \A a \in PlannedAction : KnownBytes(a) \in Nat
  BY DEF KnownBytes, PlannedAction, Candidate
<1> QED BY <1>1 DEF Bytes, Unknown, Weights

LEMMA EmptyWeighs ==
  ASSUME NEW w \in Weights, NEW n \in Nat
  PROVE  Weighs(<<>>, w, n)
<1> DEFINE f == [i \in 1 .. Len(<<>>) + 1 |-> 0]
<1>1. Len(<<>>) = 0 OBVIOUS
<1>2. f \in [1 .. Len(<<>>) + 1 -> Nat] /\ f[Len(<<>>) + 1] = 0 /\ f[1] = 0
  BY <1>1
<1> HIDE DEF f
<1> QED BY <1>1, <1>2 DEF Weighs

LEMMA WeighsMore ==
  ASSUME NEW s, NEW w, NEW n \in Nat, NEW m \in Nat, n <= m, Weighs(s, w, n),
         Len(s) \in Nat
  PROVE  Weighs(s, w, m)
<1>1. PICK f \in [1 .. Len(s) + 1 -> Nat] :
        /\ f[Len(s) + 1] = 0
        /\ \A i \in 1 .. Len(s) : f[i] = f[i + 1] + w[s[i]]
        /\ f[1] <= n
  BY DEF Weighs
<1>2. f[1] \in Nat OBVIOUS
<1>3. f[1] <= m BY <1>1, <1>2
<1> QED BY <1>1, <1>3 DEF Weighs

LEMMA AppendWeighs ==
  ASSUME NEW w \in Weights, NEW s \in Seq(PlannedAction),
         NEW a \in PlannedAction, NEW n \in Nat, Weighs(s, w, n)
  PROVE  Weighs(Append(s, a), w, n + w[a])
<1>1. PICK f \in [1 .. Len(s) + 1 -> Nat] :
        /\ f[Len(s) + 1] = 0
        /\ \A i \in 1 .. Len(s) : f[i] = f[i + 1] + w[s[i]]
        /\ f[1] <= n
  BY DEF Weighs
<1> DEFINE t == Append(s, a)
           g == [i \in 1 .. Len(t) + 1 |->
                   IF i <= Len(s) + 1 THEN f[i] + w[a] ELSE 0]
<1>2. Len(s) \in Nat /\ Len(t) = Len(s) + 1 /\ t[Len(s) + 1] = a
      /\ \A i \in 1 .. Len(s) : t[i] = s[i]
  OBVIOUS
<1>3. w[a] \in Nat BY DEF Weights
<1> HIDE DEF t
<1>4. g \in [1 .. Len(t) + 1 -> Nat] BY <1>2, <1>3
<1>5. g[Len(t) + 1] = 0 BY <1>2
<1>6. \A i \in 1 .. Len(s) + 1 : g[i] = f[i] + w[a] BY <1>2
<1>7. g[1] <= n + w[a]
  <2>1. f[1] \in Nat /\ g[1] = f[1] + w[a] BY <1>2, <1>6
  <2> QED BY <1>1, <1>3, <2>1
<1> HIDE DEF g
<1>8. ASSUME NEW i \in 1 .. Len(t) PROVE g[i] = g[i + 1] + w[t[i]]
  <2>1. CASE i = Len(s) + 1
    BY <1>1, <1>2, <1>3, <1>5, <1>6, <2>1
  <2>2. CASE i # Len(s) + 1
    <3>1. i \in 1 .. Len(s) /\ i + 1 \in 1 .. Len(s) + 1 BY <1>2, <2>2
    <3>2. f[i] = f[i + 1] + w[s[i]] /\ t[i] = s[i] BY <1>1, <1>2, <3>1
    <3>3. f[i] \in Nat /\ f[i + 1] \in Nat BY <3>1
    <3>5. s[i] \in PlannedAction BY <3>1
    <3>6. w[s[i]] \in Nat BY <3>5 DEF Weights
    <3>4. g[i] = f[i] + w[a] /\ g[i + 1] = f[i + 1] + w[a]
      BY <1>6, <1>2, <3>1
    <3> QED BY <1>3, <3>2, <3>3, <3>4, <3>6
  <2> QED BY <2>1, <2>2
<1>9. Weighs(t, w, n + w[a]) BY <1>4, <1>5, <1>7, <1>8 DEF Weighs
<1> QED BY <1>9 DEF t

LEMMA TailWeighs ==
  ASSUME NEW w \in Weights, NEW s \in Seq(PlannedAction), s # <<>>,
         NEW n \in Nat, Weighs(s, w, n)
  PROVE  /\ n - w[Head(s)] \in Nat
         /\ Weighs(Tail(s), w, n - w[Head(s)])
<1>1. PICK f \in [1 .. Len(s) + 1 -> Nat] :
        /\ f[Len(s) + 1] = 0
        /\ \A i \in 1 .. Len(s) : f[i] = f[i + 1] + w[s[i]]
        /\ f[1] <= n
  BY DEF Weighs
<1> DEFINE t == Tail(s)
           g == [i \in 1 .. Len(t) + 1 |-> f[i + 1]]
<1>2. /\ Len(s) \in Nat /\ Len(s) > 0 /\ Len(t) = Len(s) - 1
      /\ Head(s) = s[1] /\ s[1] \in PlannedAction
      /\ \A i \in 1 .. Len(t) : t[i] = s[i + 1]
  OBVIOUS
<1>3. w[s[1]] \in Nat BY <1>2 DEF Weights
<1> HIDE DEF t
<1>4. f[1] = f[2] + w[s[1]] /\ f[1] \in Nat /\ f[2] \in Nat
  BY <1>1, <1>2
<1>5. g \in [1 .. Len(t) + 1 -> Nat] /\ g[Len(t) + 1] = 0 /\ g[1] = f[2]
  BY <1>1, <1>2
<1>6. ASSUME NEW i \in 1 .. Len(t) PROVE g[i] = g[i + 1] + w[t[i]]
  <2>1. i + 1 \in 1 .. Len(s) /\ g[i] = f[i + 1] /\ g[i + 1] = f[i + 1 + 1]
    BY <1>2
  <2> QED BY <1>1, <1>2, <2>1
<1> HIDE DEF g
<1>7. n - w[s[1]] \in Nat /\ g[1] <= n - w[s[1]]
  BY <1>1, <1>3, <1>4, <1>5
<1>8. Weighs(t, w, n - w[s[1]]) BY <1>5, <1>6, <1>7 DEF Weighs
<1> QED BY <1>2, <1>7, <1>8 DEF t

-----------------------------------------------------------------------------
(* What the iterations begun so far may reclaim, and what is still to come  *)
(* out of it: a whole plan from the target check to the end of planning,    *)
(* then what is queued.                                                     *)
Allowance == report.iterations * MaxDeleteBytes

Unspent ==
  /\ report.reclaimed_estimated_bytes + MaxDeleteBytes <= Allowance
  /\ unknowns + 1 <= report.iterations

PlanWithin ==
  /\ plan.remaining <= MaxDeleteBytes
  /\ Weighs(plan.actions, Bytes, MaxDeleteBytes - plan.remaining)
  /\ Weighs(plan.actions, Unknown, IF plan.reserved THEN 1 ELSE 0)

QueueWithin ==
  /\ Weighs(queue, Bytes, Allowance - report.reclaimed_estimated_bytes)
  /\ Weighs(queue, Unknown, report.iterations - unknowns)

Budgeted ==
  /\ ReclaimBounded
  /\ pc \in {"discover", "plan"} => Unspent
  /\ pc = "plan" => PlanWithin
  /\ pc = "execute" => QueueWithin

LEMMA CapTyped == MaxDeleteBytes \in Nat
BY PlannerAssumption DEF PlannerAssumption, MaxDeleteBytes

LEMMA CountsTyped ==
  ASSUME IInv
  PROVE  /\ report.reclaimed_estimated_bytes \in Nat /\ unknowns \in Nat
         /\ report.iterations \in Nat /\ Allowance \in Nat
<1>1. /\ report.reclaimed_estimated_bytes \in Nat /\ unknowns \in Nat
      /\ report.iterations \in Nat
  BY IterationLimitPositive DEF IInv, TypeOK, Report
<1> QED BY <1>1, CapTyped DEF Allowance

LEMMA FreshBudgeted == Fresh => Budgeted
<1> SUFFICES ASSUME Fresh PROVE Budgeted OBVIOUS
<1>1. /\ report.reclaimed_estimated_bytes = 0 /\ report.iterations = 0
      /\ unknowns = 0 /\ pc = "health"
  BY NewReportTyped DEF Fresh
<1>2. 0 * MaxDeleteBytes = 0 BY CapTyped
<1> QED BY <1>1, <1>2 DEF Budgeted, ReclaimBounded

(* A step that counts nothing, to a place without a budget of its own.      *)
LEMMA KeepsBudget ==
  ASSUME Budgeted,
         report'.reclaimed_estimated_bytes = report.reclaimed_estimated_bytes,
         report'.iterations = report.iterations, unknowns' = unknowns,
         pc' \notin {"discover", "plan", "execute"}
  PROVE  Budgeted'
BY DEF Budgeted, ReclaimBounded

LEMMA CheckTargetBudgeted == IInv /\ Budgeted /\ CheckTarget => Budgeted'
<1> SUFFICES ASSUME IInv, Budgeted, CheckTarget PROVE Budgeted'
  OBVIOUS
<1>1. report \in Report /\ unknowns' = unknowns
  BY DEF IInv, TypeOK, CheckTarget, tickVars
<1>2. CASE TargetReached(PercentUsed(usage))
  <2>1. Finish("TargetWatermarkReached", usage, FALSE, report)
    BY <1>2 DEF CheckTarget
  <2>2. /\ report'.reclaimed_estimated_bytes = report.reclaimed_estimated_bytes
        /\ report'.iterations = report.iterations
        /\ pc' \in {"sleeping", "exited"}
    BY <1>1, <2>1 DEF Finish, Report
  <2> QED BY <1>1, <2>2, KeepsBudget
<1>3. CASE ~TargetReached(PercentUsed(usage))
  <2>1. pc' = "discover" /\ report' = [report EXCEPT !.iterations = @ + 1]
    BY <1>3 DEF CheckTarget, Continue
  <2>2. /\ report'.reclaimed_estimated_bytes = report.reclaimed_estimated_bytes
        /\ report'.iterations = report.iterations + 1
    BY <1>1, <2>1 DEF Report
  <2>3. (report.iterations + 1) * MaxDeleteBytes = Allowance + MaxDeleteBytes
    BY CountsTyped, CapTyped DEF Allowance
  <2>4. /\ report.reclaimed_estimated_bytes <= Allowance
        /\ unknowns <= report.iterations
    BY DEF Budgeted, ReclaimBounded, Allowance
  <2>5. Allowance' = Allowance + MaxDeleteBytes BY <2>2, <2>3 DEF Allowance
  <2>6. Unspent' BY <1>1, <2>2, <2>4, <2>5, CountsTyped, CapTyped DEF Unspent
  <2>7. ReclaimBounded'
    BY <1>1, <2>2, <2>4, <2>5, CountsTyped, CapTyped
       DEF ReclaimBounded, Allowance
  <2> QED BY <2>1, <2>6, <2>7 DEF Budgeted
<1> QED BY <1>2, <1>3

LEMMA DiscoverBudgeted == IInv /\ Budgeted /\ Discover => Budgeted'
<1> SUFFICES ASSUME IInv, Budgeted, Discover PROVE Budgeted'
  OBVIOUS
<1>1. /\ pc = "discover" /\ pc' = "plan" /\ plan' = InitialPlan
      /\ report' = report /\ unknowns' = unknowns
  BY DEF Discover, Continue, tickVars
<1>2. /\ InitialPlan.remaining = MaxDeleteBytes /\ ~InitialPlan.reserved
      /\ InitialPlan.actions = <<>>
  BY DEF InitialPlan
<1>3. Weighs(<<>>, Bytes, 0) /\ Weighs(<<>>, Unknown, 0)
  BY WeightsTyped, EmptyWeighs
<1>4. MaxDeleteBytes - MaxDeleteBytes = 0 /\ MaxDeleteBytes <= MaxDeleteBytes
  BY CapTyped
<1>5. PlanWithin' BY <1>1, <1>2, <1>3, <1>4 DEF PlanWithin
<1>6. Unspent' /\ ReclaimBounded'
  BY <1>1 DEF Budgeted, Unspent, Allowance, ReclaimBounded
<1> QED BY <1>1, <1>5, <1>6 DEF Budgeted

(* The planner pays for each action, or closes the budget with it.          *)
LEMMA PlanNextBudgeted == IInv /\ Budgeted /\ PlanNext => Budgeted'
<1> SUFFICES ASSUME IInv, Budgeted, PlanNext PROVE Budgeted'
  OBVIOUS
<1> DEFINE c == Head(pending)
<1>1. /\ pc = "plan" /\ pc' = "plan" /\ plan' = PlanCandidate(plan, c)
      /\ report' = report /\ unknowns' = unknowns
      /\ plan \in PlanState /\ c \in Candidate
  BY DEF PlanNext, tickVars, IInv, TypeOK
<1>2. Unspent' /\ ReclaimBounded'
  BY <1>1 DEF Budgeted, Unspent, Allowance, ReclaimBounded
<1>3. PlanWithin /\ plan.remaining \in Nat /\ plan.reserved \in BOOLEAN
      /\ plan.actions \in Seq(PlannedAction)
      /\ MaxDeleteBytes - plan.remaining \in Nat
  BY <1>1, CapTyped DEF Budgeted, PlanWithin, PlanState
<1> HIDE DEF c
<1>4. CASE Skipped(plan, c, plan')
  <2>1. PICK why \in SkipReasons : plan' = Skip(plan, c, why)
    BY <1>4 DEF Skipped
  <2>2. /\ plan'.remaining = plan.remaining /\ plan'.reserved = plan.reserved
        /\ plan'.actions = plan.actions
    BY <1>1, <2>1 DEF Skip, PlanState
  <2>3. PlanWithin' BY <1>3, <2>2 DEF PlanWithin
  <2> QED BY <1>1, <1>2, <2>3 DEF Budgeted
<1>5. CASE ProvablySafe(c) /\ Taken(plan, c, plan')
  <2>1. PICK d \in Candidate : Appends(plan, d, plan')
    BY <1>1, <1>5, TakenAppends
  <2> DEFINE a == [candidate |-> d, dry_run |-> DryRun]
  <2>2. a \in PlannedAction /\ a.candidate = d
    BY PlannerAssumption DEF PlannerAssumption, PlannedAction
  <2>3. plan'.actions = Append(plan.actions, a) BY <2>1 DEF Appends
  <2> HIDE DEF a
  <2>4. /\ Bytes[a] = IF d.size_bytes = None THEN 0 ELSE d.size_bytes
        /\ Unknown[a] = IF d.size_bytes = None THEN 1 ELSE 0
    BY <2>2 DEF Bytes, Unknown, KnownBytes
  <2>5. Weighs(plan'.actions, Bytes, MaxDeleteBytes - plan.remaining + Bytes[a])
    BY <1>3, <2>2, <2>3, WeightsTyped, AppendWeighs DEF PlanWithin
  <2> DEFINE u == IF plan.reserved THEN 1 ELSE 0
  <2>6. u \in Nat /\ Weighs(plan.actions, Unknown, u) BY <1>3 DEF PlanWithin
  <2> HIDE DEF u
  <2>7. Weighs(plan'.actions, Unknown, u + Unknown[a])
    BY <1>3, <2>2, <2>3, <2>6, WeightsTyped, AppendWeighs
  <2>8. CASE d.size_bytes # None
    <3>1. /\ d.size_bytes \in Nat /\ d.size_bytes <= plan.remaining
          /\ plan'.remaining = plan.remaining - d.size_bytes
          /\ plan'.reserved = plan.reserved
      BY <2>1, <2>8 DEF Appends
    <3>2. /\ MaxDeleteBytes - plan.remaining + Bytes[a]
               = MaxDeleteBytes - plan'.remaining
          /\ plan'.remaining <= MaxDeleteBytes
          /\ u + Unknown[a] = u
      BY <1>3, <2>4, <2>6, <2>8, <3>1, CapTyped
    <3>3. PlanWithin'
      BY <2>5, <2>7, <3>1, <3>2 DEF PlanWithin, u
    <3> QED BY <1>1, <1>2, <3>3 DEF Budgeted
  <2>9. CASE d.size_bytes = None
    <3>1. plan'.remaining = 0 /\ ~plan.reserved /\ plan'.reserved
      BY <1>1, <2>1, <2>9, PolicyAssumption DEF PolicyAssumption, Appends
    <3>2. u + Unknown[a] = 1 BY <2>4, <2>9, <3>1 DEF u
    <3>3. /\ MaxDeleteBytes - plan.remaining + Bytes[a] \in Nat
          /\ MaxDeleteBytes - plan.remaining + Bytes[a] <= MaxDeleteBytes - 0
          /\ MaxDeleteBytes - 0 \in Nat /\ 0 <= MaxDeleteBytes
      BY <1>3, <2>4, <2>9, CapTyped
    <3>4. Len(plan'.actions) \in Nat BY <1>3, <2>2, <2>3
    <3>5. Weighs(plan'.actions, Bytes, MaxDeleteBytes - 0)
      BY <2>5, <3>3, <3>4, WeighsMore
    <3>6. PlanWithin' BY <2>7, <3>1, <3>2, <3>3, <3>5 DEF PlanWithin
    <3> QED BY <1>1, <1>2, <3>6 DEF Budgeted
  <2> QED BY <2>8, <2>9
<1> QED BY <1>1, <1>4, <1>5, PlanCandidateCases

LEMMA FinishPlanBudgeted == IInv /\ Budgeted /\ FinishPlan => Budgeted'
<1> SUFFICES ASSUME IInv, Budgeted, FinishPlan PROVE Budgeted'
  OBVIOUS
<1> DEFINE counted ==
      [report EXCEPT !.actions_planned = @ + Len(plan.actions),
                     !.skipped_candidates = @ + Len(plan.skipped)]
<1>1. /\ pc = "plan" /\ queue' = plan.actions /\ unknowns' = unknowns
      /\ report \in Report /\ plan \in PlanState
  BY DEF FinishPlan, tickVars, IInv, TypeOK
<1>2. counted.reclaimed_estimated_bytes = report.reclaimed_estimated_bytes
      /\ counted.iterations = report.iterations
      /\ DOMAIN counted = DOMAIN report
  BY <1>1 DEF Report
<1>3. CASE plan.actions = <<>>
  <2>1. Finish(NoActionStopReason(plan.skipped), usage, FALSE, counted)
    BY <1>3 DEF FinishPlan
  <2>2. /\ report'.reclaimed_estimated_bytes = counted.reclaimed_estimated_bytes
        /\ report'.iterations = counted.iterations
        /\ pc' \in {"sleeping", "exited"}
    BY <2>1 DEF Finish
  <2> HIDE DEF counted
  <2> QED BY <1>1, <1>2, <2>2, KeepsBudget
<1>4. CASE plan.actions # <<>>
  <2>1. report' = counted /\ pc' = "execute"
    BY <1>4 DEF FinishPlan, Continue
  <2> HIDE DEF counted
  <2>2. /\ report'.reclaimed_estimated_bytes = report.reclaimed_estimated_bytes
        /\ report'.iterations = report.iterations
    BY <1>2, <2>1
  <2>3. ReclaimBounded' /\ Allowance' = Allowance
    BY <1>1, <2>2 DEF Budgeted, ReclaimBounded, Allowance
  <2>4. Unspent /\ PlanWithin BY <1>1 DEF Budgeted
  <2>5. /\ plan.remaining \in Nat /\ plan.reserved \in BOOLEAN
        /\ Len(plan.actions) \in Nat
    BY <1>1 DEF PlanState
  <2>6. /\ MaxDeleteBytes - plan.remaining \in Nat
        /\ Allowance - report.reclaimed_estimated_bytes \in Nat
        /\ MaxDeleteBytes - plan.remaining
             <= Allowance - report.reclaimed_estimated_bytes
    BY <2>4, <2>5, CapTyped, CountsTyped DEF Unspent, PlanWithin
  <2>7. Weighs(plan.actions, Bytes,
               Allowance - report.reclaimed_estimated_bytes)
    BY <2>4, <2>5, <2>6, WeighsMore DEF PlanWithin
  <2> DEFINE u == IF plan.reserved THEN 1 ELSE 0
  <2>8. /\ u \in Nat /\ report.iterations - unknowns \in Nat
        /\ u <= report.iterations - unknowns
    BY <2>4, <2>5, CountsTyped DEF Unspent
  <2>9. Weighs(plan.actions, Unknown, u) BY <2>4 DEF PlanWithin
  <2> HIDE DEF u
  <2>10. Weighs(plan.actions, Unknown, report.iterations - unknowns)
    BY <2>5, <2>8, <2>9, WeighsMore
  <2>11. QueueWithin' BY <1>1, <2>2, <2>3, <2>7, <2>10 DEF QueueWithin
  <2> QED BY <2>1, <2>3, <2>11 DEF Budgeted
<1> QED BY <1>3, <1>4

(* An executed action takes its weight out of what is left, if it counts.   *)
LEMMA ActionBudgeted ==
  ASSUME IInv, Budgeted, ExecuteAction
  PROVE  Budgeted'
<1> DEFINE h == Head(queue)
           left == Allowance - report.reclaimed_estimated_bytes
           more == report.iterations - unknowns
<1>1. /\ pc = "execute" /\ pc' = "execute" /\ queue # <<>> /\ queue' = Tail(queue)
      /\ report \in Report /\ queue \in Seq(PlannedAction)
  BY DEF ExecuteAction, SimulateAction, CompleteAction, FailAction, IInv, TypeOK
<1>2. /\ report.reclaimed_estimated_bytes <= Allowance
      /\ unknowns <= report.iterations
      /\ Weighs(queue, Bytes, left) /\ Weighs(queue, Unknown, more)
  BY <1>1 DEF Budgeted, ReclaimBounded, QueueWithin, Allowance
<1>3. left \in Nat /\ more \in Nat BY <1>2, CountsTyped
<1>4. /\ h \in PlannedAction /\ Len(Tail(queue)) \in Nat
      /\ Bytes[h] = KnownBytes(h) /\ KnownBytes(h) \in Nat
      /\ Unknown[h] = IF h.candidate.size_bytes = None THEN 1 ELSE 0
  BY <1>1, FirstOfQueue DEF Bytes, Unknown
<1>5. /\ left - Bytes[h] \in Nat /\ more - Unknown[h] \in Nat
      /\ Weighs(Tail(queue), Bytes, left - Bytes[h])
      /\ Weighs(Tail(queue), Unknown, more - Unknown[h])
  BY <1>1, <1>2, <1>3, WeightsTyped, TailWeighs
<1>6. report'.iterations = report.iterations /\ Allowance' = Allowance
  <2>1. report'.iterations = report.iterations
    BY <1>1 DEF ExecuteAction, SimulateAction, CompleteAction, FailAction, Report
  <2> QED BY <2>1 DEF Allowance
<1> HIDE DEF h
<1>7. CASE SimulateAction \/ FailAction
  <2>1. /\ report'.reclaimed_estimated_bytes = report.reclaimed_estimated_bytes
        /\ unknowns' = unknowns
    BY <1>1, <1>7 DEF SimulateAction, FailAction, Report, tickVars
  <2>2. ReclaimBounded' BY <1>2, <1>6, <2>1 DEF ReclaimBounded, Allowance
  <2>3. Unknown[h] \in Nat BY <1>4
  <2>4. left - Bytes[h] <= left /\ more - Unknown[h] <= more
    BY <1>3, <1>4, <2>3
  <2>5. Weighs(Tail(queue), Bytes, left) /\ Weighs(Tail(queue), Unknown, more)
    BY <1>3, <1>4, <1>5, <2>4, WeighsMore
  <2>6. QueueWithin' BY <1>1, <1>6, <2>1, <2>5 DEF QueueWithin
  <2> QED BY <1>1, <2>2, <2>6 DEF Budgeted
<1>8. CASE CompleteAction
  <2>1. /\ report'.reclaimed_estimated_bytes
             = report.reclaimed_estimated_bytes + Bytes[h]
        /\ unknowns' = unknowns + Unknown[h]
    BY <1>1, <1>4, <1>8 DEF CompleteAction, Report, h
  <2>2. /\ Unknown[h] \in Nat
        /\ Allowance - report'.reclaimed_estimated_bytes = left - Bytes[h]
        /\ report.iterations - unknowns' = more - Unknown[h]
    BY <1>4, <2>1, CountsTyped
  <2>3. /\ report'.reclaimed_estimated_bytes <= Allowance
        /\ unknowns' <= report.iterations
    BY <1>4, <1>5, <2>1, <2>2, CountsTyped
  <2>4. ReclaimBounded' BY <1>6, <2>3 DEF ReclaimBounded, Allowance
  <2>5. QueueWithin' BY <1>1, <1>5, <1>6, <2>2 DEF QueueWithin
  <2> QED BY <1>1, <2>4, <2>5 DEF Budgeted
<1> QED BY <1>7, <1>8 DEF ExecuteAction

(* The other calls of run_once. *)
LEMMA CallsBudgeted ==
  ASSUME IInv, Budgeted,
         \/ CheckHealth \/ RecheckHealth \/ CollectUsageFails \/ CollectUsage
         \/ ReachLimit \/ DiscoverFails \/ FinishBatch \/ RecollectUsageFails
         \/ RecollectUsage
  PROVE  Budgeted'
<1>1. report \in Report BY DEF IInv, TypeOK
<1>2. unknowns' = unknowns
  BY DEF CheckHealth, RecheckHealth, CollectUsageFails, CollectUsage,
         ReachLimit, DiscoverFails, FinishBatch, RecollectUsageFails,
         RecollectUsage, tickVars
<1>3. /\ report'.reclaimed_estimated_bytes = report.reclaimed_estimated_bytes
      /\ report'.iterations = report.iterations
      /\ pc' \notin {"discover", "plan", "execute"}
  BY <1>1
     DEF CheckHealth, RecheckHealth, StopUnlessHealthy, HealthAnswers,
         CollectUsageFails, CollectUsage, ReachLimit, DiscoverFails, FinishBatch,
         RecollectUsageFails, RecollectUsage, Finish, Continue, Report
<1> QED BY <1>2, <1>3, KeepsBudget

LEMMA NextBudgeted == IInv /\ Budgeted /\ [Next]_vars => Budgeted'
<1> SUFFICES ASSUME IInv, Budgeted, [Next]_vars PROVE Budgeted' OBVIOUS
<1>1. CASE UNCHANGED vars
  BY <1>1 DEF vars, tickVars, Budgeted, ReclaimBounded, Unspent, PlanWithin,
              QueueWithin, Allowance
<1>2. CASE Wake
  <2>1. Wake => Fresh' BY DEF Wake, Fresh
  <2> QED BY <1>2, <2>1, FreshBudgeted, PTL
<1> QED
  BY <1>1, <1>2, CallsBudgeted, CheckTargetBudgeted, DiscoverBudgeted,
     PlanNextBudgeted, FinishPlanBudgeted, ActionBudgeted
  DEF Next, Tick, Exited

(* A tick reclaims at most the deletion cap, and deletes at most one        *)
(* candidate of unknown size, in each of its iterations.                    *)
THEOREM ReclaimWithinCaps == Spec => []ReclaimBounded
<1>1. Init => Budgeted
  <2>1. Init => Fresh BY DEF Init, Fresh
  <2> QED BY <2>1, FreshBudgeted
<1>2. Budgeted => ReclaimBounded BY DEF Budgeted
<1> QED BY <1>1, <1>2, NextBudgeted, TickInvariance, PTL DEF Spec

(* The cap is one for the whole run, as domain.rs:20 says, where a run has  *)
(* at most one iteration (with_limits of at most 1).                        *)
THEOREM CapForOneIteration ==
  ASSUME MaxCycleIterations <= 1
  PROVE  Spec => []CapPerTick
<1>1. IInv /\ ReclaimBounded => CapPerTick
  <2> SUFFICES ASSUME IInv, ReclaimBounded PROVE CapPerTick OBVIOUS
  <2>1. report.iterations \in 0 .. 1
    BY SchedulerAssumption DEF IInv, TypeOK, Report, IterationLimit,
       SchedulerAssumption
  <2>2. report.reclaimed_estimated_bytes \in Nat BY DEF IInv, TypeOK, Report
  <2>3. CASE report.iterations = 0
    BY <2>2, <2>3, CapTyped DEF ReclaimBounded, CapPerTick
  <2>4. CASE report.iterations = 1
    BY <2>2, <2>4, CapTyped DEF ReclaimBounded, CapPerTick
  <2> QED BY <2>1, <2>3, <2>4
<1> QED BY <1>1, TickInvariance, ReclaimWithinCaps, PTL

-----------------------------------------------------------------------------
LEMMA OnlyBatchDeletes ==
  ASSUME IInv, [Next]_vars, issued' > issued
  PROVE  pc = "execute"
<1>1. issued \in Nat BY DEF IInv, TypeOK
<1>2. CASE UNCHANGED vars
  <2>1. issued' = issued BY <1>2 DEF vars, tickVars
  <2> QED BY <1>1, <2>1
<1>3. CASE Wake
  <2>1. issued' = 0 BY <1>3 DEF Wake
  <2> QED BY <1>1, <2>1
<1>4. CASE Tick
  <2>1. issued' = issued \/ pc = "execute"
    BY <1>4
       DEF Tick, CheckHealth, CollectUsageFails, CollectUsage, ReachLimit,
           RecheckHealth, CheckTarget, DiscoverFails, Discover, PlanNext,
           FinishPlan, ExecuteAction, FinishBatch,
           RecollectUsageFails, RecollectUsage, tickVars
  <2> QED BY <1>1, <2>1
<1> QED BY <1>2, <1>3, <1>4 DEF Next, Exited

(* A batch begins behind a finished plan, and so never after a failure.     *)
LEMMA OnlyPlansBegin ==
  ASSUME IInv, Reasoned, [Next]_vars, Len(queue') > Len(queue)
  PROVE  pc = "plan" /\ report.action_failures = 0
<1>1. queue \in Seq(PlannedAction) BY DEF IInv, TypeOK
<1>2. CASE UNCHANGED queue
  BY <1>1, <1>2
<1>3. CASE Wake
  <2>1. Len(queue') = 0 BY <1>3 DEF Wake
  <2> QED BY <1>1, <2>1
<1>4. CASE ExecuteAction
  <2>1. queue # <<>> /\ queue' = Tail(queue)
    BY <1>4 DEF ExecuteAction, SimulateAction, CompleteAction, FailAction
  <2> QED BY <1>1, <2>1
<1>5. CASE FinishPlan
  <2>1. pc = "plan" BY <1>5 DEF FinishPlan
  <2>2. report.action_failures \in Nat BY DEF IInv, TypeOK, Report
  <2>3. ~(report.action_failures > 0) BY <2>1 DEF Reasoned, Ended
  <2> QED BY <2>1, <2>2, <2>3
<1> QED
  BY <1>2, <1>3, <1>4, <1>5
     DEF Next, Tick, Exited, CheckHealth, CollectUsageFails, CollectUsage,
         ReachLimit, RecheckHealth, CheckTarget, DiscoverFails, Discover,
         PlanNext, FinishBatch, RecollectUsageFails, RecollectUsage, vars

LEMMA ClosedStep ==
  ASSUME IInv, Reasoned, [Next]_vars
  PROVE  /\ issued' > issued => ~trouble
         /\ Len(queue') > Len(queue) => ~trouble /\ report.action_failures = 0
<1>1. pc \in {"plan", "execute"} => ~trouble BY DEF IInv, Placed, Ended
<1> QED BY <1>1, OnlyBatchDeletes, OnlyPlansBegin

(* Fail closed: after a health check, a measurement or a discovery that     *)
(* failed, or answered unhealthy or unknown, the tick hands no delete to    *)
(* the backend; and a batch in which an action failed is its last.          *)
THEOREM FailClosed == Spec => NoDeleteAfterTrouble
<1>1. IInv /\ Reasoned /\ [Next]_vars
        => [/\ issued' > issued => ~trouble
            /\ Len(queue') > Len(queue) =>
                 ~trouble /\ report.action_failures = 0]_vars
  BY ClosedStep
<1> QED BY <1>1, TickInvariance, ReasonedAlways, PTL DEF Spec, NoDeleteAfterTrouble

(* Every delete follows a healthy answer given since the usage it responds  *)
(* to was measured, or, in the first iteration, just before it.             *)
THEOREM BatchesVetted == Spec => EachBatchVetted
<1>1. IInv /\ [Next]_vars => [issued' > issued => vetted]_vars
  <2> SUFFICES ASSUME IInv, [Next]_vars, issued' > issued PROVE vetted
    OBVIOUS
  <2>1. pc = "execute" BY OnlyBatchDeletes
  <2> QED BY <2>1 DEF IInv, Placed, AboveTarget
<1> QED BY <1>1, TickInvariance, PTL DEF Spec, EachBatchVetted

-----------------------------------------------------------------------------
(* The refinement of WatermarkGate. *)

(* A cycle begins only where the first snapshot is judged. *)
LEMMA CycleBegins ==
  ASSUME IInv, [Next]_vars, ~Cleaning, Cleaning'
  PROVE  /\ usage' \in Readings /\ usage'.total > 0
         /\ AtLeast(usage', HighWatermark)
         /\ issued' = 0
<1>1. CASE CollectUsage
  <2>1. PICK snapshot \in Snapshots :
          /\ usage' = snapshot
          /\ IF PercentUsed(snapshot) = None
             THEN pc' \in {"sleeping", "exited"}
             ELSE IF ~StartsCleanup(PercentUsed(snapshot))
             THEN pc' \in {"sleeping", "exited"}
             ELSE TRUE
    BY <1>1 DEF CollectUsage, Finish
  <2>2. PercentUsed(snapshot) # None /\ StartsCleanup(PercentUsed(snapshot))
    BY <2>1 DEF Cleaning, Ended
  <2>3. issued' = issued BY <1>1 DEF CollectUsage
  <2>4. issued = 0 BY <1>1 DEF CollectUsage, IInv, Placed
  <2>5. PercentUsed(usage') >= HighWatermark
    BY <2>1, <2>2 DEF StartsCleanup
  <2>6. usage' \in Readings /\ HighWatermark \in Nat
    BY <2>1, SchedulerAssumption DEF SchedulerAssumption, Snapshots
  <2>7. usage'.total > 0
    BY <2>1, <2>2, <2>6, PercentTyped
  <2>8. AtLeast(usage', HighWatermark)
    BY <2>1, <2>2, <2>5, <2>6, PercentFaithful
  <2> QED BY <2>3, <2>4, <2>6, <2>7, <2>8
<1>2. CASE Wake
  BY <1>2, NewReportTyped DEF Wake, Cleaning
<1>3. CASE CheckHealth
  <2>1. ~report.cleanup_started BY <1>3 DEF CheckHealth, IInv, Placed
  <2>2. PICK answer \in HealthAnswers : StopUnlessHealthy(answer, "usage")
    BY <1>3 DEF CheckHealth
  <2>3. report' = report \/ pc' \in {"sleeping", "exited"}
    BY <2>2 DEF StopUnlessHealthy, HealthAnswers, Continue, Finish
  <2> QED BY <2>1, <2>3 DEF Cleaning, Ended
<1>4. CASE CollectUsageFails
  BY <1>4 DEF CollectUsageFails, Finish, Cleaning, Ended
<1>5. CASE UNCHANGED vars
  BY <1>5 DEF vars, Cleaning, Ended
<1>6. CASE InLoop
  BY <1>6 DEF InLoop, IInv, Placed, Cleaning, Ended
<1>7. CASE Exited
  BY <1>7 DEF Exited, vars, Cleaning, Ended
<1>8. Tick => \/ CheckHealth \/ CollectUsageFails \/ CollectUsage \/ InLoop
  BY DEF Tick, ReachLimit, RecheckHealth, CheckTarget, DiscoverFails, Discover,
         PlanNext, FinishPlan, ExecuteAction,
         FinishBatch, RecollectUsageFails, RecollectUsage, InLoop
<1> QED BY <1>1, <1>2, <1>3, <1>4, <1>5, <1>6, <1>7, <1>8 DEF Next

(* Inside a cycle a step deletes, measures, or changes neither count nor    *)
(* level.                                                                   *)
LEMMA CycleGoesOn ==
  ASSUME IInv, [Next]_vars, Cleaning, Cleaning'
  PROVE  \/ UNCHANGED <<usage, issued>>
         \/ /\ Above(usage, TargetWatermark) /\ ~DryRun
            /\ issued' = issued + 1 /\ usage' = usage
         \/ RecollectUsage /\ issued' = issued
<1>1. CASE ExecuteAction /\ (CompleteAction \/ FailAction)
  <2>1. pc = "execute" /\ ~DryRun /\ issued' = issued + 1 /\ usage' = usage
    BY <1>1 DEF ExecuteAction, CompleteAction, FailAction, Simulated
  <2> QED BY <2>1 DEF IInv, Placed, AboveTarget
<1>2. CASE RecollectUsage
  BY <1>2 DEF RecollectUsage
<1>3. CASE UNCHANGED vars
  BY <1>3 DEF vars, tickVars
<1>4. ~Wake /\ ~CollectUsage
  BY DEF Wake, CollectUsage, Cleaning, Ended, IInv, Placed
<1>5. Tick => \/ CollectUsage \/ RecollectUsage
              \/ ExecuteAction /\ (CompleteAction \/ FailAction)
              \/ UNCHANGED <<usage, issued>>
  BY DEF Tick, CheckHealth, CollectUsageFails, ReachLimit, RecheckHealth,
         CheckTarget, DiscoverFails, Discover, PlanNext, FinishPlan,
         ExecuteAction, SimulateAction, FinishBatch, RecollectUsageFails, tickVars
<1> QED BY <1>1, <1>2, <1>3, <1>4, <1>5 DEF Next, Exited

LEMMA GateStep ==
  ASSUME IInv, IInv', [Next]_vars
  PROVE  [Gate!Begin \/ Gate!Delete \/ Gate!Measure \/ Gate!End]_(Gate!gate)
<1>1. CASE ~Cleaning /\ ~Cleaning'
  BY <1>1 DEF Gate!gate
<1>2. CASE ~Cleaning /\ Cleaning'
  <2>1. /\ usage' \in Readings /\ usage'.total > 0
        /\ AtLeast(usage', HighWatermark) /\ issued' = 0
    BY <1>2, CycleBegins
  <2> QED BY <1>2, <2>1 DEF Gate!Begin, AtLeast
<1>3. CASE Cleaning /\ ~Cleaning'
  BY <1>3 DEF Gate!End
<1>4. CASE Cleaning /\ Cleaning'
  <2>1. CASE UNCHANGED <<usage, issued>>
    BY <1>4, <2>1 DEF Gate!gate
  <2>2. CASE /\ Above(usage, TargetWatermark) /\ ~DryRun
             /\ issued' = issued + 1 /\ usage' = usage
    BY <1>4, <2>2 DEF Gate!Delete, Above
  <2>3. CASE RecollectUsage /\ issued' = issued
    <3>1. InLoop' 
      <4>1. pc' \in {"sleeping", "exited", "loop"}
        BY <2>3 DEF RecollectUsage, Finish, Continue
      <4> QED BY <1>4, <4>1 DEF Cleaning, Ended, InLoop
    <3>2. usage' \in Readings BY <3>1 DEF IInv, Placed
    <3> QED BY <1>4, <2>3, <3>2 DEF Gate!Measure
  <2> QED BY <1>4, <2>1, <2>2, <2>3, CycleGoesOn
<1> QED BY <1>1, <1>2, <1>3, <1>4

(* Each deletion happens in a cycle begun at or above the high watermark    *)
(* while the latest measured usage is above the target, never in a dry run. *)
THEOREM GateImplemented == Spec => ImplementsGate
<1>1. Init => Gate!Idle
  BY NewReportTyped DEF Init, Gate!Idle, Cleaning
<1>2. IInv /\ IInv' /\ [Next]_vars
        => [Gate!Begin \/ Gate!Delete \/ Gate!Measure \/ Gate!End]_(Gate!gate)
  BY GateStep
<1> QED
  BY <1>1, <1>2, TickInvariance, PTL DEF Spec, ImplementsGate, Gate!Spec

-----------------------------------------------------------------------------
(* What is left of a tick: the iterations not begun, the places of run_once *)
(* still ahead in this one, and what the pass of the planner, or the batch, *)
(* has yet to visit.                                                        *)
Ahead ==
  CASE pc = "health" -> 8 [] pc = "usage" -> 7 [] pc = "discover" -> 6
    [] pc = "plan" -> 5 [] pc = "execute" -> 4 [] pc = "recollect" -> 3
    [] pc = "loop" -> 2 [] pc = "target" -> 1 [] OTHER -> 0

Unvisited == IF pc = "plan" THEN Len(pending) ELSE Len(queue)

TickLeft == <<IterationLimit - report.iterations, <<Ahead, Unvisited>>>>

(* Three counters, of which a later one counts while the earlier ones stay. *)
Fewer == OpToRel(<, Nat)
TickOrder ==
  LexPairOrdering(Fewer, LexPairOrdering(Fewer, Fewer, Nat, Nat),
                  Nat, Nat \X Nat)

(* There is no endless descent in it. *)
THEOREM TickOrderWellFounded == IsWellFoundedOn(TickOrder, Nat \X (Nat \X Nat))
<1>1. IsWellFoundedOn(Fewer, Nat) BY NatLessThanWellFounded DEF Fewer
<1>2. IsWellFoundedOn(LexPairOrdering(Fewer, Fewer, Nat, Nat), Nat \X Nat)
  BY <1>1, WFLexPairOrdering
<1> QED BY <1>1, <1>2, WFLexPairOrdering DEF TickOrder

LEMMA OrderOf ==
  ASSUME NEW a \in Nat, NEW b \in Nat, NEW c \in Nat,
         NEW k \in Nat, NEW l \in Nat, NEW m \in Nat,
         a < k \/ (a = k /\ (b < l \/ (b = l /\ c < m)))
  PROVE  <<<<a, <<b, c>>>>, <<k, <<l, m>>>>>> \in TickOrder
BY DEF TickOrder, LexPairOrdering, Fewer, OpToRel

LEMMA LeftTyped == IInv => TickLeft \in Nat \X (Nat \X Nat)
<1> SUFFICES ASSUME IInv PROVE TickLeft \in Nat \X (Nat \X Nat) OBVIOUS
<1>1. IterationLimit - report.iterations \in Nat
  BY IterationLimitPositive DEF IInv, TypeOK, Report
<1>2. Ahead \in Nat BY DEF Ahead
<1>3. Unvisited \in Nat BY DEF Unvisited, IInv, TypeOK
<1> QED BY <1>1, <1>2, <1>3 DEF TickLeft

(* A new iteration is counted in front of its discovery only. *)
LEMMA SameIteration ==
  ASSUME IInv, Tick, ~CheckTarget
  PROVE  report'.iterations = report.iterations
<1>1. report \in Report BY DEF IInv, TypeOK
<1>2. ASSUME NEW base, \E why, final, error : Finish(why, final, error, base),
             base \in Report, base.iterations = report.iterations
      PROVE  report'.iterations = report.iterations
  BY <1>2 DEF Finish, Report
<1>3. CASE CheckHealth \/ RecheckHealth
  BY <1>1, <1>3
     DEF CheckHealth, RecheckHealth, StopUnlessHealthy, HealthAnswers, Finish,
         Report
<1>4. CASE CollectUsageFails \/ DiscoverFails \/ RecollectUsageFails \/ ReachLimit
  BY <1>1, <1>4
     DEF CollectUsageFails, DiscoverFails, RecollectUsageFails, ReachLimit,
         Finish, Report
<1>5. CASE CollectUsage
  <2>1. PICK snapshot \in Snapshots :
          LET seen == [report EXCEPT !.initial_usage = snapshot] IN
            \/ \E why, final, error : Finish(why, final, error, seen)
            \/ report' = [seen EXCEPT !.cleanup_started = TRUE]
    BY <1>5 DEF CollectUsage
  <2> DEFINE seen == [report EXCEPT !.initial_usage = snapshot]
  <2>2. seen \in Report /\ seen.iterations = report.iterations
    BY <1>1 DEF Report
  <2>3. [seen EXCEPT !.cleanup_started = TRUE].iterations = report.iterations
    BY <1>1 DEF Report
  <2> QED BY <1>2, <2>1, <2>2, <2>3
<1>6. CASE FinishPlan
  <2> DEFINE counted ==
        [report EXCEPT !.actions_planned = @ + Len(plan.actions),
                       !.skipped_candidates = @ + Len(plan.skipped)]
  <2>1. \/ \E why, final, error : Finish(why, final, error, counted)
        \/ report' = counted
    BY <1>6 DEF FinishPlan
  <2>2. counted \in Report /\ counted.iterations = report.iterations
    <3>1. /\ plan.actions \in Seq(PlannedAction)
          /\ Len(plan.skipped) \in Nat
      BY DEF IInv, TypeOK, PlanState
    <3>2. Len(plan.actions) \in Nat BY <3>1
    <3>3. PICK a \in Nat : a = report.actions_planned + Len(plan.actions)
      BY <1>1, <3>2 DEF Report
    <3>4. PICK n \in Nat : n = report.skipped_candidates + Len(plan.skipped)
      BY <1>1, <3>1 DEF Report
    <3>5. counted = [report EXCEPT !.actions_planned = a,
                                   !.skipped_candidates = n]
      BY <3>3, <3>4
    <3> HIDE DEF counted
    <3> QED BY <1>1, <3>5 DEF Report
  <2> HIDE DEF counted
  <2> QED BY <1>2, <2>1, <2>2
<1>7. CASE ExecuteAction
  BY <1>1, <1>7
     DEF ExecuteAction, SimulateAction, CompleteAction, FailAction, Report
<1>8. CASE FinishBatch BY <1>1, <1>8 DEF FinishBatch, Finish, Report
<1>9. CASE RecollectUsage BY <1>1, <1>9 DEF RecollectUsage, Finish, Report
<1>10. CASE Discover \/ PlanNext BY <1>10 DEF Discover, PlanNext
<1> QED
  BY <1>3, <1>4, <1>5, <1>6, <1>7, <1>8, <1>9, <1>10 DEF Tick

(* Within an iteration run_once goes one way. *)
LEMMA GoesAhead ==
  ASSUME IInv, Tick, ~CheckTarget
  PROVE  Ahead' < Ahead \/ (Ahead' = Ahead /\ Unvisited' < Unvisited)
<1>1. CASE CheckHealth \/ RecheckHealth
  BY <1>1 DEF CheckHealth, RecheckHealth, StopUnlessHealthy, HealthAnswers,
              Finish, Continue, Ahead
<1>2. CASE CollectUsageFails \/ DiscoverFails \/ RecollectUsageFails \/ ReachLimit
  BY <1>2 DEF CollectUsageFails, DiscoverFails, RecollectUsageFails, ReachLimit,
              Finish, Ahead
<1>3. CASE CollectUsage
  BY <1>3 DEF CollectUsage, Finish, Continue, Ahead
<1>4. CASE Discover BY <1>4 DEF Discover, Continue, Ahead
<1>5. CASE PlanNext
  <2>1. pending # <<>> /\ pending' = Tail(pending) /\ pending \in Seq(Candidate)
    BY <1>5 DEF PlanNext, IInv, TypeOK
  <2>2. Len(pending') < Len(pending) BY <2>1
  <2> QED BY <1>5, <2>2 DEF PlanNext, Ahead, Unvisited
<1>6. CASE FinishPlan
  <2>1. pc = "plan" /\ pc' \in {"sleeping", "exited", "execute"}
    BY <1>6 DEF FinishPlan, Finish, Continue
  <2> QED BY <2>1 DEF Ahead
<1>7. CASE ExecuteAction
  <2>1. /\ pc = "execute" /\ pc' = "execute"
        /\ queue # <<>> /\ queue' = Tail(queue)
    BY <1>7 DEF ExecuteAction, SimulateAction, CompleteAction, FailAction
  <2>2. Len(queue') < Len(queue) BY <2>1 DEF IInv, TypeOK
  <2> QED BY <2>1, <2>2 DEF Ahead, Unvisited
<1>8. CASE FinishBatch BY <1>8 DEF FinishBatch, Finish, Continue, Ahead
<1>9. CASE RecollectUsage
  BY <1>9 DEF RecollectUsage, Finish, Continue, Ahead
<1> QED BY <1>1, <1>2, <1>3, <1>4, <1>5, <1>6, <1>7, <1>8, <1>9 DEF Tick

(* An iteration is begun, or the tick ends. *)
LEMMA CheckTargetLeaves ==
  ASSUME IInv, CheckTarget
  PROVE  \/ report'.iterations = report.iterations + 1
         \/ report'.iterations = report.iterations /\ Ahead' < Ahead
<1>1. report \in Report BY DEF IInv, TypeOK
<1>2. CASE TargetReached(PercentUsed(usage))
  <2>1. pc = "target" /\ pc' \in {"sleeping", "exited"}
    BY <1>2 DEF CheckTarget, Finish
  <2>2. report'.iterations = report.iterations
    BY <1>1, <1>2 DEF CheckTarget, Finish, Report
  <2> QED BY <2>1, <2>2 DEF Ahead
<1>3. CASE ~TargetReached(PercentUsed(usage))
  BY <1>1, <1>3 DEF CheckTarget, Report
<1> QED BY <1>2, <1>3

(* What the end of a tick rests on, for lists of any length, any number of  *)
(* iterations and any answers: every call, every candidate visited and      *)
(* every action settled leaves less of the tick, in an order that has no    *)
(* endless descent (run_once is bounded by max_cycle_iterations).           *)
THEOREM TicksShorten ==
  Spec => /\ [](TickLeft \in Nat \X (Nat \X Nat))
          /\ [][Tick => <<TickLeft', TickLeft>> \in TickOrder]_vars
<1>0. IInv' => (TickLeft \in Nat \X (Nat \X Nat))' BY LeftTyped, PTL
<1>1. ASSUME IInv, IInv', Tick PROVE <<TickLeft', TickLeft>> \in TickOrder
  <2>1. /\ IterationLimit - report.iterations \in Nat
        /\ Ahead \in Nat /\ Unvisited \in Nat
    BY <1>1, LeftTyped DEF TickLeft
  <2>2. TickLeft' \in Nat \X (Nat \X Nat) BY <1>0, <1>1
  <2>3. /\ IterationLimit - report'.iterations \in Nat
        /\ Ahead' \in Nat /\ Unvisited' \in Nat
    BY <2>2 DEF TickLeft
  <2>4. /\ report.iterations \in Nat /\ report'.iterations \in Nat
        /\ IterationLimit \in Nat
    BY <1>1, IterationLimitPositive DEF IInv, TypeOK, Report
  <2>5. \/ IterationLimit - report'.iterations < IterationLimit - report.iterations
        \/ /\ IterationLimit - report'.iterations
                = IterationLimit - report.iterations
           /\ Ahead' < Ahead \/ (Ahead' = Ahead /\ Unvisited' < Unvisited)
    BY <1>1, <2>4, SameIteration, GoesAhead, CheckTargetLeaves
  <2> QED BY <2>1, <2>3, <2>5, OrderOf DEF TickLeft
<1>2. IInv /\ IInv' => [Tick => <<TickLeft', TickLeft>> \in TickOrder]_vars
  BY <1>1
<1> QED BY <1>2, LeftTyped, TickInvariance, PTL

-----------------------------------------------------------------------------
(* Whatever is planned, or waits in the batch, is provably safe to delete.  *)
AllSafe(actions) ==
  \A i \in DOMAIN actions : ProvablySafe(actions[i].candidate)

SafeInv == AllSafe(plan.actions) /\ AllSafe(queue)

LEMMA FreshSafe == Fresh => SafeInv
BY DEF Fresh, InitialPlan, SafeInv, AllSafe

LEMMA PlanNextSafe ==
  ASSUME IInv, AllSafe(plan.actions), PlanNext
  PROVE  AllSafe(plan'.actions)
<1> DEFINE c == Head(pending)
<1>1. plan \in PlanState /\ c \in Candidate
  BY DEF IInv, TypeOK, PlanNext
<1>2. CASE Skipped(plan, c, plan')
  BY <1>1, <1>2, SkippedTyped
<1>3. CASE ProvablySafe(c) /\ Taken(plan, c, plan')
  <2>1. PICK d \in Candidate : ProvablySafe(d) /\ Appends(plan, d, plan')
    BY <1>1, <1>3, TakenAppends
  <2> DEFINE a == [candidate |-> d, dry_run |-> DryRun]
  <2>2. plan'.actions = Append(plan.actions, a) /\ ProvablySafe(a.candidate)
    BY <2>1 DEF Appends
  <2>3. plan.actions \in Seq(PlannedAction)
    BY <1>1 DEF PlanState
  <2> HIDE DEF a
  <2> QED BY <2>2, <2>3 DEF AllSafe
<1>4. plan' = PlanCandidate(plan, c)
  BY DEF PlanNext
<1> QED BY <1>1, <1>2, <1>3, <1>4, PlanCandidateCases

LEMMA TailSafe ==
  ASSUME NEW s \in Seq(PlannedAction), s # <<>>, AllSafe(s)
  PROVE  ProvablySafe(Head(s).candidate) /\ AllSafe(Tail(s))
<1>1. Head(s) = s[1] /\ 1 \in DOMAIN s OBVIOUS
<1>2. \A i \in DOMAIN Tail(s) : Tail(s)[i] = s[i + 1] /\ i + 1 \in DOMAIN s
  OBVIOUS
<1> QED BY <1>1, <1>2 DEF AllSafe

LEMMA NextSafe == IInv /\ SafeInv /\ [Next]_vars => SafeInv'
<1> SUFFICES ASSUME IInv, SafeInv, [Next]_vars PROVE SafeInv' OBVIOUS
<1>1. CASE Wake
  <2>1. Wake => Fresh' BY DEF Wake, Fresh
  <2> QED BY <1>1, <2>1, FreshSafe, PTL
<1>2. CASE Discover
  <2>1. plan' = InitialPlan /\ queue' = queue BY <1>2 DEF Discover
  <2>2. AllSafe(InitialPlan.actions) BY DEF AllSafe, InitialPlan
  <2> QED BY <2>1, <2>2 DEF SafeInv
<1>3. CASE PlanNext
  <2>1. queue' = queue BY <1>3 DEF PlanNext
  <2> QED BY <1>3, <2>1, PlanNextSafe DEF SafeInv
<1>4. CASE FinishPlan
  <2>1. queue' = plan.actions /\ plan' = plan BY <1>4 DEF FinishPlan
  <2> QED BY <2>1 DEF SafeInv
<1>5. CASE ExecuteAction
  <2>1. queue # <<>> /\ queue' = Tail(queue) /\ plan' = plan
    BY <1>5 DEF ExecuteAction, SimulateAction, CompleteAction, FailAction
  <2>2. queue \in Seq(PlannedAction) BY DEF IInv, TypeOK
  <2> QED BY <2>1, <2>2, TailSafe DEF SafeInv
<1>6. ~Wake /\ ~Discover /\ ~PlanNext /\ ~FinishPlan /\ ~ExecuteAction
        => queue' = queue /\ plan' = plan
  BY DEF Next, Tick, Exited, vars, CheckHealth, CollectUsageFails,
         CollectUsage, ReachLimit, RecheckHealth, CheckTarget, DiscoverFails,
         FinishBatch, RecollectUsageFails, RecollectUsage
<1>7. queue' = queue /\ plan' = plan => SafeInv'
  BY DEF SafeInv
<1> QED BY <1>1, <1>2, <1>3, <1>4, <1>5, <1>6, <1>7

(* Each action handed to the backend is one of the batch, and its candidate *)
(* passed every check of the policy: from discovery over the planner to the *)
(* executor nothing slips in (run_once, execute_plan).                      *)
OnlySafeDeleted ==
  [][issued' > issued =>
       queue # <<>> /\ ProvablySafe(Head(queue).candidate)]_vars

LEMMA DeletedIsSafe ==
  ASSUME IInv, SafeInv, [Next]_vars, issued' > issued
  PROVE  queue # <<>> /\ ProvablySafe(Head(queue).candidate)
<1>1. pc = "execute" BY OnlyBatchDeletes
<1>2. issued \in Nat BY DEF IInv, TypeOK
<1>3. ExecuteAction
  <2>1. UNCHANGED vars \/ FinishBatch => issued' = issued
    BY DEF vars, tickVars, FinishBatch
  <2>2. ~(issued' = issued) BY <1>2
  <2> QED
    BY <1>1, <2>1, <2>2
       DEF Next, Tick, Wake, Exited, CheckHealth, CollectUsageFails,
           CollectUsage, ReachLimit, RecheckHealth, CheckTarget,
           DiscoverFails, Discover, PlanNext, FinishPlan,
           RecollectUsageFails, RecollectUsage
<1>4. queue # <<>> BY <1>3 DEF ExecuteAction
<1>5. queue \in Seq(PlannedAction) BY DEF IInv, TypeOK
<1> QED BY <1>4, <1>5, TailSafe DEF SafeInv

(* For every configuration and whatever discovery answers.                  *)
THEOREM DeletesOnlySafe == Spec => OnlySafeDeleted
<1>1. Init => SafeInv
  <2>1. Init => Fresh BY DEF Init, Fresh
  <2> QED BY <2>1, FreshSafe
<1>2. IInv /\ SafeInv /\ [Next]_vars
        => [issued' > issued =>
              queue # <<>> /\ ProvablySafe(Head(queue).candidate)]_vars
  BY DeletedIsSafe
<1> QED
  BY <1>1, <1>2, NextSafe, TickInvariance, PTL DEF Spec, OnlySafeDeleted
=============================================================================
