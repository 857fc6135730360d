------------------------------ MODULE Scheduler ------------------------------
(***************************************************************************)
(* The watermark loop of one scheduler tick (src/src/scheduler.rs,          *)
(* CleanupScheduler::run_once) inside the loop of ticks of the daemon       *)
(* (src/src/main.rs, run_scheduler_loop).                                   *)
(*                                                                         *)
(* Every call of the backend is an action, with whatever the backend may    *)
(* answer; the planner runs one candidate per step (Planner) and the        *)
(* executor one action per step: here it only completes or fails it, the    *)
(* worker threads behind it are the module Executor.                        *)
(***************************************************************************)
EXTENDS Planner

CONSTANTS
  HighWatermark, TargetWatermark,   \* percents of CleanupConfig
  MaxCycleIterations,               \* as given to with_limits
  Readings,                         \* bytes of a file system that df may show
  CandidateLists,                   \* what discovery may return
  TickLimit                         \* ticks of --ticks or --once; None: daemon

(* Config::validate requires target < high. *)
ASSUME SchedulerAssumption ==
  /\ HighWatermark \in Nat /\ TargetWatermark \in Nat
  /\ TargetWatermark < HighWatermark
  /\ MaxCycleIterations \in Nat
  /\ Readings \subseteq [used : Nat, total : Nat]
  /\ None \notin Readings
  /\ CandidateLists \subseteq Seq(Candidate)
  /\ TickLimit \in Nat \ {0} \/ TickLimit = None

VARIABLES
  pc,        \* where run_once is, or "sleeping" / "exited" between ticks
  report,    \* SchedulerRunReport
  usage,     \* latest usage snapshot of this tick
  pending,   \* discovered candidates the planner has not visited
  plan,      \* state of the planner's pass
  queue,     \* planned actions not yet executed
  ticks      \* finished ticks, counted when they are limited

(* History variables, reset at each tick: nothing in the code reads them.   *)
VARIABLES
  issued,    \* deletes handed to the backend
  unknowns,  \* of these, completed ones of unknown size
  vetted,    \* backend found healthy since usage was last measured
  trouble,   \* a health check, measurement or discovery failed or answered
             \* unhealthy or unknown
  stale      \* a delete completed after the usage was last measured

tickVars == <<issued, unknowns, vetted, trouble, stale>>
vars == <<pc, report, usage, pending, plan, queue, ticks, tickVars>>

(* collect_usage: what is shown of the file system of the root directory of *)
(* the backend.                                                             *)
Snapshots == Readings

(* UsageSnapshot::percent_used: a u64 cut down to a u8. *)
PercentUsed(snapshot) ==
  LET hundredfold == IF snapshot.used * 100 > MaxU64
                     THEN MaxU64 ELSE snapshot.used * 100
  IN  IF snapshot.total = 0
      THEN None ELSE (hundredfold \div snapshot.total) % 256

StopReasons ==
  {"BackendUnhealthy", "HealthCheckFailed", "UsageCollectionFailed",
   "UsagePercentUnknown", "BelowHighWatermark", "TargetWatermarkReached",
   "CandidateDiscoveryFailed", "ExecutionFailuresDetected",
   "NoActionableCandidates", "DeletionCapReached", "IterationLimitReached"}

(* with_limits: max_cycle_iterations.max(1). *)
IterationLimit == IF MaxCycleIterations > 1 THEN MaxCycleIterations ELSE 1

NewReport ==
  [cleanup_started |-> FALSE, iterations |-> 0, actions_planned |-> 0,
   actions_completed |-> 0, reclaimed_estimated_bytes |-> 0,
   action_failures |-> 0, skipped_candidates |-> 0, initial_usage |-> None,
   final_usage |-> None, stop_reason |-> "BelowHighWatermark",
   last_error |-> FALSE]

Init ==
  /\ pc = "health"
  /\ report = NewReport
  /\ usage = None
  /\ pending = <<>> /\ plan = InitialPlan /\ queue = <<>>
  /\ ticks = 0
  /\ issued = 0 /\ unknowns = 0
  /\ vetted = FALSE /\ trouble = FALSE /\ stale = FALSE

-----------------------------------------------------------------------------
MoreTicks == TickLimit = None \/ ticks + 1 < TickLimit

(* Every return of run_once: the report is logged, and the daemon sleeps    *)
(* until the next tick or, after the last one, exits.                       *)
Finish(reason, final, error, base) ==
  /\ report' = [base EXCEPT !.stop_reason = reason, !.final_usage = final,
                            !.last_error = error]
  /\ pc' = IF MoreTicks THEN "sleeping" ELSE "exited"
  /\ ticks' = IF TickLimit = None THEN ticks ELSE ticks + 1

Continue(next) == pc' = next /\ UNCHANGED ticks

Wake ==
  /\ pc = "sleeping"
  /\ pc' = "health"
  /\ report' = NewReport
  /\ usage' = None
  /\ pending' = <<>> /\ plan' = InitialPlan /\ queue' = <<>>
  /\ issued' = 0 /\ unknowns' = 0
  /\ vetted' = FALSE /\ trouble' = FALSE /\ stale' = FALSE
  /\ UNCHANGED ticks

HealthAnswers == {"healthy", "unhealthy", "error"}

(* Mutated form of StopUnlessHealthy: only a failed call stops the tick.    *)
StopOnHealthError(answer, next) ==
  IF answer # "error"
  THEN Continue(next) /\ UNCHANGED report
  ELSE Finish("HealthCheckFailed", usage, TRUE, report)

(* Anything but a healthy report ends the tick, with the usage known so far *)
(* (none before the first snapshot).                                        *)
StopUnlessHealthy(answer, next) ==
  CASE answer = "healthy" -> Continue(next) /\ UNCHANGED report
    [] answer = "unhealthy" -> Finish("BackendUnhealthy", usage, FALSE, report)
    [] answer = "error" -> Finish("HealthCheckFailed", usage, TRUE, report)

CheckHealth ==
  /\ pc = "health"
  /\ \E answer \in HealthAnswers :
       /\ StopUnlessHealthy(answer, "usage")
       /\ vetted' = (answer = "healthy")
       /\ trouble' = (trouble \/ answer # "healthy")
  /\ UNCHANGED <<usage, pending, plan, queue, issued, unknowns, stale>>

CollectUsageFails ==
  /\ pc = "usage"
  /\ Finish("UsageCollectionFailed", None, TRUE, report)
  /\ trouble' = TRUE
  /\ UNCHANGED <<usage, pending, plan, queue, issued, unknowns, vetted, stale>>

StartsCleanup(percent) == percent >= HighWatermark

CollectUsage ==
  /\ pc = "usage"
  /\ \E snapshot \in Snapshots :
       LET seen == [report EXCEPT !.initial_usage = snapshot] IN
       /\ usage' = snapshot
       /\ trouble' = (trouble \/ PercentUsed(snapshot) = None)
       /\ IF PercentUsed(snapshot) = None
          THEN Finish("UsagePercentUnknown", snapshot, FALSE, seen)
          ELSE IF ~StartsCleanup(PercentUsed(snapshot))
          THEN Finish("BelowHighWatermark", snapshot, FALSE, seen)
          ELSE /\ report' = [seen EXCEPT !.cleanup_started = TRUE]
               /\ Continue("target")
  /\ UNCHANGED <<pending, plan, queue, issued, unknowns, vetted, stale>>

(* Head of the loop in iterations after the first; iteration_index is       *)
(* report.iterations there.                                                 *)
ReachLimit ==
  /\ pc = "loop" /\ report.iterations = IterationLimit
  /\ Finish("IterationLimitReached", usage, FALSE, report)
  /\ UNCHANGED <<usage, pending, plan, queue, tickVars>>

(* Mutated form of RecheckHealth: health is checked once per tick only.     *)
TrustEarlierHealth ==
  /\ pc = "loop" /\ report.iterations < IterationLimit
  /\ Continue("target")
  /\ UNCHANGED <<report, usage, pending, plan, queue, tickVars>>

RecheckHealth ==
  /\ pc = "loop" /\ report.iterations < IterationLimit
  /\ \E answer \in HealthAnswers :
       /\ StopUnlessHealthy(answer, "target")
       /\ vetted' = (answer = "healthy")
       /\ trouble' = (trouble \/ answer # "healthy")
  /\ UNCHANGED <<usage, pending, plan, queue, issued, unknowns, stale>>

(* Mutated form of TargetReached: usage must fall below the target.         *)
BelowTarget(percent) == percent < TargetWatermark

TargetReached(percent) == percent <= TargetWatermark

CheckTarget ==
  /\ pc = "target"
  /\ IF TargetReached(PercentUsed(usage))
     THEN Finish("TargetWatermarkReached", usage, FALSE, report)
     ELSE /\ report' = [report EXCEPT !.iterations = @ + 1]
          /\ Continue("discover")
  /\ UNCHANGED <<usage, pending, plan, queue, tickVars>>

DiscoverFails ==
  /\ pc = "discover"
  /\ Finish("CandidateDiscoveryFailed", usage, TRUE, report)
  /\ trouble' = TRUE
  /\ UNCHANGED <<usage, pending, plan, queue, issued, unknowns, vetted, stale>>

Discover ==
  /\ pc = "discover"
  /\ pending' \in CandidateLists
  /\ plan' = InitialPlan
  /\ Continue("plan")
  /\ UNCHANGED <<report, usage, queue, tickVars>>

PlanNext ==
  /\ pc = "plan" /\ pending # <<>>
  /\ plan' = PlanCandidate(plan, Head(pending))
  /\ pending' = Tail(pending)
  /\ UNCHANGED <<pc, report, usage, queue, ticks, tickVars>>

(* Mutated form of NoActionStopReason: the skip reason is passed through.   *)
ReasonOfSkip(skipped) ==
  IF skipped = <<>> THEN "NoActionableCandidates" ELSE skipped[1].reason

NoActionStopReason(skipped) ==
  IF \E i \in DOMAIN skipped : skipped[i].reason = CapReached
  THEN "DeletionCapReached"
  ELSE "NoActionableCandidates"

(* Mutated form of FinishPlan: with nothing to do, discovery runs again.    *)
FinishPlanBySpinning ==
  /\ pc = "plan" /\ pending = <<>>
  /\ IF plan.actions = <<>>
     THEN Continue("discover") /\ UNCHANGED report
     ELSE /\ report' = [report EXCEPT !.actions_planned = @ + Len(plan.actions)]
          /\ Continue("execute")
  /\ queue' = plan.actions
  /\ UNCHANGED <<usage, pending, plan, tickVars>>

FinishPlan ==
  /\ pc = "plan" /\ pending = <<>>
  /\ LET counted ==
           [report EXCEPT !.actions_planned = @ + Len(plan.actions),
                          !.skipped_candidates = @ + Len(plan.skipped)]
     IN  IF plan.actions = <<>>
         THEN Finish(NoActionStopReason(plan.skipped), usage, FALSE, counted)
         ELSE report' = counted /\ Continue("execute")
  /\ queue' = plan.actions
  /\ UNCHANGED <<usage, pending, plan, tickVars>>

KnownBytes(action) ==
  IF action.candidate.size_bytes = None THEN 0 ELSE action.candidate.size_bytes

(* Mutated form of Simulated: the two dry-run flags taken for each other's  *)
(* negation.                                                                *)
SimulatedWhenFlagsDiffer(action) == DryRun # action.dry_run

Simulated(action) == DryRun \/ action.dry_run

(* execute_plan (src/src/executor.rs): what becomes of the next action.      *)
(* The report is updated action by action; the code adds up the batch at    *)
(* its end, before anything reads it.                                       *)
SimulateAction ==
  /\ Simulated(Head(queue))
  /\ queue' = Tail(queue)
  /\ report' = [report EXCEPT !.actions_completed = @ + 1]
  /\ UNCHANGED tickVars

CompleteAction ==
  /\ ~Simulated(Head(queue))
  /\ queue' = Tail(queue)
  /\ report' = [report EXCEPT
                  !.actions_completed = @ + 1,
                  !.reclaimed_estimated_bytes = @ + KnownBytes(Head(queue))]
  /\ issued' = issued + 1
  /\ unknowns' =
       unknowns + IF Head(queue).candidate.size_bytes = None THEN 1 ELSE 0
  /\ stale' = TRUE
  /\ UNCHANGED <<vetted, trouble>>

(* Mutated form of FailAction: the rest of the batch is dropped.            *)
FailActionAborts ==
  /\ ~Simulated(Head(queue))
  /\ queue' = <<>>
  /\ report' = [report EXCEPT !.action_failures = @ + 1]
  /\ issued' = issued + 1
  /\ UNCHANGED <<unknowns, vetted, trouble, stale>>

(* Refused by a guard of the backend, failed, or timed out. *)
FailAction ==
  /\ ~Simulated(Head(queue))
  /\ queue' = Tail(queue)
  /\ report' = [report EXCEPT !.action_failures = @ + 1]
  /\ issued' = issued + 1
  /\ UNCHANGED <<unknowns, vetted, trouble, stale>>

ExecuteAction ==
  /\ pc = "execute" /\ queue # <<>>
  /\ SimulateAction \/ CompleteAction \/ FailAction
  /\ UNCHANGED <<pc, usage, pending, plan, ticks>>

(* Mutated form of FinishBatch: failures do not stop the loop.              *)
FinishBatchAnyway ==
  /\ pc = "execute" /\ queue = <<>>
  /\ Continue("recollect")
  /\ UNCHANGED <<report, usage, pending, plan, queue, tickVars>>

(* Mutated form of FinishBatch: the usage is not measured again.            *)
FinishBatchUnmeasured ==
  /\ pc = "execute" /\ queue = <<>>
  /\ IF report.action_failures > 0
     THEN Finish("ExecutionFailuresDetected", usage, TRUE, report)
     ELSE Continue("loop") /\ UNCHANGED report
  /\ UNCHANGED <<usage, pending, plan, queue, tickVars>>

(* A failure anywhere in the batch ends the tick with the snapshot taken    *)
(* before the batch.                                                        *)
FinishBatch ==
  /\ pc = "execute" /\ queue = <<>>
  /\ IF report.action_failures > 0
     THEN Finish("ExecutionFailuresDetected", usage, TRUE, report)
     ELSE Continue("recollect") /\ UNCHANGED report
  /\ UNCHANGED <<usage, pending, plan, queue, tickVars>>

RecollectUsageFails ==
  /\ pc = "recollect"
  /\ Finish("UsageCollectionFailed", usage, TRUE, report)
  /\ trouble' = TRUE
  /\ UNCHANGED <<usage, pending, plan, queue, issued, unknowns, vetted, stale>>

RecollectUsage ==
  /\ pc = "recollect"
  /\ \E snapshot \in Snapshots :
       /\ usage' = snapshot
       /\ trouble' = (trouble \/ PercentUsed(snapshot) = None)
       /\ IF PercentUsed(snapshot) = None
          THEN Finish("UsagePercentUnknown", snapshot, FALSE, report)
          ELSE Continue("loop") /\ UNCHANGED report
  /\ vetted' = FALSE /\ stale' = FALSE
  /\ UNCHANGED <<pending, plan, queue, issued, unknowns>>

Tick ==
  \/ CheckHealth \/ CollectUsageFails \/ CollectUsage
  \/ ReachLimit \/ RecheckHealth \/ CheckTarget
  \/ DiscoverFails \/ Discover \/ PlanNext \/ FinishPlan
  \/ ExecuteAction \/ FinishBatch
  \/ RecollectUsageFails \/ RecollectUsage

(* The process has exited after its last tick. *)
Exited == pc = "exited" /\ UNCHANGED vars

Next == Wake \/ Tick \/ Exited

(* A tick is sequential code: every backend call returns, and the sleep     *)
(* between ticks ends.                                                      *)
Spec == Init /\ [][Next]_vars /\ WF_vars(Wake \/ Tick)

-----------------------------------------------------------------------------
Locations ==
  {"health", "usage", "loop", "target", "discover", "plan", "execute",
   "recollect", "sleeping", "exited"}

Report ==
  [cleanup_started : BOOLEAN, iterations : 0 .. IterationLimit,
   actions_planned : Nat, actions_completed : Nat,
   reclaimed_estimated_bytes : Nat, action_failures : Nat,
   skipped_candidates : Nat, initial_usage : Snapshots \cup {None},
   final_usage : Snapshots \cup {None}, stop_reason : StopReasons,
   last_error : BOOLEAN]

TypeOK ==
  /\ pc \in Locations
  /\ report \in Report
  /\ usage \in Snapshots \cup {None}
  /\ pending \in Seq(Candidate)
  /\ plan \in PlanState
  /\ queue \in Seq(PlannedAction)
  /\ ticks \in Nat /\ issued \in Nat /\ unknowns \in Nat
  /\ vetted \in BOOLEAN /\ trouble \in BOOLEAN /\ stale \in BOOLEAN

Ended == pc \in {"sleeping", "exited"}

(* The report of a tick accounts for every planned action exactly once, as  *)
(* completed or failed, although a batch goes on after a failure.           *)
EveryActionAccounted ==
  Ended => report.actions_planned
             = report.actions_completed + report.action_failures

(* Shares of a file system, to the byte; a full one of more than 1/100 of   *)
(* the range of u64 is beyond the arithmetic of percent_used.               *)
AtLeast(s, percent) == s.used * 100 >= percent * s.total
Above(s, percent) == s.used * 100 > percent * s.total
InRange(s) == s.total * 100 <= MaxU64 /\ s.used <= s.total

(* What the stop reason of a tick asserts is true of the tick: of the bytes *)
(* last measured, of the calls that failed and of the actions that ran; the *)
(* target is reached to the whole percent.  The final usage is always the   *)
(* last snapshot the tick has.                                              *)
StopReasonJustified ==
  Ended =>
    LET why == report.stop_reason IN
    /\ report.final_usage = usage
    /\ report.last_error <=> why \in {"HealthCheckFailed", "UsageCollectionFailed",
                                     "CandidateDiscoveryFailed",
                                     "ExecutionFailuresDetected"}
    /\ why = "BelowHighWatermark" =>
         /\ ~report.cleanup_started
         /\ InRange(usage) => ~AtLeast(usage, HighWatermark)
    /\ why = "TargetWatermarkReached" =>
         /\ report.actions_completed > 0
         /\ InRange(usage) => ~AtLeast(usage, TargetWatermark + 1)
    /\ why \in {"NoActionableCandidates", "DeletionCapReached"} =>
         Above(usage, TargetWatermark) /\ report.iterations > 0
    /\ why = "IterationLimitReached" => report.iterations = IterationLimit
    /\ why = "ExecutionFailuresDetected" <=> report.action_failures > 0
    /\ why = "UsagePercentUnknown" => usage.total = 0
    /\ trouble <=> why \in {"BackendUnhealthy", "HealthCheckFailed",
                           "UsageCollectionFailed", "UsagePercentUnknown",
                           "CandidateDiscoveryFailed"}
    /\ ~report.cleanup_started => report.actions_planned = 0

(* The final usage of a tick that ends without an error was measured after  *)
(* the last of its deletions.  (After a failed action or measurement it is  *)
(* the one from before the batch.)                                          *)
FinalUsageMeasured == Ended /\ ~report.last_error => ~stale

(* A tick reclaims at most the deletion cap, and deletes at most one        *)
(* candidate of unknown size, in each of its iterations: the budget of the  *)
(* planner holds for the batches together, not only for each plan.          *)
ReclaimBounded ==
  /\ report.reclaimed_estimated_bytes <= report.iterations * MaxDeleteBytes
  /\ unknowns <= report.iterations

(* Fail closed: once a health check, a measurement or a discovery has       *)
(* failed, or has answered unhealthy or unknown, the tick hands no further  *)
(* delete to the backend; nor does it begin a batch once an action has      *)
(* failed.  The batch in which that happens is carried on with:             *)
(* execute_plan records the failure and takes the next action.              *)
NoDeleteAfterTrouble ==
  [][/\ issued' > issued => ~trouble
     /\ Len(queue') > Len(queue) => ~trouble /\ report.action_failures = 0]_vars

(* The backend is found healthy between the measurement of the usage a      *)
(* batch answers to and the batch (the health check of the later loop       *)
(* iterations; in the first one it precedes the measurement).               *)
EachBatchVetted == [][issued' > issued => vetted]_vars

(* A dry run hands nothing to the backend and claims no byte, through       *)
(* whatever sequence of iterations the re-planned candidates cause.         *)
DryRunDeletesNothing ==
  DryRun => issued = 0 /\ report.reclaimed_estimated_bytes = 0

(* The scheduler implements the watermark gate: deletions only inside a     *)
(* cycle begun on a file system that is full to the high watermark, each    *)
(* while the latest measured bytes are above the target, however the        *)
(* percents are rounded, saturated and cut down.                            *)
Cleaning == report.cleanup_started /\ ~Ended

Gate == INSTANCE WatermarkGate WITH
          Levels <- Readings, NoLevel <- None,
          mode   <- IF Cleaning THEN "cleaning" ELSE "idle",
          level  <- IF Cleaning THEN usage ELSE None,
          issued <- IF Cleaning THEN issued ELSE 0

ImplementsGate == Gate!Spec

(* Every tick ends, however the backend answers and however the usage       *)
(* moves (DEFAULT_MAX_CYCLE_ITERATIONS "guarantees bounded work").          *)
TickEnds == []<>Ended

(* CleanupConfig::max_delete_per_run_gb, "Upper bound on deletion size per  *)
(* run" (domain.rs), a run being one SchedulerRunReport.                    *)
CapPerTick == report.reclaimed_estimated_bytes <= MaxDeleteBytes
=============================================================================
