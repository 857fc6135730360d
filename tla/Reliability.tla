----------------------------- MODULE Reliability -----------------------------
(***************************************************************************)
(* ReliabilityCoordinator::run_once (src/src/reliability.rs) in several     *)
(* processes that share one lock file: acquisition, one pass over the       *)
(* backends with retries and backoff, the summary, and the release of the   *)
(* lock by the guard's Drop.  A process may be killed at any point and is   *)
(* started again (packaging/systemd, Restart=always).                       *)
(*                                                                         *)
(* One cycle of the scheduler is a start and an end, with any report the    *)
(* module Scheduler can produce in between: other processes run while it    *)
(* lasts.                                                                   *)
(***************************************************************************)
EXTENDS Integers, Sequences, SequencesExt

CONSTANTS
  Procs,             \* processes that share the lock file
  BackendCount,      \* backends given to run_once, in order
  MaxAttempts, InitialBackoff, BackoffMultiplier, MaxBackoff,  \* RetryPolicy
  MaxU32, MaxDuration,   \* limits of u32 and of Duration
  Reasons,           \* stop reasons that cycles end with
  None

(* SchedulerStopReason, by whether the coordinator runs the cycle again.    *)
RetriedReasons ==
  {"ExecutionFailuresDetected", "HealthCheckFailed", "UsageCollectionFailed",
   "CandidateDiscoveryFailed"}

FinalReasons ==
  {"BackendUnhealthy", "UsagePercentUnknown", "BelowHighWatermark",
   "TargetWatermarkReached", "NoActionableCandidates", "DeletionCapReached",
   "IterationLimitReached"}

(* What run_cycle returns: a SchedulerRunReport, reduced to what the        *)
(* coordinator reads.  failed stands for action_failures > 0.               *)
CycleReport ==
  [reason : Reasons, cleanup_started : BOOLEAN, failed : BOOLEAN]

ASSUME ReliabilityAssumption ==
  /\ BackendCount \in Nat /\ MaxAttempts \in Nat
  /\ InitialBackoff \in Nat /\ BackoffMultiplier \in Nat /\ MaxBackoff \in Nat
  /\ MaxU32 \in Nat \ {0} /\ MaxDuration \in Nat
  /\ BackoffMultiplier <= MaxU32
  /\ InitialBackoff <= MaxDuration /\ MaxBackoff <= MaxDuration
  /\ Reasons \subseteq RetriedReasons \cup FinalReasons
  /\ None \notin CycleReport
  /\ {"free", "orphan"} \cap Procs = {}

VARIABLES
  lockFile,   \* the file exists
  pc, attempts, reports, delay, summary,  \* by process
  deleted     \* history: a delete of this run was executed

procVars == <<pc, attempts, reports, delay, summary, deleted>>
vars == <<lockFile, procVars>>

-----------------------------------------------------------------------------
AtMost(limit, n) == IF n < limit THEN n ELSE limit

(* normalized_max_attempts: max(1). *)
AttemptLimit == IF MaxAttempts > 1 THEN MaxAttempts ELSE 1

Growth == IF BackoffMultiplier > 1 THEN BackoffMultiplier ELSE 1

(* Mutated form of BackoffForRetry: the power wraps instead of saturating.  *)
WrappingBackoff(retry) ==
  LET factor == (Growth ^ retry) % (MaxU32 + 1)
  IN  AtMost(MaxBackoff, AtMost(MaxDuration, InitialBackoff * factor))

(* u32::saturating_pow(growth, n). *)
SaturatingPow[n \in 0 .. MaxU32] ==
  IF n = 0 THEN 1 ELSE AtMost(MaxU32, Growth * SaturatingPow[n - 1])

(* backoff_for_retry; the cast to u32 cuts the index off.                   *)
BackoffForRetry(retry) ==
  LET factor == SaturatingPow[retry % (MaxU32 + 1)]
  IN  AtMost(MaxBackoff, AtMost(MaxDuration, InitialBackoff * factor))

(* The combinations run_once of the scheduler produces: actions run only    *)
(* in a started cleanup, their failure is the stop reason, and some reasons *)
(* belong to one side of the start.                                         *)
CycleReports ==
  {r \in CycleReport :
     /\ r.failed => r.cleanup_started
     /\ r.failed <=> r.reason = "ExecutionFailuresDetected"
     /\ r.reason = "BelowHighWatermark" => ~r.cleanup_started
     /\ r.reason \in {"TargetWatermarkReached", "NoActionableCandidates",
                      "DeletionCapReached", "IterationLimitReached",
                      "CandidateDiscoveryFailed"} => r.cleanup_started}

(* Whether the cycle executed a delete, which needs a started cleanup.      *)
MayExecute(report) == IF report.cleanup_started THEN BOOLEAN ELSE {FALSE}

(* Mutated form of ShouldRetry: only failed actions are retried.            *)
RetryFailedActions(report) == report.failed

(* should_retry_from_report *)
ShouldRetry(report) == report.failed \/ report.reason \in RetriedReasons

-----------------------------------------------------------------------------
Init ==
  /\ lockFile = FALSE
  /\ pc = [p \in Procs |-> "idle"]
  /\ attempts = [p \in Procs |-> 0]
  /\ reports = [p \in Procs |-> <<>>]
  /\ delay = [p \in Procs |-> 0]
  /\ summary = [p \in Procs |-> None]
  /\ deleted = [p \in Procs |-> FALSE]

Goto(p, location) == pc' = [pc EXCEPT ![p] = location]
Summarise(p, result) == summary' = [summary EXCEPT ![p] = result]

LockNotAcquired ==
  [lock_acquired |-> FALSE, all_backends_failed |-> TRUE, no_op |-> TRUE]

(* Mutated form of Acquire: the file is opened whether it exists or not.    *)
AcquireWithoutCreateNew(p) ==
  /\ pc[p] = "idle"
  /\ lockFile' = TRUE
  /\ Goto(p, "next")
  /\ UNCHANGED <<attempts, reports, delay, summary, deleted>>

(* try_acquire: create_new makes the test and the creation one step. *)
Acquire(p) ==
  /\ pc[p] = "idle"
  /\ ~lockFile /\ lockFile' = TRUE
  /\ Goto(p, "next")
  /\ UNCHANGED <<attempts, reports, delay, summary, deleted>>

(* Mutated form of LockHeld: the run goes on without the lock.              *)
LockHeldIgnored(p) ==
  /\ pc[p] = "idle" /\ lockFile
  /\ Goto(p, "next")
  /\ UNCHANGED <<lockFile, attempts, reports, delay, summary, deleted>>

LockHeld(p) ==
  /\ pc[p] = "idle" /\ lockFile
  /\ Summarise(p, LockNotAcquired)
  /\ Goto(p, "done")
  /\ UNCHANGED <<lockFile, attempts, reports, delay, deleted>>

(* Any other I/O error of the open, of which the file may be there or not,  *)
(* is returned to the caller.                                               *)
LockFails(p) ==
  /\ pc[p] = "idle"
  /\ Goto(p, "done")
  /\ UNCHANGED <<lockFile, attempts, reports, delay, summary, deleted>>

StartCycle(p) ==
  /\ pc[p] = "next" /\ Len(reports[p]) < BackendCount
  /\ attempts' = [attempts EXCEPT ![p] = @ + 1]
  /\ Goto(p, "cycle")
  /\ UNCHANGED <<lockFile, reports, delay, summary, deleted>>

(* The end of one backend's retries; the next backend starts afresh. *)
RecordBackend(p, status, report) ==
  /\ reports' = [reports EXCEPT ![p] =
       Append(@, [attempts |-> attempts[p], status |-> status,
                  final_report |-> report])]
  /\ attempts' = [attempts EXCEPT ![p] = 0]
  /\ delay' = [delay EXCEPT ![p] = 0]
  /\ Goto(p, "next")

CycleSucceeds(p) ==
  /\ pc[p] = "cycle"
  /\ \E report \in CycleReports :
       /\ ~ShouldRetry(report)
       /\ \E executed \in MayExecute(report) :
            deleted' = [deleted EXCEPT ![p] = @ \/ executed]
       /\ RecordBackend(p, "Success", report)
  /\ UNCHANGED <<lockFile, summary>>

(* Mutated form of RetryOrGiveUp: one attempt too many.                     *)
RetryOnceMore(p, report) ==
  IF attempts[p] <= AttemptLimit
  THEN /\ delay' = [delay EXCEPT ![p] = BackoffForRetry(attempts[p] - 1)]
       /\ Goto(p, "backoff")
       /\ UNCHANGED <<attempts, reports>>
  ELSE RecordBackend(p, "FailedAfterRetries", report)

(* The thread sleeps, unless that was the last attempt.  last_report and    *)
(* last_error are those of the last attempt, so only its report (None for   *)
(* an error) is kept.                                                       *)
RetryOrGiveUp(p, report) ==
  IF attempts[p] < AttemptLimit
  THEN /\ delay' = [delay EXCEPT ![p] = BackoffForRetry(attempts[p] - 1)]
       /\ Goto(p, "backoff")
       /\ UNCHANGED <<attempts, reports>>
  ELSE RecordBackend(p, "FailedAfterRetries", report)

CycleFails(p) ==
  /\ pc[p] = "cycle"
  /\ \E report \in CycleReports :
       /\ ShouldRetry(report)
       /\ \E executed \in MayExecute(report) :
            deleted' = [deleted EXCEPT ![p] = @ \/ executed]
       /\ RetryOrGiveUp(p, report)
  /\ UNCHANGED <<lockFile, summary>>

(* Mutated form of CycleErrs: an error does not count as an attempt.        *)
CycleErrsUncounted(p) ==
  /\ pc[p] = "cycle"
  /\ attempts' = [attempts EXCEPT ![p] = @ - 1]
  /\ Goto(p, "backoff")
  /\ UNCHANGED <<lockFile, reports, delay, summary, deleted>>

CycleErrs(p) ==
  /\ pc[p] = "cycle"
  /\ RetryOrGiveUp(p, None)
  /\ UNCHANGED <<lockFile, summary, deleted>>

BackoffEnds(p) ==
  /\ pc[p] = "backoff"
  /\ Goto(p, "next")
  /\ UNCHANGED <<lockFile, attempts, reports, delay, summary, deleted>>

FailedEntry(entry) == entry.status = "FailedAfterRetries"

(* Mutated form of NoOp: one backend that cleaned nothing up is enough.     *)
NoOpIfAny(entries) ==
  \E i \in DOMAIN entries :
     entries[i].final_report # None => ~entries[i].final_report.cleanup_started

AllFailed(entries) == \A i \in DOMAIN entries : FailedEntry(entries[i])

NoOp(entries) ==
  \/ AllFailed(entries)
  \/ \A i \in DOMAIN entries :
       entries[i].final_report # None => ~entries[i].final_report.cleanup_started

(* The end of run_once; the guard's Drop removes the file by its path and   *)
(* ignores a failure to do so.                                              *)
Finish(p) ==
  /\ pc[p] = "next" /\ Len(reports[p]) = BackendCount
  /\ Summarise(p, [lock_acquired |-> TRUE,
                   all_backends_failed |-> AllFailed(reports[p]),
                   no_op |-> NoOp(reports[p])])
  /\ lockFile' \in BOOLEAN
  /\ Goto(p, "done")
  /\ UNCHANGED <<attempts, reports, delay, deleted>>

(* What a process knew ends with it. *)
Forget(p) ==
  /\ attempts' = [attempts EXCEPT ![p] = 0]
  /\ reports' = [reports EXCEPT ![p] = <<>>]
  /\ delay' = [delay EXCEPT ![p] = 0]
  /\ summary' = [summary EXCEPT ![p] = None]
  /\ deleted' = [deleted EXCEPT ![p] = FALSE]

(* run_cycle panics: the stack unwinds through the guard. *)
Panic(p) ==
  /\ pc[p] = "cycle"
  /\ lockFile' \in BOOLEAN
  /\ Goto(p, "crashed")
  /\ Forget(p)

(* The process is killed, or the machine stops: no destructor runs. *)
Crash(p) ==
  /\ pc[p] \notin {"crashed", "done"}
  /\ Goto(p, "crashed")
  /\ Forget(p)
  /\ UNCHANGED lockFile

(* The next run of this process, or of the process started in its place. *)
Restart(p) ==
  /\ pc[p] \in {"crashed", "done"}
  /\ Goto(p, "idle")
  /\ Forget(p)
  /\ UNCHANGED lockFile

Run(p) ==
  \/ Acquire(p) \/ LockHeld(p) \/ LockFails(p)
  \/ StartCycle(p) \/ CycleSucceeds(p) \/ CycleFails(p) \/ CycleErrs(p)
  \/ BackoffEnds(p) \/ Finish(p)

Next == \E p \in Procs : Run(p) \/ Panic(p) \/ Crash(p) \/ Restart(p)

(* A process that is not killed keeps running, and one that has ended is    *)
(* started again; that an acquisition possible time and again is made needs *)
(* strong fairness, since an I/O error may be returned in its place.        *)
Fairness ==
  \A p \in Procs : /\ WF_vars(Run(p)) /\ WF_vars(Restart(p))
                   /\ SF_vars(Acquire(p))

Spec == Init /\ [][Next]_vars /\ Fairness
-----------------------------------------------------------------------------
Locations == {"idle", "next", "cycle", "backoff", "done", "crashed"}

Entry ==
  [attempts : 0 .. AttemptLimit, status : {"Success", "FailedAfterRetries"},
   final_report : CycleReports \cup {None}]

Summary ==
  [lock_acquired : BOOLEAN, all_backends_failed : BOOLEAN, no_op : BOOLEAN]

TypeOK ==
  /\ lockFile \in BOOLEAN
  /\ pc \in [Procs -> Locations]
  /\ attempts \in [Procs -> 0 .. AttemptLimit]
  /\ reports \in [Procs -> Seq(Entry)]
  /\ delay \in [Procs -> 0 .. MaxBackoff]
  /\ summary \in [Procs -> Summary \cup {None}]
  /\ deleted \in [Procs -> BOOLEAN]

(* Between the acquisition of the lock and the guard's Drop. *)
Holding(p) == pc[p] \in {"next", "cycle", "backoff"}

(* No two processes run backends at once, whatever crashes, panics, failed  *)
(* removals of the file and restarts came before.                           *)
MutualExclusion ==
  \A p, q \in Procs : Holding(p) /\ Holding(q) => p = q

Ran(p) == pc[p] = "done" /\ summary[p] # None /\ summary[p].lock_acquired

(* A run that had the lock reports every backend, in spite of the failures  *)
(* of those before it; each failed one was tried exactly as often as the    *)
(* policy allows, and no error or failed action is reported as a success.   *)
EveryBackendTried ==
  \A p \in Procs : Ran(p) =>
    /\ Len(reports[p]) = BackendCount
    /\ \A i \in 1 .. BackendCount :
         LET entry == reports[p][i] IN
         /\ FailedEntry(entry) => entry.attempts = AttemptLimit
         /\ ~FailedEntry(entry) =>
              /\ entry.attempts \in 1 .. AttemptLimit
              /\ ~entry.final_report.failed
              /\ entry.final_report.reason \in FinalReasons

(* If a run that deleted is called a no-op, an attempt of it was tried again *)
(* or given up: only there deletes escape the summary, as no_op looks at    *)
(* each backend's last report (ReliabilityRunSummary).                      *)
NoOpDeletesRetried ==
  \A p \in Procs :
    pc[p] = "done" /\ summary[p] # None /\ summary[p].no_op /\ deleted[p] =>
      \E i \in DOMAIN reports[p] :
        reports[p][i].attempts > 1 \/ FailedEntry(reports[p][i])

(* docs/reliability-and-error-handling.md: "No-op means no deletion commands *)
(* are executed."                                                           *)
NoOpDeletesNothing ==
  \A p \in Procs :
    pc[p] = "done" /\ summary[p] # None /\ summary[p].no_op => ~deleted[p]

(* The delays between the attempts at one backend never shrink, saturation  *)
(* included (the next backend, or the next run, starts again from none).    *)
BackoffGrows ==
  [][\A p \in Procs :
       pc'[p] = "backoff" /\ pc[p] = "cycle" => delay'[p] >= delay[p]]_vars

(* Abstractly the lock has one owner at a time, and is never taken from a   *)
(* process that ended without releasing it.                                 *)
Owner ==
  IF \E p \in Procs : Holding(p) THEN CHOOSE p \in Procs : Holding(p)
  ELSE IF lockFile THEN "orphan" ELSE "free"

Lock == INSTANCE InstanceLock WITH owner <- Owner

(* The coordinators implement InstanceLock: try_acquire takes the lock only *)
(* when it is free, and the guard's Drop gives it back or orphans it.       *)
ImplementsLock == Lock!Spec

(* A started run ends, however often its backends fail: retries are finite. *)
RunEnds == \A p \in Procs : pc[p] = "idle" ~> pc[p] \in {"done", "crashed"}

(* requirement.md: "The system MUST be crash-safe", "The system MUST be     *)
(* restart-safe": once no process crashes any more, they run their backends *)
(* time and again.                                                          *)
CrashSafe ==
  <>[](\A p \in Procs : pc[p] # "crashed") => \A p \in Procs : []<>Holding(p)
=============================================================================
