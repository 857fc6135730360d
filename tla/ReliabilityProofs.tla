-------------------------- MODULE ReliabilityProofs --------------------------
(***************************************************************************)
(* Proofs about Reliability: one process at a time runs backends, the       *)
(* coordinators implement InstanceLock, every backend gets its attempts, a  *)
(* backoff never shrinks, the summary of a run leaves nothing out, each     *)
(* step of a run is one less to go, and a lock orphaned by a kill stays so. *)
(***************************************************************************)
EXTENDS Reliability, SequenceTheorems, WellFoundedInduction, TLAPS

(* A process between the acquisition and the guard's Drop is alone, and the *)
(* file is there: that is what keeps the others out.                        *)
LockInv ==
  /\ pc \in [Procs -> Locations]
  /\ lockFile \in BOOLEAN
  /\ MutualExclusion
  /\ \A p \in Procs : Holding(p) => lockFile

(* The lock invariant survives a step of process p that neither takes nor   *)
(* gives back the lock.                                                     *)
LEMMA LockKept ==
  ASSUME LockInv, NEW p \in Procs, NEW location \in Locations,
         Goto(p, location), UNCHANGED lockFile,
         location \in {"next", "cycle", "backoff"} => Holding(p)
  PROVE  LockInv'
<1>1. pc' \in [Procs -> Locations] BY DEF LockInv, Goto
<1>2. \A q \in Procs : Holding(q)' => Holding(q)
  BY DEF LockInv, Goto, Holding
<1> QED BY <1>1, <1>2 DEF LockInv, MutualExclusion

(* It survives a release, whether or not the file is removed: the one       *)
(* holder is gone.                                                          *)
LEMMA LockReleased ==
  ASSUME LockInv, NEW p \in Procs, NEW location \in {"done", "crashed"},
         Holding(p), Goto(p, location), lockFile' \in BOOLEAN
  PROVE  LockInv'
<1>1. pc' \in [Procs -> Locations] BY DEF LockInv, Goto, Locations
<1>2. \A q \in Procs : ~Holding(q)'
  BY DEF LockInv, MutualExclusion, Goto, Holding
<1> QED BY <1>1, <1>2 DEF LockInv, MutualExclusion

LEMMA LockTaken ==
  ASSUME LockInv, NEW p \in Procs, Acquire(p)
  PROVE  LockInv'
<1>1. pc' \in [Procs -> Locations] /\ lockFile'
  BY DEF LockInv, Acquire, Goto, Locations
<1>2. \A q \in Procs : Holding(q)' => q = p
  BY DEF LockInv, Acquire, Goto, Holding
<1> QED BY <1>1, <1>2 DEF LockInv, MutualExclusion

(* Giving up or retrying, and recording a backend, stay inside the run.     *)
LEMMA RetryGoes ==
  ASSUME NEW p \in Procs, NEW report, RetryOrGiveUp(p, report)
  PROVE  Goto(p, "backoff") \/ Goto(p, "next")
BY DEF RetryOrGiveUp, RecordBackend

LEMMA LockInit == Init => LockInv
BY DEF Init, LockInv, MutualExclusion, Holding, Locations

LEMMA LockStep ==
  ASSUME LockInv, [Next]_vars
  PROVE  LockInv'
<1>1. CASE UNCHANGED vars
  BY <1>1 DEF LockInv, MutualExclusion, Holding, vars, procVars
<1>2. ASSUME NEW p \in Procs, Run(p) PROVE LockInv'
  <2>1. CASE Acquire(p) BY <2>1, LockTaken
  <2>2. CASE LockHeld(p) \/ LockFails(p)
    BY <2>2, LockKept DEF LockHeld, LockFails, Locations
  <2>3. CASE StartCycle(p) \/ BackoffEnds(p)
    BY <2>3, LockKept DEF StartCycle, BackoffEnds, Holding, Locations
  <2>4. CASE CycleSucceeds(p)
    BY <2>4, LockKept DEF CycleSucceeds, RecordBackend, Holding, Locations
  <2>5. CASE CycleFails(p)
    <3>1. Goto(p, "backoff") \/ Goto(p, "next")
      BY <2>5, RetryGoes DEF CycleFails
    <3> QED BY <3>1, <2>5, LockKept DEF CycleFails, Holding, Locations
  <2>6. CASE CycleErrs(p)
    <3>1. Goto(p, "backoff") \/ Goto(p, "next")
      BY <2>6, RetryGoes DEF CycleErrs
    <3> QED BY <3>1, <2>6, LockKept DEF CycleErrs, Holding, Locations
  <2>7. CASE Finish(p) BY <2>7, LockReleased DEF Finish, Holding
  <2> QED BY <1>2, <2>1, <2>2, <2>3, <2>4, <2>5, <2>6, <2>7 DEF Run
<1>3. ASSUME NEW p \in Procs, Panic(p) PROVE LockInv'
  BY <1>3, LockReleased DEF Panic, Holding
<1>4. ASSUME NEW p \in Procs, Crash(p) \/ Restart(p) PROVE LockInv'
  BY <1>4, LockKept DEF Crash, Restart, Locations
<1> QED BY <1>1, <1>2, <1>3, <1>4 DEF Next

THEOREM LockInvariance == Spec => []LockInv
<1> QED BY LockInit, LockStep, PTL DEF Spec

(* For any number of processes, and through crashes, panics, restarts and   *)
(* failed removals of the file, no two processes run backends at once.      *)
THEOREM Exclusive == Spec => []MutualExclusion
<1>1. LockInv => MutualExclusion BY DEF LockInv
<1> QED BY <1>1, LockInvariance, PTL

-----------------------------------------------------------------------------
(* The owner of the abstract lock, by the state of the processes.           *)
LEMMA OwnerHolds ==
  ASSUME LockInv, NEW p \in Procs, Holding(p)
  PROVE  Owner = p
<1>1. \E q \in Procs : Holding(q) OBVIOUS
<1>2. Owner = CHOOSE q \in Procs : Holding(q) BY <1>1 DEF Owner
<1>3. Owner \in Procs /\ Holding(Owner) BY <1>1, <1>2
<1> QED BY <1>3 DEF LockInv, MutualExclusion

LEMMA OwnerHoldsNext ==
  ASSUME LockInv', NEW p \in Procs, Holding(p)'
  PROVE  Owner' = p
<1>1. \E q \in Procs : Holding(q)' OBVIOUS
<1>2. Owner' = CHOOSE q \in Procs : Holding(q)' BY <1>1 DEF Owner
<1>3. \E q \in Procs : Holding(q)' /\ Owner' = q BY <1>1, <1>2
<1> QED BY <1>3 DEF LockInv, MutualExclusion

LEMMA OwnerNone ==
  ASSUME \A p \in Procs : ~Holding(p)
  PROVE  Owner = IF lockFile THEN "orphan" ELSE "free"
BY DEF Owner

LEMMA OwnerNoneNext ==
  ASSUME \A p \in Procs : ~Holding(p)'
  PROVE  Owner' = IF lockFile' THEN "orphan" ELSE "free"
BY DEF Owner

(* A step of a process that stays inside, or outside, its run leaves the    *)
(* abstract lock alone.                                                     *)
LEMMA OwnerKept ==
  ASSUME LockInv, LockInv', NEW p \in Procs, NEW location \in Locations,
         Goto(p, location), UNCHANGED lockFile,
         location \in {"next", "cycle", "backoff"} <=> Holding(p)
  PROVE  UNCHANGED Owner
<1>1. \A q \in Procs : Holding(q)' <=> Holding(q)
  BY DEF LockInv, Goto, Holding
<1>2. CASE \E q \in Procs : Holding(q)
  <2>1. PICK q \in Procs : Holding(q) BY <1>2
  <2>2. Owner = q BY <2>1, OwnerHolds
  <2>3. Owner' = q BY <1>1, <2>1, OwnerHoldsNext
  <2> QED BY <2>2, <2>3
<1>3. CASE \A q \in Procs : ~Holding(q)
  BY <1>1, <1>3, OwnerNone, OwnerNoneNext
<1> QED BY <1>2, <1>3

(* The end of a run, in whatever way, releases the abstract lock.           *)
LEMMA OwnerLeaves ==
  ASSUME LockInv, LockInv', NEW p \in Procs,
         NEW location \in {"done", "crashed"},
         Holding(p), Goto(p, location), lockFile' \in BOOLEAN
  PROVE  Lock!Release
<1>1. Owner = p BY OwnerHolds
<1>2. \A q \in Procs : ~Holding(q)'
  BY DEF LockInv, MutualExclusion, Goto, Holding
<1>3. Owner' \in {"free", "orphan"} BY <1>2, OwnerNoneNext
<1> QED BY <1>1, <1>3 DEF Lock!Release

LEMMA OwnerTakes ==
  ASSUME LockInv, LockInv', NEW p \in Procs, Acquire(p)
  PROVE  Lock!Take
<1>1. \A q \in Procs : ~Holding(q) BY DEF LockInv, Acquire
<1>2. Owner = "free" BY <1>1, OwnerNone DEF Acquire
<1>3. Holding(p)' BY DEF LockInv, Acquire, Goto, Holding
<1>4. Owner' = p BY <1>3, OwnerHoldsNext
<1> QED BY <1>2, <1>4 DEF Lock!Take

LEMMA LockStepSimulates ==
  ASSUME LockInv, LockInv', [Next]_vars
  PROVE  [Lock!Take \/ Lock!Release]_Owner
<1>1. CASE UNCHANGED vars
  <2>1. \A p \in Procs : Holding(p)' <=> Holding(p)
    BY <1>1 DEF Holding, vars, procVars
  <2>2. UNCHANGED Owner BY <1>1, <2>1 DEF Owner, Holding, vars, procVars
  <2> QED BY <2>2
<1>2. ASSUME NEW p \in Procs, Run(p) PROVE [Lock!Take \/ Lock!Release]_Owner
  <2>1. CASE Acquire(p) BY <2>1, OwnerTakes
  <2>2. CASE LockHeld(p) \/ LockFails(p)
    BY <2>2, OwnerKept DEF LockHeld, LockFails, Holding, Locations
  <2>3. CASE StartCycle(p) \/ BackoffEnds(p)
    BY <2>3, OwnerKept DEF StartCycle, BackoffEnds, Holding, Locations
  <2>4. CASE CycleSucceeds(p)
    BY <2>4, OwnerKept DEF CycleSucceeds, RecordBackend, Holding, Locations
  <2>5. CASE CycleFails(p)
    <3>1. Goto(p, "backoff") \/ Goto(p, "next")
      BY <2>5, RetryGoes DEF CycleFails
    <3> QED BY <3>1, <2>5, OwnerKept DEF CycleFails, Holding, Locations
  <2>6. CASE CycleErrs(p)
    <3>1. Goto(p, "backoff") \/ Goto(p, "next")
      BY <2>6, RetryGoes DEF CycleErrs
    <3> QED BY <3>1, <2>6, OwnerKept DEF CycleErrs, Holding, Locations
  <2>7. CASE Finish(p) BY <2>7, OwnerLeaves DEF Finish, Holding
  <2> QED BY <1>2, <2>1, <2>2, <2>3, <2>4, <2>5, <2>6, <2>7 DEF Run
<1>3. ASSUME NEW p \in Procs, Panic(p) PROVE [Lock!Take \/ Lock!Release]_Owner
  BY <1>3, OwnerLeaves DEF Panic, Holding
<1>4. ASSUME NEW p \in Procs, Crash(p) PROVE [Lock!Take \/ Lock!Release]_Owner
  <2>1. CASE Holding(p)
    <3>1. lockFile' \in BOOLEAN BY <1>4 DEF Crash, LockInv
    <3> QED BY <1>4, <2>1, <3>1, OwnerLeaves DEF Crash
  <2>2. CASE ~Holding(p)
    BY <1>4, <2>2, OwnerKept DEF Crash, Locations
  <2> QED BY <2>1, <2>2
<1>5. ASSUME NEW p \in Procs, Restart(p) PROVE [Lock!Take \/ Lock!Release]_Owner
  BY <1>5, OwnerKept DEF Restart, Holding, Locations
<1> QED BY <1>1, <1>2, <1>3, <1>4, <1>5 DEF Next

(* The coordinators implement the abstract lock: it passes from process to  *)
(* process only by a release, and once orphaned it is never taken again.    *)
THEOREM LockImplemented == Spec => ImplementsLock
<1>1. Init => Lock!Free
  BY OwnerNone DEF Init, Lock!Free, Holding
<1> QED
  BY <1>1, LockInvariance, LockStepSimulates, PTL
     DEF Spec, ImplementsLock, Lock!Spec
-----------------------------------------------------------------------------
(* The file is there and nobody who could remove it.                        *)
Orphaned == lockFile /\ \A p \in Procs : ~Holding(p)

LEMMA OrphanStays == Orphaned /\ LockInv /\ [Next]_vars => Orphaned'
<1> SUFFICES ASSUME Orphaned, LockInv, [Next]_vars PROVE Orphaned' OBVIOUS
<1>1. CASE UNCHANGED vars BY <1>1 DEF Orphaned, Holding, vars, procVars
<1>2. ASSUME NEW p \in Procs, NEW location \in {"idle", "done", "crashed"},
             Goto(p, location), UNCHANGED lockFile
      PROVE  Orphaned'
  BY <1>2 DEF Orphaned, LockInv, Goto, Holding
<1>3. ASSUME NEW p \in Procs, Run(p) PROVE Orphaned'
  <2>1. ~Holding(p) /\ lockFile BY DEF Orphaned
  <2>2. LockHeld(p) \/ LockFails(p)
    BY <1>3, <2>1
       DEF Run, Holding, Acquire, StartCycle, CycleSucceeds,
           CycleFails, CycleErrs, BackoffEnds, Finish
  <2> QED BY <1>2, <2>2 DEF LockHeld, LockFails
<1>4. ASSUME NEW p \in Procs, Panic(p) \/ Crash(p) \/ Restart(p) PROVE Orphaned'
  <2>1. ~Panic(p) BY DEF Panic, Orphaned, Holding
  <2> QED BY <1>2, <1>4, <2>1 DEF Crash, Restart
<1> QED BY <1>1, <1>3, <1>4 DEF Next

(* One kill of a process that holds the lock, at whatever place of its run, *)
(* leaves the file to nobody (no destructor of the guard runs).             *)
THEOREM KillOrphans ==
  Spec => [][\A p \in Procs : Holding(p) /\ Crash(p) => Orphaned']_vars
<1>1. ASSUME LockInv, NEW p \in Procs, Holding(p), Crash(p) PROVE Orphaned'
  <2>1. lockFile' BY <1>1 DEF LockInv, Crash
  <2>2. \A q \in Procs : ~Holding(q)'
    BY <1>1 DEF LockInv, MutualExclusion, Crash, Goto, Holding
  <2> QED BY <2>1, <2>2 DEF Orphaned
<1>2. LockInv => [\A p \in Procs : Holding(p) /\ Crash(p) => Orphaned']_vars
  BY <1>1
<1> QED BY <1>2, LockInvariance, PTL

(* From then on no process, restarted or new, runs a backend ever again,    *)
(* for any number of processes: the file outlives all of them               *)
(* (FileInstanceLock::try_acquire knows no stale lock).                     *)
THEOREM OrphanedForGood ==
  ASSUME NEW p \in Procs
  PROVE  Spec => [](Orphaned => []Orphaned /\ []~Holding(p))
<1>1. Orphaned => ~Holding(p) BY DEF Orphaned
<1> QED BY <1>1, OrphanStays, LockInvariance, PTL DEF Spec

-----------------------------------------------------------------------------
(* An entry of the summary as the retries leave it. *)
TriedEntry ==
  {entry \in Entry :
     /\ FailedEntry(entry) => entry.attempts = AttemptLimit
     /\ ~FailedEntry(entry) =>
          /\ entry.attempts \in 1 .. AttemptLimit
          /\ ~entry.final_report.failed
          /\ entry.final_report.reason \in FinalReasons}

(* Where the loop over the backends and the loop of attempts are: an attempt*)
(* is left wherever the code may start one, and a backend to record is left *)
(* while one is tried.                                                      *)
Progress(p) ==
  /\ pc[p] \in {"idle", "next", "cycle", "backoff"} => summary[p] = None
  /\ pc[p] # "done" => Len(reports[p]) <= BackendCount
  /\ pc[p] \in {"idle", "next", "backoff"} => attempts[p] < AttemptLimit
  /\ pc[p] \in {"cycle", "backoff"} =>
       Len(reports[p]) < BackendCount /\ attempts[p] >= 1
  /\ Ran(p) => Len(reports[p]) = BackendCount

RunTypes ==
  /\ pc \in [Procs -> Locations]
  /\ attempts \in [Procs -> 0 .. AttemptLimit]
  /\ reports \in [Procs -> Seq(TriedEntry)]
  /\ summary \in [Procs -> Summary \cup {None}]

RunInv == RunTypes /\ \A p \in Procs : Progress(p)

LEMMA LimitPositive == AttemptLimit \in Nat \ {0}
BY ReliabilityAssumption DEF AttemptLimit

(* A backend recorded after enough attempts. *)
LEMMA Recorded ==
  ASSUME RunInv, NEW p \in Procs, pc[p] = "cycle",
         NEW status, NEW report,
         [attempts |-> attempts[p], status |-> status,
          final_report |-> report] \in TriedEntry,
         RecordBackend(p, status, report), UNCHANGED summary
  PROVE  RunInv'
<1> DEFINE entry == [attempts |-> attempts[p], status |-> status,
                     final_report |-> report]
<1>1. /\ Append(reports[p], entry) \in Seq(TriedEntry)
      /\ Len(Append(reports[p], entry)) = Len(reports[p]) + 1
  BY DEF RunInv, RunTypes
<1>2. RunTypes'
  BY <1>1, LimitPositive DEF RunInv, RunTypes, RecordBackend, Goto, Locations
<1>3. Len(reports[p]) < BackendCount /\ Len(reports[p]) \in Nat
  BY DEF RunInv, RunTypes, Progress
<1>4. ASSUME NEW q \in Procs PROVE Progress(q)'
  <2>1. CASE q = p
    BY <1>1, <1>3, <2>1, LimitPositive, ReliabilityAssumption
       DEF RunInv, RunTypes, Progress, RecordBackend, Goto, Ran
  <2>2. CASE q # p
    BY <2>2 DEF RunInv, RunTypes, Progress, RecordBackend, Goto, Ran
  <2> QED BY <2>1, <2>2
<1> QED BY <1>2, <1>4 DEF RunInv

(* A failed attempt, with the report of the cycle or (None) with an error.  *)
LEMMA Retried ==
  ASSUME RunInv, NEW p \in Procs, pc[p] = "cycle",
         NEW report \in CycleReports \cup {None},
         RetryOrGiveUp(p, report), UNCHANGED summary
  PROVE  RunInv'
<1>1. attempts[p] \in 1 .. AttemptLimit
  BY LimitPositive DEF RunInv, RunTypes, Progress
<1>2. CASE attempts[p] < AttemptLimit
  <2>1. Goto(p, "backoff") /\ UNCHANGED <<attempts, reports>>
    BY <1>2 DEF RetryOrGiveUp
  <2>2. RunTypes' BY <2>1 DEF RunInv, RunTypes, Goto, Locations
  <2>3. ASSUME NEW q \in Procs PROVE Progress(q)'
    BY <1>2, <2>1 DEF RunInv, RunTypes, Progress, Goto, Ran
  <2> QED BY <2>2, <2>3 DEF RunInv
<1>3. CASE ~(attempts[p] < AttemptLimit)
  <2>1. RecordBackend(p, "FailedAfterRetries", report)
    BY <1>3 DEF RetryOrGiveUp
  <2>2. attempts[p] = AttemptLimit BY <1>1, <1>3, LimitPositive
  <2>3. [attempts |-> attempts[p], status |-> "FailedAfterRetries",
         final_report |-> report] \in TriedEntry
    BY <1>1, <2>2, LimitPositive DEF TriedEntry, Entry, FailedEntry
  <2> QED BY <2>1, <2>3, Recorded
<1> QED BY <1>2, <1>3

LEMMA Succeeded ==
  ASSUME RunInv, NEW p \in Procs, CycleSucceeds(p)
  PROVE  RunInv'
<1>1. PICK report \in CycleReports :
        ~ShouldRetry(report) /\ RecordBackend(p, "Success", report)
  BY DEF CycleSucceeds
<1>2. attempts[p] \in 1 .. AttemptLimit
  BY LimitPositive DEF RunInv, RunTypes, Progress, CycleSucceeds
<1>3. ~report.failed /\ report.reason \in FinalReasons
  BY <1>1, ReliabilityAssumption DEF ShouldRetry, CycleReports, CycleReport
<1>4. [attempts |-> attempts[p], status |-> "Success",
       final_report |-> report] \in TriedEntry
  BY <1>2, <1>3, LimitPositive DEF TriedEntry, Entry, FailedEntry
<1> QED BY <1>1, <1>4, Recorded DEF CycleSucceeds

(* A step that starts the process afresh, with nothing known.               *)
LEMMA Forgotten ==
  ASSUME RunInv, NEW p \in Procs, NEW location \in {"idle", "crashed"},
         Goto(p, location), Forget(p)
  PROVE  RunInv'
<1>1. <<>> \in Seq(TriedEntry) /\ Len(<<>>) = 0 OBVIOUS
<1>2. RunTypes'
  BY <1>1, LimitPositive DEF RunInv, RunTypes, Goto, Forget, Locations
<1>3. ASSUME NEW q \in Procs PROVE Progress(q)'
  <2>1. CASE q = p
    BY <1>1, <2>1, LimitPositive, ReliabilityAssumption
       DEF RunInv, RunTypes, Progress, Goto, Forget, Ran
  <2>2. CASE q # p BY <2>2 DEF RunInv, RunTypes, Progress, Goto, Forget, Ran
  <2> QED BY <2>1, <2>2
<1> QED BY <1>2, <1>3 DEF RunInv

LEMMA RunInit == Init => RunInv
<1>1. <<>> \in Seq(TriedEntry) /\ Len(<<>>) = 0 OBVIOUS
<1> QED
  BY <1>1, LimitPositive, ReliabilityAssumption
     DEF Init, RunInv, RunTypes, Progress, Ran, Locations

LEMMA RunStep ==
  ASSUME RunInv, [Next]_vars
  PROVE  RunInv'
<1>1. CASE UNCHANGED vars
  BY <1>1 DEF RunInv, RunTypes, Progress, Ran, vars, procVars
<1>2. ASSUME NEW p \in Procs, Run(p) PROVE RunInv'
  <2>1. CASE Acquire(p) \/ LockFails(p) \/ BackoffEnds(p)
    <3>1. RunTypes'
      BY <2>1 DEF RunInv, RunTypes, Acquire, LockFails, BackoffEnds, Goto,
                  Locations
    <3>2. ASSUME NEW q \in Procs PROVE Progress(q)'
      BY <2>1 DEF RunInv, RunTypes, Progress, Acquire, LockFails, BackoffEnds,
                  Goto, Ran
    <3> QED BY <3>1, <3>2 DEF RunInv
  <2>2. CASE LockHeld(p)
    <3>1. RunTypes'
      BY <2>2 DEF RunInv, RunTypes, LockHeld, Goto, Locations, Summarise,
                  LockNotAcquired, Summary
    <3>2. ASSUME NEW q \in Procs PROVE Progress(q)'
      BY <2>2 DEF RunInv, RunTypes, Progress, LockHeld, Goto, Ran, Summarise,
                  LockNotAcquired
    <3> QED BY <3>1, <3>2 DEF RunInv
  <2>3. CASE StartCycle(p)
    <3>1. attempts[p] \in Nat /\ attempts[p] + 1 \in 1 .. AttemptLimit
      BY <2>3, LimitPositive DEF RunInv, RunTypes, Progress, StartCycle
    <3>2. RunTypes'
      BY <2>3, <3>1, LimitPositive
         DEF RunInv, RunTypes, StartCycle, Goto, Locations
    <3>3. ASSUME NEW q \in Procs PROVE Progress(q)'
      BY <2>3, <3>1 DEF RunInv, RunTypes, Progress, StartCycle, Goto, Ran
    <3> QED BY <3>2, <3>3 DEF RunInv
  <2>4. CASE CycleSucceeds(p) BY <2>4, Succeeded
  <2>5. CASE CycleFails(p) BY <2>5, Retried DEF CycleFails
  <2>6. CASE CycleErrs(p) BY <2>6, Retried DEF CycleErrs
  <2>7. CASE Finish(p)
    <3>1. RunTypes'
      BY <2>7 DEF RunInv, RunTypes, Finish, Goto, Locations, Summarise,
                  Summary, AllFailed, NoOp
    <3>2. ASSUME NEW q \in Procs PROVE Progress(q)'
      BY <2>7 DEF RunInv, RunTypes, Progress, Finish, Goto, Ran, Summarise
    <3> QED BY <3>1, <3>2 DEF RunInv
  <2> QED BY <1>2, <2>1, <2>2, <2>3, <2>4, <2>5, <2>6, <2>7 DEF Run
<1>3. ASSUME NEW p \in Procs, Panic(p) \/ Crash(p) \/ Restart(p) PROVE RunInv'
  BY <1>3, Forgotten DEF Panic, Crash, Restart
<1> QED BY <1>1, <1>2, <1>3 DEF Next

(* For every retry policy and number of backends: a run that had the lock   *)
(* reports every backend, a failed one after exactly the attempts of the    *)
(* policy, and no error or failed action as a success.                      *)
THEOREM AllBackendsTried == Spec => []EveryBackendTried
<1>1. RunInv => EveryBackendTried
  <2> SUFFICES ASSUME RunInv, NEW p \in Procs, Ran(p),
                      NEW i \in 1 .. BackendCount
               PROVE  /\ Len(reports[p]) = BackendCount
                      /\ reports[p][i] \in TriedEntry
    BY DEF EveryBackendTried, TriedEntry, RunInv, Progress
  <2>1. Len(reports[p]) = BackendCount BY DEF RunInv, Progress
  <2> QED BY <2>1 DEF RunInv, RunTypes
<1> QED BY <1>1, RunInit, RunStep, PTL DEF Spec
-----------------------------------------------------------------------------
(* u32::saturating_pow, by induction on the exponent: a set of exponents    *)
(* that lack a fact would have a least one.                                 *)
LEMMA LeastExponent ==
  ASSUME NEW S \in SUBSET Nat, S # {}
  PROVE  \E n \in S : \A m \in S : n <= m
<1>1. IsWellFoundedOn(OpToRel(<, Nat), Nat) BY NatLessThanWellFounded
<1>2. PICK n \in S : \A m \in S : <<m, n>> \notin OpToRel(<, Nat)
  BY <1>1, WFMin
<1>3. \A m \in S : ~(m < n) BY <1>2 DEF OpToRel
<1> QED BY <1>3

LEMMA GrowthPositive == Growth \in Nat \ {0} /\ MaxU32 \in Nat \ {0}
BY ReliabilityAssumption DEF Growth

LEMMA Scaled ==
  ASSUME NEW g \in Nat \ {0}, NEW x \in Nat, NEW y \in Nat, x <= y
  PROVE  /\ g * x \in Nat /\ g * y \in Nat
         /\ x <= g * x /\ g * x <= g * y
OBVIOUS

(* What one multiplication more does. *)
LEMMA OnceMultiplied ==
  ASSUME NEW x \in 1 .. MaxU32
  PROVE  AtMost(MaxU32, Growth * x) \in x .. MaxU32
<1>1. Growth * x \in Nat /\ x <= Growth * x BY GrowthPositive, Scaled
<1> QED BY <1>1, GrowthPositive DEF AtMost

Power(f, n) == IF n = 0 THEN 1 ELSE AtMost(MaxU32, Growth * f[n - 1])

(* A table of the powers up to n. *)
Table(f, n) ==
  f \in [0 .. n -> 1 .. MaxU32] /\ \A i \in 0 .. n : f[i] = Power(f, i)

LEMMA TableExists == \A n \in Nat : \E f : Table(f, n)
<1> DEFINE Missing == {n \in Nat : ~\E f : Table(f, n)}
<1>1. ASSUME Missing # {} PROVE FALSE
  <2>1. PICK n \in Missing : \A m \in Missing : n <= m BY <1>1, LeastExponent
  <2>2. CASE n = 0
    <3>1. Table([i \in 0 .. 0 |-> 1], 0) BY GrowthPositive DEF Table, Power
    <3> QED BY <2>2, <3>1
  <2>3. CASE n # 0
    <3>1. n - 1 \in Nat /\ n - 1 \notin Missing BY <2>1, <2>3
    <3>2. PICK f : Table(f, n - 1) BY <3>1
    <3> DEFINE g == [i \in 0 .. n |-> IF i = n THEN Power(f, n) ELSE f[i]]
    <3>3. f[n - 1] \in 1 .. MaxU32 BY <3>1, <3>2 DEF Table
    <3>4. Power(f, n) \in 1 .. MaxU32
      BY <2>3, <3>3, OnceMultiplied, GrowthPositive DEF Power
    <3>5. g \in [0 .. n -> 1 .. MaxU32]
      BY <3>1, <3>2, <3>4 DEF Table
    <3>6. ASSUME NEW i \in 0 .. n PROVE g[i] = Power(g, i)
      <4>1. i # 0 => g[i - 1] = f[i - 1] BY <3>1
      <4>2. Power(g, i) = Power(f, i) BY <4>1 DEF Power
      <4>3. i # n => f[i] = Power(f, i) BY <3>1, <3>2 DEF Table
      <4> QED BY <4>2, <4>3
    <3>7. Table(g, n) BY <3>5, <3>6 DEF Table
    <3> QED BY <3>7
  <2> QED BY <2>2, <2>3
<1> QED BY <1>1

LEMMA PowEquation ==
  SaturatingPow = [n \in 0 .. MaxU32 |-> Power(SaturatingPow, n)]
<1>1. PICK f : Table(f, MaxU32) BY TableExists, GrowthPositive
<1>2. f = [n \in 0 .. MaxU32 |-> Power(f, n)] BY <1>1 DEF Table
<1>3. \E g : g = [n \in 0 .. MaxU32 |->
                   IF n = 0 THEN 1 ELSE AtMost(MaxU32, Growth * g[n - 1])]
  BY <1>2 DEF Power
<1> QED BY <1>3 DEF SaturatingPow, Power

LEMMA PowTyped == \A n \in 0 .. MaxU32 : SaturatingPow[n] \in 1 .. MaxU32
<1> DEFINE Wrong == {n \in 0 .. MaxU32 : SaturatingPow[n] \notin 1 .. MaxU32}
<1>1. ASSUME Wrong # {} PROVE FALSE
  <2>0. Wrong \in SUBSET Nat BY GrowthPositive
  <2> HIDE DEF Wrong
  <2>1. PICK n \in Wrong : \A m \in Wrong : n <= m
    BY <1>1, <2>0, LeastExponent
  <2> USE DEF Wrong
  <2>2. SaturatingPow[n] = Power(SaturatingPow, n) BY PowEquation
  <2>3. CASE n = 0 BY <2>1, <2>2, <2>3, GrowthPositive DEF Power
  <2>4. CASE n # 0
    <3>1. SaturatingPow[n - 1] \in 1 .. MaxU32
      BY <2>1, <2>4, GrowthPositive
    <3> QED BY <2>1, <2>2, <2>4, <3>1, OnceMultiplied, GrowthPositive DEF Power
  <2> QED BY <2>3, <2>4
<1> QED BY <1>1

LEMMA PowGrows ==
  ASSUME NEW n \in Nat, n + 1 <= MaxU32
  PROVE  SaturatingPow[n] <= SaturatingPow[n + 1]
<1>1. n \in 0 .. MaxU32 /\ n + 1 \in 0 .. MaxU32 BY GrowthPositive
<1>2. SaturatingPow[n] \in 1 .. MaxU32 BY <1>1, PowTyped
<1>3. SaturatingPow[n + 1] = AtMost(MaxU32, Growth * SaturatingPow[n])
  BY <1>1, PowEquation DEF Power
<1> QED BY <1>2, <1>3, OnceMultiplied, GrowthPositive

LEMMA BackoffTyped ==
  ASSUME NEW retry \in Nat
  PROVE  BackoffForRetry(retry) \in 0 .. MaxBackoff
<1> DEFINE factor == SaturatingPow[retry % (MaxU32 + 1)]
<1>1. retry % (MaxU32 + 1) \in 0 .. MaxU32 BY GrowthPositive
<1>2. factor \in 1 .. MaxU32 BY <1>1, PowTyped
<1> HIDE DEF factor
<1>3. factor \in Nat BY <1>2, GrowthPositive
<1>4. InitialBackoff * factor \in Nat BY <1>3, ReliabilityAssumption
<1>5. AtMost(MaxBackoff, AtMost(MaxDuration, InitialBackoff * factor))
        \in 0 .. MaxBackoff
  BY <1>4, ReliabilityAssumption DEF AtMost
<1> QED BY <1>5 DEF BackoffForRetry, factor

LEMMA BackoffRises ==
  ASSUME NEW retry \in Nat, retry + 1 <= MaxU32
  PROVE  BackoffForRetry(retry) <= BackoffForRetry(retry + 1)
<1>1. /\ retry % (MaxU32 + 1) = retry
      /\ (retry + 1) % (MaxU32 + 1) = retry + 1
  BY GrowthPositive
<1>2. /\ SaturatingPow[retry] \in Nat /\ SaturatingPow[retry + 1] \in Nat
      /\ SaturatingPow[retry] <= SaturatingPow[retry + 1]
  BY PowTyped, PowGrows, GrowthPositive
<1> DEFINE low == InitialBackoff * SaturatingPow[retry]
           high == InitialBackoff * SaturatingPow[retry + 1]
<1>3. low \in Nat /\ high \in Nat /\ low <= high
  <2>1. CASE InitialBackoff = 0 BY <1>2, <2>1
  <2>2. CASE InitialBackoff # 0
    BY <1>2, <2>2, Scaled, ReliabilityAssumption
  <2> QED BY <2>1, <2>2
<1> HIDE DEF low, high
<1>4. AtMost(MaxBackoff, AtMost(MaxDuration, low))
        <= AtMost(MaxBackoff, AtMost(MaxDuration, high))
  BY <1>3, ReliabilityAssumption DEF AtMost
<1> QED BY <1>1, <1>4 DEF BackoffForRetry, low, high

-----------------------------------------------------------------------------
(* What the sleeper was last told for a backend tried n times in vain.      *)
DelayAfter(n) == IF n = 0 THEN 0 ELSE BackoffForRetry(n - 1)

(* The delay is that of the attempts that have ended. *)
DelayInv ==
  /\ delay \in [Procs -> 0 .. MaxBackoff]
  /\ deleted \in [Procs -> BOOLEAN]
  /\ \A p \in Procs :
       /\ pc[p] = "idle" => attempts[p] = 0 /\ delay[p] = 0
       /\ pc[p] \in {"next", "backoff"} => delay[p] = DelayAfter(attempts[p])
       /\ pc[p] = "cycle" => delay[p] = DelayAfter(attempts[p] - 1)

LEMMA DelayInit == Init => DelayInv
BY ReliabilityAssumption DEF Init, DelayInv, DelayAfter

(* The end of an attempt, of whatever kind. *)
LEMMA DelayAtEnd ==
  ASSUME RunInv, DelayInv, NEW p \in Procs, pc[p] = "cycle", NEW report,
         NEW status, deleted' \in [Procs -> BOOLEAN],
         RetryOrGiveUp(p, report) \/ RecordBackend(p, status, report)
  PROVE  DelayInv'
<1>1. attempts[p] \in Nat \ {0} BY LimitPositive DEF RunInv, RunTypes, Progress
<1>2. CASE /\ delay' = [delay EXCEPT ![p] = BackoffForRetry(attempts[p] - 1)]
           /\ Goto(p, "backoff") /\ UNCHANGED attempts
  <2>1. delay' \in [Procs -> 0 .. MaxBackoff]
    BY <1>1, <1>2, BackoffTyped DEF DelayInv
  <2>2. delay'[p] = DelayAfter(attempts[p])
    BY <1>1, <1>2 DEF DelayInv, DelayAfter
  <2> QED BY <1>2, <2>1, <2>2 DEF DelayInv, Goto, RunInv, RunTypes
<1>3. ASSUME NEW any, RecordBackend(p, any, report) PROVE DelayInv'
  BY <1>3, ReliabilityAssumption
     DEF RecordBackend, Goto, DelayInv, DelayAfter, RunInv, RunTypes
<1> QED BY <1>2, <1>3 DEF RetryOrGiveUp

LEMMA DelayStep ==
  ASSUME RunInv, DelayInv, [Next]_vars
  PROVE  DelayInv'
<1>1. CASE UNCHANGED vars BY <1>1 DEF DelayInv, vars, procVars
<1>2. ASSUME NEW p \in Procs, Run(p) PROVE DelayInv'
  <2>1. CASE Acquire(p)
    BY <2>1 DEF Acquire, Goto, DelayInv, DelayAfter, RunInv, RunTypes
  <2>2. CASE LockHeld(p) \/ LockFails(p) \/ Finish(p)
    BY <2>2 DEF LockHeld, LockFails, Finish, Goto, DelayInv, RunInv, RunTypes
  <2>3. CASE StartCycle(p)
    <3>1. attempts[p] \in Nat /\ attempts'[p] - 1 = attempts[p]
      BY <2>3, LimitPositive DEF StartCycle, RunInv, RunTypes
    <3> QED BY <2>3, <3>1 DEF StartCycle, Goto, DelayInv, RunInv, RunTypes
  <2>4. CASE CycleSucceeds(p)
    <3>1. PICK report \in CycleReports, executed \in BOOLEAN :
            /\ executed \in MayExecute(report)
            /\ deleted' = [deleted EXCEPT ![p] = @ \/ executed]
            /\ RecordBackend(p, "Success", report)
      BY <2>4 DEF CycleSucceeds, MayExecute
    <3>2. deleted' \in [Procs -> BOOLEAN]
      BY <3>1, Zenon DEF DelayInv
    <3> QED BY <2>4, <3>1, <3>2, DelayAtEnd DEF CycleSucceeds
  <2>5. CASE CycleFails(p)
    <3>1. PICK report \in CycleReports, executed \in BOOLEAN :
            /\ executed \in MayExecute(report)
            /\ deleted' = [deleted EXCEPT ![p] = @ \/ executed]
            /\ RetryOrGiveUp(p, report)
      BY <2>5 DEF CycleFails, MayExecute
    <3>2. deleted' \in [Procs -> BOOLEAN]
      BY <3>1, Zenon DEF DelayInv
    <3> QED BY <2>5, <3>1, <3>2, DelayAtEnd DEF CycleFails
  <2>6. CASE CycleErrs(p)
    <3>1. deleted' \in [Procs -> BOOLEAN] BY <2>6 DEF CycleErrs, DelayInv
    <3> QED BY <2>6, <3>1, DelayAtEnd DEF CycleErrs
  <2>7. CASE BackoffEnds(p)
    BY <2>7 DEF BackoffEnds, Goto, DelayInv, RunInv, RunTypes
  <2> QED BY <1>2, <2>1, <2>2, <2>3, <2>4, <2>5, <2>6, <2>7 DEF Run
<1>3. ASSUME NEW p \in Procs, Panic(p) \/ Crash(p) \/ Restart(p)
      PROVE  DelayInv'
  <2>1. /\ Forget(p)
        /\ Goto(p, "crashed") \/ Goto(p, "idle")
    BY <1>3 DEF Panic, Crash, Restart
  <2> QED BY <2>1, ReliabilityAssumption
          DEF Forget, Goto, DelayInv, DelayAfter, RunInv, RunTypes
<1> QED BY <1>1, <1>2, <1>3 DEF Next

LEMMA EntriesTyped == Seq(TriedEntry) \subseteq Seq(Entry)
<1>1. TriedEntry \subseteq Entry BY DEF TriedEntry
<1>2. ASSUME NEW s \in Seq(TriedEntry) PROVE s \in Seq(Entry)
  <2>1. Len(s) \in Nat /\ s \in [1 .. Len(s) -> TriedEntry] OBVIOUS
  <2>2. s \in [1 .. Len(s) -> Entry] BY <1>1, <2>1
  <2> QED BY <2>1, <2>2, SeqDef
<1> QED BY <1>2

(* The coordinators stay typed, for every retry policy: no run makes more   *)
(* attempts than the policy allows or sleeps longer, although the backoff   *)
(* is a power of 32 bits (run_once, backoff_for_retry).                     *)
THEOREM TypeCorrect == Spec => []TypeOK
<1>1. LockInv /\ RunInv /\ DelayInv => TypeOK
  BY EntriesTyped DEF LockInv, RunInv, RunTypes, DelayInv, TypeOK
<1> QED
  BY <1>1, LockInvariance, RunInit, RunStep, DelayInit, DelayStep, PTL DEF Spec

(* For every retry policy of at most 2^32 attempts: a backend that fails   *)
(* again is left alone at least as long as before, also where the power or  *)
(* the product saturates or the maximum is reached (backoff_for_retry).     *)
THEOREM BackoffNeverShrinks ==
  ASSUME MaxAttempts <= MaxU32 + 1
  PROVE  Spec => BackoffGrows
<1>1. ASSUME RunInv, DelayInv, [Next]_vars,
             NEW p \in Procs, pc'[p] = "backoff", pc[p] = "cycle"
      PROVE  delay'[p] >= delay[p]
  <2>1. attempts[p] \in Nat \ {0} /\ delay[p] = DelayAfter(attempts[p] - 1)
    BY <1>1, LimitPositive DEF RunInv, RunTypes, Progress, DelayInv
  <2>2. PICK report : RetryOrGiveUp(p, report) /\ attempts[p] < AttemptLimit
    <3>1. PICK q \in Procs : Run(q) \/ Panic(q) \/ Crash(q) \/ Restart(q)
      BY <1>1 DEF Next, vars, procVars
    <3>2. q = p
      BY <1>1, <3>1
         DEF Run, Acquire, LockHeld, LockFails, StartCycle, CycleSucceeds,
             CycleFails, CycleErrs, BackoffEnds, Finish, Panic, Crash, Restart,
             RecordBackend, RetryOrGiveUp, Goto, RunInv, RunTypes
    <3>3. CycleFails(p) \/ CycleErrs(p)
      BY <1>1, <3>1, <3>2
         DEF Run, Acquire, LockHeld, LockFails, StartCycle, CycleSucceeds,
             BackoffEnds, Finish, Panic, Crash, Restart,
             RecordBackend, Goto, RunInv, RunTypes
    <3> QED
      BY <1>1, <3>3
         DEF CycleFails, CycleErrs, RetryOrGiveUp, RecordBackend, Goto,
             RunInv, RunTypes
  <2>3. delay'[p] = BackoffForRetry(attempts[p] - 1)
    BY <2>2, <1>1 DEF RetryOrGiveUp, DelayInv
  <2>4. BackoffForRetry(attempts[p] - 1) \in Nat
    BY <2>1, BackoffTyped, ReliabilityAssumption
  <2>5. CASE attempts[p] = 1 BY <2>1, <2>3, <2>4, <2>5 DEF DelayAfter
  <2>6. CASE attempts[p] # 1
    <3>1. attempts[p] - 2 \in Nat /\ (attempts[p] - 2) + 1 = attempts[p] - 1
      BY <2>1, <2>6
    <3>2. (attempts[p] - 2) + 1 <= MaxU32
      BY <2>1, <2>2, ReliabilityAssumption DEF AttemptLimit
    <3>3. BackoffForRetry(attempts[p] - 2) <= BackoffForRetry(attempts[p] - 1)
      BY <3>1, <3>2, BackoffRises
    <3>4. delay[p] = BackoffForRetry(attempts[p] - 2)
      BY <2>1, <2>6 DEF DelayAfter
    <3>5. BackoffForRetry(attempts[p] - 2) \in Nat
      BY <3>1, BackoffTyped, ReliabilityAssumption
    <3> QED BY <2>3, <2>4, <3>3, <3>4, <3>5
  <2> QED BY <2>5, <2>6
<1>2. RunInv /\ DelayInv /\ [Next]_vars =>
        [\A p \in Procs :
           pc'[p] = "backoff" /\ pc[p] = "cycle" => delay'[p] >= delay[p]]_vars
  BY <1>1
<1> QED
  BY <1>2, RunInit, RunStep, DelayInit, DelayStep, PTL DEF Spec, BackoffGrows

-----------------------------------------------------------------------------
(* A backend of which the summary tells that there may have been deletes.   *)
Traced(entry) ==
  \/ entry.attempts > 1 \/ FailedEntry(entry)
  \/ entry.final_report # None /\ entry.final_report.cleanup_started

(* Deletes leave a trace in an entry, or are those of an attempt at the     *)
(* backend of this moment that has another one after it.                    *)
TraceInv(p) ==
  /\ pc[p] \in {"idle", "crashed"} => deleted[p] = FALSE
  /\ pc[p] = "next" /\ attempts[p] # 0 => Len(reports[p]) < BackendCount
  /\ deleted[p] =>
       \/ \E i \in DOMAIN reports[p] : Traced(reports[p][i])
       \/ pc[p] \in {"next", "backoff"} /\ attempts[p] # 0
       \/ pc[p] = "cycle" /\ attempts[p] > 1
  /\ pc[p] = "done" /\ summary[p] # None =>
       \/ summary[p].no_op = NoOp(reports[p])
       \/ deleted[p] = FALSE

TracesInv == \A p \in Procs : TraceInv(p)

LEMMA TracesInit == Init => TracesInv
BY DEF Init, TracesInv, TraceInv

(* Every other process, in a step of p. *)
LEMMA OthersTraced ==
  ASSUME TracesInv, NEW p \in Procs,
         \A q \in Procs \ {p} :
           /\ pc'[q] = pc[q] /\ attempts'[q] = attempts[q]
           /\ reports'[q] = reports[q] /\ deleted'[q] = deleted[q]
           /\ summary'[q] = summary[q],
         TraceInv(p)'
  PROVE  TracesInv'
<1>1. ASSUME NEW q \in Procs \ {p} PROVE TraceInv(q)'
  BY DEF TracesInv, TraceInv
<1> QED BY <1>1 DEF TracesInv

(* The entry that an attempt leaves when it is the last at its backend.     *)
LEMMA RecordTraced ==
  ASSUME RunInv, NEW p \in Procs, pc[p] = "cycle", NEW status, NEW report,
         TraceInv(p), RecordBackend(p, status, report),
         ~deleted'[p] \/ deleted[p]
           \/ Traced([attempts |-> attempts[p], status |-> status,
                      final_report |-> report])
  PROVE  TraceInv(p)'
<1> DEFINE entry == [attempts |-> attempts[p], status |-> status,
                     final_report |-> report]
           n == Len(reports[p])
<1>1. /\ reports'[p] = Append(reports[p], entry)
      /\ attempts'[p] = 0 /\ pc'[p] = "next"
  BY DEF RecordBackend, Goto, RunInv, RunTypes
<1>2. /\ n \in Nat /\ DOMAIN reports[p] = 1 .. n
      /\ DOMAIN reports'[p] = 1 .. n + 1
      /\ reports'[p][n + 1] = entry
      /\ \A i \in 1 .. n : reports'[p][i] = reports[p][i]
  BY <1>1 DEF RunInv, RunTypes
<1>3. CASE Traced(entry)
  <2>1. \E i \in DOMAIN reports'[p] : Traced(reports'[p][i])
    <3>1. n + 1 \in DOMAIN reports'[p] BY <1>2
    <3> QED BY <1>2, <1>3, <3>1
  <2> QED BY <1>1, <2>1 DEF TraceInv
<1>4. CASE ~Traced(entry) /\ deleted'[p]
  <2>1. deleted[p] BY <1>4
  <2>2. ~(attempts[p] > 1) BY <1>4 DEF Traced
  <2>3. PICK i \in DOMAIN reports[p] : Traced(reports[p][i])
    BY <2>1, <2>2 DEF TraceInv
  <2>4. i \in DOMAIN reports'[p] /\ reports'[p][i] = reports[p][i]
    BY <1>2
  <2>5. \E k \in DOMAIN reports'[p] : Traced(reports'[p][k])
    BY <2>3, <2>4
  <2> QED BY <1>1, <2>5 DEF TraceInv
<1>5. CASE ~deleted'[p] BY <1>1, <1>5 DEF TraceInv
<1> QED BY <1>3, <1>4, <1>5

(* A failed attempt, which is tried again or given up. *)
LEMMA RetryTraced ==
  ASSUME RunInv, NEW p \in Procs, pc[p] = "cycle", NEW report,
         TraceInv(p), RetryOrGiveUp(p, report), UNCHANGED summary
  PROVE  TraceInv(p)'
<1>1. CASE attempts[p] < AttemptLimit
  <2>1. pc'[p] = "backoff" /\ attempts'[p] = attempts[p]
    BY <1>1 DEF RetryOrGiveUp, Goto, RunInv, RunTypes
  <2>2. attempts[p] \in Nat /\ attempts[p] # 0
    BY LimitPositive DEF RunInv, RunTypes, Progress
  <2> QED BY <2>1, <2>2 DEF TraceInv
<1>2. CASE ~(attempts[p] < AttemptLimit)
  <2>1. RecordBackend(p, "FailedAfterRetries", report)
    BY <1>2 DEF RetryOrGiveUp
  <2>2. Traced([attempts |-> attempts[p], status |-> "FailedAfterRetries",
                final_report |-> report])
    BY DEF Traced, FailedEntry
  <2> QED BY <2>1, <2>2, RecordTraced
<1> QED BY <1>1, <1>2

LEMMA RunTraced ==
  ASSUME RunInv, DelayInv, TracesInv, NEW p \in Procs, Run(p)
  PROVE  TraceInv(p)'
<1> USE DEF TracesInv
<1>0. /\ pc \in [Procs -> Locations] /\ attempts \in [Procs -> 0 .. AttemptLimit]
      /\ summary \in [Procs -> Summary \cup {None}]
      /\ deleted \in [Procs -> BOOLEAN]
  BY DEF RunInv, RunTypes, DelayInv
<1>1. CASE Acquire(p)
  <2>1. attempts[p] = 0 BY <1>1 DEF Acquire, DelayInv
  <2> QED BY <1>0, <1>1, <2>1 DEF Acquire, Goto, TraceInv
<1>2. CASE LockHeld(p) \/ LockFails(p)
  BY <1>0, <1>2 DEF LockHeld, LockFails, Goto, TraceInv
<1>3. CASE StartCycle(p)
  <2>1. /\ pc[p] = "next" /\ pc'[p] = "cycle"
        /\ attempts'[p] = attempts[p] + 1 /\ attempts[p] \in Nat
        /\ UNCHANGED <<reports, summary, deleted>>
    BY <1>0, <1>3, LimitPositive DEF StartCycle, Goto
  <2> QED BY <2>1 DEF TraceInv
<1>4. CASE CycleSucceeds(p)
  <2>1. PICK report \in CycleReports, executed \in BOOLEAN :
          /\ executed \in MayExecute(report)
          /\ deleted' = [deleted EXCEPT ![p] = @ \/ executed]
          /\ RecordBackend(p, "Success", report)
    BY <1>4 DEF CycleSucceeds, MayExecute
  <2>2. executed => report.cleanup_started BY <2>1 DEF MayExecute
  <2>3. deleted'[p] => deleted[p] \/ executed BY <1>0, <2>1
  <2>4. CASE executed
    <3>1. report # None
      BY <2>1, ReliabilityAssumption DEF CycleReports
    <3>2. Traced([attempts |-> attempts[p], status |-> "Success",
                  final_report |-> report])
      BY <2>2, <2>4, <3>1 DEF Traced
    <3> QED BY <1>4, <2>1, <3>2, RecordTraced DEF CycleSucceeds
  <2>5. CASE ~executed
    BY <1>4, <2>1, <2>3, <2>5, RecordTraced DEF CycleSucceeds
  <2> QED BY <2>4, <2>5
<1>5. CASE CycleFails(p) BY <1>5, RetryTraced DEF CycleFails
<1>6. CASE CycleErrs(p) BY <1>6, RetryTraced DEF CycleErrs
<1>7. CASE BackoffEnds(p)
  <2>1. Len(reports[p]) < BackendCount
    BY <1>7 DEF BackoffEnds, RunInv, Progress
  <2> QED BY <1>0, <1>7, <2>1 DEF BackoffEnds, Goto, TraceInv
<1>8. CASE Finish(p)
  <2>1. summary'[p].no_op = NoOp(reports[p])
    BY <1>0, <1>8 DEF Finish, Summarise
  <2>2. /\ pc[p] = "next" /\ pc'[p] = "done"
        /\ Len(reports[p]) = BackendCount
        /\ UNCHANGED <<attempts, reports, deleted>>
    BY <1>0, <1>8 DEF Finish, Goto
  <2>3. ~(Len(reports[p]) < BackendCount) BY <2>2, ReliabilityAssumption
  <2> QED BY <2>1, <2>2, <2>3 DEF TraceInv
<1> QED
  BY <1>1, <1>2, <1>3, <1>4, <1>5, <1>6, <1>7, <1>8 DEF Run

LEMMA TracesStep ==
  ASSUME RunInv, DelayInv, TracesInv, [Next]_vars
  PROVE  TracesInv'
<1>0. /\ pc \in [Procs -> Locations] /\ attempts \in [Procs -> 0 .. AttemptLimit]
      /\ reports \in [Procs -> Seq(TriedEntry)]
      /\ summary \in [Procs -> Summary \cup {None}]
      /\ deleted \in [Procs -> BOOLEAN]
  BY DEF RunInv, RunTypes, DelayInv
<1>1. CASE UNCHANGED vars BY <1>1 DEF TracesInv, TraceInv, vars, procVars
<1>2. ASSUME NEW p \in Procs, Run(p) PROVE TracesInv'
  <2>1. \A q \in Procs \ {p} :
          /\ pc'[q] = pc[q] /\ attempts'[q] = attempts[q]
          /\ reports'[q] = reports[q] /\ deleted'[q] = deleted[q]
          /\ summary'[q] = summary[q]
    BY <1>0, <1>2
       DEF Run, Acquire, LockHeld, LockFails, StartCycle, CycleSucceeds,
           CycleFails, CycleErrs, BackoffEnds, Finish, RetryOrGiveUp,
           RecordBackend, Summarise, Goto
  <2> QED BY <1>2, <2>1, RunTraced, OthersTraced
<1>3. ASSUME NEW p \in Procs, Panic(p) \/ Crash(p) \/ Restart(p)
      PROVE  TracesInv'
  <2>1. /\ Forget(p)
        /\ Goto(p, "crashed") \/ Goto(p, "idle")
    BY <1>3 DEF Panic, Crash, Restart
  <2>2. TraceInv(p)' BY <1>0, <2>1 DEF Forget, Goto, TraceInv
  <2> QED BY <1>0, <2>1, <2>2, OthersTraced DEF Forget, Goto
<1> QED BY <1>1, <1>2, <1>3 DEF Next

(* For every number of backends and retry policy: deletes of a run that is  *)
(* called a no-op are those of a backend that was tried again or given up   *)
(* (run_once looks at the last report of each backend only).                *)
THEOREM HiddenDeletesRetried == Spec => []NoOpDeletesRetried
<1>1. TracesInv => NoOpDeletesRetried
  <2> SUFFICES ASSUME TracesInv, NEW p \in Procs, pc[p] = "done",
                      summary[p] # None, summary[p].no_op, deleted[p]
               PROVE  \E i \in DOMAIN reports[p] :
                        reports[p][i].attempts > 1 \/ FailedEntry(reports[p][i])
    BY DEF NoOpDeletesRetried
  <2>1. NoOp(reports[p]) BY DEF TracesInv, TraceInv
  <2>2. PICK i \in DOMAIN reports[p] : Traced(reports[p][i])
    BY DEF TracesInv, TraceInv
  <2> QED BY <2>1, <2>2 DEF NoOp, AllFailed, Traced
<1> QED
  BY <1>1, RunInit, RunStep, DelayInit, DelayStep, TracesInit, TracesStep, PTL
     DEF Spec

-----------------------------------------------------------------------------
(* Steps a run can still take before it ends.  *)
AttemptsLeft(p) ==
  (BackendCount - Len(reports[p])) * (AttemptLimit + 1)
    + (AttemptLimit - attempts[p])
StepsLeft(p) ==
  3 * AttemptsLeft(p)
    + (IF pc[p] = "cycle" THEN 2 ELSE IF pc[p] = "backoff" THEN 1 ELSE 0)

LEMMA OneLess ==
  ASSUME NEW n \in Nat \ {0}, NEW c \in Nat
  PROVE  n * c \in Nat /\ (n - 1) * c = n * c - c
OBVIOUS

LEMMA StepsTyped ==
  ASSUME RunInv, NEW p \in Procs, Holding(p)
  PROVE  /\ Len(reports[p]) \in Nat /\ attempts[p] \in 0 .. AttemptLimit
         /\ BackendCount - Len(reports[p]) \in Nat
         /\ AttemptsLeft(p) \in Nat /\ StepsLeft(p) \in Nat
<1>1. /\ Len(reports[p]) \in Nat /\ attempts[p] \in 0 .. AttemptLimit
      /\ Len(reports[p]) <= BackendCount
  BY DEF RunInv, RunTypes, Progress, Holding
<1>2. BackendCount - Len(reports[p]) \in Nat BY <1>1, ReliabilityAssumption
<1> DEFINE n == BackendCount - Len(reports[p])
<1>3. n * (AttemptLimit + 1) \in Nat
  <2>1. n \in Nat /\ AttemptLimit + 1 \in Nat BY <1>2, LimitPositive
  <2> HIDE DEF n
  <2> QED BY <2>1
<1>4. AttemptsLeft(p) \in Nat
  <2>1. AttemptLimit - attempts[p] \in Nat BY <1>1, LimitPositive
  <2>2. AttemptsLeft(p) = n * (AttemptLimit + 1) + (AttemptLimit - attempts[p])
    BY DEF AttemptsLeft
  <2> HIDE DEF n
  <2> QED BY <1>3, <2>1, <2>2
<1>5. StepsLeft(p) \in Nat BY <1>4 DEF StepsLeft
<1> QED BY <1>1, <1>2, <1>4, <1>5

LEMMA RecordingShortens ==
  ASSUME RunInv, NEW p \in Procs, pc[p] = "cycle", NEW status, NEW report,
         RecordBackend(p, status, report)
  PROVE  StepsLeft(p)' < StepsLeft(p)
<1> DEFINE n == BackendCount - Len(reports[p])
           c == AttemptLimit + 1
           entry == [attempts |-> attempts[p], status |-> status,
                     final_report |-> report]
<1>1. /\ n \in Nat \ {0} /\ c \in Nat /\ attempts[p] \in 0 .. AttemptLimit
      /\ reports[p] \in Seq(TriedEntry) /\ Len(reports[p]) \in Nat
  BY LimitPositive, ReliabilityAssumption
     DEF RunInv, RunTypes, Progress
<1>2. reports'[p] = Append(reports[p], entry) /\ attempts'[p] = 0
        /\ pc'[p] = "next"
  BY DEF RecordBackend, Goto, RunInv, RunTypes
<1>3. Len(reports'[p]) = Len(reports[p]) + 1 BY <1>1, <1>2
<1>4. BackendCount - Len(reports'[p]) = n - 1
  BY <1>1, <1>3, ReliabilityAssumption
<1>5. AttemptsLeft(p)' = (n - 1) * c + AttemptLimit
  BY <1>2, <1>4, LimitPositive DEF AttemptsLeft
<1>6. AttemptsLeft(p) = n * c + (AttemptLimit - attempts[p])
  BY DEF AttemptsLeft
<1> HIDE DEF n
<1>7. n * c \in Nat /\ (n - 1) * c = n * c - c BY <1>1, OneLess
<1> DEFINE m == n * c
<1>8. m \in Nat /\ AttemptsLeft(p)' = m - c + AttemptLimit
        /\ AttemptsLeft(p) = m + (AttemptLimit - attempts[p])
  BY <1>5, <1>6, <1>7
<1> HIDE DEF m
<1>9. AttemptsLeft(p)' \in Int BY <1>1, <1>8, LimitPositive
<1>10. StepsLeft(p)' = 3 * AttemptsLeft(p)' BY <1>2, <1>9 DEF StepsLeft
<1>11. StepsLeft(p) = 3 * AttemptsLeft(p) + 2 BY DEF StepsLeft
<1> QED BY <1>1, <1>8, <1>10, <1>11, LimitPositive

LEMMA RetryShortens ==
  ASSUME RunInv, NEW p \in Procs, pc[p] = "cycle", NEW report,
         RetryOrGiveUp(p, report)
  PROVE  StepsLeft(p)' < StepsLeft(p)
<1>1. CASE attempts[p] < AttemptLimit
  <2>1. pc'[p] = "backoff" /\ UNCHANGED <<attempts, reports>>
    BY <1>1 DEF RetryOrGiveUp, Goto, RunInv, RunTypes
  <2>2. AttemptsLeft(p)' = AttemptsLeft(p) BY <2>1 DEF AttemptsLeft
  <2>3. AttemptsLeft(p) \in Nat BY StepsTyped DEF Holding
  <2> QED BY <2>1, <2>2, <2>3 DEF StepsLeft
<1>2. CASE ~(attempts[p] < AttemptLimit)
  BY <1>2, RecordingShortens DEF RetryOrGiveUp
<1> QED BY <1>1, <1>2

LEMMA RunShortens ==
  ASSUME RunInv, NEW p \in Procs, Holding(p), Run(p)
  PROVE  pc'[p] = "done" \/ StepsLeft(p)' < StepsLeft(p)
<1>1. CASE StartCycle(p)
  <2>1. /\ pc[p] = "next" /\ pc'[p] = "cycle"
        /\ attempts'[p] = attempts[p] + 1 /\ reports' = reports
    BY <1>1 DEF StartCycle, Goto, RunInv, RunTypes
  <2>2. attempts[p] \in Nat BY StepsTyped
  <2>3. AttemptsLeft(p)' = AttemptsLeft(p) - 1
    <3> DEFINE k == (BackendCount - Len(reports[p])) * (AttemptLimit + 1)
    <3>1. k \in Int
      <4>1. /\ BackendCount - Len(reports[p]) \in Nat
            /\ AttemptLimit + 1 \in Nat
        BY StepsTyped, LimitPositive
      <4> DEFINE n == BackendCount - Len(reports[p])
      <4>2. n \in Nat /\ k = n * (AttemptLimit + 1) BY <4>1
      <4> HIDE DEF n, k
      <4> QED BY <4>1, <4>2
    <3>2. /\ AttemptsLeft(p) = k + (AttemptLimit - attempts[p])
          /\ AttemptsLeft(p)' = k + (AttemptLimit - attempts'[p])
      BY <2>1 DEF AttemptsLeft
    <3> HIDE DEF k
    <3> QED BY <2>1, <2>2, <3>1, <3>2, LimitPositive
  <2>4. AttemptsLeft(p) \in Nat BY StepsTyped
  <2> QED BY <2>1, <2>3, <2>4 DEF StepsLeft
<1>2. CASE BackoffEnds(p)
  <2>1. /\ pc[p] = "backoff" /\ pc'[p] = "next"
        /\ UNCHANGED <<attempts, reports>>
    BY <1>2 DEF BackoffEnds, Goto, RunInv, RunTypes
  <2>2. AttemptsLeft(p)' = AttemptsLeft(p) BY <2>1 DEF AttemptsLeft
  <2>3. AttemptsLeft(p) \in Nat BY StepsTyped
  <2> QED BY <2>1, <2>2, <2>3 DEF StepsLeft
<1>3. CASE CycleSucceeds(p) BY <1>3, RecordingShortens DEF CycleSucceeds
<1>4. CASE CycleFails(p) BY <1>4, RetryShortens DEF CycleFails
<1>5. CASE CycleErrs(p) BY <1>5, RetryShortens DEF CycleErrs
<1>6. CASE Finish(p) BY <1>6 DEF Finish, Goto, RunInv, RunTypes
<1>7. ~Acquire(p) /\ ~LockHeld(p) /\ ~LockFails(p)
  BY DEF Acquire, LockHeld, LockFails, Holding
<1> QED BY <1>1, <1>2, <1>3, <1>4, <1>5, <1>6, <1>7 DEF Run

(* What the end of a run rests on, for every number of backends and every   *)
(* retry policy: the steps left are a natural number, and each step of the  *)
(* run leaves fewer or is its last (run_backend_with_retry).                *)
THEOREM RunsShorten ==
  Spec => /\ [](\A p \in Procs : Holding(p) => StepsLeft(p) \in Nat)
          /\ [][\A p \in Procs : Holding(p) /\ Run(p) =>
                  pc'[p] = "done" \/ StepsLeft(p)' < StepsLeft(p)]_vars
<1>1. RunInv => \A p \in Procs : Holding(p) => StepsLeft(p) \in Nat
  BY StepsTyped
<1>2. RunInv => [\A p \in Procs : Holding(p) /\ Run(p) =>
                   pc'[p] = "done" \/ StepsLeft(p)' < StepsLeft(p)]_vars
  BY RunShortens
<1> QED BY <1>1, <1>2, RunInit, RunStep, PTL DEF Spec
=============================================================================
