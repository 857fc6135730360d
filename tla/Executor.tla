------------------------------ MODULE Executor ------------------------------
(***************************************************************************)
(* CleanupExecutor::execute_plan (src/src/executor.rs): the actions of a    *)
(* plan are handed to the backend one at a time, each in a worker thread of *)
(* its own that the executor stops waiting for after a timeout, and that    *)
(* goes on nevertheless.  A worker runs ExecutionContract::execute of the   *)
(* Docker or the Podman backend: a guard that looks at the containers again *)
(* and then the delete, a command each, with the users of the container     *)
(* runtime at work in between.                                              *)
(*                                                                         *)
(* The build cache of Docker, which has no guard, is not among the kinds.   *)
(***************************************************************************)
EXTENDS ContainerRuntime, Sequences, FiniteSets

CONSTANTS
  Runtimes,         \* backends in question, and how their ps prints the
                    \* ids of images
  Plan,             \* actions of one batch, or of batches in a row
  PlanDryRun        \* ActionPlan::dry_run

Kinds == {"Container", "Image", "Volume", "Unsupported"}

(* A plan names an image by the full id; {{.ImageID}} of ps may be the full *)
(* id, a shortened one, or unknown to docker ps.                            *)
ImageIds == [docker |-> {"full", "short", "none"}, podman |-> {"full", "short"}]

ASSUME ExecutorAssumption ==
  /\ \A r \in Runtimes :
       r.name \in {"docker", "podman"} /\ r.image_ids \in ImageIds[r.name]
  /\ PlanDryRun \in BOOLEAN
  /\ Plan \in Seq([kind : Kinds, target : Containers \cup Images \cup Volumes,
                   dry_run : BOOLEAN])
  /\ \A i \in 1 .. Len(Plan) :
       Plan[i].kind = "Container" => Plan[i].target \in Containers

VARIABLES
  runtime,     \* the backend that executes the plan
  waiting,     \* the executor waits for the worker of the next action
  settled, completed, failures,   \* actions, by their place in the plan
  worker,      \* the threads, by the place of their action
  idle, absent,\* history: the target was idle, as far as its guard can
               \* see, was gone, since the thread of its action began
  passed       \* history: containers a scan passed over as gone

executorVars == <<waiting, settled, completed, failures>>
historyVars == <<idle, absent, passed>>
vars == <<runtimeVars, runtime, executorVars, worker, historyVars>>

Indices == 1 .. Len(Plan)
Kind(i) == Plan[i].kind
Target(i) == Plan[i].target

(* A worker is unborn, then at a command of its guard ("guard" is the first *)
(* one, "scan" an inspection of one of the containers left in todo), at the *)
(* delete, or has ended: "sent" with an answer, or "dead" without.          *)
Unborn == [at |-> "unborn", todo |-> {}, found |-> FALSE, ok |-> FALSE]
Active(w) == w.at \in {"guard", "scan", "delete"}

(* A container in the plan was there when it was planned. *)
Init ==
  /\ container \in [Containers -> {"future", "stopped", "running"}]
  /\ \A i \in Indices : Kind(i) = "Container" => container[Target(i)] # "future"
  /\ images = Images /\ volumes = Volumes
  /\ runtime \in Runtimes
  /\ waiting = FALSE
  /\ settled = 0 /\ completed = <<>> /\ failures = <<>>
  /\ worker = [i \in Indices |-> Unborn]
  /\ idle = [i \in Indices |-> FALSE]
  /\ absent = [i \in Indices |-> FALSE]
  /\ passed = [i \in Indices |-> {}]

-----------------------------------------------------------------------------
Users ==
  /\ UsersStep
  /\ UNCHANGED <<executorVars, worker>>

-----------------------------------------------------------------------------
(* The executor. *)
Dry(i) == PlanDryRun \/ Plan[i].dry_run

(* Mutated form of Complete: places are counted from zero.                  *)
CompleteFromZero ==
  /\ completed' = Append(completed, settled)
  /\ settled' = settled + 1
  /\ waiting' = FALSE
  /\ UNCHANGED failures

Complete ==
  /\ completed' = Append(completed, settled + 1)
  /\ settled' = settled + 1
  /\ waiting' = FALSE
  /\ UNCHANGED failures

(* Mutated form of Fail: a failed action is tried again.                    *)
FailAndStay ==
  /\ failures' = Append(failures, settled + 1)
  /\ waiting' = FALSE
  /\ Len(failures) < Len(Plan)
  /\ UNCHANGED <<settled, completed>>

Fail ==
  /\ failures' = Append(failures, settled + 1)
  /\ settled' = settled + 1
  /\ waiting' = FALSE
  /\ UNCHANGED completed

Simulate ==
  /\ settled < Len(Plan) /\ Dry(settled + 1)
  /\ Complete
  /\ UNCHANGED <<runtimeVars, worker>>

Spawn ==
  /\ settled < Len(Plan) /\ ~waiting /\ ~Dry(settled + 1)
  /\ waiting' = TRUE
  /\ worker' = [worker EXCEPT ![settled + 1] = [Unborn EXCEPT !.at = "guard"]]
  /\ UNCHANGED <<runtimeVars, settled, completed, failures>>

Answered(i) == worker[i].at = "sent"

Receive ==
  /\ waiting /\ Answered(settled + 1)
  /\ IF worker[settled + 1].ok THEN Complete ELSE Fail
  /\ UNCHANGED <<runtimeVars, worker>>

(* Mutated form of TimeOut: the call is made once more.                     *)
TimeOutRetries ==
  /\ waiting /\ ~Answered(settled + 1) /\ worker[settled + 1].at # "dead"
  /\ waiting' = FALSE
  /\ UNCHANGED <<runtimeVars, settled, completed, failures, worker>>

(* Nobody will read the answer of this worker any more. *)
TimeOut ==
  /\ waiting /\ ~Answered(settled + 1) /\ worker[settled + 1].at # "dead"
  /\ Fail
  /\ UNCHANGED <<runtimeVars, worker>>

Disconnected ==
  /\ waiting /\ worker[settled + 1].at = "dead"
  /\ Fail
  /\ UNCHANGED <<runtimeVars, worker>>

-----------------------------------------------------------------------------
(* The workers. *)
Step(i, at) == worker' = [worker EXCEPT ![i].at = at]
End(i, last) == worker' = [worker EXCEPT ![i] = last]
Answer(i, ok) == End(i, [Unborn EXCEPT !.at = "sent", !.ok = ok])

Refuse(i) == Answer(i, FALSE)

(* ensure_container_not_running: a container that is gone is left to the    *)
(* delete by Docker, an error for Podman.                                   *)
GuardContainer(i) ==
  /\ worker[i].at = "guard" /\ Kind(i) = "Container"
  /\ IF Target(i) \in Existing
     THEN IF container[Target(i)] = "running" THEN Refuse(i)
                                              ELSE Step(i, "delete")
     ELSE IF runtime.name = "docker" THEN Step(i, "delete") ELSE Refuse(i)

(* What of the use of its target by c a guard can see: no shortened id is   *)
(* equal to the id in the plan.                                             *)
Shows(c, i) ==
  IF Kind(i) = "Image"
  THEN References(c, Target(i)) /\ runtime.image_ids # "short"
  ELSE ShowsMount(c, Target(i))

(* ensure_image_not_referenced, by one listing.                             *)
GuardImage(i) ==
  /\ worker[i].at = "guard" /\ Kind(i) = "Image"
  /\ runtime.image_ids # "none"
  /\ IF \E c \in Existing : Shows(c, i) THEN Refuse(i) ELSE Step(i, "delete")

(* Mutated form of ListContainers: stopped ones are left out.               *)
ListRunningContainers(i) ==
  /\ worker[i].at = "guard"
  /\ Kind(i) = "Volume" \/ (Kind(i) = "Image" /\ runtime.image_ids = "none")
  /\ worker' = [worker EXCEPT
                  ![i].at = "scan",
                  ![i].todo = {c \in Containers : container[c] = "running"}]

(* ensure_volume_not_attached, and the fallback for images: list the        *)
(* containers, then inspect each of them.                                   *)
ListContainers(i) ==
  /\ worker[i].at = "guard"
  /\ Kind(i) = "Volume" \/ (Kind(i) = "Image" /\ runtime.image_ids = "none")
  /\ worker' = [worker EXCEPT ![i].at = "scan", ![i].todo = Existing]

(* A container gone since the listing is passed over by Docker, an error    *)
(* for Podman.                                                              *)
InspectContainer(i) ==
  /\ worker[i].at = "scan"
  /\ \E c \in worker[i].todo :
       IF c \notin Existing /\ runtime.name = "podman"
       THEN Refuse(i)
       ELSE worker' = [worker EXCEPT
                         ![i].todo = @ \ {c},
                         ![i].found = @ \/ (c \in Existing /\ Shows(c, i))]

EndScan(i) ==
  /\ worker[i].at = "scan" /\ worker[i].todo = {}
  /\ IF worker[i].found THEN Refuse(i) ELSE Step(i, "delete")

(* Unknown kinds, and the build cache of Podman. *)
RefuseKind(i) ==
  /\ worker[i].at = "guard" /\ Kind(i) = "Unsupported"
  /\ Refuse(i)

(* A command that fails, or prints what cannot be parsed, ends the worker   *)
(* with an error; a panic ends it without an answer.                        *)
CommandFails(i) == worker[i].at \in {"guard", "scan"} /\ Refuse(i)
Panic(i) == Active(worker[i]) /\ End(i, [Unborn EXCEPT !.at = "dead"])

Guard(i) ==
  /\ \/ GuardContainer(i) \/ GuardImage(i) \/ ListContainers(i)
     \/ InspectContainer(i) \/ EndScan(i) \/ RefuseKind(i)
     \/ CommandFails(i) \/ Panic(i)
  /\ UNCHANGED <<runtimeVars, executorVars>>

Gone(i) ==
  CASE Kind(i) = "Container" -> Target(i) \notin Existing
    [] Kind(i) = "Image" -> Target(i) \notin images
    [] Kind(i) = "Volume" -> Target(i) \notin volumes
    [] OTHER -> FALSE

Uses(c, i) ==
  IF Kind(i) = "Image" THEN References(c, Target(i)) ELSE Mounts(c, Target(i))

InUse(i) ==
  CASE Kind(i) = "Container" -> container[Target(i)] = "running"
    [] Kind(i) \in {"Image", "Volume"} -> \E c \in Existing : Uses(c, i)
    [] OTHER -> FALSE

(* The runtime's rm, without force: it refuses what is in use.              *)
Destroy(i) ==
  /\ ~Gone(i) /\ ~InUse(i)
  /\ container' = IF Kind(i) = "Container"
                  THEN [container EXCEPT ![Target(i)] = "removed"] ELSE container
  /\ images' = images \ IF Kind(i) = "Image" THEN {Target(i)} ELSE {}
  /\ volumes' = volumes \ IF Kind(i) = "Volume" THEN {Target(i)} ELSE {}

(* Mutated form of DeleteMissing: an image in use counts as deleted.        *)
DeleteMissingOrRefused(i) ==
  /\ worker[i].at = "delete" /\ (Gone(i) \/ InUse(i))
  /\ Answer(i, runtime.name = "docker")
  /\ UNCHANGED <<runtimeVars, executorVars>>

(* Someone else removed the target: a success for Docker, not for Podman.   *)
DeleteMissing(i) ==
  /\ worker[i].at = "delete" /\ Gone(i)
  /\ Answer(i, runtime.name = "docker")
  /\ UNCHANGED <<runtimeVars, executorVars>>

DeleteSucceeds(i) ==
  /\ worker[i].at = "delete"
  /\ Destroy(i)
  /\ Answer(i, TRUE)
  /\ UNCHANGED executorVars

(* The command fails: refused, not reached, or cut off after its effect.    *)
DeleteFails(i) ==
  /\ worker[i].at = "delete"
  /\ Destroy(i) \/ UNCHANGED runtimeVars
  /\ Answer(i, FALSE)
  /\ UNCHANGED executorVars

Work(i) == Guard(i) \/ DeleteMissing(i) \/ DeleteSucceeds(i) \/ DeleteFails(i)

-----------------------------------------------------------------------------
Execute == Simulate \/ Spawn \/ Receive \/ TimeOut \/ Disconnected

(* What a guard could see of that.                                          *)
SeenInUse(i) ==
  IF Kind(i) \in {"Image", "Volume"} THEN \E c \in Existing : Shows(c, i)
                                     ELSE InUse(i)

(* What was seen by the way: of the target, as long as its thread is at     *)
(* work, and of its absence for good.                                       *)
Watch ==
  /\ UNCHANGED runtime
  /\ idle' = [i \in Indices |->
               Active(worker'[i]) /\ (idle[i] \/ ~SeenInUse(i)')]
  /\ absent' = [i \in Indices |->
                 worker'[i].at # "unborn" /\ (absent[i] \/ Gone(i)')]
  /\ passed' = [i \in Indices |->
                 {c \in passed[i]
                          \cup ((worker[i].todo \ worker'[i].todo) \ Existing) :
                    Active(worker'[i])}]

Next == (Users \/ Execute \/ \E i \in Indices : Work(i)) /\ Watch

(* The executor's thread runs, and its timeouts expire; neither the workers *)
(* nor the runtime are assumed to make any progress.                        *)
Spec == Init /\ [][Next]_vars /\ WF_vars(Execute /\ Watch)

-----------------------------------------------------------------------------
Worker ==
  [at : {"unborn", "guard", "scan", "delete", "sent", "dead"},
   todo : SUBSET Containers, found : BOOLEAN, ok : BOOLEAN]

TypeOK ==
  /\ RuntimeTypeOK
  /\ waiting \in BOOLEAN
  /\ settled \in 0 .. Len(Plan)
  /\ completed \in Seq(Indices) /\ failures \in Seq(Indices)
  /\ worker \in [Indices -> Worker]
  /\ runtime \in Runtimes
  /\ idle \in [Indices -> BOOLEAN] /\ absent \in [Indices -> BOOLEAN]
  /\ passed \in [Indices -> SUBSET Containers]

(* The executor implements Batch, which the scheduler builds on: whatever   *)
(* the workers, timeouts and late answers do, each action is settled once,  *)
(* in order, and simulated ones always complete.                            *)
Promise == INSTANCE Batch WITH
             Size <- Len(Plan), Simulated <- {i \in Indices : Dry(i)}

ImplementsBatch == Promise!Spec

(* A delete is issued only for a target that has been idle at some moment   *)
(* since its guard began (ensure_*_not_* of the backends), or, with Docker, *)
(* that a container used which was gone when the scan came to it.  Idle is  *)
(* meant as far as the guard sees: it is blind to the mounts of a container *)
(* with a tab or a line break in a label, and to all users of an image      *)
(* where ps shortens the ids of images.                                     *)
GuardSound ==
  \A i \in Indices :
    worker[i].at = "delete" =>
      \/ idle[i]
      \/ runtime.name = "docker" /\ \E c \in passed[i] : Shows(c, i)

(* What src/docs/docker-backend.md:88 says of the guard without exception:  *)
(* a volume attached all the time is never handed to the delete command;    *)
(* to be read of labels that hide no mounts.                                *)
AttachedBlocksDelete ==
  \A i \in Indices :
    Kind(i) = "Volume" /\ worker[i].at = "delete" => idle[i]

(* The target of an action reported as completed was gone at some moment    *)
(* since its thread began, if not by its own delete; an action that was     *)
(* simulated had no thread.                                                 *)
CompletedIsGone ==
  \A n \in DOMAIN completed :
    LET i == completed[n] IN
    IF Dry(i) THEN worker[i] = Unborn ELSE absent[i]

(* The plan comes to its end, even if no worker ever answers.               *)
PlanEnds == <>(settled = Len(Plan))
=============================================================================
