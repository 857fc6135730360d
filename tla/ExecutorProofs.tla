--------------------------- MODULE ExecutorProofs ---------------------------
(***************************************************************************)
(* Proofs about Executor: it implements Batch, and the guards of the        *)
(* workers let nothing through that was in use all the time they looked,    *)
(* unless its user was passed over as gone, which Podman's scan never does. *)
(***************************************************************************)
EXTENDS Executor, TLAPS

LEMMA PlanLength == Len(Plan) \in Nat
BY ExecutorAssumption

-----------------------------------------------------------------------------
(* The executor waits only for an action that has a thread. *)
BatchInv ==
  /\ settled \in 0 .. Len(Plan)
  /\ waiting => settled < Len(Plan) /\ ~Dry(settled + 1)

LEMMA BatchInit == Init => BatchInv
<1>1. Init => ~waiting BY DEF Init
<1> QED BY <1>1, PlanLength DEF Init, BatchInv

(* An action is settled only while there is one, and ends the wait.         *)
LEMMA SettledCounted ==
  ASSUME BatchInv, settled < Len(Plan), Complete \/ Fail
  PROVE  BatchInv'
<1>1. ~waiting' BY DEF Complete, Fail
<1>2. settled' = settled + 1 BY DEF Complete, Fail
<1> QED BY <1>1, <1>2, PlanLength DEF BatchInv

LEMMA BatchStep ==
  ASSUME BatchInv, [Next]_vars
  PROVE  BatchInv'
<1>1. CASE UNCHANGED executorVars
  BY <1>1 DEF BatchInv, Dry, executorVars
<1>2. CASE Simulate
  BY <1>2, SettledCounted DEF Simulate
<1>3. CASE Spawn
  BY <1>3, PlanLength DEF BatchInv, Spawn, Dry
<1>4. CASE Receive
  <2>1. settled < Len(Plan) BY <1>4 DEF BatchInv, Receive
  <2>2. Complete \/ Fail BY <1>4 DEF Receive
  <2> QED BY <2>1, <2>2, SettledCounted
<1>5. CASE TimeOut \/ Disconnected
  <2>1. settled < Len(Plan) BY <1>5 DEF BatchInv, TimeOut, Disconnected
  <2>2. Fail BY <1>5 DEF TimeOut, Disconnected
  <2> QED BY <2>1, <2>2, SettledCounted
<1> QED
  BY <1>1, <1>2, <1>3, <1>4, <1>5
     DEF Next, Users, Execute, Work, Guard, DeleteMissing, DeleteSucceeds,
         DeleteFails, vars

(* Each step of the executor settles the next action or none.               *)
LEMMA BatchSimulates ==
  ASSUME BatchInv, [Next]_vars
  PROVE  [Promise!Complete \/ Promise!Fail]_(Promise!batch)
<1>1. CASE UNCHANGED executorVars
  BY <1>1 DEF executorVars, Promise!batch
<1>2. CASE Simulate
  BY <1>2 DEF Simulate, Complete, Promise!Complete
<1>3. CASE Spawn BY <1>3 DEF Spawn, Promise!batch
<1>4. CASE Receive \/ TimeOut \/ Disconnected
  <2>1. Complete \/ Fail
    BY <1>4 DEF Receive, TimeOut, Disconnected
  <2>2. settled < Len(Plan) /\ settled + 1 \notin {i \in Indices : Dry(i)}
    BY <1>4 DEF BatchInv, Receive, TimeOut, Disconnected
  <2> QED
    BY <2>1, <2>2 DEF Complete, Fail, Promise!Complete, Promise!Fail
<1> QED
  BY <1>1, <1>2, <1>3, <1>4
     DEF Next, Users, Execute, Work, Guard, DeleteMissing, DeleteSucceeds,
         DeleteFails, vars

(* For every plan and runtime: each action is settled exactly once and in   *)
(* order, whatever its worker does and however late it answers.             *)
THEOREM BatchImplemented == Spec => ImplementsBatch
<1>1. Init => Promise!Start BY DEF Init, Promise!Start
<1> QED
  BY <1>1, BatchInit, BatchStep, BatchSimulates, PTL
     DEF Spec, ImplementsBatch, Promise!Spec

-----------------------------------------------------------------------------
(* A scan that has found no user of a target that was never idle has the    *)
(* user still before it, or has passed over it, which only Docker's does.   *)
Covered(i) ==
  /\ worker[i].at = "guard" => worker[i].todo = {}
  /\ worker[i].at = "scan" => Kind(i) \in {"Image", "Volume"}
  /\ worker[i].at = "scan" /\ ~worker[i].found /\ ~idle[i] =>
       \E c \in worker[i].todo \cup passed[i] : Shows(c, i)
  /\ worker[i].at = "delete" => idle[i] \/ \E c \in passed[i] : Shows(c, i)
  /\ runtime.name = "podman" => passed[i] = {}

GuardInv ==
  /\ worker \in [Indices -> Worker]
  /\ idle \in [Indices -> BOOLEAN]
  /\ runtime \in Runtimes
  /\ \A i \in Indices : Covered(i)

LEMMA PassedOver ==
  ASSUME Watch, NEW i \in Indices
  PROVE  passed'[i] =
           {c \in passed[i] \cup ((worker[i].todo \ worker'[i].todo) \ Existing) :
              Active(worker'[i])}
BY DEF Watch

(* Whatever happens elsewhere, a worker that does not move stays covered:   *)
(* a target once seen idle is remembered as such.                           *)
LEMMA BystanderCovered ==
  ASSUME GuardInv, Watch, NEW i \in Indices,
         worker'[i] = worker[i]
  PROVE  Covered(i)'
<1>1. Active(worker[i]) /\ idle[i] => idle'[i] BY DEF Watch, GuardInv
<1>2. passed'[i] = {c \in passed[i] : Active(worker[i])} BY PassedOver
<1>3. runtime' = runtime BY DEF Watch
<1> QED
  BY <1>1, <1>2, <1>3
  DEF GuardInv, Covered, Shows, ShowsMount, References, Kind, Target, Active

(* A worker that has ended needs no cover.                                  *)
LEMMA EndedCovered ==
  ASSUME GuardInv, Watch, NEW i \in Indices,
         worker'[i].at \in {"unborn", "sent", "dead"}
  PROVE  Covered(i)'
<1>1. passed'[i] = {} BY PassedOver DEF Active
<1> QED BY <1>1 DEF Covered

(* Nor does one that begins.                                                *)
LEMMA BornCovered ==
  ASSUME GuardInv, Watch, NEW i \in Indices, worker[i] = Unborn,
         worker'[i] = [Unborn EXCEPT !.at = "guard"]
  PROVE  Covered(i)'
<1>1. worker'[i].at = "guard" /\ worker'[i].todo = {} /\ worker[i].todo = {}
  BY DEF Unborn
<1>2. passed'[i] = passed[i] BY <1>1, PassedOver DEF Active
<1>3. runtime' = runtime BY DEF Watch
<1> QED BY <1>1, <1>2, <1>3 DEF Covered, GuardInv

(* A worker moves from its guard to the delete only past an idle target, or *)
(* past a user of it that is gone.                                          *)
LEMMA MovedCovered ==
  ASSUME GuardInv, Watch, NEW i \in Indices, Guard(i)
  PROVE  Covered(i)'
<1>1. worker[i] \in Worker BY DEF GuardInv
<1>2. runtime' = runtime /\ UNCHANGED runtimeVars BY DEF Guard, Watch
<1>3. CASE \E w \in {"sent", "dead"}, ok \in BOOLEAN :
             End(i, [Unborn EXCEPT !.at = w, !.ok = ok])
  <2>1. worker'[i].at \in {"sent", "dead"}
    BY <1>3 DEF End, GuardInv, Unborn
  <2> QED BY <2>1, EndedCovered
<1>4. CASE Refuse(i) BY <1>3, <1>4 DEF Refuse, Answer
<1>5. CASE Panic(i)
  <2>1. worker'[i].at = "dead" BY <1>5 DEF Panic, End, GuardInv, Unborn
  <2> QED BY <2>1, EndedCovered
<1>6. Active(worker'[i]) => (idle'[i] <=> idle[i] \/ ~SeenInUse(i)')
  BY DEF Watch
<1>7. SeenInUse(i)' <=> SeenInUse(i)
  BY <1>2 DEF SeenInUse, InUse, Kind, Target, Existing, Uses, Shows, ShowsMount,
              References, runtimeVars
<1>8. ASSUME Step(i, "delete"), ~SeenInUse(i), worker[i].at = "guard"
      PROVE  Covered(i)'
  <2>1. worker'[i].at = "delete" /\ worker'[i].todo = worker[i].todo
    BY <1>1, <1>8 DEF GuardInv, Step, Worker
  <2>2. idle'[i] /\ passed'[i] = passed[i]
    BY <1>6, <1>7, <1>8, <2>1, PassedOver DEF Active
  <2> QED BY <1>2, <2>1, <2>2 DEF Covered, GuardInv
<1>9. CASE GuardContainer(i)
  <2>1. Target(i) \in Containers
    BY <1>9, ExecutorAssumption DEF GuardContainer, Kind, Target, Indices
  <2>2. SeenInUse(i) <=> container[Target(i)] = "running"
    BY <1>9 DEF GuardContainer, SeenInUse, InUse
  <2>3. SeenInUse(i) => Target(i) \in Existing BY <2>1, <2>2 DEF Existing
  <2> QED BY <1>4, <1>8, <1>9, <2>2, <2>3 DEF GuardContainer
<1>10. CASE GuardImage(i)
  BY <1>4, <1>8, <1>10 DEF GuardImage, SeenInUse
<1>11. CASE ListContainers(i)
  <2>1. /\ worker'[i].at = "scan" /\ worker'[i].todo = Existing
        /\ Kind(i) \in {"Image", "Volume"}
    BY <1>1, <1>11 DEF GuardInv, ListContainers, Worker
  <2>2. SeenInUse(i) => \E c \in Existing : Shows(c, i)
    BY <2>1 DEF SeenInUse
  <2>3. ~idle'[i] => SeenInUse(i) BY <1>6, <1>7, <2>1 DEF Active
  <2>4. runtime.name = "podman" => passed'[i] = {}
    <3>1. worker[i].todo \ worker'[i].todo \subseteq worker[i].todo \ Existing
      BY <2>1
    <3>2. worker[i].todo = {} BY <1>11 DEF ListContainers, GuardInv, Covered
    <3> QED BY <3>1, <3>2, PassedOver DEF GuardInv, Covered
  <2> QED
    BY <1>2, <2>1, <2>2, <2>3, <2>4
    DEF Covered, Shows, ShowsMount, References, Kind, Target
<1>12. CASE InspectContainer(i)
  <2>1. PICK c \in worker[i].todo :
          IF c \notin Existing /\ runtime.name = "podman"
          THEN Refuse(i)
          ELSE worker' = [worker EXCEPT
                            ![i].todo = @ \ {c},
                            ![i].found = @ \/ (c \in Existing /\ Shows(c, i))]
    BY <1>12 DEF InspectContainer
  <2>2. CASE c \notin Existing /\ runtime.name = "podman"
    BY <1>4, <2>1, <2>2
  <2>3. CASE ~(c \notin Existing /\ runtime.name = "podman")
    <3>1. /\ worker'[i].at = "scan" /\ worker'[i].todo = worker[i].todo \ {c}
          /\ worker'[i].found <=>
               (worker[i].found \/ (c \in Existing /\ Shows(c, i)))
      BY <1>1, <1>12, <2>1, <2>3 DEF GuardInv, Worker, InspectContainer
    <3>2. Kind(i) \in {"Image", "Volume"}
      BY <1>12 DEF GuardInv, Covered, InspectContainer
    <3>4. idle[i] => idle'[i] BY <1>6, <3>1 DEF Active
    <3>5. passed'[i] = passed[i] \cup ({c} \ Existing)
      BY <3>1, PassedOver DEF Active
    <3>6. runtime.name = "podman" => passed'[i] = {}
      BY <2>3, <3>5 DEF GuardInv, Covered
    <3>7. ASSUME ~worker'[i].found, ~idle'[i]
          PROVE  \E d \in worker'[i].todo \cup passed'[i] : Shows(d, i)
      <4>1. PICK d \in worker[i].todo \cup passed[i] : Shows(d, i)
        BY <1>12, <3>1, <3>4, <3>7 DEF GuardInv, Covered, InspectContainer
      <4>2. d = c => c \notin Existing BY <3>1, <3>7, <4>1
      <4> QED BY <3>1, <3>5, <4>1, <4>2
    <3> QED
      BY <1>2, <3>1, <3>2, <3>6, <3>7
      DEF Covered, Shows, ShowsMount, References, Kind, Target
  <2> QED BY <2>2, <2>3
<1>13. CASE EndScan(i)
  <2>1. CASE Refuse(i) BY <1>4, <2>1
  <2>2. CASE ~worker[i].found /\ Step(i, "delete")
    <3>1. worker'[i].at = "delete" /\ worker'[i].todo = worker[i].todo
      BY <1>1, <2>2 DEF GuardInv, Step, Worker
    <3>2. passed'[i] = passed[i] BY <3>1, PassedOver DEF Active
    <3>3. idle[i] => idle'[i] BY <1>6, <3>1 DEF Active
    <3>4. idle[i] \/ \E c \in passed[i] : Shows(c, i)
      BY <1>13, <2>2 DEF GuardInv, Covered, EndScan
    <3> QED
      BY <1>2, <3>1, <3>2, <3>3, <3>4
      DEF Covered, GuardInv, Shows, ShowsMount, References, Kind,
         Target
  <2> QED BY <1>13, <2>1, <2>2 DEF EndScan
<1>14. CASE RefuseKind(i) \/ CommandFails(i)
  BY <1>4, <1>14 DEF RefuseKind, CommandFails
<1> QED
  BY <1>5, <1>9, <1>10, <1>11, <1>12, <1>13, <1>14 DEF Guard

LEMMA WorkerTyped ==
  ASSUME worker \in [Indices -> Worker], [Next]_vars
  PROVE  worker' \in [Indices -> Worker]
<1>1. CASE UNCHANGED worker BY <1>1
<1>2. CASE Spawn
  BY <1>2, PlanLength DEF Spawn, Indices, Unborn, Worker
<1>3. ASSUME NEW i \in Indices, Work(i) PROVE worker' \in [Indices -> Worker]
  <2>1. worker[i] \in Worker OBVIOUS
  <2>2. CASE Step(i, "delete")
    BY <2>1, <2>2 DEF Step, Worker
  <2>3. CASE \E ok \in BOOLEAN : Answer(i, ok)
    <3>1. ASSUME NEW ok \in BOOLEAN
          PROVE  [Unborn EXCEPT !.at = "sent", !.ok = ok] \in Worker
      <4>1. CASE ok = TRUE BY <4>1 DEF Unborn, Worker
      <4>2. CASE ok = FALSE BY <4>2 DEF Unborn, Worker
      <4> QED BY <4>1, <4>2
    <3>2. PICK ok \in BOOLEAN : Answer(i, ok) BY <2>3
    <3> DEFINE last == [Unborn EXCEPT !.at = "sent", !.ok = ok]
    <3>3. last \in Worker /\ worker' = [worker EXCEPT ![i] = last]
      BY <3>1, <3>2 DEF Answer, End
    <3> HIDE DEF last
    <3> QED BY <3>3
  <2>7. CASE Panic(i)
    BY <2>1, <2>7 DEF Panic, End, Unborn, Worker
  <2>4. CASE ListContainers(i)
    BY <2>1, <2>4 DEF ListContainers, Worker, Existing
  <2>5. CASE InspectContainer(i)
    <3>1. PICK c \in worker[i].todo :
            \/ Refuse(i)
            \/ worker' = [worker EXCEPT
                            ![i].todo = @ \ {c},
                            ![i].found = @ \/ (c \in Existing /\ Shows(c, i))]
      BY <2>5 DEF InspectContainer
    <3> DEFINE now == worker[i].found \/ (c \in Existing /\ Shows(c, i))
    <3>2. CASE Refuse(i) BY <2>3, <3>2 DEF Refuse
    <3>3. ASSUME NEW found \in BOOLEAN,
                 worker' = [worker EXCEPT ![i].todo = @ \ {c},
                                          ![i].found = found]
          PROVE  worker' \in [Indices -> Worker]
      <4>1. CASE found = TRUE BY <2>1, <3>3, <4>1 DEF Worker
      <4>2. CASE found = FALSE BY <2>1, <3>3, <4>2 DEF Worker
      <4> QED BY <4>1, <4>2
    <3>4. CASE worker' = [worker EXCEPT ![i].todo = @ \ {c}, ![i].found = now]
      <4>1. now \in BOOLEAN OBVIOUS
      <4> HIDE DEF now
      <4> QED BY <3>3, <3>4, <4>1
    <3> QED BY <3>1, <3>2, <3>4
  <2>6. (runtime.name = "docker") \in BOOLEAN OBVIOUS
  <2> QED
    BY <1>3, <2>2, <2>3, <2>4, <2>5, <2>6, <2>7
       DEF Work, Guard, GuardContainer, GuardImage, EndScan, RefuseKind,
           CommandFails, DeleteMissing, DeleteSucceeds, DeleteFails,
           Refuse
<1> QED
  BY <1>1, <1>2, <1>3
     DEF Next, Users, Execute, Simulate, Receive, TimeOut, Disconnected, vars

(* A worker moves alone, and only when it has begun and not ended.          *)
LEMMA WorkAlone ==
  ASSUME worker \in [Indices -> Worker], NEW i \in Indices, Work(i)
  PROVE  /\ Active(worker[i])
         /\ \A j \in Indices \ {i} : worker'[j] = worker[j]
<1>1. Active(worker[i])
  BY DEF Work, Guard, GuardContainer, GuardImage, ListContainers,
         InspectContainer, EndScan, RefuseKind, CommandFails, Panic,
         DeleteMissing, DeleteSucceeds, DeleteFails, Active
<1>2. \A j \in Indices \ {i} : worker'[j] = worker[j]
  BY DEF Work, Guard, GuardContainer, GuardImage, ListContainers,
         InspectContainer, EndScan, RefuseKind, CommandFails, Panic,
         DeleteMissing, DeleteSucceeds, DeleteFails, Refuse, Step, Answer, End
<1> QED BY <1>1, <1>2

(* No thread has begun for an action the executor has not come to.          *)
Fresh ==
  \A i \in Indices :
    i > settled /\ ~(waiting /\ i = settled + 1) => worker[i] = Unborn

LEMMA FreshStep ==
  ASSUME worker \in [Indices -> Worker], BatchInv, Fresh, [Next]_vars
  PROVE  Fresh'
<1>1. settled \in Nat BY PlanLength DEF BatchInv
<1>2. CASE UNCHANGED <<settled, waiting, worker>> BY <1>2 DEF Fresh
<1>3. CASE UNCHANGED worker /\ (Complete \/ Fail)
  <2>1. settled' = settled + 1 /\ ~waiting' BY <1>3 DEF Complete, Fail
  <2> QED BY <1>1, <1>3, <2>1, PlanLength DEF Fresh, Indices
<1>4. CASE Spawn BY <1>1, <1>4 DEF Spawn, Fresh
<1>5. ASSUME NEW i \in Indices, Work(i) PROVE Fresh'
  <2>1. UNCHANGED <<settled, waiting>>
    BY <1>5 DEF Work, Guard, DeleteMissing, DeleteSucceeds, DeleteFails,
                executorVars
  <2>2. worker[i] # Unborn BY <1>5, WorkAlone DEF Active, Unborn
  <2> QED BY <1>5, <2>1, <2>2, WorkAlone DEF Fresh
<1> QED
  BY <1>2, <1>3, <1>4, <1>5
     DEF Next, Users, Execute, Simulate, Receive, TimeOut, Disconnected, vars,
         executorVars

LEMMA GuardInit == Init => GuardInv /\ Fresh
BY DEF Init, GuardInv, Fresh, Unborn, Worker, Covered

LEMMA GuardStep ==
  ASSUME GuardInv, Fresh, BatchInv, [Next]_vars
  PROVE  GuardInv'
<1>1. CASE UNCHANGED vars
  BY <1>1 DEF vars, runtimeVars, executorVars, historyVars, GuardInv, Covered,
              Shows, ShowsMount, References, Kind, Target
<1>2. CASE Next
  <2>1. worker' \in [Indices -> Worker] BY <1>2, WorkerTyped DEF GuardInv
  <2>2. idle' \in [Indices -> BOOLEAN] BY <1>2 DEF Next, Watch
  <2>3. ASSUME NEW i \in Indices PROVE Covered(i)'
    <3>1. Watch BY <1>2 DEF Next
    <3>2. CASE worker'[i] = worker[i] BY <2>3, <3>1, <3>2, BystanderCovered
    <3>3. CASE Spawn
      <4>1. CASE i = settled + 1
        <5>1. worker[i] = Unborn
          BY <3>3, <4>1, PlanLength DEF Spawn, Fresh, BatchInv
        <5>2. worker'[i] = [Unborn EXCEPT !.at = "guard"]
          BY <3>3, <4>1 DEF Spawn, GuardInv
        <5> QED BY <2>3, <3>1, <5>1, <5>2, BornCovered
      <4>2. CASE i # settled + 1
        <5>1. worker'[i] = worker[i] BY <3>3, <4>2 DEF Spawn, GuardInv
        <5> QED BY <3>2, <5>1
      <4> QED BY <4>1, <4>2
    <3>4. ASSUME NEW j \in Indices, Work(j) PROVE Covered(i)'
      <4>1. CASE i # j BY <3>2, <3>4, <4>1, WorkAlone DEF GuardInv
      <4>2. CASE i = j /\ Guard(i) BY <2>3, <3>1, <4>2, MovedCovered
      <4>3. CASE i = j /\ ~Guard(i)
        <5>1. \E ok : Answer(i, ok)
          BY <3>4, <4>3 DEF Work, DeleteMissing, DeleteSucceeds, DeleteFails
        <5>2. worker'[i].at = "sent"
          BY <5>1 DEF GuardInv, Answer, End, Unborn
        <5> QED BY <2>3, <3>1, <5>2, EndedCovered
      <4> QED BY <4>1, <4>2, <4>3
    <3> QED
      BY <1>2, <3>2, <3>3, <3>4
         DEF Next, Users, Execute, Simulate, Receive, TimeOut, Disconnected
  <2>4. runtime' \in Runtimes BY <1>2 DEF Next, Watch, GuardInv
  <2> QED BY <2>1, <2>2, <2>3, <2>4 DEF GuardInv
<1> QED BY <1>1, <1>2

(* For both backends, every plan, all labels and any number of containers:  *)
(* no delete is issued for a target that somebody whom the guard can see    *)
(* used all the time since the guard began, unless Docker's scan passed     *)
(* over a container that used it as gone.                                   *)
THEOREM GuardsHold == Spec => []GuardSound
<1>1. runtime \in Runtimes => runtime.name \in {"docker", "podman"}
  BY ExecutorAssumption
<1>2. GuardInv => GuardSound
  BY <1>1 DEF GuardInv, Covered, GuardSound
<1>3. GuardInv /\ Fresh /\ BatchInv /\ [Next]_vars => GuardInv' /\ Fresh'
  BY GuardStep, FreshStep DEF GuardInv
<1> QED
  BY <1>2, <1>3, GuardInit, BatchInit, BatchStep, PTL DEF Spec

(* What docs/docker-backend.md:88 says of Docker is true of Podman, whose   *)
(* scan takes a vanished container for an error, where no label of a        *)
(* container has a tab or a line break: no volume that was attached all the *)
(* time comes to the delete command, and attached means mounted, since an   *)
(* inspection shows just the mounts.                                        *)
THEOREM PodmanBlocksDelete ==
  ASSUME \A r \in Runtimes : r.name # "docker",
         \A c \in Containers : Clean(c)
  PROVE  /\ Spec => []AttachedBlocksDelete
         /\ \A c \in Containers, i \in Indices :
              Kind(i) = "Volume" => (Shows(c, i) <=> Uses(c, i))
<1>1. Init => runtime \in Runtimes BY DEF Init
<1>2. runtime \in Runtimes /\ [Next]_vars => (runtime \in Runtimes)'
  BY DEF Next, Watch, vars
<1>3. runtime \in Runtimes /\ GuardSound => AttachedBlocksDelete
  BY DEF GuardSound, AttachedBlocksDelete
<1>4. \A c \in Containers, i \in Indices :
        Kind(i) = "Volume" => (Shows(c, i) <=> Uses(c, i))
  BY DEF Shows, Uses, ShowsMount, ShownMounts, Mounts
<1>5. Spec => []AttachedBlocksDelete
  BY <1>1, <1>2, <1>3, GuardsHold, PTL DEF Spec
<1> QED BY <1>4, <1>5

-----------------------------------------------------------------------------
(* An answer of success has an absence behind it, no simulated action has a *)
(* thread, and an unsupported kind comes to no delete.                      *)
Vouched(i) ==
  /\ worker[i].at = "sent" /\ worker[i].ok => absent[i]
  /\ worker[i].at \in {"scan", "delete"} => Kind(i) # "Unsupported"
  /\ Dry(i) => worker[i] = Unborn
  /\ absent[i] => worker[i].at # "unborn"

EffectInv ==
  /\ container \in [Containers -> Stages]
  /\ worker \in [Indices -> Worker]
  /\ absent \in [Indices -> BOOLEAN]
  /\ completed \in Seq(Indices)
  /\ \A i \in Indices : Vouched(i)
  /\ CompletedIsGone

(* The answers a worker at its guard gives are refusals.                    *)
LEMMA GuardRefuses ==
  ASSUME worker \in [Indices -> Worker], NEW i \in Indices, Guard(i)
  PROVE  /\ worker[i].at \in {"guard", "scan", "delete"}
         /\ \A j \in Indices \ {i} : worker'[j] = worker[j]
         /\ \/ worker'[i].at = "sent" /\ ~worker'[i].ok
            \/ worker'[i].at = "dead"
            \/ worker'[i].at \in {"scan", "delete"} /\ Kind(i) # "Unsupported"
            \/ worker'[i].at = "scan" /\ worker[i].at = "scan"
            \/ worker'[i].at = "delete" /\ worker[i].at = "scan"
<1>1. worker[i] \in Worker OBVIOUS
<1>2. CASE Refuse(i)
  <2>1. /\ \A j \in Indices \ {i} : worker'[j] = worker[j]
        /\ worker'[i].at = "sent" /\ worker'[i].ok = FALSE
    BY <1>1, <1>2 DEF Refuse, Answer, End, Unborn
  <2>2. worker[i].at \in {"guard", "scan", "delete"}
    BY DEF Guard, GuardContainer, GuardImage, ListContainers,
           InspectContainer, EndScan, RefuseKind, CommandFails, Panic, Active
  <2> QED BY <2>1, <2>2
<1>3. ASSUME NEW at, Step(i, at)
      PROVE  /\ \A j \in Indices \ {i} : worker'[j] = worker[j]
             /\ worker'[i].at = at
  BY <1>1, <1>3 DEF Step, Worker
<1>4. CASE GuardContainer(i) \/ GuardImage(i)
  BY <1>2, <1>3, <1>4 DEF GuardContainer, GuardImage
<1>5. CASE ListContainers(i)
  BY <1>1, <1>5 DEF ListContainers, Worker
<1>6. CASE InspectContainer(i)
  <2>1. PICK c \in worker[i].todo :
          \/ Refuse(i)
          \/ worker' = [worker EXCEPT
                          ![i].todo = @ \ {c},
                          ![i].found = @ \/ (c \in Existing /\ Shows(c, i))]
    BY <1>6 DEF InspectContainer
  <2>2. CASE worker' = [worker EXCEPT
                          ![i].todo = @ \ {c},
                          ![i].found = @ \/ (c \in Existing /\ Shows(c, i))]
    <3>1. /\ worker'[i].at = worker[i].at
          /\ \A j \in Indices \ {i} : worker'[j] = worker[j]
      BY <1>1, <2>2 DEF Worker
    <3> QED BY <1>6, <3>1 DEF InspectContainer
  <2> QED BY <1>2, <2>1, <2>2
<1>7. CASE EndScan(i)
  BY <1>2, <1>3, <1>7 DEF EndScan
<1>8. CASE RefuseKind(i) \/ CommandFails(i)
  BY <1>2, <1>8 DEF RefuseKind, CommandFails
<1>9. CASE Panic(i)
  BY <1>1, <1>9 DEF Panic, End, Unborn, Active
<1> QED BY <1>4, <1>5, <1>6, <1>7, <1>8, <1>9 DEF Guard

(* The delete answers with success only when the target is gone, by this    *)
(* delete or another.                                                       *)
LEMMA SuccessMeansGone ==
  ASSUME EffectInv, NEW i \in Indices, DeleteMissing(i) \/ DeleteSucceeds(i)
  PROVE  Gone(i)'
<1>1. CASE DeleteMissing(i)
  BY <1>1 DEF DeleteMissing, Gone, Existing, Kind, Target, runtimeVars
<1>2. CASE DeleteSucceeds(i)
  <2>1. Destroy(i) BY <1>2 DEF DeleteSucceeds
  <2>2. CASE Kind(i) = "Container"
    <3>1. container' = [container EXCEPT ![Target(i)] = "removed"]
      BY <2>1, <2>2 DEF Destroy
    <3>2. Target(i) \notin Existing' BY <3>1 DEF Existing, EffectInv
    <3> QED BY <2>2, <3>2 DEF Gone, Kind, Target
  <2>3. CASE Kind(i) \in {"Image", "Volume"}
    BY <2>1, <2>3 DEF Destroy, Gone, Kind, Target
  <2>4. Kind(i) \in Kinds \ {"Unsupported"}
    <3> DEFINE Action == [kind : Kinds,
                          target : Containers \cup Images \cup Volumes,
                          dry_run : BOOLEAN]
    <3>1. Plan \in Seq(Action) BY ExecutorAssumption
    <3>2. Kind(i) \in Kinds
      <4>1. \A a \in Action : a.kind \in Kinds OBVIOUS
      <4> HIDE DEF Action
      <4>2. Plan[i] \in Action BY <3>1 DEF Indices
      <4> QED BY <4>1, <4>2 DEF Kind
    <3> QED BY <1>2, <3>2 DEF DeleteSucceeds, EffectInv, Vouched
  <2> QED BY <2>2, <2>3, <2>4 DEF Kinds
<1> QED BY <1>1, <1>2

(* A worker that moves is vouched for afterwards.                           *)
LEMMA WorkVouched ==
  ASSUME EffectInv, Watch, NEW j \in Indices, Work(j), NEW i \in Indices
  PROVE  Vouched(i)' /\ (absent[i] => absent'[i])
<1>1. /\ worker[j].at \in {"guard", "scan", "delete"}
      /\ \A k \in Indices \ {j} : worker'[k] = worker[k]
      /\ worker'[j].at # "unborn"
      /\ worker'[j].at = "sent" /\ worker'[j].ok => Gone(j)'
      /\ worker'[j].at \in {"scan", "delete"} => Kind(j) # "Unsupported"
  <2>1. CASE Guard(j)
    BY <2>1, GuardRefuses DEF EffectInv, Vouched
  <2>2. CASE DeleteMissing(j) \/ DeleteSucceeds(j)
    <3>1. \E ok : Answer(j, ok) BY <2>2 DEF DeleteMissing, DeleteSucceeds
    <3>2. /\ \A k \in Indices \ {j} : worker'[k] = worker[k]
          /\ worker'[j].at = "sent"
      BY <3>1 DEF EffectInv, Answer, End, Unborn
    <3> QED
      BY <2>2, <3>2, SuccessMeansGone DEF DeleteMissing, DeleteSucceeds
  <2>3. CASE DeleteFails(j)
    BY <2>3 DEF DeleteFails, Answer, End, Unborn, EffectInv
  <2> QED BY <2>1, <2>2, <2>3 DEF Work
<1>2. ~Dry(j) BY <1>1 DEF EffectInv, Vouched, Unborn
<1>3. Dry(i)' <=> Dry(i) BY DEF Dry
<1>4. absent'[i] <=> worker'[i].at # "unborn" /\ (absent[i] \/ Gone(i)')
  BY DEF Watch
<1>5. CASE i = j
  BY <1>1, <1>2, <1>3, <1>4, <1>5 DEF Vouched, Kind
<1>6. CASE i # j
  <2>1. worker'[i] = worker[i] BY <1>1, <1>6
  <2>2. Vouched(i) BY DEF EffectInv
  <2> QED BY <1>3, <1>4, <2>1, <2>2 DEF Vouched, Kind
<1> QED BY <1>5, <1>6

LEMMA ContainerTyped ==
  ASSUME EffectInv, Next
  PROVE  container' \in [Containers -> Stages]
<1>1. CASE UNCHANGED runtimeVars BY <1>1 DEF EffectInv, runtimeVars
<1>2. ASSUME NEW c \in Containers, NEW from, NEW to \in Stages,
             Become(c, from, to)
      PROVE  container' \in [Containers -> Stages]
  BY <1>2 DEF EffectInv, Become
<1>3. CASE Users
  BY <1>2, <1>3
     DEF Users, UsersStep, Create, StartStop, Remove, RemoveImage, RemoveVolume,
         Stages, EffectInv
<1>4. ASSUME NEW i \in Indices, Destroy(i)
      PROVE  container' \in [Containers -> Stages]
  BY <1>4 DEF Destroy, EffectInv, Stages
<1> QED
  BY <1>1, <1>3, <1>4
     DEF Next, Execute, Simulate, Spawn, Receive, TimeOut, Disconnected, Work,
         Guard, DeleteMissing, DeleteSucceeds, DeleteFails

(* All threads are vouched for after a step, and what was absent remains    *)
(* remembered.                                                              *)
LEMMA AllVouched ==
  ASSUME EffectInv, BatchInv, Next, NEW i \in Indices
  PROVE  Vouched(i)' /\ (absent[i] => absent'[i])
<1>0. /\ absent'[i] <=> worker'[i].at # "unborn" /\ (absent[i] \/ Gone(i)')
      /\ Dry(i)' <=> Dry(i)
      /\ Vouched(i)
  BY DEF Next, Watch, EffectInv, Dry
<1>1. CASE UNCHANGED worker BY <1>0, <1>1 DEF Vouched, Kind
<1>2. CASE Spawn
  <2>1. CASE i = settled + 1
    <3>1. worker'[i].at = "guard" /\ ~Dry(i)
      BY <1>2, <2>1 DEF Spawn, EffectInv, Unborn
    <3> QED BY <1>0, <3>1 DEF Vouched
  <2>2. CASE i # settled + 1
    <3>1. worker'[i] = worker[i] BY <1>2, <2>2 DEF Spawn, EffectInv
    <3> QED BY <1>0, <3>1 DEF Vouched, Kind
  <2> QED BY <2>1, <2>2
<1>3. CASE \E j \in Indices : Work(j)
  BY <1>3, WorkVouched DEF Next
<1> QED
  BY <1>1, <1>2, <1>3
     DEF Next, Users, Execute, Simulate, Receive, TimeOut, Disconnected

(* An action is completed as a simulation, or by an answer of success.      *)
LEMMA CompletionVouched ==
  ASSUME EffectInv, BatchInv, Next
  PROVE  /\ completed' \in Seq(Indices)
         /\ CompletedIsGone'
<1>1. \A i \in Indices : Vouched(i)' /\ (absent[i] => absent'[i])
  BY AllVouched
<1>2. \A i \in Indices : Dry(i)' <=> Dry(i) BY DEF Dry
<1>3. CASE UNCHANGED completed
  BY <1>1, <1>2, <1>3 DEF EffectInv, CompletedIsGone, Vouched
<1>4. ASSUME Complete, settled + 1 \in Indices,
             IF Dry(settled + 1) THEN TRUE ELSE absent[settled + 1]
      PROVE  /\ completed' \in Seq(Indices)
             /\ CompletedIsGone'
  <2>1. completed' = Append(completed, settled + 1) BY <1>4 DEF Complete
  <2>2. completed \in Seq(Indices) BY DEF EffectInv
  <2>3. completed' \in Seq(Indices) BY <1>4, <2>1, <2>2
  <2>4. ASSUME NEW n \in DOMAIN completed'
        PROVE  /\ completed'[n] \in Indices
               /\ IF Dry(completed'[n]) THEN TRUE ELSE absent[completed'[n]]
    <3>1. CASE n \in DOMAIN completed
      BY <2>1, <2>2, <3>1 DEF EffectInv, CompletedIsGone
    <3>2. CASE n = Len(completed) + 1
      BY <1>4, <2>1, <2>2, <3>2
    <3> QED BY <2>1, <2>2, <2>4, <3>1, <3>2
  <2> QED BY <1>1, <1>2, <2>3, <2>4 DEF CompletedIsGone, Vouched
<1>5. CASE Simulate
  <2>1. settled + 1 \in Indices
    BY <1>5, PlanLength DEF Simulate, BatchInv, Indices
  <2> QED BY <1>4, <1>5, <2>1 DEF Simulate
<1>6. CASE Receive /\ Complete
  <2>1. settled + 1 \in Indices
    BY <1>6, PlanLength DEF Receive, BatchInv, Indices
  <2>2. worker[settled + 1].ok
    <3> SUFFICES ASSUME ~worker[settled + 1].ok PROVE FALSE
      OBVIOUS
    <3>1. Fail BY <1>6 DEF Receive
    <3>2. settled' = settled + 1 /\ completed' = completed BY <3>1 DEF Fail
    <3> QED BY <1>6, <3>2 DEF Complete, EffectInv
  <2>3. absent[settled + 1]
    BY <1>6, <2>1, <2>2 DEF Receive, Answered, EffectInv, Vouched
  <2> QED BY <1>4, <1>6, <2>1, <2>3
<1> QED
  BY <1>3, <1>5, <1>6
     DEF Next, Users, Execute, Spawn, Receive, TimeOut, Disconnected, Fail,
         Work, Guard, DeleteMissing, DeleteSucceeds, DeleteFails, executorVars

LEMMA EffectInit == Init => EffectInv
<1> SUFFICES ASSUME Init PROVE EffectInv
  OBVIOUS
<1>1. container \in [Containers -> Stages] BY DEF Init, Stages
<1>2. worker \in [Indices -> Worker] BY DEF Init, Unborn, Worker
<1> QED
  BY <1>1, <1>2 DEF Init, EffectInv, Vouched, Unborn, CompletedIsGone

LEMMA EffectStep ==
  ASSUME EffectInv, BatchInv, [Next]_vars
  PROVE  EffectInv'
<1>1. CASE UNCHANGED vars
  BY <1>1 DEF vars, runtimeVars, executorVars, historyVars, EffectInv, Vouched,
              CompletedIsGone, Dry, Kind
<1>2. CASE Next
  <2>1. absent' \in [Indices -> BOOLEAN] BY <1>2 DEF Next, Watch
  <2>2. worker' \in [Indices -> Worker]
    BY <1>2, WorkerTyped DEF EffectInv
  <2> QED
    BY <1>2, <2>1, <2>2, ContainerTyped, AllVouched, CompletionVouched
       DEF EffectInv
<1> QED BY <1>1, <1>2

(* For every plan, runtime and number of containers: an action is reported  *)
(* as completed only if its target was gone at some moment since its thread *)
(* began, or it was simulated and had no thread.                            *)
THEOREM CompletedAreGone == Spec => []CompletedIsGone
<1>1. EffectInv => CompletedIsGone BY DEF EffectInv
<1> QED
  BY <1>1, EffectInit, EffectStep, BatchInit, BatchStep, PTL DEF Spec

-----------------------------------------------------------------------------
(* Users and deletes leave nothing behind that the runtime does not know.   *)
LEMMA RuntimeTyped ==
  ASSUME RuntimeTypeOK, EffectInv, Next
  PROVE  RuntimeTypeOK'
<1>1. container' \in [Containers -> Stages] BY ContainerTyped
<1>2. CASE UNCHANGED runtimeVars BY <1>2 DEF RuntimeTypeOK, runtimeVars
<1>3. images' \subseteq Images /\ volumes' \subseteq Volumes
  <2>1. CASE Users
    BY <2>1, RuntimeAssumption
       DEF RuntimeTypeOK, Users, UsersStep, Create, StartStop, Remove,
           RemoveImage, RemoveVolume
  <2>2. ASSUME NEW i \in Indices, Destroy(i)
        PROVE  images' \subseteq Images /\ volumes' \subseteq Volumes
    BY <2>2 DEF Destroy, RuntimeTypeOK
  <2> QED
    BY <1>2, <2>1, <2>2
       DEF RuntimeTypeOK, Next, Execute, Simulate, Spawn, Receive, TimeOut,
           Disconnected, Work, Guard, DeleteMissing, DeleteSucceeds, DeleteFails
<1> QED BY <1>1, <1>3 DEF RuntimeTypeOK

LEMMA TypeInit == Init => TypeOK
<1> SUFFICES ASSUME Init PROVE TypeOK
  OBVIOUS
<1>1. RuntimeTypeOK BY DEF Init, RuntimeTypeOK, Stages
<1>2. settled \in 0 .. Len(Plan) BY PlanLength DEF Init
<1>3. worker \in [Indices -> Worker] BY DEF Init, Unborn, Worker
<1>4. /\ runtime \in Runtimes /\ waiting \in BOOLEAN
      /\ completed \in Seq(Indices) /\ failures \in Seq(Indices)
  <2>1. runtime \in Runtimes BY DEF Init
  <2>2. waiting \in BOOLEAN BY DEF Init
  <2>3. completed = <<>> /\ failures = <<>> BY DEF Init
  <2>4. completed \in Seq(Indices) BY <2>3
  <2>5. failures \in Seq(Indices) BY <2>3
  <2> QED BY <2>1, <2>2, <2>4, <2>5
<1>5. /\ idle \in [Indices -> BOOLEAN] /\ absent \in [Indices -> BOOLEAN]
      /\ passed \in [Indices -> SUBSET Containers]
  BY DEF Init
<1> QED BY <1>1, <1>2, <1>3, <1>4, <1>5 DEF TypeOK

LEMMA TypeStep ==
  ASSUME TypeOK, EffectInv, BatchInv, [Next]_vars
  PROVE  TypeOK'
<1>1. CASE UNCHANGED vars
  BY <1>1
     DEF vars, runtimeVars, executorVars, historyVars, TypeOK, RuntimeTypeOK
<1>2. CASE Next
  <2>1. RuntimeTypeOK' BY <1>2, RuntimeTyped DEF TypeOK
  <2>2. settled' \in 0 .. Len(Plan) BY BatchStep DEF BatchInv
  <2>3. completed' \in Seq(Indices) /\ absent' \in [Indices -> BOOLEAN]
    BY EffectStep DEF EffectInv
  <2>4. worker' \in [Indices -> Worker] BY WorkerTyped DEF TypeOK
  <2>5. waiting' \in BOOLEAN /\ failures' \in Seq(Indices)
    <3>1. CASE Complete \/ Fail
      <4>1. waiting' = FALSE BY <3>1 DEF Complete, Fail
      <4>2. settled + 1 \in Indices
        <5>1. settled' = settled + 1 /\ settled \in 0 .. Len(Plan)
          BY <3>1 DEF TypeOK, Complete, Fail
        <5> QED BY <2>2, <5>1, PlanLength DEF Indices
      <4>3. failures \in Seq(Indices) BY DEF TypeOK
      <4>4. \/ failures' = failures
            \/ failures' = Append(failures, settled + 1)
        BY <3>1 DEF Complete, Fail
      <4>5. failures' \in Seq(Indices) BY <4>2, <4>3, <4>4
      <4> QED BY <4>1, <4>5
    <3> QED
      BY <1>2, <3>1
         DEF TypeOK, Next, Users, Execute, Simulate, Spawn, Receive, TimeOut,
             Disconnected, Work, Guard, DeleteMissing, DeleteSucceeds,
             DeleteFails, executorVars
  <2>6. /\ runtime' \in Runtimes
        /\ idle' \in [Indices -> BOOLEAN]
    BY <1>2 DEF Next, Watch, TypeOK
  <2>7. passed' \in [Indices -> SUBSET Containers]
    <3>1. ASSUME NEW i \in Indices
          PROVE  {c \in passed[i] \cup ((worker[i].todo \ worker'[i].todo) \ Existing) :
                    Active(worker'[i])} \subseteq Containers
      BY DEF TypeOK, Worker
    <3> QED BY <1>2, <3>1 DEF Next, Watch
  <2> QED BY <2>1, <2>2, <2>3, <2>4, <2>5, <2>6, <2>7 DEF TypeOK
<1> QED BY <1>1, <1>2

(* For every plan, either backend and any containers, images and volumes:   *)
(* the executor's records keep their types, and it settles no action beyond *)
(* the last.                                                                *)
THEOREM TypeSafe == Spec => []TypeOK
BY TypeInit, TypeStep, EffectInit, EffectStep, BatchInit, BatchStep, PTL
   DEF Spec

-----------------------------------------------------------------------------
(* What is left to do for the executor's own thread: to hand an action over *)
(* and to settle it, for each action.                                       *)
StepsLeft == 2 * (Len(Plan) - settled) - IF waiting THEN 1 ELSE 0

LEMMA SettlingShortens ==
  ASSUME BatchInv, settled < Len(Plan), Complete \/ Fail
  PROVE  StepsLeft' < StepsLeft
<1>1. settled' = settled + 1 /\ ~waiting' BY DEF Complete, Fail
<1>2. settled \in Nat /\ Len(Plan) \in Nat BY PlanLength DEF BatchInv
<1> QED BY <1>1, <1>2 DEF StepsLeft

(* What the end of a plan rests on, for plans of any length and whatever    *)
(* the workers do: each step of the executor leaves it less to do, and      *)
(* nobody else ever gives it more (execute_plan).                           *)
THEOREM PlansShorten ==
  Spec => /\ [](StepsLeft \in Nat)
          /\ [][StepsLeft' <= StepsLeft]_vars
          /\ [][Execute => StepsLeft' < StepsLeft]_vars
<1>1. BatchInv => StepsLeft \in Nat
  BY PlanLength DEF BatchInv, StepsLeft
<1>2. ASSUME BatchInv, Execute PROVE StepsLeft' < StepsLeft
  <2>1. CASE Spawn
    <3>1. settled \in Nat /\ Len(Plan) \in Nat BY <1>2, PlanLength DEF BatchInv
    <3> QED BY <2>1, <3>1 DEF Spawn, StepsLeft
  <2>2. CASE ~Spawn
    <3>1. settled < Len(Plan) /\ (Complete \/ Fail)
      BY <1>2, <2>2
         DEF BatchInv, Execute, Simulate, Receive, TimeOut, Disconnected
    <3> QED BY <1>2, <3>1, SettlingShortens
  <2> QED BY <2>1, <2>2
<1>3. ASSUME BatchInv, BatchInv', [Next]_vars PROVE StepsLeft' <= StepsLeft
  <2>1. StepsLeft \in Nat /\ (StepsLeft \in Nat)' BY <1>1, <1>3, PTL
  <2>2. CASE Execute BY <1>2, <1>3, <2>1, <2>2
  <2>3. CASE ~Execute
    <3>1. UNCHANGED executorVars
      BY <1>3, <2>3
         DEF Next, Users, Work, Guard, DeleteMissing, DeleteSucceeds,
             DeleteFails, vars
    <3> QED BY <2>1, <3>1 DEF StepsLeft, executorVars
  <2> QED BY <2>2, <2>3
<1> QED BY <1>1, <1>2, <1>3, BatchInit, BatchStep, PTL DEF Spec
=============================================================================
