-------------------------- MODULE DiscoveryProofs --------------------------
(***************************************************************************)
(* Proofs about Discovery, for any number of containers, images and         *)
(* volumes, and users who do what they want between its commands: who is    *)
(* seen, what comes out as deletable, and what is overlooked.               *)
(***************************************************************************)
EXTENDS Discovery, TLAPS

Scanned == {m.id : m \in metadata}
Pending == IF at = "container" THEN todo ELSE {}
Listed == at \in {"container", "image", "sizes", "volume", "done"}

(* What Watch does to the history.                                          *)
LEMMA HistoryStep ==
  ASSUME Next
  PROVE  /\ stayed' \subseteq stayed /\ stayed' \subseteq Present'
         /\ busy' \subseteq busy /\ busy' \subseteq Running'
         /\ idle \subseteq idle' /\ Objects \ Used' \subseteq idle'
BY DEF Next, Watch

LEMMA UserStep ==
  ASSUME Next, ~Discover
  PROVE  UNCHANGED discoveryVars /\ UNCHANGED backend
BY DEF Next

(* Where candidates come from.                                              *)
LEMMA CandidateOrigin ==
  ASSUME Next, NEW x \in candidates'
  PROVE  \/ x \in candidates
         \/ \E m \in metadata : at = "container" /\ todo = {} /\ ListImages
                                /\ x = ContainerCandidate(m)
         \/ \E i \in Images, legible \in BOOLEAN :
              /\ at = "image"
              /\ backend = "Podman" => i \notin Unlabelled
              /\ x = Candidate(i, IF i \in Unlabelled THEN {} ELSE ShownLabels(i),
                               "no", Flag(ReferencedImage(i)),
                               legible /\ LabelsSafe(i))
         \/ \E v \in Volumes, complete \in BOOLEAN :
              /\ at = "volume"
              /\ x = Candidate(v, ShownLabels(v), Flag(RunningAttachedVolume(v)),
                               Flag(AttachedVolume(v)), complete)
<1>1. CASE UNCHANGED candidates BY <1>1
<1>2. CASE ListImages BY <1>2 DEF ListImages
<1>3. ASSUME NEW i \in Images, InspectImage(i)
      PROVE  \/ x \in candidates
             \/ \E legible \in BOOLEAN :
                  /\ at = "image"
                  /\ backend = "Podman" => i \notin Unlabelled
                  /\ x = Candidate(i, IF i \in Unlabelled THEN {} ELSE ShownLabels(i),
                                   "no", Flag(ReferencedImage(i)),
                                   legible /\ LabelsSafe(i))
  BY <1>3 DEF InspectImage
<1>4. ASSUME NEW v \in Volumes, InspectVolume(v)
      PROVE  \/ x \in candidates
             \/ \E complete \in BOOLEAN :
                  /\ at = "volume"
                  /\ x = Candidate(v, ShownLabels(v),
                                   Flag(RunningAttachedVolume(v)),
                                   Flag(AttachedVolume(v)), complete)
  <2>1. PICK legible \in BOOLEAN :
          candidates' = candidates \cup
            {Candidate(v, ShownLabels(v), Flag(RunningAttachedVolume(v)),
                       Flag(AttachedVolume(v)),
                       legible /\ (backend = "Docker" => v \in sizes))}
    BY <1>4 DEF InspectVolume
  <2>2. (legible /\ (backend = "Docker" => v \in sizes)) \in BOOLEAN OBVIOUS
  <2>3. at = "volume" BY <1>4 DEF InspectVolume
  <2> QED BY <2>1, <2>2, <2>3
<1>5. CASE Fail BY <1>5 DEF Fail
<1> QED
  BY <1>1, <1>2, <1>3, <1>4, <1>5, UserStep
     DEF Discover, discoveryVars, ListContainers, ListVolumes,
         CollectVolumeSizes, InspectContainer, PassOver, Respond

-----------------------------------------------------------------------------
(* Types. *)
Stage == {"list", "container", "image", "sizes", "volume", "done", "failed"}

CandidateOK(x) ==
  x \in [id : Objects, labels : SUBSET Labels, in_use : Flags,
         referenced : Flags, metadata_complete : BOOLEAN]

LEMMA TypeInit == Init => TypeOK
<1> SUFFICES ASSUME Init PROVE TypeOK
  OBVIOUS
<1>1. container \in [Containers -> Stages] BY DEF Init, Stages
<1>2. images \subseteq Images /\ volumes \subseteq Volumes
  BY RuntimeAssumption DEF Init, Existing
<1>3. stayed \subseteq Objects /\ busy \subseteq Containers /\ idle \subseteq Objects
  BY <1>2 DEF Init, Present, Existing, Running, Objects
<1> QED BY <1>1, <1>2, <1>3 DEF Init, TypeOK, RuntimeTypeOK

LEMMA RuntimeTyped ==
  ASSUME TypeOK, Next
  PROVE  RuntimeTypeOK'
<1>1. CASE UNCHANGED runtimeVars
  BY <1>1 DEF TypeOK, RuntimeTypeOK, runtimeVars
<1>2. ASSUME NEW c \in Containers, Create(c) \/ StartStop(c) \/ Remove(c)
      PROVE  RuntimeTypeOK'
  BY <1>2, RuntimeAssumption
     DEF TypeOK, RuntimeTypeOK, Create, StartStop, Remove, Become, Stages
<1>3. ASSUME NEW i, RemoveImage(i) \/ RemoveVolume(i)
      PROVE  RuntimeTypeOK'
  BY <1>3 DEF TypeOK, RuntimeTypeOK, RemoveImage, RemoveVolume
<1> QED BY <1>1, <1>2, <1>3 DEF Next, UsersStep

LEMMA CandidateTyped ==
  ASSUME TypeOK, Next, NEW x \in candidates'
  PROVE  CandidateOK(x)
<1>1. CASE x \in candidates BY <1>1 DEF TypeOK, CandidateOK
<1>2. ASSUME NEW y \in Objects, NEW labels \in SUBSET Labels,
             NEW in_use \in Flags, NEW referenced \in Flags,
             NEW complete \in BOOLEAN
      PROVE  CandidateOK(Candidate(y, labels, in_use, referenced, complete))
  BY DEF CandidateOK, Candidate
<1>3. \A y : ShownLabels(y) \subseteq Labels
  BY DEF ShownLabels, Pieces, Labels
<1>4. \A b : Flag(b) \in Flags BY DEF Flag, Flags
<1>5. ASSUME NEW m \in metadata, x = ContainerCandidate(m)
      PROVE  CandidateOK(x)
  <2>1. m.id \in Objects /\ m.running \in Flags /\ m.legible \in BOOLEAN
    BY DEF TypeOK, Metadata, Objects
  <2>2. "no" \in Flags BY DEF Flags
  <2>3. (m.legible /\ m.running # "unknown") \in BOOLEAN OBVIOUS
  <2> QED BY <1>2, <1>3, <1>5, <2>1, <2>2, <2>3 DEF ContainerCandidate
<1>6. ASSUME NEW i \in Images, NEW legible \in BOOLEAN,
             x = Candidate(i, IF i \in Unlabelled THEN {} ELSE ShownLabels(i),
                           "no", Flag(ReferencedImage(i)),
                           legible /\ LabelsSafe(i))
      PROVE  CandidateOK(x)
  <2>1. i \in Objects BY DEF Objects
  <2>2. "no" \in Flags BY DEF Flags
  <2>3. (legible /\ LabelsSafe(i)) \in BOOLEAN OBVIOUS
  <2>4. (IF i \in Unlabelled THEN {} ELSE ShownLabels(i)) \in SUBSET Labels
    BY <1>3
  <2> QED BY <1>2, <1>4, <1>6, <2>1, <2>2, <2>3, <2>4
<1>7. ASSUME NEW v \in Volumes, NEW complete \in BOOLEAN,
             x = Candidate(v, ShownLabels(v), Flag(RunningAttachedVolume(v)),
                           Flag(AttachedVolume(v)), complete)
      PROVE  CandidateOK(x)
  <2>1. v \in Objects BY DEF Objects
  <2> QED BY <1>2, <1>3, <1>4, <1>7, <2>1
<1> QED BY <1>1, <1>5, <1>6, <1>7, CandidateOrigin

LEMMA DiscoveryTyped ==
  ASSUME TypeOK, Next
  PROVE  /\ at' \in Stage /\ todo' \subseteq Objects
         /\ metadata' \subseteq Metadata /\ sizes' \subseteq Volumes
         /\ skipped' \subseteq Containers
<1> USE DEF TypeOK, Stage
<1>1. CASE UNCHANGED discoveryVars BY <1>1 DEF discoveryVars
<1>2. CASE ListContainers
  BY <1>2 DEF ListContainers, Existing, Objects
<1>3. ASSUME NEW c \in Containers, InspectContainer(c)
      PROVE  metadata' \subseteq Metadata
  <2>1. PICK running \in ReadRunning(c), legible \in BOOLEAN :
          metadata' = metadata \cup
                        {[id |-> c, running |-> running, legible |-> legible]}
    BY <1>3 DEF InspectContainer
  <2>2. running \in Flags BY DEF ReadRunning, Flag, Flags
  <2> QED BY <2>1, <2>2 DEF Metadata
<1>4. CASE \E c \in Containers : InspectContainer(c)
  BY <1>3, <1>4 DEF InspectContainer
<1>5. CASE \E c \in Containers : PassOver(c)
  BY <1>5 DEF PassOver
<1>6. CASE ListImages \/ ListVolumes \/ CollectVolumeSizes
  BY <1>6 DEF RuntimeTypeOK, ListImages, ListVolumes, CollectVolumeSizes, Objects
<1>7. CASE \/ \E i \in Images : InspectImage(i)
           \/ \E v \in Volumes : InspectVolume(v)
  BY <1>7 DEF InspectImage, InspectVolume
<1>8. CASE Respond \/ Fail
  BY <1>8 DEF Respond, Fail
<1> QED
  BY <1>1, <1>2, <1>4, <1>5, <1>6, <1>7, <1>8, UserStep DEF Discover

LEMMA TypeStep ==
  ASSUME TypeOK, [Next]_vars
  PROVE  TypeOK'
<1>1. CASE UNCHANGED vars
  BY <1>1 DEF vars, runtimeVars, discoveryVars, historyVars, TypeOK, RuntimeTypeOK
<1>2. CASE Next
  <2>1. \A x \in candidates' : CandidateOK(x) BY <1>2, CandidateTyped
  <2>2. /\ stayed' \subseteq Objects /\ busy' \subseteq Containers
        /\ idle' \subseteq Objects
    BY <1>2 DEF Next, Watch, TypeOK
  <2>3. backend' = backend BY <1>2 DEF Next
  <2> QED
    BY <1>2, <2>1, <2>2, <2>3, RuntimeTyped, DiscoveryTyped
       DEF TypeOK, CandidateOK, Stage
<1> QED BY <1>1, <1>2

(* For every number of objects: all variables keep their types.             *)
THEOREM TypeCorrect == Spec => []TypeOK
BY TypeInit, TypeStep, PTL DEF Spec

-----------------------------------------------------------------------------
(* A container that stays is scanned or still to be, once the containers    *)
(* have been listed.                                                        *)
ScanInv ==
  /\ stayed \subseteq Present /\ busy \subseteq Running
  /\ Listed => stayed \cap Containers \subseteq Scanned \cup Pending
  /\ \A m \in metadata : m.id \in busy => m.running # "no"
  /\ StableUsersSeen

LEMMA ScanInit == Init => ScanInv
BY DEF Init, ScanInv, Listed, StableUsersSeen

(* What exists and is a container is one of Existing.                       *)
LEMMA ContainersPresent ==
  ASSUME TypeOK
  PROVE  Present \cap Containers = Existing
BY DiscoveryAssumption DEF TypeOK, RuntimeTypeOK, Present, Existing

LEMMA ScanKept ==
  ASSUME TypeOK, ScanInv, Next
  PROVE  /\ Listed' => stayed' \cap Containers \subseteq Scanned' \cup Pending'
         /\ \A m \in metadata' : m.id \in busy' => m.running # "no"
<1>1. stayed' \subseteq stayed /\ busy' \subseteq busy BY HistoryStep
<1>2. stayed \cap Containers \subseteq Existing
  BY ContainersPresent DEF ScanInv
<1>3. CASE UNCHANGED discoveryVars
  BY <1>1, <1>3 DEF discoveryVars, ScanInv, Listed, Scanned, Pending
<1>4. CASE ListContainers
  BY <1>1, <1>2, <1>4
     DEF ListContainers, ScanInv, Listed, Scanned, Pending
<1>5. ASSUME NEW c \in Containers, InspectContainer(c)
      PROVE  /\ Listed' => stayed' \cap Containers \subseteq Scanned' \cup Pending'
             /\ \A m \in metadata' : m.id \in busy' => m.running # "no"
  <2>1. PICK running \in ReadRunning(c), legible \in BOOLEAN :
          metadata' = metadata \cup
                        {[id |-> c, running |-> running, legible |-> legible]}
    BY <1>5 DEF InspectContainer
  <2>2. at = "container" /\ at' = "container" /\ todo' = todo \ {c}
    BY <1>5 DEF InspectContainer
  <2>3. Scanned \subseteq Scanned' /\ c \in Scanned'
    <3>1. [id |-> c, running |-> running, legible |-> legible] \in metadata'
      BY <2>1
    <3>2. metadata \subseteq metadata' BY <2>1
    <3> QED BY <3>1, <3>2 DEF Scanned
  <2>4. c \in busy => running # "no"
    BY DEF ReadRunning, Flag, ScanInv
  <2> QED
    BY <1>1, <2>1, <2>2, <2>3, <2>4 DEF ScanInv, Listed, Pending
<1>6. ASSUME NEW c \in Containers, PassOver(c)
      PROVE  /\ Listed' => stayed' \cap Containers \subseteq Scanned' \cup Pending'
             /\ \A m \in metadata' : m.id \in busy' => m.running # "no"
  BY <1>1, <1>2, <1>6
     DEF PassOver, ScanInv, Listed, Pending, Scanned
<1>7. CASE UNCHANGED metadata /\ at = "container" /\ todo = {}
  BY <1>1, <1>7 DEF ScanInv, Listed, Pending, Scanned
<1>8. CASE UNCHANGED metadata /\ Listed /\ at # "container"
  BY <1>1, <1>8 DEF ScanInv, Listed, Pending, Scanned
<1>9. CASE Fail BY <1>1, <1>9 DEF Fail, ScanInv, Listed
<1> QED
  BY <1>3, <1>4, <1>5, <1>6, <1>7, <1>8, <1>9, UserStep
     DEF Discover, Listed, ListImages, InspectImage, ListVolumes,
         CollectVolumeSizes, InspectVolume, Respond

(* An inspection of an image or a volume finds the users that stayed among  *)
(* those scanned.                                                           *)
LEMMA StableSeenKept ==
  ASSUME TypeOK, ScanInv, Next
  PROVE  StableUsersSeen'
<1>1. stayed' \subseteq stayed /\ busy' \subseteq busy BY HistoryStep
<1>2. busy' \subseteq Containers BY <1>1 DEF TypeOK
<1>3. Listed /\ at # "container" => stayed' \cap Containers \subseteq Scanned
  BY <1>1 DEF ScanInv, Pending
<1>4. /\ \A c \in Containers : ImageOf[c] \in Images
      /\ \A c \in Containers : MountsOf[c] \subseteq Volumes
  BY RuntimeAssumption
<1>5. SUFFICES ASSUME NEW x \in candidates'
               PROVE  /\ x.id \in busy' => x.in_use # "no"
                      /\ \A c \in stayed' \cap Containers :
                           UsedBy(c, x.id) => x.referenced = "yes"
  BY DEF StableUsersSeen, UsedBy, References, Mounts, Clean, Places, Token
<1>6. CASE x \in candidates
  BY <1>1, <1>6 DEF ScanInv, StableUsersSeen
<1>7. ASSUME NEW m \in metadata, x = ContainerCandidate(m)
      PROVE  /\ x.id \in busy' => x.in_use # "no"
             /\ \A c \in stayed' \cap Containers :
                  ~References(c, x.id) /\ ~Mounts(c, x.id)
  <2>1. x.id = m.id /\ x.in_use = m.running
    BY <1>7 DEF ContainerCandidate, Candidate
  <2>2. x.id \in Containers BY <2>1 DEF TypeOK, Metadata
  <2> QED
    BY <1>1, <1>4, <2>1, <2>2, DiscoveryAssumption
       DEF ScanInv, References, Mounts
<1>8. ASSUME NEW i \in Images, at = "image", x.id = i,
             x.referenced = Flag(ReferencedImage(i))
      PROVE  /\ x.id \notin busy'
             /\ \A c \in stayed' \cap Containers :
                  /\ References(c, x.id) => x.referenced = "yes"
                  /\ ~Mounts(c, x.id)
  <2>1. x.id \notin busy' /\ \A c \in Containers : ~Mounts(c, x.id)
    BY <1>2, <1>4, <1>8, DiscoveryAssumption DEF Mounts
  <2>2. ASSUME NEW c \in stayed' \cap Containers, References(c, i)
        PROVE  x.referenced = "yes"
    <3>1. c \in Scanned BY <1>3, <1>8 DEF Listed
    <3> QED BY <1>8, <2>2, <3>1 DEF Scanned, ReferencedImage, Flag
  <2> QED BY <1>8, <2>1, <2>2
<1>9. ASSUME NEW v \in Volumes, at = "volume", x.id = v,
             x.referenced = Flag(AttachedVolume(v))
      PROVE  /\ x.id \notin busy'
             /\ \A c \in stayed' \cap Containers :
                  /\ Mounts(c, x.id) /\ Clean(c) => x.referenced = "yes"
                  /\ ~References(c, x.id)
  <2>1. x.id \notin busy' /\ \A c \in Containers : ~References(c, x.id)
    BY <1>2, <1>4, <1>9, DiscoveryAssumption DEF References
  <2>2. ASSUME NEW c \in stayed' \cap Containers, Mounts(c, v), Clean(c)
        PROVE  x.referenced = "yes"
    <3>1. c \in Scanned BY <1>3, <1>9 DEF Listed
    <3> QED
      BY <1>9, <2>2, <3>1
         DEF Scanned, AttachedVolume, ShowsMount, ShownMounts, Mounts, Flag
  <2> QED BY <1>9, <2>1, <2>2
<1> QED
  BY <1>6, <1>7, <1>8, <1>9, CandidateOrigin DEF Candidate, UsedBy

LEMMA ScanStep ==
  ASSUME TypeOK, ScanInv, [Next]_vars
  PROVE  ScanInv'
<1>1. CASE UNCHANGED vars
  BY <1>1 DEF vars, runtimeVars, discoveryVars, historyVars, ScanInv, Listed,
              Scanned, Pending, Present, Existing, Running, StableUsersSeen,
              UsedBy, References, Mounts
<1>2. CASE Next
  <2>1. stayed' \subseteq Present' /\ busy' \subseteq Running'
    BY <1>2, HistoryStep
  <2> QED BY <1>2, <2>1, ScanKept, StableSeenKept DEF ScanInv
<1> QED BY <1>1, <1>2

(* For every number of objects: containers that stay through a discovery    *)
(* are not forgotten in the candidates they use.                            *)
THEOREM StableUsersAreSeen == Spec => []StableUsersSeen
<1>1. ScanInv => StableUsersSeen BY DEF ScanInv
<1> QED
  BY <1>1, TypeInit, TypeStep, ScanInit, ScanStep, PTL DEF Spec

(* What docs/docker-backend.md:63 says is true where no label of a container *)
(* has a tab or a line break: every mounted volume is marked as referenced. *)
THEOREM AttachmentsAreSeen ==
  ASSUME \A c \in Containers : Clean(c)
  PROVE  Spec => []AttachedVolumesMarked
<1>1. StableUsersSeen => AttachedVolumesMarked
  BY DEF StableUsersSeen, AttachedVolumesMarked, UsedBy
<1> QED BY <1>1, StableUsersAreSeen, PTL

-----------------------------------------------------------------------------
(* What has never been seen idle was in use when the containers were        *)
(* listed: by one that is scanned or still to be, if none is passed over.   *)
IdleInv ==
  /\ Objects \ Used \subseteq idle
  /\ \A m \in metadata : m.running = "no" => m.id \in idle
  /\ Listed /\ skipped = {} =>
       \A x \in (Images \cup Volumes) \ idle :
         \E c \in Scanned \cup Pending : UsedBy(c, x)
  /\ ActionableWasIdle

LEMMA IdleInit == Init => IdleInv
BY DEF Init, IdleInv, Listed, ActionableWasIdle

LEMMA UsedAtListing ==
  ASSUME TypeOK, NEW x \in (Images \cup Volumes) \cap Used
  PROVE  \E c \in Existing : UsedBy(c, x)
<1>1. x \notin Containers BY DiscoveryAssumption
<1> QED BY <1>1 DEF Used, Running

LEMMA IdleKept ==
  ASSUME TypeOK, IdleInv, Next
  PROVE  /\ \A m \in metadata' : m.running = "no" => m.id \in idle'
         /\ Listed' /\ skipped' = {} =>
              \A x \in (Images \cup Volumes) \ idle' :
                \E c \in Scanned' \cup Pending' : UsedBy(c, x)'
<1>1. idle \subseteq idle' BY HistoryStep
<1>2. \A c, x : UsedBy(c, x)' <=> UsedBy(c, x)
  BY DEF UsedBy, References, Mounts
<1> HIDE DEF UsedBy
<1>3. CASE UNCHANGED discoveryVars
  BY <1>1, <1>2, <1>3 DEF discoveryVars, IdleInv, Listed, Scanned, Pending
<1>4. CASE ListContainers
  <2>1. /\ todo' = Existing /\ at' = "container" /\ UNCHANGED metadata
    BY <1>4 DEF ListContainers
  <2>2. \A x \in (Images \cup Volumes) \ idle : x \in Used
    BY DEF IdleInv, Objects
  <2> QED BY <1>1, <1>2, <2>1, <2>2, UsedAtListing DEF IdleInv, Pending
<1>5. ASSUME NEW c \in Containers, InspectContainer(c)
      PROVE  /\ \A m \in metadata' : m.running = "no" => m.id \in idle'
             /\ Listed' /\ skipped' = {} =>
                  \A x \in (Images \cup Volumes) \ idle' :
                    \E d \in Scanned' \cup Pending' : UsedBy(d, x)'
  <2>1. PICK running \in ReadRunning(c), legible \in BOOLEAN :
          metadata' = metadata \cup
                        {[id |-> c, running |-> running, legible |-> legible]}
    BY <1>5 DEF InspectContainer
  <2>2. /\ at = "container" /\ at' = "container" /\ todo' = todo \ {c}
        /\ skipped' = skipped
    BY <1>5 DEF InspectContainer
  <2>3. Scanned \subseteq Scanned' /\ c \in Scanned'
    <3>1. [id |-> c, running |-> running, legible |-> legible] \in metadata'
      BY <2>1
    <3>2. metadata \subseteq metadata' BY <2>1
    <3> QED BY <3>1, <3>2 DEF Scanned
  <2>4. running = "no" => c \in idle
    <3>1. running = "no" => c \notin Running
      BY DEF ReadRunning, Flag
    <3>2. c \notin Images \cup Volumes BY DiscoveryAssumption
    <3> QED BY <3>1, <3>2 DEF IdleInv, Used, Objects
  <2> QED
    BY <1>1, <1>2, <2>1, <2>2, <2>3, <2>4 DEF IdleInv, Listed, Pending
<1>6. ASSUME NEW c \in Containers, PassOver(c)
      PROVE  UNCHANGED metadata /\ skipped' # {}
  BY <1>6 DEF PassOver
<1>7. CASE UNCHANGED <<metadata, skipped>> /\ at = "container" /\ todo = {}
  BY <1>1, <1>2, <1>7 DEF IdleInv, Listed, Pending, Scanned
<1>8. CASE UNCHANGED <<metadata, skipped>> /\ Listed /\ at # "container"
  BY <1>1, <1>2, <1>8 DEF IdleInv, Listed, Pending, Scanned
<1>9. CASE Fail BY <1>1, <1>9 DEF Fail, IdleInv, Listed
<1> QED
  BY <1>1, <1>3, <1>4, <1>5, <1>6, <1>7, <1>8, <1>9, UserStep
     DEF Discover, Listed, ListImages, InspectImage, ListVolumes,
         CollectVolumeSizes, InspectVolume, Respond, IdleInv

LEMMA ActionableKept ==
  ASSUME TypeOK, IdleInv, Next
  PROVE  ActionableWasIdle'
<1>1. idle \subseteq idle' BY HistoryStep
<1>2. skipped \subseteq skipped'
  BY UserStep
     DEF Next, Discover, discoveryVars, ListContainers, InspectContainer,
         PassOver, ListImages, InspectImage, ListVolumes, CollectVolumeSizes,
         InspectVolume, Respond, Fail
<1>3. SUFFICES ASSUME skipped = {}, NEW x \in candidates', Actionable(x)
               PROVE  x.id \in idle
  BY <1>1, <1>2 DEF ActionableWasIdle, Actionable
<1>4. Listed /\ at # "container" =>
        \A y \in (Images \cup Volumes) \ idle :
          \E m \in metadata : m.id \in Containers /\ UsedBy(m.id, y)
  BY <1>3 DEF IdleInv, Pending, Scanned, TypeOK, Metadata
<1>5. /\ \A c \in Containers : ImageOf[c] \in Images
      /\ \A c \in Containers : MountsOf[c] \subseteq Volumes
  BY RuntimeAssumption
<1>6. CASE x \in candidates
  BY <1>3, <1>6 DEF IdleInv, ActionableWasIdle
<1>7. ASSUME NEW m \in metadata, x = ContainerCandidate(m)
      PROVE  x.id \in idle
  BY <1>3, <1>7 DEF IdleInv, Actionable, ContainerCandidate, Candidate
<1>8. ASSUME NEW i \in Images, at = "image", x.id = i,
             x.referenced = Flag(ReferencedImage(i))
      PROVE  x.id \in idle
  <2>1. ~ReferencedImage(i) BY <1>3, <1>8 DEF Actionable, Flag
  <2>2. \A c \in Containers : UsedBy(c, i) => References(c, i)
    BY <1>5, DiscoveryAssumption DEF UsedBy, Mounts
  <2> QED BY <1>4, <1>8, <2>1, <2>2 DEF Listed, ReferencedImage
<1>9. ASSUME NEW v \in Volumes, at = "volume", x.id = v,
             x.referenced = Flag(AttachedVolume(v))
      PROVE  x.id \in idle
  <2>1. ~AttachedVolume(v) BY <1>3, <1>9 DEF Actionable, Flag
  <2>2. \A c \in Containers : UsedBy(c, v) => ShowsMount(c, v)
    BY <1>3, <1>5, <1>9, DiscoveryAssumption
       DEF UsedBy, References, Mounts, ShowsMount, ShownMounts
  <2> QED BY <1>4, <1>9, <2>1, <2>2 DEF Listed, AttachedVolume
<1> QED
  BY <1>6, <1>7, <1>8, <1>9, CandidateOrigin DEF Candidate

LEMMA IdleStep ==
  ASSUME TypeOK, IdleInv, [Next]_vars
  PROVE  IdleInv'
<1>1. CASE UNCHANGED vars
  BY <1>1 DEF vars, runtimeVars, discoveryVars, historyVars, IdleInv, Listed,
              Scanned, Pending, Used, Existing, Running, ActionableWasIdle,
              Actionable, UsedBy, References, Mounts
<1>2. CASE Next
  <2>1. Objects \ Used' \subseteq idle' BY <1>2, HistoryStep
  <2>2. Objects' = Objects BY DEF Objects
  <2>3. Images' = Images /\ Volumes' = Volumes OBVIOUS
  <2> QED BY <1>2, <2>1, <2>2, <2>3, IdleKept, ActionableKept DEF IdleInv
<1> QED BY <1>1, <1>2

(* For every number of objects and all labels: where nothing was passed     *)
(* over, what comes out as deletable was at some moment of the discovery    *)
(* used by nobody whose inspection shows it.                                *)
THEOREM ActionableWereIdle == Spec => []ActionableWasIdle
<1>1. IdleInv => ActionableWasIdle BY DEF IdleInv
<1> QED
  BY <1>1, TypeInit, TypeStep, IdleInit, IdleStep, PTL DEF Spec

-----------------------------------------------------------------------------
(* What keeps a label of x from being read: a separator in it, or a tab or  *)
(* a line break in one printed before it.                                   *)
Hidden(x, k) ==
  \/ Len(LabelsOf[x][k]) # 1
  \/ \E j \in 1 .. k - 1, b \in Breaks : b \in Range(LabelsOf[x][j])

(* A label of one piece with nothing in the way is read.                    *)
LEMMA PlainLabelShown ==
  ASSUME NEW x \in Objects, NEW k \in DOMAIN LabelsOf[x], ~Hidden(x, k),
         LabelsOf[x][k][1] \in Texts
  PROVE  LabelsOf[x][k] \in ShownLabels(x)
<1> DEFINE p == <<k, 1>>
<1>1. LabelsOf[x] \in Seq(Seq(Texts \cup Separators))
  BY RuntimeAssumption
<1>2. LabelsOf[x][k] \in Seq(Texts \cup Separators) /\ k \in Nat BY <1>1
<1>3. LabelsOf[x][k] = <<Token(x, p)>>
  BY <1>2 DEF Hidden, Token
<1>4. p \in Pieces(x)
  <2>1. 1 \in DOMAIN LabelsOf[x][k] BY <1>2 DEF Hidden
  <2>2. p \in Places(x) BY <2>1 DEF Places
  <2> QED BY <2>2 DEF Pieces, Token
<1>5. ASSUME NEW q \in Places(x), Before(q, p)
      PROVE  Token(x, q) \notin Breaks
  <2>1. PICK j \in DOMAIN LabelsOf[x] : q \in {j} \X DOMAIN LabelsOf[x][j]
    BY DEF Places
  <2>2. q[1] = j /\ q[2] \in DOMAIN LabelsOf[x][j] BY <2>1
  <2>3. LabelsOf[x][j] \in Seq(Texts \cup Separators) /\ j \in 1 .. Len(LabelsOf[x])
    BY <1>1
  <2>4. j < k
    <3>1. q[2] \in Nat /\ q[2] >= 1 BY <2>2, <2>3
    <3> QED BY <1>5, <2>2, <3>1 DEF Before
  <2>5. Token(x, q) \in Range(LabelsOf[x][j])
    BY <2>2 DEF Token, Range
  <2>6. j \in 1 .. k - 1 BY <1>2, <2>3, <2>4
  <2> QED BY <2>5, <2>6 DEF Hidden
<1>6. BreaksBefore(x, p) = {} BY <1>5 DEF BreaksBefore
<1> HIDE DEF p
<1> QED BY <1>3, <1>4, <1>6 DEF ShownLabels

LEMMA ProtectedStep ==
  ASSUME TypeOK, ProtectedNotActionable, [Next]_vars
  PROVE  ProtectedNotActionable'
<1>1. CASE UNCHANGED vars
  BY <1>1 DEF vars, discoveryVars, ProtectedNotActionable, Actionable
<1>2. CASE Next
  <2>1. SUFFICES ASSUME NEW x \in candidates', Actionable(x),
                        NEW k \in DOMAIN LabelsOf[x.id],
                        LabelsOf[x.id][k] \in ProtectedLabels
                 PROVE  Hidden(x.id, k)
    BY DEF ProtectedNotActionable, Actionable, Hidden
  <2>2. CASE x \in candidates
    BY <2>1, <2>2 DEF ProtectedNotActionable, Hidden
  <2>3. CASE x.labels = ShownLabels(x.id)
    <3>1. x.id \in Objects BY <1>2, CandidateTyped DEF CandidateOK
    <3>2. LabelsOf[x.id][k] \notin ShownLabels(x.id)
      BY <2>1, <2>3 DEF Actionable
    <3>3. Len(LabelsOf[x.id][k]) = 1 => LabelsOf[x.id][k][1] \in Texts
      BY <2>1, DiscoveryAssumption
    <3> QED BY <3>1, <3>2, <3>3, PlainLabelShown DEF Hidden
  <2>4. CASE x.id \in Unlabelled /\ (x.metadata_complete => LabelsSafe(x.id))
    BY <2>1, <2>4 DEF Actionable, LabelsSafe
  <2>5. ASSUME NEW m \in metadata, x = ContainerCandidate(m)
        PROVE  x.labels = ShownLabels(x.id)
    BY <2>5 DEF ContainerCandidate, Candidate
  <2>6. ASSUME NEW i \in Images, NEW legible \in BOOLEAN,
               x = Candidate(i, IF i \in Unlabelled THEN {} ELSE ShownLabels(i),
                             "no", Flag(ReferencedImage(i)),
                             legible /\ LabelsSafe(i))
        PROVE  \/ x.labels = ShownLabels(x.id)
               \/ x.id \in Unlabelled /\ (x.metadata_complete => LabelsSafe(x.id))
    <3>1. x.id = i /\ (x.metadata_complete => LabelsSafe(i))
      BY <2>6 DEF Candidate
    <3>2. i \notin Unlabelled => x.labels = ShownLabels(i)
      BY <2>6 DEF Candidate
    <3> QED BY <3>1, <3>2
  <2>7. ASSUME NEW v \in Volumes, NEW complete \in BOOLEAN,
               x = Candidate(v, ShownLabels(v), Flag(RunningAttachedVolume(v)),
                             Flag(AttachedVolume(v)), complete)
        PROVE  x.labels = ShownLabels(x.id)
    BY <2>7 DEF Candidate
  <2> QED
    BY <1>2, <2>2, <2>3, <2>4, <2>5, <2>6, <2>7, CandidateOrigin
<1> QED BY <1>1, <1>2

(* For every number of objects and all labels: no object comes out as       *)
(* deletable with a protected label of one piece, unless a label printed    *)
(* before it has a tab or a line break.                                     *)
THEOREM ProtectedKept == Spec => []ProtectedNotActionable
<1>1. Init => ProtectedNotActionable BY DEF Init, ProtectedNotActionable
<1> QED
  BY <1>1, TypeInit, TypeStep, ProtectedStep, PTL DEF Spec
-----------------------------------------------------------------------------
Answered == {x.id : x \in candidates}

(* Each listing takes in what has stayed, and it leaves todo only with a    *)
(* candidate of its own.                                                    *)
WholeInv ==
  /\ at \in {"image", "sizes", "volume"} =>
       stayed \cap Containers \subseteq Answered
  /\ at = "image" => stayed \cap Images \subseteq Answered \cup todo
  /\ at \in {"sizes", "volume"} =>
       /\ stayed \cap Images \subseteq Answered
       /\ stayed \cap Volumes \subseteq Answered \cup todo
  /\ NothingOverlooked

(* What is there of a kind is what a listing of that kind shows.            *)
LEMMA PresentByKind ==
  ASSUME TypeOK, ScanInv
  PROVE  /\ stayed \cap Images \subseteq images
         /\ stayed \cap Volumes \subseteq volumes
BY DiscoveryAssumption DEF TypeOK, RuntimeTypeOK, ScanInv, Present, Existing

(* An inspection moves its object from todo to the candidates.              *)
LEMMA InspectionAnswers ==
  ASSUME NEW x, NEW y, y.id = x,
         todo' = todo \ {x}, candidates' = candidates \cup {y}
  PROVE  /\ Answered \subseteq Answered'
         /\ Answered \cup todo \subseteq Answered' \cup todo'
<1>1. candidates \subseteq candidates' /\ y \in candidates' OBVIOUS
<1>2. Answered \subseteq Answered' /\ x \in Answered' BY <1>1 DEF Answered
<1> QED BY <1>2

LEMMA WholeStep ==
  ASSUME TypeOK, ScanInv, WholeInv, [Next]_vars
  PROVE  WholeInv'
<1>1. CASE UNCHANGED vars
  BY <1>1 DEF vars, discoveryVars, historyVars, WholeInv, Answered,
              NothingOverlooked
<1>2. CASE Next
  <2>1. stayed' \subseteq stayed BY <1>2, HistoryStep
  <2>2. CASE UNCHANGED discoveryVars
    BY <2>1, <2>2 DEF discoveryVars, WholeInv, Answered, NothingOverlooked
  <2>3. CASE at' \in {"list", "container", "failed"}
    BY <2>3 DEF WholeInv, NothingOverlooked
  <2>4. CASE ListImages
    <3>1. stayed \cap Containers \subseteq Scanned
      BY <2>4 DEF ListImages, ScanInv, Listed, Pending
    <3>2. Scanned \subseteq Answered'
      <4>1. ASSUME NEW m \in metadata PROVE m.id \in Answered'
        <5>1. ContainerCandidate(m) \in candidates' BY <2>4 DEF ListImages
        <5>2. ContainerCandidate(m).id = m.id
          BY DEF ContainerCandidate, Candidate
        <5> QED BY <5>1, <5>2 DEF Answered
      <4> QED BY <4>1 DEF Scanned
    <3> QED
      BY <2>1, <2>4, <3>1, <3>2, PresentByKind
         DEF ListImages, WholeInv, NothingOverlooked
  <2>5. ASSUME NEW i \in Images, InspectImage(i) PROVE WholeInv'
    <3>1. PICK y : y.id = i /\ candidates' = candidates \cup {y}
      BY <2>5 DEF InspectImage, Candidate
    <3>2. at = "image" /\ at' = "image" /\ todo' = todo \ {i}
      BY <2>5 DEF InspectImage
    <3> QED
      BY <2>1, <3>1, <3>2, InspectionAnswers DEF WholeInv, NothingOverlooked
  <2>6. CASE ListVolumes
    <3>1. /\ stayed \cap (Containers \cup Images) \subseteq Answered
          /\ UNCHANGED candidates /\ todo' = volumes /\ at' \in {"sizes", "volume"}
      BY <2>6 DEF ListVolumes, WholeInv
    <3>2. Answered' = Answered BY <3>1 DEF Answered
    <3> QED BY <2>1, <3>1, <3>2, PresentByKind DEF WholeInv, NothingOverlooked
  <2>7. CASE CollectVolumeSizes
    BY <2>1, <2>7 DEF CollectVolumeSizes, WholeInv, Answered, NothingOverlooked
  <2>8. ASSUME NEW v \in Volumes, InspectVolume(v) PROVE WholeInv'
    <3>1. PICK y : y.id = v /\ candidates' = candidates \cup {y}
      BY <2>8 DEF InspectVolume, Candidate
    <3>2. at = "volume" /\ at' = "volume" /\ todo' = todo \ {v}
      BY <2>8 DEF InspectVolume
    <3> QED
      BY <2>1, <3>1, <3>2, InspectionAnswers DEF WholeInv, NothingOverlooked
  <2>9. CASE Respond
    <3>1. stayed \subseteq Objects BY DEF TypeOK
    <3>2. stayed \subseteq Answered
      BY <2>9, <3>1 DEF Respond, WholeInv, Objects
    <3>3. /\ at' = "done" /\ UNCHANGED candidates BY <2>9 DEF Respond
    <3> QED BY <2>1, <3>2, <3>3 DEF WholeInv, NothingOverlooked, Answered
  <2> QED
    BY <1>2, <2>2, <2>3, <2>4, <2>5, <2>6, <2>7, <2>8, <2>9, UserStep
       DEF Discover, ListContainers, InspectContainer, PassOver, Fail
<1> QED BY <1>1, <1>2

(* For every number of objects, whatever the users do in between: an answer *)
(* has a candidate for all that was there throughout; discovery is not cut  *)
(* short by an object that vanishes (discover_candidates of both backends). *)
THEOREM AnswerIsWhole == Spec => []NothingOverlooked
<1>1. Init => WholeInv BY DEF Init, WholeInv, NothingOverlooked
<1>2. WholeInv => NothingOverlooked BY DEF WholeInv
<1> QED
  BY <1>1, <1>2, TypeInit, TypeStep, ScanInit, ScanStep, WholeStep, PTL DEF Spec
=============================================================================
