----------------------------- MODULE Discovery -----------------------------
(***************************************************************************)
(* CandidateDiscoverer::discover_candidates of the Docker and the Podman    *)
(* backend (src/src/docker_backend.rs, src/src/podman_backend.rs): the      *)
(* containers are listed and inspected one by one, then the images, then    *)
(* the volumes, a command each, with the users of the container runtime at  *)
(* work in between.  What uses an image or a volume is decided by the       *)
(* containers alone, and so by the oldest of these observations.            *)
(*                                                                         *)
(* Candidates are a set: an image that several tags name is listed once per *)
(* tag, and all its candidates are alike.  The candidate for the build      *)
(* cache, the last of Docker's, is the subject of BuildCache.               *)
(***************************************************************************)
EXTENDS ContainerRuntime, Functions

CONSTANTS
  Unlabelled,        \* images Docker inspects without a .Config.Labels entry
  ProtectedLabels    \* CleanupConfig::protected_labels

(* An entry of the configuration is not a separator alone.                  *)
ASSUME DiscoveryAssumption ==
  /\ Containers \cap (Images \cup Volumes) = {} /\ Images \cap Volumes = {}
  /\ \A label \in ProtectedLabels : Len(label) = 1 => label[1] \in Texts

VARIABLES
  backend,      \* whose discover_candidates runs
  at,           \* the next command: "list", "container", "image", "sizes",
                \* "volume"; or the answer: "done", "failed"
  todo,         \* listed and not inspected yet
  metadata,     \* ContainerMetadata of those inspected
  sizes,        \* volumes with a readable size in docker system df
  candidates,
  skipped,      \* history: containers listed and passed over as gone
  stayed,       \* history: objects that have been there all the time
  busy,         \* history: containers that have been running all the time
  idle          \* history: objects that at some moment nothing used that
                \* an inspection shows

discoveryVars == <<at, todo, metadata, sizes, candidates, skipped>>
historyVars == <<stayed, busy, idle>>
vars == <<runtimeVars, backend, discoveryVars, historyVars>>

Flag(b) == IF b THEN "yes" ELSE "no"

Running == {c \in Containers : container[c] = "running"}
Present == Existing \cup images \cup volumes

(* A use that an inspection shows.                                          *)
UsedBy(c, x) == References(c, x) \/ (Mounts(c, x) /\ Clean(c))

Used ==
  Running \cup {x \in Images \cup Volumes : \E c \in Existing : UsedBy(c, x)}

Init ==
  /\ backend \in {"Docker", "Podman"}
  /\ container \in [Containers -> {"future", "stopped", "running"}]
  /\ \E rest \in SUBSET Images :
       images = rest \cup {ImageOf[c] : c \in Existing}
  /\ \E rest \in SUBSET Volumes :
       volumes = rest \cup UNION {MountsOf[c] : c \in Existing}
  /\ at = "list" /\ todo = {} /\ metadata = {} /\ sizes = {}
  /\ candidates = {} /\ skipped = {}
  /\ stayed = Present /\ busy = Running /\ idle = Objects \ Used

-----------------------------------------------------------------------------
(* collect_container_metadata_raw *)
ListContainers ==
  /\ at = "list"
  /\ at' = "container"
  /\ todo' = Existing
  /\ UNCHANGED <<metadata, sizes, candidates, skipped>>

(* Mutated forms of ReadRunning: what is not "true" is false; the state is  *)
(* kept in the runtime's words.                                             *)
ReadRunningOrNot(c) == {Flag(c \in Running), "no"}
ReadRunningRaw(c) == {container[c]}

(* What State.Running is read as: parse_bool may not understand it.         *)
ReadRunning(c) == {Flag(c \in Running), "unknown"}

InspectContainer(c) ==
  /\ at = "container" /\ c \in todo \cap Existing
  /\ todo' = todo \ {c}
  /\ \E running \in ReadRunning(c), legible \in BOOLEAN :
       metadata' = metadata \cup
                     {[id |-> c, running |-> running, legible |-> legible]}
  /\ UNCHANGED <<at, sizes, candidates, skipped>>

(* A container gone since the listing: for Podman a failure.                *)
PassOver(c) ==
  /\ at = "container" /\ c \in todo \ Existing
  /\ backend = "Docker"
  /\ todo' = todo \ {c}
  /\ skipped' = skipped \cup {c}
  /\ UNCHANGED <<at, metadata, sizes, candidates>>

-----------------------------------------------------------------------------
(* CandidateArtifact.  metadata_ambiguous is the negation of                *)
(* metadata_complete, and nothing is marked protected.                      *)
Candidate(x, labels, in_use, referenced, complete) ==
  [id |-> x, labels |-> labels, in_use |-> in_use, referenced |-> referenced,
   metadata_complete |-> complete]

(* ContainerMetadata::into_candidate; legible says whether size and age are *)
(* known.                                                                   *)
ContainerCandidate(m) ==
  Candidate(m.id, ShownLabels(m.id), m.running, "no",
            m.legible /\ m.running # "unknown")

ListImages ==
  /\ at = "container" /\ todo = {}
  /\ at' = "image"
  /\ todo' = images
  /\ candidates' = {ContainerCandidate(m) : m \in metadata}
  /\ UNCHANGED <<metadata, sizes, skipped>>

ReferencedImage(i) == \E m \in metadata : References(m.id, i)

(* Mutated form of LabelsSafe: what cannot be read does not matter.         *)
LabelsAlwaysSafe(i) == TRUE

(* labels_safety_satisfied: without the labels nothing can be protected by  *)
(* them.                                                                    *)
LabelsSafe(i) == i \notin Unlabelled \/ ProtectedLabels = {}

(* Where the labels cannot be read Docker inspects the image once more      *)
(* without them, and Podman fails; both fail when the image is gone.        *)
InspectImage(i) ==
  /\ at = "image" /\ i \in todo \cap images
  /\ backend = "Podman" => i \notin Unlabelled
  /\ todo' = todo \ {i}
  /\ \E legible \in BOOLEAN :
       candidates' = candidates \cup
         {Candidate(i, IF i \in Unlabelled THEN {} ELSE ShownLabels(i), "no",
                    Flag(ReferencedImage(i)), legible /\ LabelsSafe(i))}
  /\ UNCHANGED <<at, metadata, sizes, skipped>>

-----------------------------------------------------------------------------
ListVolumes ==
  /\ at = "image" /\ todo = {}
  /\ at' = IF backend = "Docker" /\ volumes # {} THEN "sizes" ELSE "volume"
  /\ todo' = volumes
  /\ UNCHANGED <<metadata, sizes, candidates, skipped>>

CollectVolumeSizes ==
  /\ at = "sizes"
  /\ at' = "volume"
  /\ sizes' \in SUBSET volumes
  /\ UNCHANGED <<todo, metadata, candidates, skipped>>

(* Mutated form of AttachedVolume: a stopped container needs no volume.     *)
AttachedToRunning(v) ==
  \E m \in metadata : m.running = "yes" /\ ShowsMount(m.id, v)

AttachedVolume(v) == \E m \in metadata : ShowsMount(m.id, v)

RunningAttachedVolume(v) ==
  \E m \in metadata : m.running = "yes" /\ ShowsMount(m.id, v)

(* Mutated form of InspectVolume: one that docker system df did not show is *)
(* left out.                                                                *)
InspectMeasuredVolume(v) ==
  /\ at = "volume" /\ v \in todo \cap volumes
  /\ todo' = todo \ {v}
  /\ candidates' = candidates \cup
       {Candidate(v, ShownLabels(v), Flag(RunningAttachedVolume(v)),
                  Flag(AttachedVolume(v)), TRUE) : x \in {v} \cap sizes}
  /\ UNCHANGED <<at, metadata, sizes, skipped>>

(* Docker wants a size to call the metadata complete; Podman knows none.    *)
InspectVolume(v) ==
  /\ at = "volume" /\ v \in todo \cap volumes
  /\ todo' = todo \ {v}
  /\ \E legible \in BOOLEAN :
       candidates' = candidates \cup
         {Candidate(v, ShownLabels(v), Flag(RunningAttachedVolume(v)),
                    Flag(AttachedVolume(v)),
                    legible /\ (backend = "Docker" => v \in sizes))}
  /\ UNCHANGED <<at, metadata, sizes, skipped>>

Respond ==
  /\ at = "volume" /\ todo = {}
  /\ at' = "done"
  /\ UNCHANGED <<todo, metadata, sizes, candidates, skipped>>

(* A command fails; an error is all that is returned.                       *)
Fail ==
  /\ at \notin {"done", "failed"}
  /\ at' = "failed"
  /\ candidates' = {}
  /\ UNCHANGED <<todo, metadata, sizes, skipped>>

-----------------------------------------------------------------------------
Discover ==
  \/ ListContainers \/ ListImages \/ ListVolumes \/ CollectVolumeSizes
  \/ \E c \in Containers : InspectContainer(c) \/ PassOver(c)
  \/ \E i \in Images : InspectImage(i)
  \/ \E v \in Volumes : InspectVolume(v)
  \/ Respond \/ Fail

Watch ==
  /\ stayed' = stayed \cap Present'
  /\ busy' = busy \cap Running'
  /\ idle' = idle \cup (Objects \ Used')

(* What the users do after the answer is of no concern.                     *)
Next ==
  /\ \/ UsersStep /\ at \notin {"done", "failed"} /\ UNCHANGED discoveryVars
     \/ Discover /\ UNCHANGED runtimeVars
  /\ Watch
  /\ UNCHANGED backend

Spec == Init /\ [][Next]_vars

-----------------------------------------------------------------------------
Flags == {"yes", "no", "unknown"}

(* Labels as the parsers read them.                                         *)
Labels == {<<t>> : t \in Texts}

Metadata == [id : Containers, running : Flags, legible : BOOLEAN]

TypeOK ==
  /\ RuntimeTypeOK
  /\ backend \in {"Docker", "Podman"}
  /\ at \in {"list", "container", "image", "sizes", "volume", "done", "failed"}
  /\ todo \subseteq Objects
  /\ metadata \subseteq Metadata
  /\ sizes \subseteq Volumes
  /\ \A x \in candidates :
       x \in [id : Objects, labels : SUBSET Labels, in_use : Flags,
              referenced : Flags, metadata_complete : BOOLEAN]
  /\ skipped \subseteq Containers
  /\ stayed \subseteq Objects /\ busy \subseteq Containers
  /\ idle \subseteq Objects

(* What the policy engine lets through, its age apart.                      *)
Actionable(x) ==
  /\ x.metadata_complete
  /\ x.in_use = "no" /\ x.referenced = "no"
  /\ x.labels \cap ProtectedLabels = {}

(* A container that has been there since before the listing is not          *)
(* forgotten by the later inspections: the image it was created from is     *)
(* called referenced, and so are the volumes it mounts unless a label of    *)
(* its own has a tab or a line break; and it is itself not called idle if   *)
(* it has been running (discover_candidates derives all this from one early *)
(* scan).                                                                   *)
StableUsersSeen ==
  \A x \in candidates :
    /\ x.id \in busy => x.in_use # "no"
    /\ \A c \in stayed \cap Containers :
         UsedBy(c, x.id) => x.referenced = "yes"

(* Nothing that was in use at every moment since discovery began comes out  *)
(* as deletable, however containers take each other's places during it      *)
(* (discover_candidates): unless one was passed over, which only Docker     *)
(* does, or at some moment the only users of a volume were containers with  *)
(* a tab or a line break in a label.                                        *)
ActionableWasIdle ==
  skipped = {} => \A x \in candidates : Actionable(x) => x.id \in idle

(* A protected label is either read or makes the metadata incomplete, also  *)
(* when the image must be inspected without its labels (into_candidate,     *)
(* parse_image_candidate, parse_volume_candidate).  It is not read when it  *)
(* has a separator in it, or a label that is printed before it has a tab or *)
(* a line break: then the object comes out as deletable.                    *)
ProtectedNotActionable ==
  \A x \in candidates : Actionable(x) =>
    \A k \in DOMAIN LabelsOf[x.id] :
      LabelsOf[x.id][k] \in ProtectedLabels =>
        \/ Len(LabelsOf[x.id][k]) # 1
        \/ \E j \in 1 .. k - 1, b \in Breaks : b \in Range(LabelsOf[x.id][j])

(* An answer is whole: what has been there from the first listing to the    *)
(* last inspection is among the candidates, if only as one to be skipped.   *)
NothingOverlooked ==
  at = "done" => stayed \subseteq {x.id : x \in candidates}

(* docs/docker-backend.md: volumes mounted by any container are marked as   *)
(* referenced; here for containers that are there all the time.             *)
AttachedVolumesMarked ==
  \A x \in candidates :
    (\E c \in stayed \cap Containers : Mounts(c, x.id)) => x.referenced = "yes"
=============================================================================
