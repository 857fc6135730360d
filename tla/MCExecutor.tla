----------------------------- MODULE MCExecutor -----------------------------
(* Values of the constants of Executor for TLC: two containers of one image *)
(* that both mount one volume, so that one may take the other's place; with *)
(* MCLabelsOf an inspection does not show the mount of the second.          *)
EXTENDS Executor

CONSTANTS c1, c2, image, volume, note

MCImageOf == [c \in Containers |-> image]
MCMountsOf == [c \in Containers |-> {volume}]

MCLabelsOf ==
  [x \in Objects |->
     IF x = c2 THEN <<<<note, "tab", note>>>> ELSE <<>>]
NoLabels == [x \in Objects |-> <<>>]

Docker == [name |-> "docker", image_ids |-> "none"]
Podman == [name |-> "podman", image_ids |-> "full"]
PodmanShort == [name |-> "podman", image_ids |-> "short"]

DockerOnly == {Docker}
Both == {Docker, Podman, PodmanShort}

Delete(kind, target) == [kind |-> kind, target |-> target, dry_run |-> FALSE]
DryRunOf(action) == [action EXCEPT !.dry_run = TRUE]

(* Each guard, a dry run between real actions, a kind not supported.        *)
WholePlan == <<Delete("Container", c1), DryRunOf(Delete("Image", image)),
               Delete("Volume", volume), Delete("Image", image),
               Delete("Unsupported", image)>>

VolumePlan == <<Delete("Volume", volume)>>
=============================================================================
