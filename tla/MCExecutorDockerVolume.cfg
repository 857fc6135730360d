\* Docker: the guard of a volume.
CONSTANTS
  c1 = c1
  c2 = c2
  image = image
  volume = volume
  note = note
  Runtimes <- DockerOnly
  Plan <- VolumePlan
  PlanDryRun = FALSE
  Containers = {c1, c2}
  Images = {image}
  Volumes = {volume}
  ImageOf <- MCImageOf
  MountsOf <- MCMountsOf
  Texts = {note}
  LabelsOf <- NoLabels
SPECIFICATION Spec
INVARIANT AttachedBlocksDelete
\* The plan comes to its end.
CHECK_DEADLOCK FALSE
