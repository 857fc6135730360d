\* Both backends, Docker without {{.ImageID}}, Podman with full and short ids.
CONSTANTS
  c1 = c1
  c2 = c2
  image = image
  volume = volume
  note = note
  Runtimes <- Both
  Plan <- WholePlan
  PlanDryRun = FALSE
  Containers = {c1, c2}
  Images = {image}
  Volumes = {volume}
  ImageOf <- MCImageOf
  MountsOf <- MCMountsOf
  Texts = {note}
  LabelsOf <- MCLabelsOf
SPECIFICATION Spec
INVARIANTS
  TypeOK
  GuardSound
  CompletedIsGone
PROPERTIES
  ImplementsBatch
  PlanEnds
\* The plan comes to its end.
CHECK_DEADLOCK FALSE
