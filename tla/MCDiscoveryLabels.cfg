\* A container with a tab in a label.
CONSTANTS
  c1 = c1
  c2 = c2
  base = base
  tool = tool
  volume = volume
  keep = keep
  note = note
  Containers = {c1, c2}
  Images = {base, tool}
  Volumes = {volume}
  ImageOf <- MCImageOf
  MountsOf <- MCMountsOf
  Texts = {keep, note}
  LabelsOf <- MCLabelsOf
  Unlabelled = {tool}
  ProtectedLabels <- MCProtectedLabels
SPECIFICATION Spec
INVARIANT AttachedVolumesMarked
\* The answer ends it.
CHECK_DEADLOCK FALSE
