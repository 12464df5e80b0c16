CONSTANTS
  leaded = leaded
  leadFree = leadFree
  large = large
  empty = empty
  NoProfile = NoProfile
  Profiles <- MCProfiles
  Datapoints <- MCDatapoints
  FrameEntries = 2
  IdRange = 2
  Hurried = FALSE
  MaxStarts = 5
  MaxLosses = 2
  MaxDisplayRestarts = 1
  MaxCoreRestarts = 2
SPECIFICATION Spec
INVARIANTS
  TypeOK
  SelectedUndisturbed
  NotOverwritten
