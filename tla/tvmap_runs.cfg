SPECIFICATION Spec
CONSTANTS
  Keys = {1, 2, 9}
  InvalidKey = 9
  Files <- MCFiles
  EpgNames <- MCNames
  NoFile = NoFile
  MaxRuns = 2
INVARIANTS
  RedirectsOnlyInvalid
  FilesMatch
PROPERTY
  ListKept
CHECK_DEADLOCK FALSE
