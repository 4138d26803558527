\* One reload in the middle of a capture.
SPECIFICATION Spec
CONSTANTS
  N = 2
  MaxWindows = 1
  MaxJobs = 2
  MaxUpsets = 1
  Settings <- PlainUser
  NoSet = NoSet
INVARIANTS
  NoRescan
CHECK_DEADLOCK FALSE
