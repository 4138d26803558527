\* Every disturbance twice; one window. A page of two replies, looked up one at a time.
\* Two switches of the host's chat, and one of each that binds it, checks the storage or fails.
SPECIFICATION MCSpec
CONSTANTS
  N = 2
  MaxWindows = 1
  MaxJobs = 3
  MaxUpsets = 2
  Settings <- HastyUser
  NoSet = NoSet
  Slots = {1, 2}
  BatchSize = 1
  MaxStored = 1
  MaxEdits = 1
  MaxLookupFaults = 1
  Chats = {1, 2}
  MaxSwitches = 2
  MaxBinds = 1
  MaxChecks = 1
  MaxBindFaults = 1
INVARIANTS ButtonsAreRight BindingSound
PROPERTIES RunsEnd WindowsGetSummarized ButtonsAppear HostIsFollowed
CHECK_DEADLOCK FALSE
