\* A start, one switch, one capture or message; nothing fails.
SPECIFICATION BindingSpec
CONSTANTS
  Chats = {1, 2}
  MaxSwitches = 1
  MaxBinds = 1
  MaxChecks = 0
  MaxBindFaults = 0
INVARIANTS
  DirectoryIsLoaded
CHECK_DEADLOCK FALSE
