\* Two turns, a switch, a write that fails; no symmetry, for CallsSettle.
SPECIFICATION MCSpec
CONSTANTS
  A = A
  Chats = {A, B}
  MaxTurns = 2
  MaxSwitches = 1
  MaxFails = 1
  Attempts = 2
  Reports = {"carried", "bare", "ended"}
  NoChat = NoChat
  NoPlan = NoPlan
  NoScope = NoScope
  NoPrep = NoPrep
  NoMessage = NoMessage
  People = {"a", "b"}
  Lines <- ChatLines
  Lookback = 1
  MaxLines = 3
  MaxFixes = 1
  MaxWorks = 3
  NoScene = NoScene
  Candidates <- ABC
  Occasions <- MCOccasions
  Proposals <- MCProposals
  MaxFloor = 2
  MaxKept = 1
  Actors <- AB
  Facts = {1, 2, 3}
  KindOf <- FactKinds
  Inquiries <- MCInquiries
  Size <- LineSizes
  Envelope = 180
  TagSize = 20
  Smallest = 256
INVARIANTS CompletionsInOrder CapturedOnce PlanOnce SceneSound CastSound RecallSound
PROPERTIES SavedFirst CallsSettle
CHECK_DEADLOCK FALSE
