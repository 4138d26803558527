\* Failures, cancels, chat switches, reloads and undos under one job after another;
\* or a storage that may refuse a rollback. Or one extraction beside other writers.
\* Or two captures of a few claims, or the checks of one answer.
\* Or the directory of people, written by captures and by the user.
SPECIFICATION MCSpec
CONSTANTS
  N = 2
  MaxWindows = 2
  MaxJobs = 2
  MaxUpsets = 2
  Settings <- Troubled
  NoSet = NoSet
  Records = {"person", "fact"}
  FactRecords = {"fact"}
  MaxStores = 2
  MaxRounds = 2
  Actors = {"a", "b"}
  Claims <- MCClaims
  MaxCaptures = 2
  Questions <- MCQuestions
  Names = {"a", "b"}
  FreshOwners = {"s"}
  NoOwner = NoOwner
  MaxDiscoveries = 2
  MaxCorrections = 2
  MaxRegistryFaults = 1
INVARIANTS ResumesAfterHeld ExtractionSound KnowledgeSound ValidationSound
PROPERTIES SummarizedIsHeld NamesStand
CHECK_DEADLOCK FALSE
