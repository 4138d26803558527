SPECIFICATION MCSpec
CONSTANTS
    Repairs = {"a", "b"}
    MaxGroup = 2
    MaxEvidence = 2
    MaxTroubles = 1
    Dreams = {"d1"}
    DreamOwners = {"maid"}
    DreamOwner <- OwnerOfEach
    DreamRuns = {1, 2}
    MaxDreamFailures = 2
    MaxSets = 2
    MaxUserActs = 1
    MaxDreamFaults = 1
    VectorChats = {"A", "B"}
    NoChat = "none"
    MaxTexts = 2
    MaxLives = 1
    MaxRequests = 2
    MaxVectorFaults = 1
    Libraries <- MCLibraries
    Revisions <- MCRevisions
    Inquests <- MCInquests
    StrongWords = {"gun", "ann", "shots", "left", "food", "water", "well"}
    MaxAnchors = 3
    MaxRevisions = 1
    VectorHits <- MCHits
    Webs <- MCWebs
    Rankings <- MCRankings
    MaxSeeds = 2
    Waits = {0, 2, 5}
    FewDocuments = 2
    ManyDocuments = 3
    WorthRanking = 2
    RankTimeout = 3
    TotalBudget = 4
INVARIANTS DreamsSound VectorsSound SearchSound
PROPERTIES RepairsSound PhaseEnds QueuedRuns RequestsAreServed
CHECK_DEADLOCK FALSE
