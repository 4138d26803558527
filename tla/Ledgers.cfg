\* The batches: two windows commit and roll back two batches of one job at once.
SPECIFICATION MCSpec
CONSTANTS
    b1 = b1
    b2 = b2
    fact = fact
    job = job
    cand = cand
    row = row
    x = x
    y = y
    NoContent = NoContent
    NoId = NoId
    Clients = {c1, c2}
    Batches = {b1, b2}
    Recs = {fact, job}
    JobRecs = {job}
    CandidateRecs = {}
    StockRecs = {}
    Derived = {}
    Contents = {x, y}
    Touches <- MCTouches
    DependsOn <- MCDependsOn
    Payloads <- TwoResults
    MaxRetry = 1
    MaxWrites = 0
    Claims <- SlotClaims
    ManualIds = {"m1"}
    Texts = {"x", "y", "z"}
    NoFact = NoFact
    LedgerCallers = {1, 2}
    MaxEdits = 1
    EditsOverlap = FALSE
    Units = {"none", "each"}
    StockCommands <- Entered
    Messages = {"m1", "m2"}
    Readings <- Told
    NoAmount = NoAmount
    NoStock = NoStock
    MaxStockCommands = 2
    MaxStockJobs = 2
    Words = {"v", "w"}
    MaxReplies = 3
    MaxChanges = 2
INVARIANTS OneLiveLink StockSound DetailsFollow
PROPERTIES FactsInOrder StockKept DetailsKept
SYMMETRY Windows
CHECK_DEADLOCK FALSE
