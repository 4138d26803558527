\* One window with derived rows, candidates and outside writers.
SPECIFICATION MCSpec
CONSTANTS
  b1 = b1
  b2 = b2
  fact = fact
  job = job
  cand = cand
  row = row
  x = x
  y = y
  NoContent = NoContent
  NoId = NoId
  Clients = {c1}
  Batches = {b1, b2}
  Recs = {fact, job, cand}
  JobRecs = {job}
  CandidateRecs = {cand}
  StockRecs = {fact}
  Derived = {row}
  Contents = {x, y}
  Touches <- MCTouches
  DependsOn <- MCDependsOn
  Payloads <- TwoResults
  MaxRetry = 1
  MaxWrites = 2
  GraphFacts = {"f", "g"}
  FactEnds <- EntitiesOf
  GraphBatch = 2
  MaxRevisions = 2
  MaxRebuilds = 2
  MaxGraphFaults = 1
INVARIANTS TypeOK AckedIsStored NoOrphans GraphFollowsFacts
PROPERTIES ActsAsLedger CallsEnd
CHECK_DEADLOCK FALSE
