\* A window attaches derived rows while another rolls the change set back.
SPECIFICATION Spec
CONSTANTS
  b1 = b1
  b2 = b2
  fact = fact
  job = job
  cand = cand
  row = row
  x = x
  y = y
  NoContent = NoContent
  NoId = NoId
  Clients = {c1, c2}
  Batches = {b1}
  Recs = {fact, cand}
  JobRecs = {}
  CandidateRecs = {cand}
  StockRecs = {}
  Derived = {row}
  Contents = {x, y}
  Touches <- MCTouches
  DependsOn <- MCDependsOn
  Payloads <- OneResult
  MaxRetry = 1
  MaxWrites = 1
INVARIANTS
  NoOrphans
