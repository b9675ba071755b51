SPECIFICATION RecordsSpec
CONSTANTS
  Actions = {a1, a2}
  Hashes = {h1, h2}
  MaxSubmissions = 2
  Clients = {c1, c2}
  Cron = cron
  NoJob = NoJob
  NoReceipt = NoReceipt
  MaxAttempts = 2
  MaxFollowUps = 1
  MaxIssues = 2
  MaxExpired = 2
  MaxStarts = 3
  MaxFaults = 0
INVARIANT TruthfulReceipts
INVARIANT TruthfulCompletion
INVARIANT LiveIssueIsCurrent
PROPERTY SettledReceiptsStay
SYMMETRY Symmetry
CHECK_DEADLOCK FALSE
