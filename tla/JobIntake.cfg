SPECIFICATION FairSpec
CONSTANTS
  Actions = {a1}
  Hashes = {h1}
  MaxSubmissions = 2
  Clients = {c1, c2}
  Cron = cron
  NoJob = NoJob
  NoReceipt = NoReceipt
  MaxAttempts = 2
  MaxFollowUps = 1
  MaxIssues = 1
  MaxExpired = 1
  MaxStarts = 6
  MaxFaults = 1
INVARIANT TypeOK
INVARIANT SnapshotCurrency
PROPERTY KeepsPromise
PROPERTY PendingIsSettled
CHECK_DEADLOCK FALSE
