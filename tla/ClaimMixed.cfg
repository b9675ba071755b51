SPECIFICATION RecordsSpec
CONSTANTS
  Actions = {a1, a2}
  Hashes = {h1, h2}
  MaxSubmissions = 2
  Clients = {c1, c2}
  Cron = cron
  NoJob = NoJob
  NoReceipt = NoReceipt
  MaxAttempts = 2
  MaxFollowUps = 1
  MaxIssues = 1
  MaxExpired = 0
  MaxStarts = 3
  MaxFaults = 0
PROPERTY MixedRescueStaysExecuting
CHECK_DEADLOCK FALSE
