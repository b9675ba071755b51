SPECIFICATION Spec
CONSTANTS
  Jobs = {j1, j2, j3}
  Hashes = {h1}
  Limit = 2
  MaxKills = 1
PROPERTY ReachedReceiptsSettle
CHECK_DEADLOCK FALSE
