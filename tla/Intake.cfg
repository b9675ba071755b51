SPECIFICATION Spec
CONSTANTS
  Clients = {c1, c2}
  Requests = {r1}
  a1 = a1
  a2 = a2
  w1 = w1
  w2 = w2
  Kinds = {"paid"}
  coin = coin
  Assets = {a1, a2, coin}
  Coin = coin
  Scopes <- MCScopes
  Digest <- MCDigest
  JobIds = {j1, j2}
  NoJob = NoJob
  Idle = Idle
  MaxKills = 1
SYMMETRY Sym
INVARIANTS OneJobPerRequest HandsOnlyItsScope PlansItsIncident ContinuesOnlyPaid
CHECK_DEADLOCK FALSE
