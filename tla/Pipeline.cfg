SPECIFICATION Spec
CONSTANTS
  Evidence = {"coin", "tok", "nft", "allow"}
  Candidates = {"pos"}
  Outputs = {"out"}
  Kind <- MCKind
  Contract <- MCContract
  Worth <- MCWorth
  Key <- MCKey
  Parent <- MCParent
  FeatureSets <- MCFeatureSets
  Ttl = 5
  Margin = 1
  Least = 1
  CapPermit = 3
  CapDelegate = 4
  MaxCoin = 3
  MaxNow = 6
INVARIANT NothingIsForgotten
INVARIANT PlanIsOrdered
INVARIANT ExecutableStandsAlone
INVARIANT DelegateIsWhole
INVARIANT PackagesHold
INVARIANT PackagedIsOffered
INVARIANT AnswersAreAccepted
CHECK_DEADLOCK FALSE
