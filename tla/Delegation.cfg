SPECIFICATION FairSpec
CONSTANTS
  ActionCount = 2
  SourceNonce = 1
  Budget = 5
  Reserve = 2
  MaxOwn = 1
  MaxNonce = 4
INVARIANT TypeOK
INVARIANT OutcomesAreTrue
INVARIANT ReturnsUndelegated
INVARIANT GasComesBack
PROPERTY ResultIsFinal
PROPERTY SessionEnds
CHECK_DEADLOCK FALSE
