SPECIFICATION FairSpec
CONSTANTS
  Assets = {"token"}
  Offers <- MCOffers
  Start <- MCStart
  MaxNonce = 1
  MaxHeld = 1
  MaxAuth = 2
  MaxTx = 1
INVARIANT TypeOK
INVARIANT SignsWhatWasReviewed
INVARIANT RowsAreTrue
PROPERTY PageComesBack
CHECK_DEADLOCK FALSE
