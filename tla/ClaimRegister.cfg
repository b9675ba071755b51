SPECIFICATION Spec
CONSTANTS
  Assets = {"token"}
  Offers <- MCOffers
  Start <- MCStart
  MaxNonce = 1
  MaxHeld = 1
  MaxAuth = 1
  MaxTx = 1
INVARIANT ConfirmedIsRegistrable
CHECK_DEADLOCK FALSE
