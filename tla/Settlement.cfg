SPECIFICATION Spec
CONSTANTS
  dai = dai
  nft = nft
  fee = fee
  Assets = {dai, nft, fee}
  Standard <- MCStandard
  Taxed = {fee}
  Source = src
  Settlement = settlement
  Others = {dst}
  RescueNonces = {k1, k2}
  Supply <- MCSupply
  MaxUint = 3
  Approvals = {0, 1, 2}
  MaxNonce = 1
  MaxSigned = 2
INVARIANT OncePerNonce
INVARIANT NothingLeftToTake
PROPERTY EarlyPermitIsTolerated
PROPERTY KeepsAuthority
SYMMETRY Symmetry
CHECK_DEADLOCK FALSE
