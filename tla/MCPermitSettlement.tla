------------------------- MODULE MCPermitSettlement -------------------------
(***************************************************************************)
(* One asset of each standard, the ERC-2612 one with a fee, for TLC.       *)
(***************************************************************************)
EXTENDS PermitSettlement, TLC

CONSTANTS dai, nft, fee

MCStandard == [a \in Assets |-> CASE a = dai -> "DAI"
                                  [] a = nft -> "ERC4494"
                                  [] OTHER   -> "ERC2612"]
MCSupply   == [a \in Assets |-> IF a \in {nft, dai} THEN 1 ELSE 2]
Symmetry == Permutations(RescueNonces)
=============================================================================
