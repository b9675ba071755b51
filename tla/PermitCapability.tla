--------------------------- MODULE PermitCapability --------------------------
(***************************************************************************)
(* Which standards of authorization a contract supports, as two pieces of  *)
(* code find out: the preflight route lists every one, the package builder *)
(* of a job takes one.  Both ask the contract for its EIP-712 domain, type *)
(* hashes and nonces, and call a permit with a signature that cannot be    *)
(* valid: a contract that accepts it is not to be used.                    *)
(***************************************************************************)

Standards == {"ERC3009", "ERC2612", "DAI", "ERC4494"}

\* What the call of the impossible permit comes to: accepted, reverted with
\* data, reverted without, or not carried out by the node.
Probes == {"accepts", "reverts", "empty", "fails"}

\* domain: eip712Domain() gives the separator; named: the name with version 1 does.
Features == [domain : BOOLEAN, named : BOOLEAN, nonces : BOOLEAN,
             hashes : SUBSET {"ERC3009", "DAI"}, nft : BOOLEAN, probe : Probes]

HasERC3009(f) == f.domain /\ "ERC3009" \in f.hashes
HasERC2612(f) == f.domain /\ f.nonces /\ f.probe = "reverts"
HasDai(f)     == f.named /\ f.nonces /\ "DAI" \in f.hashes /\ f.probe # "accepts"
HasERC4494(f) == f.domain /\ f.nonces /\ f.nft /\ f.probe # "accepts"

\* detect... of the preflight route; settled: the settlement contract is verified.
Offered(kind, f, settled) ==
  CASE kind = "ERC20"  -> {s \in Standards : \/ s = "ERC3009" /\ HasERC3009(f)
                                             \/ s = "ERC2612" /\ settled /\ HasERC2612(f)
                                             \/ s = "DAI"     /\ settled /\ HasDai(f)}
    [] kind = "ERC721" -> {s \in Standards : s = "ERC4494" /\ settled /\ HasERC4494(f)}
    [] OTHER           -> {}

\* Mutant of TakesToken: any failure of the impossible permit is a refusal.
TakesTokenLoosely(f, settled) ==
  IF HasERC3009(f) THEN {"ERC3009"}
  ELSE IF settled /\ f.domain /\ f.nonces /\ f.probe # "accepts" THEN {"ERC2612"} ELSE {}

\* detectCapability and buildErc4494Package of the builder: in this order.
TakesToken(f, settled) ==
  CASE HasERC3009(f)                       -> {"ERC3009"}
    [] ~HasERC3009(f) /\ ~settled          -> {}
    [] OTHER -> IF f.domain /\ f.nonces /\ f.probe = "reverts" THEN {"ERC2612"}
                ELSE IF f.named /\ f.nonces /\ "DAI" \in f.hashes /\ f.probe # "accepts" THEN {"DAI"}
                ELSE {}
TakesNft(f) == IF f.nft /\ f.domain /\ f.nonces /\ f.probe = "reverts" THEN {"ERC4494"} ELSE {}

Taken(kind, f, settled) == CASE kind = "ERC20"             -> TakesToken(f, settled)
                             [] kind = "ERC721" /\ settled -> TakesNft(f)
                             [] OTHER                      -> {}
=============================================================================
