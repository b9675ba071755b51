-------------------------- MODULE MCRescuePipeline --------------------------
(* A coin, a token and an approval of it, an NFT, and an adapter that      *)
(* withdraws more of the token.                                            *)
EXTENDS RescuePipeline, TLC

MCKind == "coin" :> "NATIVE" @@ "tok" :> "ERC20" @@ "nft" :> "ERC721" @@ "allow" :> "ALLOWANCE"
          @@ "pos" :> "ADAPTER" @@ "out" :> "ERC20"
MCContract == [a \in DOMAIN MCKind |-> IF a = "nft" THEN "C" ELSE "T"]
MCWorth  == [a \in DOMAIN MCKind |-> CASE a = "nft" -> Unpriced [] a = "tok" -> 50
                                       [] a = "pos" -> 2000     [] OTHER -> Unpriced]
MCKey    == "coin" :> 1 @@ "nft" :> 2 @@ "tok" :> 3 @@ "out" :> 4 @@ "allow" :> 5 @@ "pos" :> 6
MCParent == "out" :> "pos"

\* One contract of each sort, all assets alike.
MCFeature(domain, named, hashes, probe) ==
  [domain |-> domain, named |-> named, nonces |-> TRUE, hashes |-> hashes, nft |-> domain, probe |-> probe]
MCFeatureSets == {[a \in DOMAIN MCKind |-> f] : f \in {MCFeature(TRUE, FALSE, {"ERC3009"}, "empty"),
                                                       MCFeature(TRUE, TRUE, {"DAI"}, "reverts"),
                                                       MCFeature(TRUE, TRUE, {"DAI"}, "fails"),
                                                       MCFeature(TRUE, FALSE, {}, "accepts")}}
=============================================================================
