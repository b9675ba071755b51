-------------------------- MODULE PermitSettlement --------------------------
(***************************************************************************)
(* The settlement contract (contracts/src/SafeExitPermitSettlementV2.sol)  *)
(* and the tokens it settles, for one source wallet.  A rescue package is  *)
(* a token permit for the settlement contract and a rescue authorization,  *)
(* both signed by the source against the permit nonce of that moment; the  *)
(* destination submits it and pays.  Until then anybody may submit the     *)
(* permit on its own, the source's other keys may transfer, approve or use *)
(* up nonces, and the deadline may pass.                                   *)
(*                                                                         *)
(* Every action is one transaction.  A transaction that reverts changes    *)
(* nothing and is no step: the conjuncts of Settle* are the code's reverts. *)
(***************************************************************************)
EXTENDS Naturals, FiniteSets, Sequences

CONSTANTS Assets,
          Standard,     \* asset -> "ERC2612", "DAI" or "ERC4494" (one token id)
          Taxed,        \* fungible assets that keep a fee on transfer
          Source,
          Others,       \* destinations and everybody else
          Settlement,   \* the contract
          RescueNonces,
          Supply,       \* asset -> what the source holds at first
          MaxUint,      \* type(uint256).max
          Approvals,    \* bound: amounts the source approves by hand
          MaxNonce,     \* bound: permit nonces
          MaxSigned     \* bound: packages signed

Accounts == {Source} \cup Others
Unlimited == MaxUint

ASSUME AssetAssumption ==
  /\ Standard \in [Assets -> {"ERC2612", "DAI", "ERC4494"}]
  /\ Supply \in [Assets -> Nat]
  /\ \A a \in Assets : Supply[a] < MaxUint
  /\ \A a \in Assets : Standard[a] = "ERC4494" => Supply[a] = 1 /\ a \notin Taxed
ASSUME AccountAssumption == Source \notin Others /\ Settlement \notin Accounts
ASSUME WidthAssumption == /\ MaxUint \in Nat /\ Approvals \subseteq 0 .. MaxUint
                          /\ MaxNonce \in Nat /\ MaxNonce < MaxUint

VARIABLES holding,    \* asset -> account -> balance
          nonce,      \* asset -> permit nonce of the source, or of the token id
          allowance,  \* asset -> what the settlement contract may take
          signed,     \* packages the source has signed
          late,       \* packages whose deadline has passed
          used,       \* rescueNonceUsed of the source
          rescued,    \* the contract's log: the packages it settled, in order
          mover,      \* whose call moved assets last
          approved    \* assets the source ever approved by hand

vars == <<holding, nonce, allowance, signed, late, used, rescued, mover, approved>>

Rescue == [asset : Assets, dest : Others, amount : 1 .. MaxUint,
           nonce : 0 .. MaxNonce - 1, rescue : RescueNonces]

TypeOK == /\ holding \in [Assets -> [Accounts -> Nat]]
          /\ nonce \in [Assets -> Nat]
          /\ allowance \in [Assets -> 0 .. MaxUint]
          /\ signed \subseteq Rescue /\ late \subseteq signed /\ rescued \in Seq(signed)
          /\ used \subseteq RescueNonces
          /\ mover \in Accounts \cup {Settlement} /\ approved \subseteq Assets

Init == /\ holding = [a \in Assets |-> [x \in Accounts |->
                        IF x = Source THEN Supply[a] ELSE 0]]
        /\ nonce = [a \in Assets |-> 0]
        /\ allowance = [a \in Assets |-> 0]
        /\ signed = {} /\ late = {} /\ used = {} /\ rescued = <<>>
        /\ mover = Source /\ approved = {}

-----------------------------------------------------------------------------
(* The tokens.                                                             *)

\* What arrives of n units.
Arriving(a, n) == IF a \in Taxed /\ n > 1 THEN n - 1 ELSE n

\* n units of asset a from one account to another.
Pay(row, a, from, to, n) ==
  [row EXCEPT ![from] = @ - n, ![to] = @ + Arriving(a, n)]
Paid(h, a, from, to, n) == [h EXCEPT ![a] = Pay(h[a], a, from, to, n)]

\* What a token knows of the source and the contract: the permit nonce and what
\* the contract may take.
Token(a) == [nonce |-> nonce[a], allowance |-> allowance[a]]
Becomes(a, t) == /\ nonce' = [nonce EXCEPT ![a] = t.nonce]
                 /\ allowance' = [allowance EXCEPT ![a] = t.allowance]

\* permit, with what it grants.  An ERC-4494 permit does not use its nonce up.
Permitted(r, t) ==
  CASE Standard[r.asset] = "ERC2612" -> [nonce |-> t.nonce + 1, allowance |-> r.amount]
    [] Standard[r.asset] = "DAI"     -> [nonce |-> t.nonce + 1, allowance |-> Unlimited]
    [] Standard[r.asset] = "ERC4494" -> [t EXCEPT !.allowance = 1]
\* The DAI permit that allows nothing.
Revoked(t) == [nonce |-> t.nonce + 1, allowance |-> 0]
\* transferFrom uses the allowance up, unless it is unlimited.
Spent(t, n) == IF t.allowance = Unlimited THEN t ELSE [t EXCEPT !.allowance = @ - n]
\* An NFT's approval ends and its permit nonce advances with each transfer.
Handed(t) == [nonce |-> t.nonce + 1, allowance |-> 0]

Transfer(a, from, to, n) ==
  /\ from # to /\ 0 < n /\ n <= holding[a][from]
  /\ Standard[a] = "ERC4494" => nonce[a] < MaxNonce
  /\ holding' = Paid(holding, a, from, to, n)
  /\ mover' = from
  /\ IF Standard[a] = "ERC4494" THEN Becomes(a, Handed(Token(a)))
     ELSE UNCHANGED <<nonce, allowance>>
  /\ UNCHANGED <<signed, late, used, rescued, approved>>

\* The source approves the settlement contract without a permit.
Approve(a, n) ==
  /\ Standard[a] = "ERC4494" => n <= 1 /\ holding[a][Source] = 1
  /\ Becomes(a, [Token(a) EXCEPT !.allowance = n])
  /\ approved' = IF n = 0 THEN approved ELSE approved \cup {a}
  /\ UNCHANGED <<holding, signed, late, used, rescued, mover>>

\* A permit of the source for somebody else uses up a nonce.
PermitElsewhere(a) ==
  /\ Standard[a] # "ERC4494" /\ nonce[a] < MaxNonce
  /\ Becomes(a, [Token(a) EXCEPT !.nonce = @ + 1])
  /\ UNCHANGED <<holding, signed, late, used, rescued, mover, approved>>

\* Anybody submits the permit of a package: the one that allows the transfer.
Permit(r) ==
  /\ r \in signed \ late
  /\ nonce[r.asset] = r.nonce
  /\ Standard[r.asset] = "ERC4494" => holding[r.asset][Source] = 1
  /\ Becomes(r.asset, Permitted(r, Token(r.asset)))
  /\ UNCHANGED <<holding, signed, late, used, rescued, mover, approved>>

\* A DAI package also holds the permit that ends the allowance again.
Revoke(r) ==
  /\ r \in signed \ late /\ Standard[r.asset] = "DAI"
  /\ nonce[r.asset] = r.nonce + 1
  /\ Becomes(r.asset, Revoked(Token(r.asset)))
  /\ UNCHANGED <<holding, signed, late, used, rescued, mover, approved>>

-----------------------------------------------------------------------------
(* The contract.                                                           *)

IsNextNonce(k, current) == k # MaxUint /\ current = k + 1

\* Mutant of Authorized: the rescue nonce is not looked up.
AuthorizedAgain(r) == r \in signed \ late

\* _validateCommon, _validateAuthorization, _consumeAuthorization; the sender
\* is the destination.
Authorized(r) == r \in signed \ late /\ r.rescue \notin used

\* Mutant of PaysExactly: no comparison of the destination's balance.
PaysAnything(r) == r.amount <= holding[r.asset][Source]
\* _transferExactERC20.
PaysExactly(r) == /\ r.amount <= holding[r.asset][Source]
                  /\ Arriving(r.asset, r.amount) = r.amount

Consume(r) == /\ used' = used \cup {r.rescue}
              /\ rescued' = Append(rescued, r)
              /\ holding' = Paid(holding, r.asset, Source, r.dest, r.amount)
              /\ mover' = Settlement
              /\ UNCHANGED <<signed, late, approved>>

\* The token once the permit of the package was tried, which is at its own nonce
\* only.  `genuine` is FALSE when the destination submits the package with a
\* permit signature the token refuses.
Granted(r, genuine) == LET t == Token(r.asset)
                       IN IF t.nonce = r.nonce /\ genuine THEN Permitted(r, t) ELSE t
AtOrNext(r)  == nonce[r.asset] = r.nonce \/ IsNextNonce(r.nonce, nonce[r.asset])
\* _requireZeroAllowance.
NothingIn(t) == t.allowance = 0

\* Mutant of OpenERC2612, version 1 of the contract: only at the permit's nonce.
OpenERC2612First(r, genuine) ==
  nonce[r.asset] = r.nonce /\ Granted(r, genuine).allowance = r.amount

\* A permit that fails is caught: what counts is the allowance.
OpenERC2612(r, genuine) == /\ AtOrNext(r)
                           /\ Granted(r, genuine).allowance = r.amount
                           /\ NothingIn(Spent(Granted(r, genuine), r.amount))

SettleERC2612(r, genuine) ==
  /\ Standard[r.asset] = "ERC2612" /\ Authorized(r) /\ PaysExactly(r)
  /\ OpenERC2612(r, genuine)
  /\ Becomes(r.asset, Spent(Granted(r, genuine), r.amount))
  /\ Consume(r)

\* The allow permit is submitted unless it has been, and must not fail.
OpenDai(r) == AtOrNext(r) /\ Granted(r, TRUE).allowance >= r.amount

\* Mutant of SettleDai: what the transfer leaves is neither ended nor looked at.
SettleDaiForgets(r) ==
  /\ Standard[r.asset] = "DAI" /\ Authorized(r) /\ PaysExactly(r)
  /\ OpenDai(r)
  /\ Becomes(r.asset, Spent(Granted(r, TRUE), r.amount))
  /\ Consume(r)

\* An allowance the transfer leaves is ended with the revoke permit, at the nonce
\* after the allow permit's.
SettleDai(r) ==
  /\ Standard[r.asset] = "DAI" /\ Authorized(r) /\ PaysExactly(r)
  /\ OpenDai(r)
  /\ LET left  == Spent(Granted(r, TRUE), r.amount)
         final == IF NothingIn(left) THEN left ELSE Revoked(left)
     IN /\ ~NothingIn(left) => left.nonce = r.nonce + 1
        /\ NothingIn(final)
        /\ Becomes(r.asset, final)
  /\ Consume(r)

\* A permit submitted before changes nothing.  A receiver that passes the token on
\* makes this revert.
OpenERC4494(r) == nonce[r.asset] = r.nonce /\ holding[r.asset][Source] = 1 /\ r.amount = 1

SettleERC4494(r) ==
  /\ Standard[r.asset] = "ERC4494" /\ Authorized(r)
  /\ OpenERC4494(r)
  /\ Becomes(r.asset, Handed(Permitted(r, Token(r.asset))))
  /\ Consume(r)

Settle(r) == \/ \E genuine \in BOOLEAN : SettleERC2612(r, genuine)
             \/ SettleDai(r)
             \/ SettleERC4494(r)

-----------------------------------------------------------------------------
\* The source signs a package the builder made from the chain's state.
Sign(r) == /\ Cardinality(signed) < MaxSigned
           /\ r.nonce = nonce[r.asset] /\ r.nonce < MaxNonce
           /\ r.amount <= holding[r.asset][Source]
           /\ signed' = signed \cup {r}
           /\ UNCHANGED <<holding, nonce, allowance, late, used, rescued, mover, approved>>

Elapse(r) == /\ r \in signed \ late
             /\ late' = late \cup {r}
             /\ UNCHANGED <<holding, nonce, allowance, signed, used, rescued, mover, approved>>

\* The packages that can be signed now.
Offers == {[asset |-> a, dest |-> d, amount |-> n, nonce |-> nonce[a], rescue |-> k] :
             a \in Assets, d \in Others, n \in 1 .. MaxUint, k \in RescueNonces}

Wallet == \E a \in Assets :
            \/ \E from, to \in Accounts, n \in 1 .. MaxUint - 1 : Transfer(a, from, to, n)
            \/ \E n \in Approvals : Approve(a, n)
            \/ PermitElsewhere(a)

Next == \/ \E r \in Offers : Sign(r)
        \/ \E r \in signed : Elapse(r) \/ Permit(r) \/ Revoke(r) \/ Settle(r)
        \/ Wallet

Spec == Init /\ [][Next]_vars

-----------------------------------------------------------------------------
(* Correctness.                                                            *)

\* A rescue nonce is used exactly when the contract has settled a package that
\* carries it, and it settles once with it: neither another package the source
\* signed with it nor the same one again, whatever came back to the source.
OncePerNonce ==
  /\ used = {rescued[i].rescue : i \in DOMAIN rescued}
  /\ \A i, j \in DOMAIN rescued : rescued[i].rescue = rescued[j].rescue => i = j

\* The contract keeps nothing: what it may take of an asset the source never
\* approved by hand, it may take for a package that is not settled yet, whose permit
\* may have been submitted.  With the last package settled nothing is left, in
\* whatever order and by whomever permits, revocations and packages are submitted.
IsSettled(r)   == \E i \in DOMAIN rescued : rescued[i] = r
MayHaveGranted(r) == IF Standard[r.asset] = "ERC4494" THEN r.nonce = nonce[r.asset]
                     ELSE r.nonce < nonce[r.asset]
NothingLeftToTake ==
  \A a \in Assets \ approved : allowance[a] # 0 =>
    \E r \in signed : r.asset = a /\ ~IsSettled(r) /\ MayHaveGranted(r)

\* "Version 2 tolerates a permit that was submitted before settlement" (the
\* contract's comment): whoever submits the permit of a package early, and with
\* whatever allowance, leaves the package as settleable as it was.
Settleable(r) ==
  /\ Authorized(r)
  /\ r.amount <= holding[r.asset][Source] /\ Arriving(r.asset, r.amount) = r.amount
  /\ CASE Standard[r.asset] = "ERC2612" -> OpenERC2612(r, TRUE)
       [] Standard[r.asset] = "DAI"     -> OpenDai(r)
       [] Standard[r.asset] = "ERC4494" -> OpenERC4494(r)
EarlyPermitIsTolerated ==
  [][\A r \in signed : Settleable(r) /\ Permit(r) => Settleable(r)']_vars

\* The contract carries out signed authorizations, each rescue nonce once, and
\* moves nothing else.
Authority == INSTANCE RescueAuthority
KeepsAuthority == Authority!AuthoritySpec
=============================================================================
