--------------------------- MODULE RescueAuthority --------------------------
(***************************************************************************)
(* What a signed rescue authorization permits, whatever contract carries   *)
(* it out: exactly the signed amount leaves the source for the signed      *)
(* destination, once per rescue nonce.  Whatever else moves, its holder    *)
(* has moved, and never the contract.                                      *)
(***************************************************************************)
EXTENDS Naturals, Sequences

CONSTANTS Source, Settlement

VARIABLES signed,    \* authorizations the source has signed
          rescued,   \* those carried out, in order
          holding,   \* what every account holds of every asset
          mover      \* whose call moved assets last

authorityVars == <<signed, rescued, holding, mover>>

AuthorityInit == rescued = <<>>

\* What `h` becomes when n units of asset a leave the source for d.
Given(row, d, n) == [row EXCEPT ![Source] = @ - n, ![d] = @ + n]
Moved(h, a, d, n) == [h EXCEPT ![a] = Given(h[a], d, n)]

CarryOut(r) == /\ r \in signed
               /\ \A i \in DOMAIN rescued : rescued[i].rescue # r.rescue
               /\ rescued' = Append(rescued, r)
               /\ r.amount <= holding[r.asset][Source]
               /\ holding' = Moved(holding, r.asset, r.dest, r.amount)
               /\ mover' = Settlement
               /\ UNCHANGED signed

\* An account other than the contract moves what is its own.
Move == /\ mover' # Settlement
        /\ \A a \in DOMAIN holding : \A x \in DOMAIN holding[a] :
             holding'[a][x] < holding[a][x] => x = mover'
        /\ UNCHANGED <<signed, rescued>>

\* The source signs; permits and approvals are none of this module's business.
Prepare == signed \subseteq signed' /\ UNCHANGED <<rescued, holding, mover>>

AuthorityNext == Prepare \/ Move \/ \E r \in signed : CarryOut(r)

AuthoritySpec == AuthorityInit /\ [][AuthorityNext]_authorityVars
=============================================================================
