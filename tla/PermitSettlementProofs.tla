----------------------- MODULE PermitSettlementProofs -----------------------
(***************************************************************************)
(* Theorems about PermitSettlement: for any assets, packages and bounds,   *)
(* the contract settles what was signed, once, moves nothing else, and may *)
(* take nothing for a package it has settled.                              *)
(***************************************************************************)
EXTENDS PermitSettlement, SequenceTheorems, TLAPS

(* Payments, tokens and the log                                            *)

\* A payment that its sender can make leaves every balance a natural number.
LEMMA PaidType ==
  ASSUME NEW h \in [Assets -> [Accounts -> Nat]], NEW a \in Assets,
         NEW from \in Accounts, NEW to \in Accounts, from # to,
         NEW n \in Nat, n <= h[a][from]
  PROVE  Paid(h, a, from, to, n) \in [Assets -> [Accounts -> Nat]]
<1>1. Arriving(a, n) \in Nat
  BY DEF Arriving
<1>2. h[a] \in [Accounts -> Nat] /\ h[a][from] - n \in Nat
  OBVIOUS
<1>3. Pay(h[a], a, from, to, n) \in [Accounts -> Nat]
  BY <1>1, <1>2 DEF Pay
<1> QED
  BY <1>3 DEF Paid

States == [nonce : Nat, allowance : 0 .. MaxUint]

\* What the token of an asset knows is a nonce and an allowance.
LEMMA TokenType == ASSUME TypeOK, NEW a \in Assets PROVE Token(a) \in States
BY DEF TypeOK, Token, States

\* A transaction of one token leaves the others as they are.
LEMMA BecomesType ==
  ASSUME TypeOK, NEW a \in Assets, NEW t \in States, Becomes(a, t)
  PROVE  /\ nonce' \in [Assets -> Nat] /\ allowance' \in [Assets -> 0 .. MaxUint]
         /\ nonce'[a] = t.nonce /\ allowance'[a] = t.allowance
         /\ \A b \in Assets : b # a => nonce'[b] = nonce[b] /\ allowance'[b] = allowance[b]
BY DEF TypeOK, Becomes, States

\* What a permit makes of a token.
LEMMA PermittedType ==
  ASSUME NEW r \in Rescue, NEW t \in States
  PROVE  /\ Permitted(r, t) \in States
         /\ Standard[r.asset] = "ERC4494" => Permitted(r, t) = [t EXCEPT !.allowance = 1]
         /\ Standard[r.asset] # "ERC4494" => Permitted(r, t).nonce = t.nonce + 1
<1>1. r.asset \in Assets /\ r.amount \in 0 .. MaxUint /\ 1 \in 0 .. MaxUint /\ MaxUint \in 0 .. MaxUint
  BY WidthAssumption DEF Rescue
<1>2. Standard[r.asset] \in {"ERC2612", "DAI", "ERC4494"}
  BY <1>1, AssetAssumption
<1> QED
  BY <1>1, <1>2 DEF Permitted, States, Unlimited

\* Revocations and transfers of an NFT use a nonce and leave no allowance.
LEMMA EndedType ==
  ASSUME NEW t \in States
  PROVE  /\ Revoked(t) \in States /\ Revoked(t).nonce = t.nonce + 1 /\ Revoked(t).allowance = 0
         /\ Handed(t) \in States /\ Handed(t).nonce = t.nonce + 1 /\ Handed(t).allowance = 0
BY WidthAssumption DEF Revoked, Handed, States

\* Every package of the log is signed, and remains so when more are.
LEMMA SignedGrows ==
  ASSUME TypeOK, signed \subseteq signed', rescued' = rescued
  PROVE  rescued' \in Seq(signed')
<1>1. Len(rescued) \in Nat /\ rescued \in [1 .. Len(rescued) -> signed]
  BY DEF TypeOK
<1>2. rescued \in [1 .. Len(rescued) -> signed']
  BY <1>1
<1> QED
  BY <1>1, <1>2

\* A settlement adds its package to the log.
LEMMA LogGrows ==
  ASSUME TypeOK, NEW r \in signed, Consume(r)
  PROVE  /\ rescued' \in Seq(signed')
         /\ DOMAIN rescued' = DOMAIN rescued \cup {Len(rescued) + 1}
         /\ DOMAIN rescued = 1 .. Len(rescued) /\ Len(rescued) \in Nat
         /\ \A i \in DOMAIN rescued : rescued'[i] = rescued[i]
         /\ rescued'[Len(rescued) + 1] = r
         /\ \A s : IsSettled(s)' <=> IsSettled(s) \/ s = r
<1>1. rescued \in Seq(signed) /\ rescued' = Append(rescued, r) /\ signed' = signed
  BY DEF TypeOK, Consume
<1>2. /\ rescued' \in Seq(signed') /\ Len(rescued') = Len(rescued) + 1
      /\ \A i \in 1 .. Len(rescued) : rescued'[i] = rescued[i]
      /\ rescued'[Len(rescued) + 1] = r
  BY <1>1, AppendProperties
<1>3. /\ DOMAIN rescued = 1 .. Len(rescued) /\ Len(rescued) \in Nat
      /\ DOMAIN rescued' = 1 .. Len(rescued) + 1
  BY <1>1, <1>2
<1>4. DOMAIN rescued' = DOMAIN rescued \cup {Len(rescued) + 1}
  BY <1>3
<1>5. \A i \in DOMAIN rescued : rescued'[i] = rescued[i]
  BY <1>2, <1>3
<1>6. \A s : IsSettled(s)' <=> IsSettled(s) \/ s = r
  BY <1>2, <1>4, <1>5 DEF IsSettled
<1> QED
  BY <1>2, <1>3, <1>4, <1>5, <1>6

\* What an accepted settlement does to the state, whatever the standard: nothing of
\* the allowance is left, and where no nonce was used something was allowed before.
LEMMA SettleChanges ==
  ASSUME TypeOK, NEW r \in signed, Settle(r)
  PROVE  /\ r \in Rescue /\ r.asset \in Assets /\ Authorized(r)
         /\ r.amount <= holding[r.asset][Source]
         /\ Arriving(r.asset, r.amount) = r.amount
         /\ nonce' \in [Assets -> Nat] /\ allowance' \in [Assets -> 0 .. MaxUint]
         /\ allowance'[r.asset] = 0
         /\ \A b \in Assets : b # r.asset => nonce'[b] = nonce[b] /\ allowance'[b] = allowance[b]
         /\ \/ nonce'[r.asset] > nonce[r.asset]
            \/ /\ nonce'[r.asset] = nonce[r.asset] /\ allowance[r.asset] # 0
               /\ Standard[r.asset] # "ERC4494"
               /\ \/ nonce[r.asset] = r.nonce + 1
                  \/ (nonce[r.asset] = r.nonce /\ Standard[r.asset] = "ERC2612")
         /\ Consume(r)
<1> DEFINE t == Token(r.asset)
<1>1. /\ r \in Rescue /\ r.asset \in Assets /\ r.amount \in 1 .. MaxUint /\ r.nonce \in Nat
      /\ t \in States /\ t.nonce = nonce[r.asset] /\ t.allowance = allowance[r.asset]
      /\ nonce[r.asset] \in Nat
  BY TokenType DEF TypeOK, Rescue, Token
<1>2. ASSUME NEW genuine \in BOOLEAN, AtOrNext(r)
      PROVE  /\ Granted(r, genuine) \in States
             /\ \/ Granted(r, genuine) = t
                \/ (nonce[r.asset] = r.nonce /\ Granted(r, genuine) = Permitted(r, t))
  BY <1>1, PermittedType DEF Granted
<1>3. ASSUME NEW g \in States, r.amount <= g.allowance
      PROVE  Spent(g, r.amount) \in States /\ Spent(g, r.amount).nonce = g.nonce
  <2>1. g.allowance \in 0 .. MaxUint /\ g.allowance - r.amount \in 0 .. MaxUint
    BY <1>1, <1>3, WidthAssumption DEF States
  <2> QED
    BY <2>1 DEF Spent, States
<1>4. CASE \E genuine \in BOOLEAN : SettleERC2612(r, genuine)
  <2>1. PICK genuine \in BOOLEAN : SettleERC2612(r, genuine)
    BY <1>4
  <2> DEFINE g == Granted(r, genuine)
  <2>2. /\ Standard[r.asset] = "ERC2612" /\ Authorized(r) /\ PaysExactly(r) /\ Consume(r)
        /\ AtOrNext(r) /\ g.allowance = r.amount
        /\ Spent(g, r.amount).allowance = 0 /\ Becomes(r.asset, Spent(g, r.amount))
    BY <2>1 DEF SettleERC2612, OpenERC2612, NothingIn
  <2>3. g \in States /\ (g = t \/ (nonce[r.asset] = r.nonce /\ g = Permitted(r, t)))
    BY <2>2, <1>2
  <2>4. r.amount <= g.allowance
    BY <1>1, <2>2
  <2>5. Spent(g, r.amount) \in States /\ Spent(g, r.amount).nonce = g.nonce
    BY <1>3, <2>3, <2>4
  <2>6. /\ nonce' \in [Assets -> Nat] /\ allowance' \in [Assets -> 0 .. MaxUint]
        /\ nonce'[r.asset] = g.nonce /\ allowance'[r.asset] = 0
        /\ \A b \in Assets : b # r.asset => nonce'[b] = nonce[b] /\ allowance'[b] = allowance[b]
    BY <1>1, <2>2, <2>5, BecomesType
  <2>7. CASE g = t
    BY <1>1, <2>2, <2>6, <2>7 DEF PaysExactly, AtOrNext, IsNextNonce
  <2>8. CASE g = Permitted(r, t)
    <3>1. nonce'[r.asset] > nonce[r.asset]
      BY <1>1, <2>2, <2>6, <2>8, PermittedType DEF States
    <3> QED
      BY <1>1, <2>2, <2>6, <3>1 DEF PaysExactly
  <2> QED
    BY <2>3, <2>7, <2>8
<1>5. CASE SettleDai(r)
  <2> DEFINE g == Granted(r, TRUE)
             left == Spent(g, r.amount)
             final == IF NothingIn(left) THEN left ELSE Revoked(left)
  <2>1. /\ Standard[r.asset] = "DAI" /\ Authorized(r) /\ PaysExactly(r) /\ Consume(r)
        /\ AtOrNext(r) /\ g.allowance >= r.amount
        /\ NothingIn(final) /\ Becomes(r.asset, final)
    BY <1>5 DEF SettleDai, OpenDai
  <2>2. g \in States /\ (g = t \/ (nonce[r.asset] = r.nonce /\ g = Permitted(r, t)))
    BY <2>1, <1>2
  <2>3. r.amount <= g.allowance
    BY <1>1, <2>1, <2>2 DEF States
  <2>4. left \in States /\ left.nonce = g.nonce
    BY <1>3, <2>2, <2>3
  <2>5. Revoked(left) \in States /\ Revoked(left).nonce = left.nonce + 1
    BY <2>4, EndedType
  <2>6. final \in States /\ (final.nonce = g.nonce \/ final.nonce = g.nonce + 1)
    BY <2>4, <2>5
  <2>7. /\ nonce' \in [Assets -> Nat] /\ allowance' \in [Assets -> 0 .. MaxUint]
        /\ nonce'[r.asset] = final.nonce /\ allowance'[r.asset] = 0
        /\ \A b \in Assets : b # r.asset => nonce'[b] = nonce[b] /\ allowance'[b] = allowance[b]
    <3> HIDE DEF final
    <3>1. final.allowance = 0
      BY <2>1 DEF NothingIn
    <3> QED
      BY <1>1, <2>1, <2>6, <3>1, BecomesType
  <2>8. CASE g = t
    <3>1. allowance[r.asset] # 0
      <4>1. r.amount <= t.allowance
        BY <2>3, <2>8
      <4> QED
        BY <1>1, <4>1
    <3>2. nonce[r.asset] = r.nonce + 1
      <4>1. ASSUME nonce[r.asset] = r.nonce PROVE FALSE
        <5>1. t = Permitted(r, t)
          BY <1>1, <2>8, <4>1 DEF Granted
        <5> QED
          BY <1>1, <2>1, <5>1, PermittedType DEF States
      <4> QED
        BY <2>1, <4>1 DEF AtOrNext, IsNextNonce
    <3>3. nonce'[r.asset] = nonce[r.asset] \/ nonce'[r.asset] > nonce[r.asset]
      <4>1. g.nonce = nonce[r.asset]
        BY <1>1, <2>8
      <4> HIDE DEF final, g
      <4> QED
        BY <1>1, <2>6, <2>7, <4>1
    <3> QED
      BY <1>1, <2>1, <2>7, <3>1, <3>2, <3>3 DEF PaysExactly
  <2>9. CASE g = Permitted(r, t)
    <3>1. nonce'[r.asset] > nonce[r.asset]
      <4>1. g.nonce = nonce[r.asset] + 1
        BY <1>1, <2>1, <2>9, PermittedType
      <4> HIDE DEF final, g
      <4> QED
        BY <1>1, <2>6, <2>7, <4>1
    <3> QED
      BY <1>1, <2>1, <2>7, <3>1 DEF PaysExactly
  <2> QED
    BY <2>2, <2>8, <2>9
<1>6. CASE SettleERC4494(r)
  <2>1. Arriving(r.asset, r.amount) = r.amount /\ r.amount <= holding[r.asset][Source]
    BY <1>6 DEF SettleERC4494, OpenERC4494, Arriving
  <2>2. /\ Standard[r.asset] = "ERC4494" /\ Authorized(r) /\ Consume(r)
        /\ Becomes(r.asset, Handed(Permitted(r, t)))
    BY <1>6 DEF SettleERC4494
  <2>3. Permitted(r, t) \in States /\ Permitted(r, t).nonce = t.nonce
    BY <1>1, <2>2, PermittedType DEF States
  <2>4. /\ Handed(Permitted(r, t)) \in States
        /\ Handed(Permitted(r, t)).nonce = t.nonce + 1 /\ Handed(Permitted(r, t)).allowance = 0
    BY <2>3, EndedType
  <2>5. /\ nonce' \in [Assets -> Nat] /\ allowance' \in [Assets -> 0 .. MaxUint]
        /\ nonce'[r.asset] = t.nonce + 1 /\ allowance'[r.asset] = 0
        /\ \A b \in Assets : b # r.asset => nonce'[b] = nonce[b] /\ allowance'[b] = allowance[b]
    BY <1>1, <2>2, <2>4, BecomesType
  <2>6. nonce'[r.asset] > nonce[r.asset]
    BY <1>1, <2>5 DEF States
  <2> QED
    BY <1>1, <2>1, <2>2, <2>5, <2>6
<1> QED
  BY <1>4, <1>5, <1>6 DEF Settle

-----------------------------------------------------------------------------
(* The inductive invariant                                                 *)

\* The packages whose permit may account for what the contract may take.
Owing(a) == {r \in signed : r.asset = a /\ ~IsSettled(r) /\ MayHaveGranted(r)}

\* No package is signed ahead of its token's permit nonce.
NoncesRise == \A r \in signed : r.nonce <= nonce[r.asset]

\* What may be taken of an asset is owed to a package, and a settled package whose
\* permit is still good leaves another one owed, which its settlement did not use.
Covered(a) ==
  /\ allowance[a] # 0 => Owing(a) # {}
  /\ \A x \in signed : x.asset = a /\ x.nonce = nonce[a] /\ IsSettled(x) =>
       Standard[a] = "ERC2612" /\ allowance[a] = 0 /\ Owing(a) # {}

Inv == /\ TypeOK /\ OncePerNonce /\ NoncesRise
       /\ \A a \in Assets \ approved : Covered(a)

\* A new wallet has signed nothing.
LEMMA InitInv == Init => Inv
<1> SUFFICES ASSUME Init PROVE Inv
  OBVIOUS
<1>1. TypeOK
  <2>1. holding \in [Assets -> [Accounts -> Nat]]
    BY AssetAssumption DEF Init
  <2>2. allowance \in [Assets -> 0 .. MaxUint]
    BY WidthAssumption DEF Init
  <2>3. rescued \in Seq(signed)
    BY DEF Init
  <2> QED
    BY <2>1, <2>2, <2>3 DEF Init, TypeOK, Accounts
<1>2. DOMAIN rescued = {}
  BY DEF Init
<1>3. OncePerNonce
  BY <1>2 DEF Init, OncePerNonce
<1> QED
  BY <1>1, <1>3 DEF Init, Inv, NoncesRise, Covered

\* An asset stays covered while its token, and what is settled of it, do not change.
LEMMA StaysCovered ==
  ASSUME TypeOK, NEW a \in Assets, Covered(a),
         nonce'[a] = nonce[a], allowance'[a] = allowance[a] \/ allowance'[a] = 0,
         signed \subseteq signed',
         \A s \in signed' : s.asset = a => (IsSettled(s)' <=> IsSettled(s))
  PROVE  Covered(a)'
<1>1. \A s : IsSettled(s) => s \in signed
  BY DEF IsSettled, TypeOK
<1>2. ASSUME NEW s \in Owing(a) PROVE s \in Owing(a)'
  BY <1>2 DEF Owing, MayHaveGranted
<1>3. Owing(a) # {} => Owing(a)' # {}
  BY <1>2
<1> QED
  BY <1>1, <1>3 DEF Covered

\* A used permit nonce leaves no settled package with a good permit.
LEMMA AdvancesCovered ==
  ASSUME TypeOK, NoncesRise, NEW a \in Assets, nonce' \in [Assets -> Nat],
         nonce'[a] > nonce[a], signed' = signed,
         allowance'[a] # 0 => Owing(a)' # {}
  PROVE  Covered(a)'
<1>1. \A x \in signed : x.asset = a => x.nonce # nonce'[a]
  <2> SUFFICES ASSUME NEW x \in signed, x.asset = a PROVE x.nonce # nonce'[a]
    OBVIOUS
  <2>1. x.nonce \in Nat /\ x.nonce <= nonce[a] /\ nonce[a] \in Nat /\ nonce'[a] \in Nat
    BY DEF TypeOK, Rescue, NoncesRise
  <2> QED
    BY <2>1
<1> QED
  BY <1>1 DEF Covered

\* A settlement leaves its asset covered, and the others as they were.
LEMMA SettleCovers ==
  ASSUME Inv, NEW r \in signed, Settle(r), NEW a \in Assets \ approved
  PROVE  Covered(a)'
<1>1. TypeOK /\ NoncesRise /\ Covered(a) /\ a \in Assets
  BY DEF Inv
<1>2. /\ r \in Rescue /\ Consume(r)
      /\ nonce' \in [Assets -> Nat]
      /\ allowance'[r.asset] = 0
      /\ a # r.asset => nonce'[a] = nonce[a] /\ allowance'[a] = allowance[a]
      /\ \/ nonce'[r.asset] > nonce[r.asset]
         \/ /\ nonce'[r.asset] = nonce[r.asset] /\ allowance[r.asset] # 0
            /\ Standard[r.asset] # "ERC4494"
            /\ \/ nonce[r.asset] = r.nonce + 1
               \/ (nonce[r.asset] = r.nonce /\ Standard[r.asset] = "ERC2612")
  BY <1>1, SettleChanges
<1>3. signed' = signed /\ \A s : IsSettled(s)' <=> IsSettled(s) \/ s = r
  BY <1>1, <1>2, LogGrows DEF Consume
<1>4. CASE a # r.asset
  <2>1. \A s \in signed' : s.asset = a => (IsSettled(s)' <=> IsSettled(s))
    BY <1>3, <1>4
  <2> QED
    BY <1>1, <1>2, <1>3, <1>4, <2>1, StaysCovered
<1>5. CASE a = r.asset /\ nonce'[a] > nonce[a]
  BY <1>1, <1>2, <1>3, <1>5, AdvancesCovered
<1>6. CASE a = r.asset /\ nonce'[a] = nonce[a]
  <2>1. /\ allowance[a] # 0 /\ allowance'[a] = 0 /\ Standard[a] # "ERC4494"
        /\ nonce[a] \in Nat /\ r.nonce \in Nat
        /\ nonce[a] = r.nonce + 1 \/ (nonce[a] = r.nonce /\ Standard[a] = "ERC2612")
    BY <1>1, <1>2, <1>6 DEF TypeOK, Rescue
  <2>2. \A x \in signed : x.asset = a /\ x.nonce = nonce[a] => ~IsSettled(x)
    BY <1>1, <2>1 DEF Covered
  <2>3. CASE nonce[a] = r.nonce + 1
    BY <1>3, <1>6, <2>1, <2>2, <2>3 DEF Covered
  <2>4. CASE nonce[a] = r.nonce /\ Standard[a] = "ERC2612"
    <3>1. PICK w \in Owing(a) : TRUE
      BY <1>1, <2>1 DEF Covered
    <3>2. w \in signed /\ w.asset = a /\ ~IsSettled(w) /\ w.nonce < nonce[a] /\ w.nonce \in Nat
      BY <1>1, <2>1, <3>1 DEF Owing, MayHaveGranted, TypeOK, Rescue
    <3>3. w # r
      BY <2>1, <2>4, <3>2
    <3>4. w \in Owing(a)'
      BY <1>3, <1>6, <2>4, <3>2, <3>3 DEF Owing, MayHaveGranted
    <3> QED
      BY <2>1, <2>4, <3>4 DEF Covered
  <2> QED
    BY <2>1, <2>3, <2>4
<1> QED
  BY <1>1, <1>2, <1>4, <1>5, <1>6

\* Whoever submits the permit of a package: the package is owed what it grants, or
\* is settled and leaves another one owed.
LEMMA PermitCovers ==
  ASSUME Inv, NEW r \in signed, Permit(r), NEW a \in Assets \ approved
  PROVE  Covered(a)'
<1> DEFINE t == Token(r.asset)
<1>1. TypeOK /\ NoncesRise /\ Covered(a) /\ a \in Assets
  BY DEF Inv
<1>2. /\ r \in Rescue /\ r.asset \in Assets /\ r.nonce = nonce[r.asset]
      /\ t \in States /\ t.nonce = nonce[r.asset]
  BY <1>1, TokenType DEF TypeOK, Rescue, Permit, Token
<1>3. /\ nonce' \in [Assets -> Nat]
      /\ Standard[r.asset] = "ERC4494" => nonce'[r.asset] = nonce[r.asset]
      /\ Standard[r.asset] # "ERC4494" => nonce'[r.asset] = nonce[r.asset] + 1
      /\ a # r.asset => nonce'[a] = nonce[a] /\ allowance'[a] = allowance[a]
  <2>1. Becomes(r.asset, Permitted(r, t)) /\ Permitted(r, t) \in States
    BY <1>2, PermittedType DEF Permit
  <2>2. nonce' \in [Assets -> Nat] /\ nonce'[r.asset] = Permitted(r, t).nonce
        /\ (a # r.asset => nonce'[a] = nonce[a] /\ allowance'[a] = allowance[a])
    BY <1>1, <1>2, <2>1, BecomesType
  <2>3. Standard[r.asset] = "ERC4494" => Permitted(r, t).nonce = t.nonce
    BY <1>2, PermittedType DEF States
  <2> QED
    BY <1>2, <2>2, <2>3, PermittedType
<1>4. signed' = signed /\ \A s : IsSettled(s)' <=> IsSettled(s)
  BY DEF Permit, IsSettled
<1>5. CASE a # r.asset
  BY <1>1, <1>3, <1>4, <1>5, StaysCovered
<1>6. CASE a = r.asset /\ Standard[a] # "ERC4494"
  <2>1. nonce[a] \in Nat /\ nonce'[a] = nonce[a] + 1 /\ r.nonce \in Nat
    BY <1>1, <1>2, <1>3, <1>6 DEF TypeOK, Rescue
  <2>2. Owing(a)' # {}
    <3>1. CASE ~IsSettled(r)
      <4>1. r \in Owing(a)'
        BY <1>2, <1>4, <1>6, <2>1, <3>1 DEF Owing, MayHaveGranted
      <4> QED
        BY <4>1
    <3>2. CASE IsSettled(r)
      <4>1. PICK w \in Owing(a) : TRUE
        BY <1>1, <1>2, <1>6, <3>2 DEF Covered
      <4>2. w \in signed /\ w.asset = a /\ ~IsSettled(w) /\ w.nonce < nonce[a] /\ w.nonce \in Nat
        BY <1>1, <1>6, <4>1 DEF Owing, MayHaveGranted, TypeOK, Rescue
      <4>3. w \in Owing(a)'
        BY <1>4, <1>6, <2>1, <4>2 DEF Owing, MayHaveGranted
      <4> QED
        BY <4>3
    <3> QED
      BY <3>1, <3>2
  <2> QED
    BY <1>1, <1>3, <1>4, <2>1, <2>2, AdvancesCovered
<1>7. CASE a = r.asset /\ Standard[a] = "ERC4494"
  <2>1. ~IsSettled(r) /\ nonce'[a] = nonce[a]
    BY <1>1, <1>2, <1>3, <1>7 DEF Covered
  <2>2. r \in Owing(a)'
    BY <1>2, <1>4, <1>7, <2>1 DEF Owing, MayHaveGranted
  <2> QED
    BY <1>1, <1>4, <1>7, <2>1, <2>2 DEF Covered
<1> QED
  BY <1>5, <1>6, <1>7

\* Transactions and deadlines that leave the packages alone: types, nonces and rescue
\* nonces hold with the token's new state.
LEMMA OthersKeep ==
  ASSUME Inv, UNCHANGED <<signed, used, rescued>>, late' \subseteq signed,
         holding' \in [Assets -> [Accounts -> Nat]],
         nonce' \in [Assets -> Nat], allowance' \in [Assets -> 0 .. MaxUint],
         \A a \in Assets : nonce'[a] >= nonce[a],
         mover' \in Accounts \cup {Settlement}, approved' \subseteq Assets,
         \A a \in Assets \ approved' : Covered(a)'
  PROVE  Inv'
<1>1. TypeOK' /\ OncePerNonce'
  BY DEF Inv, TypeOK, OncePerNonce
<1>2. NoncesRise'
  <2> SUFFICES ASSUME NEW r \in signed PROVE r.nonce <= nonce'[r.asset]
    BY DEF NoncesRise
  <2>1. r.asset \in Assets /\ r.nonce \in Nat /\ r.nonce <= nonce[r.asset]
    BY DEF Inv, TypeOK, Rescue, NoncesRise
  <2>2. nonce[r.asset] \in Nat /\ nonce'[r.asset] \in Nat /\ nonce'[r.asset] >= nonce[r.asset]
    BY <2>1 DEF Inv, TypeOK
  <2> QED
    BY <2>1, <2>2
<1> QED
  BY <1>1, <1>2 DEF Inv

\* One token's transaction: its nonce grows or stays, with what it leaves covered.
LEMMA TokenKeeps ==
  ASSUME Inv, UNCHANGED <<signed, late, used, rescued>>,
         holding' \in [Assets -> [Accounts -> Nat]],
         NEW a \in Assets, NEW t \in States, Becomes(a, t),
         t.nonce >= nonce[a],
         mover' \in Accounts \cup {Settlement},
         approved \subseteq approved', approved' \subseteq Assets,
         a \notin approved' => Covered(a)'
  PROVE  Inv'
<1>1. /\ nonce' \in [Assets -> Nat] /\ allowance' \in [Assets -> 0 .. MaxUint]
      /\ nonce'[a] = t.nonce
      /\ \A b \in Assets : b # a => nonce'[b] = nonce[b] /\ allowance'[b] = allowance[b]
  BY BecomesType DEF Inv
<1>2. \A s : IsSettled(s)' <=> IsSettled(s)
  BY DEF IsSettled
<1>3. ASSUME NEW b \in Assets \ approved' PROVE Covered(b)'
  <2>1. CASE b = a
    BY <1>3, <2>1
  <2>2. CASE b # a
    <3>1. Covered(b) /\ nonce'[b] = nonce[b] /\ allowance'[b] = allowance[b]
      BY <1>1, <1>3, <2>2 DEF Inv
    <3> QED
      BY <1>2, <1>3, <3>1, StaysCovered DEF Inv
  <2> QED
    BY <2>1, <2>2
<1>4. \A b \in Assets : nonce'[b] >= nonce[b]
  <2> SUFFICES ASSUME NEW b \in Assets PROVE nonce'[b] >= nonce[b]
    OBVIOUS
  <2>1. nonce[b] \in Nat /\ (b # a => nonce'[b] = nonce[b])
    BY <1>1 DEF Inv, TypeOK
  <2> QED
    BY <1>1, <2>1
<1>5. late' \subseteq signed
  BY DEF Inv, TypeOK
<1> QED
  BY <1>1, <1>3, <1>4, <1>5, OthersKeep

\* Every transaction keeps the invariant.
LEMMA StepInv == Inv /\ [Next]_vars => Inv'
<1> SUFFICES ASSUME Inv, [Next]_vars PROVE Inv'
  OBVIOUS
<1>0. TypeOK /\ OncePerNonce /\ NoncesRise /\ \A a \in Assets \ approved : Covered(a)
  BY DEF Inv
<1>01. /\ holding \in [Assets -> [Accounts -> Nat]] /\ nonce \in [Assets -> Nat]
       /\ mover \in Accounts \cup {Settlement} /\ approved \subseteq Assets
  BY <1>0 DEF TypeOK
<1>1. ASSUME NEW r \in Offers, Sign(r) PROVE Inv'
  <2>1. r \in Rescue
    BY <1>01, <1>1, WidthAssumption DEF Offers, Rescue, Sign
  <2>2. signed \subseteq signed' /\ rescued' \in Seq(signed') /\ \A s : IsSettled(s)' <=> IsSettled(s)
    BY <1>0, <1>1, SignedGrows DEF Sign, IsSettled
  <2>3. TypeOK' /\ OncePerNonce'
    BY <1>0, <1>1, <2>1, <2>2 DEF Sign, TypeOK, OncePerNonce
  <2>4. NoncesRise'
    BY <1>0, <1>1, <2>1 DEF Sign, NoncesRise, TypeOK, Rescue
  <2>5. ASSUME NEW a \in Assets \ approved' PROVE Covered(a)'
    BY <1>0, <1>1, <2>2, <2>5, StaysCovered DEF Sign
  <2> QED
    BY <2>3, <2>4, <2>5 DEF Inv
<1>2. ASSUME NEW r \in signed, Elapse(r) PROVE Inv'
  <2>1. \A s : IsSettled(s)' <=> IsSettled(s)
    BY <1>2 DEF Elapse, IsSettled
  <2>2. ASSUME NEW a \in Assets \ approved' PROVE Covered(a)'
    BY <1>0, <1>2, <2>1, <2>2, StaysCovered DEF Elapse
  <2>3. \A a \in Assets : nonce'[a] >= nonce[a]
    BY <1>0, <1>2 DEF Elapse, TypeOK
  <2> QED
    BY <1>0, <1>2, <2>2, <2>3, OthersKeep DEF Elapse, TypeOK
<1>3. ASSUME NEW r \in signed, Permit(r) PROVE Inv'
  <2> DEFINE t == Token(r.asset)
  <2>1. /\ r \in Rescue /\ r.asset \in Assets /\ t \in States /\ t.nonce = nonce[r.asset]
        /\ nonce[r.asset] \in Nat
    BY <1>0, TokenType DEF TypeOK, Rescue, Token
  <2>2. Standard[r.asset] = "ERC4494" => Permitted(r, t).nonce = t.nonce
    BY <2>1, PermittedType DEF States
  <2>3. Permitted(r, t) \in States /\ Permitted(r, t).nonce >= nonce[r.asset]
    BY <2>1, <2>2, PermittedType
  <2>4. r.asset \notin approved' => Covered(r.asset)'
    BY <1>3, <2>1, PermitCovers DEF Permit
  <2>5. /\ UNCHANGED <<holding, signed, late, used, rescued, mover, approved>>
        /\ Becomes(r.asset, Permitted(r, t))
    BY <1>3 DEF Permit
  <2> HIDE DEF t
  <2> QED
    BY <1>01, <2>1, <2>3, <2>4, <2>5, TokenKeeps
<1>4. ASSUME NEW r \in signed, Revoke(r) PROVE Inv'
  <2> DEFINE a == r.asset
             t == Revoked(Token(a))
  <2>1. /\ a \in Assets /\ nonce[a] \in Nat
        /\ t \in States /\ t.nonce = nonce[a] + 1 /\ t.nonce >= nonce[a] /\ t.allowance = 0
    BY <1>0, TokenType, EndedType DEF TypeOK, Rescue, Token
  <2>2. UNCHANGED <<holding, signed, late, used, rescued, mover, approved>> /\ Becomes(a, t)
    BY <1>4 DEF Revoke
  <2>3. Covered(a)'
    <3>1. nonce' \in [Assets -> Nat] /\ nonce'[a] > nonce[a] /\ allowance'[a] = 0
      BY <1>0, <2>1, <2>2, BecomesType
    <3> QED
      BY <1>0, <2>1, <2>2, <3>1, AdvancesCovered
  <2> HIDE DEF a, t
  <2> QED
    BY <1>01, <2>1, <2>2, <2>3, TokenKeeps
<1>5. ASSUME NEW r \in signed, Settle(r) PROVE Inv'
  <2>1. /\ r \in Rescue /\ r.asset \in Assets /\ Authorized(r)
        /\ r.amount <= holding[r.asset][Source]
        /\ nonce' \in [Assets -> Nat] /\ allowance' \in [Assets -> 0 .. MaxUint]
        /\ \A b \in Assets : b # r.asset => nonce'[b] = nonce[b]
        /\ nonce'[r.asset] > nonce[r.asset] \/ nonce'[r.asset] = nonce[r.asset]
        /\ Consume(r)
    BY <1>0, <1>5, SettleChanges
  <2>2. r.dest \in Others /\ r.amount \in Nat /\ r.rescue \in RescueNonces
    BY <2>1 DEF Rescue
  <2>3. holding' \in [Assets -> [Accounts -> Nat]]
    BY <1>0, <2>1, <2>2, PaidType, AccountAssumption DEF TypeOK, Accounts, Consume
  <2>4. /\ rescued' \in Seq(signed')
        /\ DOMAIN rescued' = DOMAIN rescued \cup {Len(rescued) + 1}
        /\ \A i \in DOMAIN rescued : rescued'[i] = rescued[i]
        /\ rescued'[Len(rescued) + 1] = r
    BY <1>0, <2>1, LogGrows
  <2>5. TypeOK'
    BY <1>0, <2>1, <2>2, <2>3, <2>4 DEF TypeOK, Consume
  <2>6. OncePerNonce'
    <3>1. used' = {rescued'[i].rescue : i \in DOMAIN rescued'}
      <4>1. used' = used \cup {r.rescue}
        BY <2>1 DEF Consume
      <4> QED
        BY <1>0, <2>4, <4>1 DEF OncePerNonce
    <3>2. \A i \in DOMAIN rescued : rescued[i].rescue # r.rescue
      BY <1>0, <2>1 DEF OncePerNonce, Authorized
    <3> QED
      BY <1>0, <2>4, <3>1, <3>2 DEF OncePerNonce
  <2>7. NoncesRise'
    <3> SUFFICES ASSUME NEW s \in signed PROVE s.nonce <= nonce'[s.asset]
      BY <2>1 DEF NoncesRise, Consume
    <3>1. s.asset \in Assets /\ s.nonce \in Nat /\ nonce[s.asset] \in Nat /\ s.nonce <= nonce[s.asset]
      BY <1>0 DEF TypeOK, Rescue, NoncesRise
    <3> QED
      BY <2>1, <3>1
  <2>8. \A a \in Assets \ approved' : Covered(a)'
    BY <1>5, <2>1, SettleCovers DEF Consume
  <2> QED
    BY <2>5, <2>6, <2>7, <2>8 DEF Inv
<1>6. ASSUME NEW a \in Assets, NEW from \in Accounts, NEW to \in Accounts,
             NEW n \in 1 .. MaxUint - 1, Transfer(a, from, to, n)
      PROVE  Inv'
  <2>1. holding' \in [Assets -> [Accounts -> Nat]]
    <3>1. n \in Nat /\ from # to /\ n <= holding[a][from] /\ holding' = Paid(holding, a, from, to, n)
      BY <1>6, WidthAssumption DEF Transfer
    <3> QED
      BY <1>01, <3>1, PaidType
  <2>2. UNCHANGED <<signed, late, used, rescued, approved>> /\ mover' \in Accounts \cup {Settlement}
    BY <1>6 DEF Transfer
  <2>3. CASE Standard[a] = "ERC4494"
    <3> DEFINE t == Handed(Token(a))
    <3>1. t \in States /\ t.nonce = nonce[a] + 1 /\ t.nonce >= nonce[a] /\ t.allowance = 0 /\ nonce[a] \in Nat
      BY <1>0, TokenType, EndedType DEF TypeOK, Token
    <3>2. Becomes(a, t)
      BY <1>6, <2>3 DEF Transfer
    <3>3. nonce' \in [Assets -> Nat] /\ nonce'[a] > nonce[a] /\ allowance'[a] = 0
      BY <1>0, <3>1, <3>2, BecomesType
    <3>4. Covered(a)'
      BY <1>0, <2>2, <3>3, AdvancesCovered
    <3> HIDE DEF t
    <3> QED
      BY <1>01, <2>1, <2>2, <3>1, <3>2, <3>4, TokenKeeps
  <2>4. CASE Standard[a] # "ERC4494"
    <3>1. UNCHANGED <<nonce, allowance>>
      BY <1>6, <2>4 DEF Transfer
    <3>2. \A s : IsSettled(s)' <=> IsSettled(s)
      BY <2>2 DEF IsSettled
    <3>3. ASSUME NEW b \in Assets \ approved' PROVE Covered(b)'
      BY <1>0, <2>2, <3>1, <3>2, <3>3, StaysCovered
    <3>4. \A b \in Assets : nonce'[b] >= nonce[b]
      BY <1>0, <3>1 DEF TypeOK
    <3> QED
      BY <1>0, <2>1, <2>2, <3>1, <3>3, <3>4, OthersKeep DEF TypeOK
  <2> QED
    BY <2>3, <2>4
<1>7. ASSUME NEW a \in Assets, NEW n \in Approvals, Approve(a, n) PROVE Inv'
  <2> DEFINE t == [Token(a) EXCEPT !.allowance = n]
  <2>1. t \in States /\ t.nonce = nonce[a] /\ t.nonce >= nonce[a] /\ t.allowance = n /\ nonce[a] \in Nat
    BY <1>0, TokenType, WidthAssumption DEF TypeOK, Token, States
  <2>2. /\ UNCHANGED <<holding, signed, late, used, rescued, mover>> /\ Becomes(a, t)
        /\ approved' = IF n = 0 THEN approved ELSE approved \cup {a}
    BY <1>7 DEF Approve
  <2>3. nonce'[a] = nonce[a] /\ allowance'[a] = n
    BY <1>0, <2>1, <2>2, BecomesType
  <2>4. ASSUME a \notin approved' PROVE Covered(a)'
    <3>1. Covered(a) /\ allowance'[a] = 0
      BY <1>0, <2>2, <2>3, <2>4
    <3>2. \A s : IsSettled(s)' <=> IsSettled(s)
      BY <2>2 DEF IsSettled
    <3> QED
      BY <1>0, <2>2, <2>3, <3>1, <3>2, StaysCovered
  <2> HIDE DEF t
  <2> QED
    BY <1>01, <2>1, <2>2, <2>4, TokenKeeps
<1>8. ASSUME NEW a \in Assets, PermitElsewhere(a) PROVE Inv'
  <2> DEFINE t == [Token(a) EXCEPT !.nonce = @ + 1]
  <2>1. /\ t \in States /\ t.nonce = nonce[a] + 1 /\ t.nonce >= nonce[a] /\ t.allowance = allowance[a]
        /\ nonce[a] \in Nat
    BY <1>0, TokenType DEF TypeOK, Token, States
  <2>2. /\ UNCHANGED <<holding, signed, late, used, rescued, mover, approved>> /\ Becomes(a, t)
        /\ Standard[a] # "ERC4494"
    BY <1>8 DEF PermitElsewhere
  <2>3. nonce' \in [Assets -> Nat] /\ nonce'[a] = nonce[a] + 1 /\ allowance'[a] = allowance[a]
    BY <1>0, <2>1, <2>2, BecomesType
  <2>4. ASSUME a \notin approved' PROVE Covered(a)'
    <3>1. allowance'[a] # 0 => Owing(a)' # {}
      <4> SUFFICES ASSUME allowance'[a] # 0 PROVE Owing(a)' # {}
        OBVIOUS
      <4>1. PICK w \in Owing(a) : TRUE
        BY <1>0, <2>2, <2>3, <2>4 DEF Covered
      <4>2. w \in signed /\ w.asset = a /\ ~IsSettled(w) /\ w.nonce < nonce[a] /\ w.nonce \in Nat
        BY <1>0, <2>2, <4>1 DEF Owing, MayHaveGranted, TypeOK, Rescue
      <4>3. w \in Owing(a)'
        BY <2>1, <2>2, <2>3, <4>2 DEF Owing, MayHaveGranted, IsSettled
      <4> QED
        BY <4>3
    <3> QED
      BY <1>0, <2>1, <2>2, <2>3, <3>1, AdvancesCovered
  <2> HIDE DEF t
  <2> QED
    BY <1>01, <2>1, <2>2, <2>4, TokenKeeps
<1>9. CASE UNCHANGED vars
  BY <1>9 DEF vars, Inv, TypeOK, OncePerNonce, NoncesRise, Covered, Owing, IsSettled, MayHaveGranted
<1> QED
  BY <1>1, <1>2, <1>3, <1>4, <1>5, <1>6, <1>7, <1>8, <1>9 DEF Next, Wallet

-----------------------------------------------------------------------------
(* Theorems                                                                *)

\* The wallet, the tokens and the contract keep the invariant.
THEOREM SettlementInvariance == Spec => []Inv
BY InitInv, StepInv, PTL DEF Spec

\* Every rescue nonce is used by the one settlement of the log that carries it.
THEOREM NoncesAreUsedOnce == Spec => []OncePerNonce
<1>1. Inv => OncePerNonce
  BY DEF Inv
<1> QED
  BY <1>1, SettlementInvariance, PTL

\* What the contract may take of an asset nobody approved by hand is owed to a package
\* that is not settled yet.
THEOREM SettlementTakesNoMore == Spec => []NothingLeftToTake
<1>1. Inv => NothingLeftToTake
  BY DEF Inv, Covered, Owing, NothingLeftToTake
<1> QED
  BY <1>1, SettlementInvariance, PTL

\* The contract carries out what the source signed, once per rescue nonce, and moves
\* nothing else: every settlement is a CarryOut with a fresh nonce, and what moves
\* without one its holder has moved.
THEOREM SettlementKeepsAuthority == Spec => KeepsAuthority
<1>1. Init => Authority!AuthorityInit
  BY DEF Init, Authority!AuthorityInit
<1>2. Inv /\ [Next]_vars => [Authority!AuthorityNext]_(Authority!authorityVars)
  <2> SUFFICES ASSUME Inv, [Next]_vars
               PROVE  Authority!AuthorityNext \/ UNCHANGED Authority!authorityVars
    OBVIOUS
  <2>0. /\ TypeOK /\ OncePerNonce
        /\ holding \in [Assets -> [Accounts -> Nat]]
    BY DEF Inv, TypeOK
  <2>1. ASSUME NEW r \in signed, Settle(r) PROVE Authority!CarryOut(r)
    <3>1. /\ r \in Rescue /\ Authorized(r)
          /\ r.amount <= holding[r.asset][Source]
          /\ Arriving(r.asset, r.amount) = r.amount
          /\ Consume(r)
      BY <2>0, <2>1, SettleChanges
    <3>2. \A i \in DOMAIN rescued : rescued[i].rescue # r.rescue
      BY <2>0, <3>1 DEF Authorized, OncePerNonce
    <3>3. holding' = Authority!Moved(holding, r.asset, r.dest, r.amount)
      BY <3>1 DEF Consume, Paid, Pay, Authority!Moved, Authority!Given
    <3> QED
      BY <3>1, <3>2, <3>3 DEF Consume, Authority!CarryOut
  <2>2. ASSUME NEW a \in Assets, NEW from \in Accounts, NEW to \in Accounts,
               NEW n \in 1 .. MaxUint - 1, Transfer(a, from, to, n)
        PROVE  Authority!Move
    <3>1. /\ from # to /\ n \in Nat /\ n <= holding[a][from]
          /\ holding' = Paid(holding, a, from, to, n)
          /\ mover' = from /\ UNCHANGED <<signed, rescued>>
      BY <2>2, WidthAssumption DEF Transfer
    <3>2. mover' # Settlement
      BY <3>1, AccountAssumption
    <3>3. ASSUME NEW b \in DOMAIN holding, NEW x \in DOMAIN holding[b],
                 holding'[b][x] < holding[b][x]
          PROVE  x = mover'
      <4>1. b \in Assets /\ x \in Accounts /\ holding[b] \in [Accounts -> Nat]
        BY <2>0, <3>3
      <4>2. holding'[b] = IF b = a THEN Pay(holding[a], a, from, to, n) ELSE holding[b]
        BY <2>0, <3>1, <4>1 DEF Paid
      <4>3. CASE b # a
        BY <3>3, <4>1, <4>2, <4>3
      <4>4. CASE b = a /\ x = to
        <5>1. holding'[b][x] = holding[b][x] + Arriving(a, n)
          BY <3>1, <4>1, <4>2, <4>4 DEF Pay
        <5>2. Arriving(a, n) \in Nat
          BY <3>1 DEF Arriving
        <5> QED
          BY <3>3, <4>1, <5>1, <5>2
      <4>5. CASE b = a /\ x # to /\ x # from
        <5>1. holding'[b][x] = holding[b][x]
          BY <4>1, <4>2, <4>5 DEF Pay
        <5> QED
          BY <3>3, <4>1, <5>1
      <4> QED
        BY <3>1, <4>3, <4>4, <4>5
    <3> QED
      BY <3>1, <3>2, <3>3 DEF Authority!Move
  <2>3. ASSUME NEW r \in Offers, Sign(r) PROVE Authority!Prepare
    BY <2>3 DEF Sign, Authority!Prepare
  <2>4. ASSUME NEW r \in signed, Elapse(r) \/ Permit(r) \/ Revoke(r) PROVE Authority!Prepare
    BY <2>4 DEF Elapse, Permit, Revoke, Authority!Prepare
  <2>5. ASSUME NEW a \in Assets, (\E n \in Approvals : Approve(a, n)) \/ PermitElsewhere(a)
        PROVE  Authority!Prepare
    BY <2>5 DEF Approve, PermitElsewhere, Authority!Prepare
  <2>6. CASE UNCHANGED vars
    BY <2>6 DEF vars, Authority!authorityVars
  <2> QED
    BY <2>1, <2>2, <2>3, <2>4, <2>5, <2>6 DEF Next, Wallet, Authority!AuthorityNext
<1> QED
  BY <1>1, <1>2, SettlementInvariance, PTL DEF Spec, KeepsAuthority, Authority!AuthoritySpec

\* A permit that arrives before its package leaves the package settleable.
THEOREM EarlyPermitsAreHarmless == Spec => EarlyPermitIsTolerated
<1>1. Inv /\ [Next]_vars =>
        [\A r \in signed : Settleable(r) /\ Permit(r) => Settleable(r)']_vars
  <2> SUFFICES ASSUME Inv, NEW r \in signed, Settleable(r), Permit(r)
               PROVE  Settleable(r)'
    OBVIOUS
  <2> DEFINE a == r.asset
             t == Token(a)
             p == Permitted(r, t)
  <2>1. /\ r \in Rescue /\ a \in Assets /\ r.amount \in 1 .. MaxUint /\ r.nonce \in Nat
        /\ nonce[a] = r.nonce /\ t \in States /\ t.nonce = r.nonce /\ r.nonce # MaxUint
    BY TokenType, WidthAssumption DEF Inv, TypeOK, Rescue, Permit, Token
  <2>2. /\ UNCHANGED <<holding, signed, late, used>>
        /\ Becomes(a, p) /\ p \in States
    BY <2>1, PermittedType DEF Permit
  <2>3. nonce'[a] = p.nonce /\ allowance'[a] = p.allowance
    BY <2>1, <2>2, BecomesType DEF Inv
  <2>4. /\ Authorized(r)' /\ r.amount <= holding'[a][Source] /\ Arriving(a, r.amount) = r.amount
    BY <2>2 DEF Settleable, Authorized
  <2>5. CASE Standard[a] = "ERC2612"
    <3>1. p = [nonce |-> r.nonce + 1, allowance |-> r.amount]
      BY <2>1, <2>5 DEF Permitted
    <3>2. Token(a)' = p
      BY <2>3, <3>1 DEF Token
    <3>3. Granted(r, TRUE)' = p
      BY <2>1, <3>1, <3>2 DEF Granted
    <3>4. Granted(r, TRUE) = p
      BY <2>1 DEF Granted
    <3>5. NothingIn(Spent(p, r.amount)) /\ p.allowance = r.amount
      BY <2>5, <3>1, <3>4 DEF Settleable, OpenERC2612
    <3>6. AtOrNext(r)'
      BY <2>1, <2>3, <3>1 DEF AtOrNext, IsNextNonce
    <3>7. OpenERC2612(r, TRUE)'
      BY <3>3, <3>5, <3>6 DEF OpenERC2612
    <3> QED
      BY <2>4, <2>5, <3>7 DEF Settleable
  <2>6. CASE Standard[a] = "DAI"
    <3>1. p = [nonce |-> r.nonce + 1, allowance |-> MaxUint]
      BY <2>1, <2>6 DEF Permitted, Unlimited
    <3>2. Token(a)' = p
      BY <2>3, <3>1 DEF Token
    <3>3. Granted(r, TRUE)' = p
      BY <2>1, <3>1, <3>2 DEF Granted
    <3>4. AtOrNext(r)'
      BY <2>1, <2>3, <3>1 DEF AtOrNext, IsNextNonce
    <3>5. OpenDai(r)'
      <4>1. p.allowance = MaxUint /\ MaxUint >= r.amount
        BY <2>1, <3>1, WidthAssumption
      <4> HIDE DEF p
      <4> QED
        BY <3>3, <3>4, <4>1 DEF OpenDai
    <3> QED
      BY <2>4, <2>6, <3>5 DEF Settleable
  <2>7. CASE Standard[a] = "ERC4494"
    <3>1. p.nonce = t.nonce
      BY <2>1, <2>7, PermittedType DEF States
    <3>2. OpenERC4494(r)'
      BY <2>1, <2>2, <2>3, <2>7, <3>1 DEF Settleable, OpenERC4494
    <3> QED
      BY <2>4, <2>7, <3>2 DEF Settleable
  <2> QED
    BY <2>1, <2>5, <2>6, <2>7, AssetAssumption
<1> QED
  BY <1>1, SettlementInvariance, PTL DEF Spec, EarlyPermitIsTolerated
=============================================================================
