-------------------------- MODULE BuyerRuntimeProofs --------------------------
(***************************************************************************)
(* Proofs about BuyerRuntime, for any number of executions, any thresholds  *)
(* and any chain that replaces no block the policy counts as final.         *)
(***************************************************************************)
EXTENDS BuyerRuntime, SequenceTheorems, TLAPS

Waiting == {"receipt", "latest", "canonical", "refreshed"}
HasRead == {"latest", "canonical", "refreshed"}

\* What was read is of the block it names, as long as that block is there.
Holds(e, p, ok) == home[p].tx = e /\ (Succeeds(p) <=> ok)
ReadOf(e) == /\ run[e].receipt.n \in Nat \ {0} /\ run[e].receipt.fork <= forks
             /\ run[e].receipt.n <= Len(home)
             /\ home[run[e].receipt.n].fork = run[e].receipt.fork
                  => Holds(e, run[e].receipt.n, run[e].receipt.ok)

\* An execution whose wallet stayed on the package's chain.
Straight(e) ==
  /\ run[e].at \in Sending => wallet.chain = "home"
  /\ sent[e] # "away"
  /\ run[e].at \in Waiting => run[e].need = Confirmations
  /\ run[e].at \in HasRead => ReadOf(e)
  /\ run[e].at \in {"canonical", "refreshed"} => Final(run[e].receipt.n)
  /\ run[e].at = "refreshed" /\ run[e].canonical =>
       home[run[e].receipt.n].fork = run[e].receipt.fork
  /\ run[e].at \in {"completed", "reverted"} =>
       \E p \in 1 .. Len(home) : Final(p) /\ Holds(e, p, run[e].at = "completed")

ForksInv == \A p \in 1 .. Len(home) : home[p].fork <= forks
\* Only the source's signatures are ever executed.
HandleInv == \A e \in Executions : run[e].at \notin {"idle", "failed"} => handle # "none"
\* While signatures are collected they are the source's, and the handle is not there yet.
AuthInv == /\ authorizing.at # "ended" => handle = "none" /\ Len(authorizing.by) < Requests
           /\ authorizing.by = [i \in 1 .. Len(authorizing.by) |-> "source"]
Inv == TypeOK /\ ForksInv /\ HandleInv /\ AuthInv /\ \A e \in Executions \ strayed : Straight(e)

-----------------------------------------------------------------------------
(* The chain.                                                              *)

\* The chain never becomes shorter, and each of its blocks is kept together with
\* everything before it, or was not final and gave way to one of a newer fork.
Continues ==
  /\ Len(home') >= Len(home) /\ forks' >= forks
  /\ \A p \in 1 .. Len(home) :
       \/ \A q \in 1 .. p : home'[q] = home[q]
       \/ ~Final(p) /\ home'[p].fork > forks

\* What the arithmetic below needs of the types.
LEMMA Numbers ==
  ASSUME TypeOK
  PROVE  /\ home \in Seq(Block) /\ Len(home) \in Nat /\ forks \in Nat
         /\ MaxForks \in Nat /\ Confirmations \in Nat \ {0}
         /\ \A p \in 1 .. Len(home) : home[p] \in Block /\ home[p].fork \in Nat
         /\ \A e \in Executions : run[e].receipt.n \in Nat /\ run[e].receipt.fork \in Nat
<1>1. home \in Seq(Block) /\ forks \in 0 .. MaxForks /\ MaxForks \in Nat /\ Confirmations \in Nat \ {0}
  BY RuntimeAssumption DEF TypeOK
<1>2. \A p \in 1 .. Len(home) : home[p] \in Block
  BY <1>1
<1>4. \A b \in Block : b.fork \in Nat
  BY <1>1 DEF Block
<1>3. ASSUME NEW e \in Executions PROVE run[e].receipt.n \in Nat /\ run[e].receipt.fork \in Nat
  BY <1>1 DEF TypeOK
<1> QED BY <1>1, <1>2, <1>3, <1>4

\* A block that is added.
LEMMA MineContinues ==
  ASSUME TypeOK, ForksInv, Mine
  PROVE  home' \in Seq(Block) /\ ForksInv' /\ Continues
<1>0. home \in Seq(Block) /\ forks \in 0 .. MaxForks /\ MaxForks \in Nat
  BY RuntimeAssumption DEF TypeOK
<1>1. PICK b \in Block : home' = Append(home, b) /\ b.fork = forks /\ forks' = forks
  BY <1>0 DEF Mine, Block
<1>2. home' \in Seq(Block) /\ Len(home') = Len(home) + 1
  BY <1>0, <1>1
<1>3. \A p \in 1 .. Len(home) : home'[p] = home[p]
  BY <1>0, <1>1
<1>4. home'[Len(home) + 1] = b
  BY <1>0, <1>1
<1>5. ForksInv'
  <2> SUFFICES ASSUME NEW p \in 1 .. Len(home) + 1 PROVE home'[p].fork <= forks'
    BY <1>2 DEF ForksInv
  <2>1. CASE p = Len(home) + 1
    BY <1>0, <1>1, <1>4, <2>1
  <2>2. CASE p \in 1 .. Len(home)
    BY <1>1, <1>3, <2>2 DEF ForksInv
  <2> QED BY <1>0, <2>1, <2>2
<1>6. Continues
  BY <1>0, <1>1, <1>2, <1>3 DEF Continues
<1> QED BY <1>2, <1>5, <1>6

\* A replacement of the last blocks.
LEMMA ReorganizeContinues ==
  ASSUME TypeOK, ForksInv, Reorganize
  PROVE  home' \in Seq(Block) /\ forks' \in 0 .. MaxForks /\ ForksInv' /\ Continues
<1>b. /\ home \in Seq(Block) /\ forks \in 0 .. MaxForks /\ MaxForks \in Nat
      /\ Confirmations \in Nat \ {0}
  BY RuntimeAssumption DEF TypeOK
<1>1. forks' = forks + 1 /\ forks' \in 0 .. MaxForks
  BY <1>b DEF Reorganize
<1>0. PICK d \in 1 .. Confirmations - 1 :
        /\ d <= Len(home)
        /\ \E new \in [1 .. d -> {b \in Block : b.fork = forks + 1}] :
             home' = SubSeq(home, 1, Len(home) - d) \o new
  BY DEF Reorganize
<1>2. PICK new \in [1 .. d -> {b \in Block : b.fork = forks + 1}] :
        d <= Len(home) /\ home' = SubSeq(home, 1, Len(home) - d) \o new
  BY <1>0
<1> DEFINE kept == SubSeq(home, 1, Len(home) - d)
<1>3. kept \in Seq(Block) /\ Len(kept) = Len(home) - d
  BY <1>b, <1>2, SubSeqProperties
<1>4. \A p \in 1 .. Len(home) - d : kept[p] = home[p]
  BY <1>b, <1>2, SubSeqProperties
<1>5. new \in Seq(Block) /\ Len(new) = d
  BY <1>b, <1>2
<1> HIDE DEF kept
<1>6. home' = kept \o new
  BY <1>2 DEF kept
<1>7. home' \in Seq(Block) /\ Len(home') = Len(home)
  <2>1. home' \in Seq(Block) /\ Len(home') = Len(kept) + Len(new)
    BY <1>3, <1>5, <1>6, ConcatProperties
  <2> QED BY <1>2, <1>3, <1>5, <2>1, Numbers
<1>c. \A i \in 1 .. Len(kept) + Len(new) :
        (kept \o new)[i] = IF i <= Len(kept) THEN kept[i] ELSE new[i - Len(kept)]
  BY <1>3, <1>5, ConcatProperties, Zenon
<1>8. \A p \in 1 .. Len(home) - d : home'[p] = home[p]
  BY <1>b, <1>2, <1>3, <1>4, <1>5, <1>6, <1>c
<1>9. ASSUME NEW p \in Len(home) - d + 1 .. Len(home) PROVE home'[p].fork = forks + 1
  <2>a. /\ Len(home) \in Nat /\ p \in Int /\ d \in Int
        /\ p >= Len(home) - d + 1 /\ p <= Len(home) /\ d <= Len(home)
    BY <1>b, <1>2
  <2>b. /\ p \in 1 .. Len(kept) + Len(new) /\ ~(p <= Len(kept))
        /\ p - (Len(home) - d) \in 1 .. d
    BY <1>3, <1>5, <2>a
  <2>d. (kept \o new)[p] = new[p - Len(kept)]
    BY <1>c, <2>b
  <2>1. home'[p] = new[p - (Len(home) - d)] /\ p - (Len(home) - d) \in 1 .. d
    BY <1>3, <1>6, <2>b, <2>d
  <2> QED BY <1>2, <2>1
<1>10. ForksInv'
  <2> SUFFICES ASSUME NEW p \in 1 .. Len(home) PROVE home'[p].fork <= forks'
    BY <1>7 DEF ForksInv
  <2>1. CASE p \in 1 .. Len(home) - d
    <3>1. home[p].fork <= forks /\ home[p].fork \in Int /\ home'[p] = home[p]
      BY <1>2, <1>8, <2>1, Numbers DEF ForksInv
    <3> QED BY <1>b, <1>1, <3>1
  <2>2. CASE p \in Len(home) - d + 1 .. Len(home)
    BY <1>b, <1>1, <1>9, <2>2
  <2> QED BY <1>b, <1>2, <2>1, <2>2
<1>11. Continues
  <2> SUFFICES ASSUME NEW p \in 1 .. Len(home)
               PROVE  \/ \A q \in 1 .. p : home'[q] = home[q]
                      \/ ~Final(p) /\ home'[p].fork > forks
    BY <1>b, <1>1, <1>7 DEF Continues
  <2>1. CASE p \in 1 .. Len(home) - d
    BY <1>b, <1>2, <1>8, <2>1
  <2>2. CASE p \in Len(home) - d + 1 .. Len(home)
    <3>1. home'[p].fork = forks + 1 /\ Len(home) - p + 1 <= d
      BY <1>2, <1>9, <2>2, Numbers
    <3>2. Len(home) \in Nat /\ p \in Int /\ d \in Int /\ d <= Confirmations - 1
      BY <1>b
    <3>3. ~Final(p)
      BY <1>b, <3>1, <3>2 DEF Final
    <3>4. home'[p].fork > forks
      BY <1>b, <3>1
    <3> QED BY <3>3, <3>4
  <2>3. p \in 1 .. Len(home) - d \/ p \in Len(home) - d + 1 .. Len(home)
    BY <1>b
  <2> QED BY <2>1, <2>2, <2>3
<1> QED BY <1>1, <1>7, <1>10, <1>11

\* What is true of a block that is still there stays true; and what was read of one
\* that is gone names no block any more.
LEMMA HoldsStays ==
  ASSUME TypeOK, Continues, NEW e, NEW p \in 1 .. Len(home), NEW ok,
         \A q \in 1 .. p : home'[q] = home[q], Holds(e, p, ok)
  PROVE  home'[p].tx = e /\ (Succeeds(p)' <=> ok)
<1>1. p \in 1 .. p /\ \A q \in 1 .. p - 1 : q \in 1 .. p
  BY Numbers
<1>2. home'[p] = home[p] /\ \A q \in 1 .. p - 1 : home'[q] = home[q]
  BY <1>1
<1>3. Succeeds(p)' <=> Succeeds(p)
  BY <1>2 DEF Succeeds
<1> QED BY <1>2, <1>3 DEF Holds

LEMMA FinalStays ==
  ASSUME TypeOK, Continues, NEW p \in Nat, Final(p)
  PROVE  Len(home') - p + 1 >= Confirmations
BY RuntimeAssumption DEF Final, Continues, TypeOK

\* What is straight stays straight when only the chain moves on.
LEMMA ChainKeepsStraight ==
  ASSUME TypeOK, ForksInv, Continues, NEW e \in Executions, Straight(e),
         Len(home') \in Nat, forks' \in Nat, \A p \in 1 .. Len(home') : home'[p].fork \in Nat,
         UNCHANGED <<wallet, sent, run, strayed>>
  PROVE  Straight(e)'
<1> USE DEF Straight
<1>0. Len(home') \in Nat /\ forks' \in Nat /\ run'[e] = run[e]
  OBVIOUS
<1>1. ASSUME NEW p \in 1 .. Len(home), Final(p), NEW ok, Holds(e, p, ok)
      PROVE  p \in 1 .. Len(home') /\ Final(p)' /\ home'[p] = home[p] /\ Holds(e, p, ok)'
  <2>1. \A q \in 1 .. p : home'[q] = home[q]
    BY <1>1 DEF Continues
  <2>2. Final(p)'
    BY <1>1, FinalStays DEF Final
  <2>3. Holds(e, p, ok)'
    BY <1>1, <2>1, HoldsStays DEF Holds
  <2>4. p \in 1 .. Len(home')
    BY <1>1 DEF Continues, TypeOK
  <2> QED BY <2>1, <2>2, <2>3, <2>4
<1>2. ASSUME run[e].at \in HasRead PROVE ReadOf(e)'
  <2> DEFINE n == run[e].receipt.n
  <2>1. ReadOf(e)
    BY <1>2
  <2>2. n \in Nat \ {0} /\ run[e].receipt.fork <= forks /\ forks' >= forks
    BY <2>1 DEF ReadOf, Continues
  <2>3. n <= Len(home) /\ n <= Len(home')
    BY <2>1, <2>2 DEF ReadOf, Continues, TypeOK
  <2>7. /\ run'[e] = run[e] /\ n \in Nat \ {0} /\ n <= Len(home')
        /\ run[e].receipt.fork <= forks'
    <3>1. run[e].receipt.fork \in Nat /\ forks \in Nat
      BY Numbers
    <3> QED BY <1>0, <2>2, <2>3, <3>1
  <2>4. CASE \A q \in 1 .. n : home'[q] = home[q]
    <3>1. home'[n] = home[n] /\ n \in 1 .. Len(home)
      BY <2>2, <2>3, <2>4
    <3>2. home'[n].fork = run[e].receipt.fork => Holds(e, n, run[e].receipt.ok)'
      BY <2>1, <2>4, <3>1, HoldsStays DEF ReadOf, Holds
    <3> QED BY <2>7, <3>2 DEF ReadOf
  <2>5. CASE home'[n].fork > forks
    <3>1. home'[n].fork \in Nat /\ run[e].receipt.fork \in Nat /\ forks \in Nat
      BY <2>2, <2>3, Numbers
    <3>2. home'[n].fork # run[e].receipt.fork
      BY <2>2, <2>5, <3>1
    <3> QED BY <2>7, <3>2 DEF ReadOf
  <2>6. n \in 1 .. Len(home)
    BY <2>2, <2>3 DEF TypeOK
  <2> QED BY <2>4, <2>5, <2>6 DEF Continues
<1>3. ASSUME run[e].at \in {"canonical", "refreshed"} PROVE Final(run[e].receipt.n)'
  <2>1. run[e].receipt.n \in Nat /\ Final(run[e].receipt.n)
    BY <1>3 DEF ReadOf, HasRead
  <2> QED BY <2>1, FinalStays DEF Final
<1>4. ASSUME run[e].at = "refreshed", run[e].canonical
      PROVE  home'[run[e].receipt.n].fork = run[e].receipt.fork
  <2>1. run[e].receipt.n \in 1 .. Len(home) /\ Final(run[e].receipt.n)
    BY <1>4 DEF ReadOf, HasRead, TypeOK
  <2>2. home'[run[e].receipt.n] = home[run[e].receipt.n]
    BY <2>1 DEF Continues
  <2> QED BY <1>4, <2>2
<1>5. ASSUME run[e].at \in {"completed", "reverted"}
      PROVE  \E p \in 1 .. Len(home') : Final(p)' /\ Holds(e, p, run[e].at = "completed")'
  <2>1. PICK p \in 1 .. Len(home) : Final(p) /\ Holds(e, p, run[e].at = "completed")
    BY <1>5
  <2>2. p \in 1 .. Len(home') /\ Final(p)' /\ Holds(e, p, run[e].at = "completed")'
    BY <1>1, <2>1
  <2> QED BY <2>2
<1> QED BY <1>2, <1>3, <1>4, <1>5

-----------------------------------------------------------------------------
(* Types.                                                                  *)

RunRecord == [at : Steps, polls : 0 .. MaximumPolls - 1, need : {Confirmations, Elsewhere},
              count : Nat, canonical : BOOLEAN,
              receipt : [n : Nat, fork : 0 .. MaxForks + 1, ok : BOOLEAN]]

LEMMA FreshRecord == ASSUME NEW at \in Steps PROVE At(at) \in RunRecord
BY RuntimeAssumption DEF RunRecord, At, Unread

\* A step of one execution writes its own record, and leaves the chain alone.
LEMMA RunStays ==
  ASSUME TypeOK, NEW e \in Executions, NEW r \in RunRecord, run' = [run EXCEPT ![e] = r],
         UNCHANGED <<signing, late, wallet, strayed, chain>>,
         sent' \in [Executions -> {"no", "home", "away"}], handle' \in {handle, "gone"},
         handle' # handle => handle # "none"
  PROVE  TypeOK'
BY DEF TypeOK, RunRecord, signing, chain

LEMMA ReceiptType ==
  ASSUME TypeOK, NEW e \in Executions
  PROVE  Receipt(e) \in [n : Nat, fork : 0 .. MaxForks + 1, ok : BOOLEAN]
<1>1. CASE wallet.chain = "home" /\ sent[e] = "home" /\ Included(e)
  <2> DEFINE p == CHOOSE p \in 1 .. Len(home) : home[p].tx = e
  <2>1. p \in 1 .. Len(home)
    BY <1>1 DEF Included
  <2>2. home[p].fork \in 0 .. MaxForks + 1 /\ p \in Nat
    <3>1. home[p] \in Block
      BY <2>1, Numbers
    <3>2. \A b \in Block : b.fork \in 0 .. MaxForks + 1
      BY RuntimeAssumption DEF Block
    <3> QED BY <2>1, <3>1, <3>2, Numbers
  <2>3. Succeeds(p) \in BOOLEAN
    BY DEF Succeeds
  <2>4. Receipt(e) = [n |-> p, fork |-> home[p].fork, ok |-> Succeeds(p)]
    BY <1>1 DEF Receipt
  <2> HIDE DEF p
  <2> QED BY <2>2, <2>3, <2>4
<1>2. CASE ~(wallet.chain = "home" /\ sent[e] = "home" /\ Included(e))
  BY <1>2, RuntimeAssumption DEF Receipt, Unread
<1> QED BY <1>1, <1>2

\* What a step of an execution does to the rest.
Own(e) == /\ \E r \in RunRecord : run' = [run EXCEPT ![e] = r]
          /\ UNCHANGED <<signing, late, wallet, strayed, chain>>
          /\ sent' \in [Executions -> {"no", "home", "away"}]
          /\ \A f \in Executions : f # e => sent'[f] = sent[f]
          /\ run'[e].at \notin {"idle", "failed"} => handle # "none"
          /\ (handle' = handle \/ (handle # "none" /\ handle' = "gone"))

\* Mine of the steps before the transaction, and of those that end.
Early == {"idle", "account", "chain", "simulate", "again", "still", "failed"}

LEMMA EarlyStep ==
  ASSUME Inv, NEW e \in Executions, NEW at \in Early, Goes(e, at),
         at \notin {"idle", "failed"} => handle # "none",
         UNCHANGED <<signing, handle, late, wallet, sent, strayed, chain>>
  PROVE  Own(e) /\ (e \notin strayed => Straight(e)')
<1>1. At(at) \in RunRecord
  BY FreshRecord DEF Early, Steps, Ended
<1>2. run' = [run EXCEPT ![e] = At(at)] /\ run'[e] = At(at)
  BY DEF Goes, Inv, TypeOK
<1>3. Own(e)
  <2>1. sent \in [Executions -> {"no", "home", "away"}]
    BY DEF Inv, TypeOK
  <2>2. \E r \in RunRecord : run' = [run EXCEPT ![e] = r]
    BY <1>1, <1>2
  <2>3. run'[e].at = at
    BY <1>2 DEF At
  <2>4. handle' = handle /\ sent' = sent
    OBVIOUS
  <2>5. UNCHANGED <<signing, late, wallet, strayed, chain>>
    BY DEF signing, chain
  <2>6. run'[e].at \notin {"idle", "failed"} => handle # "none"
    BY <2>3
  <2> QED BY <2>1, <2>2, <2>4, <2>5, <2>6 DEF Own
<1>4. ASSUME e \notin strayed PROVE Straight(e)'
  <2>1. Straight(e)
    BY <1>4 DEF Inv
  <2>2. run'[e].at \in Early /\ sent'[e] # "away"
    BY <1>2, <2>1 DEF At, Straight
  <2> QED BY <2>2 DEF Straight, Early, Sending, Waiting, HasRead
<1> QED BY <1>3, <1>4

LEMMA StartStep ==
  ASSUME Inv, NEW e \in Executions,
         Start(e) \/ Account(e) \/ Chain(e) \/ Simulate(e) \/ AccountAgain(e) \/ Throw(e)
  PROVE  Own(e) /\ (e \notin strayed => Straight(e)')
<1>1. \E at \in Early : Goes(e, at) /\ (at \notin {"idle", "failed"} => handle # "none")
  <2> USE DEF Early, Inv, HandleInv
  <2>1. CASE Start(e) BY <2>1 DEF Start
  <2>2. CASE Account(e) BY <2>2 DEF Account
  <2>3. CASE Chain(e) BY <2>3 DEF Chain
  <2>4. CASE Simulate(e) BY <2>4 DEF Simulate
  <2>5. CASE AccountAgain(e) BY <2>5 DEF AccountAgain
  <2>6. CASE Throw(e) BY <2>6 DEF Throw
  <2> QED BY <2>1, <2>2, <2>3, <2>4, <2>5, <2>6
<1>2. UNCHANGED <<signing, handle, late, wallet, sent, strayed, chain>>
  BY DEF Start, Account, Chain, Simulate, AccountAgain, Throw
<1> QED BY <1>1, <1>2, EarlyStep

\* What a step that goes on does, whatever it writes.
LEMMA OwnStep ==
  ASSUME Inv, NEW e \in Executions, NEW r \in RunRecord, run' = [run EXCEPT ![e] = r],
         UNCHANGED <<signing, late, wallet, strayed, chain>>,
         r.at \notin {"idle", "failed"} => handle # "none",
         sent' = sent, (handle' = handle \/ (handle # "none" /\ handle' = "gone"))
  PROVE  Own(e) /\ run'[e] = r
<1>1. sent \in [Executions -> {"no", "home", "away"}] /\ run'[e] = r
  BY DEF Inv, TypeOK
<1>2. \E x \in RunRecord : run' = [run EXCEPT ![e] = x]
  OBVIOUS
<1> QED BY <1>1, <1>2 DEF Own

\* The chain is looked at once more, and it is the package's.
LEMMA ChainAgainStep ==
  ASSUME Inv, NEW e \in Executions, ChainAgain(e)
  PROVE  Own(e) /\ (e \notin strayed => Straight(e)')
<1>1. CASE ~StillHome
  BY <1>1, EarlyStep DEF ChainAgain, Early
<1>2. CASE StillHome
  <2>1. At("send") \in RunRecord
    BY FreshRecord DEF Steps, Sending
  <2>2. Own(e) /\ run'[e] = At("send")
    <3>1. run' = [run EXCEPT ![e] = At("send")] /\ handle # "none" /\ handle' = "gone"
      BY <1>2 DEF ChainAgain, Goes, Inv, HandleInv
    <3>2. sent' = sent /\ UNCHANGED <<signing, late, wallet, strayed, chain>>
      BY DEF ChainAgain
    <3> QED BY <2>1, <3>1, <3>2, OwnStep
  <2>3. ASSUME e \notin strayed PROVE Straight(e)'
    <3>1. Straight(e) /\ wallet'.chain = "home" /\ sent'[e] = sent[e]
      BY <1>2, <2>3 DEF Inv, StillHome, ChainAgain
    <3> QED BY <2>2, <3>1 DEF Straight, At, Waiting, HasRead
  <2> QED BY <2>2, <2>3
<1> QED BY <1>1, <1>2

\* Sending, from a wallet that is still on the package's chain.
LEMMA SendStep ==
  ASSUME Inv, NEW e \in Executions, Send(e)
  PROVE  Own(e) /\ (e \notin strayed => Straight(e)')
<1>1. CASE Goes(e, "failed") /\ UNCHANGED sent
  BY <1>1, EarlyStep DEF Send, Early
<1>2. CASE sent' = [sent EXCEPT ![e] = wallet.chain] /\ Goes(e, "policy")
  <2>1. At("policy") \in RunRecord
    BY FreshRecord DEF Steps, Sending
  <2>2. /\ run' = [run EXCEPT ![e] = At("policy")] /\ run'[e] = At("policy")
        /\ handle # "none" /\ handle' = handle
    BY <1>2 DEF Send, Goes, Inv, HandleInv, TypeOK
  <2>3. /\ sent' \in [Executions -> {"no", "home", "away"}] /\ sent'[e] = wallet.chain
        /\ \A f \in Executions : f # e => sent'[f] = sent[f]
    BY <1>2 DEF Inv, TypeOK
  <2>4. UNCHANGED <<signing, late, wallet, strayed, chain>>
    BY DEF Send
  <2>5. \E r \in RunRecord : run' = [run EXCEPT ![e] = r]
    BY <2>1, <2>2
  <2>6. Own(e)
    BY <2>2, <2>3, <2>4, <2>5 DEF Own
  <2>7. ASSUME e \notin strayed PROVE Straight(e)'
    <3>1. Straight(e) /\ run[e].at = "send"
      BY <2>7 DEF Inv, Send
    <3>2. wallet.chain = "home" /\ wallet' = wallet /\ run'[e].at = "policy"
      BY <2>2, <2>4, <3>1 DEF Straight, Sending, At
    <3> QED BY <2>3, <3>2 DEF Straight, Waiting, HasRead
  <2> QED BY <2>6, <2>7
<1> QED BY <1>1, <1>2 DEF Send

\* The next poll has read nothing.
LEMMA PolledStep ==
  ASSUME Inv, NEW e \in Executions, run[e].at \in Waiting, run' = [run EXCEPT ![e] = Polled(e)],
         UNCHANGED <<signing, handle, late, wallet, sent, strayed, chain>>
  PROVE  Own(e) /\ (e \notin strayed => Straight(e)')
<1>1. CASE run[e].polls + 1 = MaximumPolls
  BY <1>1, EarlyStep DEF Polled, Early, Goes
<1>2. CASE run[e].polls + 1 # MaximumPolls
  <2> DEFINE r == Polled(e)
  <2>1. run[e] \in RunRecord
    BY DEF Inv, TypeOK, RunRecord
  <2>2. r = [At("receipt") EXCEPT !.polls = run[e].polls + 1, !.need = run[e].need]
    BY <1>2 DEF Polled
  <2>3. r \in RunRecord /\ r.at = "receipt" /\ r.need = run[e].need
    <3>1. run[e].polls + 1 \in 0 .. MaximumPolls - 1 /\ run[e].need \in {Confirmations, Elsewhere}
      BY <1>2, <2>1, RuntimeAssumption DEF RunRecord
    <3>2. r = [at |-> "receipt", polls |-> run[e].polls + 1, need |-> run[e].need,
               count |-> 0, receipt |-> Unread, canonical |-> FALSE]
      BY <2>2 DEF At
    <3>3. Unread \in [n : Nat, fork : 0 .. MaxForks + 1, ok : BOOLEAN] /\ "receipt" \in Steps
      BY RuntimeAssumption DEF Unread, Steps, Sending
    <3> HIDE DEF r
    <3> QED BY <3>1, <3>2, <3>3 DEF RunRecord
  <2> HIDE DEF r
  <2>4. handle # "none" /\ sent' = sent /\ handle' = handle
    BY DEF Inv, HandleInv, Waiting
  <2>5. UNCHANGED <<signing, late, wallet, strayed, chain>>
    BY DEF signing, chain
  <2>6. run' = [run EXCEPT ![e] = r]
    BY DEF r
  <2>7. Own(e) /\ run'[e] = r
    BY <2>3, <2>4, <2>5, <2>6, OwnStep
  <2>8. ASSUME e \notin strayed PROVE Straight(e)'
    <3>1. Straight(e) /\ run[e].at \in Sending
      BY <2>8 DEF Inv, Waiting, Sending
    <3> QED BY <2>3, <2>4, <2>5, <2>7, <3>1 DEF Straight, HasRead, Waiting
  <2> QED BY <2>7, <2>8
<1> QED BY <1>1, <1>2

\* A step that goes on with what it has read: the record, and what it means.
LEMMA GoesOn ==
  ASSUME Inv, NEW e \in Executions, NEW r \in RunRecord, run' = [run EXCEPT ![e] = r],
         run[e].at \in Sending \ {"send"},
         UNCHANGED <<signing, handle, late, wallet, sent, strayed, chain>>
  PROVE  /\ Own(e) /\ run'[e] = r /\ home' = home /\ forks' = forks
         /\ e \notin strayed => Straight(e) /\ wallet.chain = "home" /\ wallet' = wallet /\ sent' = sent
<1>1. handle # "none" /\ sent' = sent /\ handle' = handle /\ wallet' = wallet
  BY DEF Inv, HandleInv, Sending
<1>2. UNCHANGED <<signing, late, wallet, strayed, chain>>
  BY DEF signing, chain
<1>3. Own(e) /\ run'[e] = r
  BY <1>1, <1>2, OwnStep
<1>4. e \notin strayed => Straight(e) /\ wallet.chain = "home"
  BY DEF Inv, Straight
<1> QED BY <1>1, <1>2, <1>3, <1>4 DEF chain

LEMMA PolicyStep ==
  ASSUME Inv, NEW e \in Executions, Policy(e)
  PROVE  Own(e) /\ (e \notin strayed => Straight(e)')
<1> DEFINE r == [run[e] EXCEPT !.at = "receipt",
                               !.need = IF wallet.chain = "home" THEN Confirmations ELSE Elsewhere]
<1>1. run[e] \in RunRecord /\ run' = [run EXCEPT ![e] = r]
  BY DEF Inv, TypeOK, RunRecord, Policy
<1>2. /\ r \in RunRecord /\ r.at = "receipt"
      /\ r.need = IF wallet.chain = "home" THEN Confirmations ELSE Elsewhere
  BY <1>1 DEF RunRecord, Steps, Sending
<1> HIDE DEF r
<1>3. run[e].at \in Sending \ {"send"} /\ UNCHANGED <<signing, handle, late, wallet, sent, strayed, chain>>
  BY DEF Policy, Sending
<1>4. Own(e) /\ run'[e] = r
  BY <1>1, <1>2, <1>3, GoesOn
<1>5. ASSUME e \notin strayed PROVE Straight(e)'
  <2>1. Straight(e) /\ wallet.chain = "home" /\ wallet' = wallet /\ sent' = sent
    BY <1>1, <1>2, <1>3, <1>5, GoesOn
  <2> QED BY <1>2, <1>4, <2>1 DEF Straight, HasRead
<1> QED BY <1>4, <1>5

\* The receipt is of the block that holds the transaction.
LEMMA ReadReceiptStep ==
  ASSUME Inv, NEW e \in Executions, ReadReceipt(e)
  PROVE  Own(e) /\ (e \notin strayed => Straight(e)')
<1>1. CASE Receipt(e) = Unread
  BY <1>1, PolledStep DEF ReadReceipt, Waiting
<1>2. CASE Receipt(e) # Unread
  <2> DEFINE r == [run[e] EXCEPT !.at = "latest", !.receipt = Receipt(e)]
  <2>1. run[e] \in RunRecord /\ run' = [run EXCEPT ![e] = r]
    BY <1>2 DEF Inv, TypeOK, RunRecord, ReadReceipt
  <2>2. r \in RunRecord /\ r.at = "latest" /\ r.receipt = Receipt(e) /\ r.need = run[e].need
    <3>1. Receipt(e) \in [n : Nat, fork : 0 .. MaxForks + 1, ok : BOOLEAN]
      BY ReceiptType DEF Inv
    <3> QED BY <2>1, <3>1 DEF RunRecord, Steps, Sending
  <2> HIDE DEF r
  <2>3. /\ run[e].at \in Sending \ {"send"} /\ run[e].at = "receipt"
        /\ UNCHANGED <<signing, handle, late, wallet, sent, strayed, chain>>
    BY DEF ReadReceipt, Sending
  <2>4. Own(e) /\ run'[e] = r /\ home' = home /\ forks' = forks
    BY <2>1, <2>2, <2>3, GoesOn
  <2>5. ASSUME e \notin strayed PROVE Straight(e)'
    <3>1. Straight(e) /\ wallet.chain = "home" /\ wallet' = wallet /\ sent' = sent
      BY <2>1, <2>2, <2>3, <2>5, GoesOn
    <3>2. PICK p \in 1 .. Len(home) :
            home[p].tx = e /\ Receipt(e) = [n |-> p, fork |-> home[p].fork, ok |-> Succeeds(p)]
      <4>1. wallet.chain = "home" /\ sent[e] = "home" /\ Included(e)
        BY <1>2, <3>1 DEF Receipt
      <4>2. \E p \in 1 .. Len(home) : home[p].tx = e
        BY <4>1 DEF Included
      <4> QED BY <4>1, <4>2 DEF Receipt
    <3>3. ReadOf(e)'
      <4>1. home[p].fork <= forks /\ p \in Nat \ {0}
        BY Numbers DEF Inv, ForksInv
      <4>2. /\ run'[e].receipt.n = p /\ run'[e].receipt.fork = home[p].fork
            /\ run'[e].receipt.ok = Succeeds(p)
        BY <2>2, <2>4, <3>2
      <4>3. Succeeds(p)' = Succeeds(p)
        BY <2>4 DEF Succeeds
      <4> QED BY <2>4, <3>2, <4>1, <4>2, <4>3 DEF ReadOf, Holds
    <3> QED BY <2>2, <2>3, <2>4, <3>1, <3>3 DEF Straight, Waiting
  <2> QED BY <2>4, <2>5
<1> QED BY <1>1, <1>2

\* Enough blocks make the receipt's block final, whether it is still there or not.
LEMMA ReadLatestStep ==
  ASSUME Inv, NEW e \in Executions, ReadLatest(e)
  PROVE  Own(e) /\ (e \notin strayed => Straight(e)')
<1>1. CASE Count(e) < run[e].need
  BY <1>1, PolledStep DEF ReadLatest, Waiting
<1>2. CASE ~(Count(e) < run[e].need)
  <2> DEFINE r == [run[e] EXCEPT !.at = "canonical", !.count = Count(e)]
  <2>1. run[e] \in RunRecord /\ run' = [run EXCEPT ![e] = r]
    BY <1>2 DEF Inv, TypeOK, RunRecord, ReadLatest
  <2>2. Height \in Nat /\ run[e].receipt.n \in Nat /\ Count(e) \in Nat
    <3>1. Height \in Nat
      BY Numbers, RuntimeAssumption DEF Height, Inv
    <3>2. run[e].receipt.n \in Nat
      BY Numbers DEF Inv
    <3> QED BY <3>1, <3>2 DEF Count
  <2>3. r \in RunRecord /\ r.at = "canonical" /\ r.receipt = run[e].receipt /\ r.need = run[e].need
    BY <2>1, <2>2 DEF RunRecord, Steps, Sending
  <2> HIDE DEF r
  <2>4. /\ run[e].at \in Sending \ {"send"} /\ run[e].at = "latest"
        /\ UNCHANGED <<signing, handle, late, wallet, sent, strayed, chain>>
    BY DEF ReadLatest, Sending
  <2>5. Own(e) /\ run'[e] = r /\ home' = home /\ forks' = forks
    BY <2>1, <2>3, <2>4, GoesOn
  <2>6. ASSUME e \notin strayed PROVE Straight(e)'
    <3>1. Straight(e) /\ wallet.chain = "home" /\ wallet' = wallet /\ sent' = sent
      BY <2>1, <2>3, <2>4, <2>6, GoesOn
    <3>2. ReadOf(e)'
      BY <2>3, <2>4, <2>5, <3>1 DEF Straight, HasRead, ReadOf, Holds, Succeeds
    <3>3. Final(run[e].receipt.n)
      <4>1. run[e].need = Confirmations /\ Height = Len(home) /\ Confirmations \in Nat \ {0}
        BY <2>4, <3>1, Numbers DEF Straight, Waiting, Height, Inv
      <4> QED BY <1>2, <2>2, <4>1 DEF Count, Final
    <3>4. Final(run[e].receipt.n)'
      BY <2>3, <2>5, <3>3 DEF Final
    <3> QED BY <2>3, <2>4, <2>5, <3>1, <3>2, <3>4 DEF Straight, Waiting
  <2> QED BY <2>5, <2>6
<1> QED BY <1>1, <1>2

\* And when it is the chain's block at its height, it stays so.
LEMMA ReadCanonicalStep ==
  ASSUME Inv, NEW e \in Executions, ReadCanonical(e)
  PROVE  Own(e) /\ (e \notin strayed => Straight(e)')
<1> DEFINE r == [run[e] EXCEPT !.at = "refreshed", !.canonical = IsCanonical(run[e].receipt)]
<1>1. run[e] \in RunRecord /\ run' = [run EXCEPT ![e] = r]
  BY DEF Inv, TypeOK, RunRecord, ReadCanonical
<1>2. /\ r \in RunRecord /\ r.at = "refreshed" /\ r.receipt = run[e].receipt /\ r.need = run[e].need
      /\ r.canonical = IsCanonical(run[e].receipt)
  <2>1. IsCanonical(run[e].receipt) \in BOOLEAN
    BY DEF IsCanonical
  <2> QED BY <1>1, <2>1 DEF RunRecord, Steps, Sending
<1> HIDE DEF r
<1>3. /\ run[e].at \in Sending \ {"send"} /\ run[e].at = "canonical"
      /\ UNCHANGED <<signing, handle, late, wallet, sent, strayed, chain>>
  BY DEF ReadCanonical, Sending
<1>4. Own(e) /\ run'[e] = r /\ home' = home /\ forks' = forks
  BY <1>1, <1>2, <1>3, GoesOn
<1>5. ASSUME e \notin strayed PROVE Straight(e)'
  <2>1. Straight(e) /\ wallet.chain = "home" /\ wallet' = wallet /\ sent' = sent
    BY <1>1, <1>2, <1>3, <1>5, GoesOn
  <2>2. ReadOf(e)' /\ Final(run[e].receipt.n)'
    BY <1>2, <1>3, <1>4, <2>1 DEF Straight, HasRead, ReadOf, Holds, Succeeds, Final
  <2>3. run'[e].canonical => home'[run'[e].receipt.n].fork = run'[e].receipt.fork
    BY <1>2, <1>4, <2>1 DEF IsCanonical
  <2> QED BY <1>2, <1>3, <1>4, <2>1, <2>2, <2>3 DEF Straight, Waiting
<1> QED BY <1>4, <1>5

\* So that the report is about a block that is final.
LEMMA ReadAgainStep ==
  ASSUME Inv, NEW e \in Executions, ReadAgain(e)
  PROVE  Own(e) /\ (e \notin strayed => Straight(e)')
<1> DEFINE first == run[e].receipt
           same == /\ run[e].canonical /\ Receipt(e) # Unread
                   /\ Receipt(e).n = first.n /\ Receipt(e).fork = first.fork
           at == IF run[e].count < Confirmations THEN "failed"
                 ELSE IF first.ok THEN "completed" ELSE "reverted"
<1>1. CASE ~same
  BY <1>1, PolledStep DEF ReadAgain, Waiting
<1>2. CASE same
  <2>1. run' = [run EXCEPT ![e] = At(at)]
    BY <1>2 DEF ReadAgain
  <2>2. CASE at = "failed"
    BY <2>1, <2>2, EarlyStep DEF ReadAgain, Early, Goes
  <2>3. CASE at # "failed"
    <3>1. At(at) \in RunRecord /\ At(at).at = at /\ at \in {"completed", "reverted"}
      BY <2>3, FreshRecord DEF Steps, Ended, At
    <3>2. /\ run[e].at \in Sending \ {"send"} /\ run[e].at = "refreshed"
          /\ UNCHANGED <<signing, handle, late, wallet, sent, strayed, chain>>
      BY DEF ReadAgain, Sending
    <3>3. Own(e) /\ run'[e] = At(at) /\ home' = home /\ forks' = forks
      BY <2>1, <3>1, <3>2, GoesOn
    <3>4. ASSUME e \notin strayed PROVE Straight(e)'
      <4>1. Straight(e) /\ wallet.chain = "home" /\ wallet' = wallet /\ sent' = sent
        BY <2>1, <3>1, <3>2, <3>4, GoesOn
      <4>2. ReadOf(e) /\ Final(first.n) /\ home[first.n].fork = first.fork
        BY <1>2, <3>2, <4>1 DEF Straight, HasRead
      <4>3. first.n \in 1 .. Len(home) /\ Holds(e, first.n, first.ok)
        <5>1. first.n \in Nat \ {0} /\ Len(home) \in Nat /\ Confirmations \in Nat \ {0}
          BY <4>2, Numbers DEF ReadOf, Inv
        <5> QED BY <4>2, <5>1 DEF ReadOf, Final
      <4>4. (at = "completed") <=> first.ok
        BY <2>3
      <4>5. PICK p \in 1 .. Len(home) : Final(p) /\ Holds(e, p, at = "completed")
        BY <4>2, <4>3, <4>4 DEF Holds
      <4>6. p \in 1 .. Len(home') /\ Final(p)' /\ run'[e].at = at
        BY <3>1, <3>3, <4>5 DEF Final
      <4>7. Holds(e, p, run[e].at = "completed")'
        BY <3>3, <4>5, <4>6 DEF Holds, Succeeds
      <4> HIDE DEF at
      <4> QED BY <3>1, <3>2, <3>3, <4>1, <4>6, <4>7 DEF Straight, Sending, Waiting, HasRead
    <3> QED BY <3>3, <3>4
  <2> QED BY <2>2, <2>3
<1> QED BY <1>1, <1>2

-----------------------------------------------------------------------------
(* The invariant.                                                          *)

LEMMA InitInv == Init => Inv
<1> SUFFICES ASSUME Init PROVE Inv
  OBVIOUS
<1>1. TypeOK
  <2>1. At("idle") \in RunRecord
    BY FreshRecord DEF Steps
  <2>2. run \in [Executions -> RunRecord] /\ sent \in [Executions -> {"no", "home", "away"}]
    BY <2>1 DEF Init
  <2>3. home \in Seq(Block) /\ forks \in 0 .. MaxForks
    BY RuntimeAssumption DEF Init
  <2>4. /\ authorizing \in [at : {"idle", "signing", "ended"}, by : Seq({"source", "other"})]
        /\ Len(authorizing.by) <= Requests
    BY RuntimeAssumption DEF Init, NotAuthorized
  <2> QED BY <2>2, <2>3, <2>4 DEF Init, TypeOK, RunRecord
<1>2. ForksInv
  BY DEF Init, ForksInv
<1>3. \A e \in Executions : run[e].at = "idle" /\ sent[e] = "no"
  BY DEF Init, At
<1>4. AuthInv
  BY RuntimeAssumption DEF Init, AuthInv, NotAuthorized
<1> QED BY <1>1, <1>2, <1>3, <1>4 DEF Inv, HandleInv, Straight, Sending, Waiting, HasRead

\* When nothing that an execution relies on changes.
LEMMA StraightStays ==
  ASSUME NEW e \in Executions, Straight(e), run'[e] = run[e], sent'[e] = sent[e],
         run[e].at \in Sending => wallet'.chain = wallet.chain, UNCHANGED chain
  PROVE  Straight(e)'
BY DEF Straight, ReadOf, Holds, Succeeds, Final, chain

LEMMA OwnKeepsInv ==
  ASSUME Inv, NEW e \in Executions, Own(e), e \notin strayed => Straight(e)'
  PROVE  Inv'
<1>1. PICK r \in RunRecord : run' = [run EXCEPT ![e] = r]
  BY DEF Own
<1>2. /\ UNCHANGED <<signing, late, wallet, strayed, chain>>
      /\ sent' \in [Executions -> {"no", "home", "away"}]
      /\ \A f \in Executions : f # e => sent'[f] = sent[f] /\ run'[f] = run[f]
      /\ handle' \in {handle, "gone"} /\ (handle' # handle => handle # "none")
      /\ run'[e].at \notin {"idle", "failed"} => handle # "none"
  BY <1>1 DEF Own, Inv, TypeOK
<1>3. TypeOK'
  BY <1>1, <1>2, RunStays DEF Inv
<1>4. ForksInv'
  BY <1>2 DEF Inv, ForksInv, chain
<1>5. HandleInv'
  BY <1>2 DEF Inv, HandleInv
<1>6. ASSUME NEW f \in Executions \ strayed' PROVE Straight(f)'
  <2>1. CASE f = e
    BY <1>2, <1>6, <2>1
  <2>2. CASE f # e
    <3>1. Straight(f) /\ wallet' = wallet
      BY <1>2, <1>6 DEF Inv
    <3> QED BY <1>2, <2>2, <3>1, StraightStays
  <2> QED BY <2>1, <2>2
<1>7. AuthInv'
  BY <1>2 DEF Inv, AuthInv, signing
<1> QED BY <1>3, <1>4, <1>5, <1>6, <1>7 DEF Inv

LEMMA ExecuteKeepsInv ==
  ASSUME Inv, NEW e \in Executions, Execute(e)
  PROVE  Inv'
<1>1. Own(e) /\ (e \notin strayed => Straight(e)')
  BY StartStep, ChainAgainStep, SendStep, PolicyStep, ReadReceiptStep, ReadLatestStep,
     ReadCanonicalStep, ReadAgainStep DEF Execute
<1> QED BY <1>1, OwnKeepsInv

\* What is enough when only the signing goes on.
LEMMA SigningKeeps ==
  ASSUME Inv, UNCHANGED <<late, wallet, sent, run, strayed, home, forks>>,
         signer' \in {"source", "other"},
         authorizing' \in [at : {"idle", "signing", "ended"}, by : Seq({"source", "other"})],
         Len(authorizing'.by) <= Requests, handle' \in {handle, "held"},
         handle' # "none" => authorizing'.at = "ended" /\ Len(authorizing'.by) = Requests,
         authorizing'.at # "ended" => Len(authorizing'.by) < Requests,
         authorizing'.by = [i \in 1 .. Len(authorizing'.by) |-> "source"]
  PROVE  Inv'
<1>1. handle' # "none" => authorizing'.by = [i \in 1 .. Requests |-> "source"]
  OBVIOUS
<1>2. handle' \in {"none", "held", "gone"} /\ (handle # "none" => handle' # "none")
  BY DEF Inv, TypeOK
<1>3. TypeOK'
  BY <1>1, <1>2 DEF Inv, TypeOK
<1>4. ForksInv' /\ HandleInv' /\ AuthInv'
  BY <1>2 DEF Inv, ForksInv, HandleInv, AuthInv
<1>5. ASSUME NEW e \in Executions \ strayed' PROVE Straight(e)'
  BY <1>5, StraightStays DEF Inv, chain
<1> QED BY <1>3, <1>4, <1>5 DEF Inv

\* The steps of authorize, and of whoever holds the source's wallet.
LEMMA SigningKeepsInv ==
  ASSUME Inv, Authorize \/ SignRequest \/ RefuseToSign \/ SwitchSigner
  PROVE  Inv'
<1>1. UNCHANGED <<late, wallet, sent, run, strayed, home, forks>>
  BY DEF Authorize, SignRequest, RefuseToSign, SwitchSigner, chain
<1>2. /\ signer \in {"source", "other"} /\ Requests \in Nat \ {0}
      /\ authorizing \in [at : {"idle", "signing", "ended"}, by : Seq({"source", "other"})]
      /\ Len(authorizing.by) <= Requests /\ Len(authorizing.by) \in Nat
  BY RuntimeAssumption DEF Inv, TypeOK
<1>3. CASE Authorize
  <2>1. /\ authorizing'.at = "signing" /\ authorizing'.by = authorizing.by
        /\ authorizing' \in [at : {"idle", "signing", "ended"}, by : Seq({"source", "other"})]
        /\ UNCHANGED <<signer, handle>> /\ handle = "none" /\ Len(authorizing.by) < Requests
    BY <1>2, <1>3 DEF Authorize, Inv, AuthInv
  <2> QED BY <1>1, <1>2, <2>1, SigningKeeps DEF Inv, AuthInv
<1>4. ASSUME authorizing' = NotAuthorized, UNCHANGED <<signer, handle>>, handle = "none"
      PROVE  Inv'
  <2>1. /\ authorizing'.at = "idle" /\ authorizing'.by = <<>>
        /\ authorizing' \in [at : {"idle", "signing", "ended"}, by : Seq({"source", "other"})]
    BY <1>4 DEF NotAuthorized
  <2>2. Len(<<>>) = 0 /\ <<>> = [i \in 1 .. 0 |-> "source"]
    OBVIOUS
  <2> QED BY <1>1, <1>2, <1>4, <2>1, <2>2, SigningKeeps
<1>5. CASE SignRequest
  <2>1. handle = "none" /\ Len(authorizing.by) < Requests /\ UNCHANGED signer
    BY <1>5 DEF SignRequest, Inv, AuthInv
  <2> DEFINE by == Append(authorizing.by, signer)
             at == IF Len(by) < Requests THEN "signing" ELSE "ended"
  <2>2. CASE Recovers(signer) /\ ~(at = "ended" /\ late)
    <3>1. authorizing' = [at |-> at, by |-> by] /\ signer = "source"
      BY <1>5, <2>2 DEF SignRequest, Recovers
    <3>2. /\ by \in Seq({"source", "other"}) /\ Len(by) = Len(authorizing.by) + 1
          /\ by = [i \in 1 .. Len(by) |-> "source"]
      <4>1. by \in Seq({"source", "other"}) /\ Len(by) = Len(authorizing.by) + 1
        BY <1>2
      <4>2. \A i \in 1 .. Len(by) : by[i] = "source"
        BY <1>2, <3>1, <4>1 DEF Inv, AuthInv
      <4>3. DOMAIN by = 1 .. Len(by) /\ by = [i \in DOMAIN by |-> by[i]]
        BY <4>1
      <4> HIDE DEF by
      <4> QED BY <4>1, <4>2, <4>3
    <3>3. handle' = IF at = "ended" THEN "held" ELSE handle
      BY <1>5, <2>2 DEF SignRequest
    <3>4. at \in {"signing", "ended"} /\ Len(by) <= Requests /\ (at = "ended" <=> Len(by) = Requests)
      BY <1>2, <2>1, <3>2
    <3>5. authorizing'.at = at /\ authorizing'.by = by
      BY <3>1
    <3> HIDE DEF by, at
    <3>6. authorizing' \in [at : {"idle", "signing", "ended"}, by : Seq({"source", "other"})]
      BY <3>1, <3>2, <3>4
    <3>7. Len(by) < Requests \/ Len(by) = Requests
      BY <1>2, <3>2, <3>4
    <3> QED BY <1>1, <1>2, <2>1, <3>2, <3>3, <3>4, <3>5, <3>6, <3>7, SigningKeeps
  <2>3. CASE ~(Recovers(signer) /\ ~(at = "ended" /\ late))
    BY <1>4, <1>5, <2>1, <2>3 DEF SignRequest
  <2> QED BY <2>2, <2>3
<1>6. CASE RefuseToSign
  BY <1>4, <1>6 DEF RefuseToSign, Inv, AuthInv
<1>7. CASE SwitchSigner
  <2>1. signer' \in {"source", "other"} /\ UNCHANGED <<authorizing, handle>>
    BY <1>7 DEF SwitchSigner
  <2> QED BY <1>1, <1>2, <2>1, SigningKeeps DEF Inv, AuthInv, TypeOK
<1> QED BY <1>3, <1>5, <1>6, <1>7

\* The other wallet.  An execution that is sending or waiting has strayed.
LEMMA SwitchingKeepsInv ==
  ASSUME Inv, SwitchAccount \/ SwitchChain
  PROVE  Inv'
<1>1. UNCHANGED <<signer, authorizing, handle, late, sent, run, home, forks>>
  BY DEF SwitchAccount, SwitchChain, signing, chain
<1>2. wallet' \in [account : {"destination", "other"}, chain : {"home", "away"}]
  BY DEF SwitchAccount, SwitchChain, Inv, TypeOK
<1>3. strayed \subseteq strayed' /\ strayed' \subseteq Executions
  BY DEF SwitchAccount, SwitchChain, Inv, TypeOK
<1>4. TypeOK' /\ ForksInv' /\ HandleInv' /\ AuthInv'
  BY <1>1, <1>2, <1>3 DEF Inv, TypeOK, ForksInv, HandleInv, AuthInv
<1>5. ASSUME NEW e \in Executions \ strayed' PROVE Straight(e)'
  <2>1. Straight(e) /\ run'[e] = run[e] /\ sent'[e] = sent[e] /\ UNCHANGED chain
    BY <1>1, <1>3, <1>5 DEF Inv, chain
  <2>2. run[e].at \in Sending => wallet'.chain = wallet.chain
    <3>1. CASE SwitchAccount
      BY <3>1 DEF SwitchAccount, Inv, TypeOK
    <3>2. CASE SwitchChain
      BY <1>5, <3>2 DEF SwitchChain
    <3> QED BY <3>1, <3>2
  <2> QED BY <2>1, <2>2, StraightStays
<1> QED BY <1>4, <1>5 DEF Inv

LEMMA NumbersAfter ==
  ASSUME TypeOK'
  PROVE  Len(home') \in Nat /\ forks' \in Nat /\ \A p \in 1 .. Len(home') : home'[p].fork \in Nat
<1>1. home' \in Seq(Block) /\ forks' \in 0 .. MaxForks /\ MaxForks \in Nat
  BY RuntimeAssumption DEF TypeOK
<1>2. \A b \in Block : b.fork \in Nat
  BY <1>1 DEF Block
<1> QED BY <1>1, <1>2

\* The chain.
LEMMA ChainKeepsInv ==
  ASSUME Inv, Mine \/ Reorganize
  PROVE  Inv'
<1>1. UNCHANGED <<signer, authorizing, handle, late, wallet, sent, run, strayed>>
  BY DEF Mine, Reorganize, signing
<1>2. home' \in Seq(Block) /\ forks' \in 0 .. MaxForks /\ ForksInv' /\ Continues
  <2>1. Mine => UNCHANGED forks
    BY DEF Mine
  <2> QED BY <2>1, MineContinues, ReorganizeContinues DEF Inv, TypeOK
<1>3. TypeOK' /\ HandleInv' /\ AuthInv'
  BY <1>1, <1>2 DEF Inv, TypeOK, HandleInv, AuthInv
<1>4. Len(home') \in Nat /\ forks' \in Nat /\ \A p \in 1 .. Len(home') : home'[p].fork \in Nat
  BY <1>3, NumbersAfter
<1>5. ASSUME NEW e \in Executions \ strayed' PROVE Straight(e)'
  <2>1. Straight(e) /\ UNCHANGED <<wallet, sent, run, strayed>>
    BY <1>1, <1>5 DEF Inv
  <2> QED BY <1>2, <1>4, <2>1, ChainKeepsStraight DEF Inv
<1> QED BY <1>2, <1>3, <1>5 DEF Inv

-----------------------------------------------------------------------------
(* The theorems.                                                           *)

LEMMA NextKeepsInv == Inv /\ [Next]_vars => Inv'
<1> SUFFICES ASSUME Inv, [Next]_vars PROVE Inv'
  OBVIOUS
<1>1. CASE Authorize \/ SignRequest \/ RefuseToSign \/ SwitchSigner
  BY <1>1, SigningKeepsInv
<1>2. CASE \E e \in Executions : Execute(e)
  BY <1>2, ExecuteKeepsInv
<1>3. CASE SwitchAccount \/ SwitchChain
  BY <1>3, SwitchingKeepsInv
<1>4. CASE Mine \/ Reorganize
  BY <1>4, ChainKeepsInv
<1>5. ASSUME UNCHANGED <<signer, authorizing, handle, wallet, sent, run, strayed, home, forks>>,
             late' \in BOOLEAN
      PROVE  Inv'
  <2>1. TypeOK' /\ ForksInv' /\ HandleInv' /\ AuthInv'
    BY <1>5 DEF Inv, TypeOK, ForksInv, HandleInv, AuthInv
  <2>2. ASSUME NEW e \in Executions \ strayed' PROVE Straight(e)'
    BY <1>5, <2>2, StraightStays DEF Inv, chain
  <2> QED BY <2>1, <2>2 DEF Inv
<1>6. CASE Expire
  BY <1>5, <1>6 DEF Expire, signing, chain
<1>7. CASE UNCHANGED vars
  BY <1>5, <1>7 DEF vars, signing, chain, Inv, TypeOK
<1> QED BY <1>1, <1>2, <1>3, <1>4, <1>6, <1>7 DEF Next, User

LEMMA Invariance == Spec => []Inv
BY InitInv, NextKeepsInv, PTL DEF Spec

\* Every reachable state has its type, and what is kept behind the handle are the
\* signatures of the source (authorize of runtime.ts).
THEOREM TypeCorrect == Spec => []TypeOK
<1>1. Inv => TypeOK
  BY DEF Inv
<1> QED BY <1>1, Invariance, PTL

\* A transaction whose wallet was not switched while it was sent and awaited is on the
\* package's chain (the two looks of execute at its chain).
THEOREM SentWhereChecked == Spec => []SentWhereItWasChecked
<1>1. Inv => SentWhereItWasChecked
  BY DEF Inv, Straight, SentWhereItWasChecked
<1> QED BY <1>1, Invariance, PTL

\* COMPLETED and REVERTED are what the chain will always say, for any policy, any number
\* of polls and any replacement of blocks that are not final (waitForReceipt).
THEOREM ReportsAreFinal == Spec => []ReportIsFinal
<1>1. ASSUME Inv PROVE ReportIsFinal
  <2> SUFFICES ASSUME NEW e \in Executions \ strayed, run[e].at \in {"completed", "reverted"}
               PROVE  \E p \in 1 .. Len(home) :
                        /\ home[p].tx = e /\ Final(p)
                        /\ Succeeds(p) <=> run[e].at = "completed"
    BY DEF ReportIsFinal
  <2>1. Straight(e)
    BY <1>1 DEF Inv
  <2> QED BY <2>1 DEF Straight, Holds
<1> QED BY <1>1, Invariance, PTL
===============================================================================
