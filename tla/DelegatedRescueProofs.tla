----------------------- MODULE DelegatedRescueProofs ------------------------
(***************************************************************************)
(* Proofs about DelegatedRescue, for every plan, budget and bound.         *)
(***************************************************************************)
EXTENDS DelegatedRescue, SequenceTheorems, TLAPS

Unsigned == {"fund", "funding", "provision", "deploying", "authorize", "execute",
             "next", "submit"}
Ending   == {"refund", "refunding", "refunded", "over"}

\* The payer's transactions: the delegation comes with the first action, only
\* once, and the mined ones come first.
OnlyFirstDelegates ==
  \A i, j \in 1 .. Len(txs) : i < j /\ txs[i].kind = "act" => txs[j].auth # "delegate"
ActsCarry == \A i \in 1 .. Len(txs) : txs[i].auth = "delegate" => txs[i].kind = "act"
NothingSubmitted == pc \in Unsigned /\ ~sent => \A i \in 1 .. Len(txs) : txs[i].kind # "act"
MinedFirst == \A i \in 1 .. Len(txs) : txs[i].status = "pooled" <=> i > mined
Awaited == pc = "include" => Len(txs) > 0 /\ Last.kind = "act" /\ Last.action = at
                             /\ at \in Actions
TxInv == OnlyFirstDelegates /\ ActsCarry /\ NothingSubmitted /\ MinedFirst /\ Awaited

\* The source has the incident's code only by the delegation, which used up N.
CodeInv == code = "incident" => /\ nonce > SourceNonce
                                /\ \E i \in 1 .. mined : txs[i].auth = "delegate"

\* The source is not delegated to the incident's delegate and will not be.
Missed == code # "incident" /\ \A i \in 1 .. Len(txs) : i > mined => txs[i].auth # "delegate"
ReceiptInv == \A i \in 1 .. Len(txs) :
                txs[i].kind = "act" /\ txs[i].status = "ok" => txs[i].action \in executed \/ Missed

\* What is reported COMPLETED is executed, or the inspection that follows will see it.
OutcomeInv == /\ at \in Actions \/ pc \notin {"submit", "include", "check"}
              /\ result # "none" => err = "none" /\ pc \in Ending
              /\ err = "none" => \A a \in Actions : outcome[a] = "COMPLETED" =>
                                   a \in executed \/ (pc = "check" /\ a = at /\ Missed)

\* Past an inspection the delegation is used up; past a result it is gone too.
ClearInv ==
  /\ err = "none" /\ sent /\ pc \in {"next", "submit", "clear", "clearing", "recheck"}
       => nonce > SourceNonce
  /\ pc \in {"include", "check", "clear", "clearing", "recheck"} => sent
  /\ pc \in {"fund", "funding", "provision", "deploying", "authorize", "execute"} => ~sent
  /\ result # "none" => /\ code # "incident"
                        /\ \A i \in 1 .. Len(txs) : txs[i].auth = "delegate" => nonce > SourceNonce

\* The payer's gas from the refund's reading of it to the refund's receipt.
RefundInv ==
  /\ pc \notin {"fund", "funding"} /\ ~(pc = "over" /\ result = "none") => funding = "mined"
  /\ pc \in {"refunding", "refunded"} => bal > Reserve /\ gas <= bal
  /\ pc = "refunded" => /\ Len(txs) > 0 /\ Last.kind = "refund" /\ Last.value = bal - Reserve
                        /\ Last.status = "ok" => gas <= Reserve
  /\ GasComesBack

Inv == TypeOK /\ TxInv /\ CodeInv /\ ReceiptInv /\ OutcomeInv /\ ClearInv /\ RefundInv

-----------------------------------------------------------------------------
(* Types.                                                                  *)

\* A transaction that reaches the node is appended, unmined.
LEMMA Submitted ==
  ASSUME txs \in Seq(Tx), NEW tx \in Tx, txs' = Append(txs, tx)
  PROVE  /\ txs' \in Seq(Tx) /\ Len(txs') = Len(txs) + 1
         /\ \A i \in 1 .. Len(txs) : txs'[i] = txs[i]
         /\ txs'[Len(txs) + 1] = tx
BY AppendProperties

\* What is submitted is a transaction.
LEMMA FreshType ==
  ASSUME NEW kind \in {"deploy", "act", "clear", "refund"}, NEW a \in 0 .. ActionCount,
         NEW auth \in {"none", "delegate", "revoke"}, NEW value \in Nat
  PROVE  /\ Fresh(kind, a, auth, value) \in Tx
         /\ Fresh(kind, a, auth, value).status = "pooled"
         /\ Fresh(kind, a, auth, value).kind = kind
         /\ Fresh(kind, a, auth, value).action = a
         /\ Fresh(kind, a, auth, value).auth = auth
         /\ Fresh(kind, a, auth, value).value = value
BY DEF Fresh, Tx

\* Mining sets the status of one transaction.
LEMMA MinedTxs ==
  ASSUME ChainTypeOK, mined < Len(txs), NEW status \in {"ok", "reverted"},
         Mine(txs[mined + 1], status)
  PROVE  /\ mined' = mined + 1 /\ txs' \in Seq(Tx) /\ Len(txs') = Len(txs)
         /\ \A i \in 1 .. Len(txs) : i # mined + 1 => txs'[i] = txs[i]
         /\ txs'[mined + 1] = [txs[mined + 1] EXCEPT !.status = status]
         /\ txs[mined + 1] \in Tx /\ mined + 1 \in 1 .. Len(txs)
<1>1. mined + 1 \in 1 .. Len(txs) /\ txs \in Seq(Tx) /\ txs[mined + 1] \in Tx
  BY DEF ChainTypeOK
<1>2. [txs[mined + 1] EXCEPT !.status = status] \in Tx
  BY <1>1 DEF Tx
<1>3. /\ mined' = mined + 1
      /\ txs' = [txs EXCEPT ![mined + 1] = [txs[mined + 1] EXCEPT !.status = status]]
  BY DEF Mine
<1> DEFINE x == [txs[mined + 1] EXCEPT !.status = status]
<1>4. x \in Tx /\ txs' = [txs EXCEPT ![mined + 1] = x]
  BY <1>2, <1>3
<1> HIDE DEF x
<1>5. /\ txs' \in Seq(Tx) /\ Len(txs') = Len(txs)
      /\ \A i \in 1 .. Len(txs) : i # mined + 1 => txs'[i] = txs[i]
      /\ txs'[mined + 1] = x
  BY <1>1, <1>4, ExceptSeq
<1> QED
  BY <1>1, <1>3, <1>5 DEF x

LEMMA ChainType ==
  ASSUME ChainTypeOK, ChainStep
  PROVE  ChainTypeOK'
<1> USE PlanAssumption, GasAssumption
<1>1. ASSUME mined < Len(txs), NEW status \in {"ok", "reverted"},
             Mine(txs[mined + 1], status)
      PROVE  ChainTypeOK'
  <2>1. txs[mined + 1] \in Tx /\ txs' \in Seq(Tx) /\ mined' \in 0 .. Len(txs')
    BY <1>1, MinedTxs DEF ChainTypeOK
  <2>2. nonce' \in Nat /\ own' \in Nat /\ gas' \in Nat
    <3>1. txs[mined + 1].value \in Nat
      BY <2>1 DEF Tx
    <3>2. gas' \in Nat
      BY <1>1, <3>1 DEF Mine, ChainTypeOK
    <3>3. nonce' \in Nat /\ own' \in Nat
      BY <1>1 DEF Mine, Bump, ChainTypeOK
    <3> QED  BY <3>2, <3>3
  <2>3. code' \in {"none", "incident", "foreign"}
    BY <1>1 DEF Mine, CodeAfter, ChainTypeOK
  <2>4. executed' \subseteq Actions /\ held' \subseteq Actions /\ deployed' \in BOOLEAN
    BY <1>1 DEF Mine, Runs, Execute, MayExecute, ChainTypeOK
  <2>5. closed' = closed /\ funding' = funding
    BY <1>1 DEF Mine
  <2> QED  BY <2>1, <2>2, <2>3, <2>4, <2>5 DEF ChainTypeOK
<1>2. CASE MineFunding
  BY <1>2 DEF MineFunding, ChainTypeOK, account, plan
<1>3. ASSUME NEW S \in SUBSET Actions, ExecuteElsewhere(S)
      PROVE  ChainTypeOK'
  BY <1>3 DEF ExecuteElsewhere, Execute, ChainTypeOK, account, payer
<1>4. ASSUME NEW S \in SUBSET Actions, SourceMined(S)
      PROVE  ChainTypeOK'
  BY <1>4 DEF SourceMined, Bump, ChainTypeOK, payer
<1>5. CASE SourceSends
  BY <1>5 DEF SourceSends, ChainTypeOK, plan, payer
<1>6. CASE Close
  BY <1>6 DEF Close, ChainTypeOK, account, payer
<1> QED
  BY <1>1, <1>2, <1>3, <1>4, <1>5, <1>6 DEF ChainStep

\* The client reads the chain, funds the payer and submits transactions.
LEMMA SessionChain ==
  ASSUME TypeOK, Inv, Session
  PROVE  /\ UNCHANGED <<account, plan, gas, mined, expired>>
         /\ \/ UNCHANGED txs
            \/ \E tx \in Tx : tx.status = "pooled" /\ txs' = Append(txs, tx)
         /\ ChainTypeOK'
<1> USE PlanAssumption, ReserveAssumption
<1>1. /\ UNCHANGED <<account, plan, gas, mined, expired>>
      /\ funding' \in {funding, "none", "pooled"}
  <2>1. CASE Fund
    BY <2>1 DEF Fund
  <2>2. CASE ~Fund
    <3>1. Stays
      BY <2>2 DEF Session, Funded, Provision, Deployed, Authorize, Execution, Simulate, Submit,
         Include, Check, LoopDone, Clear, Clearing, Recheck, Refund, SendRefund, Refunded, Calm
    <3> QED  BY <3>1 DEF Stays
  <2> QED  BY <2>1, <2>2
<1>2. \/ UNCHANGED txs
      \/ \E tx \in Tx : tx.status = "pooled" /\ txs' = Append(txs, tx)
  <2>1. CASE Provision
    BY <2>1, FreshType DEF Provision, Returns, Throws
  <2>2. CASE Submit
    BY <2>2, FreshType DEF Submit, Returns, Throws, Inv, OutcomeInv, Actions
  <2>3. CASE Clear
    BY <2>3, FreshType DEF Clear, Returns, Throws
  <2>4. CASE SendRefund
    <3>1. bal - Reserve \in Nat
      BY <2>4 DEF SendRefund, Inv, TypeOK, RefundInv
    <3> QED  BY <2>4, <3>1, FreshType DEF SendRefund, Returns, Throws
  <2>5. CASE ~(Provision \/ Submit \/ Clear \/ SendRefund)
    BY <2>5 DEF Session, Fund, Funded, Deployed, Authorize, Execution, Simulate,
         Include, Check, LoopDone, Clearing, Recheck, Refund, Refunded, Calm
  <2> QED  BY <2>1, <2>2, <2>3, <2>4, <2>5
<1>3. txs' \in Seq(Tx) /\ mined' \in 0 .. Len(txs')
  BY <1>1, <1>2, Submitted DEF TypeOK, ChainTypeOK
<1> QED
  BY <1>1, <1>2, <1>3 DEF TypeOK, ChainTypeOK, account, plan

LEMMA SessionType ==
  ASSUME Inv, Session
  PROVE  TypeOK'
<1> USE PlanAssumption DEF Steps, Outcomes
<1>1. ChainTypeOK' /\ expired' = expired /\ TypeOK
  BY SessionChain DEF Inv
<1>2. gas \in Nat
  BY <1>1 DEF TypeOK, ChainTypeOK
<1>3. at' \in 1 .. ActionCount + 1 /\ sent' \in BOOLEAN /\ refundErr' \in BOOLEAN /\ bal' \in Nat
  <2>1. at' \in 1 .. ActionCount + 1
    <3>1. CASE Check
      <4>1. at \in 1 .. ActionCount
        BY <3>1 DEF Check, Inv, OutcomeInv, Actions
      <4> QED  BY <1>1, <3>1, <4>1 DEF Check, Stop, TypeOK
    <3>2. CASE Simulate
      BY <1>1, <3>2 DEF Simulate, Stop, Quiet, TypeOK
    <3>3. CASE ~Check /\ ~Simulate
      <4>1. at' = at
        BY <3>3 DEF Session, Fund, Funded, Provision, Deployed, Authorize,
           Execution, Submit, Include, LoopDone, Clear, Clearing, Recheck,
           Refund, SendRefund, Refunded, Quiet, Abort, AbortUnfunded, Stop, Leave, Finish, GiveUp
      <4> QED  BY <1>1, <4>1 DEF TypeOK
    <3> QED  BY <3>1, <3>2, <3>3
  <2>2. sent' \in BOOLEAN /\ refundErr' \in BOOLEAN
    BY <1>1 DEF TypeOK, Session, Fund, Funded, Provision, Deployed, Authorize,
           Execution, Simulate, Submit, Include, Check, LoopDone, Clear, Clearing, Recheck,
           Refund, SendRefund, Refunded, Quiet, Abort, AbortUnfunded, Stop, Leave, Finish, GiveUp
  <2>3. bal' \in Nat
    BY <1>1, <1>2 DEF TypeOK, Session, Fund, Funded, Provision, Deployed, Authorize,
           Execution, Simulate, Submit, Include, Check, LoopDone, Clear, Clearing, Recheck,
           Refund, SendRefund, Refunded, Quiet, Abort, AbortUnfunded, Stop, Leave, Finish, GiveUp
  <2> QED  BY <2>1, <2>2, <2>3
<1>4. outcome' \in [Actions -> Outcomes]
  BY <1>1 DEF TypeOK, Session, Fund, Funded, Provision, Deployed, Authorize, Execution,
         Simulate, Submit, Include, Check, LoopDone, Clear, Clearing, Recheck, Refund,
         SendRefund, Refunded, Quiet, Abort, AbortUnfunded, Stop, Leave, Finish, GiveUp,
         Settled
<1>5. pc' \in Steps /\ err' \in {"none", "failed", "notCleared"}
      /\ result' \in {"none", "COMPLETED", "PARTIAL", "FAILED"}
  BY <1>1 DEF TypeOK, Session, Fund, Funded, Provision, Deployed, Authorize, Execution,
         Simulate, Submit, Include, Check, LoopDone, Clear, Clearing, Recheck, Refund,
         SendRefund, Refunded, Quiet, Abort, AbortUnfunded, Stop, Leave, Finish, GiveUp,
         Status
<1> QED
  BY <1>1, <1>3, <1>4, <1>5 DEF TypeOK

-----------------------------------------------------------------------------
(* What the steps preserve.                                                *)

\* What the session's step submits, if anything.
LEMMA SessionTxs ==
  ASSUME Inv, Session
  PROVE  /\ Len(txs) \in Nat /\ Len(txs') \in {Len(txs), Len(txs) + 1}
         /\ \A i \in 1 .. Len(txs) : txs'[i] = txs[i]
         /\ \A i \in 1 .. Len(txs') : i > Len(txs) =>
              /\ txs'[i].status = "pooled"
              /\ txs'[i].kind = "act" => pc = "submit"
              /\ txs'[i].auth = "delegate" => pc = "submit" /\ ~sent /\ txs'[i].kind = "act"
<1> USE PlanAssumption, ReserveAssumption
<1>0. txs \in Seq(Tx) /\ Len(txs) \in Nat
  BY DEF Inv, TypeOK, ChainTypeOK
<1>1. ASSUME NEW kind \in {"deploy", "act", "clear", "refund"}, NEW a \in 0 .. ActionCount,
             NEW auth \in {"none", "delegate", "revoke"}, NEW value \in Nat,
             Throws(Fresh(kind, a, auth, value)),
             kind = "act" => pc = "submit",
             auth = "delegate" => pc = "submit" /\ ~sent /\ kind = "act"
      PROVE  /\ Len(txs') \in {Len(txs), Len(txs) + 1}
             /\ \A i \in 1 .. Len(txs) : txs'[i] = txs[i]
             /\ \A i \in 1 .. Len(txs') : i > Len(txs) =>
                  /\ txs'[i].status = "pooled"
                  /\ txs'[i].kind = "act" => pc = "submit"
                  /\ txs'[i].auth = "delegate" => pc = "submit" /\ ~sent /\ txs'[i].kind = "act"
  <2>1. CASE txs' = txs
    BY <1>0, <2>1
  <2>2. CASE txs' = Append(txs, Fresh(kind, a, auth, value))
    <3> DEFINE tx == Fresh(kind, a, auth, value)
    <3>1. tx \in Tx /\ tx.status = "pooled" /\ tx.kind = kind /\ tx.auth = auth
      BY FreshType
    <3> HIDE DEF tx
    <3>2. /\ Len(txs') = Len(txs) + 1 /\ txs'[Len(txs) + 1] = tx
          /\ \A i \in 1 .. Len(txs) : txs'[i] = txs[i]
      BY <1>0, <2>2, <3>1, Submitted DEF tx
    <3> QED  BY <1>0, <1>1, <3>1, <3>2
  <2> QED  BY <1>1, <2>1, <2>2 DEF Throws
<1>2. CASE Provision
  <2>1. CASE txs' = txs
    BY <1>0, <2>1
  <2>2. CASE Throws(Fresh("deploy", 0, "none", 0))
    BY <1>0, <1>1, <2>2
  <2> QED  BY <1>2, <2>1, <2>2 DEF Provision, Returns, Throws
<1>3. CASE Submit
  <2>1. at \in 0 .. ActionCount /\ pc = "submit"
    BY <1>3 DEF Submit, Inv, OutcomeInv, Actions
  <2>2. CASE sent
    <3>1. Throws(Fresh("act", at, "none", 0))
      BY <1>3, <2>2 DEF Submit, Returns, Throws
    <3> QED  BY <1>0, <1>1, <2>1, <3>1
  <2>3. CASE ~sent
    <3>1. Throws(Fresh("act", at, "delegate", 0))
      BY <1>3, <2>3 DEF Submit, Returns, Throws
    <3> QED  BY <1>0, <1>1, <2>1, <2>3, <3>1
  <2> QED  BY <2>2, <2>3
<1>4. CASE Clear
  <2>1. Throws(Fresh("clear", 0, "revoke", 0))
    BY <1>4 DEF Clear, Returns, Throws
  <2> QED  BY <1>0, <1>1, <2>1
<1>5. CASE SendRefund
  <2>1. bal - Reserve \in Nat
    BY <1>5 DEF SendRefund, Inv, TypeOK, RefundInv
  <2>2. Throws(Fresh("refund", 0, "none", bal - Reserve))
    BY <1>5 DEF SendRefund, Returns, Throws
  <2> QED  BY <1>0, <1>1, <2>1, <2>2
<1>6. CASE ~(Provision \/ Submit \/ Clear \/ SendRefund)
  <2>1. txs' = txs
    BY <1>6 DEF Session, Fund, Funded, Deployed, Authorize, Execution, Simulate,
         Include, Check, LoopDone, Clearing, Recheck, Refund, Refunded, Calm
  <2> QED  BY <1>0, <2>1
<1> QED
  BY <1>0, <1>2, <1>3, <1>4, <1>5, <1>6

\* A session's step, by what it does to the marks of the delegation.
LEMMA SessionMarks ==
  ASSUME Inv, Session
  PROVE  /\ err' = "none" => err = "none"
         /\ sent' # sent => pc = "submit" /\ sent' /\ pc' = "include"
         /\ pc = "submit" => pc' \in {"include", "clear", "refund"}
         /\ pc' \in Unsigned => pc \in Unsigned \cup {"check"}
<1> USE DEF Unsigned
<1>1. CASE Fund \/ Funded \/ Provision \/ Deployed \/ Authorize \/ Execution
  BY <1>1 DEF Fund, Funded, Provision, Deployed, Authorize, Execution, Abort, AbortUnfunded,
       Quiet
<1>2. CASE Simulate \/ Submit \/ Include \/ Check
  BY <1>2 DEF Simulate, Submit, Include, Check, Stop, Quiet, MustClear
<1>3. CASE LoopDone \/ Clear \/ Clearing \/ Recheck
  BY <1>3 DEF LoopDone, Leave, Clear, Clearing, Recheck, Finish, Quiet
<1>4. CASE Refund \/ SendRefund \/ Refunded
  BY <1>4 DEF Refund, SendRefund, Refunded, GiveUp, Quiet
<1> QED
  BY <1>1, <1>2, <1>3, <1>4 DEF Session

LEMMA SessionTx ==
  ASSUME Inv, Session
  PROVE  TxInv'
<1>0. /\ Len(txs) \in Nat /\ Len(txs') \in {Len(txs), Len(txs) + 1}
      /\ \A i \in 1 .. Len(txs) : txs'[i] = txs[i]
      /\ \A i \in 1 .. Len(txs') : i > Len(txs) =>
           /\ txs'[i].status = "pooled"
           /\ txs'[i].kind = "act" => pc = "submit"
           /\ txs'[i].auth = "delegate" => pc = "submit" /\ ~sent /\ txs'[i].kind = "act"
  BY SessionTxs
<1>1. /\ mined' = mined /\ mined \in 0 .. Len(txs)
      /\ err' = "none" => err = "none"
      /\ sent' # sent => pc = "submit" /\ sent' /\ pc' = "include"
      /\ pc = "submit" => pc' \in {"include", "clear", "refund"}
      /\ pc' \in Unsigned => pc \in Unsigned \cup {"check"}
      /\ sent \in BOOLEAN
  BY SessionMarks, SessionChain DEF Inv, TypeOK, ChainTypeOK
<1>2. OnlyFirstDelegates'
  <2> SUFFICES ASSUME NEW i \in 1 .. Len(txs'), NEW j \in 1 .. Len(txs'), i < j,
                      txs'[i].kind = "act", txs'[j].auth = "delegate"
               PROVE  FALSE
    BY DEF OnlyFirstDelegates
  <2>1. i \in 1 .. Len(txs) /\ txs[i].kind = "act"
    BY <1>0
  <2>2. CASE j \in 1 .. Len(txs)
    BY <1>0, <2>1, <2>2 DEF Inv, TxInv, OnlyFirstDelegates
  <2>3. CASE j > Len(txs)
    BY <1>0, <2>1, <2>3 DEF Inv, TxInv, NothingSubmitted, Unsigned
  <2> QED  BY <1>0, <2>2, <2>3
<1>3. ActsCarry'
  BY <1>0 DEF ActsCarry, Inv, TxInv
<1>4. NothingSubmitted'
  <2> SUFFICES ASSUME pc' \in Unsigned, ~sent', NEW i \in 1 .. Len(txs'), txs'[i].kind = "act"
               PROVE  FALSE
    BY DEF NothingSubmitted
  <2>1. pc \in Unsigned /\ ~sent /\ pc # "submit"
    BY <1>1 DEF Inv, ClearInv, Unsigned
  <2>2. i \in 1 .. Len(txs)
    BY <1>0, <2>1
  <2> QED  BY <1>0, <2>1, <2>2 DEF Inv, TxInv, NothingSubmitted
<1>5. MinedFirst'
  BY <1>0, <1>1 DEF MinedFirst, Inv, TxInv
<1>6. Awaited'
  <2> SUFFICES ASSUME pc' = "include"
               PROVE  Len(txs') > 0 /\ Last'.kind = "act" /\ Last'.action = at' /\ at' \in Actions
    BY DEF Awaited
  <2>1. Submit
    BY DEF Session, Fund, Funded, Provision, Deployed, Authorize, Execution, Simulate,
         Include, Check, LoopDone, Clear, Clearing, Recheck, Refund, SendRefund, Refunded,
         Abort, AbortUnfunded, Stop, Leave, Finish, GiveUp
  <2>2. at \in Actions /\ at' = at
    BY <2>1 DEF Submit, Stop, Inv, OutcomeInv
  <2>3. PICK auth \in {"none", "delegate", "revoke"} : txs' = Append(txs, Fresh("act", at, auth, 0))
    BY <2>1 DEF Submit, Stop, Returns, MustClear
  <2>4. /\ Fresh("act", at, auth, 0) \in Tx
        /\ Fresh("act", at, auth, 0).kind = "act" /\ Fresh("act", at, auth, 0).action = at
    BY <2>2, FreshType, PlanAssumption DEF Actions
  <2>5. Len(txs') = Len(txs) + 1 /\ txs'[Len(txs) + 1] = Fresh("act", at, auth, 0)
    BY <2>3, <2>4, Submitted DEF Inv, TypeOK, ChainTypeOK
  <2> QED  BY <1>0, <2>2, <2>4, <2>5 DEF Last
<1> QED
  BY <1>2, <1>3, <1>4, <1>5, <1>6 DEF TxInv

LEMMA SessionReceipts ==
  ASSUME Inv, Session
  PROVE  CodeInv' /\ ReceiptInv'
<1>0. /\ Len(txs) \in Nat /\ Len(txs') \in {Len(txs), Len(txs) + 1}
      /\ \A i \in 1 .. Len(txs) : txs'[i] = txs[i]
      /\ \A i \in 1 .. Len(txs') : i > Len(txs) =>
           /\ txs'[i].status = "pooled"
           /\ txs'[i].auth = "delegate" => pc = "submit" /\ ~sent
  BY SessionTxs
<1>1. /\ code' = code /\ nonce' = nonce /\ executed' = executed
      /\ mined' = mined /\ mined \in 0 .. Len(txs)
  BY SessionChain DEF Inv, TypeOK, ChainTypeOK, account, plan
<1>2. CodeInv'
  BY <1>0, <1>1 DEF CodeInv, Inv
<1>3. ASSUME NEW i \in 1 .. Len(txs'), txs'[i].kind = "act", txs'[i].status = "ok"
      PROVE  txs'[i].action \in executed' \/ Missed'
  <2>1. i \in 1 .. Len(txs) /\ txs[i].kind = "act" /\ txs[i].status = "ok"
    BY <1>0, <1>3
  <2>2. txs[i].action \in executed \/ Missed
    BY <2>1 DEF Inv, ReceiptInv
  <2>3. ~(pc = "submit" /\ ~sent)
    BY <2>1 DEF Inv, TxInv, NothingSubmitted, Unsigned
  <2>4. Missed => Missed'
    BY <1>0, <1>1, <2>3 DEF Missed
  <2> QED  BY <1>0, <1>1, <2>1, <2>2, <2>4
<1> QED
  BY <1>2, <1>3 DEF ReceiptInv

\* The inspection after an action would see that a receipt did not execute it.
LEMMA SessionOutcomes ==
  ASSUME Inv, Session
  PROVE  OutcomeInv'
<1> USE DEF Ending
<1>0. /\ executed' = executed /\ (err' = "none" => err = "none") /\ TypeOK
  BY SessionChain, SessionMarks DEF Inv, plan
<1>1. at' \in Actions \/ pc' \notin {"submit", "include", "check"}
  <2>1. CASE Simulate
    <3>1. at \in Actions
      BY <2>1 DEF Simulate, Inv, TypeOK, Actions
    <3> QED  BY <2>1, <3>1 DEF Simulate, Stop, Quiet, MustClear
  <2>2. CASE Submit \/ Include
    BY <2>2 DEF Submit, Include, Stop, Inv, OutcomeInv, MustClear
  <2>3. CASE ~(Simulate \/ Submit \/ Include)
    BY <2>3 DEF Session, Fund, Funded, Provision, Deployed, Authorize, Execution,
         Check, LoopDone, Clear, Clearing, Recheck, Refund, SendRefund, Refunded,
         Abort, AbortUnfunded, Stop, Leave, Finish, GiveUp, MustClear, Quiet
  <2> QED  BY <2>1, <2>2, <2>3
<1>2. result' # "none" => err' = "none" /\ pc' \in Ending
  <2>1. CASE Fund \/ Funded \/ Provision \/ Deployed \/ Authorize \/ Execution
    BY <2>1 DEF Fund, Funded, Provision, Deployed, Authorize, Execution, Abort, AbortUnfunded,
         Quiet, Inv, OutcomeInv
  <2>2. CASE Simulate \/ Submit \/ Include \/ Check
    BY <2>2 DEF Simulate, Submit, Include, Check, Stop, Quiet, Inv, OutcomeInv
  <2>3. CASE LoopDone \/ Clear \/ Clearing \/ Recheck
    BY <2>3 DEF LoopDone, Leave, Clear, Clearing, Recheck, Finish, Quiet, Inv, OutcomeInv
  <2>4. CASE Refund \/ SendRefund \/ Refunded
    BY <2>4 DEF Refund, SendRefund, Refunded, GiveUp, Quiet, Inv, OutcomeInv
  <2> QED  BY <2>1, <2>2, <2>3, <2>4 DEF Session
<1>3. ASSUME err' = "none", NEW a \in Actions, outcome'[a] = "COMPLETED"
      PROVE  a \in executed' \/ (pc' = "check" /\ a = at' /\ Missed')
  <2>1. CASE Include
    <3>1. ~Stop /\ Included /\ pc' = "check" /\ at' = at /\ at \in Actions
          /\ Settled(IF Last.status = "ok" THEN "COMPLETED" ELSE "TRANSACTION_REVERTED")
          /\ UNCHANGED txs /\ Len(txs) \in Nat
      BY <1>3, <2>1 DEF Include, Stop, Inv, OutcomeInv, Calm, TypeOK, ChainTypeOK
    <3>2. CASE a # at
      BY <1>0, <1>3, <2>1, <3>1, <3>2 DEF Settled, Include, Inv, OutcomeInv, TypeOK
    <3>3. CASE a = at
      <4>1. Last.status = "ok"
        BY <1>0, <1>3, <3>1, <3>3 DEF Settled, TypeOK
      <4>2. Last.kind = "act" /\ Last.action = a /\ Len(txs) > 0
        BY <2>1, <3>3 DEF Include, Inv, TxInv, Awaited
      <4>3. a \in executed \/ Missed
        BY <3>1, <4>1, <4>2 DEF Inv, ReceiptInv, Last
      <4>4. Missed => Missed'
        BY <2>1 DEF Include, Calm, Stays, Missed, account
      <4> QED  BY <1>0, <3>1, <3>3, <4>3, <4>4
    <3> QED  BY <3>2, <3>3
  <2>2. CASE Check
    <3>1. ~Stop /\ Undisturbed /\ outcome' = outcome
      BY <1>3, <2>2 DEF Check, Stop
    <3>2. ~Missed
      BY <3>1 DEF Undisturbed, Missed
    <3> QED  BY <1>0, <1>3, <3>1, <3>2 DEF Inv, OutcomeInv
  <2>3. CASE Simulate
    <3>1. outcome' = outcome \/ (Settled("SIMULATION_FAILED") /\ at \in Actions)
      BY <2>3 DEF Simulate, Stop, Quiet, Inv, TypeOK, Actions
    <3>2. outcome[a] = "COMPLETED"
      BY <1>0, <1>3, <3>1 DEF Settled, TypeOK
    <3> QED  BY <1>0, <1>3, <2>3, <3>2 DEF Inv, OutcomeInv, Simulate
  <2>4. CASE ~(Include \/ Check \/ Simulate)
    <3>1. outcome' = outcome /\ pc # "check"
      BY <2>4 DEF Session, Fund, Funded, Provision, Deployed, Authorize, Execution,
           Submit, LoopDone, Clear, Clearing, Recheck, Refund, SendRefund, Refunded,
           Abort, AbortUnfunded, Stop, Leave, Finish, GiveUp, Quiet
    <3> QED  BY <1>0, <1>3, <3>1 DEF Inv, OutcomeInv
  <2> QED  BY <2>1, <2>2, <2>3, <2>4
<1> QED
  BY <1>1, <1>2, <1>3 DEF OutcomeInv

\* `execute` returns a result only where nothing was submitted or the source is cleared.
LEMMA SessionClears ==
  ASSUME Inv, Session
  PROVE  ClearInv'
<1>0. /\ code' = code /\ nonce' = nonce /\ (err' = "none" => err = "none") /\ TypeOK
      /\ Len(txs) \in Nat
      /\ sent' # sent => pc = "submit" /\ sent' /\ pc' = "include"
      /\ \A i \in 1 .. Len(txs) : txs'[i] = txs[i]
      /\ \A i \in 1 .. Len(txs') : i > Len(txs) /\ txs'[i].auth = "delegate" => pc = "submit"
  BY SessionChain, SessionMarks, SessionTxs DEF Inv, account
<1>1. err' = "none" /\ sent' /\ pc' \in {"next", "submit", "clear", "clearing", "recheck"}
        => nonce' > SourceNonce
  <2> SUFFICES ASSUME err' = "none", sent',
                      pc' \in {"next", "submit", "clear", "clearing", "recheck"}
               PROVE  nonce > SourceNonce
    BY <1>0
  <2>1. CASE Check
    <3>1. code = "incident"
      BY <2>1 DEF Check, Stop, Undisturbed
    <3> QED  BY <3>1 DEF Inv, CodeInv
  <2>2. CASE ~Check
    <3>1. sent /\ pc \in {"next", "submit", "clear", "clearing", "recheck", "execute"}
      BY <1>0, <2>2 DEF Session, Fund, Funded, Provision, Deployed, Authorize, Execution,
           Simulate, Submit, Include, LoopDone, Clear, Clearing, Recheck, Refund, SendRefund,
           Refunded, Abort, AbortUnfunded, Stop, Leave, Finish, GiveUp, Quiet
    <3> QED  BY <1>0, <3>1 DEF Inv, ClearInv
  <2> QED  BY <2>1, <2>2
<1>2. pc' \in {"include", "check", "clear", "clearing", "recheck"} => sent'
  <2>1. CASE Fund \/ Funded \/ Provision \/ Deployed \/ Authorize \/ Execution
    BY <2>1 DEF Fund, Funded, Provision, Deployed, Authorize, Execution, Abort, AbortUnfunded
  <2>2. CASE Simulate \/ Submit
    BY <2>2 DEF Simulate, Submit, Stop, Quiet, MustClear
  <2>3. CASE Include \/ Check
    BY <2>3 DEF Include, Check, Stop, MustClear, Inv, ClearInv
  <2>4. CASE LoopDone \/ Clear \/ Clearing \/ Recheck
    BY <2>4 DEF LoopDone, Leave, Clear, Clearing, Recheck, Finish, Quiet, MustClear, Inv, ClearInv
  <2>5. CASE Refund \/ SendRefund \/ Refunded
    BY <2>5 DEF Refund, SendRefund, Refunded, GiveUp, Quiet
  <2> QED  BY <2>1, <2>2, <2>3, <2>4, <2>5 DEF Session
<1>3. pc' \in {"fund", "funding", "provision", "deploying", "authorize", "execute"} => ~sent'
  <2>1. CASE Fund \/ Funded \/ Provision \/ Deployed \/ Authorize \/ Execution
    BY <2>1 DEF Fund, Funded, Provision, Deployed, Authorize, Execution, Abort, AbortUnfunded,
         Quiet, Inv, ClearInv
  <2>2. CASE Simulate \/ Submit \/ Include \/ Check
    BY <2>2 DEF Simulate, Submit, Include, Check, Stop, Quiet, MustClear
  <2>3. CASE LoopDone \/ Clear \/ Clearing \/ Recheck
    BY <2>3 DEF LoopDone, Leave, Clear, Clearing, Recheck, Finish, Quiet
  <2>4. CASE Refund \/ SendRefund \/ Refunded
    BY <2>4 DEF Refund, SendRefund, Refunded, GiveUp, Quiet
  <2> QED  BY <2>1, <2>2, <2>3, <2>4 DEF Session
<1>4. ASSUME result' # "none"
      PROVE  /\ code' # "incident"
             /\ \A i \in 1 .. Len(txs') : txs'[i].auth = "delegate" => nonce' > SourceNonce
  <2>1. /\ pc # "submit"
        /\ code # "incident"
        /\ \A i \in 1 .. Len(txs) : txs[i].auth = "delegate" => nonce > SourceNonce
    <3>1. CASE result = "none"
      <4>1. err = "none" /\ \/ pc = "next" /\ ~sent
                            \/ pc \in {"clearing", "recheck"} /\ Cleared
        BY <1>4, <3>1 DEF Session, Fund, Funded, Provision, Deployed, Authorize, Execution,
             Simulate, Submit, Include, Check, LoopDone, Clear, Clearing, Recheck, Refund,
             SendRefund, Refunded, Abort, AbortUnfunded, Stop, Leave, Finish, GiveUp, Quiet,
             MustClear
      <4>2. CASE pc = "next" /\ ~sent
        <5>1. \A i \in 1 .. Len(txs) : txs[i].auth # "delegate"
          BY <4>2 DEF Inv, TxInv, NothingSubmitted, ActsCarry, Unsigned
        <5> QED  BY <4>2, <5>1 DEF Inv, CodeInv, TypeOK, ChainTypeOK
      <4>3. CASE pc \in {"clearing", "recheck"} /\ Cleared
        BY <4>1, <4>3 DEF Inv, ClearInv, Cleared
      <4> QED  BY <4>1, <4>2, <4>3
    <3>2. CASE result # "none"
      BY <3>2 DEF Inv, ClearInv, OutcomeInv, Ending
    <3> QED  BY <3>1, <3>2
  <2>2. Len(txs') \in Nat
    BY SessionTxs, <1>0
  <2> QED  BY <1>0, <2>1, <2>2
<1> QED
  BY <1>1, <1>2, <1>3, <1>4 DEF ClearInv

LEMMA SessionRefunds ==
  ASSUME Inv, Session
  PROVE  RefundInv'
<1> USE DEF Ending
<1>0. gas' = gas /\ gas \in Nat /\ bal \in Nat
      /\ (result' # "none" => err' = "none" /\ pc' \in Ending)
  BY SessionChain, SessionOutcomes DEF Inv, TypeOK, ChainTypeOK, OutcomeInv
<1>1. pc' \notin {"fund", "funding"} /\ ~(pc' = "over" /\ result' = "none") => funding' = "mined"
  <2>1. CASE Fund
    BY <2>1 DEF Fund, AbortUnfunded, Quiet, Inv, OutcomeInv
  <2>2. CASE Funded
    BY <2>2 DEF Funded, AbortUnfunded, Quiet, Inv, OutcomeInv, Calm, Stays
  <2>3. CASE ~Fund /\ ~Funded
    <3>1. funding' = funding
      BY <2>3 DEF Session, Provision, Deployed, Authorize, Execution, Simulate, Submit,
         Include, Check, LoopDone, Clear, Clearing, Recheck, Refund, SendRefund, Refunded,
         Calm, Stays
    <3>2. pc \notin {"fund", "funding", "over"}
      BY <2>3 DEF Session, Provision, Deployed, Authorize, Execution, Simulate, Submit,
         Include, Check, LoopDone, Clear, Clearing, Recheck, Refund, SendRefund, Refunded
    <3> QED  BY <3>1, <3>2 DEF Inv, RefundInv
  <2> QED  BY <2>1, <2>2, <2>3
<1>2. CASE Refund
  BY <1>0, <1>1, <1>2, ReserveAssumption
  DEF Refund, GiveUp, Affordable, RefundInv, GasComesBack
<1>3. CASE SendRefund
  <2>1. bal > Reserve /\ gas <= bal /\ bal' = bal /\ bal - Reserve \in Nat
    BY <1>0, <1>3, ReserveAssumption DEF SendRefund, Quiet, GiveUp, Inv, RefundInv
  <2>2. CASE Returns(Fresh("refund", 0, "none", bal - Reserve)) /\ pc' = "refunded"
    <3> DEFINE tx == Fresh("refund", 0, "none", bal - Reserve)
    <3>1. tx \in Tx /\ tx.kind = "refund" /\ tx.value = bal - Reserve /\ tx.status = "pooled"
      BY <2>1, FreshType, PlanAssumption
    <3> HIDE DEF tx
    <3>2. Len(txs') = Len(txs) + 1 /\ txs'[Len(txs) + 1] = tx /\ Len(txs) \in Nat
      BY <2>2, <3>1, Submitted DEF Returns, tx, Inv, TypeOK, ChainTypeOK
    <3>3. Len(txs') > 0 /\ Last' = tx
      BY <3>2 DEF Last
    <3> QED  BY <1>0, <1>1, <2>1, <2>2, <3>1, <3>3 DEF RefundInv, GasComesBack
  <2>3. CASE GiveUp
    BY <1>1, <2>3 DEF GiveUp, RefundInv, GasComesBack
  <2> QED  BY <1>3, <2>2, <2>3 DEF SendRefund
<1>4. CASE Refunded
  <2>1. CASE GiveUp
    BY <1>1, <2>1 DEF GiveUp, RefundInv, GasComesBack
  <2>2. CASE Included /\ Last.status = "ok" /\ pc' = "over" /\ Quiet
    BY <1>0, <1>1, <1>4, <2>2 DEF Refunded, Inv, RefundInv, GasComesBack
  <2> QED  BY <1>4, <2>1, <2>2 DEF Refunded
<1>5. CASE ~(Refund \/ SendRefund \/ Refunded)
  <2>1. pc' \notin {"refunding", "refunded"} /\ (pc' = "over" => result' = "none")
    BY <1>0, <1>5 DEF Session, Fund, Funded, Provision, Deployed, Authorize, Execution, Simulate,
         Submit, Include, Check, LoopDone, Clear, Clearing, Recheck, Abort, AbortUnfunded,
         Stop, Leave, Finish, Inv, OutcomeInv
  <2> QED  BY <1>1, <2>1 DEF RefundInv, GasComesBack
<1> QED
  BY <1>2, <1>3, <1>4, <1>5

-----------------------------------------------------------------------------
(* Steps of the chain.                                                     *)

\* The chain keeps what was submitted, in its order.
LEMMA ChainTxs ==
  ASSUME Inv, ChainStep
  PROVE  /\ Len(txs) \in Nat /\ Len(txs') = Len(txs) /\ mined \in 0 .. Len(txs)
         /\ \A i \in 1 .. Len(txs) : /\ txs'[i].kind = txs[i].kind
                                   /\ txs'[i].action = txs[i].action
                                   /\ txs'[i].auth = txs[i].auth
                                   /\ txs'[i].value = txs[i].value
         /\ \A i \in 1 .. Len(txs) : i # mined + 1 => txs'[i] = txs[i]
         /\ \/ mined' = mined /\ txs' = txs
            \/ /\ mined' = mined + 1 /\ mined + 1 \in 1 .. Len(txs)
               /\ txs'[mined + 1].status \in {"ok", "reverted"}
               /\ Mine(txs[mined + 1], txs'[mined + 1].status)
<1>0. txs \in Seq(Tx) /\ Len(txs) \in Nat /\ mined \in 0 .. Len(txs) /\ ChainTypeOK
  BY DEF Inv, TypeOK, ChainTypeOK
<1>1. ASSUME mined < Len(txs), NEW status \in {"ok", "reverted"},
             Mine(txs[mined + 1], status)
      PROVE  /\ Len(txs') = Len(txs) /\ mined' = mined + 1 /\ mined + 1 \in 1 .. Len(txs)
             /\ \A i \in 1 .. Len(txs) : i # mined + 1 => txs'[i] = txs[i]
             /\ txs'[mined + 1] = [txs[mined + 1] EXCEPT !.status = status]
             /\ txs[mined + 1] \in Tx
  BY <1>0, <1>1, MinedTxs
<1>2. CASE \E status \in {"ok", "reverted"} : mined < Len(txs) /\ Mine(txs[mined + 1], status)
  <2>1. PICK status \in {"ok", "reverted"} : mined < Len(txs) /\ Mine(txs[mined + 1], status)
    BY <1>2
  <2> DEFINE x == [txs[mined + 1] EXCEPT !.status = status]
  <2>2. /\ Len(txs') = Len(txs) /\ mined' = mined + 1 /\ mined + 1 \in 1 .. Len(txs)
        /\ \A i \in 1 .. Len(txs) : i # mined + 1 => txs'[i] = txs[i]
        /\ txs'[mined + 1] = x /\ txs[mined + 1] \in Tx
    BY <1>1, <2>1
  <2>3. /\ x.status = status /\ x.kind = txs[mined + 1].kind
        /\ x.action = txs[mined + 1].action /\ x.auth = txs[mined + 1].auth
        /\ x.value = txs[mined + 1].value
    BY <2>2 DEF Tx
  <2> HIDE DEF x
  <2> QED  BY <1>0, <2>1, <2>2, <2>3
<1>3. CASE ~ \E status \in {"ok", "reverted"} : mined < Len(txs) /\ Mine(txs[mined + 1], status)
  <2>1. txs' = txs /\ mined' = mined
    BY <1>3 DEF ChainStep, MineFunding, ExecuteElsewhere, SourceSends, SourceMined, Close, payer
  <2> QED  BY <1>0, <2>1
<1> QED
  BY <1>2, <1>3

\* What the chain never takes back; the incident's code comes only by the delegation.
LEMMA ChainMonotone ==
  ASSUME Inv, ChainStep
  PROVE  /\ executed \subseteq executed' /\ nonce' >= nonce
         /\ code' = "incident" /\ code # "incident" =>
              /\ mined' = mined + 1 /\ nonce' > SourceNonce /\ nonce = SourceNonce
              /\ mined + 1 \in 1 .. Len(txs) /\ txs[mined + 1].auth = "delegate"
         /\ executed' # executed =>
              \/ code = "incident"
              \/ /\ mined + 1 \in 1 .. Len(txs) /\ txs[mined + 1].auth = "delegate"
                 /\ nonce = SourceNonce
         /\ funding = "mined" => funding' = "mined" /\ gas' <= gas
<1> USE PlanAssumption
<1>0. /\ nonce \in Nat /\ own \in Nat /\ gas \in Nat /\ executed \subseteq Actions
      /\ code \in {"none", "incident", "foreign"}
  BY DEF Inv, TypeOK, ChainTypeOK
<1>1. CASE mined' = mined + 1
  <2>1. PICK status \in {"ok", "reverted"} : Mine(txs[mined + 1], status)
    BY <1>0, <1>1, ChainTxs
  <2>2. mined + 1 \in 1 .. Len(txs) /\ txs[mined + 1].value \in Nat
    <3>1. mined + 1 \in 1 .. Len(txs)
      BY <1>1, ChainTxs
    <3>2. txs[mined + 1] \in Tx
      BY <3>1 DEF Inv, TypeOK, ChainTypeOK
    <3> QED  BY <3>1, <3>2 DEF Tx
  <2> DEFINE tx == txs[mined + 1]
  <2> HIDE DEF tx
  <2>3. Mine(tx, status) /\ tx.value \in Nat
    BY <2>1, <2>2 DEF tx
  <2>4. funding' = funding /\ gas' <= gas
    BY <1>0, <2>3 DEF Mine
  <2>5. nonce' >= nonce
    BY <1>0, <2>3 DEF Mine, Bump
  <2>6. executed \subseteq executed'
        /\ (executed' # executed => CodeAfter(tx.auth) = "incident")
    BY <2>3 DEF Mine, Runs, Execute
  <2>7. CodeAfter(tx.auth) = "incident" /\ code # "incident"
          => nonce = SourceNonce /\ tx.auth = "delegate" /\ Applies(tx.auth)
    BY DEF CodeAfter, Applies
  <2>8. Applies(tx.auth) => nonce' = nonce + 1
    BY <2>3 DEF Mine, Bump
  <2>9. code' = CodeAfter(tx.auth)
    BY <2>3 DEF Mine
  <2> QED  BY <1>0, <1>1, <2>2, <2>4, <2>5, <2>6, <2>7, <2>8, <2>9 DEF tx
<1>2. CASE mined' # mined + 1
  <2>0. ~ \E status \in {"ok", "reverted"} : Mine(txs[mined + 1], status)
    BY <1>2 DEF Mine
  <2>1. CASE MineFunding
    BY <1>0, <2>1 DEF MineFunding, account, plan
  <2>2. ASSUME NEW S \in SUBSET Actions, ExecuteElsewhere(S)
        PROVE  /\ executed \subseteq executed' /\ nonce' = nonce /\ code' = code
               /\ code = "incident" /\ funding' = funding /\ gas' = gas
    BY <2>2 DEF ExecuteElsewhere, Execute, account, payer
  <2>3. ASSUME NEW S \in SUBSET Actions, SourceMined(S)
        PROVE  /\ executed' = executed /\ nonce' >= nonce
               /\ (code' = code \/ code' # "incident") /\ funding' = funding /\ gas' = gas
    BY <1>0, <2>3 DEF SourceMined, Bump, payer
  <2>4. CASE SourceSends \/ Close
    BY <1>0, <2>4 DEF SourceSends, Close, plan, payer, account
  <2> QED  BY <1>0, <2>0, <2>1, <2>2, <2>3, <2>4 DEF ChainStep
<1> QED
  BY <1>1, <1>2

\* Without the incident's code and a delegation that waits, it does not come.
LEMMA ChainMissed ==
  ASSUME Inv, ChainStep, Missed
  PROVE  Missed'
<1>1. /\ Len(txs) \in Nat /\ Len(txs') = Len(txs) /\ mined \in 0 .. Len(txs)
      /\ \A i \in 1 .. Len(txs) : txs'[i].auth = txs[i].auth
      /\ mined' \in {mined, mined + 1}
  BY ChainTxs
<1>2. code' # "incident"
  BY <1>1, ChainMonotone DEF Missed
<1> QED
  BY <1>1, <1>2 DEF Missed

LEMMA ChainTx ==
  ASSUME Inv, ChainStep, UNCHANGED session
  PROVE  TxInv'
<1>1. /\ Len(txs) \in Nat /\ Len(txs') = Len(txs) /\ mined \in 0 .. Len(txs)
      /\ \A i \in 1 .. Len(txs) : /\ txs'[i].kind = txs[i].kind
                                /\ txs'[i].action = txs[i].action
                                /\ txs'[i].auth = txs[i].auth
  BY ChainTxs
<1>2. /\ \A i \in 1 .. Len(txs) : i # mined + 1 => txs'[i] = txs[i]
      /\ \/ mined' = mined /\ txs' = txs
         \/ /\ mined' = mined + 1 /\ mined + 1 \in 1 .. Len(txs)
            /\ txs'[mined + 1].status \in {"ok", "reverted"}
  BY ChainTxs
<1>3. OnlyFirstDelegates' /\ ActsCarry'
  BY <1>1 DEF Inv, TxInv, OnlyFirstDelegates, ActsCarry
<1>4. NothingSubmitted'
  BY <1>1 DEF Inv, TxInv, NothingSubmitted, session
<1>5. MinedFirst'
  BY <1>1, <1>2 DEF Inv, TxInv, MinedFirst
<1>6. Awaited'
  BY <1>1 DEF Inv, TxInv, Awaited, Last, session
<1> QED
  BY <1>3, <1>4, <1>5, <1>6 DEF TxInv

\* A mined action that succeeded was executed, or could not have been.
LEMMA ChainReceipts ==
  ASSUME Inv, ChainStep
  PROVE  CodeInv' /\ ReceiptInv'
<1>1. /\ Len(txs) \in Nat /\ Len(txs') = Len(txs) /\ mined \in 0 .. Len(txs)
      /\ \A i \in 1 .. Len(txs) : /\ txs'[i].kind = txs[i].kind
                                /\ txs'[i].action = txs[i].action
                                /\ txs'[i].auth = txs[i].auth
      /\ \A i \in 1 .. Len(txs) : i # mined + 1 => txs'[i] = txs[i]
      /\ \/ mined' = mined /\ txs' = txs
         \/ /\ mined' = mined + 1 /\ mined + 1 \in 1 .. Len(txs)
            /\ Mine(txs[mined + 1], txs'[mined + 1].status)
  BY ChainTxs
<1>2. CodeInv'
  <2>1. CASE code' = "incident" /\ code # "incident"
    BY <1>1, <2>1, ChainMonotone DEF CodeInv
  <2>2. CASE code' = "incident" /\ code = "incident"
    <3>1. nonce > SourceNonce /\ \E i \in 1 .. mined : txs[i].auth = "delegate"
      BY <2>2 DEF Inv, CodeInv
    <3>2. nonce' > SourceNonce
      BY <3>1, ChainMonotone, PlanAssumption, ChainType DEF Inv, TypeOK, ChainTypeOK
    <3>3. \E i \in 1 .. mined' : txs'[i].auth = "delegate"
      BY <1>1, <3>1
    <3> QED  BY <3>2, <3>3 DEF CodeInv
  <2> QED  BY <2>1, <2>2 DEF CodeInv
<1>3. ASSUME NEW i \in 1 .. Len(txs'), txs'[i].kind = "act", txs'[i].status = "ok"
      PROVE  txs'[i].action \in executed' \/ Missed'
  <2>1. CASE mined' = mined + 1 /\ i = mined + 1
    <3> DEFINE tx == txs[i]
    <3>1. Mine(tx, "ok") /\ tx.kind = "act" /\ txs'[i].action = tx.action
          /\ \A j \in 1 .. Len(txs) : j > i => txs[j].auth # "delegate"
      BY <1>1, <1>3, <2>1 DEF Inv, TxInv, OnlyFirstDelegates
    <3> HIDE DEF tx
    <3>2. CASE CodeAfter(tx.auth) = "incident"
      BY <3>1, <3>2 DEF Mine, Runs, Execute
    <3>3. CASE CodeAfter(tx.auth) # "incident"
      <4>1. code' # "incident"
        BY <3>1, <3>3 DEF Mine
      <4> QED  BY <1>1, <2>1, <3>1, <4>1 DEF Missed
    <3> QED  BY <3>2, <3>3
  <2>2. CASE ~(mined' = mined + 1 /\ i = mined + 1)
    <3>1. i \in 1 .. Len(txs) /\ txs[i].kind = "act" /\ txs'[i] = txs[i]
      BY <1>1, <1>3, <2>2
    <3>2. txs[i].action \in executed \/ Missed
      BY <1>3, <3>1 DEF Inv, ReceiptInv
    <3> QED  BY <3>1, <3>2, ChainMissed, ChainMonotone
  <2> QED  BY <2>1, <2>2
<1> QED
  BY <1>2, <1>3 DEF ReceiptInv

LEMMA ChainSession ==
  ASSUME Inv, ChainStep, UNCHANGED session
  PROVE  OutcomeInv' /\ ClearInv' /\ RefundInv'
<1> USE PlanAssumption, ReserveAssumption
<1>0. UNCHANGED <<pc, at, sent, outcome, err, result, bal, refundErr>>
  BY DEF session
<1>1. OutcomeInv'
  <2>1. executed \subseteq executed' /\ (Missed => Missed')
    BY ChainMonotone, ChainMissed
  <2> QED  BY <1>0, <2>1 DEF Inv, OutcomeInv
<1>2. nonce \in Nat /\ nonce' \in Nat /\ nonce' >= nonce /\ gas \in Nat /\ gas' \in Nat /\ bal \in Nat
  BY ChainMonotone, ChainType DEF Inv, TypeOK, ChainTypeOK
<1>3. ClearInv'
  <2>1. ASSUME result # "none"
        PROVE  /\ code' # "incident"
               /\ \A i \in 1 .. Len(txs') : txs'[i].auth = "delegate" => nonce' > SourceNonce
    <3>1. /\ code # "incident"
          /\ \A i \in 1 .. Len(txs) : txs[i].auth = "delegate" => nonce > SourceNonce
      BY <2>1 DEF Inv, ClearInv
    <3>2. code' # "incident"
      BY <1>2, <3>1, ChainMonotone
    <3> QED  BY <1>2, <3>1, <3>2, ChainTxs
  <2> QED  BY <1>0, <1>2, <2>1 DEF Inv, ClearInv
<1>4. RefundInv'
  <2>1. funding = "mined" => funding' = "mined" /\ gas' <= gas
    BY ChainMonotone
  <2>2. pc = "refunded" => /\ Len(txs') > 0 /\ Last'.kind = "refund"
                           /\ Last'.value = bal - Reserve
                           /\ Last'.status = "ok" => gas' <= Reserve
    <3> SUFFICES ASSUME pc = "refunded"
                 PROVE  /\ Len(txs') > 0 /\ Last'.kind = "refund"
                        /\ Last'.value = bal - Reserve
                        /\ Last'.status = "ok" => gas' <= Reserve
      OBVIOUS
    <3>1. /\ Len(txs) > 0 /\ Last.kind = "refund" /\ Last.value = bal - Reserve
          /\ Last.status = "ok" => gas <= Reserve
          /\ gas <= bal /\ gas' <= gas
      BY <2>1 DEF Inv, RefundInv
    <3>2. Len(txs') = Len(txs) /\ Len(txs) \in Nat
          /\ Last'.kind = "refund" /\ Last'.value = bal - Reserve
      BY <3>1, ChainTxs DEF Last
    <3>3. CASE Last' = Last
      BY <1>2, <3>1, <3>2, <3>3
    <3>4. CASE Last' # Last
      <4>1. Mine(Last, Last'.status)
        BY <3>2, <3>1, <3>4, ChainTxs DEF Last
      <4>2. gas' = gas - 1 - (bal - Reserve)
        BY <3>1, <4>1 DEF Mine
      <4> QED  BY <1>2, <3>1, <3>2, <4>2
    <3> QED  BY <3>3, <3>4
  <2>3. GasComesBack'
    BY <1>0, <1>2, <2>1 DEF Inv, RefundInv, OutcomeInv, Ending, GasComesBack
  <2> QED  BY <1>0, <1>2, <2>1, <2>2, <2>3 DEF Inv, RefundInv
<1> QED
  BY <1>1, <1>3, <1>4

-----------------------------------------------------------------------------
(* The invariant and the theorems.                                         *)

LEMMA Initially ==
  ASSUME Init
  PROVE  Inv
<1> USE PlanAssumption, GasAssumption DEF Init, ChainInit
<1>1. TypeOK
  <2>1. nonce \in Nat /\ own \in Nat /\ gas \in Nat
    OBVIOUS
  <2>2. txs \in Seq(Tx) /\ mined \in 0 .. Len(txs)
    OBVIOUS
  <2>3. ChainTypeOK
    BY <2>1, <2>2 DEF ChainTypeOK
  <2>4. outcome \in [Actions -> Outcomes]
    BY DEF Outcomes
  <2>5. pc \in Steps /\ at \in 1 .. ActionCount + 1
    BY DEF Steps
  <2> QED  BY <2>3, <2>4, <2>5 DEF TypeOK
<1>2. TxInv
  BY DEF TxInv, OnlyFirstDelegates, ActsCarry, NothingSubmitted, MinedFirst, Awaited
<1>3. CodeInv /\ ReceiptInv
  BY DEF CodeInv, ReceiptInv
<1>4. OutcomeInv /\ ClearInv /\ RefundInv
  BY DEF OutcomeInv, ClearInv, RefundInv, GasComesBack
<1> QED
  BY <1>1, <1>2, <1>3, <1>4 DEF Inv

LEMMA Stuttering ==
  ASSUME Inv, UNCHANGED <<chain, session>>, expired' \in BOOLEAN
  PROVE  Inv'
<1> USE DEF chain, account, plan, payer, session
<1>1. TypeOK'
  BY DEF Inv, TypeOK, ChainTypeOK
<1>2. TxInv'
  BY DEF Inv, TxInv, OnlyFirstDelegates, ActsCarry, NothingSubmitted, MinedFirst, Awaited, Last
<1>3. CodeInv' /\ ReceiptInv'
  BY DEF Inv, CodeInv, ReceiptInv, Missed
<1>4. OutcomeInv' /\ ClearInv' /\ RefundInv'
  BY DEF Inv, OutcomeInv, ClearInv, RefundInv, GasComesBack, Missed, Last
<1> QED
  BY <1>1, <1>2, <1>3, <1>4 DEF Inv

LEMMA Inductive ==
  ASSUME Inv, [Next]_vars
  PROVE  Inv'
<1>1. CASE Session
  BY <1>1, SessionType, SessionTx, SessionReceipts, SessionOutcomes, SessionClears, SessionRefunds
  DEF Inv
<1>2. CASE ChainStep /\ UNCHANGED <<session, expired>>
  <2>1. TypeOK'
    BY <1>2, ChainType DEF Inv, TypeOK, session
  <2> QED  BY <1>2, <2>1, ChainTx, ChainReceipts, ChainSession DEF Inv
<1>3. CASE Expire \/ UNCHANGED vars
  <2>1. UNCHANGED <<chain, session>> /\ expired' \in BOOLEAN
    BY <1>3 DEF Expire, vars, Inv, TypeOK
  <2> QED  BY <2>1, Stuttering
<1> QED
  BY <1>1, <1>2, <1>3 DEF Next

\* The state stays within its types: in particular the refund's value
\* (balance - reserve, unsigned) is never negative.
THEOREM TypeCorrect == Spec => []TypeOK
<1>1. Inv => TypeOK
  BY DEF Inv
<1> QED
  BY <1>1, Initially, Inductive, PTL DEF Spec

\* `execute` (eip7702-runtime.ts) never reports an action COMPLETED that the
\* delegate has not executed, whatever the source's other keys do meanwhile.
THEOREM ReportsAreTrue == Spec => []OutcomesAreTrue
<1>1. Inv => OutcomesAreTrue
  BY DEF Inv, OutcomeInv, OutcomesAreTrue, Ending
<1> QED
  BY <1>1, Initially, Inductive, PTL DEF Spec

\* A source for which `execute` returned a result is not delegated to the
\* incident's delegate, and stays so whatever is still to be mined.
THEOREM ReturnsAreUndelegated == Spec => []ReturnsUndelegated
<1>1. Inv => ReturnsUndelegated
  BY DEF Inv, ClearInv, ReturnsUndelegated
<1> QED
  BY <1>1, Initially, Inductive, PTL DEF Spec

\* After a result no action of the plan is executed any more, by anybody.
THEOREM ResultsAreFinal == Spec => ResultIsFinal
<1>1. ASSUME Inv, [Next]_vars, result # "none"
      PROVE  executed' = executed
  <2>1. CASE Session
    BY <1>1, <2>1, SessionChain DEF plan, Inv
  <2>2. CASE ChainStep
    <3>1. /\ code # "incident" /\ nonce \in Nat
          /\ \A i \in 1 .. Len(txs) : txs[i].auth = "delegate" => nonce > SourceNonce
      BY <1>1 DEF Inv, ClearInv, TypeOK, ChainTypeOK
    <3> QED  BY <1>1, <2>2, <3>1, ChainMonotone, PlanAssumption
  <2>3. CASE UNCHANGED chain
    BY <2>3 DEF chain, plan
  <2> QED  BY <1>1, <2>1, <2>2, <2>3 DEF Next, Expire, vars
<1>2. Inv /\ [Next]_vars => [result # "none" => executed' = executed]_vars
  BY <1>1
<1> QED
  BY <1>2, Initially, Inductive, PTL DEF Spec, ResultIsFinal

\* A session that ended with a result and saw no refund error left at most the
\* reserve with the temporary payer.
THEOREM GasIsReturned == Spec => []GasComesBack
<1>1. Inv => GasComesBack
  BY DEF Inv, RefundInv
<1> QED
  BY <1>1, Initially, Inductive, PTL DEF Spec
=============================================================================
