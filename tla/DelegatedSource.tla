--------------------------- MODULE DelegatedSource --------------------------
(***************************************************************************)
(* What the chain does in an EIP-7702 rescue: the source account with its  *)
(* nonce and delegated code, the incident's delegate                       *)
(* (contracts/src/SafeExit7702RescueDelegate.sol) in the source's storage, *)
(* the temporary payer with its gas and its transactions.  Transactions    *)
(* are mined when the chain likes, the payer's in the order of its nonces; *)
(* the source's other keys send transactions too, and anybody may execute  *)
(* the plan.  The delegation is signed for the package's sourceNonce N,    *)
(* the revocation for N + 1; only the payer's transactions carry them.     *)
(***************************************************************************)
EXTENDS Integers, Sequences

CONSTANTS ActionCount,   \* actions of the plan
          SourceNonce,   \* N
          Budget,        \* what the payer is funded with; a transaction costs 1
          MaxOwn,        \* bound: unmined transactions of the source
          MaxNonce       \* bound: nonce of the source

ASSUME PlanAssumption == ActionCount \in Nat /\ SourceNonce \in Nat
ASSUME GasAssumption == Budget \in Nat

Actions == 1 .. ActionCount

VARIABLES nonce,      \* of the source
          own,        \* the source's own transactions that wait to be mined
          code,       \* of the source: "none", the delegation "incident", or "foreign"
          deployed,   \* the incident's delegate exists
          executed,   \* its executedBitmap
          held,       \* actions whose asset the source still has
          closed,     \* block.timestamp is past the delegate's deadline
          funding,    \* the destination's transfer to the payer
          gas,        \* the payer's balance
          txs,        \* the payer's transactions that reached the node, by nonce
          mined       \* how many of them are mined

account == <<nonce, own, code>>
plan    == <<deployed, executed, held, closed>>
payer   == <<funding, gas, txs, mined>>
chain   == <<account, plan, payer>>

Tx == [kind : {"deploy", "act", "clear", "refund"}, action : 0 .. ActionCount,
       auth : {"none", "delegate", "revoke"}, value : Nat,
       status : {"pooled", "ok", "reverted"}]
Fresh(kind, a, auth, value) ==
  [kind |-> kind, action |-> a, auth |-> auth, value |-> value, status |-> "pooled"]

ChainTypeOK ==
  /\ nonce \in Nat /\ own \in Nat /\ code \in {"none", "incident", "foreign"}
  /\ deployed \in BOOLEAN /\ executed \subseteq Actions /\ held \subseteq Actions
  /\ closed \in BOOLEAN
  /\ funding \in {"none", "pooled", "mined", "failed"} /\ gas \in Nat
  /\ txs \in Seq(Tx) /\ mined \in 0 .. Len(txs)

\* The package was built for the source's pending nonce, when it had no code.
ChainInit ==
  /\ own \in 0 .. SourceNonce /\ nonce = SourceNonce - own /\ code = "none"
  /\ deployed \in BOOLEAN /\ executed = {} /\ held = Actions /\ closed = FALSE
  /\ funding = "none" /\ gas = 0 /\ txs = <<>> /\ mined = 0

\* The source's nonce moves on; own transactions that had it are void.
Bump(k) == nonce' = nonce + k /\ own' = (IF own > k THEN own - k ELSE 0)

Applies(auth) == \/ auth = "delegate" /\ nonce = SourceNonce
                 \/ auth = "revoke" /\ nonce = SourceNonce + 1
CodeAfter(auth) == IF ~Applies(auth) THEN code
                   ELSE IF auth = "delegate" THEN "incident" ELSE "none"

\* SafeExit7702RescueDelegate.execute: all of the selection or nothing.
MayExecute(S) == S # {} /\ ~closed /\ S \cap executed = {} /\ S \subseteq held
Execute(S) == executed' = executed \cup S /\ held' = held \ S

\* The call of a mined transaction, after its authorization: an execution by
\* the delegate may also revert; a call of an account without code does nothing.
Runs(tx, status) ==
  \/ /\ tx.kind = "act" /\ CodeAfter(tx.auth) = "incident" /\ status = "ok"
     /\ MayExecute({tx.action}) /\ Execute({tx.action})
     /\ UNCHANGED deployed
  \/ /\ tx.kind = "act" /\ CodeAfter(tx.auth) = "incident" /\ status = "reverted"
     /\ UNCHANGED <<deployed, executed, held>>
  \/ /\ tx.kind \in {"act", "clear"} /\ CodeAfter(tx.auth) = "foreign"
     /\ UNCHANGED <<deployed, executed, held>>
  \/ /\ tx.kind = "act" /\ CodeAfter(tx.auth) = "none" /\ status = "ok"
     /\ UNCHANGED <<deployed, executed, held>>
  \/ /\ tx.kind = "clear" /\ CodeAfter(tx.auth) # "foreign" /\ status = "ok"
     /\ UNCHANGED <<deployed, executed, held>>
  \/ /\ tx.kind = "deploy" /\ deployed' = (deployed \/ ~closed)
     /\ status = (IF deployed' THEN "ok" ELSE "reverted")
     /\ UNCHANGED <<executed, held>>
  \/ /\ tx.kind = "refund" /\ status = "ok"
     /\ UNCHANGED <<deployed, executed, held>>

\* The payer's next transaction.  A reverted call leaves its authorization applied.
Mine(tx, status) ==
  /\ gas >= 1 + tx.value /\ gas' = gas - 1 - tx.value
  /\ code' = CodeAfter(tx.auth)
  /\ IF Applies(tx.auth) THEN Bump(1) ELSE UNCHANGED <<nonce, own>>
  /\ Runs(tx, status)
  /\ txs' = [txs EXCEPT ![mined + 1] = [@ EXCEPT !.status = status]]
  /\ mined' = mined + 1
  /\ UNCHANGED <<closed, funding>>

MineFunding ==
  /\ funding = "pooled"
  /\ \/ funding' = "mined" /\ gas' = Budget
     \/ funding' = "failed" /\ UNCHANGED gas
  /\ UNCHANGED <<account, plan, txs, mined>>

ExecuteElsewhere(S) ==
  /\ code = "incident" /\ MayExecute(S) /\ Execute(S)
  /\ UNCHANGED <<account, deployed, closed, payer>>

SourceSends == /\ own < MaxOwn /\ own' = own + 1
               /\ UNCHANGED <<nonce, code, plan, payer>>

\* A transaction of the source may move assets, or set or clear a delegation.
SourceMined(taken) ==
  /\ own > 0
  /\ \/ nonce < MaxNonce /\ Bump(1) /\ UNCHANGED code
     \/ nonce + 1 < MaxNonce /\ Bump(2) /\ code' \in {"none", "foreign"}
  /\ held' = held \ taken
  /\ UNCHANGED <<deployed, executed, closed, payer>>

Close == ~closed /\ closed' = TRUE /\ UNCHANGED <<account, deployed, executed, held, payer>>

ChainStep ==
  \/ mined < Len(txs) /\ \E status \in {"ok", "reverted"} : Mine(txs[mined + 1], status)
  \/ MineFunding
  \/ \E S \in SUBSET Actions : ExecuteElsewhere(S) \/ SourceMined(S)
  \/ SourceSends
  \/ Close
=============================================================================
