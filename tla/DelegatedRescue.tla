--------------------------- MODULE DelegatedRescue --------------------------
(***************************************************************************)
(* A destination-paid rescue as the web client runs it                     *)
(* (mainnet-rescue-workspace.tsx around buyer-runtime/eip7702-*.ts): a     *)
(* fresh payer is funded, the delegate deployed, delegation and revocation *)
(* signed, one transaction submitted per action, the delegation cleared,   *)
(* the unused gas returned.  Every action ends at an await of the code.  A *)
(* call of a node or a wallet may fail before or after it took effect; the *)
(* session stops where the page is closed.                                 *)
(***************************************************************************)
EXTENDS DelegatedSource

CONSTANTS Reserve        \* what refundUnusedGas keeps for its own fee

ASSUME ReserveAssumption == Reserve \in Nat \ {0}

VARIABLES pc,         \* the await the session is at
          at,         \* the action it is at
          sent,       \* delegationSubmitted
          outcome,    \* of each action
          err,        \* the error `execute` or a step before it threw
          result,     \* what `execute` returned
          bal,        \* the balance refundUnusedGas read
          refundErr,
          expired     \* the client's clock is past the package's expiry

session == <<pc, at, sent, outcome, err, result, bal, refundErr>>
vars    == <<chain, session, expired>>

Steps == {"fund", "funding", "provision", "deploying", "authorize", "execute", "next",
          "submit", "include", "check", "clear", "clearing", "recheck", "refund",
          "refunding", "refunded", "over"}
Outcomes == {"none", "COMPLETED", "SIMULATION_FAILED", "TRANSACTION_REVERTED"}

TypeOK == /\ ChainTypeOK
          /\ pc \in Steps /\ at \in 1 .. ActionCount + 1
          /\ sent \in BOOLEAN /\ refundErr \in BOOLEAN /\ expired \in BOOLEAN
          /\ outcome \in [Actions -> Outcomes]
          /\ err \in {"none", "failed", "notCleared"}
          /\ result \in {"none", "COMPLETED", "PARTIAL", "FAILED"}
          /\ bal \in Nat

Init == /\ ChainInit
        /\ pc = "fund" /\ at = 1 /\ sent = FALSE /\ outcome = [a \in Actions |-> "none"]
        /\ err = "none" /\ result = "none" /\ bal = 0 /\ refundErr = FALSE
        /\ expired = FALSE

-----------------------------------------------------------------------------
(* Calls of the node.                                                      *)

\* A submission that returns its hash, and one that throws: the node may have it.
Returns(tx) == txs' = Append(txs, tx)
Throws(tx)  == txs' \in {txs, Append(txs, tx)}

\* The transaction awaited is the last one that was submitted.
Last == txs[Len(txs)]
Included == Len(txs) > 0 /\ Last.status # "pooled"

\* getTransactionCount at the tag "pending" counts the source's own transactions.
View == nonce + own

Initial == View = SourceNonce /\ code = "none"
\* Mutant of Undisturbed: the source is not inspected after an action.
NotInspected == Included
Undisturbed == View = SourceNonce + 1 /\ code = "incident"

\* Mutant of Cleared: the nonce alone.
ClearedByNonce == View >= SourceNonce + 2
Cleared == code = "none" /\ View >= SourceNonce + 2

\* eth_call of an action, with the delegation while it is not submitted.
Simulates(a) == LET c == CodeAfter(IF sent THEN "none" ELSE "delegate")
                IN c = "incident" => MayExecute({a})

-----------------------------------------------------------------------------
(* Funding, provision, authorization.                                      *)

Stays == UNCHANGED <<account, plan, funding, gas, mined, expired>>
Calm  == Stays /\ UNCHANGED txs
Quiet == UNCHANGED <<at, sent, outcome, err, result, bal, refundErr>>

\* What is thrown before the delegation is submitted ends in the refund.
Abort == /\ err' = "failed" /\ pc' = "refund"
         /\ UNCHANGED <<at, sent, outcome, result, bal, refundErr>>

\* What is thrown while funding ends the session: gasFunded is not set.
AbortUnfunded == /\ err' = "failed" /\ pc' = "over"
                 /\ UNCHANGED <<at, sent, outcome, result, bal, refundErr>>

Fund == /\ pc = "fund"
        /\ \/ funding' = "pooled" /\ pc' = "funding" /\ Quiet
           \/ funding' \in {"none", "pooled"} /\ AbortUnfunded
        /\ UNCHANGED <<account, plan, gas, txs, mined, expired>>

Funded == /\ pc = "funding"
          /\ \/ funding = "mined" /\ pc' = "provision" /\ Quiet
             \/ AbortUnfunded
          /\ Calm

Provision ==
  /\ pc = "provision"
  /\ \/ Abort /\ UNCHANGED txs
     \/ ~expired /\ Initial /\ deployed /\ pc' = "authorize" /\ Quiet /\ UNCHANGED txs
     \/ /\ ~expired /\ Initial /\ ~deployed
        /\ LET tx == Fresh("deploy", 0, "none", 0)
           IN \/ Returns(tx) /\ pc' = "deploying" /\ Quiet
              \/ Throws(tx) /\ Abort
  /\ Stays

Deployed == /\ pc = "deploying"
            /\ \/ Abort
               \/ /\ Included /\ Last.status = "ok" /\ Initial /\ deployed /\ ~expired
                  /\ pc' = "authorize" /\ Quiet
            /\ Calm

Authorize == /\ pc = "authorize"
             /\ \/ Abort
                \/ ~expired /\ Initial /\ deployed /\ pc' = "execute" /\ Quiet
             /\ Calm

-----------------------------------------------------------------------------
(* LocalEip7702RescueRuntime.execute.                                      *)

Execution == /\ pc = "execute"
             /\ \/ Abort
                \/ ~expired /\ Initial /\ deployed /\ pc' = "next" /\ Quiet
             /\ Calm

Status == LET done == {a \in Actions : outcome[a] = "COMPLETED"}
          IN IF done = {} THEN "FAILED"
             ELSE IF done = Actions THEN "COMPLETED" ELSE "PARTIAL"

\* `execute` ends: it throws what the loop threw, or returns.
Finish == /\ result' = (IF err = "none" THEN Status ELSE "none")
          /\ pc' = "refund"
          /\ UNCHANGED <<at, sent, outcome, err, bal, refundErr>>

\* Mutant of MustClear: only when something was rescued.
MustClearRescued == sent /\ \E a \in Actions : outcome[a] = "COMPLETED"
\* The loop ends, by an error or not.  `delegationSubmitted` decides.
MustClear == sent

Leave == IF MustClear THEN pc' = "clear" /\ Quiet ELSE Finish
Stop  == /\ err' = "failed"
         /\ pc' = (IF MustClear THEN "clear" ELSE "refund")
         /\ UNCHANGED <<at, sent, outcome, result, bal, refundErr>>

Settled(status) == outcome' = [outcome EXCEPT ![at] = status]

\* Mutant of Simulate: a failed simulation is tried again.
SimulateAgain ==
  /\ pc = "next" /\ at <= ActionCount
  /\ \/ expired /\ Stop
     \/ ~expired /\ Simulates(at) /\ pc' = "submit" /\ Quiet
     \/ /\ ~expired /\ Settled("SIMULATION_FAILED")
        /\ UNCHANGED <<pc, at, sent, err, result, bal, refundErr>>
  /\ Calm

Simulate ==
  /\ pc = "next" /\ at <= ActionCount
  /\ \/ expired /\ Stop
     \/ /\ ~expired /\ Simulates(at) /\ pc' = "submit" /\ Quiet
     \/ /\ ~expired /\ Settled("SIMULATION_FAILED") /\ at' = at + 1
        /\ UNCHANGED <<pc, sent, err, result, bal, refundErr>>
  /\ Calm

Submit ==
  /\ pc = "submit"
  /\ LET tx == Fresh("act", at, IF sent THEN "none" ELSE "delegate", 0)
     IN \/ /\ Returns(tx) /\ sent' = TRUE /\ pc' = "include"
           /\ UNCHANGED <<at, outcome, err, result, bal, refundErr>>
        \/ Throws(tx) /\ Stop
  /\ Stays

Include ==
  /\ pc = "include"
  /\ \/ Stop
     \/ /\ Included
        /\ Settled(IF Last.status = "ok" THEN "COMPLETED" ELSE "TRANSACTION_REVERTED")
        /\ pc' = "check"
        /\ UNCHANGED <<at, sent, err, result, bal, refundErr>>
  /\ Calm

Check == /\ pc = "check"
         /\ \/ Stop
            \/ /\ Undisturbed /\ at' = at + 1 /\ pc' = "next"
               /\ UNCHANGED <<sent, outcome, err, result, bal, refundErr>>
         /\ Calm

LoopDone == pc = "next" /\ at > ActionCount /\ Leave /\ Calm

Clear ==
  /\ pc = "clear"
  /\ LET tx == Fresh("clear", 0, "revoke", 0)
     IN \/ Returns(tx) /\ pc' = "clearing"
        \/ Throws(tx) /\ pc' = "recheck"
  /\ Quiet /\ Stays

\* Whatever the receipt says, the source is inspected; a failure is inspected again.
Clearing == /\ pc = "clearing"
            /\ \/ Cleared /\ Finish
               \/ pc' = "recheck" /\ Quiet
            /\ Calm

Recheck == /\ pc = "recheck"
           /\ \/ Cleared /\ Finish
              \/ /\ err' = "notCleared" /\ pc' = "refund"
                 /\ UNCHANGED <<at, sent, outcome, result, bal, refundErr>>
           /\ Calm

-----------------------------------------------------------------------------
(* ViemFundedEip7702PayerSession.refundUnusedGas, in the client's finally. *)

GiveUp == /\ refundErr' = TRUE /\ pc' = "over"
          /\ UNCHANGED <<at, sent, outcome, err, result, bal>>

\* Mutant of Affordable: only an empty payer keeps its balance.
AffordableAlways == gas # 0
Affordable == gas > Reserve

Refund == /\ pc = "refund"
          /\ \/ GiveUp
             \/ /\ bal' = gas
                /\ pc' = (IF Affordable THEN "refunding" ELSE "over")
                /\ UNCHANGED <<at, sent, outcome, err, result, refundErr>>
          /\ Calm

\* Mutant of SendRefund: the receipt is not awaited.
SendRefundOnly ==
  /\ pc = "refunding"
  /\ LET tx == Fresh("refund", 0, "none", bal - Reserve)
     IN \/ Returns(tx) /\ pc' = "over" /\ Quiet
        \/ Throws(tx) /\ GiveUp
  /\ Stays

SendRefund ==
  /\ pc = "refunding"
  /\ LET tx == Fresh("refund", 0, "none", bal - Reserve)
     IN \/ Returns(tx) /\ pc' = "refunded" /\ Quiet
        \/ Throws(tx) /\ GiveUp
  /\ Stays

Refunded == /\ pc = "refunded"
            /\ \/ Included /\ Last.status = "ok" /\ pc' = "over" /\ Quiet
               \/ GiveUp
            /\ Calm

-----------------------------------------------------------------------------
Expire == ~expired /\ expired' = TRUE /\ UNCHANGED <<chain, session>>

Session == \/ Fund \/ Funded \/ Provision \/ Deployed \/ Authorize
           \/ Execution \/ Simulate \/ Submit \/ Include \/ Check \/ LoopDone
           \/ Clear \/ Clearing \/ Recheck
           \/ Refund \/ SendRefund \/ Refunded

Next == \/ Session
        \/ ChainStep /\ UNCHANGED <<session, expired>>
        \/ Expire

Spec == Init /\ [][Next]_vars

\* The page stays open.  The funding wallet may leave its prompt unanswered; every
\* wait after it has a timeout, and the source's signatures are there already.
FairSpec == Spec /\ WF_vars(pc # "fund" /\ Session)

-----------------------------------------------------------------------------
(* Correctness.                                                            *)

\* An action is reported COMPLETED only if the delegate has executed it,
\* whatever the source's other keys did to its nonce and code meanwhile.
OutcomesAreTrue ==
  result # "none" => \A a \in Actions : outcome[a] = "COMPLETED" => a \in executed

\* When `execute` returns a result, whichever, the source is not delegated to
\* the incident's delegate, and no transaction that waits can delegate it again.
ReturnsUndelegated ==
  result # "none" =>
    /\ code # "incident"
    /\ \A i \in 1 .. Len(txs) : txs[i].auth = "delegate" => nonce > SourceNonce

\* After a result, nobody executes any more of the plan.
ResultIsFinal == [][result # "none" => executed' = executed]_vars

\* A client that ended with a result and no refund error left the payer with
\* no more than the reserve.
GasComesBack == pc = "over" /\ result # "none" /\ ~refundErr => gas <= Reserve

\* Once the funding wallet has answered, a session that is not closed ends, whatever
\* becomes of its transactions.
SessionEnds == pc # "fund" ~> pc = "over"
=============================================================================
