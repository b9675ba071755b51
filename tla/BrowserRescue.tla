---------------------------- MODULE BrowserRescue ---------------------------
(***************************************************************************)
(* A permit rescue as the page of an incident runs it (MainnetRescue-      *)
(* Workspace with lib/okx-wallet.ts and lib/mainnet-rescue.ts): preflight, *)
(* route, confirmation, one to three signatures of the source, then the    *)
(* settlement sent by the destination and its receipt.  A handler of the   *)
(* page ends at every await, and the user, the wallet and the chain move   *)
(* between: the wallet changes account or chain, a route is chosen while   *)
(* the page is busy, assets and permit nonces move, the page is reloaded.  *)
(* EIP-7702 routes are DelegatedRescue's; the preflight's own work is      *)
(* RescuePipeline's: here it shows some of the routes that exist.          *)
(***************************************************************************)
EXTENDS Naturals, Sequences

CONSTANTS Assets,
          Offers,        \* the authorization standards each asset supports
          Start,         \* the amount of each that the source holds at first
          MaxNonce,      \* bound on the permit nonces used by others
          MaxHeld,       \* bound on what is sent to the source meanwhile
          MaxAuth,       \* bound on the authorizations signed
          MaxTx          \* bound on the settlements sent

Standards == {"ERC3009", "ERC2612", "DAI", "ERC4494"}

ASSUME OffersAssumption == Offers \in [Assets -> SUBSET Standards]
ASSUME StartAssumption  == Start \in [Assets -> Nat]
ASSUME BoundsAssumption == {MaxNonce, MaxHeld, MaxAuth, MaxTx} \subseteq Nat

VARIABLES held, nonce,              \* the source's balance and permit nonce of each asset
          auths, spent, expired,    \* authorizations signed, used on chain, how many are past their deadline
          txs,                      \* settlements the wallet sent
          pc, job,                  \* where the page's handler is, and what it captured
          connected, shown, selected, authorized, signed,     \* React state
          rows                      \* the transactions listed, with their status and report

chain  == <<held, nonce, spent, expired, txs>>
view   == <<shown, selected, authorized, signed>>
page   == <<pc, job, connected, view, rows>>
vars   == <<chain, auths, page>>

-----------------------------------------------------------------------------
(* Routes.  What tells two routes apart is what gaslessRouteKey commits to: *)
(* the asset, the standard, the amount, and the permit nonce.              *)

\* The wallet's account, and the chain it is on, may change between any two
\* questions of the page: what it reads at one time binds nothing at the next.
Accounts == {"source", "destination", "other"}
NoRoute  == [asset |-> "none", std |-> "none", amount |-> 0, nonce |-> 0]

Route(a, s) == [asset |-> a, std |-> s, amount |-> held[a],
                nonce |-> IF s = "ERC3009" THEN 0 ELSE nonce[a]]

Present == UNION {{Route(a, s) : s \in Offers[a]} : a \in {a \in Assets : held[a] > 0}}

First(routes) == IF routes = {} THEN NoRoute ELSE CHOOSE r \in routes : TRUE

\* The route the signing panel displays: the selected one, else the first.
Displayed == IF selected \in shown THEN selected ELSE First(shown)

\* Mutant of Keeps: the selection is left as it was.
KeepsSelection(routes) == shown' = routes /\ UNCHANGED selected
\* setSelectedRoute of a response keeps the selection only if it is still offered.
Keeps(routes) == /\ shown' = routes
                 /\ selected' = IF selected \in routes THEN selected ELSE First(routes)

\* What the source signs, in this order, for each standard: the settlement
\* contract is granted an allowance, and for a token of DAI's kind the end of
\* it as well, before the rescue it may carry out is signed.
OfERC3009 == <<"transfer">>
OfERC2612 == <<"permit", "rescue">>
OfDai     == <<"permit", "revocation", "rescue">>
OfERC4494 == <<"permit", "rescue">>
Signs(s)  == CASE s = "ERC3009" -> OfERC3009 [] s = "ERC2612" -> OfERC2612
               [] s = "DAI"     -> OfDai     [] s = "ERC4494" -> OfERC4494

-----------------------------------------------------------------------------
(* The chain.                                                              *)

Executes(i) == LET au == auths[i]
               IN /\ i \notin spent /\ i > expired
                  /\ held[au.asset] >= au.amount
                  /\ au.std # "ERC3009" => nonce[au.asset] = au.nonce

TypeOK == /\ held \in [Assets -> Nat] /\ nonce \in [Assets -> Nat]
          /\ \A i \in 1 .. Len(auths) :
               /\ auths[i].asset \in Assets /\ auths[i].std \in Offers[auths[i].asset]
               /\ auths[i].amount > 0 /\ auths[i].signers \subseteq Accounts
          /\ spent \subseteq 1 .. Len(auths) /\ expired \in 0 .. Len(auths)
          /\ \A t \in 1 .. Len(txs) :
               /\ txs[t].auth \in 1 .. Len(auths)
               /\ txs[t].status \in {"pending", "moved", "reverted", "cancelled", "elsewhere"}
          /\ connected \in Accounts \union {"none"}
          /\ authorized \in BOOLEAN /\ signed \in 0 .. Len(auths)
          /\ selected \in shown \union {NoRoute}
          /\ pc \in {"idle", "preflight", "fresh", "account", "ask", "trial", "payer",
                     "simulate", "check", "send", "register", "wait", "again"}
          /\ \A i \in 1 .. Len(rows) :
               /\ rows[i].tx \in 1 .. Len(txs)
               /\ rows[i].status \in {"CONFIRMING", "CONFIRMED", "FAILED"}
               /\ rows[i].report \in {"REPORTING", "NOT_REQUIRED", "ERROR", "PENDING"}

\* `seen` is for the properties: the route on display when the signing was started.
NoJob == [route |-> NoRoute, seen |-> NoRoute, signers |-> <<>>, auth |-> 0]

Init == /\ held = Start /\ nonce = [a \in Assets |-> 0]
        /\ auths = <<>> /\ spent = {} /\ expired = 0 /\ txs = <<>>
        /\ pc = "idle" /\ job = NoJob /\ connected = "none"
        /\ shown = {} /\ selected = NoRoute /\ authorized = FALSE /\ signed = 0
        /\ rows = <<>>

World == UNCHANGED <<chain, auths>>

\* A settlement is included.  It may revert for reasons of the token's own.
Mine == \E t \in 1 .. Len(txs) :
  LET i == txs[t].auth
      au == auths[i]
      a == au.asset
  IN /\ txs[t].status = "pending"
     /\ \/ /\ Executes(i)
           /\ txs' = [txs EXCEPT ![t].status = "moved"]
           /\ spent' = spent \union {i}
           /\ held' = [held EXCEPT ![a] = @ - au.amount]
           /\ nonce' = [nonce EXCEPT ![a] = @ + (CASE au.std = "ERC3009" -> 0
                                                   [] au.std = "DAI" -> 2 [] OTHER -> 1)]
        \/ txs' = [txs EXCEPT ![t].status = "reverted"] /\ UNCHANGED <<spent, held, nonce>>
     /\ UNCHANGED <<auths, expired, page>>

\* The owner of the destination cancels it in the wallet: an empty transaction
\* takes its nonce, and its receipt is the one the page's client returns.
Cancel == /\ \E t \in 1 .. Len(txs) : /\ txs[t].status = "pending"
                                      /\ txs' = [txs EXCEPT ![t].status = "cancelled"]
          /\ UNCHANGED <<held, nonce, spent, expired, auths, page>>

\* The source's balance moves, or a permit of the source is used, without the page.
Meddle == /\ \E a \in Assets :
               \/ held[a] < MaxHeld /\ held' = [held EXCEPT ![a] = @ + 1] /\ UNCHANGED nonce
               \/ held[a] > 0 /\ held' = [held EXCEPT ![a] = 0] /\ UNCHANGED nonce
               \/ nonce[a] < MaxNonce /\ nonce' = [nonce EXCEPT ![a] = @ + 1] /\ UNCHANGED held
          /\ UNCHANGED <<auths, spent, expired, txs, page>>

\* All live equally long, so that they expire in the order they were signed.
Expire == /\ expired < Len(auths) /\ expired' = expired + 1
          /\ UNCHANGED <<held, nonce, auths, spent, txs, page>>

-----------------------------------------------------------------------------
(* What the user does on the page while no handler runs, or any time.      *)

\* connectExpected; the account is shown whichever it is.
Connect == /\ pc = "idle" /\ connected' \in Accounts
           /\ UNCHANGED <<pc, job, view, rows>> /\ World

Refresh == /\ pc = "idle" /\ pc' = "preflight" /\ signed' = 0
           /\ UNCHANGED <<job, connected, shown, selected, authorized, rows>> /\ World

\* A route button is enabled while the page is busy, too.
Choose == /\ \E r \in shown : selected' = r /\ signed' = 0
          /\ UNCHANGED <<pc, job, connected, shown, authorized, rows>> /\ World

Confirm == /\ signed = 0 /\ authorized' = ~authorized
           /\ UNCHANGED <<pc, job, connected, shown, selected, signed, rows>> /\ World

Reload == /\ pc' = "idle" /\ job' = NoJob /\ connected' = "none"
          /\ shown' = {} /\ selected' = NoRoute /\ authorized' = FALSE /\ signed' = 0
          /\ rows' = <<>> /\ World

-----------------------------------------------------------------------------
(* Handlers.  What is thrown ends them; the state set before stays.        *)

Idle(rest) == pc' = "idle" /\ job' = NoJob /\ UNCHANGED rest

\* signAuthorization, up to the fresh preflight.
Sign == /\ pc = "idle" /\ signed = 0 /\ shown # {} /\ authorized /\ connected = "source"
        /\ pc' = "fresh"
        /\ job' = [NoJob EXCEPT !.route = IF selected = NoRoute THEN Displayed ELSE selected,
                                !.seen = Displayed]
        /\ UNCHANGED <<connected, view, rows>> /\ World

\* Mutant of Reviewed: the first route of the response stands in for a lost one.
ReviewedOrFirst(routes) == IF job.route \in routes THEN {job.route}
                           ELSE IF routes = {} THEN {} ELSE {First(routes)}
\* requireReviewedGaslessRoute.
Reviewed(routes) == {job.route} \intersect routes

\* requestPreflight: the routes that exist, less those the node fails to show.
Respond ==
  /\ pc \in {"preflight", "fresh"}
  /\ \/ Idle(<<connected, view, rows>>)
     \/ \E routes \in SUBSET Present :
          /\ Keeps(routes)
          /\ IF pc = "fresh" /\ Reviewed(routes) # {}
             THEN pc' = "account" /\ job' = [job EXCEPT !.route = First(Reviewed(routes))]
             ELSE pc' = "idle" /\ job' = NoJob
          /\ UNCHANGED <<connected, authorized, signed, rows>>
  /\ World

\* The account is read once the wallet is on the chain.
AskAccount ==
  /\ pc = "account"
  /\ \/ Idle(<<connected, view, rows>>)
     \/ /\ connected' \in Accounts
        /\ IF connected' = "source" THEN pc' = "ask" /\ UNCHANGED <<job, view, rows>>
           ELSE Idle(<<view, rows>>)
  /\ World

\* create...Authorization draws the rescue nonce and the deadline in the browser;
\* a package of the incident's job has its own.
Drawn == "page"

\* setSigned: the authorization is kept in memory, whatever is selected by now.
Lands == /\ auths' = Append(auths, [asset   |-> job.route.asset,  std   |-> job.route.std,
                                    amount  |-> job.route.amount, nonce |-> job.route.nonce,
                                    salt    |-> Drawn, seen |-> job.seen,
                                    signers |-> {job'.signers[k] : k \in 1 .. Len(job'.signers)}])
         /\ signed' = Len(auths) + 1 /\ authorized' = FALSE
         /\ UNCHANGED <<connected, shown, selected, rows>>

\* Mutant of Verified: only the permit is recovered, not what is signed after it.
VerifiedFirst(by) == by = "source" \/ job.signers # <<>>
Verified(by) == by = "source"

\* The next of the messages, by eth_signTypedData_v4: signed by the account asked
\* for, or by the active one.
Ask ==
  /\ pc = "ask" /\ Len(auths) < MaxAuth
  /\ \/ Idle(<<connected, view, rows, auths>>)
     \/ \E by \in Accounts :
          /\ Verified(by)
          /\ job' = [job EXCEPT !.signers = Append(@, by)]
          /\ IF Len(job'.signers) < Len(Signs(job.route.std))
             THEN UNCHANGED <<pc, connected, view, rows, auths>>
             ELSE IF job.route.std = "ERC3009"
                  THEN pc' = "idle" /\ Lands
                  ELSE pc' = "trial" /\ UNCHANGED <<connected, view, rows, auths>>
  /\ UNCHANGED chain

\* A settlement by permit is called from the destination before it is kept.
Trial ==
  /\ pc = "trial" /\ Len(auths) < MaxAuth
  /\ \/ Idle(<<connected, view, rows, auths>>)
     \/ /\ held[job.route.asset] >= job.route.amount
        /\ nonce[job.route.asset] = job.route.nonce
        /\ pc' = "idle" /\ UNCHANGED job /\ Lands
  /\ UNCHANGED chain

\* settleAuthorization captures `signed`.
Settle == /\ pc = "idle" /\ signed # 0 /\ Len(txs) < MaxTx
          /\ pc' = "payer" /\ job' = [NoJob EXCEPT !.auth = signed]
          /\ UNCHANGED <<connected, view, rows>> /\ World

Payer ==
  /\ pc = "payer"
  /\ \/ Idle(<<connected, view, rows>>)
     \/ /\ connected' \in Accounts
        /\ CASE connected' # "destination" -> Idle(<<view, rows>>)
             [] connected' = "destination" /\ job.auth <= expired ->
                  signed' = 0 /\ Idle(<<shown, selected, authorized, rows>>)
             [] OTHER -> pc' = "simulate" /\ UNCHANGED <<job, view, rows>>
  /\ World

Simulate == /\ pc = "simulate"
            /\ \/ Idle(<<connected, view, rows>>)
               \/ Executes(job.auth) /\ pc' = "check" /\ UNCHANGED <<job, connected, view, rows>>
            /\ World

\* submit...: deadline, chain and account again, before the wallet is asked.
Check == /\ pc = "check"
         /\ \/ Idle(<<connected, view, rows>>)
            \/ /\ job.auth > expired
               /\ pc' = "send" /\ UNCHANGED <<job, connected, view, rows>>
         /\ World

\* The wallet sends it, for the account it was asked for, on the chain it is
\* on by now; it may throw whether or not it did.
Send ==
  /\ pc = "send"
  /\ \E status \in {"pending", "elsewhere"} :
     LET tx == [auth |-> job.auth, status |-> status]
     IN \/ txs' \in {txs, Append(txs, tx)} /\ Idle(<<connected, view, rows>>)
        \/ /\ txs' = Append(txs, tx)
           /\ \E report \in {"REPORTING", "NOT_REQUIRED"} :
                rows' = Append(rows, [tx |-> Len(txs'), status |-> "CONFIRMING",
                                      report |-> report])
           /\ pc' = "register" /\ UNCHANGED <<job, connected, view>>
  /\ UNCHANGED <<held, nonce, spent, expired, auths>>

Last == Len(rows)
Reported(report) == [rows EXCEPT ![Last].report = report]

\* assertReceiptSubmissionTransaction: the calldata is the package's, its rescue
\* nonce and deadline included.
Accepts(i) == auths[i].salt = "package"

\* reportTransactionReceipt, for the action's package where there is a binding.
Registers == IF rows[Last].report = "NOT_REQUIRED" THEN {"NOT_REQUIRED"}
             ELSE {"ERROR"} \union (IF Accepts(job.auth) THEN {"PENDING"} ELSE {})

Register == /\ pc = "register"
            /\ \E report \in Registers : rows' = Reported(report)
            /\ pc' = "wait"
            /\ UNCHANGED <<job, connected, view>> /\ World

Included == txs[rows[Last].tx].status \in {"moved", "reverted", "cancelled"}

\* Mutant of Proved: any receipt that did not revert.
ProvedByStatus == txs[rows[Last].tx].status \in {"moved", "cancelled"}
\* receiptProvesCommittedTransfer, over the logs of a receipt that succeeded.
Proved == txs[rows[Last].tx].status = "moved"

\* Mutant of GivesUp: the receipt is awaited without a timeout.
NeverGivesUp == FALSE
\* waitForTransactionReceipt throws after its timeout, or when the node fails.
GivesUp == TRUE

Wait == /\ pc = "wait"
        /\ \/ GivesUp /\ Idle(<<connected, view, rows>>)
           \/ /\ Included
              /\ rows' = [rows EXCEPT ![Last].status = IF Proved THEN "CONFIRMED" ELSE "FAILED"]
              /\ IF Proved THEN pc' = "again" /\ UNCHANGED job
                 ELSE pc' = "idle" /\ job' = NoJob
              /\ UNCHANGED <<connected, view>>
        /\ World

\* Reported again, then what is signed is dropped and preflight runs.
Again == /\ pc = "again"
         /\ \E report \in Registers : rows' = Reported(report)
         /\ signed' = 0 /\ pc' = "preflight" /\ job' = NoJob
         /\ UNCHANGED <<connected, shown, selected, authorized>> /\ World

-----------------------------------------------------------------------------
Handler == \/ Respond \/ AskAccount \/ Ask \/ Trial \/ Payer \/ Simulate \/ Check
           \/ Send \/ Register \/ Wait \/ Again
User    == Connect \/ Refresh \/ Choose \/ Confirm \/ Sign \/ Settle \/ Reload
Outside == Mine \/ Cancel \/ Meddle \/ Expire

Next == Handler \/ User \/ Outside

Spec == Init /\ [][Next]_vars

\* A handler that does not wait for the user's wallet goes on: fetch and the
\* node's client come back or throw.
FairSpec == Spec /\ WF_vars(Respond \/ Register \/ Wait \/ Again)

-----------------------------------------------------------------------------
(* Correctness.                                                            *)

\* Every authorization kept is one of a route that was on display when its
\* signing was started, with its amount and nonce, and every one of its
\* signatures is the source's, whatever was chosen, switched or refreshed while
\* it was being signed.
SignsWhatWasReviewed ==
  \A i \in 1 .. Len(auths) :
    /\ \A f \in {"asset", "std", "amount", "nonce"} : auths[i][f] = auths[i].seen[f]
    /\ auths[i].signers = {"source"}

\* A settlement is listed CONFIRMED only if it moved the asset, and FAILED only
\* if it did not, also where the wallet replaced it, sent it elsewhere or threw.
RowsAreTrue ==
  \A i \in 1 .. Len(rows) :
    LET tx == txs[rows[i].tx]
    IN /\ rows[i].status = "CONFIRMED" => tx.status = "moved" /\ tx.auth \in spent
       /\ rows[i].status = "FAILED" => tx.status # "moved"

\* What the page reports of a settlement it confirmed, for an asset the incident's
\* job issued a package for, is what the receipt route takes.
ConfirmedIsRegistrable ==
  \A i \in 1 .. Len(rows) :
    rows[i].status = "CONFIRMED" /\ rows[i].report # "NOT_REQUIRED"
      => Accepts(txs[rows[i].tx].auth)

\* Once a settlement is sent, the page is free again whatever becomes of it.
PageComesBack == pc \in {"register", "wait", "again"} ~> pc = "idle"
=============================================================================
