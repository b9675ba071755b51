------------------------- MODULE BrowserRescueProofs -------------------------
(***************************************************************************)
(* Proofs about BrowserRescue, for any assets, offers and bounds: whatever  *)
(* is chosen, switched, refreshed or reloaded while the page waits, what is *)
(* signed is what was on display, and what is listed is what happened.      *)
(***************************************************************************)
EXTENDS BrowserRescue, SequenceTheorems, TLAPS

Routes == [asset : Assets, std : Standards, amount : Nat \ {0}, nonce : Nat]
Auth   == [asset : Assets, std : Standards, amount : Nat \ {0}, nonce : Nat,
           salt : {"page"}, seen : Routes, signers : SUBSET Accounts]
Tx     == [auth : Nat, status : {"pending", "moved", "reverted", "cancelled", "elsewhere"}]
Row    == [tx : Nat, status : {"CONFIRMING", "CONFIRMED", "FAILED"},
           report : {"REPORTING", "NOT_REQUIRED", "ERROR", "PENDING"}]
Job    == [route : Routes \union {NoRoute}, seen : Routes \union {NoRoute},
           signers : Seq(Accounts), auth : Nat]

\* A route the preflight may show.
Offered == {r \in Routes : r.std \in Offers[r.asset]}

-----------------------------------------------------------------------------
(* The inductive invariant, one part for each group of variables.          *)

\* An authorization is of the route its signing started from, by the source alone.
AsSeen(au) == /\ au.std \in Offers[au.asset]
              /\ \A f \in {"asset", "std", "amount", "nonce"} : au[f] = au.seen[f]
              /\ au.signers = {"source"}

AuthsInv == /\ held \in [Assets -> Nat] /\ nonce \in [Assets -> Nat]
            /\ auths \in Seq(Auth) /\ \A i \in 1 .. Len(auths) : AsSeen(auths[i])
            /\ spent \subseteq 1 .. Len(auths) /\ expired \in 0 .. Len(auths)

\* What moved has used its authorization.
TxsInv == /\ txs \in Seq(Tx)
          /\ \A t \in 1 .. Len(txs) : /\ txs[t].auth \in 1 .. Len(auths)
                                      /\ txs[t].status = "moved" => txs[t].auth \in spent

\* A row that is decided is about a transaction that is.
RowsInv == /\ rows \in Seq(Row)
           /\ \A i \in 1 .. Len(rows) :
                /\ rows[i].tx \in 1 .. Len(txs)
                /\ rows[i].status = "CONFIRMED" => txs[rows[i].tx].status = "moved"
                /\ rows[i].status = "FAILED" => txs[rows[i].tx].status \in {"reverted", "cancelled"}

ViewInv == /\ connected \in Accounts \union {"none"}
           /\ shown \subseteq Offered /\ selected \in shown \union {NoRoute}
           /\ authorized \in BOOLEAN /\ signed \in 0 .. Len(auths)

Signing  == {"fresh", "account", "ask", "trial"}
Settling == {"payer", "simulate", "check", "send", "register", "wait", "again"}

\* The route that is being signed is the one that was on display, and everything signed
\* so far is by the source; a settlement is of an authorization, and once it is sent it
\* has a row.
JobInv == /\ job \in Job
          /\ pc \in {"idle", "preflight"} \union Signing \union Settling
          /\ pc \in Signing => job.route = job.seen
          /\ pc \in {"account", "ask", "trial"} => job.route \in Offered
          /\ \A k \in 1 .. Len(job.signers) : job.signers[k] = "source"
          /\ pc = "trial" => Len(job.signers) > 0
          /\ pc \in Settling => job.auth \in 1 .. Len(auths)
          /\ pc \in {"register", "wait", "again"} => Len(rows) > 0

Inv == AuthsInv /\ TxsInv /\ RowsInv /\ ViewInv /\ JobInv

-----------------------------------------------------------------------------
(* What every group of actions leaves alone.                               *)

LEMMA RoutesHere ==
  ASSUME AuthsInv
  PROVE  Present \subseteq Offered
<1> SUFFICES ASSUME NEW a \in Assets, NEW s \in Offers[a], held[a] > 0
             PROVE  Route(a, s) \in Offered
  BY DEF Present
<1>1. s \in Standards /\ held[a] \in Nat \ {0} /\ nonce[a] \in Nat
  BY OffersAssumption DEF AuthsInv
<1> QED
  BY <1>1 DEF Route, Offered, Routes

LEMMA NoRouteIsNone == NoRoute \notin Offered
BY DEF NoRoute, Offered, Routes

LEMMA NoJobIsOne == NoJob \in Job /\ Len(NoJob.signers) = 0
BY DEF NoJob, Job

\* A handler that does not write to the chain.
LEMMA WorldKeeps == ASSUME Inv, World PROVE AuthsInv' /\ TxsInv'
BY DEF World, chain, Inv, AuthsInv, TxsInv

LEMMA RowsKept == ASSUME Inv, UNCHANGED <<txs, rows>> PROVE RowsInv'
BY DEF Inv, RowsInv

LEMMA ViewKept == ASSUME Inv, UNCHANGED <<connected, view>>, Len(auths') >= Len(auths), Len(auths') \in Nat
                  PROVE  ViewInv'
BY DEF Inv, ViewInv, view, AuthsInv

\* What is thrown ends a handler, and so does its end.
LEMMA JobEnds == ASSUME Inv, pc' \in {"idle", "preflight"}, job' = NoJob PROVE JobInv'
BY NoJobIsOne DEF JobInv, Signing, Settling

\* A handler that goes on with what it captured.
LEMMA JobGoesOn ==
  ASSUME Inv, UNCHANGED job, Len(auths') = Len(auths), Len(rows') = Len(rows),
         pc' \in {"idle", "preflight"} \union Signing \union Settling,
         \/ pc' = pc
         \/ pc = "account" /\ pc' = "ask"
         \/ pc = "payer" /\ pc' = "simulate"
         \/ pc = "simulate" /\ pc' = "check"
         \/ pc = "check" /\ pc' = "send"
         \/ pc = "register" /\ pc' = "wait"
         \/ pc = "wait" /\ pc' = "again"
  PROVE  JobInv'
BY DEF Inv, JobInv, Signing, Settling

LEMMA Ends == ASSUME Inv, World, Idle(<<connected, view, rows>>) PROVE Inv'
<1>1. AuthsInv' /\ TxsInv' /\ UNCHANGED <<auths, txs>>
  BY WorldKeeps DEF World, chain
<1>2. UNCHANGED <<connected, view, rows>> /\ pc' = "idle" /\ job' = NoJob
  BY DEF Idle
<1>3. Len(auths) \in Nat
  BY DEF Inv, AuthsInv
<1> QED
  BY <1>1, <1>2, <1>3, RowsKept, ViewKept, JobEnds DEF Inv

\* setSelectedRoute of any list of routes.
LEMMA Keeping ==
  ASSUME NEW routes \in SUBSET Offered, Keeps(routes)
  PROVE  shown' \subseteq Offered /\ selected' \in shown' \union {NoRoute}
BY DEF Keeps, First

-----------------------------------------------------------------------------
(* The chain and the wallet.                                               *)

LEMMA MineKeeps == ASSUME Inv, Mine PROVE Inv'
<1>1. PICK t \in 1 .. Len(txs) :
        /\ txs[t].status = "pending"
        /\ \/ /\ Executes(txs[t].auth)
              /\ txs' = [txs EXCEPT ![t].status = "moved"]
              /\ spent' = spent \union {txs[t].auth}
              /\ held' = [held EXCEPT ![auths[txs[t].auth].asset] = @ - auths[txs[t].auth].amount]
              /\ nonce' = [nonce EXCEPT ![auths[txs[t].auth].asset] =
                             @ + (CASE auths[txs[t].auth].std = "ERC3009" -> 0
                                    [] auths[txs[t].auth].std = "DAI" -> 2 [] OTHER -> 1)]
           \/ txs' = [txs EXCEPT ![t].status = "reverted"] /\ UNCHANGED <<spent, held, nonce>>
        /\ UNCHANGED <<auths, expired, page>>
  BY DEF Mine
<1> DEFINE i == txs[t].auth
<1>2. i \in 1 .. Len(auths) /\ auths[i] \in Auth /\ txs \in Seq(Tx) /\ txs[t] \in Tx
  BY DEF Inv, TxsInv, AuthsInv
<1>3. AuthsInv'
  <2>1. CASE UNCHANGED <<spent, held, nonce>>
    BY <1>1, <2>1 DEF Inv, AuthsInv
  <2>2. CASE /\ Executes(i) /\ spent' = spent \union {i}
             /\ held' = [held EXCEPT ![auths[i].asset] = @ - auths[i].amount]
             /\ nonce' = [nonce EXCEPT ![auths[i].asset] =
                             @ + (CASE auths[i].std = "ERC3009" -> 0
                                    [] auths[i].std = "DAI" -> 2 [] OTHER -> 1)]
    <3> DEFINE a == auths[i].asset
    <3>1. a \in Assets /\ auths[i].amount \in Nat /\ held[a] >= auths[i].amount
      BY <1>2, <2>2 DEF Auth, Executes
    <3>2. held[a] \in Nat /\ nonce[a] \in Nat /\ held[a] - auths[i].amount \in Nat
      BY <3>1 DEF Inv, AuthsInv
    <3>3. held' \in [Assets -> Nat]
      BY <2>2, <3>2 DEF Inv, AuthsInv
    <3>4. PICK k \in Nat : nonce' = [nonce EXCEPT ![a] = @ + k]
      BY <2>2
    <3>5. nonce' \in [Assets -> Nat]
      <4>1. nonce[a] + k \in Nat /\ nonce \in [Assets -> Nat]
        BY <3>2 DEF Inv, AuthsInv
      <4> QED
        BY <3>4, <4>1
    <3> QED
      BY <1>1, <1>2, <2>2, <3>3, <3>5 DEF Inv, AuthsInv
  <2> QED
    BY <1>1, <2>1, <2>2
<1>4. \E s \in {"moved", "reverted"} :
        /\ txs' = [txs EXCEPT ![t].status = s] /\ spent \subseteq spent'
        /\ s = "moved" => i \in spent'
  BY <1>1
<1> HIDE DEF i
<1>5. PICK s \in {"moved", "reverted"} :
        /\ txs' = [txs EXCEPT ![t].status = s] /\ spent \subseteq spent'
        /\ s = "moved" => i \in spent'
  BY <1>4
<1>6. /\ txs' \in Seq(Tx) /\ Len(txs') = Len(txs)
      /\ \A u \in 1 .. Len(txs) : /\ txs'[u].auth = txs[u].auth
                                  /\ u # t => txs'[u] = txs[u]
      /\ txs'[t].status = s
  BY <1>2, <1>5 DEF Tx
<1>7. TxsInv'
  <2> SUFFICES ASSUME NEW u \in 1 .. Len(txs)
               PROVE  /\ txs'[u].auth \in 1 .. Len(auths)
                      /\ txs'[u].status = "moved" => txs'[u].auth \in spent'
    BY <1>1, <1>6 DEF TxsInv
  <2> QED
    BY <1>5, <1>6 DEF Inv, TxsInv, i
<1>8. UNCHANGED <<auths, rows, pc, job, connected, view>>
  BY <1>1 DEF page
<1>9. RowsInv'
  BY <1>1, <1>6, <1>8 DEF Inv, RowsInv
<1>10. Len(auths) \in Nat
  BY DEF Inv, AuthsInv
<1>11. ViewInv'
  BY <1>8, <1>10, ViewKept
<1>12. JobInv'
  BY <1>8 DEF Inv, JobInv
<1> QED
  BY <1>3, <1>7, <1>9, <1>11, <1>12 DEF Inv

LEMMA CancelKeeps == ASSUME Inv, Cancel PROVE Inv'
<1>1. PICK t \in 1 .. Len(txs) : /\ txs[t].status = "pending"
                                 /\ txs' = [txs EXCEPT ![t].status = "cancelled"]
  BY DEF Cancel
<1>2. UNCHANGED <<held, nonce, spent, expired, auths, rows, pc, job, connected, view>>
  BY DEF Cancel, page
<1>3. /\ txs' \in Seq(Tx) /\ Len(txs') = Len(txs)
      /\ \A u \in 1 .. Len(txs) : /\ txs'[u].auth = txs[u].auth
                                  /\ u # t => txs'[u] = txs[u]
      /\ txs'[t].status = "cancelled"
  <2>1. txs \in Seq(Tx) /\ txs[t] \in Tx
    BY DEF Inv, TxsInv
  <2>2. txs' = [txs EXCEPT ![t] = [@ EXCEPT !.status = "cancelled"]]
    BY <1>1
  <2>3. [txs[t] EXCEPT !.status = "cancelled"] \in Tx
    BY <2>1 DEF Tx
  <2>4. txs' \in Seq(Tx) /\ Len(txs') = Len(txs)
    BY <2>1, <2>2, <2>3
  <2> QED
    BY <1>1, <2>1, <2>4 DEF Tx
<1>4. AuthsInv'
  BY <1>2 DEF Inv, AuthsInv
<1>5. TxsInv'
  <2> SUFFICES ASSUME NEW u \in 1 .. Len(txs)
               PROVE  /\ txs'[u].auth \in 1 .. Len(auths)
                      /\ txs'[u].status = "moved" => txs'[u].auth \in spent
    BY <1>2, <1>3 DEF TxsInv
  <2>1. txs[u].auth \in 1 .. Len(auths) /\ (txs[u].status = "moved" => txs[u].auth \in spent)
    BY DEF Inv, TxsInv
  <2>2. CASE u = t
    BY <1>3, <2>1, <2>2
  <2>3. CASE u # t
    BY <1>3, <2>1, <2>3
  <2> QED
    BY <2>2, <2>3
<1>6. RowsInv'
  BY <1>1, <1>2, <1>3 DEF Inv, RowsInv
<1>7. ViewInv' /\ JobInv'
  BY <1>2 DEF Inv, ViewInv, JobInv, view
<1> QED
  BY <1>4, <1>5, <1>6, <1>7 DEF Inv

LEMMA OutsideKeeps == ASSUME Inv, Meddle \/ Expire PROVE Inv'
<1>1. UNCHANGED <<auths, spent, txs, rows, pc, job, connected, view>>
  BY DEF Meddle, Expire, page
<1>2. held' \in [Assets -> Nat] /\ nonce' \in [Assets -> Nat] /\ expired' \in 0 .. Len(auths)
  <2>1. CASE Expire
    BY <2>1 DEF Expire, Inv, AuthsInv
  <2>2. CASE Meddle
    <3>1. PICK a \in Assets : \/ held' = [held EXCEPT ![a] = @ + 1] /\ UNCHANGED nonce
                              \/ held' = [held EXCEPT ![a] = 0] /\ UNCHANGED nonce
                              \/ nonce' = [nonce EXCEPT ![a] = @ + 1] /\ UNCHANGED held
      BY <2>2 DEF Meddle
    <3>2. /\ held \in [Assets -> Nat] /\ nonce \in [Assets -> Nat] /\ expired \in 0 .. Len(auths)
          /\ held[a] + 1 \in Nat /\ nonce[a] + 1 \in Nat /\ expired' = expired
      BY <2>2 DEF Meddle, Inv, AuthsInv
    <3> QED
      BY <3>1, <3>2
  <2> QED
    BY <2>1, <2>2
<1>3. AuthsInv' /\ TxsInv' /\ RowsInv'
  BY <1>1, <1>2 DEF Inv, AuthsInv, TxsInv, RowsInv
<1>4. ViewInv' /\ JobInv'
  BY <1>1 DEF Inv, ViewInv, JobInv, view
<1> QED
  BY <1>3, <1>4 DEF Inv
-----------------------------------------------------------------------------
(* The page.                                                               *)

LEMMA ConnectKeeps == ASSUME Inv, Connect PROVE Inv'
<1>1. World /\ UNCHANGED <<pc, job, view, rows>> /\ connected' \in Accounts
  BY DEF Connect
<1>2. AuthsInv' /\ TxsInv' /\ UNCHANGED <<auths, txs>>
  BY <1>1, WorldKeeps DEF World, chain
<1>3. ViewInv'
  BY <1>1, <1>2 DEF Inv, ViewInv, view
<1>4. JobInv'
  BY <1>1, <1>2 DEF Inv, JobInv
<1> QED
  BY <1>1, <1>2, <1>3, <1>4, RowsKept DEF Inv

\* Nothing of what the user does on the page touches what a handler captured.
LEMMA UserKeeps == ASSUME Inv, Refresh \/ Choose \/ Confirm \/ Reload PROVE Inv'
<1>1. World /\ (rows' = rows \/ (rows' = <<>> /\ Reload))
  BY DEF Refresh, Choose, Confirm, Reload
<1>2. AuthsInv' /\ TxsInv' /\ UNCHANGED <<auths, txs>> /\ Len(auths) \in Nat
  BY <1>1, WorldKeeps DEF World, chain, Inv, AuthsInv
<1>3. ViewInv'
  <2>1. /\ connected \in Accounts \union {"none"} /\ shown \subseteq Offered
        /\ selected \in shown \union {NoRoute} /\ authorized \in BOOLEAN
        /\ signed \in 0 .. Len(auths)
    BY DEF Inv, ViewInv
  <2>2. connected' = connected \/ connected' = "none"
    BY DEF Refresh, Choose, Confirm, Reload
  <2>3. /\ shown' = shown \/ (shown' = {} /\ selected' = NoRoute)
        /\ selected' \in shown \/ selected' \in {selected, NoRoute}
    BY DEF Refresh, Choose, Confirm, Reload
  <2>4. authorized' \in {authorized, ~authorized, FALSE} /\ signed' \in {signed, 0}
    BY DEF Refresh, Choose, Confirm, Reload
  <2>5. authorized' \in BOOLEAN
    BY <2>1, <2>4, Zenon
  <2>6. signed' \in 0 .. Len(auths)
    BY <1>2, <2>1, <2>4
  <2> QED
    BY <1>2, <2>1, <2>2, <2>3, <2>5, <2>6 DEF ViewInv
<1>4. RowsInv'
  <2>1. CASE rows' = rows
    BY <1>2, <2>1, RowsKept
  <2>2. CASE rows' = <<>>
    BY <2>2 DEF RowsInv
  <2> QED
    BY <1>1, <2>1, <2>2
<1>5. JobInv'
  <2>1. CASE Reload
    BY <2>1, JobEnds DEF Reload
  <2>2. CASE Refresh
    <3>1. pc = "idle" /\ pc' = "preflight" /\ UNCHANGED job
      BY <2>2 DEF Refresh
    <3> QED
      BY <3>1 DEF Inv, JobInv, Signing, Settling
  <2>3. CASE Choose \/ Confirm
    <3>1. UNCHANGED <<pc, job, rows>>
      BY <2>3 DEF Choose, Confirm
    <3> QED
      BY <1>2, <3>1 DEF Inv, JobInv
  <2> QED
    BY <2>1, <2>2, <2>3
<1> QED
  BY <1>2, <1>3, <1>4, <1>5 DEF Inv

LEMMA SignKeeps == ASSUME Inv, Sign PROVE Inv'
<1>1. World /\ UNCHANGED <<connected, view, rows>> /\ pc' = "fresh"
  BY DEF Sign
<1>2. AuthsInv' /\ TxsInv' /\ UNCHANGED <<auths, txs>> /\ Len(auths) \in Nat
  BY <1>1, WorldKeeps DEF World, chain, Inv, AuthsInv
<1> DEFINE r == IF selected = NoRoute THEN Displayed ELSE selected
<1>3. r = Displayed /\ r \in Routes \union {NoRoute}
  <2>1. shown \subseteq Offered /\ selected \in shown \union {NoRoute} /\ NoRoute \notin shown
    BY NoRouteIsNone DEF Inv, ViewInv
  <2>2. First(shown) \in shown \union {NoRoute}
    BY DEF First
  <2> QED
    BY <2>1, <2>2 DEF Displayed, Offered
<1>4. job' = [NoJob EXCEPT !.route = r, !.seen = Displayed]
  BY DEF Sign
<1> HIDE DEF r
<1>5. job' = [route |-> r, seen |-> r, signers |-> <<>>, auth |-> 0]
  BY <1>3, <1>4 DEF NoJob
<1>5a. job' \in Job /\ job'.route = job'.seen /\ Len(job'.signers) = 0
  BY <1>3, <1>5 DEF Job
<1>6. JobInv'
  BY <1>1, <1>5a DEF JobInv, Signing, Settling
<1> QED
  BY <1>1, <1>2, <1>6, RowsKept, ViewKept DEF Inv

LEMMA SettleKeeps == ASSUME Inv, Settle PROVE Inv'
<1>1. World /\ UNCHANGED <<connected, view, rows>> /\ pc' = "payer" /\ signed # 0
      /\ job' = [NoJob EXCEPT !.auth = signed]
  BY DEF Settle
<1>2. AuthsInv' /\ TxsInv' /\ UNCHANGED <<auths, txs>> /\ Len(auths) \in Nat
  BY <1>1, WorldKeeps DEF World, chain, Inv, AuthsInv
<1>3. signed \in 1 .. Len(auths)
  BY <1>1, <1>2 DEF Inv, ViewInv
<1>4a. job' = [route |-> NoRoute, seen |-> NoRoute, signers |-> <<>>, auth |-> signed]
  BY <1>1 DEF NoJob
<1>4. job' \in Job /\ Len(job'.signers) = 0 /\ job'.auth = signed
  BY <1>2, <1>3, <1>4a DEF Job
<1>5. JobInv'
  BY <1>1, <1>2, <1>3, <1>4 DEF JobInv, Signing, Settling
<1> QED
  BY <1>1, <1>2, <1>5, RowsKept, ViewKept DEF Inv

\* requireReviewedGaslessRoute returns the route that was reviewed, as it is now.
LEMMA RespondKeeps == ASSUME Inv, Respond PROVE Inv'
<1>1. World
  BY DEF Respond
<1>2. AuthsInv' /\ TxsInv' /\ UNCHANGED <<auths, txs>> /\ Len(auths) \in Nat
  BY <1>1, WorldKeeps DEF World, chain, Inv, AuthsInv
<1>3. CASE Idle(<<connected, view, rows>>)
  BY <1>1, <1>3, Ends
<1>4. ASSUME NEW routes \in SUBSET Present, Keeps(routes),
             UNCHANGED <<connected, authorized, signed, rows>>,
             IF pc = "fresh" /\ Reviewed(routes) # {}
             THEN pc' = "account" /\ job' = [job EXCEPT !.route = First(Reviewed(routes))]
             ELSE pc' = "idle" /\ job' = NoJob
      PROVE  Inv'
  <2>1. routes \subseteq Offered
    BY RoutesHere DEF Inv
  <2>2. ViewInv'
    BY <1>2, <1>4, <2>1, Keeping DEF Inv, ViewInv
  <2>3. JobInv'
    <3>1. CASE pc = "fresh" /\ Reviewed(routes) # {}
      <4>1. Reviewed(routes) = {job.route} /\ job.route \in Offered
        BY <2>1, <3>1 DEF Reviewed
      <4>2. First(Reviewed(routes)) = job.route
        BY <4>1 DEF First
      <4>3. job \in Job /\ job.route = job.seen
        BY <3>1 DEF Inv, JobInv, Signing
      <4>4. job' = job /\ pc' = "account"
        BY <1>4, <3>1, <4>2, <4>3 DEF Job
      <4> QED
        BY <4>1, <4>3, <4>4 DEF Inv, JobInv, Signing, Settling
    <3>2. CASE ~(pc = "fresh" /\ Reviewed(routes) # {})
      BY <1>4, <3>2, JobEnds
    <3> QED
      BY <3>1, <3>2
  <2> QED
    BY <1>2, <1>4, <2>2, <2>3, RowsKept DEF Inv
<1> QED
  BY <1>3, <1>4 DEF Respond

\* An account was asked of the wallet, and what the handler captured stays or goes.
LEMMA Asked ==
  ASSUME Inv, World, connected' \in Accounts, UNCHANGED <<shown, selected, authorized, rows>>,
         signed' \in {signed, 0}, JobInv'
  PROVE  Inv'
<1>1. AuthsInv' /\ TxsInv' /\ UNCHANGED <<auths, txs>> /\ Len(auths) \in Nat
  BY WorldKeeps DEF World, chain, Inv, AuthsInv
<1>2. ViewInv'
  BY <1>1 DEF Inv, ViewInv
<1> QED
  BY <1>1, <1>2, RowsKept DEF Inv

LEMMA AskAccountKeeps == ASSUME Inv, AskAccount PROVE Inv'
<1>1. World /\ pc = "account"
  BY DEF AskAccount
<1>2. CASE Idle(<<connected, view, rows>>)
  BY <1>1, <1>2, Ends
<1>3. CASE connected' = "source" /\ pc' = "ask" /\ UNCHANGED <<job, view, rows>>
  <2>1. JobInv'
    BY <1>1, <1>3, JobGoesOn DEF World, Signing
  <2> QED
    BY <1>1, <1>3, <2>1, Asked DEF view, Accounts
<1>4. CASE connected' \in Accounts /\ Idle(<<view, rows>>)
  <2>1. JobInv'
    BY <1>4, JobEnds DEF Idle
  <2> QED
    BY <1>1, <1>4, <2>1, Asked DEF view, Idle
<1> QED
  BY <1>2, <1>3, <1>4 DEF AskAccount

LEMMA PayerKeeps == ASSUME Inv, Payer PROVE Inv'
<1>1. World /\ pc = "payer"
  BY DEF Payer
<1>2. CASE Idle(<<connected, view, rows>>)
  BY <1>1, <1>2, Ends
<1>3. ASSUME connected' \in Accounts, pc' = "idle", job' = NoJob,
             UNCHANGED <<shown, selected, authorized, rows>>, signed' \in {signed, 0}
      PROVE  Inv'
  BY <1>1, <1>3, JobEnds, Asked
<1>4. CASE connected' \in Accounts /\ pc' = "simulate" /\ UNCHANGED <<job, view, rows>>
  <2>1. JobInv'
    BY <1>1, <1>4, JobGoesOn DEF World, Settling
  <2> QED
    BY <1>1, <1>4, <2>1, Asked DEF view
<1>5. \/ Idle(<<connected, view, rows>>)
      \/ /\ connected' \in Accounts
         /\ \/ Idle(<<view, rows>>)
            \/ signed' = 0 /\ Idle(<<shown, selected, authorized, rows>>)
            \/ pc' = "simulate" /\ UNCHANGED <<job, view, rows>>
  BY DEF Payer
<1> QED
  BY <1>2, <1>3, <1>4, <1>5 DEF Idle, view

\* Simulation and the last check before the wallet is asked.
LEMMA CheckKeeps == ASSUME Inv, Simulate \/ Check PROVE Inv'
<1>1. World /\ pc \in {"simulate", "check"}
  BY DEF Simulate, Check
<1>2. CASE Idle(<<connected, view, rows>>)
  BY <1>1, <1>2, Ends
<1>3. CASE /\ UNCHANGED <<job, connected, view, rows>>
           /\ <<pc, pc'>> \in {<<"simulate", "check">>, <<"check", "send">>}
  <2>1. AuthsInv' /\ TxsInv' /\ UNCHANGED <<auths, txs>> /\ Len(auths) \in Nat
    BY <1>1, WorldKeeps DEF World, chain, Inv, AuthsInv
  <2>2. JobInv'
    BY <1>3, <2>1, JobGoesOn DEF Settling
  <2> QED
    BY <1>3, <2>1, <2>2, RowsKept, ViewKept DEF Inv
<1>4. \/ Idle(<<connected, view, rows>>)
      \/ /\ UNCHANGED <<job, connected, view, rows>>
         /\ <<pc, pc'>> \in {<<"simulate", "check">>, <<"check", "send">>}
  BY DEF Simulate, Check
<1> QED
  BY <1>2, <1>3, <1>4

-----------------------------------------------------------------------------
(* What is signed.                                                         *)

\* What is kept is of the route that is being signed.
LEMMA Landed ==
  ASSUME Inv, UNCHANGED chain, Lands, pc \in {"ask", "trial"}, pc' = "idle",
         job' \in Job, job'.route = job.route, job'.seen = job.seen, Len(job'.signers) > 0,
         \A k \in 1 .. Len(job'.signers) : job'.signers[k] = "source"
  PROVE  Inv'
<1> DEFINE by == {job'.signers[k] : k \in 1 .. Len(job'.signers)}
           au == [asset |-> job.route.asset, std |-> job.route.std,
                  amount |-> job.route.amount, nonce |-> job.route.nonce,
                  salt |-> Drawn, seen |-> job.seen, signers |-> by]
<1>1. auths' = Append(auths, au) /\ signed' = Len(auths) + 1 /\ authorized' = FALSE
      /\ UNCHANGED <<connected, shown, selected, rows>>
  BY DEF Lands
<1>2. job.route \in Offered /\ job.seen = job.route
  BY DEF Inv, JobInv, Signing
<1>3. by = {"source"}
  <2>1. job'.signers \in Seq(Accounts)
    BY DEF Job
  <2>2. Len(job'.signers) \in Nat
    BY <2>1
  <2>3. 1 \in 1 .. Len(job'.signers)
    BY <2>2
  <2> QED
    BY <2>3
<1> HIDE DEF by
<1>4. au \in Auth /\ AsSeen(au)
  <2>1. job.route \in Routes /\ job.route.std \in Offers[job.route.asset]
    BY <1>2 DEF Offered
  <2>2. by \in SUBSET Accounts
    BY <1>3 DEF Accounts
  <2>3. au \in Auth
    BY <1>2, <2>1, <2>2 DEF Auth, Routes, Drawn
  <2>4. AsSeen(au)
    BY <1>2, <1>3, <2>1 DEF AsSeen, Routes
  <2> QED
    BY <2>3, <2>4
<1> HIDE DEF au
<1>5. auths \in Seq(Auth) /\ Len(auths) \in Nat
  BY DEF Inv, AuthsInv
<1>6. /\ auths' \in Seq(Auth) /\ Len(auths') = Len(auths) + 1
      /\ \A i \in 1 .. Len(auths) : auths'[i] = auths[i]
      /\ auths'[Len(auths) + 1] = au
  BY <1>1, <1>4, <1>5
<1>7. \A i \in 1 .. Len(auths') : AsSeen(auths'[i])
  <2> SUFFICES ASSUME NEW i \in 1 .. Len(auths') PROVE AsSeen(auths'[i])
    OBVIOUS
  <2>1. CASE i \in 1 .. Len(auths)
    BY <1>6, <2>1 DEF Inv, AuthsInv
  <2>2. CASE i = Len(auths) + 1
    BY <1>4, <1>6, <2>2
  <2> QED
    BY <1>5, <1>6, <2>1, <2>2
<1>8. UNCHANGED <<held, nonce, spent, expired, txs>>
  BY DEF chain
<1>9. 1 .. Len(auths) \subseteq 1 .. Len(auths') /\ 0 .. Len(auths) \subseteq 0 .. Len(auths')
  BY <1>5, <1>6
<1>10. AuthsInv'
  BY <1>6, <1>7, <1>8, <1>9 DEF Inv, AuthsInv
<1>11. TxsInv'
  BY <1>8, <1>9 DEF Inv, TxsInv
<1>12. RowsInv'
  BY <1>1, <1>8, RowsKept
<1>13. ViewInv'
  <2>1. signed' \in 0 .. Len(auths')
    BY <1>1, <1>5, <1>6
  <2>2. UNCHANGED <<connected, shown, selected>> /\ authorized' \in BOOLEAN
    BY <1>1
  <2> QED
    BY <2>1, <2>2 DEF Inv, ViewInv
<1>14. JobInv'
  BY DEF JobInv, Signing, Settling
<1> QED
  BY <1>10, <1>11, <1>12, <1>13, <1>14 DEF Inv

\* A handler that ends, or goes on, with nothing kept yet.
LEMMA Waits ==
  ASSUME Inv, UNCHANGED <<chain, auths, connected, view, rows>>, JobInv'
  PROVE  Inv'
<1>1. World
  BY DEF World
<1>2. AuthsInv' /\ TxsInv' /\ UNCHANGED <<auths, txs>> /\ Len(auths) \in Nat
  BY <1>1, WorldKeeps DEF World, chain, Inv, AuthsInv
<1> QED
  BY <1>2, RowsKept, ViewKept DEF Inv

LEMMA AskKeeps == ASSUME Inv, Ask PROVE Inv'
<1>1. pc = "ask" /\ UNCHANGED chain
  BY DEF Ask
<1>2. CASE Idle(<<connected, view, rows, auths>>)
  BY <1>1, <1>2, JobEnds, Waits DEF Idle
<1>3. ASSUME NEW by \in Accounts, Verified(by), job' = [job EXCEPT !.signers = Append(@, by)],
             IF Len(job'.signers) < Len(Signs(job.route.std))
             THEN UNCHANGED <<pc, connected, view, rows, auths>>
             ELSE IF job.route.std = "ERC3009"
                  THEN pc' = "idle" /\ Lands
                  ELSE pc' = "trial" /\ UNCHANGED <<connected, view, rows, auths>>
      PROVE  Inv'
  <2>1. /\ job \in Job /\ job.route = job.seen /\ job.route \in Offered
        /\ \A k \in 1 .. Len(job.signers) : job.signers[k] = "source"
    BY <1>1 DEF Inv, JobInv, Signing
  <2>2. job.signers \in Seq(Accounts) /\ by = "source"
    BY <1>3, <2>1 DEF Job, Verified
  <2>3. /\ job' \in Job /\ job'.route = job.route /\ job'.seen = job.seen
        /\ job'.signers = Append(job.signers, by)
    <3> DEFINE more == Append(job.signers, by)
    <3>1. more \in Seq(Accounts)
      BY <2>2
    <3>2. job' = [job EXCEPT !.signers = more]
      BY <1>3
    <3> HIDE DEF more
    <3>3. job' \in Job /\ job'.route = job.route /\ job'.seen = job.seen /\ job'.signers = more
      BY <2>1, <3>1, <3>2 DEF Job
    <3> QED
      BY <3>3 DEF more
  <2>4. /\ Len(job'.signers) > 0
        /\ \A k \in 1 .. Len(job'.signers) : job'.signers[k] = "source"
    <3>1. Len(job'.signers) = Len(job.signers) + 1 /\ Len(job.signers) \in Nat
      BY <2>2, <2>3
    <3>2. \A k \in 1 .. Len(job.signers) + 1 :
            Append(job.signers, by)[k] = IF k <= Len(job.signers) THEN job.signers[k] ELSE by
      BY <2>2
    <3> QED
      BY <2>1, <2>2, <2>3, <3>1, <3>2
  <2>5. CASE pc' = "idle" /\ Lands
    BY <1>1, <2>3, <2>4, <2>5, Landed
  <2>6. CASE pc' \in {"ask", "trial"} /\ UNCHANGED <<connected, view, rows, auths>>
    <3>1. JobInv'
      BY <2>1, <2>3, <2>4, <2>6 DEF JobInv, Signing, Settling
    <3> QED
      BY <1>1, <2>6, <3>1, Waits
  <2> QED
    BY <1>1, <1>3, <2>5, <2>6
<1> QED
  BY <1>2, <1>3 DEF Ask

LEMMA TrialKeeps == ASSUME Inv, Trial PROVE Inv'
<1>1. pc = "trial" /\ UNCHANGED chain
  BY DEF Trial
<1>2. CASE Idle(<<connected, view, rows, auths>>)
  BY <1>1, <1>2, JobEnds, Waits DEF Idle
<1>3. CASE pc' = "idle" /\ UNCHANGED job /\ Lands
  <2>1. /\ job \in Job /\ Len(job.signers) > 0
        /\ \A k \in 1 .. Len(job.signers) : job.signers[k] = "source"
    BY <1>1 DEF Inv, JobInv
  <2> QED
    BY <1>1, <1>3, <2>1, Landed
<1> QED
  BY <1>2, <1>3 DEF Trial

-----------------------------------------------------------------------------
(* What is sent, and the rows that say so.                                 *)

\* The wallet sends a settlement: what is listed of the others is as true as before.
LEMMA Sent ==
  ASSUME Inv, NEW status \in {"pending", "elsewhere"}, job.auth \in 1 .. Len(auths),
         txs' = Append(txs, [auth |-> job.auth, status |-> status]),
         UNCHANGED <<auths, spent>>
  PROVE  /\ TxsInv' /\ Len(txs') = Len(txs) + 1
         /\ \A t \in 1 .. Len(txs) : t \in 1 .. Len(txs') /\ txs'[t] = txs[t]
<1> DEFINE tx == [auth |-> job.auth, status |-> status]
<1>1. txs \in Seq(Tx) /\ Len(txs) \in Nat /\ Len(auths) \in Nat
  BY DEF Inv, TxsInv, AuthsInv
<1>2. tx \in Tx /\ tx.status # "moved" /\ tx.auth \in 1 .. Len(auths)
  BY <1>1 DEF Tx
<1> HIDE DEF tx
<1>3. txs' = Append(txs, tx)
  BY DEF tx
<1>4. /\ txs' \in Seq(Tx) /\ Len(txs') = Len(txs) + 1
      /\ \A t \in 1 .. Len(txs) : txs'[t] = txs[t]
      /\ txs'[Len(txs) + 1] = tx
  BY <1>1, <1>2, <1>3
<1>5. \A t \in 1 .. Len(txs') : t \in 1 .. Len(txs) \/ t = Len(txs) + 1
  BY <1>1, <1>4
<1>6. TxsInv'
  BY <1>2, <1>4, <1>5 DEF Inv, TxsInv
<1> QED
  BY <1>1, <1>4, <1>6

LEMMA SendKeeps == ASSUME Inv, Send PROVE Inv'
<1>1. PICK status \in {"pending", "elsewhere"} :
        \/ /\ txs' \in {txs, Append(txs, [auth |-> job.auth, status |-> status])}
           /\ Idle(<<connected, view, rows>>)
        \/ /\ txs' = Append(txs, [auth |-> job.auth, status |-> status])
           /\ \E report \in {"REPORTING", "NOT_REQUIRED"} :
                rows' = Append(rows, [tx |-> Len(txs'), status |-> "CONFIRMING",
                                      report |-> report])
           /\ pc' = "register" /\ UNCHANGED <<job, connected, view>>
  BY DEF Send
<1>2. UNCHANGED <<held, nonce, spent, expired, auths>> /\ pc = "send"
  BY DEF Send
<1>3. AuthsInv' /\ Len(auths) \in Nat
  BY <1>2 DEF Inv, AuthsInv
<1>4. job.auth \in 1 .. Len(auths)
  BY <1>2 DEF Inv, JobInv, Settling
<1>5. /\ TxsInv'
      /\ \A t \in 1 .. Len(txs) : t \in 1 .. Len(txs') /\ txs'[t] = txs[t]
  <2>1. CASE txs' = txs
    BY <1>2, <2>1 DEF Inv, TxsInv
  <2>2. CASE txs' = Append(txs, [auth |-> job.auth, status |-> status])
    BY <1>2, <1>4, <2>2, Sent
  <2> QED
    BY <1>1, <2>1, <2>2
<1>6. UNCHANGED <<connected, view>>
  BY <1>1 DEF Idle
<1>7. ViewInv'
  BY <1>2, <1>3, <1>6, ViewKept
<1>8. rows \in Seq(Row) /\ Len(rows) \in Nat
  BY DEF Inv, RowsInv
<1>9. CASE Idle(<<connected, view, rows>>)
  <2>1. pc' = "idle" /\ job' = NoJob /\ rows' = rows
    BY <1>9 DEF Idle
  <2>2. RowsInv'
    BY <1>5, <2>1 DEF Inv, RowsInv
  <2>3. JobInv'
    BY <2>1, JobEnds
  <2> QED
    BY <1>3, <1>5, <1>7, <2>2, <2>3 DEF Inv
<1>10. CASE /\ txs' = Append(txs, [auth |-> job.auth, status |-> status])
            /\ \E report \in {"REPORTING", "NOT_REQUIRED"} :
                 rows' = Append(rows, [tx |-> Len(txs'), status |-> "CONFIRMING",
                                       report |-> report])
            /\ pc' = "register" /\ UNCHANGED <<job, connected, view>>
  <2>1. PICK report \in {"REPORTING", "NOT_REQUIRED"} :
          rows' = Append(rows, [tx |-> Len(txs'), status |-> "CONFIRMING", report |-> report])
    BY <1>10
  <2> DEFINE row == [tx |-> Len(txs'), status |-> "CONFIRMING", report |-> report]
  <2>2. Len(txs') = Len(txs) + 1 /\ Len(txs) \in Nat
    BY <1>2, <1>4, <1>10, Sent DEF Inv, TxsInv
  <2>3. row \in Row /\ row.status = "CONFIRMING" /\ row.tx \in 1 .. Len(txs')
    BY <2>2 DEF Row
  <2> HIDE DEF row
  <2>4. rows' = Append(rows, row)
    BY <2>1 DEF row
  <2>5. /\ rows' \in Seq(Row) /\ Len(rows') = Len(rows) + 1
        /\ \A i \in 1 .. Len(rows) : rows'[i] = rows[i]
        /\ rows'[Len(rows) + 1] = row
    BY <1>8, <2>3, <2>4
  <2>6. \A i \in 1 .. Len(rows') : i \in 1 .. Len(rows) \/ i = Len(rows) + 1
    BY <1>8, <2>5
  <2>7. RowsInv'
    BY <1>5, <2>3, <2>5, <2>6 DEF Inv, RowsInv
  <2>8. JobInv'
    <3>1. Len(rows') > 0
      BY <1>8, <2>5
    <3> QED
      BY <1>2, <1>10, <3>1 DEF Inv, JobInv, Signing, Settling
  <2> QED
    BY <1>3, <1>5, <1>7, <2>7, <2>8 DEF Inv
<1> QED
  BY <1>1, <1>9, <1>10

\* What is reported of the last row is not about the chain.
LEMMA Reports ==
  ASSUME Inv, Len(rows) > 0, UNCHANGED txs,
         NEW report \in {"REPORTING", "NOT_REQUIRED", "ERROR", "PENDING"}, rows' = Reported(report)
  PROVE  RowsInv' /\ Len(rows') = Len(rows)
<1>1. rows \in Seq(Row) /\ Len(rows) \in Nat /\ Last \in 1 .. Len(rows)
  BY DEF Inv, RowsInv, Last
<1>2. rows[Last] \in Row
  BY <1>1
<1> DEFINE row == [rows[Last] EXCEPT !.report = report]
<1>3. row \in Row /\ row.tx = rows[Last].tx /\ row.status = rows[Last].status
  BY <1>2 DEF Row
<1>4. rows' = [rows EXCEPT ![Last] = row]
  BY DEF Reported
<1> HIDE DEF row, Last
<1>5. rows' \in Seq(Row) /\ Len(rows') = Len(rows)
  BY <1>1, <1>3, <1>4
<1>6. \A i \in 1 .. Len(rows) : rows'[i].tx = rows[i].tx /\ rows'[i].status = rows[i].status
  BY <1>1, <1>3, <1>4
<1> QED
  BY <1>5, <1>6 DEF Inv, RowsInv

LEMMA RegistersReports == Registers \subseteq {"REPORTING", "NOT_REQUIRED", "ERROR", "PENDING"}
BY DEF Registers

LEMMA RegisterKeeps == ASSUME Inv, Register PROVE Inv'
<1>1. /\ World /\ pc = "register" /\ pc' = "wait" /\ UNCHANGED <<job, connected, view>>
      /\ \E report \in Registers : rows' = Reported(report)
  BY DEF Register
<1>2. AuthsInv' /\ TxsInv' /\ UNCHANGED <<auths, txs>> /\ Len(auths) \in Nat
  BY <1>1, WorldKeeps DEF World, chain, Inv, AuthsInv
<1>3. Len(rows) > 0
  BY <1>1 DEF Inv, JobInv
<1>4. RowsInv' /\ Len(rows') = Len(rows)
  BY <1>1, <1>2, <1>3, RegistersReports, Reports
<1>5. JobInv'
  BY <1>1, <1>2, <1>4, JobGoesOn DEF Settling
<1> QED
  BY <1>1, <1>2, <1>4, <1>5, ViewKept DEF Inv

LEMMA AgainKeeps == ASSUME Inv, Again PROVE Inv'
<1>1. /\ World /\ pc = "again" /\ pc' = "preflight" /\ job' = NoJob /\ signed' = 0
      /\ UNCHANGED <<connected, shown, selected, authorized>>
      /\ \E report \in Registers : rows' = Reported(report)
  BY DEF Again
<1>2. AuthsInv' /\ TxsInv' /\ UNCHANGED <<auths, txs>> /\ Len(auths) \in Nat
  BY <1>1, WorldKeeps DEF World, chain, Inv, AuthsInv
<1>3. Len(rows) > 0
  BY <1>1 DEF Inv, JobInv
<1>4. RowsInv'
  BY <1>1, <1>2, <1>3, RegistersReports, Reports
<1>5. ViewInv'
  BY <1>1, <1>2 DEF Inv, ViewInv
<1>6. JobInv'
  BY <1>1, JobEnds
<1> QED
  BY <1>2, <1>4, <1>5, <1>6 DEF Inv

\* A row is decided by the receipt of its transaction.
LEMMA WaitKeeps == ASSUME Inv, Wait PROVE Inv'
<1>1. World /\ pc = "wait"
  BY DEF Wait
<1>2. CASE Idle(<<connected, view, rows>>)
  BY <1>1, <1>2, Ends
<1>3. CASE /\ Included
           /\ rows' = [rows EXCEPT ![Last].status = IF Proved THEN "CONFIRMED" ELSE "FAILED"]
           /\ IF Proved THEN pc' = "again" /\ UNCHANGED job
              ELSE pc' = "idle" /\ job' = NoJob
           /\ UNCHANGED <<connected, view>>
  <2>1. AuthsInv' /\ TxsInv' /\ UNCHANGED <<auths, txs>> /\ Len(auths) \in Nat
    BY <1>1, WorldKeeps DEF World, chain, Inv, AuthsInv
  <2>2. Len(rows) > 0
    BY <1>1 DEF Inv, JobInv
  <2>3. rows \in Seq(Row) /\ Len(rows) \in Nat /\ Last \in 1 .. Len(rows)
    BY <2>2 DEF Inv, RowsInv, Last
  <2>4. rows[Last] \in Row
    BY <2>3
  <2> DEFINE verdict == IF Proved THEN "CONFIRMED" ELSE "FAILED"
             row == [rows[Last] EXCEPT !.status = verdict]
  <2>5. verdict \in {"CONFIRMED", "FAILED"}
    OBVIOUS
  <2>6. /\ verdict = "CONFIRMED" => txs[rows[Last].tx].status = "moved"
        /\ verdict = "FAILED" => txs[rows[Last].tx].status \in {"reverted", "cancelled"}
    BY <1>3 DEF Included, Proved
  <2>7. rows' = [rows EXCEPT ![Last].status = verdict]
    BY <1>3
  <2> HIDE DEF verdict
  <2>8. row \in Row /\ row.tx = rows[Last].tx /\ row.status = verdict
    BY <2>4, <2>5 DEF Row
  <2>9. rows' = [rows EXCEPT ![Last] = row]
    BY <2>7
  <2> HIDE DEF row, Last
  <2>10. rows' \in Seq(Row) /\ Len(rows') = Len(rows)
    BY <2>3, <2>8, <2>9
  <2>11. /\ rows'[Last] = row
         /\ \A i \in 1 .. Len(rows) : i # Last => rows'[i] = rows[i]
    BY <2>3, <2>9
  <2>12. RowsInv'
    <3> SUFFICES ASSUME NEW i \in 1 .. Len(rows)
                 PROVE  /\ rows'[i].tx \in 1 .. Len(txs)
                        /\ rows'[i].status = "CONFIRMED" => txs[rows'[i].tx].status = "moved"
                        /\ rows'[i].status = "FAILED"
                             => txs[rows'[i].tx].status \in {"reverted", "cancelled"}
      BY <2>1, <2>10 DEF RowsInv
    <3>1. CASE i = Last
      BY <2>3, <2>6, <2>8, <2>11, <3>1 DEF Inv, RowsInv
    <3>2. CASE i # Last
      BY <2>11, <3>2 DEF Inv, RowsInv
    <3> QED
      BY <3>1, <3>2
  <2>13. ViewInv'
    BY <1>3, <2>1, ViewKept
  <2>14. JobInv'
    <3>1. CASE Proved
      BY <1>1, <1>3, <2>1, <2>10, <3>1, JobGoesOn DEF Settling
    <3>2. CASE ~Proved
      BY <1>3, <3>2, JobEnds
    <3> QED
      BY <3>1, <3>2
  <2> QED
    BY <2>1, <2>12, <2>13, <2>14 DEF Inv
<1> QED
  BY <1>2, <1>3 DEF Wait

-----------------------------------------------------------------------------
(* The theorems.                                                           *)

LEMMA InitHolds == ASSUME Init PROVE Inv
<1>1. auths = <<>> /\ txs = <<>> /\ rows = <<>> /\ spent = {} /\ expired = 0 /\ signed = 0
  BY DEF Init
<1>2. held \in [Assets -> Nat] /\ nonce \in [Assets -> Nat]
  BY StartAssumption DEF Init
<1>3. AuthsInv /\ TxsInv /\ RowsInv
  BY <1>1, <1>2 DEF AuthsInv, TxsInv, RowsInv
<1>4. ViewInv
  <2>1. connected = "none" /\ shown = {} /\ selected = NoRoute /\ authorized \in BOOLEAN
    BY DEF Init
  <2>2. signed \in 0 .. Len(auths)
    BY <1>1
  <2> QED
    BY <2>1, <2>2 DEF ViewInv
<1>5. JobInv
  BY NoJobIsOne DEF Init, JobInv, Signing, Settling
<1> QED
  BY <1>3, <1>4, <1>5 DEF Inv

LEMMA EveryStep == ASSUME Inv, [Next]_vars PROVE Inv'
<1>1. CASE Handler
  BY <1>1, RespondKeeps, AskAccountKeeps, AskKeeps, TrialKeeps, PayerKeeps, CheckKeeps,
     SendKeeps, RegisterKeeps, WaitKeeps, AgainKeeps DEF Handler
<1>2. CASE User
  BY <1>2, ConnectKeeps, UserKeeps, SignKeeps, SettleKeeps DEF User
<1>3. CASE Outside
  BY <1>3, MineKeeps, CancelKeeps, OutsideKeeps DEF Outside
<1>4. CASE UNCHANGED vars
  <2>1. UNCHANGED <<chain, auths, connected, view, rows, pc, job>>
    BY <1>4 DEF vars, page
  <2>2. JobInv'
    BY <2>1 DEF Inv, JobInv
  <2> QED
    BY <2>1, <2>2, Waits
<1> QED
  BY <1>1, <1>2, <1>3, <1>4 DEF Next

LEMMA Invariance == Spec => []Inv
<1>1. Init => Inv
  BY InitHolds
<1>2. Inv /\ [Next]_vars => Inv'
  BY EveryStep
<1> QED
  BY <1>1, <1>2, PTL DEF Spec

\* Every variable of the page and of the chain keeps its type.
THEOREM TypeCorrect == Spec => []TypeOK
<1>1. Inv => TypeOK
  <2> SUFFICES ASSUME Inv PROVE TypeOK
    OBVIOUS
  <2>1. /\ held \in [Assets -> Nat] /\ nonce \in [Assets -> Nat]
        /\ spent \subseteq 1 .. Len(auths) /\ expired \in 0 .. Len(auths)
    BY DEF Inv, AuthsInv
  <2>2. \A i \in 1 .. Len(auths) :
          /\ auths[i].asset \in Assets /\ auths[i].std \in Offers[auths[i].asset]
          /\ auths[i].amount > 0 /\ auths[i].signers \subseteq Accounts
    <3> SUFFICES ASSUME NEW i \in 1 .. Len(auths)
                 PROVE  /\ auths[i].asset \in Assets /\ auths[i].std \in Offers[auths[i].asset]
                        /\ auths[i].amount > 0 /\ auths[i].signers \subseteq Accounts
      OBVIOUS
    <3>1. auths[i] \in Auth /\ AsSeen(auths[i])
      BY DEF Inv, AuthsInv
    <3> QED
      BY <3>1 DEF AsSeen, Auth
  <2>3. \A t \in 1 .. Len(txs) :
          /\ txs[t].auth \in 1 .. Len(auths)
          /\ txs[t].status \in {"pending", "moved", "reverted", "cancelled", "elsewhere"}
    <3> SUFFICES ASSUME NEW t \in 1 .. Len(txs)
                 PROVE  /\ txs[t].auth \in 1 .. Len(auths)
                        /\ txs[t].status \in {"pending", "moved", "reverted", "cancelled", "elsewhere"}
      OBVIOUS
    <3>1. txs[t] \in Tx /\ txs[t].auth \in 1 .. Len(auths)
      BY DEF Inv, TxsInv
    <3> QED
      BY <3>1 DEF Tx
  <2>4. \A i \in 1 .. Len(rows) :
          /\ rows[i].tx \in 1 .. Len(txs)
          /\ rows[i].status \in {"CONFIRMING", "CONFIRMED", "FAILED"}
          /\ rows[i].report \in {"REPORTING", "NOT_REQUIRED", "ERROR", "PENDING"}
    <3> SUFFICES ASSUME NEW i \in 1 .. Len(rows)
                 PROVE  /\ rows[i].tx \in 1 .. Len(txs)
                        /\ rows[i].status \in {"CONFIRMING", "CONFIRMED", "FAILED"}
                        /\ rows[i].report \in {"REPORTING", "NOT_REQUIRED", "ERROR", "PENDING"}
      OBVIOUS
    <3>1. rows[i] \in Row /\ rows[i].tx \in 1 .. Len(txs)
      BY DEF Inv, RowsInv
    <3> QED
      BY <3>1 DEF Row
  <2>5. /\ connected \in Accounts \union {"none"} /\ authorized \in BOOLEAN
        /\ signed \in 0 .. Len(auths) /\ selected \in shown \union {NoRoute}
    BY DEF Inv, ViewInv
  <2>6. pc \in {"idle", "preflight", "fresh", "account", "ask", "trial", "payer",
                "simulate", "check", "send", "register", "wait", "again"}
    BY DEF Inv, JobInv, Signing, Settling
  <2> QED
    BY <2>1, <2>2, <2>3, <2>4, <2>5, <2>6 DEF TypeOK
<1> QED
  BY <1>1, Invariance, PTL

\* signAuthorization: whatever is chosen, switched or refreshed while the wallet is
\* asked, an authorization that is kept is of the asset, standard, amount and nonce
\* on display when its signing was started, signed by the source throughout.
THEOREM SignsReviewed == Spec => []SignsWhatWasReviewed
<1>1. Inv => SignsWhatWasReviewed
  BY DEF Inv, AuthsInv, AsSeen, SignsWhatWasReviewed
<1> QED
  BY <1>1, Invariance, PTL

\* receiptProvesCommittedTransfer: a row of the page says CONFIRMED only of a
\* settlement that moved the asset with its authorization, and FAILED only of one
\* that did not, whatever the wallet did with what it was asked to send.
THEOREM RowsTellTheTruth == Spec => []RowsAreTrue
<1>1. Inv => RowsAreTrue
  BY DEF Inv, RowsInv, TxsInv, RowsAreTrue
<1> QED
  BY <1>1, Invariance, PTL
=============================================================================
