# SAFEEXIT in TLA+

Models, checks and proofs of the rescue service of this repository: a buyer
reports a compromised wallet, the service scans it, plans and simulates a
rescue, hands out short-lived signing packages, and records the receipts of the
transactions the buyer broadcasts. The service never signs or broadcasts, so
what it can get wrong is its *record* of a rescue: many callers, each a
serverless invocation, read one JSON document, wait for a chain or a database,
and write it back.

## The system

| part | source | state | hard behaviour |
|---|---|---|---|
| agent service | `packages/agent-service` | one job document per rescue, with a revision | operations await ports between a read and a write; retries on conflict |
| job store | `packages/persistence` | the document, its revision, `updatedAt` | optimistic save, listing by status and age |
| receipt route | `apps/web/.../rescue/[id]/receipt` | none (an after-response worker) | registration, then up to 8 reconciliations after the response |
| schedule | `apps/web/.../cron/reconcile-rescues` | none | 25 jobs a run, 60 s a run, one receipt at a time |
| verifier | `apps/web/src/lib/live-buyer-report-verifier.ts` | none | finality and canonicality read twice around asset reads |
| package builder | `apps/web/src/lib/live-*-signing-package-builder.ts` | none | packages of one list expire at different times |
| provider bridge | `packages/okx-transport` | none | a pipeline over the service that may stop anywhere |
| paid preparation | `apps/web/src/app/api/agent/okx` | continuation tokens | charged, then failed |
| preflight | `apps/web/.../rescue/[id]/preflight` | none | the pipeline again, for the page, with what each contract offers |
| browser flow | `apps/web/src/components`, `lib/okx-wallet.ts` | wallet, routes on display, listed transactions | the wallet changes account and chain between two questions |
| buyer runtime | `packages/buyer-runtime` | prepared handles, delegations, temporary payers | concurrent executions, failure between delegation, action, revocation, refund |
| contracts | `contracts/src` | nonces, executed bitmap | permits consumed by others, reentrancy, deadlines |
| rate limiter | `packages/security`, `packages/persistence` | buckets | skewed clocks, pruning |
| planner, scanner, simulator | `packages/...` | none | pure algorithms and paging |
| signer extension | `apps/signer-extension` | one local key, pending request | page, content script, background and popup in any order |

The parts meet in the job. The API routes, the receipt route and the schedule
call `AgentIncidentService`, which calls its ports (scanner, planner, simulator,
builder, verifier, monitor) and the store. A buyer's browser or runtime receives
packages from the service, broadcasts to a contract, and returns a transaction
hash to the receipt route or as a report.

What makes each part correct:

* service and store: a write computed from an old read is never stored; a
  receipt's status is the chain's verdict and stays; a rescue is complete when,
  and only when, its packages are; live packages stay registrable; a registered
  receipt is eventually settled;
* schedule: no due receipt is passed over for ever;
* contracts: an action moves at most once and only as signed;
* provider bridge and paid routes: one job per request, packages only for what was
  asked and paid;
* planner, simulator, builders: nothing found is forgotten, nothing is offered that
  rests on something that fails or is gone, and every expiry is one that holds;
* browser: what is signed is what was on display, and what is listed is true;
* runtimes: what was delegated or funded is revoked or refunded, or known to be
  outstanding; one handle moves its assets once; what is reported is final;
* signer extension: SIGNED means that the page took the signatures, and whoever
  waits is answered;
* rate limiter: never more than the limit in a window.

## Modules

| module | models |
|---|---|
| `JobLifecycle` | the job as a value: statuses, transitions, the schema's rules, the patches of the service |
| `JobService` | the service on one stored job under concurrent calls, the receipt route, the schedule, the chain |
| `RescuePromise` | what a buyer may rely on; `JobService` implements it |
| `ReceiptReconciler` | the schedule over many jobs |
| `RescueIntake` | how requests become jobs and answers: provider bridge, paid routes, `createIncident` |
| `RescuePlan` | scan findings, selection, dependencies and the order of a plan, as operators |
| `PermitCapability` | which standards a contract supports, as two detectors find out |
| `RescuePipeline` | scan, plan, simulation, permit and delegate packages, with time passing; uses the two above |
| `BrowserRescue` | the page that signs and settles a permit rescue |
| `SourceSigner` | pages, content scripts, worker and popup of the signer extension |
| `BuyerRuntime` | authorize and execute behind a handle, on a chain that replaces blocks |
| `RescueAuthority` | what a source's signatures allow |
| `PermitSettlement` | `SafeExitPermitSettlementV2` with the assets it settles; implements `RescueAuthority` |
| `DelegatedSource` | the chain in an EIP-7702 rescue: source, delegate, temporary payer |
| `DelegatedRescue` | the client's session over it: fund, deploy, sign, execute, clear, refund |
| `JobClaims` | a sentence of the documents that the service does not keep |
| `MCJobService`, `MCPermitSettlement`, `MCRescueIntake`, `MCRescuePipeline`, `MCBrowserRescue`, `MCBuyerRuntime` | instances, starting states and symmetry for TLC |
| `JobServiceProofs`, `RescueIntakeProofs`, `RescuePipelineProofs`, `BrowserRescueProofs`, `SourceSignerProofs`, `BuyerRuntimeProofs`, `PermitSettlementProofs`, `DelegatedRescueProofs` | theorems about the module each is named for |

### JobService

`job` is the stored document. A call is one invocation: `pc` says where it is
suspended, `snap` is the document it last read, `base` the document the outer
read of a reconciliation returned, `arg` the receipt it is about, `tries` the
conflicts of `retryJobMutation`, `follow` what is left of the worker's attempts.
Every action ends at an await of the code: `XRead` is the part of an operation
up to its port, `XDone` or `XSave` the part after it up to its write. A write is
`Accepts`: the row's revision is still the one read, the new one is higher, and
the document satisfies the schema (`ValidJob`, which is `superRefine`).

Points where the code differs between operations, kept as they are:

* `analyseIncident`, `generatePlan` and `simulatePlan` `return` the promise of
  their last write inside the `try`, so a conflict there reaches the caller;
  `monitorRescue` awaits it, so the same conflict fails the job;
* only receipt operations run under `retryJobMutation`, which reads again;
  `setReceiptSubmissionStatus` makes its first attempt on the document of the
  *outer* read;
* `getSigningPackages` may write twice (simulation, then packages), and returns
  the stored list only while nothing of it has expired;
* the schedule lists submissions and reconciles each by a service call that
  reads the job again;
* the monitor that is deployed always answers `WAITING_FOR_USER`.

The world is the set `txs` of destination transactions with the chain's verdict
(`SEEN` until final), the set of expired packages, and `Crash`, which ends a
call at any await.

Abstractions: a plan is the constant set `Actions`; a package is its issue and
action (package ids are fresh UUIDs); amounts, addresses, time stamps, hashes of
documents, error texts and the history are left out; a receipt or report is
about one transaction hash and one package, as in every caller; an observation
of the verifier is one atomic answer at the time of its last read, since the
chain's final verdict does not change; EIP-7702 packages are not stored by the
service and do not appear.

### ReceiptReconciler

`queue` is the order by `updatedAt` of the jobs in an active status. Every write
of a job moves it to the end. A run lists `Limit` jobs and their pending
receipts, goes through them, and may be cut off. A reconciliation of one receipt
is one step here; `JobService` has its inside.

### RescueIntake

`jobs` is the table, `calls` one invocation per client: its `pc` is the await it
is at, `doc` the document it read last. `Lookup`, `Create` and `TakeOver` are
`createIncident` under the bridge's request id: the lookup, the insert that the
unique index may refuse, and the scope check on the job that is there.
`Analyse` to `Simulated` are the pipeline, entered where the found job's status
says (`Needs`). `Delegate`, `Permits` and `InScope` are the packages and the
bridge's scope checks, `Settle` the payment that the x402 server takes after an
answer that is no error, `Resume` the continuation with its token. `Kill` cuts a
call off at any await, `Expire` lets packages, `ExpireToken` tokens run out,
`Progress` stands for what `JobService` does with the job later.

The scanner reads the native balance whatever the manifest says
(`agent-runtime.ts:294`, `deterministic-scanner.ts:539`), and the planner moves what it
finds (`planner.ts:645-672`). So `Analysed` may plan `Coin`, which no manifest
lists; the scope checks of the bridge never let it out.

A job never returns to an earlier status, so the document a call read stands for
its revision. A manifest is compared by `Digest`, which may map two manifests to
one value, as 28 bits may. A token is membership in `tokens`: forging one is
outside the model. The a2a door runs the same code and ends without a payment;
the run opens the paid door and its refresh, since both doors at once multiply
the states and meet only in the job ids.

### RescuePlan, PermitCapability and RescuePipeline

`RescuePlan` says what the scanner concludes from each read (`Finding`: a failed
one is `UNKNOWN`, not zero), what the planner selects, what depends on what, and
in which order it goes (`Sorted`: as many rounds as there are actions, each of which
takes, of the ready ones, the first by risk, value, type and key). `PermitCapability` has the two detectors side by side, that of the
preflight route (`Offered`) and that of the package builder (`Taken`), as
functions of what a contract answers, an impossible permit included.

`RescuePipeline` runs them. `Scan` and `Plan` are atomic (one block, no await
between selection and order); `Simulate` is one action of `simulateRescuePlan`
with its dependencies and the gas of all before it; `Predict` and `Assemble` build
the EIP-7702 package from a clock read between them, `BeginPermits` and
`BuildPermits` the permit packages of a job, and `Gasless` is the preflight
route's list. Between any two of them `Tick` passes ten seconds; `Drain` lets an
asset leave the source before packages are built. `caller` tells apart the
agent's runtime, the preflight route and a caller of the packages with all their
options (approvals, adapters, whole scans), which no route is. Gas is counted in
units of one action, amounts are what is left of the coin.

### BrowserRescue

`pc` is where the page's handler is, `job` what it captured when it started,
`shown`, `selected`, `authorized` and `signed` the React state, `rows` the
transactions it lists. Each handler ends at its awaits: preflight, the account
read before and after each signature, simulation, the check of chain and
account, sending, registration, the receipt, registration again. The account and
the chain a wallet answers with are chosen anew at each question, which covers
every switch between two of them. The chain moves too: permits are used, the
source receives, authorizations expire, the user cancels the settlement in the
wallet. `Drawn` says whose salt an authorization bears: the page draws its own
nonce and deadline, a package has others. EIP-7702 routes are `DelegatedRescue`'s.

### SourceSigner

Requests are numbered, and a session bears the number of its request: a page runs
preflight before it asks, so every request has a package of its own. `asked` and
`outcome` are the pages, `staging` and `staged` the worker, `calls` what popups
asked of the worker, `delivery` what a content script is repeating, `taken`
what pages posted and scripts have not read. `TimesOut`, `GivesUp` and `Expire`
are the timers of page, content script and package. `Kill` ends the worker
between two awaits; its session storage stays.

### BuyerRuntime

`Authorize` and `SignRequest` ask the source's wallet and recover each signer;
`handle` is what they leave. An execution looks the handle up,
reads account and chain, simulates, reads both again, gives the handle up, sends,
and polls: policy,
receipt, height, canonical block, receipt again, each an await at which wallets
switch account or chain, the package expires, or blocks are mined and replaced.
`home` is the package's chain; `Reorganize` replaces blocks with fewer than
`Confirmations` confirmations. (`chain/src/config.ts` does not claim that deeper
ones cannot be replaced; what is then true of a report is outside the model.)
`strayed` marks executions during whose sending and waiting the wallet was
switched to the other chain, which the code does not look at again.

### PermitSettlement

The state is the contract's `rescueNonceUsed` and, of each asset, what the
settlement depends on: owner balances, allowances, the permit nonce. `Sign` adds
a package to the signed ones; anybody may submit a signed permit to the asset
itself, the source may approve, transfer and revoke. `SettleERC2612`,
`SettleDai` and `SettleERC4494` are the three entry points: deadline, unused
rescue nonce, the source's signature, the permit call (whose failure is ignored
if the state already allows the transfer), the transfer and the comparison of
balances. They differ as in the code: an ERC-2612 permit leaves exactly the
amount, a DAI permit grants everything and is revoked with a second signature,
an ERC-4494 permit ends with the transfer. A settlement whose check fails
reverts, that is, is no step.

A token is what it knows of the source and the contract, its permit nonce and the
contract's allowance. What the permit, the transfer and the revocation make of it is
computed in their order (`Granted`, `Spent`, `Revoked`, `Handed`), and the contract's
checks (`AtOrNext`, `NothingIn`) are made on the results, so that the allowance
after a settlement is what the token says and not what the contract hopes. An
ERC-2612 package may be submitted with a permit signature that the token refuses
(`genuine`): its failure is caught.

Three variables record history. `rescued` is the log of settlements, where the same
package twice would show; `mover` is whose call moved assets last; `approved` holds
the assets that the source ever approved by hand. `NothingLeftToTake` is about the
others: whatever the contract may take of them is owed to a signed package that is
not settled yet. (An approval by hand stays, as the source wanted, until a settlement
uses or ends it.) `RescueAuthority` has three kinds of steps: `CarryOut`, a movement
by the contract, of exactly the signed amount and with a rescue nonce that the log does
not have; `Move`, a movement by an account other than the contract, of what is its own;
and `Prepare`, which moves nothing.

A signature is membership in the set of signed packages, so forgery is outside
the model; amounts are small numbers; a token keeps a fee or not.

### DelegatedRescue

`DelegatedSource` holds what is on chain. A transaction of the payer is a record
in `txs`, `mined` says how many are mined, in nonce order. An authorization in
it applies when the source's nonce fits, whether the call reverts or not:
`CodeAfter`, `Applies`. The source's other keys send transactions (`own` wait,
and count in the nonce the client reads), may move assets away and set another
delegation; anybody may call `execute` while the source is delegated.

`DelegatedRescue` is `settleAuthorization` with `provision`, `authorize` and
`execute` of `LocalEip7702RescueRuntime` and the funded payer. `pc` names the
await at which the session is. A submission may throw before or after the node
took the transaction (`Throws`), a wait for a receipt may end in an error, an
inspection may fail. `sent` is the runtime's `delegationSubmitted`, the flag that
decides whether the source is cleared. `result` is what `execute` returned; with
an error it stays `"none"`.

Abstractions: a transaction costs one unit of gas; the reserve is a constant;
the assets of the plan are a set `held`; an action whose asset is there may still
revert; a transaction seen in a receipt stays (the runtime goes on after one
confirmation); only the payer's transactions carry the two authorizations, which
the client gives to nobody else before it submits them. A closed page is a
session that takes no more steps.

## Runs

Every cfg switches deadlock checking off: the bounds on requests, blocks and
kills run out, and a session that is over really stops.

| run | properties | what it asks |
|---|---|---|
| `JobIntake` | `TypeOK`, `SnapshotCurrency`, `KeepsPromise`, `PendingIsSettled` | a job's whole life from `createIncident`: two requests at a time, six in all, the schedule, one expiry, one fault; and that a registered receipt is settled |
| `JobRecords` | `TruthfulReceipts`, `TruthfulCompletion`, `LiveIssueIsCurrent`, `SettledReceiptsStay` | a simulated job, or an issued one with every package subset and every assignment of two hashes to packages and verdicts: builds, expiries, receipts and reports in any order |
| `CronReach` | `ReachedReceiptsSettle` | three jobs, a listing of two, a killed run |
| `Intake` | `OneJobPerRequest`, `HandsOnlyItsScope`, `PlansItsIncident`, `ContinuesOnlyPaid` | two clients send the same request with two colliding manifests or another wallet, the coin found or not, repeat, refresh, and are cut off |
| `Pipeline` | `NothingIsForgotten`, `PlanIsOrdered`, `ExecutableStandsAlone`, `DelegateIsWhole`, `PackagesHold`, `PackagedIsOffered`, `AnswersAreAccepted` | any assets, any failing reads, any contract, time at every await, three callers |
| `Browser` | `TypeOK`, `SignsWhatWasReviewed`, `RowsAreTrue`, `PageComesBack` | a token with two standards, with switches, reloads, refreshes and choices at every await of the page |
| `Extension` | `TypeOK`, `SignedMeansTaken`, `EverybodyIsAnswered` | two tabs, two requests, three calls, one kill, all timers |
| `Runtime` | `TypeOK`, `SentWhereItWasChecked`, `ReportIsFinal` | two executions of one handle on a chain that replaces blocks, wallets that switch |
| `Settlement` | `OncePerNonce`, `NothingLeftToTake`, `EarlyPermitIsTolerated`, `KeepsAuthority` | a DAI asset, an NFT, an ERC-2612 token with a fee on transfer, two packages, permits of anybody before and after, revocations, approvals, transfers away and back |
| `Delegation` | `TypeOK`, `OutcomesAreTrue`, `ReturnsUndelegated`, `GasComesBack`, `ResultIsFinal`, `SessionEnds` | a plan of two actions, a source whose keys act meanwhile, failures at every await, gas that runs out; and that the session ends once the funding wallet has answered |
| `ClaimMixed`, `ClaimRegister` | one each | violated: see Findings |

Bounds. Two concurrent clients and the schedule give three writers of one
document, one more than a lost update needs; `MaxStarts` lets each client start
again after the other's write, `MaxAttempts = 2` one retry and its exhaustion,
`MaxFollowUps = 1` a first reconciliation and one of the worker. `MaxIssues` and
`MaxExpired` bound what time and builders do. Two actions and two hashes allow
two receipts of one package and one receipt of each. `JobRecords` starts in
states that `JobIntake` passes through (`ReadyInit`, `IssuedInit`). With
`Limit = 2` and three jobs, one job is always out of the listing.

`Intake` has one request, two clients that start again and again, two job ids (a
second job would show), three scopes, two of one wallet whose manifests share a commitment and one of another wallet,
a coin, and one
kill; its clients are symmetric. `Pipeline` has a coin, a token with an approval,
an NFT, and an adapter that yields more of the token, so that every rule of
dependency and every kind of package occurs; a simulation lives five units, a
package may be built at its last, and the clock goes one past it. The four
feature sets are an ERC-3009 token, a DAI-like one whose probe reverts, one whose
probe the node fails, and one that accepts anything. `Browser` has one asset with
a standard of one and one of three signatures, two authorizations and one
settlement: a second authorization is what a stale selection or a wrong salt
needs, and a settlement is enough for its row to be wrong. In `Extension` two
requests in two tabs compete for one session, and three calls are a popup that
loads, signs, and another that discards. In `Runtime` two executions compete for a
handle and its nonce; two confirmations and three blocks allow one replacement
that takes a receipt away and one that moves it; two polls allow one to start
over. Its executions are symmetric.

In `Settlement` two packages may share a rescue nonce or an asset, amounts up to
two allow a partial allowance and a fee (the fee token takes none of a single
unit, so that it is settled too), and packages are signed at the first permit
nonce; more packages only repeat these pairs. The source approves by hand nothing,
one or two units (`Approvals`); `MaxUint` is 3, so that none of them is unlimited.
`Delegation` has two actions,
because the first transaction carries the delegation and the second does not,
one transaction of the source that was pending when the package was built or is
sent later, nonces up to one past the clearing (`MaxNonce` 4), and a budget of 5
for the up to five transactions of a session, so that the refund is sometimes
affordable and sometimes not.

Fairness. `JobIntake` assumes of a call only that it goes on while it is not
killed (`WF` of `Resume`: the ports have timeouts), and of the schedule that it
runs again and again and picks every pending hash it keeps finding (`SF` of
`CronPick`: it goes through all pending submissions of a listed job). It assumes
the job to be listed; whether it is, is the question of `ReceiptReconciler`,
which assumes only `WF` of the schedule's own steps. Nothing is assumed of
buyers, of the worker or of the chain. `Delegation` assumes `WF` of the
session's steps past `fund` only: the page stays open and each of these waits ends,
by an answer, an error or the receipt timeout; the signatures of the source are
collected before, so no wallet is asked. The funding wallet's prompt
(`eip7702-funded-payer.ts:175`) has no timeout and may stay open for ever, which is
why `SessionEnds` starts where it was answered. Nothing is assumed of the chain, so
a payer's transaction that is never mined is included. `Browser` assumes `WF` of the
handlers that wait for `fetch` or the node's client, which answer or throw after
their timeout; a question that the wallet shows its user may stay open for ever.
`Extension` assumes `WF` of the worker's and the popup's own steps, of the content
script's delivery, and of every timer; users, and what the page hears, are not
assumed to do anything.

`PendingIsSettled` excludes jobs that became terminal: the schedule does not
list them, and a receipt still pending there stays pending.

## Findings

* `MixedRescueStaysExecuting`: a monitor request on an executing rescue turns
  it into `FAILED`.
* `ConfirmedIsRegistrable`: the page signs an authorization of its own making,
  with a nonce and a deadline it draws (`okx-wallet.ts:287`, `:474`, `:649`). The
  receipt route demands the package's (`buyer-receipt-registration.ts:91-233`), so
  it refuses a settlement that the page itself confirmed, contrary to what
  `DEPLOYMENT.md:313-321` says of the browser's handoff.

## Observed divergences

Met while modelling; the models do as the code does, and no run claims otherwise.

* Once a receipt is registered, even of a reverted transaction, expired packages
  cannot be replaced: the schema wants every submission's package in the list
  (`schemas.ts:197`; `README.md:172`).
* A refresh that stored its simulation and then failed to build lets a rescue end
  `PARTIAL` with every action of the plan verified (`service.ts:307`, `:425`;
  `DEPLOYMENT.md:309`).
* `Limit` abandoned jobs at the head of the listing hide a decided receipt from
  every later run of the schedule (`cron/reconcile-rescues/route.ts:41`;
  `README.md:103`). `ReachedReceiptsSettle` is about receipts within the listing.
* `delegationSubmitted` is set after `submit` returned. If it throws although the
  node took the transaction, the delegation is mined and no clearing transaction
  follows (`eip7702-runtime.ts:593`; `THREAT_MODEL.md:60`). This is the reason for
  the antecedent `result # "none"` of `ReturnsUndelegated` and `GasComesBack`: what
  holds of a session that returned does not hold of every session that threw. In the
  same way a funding transaction that is mined after its receipt timed out leaves
  its gas with a payer whose key is gone.
* The bridge's README promises a prepare that creates or resumes an idempotent job.
  A job whose first call was cut off before the scan was stored is not resumed: the
  repeated call finds it `RECEIVED` under another incident id, or `ANALYSING` without
  a scan, and ends with an error. (`RescueIntake.Analyse`, `Needs`.)
* The worker of the extension removes what is staged after an await, even if its
  read found nothing, so that the session another tab staged meanwhile is lost
  (`background.ts:83-90`, `:202`, `:260`). Its request is answered by its timer.
* `waitForReceipt` reads the chain's policy once; a wallet that is switched while it
  polls counts confirmations of one chain with the policy of another
  (`eip1193.ts:167-193`), and a wait that throws loses the transaction's hash
  (`eip1193.ts:221`).
* A wallet with a native balance that its simulation finds executable gets a delegate
  package that also moves the coin (`live-eip7702-signing-package-builder.ts:71-75`),
  which the bridge's own scope check refuses (`provider-bridge.ts:181`): the answer
  falls back to permits, although a delegate package was possible.
* A settlement whose own permit the token refuses is paid from an allowance the
  source gave by hand, if that is the exact amount (`SafeExitPermitSettlementV2.sol:120-133`).
  The package's permit then stays unused, and anybody may submit it before its
  deadline. For this reason `NothingLeftToTake` leaves out assets approved by hand.
* Two preflights of one incident may take the same plan version, or one deletes the
  rows the other refers to (`repository.ts:145-165`, `:70`); the loser gets an error.

## Proofs

Every theorem is about the `Spec` of its module for every value of the constants
that satisfies the assumptions of the modules. For `JobService` that is any
number of clients, actions, hashes, retries and faults; for `PermitSettlement`
any accounts, assets, amounts and packages; for `DelegatedRescue` any plan,
budget, reserve and bounds on the source; for `BuyerRuntime` any executions,
thresholds, polls and replacements of blocks that are not final; for
`SourceSigner` any tabs, requests, popups and kills; for `RescueIntake` any
clients, requests, manifests, commitments and kills, through both doors; for
`BrowserRescue` any assets, standards, accounts and switches; for `RescuePipeline`
any finite manifest, any outcome of every read, any features of the contracts and
any passage of time at each await.

TLC was asked first: `IssueInv` of the job and `Inv` of the pipeline, the two
strengthenings that were hardest to find, hold in every state of their runs.

1. `JobServiceProofs`. `Invariance` shows `[]IndInv`, with
   `IndInv == TypeOK /\ CallInv /\ SnapshotCurrency`. No conjunct is inductive
   alone: `TypeOK` needs `CallInv` to know that a call about to write holds a
   document, and `SnapshotCurrency` needs that revisions of the held documents
   are numbers and that an accepted write has a higher one. `TypeCorrect` and
   `SnapshotsAreCurrent` follow.
   A lemma per kind of write (`Prepares`, `Resets`, `Files`, `Verifies`, `Issues`)
   says what an accepted write does to the stored job, using that an accepted
   document was computed from the stored one (`SnapshotCurrency`); `StoredChange`
   puts them together, and the rest of the module is about these five changes
   instead of two dozen actions.
   * From `TruthInv` (until a job is being executed, nothing is reported verified,
     so that the monitor's answer has nothing to take back) follow
     `CompletionIsTruthful` and, step by step with the mapping `Told`, the
     refinement `ServiceKeepsPromise`.
   * `ReceiptInv` adds that a hash has one transaction, that a call's `arg` is about
     a transaction the chain shows for that package, and that a job's `seen` hashes
     are successes. `ReceiptsAreTruthful` and `SettledReceiptsAreFinal` follow;
     `RegistrationsAreKept` needs the five changes only.
   * `IssueInv` says of a call on its way to build that what it read was empty or
     had an expired package, and of a stored list that it is one issue. So the list
     that an accepted build replaces has no live package, in whatever order builders,
     receipts and expiries come: `LivePackagesAreStored`.
2. `RescuePipelineProofs`. First the sort, as a theorem about the operator
   (`SortIsOrdered`): for every finite set of planned actions, `Sorted` has each once,
   after its dependencies, and of two neighbours the second follows by priority or
   because it waited for the first. The library's induction theorems cannot be used,
   so facts about all rounds are proved from a least counterexample
   (`LeastNatural`) and a minimal set (`Minimal`), both derived from facts about finite
   sets: the recursive function has a value at each round (`RoundsExist`), a round
   never lacks a ready action because dependencies have no cycle
   (`SomethingIsReady`), and it has a first one because `Precedes` is a total order
   (`PrecedesIsTotal`, `PrecedesIsTransitive`, which is where `KeyAssumption` is
   needed). Then the pipeline, over all its stages: `PlanIsOfScan` ties the plan to
   what was found, `SimulationsAreSound` says which results cost gas and that only
   the last moves the coin, `DelegateIsBuilt` and `PermitsAreBuilt` each package to the
   clock its build started from and to the simulation it rests on. From these and
   `ExecutableStandsAlone`, which needs itself, follow all seven properties of the run.
3. `BrowserRescueProofs`. `AuthsInv` keeps, with each authorization, the route as it
   was on display when its signing began (`AsSeen`); `JobInv` says the same of what
   the handler captured before each of its awaits, so that a selection, a refresh or
   a switch in between does not matter; `TxsInv` says that a settlement
   which moved an asset used its authorization, and `RowsInv` that a row's verdict is
   that of its settlement.
   `TypeCorrect`, `SignsReviewed`, `RowsTellTheTruth`.
4. `PermitSettlementProofs`. `OncePerNonce` is inductive with the types: that every
   nonce of the log is used is what keeps the same package, and any other with that
   nonce, out. `NoncesAreUsedOnce` and, step by step, `SettlementKeepsAuthority` follow:
   a settlement maps to `CarryOut` of its package, a transfer to `Move`, everything
   else to `Prepare`. `SettlementTakesNoMore` needs more, because the permit of a settled
   package may still be good: an ERC-2612 package may be paid from what another
   permit allowed. `Covered` says of an asset nobody approved by hand that this occurs
   only while the contract may take nothing of it and another package is owed
   (`Owing`); `NoncesRise` (no package is signed ahead of its token) keeps later
   packages from reviving one. `SettleChanges` computes, per standard, what the permit,
   the transfer and the revocation leave; `SettleCovers` and `PermitCovers` carry
   `Covered` through the settlements and permits. `EarlyPermitsAreHarmless` is a step-by-step
   consequence of the types.
5. `DelegatedRescueProofs`. `Inv` has six parts beside the types. `TxInv`: the
   delegation is carried by the first action submitted and by nothing after it,
   and nothing of the kind exists before the first submission. `CodeInv`: the
   incident's code comes only with the delegation and uses up its nonce.
   `ReceiptInv`: an action with a successful receipt was executed, or `Missed`
   holds: the source does not have the incident's code and nothing that waits
   can give it. `OutcomeInv`: a reported action was executed, or the session is
   at the inspection that will fail because of `Missed`. That is why the
   inspection after every action is needed for `ReportsAreTrue`, and why a
   receipt is not enough. `ClearInv`: past an inspection the delegation's nonce
   is used up, so that the clearing judged by code and nonce stays true;
   `ReturnsAreUndelegated` and `ResultsAreFinal` follow. `RefundInv`: the payer's
   balance only falls after the funding, which bounds it by what the refund read;
   `GasIsReturned` follows.

6. `BuyerRuntimeProofs`. `Inv` has, beside the types, `ForksInv` (no block is of a
   fork still to come), `HandleInv` and `AuthInv` (what runs had a handle, and what is
   collected for it are signatures of the source), and `Straight`, what an execution that did
   not stray has read: a block number, a fork and a verdict that are still those of
   the chain, or of a block that is gone. That it stays true rests on `Continues`:
   no chain gets shorter, no final block is replaced, and a replacement has a newer
   fork. So a poll whose two receipts agree and whose block was final speaks of a
   block that is final. `TypeCorrect`, `SentWhereChecked`, `ReportsAreFinal`.
7. `SourceSignerProofs`. `SignedMeansTaken` relates the popup to a page that it
   never talks to. `CallsInv` says that a signature on its way is for the session
   the worker held when it was asked, and is accepted only when its page has the
   signer; `DeliveryInv`, `TakenInv` and `PopupInv` say the same of what the content
   script repeats, what the page posted, and what the popup waits for. `TypeCorrect`,
   `SignedIsTaken`.
8. `RescueIntakeProofs`. A call's promise (`CallOK`) is about the table that other
   calls write, so the proof needs that every write keeps a job's request and scope
   (`JobsStay`), that a call which analyses has created its job (whence the
   manifest it scans, beside the coin, is the job's), and that tokens are of settled
   payments.
   `RequestsAreIdempotent`, `PlansStayInScope`, `ScopeIsKept`, `ContinuationsArePaid`.

So every safety property and every refinement that a run checks is a theorem.
Model-checked only are the liveness properties `PendingIsSettled`,
`ReachedReceiptsSettle`, `SessionEnds`, `PageComesBack` and `EverybodyIsAnswered`:
fairness is out of the prover's reach.

## Not modelled, and the plan

`PROJECT.json` lists every component with its status and every hazard with the
property that watches it. Not modelled:

* the rate limiter: a counter per window behind one SQL statement, whose row does
  not see the clocks that could disagree;
* `POST /api/incidents` (validation and one insert) and the rows that preflight
  stores for display;
* typed data and call data: what a builder encodes is taken to be what it says,
  apart from the nonce, the amount and the salt that the properties are about;
* a second use of an EIP-7702 handle, a replacement of its transactions after
  inclusion, and two packages over one bitmap of the delegate;
* adapters' encoders, discovery of wallets and their capabilities, redaction,
  headers, pages, AI explanations and the operators' scripts: no state of their own,
  or input and output only.

Next would come the two uses of one EIP-7702 handle, an abstract specification of
what a source signs for the delegate (as `RescueAuthority` is for permits) with the
proof that `DelegatedSource` keeps it, and the safety part of the schedule's promise.
