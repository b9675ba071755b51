---------------------------- MODULE RescuePipeline ---------------------------
(***************************************************************************)
(* From a wallet to what its owner is asked to sign: scan, plan, simulate, *)
(* then the packages.  The reads of the scan are pinned to one block, the  *)
(* plan is made at once, the simulations are awaited one by one, and the   *)
(* packages read the chain again.  Time passes at every await.  The scan   *)
(* and the plan are also offered as packages: the two callers deployed     *)
(* (agent-runtime.ts and the preflight route) call every scan PARTIAL, ask *)
(* for no approvals and have no adapters.  Unit of time: ten seconds.      *)
(***************************************************************************)
EXTENDS RescuePlan, PermitCapability

CONSTANTS FeatureSets,               \* what the contracts of the assets may turn out to be
          Ttl, Margin, Least,        \* life of a simulation, and what a package keeps of it
          CapPermit, CapDelegate,    \* and its longest life
          MaxCoin,                   \* bound on the native balance, in units of one action's gas
          MaxNow                     \* bound on time

ASSUME FeaturesAssumption == FeatureSets \subseteq [Actions -> Features]
ASSUME TimeAssumption ==
  {Ttl, Margin, Least, CapPermit, CapDelegate, MaxNow, MaxCoin} \subseteq Nat

VARIABLES held, coin, drained,   \* at the scanned block; what has left the source since
          settlement,            \* the permit settlement's code and constants are the reviewed ones
          caller,                \* "agent", "preflight", or "package": no caller's additions
          stage, found, plan, omitted, sims, now,
          permits,               \* the permit packages built so far, or the routes offered
          delegate,              \* the EIP-7702 package
          start                  \* what the clock said when a build began

facts == <<held, coin, settlement, caller>>
vars  == <<facts, drained, stage, found, plan, omitted, sims, now, permits, delegate, start>>

Asked    == IF caller = "package" THEN Evidence
            ELSE {e \in Evidence : Kind[e] \in Transfers \union {"NATIVE"}}
Adapters == IF caller = "package" THEN Candidates ELSE {}

Stages == {"scan", "plan", "simulate", "saved", "assemble", "permits", "done", "failed"}
NoPackage == [ids |-> {}, expiry |-> 0]

TypeOK ==
  /\ held \subseteq Evidence /\ drained \subseteq Evidence /\ coin \in 0 .. MaxCoin
  /\ settlement \in BOOLEAN /\ caller \in {"agent", "preflight", "package"}
  /\ stage \in Stages /\ now \in 0 .. MaxNow /\ start \in 0 .. now
  /\ found \in [Evidence -> {"UNREAD", "UNKNOWN", "UNSUPPORTED", "DETECTED", "SUPPORTED"}]
  /\ \A i \in 1 .. Len(plan) : plan[i] \in Actions \ {e \in Evidence : found[e] # "DETECTED"}
  /\ omitted \in BOOLEAN
  /\ Len(sims) <= Len(plan)
  /\ \A i \in 1 .. Len(sims) :
       /\ sims[i].status \in {"SUCCEEDED", "UNSUPPORTED", "FAILED"}
       /\ sims[i].at <= now /\ sims[i].gas \in 0 .. 1 /\ sims[i].value \in 0 .. MaxCoin
       /\ sims[i].status # "SUCCEEDED" => sims[i].gas = 0 /\ sims[i].value = 0
  /\ \A p \in permits : /\ p.id \in {plan[i] : i \in 1 .. Len(plan)}
                        /\ p.std \in Standards /\ p.of \in Features
                        /\ p.expiry \in 0 .. MaxNow + CapPermit
  /\ delegate.ids \subseteq {plan[i] : i \in 1 .. Len(plan)}
  /\ delegate.expiry \in 0 .. MaxNow + CapDelegate

Init == /\ held \in SUBSET {e \in Evidence : Kind[e] # "PERMIT2"}
        /\ coin \in 0 .. MaxCoin /\ (coin = 0 <=> \A e \in held : Kind[e] # "NATIVE")
        /\ settlement \in BOOLEAN /\ caller \in {"agent", "preflight", "package"}
        /\ held \subseteq Asked
        /\ drained = {} /\ stage = "scan" /\ found = [e \in Evidence |-> "UNREAD"]
        /\ plan = <<>> /\ omitted = FALSE /\ sims = <<>>
        /\ now = 0 /\ start = 0 /\ permits = {} /\ delegate = NoPackage

-----------------------------------------------------------------------------
(* Scan, plan and simulation.                                              *)

\* A token whose metadata cannot be read is among those whose read failed.
Scan == /\ stage = "scan" /\ stage' = "plan"
        /\ \E failed \in SUBSET Asked :
             found' = [e \in Evidence |-> IF e \in Asked THEN Finding(e, held, failed) ELSE "UNREAD"]
        /\ UNCHANGED <<facts, drained, plan, omitted, sims, now, permits, delegate, start>>

\* The deployed callers rewrite the status of the scan, so that theirs is a
\* PARTIAL plan in any case.
Plan == /\ stage = "plan" /\ stage' = "simulate"
        /\ plan' = Sorted(Planned(found, Adapters))
        /\ omitted' = (caller # "package" \/ ~Complete(found))
        /\ UNCHANGED <<facts, drained, found, sims, now, permits, delegate, start>>

Succeeded(i) == i <= Len(sims) /\ sims[i].status = "SUCCEEDED"
Executable   == {plan[i] : i \in {i \in 1 .. Len(plan) : Succeeded(i)}}

\* Mutant of Spent: what went before is not counted.
SpentNothing == 0
\* cumulativeGasEstimate, in units of one action.
Spent == Cardinality({i \in 1 .. Len(sims) : sims[i].gas > 0})

\* The preflight route does not estimate the gas of calls.
Estimated == IF caller = "preflight" THEN 0 ELSE 1

Result(status, gas, value) == [status |-> status, gas |-> gas, value |-> value, at |-> now]

MissesDependency(a) == ~ DependsOn(a, {plan[i] : i \in 1 .. Len(plan)}) \subseteq Executable

\* One action of simulateRescuePlan: the coin is left what the gas needs, its own
\* and that of all before it.
Simulate ==
  /\ stage = "simulate" /\ Len(sims) < Len(plan)
  /\ LET a    == plan[Len(sims) + 1]
         left == coin - (1 + Spent)
     IN sims' = Append(sims, CASE MissesDependency(a) -> Result("UNSUPPORTED", 0, 0)
                               [] ~MissesDependency(a) /\ Kind[a] = "NATIVE" ->
                                    IF left > 0 THEN Result("SUCCEEDED", 1, left)
                                    ELSE Result("FAILED", 0, 0)
                               [] OTHER -> Result("SUCCEEDED", Estimated, 0))
  /\ UNCHANGED <<facts, drained, stage, found, plan, omitted, now, permits, delegate, start>>

\* The call reverts, the token answers false, no resolver knows the adapter, or
\* the node fails.
SimulationFails ==
  /\ stage = "simulate" /\ Len(sims) < Len(plan) /\ ~MissesDependency(plan[Len(sims) + 1])
  /\ sims' = Append(sims, Result("FAILED", 0, 0))
  /\ UNCHANGED <<facts, drained, stage, found, plan, omitted, now, permits, delegate, start>>

\* The plan and its simulations are saved; the deployed callers build packages
\* of them later.
Simulated ==
  /\ stage = "simulate" /\ Len(sims) = Len(plan)
  /\ stage' = IF caller = "package" THEN "done" ELSE "saved"
  /\ UNCHANGED <<facts, drained, found, plan, omitted, sims, now, permits, delegate, start>>

\* Time is of interest where packages are built.
Tick == /\ caller # "package" /\ stage \in {"simulate", "saved", "assemble", "permits"} /\ now < MaxNow
        /\ now' = now + 1
        /\ UNCHANGED <<facts, drained, stage, found, plan, omitted, sims, permits, delegate, start>>

\* Something leaves the source before the packages are built.
Drain == /\ stage = "saved" /\ drained = {}
         /\ \E e \in held : drained' = {e}
         /\ UNCHANGED <<facts, stage, found, plan, omitted, sims, now, permits, delegate, start>>

-----------------------------------------------------------------------------
(* The EIP-7702 package.                                                   *)

MinOf(S) == CHOOSE x \in S : \A y \in S : x <= y

\* eligibleActions: simulated well, not expired, and of a kind the delegate knows.
Eligible(t) == {i \in 1 .. Len(plan) : /\ Kind[plan[i]] # "ADAPTER" /\ Succeeded(i)
                                       /\ sims[i].at + Ttl > t}
Earliest(S) == MinOf({sims[i].at + Ttl : i \in S})

\* Mutant of DelegateExpiry: ends with the first of the simulations, not before.
DelegateExpiryAtEnd(S, t) == MinOf({t + CapDelegate, Earliest(S)})
DelegateExpiry(S, t) == MinOf({t + CapDelegate, Earliest(S) - Margin})

\* What follows a delegate package, built or not: the preflight route answers
\* with the other routes; for the agent, the request fails.
AfterDelegate(built) == stage' = IF built \/ caller = "preflight" THEN "done" ELSE "failed"

\* Factory and source are read, the clock after them; then the prediction is.
Predict == /\ stage = "saved" /\ Eligible(now) # {}
           /\ DelegateExpiry(Eligible(now), now) > now + Least
           /\ stage' = "assemble" /\ start' = now
           /\ UNCHANGED <<facts, drained, found, plan, omitted, sims, now, permits, delegate>>

\* The routes of the preflight route for what simulated well.
Gasless(features) ==
  UNION {{[id |-> a, std |-> s, of |-> features[a], expiry |-> 0] :
            s \in Offered(Kind[a], features[a], settlement)} : a \in Executable}

AnswersWith == IF caller = "preflight" THEN \E features \in FeatureSets : permits' = Gasless(features)
               ELSE UNCHANGED permits

\* assembleEip7702LocalSigningPackageFromPlan, at the clock read before.
Assemble ==
  /\ stage = "assemble"
  /\ delegate' = [ids |-> {plan[i] : i \in Eligible(start)},
                  expiry |-> DelegateExpiry(Eligible(start), start)]
  /\ AnswersWith
  /\ AfterDelegate(TRUE)
  /\ UNCHANGED <<facts, drained, found, plan, omitted, sims, now, start>>

\* Another factory, a delegated source, nothing eligible, too little time left, or the node.
NoDelegate ==
  /\ stage \in {"saved", "assemble"}
  /\ AnswersWith
  /\ AfterDelegate(FALSE)
  /\ UNCHANGED <<facts, drained, found, plan, omitted, sims, now, delegate, start>>

-----------------------------------------------------------------------------
(* The permit packages of a job (buildAll), at the clock read first.       *)

PermitExpiry(i) == MinOf({start + CapPermit, sims[i].at + Ttl - Margin})

Packaged == {i \in 1 .. Len(plan) : /\ Succeeded(i)
                                    /\ \/ Kind[plan[i]] = "ERC20"
                                       \/ Kind[plan[i]] = "ERC721" /\ settlement}

\* Mutant of Backed: the balance of the plan is taken for the present one.
BackedAsPlanned(a) == TRUE
Backed(a) == a \notin drained

BeginPermits ==
  /\ stage = "saved" /\ caller = "agent" /\ stage' = "permits" /\ start' = now
  /\ UNCHANGED <<facts, drained, found, plan, omitted, sims, now, permits, delegate>>

\* A simulation that ends too soon ends the build of all.
BuildPermits ==
  /\ stage = "permits" /\ stage' = "done"
  /\ \A i \in Packaged : PermitExpiry(i) > start + Least
  /\ \E features \in FeatureSets :
       permits' = UNION {{[id |-> plan[i], std |-> s, of |-> features[plan[i]],
                           expiry |-> PermitExpiry(i)] :
                            s \in Taken(Kind[plan[i]], features[plan[i]], settlement)} :
                         i \in {i \in Packaged : Backed(plan[i])}}
  /\ permits' # {}
  /\ UNCHANGED <<facts, drained, found, plan, omitted, sims, now, delegate, start>>

NoPermits == /\ stage = "permits" /\ stage' = "failed"
             /\ UNCHANGED <<facts, drained, found, plan, omitted, sims, now, permits, delegate, start>>

-----------------------------------------------------------------------------
Next == \/ Scan \/ Plan \/ Simulate \/ SimulationFails \/ Simulated \/ Tick \/ Drain
        \/ Predict \/ Assemble \/ NoDelegate \/ BeginPermits \/ BuildPermits \/ NoPermits

Spec == Init /\ [][Next]_vars

-----------------------------------------------------------------------------
(* Correctness.                                                            *)

InPlan  == {plan[i] : i \in 1 .. Len(plan)}
Planning == stage \notin {"scan", "plan"}

\* A plan that claims to be READY leaves nothing of what it was asked about
\* behind, and every plan moves only what the scan saw: a failed read is not zero.
NothingIsForgotten ==
  Planning => /\ ~omitted => held \subseteq InPlan
              /\ InPlan \intersect Evidence \subseteq held

\* The plan has each action once and after its dependencies, the coin last, and
\* an action comes before one that precedes it only where the other waited for it.
PlanIsOrdered ==
  Planning =>
    /\ Cardinality(InPlan) = Len(plan)
    /\ \A i, j \in 1 .. Len(plan) : plan[j] \in DependsOn(plan[i], InPlan) => j < i
    /\ \A i \in 1 .. Len(plan) - 1 : \/ Precedes(plan[i], plan[i + 1])
                                     \/ plan[i] \in DependsOn(plan[i + 1], InPlan)

\* What simulated well can be carried out by itself: its dependencies did, too,
\* and the coin that moves leaves the gas of all of it.
ExecutableStandsAlone ==
  /\ \A a \in Executable : DependsOn(a, InPlan) \subseteq Executable
  /\ \A i \in 1 .. Len(sims) :
       sims[i].value > 0 /\ Estimated = 1
         => sims[i].value + Cardinality(Executable) <= coin

\* Simulations that were made within the time a package must keep are all in it,
\* or there is no package: the delegate is never asked for a part of the rescue
\* because the rest has just expired.
DelegateIsWhole ==
  LET all == {i \in 1 .. Len(plan) : Succeeded(i) /\ Kind[plan[i]] # "ADAPTER"}
  IN delegate.ids # {} /\ (\A i, j \in all : sims[j].at <= sims[i].at + Margin + Least)
       => delegate.ids = {plan[i] : i \in all}

\* No package outlives a simulation it rests on, each leaves its holder the least
\* time from when its build began, and a permit package is for a balance that was
\* there when it was built.
PackagesHold ==
  LET during(ids, expiry) ==
        /\ expiry > start + Least
        /\ \A i \in 1 .. Len(plan) : plan[i] \in ids => /\ Succeeded(i)
                                                        /\ sims[i].at + Ttl >= expiry + Margin
  IN /\ delegate.ids # {} => during(delegate.ids, delegate.expiry)
     /\ caller = "agent" => \A p \in permits : /\ during({p.id}, p.expiry)
                                               /\ p.id \in held \ drained

\* What a job is given a package for, the page of the incident would offer, too:
\* two pieces of code that look at the same contract agree where they must.
PackagedIsOffered ==
  caller = "agent" => \A p \in permits : p.std \in Offered(Kind[p.id], p.of, settlement)

\* Mutant of Recoverable: the delegate's actions are left out.
RecoverableByPermit == {r.id : r \in permits}
\* The actions the preflight route does not list as blocked.
Recoverable == {r.id : r \in permits} \union delegate.ids

\* mainnetPreflightResponseSchema, which the route and the page both parse.
Accepted(blocked) ==
  LET routed == {r.id : r \in permits} \union delegate.ids
  IN /\ routed \subseteq Executable /\ Len(sims) = Len(plan)
     /\ \A r \in permits : /\ r.std # "ERC3009" => settlement
                           /\ r.std = "ERC4494" <=> Kind[r.id] = "ERC721"
     /\ \A a \in delegate.ids : Kind[a] # "ADAPTER"
     /\ blocked \subseteq InPlan \ routed /\ InPlan \subseteq routed \union blocked

\* Whatever fails on the way, an answer of preflight passes its own schema: each
\* action is either offered by routes that rest on its simulation or listed as blocked.
AnswersAreAccepted ==
  caller = "preflight" /\ stage = "done" => Accepted(InPlan \ Recoverable)
=============================================================================
