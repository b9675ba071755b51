---------------------------- MODULE RescueIntake ----------------------------
(***************************************************************************)
(* How requests become jobs: the provider bridge of packages/okx-transport *)
(* (prepare, paid prepare, refresh) over AgentIncidentService, with the    *)
(* paid routes of apps/web around it.  A call looks its request up, creates *)
(* or takes over the job, and carries it on from the status it finds until *)
(* the buyer can be handed packages.  Many calls may carry the same request *)
(* at once, and each may be cut off at any await.                           *)
(*                                                                         *)
(* A write of the pipeline changes the status or files the scan, and the   *)
(* job never comes back to an earlier status, so the document a call read  *)
(* stands for its revision.                                                *)
(***************************************************************************)
EXTENDS Naturals, FiniteSets

CONSTANTS Clients, Requests, Assets,
          Coin,        \* the chain's native asset, which no request lists
          Kinds,       \* the doors that are open: "a2a", "paid"
          Scopes,      \* wallet and manifest of a request: [wallet, manifest]
          Digest,      \* the commitment to a manifest, as far as it is kept
          JobIds, NoJob, Idle,
          MaxKills     \* bound: calls cut off

ASSUME IntakeAssumption ==
  /\ Kinds \subseteq {"a2a", "paid"}
  /\ Coin \in Assets /\ \A s \in Scopes : s.manifest \in SUBSET (Assets \ {Coin})
  /\ \A s \in Scopes : s.manifest \in DOMAIN Digest
  /\ NoJob \notin JobIds /\ MaxKills \in Nat

Keys     == Kinds \X Requests       \* requestIdFor
Statuses == {"RECEIVED", "ANALYSING", "PLAN_READY", "WAITING_FOR_USER",
             "EXECUTING", "FAILED"}

VARIABLES
  jobs,     \* the job table
  calls,    \* one invocation per client
  tokens,   \* continuations that buyers hold: request and job
  settled,  \* payments that were taken: request and job
  kills

vars == <<jobs, calls, tokens, settled, kills>>

Job == [key : Keys, scope : Scopes, status : Statuses, scanned : BOOLEAN,
        plan : SUBSET Assets, exec : SUBSET Assets, packs : SUBSET Assets,
        fresh : BOOLEAN]
Call == [pc : {"lookup", "create", "analyse", "analysing", "plan", "planning",
               "simulate", "simulating", "continue", "delegate", "permits",
               "settle", "done"},
         kind : Kinds \cup {"refresh"}, req : Requests, scope : Scopes,
         own : BOOLEAN, id : JobIds \cup {NoJob}, doc : Job \cup {NoJob},
         packs : SUBSET Assets]

ASSUME NoJobAssumption == NoJob \notin Job

TypeOK == /\ jobs \in [JobIds -> Job \cup {NoJob}]
          /\ calls \in [Clients -> Call \cup {Idle}]
          /\ tokens \subseteq Requests \X JobIds
          /\ settled \subseteq Requests \X JobIds
          /\ kills \in 0 .. MaxKills

Init == /\ jobs = [i \in JobIds |-> NoJob]
        /\ calls = [c \in Clients |-> Idle]
        /\ tokens = {} /\ settled = {} /\ kills = 0

-----------------------------------------------------------------------------
(* A call between two of its awaits.                                        *)

At(c, pc)     == calls[c] # Idle /\ calls[c].pc = pc
Goes(c, call) == calls' = [calls EXCEPT ![c] = call]
Ends(c)       == Goes(c, Idle)
Key(c)        == <<calls[c].kind, calls[c].req>>
JobOf(c)      == jobs[calls[c].id]
MaySave(c)    == JobOf(c) = calls[c].doc

\* The bridge's status tests, one after the other: what the returned job
\* still needs.  No test fits a job that is being analysed by another call,
\* is past signing, or has failed.
Needs(kind, doc) ==
  CASE doc.status = "RECEIVED" -> "analyse"
    [] doc.status = "ANALYSING" /\ doc.scanned -> "plan"
    [] doc.status = "PLAN_READY" -> "simulate"
    [] doc.status = "WAITING_FOR_USER" /\ kind = "a2a" -> "permits"
    [] doc.status = "WAITING_FOR_USER" /\ kind = "paid" -> "delegate"
    [] OTHER -> "nothing"

Continue(c, call, doc) ==
  IF Needs(call.kind, doc) = "nothing" THEN Ends(c)
  ELSE Goes(c, [call EXCEPT !.doc = doc, !.pc = Needs(call.kind, doc)])

\* A write of the document that c read, and the rest of the call after it.
Stores(c, doc) ==
  IF MaySave(c)
  THEN /\ jobs' = [jobs EXCEPT ![calls[c].id] = doc]
       /\ Continue(c, calls[c], doc)
  ELSE Ends(c) /\ UNCHANGED jobs

\* failJob; the error reaches the caller.
FailsJob(c) == /\ Ends(c)
               /\ IF MaySave(c)
                  THEN jobs' = [jobs EXCEPT ![calls[c].id].status = "FAILED"]
                  ELSE UNCHANGED jobs

-----------------------------------------------------------------------------
(* createIncident under the bridge's request id.                            *)

Start(c, kind, r, s) ==
  /\ calls[c] \in {Idle} \/ At(c, "done")
  /\ Goes(c, [pc |-> IF kind = "refresh" THEN "continue" ELSE "lookup",
              kind |-> kind, req |-> r, scope |-> s, own |-> FALSE,
              id |-> NoJob, doc |-> NoJob, packs |-> {}])
  /\ UNCHANGED <<jobs, tokens, settled, kills>>

Found(key) == {i \in JobIds : jobs[i] # NoJob /\ jobs[i].key = key}

\* validateIdempotentIncidentScope: the manifest counts by its commitment.
SameScope(s, t) == /\ s.wallet = t.wallet
                   /\ Digest[s.manifest] = Digest[t.manifest]

TakeOver(c) == \E i \in Found(Key(c)) :
  /\ UNCHANGED jobs
  /\ IF SameScope(jobs[i].scope, calls[c].scope)
     THEN Continue(c, [calls[c] EXCEPT !.id = i], jobs[i])
     ELSE Ends(c)

Lookup(c) ==
  /\ At(c, "lookup")
  /\ IF Found(Key(c)) # {} THEN TakeOver(c)
     ELSE Goes(c, [calls[c] EXCEPT !.pc = "create"]) /\ UNCHANGED jobs
  /\ UNCHANGED <<tokens, settled, kills>>

NewJob(c) == [key |-> Key(c), scope |-> calls[c].scope, status |-> "RECEIVED",
              scanned |-> FALSE, plan |-> {}, exec |-> {}, packs |-> {},
              fresh |-> FALSE]

Unused  == {i \in JobIds : jobs[i] = NoJob}
FreshId == CHOOSE i \in Unused : TRUE

\* Mutant of Create: the column is not unique.
CreateAnyway(c) ==
  /\ At(c, "create") /\ Unused # {}
  /\ jobs' = [jobs EXCEPT ![FreshId] = NewJob(c)]
  /\ Continue(c, [calls[c] EXCEPT !.id = FreshId, !.own = TRUE], NewJob(c))
  /\ UNCHANGED <<tokens, settled, kills>>

\* The unique index refuses a second job of the request; its loser reads the
\* winner's job instead.
Create(c) ==
  /\ At(c, "create") /\ (Unused # {} \/ Found(Key(c)) # {})
  /\ IF Found(Key(c)) # {} THEN TakeOver(c)
     ELSE /\ jobs' = [jobs EXCEPT ![FreshId] = NewJob(c)]
          /\ Continue(c, [calls[c] EXCEPT !.id = FreshId, !.own = TRUE], NewJob(c))
  /\ UNCHANGED <<tokens, settled, kills>>

-----------------------------------------------------------------------------
(* analyseIncident, generatePlan and simulatePlan.  Each reads the job      *)
(* again, waits for its port, and writes.                                   *)

\* Mutant of Analyse: any call may start the analysis.
AnalyseTaken(c) ==
  /\ At(c, "analyse")
  /\ IF JobOf(c).status # "RECEIVED"
     THEN Ends(c) /\ UNCHANGED jobs
     ELSE LET doc == [JobOf(c) EXCEPT !.status = "ANALYSING"]
          IN  /\ jobs' = [jobs EXCEPT ![calls[c].id] = doc]
              /\ Goes(c, [calls[c] EXCEPT !.pc = "analysing", !.doc = doc])
  /\ UNCHANGED <<tokens, settled, kills>>

\* The bridge passes the incident it made for this call.  Its id is the job's
\* only if this call created the job.
Analyse(c) ==
  /\ At(c, "analyse")
  /\ IF JobOf(c).status # "RECEIVED" \/ ~calls[c].own
     THEN Ends(c) /\ UNCHANGED jobs
     ELSE LET doc == [JobOf(c) EXCEPT !.status = "ANALYSING"]
          IN  /\ jobs' = [jobs EXCEPT ![calls[c].id] = doc]
              /\ Goes(c, [calls[c] EXCEPT !.pc = "analysing", !.doc = doc])
  /\ UNCHANGED <<tokens, settled, kills>>

\* The analyzer scans the manifest of the request that called it, and always the
\* native balance: where there is one, the plan moves it too.
Analysed(c) ==
  /\ At(c, "analysing")
  /\ \/ \E found \in SUBSET (calls[c].scope.manifest \cup {Coin}) :
          Stores(c, [calls[c].doc EXCEPT !.scanned = TRUE, !.plan = found])
     \/ FailsJob(c)
  /\ UNCHANGED <<tokens, settled, kills>>

Reads(c, from, ready, to) ==
  /\ At(c, from)
  /\ UNCHANGED <<jobs, tokens, settled, kills>>
  /\ IF ready THEN Goes(c, [calls[c] EXCEPT !.pc = to, !.doc = JobOf(c)])
     ELSE Ends(c)

Plan(c) == Reads(c, "plan", JobOf(c).status = "ANALYSING" /\ JobOf(c).scanned,
                 "planning")
Planned(c) ==
  /\ At(c, "planning")
  /\ \/ Stores(c, [calls[c].doc EXCEPT !.status = "PLAN_READY"])
     \/ FailsJob(c)
  /\ UNCHANGED <<tokens, settled, kills>>

Simulate(c) == Reads(c, "simulate", JobOf(c).status = "PLAN_READY", "simulating")

\* A simulation with nothing executable fails the job.
Simulated(c) ==
  /\ At(c, "simulating")
  /\ \/ \E good \in SUBSET calls[c].doc.plan \ {{}} :
          Stores(c, [calls[c].doc EXCEPT !.status = "WAITING_FOR_USER", !.exec = good])
     \/ FailsJob(c)
  /\ UNCHANGED <<tokens, settled, kills>>

-----------------------------------------------------------------------------
(* The packages a call hands over.                                          *)

\* What a package may be about: the assets of the request, or of the stored
\* incident when a paid rescue is continued.
Asked(c) == IF calls[c].kind = "refresh" THEN JobOf(c).scope.manifest
            ELSE calls[c].scope.manifest
\* Mutant of InScope: any executable asset.
InSimulation(c, packs) == packs \subseteq calls[c].doc.exec
\* assertSigningScope and its variants, on the job as it was before the
\* packages were built.
InScope(c, packs) == packs \subseteq calls[c].doc.exec \cap Asked(c)

Hands(c, packs) ==
  Goes(c, [calls[c] EXCEPT !.pc = IF calls[c].kind = "a2a" THEN "done" ELSE "settle",
                           !.packs = packs, !.doc = NoJob, !.own = FALSE])

\* The EIP-7702 builder, where there is one, packages what is executable and freshly
\* simulated; whatever is wrong with its answer, the permits are tried next.  The coin
\* is never in scope, so a package that moves it is such an answer.
Delegate(c) ==
  /\ At(c, "delegate")
  /\ \/ \E packs \in SUBSET calls[c].doc.plan \ {{}} :
          InScope(c, packs) /\ Hands(c, packs)
     \/ Goes(c, [calls[c] EXCEPT !.pc = "permits"])
  /\ UNCHANGED <<jobs, tokens, settled, kills>>

\* getSigningPackages: the live stored packages, or new ones, simulated again.  There
\* is no permit for the coin.
Permits(c) ==
  /\ At(c, "permits")
  /\ LET doc == JobOf(c) IN
     \/ /\ doc.packs # {} /\ doc.fresh
        /\ IF InScope(c, doc.packs) THEN Hands(c, doc.packs) ELSE Ends(c)
        /\ UNCHANGED jobs
     \/ /\ doc.packs = {} \/ ~doc.fresh
        /\ doc.status = "WAITING_FOR_USER"
        /\ \E good \in SUBSET doc.plan \ {{}} : \E packs \in SUBSET (good \ {Coin}) \ {{}} :
             /\ jobs' = [jobs EXCEPT ![calls[c].id] =
                          [@ EXCEPT !.exec = good, !.packs = packs, !.fresh = TRUE]]
             /\ IF InScope(c, packs) THEN Hands(c, packs) ELSE Ends(c)
     \/ /\ doc.packs = {} \/ ~doc.fresh
        /\ Ends(c)
        /\ \/ UNCHANGED jobs
           \/ /\ doc.status = "WAITING_FOR_USER"
              /\ \E good \in SUBSET doc.plan \ {{}} :
                   jobs' = [jobs EXCEPT ![calls[c].id].exec = good]
  /\ UNCHANGED <<tokens, settled, kills>>

\* The x402 server settles the payment of an answer that is no error, and
\* replaces the answer if that fails.  A continuation takes no payment.  The
\* answer carries the continuation token.
Settle(c) ==
  /\ At(c, "settle")
  /\ LET paid == <<calls[c].req, calls[c].id>> IN
     \/ /\ calls[c].kind = "paid"
        /\ Ends(c) /\ UNCHANGED <<tokens, settled>>
     \/ /\ Goes(c, [calls[c] EXCEPT !.pc = "done"])
        /\ tokens' = tokens \cup {paid}
        /\ settled' = settled \cup (IF calls[c].kind = "paid" THEN {paid} ELSE {})
  /\ UNCHANGED <<jobs, kills>>

\* Mutant of Resume: the token is not verified.
ResumeUnverified(c, i) ==
  /\ At(c, "continue")
  /\ jobs[i] # NoJob
  /\ IF /\ jobs[i].key = <<"paid", calls[c].req>>
        /\ jobs[i].status = "WAITING_FOR_USER"
     THEN Goes(c, [calls[c] EXCEPT !.pc = "delegate", !.id = i, !.doc = jobs[i]])
     ELSE Ends(c)
  /\ UNCHANGED <<jobs, tokens, settled, kills>>

\* refresh-paid: the token's scope, then the stored job's own.
Resume(c, i) ==
  /\ At(c, "continue")
  /\ jobs[i] # NoJob
  /\ IF /\ <<calls[c].req, i>> \in tokens
        /\ jobs[i].key = <<"paid", calls[c].req>>
        /\ jobs[i].status = "WAITING_FOR_USER"
     THEN Goes(c, [calls[c] EXCEPT !.pc = "delegate", !.id = i, !.doc = jobs[i]])
     ELSE Ends(c)
  /\ UNCHANGED <<jobs, tokens, settled, kills>>

-----------------------------------------------------------------------------
(* What happens around the calls.                                           *)

\* Packages expire after minutes, tokens after a day.
Expire(i) == /\ jobs[i] # NoJob /\ jobs[i].fresh
             /\ jobs' = [jobs EXCEPT ![i].fresh = FALSE]
             /\ UNCHANGED <<calls, tokens, settled, kills>>
ExpireToken == /\ \E t \in tokens : tokens' = tokens \ {t}
               /\ UNCHANGED <<jobs, calls, settled, kills>>

\* A receipt or a buyer report takes the job past signing.
Progress(i) == /\ jobs[i] # NoJob
               /\ jobs[i].status = "WAITING_FOR_USER" /\ jobs[i].packs # {}
               /\ jobs' = [jobs EXCEPT ![i].status = "EXECUTING"]
               /\ UNCHANGED <<calls, tokens, settled, kills>>

Kill(c) == /\ calls[c] # Idle /\ kills < MaxKills
           /\ Ends(c)
           /\ kills' = kills + 1
           /\ UNCHANGED <<jobs, tokens, settled>>

Step(c) == \/ Lookup(c) \/ Create(c) \/ Analyse(c) \/ Analysed(c)
           \/ Plan(c) \/ Planned(c) \/ Simulate(c) \/ Simulated(c)
           \/ Delegate(c) \/ Permits(c) \/ Settle(c)
           \/ \E i \in JobIds : Resume(c, i)

Calls(c) == \E r \in Requests, s \in Scopes :
              \/ \E kind \in Kinds : Start(c, kind, r, s)
              \/ "paid" \in Kinds /\ Start(c, "refresh", r, s)

Next == \/ \E c \in Clients : Step(c) \/ Kill(c)
        \/ \E c \in Clients : Calls(c)
        \/ \E i \in JobIds : Expire(i) \/ Progress(i)
        \/ ExpireToken

Spec == Init /\ [][Next]_vars

-----------------------------------------------------------------------------
(* Properties.                                                              *)

\* Two calls of one request that both found no job still end with one: the
\* rescue is never scanned, planned and signed twice under two ids.
OneJobPerRequest ==
  \A i, j \in JobIds :
    jobs[i] # NoJob /\ jobs[j] # NoJob /\ jobs[i].key = jobs[j].key => i = j

\* A call hands over packages of a job of its own wallet, and only for assets
\* that its own request lists - never for the coin, which its plan may move - even
\* where the stored job was made for another list with the same commitment.
HandsOnlyItsScope ==
  \A c \in Clients : At(c, "done") =>
    /\ calls[c].kind = "refresh" \/
         /\ JobOf(c).scope.wallet = calls[c].scope.wallet
         /\ Digest[JobOf(c).scope.manifest] = Digest[calls[c].scope.manifest]
    /\ calls[c].packs \subseteq Asked(c)

\* The scan and the plan of a job hold nothing but the coin outside the manifest of
\* its incident, although the analyzer works on the manifest of whichever request
\* runs it.
PlansItsIncident ==
  \A i \in JobIds : jobs[i] # NoJob => jobs[i].plan \subseteq jobs[i].scope.manifest \cup {Coin}

\* Nobody continues a rescue that was not paid for under that request.
ContinuesOnlyPaid ==
  \A c \in Clients : calls[c] # Idle /\ calls[c].kind = "refresh" /\ calls[c].id # NoJob =>
    /\ <<calls[c].req, calls[c].id>> \in settled
    /\ JobOf(c).key = <<"paid", calls[c].req>>
=============================================================================
