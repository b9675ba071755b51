----------------------------- MODULE JobService -----------------------------
(***************************************************************************)
(* AgentIncidentService on one stored job, with every caller the deployed  *)
(* web application has: API requests, the receipt route with its           *)
(* after-response worker, and the scheduled reconciliation                 *)
(* (packages/agent-service/src/service.ts, store.ts,                       *)
(* packages/persistence/src/repository.ts, apps/web/src/app/api).          *)
(*                                                                         *)
(* Calls run in separate serverless invocations and share only the stored  *)
(* document.  A call reads the job, awaits a port (scanner, planner,       *)
(* simulator, package builder, receipt verifier), and writes the document  *)
(* it read, patched, guarded by the revision it read.  Each await is the   *)
(* end of an action, so any call may run between a read and its write.     *)
(***************************************************************************)
EXTENDS JobLifecycle

CONSTANTS Clients,        \* concurrent API requests
          Cron,           \* the scheduled reconciliation
          NoJob, NoReceipt,
          MaxAttempts,    \* retryJobMutation: maximumAttempts = 5
          MaxFollowUps,   \* continueReconciliation: 8 attempts
          MaxIssues,      \* bound: package lists built
          MaxStarts,      \* bound: API requests
          MaxExpired,     \* bound: packages that expire
          MaxFaults       \* bound: crashed calls and failing ports

Calls == Clients \cup {Cron}

ASSUME CallAssumption == /\ Cron \notin Clients
                         /\ NoJob \notin Job
                         /\ NoReceipt \notin Receipt
ASSUME BoundAssumption == /\ MaxAttempts \in Nat \ {0}
                          /\ MaxFollowUps \in Nat

VARIABLES
  job,        \* the stored document
  pc,         \* per call: where it is suspended
  snap,       \* per call: the document it last read, or NoJob
  base,       \* per reconciliation: the document its outer read returned
  arg,        \* per call: the receipt it is about, or NoReceipt
  tries,      \* per call: conflicts retried so far by retryJobMutation
  follow,     \* per call: reconciliations the receipt route may still make
  txs,        \* destination transactions on the chain, with their final verdict
  expired,    \* packages whose expiresAt has passed
  delivered,  \* packages some caller was handed
  issues,     \* package lists built so far
  starts,     \* API requests so far
  faults      \* faults so far

callVars  == <<pc, snap, base, arg, tries, follow>>
worldVars == <<txs, expired>>
boundVars == <<issues, starts, faults>>
vars == <<job, pc, snap, base, arg, tries, follow, txs, expired, delivered,
          issues, starts, faults>>

Stage == {"idle", "analyse", "analysing", "plan", "simulate", "dashboard",
          "monitor", "resimulate", "build", "register", "registering",
          "reconcile", "report", "verifying", "confirm", "mark", "remark"}
Verdict == {"SEEN", "SUCCESS", "REVERTED", "REJECTED"}
Transaction == [hash : Hashes, pkg : Package, verdict : Verdict]
Tx(r, v) == [hash |-> r.hash, pkg |-> r.pkg, verdict |-> v]

TypeOK ==
  /\ job \in Job
  /\ pc \in [Calls -> Stage]
  /\ snap \in [Calls -> Job \cup {NoJob}]
  /\ base \in [Calls -> Job \cup {NoJob}]
  /\ arg \in [Calls -> Receipt \cup {NoReceipt}]
  /\ tries \in [Calls -> Nat]
  /\ follow \in [Calls -> Nat]
  /\ txs \subseteq Transaction
  /\ expired \subseteq Package
  /\ delivered \subseteq Package
  /\ issues \in Nat /\ starts \in Nat /\ faults \in Nat

\* No call is in flight.
Unengaged == /\ pc = [c \in Calls |-> "idle"]
           /\ snap = [c \in Calls |-> NoJob]
           /\ base = [c \in Calls |-> NoJob]
           /\ arg = [c \in Calls |-> NoReceipt]
           /\ tries = [c \in Calls |-> 0]
           /\ follow = [c \in Calls |-> 0]

Quiet == /\ Unengaged
         /\ txs = {} /\ expired = {} /\ delivered = {}
         /\ issues = 0 /\ starts = 0 /\ faults = 0

Init == Quiet /\ job \in {NewJob(TRUE), NewJob(FALSE)}

-----------------------------------------------------------------------------
(* The store: a write is accepted only against the revision the call read, *)
(* only with a higher one, and only when the document passes its schema.   *)

\* Mutant of Accepts: no revision test.
AcceptsBlindly(c, next) == next.revision > snap[c].revision /\ ValidJob(next)

Accepts(c, next) == /\ job.revision = snap[c].revision
                    /\ next.revision > snap[c].revision
                    /\ ValidJob(next)
Conflict(c) == job.revision # snap[c].revision

Start(c, stage) == /\ c \in Clients /\ pc[c] = "idle" /\ starts < MaxStarts
                   /\ starts' = starts + 1
                   /\ pc' = [pc EXCEPT ![c] = stage]

\* The call returns or throws; nothing of it survives.
End(c) == /\ pc' = [pc EXCEPT ![c] = "idle"]
          /\ snap' = [snap EXCEPT ![c] = NoJob]
          /\ base' = [base EXCEPT ![c] = NoJob]
          /\ arg' = [arg EXCEPT ![c] = NoReceipt]
          /\ tries' = [tries EXCEPT ![c] = 0]
          /\ follow' = [follow EXCEPT ![c] = 0]

\* The call reads the stored job and goes on to `stage`.
Read(c, stage) == /\ snap' = [snap EXCEPT ![c] = job]
                  /\ pc' = [pc EXCEPT ![c] = stage]
                  /\ UNCHANGED job

\* The call writes `next` and ends, or the store refuses it and the error is
\* what the caller gets.
SaveAndEnd(c, next) ==
  /\ IF Accepts(c, next) THEN job' = next ELSE UNCHANGED job
  /\ End(c)

\* As SaveAndEnd for a lifecycle transition.
MoveAndEnd(c, j, to) ==
  CanTransition(j.status, to) /\ SaveAndEnd(c, Move(j, to))

\* An API request that begins by reading the job.
Open(c, stage) == /\ Start(c, stage)
                  /\ snap' = [snap EXCEPT ![c] = job]
                  /\ UNCHANGED <<job, base, arg, tries, follow, worldVars,
                                 delivered, issues, faults>>

Rest == UNCHANGED <<worldVars, delivered, boundVars>>

-----------------------------------------------------------------------------
(* analyseIncident: two writes around the scanner.                         *)

AnalyseRead(c) == /\ job.status \in {"RECEIVED", "WAITING_FOR_SOURCE"}
                  /\ Open(c, "analyse")

AnalyseSave(c) ==
  LET next == Move([snap[c] EXCEPT !.incident = TRUE], "ANALYSING")
      lands == CanTransition(snap[c].status, "ANALYSING") /\ Accepts(c, next)
  IN /\ pc[c] = "analyse"
     /\ \/ /\ lands
           /\ job' = next
           /\ snap' = [snap EXCEPT ![c] = next]
           /\ pc' = [pc EXCEPT ![c] = "analysing"]
           /\ UNCHANGED <<base, arg, tries, follow>>
        \/ /\ ~lands
           /\ UNCHANGED job /\ End(c)
     /\ Rest

\* The scan write is returned, not awaited, inside the try: a conflict there
\* reaches the caller and does not fail the job.
AnalyseDone(c) ==
  /\ pc[c] = "analysing"
  /\ \/ SaveAndEnd(c, Update([snap[c] EXCEPT !.scan = TRUE]))
     \/ MoveAndEnd(c, snap[c], "FAILED")
  /\ Rest

(* generatePlan and simulatePlan: read, await the port, one write.         *)

PlanRead(c) == /\ job.status = "ANALYSING" /\ job.incident /\ job.scan
               /\ Open(c, "plan")

PlanDone(c) ==
  /\ pc[c] = "plan"
  /\ \/ MoveAndEnd(c, [snap[c] EXCEPT !.plan = TRUE], "PLAN_READY")
     \/ MoveAndEnd(c, snap[c], "FAILED")
  /\ Rest

SimulateRead(c) == /\ job.status = "PLAN_READY" /\ job.plan
                   /\ Open(c, "simulate")

\* A simulation in which no action executes fails the job and keeps the report.
SimulateDone(c) ==
  /\ pc[c] = "simulate"
  /\ \/ \E executable \in SUBSET Actions :
          MoveAndEnd(c, [snap[c] EXCEPT !.simulated = TRUE, !.executable = executable],
                     IF executable = {} THEN "FAILED" ELSE "WAITING_FOR_USER")
     \/ MoveAndEnd(c, snap[c], "FAILED")
  /\ Rest

(* getDashboardUrl stores the URL whatever the status of the job.          *)

DashboardRead(c) == Open(c, "dashboard")

DashboardSave(c) == pc[c] = "dashboard" /\ SaveAndEnd(c, Update(snap[c])) /\ Rest

(* monitorRescue with the deployed ReviewOnlyMonitor, which always answers *)
(* WAITING_FOR_USER with nothing completed.  The write of the observation  *)
(* is awaited inside the try, so whatever it throws fails the job.         *)

MonitorRead(c) == /\ job.status \in Active /\ job.plan
                  /\ Open(c, "monitor")

MonitorDone(c) ==
  /\ pc[c] = "monitor"
  /\ \/ /\ snap[c].status = "WAITING_FOR_USER"
        /\ SaveAndEnd(c, Update([snap[c] EXCEPT !.done = {}, !.seen = {}]))
     \/ MoveAndEnd(c, snap[c], "FAILED")
  /\ Rest

-----------------------------------------------------------------------------
(* getSigningPackages: hand out the stored list while every package of it  *)
(* is live; otherwise simulate again where needed, build, and replace it.  *)

SigningReturn(c) ==
  /\ c \in Clients /\ pc[c] = "idle" /\ starts < MaxStarts
  /\ job.pkgs # {} /\ job.pkgs \cap expired = {}
  /\ starts' = starts + 1
  /\ delivered' = delivered \cup job.pkgs
  /\ UNCHANGED <<job, callVars, worldVars, issues, faults>>

SigningRead(c) ==
  /\ job.pkgs = {} \/ job.pkgs \cap expired # {}
  /\ job.status = "WAITING_FOR_USER" /\ job.incident /\ job.plan /\ job.simulated
  /\ \/ Open(c, "resimulate")
     \/ job.pkgs = {} /\ Open(c, "build")      \* the simulation is still fresh

Resimulate(c) ==
  /\ pc[c] = "resimulate"
  /\ \E executable \in (SUBSET Actions) :
       LET next == Update([snap[c] EXCEPT !.executable = executable])
       IN \/ /\ executable # {} /\ Accepts(c, next)
             /\ job' = next
             /\ snap' = [snap EXCEPT ![c] = next]
             /\ pc' = [pc EXCEPT ![c] = "build"]
             /\ UNCHANGED <<base, arg, tries, follow>>
          \/ /\ executable = {} \/ ~Accepts(c, next)
             /\ UNCHANGED job /\ End(c)
  /\ Rest

\* Mutant of Build: a new list starts with no submissions.
BuildAfresh(c) ==
  /\ pc[c] = "build"
  /\ \E built \in (SUBSET snap[c].executable) \ {{}} :
       LET list == {[issue |-> issues + 1, action |-> a] : a \in built}
           next == Update([snap[c] EXCEPT !.pkgs = list, !.subs = {}])
       IN /\ issues < MaxIssues /\ Accepts(c, next)
          /\ job' = next
          /\ delivered' = delivered \cup list
          /\ issues' = issues + 1
  /\ End(c)
  /\ UNCHANGED <<worldVars, starts, faults>>

\* The builder issues packages for some of the executable actions, or none.
Build(c) ==
  /\ pc[c] = "build"
  /\ \E built \in SUBSET snap[c].executable :
       LET list == {[issue |-> issues + 1, action |-> a] : a \in built}
           next == Update([snap[c] EXCEPT !.pkgs = list])
       IN \/ /\ built # {} /\ issues < MaxIssues /\ Accepts(c, next)
             /\ job' = next
             /\ delivered' = delivered \cup list
             /\ issues' = issues + 1
          \/ /\ built = {} \/ ~Accepts(c, next)
             /\ UNCHANGED <<job, delivered, issues>>
  /\ End(c)
  /\ UNCHANGED <<worldVars, starts, faults>>

-----------------------------------------------------------------------------
(* The receipt route: check the package and the visible transaction against *)
(* a first read, register the hash, reconcile once, and leave up to         *)
(* MaxFollowUps further reconciliations to run after the response.          *)

Visible(r) == \E v \in Verdict : Tx(r, v) \in txs

RouteCheck(c, r) ==
  /\ Start(c, "register")
  /\ r.pkg \in job.pkgs
  /\ Visible(r)
  /\ arg' = [arg EXCEPT ![c] = r]
  /\ follow' = [follow EXCEPT ![c] = MaxFollowUps + 1]
  /\ UNCHANGED <<job, snap, base, tries, worldVars, delivered, issues, faults>>

\* Go on to reconcile the same receipt with a fresh call of the service.
Reconcile(c, left) ==
  /\ pc' = [pc EXCEPT ![c] = "reconcile"]
  /\ snap' = [snap EXCEPT ![c] = NoJob]
  /\ base' = [base EXCEPT ![c] = NoJob]
  /\ tries' = [tries EXCEPT ![c] = 0]
  /\ follow' = [follow EXCEPT ![c] = left]
  /\ UNCHANGED arg

\* A reconciliation that throws: the after-response worker tries again, the
\* route's own first attempt and the schedule do not.
Throw(c) == IF follow[c] \in 2 .. MaxFollowUps
            THEN Reconcile(c, follow[c] - 1) ELSE End(c)

\* retryJobMutation: on a conflict read again, at most MaxAttempts times in all.
Retry(c, stage) ==
  /\ UNCHANGED job
  /\ IF Conflict(c) /\ tries[c] + 1 < MaxAttempts
     THEN /\ tries' = [tries EXCEPT ![c] = @ + 1]
          /\ pc' = [pc EXCEPT ![c] = stage]
          /\ UNCHANGED <<snap, base, arg, follow>>
     ELSE IF stage = "register" THEN End(c) ELSE Throw(c)

RegisterRead(c) ==
  LET r == arg[c]
      existing == {s \in job.subs : s.hash = r.hash}
  IN /\ pc[c] = "register"
     /\ \/ /\ r.pkg \in job.pkgs /\ existing = {} /\ job.status \in Active
           /\ Read(c, "registering")
           /\ UNCHANGED <<base, arg, tries, follow>>
        \/ /\ r.pkg \in job.pkgs /\ \E s \in existing : s.pkg = r.pkg
           /\ Reconcile(c, follow[c]) /\ UNCHANGED job
        \/ /\ \/ r.pkg \notin job.pkgs
              \/ \E s \in existing : s.pkg # r.pkg
              \/ existing = {} /\ job.status \notin Active
           /\ UNCHANGED job /\ End(c)
     /\ Rest

RegisterSave(c) ==
  LET pending == [hash |-> arg[c].hash, pkg |-> arg[c].pkg, status |-> "PENDING"]
      next == Update([snap[c] EXCEPT !.subs = @ \cup {pending}])
  IN /\ pc[c] = "registering"
     /\ \/ Accepts(c, next) /\ job' = next /\ Reconcile(c, follow[c])
        \/ ~Accepts(c, next) /\ Retry(c, "register")
     /\ Rest

-----------------------------------------------------------------------------
(* The scheduled reconciliation takes the submissions still pending in a    *)
(* job that is not terminal; each is reconciled by its own service call.    *)

\* Mutant of CronPick: only rescues already being executed.
CronPickExecuting(r) ==
  /\ pc[Cron] = "idle"
  /\ job.status = "EXECUTING"
  /\ \E s \in job.subs : s.hash = r.hash /\ s.pkg = r.pkg /\ s.status = "PENDING"
  /\ pc' = [pc EXCEPT ![Cron] = "reconcile"]
  /\ arg' = [arg EXCEPT ![Cron] = r]
  /\ UNCHANGED <<job, snap, base, tries, follow>> /\ Rest

CronPick(r) ==
  /\ pc[Cron] = "idle"
  /\ job.status \in Active
  /\ \E s \in job.subs : s.hash = r.hash /\ s.pkg = r.pkg /\ s.status = "PENDING"
  /\ pc' = [pc EXCEPT ![Cron] = "reconcile"]
  /\ arg' = [arg EXCEPT ![Cron] = r]
  /\ UNCHANGED <<job, snap, base, tries, follow>> /\ Rest

(* reconcileBuyerReceiptSubmission: read the submission, then run           *)
(* recordBuyerExecutionReport, which reads the job again.                   *)

\* The receipt is still pending: the route hands over to its worker.
StillPending(c) == IF follow[c] > 1 THEN Reconcile(c, follow[c] - 1) ELSE End(c)

ReconcileRead(c) ==
  LET mine == {s \in job.subs : s.hash = arg[c].hash /\ s.pkg = arg[c].pkg}
  IN /\ pc[c] = "reconcile"
     /\ UNCHANGED job
     /\ \/ /\ \E s \in mine : s.status = "PENDING"
           /\ base' = [base EXCEPT ![c] = job]
           /\ pc' = [pc EXCEPT ![c] = "report"]
           /\ UNCHANGED <<snap, arg, tries, follow>>
        \/ /\ mine # {} /\ \A s \in mine : s.status # "PENDING"
           /\ End(c)
        \/ mine = {} /\ Throw(c)
     /\ Rest

\* A buyer may also report an execution without registering it.  A report
\* about a transaction the chain does not show for that package throws, or
\* finds no submission to confirm.
ReportStart(c, r) ==
  /\ Start(c, "report")
  /\ Visible(r)
  /\ arg' = [arg EXCEPT ![c] = r]
  /\ UNCHANGED <<job, snap, base, tries, follow, worldVars, delivered, issues, faults>>

\* Mutant of ExactRetry: any receipt of a verified action.
ExactRetryByAction(c) == arg[c].pkg.action \in job.done

\* A verified job accepts only the exact retry of a receipt it has verified.
ExactRetry(c) == arg[c].pkg.action \in job.done /\ arg[c].hash \in job.seen

ReportRead(c) ==
  LET r == arg[c]
  IN /\ pc[c] = "report"
     /\ \/ /\ job.status \in Active /\ r.pkg \in job.pkgs
           /\ Read(c, "verifying") /\ UNCHANGED <<base, arg, tries, follow>>
        \/ /\ job.status \in Verified /\ r.pkg \in job.pkgs /\ ExactRetry(c)
           /\ \/ /\ Confirmed(job, r) # job.subs
                 /\ Read(c, "confirm") /\ UNCHANGED <<base, arg, tries, follow>>
              \/ Confirmed(job, r) = job.subs /\ UNCHANGED job /\ End(c)
        \/ /\ \/ r.pkg \notin job.pkgs
              \/ job.status \notin Active \cup Verified
              \/ job.status \in Verified /\ ~ExactRetry(c)
           /\ UNCHANGED job /\ Throw(c)
     /\ Rest

ConfirmSave(c) ==
  LET next == Update([snap[c] EXCEPT !.subs = Confirmed(snap[c], arg[c])])
  IN /\ pc[c] = "confirm"
     /\ \/ Accepts(c, next) /\ job' = next /\ End(c)
        \/ ~Accepts(c, next) /\ Retry(c, "report")
     /\ Rest

\* The chain answers.  Only a final, canonical success is recorded; a
\* reconciliation marks a final revert or mismatch, a plain report throws it.
ReportVerify(c) ==
  LET r == arg[c]
      next == Reported(snap[c], r)
  IN /\ pc[c] = "verifying"
     /\ \/ /\ Tx(r, "SUCCESS") \in txs
           /\ \/ Accepts(c, next) /\ job' = next /\ End(c)
              \/ ~Accepts(c, next) /\ Retry(c, "report")
        \/ /\ {Tx(r, "REVERTED"), Tx(r, "REJECTED")} \cap txs # {}
           /\ base[c] # NoJob
           /\ snap' = [snap EXCEPT ![c] = base[c]]
           /\ tries' = [tries EXCEPT ![c] = 0]
           /\ pc' = [pc EXCEPT ![c] = "mark"]
           /\ UNCHANGED <<job, base, arg, follow>>
        \/ /\ Tx(r, "SUCCESS") \notin txs
           /\ base[c] = NoJob \/ {Tx(r, "REVERTED"), Tx(r, "REJECTED")} \cap txs = {}
           /\ UNCHANGED job /\ StillPending(c)
     /\ Rest

\* setReceiptSubmissionStatus: its first attempt writes over the document the
\* outer read of the reconciliation returned.
MarkSave(c) ==
  /\ pc[c] = "mark"
  /\ \E v \in {"REVERTED", "REJECTED"} :
       LET next == Update(Marked(snap[c], arg[c], v))
       IN /\ Tx(arg[c], v) \in txs
          /\ \/ Accepts(c, next) /\ job' = next /\ End(c)
             \/ ~Accepts(c, next) /\ Retry(c, "remark")
  /\ Rest

MarkRead(c) == /\ pc[c] = "remark"
               /\ Read(c, "mark")
               /\ UNCHANGED <<base, arg, tries, follow>> /\ Rest

-----------------------------------------------------------------------------
(* The world: buyers broadcast what they were handed, the chain decides,    *)
(* packages expire, and an invocation may die at any await.                 *)

Broadcast(r) ==
  /\ r.pkg \in delivered
  /\ \A t \in txs : t.hash # r.hash
  /\ txs' = txs \cup {Tx(r, "SEEN")}
  /\ UNCHANGED <<job, callVars, expired, delivered, boundVars>>

Finalise(r, v) ==
  /\ Tx(r, "SEEN") \in txs
  /\ v # "SEEN"
  /\ txs' = (txs \ {Tx(r, "SEEN")}) \cup {Tx(r, v)}
  /\ UNCHANGED <<job, callVars, expired, delivered, boundVars>>

Expire(p) ==
  /\ p \in delivered \ expired /\ Cardinality(expired) < MaxExpired
  /\ expired' = expired \cup {p}
  /\ UNCHANGED <<job, callVars, txs, delivered, boundVars>>

Crash(c) == /\ pc[c] # "idle" /\ faults < MaxFaults
            /\ faults' = faults + 1
            /\ End(c)
            /\ UNCHANGED <<job, worldVars, delivered, issues, starts>>

\* The packages a receipt can be about are those that were handed out.
Receipts == {[hash |-> h, pkg |-> p] : h \in Hashes, p \in delivered}

Request(c) == \/ AnalyseRead(c) \/ PlanRead(c) \/ SimulateRead(c)
            \/ DashboardRead(c) \/ MonitorRead(c)
            \/ SigningReturn(c) \/ SigningRead(c)
            \/ \E r \in Receipts : RouteCheck(c, r) \/ ReportStart(c, r)

Resume(c) == \/ AnalyseSave(c) \/ AnalyseDone(c) \/ PlanDone(c) \/ SimulateDone(c)
             \/ DashboardSave(c) \/ MonitorDone(c) \/ Resimulate(c) \/ Build(c)
             \/ RegisterRead(c) \/ RegisterSave(c)
             \/ ReconcileRead(c) \/ ReportRead(c) \/ ConfirmSave(c)
             \/ ReportVerify(c) \/ MarkSave(c) \/ MarkRead(c)

World == \/ \E r \in Receipts : Broadcast(r) \/ \E v \in Verdict : Finalise(r, v)
         \/ \E p \in delivered : Expire(p)

Next == \/ \E c \in Clients : Request(c)
        \/ \E r \in Receipts : CronPick(r)
        \/ \E c \in Calls : Resume(c) \/ Crash(c)
        \/ World

Spec == Init /\ [][Next]_vars

\* A call that is not killed gets its answers and goes on; the schedule keeps
\* running, and each run goes through every pending submission it finds.
Fairness == /\ \A c \in Calls : WF_vars(Resume(c))
            /\ \A h \in Hashes : SF_vars(\E r \in Receipts : r.hash = h /\ CronPick(r))
-----------------------------------------------------------------------------
(* Correctness.                                                            *)

\* Stages at which a call holds a document it will write back.
Holding == {"analyse", "analysing", "plan", "simulate", "dashboard", "monitor",
            "resimulate", "build", "registering", "verifying", "confirm", "mark"}

\* Actions some final transaction on the chain has really rescued.
Settled == {t.pkg.action : t \in {u \in txs : u.verdict = "SUCCESS"}}

\* A document held across an await, at whatever distance from its read, is
\* either the stored one or carries a smaller revision: revisions never repeat
\* for different contents, so the store's revision test cannot accept a write
\* computed from a stale read.
SnapshotCurrency ==
  \A c \in Calls :
    /\ pc[c] \in Holding =>
         /\ snap[c].revision <= job.revision
         /\ snap[c].revision = job.revision => snap[c] = job
    /\ base[c] # NoJob =>
         /\ base[c].revision <= job.revision
         /\ base[c].revision = job.revision => base[c] = job

\* What a suspended call carries: the document it will write, the receipt it is
\* about, and the checks it made before it was suspended.
AboutReceipt == {"register", "registering", "reconcile", "report", "verifying",
                 "confirm", "mark", "remark"}
CallInv ==
  \A c \in Calls :
    /\ pc[c] \in Holding => snap[c] \in Job
    /\ pc[c] \in AboutReceipt => arg[c] \in Receipt
    /\ pc[c] \in {"resimulate", "build"} => snap[c].status = "WAITING_FOR_USER"
    /\ pc[c] = "verifying" => /\ snap[c].status \in Active
                             /\ arg[c].pkg \in snap[c].pkgs
    /\ pc[c] = "confirm" => /\ arg[c].pkg.action \in snap[c].done
                           /\ arg[c].hash \in snap[c].seen

\* A receipt's stored status is the chain's final verdict on that hash for that
\* package, through every conflict, retry and concurrent reconciliation.
TruthfulReceipts ==
  \A s \in job.subs :
    /\ s.status = "CONFIRMED" => Tx(s, "SUCCESS") \in txs
    /\ s.status \in {"REVERTED", "REJECTED"} => Tx(s, s.status) \in txs

\* Nothing is reported rescued that the chain did not settle; PARTIAL and
\* COMPLETED are reached only with every issued package verified, COMPLETED
\* only with every action of the plan; and EXECUTING always has an issued
\* package left whose receipt can finish it.
TruthfulCompletion ==
  /\ job.done \subseteq Settled
  /\ job.status \in Verified => job.pkgs # {} /\ IssuedActions(job) \subseteq job.done
  /\ job.status = "COMPLETED" => job.done = Actions
  /\ job.status = "EXECUTING" => ~(IssuedActions(job) \subseteq job.done)

\* A list of packages that was handed out and of which nothing has expired is
\* the list the job stores: two builders racing on one job cannot leave a
\* buyer with live packages whose receipts the service would refuse.
LiveIssueIsCurrent ==
  \A p \in delivered :
    (\A q \in delivered : q.issue = p.issue => q \notin expired) => p \in job.pkgs

\* The verdict on a receipt is final: no retry, late answer or later refresh
\* turns a settled submission back or drops it.
SettledReceiptsStay ==
  [][\A s \in job.subs : s.status # "PENDING" => s \in job'.subs]_vars
\* The chain's final verdict on a registered hash is eventually recorded, even
\* when the buyer leaves and the after-response worker dies, unless the job has
\* reached a terminal status by then.
PendingIsSettled ==
  \A h \in Hashes :
    /\ \E s \in job.subs : s.hash = h /\ s.status = "PENDING"
    /\ \E t \in txs : t.hash = h /\ t.verdict # "SEEN"
    ~> \/ job.status \in Terminal
       \/ \A s \in job.subs : s.hash = h => s.status # "PENDING"

\* The inductive invariant behind the safety theorems.
IndInv == TypeOK /\ CallInv /\ SnapshotCurrency

-----------------------------------------------------------------------------
(* The stored job keeps the promise of RescuePromise.                      *)

\* What a buyer is told in each status.
Told(status) == CASE status = "WAITING_FOR_USER"       -> "OFFERED"
                  [] status \in {"SIGNING", "EXECUTING"} -> "RESCUING"
                  [] status = "COMPLETED"              -> "DONE"
                  [] status = "PARTIAL"                -> "PARTLY"
                  [] status = "FAILED"                 -> "FAILED"
                  [] OTHER                             -> "PREPARING"

Promise == INSTANCE RescuePromise WITH phase    <- Told(job.status),
                                       reported <- job.done,
                                       rescued  <- Settled

\* Every step of every interleaving of calls is a step of the promise or leaves
\* it alone: a stale write can neither shrink what was reported verified, nor
\* leave a final status, nor complete a rescue early.
KeepsPromise == Promise!PromiseSpec

\* The same without the initial state, for runs that start in a later one.
KeepsPromiseSteps == [][Promise!PromiseNext]_(Promise!promiseVars)

=============================================================================
