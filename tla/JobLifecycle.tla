---------------------------- MODULE JobLifecycle ----------------------------
(***************************************************************************)
(* The agent-service job as a value: its statuses, the transition graph,   *)
(* the schema every read and every write passes through, and the patches   *)
(* the service applies to it (packages/agent-service/src/lifecycle.ts,     *)
(* schemas.ts and the patch-building parts of service.ts).                 *)
(*                                                                         *)
(* A job is one JSON document.  Kept here: its status, its revision, which *)
(* of incident / scan / plan are present, the action ids the last          *)
(* simulation found executable, the issued signing packages, the receipt   *)
(* submissions, and the monitor's completed actions and transaction        *)
(* hashes.  Left out: addresses, amounts, hashes of plans, timestamps,     *)
(* wording, the dashboard URL, the error text and the audit history.  The  *)
(* plan is the constant set Actions.                                       *)
(***************************************************************************)
EXTENDS Naturals, FiniteSets

CONSTANTS Actions,          \* the action ids of the committed rescue plan
          Hashes,           \* transaction hashes the destination may broadcast
          MaxSubmissions    \* receiptSubmissions: z.array(...).max(64)

ASSUME MaxSubmissionsAssumption == MaxSubmissions \in Nat

-----------------------------------------------------------------------------
Active   == {"WAITING_FOR_USER", "SIGNING", "EXECUTING"}
Verified == {"COMPLETED", "PARTIAL"}
Terminal == Verified \cup {"FAILED"}
Status   == {"RECEIVED", "WAITING_FOR_SOURCE", "ANALYSING", "PLAN_READY"}
              \cup Active \cup Terminal

\* ALLOWED_AGENT_SERVICE_TRANSITIONS
Allowed == [s \in Status |->
  CASE s = "RECEIVED"           -> {"WAITING_FOR_SOURCE", "ANALYSING", "FAILED"}
    [] s = "WAITING_FOR_SOURCE" -> {"ANALYSING", "FAILED"}
    [] s = "ANALYSING"          -> {"PLAN_READY", "FAILED"}
    [] s = "PLAN_READY"         -> {"WAITING_FOR_USER", "FAILED"}
    [] s = "WAITING_FOR_USER"   -> {"SIGNING", "FAILED"}
    [] s = "SIGNING"            -> {"EXECUTING", "FAILED"}
    [] s = "EXECUTING"          -> {"COMPLETED", "PARTIAL", "FAILED"}
    [] OTHER                    -> {}]

CanTransition(from, to) == to \in Allowed[from]

-----------------------------------------------------------------------------
\* A package is named by the issue it belongs to: ids are random UUIDs, so two
\* issues never share one, and one issue has at most one package per action.
Package          == [issue : Nat, action : Actions]
SubmissionStatus == {"PENDING", "CONFIRMED", "REVERTED", "REJECTED"}
Receipt          == [hash : Hashes, pkg : Package]
Submission       == [hash : Hashes, pkg : Package, status : SubmissionStatus]

Job == [status     : Status,
        revision   : Nat,
        incident   : BOOLEAN,
        scan       : BOOLEAN,
        plan       : BOOLEAN,
        simulated  : BOOLEAN,
        executable : SUBSET Actions,      \* simulation.executableActionIds
        pkgs       : SUBSET Package,      \* signingPackages; {} when absent
        subs       : SUBSET Submission,   \* receiptSubmissions
        done       : SUBSET Actions,      \* monitor.completedActionIds
        seen       : SUBSET Hashes]       \* monitor.transactionHashes

\* createIncident: RECEIVED, moved on to WAITING_FOR_SOURCE in the same save
\* when no incident was supplied.
NewJob(incident) ==
  [status     |-> IF incident THEN "RECEIVED" ELSE "WAITING_FOR_SOURCE",
   revision   |-> IF incident THEN 0 ELSE 1,
   incident   |-> incident, scan |-> FALSE, plan |-> FALSE,
   simulated  |-> FALSE, executable |-> {},
   pkgs |-> {}, subs |-> {}, done |-> {}, seen |-> {}]

\* agentServiceJobSchema.superRefine and signingPackageListSchema: what a
\* document must satisfy to be written at all.
ValidJob(j) ==
  /\ j.scan => j.incident
  /\ j.plan => j.scan
  /\ j.simulated => j.plan
  /\ j.pkgs # {} => j.simulated
  /\ \A p, q \in j.pkgs : p.action = q.action => p = q
  /\ \A s \in j.subs : s.pkg \in j.pkgs
  /\ \A s, t \in j.subs : s.hash = t.hash => s = t
  /\ Cardinality(j.subs) <= MaxSubmissions
  /\ j.status = "WAITING_FOR_SOURCE" => ~j.incident
  /\ j.status \notin {"RECEIVED", "WAITING_FOR_SOURCE", "FAILED"} => j.incident

-----------------------------------------------------------------------------
\* updateJob: the patched document with the next revision.
Update(j) == [j EXCEPT !.revision = @ + 1]

\* transitionJob; callers check CanTransition.
Move(j, to) == Update([j EXCEPT !.status = to])

\* A package counts as issued for an action when the list names that action.
IssuedActions(j) == {p.action : p \in j.pkgs}

\* Mutant of Confirmed: with the verifier's word for it.
ConfirmedAsSuccess(j, r) ==
  {IF s.hash = r.hash THEN [s EXCEPT !.status = "SUCCESS"] ELSE s : s \in j.subs}

\* confirmedReceiptPatch: the submission of this hash for this package.
Confirmed(j, r) ==
  {IF s.hash = r.hash /\ s.pkg = r.pkg THEN [s EXCEPT !.status = "CONFIRMED"] ELSE s
     : s \in j.subs}

\* setReceiptSubmissionStatus writes the verdict without looking at the
\* status the submission has by then.
Marked(j, r, verdict) ==
  [j EXCEPT !.subs =
     {IF s.hash = r.hash /\ s.pkg = r.pkg THEN [s EXCEPT !.status = verdict] ELSE s
        : s \in j.subs}]

\* Mutant of PhaseOf: the first report finishes the rescue.
PhaseOfFirstReport(j, done) ==
  IF j.executable = Actions THEN "COMPLETED" ELSE "PARTIAL"
\* The phase recordBuyerExecutionReportForJob derives once `done` actions are
\* verified: excluded actions are those the simulation did not approve.
PhaseOf(j, done) ==
  IF ~(IssuedActions(j) \subseteq done) THEN "EXECUTING"
  ELSE IF j.executable \subseteq IssuedActions(j) /\ j.executable = Actions
       THEN "COMPLETED" ELSE "PARTIAL"

\* advanceToObservation for the phases a verified report can have: every
\* intermediate transition adds a revision, and only the last document is saved.
Rungs(j) == CASE j.status = "WAITING_FOR_USER" -> 2
              [] j.status = "SIGNING"          -> 1
              [] OTHER                         -> 0

Climb(j) == [j EXCEPT !.status = "EXECUTING", !.revision = @ + Rungs(j)]

Reported(j, r) ==
  LET done == j.done \cup {r.pkg.action}
      next == [Climb(j) EXCEPT !.done = done,
                               !.seen = @ \cup {r.hash},
                               !.subs = Confirmed(j, r)]
  IN IF PhaseOf(j, done) = "EXECUTING" THEN Update(next)
     ELSE Move(next, PhaseOf(j, done))
=============================================================================
