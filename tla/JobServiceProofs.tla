-------------------------- MODULE JobServiceProofs --------------------------
(***************************************************************************)
(* Machine-checked facts about JobService, for every set of actions,       *)
(* hashes and clients and every bound: what a suspended call holds, what   *)
(* the stored job can become in one step and, from it, that nothing is     *)
(* reported that the chain did not settle and that the service implements  *)
(* RescuePromise; that the status stored for a receipt is the chain's      *)
(* verdict on it, and stays so; and that live packages are the stored ones.*)
(***************************************************************************)
EXTENDS JobService, TLAPS

-----------------------------------------------------------------------------
(* The patches keep a document a document.                                 *)

\* updateJob and transitionJob return a well-formed document with the next
\* revision and touch nothing else.
LEMMA UpdateType ==
  ASSUME NEW j \in Job
  PROVE  /\ Update(j) \in Job
         /\ Update(j).revision = j.revision + 1
BY DEF Update, Job

\* transitionJob likewise, with the new status.
LEMMA MoveType ==
  ASSUME NEW j \in Job, NEW to \in Status
  PROVE  /\ Move(j, to) \in Job
         /\ Move(j, to).revision = j.revision + 1
<1> DEFINE moved == [j EXCEPT !.status = to]
<1>1. moved \in Job
  BY SMTT(60) DEF Job
<1>3. moved.revision = j.revision
  BY SMTT(60) DEF Job
<1>2. QED  BY <1>1, <1>3, UpdateType DEF Move

\* Confirming or marking a submission rewrites statuses only.
LEMMA ConfirmedType ==
  ASSUME NEW j \in Job, NEW r \in Receipt
  PROVE  Confirmed(j, r) \in SUBSET Submission
BY DEF Confirmed, Job, Submission, SubmissionStatus

\* Marking keeps the document and its revision.
LEMMA MarkedType ==
  ASSUME NEW j \in Job, NEW r \in Receipt, NEW v \in {"REVERTED", "REJECTED"}
  PROVE  Marked(j, r, v) \in Job /\ Marked(j, r, v).revision = j.revision
BY DEF Marked, Job, Submission, SubmissionStatus

\* Status and revision can be replaced in a document.
LEMMA StatusRevisionType ==
  ASSUME NEW j \in Job, NEW to \in Status, NEW n \in Nat
  PROVE  [j EXCEPT !.status = to, !.revision = n] \in Job
BY DEF Job

\* The document a verified report leads to.
LEMMA ReportedType ==
  ASSUME NEW j \in Job, NEW r \in Receipt
  PROVE  Reported(j, r) \in Job /\ Reported(j, r).revision > j.revision
<1> DEFINE done == j.done \cup {r.pkg.action}
           climbed == Climb(j)
           next == [climbed EXCEPT !.done = done,
                                   !.seen = @ \cup {r.hash},
                                   !.subs = Confirmed(j, r)]
<1>1. climbed \in Job /\ climbed.revision >= j.revision
  <2>1. Rungs(j) \in Nat  BY DEF Rungs
  <2>2. j.revision \in Nat /\ j.revision + Rungs(j) \in Nat  BY <2>1 DEF Job
  <2>3. "EXECUTING" \in Status  BY DEF Status, Active
  <2>4. climbed \in Job  BY <2>2, <2>3, StatusRevisionType DEF Climb
  <2>5. climbed.revision = j.revision + Rungs(j)  BY DEF Climb, Job
  <2>6. QED  BY <2>1, <2>2, <2>4, <2>5
<1>2. done \in SUBSET Actions /\ r.hash \in Hashes
  BY DEF Job, Receipt, Package
<1>3. next \in Job /\ next.revision >= j.revision
  <2>1. Confirmed(j, r) \in SUBSET Submission  BY ConfirmedType
  <2>2. climbed.seen \cup {r.hash} \in SUBSET Hashes  BY <1>1, <1>2 DEF Job
  <2>3. QED
    <3> HIDE DEF climbed, done
    <3>1. QED  BY <1>1, <1>2, <2>1, <2>2 DEF Job
<1>4. PhaseOf(j, done) \in Status
  BY DEF PhaseOf, Status, Active, Terminal, Verified
<1>5. Reported(j, r) \in {Update(next), Move(next, PhaseOf(j, done))}
  BY DEF Reported
<1>6. QED
  <2> HIDE DEF next, done
  <2>1. Update(next) \in Job /\ Update(next).revision = next.revision + 1
    BY <1>3, UpdateType
  <2>2. Move(next, PhaseOf(j, done)) \in Job
        /\ Move(next, PhaseOf(j, done)).revision = next.revision + 1
    BY <1>3, <1>4, MoveType
  <2>3. next.revision \in Nat /\ j.revision \in Nat  BY <1>3 DEF Job
  <2>4. QED  BY <1>3, <1>5, <2>1, <2>2, <2>3
-----------------------------------------------------------------------------
(* The effect of one step of one call, in the terms the invariant speaks.  *)

\* Only call c moves, and its variables keep their types.
OnlyCall(c) ==
  /\ pc' \in [Calls -> Stage]
  /\ snap' \in [Calls -> Job \cup {NoJob}]
  /\ base' \in [Calls -> Job \cup {NoJob}]
  /\ arg' \in [Calls -> Receipt \cup {NoReceipt}]
  /\ tries' \in [Calls -> Nat]
  /\ follow' \in [Calls -> Nat]
  /\ \A d \in Calls \ {c} : /\ pc'[d] = pc[d] /\ snap'[d] = snap[d]
                           /\ base'[d] = base[d] /\ arg'[d] = arg[d]

\* c holds no document any more; its outer read is forgotten, kept or new.
LetsGo(c) ==
  /\ pc'[c] \notin Holding
  /\ base'[c] \in {NoJob, base[c], job'}
  /\ pc'[c] \in AboutReceipt => arg'[c] \in Receipt

\* c holds the document now stored, or the one its outer read returned.
Holds(c) ==
  /\ snap'[c] \in Job
  /\ snap'[c] = job' \/ (snap'[c] = base[c] /\ base[c] # NoJob)
  /\ base'[c] = base[c]
  /\ pc'[c] \in AboutReceipt => arg'[c] \in Receipt
  /\ pc'[c] \in {"resimulate", "build"} => snap'[c].status = "WAITING_FOR_USER"
  /\ pc'[c] = "verifying" => /\ snap'[c].status \in Active
                             /\ arg'[c].pkg \in snap'[c].pkgs
  /\ pc'[c] = "confirm" => /\ arg'[c].pkg.action \in snap'[c].done
                           /\ arg'[c].hash \in snap'[c].seen

\* The stored document changes only by a write that passed the store's test.
Writes(c) == /\ pc[c] \in Holding
             /\ job.revision = snap[c].revision
             /\ job' \in Job
             /\ job'.revision > job.revision

GoodStep(c) ==
  /\ OnlyCall(c)
  /\ job' = job \/ Writes(c)
  /\ LetsGo(c) \/ Holds(c)

RestType == /\ txs' \subseteq Transaction
            /\ expired' \subseteq Package
            /\ delivered' \subseteq Package
            /\ issues' \in Nat /\ starts' \in Nat /\ faults' \in Nat

\* Steps of this shape preserve the invariant: whatever document another call
\* holds either predates the write, and then has a smaller revision, or is the
\* stored document itself.
LEMMA GoodStepKeepsInv ==
  ASSUME IndInv, NEW c \in Calls, GoodStep(c), RestType
  PROVE  IndInv'
<1> USE DEF IndInv
<1>1. /\ job \in Job /\ job' \in Job /\ job'.revision >= job.revision
      /\ job.revision \in Nat /\ job'.revision \in Nat
      /\ job'.revision = job.revision => job' = job
  BY DEF TypeOK, GoodStep, Writes, Job
<1>2. TypeOK'
  BY <1>1 DEF TypeOK, GoodStep, OnlyCall, RestType
<1>3. CallInv'
  <2> SUFFICES ASSUME NEW d \in Calls
               PROVE  /\ pc'[d] \in Holding => snap'[d] \in Job
                      /\ pc'[d] \in AboutReceipt => arg'[d] \in Receipt
                      /\ pc'[d] \in {"resimulate", "build"}
                           => snap'[d].status = "WAITING_FOR_USER"
                      /\ pc'[d] = "verifying" => /\ snap'[d].status \in Active
                                                /\ arg'[d].pkg \in snap'[d].pkgs
                      /\ pc'[d] = "confirm" => /\ arg'[d].pkg.action \in snap'[d].done
                                              /\ arg'[d].hash \in snap'[d].seen
    BY DEF CallInv
  <2>1. CASE d # c  BY <2>1 DEF GoodStep, OnlyCall, CallInv
  <2>2. CASE d = c /\ LetsGo(c)  BY <2>2 DEF LetsGo, Holding
  <2>3. CASE d = c /\ Holds(c)  BY <2>3 DEF Holds
  <2>4. QED  BY <2>1, <2>2, <2>3 DEF GoodStep
<1>4. SnapshotCurrency'
  <2> SUFFICES ASSUME NEW d \in Calls
               PROVE  /\ pc'[d] \in Holding =>
                           /\ snap'[d].revision <= job'.revision
                           /\ snap'[d].revision = job'.revision => snap'[d] = job'
                      /\ base'[d] # NoJob =>
                           /\ base'[d].revision <= job'.revision
                           /\ base'[d].revision = job'.revision => base'[d] = job'
    BY DEF SnapshotCurrency
  <2>1. base[d] # NoJob => /\ base[d].revision <= job'.revision
                           /\ base[d].revision = job'.revision => base[d] = job'
    <3>1. base[d] # NoJob => base[d].revision \in Nat  BY DEF TypeOK, Job
    <3>2. QED  BY <1>1, <3>1 DEF SnapshotCurrency
  <2>2. pc[d] \in Holding => /\ snap[d].revision <= job'.revision
                             /\ snap[d].revision = job'.revision => snap[d] = job'
    <3>1. pc[d] \in Holding => snap[d].revision \in Nat  BY DEF CallInv, Job
    <3>2. QED  BY <1>1, <3>1 DEF SnapshotCurrency
  <2>3. CASE d # c  BY <2>1, <2>2, <2>3 DEF GoodStep, OnlyCall
  <2>4. CASE d = c /\ LetsGo(c)  BY <1>1, <2>1, <2>4 DEF LetsGo
  <2>5. CASE d = c /\ Holds(c)  BY <1>1, <2>1, <2>5 DEF Holds
  <2>6. QED  BY <2>3, <2>4, <2>5 DEF GoodStep
<1>5. QED  BY <1>2, <1>3, <1>4
\* Returning, throwing and retrying give up the held document.
LEMMA EndStep ==
  ASSUME IndInv, NEW c \in Calls, End(c)
  PROVE  OnlyCall(c) /\ LetsGo(c)
<1>1. OnlyCall(c)  BY DEF IndInv, TypeOK, End, OnlyCall, Stage
<1>2. pc'[c] = "idle" /\ base'[c] = NoJob  BY DEF IndInv, TypeOK, End
<1>3. QED  BY <1>1, <1>2 DEF LetsGo, Holding, AboutReceipt

\* Going on to reconcile gives up both documents and keeps the receipt.
LEMMA ReconcileStep ==
  ASSUME IndInv, NEW c \in Calls, NEW left \in Nat, pc[c] \in AboutReceipt,
         Reconcile(c, left)
  PROVE  OnlyCall(c) /\ LetsGo(c)
<1>1. OnlyCall(c)  BY DEF IndInv, TypeOK, Reconcile, OnlyCall, Stage
<1>2. pc'[c] = "reconcile" /\ base'[c] = NoJob /\ arg'[c] = arg[c]
  BY DEF IndInv, TypeOK, Reconcile
<1>3. arg[c] \in Receipt  BY DEF IndInv, CallInv
<1>4. QED  BY <1>1, <1>2, <1>3 DEF LetsGo, Holding

\* A reconciliation that throws ends, or goes on to the next attempt.
LEMMA ThrowStep ==
  ASSUME IndInv, NEW c \in Calls, pc[c] \in AboutReceipt, Throw(c)
  PROVE  OnlyCall(c) /\ LetsGo(c)
<1>1. CASE End(c)  BY <1>1, EndStep
<1>2. CASE follow[c] \in 2 .. MaxFollowUps /\ Reconcile(c, follow[c] - 1)
  <2>1. follow[c] - 1 \in Nat  BY <1>2, BoundAssumption DEF IndInv, TypeOK
  <2>2. QED  BY <1>2, <2>1, ReconcileStep
<1>3. QED  BY <1>1, <1>2 DEF Throw

\* A receipt still pending is handed to the worker, or given up.
LEMMA StillPendingStep ==
  ASSUME IndInv, NEW c \in Calls, pc[c] \in AboutReceipt, StillPending(c)
  PROVE  OnlyCall(c) /\ LetsGo(c)
<1>1. CASE End(c)  BY <1>1, EndStep
<1>2. CASE follow[c] > 1 /\ Reconcile(c, follow[c] - 1)
  <2>1. follow[c] - 1 \in Nat  BY <1>2 DEF IndInv, TypeOK
  <2>2. QED  BY <1>2, <2>1, ReconcileStep
<1>3. QED  BY <1>1, <1>2 DEF StillPending

\* A conflict leads back to the read, or to the end of the attempt.
LEMMA RetryStep ==
  ASSUME IndInv, NEW c \in Calls, pc[c] \in AboutReceipt,
         NEW stage \in {"register", "report", "remark"}, Retry(c, stage)
  PROVE  OnlyCall(c) /\ LetsGo(c) /\ job' = job
<1>1. job' = job  BY DEF Retry
<1>2. CASE End(c)  BY <1>1, <1>2, EndStep
<1>3. CASE Throw(c)  BY <1>1, <1>3, ThrowStep
<1>4. CASE /\ tries' = [tries EXCEPT ![c] = @ + 1]
           /\ pc' = [pc EXCEPT ![c] = stage]
           /\ UNCHANGED <<snap, base, arg, follow>>
  <2>1. OnlyCall(c)  BY <1>4 DEF IndInv, TypeOK, OnlyCall, Stage
  <2>2. pc'[c] = stage /\ base'[c] = base[c] /\ arg'[c] = arg[c]
    BY <1>4 DEF IndInv, TypeOK
  <2>3. arg[c] \in Receipt  BY DEF IndInv, CallInv
  <2>4. QED  BY <1>1, <2>1, <2>2, <2>3 DEF LetsGo, Holding
<1>5. QED  BY <1>2, <1>3, <1>4 DEF Retry

\* A write that the store accepts, and the end of the call that made it.
LEMMA AcceptedWrites ==
  ASSUME IndInv, NEW c \in Calls, NEW next \in Job, pc[c] \in Holding,
         Accepts(c, next), job' = next
  PROVE  Writes(c)
BY DEF Accepts, Writes

\* A call that writes and ends is a good step.
LEMMA SaveAndEndStep ==
  ASSUME IndInv, NEW c \in Calls, NEW next \in Job, pc[c] \in Holding,
         SaveAndEnd(c, next)
  PROVE  GoodStep(c)
<1>1. OnlyCall(c) /\ LetsGo(c)  BY EndStep DEF SaveAndEnd
<1>2. job' = job \/ Writes(c)  BY AcceptedWrites DEF SaveAndEnd
<1>3. QED  BY <1>1, <1>2 DEF GoodStep

\* So is one that writes a transition and ends.
LEMMA MoveAndEndStep ==
  ASSUME IndInv, NEW c \in Calls, NEW j \in Job, NEW to \in Status, pc[c] \in Holding,
         MoveAndEnd(c, j, to)
  PROVE  GoodStep(c)
BY MoveType, SaveAndEndStep DEF MoveAndEnd

\* A request that opens by reading the job.
LEMMA OpenStep ==
  ASSUME IndInv, NEW c \in Clients, NEW stage \in Holding \ AboutReceipt,
         stage \in {"resimulate", "build"} => job.status = "WAITING_FOR_USER",
         Open(c, stage)
  PROVE  GoodStep(c) /\ RestType
<1>1. c \in Calls /\ stage \in Stage
  BY DEF Calls, Stage, Holding, AboutReceipt
<1>2. OnlyCall(c)
  BY <1>1 DEF Open, Start, IndInv, TypeOK, OnlyCall
<1>3. /\ pc'[c] = stage /\ snap'[c] = job /\ base'[c] = base[c] /\ job' = job
      /\ job \in Job
  BY <1>1 DEF Open, Start, IndInv, TypeOK
<1>4. Holds(c)
  BY <1>3 DEF Holds, Holding, AboutReceipt
<1>5. RestType
  BY DEF Open, Start, worldVars, RestType, IndInv, TypeOK
<1>6. QED  BY <1>2, <1>3, <1>4, <1>5 DEF GoodStep

\* Steps that leave the world alone keep its types.
LEMMA RestIsTyped == ASSUME IndInv, Rest PROVE RestType
BY DEF Rest, RestType, worldVars, boundVars, IndInv, TypeOK
-----------------------------------------------------------------------------
(* One lemma per operation of the service.                                 *)

\* analyseIncident: the first write is held on to for the second.
LEMMA AnalyseSteps ==
  ASSUME IndInv, NEW c \in Calls, AnalyseSave(c) \/ AnalyseDone(c)
  PROVE  GoodStep(c) /\ RestType
<1>1. CASE AnalyseSave(c)
  <2> DEFINE supplied == [snap[c] EXCEPT !.incident = TRUE]
             next == Move(supplied, "ANALYSING")
             lands == CanTransition(snap[c].status, "ANALYSING") /\ Accepts(c, next)
  <2>1. pc[c] \in Holding /\ snap[c] \in Job
    BY <1>1 DEF AnalyseSave, Holding, IndInv, CallInv
  <2>2. supplied \in Job  BY <2>1 DEF Job
  <2>3. next \in Job  BY <2>2, MoveType DEF Status
  <2>4. RestType  BY <1>1, RestIsTyped DEF AnalyseSave
  <2>5. CASE ~lands
    <3>1. job' = job /\ End(c)  BY <1>1, <2>5 DEF AnalyseSave
    <3>2. QED  BY <2>4, <3>1, EndStep DEF GoodStep
  <2>6. CASE lands
    <3>1. /\ job' = next
          /\ snap' = [snap EXCEPT ![c] = next]
          /\ pc' = [pc EXCEPT ![c] = "analysing"]
          /\ UNCHANGED <<base, arg, tries, follow>>
      BY <1>1, <2>6 DEF AnalyseSave
    <3>2. Writes(c)  BY <2>1, <2>3, <2>6, <3>1, AcceptedWrites
    <3>3. OnlyCall(c)
      <4> HIDE DEF next
      <4> QED  BY <2>3, <3>1 DEF IndInv, TypeOK, OnlyCall, Stage
    <3>4. Holds(c)
      <4> HIDE DEF next
      <4> QED  BY <2>3, <3>1 DEF Holds, IndInv, TypeOK, AboutReceipt
    <3>5. QED  BY <2>4, <3>2, <3>3, <3>4 DEF GoodStep
  <2>7. QED  BY <2>5, <2>6
<1>2. CASE AnalyseDone(c)
  <2>1. pc[c] \in Holding /\ snap[c] \in Job
    BY <1>2 DEF AnalyseDone, Holding, IndInv, CallInv
  <2>2. [snap[c] EXCEPT !.scan = TRUE] \in Job  BY <2>1 DEF Job
  <2>3. Update([snap[c] EXCEPT !.scan = TRUE]) \in Job  BY <2>2, UpdateType
  <2>4. "FAILED" \in Status  BY DEF Status, Terminal
  <2>5. GoodStep(c)
    BY <1>2, <2>1, <2>3, <2>4, SaveAndEndStep, MoveAndEndStep DEF AnalyseDone
  <2>6. QED  BY <1>2, <2>5, RestIsTyped DEF AnalyseDone
<1>3. QED  BY <1>1, <1>2

\* generatePlan and simulatePlan write once and end.
LEMMA PlanAndSimulateSteps ==
  ASSUME IndInv, NEW c \in Calls, PlanDone(c) \/ SimulateDone(c)
  PROVE  GoodStep(c) /\ RestType
<1>1. pc[c] \in Holding /\ snap[c] \in Job
  BY DEF PlanDone, SimulateDone, Holding, IndInv, CallInv
<1>2. {"FAILED", "PLAN_READY", "WAITING_FOR_USER"} \subseteq Status
  BY DEF Status, Terminal, Active
<1>3. RestType  BY RestIsTyped DEF PlanDone, SimulateDone
<1>4. CASE MoveAndEnd(c, snap[c], "FAILED")
  BY <1>1, <1>2, <1>3, <1>4, MoveAndEndStep
<1>5. CASE MoveAndEnd(c, [snap[c] EXCEPT !.plan = TRUE], "PLAN_READY")
  <2>1. [snap[c] EXCEPT !.plan = TRUE] \in Job  BY <1>1 DEF Job
  <2>2. QED  BY <1>1, <1>2, <1>3, <1>5, <2>1, MoveAndEndStep
<1>6. ASSUME NEW executable \in SUBSET Actions,
             MoveAndEnd(c, [snap[c] EXCEPT !.simulated = TRUE, !.executable = executable],
                        IF executable = {} THEN "FAILED" ELSE "WAITING_FOR_USER")
      PROVE  GoodStep(c)
  <2>1. [snap[c] EXCEPT !.simulated = TRUE, !.executable = executable] \in Job
    BY <1>1 DEF Job
  <2>2. (IF executable = {} THEN "FAILED" ELSE "WAITING_FOR_USER") \in Status
    BY <1>2
  <2>3. QED  BY <1>1, <1>6, <2>1, <2>2, MoveAndEndStep
<1>7. QED  BY <1>3, <1>4, <1>5, <1>6 DEF PlanDone, SimulateDone

\* getDashboardUrl and monitorRescue write once and end.
LEMMA DashboardAndMonitorSteps ==
  ASSUME IndInv, NEW c \in Calls, DashboardSave(c) \/ MonitorDone(c)
  PROVE  GoodStep(c) /\ RestType
<1>1. pc[c] \in Holding /\ snap[c] \in Job
  BY DEF DashboardSave, MonitorDone, Holding, IndInv, CallInv
<1>2. RestType  BY RestIsTyped DEF DashboardSave, MonitorDone
<1>3. [snap[c] EXCEPT !.done = {}, !.seen = {}] \in Job  BY <1>1 DEF Job
<1>4. "FAILED" \in Status  BY DEF Status, Terminal
<1>5. CASE SaveAndEnd(c, Update(snap[c]))
  BY <1>1, <1>2, <1>5, UpdateType, SaveAndEndStep
<1>6. CASE SaveAndEnd(c, Update([snap[c] EXCEPT !.done = {}, !.seen = {}]))
  BY <1>1, <1>2, <1>3, <1>6, UpdateType, SaveAndEndStep
<1>7. CASE MoveAndEnd(c, snap[c], "FAILED")
  BY <1>1, <1>2, <1>4, <1>7, MoveAndEndStep
<1>8. QED  BY <1>5, <1>6, <1>7 DEF DashboardSave, MonitorDone

\* The refreshed simulation is held on to for the build.
LEMMA ResimulateStep ==
  ASSUME IndInv, NEW c \in Calls, Resimulate(c)
  PROVE  GoodStep(c) /\ RestType
<1>1. /\ pc[c] \in Holding /\ snap[c] \in Job
      /\ snap[c].status = "WAITING_FOR_USER"
  BY DEF Resimulate, Holding, IndInv, CallInv
<1>2. RestType  BY RestIsTyped DEF Resimulate
<1>3. PICK executable \in SUBSET Actions :
        LET next == Update([snap[c] EXCEPT !.executable = executable])
        IN \/ /\ executable # {} /\ Accepts(c, next)
              /\ job' = next
              /\ snap' = [snap EXCEPT ![c] = next]
              /\ pc' = [pc EXCEPT ![c] = "build"]
              /\ UNCHANGED <<base, arg, tries, follow>>
           \/ UNCHANGED job /\ End(c)
  BY DEF Resimulate
<1> DEFINE patched == [snap[c] EXCEPT !.executable = executable]
           next == Update(patched)
<1>4. patched \in Job /\ patched.status = "WAITING_FOR_USER"  BY <1>1 DEF Job
<1>5. next \in Job /\ next.status = "WAITING_FOR_USER"
  <2>1. next \in Job  BY <1>4, UpdateType
  <2>2. QED
    <3> HIDE DEF patched
    <3> QED  BY <1>4, <2>1 DEF Update, Job
<1>6. CASE UNCHANGED job /\ End(c)  BY <1>2, <1>6, EndStep DEF GoodStep
<1>7. CASE /\ Accepts(c, next)
           /\ job' = next
           /\ snap' = [snap EXCEPT ![c] = next]
           /\ pc' = [pc EXCEPT ![c] = "build"]
           /\ UNCHANGED <<base, arg, tries, follow>>
  <2> HIDE DEF next
  <2>1. Writes(c)  BY <1>1, <1>5, <1>7, AcceptedWrites
  <2>2. OnlyCall(c)  BY <1>5, <1>7 DEF IndInv, TypeOK, OnlyCall, Stage
  <2>3. Holds(c)  BY <1>5, <1>7 DEF Holds, IndInv, TypeOK, AboutReceipt
  <2>4. QED  BY <1>2, <2>1, <2>2, <2>3 DEF GoodStep
<1>8. QED  BY <1>3, <1>6, <1>7

\* A build replaces the packages by well-formed ones and ends.
LEMMA BuildStep ==
  ASSUME IndInv, NEW c \in Calls, Build(c)
  PROVE  GoodStep(c) /\ RestType
<1>1. pc[c] \in Holding /\ snap[c] \in Job
  BY DEF Build, Holding, IndInv, CallInv
<1>2. PICK built \in SUBSET snap[c].executable :
        LET list == {[issue |-> issues + 1, action |-> a] : a \in built}
            next == Update([snap[c] EXCEPT !.pkgs = list])
        IN \/ /\ Accepts(c, next)
              /\ job' = next
              /\ delivered' = delivered \cup list
              /\ issues' = issues + 1
           \/ UNCHANGED <<job, delivered, issues>>
  BY DEF Build
<1> DEFINE list == {[issue |-> issues + 1, action |-> a] : a \in built}
           next == Update([snap[c] EXCEPT !.pkgs = list])
<1>3. list \in SUBSET Package
  <2>1. built \in SUBSET Actions /\ issues + 1 \in Nat
    BY <1>1 DEF Job, IndInv, TypeOK
  <2>2. QED  BY <2>1 DEF Package
<1>4. next \in Job
  <2> HIDE DEF list
  <2>1. [snap[c] EXCEPT !.pkgs = list] \in Job  BY <1>1, <1>3 DEF Job
  <2>2. QED  BY <2>1, UpdateType
<1>5. OnlyCall(c) /\ LetsGo(c)  BY EndStep DEF Build
<1>6. job' = job \/ Writes(c)  BY <1>1, <1>2, <1>4, AcceptedWrites
<1>7. RestType
  <2>1. /\ delivered' = delivered \cup list \/ delivered' = delivered
        /\ issues' = issues + 1 \/ issues' = issues
    BY <1>2
  <2>2. UNCHANGED <<worldVars, starts, faults>>  BY DEF Build
  <2> HIDE DEF list
  <2>3. QED  BY <1>3, <2>1, <2>2 DEF RestType, worldVars, IndInv, TypeOK
<1>8. QED  BY <1>5, <1>6, <1>7 DEF GoodStep
\* A call about a receipt that reads the job and goes on holding it.
LEMMA ReadStep ==
  ASSUME IndInv, NEW c \in Calls, pc[c] \in AboutReceipt,
         NEW stage \in {"registering", "verifying", "confirm", "mark"},
         stage = "verifying" => job.status \in Active /\ arg[c].pkg \in job.pkgs,
         stage = "confirm" => arg[c].pkg.action \in job.done /\ arg[c].hash \in job.seen,
         Read(c, stage), UNCHANGED <<base, arg, tries, follow>>
  PROVE  GoodStep(c)
<1>1. /\ pc'[c] = stage /\ snap'[c] = job /\ base'[c] = base[c] /\ arg'[c] = arg[c]
      /\ job' = job /\ job \in Job /\ arg[c] \in Receipt
  BY DEF Read, IndInv, TypeOK, CallInv
<1>2. OnlyCall(c)  BY DEF Read, IndInv, TypeOK, OnlyCall, Stage
<1>3. Holds(c)  BY <1>1 DEF Holds, AboutReceipt
<1>4. QED  BY <1>1, <1>2, <1>3 DEF GoodStep

\* registerBuyerReceipt: read, then write, or give up.
LEMMA RegisterSteps ==
  ASSUME IndInv, NEW c \in Calls, RegisterRead(c) \/ RegisterSave(c)
  PROVE  GoodStep(c) /\ RestType
<1>1. pc[c] \in AboutReceipt  BY DEF RegisterRead, RegisterSave, AboutReceipt
<1>2. RestType  BY RestIsTyped DEF RegisterRead, RegisterSave
<1>3. follow[c] \in Nat /\ arg[c] \in Receipt
  BY <1>1 DEF IndInv, TypeOK, CallInv
<1>4. CASE RegisterRead(c)
  <2>1. CASE Read(c, "registering") /\ UNCHANGED <<base, arg, tries, follow>>
    BY <1>1, <1>2, <2>1, ReadStep
  <2>2. CASE Reconcile(c, follow[c]) /\ UNCHANGED job
    BY <1>1, <1>2, <1>3, <2>2, ReconcileStep DEF GoodStep
  <2>3. CASE UNCHANGED job /\ End(c)
    BY <1>2, <2>3, EndStep DEF GoodStep
  <2>4. QED  BY <1>4, <2>1, <2>2, <2>3 DEF RegisterRead
<1>5. CASE RegisterSave(c)
  <2> DEFINE pending == [hash |-> arg[c].hash, pkg |-> arg[c].pkg, status |-> "PENDING"]
             patched == [snap[c] EXCEPT !.subs = @ \cup {pending}]
             next == Update(patched)
  <2>1. pc[c] \in Holding /\ snap[c] \in Job
    BY <1>5 DEF RegisterSave, Holding, IndInv, CallInv
  <2>2. pending \in Submission  BY <1>3 DEF Receipt, Submission, SubmissionStatus
  <2>3. next \in Job
    <3>1. snap[c].subs \cup {pending} \in SUBSET Submission  BY <2>1, <2>2 DEF Job
    <3>2. patched \in Job
      <4> HIDE DEF pending
      <4> QED  BY <2>1, <3>1 DEF Job
    <3>3. QED  BY <3>2, UpdateType
  <2>4. CASE Accepts(c, next) /\ job' = next /\ Reconcile(c, follow[c])
    <3>1. Writes(c)  BY <2>1, <2>3, <2>4, AcceptedWrites
    <3>2. QED  BY <1>1, <1>2, <1>3, <2>4, <3>1, ReconcileStep DEF GoodStep
  <2>5. CASE Retry(c, "register")
    BY <1>1, <1>2, <2>5, RetryStep DEF GoodStep
  <2>6. QED  BY <1>5, <2>4, <2>5 DEF RegisterSave
<1>6. QED  BY <1>4, <1>5

\* reconcileBuyerReceiptSubmission: its outer read is remembered.
LEMMA ReconcileReadStep ==
  ASSUME IndInv, NEW c \in Calls, ReconcileRead(c)
  PROVE  GoodStep(c) /\ RestType
<1>1. /\ pc[c] \in AboutReceipt /\ job' = job /\ job \in Job
  BY DEF ReconcileRead, AboutReceipt, IndInv, TypeOK
<1>2. RestType  BY RestIsTyped DEF ReconcileRead
<1>3. CASE End(c)  BY <1>1, <1>2, <1>3, EndStep DEF GoodStep
<1>4. CASE Throw(c)  BY <1>1, <1>2, <1>4, ThrowStep DEF GoodStep
<1>5. CASE /\ base' = [base EXCEPT ![c] = job]
           /\ pc' = [pc EXCEPT ![c] = "report"]
           /\ UNCHANGED <<snap, arg, tries, follow>>
  <2>1. OnlyCall(c)  BY <1>1, <1>5 DEF IndInv, TypeOK, OnlyCall, Stage
  <2>2. arg[c] \in Receipt  BY <1>1 DEF IndInv, CallInv
  <2>3. LetsGo(c)  BY <1>1, <1>5, <2>2 DEF LetsGo, Holding, IndInv, TypeOK
  <2>4. QED  BY <1>1, <1>2, <2>1, <2>3 DEF GoodStep
<1>6. QED  BY <1>3, <1>4, <1>5 DEF ReconcileRead

\* recordBuyerExecutionReport: the read that precedes the verifier.
LEMMA ReportReadStep ==
  ASSUME IndInv, NEW c \in Calls, ReportRead(c)
  PROVE  GoodStep(c) /\ RestType
<1>1. pc[c] \in AboutReceipt  BY DEF ReportRead, AboutReceipt
<1>2. RestType  BY RestIsTyped DEF ReportRead
<1>3. CASE /\ job.status \in Active /\ arg[c].pkg \in job.pkgs
           /\ Read(c, "verifying") /\ UNCHANGED <<base, arg, tries, follow>>
  BY <1>1, <1>2, <1>3, ReadStep
<1>4. CASE /\ ExactRetry(c)
           /\ Read(c, "confirm") /\ UNCHANGED <<base, arg, tries, follow>>
  <2>1. arg[c].pkg.action \in job.done /\ arg[c].hash \in job.seen
    BY <1>4 DEF ExactRetry
  <2>2. QED  BY <2>1, <1>1, <1>2, <1>4, ReadStep
<1>5. CASE UNCHANGED job /\ End(c)  BY <1>2, <1>5, EndStep DEF GoodStep
<1>6. CASE UNCHANGED job /\ Throw(c)  BY <1>1, <1>2, <1>6, ThrowStep DEF GoodStep
<1>7. QED  BY <1>3, <1>4, <1>5, <1>6 DEF ReportRead

\* The confirmation of an exact retry is written over what was read.
LEMMA ConfirmSaveStep ==
  ASSUME IndInv, NEW c \in Calls, ConfirmSave(c)
  PROVE  GoodStep(c) /\ RestType
<1> DEFINE confirmed == Confirmed(snap[c], arg[c])
           patched == [snap[c] EXCEPT !.subs = confirmed]
           next == Update(patched)
<1>1. /\ pc[c] \in AboutReceipt /\ pc[c] \in Holding
      /\ snap[c] \in Job /\ arg[c] \in Receipt
  BY DEF ConfirmSave, AboutReceipt, Holding, IndInv, CallInv
<1>2. RestType  BY RestIsTyped DEF ConfirmSave
<1>3. next \in Job
  <2>1. confirmed \in SUBSET Submission  BY <1>1, ConfirmedType
  <2>2. patched \in Job
    <3> HIDE DEF confirmed
    <3> QED  BY <1>1, <2>1 DEF Job
  <2>3. QED  BY <2>2, UpdateType
<1>4. CASE Accepts(c, next) /\ job' = next /\ End(c)
  <2>1. Writes(c)  BY <1>1, <1>3, <1>4, AcceptedWrites
  <2>2. QED  BY <1>2, <1>4, <2>1, EndStep DEF GoodStep
<1>5. CASE Retry(c, "report")  BY <1>1, <1>2, <1>5, RetryStep DEF GoodStep
<1>6. QED  BY <1>4, <1>5 DEF ConfirmSave

\* A verified report is written over what was read; a refused one goes on
\* to the mark with the outer read.
LEMMA ReportVerifyStep ==
  ASSUME IndInv, NEW c \in Calls, ReportVerify(c)
  PROVE  GoodStep(c) /\ RestType
<1> DEFINE next == Reported(snap[c], arg[c])
<1>1. /\ pc[c] \in AboutReceipt /\ pc[c] \in Holding
      /\ snap[c] \in Job /\ arg[c] \in Receipt
  BY DEF ReportVerify, AboutReceipt, Holding, IndInv, CallInv
<1>2. RestType  BY RestIsTyped DEF ReportVerify
<1>3. next \in Job  BY <1>1, ReportedType
<1>4. CASE Accepts(c, next) /\ job' = next /\ End(c)
  <2>1. Writes(c)  BY <1>1, <1>3, <1>4, AcceptedWrites
  <2>2. QED  BY <1>2, <1>4, <2>1, EndStep DEF GoodStep
<1>5. CASE Retry(c, "report")  BY <1>1, <1>2, <1>5, RetryStep DEF GoodStep
<1>6. CASE /\ base[c] # NoJob
           /\ snap' = [snap EXCEPT ![c] = base[c]]
           /\ tries' = [tries EXCEPT ![c] = 0]
           /\ pc' = [pc EXCEPT ![c] = "mark"]
           /\ UNCHANGED <<job, base, arg, follow>>
  <2>1. base[c] \in Job  BY <1>6 DEF IndInv, TypeOK
  <2>2. OnlyCall(c)  BY <1>6, <2>1 DEF IndInv, TypeOK, OnlyCall, Stage
  <2>3. Holds(c)  BY <1>1, <1>6, <2>1 DEF Holds, IndInv, TypeOK
  <2>4. QED  BY <1>2, <1>6, <2>2, <2>3 DEF GoodStep
<1>7. CASE UNCHANGED job /\ StillPending(c)
  BY <1>1, <1>2, <1>7, StillPendingStep DEF GoodStep
<1>8. QED
  <2> HIDE DEF next
  <2>1. \/ Accepts(c, Reported(snap[c], arg[c]))
           /\ job' = Reported(snap[c], arg[c]) /\ End(c)
        \/ Retry(c, "report")
        \/ /\ base[c] # NoJob
           /\ snap' = [snap EXCEPT ![c] = base[c]]
           /\ tries' = [tries EXCEPT ![c] = 0]
           /\ pc' = [pc EXCEPT ![c] = "mark"]
           /\ UNCHANGED <<job, base, arg, follow>>
        \/ UNCHANGED job /\ StillPending(c)
    BY DEF ReportVerify
  <2>2. QED  BY <1>4, <1>5, <1>6, <1>7, <2>1 DEF next

\* setReceiptSubmissionStatus: write, or read again after a conflict.
LEMMA MarkSteps ==
  ASSUME IndInv, NEW c \in Calls, MarkSave(c) \/ MarkRead(c)
  PROVE  GoodStep(c) /\ RestType
<1>1. pc[c] \in AboutReceipt  BY DEF MarkSave, MarkRead, AboutReceipt
<1>2. RestType  BY RestIsTyped DEF MarkSave, MarkRead
<1>3. CASE MarkRead(c)  BY <1>1, <1>2, <1>3, ReadStep DEF MarkRead
<1>4. CASE MarkSave(c)
  <2>1. PICK v \in {"REVERTED", "REJECTED"} :
          LET next == Update(Marked(snap[c], arg[c], v))
          IN \/ Accepts(c, next) /\ job' = next /\ End(c)
             \/ Retry(c, "remark")
    BY <1>4 DEF MarkSave
  <2>2. pc[c] \in Holding /\ snap[c] \in Job /\ arg[c] \in Receipt
    BY <1>1, <1>4 DEF MarkSave, Holding, IndInv, CallInv
  <2>3. Update(Marked(snap[c], arg[c], v)) \in Job
    BY <2>2, MarkedType, UpdateType
  <2>4. CASE Retry(c, "remark")  BY <1>1, <1>2, <2>4, RetryStep DEF GoodStep
  <2>5. CASE /\ Accepts(c, Update(Marked(snap[c], arg[c], v)))
             /\ job' = Update(Marked(snap[c], arg[c], v)) /\ End(c)
    <3>1. Writes(c)  BY <2>2, <2>3, <2>5, AcceptedWrites
    <3>2. QED  BY <1>2, <2>5, <3>1, EndStep DEF GoodStep
  <2>6. QED  BY <2>1, <2>4, <2>5
<1>5. QED  BY <1>3, <1>4
\* Requests that only read, check and suspend.
LEMMA RequestSteps ==
  ASSUME IndInv, NEW c \in Clients, Request(c)
  PROVE  \/ GoodStep(c) /\ RestType
         \/ UNCHANGED <<job, callVars>> /\ RestType
<1>1. c \in Calls  BY DEF Calls
<1>2. CASE AnalyseRead(c) \/ PlanRead(c) \/ SimulateRead(c) \/ DashboardRead(c)
           \/ MonitorRead(c)
  <2>1. \E stage \in {"analyse", "plan", "simulate", "dashboard", "monitor"} : Open(c, stage)
    BY <1>2 DEF AnalyseRead, PlanRead, SimulateRead, DashboardRead, MonitorRead
  <2>2. {"analyse", "plan", "simulate", "dashboard", "monitor"} \subseteq
          (Holding \ AboutReceipt) \ {"resimulate", "build"}
    BY DEF Holding, AboutReceipt
  <2>3. QED  BY <2>1, <2>2, OpenStep
<1>3. CASE SigningRead(c)
  <2>1. /\ job.status = "WAITING_FOR_USER"
        /\ \E stage \in {"resimulate", "build"} : Open(c, stage)
    BY <1>3 DEF SigningRead
  <2>2. {"resimulate", "build"} \subseteq Holding \ AboutReceipt
    BY DEF Holding, AboutReceipt
  <2>3. QED  BY <2>1, <2>2, OpenStep
<1>4. CASE SigningReturn(c)
  <2>1. job.pkgs \subseteq Package  BY DEF IndInv, TypeOK, Job
  <2>2. RestType  BY <1>4, <2>1 DEF SigningReturn, RestType, worldVars, IndInv, TypeOK
  <2>3. QED  BY <1>4, <2>2 DEF SigningReturn
<1>5. ASSUME NEW r \in Receipts, RouteCheck(c, r) \/ ReportStart(c, r)
      PROVE  GoodStep(c) /\ RestType
  <2>1. r \in Receipt  BY DEF Receipts, Receipt, IndInv, TypeOK
  <2>2. MaxFollowUps + 1 \in Nat  BY BoundAssumption
  <2>3. /\ job' = job /\ snap' = snap /\ base' = base /\ tries' = tries
        /\ arg' = [arg EXCEPT ![c] = r]
        /\ follow' \in [Calls -> Nat]
        /\ \E stage \in {"register", "report"} : pc' = [pc EXCEPT ![c] = stage]
    BY <1>5, <2>2 DEF RouteCheck, ReportStart, Start, IndInv, TypeOK
  <2>4. OnlyCall(c)  BY <2>1, <2>3 DEF OnlyCall, IndInv, TypeOK, Stage
  <2>5. LetsGo(c)  BY <1>1, <2>1, <2>3 DEF LetsGo, Holding, IndInv, TypeOK
  <2>6. RestType
    BY <1>5 DEF RouteCheck, ReportStart, Start, RestType, worldVars, IndInv, TypeOK
  <2>7. QED  BY <2>3, <2>4, <2>5, <2>6 DEF GoodStep
<1>6. QED  BY <1>2, <1>3, <1>4, <1>5 DEF Request

\* Every resumed call makes a good step.
LEMMA ResumeSteps ==
  ASSUME IndInv, NEW c \in Calls, Resume(c)
  PROVE  GoodStep(c) /\ RestType
BY AnalyseSteps, PlanAndSimulateSteps, DashboardAndMonitorSteps, ResimulateStep,
   BuildStep, RegisterSteps, ReconcileReadStep, ReportReadStep, ConfirmSaveStep,
   ReportVerifyStep, MarkSteps
   DEF Resume

\* The schedule only takes up a receipt.
LEMMA CronPickStep ==
  ASSUME IndInv, NEW r \in Receipts, CronPick(r)
  PROVE  GoodStep(Cron) /\ RestType
<1>1. Cron \in Calls  BY DEF Calls
<1>2. r \in Receipt  BY DEF Receipts, Receipt, IndInv, TypeOK
<1>3. /\ job' = job /\ snap' = snap /\ base' = base /\ tries' = tries
      /\ follow' = follow
      /\ arg' = [arg EXCEPT ![Cron] = r]
      /\ pc' = [pc EXCEPT ![Cron] = "reconcile"]
  BY DEF CronPick
<1>4. OnlyCall(Cron)  BY <1>2, <1>3 DEF OnlyCall, IndInv, TypeOK, Stage
<1>5. LetsGo(Cron)  BY <1>1, <1>2, <1>3 DEF LetsGo, Holding, IndInv, TypeOK
<1>6. RestType  BY RestIsTyped DEF CronPick
<1>7. QED  BY <1>3, <1>4, <1>5, <1>6 DEF GoodStep

\* A killed call leaves nothing behind.
LEMMA CrashStep ==
  ASSUME IndInv, NEW c \in Calls, Crash(c)
  PROVE  GoodStep(c) /\ RestType
<1>1. job' = job /\ End(c)  BY DEF Crash
<1>2. RestType  BY DEF Crash, RestType, worldVars, IndInv, TypeOK
<1>3. QED  BY <1>1, <1>2, EndStep DEF GoodStep

\* The world never touches the document or a call.
LEMMA WorldSteps ==
  ASSUME IndInv, World
  PROVE  UNCHANGED <<job, callVars>> /\ RestType
<1>1. ASSUME NEW r \in Receipts, NEW v \in Verdict, Broadcast(r) \/ Finalise(r, v)
      PROVE  UNCHANGED <<job, callVars>> /\ RestType
  <2>1. Tx(r, v) \in Transaction /\ Tx(r, "SEEN") \in Transaction
    BY DEF Receipts, Tx, Transaction, Verdict, IndInv, TypeOK
  <2>2. txs' \subseteq Transaction
    BY <1>1, <2>1 DEF Broadcast, Finalise, IndInv, TypeOK
  <2>3. QED
    BY <1>1, <2>2 DEF Broadcast, Finalise, RestType, boundVars, IndInv, TypeOK
<1>2. ASSUME NEW p \in delivered, Expire(p)
      PROVE  UNCHANGED <<job, callVars>> /\ RestType
  BY <1>2 DEF Expire, RestType, boundVars, IndInv, TypeOK
<1>3. Verdict # {}  BY DEF Verdict
<1>4. QED  BY <1>1, <1>2, <1>3 DEF World

\* What touches neither document nor call keeps the invariant.
LEMMA StutterKeepsInv ==
  ASSUME IndInv, UNCHANGED <<job, callVars>>, RestType
  PROVE  IndInv'
BY DEF IndInv, TypeOK, CallInv, SnapshotCurrency, callVars, RestType

-----------------------------------------------------------------------------
(* The theorems.                                                           *)

\* A new job satisfies the invariant.
LEMMA InitInv == Init => IndInv
<1> SUFFICES ASSUME Init PROVE IndInv  OBVIOUS
<1>1. NewJob(TRUE) \in Job /\ NewJob(FALSE) \in Job
  BY DEF NewJob, Job, Status
<1>2. TypeOK  BY <1>1 DEF Init, Quiet, Unengaged, TypeOK, Stage
<1>3. CallInv  BY DEF Init, Quiet, Unengaged, CallInv, Holding, AboutReceipt
<1>4. SnapshotCurrency  BY DEF Init, Quiet, Unengaged, SnapshotCurrency, Holding
<1>5. QED  BY <1>2, <1>3, <1>4 DEF IndInv

\* The invariant is inductive.
LEMMA NextInv == IndInv /\ [Next]_vars => IndInv'
<1> SUFFICES ASSUME IndInv, [Next]_vars PROVE IndInv'  OBVIOUS
<1>1. CASE UNCHANGED vars
  <2>1. RestType  BY <1>1 DEF vars, RestType, IndInv, TypeOK
  <2>2. QED  BY <1>1, <2>1, StutterKeepsInv DEF vars, callVars
<1>2. ASSUME NEW c \in Clients, Request(c) PROVE IndInv'
  <2>1. c \in Calls  BY DEF Calls
  <2>2. QED  BY <1>2, <2>1, RequestSteps, GoodStepKeepsInv, StutterKeepsInv
<1>3. ASSUME NEW r \in Receipts, CronPick(r) PROVE IndInv'
  <2>1. Cron \in Calls  BY DEF Calls
  <2>2. QED  BY <1>3, <2>1, CronPickStep, GoodStepKeepsInv
<1>4. ASSUME NEW c \in Calls, Resume(c) \/ Crash(c) PROVE IndInv'
  BY <1>4, ResumeSteps, CrashStep, GoodStepKeepsInv
<1>5. CASE World  BY <1>5, WorldSteps, StutterKeepsInv
<1>6. QED  BY <1>1, <1>2, <1>3, <1>4, <1>5 DEF Next

\* IndInv holds in every reachable state, for every interleaving of calls.
THEOREM Invariance == Spec => []IndInv
<1>1. Init => IndInv  BY InitInv
<1>2. IndInv /\ [Next]_vars => IndInv'  BY NextInv
<1>3. QED  BY <1>1, <1>2, PTL DEF Spec

\* Every variable keeps its type under every interleaving of calls.
THEOREM TypeCorrect == Spec => []TypeOK
<1>1. IndInv => TypeOK  BY DEF IndInv
<1>2. QED  BY <1>1, Invariance, PTL

\* No write computed from a stale read can pass the store's revision test.
THEOREM SnapshotsAreCurrent == Spec => []SnapshotCurrency
<1>1. IndInv => SnapshotCurrency  BY DEF IndInv
<1>2. QED  BY <1>1, Invariance, PTL

-----------------------------------------------------------------------------
(* The five ways a stored document n can replace a document j.  Only the    *)
(* last touches the packages.                                              *)

Preparing == Status \ (Active \cup Terminal)

\* Nothing about receipts changes; the lifecycle may advance or fail.
Prepares(j, n) ==
  /\ n.pkgs = j.pkgs /\ n.done = j.done /\ n.seen = j.seen /\ n.subs = j.subs
  /\ \/ n.status = j.status
     \/ n.status = "FAILED" /\ j.status \notin Terminal
     \/ j.status \in Preparing /\ n.status \in Preparing \cup {"WAITING_FOR_USER"}

\* The monitor's answer replaces what was observed before.
Resets(j, n) ==
  /\ j.status = "WAITING_FOR_USER" /\ n.status = j.status
  /\ n.pkgs = j.pkgs /\ n.done = {} /\ n.seen = {} /\ n.subs = j.subs

\* A submission is added, confirmed or marked.
Files(j, n) ==
  /\ n.status = j.status /\ n.pkgs = j.pkgs /\ n.done = j.done /\ n.seen = j.seen
  /\ \E d \in Calls :
       /\ pc[d] \in AboutReceipt /\ arg[d] \in Receipt
       /\ \/ n.subs = j.subs \cup {[hash |-> arg[d].hash, pkg |-> arg[d].pkg,
                                    status |-> "PENDING"]}
          \/ /\ arg[d].hash \in j.seen
             /\ n.subs = Confirmed(j, arg[d])
          \/ \E v \in {"REVERTED", "REJECTED"} :
               Tx(arg[d], v) \in txs /\ n.subs = Marked(j, arg[d], v).subs

\* A verified receipt.
Verifies(j, n) ==
  \E r \in Receipt : /\ j.status \in Active /\ r.pkg \in j.pkgs
                     /\ Tx(r, "SUCCESS") \in txs
                     /\ n = Reported(j, r)

\* A call that read this very document replaces the packages of a waiting job
\* by a new issue, and hands it out.
IssueOf(built) == {[issue |-> issues + 1, action |-> a] : a \in built}
Issues(j, n) ==
  /\ j.status = "WAITING_FOR_USER" /\ n.status = j.status
  /\ n.done = j.done /\ n.seen = j.seen /\ n.subs = j.subs
  /\ \E c \in Calls : pc[c] = "build" /\ snap[c] = j
  /\ \E built \in SUBSET Actions : n.pkgs = IssueOf(built)
  /\ delivered' = delivered \cup n.pkgs

Changes(j, n) == \/ Prepares(j, n) \/ Resets(j, n) \/ Files(j, n) \/ Verifies(j, n)
                 \/ Issues(j, n)

-----------------------------------------------------------------------------
\* updateJob and transitionJob leave every other field alone.
LEMMA UpdateKeeps ==
  ASSUME NEW j \in Job
  PROVE  /\ Update(j).status = j.status /\ Update(j).pkgs = j.pkgs
         /\ Update(j).done = j.done /\ Update(j).seen = j.seen
         /\ Update(j).subs = j.subs
BY DEF Update, Job

\* As UpdateKeeps, for a transition.
LEMMA MoveKeeps ==
  ASSUME NEW j \in Job, NEW to \in Status
  PROVE  /\ Move(j, to).status = to /\ Move(j, to).pkgs = j.pkgs
         /\ Move(j, to).done = j.done /\ Move(j, to).seen = j.seen
         /\ Move(j, to).subs = j.subs
<1> DEFINE moved == [j EXCEPT !.status = to]
<1>1. /\ moved \in Job /\ moved.status = to /\ moved.pkgs = j.pkgs
      /\ moved.done = j.done /\ moved.seen = j.seen /\ moved.subs = j.subs
  BY SMTT(60) DEF Job
<1>2. Update(moved).status = to
  <2> HIDE DEF moved
  <2> QED  BY <1>1, UpdateKeeps
<1>3. QED
  <2>1. Move(j, to) = Update(moved)  BY DEF Move
  <2> HIDE DEF moved
  <2>2. QED  BY <1>1, <1>2, <2>1, UpdateKeeps

\* The store accepts a write only over the very document the call holds.
LEMMA AcceptedIsCurrent ==
  ASSUME IndInv, NEW c \in Calls, NEW next, pc[c] \in Holding, Accepts(c, next)
  PROVE  snap[c] = job /\ job \in Job
BY DEF IndInv, TypeOK, SnapshotCurrency, Accepts

\* A transition the graph allows prepares the job or fails it.
LEMMA MoveAndEndChange ==
  ASSUME IndInv, NEW c \in Calls, pc[c] \in Holding,
         NEW j \in Job, NEW to \in {"FAILED", "PLAN_READY", "WAITING_FOR_USER"},
         j.status = snap[c].status, j.done = snap[c].done, j.seen = snap[c].seen,
         j.subs = snap[c].subs, j.pkgs = snap[c].pkgs,
         MoveAndEnd(c, j, to)
  PROVE  job' = job \/ Prepares(job, job')
<1>1. CASE job' = job  BY <1>1
<1>2. CASE Accepts(c, Move(j, to)) /\ job' = Move(j, to)
  <2>1. snap[c] = job /\ job \in Job  BY <1>2, AcceptedIsCurrent
  <2>2. to \in Status  BY DEF Status, Active, Terminal
  <2>3. /\ job'.status = to /\ job'.done = job.done /\ job'.seen = job.seen
        /\ job'.subs = job.subs /\ job'.pkgs = job.pkgs
    BY <1>2, <2>1, <2>2, MoveKeeps
  <2>4. job.status \in Status /\ to \in Allowed[job.status]
    BY <2>1 DEF MoveAndEnd, CanTransition, Job
  <2>5. to = "FAILED" => job.status \notin Terminal
    BY <2>4 DEF Allowed, Status, Terminal, Verified, Active
  <2>6. to = "PLAN_READY" => job.status = "ANALYSING"
    BY <2>4 DEF Allowed, Status, Terminal, Verified, Active
  <2>7. to = "WAITING_FOR_USER" => job.status = "PLAN_READY"
    BY <2>4 DEF Allowed, Status, Terminal, Verified, Active
  <2>8. {"ANALYSING", "PLAN_READY"} \subseteq Preparing
    BY DEF Preparing, Status, Active, Terminal, Verified
  <2>9. QED  BY <2>3, <2>5, <2>6, <2>7, <2>8 DEF Prepares
<1>3. QED  BY <1>1, <1>2 DEF MoveAndEnd, SaveAndEnd

\* A write that keeps status, packages and all about receipts.
LEMMA SaveAndEndChange ==
  ASSUME IndInv, NEW c \in Calls, pc[c] \in Holding, NEW j \in Job,
         j.status = snap[c].status, j.pkgs = snap[c].pkgs, j.done = snap[c].done,
         j.seen = snap[c].seen, j.subs = snap[c].subs,
         SaveAndEnd(c, Update(j))
  PROVE  job' = job \/ Prepares(job, job')
<1>1. CASE job' = job  BY <1>1
<1>2. CASE Accepts(c, Update(j)) /\ job' = Update(j)
  <2>1. snap[c] = job /\ job \in Job  BY <1>2, AcceptedIsCurrent
  <2>2. QED  BY <1>2, <2>1, UpdateKeeps DEF Prepares
<1>3. QED  BY <1>1, <1>2 DEF SaveAndEnd

-----------------------------------------------------------------------------
\* analyseIncident moves an unanalysed job to ANALYSING, then adds its scan.
LEMMA AnalyseChange ==
  ASSUME IndInv, NEW c \in Calls, AnalyseSave(c) \/ AnalyseDone(c)
  PROVE  job' = job \/ Changes(job, job')
<1>1. pc[c] \in Holding /\ snap[c] \in Job
  BY DEF AnalyseSave, AnalyseDone, Holding, IndInv, CallInv
<1>2. CASE AnalyseSave(c) /\ job' # job
  <2> DEFINE supplied == [snap[c] EXCEPT !.incident = TRUE]
  <2>1. /\ CanTransition(snap[c].status, "ANALYSING")
        /\ Accepts(c, Move(supplied, "ANALYSING"))
        /\ job' = Move(supplied, "ANALYSING")
    BY <1>2 DEF AnalyseSave
  <2>2. /\ supplied \in Job /\ supplied.done = snap[c].done
        /\ supplied.seen = snap[c].seen /\ supplied.subs = snap[c].subs
        /\ supplied.pkgs = snap[c].pkgs
    BY <1>1 DEF Job
  <2>3. snap[c] = job  BY <1>1, <2>1, AcceptedIsCurrent
  <2>4. "ANALYSING" \in Status /\ "ANALYSING" \in Preparing
    BY DEF Preparing, Status, Active, Terminal, Verified
  <2>5. job.status \in {"RECEIVED", "WAITING_FOR_SOURCE"}
    BY <1>1, <2>1, <2>3 DEF CanTransition, Allowed, Job, Status, Active, Terminal, Verified
  <2>6. job.status \in Preparing
    BY <2>5 DEF Preparing, Status, Active, Terminal, Verified
  <2>7. /\ job'.status = "ANALYSING" /\ job'.pkgs = job.pkgs
        /\ job'.done = job.done /\ job'.seen = job.seen /\ job'.subs = job.subs
    <3> HIDE DEF supplied
    <3> QED  BY <2>1, <2>2, <2>3, <2>4, MoveKeeps
  <2>8. QED  BY <2>4, <2>6, <2>7 DEF Prepares, Changes
<1>3. CASE AnalyseDone(c)
  <2> DEFINE scanned == [snap[c] EXCEPT !.scan = TRUE]
  <2>1. /\ scanned \in Job /\ scanned.status = snap[c].status
        /\ scanned.pkgs = snap[c].pkgs /\ scanned.done = snap[c].done
        /\ scanned.seen = snap[c].seen /\ scanned.subs = snap[c].subs
    BY <1>1 DEF Job
  <2>2. CASE SaveAndEnd(c, Update(scanned))
    <3> HIDE DEF scanned
    <3> QED  BY <1>1, <2>1, <2>2, SaveAndEndChange DEF Changes
  <2>3. CASE MoveAndEnd(c, snap[c], "FAILED")
    BY <1>1, <2>3, MoveAndEndChange DEF Changes
  <2>4. QED  BY <1>3, <2>2, <2>3 DEF AnalyseDone
<1>4. QED  BY <1>2, <1>3

\* Planning and simulating move the job one rung, or fail it.
LEMMA PlanAndSimulateChange ==
  ASSUME IndInv, NEW c \in Calls, PlanDone(c) \/ SimulateDone(c)
  PROVE  job' = job \/ Changes(job, job')
<1>1. pc[c] \in Holding /\ snap[c] \in Job
  BY DEF PlanDone, SimulateDone, Holding, IndInv, CallInv
<1>2. CASE MoveAndEnd(c, snap[c], "FAILED")
  BY <1>1, <1>2, MoveAndEndChange DEF Changes
<1>3. CASE MoveAndEnd(c, [snap[c] EXCEPT !.plan = TRUE], "PLAN_READY")
  <2> DEFINE planned == [snap[c] EXCEPT !.plan = TRUE]
  <2>1. /\ planned \in Job /\ planned.status = snap[c].status
        /\ planned.done = snap[c].done /\ planned.seen = snap[c].seen
        /\ planned.subs = snap[c].subs /\ planned.pkgs = snap[c].pkgs
    BY <1>1 DEF Job
  <2>2. MoveAndEnd(c, planned, "PLAN_READY")  BY <1>3
  <2> HIDE DEF planned
  <2>3. QED  BY <1>1, <2>1, <2>2, MoveAndEndChange DEF Changes
<1>4. ASSUME NEW executable \in SUBSET Actions,
             MoveAndEnd(c, [snap[c] EXCEPT !.simulated = TRUE, !.executable = executable],
                        IF executable = {} THEN "FAILED" ELSE "WAITING_FOR_USER")
      PROVE  job' = job \/ Changes(job, job')
  <2> DEFINE simulated == [snap[c] EXCEPT !.simulated = TRUE, !.executable = executable]
             to == IF executable = {} THEN "FAILED" ELSE "WAITING_FOR_USER"
  <2>1. /\ simulated \in Job /\ simulated.status = snap[c].status
        /\ simulated.done = snap[c].done /\ simulated.seen = snap[c].seen
        /\ simulated.subs = snap[c].subs /\ simulated.pkgs = snap[c].pkgs
    BY <1>1 DEF Job
  <2>2. MoveAndEnd(c, simulated, to) /\ to \in {"FAILED", "WAITING_FOR_USER"}  BY <1>4
  <2> HIDE DEF simulated, to
  <2>3. QED  BY <1>1, <2>1, <2>2, MoveAndEndChange DEF Changes
<1>5. QED  BY <1>2, <1>3, <1>4 DEF PlanDone, SimulateDone

\* A dashboard request keeps everything; the monitor resets or fails.
LEMMA DashboardAndMonitorChange ==
  ASSUME IndInv, NEW c \in Calls, DashboardSave(c) \/ MonitorDone(c)
  PROVE  job' = job \/ Changes(job, job')
<1>1. pc[c] \in Holding /\ snap[c] \in Job
  BY DEF DashboardSave, MonitorDone, Holding, IndInv, CallInv
<1>2. CASE SaveAndEnd(c, Update(snap[c]))
  BY <1>1, <1>2, SaveAndEndChange DEF Changes
<1>3. CASE MoveAndEnd(c, snap[c], "FAILED")
  BY <1>1, <1>3, MoveAndEndChange DEF Changes
<1>4. CASE /\ snap[c].status = "WAITING_FOR_USER"
           /\ SaveAndEnd(c, Update([snap[c] EXCEPT !.done = {}, !.seen = {}]))
           /\ job' # job
  <2> DEFINE reset == [snap[c] EXCEPT !.done = {}, !.seen = {}]
  <2>1. /\ reset \in Job /\ reset.status = snap[c].status
        /\ reset.done = {} /\ reset.seen = {} /\ reset.subs = snap[c].subs
        /\ reset.pkgs = snap[c].pkgs
    BY <1>1 DEF Job
  <2>2. Accepts(c, Update(reset)) /\ job' = Update(reset)  BY <1>4 DEF SaveAndEnd
  <2> HIDE DEF reset
  <2>3. snap[c] = job  BY <1>1, <2>2, AcceptedIsCurrent
  <2>4. QED  BY <1>4, <2>1, <2>2, <2>3, UpdateKeeps DEF Resets, Changes
<1>5. QED  BY <1>2, <1>3, <1>4 DEF DashboardSave, MonitorDone

\* A refresh replaces the simulation or the packages of a waiting job.
LEMMA RefreshChange ==
  ASSUME IndInv, NEW c \in Calls, Resimulate(c) \/ Build(c)
  PROVE  job' = job \/ Changes(job, job')
<1>1. /\ pc[c] \in Holding /\ snap[c] \in Job
      /\ snap[c].status = "WAITING_FOR_USER"
  BY DEF Resimulate, Build, Holding, IndInv, CallInv
<1>2. CASE Resimulate(c) /\ job' # job
  <2>1. PICK executable \in SUBSET Actions :
          /\ Accepts(c, Update([snap[c] EXCEPT !.executable = executable]))
          /\ job' = Update([snap[c] EXCEPT !.executable = executable])
    BY <1>2 DEF Resimulate
  <2> DEFINE patched == [snap[c] EXCEPT !.executable = executable]
  <2>2. /\ patched \in Job /\ patched.status = snap[c].status
        /\ patched.done = snap[c].done /\ patched.seen = snap[c].seen
        /\ patched.subs = snap[c].subs /\ patched.pkgs = snap[c].pkgs
    BY <1>1 DEF Job
  <2>3. Accepts(c, Update(patched)) /\ job' = Update(patched)  BY <2>1
  <2> HIDE DEF patched
  <2>4. snap[c] = job  BY <1>1, <2>3, AcceptedIsCurrent
  <2>5. QED  BY <1>1, <2>2, <2>3, <2>4, UpdateKeeps DEF Prepares, Changes
<1>3. CASE Build(c) /\ job' # job
  <2>1. PICK built \in SUBSET snap[c].executable :
          /\ Accepts(c, Update([snap[c] EXCEPT !.pkgs = IssueOf(built)]))
          /\ job' = Update([snap[c] EXCEPT !.pkgs = IssueOf(built)])
          /\ delivered' = delivered \cup IssueOf(built)
    BY <1>3 DEF Build, IssueOf
  <2> DEFINE patched == [snap[c] EXCEPT !.pkgs = IssueOf(built)]
  <2>2. built \in SUBSET Actions /\ issues + 1 \in Nat
    BY <1>1 DEF Job, IndInv, TypeOK
  <2>3. IssueOf(built) \in SUBSET Package  BY <2>2 DEF IssueOf, Package
  <2>4. /\ patched \in Job /\ patched.status = snap[c].status
        /\ patched.done = snap[c].done /\ patched.seen = snap[c].seen
        /\ patched.subs = snap[c].subs /\ patched.pkgs = IssueOf(built)
    BY <1>1, <2>3 DEF Job
  <2>5. Accepts(c, Update(patched)) /\ job' = Update(patched)  BY <2>1
  <2> HIDE DEF patched
  <2>6. snap[c] = job  BY <1>1, <2>5, AcceptedIsCurrent
  <2>7. /\ job'.status = job.status /\ job'.pkgs = IssueOf(built)
        /\ job'.done = job.done /\ job'.seen = job.seen /\ job'.subs = job.subs
    BY <2>4, <2>5, <2>6, UpdateKeeps
  <2>8. pc[c] = "build"  BY <1>3 DEF Build
  <2>9. QED  BY <1>1, <2>1, <2>2, <2>6, <2>7, <2>8 DEF Issues, Changes
<1>4. QED  BY <1>2, <1>3

-----------------------------------------------------------------------------
\* Registering files one pending submission.
LEMMA RegisterChange ==
  ASSUME IndInv, NEW c \in Calls, RegisterRead(c) \/ RegisterSave(c)
  PROVE  job' = job \/ Changes(job, job')
<1>1. CASE RegisterRead(c)  BY <1>1 DEF RegisterRead, Read
<1>2. CASE RegisterSave(c) /\ job' # job
  <2> DEFINE pending == [hash |-> arg[c].hash, pkg |-> arg[c].pkg, status |-> "PENDING"]
             patched == [snap[c] EXCEPT !.subs = @ \cup {pending}]
  <2>1. /\ pc[c] \in Holding /\ pc[c] \in AboutReceipt
        /\ snap[c] \in Job /\ arg[c] \in Receipt
    BY <1>2 DEF RegisterSave, Holding, AboutReceipt, IndInv, CallInv
  <2>2. Accepts(c, Update(patched)) /\ job' = Update(patched)
    BY <1>2 DEF RegisterSave, Retry
  <2>3. pending \in Submission  BY <2>1 DEF Receipt, Submission, SubmissionStatus
  <2>4. snap[c].subs \cup {pending} \in SUBSET Submission  BY <2>1, <2>3 DEF Job
  <2>5. /\ patched \in Job /\ patched.status = snap[c].status
        /\ patched.pkgs = snap[c].pkgs /\ patched.done = snap[c].done
        /\ patched.seen = snap[c].seen /\ patched.subs = snap[c].subs \cup {pending}
    <3> HIDE DEF pending
    <3> QED  BY <2>1, <2>4 DEF Job
  <2>6. snap[c] = job  BY <2>1, <2>2, AcceptedIsCurrent
  <2>7. /\ job'.status = job.status /\ job'.pkgs = job.pkgs /\ job'.done = job.done
        /\ job'.seen = job.seen /\ job'.subs = job.subs \cup {pending}
    <3> HIDE DEF patched
    <3> QED  BY <2>2, <2>5, <2>6, UpdateKeeps
  <2>8. QED  BY <2>1, <2>7 DEF Files, Changes
<1>3. QED  BY <1>1, <1>2

\* Confirming rewrites submission statuses for a hash already verified.
LEMMA ConfirmChange ==
  ASSUME IndInv, NEW c \in Calls, ConfirmSave(c)
  PROVE  job' = job \/ Changes(job, job')
<1> DEFINE confirmed == Confirmed(snap[c], arg[c])
           patched == [snap[c] EXCEPT !.subs = confirmed]
<1>1. /\ pc[c] \in Holding /\ pc[c] \in AboutReceipt
      /\ snap[c] \in Job /\ arg[c] \in Receipt /\ arg[c].hash \in snap[c].seen
  BY DEF ConfirmSave, Holding, AboutReceipt, IndInv, CallInv
<1>2. CASE job' # job
  <2>1. Accepts(c, Update(patched)) /\ job' = Update(patched)
    BY <1>2 DEF ConfirmSave, Retry
  <2>2. confirmed \in SUBSET Submission  BY <1>1, ConfirmedType
  <2>3. /\ patched \in Job /\ patched.status = snap[c].status
        /\ patched.pkgs = snap[c].pkgs /\ patched.done = snap[c].done
        /\ patched.seen = snap[c].seen /\ patched.subs = confirmed
    <3> HIDE DEF confirmed
    <3> QED  BY <1>1, <2>2 DEF Job
  <2>4. snap[c] = job  BY <1>1, <2>1, AcceptedIsCurrent
  <2>5. /\ job'.status = job.status /\ job'.pkgs = job.pkgs /\ job'.done = job.done
        /\ job'.seen = job.seen /\ job'.subs = confirmed
    <3> HIDE DEF patched
    <3> QED  BY <2>1, <2>3, <2>4, UpdateKeeps
  <2>6. QED  BY <1>1, <2>4, <2>5 DEF Files, Changes
<1>3. QED  BY <1>2

\* Only a receipt the chain settled, of an issued package, is reported.
LEMMA ReportChange ==
  ASSUME IndInv, NEW c \in Calls, ReportRead(c) \/ ReportVerify(c)
  PROVE  job' = job \/ Changes(job, job')
<1>1. CASE ReportRead(c)  BY <1>1 DEF ReportRead, Read
<1>2. CASE ReportVerify(c) /\ job' # job
  <2>1. /\ Tx(arg[c], "SUCCESS") \in txs
        /\ Accepts(c, Reported(snap[c], arg[c]))
        /\ job' = Reported(snap[c], arg[c])
    BY <1>2 DEF ReportVerify, Retry
  <2>2. /\ pc[c] \in Holding /\ arg[c] \in Receipt
        /\ snap[c].status \in Active /\ arg[c].pkg \in snap[c].pkgs
    BY <1>2 DEF ReportVerify, Holding, AboutReceipt, IndInv, CallInv
  <2>3. snap[c] = job  BY <2>1, <2>2, AcceptedIsCurrent
  <2>4. QED  BY <2>1, <2>2, <2>3 DEF Verifies, Changes
<1>3. QED  BY <1>1, <1>2

\* Filing other submissions changes nothing else in the document.
LEMMA SubsKeep ==
  ASSUME NEW j \in Job, NEW S
  PROVE  LET n == [j EXCEPT !.subs = S]
         IN /\ n.status = j.status /\ n.pkgs = j.pkgs
            /\ n.done = j.done /\ n.seen = j.seen /\ n.subs = S
BY DEF Job

\* A mark carries the verdict of the chain.
LEMMA MarkChange ==
  ASSUME IndInv, NEW c \in Calls, MarkSave(c) \/ MarkRead(c)
  PROVE  job' = job \/ Changes(job, job')
<1>1. CASE MarkRead(c)  BY <1>1 DEF MarkRead, Read
<1>2. CASE MarkSave(c) /\ job' # job
  <2>1. PICK v \in {"REVERTED", "REJECTED"} :
          /\ Tx(arg[c], v) \in txs
          /\ Accepts(c, Update(Marked(snap[c], arg[c], v)))
          /\ job' = Update(Marked(snap[c], arg[c], v))
    BY <1>2 DEF MarkSave, Retry
  <2>2. /\ pc[c] \in Holding /\ pc[c] \in AboutReceipt
        /\ snap[c] \in Job /\ arg[c] \in Receipt
    BY <1>2 DEF MarkSave, Holding, AboutReceipt, IndInv, CallInv
  <2>3. snap[c] = job  BY <2>1, <2>2, AcceptedIsCurrent
  <2> DEFINE marked == Marked(job, arg[c], v)
  <2>4. /\ marked \in Job /\ marked.status = job.status /\ marked.pkgs = job.pkgs
        /\ marked.done = job.done /\ marked.seen = job.seen
    <3>1. marked \in Job  BY <2>2, <2>3, MarkedType
    <3>2. QED  BY <2>2, <2>3, <3>1, SubsKeep DEF Marked
  <2>5. /\ job'.status = job.status /\ job'.pkgs = job.pkgs /\ job'.done = job.done
        /\ job'.seen = job.seen /\ job'.subs = marked.subs
    <3>1. job' = Update(marked)  BY <2>1, <2>3
    <3> HIDE DEF marked
    <3>2. QED  BY <2>4, <3>1, UpdateKeeps
  <2>6. QED  BY <2>1, <2>2, <2>5 DEF Files, Changes
<1>3. QED  BY <1>1, <1>2

\* Every step leaves the stored job, or changes it in one of the five ways and
\* then leaves the chain alone.
LEMMA StoredChange ==
  ASSUME IndInv, [Next]_vars
  PROVE  job' = job \/ (Changes(job, job') /\ txs' = txs)
<1>1. CASE UNCHANGED vars  BY <1>1 DEF vars
<1>2. ASSUME NEW c \in Clients, Request(c) PROVE job' = job
  BY <1>2 DEF Request, AnalyseRead, PlanRead, SimulateRead, DashboardRead, MonitorRead,
     SigningReturn, SigningRead, RouteCheck, ReportStart, Open
<1>3. ASSUME NEW r \in Receipts, CronPick(r) PROVE job' = job
  BY <1>3 DEF CronPick
<1>4. ASSUME NEW c \in Calls, Crash(c) PROVE job' = job
  BY <1>4 DEF Crash
<1>5. CASE World  BY <1>5, WorldSteps
<1>6. ASSUME NEW c \in Calls, Resume(c)
      PROVE  job' = job \/ (Changes(job, job') /\ txs' = txs)
  <2>1. job' = job \/ Changes(job, job')
    <3>1. CASE AnalyseSave(c) \/ AnalyseDone(c)  BY <3>1, AnalyseChange
    <3>2. CASE PlanDone(c) \/ SimulateDone(c)  BY <3>2, PlanAndSimulateChange
    <3>3. CASE DashboardSave(c) \/ MonitorDone(c)  BY <3>3, DashboardAndMonitorChange
    <3>4. CASE Resimulate(c) \/ Build(c)  BY <3>4, RefreshChange
    <3>5. CASE RegisterRead(c) \/ RegisterSave(c)  BY <3>5, RegisterChange
    <3>6. CASE ReconcileRead(c)  BY <3>6 DEF ReconcileRead
    <3>7. CASE ConfirmSave(c)  BY <3>7, ConfirmChange
    <3>8. CASE ReportRead(c) \/ ReportVerify(c)  BY <3>8, ReportChange
    <3>9. CASE MarkSave(c) \/ MarkRead(c)  BY <3>9, MarkChange
    <3>10. QED
      BY <1>6, <3>1, <3>2, <3>3, <3>4, <3>5, <3>6, <3>7, <3>8, <3>9 DEF Resume
  <2>2. txs' = txs
    BY <1>6 DEF Resume, Rest, worldVars, AnalyseSave, AnalyseDone, PlanDone, SimulateDone,
       DashboardSave, MonitorDone, Resimulate, Build, RegisterRead, RegisterSave,
       ReconcileRead, ReportRead, ConfirmSave, ReportVerify, MarkSave, MarkRead
  <2>3. QED  BY <2>1, <2>2
<1>7. QED  BY <1>1, <1>2, <1>3, <1>4, <1>5, <1>6 DEF Next

-----------------------------------------------------------------------------
(* TruthfulCompletion, strengthened by what it needs to be inductive: until *)
(* the job is being executed, nothing is reported verified, so that an      *)
(* answer of the monitor has nothing to take back.                          *)

Truth(j, settled) ==
  /\ j.done \subseteq settled
  /\ j.status \in Verified => j.pkgs # {} /\ IssuedActions(j) \subseteq j.done
  /\ j.status = "COMPLETED" => j.done = Actions
  /\ j.status = "EXECUTING" => ~(IssuedActions(j) \subseteq j.done)
  /\ j.status \in Preparing \cup {"WAITING_FOR_USER"} => j.done = {}

TruthInv == Truth(job, Settled)

\* The document a verified receipt leads to, field by field.
LEMMA ReportedKeeps ==
  ASSUME NEW j \in Job, NEW r \in Receipt
  PROVE  LET n == Reported(j, r)
             done == j.done \cup {r.pkg.action}
         IN /\ n.status = PhaseOf(j, done) /\ n.pkgs = j.pkgs /\ n.done = done
            /\ n.seen = j.seen \cup {r.hash} /\ n.subs = Confirmed(j, r)
<1> DEFINE done == j.done \cup {r.pkg.action}
           climbed == Climb(j)
           confirmed == Confirmed(j, r)
           next == [climbed EXCEPT !.done = done,
                                   !.seen = @ \cup {r.hash},
                                   !.subs = confirmed]
<1>1. /\ climbed \in Job /\ climbed.status = "EXECUTING" /\ climbed.pkgs = j.pkgs
      /\ climbed.seen = j.seen
  <2>1. Rungs(j) \in Nat  BY DEF Rungs
  <2>2. j.revision \in Nat /\ j.revision + Rungs(j) \in Nat  BY <2>1 DEF Job
  <2>3. "EXECUTING" \in Status  BY DEF Status, Active
  <2>4. climbed \in Job  BY <2>2, <2>3, StatusRevisionType DEF Climb
  <2>5. QED  BY <2>4 DEF Climb, Job
<1>2. /\ next \in Job /\ next.status = "EXECUTING" /\ next.pkgs = j.pkgs
      /\ next.done = done /\ next.seen = j.seen \cup {r.hash} /\ next.subs = confirmed
  <2>1. confirmed \in SUBSET Submission  BY ConfirmedType
  <2>2. climbed.seen \cup {r.hash} \in SUBSET Hashes  BY <1>1 DEF Job, Receipt
  <2>3. done \in SUBSET Actions  BY DEF Job, Receipt, Package
  <2>4. QED
    <3> HIDE DEF climbed, done, confirmed
    <3> QED  BY <1>1, <2>1, <2>2, <2>3 DEF Job
<1>3. PhaseOf(j, done) \in Status
  BY DEF PhaseOf, Status, Active, Terminal, Verified
<1>4. CASE PhaseOf(j, done) = "EXECUTING"
  <2>1. Reported(j, r) = Update(next)  BY <1>4 DEF Reported
  <2> HIDE DEF next, done, confirmed
  <2>2. QED  BY <1>2, <1>4, <2>1, UpdateKeeps DEF done, confirmed
<1>5. CASE PhaseOf(j, done) # "EXECUTING"
  <2>1. Reported(j, r) = Move(next, PhaseOf(j, done))  BY <1>5 DEF Reported
  <2>2. LET n == Reported(j, r)
        IN /\ n.status = PhaseOf(j, done) /\ n.pkgs = j.pkgs /\ n.done = done
           /\ n.seen = j.seen \cup {r.hash} /\ n.subs = confirmed
    <3> HIDE DEF next, done, confirmed
    <3> QED  BY <1>2, <1>3, <2>1, MoveKeeps
  <2>3. QED  BY <2>2
<1>6. QED  BY <1>4, <1>5

\* A verified receipt reports an action the chain settled, and the phase it
\* derives is the one the verified actions justify.
LEMMA VerifiesTruth ==
  ASSUME IndInv, NEW n, TruthInv, Verifies(job, n)
  PROVE  Truth(n, Settled)
<1>1. PICK r \in Receipt : /\ job.status \in Active /\ r.pkg \in job.pkgs
                           /\ Tx(r, "SUCCESS") \in txs
                           /\ n = Reported(job, r)
  BY DEF Verifies
<1> DEFINE done == job.done \cup {r.pkg.action}
<1>2. job \in Job  BY DEF IndInv, TypeOK
<1>3. n.status = PhaseOf(job, done) /\ n.pkgs = job.pkgs /\ n.done = done
  BY <1>1, <1>2, ReportedKeeps
<1>4. r.pkg.action \in Settled
  <2>1. Tx(r, "SUCCESS").verdict = "SUCCESS" /\ Tx(r, "SUCCESS").pkg = r.pkg
    BY DEF Tx
  <2>2. QED  BY <1>1, <2>1 DEF Settled
<1>5. done \subseteq Settled  BY <1>4 DEF TruthInv, Truth
<1>6. done \subseteq Actions  BY <1>1, <1>2 DEF Job, Receipt, Package
<1>7. IssuedActions(n) = IssuedActions(job)  BY <1>3 DEF IssuedActions
<1>8. /\ n.status \in {"EXECUTING"} \cup Verified
      /\ n.status \in Verified => IssuedActions(job) \subseteq done
      /\ n.status = "EXECUTING" => ~(IssuedActions(job) \subseteq done)
      /\ n.status = "COMPLETED" => Actions \subseteq done
  BY <1>3 DEF PhaseOf, Verified
<1>9. n.status \notin Preparing \cup {"WAITING_FOR_USER"}
  BY <1>8 DEF Preparing, Active, Terminal, Verified
<1> HIDE DEF done
<1>10. QED  BY <1>1, <1>3, <1>5, <1>6, <1>7, <1>8, <1>9 DEF Truth

\* The other changes verify nothing and leave what is verified in place.
LEMMA ChangesTruth ==
  ASSUME IndInv, NEW n, TruthInv, Changes(job, n)
  PROVE  Truth(n, Settled)
<1>1. CASE Prepares(job, n)
  BY <1>1 DEF Prepares, TruthInv, Truth, IssuedActions, Preparing, Active, Terminal, Verified
<1>2. CASE Resets(job, n)
  BY <1>2 DEF Resets, Truth, Verified
<1>3. CASE Files(job, n)
  BY <1>3 DEF Files, TruthInv, Truth, IssuedActions
<1>4. CASE Verifies(job, n)  BY <1>4, VerifiesTruth
<1>5. CASE Issues(job, n)
  BY <1>5 DEF Issues, TruthInv, Truth, Verified
<1>6. QED  BY <1>1, <1>2, <1>3, <1>4, <1>5 DEF Changes

\* The chain settles at most one more action in a step, and unsettles none.
LEMMA SettledGrows ==
  ASSUME IndInv, [Next]_vars
  PROVE  \/ Settled' = Settled
         \/ /\ job' = job
            /\ \E a \in Actions : Settled' = Settled \cup {a}
<1>1. CASE txs' = txs  BY <1>1 DEF Settled
<1>2. ASSUME NEW r \in Receipts, Broadcast(r) PROVE Settled' = Settled
  <2>1. Tx(r, "SEEN").verdict = "SEEN"  BY DEF Tx
  <2>2. QED  BY <1>2, <2>1 DEF Broadcast, Settled
<1>3. ASSUME NEW r \in Receipts, NEW v \in Verdict, Finalise(r, v)
      PROVE  \/ Settled' = Settled
             \/ job' = job /\ \E a \in Actions : Settled' = Settled \cup {a}
  <2>1. /\ Tx(r, "SEEN").verdict = "SEEN"
        /\ Tx(r, v).verdict = v /\ Tx(r, v).pkg = r.pkg
    BY DEF Tx
  <2>2. r.pkg.action \in Actions
    BY DEF Receipts, Package, IndInv, TypeOK
  <2>3. txs' = (txs \ {Tx(r, "SEEN")}) \cup {Tx(r, v)} /\ job' = job
    BY <1>3 DEF Finalise
  <2>4. CASE v = "SUCCESS"
    <3>1. Settled' = Settled \cup {r.pkg.action}
      BY <2>1, <2>3, <2>4 DEF Settled
    <3>2. QED  BY <2>2, <2>3, <3>1
  <2>5. CASE v # "SUCCESS"  BY <2>1, <2>3, <2>5 DEF Settled
  <2>6. QED  BY <2>4, <2>5
<1>4. CASE \E p \in delivered : Expire(p)
  <2>1. txs' = txs  BY <1>4 DEF Expire
  <2>2. QED  BY <1>1, <2>1
<1>5. World \/ txs' = txs
  <2>1. CASE UNCHANGED vars  BY <2>1 DEF vars
  <2>2. ASSUME NEW c \in Clients, Request(c) PROVE txs' = txs
    BY <2>2 DEF Request, AnalyseRead, PlanRead, SimulateRead, DashboardRead, MonitorRead,
       SigningReturn, SigningRead, RouteCheck, ReportStart, Open, worldVars
  <2>3. ASSUME NEW r \in Receipts, CronPick(r) PROVE txs' = txs
    BY <2>3 DEF CronPick, Rest, worldVars
  <2>4. ASSUME NEW c \in Calls, Resume(c) \/ Crash(c) PROVE txs' = txs
    BY <2>4 DEF Resume, Crash, Rest, worldVars, AnalyseSave, AnalyseDone, PlanDone,
       SimulateDone, DashboardSave, MonitorDone, Resimulate, Build, RegisterRead,
       RegisterSave, ReconcileRead, ReportRead, ConfirmSave, ReportVerify, MarkSave, MarkRead
  <2>5. QED  BY <2>1, <2>2, <2>3, <2>4 DEF Next
<1>6. QED  BY <1>1, <1>2, <1>3, <1>4, <1>5 DEF World

\* More settled actions make a truthful document no less truthful.
LEMMA TruthGrows ==
  ASSUME NEW j, NEW S, NEW T, S \subseteq T, Truth(j, S)
  PROVE  Truth(j, T)
BY DEF Truth

\* TruthInv is inductive over the reachable steps.
LEMMA NextTruth == IndInv /\ TruthInv /\ [Next]_vars => TruthInv'
<1> SUFFICES ASSUME IndInv, TruthInv, [Next]_vars PROVE TruthInv'  OBVIOUS
<1>1. Settled \subseteq Settled'  BY SettledGrows
<1>2. Truth(job', Settled)
  <2>1. CASE job' = job  BY <2>1 DEF TruthInv
  <2>2. CASE Changes(job, job')  BY <2>2, ChangesTruth
  <2>3. QED  BY <2>1, <2>2, StoredChange
<1>3. Truth(job', Settled')  BY <1>1, <1>2, TruthGrows
<1>4. QED  BY <1>3 DEF TruthInv

\* A new job has reported nothing.
LEMMA InitTruth == Init => TruthInv
<1> SUFFICES ASSUME Init PROVE TruthInv  OBVIOUS
<1>1. /\ job.status \in {"RECEIVED", "WAITING_FOR_SOURCE"} /\ job.done = {}
  BY DEF Init, NewJob
<1>2. QED  BY <1>1 DEF TruthInv, Truth, Verified

\* The inductive invariant of the reported facts holds in every behaviour.
LEMMA TruthInvariance == Spec => []TruthInv
<1>1. QED  BY InitTruth, NextTruth, Invariance, PTL DEF Spec

\* recordBuyerExecutionReport and every other write, in any interleaving:
\* nothing is reported rescued that the chain did not settle, and the verified
\* phases are reached only when the verified actions justify them.
THEOREM CompletionIsTruthful == Spec => []TruthfulCompletion
<1>1. TruthInv => TruthfulCompletion  BY DEF TruthInv, Truth, TruthfulCompletion
<1>2. QED  BY <1>1, TruthInvariance, PTL

-----------------------------------------------------------------------------
(* The refinement.                                                         *)

\* The five changes as steps of the promise.
LEMMA ChangesKeepPromise ==
  ASSUME IndInv, TruthInv, Changes(job, job'), txs' = txs
  PROVE  [Promise!PromiseNext]_(Promise!promiseVars)
<1>1. Settled' = Settled  BY DEF Settled
<1>2. job \in Job /\ job.status \in Status  BY DEF IndInv, TypeOK, Job
<1>3. CASE job'.done = job.done /\ Told(job'.status) = Told(job.status)
  BY <1>1, <1>3 DEF Promise!promiseVars
<1>4. CASE Prepares(job, job')
  <2>1. CASE job'.status = job.status  BY <1>3, <1>4, <2>1 DEF Prepares
  <2>2. CASE job'.status = "FAILED" /\ job.status \notin Terminal
    <3>1. Told(job'.status) = "FAILED"  BY <2>2 DEF Told
    <3>2. Told(job.status) \in {"PREPARING", "OFFERED", "RESCUING"}
      BY <1>2, <2>2 DEF Told, Status, Active, Terminal, Verified
    <3>3. QED
      BY <1>1, <1>4, <3>1, <3>2 DEF Prepares, Promise!PromiseNext, Promise!GiveUp
  <2>3. CASE job.status \in Preparing /\ job'.status \in Preparing \cup {"WAITING_FOR_USER"}
    <3>1. \A s \in Preparing : Told(s) = "PREPARING"
      BY DEF Told, Preparing, Status, Active, Terminal, Verified
    <3>2. Told("WAITING_FOR_USER") = "OFFERED"  BY DEF Told
    <3>3. CASE job'.status \in Preparing
      BY <1>3, <1>4, <2>3, <3>1, <3>3 DEF Prepares
    <3>4. CASE job'.status = "WAITING_FOR_USER"
      BY <1>1, <1>4, <2>3, <3>1, <3>2, <3>4
         DEF Prepares, Promise!PromiseNext, Promise!Offer
    <3>5. QED  BY <2>3, <3>3, <3>4
  <2>4. QED  BY <1>4, <2>1, <2>2, <2>3 DEF Prepares
<1>5. CASE Resets(job, job')
  <2>1. job.done = {}  BY <1>5 DEF Resets, TruthInv, Truth
  <2>2. QED  BY <1>3, <1>5, <2>1 DEF Resets
<1>6. CASE Files(job, job')  BY <1>3, <1>6 DEF Files
<1>7. CASE Verifies(job, job')
  <2>1. PICK r \in Receipt : /\ job.status \in Active /\ r.pkg \in job.pkgs
                             /\ Tx(r, "SUCCESS") \in txs
                             /\ job' = Reported(job, r)
    BY <1>7 DEF Verifies
  <2> DEFINE done == job.done \cup {r.pkg.action}
  <2>2. job'.status = PhaseOf(job, done) /\ job'.done = done
    BY <1>2, <2>1, ReportedKeeps
  <2>3. r.pkg.action \in Settled /\ r.pkg.action \in Actions
    <3>1. Tx(r, "SUCCESS").verdict = "SUCCESS" /\ Tx(r, "SUCCESS").pkg = r.pkg
      BY DEF Tx
    <3>2. r.pkg.action \in Actions  BY DEF Receipt, Package
    <3>3. QED  BY <2>1, <3>1, <3>2 DEF Settled
  <2>4. Told(job.status) \in {"OFFERED", "RESCUING"}
    BY <2>1 DEF Told, Active
  <2>5. /\ job'.status \in {"EXECUTING", "PARTIAL", "COMPLETED"}
    BY <2>2 DEF PhaseOf
  <2>6. Told(job'.status) \in {"RESCUING", "PARTLY", "DONE"}
    BY <2>5 DEF Told
  <2>7. Told(job'.status) = "DONE" => job'.done = Actions
    <3>1. TruthInv'
      <4>1. Truth(job', Settled)  BY <1>7, VerifiesTruth
      <4>2. QED  BY <1>1, <4>1 DEF TruthInv
    <3>2. Told(job'.status) = "DONE" => job'.status = "COMPLETED"
      BY <2>5 DEF Told
    <3>3. QED  BY <3>1, <3>2 DEF TruthInv, Truth
  <2>8. Promise!Report(r.pkg.action)
    BY <1>1, <2>2, <2>3, <2>4, <2>6, <2>7 DEF Promise!Report
  <2>9. QED  BY <2>3, <2>8 DEF Promise!PromiseNext
<1>8. CASE Issues(job, job')  BY <1>3, <1>8 DEF Issues
<1>9. QED  BY <1>4, <1>5, <1>6, <1>7, <1>8 DEF Changes

\* Every step is a step of the promise or a stutter.
LEMMA NextKeepsPromise ==
  IndInv /\ TruthInv /\ [Next]_vars => [Promise!PromiseNext]_(Promise!promiseVars)
<1> SUFFICES ASSUME IndInv, TruthInv, [Next]_vars
             PROVE  [Promise!PromiseNext]_(Promise!promiseVars)
  OBVIOUS
<1>1. CASE Changes(job, job') /\ txs' = txs  BY <1>1, ChangesKeepPromise
<1>2. CASE job' = job
  <2>1. CASE Settled' = Settled  BY <1>2, <2>1 DEF Promise!promiseVars
  <2>2. CASE \E a \in Actions : Settled' = Settled \cup {a}
    BY <1>2, <2>2 DEF Promise!PromiseNext, Promise!Rescue
  <2>3. QED  BY <2>1, <2>2, SettledGrows
<1>3. QED  BY <1>1, <1>2, StoredChange

\* The service implements RescuePromise, whatever calls interleave and crash.
THEOREM ServiceKeepsPromise == Spec => KeepsPromise
<1>1. Init => Promise!PromiseInit
  <2> SUFFICES ASSUME Init PROVE Promise!PromiseInit  OBVIOUS
  <2>1. job.status \in {"RECEIVED", "WAITING_FOR_SOURCE"} /\ job.done = {} /\ txs = {}
    BY DEF Init, Quiet, NewJob
  <2>2. Told(job.status) = "PREPARING"  BY <2>1 DEF Told
  <2>3. Settled = {}  BY <2>1 DEF Settled
  <2>4. QED  BY <2>1, <2>2, <2>3 DEF Promise!PromiseInit
<1>2. QED
  BY <1>1, Invariance, TruthInvariance, NextKeepsPromise, PTL
     DEF Spec, KeepsPromise, Promise!PromiseSpec

-----------------------------------------------------------------------------
(* The receipts.  A call that confirms a receipt of a verified job only    *)
(* finds its hash among the verified ones: that the success was of this    *)
(* very package follows from the chain having one transaction per hash and *)
(* from every registered receipt having been visible there for its package.*)

\* A transaction hash names one transaction, with one verdict.
OneTransaction == \A t, u \in txs : t.hash = u.hash => t = u

ReceiptInv ==
  /\ OneTransaction
  /\ \A c \in Calls : pc[c] \in AboutReceipt => Visible(arg[c])
  /\ \A s \in job.subs : Visible(s)
  /\ \A h \in job.seen : \E t \in txs : t.hash = h /\ t.verdict = "SUCCESS"
  /\ TruthfulReceipts

-----------------------------------------------------------------------------
(* The chain.                                                              *)

\* The chain adds a hash it has not seen, gives a verdict on one it has seen,
\* or stays as it is.
LEMMA ChainStep ==
  ASSUME IndInv, [Next]_vars
  PROVE  \/ txs' = txs
         \/ \E r \in Receipts : Broadcast(r) \/ \E v \in Verdict : Finalise(r, v)
<1>1. CASE UNCHANGED vars  BY <1>1 DEF vars
<1>2. ASSUME NEW c \in Clients, Request(c) PROVE txs' = txs
  BY <1>2 DEF Request, AnalyseRead, PlanRead, SimulateRead, DashboardRead, MonitorRead,
     SigningReturn, SigningRead, RouteCheck, ReportStart, Open, worldVars
<1>3. ASSUME NEW r \in Receipts, CronPick(r) PROVE txs' = txs
  BY <1>3 DEF CronPick, Rest, worldVars
<1>4. ASSUME NEW c \in Calls, Resume(c) \/ Crash(c) PROVE txs' = txs
  BY <1>4 DEF Resume, Crash, Rest, worldVars, AnalyseSave, AnalyseDone, PlanDone,
     SimulateDone, DashboardSave, MonitorDone, Resimulate, Build, RegisterRead,
     RegisterSave, ReconcileRead, ReportRead, ConfirmSave, ReportVerify, MarkSave, MarkRead
<1>5. ASSUME NEW p \in delivered, Expire(p) PROVE txs' = txs
  BY <1>5 DEF Expire
<1>6. QED  BY <1>1, <1>2, <1>3, <1>4, <1>5 DEF Next, World

\* One transaction per hash, now and in the next state; a final verdict stays;
\* what was visible stays visible.
LEMMA ChainKeeps ==
  ASSUME IndInv, OneTransaction, [Next]_vars
  PROVE  /\ OneTransaction'
         /\ \A t \in txs : t.verdict # "SEEN" => t \in txs'
         /\ \A r : Visible(r) => Visible(r)'
<1>1. CASE txs' = txs  BY <1>1 DEF OneTransaction, Visible
<1>2. ASSUME NEW r \in Receipts, Broadcast(r)
      PROVE  /\ OneTransaction'
             /\ \A t \in txs : t.verdict # "SEEN" => t \in txs'
             /\ \A q : Visible(q) => Visible(q)'
  <2>1. txs' = txs \cup {Tx(r, "SEEN")} /\ \A t \in txs : t.hash # r.hash
    BY <1>2 DEF Broadcast
  <2>2. Tx(r, "SEEN").hash = r.hash  BY DEF Tx
  <2>3. QED  BY <2>1, <2>2 DEF OneTransaction, Visible
<1>3. ASSUME NEW r \in Receipts, NEW v \in Verdict, Finalise(r, v)
      PROVE  /\ OneTransaction'
             /\ \A t \in txs : t.verdict # "SEEN" => t \in txs'
             /\ \A q : Visible(q) => Visible(q)'
  <2>1. /\ Tx(r, "SEEN") \in txs
        /\ txs' = (txs \ {Tx(r, "SEEN")}) \cup {Tx(r, v)}
    BY <1>3 DEF Finalise
  <2>2. /\ Tx(r, "SEEN").verdict = "SEEN"
        /\ Tx(r, v).hash = r.hash /\ Tx(r, "SEEN").hash = r.hash
    BY DEF Tx
  <2>3. OneTransaction'  BY <2>1, <2>2 DEF OneTransaction
  <2>4. \A t \in txs : t.verdict # "SEEN" => t \in txs'  BY <2>1, <2>2
  <2>5. ASSUME NEW q, Visible(q) PROVE Visible(q)'
    <3>1. PICK w \in Verdict : Tx(q, w) \in txs  BY <2>5 DEF Visible
    <3>2. CASE Tx(q, w) = Tx(r, "SEEN")
      <4>1. q.hash = r.hash /\ q.pkg = r.pkg  BY <3>2 DEF Tx
      <4>2. Tx(q, v) = Tx(r, v)  BY <4>1 DEF Tx
      <4>3. QED  BY <2>1, <4>2 DEF Visible
    <3>3. CASE Tx(q, w) # Tx(r, "SEEN")  BY <2>1, <3>1, <3>3 DEF Visible
    <3>4. QED  BY <3>2, <3>3
  <2>6. QED  BY <2>3, <2>4, <2>5
<1>4. QED  BY <1>1, <1>2, <1>3, ChainStep

-----------------------------------------------------------------------------
(* The receipt a call is about.                                            *)

\* A resumed call keeps its receipt or forgets it.
LEMMA ResumeKeepsArg ==
  ASSUME IndInv, NEW c \in Calls, Resume(c), pc'[c] \in AboutReceipt
  PROVE  pc[c] \in AboutReceipt /\ arg'[c] = arg[c]
<1>1. ASSUME End(c) PROVE FALSE
  <2>1. pc'[c] = "idle"  BY <1>1 DEF End, IndInv, TypeOK
  <2>2. QED  BY <2>1 DEF AboutReceipt
<1>2. ASSUME NEW stage \in {"analysing", "build"}, pc' = [pc EXCEPT ![c] = stage]
      PROVE  FALSE
  <2>1. pc'[c] = stage  BY <1>2 DEF IndInv, TypeOK
  <2>2. QED  BY <2>1 DEF AboutReceipt
<1>3. CASE \/ AnalyseSave(c) \/ AnalyseDone(c) \/ PlanDone(c) \/ SimulateDone(c)
           \/ DashboardSave(c) \/ MonitorDone(c) \/ Resimulate(c) \/ Build(c)
  <2>1. \/ End(c)
        \/ \E stage \in {"analysing", "build"} : pc' = [pc EXCEPT ![c] = stage]
    BY <1>3 DEF AnalyseSave, AnalyseDone, PlanDone, SimulateDone, DashboardSave,
       MonitorDone, Resimulate, Build, MoveAndEnd, SaveAndEnd
  <2>2. QED  BY <1>1, <1>2, <2>1
<1>4. CASE \/ RegisterRead(c) \/ RegisterSave(c) \/ ReconcileRead(c) \/ ReportRead(c)
           \/ ConfirmSave(c) \/ ReportVerify(c) \/ MarkSave(c) \/ MarkRead(c)
  <2>1. pc[c] \in AboutReceipt
    BY <1>4 DEF RegisterRead, RegisterSave, ReconcileRead, ReportRead, ConfirmSave,
       ReportVerify, MarkSave, MarkRead, AboutReceipt
  <2>2. End(c) \/ arg' = arg
    BY <1>4 DEF RegisterRead, RegisterSave, ReconcileRead, ReportRead, ConfirmSave,
       ReportVerify, MarkSave, MarkRead, Reconcile, Throw, Retry, StillPending
  <2>3. QED  BY <1>1, <2>1, <2>2
<1>5. QED  BY <1>3, <1>4 DEF Resume

\* Whatever receipt a call is about, the chain shows it for its package.
LEMMA ArgsVisible ==
  ASSUME IndInv, ReceiptInv, [Next]_vars, NEW d \in Calls, pc'[d] \in AboutReceipt
  PROVE  Visible(arg'[d])
<1>1. CASE pc[d] \in AboutReceipt /\ arg'[d] = arg[d]
  BY <1>1 DEF ReceiptInv
<1>2. CASE pc'[d] = pc[d] /\ arg'[d] = arg[d]
  BY <1>1, <1>2
<1>3. CASE UNCHANGED vars
  BY <1>2, <1>3 DEF vars
<1>4. ASSUME NEW c \in Clients, Request(c) PROVE Visible(arg'[d])
  <2>1. c \in Calls  BY DEF Calls
  <2>2. CASE UNCHANGED callVars  BY <1>2, <2>2 DEF callVars
  <2>3. CASE GoodStep(c) /\ d # c  BY <1>2, <2>3 DEF GoodStep, OnlyCall
  <2>4. CASE d = c
    <3>1. ASSUME NEW stage \in {"analyse", "plan", "simulate", "dashboard", "monitor",
                                "resimulate", "build"}, Open(c, stage)
          PROVE  FALSE
      <4>1. pc'[c] = stage  BY <2>1, <3>1 DEF Open, Start, IndInv, TypeOK
      <4>2. QED  BY <2>4, <4>1 DEF AboutReceipt
    <3>2. CASE SigningReturn(c)  BY <1>2, <3>2 DEF SigningReturn, callVars
    <3>3. ASSUME NEW r \in Receipts, RouteCheck(c, r) \/ ReportStart(c, r)
          PROVE  Visible(arg'[d])
      <4>1. Visible(r) /\ arg' = [arg EXCEPT ![c] = r]
        BY <3>3 DEF RouteCheck, ReportStart
      <4>2. QED  BY <2>1, <2>4, <4>1 DEF IndInv, TypeOK
    <3>4. QED
      BY <1>4, <3>1, <3>2, <3>3
         DEF Request, AnalyseRead, PlanRead, SimulateRead, DashboardRead, MonitorRead,
             SigningRead
  <2>5. QED  BY <1>4, <2>1, <2>2, <2>3, <2>4, RequestSteps
<1>5. ASSUME NEW r \in Receipts, CronPick(r) PROVE Visible(arg'[d])
  <2>1. Cron \in Calls  BY DEF Calls
  <2>2. CASE d # Cron  BY <1>2, <1>5, <2>1, <2>2, CronPickStep DEF GoodStep, OnlyCall
  <2>3. CASE d = Cron
    <3>1. PICK s \in job.subs : s.hash = r.hash /\ s.pkg = r.pkg
      BY <1>5 DEF CronPick
    <3>2. Visible(s)  BY DEF ReceiptInv
    <3>3. Visible(r)  BY <3>1, <3>2 DEF Visible, Tx
    <3>4. arg'[d] = r  BY <1>5, <2>1, <2>3 DEF CronPick, IndInv, TypeOK
    <3>5. QED  BY <3>3, <3>4
  <2>4. QED  BY <2>2, <2>3
<1>6. ASSUME NEW c \in Calls, Resume(c) PROVE Visible(arg'[d])
  <2>1. CASE d = c  BY <1>1, <1>6, <2>1, ResumeKeepsArg
  <2>2. CASE d # c  BY <1>2, <1>6, <2>2, ResumeSteps DEF GoodStep, OnlyCall
  <2>3. QED  BY <2>1, <2>2
<1>7. ASSUME NEW c \in Calls, Crash(c) PROVE Visible(arg'[d])
  <2>1. CASE d = c
    <3>1. pc'[d] = "idle"  BY <1>7, <2>1 DEF Crash, End, IndInv, TypeOK
    <3>2. QED  BY <3>1 DEF AboutReceipt
  <2>2. CASE d # c  BY <1>2, <1>7, <2>2, CrashStep DEF GoodStep, OnlyCall
  <2>3. QED  BY <2>1, <2>2
<1>8. CASE World  BY <1>2, <1>8, WorldSteps DEF callVars
<1>9. QED  BY <1>3, <1>4, <1>5, <1>6, <1>7, <1>8 DEF Next

-----------------------------------------------------------------------------
(* The submissions.                                                        *)

\* The verdict of the chain that a settled submission status stands for.
Meaning(status) == IF status = "CONFIRMED" THEN "SUCCESS" ELSE status

TruthfulSubmission(s) ==
  /\ Visible(s)
  /\ s.status # "PENDING" => Tx(s, Meaning(s.status)) \in txs

\* What confirmedReceiptPatch and setReceiptSubmissionStatus do to the list.
Stamped(S, r, v) ==
  {IF s.hash = r.hash /\ s.pkg = r.pkg THEN [s EXCEPT !.status = v] ELSE s : s \in S}

\* Both patches are stamps.
LEMMA PatchesStamp ==
  ASSUME NEW j \in Job, NEW r, NEW v
  PROVE  /\ Confirmed(j, r) = Stamped(j.subs, r, "CONFIRMED")
         /\ Marked(j, r, v).subs = Stamped(j.subs, r, v)
<1>1. Confirmed(j, r) = Stamped(j.subs, r, "CONFIRMED")
  BY DEF Confirmed, Stamped
<1>2. Marked(j, r, v) = [j EXCEPT !.subs = Stamped(j.subs, r, v)]
  BY Zenon DEF Marked, Stamped
<1>3. QED  BY <1>1, <1>2, SubsKeep

\* TruthfulReceipts, submission by submission.
LEMMA TruthfulBySubmission ==
  ASSUME IndInv
  PROVE  (TruthfulReceipts /\ \A s \in job.subs : Visible(s))
           <=> \A s \in job.subs : TruthfulSubmission(s)
<1>1. \A s \in job.subs : s.status \in SubmissionStatus
  BY DEF IndInv, TypeOK, Job, Submission
<1>2. QED
  BY <1>1 DEF TruthfulReceipts, TruthfulSubmission, Meaning, SubmissionStatus

\* Stamping what the chain says keeps every submission truthful, and keeps every
\* settled one: the chain has no second verdict to stamp over the first.
LEMMA StampKeeps ==
  ASSUME IndInv, ReceiptInv, NEW r \in Receipt,
         NEW v \in {"CONFIRMED", "REVERTED", "REJECTED"},
         (\E s \in job.subs : s.hash = r.hash /\ s.pkg = r.pkg)
           => Tx(r, Meaning(v)) \in txs
  PROVE  /\ \A t \in Stamped(job.subs, r, v) : TruthfulSubmission(t)
         /\ \A s \in job.subs : s.status # "PENDING" => s \in Stamped(job.subs, r, v)
<1>1. /\ \A s \in job.subs : TruthfulSubmission(s)
      /\ \A s \in job.subs : s \in Submission
  BY TruthfulBySubmission DEF ReceiptInv, IndInv, TypeOK, Job
<1>2. ASSUME NEW s \in job.subs, s.hash = r.hash, s.pkg = r.pkg
      PROVE  /\ TruthfulSubmission([s EXCEPT !.status = v])
             /\ s.status # "PENDING" => [s EXCEPT !.status = v] = s
  <2> DEFINE t == [s EXCEPT !.status = v]
  <2>1. s \in Submission  BY <1>1
  <2>2. t.hash = s.hash /\ t.pkg = s.pkg /\ t.status = v  BY <2>1 DEF Submission
  <2>3. Tx(r, Meaning(v)) \in txs  BY <1>2
  <2>4. TruthfulSubmission(t)
    <3> HIDE DEF t
    <3>1. Tx(t, Meaning(v)) = Tx(r, Meaning(v))  BY <1>2, <2>2 DEF Tx
    <3>2. Meaning(v) \in Verdict  BY DEF Meaning, Verdict
    <3>3. QED  BY <2>2, <2>3, <3>1, <3>2 DEF TruthfulSubmission, Visible
  <2>5. CASE s.status # "PENDING"
    <3>1. Tx(s, Meaning(s.status)) \in txs  BY <1>1, <2>5 DEF TruthfulSubmission
    <3>2. /\ Tx(s, Meaning(s.status)).hash = Tx(r, Meaning(v)).hash
          /\ Tx(s, Meaning(s.status)).verdict = Meaning(s.status)
          /\ Tx(r, Meaning(v)).verdict = Meaning(v)
      BY <1>2 DEF Tx
    <3>3. Meaning(s.status) = Meaning(v)
      BY <2>3, <3>1, <3>2 DEF ReceiptInv, OneTransaction
    <3>4. s.status \in {"CONFIRMED", "REVERTED", "REJECTED"}
      BY <2>1, <2>5 DEF Submission, SubmissionStatus
    <3>5. s.status = v  BY <3>3, <3>4 DEF Meaning
    <3>6. QED  BY <2>1, <2>4, <3>5 DEF Submission
  <2>6. QED  BY <2>4, <2>5
<1>3. QED  BY <1>1, <1>2 DEF Stamped

\* A hash that is among the verified ones settled the package it was shown for.
LEMMA SeenSettles ==
  ASSUME IndInv, ReceiptInv, NEW r, r.hash \in job.seen, Visible(r)
  PROVE  Tx(r, "SUCCESS") \in txs
<1>1. PICK t \in txs : t.hash = r.hash /\ t.verdict = "SUCCESS"  BY DEF ReceiptInv
<1>2. PICK w \in Verdict : Tx(r, w) \in txs  BY DEF Visible
<1>3. Tx(r, w).hash = r.hash /\ Tx(r, w).verdict = w  BY DEF Tx
<1>4. t = Tx(r, w)  BY <1>1, <1>2, <1>3 DEF ReceiptInv, OneTransaction
<1>5. QED  BY <1>1, <1>2, <1>3, <1>4

\* The effect of each change of the document on its submissions.
LEMMA ChangesSubmissions ==
  ASSUME IndInv, ReceiptInv, NEW n, Changes(job, n)
  PROVE  /\ \A t \in n.subs : TruthfulSubmission(t)
         /\ \A s \in job.subs : s.status # "PENDING" => s \in n.subs
         /\ \A h \in n.seen : \E t \in txs : t.hash = h /\ t.verdict = "SUCCESS"
<1>1. \A s \in job.subs : TruthfulSubmission(s)
  BY TruthfulBySubmission DEF ReceiptInv
<1>2. \A h \in job.seen : \E t \in txs : t.hash = h /\ t.verdict = "SUCCESS"
  BY DEF ReceiptInv
<1>3. CASE Prepares(job, n)  BY <1>1, <1>2, <1>3 DEF Prepares
<1>4. CASE Resets(job, n)  BY <1>1, <1>4 DEF Resets
<1>5. CASE Files(job, n)
  <2>1. PICK d \in Calls :
          /\ pc[d] \in AboutReceipt /\ arg[d] \in Receipt
          /\ \/ n.subs = job.subs \cup {[hash |-> arg[d].hash, pkg |-> arg[d].pkg,
                                         status |-> "PENDING"]}
             \/ /\ arg[d].hash \in job.seen
                /\ n.subs = Confirmed(job, arg[d])
             \/ \E v \in {"REVERTED", "REJECTED"} :
                  Tx(arg[d], v) \in txs /\ n.subs = Marked(job, arg[d], v).subs
    BY <1>5 DEF Files
  <2>2. Visible(arg[d])  BY <2>1 DEF ReceiptInv
  <2>3. job \in Job  BY DEF IndInv, TypeOK
  <2>4. n.seen = job.seen  BY <1>5 DEF Files
  <2>5. CASE n.subs = job.subs \cup {[hash |-> arg[d].hash, pkg |-> arg[d].pkg,
                                      status |-> "PENDING"]}
    <3> DEFINE pending == [hash |-> arg[d].hash, pkg |-> arg[d].pkg, status |-> "PENDING"]
    <3>1. TruthfulSubmission(pending)
      BY <2>2 DEF TruthfulSubmission, Visible, Tx
    <3> HIDE DEF pending
    <3>2. n.subs = job.subs \cup {pending}  BY <2>5 DEF pending
    <3>3. QED  BY <1>1, <1>2, <2>4, <3>1, <3>2
  <2>6. CASE arg[d].hash \in job.seen /\ n.subs = Confirmed(job, arg[d])
    <3>1. Tx(arg[d], Meaning("CONFIRMED")) \in txs
      BY <2>2, <2>6, SeenSettles DEF Meaning
    <3>2. n.subs = Stamped(job.subs, arg[d], "CONFIRMED")
      BY <2>3, <2>6, PatchesStamp
    <3>3. QED  BY <1>2, <2>1, <2>4, <3>1, <3>2, StampKeeps
  <2>7. ASSUME NEW v \in {"REVERTED", "REJECTED"}, Tx(arg[d], v) \in txs,
               n.subs = Marked(job, arg[d], v).subs
        PROVE  /\ \A t \in n.subs : TruthfulSubmission(t)
               /\ \A s \in job.subs : s.status # "PENDING" => s \in n.subs
               /\ \A h \in n.seen : \E t \in txs : t.hash = h /\ t.verdict = "SUCCESS"
    <3>1. Tx(arg[d], Meaning(v)) \in txs  BY <2>7 DEF Meaning
    <3>2. n.subs = Stamped(job.subs, arg[d], v)  BY <2>3, <2>7, PatchesStamp
    <3>3. QED  BY <1>2, <2>1, <2>4, <3>1, <3>2, StampKeeps
  <2>8. QED  BY <2>1, <2>5, <2>6, <2>7
<1>6. CASE Verifies(job, n)
  <2>1. PICK r \in Receipt : Tx(r, "SUCCESS") \in txs /\ n = Reported(job, r)
    BY <1>6 DEF Verifies
  <2>2. job \in Job  BY DEF IndInv, TypeOK
  <2>3. n.seen = job.seen \cup {r.hash} /\ n.subs = Confirmed(job, r)
    BY <2>1, <2>2, ReportedKeeps
  <2>4. n.subs = Stamped(job.subs, r, "CONFIRMED")  BY <2>2, <2>3, PatchesStamp
  <2>5. Tx(r, Meaning("CONFIRMED")) \in txs  BY <2>1 DEF Meaning
  <2>6. Tx(r, "SUCCESS").hash = r.hash /\ Tx(r, "SUCCESS").verdict = "SUCCESS"
    BY DEF Tx
  <2>7. QED  BY <1>2, <2>1, <2>3, <2>4, <2>5, <2>6, StampKeeps
<1>7. CASE Issues(job, n)  BY <1>1, <1>2, <1>7 DEF Issues
<1>8. QED  BY <1>3, <1>4, <1>5, <1>6, <1>7 DEF Changes

\* ReceiptInv is inductive over the reachable steps.
LEMMA NextReceipts == IndInv /\ ReceiptInv /\ [Next]_vars => ReceiptInv'
<1> SUFFICES ASSUME IndInv, ReceiptInv, [Next]_vars PROVE ReceiptInv'  OBVIOUS
<1>1. /\ OneTransaction'
      /\ \A t \in txs : t.verdict # "SEEN" => t \in txs'
      /\ \A r : Visible(r) => Visible(r)'
  BY ChainKeeps DEF ReceiptInv
<1>2. IndInv'  BY NextInv
<1>3. (\A c \in Calls : pc[c] \in AboutReceipt => Visible(arg[c]))'
  <2>1. \A c \in Calls : pc'[c] \in AboutReceipt => Visible(arg'[c])
    BY ArgsVisible
  <2>2. QED  BY <1>1, <2>1 DEF Visible
<1>4. /\ \A s \in job'.subs : TruthfulSubmission(s)
      /\ \A h \in job'.seen : \E t \in txs : t.hash = h /\ t.verdict = "SUCCESS"
  <2>1. CASE job' = job  BY <2>1, TruthfulBySubmission DEF ReceiptInv
  <2>2. CASE Changes(job, job')  BY <2>2, ChangesSubmissions
  <2>3. QED  BY <2>1, <2>2, StoredChange
<1>5. \A s \in job'.subs : TruthfulSubmission(s)'
  <2> SUFFICES ASSUME NEW s \in job'.subs PROVE TruthfulSubmission(s)'  OBVIOUS
  <2>1. s.status \in SubmissionStatus  BY <1>2 DEF IndInv, TypeOK, Job, Submission
  <2>2. s.status # "PENDING" => Meaning(s.status) # "SEEN"
    BY <2>1 DEF SubmissionStatus, Meaning
  <2>3. Tx(s, Meaning(s.status)).verdict = Meaning(s.status)  BY DEF Tx
  <2>4. QED  BY <1>1, <1>4, <2>2, <2>3 DEF TruthfulSubmission
<1>6. \A h \in job'.seen : \E t \in txs' : t.hash = h /\ t.verdict = "SUCCESS"
  BY <1>1, <1>4
<1>7. (TruthfulReceipts /\ \A s \in job.subs : Visible(s))'
  <2>1. \A s \in job'.subs : s.status \in SubmissionStatus
    BY <1>2 DEF IndInv, TypeOK, Job, Submission
  <2>2. QED
    BY <1>5, <2>1 DEF TruthfulReceipts, TruthfulSubmission, Meaning, SubmissionStatus
<1>8. QED  BY <1>1, <1>3, <1>6, <1>7 DEF ReceiptInv

\* A new job has no receipt, and no call is about one.
LEMMA InitReceipts == Init => ReceiptInv
<1> SUFFICES ASSUME Init PROVE ReceiptInv  OBVIOUS
<1>1. job.subs = {} /\ job.seen = {} /\ txs = {}
  BY DEF Init, Quiet, NewJob
<1>2. \A c \in Calls : pc[c] \notin AboutReceipt
  BY DEF Init, Quiet, Unengaged, AboutReceipt
<1>3. QED  BY <1>1, <1>2 DEF ReceiptInv, OneTransaction, TruthfulReceipts

\* The invariant of the receipts holds in every behaviour.
LEMMA ReceiptInvariance == Spec => []ReceiptInv
<1>1. QED  BY InitReceipts, NextReceipts, Invariance, PTL DEF Spec

\* registerBuyerReceipt, reconcileBuyerReceiptSubmission and the two status
\* patches, through every conflict and retry: a stored status is the verdict.
THEOREM ReceiptsAreTruthful == Spec => []TruthfulReceipts
<1>1. ReceiptInv => TruthfulReceipts  BY DEF ReceiptInv
<1>2. QED  BY <1>1, ReceiptInvariance, PTL

\* No step, not even setReceiptSubmissionStatus writing without a look at the
\* present status, turns a settled submission back or drops it.
THEOREM SettledReceiptsAreFinal == Spec => SettledReceiptsStay
<1>1. IndInv /\ ReceiptInv /\ [Next]_vars
        => [\A s \in job.subs : s.status # "PENDING" => s \in job'.subs]_vars
  <2> SUFFICES ASSUME IndInv, ReceiptInv, [Next]_vars
               PROVE  \A s \in job.subs : s.status # "PENDING" => s \in job'.subs
    OBVIOUS
  <2>1. CASE job' = job  BY <2>1
  <2>2. CASE Changes(job, job')  BY <2>2, ChangesSubmissions
  <2>3. QED  BY <2>1, <2>2, StoredChange
<1>2. QED
  BY <1>1, Invariance, ReceiptInvariance, PTL DEF Spec, SettledReceiptsStay

\* A registered hash stays registered for its package.
RegistrationsStay ==
  [][\A s \in job.subs : \E t \in job'.subs : t.hash = s.hash /\ t.pkg = s.pkg]_vars

\* Stamping a list keeps the hash and the package of each of its entries.
LEMMA StampedStay ==
  ASSUME NEW S \in SUBSET Submission, NEW r, NEW v, NEW s \in S
  PROVE  \E t \in Stamped(S, r, v) : t.hash = s.hash /\ t.pkg = s.pkg
<1>1. s \in Submission  OBVIOUS
<1>2. [s EXCEPT !.status = v].hash = s.hash /\ [s EXCEPT !.status = v].pkg = s.pkg
  BY <1>1 DEF Submission
<1>3. CASE s.hash = r.hash /\ s.pkg = r.pkg
  <2>1. [s EXCEPT !.status = v] \in Stamped(S, r, v)  BY <1>3 DEF Stamped
  <2>2. QED  BY <1>2, <2>1
<1>4. CASE ~(s.hash = r.hash /\ s.pkg = r.pkg)
  <2>1. s \in Stamped(S, r, v)  BY <1>4 DEF Stamped
  <2>2. QED  BY <2>1
<1>5. QED  BY <1>3, <1>4

\* What registerBuyerReceipt answered with success is never undone: no refresh of
\* the packages, monitor answer, report or stale retry drops a registered hash,
\* so whoever registered one may leave the rest to the schedule.
THEOREM RegistrationsAreKept == Spec => RegistrationsStay
<1>1. IndInv /\ [Next]_vars
        => [\A s \in job.subs : \E t \in job'.subs : t.hash = s.hash /\ t.pkg = s.pkg]_vars
  <2> SUFFICES ASSUME IndInv, [Next]_vars, NEW s \in job.subs
               PROVE  \E t \in job'.subs : t.hash = s.hash /\ t.pkg = s.pkg
    OBVIOUS
  <2>1. job \in Job /\ job.subs \in SUBSET Submission  BY DEF IndInv, TypeOK, Job
  <2>2. CASE job'.subs = job.subs  BY <2>2
  <2>3. CASE Files(job, job')
    <3>1. CASE job.subs \subseteq job'.subs  BY <3>1
    <3>2. ASSUME NEW d \in Calls, NEW v, job'.subs = Stamped(job.subs, arg[d], v)
          PROVE  \E t \in job'.subs : t.hash = s.hash /\ t.pkg = s.pkg
      BY <2>1, <3>2, StampedStay
    <3>3. QED  BY <2>1, <2>3, <3>1, <3>2, PatchesStamp DEF Files
  <2>4. CASE Verifies(job, job')
    <3>1. PICK r \in Receipt : job' = Reported(job, r)  BY <2>4 DEF Verifies
    <3>2. job'.subs = Stamped(job.subs, r, "CONFIRMED")
      BY <2>1, <3>1, ReportedKeeps, PatchesStamp
    <3>3. QED  BY <2>1, <3>2, StampedStay
  <2>5. job' = job \/ Changes(job, job')  BY StoredChange
  <2>6. QED  BY <2>2, <2>3, <2>4, <2>5 DEF Changes, Prepares, Resets, Issues
<1>2. QED  BY <1>1, Invariance, PTL DEF Spec, RegistrationsStay

-----------------------------------------------------------------------------
(* The issues.  LiveIssueIsCurrent needs to know that a call which is going *)
(* to build found nothing live to hand out, and still does: what it read    *)
(* was empty or had an expired package, and the list it reads is one issue. *)

\* Nothing in a package list can be handed out as it is.
Spent(P) == P = {} \/ P \cap expired # {}

IssueInv ==
  /\ job.pkgs \subseteq delivered
  /\ \A p, q \in job.pkgs : p.issue = q.issue
  /\ \A c \in Calls : pc[c] \in {"resimulate", "build"} => Spent(snap[c].pkgs)
  /\ LiveIssueIsCurrent

\* Only an issue touches the packages of a stored document.
LEMMA ChangesPackages ==
  ASSUME IndInv, NEW n, Changes(job, n), n.pkgs # job.pkgs
  PROVE  Issues(job, n)
<1>1. CASE Verifies(job, n)
  <2>1. PICK r \in Receipt : n = Reported(job, r)  BY <1>1 DEF Verifies
  <2>2. job \in Job  BY DEF IndInv, TypeOK
  <2>3. n.pkgs = job.pkgs  BY <2>1, <2>2, ReportedKeeps
  <2>4. QED  BY <2>3
<1>2. QED  BY <1>1 DEF Changes, Prepares, Resets, Files

\* Packages that expired stay expired, and none expires while the document
\* changes.
LEMMA ExpiryStep ==
  ASSUME IndInv, [Next]_vars
  PROVE  expired \subseteq expired' /\ (job' # job => expired' = expired)
<1>1. CASE UNCHANGED vars  BY <1>1 DEF vars
<1>2. ASSUME NEW c \in Clients, Request(c) PROVE expired' = expired
  BY <1>2 DEF Request, AnalyseRead, PlanRead, SimulateRead, DashboardRead, MonitorRead,
     SigningReturn, SigningRead, RouteCheck, ReportStart, Open, worldVars
<1>3. ASSUME NEW r \in Receipts, CronPick(r) PROVE expired' = expired
  BY <1>3 DEF CronPick, Rest, worldVars
<1>4. ASSUME NEW c \in Calls, Resume(c) \/ Crash(c) PROVE expired' = expired
  BY <1>4 DEF Resume, Crash, Rest, worldVars, AnalyseSave, AnalyseDone, PlanDone,
     SimulateDone, DashboardSave, MonitorDone, Resimulate, Build, RegisterRead,
     RegisterSave, ReconcileRead, ReportRead, ConfirmSave, ReportVerify, MarkSave, MarkRead
<1>5. CASE World
  <2>1. job' = job  BY <1>5, WorldSteps
  <2>2. expired \subseteq expired'  BY <1>5 DEF World, Broadcast, Finalise, Expire
  <2>3. QED  BY <2>1, <2>2
<1>6. QED  BY <1>1, <1>2, <1>3, <1>4, <1>5 DEF Next

\* A package is handed out when it is stored, or because it is.
LEMMA HandOutStep ==
  ASSUME IndInv, [Next]_vars
  PROVE  \/ delivered' = delivered
         \/ delivered' = delivered \cup job'.pkgs
<1>1. CASE UNCHANGED vars  BY <1>1 DEF vars
<1>2. ASSUME NEW c \in Clients, Request(c)
      PROVE  delivered' = delivered \/ delivered' = delivered \cup job'.pkgs
  BY <1>2 DEF Request, AnalyseRead, PlanRead, SimulateRead, DashboardRead, MonitorRead,
     SigningReturn, SigningRead, RouteCheck, ReportStart, Open
<1>3. ASSUME NEW r \in Receipts, CronPick(r) PROVE delivered' = delivered
  BY <1>3 DEF CronPick, Rest
<1>4. ASSUME NEW c \in Calls, Crash(c) PROVE delivered' = delivered
  BY <1>4 DEF Crash
<1>5. ASSUME NEW c \in Calls, Build(c)
      PROVE  delivered' = delivered \/ delivered' = delivered \cup job'.pkgs
  <2>1. CASE delivered' # delivered
    <3>1. PICK built \in SUBSET snap[c].executable :
            /\ job' = Update([snap[c] EXCEPT !.pkgs = IssueOf(built)])
            /\ delivered' = delivered \cup IssueOf(built)
      BY <1>5, <2>1 DEF Build, IssueOf
    <3> DEFINE patched == [snap[c] EXCEPT !.pkgs = IssueOf(built)]
    <3>2. snap[c] \in Job  BY <1>5 DEF Build, Holding, IndInv, CallInv
    <3>3. built \in SUBSET Actions /\ issues + 1 \in Nat
      BY <3>2 DEF Job, IndInv, TypeOK
    <3>4. IssueOf(built) \in SUBSET Package  BY <3>3 DEF IssueOf, Package
    <3>5. patched \in Job /\ patched.pkgs = IssueOf(built)
      BY <3>2, <3>4 DEF Job
    <3>6. job' = Update(patched)  BY <3>1
    <3> HIDE DEF patched
    <3>7. job'.pkgs = IssueOf(built)  BY <3>5, <3>6, UpdateKeeps
    <3>8. QED  BY <3>1, <3>7
  <2>2. QED  BY <2>1
<1>6. ASSUME NEW c \in Calls, Resume(c), ~Build(c) PROVE delivered' = delivered
  BY <1>6 DEF Resume, Rest, AnalyseSave, AnalyseDone, PlanDone, SimulateDone,
     DashboardSave, MonitorDone, Resimulate, RegisterRead, RegisterSave, ReconcileRead,
     ReportRead, ConfirmSave, ReportVerify, MarkSave, MarkRead
<1>7. CASE World
  BY <1>7 DEF World, Broadcast, Finalise, Expire
<1>8. QED  BY <1>1, <1>2, <1>3, <1>4, <1>5, <1>6, <1>7 DEF Next

-----------------------------------------------------------------------------
\* Only getSigningPackages goes on to build, and only after finding nothing to
\* hand out: in the stored job, or in what it read before simulating again.
LEMMA BuildersFoundNothing ==
  ASSUME IndInv, IssueInv, [Next]_vars, NEW d \in Calls,
         pc'[d] \in {"resimulate", "build"}
  PROVE  Spent(snap'[d].pkgs)
<1>1. CASE pc'[d] = pc[d] /\ snap'[d] = snap[d]  BY <1>1 DEF IssueInv
<1>2. CASE UNCHANGED vars  BY <1>1, <1>2 DEF vars
<1>3. ASSUME NEW c \in Clients, Request(c) PROVE Spent(snap'[d].pkgs)
  <2>1. c \in Calls  BY DEF Calls
  <2>2. CASE UNCHANGED callVars  BY <1>1, <2>2 DEF callVars
  <2>3. CASE GoodStep(c) /\ d # c  BY <1>1, <2>3 DEF GoodStep, OnlyCall
  <2>4. CASE d = c
    <3>1. ASSUME NEW stage \in {"analyse", "plan", "simulate", "dashboard", "monitor"},
                 Open(c, stage)
          PROVE  FALSE
      BY <2>1, <2>4, <3>1 DEF Open, Start, IndInv, TypeOK
    <3>2. CASE SigningReturn(c)  BY <2>2, <3>2 DEF SigningReturn
    <3>3. ASSUME NEW r \in Receipts, RouteCheck(c, r) \/ ReportStart(c, r)
          PROVE  FALSE
      BY <2>1, <2>4, <3>3 DEF RouteCheck, ReportStart, Start, IndInv, TypeOK
    <3>4. CASE SigningRead(c)
      <4>1. Spent(job.pkgs)  BY <3>4 DEF SigningRead, Spent
      <4>2. snap' = [snap EXCEPT ![c] = job]  BY <3>4 DEF SigningRead, Open
      <4>3. snap'[d] = job  BY <2>1, <2>4, <4>2 DEF IndInv, TypeOK
      <4>4. QED  BY <4>1, <4>3
    <3>5. QED
      BY <1>3, <3>1, <3>2, <3>3, <3>4
         DEF Request, AnalyseRead, PlanRead, SimulateRead, DashboardRead, MonitorRead
  <2>5. QED  BY <1>3, <2>1, <2>2, <2>3, <2>4, RequestSteps
<1>4. ASSUME NEW r \in Receipts, CronPick(r) PROVE Spent(snap'[d].pkgs)
  <2>1. Cron \in Calls  BY DEF Calls
  <2>2. CASE d # Cron  BY <1>1, <1>4, <2>1, <2>2, CronPickStep DEF GoodStep, OnlyCall
  <2>3. CASE d = Cron  BY <1>4, <2>1, <2>3 DEF CronPick, IndInv, TypeOK
  <2>4. QED  BY <2>2, <2>3
<1>5. ASSUME NEW c \in Calls, Crash(c) PROVE Spent(snap'[d].pkgs)
  <2>1. CASE d = c  BY <1>5, <2>1 DEF Crash, End, IndInv, TypeOK
  <2>2. CASE d # c  BY <1>1, <1>5, <2>2, CrashStep DEF GoodStep, OnlyCall
  <2>3. QED  BY <2>1, <2>2
<1>6. ASSUME NEW c \in Calls, Resume(c) PROVE Spent(snap'[d].pkgs)
  <2>1. CASE d # c  BY <1>1, <1>6, <2>1, ResumeSteps DEF GoodStep, OnlyCall
  <2>2. CASE d = c /\ Resimulate(c)
    <3>1. Spent(snap[c].pkgs) /\ snap[c] \in Job
      BY <2>2 DEF Resimulate, IssueInv, Holding, IndInv, CallInv
    <3>2. CASE End(c)  BY <2>2, <3>2 DEF End, IndInv, TypeOK
    <3>3. CASE ~End(c)
      <4>1. PICK executable \in SUBSET Actions :
              snap' = [snap EXCEPT ![c] = Update([snap[c] EXCEPT !.executable = executable])]
        BY <2>2, <3>3 DEF Resimulate
      <4> DEFINE patched == [snap[c] EXCEPT !.executable = executable]
      <4>2. patched \in Job /\ patched.pkgs = snap[c].pkgs  BY <3>1 DEF Job
      <4>3. snap' = [snap EXCEPT ![c] = Update(patched)]  BY <4>1
      <4> HIDE DEF patched
      <4>4. snap'[d] = Update(patched)  BY <2>2, <4>3 DEF IndInv, TypeOK
      <4>5. snap'[d].pkgs = snap[c].pkgs  BY <4>2, <4>4, UpdateKeeps
      <4>6. QED  BY <3>1, <4>5
    <3>4. QED  BY <3>2, <3>3
  <2>3. CASE d = c /\ ~Resimulate(c)
    <3>1. \/ End(c)
          \/ \E stage \in {"analysing", "register", "registering", "reconcile", "report",
                           "verifying", "confirm", "mark", "remark"} :
               pc' = [pc EXCEPT ![c] = stage]
      BY <1>6, <2>3 DEF Resume, AnalyseSave, AnalyseDone, PlanDone, SimulateDone,
         DashboardSave, MonitorDone, Build, MoveAndEnd, SaveAndEnd, RegisterRead,
         RegisterSave, ReconcileRead, ReportRead, ConfirmSave, ReportVerify, MarkSave,
         MarkRead, Read, Reconcile, Throw, Retry, StillPending
    <3>2. CASE End(c)  BY <2>3, <3>2 DEF End, IndInv, TypeOK
    <3>3. ASSUME NEW stage \in {"analysing", "register", "registering", "reconcile", "report",
                                "verifying", "confirm", "mark", "remark"},
                 pc' = [pc EXCEPT ![c] = stage]
          PROVE  FALSE
      BY <2>3, <3>3 DEF IndInv, TypeOK
    <3>4. QED  BY <3>1, <3>2, <3>3
  <2>4. QED  BY <2>1, <2>2, <2>3
<1>7. CASE World  BY <1>1, <1>7, WorldSteps DEF callVars
<1>8. QED  BY <1>2, <1>3, <1>4, <1>5, <1>6, <1>7 DEF Next

-----------------------------------------------------------------------------
\* All packages of a list have the issue as which it was built.
LEMMA OneIssue ==
  ASSUME NEW built \in SUBSET Actions, NEW p \in IssueOf(built), NEW q \in IssueOf(built)
  PROVE  p.issue = q.issue
BY DEF IssueOf

\* A list that replaces another leaves no live package behind: the one it
\* replaces had one issue, and a package of it had expired.
LEMMA IssueReplacesTheDead ==
  ASSUME IndInv, IssueInv, Issues(job, job'), expired' = expired
  PROVE  LiveIssueIsCurrent'
<1>1. Spent(job.pkgs)  BY DEF Issues, IssueInv
<1>2. delivered' = delivered \cup job'.pkgs  BY DEF Issues
<1> SUFFICES ASSUME NEW p \in delivered',
                    \A q \in delivered' : q.issue = p.issue => q \notin expired'
             PROVE  p \in job'.pkgs
  BY DEF LiveIssueIsCurrent
<1>3. CASE p \in delivered
  <2>1. \A q \in delivered : q.issue = p.issue => q \notin expired  BY <1>2
  <2>2. p \in job.pkgs  BY <1>3, <2>1 DEF IssueInv, LiveIssueIsCurrent
  <2>3. PICK e \in job.pkgs : e \in expired  BY <1>1, <2>2 DEF Spent
  <2>4. e.issue = p.issue /\ e \in delivered  BY <2>2 DEF IssueInv
  <2>5. QED  BY <2>1, <2>3, <2>4
<1>4. QED  BY <1>2, <1>3

\* IssueInv is inductive over the reachable steps.
LEMMA NextIssues == IndInv /\ IssueInv /\ [Next]_vars => IssueInv'
<1> SUFFICES ASSUME IndInv, IssueInv, [Next]_vars PROVE IssueInv'  OBVIOUS
<1>1. /\ expired \subseteq expired'
      /\ job' # job => expired' = expired
  BY ExpiryStep
<1>2. (\A c \in Calls : pc[c] \in {"resimulate", "build"} => Spent(snap[c].pkgs))'
  <2>1. \A P : Spent(P) => Spent(P)'  BY <1>1 DEF Spent
  <2>2. \A c \in Calls : pc'[c] \in {"resimulate", "build"} => Spent(snap'[c].pkgs)
    BY BuildersFoundNothing
  <2>3. QED  BY <2>1, <2>2 DEF Spent
<1>3. CASE job'.pkgs = job.pkgs
  <2>1. delivered' = delivered  BY <1>3, HandOutStep DEF IssueInv
  <2>2. LiveIssueIsCurrent'  BY <1>1, <1>3, <2>1 DEF IssueInv, LiveIssueIsCurrent
  <2>3. QED  BY <1>2, <1>3, <2>1, <2>2 DEF IssueInv
<1>4. CASE job'.pkgs # job.pkgs
  <2>1. Issues(job, job') /\ expired' = expired
    BY <1>1, <1>4, StoredChange, ChangesPackages
  <2>2. LiveIssueIsCurrent'  BY <2>1, IssueReplacesTheDead
  <2>3. job'.pkgs \subseteq delivered'  BY <2>1 DEF Issues
  <2>4. \A p, q \in job'.pkgs : p.issue = q.issue  BY <2>1, OneIssue DEF Issues
  <2>5. QED  BY <1>2, <2>2, <2>3, <2>4 DEF IssueInv
<1>5. QED  BY <1>3, <1>4

\* A new job has no package, and none was handed out.
LEMMA InitIssues == Init => IssueInv
<1> SUFFICES ASSUME Init PROVE IssueInv  OBVIOUS
<1>1. job.pkgs = {} /\ delivered = {}  BY DEF Init, Quiet, NewJob
<1>2. \A c \in Calls : pc[c] = "idle"  BY DEF Init, Quiet, Unengaged
<1>3. QED  BY <1>1, <1>2 DEF IssueInv, LiveIssueIsCurrent

\* getSigningPackages, in any interleaving of builders, reports and expiries:
\* live packages some buyer was handed are the packages the job stores.
THEOREM LivePackagesAreStored == Spec => []LiveIssueIsCurrent
<1>1. IssueInv => LiveIssueIsCurrent  BY DEF IssueInv
<1>2. Spec => []IssueInv  BY InitIssues, NextIssues, Invariance, PTL DEF Spec
<1>3. QED  BY <1>1, <1>2, PTL
=============================================================================
