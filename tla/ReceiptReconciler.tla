-------------------------- MODULE ReceiptReconciler -------------------------
(***************************************************************************)
(* The scheduled reconciliation over all stored jobs                       *)
(* (apps/web/src/app/api/cron/reconcile-rescues/route.ts and listByStatuses *)
(* of packages/persistence/src/agent-job-store.ts).  A run lists the Limit *)
(* active jobs that were written longest ago, and reconciles each receipt  *)
(* that was pending in that listing, one service call at a time.  What a   *)
(* single reconciliation does to its job is JobService; here it is one     *)
(* step that settles the receipt if the chain has decided it.              *)
(***************************************************************************)
EXTENDS Naturals, Sequences, FiniteSets, SequencesExt

CONSTANTS Jobs, Hashes,
          Limit,      \* listByStatuses(..., 25)
          MaxKills    \* bound: runs cut off at maxDuration

ASSUME LimitAssumption == Limit \in Nat \ {0} /\ MaxKills \in Nat

Receipt == [job : Jobs, hash : Hashes]

VARIABLES
  fresh,    \* jobs not yet waiting for their buyer
  queue,    \* jobs in an active status, least recently written first
  pending,  \* registered receipts still stored as PENDING
  settled,  \* receipts stored with a verdict
  final,    \* receipts the chain has decided
  running,  \* a run is in progress
  batch,    \* jobs of the run's listing not yet gone through
  listed,   \* receipts pending in that listing, not yet reconciled
  kills

vars == <<fresh, queue, pending, settled, final, running, batch, listed, kills>>
runVars == <<running, batch, listed, kills>>

TypeOK == /\ fresh \subseteq Jobs
          /\ queue \in Seq(Jobs) /\ IsInjective(queue)
          /\ pending \subseteq Receipt /\ settled \subseteq Receipt
          /\ final \subseteq Receipt
          /\ running \in BOOLEAN
          /\ batch \in Seq(Jobs) /\ Len(batch) <= Limit
          /\ listed \subseteq Receipt
          /\ kills \in 0 .. MaxKills

Init == /\ fresh = Jobs /\ queue = <<>>
        /\ pending = {} /\ settled = {} /\ final = {}
        /\ running = FALSE /\ batch = <<>> /\ listed = {} /\ kills = 0

-----------------------------------------------------------------------------
(* Service calls on the stored jobs: each one that writes a job moves it to *)
(* the end of the order by updatedAt, or out of the active statuses.        *)

Active(j)  == j \in ToSet(queue)
Without(j) == SelectSeq(queue, LAMBDA k : k # j)
Written(j) == Append(Without(j), j)

Offer(j) == /\ j \in fresh
            /\ fresh' = fresh \ {j}
            /\ queue' = Append(queue, j)
            /\ UNCHANGED <<pending, settled, final, runVars>>

\* Any write that leaves the job active, such as getDashboardUrl.
Touch(j) == /\ Active(j)
            /\ queue' = Written(j)
            /\ UNCHANGED <<fresh, pending, settled, final, runVars>>

Register(r) == /\ Active(r.job)
               /\ r \notin pending \cup settled
               /\ pending' = pending \cup {r}
               /\ queue' = Written(r.job)
               /\ UNCHANGED <<fresh, settled, final, runVars>>

\* A reconciliation that finds the receipt decided: the job stays active or
\* becomes terminal with it.
Settle(r) == /\ pending' = pending \ {r}
             /\ settled' = settled \cup {r}
             /\ queue' \in {Written(r.job), Without(r.job)}

\* The after-response worker of the receipt route, while it lives.
WorkerSettles(r) == /\ r \in pending \cap final /\ Active(r.job)
                    /\ Settle(r)
                    /\ UNCHANGED <<fresh, final, runVars>>

\* The job fails, and its receipts stay as they are.
Fail(j) == /\ Active(j)
           /\ queue' = Without(j)
           /\ UNCHANGED <<fresh, pending, settled, final, runVars>>

Decide(r) == /\ r \in pending \ final
             /\ final' = final \cup {r}
             /\ UNCHANGED <<fresh, queue, pending, settled, runVars>>

-----------------------------------------------------------------------------
(* The scheduled run.                                                      *)

\* Mutant of Listing: most recently written first.
NewestFirst == SubSeq(Reverse(queue), 1, IF Len(queue) < Limit THEN Len(queue) ELSE Limit)
Listing == SubSeq(queue, 1, IF Len(queue) < Limit THEN Len(queue) ELSE Limit)

CronList == /\ ~running
            /\ running' = TRUE
            /\ batch' = Listing
            /\ listed' = {r \in pending : r.job \in ToSet(Listing)}
            /\ UNCHANGED <<fresh, queue, pending, settled, final, kills>>

\* The next receipt of the job at hand.  One that is already settled, not
\* decided, or of a job no longer active is answered or refused without a write.
CronReconcile(r) ==
  /\ running /\ batch # <<>> /\ r.job = Head(batch) /\ r \in listed
  /\ listed' = listed \ {r}
  /\ IF r \in pending \cap final /\ Active(r.job)
     THEN Settle(r) ELSE UNCHANGED <<pending, settled, queue>>
  /\ UNCHANGED <<fresh, final, running, batch, kills>>

CronNextJob == /\ running /\ batch # <<>>
               /\ \A r \in listed : r.job # Head(batch)
               /\ batch' = Tail(batch)
               /\ UNCHANGED <<fresh, queue, pending, settled, final, running, listed, kills>>

CronEnd == /\ running /\ batch = <<>>
           /\ running' = FALSE
           /\ UNCHANGED <<fresh, queue, pending, settled, final, batch, listed, kills>>

\* maxDuration: the platform ends the run wherever it is.
CronKilled == /\ running /\ kills < MaxKills
              /\ kills' = kills + 1
              /\ running' = FALSE /\ batch' = <<>> /\ listed' = {}
              /\ UNCHANGED <<fresh, queue, pending, settled, final>>

CronStep == CronList \/ (\E r \in Receipt : CronReconcile(r)) \/ CronNextJob \/ CronEnd

Next == \/ \E j \in Jobs : Offer(j) \/ Touch(j) \/ Fail(j)
        \/ \E r \in Receipt : Register(r) \/ WorkerSettles(r) \/ Decide(r)
        \/ CronStep
        \/ CronKilled

\* The schedule goes on for ever, and a run that is not killed goes on.
\* Nothing is assumed of buyers, workers or the chain.
Spec == Init /\ [][Next]_vars /\ WF_vars(CronStep)

-----------------------------------------------------------------------------
\* A receipt is Due when the chain has decided it and its job still waits.
Due(r) == r \in pending \cap final /\ Active(r.job)

Ahead(j) == {k \in ToSet(queue) :
               \E m, n \in 1 .. Len(queue) : m < n /\ queue[m] = k /\ queue[n] = j}
WithinReach(j) == Cardinality(Ahead(j)) < Limit

\* A due receipt whose job is among the Limit least recently written is settled,
\* unless its job is written meanwhile and falls behind: the listing is taken
\* once per run, so a receipt decided after it, or a run that is killed, must be
\* made good by a later run.
ReachedReceiptsSettle ==
  \A r \in Receipt : Due(r) /\ WithinReach(r.job) ~> ~Due(r) \/ ~WithinReach(r.job)
=============================================================================
