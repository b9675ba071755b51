---------------------------- MODULE RescuePromise ---------------------------
(***************************************************************************)
(* What the agent service promises a buyer about one rescue, whoever calls *)
(* it and in whatever order: it reports an action rescued only after the   *)
(* chain has rescued it, never takes such a report back, calls the rescue  *)
(* complete only when every action of the plan is reported, and never      *)
(* leaves a final phase.                                                   *)
(***************************************************************************)
CONSTANT Actions

VARIABLES phase,      \* what the buyer is told
          reported,   \* actions reported rescued
          rescued     \* actions the chain has rescued

promiseVars == <<phase, reported, rescued>>

Phase == {"PREPARING", "OFFERED", "RESCUING", "DONE", "PARTLY", "FAILED"}

PromiseTypeOK == /\ phase \in Phase
                 /\ reported \subseteq Actions
                 /\ rescued \subseteq Actions

PromiseInit == phase = "PREPARING" /\ reported = {} /\ rescued = {}

\* The chain settles one more transfer of the plan.
Rescue(a) == /\ rescued' = rescued \cup {a}
             /\ UNCHANGED <<phase, reported>>

Offer == /\ phase = "PREPARING"
         /\ phase' = "OFFERED"
         /\ UNCHANGED <<reported, rescued>>

\* One settled action is reported; the rescue may end with that report.
Report(a) == /\ phase \in {"OFFERED", "RESCUING"}
             /\ a \in rescued
             /\ reported' = reported \cup {a}
             /\ \/ phase' \in {"RESCUING", "PARTLY"}
                \/ phase' = "DONE" /\ reported' = Actions
             /\ UNCHANGED rescued

GiveUp == /\ phase \in {"PREPARING", "OFFERED", "RESCUING"}
          /\ phase' = "FAILED"
          /\ UNCHANGED <<reported, rescued>>

PromiseNext == \/ \E a \in Actions : Rescue(a) \/ Report(a)
               \/ Offer
               \/ GiveUp

PromiseSpec == PromiseInit /\ [][PromiseNext]_promiseVars
=============================================================================
