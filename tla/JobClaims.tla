------------------------------ MODULE JobClaims -----------------------------
(***************************************************************************)
(* A sentence of the repository's documents about one job that the service *)
(* does not keep; its run finds it violated.                               *)
(***************************************************************************)
EXTENDS MCJobService

\* packages/agent-service/README.md:43: "Mixed rescues remain `EXECUTING` until
\* every issued package has a verified report".  The deployed monitor answers
\* WAITING_FOR_USER, which monitorRescue takes for a regression of an executing
\* job: one monitor request fails the rescue.
MixedRescueStaysExecuting ==
  [][job.status = "EXECUTING" /\ ~(IssuedActions(job') \subseteq job'.done)
       => job'.status = "EXECUTING"]_vars
=============================================================================
