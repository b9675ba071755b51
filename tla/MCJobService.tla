---------------------------- MODULE MCJobService ----------------------------
(***************************************************************************)
(* Instances of JobService for TLC.  The later runs start from states the  *)
(* earlier operations reach, so that their bounds are spent on what they   *)
(* ask about.                                                              *)
(***************************************************************************)
EXTENDS JobService, TLC

\* A job simulatePlan has just left.
ReadyJob(executable) ==
  [NewJob(TRUE) EXCEPT !.status = "WAITING_FOR_USER", !.revision = 4,
                       !.scan = TRUE, !.plan = TRUE,
                       !.simulated = TRUE, !.executable = executable]

\* All hashes but one were spent before: on a list nobody knows any more.
ReadyInit ==
  /\ Unengaged /\ job = ReadyJob(Actions)
  /\ expired = {} /\ delivered = {}
  /\ issues = 0 /\ starts = 0 /\ faults = 0
  /\ \E h \in Hashes, a \in Actions :
       txs = {[hash |-> other, pkg |-> [issue |-> 0, action |-> a],
               verdict |-> "REVERTED"] : other \in Hashes \ {h}}

\* The same job with its second package list issued and handed out, and one
\* final transaction per hash: what remains is who records which verdict, and
\* when.
IssuedInit ==
  /\ Unengaged
  /\ expired = {[issue |-> 1, action |-> a] : a \in Actions}
  /\ starts = 0 /\ faults = 0 /\ issues = 2
  /\ \E built \in SUBSET Actions \ {{}} :
       /\ delivered = {[issue |-> 2, action |-> a] : a \in built}
       /\ job = [ReadyJob(Actions) EXCEPT !.revision = 5, !.pkgs = delivered]
  /\ \E sent \in [Hashes -> delivered], verdict \in [Hashes -> Verdict \ {"SEEN"}] :
       txs = {[hash |-> h, pkg |-> sent[h], verdict |-> verdict[h]] : h \in Hashes}

RecordsSpec == (ReadyInit \/ IssuedInit) /\ [][Next]_vars

FairSpec == Spec /\ Fairness

Symmetry == Permutations(Clients) \cup Permutations(Hashes) \cup Permutations(Actions)
=============================================================================
