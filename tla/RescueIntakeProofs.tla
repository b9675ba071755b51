-------------------------- MODULE RescueIntakeProofs --------------------------
(***************************************************************************)
(* Proofs about RescueIntake, for any clients, requests, manifests and      *)
(* commitments to them, and any number of calls cut off.                    *)
(***************************************************************************)
EXTENDS RescueIntake, TLAPS

Carried == {"analyse", "analysing", "plan", "planning", "simulate", "simulating",
            "delegate", "permits", "settle", "done"}

\* What a call may hand over packages for, k being the call and js the jobs.
About(k, js) == IF k.kind = "refresh" THEN js[k.id].scope.manifest ELSE k.scope.manifest

\* A call that carries a job on has one, of its own scope or one that was paid for; it
\* analyses only the job it created; and what it hands over is what it asked for.
OnJob(k, js, paid) ==
  /\ js[k.id] # NoJob
  /\ k.kind # "refresh" => SameScope(js[k.id].scope, k.scope)
  /\ k.kind = "refresh" => <<k.req, k.id>> \in paid /\ js[k.id].key = <<"paid", k.req>>
  /\ k.own => js[k.id].scope = k.scope
CallOK(k, js, paid) ==
  /\ k.pc \in {"lookup", "create"} => k.kind # "refresh"
  /\ k.pc = "continue" => k.kind = "refresh"
  /\ k.pc \in Carried => k.id \in JobIds
  /\ k.pc \notin Carried => k.id = NoJob /\ ~k.own
  /\ k.id \in JobIds => OnJob(k, js, paid)
  /\ k.pc = "analysing" => k.own
  /\ k.pc = "settle" => k.kind \in {"paid", "refresh"}
  /\ k.pc \in {"settle", "done"} => k.packs \subseteq About(k, js)

JobsInv   == jobs \in [JobIds -> Job \cup {NoJob}] /\ OneJobPerRequest /\ PlansItsIncident
CallsInv  == /\ calls \in [Clients -> Call \cup {Idle}]
             /\ \A c \in Clients : calls[c] # Idle => CallOK(calls[c], jobs, settled)
\* Who holds a continuation has paid.
TokensInv == /\ tokens \subseteq settled /\ settled \subseteq Requests \X JobIds
             /\ kills \in 0 .. MaxKills

Inv == JobsInv /\ CallsInv /\ TokensInv

-----------------------------------------------------------------------------
(* Jobs.                                                                   *)

\* A job keeps its request and its scope for good.
JobsStay == \A i \in JobIds : jobs[i] # NoJob => /\ jobs'[i] # NoJob
                                                 /\ jobs'[i].key = jobs[i].key
                                                 /\ jobs'[i].scope = jobs[i].scope

LEMMA JobChanges ==
  ASSUME Inv, NEW i \in JobIds, jobs[i] # NoJob, NEW doc \in Job,
         doc.key = jobs[i].key, doc.scope = jobs[i].scope, doc.plan \subseteq doc.scope.manifest \cup {Coin},
         jobs' = [jobs EXCEPT ![i] = doc]
  PROVE  JobsStay /\ JobsInv'
<1>1. /\ jobs \in [JobIds -> Job \cup {NoJob}] /\ OneJobPerRequest /\ PlansItsIncident /\ doc # NoJob
  BY NoJobAssumption DEF Inv, JobsInv
<1>2. \A j \in JobIds : jobs'[j] = IF j = i THEN doc ELSE jobs[j]
  BY <1>1
<1>3. jobs' \in [JobIds -> Job \cup {NoJob}]
  BY <1>1
<1>4. JobsStay
  BY <1>1, <1>2 DEF JobsStay
<1>5. OneJobPerRequest'
  BY <1>1, <1>2 DEF OneJobPerRequest
<1>6. PlansItsIncident'
  BY <1>1, <1>2 DEF PlansItsIncident
<1> QED
  BY <1>3, <1>4, <1>5, <1>6 DEF JobsInv

LEMMA JobAppears ==
  ASSUME Inv, NEW i \in JobIds, jobs[i] = NoJob, NEW doc \in Job,
         Found(doc.key) = {}, doc.plan = {}, jobs' = [jobs EXCEPT ![i] = doc]
  PROVE  JobsStay /\ JobsInv'
<1>1. /\ jobs \in [JobIds -> Job \cup {NoJob}] /\ OneJobPerRequest /\ PlansItsIncident /\ doc # NoJob
      /\ \A j \in JobIds : jobs[j] # NoJob => jobs[j].key # doc.key
  BY NoJobAssumption DEF Inv, JobsInv, Found
<1>2. \A j \in JobIds : jobs'[j] = IF j = i THEN doc ELSE jobs[j]
  BY <1>1
<1>3. jobs' \in [JobIds -> Job \cup {NoJob}]
  BY <1>1
<1>4. JobsStay
  BY <1>1, <1>2 DEF JobsStay
<1>5. OneJobPerRequest'
  BY <1>1, <1>2 DEF OneJobPerRequest
<1>6. PlansItsIncident'
  BY <1>1, <1>2 DEF PlansItsIncident
<1> QED
  BY <1>3, <1>4, <1>5, <1>6 DEF JobsInv

LEMMA JobsUntouched ==
  ASSUME Inv, UNCHANGED jobs
  PROVE  JobsStay /\ JobsInv'
BY DEF Inv, JobsInv, JobsStay, OneJobPerRequest, PlansItsIncident

-----------------------------------------------------------------------------
(* Calls.                                                                  *)

LEMMA CallStays ==
  ASSUME JobsStay, settled \subseteq settled', NEW k, CallOK(k, jobs, settled)
  PROVE  CallOK(k, jobs', settled')
<1>1. k.id \in JobIds => OnJob(k, jobs, settled)
  BY DEF CallOK
<1>2. k.id \in JobIds => OnJob(k, jobs', settled')
  BY <1>1 DEF OnJob, JobsStay
<1>3. k.id \in JobIds => About(k, jobs') = About(k, jobs)
  BY <1>1 DEF OnJob, JobsStay, About
<1>4. k.pc \in {"settle", "done"} => k.id \in JobIds
  BY DEF CallOK, Carried
<1> QED
  BY <1>2, <1>3, <1>4 DEF CallOK

\* One call goes on or ends; the others are not disturbed.
LEMMA Stepping ==
  ASSUME Inv, JobsStay, JobsInv', TokensInv', settled \subseteq settled',
         NEW c \in Clients, NEW k \in Call \cup {Idle}, Goes(c, k), k # Idle => CallOK(k, jobs', settled')
  PROVE  Inv'
<1>1. calls \in [Clients -> Call \cup {Idle}] /\ calls' = [calls EXCEPT ![c] = k]
  BY DEF Inv, CallsInv, Goes
<1>2. calls' \in [Clients -> Call \cup {Idle}]
  BY <1>1
<1>3. ASSUME NEW d \in Clients, calls'[d] # Idle PROVE CallOK(calls[d], jobs, settled)'
  <2>1. CASE d = c
    <3>1. calls'[d] = k
      BY <1>1, <2>1
    <3> QED
      BY <1>3, <3>1
  <2>2. CASE d # c
    <3>1. calls'[d] = calls[d]
      BY <1>1, <2>2
    <3>2. CallOK(calls[d], jobs, settled)
      BY <1>3, <3>1 DEF Inv, CallsInv
    <3> QED
      BY <3>1, <3>2, CallStays
  <2> QED
    BY <2>1, <2>2
<1>4. CallsInv'
  BY <1>2, <1>3 DEF CallsInv
<1> QED
  BY <1>4 DEF Inv

\* The world goes on without the calls.
LEMMA WithoutCalls ==
  ASSUME Inv, JobsStay, JobsInv', TokensInv', settled \subseteq settled', UNCHANGED calls
  PROVE  Inv'
<1>1. ASSUME NEW d \in Clients, calls'[d] # Idle PROVE CallOK(calls[d], jobs, settled)'
  <2>1. CallOK(calls[d], jobs, settled)
    BY <1>1 DEF Inv, CallsInv
  <2> QED
    BY <2>1, CallStays
<1>2. CallsInv'
  BY <1>1 DEF Inv, CallsInv
<1> QED
  BY <1>2 DEF Inv

LEMMA Ending ==
  ASSUME Inv, JobsStay, JobsInv', TokensInv', settled \subseteq settled', NEW c \in Clients, Ends(c)
  PROVE  Inv'
BY Stepping DEF Ends

-----------------------------------------------------------------------------
(* The shape of calls and jobs.                                            *)

Points == {"lookup", "create", "analyse", "analysing", "plan", "planning", "simulate", "simulating",
           "continue", "delegate", "permits", "settle", "done"}

LEMMA CallFields ==
  ASSUME NEW k \in Call
  PROVE  /\ k.pc \in Points /\ k.kind \in Kinds \cup {"refresh"} /\ k.req \in Requests
         /\ k.scope \in Scopes /\ k.own \in BOOLEAN /\ k.id \in JobIds \cup {NoJob}
         /\ k.doc \in Job \cup {NoJob} /\ k.packs \in SUBSET Assets
BY DEF Call, Points

\* A call that goes to another point of its code.
LEMMA MovedOn ==
  ASSUME NEW k \in Call, NEW pc \in Points, NEW n, n = [k EXCEPT !.pc = pc]
  PROVE  /\ n \in Call /\ n.pc = pc /\ n.doc = k.doc /\ n.kind = k.kind /\ n.req = k.req
         /\ n.scope = k.scope /\ n.own = k.own /\ n.id = k.id /\ n.packs = k.packs
BY DEF Call, Points

\* The bridge goes on with an open call at any of its tests.
Open == {"analyse", "plan", "planning", "simulate", "simulating", "delegate", "permits"}

LEMMA OpenOK ==
  ASSUME NEW k, NEW n, NEW js, NEW paid, OnJob(k, js, paid), k.id \in JobIds, n.pc \in Open,
         n.kind = k.kind, n.req = k.req, n.scope = k.scope, n.own = k.own, n.id = k.id
  PROVE  CallOK(n, js, paid)
BY DEF CallOK, OnJob, Open, Carried

LEMMA NeedsValues ==
  ASSUME NEW kind, NEW doc
  PROVE  Needs(kind, doc) \in {"analyse", "plan", "simulate", "permits", "delegate", "nothing"}
BY DEF Needs

LEMMA Continuing ==
  ASSUME Inv, JobsStay, JobsInv', TokensInv', settled \subseteq settled', NEW c \in Clients,
         NEW k \in Call, k.id \in JobIds, NEW doc \in Job, OnJob(k, jobs', settled'), Continue(c, k, doc)
  PROVE  Inv'
<1>1. CASE Needs(k.kind, doc) = "nothing"
  BY <1>1, Ending DEF Continue
<1>2. CASE Needs(k.kind, doc) # "nothing"
  <2> DEFINE pc == Needs(k.kind, doc)
             n  == [k EXCEPT !.doc = doc, !.pc = pc]
  <2>1. Goes(c, n)
    BY <1>2 DEF Continue
  <2>2. pc \in Points /\ pc \in Open /\ doc \in Job \cup {NoJob}
    BY <1>2, NeedsValues DEF Points, Open
  <2> HIDE DEF pc
  <2>3. /\ n \in Call /\ n.pc = pc /\ n.kind = k.kind /\ n.req = k.req
        /\ n.scope = k.scope /\ n.own = k.own /\ n.id = k.id
    BY <2>2 DEF Call, Points
  <2> HIDE DEF n
  <2>4. CallOK(n, jobs', settled')
    BY <2>2, <2>3, OpenOK
  <2> QED
    BY <2>1, <2>3, <2>4, Stepping
<1> QED
  BY <1>1, <1>2

\* A step of a call that leaves payments alone.
LEMMA Unpaid == ASSUME Inv, UNCHANGED <<tokens, settled, kills>> PROVE TokensInv' /\ settled \subseteq settled'
BY DEF Inv, TokensInv

LEMMA TheCall ==
  ASSUME Inv, NEW c \in Clients, NEW pc, At(c, pc)
  PROVE  /\ calls[c] \in Call /\ calls[c] # Idle /\ calls[c].pc = pc /\ CallOK(calls[c], jobs, settled)
         /\ pc \in Carried => /\ calls[c].id \in JobIds /\ OnJob(calls[c], jobs, settled)
                              /\ JobOf(c) \in Job
BY NoJobAssumption DEF Inv, CallsInv, JobsInv, At, CallOK, OnJob, JobOf

\* Writing what was read and changed.
LEMMA Storing ==
  ASSUME Inv, UNCHANGED <<tokens, settled, kills>>, NEW c \in Clients, NEW pc \in Carried, At(c, pc),
         NEW doc, JobOf(c) = calls[c].doc =>
           doc \in Job /\ doc.key = JobOf(c).key /\ doc.scope = JobOf(c).scope
             /\ doc.plan \subseteq doc.scope.manifest \cup {Coin},
         Stores(c, doc)
  PROVE  Inv'
<1>1. TokensInv' /\ settled \subseteq settled'
  BY Unpaid
<1>2. /\ calls[c] \in Call /\ calls[c].id \in JobIds /\ OnJob(calls[c], jobs, settled)
  BY TheCall
<1>3. CASE MaySave(c)
  <2>1. /\ jobs' = [jobs EXCEPT ![calls[c].id] = doc] /\ Continue(c, calls[c], doc)
        /\ doc \in Job /\ doc.key = JobOf(c).key /\ doc.scope = JobOf(c).scope
        /\ doc.plan \subseteq doc.scope.manifest \cup {Coin} /\ jobs[calls[c].id] # NoJob
    BY <1>2, <1>3 DEF Stores, MaySave, OnJob
  <2>2. JobsStay /\ JobsInv'
    BY <1>2, <2>1, JobChanges DEF JobOf
  <2>3. OnJob(calls[c], jobs', settled')
    BY <1>1, <1>2, <2>2 DEF OnJob, JobsStay
  <2> QED
    BY <1>1, <1>2, <2>1, <2>2, <2>3, Continuing
<1>4. CASE ~MaySave(c)
  <2>1. Ends(c) /\ UNCHANGED jobs
    BY <1>4 DEF Stores
  <2> QED
    BY <1>1, <2>1, JobsUntouched, Ending
<1> QED
  BY <1>3, <1>4

\* Only the status, or what was simulated and packaged, is changed.
LEMMA Updated ==
  ASSUME Inv, NEW i \in JobIds, jobs[i] # NoJob, NEW doc \in Job,
         doc.key = jobs[i].key, doc.scope = jobs[i].scope, doc.plan = jobs[i].plan,
         jobs' = [jobs EXCEPT ![i] = doc]
  PROVE  JobsStay /\ JobsInv'
BY JobChanges DEF Inv, JobsInv, PlansItsIncident

LEMMA Failing ==
  ASSUME Inv, UNCHANGED <<tokens, settled, kills>>, NEW c \in Clients, NEW pc \in Carried, At(c, pc),
         FailsJob(c)
  PROVE  Inv'
<1>1. TokensInv' /\ settled \subseteq settled' /\ Ends(c)
  BY Unpaid DEF FailsJob
<1>2. JobsStay /\ JobsInv'
  <2>1. CASE UNCHANGED jobs
    BY <2>1, JobsUntouched
  <2>2. CASE jobs' = [jobs EXCEPT ![calls[c].id].status = "FAILED"]
    <3> DEFINE i == calls[c].id
               doc == [jobs[i] EXCEPT !.status = "FAILED"]
    <3>1. i \in JobIds /\ jobs[i] \in Job /\ jobs[i] # NoJob
      BY TheCall DEF JobOf, OnJob
    <3>2. doc \in Job /\ doc.key = jobs[i].key /\ doc.scope = jobs[i].scope /\ doc.plan = jobs[i].plan
      BY <3>1 DEF Job, Statuses
    <3>3. jobs' = [jobs EXCEPT ![i] = doc]
      BY <2>2
    <3> HIDE DEF doc, i
    <3> QED
      BY <3>1, <3>2, <3>3, Updated
  <2> QED
    BY <2>1, <2>2 DEF FailsJob
<1> QED
  BY <1>1, <1>2, Ending

-----------------------------------------------------------------------------
(* The steps: finding or creating the job.                                 *)

LEMMA StartKeeps ==
  ASSUME Inv, NEW c \in Clients, NEW kind \in Kinds \cup {"refresh"}, NEW r \in Requests,
         NEW s \in Scopes, Start(c, kind, r, s)
  PROVE  Inv'
<1> DEFINE k == [pc |-> IF kind = "refresh" THEN "continue" ELSE "lookup",
                 kind |-> kind, req |-> r, scope |-> s, own |-> FALSE,
                 id |-> NoJob, doc |-> NoJob, packs |-> {}]
<1>1. Goes(c, k) /\ UNCHANGED <<jobs, tokens, settled, kills>>
  BY DEF Start
<1>2. k \in Call
  BY DEF Call
<1>3. CallOK(k, jobs', settled')
  BY IntakeAssumption DEF CallOK, Carried
<1> HIDE DEF k
<1> QED
  BY <1>1, <1>2, <1>3, JobsUntouched, Unpaid, Stepping

LEMMA TakeOverKeeps ==
  ASSUME Inv, UNCHANGED <<tokens, settled, kills>>, NEW c \in Clients,
         NEW pc \in {"lookup", "create"}, At(c, pc), TakeOver(c)
  PROVE  Inv'
<1>1. /\ calls[c] \in Call /\ calls[c].kind # "refresh" /\ ~calls[c].own
  BY TheCall DEF CallOK, Carried
<1>2. PICK i \in Found(Key(c)) :
        /\ UNCHANGED jobs
        /\ IF SameScope(jobs[i].scope, calls[c].scope)
           THEN Continue(c, [calls[c] EXCEPT !.id = i], jobs[i]) ELSE Ends(c)
  BY DEF TakeOver
<1>3. JobsStay /\ JobsInv' /\ TokensInv' /\ settled \subseteq settled'
  BY <1>2, JobsUntouched, Unpaid
<1>4. CASE SameScope(jobs[i].scope, calls[c].scope)
  <2> DEFINE k == [calls[c] EXCEPT !.id = i]
  <2>1. i \in JobIds /\ jobs[i] # NoJob /\ jobs[i] \in Job
    BY <1>2 DEF Found, Inv, JobsInv
  <2>2. /\ k \in Call /\ k.id = i /\ k.kind = calls[c].kind /\ k.scope = calls[c].scope
        /\ k.own = calls[c].own
    BY <1>1, <2>1 DEF Call
  <2>3. Continue(c, k, jobs[i])
    BY <1>2, <1>4
  <2> HIDE DEF k
  <2>4. OnJob(k, jobs', settled')
    BY <1>1, <1>2, <1>4, <2>1, <2>2 DEF OnJob
  <2> QED
    BY <1>3, <2>1, <2>2, <2>3, <2>4, Continuing
<1>5. CASE ~SameScope(jobs[i].scope, calls[c].scope)
  BY <1>2, <1>3, <1>5, Ending
<1> QED
  BY <1>4, <1>5

LEMMA LookupKeeps == ASSUME Inv, NEW c \in Clients, Lookup(c) PROVE Inv'
<1>1. At(c, "lookup") /\ UNCHANGED <<tokens, settled, kills>>
  BY DEF Lookup
<1>2. CASE TakeOver(c)
  BY <1>1, <1>2, TakeOverKeeps
<1>3. CASE Goes(c, [calls[c] EXCEPT !.pc = "create"]) /\ UNCHANGED jobs
  <2> DEFINE n == [calls[c] EXCEPT !.pc = "create"]
  <2>1. calls[c] \in Call /\ calls[c].pc = "lookup" /\ CallOK(calls[c], jobs, settled)
    BY <1>1, TheCall
  <2>2. n \in Call /\ n.pc = "create" /\ n.kind = calls[c].kind /\ n.id = calls[c].id /\ n.own = calls[c].own
    BY <2>1 DEF Call
  <2> HIDE DEF n
  <2>3. CallOK(n, jobs', settled')
    BY <2>1, <2>2, IntakeAssumption DEF CallOK, Carried
  <2>4. Goes(c, n)
    BY <1>3 DEF n
  <2> QED
    BY <1>1, <1>3, <2>2, <2>3, <2>4, JobsUntouched, Unpaid, Stepping
<1> QED
  BY <1>2, <1>3 DEF Lookup

LEMMA CreateKeeps == ASSUME Inv, NEW c \in Clients, Create(c) PROVE Inv'
<1>1. At(c, "create") /\ UNCHANGED <<tokens, settled, kills>>
  BY DEF Create
<1>2. CASE TakeOver(c)
  BY <1>1, <1>2, TakeOverKeeps
<1>3. CASE Found(Key(c)) = {}
  <2> DEFINE i == FreshId
             k == [calls[c] EXCEPT !.id = i, !.own = TRUE]
             doc == NewJob(c)
  <2>1. /\ jobs' = [jobs EXCEPT ![i] = doc] /\ Continue(c, k, doc) /\ Unused # {}
    BY <1>3 DEF Create
  <2>2. i \in JobIds /\ jobs[i] = NoJob
    BY <2>1 DEF FreshId, Unused
  <2>3. /\ calls[c] \in Call /\ calls[c].kind # "refresh" /\ calls[c].scope \in Scopes
        /\ calls[c].kind \in Kinds /\ calls[c].req \in Requests
    BY <1>1, TheCall, CallFields DEF CallOK
  <2>4. doc \in Job /\ doc.key = Key(c) /\ doc.scope = calls[c].scope /\ doc.plan = {}
    BY <2>3 DEF NewJob, Job, Key, Keys, Statuses
  <2> HIDE DEF i
  <2>5. /\ k \in Call /\ k.id = i /\ k.kind = calls[c].kind /\ k.scope = calls[c].scope
    BY <2>2, <2>3 DEF Call
  <2> HIDE DEF k, doc
  <2>6. JobsStay /\ JobsInv'
    BY <1>3, <2>1, <2>2, <2>4, JobAppears
  <2>7. jobs'[i] = doc /\ doc # NoJob
    BY <2>1, <2>2, <2>4, NoJobAssumption DEF Inv, JobsInv
  <2>8. OnJob(k, jobs', settled')
    BY <2>3, <2>4, <2>5, <2>7 DEF OnJob, SameScope
  <2> QED
    BY <1>1, <2>1, <2>2, <2>4, <2>5, <2>6, <2>8, Unpaid, Continuing
<1> QED
  BY <1>2, <1>3 DEF Create

-----------------------------------------------------------------------------
(* The steps: analysis, plan and simulation.                               *)

LEMMA AnalyseKeeps == ASSUME Inv, NEW c \in Clients, Analyse(c) PROVE Inv'
<1>1. At(c, "analyse") /\ UNCHANGED <<tokens, settled, kills>> /\ "analyse" \in Carried
  BY DEF Analyse, Carried
<1>2. TokensInv' /\ settled \subseteq settled'
  BY <1>1, Unpaid
<1>3. CASE Ends(c) /\ UNCHANGED jobs
  BY <1>2, <1>3, JobsUntouched, Ending
<1>4. CASE ~(Ends(c) /\ UNCHANGED jobs)
  <2> DEFINE i == calls[c].id
             doc == [JobOf(c) EXCEPT !.status = "ANALYSING"]
             n == [calls[c] EXCEPT !.pc = "analysing", !.doc = doc]
  <2>1. jobs' = [jobs EXCEPT ![i] = doc] /\ Goes(c, n) /\ calls[c].own
    BY <1>4 DEF Analyse
  <2>2. /\ calls[c] \in Call /\ i \in JobIds /\ OnJob(calls[c], jobs, settled) /\ JobOf(c) \in Job
    BY <1>1, TheCall
  <2>3. doc \in Job /\ doc.key = jobs[i].key /\ doc.scope = jobs[i].scope /\ doc.plan = jobs[i].plan
    BY <2>2 DEF Job, Statuses, JobOf
  <2> HIDE DEF doc
  <2>4. /\ n \in Call /\ n.pc = "analysing" /\ n.kind = calls[c].kind /\ n.req = calls[c].req
        /\ n.scope = calls[c].scope /\ n.own = calls[c].own /\ n.id = i
    BY <2>2, <2>3 DEF Call
  <2> HIDE DEF n
  <2>5. JobsStay /\ JobsInv'
    BY <2>1, <2>2, <2>3, Updated DEF OnJob
  <2>6. CallOK(n, jobs', settled')
    BY <1>2, <2>1, <2>2, <2>4, <2>5 DEF CallOK, OnJob, Carried, JobsStay
  <2> QED
    BY <1>2, <2>1, <2>4, <2>5, <2>6, Stepping
<1> QED
  BY <1>3, <1>4

\* The three writes.
LEMMA WritesKeep ==
  ASSUME Inv, NEW c \in Clients, Analysed(c) \/ Planned(c) \/ Simulated(c)
  PROVE  Inv'
<1>1. PICK pc \in {"analysing", "planning", "simulating"} :
        /\ At(c, pc)
        /\ \/ Analysed(c) /\ pc = "analysing"
           \/ Planned(c) /\ pc = "planning"
           \/ Simulated(c) /\ pc = "simulating"
  BY DEF Analysed, Planned, Simulated
<1>2. pc \in Carried /\ UNCHANGED <<tokens, settled, kills>>
  BY DEF Analysed, Planned, Simulated, Carried
<1>3. /\ calls[c] \in Call /\ calls[c].pc = pc /\ CallOK(calls[c], jobs, settled)
      /\ OnJob(calls[c], jobs, settled) /\ JobOf(c) \in Job /\ calls[c].id \in JobIds
  BY <1>1, <1>2, TheCall
<1>4. JobOf(c) # NoJob /\ JobOf(c).plan \subseteq JobOf(c).scope.manifest \cup {Coin}
  BY <1>3 DEF OnJob, JobOf, Inv, JobsInv, PlansItsIncident
<1>5. Coin \in Assets /\ \A s \in Scopes : s.manifest \subseteq Assets
  BY IntakeAssumption
<1>6. CASE FailsJob(c)
  BY <1>1, <1>2, <1>6, Failing
<1>7. CASE Analysed(c) /\ pc = "analysing" /\ ~FailsJob(c)
  <2>1. PICK found \in SUBSET (calls[c].scope.manifest \cup {Coin}) :
          Stores(c, [calls[c].doc EXCEPT !.scanned = TRUE, !.plan = found])
    BY <1>7 DEF Analysed
  <2> DEFINE doc == [calls[c].doc EXCEPT !.scanned = TRUE, !.plan = found]
  <2>2. JobOf(c).scope = calls[c].scope /\ calls[c].scope \in Scopes
    BY <1>3, <1>7, CallFields DEF CallOK, OnJob, JobOf
  <2>3. found \subseteq Assets /\ found \subseteq JobOf(c).scope.manifest \cup {Coin}
    BY <1>5, <2>1, <2>2
  <2>4. ASSUME JobOf(c) = calls[c].doc
        PROVE  /\ doc \in Job /\ doc.key = JobOf(c).key /\ doc.scope = JobOf(c).scope
               /\ doc.plan = found
    BY <1>3, <2>3, <2>4 DEF Job
  <2> HIDE DEF doc
  <2>5. Stores(c, doc)
    BY <2>1 DEF doc
  <2> QED
    BY <1>1, <1>2, <2>3, <2>4, <2>5, Storing
<1>8. CASE Planned(c) /\ ~FailsJob(c)
  <2> DEFINE doc == [calls[c].doc EXCEPT !.status = "PLAN_READY"]
  <2>1. Stores(c, doc)
    BY <1>8 DEF Planned
  <2>2. ASSUME JobOf(c) = calls[c].doc
        PROVE  /\ doc \in Job /\ doc.key = JobOf(c).key /\ doc.scope = JobOf(c).scope
               /\ doc.plan = JobOf(c).plan
    BY <1>3, <2>2 DEF Job, Statuses
  <2> HIDE DEF doc
  <2> QED
    BY <1>1, <1>2, <1>4, <2>1, <2>2, Storing
<1>9. CASE Simulated(c) /\ ~FailsJob(c)
  <2>1. PICK good \in SUBSET calls[c].doc.plan \ {{}} :
          Stores(c, [calls[c].doc EXCEPT !.status = "WAITING_FOR_USER", !.exec = good])
    BY <1>9 DEF Simulated
  <2> DEFINE doc == [calls[c].doc EXCEPT !.status = "WAITING_FOR_USER", !.exec = good]
  <2>2. ASSUME JobOf(c) = calls[c].doc
        PROVE  /\ doc \in Job /\ doc.key = JobOf(c).key /\ doc.scope = JobOf(c).scope
               /\ doc.plan = JobOf(c).plan
    <3>1. good \subseteq Assets
      BY <1>3, <2>1, <2>2 DEF Job
    <3> QED
      BY <1>3, <2>2, <3>1 DEF Job, Statuses
  <2>3. Stores(c, doc)
    BY <2>1
  <2> HIDE DEF doc
  <2> QED
    BY <1>1, <1>2, <1>4, <2>2, <2>3, Storing
<1> QED
  BY <1>1, <1>6, <1>7, <1>8, <1>9

LEMMA ReadsKeep == ASSUME Inv, NEW c \in Clients, Plan(c) \/ Simulate(c) PROVE Inv'
<1>1. PICK from \in {"plan", "simulate"}, to \in {"planning", "simulating"} :
        /\ At(c, from) /\ UNCHANGED <<jobs, tokens, settled, kills>>
        /\ Ends(c) \/ Goes(c, [calls[c] EXCEPT !.pc = to, !.doc = JobOf(c)])
  <2>1. CASE Plan(c)
    BY <2>1 DEF Plan, Reads
  <2>2. CASE Simulate(c)
    BY <2>2 DEF Simulate, Reads
  <2> QED
    BY <2>1, <2>2
<1>2. JobsStay /\ JobsInv' /\ TokensInv' /\ settled \subseteq settled'
  BY <1>1, JobsUntouched, Unpaid
<1>3. CASE Ends(c)
  BY <1>2, <1>3, Ending
<1>4. CASE ~Ends(c)
  <2> DEFINE n == [calls[c] EXCEPT !.pc = to, !.doc = JobOf(c)]
  <2>1. calls[c] \in Call /\ calls[c].id \in JobIds /\ OnJob(calls[c], jobs, settled) /\ JobOf(c) \in Job
    BY <1>1, TheCall DEF Carried
  <2>2. /\ n \in Call /\ n.pc = to /\ n.kind = calls[c].kind /\ n.req = calls[c].req
        /\ n.scope = calls[c].scope /\ n.own = calls[c].own /\ n.id = calls[c].id
    BY <2>1 DEF Call
  <2>3. Goes(c, n)
    BY <1>1, <1>4
  <2> HIDE DEF n
  <2>4. CallOK(n, jobs', settled')
    BY <1>1, <2>1, <2>2, OpenOK DEF Open
  <2> QED
    BY <1>2, <2>2, <2>3, <2>4, Stepping
<1> QED
  BY <1>3, <1>4

-----------------------------------------------------------------------------
(* The steps: packages, payment and continuation.                          *)

\* What is handed over was asked for.
LEMMA Handing ==
  ASSUME Inv, UNCHANGED <<tokens, settled, kills>>, JobsStay, JobsInv', NEW c \in Clients,
         NEW pc \in {"delegate", "permits"}, At(c, pc), NEW packs, InScope(c, packs), Hands(c, packs)
  PROVE  Inv'
<1>1. TokensInv' /\ settled \subseteq settled' /\ pc \in Carried
  BY Unpaid DEF Carried
<1>2. /\ calls[c] \in Call /\ calls[c].id \in JobIds /\ OnJob(calls[c], jobs, settled) /\ JobOf(c) \in Job
  BY <1>1, TheCall
<1> DEFINE to == IF calls[c].kind = "a2a" THEN "done" ELSE "settle"
           n == [calls[c] EXCEPT !.pc = to, !.packs = packs, !.doc = NoJob, !.own = FALSE]
<1>3. packs \subseteq Asked(c) /\ packs \subseteq Assets
  <2>1. packs \subseteq Asked(c)
    BY DEF InScope
  <2>2. \A s \in Scopes : s.manifest \subseteq Assets
    BY IntakeAssumption
  <2>3. JobOf(c).scope \in Scopes /\ calls[c].scope \in Scopes
    BY <1>2, CallFields DEF Job
  <2> QED
    BY <2>1, <2>2, <2>3 DEF Asked
<1>4. to \in {"done", "settle"} /\ (to = "settle" => calls[c].kind \in {"paid", "refresh"})
  BY <1>2, CallFields, IntakeAssumption
<1>5. Goes(c, n)
  BY DEF Hands
<1> HIDE DEF to
<1>6. /\ n \in Call /\ n.pc = to /\ n.packs = packs /\ n.own = FALSE /\ n.kind = calls[c].kind
      /\ n.req = calls[c].req /\ n.scope = calls[c].scope /\ n.id = calls[c].id
  BY <1>2, <1>3, <1>4 DEF Call
<1> HIDE DEF n
<1>7. OnJob(n, jobs, settled) /\ n.packs \subseteq About(n, jobs)
  BY <1>2, <1>3, <1>6 DEF OnJob, About, Asked, JobOf
<1>8. CallOK(n, jobs, settled)
  BY <1>2, <1>4, <1>6, <1>7 DEF CallOK, Carried
<1>9. CallOK(n, jobs', settled')
  BY <1>1, <1>8, CallStays
<1> QED
  BY <1>1, <1>5, <1>6, <1>9, Stepping

LEMMA DelegateKeeps == ASSUME Inv, NEW c \in Clients, Delegate(c) PROVE Inv'
<1>1. At(c, "delegate") /\ UNCHANGED <<jobs, tokens, settled, kills>> /\ "delegate" \in Carried
  BY DEF Delegate, Carried
<1>2. JobsStay /\ JobsInv' /\ TokensInv' /\ settled \subseteq settled'
  BY <1>1, JobsUntouched, Unpaid
<1>3. CASE \E packs \in SUBSET calls[c].doc.plan \ {{}} : InScope(c, packs) /\ Hands(c, packs)
  BY <1>1, <1>2, <1>3, Handing
<1>4. CASE Goes(c, [calls[c] EXCEPT !.pc = "permits"])
  <2> DEFINE n == [calls[c] EXCEPT !.pc = "permits"]
  <2>1. calls[c] \in Call /\ calls[c].id \in JobIds /\ OnJob(calls[c], jobs, settled)
    BY <1>1, TheCall
  <2>2. /\ n \in Call /\ n.pc = "permits" /\ n.kind = calls[c].kind /\ n.req = calls[c].req
        /\ n.scope = calls[c].scope /\ n.own = calls[c].own /\ n.id = calls[c].id
    BY <2>1 DEF Call
  <2> HIDE DEF n
  <2>3. CallOK(n, jobs', settled')
    BY <1>1, <2>1, <2>2, OpenOK DEF Open
  <2>4. Goes(c, n)
    BY <1>4 DEF n
  <2> QED
    BY <1>2, <2>2, <2>3, <2>4, Stepping
<1> QED
  BY <1>3, <1>4 DEF Delegate

LEMMA PermitsKeep == ASSUME Inv, NEW c \in Clients, Permits(c) PROVE Inv'
<1>1. At(c, "permits") /\ UNCHANGED <<tokens, settled, kills>> /\ "permits" \in Carried
  BY DEF Permits, Carried
<1>2. TokensInv' /\ settled \subseteq settled'
  BY <1>1, Unpaid
<1> DEFINE i == calls[c].id
<1>3. i \in JobIds /\ jobs[i] # NoJob /\ JobOf(c) = jobs[i] /\ jobs[i] \in Job
  BY <1>1, TheCall DEF OnJob, JobOf
<1> HIDE DEF i
<1>4. jobs[i].plan \subseteq Assets
  BY <1>3 DEF Job
\* Whatever is written, what the call does then is one of two things.
<1>5. ASSUME JobsStay, JobsInv', NEW packs, IF InScope(c, packs) THEN Hands(c, packs) ELSE Ends(c)
      PROVE  Inv'
  <2>1. CASE InScope(c, packs)
    BY <1>1, <1>5, <2>1, Handing
  <2>2. CASE ~InScope(c, packs)
    BY <1>2, <1>5, <2>2, Ending
  <2> QED
    BY <2>1, <2>2
<1>6. CASE /\ IF InScope(c, JobOf(c).packs) THEN Hands(c, JobOf(c).packs) ELSE Ends(c)
           /\ UNCHANGED jobs
  BY <1>5, <1>6, JobsUntouched
<1>7. CASE \E good \in SUBSET JobOf(c).plan \ {{}} : \E packs \in SUBSET (good \ {Coin}) \ {{}} :
             /\ jobs' = [jobs EXCEPT ![calls[c].id] =
                          [@ EXCEPT !.exec = good, !.packs = packs, !.fresh = TRUE]]
             /\ IF InScope(c, packs) THEN Hands(c, packs) ELSE Ends(c)
  <2>0. PICK good \in SUBSET JobOf(c).plan \ {{}} : \E packs \in SUBSET (good \ {Coin}) \ {{}} :
             /\ jobs' = [jobs EXCEPT ![i] = [jobs[i] EXCEPT !.exec = good, !.packs = packs, !.fresh = TRUE]]
             /\ IF InScope(c, packs) THEN Hands(c, packs) ELSE Ends(c)
    BY <1>7 DEF i
  <2>1. PICK packs \in SUBSET (good \ {Coin}) \ {{}} :
             /\ jobs' = [jobs EXCEPT ![i] = [jobs[i] EXCEPT !.exec = good, !.packs = packs, !.fresh = TRUE]]
             /\ IF InScope(c, packs) THEN Hands(c, packs) ELSE Ends(c)
    BY <2>0
  <2> DEFINE doc == [jobs[i] EXCEPT !.exec = good, !.packs = packs, !.fresh = TRUE]
  <2>2. good \subseteq Assets /\ packs \subseteq Assets
    BY <1>3, <1>4, <2>0, <2>1
  <2>3. doc \in Job /\ doc.key = jobs[i].key /\ doc.scope = jobs[i].scope /\ doc.plan = jobs[i].plan
    BY <1>3, <2>2 DEF Job
  <2>4. jobs' = [jobs EXCEPT ![i] = doc]
    BY <2>1
  <2> HIDE DEF doc
  <2>5. JobsStay /\ JobsInv'
    BY <1>3, <2>3, <2>4, Updated
  <2> QED
    BY <1>5, <2>1, <2>5
<1>8. CASE Ends(c) /\ UNCHANGED jobs
  BY <1>2, <1>8, JobsUntouched, Ending
<1>9. CASE /\ Ends(c)
           /\ \E good \in SUBSET JobOf(c).plan \ {{}} : jobs' = [jobs EXCEPT ![calls[c].id].exec = good]
  <2>1. PICK good \in SUBSET JobOf(c).plan \ {{}} :
             jobs' = [jobs EXCEPT ![i] = [jobs[i] EXCEPT !.exec = good]]
    BY <1>9 DEF i
  <2> DEFINE doc == [jobs[i] EXCEPT !.exec = good]
  <2>2. doc \in Job /\ doc.key = jobs[i].key /\ doc.scope = jobs[i].scope /\ doc.plan = jobs[i].plan
    BY <1>3, <1>4, <2>1 DEF Job
  <2>3. jobs' = [jobs EXCEPT ![i] = doc]
    BY <2>1
  <2> HIDE DEF doc
  <2>4. JobsStay /\ JobsInv'
    BY <1>3, <2>2, <2>3, Updated
  <2> QED
    BY <1>2, <1>9, <2>4, Ending
<1> QED
  BY <1>6, <1>7, <1>8, <1>9 DEF Permits

LEMMA SettleKeeps == ASSUME Inv, NEW c \in Clients, Settle(c) PROVE Inv'
<1>1. At(c, "settle") /\ UNCHANGED <<jobs, kills>> /\ "settle" \in Carried
  BY DEF Settle, Carried
<1>2. JobsStay /\ JobsInv'
  BY <1>1, JobsUntouched
<1>3. /\ calls[c] \in Call /\ calls[c].id \in JobIds /\ OnJob(calls[c], jobs, settled)
      /\ CallOK(calls[c], jobs, settled) /\ calls[c].pc = "settle"
  BY <1>1, TheCall
<1>4. CASE Ends(c) /\ UNCHANGED <<tokens, settled>>
  BY <1>1, <1>2, <1>4, Unpaid, Ending
<1>5. CASE /\ Goes(c, [calls[c] EXCEPT !.pc = "done"])
           /\ tokens' = tokens \cup {<<calls[c].req, calls[c].id>>}
           /\ settled' = settled \cup (IF calls[c].kind = "paid" THEN {<<calls[c].req, calls[c].id>>} ELSE {})
  <2> DEFINE n == [calls[c] EXCEPT !.pc = "done"]
  <2>1. /\ n \in Call /\ n.pc = "done" /\ n.packs = calls[c].packs /\ n.own = calls[c].own
        /\ n.kind = calls[c].kind /\ n.req = calls[c].req /\ n.scope = calls[c].scope /\ n.id = calls[c].id
    BY <1>3 DEF Call
  <2>2. Goes(c, n)
    BY <1>5
  <2> HIDE DEF n
  <2>3. CallOK(n, jobs, settled)
    <3>1. OnJob(n, jobs, settled) /\ n.packs \subseteq About(n, jobs)
      BY <1>3, <2>1 DEF OnJob, About, CallOK
    <3> QED
      BY <1>3, <2>1, <3>1 DEF CallOK, Carried
  <2>4. settled \subseteq settled'
    BY <1>5
  <2>5. TokensInv'
    <3>1. <<calls[c].req, calls[c].id>> \in Requests \X JobIds
      BY <1>3, CallFields
    <3>2. <<calls[c].req, calls[c].id>> \in settled'
      <4>1. CASE calls[c].kind = "paid"
        BY <1>5, <4>1
      <4>2. CASE calls[c].kind = "refresh"
        BY <1>3, <2>4, <4>2 DEF OnJob
      <4> QED
        BY <1>3, <4>1, <4>2 DEF CallOK
    <3> QED
      BY <1>1, <1>5, <2>4, <3>1, <3>2 DEF Inv, TokensInv
  <2>6. CallOK(n, jobs', settled')
    BY <1>2, <2>3, <2>4, CallStays
  <2> QED
    BY <1>2, <2>1, <2>2, <2>4, <2>5, <2>6, Stepping
<1> QED
  BY <1>4, <1>5 DEF Settle

LEMMA ResumeKeeps == ASSUME Inv, NEW c \in Clients, NEW i \in JobIds, Resume(c, i) PROVE Inv'
<1>1. At(c, "continue") /\ UNCHANGED <<jobs, tokens, settled, kills>> /\ jobs[i] # NoJob
  BY DEF Resume
<1>2. JobsStay /\ JobsInv' /\ TokensInv' /\ settled \subseteq settled'
  BY <1>1, JobsUntouched, Unpaid
<1>3. CASE Ends(c)
  BY <1>2, <1>3, Ending
<1>4. CASE ~Ends(c)
  <2> DEFINE n == [calls[c] EXCEPT !.pc = "delegate", !.id = i, !.doc = jobs[i]]
  <2>1. /\ <<calls[c].req, i>> \in tokens /\ jobs[i].key = <<"paid", calls[c].req>>
        /\ Goes(c, n)
    BY <1>4 DEF Resume
  <2>2. /\ calls[c] \in Call /\ calls[c].kind = "refresh" /\ ~calls[c].own /\ jobs[i] \in Job
    BY <1>1, TheCall DEF CallOK, Carried, Inv, JobsInv
  <2>3. /\ n \in Call /\ n.pc = "delegate" /\ n.own = calls[c].own
        /\ n.kind = calls[c].kind /\ n.req = calls[c].req /\ n.id = i
    BY <2>2 DEF Call
  <2> HIDE DEF n
  <2>4. OnJob(n, jobs, settled)
    BY <1>1, <2>1, <2>2, <2>3 DEF OnJob, Inv, TokensInv
  <2>5. CallOK(n, jobs', settled')
    BY <1>1, <2>3, <2>4, OpenOK DEF Open
  <2> QED
    BY <1>2, <2>1, <2>3, <2>5, Stepping
<1> QED
  BY <1>3, <1>4

-----------------------------------------------------------------------------
(* The theorems.                                                           *)

LEMMA WorldKeeps ==
  ASSUME Inv, ExpireToken \/ \E i \in JobIds : Expire(i) \/ Progress(i)
  PROVE  Inv'
<1>1. CASE ExpireToken
  <2>1. UNCHANGED <<jobs, calls, settled, kills>> /\ tokens' \subseteq tokens
    BY <1>1 DEF ExpireToken
  <2>2. TokensInv' /\ settled \subseteq settled'
    BY <2>1 DEF Inv, TokensInv
  <2> QED
    BY <2>1, <2>2, JobsUntouched, WithoutCalls
<1>2. CASE \E i \in JobIds : Expire(i) \/ Progress(i)
  <2>1. PICK i \in JobIds : Expire(i) \/ Progress(i)
    BY <1>2
  <2>2. jobs[i] # NoJob /\ jobs[i] \in Job /\ UNCHANGED <<calls, tokens, settled, kills>>
    BY <2>1 DEF Expire, Progress, Inv, JobsInv
  <2>3. \E doc \in Job : /\ doc.key = jobs[i].key /\ doc.scope = jobs[i].scope /\ doc.plan = jobs[i].plan
                         /\ jobs' = [jobs EXCEPT ![i] = doc]
    <3>1. CASE Expire(i)
      <4> DEFINE doc == [jobs[i] EXCEPT !.fresh = FALSE]
      <4>1. doc \in Job /\ doc.key = jobs[i].key /\ doc.scope = jobs[i].scope /\ doc.plan = jobs[i].plan
        BY <2>2 DEF Job
      <4>2. jobs' = [jobs EXCEPT ![i] = doc]
        BY <3>1 DEF Expire
      <4> QED
        BY <4>1, <4>2
    <3>2. CASE Progress(i)
      <4> DEFINE doc == [jobs[i] EXCEPT !.status = "EXECUTING"]
      <4>1. doc \in Job /\ doc.key = jobs[i].key /\ doc.scope = jobs[i].scope /\ doc.plan = jobs[i].plan
        BY <2>2 DEF Job, Statuses
      <4>2. jobs' = [jobs EXCEPT ![i] = doc]
        BY <3>2 DEF Progress
      <4> QED
        BY <4>1, <4>2
    <3> QED
      BY <2>1, <3>1, <3>2
  <2>4. JobsStay /\ JobsInv'
    BY <2>2, <2>3, Updated
  <2> QED
    BY <2>2, <2>4, Unpaid, WithoutCalls
<1> QED
  BY <1>1, <1>2

LEMMA KillKeeps == ASSUME Inv, NEW c \in Clients, Kill(c) PROVE Inv'
<1>1. Ends(c) /\ UNCHANGED <<jobs, tokens, settled>> /\ kills < MaxKills /\ kills' = kills + 1
  BY DEF Kill
<1>2. TokensInv' /\ settled \subseteq settled'
  BY <1>1, IntakeAssumption DEF Inv, TokensInv
<1> QED
  BY <1>1, <1>2, JobsUntouched, Ending

LEMMA EveryStep == ASSUME Inv, [Next]_vars PROVE Inv'
<1>1. CASE UNCHANGED vars
  <2>1. UNCHANGED <<jobs, calls, tokens, settled, kills>>
    BY <1>1 DEF vars
  <2> QED
    BY <2>1, JobsUntouched, Unpaid, WithoutCalls
<1>2. CASE \E c \in Clients : Step(c)
  BY <1>2, LookupKeeps, CreateKeeps, AnalyseKeeps, WritesKeep, ReadsKeep, DelegateKeeps, PermitsKeep,
     SettleKeeps, ResumeKeeps DEF Step
<1>3. CASE \E c \in Clients : Kill(c)
  BY <1>3, KillKeeps
<1>4. CASE \E c \in Clients : Calls(c)
  <2>1. PICK c \in Clients, r \in Requests, s \in Scopes, kind \in Kinds \cup {"refresh"} : Start(c, kind, r, s)
    BY <1>4 DEF Calls
  <2> QED
    BY <2>1, StartKeeps
<1>5. CASE ExpireToken \/ \E i \in JobIds : Expire(i) \/ Progress(i)
  BY <1>5, WorldKeeps
<1> QED
  BY <1>1, <1>2, <1>3, <1>4, <1>5 DEF Next

LEMMA Invariance == Spec => []Inv
<1>1. Init => Inv
  BY IntakeAssumption DEF Init, Inv, JobsInv, CallsInv, TokensInv, OneJobPerRequest, PlansItsIncident
<1>2. Inv /\ [Next]_vars => Inv'
  BY EveryStep
<1> QED
  BY <1>1, <1>2, PTL DEF Spec

\* createIncident under the bridge's request id: a request, however often and however
\* concurrently it is repeated and cut off, has one job.
THEOREM RequestsAreIdempotent == Spec => []OneJobPerRequest
<1>1. Inv => OneJobPerRequest
  BY DEF Inv, JobsInv
<1> QED
  BY <1>1, Invariance, PTL

\* Whichever request runs the analyzer of a job, and with whichever manifest of the same
\* commitment, the job's plan holds nothing but the coin outside the manifest the job was
\* made for.
THEOREM PlansStayInScope == Spec => []PlansItsIncident
<1>1. Inv => PlansItsIncident
  BY DEF Inv, JobsInv
<1> QED
  BY <1>1, Invariance, PTL

\* Whatever collides with it, a request is handed packages of its own wallet, for assets
\* it lists, and so never for the coin.
THEOREM ScopeIsKept == Spec => []HandsOnlyItsScope
<1>1. Inv => HandsOnlyItsScope
  <2> SUFFICES ASSUME Inv, NEW c \in Clients, At(c, "done")
               PROVE  /\ calls[c].kind = "refresh" \/
                           /\ JobOf(c).scope.wallet = calls[c].scope.wallet
                           /\ Digest[JobOf(c).scope.manifest] = Digest[calls[c].scope.manifest]
                      /\ calls[c].packs \subseteq Asked(c)
    BY DEF HandsOnlyItsScope
  <2>1. /\ calls[c].pc = "done" /\ OnJob(calls[c], jobs, settled) /\ CallOK(calls[c], jobs, settled)
    BY TheCall DEF Carried
  <2> QED
    BY <2>1 DEF CallOK, OnJob, SameScope, About, Asked, JobOf
<1> QED
  BY <1>1, Invariance, PTL

\* A continuation is of a rescue whose payment was settled under the same request.
THEOREM ContinuationsArePaid == Spec => []ContinuesOnlyPaid
<1>1. Inv => ContinuesOnlyPaid
  <2> SUFFICES ASSUME Inv, NEW c \in Clients, calls[c] # Idle, calls[c].kind = "refresh",
                      calls[c].id # NoJob
               PROVE  /\ <<calls[c].req, calls[c].id>> \in settled
                      /\ JobOf(c).key = <<"paid", calls[c].req>>
    BY DEF ContinuesOnlyPaid
  <2>1. calls[c] \in Call /\ CallOK(calls[c], jobs, settled)
    BY DEF Inv, CallsInv
  <2>2. calls[c].id \in JobIds
    BY <2>1, CallFields
  <2> QED
    BY <2>1, <2>2 DEF CallOK, OnJob, JobOf
<1> QED
  BY <1>1, Invariance, PTL
=============================================================================
