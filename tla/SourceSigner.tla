----------------------------- MODULE SourceSigner ----------------------------
(***************************************************************************)
(* The source signer: pages of the application (the bridge of packages/    *)
(* buyer-runtime), the extension's content script in each tab, its service *)
(* worker and its popup.  A page asks for the two authorizations of its    *)
(* package; the worker verifies the package, keeps one session and opens   *)
(* the popup; what is signed there goes back through the content script,   *)
(* which repeats it until the page says that it took it.  Each of the four *)
(* waits for the others with its own timer, and the user closes the popup, *)
(* reloads tabs and asks again while they do.  The browser kills the       *)
(* worker when it likes; its session storage stays.                        *)
(*                                                                         *)
(* Requests are numbered: each brings a package of its own, since the page *)
(* runs preflight before it asks.  A session bears its request's number.   *)
(***************************************************************************)
EXTENDS Naturals, Sequences

CONSTANTS Tabs,
          MaxRequests, MaxCalls,   \* bounds: what pages ask, what popups ask
          MaxKills                 \* bound: kills of the service worker

ASSUME BoundsAssumption == {MaxRequests, MaxCalls, MaxKills} \subseteq Nat

VARIABLES asked,       \* the tab of each request
          outcome,     \* and what its page came to
          checks,      \* results a page is recovering the signers of
          expired,     \* requests whose package is past its time
          staging,     \* requests whose package the worker verifies
          staged,      \* the session in storage
          calls,       \* what popups asked of the worker
          delivery,    \* per request, the call the content script delivers for
          taken,       \* acceptances posted by pages and not read yet
          popup, kills

page   == <<asked, outcome, checks, taken>>
worker == <<staging, staged, kills>>
vars   == <<page, worker, expired, calls, delivery, popup>>

None     == 0
Requests == 1 .. Len(asked)
Closed   == [shows |-> None, at |-> "closed", call |-> None]
Outcomes == {"waiting", "signer", "failed", "gone"}

\* The types; and what is delivered for a request was signed for its session, which
\* may have been replaced while the popup showed it.
TypeOK ==
  /\ asked \in Seq(Tabs) /\ Len(asked) <= MaxRequests
  /\ outcome \in [Requests -> Outcomes] /\ delivery \in [Requests -> 0 .. Len(calls)]
  /\ checks \subseteq Requests /\ expired \subseteq Requests
  /\ staging \subseteq Requests /\ taken \subseteq Requests
  /\ staged \in {None} \union Requests /\ kills \in 0 .. MaxKills
  /\ \A k \in 1 .. Len(calls) :
       /\ calls[k].kind \in {"get", "sign", "clear"}
       /\ calls[k].session \in {None} \union Requests /\ calls[k].held \in {None} \union Requests
       /\ calls[k].at \in {"read", "drop", "send", "sent", "accepted", "ok", "error"}
  /\ \A i \in Requests : delivery[i] # None => calls[delivery[i]].session = i
  /\ popup.shows \in {None} \union Requests /\ popup.call \in 0 .. Len(calls)
  /\ popup.at \in {"closed", "loading", "review", "signing", "discarding", "signed", "empty"}

Init == /\ asked = <<>> /\ outcome = <<>> /\ delivery = <<>> /\ calls = <<>>
        /\ checks = {} /\ taken = {} /\ expired = {} /\ staging = {}
        /\ staged = None /\ popup = Closed /\ kills = 0

Settles(i, result) == IF outcome[i] = "waiting" THEN [outcome EXCEPT ![i] = result] ELSE outcome

\* A popup asks something of the worker: the next call.
Asks(kind, session) == calls' = Append(calls, [kind |-> kind, session |-> session,
                                               held |-> None, at |-> "read"])
Goes(k, at)    == calls' = [calls EXCEPT ![k].at = at]
Answered(k)    == k # None /\ calls[k].at \in {"ok", "error"}

-----------------------------------------------------------------------------
(* The page: requestEip7702SourceSignerFromExtension.                      *)

Ask(tab) ==
  /\ Len(asked) < MaxRequests
  /\ \A i \in Requests : asked[i] = tab => outcome[i] # "waiting"
  /\ asked' = Append(asked, tab) /\ outcome' = Append(outcome, "waiting")
  /\ delivery' = Append(delivery, None)
  /\ staging' = staging \union {Len(asked) + 1}
  /\ UNCHANGED <<checks, taken, expired, staged, calls, popup, kills>>

\* The result is posted again and again: any delivery in progress is heard.
Hears(i) ==
  /\ outcome[i] = "waiting" /\ delivery[i] # None /\ calls[delivery[i]].session = i
  /\ checks' = checks \union {i}
  /\ UNCHANGED <<asked, outcome, taken, worker, expired, calls, delivery, popup>>

\* Mutant of Takes: not looked at again whether the request has failed meanwhile.
TakesLate(i) ==
  /\ i \in checks /\ checks' = checks \ {i}
  /\ outcome' = Settles(i, "signer") /\ taken' = taken \union {i}
  /\ UNCHANGED <<asked, worker, expired, calls, delivery, popup>>

\* createOneUseSigner is through, and the acceptance is posted before it resolves.
Takes(i) ==
  /\ i \in checks /\ checks' = checks \ {i}
  /\ outcome' = Settles(i, "signer")
  /\ taken' = IF outcome[i] = "waiting" THEN taken \union {i} ELSE taken
  /\ UNCHANGED <<asked, worker, expired, calls, delivery, popup>>

\* The timer of the page, set to the rest of the package's life.
TimesOut(i) ==
  /\ outcome[i] = "waiting" /\ i \in expired
  /\ outcome' = Settles(i, "failed")
  /\ UNCHANGED <<asked, checks, taken, worker, expired, calls, delivery, popup>>

Of(tab) == {i \in Requests : asked[i] = tab}
InTab(tab, k) == \E i \in Of(tab) : delivery[i] = k

\* With the page goes its content script, and the worker's message fails.
Reload(tab) ==
  /\ outcome' = [i \in Requests |-> IF i \in Of(tab) THEN Settles(i, "gone")[i] ELSE outcome[i]]
  /\ checks' = checks \ Of(tab) /\ taken' = taken \ Of(tab)
  /\ delivery' = [i \in Requests |-> IF i \in Of(tab) THEN None ELSE delivery[i]]
  /\ calls' = [k \in 1 .. Len(calls) |-> IF InTab(tab, k) THEN [calls[k] EXCEPT !.at = "error"]
                                         ELSE calls[k]]
  /\ UNCHANGED <<asked, worker, expired, popup>>

-----------------------------------------------------------------------------
(* The content script.                                                     *)

\* A message with the result: an earlier delivery for the request is answered
\* with an error.  Or the tab is closed.
Deliver(k) ==
  /\ calls[k].at = "send"
  /\ \/ LET i == calls[k].held
        IN /\ delivery' = [delivery EXCEPT ![i] = k]
           /\ calls' = [j \in 1 .. Len(calls) |->
                          IF j = k THEN [calls[j] EXCEPT !.at = "sent"]
                          ELSE IF j = delivery[i] THEN [calls[j] EXCEPT !.at = "error"]
                          ELSE calls[j]]
     \/ Goes(k, "error") /\ UNCHANGED delivery
  /\ UNCHANGED <<page, worker, expired, popup>>

\* The page's acceptance answers the delivery of its request, if there is one.
ReadsAcceptance(i) ==
  /\ i \in taken /\ taken' = taken \ {i}
  /\ delivery' = [delivery EXCEPT ![i] = None]
  /\ IF delivery[i] # None /\ calls[delivery[i]].at = "sent" THEN Goes(delivery[i], "accepted")
     ELSE UNCHANGED calls
  /\ UNCHANGED <<asked, outcome, checks, worker, expired, popup>>

\* Mutant of GivesUp: without a timer the content script would wait for the page.
NeverGivesUp(i) == FALSE /\ UNCHANGED vars
\* After ten seconds.
GivesUp(i) ==
  /\ delivery[i] # None /\ delivery' = [delivery EXCEPT ![i] = None]
  /\ IF calls[delivery[i]].at = "sent" THEN Goes(delivery[i], "error") ELSE UNCHANGED calls
  /\ UNCHANGED <<page, worker, expired, popup>>

-----------------------------------------------------------------------------
(* The service worker.                                                     *)

\* handlePageRequest: the last package that is verified is the one staged, and
\* the popup is opened unless one is open.
Stage(i) ==
  /\ i \in staging /\ staging' = staging \ {i}
  /\ staged' = i
  /\ IF popup.at = "closed" /\ Len(calls) < MaxCalls
     THEN Asks("get", None) /\ popup' = [Closed EXCEPT !.at = "loading", !.call = Len(calls) + 1]
     ELSE UNCHANGED <<calls, popup>>
  /\ UNCHANGED <<page, expired, delivery, kills>>

Refuse(i) ==
  /\ i \in staging /\ staging' = staging \ {i}
  /\ outcome' = Settles(i, "failed")
  /\ UNCHANGED <<asked, checks, taken, staged, kills, expired, calls, delivery, popup>>

\* Mutant of Serves: the identifier of the session is not compared.
ServesWhatIsStaged(k) ==
  CASE calls[k].kind = "get"   -> "ok"
    [] calls[k].kind = "sign"  -> "send"
    [] calls[k].kind = "clear" -> "drop"

\* What a call does with a live session: a signature needs the session it was made
\* for, and authorizations that are its review's.
Serves(k) ==
  CASE calls[k].kind = "get" -> "ok"
    [] calls[k].kind # "get" /\ calls[k].session # staged -> "error"
    [] calls[k].kind = "sign"  /\ calls[k].session = staged -> "send"
    [] calls[k].kind = "clear" /\ calls[k].session = staged -> "drop"

\* loadPendingSession: what is past its time is removed, and what is not there too.
Load(k) ==
  /\ calls[k].at = "read"
  /\ IF staged # None /\ staged \notin expired
     THEN calls' = [calls EXCEPT ![k].at = Serves(k), ![k].held = staged]
     ELSE Goes(k, "drop")
  /\ UNCHANGED <<page, worker, expired, delivery, popup>>

\* removePendingSession removes what is there by now.
Drop(k) ==
  /\ calls[k].at \in {"drop", "accepted"} /\ staged' = None
  /\ Goes(k, IF calls[k].kind # "get" /\ calls[k].held = None THEN "error" ELSE "ok")
  /\ UNCHANGED <<page, staging, kills, expired, delivery, popup>>

\* What it was doing is lost: pages and popups are told.
Kill ==
  /\ kills < MaxKills /\ kills' = kills + 1 /\ staging' = {}
  /\ outcome' = [i \in Requests |-> IF i \in staging THEN Settles(i, "failed")[i] ELSE outcome[i]]
  /\ calls' = [k \in 1 .. Len(calls) |-> IF calls[k].at = "ok" THEN calls[k]
                                         ELSE [calls[k] EXCEPT !.at = "error"]]
  /\ UNCHANGED <<asked, checks, taken, staged, expired, delivery, popup>>

-----------------------------------------------------------------------------
(* The popup.                                                              *)

Open == /\ popup.at = "closed" /\ Len(calls) < MaxCalls /\ Asks("get", None)
        /\ popup' = [Closed EXCEPT !.at = "loading", !.call = Len(calls) + 1]
        /\ UNCHANGED <<page, worker, expired, delivery>>

Close == /\ popup.at # "closed" /\ popup' = Closed
         /\ UNCHANGED <<page, worker, expired, calls, delivery>>

Reviews(i) == [Closed EXCEPT !.shows = i, !.at = IF i = None THEN "empty" ELSE "review"]

Rendered == /\ popup.at = "loading" /\ Answered(popup.call)
            /\ popup' = Reviews(calls[popup.call].held)
            /\ UNCHANGED <<page, worker, expired, calls, delivery>>

\* The destination's suffix is entered, both boxes are ticked, the key is the
\* source's; the two signatures are made in the popup.
Sign == /\ popup.at = "review" /\ Len(calls) < MaxCalls /\ Asks("sign", popup.shows)
        /\ popup' = [popup EXCEPT !.at = "signing", !.call = Len(calls) + 1]
        /\ UNCHANGED <<page, worker, expired, delivery>>

Signed == /\ popup.at = "signing" /\ Answered(popup.call)
          /\ popup' = [popup EXCEPT !.at = IF calls[popup.call].at = "ok" THEN "signed" ELSE "review"]
          /\ UNCHANGED <<page, worker, expired, calls, delivery>>

Discard == /\ popup.at = "review" /\ Len(calls) < MaxCalls /\ Asks("clear", popup.shows)
           /\ popup' = [popup EXCEPT !.at = "discarding", !.call = Len(calls) + 1]
           /\ UNCHANGED <<page, worker, expired, delivery>>

\* Whatever the answer is.
Discarded == /\ popup.at = "discarding" /\ Answered(popup.call)
             /\ popup' = Reviews(None)
             /\ UNCHANGED <<page, worker, expired, calls, delivery>>

-----------------------------------------------------------------------------
Expire(i) == /\ i \notin expired /\ expired' = expired \union {i}
             /\ UNCHANGED <<page, worker, calls, delivery, popup>>

User  == (\E tab \in Tabs : Ask(tab) \/ Reload(tab)) \/ Open \/ Close \/ Sign \/ Discard
Page  == \E i \in Requests : Hears(i) \/ Takes(i) \/ TimesOut(i)
Content == \/ \E k \in 1 .. Len(calls) : Deliver(k)
           \/ \E i \in Requests : ReadsAcceptance(i) \/ GivesUp(i)
Worker  == \/ \E i \in Requests : Stage(i) \/ Refuse(i)
           \/ \E k \in 1 .. Len(calls) : Load(k) \/ Drop(k)
Popup == Rendered \/ Signed \/ Discarded

Next == User \/ Page \/ Content \/ Worker \/ Popup \/ Kill \/ \E i \in Requests : Expire(i)

Spec == Init /\ [][Next]_vars

\* Time passes, the timers of page and content script fire, and the worker and
\* the popup handle what they get.
FairSpec == /\ Spec /\ WF_vars(Worker) /\ WF_vars(Popup) /\ WF_vars(\E k \in 1 .. Len(calls) : Deliver(k))
            /\ \A i \in 1 .. MaxRequests : /\ WF_vars(i \in Requests /\ Expire(i))
                                           /\ WF_vars(i \in Requests /\ TimesOut(i))
                                           /\ WF_vars(i \in Requests /\ GivesUp(i))

-----------------------------------------------------------------------------
(* Correctness.                                                            *)

\* The popup says SIGNED only of a package whose page holds its authorizations,
\* or held them before it was reloaded: not because they were posted, nor because
\* a page that has given up heard them.
SignedMeansTaken == popup.at = "signed" => outcome[popup.shows] = "signer"

SomebodyWaits == \/ \E i \in Requests : outcome[i] = "waiting"
                 \/ popup.at \in {"loading", "signing", "discarding"}

\* Whoever waits comes back: a page gets its signer or an error, and a popup that
\* signs gets its answer, whoever of the others is killed, closed or reloaded.
\* (What waits is bounded and never waits twice, so that it is enough that the
\* waiting ends.)
EverybodyIsAnswered == SomebodyWaits ~> ~SomebodyWaits
=============================================================================
