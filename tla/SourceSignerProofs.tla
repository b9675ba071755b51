-------------------------- MODULE SourceSignerProofs --------------------------
(***************************************************************************)
(* Proofs about SourceSigner, for any number of tabs, requests, calls of    *)
(* popups and kills of the service worker.                                  *)
(***************************************************************************)
EXTENDS SourceSigner, SequenceTheorems, TLAPS

Kinds  == {"get", "sign", "clear"}
Stages == {"read", "drop", "send", "sent", "accepted", "ok", "error"}
Call   == [kind : Kinds, session : Nat, held : Nat, at : Stages]
Views  == {"closed", "loading", "review", "signing", "discarding", "signed", "empty"}

Types ==
  /\ asked \in Seq(Tabs) /\ Len(asked) <= MaxRequests
  /\ outcome \in [Requests -> Outcomes] /\ delivery \in [Requests -> Nat]
  /\ checks \subseteq Requests /\ expired \subseteq Requests
  /\ staging \subseteq Requests /\ taken \subseteq Requests
  /\ staged \in {None} \union Requests /\ kills \in 0 .. MaxKills
  /\ calls \in Seq(Call)
  /\ popup \in [shows : Nat, at : Views, call : Nat]

\* A signature on its way is for the session the worker held when it was asked, and
\* the worker says ok to it only when the session's page has its signer.
CallOK(c) ==
  /\ c.session \in {None} \union Requests /\ c.held \in {None} \union Requests
  /\ c.at = "read" => c.held = None
  /\ c.at \in {"send", "sent", "accepted"} =>
       c.kind = "sign" /\ c.session \in Requests /\ c.held = c.session
  /\ c.at = "drop" /\ c.kind = "sign" => c.held = None
  /\ c.at \in {"accepted", "ok"} /\ c.kind = "sign" =>
       c.session \in Requests /\ outcome[c.session] = "signer"
CallsInv == \A k \in 1 .. Len(calls) : CallOK(calls[k])

DeliveryInv == \A i \in Requests : delivery[i] # None =>
                 delivery[i] \in 1 .. Len(calls) /\ calls[delivery[i]].session = i

\* A page posts an acceptance only when it has its signer.
TakenInv == \A i \in taken : outcome[i] = "signer"

\* The popup waits for the answer to its own call, about the session it shows.
PopupInv ==
  /\ popup.shows \in {None} \union Requests /\ popup.call \in 0 .. Len(calls)
  /\ popup.at \in {"review", "signing", "signed"} => popup.shows \in Requests
  /\ popup.at = "signing" =>
       /\ popup.call \in 1 .. Len(calls)
       /\ calls[popup.call].kind = "sign" /\ calls[popup.call].session = popup.shows
  /\ popup.at = "signed" => outcome[popup.shows] = "signer"

Inv == Types /\ CallsInv /\ DeliveryInv /\ TakenInv /\ PopupInv

-----------------------------------------------------------------------------
(* Sequences.                                                              *)

LEMMA FunctionsAreSeqs ==
  ASSUME NEW S, NEW n \in Nat, NEW f \in [1 .. n -> S]
  PROVE  f \in Seq(S) /\ Len(f) = n
<1>1. f \in Seq(S)
  BY SeqDef
<1>2. Len(f) \in Nat /\ DOMAIN f = 1 .. Len(f)
  BY <1>1, LenProperties
<1>3. DOMAIN f = 1 .. n
  OBVIOUS
<1> QED
  BY <1>1, <1>2, <1>3

\* A list of one more.
LEMMA OneMore ==
  ASSUME NEW S, NEW n \in Nat, NEW f \in [1 .. n -> S], NEW x \in S
  PROVE  /\ Append(f, x) \in [1 .. n + 1 -> S]
         /\ Append(f, x)[n + 1] = x /\ \A i \in 1 .. n : Append(f, x)[i] = f[i]
<1>1. f \in Seq(S) /\ Len(f) = n
  BY FunctionsAreSeqs
<1>2. Append(f, x) \in Seq(S) /\ Len(Append(f, x)) = n + 1
  BY <1>1
<1>3. Append(f, x) \in [1 .. n + 1 -> S]
  BY <1>2, LenProperties
<1>4. Append(f, x)[n + 1] = x /\ \A i \in 1 .. n : Append(f, x)[i] = f[i]
  BY <1>1
<1> QED
  BY <1>3, <1>4

\* A popup's request is the last call; the others are as before.
LEMMA Asking ==
  ASSUME calls \in Seq(Call), NEW kind \in Kinds, NEW session \in Nat, Asks(kind, session)
  PROVE  /\ calls' \in Seq(Call) /\ Len(calls') = Len(calls) + 1
         /\ calls'[Len(calls) + 1] = [kind |-> kind, session |-> session, held |-> None, at |-> "read"]
         /\ \A j \in 1 .. Len(calls) : calls'[j] = calls[j]
<1> DEFINE new == [kind |-> kind, session |-> session, held |-> None, at |-> "read"]
<1>1. new \in Call
  BY DEF Call, Stages, None
<1>2. calls' = Append(calls, new)
  BY DEF Asks
<1> QED
  BY <1>1, <1>2

\* A call goes on; the others are as before.
LEMMA Going ==
  ASSUME calls \in Seq(Call), NEW k \in 1 .. Len(calls), NEW at \in Stages, Goes(k, at)
  PROVE  /\ calls' \in Seq(Call) /\ Len(calls') = Len(calls)
         /\ calls'[k].kind = calls[k].kind /\ calls'[k].session = calls[k].session
         /\ calls'[k].held = calls[k].held /\ calls'[k].at = at
         /\ \A j \in 1 .. Len(calls) : j # k => calls'[j] = calls[j]
<1> DEFINE new == [calls[k] EXCEPT !.at = at]
<1>1. calls[k] \in Call
  BY ElementOfSeq
<1>2. /\ new \in Call /\ new.kind = calls[k].kind /\ new.session = calls[k].session
      /\ new.held = calls[k].held /\ new.at = at
  BY <1>1 DEF Call
<1>3. calls' = [calls EXCEPT ![k] = new]
  BY DEF Goes
<1> HIDE DEF new
<1>4. /\ calls' \in Seq(Call) /\ Len(calls') = Len(calls)
      /\ \A j \in 1 .. Len(calls) : calls'[j] = IF j = k THEN new ELSE calls[j]
  BY <1>2, <1>3, ExceptSeq
<1> QED
  BY <1>2, <1>4

\* Some calls fail; the others are as before.
Fail(set) == calls' = [j \in 1 .. Len(calls) |->
                         IF j \in set THEN [calls[j] EXCEPT !.at = "error"] ELSE calls[j]]
LEMMA Failing ==
  ASSUME calls \in Seq(Call), NEW set, Fail(set)
  PROVE  /\ calls' \in Seq(Call) /\ Len(calls') = Len(calls)
         /\ \A j \in 1 .. Len(calls) :
              /\ calls'[j].kind = calls[j].kind /\ calls'[j].session = calls[j].session
              /\ calls'[j].held = calls[j].held
              /\ calls'[j].at = IF j \in set THEN "error" ELSE calls[j].at
<1>1. Len(calls) \in Nat /\ \A j \in 1 .. Len(calls) : calls[j] \in Call
  BY ElementOfSeq, LenProperties
<1>2. \A j \in 1 .. Len(calls) :
        /\ calls'[j] \in Call
        /\ calls'[j].kind = calls[j].kind /\ calls'[j].session = calls[j].session
        /\ calls'[j].held = calls[j].held
        /\ calls'[j].at = IF j \in set THEN "error" ELSE calls[j].at
  BY <1>1 DEF Fail, Call, Stages
<1>3. calls' \in [1 .. Len(calls) -> Call]
  BY <1>2 DEF Fail
<1>4. calls' \in Seq(Call) /\ Len(calls') = Len(calls)
  BY <1>1, <1>3, FunctionsAreSeqs
<1> QED
  BY <1>2, <1>4

-----------------------------------------------------------------------------
(* What a page came to stays.                                              *)

Stays == /\ Requests \subseteq Requests'
         /\ \A i \in Requests : outcome[i] = "signer" => outcome'[i] = "signer"

LEMMA Settling ==
  ASSUME Types, NEW i, NEW result \in Outcomes
  PROVE  /\ Settles(i, result) \in [Requests -> Outcomes]
         /\ \A j \in Requests : j # i \/ outcome[j] # "waiting" => Settles(i, result)[j] = outcome[j]
BY DEF Types, Settles, Outcomes

\* Calls, once in order, are disturbed by nothing that leaves them alone.
LEMMA CallsStay ==
  ASSUME Stays, NEW c, CallOK(c)
  PROVE  CallOK(c)'
BY DEF Stays, CallOK

\* Nor does it disturb them that some fail.
LEMMA CallsRelate ==
  ASSUME CallsInv, Stays, Len(calls') = Len(calls),
         \A j \in 1 .. Len(calls) :
           /\ calls'[j].kind = calls[j].kind /\ calls'[j].session = calls[j].session
           /\ calls'[j].held = calls[j].held
           /\ calls'[j].at = "error" \/ calls'[j].at = calls[j].at
  PROVE  CallsInv'
<1> SUFFICES ASSUME NEW j \in 1 .. Len(calls)' PROVE CallOK(calls[j])'
  BY DEF CallsInv
<1>1. j \in 1 .. Len(calls) /\ CallOK(calls[j])
  BY DEF CallsInv
<1> QED
  BY <1>1 DEF CallOK, Stays
\* What pages do among themselves.
LEMMA PageKeeps ==
  ASSUME Inv, UNCHANGED <<asked, calls, delivery, popup>>, Stays, Types', TakenInv'
  PROVE  Inv'
<1>1. Requests' = Requests
  BY DEF Requests
<1>2. CallsInv'
  <2> SUFFICES ASSUME NEW k \in 1 .. Len(calls)' PROVE CallOK(calls[k])'
    BY DEF CallsInv
  <2>1. CallOK(calls[k])
    BY DEF Inv, CallsInv
  <2> QED
    BY <2>1 DEF Stays, CallOK
<1>3. DeliveryInv'
  BY <1>1 DEF Inv, DeliveryInv
<1>4. PopupInv'
  BY <1>1 DEF Inv, PopupInv, Stays
<1> QED
  BY <1>2, <1>3, <1>4 DEF Inv

LEMMA PageSteps ==
  ASSUME Inv, NEW i \in Requests, Hears(i) \/ Takes(i) \/ TimesOut(i) \/ (i \in staging /\ Refuse(i))
  PROVE  Inv'
<1>1. Requests' = Requests /\ UNCHANGED <<asked, calls, delivery, popup>>
  BY DEF Hears, Takes, TimesOut, Refuse, worker, Requests
<1>2. Types /\ TakenInv
  BY DEF Inv
<1>3. CASE Hears(i)
  <2>1. Stays /\ Types' /\ TakenInv'
    BY <1>1, <1>2, <1>3 DEF Hears, Stays, Types, TakenInv, worker
  <2> QED
    BY <1>1, <2>1, PageKeeps
<1>4. CASE Takes(i)
  <2>1. outcome' = Settles(i, "signer") /\ "signer" \in Outcomes
    BY <1>4 DEF Takes, Outcomes
  <2>2. /\ outcome' \in [Requests -> Outcomes]
        /\ \A j \in Requests : j # i \/ outcome[j] # "waiting" => outcome'[j] = outcome[j]
    BY <1>2, <2>1, Settling
  <2>3. outcome[i] = "waiting" => outcome'[i] = "signer"
    BY <1>2, <2>1 DEF Types, Settles
  <2>4. Stays
    BY <1>1, <2>2 DEF Stays
  <2>5. Types'
    BY <1>1, <1>2, <1>4, <2>2 DEF Types, Takes, worker
  <2>6. TakenInv'
    BY <1>2, <1>4, <2>2, <2>3 DEF TakenInv, Takes, Types
  <2> QED
    BY <1>1, <2>4, <2>5, <2>6, PageKeeps
<1>5. CASE TimesOut(i) \/ (i \in staging /\ Refuse(i))
  <2>1. outcome' = Settles(i, "failed") /\ "failed" \in Outcomes
    BY <1>5 DEF TimesOut, Refuse, Outcomes
  <2>2. /\ outcome' \in [Requests -> Outcomes]
        /\ \A j \in Requests : j # i \/ outcome[j] # "waiting" => outcome'[j] = outcome[j]
    BY <1>2, <2>1, Settling
  <2>3. Stays
    BY <1>1, <2>2 DEF Stays
  <2>4. /\ UNCHANGED <<checks, taken, expired, staged, kills>>
        /\ staging' = staging \/ staging' = staging \ {i}
    BY <1>5 DEF TimesOut, Refuse, worker
  <2>5. Types'
    BY <1>1, <1>2, <2>2, <2>4 DEF Types
  <2>6. TakenInv'
    BY <1>2, <2>3, <2>4 DEF TakenInv, Types, Stays
  <2> QED
    BY <1>1, <2>3, <2>5, <2>6, PageKeeps
<1> QED
  BY <1>3, <1>4, <1>5

LEMMA AskKeeps == ASSUME Inv, NEW tab \in Tabs, Ask(tab) PROVE Inv'
<1> DEFINE n == Len(asked)
<1>1. Types /\ n \in Nat /\ Requests = 1 .. n
  BY DEF Inv, Types, Requests
<1>2. asked' \in Seq(Tabs) /\ Len(asked') = n + 1 /\ n + 1 <= MaxRequests
  BY <1>1, BoundsAssumption DEF Types, Ask
<1>3. Requests' = 1 .. n + 1 /\ Requests \subseteq Requests' /\ n + 1 \in Requests'
  BY <1>1, <1>2 DEF Requests
<1>4. "waiting" \in Outcomes /\ None \in Nat
  BY DEF Outcomes, None
<1>5. /\ outcome' \in [1 .. n + 1 -> Outcomes] /\ outcome'[n + 1] = "waiting"
      /\ \A i \in 1 .. n : outcome'[i] = outcome[i]
  <2>1. outcome \in [1 .. n -> Outcomes] /\ outcome' = Append(outcome, "waiting")
    BY <1>1 DEF Types, Ask
  <2>2. n \in Nat /\ "waiting" \in Outcomes
    BY <1>1, <1>4
  <2> HIDE DEF n
  <2>3. Append(outcome, "waiting") \in [1 .. n + 1 -> Outcomes]
    BY <2>1, <2>2, OneMore
  <2>4. Append(outcome, "waiting")[n + 1] = "waiting"
    BY <2>1, <2>2, OneMore
  <2>5. \A i \in 1 .. n : Append(outcome, "waiting")[i] = outcome[i]
    BY <2>1, <2>2, OneMore
  <2> QED
    BY <2>1, <2>3, <2>4, <2>5
<1>6. /\ delivery' \in [1 .. n + 1 -> Nat] /\ delivery'[n + 1] = None
      /\ \A i \in 1 .. n : delivery'[i] = delivery[i]
  <2>1. delivery \in [1 .. n -> Nat] /\ delivery' = Append(delivery, None)
    BY <1>1 DEF Types, Ask
  <2>2. n \in Nat /\ None \in Nat
    BY <1>1, <1>4
  <2> HIDE DEF n
  <2>3. Append(delivery, None) \in [1 .. n + 1 -> Nat]
    BY <2>1, <2>2, OneMore
  <2>4. Append(delivery, None)[n + 1] = None
    BY <2>1, <2>2, OneMore
  <2>5. \A i \in 1 .. n : Append(delivery, None)[i] = delivery[i]
    BY <2>1, <2>2, OneMore
  <2> QED
    BY <2>1, <2>3, <2>4, <2>5
<1>7. Stays
  BY <1>1, <1>3, <1>5 DEF Stays
<1>8. Types'
  BY <1>1, <1>2, <1>3, <1>5, <1>6 DEF Types, Ask
<1>9. CallsInv'
  <2> SUFFICES ASSUME NEW k \in 1 .. Len(calls)' PROVE CallOK(calls[k])'
    BY DEF CallsInv
  <2>1. calls' = calls /\ CallOK(calls[k])
    BY DEF Inv, CallsInv, Ask
  <2> QED
    BY <1>7, <2>1 DEF Stays, CallOK
<1>10. DeliveryInv'
  <2> SUFFICES ASSUME NEW i \in Requests', delivery'[i] # None
               PROVE  delivery'[i] \in 1 .. Len(calls)' /\ calls'[delivery'[i]].session = i
    BY DEF DeliveryInv
  <2>1. i \in 1 .. n /\ delivery'[i] = delivery[i] /\ calls' = calls
    BY <1>1, <1>3, <1>6 DEF Ask
  <2> QED
    BY <1>1, <2>1 DEF Inv, DeliveryInv
<1>11. TakenInv'
  BY <1>1, <1>5 DEF Inv, TakenInv, Types, Ask
<1>12. PopupInv'
  BY <1>1, <1>3, <1>7 DEF Inv, PopupInv, Ask, Stays
<1> QED
  BY <1>8, <1>9, <1>10, <1>11, <1>12 DEF Inv

LEMMA ReloadKeeps == ASSUME Inv, NEW tab \in Tabs, Reload(tab) PROVE Inv'
<1>1. Types /\ Requests' = Requests /\ UNCHANGED <<asked, staging, staged, kills, expired, popup>>
  BY DEF Inv, Reload, worker, Requests
<1>2. \A i \in Requests : Settles(i, "gone")[i] = IF outcome[i] = "waiting" THEN "gone" ELSE outcome[i]
  BY <1>1 DEF Types, Settles
<1>3. /\ outcome' \in [Requests -> Outcomes]
      /\ \A i \in Requests : outcome[i] # "waiting" => outcome'[i] = outcome[i]
  <2>1. outcome' = [i \in Requests |-> IF i \in Of(tab) THEN Settles(i, "gone")[i] ELSE outcome[i]]
    BY DEF Reload
  <2>2. outcome' = [i \in Requests |-> IF i \in Of(tab) /\ outcome[i] = "waiting" THEN "gone"
                                      ELSE outcome[i]]
    BY <1>2, <2>1
  <2>3. outcome \in [Requests -> Outcomes] /\ "gone" \in Outcomes
    BY <1>1 DEF Types, Outcomes
  <2> QED
    BY <2>2, <2>3
<1>4. /\ delivery' \in [Requests -> Nat]
      /\ \A i \in Requests : delivery'[i] = None \/ delivery'[i] = delivery[i]
  BY <1>1 DEF Reload, Types, None
<1>5. /\ calls' \in Seq(Call) /\ Len(calls') = Len(calls)
      /\ \A j \in 1 .. Len(calls) :
           /\ calls'[j].kind = calls[j].kind /\ calls'[j].session = calls[j].session
           /\ calls'[j].held = calls[j].held
           /\ calls'[j].at = "error" \/ calls'[j].at = calls[j].at
  <2> DEFINE set == {j \in 1 .. Len(calls) : InTab(tab, j)}
  <2>1. Fail(set)
    BY DEF Reload, Fail
  <2> HIDE DEF set
  <2> QED
    BY <1>1, <2>1, Failing DEF Types
<1>6. Stays
  BY <1>1, <1>3 DEF Stays
<1>7. Types'
  BY <1>1, <1>3, <1>4, <1>5 DEF Types, Reload
<1>8. CallsInv'
  BY <1>1, <1>5, <1>6, CallsRelate DEF Inv
<1>9. DeliveryInv'
  BY <1>1, <1>4, <1>5 DEF Inv, DeliveryInv
<1>10. TakenInv'
  BY <1>1, <1>6 DEF Inv, TakenInv, Types, Reload, Stays
<1>11. PopupInv'
  BY <1>1, <1>5, <1>6 DEF Inv, PopupInv, Stays
<1> QED
  BY <1>7, <1>8, <1>9, <1>10, <1>11 DEF Inv

-----------------------------------------------------------------------------
(* The content script.                                                     *)

LEMMA DeliverKeeps == ASSUME Inv, NEW k \in 1 .. Len(calls), Deliver(k) PROVE Inv'
<1>1. /\ Types /\ Requests' = Requests /\ Len(calls) \in Nat
      /\ UNCHANGED <<asked, outcome, checks, taken, staging, staged, kills, expired, popup>>
  BY DEF Inv, Types, Deliver, page, worker, Requests
<1>2. Stays
  BY <1>1 DEF Stays
<1>3. calls[k].at = "send" /\ CallOK(calls[k]) /\ calls[k] \in Call
  BY <1>1 DEF Deliver, Inv, CallsInv, Types
<1>4. calls[k].kind = "sign" /\ calls[k].held \in Requests /\ calls[k].held = calls[k].session
  BY <1>3 DEF CallOK
<1>5. CASE Goes(k, "error") /\ UNCHANGED delivery
  <2>1. /\ calls' \in Seq(Call) /\ Len(calls') = Len(calls)
        /\ \A j \in 1 .. Len(calls) :
             /\ calls'[j].kind = calls[j].kind /\ calls'[j].session = calls[j].session
             /\ calls'[j].held = calls[j].held
             /\ calls'[j].at = "error" \/ calls'[j].at = calls[j].at
    BY <1>1, <1>5, Going DEF Types, Stages
  <2>2. Types' /\ TakenInv' /\ DeliveryInv' /\ PopupInv'
    BY <1>1, <1>5, <2>1 DEF Inv, Types, TakenInv, DeliveryInv, PopupInv
  <2> QED
    BY <1>1, <1>2, <2>1, <2>2, CallsRelate DEF Inv
<1>6. CASE ~(Goes(k, "error") /\ UNCHANGED delivery)
  <2> DEFINE i == calls[k].held
  <2>1. /\ delivery' = [delivery EXCEPT ![i] = k]
        /\ calls' = [j \in 1 .. Len(calls) |->
                       IF j = k THEN [calls[j] EXCEPT !.at = "sent"]
                       ELSE IF j = delivery[i] THEN [calls[j] EXCEPT !.at = "error"]
                       ELSE calls[j]]
    BY <1>6 DEF Deliver
  <2>2. \A j \in 1 .. Len(calls) : calls[j] \in Call
    BY <1>1, ElementOfSeq DEF Types
  <2>3. \A j \in 1 .. Len(calls) :
          /\ calls'[j] \in Call
          /\ calls'[j].kind = calls[j].kind /\ calls'[j].session = calls[j].session
          /\ calls'[j].held = calls[j].held
          /\ \/ calls'[j].at \in {"error", calls[j].at}
             \/ j = k /\ calls'[j].at = "sent"
    BY <2>1, <2>2 DEF Call, Stages
  <2>4. calls' \in [1 .. Len(calls) -> Call]
    BY <2>1, <2>3
  <2>5. calls' \in Seq(Call) /\ Len(calls') = Len(calls)
    BY <1>1, <2>4, FunctionsAreSeqs
  <2>6. /\ delivery' \in [Requests -> Nat] /\ delivery'[i] = k
        /\ \A j \in Requests : j # i => delivery'[j] = delivery[j]
    BY <1>1, <1>4, <2>1 DEF Types
  <2>7. Types'
    BY <1>1, <2>5, <2>6 DEF Types
  <2>8. CallsInv'
    <3> SUFFICES ASSUME NEW j \in 1 .. Len(calls)' PROVE CallOK(calls[j])'
      BY DEF CallsInv
    <3>1. j \in 1 .. Len(calls) /\ CallOK(calls[j])
      BY <2>5 DEF Inv, CallsInv
    <3> QED
      BY <1>1, <1>4, <2>3, <3>1 DEF CallOK
  <2>9. DeliveryInv'
    BY <1>1, <1>4, <2>3, <2>5, <2>6 DEF Inv, DeliveryInv
  <2>10. TakenInv' /\ PopupInv'
    BY <1>1, <2>3, <2>5 DEF Inv, TakenInv, PopupInv
  <2> QED
    BY <2>7, <2>8, <2>9, <2>10 DEF Inv
<1> QED
  BY <1>5, <1>6

\* One call goes on as its page allows, and the rest of the calls is as before.
LEMMA GoneOn ==
  ASSUME Inv, Stays, NEW k \in 1 .. Len(calls), NEW at \in Stages \ {"read", "drop", "send", "sent"},
         Goes(k, at),
         at \in {"accepted", "ok"} => \/ calls[k].kind # "sign" /\ at = "ok"
                                      \/ /\ calls[k].kind = "sign" /\ calls[k].held = calls[k].session
                                         /\ calls[k].session \in Requests
                                         /\ outcome'[calls[k].session] = "signer"
  PROVE  /\ calls' \in Seq(Call) /\ Len(calls') = Len(calls) /\ CallsInv'
         /\ \A j \in 1 .. Len(calls) : calls'[j].kind = calls[j].kind /\ calls'[j].session = calls[j].session
<1>1. calls \in Seq(Call) /\ CallsInv
  BY DEF Inv, Types
<1>2. /\ calls' \in Seq(Call) /\ Len(calls') = Len(calls)
      /\ calls'[k].kind = calls[k].kind /\ calls'[k].session = calls[k].session
      /\ calls'[k].held = calls[k].held /\ calls'[k].at = at
      /\ \A j \in 1 .. Len(calls) : j # k => calls'[j] = calls[j]
  BY <1>1, Going
<1>3. CallsInv'
  <2> SUFFICES ASSUME NEW j \in 1 .. Len(calls)' PROVE CallOK(calls[j])'
    BY DEF CallsInv
  <2>1. j \in 1 .. Len(calls) /\ CallOK(calls[j])
    BY <1>1, <1>2 DEF CallsInv
  <2>2. CASE j # k
    BY <1>2, <2>1, <2>2 DEF CallOK, Stays
  <2>3. CASE j = k
    BY <1>2, <2>1, <2>3 DEF CallOK, Stays, Stages
  <2> QED
    BY <2>2, <2>3
<1> QED
  BY <1>2, <1>3

LEMMA ContentKeeps ==
  ASSUME Inv, NEW i \in Requests, ReadsAcceptance(i) \/ GivesUp(i)
  PROVE  Inv'
<1>1. /\ Types /\ Requests' = Requests /\ taken' \subseteq taken
      /\ UNCHANGED <<asked, outcome, checks, staging, staged, kills, expired, popup>>
      /\ delivery' = [delivery EXCEPT ![i] = None]
  BY DEF Inv, ReadsAcceptance, GivesUp, page, worker, Requests
<1>2. Stays
  BY <1>1 DEF Stays
<1>3. delivery[i] # None => delivery[i] \in 1 .. Len(calls) /\ calls[delivery[i]].session = i
  BY DEF Inv, DeliveryInv
<1>4. /\ calls' \in Seq(Call) /\ Len(calls') = Len(calls) /\ CallsInv'
      /\ \A j \in 1 .. Len(calls) : calls'[j].kind = calls[j].kind /\ calls'[j].session = calls[j].session
  <2>1. CASE UNCHANGED calls
    BY <1>1, <1>2, <2>1, CallsRelate DEF Inv, Types
  <2>2. CASE ReadsAcceptance(i) /\ delivery[i] # None /\ calls[delivery[i]].at = "sent"
    <3>1. Goes(delivery[i], "accepted") /\ outcome[i] = "signer" /\ "accepted" \in Stages
      BY <2>2 DEF ReadsAcceptance, Inv, TakenInv, Stages
    <3>2. CallOK(calls[delivery[i]])
      BY <1>3, <2>2 DEF Inv, CallsInv
    <3>3. /\ calls[delivery[i]].kind = "sign" /\ calls[delivery[i]].held = calls[delivery[i]].session
          /\ calls[delivery[i]].session \in Requests
          /\ outcome'[calls[delivery[i]].session] = "signer"
      BY <1>1, <1>3, <2>2, <3>1, <3>2 DEF CallOK
    <3> QED
      BY <1>2, <1>3, <2>2, <3>1, <3>3, GoneOn
  <2>3. CASE GivesUp(i) /\ calls[delivery[i]].at = "sent"
    <3>1. Goes(delivery[i], "error") /\ delivery[i] \in 1 .. Len(calls) /\ "error" \in Stages
      BY <1>3, <2>3 DEF GivesUp, Stages
    <3> QED
      BY <1>2, <3>1, GoneOn
  <2> QED
    BY <2>1, <2>2, <2>3 DEF ReadsAcceptance, GivesUp
<1>5. /\ delivery' \in [Requests -> Nat]
      /\ \A j \in Requests : delivery'[j] = None \/ delivery'[j] = delivery[j]
  BY <1>1 DEF Types, None
<1>6. Types'
  BY <1>1, <1>4, <1>5 DEF Types
<1>7. DeliveryInv'
  BY <1>1, <1>4, <1>5 DEF Inv, DeliveryInv
<1>8. TakenInv' /\ PopupInv'
  BY <1>1, <1>4 DEF Inv, TakenInv, PopupInv, Types
<1> QED
  BY <1>4, <1>6, <1>7, <1>8 DEF Inv

-----------------------------------------------------------------------------
(* The service worker and the popup.                                       *)

\* What neither of them touches follows from the calls and the popup.
LEMMA TheRest ==
  ASSUME Inv, UNCHANGED <<asked, checks, taken, expired, delivery>>, Stays, outcome' \in [Requests -> Outcomes],
         staging' \subseteq Requests, staged' \in {None} \union Requests, kills' \in 0 .. MaxKills,
         calls' \in Seq(Call), Len(calls') >= Len(calls),
         \A j \in 1 .. Len(calls) : calls'[j].session = calls[j].session,
         popup' \in [shows : Nat, at : Views, call : Nat], CallsInv', PopupInv'
  PROVE  Inv'
<1>1. Types /\ Requests' = Requests
  BY DEF Inv, Requests
<1>2. Len(calls) \in Nat /\ Len(calls') \in Nat
  BY <1>1, LenProperties DEF Types
<1>3. Types'
  BY <1>1 DEF Types
<1>4. DeliveryInv'
  BY <1>1, <1>2 DEF Inv, DeliveryInv
<1>5. TakenInv'
  BY <1>1 DEF Inv, TakenInv, Stays, Types
<1> QED
  BY <1>3, <1>4, <1>5 DEF Inv

LEMMA LoadKeeps == ASSUME Inv, NEW k \in 1 .. Len(calls), Load(k) PROVE Inv'
<1>1. /\ Types /\ Requests' = Requests /\ calls[k].at = "read" /\ CallOK(calls[k]) /\ calls[k] \in Call
      /\ UNCHANGED <<asked, outcome, checks, taken, staging, staged, kills, expired, delivery, popup>>
  BY DEF Inv, Load, page, worker, Requests, CallsInv, Types
<1>2. Stays
  BY <1>1 DEF Stays
<1> DEFINE new == IF staged # None /\ staged \notin expired
                  THEN [calls[k] EXCEPT !.at = Serves(k), !.held = staged]
                  ELSE [calls[k] EXCEPT !.at = "drop"]
<1>3. calls' = [calls EXCEPT ![k] = new]
  BY DEF Load, Goes
<1>4. staged \in Nat /\ Requests \subseteq Nat /\ staged \in {None} \union Requests
  BY <1>1 DEF Types, None, Requests
<1>5. /\ Serves(k) \in {"ok", "error", "send", "drop"}
      /\ Serves(k) = "send" => calls[k].kind = "sign" /\ calls[k].session = staged
      /\ Serves(k) = "drop" => calls[k].kind = "clear"
      /\ Serves(k) = "ok" => calls[k].kind = "get"
  BY <1>1 DEF Serves, Call, Kinds
<1>6. /\ new \in Call /\ new.kind = calls[k].kind /\ new.session = calls[k].session
  BY <1>1, <1>4, <1>5 DEF Call, Stages
<1>7. CallOK(new)
  <2>1. CASE staged # None /\ staged \notin expired
    <3>1. new.at = Serves(k) /\ new.held = staged /\ new.kind = calls[k].kind /\ new.session = calls[k].session
      BY <1>1, <2>1 DEF Call
    <3> HIDE DEF new
    <3> QED
      BY <1>1, <1>4, <1>5, <2>1, <3>1 DEF CallOK
  <2>2. CASE ~(staged # None /\ staged \notin expired)
    <3>1. new.at = "drop" /\ new.held = calls[k].held /\ new.kind = calls[k].kind /\ new.session = calls[k].session
      BY <1>1, <2>2 DEF Call
    <3> HIDE DEF new
    <3> QED
      BY <1>1, <3>1 DEF CallOK
  <2> QED
    BY <2>1, <2>2
<1> HIDE DEF new
<1>8. /\ calls' \in Seq(Call) /\ Len(calls') = Len(calls)
      /\ \A j \in 1 .. Len(calls) : calls'[j] = IF j = k THEN new ELSE calls[j]
  BY <1>1, <1>3, <1>6, ExceptSeq DEF Types
<1>9. CallsInv'
  <2> SUFFICES ASSUME NEW j \in 1 .. Len(calls)' PROVE CallOK(calls[j])'
    BY DEF CallsInv
  <2>1. j \in 1 .. Len(calls) /\ CallOK(calls[j])
    BY <1>8 DEF Inv, CallsInv
  <2>2. calls'[j] = new \/ calls'[j] = calls[j]
    BY <1>8, <2>1
  <2> QED
    BY <1>1, <1>7, <2>1, <2>2 DEF CallOK
<1>10. \A j \in 1 .. Len(calls) : calls'[j].kind = calls[j].kind /\ calls'[j].session = calls[j].session
  BY <1>6, <1>8
<1>11. PopupInv'
  BY <1>1, <1>8, <1>10 DEF Inv, PopupInv
<1>12. Len(calls') >= Len(calls) /\ outcome' \in [Requests -> Outcomes] /\ popup' \in [shows : Nat, at : Views, call : Nat]
  BY <1>1, <1>8 DEF Types
<1> QED
  BY <1>1, <1>2, <1>4, <1>8, <1>9, <1>10, <1>11, <1>12, TheRest DEF Types

LEMMA DropKeeps == ASSUME Inv, NEW k \in 1 .. Len(calls), Drop(k) PROVE Inv'
<1>1. /\ Types /\ Requests' = Requests /\ calls[k].at \in {"drop", "accepted"} /\ CallOK(calls[k])
      /\ UNCHANGED <<asked, outcome, checks, taken, staging, kills, expired, delivery, popup>>
      /\ staged' = None
  BY DEF Inv, Drop, page, Requests, CallsInv
<1>2. Stays
  BY <1>1 DEF Stays
<1> DEFINE at == IF calls[k].kind # "get" /\ calls[k].held = None THEN "error" ELSE "ok"
<1>3. Goes(k, at) /\ at \in {"error", "ok"}
  BY DEF Drop
<1>4. Requests \subseteq Nat \ {None}
  BY DEF Requests, None
<1>5. at = "ok" /\ calls[k].kind = "sign" =>
        /\ calls[k].held = calls[k].session /\ calls[k].session \in Requests
        /\ outcome'[calls[k].session] = "signer"
  BY <1>1, <1>4 DEF CallOK
<1>6. /\ calls' \in Seq(Call) /\ Len(calls') = Len(calls) /\ CallsInv'
      /\ \A j \in 1 .. Len(calls) : calls'[j].kind = calls[j].kind /\ calls'[j].session = calls[j].session
  <2> HIDE DEF at
  <2>1. at \in Stages \ {"read", "drop", "send", "sent"}
    BY <1>3 DEF Stages
  <2>2. at # "accepted"
    BY <1>3
  <2> QED
    BY <1>2, <1>3, <1>5, <2>1, <2>2, GoneOn
<1>7. PopupInv'
  BY <1>1, <1>6 DEF Inv, PopupInv
<1>8. /\ Len(calls') >= Len(calls) /\ outcome' \in [Requests -> Outcomes]
      /\ popup' \in [shows : Nat, at : Views, call : Nat] /\ staging' \subseteq Requests
      /\ kills' \in 0 .. MaxKills /\ staged' \in {None} \union Requests
  BY <1>1, <1>6, LenProperties DEF Types
<1> QED
  BY <1>1, <1>2, <1>6, <1>7, <1>8, TheRest

\* A popup asks: nothing else moves but what it shows and, when a session is staged,
\* the worker's storage.
LEMMA AskingKeeps ==
  ASSUME Inv, NEW kind \in Kinds, NEW session \in {None} \union Requests, Asks(kind, session),
         UNCHANGED <<page, expired, delivery, kills>>,
         staging' \subseteq Requests, staged' \in {None} \union Requests,
         popup' \in [shows : Nat, at : Views, call : Nat], popup'.call = Len(calls) + 1,
         popup'.shows \in {None} \union Requests,
         \/ popup'.at \in {"loading", "discarding"}
         \/ popup'.at = "signing" /\ kind = "sign" /\ popup'.shows = session /\ session \in Requests
  PROVE  Inv'
<1>1. /\ Types /\ Requests' = Requests /\ session \in Nat /\ calls \in Seq(Call) /\ Len(calls) \in Nat
      /\ UNCHANGED <<asked, outcome, checks, taken>>
  BY LenProperties DEF Inv, Types, page, Requests, None
<1>2. Stays
  BY <1>1 DEF Stays
<1>3. /\ calls' \in Seq(Call) /\ Len(calls') = Len(calls) + 1
      /\ calls'[Len(calls) + 1] = [kind |-> kind, session |-> session, held |-> None, at |-> "read"]
      /\ \A j \in 1 .. Len(calls) : calls'[j] = calls[j]
  BY <1>1, Asking
<1>4. CallsInv'
  <2> SUFFICES ASSUME NEW j \in 1 .. Len(calls)' PROVE CallOK(calls[j])'
    BY DEF CallsInv
  <2>1. CASE j \in 1 .. Len(calls)
    <3>1. CallOK(calls[j]) /\ calls'[j] = calls[j]
      BY <1>3, <2>1 DEF Inv, CallsInv
    <3> QED
      BY <1>1, <3>1 DEF CallOK
  <2>2. CASE j = Len(calls) + 1
    <3>1. /\ calls'[j].session = session /\ calls'[j].held = None /\ calls'[j].at = "read"
      BY <1>3, <2>2
    <3> QED
      BY <1>1, <3>1 DEF CallOK
  <2> QED
    BY <1>1, <1>3, <2>1, <2>2
<1>5. PopupInv'
  <2>1. popup'.call \in 1 .. Len(calls')
    BY <1>1, <1>3
  <2>2. popup'.at = "signing" => calls'[popup'.call].kind = "sign" /\ calls'[popup'.call].session = popup'.shows
    BY <1>3
  <2> QED
    BY <1>1, <2>1, <2>2 DEF PopupInv
<1>6. Len(calls') >= Len(calls) /\ outcome' \in [Requests -> Outcomes] /\ kills' \in 0 .. MaxKills
  BY <1>1, <1>3 DEF Types
<1>7. \A j \in 1 .. Len(calls) : calls'[j].session = calls[j].session
  BY <1>3
<1> QED
  BY <1>1, <1>2, <1>3, <1>4, <1>5, <1>6, <1>7, TheRest

\* The popup goes on with an answer, or is closed; or the worker stages a session
\* while a popup is open, or time passes.
LEMMA OthersKeep ==
  ASSUME Inv, UNCHANGED <<page, delivery, calls, kills>>,
         staging' \subseteq Requests, staged' \in {None} \union Requests, expired' \subseteq Requests,
         \/ UNCHANGED popup
         \/ /\ popup' \in [shows : Nat, at : Views, call : Nat]
            /\ popup'.shows \in {None} \union Requests /\ popup'.call \in 0 .. Len(calls)
            /\ popup'.at \in {"closed", "review", "empty", "signed"}
            /\ popup'.at \in {"review", "signed"} => popup'.shows \in Requests
            /\ popup'.at = "signed" => outcome[popup'.shows] = "signer"
  PROVE  Inv'
<1>1. Types /\ Requests' = Requests /\ UNCHANGED <<asked, outcome, checks, taken>>
  BY DEF Inv, page, Requests
<1>2. Stays
  BY <1>1 DEF Stays
<1>3. Types'
  BY <1>1 DEF Types
<1>4. CallsInv'
  BY <1>2, CallsRelate DEF Inv
<1>5. DeliveryInv' /\ TakenInv'
  BY <1>1 DEF Inv, DeliveryInv, TakenInv
<1>6. PopupInv'
  BY <1>1 DEF Inv, PopupInv
<1> QED
  BY <1>3, <1>4, <1>5, <1>6 DEF Inv

\* What popups look like.
Popups == [shows : Nat, at : Views, call : Nat]
LEMMA Asked ==
  ASSUME NEW p \in Popups, NEW at \in Views, NEW call \in Nat,
         NEW q, q = [p EXCEPT !.at = at, !.call = call]
  PROVE  q \in Popups /\ q.shows = p.shows /\ q.at = at /\ q.call = call
BY DEF Popups
LEMMA Shown ==
  ASSUME NEW p \in Popups, NEW shows \in Nat, NEW at \in Views,
         NEW q, q = [p EXCEPT !.shows = shows, !.at = at]
  PROVE  q \in Popups /\ q.shows = shows /\ q.at = at /\ q.call = p.call
BY DEF Popups
LEMMA ClosedPopup == Closed \in Popups /\ Closed.shows = None /\ Closed.call = None /\ None \in Nat
BY DEF Closed, Popups, Views, None

LEMMA StageKeeps == ASSUME Inv, NEW i \in Requests, Stage(i) PROVE Inv'
<1>1. /\ staging' \subseteq Requests /\ staged' \in {None} \union Requests /\ expired' \subseteq Requests
      /\ UNCHANGED <<page, expired, delivery, kills>>
  BY DEF Inv, Types, Stage
<1>2. CASE UNCHANGED <<calls, popup>>
  BY <1>1, <1>2, OthersKeep
<1>3. CASE Asks("get", None) /\ popup' = [Closed EXCEPT !.at = "loading", !.call = Len(calls) + 1]
  <2>1. /\ popup' \in [shows : Nat, at : Views, call : Nat] /\ popup'.call = Len(calls) + 1
        /\ popup'.shows = None /\ popup'.at = "loading"
    <3>1. "loading" \in Views /\ Len(calls) + 1 \in Nat
      BY LenProperties DEF Inv, Types, Views
    <3> QED
      BY <1>3, <3>1, Asked, ClosedPopup DEF Popups
  <2>2. "get" \in Kinds /\ None \in {None} \union Requests
    BY DEF Kinds
  <2> QED
    BY <1>1, <1>3, <2>1, <2>2, AskingKeeps
<1> QED
  BY <1>2, <1>3 DEF Stage

LEMMA KillKeeps == ASSUME Inv, Kill PROVE Inv'
<1>1. /\ Types /\ Requests' = Requests /\ staging' = {}
      /\ UNCHANGED <<asked, checks, taken, staged, expired, delivery, popup>>
  BY DEF Inv, Kill, Requests
<1>2. \A i \in Requests : Settles(i, "failed")[i] = IF outcome[i] = "waiting" THEN "failed" ELSE outcome[i]
  BY <1>1 DEF Types, Settles
<1>3. /\ outcome' \in [Requests -> Outcomes]
      /\ \A i \in Requests : outcome[i] # "waiting" => outcome'[i] = outcome[i]
  <2>1. outcome' = [i \in Requests |-> IF i \in staging THEN Settles(i, "failed")[i] ELSE outcome[i]]
    BY DEF Kill
  <2>2. outcome' = [i \in Requests |-> IF i \in staging /\ outcome[i] = "waiting" THEN "failed"
                                      ELSE outcome[i]]
    BY <1>2, <2>1
  <2>3. outcome \in [Requests -> Outcomes] /\ "failed" \in Outcomes
    BY <1>1 DEF Types, Outcomes
  <2> QED
    BY <2>2, <2>3
<1>4. Stays
  BY <1>1, <1>3 DEF Stays
<1>5. /\ calls' \in Seq(Call) /\ Len(calls') = Len(calls)
      /\ \A j \in 1 .. Len(calls) :
           /\ calls'[j].kind = calls[j].kind /\ calls'[j].session = calls[j].session
           /\ calls'[j].held = calls[j].held
           /\ calls'[j].at = "error" \/ calls'[j].at = calls[j].at
  <2> DEFINE set == {j \in 1 .. Len(calls) : calls[j].at # "ok"}
  <2>1. Fail(set)
    BY DEF Kill, Fail
  <2> HIDE DEF set
  <2> QED
    BY <1>1, <2>1, Failing DEF Types
<1>6. CallsInv'
  BY <1>4, <1>5, CallsRelate DEF Inv
<1>7. PopupInv'
  BY <1>1, <1>4, <1>5 DEF Inv, PopupInv, Stays
<1>8. kills' \in 0 .. MaxKills
  BY <1>1, BoundsAssumption DEF Types, Kill
<1>9. /\ Len(calls') >= Len(calls) /\ staging' \subseteq Requests /\ staged' \in {None} \union Requests
      /\ popup' \in [shows : Nat, at : Views, call : Nat]
      /\ \A j \in 1 .. Len(calls) : calls'[j].session = calls[j].session
  BY <1>1, <1>5, LenProperties DEF Types
<1> QED
  BY <1>1, <1>3, <1>4, <1>5, <1>6, <1>7, <1>8, <1>9, TheRest

LEMMA PopupSteps ==
  ASSUME Inv, Open \/ Close \/ Rendered \/ Sign \/ Signed \/ Discard \/ Discarded
  PROVE  Inv'
<1>1. /\ Types /\ PopupInv /\ CallsInv /\ Len(calls) \in Nat /\ Requests \subseteq Nat
      /\ popup \in [shows : Nat, at : Views, call : Nat]
      /\ staging' \subseteq Requests /\ staged' \in {None} \union Requests /\ expired' \subseteq Requests
      /\ UNCHANGED <<page, expired, delivery, kills>>
  BY LenProperties DEF Inv, Types, Open, Close, Rendered, Sign, Signed, Discard, Discarded, worker, Requests
<1>2. CASE Open
  <2>1. /\ popup' \in [shows : Nat, at : Views, call : Nat] /\ popup'.call = Len(calls) + 1
        /\ popup'.shows = None /\ popup'.at = "loading"
    <3>1. "loading" \in Views /\ Len(calls) + 1 \in Nat
      BY <1>1 DEF Views
    <3>2. popup' = [Closed EXCEPT !.at = "loading", !.call = Len(calls) + 1]
      BY <1>2 DEF Open
    <3> QED
      BY <3>1, <3>2, Asked, ClosedPopup DEF Popups
  <2>2. Asks("get", None) /\ "get" \in Kinds
    BY <1>2 DEF Open, Kinds
  <2> QED
    BY <1>1, <2>1, <2>2, AskingKeeps
<1>3. CASE Sign \/ Discard
  <2>1. popup.shows \in Requests /\ popup.shows \in Nat
    BY <1>1, <1>3 DEF PopupInv, Sign, Discard
  <2>2. /\ popup' \in [shows : Nat, at : Views, call : Nat] /\ popup'.call = Len(calls) + 1
        /\ popup'.shows = popup.shows
        /\ popup'.at = IF Sign THEN "signing" ELSE "discarding"
    <3>1. {"signing", "discarding"} \subseteq Views /\ Len(calls) + 1 \in Nat /\ popup \in Popups
      BY <1>1 DEF Views, Popups
    <3>2. CASE Sign
      <4>1. popup' = [popup EXCEPT !.at = "signing", !.call = Len(calls) + 1]
        BY <3>2 DEF Sign
      <4> QED
        BY <3>1, <3>2, <4>1, Asked DEF Popups
    <3>3. CASE ~Sign
      <4>1. popup' = [popup EXCEPT !.at = "discarding", !.call = Len(calls) + 1]
        BY <1>3, <3>3 DEF Discard
      <4> QED
        BY <3>1, <3>3, <4>1, Asked DEF Popups
    <3> QED
      BY <3>2, <3>3
  <2>3. Asks(IF Sign THEN "sign" ELSE "clear", popup.shows)
    BY <1>3 DEF Sign, Discard
  <2>4. (IF Sign THEN "sign" ELSE "clear") \in Kinds
    BY DEF Kinds
  <2> QED
    BY <1>1, <2>1, <2>2, <2>3, <2>4, AskingKeeps
<1>4. CASE Close
  BY <1>1, <1>4, OthersKeep DEF Close, Closed, Views, None
<1>5. CASE Rendered
  <2>1. popup.call \in 1 .. Len(calls)
    BY <1>1, <1>5 DEF PopupInv, Rendered, Answered, None
  <2>2. CallOK(calls[popup.call])
    BY <1>1, <2>1 DEF CallsInv
  <2> DEFINE held == calls[popup.call].held
  <2>3. held \in {None} \union Requests
    BY <2>2 DEF CallOK
  <2>4. popup' = Reviews(held) /\ UNCHANGED calls
    BY <1>5 DEF Rendered
  <2> HIDE DEF held
  <2>5. /\ popup'.shows = held /\ popup'.call = None /\ popup'.at = IF held = None THEN "empty" ELSE "review"
        /\ popup' \in [shows : Nat, at : Views, call : Nat]
    <3>1. {"empty", "review"} \subseteq Views /\ held \in Nat
      BY <1>1, <2>3 DEF Views, None
    <3>2. CASE held = None
      <4>1. popup' = [Closed EXCEPT !.shows = held, !.at = "empty"]
        BY <2>4, <3>2 DEF Reviews
      <4> QED
        BY <3>1, <3>2, <4>1, Shown, ClosedPopup DEF Popups
    <3>3. CASE held # None
      <4>1. popup' = [Closed EXCEPT !.shows = held, !.at = "review"]
        BY <2>4, <3>3 DEF Reviews
      <4> QED
        BY <3>1, <3>3, <4>1, Shown, ClosedPopup DEF Popups
    <3> QED
      BY <3>2, <3>3
  <2> QED
    BY <1>1, <2>3, <2>4, <2>5, OthersKeep DEF None
<1>6. CASE Signed
  <2> DEFINE c == calls[popup.call]
  <2>1. /\ popup.shows \in Requests /\ popup.call \in 1 .. Len(calls)
        /\ c.kind = "sign" /\ c.session = popup.shows
    BY <1>1, <1>6 DEF PopupInv, Signed
  <2>2. CallOK(c)
    BY <1>1, <2>1 DEF CallsInv
  <2>3. c.at = "ok" => outcome[popup.shows] = "signer"
    BY <2>1, <2>2 DEF CallOK
  <2>4. popup' = [popup EXCEPT !.at = IF c.at = "ok" THEN "signed" ELSE "review"] /\ UNCHANGED calls
    BY <1>6 DEF Signed
  <2> HIDE DEF c
  <2>5. /\ popup'.shows = popup.shows /\ popup'.call = popup.call
        /\ popup'.at = IF c.at = "ok" THEN "signed" ELSE "review"
        /\ popup' \in [shows : Nat, at : Views, call : Nat]
    BY <1>1, <2>4 DEF Views
  <2> QED
    BY <1>1, <2>1, <2>3, <2>4, <2>5, OthersKeep
<1>7. CASE Discarded
  <2>1. /\ popup'.shows = None /\ popup'.call = None /\ popup'.at = "empty"
        /\ popup' \in [shows : Nat, at : Views, call : Nat] /\ UNCHANGED calls
    BY <1>7 DEF Discarded, Reviews, Closed, Views, None
  <2> QED
    BY <1>1, <2>1, OthersKeep DEF None
<1> QED
  BY <1>2, <1>3, <1>4, <1>5, <1>6, <1>7

-----------------------------------------------------------------------------
(* The theorems.                                                           *)

LEMMA Initially == Init => Inv
<1> SUFFICES ASSUME Init PROVE Inv
  OBVIOUS
<1>1. Len(asked) = 0 /\ Len(calls) = 0 /\ Requests = {}
  BY DEF Init, Requests
<1>2. Types
  <2>1. asked \in Seq(Tabs) /\ calls \in Seq(Call) /\ Len(asked) <= MaxRequests /\ kills \in 0 .. MaxKills
    BY <1>1, BoundsAssumption DEF Init
  <2>2. outcome \in [Requests -> Outcomes] /\ delivery \in [Requests -> Nat]
    <3>1. outcome \in [1 .. 0 -> Outcomes] /\ delivery \in [1 .. 0 -> Nat]
      BY LenProperties, EmptySeq DEF Init
    <3> QED
      BY <1>1, <3>1 DEF Requests
  <2>3. popup \in [shows : Nat, at : Views, call : Nat]
    BY DEF Init, Closed, Views, None
  <2> QED
    BY <1>1, <2>1, <2>2, <2>3 DEF Types, Init
<1>3. CallsInv /\ DeliveryInv /\ TakenInv /\ PopupInv
  BY <1>1 DEF CallsInv, DeliveryInv, TakenInv, PopupInv, Init, Closed, None
<1> QED
  BY <1>2, <1>3 DEF Inv

LEMMA EveryStep == ASSUME Inv, [Next]_vars PROVE Inv'
<1>1. CASE UNCHANGED vars
  BY <1>1, OthersKeep DEF vars, page, worker, Inv, Types
<1>2. CASE \E tab \in Tabs : Ask(tab) \/ Reload(tab)
  BY <1>2, AskKeeps, ReloadKeeps
<1>3. CASE Open \/ Close \/ Sign \/ Discard \/ Popup
  BY <1>3, PopupSteps DEF Popup
<1>4. CASE Page
  BY <1>4, PageSteps DEF Page
<1>5. CASE Content
  BY <1>5, DeliverKeeps, ContentKeeps DEF Content
<1>6. CASE Worker
  <2>1. CASE \E i \in Requests : Refuse(i)
    <3>1. PICK i \in Requests : Refuse(i)
      BY <2>1
    <3>2. i \in staging
      BY <3>1 DEF Refuse
    <3> QED
      BY <3>1, <3>2, PageSteps
  <2> QED
    BY <1>6, <2>1, StageKeeps, LoadKeeps, DropKeeps DEF Worker
<1>7. CASE Kill
  BY <1>7, KillKeeps
<1>8. CASE \E i \in Requests : Expire(i)
  <2>1. /\ UNCHANGED <<page, delivery, calls, kills, popup, staging, staged>> /\ expired' \subseteq Requests
    BY <1>8 DEF Expire, Inv, Types, worker
  <2>2. staging' \subseteq Requests /\ staged' \in {None} \union Requests
    BY <2>1 DEF Inv, Types
  <2> QED
    BY <2>1, <2>2, OthersKeep
<1> QED
  BY <1>1, <1>2, <1>3, <1>4, <1>5, <1>6, <1>7, <1>8 DEF Next, User

LEMMA Invariance == Spec => []Inv
<1>1. Init => Inv
  BY Initially
<1>2. Inv /\ [Next]_vars => Inv'
  BY EveryStep
<1> QED
  BY <1>1, <1>2, PTL DEF Spec

LEMMA InvGivesTypes == Inv => TypeOK
<1> SUFFICES ASSUME Inv PROVE TypeOK
  OBVIOUS
<1>1. Types /\ Len(calls) \in Nat /\ None \in 0 .. Len(calls)
  BY LenProperties DEF Inv, Types, None
<1>2. \A k \in 1 .. Len(calls) : CallOK(calls[k]) /\ calls[k] \in Call
  BY <1>1, ElementOfSeq DEF Inv, CallsInv, Types
<1>3. \A k \in 1 .. Len(calls) :
        /\ calls[k].kind \in {"get", "sign", "clear"}
        /\ calls[k].session \in {None} \union Requests /\ calls[k].held \in {None} \union Requests
        /\ calls[k].at \in {"read", "drop", "send", "sent", "accepted", "ok", "error"}
  BY <1>2 DEF CallOK, Call, Kinds, Stages
<1>4. delivery \in [Requests -> 0 .. Len(calls)]
  <2>1. \A i \in Requests : delivery[i] \in 0 .. Len(calls)
    BY <1>1 DEF Inv, DeliveryInv, None
  <2> QED
    BY <1>1, <2>1 DEF Types
<1>5. /\ popup.shows \in {None} \union Requests /\ popup.call \in 0 .. Len(calls)
      /\ popup.at \in {"closed", "loading", "review", "signing", "discarding", "signed", "empty"}
  BY <1>1 DEF Inv, PopupInv, Types, Views
<1>6. \A i \in Requests : delivery[i] # None => calls[delivery[i]].session = i
  BY DEF Inv, DeliveryInv
<1> QED
  BY <1>1, <1>3, <1>4, <1>5, <1>6 DEF TypeOK, Types

\* The types; and a delivery is of the session of its own request, although the worker
\* keeps one session only and any page may replace it while a popup shows it.
THEOREM TypeCorrect == Spec => []TypeOK
<1>1. Inv => TypeOK
  BY InvGivesTypes
<1> QED
  BY <1>1, Invariance, PTL

\* The popup says SIGNED only of a package whose page took its authorizations, for
\* any interleaving of pages, timers, kills of the worker and popups.
THEOREM SignedIsTaken == Spec => []SignedMeansTaken
<1>1. Inv => SignedMeansTaken
  BY DEF Inv, PopupInv, SignedMeansTaken
<1> QED
  BY <1>1, Invariance, PTL
=============================================================================
