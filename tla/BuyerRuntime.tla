----------------------------- MODULE BuyerRuntime -----------------------------
(***************************************************************************)
(* BuyerRescueRuntime of packages/buyer-runtime with its EIP-1193 adapters: *)
(* authorize asks the source's wallet for the signatures of one package     *)
(* and keeps them behind a handle, execute settles them from the            *)
(* destination's wallet and waits until the receipt is final.  Both wait    *)
(* for a wallet at every step, and whoever holds it changes its account and *)
(* its chain meanwhile; two executions of the handle may run at once; the   *)
(* package expires; and the chain replaces blocks that are not yet final.   *)
(***************************************************************************)
EXTENDS Naturals, Sequences

CONSTANTS Executions, Nobody,   \* calls of execute, and none of them
          Requests,        \* how many signatures the package's route asks for
          Confirmations,   \* the finality policy of the package's chain
          Elsewhere,       \* and that of the other chain the wallet knows
          MaximumPolls,
          MaxBlocks, MaxForks   \* bounds: what the chain does

ASSUME RuntimeAssumption ==
  /\ {Requests, Confirmations, Elsewhere, MaximumPolls} \subseteq Nat \ {0}
  /\ {MaxBlocks, MaxForks} \subseteq Nat /\ Nobody \notin Executions

VARIABLES signer,      \* the account the source's wallet shows
          authorizing, \* where authorize is, and the accounts that signed
          handle,      \* the authorized state behind the handle
          late,        \* the package has expired
          wallet,      \* account and chain the destination's wallet shows
          sent,        \* the chain the transaction of an execution went to
          run,         \* where each execution is, and what its poll has read
          strayed,     \* executions during whose sending and waiting the chain was switched
          home, forks  \* the package's chain, and how often it was replaced

signing == <<signer, authorizing>>
chain   == <<home, forks>>
vars    == <<signing, handle, late, wallet, sent, run, strayed, chain>>

Unread  == [n |-> 0, fork |-> 0, ok |-> FALSE]
Sending == {"send", "policy", "receipt", "latest", "canonical", "refreshed"}
Ended   == {"completed", "reverted", "failed"}
Steps   == {"idle", "account", "chain", "simulate", "again", "still"} \union Sending \union Ended

-----------------------------------------------------------------------------
(* The chain.  A block holds at most one of the transactions; the           *)
(* settlement in it may be impossible (a paused token, a balance that is    *)
(* gone, a deadline that has passed).                                       *)

Block == [tx : Executions \union {Nobody}, fork : 0 .. MaxForks, able : BOOLEAN]

\* The authorization is consumed by the first transaction that can.
Succeeds(p) == home[p].able /\ \A q \in 1 .. p - 1 : home[q].tx = Nobody \/ ~home[q].able
Used        == \E p \in 1 .. Len(home) : home[p].tx # Nobody /\ home[p].able
Included(e) == \E p \in 1 .. Len(home) : home[p].tx = e

Mine ==
  /\ Len(home) < MaxBlocks
  /\ \E tx \in Executions \union {Nobody}, able \in BOOLEAN :
       /\ tx # Nobody => sent[tx] = "home" /\ ~Included(tx)
       /\ able => tx # Nobody /\ ~late
       /\ home' = Append(home, [tx |-> tx, fork |-> forks, able |-> able])
  /\ UNCHANGED <<signing, handle, late, wallet, sent, run, strayed, forks>>

\* Blocks with fewer confirmations than the policy asks for may be replaced, their
\* transactions included again, elsewhere, later or never.  (The policy's threshold is
\* where the project counts a receipt as final; deeper replacements are left out.)
Reorganize ==
  /\ forks < MaxForks /\ forks' = forks + 1
  /\ \E d \in 1 .. Confirmations - 1 :
       /\ d <= Len(home)
       /\ \E new \in [1 .. d -> {b \in Block : b.fork = forks + 1}] :
            LET kept == SubSeq(home, 1, Len(home) - d)
            IN /\ \A i \in 1 .. d : new[i].tx # Nobody =>
                    /\ sent[new[i].tx] = "home"
                    /\ \A p \in 1 .. Len(kept) : kept[p].tx # new[i].tx
                    /\ \A j \in 1 .. d : new[j].tx = new[i].tx => j = i
               /\ \A i \in 1 .. d : new[i].able => new[i].tx # Nobody
               /\ home' = kept \o new
  /\ UNCHANGED <<signing, handle, late, wallet, sent, run, strayed>>

\* eth_getTransactionReceipt, on the chain the wallet shows.  On the other chain the
\* call of an address without code succeeds in a block of long ago.
Receipt(e) ==
  IF wallet.chain = "home" /\ sent[e] = "home" /\ Included(e)
  THEN LET p == CHOOSE p \in 1 .. Len(home) : home[p].tx = e
       IN [n |-> p, fork |-> home[p].fork, ok |-> Succeeds(p)]
  ELSE IF wallet.chain = "away" /\ sent[e] = "away" THEN [n |-> 1, fork |-> MaxForks + 1, ok |-> TRUE]
  ELSE Unread
Height == IF wallet.chain = "home" THEN Len(home) ELSE MaxBlocks + Confirmations + Elsewhere
IsCanonical(receipt) ==
  IF wallet.chain = "home" THEN receipt.n \in 1 .. Len(home) /\ home[receipt.n].fork = receipt.fork
  ELSE receipt.fork = MaxForks + 1

-----------------------------------------------------------------------------
(* Types.                                                                  *)

\* The types; and signatures are kept only if all of them are the source's.
TypeOK ==
  /\ signer \in {"source", "other"} /\ late \in BOOLEAN
  /\ authorizing \in [at : {"idle", "signing", "ended"}, by : Seq({"source", "other"})]
  /\ Len(authorizing.by) <= Requests
  /\ handle \in {"none", "held", "gone"}
  /\ handle # "none" => authorizing.by = [i \in 1 .. Requests |-> "source"]
  /\ wallet \in [account : {"destination", "other"}, chain : {"home", "away"}]
  /\ sent \in [Executions -> {"no", "home", "away"}] /\ strayed \subseteq Executions
  /\ run \in [Executions -> [at : Steps, polls : 0 .. MaximumPolls - 1, need : {Confirmations, Elsewhere},
                            count : Nat, canonical : BOOLEAN,
                            receipt : [n : Nat, fork : 0 .. MaxForks + 1, ok : BOOLEAN]]]
  /\ home \in Seq(Block) /\ forks \in 0 .. MaxForks

\* An execution that has read nothing of the chain, or has no more use for it.
At(at) == [at |-> at, polls |-> 0, need |-> Confirmations,
           count |-> 0, receipt |-> Unread, canonical |-> FALSE]
NotAuthorized == [at |-> "idle", by |-> <<>>]

Init == /\ signer = "source" /\ authorizing = NotAuthorized /\ handle = "none"
        /\ late = FALSE /\ wallet = [account |-> "destination", chain |-> "home"]
        /\ sent = [e \in Executions |-> "no"] /\ strayed = {}
        /\ run = [e \in Executions |-> At("idle")]
        /\ home = <<>> /\ forks = 0

-----------------------------------------------------------------------------
(* authorize.                                                              *)

\* assertFresh and validateConfirmation, then the address the signer shows.  What
\* fails may be tried again.
Authorize ==
  /\ authorizing.at = "idle" /\ ~late /\ signer = "source"
  /\ authorizing' = [authorizing EXCEPT !.at = "signing"]
  /\ UNCHANGED <<signer, handle, late, wallet, sent, run, strayed, chain>>

\* Mutant of Recovers: what the wallet returned is believed.
RecoversAnybody(by) == TRUE
\* recoverRequestSigner.
Recovers(by) == by = "source"

\* signTypedData asks for the address again and signs with that account; with the
\* last signature the package must still be fresh.
SignRequest ==
  /\ authorizing.at = "signing"
  /\ LET by == Append(authorizing.by, signer)
         at == IF Len(by) < Requests THEN "signing" ELSE "ended"
     IN IF Recovers(signer) /\ ~(at = "ended" /\ late)
        THEN /\ authorizing' = [at |-> at, by |-> by]
             /\ handle' = IF at = "ended" THEN "held" ELSE handle
        ELSE authorizing' = NotAuthorized /\ UNCHANGED handle
  /\ UNCHANGED <<signer, late, wallet, sent, run, strayed, chain>>

\* The wallet refuses.
RefuseToSign == /\ authorizing.at = "signing" /\ authorizing' = NotAuthorized
                /\ UNCHANGED <<signer, handle, late, wallet, sent, run, strayed, chain>>

-----------------------------------------------------------------------------
(* execute, up to the transaction.                                         *)

Goes(e, at) == run' = [run EXCEPT ![e] = At(at)]

Start(e) ==
  /\ run[e].at = "idle" /\ Goes(e, IF handle = "held" /\ ~late THEN "account" ELSE "failed")
  /\ UNCHANGED <<signing, handle, late, wallet, sent, strayed, chain>>

Account(e) ==
  /\ run[e].at = "account"
  /\ Goes(e, IF wallet.account = "destination" THEN "chain" ELSE "failed")
  /\ UNCHANGED <<signing, handle, late, wallet, sent, strayed, chain>>

Chain(e) ==
  /\ run[e].at = "chain" /\ Goes(e, IF wallet.chain = "home" THEN "simulate" ELSE "failed")
  /\ UNCHANGED <<signing, handle, late, wallet, sent, strayed, chain>>

\* The simulator has a provider of its own; then assertFresh.
Simulate(e) ==
  /\ run[e].at = "simulate"
  /\ \E succeeded \in BOOLEAN :
       /\ succeeded => ~Used
       /\ Goes(e, IF succeeded /\ ~late THEN "again" ELSE "failed")
  /\ UNCHANGED <<signing, handle, late, wallet, sent, strayed, chain>>

AccountAgain(e) ==
  /\ run[e].at = "again"
  /\ Goes(e, IF wallet.account = "destination" THEN "still" ELSE "failed")
  /\ UNCHANGED <<signing, handle, late, wallet, sent, strayed, chain>>

\* Mutant of StillHome: the chain was looked at before the simulation.
StillHomeAsBefore == TRUE
StillHome == wallet.chain = "home"

\* The handle is given up, and the transaction is handed to the wallet.
ChainAgain(e) ==
  /\ run[e].at = "still" /\ Goes(e, IF StillHome THEN "send" ELSE "failed")
  /\ handle' = IF StillHome THEN "gone" ELSE handle
  /\ UNCHANGED <<signing, late, wallet, sent, strayed, chain>>

\* eth_sendTransaction from the destination; the wallet may refuse.
Send(e) ==
  /\ run[e].at = "send"
  /\ \/ /\ wallet.account = "destination"
        /\ sent' = [sent EXCEPT ![e] = wallet.chain] /\ Goes(e, "policy")
     \/ Goes(e, "failed") /\ UNCHANGED sent
  /\ UNCHANGED <<signing, handle, late, wallet, strayed, chain>>

-----------------------------------------------------------------------------
(* waitForReceipt.                                                         *)

Policy(e) ==
  /\ run[e].at = "policy"
  /\ run' = [run EXCEPT ![e].at = "receipt",
                        ![e].need = IF wallet.chain = "home" THEN Confirmations ELSE Elsewhere]
  /\ UNCHANGED <<signing, handle, late, wallet, sent, strayed, chain>>

\* The next poll, or the local timeout; what was read is forgotten.
Polled(e) == IF run[e].polls + 1 = MaximumPolls THEN At("failed")
             ELSE [At("receipt") EXCEPT !.polls = run[e].polls + 1, !.need = run[e].need]

ReadReceipt(e) ==
  /\ run[e].at = "receipt"
  /\ run' = [run EXCEPT ![e] = IF Receipt(e) = Unread THEN Polled(e)
                               ELSE [run[e] EXCEPT !.at = "latest", !.receipt = Receipt(e)]]
  /\ UNCHANGED <<signing, handle, late, wallet, sent, strayed, chain>>

\* Mutant of Count: the blocks above the receipt's and two more.
CountOneMore(e) == IF Height >= run[e].receipt.n THEN Height - run[e].receipt.n + 2 ELSE 0
Count(e) == IF Height >= run[e].receipt.n THEN Height - run[e].receipt.n + 1 ELSE 0

ReadLatest(e) ==
  /\ run[e].at = "latest"
  /\ run' = [run EXCEPT ![e] = IF Count(e) < run[e].need THEN Polled(e)
                               ELSE [run[e] EXCEPT !.at = "canonical", !.count = Count(e)]]
  /\ UNCHANGED <<signing, handle, late, wallet, sent, strayed, chain>>

ReadCanonical(e) ==
  /\ run[e].at = "canonical"
  /\ run' = [run EXCEPT ![e].at = "refreshed", ![e].canonical = IsCanonical(run[e].receipt)]
  /\ UNCHANGED <<signing, handle, late, wallet, sent, strayed, chain>>

\* The refreshed receipt must be in the same block; then execute looks at the
\* confirmations by the package's policy, and at the status.
ReadAgain(e) ==
  /\ run[e].at = "refreshed"
  /\ LET first == run[e].receipt
         same  == /\ run[e].canonical /\ Receipt(e) # Unread
                  /\ Receipt(e).n = first.n /\ Receipt(e).fork = first.fork
     IN run' = [run EXCEPT ![e] =
                  IF ~same THEN Polled(e)
                  ELSE At(IF run[e].count < Confirmations THEN "failed"
                          ELSE IF first.ok THEN "completed" ELSE "reverted")]
  /\ UNCHANGED <<signing, handle, late, wallet, sent, strayed, chain>>

-----------------------------------------------------------------------------
\* A request to a wallet fails.
Throw(e) == /\ run[e].at \in Steps \ ({"idle"} \union Ended) /\ Goes(e, "failed")
            /\ UNCHANGED <<signing, handle, late, wallet, sent, strayed, chain>>

\* Nobody looks at it any more when authorize has ended.
SwitchSigner == /\ authorizing.at # "ended"
                /\ signer' = IF signer = "source" THEN "other" ELSE "source"
                /\ UNCHANGED <<authorizing, handle, late, wallet, sent, run, strayed, chain>>

SwitchAccount ==
  /\ wallet' = [wallet EXCEPT !.account = IF @ = "other" THEN "destination" ELSE "other"]
  /\ UNCHANGED <<signing, handle, late, sent, run, strayed, chain>>

SwitchChain ==
  /\ wallet' = [wallet EXCEPT !.chain = IF @ = "away" THEN "home" ELSE "away"]
  /\ strayed' = strayed \union {e \in Executions : run[e].at \in Sending}
  /\ UNCHANGED <<signing, handle, late, sent, run, chain>>

Expire == /\ ~late /\ late' = TRUE
          /\ UNCHANGED <<signing, handle, wallet, sent, run, strayed, chain>>

Execute(e) == \/ Start(e) \/ Account(e) \/ Chain(e) \/ Simulate(e) \/ AccountAgain(e) \/ ChainAgain(e)
              \/ Send(e) \/ Policy(e) \/ ReadReceipt(e) \/ ReadLatest(e) \/ ReadCanonical(e)
              \/ ReadAgain(e) \/ Throw(e)
User == SwitchSigner \/ SwitchAccount \/ SwitchChain

Next == \/ Authorize \/ SignRequest \/ RefuseToSign
        \/ \E e \in Executions : Execute(e)
        \/ User \/ Expire \/ Mine \/ Reorganize

Spec == Init /\ [][Next]_vars

-----------------------------------------------------------------------------
(* Correctness.                                                            *)

\* Unless the wallet was switched to another chain while the transaction was being
\* sent and awaited, it went where execute had looked twice: to the package's chain.
SentWhereItWasChecked == \A e \in Executions \ strayed : sent[e] # "away"

Final(p) == Len(home) - p + 1 >= Confirmations

\* And what is reported is the chain's last word, whatever it replaces afterwards: a
\* completed settlement has moved the asset, a reverted one has not, and of two
\* executions of one handle at most one is completed.
ReportIsFinal ==
  \A e \in Executions \ strayed : run[e].at \in {"completed", "reverted"} =>
    \E p \in 1 .. Len(home) : /\ home[p].tx = e /\ Final(p)
                              /\ Succeeds(p) <=> run[e].at = "completed"
===============================================================================
