------------------------------ MODULE RescuePlan -----------------------------
(***************************************************************************)
(* What a wallet scan finds, and the ordered plan made of it               *)
(* (DeterministicWalletScanner, DeterministicRescuePlanner).  Pure: a      *)
(* module that runs them gives the findings.  An action is named by the    *)
(* evidence it is about: an asset, an approval, a position an adapter      *)
(* withdraws, or an output of one.                                         *)
(***************************************************************************)
EXTENDS Integers, FiniteSets, Sequences

CONSTANTS Evidence,      \* what the request's manifest asks about
          Candidates,    \* operations of trusted adapters
          Outputs,       \* what those put into the source
          Kind, Contract, Worth, Key, Parent

Actions   == Evidence \union Candidates \union Outputs
Transfers == {"ERC20", "ERC721", "ERC1155"}
Approvals == {"ALLOWANCE", "OPERATOR"}
Unpriced  == -1

ASSUME KindAssumption ==
  /\ Kind \in [Actions -> {"NATIVE", "PERMIT2", "ADAPTER"} \union Transfers \union Approvals]
  /\ \A a \in Actions : Kind[a] = "ADAPTER" <=> a \in Candidates
  /\ \A o \in Outputs : Kind[o] \in Transfers
  /\ \A a, b \in Actions : Kind[a] = "NATIVE" /\ Kind[b] = "NATIVE" => a = b
ASSUME EvidenceAssumption ==
  /\ Evidence \intersect (Candidates \union Outputs) = {} /\ Candidates \intersect Outputs = {}
  /\ Parent \in [Outputs -> Candidates]
  /\ Worth \in [Actions -> {Unpriced} \union Nat]
ASSUME FiniteAssumption == IsFiniteSet(Actions)    \* the manifest is a list, and so are the operations
ASSUME KeyAssumption ==    \* stableActionKey and the id tell any two actions apart
  Key \in [Actions -> Nat] /\ \A a, b \in Actions : Key[a] = Key[b] => a = b

-----------------------------------------------------------------------------
(* Scanning: one read for each question, all at one block.                 *)

\* Mutant of Finding: a read that failed is a balance of zero.
FindingOrZero(e, held, failed) ==
  CASE Kind[e] = "PERMIT2"                        -> "UNSUPPORTED"
    [] Kind[e] # "PERMIT2" /\ e \in held \ failed -> "DETECTED"
    [] OTHER                                      -> "SUPPORTED"

\* What is found of e, which is in `failed` if its read threw.
Finding(e, held, failed) ==
  CASE Kind[e] = "PERMIT2"                        -> "UNSUPPORTED"
    [] Kind[e] # "PERMIT2" /\ e \in failed        -> "UNKNOWN"
    [] Kind[e] # "PERMIT2" /\ e \in held \ failed -> "DETECTED"
    [] OTHER                                      -> "SUPPORTED"

Complete(found) == \A e \in Evidence : found[e] \notin {"UNKNOWN", "UNSUPPORTED"}

-----------------------------------------------------------------------------
(* Planning.                                                               *)

Planned(found, adapters) == {e \in Evidence : found[e] = "DETECTED"} \union adapters
                              \union {o \in Outputs : Parent[o] \in adapters}

\* An approval is revoked after the transfers of its contract, and the native
\* coin leaves last.
DependsOn(a, planned) ==
  IF a \in Outputs THEN {Parent[a]}
  ELSE CASE Kind[a] = "ALLOWANCE" -> {b \in planned : Kind[b] = "ERC20" /\ Contract[b] = Contract[a]}
         [] Kind[a] = "OPERATOR"  -> {b \in planned : /\ Kind[b] \in {"ERC721", "ERC1155"}
                                                      /\ Contract[b] = Contract[a]}
         [] Kind[a] = "NATIVE"    -> planned \ {a}
         [] OTHER                 -> {}

Risk(usd) == IF usd = Unpriced THEN 2
             ELSE 1 + Cardinality({t \in {100, 1000, 10000} : usd >= t})

\* An adapter's own risk is its configuration's: as if by its worth.
RiskOf(a) == IF Kind[a] \in Approvals THEN 3
             ELSE IF a \in Outputs /\ Worth[a] = Unpriced THEN Risk(Worth[Parent[a]])
             ELSE Risk(Worth[a])

TypeRank(a) == CASE Kind[a] = "ADAPTER"    -> 85
                 [] Kind[a] \in Transfers  -> 70
                 [] Kind[a] \in Approvals  -> 30
                 [] Kind[a] = "NATIVE"     -> 0

\* compareActions: risk, value, type, then the key in ascending order.
Precedes(a, b) ==
  LET rank(x) == <<RiskOf(x), IF Worth[x] = Unpriced THEN 0 ELSE Worth[x], TypeRank(x), -Key[x]>>
  IN \E k \in 1 .. 4 : /\ rank(a)[k] > rank(b)[k]
                       /\ \A j \in 1 .. k - 1 : rank(a)[j] = rank(b)[j]

\* Mutant of Ready: the revocations go without waiting for the transfers.
ReadyEarly(todo, planned) == {a \in todo : \/ Kind[a] \in Approvals
                                           \/ DependsOn(a, planned) \intersect todo = {}}
Ready(todo, planned) == {a \in todo : DependsOn(a, planned) \intersect todo = {}}

First(S)  == CHOOSE a \in S : \A b \in S \ {a} : Precedes(a, b)
Placed(s) == {s[i] : i \in 1 .. Len(s)}

\* topologicalPrioritySort: after k rounds, each of which takes the first by priority
\* of the actions that are ready.
Sorted(planned) ==
  LET rounds[k \in 0 .. Cardinality(planned)] ==
        IF k = 0 THEN <<>>
        ELSE LET done == rounds[k - 1]
             IN Append(done, First(Ready(planned \ Placed(done), planned)))
  IN rounds[Cardinality(planned)]
=============================================================================
