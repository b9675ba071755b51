--------------------------- MODULE MCRescueIntake ---------------------------
(***************************************************************************)
(* Instances of RescueIntake for TLC: two clients, and requests whose      *)
(* manifests differ, two of them with the same truncated commitment.       *)
(***************************************************************************)
EXTENDS RescueIntake, TLC

CONSTANTS a1, a2, coin, w1, w2

MCScopes == {[wallet |-> w1, manifest |-> {a1}],
             [wallet |-> w1, manifest |-> {a2}],
             [wallet |-> w2, manifest |-> {a1}]}
\* {a1} and {a2} collide.
MCDigest == [m \in SUBSET {a1, a2} |-> m = {}]

Sym == Permutations(Clients)
=============================================================================
