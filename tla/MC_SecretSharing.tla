-------------------------- MODULE MC_SecretSharing --------------------------
(***************************************************************************)
(* SecretSharing for TLC, with the history of SharingLedger.               *)
(***************************************************************************)
EXTENDS SharingLedger, TLC

CONSTANTS n1, n2, n3, w1, w2, c1, c2

\* Two calls on one node for overlapping sets of secrets.
OverlapNode == (w1 :> n1) @@ (w2 :> n1)
OverlapNeeds == (w1 :> ((1 :> c1) @@ (2 :> c1))) @@ (w2 :> (2 :> c1))

\* One call on each of two nodes for the same secret.
PairNode == (w1 :> n1) @@ (w2 :> n2)
PairNeeds == [w \in {w1, w2} |-> (1 :> c1)]
=============================================================================
