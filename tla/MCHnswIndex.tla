---------------------------- MODULE MCHnswIndex ----------------------------
(***************************************************************************)
(* HnswIndex for TLC: fewer slots than ids, a query that tells the vectors *)
(* apart, so that ids with the same vector tie, and an earlier save, of    *)
(* one of the models, with a deleted slot.                                 *)
(***************************************************************************)
EXTENDS HnswIndex, TLC

CONSTANTS u, v, m1, m2, q

MCScore == q :> (u :> 1 @@ v :> 0)

MCEarlier ==
    {[slots |-> <<[label |-> 5, vec |-> v, deleted |-> TRUE], Point(3, u)>>, model |-> m1]}
=============================================================================
