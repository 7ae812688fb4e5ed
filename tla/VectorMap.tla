----------------------------- MODULE VectorMap -----------------------------
(***************************************************************************)
(* What IVectorIndex promises: a map from chunk ids to vectors, and a      *)
(* search that returns the best entries of the map as it is now.           *)
(***************************************************************************)
EXTENDS Integers, Sequences, FiniteSets

CONSTANTS
    Id,     \* chunk ids, which are numbers
    Vec,    \* embeddings
    Query,  \* the queries
    Score,  \* query -> vector -> score
    MaxK    \* bound on top_k

VARIABLES
    map,    \* id -> vector, for the ids in the index
    hits    \* what the last search returned

mapVars == <<map, hits>>

Init == map = << >> /\ hits = << >>

Upsert(id, v) ==
    /\ map' = [i \in DOMAIN map \cup {id} |-> IF i = id THEN v ELSE map[i]]
    /\ UNCHANGED hits

Erase(id) ==
    /\ map' = [i \in DOMAIN map \ {id} |-> map[i]]
    /\ UNCHANGED hits

Better(h, g) == h.score > g.score \/ (h.score = g.score /\ h.id < g.id)

\* The answer lists hits of the map, best first, as many as there are up to
\* k, and what it leaves out is worse than what it lists.
IsTopK(answer, all, k) ==
    /\ Len(answer) = IF Cardinality(all) < k THEN Cardinality(all) ELSE k
    /\ \A i \in 1..Len(answer) :
          /\ answer[i] \in all
          /\ \A h \in all : Better(h, answer[i]) => \E j \in 1..(i - 1) : answer[j] = h
          /\ \A j \in 1..(i - 1) : Better(answer[j], answer[i])

AllHits(q) == {[id |-> i, score |-> Score[q][map[i]]] : i \in DOMAIN map}

Search(q, k) ==
    /\ IsTopK(hits', AllHits(q), k)
    /\ UNCHANGED map

Next ==
    \/ \E id \in Id, v \in Vec : Upsert(id, v)
    \/ \E id \in Id : Erase(id)
    \/ \E q \in Query, k \in 0..MaxK : Search(q, k)

Spec == Init /\ [][Next]_mapVars
=============================================================================
