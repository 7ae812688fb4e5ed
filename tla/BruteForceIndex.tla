-------------------------- MODULE BruteForceIndex --------------------------
(***************************************************************************)
(* BruteForceIndex: the vectors in a dense array of records and, beside    *)
(* it, the position of each id in that array.  erase() fills the hole with *)
(* the last record and has to keep the positions right.                    *)
(*                                                                         *)
(* An embedding is a value; vectors of another dimension or with a value   *)
(* that is not finite are rejected with an exception and change nothing.   *)
(***************************************************************************)
EXTENDS Integers, Sequences, FiniteSets

CONSTANTS Id, Vec, Query, Score, MaxK

ASSUME VectorAssumption ==
    /\ Id \subseteq Nat
    /\ Score \in [Query -> [Vec -> Int]]
    /\ MaxK \in Nat

VARIABLES
    records,    \* records_: ids and vectors
    positions,  \* positions_: id -> index in records_, from 0
    hits        \* what the last search returned

vars == <<records, positions, hits>>

NotFound == -1

Init ==
    /\ records = << >>
    /\ positions = [id \in Id |-> NotFound]
    /\ hits = << >>

Upsert(id, v) ==
    /\ IF positions[id] # NotFound
       THEN /\ records' = [records EXCEPT ![positions[id] + 1].values = v]
            /\ UNCHANGED positions
       ELSE /\ positions' = [positions EXCEPT ![id] = Len(records)]
            /\ records' = Append(records, [id |-> id, values |-> v])
    /\ UNCHANGED hits

Last == Len(records)

\* The record of id is overwritten with the last one, which is dropped.
Filled(id) ==
    [i \in 1..(Last - 1) |-> IF i = positions[id] + 1 THEN records[Last] ELSE records[i]]

\* The moved record is at a new position; the erased one at none.
Repositioned(id) ==
    [positions EXCEPT ![records[Last].id] = positions[id], ![id] = NotFound]

Erase(id) ==
    /\ IF positions[id] # NotFound
       THEN records' = Filled(id) /\ positions' = Repositioned(id)
       ELSE UNCHANGED <<records, positions>>
    /\ UNCHANGED hits

\* Mutant: equal scores are left in the order of the array.
BetterByScoreOnly(h, g) == h.score > g.score

Better(h, g) == h.score > g.score \/ (h.score = g.score /\ h.id < g.id)

\* std::sort of the hits of all records.
Sorted(all) ==
    {s \in [1..Len(all) -> {all[i] : i \in 1..Len(all)}] :
        /\ \A h \in {all[i] : i \in 1..Len(all)} :
              Cardinality({i \in 1..Len(all) : s[i] = h}) =
              Cardinality({i \in 1..Len(all) : all[i] = h})
        /\ \A i, j \in 1..Len(all) : i < j => ~Better(s[j], s[i])}

Search(q, k) ==
    /\ LET all == [i \in 1..Len(records) |->
                      [id |-> records[i].id, score |-> Score[q][records[i].values]]]
       IN  \E s \in Sorted(all) :
              hits' = IF Len(s) > k THEN SubSeq(s, 1, k) ELSE s
    /\ UNCHANGED <<records, positions>>

Next ==
    \/ \E id \in Id, v \in Vec : Upsert(id, v)
    \/ \E id \in Id : Erase(id)
    \/ \E q \in Query, k \in 0..MaxK : Search(q, k)

Spec == Init /\ [][Next]_vars

-----------------------------------------------------------------------------
TypeOK ==
    /\ records \in Seq([id : Id, values : Vec])
    /\ positions \in [Id -> Int]

Stored == {id \in Id : positions[id] # NotFound}

\* The two tables describe each other: the record at the position of an id
\* is the record of that id, and every record is found through its id.
TablesAgree ==
    /\ \A id \in Stored :
          /\ positions[id] \in 0..(Len(records) - 1)
          /\ records[positions[id] + 1].id = id
    /\ \A i \in 1..Len(records) : positions[records[i].id] = i - 1

IndexTablesInv == TypeOK /\ TablesAgree

Map == INSTANCE VectorMap WITH map <- [id \in Stored |-> records[positions[id] + 1].values]

\* The index behaves as a map from ids to vectors: an upsert replaces, an
\* erase of one id leaves the others alone, and a search answers with the
\* best entries of the map, ties by id.
ImplementsVectorMap == Map!Spec
=============================================================================
