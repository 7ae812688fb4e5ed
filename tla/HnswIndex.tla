----------------------------- MODULE HnswIndex -----------------------------
(***************************************************************************)
(* HnswIndex beside the BruteForceIndex that serves as its baseline: both  *)
(* are given the same operations, as in the recall test and the benchmark. *)
(* Then the HNSW index is saved, possibly over the files of an earlier     *)
(* save, the process may be killed on the way, and another process loads.  *)
(*                                                                         *)
(* hnswlib 0.8.0 is a library: its slots and the table that finds the slot *)
(* of a label are modelled as far as addPoint, markDelete, saveIndex and   *)
(* loadIndex use them.  Its search changes nothing and is left out; the    *)
(* baseline's is not.  The temporary files are not state: a load never     *)
(* reads them, and the next save begins with them.                         *)
(***************************************************************************)
EXTENDS BruteForceIndex

CONSTANTS
    MaxElements,    \* max_elements
    Model,          \* embedding_model_hash
    Earlier,        \* what an earlier process may have saved: slots and model
    NoFile, NoIndex

NoSlot == 0

Point(id, v) == [label |-> id, vec |-> v, deleted |-> FALSE]

\* The labels a search can find.
LiveLabels(sl) == {sl[s].label : s \in {t \in 1..Len(sl) : ~sl[t].deleted}}

ASSUME HnswAssumption ==
    /\ MaxElements \in Nat \ {0}
    /\ \A e \in Earlier :
          /\ e.slots \in Seq([label : Id, vec : Vec, deleted : BOOLEAN])
          /\ \A s, t \in 1..Len(e.slots) : e.slots[s].label = e.slots[t].label => s = t

VARIABLES
    slots,      \* the library: its elements, deleted ones included
    lookup,     \* the library: label_lookup_, label -> slot
    activeIds,  \* active_ids
    crossed,    \* history: an id was added while a deleted slot kept its label
    graphFile,  \* index_path: slots, and the model they come from
    metaFile,   \* its .meta.json: active_ids and embedding_model_hash
    saving,     \* the next step of save(), "no" or "ended"
    model,      \* the hash save() was given
    loaded,     \* what the last load() returned
    torn        \* history: a save ended between its two renames

library == <<slots, lookup, activeIds, crossed>>
disk == <<graphFile, metaFile, saving, model, loaded, torn>>
hnswVars == <<vars, library, disk>>

HnswInit ==
    /\ Init
    /\ slots = << >>
    /\ lookup = [id \in Id |-> NoSlot]
    /\ activeIds = {}
    /\ crossed = FALSE
    /\ \/ graphFile = NoFile /\ metaFile = NoFile
       \/ \E e \in Earlier :
             /\ graphFile = e
             /\ metaFile = [ids |-> LiveLabels(e.slots), model |-> e.model]
    /\ saving = "no"
    /\ model \in Model
    /\ loaded = NoIndex
    /\ torn = FALSE

Dead == {s \in 1..Len(slots) : slots[s].deleted}

\* Some deleted slot is given to the label.  The label the slot had is
\* forgotten, even if that label has got another slot in the meantime.
ReplaceDeleted(id, v) ==
    \E d \in Dead :
        /\ slots' = [slots EXCEPT ![d] = Point(id, v)]
        /\ lookup' = [lookup EXCEPT ![slots[d].label] = NoSlot, ![id] = d]
        /\ crossed' = (crossed \/ \E s \in Dead \ {d} : slots[s].label = id)

\* A label that is found at a slot that is not deleted is updated there.
IsLive(id) == lookup[id] # NoSlot /\ ~slots[lookup[id]].deleted

UpdatePoint(id, v) ==
    /\ IsLive(id)
    /\ slots' = [slots EXCEPT ![lookup[id]].vec = v]
    /\ UNCHANGED <<lookup, crossed>>

NewPoint(id, v) ==
    /\ lookup[id] = NoSlot
    /\ Len(slots) < MaxElements
    /\ slots' = Append(slots, Point(id, v))
    /\ lookup' = [lookup EXCEPT ![id] = Len(slots) + 1]
    /\ UNCHANGED crossed

\* Otherwise addPoint throws.
AddPoint(id, v, replaceDeleted) ==
    IF replaceDeleted /\ Dead # {} THEN ReplaceDeleted(id, v)
    ELSE UpdatePoint(id, v) \/ NewPoint(id, v)

\* Mutant: the room of a deleted point is never given away.
NeverReactivated(id) == FALSE

IsNewOrReactivated(id) == id \notin activeIds

UpsertBoth(id, v) ==
    /\ saving = "no"
    /\ AddPoint(id, v, IsNewOrReactivated(id))
    /\ activeIds' = activeIds \cup {id}
    /\ Upsert(id, v)
    /\ UNCHANGED disk

\* Mutant: the id stays in active_ids.
ActiveIdsKept(id) == activeIds

WithoutId(id) == activeIds \ {id}

\* markDelete of an active label, which throws unless the label is found at
\* a slot that is not deleted; an id that is not active is ignored.
EraseBoth(id) ==
    /\ saving = "no"
    /\ IF id \in activeIds
       THEN /\ IsLive(id)
            /\ slots' = [slots EXCEPT ![lookup[id]].deleted = TRUE]
            /\ activeIds' = WithoutId(id)
       ELSE UNCHANGED <<slots, activeIds>>
    /\ Erase(id)
    /\ UNCHANGED <<lookup, crossed, disk>>

\* The baseline is searched for the exact answer.
SearchBaseline(q, k) ==
    /\ saving = "no"
    /\ Search(q, k)
    /\ UNCHANGED <<library, disk>>

-----------------------------------------------------------------------------
(***************************************************************************)
(* save(): both temporary files are written, then each is moved into place *)
(* by removing the old file and renaming the new one.                      *)
(***************************************************************************)
StartSave ==
    /\ saving = "no"
    /\ saving' = "remove graph"
    /\ UNCHANGED <<vars, library, graphFile, metaFile, model, loaded, torn>>

RemoveGraph ==
    /\ saving = "remove graph"
    /\ graphFile' = NoFile
    /\ saving' = "rename graph"
    /\ UNCHANGED <<vars, library, metaFile, model, loaded, torn>>

RenameGraph ==
    /\ saving = "rename graph"
    /\ graphFile' = [slots |-> slots, model |-> model]
    /\ saving' = "remove metadata"
    /\ UNCHANGED <<vars, library, metaFile, model, loaded, torn>>

RemoveMetadata ==
    /\ saving = "remove metadata"
    /\ metaFile' = NoFile
    /\ saving' = "rename metadata"
    /\ UNCHANGED <<vars, library, graphFile, model, loaded, torn>>

RenameMetadata ==
    /\ saving = "rename metadata"
    /\ metaFile' = [ids |-> activeIds, model |-> model]
    /\ saving' = "ended"
    /\ UNCHANGED <<vars, library, graphFile, model, loaded, torn>>

\* The process is killed, or writing, removing or renaming fails.
Interrupt ==
    /\ saving \notin {"no", "ended"}
    /\ saving' = "ended"
    /\ torn' = (saving = "remove metadata" /\ metaFile # NoFile)
    /\ UNCHANGED <<vars, library, graphFile, metaFile, model, loaded>>

\* Mutant: the stored hash is not compared.
AnyMetadata(expected) == metaFile # NoFile

MetadataMatches(expected) == metaFile # NoFile /\ metaFile.model = expected

\* The library's loadIndex: each label is found at its last slot.
LoadIndex(sl) ==
    [id \in Id |-> LET at == {s \in 1..Len(sl) : sl[s].label = id}
                   IN  IF at = {} THEN NoSlot
                       ELSE CHOOSE s \in at : \A t \in at : t <= s]

\* load(): the metadata are compared, then the graph is read.  Otherwise it
\* throws.
Load(expected) ==
    /\ saving \in {"no", "ended"}
    /\ MetadataMatches(expected)
    /\ graphFile # NoFile
    /\ loaded' = [slots |-> graphFile.slots, lookup |-> LoadIndex(graphFile.slots),
                  ids |-> metaFile.ids, model |-> graphFile.model, expected |-> expected]
    /\ UNCHANGED <<vars, library, graphFile, metaFile, saving, model, torn>>

Ended == saving = "ended" /\ UNCHANGED hnswVars

HnswNext ==
    \/ \E id \in Id, v \in Vec : UpsertBoth(id, v)
    \/ \E id \in Id : EraseBoth(id)
    \/ \E q \in Query, k \in 0..MaxK : SearchBaseline(q, k)
    \/ StartSave \/ RemoveGraph \/ RenameGraph \/ RemoveMetadata \/ RenameMetadata
    \/ Interrupt
    \/ \E m \in Model : Load(m)
    \/ Ended

HnswSpec == HnswInit /\ [][HnswNext]_hnswVars

-----------------------------------------------------------------------------
BaselineMap == [id \in Stored |-> records[positions[id] + 1].values]

\* What a search of the slots can return, by label.
LivePoints == {<<slots[s].label, slots[s].vec>> : s \in (1..Len(slots)) \ Dead}

\* addPoint would not throw.
Accepts(id, replaceDeleted) ==
    IF replaceDeleted /\ Dead # {} THEN TRUE
    ELSE IsLive(id) \/ (lookup[id] = NoSlot /\ Len(slots) < MaxElements)

\* As long as no id was added again while a deleted slot other than the one
\* it got still carried its label, the slots that are not deleted, the
\* adapter's active ids and the brute-force index hold the same entries; an
\* active id can be updated and erased; and deleted slots do not use the
\* graph up: a new id is accepted while fewer than max_elements are active.
BackendsAgree ==
    ~crossed =>
        /\ LivePoints = {<<id, BaselineMap[id]>> : id \in Stored}
        /\ activeIds = Stored
        /\ \A id \in activeIds : IsLive(id) /\ slots[lookup[id]].label = id
        /\ \A id \in Id \ activeIds :
              Cardinality(activeIds) < MaxElements => Accepts(id, IsNewOrReactivated(id))

\* Under the same proviso, and unless a save was cut off between its two
\* renames, load returns an index whose active ids are the labels a search of
\* its graph finds, each found through the rebuilt table at a slot that is not
\* deleted, embedded with the model the caller expects.
LoadsOneSave ==
    (loaded # NoIndex /\ ~torn /\ ~crossed) =>
        /\ loaded.ids = LiveLabels(loaded.slots)
        /\ \A id \in loaded.ids :
              /\ loaded.lookup[id] \in 1..Len(loaded.slots)
              /\ loaded.slots[loaded.lookup[id]].label = id
              /\ ~loaded.slots[loaded.lookup[id]].deleted
        /\ loaded.model = loaded.expected
=============================================================================
