------------------------------ MODULE RagIndex ------------------------------
(***************************************************************************)
(* RAGManager: the documents table, the vector index in memory, and idMap, *)
(* which says of each vector of the index which row it came from.          *)
(* addDocument inserts the row, then the vector, then the id, chunk by     *)
(* chunk, under m_mutex; search takes no lock; deleteDocument and clear    *)
(* take it and call rebuildIndex, which takes it again.  This is the build *)
(* without FAISS_GPU_ENABLED.  No code of this commit calls init.          *)
(***************************************************************************)
EXTENDS Integers, Sequences

CONSTANTS
  Threads,
  MaxId,      \* bound: rows ever inserted
  MaxChunks,  \* bound: chunks of a document
  NoOne       \* the lock is free

VARIABLES
  documents,  \* the rows' ids, in order
  nextId,     \* AUTOINCREMENT
  vectors,    \* the index: of each vector the row it was computed from
  idMap,
  trained,    \* an IVF index takes no vector before it has been trained
  lock,       \* m_mutex
  pc, left,   \* each thread: where it is, the chunks it still has to add
  found,      \* the index that a search was given, 0 for none
  initialized

indexVars == <<documents, nextId, vectors, idMap, trained>>
callVars == <<lock, pc, left, found>>
ragVars == <<indexVars, callVars, initialized>>

At(t, here, there) == pc[t] = here /\ pc' = [pc EXCEPT ![t] = there]

Init ==
  /\ documents = <<>> /\ nextId = 1 /\ vectors = <<>> /\ idMap = <<>>
  /\ trained \in BOOLEAN     \* a flat index needs no training
  /\ lock = NoOne /\ pc = [t \in Threads |-> "idle"]
  /\ left = [t \in Threads |-> 0] /\ found = [t \in Threads |-> 0]
  /\ initialized = FALSE

(* loadIndexFromDatabase into a new index, in RAGManager::init: an IVF     *)
(* index is trained on what it loads.                                      *)
LoadIndexFromDatabase ==
  /\ vectors' = documents /\ idMap' = documents
  /\ trained' = (trained \/ documents # <<>>)

InitRag ==
  /\ ~initialized /\ initialized' = TRUE
  /\ LoadIndexFromDatabase
  /\ UNCHANGED <<documents, nextId, callVars>>

(* The process ends, wherever its threads are; the table stays.            *)
Ends ==
  /\ initialized /\ initialized' = FALSE
  /\ vectors' = <<>> /\ idMap' = <<>> /\ trained' \in BOOLEAN
  /\ lock' = NoOne /\ pc' = [t \in Threads |-> "idle"]
  /\ left' = [t \in Threads |-> 0] /\ found' = [t \in Threads |-> 0]
  /\ UNCHANGED <<documents, nextId>>

-----------------------------------------------------------------------------
(* addDocument; splitText makes 0 or more chunks of it.                    *)
AddDocument(t) ==
  /\ initialized /\ lock = NoOne /\ At(t, "idle", "row")
  /\ lock' = t /\ \E n \in 0..MaxChunks : left' = [left EXCEPT ![t] = n]
  /\ UNCHANGED <<indexVars, found, initialized>>

Returns(t, there) == /\ pc' = [pc EXCEPT ![t] = there] /\ lock' = NoOne
                     /\ UNCHANGED <<left, found, initialized>>

AllAdded(t) == /\ pc[t] = "row" /\ left[t] = 0 /\ Returns(t, "idle")
               /\ UNCHANGED indexVars

InsertRow(t) ==
  /\ left[t] > 0 /\ nextId <= MaxId /\ At(t, "row", "vector")
  /\ documents' = Append(documents, nextId) /\ nextId' = nextId + 1
  /\ left' = [left EXCEPT ![t] = @ - 1]
  /\ UNCHANGED <<vectors, idMap, trained, lock, found, initialized>>

InsertFails(t) == /\ pc[t] = "row" /\ left[t] > 0 /\ Returns(t, "idle")
                  /\ UNCHANGED indexVars

NewestRow == documents[Len(documents)]

(* currentIndex->add throws on an index that is not trained; the row       *)
(* stays.                                                                  *)
AddVector(t) ==
  /\ trained /\ At(t, "vector", "id")
  /\ vectors' = Append(vectors, NewestRow)
  /\ UNCHANGED <<documents, nextId, idMap, trained, lock, left, found, initialized>>

AddThrows(t) == /\ pc[t] = "vector" /\ ~trained /\ Returns(t, "idle")
                /\ UNCHANGED indexVars

PushRowId == idMap' = Append(idMap, NewestRow)

(* The rows counted by the index instead: the two differ once rows without *)
(* a vector, or deleted ones, have used up ids.                            *)
PushCount == idMap' = Append(idMap, Len(idMap) + 1)

PushId == PushRowId

MapId(t) ==
  /\ At(t, "id", "row") /\ PushId
  /\ UNCHANGED <<documents, nextId, vectors, trained, lock, left, found, initialized>>

-----------------------------------------------------------------------------
(* deleteDocument and clear: rebuildIndex waits for the lock its own       *)
(* thread holds, and so does every later caller.                           *)
Rebuild(t) == /\ At(t, "idle", "rebuilding") /\ initialized /\ lock = NoOne
              /\ lock' = t
              /\ UNCHANGED <<nextId, vectors, idMap, trained, left, found, initialized>>

DeleteDocument(t) ==
  /\ \E i \in DOMAIN documents :
       documents' = SubSeq(documents, 1, i - 1) \o SubSeq(documents, i + 1, Len(documents))
  /\ Rebuild(t)

Clear(t) == documents' = <<>> /\ Rebuild(t)

(* search, without the lock: the index is asked, then idMap.               *)
SearchIndex(t) ==
  /\ initialized /\ At(t, "idle", "searched")
  /\ \E i \in DOMAIN vectors : found' = [found EXCEPT ![t] = i]
  /\ UNCHANGED <<indexVars, lock, left, initialized>>

ReadIdMap(t) ==
  /\ At(t, "searched", "idle") /\ found' = [found EXCEPT ![t] = 0]
  /\ UNCHANGED <<indexVars, lock, left, initialized>>

Next ==
  \/ InitRag \/ Ends
  \/ \E t \in Threads :
       \/ AddDocument(t) \/ AllAdded(t) \/ InsertRow(t) \/ InsertFails(t)
       \/ AddVector(t) \/ AddThrows(t) \/ MapId(t)
       \/ DeleteDocument(t) \/ Clear(t) \/ SearchIndex(t) \/ ReadIdMap(t)

Spec == Init /\ [][Next]_ragVars

-----------------------------------------------------------------------------
(* A vector is answered with the row it was computed from, also after      *)
(* failed insertions, deletions and restarts: but for the vector being     *)
(* added, idMap is the index (addDocument, RAGManager.cpp:420).            *)
VectorsFindTheirRows ==
  /\ idMap = SubSeq(vectors, 1, Len(idMap)) /\ Len(idMap) <= Len(vectors)
  /\ Len(vectors) > Len(idMap) => \E t \in Threads : pc[t] = "id"

(* A search reads idMap inside its bounds.  It may not: an addition may    *)
(* have put the vector in and not yet the id (search, :466, has no lock).  *)
SearchesAreInBounds ==
  \A t \in Threads : found[t] <= Len(idMap)

(* Nobody waits for a lock that its own thread holds.                      *)
NobodyLocksTwice == \A t \in Threads : pc[t] # "rebuilding"
=============================================================================
