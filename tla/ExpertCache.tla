---------------------------- MODULE ExpertCache ----------------------------
(***************************************************************************)
(* SSDExpertStreamer's cache of mixture-of-experts weights: an LRU list of *)
(* entries bounded by m_maxCacheSize, with the shared experts pinned.      *)
(* getExpertWeights looks up and inserts under m_cacheMutex but reads the  *)
(* file outside it; prefetchExperts holds it throughout.  Eviction is a    *)
(* loop under the lock, one action per turn.  All experts of a model have  *)
(* one size, the unit of the bounds.  The GPU cache is compiled out by     *)
(* default, and an upload before the insertion finds nothing to upload.    *)
(***************************************************************************)
EXTENDS Integers, FiniteSets, Sequences, SequencesExt

CONSTANTS
  Threads, Experts,
  Shared,      \* the shared experts, loaded first and never evicted
  MaxCache,    \* m_maxCacheSize, in experts
  NoOne        \* the lock is free

VARIABLES
  location,   \* the experts that have a file
  useMemoryMap, mapped,   \* the experts that were read from a mapped file
  cache,      \* the keys of m_cache
  pinned,     \* those whose entry is pinned
  lru,        \* m_lruList, most recent first; a key may be in it twice
  size,       \* m_currentCacheSize
  lock,       \* m_cacheMutex
  pc, key,    \* each thread: where it is, and the expert it wants
  initialized

fileVars == <<location, useMemoryMap, mapped>>
cacheVars == <<cache, pinned, lru, size>>
threadVars == <<lock, pc, key>>
expertVars == <<fileVars, cacheVars, threadVars, initialized>>

-----------------------------------------------------------------------------
(* touchLRU moves the key's newest node: m_cacheIterators has that one.    *)
Touched(k) ==
  IF \E i \in DOMAIN lru : lru[i] = k
  THEN <<k>> \o RemoveAt(lru, CHOOSE i \in DOMAIN lru :
                            lru[i] = k /\ \A j \in 1..(i - 1) : lru[j] # k)
  ELSE lru

Locked(k, isPinned) ==
  /\ lru' = <<k>> \o lru
  /\ cache' = cache \cup {k} /\ size' = size + 1
  /\ pinned' = IF isPinned THEN pinned \cup {k} ELSE pinned \ {k}

(* The directory holds one file per expert; an expert may be missing.      *)
ScanExpertDirectory == location \in {L \in SUBSET Experts : L # {}}

(* A GGUF file packs all experts of a layer into one tensor, and one that  *)
(* has no such tensor is accepted too.                                     *)
ParseGGUFExpertOffsets == location \in {{}, Experts}

(* The shared experts that have a file.  Init takes only as many as fit:   *)
(* with more of them evictLRU goes round its pinned entries for ever.      *)
PreloadSharedExperts ==
  /\ pinned = Shared \cap location /\ cache = pinned
  /\ lru \in SetToSeqs(pinned)
  /\ size = Cardinality(pinned)

Init ==
  /\ ScanExpertDirectory \/ ParseGGUFExpertOffsets
  /\ Cardinality(Shared \cap location) <= MaxCache
  /\ PreloadSharedExperts
  /\ useMemoryMap \in BOOLEAN
  /\ mapped = IF useMemoryMap THEN pinned ELSE {}
  /\ lock = NoOne /\ pc = [t \in Threads |-> "idle"]
  /\ key = [t \in Threads |-> CHOOSE e \in Experts : TRUE]
  /\ initialized = TRUE

-----------------------------------------------------------------------------
ReadExpertMapped(k, ok) ==
  /\ useMemoryMap
  /\ ok => k \in location
  /\ mapped' = IF ok THEN mapped \cup {k} ELSE mapped

ReadExpertDirect(k, ok) ==
  /\ ~useMemoryMap
  /\ ok => k \in location
  /\ UNCHANGED mapped

ReadExpert(k, ok) ==
  /\ ReadExpertMapped(k, ok) \/ ReadExpertDirect(k, ok)
  /\ UNCHANGED <<location, useMemoryMap>>

(* getExpertWeights for one expert.  A hit returns pointers into the       *)
(* entry, which nothing keeps from being evicted while they are used.      *)
Lookup(t, k) ==
  /\ initialized /\ pc[t] = "idle" /\ lock = NoOne
  /\ key' = [key EXCEPT ![t] = k]
  /\ IF k \in cache
     THEN lru' = Touched(k) /\ UNCHANGED pc
     ELSE pc' = [pc EXCEPT ![t] = "reading"] /\ UNCHANGED lru
  /\ UNCHANGED <<fileVars, cache, pinned, size, lock, initialized>>

Read(t) ==
  /\ pc[t] = "reading"
  /\ \E ok \in BOOLEAN :
       /\ ReadExpert(key[t], ok)
       /\ pc' = [pc EXCEPT ![t] = IF ok THEN "inserting" ELSE "idle"]
  /\ UNCHANGED <<cacheVars, lock, key, initialized>>

(* insertCache, with the lock; the evictions are the actions below.        *)
Insert(t) ==
  /\ pc[t] = "inserting" /\ lock = NoOne
  /\ lock' = t /\ pc' = [pc EXCEPT ![t] = "evicting"]
  /\ UNCHANGED <<fileVars, cacheVars, key, initialized>>

(* prefetchExperts looks up, reads and inserts in one critical section.    *)
Prefetch(t, k) ==
  /\ initialized /\ pc[t] = "idle" /\ lock = NoOne
  /\ key' = [key EXCEPT ![t] = k]
  /\ \/ k \in cache /\ lru' = Touched(k)
        /\ UNCHANGED <<fileVars, lock, pc>>
     \/ k \notin cache /\ ReadExpert(k, TRUE) /\ UNCHANGED lru
        /\ lock' = t /\ pc' = [pc EXCEPT ![t] = "evicting"]
  /\ UNCHANGED <<cache, pinned, size, initialized>>

-----------------------------------------------------------------------------
NoRoom == size + 1 > MaxCache

(* The victim is the last of the list.  A pinned one goes to the front; a  *)
(* node whose key is no longer cached is only dropped.                     *)
Evicted ==
  LET victim == Last(lru) IN
  IF victim \in pinned
  THEN /\ lru' = <<victim>> \o Front(lru)
       /\ UNCHANGED <<cache, pinned, size>>
  ELSE /\ lru' = Front(lru)
       /\ cache' = cache \ {victim}
       /\ size' = IF victim \in cache THEN size - 1 ELSE size
       /\ UNCHANGED pinned

(* Without the test for pinned entries.                                    *)
EvictedAnyone ==
  LET victim == Last(lru) IN
  /\ lru' = Front(lru)
  /\ cache' = cache \ {victim} /\ pinned' = pinned \ {victim}
  /\ size' = IF victim \in cache THEN size - 1 ELSE size

EvictLRU == Evicted

Evict(t) ==
  /\ pc[t] = "evicting" /\ NoRoom /\ lru # <<>>
  /\ EvictLRU
  /\ UNCHANGED <<fileVars, threadVars, initialized>>

(* Room, or nothing left to evict: the entry is inserted or refused.       *)
Inserted(t) ==
  /\ pc[t] = "evicting" /\ (NoRoom => lru = <<>>)
  /\ IF NoRoom THEN UNCHANGED cacheVars ELSE Locked(key[t], FALSE)
  /\ lock' = NoOne /\ pc' = [pc EXCEPT ![t] = "idle"]
  /\ UNCHANGED <<fileVars, key, initialized>>

(* closeAllFiles, and the caches under the lock.                           *)
Shutdown ==
  /\ initialized /\ lock = NoOne /\ \A t \in Threads : pc[t] = "idle"
  /\ mapped' = {} /\ cache' = {} /\ pinned' = {} /\ lru' = <<>> /\ size' = 0
  /\ initialized' = FALSE
  /\ UNCHANGED <<location, useMemoryMap, lock, pc, key>>

Next ==
  \/ \E t \in Threads, k \in Experts : Lookup(t, k) \/ Prefetch(t, k)
  \/ \E t \in Threads : Read(t) \/ Insert(t) \/ Evict(t) \/ Inserted(t)
  \/ Shutdown

Spec == Init /\ [][Next]_expertVars

-----------------------------------------------------------------------------
(* Whatever the interleaving of misses and evictions, the cache stays in   *)
(* its bound, every entry can still be found for eviction, and a shared    *)
(* expert stays in it (insertCache and evictLRU, :447 and :472).           *)
CacheIsBounded ==
  /\ Cardinality(cache) <= size /\ size <= MaxCache
  /\ cache \subseteq ToSet(lru)
  /\ initialized => Shared \cap location \subseteq cache

(* m_currentCacheSize counts what is cached.  Two threads that miss the    *)
(* same expert both insert it, and one entry is counted for two.           *)
SizeIsExact == size = Cardinality(cache)
=============================================================================
