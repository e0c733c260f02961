--------------------------- MODULE VendorDBProofs ---------------------------
(***************************************************************************)
(* Proofs about VendorDB, for every finite set of keys and every size of   *)
(* the cache, with or without failures of LevelDB, and whatever the system *)
(* clock does.                                                             *)
(***************************************************************************)
EXTENDS VendorDB, FiniteSetTheorems, FunctionTheorems, TLAPS

USE DbAssumption

(* The stored keys can be counted. *)
LEMMA StoredFinite ==
  /\ IsFiniteSet(Stored)
  /\ Cardinality(Stored) \in Nat
<1>1. Stored \subseteq Keys
  BY DEF Stored
<1> QED
  BY <1>1, FS_Subset, FS_CardinalityType

(* A cache starts empty, within its bound. *)
LEMMA EmptyCache == <<>> \in Seq(CacheItems) /\ Len(<<>>) <= CacheSize
<1>1. <<>> \in Seq(CacheItems) /\ Len(<<>>) = 0
  OBVIOUS
<1> QED
  BY <1>1

(* What ReadFirstBatch puts to the front of the cache: items that agree    *)
(* with LevelDB, no more of them than the cache has room for.              *)
LEMMA LoadedItems ==
  ASSUME DbTypeOK, NEW arr \in SortedArrays
  PROVE  /\ Loaded(arr) \in Seq(CacheItems)
         /\ Len(Loaded(arr)) + Len(cache) <= CacheSize
         /\ \A i \in DOMAIN Loaded(arr) : \E k \in Stored : Loaded(arr)[i] = ItemOf(k)
<1> DEFINE n == IF Len(arr) < CacheSize THEN Len(arr) ELSE CacheSize
<1> DEFINE m == n - Len(cache)
<1>1. arr \in [1 .. Cardinality(Stored) -> Stored] /\ Len(arr) = Cardinality(Stored)
  BY StoredFinite DEF SortedArrays
<1>2. n \in Nat /\ n <= CacheSize /\ n <= Len(arr) /\ Len(cache) \in Nat /\ Len(cache) <= CacheSize
  BY <1>1, StoredFinite DEF DbTypeOK
<1>3. m \in Int /\ m <= n /\ m + Len(cache) <= CacheSize
  BY <1>2
<1>4. ASSUME NEW k \in Stored
      PROVE  ItemOf(k) \in CacheItems
  BY <1>4 DEF ItemOf, CacheItems, Stored, DbTypeOK, Entries
<1>5. ASSUME NEW i \in 1 .. m
      PROVE  arr[n + 1 - i] \in Stored
  <2>1. n + 1 - i \in 1 .. Cardinality(Stored)
    BY <1>1, <1>2, <1>3, StoredFinite
  <2> QED
    BY <1>1, <2>1
<1>6. Loaded(arr) = [i \in 1 .. m |-> ItemOf(arr[n + 1 - i])]
  BY DEF Loaded
<1> HIDE DEF n, m
<1>7. CASE m \in Nat
  <2>1. [i \in 1 .. m |-> ItemOf(arr[n + 1 - i])] \in [1 .. m -> CacheItems]
    BY <1>4, <1>5
  <2>2. Loaded(arr) \in Seq(CacheItems) /\ Len(Loaded(arr)) = m
    BY <1>6, <1>7, <2>1
  <2> QED
    BY <1>3, <1>5, <1>6, <2>2
<1>8. CASE m < 0
  <2>1. Loaded(arr) = <<>>
    BY <1>3, <1>6, <1>8
  <2> QED
    BY <1>2, <2>1
<1> QED
  BY <1>3, <1>7, <1>8

(* The cache after a push: the item at the back, the others in their order *)
(* before it, all of them or all but the oldest.                           *)
LEMMA CachePutItems ==
  ASSUME DbTypeOK, NEW item \in CacheItems, CachePut(item)
  PROVE  /\ cache' \in Seq(CacheItems)
         /\ Len(cache') <= CacheSize
         /\ \E d \in {0, 1} :
               /\ Len(cache') = Len(cache) + 1 - d
               /\ \A i \in DOMAIN cache' :
                     cache'[i] = IF i + d = Len(cache) + 1 THEN item ELSE cache[i + d]
<1> DEFINE l == Append(cache, item)
<1>1. /\ cache \in Seq(CacheItems) /\ Len(cache) \in Nat /\ Len(cache) <= CacheSize
      /\ l \in Seq(CacheItems) /\ Len(l) = Len(cache) + 1
  BY DEF DbTypeOK
<1>2. \A i \in DOMAIN l : l[i] = IF i = Len(cache) + 1 THEN item ELSE cache[i]
  BY <1>1
<1>3. cache' = IF Len(l) > CacheSize THEN Tail(l) ELSE l
  BY DEF CachePut
<1> HIDE DEF l
<1>4. CASE Len(l) > CacheSize
  <2>1. /\ Tail(l) \in Seq(CacheItems)
        /\ Len(Tail(l)) = Len(l) - 1
        /\ \A i \in DOMAIN Tail(l) : i + 1 \in DOMAIN l /\ Tail(l)[i] = l[i + 1]
    BY <1>1
  <2>2. \A i \in DOMAIN cache' :
           cache'[i] = IF i + 1 = Len(cache) + 1 THEN item ELSE cache[i + 1]
    BY <1>2, <1>3, <1>4, <2>1
  <2>3. Len(cache') = Len(cache) + 1 - 1
    BY <1>1, <1>3, <1>4, <2>1
  <2> QED
    BY <1>1, <1>3, <1>4, <2>1, <2>2, <2>3
<1>5. CASE ~(Len(l) > CacheSize)
  <2>1. \A i \in DOMAIN cache' :
           cache'[i] = IF i + 0 = Len(cache) + 1 THEN item ELSE cache[i + 0]
    BY <1>1, <1>2, <1>3, <1>5
  <2>2. Len(cache') = Len(cache) + 1 - 0
    BY <1>1, <1>3, <1>5
  <2> QED
    BY <1>1, <1>3, <1>5, <2>1, <2>2
<1> QED
  BY <1>4, <1>5

(* SetTxDone leaves every cached item at its place. *)
LEMMA DoneItems ==
  ASSUME DbTypeOK, NEW k \in Keys, SetTxDone(k)
  PROVE  /\ cache' \in Seq(CacheItems)
         /\ Len(cache') = Len(cache)
         /\ \A i \in DOMAIN cache : cache'[i].key = cache[i].key
<1>1. cache \in Seq(CacheItems) /\ DOMAIN cache = 1 .. Len(cache) /\ Len(cache) \in Nat
  BY DEF DbTypeOK
<1>2. \A i \in DOMAIN cache : cache[i] \in CacheItems
  BY <1>1
<1>3. \A i \in DOMAIN cache :
         [cache[i] EXCEPT !.done = TRUE] \in CacheItems /\ [cache[i] EXCEPT !.done = TRUE].key = cache[i].key
  BY <1>2 DEF CacheItems
<1>4. /\ cache' \in [1 .. Len(cache) -> CacheItems]
      /\ \A i \in DOMAIN cache : cache'[i].key = cache[i].key
  BY <1>1, <1>2, <1>3 DEF SetTxDone
<1>5. cache' \in Seq(CacheItems) /\ Len(cache') = Len(cache)
  BY <1>1, <1>4
<1> QED
  BY <1>4, <1>5

(* Every step keeps the types and the bound of the cache. *)
LEMMA DbTypeStep ==
  ASSUME DbTypeOK, [DbNext]_dbVars
  PROVE  DbTypeOK'
<1>1. CASE NewVendorDB
  BY <1>1 DEF NewVendorDB, DbTypeOK
<1>2. ASSUME NEW k \in Keys, PutEntry(k)
      PROVE  DbTypeOK'
  <2>0. clock' \in Nat /\ wentBack' \in BOOLEAN
    BY <1>2 DEF PutEntry, TimeNow, DbTypeOK
  <2>1. clock' \in Nat /\ db' \in [Keys -> Entries]
    BY <1>2, <2>0 DEF PutEntry, DbTypeOK, Entries
  <2>2. [key |-> k, time |-> clock', done |-> FALSE] \in CacheItems
    BY <2>1 DEF CacheItems
  <2>3. cache' \in Seq(CacheItems) /\ Len(cache') <= CacheSize
    BY <1>2, <2>2, CachePutItems DEF PutEntry
  <2> QED
    BY <1>2, <2>0, <2>1, <2>3 DEF PutEntry, CachePut, DbTypeOK
<1>3. ASSUME NEW k \in Keys, SetTxDone(k)
      PROVE  DbTypeOK'
  <2>1. db' \in [Keys -> Entries]
    BY <1>3 DEF SetTxDone, DbTypeOK, Entries
  <2>2. cache' \in Seq(CacheItems) /\ Len(cache') = Len(cache)
    BY <1>3, DoneItems
  <2> QED
    BY <1>3, <2>1, <2>2 DEF SetTxDone, DbTypeOK
<1>4. CASE PutTotal
  BY <1>4 DEF PutTotal, DbTypeOK
<1>5. CASE ReadFirstBatch
  <2>1. PICK arr \in SortedArrays : cache' = IF FromCache THEN cache ELSE Loaded(arr) \o cache
    BY <1>5 DEF ReadFirstBatch
  <2>2. cache' \in Seq(CacheItems) /\ Len(cache') <= CacheSize
    BY <2>1, LoadedItems DEF DbTypeOK
  <2> QED
    BY <1>5, <2>2 DEF ReadFirstBatch, DbTypeOK
<1>6. CASE Close
  BY <1>6, EmptyCache DEF Close, DbTypeOK
<1>7. CASE UNCHANGED dbVars
  BY <1>7 DEF dbVars, DbTypeOK
<1> QED
  BY <1>1, <1>2, <1>3, <1>4, <1>5, <1>6, <1>7 DEF DbNext, PutIgnored

(* An item that moved d places, with all those behind it, is the latest of *)
(* its key only if it was before.                                          *)
LEMMA LatestMoves ==
  ASSUME DbTypeOK, DbTypeOK', NEW d \in Int, NEW i \in DOMAIN cache',
         i + d \in DOMAIN cache, Latest(i)',
         \A j \in DOMAIN cache : j >= i + d => j - d \in DOMAIN cache' /\ cache'[j - d] = cache[j]
  PROVE  cache'[i] = cache[i + d] /\ Latest(i + d)
<1>1. DOMAIN cache \subseteq Int /\ i \in Int
  BY DEF DbTypeOK
<1>2. cache'[i] = cache[i + d]
  BY <1>1
<1>3. ASSUME NEW j \in DOMAIN cache, j > i + d
      PROVE  cache[j].key # cache[i + d].key
  <2>1. j - d \in DOMAIN cache' /\ cache'[j - d] = cache[j] /\ j - d > i
    BY <1>1, <1>3
  <2> QED
    BY <1>2, <2>1 DEF Latest
<1> QED
  BY <1>2, <1>3 DEF Latest

(* Every step keeps the cache level with LevelDB or ahead of it. *)
LEMMA CoherentStep ==
  ASSUME DbTypeOK, CacheCoherent, [DbNext]_dbVars
  PROVE  CacheCoherent'
<1>0. DbTypeOK' /\ \A j \in DOMAIN cache : cache[j] \in CacheItems /\ cache[j].key \in Keys
  <2>1. DbTypeOK'
    BY DbTypeStep
  <2>2. \A j \in DOMAIN cache : cache[j] \in CacheItems
    BY DEF DbTypeOK
  <2> QED
    BY <2>1, <2>2 DEF CacheItems
<1>1. CASE NewVendorDB
  BY <1>1 DEF NewVendorDB, CacheCoherent, Latest
<1>2. ASSUME NEW k \in Keys, PutEntry(k)
      PROVE  CacheCoherent'
  <2> DEFINE item == [key |-> k, time |-> clock', done |-> FALSE]
  <2>1. item \in CacheItems /\ item.key = k
    BY <1>2, <1>0 DEF PutEntry, DbTypeOK, CacheItems
  <2>2. PICK d \in {0, 1} :
           /\ Len(cache') = Len(cache) + 1 - d
           /\ \A i \in DOMAIN cache' :
                 cache'[i] = IF i + d = Len(cache) + 1 THEN item ELSE cache[i + d]
    BY <1>2, <2>1, CachePutItems DEF PutEntry
  <2>3. db'[k].st = "open" /\ \A k2 \in Keys : k2 # k => db'[k2] = db[k2]
    BY <1>2 DEF PutEntry, DbTypeOK
  <2>4. \A j \in DOMAIN cache : cache[j].key # k
    BY <1>2 DEF PutEntry, Cached
  <2>5. /\ DOMAIN cache = 1 .. Len(cache) /\ Len(cache) \in Nat
        /\ DOMAIN cache' = 1 .. Len(cache') /\ Len(cache') \in Nat
    BY <1>0 DEF DbTypeOK
  <2> HIDE DEF item
  <2> SUFFICES ASSUME NEW i \in DOMAIN cache'
               PROVE  LET st == db'[cache'[i].key].st
                      IN st # "none" /\ (Latest(i)' /\ st = "done" => cache'[i].done)
    BY DEF CacheCoherent
  <2>6. CASE i + d = Len(cache) + 1
    BY <2>1, <2>2, <2>3, <2>6
  <2>7. CASE i + d # Len(cache) + 1
    <3>1. d \in Int /\ i + d \in DOMAIN cache /\ cache'[i] = cache[i + d]
      BY <2>2, <2>5, <2>7
    <3>2. \A j \in DOMAIN cache : j >= i + d => j - d \in DOMAIN cache' /\ cache'[j - d] = cache[j]
      BY <2>2, <2>5, <3>1
    <3>3. Latest(i)' => Latest(i + d)
      BY <1>0, <3>1, <3>2, LatestMoves
    <3>4. db'[cache'[i].key] = db[cache[i + d].key]
      BY <1>0, <2>3, <2>4, <3>1
    <3> QED
      BY <3>1, <3>3, <3>4 DEF CacheCoherent
  <2> QED
    BY <2>6, <2>7
<1>3. ASSUME NEW k \in Keys, SetTxDone(k)
      PROVE  CacheCoherent'
  <2>2. /\ DOMAIN cache' = DOMAIN cache
        /\ \A i \in DOMAIN cache :
              /\ cache'[i].key = cache[i].key
              /\ cache'[i].done = (cache[i].done \/ (cache[i].key = k /\ Latest(i)))
    BY <1>0, <1>3 DEF SetTxDone, Cached, CacheItems
  <2>3. \A k2 \in Keys : db'[k2].st = db[k2].st \/ (k2 = k /\ db[k].st # "none" /\ db'[k2].st = "done")
    BY <1>3 DEF SetTxDone, DbTypeOK, Entries
  <2>4. \A i \in DOMAIN cache : Latest(i)' = Latest(i)
    BY <2>2 DEF Latest
  <2> SUFFICES ASSUME NEW i \in DOMAIN cache
               PROVE  LET st == db'[cache'[i].key].st
                      IN st # "none" /\ (Latest(i)' /\ st = "done" => cache'[i].done)
    BY <2>2 DEF CacheCoherent
  <2>5. cache'[i].key = cache[i].key /\ cache[i].key \in Keys /\ (Latest(i)' <=> Latest(i))
    BY <1>0, <2>2, <2>4
  <2>6. db[cache[i].key].st # "none" /\ (Latest(i) /\ db[cache[i].key].st = "done" => cache[i].done)
    BY DEF CacheCoherent
  <2> QED
    BY <2>2, <2>3, <2>5, <2>6
<1>4. CASE PutTotal
  BY <1>4 DEF PutTotal, CacheCoherent, Latest
<1>5. CASE ReadFirstBatch
  <2>1. PICK arr \in SortedArrays : cache' = IF FromCache THEN cache ELSE Loaded(arr) \o cache
    BY <1>5 DEF ReadFirstBatch
  <2>2. db' = db
    BY <1>5 DEF ReadFirstBatch
  <2>3. CASE FromCache
    BY <2>1, <2>2, <2>3 DEF CacheCoherent, Latest
  <2>4. CASE ~FromCache
    <3> DEFINE L == Loaded(arr)
    <3> DEFINE d == 0 - Len(L)
    <3>1. /\ L \in Seq(CacheItems) /\ cache \in Seq(CacheItems)
          /\ \A i \in DOMAIN L : \E k \in Stored : L[i] = ItemOf(k)
      BY LoadedItems DEF DbTypeOK
    <3>2. cache' = L \o cache
      BY <2>1, <2>4
    <3> HIDE DEF L
    <3>3. /\ Len(L) \in Nat /\ d \in Int
          /\ DOMAIN cache = 1 .. Len(cache) /\ Len(cache) \in Nat
          /\ DOMAIN L = 1 .. Len(L)
          /\ DOMAIN cache' = 1 .. (Len(L) + Len(cache))
          /\ \A i \in DOMAIN L : cache'[i] = L[i]
          /\ \A j \in DOMAIN cache : cache'[Len(L) + j] = cache[j]
      BY <3>1, <3>2
    <3>4. \A k \in Stored : ItemOf(k).key = k /\ db[k].st # "none" /\ (db[k].st = "done" => ItemOf(k).done)
      BY DEF ItemOf, Stored
    <3> SUFFICES ASSUME NEW i \in DOMAIN cache'
                 PROVE  LET st == db[cache'[i].key].st
                        IN st # "none" /\ (Latest(i)' /\ st = "done" => cache'[i].done)
      BY <2>2 DEF CacheCoherent
    <3>5. CASE i \in DOMAIN L
      BY <3>1, <3>3, <3>4, <3>5
    <3>6. CASE i \notin DOMAIN L
      <4>1. i + d \in DOMAIN cache /\ cache'[i] = cache[i + d]
        BY <3>3, <3>6
      <4>2. \A j \in DOMAIN cache : j >= i + d => j - d \in DOMAIN cache' /\ cache'[j - d] = cache[j]
        BY <3>3
      <4> HIDE DEF d
      <4>3. Latest(i)' => Latest(i + d)
        BY <1>0, <3>3, <4>1, <4>2, LatestMoves
      <4> QED
        BY <4>1, <4>3 DEF CacheCoherent
    <3> QED
      BY <3>5, <3>6
  <2> QED
    BY <2>3, <2>4
<1>6. CASE Close
  BY <1>6 DEF Close, CacheCoherent
<1>7. CASE UNCHANGED dbVars
  BY <1>7 DEF dbVars, CacheCoherent, Latest
<1> QED
  BY <1>1, <1>2, <1>3, <1>4, <1>5, <1>6, <1>7 DEF DbNext, PutIgnored

(* The inductive form of NeverOvercounts: as long as it was not cut, the   *)
(* total is right where the next total is made from, which is in memory    *)
(* while the process runs, and in LevelDB between two processes.           *)
TotalInv ==
    /\ totalNum <= Cardinality(Stored)
    /\ totalCache <= Cardinality(Stored)
    /\ ~cut => (IF up THEN totalCache ELSE totalNum) = Cardinality(Stored)
    /\ pend => up

(* GetTotalTxNum answers an uncut total, from memory or, when there is no  *)
(* record and so nothing in LevelDB either, 0.                             *)
LEMMA TotalIsExact == DbTypeOK /\ TotalInv => NeverOvercounts
<1> SUFFICES ASSUME DbTypeOK, TotalInv, ~cut, Ready, NEW n \in GetTotalTxNum
             PROVE  n = Cardinality(Stored)
  BY DEF TotalInv, NeverOvercounts, TotalExact
<1>1. Cardinality(Stored) \in Nat /\ totalNum \in Nat /\ totalCache \in Nat
  BY StoredFinite DEF DbTypeOK
<1>2. totalCache = Cardinality(Stored) /\ totalNum <= Cardinality(Stored)
  BY DEF TotalInv, Ready
<1>3. CASE totalCache > 0
  BY <1>2, <1>3 DEF GetTotalTxNum
<1>4. CASE ~(totalCache > 0)
  <2>1. Cardinality(Stored) = 0 /\ totalNum = 0
    BY <1>1, <1>2, <1>4
  <2> QED
    BY <1>4, <2>1 DEF GetTotalTxNum
<1> QED
  BY <1>3, <1>4

(* Every step keeps both totals at or below the number of the records, and *)
(* an uncut one equal to it.                                               *)
LEMMA CountStep ==
  ASSUME DbTypeOK, TotalInv, [DbNext]_dbVars
  PROVE  TotalInv'
<1>0. Cardinality(Stored) \in Nat /\ totalNum \in Nat /\ totalCache \in Nat
  BY StoredFinite DEF DbTypeOK
<1>1. CASE NewVendorDB
  <2>1. Stored' = Stored
    BY <1>1 DEF NewVendorDB, Stored
  <2>2. totalNum' = totalNum /\ up' /\ ~up /\ totalCache' \in {totalNum, 0}
    BY <1>1 DEF NewVendorDB
  <2>3. ~cut' => ~cut /\ totalCache' = totalNum
    BY <1>1 DEF NewVendorDB
  <2> QED
    BY <1>0, <2>1, <2>2, <2>3 DEF TotalInv
<1>2. ASSUME NEW k \in Keys, PutEntry(k)
      PROVE  TotalInv'
  <2>1. Stored' = Stored \cup {k} /\ k \notin Stored
    BY <1>2 DEF PutEntry, Stored, DbTypeOK, Entries
  <2>2. Cardinality(Stored') = Cardinality(Stored) + 1
    BY <2>1, StoredFinite, FS_AddElement
  <2>3. totalCache' = totalCache + 1 /\ totalNum' = totalNum /\ up /\ up' = up /\ cut' = cut
    BY <1>2 DEF PutEntry, CachePut, Ready
  <2> QED
    BY <1>0, <2>2, <2>3 DEF TotalInv
<1>3. ASSUME NEW k \in Keys, SetTxDone(k)
      PROVE  TotalInv'
  <2>1. Stored' = Stored
    BY <1>3 DEF SetTxDone, Stored, DbTypeOK, Entries
  <2> QED
    BY <1>3, <2>1 DEF SetTxDone, TotalInv
<1>4. CASE PutTotal
  <2>1. Stored' = Stored
    BY <1>4 DEF PutTotal, Stored
  <2>2. up' = up /\ ~pend' /\ cut' = cut /\ totalCache' = totalCache /\ totalNum' \in {totalCache, totalNum}
    BY <1>4 DEF PutTotal
  <2>3. up
    BY <1>4 DEF PutTotal, TotalInv
  <2> QED
    BY <1>0, <2>1, <2>2, <2>3 DEF TotalInv
<1>5. CASE ReadFirstBatch
  <2>1. Stored' = Stored
    BY <1>5 DEF ReadFirstBatch, Stored
  <2> QED
    BY <1>5, <2>1 DEF ReadFirstBatch, TotalInv
<1>6. CASE Close
  <2>1. Stored' = Stored
    BY <1>6 DEF Close, Stored
  <2>2. up /\ ~up' /\ ~pend' /\ totalNum' = totalNum /\ totalCache' = 0
    BY <1>6 DEF Close
  <2>3. ~cut' => ~cut /\ totalNum = totalCache
    BY <1>6 DEF Close
  <2> QED
    BY <1>0, <2>1, <2>2, <2>3 DEF TotalInv
<1>7. CASE UNCHANGED dbVars
  <2>1. Stored' = Stored
    BY <1>7 DEF dbVars, Stored
  <2> QED
    BY <1>7, <2>1 DEF dbVars, TotalInv
<1> QED
  BY <1>1, <1>2, <1>3, <1>4, <1>5, <1>6, <1>7 DEF DbNext, PutIgnored

(* Every step of VendorDB is a step of the store or leaves its records     *)
(* alone.                                                                  *)
LEMMA DbStepIsStoreStep ==
  ASSUME DbTypeOK, [DbNext]_dbVars
  PROVE  [Store!StoreNext]_[k \in Keys |-> db[k].st]
<1> DEFINE rec == [k \in Keys |-> db[k].st]
<1>1. ASSUME NEW k \in Keys, PutEntry(k)
      PROVE  Store!PutSignedTx(k)
  <2>1. db' = [db EXCEPT ![k] = [st |-> "open", time |-> clock']] /\ db[k].st = "none"
    BY <1>1 DEF PutEntry
  <2>2. \A k2 \in Keys : db'[k2].st = IF k2 = k THEN "open" ELSE db[k2].st
    BY <2>1 DEF DbTypeOK
  <2>3. [k2 \in Keys |-> db'[k2].st] = [rec EXCEPT ![k] = "open"]
    BY <2>2
  <2>4. rec[k] = "none"
    BY <2>1
  <2> QED
    BY <2>3, <2>4 DEF Store!PutSignedTx
<1>2. ASSUME NEW k \in Keys, SetTxDone(k)
      PROVE  Store!SetTxDone(k)
  <2>1. CASE db' = IF db[k].st = "none" THEN db ELSE [db EXCEPT ![k].st = "done"]
    <3>1. \A k2 \in Keys : db'[k2].st = IF k2 = k /\ db[k].st # "none" THEN "done" ELSE db[k2].st
      BY <2>1 DEF DbTypeOK, Entries
    <3>2. rec[k] = db[k].st
      OBVIOUS
    <3>3. [k2 \in Keys |-> db'[k2].st] = [rec EXCEPT ![k] = IF db[k].st = "none" THEN "none" ELSE "done"]
      BY <3>1
    <3> QED
      BY <3>2, <3>3 DEF Store!SetTxDone
  <2>2. CASE DbFails /\ UNCHANGED db
    BY <2>2 DEF Store!SetTxDone
  <2> QED
    BY <1>2, <2>1, <2>2 DEF SetTxDone
<1>3. CASE NewVendorDB \/ PutTotal \/ ReadFirstBatch \/ Close \/ UNCHANGED dbVars
  <2>1. db' = db
    BY <1>3 DEF NewVendorDB, PutTotal, ReadFirstBatch, Close, dbVars
  <2> QED
    BY <2>1
<1>4. ASSUME NEW k \in Keys, PutIgnored(k)
      PROVE  UNCHANGED rec
  BY <1>4 DEF PutIgnored, dbVars
<1> QED
  BY <1>1, <1>2, <1>3, <1>4 DEF DbNext, Store!StoreNext

-----------------------------------------------------------------------------
(* db/db.go keeps its types, and its cache never holds more than           *)
(* CACHE_SIZE items, whatever the order of puts, evictions, loads by       *)
(* ReadFirstBatch and restarts.                                            *)
THEOREM DbTypeCorrect == DbSpec => []DbTypeOK
<1>1. DbInit => DbTypeOK
  <2> SUFFICES ASSUME DbInit PROVE DbTypeOK
    OBVIOUS
  <2>1. db \in [Keys -> Entries]
    BY DEF DbInit, Entries
  <2> QED
    BY <2>1, EmptyCache DEF DbInit, DbTypeOK
<1>2. DbTypeOK /\ [DbNext]_dbVars => DbTypeOK'
  BY DbTypeStep
<1> QED
  BY <1>1, <1>2, PTL DEF DbSpec

(* A record that SetTxDone has marked in LevelDB is never shown open from  *)
(* the cache, and the cache holds nothing that LevelDB has lost.           *)
THEOREM DbCacheCoherent == DbSpec => []CacheCoherent
<1>1. DbInit => CacheCoherent
  BY DEF DbInit, CacheCoherent
<1>2. DbTypeOK /\ CacheCoherent /\ [DbNext]_dbVars => CacheCoherent'
  BY CoherentStep
<1> QED
  BY <1>1, <1>2, DbTypeCorrect, PTL DEF DbSpec

(* While the process lives and the total was never cut, it is the number   *)
(* of the records.                                                         *)
LEMMA DbTotal == DbSpec => []TotalInv
<1>1. DbInit => TotalInv
  <2> SUFFICES ASSUME DbInit PROVE TotalInv
    OBVIOUS
  <2>1. Stored = {} /\ Cardinality(Stored) = 0
    BY FS_EmptySet DEF DbInit, Stored
  <2> QED
    BY <2>1 DEF DbInit, TotalInv
<1>2. DbTypeOK /\ TotalInv /\ [DbNext]_dbVars => TotalInv'
  BY CountStep
<1> QED
  BY <1>1, <1>2, DbTypeCorrect, PTL DEF DbSpec

(* Neither total ever counts a record that is not there, and what          *)
(* GetTotalTxNum answers is exact unless a process died between the writes *)
(* of PutSignedTx, or could not read the total when it began.              *)
THEOREM DbNeverOvercounts == DbSpec => []NeverOvercounts
BY TotalIsExact, DbTypeCorrect, DbTotal, PTL

(* LevelDB's entries, behind the cache and the total, are the durable      *)
(* store that the observer and the signer rely on.                         *)
THEOREM DbImplementsStore == DbSpec => ImplementsStore
<1>1. DbInit => Store!StoreInit
  BY DEF DbInit, Store!StoreInit
<1>2. DbTypeOK /\ [DbNext]_dbVars => [Store!StoreNext]_[k \in Keys |-> db[k].st]
  BY DbStepIsStoreStep
<1> QED
  BY <1>1, <1>2, DbTypeCorrect, PTL DEF DbSpec, ImplementsStore, Store!StoreSpec

-----------------------------------------------------------------------------
(* While the clock grows no record is newer than the last put, and the     *)
(* stored keys have one order by age.                                      *)
OneOrder(arr) == SortedArrays = {arr}

OrderInv ==
    ~wentBack => /\ \A k \in Stored : db[k].time <= clock
                 /\ \E arr : OneOrder(arr)

(* The order, when there is one, is the one that ReadFirstBatch finds. *)
LEMMA NewestIsOrder ==
  ASSUME NEW arr, OneOrder(arr)
  PROVE  /\ Newest = arr
         /\ arr \in [1 .. Cardinality(Stored) -> Stored]
         /\ Len(arr) = Cardinality(Stored)
<1>1. Newest = arr
  BY DEF OneOrder, Newest
<1>2. arr \in [1 .. Cardinality(Stored) -> Stored]
  BY DEF OneOrder, SortedArrays
<1> QED
  BY <1>1, <1>2, StoredFinite

(* It changes only with the keys and their times. *)
LEMMA SameOrder ==
  ASSUME Stored' = Stored, \A k \in Stored : db'[k].time = db[k].time
  PROVE  SortedArrays' = SortedArrays /\ Newest' = Newest
<1>1. SortedArrays' = SortedArrays
  BY DEF SortedArrays
<1> QED
  BY <1>1 DEF Newest

(* An array without repetitions that is as long as a finite set is large   *)
(* holds every element of it.                                              *)
LEMMA ArrayHoldsAll ==
  ASSUME NEW S, IsFiniteSet(S), NEW n \in Nat, n = Cardinality(S), NEW a \in [1 .. n -> S],
         \A i, j \in 1 .. n : i < j => a[i] # a[j],
         NEW k \in S
  PROVE  \E i \in 1 .. n : a[i] = k
<1>1. \A i, j \in 1 .. n : a[i] = a[j] => i = j
  <2> SUFFICES ASSUME NEW i \in 1 .. n, NEW j \in 1 .. n, a[i] = a[j], i # j
               PROVE  FALSE
    OBVIOUS
  <2>1. i < j \/ j < i
    OBVIOUS
  <2> QED
    BY <2>1
<1>2. a \in Injection(1 .. n, S)
  BY <1>1, Fun_IsInj
<1>3. Cardinality(1 .. n) = n
  BY FS_Interval
<1>4. a \in Surjection(1 .. n, S)
  BY <1>2, <1>3, FS_Injection
<1> QED
  BY <1>4, Fun_SurjectionProperties

(* A new record that is newer than all others goes to the front of the one *)
(* order there is.                                                         *)
LEMMA PutOrder ==
  ASSUME DbTypeOK, NEW k \in Keys, PutEntry(k), clock' > clock,
         \A j \in Stored : db[j].time <= clock,
         NEW arr, OneOrder(arr)
  PROVE  OneOrder([i \in 1 .. Len(arr) + 1 |-> IF i = 1 THEN k ELSE arr[i - 1]])'
<1> DEFINE n == Cardinality(Stored)
<1> DEFINE new == [i \in 1 .. n + 1 |-> IF i = 1 THEN k ELSE arr[i - 1]]
<1>1. arr \in [1 .. n -> Stored] /\ Len(arr) = n /\ n \in Nat
  BY NewestIsOrder, StoredFinite
<1>2. Stored' = Stored \cup {k} /\ k \notin Stored
  BY DEF PutEntry, Stored, DbTypeOK, Entries
<1>3. Cardinality(Stored') = n + 1
  BY <1>2, StoredFinite, FS_AddElement
<1>4. /\ db'[k].time = clock' /\ clock' \in Int /\ clock \in Int
      /\ \A j \in Stored : db'[j] = db[j] /\ db[j].time \in Int
  <2>1. clock' \in Int /\ clock \in Int
    BY DEF PutEntry, TimeNow, DbTypeOK
  <2>2. db'[k].time = clock' /\ \A j \in Keys : j # k => db'[j] = db[j]
    BY DEF PutEntry, DbTypeOK
  <2>3. \A j \in Stored : j \in Keys /\ j # k /\ db[j].time \in Int
    BY <1>2 DEF Stored, DbTypeOK, Entries
  <2> QED
    BY <2>1, <2>2, <2>3
<1>5. \A i, j \in 1 .. n : i < j => arr[i] # arr[j] /\ db[arr[i]].time >= db[arr[j]].time
  BY <1>1 DEF OneOrder, SortedArrays
<1>6. IsFiniteSet(Stored')
  BY <1>2, StoredFinite, FS_AddElement
<1>7. SortedArrays' =
        {a \in [1 .. n + 1 -> Stored \cup {k}] :
            \A i, j \in DOMAIN a : i < j => a[i] # a[j] /\ db'[a[i]].time >= db'[a[j]].time}
  BY <1>2, <1>3 DEF SortedArrays
<1> HIDE DEF n
<1>8. new \in SortedArrays'
  <2>1. \A i \in 1 .. n + 1 : i # 1 => i - 1 \in 1 .. n
    BY <1>1
  <2>2. new \in [1 .. n + 1 -> Stored \cup {k}]
    BY <1>1, <2>1
  <2>3. ASSUME NEW i \in 1 .. n + 1, NEW j \in 1 .. n + 1, i < j
        PROVE  new[i] # new[j] /\ db'[new[i]].time >= db'[new[j]].time
    <3>1. j - 1 \in 1 .. n /\ new[j] = arr[j - 1] /\ arr[j - 1] \in Stored
      BY <1>1, <2>1, <2>3
    <3>2. CASE i = 1
      BY <1>2, <1>4, <3>1, <3>2
    <3>3. CASE i # 1
      <4>1. i - 1 \in 1 .. n /\ new[i] = arr[i - 1] /\ arr[i - 1] \in Stored /\ i - 1 < j - 1
        BY <1>1, <2>1, <2>3, <3>3
      <4> QED
        BY <1>4, <1>5, <3>1, <4>1
    <3> QED
      BY <3>2, <3>3
  <2> QED
    BY <1>7, <2>2, <2>3
<1>9. ASSUME NEW a \in SortedArrays'
      PROVE  a = new
  <2>1. /\ a \in [1 .. n + 1 -> Stored \cup {k}]
        /\ \A i, j \in 1 .. n + 1 : i < j => a[i] # a[j] /\ db'[a[i]].time >= db'[a[j]].time
    BY <1>7
  <2>2. PICK p \in 1 .. n + 1 : a[p] = k
    <3> DEFINE m == n + 1
    <3> DEFINE S == Stored \cup {k}
    <3>1. m \in Nat
      BY <1>1
    <3>2. IsFiniteSet(S) /\ m = Cardinality(S)
      BY <1>2, <1>3, <1>6
    <3>3. \A i, j \in 1 .. m : i < j => a[i] # a[j]
      BY <2>1
    <3>4. k \in S /\ a \in [1 .. m -> S]
      BY <2>1
    <3> HIDE DEF m, S
    <3>5. \E i \in 1 .. m : a[i] = k
      BY <3>1, <3>2, <3>3, <3>4, ArrayHoldsAll
    <3> QED
      BY <3>5 DEF m
  <2>3. a[1] = k
    <3>1. CASE p = 1
      BY <2>2, <3>1
    <3>2. CASE p # 1
      <4>1. 1 \in 1 .. n + 1 /\ 1 < p
        BY <1>1, <3>2
      <4>2. a[1] \in Stored /\ db'[a[1]].time >= clock'
        BY <1>4, <2>1, <2>2, <4>1
      <4>3. db[a[1]].time <= clock /\ db'[a[1]].time = db[a[1]].time /\ db[a[1]].time \in Int
        BY <1>4, <4>2
      <4> QED
        BY <1>4, <4>2, <4>3
    <3> QED
      BY <3>1, <3>2
  <2> DEFINE t == [i \in 1 .. n |-> a[i + 1]]
  <2>4. \A i \in 1 .. n : i + 1 \in 1 .. n + 1 /\ 1 \in 1 .. n + 1 /\ 1 < i + 1
    BY <1>1
  <2>5. \A i \in 1 .. n : a[i + 1] \in Stored
    BY <2>1, <2>3, <2>4
  <2>6. t \in SortedArrays
    <3>1. t \in [1 .. n -> Stored]
      BY <2>5
    <3>2. ASSUME NEW i \in 1 .. n, NEW j \in 1 .. n, i < j
          PROVE  t[i] # t[j] /\ db[t[i]].time >= db[t[j]].time
      <4>1. i + 1 < j + 1 /\ i + 1 \in 1 .. n + 1 /\ j + 1 \in 1 .. n + 1
        BY <1>1, <2>4, <3>2
      <4>2. a[i + 1] # a[j + 1] /\ db'[a[i + 1]].time >= db'[a[j + 1]].time
        BY <2>1, <4>1
      <4> QED
        BY <1>4, <2>5, <4>2
    <3> QED
      BY <3>1, <3>2 DEF SortedArrays, n
  <2>7. t = arr
    BY <2>6 DEF OneOrder
  <2>8. \A i \in 1 .. n + 1 : a[i] = new[i]
    <3> SUFFICES ASSUME NEW i \in 1 .. n + 1
                 PROVE  a[i] = new[i]
      OBVIOUS
    <3>1. CASE i = 1
      BY <2>3, <3>1
    <3>2. CASE i # 1
      <4>1. i - 1 \in 1 .. n /\ (i - 1) + 1 = i
        BY <1>1, <3>2
      <4>2. t[i - 1] = a[i]
        BY <4>1
      <4> QED
        BY <2>7, <3>2, <4>2
    <3> QED
      BY <3>1, <3>2
  <2> QED
    BY <2>1, <2>8
<1>10. SortedArrays' = {new}
  BY <1>8, <1>9
<1> QED
  BY <1>1, <1>10 DEF OneOrder

(* Steps that keep the keys and their times. *)
LEMMA QuietStep ==
  ASSUME DbTypeOK, [DbNext]_dbVars, \A k \in Keys : ~PutEntry(k)
  PROVE  /\ UNCHANGED <<clock, wentBack>>
         /\ Stored' = Stored /\ \A k \in Stored : db'[k].time = db[k].time
<1>1. ASSUME NEW k \in Keys, SetTxDone(k)
      PROVE  /\ UNCHANGED <<clock, wentBack>>
             /\ Stored' = Stored /\ \A j \in Stored : db'[j].time = db[j].time
  <2>1. \A j \in Keys : db'[j].time = db[j].time /\ (db'[j].st = "none" <=> db[j].st = "none")
    BY <1>1 DEF SetTxDone, DbTypeOK, Entries
  <2>2. Stored' = Stored /\ Stored \subseteq Keys
    BY <2>1 DEF Stored
  <2> QED
    BY <1>1, <2>1, <2>2 DEF SetTxDone
<1>2. CASE UNCHANGED <<db, clock, wentBack>>
  BY <1>2 DEF Stored
<1>3. (\E k \in Keys : SetTxDone(k)) \/ UNCHANGED <<db, clock, wentBack>>
  BY DEF DbNext, NewVendorDB, PutIgnored, PutTotal, ReadFirstBatch, Close, dbVars
<1> QED
  BY <1>1, <1>2, <1>3

(* A put that does not turn the clock back. *)
LEMMA LaterPut ==
  ASSUME DbTypeOK, NEW k \in Keys, PutEntry(k), ~wentBack'
  PROVE  ~wentBack /\ clock' > clock
BY DEF PutEntry, TimeNow, DbTypeOK

(* Every step keeps one order, as long as the clock grows. *)
LEMMA OrderStep ==
  ASSUME DbTypeOK, OrderInv, [DbNext]_dbVars
  PROVE  OrderInv'
<1>1. ASSUME NEW k \in Keys, PutEntry(k), ~wentBack'
      PROVE  (\A j \in Stored' : db'[j].time <= clock') /\ (\E arr : OneOrder(arr)')
  <2>1. clock' > clock /\ clock' \in Int /\ clock \in Int /\ \A j \in Stored : db[j].time <= clock
    BY <1>1, LaterPut DEF OrderInv, PutEntry, TimeNow, DbTypeOK
  <2>2. PICK arr : OneOrder(arr)
    BY <1>1, LaterPut DEF OrderInv
  <2>3. \E a : OneOrder(a)'
    BY <1>1, <2>1, <2>2, PutOrder
  <2>4. ASSUME NEW j \in Stored'
        PROVE  db'[j].time <= clock'
    <3>1. j \in Keys /\ (j = k \/ (j \in Stored /\ db'[j] = db[j]))
      BY <1>1, <2>4 DEF PutEntry, Stored, DbTypeOK
    <3>2. CASE j = k
      BY <1>1, <2>1, <3>2 DEF PutEntry, DbTypeOK
    <3>3. CASE j # k
      <4>1. db[j].time <= clock /\ db'[j].time = db[j].time /\ db[j].time \in Int
        BY <2>1, <3>1, <3>3 DEF DbTypeOK, Entries
      <4> QED
        BY <2>1, <4>1
    <3> QED
      BY <3>2, <3>3
  <2> QED
    BY <2>3, <2>4
<1>2. CASE \A k \in Keys : ~PutEntry(k)
  <2>1. /\ UNCHANGED <<clock, wentBack>>
        /\ Stored' = Stored /\ \A k \in Stored : db'[k].time = db[k].time
        /\ SortedArrays' = SortedArrays
    BY <1>2, QuietStep, SameOrder
  <2> QED
    BY <2>1 DEF OrderInv, OneOrder
<1> QED
  BY <1>1, <1>2 DEF OrderInv

(* Every step keeps the cache the newest part of that order.               *)
LEMMA NewestStep ==
  ASSUME DbTypeOK, OrderInv, CacheIsNewest, [DbNext]_dbVars
  PROVE  CacheIsNewest'
<1> SUFFICES ASSUME ~wentBack'
             PROVE  /\ Len(cache') <= Len(Newest')
                    /\ \A i \in DOMAIN cache' : cache'[i].key = Newest'[Len(cache') + 1 - i]
  BY DEF CacheIsNewest
<1>0. /\ DbTypeOK'
      /\ DOMAIN cache = 1 .. Len(cache) /\ Len(cache) \in Nat /\ Len(cache) <= CacheSize
      /\ DOMAIN cache' = 1 .. Len(cache') /\ Len(cache') \in Nat
  BY DbTypeStep DEF DbTypeOK
<1>1. /\ ~wentBack
      /\ \A k \in Stored : db[k].time <= clock
      /\ Len(cache) <= Len(Newest)
      /\ \A i \in DOMAIN cache : cache[i].key = Newest[Len(cache) + 1 - i]
  <2>1. ~wentBack
    BY LaterPut, QuietStep
  <2> QED
    BY <2>1 DEF OrderInv, CacheIsNewest
<1>2. PICK arr : OneOrder(arr)
  BY <1>1 DEF OrderInv
<1>3. /\ Newest = arr /\ Len(arr) = Cardinality(Stored) /\ Len(arr) \in Nat
      /\ arr \in [1 .. Len(arr) -> Stored]
  BY <1>2, NewestIsOrder, StoredFinite
<1>4. ASSUME NEW k \in Keys, PutEntry(k)
      PROVE  /\ Len(cache') <= Len(Newest')
             /\ \A i \in DOMAIN cache' : cache'[i].key = Newest'[Len(cache') + 1 - i]
  <2> DEFINE item == [key |-> k, time |-> clock', done |-> FALSE]
  <2> DEFINE new == [i \in 1 .. Len(arr) + 1 |-> IF i = 1 THEN k ELSE arr[i - 1]]
  <2>1. SortedArrays' = {new}
    BY <1>1, <1>2, <1>4, LaterPut, PutOrder DEF OneOrder
  <2>2. Newest' = new
    BY <2>1 DEF Newest
  <2>3. Len(new) = Len(arr) + 1
    BY <1>3
  <2>4. item \in CacheItems /\ item.key = k
    BY <1>0, <1>4 DEF PutEntry, DbTypeOK, CacheItems
  <2>5. PICK d \in {0, 1} :
           /\ Len(cache') = Len(cache) + 1 - d
           /\ \A i \in DOMAIN cache' :
                 cache'[i] = IF i + d = Len(cache) + 1 THEN item ELSE cache[i + d]
    BY <1>4, <2>4, CachePutItems DEF PutEntry
  <2> HIDE DEF item
  <2>6. Len(cache') <= Len(Newest')
    BY <1>0, <1>1, <1>3, <2>2, <2>3, <2>5
  <2>7. ASSUME NEW i \in DOMAIN cache'
        PROVE  cache'[i].key = Newest'[Len(cache') + 1 - i]
    <3> DEFINE p == Len(cache') + 1 - i
    <3>1. p \in 1 .. Len(arr) + 1 /\ Newest'[p] = IF p = 1 THEN k ELSE arr[p - 1]
      BY <1>0, <1>1, <1>3, <2>2, <2>5, <2>7
    <3>2. CASE i + d = Len(cache) + 1
      BY <1>0, <2>4, <2>5, <3>1, <3>2
    <3>3. CASE i + d # Len(cache) + 1
      <4>1. i + d \in DOMAIN cache /\ p # 1 /\ p - 1 = Len(cache) + 1 - (i + d)
        BY <1>0, <2>5, <3>3
      <4>2. cache'[i] = cache[i + d]
        BY <2>5, <3>3
      <4>3. cache[i + d].key = arr[p - 1]
        BY <1>1, <1>3, <4>1
      <4> QED
        BY <3>1, <4>1, <4>2, <4>3
    <3> QED
      BY <3>2, <3>3
  <2> QED
    BY <2>6, <2>7
<1>5. CASE \A k \in Keys : ~PutEntry(k)
  <2>1. Newest' = arr
    BY <1>3, <1>5, QuietStep, SameOrder
  <2>2. CASE ReadFirstBatch
    <3>1. arr \in SortedArrays /\ cache' = IF FromCache THEN cache ELSE Loaded(arr) \o cache
      BY <1>2, <2>2 DEF OneOrder, ReadFirstBatch
    <3>2. CASE FromCache
      BY <1>1, <1>3, <2>1, <3>1, <3>2
    <3>3. CASE ~FromCache
      <4> DEFINE n == IF Len(arr) < CacheSize THEN Len(arr) ELSE CacheSize
      <4> DEFINE L == Loaded(arr)
      <4>1. n \in Nat /\ n <= Len(arr) /\ n - Len(cache) \in Nat
        BY <1>0, <1>1, <1>3
      <4>2. L \in Seq(CacheItems) /\ cache \in Seq(CacheItems)
        BY <3>1, LoadedItems DEF DbTypeOK
      <4>3. L = [i \in 1 .. (n - Len(cache)) |-> ItemOf(arr[n + 1 - i])]
        BY DEF Loaded
      <4> HIDE DEF n, L
      <4>4. Len(L) = n - Len(cache) /\ \A i \in 1 .. (n - Len(cache)) : L[i].key = arr[n + 1 - i]
        BY <4>1, <4>2, <4>3 DEF ItemOf
      <4>5. cache' = L \o cache
        BY <3>1, <3>3 DEF L
      <4>6. /\ Len(cache') = Len(L) + Len(cache)
            /\ \A i \in 1 .. Len(L) : cache'[i] = L[i]
            /\ \A j \in 1 .. Len(cache) : cache'[Len(L) + j] = cache[j]
        BY <1>0, <4>2, <4>5
      <4>7. Len(cache') = n
        BY <1>0, <4>1, <4>4, <4>6
      <4>8. ASSUME NEW i \in DOMAIN cache'
            PROVE  cache'[i].key = arr[n + 1 - i]
        <5>1. CASE i <= n - Len(cache)
          <6>1. i \in 1 .. (n - Len(cache)) /\ i \in 1 .. Len(L)
            BY <1>0, <4>1, <4>4, <5>1
          <6> QED
            BY <4>4, <4>6, <6>1
        <5>2. CASE ~(i <= n - Len(cache))
          <6> DEFINE j == i - Len(L)
          <6>1. j \in 1 .. Len(cache) /\ i = Len(L) + j /\ Len(cache) + 1 - j = n + 1 - i
            BY <1>0, <4>1, <4>4, <4>7, <5>2
          <6> HIDE DEF j
          <6>2. cache'[i] = cache[j]
            BY <4>6, <6>1
          <6> QED
            BY <1>0, <1>1, <1>3, <6>1, <6>2
        <5> QED
          BY <5>1, <5>2
      <4> QED
        BY <1>3, <2>1, <4>1, <4>7, <4>8
    <3> QED
      BY <3>2, <3>3
  <2>3. CASE Close
    BY <1>3, <2>1, <2>3, EmptyCache DEF Close
  <2>4. ASSUME NEW k \in Keys, SetTxDone(k)
        PROVE  /\ Len(cache') <= Len(Newest')
               /\ \A i \in DOMAIN cache' : cache'[i].key = Newest'[Len(cache') + 1 - i]
    <3>1. Len(cache') = Len(cache) /\ \A i \in DOMAIN cache : cache'[i].key = cache[i].key
      BY <2>4, DoneItems
    <3> QED
      BY <1>0, <1>1, <1>3, <2>1, <3>1
  <2>5. CASE UNCHANGED cache
    BY <1>1, <1>3, <2>1, <2>5
  <2> QED
    BY <1>5, <2>2, <2>3, <2>4, <2>5 DEF DbNext, NewVendorDB, PutIgnored, PutTotal, dbVars
<1> QED
  BY <1>4, <1>5

(* No record is stored at first: the one order is the empty array. *)
LEMMA OrderInit == DbInit => OrderInv /\ CacheIsNewest
<1> SUFFICES ASSUME DbInit PROVE OrderInv /\ CacheIsNewest
  OBVIOUS
<1>1. Stored = {} /\ Cardinality(Stored) = 0
  BY FS_EmptySet DEF DbInit, Stored
<1> DEFINE empty == [i \in {} |-> i]
<1>2. 1 .. 0 = {}
  OBVIOUS
<1>3. [1 .. 0 -> {}] = {empty}
  BY <1>2
<1>4. SortedArrays = {empty}
  BY <1>1, <1>2, <1>3 DEF SortedArrays
<1>5. OneOrder(empty)
  BY <1>4 DEF OneOrder
<1> HIDE DEF empty
<1>6. OrderInv
  BY <1>1, <1>5 DEF OrderInv
<1>7. Len(Newest) = 0
  BY <1>1, <1>5, NewestIsOrder
<1>8. Len(cache) = 0 /\ DOMAIN cache = {}
  BY DEF DbInit
<1> QED
  BY <1>6, <1>7, <1>8 DEF CacheIsNewest

(* While the clock grows there is one order of the records by age. *)
LEMMA DbOneOrder == DbSpec => []OrderInv
<1>1. DbInit => OrderInv
  BY OrderInit
<1>2. DbTypeOK /\ OrderInv /\ [DbNext]_dbVars => OrderInv'
  BY OrderStep
<1> QED
  BY <1>1, <1>2, DbTypeCorrect, PTL DEF DbSpec

(* The cache is the newest records in the order of their age, through any  *)
(* mixture of puts, evictions, loads by ReadFirstBatch and restarts.       *)
THEOREM DbCacheIsNewest == DbSpec => []CacheIsNewest
<1>1. DbInit => CacheIsNewest
  BY OrderInit
<1>2. DbTypeOK /\ OrderInv /\ CacheIsNewest /\ [DbNext]_dbVars => CacheIsNewest'
  BY NewestStep
<1> QED
  BY <1>1, <1>2, DbTypeCorrect, DbOneOrder, PTL DEF DbSpec

(* ReadFirstBatch answers the newest records, newest first, from the cache *)
(* as from LevelDB, and is not short unless the total is.                  *)
THEOREM DbFirstBatchRight == DbSpec => []FirstBatchRight
<1>1. DbTypeOK /\ TotalInv /\ OrderInv /\ CacheIsNewest => FirstBatchRight
  <2> DEFINE n == IF Len(Newest) > CacheSize THEN CacheSize ELSE Len(Newest)
  <2> SUFFICES ASSUME DbTypeOK, TotalInv, OrderInv, CacheIsNewest, Ready, ~wentBack
               PROVE  \E m \in 0 .. n : FirstBatch = SubSeq(Newest, 1, m) /\ (~cut => m = n)
    BY DEF FirstBatchRight
  <2>1. PICK arr : OneOrder(arr)
    BY DEF OrderInv
  <2>2. /\ Newest = arr /\ Len(arr) = Cardinality(Stored) /\ Len(arr) \in Nat
        /\ arr \in [1 .. Len(arr) -> Stored]
    BY <2>1, NewestIsOrder, StoredFinite
  <2>3. n \in Nat /\ (n = CacheSize \/ n = Len(arr)) /\ n <= CacheSize /\ n <= Len(arr)
    BY <2>2
  <2>4. CASE ~FromCache
    <3>1. FirstBatch = SubSeq(Newest, 1, n)
      BY <2>4 DEF FirstBatch
    <3> QED
      BY <2>3, <3>1
  <2>5. CASE FromCache
    <3> DEFINE m == Len(cache)
    <3>1. /\ DOMAIN cache = 1 .. m /\ m \in Nat /\ m <= CacheSize /\ m <= Len(arr)
          /\ \A i \in 1 .. m : cache[i].key = arr[m + 1 - i]
      BY <2>2 DEF DbTypeOK, CacheIsNewest
    <3>2. FirstBatch = [i \in 1 .. m |-> cache[m + 1 - i].key]
      BY <2>5, <3>1 DEF FirstBatch
    <3>3. ~cut => m = CacheSize \/ m = Len(arr)
      BY <2>2, <2>5 DEF FromCache, TotalInv, Ready
    <3> HIDE DEF m, n
    <3>4. m \in 0 .. n /\ (~cut => m = n)
      <4>1. m <= n
        BY <2>3, <3>1
      <4>2. CacheSize \in Nat /\ Len(arr) \in Nat
        BY <2>2
      <4> QED
        BY <2>3, <3>1, <3>3, <4>1, <4>2
    <3>5. \A i \in 1 .. m : m + 1 - i \in 1 .. m /\ m + 1 - (m + 1 - i) = i
      BY <3>1
    <3>6. \A i \in 1 .. m : cache[m + 1 - i].key = arr[i]
      BY <3>1, <3>5
    <3>7. SubSeq(arr, 1, m) = [i \in 1 .. m |-> arr[i]]
      BY <2>2, <3>1
    <3>8. FirstBatch = SubSeq(Newest, 1, m)
      BY <2>2, <3>2, <3>6, <3>7
    <3> QED
      BY <3>4, <3>8
  <2> QED
    BY <2>4, <2>5
<1> QED
  BY <1>1, DbTypeCorrect, DbTotal, DbOneOrder, DbCacheIsNewest, PTL
=============================================================================
