------------------------------ MODULE VendorDB ------------------------------
(***************************************************************************)
(* db/db.go : the record store in LevelDB (one entry per transaction and a *)
(* total), with a cache of the newest records and of the total in memory.  *)
(* A lock serialises the calls, so a call is one action, except that the   *)
(* two writes of PutSignedTx are two: the process may die between them.    *)
(***************************************************************************)
EXTENDS Integers, Sequences, FiniteSets

CONSTANTS
    Keys,           \* hashes of transactions without their scripts
    CacheSize,      \* CACHE_SIZE, 100 in the code
    DbFails,        \* whether LevelDB may fail
    ClockSetBack    \* whether the system's clock may be set back

ASSUME DbAssumption ==
    /\ IsFiniteSet(Keys)
    /\ CacheSize \in Nat \ {0}
    /\ DbFails \in BOOLEAN
    /\ ClockSetBack \in BOOLEAN

VARIABLES
    up,             \* the process runs and has the database open
    db,             \* LevelDB's entry of each key, with TimeReceived and Done
    totalNum,       \* LevelDB's total entry, 0 when there is none
    pend,           \* PutSignedTx wrote the entry and not yet the total
    cache,          \* txCache.l, front (oldest) to back (newest)
    totalCache,     \* txCache.totalCache
    clock,          \* time.Now() at the last put
    wentBack,       \* history: a put was no later than the one before
    cut             \* history: a process began with another total than the last had

dbVars == <<up, db, totalNum, pend, cache, totalCache, clock, wentBack, cut>>

Entries == [st : {"none", "open", "done"}, time : Nat]

CacheItems == [key : Keys, time : Nat, done : BOOLEAN]

Stored == {k \in Keys : db[k].st # "none"}

(* The positions of the items that hash to k... *)
Cached(k) == {i \in DOMAIN cache : cache[i].key = k}

(* ...of which txCache.Get, looking from the back, finds the last. *)
Latest(i) == \A j \in DOMAIN cache : j > i => cache[j].key # cache[i].key

(* Calls find the lock free. *)
Ready == up /\ ~pend

DbInit ==
    /\ up = FALSE
    /\ db = [k \in Keys |-> [st |-> "none", time |-> 0]]
    /\ totalNum = 0
    /\ pend = FALSE
    /\ cache = <<>>
    /\ totalCache = 0
    /\ clock = 0
    /\ wentBack = FALSE
    /\ cut = FALSE

-----------------------------------------------------------------------------
(* NewVendorDB: an empty cache, and the total GetTotalTxNum reads from     *)
(* LevelDB, which is 0 when it cannot be read.                             *)
NewVendorDB ==
    /\ ~up
    /\ up' = TRUE
    /\ totalCache' \in {totalNum} \cup (IF DbFails THEN {0} ELSE {})
    /\ cut' = (cut \/ totalCache' # totalNum)
    /\ UNCHANGED <<db, totalNum, pend, cache, clock, wentBack>>

(* Mutants: a full cache is not trimmed; it is trimmed at the wrong end. *)
CachePutUnbounded(item) ==
    /\ cache' = Append(cache, item)
    /\ totalCache' = totalCache + 1
CachePutTrimBack(item) ==
    /\ cache' = IF Len(cache) < CacheSize THEN Append(cache, item)
                ELSE Append(SubSeq(cache, 1, CacheSize - 1), item)
    /\ totalCache' = totalCache + 1
(* Mutant: the total counts an item twice. *)
CachePutTwice(item) ==
    /\ cache' = LET l == Append(cache, item)
                IN IF Len(l) > CacheSize THEN Tail(l) ELSE l
    /\ totalCache' = totalCache + 2

(* txCache.Put: push to the back, drop the front of a full cache. *)
CachePut(item) ==
    /\ cache' = LET l == Append(cache, item)
                IN IF Len(l) > CacheSize THEN Tail(l) ELSE l
    /\ totalCache' = totalCache + 1

(* PutSignedTx of a key that is cached or stored, or whose lookup or write *)
(* failed: nothing changes.                                                *)
PutIgnored(k) ==
    /\ Ready
    /\ Cached(k) # {} \/ db[k].st # "none" \/ DbFails
    /\ UNCHANGED dbVars

(* Mutant: only the cache is asked whether the key is known. *)
PutEntryUnchecked(k) ==
    /\ Ready
    /\ Cached(k) = {}
    /\ clock' = clock + 1
    /\ clock < 2 * Cardinality(Keys)
    /\ UNCHANGED wentBack
    /\ db' = [db EXCEPT ![k] = [st |-> "open", time |-> clock']]
    /\ CachePut([key |-> k, time |-> clock', done |-> FALSE])
    /\ pend' = TRUE
    /\ UNCHANGED <<up, totalNum, cut>>

(* time.Now() of a new item; it grows, unless the clock is set back. *)
TimeNow ==
    /\ \/ clock' = clock + 1
       \/ ClockSetBack /\ clock' \in 0 .. clock
    /\ wentBack' = (wentBack \/ clock' <= clock)

(* PutSignedTx of a new key, up to the write of the total. *)
PutEntry(k) ==
    /\ Ready
    /\ Cached(k) = {}
    /\ db[k].st = "none"
    /\ TimeNow
    /\ db' = [db EXCEPT ![k] = [st |-> "open", time |-> clock']]
    /\ CachePut([key |-> k, time |-> clock', done |-> FALSE])
    /\ pend' = TRUE
    /\ UNCHANGED <<up, totalNum, cut>>

(* The rest of PutSignedTx. *)
PutTotal ==
    /\ pend
    /\ pend' = FALSE
    /\ \/ totalNum' = totalCache
       \/ DbFails /\ UNCHANGED totalNum
    /\ UNCHANGED <<up, db, cache, totalCache, clock, wentBack, cut>>

(* Mutant: only the entry is marked, not the cached item. *)
SetTxDoneEntry(k) ==
    /\ Ready
    /\ db' = IF db[k].st = "none" THEN db ELSE [db EXCEPT ![k].st = "done"]
    /\ UNCHANGED <<up, totalNum, pend, cache, totalCache, clock, wentBack, cut>>

(* SetTxDone: the cached item first, then the entry, if there is one and   *)
(* LevelDB does not fail.                                                  *)
SetTxDone(k) ==
    /\ Ready
    /\ cache' = [i \in DOMAIN cache |->
                   IF i \in Cached(k) /\ Latest(i) THEN [cache[i] EXCEPT !.done = TRUE] ELSE cache[i]]
    /\ \/ db' = IF db[k].st = "none" THEN db ELSE [db EXCEPT ![k].st = "done"]
       \/ DbFails /\ UNCHANGED db
    /\ UNCHANGED <<up, totalNum, pend, totalCache, clock, wentBack, cut>>

(* The arrays of the stored keys sorted by TimeReceived, newest first:     *)
(* sort.Sort of the reversed order, which is not stable.                   *)
SortedArrays ==
    {arr \in [1 .. Cardinality(Stored) -> Stored] :
        \A i, j \in DOMAIN arr : i < j =>
            arr[i] # arr[j] /\ db[arr[i]].time >= db[arr[j]].time}

ItemOf(k) == [key |-> k, time |-> db[k].time, done |-> db[k].st = "done"]

(* Mutant: a cache that is not empty is taken for complete. *)
FromCacheAny == Len(cache) > 0

(* ReadFirstBatch answers from a cache that is full or holds everything... *)
FromCache == Len(cache) = CacheSize \/ Len(cache) = totalCache

(* ...and otherwise reads all the entries, and puts to the front of the    *)
(* cache those that follow, in age, as many as the cache holds.            *)
Loaded(arr) ==
    LET n == IF Len(arr) < CacheSize THEN Len(arr) ELSE CacheSize
    IN [i \in 1 .. (n - Len(cache)) |-> ItemOf(arr[n + 1 - i])]

ReadFirstBatch ==
    /\ Ready
    /\ \E arr \in SortedArrays :
          cache' = IF FromCache THEN cache ELSE Loaded(arr) \o cache
    /\ UNCHANGED <<up, db, totalNum, pend, totalCache, clock, wentBack, cut>>

(* While the clock grows no two records have the same time, and there is   *)
(* one sorted array.                                                       *)
Newest == CHOOSE arr \in SortedArrays : TRUE

(* The keys it returns: txCache.GetAll, or the head of the sorted array. *)
FirstBatch ==
    IF FromCache
    THEN [i \in DOMAIN cache |-> cache[Len(cache) + 1 - i].key]
    ELSE SubSeq(Newest, 1, IF Len(Newest) > CacheSize THEN CacheSize ELSE Len(Newest))

(* GetSignedTx: the state of record k as a caller sees it. *)
GetSignedTx(k) ==
    IF Cached(k) # {}
    THEN IF \E i \in Cached(k) : Latest(i) /\ cache[i].done THEN "done" ELSE "open"
    ELSE db[k].st

(* GetTotalTxNum: what it may answer; 0 when LevelDB cannot be read. *)
GetTotalTxNum ==
    IF totalCache > 0 THEN {totalCache}
    ELSE {totalNum} \cup (IF DbFails THEN {0} ELSE {})

(* Close, or the death of the process at any point. *)
Close ==
    /\ up
    /\ up' = FALSE
    /\ pend' = FALSE
    /\ cache' = <<>>
    /\ totalCache' = 0
    /\ cut' = (cut \/ totalNum # totalCache)
    /\ UNCHANGED <<db, totalNum, clock, wentBack>>

DbNext ==
    \/ NewVendorDB
    \/ \E k \in Keys : PutIgnored(k) \/ PutEntry(k) \/ SetTxDone(k)
    \/ PutTotal
    \/ ReadFirstBatch
    \/ Close

DbSpec == DbInit /\ [][DbNext]_dbVars

-----------------------------------------------------------------------------
(* The variables keep their types; the cache keeps its bound. *)
DbTypeOK ==
    /\ up \in BOOLEAN /\ pend \in BOOLEAN
    /\ db \in [Keys -> Entries]
    /\ cache \in Seq(CacheItems)
    /\ Len(cache) <= CacheSize
    /\ totalNum \in Nat /\ totalCache \in Nat /\ clock \in Nat
    /\ wentBack \in BOOLEAN /\ cut \in BOOLEAN

(* The cache is always the newest records, each once, oldest in front,     *)
(* however puts, evictions, loads by ReadFirstBatch and restarts mix, as   *)
(* long as the clock grows: a load counts on it.                           *)
CacheIsNewest ==
    ~wentBack =>
        /\ Len(cache) <= Len(Newest)
        /\ \A i \in DOMAIN cache : cache[i].key = Newest[Len(cache) + 1 - i]

(* The cache is never behind LevelDB: a record that is done there is not   *)
(* found open, whatever the clock does: a clock that was set back makes a  *)
(* load cache a record twice, of which only the latest is marked.  (It may *)
(* run ahead: SetTxDone marks the cached item before LevelDB, where the    *)
(* write may fail.)                                                        *)
CacheCoherent ==
    \A i \in DOMAIN cache :
        LET st == db[cache[i].key].st IN
          /\ st # "none"
          /\ Latest(i) /\ st = "done" => cache[i].done

(* The number of records the store reports is the number put into it       *)
(* (db/db_test.go).                                                        *)
TotalExact == Ready => \A n \in GetTotalTxNum : n = Cardinality(Stored)

(* The total, in LevelDB and in memory, never counts a record that is not  *)
(* there, and it is short only if a process died before it had written the *)
(* total of what it put, or began without being able to read it: a write   *)
(* of the total that fails is made up for by the next put.                 *)
NeverOvercounts ==
    /\ totalNum <= Cardinality(Stored)
    /\ totalCache <= Cardinality(Stored)
    /\ ~cut => TotalExact

(* While the clock grows, ReadFirstBatch returns the newest records, each  *)
(* once, newest first, whichever branch it takes and however short the     *)
(* total is; and as many as there are, up to the cache's size, unless the  *)
(* total was cut, which may make a cache that holds some pass for one that *)
(* holds all.                                                              *)
FirstBatchRight ==
    Ready /\ ~wentBack =>
        LET n == IF Len(Newest) > CacheSize THEN CacheSize ELSE Len(Newest)
        IN \E m \in 0 .. n :
             /\ FirstBatch = SubSeq(Newest, 1, m)
             /\ ~cut => m = n

(* LevelDB's entries implement the store the other components rely on. *)
Store == INSTANCE TxStore WITH records <- [k \in Keys |-> db[k].st]

ImplementsStore == Store!StoreSpec
=============================================================================
