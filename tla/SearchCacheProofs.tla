-------------------------- MODULE SearchCacheProofs -------------------------
(***************************************************************************)
(* The search cache, for any number of searches, keys and changes: the one *)
(* way to be served something older than the last invalidation is the      *)
(* window between a search's database read and the version load of insert. *)
(***************************************************************************)
EXTENDS SearchCache, TLAPS

\* An invalidation needs a notification, a notification a committed change.
Versions == notes + version <= written

\* An entry that would be served now was not read before the last invalidation,
\* unless that came in between its read and its version.
EntryFresh(k) == Hit(k) /\ ~cache[k].stale => cache[k].data >= flushed

SearchFresh(s) ==
  /\ pc[s] # "idle" => key[s] \in Keys
  /\ pc[s] \in {"load", "store"} => data[s] >= floor[s]
  /\ pc[s] = "load" /\ ~stale[s] => data[s] >= flushed
  /\ pc[s] = "store" /\ ~stale[s] /\ tag[s] = version => data[s] >= flushed
  /\ pc[s] = "reply" /\ ~stale[s] => data[s] >= floor[s]

\* The inductive invariant.
CacheInv ==
  /\ TypeOK
  /\ Versions
  /\ \A k \in Keys : EntryFresh(k)
  /\ \A s \in Searches : SearchFresh(s)

-----------------------------------------------------------------------------

\* The versions and histories are numbers, and bounded by what was committed.
LEMMA Numbers ==
  ASSUME CacheInv
  PROVE  /\ written \in Nat /\ notes \in Nat /\ version \in Nat /\ flushed \in Nat
         /\ written <= MaxChanges /\ notes <= written /\ version <= written /\ flushed <= written
         /\ notes + version <= written /\ MaxChanges \in Nat
         /\ \A k \in Keys : /\ cache[k] \in Entry \cup {NoEntry}
                            /\ cache[k].data \in Nat /\ cache[k].version \in Int
                            /\ cache[k].data <= written /\ cache[k].version <= version
         /\ \A s \in Searches : /\ data[s] \in Nat /\ tag[s] \in Nat /\ floor[s] \in Nat
                                /\ data[s] <= written /\ tag[s] <= version
                                /\ floor[s] <= flushed /\ stale[s] \in BOOLEAN
<1>1. MaxChanges \in Nat
  BY SearchCacheAssumption
<1>2. /\ written \in Nat /\ notes \in Nat /\ version \in Nat /\ flushed \in Nat
      /\ written <= MaxChanges /\ notes <= written /\ version <= written /\ flushed <= written
      /\ notes + version <= written
  BY <1>1 DEF CacheInv, TypeOK, Versions
<1>3. \A k \in Keys : /\ cache[k] \in Entry \cup {NoEntry}
                      /\ cache[k].data \in Nat /\ cache[k].version \in Int
                      /\ cache[k].data <= written /\ cache[k].version <= version
  <2> TAKE k \in Keys
  <2>1. /\ cache[k] \in Entry \cup {NoEntry}
        /\ cache[k].data <= written /\ cache[k].version <= version
    BY DEF CacheInv, TypeOK
  <2>2. CASE cache[k] \in Entry
    BY <1>1, <2>1, <2>2 DEF Entry
  <2>3. CASE cache[k] = NoEntry
    BY <2>1, <2>3 DEF NoEntry
  <2> QED
    BY <2>1, <2>2, <2>3
<1>4. \A s \in Searches : /\ data[s] \in Nat /\ tag[s] \in Nat /\ floor[s] \in Nat
                          /\ data[s] <= written /\ tag[s] <= version
                          /\ floor[s] <= flushed /\ stale[s] \in BOOLEAN
  BY <1>2 DEF CacheInv, TypeOK
<1> QED
  BY <1>1, <1>2, <1>3, <1>4

\* An empty cache over an unchanged table.
LEMMA InitCacheInv == ASSUME Init PROVE CacheInv
<1>1. MaxChanges \in Nat
  BY SearchCacheAssumption
<1>2. NoEntry.data = 0 /\ NoEntry.version = -1 /\ \A k \in Keys : cache[k] = NoEntry
  BY DEF Init, NoEntry
<1>3. TypeOK
  BY <1>1, <1>2 DEF Init, TypeOK
<1>4. Versions /\ (\A k \in Keys : EntryFresh(k))
  BY <1>2 DEF Init, Versions, EntryFresh, Hit
<1>5. \A s \in Searches : SearchFresh(s)
  BY DEF Init, SearchFresh
<1> QED
  BY <1>3, <1>4, <1>5 DEF CacheInv

\* A change is committed: nothing the cache holds is newer than the database.
LEMMA WriteStep ==
  ASSUME CacheInv, InsertRow \/ ChangeRow
  PROVE  CacheInv'
<1>1. /\ written < MaxChanges /\ written' = written + 1 /\ notes' \in {notes, notes + 1}
      /\ UNCHANGED <<version, flushed, cache, pc, key, data, tag, floor, stale>>
  BY DEF InsertRow, ChangeRow, searchVars
<1>2. /\ written' \in 0..MaxChanges /\ notes' \in 0..written' /\ Versions'
      /\ version' \in 0..written' /\ flushed' \in 0..written'
      /\ 0..written \subseteq 0..written'
  BY <1>1, Numbers DEF Versions
<1>3. \A k \in Keys : cache'[k].data <= written' /\ cache'[k].version <= version'
  BY <1>1, Numbers
<1>4. data' \in [Searches -> 0..written']
  BY <1>1, <1>2 DEF CacheInv, TypeOK
<1>5. TypeOK'
  BY <1>1, <1>2, <1>3, <1>4 DEF CacheInv, TypeOK
<1>6. (\A k \in Keys : EntryFresh(k)') /\ \A s \in Searches : SearchFresh(s)'
  BY <1>1 DEF CacheInv, EntryFresh, Hit, SearchFresh
<1> QED
  BY <1>2, <1>5, <1>6 DEF CacheInv

\* The listener invalidates: no entry and no version loaded so far is current.
LEMMA InvalidateStep ==
  ASSUME CacheInv, HandleNotification
  PROVE  CacheInv'
<1>1. /\ notes > 0 /\ notes' = notes - 1 /\ version' = version + 1 /\ flushed' = written
      /\ stale' = [s \in Searches |-> stale[s] \/ pc[s] = "load"]
      /\ UNCHANGED <<written, cache, pc, key, data, tag, floor>>
  BY DEF HandleNotification, InvalidateAll
<1>2. /\ notes' \in 0..written' /\ Versions' /\ version' \in 0..written'
      /\ flushed' \in 0..written' /\ 0..version \subseteq 0..version'
      /\ 0..flushed \subseteq 0..flushed'
  BY <1>1, Numbers DEF Versions
<1>3. \A k \in Keys : cache'[k].data <= written' /\ cache'[k].version < version'
                      /\ cache'[k].version <= version'
  BY <1>1, Numbers
<1>4. tag' \in [Searches -> 0..version'] /\ floor' \in [Searches -> 0..flushed']
  BY <1>1, <1>2 DEF CacheInv, TypeOK
<1>5. stale' \in [Searches -> BOOLEAN]
  BY <1>1
<1>6. TypeOK'
  BY <1>1, <1>2, <1>3, <1>4, <1>5 DEF CacheInv, TypeOK
<1>7. \A k \in Keys : EntryFresh(k)'
  BY <1>1, <1>3, Numbers DEF EntryFresh, Hit
<1>8. ASSUME NEW s \in Searches PROVE SearchFresh(s)'
  <2>1. SearchFresh(s) /\ tag[s] < version' /\ tag[s] \in Nat
    BY <1>1, Numbers DEF CacheInv
  <2>2. ~stale'[s] => ~stale[s] /\ pc[s] # "load"
    BY <1>1
  <2>3. tag[s] # version'
    BY <2>1
  <2> QED
    BY <1>1, <2>1, <2>2, <2>3 DEF SearchFresh
<1> QED
  BY <1>2, <1>6, <1>7, <1>8 DEF CacheInv

\* Entries come and go, searches take their steps, the database and the version stay.
LEMMA SearchStep ==
  ASSUME CacheInv, TypeOK', UNCHANGED <<written, notes, version, flushed>>,
         NEW s \in Searches, SearchFresh(s)',
         \A o \in Searches \ {s} : /\ pc'[o] = pc[o] /\ key'[o] = key[o] /\ data'[o] = data[o]
                                   /\ tag'[o] = tag[o] /\ floor'[o] = floor[o]
                                   /\ stale'[o] = stale[o],
         \A k \in Keys : cache'[k] = cache[k] \/ EntryFresh(k)'
  PROVE  CacheInv'
<1>1. \A k \in Keys : EntryFresh(k)'
  BY DEF CacheInv, EntryFresh, Hit
<1>2. \A o \in Searches : SearchFresh(o)'
  BY DEF CacheInv, SearchFresh
<1> QED
  BY <1>1, <1>2 DEF CacheInv, Versions

\* GetHit, GetMiss, Query and LoadVersion: a search learns something or moves on.
LEMMA ReadsStep ==
  ASSUME CacheInv, NEW s \in Searches,
         GetHit(s) \/ GetMiss(s) \/ Query(s) \/ LoadVersion(s)
  PROVE  CacheInv'
<1>1. /\ SearchFresh(s) /\ pc \in [Searches -> {"idle", "get", "query", "load", "store", "reply"}]
      /\ data \in [Searches -> 0..written] /\ tag \in [Searches -> 0..version]
      /\ stale \in [Searches -> BOOLEAN]
  BY DEF CacheInv, TypeOK
<1>2. /\ UNCHANGED <<written, notes, version, flushed, cache, key, floor>>
  BY DEF GetHit, GetMiss, Query, LoadVersion
<1>3. CASE GetHit(s)
  <2>1. /\ pc[s] = "get" /\ Hit(key[s]) /\ key[s] \in Keys
        /\ data' = [data EXCEPT ![s] = cache[key[s]].data]
        /\ stale' = [stale EXCEPT ![s] = cache[key[s]].stale]
        /\ pc' = [pc EXCEPT ![s] = "reply"] /\ UNCHANGED tag
    BY <1>1, <1>3 DEF GetHit, SearchFresh
  <2>2. /\ cache[key[s]].data \in 0..written /\ cache[key[s]].stale \in BOOLEAN
        /\ ~cache[key[s]].stale => cache[key[s]].data >= flushed
    <3>1. cache[key[s]] \in Entry /\ EntryFresh(key[s])
      BY <2>1, Numbers DEF Hit, CacheInv
    <3>2. cache[key[s]].stale \in BOOLEAN
      BY <3>1 DEF Entry
    <3> QED
      BY <2>1, <3>1, <3>2, Numbers DEF EntryFresh
  <2>3. TypeOK'
    BY <1>1, <1>2, <2>1, <2>2 DEF CacheInv, TypeOK
  <2>4. ~cache[key[s]].stale => cache[key[s]].data >= floor[s]
    BY <2>1, <2>2, Numbers
  <2>5. SearchFresh(s)'
    BY <1>1, <1>2, <2>1, <2>4 DEF SearchFresh
  <2> QED
    BY <1>1, <1>2, <2>1, <2>3, <2>5, SearchStep
<1>4. CASE GetMiss(s)
  <2>1. /\ pc[s] = "get" /\ pc' = [pc EXCEPT ![s] = "query"] /\ UNCHANGED <<data, tag, stale>>
    BY <1>4 DEF GetMiss
  <2>2. TypeOK'
    BY <1>1, <1>2, <2>1 DEF CacheInv, TypeOK
  <2>3. SearchFresh(s)'
    BY <1>1, <1>2, <2>1 DEF SearchFresh
  <2> QED
    BY <1>1, <1>2, <2>1, <2>2, <2>3, SearchStep
<1>5. CASE Query(s)
  <2>1. /\ pc[s] = "query" /\ data' = [data EXCEPT ![s] = written]
        /\ pc' = [pc EXCEPT ![s] = "load"] /\ UNCHANGED <<tag, stale>>
    BY <1>5 DEF Query
  <2>2. written \in 0..written /\ written >= flushed /\ written >= floor[s]
    BY Numbers
  <2>3. TypeOK'
    BY <1>1, <1>2, <2>1, <2>2 DEF CacheInv, TypeOK
  <2>4. SearchFresh(s)'
    BY <1>1, <1>2, <2>1, <2>2 DEF SearchFresh
  <2> QED
    BY <1>1, <1>2, <2>1, <2>3, <2>4, SearchStep
<1>6. CASE LoadVersion(s)
  <2>1. /\ pc[s] = "load" /\ tag' = [tag EXCEPT ![s] = version]
        /\ pc' = [pc EXCEPT ![s] = "store"] /\ UNCHANGED <<data, stale>>
    BY <1>6 DEF LoadVersion
  <2>2. version \in 0..version
    BY Numbers
  <2>3. TypeOK'
    BY <1>1, <1>2, <2>1, <2>2 DEF CacheInv, TypeOK
  <2>4. SearchFresh(s)'
    BY <1>1, <1>2, <2>1 DEF SearchFresh
  <2> QED
    BY <1>1, <1>2, <2>1, <2>3, <2>4, SearchStep
<1> QED
  BY <1>3, <1>4, <1>5, <1>6

\* insert stores what was read, with the version that it loaded.
LEMMA StoreStep ==
  ASSUME CacheInv, NEW s \in Searches, Store(s)
  PROVE  CacheInv'
<1> DEFINE e == [data |-> data[s], version |-> tag[s], stale |-> stale[s]]
<1>1. /\ SearchFresh(s) /\ pc \in [Searches -> {"idle", "get", "query", "load", "store", "reply"}]
      /\ cache \in [Keys -> Entry \cup {NoEntry}]
  BY DEF CacheInv, TypeOK
<1>2. /\ pc[s] = "store" /\ key[s] \in Keys /\ cache' = [cache EXCEPT ![key[s]] = e]
      /\ pc' = [pc EXCEPT ![s] = "reply"]
      /\ UNCHANGED <<written, notes, version, flushed, key, data, tag, floor, stale>>
  BY <1>1 DEF Store, SearchFresh
<1>3. /\ e \in Entry /\ e.data = data[s] /\ e.version = tag[s] /\ e.stale = stale[s]
  <2>1. data[s] \in 0..MaxChanges /\ tag[s] \in 0..MaxChanges /\ stale[s] \in BOOLEAN
    BY Numbers
  <2> QED
    BY <2>1 DEF Entry
<1> HIDE DEF e
<1>4. cache' \in [Keys -> Entry \cup {NoEntry}] /\ cache'[key[s]] = e
      /\ \A k \in Keys : cache'[k] = cache[k] \/ k = key[s]
  BY <1>1, <1>2, <1>3
<1>5. \A k \in Keys : cache'[k].data <= written /\ cache'[k].version <= version
  BY <1>3, <1>4, Numbers
<1>6. TypeOK'
  BY <1>1, <1>2, <1>4, <1>5 DEF CacheInv, TypeOK
<1>7. EntryFresh(key[s])'
  BY <1>1, <1>2, <1>3, <1>4 DEF EntryFresh, Hit, SearchFresh
<1>8. SearchFresh(s)'
  BY <1>1, <1>2 DEF SearchFresh
<1> QED
  BY <1>1, <1>2, <1>4, <1>6, <1>7, <1>8, SearchStep

\* A call begins, or ends with its answer or an error.
LEMMA CallStep ==
  ASSUME CacheInv, NEW s \in Searches,
         (\E k \in Keys : Begin(s, k)) \/ QueryErr(s) \/ Reply(s)
  PROVE  CacheInv'
<1>1. /\ pc \in [Searches -> {"idle", "get", "query", "load", "store", "reply"}]
      /\ key \in [Searches -> Keys \cup {NoKey}] /\ data \in [Searches -> 0..written]
      /\ tag \in [Searches -> 0..version] /\ floor \in [Searches -> 0..flushed]
      /\ stale \in [Searches -> BOOLEAN]
  BY DEF CacheInv, TypeOK
<1>2. 0 \in 0..written /\ 0 \in 0..version /\ 0 \in 0..flushed /\ flushed \in 0..flushed
  BY Numbers
<1>3. CASE \E k \in Keys : Begin(s, k)
  <2>1. PICK k \in Keys : Begin(s, k)
    BY <1>3
  <2>2. /\ pc' = [pc EXCEPT ![s] = "get"] /\ key' = [key EXCEPT ![s] = k]
        /\ floor' = [floor EXCEPT ![s] = flushed]
        /\ UNCHANGED <<written, notes, version, flushed, cache, data, tag, stale>>
    BY <2>1 DEF Begin
  <2>3. TypeOK'
    BY <1>1, <1>2, <2>2 DEF CacheInv, TypeOK
  <2>4. SearchFresh(s)'
    BY <1>1, <2>2 DEF SearchFresh
  <2> QED
    BY <1>1, <2>2, <2>3, <2>4, SearchStep
<1>4. CASE QueryErr(s) \/ Reply(s)
  <2>1. /\ pc' = [pc EXCEPT ![s] = "idle"] /\ key' = [key EXCEPT ![s] = NoKey]
        /\ data' = [data EXCEPT ![s] = 0] /\ tag' = [tag EXCEPT ![s] = 0]
        /\ floor' = [floor EXCEPT ![s] = 0] /\ stale' = [stale EXCEPT ![s] = FALSE]
        /\ UNCHANGED <<written, notes, version, flushed, cache>>
    BY <1>4 DEF QueryErr, Reply, Return
  <2>2. TypeOK'
    BY <1>1, <1>2, <2>1 DEF CacheInv, TypeOK
  <2>3. SearchFresh(s)'
    BY <1>1, <2>1 DEF SearchFresh
  <2> QED
    BY <1>1, <2>1, <2>2, <2>3, SearchStep
<1> QED
  BY <1>3, <1>4

\* An entry expires, or nothing changes.
LEMMA ExpireStep ==
  ASSUME CacheInv, (\E k \in Keys : Expire(k)) \/ UNCHANGED vars
  PROVE  CacheInv'
<1>1. /\ UNCHANGED <<written, notes, version, flushed, pc, key, data, tag, floor, stale>>
      /\ cache' = cache \/ \E k \in Keys : cache' = [cache EXCEPT ![k] = NoEntry]
  BY DEF Expire, vars, searchVars
<1>2. cache \in [Keys -> Entry \cup {NoEntry}] /\ NoEntry.data = 0 /\ NoEntry.version = -1
  BY DEF CacheInv, TypeOK, NoEntry
<1>3. /\ cache' \in [Keys -> Entry \cup {NoEntry}]
      /\ \A k \in Keys : cache'[k] = cache[k] \/ cache'[k] = NoEntry
  BY <1>1, <1>2
<1>4. \A k \in Keys : cache'[k].data <= written /\ cache'[k].version <= version
  BY <1>2, <1>3, Numbers
<1>5. TypeOK'
  BY <1>1, <1>3, <1>4 DEF CacheInv, TypeOK
<1>6. \A k \in Keys : EntryFresh(k)'
  BY <1>1, <1>3 DEF CacheInv, EntryFresh, Hit
<1>7. \A s \in Searches : SearchFresh(s)'
  BY <1>1 DEF CacheInv, SearchFresh
<1> QED
  BY <1>1, <1>5, <1>6, <1>7 DEF CacheInv, Versions

-----------------------------------------------------------------------------
(* Theorems                                                                *)

\* The search server function, CacheHandle and the listener's invalidation keep the
\* invariant, in every interleaving.
THEOREM CacheInvHolds == Spec => []CacheInv
<1>1. Init => CacheInv
  BY InitCacheInv
<1>2. CacheInv /\ [Next]_vars => CacheInv'
  BY WriteStep, InvalidateStep, ExpireStep, CallStep, ReadsStep, StoreStep DEF Next, Search
<1> QED
  BY <1>1, <1>2, PTL DEF Spec

\* No entry is newer than the database, none carries a version to come.
THEOREM CacheTypeCorrect == Spec => []TypeOK
<1>1. CacheInv => TypeOK
  BY DEF CacheInv
<1> QED
  BY <1>1, CacheInvHolds, PTL

\* What the search server function answers is older than the last invalidation before
\* the search only if it came from an entry whose filling search was overtaken
\* between its read and CacheHandle::insert.
THEOREM StaleOnlyIfOvertakenHolds == Spec => []StaleOnlyIfOvertaken
<1>1. ASSUME CacheInv PROVE StaleOnlyIfOvertaken
  BY <1>1 DEF CacheInv, SearchFresh, StaleOnlyIfOvertaken
<1> QED
  BY <1>1, CacheInvHolds, PTL

=============================================================================
