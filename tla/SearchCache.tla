----------------------------- MODULE SearchCache ----------------------------
(***************************************************************************)
(* The search server function and its versioned cache.  A search asks the  *)
(* cache, on a miss queries the database, and inserts what it read tagged  *)
(* with the version current at that later moment.  The listener bumps the  *)
(* version after each notification.  Nothing makes these steps atomic.     *)
(*                                                                         *)
(* What a query returns is abstracted to the number of committed changes   *)
(* it reflects: comparing results is comparing how fresh they are.         *)
(***************************************************************************)
EXTENDS Integers

CONSTANTS
  Keys,         \* normalised query strings
  Searches,     \* bound: server-function calls in flight at once
  NoKey,
  MaxChanges    \* bound: committed changes per behaviour

ASSUME SearchCacheAssumption ==
  /\ NoKey \notin Keys
  /\ MaxChanges \in Nat

VARIABLES
  written,      \* changes committed to search_results
  notes,        \* notifications the listener has not handled yet
  version,      \* CacheHandle.version
  flushed,      \* history: changes committed before the last version bump
  cache,        \* moka: Keys -> entry, or NoEntry
  pc,           \* per search
  key,
  data,         \* what it found or read
  tag,          \* the version loaded by insert
  floor,        \* history: flushed when the search began
  stale         \* history: a bump happened between the read and the version load

searchVars == <<pc, key, data, tag, floor, stale>>
vars == <<written, notes, version, flushed, cache, searchVars>>

Entry == [data : 0..MaxChanges, version : 0..MaxChanges, stale : BOOLEAN]
NoEntry == [data |-> 0, version |-> -1, stale |-> FALSE]

\* No entry is newer than the database or tagged with a version to come.
TypeOK ==
  /\ written \in 0..MaxChanges
  /\ notes \in 0..written
  /\ version \in 0..written
  /\ flushed \in 0..written
  /\ cache \in [Keys -> Entry \cup {NoEntry}]
  /\ \A k \in Keys : cache[k].data <= written /\ cache[k].version <= version
  /\ pc \in [Searches -> {"idle", "get", "query", "load", "store", "reply"}]
  /\ key \in [Searches -> Keys \cup {NoKey}]
  /\ data \in [Searches -> 0..written]
  /\ tag \in [Searches -> 0..version]
  /\ floor \in [Searches -> 0..flushed]
  /\ stale \in [Searches -> BOOLEAN]

Init ==
  /\ written = 0
  /\ notes = 0
  /\ version = 0
  /\ flushed = 0
  /\ cache = [k \in Keys |-> NoEntry]
  /\ pc = [s \in Searches |-> "idle"]
  /\ key = [s \in Searches |-> NoKey]
  /\ data = [s \in Searches |-> 0]
  /\ tag = [s \in Searches |-> 0]
  /\ floor = [s \in Searches |-> 0]
  /\ stale = [s \in Searches |-> FALSE]

-----------------------------------------------------------------------------
(* The database and the listener                                           *)

\* A committed INSERT; the trigger notifies.
InsertRow ==
  /\ written < MaxChanges
  /\ written' = written + 1
  /\ notes' = notes + 1
  /\ UNCHANGED <<version, flushed, cache, searchVars>>

\* A committed UPDATE or DELETE; the trigger is AFTER INSERT only.
ChangeRow ==
  /\ written < MaxChanges
  /\ written' = written + 1
  /\ UNCHANGED <<notes, version, flushed, cache, searchVars>>

\* version.fetch_add(1)
InvalidateAll ==
  /\ version' = version + 1
  /\ flushed' = written

\* The listener forwards a notification and invalidates.
HandleNotification ==
  /\ notes > 0
  /\ notes' = notes - 1
  /\ InvalidateAll
  /\ stale' = [s \in Searches |-> stale[s] \/ pc[s] = "load"]
  /\ UNCHANGED <<written, cache, pc, key, data, tag, floor>>

\* Mutant of Expire: entries have no time to live.
ExpireNever(k) == FALSE /\ UNCHANGED vars

\* Time to live, or capacity.
Expire(k) ==
  /\ cache[k] # NoEntry
  /\ cache' = [cache EXCEPT ![k] = NoEntry]
  /\ UNCHANGED <<written, notes, version, flushed, searchVars>>

-----------------------------------------------------------------------------
(* The search server function                                              *)

Begin(s, k) ==
  /\ pc[s] = "idle"
  /\ pc' = [pc EXCEPT ![s] = "get"]
  /\ key' = [key EXCEPT ![s] = k]
  /\ floor' = [floor EXCEPT ![s] = flushed]
  /\ UNCHANGED <<written, notes, version, flushed, cache, data, tag, stale>>

\* Mutant of Hit: get does not compare versions.
HitAnyVersion(k) == cache[k] # NoEntry

\* Some(entry) with entry.version = version
Hit(k) == cache[k] # NoEntry /\ cache[k].version = version

GetHit(s) ==
  /\ pc[s] = "get"
  /\ Hit(key[s])
  /\ data' = [data EXCEPT ![s] = cache[key[s]].data]
  /\ stale' = [stale EXCEPT ![s] = cache[key[s]].stale]
  /\ pc' = [pc EXCEPT ![s] = "reply"]
  /\ UNCHANGED <<written, notes, version, flushed, cache, key, tag, floor>>

GetMiss(s) ==
  /\ pc[s] = "get"
  /\ ~Hit(key[s])
  /\ pc' = [pc EXCEPT ![s] = "query"]
  /\ UNCHANGED <<written, notes, version, flushed, cache, key, data, tag, floor,
                 stale>>

Query(s) ==
  /\ pc[s] = "query"
  /\ data' = [data EXCEPT ![s] = written]
  /\ pc' = [pc EXCEPT ![s] = "load"]
  /\ UNCHANGED <<written, notes, version, flushed, cache, key, tag, floor, stale>>

\* The call ends; its locals are gone.
Return(s) ==
  /\ pc' = [pc EXCEPT ![s] = "idle"]
  /\ key' = [key EXCEPT ![s] = NoKey]
  /\ data' = [data EXCEPT ![s] = 0]
  /\ tag' = [tag EXCEPT ![s] = 0]
  /\ floor' = [floor EXCEPT ![s] = 0]
  /\ stale' = [stale EXCEPT ![s] = FALSE]

\* An error is returned and nothing is cached.
QueryErr(s) ==
  /\ pc[s] = "query"
  /\ Return(s)
  /\ UNCHANGED <<written, notes, version, flushed, cache>>

\* CacheHandle::insert loads the version ...
LoadVersion(s) ==
  /\ pc[s] = "load"
  /\ tag' = [tag EXCEPT ![s] = version]
  /\ pc' = [pc EXCEPT ![s] = "store"]
  /\ UNCHANGED <<written, notes, version, flushed, cache, key, data, floor, stale>>

\* ... and stores the entry.
Store(s) ==
  /\ pc[s] = "store"
  /\ cache' = [cache EXCEPT ![key[s]] =
                 [data |-> data[s], version |-> tag[s], stale |-> stale[s]]]
  /\ pc' = [pc EXCEPT ![s] = "reply"]
  /\ UNCHANGED <<written, notes, version, flushed, key, data, tag, floor, stale>>

Reply(s) ==
  /\ pc[s] = "reply"
  /\ Return(s)
  /\ UNCHANGED <<written, notes, version, flushed, cache>>

Search(s) ==
  \/ GetHit(s) \/ GetMiss(s) \/ Query(s) \/ QueryErr(s)
  \/ LoadVersion(s) \/ Store(s) \/ Reply(s)

Next ==
  \/ InsertRow \/ ChangeRow \/ HandleNotification
  \/ \E k \in Keys : Expire(k)
  \/ \E s \in Searches : (\E k \in Keys : Begin(s, k)) \/ Search(s)

Spec == Init /\ [][Next]_vars

\* The listener handles what it is notified of, entries expire, and calls that
\* have begun are polled to their end.
FairSpec ==
  /\ Spec
  /\ WF_vars(HandleNotification)
  /\ \A k \in Keys : WF_vars(Expire(k))
  /\ \A s \in Searches : WF_vars(Search(s))

-----------------------------------------------------------------------------

\* cache.rs:100-101: the cache is invalidated "so that subsequent searches reflect
\* the updated data".  That holds apart from one window: a result older than the
\* last invalidation before the search comes only from an entry whose filling
\* search was overtaken by an invalidation between its database read and the
\* version load inside insert (app.rs:60-87, cache.rs:90-94).
StaleOnlyIfOvertaken ==
  \A s \in Searches : (pc[s] = "reply" /\ ~stale[s]) => data[s] >= floor[s]

\* Even an entry from that window does not live for ever: when the table is no
\* longer written to, the entries that would be served are in the end all up to
\* date.
StaleDiesOut == <>[](\A k \in Keys : Hit(k) => cache[k].data = written)
=============================================================================
