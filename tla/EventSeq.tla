------------------------------ MODULE EventSeq ------------------------------
(***************************************************************************)
(* How a row of search_results gets its event_seq and becomes visible.     *)
(*                                                                         *)
(* Migration 004 installs a BEFORE INSERT trigger that takes one           *)
(* transaction-scoped advisory lock and then draws a sequence value; the   *)
(* lock is held until COMMIT or ROLLBACK.  Migration 001 installs an AFTER *)
(* INSERT trigger whose pg_notify is delivered when the transaction        *)
(* commits.  nextval is not transactional: a value drawn by a transaction  *)
(* that rolls back, or by an INSERT that ON CONFLICT DO NOTHING discards,  *)
(* is gone.                                                                *)
(*                                                                         *)
(* A row is identified by its event_seq (unique by the migration's index); *)
(* the other columns are irrelevant here.                                  *)
(***************************************************************************)
EXTENDS Integers, Sequences, Functions

CONSTANTS
  Sessions,     \* database sessions that write search_results
  NoSession,    \* owner of the advisory lock when it is free
  Backfilled,   \* rows present when migration 004 ran
  MaxSeq        \* bound: largest value nextval may return

ASSUME EventSeqAssumption ==
  /\ NoSession \notin Sessions
  /\ Backfilled \in Nat
  /\ MaxSeq \in Nat

VARIABLES
  lastSeq,      \* last value returned by nextval
  holder,       \* session holding the advisory transaction lock
  pending,      \* per session: rows its open transaction has inserted
  rows,         \* committed rows now in the table
  feed          \* history: every committed insert, in commit order

seqVars == <<lastSeq, holder, pending, rows, feed>>

TypeOK ==
  /\ lastSeq \in Nat
  /\ holder \in Sessions \cup {NoSession}
  /\ pending \in [Sessions -> Seq(1..lastSeq)]
  /\ rows \subseteq 1..lastSeq
  /\ feed \in Seq(1..lastSeq)

-----------------------------------------------------------------------------

\* The backfill numbers the existing rows 1..n and setval makes the next
\* nextval() return n + 1.
InitSeq ==
  /\ lastSeq = Backfilled
  /\ holder = NoSession
  /\ pending = [s \in Sessions |-> <<>>]
  /\ rows = 1..Backfilled
  /\ feed = [i \in 1..Backfilled |-> i]

\* Mutant of AcquireAdvisory: a plain BIGSERIAL, allocation not serialized.
AcquireNothing(s) == holder' = holder

\* pg_advisory_xact_lock: granted when free, re-entrant for its holder, and
\* otherwise the INSERT waits.
AcquireAdvisory(s) ==
  /\ holder \in {NoSession, s}
  /\ holder' = s

\* INSERT INTO search_results: the trigger takes the lock and draws a value.
Insert(s) ==
  /\ lastSeq < MaxSeq
  /\ AcquireAdvisory(s)
  /\ lastSeq' = lastSeq + 1
  /\ pending' = [pending EXCEPT ![s] = Append(@, lastSeq + 1)]
  /\ UNCHANGED <<rows, feed>>

\* INSERT ... ON CONFLICT (url) DO NOTHING that conflicts: the trigger has run,
\* so the lock is held and the value is spent, but there is no row.
InsertConflict(s) ==
  /\ lastSeq < MaxSeq
  /\ AcquireAdvisory(s)
  /\ lastSeq' = lastSeq + 1
  /\ UNCHANGED <<pending, rows, feed>>

\* The advisory lock goes with the transaction that holds it.
ReleaseAdvisory(s) == holder' = IF holder = s THEN NoSession ELSE holder

\* COMMIT: the rows become visible, their notifications are queued in order.
Commit(s) ==
  /\ holder = s \/ pending[s] # <<>>
  /\ ReleaseAdvisory(s)
  /\ rows' = rows \cup Range(pending[s])
  /\ feed' = feed \o pending[s]
  /\ pending' = [pending EXCEPT ![s] = <<>>]
  /\ UNCHANGED lastSeq

Rollback(s) ==
  /\ holder = s \/ pending[s] # <<>>
  /\ ReleaseAdvisory(s)
  /\ pending' = [pending EXCEPT ![s] = <<>>]
  /\ UNCHANGED <<lastSeq, rows, feed>>

\* Rows may be deleted; neither trigger fires for a DELETE.
Delete(q) ==
  /\ q \in rows
  /\ rows' = rows \ {q}
  /\ UNCHANGED <<lastSeq, holder, pending, feed>>

NextSeq ==
  \/ \E s \in Sessions : Insert(s) \/ InsertConflict(s) \/ Commit(s) \/ Rollback(s)
  \/ \E q \in rows : Delete(q)

SpecSeq == InitSeq /\ [][NextSeq]_seqVars

-----------------------------------------------------------------------------

\* Migration 004, lines 8-10: because allocation is serialized until COMMIT,
\* "every visible event_seq is strictly increasing in commit order", across
\* concurrent sessions, rollbacks, discarded inserts and multi-row transactions.
CommitOrder == \A i, j \in 1..Len(feed) : i < j => feed[i] < feed[j]

\* The strengthening that makes CommitOrder inductive: only the lock's holder
\* has uncommitted rows, those are in increasing order, and all of them are
\* above everything committed.
OnlyHolderPending == \A s \in Sessions : pending[s] # <<>> => holder = s

PendingSorted ==
  \A s \in Sessions : \A i, j \in 1..Len(pending[s]) :
    i < j => pending[s][i] < pending[s][j]

PendingAboveFeed ==
  \A s \in Sessions : \A i \in 1..Len(pending[s]) :
    \A j \in 1..Len(feed) : feed[j] < pending[s][i]

IndInv ==
  /\ TypeOK
  /\ OnlyHolderPending
  /\ PendingSorted
  /\ PendingAboveFeed
  /\ CommitOrder
=============================================================================
