----------------------------- MODULE PgListener -----------------------------
(***************************************************************************)
(* run_pg_listener: the task that turns rows committed to search_results   *)
(* into events on the broadcast channel.  It connects and LISTENs, replays *)
(* the rows above last_seen_seq in pages, then forwards notifications one  *)
(* at a time until the connection fails or shutdown is requested.          *)
(*                                                                         *)
(* The database is EventSeq; a commit also queues the transaction's        *)
(* notifications on the listener's connection, if there is one.  Every     *)
(* await is a point where the rest of the system moves, and so is every    *)
(* row of a replayed page, since the other threads see it broadcast.       *)
(*                                                                         *)
(* Failures come from a budget, and Faults says which kinds can happen.    *)
(***************************************************************************)
EXTENDS EventSeq, FiniteSets

CONSTANTS
  BatchSize,     \* RESYNC_BATCH_SIZE (100 in the code)
  BackoffFloor,  \* 250 ms in the code
  BackoffMax,    \* 30 s in the code
  Faults,        \* kinds of failure that may happen, a subset of FaultKinds
  MaxFaults      \* bound: failures per behaviour

FaultKinds ==
  {"connect",    \* connect_and_listen fails
   "drop",       \* the listening connection is lost and recv() reports it
   "silent",     \* ... or recv() reconnects by itself and reports nothing
   "malformed",  \* another client NOTIFYs the channel with another payload
   "replay",     \* a page of the replay fails
   "fetch"}      \* the SELECT of a notified row fails

\* What the reconnect protocol is built to survive.
Survivable == {"connect", "drop", "malformed"}

ASSUME PgListenerAssumption ==
  /\ BatchSize \in Nat \ {0}
  /\ BackoffFloor \in Nat \ {0}
  /\ BackoffMax \in Nat
  /\ BackoffFloor <= BackoffMax
  /\ Faults \subseteq FaultKinds
  /\ MaxFaults \in Nat

VARIABLES
  pc,           \* where the task is
  conn,         \* the LISTEN connection: "none", "up" or "lost"
  inbox,        \* notifications queued on it (a row, or Malformed)
  note,         \* the notification being forwarded
  lastSeen,     \* last_seen_seq
  cursor,       \* resync_after_reconnect's cursor
  page,         \* rows of the fetched page that are not broadcast yet
  lastPage,     \* the page had fewer than RESYNC_BATCH_SIZE rows
  replayedAny,  \* resync_after_reconnect's replayed_any
  backoff,
  sent,         \* every row broadcast so far, in order
  unflushed,    \* rows have been broadcast since the last cache.invalidate_all
  shutdown,     \* the cancellation token
  budget        \* failures still allowed

replayVars == <<cursor, page, lastPage, replayedAny>>
listenerVars == <<pc, conn, inbox, note, lastSeen, replayVars, backoff, sent,
                  unflushed, shutdown, budget>>
vars == <<seqVars, listenerVars>>

Malformed == 0

ListenerTypeOK ==
  /\ TypeOK
  /\ pc \in {"top", "connect", "sleep", "resync", "page", "live",
            "forward", "done"}
  /\ conn \in {"none", "up", "lost"}
  /\ inbox \in Seq(0..lastSeq)
  /\ note \in 0..lastSeq
  /\ lastSeen \in 0..lastSeq
  /\ cursor \in 0..lastSeq
  /\ page \subseteq 1..lastSeq
  /\ lastPage \in BOOLEAN
  /\ replayedAny \in BOOLEAN
  /\ backoff \in BackoffFloor..BackoffMax
  /\ sent \in Seq(1..lastSeq)
  /\ unflushed \in BOOLEAN
  /\ shutdown \in BOOLEAN
  /\ budget \in 0..MaxFaults

Init ==
  /\ InitSeq
  /\ pc = "top"
  /\ conn = "none"
  /\ inbox = <<>>
  /\ note = Malformed
  /\ lastSeen = 0
  /\ cursor = 0
  /\ page = {}
  /\ lastPage = FALSE
  /\ replayedAny = FALSE
  /\ backoff = BackoffFloor
  /\ sent = <<>>
  /\ unflushed = FALSE
  /\ shutdown = FALSE
  /\ budget = MaxFaults

Fault(kind) ==
  /\ kind \in Faults
  /\ budget > 0
  /\ budget' = budget - 1

-----------------------------------------------------------------------------
(* The environment: writers, the network, the process that shuts down.     *)

\* Mutant of Notify: LISTEN is issued after the replay instead of before it.
NotifyAfterReplay(s) ==
  inbox' = IF conn = "up" /\ pc \notin {"resync", "page"}
           THEN inbox \o pending[s] ELSE inbox

\* The AFTER INSERT trigger's pg_notify, delivered by COMMIT.
Notify(s) ==
  inbox' = IF conn = "up" THEN inbox \o pending[s] ELSE inbox

CommitAndNotify(s) ==
  /\ Commit(s)
  /\ Notify(s)
  /\ UNCHANGED <<pc, conn, note, lastSeen, replayVars, backoff, sent,
                 unflushed, shutdown, budget>>

Writers ==
  \/ /\ \/ \E s \in Sessions : Insert(s) \/ InsertConflict(s) \/ Rollback(s)
        \/ \E q \in rows : Delete(q)
     /\ UNCHANGED listenerVars
  \/ \E s \in Sessions : CommitAndNotify(s)

\* The connection dies; a prefix of what was queued had already reached the
\* client's buffer and can still be received.
LoseConnection ==
  /\ conn = "up"
  /\ Fault("drop")
  /\ conn' = "lost"
  /\ \E n \in 0..Len(inbox) : inbox' = SubSeq(inbox, 1, n)
  /\ UNCHANGED <<seqVars, pc, note, lastSeen, replayVars, backoff,
                 sent, unflushed, shutdown>>

NotifyMalformed ==
  /\ conn = "up"
  /\ Fault("malformed")
  /\ inbox' = Append(inbox, Malformed)
  /\ UNCHANGED <<seqVars, pc, conn, note, lastSeen, replayVars,
                 backoff, sent, unflushed, shutdown>>

Cancel ==
  /\ ~shutdown
  /\ shutdown' = TRUE
  /\ UNCHANGED <<seqVars, pc, conn, inbox, note, lastSeen, replayVars,
                 backoff, sent, unflushed, budget>>

-----------------------------------------------------------------------------
(* The task.                                                               *)

\* while !shutdown.is_cancelled()
LoopTop ==
  /\ pc = "top"
  /\ pc' = IF shutdown THEN "done" ELSE "connect"
  /\ UNCHANGED <<seqVars, conn, inbox, note, lastSeen, replayVars,
                 backoff, sent, unflushed, shutdown, budget>>

\* Mutant of ConnectOk: go straight to the live stream.
ConnectOkNoReplay ==
  /\ pc = "connect"
  /\ conn' = "up"
  /\ inbox' = <<>>
  /\ backoff' = BackoffFloor
  /\ pc' = "live"
  /\ UNCHANGED <<seqVars, note, lastSeen, replayVars, sent, unflushed, shutdown,
                 budget>>

\* connect_and_listen succeeds; the replay starts from last_seen_seq.
ConnectOk ==
  /\ pc = "connect"
  /\ conn' = "up"
  /\ inbox' = <<>>
  /\ backoff' = BackoffFloor
  /\ cursor' = lastSeen
  /\ replayedAny' = FALSE
  /\ pc' = "resync"
  /\ UNCHANGED <<seqVars, note, lastSeen, page, lastPage, sent, unflushed,
                 shutdown, budget>>

ConnectErr ==
  /\ pc = "connect"
  /\ Fault("connect")
  /\ pc' = "sleep"
  /\ UNCHANGED <<seqVars, conn, inbox, note, lastSeen, replayVars,
                 backoff, sent, unflushed, shutdown>>

\* Mutant of Doubled: the cap is forgotten.
DoubledUncapped == backoff' = 2 * backoff

\* (backoff * 2).min(max_backoff)
Doubled == backoff' = IF 2 * backoff > BackoffMax THEN BackoffMax ELSE 2 * backoff

\* sleep_or_shutdown ran to its end; the dead listener is dropped.
SleepOver ==
  /\ pc = "sleep"
  /\ Doubled
  /\ conn' = "none"
  /\ inbox' = <<>>
  /\ pc' = "top"
  /\ UNCHANGED <<seqVars, note, lastSeen, replayVars, sent, unflushed,
                 shutdown, budget>>

\* Mutant of Cancelled: the backoff sleep is not raced with the token.
NotCancelled == FALSE

\* sleep_or_shutdown, or the live select, saw the token: the task returns.
Cancelled ==
  /\ pc \in {"sleep", "live"}
  /\ shutdown
  /\ pc' = "done"
  /\ conn' = "none"
  /\ inbox' = <<>>
  /\ UNCHANGED <<seqVars, note, lastSeen, replayVars, backoff, sent,
                 unflushed, shutdown, budget>>

\* Mutant of IsPage: LIMIT without ORDER BY event_seq.
IsPageUnordered(p, above) ==
  LET newer == {q \in rows : q > above} IN
  /\ p \subseteq newer
  /\ Cardinality(p) = IF Cardinality(newer) < BatchSize
                      THEN Cardinality(newer) ELSE BatchSize

\* WHERE event_seq > above ORDER BY event_seq ASC LIMIT BatchSize
IsPage(p, above) ==
  LET newer == {q \in rows : q > above} IN
  /\ p \subseteq newer
  /\ \A q \in p, r \in newer \ p : q < r
  /\ Cardinality(p) = IF Cardinality(newer) < BatchSize
                      THEN Cardinality(newer) ELSE BatchSize

ResyncSelect ==
  /\ pc = "resync"
  /\ \E p \in SUBSET rows :
       /\ IsPage(p, cursor)
       /\ page' = p
       /\ lastPage' = (Cardinality(p) < BatchSize)
  /\ pc' = "page"
  /\ UNCHANGED <<seqVars, conn, inbox, note, lastSeen, cursor, replayedAny,
                 backoff, sent, unflushed, shutdown, budget>>

\* for row in rows: broadcast, advance the cursor.
ResyncRow ==
  /\ pc = "page"
  /\ \E q \in page :
       /\ \A r \in page : q <= r
       /\ sent' = Append(sent, q)
       /\ cursor' = q
       /\ page' = page \ {q}
  /\ replayedAny' = TRUE
  /\ unflushed' = TRUE
  /\ UNCHANGED <<seqVars, pc, conn, inbox, note, lastSeen, lastPage, backoff,
                 shutdown, budget>>

\* A full page: ask for the next one.
ResyncMore ==
  /\ pc = "page"
  /\ page = {}
  /\ ~lastPage
  /\ pc' = "resync"
  /\ UNCHANGED <<seqVars, conn, inbox, note, lastSeen, cursor, page, lastPage,
                 replayedAny, backoff, sent, unflushed, shutdown, budget>>

\* resync_after_reconnect returns: its locals are gone.
EndReplay ==
  /\ cursor' = 0
  /\ page' = {}
  /\ lastPage' = FALSE
  /\ replayedAny' = FALSE

\* Mutant of ResyncOk: the replay does not invalidate the cache.
ResyncOkNoFlush ==
  /\ pc = "page"
  /\ page = {}
  /\ lastPage
  /\ lastSeen' = cursor
  /\ EndReplay
  /\ pc' = "live"
  /\ UNCHANGED <<seqVars, conn, inbox, note, backoff, sent, unflushed, shutdown,
                 budget>>

\* A short page was the last: invalidate the cache if anything was replayed and
\* hand the cursor back as last_seen_seq.
ResyncOk ==
  /\ pc = "page"
  /\ page = {}
  /\ lastPage
  /\ unflushed' = (unflushed /\ ~replayedAny)
  /\ lastSeen' = cursor
  /\ EndReplay
  /\ pc' = "live"
  /\ UNCHANGED <<seqVars, conn, inbox, note, backoff, sent, shutdown, budget>>

\* A page fails: the replay returns Err, the cursor is lost with it, and the
\* task goes on with the live stream.
ResyncErr ==
  /\ pc = "resync"
  /\ Fault("replay")
  /\ EndReplay
  /\ pc' = "live"
  /\ UNCHANGED <<seqVars, conn, inbox, note, lastSeen, backoff, sent, unflushed,
                 shutdown>>

\* biased select: a notification is taken only when the token is not cancelled.
RecvOk ==
  /\ pc = "live"
  /\ ~shutdown
  /\ inbox # <<>>
  /\ note' = Head(inbox)
  /\ inbox' = Tail(inbox)
  /\ backoff' = BackoffFloor
  /\ pc' = "forward"
  /\ UNCHANGED <<seqVars, conn, lastSeen, replayVars, sent, unflushed,
                 shutdown, budget>>

RecvErr ==
  /\ pc = "live"
  /\ ~shutdown
  /\ conn = "lost"
  /\ inbox = <<>>
  /\ pc' = "sleep"
  /\ UNCHANGED <<seqVars, conn, inbox, note, lastSeen, replayVars,
                 backoff, sent, unflushed, shutdown, budget>>

\* The client library may answer a lost connection by reconnecting and
\* LISTENing again inside recv(), which then waits for the next notification.
SilentReconnect ==
  /\ "silent" \in Faults
  /\ pc = "live"
  /\ ~shutdown
  /\ conn = "lost"
  /\ inbox = <<>>
  /\ conn' = "up"
  /\ UNCHANGED <<seqVars, pc, inbox, note, lastSeen, replayVars,
                 backoff, sent, unflushed, shutdown, budget>>

\* Mutant of Covered: no check against the replay.
CoveredNever(q) == FALSE

\* Mutant of Covered: the check against the replay is off by one.
CoveredOffByOne(q) == q < lastSeen

\* row.event_seq <= last_seen_seq
Covered(q) == q <= lastSeen

\* Ok(None): an unparseable payload, a row deleted meanwhile, or one that the
\* replay has already sent.
ForwardNothing ==
  /\ pc = "forward"
  /\ \/ note = Malformed
     \/ note \notin rows
     \/ Covered(note)
  /\ note' = Malformed
  /\ pc' = "live"
  /\ UNCHANGED <<seqVars, conn, inbox, lastSeen, replayVars,
                 backoff, sent, unflushed, shutdown, budget>>

ForwardRow ==
  /\ pc = "forward"
  /\ note \in rows
  /\ ~Covered(note)
  /\ sent' = Append(sent, note)
  /\ unflushed' = FALSE
  /\ lastSeen' = note
  /\ note' = Malformed
  /\ pc' = "live"
  /\ UNCHANGED <<seqVars, conn, inbox, replayVars, backoff,
                 shutdown, budget>>

\* The row's SELECT fails: logged, and the next notification is received.
ForwardErr ==
  /\ pc = "forward"
  /\ note # Malformed
  /\ Fault("fetch")
  /\ note' = Malformed
  /\ pc' = "live"
  /\ UNCHANGED <<seqVars, conn, inbox, lastSeen, replayVars,
                 backoff, sent, unflushed, shutdown>>

Task ==
  \/ LoopTop \/ ConnectOk \/ ConnectErr \/ SleepOver \/ Cancelled
  \/ ResyncSelect \/ ResyncRow \/ ResyncMore \/ ResyncOk \/ ResyncErr
  \/ RecvOk \/ RecvErr \/ SilentReconnect
  \/ ForwardNothing \/ ForwardRow \/ ForwardErr

Next == Writers \/ LoseConnection \/ NotifyMalformed \/ Cancel \/ Task

Spec == Init /\ [][Next]_vars

\* The runtime polls a task that can make progress, and an awaited database
\* call or sleep completes, one way or the other.
FairSpec == Spec /\ WF_vars(Task)

-----------------------------------------------------------------------------

\* db.rs:273-277, README.md:123: nothing is skipped.  A row at or below
\* last_seen_seq that is still in the table has been broadcast; the cursor
\* never passes an undelivered row, across reconnects, pages and the
\* notifications that queue up during a replay.
NoGap == \A q \in rows : q <= lastSeen => q \in Range(sent)

\* db.rs:246-248 and 276-277: clients see rows in event_seq order and each row
\* once; neither a replay overlapping queued notifications nor two consecutive
\* reconnects repeat one.
SentInOrder == \A i, j \in 1..Len(sent) : i < j => sent[i] < sent[j]

\* SKILL.md:256-257: "The Moka cache is invalidated when search-result change
\* events are delivered or replayed".  Whenever the task waits for the next
\* notification, every row it has broadcast was followed by an invalidation.
CacheFollowsFeed == pc \in {"live", "forward", "sleep", "done"} => ~unflushed

\* Under every fault: last_seen_seq is a high-water mark, no step moves it back,
\* although the queue may hold rows below it.
CursorMonotone == [][lastSeen' >= lastSeen]_vars

\* The feed implements its abstract specification.
Feed == INSTANCE EventFeed
          WITH committed <- Range(feed), table <- rows, delivered <- sent
ImplementsFeed == Feed!Spec

\* Every committed row is broadcast in the end, whatever connections are lost
\* on the way, unless it is deleted or the process is told to stop first.
EveryRowSent ==
  \A q \in 1..MaxSeq :
    (q \in rows) ~> (q \in Range(sent) \/ q \notin rows \/ shutdown)

\* architecture-patterns.md:87: waits and backoff race cancellation, so once
\* the token is cancelled the task returns, whatever fails meanwhile.
StopsAfterCancel == shutdown ~> (pc = "done")
=============================================================================
