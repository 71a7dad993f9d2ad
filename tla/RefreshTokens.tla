---------------------------- MODULE RefreshTokens ---------------------------
(***************************************************************************)
(* The gateway's refresh tokens: login, rotation with replay detection,    *)
(* and logout, as concurrent requests over the refresh_tokens table.       *)
(*                                                                         *)
(* PostgreSQL runs at READ COMMITTED.  Every statement works on the rows   *)
(* committed when it starts; SELECT ... FOR UPDATE and UPDATE lock the     *)
(* rows they hit until the transaction ends, wait for a row locked by      *)
(* another transaction, and then test that row again in its latest         *)
(* version.  A transaction's own writes are invisible to the others until  *)
(* it commits, so they are applied by the commit action.                   *)
(*                                                                         *)
(* A token stands for its row and its raw value.  Login admits only the    *)
(* configured admin, so there is one subject.                              *)
(***************************************************************************)
EXTENDS Integers, FiniteSets

CONSTANTS
  Tokens,       \* bound: rows that may ever be created
  Requests,     \* bound: HTTP requests in flight at once
  None,         \* no token / no request
  Ttl,          \* refresh_token_ttl_secs, in clock ticks
  MaxClock,     \* bound on the clock
  MaxAborts     \* bound: failed transactions per behaviour

ASSUME RefreshTokensAssumption ==
  /\ None \notin Tokens
  /\ None \notin Requests
  /\ Ttl \in Nat \ {0}
  /\ MaxClock \in Nat
  /\ MaxAborts \in Nat

VARIABLES
  status,       \* "free" (no row), "active" (revoked_at IS NULL), "revoked", "deleted"
  fam,          \* family_id
  repl,         \* replaced_by
  expires,      \* expires_at
  lock,         \* the request whose transaction has the row locked
  known,        \* tokens whose raw value has reached a client
  clock,
  pc,           \* per request: where its handler is
  arg,          \* the token it was given, or has created
  now,          \* chrono::Utc::now() when it began
  todo,         \* revoking UPDATE: rows of its snapshot still to be visited
  mine,         \* ... and the rows it has locked and will mark revoked
  aborts,       \* failures still allowed
  snapshot,     \* history: the active rows when the revoking UPDATE began
  replayed,     \* history: families whose replay was detected and committed
  loggedOut     \* history: families that had an active token when a logout began

rowVars == <<status, fam, repl, expires>>
reqVars == <<pc, arg, now, todo, mine, snapshot>>
ghostVars == <<replayed, loggedOut>>
vars == <<rowVars, lock, known, clock, reqVars, aborts, ghostVars>>

Revoking == {"revokeFamily", "revokeSubject"}

TypeOK ==
  /\ status \in [Tokens -> {"free", "active", "revoked", "deleted"}]
  /\ fam \in [Tokens -> Tokens \cup {None}]
  /\ \A t \in Tokens : fam[t] = None <=> status[t] = "free"
  /\ repl \in [Tokens -> Tokens \cup {None}]
  /\ expires \in [Tokens -> Nat]
  /\ lock \in [Tokens -> Requests \cup {None}]
  /\ known \subseteq Tokens
  /\ clock \in 0..MaxClock
  /\ pc \in [Requests -> {"idle", "session", "select", "replay", "rotate",
                          "respond"} \cup Revoking]
  /\ arg \in [Requests -> Tokens \cup {None}]
  /\ now \in [Requests -> 0..MaxClock]
  /\ todo \in [Requests -> SUBSET Tokens]
  /\ mine \in [Requests -> SUBSET Tokens]
  /\ snapshot \in [Requests -> SUBSET Tokens]
  /\ aborts \in 0..MaxAborts
  /\ replayed \subseteq Tokens
  /\ loggedOut \subseteq Tokens

Init ==
  /\ status = [t \in Tokens |-> "free"]
  /\ fam = [t \in Tokens |-> None]
  /\ repl = [t \in Tokens |-> None]
  /\ expires = [t \in Tokens |-> 0]
  /\ lock = [t \in Tokens |-> None]
  /\ known = {}
  /\ clock = 0
  /\ pc = [r \in Requests |-> "idle"]
  /\ arg = [r \in Requests |-> None]
  /\ now = [r \in Requests |-> 0]
  /\ todo = [r \in Requests |-> {}]
  /\ mine = [r \in Requests |-> {}]
  /\ snapshot = [r \in Requests |-> {}]
  /\ aborts = MaxAborts
  /\ replayed = {}
  /\ loggedOut = {}

Tick ==
  /\ clock < MaxClock
  /\ clock' = clock + 1
  /\ UNCHANGED <<rowVars, lock, known, reqVars, aborts, ghostVars>>

\* The handler returns; its locals are gone.
Return(r) ==
  /\ pc' = [pc EXCEPT ![r] = "idle"]
  /\ arg' = [arg EXCEPT ![r] = None]
  /\ now' = [now EXCEPT ![r] = 0]
  /\ todo' = [todo EXCEPT ![r] = {}]
  /\ mine' = [mine EXCEPT ![r] = {}]
  /\ snapshot' = [snapshot EXCEPT ![r] = {}]

\* COMMIT and ROLLBACK release the transaction's row locks.
Unlock(r) == lock' = [t \in Tokens |-> IF lock[t] = r THEN None ELSE lock[t]]

-----------------------------------------------------------------------------
(* login_handler                                                           *)

\* Mutant of LoginInsert: the first row of a family does not name it.
LoginInsertNoFamily(r, t) ==
  /\ pc[r] = "idle"
  /\ status[t] = "free"
  /\ status' = [status EXCEPT ![t] = "active"]
  /\ expires' = [expires EXCEPT ![t] = clock + Ttl]
  /\ pc' = [pc EXCEPT ![r] = "session"]
  /\ arg' = [arg EXCEPT ![r] = t]
  /\ UNCHANGED <<fam, repl, lock, known, clock, now, todo, mine, snapshot, aborts,
                 ghostVars>>

\* The credentials are right and the INSERT of a new family is committed; the
\* session has still to be rotated, written and saved.
LoginInsert(r, t) ==
  /\ pc[r] = "idle"
  /\ status[t] = "free"
  /\ status' = [status EXCEPT ![t] = "active"]
  /\ fam' = [fam EXCEPT ![t] = t]
  /\ expires' = [expires EXCEPT ![t] = clock + Ttl]
  /\ pc' = [pc EXCEPT ![r] = "session"]
  /\ arg' = [arg EXCEPT ![r] = t]
  /\ UNCHANGED <<repl, lock, known, clock, now, todo, mine, snapshot, aborts,
                 ghostVars>>

LoginOk(r) ==
  /\ pc[r] = "session"
  /\ known' = known \cup {arg[r]}
  /\ Return(r)
  /\ UNCHANGED <<rowVars, lock, clock, aborts, ghostVars>>

\* A session step failed: remove_unissued_refresh_token deletes the row, after
\* any transaction that has it locked.
LoginUndo(r) ==
  /\ pc[r] = "session"
  /\ lock[arg[r]] = None
  /\ status' = [status EXCEPT ![arg[r]] = "deleted"]
  /\ Return(r)
  /\ UNCHANGED <<fam, repl, expires, lock, known, clock, aborts, ghostVars>>

\* The clean-up fails too (it is best effort), the handler is cancelled by the
\* timeout layer, or the response is lost: the row stays, nobody has the token.
LoginLost(r) ==
  /\ pc[r] = "session"
  /\ Return(r)
  /\ UNCHANGED <<rowVars, lock, known, clock, aborts, ghostVars>>

-----------------------------------------------------------------------------
(* refresh_handler and rotate                                              *)

\* now is taken before the transaction begins.
RefreshBegin(r, t) ==
  /\ pc[r] = "idle"
  /\ t \in known
  /\ pc' = [pc EXCEPT ![r] = "select"]
  /\ arg' = [arg EXCEPT ![r] = t]
  /\ now' = [now EXCEPT ![r] = clock]
  /\ UNCHANGED <<rowVars, lock, known, clock, todo, mine, snapshot, aborts,
                 ghostVars>>

\* Mutant of IsActive: the SELECT does not ask for revoked_at IS NULL.
IsActiveUnexpired(r) == expires[arg[r]] > now[r]

\* revoked_at IS NULL AND expires_at > now
IsActive(r) == status[arg[r]] = "active" /\ expires[arg[r]] > now[r]

\* Mutant of LockRow: SELECT without FOR UPDATE.
LockRowNot(r) == UNCHANGED lock

\* FOR UPDATE: waits while another transaction has the row.
LockRow(r) ==
  /\ lock[arg[r]] = None
  /\ lock' = [lock EXCEPT ![arg[r]] = r]

SelectActive(r) ==
  /\ pc[r] = "select"
  /\ IsActive(r)
  /\ LockRow(r)
  /\ pc' = [pc EXCEPT ![r] = "rotate"]
  /\ UNCHANGED <<rowVars, known, clock, arg, now, todo, mine, snapshot, aborts,
                 ghostVars>>

SelectNothing(r) ==
  /\ pc[r] = "select"
  /\ ~IsActive(r)
  /\ pc' = [pc EXCEPT ![r] = "replay"]
  /\ UNCHANGED <<rowVars, lock, known, clock, arg, now, todo, mine, snapshot,
                 aborts, ghostVars>>

\* Mutant of RotateCommit: the replacement is inserted, the old row not updated.
RotateCommitKeepsOld(r, n) ==
  /\ pc[r] = "rotate"
  /\ status[n] = "free"
  /\ status' = [status EXCEPT ![n] = "active"]
  /\ fam' = [fam EXCEPT ![n] = fam[arg[r]]]
  /\ repl' = [repl EXCEPT ![arg[r]] = n]
  /\ expires' = [expires EXCEPT ![n] = now[r] + Ttl]
  /\ Unlock(r)
  /\ pc' = [pc EXCEPT ![r] = "respond"]
  /\ arg' = [arg EXCEPT ![r] = n]
  /\ UNCHANGED <<known, clock, now, todo, mine, snapshot, aborts, ghostVars>>

\* Mutant of RotateCommit: the UPDATE runs on the pool, not on the transaction,
\* and waits for the row lock its own request holds.
RotateCommitOnPool(r, n) ==
  /\ pc[r] = "rotate"
  /\ status[n] = "free"
  /\ lock[arg[r]] = None
  /\ status' = [status EXCEPT ![arg[r]] = "revoked", ![n] = "active"]
  /\ fam' = [fam EXCEPT ![n] = fam[arg[r]]]
  /\ repl' = [repl EXCEPT ![arg[r]] = n]
  /\ expires' = [expires EXCEPT ![n] = now[r] + Ttl]
  /\ Unlock(r)
  /\ pc' = [pc EXCEPT ![r] = "respond"]
  /\ arg' = [arg EXCEPT ![r] = n]
  /\ UNCHANGED <<known, clock, now, todo, mine, snapshot, aborts, ghostVars>>

\* UPDATE of the old row, INSERT of the replacement in the same family, COMMIT.
RotateCommit(r, n) ==
  /\ pc[r] = "rotate"
  /\ status[n] = "free"
  /\ status' = [status EXCEPT ![arg[r]] = "revoked", ![n] = "active"]
  /\ fam' = [fam EXCEPT ![n] = fam[arg[r]]]
  /\ repl' = [repl EXCEPT ![arg[r]] = n]
  /\ expires' = [expires EXCEPT ![n] = now[r] + Ttl]
  /\ Unlock(r)
  /\ pc' = [pc EXCEPT ![r] = "respond"]
  /\ arg' = [arg EXCEPT ![r] = n]
  /\ UNCHANGED <<known, clock, now, todo, mine, snapshot, aborts, ghostVars>>

RefreshOk(r) ==
  /\ pc[r] = "respond"
  /\ known' = known \cup {arg[r]}
  /\ Return(r)
  /\ UNCHANGED <<rowVars, lock, clock, aborts, ghostVars>>

\* create_jwt fails after the commit, or the response never arrives.
RefreshLost(r) ==
  /\ pc[r] = "respond"
  /\ Return(r)
  /\ UNCHANGED <<rowVars, lock, known, clock, aborts, ghostVars>>

-----------------------------------------------------------------------------
(* The revoking UPDATEs: replay in rotate, and logout_handler.             *)

\* Rows an UPDATE ... WHERE revoked_at IS NULL that starts now would visit.
ActiveIn(S) == {t \in S : status[t] = "active"}

RevokeBegin(r, at, S) ==
  /\ pc' = [pc EXCEPT ![r] = at]
  /\ todo' = [todo EXCEPT ![r] = ActiveIn(S)]
  /\ snapshot' = [snapshot EXCEPT ![r] = ActiveIn(S)]

\* Mutant of Family: the replay revokes the presented token only.
FamilySelf(t) == {t}

Family(t) == {u \in Tokens : fam[u] = fam[t]}

\* The presented token is known but inactive: UPDATE its family.
ReplayBegin(r) ==
  /\ pc[r] = "replay"
  /\ RevokeBegin(r, "revokeFamily", Family(arg[r]))
  /\ UNCHANGED <<rowVars, lock, known, clock, arg, now, mine, aborts, ghostVars>>

\* An authenticated logout: UPDATE every token of the subject.
LogoutBegin(r) ==
  /\ pc[r] = "idle"
  /\ known # {}
  /\ RevokeBegin(r, "revokeSubject", Tokens)
  /\ UNCHANGED <<rowVars, lock, known, clock, arg, now, mine, aborts, ghostVars>>

\* Mutant of RevokeVisit: a locked row is skipped (SKIP LOCKED), not waited for.
RevokeVisitSkip(r, t) ==
  /\ pc[r] \in Revoking
  /\ t \in todo[r]
  /\ todo' = [todo EXCEPT ![r] = @ \ {t}]
  /\ IF status[t] = "active" /\ lock[t] = None
     THEN /\ lock' = [lock EXCEPT ![t] = r]
          /\ mine' = [mine EXCEPT ![r] = @ \cup {t}]
     ELSE UNCHANGED <<lock, mine>>
  /\ UNCHANGED <<rowVars, known, clock, pc, arg, now, snapshot, aborts, ghostVars>>

\* The UPDATE reaches a row, waiting for its lock, and tests it again: a row
\* revoked or deleted meanwhile is passed over.
RevokeVisit(r, t) ==
  /\ pc[r] \in Revoking
  /\ t \in todo[r]
  /\ lock[t] = None
  /\ todo' = [todo EXCEPT ![r] = @ \ {t}]
  /\ IF status[t] = "active"
     THEN /\ lock' = [lock EXCEPT ![t] = r]
          /\ mine' = [mine EXCEPT ![r] = @ \cup {t}]
     ELSE UNCHANGED <<lock, mine>>
  /\ UNCHANGED <<rowVars, known, clock, pc, arg, now, snapshot, aborts, ghostVars>>

\* COMMIT; the request ends (401 for a replay, 200 for a logout).
RevokeCommit(r) ==
  /\ pc[r] \in Revoking
  /\ todo[r] = {}
  /\ status' = [t \in Tokens |-> IF t \in mine[r] THEN "revoked" ELSE status[t]]
  /\ Unlock(r)
  /\ Return(r)
  /\ replayed' = IF pc[r] = "revokeFamily"
                 THEN replayed \cup {fam[arg[r]]} ELSE replayed
  /\ loggedOut' = IF pc[r] = "revokeSubject"
                  THEN loggedOut \cup {fam[t] : t \in snapshot[r]} ELSE loggedOut
  /\ UNCHANGED <<fam, repl, expires, known, clock, aborts>>

-----------------------------------------------------------------------------
(* Failure of a transaction                                                *)

InTransaction == {"select", "rotate", "replay"} \cup Revoking

\* Dropping the sqlx transaction without commit rolls it back.
Rollback(r) ==
  /\ pc[r] \in InTransaction
  /\ Unlock(r)
  /\ Return(r)
  /\ UNCHANGED <<rowVars, known, clock, ghostVars>>

\* A statement fails, the RNG fails, or the request is timed out or dropped.
Abort(r) ==
  /\ aborts > 0
  /\ aborts' = aborts - 1
  /\ Rollback(r)

\* The rows r cannot go on without.
Needs(r) ==
  IF pc[r] = "select" /\ IsActive(r) THEN {arg[r]}
  ELSE IF pc[r] \in Revoking THEN todo[r]
  ELSE {}

Blocked(r) == Needs(r) # {} /\ \A t \in Needs(r) : lock[t] # None

\* PostgreSQL ends a cycle of waiting transactions by failing one of them.
DeadlockVictim(r) ==
  /\ \E S \in SUBSET Requests :
       /\ r \in S
       /\ \A q \in S : Blocked(q) /\ \A t \in Needs(q) : lock[t] \in S
  /\ Rollback(r)
  /\ UNCHANGED aborts

-----------------------------------------------------------------------------

\* What a request that has begun does next, failures of its choosing aside.
Progress(r) ==
  \/ LoginOk(r) \/ LoginUndo(r) \/ LoginLost(r)
  \/ SelectActive(r) \/ SelectNothing(r)
  \/ \E n \in Tokens : RotateCommit(r, n)
  \/ RefreshOk(r) \/ RefreshLost(r)
  \/ ReplayBegin(r)
  \/ \E t \in Tokens : RevokeVisit(r, t)
  \/ RevokeCommit(r)
  \/ DeadlockVictim(r)

Next ==
  \/ Tick
  \/ \E r \in Requests :
       \/ \E t \in Tokens : LoginInsert(r, t) \/ RefreshBegin(r, t)
       \/ LogoutBegin(r)
       \/ Progress(r)
       \/ Abort(r)

Spec == Init /\ [][Next]_vars

\* Every statement completes and every handler is polled to its end.
FairSpec == Spec /\ \A r \in Requests : WF_vars(Progress(r))

-----------------------------------------------------------------------------

\* refresh.rs:53-57, migration 100:3-6: rotation replaces a token, it never
\* forks a family.  However rotations, replays, logouts and failures overlap, a
\* family has at most one token that can still be rotated.
OneActivePerFamily ==
  \A t, u \in Tokens :
    (status[t] = "active" /\ status[u] = "active" /\ fam[t] = fam[u]) => t = u

\* refresh.rs:55-57: replaced_by records a chain: no two tokens have the same
\* replacement, a replacement is in the family of what it replaces, and the one
\* token that is still active is the end of the chain.
ChainLinear ==
  \A t \in Tokens : repl[t] # None =>
    /\ status[t] = "revoked"
    /\ fam[repl[t]] = fam[t]
    /\ \A u \in Tokens : repl[u] = repl[t] => u = t

\* A token is spent once: a committed revocation, with the replacement it
\* recorded, is never undone, overwritten or completed by a later transaction,
\* including one that had already read the row as active.
RevocationIsFinal ==
  [][\A t \in Tokens : status[t] \in {"revoked", "deleted"} =>
       status'[t] \in {"revoked", "deleted"} /\ repl'[t] = repl[t]]_vars

\* refresh.rs:95-103, handlers.rs:284-292: when a replay or a logout commits,
\* every token that was active when its UPDATE began is inactive, although some
\* of them were locked by other requests, rotated or rolled back meanwhile.
RevokesItsSnapshot ==
  [][\A r \in Requests : RevokeCommit(r) =>
       \A t \in snapshot[r] : status'[t] # "active"]_vars

\* refresh.rs:55: "Replaying any known inactive token revokes the rest of its
\* family": once a replay has committed, no token of the family is active.
ReplayKillsFamily == \A t \in Tokens : fam[t] \in replayed => status[t] # "active"

\* No rotation has its token locked while an UPDATE revokes: what replay_race
\* shows to be necessary.  Everything else may overlap: logins, several
\* revocations, refreshes before their SELECT, failures.
RotationsApart == \A r, q \in Requests : ~(pc[r] = "rotate" /\ pc[q] \in Revoking)

\* Once a logout has committed, no token descends from one that was active when
\* it began.
LogoutKillsTokens == \A t \in Tokens : fam[t] \in loggedOut => status[t] # "active"

\* handlers.rs:264: "Revoke every outstanding refresh token for the
\* authenticated subject".  The UPDATE can only miss the replacement of a rotation
\* that held its row meanwhile.  A refresh that has begun and not yet selected, a
\* login or another revocation beside the logout, and a token presented after it
\* leave nothing active.
LogoutIsComplete == []RotationsApart => []LogoutKillsTokens

-----------------------------------------------------------------------------
(* The inductive invariant behind OneActivePerFamily and ChainLinear.      *)

\* A row is locked by the rotation that will replace it or by the UPDATE that
\* will revoke it, and stays active as long as it is locked.
LocksGuardActive ==
  /\ \A r \in Requests : pc[r] = "rotate" =>
       arg[r] \in Tokens /\ lock[arg[r]] = r /\ status[arg[r]] = "active"
  /\ \A r \in Requests : \A t \in mine[r] :
       pc[r] \in Revoking /\ lock[t] = r /\ status[t] = "active"

\* Rotations work on tokens a client has; a login and a rotation that has not
\* answered own a row that no client has, each a different one, and a login's
\* row has not been replaced.
PrivateUntilIssued ==
  /\ \A t \in known : status[t] \in {"active", "revoked"}
  /\ \A r \in Requests : pc[r] \in {"select", "rotate", "replay", "revokeFamily"} =>
       arg[r] \in known
  /\ \A r \in Requests : pc[r] \in {"session", "respond"} =>
       /\ arg[r] \in Tokens \ known
       /\ status[arg[r]] \in {"active", "revoked"}
       /\ repl[arg[r]] = None
  /\ \A r, q \in Requests :
       (r # q /\ pc[r] \in {"session", "respond"} /\ pc[q] \in {"session", "respond"})
         => arg[r] # arg[q]

\* ChainLinear, with what keeps a later insertion from colliding with a
\* replacement recorded earlier.
ChainInv ==
  \A t \in Tokens : repl[t] # None =>
    /\ repl[t] \in Tokens
    /\ status[t] = "revoked"
    /\ status[repl[t]] # "free"
    /\ fam[repl[t]] = fam[t]
    /\ \A u \in Tokens : repl[u] = repl[t] => u = t

\* A family is named after a row that has existed, so a new login's family
\* meets no older row.
FamilyRooted == \A t \in Tokens : status[t] # "free" => status[fam[t]] # "free"

\* A row of a revoking UPDATE's snapshot is still ahead of it, is locked by it,
\* or is no longer active.
SnapshotAccounted ==
  \A r \in Requests : \A t \in snapshot[r] :
    /\ status[t] # "free"
    /\ t \in todo[r] \/ t \in mine[r] \/ status[t] # "active"

IndInv ==
  /\ TypeOK
  /\ LocksGuardActive
  /\ PrivateUntilIssued
  /\ OneActivePerFamily
  /\ ChainInv
  /\ FamilyRooted
  /\ SnapshotAccounted

-----------------------------------------------------------------------------

\* No request waits for ever: every lock wait ends, deadlocks between
\* overlapping revocations included.  (Once the bound on rows is used up a
\* rotation has nothing to insert.)
RequestsEnd ==
  \A r \in Requests :
    (pc[r] # "idle") ~> (pc[r] = "idle" \/ \A t \in Tokens : status[t] # "free")
=============================================================================
