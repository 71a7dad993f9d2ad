------------------------ MODULE RefreshTokensProofs -------------------------
(***************************************************************************)
(* Rotation never forks a token family, whatever the number of concurrent  *)
(* requests and tokens.  The argument: the row lock taken by SELECT ... FOR *)
(* UPDATE keeps the presented token active until the rotation that holds   *)
(* it commits, so the replacement it inserts takes the place of the only   *)
(* active token of the family; a token is presented only after a response  *)
(* has carried it, so rows that belong to unfinished logins and rotations  *)
(* cannot be rotated behind their backs.                                   *)
(***************************************************************************)
EXTENDS RefreshTokens, TLAPS

\* An empty table satisfies the invariant.
LEMMA InitIndInv == Init => IndInv
<1> SUFFICES ASSUME Init PROVE IndInv
  OBVIOUS
<1> USE RefreshTokensAssumption DEF Init
<1>1. TypeOK
  BY DEF TypeOK, Revoking
<1>2. LocksGuardActive /\ PrivateUntilIssued
  BY DEF LocksGuardActive, PrivateUntilIssued, Revoking
<1>3. OneActivePerFamily /\ ChainInv /\ FamilyRooted /\ SnapshotAccounted
  BY DEF OneActivePerFamily, ChainInv, FamilyRooted, SnapshotAccounted
<1> QED
  BY <1>1, <1>2, <1>3 DEF IndInv

\* A login's INSERT starts a family of its own.
LEMMA LoginInsertIndInv ==
  ASSUME IndInv, NEW r \in Requests, NEW t \in Tokens, LoginInsert(r, t)
  PROVE  IndInv'
<1> USE RefreshTokensAssumption DEF IndInv, TypeOK, Revoking
<1> USE DEF LoginInsert, ghostVars
<1>1. TypeOK'
  OBVIOUS
<1>2. LocksGuardActive'
  BY DEF LocksGuardActive
<1>3. PrivateUntilIssued'
  BY DEF PrivateUntilIssued, ChainInv
<1>4. OneActivePerFamily'
  BY DEF OneActivePerFamily, FamilyRooted
<1>5. ChainInv'
  BY DEF ChainInv
<1>6. FamilyRooted'
  BY DEF FamilyRooted
<1>7. SnapshotAccounted'
  BY DEF SnapshotAccounted
<1> QED
  BY <1>1, <1>2, <1>3, <1>4, <1>5, <1>6, <1>7

\* The response makes the login's token known.
LEMMA LoginOkIndInv ==
  ASSUME IndInv, NEW r \in Requests, LoginOk(r)
  PROVE  IndInv'
<1> USE RefreshTokensAssumption DEF IndInv, TypeOK, Revoking
<1> USE DEF LoginOk, Return, rowVars, ghostVars
<1>1. TypeOK'
  BY DEF PrivateUntilIssued
<1>2. LocksGuardActive'
  BY DEF LocksGuardActive
<1>3. PrivateUntilIssued'
  BY DEF PrivateUntilIssued
<1>4. OneActivePerFamily' /\ ChainInv' /\ FamilyRooted'
  BY DEF OneActivePerFamily, ChainInv, FamilyRooted
<1>5. SnapshotAccounted'
  BY DEF SnapshotAccounted
<1> QED
  BY <1>1, <1>2, <1>3, <1>4, <1>5

\* The compensating DELETE hits a row that no client and no lock holder has.
LEMMA LoginUndoIndInv ==
  ASSUME IndInv, NEW r \in Requests, LoginUndo(r)
  PROVE  IndInv'
<1> USE RefreshTokensAssumption DEF IndInv, TypeOK, Revoking
<1> USE DEF LoginUndo, Return, ghostVars
<1>1. TypeOK'
  <2>1. arg[r] \in Tokens /\ status[arg[r]] # "free"
    BY DEF PrivateUntilIssued
  <2>2. /\ status' \in [Tokens -> {"free", "active", "revoked", "deleted"}]
        /\ \A t \in Tokens : status'[t] = "free" <=> status[t] = "free"
    BY <2>1
  <2>3. /\ pc' \in [Requests -> {"idle", "session", "select", "replay", "rotate",
                                "respond"} \cup Revoking]
        /\ arg' \in [Requests -> Tokens \cup {None}] /\ now' \in [Requests -> 0..MaxClock]
    OBVIOUS
  <2>4. /\ todo' \in [Requests -> SUBSET Tokens] /\ mine' \in [Requests -> SUBSET Tokens]
        /\ snapshot' \in [Requests -> SUBSET Tokens]
    OBVIOUS
  <2> QED
    BY <2>2, <2>3, <2>4
<1>2. LocksGuardActive'
  BY DEF LocksGuardActive, PrivateUntilIssued
<1>3. PrivateUntilIssued'
  BY DEF PrivateUntilIssued
<1>4. OneActivePerFamily'
  BY DEF OneActivePerFamily, PrivateUntilIssued
<1>5. ChainInv'
  BY DEF ChainInv, PrivateUntilIssued
<1>6. FamilyRooted'
  BY DEF FamilyRooted, PrivateUntilIssued
<1>7. SnapshotAccounted'
  BY DEF SnapshotAccounted, PrivateUntilIssued
<1> QED
  BY <1>1, <1>2, <1>3, <1>4, <1>5, <1>6, <1>7

\* A lost login leaves its row behind.
LEMMA LoginLostIndInv ==
  ASSUME IndInv, NEW r \in Requests, LoginLost(r)
  PROVE  IndInv'
<1> USE RefreshTokensAssumption DEF IndInv, TypeOK, Revoking
<1> USE DEF LoginLost, Return, rowVars, ghostVars
<1>1. TypeOK'
  OBVIOUS
<1>2. LocksGuardActive'
  BY DEF LocksGuardActive
<1>3. PrivateUntilIssued'
  BY DEF PrivateUntilIssued
<1>4. OneActivePerFamily' /\ ChainInv' /\ FamilyRooted'
  BY DEF OneActivePerFamily, ChainInv, FamilyRooted
<1>5. SnapshotAccounted'
  BY DEF SnapshotAccounted
<1> QED
  BY <1>1, <1>2, <1>3, <1>4, <1>5

\* A refresh presents a known token.
LEMMA RefreshBeginIndInv ==
  ASSUME IndInv, NEW r \in Requests, NEW t \in Tokens, RefreshBegin(r, t)
  PROVE  IndInv'
<1> USE RefreshTokensAssumption DEF IndInv, TypeOK, Revoking
<1> USE DEF RefreshBegin, rowVars, ghostVars
<1>1. TypeOK'
  OBVIOUS
<1>2. LocksGuardActive'
  BY DEF LocksGuardActive
<1>3. PrivateUntilIssued'
  BY DEF PrivateUntilIssued
<1>4. OneActivePerFamily' /\ ChainInv' /\ FamilyRooted'
  BY DEF OneActivePerFamily, ChainInv, FamilyRooted
<1>5. SnapshotAccounted'
  BY DEF SnapshotAccounted
<1> QED
  BY <1>1, <1>2, <1>3, <1>4, <1>5

\* FOR UPDATE locks an active row that nobody has locked.
LEMMA SelectActiveIndInv ==
  ASSUME IndInv, NEW r \in Requests, SelectActive(r)
  PROVE  IndInv'
<1> USE RefreshTokensAssumption DEF IndInv, TypeOK, Revoking
<1> USE DEF SelectActive, LockRow, IsActive, rowVars, ghostVars
<1>1. TypeOK'
  BY DEF PrivateUntilIssued
<1>2. LocksGuardActive'
  BY DEF LocksGuardActive, PrivateUntilIssued
<1>3. PrivateUntilIssued'
  BY DEF PrivateUntilIssued
<1>4. OneActivePerFamily' /\ ChainInv' /\ FamilyRooted'
  BY DEF OneActivePerFamily, ChainInv, FamilyRooted
<1>5. SnapshotAccounted'
  BY DEF SnapshotAccounted
<1> QED
  BY <1>1, <1>2, <1>3, <1>4, <1>5

\* An inactive token changes no row yet.
LEMMA SelectNothingIndInv ==
  ASSUME IndInv, NEW r \in Requests, SelectNothing(r)
  PROVE  IndInv'
<1> USE RefreshTokensAssumption DEF IndInv, TypeOK, Revoking
<1> USE DEF SelectNothing, rowVars, ghostVars
<1>1. TypeOK'
  OBVIOUS
<1>2. LocksGuardActive'
  BY DEF LocksGuardActive
<1>3. PrivateUntilIssued'
  BY DEF PrivateUntilIssued
<1>4. OneActivePerFamily' /\ ChainInv' /\ FamilyRooted'
  BY DEF OneActivePerFamily, ChainInv, FamilyRooted
<1>5. SnapshotAccounted'
  BY DEF SnapshotAccounted
<1> QED
  BY <1>1, <1>2, <1>3, <1>4, <1>5

\* The replacement takes the place of the family's only active token.
LEMMA RotateCommitIndInv ==
  ASSUME IndInv, NEW r \in Requests, NEW n \in Tokens, RotateCommit(r, n)
  PROVE  IndInv'
<1> USE RefreshTokensAssumption DEF IndInv, TypeOK, Revoking
<1> USE DEF RotateCommit, Unlock, ghostVars
<1>1. TypeOK'
  <2>1. /\ arg[r] \in Tokens /\ status[arg[r]] = "active" /\ arg[r] # n
        /\ fam[arg[r]] \in Tokens /\ now[r] + Ttl \in Nat
    BY DEF LocksGuardActive
  <2>2. /\ status' \in [Tokens -> {"free", "active", "revoked", "deleted"}]
        /\ fam' \in [Tokens -> Tokens \cup {None}]
        /\ repl' \in [Tokens -> Tokens \cup {None}]
    BY <2>1
  <2>3. \A t \in Tokens : fam'[t] = None <=> status'[t] = "free"
    BY <2>1
  <2>4. expires' \in [Tokens -> Nat]
    BY <2>1
  <2>5. lock' \in [Tokens -> Requests \cup {None}]
    OBVIOUS
  <2>6. /\ pc' \in [Requests -> {"idle", "session", "select", "replay", "rotate",
                                 "respond"} \cup Revoking]
        /\ arg' \in [Requests -> Tokens \cup {None}]
    OBVIOUS
  <2>7. UNCHANGED <<known, clock, now, todo, mine, snapshot, aborts, replayed, loggedOut>>
    OBVIOUS
  <2> QED
    BY <2>2, <2>3, <2>4, <2>5, <2>6, <2>7
<1>2. LocksGuardActive'
  BY DEF LocksGuardActive
<1>3. PrivateUntilIssued'
  <2>1. /\ arg[r] \in known /\ arg[r] \in Tokens /\ status[arg[r]] = "active" /\ arg[r] # n
        /\ n \notin known /\ known' = known /\ repl[n] = None
    BY DEF PrivateUntilIssued, LocksGuardActive, ChainInv
  <2>2. /\ \A t \in Tokens : status'[t] = IF t = n THEN "active"
                                       ELSE IF t = arg[r] THEN "revoked" ELSE status[t]
        /\ \A t \in Tokens : t # arg[r] => repl'[t] = repl[t]
    BY <2>1
  <2>3. /\ pc'[r] = "respond" /\ arg'[r] = n
        /\ \A q \in Requests : q # r => pc'[q] = pc[q] /\ arg'[q] = arg[q]
    OBVIOUS
  <2>4. \A q \in Requests : q # r /\ pc[q] \in {"session", "respond"} =>
          arg[q] \in Tokens \ known /\ arg[q] # n /\ arg[q] # arg[r]
    BY <2>1 DEF PrivateUntilIssued
  <2>5. \A t \in known' : status'[t] \in {"active", "revoked"}
    BY <2>1, <2>2 DEF PrivateUntilIssued
  <2>6. \A q \in Requests : pc'[q] \in {"select", "rotate", "replay", "revokeFamily"} =>
          arg'[q] \in known'
    BY <2>1, <2>3 DEF PrivateUntilIssued
  <2>7. ASSUME NEW q \in Requests, pc'[q] \in {"session", "respond"}
        PROVE  /\ arg'[q] \in Tokens \ known'
               /\ status'[arg'[q]] \in {"active", "revoked"}
               /\ repl'[arg'[q]] = None
    <3>1. CASE q = r
      BY <2>1, <2>2, <2>3, <3>1
    <3>2. CASE q # r
      BY <2>1, <2>2, <2>3, <2>4, <2>7, <3>2 DEF PrivateUntilIssued
    <3> QED
      BY <3>1, <3>2
  <2>8. \A p, q \in Requests :
          (p # q /\ pc'[p] \in {"session", "respond"} /\ pc'[q] \in {"session", "respond"})
            => arg'[p] # arg'[q]
    BY <2>3, <2>4 DEF PrivateUntilIssued
  <2> QED
    BY <2>5, <2>6, <2>7, <2>8 DEF PrivateUntilIssued
<1>4. OneActivePerFamily'
  BY DEF OneActivePerFamily, LocksGuardActive
<1>5. ChainInv'
  BY DEF ChainInv, LocksGuardActive
<1>6. FamilyRooted'
  BY DEF FamilyRooted, LocksGuardActive
<1>7. SnapshotAccounted'
  BY DEF SnapshotAccounted, LocksGuardActive
<1> QED
  BY <1>1, <1>2, <1>3, <1>4, <1>5, <1>6, <1>7

\* The response makes the replacement known.
LEMMA RefreshOkIndInv ==
  ASSUME IndInv, NEW r \in Requests, RefreshOk(r)
  PROVE  IndInv'
<1> USE RefreshTokensAssumption DEF IndInv, TypeOK, Revoking
<1> USE DEF RefreshOk, Return, rowVars, ghostVars
<1>1. TypeOK'
  BY DEF PrivateUntilIssued
<1>2. LocksGuardActive'
  BY DEF LocksGuardActive
<1>3. PrivateUntilIssued'
  BY DEF PrivateUntilIssued
<1>4. OneActivePerFamily' /\ ChainInv' /\ FamilyRooted'
  BY DEF OneActivePerFamily, ChainInv, FamilyRooted
<1>5. SnapshotAccounted'
  BY DEF SnapshotAccounted
<1> QED
  BY <1>1, <1>2, <1>3, <1>4, <1>5

\* A lost response leaves the replacement unknown.
LEMMA RefreshLostIndInv ==
  ASSUME IndInv, NEW r \in Requests, RefreshLost(r)
  PROVE  IndInv'
<1> USE RefreshTokensAssumption DEF IndInv, TypeOK, Revoking
<1> USE DEF RefreshLost, Return, rowVars, ghostVars
<1>1. TypeOK'
  OBVIOUS
<1>2. LocksGuardActive'
  BY DEF LocksGuardActive
<1>3. PrivateUntilIssued'
  BY DEF PrivateUntilIssued
<1>4. OneActivePerFamily' /\ ChainInv' /\ FamilyRooted'
  BY DEF OneActivePerFamily, ChainInv, FamilyRooted
<1>5. SnapshotAccounted'
  BY DEF SnapshotAccounted
<1> QED
  BY <1>1, <1>2, <1>3, <1>4, <1>5

\* The family UPDATE takes its snapshot.
LEMMA ReplayBeginIndInv ==
  ASSUME IndInv, NEW r \in Requests, ReplayBegin(r)
  PROVE  IndInv'
<1> USE RefreshTokensAssumption DEF IndInv, TypeOK, Revoking
<1> USE DEF ReplayBegin, RevokeBegin, ActiveIn, Family, rowVars, ghostVars
<1>1. TypeOK'
  OBVIOUS
<1>2. LocksGuardActive'
  BY DEF LocksGuardActive
<1>3. PrivateUntilIssued'
  BY DEF PrivateUntilIssued
<1>4. OneActivePerFamily' /\ ChainInv' /\ FamilyRooted'
  BY DEF OneActivePerFamily, ChainInv, FamilyRooted
<1>5. SnapshotAccounted'
  BY DEF SnapshotAccounted
<1> QED
  BY <1>1, <1>2, <1>3, <1>4, <1>5

\* The subject UPDATE takes its snapshot.
LEMMA LogoutBeginIndInv ==
  ASSUME IndInv, NEW r \in Requests, LogoutBegin(r)
  PROVE  IndInv'
<1> USE RefreshTokensAssumption DEF IndInv, TypeOK, Revoking
<1> USE DEF LogoutBegin, RevokeBegin, ActiveIn, rowVars, ghostVars
<1>1. TypeOK'
  OBVIOUS
<1>2. LocksGuardActive'
  BY DEF LocksGuardActive
<1>3. PrivateUntilIssued'
  BY DEF PrivateUntilIssued
<1>4. OneActivePerFamily' /\ ChainInv' /\ FamilyRooted'
  BY DEF OneActivePerFamily, ChainInv, FamilyRooted
<1>5. SnapshotAccounted'
  BY DEF SnapshotAccounted
<1> QED
  BY <1>1, <1>2, <1>3, <1>4, <1>5

\* The UPDATE locks a row only if it is still active.
LEMMA RevokeVisitIndInv ==
  ASSUME IndInv, NEW r \in Requests, NEW t \in Tokens, RevokeVisit(r, t)
  PROVE  IndInv'
<1> USE RefreshTokensAssumption DEF IndInv, TypeOK, Revoking
<1> USE DEF RevokeVisit, rowVars, ghostVars
<1>1. TypeOK'
  OBVIOUS
<1>2. LocksGuardActive'
  BY DEF LocksGuardActive
<1>3. PrivateUntilIssued'
  BY DEF PrivateUntilIssued
<1>4. OneActivePerFamily' /\ ChainInv' /\ FamilyRooted'
  BY DEF OneActivePerFamily, ChainInv, FamilyRooted
<1>5. SnapshotAccounted'
  BY DEF SnapshotAccounted
<1> QED
  BY <1>1, <1>2, <1>3, <1>4, <1>5

\* A committed UPDATE revokes the rows it has locked and no other.
LEMMA RevokeCommitIndInv ==
  ASSUME IndInv, NEW r \in Requests, RevokeCommit(r)
  PROVE  IndInv'
<1> USE RefreshTokensAssumption DEF IndInv, TypeOK, Revoking
<1> USE DEF RevokeCommit, Unlock, Return
<1>1. TypeOK'
  BY DEF LocksGuardActive, PrivateUntilIssued, SnapshotAccounted
<1>2. LocksGuardActive'
  BY DEF LocksGuardActive
<1>3. PrivateUntilIssued'
  BY DEF PrivateUntilIssued, LocksGuardActive
<1>4. OneActivePerFamily'
  BY DEF OneActivePerFamily, LocksGuardActive
<1>5. ChainInv'
  BY DEF ChainInv, LocksGuardActive
<1>6. FamilyRooted'
  BY DEF FamilyRooted, LocksGuardActive
<1>7. SnapshotAccounted'
  BY DEF SnapshotAccounted, LocksGuardActive
<1> QED
  BY <1>1, <1>2, <1>3, <1>4, <1>5, <1>6, <1>7

\* A rollback changes no row and frees only its own locks.
LEMMA RollbackIndInv ==
  ASSUME IndInv, NEW r \in Requests, Rollback(r), aborts' \in 0..MaxAborts
  PROVE  IndInv'
<1> USE RefreshTokensAssumption DEF IndInv, TypeOK, Revoking
<1> USE DEF Rollback, Unlock, Return, InTransaction, rowVars, ghostVars
<1>1. TypeOK'
  OBVIOUS
<1>2. LocksGuardActive'
  BY DEF LocksGuardActive
<1>3. PrivateUntilIssued'
  BY DEF PrivateUntilIssued
<1>4. OneActivePerFamily' /\ ChainInv' /\ FamilyRooted'
  BY DEF OneActivePerFamily, ChainInv, FamilyRooted
<1>5. SnapshotAccounted'
  BY DEF SnapshotAccounted
<1> QED
  BY <1>1, <1>2, <1>3, <1>4, <1>5

\* The inductive step, one case per action.
LEMMA NextIndInv == IndInv /\ [Next]_vars => IndInv'
<1> SUFFICES ASSUME IndInv, [Next]_vars PROVE IndInv'
  OBVIOUS
<1>1. CASE Tick
  BY <1>1, RefreshTokensAssumption
     DEF Tick, IndInv, TypeOK, LocksGuardActive, PrivateUntilIssued, ChainInv,
         OneActivePerFamily, FamilyRooted, SnapshotAccounted, rowVars, reqVars,
         ghostVars
<1>2. ASSUME NEW r \in Requests, NEW t \in Tokens, LoginInsert(r, t) PROVE IndInv'
  BY <1>2, LoginInsertIndInv
<1>3. ASSUME NEW r \in Requests, NEW t \in Tokens, RefreshBegin(r, t) PROVE IndInv'
  BY <1>3, RefreshBeginIndInv
<1>4. ASSUME NEW r \in Requests, LogoutBegin(r) PROVE IndInv'
  BY <1>4, LogoutBeginIndInv
<1>5. ASSUME NEW r \in Requests, LoginOk(r) \/ LoginUndo(r) \/ LoginLost(r)
      PROVE  IndInv'
  BY <1>5, LoginOkIndInv, LoginUndoIndInv, LoginLostIndInv
<1>6. ASSUME NEW r \in Requests, SelectActive(r) \/ SelectNothing(r) PROVE IndInv'
  BY <1>6, SelectActiveIndInv, SelectNothingIndInv
<1>7. ASSUME NEW r \in Requests, NEW n \in Tokens, RotateCommit(r, n) PROVE IndInv'
  BY <1>7, RotateCommitIndInv
<1>8. ASSUME NEW r \in Requests, RefreshOk(r) \/ RefreshLost(r) PROVE IndInv'
  BY <1>8, RefreshOkIndInv, RefreshLostIndInv
<1>9. ASSUME NEW r \in Requests, ReplayBegin(r) PROVE IndInv'
  BY <1>9, ReplayBeginIndInv
<1>10. ASSUME NEW r \in Requests, NEW t \in Tokens, RevokeVisit(r, t) PROVE IndInv'
  BY <1>10, RevokeVisitIndInv
<1>11. ASSUME NEW r \in Requests, RevokeCommit(r) PROVE IndInv'
  BY <1>11, RevokeCommitIndInv
<1>12. ASSUME NEW r \in Requests, Abort(r) \/ DeadlockVictim(r) PROVE IndInv'
  <2>1. Rollback(r) /\ aborts' \in 0..MaxAborts
    BY <1>12, RefreshTokensAssumption DEF Abort, DeadlockVictim, IndInv, TypeOK
  <2> QED
    BY <2>1, RollbackIndInv
<1>13. CASE UNCHANGED vars
  BY <1>13 DEF vars, IndInv, TypeOK, LocksGuardActive, PrivateUntilIssued, ChainInv,
               OneActivePerFamily, FamilyRooted, SnapshotAccounted, rowVars,
               reqVars, ghostVars
<1> QED
  BY <1>1, <1>2, <1>3, <1>4, <1>5, <1>6, <1>7, <1>8, <1>9, <1>10, <1>11, <1>12,
     <1>13 DEF Next, Progress

\* Every reachable state satisfies the inductive invariant.
THEOREM IndInvHolds == Spec => []IndInv
<1>1. Init => IndInv
  BY InitIndInv
<1>2. IndInv /\ [Next]_vars => IndInv'
  BY NextIndInv
<1> QED
  BY <1>1, <1>2, PTL DEF Spec

\* The table, the locks and the requests' locals are well typed, and a row has a
\* family exactly when it exists.
THEOREM TypeCorrect == Spec => []TypeOK
<1>1. IndInv => TypeOK
  BY DEF IndInv
<1> QED
  BY <1>1, IndInvHolds, PTL

\* Rotation never leaves two usable tokens in a family: any number of
\* concurrent refreshes of the same token, replays, logouts and failures.
THEOREM OneActivePerFamilyHolds == Spec => []OneActivePerFamily
<1>1. IndInv => OneActivePerFamily
  BY DEF IndInv
<1> QED
  BY <1>1, IndInvHolds, PTL

\* replaced_by is a chain that ends in the family's active token.
THEOREM ChainLinearHolds == Spec => []ChainLinear
<1>1. IndInv => ChainLinear
  BY DEF IndInv, ChainInv, ChainLinear
<1> QED
  BY <1>1, IndInvHolds, PTL

\* A committed revocation is never undone or given another replacement.
THEOREM RevocationIsFinalHolds == Spec => RevocationIsFinal
<1> DEFINE Final == \A t \in Tokens : status[t] \in {"revoked", "deleted"} =>
                      status'[t] \in {"revoked", "deleted"} /\ repl'[t] = repl[t]
<1>1. IndInv /\ [Next]_vars => [Final]_vars
  <2> SUFFICES ASSUME IndInv, Next PROVE Final
    OBVIOUS
  <2> USE DEF IndInv, TypeOK
  <2>1. ASSUME NEW r \in Requests, NEW n \in Tokens, RotateCommit(r, n) PROVE Final
    BY <2>1 DEF RotateCommit, LocksGuardActive
  <2>2. ASSUME NEW r \in Requests, NEW t \in Tokens, LoginInsert(r, t) PROVE Final
    BY <2>2 DEF LoginInsert
  <2>3. ASSUME NEW r \in Requests, LoginUndo(r) PROVE Final
    BY <2>3 DEF LoginUndo, PrivateUntilIssued
  <2>4. ASSUME NEW r \in Requests, RevokeCommit(r) PROVE Final
    BY <2>4 DEF RevokeCommit, LocksGuardActive
  <2>5. CASE UNCHANGED <<status, repl>>
    BY <2>5
  <2>6. \/ UNCHANGED <<status, repl>>
        \/ \E r \in Requests :
             \/ \E n \in Tokens : RotateCommit(r, n) \/ LoginInsert(r, n)
             \/ LoginUndo(r) \/ RevokeCommit(r)
    BY DEF Next, Progress, Tick, LoginOk, LoginLost, RefreshBegin, SelectActive,
           SelectNothing, RefreshOk, RefreshLost, ReplayBegin, LogoutBegin,
           RevokeVisit, Abort, DeadlockVictim, Rollback, rowVars
  <2> QED
    BY <2>1, <2>2, <2>3, <2>4, <2>5, <2>6
<1> QED
  BY <1>1, IndInvHolds, PTL DEF Spec, RevocationIsFinal

\* A replay or a logout that commits has revoked everything that was active when
\* its UPDATE began.
THEOREM RevokesItsSnapshotHolds == Spec => RevokesItsSnapshot
<1> DEFINE Covers == \A r \in Requests : RevokeCommit(r) =>
                       \A t \in snapshot[r] : status'[t] # "active"
<1>1. IndInv => Covers
  BY DEF IndInv, TypeOK, SnapshotAccounted, RevokeCommit
<1> QED
  BY <1>1, IndInvHolds, PTL DEF Spec, RevokesItsSnapshot

-----------------------------------------------------------------------------
(* Revocation that no rotation overlaps                                    *)

\* The families that a replay or a logout has revoked.
Killed == replayed \cup loggedOut

\* A revoked family is one of an existing row, so no login starts it again.
KilledRooted == \A f \in Killed : f \in Tokens /\ status[f] # "free"

\* While an UPDATE runs, no active row of the families it revokes has escaped
\* its snapshot.
SnapshotComplete ==
  /\ \A r \in Requests : pc[r] = "revokeFamily" =>
       \A t \in Tokens : status[t] = "active" /\ fam[t] = fam[arg[r]] => t \in snapshot[r]
  /\ \A r \in Requests : pc[r] = "revokeSubject" =>
       \A t \in Tokens : \A u \in snapshot[r] :
         status[t] = "active" /\ fam[t] = fam[u] => t \in snapshot[r]

KillInv ==
  /\ KilledRooted
  /\ SnapshotComplete
  /\ ReplayKillsFamily
  /\ LogoutKillsTokens

\* A login starts a family that no snapshot and no revocation knows of.
LEMMA LoginInsertKillInv ==
  ASSUME IndInv, KillInv, NEW r \in Requests, NEW t \in Tokens, LoginInsert(r, t)
  PROVE  KillInv'
<1> USE RefreshTokensAssumption DEF IndInv, TypeOK, Revoking, KillInv
<1> USE DEF LoginInsert, ghostVars
<1>1. KilledRooted'
  BY DEF KilledRooted, Killed
<1>2. SnapshotComplete'
  BY DEF SnapshotComplete, FamilyRooted, SnapshotAccounted, PrivateUntilIssued
<1>3. ReplayKillsFamily' /\ LogoutKillsTokens'
  BY DEF ReplayKillsFamily, LogoutKillsTokens, KilledRooted, Killed
<1> QED
  BY <1>1, <1>2, <1>3

\* A rotation that commits has found its token active, so its family is not
\* revoked; no UPDATE is under way.
LEMMA RotateCommitKillInv ==
  ASSUME IndInv, KillInv, RotationsApart, NEW r \in Requests, NEW n \in Tokens,
         RotateCommit(r, n)
  PROVE  KillInv'
<1> USE RefreshTokensAssumption DEF IndInv, TypeOK, Revoking, KillInv
<1> USE DEF RotateCommit, ghostVars
<1>1. KilledRooted'
  BY DEF KilledRooted, Killed, LocksGuardActive
<1>2. SnapshotComplete'
  BY DEF SnapshotComplete, RotationsApart
<1>3. ReplayKillsFamily' /\ LogoutKillsTokens'
  BY DEF ReplayKillsFamily, LogoutKillsTokens, LocksGuardActive
<1> QED
  BY <1>1, <1>2, <1>3

\* A compensating DELETE only takes a row away.
LEMMA LoginUndoKillInv ==
  ASSUME IndInv, KillInv, NEW r \in Requests, LoginUndo(r)
  PROVE  KillInv'
<1> USE RefreshTokensAssumption DEF IndInv, TypeOK, Revoking, KillInv
<1> USE DEF LoginUndo, Return, ghostVars
<1>1. KilledRooted'
  BY DEF KilledRooted, Killed, PrivateUntilIssued
<1>2. SnapshotComplete'
  BY DEF SnapshotComplete, PrivateUntilIssued
<1>3. ReplayKillsFamily' /\ LogoutKillsTokens'
  BY DEF ReplayKillsFamily, LogoutKillsTokens, PrivateUntilIssued
<1> QED
  BY <1>1, <1>2, <1>3

\* An UPDATE begins with every active row of what it revokes.
LEMMA RevokeBeginKillInv ==
  ASSUME IndInv, KillInv, NEW r \in Requests, ReplayBegin(r) \/ LogoutBegin(r)
  PROVE  KillInv'
<1> USE RefreshTokensAssumption DEF IndInv, TypeOK, Revoking, KillInv
<1> USE DEF ReplayBegin, LogoutBegin, RevokeBegin, ActiveIn, rowVars, ghostVars
<1>1. KilledRooted'
  BY DEF KilledRooted, Killed
<1>2. SnapshotComplete'
  <2>1. CASE ReplayBegin(r)
    BY <2>1 DEF SnapshotComplete, Family
  <2>2. CASE LogoutBegin(r)
    BY <2>2 DEF SnapshotComplete
  <2> QED
    BY <2>1, <2>2
<1>3. ReplayKillsFamily' /\ LogoutKillsTokens'
  BY DEF ReplayKillsFamily, LogoutKillsTokens
<1> QED
  BY <1>1, <1>2, <1>3

\* A committed UPDATE has revoked its snapshot, which was complete.
LEMMA RevokeCommitKillInv ==
  ASSUME IndInv, KillInv, NEW r \in Requests, RevokeCommit(r)
  PROVE  KillInv'
<1> USE RefreshTokensAssumption DEF IndInv, TypeOK, Revoking, KillInv
<1>1. /\ pc[r] \in Revoking /\ todo[r] = {}
      /\ status' = [t \in Tokens |-> IF t \in mine[r] THEN "revoked" ELSE status[t]]
      /\ pc' = [pc EXCEPT ![r] = "idle"] /\ snapshot' = [snapshot EXCEPT ![r] = {}]
      /\ arg' = [arg EXCEPT ![r] = None] /\ fam' = fam
      /\ replayed' = IF pc[r] = "revokeFamily"
                     THEN replayed \cup {fam[arg[r]]} ELSE replayed
      /\ loggedOut' = IF pc[r] = "revokeSubject"
                      THEN loggedOut \cup {fam[t] : t \in snapshot[r]} ELSE loggedOut
  BY DEF RevokeCommit, Return
<1>2. \A t \in Tokens : /\ status'[t] = "active" => status[t] = "active"
                        /\ status[t] # "free" => status'[t] # "free"
                        /\ t \in snapshot[r] => status'[t] # "active"
  BY <1>1 DEF SnapshotAccounted
<1>3. KilledRooted'
  <2>1. pc[r] = "revokeFamily" => fam[arg[r]] \in Tokens /\ status[fam[arg[r]]] # "free"
    BY DEF PrivateUntilIssued, FamilyRooted
  <2>2. \A t \in snapshot[r] : fam[t] \in Tokens /\ status[fam[t]] # "free"
    BY DEF SnapshotAccounted, FamilyRooted
  <2>3. \A f \in Killed' : f \in Tokens /\ status[f] # "free"
    BY <1>1, <2>1, <2>2 DEF KilledRooted, Killed
  <2> QED
    BY <1>2, <2>3 DEF KilledRooted
<1>4. SnapshotComplete'
  BY <1>1, <1>2 DEF SnapshotComplete
<1>5. ReplayKillsFamily'
  BY <1>1, <1>2 DEF ReplayKillsFamily, SnapshotComplete
<1>6. LogoutKillsTokens'
  BY <1>1, <1>2 DEF LogoutKillsTokens, SnapshotComplete
<1> QED
  BY <1>3, <1>4, <1>5, <1>6

\* Every other step leaves the rows alone, and no UPDATE begins or commits.
LEMMA OtherKillInv ==
  ASSUME IndInv, KillInv, UNCHANGED <<status, fam, replayed, loggedOut>>,
         \A r \in Requests :
           \/ pc'[r] \notin Revoking
           \/ pc'[r] = pc[r] /\ arg'[r] = arg[r] /\ snapshot'[r] = snapshot[r]
  PROVE  KillInv'
<1> USE DEF KillInv
<1>1. KilledRooted' /\ ReplayKillsFamily' /\ LogoutKillsTokens'
  BY DEF KilledRooted, Killed, ReplayKillsFamily, LogoutKillsTokens
<1>2. SnapshotComplete'
  BY DEF SnapshotComplete, Revoking
<1> QED
  BY <1>1, <1>2

\* The inductive step, given that no rotation overlaps a revocation.
LEMMA NextKillInv ==
  ASSUME IndInv, KillInv, RotationsApart, [Next]_vars
  PROVE  KillInv'
<1> DEFINE Untouched ==
      /\ UNCHANGED <<status, fam, replayed, loggedOut>>
      /\ \A r \in Requests :
           \/ pc'[r] \notin Revoking
           \/ pc'[r] = pc[r] /\ arg'[r] = arg[r] /\ snapshot'[r] = snapshot[r]
<1>1. CASE Untouched
  BY <1>1, OtherKillInv
<1>2. ASSUME NEW r \in Requests, NEW t \in Tokens, LoginInsert(r, t) PROVE KillInv'
  BY <1>2, LoginInsertKillInv
<1>3. ASSUME NEW r \in Requests, NEW n \in Tokens, RotateCommit(r, n) PROVE KillInv'
  BY <1>3, RotateCommitKillInv
<1>4. ASSUME NEW r \in Requests, LoginUndo(r) PROVE KillInv'
  BY <1>4, LoginUndoKillInv
<1>5. ASSUME NEW r \in Requests, ReplayBegin(r) \/ LogoutBegin(r) PROVE KillInv'
  BY <1>5, RevokeBeginKillInv
<1>6. ASSUME NEW r \in Requests, RevokeCommit(r) PROVE KillInv'
  BY <1>6, RevokeCommitKillInv
<1>7. CASE Tick \/ UNCHANGED vars
  <2>1. UNCHANGED <<status, fam, replayed, loggedOut, pc, arg, snapshot>>
    BY <1>7 DEF Tick, vars, rowVars, reqVars, ghostVars
  <2> QED
    BY <1>1, <2>1
<1>8. ASSUME NEW r \in Requests,
             \/ \E t \in Tokens : RefreshBegin(r, t)
             \/ LoginOk(r) \/ LoginLost(r) \/ RefreshOk(r) \/ RefreshLost(r)
             \/ SelectActive(r) \/ SelectNothing(r)
             \/ Abort(r) \/ DeadlockVictim(r)
      PROVE  KillInv'
  <2>1. /\ UNCHANGED <<status, fam, replayed, loggedOut>>
        /\ \E to \in {"idle", "select", "rotate", "replay"} : pc' = [pc EXCEPT ![r] = to]
    BY <1>8 DEF RefreshBegin, LoginOk, LoginLost, RefreshOk, RefreshLost, SelectActive,
                SelectNothing, Abort, DeadlockVictim, Rollback, Return, rowVars, ghostVars
  <2>2. \A q \in Requests : q # r => arg'[q] = arg[q] /\ snapshot'[q] = snapshot[q]
    BY <1>8 DEF RefreshBegin, LoginOk, LoginLost, RefreshOk, RefreshLost, SelectActive,
                SelectNothing, Abort, DeadlockVictim, Rollback, Return, IndInv, TypeOK
  <2>3. pc \in [Requests -> {"idle", "session", "select", "replay", "rotate",
                             "respond"} \cup Revoking]
    BY DEF IndInv, TypeOK
  <2> QED
    BY <1>1, <2>1, <2>2, <2>3 DEF Revoking
<1>9. ASSUME NEW r \in Requests, NEW t \in Tokens, RevokeVisit(r, t) PROVE KillInv'
  <2>1. UNCHANGED <<status, fam, replayed, loggedOut, pc, arg, snapshot>>
    BY <1>9 DEF RevokeVisit, rowVars, ghostVars
  <2> QED
    BY <1>1, <2>1
<1> QED
  BY <1>2, <1>3, <1>4, <1>5, <1>6, <1>7, <1>8, <1>9 DEF Next, Progress

\* refresh.rs:55: "Replaying any known inactive token revokes the rest of its
\* family", for ever, unless a rotation held its row while the UPDATE ran: that
\* overlap is the only way a token of the family can survive.
THEOREM ReplayKillsFamilyHolds == Spec /\ []RotationsApart => []ReplayKillsFamily
<1>1. Init => KillInv
  BY DEF Init, KillInv, KilledRooted, Killed, SnapshotComplete, ReplayKillsFamily,
         LogoutKillsTokens
<1>2. IndInv /\ KillInv /\ RotationsApart /\ [Next]_vars => KillInv'
  BY NextKillInv
<1>3. KillInv => ReplayKillsFamily
  BY DEF KillInv
<1> QED
  BY <1>1, <1>2, <1>3, IndInvHolds, PTL DEF Spec

\* handlers.rs:264: a logout leaves no descendant of a token that was active
\* when it began, under the same condition.
THEOREM LogoutIsCompleteHolds == Spec => LogoutIsComplete
<1>1. Init => KillInv
  BY DEF Init, KillInv, KilledRooted, Killed, SnapshotComplete, ReplayKillsFamily,
         LogoutKillsTokens
<1>2. IndInv /\ KillInv /\ RotationsApart /\ [Next]_vars => KillInv'
  BY NextKillInv
<1>3. KillInv => LogoutKillsTokens
  BY DEF KillInv
<1> QED
  BY <1>1, <1>2, <1>3, IndInvHolds, PTL DEF Spec, LogoutIsComplete

-----------------------------------------------------------------------------
(* Expiry                                                                  *)

\* handlers.rs:237: now is taken before the transaction waits for the row lock, and
\* expiry is judged against it.  A rotation all the same only replaces a token that
\* was valid when its request arrived, and counts the replacement's lifetime from
\* then.
RotatesUnexpired ==
  [][\A t \in Tokens : repl'[t] # repl[t] =>
       \E r \in Requests : /\ arg[r] = t /\ now[r] < expires[t]
                           /\ expires'[repl'[t]] = now[r] + Ttl]_vars

\* No wait for a lock gives a token more than its lifetime.
LifetimeBounded == \A t \in Tokens : status[t] # "free" => expires[t] <= clock + Ttl

ExpiryInv ==
  /\ LifetimeBounded
  /\ \A r \in Requests : now[r] <= clock
  /\ \A r \in Requests : pc[r] = "rotate" => now[r] < expires[arg[r]]

\* A step that writes no expiry: requests arrive, move on and end, time passes.
LEMMA ExpiryKept ==
  ASSUME IndInv, ExpiryInv, UNCHANGED expires, clock' \in Nat, clock <= clock',
         \A t \in Tokens : status'[t] # "free" => status[t] # "free",
         \A r \in Requests : now'[r] \in {now[r], 0, clock},
         \A r \in Requests : pc'[r] = "rotate" =>
           /\ arg'[r] = arg[r] /\ now'[r] = now[r]
           /\ pc[r] = "rotate" \/ now[r] < expires[arg[r]]
  PROVE  ExpiryInv'
<1>1. clock \in Nat /\ Ttl \in Nat /\ expires \in [Tokens -> Nat] /\ now \in [Requests -> Nat]
  BY RefreshTokensAssumption DEF IndInv, TypeOK
<1>2. ASSUME NEW t \in Tokens, status'[t] # "free" PROVE expires'[t] <= clock' + Ttl
  <2>1. expires[t] <= clock + Ttl
    BY <1>2 DEF ExpiryInv, LifetimeBounded
  <2> QED
    BY <1>1, <2>1
<1>3. ASSUME NEW r \in Requests PROVE now'[r] <= clock'
  <2>1. now[r] <= clock /\ now[r] \in Nat
    BY <1>1 DEF ExpiryInv
  <2> QED
    BY <1>1, <2>1
<1>4. ASSUME NEW r \in Requests, pc'[r] = "rotate" PROVE now'[r] < expires'[arg'[r]]
  BY <1>4 DEF ExpiryInv
<1> QED
  BY <1>2, <1>3, <1>4 DEF ExpiryInv, LifetimeBounded

\* A new row: it expires Ttl after a moment that has passed.  Rows that a rotation has
\* locked are not new.
LEMMA ExpiryOfNewRow ==
  ASSUME IndInv, ExpiryInv, NEW n \in Tokens, status[n] = "free", NEW m \in Nat, m <= clock,
         expires' = [expires EXCEPT ![n] = m + Ttl], UNCHANGED <<clock, now>>,
         \A t \in Tokens \ {n} : status'[t] # "free" => status[t] # "free",
         \A r \in Requests : pc'[r] = "rotate" => pc[r] = "rotate" /\ arg'[r] = arg[r]
  PROVE  ExpiryInv'
<1>1. clock \in Nat /\ Ttl \in Nat /\ expires \in [Tokens -> Nat] /\ now \in [Requests -> Nat]
  BY RefreshTokensAssumption DEF IndInv, TypeOK
<1>2. expires'[n] = m + Ttl /\ \A t \in Tokens \ {n} : expires'[t] = expires[t]
  BY <1>1
<1>3. m + Ttl <= clock + Ttl
  BY <1>1
<1>4. LifetimeBounded'
  BY <1>2, <1>3 DEF ExpiryInv, LifetimeBounded
<1>5. ASSUME NEW r \in Requests, pc'[r] = "rotate" PROVE now'[r] < expires'[arg'[r]]
  <2>1. arg'[r] = arg[r] /\ arg[r] \in Tokens \ {n} /\ now[r] < expires[arg[r]]
    BY <1>5 DEF IndInv, LocksGuardActive, ExpiryInv
  <2> QED
    BY <1>2, <2>1
<1> QED
  BY <1>4, <1>5 DEF ExpiryInv

\* The inductive step.
LEMMA NextExpiryInv == ASSUME IndInv, ExpiryInv, [Next]_vars PROVE ExpiryInv'
<1>1. /\ clock \in Nat /\ clock <= clock /\ now \in [Requests -> 0..MaxClock]
      /\ status \in [Tokens -> {"free", "active", "revoked", "deleted"}]
      /\ pc \in [Requests -> {"idle", "session", "select", "replay", "rotate",
                              "respond"} \cup Revoking]
      /\ arg \in [Requests -> Tokens \cup {None}]
  BY DEF IndInv, TypeOK
<1>2. CASE Tick \/ UNCHANGED vars
  <2>1. /\ UNCHANGED <<status, expires, pc, arg, now>>
        /\ clock' = clock \/ clock' = clock + 1
    BY <1>2 DEF Tick, vars, rowVars, reqVars
  <2>2. clock' \in Nat /\ clock <= clock'
    BY <1>1, <2>1
  <2> QED
    BY <2>1, <2>2, ExpiryKept
<1>3. ASSUME NEW r \in Requests, NEW t \in Tokens, LoginInsert(r, t) PROVE ExpiryInv'
  <2>1. /\ status[t] = "free" /\ expires' = [expires EXCEPT ![t] = clock + Ttl]
        /\ UNCHANGED <<clock, now>> /\ status' = [status EXCEPT ![t] = "active"]
        /\ pc' = [pc EXCEPT ![r] = "session"] /\ arg' = [arg EXCEPT ![r] = t]
    BY <1>3 DEF LoginInsert
  <2>2. /\ \A u \in Tokens \ {t} : status'[u] # "free" => status[u] # "free"
        /\ \A q \in Requests : pc'[q] = "rotate" => pc[q] = "rotate" /\ arg'[q] = arg[q]
    BY <1>1, <2>1
  <2> QED
    BY <1>1, <2>1, <2>2, ExpiryOfNewRow
<1>4. ASSUME NEW r \in Requests, NEW n \in Tokens, RotateCommit(r, n) PROVE ExpiryInv'
  <2>1. /\ status[n] = "free" /\ expires' = [expires EXCEPT ![n] = now[r] + Ttl]
        /\ UNCHANGED <<clock, now>> /\ pc[r] = "rotate"
        /\ status' = [status EXCEPT ![arg[r]] = "revoked", ![n] = "active"]
        /\ pc' = [pc EXCEPT ![r] = "respond"] /\ arg' = [arg EXCEPT ![r] = n]
    BY <1>4 DEF RotateCommit
  <2>2. now[r] \in Nat /\ now[r] <= clock
    BY <1>1 DEF ExpiryInv
  <2>3. arg[r] \in Tokens /\ status[arg[r]] = "active"
    BY <2>1 DEF IndInv, LocksGuardActive
  <2>4. \A u \in Tokens \ {n} : status'[u] # "free" => status[u] # "free"
    BY <1>1, <2>1, <2>3
  <2>5. \A q \in Requests : pc'[q] = "rotate" => pc[q] = "rotate" /\ arg'[q] = arg[q]
    BY <1>1, <2>1
  <2> QED
    BY <2>1, <2>2, <2>4, <2>5, ExpiryOfNewRow
<1>5. ASSUME NEW r \in Requests, NEW t \in Tokens, RefreshBegin(r, t) PROVE ExpiryInv'
  <2>1. /\ UNCHANGED <<status, expires, clock>> /\ now' = [now EXCEPT ![r] = clock]
        /\ pc' = [pc EXCEPT ![r] = "select"] /\ arg' = [arg EXCEPT ![r] = t]
    BY <1>5 DEF RefreshBegin, rowVars
  <2>2. /\ \A q \in Requests : now'[q] \in {now[q], 0, clock}
        /\ \A q \in Requests : pc'[q] = "rotate" =>
             arg'[q] = arg[q] /\ now'[q] = now[q] /\ pc[q] = "rotate"
    BY <1>1, <2>1
  <2> QED
    BY <1>1, <2>1, <2>2, ExpiryKept
<1>6. ASSUME NEW r \in Requests, SelectActive(r) \/ SelectNothing(r) PROVE ExpiryInv'
  <2>1. /\ UNCHANGED <<status, expires, clock, now, arg>>
        /\ \E to \in {"rotate", "replay"} :
             /\ pc' = [pc EXCEPT ![r] = to]
             /\ to = "rotate" => expires[arg[r]] > now[r]
    BY <1>6 DEF SelectActive, SelectNothing, IsActive, rowVars
  <2>2. pc'[r] = "rotate" => expires[arg[r]] > now[r]
    BY <1>1, <2>1
  <2>3. \A q \in Requests \ {r} : pc'[q] = pc[q]
    BY <1>1, <2>1
  <2>4. pc'[r] = "rotate" => now[r] < expires[arg[r]]
    <3>1. pc'[r] = "rotate" => SelectActive(r)
      BY <1>1, <1>6 DEF SelectActive, SelectNothing
    <3>2. SelectActive(r) => arg[r] \in Tokens
      BY DEF SelectActive, IndInv, PrivateUntilIssued, TypeOK
    <3>3. now[r] \in Nat /\ \A t \in Tokens : expires[t] \in Nat
      BY <1>1 DEF IndInv, TypeOK
    <3> QED
      BY <2>2, <3>1, <3>2, <3>3
  <2> QED
    BY <1>1, <2>1, <2>3, <2>4, ExpiryKept
<1>7. ASSUME NEW r \in Requests, Return(r), UNCHANGED <<expires, clock>>,
             \A t \in Tokens : status'[t] # "free" => status[t] # "free"
      PROVE  ExpiryInv'
  <2>1. /\ now' = [now EXCEPT ![r] = 0] /\ pc' = [pc EXCEPT ![r] = "idle"]
        /\ arg' = [arg EXCEPT ![r] = None]
    BY <1>7 DEF Return
  <2>2. /\ \A q \in Requests : now'[q] \in {now[q], 0, clock}
        /\ \A q \in Requests : pc'[q] = "rotate" =>
             arg'[q] = arg[q] /\ now'[q] = now[q] /\ pc[q] = "rotate"
    BY <1>1, <2>1
  <2> QED
    BY <1>1, <1>7, <2>2, ExpiryKept
<1>8. ASSUME NEW r \in Requests,
             LoginOk(r) \/ LoginLost(r) \/ RefreshOk(r) \/ RefreshLost(r) \/ Rollback(r)
      PROVE  ExpiryInv'
  BY <1>7, <1>8 DEF LoginOk, LoginLost, RefreshOk, RefreshLost, Rollback, rowVars
<1>9. ASSUME NEW r \in Requests, LoginUndo(r) PROVE ExpiryInv'
  <2>1. arg[r] \in Tokens /\ status[arg[r]] # "free"
    BY <1>9 DEF LoginUndo, IndInv, PrivateUntilIssued
  <2>2. \A t \in Tokens : status'[t] # "free" => status[t] # "free"
    BY <1>1, <1>9, <2>1 DEF LoginUndo
  <2> QED
    BY <1>7, <1>9, <2>2 DEF LoginUndo
<1>10. ASSUME NEW r \in Requests, RevokeCommit(r) PROVE ExpiryInv'
  <2>1. \A t \in mine[r] : status[t] = "active"
    BY DEF IndInv, LocksGuardActive
  <2>2. \A t \in Tokens : status'[t] # "free" => status[t] # "free"
    BY <1>10, <2>1 DEF RevokeCommit
  <2> QED
    BY <1>7, <1>10, <2>2 DEF RevokeCommit
<1>11. ASSUME NEW r \in Requests, ReplayBegin(r) \/ LogoutBegin(r) PROVE ExpiryInv'
  <2>1. /\ UNCHANGED <<status, expires, clock, now, arg>>
        /\ \E to \in Revoking : pc' = [pc EXCEPT ![r] = to]
    BY <1>11 DEF ReplayBegin, LogoutBegin, RevokeBegin, Revoking, rowVars
  <2>2. \A q \in Requests : pc'[q] = "rotate" => pc[q] = "rotate"
    BY <1>1, <2>1 DEF Revoking
  <2> QED
    BY <1>1, <2>1, <2>2, ExpiryKept
<1>12. ASSUME NEW r \in Requests, NEW t \in Tokens, RevokeVisit(r, t) PROVE ExpiryInv'
  BY <1>1, <1>12, ExpiryKept DEF RevokeVisit, rowVars
<1> QED
  BY <1>2, <1>3, <1>4, <1>5, <1>6, <1>8, <1>9, <1>10, <1>11, <1>12
     DEF Next, Progress, Abort, DeadlockVictim

\* ExpiryInv holds in every reachable state.
LEMMA ExpiryInvHolds == Spec => []ExpiryInv
<1>1. Init => ExpiryInv
  BY RefreshTokensAssumption DEF Init, ExpiryInv, LifetimeBounded
<1>2. IndInv /\ ExpiryInv /\ [Next]_vars => ExpiryInv'
  BY NextExpiryInv
<1> QED
  BY <1>1, <1>2, IndInvHolds, PTL DEF Spec

\* However long a rotation or a login waits, no token lives longer than its lifetime
\* from now on.
THEOREM LifetimeBoundedHolds == Spec => []LifetimeBounded
<1>1. ExpiryInv => LifetimeBounded
  BY DEF ExpiryInv
<1> QED
  BY <1>1, ExpiryInvHolds, PTL

\* A rotation replaces only a token that was valid when the request arrived, even if
\* it expired, or other requests changed the table, while it waited for the row.
THEOREM RotatesUnexpiredHolds == Spec => RotatesUnexpired
<1> DEFINE Unexpired == \A t \in Tokens : repl'[t] # repl[t] =>
             \E r \in Requests : /\ arg[r] = t /\ now[r] < expires[t]
                                 /\ expires'[repl'[t]] = now[r] + Ttl
<1>1. IndInv /\ ExpiryInv /\ [Next]_vars => [Unexpired]_vars
  <2> SUFFICES ASSUME IndInv, ExpiryInv, Next PROVE Unexpired
    OBVIOUS
  <2>1. CASE UNCHANGED repl
    BY <2>1
  <2>2. ASSUME NEW r \in Requests, NEW n \in Tokens, RotateCommit(r, n) PROVE Unexpired
    <3>1. /\ pc[r] = "rotate" /\ repl' = [repl EXCEPT ![arg[r]] = n]
          /\ expires' = [expires EXCEPT ![n] = now[r] + Ttl]
      BY <2>2 DEF RotateCommit
    <3>2. /\ repl \in [Tokens -> Tokens \cup {None}] /\ expires \in [Tokens -> Nat]
          /\ arg[r] \in Tokens /\ now[r] < expires[arg[r]]
      BY <3>1 DEF IndInv, TypeOK, LocksGuardActive, ExpiryInv
    <3>3. /\ \A t \in Tokens : repl'[t] # repl[t] => t = arg[r]
          /\ repl'[arg[r]] = n /\ expires'[n] = now[r] + Ttl
      BY <3>1, <3>2
    <3> QED
      BY <3>2, <3>3
  <2>3. CASE ~ \E r \in Requests, n \in Tokens : RotateCommit(r, n)
    <3>1. CASE Tick
      BY <2>1, <3>1 DEF Tick, rowVars
    <3>2. ASSUME NEW r \in Requests, NEW t \in Tokens, LoginInsert(r, t) \/ RefreshBegin(r, t)
          PROVE  Unexpired
      BY <2>1, <3>2 DEF LoginInsert, RefreshBegin, rowVars
    <3>3. ASSUME NEW r \in Requests, LogoutBegin(r) \/ Abort(r) PROVE Unexpired
      BY <2>1, <3>3 DEF LogoutBegin, Abort, Rollback, rowVars
    <3>4. ASSUME NEW r \in Requests, Progress(r) PROVE Unexpired
      <4>1. UNCHANGED repl
        BY <2>3, <3>4 DEF Progress, LoginOk, LoginUndo, LoginLost, SelectActive,
           SelectNothing, RefreshOk, RefreshLost, ReplayBegin, RevokeVisit, RevokeCommit,
           DeadlockVictim, Rollback, rowVars
      <4> QED
        BY <2>1, <4>1
    <3> QED
      BY <3>1, <3>2, <3>3, <3>4 DEF Next
  <2> QED
    BY <2>2, <2>3
<1> QED
  BY <1>1, IndInvHolds, ExpiryInvHolds, PTL DEF Spec, RotatesUnexpired
=============================================================================
