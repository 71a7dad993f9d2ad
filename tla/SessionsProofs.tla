--------------------------- MODULE SessionsProofs ---------------------------
(***************************************************************************)
(* Cookie sessions, for any number of overlapping requests and any number  *)
(* of failures of the store.  The argument follows a request's Session     *)
(* through its handler: under which id and with which user the layer can   *)
(* still save it, given that a login gives up its id before it puts a user *)
(* into the record.                                                        *)
(***************************************************************************)
EXTENDS Sessions, TLAPS

LoginSteps == {"password", "insert", "cycle", "delete", "user", "save", "undo"}

Requested ==
  [op : Ops \cup {None}, cookie : Ids \cup {None}, sid : Ids \cup {None},
   at : {"idle", "csrf", "whoami", "password", "insert", "cycle", "delete", "user",
         "save", "undo", "token", "bearer", "revoke", "flush", "layer", "end"},
   rec : Records \cup {Unloaded}, modified : BOOLEAN,
   status : {None, "200", "400", "401", "403", "500", "504", "unsaved"}]

\* The login may have put its user into the store.
Published(q) == q.status \in {"200", "unsaved", "504"}

\* A login answered 200 and holds the new id, which no client has yet.
HoldsNewId(q) == q.at = "layer" /\ q.op = "login" /\ q.status = "200"

\* A request for a CSRF token with this cookie overlapped the logout.
CsrfOverlapped(i) == \E o \in overlap[i] : req[o].op = "csrf"

-----------------------------------------------------------------------------
(* What holds of a request r that has come to q                            *)

\* Its steps belong to its operation, and it is answered after them.
OnPath(q) ==
  /\ q.at = "idle" <=> q.op = None
  /\ q.at \in LoginSteps => q.op = "login"
  /\ q.at \in {"csrf", "whoami"} => q.op = q.at
  /\ q.at \in {"token", "flush"} => q.op \in {"logout", "sessionLogout"}
  /\ q.at = "bearer" => q.op \in {"protected", "logout"}
  /\ q.at = "revoke" => q.op = "logout"
  /\ q.at \notin {"layer", "end"} => q.status = None

\* Its cookie comes from an earlier response, its id has been created.
IdsUsed(q) ==
  /\ q.cookie \in known \cup {None}
  /\ q.sid \in used \cup {None}
  /\ HoldsNewId(q) => q.sid \notin known \cup {None}

\* What is in memory: a login has no id from before it put a user into the record,
\* and only a login or a request for a CSRF token has something to save.
InMemory(r, q) ==
  /\ q.at \in {"idle", "csrf", "whoami", "password", "insert", "cycle", "token"}
       => q.rec = Unloaded /\ q.sid = q.cookie
  /\ q.at \notin {"user", "save", "undo", "layer"} => ~q.modified
  /\ q.modified => q.rec # Unloaded
  /\ q.at \in {"delete", "user", "save"} => q.sid = None
  /\ q.at = "delete" => q.rec # Unloaded
  /\ q.at = "save" => q.rec.user = r
  /\ q.at = "undo" /\ q.modified => q.sid = None /\ q.rec = Empty
  /\ q.at \in {"revoke", "flush"} \/ (q.at = "bearer" /\ q.op = "logout")
       => q.sid = q.cookie /\ q.sid # None
  /\ q.op # "login" => q.sid \in {None, q.cookie}
  /\ q.at = "layer" /\ q.modified =>
       \/ q.op = "csrf"
       \/ HoldsNewId(q)
       \/ q.rec = Empty /\ (q.op = "login" => q.sid = None)

\* A user in a record was published by its login, and the copy of a session from
\* before a login has none.
UserInMemory(r, q) ==
  /\ \A u \in Requests :
       q.rec.user = u => Published(req[u]) \/ (u = r /\ q.at = "save")
  /\ q.sid \in early => q.rec.user = None

\* A token is active while its login goes on or once that has been answered.
TokenOfLogin(r, q) ==
  /\ row[r] # None => q.at \notin {"idle", "password", "insert"}
  /\ row[r] = "active" /\ r \notin orphans =>
       q.at \in {"cycle", "delete", "user", "save", "undo"} \/ Published(q)

LogoutSoFar(r, q) ==
  /\ \A l \in before[r] : l \in Requests /\ row[l] # None
  /\ q.op = "logout" /\ (q.at = "flush" \/ q.status = "200")
       => \A l \in before[r] : row[l] # "active"
  /\ q.op = "logout" /\ q.status = "200" => q.cookie \in flushed

\* A copy with a user of a session that a logout removed is about to be saved only
\* by way of a CSRF request that overlapped the logout.
SavesRemoved(q) ==
  \A i \in flushed :
    q.at = "layer" /\ q.modified /\ q.sid = i /\ q.rec.user # None => CsrfOverlapped(i)

RequestInv(r, q) ==
  /\ OnPath(q)
  /\ IdsUsed(q)
  /\ InMemory(r, q)
  /\ UserInMemory(r, q)
  /\ TokenOfLogin(r, q)
  /\ LogoutSoFar(r, q)
  /\ SavesRemoved(q)

-----------------------------------------------------------------------------
(* The inductive invariant                                                 *)

NewIdsDiffer ==
  \A r, o \in Requests :
    r # o /\ HoldsNewId(req[r]) /\ HoldsNewId(req[o]) => req[r].sid # req[o].sid

StoredUserPublished ==
  \A i \in Ids, u \in Requests : store[i].user = u => Published(req[u])

OverlapStarted ==
  overlap \in [Ids -> SUBSET Requests] /\ \A i \in Ids : \A o \in overlap[i] : req[o].op # None

SessionInv ==
  /\ TypeOK
  /\ early \subseteq used /\ flushed \subseteq known
  /\ before \in [Requests -> SUBSET Requests]
  /\ NewIdsDiffer
  /\ StoredUserPublished
  /\ OverlapStarted
  /\ NoFixation
  /\ QuietLogoutIsFinal
  /\ \A r \in Requests : RequestInv(r, req[r])

-----------------------------------------------------------------------------

\* The type invariant, as the proofs use it.
LEMMA Typed ==
  ASSUME TypeOK
  PROVE  /\ store \in [Ids -> Records \cup {Gone}]
         /\ req \in [Requests -> Requested]
         /\ known \subseteq used /\ used \subseteq Ids
         /\ row \in [Requests -> {None, "active", "revoked", "deleted"}]
  BY DEF TypeOK, Requested

\* What the records of the store and of a request consist of.
LEMMA RecordFacts ==
  /\ Empty \in Records /\ Empty.user = None /\ Empty.csrf = "absent"
  /\ Unloaded \notin Records /\ Unloaded.user = None
  /\ Gone \notin Records /\ Gone.user = None
  BY DEF Empty, Unloaded, Gone, Records

\* A handler takes a step: its request goes on as q, records may go from the store
\* and tokens may change, as long as none comes back to life.  The invariant holds
\* if it holds of q and what the other requests rely on is kept.
LEMMA HandlerStep ==
  ASSUME SessionInv, NEW r \in Requests, NEW q \in Requested,
         req[r].op # None, Go(r, q),
         q.op = req[r].op, q.cookie = req[r].cookie,
         Published(req[r]) => Published(q),
         HoldsNewId(q) => HoldsNewId(req[r]) /\ q.sid = req[r].sid,
         q.at = "delete" => q.cookie \in used /\ q.sid = None,
         OnPath(q), IdsUsed(q), InMemory(r, q), UserInMemory(r, q), SavesRemoved(q),
         TokenOfLogin(r, q)', LogoutSoFar(r, q)',
         store' \in [Ids -> Records \cup {Gone}],
         \A i \in Ids : store'[i] \in {store[i], Gone},
         row' \in [Requests -> {None, "active", "revoked", "deleted"}],
         \A l \in Requests : /\ row[l] # None => row'[l] # None
                             /\ row[l] \notin {None, "active"} => row'[l] # "active",
         \A o \in Requests \ {r} :
           /\ row'[o] # None => row[o] # None
           /\ row'[o] = "active" /\ o \notin orphans' => row[o] = "active" /\ o \notin orphans,
         UNCHANGED <<known, used, jwt, early, flushed, overlap, before>>,
         faults' \in 0..MaxFaults
  PROVE  SessionInv'
<1>1. req \in [Requests -> Requested] /\ req' = [req EXCEPT ![r] = q]
  BY Typed DEF SessionInv, Go
<1>2. /\ req'[r] = q /\ \A o \in Requests \ {r} : req'[o] = req[o]
      /\ req' \in [Requests -> Requested]
  BY <1>1
<1>3. Gone.user = None
  BY RecordFacts
<1>4. TypeOK'
  BY <1>2 DEF SessionInv, TypeOK, Requested
<1>5. \A u \in Requests : Published(req[u]) => Published(req'[u])
  BY <1>2
<1>6. \A u \in Requests : req'[u].op = req[u].op
  BY <1>2
<1>7. NewIdsDiffer' /\ OverlapStarted'
  BY <1>2, <1>6 DEF SessionInv, NewIdsDiffer, OverlapStarted
<1>8. StoredUserPublished' /\ NoFixation'
  <2>1. \A i \in Ids : store'[i].user \in {store[i].user, None}
    BY <1>3
  <2>2. early \subseteq Ids /\ None \notin Requests
    BY Typed, SessionsAssumption DEF SessionInv
  <2> QED
    BY <1>5, <2>1, <2>2 DEF SessionInv, StoredUserPublished, NoFixation
<1>9. \A i \in Ids : CsrfOverlapped(i) => CsrfOverlapped(i)'
  BY <1>6 DEF CsrfOverlapped, SessionInv, OverlapStarted
<1>10. QuietLogoutIsFinal'
  <2>1. \A i \in flushed : i \in Ids /\ store'[i].user \in {store[i].user, None}
    BY <1>3, Typed DEF SessionInv
  <2>2. \A i \in flushed : store[i].user # None => CsrfOverlapped(i)
    BY DEF SessionInv, QuietLogoutIsFinal, CsrfOverlapped
  <2> QED
    BY <1>9, <2>1, <2>2 DEF QuietLogoutIsFinal, CsrfOverlapped
<1>11. \A p : IdsUsed(p)' = IdsUsed(p)
  BY DEF IdsUsed
<1>12. \A o \in Requests : \A p : UserInMemory(o, p) => UserInMemory(o, p)'
  BY <1>5 DEF UserInMemory
<1>13. \A p : SavesRemoved(p) => SavesRemoved(p)'
  BY <1>9, Typed DEF SavesRemoved, SessionInv
<1>14. RequestInv(r, req[r])'
  BY <1>2, <1>11, <1>12, <1>13 DEF RequestInv
<1>15. ASSUME NEW o \in Requests \ {r} PROVE RequestInv(o, req[o])'
  <2>1. RequestInv(o, req[o]) /\ req'[o] = req[o]
    BY <1>2 DEF SessionInv
  <2>2. TokenOfLogin(o, req[o])'
    BY <2>1 DEF RequestInv, TokenOfLogin
  <2>3. LogoutSoFar(o, req[o])'
    <3>1. \A l \in before[o] : l \in Requests /\ row[l] # None /\ row'[l] # None
      BY <2>1 DEF RequestInv, LogoutSoFar
    <3> QED
      BY <2>1, <3>1 DEF RequestInv, LogoutSoFar
  <2> QED
    BY <1>11, <1>12, <1>13, <2>1, <2>2, <2>3 DEF RequestInv
<1> QED
  BY <1>4, <1>7, <1>8, <1>10, <1>14, <1>15 DEF SessionInv

\* ... and nothing else happens, but that a fault may be spent.
LEMMA QuietStep ==
  ASSUME SessionInv, NEW r \in Requests, NEW q \in Requested,
         req[r].op # None, Go(r, q),
         q.op = req[r].op, q.cookie = req[r].cookie,
         Published(req[r]) => Published(q),
         HoldsNewId(q) => HoldsNewId(req[r]) /\ q.sid = req[r].sid,
         q.at = "delete" => q.cookie \in used /\ q.sid = None,
         RequestInv(r, q),
         UNCHANGED <<store, known, used, row, jwt, histVars>>,
         faults' \in 0..MaxFaults
  PROVE  SessionInv'
<1>1. UNCHANGED <<store, known, used, row, jwt, early, flushed, overlap, before, orphans>>
  BY DEF histVars
<1>2. TokenOfLogin(r, q)' /\ LogoutSoFar(r, q)'
  BY <1>1 DEF RequestInv, TokenOfLogin, LogoutSoFar
<1>3. /\ store \in [Ids -> Records \cup {Gone}]
      /\ row \in [Requests -> {None, "active", "revoked", "deleted"}]
  BY Typed DEF SessionInv
<1> QED
  BY <1>1, <1>2, <1>3, HandlerStep DEF RequestInv

\* What get_record returns: with the id it belongs to, or without one.
LEMMA LoadedFacts ==
  ASSUME SessionInv, NEW r \in Requests
  PROVE  /\ Loaded(r) \in Records
         /\ LoadedId(r) \in {None, req[r].sid}
         /\ LoadedId(r) \in Ids \cup {None}
         /\ UserInMemory(r, req[r]) /\ req[r].rec = Unloaded =>
              /\ \A u \in Requests : Loaded(r).user = u => Published(req[u])
              /\ LoadedId(r) \in early => Loaded(r).user = None
              /\ Loaded(r).user # None \/ Loaded(r).csrf = "present" =>
                   LoadedId(r) = req[r].sid /\ LoadedId(r) # None
              /\ \A i \in flushed : LoadedId(r) = i /\ Loaded(r).user # None =>
                   CsrfOverlapped(i)
<1> DEFINE q == req[r]
<1>1. /\ q \in Requested /\ q.sid \in Ids \cup {None} /\ q.rec \in Records \cup {Unloaded}
      /\ store \in [Ids -> Records \cup {Gone}] /\ used \subseteq Ids
  BY Typed DEF SessionInv, Requested
<1>2. /\ Empty \in Records /\ Empty.user = None /\ Empty.csrf = "absent"
      /\ Unloaded \notin Records
  BY RecordFacts
<1>3. CASE q.rec # Unloaded
  BY <1>1, <1>2, <1>3 DEF Loaded, LoadedId
<1>4. CASE q.rec = Unloaded /\ q.sid # None /\ store[q.sid] # Gone
  <2>1. Loaded(r) = store[q.sid] /\ LoadedId(r) = q.sid
    BY <1>4 DEF Loaded, LoadedId
  <2>2. \A u \in Requests : store[q.sid].user = u => Published(req[u])
    BY <1>1, <1>4 DEF SessionInv, StoredUserPublished
  <2>3. q.sid \in early => store[q.sid].user = None
    BY DEF SessionInv, NoFixation
  <2>4. \A i \in flushed : q.sid = i /\ store[i].user # None => CsrfOverlapped(i)
    BY DEF SessionInv, QuietLogoutIsFinal, CsrfOverlapped
  <2> QED
    BY <1>1, <1>4, <2>1, <2>2, <2>3, <2>4
<1>5. CASE q.rec = Unloaded /\ (q.sid = None \/ store[q.sid] = Gone)
  <2>1. Loaded(r) = Empty /\ LoadedId(r) = None
    BY <1>5 DEF Loaded, LoadedId
  <2>2. None \notin early
    BY <1>1, SessionsAssumption DEF SessionInv
  <2>3. None \notin flushed /\ None \notin Requests
    BY <1>1, SessionsAssumption DEF SessionInv, TypeOK
  <2> QED
    BY <1>2, <2>1, <2>2, <2>3
<1> QED
  BY <1>3, <1>4, <1>5

\* Loading a record keeps the type of a request.
LEMMA LoadRequested ==
  ASSUME SessionInv, NEW r \in Requests
  PROVE  /\ Load(r) \in Requested
         /\ Load(r).op = req[r].op /\ Load(r).cookie = req[r].cookie
         /\ Load(r).at = req[r].at /\ Load(r).status = req[r].status
         /\ Load(r).modified = req[r].modified
         /\ Load(r).rec = Loaded(r) /\ Load(r).sid = LoadedId(r)
         /\ Load(r).sid \in {None, req[r].sid}
<1>1. req[r] \in Requested
  BY Typed DEF SessionInv
<1>2. Loaded(r) \in Records /\ LoadedId(r) \in Ids \cup {None}
      /\ LoadedId(r) \in {None, req[r].sid}
  BY LoadedFacts
<1> QED
  BY <1>1, <1>2 DEF Load, Requested

\* The request is answered and its Session goes: by the layer, the timeout or a
\* client that hangs up.
LEMMA EndStep ==
  ASSUME SessionInv, NEW r \in Requests, InFlight(r),
         NEW code, End(r, code),
         (code = req[r].status /\ req[r].at = "layer") \/ code \in {"504", "unsaved"},
         UNCHANGED <<store, known, used, row, jwt, histVars>>,
         faults' \in 0..MaxFaults
  PROVE  SessionInv'
<1> DEFINE q == [req[r] EXCEPT !.at = "end", !.status = code, !.sid = None,
                               !.rec = Unloaded, !.modified = FALSE]
<1>1. req[r] \in Requested /\ RequestInv(r, req[r])
  BY Typed DEF SessionInv
<1>10. code \in {None, "200", "400", "401", "403", "500", "504", "unsaved"}
  BY <1>1 DEF Requested
<1>2. /\ q \in Requested /\ q.op = req[r].op /\ q.cookie = req[r].cookie
      /\ q.at = "end" /\ q.status = code /\ q.sid = None /\ q.rec = Unloaded
      /\ ~q.modified /\ q.rec.user = None
  BY <1>1, <1>10 DEF Requested, Unloaded
<1> HIDE DEF q
<1>3. Go(r, q)
  BY DEF End, q
<1>4. req[r].op # None /\ req[r].at # "idle"
  BY <1>1 DEF RequestInv, OnPath, InFlight
<1>5. OnPath(q) /\ IdsUsed(q) /\ InMemory(r, q)
  BY <1>1, <1>2, <1>4 DEF RequestInv, OnPath, IdsUsed, InMemory, HoldsNewId, LoginSteps
<1>6. UserInMemory(r, q) /\ SavesRemoved(q)
  BY <1>2, SessionsAssumption, Typed DEF UserInMemory, SavesRemoved, SessionInv
<1>7. TokenOfLogin(r, q)
  BY <1>1, <1>2, <1>4 DEF RequestInv, TokenOfLogin, Published
<1>8. LogoutSoFar(r, q)
  BY <1>1, <1>2 DEF RequestInv, LogoutSoFar
<1>9. Published(req[r]) => Published(q)
  BY <1>1, <1>2, SessionsAssumption DEF Published
<1> QED
  BY <1>2, <1>3, <1>4, <1>5, <1>6, <1>7, <1>8, <1>9, QuietStep DEF RequestInv, HoldsNewId

\* A handler answers without having changed its Session, which it may have loaded.
LEMMA AnswerStep ==
  ASSUME SessionInv, NEW r \in Requests, NEW code, NEW p,
         p = req[r] \/ (p = Load(r) /\ req[r].rec = Unloaded),
         Respond(r, code, p),
         req[r].at \in {"csrf", "whoami", "password", "insert", "token", "bearer", "revoke"},
         code \in {"200", "400", "401", "403", "500"},
         code = "200" => req[r].op \in {"whoami", "protected"},
         UNCHANGED <<store, known, used, row, jwt, histVars>>,
         faults' \in 0..MaxFaults
  PROVE  SessionInv'
<1> DEFINE q == [p EXCEPT !.at = "layer", !.status = code]
<1>1. req[r] \in Requested /\ RequestInv(r, req[r])
  BY Typed DEF SessionInv
<1>2. /\ p \in Requested /\ p.op = req[r].op /\ p.cookie = req[r].cookie
      /\ p.sid \in {None, req[r].sid} /\ p.modified = req[r].modified
  BY <1>1, LoadRequested
<1>3. /\ q \in Requested /\ q.op = p.op /\ q.cookie = p.cookie /\ q.sid = p.sid
      /\ q.at = "layer" /\ q.status = code /\ q.rec = p.rec /\ q.modified = p.modified
  <2>1. q \in Requested
    BY <1>2 DEF Requested
  <2>2. /\ q.op = p.op /\ q.cookie = p.cookie /\ q.sid = p.sid
        /\ q.rec = p.rec /\ q.modified = p.modified
    BY <1>2 DEF Requested
  <2>3. q.at = "layer" /\ q.status = code
    BY <1>2 DEF Requested
  <2> QED
    BY <2>1, <2>2, <2>3
<1> HIDE DEF q
<1>4. Go(r, q)
  BY DEF Respond, q
<1>5. ~q.modified
  BY <1>1, <1>2, <1>3 DEF RequestInv, InMemory
<1>6. req[r].op # None /\ req[r].status = None /\ ~HoldsNewId(q)
  BY <1>1, <1>2, <1>3 DEF RequestInv, OnPath, HoldsNewId
<1>7. OnPath(q) /\ IdsUsed(q) /\ InMemory(r, q) /\ SavesRemoved(q)
  BY <1>1, <1>2, <1>3, <1>5, <1>6
     DEF RequestInv, OnPath, IdsUsed, InMemory, SavesRemoved, LoginSteps
<1>8. UserInMemory(r, q)
  <2>1. UserInMemory(r, req[r]) /\ req[r].at # "save"
    BY <1>1 DEF RequestInv
  <2>2. CASE p = req[r]
    BY <1>3, <2>1, <2>2 DEF UserInMemory
  <2>3. CASE p = Load(r) /\ req[r].rec = Unloaded
    <3>1. p.rec = Loaded(r) /\ p.sid = LoadedId(r)
      BY <1>1, <2>3 DEF Load, Requested
    <3> QED
      BY <1>3, <2>1, <2>3, <3>1, LoadedFacts DEF UserInMemory
  <2> QED
    BY <2>2, <2>3
<1>9. TokenOfLogin(r, q)
  BY <1>1, <1>3, <1>6, SessionsAssumption DEF RequestInv, TokenOfLogin, Published
<1>10. LogoutSoFar(r, q)
  BY <1>1, <1>2, <1>3 DEF RequestInv, LogoutSoFar
<1>11. ~Published(req[r])
  BY <1>6, SessionsAssumption DEF Published
<1> QED
  BY <1>2, <1>3, <1>4, <1>6, <1>7, <1>8, <1>9, <1>10, <1>11, QuietStep DEF RequestInv

\* get_or_create_token: the record it may save is the one that was loaded.
LEMMA CsrfStep ==
  ASSUME SessionInv, NEW r \in Requests, Csrf(r), faults \in 0..MaxFaults
  PROVE  SessionInv'
<1>1. req[r] \in Requested /\ RequestInv(r, req[r])
  BY Typed DEF SessionInv
<1>2. req[r].at = "csrf" /\ UNCHANGED <<store, known, used, row, jwt, histVars>>
  BY DEF Csrf
<1>3. CASE Fault /\ Respond(r, "500", req[r])
  <2>1. faults' \in 0..MaxFaults
    BY <1>3, SessionsAssumption DEF Fault
  <2> QED
    BY <1>2, <1>3, <2>1, AnswerStep
<1> DEFINE rec == Loaded(r)
           q == [[req[r] EXCEPT !.rec = [rec EXCEPT !.csrf = "present"],
                                !.sid = LoadedId(r), !.modified = (rec.csrf = "absent")]
                 EXCEPT !.at = "layer", !.status = "200"]
<1>4. CASE Go(r, q) /\ UNCHANGED faults
  <2>1. /\ req[r].rec = Unloaded /\ req[r].sid = req[r].cookie /\ req[r].op = "csrf"
        /\ req[r].status = None /\ req[r].op # None
    BY <1>1, <1>2 DEF RequestInv, InMemory, OnPath
  <2>2. /\ LoadedId(r) \in Ids \cup {None}
        /\ [rec EXCEPT !.csrf = "present"] \in Records
        /\ [rec EXCEPT !.csrf = "present"].user = rec.user
    <3>1. rec \in Records /\ LoadedId(r) \in Ids \cup {None}
      BY LoadedFacts
    <3> QED
      BY <3>1 DEF Records
  <2>3. /\ q \in Requested /\ q.op = "csrf" /\ q.cookie = req[r].cookie
        /\ q.sid = LoadedId(r) /\ q.at = "layer" /\ q.status = "200"
        /\ q.rec.user = rec.user /\ q.rec # Unloaded
    <3> DEFINE new == [rec EXCEPT !.csrf = "present"]
               fresh == (rec.csrf = "absent")
    <3>1. new \in Records /\ new.user = rec.user /\ fresh \in BOOLEAN
      BY <2>2
    <3> HIDE DEF new, fresh
    <3> QED
      BY <1>1, <2>1, <2>2, <3>1, RecordFacts DEF Requested, new, fresh
  <2> HIDE DEF q, rec
  <2>4. OnPath(q) /\ IdsUsed(q) /\ InMemory(r, q)
    BY <1>1, <2>1, <2>3, LoadedFacts, SessionsAssumption
       DEF RequestInv, OnPath, IdsUsed, InMemory, HoldsNewId, LoginSteps, Ops
  <2>5. UserInMemory(r, q) /\ SavesRemoved(q)
    BY <1>1, <2>1, <2>3, LoadedFacts DEF RequestInv, UserInMemory, SavesRemoved, rec
  <2>6. TokenOfLogin(r, q) /\ LogoutSoFar(r, q)
    BY <1>1, <1>2, <2>1, <2>3 DEF RequestInv, TokenOfLogin, LogoutSoFar, Published
  <2> QED
    BY <1>2, <1>4, <2>1, <2>3, <2>4, <2>5, <2>6, QuietStep, SessionsAssumption
       DEF RequestInv, HoldsNewId, Published
<1> QED
  BY <1>2, <1>3, <1>4 DEF Csrf, Respond

\* cycle_id's first half: the record leaves its id behind.
LEMMA CycleIdStep ==
  ASSUME SessionInv, NEW r \in Requests, CycleId(r), faults \in 0..MaxFaults
  PROVE  SessionInv'
<1>1. req[r] \in Requested /\ RequestInv(r, req[r])
  BY Typed DEF SessionInv
<1>2. req[r].at = "cycle" /\ UNCHANGED <<store, known, used, row, jwt, histVars>>
  BY DEF CycleId
<1>3. /\ req[r].rec = Unloaded /\ req[r].sid = req[r].cookie /\ req[r].op = "login"
      /\ req[r].status = None /\ req[r].op # None /\ ~req[r].modified
      /\ req[r].sid \in used \cup {None}
  BY <1>1, <1>2 DEF RequestInv, InMemory, OnPath, LoginSteps, IdsUsed
<1> DEFINE loaded == [req[r] EXCEPT !.at = IF LoadedId(r) = None THEN "user" ELSE "delete",
                                    !.rec = Loaded(r), !.sid = None,
                                    !.modified = (LoadedId(r) = None)]
           failed == [req[r] EXCEPT !.at = "undo"]
<1>4. CASE Go(r, loaded) /\ UNCHANGED faults
  <2> DEFINE q == loaded
  <2>1. Loaded(r) \in Records /\ LoadedId(r) \in {None, req[r].sid}
    BY LoadedFacts
  <2>2. /\ q \in Requested /\ q.op = "login" /\ q.cookie = req[r].cookie
        /\ q.sid = None /\ q.at \in {"user", "delete"} /\ q.status = None
        /\ q.rec = Loaded(r) /\ q.rec # Unloaded
        /\ q.at = "delete" => ~q.modified /\ q.cookie \in used
    BY <1>1, <1>3, <2>1, RecordFacts DEF Requested
  <2> HIDE DEF q, loaded
  <2>3. OnPath(q) /\ IdsUsed(q) /\ InMemory(r, q)
    BY <1>1, <1>3, <2>2 DEF RequestInv, OnPath, IdsUsed, InMemory, HoldsNewId, LoginSteps
  <2>4. UserInMemory(r, q) /\ SavesRemoved(q)
    <3>1. None \notin early
      BY Typed, SessionsAssumption DEF SessionInv
    <3> QED
      BY <1>1, <1>3, <2>2, <3>1, LoadedFacts DEF RequestInv, UserInMemory, SavesRemoved
  <2>5. TokenOfLogin(r, q) /\ LogoutSoFar(r, q)
    BY <1>1, <2>2 DEF RequestInv, TokenOfLogin, LogoutSoFar, Published
  <2> QED
    BY <1>2, <1>3, <1>4, <2>2, <2>3, <2>4, <2>5, QuietStep, SessionsAssumption
       DEF RequestInv, HoldsNewId, Published, q
<1>5. CASE Go(r, failed) /\ Fault
  <2> DEFINE q == failed
  <2>1. faults' \in 0..MaxFaults
    BY <1>5, SessionsAssumption DEF Fault
  <2>2. /\ q \in Requested /\ q.op = "login" /\ q.cookie = req[r].cookie
        /\ q.sid = req[r].sid /\ q.at = "undo" /\ q.status = None
        /\ q.rec = Unloaded /\ ~q.modified
    BY <1>1, <1>3 DEF Requested
  <2> HIDE DEF q, failed
  <2>3. OnPath(q) /\ IdsUsed(q) /\ InMemory(r, q)
    BY <1>1, <1>3, <2>2 DEF RequestInv, OnPath, IdsUsed, InMemory, HoldsNewId, LoginSteps
  <2>4. UserInMemory(r, q) /\ SavesRemoved(q)
    BY <1>1, <1>2, <1>3, <2>2 DEF RequestInv, UserInMemory, SavesRemoved
  <2>5. TokenOfLogin(r, q) /\ LogoutSoFar(r, q)
    BY <1>1, <2>2 DEF RequestInv, TokenOfLogin, LogoutSoFar, Published
  <2> QED
    BY <1>2, <1>3, <1>5, <2>1, <2>2, <2>3, <2>4, <2>5, QuietStep, SessionsAssumption
       DEF RequestInv, HoldsNewId, Published, q
<1> QED
  BY <1>4, <1>5 DEF CycleId

\* The user is put into a record that has no id; if the save fails, the record is
\* cleared.
LEMMA InsertUserStep ==
  ASSUME SessionInv, NEW r \in Requests, InsertUser(r) \/ SaveFails(r),
         faults \in 0..MaxFaults
  PROVE  SessionInv'
<1>1. req[r] \in Requested /\ RequestInv(r, req[r])
  BY Typed DEF SessionInv
<1>2. /\ req[r].at \in {"user", "save"} /\ faults' \in 0..MaxFaults
      /\ UNCHANGED <<store, known, used, row, jwt, histVars>>
  BY SessionsAssumption DEF InsertUser, SaveFails, Fault
<1>3. /\ req[r].op = "login" /\ req[r].op # None /\ req[r].status = None /\ req[r].sid = None
      /\ None \notin early /\ None \notin Requests
  BY <1>1, <1>2, Typed, SessionsAssumption
     DEF SessionInv, RequestInv, InMemory, OnPath, LoginSteps
<1> DEFINE named == [req[r] EXCEPT !.at = "save", !.rec = [Loaded(r) EXCEPT !.user = r],
                                   !.sid = LoadedId(r), !.modified = TRUE]
           cleared == [req[r] EXCEPT !.at = "undo", !.rec = Empty]
<1>4. PICK q : /\ Go(r, q) /\ q \in Requested /\ q.op = "login" /\ q.cookie = req[r].cookie
               /\ q.sid = None /\ q.status = None /\ q.rec # Unloaded
               /\ \/ q.at = "save" /\ q.rec.user = r
                  \/ q.at = "undo" /\ q.rec = Empty /\ q.rec.user = None
  <2>1. CASE InsertUser(r)
    <3>1. Loaded(r) \in Records /\ LoadedId(r) = None
      BY <1>3, LoadedFacts
    <3>2. /\ [Loaded(r) EXCEPT !.user = r] \in Records
          /\ [Loaded(r) EXCEPT !.user = r].user = r
      BY <3>1 DEF Records
    <3>3. /\ named \in Requested /\ named.op = "login" /\ named.cookie = req[r].cookie
          /\ named.sid = None /\ named.status = None /\ named.at = "save"
          /\ named.rec.user = r /\ named.rec # Unloaded
      BY <1>1, <1>3, <3>1, <3>2, RecordFacts DEF Requested
    <3> HIDE DEF named
    <3> QED
      BY <2>1, <3>3 DEF InsertUser, named
  <2>2. CASE SaveFails(r)
    <3>1. Empty \in Records /\ Empty.user = None /\ Empty # Unloaded
      BY RecordFacts
    <3>2. /\ cleared \in Requested /\ cleared.op = "login" /\ cleared.cookie = req[r].cookie
          /\ cleared.sid = None /\ cleared.status = None /\ cleared.at = "undo"
          /\ cleared.rec = Empty
      BY <1>1, <1>3, <3>1 DEF Requested
    <3> HIDE DEF cleared
    <3> QED
      BY <2>2, <3>1, <3>2 DEF SaveFails, cleared
  <2> QED
    BY <2>1, <2>2
<1>5. OnPath(q) /\ IdsUsed(q) /\ InMemory(r, q)
  BY <1>1, <1>3, <1>4 DEF RequestInv, OnPath, IdsUsed, InMemory, HoldsNewId, LoginSteps
<1>6. UserInMemory(r, q) /\ SavesRemoved(q)
  BY <1>3, <1>4 DEF UserInMemory, SavesRemoved
<1>7. TokenOfLogin(r, q) /\ LogoutSoFar(r, q)
  BY <1>1, <1>4 DEF RequestInv, TokenOfLogin, LogoutSoFar, Published
<1> QED
  BY <1>2, <1>3, <1>4, <1>5, <1>6, <1>7, QuietStep, SessionsAssumption
     DEF RequestInv, HoldsNewId, Published

\* A check has passed, or the store failed to delete the old id: the request goes
\* on with the Session it has.
LEMMA GoOnStep ==
  ASSUME SessionInv, NEW r \in Requests, NEW to, Go(r, [req[r] EXCEPT !.at = to]),
         \/ req[r].at = "password" /\ to = "insert"
         \/ req[r].at = "delete" /\ to = "undo"
         \/ req[r].at = "bearer" /\ req[r].op = "logout" /\ to = "revoke",
         UNCHANGED <<store, known, used, row, jwt, histVars>>,
         faults' \in 0..MaxFaults
  PROVE  SessionInv'
<1> DEFINE q == [req[r] EXCEPT !.at = to]
<1>1. req[r] \in Requested /\ RequestInv(r, req[r])
  BY Typed DEF SessionInv
<1>2. /\ q \in Requested /\ q.op = req[r].op /\ q.cookie = req[r].cookie
      /\ q.sid = req[r].sid /\ q.at = to /\ q.status = req[r].status
      /\ q.rec = req[r].rec /\ q.modified = req[r].modified
  BY <1>1 DEF Requested
<1> HIDE DEF q
<1>3. req[r].op # None /\ req[r].status = None
  BY <1>1 DEF RequestInv, OnPath
<1>4. OnPath(q) /\ IdsUsed(q) /\ InMemory(r, q)
  BY <1>1, <1>2, <1>3 DEF RequestInv, OnPath, IdsUsed, InMemory, HoldsNewId, LoginSteps
<1>5. UserInMemory(r, q) /\ SavesRemoved(q)
  BY <1>1, <1>2 DEF RequestInv, UserInMemory, SavesRemoved
<1>6. TokenOfLogin(r, q) /\ LogoutSoFar(r, q)
  BY <1>1, <1>2, <1>3, SessionsAssumption
     DEF RequestInv, TokenOfLogin, LogoutSoFar, Published
<1> QED
  BY <1>2, <1>3, <1>4, <1>5, <1>6, QuietStep, SessionsAssumption
     DEF RequestInv, HoldsNewId, Published, q

\* The CSRF check passes only with a record of the cookie's own id.
LEMMA CheckCsrfStep ==
  ASSUME SessionInv, NEW r \in Requests, CheckCsrf(r), faults \in 0..MaxFaults
  PROVE  SessionInv'
<1>1. req[r] \in Requested /\ RequestInv(r, req[r])
  BY Typed DEF SessionInv
<1>2. /\ req[r].at = "token" /\ UNCHANGED <<store, known, used, row, jwt, histVars>>
      /\ faults' \in 0..MaxFaults
  BY DEF CheckCsrf
<1>3. /\ req[r].rec = Unloaded /\ req[r].sid = req[r].cookie /\ ~req[r].modified
      /\ req[r].op \in {"logout", "sessionLogout"}
      /\ req[r].status = None /\ req[r].op # None
  BY <1>1, <1>2 DEF RequestInv, InMemory, OnPath
<1>4. CASE Respond(r, "403", Load(r))
  BY <1>2, <1>3, <1>4, AnswerStep
<1> DEFINE to == IF req[r].op = "logout" THEN "bearer" ELSE "flush"
           q == [Load(r) EXCEPT !.at = to]
<1>5. CASE Loaded(r).csrf = "present" /\ Go(r, q)
  <2>1. /\ q \in Requested /\ q.op = req[r].op /\ q.cookie = req[r].cookie
        /\ q.sid = LoadedId(r) /\ q.at = to /\ q.status = None
        /\ q.rec = Loaded(r) /\ ~q.modified
    BY <1>3, LoadRequested DEF Requested
  <2> HIDE DEF q
  <2>2. LoadedId(r) = req[r].sid /\ LoadedId(r) # None
    BY <1>1, <1>3, <1>5, LoadedFacts DEF RequestInv
  <2>3. OnPath(q) /\ IdsUsed(q) /\ InMemory(r, q)
    BY <1>1, <1>3, <2>1, <2>2
       DEF RequestInv, OnPath, IdsUsed, InMemory, HoldsNewId, LoginSteps
  <2>4. UserInMemory(r, q) /\ SavesRemoved(q)
    BY <1>1, <1>3, <2>1, LoadedFacts DEF RequestInv, UserInMemory, SavesRemoved
  <2>5. TokenOfLogin(r, q) /\ LogoutSoFar(r, q)
    BY <1>1, <1>2, <1>3, <2>1, SessionsAssumption
       DEF RequestInv, TokenOfLogin, LogoutSoFar, Published
  <2> QED
    BY <1>2, <1>3, <1>5, <2>1, <2>3, <2>4, <2>5, QuietStep, SessionsAssumption
       DEF RequestInv, HoldsNewId, Published
<1> QED
  BY <1>4, <1>5 DEF CheckCsrf

\* flush() cleared the record but not the store: an empty record may be saved.
LEMMA FlushFailsStep ==
  ASSUME SessionInv, NEW r \in Requests, FlushFails(r), faults \in 0..MaxFaults
  PROVE  SessionInv'
<1> DEFINE q == [[req[r] EXCEPT !.rec = Empty, !.modified = TRUE]
                 EXCEPT !.at = "layer", !.status = "500"]
<1>1. req[r] \in Requested /\ RequestInv(r, req[r])
  BY Typed DEF SessionInv
<1>2. /\ req[r].at = "flush" /\ UNCHANGED <<store, known, used, row, jwt, histVars>>
      /\ faults' \in 0..MaxFaults /\ Go(r, q)
  BY SessionsAssumption DEF FlushFails, Fault, Respond
<1>3. Empty \in Records /\ Empty.user = None /\ Empty # Unloaded
  BY RecordFacts
<1>4. /\ q \in Requested /\ q.op = req[r].op /\ q.cookie = req[r].cookie
      /\ q.sid = req[r].sid /\ q.at = "layer" /\ q.status = "500" /\ q.rec = Empty
  BY <1>1, <1>3 DEF Requested
<1> HIDE DEF q
<1>5. req[r].op # None /\ req[r].status = None /\ req[r].op \in {"logout", "sessionLogout"}
  BY <1>1, <1>2 DEF RequestInv, OnPath
<1>6. OnPath(q) /\ IdsUsed(q) /\ InMemory(r, q)
  BY <1>1, <1>3, <1>4, <1>5 DEF RequestInv, OnPath, IdsUsed, InMemory, HoldsNewId, LoginSteps
<1>7. UserInMemory(r, q) /\ SavesRemoved(q)
  BY <1>3, <1>4, SessionsAssumption DEF UserInMemory, SavesRemoved
<1>8. TokenOfLogin(r, q) /\ LogoutSoFar(r, q)
  BY <1>1, <1>2, <1>4, <1>5, SessionsAssumption
     DEF RequestInv, TokenOfLogin, LogoutSoFar, Published
<1> QED
  BY <1>2, <1>4, <1>5, <1>6, <1>7, <1>8, QuietStep, SessionsAssumption
     DEF RequestInv, HoldsNewId, Published

\* The login's refresh token is stored; a session with an id will lose it next.
LEMMA InsertTokenStep ==
  ASSUME SessionInv, NEW r \in Requests, InsertToken(r), faults \in 0..MaxFaults
  PROVE  SessionInv'
<1>1. req[r] \in Requested /\ RequestInv(r, req[r])
  BY Typed DEF SessionInv
<1>2. req[r].at = "insert" /\ UNCHANGED <<store, known, used, jwt, histVars>>
  BY DEF InsertToken
<1>3. CASE Fault /\ Respond(r, "500", req[r]) /\ UNCHANGED row
  <2>1. faults' \in 0..MaxFaults
    BY <1>3, SessionsAssumption DEF Fault
  <2> QED
    BY <1>2, <1>3, <2>1, AnswerStep
<1>4. CASE /\ row' = [row EXCEPT ![r] = "active"]
           /\ Go(r, [req[r] EXCEPT !.at = AfterInsert(r)])
           /\ UNCHANGED faults
  <2>0. PICK to : to = AfterInsert(r)
    OBVIOUS
  <2>1. to \in {"cycle", "user"} /\ (to = "user" => req[r].sid = None)
    BY <2>0 DEF AfterInsert
  <2>2. PICK q : /\ Go(r, q)
                 /\ q \in Requested /\ q.op = req[r].op /\ q.cookie = req[r].cookie
                 /\ q.sid = req[r].sid /\ q.at = to /\ q.status = req[r].status
                 /\ q.rec = req[r].rec /\ q.modified = req[r].modified
    <3> DEFINE p == [req[r] EXCEPT !.at = to]
    <3>1. /\ p \in Requested /\ p.op = req[r].op /\ p.cookie = req[r].cookie
          /\ p.sid = req[r].sid /\ p.at = to /\ p.status = req[r].status
          /\ p.rec = req[r].rec /\ p.modified = req[r].modified
      BY <1>1, <2>1 DEF Requested
    <3>2. Go(r, p)
      BY <1>4, <2>0
    <3> HIDE DEF p
    <3> QED
      BY <3>1, <3>2
  <2>3. /\ req[r].op = "login" /\ req[r].op # None /\ req[r].status = None /\ row[r] = None
    BY <1>1, <1>2 DEF RequestInv, OnPath, TokenOfLogin, LoginSteps
  <2>4. OnPath(q) /\ IdsUsed(q) /\ InMemory(r, q)
    BY <1>1, <1>2, <2>1, <2>2, <2>3
       DEF RequestInv, OnPath, IdsUsed, InMemory, HoldsNewId, LoginSteps
  <2>5. UserInMemory(r, q) /\ SavesRemoved(q)
    BY <1>1, <1>2, <2>1, <2>2 DEF RequestInv, UserInMemory, SavesRemoved
  <2>6. row \in [Requests -> {None, "active", "revoked", "deleted"}]
    BY Typed DEF SessionInv
  <2>7. /\ row' \in [Requests -> {None, "active", "revoked", "deleted"}]
        /\ row'[r] = "active" /\ \A o \in Requests \ {r} : row'[o] = row[o]
    BY <1>4, <2>6
  <2>8. TokenOfLogin(r, q)'
    BY <2>1, <2>2 DEF TokenOfLogin
  <2>9. LogoutSoFar(r, q)'
    BY <1>1, <1>2, <2>2, <2>3, <2>7 DEF RequestInv, LogoutSoFar, histVars
  <2>10. store \in [Ids -> Records \cup {Gone}]
    BY Typed DEF SessionInv
  <2>11. ~Published(req[r]) /\ ~HoldsNewId(q) /\ q.at # "delete"
    BY <2>1, <2>2, <2>3, SessionsAssumption DEF Published, HoldsNewId
  <2>12. \A l \in Requests : /\ row[l] # None => row'[l] # None
                             /\ row[l] \notin {None, "active"} => row'[l] # "active"
    BY <2>3, <2>7
  <2> QED
    BY <1>2, <1>4, <2>2, <2>3, <2>4, <2>5, <2>7, <2>8, <2>9, <2>10, <2>11, <2>12,
       HandlerStep DEF histVars
<1> QED
  BY <1>3, <1>4 DEF InsertToken

\* cycle_id's second half: the old id's record goes.
LEMMA CycleDeleteStep ==
  ASSUME SessionInv, NEW r \in Requests, CycleDelete(r), faults \in 0..MaxFaults
  PROVE  SessionInv'
<1>1. req[r] \in Requested /\ RequestInv(r, req[r]) /\ req[r].cookie \in Ids \cup {None}
  BY Typed DEF SessionInv, Requested
<1>2. /\ req[r].at = "delete" /\ UNCHANGED <<known, used, row, jwt, histVars>>
  BY DEF CycleDelete
<1>3. CASE Fault /\ Go(r, [req[r] EXCEPT !.at = "undo"]) /\ UNCHANGED store
  <2>1. faults' \in 0..MaxFaults
    BY <1>3, SessionsAssumption DEF Fault
  <2> QED
    BY <1>2, <1>3, <2>1, GoOnStep
<1>4. CASE /\ store' = [store EXCEPT ![req[r].cookie] = Gone]
           /\ Go(r, [req[r] EXCEPT !.at = "user", !.modified = TRUE])
           /\ UNCHANGED faults
  <2>1. PICK q : /\ Go(r, q)
                 /\ q \in Requested /\ q.op = req[r].op /\ q.cookie = req[r].cookie
                 /\ q.sid = req[r].sid /\ q.at = "user" /\ q.status = req[r].status
                 /\ q.rec = req[r].rec
    <3> DEFINE p == [req[r] EXCEPT !.at = "user", !.modified = TRUE]
    <3>1. /\ p \in Requested /\ p.op = req[r].op /\ p.cookie = req[r].cookie
          /\ p.sid = req[r].sid /\ p.at = "user" /\ p.status = req[r].status
          /\ p.rec = req[r].rec
      BY <1>1 DEF Requested
    <3> HIDE DEF p
    <3> QED
      BY <1>4, <3>1 DEF p
  <2>2. /\ req[r].op = "login" /\ req[r].op # None /\ req[r].status = None
        /\ req[r].sid = None /\ req[r].rec # Unloaded
    BY <1>1, <1>2 DEF RequestInv, OnPath, InMemory, LoginSteps
  <2>3. OnPath(q) /\ IdsUsed(q) /\ InMemory(r, q)
    BY <1>1, <2>1, <2>2 DEF RequestInv, OnPath, IdsUsed, InMemory, HoldsNewId, LoginSteps
  <2>4. UserInMemory(r, q) /\ SavesRemoved(q)
    BY <1>1, <1>2, <2>1 DEF RequestInv, UserInMemory, SavesRemoved
  <2>5. TokenOfLogin(r, q)' /\ LogoutSoFar(r, q)'
    BY <1>1, <1>2, <2>1 DEF RequestInv, TokenOfLogin, LogoutSoFar, Published, histVars
  <2>6. /\ store' \in [Ids -> Records \cup {Gone}]
        /\ \A i \in Ids : store'[i] \in {store[i], Gone}
    BY <1>4, Typed DEF SessionInv
  <2>7. row \in [Requests -> {None, "active", "revoked", "deleted"}]
    BY Typed DEF SessionInv
  <2>8. ~Published(req[r]) /\ ~HoldsNewId(q)
    BY <2>1, <2>2, SessionsAssumption DEF Published, HoldsNewId
  <2> QED
    BY <1>2, <1>4, <2>1, <2>2, <2>3, <2>4, <2>5, <2>6, <2>7, <2>8, HandlerStep
       DEF histVars
<1> QED
  BY <1>3, <1>4 DEF CycleDelete

\* A failed login: its token is deleted, or counted as an orphan.
LEMMA UndoStep ==
  ASSUME SessionInv, NEW r \in Requests, Undo(r), faults \in 0..MaxFaults
  PROVE  SessionInv'
<1>1. req[r] \in Requested /\ RequestInv(r, req[r])
  BY Typed DEF SessionInv
<1>2. /\ req[r].at = "undo" /\ faults' \in 0..MaxFaults
      /\ UNCHANGED <<store, known, used, jwt, early, flushed, overlap, before>>
      /\ Go(r, [req[r] EXCEPT !.at = "layer", !.status = "500"])
      /\ \/ row' = [row EXCEPT ![r] = "deleted"] /\ UNCHANGED orphans
         \/ orphans' = orphans \cup {r} /\ UNCHANGED row
  BY SessionsAssumption DEF Undo, Fault, Respond
<1>3. PICK q : /\ Go(r, q)
               /\ q \in Requested /\ q.op = req[r].op /\ q.cookie = req[r].cookie
               /\ q.sid = req[r].sid /\ q.at = "layer" /\ q.status = "500"
               /\ q.rec = req[r].rec /\ q.modified = req[r].modified
  <2> DEFINE p == [req[r] EXCEPT !.at = "layer", !.status = "500"]
  <2>1. /\ p \in Requested /\ p.op = req[r].op /\ p.cookie = req[r].cookie
        /\ p.sid = req[r].sid /\ p.at = "layer" /\ p.status = "500"
        /\ p.rec = req[r].rec /\ p.modified = req[r].modified
    BY <1>1 DEF Requested
  <2> HIDE DEF p
  <2> QED
    BY <1>2, <2>1 DEF p
<1>4. req[r].op = "login" /\ req[r].op # None /\ req[r].status = None
  BY <1>1, <1>2 DEF RequestInv, OnPath, LoginSteps
<1>5. OnPath(q) /\ IdsUsed(q) /\ InMemory(r, q)
  BY <1>1, <1>2, <1>3, <1>4
     DEF RequestInv, OnPath, IdsUsed, InMemory, HoldsNewId, LoginSteps
<1>6. UserInMemory(r, q)
  BY <1>1, <1>2, <1>3 DEF RequestInv, UserInMemory
<1>7. SavesRemoved(q)
  BY <1>1, <1>2, <1>3, RecordFacts DEF RequestInv, InMemory, SavesRemoved
<1>8. row \in [Requests -> {None, "active", "revoked", "deleted"}]
      /\ store \in [Ids -> Records \cup {Gone}]
  BY Typed DEF SessionInv
<1>9. /\ row' \in [Requests -> {None, "active", "revoked", "deleted"}]
      /\ row'[r] # "active" \/ r \in orphans'
      /\ row'[r] \in {row[r], "deleted"}
      /\ \A o \in Requests \ {r} : row'[o] = row[o] /\ (o \in orphans' <=> o \in orphans)
  BY <1>2, <1>8
<1>10. row[r] # None => row'[r] # None
  <2>1. CASE row' = [row EXCEPT ![r] = "deleted"]
    BY <1>8, <2>1, SessionsAssumption
  <2> QED
    BY <1>2, <2>1
<1>11. TokenOfLogin(r, q)'
  BY <1>3, <1>9 DEF TokenOfLogin
<1>12. LogoutSoFar(r, q)'
  <2>1. \A l \in before[r] : l \in Requests /\ row[l] # None /\ row'[l] # None
    BY <1>1, <1>9, <1>10 DEF RequestInv, LogoutSoFar
  <2> QED
    BY <1>2, <1>3, <1>4, <2>1 DEF LogoutSoFar
<1>13. \A l \in Requests : /\ row[l] # None => row'[l] # None
                           /\ row[l] \notin {None, "active"} => row'[l] # "active"
  BY <1>9, <1>10
<1>14. ~Published(req[r]) /\ ~HoldsNewId(q)
  BY <1>3, <1>4, SessionsAssumption DEF Published, HoldsNewId
<1> QED
  BY <1>2, <1>3, <1>4, <1>5, <1>6, <1>7, <1>8, <1>9, <1>11, <1>12, <1>13, <1>14,
     HandlerStep

\* logout_handler revokes every active token.
LEMMA RevokeStep ==
  ASSUME SessionInv, NEW r \in Requests, Revoke(r), faults \in 0..MaxFaults
  PROVE  SessionInv'
<1>1. req[r] \in Requested /\ RequestInv(r, req[r])
  BY Typed DEF SessionInv
<1>2. /\ req[r].at = "revoke" /\ UNCHANGED <<store, known, used, jwt, histVars>>
  BY DEF Revoke
<1>3. CASE Fault /\ Respond(r, "500", req[r]) /\ UNCHANGED row
  <2>1. faults' \in 0..MaxFaults
    BY <1>3, SessionsAssumption DEF Fault
  <2> QED
    BY <1>2, <1>3, <2>1, AnswerStep
<1>4. CASE /\ row' = [l \in Requests |-> IF row[l] = "active" THEN "revoked" ELSE row[l]]
           /\ Go(r, [req[r] EXCEPT !.at = "flush"])
           /\ UNCHANGED faults
  <2>1. PICK q : /\ Go(r, q)
                 /\ q \in Requested /\ q.op = req[r].op /\ q.cookie = req[r].cookie
                 /\ q.sid = req[r].sid /\ q.at = "flush" /\ q.status = req[r].status
                 /\ q.rec = req[r].rec /\ q.modified = req[r].modified
    <3> DEFINE p == [req[r] EXCEPT !.at = "flush"]
    <3>1. /\ p \in Requested /\ p.op = req[r].op /\ p.cookie = req[r].cookie
          /\ p.sid = req[r].sid /\ p.at = "flush" /\ p.status = req[r].status
          /\ p.rec = req[r].rec /\ p.modified = req[r].modified
      BY <1>1 DEF Requested
    <3> HIDE DEF p
    <3> QED
      BY <1>4, <3>1 DEF p
  <2>2. req[r].op = "logout" /\ req[r].op # None /\ req[r].status = None
    BY <1>1, <1>2 DEF RequestInv, OnPath
  <2>3. OnPath(q) /\ IdsUsed(q) /\ InMemory(r, q)
    BY <1>1, <1>2, <2>1, <2>2
       DEF RequestInv, OnPath, IdsUsed, InMemory, HoldsNewId, LoginSteps
  <2>4. UserInMemory(r, q) /\ SavesRemoved(q)
    BY <1>1, <1>2, <2>1 DEF RequestInv, UserInMemory, SavesRemoved
  <2>5. /\ row \in [Requests -> {None, "active", "revoked", "deleted"}]
        /\ store \in [Ids -> Records \cup {Gone}]
    BY Typed DEF SessionInv
  <2>6. \A l \in Requests : row'[l] = IF row[l] = "active" THEN "revoked" ELSE row[l]
    BY <1>4
  <2>7. /\ row' \in [Requests -> {None, "active", "revoked", "deleted"}]
        /\ \A l \in Requests : row'[l] # "active"
    BY <1>4, <2>5, <2>6
  <2>8. \A l \in Requests : row'[l] # None <=> row[l] # None
    BY <2>5, <2>6, SessionsAssumption
  <2>9. TokenOfLogin(r, q)'
    BY <1>1, <1>2, <2>1, <2>7, <2>8 DEF RequestInv, TokenOfLogin
  <2>10. LogoutSoFar(r, q)'
    <3>1. \A l \in before[r] : l \in Requests /\ row'[l] # None /\ row'[l] # "active"
      BY <1>1, <2>7, <2>8 DEF RequestInv, LogoutSoFar
    <3> QED
      BY <1>2, <2>1, <2>2, <3>1, SessionsAssumption DEF LogoutSoFar, histVars
  <2>11. ~Published(req[r]) /\ ~HoldsNewId(q)
    BY <2>1, <2>2, SessionsAssumption DEF Published, HoldsNewId
  <2> QED
    BY <1>2, <1>4, <2>1, <2>2, <2>3, <2>4, <2>5, <2>7, <2>8, <2>9, <2>10, <2>11,
       HandlerStep DEF histVars
<1> QED
  BY <1>3, <1>4 DEF Revoke

\* session.flush(): whoever still has a copy of the session to save is a CSRF
\* request with the same cookie, in flight at this moment.
LEMMA FlushStep ==
  ASSUME SessionInv, NEW r \in Requests, Flush(r), faults \in 0..MaxFaults
  PROVE  SessionInv'
<1> DEFINE id == req[r].sid
<1>1. /\ req \in [Requests -> Requested] /\ req[r] \in Requested /\ RequestInv(r, req[r])
      /\ store \in [Ids -> Records \cup {Gone}] /\ known \subseteq used /\ used \subseteq Ids
  BY Typed DEF SessionInv
<1>2. /\ req[r].at = "flush" /\ UNCHANGED <<known, used, row, jwt, faults, early, before, orphans>>
      /\ store' = [store EXCEPT ![id] = Gone]
      /\ Go(r, [[req[r] EXCEPT !.rec = Empty, !.sid = None, !.modified = TRUE]
                EXCEPT !.at = "layer", !.status = "200"])
      /\ flushed' = flushed \cup {id}
      /\ overlap' = [overlap EXCEPT ![id] =
                       {o \in Requests \ {r} : InFlight(o) /\ req[o].cookie = id}]
  BY DEF Flush, Flushed, Respond
<1>3. PICK q : /\ Go(r, q)
               /\ q \in Requested /\ q.op = req[r].op /\ q.cookie = req[r].cookie
               /\ q.sid = None /\ q.at = "layer" /\ q.status = "200" /\ q.rec = Empty
  <2> DEFINE p == [[req[r] EXCEPT !.rec = Empty, !.sid = None, !.modified = TRUE]
                   EXCEPT !.at = "layer", !.status = "200"]
  <2>1. /\ p \in Requested /\ p.op = req[r].op /\ p.cookie = req[r].cookie
        /\ p.sid = None /\ p.at = "layer" /\ p.status = "200" /\ p.rec = Empty
    BY <1>1, RecordFacts DEF Requested
  <2> HIDE DEF p
  <2> QED
    BY <1>2, <2>1 DEF p
<1>4. /\ req'[r] = q /\ \A o \in Requests \ {r} : req'[o] = req[o]
      /\ req' \in [Requests -> Requested]
  BY <1>1, <1>3 DEF Go
<1>5. /\ id = req[r].cookie /\ id # None /\ id \in known /\ id \in Ids
      /\ req[r].op # None /\ req[r].status = None /\ req[r].op \in {"logout", "sessionLogout"}
  BY <1>1, <1>2 DEF RequestInv, InMemory, OnPath, IdsUsed
<1>6. /\ store' \in [Ids -> Records \cup {Gone}] /\ store'[id] = Gone
      /\ \A i \in Ids \ {id} : store'[i] = store[i]
  BY <1>1, <1>2, <1>5
<1>7. TypeOK'
  <2>1. \A i \in Ids : store'[i] # Gone => i \in used
    BY <1>6 DEF SessionInv, TypeOK
  <2> QED
    BY <1>2, <1>3, <1>4, <1>6, <2>1 DEF SessionInv, TypeOK, Requested
<1>8. \A u \in Requests : /\ Published(req[u]) => Published(req'[u])
                          /\ req'[u].op = req[u].op
                          /\ HoldsNewId(req'[u]) => HoldsNewId(req[u]) /\ req'[u].sid = req[u].sid
  BY <1>3, <1>4, <1>5 DEF Published, HoldsNewId
<1>9. NewIdsDiffer' /\ StoredUserPublished' /\ NoFixation'
  <2>1. \A i \in Ids : store'[i].user \in {store[i].user, None}
    BY <1>6, RecordFacts
  <2>2. early \subseteq Ids /\ None \notin Requests
    BY <1>1, SessionsAssumption DEF SessionInv
  <2>3. NewIdsDiffer'
    BY <1>8 DEF SessionInv, NewIdsDiffer
  <2> QED
    BY <1>2, <1>8, <2>1, <2>2, <2>3 DEF SessionInv, StoredUserPublished, NoFixation
<1>10. /\ overlap' \in [Ids -> SUBSET Requests]
       /\ overlap'[id] = {o \in Requests \ {r} : InFlight(o) /\ req[o].cookie = id}
       /\ \A i \in Ids \ {id} : overlap'[i] = overlap[i]
  BY <1>2, <1>5 DEF SessionInv, OverlapStarted
<1>11. OverlapStarted'
  <2>1. \A o \in Requests : InFlight(o) => req[o].op # None
    BY DEF SessionInv, RequestInv, OnPath, InFlight
  <2> QED
    BY <1>8, <1>10, <2>1 DEF SessionInv, OverlapStarted
<1>12. \A i \in Ids \ {id} : CsrfOverlapped(i) => CsrfOverlapped(i)'
  BY <1>8, <1>10 DEF CsrfOverlapped
<1>13. QuietLogoutIsFinal'
  <2>1. \A i \in flushed \ {id} : i \in Ids /\ (store[i].user # None => CsrfOverlapped(i))
    BY <1>1 DEF SessionInv, QuietLogoutIsFinal, CsrfOverlapped
  <2>2. \A i \in flushed' : store'[i].user # None => CsrfOverlapped(i)'
    BY <1>2, <1>6, <1>12, <2>1, RecordFacts
  <2> QED
    BY <2>2 DEF QuietLogoutIsFinal, CsrfOverlapped
<1>14. early' \subseteq used' /\ flushed' \subseteq known' /\ before' \in [Requests -> SUBSET Requests]
  BY <1>2, <1>5 DEF SessionInv
<1>15. RequestInv(r, req[r])'
  <2>1. OnPath(q) /\ IdsUsed(q)' /\ InMemory(r, q)
    BY <1>1, <1>2, <1>3, <1>5, RecordFacts
       DEF RequestInv, OnPath, IdsUsed, InMemory, HoldsNewId, LoginSteps
  <2>2. UserInMemory(r, q)' /\ SavesRemoved(q)'
    BY <1>3, RecordFacts, SessionsAssumption DEF UserInMemory, SavesRemoved
  <2>3. TokenOfLogin(r, q)' /\ LogoutSoFar(r, q)'
    BY <1>1, <1>2, <1>3, <1>5 DEF RequestInv, TokenOfLogin, LogoutSoFar, Published
  <2> QED
    BY <1>4, <2>1, <2>2, <2>3 DEF RequestInv
<1>16. ASSUME NEW o \in Requests \ {r} PROVE RequestInv(o, req[o])'
  <2>1. RequestInv(o, req[o]) /\ req'[o] = req[o]
    BY <1>4 DEF SessionInv
  <2>2. OnPath(req[o])' /\ IdsUsed(req[o])' /\ InMemory(o, req[o])'
    BY <1>2, <2>1 DEF RequestInv, OnPath, IdsUsed, InMemory, HoldsNewId
  <2>3. UserInMemory(o, req[o])'
    BY <1>2, <1>8, <2>1 DEF RequestInv, UserInMemory
  <2>4. TokenOfLogin(o, req[o])' /\ LogoutSoFar(o, req[o])'
    BY <1>2, <2>1 DEF RequestInv, TokenOfLogin, LogoutSoFar, Published
  <2>5. SavesRemoved(req[o])'
    <3> SUFFICES ASSUME NEW i \in flushed', req[o].at = "layer", req[o].modified,
                        req[o].sid = i, req[o].rec.user # None
                 PROVE  CsrfOverlapped(i)'
      BY <2>1 DEF SavesRemoved
    <3>1. CASE i # id
      <4>1. i \in flushed /\ i \in Ids /\ CsrfOverlapped(i)
        BY <1>1, <1>2, <2>1, <3>1 DEF SessionInv, RequestInv, SavesRemoved
      <4> QED
        BY <1>12, <3>1, <4>1
    <3>2. CASE i = id
      <4>1. ~HoldsNewId(req[o])
        BY <1>5, <2>1, <3>2 DEF RequestInv, IdsUsed
      <4>2. req[o].op = "csrf" /\ req[o].cookie = id
        BY <1>5, <2>1, <3>2, <4>1, RecordFacts DEF RequestInv, InMemory
      <4>3. o \in overlap'[id]
        BY <1>10, <4>2 DEF InFlight
      <4> QED
        BY <2>1, <3>2, <4>2, <4>3 DEF CsrfOverlapped
    <3> QED
      BY <3>1, <3>2
  <2> QED
    BY <2>2, <2>3, <2>4, <2>5 DEF RequestInv
<1> QED
  BY <1>7, <1>9, <1>11, <1>13, <1>14, <1>15, <1>16 DEF SessionInv

\* A new id is one that nobody has met.
LEMMA FreshIdIsNew ==
  ASSUME used \subseteq Ids, used # Ids
  PROVE  FreshId \in Ids \ used
<1>1. \E i \in Ids : i \notin used
  OBVIOUS
<1> QED
  BY <1>1 DEF FreshId

\* Writing a record keeps the invariant of the store and of every request but the
\* writer's, provided the id is new or the writer's own.
LEMMA StoreStep ==
  ASSUME SessionInv, NEW r \in Requests, NEW id \in Ids, NEW q \in Requested,
         Saved(r, id), req[r].rec \in Records,
         Go(r, q), q.op = req[r].op, q.cookie = req[r].cookie, q.at # "delete",
         Published(req[r]) \/ req[r].rec.user = r => Published(q), req[r].op # None,
         HoldsNewId(q) => q.sid = id /\ id \notin used,
         (req[r].at = "layer" /\ req[r].modified) \/ req[r].sid = None,
         \/ known' = known
         \/ known' = known \cup {id} /\ ~HoldsNewId(q) /\
              \A o \in Requests \ {r} : HoldsNewId(req[o]) => req[o].sid # id,
         IdsUsed(q)', OnPath(q), InMemory(r, q), UserInMemory(r, q)',
         TokenOfLogin(r, q)', LogoutSoFar(r, q)', SavesRemoved(q)',
         UNCHANGED <<row, faults, flushed, overlap, before, orphans>>, jwt' \in BOOLEAN
  PROVE  SessionInv'
<1>1. /\ req \in [Requests -> Requested] /\ RequestInv(r, req[r])
      /\ store \in [Ids -> Records \cup {Gone}] /\ known \subseteq used /\ used \subseteq Ids
      /\ early \subseteq used /\ flushed \subseteq known
  BY Typed DEF SessionInv
<1>2. /\ req'[r] = q /\ \A o \in Requests \ {r} : req'[o] = req[o]
      /\ req' \in [Requests -> Requested]
  BY <1>1 DEF Go
<1>3. /\ IF req[r].sid = None THEN id \notin used ELSE id = req[r].sid
      /\ store' = [store EXCEPT ![id] = req[r].rec]
      /\ used' = used \cup {id}
      /\ early' = IF req[r].sid = None /\ req[r].rec.user = None THEN early \cup {id} ELSE early
  BY <1>1, FreshIdIsNew DEF Saved
<1>4. /\ store' \in [Ids -> Records \cup {Gone}] /\ store'[id] = req[r].rec
      /\ \A i \in Ids \ {id} : store'[i] = store[i]
  BY <1>1, <1>3
<1>5. known \subseteq known' /\ known' \subseteq used' /\ used' \subseteq Ids /\ early' \subseteq used'
      /\ flushed' \subseteq known'
  BY <1>1, <1>3
<1>6. TypeOK'
  <2>1. \A i \in Ids : store'[i] # Gone => i \in used'
    BY <1>3, <1>4 DEF SessionInv, TypeOK
  <2>2. \A o \in Requests : req'[o].at = "delete" => req'[o].cookie \in used' /\ req'[o].sid = None
    BY <1>2, <1>3 DEF SessionInv, TypeOK
  <2> QED
    BY <1>2, <1>4, <1>5, <2>1, <2>2 DEF SessionInv, TypeOK, Requested
<1>7. \A u \in Requests : /\ Published(req[u]) => Published(req'[u])
                          /\ req'[u].op = req[u].op
  BY <1>2
<1>8. \A i \in Ids : CsrfOverlapped(i) => CsrfOverlapped(i)'
  BY <1>7 DEF CsrfOverlapped, SessionInv, OverlapStarted
<1>9. OverlapStarted'
  BY <1>7 DEF SessionInv, OverlapStarted
<1>10. \A o \in Requests : HoldsNewId(req[o]) => req[o].sid \in used
  BY DEF SessionInv, RequestInv, IdsUsed
<1>11. NewIdsDiffer'
  BY <1>2, <1>10 DEF SessionInv, NewIdsDiffer
<1>12. StoredUserPublished'
  <2>1. \A u \in Requests : req[r].rec.user = u => Published(req[u]) \/ u = r
    BY <1>1 DEF RequestInv, UserInMemory
  <2> QED
    BY <1>2, <1>4, <1>7, <2>1 DEF SessionInv, StoredUserPublished
<1>13. NoFixation'
  <2>1. id \in early' => req[r].rec.user = None
    BY <1>1, <1>3 DEF RequestInv, UserInMemory
  <2>2. \A i \in early' \ {id} : i \in early /\ i \in Ids
    BY <1>1, <1>3
  <2> QED
    BY <1>4, <2>1, <2>2 DEF SessionInv, NoFixation
<1>14. QuietLogoutIsFinal'
  <2>1. \A i \in flushed : i \in Ids /\ (store[i].user # None => CsrfOverlapped(i))
    BY <1>1 DEF SessionInv, QuietLogoutIsFinal, CsrfOverlapped
  <2>2. id \in flushed /\ req[r].rec.user # None => CsrfOverlapped(id)
    BY <1>1, <1>3 DEF RequestInv, SavesRemoved
  <2>3. \A i \in flushed : store'[i].user # None => CsrfOverlapped(i)'
    BY <1>4, <1>8, <2>1, <2>2
  <2> QED
    BY <2>3 DEF QuietLogoutIsFinal, CsrfOverlapped
<1>15. RequestInv(r, req[r])'
  BY <1>2 DEF RequestInv
<1>16. ASSUME NEW o \in Requests \ {r} PROVE RequestInv(o, req[o])'
  <2>1. RequestInv(o, req[o]) /\ req'[o] = req[o]
    BY <1>2 DEF SessionInv
  <2>2. OnPath(req[o])' /\ InMemory(o, req[o])'
    BY <2>1 DEF RequestInv, OnPath, InMemory, HoldsNewId
  <2>3. IdsUsed(req[o])'
    BY <1>3, <1>5, <2>1 DEF RequestInv, IdsUsed, HoldsNewId
  <2>4. UserInMemory(o, req[o])'
    <3>1. req[o].sid \in early' => req[o].sid \in early
      BY <1>3, <2>1, SessionsAssumption DEF RequestInv, IdsUsed
    <3> QED
      BY <1>7, <2>1, <3>1 DEF RequestInv, UserInMemory
  <2>5. TokenOfLogin(o, req[o])' /\ LogoutSoFar(o, req[o])'
    BY <2>1 DEF RequestInv, TokenOfLogin, LogoutSoFar, Published
  <2>6. SavesRemoved(req[o])'
    BY <1>1, <1>8, <2>1 DEF RequestInv, SavesRemoved
  <2> QED
    BY <2>2, <2>3, <2>4, <2>5, <2>6 DEF RequestInv
<1> QED
  BY <1>5, <1>6, <1>9, <1>11, <1>12, <1>13, <1>14, <1>15, <1>16 DEF SessionInv

\* session.save() in a login: the record with the user goes under a new id.
LEMMA SaveStep ==
  ASSUME SessionInv, NEW r \in Requests, NEW id \in Ids, Save(r, id)
  PROVE  SessionInv'
<1>1. /\ req[r] \in Requested /\ RequestInv(r, req[r])
      /\ known \subseteq used /\ used \subseteq Ids
  BY Typed DEF SessionInv
<1>2. /\ req[r].at = "save" /\ Saved(r, id)
      /\ UNCHANGED <<known, row, jwt, faults, flushed, overlap, before, orphans>>
      /\ Go(r, [[req[r] EXCEPT !.sid = id] EXCEPT !.at = "layer", !.status = "200"])
  BY DEF Save, Respond
<1>3. /\ req[r].op = "login" /\ req[r].op # None /\ req[r].status = None
      /\ req[r].sid = None /\ req[r].rec.user = r /\ req[r].rec # Unloaded
      /\ req[r].rec \in Records
  BY <1>1, <1>2, RecordFacts, SessionsAssumption
     DEF RequestInv, OnPath, InMemory, LoginSteps, Requested
<1>4. PICK q : /\ Go(r, q)
               /\ q \in Requested /\ q.op = req[r].op /\ q.cookie = req[r].cookie
               /\ q.sid = id /\ q.at = "layer" /\ q.status = "200" /\ q.rec = req[r].rec
  <2> DEFINE p == [[req[r] EXCEPT !.sid = id] EXCEPT !.at = "layer", !.status = "200"]
  <2>1. /\ p \in Requested /\ p.op = req[r].op /\ p.cookie = req[r].cookie
        /\ p.sid = id /\ p.at = "layer" /\ p.status = "200" /\ p.rec = req[r].rec
    BY <1>1 DEF Requested
  <2> HIDE DEF p
  <2> QED
    BY <1>2, <2>1 DEF p
<1>5. /\ id \notin used /\ used' = used \cup {id} /\ early' = early
      /\ id # None /\ early \subseteq used /\ flushed \subseteq used
  BY <1>1, <1>2, <1>3, FreshIdIsNew, SessionsAssumption DEF Saved, SessionInv
<1>6. OnPath(q) /\ InMemory(r, q) /\ HoldsNewId(q) /\ Published(q)
  BY <1>1, <1>3, <1>4 DEF RequestInv, OnPath, InMemory, HoldsNewId, LoginSteps, Published
<1>7. IdsUsed(q)'
  BY <1>1, <1>2, <1>4, <1>5 DEF RequestInv, IdsUsed
<1>8. UserInMemory(r, q)' /\ SavesRemoved(q)'
  <2>1. req'[r] = q
    BY <1>4, Typed DEF SessionInv, Go
  <2>2. UserInMemory(r, q)'
    BY <1>3, <1>4, <1>5, <1>6, <2>1 DEF UserInMemory
  <2>3. SavesRemoved(q)'
    BY <1>2, <1>4, <1>5 DEF SavesRemoved
  <2> QED
    BY <2>2, <2>3
<1>9. TokenOfLogin(r, q)' /\ LogoutSoFar(r, q)'
  BY <1>1, <1>2, <1>3, <1>4, <1>6 DEF RequestInv, TokenOfLogin, LogoutSoFar, Published
<1>10. jwt' \in BOOLEAN
  BY <1>2 DEF SessionInv, TypeOK
<1> QED
  BY <1>2, <1>3, <1>4, <1>5, <1>6, <1>7, <1>8, <1>9, <1>10, StoreStep

\* SessionManagerLayer saves what the handler left and sets the cookie.
LEMMA LayerSavesStep ==
  ASSUME SessionInv, NEW r \in Requests, NEW id \in Ids, LayerSaves(r, id)
  PROVE  SessionInv'
<1>1. /\ req[r] \in Requested /\ RequestInv(r, req[r])
      /\ known \subseteq used /\ used \subseteq Ids
  BY Typed DEF SessionInv
<1>2. /\ req[r].at = "layer" /\ req[r].modified /\ ~IsEmpty(req[r]) /\ Saved(r, id)
      /\ known' = known \cup {id} /\ End(r, req[r].status)
      /\ UNCHANGED <<row, faults, flushed, overlap, before, orphans>>
      /\ jwt' \in BOOLEAN
  BY DEF LayerSaves
<1>3. PICK q : /\ Go(r, q)
               /\ q \in Requested /\ q.op = req[r].op /\ q.cookie = req[r].cookie
               /\ q.at = "end" /\ q.status = req[r].status /\ q.sid = None
               /\ q.rec = Unloaded /\ ~q.modified
  <2> DEFINE p == [req[r] EXCEPT !.at = "end", !.status = req[r].status, !.sid = None,
                                 !.rec = Unloaded, !.modified = FALSE]
  <2>1. /\ p \in Requested /\ p.op = req[r].op /\ p.cookie = req[r].cookie
        /\ p.at = "end" /\ p.status = req[r].status /\ p.sid = None
        /\ p.rec = Unloaded /\ ~p.modified
    BY <1>1 DEF Requested
  <2> HIDE DEF p
  <2> QED
    BY <1>2, <2>1 DEF End, p
<1>4. req[r].op # None /\ req[r].rec # Unloaded /\ req[r].rec \in Records
  BY <1>1, <1>2 DEF RequestInv, OnPath, InMemory, Requested
<1>5. /\ IF req[r].sid = None THEN id \notin used ELSE id = req[r].sid
      /\ used' = used \cup {id}
      /\ early' \subseteq early \cup {id} /\ early \subseteq used
      /\ None \notin early' /\ None \notin flushed /\ flushed \subseteq used
  BY <1>1, <1>2, FreshIdIsNew, SessionsAssumption DEF Saved, SessionInv
<1>6. ASSUME NEW o \in Requests \ {r}, HoldsNewId(req[o]) PROVE req[o].sid # id
  <2>1. req[o].sid \in used /\ req[o].sid \notin known /\ req[o].sid # None
    BY <1>6 DEF SessionInv, RequestInv, IdsUsed
  <2>2. CASE HoldsNewId(req[r])
    BY <1>1, <1>5, <1>6, <2>1, <2>2 DEF SessionInv, NewIdsDiffer, RequestInv, IdsUsed
  <2>3. CASE ~HoldsNewId(req[r]) /\ req[r].sid # None
    <3>1. req[r].op # "login"
      BY <1>1, <1>2, <2>3 DEF RequestInv, InMemory
    <3>2. req[r].sid \in known
      BY <1>1, <2>3, <3>1 DEF RequestInv, InMemory, IdsUsed
    <3> QED
      BY <1>5, <2>1, <2>3, <3>2
  <2>4. CASE req[r].sid = None
    BY <1>5, <2>1, <2>4
  <2> QED
    BY <2>2, <2>3, <2>4
<1>7. OnPath(q) /\ InMemory(r, q) /\ ~HoldsNewId(q)
  BY <1>1, <1>3, <1>4 DEF RequestInv, OnPath, InMemory, HoldsNewId, LoginSteps
<1>8. IdsUsed(q)'
  BY <1>1, <1>2, <1>3, <1>5, <1>7 DEF RequestInv, IdsUsed
<1>9. UserInMemory(r, q)' /\ SavesRemoved(q)'
  BY <1>3, <1>5, RecordFacts, SessionsAssumption DEF UserInMemory, SavesRemoved
<1>10. TokenOfLogin(r, q)' /\ LogoutSoFar(r, q)'
  BY <1>1, <1>2, <1>3 DEF RequestInv, TokenOfLogin, LogoutSoFar, Published
<1>11. Published(req[r]) \/ req[r].rec.user = r => Published(q)
  BY <1>1, <1>2, <1>3 DEF RequestInv, UserInMemory, Published
<1> QED
  BY <1>2, <1>3, <1>4, <1>6, <1>7, <1>8, <1>9, <1>10, <1>11, StoreStep

\* A request comes in with a cookie that some response has set, or none.
LEMMA BeginStep ==
  ASSUME SessionInv, NEW r \in Requests, NEW op \in Ops, NEW cookie \in known \cup {None},
         Begin(r, op, cookie)
  PROVE  SessionInv'
<1>1. /\ req \in [Requests -> Requested] /\ RequestInv(r, req[r])
      /\ known \subseteq used /\ used \subseteq Ids
      /\ row \in [Requests -> {None, "active", "revoked", "deleted"}]
      /\ early \subseteq used /\ flushed \subseteq known
  BY Typed DEF SessionInv
<1>2. /\ req[r].at = "idle"
      /\ UNCHANGED <<store, known, used, row, jwt, faults, early, flushed, overlap, orphans>>
      /\ Go(r, [Idle EXCEPT !.op = op, !.at = Entry[op], !.cookie = cookie, !.sid = cookie])
      /\ before' = [before EXCEPT ![r] =
                      IF op = "logout" THEN {l \in Requests : row[l] = "active"} ELSE {}]
  BY DEF Begin
<1>3. /\ req[r].op = None /\ req[r].status = None /\ row[r] = None
  BY <1>1, <1>2 DEF RequestInv, OnPath, TokenOfLogin
<1>4. PICK q : /\ Go(r, q) /\ q \in Requested /\ q.op = op /\ q.cookie = cookie
               /\ q.sid = cookie /\ q.at = Entry[op] /\ q.rec = Unloaded /\ ~q.modified
               /\ q.status = None
  <2> DEFINE p == [Idle EXCEPT !.op = op, !.at = Entry[op], !.cookie = cookie, !.sid = cookie]
  <2>1. Entry[op] \in {"csrf", "whoami", "password", "bearer", "token"}
    BY DEF Entry, Ops
  <2>2. /\ p \in Requested /\ p.op = op /\ p.cookie = cookie
        /\ p.sid = cookie /\ p.at = Entry[op] /\ p.rec = Unloaded /\ ~p.modified
        /\ p.status = None
    BY <1>1, <2>1 DEF Idle, Requested
  <2> HIDE DEF p
  <2> QED
    BY <1>2, <2>2 DEF p
<1>5. /\ q.at \notin {"idle", "delete", "user", "save", "undo", "layer", "end", "insert",
                      "cycle", "revoke", "flush"}
      /\ q.at \in LoginSteps => op = "login"
      /\ q.at \in {"csrf", "whoami"} => op = q.at
      /\ q.at = "token" => op \in {"logout", "sessionLogout"}
      /\ q.at = "bearer" => op = "protected"
  <2>1. CASE op = "csrf"
    BY <1>4, <2>1 DEF LoginSteps, Entry
  <2>2. CASE op = "whoami"
    BY <1>4, <2>2 DEF LoginSteps, Entry
  <2>3. CASE op = "login"
    BY <1>4, <2>3 DEF LoginSteps, Entry
  <2>4. CASE op = "protected"
    BY <1>4, <2>4 DEF LoginSteps, Entry
  <2>5. CASE op = "logout" \/ op = "sessionLogout"
    BY <1>4, <2>5 DEF LoginSteps, Entry
  <2> QED
    BY <2>1, <2>2, <2>3, <2>4, <2>5 DEF Ops
<1>6. /\ req'[r] = q /\ \A o \in Requests \ {r} : req'[o] = req[o]
      /\ req' \in [Requests -> Requested]
  BY <1>1, <1>4 DEF Go
<1>7. TypeOK'
  <2>1. \A o \in Requests :
          req'[o].at = "delete" => req'[o].cookie \in used /\ req'[o].sid = None
    BY <1>5, <1>6 DEF SessionInv, TypeOK
  <2> QED
    BY <1>2, <1>6, <2>1 DEF SessionInv, TypeOK, Requested
<1>8. \A u \in Requests : /\ Published(req[u]) => Published(req'[u])
                          /\ req[u].op # None => req'[u].op = req[u].op
                          /\ HoldsNewId(req'[u]) => HoldsNewId(req[u]) /\ req'[u].sid = req[u].sid
  BY <1>3, <1>5, <1>6, SessionsAssumption DEF Published, HoldsNewId
<1>9. OverlapStarted'
  BY <1>2, <1>8 DEF SessionInv, OverlapStarted
<1>10. \A i \in Ids : CsrfOverlapped(i) => CsrfOverlapped(i)'
  BY <1>2, <1>8 DEF CsrfOverlapped, SessionInv, OverlapStarted
<1>11. NewIdsDiffer' /\ StoredUserPublished' /\ NoFixation'
  BY <1>2, <1>8 DEF SessionInv, NewIdsDiffer, StoredUserPublished, NoFixation
<1>12. QuietLogoutIsFinal'
  <2>1. \A i \in flushed : i \in Ids /\ (store[i].user # None => CsrfOverlapped(i))
    BY <1>1 DEF SessionInv, QuietLogoutIsFinal, CsrfOverlapped
  <2> QED
    BY <1>2, <1>10, <2>1 DEF QuietLogoutIsFinal, CsrfOverlapped
<1>13. /\ before' \in [Requests -> SUBSET Requests]
       /\ \A l \in before'[r] : l \in Requests /\ row[l] = "active"
       /\ \A o \in Requests \ {r} : before'[o] = before[o]
  BY <1>2 DEF SessionInv
<1>14. RequestInv(r, req[r])'
  <2>1. OnPath(q)
    BY <1>4, <1>5, SessionsAssumption DEF OnPath
  <2>6. InMemory(r, q)
    BY <1>4, <1>5 DEF InMemory
  <2>2. IdsUsed(q)' /\ SavesRemoved(q)'
    BY <1>1, <1>2, <1>4, <1>5 DEF IdsUsed, HoldsNewId, SavesRemoved
  <2>3. UserInMemory(r, q)'
    BY <1>4, RecordFacts, SessionsAssumption DEF UserInMemory
  <2>4. TokenOfLogin(r, q)'
    BY <1>2, <1>3, SessionsAssumption DEF TokenOfLogin
  <2>5. LogoutSoFar(r, q)'
    BY <1>2, <1>4, <1>5, <1>13, SessionsAssumption DEF LogoutSoFar
  <2> QED
    BY <1>6, <2>1, <2>2, <2>3, <2>4, <2>5, <2>6 DEF RequestInv
<1>15. ASSUME NEW o \in Requests \ {r} PROVE RequestInv(o, req[o])'
  <2>1. RequestInv(o, req[o]) /\ req'[o] = req[o]
    BY <1>6 DEF SessionInv
  <2>2. OnPath(req[o])' /\ InMemory(o, req[o])' /\ IdsUsed(req[o])'
    BY <1>2, <2>1 DEF RequestInv, OnPath, InMemory, IdsUsed, HoldsNewId
  <2>3. UserInMemory(o, req[o])'
    BY <1>2, <1>8, <2>1 DEF RequestInv, UserInMemory
  <2>4. TokenOfLogin(o, req[o])' /\ LogoutSoFar(o, req[o])'
    BY <1>2, <1>13, <2>1 DEF RequestInv, TokenOfLogin, LogoutSoFar, Published
  <2>5. SavesRemoved(req[o])'
    BY <1>1, <1>2, <1>10, <2>1 DEF RequestInv, SavesRemoved
  <2> QED
    BY <2>2, <2>3, <2>4, <2>5 DEF RequestInv
<1> QED
  BY <1>1, <1>2, <1>7, <1>9, <1>11, <1>12, <1>13, <1>14, <1>15 DEF SessionInv

-----------------------------------------------------------------------------
(* Theorems                                                                *)

\* No request, no session and no token.
LEMMA InitSessionInv == ASSUME Init PROVE SessionInv
<1>1. /\ req \in [Requests -> Requested] /\ \A r \in Requests : req[r] = Idle
      /\ store \in [Ids -> Records \cup {Gone}]
  BY DEF Init, Idle, Requested, Records
<1>2. /\ Idle.op = None /\ Idle.cookie = None /\ Idle.sid = None /\ Idle.at = "idle"
      /\ Idle.rec = Unloaded /\ Idle.modified = FALSE /\ Idle.status = None
      /\ Idle.rec.user = None /\ Gone.user = None
  BY DEF Idle, Unloaded, Gone
<1>3. None \notin Requests /\ None \notin {"200", "unsaved", "504"}
  BY SessionsAssumption
<1>4. TypeOK
  <2>1. row \in [Requests -> {None, "active", "revoked", "deleted"}] /\ faults \in 0..MaxFaults
    BY SessionsAssumption DEF Init
  <2>2. \A i \in Ids : store[i] = Gone
    BY DEF Init
  <2> QED
    BY <1>1, <1>2, <2>1, <2>2 DEF Init, TypeOK, Requested
<1>5. NewIdsDiffer /\ StoredUserPublished /\ OverlapStarted /\ NoFixation /\ QuietLogoutIsFinal
  BY <1>1, <1>2, <1>3 DEF Init, NewIdsDiffer, HoldsNewId, StoredUserPublished,
     OverlapStarted, NoFixation, QuietLogoutIsFinal
<1>6. ASSUME NEW r \in Requests PROVE RequestInv(r, req[r])
  <2>1. OnPath(Idle) /\ IdsUsed(Idle) /\ InMemory(r, Idle)
    BY <1>2 DEF OnPath, IdsUsed, InMemory, HoldsNewId, LoginSteps
  <2>2. UserInMemory(r, Idle) /\ SavesRemoved(Idle)
    BY <1>2, <1>3 DEF Init, UserInMemory, SavesRemoved
  <2>3. TokenOfLogin(r, Idle) /\ LogoutSoFar(r, Idle)
    BY <1>2, SessionsAssumption DEF Init, TokenOfLogin, LogoutSoFar
  <2> QED
    BY <1>1, <2>1, <2>2, <2>3 DEF RequestInv
<1> QED
  BY <1>4, <1>5, <1>6 DEF Init, SessionInv

\* The steps of a login.
LEMMA LoginStep ==
  ASSUME SessionInv, NEW r \in Requests, Login(r), faults \in 0..MaxFaults
  PROVE  SessionInv'
<1>1. CASE RefuseUserId(r)
  BY <1>1, AnswerStep DEF RefuseUserId
<1>2. CASE CheckPassword(r)
  BY <1>2, AnswerStep, GoOnStep DEF CheckPassword
<1>3. CASE CreateJwtFails(r)
  <2>1. faults' \in 0..MaxFaults
    BY <1>3, SessionsAssumption DEF CreateJwtFails, Fault
  <2> QED
    BY <1>3, <2>1, AnswerStep DEF CreateJwtFails
<1>4. CASE \E id \in Ids : Save(r, id)
  BY <1>4, SaveStep
<1> QED
  BY <1>1, <1>2, <1>3, <1>4, InsertTokenStep, CycleIdStep, CycleDeleteStep, InsertUserStep,
     UndoStep DEF Login

\* The steps of the protected routes and of the two logouts.
LEMMA LogoutStep ==
  ASSUME SessionInv, NEW r \in Requests, Logout(r), faults \in 0..MaxFaults
  PROVE  SessionInv'
<1>1. CASE CheckBearer(r)
  <2>1. /\ req[r].at = "bearer" /\ faults' \in 0..MaxFaults
        /\ UNCHANGED <<store, known, used, row, jwt, histVars>>
    BY <1>1 DEF CheckBearer
  <2>2. CASE Respond(r, "401", req[r])
    BY <2>1, <2>2, AnswerStep
  <2>3. CASE req[r].op = "logout" /\ Go(r, [req[r] EXCEPT !.at = "revoke"])
    BY <2>1, <2>3, GoOnStep
  <2>4. CASE req[r].op = "protected" /\ Respond(r, "200", req[r])
    BY <2>1, <2>4, AnswerStep
  <2> QED
    BY <1>1, <2>2, <2>3, <2>4 DEF CheckBearer
<1> QED
  BY <1>1, CheckCsrfStep, RevokeStep, FlushStep, FlushFailsStep DEF Logout

\* What the layer and the timeout do to a request.
LEMMA LayerStep ==
  ASSUME SessionInv, NEW r \in Requests, Layer(r) \/ Cancel(r), faults \in 0..MaxFaults
  PROVE  SessionInv'
<1>1. CASE LayerEnds(r)
  BY <1>1, EndStep DEF LayerEnds, InFlight
<1>2. CASE LayerFails(r)
  <2>1. faults' \in 0..MaxFaults
    BY <1>2, SessionsAssumption DEF LayerFails, Fault
  <2> QED
    BY <1>2, <2>1, EndStep DEF LayerFails, InFlight
<1>3. CASE Cancel(r)
  <2>1. faults' \in 0..MaxFaults
    BY <1>3, SessionsAssumption DEF Cancel, Fault
  <2> QED
    BY <1>3, <2>1, EndStep DEF Cancel
<1> QED
  BY <1>1, <1>2, <1>3, LayerSavesStep DEF Layer

\* The inductive step, one case per action.
LEMMA NextSessionInv == ASSUME SessionInv, [Next]_vars PROVE SessionInv'
<1>1. faults \in 0..MaxFaults
  BY DEF SessionInv, TypeOK
<1>2. ASSUME NEW r \in Requests, Whoami(r) PROVE SessionInv'
  <2>1. faults' \in 0..MaxFaults
    BY <1>1, <1>2, SessionsAssumption DEF Whoami, Fault
  <2>2. req[r].rec = Unloaded /\ req[r].op = "whoami"
    BY <1>2 DEF Whoami, SessionInv, RequestInv, InMemory, OnPath
  <2> QED
    BY <1>2, <2>1, <2>2, AnswerStep DEF Whoami
<1>3. CASE UNCHANGED vars
  <2> USE <1>3 DEF vars, histVars
  <2>1. /\ TypeOK' = TypeOK /\ NewIdsDiffer' = NewIdsDiffer
        /\ StoredUserPublished' = StoredUserPublished /\ OverlapStarted' = OverlapStarted
    BY DEF TypeOK, NewIdsDiffer, HoldsNewId, StoredUserPublished, Published, OverlapStarted
  <2>2. NoFixation' = NoFixation /\ QuietLogoutIsFinal' = QuietLogoutIsFinal
    BY DEF NoFixation, QuietLogoutIsFinal, CsrfOverlapped
  <2>3. ASSUME NEW r \in Requests PROVE RequestInv(r, req[r])' = RequestInv(r, req[r])
    BY DEF RequestInv, OnPath, IdsUsed, InMemory, UserInMemory, Published, TokenOfLogin,
           LogoutSoFar, SavesRemoved, CsrfOverlapped
  <2> QED
    BY <2>1, <2>2, <2>3 DEF SessionInv
<1> QED
  BY <1>1, <1>2, <1>3, BeginStep, CsrfStep, LoginStep, LogoutStep, LayerStep DEF Next

\* The gateway's session layer and its three handlers keep the invariant, however
\* requests with the same cookie overlap and wherever the store fails.
THEOREM SessionInvHolds == Spec => []SessionInv
  BY InitSessionInv, NextSessionInv, PTL DEF Spec

\* The state of every request and of the store has its type.
THEOREM SessionsTypeCorrect == Spec => []TypeOK
<1>1. SessionInv => TypeOK
  BY DEF SessionInv
<1> QED
  BY <1>1, SessionInvHolds, PTL

\* login_handler changes the session id before it inserts the user: an id that
\* existed before any login is never authenticated, for any overlap of requests.
THEOREM NoFixationHolds == Spec => []NoFixation
<1>1. SessionInv => NoFixation
  BY DEF SessionInv
<1> QED
  BY <1>1, SessionInvHolds, PTL

\* A login that answers 500 leaves neither a session nor a usable refresh token,
\* unless remove_unissued_refresh_token failed as well.
THEOREM FailedLoginLeavesNothingHolds == Spec => []FailedLoginLeavesNothing
<1>1. ASSUME SessionInv PROVE FailedLoginLeavesNothing
  <2>1. \A r \in Requests : RequestInv(r, req[r])
    BY <1>1 DEF SessionInv
  <2>2. \A r \in Requests : req[r].status = "500" => ~Published(req[r])
    BY DEF Published
  <2> QED
    BY <1>1, <2>1, <2>2 DEF SessionInv, StoredUserPublished, RequestInv, TokenOfLogin,
       FailedLoginLeavesNothing
<1> QED
  BY <1>1, SessionInvHolds, PTL

\* logout_handler answers 200 only when the earlier refresh tokens are dead and the
\* session of the cookie has been removed.
THEOREM LogoutIsBothHolds == Spec => []LogoutIsBoth
<1>1. ASSUME SessionInv PROVE LogoutIsBoth
  BY <1>1 DEF SessionInv, RequestInv, LogoutSoFar, LogoutIsBoth
<1> QED
  BY <1>1, SessionInvHolds, PTL

\* A session that session.flush() removed comes back with a user only by way of a
\* request for a CSRF token that overlapped the logout.
THEOREM QuietLogoutIsFinalHolds == Spec => []QuietLogoutIsFinal
<1>1. SessionInv => QuietLogoutIsFinal
  BY DEF SessionInv
<1> QED
  BY <1>1, SessionInvHolds, PTL

=============================================================================
