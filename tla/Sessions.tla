------------------------------ MODULE Sessions ------------------------------
(***************************************************************************)
(* The gateway's cookie sessions, with the login and the two logouts that  *)
(* have to keep them in step with the refresh tokens.                      *)
(*                                                                         *)
(* tower-sessions (external) gives every request a Session: the id of its  *)
(* cookie, and the record of that id, loaded when it is first needed.  A   *)
(* handler changes the record in memory; the layer saves a changed one     *)
(* after the handler.  The steps of different requests on the store        *)
(* interleave.  MemoryStore is behind the fallible SessionStore interface, *)
(* whose failures the handlers deal with.                                  *)
(***************************************************************************)
EXTENDS Naturals, FiniteSets

CONSTANTS
  Requests,   \* bound: the HTTP requests of a behaviour
  Ids,        \* bound: session ids that may ever be created
  None,
  MaxFaults   \* bound: failures and cancellations per behaviour

VARIABLES
  store,    \* the record of each id, or Gone
  known,    \* ids that reached a client in a cookie
  used,     \* ids ever created
  req,      \* each request: operation, step and Session
  row,      \* the refresh token of each login
  jwt,      \* an access token was issued
  faults,
  early,    \* history: ids created without a user
  flushed,  \* history: ids a logout removed
  overlap,  \* ... the other requests with that cookie in flight then
  before,   \* history: tokens active when a logout began
  orphans   \* history: logins whose token could not be removed again

histVars == <<early, flushed, overlap, before, orphans>>
vars == <<store, known, used, req, row, jwt, faults, histVars>>

Empty == [user |-> None, csrf |-> "absent"]
Records == [user : Requests \cup {None}, csrf : {"absent", "present"}]
Gone == [user |-> None, csrf |-> "gone"]
Unloaded == [user |-> None, csrf |-> "unloaded"]

Ops == {"csrf", "whoami", "login", "protected", "logout", "sessionLogout"}

ASSUME SessionsAssumption ==
  /\ None \notin Requests \cup Ids \cup Ops
  /\ None \notin {"active", "revoked", "deleted", "200", "500", "504", "unsaved"}
  /\ MaxFaults \in Nat

TypeOK ==
  /\ store \in [Ids -> Records \cup {Gone}]
  /\ known \subseteq used /\ used \subseteq Ids
  /\ \A i \in Ids : store[i] # Gone => i \in used
  /\ req \in [Requests ->
       [op : Ops \cup {None}, cookie : Ids \cup {None}, sid : Ids \cup {None},
        at : {"idle", "csrf", "whoami", "password", "insert", "cycle", "delete", "user",
              "save", "undo", "token", "bearer", "revoke", "flush", "layer", "end"},
        rec : Records \cup {Unloaded}, modified : BOOLEAN,
        status : {None, "200", "400", "401", "403", "500", "504", "unsaved"}]]
  /\ \A r \in Requests :
       req[r].at = "delete" => req[r].cookie \in used /\ req[r].sid = None
  /\ row \in [Requests -> {None, "active", "revoked", "deleted"}]
  /\ jwt \in BOOLEAN /\ faults \in 0..MaxFaults

Idle == [op |-> None, cookie |-> None, sid |-> None, at |-> "idle", rec |-> Unloaded,
         modified |-> FALSE, status |-> None]

Init ==
  /\ store = [i \in Ids |-> Gone]
  /\ known = {} /\ used = {}
  /\ req = [r \in Requests |-> Idle]
  /\ row = [r \in Requests |-> None]
  /\ jwt = FALSE
  /\ faults = MaxFaults
  /\ early = {} /\ flushed = {} /\ orphans = {}
  /\ overlap = [i \in Ids |-> {}]
  /\ before = [r \in Requests |-> {}]

Fault == faults > 0 /\ faults' = faults - 1

\* The request goes on as q.
Go(r, q) == req' = [req EXCEPT ![r] = q]

-----------------------------------------------------------------------------
(* Session, from tower-sessions                                            *)

\* get_record: the record in memory, else the stored one, else a fresh one.
Loaded(r) ==
  LET q == req[r] IN
  IF q.rec # Unloaded THEN q.rec
  ELSE IF q.sid # None /\ store[q.sid] # Gone THEN store[q.sid] ELSE Empty

\* ... and the id, forgotten when its record is not in the store.
LoadedId(r) ==
  LET q == req[r] IN
  IF q.rec = Unloaded /\ q.sid # None /\ store[q.sid] = Gone THEN None ELSE q.sid

\* A request whose Session has been loaded.
Load(r) == [req[r] EXCEPT !.rec = Loaded(r), !.sid = LoadedId(r)]

\* Ids are random and never repeat: which fresh one is taken does not matter.
FreshId == CHOOSE i \in Ids : i \notin used

\* save: a session without an id is created under a new one.
Saved(r, id) ==
  /\ IF req[r].sid = None THEN used # Ids /\ id = FreshId ELSE id = req[r].sid
  /\ store' = [store EXCEPT ![id] = req[r].rec]
  /\ used' = used \cup {id}
  /\ early' = IF req[r].sid = None /\ req[r].rec.user = None THEN early \cup {id} ELSE early

\* The response is sent; the request's Session is gone.
End(r, code) ==
  Go(r, [req[r] EXCEPT !.at = "end", !.status = code, !.sid = None, !.rec = Unloaded,
                       !.modified = FALSE])

\* The handler answers, with the request's Session as in q.
Respond(r, code, q) == Go(r, [q EXCEPT !.at = "layer", !.status = code])

\* A session without id and data counts as empty: its cookie is removed.
IsEmpty(q) == q.sid = None /\ q.rec \in {Empty, Unloaded}

\* SessionManagerLayer, after the handler: a modified session is saved and its
\* id set as the cookie.  After a server error it may or may not try.
LayerSaves(r, id) ==
  LET q == req[r] IN
  /\ q.at = "layer" /\ q.modified /\ ~IsEmpty(q)
  /\ Saved(r, id)
  /\ known' = known \cup {id}
  /\ End(r, q.status)
  /\ jwt' = (jwt \/ (q.op = "login" /\ q.status = "200"))
  /\ UNCHANGED <<row, faults, flushed, overlap, before, orphans>>

LayerEnds(r) ==
  LET q == req[r] IN
  /\ q.at = "layer"
  /\ ~q.modified \/ IsEmpty(q) \/ q.status = "500"
  /\ End(r, q.status)
  /\ UNCHANGED <<store, known, used, row, jwt, faults, histVars>>

\* The layer's own save fails: whatever the handler answered becomes a 500.
LayerFails(r) ==
  /\ req[r].at = "layer" /\ req[r].modified /\ ~IsEmpty(req[r])
  /\ Fault
  /\ End(r, "unsaved")
  /\ UNCHANGED <<store, known, used, row, jwt, histVars>>

-----------------------------------------------------------------------------
(* Requests                                                                *)

InFlight(r) == req[r].at \notin {"idle", "end"}

Entry == [csrf |-> "csrf", whoami |-> "whoami", login |-> "password",
          protected |-> "bearer", logout |-> "token", sessionLogout |-> "token"]

\* A request comes in, with any cookie a client may hold.
Begin(r, op, cookie) ==
  /\ req[r].at = "idle"
  /\ Go(r, [Idle EXCEPT !.op = op, !.at = Entry[op], !.cookie = cookie, !.sid = cookie])
  /\ before' = [before EXCEPT ![r] =
                  IF op = "logout" THEN {l \in Requests : row[l] = "active"} ELSE {}]
  /\ UNCHANGED <<store, known, used, row, jwt, faults, early, flushed, overlap, orphans>>

\* The timeout layer, or a client that hangs up, drops the request where it is.
Cancel(r) ==
  /\ InFlight(r)
  /\ Fault
  /\ End(r, "504")
  /\ UNCHANGED <<store, known, used, row, jwt, histVars>>

\* csrf_token_handler: get_or_create_token
Csrf(r) ==
  /\ req[r].at = "csrf"
  /\ LET rec == Loaded(r) IN
     \/ /\ Respond(r, "200", [req[r] EXCEPT !.rec = [rec EXCEPT !.csrf = "present"],
                                            !.sid = LoadedId(r),
                                            !.modified = (rec.csrf = "absent")])
        /\ UNCHANGED faults
     \/ Fault /\ Respond(r, "500", req[r])
  /\ UNCHANGED <<store, known, used, row, jwt, histVars>>

Whoami(r) ==
  /\ req[r].at = "whoami"
  /\ \/ Respond(r, "200", Load(r)) /\ UNCHANGED faults
     \/ Fault /\ Respond(r, "500", req[r])
  /\ UNCHANGED <<store, known, used, row, jwt, histVars>>

-----------------------------------------------------------------------------
(* login_handler                                                           *)

\* UserId::from_str: text that is not a UUID, and the nil UUID, are refused;
\* so is a payload of the wrong length.
RefuseUserId(r) ==
  /\ req[r].at = "password"
  /\ Respond(r, "400", req[r])
  /\ UNCHANGED <<store, known, used, row, jwt, faults, histVars>>

\* The subject and the password of the configured admin.
CheckPassword(r) ==
  /\ req[r].at = "password"
  /\ Respond(r, "401", req[r]) \/ Go(r, [req[r] EXCEPT !.at = "insert"])
  /\ UNCHANGED <<store, known, used, row, jwt, faults, histVars>>

\* create_jwt fails before anything was written.
CreateJwtFails(r) ==
  /\ req[r].at = "insert"
  /\ Fault
  /\ Respond(r, "500", req[r])
  /\ UNCHANGED <<store, known, used, row, jwt, histVars>>

\* Mutant of AfterInsert: the id is kept.
AfterInsertKeepsId(r) == "user"

\* A session with an id changes it before it is authenticated.
AfterInsert(r) == IF req[r].sid # None THEN "cycle" ELSE "user"

InsertToken(r) ==
  /\ req[r].at = "insert"
  /\ \/ /\ row' = [row EXCEPT ![r] = "active"]
        /\ Go(r, [req[r] EXCEPT !.at = AfterInsert(r)])
        /\ UNCHANGED faults
     \/ Fault /\ Respond(r, "500", req[r]) /\ UNCHANGED row
  /\ UNCHANGED <<store, known, used, jwt, histVars>>

\* cycle_id: the record is loaded and loses its id ...
CycleId(r) ==
  /\ req[r].at = "cycle"
  /\ \/ Go(r, [req[r] EXCEPT !.at = IF LoadedId(r) = None THEN "user" ELSE "delete",
                             !.rec = Loaded(r), !.sid = None,
                             !.modified = (LoadedId(r) = None)])
        /\ UNCHANGED faults
     \/ Fault /\ Go(r, [req[r] EXCEPT !.at = "undo"])
  /\ UNCHANGED <<store, known, used, row, jwt, histVars>>

\* ... and the old one is deleted.
CycleDelete(r) ==
  /\ req[r].at = "delete"
  /\ \/ /\ store' = [store EXCEPT ![req[r].cookie] = Gone]
        /\ Go(r, [req[r] EXCEPT !.at = "user", !.modified = TRUE])
        /\ UNCHANGED faults
     \/ Fault /\ Go(r, [req[r] EXCEPT !.at = "undo"]) /\ UNCHANGED store
  /\ UNCHANGED <<known, used, row, jwt, histVars>>

InsertUser(r) ==
  /\ req[r].at = "user"
  /\ Go(r, [req[r] EXCEPT !.at = "save", !.rec = [Loaded(r) EXCEPT !.user = r],
                          !.sid = LoadedId(r), !.modified = TRUE])
  /\ UNCHANGED <<store, known, used, row, jwt, faults, histVars>>

Save(r, id) ==
  /\ req[r].at = "save"
  /\ Saved(r, id)
  /\ Respond(r, "200", [req[r] EXCEPT !.sid = id])
  /\ UNCHANGED <<known, row, jwt, faults, flushed, overlap, before, orphans>>

\* Mutant of SaveFails: the user stays in the record.
SaveFailsKeepsUser(r) ==
  /\ req[r].at = "save"
  /\ Fault
  /\ Go(r, [req[r] EXCEPT !.at = "undo"])
  /\ UNCHANGED <<store, known, used, row, jwt, histVars>>

\* session.clear(), so that the layer has nothing to save.
SaveFails(r) ==
  /\ req[r].at = "save"
  /\ Fault
  /\ Go(r, [req[r] EXCEPT !.at = "undo", !.rec = Empty])
  /\ UNCHANGED <<store, known, used, row, jwt, histVars>>

\* remove_unissued_refresh_token, which may fail as well
Undo(r) ==
  /\ req[r].at = "undo"
  /\ Respond(r, "500", req[r])
  /\ \/ row' = [row EXCEPT ![r] = "deleted"] /\ UNCHANGED <<faults, orphans>>
     \/ Fault /\ orphans' = orphans \cup {r} /\ UNCHANGED row
  /\ UNCHANGED <<store, known, used, jwt, early, flushed, overlap, before>>

-----------------------------------------------------------------------------
(* Protected routes and the two logouts                                    *)

\* CsrfMiddleware: the header has to repeat the token of the session.
CheckCsrf(r) ==
  /\ req[r].at = "token"
  /\ \/ /\ Loaded(r).csrf = "present"
        /\ Go(r, [Load(r) EXCEPT !.at = IF req[r].op = "logout" THEN "bearer" ELSE "flush"])
     \/ Respond(r, "403", Load(r))
  /\ UNCHANGED <<store, known, used, row, jwt, faults, histVars>>

\* validate_jwt accepts only tokens that were issued.  Whether one has expired
\* by now is left open.
ValidateJwt == jwt

\* auth_middleware
CheckBearer(r) ==
  /\ req[r].at = "bearer"
  /\ \/ Respond(r, "401", req[r])
     \/ ValidateJwt /\ req[r].op = "logout" /\ Go(r, [req[r] EXCEPT !.at = "revoke"])
     \/ ValidateJwt /\ req[r].op = "protected" /\ Respond(r, "200", req[r])
  /\ UNCHANGED <<store, known, used, row, jwt, faults, histVars>>

\* logout_handler; only a success goes on to the session.
Revoke(r) ==
  /\ req[r].at = "revoke"
  /\ \/ /\ row' = [l \in Requests |-> IF row[l] = "active" THEN "revoked" ELSE row[l]]
        /\ Go(r, [req[r] EXCEPT !.at = "flush"])
        /\ UNCHANGED faults
     \/ Fault /\ Respond(r, "500", req[r]) /\ UNCHANGED row
  /\ UNCHANGED <<store, known, used, jwt, histVars>>

Flushed(r) ==
  LET id == req[r].sid IN
  /\ flushed' = flushed \cup {id}
  /\ overlap' = [overlap EXCEPT ![id] =
                   {o \in Requests \ {r} : InFlight(o) /\ req[o].cookie = id}]

\* Mutant of Flush: the session is emptied but stays in the store.
FlushClears(r) ==
  /\ req[r].at = "flush"
  /\ Respond(r, "200", [req[r] EXCEPT !.rec = Empty, !.sid = None, !.modified = TRUE])
  /\ Flushed(r)
  /\ UNCHANGED <<store, known, used, row, jwt, faults, early, before, orphans>>

\* session.flush()
Flush(r) ==
  /\ req[r].at = "flush"
  /\ store' = [store EXCEPT ![req[r].sid] = Gone]
  /\ Respond(r, "200", [req[r] EXCEPT !.rec = Empty, !.sid = None, !.modified = TRUE])
  /\ Flushed(r)
  /\ UNCHANGED <<known, used, row, jwt, faults, early, before, orphans>>

\* Mutant of FlushFails: the store's error is dropped.
FlushFailsSilently(r) ==
  /\ req[r].at = "flush"
  /\ Fault
  /\ Respond(r, "200", [req[r] EXCEPT !.rec = Empty, !.modified = TRUE])
  /\ UNCHANGED <<store, known, used, row, jwt, histVars>>

\* ... has emptied the session in memory when the store fails to delete it.
FlushFails(r) ==
  /\ req[r].at = "flush"
  /\ Fault
  /\ Respond(r, "500", [req[r] EXCEPT !.rec = Empty, !.modified = TRUE])
  /\ UNCHANGED <<store, known, used, row, jwt, histVars>>

-----------------------------------------------------------------------------

Login(r) ==
  \/ RefuseUserId(r) \/ CheckPassword(r) \/ CreateJwtFails(r)
  \/ InsertToken(r) \/ CycleId(r) \/ CycleDelete(r) \/ InsertUser(r)
  \/ \E id \in Ids : Save(r, id)
  \/ SaveFails(r) \/ Undo(r)

Logout(r) == CheckCsrf(r) \/ CheckBearer(r) \/ Revoke(r) \/ Flush(r) \/ FlushFails(r)

Layer(r) == LayerEnds(r) \/ LayerFails(r) \/ \E id \in Ids : LayerSaves(r, id)

Next ==
  \E r \in Requests :
    \/ \E op \in Ops, cookie \in known \cup {None} : Begin(r, op, cookie)
    \/ Csrf(r) \/ Whoami(r) \/ Login(r) \/ Logout(r) \/ Layer(r) \/ Cancel(r)

Spec == Init /\ [][Next]_vars

-----------------------------------------------------------------------------
(* Properties                                                              *)

\* A session id a client had before a login never becomes an authenticated one,
\* however requests with the old id overlap the login.
NoFixation == \A i \in early : store[i].user = None

\* A login that answers 500 leaves no session for it, whatever the layer does
\* afterwards, and no usable refresh token unless removing that failed too.
FailedLoginLeavesNothing ==
  \A r \in Requests :
    req[r].op = "login" /\ req[r].at = "end" /\ req[r].status = "500" =>
      /\ \A i \in Ids : store[i].user # r
      /\ row[r] = "active" => r \in orphans

\* /auth/logout answers 200 only when both mechanisms are logged out: every
\* refresh token from before it is dead and the session was removed.
LogoutIsBoth ==
  \A r \in Requests :
    req[r].op = "logout" /\ req[r].status = "200" =>
      /\ \A l \in before[r] : row[l] # "active"
      /\ req[r].cookie \in flushed

\* A session that a logout removed is authenticated again only if a request for
\* a CSRF token with the same cookie was in flight at that moment: it saves the
\* record it had loaded.
QuietLogoutIsFinal ==
  \A i \in flushed :
    store[i].user # None => \E o \in overlap[i] : req[o].op = "csrf"

=============================================================================
