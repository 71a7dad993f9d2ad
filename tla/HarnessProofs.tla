---------------------------- MODULE HarnessProofs ----------------------------
(***************************************************************************)
(* The shared server and the browsers of the tests, for any number of      *)
(* tests and faults.                                                       *)
(*                                                                         *)
(* The shared server: the cell is written once, by a start that has come   *)
(* past its database and its server, or by a start that failed; and        *)
(* bg_init_done is set only after it.  So what a test is given is what     *)
(* every test is given, and it lasts.                                      *)
(*                                                                         *)
(* The browsers: COUNTER hands every test a number of its own, so that no  *)
(* teardown removes the profile directory of another test.                 *)
(***************************************************************************)
EXTENDS Harness, FiniteSetTheorems, TLAPS

\* Where start begins the container and where it spawns the server.
DatabaseAt == IF kind = "live" THEN 2 ELSE 3
SpawnAt == IF kind = "live" THEN 7 ELSE 5

\* While start runs, what is up is what the steps before have brought up.
StartInv ==
  bg = "starting" =>
    /\ once /\ ~done /\ cell = "empty"
    /\ at \in 1..Len(Steps)
    /\ database = IF at > DatabaseAt THEN "up" ELSE "none"
    /\ srv = "none" <=> at <= SpawnAt

\* The other states of the thread, and what it has left in the cell.
CellInv ==
  /\ ~once => bg = "none"
  /\ bg = "none" => database = "none" /\ srv = "none"
  /\ bg = "none" /\ ~once => cell = "empty" /\ ~done
  /\ bg = "none" /\ once => cell = "err" /\ done
  /\ bg = "stored" => once /\ cell # "empty" /\ ~done
  /\ bg = "pending" => once /\ cell = "ok" /\ done
  /\ bg = "ended" => once /\ (IF done THEN cell = "err" ELSE cell = "empty")
  /\ cell = "ok" => srv = "serving" /\ database = "up"

\* What get has returned is what the cell holds.
ResultInv ==
  \A t \in Tests :
    /\ result[t] \in {"ok", "err"} => done /\ cell = result[t]
    /\ result[t] # "uninitialized"

\* The tests that have a profile directory, and the number that is theirs alone.
Launched == {t \in Tests : dir[t] # 0}

DirInv ==
  /\ counter = Cardinality(Launched)
  /\ \A t \in Tests : dir[t] <= counter
  /\ \A t, u \in Tests : t # u /\ dir[t] = dir[u] => dir[t] = 0
  /\ \A t \in Tests : stage[t] \in {"new", "polling", "launch"} => dir[t] = 0

\* A handler task that is still running when its test has ended has been told to
\* stop, by its token or by the end of its event stream.
HandlerTold ==
  \A t \in Tests : handler[t] = "running" =>
    stage[t] \in {"page", "open", "close", "cancel"} \/ stop[t]

\* The inductive invariant, in the two halves that meet only in result and stage.
ServerTypes ==
  /\ kind \in {"live", "gateway"}
  /\ once \in BOOLEAN /\ done \in BOOLEAN
  /\ bg \in {"none", "starting", "stored", "pending", "ended"}
  /\ at \in 1..9
  /\ cell \in {"empty", "ok", "err"}
  /\ database \in {"none", "up", "dropped"}
  /\ srv \in {"none", "starting", "serving", "failed"}
  /\ result \in [Tests -> {"none", "ok", "err", "timeout", "uninitialized"}]

BrowserTypes ==
  /\ stage \in [Tests -> {"new", "polling", "launch", "page", "open", "close", "cancel",
                          "end"}]
  /\ counter \in Nat
  /\ dir \in [Tests -> Nat] /\ dirs \subseteq 1..counter
  /\ handler \in [Tests -> {"none", "running", "ended"}]
  /\ stop \in [Tests -> BOOLEAN]

ServerInv == ServerTypes /\ StartInv /\ CellInv /\ ResultInv

BrowserInv == BrowserTypes /\ DirInv /\ BrowserHasProfile /\ HandlerTold

\* ... and a test that has not been answered has no result.
Unanswered == \A t \in Tests : stage[t] \in {"new", "polling"} => result[t] = "none"

HarnessInv == ServerInv /\ BrowserInv /\ Unanswered /\ faults \in 0..MaxFaults

\* once.rs:76-108: nobody is told "server not initialized", and all who are given
\* an outcome of the start are given the same one.
OneOutcome ==
  /\ \A t \in Tests : result[t] # "uninitialized"
  /\ \A t, u \in Tests : result[t] = "ok" => result[u] # "err"

\* What a start has stored and what get has returned is final; start runs once; and
\* a server that was stored is not taken away.
OutcomeIsFinal ==
  [][/\ cell # "empty" => cell' = cell
     /\ \A t \in Tests : result[t] # "none" => result'[t] = result[t]
     /\ bg' = "starting" => bg \in {"none", "starting"}
     /\ cell = "ok" => UNCHANGED envVars]_vars

-----------------------------------------------------------------------------
(* start and SharedServer::get                                             *)

\* Where the steps of start are.
LEMMA StepsFacts ==
  ASSUME kind \in {"live", "gateway"}
  PROVE  /\ Len(Steps) \in 7..9 /\ DatabaseAt \in 2..3 /\ SpawnAt \in 5..7
         /\ DatabaseAt < SpawnAt /\ SpawnAt + 2 = Len(Steps)
         /\ \A i \in 1..Len(Steps) : /\ Steps[i] = "database" <=> i = DatabaseAt
                                     /\ Steps[i] = "spawn" <=> i = SpawnAt
                                     /\ Steps[i] = "bind" => SpawnAt < i
<1>1. CASE kind = "live"
  <2> DEFINE S == <<"runtime", "database", "pool", "context", "leptos", "assets", "spawn",
                    "bind", "ready">>
  <2>1. Steps = S /\ DatabaseAt = 2 /\ SpawnAt = 7
    BY <1>1 DEF Steps, DatabaseAt, SpawnAt
  <2>2. Len(S) = 9
    OBVIOUS
  <2>3. \A i \in 1..9 : /\ S[i] = "database" <=> i = 2
                        /\ S[i] = "spawn" <=> i = 7
                        /\ S[i] = "bind" => i = 8
    OBVIOUS
  <2> HIDE DEF S
  <2> QED
    BY <2>1, <2>2, <2>3
<1>2. CASE kind = "gateway"
  <2> DEFINE S == <<"runtime", "keys", "database", "build", "spawn", "bind", "ready">>
  <2>1. Steps = S /\ DatabaseAt = 3 /\ SpawnAt = 5
    BY <1>2 DEF Steps, DatabaseAt, SpawnAt
  <2>2. Len(S) = 7
    OBVIOUS
  <2>3. \A i \in 1..7 : /\ S[i] = "database" <=> i = 3
                        /\ S[i] = "spawn" <=> i = 5
                        /\ S[i] = "bind" => i = 6
    OBVIOUS
  <2> HIDE DEF S
  <2> QED
    BY <2>1, <2>2, <2>3
<1> QED
  BY <1>1, <1>2

\* A failure is taken from a budget.
LEMMA FaultSpent ==
  ASSUME faults \in 0..MaxFaults, Fault \/ UNCHANGED faults
  PROVE  faults' \in 0..MaxFaults
  BY HarnessAssumption DEF Fault

\* The step after i, and whether it is past p.
LEMMA StepForward ==
  ASSUME NEW n \in 7..9, NEW i \in 1..n, NEW p \in 2..7, i < n
  PROVE  /\ i + 1 \in 1..n /\ i + 1 \in 1..9
         /\ (i + 1 > p <=> i > p \/ i = p)
         /\ (i + 1 <= p <=> i <= p /\ i # p)
  OBVIOUS

\* The first step is before the container and the server.
LEMMA FirstStep ==
  ASSUME NEW n \in 7..9, NEW d \in 2..3, NEW s \in 5..7
  PROVE  1 \in 1..n /\ ~(1 > d) /\ 1 <= s
  OBVIOUS

\* One step of start.
LEMMA StartStepInv ==
  ASSUME ServerInv, StartStep
  PROVE  ServerInv'
<1>1. /\ bg = "starting" /\ at < Len(Steps) /\ at' = at + 1
      /\ UNCHANGED <<kind, once, bg, cell, done, result>>
  BY DEF StartStep
<1>2. /\ kind \in {"live", "gateway"} /\ at \in 1..Len(Steps)
      /\ once /\ ~done /\ cell = "empty"
  BY <1>1 DEF ServerInv, ServerTypes, StartInv
<1>3. Steps' = Steps /\ DatabaseAt' = DatabaseAt /\ SpawnAt' = SpawnAt
  BY <1>1 DEF Steps, DatabaseAt, SpawnAt
<1>4. /\ Len(Steps) \in 7..9 /\ DatabaseAt \in 2..7 /\ SpawnAt \in 2..7
      /\ Steps[at] = "database" <=> at = DatabaseAt
      /\ Steps[at] = "spawn" <=> at = SpawnAt
  BY <1>2, StepsFacts
<1>5. database' = IF at' > DatabaseAt THEN "up" ELSE "none"
  <2>1. database' = IF at = DatabaseAt THEN "up" ELSE database
    BY <1>4 DEF StartStep, Postgres
  <2>2. database = IF at > DatabaseAt THEN "up" ELSE "none"
    BY <1>1 DEF ServerInv, StartInv
  <2>3. at + 1 > DatabaseAt <=> at > DatabaseAt \/ at = DatabaseAt
    BY <1>1, <1>2, <1>4, StepForward
  <2> QED
    BY <1>1, <2>1, <2>2, <2>3
<1>6. srv' = "none" <=> at' <= SpawnAt
  <2>1. srv' = IF at = SpawnAt THEN "starting" ELSE srv
    BY <1>4 DEF StartStep
  <2>2. srv = "none" <=> at <= SpawnAt
    BY <1>1 DEF ServerInv, StartInv
  <2>3. at + 1 <= SpawnAt <=> at <= SpawnAt /\ at # SpawnAt
    BY <1>1, <1>2, <1>4, StepForward
  <2> QED
    BY <1>1, <2>1, <2>2, <2>3
<1>7. at' \in 1..Len(Steps) /\ at' \in 1..9
  BY <1>1, <1>2, <1>4, StepForward
<1>8. database' \in {"none", "up", "dropped"} /\ srv' \in {"none", "starting", "serving", "failed"}
  BY DEF ServerInv, ServerTypes, StartStep, Postgres
<1>9. ServerTypes'
  BY <1>1, <1>7, <1>8 DEF ServerInv, ServerTypes
<1>10. StartInv'
  BY <1>1, <1>2, <1>3, <1>5, <1>6, <1>7 DEF StartInv
<1>11. CellInv' /\ ResultInv'
  BY <1>1, <1>2 DEF ServerInv, CellInv, ResultInv
<1> QED
  BY <1>9, <1>10, <1>11 DEF ServerInv

\* start ends: its last step is past both the database and the server.
LEMMA StartEndsInv ==
  ASSUME ServerInv, StartOk \/ StartErr \/ StartPanics
  PROVE  ServerInv'
<1>1. /\ bg = "starting" /\ UNCHANGED <<kind, once, at, done, srv, result>>
      /\ bg' \in {"stored", "ended"} /\ database' \in {database, "dropped"}
      /\ cell' \in {cell, "ok", "err"}
  BY DEF StartOk, StartErr, StartPanics, envVars
<1>2. /\ once /\ ~done /\ cell = "empty"
  BY <1>1 DEF ServerInv, StartInv
<1>3. ServerTypes'
  BY <1>1 DEF ServerInv, ServerTypes
<1>4. StartOk => database' = "up" /\ srv' = "serving"
  <2>1. ASSUME StartOk PROVE database = "up" /\ srv = "serving" /\ UNCHANGED envVars
    <3>1. at = Len(Steps) /\ srv = "serving" /\ UNCHANGED envVars
      BY <2>1 DEF StartOk
    <3>2. Len(Steps) > DatabaseAt
      BY StepsFacts DEF ServerInv, ServerTypes
    <3> QED
      BY <1>1, <3>1, <3>2 DEF ServerInv, StartInv
  <2> QED
    BY <2>1 DEF envVars
<1>5. /\ StartOk => bg' = "stored" /\ cell' = "ok"
      /\ StartErr => bg' = "stored" /\ cell' = "err"
      /\ StartPanics => bg' = "ended" /\ cell' = "empty"
  BY <1>2 DEF StartOk, StartErr, StartPanics
<1>6. CellInv'
  BY <1>1, <1>2, <1>4, <1>5 DEF CellInv
<1>7. StartInv' /\ ResultInv'
  BY <1>1, <1>2 DEF ServerInv, StartInv, ResultInv
<1> QED
  BY <1>3, <1>6, <1>7 DEF ServerInv

\* bg_init_done is set when the cell has been.
LEMMA FlagInv == ASSUME ServerInv, Flag PROVE ServerInv'
<1>1. /\ bg = "stored" /\ bg' = IF cell = "err" THEN "ended" ELSE "pending"
      /\ UNCHANGED <<kind, once, at, cell, database, srv, result>>
  BY DEF Flag, envVars
<1>2. done' = TRUE
  BY DEF Flag
<1>3. cell \in {"ok", "err"} /\ once
  BY <1>1 DEF ServerInv, ServerTypes, CellInv
<1>4. done' \in BOOLEAN
  BY <1>2
<1>5. ServerTypes'
  BY <1>1, <1>4 DEF ServerInv, ServerTypes
<1>6. StartInv' /\ CellInv'
  BY <1>1, <1>2, <1>3 DEF ServerInv, StartInv, CellInv
<1>7. ResultInv'
  BY <1>1, <1>2 DEF ServerInv, ResultInv
<1> QED
  BY <1>5, <1>6, <1>7 DEF ServerInv

\* The server's thread binds or fails: it has been spawned, and is not serving yet.
LEMMA ServerBindsInv == ASSUME ServerInv, ServerBinds PROVE ServerInv'
<1>1. /\ srv = "starting" /\ srv' \in {"serving", "failed"}
      /\ UNCHANGED <<kind, once, bg, at, cell, done, database, result>>
  BY DEF ServerBinds, initVars
<1>2. ServerTypes'
  BY <1>1 DEF ServerInv, ServerTypes
<1>3. Steps' = Steps /\ DatabaseAt' = DatabaseAt /\ SpawnAt' = SpawnAt
  BY <1>1 DEF Steps, DatabaseAt, SpawnAt
<1>4. StartInv'
  BY <1>1, <1>3 DEF ServerInv, StartInv
<1>5. CellInv' /\ ResultInv'
  BY <1>1 DEF ServerInv, CellInv, ResultInv
<1> QED
  BY <1>2, <1>4, <1>5 DEF ServerInv

\* The first call of get starts the thread, or stores that it could not.
LEMMA CallInv == ASSUME ServerInv, NEW t \in Tests, Call(t) PROVE ServerInv'
<1>1. UNCHANGED <<kind, database, srv, result>> /\ once'
  BY DEF Call, envVars
<1>2. once' \in BOOLEAN
  BY DEF Call
<1>3. CASE once /\ UNCHANGED <<bg, at, cell, done>>
  <2>1. ServerTypes'
    BY <1>1, <1>2, <1>3 DEF ServerInv, ServerTypes
  <2>2. Steps' = Steps /\ DatabaseAt' = DatabaseAt /\ SpawnAt' = SpawnAt
    BY <1>1 DEF Steps, DatabaseAt, SpawnAt
  <2>3. StartInv'
    BY <1>1, <1>3, <2>2 DEF ServerInv, StartInv
  <2>4. CellInv' /\ ResultInv'
    BY <1>1, <1>3 DEF ServerInv, CellInv, ResultInv
  <2> QED
    BY <2>1, <2>3, <2>4 DEF ServerInv
<1>4. CASE ~once /\ bg' = "starting" /\ at' = 1 /\ UNCHANGED <<cell, done>>
  <2>1. database = "none" /\ srv = "none" /\ cell = "empty" /\ ~done
    BY <1>4 DEF ServerInv, CellInv
  <2>2. ServerTypes'
    BY <1>1, <1>2, <1>4 DEF ServerInv, ServerTypes
  <2>3. /\ at' \in 1..Len(Steps') /\ ~(at' > DatabaseAt') /\ at' <= SpawnAt'
    <3>1. kind \in {"live", "gateway"} /\ Steps' = Steps /\ DatabaseAt' = DatabaseAt
          /\ SpawnAt' = SpawnAt
      BY <1>1 DEF ServerInv, ServerTypes, Steps, DatabaseAt, SpawnAt
    <3>2. Len(Steps) \in 7..9 /\ DatabaseAt \in 2..3 /\ SpawnAt \in 5..7
      BY <3>1, StepsFacts
    <3> QED
      BY <1>4, <3>1, <3>2, FirstStep
  <2>4. StartInv'
    BY <1>1, <1>4, <2>1, <2>3 DEF StartInv
  <2>5. CellInv' /\ ResultInv'
    BY <1>1, <1>4, <2>1 DEF ServerInv, CellInv, ResultInv
  <2> QED
    BY <2>2, <2>4, <2>5 DEF ServerInv
<1>5. CASE ~once /\ cell' = "err" /\ done' = TRUE /\ UNCHANGED <<bg, at>>
  <2>1. bg = "none" /\ database = "none" /\ srv = "none" /\ cell = "empty" /\ ~done
    BY <1>5 DEF ServerInv, CellInv
  <2>2. done' \in BOOLEAN
    BY <1>5
  <2>3. ServerTypes'
    BY <1>1, <1>2, <1>5, <2>2 DEF ServerInv, ServerTypes
  <2>4. StartInv' /\ CellInv'
    BY <1>1, <1>5, <2>1 DEF StartInv, CellInv
  <2>5. ResultInv'
    BY <1>1, <2>1 DEF ServerInv, ResultInv
  <2> QED
    BY <2>3, <2>4, <2>5 DEF ServerInv
<1> QED
  BY <1>3, <1>4, <1>5 DEF Call, CallOnce

\* get returns what the cell holds, or gives up.
LEMMA GetInv == ASSUME ServerInv, NEW t \in Tests, Get(t) PROVE ServerInv'
<1>1. UNCHANGED <<kind, once, bg, at, cell, done, database, srv>>
  BY DEF Get, Poll, PollTimeout, initVars, envVars
<1>2. PICK r \in {"ok", "err", "timeout"} :
        result' = [result EXCEPT ![t] = r] /\ (r \in {"ok", "err"} => done /\ cell = r)
  <2>1. CASE Poll(t)
    <3>1. done /\ cell \in {"ok", "err"}
      BY <2>1 DEF Poll, ServerInv, ServerTypes, StartInv, CellInv
    <3>2. result' = [result EXCEPT ![t] = cell]
      BY <2>1, <3>1 DEF Poll, Returned
    <3> QED
      BY <3>1, <3>2
  <2>2. CASE PollTimeout(t)
    BY <2>2 DEF PollTimeout, Returned
  <2> QED
    BY <2>1, <2>2 DEF Get
<1>3. result \in [Tests -> {"none", "ok", "err", "timeout", "uninitialized"}]
  BY DEF ServerInv, ServerTypes
<1>4. ServerTypes'
  BY <1>1, <1>2, <1>3 DEF ServerInv, ServerTypes
<1>5. Steps' = Steps /\ DatabaseAt' = DatabaseAt /\ SpawnAt' = SpawnAt
  BY <1>1 DEF Steps, DatabaseAt, SpawnAt
<1>6. StartInv' /\ CellInv'
  BY <1>1, <1>5 DEF ServerInv, StartInv, CellInv
<1>7. ResultInv'
  BY <1>1, <1>2, <1>3 DEF ServerInv, ResultInv
<1> QED
  BY <1>4, <1>6, <1>7 DEF ServerInv

\* What happens to a browser is nothing to the server.
LEMMA ServerUntouched ==
  ASSUME ServerInv, UNCHANGED <<kind, initVars, envVars, result>>
  PROVE  ServerInv'
<1>1. UNCHANGED <<kind, once, bg, at, cell, done, database, srv, result>>
  BY DEF initVars, envVars
<1>2. Steps' = Steps /\ DatabaseAt' = DatabaseAt /\ SpawnAt' = SpawnAt
  BY <1>1 DEF Steps, DatabaseAt, SpawnAt
<1>3. ServerTypes' /\ StartInv'
  BY <1>1, <1>2 DEF ServerInv, ServerTypes, StartInv
<1>4. CellInv' /\ ResultInv'
  BY <1>1 DEF ServerInv, CellInv, ResultInv
<1> QED
  BY <1>3, <1>4 DEF ServerInv

-----------------------------------------------------------------------------
(* The browsers                                                            *)

\* One more test has a directory.
LEMMA LaunchCounted ==
  ASSUME BrowserTypes, DirInv, NEW t \in Tests, dir[t] = 0
  PROVE  Cardinality(Launched \cup {t}) = counter + 1
<1>1. IsFiniteSet(Launched) /\ t \notin Launched
  <2>1. Launched \subseteq Tests
    BY DEF Launched
  <2>2. IsFiniteSet(Launched)
    BY <2>1, HarnessAssumption, FS_Subset
  <2> QED
    BY <2>2 DEF Launched
<1>2. Cardinality(Launched \cup {t}) = Cardinality(Launched) + 1
  BY <1>1, FS_AddElement
<1> QED
  BY <1>2 DEF DirInv

\* fetch_add gives the test a number above every other, and the directory exists.
LEMMA SetupInv ==
  ASSUME BrowserInv, NEW t \in Tests, Setup(t)
  PROVE  BrowserInv'
<1> DEFINE n == counter + 1
<1>1. /\ stage[t] = "launch" /\ dir' = [dir EXCEPT ![t] = n] /\ counter' = n
      /\ dirs' = dirs \cup {dir'[t]} /\ UNCHANGED stop
  BY DEF Setup, UniqueProfileDir
<1>2. PICK s \in {"page", "end"} :
        /\ stage' = [stage EXCEPT ![t] = s]
        /\ handler' \in {handler, [handler EXCEPT ![t] = "running"]}
        /\ s = "end" => UNCHANGED handler
  BY DEF Setup
<1>3. /\ dir \in [Tests -> Nat] /\ counter \in Nat /\ n \in Nat \ {0}
      /\ dirs \subseteq 1..counter /\ dir[t] = 0
      /\ \A u \in Tests : dir[u] <= counter
  BY <1>1 DEF BrowserInv, BrowserTypes, DirInv
<1>4. dir'[t] = n /\ \A u \in Tests \ {t} : dir'[u] = dir[u]
  BY <1>1, <1>3
<1>5. 1..counter \subseteq 1..n /\ n \in 1..n /\ \A m \in Nat : m <= counter => m <= n /\ m # n
  BY <1>3
<1>6. BrowserTypes'
  <2>1. dirs' \subseteq 1..counter' /\ counter' \in Nat /\ dir' \in [Tests -> Nat]
    BY <1>1, <1>3, <1>4, <1>5
  <2>2. /\ stage \in [Tests -> {"new", "polling", "launch", "page", "open", "close",
                                "cancel", "end"}]
        /\ handler \in [Tests -> {"none", "running", "ended"}]
        /\ stop' \in [Tests -> BOOLEAN]
    BY <1>1 DEF BrowserInv, BrowserTypes
  <2>3. /\ stage' \in [Tests -> {"new", "polling", "launch", "page", "open", "close",
                                 "cancel", "end"}]
        /\ handler' \in [Tests -> {"none", "running", "ended"}]
    BY <1>2, <2>2
  <2> QED
    BY <2>1, <2>2, <2>3 DEF BrowserTypes
<1>7. /\ stage'[t] = s /\ \A u \in Tests \ {t} : stage'[u] = stage[u] /\ handler'[u] = handler[u]
  BY <1>2 DEF BrowserInv, BrowserTypes
<1> HIDE DEF n
<1>8. DirInv'
  <2>1. Launched' = Launched \cup {t}
    BY <1>3, <1>4 DEF Launched
  <2>2. counter' = Cardinality(Launched')
    BY <1>1, <1>3, <2>1, LaunchCounted DEF BrowserInv, n
  <2>3. \A u \in Tests : dir'[u] <= counter'
    BY <1>1, <1>3, <1>4, <1>5
  <2>4. \A u \in Tests \ {t} : dir'[u] # n
    BY <1>3, <1>4, <1>5
  <2>5. \A u, v \in Tests : u # v /\ dir'[u] = dir'[v] => dir'[u] = 0
    BY <1>4, <2>4 DEF BrowserInv, DirInv
  <2>6. \A u \in Tests : stage'[u] \in {"new", "polling", "launch"} => dir'[u] = 0
    BY <1>4, <1>7 DEF BrowserInv, DirInv
  <2> QED
    BY <2>2, <2>3, <2>5, <2>6 DEF DirInv
<1>9. BrowserHasProfile'
  BY <1>1, <1>3, <1>4, <1>7 DEF BrowserInv, BrowserHasProfile
<1>10. HandlerTold'
  <2>1. ASSUME NEW u \in Tests \ {t}, handler'[u] = "running"
        PROVE  stage'[u] \in {"page", "open", "close", "cancel"} \/ stop'[u]
    BY <1>1, <1>7, <2>1 DEF BrowserInv, HandlerTold
  <2>2. ASSUME handler'[t] = "running"
        PROVE  stage'[t] \in {"page", "open", "close", "cancel"} \/ stop'[t]
    BY <1>1, <1>2, <1>7, <2>2 DEF BrowserInv, HandlerTold
  <2> QED
    BY <2>1, <2>2 DEF HandlerTold
<1> QED
  BY <1>6, <1>8, <1>9, <1>10 DEF BrowserInv

\* The page, the teardown and the end of the handler.  What is told to stop stays
\* told; only the end of the teardown removes a directory, and it is the test's own.
LEMMA TeardownInv ==
  ASSUME BrowserInv, NEW t \in Tests,
         NewPage(t) \/ ClosePage(t) \/ CloseBrowser(t) \/ CancelHandler(t) \/ HandlerEnds(t)
  PROVE  BrowserInv'
<1>1. /\ UNCHANGED <<counter, dir>> /\ dirs' \in {dirs, dirs \ {dir[t]}}
      /\ stop' \in {stop, [stop EXCEPT ![t] = TRUE]}
      /\ handler' \in {handler, [handler EXCEPT ![t] = "ended"]}
  BY DEF NewPage, ClosePage, CloseBrowser, CancelHandler, HandlerEnds, browserVars
<1>2. /\ stage \in [Tests -> {"new", "polling", "launch", "page", "open", "close",
                              "cancel", "end"}]
      /\ handler \in [Tests -> {"none", "running", "ended"}]
      /\ stop \in [Tests -> BOOLEAN]
  BY DEF BrowserInv, BrowserTypes
<1>3. PICK s \in {stage[t], "open", "close", "cancel", "end"} :
        /\ stage' = [stage EXCEPT ![t] = s]
        /\ s # stage[t] => stage[t] \in {"page", "open", "close", "cancel"}
        /\ s = "end" /\ s # stage[t] => stop' = [stop EXCEPT ![t] = TRUE]
        /\ dirs' # dirs => s = "end"
  <2>1. CASE NewPage(t)
    BY <2>1 DEF NewPage
  <2>2. CASE ClosePage(t)
    BY <2>2 DEF ClosePage, browserVars
  <2>3. CASE CloseBrowser(t)
    BY <2>3 DEF CloseBrowser
  <2>4. CASE CancelHandler(t)
    BY <2>4 DEF CancelHandler
  <2>5. CASE HandlerEnds(t)
    <3>1. UNCHANGED <<stage, dirs>> /\ stage = [stage EXCEPT ![t] = stage[t]]
      BY <1>2, <2>5 DEF HandlerEnds
    <3> QED
      BY <3>1
  <2> QED
    BY <2>1, <2>2, <2>3, <2>4, <2>5
<1>4. BrowserTypes'
  <2>1. stage' \in [Tests -> {"new", "polling", "launch", "page", "open", "close",
                              "cancel", "end"}]
    BY <1>2, <1>3
  <2>2. handler' \in [Tests -> {"none", "running", "ended"}]
    BY <1>1, <1>2
  <2>3. stop' \in [Tests -> BOOLEAN]
    BY <1>1, <1>2
  <2> QED
    BY <1>1, <2>1, <2>2, <2>3 DEF BrowserInv, BrowserTypes
<1>5. stage'[t] = s /\ \A u \in Tests \ {t} : stage'[u] = stage[u]
  BY <1>2, <1>3
<1>6. DirInv'
  BY <1>1, <1>3, <1>5 DEF BrowserInv, DirInv, Launched
<1>7. BrowserHasProfile'
  <2> SUFFICES ASSUME NEW u \in Tests, stage'[u] \in {"page", "open", "close", "cancel"}
               PROVE  dir[u] # 0 /\ dir[u] \in dirs'
    BY <1>1 DEF BrowserHasProfile
  <2>1. stage[u] \in {"page", "open", "close", "cancel"}
    BY <1>3, <1>5
  <2>2. dir[u] # 0 /\ dir[u] \in dirs
    BY <2>1 DEF BrowserInv, BrowserHasProfile
  <2>3. CASE u = t
    BY <1>3, <1>5, <2>2, <2>3
  <2>4. CASE u # t
    BY <1>1, <2>2, <2>4 DEF BrowserInv, DirInv
  <2> QED
    BY <2>3, <2>4
<1>8. HandlerTold'
  <2> SUFFICES ASSUME NEW u \in Tests, handler'[u] = "running"
               PROVE  stage'[u] \in {"page", "open", "close", "cancel"} \/ stop'[u]
    BY DEF HandlerTold
  <2>1. handler[u] = "running" /\ (stop[u] => stop'[u])
    BY <1>1, <1>2
  <2>2. stage[u] \in {"page", "open", "close", "cancel"} \/ stop[u]
    BY <2>1 DEF BrowserInv, HandlerTold
  <2>3. CASE u # t
    BY <1>5, <2>1, <2>2, <2>3
  <2>4. CASE u = t /\ s = "end" /\ s # stage[t]
    BY <1>2, <1>3, <2>4
  <2>5. CASE u = t /\ (s # "end" \/ s = stage[t])
    BY <1>3, <1>5, <2>1, <2>2, <2>5
  <2> QED
    BY <2>3, <2>4, <2>5
<1> QED
  BY <1>4, <1>6, <1>7, <1>8 DEF BrowserInv

\* get moves a test on, before its browser exists.
LEMMA BeforeBrowserInv ==
  ASSUME BrowserInv, NEW t \in Tests, Call(t) \/ Get(t)
  PROVE  BrowserInv'
<1>1. /\ UNCHANGED <<counter, dir, dirs, handler, stop>>
      /\ stage[t] \in {"new", "polling"}
  BY DEF Call, Get, Poll, PollTimeout, browserVars
<1>2. PICK s \in {"polling", "launch", "end"} : stage' = [stage EXCEPT ![t] = s]
  BY DEF Call, Get, Poll, PollTimeout, Returned
<1>3. BrowserTypes'
  BY <1>1, <1>2 DEF BrowserInv, BrowserTypes
<1>4. stage'[t] = s /\ \A u \in Tests \ {t} : stage'[u] = stage[u]
  BY <1>2 DEF BrowserInv, BrowserTypes
<1>5. DirInv' /\ BrowserHasProfile'
  BY <1>1, <1>4 DEF BrowserInv, DirInv, BrowserHasProfile, Launched
<1>6. HandlerTold'
  BY <1>1, <1>4 DEF BrowserInv, HandlerTold
<1> QED
  BY <1>3, <1>5, <1>6 DEF BrowserInv

\* What happens to the server is nothing to the browsers.
LEMMA BrowserUntouched ==
  ASSUME BrowserInv, UNCHANGED <<stage, browserVars>>
  PROVE  BrowserInv'
<1>1. UNCHANGED <<stage, counter, dir, dirs, handler, stop>>
  BY DEF browserVars
<1> QED
  BY <1>1 DEF BrowserInv, BrowserTypes, DirInv, BrowserHasProfile, HandlerTold, Launched

-----------------------------------------------------------------------------
(* Theorems                                                                *)

\* No test has called get.
LEMMA InitHarnessInv == ASSUME Init PROVE HarnessInv
<1>1. once \in BOOLEAN /\ done \in BOOLEAN
  BY DEF Init
<1>2. ServerInv
  BY <1>1 DEF Init, ServerInv, ServerTypes, StartInv, CellInv, ResultInv
<1>3. Launched = {} /\ Cardinality({}) = 0
  BY FS_EmptySet DEF Init, Launched
<1>4. BrowserTypes
  BY DEF Init, BrowserTypes
<1>5. DirInv /\ BrowserHasProfile /\ HandlerTold
  BY <1>3 DEF Init, DirInv, BrowserHasProfile, HandlerTold
<1>6. faults \in 0..MaxFaults /\ Unanswered
  BY HarnessAssumption DEF Init, Unanswered
<1> QED
  BY <1>2, <1>4, <1>5, <1>6 DEF HarnessInv, BrowserInv

\* Every action takes its failures from the budget.
LEMMA NextFaults ==
  ASSUME faults \in 0..MaxFaults, [Next]_vars
  PROVE  faults' \in 0..MaxFaults
<1>1. Start => Fault \/ UNCHANGED faults
  BY DEF Start, StartStep, StartOk, StartErr, StartPanics, Flag
<1>2. ServerBinds => Fault \/ UNCHANGED faults
  BY DEF ServerBinds
<1>3. \A t \in Tests : Call(t) \/ Get(t) => Fault \/ UNCHANGED faults
  BY DEF Call, Get, Poll, PollTimeout
<1>4. \A t \in Tests : Browse(t) \/ HandlerEnds(t) => Fault \/ UNCHANGED faults
  BY DEF Browse, Setup, NewPage, ClosePage, CloseBrowser, CancelHandler, HandlerEnds
<1>5. UNCHANGED vars => UNCHANGED faults
  BY DEF vars
<1> QED
  BY <1>1, <1>2, <1>3, <1>4, <1>5, FaultSpent DEF Next

\* Only get gives a result, and it moves its test on.
LEMMA NextUnanswered ==
  ASSUME HarnessInv, [Next]_vars
  PROVE  Unanswered'
<1>1. /\ Unanswered /\ stage \in [Tests -> {"new", "polling", "launch", "page", "open",
                                           "close", "cancel", "end"}]
      /\ result \in [Tests -> {"none", "ok", "err", "timeout", "uninitialized"}]
  BY DEF HarnessInv, BrowserInv, BrowserTypes, ServerInv, ServerTypes
<1>2. CASE UNCHANGED <<stage, result>>
  BY <1>1, <1>2 DEF Unanswered
<1>3. CASE Start \/ ServerBinds \/ UNCHANGED vars
  <2>1. UNCHANGED <<stage, result>>
    BY <1>3 DEF Start, StartStep, StartOk, StartErr, StartPanics, Flag, ServerBinds, vars
  <2> QED
    BY <1>2, <2>1
<1>4. ASSUME NEW t \in Tests, Call(t) PROVE Unanswered'
  BY <1>1, <1>4 DEF Call, Unanswered
<1>5. ASSUME NEW t \in Tests, Get(t) PROVE Unanswered'
  <2>1. \E s \in {"launch", "end"} : stage' = [stage EXCEPT ![t] = s]
    BY <1>5 DEF Get, Poll, PollTimeout, Returned
  <2>2. \E r : result' = [result EXCEPT ![t] = r]
    BY <1>5 DEF Get, Poll, PollTimeout, Returned
  <2>3. stage'[t] \notin {"new", "polling"}
    BY <1>1, <2>1
  <2>4. \A u \in Tests \ {t} : stage'[u] = stage[u] /\ result'[u] = result[u]
    BY <1>1, <2>1, <2>2
  <2> QED
    BY <1>1, <2>3, <2>4 DEF Unanswered
<1>6. ASSUME NEW t \in Tests, Browse(t) \/ HandlerEnds(t) PROVE Unanswered'
  <2>1. UNCHANGED result
    BY <1>6 DEF Browse, Setup, NewPage, ClosePage, CloseBrowser, CancelHandler, HandlerEnds
  <2>2. \/ UNCHANGED stage
        \/ \E s \in {"page", "open", "close", "cancel", "end"} : stage' = [stage EXCEPT ![t] = s]
    BY <1>6 DEF Browse, Setup, NewPage, ClosePage, CloseBrowser, CancelHandler, HandlerEnds
  <2>3. \A u \in Tests : stage'[u] \in {"new", "polling"} => stage[u] = stage'[u]
    BY <1>1, <2>2
  <2> QED
    BY <1>1, <2>1, <2>3 DEF Unanswered
<1> QED
  BY <1>3, <1>4, <1>5, <1>6 DEF Next

\* The inductive step, one case per action.
LEMMA NextHarnessInv == ASSUME HarnessInv, [Next]_vars PROVE HarnessInv'
<1>1. ServerInv /\ BrowserInv /\ faults \in 0..MaxFaults
  BY DEF HarnessInv
<1>2. CASE Start
  <2>1. ServerInv'
    BY <1>1, <1>2, StartStepInv, StartEndsInv, FlagInv DEF Start
  <2>2. UNCHANGED <<stage, browserVars>>
    BY <1>2 DEF Start, StartStep, StartOk, StartErr, StartPanics, Flag
  <2> QED
    BY <1>1, <2>1, <2>2, NextFaults, NextUnanswered, BrowserUntouched DEF HarnessInv
<1>3. CASE ServerBinds
  <2>1. UNCHANGED <<stage, browserVars>>
    BY <1>3 DEF ServerBinds
  <2> QED
    BY <1>1, <1>3, <2>1, NextFaults, NextUnanswered, ServerBindsInv, BrowserUntouched DEF HarnessInv
<1>4. ASSUME NEW t \in Tests, Call(t) \/ Get(t) PROVE HarnessInv'
  BY <1>1, <1>4, NextFaults, NextUnanswered, CallInv, GetInv, BeforeBrowserInv DEF HarnessInv
<1>5. ASSUME NEW t \in Tests, Browse(t) \/ HandlerEnds(t) PROVE HarnessInv'
  <2>1. UNCHANGED <<kind, initVars, envVars, result>>
    BY <1>5 DEF Browse, Setup, NewPage, ClosePage, CloseBrowser, CancelHandler, HandlerEnds
  <2>2. BrowserInv'
    BY <1>1, <1>5, SetupInv, TeardownInv DEF Browse
  <2> QED
    BY <1>1, <2>1, <2>2, NextFaults, NextUnanswered, ServerUntouched DEF HarnessInv
<1>6. CASE UNCHANGED vars
  BY <1>1, <1>6, NextFaults, NextUnanswered, ServerUntouched, BrowserUntouched DEF vars, HarnessInv
<1> QED
  BY <1>2, <1>3, <1>4, <1>5, <1>6 DEF Next

\* Every reachable state satisfies the inductive invariant.
THEOREM HarnessInvHolds == Spec => []HarnessInv
<1>1. Init => HarnessInv
  BY InitHarnessInv
<1>2. HarnessInv /\ [Next]_vars => HarnessInv'
  BY NextHarnessInv
<1> QED
  BY <1>1, <1>2, PTL DEF Spec

\* The state of the shared server and of every browser is well typed; COUNTER counts
\* the tests that have launched one.
THEOREM TypeCorrect == Spec => []TypeOK
<1>1. HarnessInv => TypeOK
  <2> SUFFICES ASSUME HarnessInv PROVE TypeOK
    OBVIOUS
  <2>1. Launched \subseteq Tests
    BY DEF Launched
  <2>2. /\ IsFiniteSet(Tests) /\ Cardinality(Tests) \in Nat
        /\ Cardinality(Launched) <= Cardinality(Tests)
    BY <2>1, HarnessAssumption, FS_Subset, FS_CardinalityType
  <2>3. /\ counter \in Nat /\ counter <= Cardinality(Tests) /\ dir \in [Tests -> Nat]
        /\ dirs \subseteq 1..counter /\ \A t \in Tests : dir[t] <= counter
    BY <2>2 DEF HarnessInv, BrowserInv, BrowserTypes, DirInv
  <2>4. counter \in 0..Cardinality(Tests) /\ dirs \subseteq 1..Cardinality(Tests)
    BY <2>2, <2>3
  <2>5. \A t \in Tests : dir[t] \in 0..Cardinality(Tests)
    BY <2>2, <2>3
  <2>6. dir \in [Tests -> 0..Cardinality(Tests)]
    BY <2>3, <2>5
  <2> QED
    BY <2>4, <2>6 DEF HarnessInv, ServerInv, ServerTypes, BrowserInv, BrowserTypes, TypeOK
<1> QED
  BY <1>1, HarnessInvHolds, PTL

\* A test that was given the server has one for as long as tests run, however many
\* tests share it and whatever else fails.
THEOREM ServesWhileHeldHolds == Spec => []ServesWhileHeld
<1>1. HarnessInv => ServesWhileHeld
  <2> SUFFICES ASSUME HarnessInv, NEW t \in Tests, result[t] = "ok"
               PROVE  srv = "serving" /\ database = "up" /\ bg = "pending"
    BY DEF ServesWhileHeld
  <2>1. done /\ cell = "ok"
    BY DEF HarnessInv, ServerInv, ResultInv
  <2> QED
    BY <2>1 DEF HarnessInv, ServerInv, ServerTypes, StartInv, CellInv
<1> QED
  BY <1>1, HarnessInvHolds, PTL

\* once.rs:76-108: nobody sees bg_init_done before the cell is set, and all tests that
\* are given the outcome of the start are given the same one.
THEOREM OneOutcomeHolds == Spec => []OneOutcome
<1>1. HarnessInv => OneOutcome
  BY DEF HarnessInv, ServerInv, ResultInv, OneOutcome
<1> QED
  BY <1>1, HarnessInvHolds, PTL

\* The safety halves of HandlersEnd and of unique_profile_dir: a handler that is still
\* running after its test has been told to stop, and an open browser has its profile.
THEOREM BrowsersAreSeparate == Spec => [](HandlerTold /\ BrowserHasProfile)
<1>1. HarnessInv => HandlerTold /\ BrowserHasProfile
  BY DEF HarnessInv, BrowserInv
<1> QED
  BY <1>1, HarnessInvHolds, PTL

\* What has been stored and returned is final, start runs once, and a stored server is
\* not taken away.
THEOREM OutcomeIsFinalHolds == Spec => OutcomeIsFinal
<1> DEFINE Final == /\ cell # "empty" => cell' = cell
                    /\ \A t \in Tests : result[t] # "none" => result'[t] = result[t]
                    /\ bg' = "starting" => bg \in {"none", "starting"}
                    /\ cell = "ok" => UNCHANGED envVars
<1>1. HarnessInv /\ [Next]_vars => [Final]_vars
  <2> SUFFICES ASSUME HarnessInv, Next PROVE Final
    OBVIOUS
  <2>1. ServerInv /\ Unanswered
    BY DEF HarnessInv
  <2>2. CASE StartStep
    <3>1. bg = "starting" /\ cell = "empty" /\ UNCHANGED <<cell, result>>
      BY <2>1, <2>2 DEF StartStep, ServerInv, StartInv
    <3> QED
      BY <3>1
  <2>3. CASE StartOk \/ StartErr \/ StartPanics
    <3>1. cell = "empty" /\ UNCHANGED result /\ bg' # "starting"
      BY <2>1, <2>3 DEF StartOk, StartErr, StartPanics, ServerInv, StartInv
    <3> QED
      BY <3>1
  <2>4. CASE Flag
    BY <2>4 DEF Flag
  <2>5. CASE ServerBinds
    <3>1. srv = "starting" /\ UNCHANGED <<bg, cell, result>>
      BY <2>5 DEF ServerBinds, initVars
    <3>2. cell # "ok"
      BY <2>1, <3>1 DEF ServerInv, CellInv
    <3>3. bg \in {"none", "starting"} \/ bg' # "starting"
      BY <3>1
    <3> QED
      BY <3>1, <3>2, <3>3
  <2>6. ASSUME NEW t \in Tests, Call(t) PROVE Final
    <3>1. UNCHANGED <<result, envVars>>
      BY <2>6 DEF Call
    <3>2. CASE once /\ UNCHANGED <<bg, cell>>
      BY <3>1, <3>2
    <3>3. CASE ~once
      <4>1. bg = "none" /\ cell = "empty"
        BY <2>1, <3>3 DEF ServerInv, CellInv
      <4> QED
        BY <3>1, <4>1
    <3> QED
      BY <2>6, <3>2, <3>3 DEF Call, CallOnce
  <2>7. ASSUME NEW t \in Tests, Get(t) PROVE Final
    <3>1. /\ UNCHANGED <<bg, cell, envVars>> /\ stage[t] = "polling"
          /\ \E r : result' = [result EXCEPT ![t] = r]
      BY <2>7 DEF Get, Poll, PollTimeout, Returned, initVars
    <3>2. result[t] = "none"
      BY <2>1, <3>1 DEF Unanswered
    <3>3. \A u \in Tests : result[u] # "none" => result'[u] = result[u]
      BY <2>1, <3>1, <3>2 DEF ServerInv, ServerTypes
    <3> QED
      BY <3>1, <3>3
  <2>8. ASSUME NEW t \in Tests, Browse(t) \/ HandlerEnds(t) PROVE Final
    <3>1. UNCHANGED <<bg, cell, result, envVars>>
      BY <2>8 DEF Browse, Setup, NewPage, ClosePage, CloseBrowser, CancelHandler,
                  HandlerEnds, initVars
    <3> QED
      BY <3>1
  <2> QED
    BY <2>2, <2>3, <2>4, <2>5, <2>6, <2>7, <2>8 DEF Next, Start
<1> QED
  BY <1>1, HarnessInvHolds, PTL DEF Spec, OutcomeIsFinal
=============================================================================
