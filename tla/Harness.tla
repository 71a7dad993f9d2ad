------------------------------- MODULE Harness -------------------------------
(***************************************************************************)
(* The end-to-end test harness.  The tests of one binary run concurrently  *)
(* and share a server: SharedServer::get runs start once, on a thread of   *)
(* its own, and every test polls for the result with a deadline.  start is *)
(* LiveSearchEnv::start_with or GatewayEnv::start.  A browser test then    *)
(* sets up a Chromium of its own and tears it down.                        *)
(***************************************************************************)
EXTENDS Naturals, Sequences, FiniteSets

CONSTANTS
  Tests,      \* the tests of the binary
  MaxFaults   \* bound: failing steps per behaviour

ASSUME HarnessAssumption == IsFiniteSet(Tests) /\ MaxFaults \in Nat

VARIABLES
  kind,       \* which server: "live" or "gateway"
  once,       \* bg_init_once has run
  bg,         \* the e2e-bg-init thread
  at,         \* ... its next step of start
  cell, done, \* SharedServer's cell and bg_init_done
  database,   \* the Postgres container
  srv,        \* the server's own thread
  result,     \* what get returned to each test
  stage,      \* how far each test is
  counter,    \* unique_profile_dir's COUNTER
  dir,        \* profile directory of each test's browser
  dirs,       \* the profile directories on disk
  handler,    \* the browser's handler task
  stop,       \* ... its token, or the end of its event stream
  faults

initVars == <<once, bg, at, cell, done>>
envVars == <<database, srv>>
browserVars == <<counter, dir, dirs, handler, stop>>
vars == <<kind, initVars, envVars, result, stage, browserVars, faults>>

TypeOK ==
  /\ kind \in {"live", "gateway"}
  /\ once \in BOOLEAN /\ done \in BOOLEAN
  /\ bg \in {"none", "starting", "stored", "pending", "ended"}
  /\ at \in 1..9
  /\ cell \in {"empty", "ok", "err"}
  /\ database \in {"none", "up", "dropped"}
  /\ srv \in {"none", "starting", "serving", "failed"}
  /\ result \in [Tests -> {"none", "ok", "err", "timeout", "uninitialized"}]
  /\ stage \in [Tests -> {"new", "polling", "launch", "page", "open", "close", "cancel",
                          "end"}]
  /\ counter \in 0..Cardinality(Tests)
  /\ dir \in [Tests -> 0..Cardinality(Tests)] /\ dirs \subseteq 1..Cardinality(Tests)
  /\ handler \in [Tests -> {"none", "running", "ended"}]
  /\ stop \in [Tests -> BOOLEAN]
  /\ faults \in 0..MaxFaults

Init ==
  /\ kind \in {"live", "gateway"}
  /\ once = FALSE /\ bg = "none" /\ at = 1
  /\ cell = "empty" /\ done = FALSE
  /\ database = "none" /\ srv = "none"
  /\ result = [t \in Tests |-> "none"]
  /\ stage = [t \in Tests |-> "new"]
  /\ counter = 0 /\ dir = [t \in Tests |-> 0] /\ dirs = {}
  /\ handler = [t \in Tests |-> "none"] /\ stop = [t \in Tests |-> FALSE]
  /\ faults = MaxFaults

Fault == faults > 0 /\ faults' = faults - 1

-----------------------------------------------------------------------------
(* start, on the background thread                                         *)

\* The fallible steps of start, in order.
Steps ==
  IF kind = "live"
  THEN <<"runtime", "database", "pool", "context", "leptos", "assets", "spawn", "bind", "ready">>
  ELSE <<"runtime", "keys", "database", "build", "spawn", "bind", "ready">>

\* TestEnv::postgres: the container, its pool, the migrations and the fixture row.
Postgres == database' = "up"

StartStep ==
  LET step == Steps[at] IN
  /\ bg = "starting" /\ at < Len(Steps)
  /\ step = "bind" => srv = "serving"
  /\ at' = at + 1
  /\ IF step = "database" THEN Postgres ELSE UNCHANGED database
  /\ srv' = IF step = "spawn" THEN "starting" ELSE srv
  /\ UNCHANGED <<kind, once, bg, cell, done, result, stage, browserVars,
                 faults>>

\* The server answers /health: start returns the environment, which is stored.
StartOk ==
  /\ bg = "starting" /\ at = Len(Steps)
  /\ srv = "serving"
  /\ bg' = "stored" /\ cell' = "ok"
  /\ UNCHANGED <<kind, once, at, done, envVars, result, stage, browserVars, faults>>

\* A step fails, or its deadline passes because the server's thread is slow:
\* start returns the error.  The container is dropped with it; the server's
\* token is dropped too, but that does not cancel it.
StartErr ==
  /\ bg = "starting"
  /\ \/ Fault
     \/ Steps[at] = "bind" /\ srv = "failed" /\ UNCHANGED faults
  /\ bg' = "stored" /\ cell' = "err"
  /\ database' = IF database = "up" THEN "dropped" ELSE database
  /\ UNCHANGED <<kind, once, at, done, srv, result, stage, browserVars>>

\* start panics: the thread unwinds and nothing is stored.
StartPanics ==
  /\ bg = "starting" /\ Steps[at] # "runtime"
  /\ Fault
  /\ bg' = "ended"
  /\ database' = IF database = "up" THEN "dropped" ELSE database
  /\ UNCHANGED <<kind, once, at, cell, done, srv, result, stage,
                 browserVars>>

\* Mutant of Flag: the thread ends, and its runtime with it.
FlagEnds ==
  /\ bg = "stored"
  /\ done' = TRUE /\ bg' = "ended"
  /\ database' = IF database = "up" THEN "dropped" ELSE database
  /\ UNCHANGED <<kind, once, at, cell, srv, result, stage, browserVars,
                 faults>>

\* bg_init_done is set after the cell; the runtime stays unless start failed.
Flag ==
  /\ bg = "stored"
  /\ done' = TRUE
  /\ bg' = IF cell = "err" THEN "ended" ELSE "pending"
  /\ UNCHANGED <<kind, once, at, cell, envVars, result, stage, browserVars, faults>>

\* The server's thread: it binds, publishes its address and serves ...
ServerBinds ==
  /\ srv = "starting"
  /\ \/ srv' = "serving" /\ UNCHANGED faults
     \/ srv' = "failed" /\ Fault
  /\ UNCHANGED <<kind, initVars, database, result, stage, browserVars>>

-----------------------------------------------------------------------------
(* SharedServer::get                                                       *)

\* Once::call_once: true for every caller but the first.
CallOnce == once

\* The first caller spawns the thread; a failure to is stored as the result.
Call(t) ==
  /\ stage[t] = "new"
  /\ stage' = [stage EXCEPT ![t] = "polling"]
  /\ once' = TRUE
  /\ \/ CallOnce /\ UNCHANGED <<bg, at, cell, done, faults>>
     \/ /\ ~CallOnce
        /\ bg' = "starting" /\ at' = 1
        /\ UNCHANGED <<cell, done, faults>>
     \/ /\ ~CallOnce
        /\ Fault
        /\ cell' = "err" /\ done' = TRUE
        /\ UNCHANGED <<bg, at>>
  /\ UNCHANGED <<kind, envVars, result, browserVars>>

Returned(t, r) ==
  /\ result' = [result EXCEPT ![t] = r]
  /\ stage' = [stage EXCEPT ![t] = IF r = "ok" THEN "launch" ELSE "end"]

Poll(t) ==
  /\ stage[t] = "polling" /\ done
  /\ Returned(t, IF cell = "empty" THEN "uninitialized" ELSE cell)
  /\ UNCHANGED <<kind, initVars, envVars, browserVars, faults>>

\* Mutant of PollTimeout: the loop has no deadline.
PollForever(t) == FALSE /\ UNCHANGED vars

\* 30 s have passed; start may still be running.
PollTimeout(t) ==
  /\ stage[t] = "polling" /\ ~done
  /\ Returned(t, "timeout")
  /\ UNCHANGED <<kind, initVars, envVars, browserVars, faults>>

-----------------------------------------------------------------------------
(* Browser tests                                                           *)

\* Mutant of UniqueProfileDir: the directory is named after the process alone.
UniqueProfileDirOfProcess(t) ==
  /\ dir' = [dir EXCEPT ![t] = 1]
  /\ UNCHANGED counter

\* COUNTER.fetch_add
UniqueProfileDir(t) ==
  /\ dir' = [dir EXCEPT ![t] = counter + 1]
  /\ counter' = counter + 1

\* setup, to the launch of the browser and of its handler task.
Setup(t) ==
  /\ stage[t] = "launch"
  /\ UniqueProfileDir(t)
  /\ dirs' = dirs \cup {dir'[t]}
  /\ \/ /\ stage' = [stage EXCEPT ![t] = "page"]
        /\ handler' = [handler EXCEPT ![t] = "running"]
        /\ UNCHANGED faults
     \/ /\ Fault
        /\ stage' = [stage EXCEPT ![t] = "end"]
        /\ UNCHANGED handler
  /\ UNCHANGED <<kind, initVars, envVars, result, stop>>

\* ... and its page.  When that fails the browser is dropped, which ends its
\* event stream.
NewPage(t) ==
  /\ stage[t] = "page"
  /\ \/ stage' = [stage EXCEPT ![t] = "open"] /\ UNCHANGED <<stop, faults>>
     \/ /\ Fault
        /\ stage' = [stage EXCEPT ![t] = "end"]
        /\ stop' = [stop EXCEPT ![t] = TRUE]
  /\ UNCHANGED <<kind, initVars, envVars, result, counter, dir, dirs, handler>>

\* teardown, page.close(): whatever it returns, the browser is closed next.
ClosePage(t) ==
  /\ stage[t] = "open"
  /\ stage' = [stage EXCEPT ![t] = "close"]
  /\ UNCHANGED <<kind, initVars, envVars, result, browserVars, faults>>

\* Mutant of CloseBrowser: a failed close ends the teardown.
CloseBrowserReturns(t) ==
  /\ stage[t] = "close"
  /\ \/ /\ stop' = [stop EXCEPT ![t] = TRUE]
        /\ stage' = [stage EXCEPT ![t] = "cancel"]
        /\ UNCHANGED faults
     \/ Fault /\ stage' = [stage EXCEPT ![t] = "end"] /\ UNCHANGED stop
  /\ UNCHANGED <<kind, initVars, envVars, result, counter, dir, dirs, handler>>

\* browser.close() ends the event stream, or fails and leaves it open.
CloseBrowser(t) ==
  /\ stage[t] = "close"
  /\ stage' = [stage EXCEPT ![t] = "cancel"]
  /\ \/ stop' = [stop EXCEPT ![t] = TRUE] /\ UNCHANGED faults
     \/ Fault /\ UNCHANGED stop
  /\ UNCHANGED <<kind, initVars, envVars, result, counter, dir, dirs, handler>>

\* The token is cancelled in any case, and the profile directory removed.
CancelHandler(t) ==
  /\ stage[t] = "cancel"
  /\ stage' = [stage EXCEPT ![t] = "end"]
  /\ stop' = [stop EXCEPT ![t] = TRUE]
  /\ \/ dirs' = dirs \ {dir[t]} /\ UNCHANGED faults
     \/ Fault /\ UNCHANGED dirs
  /\ UNCHANGED <<kind, initVars, envVars, result, counter, dir, handler>>

HandlerEnds(t) ==
  /\ handler[t] = "running" /\ stop[t]
  /\ handler' = [handler EXCEPT ![t] = "ended"]
  /\ UNCHANGED <<kind, initVars, envVars, result, stage, counter, dir, dirs, stop, faults>>

-----------------------------------------------------------------------------

Start == StartStep \/ StartOk \/ StartErr \/ StartPanics \/ Flag

Get(t) == Poll(t) \/ PollTimeout(t)

Browse(t) ==
  \/ Setup(t) \/ NewPage(t)
  \/ ClosePage(t) \/ CloseBrowser(t) \/ CancelHandler(t)

Next ==
  \/ Start
  \/ ServerBinds
  \/ \E t \in Tests : Call(t) \/ Get(t) \/ Browse(t) \/ HandlerEnds(t)

\* The scheduler runs every thread and task; deadlines pass.
Fairness ==
  /\ WF_vars(Start) /\ WF_vars(ServerBinds)
  /\ \A t \in Tests :
       WF_vars(Get(t)) /\ WF_vars(Browse(t)) /\ WF_vars(HandlerEnds(t))

Spec == Init /\ [][Next]_vars /\ Fairness

-----------------------------------------------------------------------------
(* Properties                                                              *)

\* A test that was given the server has one: it serves, its database is up and
\* the runtime that started it is alive, for as long as tests run.
ServesWhileHeld ==
  (\E t \in Tests : result[t] = "ok") =>
    srv = "serving" /\ database = "up" /\ bg = "pending"

\* once.rs:76-108: every test that asks for the server is given the outcome of the
\* start or a timeout, even if the start hangs or panics; and nobody is told
\* "server not initialized": bg_init_done is never seen before the cell is set.
EveryoneAnswered ==
  \A t \in Tests : stage[t] = "polling" ~> result[t] \in {"ok", "err", "timeout"}

\* No browser's handler task outlives its test, even if closing the browser fails.
HandlersEnd == \A t \in Tests : stage[t] = "end" ~> handler[t] # "running"

\* chromium.rs:35-45: tests that run side by side do not share a profile: as long
\* as a test's browser is open, no teardown of another test has removed its
\* directory.
BrowserHasProfile ==
  \A t \in Tests : stage[t] \in {"page", "open", "close", "cancel"} =>
    dir[t] # 0 /\ dir[t] \in dirs

=============================================================================
