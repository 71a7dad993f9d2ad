------------------------------- MODULE Server -------------------------------
(***************************************************************************)
(* The life of a server process, from loading its configuration to its     *)
(* exit code.  Init chooses one of the three programs of the workspace:    *)
(* live-search, the gateway and the i18n demo.                             *)
(*                                                                         *)
(* A numeric setting is a small number that keeps the order of the values  *)
(* the code compares: 0, a valid one, i64::MAX or the largest capacity of  *)
(* a channel, above it.  A text is 0 when it is blank.  Settings with the  *)
(* same rule share a key: the two buffers, the two TTLs, the three         *)
(* timeouts of the pool.                                                   *)
(***************************************************************************)
EXTENDS Integers, Sequences, FiniteSets

CONSTANTS
  Requests,     \* client connections
  Modules,      \* the gateway's service modules
  Enabled,      \* ... those that are enabled
  GatewayPool,  \* connections of the gateway's pool (8 in the code)
  MaxFaults     \* bound: failures of tasks and dependencies per behaviour

ASSUME ServerAssumption ==
  /\ Enabled \subseteq Modules
  /\ GatewayPool \in Nat \ {0}
  /\ MaxFaults \in Nat

VARIABLES
  program,
  file, env,    \* settings of config.toml and of RWF_* variables
  cfg,          \* the effective settings, once loaded
  phase,        \* "starting", "serving", "draining", ..., "exited"
  at,           \* the next step of the startup
  pool,         \* "none", "open", "closing", "closed" or "leaked"
  tasks,        \* the tasks of the JoinSet
  lconn,        \* pool connections the listener keeps for LISTEN
  lquery,       \* ... and whether it has another for a query
  cancelled,    \* the CancellationToken
  conns,        \* what each client connection is doing
  probe,        \* a health request's view of the modules
  dbProbe,      \* ... and the result of its own database query
  answer,       \* the last answer on each connection
  sigErr, drainErr,
  faults,
  exit          \* "none", "ok", "error" or "panic"

confVars == <<program, file, env, cfg>>
useVars == <<lconn, lquery>>
reqVars == <<conns, probe, dbProbe, answer>>
waitVars == <<sigErr, drainErr, exit>>
vars == <<confVars, phase, at, pool, tasks, useVars, cancelled, reqVars, waitVars,
          faults>>

Programs == {"live", "gateway", "i18n"}
Tasks == {"listener", "http"}
Idle == "idle"

-----------------------------------------------------------------------------
(* Configuration                                                           *)

Unset == -1
I64Max == 2

\* The largest capacity broadcast::channel takes.
ChannelMax == 1

\* The typed defaults.
Default == [upstream |-> 1, database |-> 1, buffer |-> 1, ttl |-> 1, timeout |-> 1,
            poolMin |-> 2, poolMax |-> 3]

Keys == DOMAIN Default

\* The values at or beyond a limit of Validate, or of what a setting is used for.
Limits == [upstream |-> {0}, database |-> {0}, timeout |-> {0},
           buffer |-> {0, ChannelMax + 1},
           ttl |-> {0, I64Max, I64Max + 1}, poolMin |-> {0, 3, 4}, poolMax |-> {0, 1, 2}]

NoOverride == [k \in Keys |-> Unset]

\* Bound: each source overrides at most one setting.
Overrides ==
  {NoOverride} \cup
  UNION {{[k \in Keys |-> IF k = key THEN v ELSE Unset] : v \in Limits[key]} : key \in Keys}

\* Environment variables win over the file, the file over the defaults.
Effective ==
  [k \in Keys |-> IF env[k] # Unset THEN env[k]
                  ELSE IF file[k] # Unset THEN file[k] ELSE Default[k]]

\* Config::validate
Validate(c) ==
  /\ c.upstream # 0 /\ c.database # 0
  /\ c.buffer # 0
  /\ c.ttl # 0 /\ c.ttl <= I64Max
  /\ c.poolMax # 0 /\ c.poolMin <= c.poolMax
  /\ c.timeout # 0

PoolMax == IF program = "live" THEN cfg.poolMax ELSE GatewayPool

-----------------------------------------------------------------------------

TypeOK ==
  /\ program \in Programs
  /\ file \in Overrides /\ env \in Overrides
  /\ cfg \in [Keys -> 0..4]
  /\ phase \in {"starting", "serving", "draining", "aborting", "closing", "flushing",
                "exited"}
  /\ at \in 1..9
  /\ pool \in {"none", "open", "closing", "closed", "leaked"}
  /\ cancelled \in BOOLEAN /\ sigErr \in BOOLEAN
  /\ drainErr \in BOOLEAN
  /\ tasks \in [Tasks -> {"none", "running", "ok", "err", "joined", "aborted"}]
  /\ lconn \in 0..1 /\ lquery \in BOOLEAN
  /\ conns \in [Requests -> {Idle, "acquiring", "querying", "stream", "socket",
                             "probing", "probingDb", "upstream"}]
  /\ probe \in [Requests -> [Modules -> {"pending", "healthy", "unhealthy"}]]
  /\ dbProbe \in [Requests -> {"pending", "healthy", "unhealthy"}]
  /\ answer \in [Requests -> {"none", "200", "500", "502", "503"}]
  /\ faults \in 0..MaxFaults
  /\ exit \in {"none", "ok", "error", "panic"}

Pending == [m \in Modules |-> "pending"]

\* The demo reads no configuration.
Init ==
  /\ program \in Programs
  /\ file \in Overrides /\ env \in Overrides
  /\ program = "i18n" => file = NoOverride /\ env = NoOverride
  /\ cfg = Default
  /\ phase = "starting" /\ at = 1
  /\ pool = "none" /\ cancelled = FALSE
  /\ tasks = [t \in Tasks |-> "none"]
  /\ lconn = 0 /\ lquery = FALSE
  /\ conns = [r \in Requests |-> Idle]
  /\ probe = [r \in Requests |-> Pending]
  /\ dbProbe = [r \in Requests |-> "pending"]
  /\ answer = [r \in Requests |-> "none"]
  /\ sigErr = FALSE /\ drainErr = FALSE
  /\ faults = MaxFaults
  /\ exit = "none"

-----------------------------------------------------------------------------
(* Startup: bootstrap::run, and the main functions of the other two        *)

\* bootstrap::run.  Its tracing setup falls back and cannot fail.
LiveStartup ==
  <<"config", "pool", "migrate", "context", "listener", "leptos", "bind">>

GatewayStartup ==
  <<"devKeys", "config", "telemetry", "settings", "pool", "migrate", "build", "bind">>

DemoStartup == <<"leptos", "bind">>

Startup ==
  CASE program = "live" -> LiveStartup
    [] program = "gateway" -> GatewayStartup
    [] OTHER -> DemoStartup

\* The process ends: its tasks, connections and requests end with it.
Exit(code) ==
  /\ phase' = "exited"
  /\ exit' = code
  /\ tasks' = [t \in Tasks |-> IF tasks[t] = "running" THEN "aborted" ELSE tasks[t]]
  /\ lconn' = 0 /\ lquery' = FALSE
  /\ conns' = [r \in Requests |-> Idle]
  /\ UNCHANGED <<confVars, at, pool, cancelled, probe, dbProbe, answer, sigErr,
                 drainErr, faults>>

At(s) == phase = "starting" /\ Startup[at] = s

\* Config::load: a missing or malformed file, or a value validate refuses.
ConfigFails == At("config") /\ Exit("error")

\* Settings::load: a key, a password or an id is missing or malformed.
SettingsFail == At("settings") /\ Exit("error")

TelemetryFails == At("telemetry") /\ Exit("error")

\* PostgreSQL cannot be reached, or a migration fails.
PoolFails == (At("pool") \/ At("migrate")) /\ Exit("error")

\* broadcast::channel has no error to return: it panics on a capacity of zero
\* and on one that is too large.
ChannelPanics == cfg.buffer = 0 \/ cfg.buffer > ChannelMax

\* The gateway's state and router: a setting or a rate limit is refused.  A
\* capacity of zero is refused before the channel is made.
BuildFails ==
  At("build") /\ Exit(IF ChannelPanics /\ cfg.buffer # 0 THEN "panic" ELSE "error")

\* A second context is refused, after the channel has been made.
ContextFails == At("context") /\ Exit(IF ChannelPanics THEN "panic" ELSE "error")

\* A step returns its error, which run() and main pass on.
StartFail ==
  \/ (At("devKeys") \/ At("leptos") \/ At("bind")) /\ Exit("error")
  \/ ConfigFails \/ SettingsFail \/ TelemetryFails
  \/ PoolFails \/ BuildFails \/ ContextFails

StartStep ==
  /\ phase = "starting"
  /\ LET s == Startup[at] IN
       /\ s = "config" => Validate(Effective)
       /\ s \in {"context", "build"} => ~ChannelPanics
       /\ IF s = "config"
          THEN cfg' = Effective /\ file' = NoOverride /\ env' = NoOverride
          ELSE UNCHANGED <<cfg, file, env>>
       /\ pool' = IF s = "pool" THEN "open" ELSE pool
       /\ tasks' = CASE s = "listener" -> [tasks EXCEPT !["listener"] = "running"]
                     [] s = "bind" -> [tasks EXCEPT !["http"] = "running"]
                     [] OTHER -> tasks
       /\ phase' = IF s = "bind" THEN "serving" ELSE "starting"
       /\ at' = at + 1
  /\ UNCHANGED <<program, useVars, cancelled, reqVars, waitVars, faults>>

-----------------------------------------------------------------------------
(* The pool and its users                                                  *)

Holding == {r \in Requests : conns[r] \in {"querying", "probingDb"}}
Used == lconn + Cardinality(Holding) + IF lquery THEN 1 ELSE 0
CanAcquire == pool = "open" /\ Used < PoolMax

Fault == faults > 0 /\ faults' = faults - 1

\* The listener takes a connection for LISTEN and keeps it.
ListenerConnect ==
  /\ tasks["listener"] = "running"
  /\ lconn = 0 /\ CanAcquire
  /\ lconn' = 1
  /\ UNCHANGED <<lquery, confVars, phase, at, pool, tasks, cancelled, reqVars, waitVars,
                 faults>>

\* A page of the replay or the fetch of a row takes a second one for a while.
ListenerQuery ==
  /\ tasks["listener"] = "running"
  /\ lconn # 0
  /\ lquery \/ CanAcquire
  /\ lquery' = ~lquery
  /\ UNCHANGED <<lconn, confVars, phase, at, pool, tasks, cancelled, reqVars, waitVars,
                 faults>>

ListenerLost ==
  /\ tasks["listener"] = "running"
  /\ lconn = 1 /\ ~lquery /\ Fault
  /\ lconn' = 0
  /\ UNCHANGED <<lquery, confVars, phase, at, pool, tasks, cancelled, reqVars, waitVars>>

\* The listener sees the cancellation at an await that looks for it.
ListenerStops ==
  /\ tasks["listener"] = "running" /\ cancelled /\ ~lquery
  /\ tasks' = [tasks EXCEPT !["listener"] = "ok"]
  /\ lconn' = 0
  /\ UNCHANGED <<lquery, confVars, phase, at, pool, cancelled, reqVars, waitVars, faults>>

\* A task of the JoinSet fails or panics.  Nobody looks before the drain.
TaskFails(t) ==
  /\ program = "live" /\ phase \in {"serving", "draining"}
  /\ tasks[t] = "running" /\ Fault
  /\ tasks' = [tasks EXCEPT ![t] = "err"]
  /\ lconn' = IF t = "listener" THEN 0 ELSE lconn
  /\ lquery' = (lquery /\ t # "listener")
  /\ UNCHANGED <<confVars, phase, at, pool, cancelled, reqVars, waitVars>>

-----------------------------------------------------------------------------
(* Requests                                                                *)

\* What a request begins with: an SSE stream or a chat socket, a query of the
\* pool (a search, /readyz, the auth handlers), /health or /proxy/check.
Kinds ==
  CASE program = "live" -> {"stream", "acquiring"}
    [] program = "gateway" -> {"stream", "acquiring", "probing", "upstream"}
    [] OTHER -> {"socket"}

Accept(r) ==
  /\ phase = "serving" /\ tasks["http"] = "running" /\ ~cancelled
  /\ conns[r] = Idle
  /\ \E k \in Kinds : conns' = [conns EXCEPT ![r] = k]
  /\ answer' = [answer EXCEPT ![r] = "none"]
  /\ UNCHANGED <<confVars, phase, at, pool, tasks, useVars, cancelled, probe, dbProbe,
                 waitVars, faults>>

Become(r, st) ==
  /\ conns' = [conns EXCEPT ![r] = st]
  /\ UNCHANGED <<confVars, phase, at, pool, tasks, useVars, cancelled, probe, dbProbe,
                 answer, waitVars, faults>>

Answer(r, status) ==
  /\ conns' = [conns EXCEPT ![r] = Idle]
  /\ answer' = [answer EXCEPT ![r] = status]
  /\ probe' = [probe EXCEPT ![r] = Pending]
  /\ dbProbe' = [dbProbe EXCEPT ![r] = "pending"]
  /\ UNCHANGED <<confVars, phase, at, pool, tasks, useVars, cancelled, waitVars>>

\* /readyz turns a failure of the pool into a 503, the other handlers into a 500.
PoolErrors == {"500", "503"}

Acquire(r) == conns[r] = "acquiring" /\ CanAcquire /\ Become(r, "querying")


\* The acquire timeout, whoever is about to give a connection back; a pool that
\* is being closed fails the wait at once.
AcquireFails(r) ==
  /\ conns[r] = "acquiring" /\ ~CanAcquire
  /\ \E code \in PoolErrors : Answer(r, code)
  /\ UNCHANGED faults

Query(r) ==
  /\ conns[r] = "querying"
  /\ \/ Answer(r, "200") /\ UNCHANGED faults
     \/ Fault /\ \E code \in PoolErrors : Answer(r, code)

\* A client ends a stream or a socket.
HangUp(r) == conns[r] \in {"stream", "socket"} /\ Become(r, Idle)

\* /proxy/check: every failure of the upstream, its timeout included, is a 502.
\* The event a success publishes is Publish in Streams.
ProxyCheck(r) ==
  /\ conns[r] = "upstream"
  /\ \/ Answer(r, "200") /\ UNCHANGED faults
     \/ Fault /\ Answer(r, "502")

\* health_handler asks every enabled module at once; a probe that fails and one
\* that does not answer in five seconds are both unhealthy.
ProbeModule(r, m) ==
  /\ conns[r] = "probing" /\ m \in Enabled /\ probe[r][m] = "pending"
  /\ \/ probe' = [probe EXCEPT ![r][m] = "healthy"] /\ UNCHANGED faults
     \/ Fault /\ probe' = [probe EXCEPT ![r][m] = "unhealthy"]
  /\ UNCHANGED <<confVars, phase, at, pool, tasks, useVars, cancelled, conns, dbProbe,
                 answer, waitVars>>

AllProbed(r) == \A m \in Enabled : probe[r][m] # "pending"

\* Only then it asks the database, with the same limit for acquire and query.
ProbeDatabase(r) ==
  /\ conns[r] = "probing" /\ AllProbed(r) /\ CanAcquire
  /\ Become(r, "probingDb")

ProbeDatabaseFails(r) ==
  /\ (conns[r] = "probing" /\ AllProbed(r)) \/ conns[r] = "probingDb"
  /\ dbProbe[r] = "pending"
  /\ Fault \/ (conns[r] = "probing" /\ ~CanAcquire /\ UNCHANGED faults)
  /\ dbProbe' = [dbProbe EXCEPT ![r] = "unhealthy"]
  /\ UNCHANGED <<confVars, phase, at, pool, tasks, useVars, cancelled, conns, probe,
                 answer, waitVars>>

\* Mutant of AnyUnhealthy: degraded only if every module is.
EveryUnhealthy(r) == \A m \in Enabled : probe[r][m] # "healthy"

AnyUnhealthy(r) == \E m \in Enabled : probe[r][m] # "healthy"

HealthAnswer(r) ==
  /\ \/ conns[r] = "probingDb"
     \/ conns[r] = "probing" /\ dbProbe[r] = "unhealthy"
  /\ Answer(r, IF AnyUnhealthy(r) \/ dbProbe[r] = "unhealthy" THEN "503" ELSE "200")
  /\ UNCHANGED faults

-----------------------------------------------------------------------------
(* Shutdown                                                                *)

\* The demo listens for signals before it starts anything, the others once
\* they serve.
SignalWindow == phase = "serving" \/ (phase = "starting" /\ program = "i18n")

\* A handler that cannot be installed is logged, and shuts the program down as
\* a signal would; live-search also keeps the error for its exit code.
SignalErrors == IF program = "live" THEN BOOLEAN ELSE {FALSE}

\* A signal arrives, or its handler fails.
Signal ==
  /\ ~cancelled
  /\ SignalWindow
  /\ cancelled' = TRUE
  /\ phase' = IF phase = "serving" THEN "draining" ELSE phase
  /\ sigErr' \in SignalErrors
  /\ UNCHANGED <<confVars, at, pool, tasks, useVars, reqVars, drainErr, exit, faults>>

\* A signal that came during the startup is seen by axum::serve.
LateSignal ==
  /\ phase = "serving" /\ cancelled
  /\ phase' = "draining"
  /\ UNCHANGED <<confVars, at, pool, tasks, useVars, cancelled, reqVars, waitVars,
                 faults>>

\* axum::serve returns when its connections have ended.  An upgraded socket is
\* no longer one of them.
HttpStops ==
  /\ cancelled /\ tasks["http"] = "running"
  /\ \A r \in Requests : conns[r] \in {Idle, "socket"}
  /\ tasks' = [tasks EXCEPT !["http"] = "ok"]
  /\ UNCHANGED <<confVars, phase, at, pool, useVars, cancelled, reqVars, waitVars,
                 faults>>

\* The gateway and the demo return from main.
Return ==
  /\ program # "live" /\ phase = "draining"
  /\ tasks["http"] = "ok"
  /\ Exit("ok")

\* Mutant of Join: the result of the last task decides.
JoinLast(t) ==
  /\ program = "live" /\ phase = "draining"
  /\ tasks[t] \in {"ok", "err"}
  /\ drainErr' = (tasks[t] = "err")
  /\ tasks' = [tasks EXCEPT ![t] = "joined"]
  /\ UNCHANGED <<confVars, phase, at, pool, useVars, cancelled, reqVars, sigErr, exit,
                 faults>>

\* join_next; the first error is kept.
Join(t) ==
  /\ program = "live" /\ phase = "draining"
  /\ tasks[t] \in {"ok", "err"}
  /\ drainErr' = (drainErr \/ tasks[t] = "err")
  /\ tasks' = [tasks EXCEPT ![t] = "joined"]
  /\ UNCHANGED <<confVars, phase, at, pool, useVars, cancelled, reqVars, sigErr, exit,
                 faults>>

Drained ==
  /\ program = "live" /\ phase = "draining"
  /\ \A t \in Tasks : tasks[t] = "joined"
  /\ phase' = "closing" /\ pool' = "closing"
  /\ UNCHANGED <<confVars, at, tasks, useVars, cancelled, reqVars, waitVars, faults>>

\* Mutant of DrainTimeout: the drain waits for as long as it takes.
DrainNoTimeout == FALSE

\* Ten seconds are over and a request or a query is still running: abort_all.
DrainTimeout ==
  /\ program = "live" /\ phase = "draining"
  /\ \E t \in Tasks : tasks[t] = "running"
  /\ lquery \/ \E r \in Requests : conns[r] # Idle
  /\ drainErr' = TRUE
  /\ phase' = "aborting"
  /\ UNCHANGED <<confVars, at, pool, tasks, useVars, cancelled, reqVars, sigErr, exit,
                 faults>>

\* Mutant of Abort: only the HTTP server is aborted.
AbortHttp ==
  /\ phase = "aborting"
  /\ tasks' = [tasks EXCEPT !["http"] = "aborted"]
  /\ phase' = "closing" /\ pool' = "closing"
  /\ UNCHANGED <<confVars, at, useVars, cancelled, reqVars, waitVars, faults>>

\* Within the 250 ms the aborted tasks are dropped, with what they hold.  The
\* connections that axum::serve spawned are not of the JoinSet and go on.
Abort ==
  /\ phase = "aborting"
  /\ tasks' = [t \in Tasks |-> IF tasks[t] = "running" THEN "aborted" ELSE tasks[t]]
  /\ lconn' = 0 /\ lquery' = FALSE
  /\ phase' = "closing" /\ pool' = "closing"
  /\ UNCHANGED <<confVars, at, cancelled, reqVars, waitVars, faults>>

\* close_pool: all connections are back, or five seconds are over.
ClosePool ==
  /\ phase = "closing"
  /\ phase' = "flushing"
  /\ pool' = IF Used = 0 THEN "closed" ELSE "leaked"
  /\ UNCHANGED <<confVars, at, tasks, useVars, cancelled, reqVars, waitVars, faults>>

\* Telemetry is flushed within five seconds, and wait returns.
WaitReturns ==
  /\ phase = "flushing"
  /\ Exit(IF sigErr \/ drainErr THEN "error" ELSE "ok")

-----------------------------------------------------------------------------

Serve(r) ==
  \/ Acquire(r) \/ AcquireFails(r) \/ Query(r) \/ ProxyCheck(r)
  \/ \E m \in Modules : ProbeModule(r, m)
  \/ ProbeDatabase(r) \/ ProbeDatabaseFails(r) \/ HealthAnswer(r)

ListenerStep == ListenerConnect \/ ListenerQuery

Wait ==
  \/ LateSignal \/ HttpStops \/ Return
  \/ \E t \in Tasks : Join(t)
  \/ Drained \/ DrainTimeout \/ Abort \/ ClosePool \/ WaitReturns

Next ==
  \/ StartStep \/ StartFail
  \/ ListenerStep \/ ListenerStops \/ ListenerLost
  \/ \E t \in Tasks : TaskFails(t)
  \/ \E r \in Requests : Accept(r) \/ Serve(r) \/ HangUp(r)
  \/ Signal \/ Wait

Spec == Init /\ [][Next]_vars

\* The runtime polls what it can; nothing is assumed of clients and signals.
FairSpec ==
  /\ Spec
  /\ WF_vars(StartStep \/ StartFail)
  /\ WF_vars(ListenerStep) /\ SF_vars(ListenerStops)
  /\ \A r \in Requests : WF_vars(Serve(r))
  /\ WF_vars(Wait)

-----------------------------------------------------------------------------

\* shutdown.rs:18-24, architecture-patterns.md:99: when the pool is closed no
\* task of the JoinSet is left, and the listener has returned its connections;
\* and live-search does not exit without closing it once it has served, also
\* when a signal handler could not be installed or a task has failed.
PoolClosesLast ==
  /\ phase \in {"closing", "flushing"} =>
       lconn = 0 /\ ~lquery /\ \A t \in Tasks : tasks[t] # "running"
  /\ (program = "live" /\ phase = "exited" /\ tasks["http"] # "none") =>
       pool \in {"closed", "leaked"}

\* Requests that outlive the drain can keep close_pool from finishing in time;
\* that never goes unreported.
LeakIsReported == pool = "leaked" => drainErr


\* gateway.rs:300-375: a module that failed its probe makes /health answer 503,
\* whatever the others answer, even if another hangs or the database fails.
HealthReports ==
  \A r \in Requests :
    (conns[r] = "probing" /\ \E m \in Enabled : probe[r][m] = "unhealthy")
      ~> (answer[r] = "503" \/ phase = "exited")

\* shutdown.rs:21-23: a task that failed, before the signal or during the drain,
\* turns the exit code of live-search into an error.
FailureReported ==
  \A t \in Tasks : (tasks[t] = "err" /\ cancelled) ~> (exit = "error")

\* shutdown.rs:76-112: a shutdown ends.  An open SSE stream cannot hold up
\* live-search; the gateway, which has no limit, waits until its clients hang up.
ShutdownEnds ==
  cancelled ~> \/ phase = "exited"
               \/ program = "gateway" /\ \E r \in Requests : conns[r] = "stream"
=============================================================================
