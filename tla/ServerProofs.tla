---------------------------- MODULE ServerProofs ----------------------------
(***************************************************************************)
(* The life of a server process, for any number of client connections and  *)
(* service modules, any size of the gateway's pool and any number of       *)
(* failures.  The argument: axum::serve returns by itself only when no     *)
(* request is left, and every other way out of the drain leaves an error;  *)
(* so without an error nobody holds a connection when the pool is closed.  *)
(***************************************************************************)
EXTENDS Server, FiniteSetTheorems, TLAPS

\* No request is being served: a socket has left axum::serve.
QuietConns == \A r \in Requests : conns[r] \in {Idle, "socket"}

-----------------------------------------------------------------------------
(* The inductive invariant                                                 *)

\* While a program starts, it serves nobody.
Starting ==
  phase = "starting" =>
    /\ at \in 1..Len(Startup)
    /\ tasks["http"] = "none"
    /\ \A r \in Requests : conns[r] = Idle


\* Only live-search has a listener, and only a running one holds connections.
ListenerHolds ==
  /\ program # "live" => tasks["listener"] = "none"
  /\ tasks["listener"] # "running" => lconn = 0 /\ ~lquery

\* From the drain to the exit: what the tasks have left behind.
Draining ==
  /\ phase \in {"closing", "flushing", "exited"} => \A t \in Tasks : tasks[t] # "running"
  /\ phase = "aborting" => drainErr
  /\ tasks["http"] = "ok" => QuietConns
  /\ tasks["http"] = "joined" => drainErr \/ QuietConns
  /\ phase \in {"closing", "flushing"} => drainErr \/ QuietConns
  /\ phase = "flushing" => pool \in {"closed", "leaked"}
  /\ program = "live" /\ phase = "exited" /\ tasks["http"] # "none" =>
       pool \in {"closed", "leaked"}
  /\ LeakIsReported

ServerInv ==
  /\ TypeOK
  /\ Starting
  /\ ListenerHolds
  /\ Draining

-----------------------------------------------------------------------------
(* Settings and startup sequences                                          *)

\* The settings and their typed defaults.
LEMMA KeysAre ==
  /\ Keys = {"upstream", "database", "buffer", "ttl", "timeout", "poolMin", "poolMax"}
  /\ Default \in [Keys -> 0..4]
  BY DEF Keys, Default

\* An override is a number, or unset.
LEMMA OverridesFacts == \A o \in Overrides : o \in [Keys -> -1..4]
<1>1. \A key \in Keys : Limits[key] \subseteq -1..4
  BY KeysAre DEF Limits, I64Max, ChannelMax
<1>2. NoOverride \in [Keys -> -1..4]
  BY DEF NoOverride, Unset
<1>3. ASSUME NEW key \in Keys, NEW v \in Limits[key]
      PROVE  [k \in Keys |-> IF k = key THEN v ELSE Unset] \in [Keys -> -1..4]
  BY <1>1 DEF Unset
<1> QED
  BY <1>2, <1>3 DEF Overrides

\* The effective settings are numbers.
LEMMA EffectiveFacts ==
  ASSUME file \in Overrides, env \in Overrides
  PROVE  Effective \in [Keys -> 0..4]
<1>1. file \in [Keys -> -1..4] /\ env \in [Keys -> -1..4]
  BY OverridesFacts
<1>2. \A k \in Keys : Effective[k] \in 0..4
  BY <1>1, KeysAre DEF Effective, Unset
<1> QED
  BY <1>2 DEF Effective

\* The HTTP server is started last, the listener by live-search alone.
LEMMA StartupFacts ==
  ASSUME program \in Programs, NEW i \in 1..Len(Startup)
  PROVE  /\ Len(Startup) \in 1..8
         /\ Startup[i] # "bind" => i + 1 \in 1..Len(Startup)
         /\ Startup[i] = "listener" => program = "live"
<1>1. CASE program = "live"
  <2>1. Startup = LiveStartup /\ Len(LiveStartup) = 7 /\ LiveStartup[7] = "bind"
    BY <1>1 DEF Startup, LiveStartup
  <2> QED
    BY <1>1, <2>1
<1>2. CASE program = "gateway"
  <2>1. Startup = GatewayStartup
    BY <1>2 DEF Startup
  <2>2. Len(GatewayStartup) = 8 /\ GatewayStartup[8] = "bind"
    BY DEF GatewayStartup
  <2>3. \A j \in 1..8 : GatewayStartup[j] # "listener"
    BY DEF GatewayStartup
  <2> QED
    BY <2>1, <2>2, <2>3
<1>3. CASE program = "i18n"
  <2>1. Startup = DemoStartup
    BY <1>3 DEF Startup
  <2>2. Len(DemoStartup) = 2 /\ DemoStartup[2] = "bind"
    BY DEF DemoStartup
  <2>3. \A j \in 1..2 : DemoStartup[j] # "listener"
    BY DEF DemoStartup
  <2> QED
    BY <2>1, <2>2, <2>3
<1> QED
  BY <1>1, <1>2, <1>3 DEF Programs

-----------------------------------------------------------------------------
(* Steps                                                                   *)

\* A failure is taken from a budget.
LEMMA FaultSpent == ASSUME TypeOK, Fault PROVE faults' \in 0..MaxFaults
  BY ServerAssumption DEF TypeOK, Fault

\* Every program has a first startup step.
LEMMA FirstIndex == ASSUME NEW n \in {2, 7, 8} PROVE 1 \in 1..n
  OBVIOUS

\* A process that has done nothing yet.
LEMMA InitServerInv == ASSUME Init PROVE ServerInv
<1>1. at \in 1..Len(Startup)
  <2>1. Len(LiveStartup) = 7 /\ Len(GatewayStartup) = 8 /\ Len(DemoStartup) = 2
    BY DEF LiveStartup, GatewayStartup, DemoStartup
  <2>2. at = 1 /\ program \in Programs
    BY DEF Init
  <2>3. /\ program = "live" => Startup = LiveStartup
        /\ program = "gateway" => Startup = GatewayStartup
        /\ program = "i18n" => Startup = DemoStartup
    BY DEF Startup
  <2>4. program = "live" => Len(Startup) = 7
    BY <2>1, <2>3
  <2>5. program = "gateway" => Len(Startup) = 8
    BY <2>1, <2>3
  <2>6. program = "i18n" => Len(Startup) = 2
    BY <2>1, <2>3
  <2>7. Len(Startup) \in {2, 7, 8}
    BY <2>2, <2>4, <2>5, <2>6 DEF Programs
  <2> QED
    BY <2>2, <2>7, FirstIndex
<1>2. cfg \in [Keys -> 0..4]
  BY KeysAre DEF Init, Default
<1>3. probe \in [Requests -> [Modules -> {"pending", "healthy", "unhealthy"}]]
  BY DEF Init, Pending
<1>4. TypeOK
  <2>1. faults \in 0..MaxFaults /\ at \in 1..9 /\ lconn \in 0..1
    BY ServerAssumption DEF Init
  <2>2. /\ tasks \in [Tasks -> {"none", "running", "ok", "err", "joined", "aborted"}]
        /\ conns \in [Requests -> {Idle, "acquiring", "querying", "stream", "socket",
                                   "probing", "probingDb", "upstream"}]
        /\ dbProbe \in [Requests -> {"pending", "healthy", "unhealthy"}]
        /\ answer \in [Requests -> {"none", "200", "500", "502", "503"}]
    BY DEF Init
  <2>3. /\ program \in Programs /\ file \in Overrides /\ env \in Overrides
        /\ phase = "starting" /\ pool = "none" /\ exit = "none"
        /\ cancelled = FALSE /\ sigErr = FALSE /\ drainErr = FALSE
        /\ lquery = FALSE
    BY DEF Init
  <2> QED
    BY <1>2, <1>3, <2>1, <2>2, <2>3 DEF TypeOK
<1>5. Starting
  BY <1>1 DEF Init, Starting, Tasks
<1>6. ListenerHolds
  BY DEF Init, ListenerHolds, Tasks
<1>7. Draining
  BY DEF Init, Draining, Tasks, LeakIsReported
<1> QED
  BY <1>4, <1>5, <1>6, <1>7 DEF ServerInv

\* The process ends, which leaves nothing running.
LEMMA ExitStep ==
  ASSUME ServerInv, NEW code \in {"ok", "error", "panic"}, Exit(code),
         program = "live" /\ tasks["http"] # "none" => pool \in {"closed", "leaked"}
  PROVE  ServerInv'
<1>1. /\ phase' = "exited" /\ exit' = code
      /\ tasks' = [t \in Tasks |-> IF tasks[t] = "running" THEN "aborted" ELSE tasks[t]]
      /\ lconn' = 0 /\ lquery' = FALSE /\ conns' = [r \in Requests |-> Idle]
      /\ UNCHANGED <<program, file, env, cfg, at, pool, cancelled, probe, dbProbe, answer, sigErr,
                     drainErr, faults>>
  BY DEF Exit, confVars
<1>2. tasks \in [Tasks -> {"none", "running", "ok", "err", "joined", "aborted"}]
  BY DEF ServerInv, TypeOK
<1>3. /\ tasks' \in [Tasks -> {"none", "running", "ok", "err", "joined", "aborted"}]
      /\ \A t \in Tasks : tasks'[t] # "running"
      /\ tasks'["http"] = "none" => tasks["http"] = "none"
      /\ tasks["listener"] = "none" => tasks'["listener"] = "none"
  BY <1>1, <1>2 DEF Tasks
<1>4. TypeOK'
  <2>1. /\ conns' \in [Requests -> {Idle, "acquiring", "querying", "stream", "socket",
                                    "probing", "probingDb", "upstream"}]
    BY <1>1
  <2>2. lconn' \in 0..1 /\ exit' \in {"none", "ok", "error", "panic"}
    BY <1>1
  <2>3. phase' \in {"starting", "serving", "draining", "aborting", "closing", "flushing",
                    "exited"}
    BY <1>1
  <2>4. lquery' \in BOOLEAN
    BY <1>1
  <2> QED
    BY <1>1, <1>3, <2>1, <2>2, <2>3, <2>4 DEF ServerInv, TypeOK
<1>5. Starting'
  BY <1>1 DEF ServerInv, Starting
<1>6. ListenerHolds'
  BY <1>1, <1>3 DEF ServerInv, ListenerHolds
<1>7. QuietConns'
  BY <1>1 DEF QuietConns
<1>8. Draining'
  <2>1. program' = "live" /\ tasks'["http"] # "none" => pool' \in {"closed", "leaked"}
    BY <1>1, <1>2 DEF Tasks
  <2> QED
    BY <1>1, <1>3, <1>7, <2>1 DEF ServerInv, Draining, LeakIsReported
<1> QED
  BY <1>4, <1>5, <1>6, <1>8 DEF ServerInv

\* A step of a request: it may use the pool, but nobody is served once the HTTP
\* server has ended.
LEMMA RequestStep ==
  ASSUME ServerInv,
         UNCHANGED <<confVars, phase, at, pool, tasks, useVars, cancelled, waitVars>>,
         conns' \in [Requests -> {Idle, "acquiring", "querying", "stream", "socket",
                                 "probing", "probingDb", "upstream"}],
         probe' \in [Requests -> [Modules -> {"pending", "healthy", "unhealthy"}]],
         dbProbe' \in [Requests -> {"pending", "healthy", "unhealthy"}],
         answer' \in [Requests -> {"none", "200", "500", "502", "503"}],
         faults' \in 0..MaxFaults,
         phase # "starting",
         tasks["http"] = "running" \/ (QuietConns => QuietConns')
  PROVE  ServerInv'
<1>1. UNCHANGED <<program, file, env, cfg, phase, at, pool, tasks, lconn, lquery, cancelled,
                  sigErr, drainErr, exit>>
  BY DEF confVars, useVars, waitVars
<1>2. TypeOK'
  BY <1>1 DEF ServerInv, TypeOK
<1>3. Starting' /\ ListenerHolds'
  BY <1>1 DEF ServerInv, Starting, ListenerHolds
<1>4. Draining'
  BY <1>1 DEF ServerInv, Draining, LeakIsReported, Tasks
<1> QED
  BY <1>2, <1>3, <1>4 DEF ServerInv

\* A step of the listener, which holds nothing when it has ended.
LEMMA ListenerMoves ==
  ASSUME ServerInv, tasks["listener"] = "running",
         UNCHANGED <<confVars, phase, at, pool, cancelled, reqVars, waitVars>>,
         NEW to \in {"running", "ok", "err"}, tasks' = [tasks EXCEPT !["listener"] = to],
         lconn' \in 0..1, lquery' \in BOOLEAN, faults' \in 0..MaxFaults,
         to # "running" => lconn' = 0 /\ ~lquery'
  PROVE  ServerInv'
<1>1. UNCHANGED <<program, file, env, cfg, phase, at, pool, cancelled, conns, probe, dbProbe,
                  answer, sigErr, drainErr, exit>>
  BY DEF confVars, reqVars, waitVars
<1>2. tasks \in [Tasks -> {"none", "running", "ok", "err", "joined", "aborted"}]
  BY DEF ServerInv, TypeOK
<1>3. /\ tasks' \in [Tasks -> {"none", "running", "ok", "err", "joined", "aborted"}]
      /\ tasks'["http"] = tasks["http"] /\ tasks'["listener"] = to
  BY <1>2 DEF Tasks
<1>4. TypeOK'
  BY <1>1, <1>3 DEF ServerInv, TypeOK
<1>5. Starting'
  BY <1>1, <1>3 DEF ServerInv, Starting, Startup
<1>6. ListenerHolds'
  BY <1>1, <1>3 DEF ServerInv, ListenerHolds
<1>7. Draining'
  <2>1. phase \notin {"closing", "flushing", "exited"}
    BY DEF ServerInv, Draining, Tasks
  <2> QED
    BY <1>1, <1>3, <2>1 DEF ServerInv, Draining, LeakIsReported, QuietConns
<1> QED
  BY <1>4, <1>5, <1>6, <1>7 DEF ServerInv

\* A startup has at most eight steps.
LEMMA NextIndex == ASSUME NEW n \in 1..8, NEW i \in 1..n PROVE i + 1 \in 1..9
  OBVIOUS

\* A step of the startup that succeeds.
LEMMA StartKeepsInv == ASSUME ServerInv, StartStep PROVE ServerInv'
<1> DEFINE s == Startup[at]
<1>1. /\ phase = "starting" /\ at \in 1..Len(Startup) /\ program \in Programs
      /\ tasks["http"] = "none" /\ \A r \in Requests : conns[r] = Idle
  BY DEF ServerInv, StartStep, Starting, TypeOK
<1>2. /\ Len(Startup) \in 1..8 /\ (s # "bind" => at + 1 \in 1..Len(Startup))
      /\ s = "listener" => program = "live"
  BY <1>1, StartupFacts
<1>3. UNCHANGED <<program, lconn, lquery, cancelled, conns, probe, dbProbe, answer, sigErr,
                  drainErr, exit, faults>>
  BY DEF StartStep, useVars, reqVars, waitVars
<1>4. Startup' = Startup
  BY <1>3 DEF Startup
<1>5. /\ s = "config" => Validate(Effective)
      /\ IF s = "config"
         THEN cfg' = Effective /\ file' = NoOverride /\ env' = NoOverride
         ELSE UNCHANGED <<cfg, file, env>>
      /\ pool' = IF s = "pool" THEN "open" ELSE pool
      /\ tasks' = CASE s = "listener" -> [tasks EXCEPT !["listener"] = "running"]
                    [] s = "bind" -> [tasks EXCEPT !["http"] = "running"]
                    [] OTHER -> tasks
      /\ phase' = IF s = "bind" THEN "serving" ELSE "starting"
      /\ at' = at + 1
  BY DEF StartStep
<1> HIDE DEF s
<1>6. cfg' \in [Keys -> 0..4] /\ file' \in Overrides /\ env' \in Overrides
  <2>1. file \in Overrides /\ env \in Overrides /\ cfg \in [Keys -> 0..4]
    BY DEF ServerInv, TypeOK
  <2>2. CASE s = "config"
    <3>1. Effective \in [Keys -> 0..4]
      BY <2>1, EffectiveFacts
    <3> QED
      BY <1>5, <2>2, <3>1 DEF Overrides
  <2>3. CASE s # "config"
    BY <1>5, <2>1, <2>3
  <2> QED
    BY <2>2, <2>3
<1>7. tasks \in [Tasks -> {"none", "running", "ok", "err", "joined", "aborted"}]
  BY DEF ServerInv, TypeOK
<1>8. /\ tasks' \in [Tasks -> {"none", "running", "ok", "err", "joined", "aborted"}]
      /\ tasks'["http"] = IF s = "bind" THEN "running" ELSE "none"
      /\ tasks'["listener"] = IF s = "listener" THEN "running" ELSE tasks["listener"]
  <2>1. CASE s = "listener"
    BY <1>1, <1>5, <1>7, <2>1 DEF Tasks
  <2>2. CASE s = "bind"
    BY <1>1, <1>5, <1>7, <2>2 DEF Tasks
  <2>3. CASE s # "listener" /\ s # "bind"
    BY <1>1, <1>5, <1>7, <2>3 DEF Tasks
  <2> QED
    BY <2>1, <2>2, <2>3
<1>9. TypeOK'
  <2>1. at' \in 1..9
    BY <1>1, <1>2, <1>5, NextIndex
  <2>2. phase' \in {"starting", "serving", "draining", "aborting", "closing", "flushing",
                    "exited"}
    BY <1>5
  <2>3. pool \in {"none", "open", "closing", "closed", "leaked"}
    BY DEF ServerInv, TypeOK
  <2>4. pool' \in {"none", "open", "closing", "closed", "leaked"}
    BY <1>5, <2>3
  <2> QED
    BY <1>3, <1>6, <1>8, <2>1, <2>2, <2>4 DEF ServerInv, TypeOK
<1>10. Starting'
  <2>1. phase' = "starting" => at' \in 1..Len(Startup')
    BY <1>2, <1>4, <1>5
  <2> QED
    BY <1>1, <1>3, <1>5, <1>8, <2>1 DEF Starting
<1>11. ListenerHolds'
  BY <1>2, <1>3, <1>8 DEF ServerInv, ListenerHolds
<1>12. Draining'
  BY <1>1, <1>3, <1>5, <1>8 DEF ServerInv, Draining, LeakIsReported
<1> QED
  BY <1>9, <1>10, <1>11, <1>12 DEF ServerInv

\* A startup that fails ends the process before it serves anyone.
LEMMA StartFailKeepsInv == ASSUME ServerInv, StartFail PROVE ServerInv'
<1>1. phase = "starting" /\ (Exit("error") \/ Exit("panic"))
  BY DEF StartFail, ConfigFails, SettingsFail, TelemetryFails, PoolFails, BuildFails,
         ContextFails, At
<1>2. tasks["http"] = "none"
  BY <1>1 DEF ServerInv, Starting
<1> QED
  BY <1>1, <1>2, ExitStep

\* The listener holds connections only while it runs.
LEMMA ListenerKeepsInv ==
  ASSUME ServerInv,
         ListenerStep \/ ListenerStops \/ ListenerLost \/ TaskFails("listener")
  PROVE  ServerInv'
<1>1. /\ lconn \in 0..1 /\ lquery \in BOOLEAN /\ faults \in 0..MaxFaults
      /\ tasks \in [Tasks -> {"none", "running", "ok", "err", "joined", "aborted"}]
  BY DEF ServerInv, TypeOK
<1>2. tasks["listener"] = "running" => tasks = [tasks EXCEPT !["listener"] = "running"]
  BY <1>1
<1>3. CASE ListenerConnect
  <2>1. /\ tasks["listener"] = "running"
        /\ UNCHANGED <<confVars, phase, at, pool, cancelled, reqVars, waitVars>>
        /\ tasks' = [tasks EXCEPT !["listener"] = "running"]
        /\ lconn' \in 0..1 /\ lquery' \in BOOLEAN /\ faults' \in 0..MaxFaults
    BY <1>1, <1>2, <1>3 DEF ListenerConnect
  <2> QED
    BY <2>1, ListenerMoves
<1>4. CASE ListenerQuery
  <2>1. /\ tasks["listener"] = "running"
        /\ UNCHANGED <<confVars, phase, at, pool, cancelled, reqVars, waitVars>>
        /\ tasks' = [tasks EXCEPT !["listener"] = "running"]
        /\ lconn' \in 0..1 /\ lquery' \in BOOLEAN /\ faults' \in 0..MaxFaults
    BY <1>1, <1>2, <1>4 DEF ListenerQuery
  <2> QED
    BY <2>1, ListenerMoves
<1>5. CASE ListenerLost
  <2>1. faults' \in 0..MaxFaults
    BY <1>5, FaultSpent DEF ServerInv, ListenerLost
  <2>2. /\ tasks["listener"] = "running"
        /\ UNCHANGED <<confVars, phase, at, pool, cancelled, reqVars, waitVars>>
        /\ tasks' = [tasks EXCEPT !["listener"] = "running"]
        /\ lconn' \in 0..1 /\ lquery' \in BOOLEAN
    BY <1>1, <1>2, <1>5 DEF ListenerLost
  <2> QED
    BY <2>1, <2>2, ListenerMoves
<1>6. CASE ListenerStops
  <2>1. /\ tasks["listener"] = "running"
        /\ UNCHANGED <<confVars, phase, at, pool, cancelled, reqVars, waitVars>>
        /\ tasks' = [tasks EXCEPT !["listener"] = "ok"]
        /\ lconn' = 0 /\ ~lquery'
        /\ lconn' \in 0..1 /\ lquery' \in BOOLEAN /\ faults' \in 0..MaxFaults
    BY <1>1, <1>6 DEF ListenerStops
  <2> QED
    BY <2>1, ListenerMoves
<1>7. CASE TaskFails("listener")
  <2>1. faults' \in 0..MaxFaults
    BY <1>7, FaultSpent DEF ServerInv, TaskFails
  <2>2. /\ tasks["listener"] = "running"
        /\ UNCHANGED <<confVars, phase, at, pool, cancelled, reqVars, waitVars>>
        /\ tasks' = [tasks EXCEPT !["listener"] = "err"]
        /\ lconn' = 0
    BY <1>7 DEF TaskFails
  <2>3. lquery' = FALSE
    BY <1>7 DEF TaskFails
  <2>4. lconn' \in 0..1
    BY <2>2
  <2>5. lquery' \in BOOLEAN
    BY <2>3
  <2> QED
    BY <2>1, <2>2, <2>3, <2>4, <2>5, ListenerMoves
<1> QED
  BY <1>3, <1>4, <1>5, <1>6, <1>7 DEF ListenerStep

\* The HTTP server ends, of its own accord when nobody is served any more.
LEMMA HttpEnds ==
  ASSUME ServerInv, tasks["http"] = "running",
         UNCHANGED <<confVars, phase, at, pool, useVars, cancelled, reqVars, waitVars>>,
         NEW to \in {"ok", "err"}, tasks' = [tasks EXCEPT !["http"] = to],
         faults' \in 0..MaxFaults, to = "ok" => QuietConns
  PROVE  ServerInv'
<1>1. UNCHANGED <<program, file, env, cfg, phase, at, pool, lconn, lquery, cancelled, conns,
                  probe, dbProbe, answer, sigErr, drainErr, exit>>
  BY DEF confVars, useVars, reqVars, waitVars
<1>2. tasks \in [Tasks -> {"none", "running", "ok", "err", "joined", "aborted"}]
  BY DEF ServerInv, TypeOK
<1>3. /\ tasks' \in [Tasks -> {"none", "running", "ok", "err", "joined", "aborted"}]
      /\ tasks'["listener"] = tasks["listener"] /\ tasks'["http"] = to
  BY <1>2 DEF Tasks
<1>4. phase \notin {"starting", "closing", "flushing", "exited"}
  BY DEF ServerInv, Starting, Draining, Tasks
<1>5. TypeOK'
  BY <1>1, <1>3 DEF ServerInv, TypeOK
<1>6. Starting'
  BY <1>1, <1>4 DEF ServerInv, Starting
<1>7. ListenerHolds'
  BY <1>1, <1>3 DEF ServerInv, ListenerHolds
<1>8. Draining'
  BY <1>1, <1>3, <1>4 DEF ServerInv, Draining, LeakIsReported, QuietConns
<1> QED
  BY <1>5, <1>6, <1>7, <1>8 DEF ServerInv

\* wait changes the phase; the drain's first error is kept.
LEMMA PhaseMoves ==
  ASSUME ServerInv, phase # "exited",
         UNCHANGED <<confVars, at, useVars, reqVars, exit, faults>>,
         phase' \in {"starting", "serving", "draining", "aborting", "closing", "flushing"},
         phase' = "starting" => phase = "starting",
         pool' \in {"none", "open", "closing", "closed", "leaked"},
         cancelled' \in BOOLEAN, sigErr' \in BOOLEAN, drainErr' \in BOOLEAN,
         drainErr => drainErr',
         UNCHANGED tasks,
         phase' \in {"closing", "flushing"} =>
           (\A t \in Tasks : tasks[t] # "running") /\ (drainErr' \/ QuietConns),
         phase' = "aborting" => drainErr',
         phase' = "flushing" => pool' \in {"closed", "leaked"},
         pool' = "leaked" => drainErr'
  PROVE  ServerInv'
<1>1. UNCHANGED <<program, file, env, cfg, at, lconn, lquery, conns, probe, dbProbe, answer,
                  exit, faults>>
  BY DEF confVars, useVars, reqVars
<1>2. TypeOK'
  <2>1. phase' \in {"starting", "serving", "draining", "aborting", "closing", "flushing",
                    "exited"}
    OBVIOUS
  <2> QED
    BY <1>1, <2>1 DEF ServerInv, TypeOK
<1>3. Starting'
  BY <1>1 DEF ServerInv, Starting, Startup
<1>4. ListenerHolds'
  BY <1>1 DEF ServerInv, ListenerHolds
<1>5. QuietConns' <=> QuietConns
  BY <1>1 DEF QuietConns
<1>6. Draining'
  BY <1>1, <1>5 DEF ServerInv, Draining, LeakIsReported
<1> QED
  BY <1>2, <1>3, <1>4, <1>6 DEF ServerInv

\* What a request's handlers share: where the request is, and what it may not
\* do once the HTTP server has ended.
LEMMA ServingFacts ==
  ASSUME ServerInv, NEW r \in Requests, conns[r] \notin {Idle, "socket"}
  PROVE  phase # "starting" /\ ~QuietConns
  BY DEF ServerInv, Starting, QuietConns

\* A request goes on, or its client hangs up.
LEMMA BecomeKeepsInv ==
  ASSUME ServerInv, NEW r \in Requests, phase # "starting",
         NEW st \in {Idle, "querying", "probingDb"}, Become(r, st),
         tasks["http"] = "running" \/ ~QuietConns \/ st = Idle
  PROVE  ServerInv'
<1>1. /\ UNCHANGED <<confVars, phase, at, pool, tasks, useVars, cancelled, waitVars>>
      /\ UNCHANGED <<probe, dbProbe, answer, faults>>
      /\ conns' = [conns EXCEPT ![r] = st]
  BY DEF Become
<1>2. conns \in [Requests -> {Idle, "acquiring", "querying", "stream", "socket",
                              "probing", "probingDb", "upstream"}]
  BY DEF ServerInv, TypeOK
<1>3. conns' \in [Requests -> {Idle, "acquiring", "querying", "stream", "socket",
                               "probing", "probingDb", "upstream"}]
  BY <1>1, <1>2
<1>4. /\ probe' \in [Requests -> [Modules -> {"pending", "healthy", "unhealthy"}]]
      /\ dbProbe' \in [Requests -> {"pending", "healthy", "unhealthy"}]
      /\ answer' \in [Requests -> {"none", "200", "500", "502", "503"}]
      /\ faults' \in 0..MaxFaults
  BY <1>1 DEF ServerInv, TypeOK
<1>5. tasks["http"] = "running" \/ (QuietConns => QuietConns')
  BY <1>1, <1>2 DEF QuietConns
<1> QED
  BY <1>1, <1>3, <1>4, <1>5, RequestStep

\* A request is answered.
LEMMA AnswerKeepsInv ==
  ASSUME ServerInv, NEW r \in Requests, phase # "starting", ~QuietConns,
         NEW status \in {"200", "500", "502", "503"}, Answer(r, status),
         faults' \in 0..MaxFaults
  PROVE  ServerInv'
<1>1. /\ UNCHANGED <<confVars, phase, at, pool, tasks, useVars, cancelled, waitVars>>
      /\ conns' = [conns EXCEPT ![r] = Idle]
      /\ answer' = [answer EXCEPT ![r] = status]
      /\ probe' = [probe EXCEPT ![r] = Pending]
      /\ dbProbe' = [dbProbe EXCEPT ![r] = "pending"]
  BY DEF Answer
<1>2. /\ conns \in [Requests -> {Idle, "acquiring", "querying", "stream", "socket",
                                 "probing", "probingDb", "upstream"}]
      /\ probe \in [Requests -> [Modules -> {"pending", "healthy", "unhealthy"}]]
      /\ dbProbe \in [Requests -> {"pending", "healthy", "unhealthy"}]
      /\ answer \in [Requests -> {"none", "200", "500", "502", "503"}]
  BY DEF ServerInv, TypeOK
<1>3. conns' \in [Requests -> {Idle, "acquiring", "querying", "stream", "socket",
                               "probing", "probingDb", "upstream"}]
  BY <1>1, <1>2
<1>4. dbProbe' \in [Requests -> {"pending", "healthy", "unhealthy"}]
  BY <1>1, <1>2
<1>5. answer' \in [Requests -> {"none", "200", "500", "502", "503"}]
  BY <1>1, <1>2
<1>6. probe' \in [Requests -> [Modules -> {"pending", "healthy", "unhealthy"}]]
  <2>1. Pending \in [Modules -> {"pending", "healthy", "unhealthy"}]
    BY DEF Pending
  <2> QED
    BY <1>1, <1>2, <2>1
<1> QED
  BY <1>1, <1>3, <1>4, <1>5, <1>6, RequestStep

\* A request is accepted by an HTTP server that runs.
LEMMA AcceptKeepsInv ==
  ASSUME ServerInv, NEW r \in Requests, Accept(r)
  PROVE  ServerInv'
<1>1. PICK k \in Kinds : conns' = [conns EXCEPT ![r] = k]
  BY DEF Accept
<1>2. k \in {"stream", "acquiring", "probing", "upstream", "socket"}
  BY DEF Kinds
<1>3. /\ UNCHANGED <<confVars, phase, at, pool, tasks, useVars, cancelled, waitVars>>
      /\ UNCHANGED <<probe, dbProbe, faults>>
      /\ answer' = [answer EXCEPT ![r] = "none"]
      /\ phase = "serving" /\ tasks["http"] = "running"
  BY DEF Accept
<1>4. /\ conns \in [Requests -> {Idle, "acquiring", "querying", "stream", "socket",
                                 "probing", "probingDb", "upstream"}]
      /\ answer \in [Requests -> {"none", "200", "500", "502", "503"}]
  BY DEF ServerInv, TypeOK
<1>5. conns' \in [Requests -> {Idle, "acquiring", "querying", "stream", "socket",
                               "probing", "probingDb", "upstream"}]
  BY <1>1, <1>2, <1>4
<1>6. answer' \in [Requests -> {"none", "200", "500", "502", "503"}]
  BY <1>3, <1>4
<1>7. /\ probe' \in [Requests -> [Modules -> {"pending", "healthy", "unhealthy"}]]
      /\ dbProbe' \in [Requests -> {"pending", "healthy", "unhealthy"}]
      /\ faults' \in 0..MaxFaults
  BY <1>3 DEF ServerInv, TypeOK
<1> QED
  BY <1>3, <1>5, <1>6, <1>7, RequestStep

\* An acquire times out, or finds the pool closed.
LEMMA AcquireFailsKeepsInv ==
  ASSUME ServerInv, NEW r \in Requests, AcquireFails(r)
  PROVE  ServerInv'
<1>1. phase # "starting" /\ ~QuietConns
  BY ServingFacts DEF AcquireFails, Idle
<1>2. PICK code \in PoolErrors : Answer(r, code)
  BY DEF AcquireFails
<1>3. code \in {"200", "500", "502", "503"}
  BY DEF PoolErrors
<1>4. faults' \in 0..MaxFaults
  BY DEF AcquireFails, ServerInv, TypeOK
<1> QED
  BY <1>1, <1>2, <1>3, <1>4, AnswerKeepsInv

\* A handler that got what it asked for, or an error of a dependency.
LEMMA HandlerKeepsInv ==
  ASSUME ServerInv, NEW r \in Requests, Query(r) \/ ProxyCheck(r) \/ HealthAnswer(r)
  PROVE  ServerInv'
<1>1. phase # "starting" /\ ~QuietConns
  BY ServingFacts DEF Query, ProxyCheck, HealthAnswer, Idle
<1>2. PICK code \in {"200", "500", "502", "503"} : Answer(r, code)
  BY DEF Query, ProxyCheck, HealthAnswer, PoolErrors
<1>3. faults' \in 0..MaxFaults
  <2>1. Fault \/ faults' = faults
    BY DEF Query, ProxyCheck, HealthAnswer
  <2> QED
    BY <2>1, FaultSpent DEF ServerInv, TypeOK
<1> QED
  BY <1>1, <1>2, <1>3, AnswerKeepsInv

\* A probe of /health notes its result.
LEMMA ProbeKeepsInv ==
  ASSUME ServerInv, NEW r \in Requests,
         ProbeDatabaseFails(r) \/ \E m \in Modules : ProbeModule(r, m)
  PROVE  ServerInv'
<1>1. phase # "starting"
  BY ServingFacts DEF ProbeModule, ProbeDatabaseFails, Idle
<1>2. /\ UNCHANGED <<confVars, phase, at, pool, tasks, useVars, cancelled, waitVars>>
      /\ UNCHANGED <<conns, answer>>
  BY DEF ProbeModule, ProbeDatabaseFails
<1>3. /\ conns' \in [Requests -> {Idle, "acquiring", "querying", "stream", "socket",
                                  "probing", "probingDb", "upstream"}]
      /\ answer' \in [Requests -> {"none", "200", "500", "502", "503"}]
  BY <1>2 DEF ServerInv, TypeOK
<1>4. QuietConns => QuietConns'
  BY <1>2 DEF QuietConns
<1>5. faults' \in 0..MaxFaults
  <2>1. Fault \/ faults' = faults
    BY DEF ProbeModule, ProbeDatabaseFails
  <2> QED
    BY <2>1, FaultSpent DEF ServerInv, TypeOK
<1>6. /\ probe \in [Requests -> [Modules -> {"pending", "healthy", "unhealthy"}]]
      /\ dbProbe \in [Requests -> {"pending", "healthy", "unhealthy"}]
  BY DEF ServerInv, TypeOK
<1>7. /\ probe' \in [Requests -> [Modules -> {"pending", "healthy", "unhealthy"}]]
      /\ dbProbe' \in [Requests -> {"pending", "healthy", "unhealthy"}]
  <2>1. CASE ProbeDatabaseFails(r)
    <3>1. probe' = probe /\ dbProbe' = [dbProbe EXCEPT ![r] = "unhealthy"]
      BY <2>1 DEF ProbeDatabaseFails
    <3>2. dbProbe' \in [Requests -> {"pending", "healthy", "unhealthy"}]
      BY <1>6, <3>1
    <3> QED
      BY <1>6, <3>1, <3>2
  <2>2. CASE \E m \in Modules : ProbeModule(r, m)
    <3>1. PICK m \in Modules : ProbeModule(r, m)
      BY <2>2
    <3>2. dbProbe' = dbProbe
      BY <3>1 DEF ProbeModule
    <3>3. PICK v \in {"healthy", "unhealthy"} : probe' = [probe EXCEPT ![r][m] = v]
      BY <3>1 DEF ProbeModule
    <3>4. [probe[r] EXCEPT ![m] = v] \in [Modules -> {"pending", "healthy", "unhealthy"}]
      BY <1>6
    <3>5. probe' \in [Requests -> [Modules -> {"pending", "healthy", "unhealthy"}]]
      BY <1>6, <3>3, <3>4
    <3> QED
      BY <1>6, <3>2, <3>5
  <2> QED
    BY <2>1, <2>2
<1> QED
  BY <1>1, <1>2, <1>3, <1>4, <1>5, <1>7, RequestStep

\* Every step of a request.
LEMMA RequestKeepsInv ==
  ASSUME ServerInv, NEW r \in Requests, Accept(r) \/ Serve(r) \/ HangUp(r)
  PROVE  ServerInv'
<1>1. CASE Accept(r)
  BY <1>1, AcceptKeepsInv
<1>2. CASE Acquire(r)
  <2>1. Become(r, "querying") /\ conns[r] \notin {Idle, "socket"}
    BY <1>2 DEF Acquire, Idle
  <2> QED
    BY <2>1, ServingFacts, BecomeKeepsInv
<1>3. CASE ProbeDatabase(r)
  <2>1. Become(r, "probingDb") /\ conns[r] \notin {Idle, "socket"}
    BY <1>3 DEF ProbeDatabase, Idle
  <2> QED
    BY <2>1, ServingFacts, BecomeKeepsInv
<1>4. CASE HangUp(r)
  <2>1. Become(r, Idle) /\ phase # "starting"
    BY <1>4 DEF HangUp, Idle, ServerInv, Starting
  <2> QED
    BY <2>1, BecomeKeepsInv
<1>5. CASE AcquireFails(r)
  BY <1>5, AcquireFailsKeepsInv
<1>6. CASE Query(r) \/ ProxyCheck(r) \/ HealthAnswer(r)
  BY <1>6, HandlerKeepsInv
<1>7. CASE ProbeDatabaseFails(r) \/ \E m \in Modules : ProbeModule(r, m)
  BY <1>7, ProbeKeepsInv
<1> QED
  BY <1>1, <1>2, <1>3, <1>4, <1>5, <1>6, <1>7 DEF Serve

-----------------------------------------------------------------------------
(* Shutdown                                                                *)

\* A signal, or one that was waiting, begins the drain.
LEMMA SignalKeepsInv == ASSUME ServerInv, Signal \/ LateSignal PROVE ServerInv'
<1>1. /\ UNCHANGED <<confVars, at, useVars, reqVars, exit, faults>>
      /\ UNCHANGED <<tasks, pool, drainErr>>
      /\ phase \in {"serving", "starting"}
      /\ phase' \in {phase, "draining"} /\ cancelled' \in BOOLEAN
  BY DEF Signal, LateSignal, SignalWindow, waitVars, ServerInv, TypeOK
<1>2. sigErr' \in BOOLEAN
  BY DEF Signal, LateSignal, SignalErrors, waitVars, ServerInv, TypeOK
<1>3. pool' \in {"none", "open", "closing", "closed", "leaked"} /\ drainErr' \in BOOLEAN
  BY <1>1 DEF ServerInv, TypeOK
<1>4. pool' = "leaked" => drainErr'
  BY <1>1 DEF ServerInv, Draining, LeakIsReported
<1>5. /\ phase # "exited" /\ phase' \in {"starting", "serving", "draining"}
      /\ phase' = "starting" => phase = "starting"
  BY <1>1
<1> QED
  BY <1>1, <1>2, <1>3, <1>4, <1>5, PhaseMoves

\* join_next: an HTTP server that has returned by itself served nobody any more.
LEMMA JoinKeepsInv == ASSUME ServerInv, NEW t \in Tasks, Join(t) PROVE ServerInv'
<1>1. /\ UNCHANGED <<program, file, env, cfg, phase, at, pool, lconn, lquery, cancelled, conns,
                     probe, dbProbe, answer, sigErr, exit, faults>>
      /\ phase = "draining" /\ tasks[t] \in {"ok", "err"}
      /\ drainErr' = (drainErr \/ tasks[t] = "err")
      /\ tasks' = [tasks EXCEPT ![t] = "joined"]
  BY DEF Join, confVars, useVars, reqVars
<1>2. /\ tasks \in [Tasks -> {"none", "running", "ok", "err", "joined", "aborted"}]
      /\ drainErr \in BOOLEAN
  BY DEF ServerInv, TypeOK
<1>3. tasks' \in [Tasks -> {"none", "running", "ok", "err", "joined", "aborted"}]
  BY <1>1, <1>2
<1>4. drainErr' \in BOOLEAN /\ (drainErr => drainErr')
  BY <1>1
<1>5. QuietConns' <=> QuietConns
  BY <1>1 DEF QuietConns
<1>6. TypeOK'
  BY <1>1, <1>3, <1>4 DEF ServerInv, TypeOK
<1>7. Starting'
  BY <1>1 DEF ServerInv, Starting
<1>8. ListenerHolds'
  <2>1. CASE t = "listener"
    <3>1. tasks["listener"] \in {"ok", "err"}
      BY <1>1, <2>1
    <3> QED
      BY <1>1, <3>1 DEF ServerInv, ListenerHolds
  <2>2. CASE t = "http"
    <3>1. tasks'["listener"] = tasks["listener"]
      BY <1>1, <1>2, <2>2 DEF Tasks
    <3> QED
      BY <1>1, <3>1 DEF ServerInv, ListenerHolds
  <2> QED
    BY <2>1, <2>2 DEF Tasks
<1>9. Draining'
  <2>1. LeakIsReported'
    BY <1>1, <1>4 DEF ServerInv, Draining, LeakIsReported
  <2>2. /\ tasks'["http"] = "ok" => QuietConns'
        /\ tasks'["http"] = "joined" => drainErr' \/ QuietConns'
    <3>1. CASE t = "http"
      <4>1. tasks'["http"] = "joined" /\ tasks["http"] \in {"ok", "err"}
        BY <1>1, <1>2, <3>1 DEF Tasks
      <4>2. tasks["http"] = "err" => drainErr'
        BY <1>1, <3>1
      <4> QED
        BY <1>5, <4>1, <4>2 DEF ServerInv, Draining
    <3>2. CASE t # "http"
      <4>1. tasks'["http"] = tasks["http"]
        BY <1>1, <1>2, <3>2 DEF Tasks
      <4> QED
        BY <1>4, <1>5, <4>1 DEF ServerInv, Draining
    <3> QED
      BY <3>1, <3>2
  <2> QED
    BY <1>1, <2>1, <2>2 DEF Draining
<1> QED
  BY <1>6, <1>7, <1>8, <1>9 DEF ServerInv

\* Nothing is left of the tasks after abort_all, but requests may go on.
LEMMA AbortKeepsInv == ASSUME ServerInv, Abort PROVE ServerInv'
<1>1. /\ UNCHANGED <<program, file, env, cfg, at, cancelled, conns, probe, dbProbe, answer,
                     sigErr, drainErr, exit, faults>>
      /\ phase = "aborting" /\ phase' = "closing" /\ pool' = "closing"
      /\ tasks' = [t \in Tasks |-> IF tasks[t] = "running" THEN "aborted" ELSE tasks[t]]
      /\ lconn' = 0 /\ lquery' = FALSE
  BY DEF Abort, confVars, reqVars, waitVars
<1>2. tasks \in [Tasks -> {"none", "running", "ok", "err", "joined", "aborted"}]
  BY DEF ServerInv, TypeOK
<1>3. /\ tasks' \in [Tasks -> {"none", "running", "ok", "err", "joined", "aborted"}]
      /\ \A t \in Tasks : tasks'[t] # "running"
      /\ tasks["listener"] = "none" => tasks'["listener"] = "none"
      /\ tasks'["http"] = "ok" => tasks["http"] = "ok"
  BY <1>1, <1>2 DEF Tasks
<1>4. drainErr'
  BY <1>1 DEF ServerInv, Draining
<1>5. TypeOK'
  <2>1. phase' \in {"starting", "serving", "draining", "aborting", "closing", "flushing",
                    "exited"}
    BY <1>1
  <2>2. pool' \in {"none", "open", "closing", "closed", "leaked"}
    BY <1>1
  <2>3. lconn' \in 0..1
    BY <1>1
  <2>4. lquery' \in BOOLEAN
    BY <1>1
  <2> QED
    BY <1>1, <1>3, <2>1, <2>2, <2>3, <2>4 DEF ServerInv, TypeOK
<1>6. Starting'
  BY <1>1 DEF ServerInv, Starting
<1>7. ListenerHolds'
  BY <1>1, <1>3 DEF ServerInv, ListenerHolds
<1>8. Draining'
  BY <1>1, <1>3, <1>4 DEF ServerInv, Draining, LeakIsReported, QuietConns
<1> QED
  BY <1>5, <1>6, <1>7, <1>8 DEF ServerInv

\* Only a request that the drain gave up on can keep a connection.
LEMMA ClosePoolKeepsInv == ASSUME ServerInv, ClosePool PROVE ServerInv'
<1>1. /\ UNCHANGED <<confVars, at, useVars, reqVars, exit, faults>>
      /\ UNCHANGED <<tasks, cancelled, sigErr, drainErr>>
      /\ phase = "closing" /\ phase' = "flushing"
      /\ pool' = IF Used = 0 THEN "closed" ELSE "leaked"
  BY DEF ClosePool, waitVars
<1>2. /\ \A t \in Tasks : tasks[t] # "running"
      /\ drainErr \/ QuietConns
      /\ cancelled \in BOOLEAN /\ sigErr \in BOOLEAN /\ drainErr \in BOOLEAN
  BY <1>1 DEF ServerInv, Draining, TypeOK
<1>3. QuietConns => Used = 0
  <2>1. lconn = 0 /\ ~lquery
    BY <1>2 DEF ServerInv, ListenerHolds, Tasks
  <2>2. QuietConns => Holding = {}
    BY DEF QuietConns, Holding, Idle
  <2>3. Cardinality({}) = 0
    BY FS_EmptySet
  <2> QED
    BY <2>1, <2>2, <2>3 DEF Used
<1>4. pool' = "leaked" => drainErr'
  BY <1>1, <1>2, <1>3
<1>5. /\ pool' \in {"closed", "leaked"}
      /\ pool' \in {"none", "open", "closing", "closed", "leaked"}
  BY <1>1
<1> QED
  BY <1>1, <1>2, <1>4, <1>5, PhaseMoves

\* Every step from the signal to the exit.
LEMMA WaitKeepsInv == ASSUME ServerInv, Wait PROVE ServerInv'
<1>1. CASE LateSignal
  BY <1>1, SignalKeepsInv
<1>2. CASE HttpStops
  <2>1. /\ tasks["http"] = "running" /\ QuietConns
        /\ UNCHANGED <<confVars, phase, at, pool, useVars, cancelled, reqVars, waitVars>>
        /\ tasks' = [tasks EXCEPT !["http"] = "ok"]
    BY <1>2 DEF HttpStops, QuietConns
  <2>2. faults' \in 0..MaxFaults
    BY <1>2 DEF HttpStops, ServerInv, TypeOK
  <2> QED
    BY <2>1, <2>2, HttpEnds
<1>3. CASE Return
  BY <1>3, ExitStep DEF Return
<1>4. CASE \E t \in Tasks : Join(t)
  BY <1>4, JoinKeepsInv
<1>5. CASE Drained
  <2>1. /\ UNCHANGED <<confVars, at, useVars, reqVars, exit, faults>>
        /\ UNCHANGED <<tasks, cancelled, sigErr, drainErr>>
        /\ phase = "draining" /\ phase' = "closing" /\ pool' = "closing"
        /\ \A t \in Tasks : tasks[t] = "joined"
    BY <1>5 DEF Drained, waitVars
  <2>2. drainErr \/ QuietConns
    BY <2>1 DEF ServerInv, Draining, Tasks
  <2>3. cancelled' \in BOOLEAN /\ sigErr' \in BOOLEAN /\ drainErr' \in BOOLEAN
    BY <2>1 DEF ServerInv, TypeOK
  <2> QED
    BY <2>1, <2>2, <2>3, PhaseMoves
<1>6. CASE DrainTimeout
  <2>1. /\ UNCHANGED <<confVars, at, useVars, reqVars, exit, faults>>
        /\ UNCHANGED <<tasks, pool, cancelled, sigErr>>
        /\ phase = "draining" /\ phase' = "aborting" /\ drainErr' = TRUE
    BY <1>6 DEF DrainTimeout
  <2>2. /\ cancelled' \in BOOLEAN /\ sigErr' \in BOOLEAN /\ drainErr' \in BOOLEAN
        /\ pool' \in {"none", "open", "closing", "closed", "leaked"}
    BY <2>1 DEF ServerInv, TypeOK
  <2> QED
    BY <2>1, <2>2, PhaseMoves
<1>7. CASE Abort
  BY <1>7, AbortKeepsInv
<1>8. CASE ClosePool
  BY <1>8, ClosePoolKeepsInv
<1>9. CASE WaitReturns
  <2>1. pool \in {"closed", "leaked"}
    BY <1>9 DEF WaitReturns, ServerInv, Draining
  <2>2. PICK code \in {"ok", "error"} : Exit(code)
    BY <1>9 DEF WaitReturns
  <2> QED
    BY <2>1, <2>2, ExitStep
<1> QED
  BY <1>1, <1>2, <1>3, <1>4, <1>5, <1>6, <1>7, <1>8, <1>9 DEF Wait

-----------------------------------------------------------------------------
(* The theorems                                                            *)

\* The inductive step, one case per action.
LEMMA NextServerInv == ASSUME ServerInv, [Next]_vars PROVE ServerInv'
<1>1. CASE StartStep
  BY <1>1, StartKeepsInv
<1>2. CASE StartFail
  BY <1>2, StartFailKeepsInv
<1>3. CASE ListenerStep \/ ListenerStops \/ ListenerLost
  BY <1>3, ListenerKeepsInv
<1>4. ASSUME NEW t \in Tasks, TaskFails(t) PROVE ServerInv'
  <2>1. CASE t = "listener"
    BY <1>4, <2>1, ListenerKeepsInv
  <2>2. CASE t = "http"
    <3>1. faults' \in 0..MaxFaults
      BY <1>4, FaultSpent DEF ServerInv, TaskFails
    <3>2. /\ tasks["http"] = "running" /\ tasks' = [tasks EXCEPT !["http"] = "err"]
          /\ UNCHANGED <<confVars, phase, at, pool, cancelled, reqVars, waitVars>>
          /\ lconn' = lconn
      BY <1>4, <2>2 DEF TaskFails
    <3>3. lquery' = lquery
      BY <1>4, <2>2 DEF TaskFails, ServerInv, TypeOK
    <3> QED
      BY <3>1, <3>2, <3>3, HttpEnds DEF useVars
  <2> QED
    BY <2>1, <2>2 DEF Tasks
<1>5. ASSUME NEW r \in Requests, Accept(r) \/ Serve(r) \/ HangUp(r) PROVE ServerInv'
  BY <1>5, RequestKeepsInv
<1>6. CASE Signal
  BY <1>6, SignalKeepsInv
<1>7. CASE Wait
  BY <1>7, WaitKeepsInv
<1>8. CASE UNCHANGED vars
  <2>1. UNCHANGED <<program, file, env, cfg, phase, at, pool, tasks, lconn, lquery, cancelled,
                    conns, probe, dbProbe, answer, sigErr, drainErr, exit, faults>>
    BY <1>8 DEF vars, confVars, useVars, reqVars, waitVars
  <2>2. TypeOK'
    BY <2>1 DEF ServerInv, TypeOK
  <2>3. Starting' /\ ListenerHolds'
    BY <2>1 DEF ServerInv, Starting, Startup, ListenerHolds
  <2>4. Draining'
    BY <2>1 DEF ServerInv, Draining, QuietConns, LeakIsReported
  <2> QED
    BY <2>2, <2>3, <2>4 DEF ServerInv
<1> QED
  BY <1>1, <1>2, <1>3, <1>4, <1>5, <1>6, <1>7, <1>8 DEF Next

\* The inductive invariant of bootstrap::run, of wait and of the other two mains.
THEOREM ServerInvHolds == Spec => []ServerInv
  BY InitServerInv, NextServerInv, PTL DEF Spec

\* The state keeps its type: the pool's accounting and the faults in particular.
THEOREM ServerTypeCorrect == Spec => []TypeOK
<1>1. ServerInv => TypeOK
  BY DEF ServerInv
<1> QED
  BY <1>1, ServerInvHolds, PTL

\* shutdown.rs:18-24: the pool is closed after the last task has ended and the
\* listener has returned its connections, and live-search, once it has served,
\* does not exit before; with any number of requests and of failures.
THEOREM PoolClosesLastHolds == Spec => []PoolClosesLast
<1>1. ServerInv => PoolClosesLast
  BY DEF ServerInv, ListenerHolds, Draining, PoolClosesLast, Tasks
<1> QED
  BY <1>1, ServerInvHolds, PTL

\* shutdown.rs:76-112: a pool that close_pool gave up on goes with an error of
\* the drain: without one axum::serve had returned, and no request was left.
THEOREM LeakIsReportedHolds == Spec => []LeakIsReported
<1>1. ServerInv => LeakIsReported
  BY DEF ServerInv, Draining
<1> QED
  BY <1>1, ServerInvHolds, PTL

-----------------------------------------------------------------------------
(* What the exit code says                                                 *)

\* shutdown.rs:21-23: live-search returns no error only after an orderly shutdown:
\* both tasks were joined, neither they nor the signal handlers had an error to
\* report, and the pool was closed with every connection back.
CleanExit ==
  (program = "live" /\ exit = "ok") =>
    /\ ~sigErr /\ ~drainErr
    /\ \A t \in Tasks : tasks[t] = "joined"
    /\ pool = "closed"

\* A task that failed has done so after the startup and is not forgotten: the drain
\* is left with an error or with every task joined.
ReportInv ==
  /\ \A t \in Tasks : tasks[t] = "err" => program = "live" /\ phase # "starting" /\ exit # "ok"
  /\ phase # "exited" => exit = "none"
  /\ phase \in {"closing", "flushing"} => drainErr \/ \A t \in Tasks : tasks[t] = "joined"
  /\ CleanExit

\* The failure of t will be, or has been, reported.
Marked(t) == program = "live" /\ exit # "ok" /\ (tasks[t] = "err" \/ drainErr)
reportVars == <<program, phase, exit, tasks, pool, sigErr, drainErr>>

\* Requests and the listener's connections change nothing the exit code depends on.
LEMMA ReportUntouched ==
  ASSUME [Next]_vars
  PROVE  \/ UNCHANGED reportVars
         \/ StartStep \/ StartFail \/ ListenerStops \/ Signal \/ Wait
         \/ \E t \in Tasks : TaskFails(t)
<1>1. ListenerStep \/ ListenerLost => UNCHANGED reportVars
  BY DEF ListenerStep, ListenerConnect, ListenerQuery, ListenerLost, reportVars, confVars,
         waitVars
<1>2. ASSUME NEW r \in Requests, Accept(r) \/ HangUp(r) PROVE UNCHANGED reportVars
  BY <1>2 DEF Accept, HangUp, Become, reportVars, confVars, waitVars
<1>3. ASSUME NEW r \in Requests, Serve(r) PROVE UNCHANGED reportVars
  <2>1. CASE Acquire(r) \/ ProbeDatabase(r)
    BY <2>1 DEF Acquire, ProbeDatabase, Become, reportVars, confVars, waitVars
  <2>2. ASSUME NEW code, Answer(r, code) PROVE UNCHANGED reportVars
    BY <2>2 DEF Answer, reportVars, confVars, waitVars
  <2>3. CASE AcquireFails(r) \/ Query(r)
    BY <2>2, <2>3 DEF AcquireFails, Query
  <2>4. CASE ProxyCheck(r) \/ HealthAnswer(r)
    BY <2>2, <2>4 DEF ProxyCheck, HealthAnswer
  <2>5. CASE ProbeDatabaseFails(r) \/ \E m \in Modules : ProbeModule(r, m)
    BY <2>5 DEF ProbeDatabaseFails, ProbeModule, reportVars, confVars, waitVars
  <2> QED
    BY <1>3, <2>1, <2>3, <2>4, <2>5 DEF Serve
<1>4. UNCHANGED vars => UNCHANGED reportVars
  BY DEF vars, reportVars, confVars, waitVars
<1> QED
  BY <1>1, <1>2, <1>3, <1>4 DEF Next

\* The process exits: with an error, from main of the gateway or the demo, or from
\* wait() with what it has kept.
LEMMA ExitReports ==
  ASSUME ServerInv, ReportInv, NEW code \in {"ok", "error", "panic"}, Exit(code),
         code = "ok" /\ program = "live" => phase = "flushing" /\ ~sigErr /\ ~drainErr,
         code = "ok" /\ program # "live" => \A t \in Tasks : tasks[t] # "err"
  PROVE  ReportInv'
<1>1. /\ phase' = "exited" /\ exit' = code /\ UNCHANGED <<program, pool, sigErr, drainErr>>
      /\ tasks' = [t \in Tasks |-> IF tasks[t] = "running" THEN "aborted" ELSE tasks[t]]
  BY DEF Exit, confVars
<1>2. \A t \in Tasks : /\ tasks'[t] = "err" => tasks[t] = "err"
                       /\ tasks[t] = "joined" => tasks'[t] = "joined"
  BY <1>1
<1>3. ASSUME code = "ok", program = "live"
      PROVE  /\ ~sigErr /\ ~drainErr /\ pool = "closed"
             /\ \A t \in Tasks : tasks[t] = "joined"
  <2>1. phase = "flushing" /\ ~sigErr /\ ~drainErr
    BY <1>3
  <2>2. pool = "closed"
    BY <2>1 DEF ServerInv, Draining, LeakIsReported
  <2> QED
    BY <2>1, <2>2 DEF ReportInv
<1>4. CleanExit'
  BY <1>1, <1>2, <1>3 DEF CleanExit
<1>5. ASSUME NEW t \in Tasks, tasks'[t] = "err"
      PROVE  program' = "live" /\ phase' # "starting" /\ exit' # "ok"
  <2>1. tasks[t] = "err" /\ program = "live"
    BY <1>2, <1>5 DEF ReportInv
  <2>2. code # "ok"
    BY <1>3, <2>1
  <2> QED
    BY <1>1, <2>1, <2>2
<1> QED
  BY <1>1, <1>4, <1>5 DEF ReportInv

\* A step that does not exit and after which no task has failed that had not.
LEMMA KeepsReport ==
  ASSUME ReportInv, phase \notin {"closing", "flushing", "exited"},
         UNCHANGED <<program, exit>>,
         phase' # "exited", phase' = "starting" => phase = "starting",
         \A t \in Tasks : tasks'[t] = "err" =>
           tasks[t] = "err" \/ (program = "live" /\ phase # "starting"),
         phase' \in {"closing", "flushing"} => drainErr' \/ \A t \in Tasks : tasks'[t] = "joined"
  PROVE  ReportInv'
<1>1. exit = "none" /\ exit' = "none"
  BY DEF ReportInv
<1>2. CleanExit'
  BY <1>1 DEF CleanExit
<1>3. ASSUME NEW t \in Tasks, tasks'[t] = "err"
      PROVE  program' = "live" /\ phase' # "starting" /\ exit' # "ok"
  BY <1>1, <1>3 DEF ReportInv
<1> QED
  BY <1>1, <1>2, <1>3 DEF ReportInv

\* The steps of the tasks and of the startup.
LEMMA TasksReport ==
  ASSUME ServerInv, ReportInv,
         StartStep \/ StartFail \/ ListenerStops \/ Signal \/ \E t \in Tasks : TaskFails(t)
  PROVE  ReportInv'
<1>1. tasks \in [Tasks -> {"none", "running", "ok", "err", "joined", "aborted"}]
      /\ (phase \in {"closing", "flushing", "exited"} => \A t \in Tasks : tasks[t] # "running")
  BY DEF ServerInv, TypeOK, Draining
<1>2. CASE StartStep
  <2>1. /\ phase = "starting" /\ phase' \in {"starting", "serving"}
        /\ UNCHANGED <<program, exit>>
    BY <1>2 DEF StartStep, waitVars
  <2>2. tasks' \in {tasks, [tasks EXCEPT !["listener"] = "running"],
                    [tasks EXCEPT !["http"] = "running"]}
    BY <1>2 DEF StartStep
  <2>3. \A t \in Tasks : tasks'[t] = "err" => tasks[t] = "err"
    BY <1>1, <2>2
  <2> QED
    BY <2>1, <2>3, KeepsReport
<1>3. CASE StartFail
  <2>1. Exit("error") \/ Exit("panic")
    BY <1>3 DEF StartFail, ConfigFails, SettingsFail, TelemetryFails, PoolFails, BuildFails,
                ContextFails
  <2> QED
    BY <2>1, ExitReports
<1>4. CASE ListenerStops
  <2>1. /\ tasks' = [tasks EXCEPT !["listener"] = "ok"] /\ tasks["listener"] = "running"
        /\ UNCHANGED <<program, phase, exit>>
    BY <1>4 DEF ListenerStops, confVars, waitVars
  <2>2. \A t \in Tasks : tasks'[t] = "err" => tasks[t] = "err"
    BY <1>1, <2>1
  <2>3. phase \notin {"closing", "flushing", "exited"}
    BY <1>1, <2>1 DEF Tasks
  <2> QED
    BY <2>1, <2>2, <2>3, KeepsReport
<1>5. CASE Signal
  <2>1. phase \in {"starting", "serving"} /\ phase' \in {phase, "draining"}
        /\ UNCHANGED <<program, exit, tasks>> /\ (phase' = "starting" => phase = "starting")
    BY <1>5 DEF Signal, SignalWindow, confVars
  <2> QED
    BY <2>1, KeepsReport
<1>6. ASSUME NEW t \in Tasks, TaskFails(t) PROVE ReportInv'
  <2>1. /\ program = "live" /\ phase \in {"serving", "draining"}
        /\ UNCHANGED <<program, phase, exit>>
    BY <1>6 DEF TaskFails, confVars, waitVars
  <2> QED
    BY <2>1, KeepsReport
<1> QED
  BY <1>2, <1>3, <1>4, <1>5, <1>6

\* The steps of the shutdown.
LEMMA WaitReports == ASSUME ServerInv, ReportInv, Wait PROVE ReportInv'
<1>1. tasks \in [Tasks -> {"none", "running", "ok", "err", "joined", "aborted"}]
      /\ (phase \in {"closing", "flushing", "exited"} => \A t \in Tasks : tasks[t] # "running")
  BY DEF ServerInv, TypeOK, Draining
<1>2. CASE LateSignal
  BY <1>2, KeepsReport DEF LateSignal, confVars, waitVars
<1>3. CASE HttpStops
  <2>1. /\ tasks' = [tasks EXCEPT !["http"] = "ok"] /\ tasks["http"] = "running"
        /\ UNCHANGED <<program, phase, exit>>
    BY <1>3 DEF HttpStops, confVars, waitVars
  <2>2. \A t \in Tasks : tasks'[t] = "err" => tasks[t] = "err"
    BY <1>1, <2>1
  <2>3. phase \notin {"closing", "flushing", "exited"}
    BY <1>1, <2>1 DEF Tasks
  <2> QED
    BY <2>1, <2>2, <2>3, KeepsReport
<1>4. CASE Return
  <2>1. Exit("ok") /\ program # "live"
    BY <1>4 DEF Return
  <2>2. \A t \in Tasks : tasks[t] # "err"
    BY <2>1 DEF ReportInv
  <2> QED
    BY <2>1, <2>2, ExitReports
<1>5. ASSUME NEW t \in Tasks, Join(t) PROVE ReportInv'
  <2>1. /\ phase = "draining" /\ tasks' = [tasks EXCEPT ![t] = "joined"]
        /\ UNCHANGED <<program, phase, exit>>
    BY <1>5 DEF Join, confVars
  <2>2. \A u \in Tasks : tasks'[u] = "err" => tasks[u] = "err"
    BY <1>1, <2>1
  <2> QED
    BY <2>1, <2>2, KeepsReport
<1>6. CASE Drained
  BY <1>6, KeepsReport DEF Drained, confVars, waitVars
<1>7. CASE DrainTimeout
  BY <1>7, KeepsReport DEF DrainTimeout, confVars
<1>8. CASE Abort
  <2>1. /\ phase = "aborting" /\ phase' = "closing" /\ UNCHANGED <<program, exit, drainErr>>
        /\ tasks' = [u \in Tasks |-> IF tasks[u] = "running" THEN "aborted" ELSE tasks[u]]
    BY <1>8 DEF Abort, confVars, waitVars
  <2>2. drainErr /\ \A u \in Tasks : tasks'[u] = "err" => tasks[u] = "err"
    BY <2>1 DEF ServerInv, Draining
  <2> QED
    BY <2>1, <2>2, KeepsReport
<1>9. CASE ClosePool
  <2>1. /\ phase = "closing" /\ phase' = "flushing"
        /\ UNCHANGED <<program, exit, tasks, drainErr>>
    BY <1>9 DEF ClosePool, confVars, waitVars
  <2>2. CleanExit'
    BY <2>1 DEF ReportInv, CleanExit
  <2> QED
    BY <2>1, <2>2 DEF ReportInv
<1>10. CASE WaitReturns
  <2>1. phase = "flushing" /\ Exit(IF sigErr \/ drainErr THEN "error" ELSE "ok")
    BY <1>10 DEF WaitReturns
  <2>2. CASE sigErr \/ drainErr
    BY <2>1, <2>2, ExitReports
  <2>3. CASE ~(sigErr \/ drainErr)
    <3>1. Exit("ok") /\ ~sigErr /\ ~drainErr
      BY <2>1, <2>3
    <3>2. \A t \in Tasks : tasks[t] # "err"
      BY <2>1, <3>1 DEF ReportInv
    <3> QED
      BY <2>1, <3>1, <3>2, ExitReports
  <2> QED
    BY <2>2, <2>3
<1> QED
  BY <1>2, <1>3, <1>4, <1>5, <1>6, <1>7, <1>8, <1>9, <1>10, <1>1 DEF Wait

\* The exit code keeps its meaning.
LEMMA NextReportInv == ASSUME ServerInv, ReportInv, [Next]_vars PROVE ReportInv'
<1>1. CASE UNCHANGED reportVars
  BY <1>1 DEF reportVars, ReportInv, CleanExit
<1> QED
  BY <1>1, ReportUntouched, TasksReport, WaitReports

\* ReportInv holds in every reachable state.
LEMMA ReportInvHolds == Spec => []ReportInv
<1>1. Init => ReportInv
  BY DEF Init, ReportInv, CleanExit
<1>2. ServerInv /\ ReportInv /\ [Next]_vars => ReportInv'
  BY NextReportInv
<1> QED
  BY <1>1, <1>2, ServerInvHolds, PTL DEF Spec

\* An error that waits to be reported is not lost on the way.
LEMMA MarkedStays ==
  ASSUME ServerInv, ReportInv, ReportInv', NEW t \in Tasks, Marked(t), [Next]_vars
  PROVE  Marked(t)'
<1>1. /\ tasks \in [Tasks -> {"none", "running", "ok", "err", "joined", "aborted"}]
      /\ program = "live" /\ exit # "ok" /\ (tasks[t] = "err" \/ drainErr)
  BY DEF ServerInv, TypeOK, Marked
<1>2. program' = program /\ (drainErr => drainErr')
  <2>1. CASE UNCHANGED reportVars
    BY <2>1 DEF reportVars
  <2>2. CASE StartStep \/ ListenerStops \/ Signal \/ \E u \in Tasks : TaskFails(u)
    BY <2>2 DEF StartStep, ListenerStops, Signal, TaskFails, confVars, waitVars
  <2>3. ASSUME NEW code, Exit(code) PROVE program' = program /\ (drainErr => drainErr')
    BY <2>3 DEF Exit, confVars
  <2>4. CASE StartFail
    BY <2>3, <2>4 DEF StartFail, ConfigFails, SettingsFail, TelemetryFails, PoolFails,
                      BuildFails, ContextFails
  <2>5. CASE Return \/ WaitReturns
    BY <2>3, <2>5 DEF Return, WaitReturns
  <2>6. CASE LateSignal \/ HttpStops \/ Drained \/ DrainTimeout \/ Abort \/ ClosePool
    BY <2>6 DEF LateSignal, HttpStops, Drained, DrainTimeout, Abort, ClosePool, confVars,
                waitVars
  <2>7. ASSUME NEW u \in Tasks, Join(u) PROVE program' = program /\ (drainErr => drainErr')
    BY <2>7 DEF Join, confVars
  <2> QED
    BY <2>1, <2>2, <2>4, <2>5, <2>6, <2>7, ReportUntouched DEF Wait
<1>3. tasks[t] = "err" => tasks'[t] = "err" \/ drainErr'
  <2> SUFFICES ASSUME tasks[t] = "err" PROVE tasks'[t] = "err" \/ drainErr'
    OBVIOUS
  <2>1. phase # "starting"
    BY DEF ReportInv
  <2>2. CASE UNCHANGED tasks
    BY <2>2
  <2>3. ASSUME NEW code, Exit(code) PROVE tasks'[t] = "err"
    BY <2>3 DEF Exit
  <2>4. CASE StartFail
    BY <2>3, <2>4 DEF StartFail, ConfigFails, SettingsFail, TelemetryFails, PoolFails,
                      BuildFails, ContextFails
  <2>5. CASE Return \/ WaitReturns
    BY <2>3, <2>5 DEF Return, WaitReturns
  <2>6. CASE ListenerStops
    BY <1>1, <2>6 DEF ListenerStops
  <2>7. ASSUME NEW u \in Tasks, TaskFails(u) PROVE tasks'[t] = "err"
    BY <1>1, <2>7 DEF TaskFails
  <2>8. CASE HttpStops
    BY <1>1, <2>8 DEF HttpStops
  <2>9. ASSUME NEW u \in Tasks, Join(u) PROVE tasks'[t] = "err" \/ drainErr'
    <3>1. CASE u = t
      BY <2>9, <3>1 DEF Join
    <3>2. CASE u # t
      BY <1>1, <2>9, <3>2 DEF Join
    <3> QED
      BY <3>1, <3>2
  <2>10. CASE Abort
    BY <2>10 DEF Abort
  <2>11. CASE Signal \/ LateSignal \/ Drained \/ DrainTimeout \/ ClosePool
    BY <2>11 DEF Signal, LateSignal, Drained, DrainTimeout, ClosePool
  <2>12. CASE UNCHANGED reportVars
    BY <2>12 DEF reportVars
  <2>13. ~StartStep
    BY <2>1 DEF StartStep
  <2> QED
    BY <2>4, <2>5, <2>6, <2>7, <2>8, <2>9, <2>10, <2>11, <2>12, <2>13, ReportUntouched DEF Wait
<1>4. tasks'[t] = "err" \/ drainErr'
  BY <1>1, <1>2, <1>3
<1>5. exit' # "ok"
  BY <1>1, <1>2, <1>4 DEF ReportInv, CleanExit
<1> QED
  BY <1>1, <1>2, <1>4, <1>5 DEF Marked

\* shutdown.rs:21-23: exit code 0 of live-search means that everything ended well.
THEOREM CleanExitHolds == Spec => []CleanExit
<1>1. ReportInv => CleanExit
  BY DEF ReportInv
<1> QED
  BY <1>1, ReportInvHolds, PTL

\* The safety half of FailureReported: after a task of live-search has failed, before
\* the signal or during the drain, the process never exits with success.
THEOREM FailureNeverHidden ==
  ASSUME NEW t \in Tasks
  PROVE  Spec => [](tasks[t] = "err" => [](exit # "ok"))
<1>1. ServerInv /\ ReportInv /\ ReportInv' /\ Marked(t) /\ [Next]_vars => Marked(t)'
  BY MarkedStays
<1>2. ReportInv /\ tasks[t] = "err" => Marked(t)
  BY DEF ReportInv, Marked
<1>3. Marked(t) => exit # "ok"
  BY DEF Marked
<1> QED
  BY <1>1, <1>2, <1>3, ServerInvHolds, ReportInvHolds, PTL DEF Spec
=============================================================================
