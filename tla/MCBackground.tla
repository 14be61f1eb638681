---------------------------- MODULE MCBackground ----------------------------
(***************************************************************************)
(* Six components that share no state, checked in one run: Profiling,      *)
(* LocalConfig, RemoteConfig, ScriptEngine, RedisClient and MetricServer.  *)
(* A behaviour is one of the component that subject names; the others stay *)
(* as they start.                                                          *)
(***************************************************************************)
EXTENDS Naturals, Sequences, FiniteSets, TLC

CONSTANTS
  h1, h2, Nobody, MaxAgents, MaxRequests,     \* Profiling
  MaxEdits, MaxSignals,                       \* LocalConfig
  MaxRemotes,                                 \* RemoteConfig
  Executions, Vms, Looping,                   \* ScriptEngine
  MaxClients,                                 \* RedisClient
  Callers, Addresses, Groups, Checks, MaxServers, MaxChanges \* MetricServer

Handlers == {h1, h2}
TypeLists == {<<"heap", "trace">>, <<"block", "heap", "all", "nothing">>, <<"cpu", "nothing">>}

Keys == {"name", "port"}
Required == {"name"}
Files == { "name" :> "a", ("name" :> "b") @@ ("port" :> "a"),
           ("port" :> "b") @@ ("debug" :> "on"),
           "name" :> "bad", "name" :> "broken" }

Lower(k) == IF k = "Name" THEN "name" ELSE k
Remotes == { ("Name" :> "a") @@ ("port" :> "b"), ("Name" :> "a") @@ ("name" :> "b"), "port" :> "bad" }
Variable(name, parts) == [name |-> name, parts |-> parts]
Environments ==
  { <<>>, <<Variable("port", <<"c">>)>>, <<Variable("name", <<"uncastable">>)>>,
    <<Variable("Name", <<"c", "d">>)>>, <<Variable("Name", <<"c">>), Variable("name", <<"d", "c">>)>> }

DataOf == [e \in Executions |-> IF e = 1 THEN {"f"} ELSE IF e = 2 THEN {"g"} ELSE {}]
DefinesOf == [e \in Executions |-> IF e = 1 THEN {"shared"} ELSE IF e = 2 THEN {"f", "shared"} ELSE {"arg"}]

VARIABLES
  subject,
  profileLock, profileAgent, handler, requests, agent,
  file, parsed, heap, configInstance, callOnChangeHandler, fatal, watching, event, load, called,
  edits, signals, missed,
  env, received, remotes, remoteConfigInstance,
  pool, interrupted, names, exec, late,
  open, Client, state, made, rc, closer, panicked, raced,
  lock, metricServer, server, serversMade, caller, config, registry, captures, checked, once, changes

profilingVars == <<profileLock, profileAgent, handler, requests, agent>>
localVars == <<file, parsed, heap, configInstance, callOnChangeHandler, fatal, watching, event,
               load, called, edits, signals, missed>>
remoteVars == <<env, received, remotes, remoteConfigInstance>>
scriptVars == <<pool, interrupted, names, exec, late>>
redisVars == <<open, Client, state, made, rc, closer, panicked, raced>>
metricVars == <<lock, metricServer, server, serversMade, caller, config, registry, captures,
                checked, once, changes>>
vars == <<subject, profilingVars, localVars, remoteVars, scriptVars, redisVars, metricVars>>

Profiles == INSTANCE Profiling
Local == INSTANCE LocalConfig
Remote == INSTANCE RemoteConfig
Scripts == INSTANCE ScriptEngine
Redis == INSTANCE RedisClient
Metric == INSTANCE MetricServer WITH made <- serversMade

ASSUME BackgroundAssumption ==
  /\ Remote!RemoteAssumption /\ Profiles!ProfilingAssumption /\ Scripts!ScriptAssumption
  /\ Redis!RedisAssumption /\ Metric!MetricAssumption

Init ==
  /\ subject \in {"profiling", "local", "remote", "scripts", "redis", "metric"}
  /\ Profiles!Init
  /\ Local!Init /\ (subject # "local" => file = "name" :> "a" /\ ~callOnChangeHandler)
  /\ Remote!Init /\ (subject # "remote" => env = <<>>)
  /\ Scripts!Init /\ Redis!Init /\ Metric!Init

(* All variables but those of one component stay.                          *)
Only(who) ==
  /\ subject = who /\ UNCHANGED subject
  /\ who # "profiling" => UNCHANGED profilingVars
  /\ who # "local"     => UNCHANGED localVars
  /\ who # "remote"    => UNCHANGED remoteVars
  /\ who # "scripts"   => UNCHANGED scriptVars
  /\ who # "redis"     => UNCHANGED redisVars
  /\ who # "metric"    => UNCHANGED metricVars

Next ==
  \/ Only("profiling") /\ Profiles!Next
  \/ Only("local") /\ Local!Next
  \/ Only("remote") /\ Remote!Next
  \/ Only("scripts") /\ Scripts!Next
  \/ Only("redis") /\ Redis!Next
  \/ Only("metric") /\ Metric!Next

(* The fairness of each component, on its own steps.                       *)
Fairness ==
  /\ \A a \in 1..MaxAgents :
       /\ WF_profilingVars(subject = "profiling" /\ Profiles!Runs(a))
       /\ WF_profilingVars(subject = "profiling" /\ Profiles!Cancels(a))
  /\ WF_profilingVars(subject = "profiling" /\ \E h \in Handlers : Profiles!Handles(h))
  /\ WF_localVars(subject = "local" /\ Local!WatcherStarts)
  /\ \A r \in Local!Loaders : WF_localVars(subject = "local" /\ Local!Loads(r))
  /\ WF_scriptVars(subject = "scripts" /\ Scripts!Next)
  /\ WF_metricVars(subject = "metric" /\ Metric!Running)

FairSpec == Init /\ [][Next]_vars /\ Fairness

-----------------------------------------------------------------------------

(* At most one agent profiles, the one the handlers know of, and every     *)
(* enabled type is tried once between two whole ticks.                     *)
ProfilesInTurn == Profiles!TypeOK /\ Profiles!OneAgent /\ Profiles!RoundComplete

(* The live local configuration is valid; the callback, without SIGHUP and *)
(* if InitConfigV2 does not call it, gets as old what it last got as new;  *)
(* in the live remote configuration overrides win, with their values up to *)
(* the first "=", and no received key is lost.                             *)
ConfigsSound ==
  /\ Local!TypeOK /\ Local!LiveIsValid /\ Local!CallbacksChain
  /\ Remote!OverridesWin

(* No runtime is in two executions, a script gets the values of its own    *)
(* execution and no other's, but sees what earlier scripts have defined,   *)
(* and is interrupted by its own timer or by one that came too late.       *)
RuntimesAreOwn == Scripts!TypeOK /\ Scripts!NamesAreOwn /\ Scripts!InterruptsAreOwn

(* The open redis clients are the current one, beside those whose first    *)
(* PING failed, and after Close there is none, unless Close and            *)
(* ReceiveConfiguration overlapped.                                        *)
ClientsAccounted == Redis!OneOpenClient /\ Redis!ClosedForGood

(* A replaced metric server is closed unless it was overtaken, and the     *)
(* registry holds what the newest configuration asks for, but for a group  *)
(* that was registered before.                                             *)
MetricsAsConfigured == Metric!ReplacedServersClosed /\ Metric!RegistryAsConfigured

(* "Callback call [...] after every config files changing", of which        *)
(* LocalConfig shows that it is not so: a sound change may be lost.        *)
ChangesApplied == subject = "local" => Local!ChangesApplied

(* What was started comes to an end: the requests that start and stop      *)
(* profiling, the executions of scripts, the calls of InitHttpServer.      *)
CallsReturn ==
  /\ subject = "profiling" => Profiles!RequestsReturn
  /\ subject = "scripts" => Scripts!ExecutionsEnd
  /\ subject = "metric" => Metric!InitReturns

(* The newest wins: without SIGHUP the last sound edit of the file becomes *)
(* live, unless it came too early for the watcher (LocalConfig!missed),    *)
(* and the newest metric server listens unless an overtaken one is in its  *)
(* way.                                                                    *)
NewestPrevails ==
  /\ subject = "local" => Local!NewestApplied
  /\ subject = "metric" => Metric!NewestListens

=============================================================================
