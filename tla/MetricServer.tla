---------------------------- MODULE MetricServer ----------------------------
(***************************************************************************)
(* Package metric: the HTTP server that every configuration replaces and   *)
(* the collectors of the registry (metric.go).                             *)
(***************************************************************************)
EXTENDS Naturals, FiniteSets

CONSTANTS
  Callers,          \* goroutines that call InitHttpServer
  Addresses,
  Groups,           \* the collectors a configuration switches: Gc and Memory
  Checks,           \* names of health checks
  MaxServers,       \* bound: servers made
  MaxChanges        \* bound: calls of InitCollectors

NoCaller == "nobody"

(* What the constants have to be; the module of the run assumes it. The    *)
(* checks and the collectors of a group have different names.              *)
MetricAssumption ==
  /\ MaxServers \in Nat /\ MaxChanges \in Nat
  /\ NoCaller \notin Callers /\ Groups \cap Checks = {}

NoServer == 0
Servers == 1..MaxServers

VARIABLES
  lock,          \* who holds it
  metricServer,
  server,        \* of every server: its stage, address and open connections
  made,
  caller,        \* of every caller: where it is, and the server it made
  config,        \* the groups of the newest configuration
  registry,      \* groups and checks in the registry
  captures,      \* the goroutines that capture each group
  checked,       \* the checks registered since the groups last changed
  once,          \* the groups registered before they last changed
  changes

serverVars == <<lock, metricServer, server, made, caller>>
registryVars == <<config, registry, captures, checked, once, changes>>
vars == <<serverVars, registryVars>>

NewServer == [stage |-> "none", addr |-> CHOOSE a \in Addresses : TRUE, connected |-> FALSE,
              overtaken |-> FALSE]

-----------------------------------------------------------------------------
(* InitHttpServer.                                                         *)

Caller(c, new) == caller' = [caller EXCEPT ![c] = new]

InitHttpServer(c) ==
  /\ caller[c].pc = "idle" /\ lock = NoCaller /\ made < MaxServers
  /\ lock' = c
  /\ made' = made + 1
  /\ \E a \in Addresses :
       server' = [server EXCEPT ![made + 1].stage = "made", ![made + 1].addr = a]
  /\ Caller(c, [pc |-> "shutdown", made |-> made + 1])
  /\ UNCHANGED metricServer /\ UNCHANGED registryVars

\* Variant: only the variable is replaced.
NotShutDown(s) == s

(* fasthttp: a server that does not listen yet is left as it is, and will  *)
(* listen; no other one accepts anything any more.                         *)
ShutDown(s) ==
  IF s.stage = "listening" THEN [s EXCEPT !.stage = "closing"]
  ELSE [s EXCEPT !.overtaken = TRUE]

ShutsDown(c) ==
  /\ caller[c].pc = "shutdown"
  /\ server' = IF metricServer = NoServer THEN server
               ELSE [server EXCEPT ![metricServer] = ShutDown(@)]
  /\ Caller(c, [caller[c] EXCEPT !.pc = "await"])
  /\ UNCHANGED <<lock, metricServer, made>> /\ UNCHANGED registryVars

Drained ==
  metricServer # NoServer =>
    ~(server[metricServer].stage = "closing" /\ server[metricServer].connected)

(* Shutdown waits for the open connections; then the lock is released, and *)
(* only then a goroutine is started that listens.                          *)
Replaces(c) ==
  /\ caller[c].pc = "await" /\ Drained
  /\ metricServer' = caller[c].made
  /\ server' = [server EXCEPT ![caller[c].made].stage = "starting"]
  /\ lock' = NoCaller
  /\ Caller(c, [caller[c] EXCEPT !.pc = "idle"])
  /\ UNCHANGED made /\ UNCHANGED registryVars

(* ListenAndServe: an address that is taken is logged, nothing more.       *)
Listens(s) ==
  /\ server[s].stage = "starting"
  /\ server' = [server EXCEPT ![s].stage =
       IF \E t \in Servers : server[t].stage = "listening" /\ server[t].addr = server[s].addr
         THEN "failed" ELSE "listening"]
  /\ UNCHANGED <<lock, metricServer, made, caller>> /\ UNCHANGED registryVars

(* A reader of the metrics; it leaves, or ReadTimeout has it leave.        *)
Connects(s) ==
  /\ server[s].stage = "listening" /\ ~server[s].connected
  /\ server' = [server EXCEPT ![s].connected = TRUE]
  /\ UNCHANGED <<lock, metricServer, made, caller>> /\ UNCHANGED registryVars

Leaves(s) ==
  /\ server[s].connected
  /\ server' = [server EXCEPT ![s].connected = FALSE]
  /\ UNCHANGED <<lock, metricServer, made, caller>> /\ UNCHANGED registryVars

-----------------------------------------------------------------------------
(* The registry.                                                           *)

(* InitCollectors(new, old): a change of either group empties the registry,*)
(* the health checks included; the capturing goroutines are never stopped. *)
(* go-metrics may register the metrics of a group once in a process only:  *)
(* whether a group comes back is left open.                                *)
InitCollectors ==
  /\ changes < MaxChanges
  /\ changes' = changes + 1
  /\ \E new \in SUBSET Groups :
       /\ config' = new
       /\ IF new = config THEN UNCHANGED <<registry, captures, checked, once>>
          ELSE /\ \E again \in SUBSET (new \cap (once \cup config)) :
                    registry' = (new \ (once \cup config)) \cup again
               /\ once' = once \cup config
               /\ captures' = [g \in Groups |-> captures[g] + (IF g \in new THEN 1 ELSE 0)]
               /\ checked' = {}
  /\ UNCHANGED serverVars

InitHealhcheck ==
  /\ \E h \in Checks :
       registry' = registry \cup {h} /\ checked' = checked \cup {h}
  /\ UNCHANGED <<config, captures, once, changes>> /\ UNCHANGED serverVars

-----------------------------------------------------------------------------

Init ==
  /\ lock = NoCaller /\ metricServer = NoServer /\ made = 0
  /\ server = [s \in Servers |-> NewServer]
  /\ caller = [c \in Callers |-> [pc |-> "idle", made |-> NoServer]]
  /\ config = {} /\ registry = {} /\ checked = {} /\ once = {} /\ changes = 0
  /\ captures = [g \in Groups |-> 0]

Running ==
  \/ \E c \in Callers : ShutsDown(c) \/ Replaces(c)
  \/ \E s \in Servers : Listens(s)
  \/ \E s \in Servers : Leaves(s) /\ server[s].stage = "closing"

Next ==
  \/ \E c \in Callers : InitHttpServer(c) \/ ShutsDown(c) \/ Replaces(c)
  \/ \E s \in Servers : Listens(s) \/ Connects(s) \/ Leaves(s)
  \/ InitCollectors \/ InitHealhcheck

Spec == Init /\ [][Next]_vars

(* Goroutines run, and a connection to a closed server times out.          *)
FairSpec == Spec /\ WF_vars(Running)

-----------------------------------------------------------------------------
(* Properties.                                                             *)

(* Of the servers whose call has returned, only the newest accepts         *)
(* connections; but one that was overtaken, replaced before its goroutine  *)
(* came to listen, stays up with the paths of an old configuration.        *)
ReplacedServersClosed ==
  \A s \in Servers :
    server[s].stage = "listening" /\ lock = NoCaller =>
      s = metricServer \/ server[s].overtaken

(* The server of the last configuration comes to listen, unless an         *)
(* overtaken one has its address.                                          *)
NewestListens ==
  <>[](\/ metricServer = NoServer
       \/ server[metricServer].stage = "listening"
       \/ \E s \in Servers :
            /\ server[s].stage = "listening" /\ server[s].overtaken
            /\ server[s].addr = server[metricServer].addr)

(* A call of InitHttpServer returns, also with readers connected.          *)
InitReturns ==
  \A c \in Callers : caller[c].pc # "idle" ~> caller[c].pc = "idle" /\ lock # c

(* No group that the newest configuration leaves out stays in the          *)
(* registry, each it asks for has a goroutine that captures it and is      *)
(* there, or was before the groups last changed; a check is missing only   *)
(* if the groups changed after it was registered.                          *)
RegistryAsConfigured ==
  /\ registry \cap Groups \subseteq config
  /\ config \ once \subseteq registry
  /\ \A g \in config : captures[g] >= 1
  /\ checked \subseteq registry

=============================================================================
