-------------------------- MODULE BackgroundProofs --------------------------
(***************************************************************************)
(* Proofs about the six components of MCBackground: for any clients,       *)
(* callers, servers, agents, requests, edits, signals, configurations      *)
(* received, executions and runtimes.                                      *)
(***************************************************************************)
EXTENDS MCBackground, WellFoundedInduction, TLAPS

-----------------------------------------------------------------------------
(* RedisClient.                                                            *)

RedisTypes ==
  /\ made \in 0..MaxClients
  /\ Client \in 0..made
  /\ state \in [Redis!Clients -> {"none", "open", "failed", "closed"}]
  /\ rc \in {"idle", "dial", "test", "close", "clear", "set"}
  /\ rc = "dial" => made < MaxClients
  /\ closer \in [pc : {"idle", "test", "take", "clear", "close", "done"}, client : 0..MaxClients]
  /\ {open, raced, panicked} \subseteq BOOLEAN

(* The pools that are open are those of these clients.                     *)
OpenAre(cs) == \A c \in Redis!Clients : state[c] = "open" <=> c \in cs

(* While Close has not begun: the current client and the new one, that     *)
(* ReceiveConfiguration replaces it by, step for step.                     *)
Receiving ==
  /\ ~raced /\ ~panicked
  /\ rc \in {"idle", "dial"} => OpenAre({Client})
  /\ rc \in {"test", "close"} => made \in Redis!Clients /\ Client # made /\ OpenAre({Client, made})
  /\ rc \in {"close", "clear"} => Client # 0
  /\ rc = "clear" => made \in Redis!Clients /\ Client # made /\ OpenAre({made})
  /\ rc = "set" => made \in Redis!Clients /\ Client = 0 /\ OpenAre({made})

(* Once Close has begun, if no configuration was being received.           *)
Closing ==
  /\ rc = "idle" /\ ~panicked
  /\ closer.pc \in {"test", "take", "clear"} => OpenAre({Client})
  /\ closer.pc \in {"take", "clear"} => Client # 0
  /\ closer.pc = "clear" => closer.client = Client
  /\ closer.pc = "close" => Client = 0 /\ closer.client # 0 /\ OpenAre({closer.client})
  /\ closer.pc = "done" => Client = 0 /\ OpenAre({})

RedisInv ==
  /\ RedisTypes
  /\ open <=> closer.pc = "idle"
  /\ open => Receiving
  /\ ~open /\ ~raced => Closing

-----------------------------------------------------------------------------
(* MetricServer.                                                           *)

Serves(s) == server[s].stage \in {"starting", "listening"}

(* One caller at a time has a server made that is not the current one; the *)
(* current one accepts nothing once it is shut down, unless it is          *)
(* overtaken.                                                              *)
MetricInv ==
  /\ serversMade \in 0..MaxServers /\ metricServer \in 0..serversMade
  /\ DOMAIN server = Metric!Servers
  /\ \A s \in Metric!Servers : DOMAIN server[s] = {"stage", "addr", "connected", "overtaken"}
  /\ \A s \in Metric!Servers : s > serversMade => server[s].stage = "none"
  /\ DOMAIN caller = Callers
  /\ \A c \in Callers : caller[c].pc \in {"shutdown", "await"} =>
       /\ lock = c
       /\ caller[c].made = serversMade /\ serversMade # 0 /\ metricServer < serversMade
       /\ server[serversMade].stage = "made"
  /\ \A s \in Metric!Servers : Serves(s) => s = metricServer \/ server[s].overtaken
  /\ \A c \in Callers : caller[c].pc = "await" =>
       \A s \in Metric!Servers : Serves(s) => server[s].overtaken

RegistryInv ==
  /\ config \subseteq Groups
  /\ captures \in [Groups -> Nat]
  /\ Metric!RegistryAsConfigured

-----------------------------------------------------------------------------
(* RedisClient's steps.                                                    *)

LEMMA RedisStep == RedisInv /\ [Redis!Next]_(Redis!vars) => RedisInv'
<1>. SUFFICES ASSUME RedisInv, [Redis!Next]_(Redis!vars) PROVE RedisInv'
  OBVIOUS
<1>. USE DEF Redis!NoClient
<1>0. /\ made \in Nat /\ Client \in Nat /\ Client <= made /\ made <= MaxClients /\ MaxClients \in Nat
      /\ Redis!Clients = 1..MaxClients
      /\ closer.pc \in {"idle", "test", "take", "clear", "close", "done"}
      /\ closer.client \in 0..MaxClients
  BY BackgroundAssumption DEF RedisInv, RedisTypes, Redis!RedisAssumption, Redis!Clients
<1>1. ASSUME UNCHANGED <<open, Client, state, made, rc, closer, panicked, raced>>
      PROVE  RedisInv'
  BY <1>1 DEF RedisInv, RedisTypes, Receiving, Closing, OpenAre, Redis!Clients
<1>2. CASE Redis!ReceiveConfiguration \/ Redis!TestsOld
  BY <1>0, <1>2
     DEF Redis!ReceiveConfiguration, Redis!TestsOld, RedisInv, RedisTypes, Receiving, Closing, OpenAre,
         Redis!Clients
<1>3. CASE Redis!NewClient
  <2>1. rc = "dial" /\ made < MaxClients /\ made + 1 \in Redis!Clients
    BY <1>0, <1>3 DEF Redis!NewClient, RedisInv, RedisTypes
  <2>2. raced \/ open
    BY <2>1 DEF RedisInv, Closing
  <2>3. /\ made' = made + 1 /\ UNCHANGED <<open, Client, closer, panicked, raced>>
        /\ \/ rc' = "idle" /\ state' = [state EXCEPT ![made + 1] = "failed"]
           \/ rc' = "test" /\ state' = [state EXCEPT ![made + 1] = "open"]
    BY <1>3 DEF Redis!NewClient
  <2>4. RedisTypes'
    BY <1>0, <2>1, <2>3 DEF RedisInv, RedisTypes, Redis!Clients
  <2>5. open => Receiving'
    BY <1>0, <2>1, <2>3 DEF RedisInv, RedisTypes, Receiving, OpenAre, Redis!Clients
  <2>. QED  BY <2>2, <2>3, <2>4, <2>5 DEF RedisInv
<1>4. CASE Redis!ClosesOld \/ Redis!ClearsOld \/ Redis!SetsNew
  <2>1. rc \in {"close", "clear", "set"} /\ UNCHANGED <<open, made, closer, raced>>
    BY <1>4 DEF Redis!ClosesOld, Redis!ClearsOld, Redis!SetsNew
  <2>2. raced \/ open
    BY <2>1 DEF RedisInv, Closing
  <2>3. RedisTypes'
    <3>1. CASE Redis!ClosesOld
      BY <1>0, <2>1, <3>1 DEF Redis!ClosesOld, RedisInv, RedisTypes, Redis!Clients
    <3>2. CASE Redis!ClearsOld
      BY <1>0, <2>1, <3>2 DEF Redis!ClearsOld, RedisInv, RedisTypes
    <3>3. CASE Redis!SetsNew
      BY <1>0, <2>1, <3>3 DEF Redis!SetsNew, RedisInv, RedisTypes
    <3>. QED  BY <1>4, <3>1, <3>2, <3>3
  <2>4. CASE open /\ Redis!ClosesOld
    BY <1>0, <2>1, <2>4
       DEF Redis!ClosesOld, RedisInv, RedisTypes, Receiving, OpenAre, Redis!Clients
  <2>5. CASE open /\ (Redis!ClearsOld \/ Redis!SetsNew)
    BY <1>0, <2>1, <2>3, <2>5
       DEF Redis!ClearsOld, Redis!SetsNew, RedisInv, Receiving, OpenAre, Redis!Clients
  <2>. QED  BY <1>4, <2>1, <2>2, <2>3, <2>4, <2>5 DEF RedisInv
<1>5. CASE Redis!Close
  BY <1>0, <1>5 DEF Redis!Close, RedisInv, RedisTypes, Receiving, Closing, OpenAre, Redis!Clients
<1>6. CASE Redis!CloseTests \/ Redis!CloseTakes \/ Redis!CloseClears \/ Redis!CloseCloses
  <2>1. closer.pc \in {"test", "take", "clear", "close"} /\ UNCHANGED <<open, made, rc, raced>>
    BY <1>6 DEF Redis!CloseTests, Redis!CloseTakes, Redis!CloseClears, Redis!CloseCloses
  <2>2. ~open
    BY <2>1 DEF RedisInv
  <2>3. RedisTypes' /\ closer'.pc # "idle"
    <3>1. CASE Redis!CloseTests
      BY <1>0, <2>1, <3>1 DEF Redis!CloseTests, RedisInv, RedisTypes, Redis!Clients
    <3>2. CASE Redis!CloseTakes
      BY <1>0, <2>1, <3>2 DEF Redis!CloseTakes, RedisInv, RedisTypes, Redis!Clients
    <3>3. CASE Redis!CloseClears
      BY <1>0, <2>1, <3>3 DEF Redis!CloseClears, RedisInv, RedisTypes, Redis!Clients
    <3>4. CASE Redis!CloseCloses
      BY <1>0, <2>1, <3>4 DEF Redis!CloseCloses, RedisInv, RedisTypes, Redis!Clients
    <3>. QED  BY <1>6, <3>1, <3>2, <3>3, <3>4
  <2>4. ~raced => Closing'
    <3>. SUFFICES ASSUME ~raced PROVE Closing'
      OBVIOUS
    <3>0. Closing
      BY <2>2 DEF RedisInv
    <3>1. CASE Redis!CloseTests
      BY <1>0, <2>1, <3>0, <3>1 DEF Redis!CloseTests, RedisInv, RedisTypes, Closing, OpenAre, Redis!Clients
    <3>2. CASE Redis!CloseTakes
      BY <1>0, <2>1, <3>0, <3>2 DEF Redis!CloseTakes, Closing, OpenAre
    <3>3. CASE Redis!CloseClears
      BY <1>0, <2>1, <3>0, <3>3 DEF Redis!CloseClears, RedisInv, RedisTypes, Closing, OpenAre
    <3>4. CASE Redis!CloseCloses
      BY <1>0, <2>1, <3>0, <3>4 DEF Redis!CloseCloses, RedisInv, RedisTypes, Closing, OpenAre, Redis!Clients
    <3>. QED  BY <1>6, <3>1, <3>2, <3>3, <3>4
  <2>. QED  BY <2>1, <2>2, <2>3, <2>4 DEF RedisInv
<1>7. CASE UNCHANGED Redis!vars
  BY <1>1, <1>7 DEF Redis!vars
<1>. QED
  BY <1>2, <1>3, <1>4, <1>5, <1>6, <1>7 DEF Redis!Next, Redis!Receives, Redis!Closes

-----------------------------------------------------------------------------
(* MetricServer's steps.                                                   *)

LEMMA MetricStep == MetricInv /\ [Metric!Next]_(Metric!vars) => MetricInv'
<1>. SUFFICES ASSUME MetricInv, [Metric!Next]_(Metric!vars) PROVE MetricInv'
  OBVIOUS
<1>. USE DEF Metric!NoServer, Metric!NoCaller
<1>0. /\ serversMade \in Nat /\ metricServer \in Nat /\ metricServer <= serversMade
      /\ serversMade <= MaxServers /\ MaxServers \in Nat
      /\ Metric!Servers = 1..MaxServers /\ "nobody" \notin Callers
  BY BackgroundAssumption DEF MetricInv, Metric!MetricAssumption, Metric!Servers
<1>1. ASSUME UNCHANGED <<lock, metricServer, server, serversMade, caller>>
      PROVE  MetricInv'
  BY <1>1 DEF MetricInv, Serves, Metric!Servers
(* A server that nobody is making changes and does not begin to serve.     *)
<1>2. ASSUME UNCHANGED <<lock, metricServer, serversMade, caller>>,
             NEW s \in Metric!Servers, server[s].stage \notin {"none", "made"},
             DOMAIN server' = DOMAIN server,
             \A t \in Metric!Servers :
               /\ DOMAIN server'[t] = DOMAIN server[t]
               /\ server'[t].overtaken = server[t].overtaken
               /\ t # s => server'[t].stage = server[t].stage,
             server'[s].stage \in {"starting", "listening"} => Serves(s)
      PROVE  MetricInv'
  BY <1>0, <1>2 DEF MetricInv, Serves, Metric!Servers
<1>3. ASSUME NEW c \in Callers, Metric!InitHttpServer(c)
      PROVE  MetricInv'
  <2>1. /\ caller[c].pc = "idle" /\ lock = "nobody" /\ serversMade < MaxServers
        /\ lock' = c /\ serversMade' = serversMade + 1 /\ metricServer' = metricServer
        /\ caller' = [caller EXCEPT ![c] = [pc |-> "shutdown", made |-> serversMade + 1]]
    BY <1>3 DEF Metric!InitHttpServer, Metric!Caller
  <2>2. PICK a \in Addresses :
          server' = [server EXCEPT ![serversMade + 1].stage = "made", ![serversMade + 1].addr = a]
    BY <1>3 DEF Metric!InitHttpServer
  <2>3. serversMade + 1 \in Metric!Servers
    BY <1>0, <2>1
  <2>4. /\ DOMAIN server' = DOMAIN server
        /\ \A t \in Metric!Servers : t # serversMade + 1 => server'[t] = server[t]
        /\ server'[serversMade + 1] = [server[serversMade + 1] EXCEPT !.stage = "made", !.addr = a]
    BY <2>2, <2>3 DEF MetricInv
  <2>5. /\ DOMAIN server'[serversMade + 1] = {"stage", "addr", "connected", "overtaken"}
        /\ server'[serversMade + 1].stage = "made"
    BY <2>3, <2>4 DEF MetricInv
  <2>6. \A d \in Callers : caller[d].pc \notin {"shutdown", "await"}
    BY <1>0, <2>1 DEF MetricInv
  <2>7. DOMAIN caller' = Callers /\ \A d \in Callers : d # c => caller'[d] = caller[d]
    BY <2>1 DEF MetricInv
  <2>8. caller'[c].pc = "shutdown" /\ caller'[c].made = serversMade + 1
    BY <2>1 DEF MetricInv
  <2>9. \A s \in Metric!Servers : Serves(s)' => s # serversMade + 1 /\ server'[s] = server[s] /\ Serves(s)
    BY <2>4, <2>5 DEF Serves
  <2>10. \A s \in Metric!Servers : Serves(s)' => s = metricServer \/ server'[s].overtaken
    BY <2>9 DEF MetricInv
  <2>11. \A s \in Metric!Servers : s > serversMade + 1 => server'[s].stage = "none"
    BY <1>0, <2>4 DEF MetricInv
  <2>12. ASSUME NEW s \in Metric!Servers
         PROVE  DOMAIN server'[s] = {"stage", "addr", "connected", "overtaken"}
    <3>1. DOMAIN server[s] = {"stage", "addr", "connected", "overtaken"}
      BY DEF MetricInv
    <3>2. CASE s = serversMade + 1
      BY <2>5, <3>2
    <3>3. CASE s # serversMade + 1
      <4>1. server'[s] = server[s]
        BY <2>4, <3>3
      <4>. QED  BY <3>1, <4>1
    <3>. QED  BY <3>2, <3>3
  <2>13. ASSUME NEW d \in Callers, caller'[d].pc \in {"shutdown", "await"}
         PROVE  d = c /\ caller'[d].pc = "shutdown"
    BY <2>6, <2>7, <2>8, <2>13
  <2>14. DOMAIN server' = Metric!Servers /\ serversMade' \in 0..MaxServers /\ metricServer' \in 0..serversMade'
         /\ metricServer' < serversMade' /\ serversMade' # 0
    BY <1>0, <2>1, <2>4 DEF MetricInv
  <2>. QED
    BY <2>1, <2>5, <2>4, <2>7, <2>10, <2>11, <2>12, <2>13, <2>14 DEF MetricInv, Metric!Servers
<1>4. ASSUME NEW c \in Callers, Metric!ShutsDown(c)
      PROVE  MetricInv'
  BY <1>0, <1>4 DEF Metric!ShutsDown, Metric!Caller, Metric!ShutDown, MetricInv, Serves
<1>5. ASSUME NEW c \in Callers, Metric!Replaces(c)
      PROVE  MetricInv'
  BY <1>0, <1>5 DEF Metric!Replaces, Metric!Caller, MetricInv, Serves
<1>6. ASSUME NEW s \in Metric!Servers, Metric!Listens(s)
      PROVE  MetricInv'
  BY <1>2, <1>6 DEF Metric!Listens, Serves, MetricInv
<1>7. ASSUME NEW s \in Metric!Servers, Metric!Connects(s) \/ Metric!Leaves(s)
      PROVE  MetricInv'
  <2>1. PICK b \in BOOLEAN : server' = [server EXCEPT ![s].connected = b]
    BY <1>7 DEF Metric!Connects, Metric!Leaves
  <2>2. /\ DOMAIN server' = DOMAIN server
        /\ \A t \in Metric!Servers : /\ DOMAIN server'[t] = DOMAIN server[t]
                                     /\ server'[t].overtaken = server[t].overtaken
                                     /\ server'[t].stage = server[t].stage
    BY <2>1 DEF MetricInv
  <2>3. UNCHANGED <<lock, metricServer, serversMade, caller>>
    BY <1>7 DEF Metric!Connects, Metric!Leaves
  <2>. QED  BY <2>2, <2>3 DEF MetricInv, Serves, Metric!Servers
<1>8. CASE Metric!InitCollectors \/ Metric!InitHealhcheck \/ UNCHANGED Metric!vars
  BY <1>1, <1>8 DEF Metric!InitCollectors, Metric!InitHealhcheck, Metric!vars, Metric!serverVars
<1>. QED
  BY <1>3, <1>4, <1>5, <1>6, <1>7, <1>8 DEF Metric!Next

LEMMA RegistryStep == RegistryInv /\ [Metric!Next]_(Metric!vars) => RegistryInv'
<1>. SUFFICES ASSUME RegistryInv, [Metric!Next]_(Metric!vars) PROVE RegistryInv'
  OBVIOUS
<1>. USE DEF RegistryInv, Metric!RegistryAsConfigured
<1>0. Groups \cap Checks = {}
  BY BackgroundAssumption DEF Metric!MetricAssumption
<1>1. ASSUME UNCHANGED <<config, registry, captures, checked, once>>
      PROVE  RegistryInv'
  BY <1>1
<1>2. CASE Metric!InitCollectors
  BY <1>2 DEF Metric!InitCollectors
<1>3. CASE Metric!InitHealhcheck
  BY <1>0, <1>3 DEF Metric!InitHealhcheck
<1>4. CASE UNCHANGED Metric!vars
  BY <1>1, <1>4 DEF Metric!vars, Metric!registryVars
<1>5. ASSUME NEW c \in Callers,
             Metric!InitHttpServer(c) \/ Metric!ShutsDown(c) \/ Metric!Replaces(c)
      PROVE  RegistryInv'
  BY <1>1, <1>5 DEF Metric!InitHttpServer, Metric!ShutsDown, Metric!Replaces, Metric!registryVars
<1>6. ASSUME NEW s \in Metric!Servers, Metric!Listens(s) \/ Metric!Connects(s) \/ Metric!Leaves(s)
      PROVE  RegistryInv'
  BY <1>1, <1>6 DEF Metric!Listens, Metric!Connects, Metric!Leaves, Metric!registryVars
<1>. QED  BY <1>2, <1>3, <1>4, <1>5, <1>6 DEF Metric!Next

-----------------------------------------------------------------------------
(* LocalConfig.                                                            *)

Values == (UNION {{f[k] : k \in DOMAIN f} : f \in Files}) \cup {Local!Absent}
Contents == [Keys -> Values]

LoadRecord(n) ==
  [stage : {"idle", "begun", "read", "parsed", "decoded", "stored"},
   read : Files \cup {<<>>}, old : 0..n, new : 0..n]

LocalTypes ==
  /\ file \in Files /\ parsed \in Files \cup {<<>>}
  /\ heap \in Seq(Contents) /\ Len(heap) >= 1
  /\ configInstance \in 0..Len(heap)
  /\ signals \in Nat
  /\ load \in [Local!Loaders -> LoadRecord(Len(heap))]

Busy(r) == load[r].stage \in {"begun", "read", "parsed", "decoded"}

(* What a loader decodes into is neither live nor another loader's object; *)
(* nothing is decoded into nil.                                            *)
CopyInv ==
  /\ \A r \in Local!Loaders : Busy(r) /\ load[r].new # 0 => load[r].new # configInstance
  /\ \A r, q \in Local!Loaders :
       Busy(r) /\ Busy(q) /\ r # q /\ load[r].new # 0 => load[r].new # load[q].new
  /\ \A r \in Local!Loaders : load[r].stage \in {"decoded", "stored"} => load[r].new # 0

(* The configuration that the callback has got last, or will get as old.   *)
Told == IF called.new = 0 THEN 1 ELSE called.new

(* Without a SIGHUP, and a callback of InitConfigV2, the watcher alone     *)
(* changes what is live, between its calls of the callback, and only after *)
(* InitConfigV2 has stored object 1.                                       *)
ChainInv ==
  /\ called.new = 0 => called = Local!NotCalled
  /\ signals = 0 /\ ~callOnChangeHandler =>
       /\ load["signal"].stage = "idle" /\ (load["watcher"].stage # "idle" => watching)
       /\ load["init"].stage # "stored"
       /\ load["init"].stage # "idle" => configInstance = 0 /\ load["init"].new = 1
       /\ configInstance = 0 => called.new = 0 /\ load["watcher"].stage # "stored"
       /\ Busy("watcher") /\ load["watcher"].new # 0 =>
            load["watcher"].old = configInstance /\ configInstance # 0
       /\ configInstance # 0 /\ load["watcher"].stage # "stored" => configInstance = Told
       /\ load["watcher"].stage = "stored" =>
            load["watcher"].old = Told /\ load["watcher"].old # 0 /\ load["watcher"].new = configInstance
       /\ called.new # 0 => called.old = IF called.last = 0 THEN 1 ELSE called.last

LocalInv == LocalTypes /\ CopyInv /\ Local!LiveIsValid /\ ChainInv

LEMMA DecodedType ==
  ASSUME NEW f \in Files \cup {<<>>}, NEW content \in Contents
  PROVE  Local!Decoded(f, content) \in Contents
<1>1. ASSUME NEW k \in Keys, k \in DOMAIN f
      PROVE  f[k] \in Values
  <2>1. f \in Files
    BY <1>1
  <2>2. f[k] \in {f[l] : l \in DOMAIN f}
    BY <1>1
  <2>3. {f[l] : l \in DOMAIN f} \in {{g[l] : l \in DOMAIN g} : g \in Files}
    BY <2>1
  <2>. QED  BY <2>2, <2>3 DEF Values
<1>2. ASSUME NEW k \in Keys
      PROVE  content[k] \in Values
  BY DEF Contents
<1>. QED  BY <1>1, <1>2 DEF Local!Decoded, Contents

LEMMA ZeroType == Local!Zero \in Contents
<1>1. Local!Absent \in Values
  BY DEF Values
<1>. QED  BY <1>1 DEF Local!Zero, Contents

(* One loader goes on, and the others stay where they are.                 *)
Moved(r, stage, old, new) ==
  /\ load' \in [Local!Loaders -> LoadRecord(Len(heap'))]
  /\ load'[r].stage = stage /\ load'[r].old = old /\ load'[r].new = new
  /\ \A q \in Local!Loaders \ {r} : load'[q] = load[q]

Grows == Len(heap) \in Nat /\ Len(heap') \in Nat /\ Len(heap) <= Len(heap')

GoesOn(r, y) == load' = [load EXCEPT ![r] = y]

LEMMA Moves ==
  ASSUME LocalTypes, Grows, NEW r \in Local!Loaders, NEW y,
         y \in LoadRecord(Len(heap')), GoesOn(r, y)
  PROVE  Moved(r, y.stage, y.old, y.new)
<1>1. load \in [Local!Loaders -> LoadRecord(Len(heap'))]
  <2>1. LoadRecord(Len(heap)) \subseteq LoadRecord(Len(heap'))
    BY DEF LoadRecord, Grows
  <2>2. load \in [Local!Loaders -> LoadRecord(Len(heap))]
    BY DEF LocalTypes
  <2>. QED  BY <2>1, <2>2
<1>. QED  BY <1>1 DEF Moved, GoesOn

LEMMA BegunRecord ==
  ASSUME NEW n \in Nat, NEW old \in 0..n, NEW new \in 0..n
  PROVE  /\ Local!Begun(old, new) \in LoadRecord(n) /\ Local!Begun(old, new).stage = "begun"
         /\ Local!Begun(old, new).old = old /\ Local!Begun(old, new).new = new
<1>1. PICK x : x = Local!Idle
  OBVIOUS
<1>2. x \in LoadRecord(n)
  <2>1. 0 \in 0..n
    OBVIOUS
  <2>. QED  BY <1>1, <2>1 DEF Local!Idle, LoadRecord
<1>3. PICK y : y = [x EXCEPT !.stage = "begun", !.old = old, !.new = new]
  OBVIOUS
<1>4. y \in LoadRecord(n) /\ y.stage = "begun" /\ y.old = old /\ y.new = new
  BY <1>2, <1>3 DEF LoadRecord
<1>5. Local!Begun(old, new) = y
  BY <1>1, <1>3 DEF Local!Begun
<1>. QED  BY <1>4, <1>5

LEMMA IdleRecord ==
  ASSUME LocalTypes
  PROVE  /\ Local!Idle \in LoadRecord(Len(heap))
         /\ Local!Idle.stage = "idle" /\ Local!Idle.old = 0 /\ Local!Idle.new = 0
<1>1. 0 \in 0..Len(heap)
  BY DEF LocalTypes
<1>. QED  BY <1>1 DEF Local!Idle, LoadRecord

(* A step of a loader that changes neither what is live nor the callback's *)
(* last call: it works on its own object, or gives up.                     *)
LEMMA LoaderWorks ==
  ASSUME LocalInv, NEW r \in Local!Loaders, Busy(r),
         NEW s, NEW old, NEW new, Moved(r, s, old, new),
         \/ s = "idle"
         \/ /\ s \in {"read", "parsed", "decoded"} /\ old = load[r].old /\ new = load[r].new
            /\ s = "decoded" => new # 0,
         file' = file, parsed' \in Files \cup {<<>>},
         heap' \in Seq(Contents), Len(heap') = Len(heap),
         \A i \in 1..Len(heap) : i # load[r].new => heap'[i] = heap[i],
         UNCHANGED <<configInstance, called, signals, watching, callOnChangeHandler>>
  PROVE  LocalInv'
<1>1. LocalTypes'
  BY DEF LocalInv, LocalTypes, Moved
<1>2. CopyInv'
  BY DEF LocalInv, CopyInv, Busy, Moved
<1>3. Local!LiveIsValid'
  <2> SUFFICES ASSUME configInstance # 0
               PROVE  Local!validateConfig(heap'[configInstance])
    BY DEF Local!LiveIsValid
  <2>1. configInstance \in 1..Len(heap) /\ configInstance # load[r].new
    BY DEF LocalInv, LocalTypes, CopyInv
  <2>2. heap'[configInstance] = heap[configInstance]
    BY <2>1
  <2>. QED  BY <2>2 DEF LocalInv, Local!LiveIsValid
<1>4. ChainInv'
  <2>1. {"init", "watcher", "signal"} = Local!Loaders /\ ChainInv
    BY DEF Local!Loaders, LocalInv
  <2>. QED  BY <2>1 DEF ChainInv, Told, Busy, Moved
<1>. QED  BY <1>1, <1>2, <1>3, <1>4 DEF LocalInv

LEMMA LocalReads ==
  ASSUME LocalInv, NEW r \in Local!Loaders, Local!ReadsFile(r) \/ Local!Parses(r)
  PROVE  LocalInv'
<1>1. PICK x \in LoadRecord(Len(heap)) : x = load[r]
  BY DEF LocalInv, LocalTypes
<1>2. LocalTypes /\ file \in Files /\ Len(heap) \in Nat
  BY DEF LocalInv, LocalTypes
<1>3. CASE Local!ReadsFile(r)
  <2>1. /\ x.stage = "begun" /\ load' = [load EXCEPT ![r] = [x EXCEPT !.stage = "read", !.read = file]]
        /\ UNCHANGED <<heap, configInstance, called, signals, watching, callOnChangeHandler, file, parsed>>
    BY <1>1, <1>3 DEF Local!ReadsFile, Local!Goes, Local!quiet
  <2>2. PICK y : y = [x EXCEPT !.stage = "read", !.read = file]
    OBVIOUS
  <2>3. y \in LoadRecord(Len(heap)) /\ y.stage = "read" /\ y.old = x.old /\ y.new = x.new
    BY <1>2, <2>2 DEF LoadRecord
  <2>4. Moved(r, y.stage, y.old, y.new)
    <3>1. Grows /\ GoesOn(r, y) /\ y \in LoadRecord(Len(heap'))
      BY <1>2, <2>1, <2>2, <2>3 DEF Grows, GoesOn
    <3>. QED  BY <1>2, <3>1, Moves
  <2>. QED  BY <1>1, <2>1, <2>3, <2>4, LoaderWorks DEF LocalInv, LocalTypes, Busy
<1>4. CASE Local!Parses(r)
  <2>1. /\ x.stage = "read" /\ load' = [load EXCEPT ![r] = [x EXCEPT !.stage = "parsed", !.read = <<>>]]
        /\ parsed' = x.read
        /\ UNCHANGED <<heap, configInstance, called, signals, watching, callOnChangeHandler, file>>
    BY <1>1, <1>4 DEF Local!Parses, Local!Goes, Local!quiet
  <2>2. PICK y : y = [x EXCEPT !.stage = "parsed", !.read = <<>>]
    OBVIOUS
  <2>3. y \in LoadRecord(Len(heap)) /\ y.stage = "parsed" /\ y.old = x.old /\ y.new = x.new
    BY <1>2, <2>2 DEF LoadRecord
  <2>4. Moved(r, y.stage, y.old, y.new)
    <3>1. Grows /\ GoesOn(r, y) /\ y \in LoadRecord(Len(heap'))
      BY <1>2, <2>1, <2>2, <2>3 DEF Grows, GoesOn
    <3>. QED  BY <1>2, <3>1, Moves
  <2>5. parsed' \in Files \cup {<<>>}
    BY <2>1 DEF LoadRecord
  <2>. QED  BY <1>1, <2>1, <2>3, <2>4, <2>5, LoaderWorks DEF LocalInv, LocalTypes, Busy
<1>. QED  BY <1>3, <1>4

LEMMA LocalFails ==
  ASSUME LocalInv, NEW r \in Local!Loaders, Busy(r), Local!Fails(r),
         UNCHANGED <<heap, configInstance, called, parsed>>
  PROVE  LocalInv'
<1>1. /\ load' = [load EXCEPT ![r] = Local!Idle]
      /\ UNCHANGED <<signals, watching, callOnChangeHandler, file>>
  BY DEF Local!Fails, Local!Goes, Local!quiet
<1>2. LocalTypes /\ Len(heap) \in Nat
  BY DEF LocalInv, LocalTypes
<1>3. Moved(r, "idle", 0, 0)
  <2>1. PICK y : y = Local!Idle
    OBVIOUS
  <2>2. y \in LoadRecord(Len(heap)) /\ y.stage = "idle" /\ y.old = 0 /\ y.new = 0
    BY <1>2, <2>1, IdleRecord
  <2>3. Moved(r, y.stage, y.old, y.new)
    <3>1. Grows /\ GoesOn(r, y) /\ y \in LoadRecord(Len(heap'))
      BY <1>1, <1>2, <2>1, <2>2 DEF Grows, GoesOn
    <3>. QED  BY <1>2, <3>1, Moves
  <2>. QED  BY <2>2, <2>3
<1>. QED  BY <1>1, <1>3, LoaderWorks DEF LocalInv, LocalTypes

LEMMA LocalDecodes ==
  ASSUME LocalInv, NEW r \in Local!Loaders, Local!DecodesParsed(r)
  PROVE  LocalInv'
<1>1. PICK x \in LoadRecord(Len(heap)) : x = load[r]
  BY DEF LocalInv, LocalTypes
<1>2. LocalTypes /\ Len(heap) \in Nat /\ heap \in Seq(Contents) /\ parsed \in Files \cup {<<>>}
  BY DEF LocalInv, LocalTypes
<1>3. x.stage = "parsed" /\ Busy(r) /\ UNCHANGED <<parsed, configInstance, called>>
  BY <1>1 DEF Local!DecodesParsed, Busy
<1>4. CASE x.new # 0 /\ Local!Decodes(parsed)
  <2>1. /\ heap' = [heap EXCEPT ![x.new] = Local!Decoded(parsed, heap[x.new])]
        /\ load' = [load EXCEPT ![r] = [x EXCEPT !.stage = "decoded"]]
        /\ UNCHANGED <<file, signals, watching, callOnChangeHandler>>
    BY <1>1, <1>4 DEF Local!DecodesParsed, Local!Goes, Local!quiet
  <2>2. x.new \in 1..Len(heap)
    BY <1>2, <1>4 DEF LoadRecord
  <2>3. heap[x.new] \in Contents
    BY <1>2, <2>2
  <2>4. PICK content \in Contents : content = Local!Decoded(parsed, heap[x.new])
    BY <1>2, <2>3, DecodedType
  <2>5. /\ heap' \in Seq(Contents) /\ Len(heap') = Len(heap)
        /\ \A i \in 1..Len(heap) : i # x.new => heap'[i] = heap[i]
    BY <1>2, <2>1, <2>2, <2>4
  <2>6. PICK y : y = [x EXCEPT !.stage = "decoded"]
    OBVIOUS
  <2>7. y \in LoadRecord(Len(heap)) /\ y.stage = "decoded" /\ y.old = x.old /\ y.new = x.new
    BY <2>6 DEF LoadRecord
  <2>8. Moved(r, y.stage, y.old, y.new)
    <3>1. Grows /\ GoesOn(r, y) /\ y \in LoadRecord(Len(heap'))
      BY <1>2, <2>1, <2>5, <2>6, <2>7 DEF Grows, GoesOn
    <3>. QED  BY <1>2, <3>1, Moves
  <2>. QED  BY <1>1, <1>2, <1>3, <1>4, <2>1, <2>5, <2>7, <2>8, LoaderWorks
<1>5. CASE ~(x.new # 0 /\ Local!Decodes(parsed))
  <2>1. Local!Fails(r) /\ UNCHANGED heap
    BY <1>1, <1>5 DEF Local!DecodesParsed
  <2>. QED  BY <1>3, <2>1, LocalFails
<1>. QED  BY <1>4, <1>5

LEMMA LocalStores ==
  ASSUME LocalInv, NEW r \in Local!Loaders, Local!Stores(r)
  PROVE  LocalInv'
<1>1. PICK x \in LoadRecord(Len(heap)) : x = load[r]
  BY DEF LocalInv, LocalTypes
<1>2. LocalTypes /\ Len(heap) \in Nat
  BY DEF LocalInv, LocalTypes
<1>3. x.stage = "decoded" /\ Busy(r) /\ UNCHANGED <<parsed, heap, called>>
  BY <1>1 DEF Local!Stores, Busy
<1>4. CASE Local!validateConfig(heap[x.new])
  <2>. DEFINE ends == r = "init" /\ ~callOnChangeHandler
  <2>1. /\ configInstance' = x.new
        /\ load' = [load EXCEPT ![r] = IF ends THEN Local!Idle ELSE [x EXCEPT !.stage = "stored"]]
        /\ UNCHANGED <<file, signals, watching, callOnChangeHandler>>
    BY <1>1, <1>4 DEF Local!Stores, Local!Goes, Local!quiet
  <2>2. x.new \in 1..Len(heap)
    BY <1>1, <1>2, <1>3 DEF LoadRecord, LocalInv, CopyInv
  <2>3. PICK y : y = IF ends THEN Local!Idle ELSE [x EXCEPT !.stage = "stored"]
    OBVIOUS
  <2>4. /\ y \in LoadRecord(Len(heap))
        /\ ends => y.stage = "idle"
        /\ ~ends => y.stage = "stored" /\ y.old = x.old /\ y.new = x.new
    BY <1>2, <2>3, IdleRecord DEF LoadRecord
  <2>5. Moved(r, y.stage, y.old, y.new)
    <3>1. Grows /\ GoesOn(r, y) /\ y \in LoadRecord(Len(heap'))
      BY <1>2, <1>3, <2>1, <2>3, <2>4 DEF Grows, GoesOn
    <3>. QED  BY <1>2, <3>1, Moves
  <2>6. LocalTypes'
    BY <1>2, <1>3, <2>1, <2>2, <2>5 DEF LocalTypes, Moved
  <2>7. CopyInv'
    <3>1. CopyInv /\ x.new # 0
      BY <2>2 DEF LocalInv
    <3>2. ~Busy(r)' /\ \A q \in Local!Loaders \ {r} : load'[q] = load[q]
      BY <2>4, <2>5 DEF Busy, Moved
    <3>3. \A q \in Local!Loaders \ {r} : Busy(q) /\ load[q].new # 0 => load[q].new # x.new
      BY <1>1, <1>3, <3>1 DEF CopyInv
    <3>4. load'[r].stage \in {"decoded", "stored"} => load'[r].new # 0
      BY <2>4, <2>5, <3>1 DEF Moved
    <3>. QED  BY <2>1, <3>1, <3>2, <3>3, <3>4 DEF CopyInv, Busy
  <2>8. Local!LiveIsValid'
    BY <1>3, <1>4, <2>1 DEF Local!LiveIsValid, Local!validateConfig
  <2>9. ChainInv'
    <3>1. {"init", "watcher", "signal"} = Local!Loaders /\ ChainInv
      BY DEF Local!Loaders, LocalInv
    <3>2. CASE signals = 0 /\ ~callOnChangeHandler
      <4>1. load["signal"].stage = "idle" /\ r # "signal"
        BY <1>1, <1>3, <3>1, <3>2 DEF ChainInv
      <4>2. CASE r = "init"
        <5>1. configInstance = 0 /\ x.new = 1 /\ called.new = 0 /\ load["watcher"].stage # "stored"
          BY <1>1, <1>3, <3>1, <3>2, <4>2 DEF ChainInv
        <5>2. /\ load'["init"].stage = "idle" /\ load'["watcher"] = load["watcher"]
              /\ load'["signal"] = load["signal"]
          BY <2>4, <2>5, <3>1, <3>2, <4>2 DEF Moved
        <5>3. ~(Busy("watcher") /\ load["watcher"].new # 0)
          BY <3>1, <3>2, <5>1 DEF ChainInv
        <5>. QED
          BY <1>3, <2>1, <3>1, <3>2, <4>1, <5>1, <5>2, <5>3 DEF ChainInv, Told, Busy
      <4>3. CASE r = "watcher"
        <5>1. x.old = configInstance /\ configInstance # 0 /\ configInstance = Told /\ load["init"].stage = "idle"
          BY <1>1, <1>3, <2>2, <3>1, <3>2, <4>3 DEF ChainInv
        <5>2. /\ load'["watcher"].stage = "stored" /\ load'["watcher"].old = x.old
              /\ load'["watcher"].new = x.new /\ load'["init"] = load["init"]
              /\ load'["signal"] = load["signal"]
          BY <2>4, <2>5, <3>1, <4>3 DEF Moved
        <5>3. Told' = Told /\ configInstance' = x.new /\ x.new # 0 /\ UNCHANGED <<called, signals, watching, callOnChangeHandler>>
          BY <1>3, <2>1, <2>2 DEF Told
        <5>4. ~Busy("watcher")' /\ configInstance' # 0
          BY <5>2, <5>3 DEF Busy
        <5>5. watching
          BY <1>1, <1>3, <3>1, <3>2, <4>3 DEF ChainInv
        <5>. QED
          BY <3>1, <3>2, <4>1, <5>1, <5>2, <5>3, <5>4, <5>5 DEF ChainInv
      <4>. QED  BY <3>1, <4>1, <4>2, <4>3
    <3>3. CASE ~(signals = 0 /\ ~callOnChangeHandler)
      BY <1>3, <2>1, <3>1, <3>3 DEF ChainInv
    <3>. QED  BY <3>2, <3>3
  <2>. QED  BY <2>6, <2>7, <2>8, <2>9 DEF LocalInv
<1>5. CASE ~Local!validateConfig(heap[x.new])
  <2>1. Local!Fails(r) /\ UNCHANGED configInstance
    BY <1>1, <1>5 DEF Local!Stores
  <2>. QED  BY <1>3, <2>1, LocalFails
<1>. QED  BY <1>4, <1>5

LEMMA LocalCalls ==
  ASSUME LocalInv, NEW r \in Local!Loaders, Local!handleConfigChange(r)
  PROVE  LocalInv'
<1>1. PICK x \in LoadRecord(Len(heap)) : x = load[r]
  BY DEF LocalInv, LocalTypes
<1>2. LocalTypes /\ Len(heap) \in Nat
  BY DEF LocalInv, LocalTypes
<1>3. /\ x.stage = "stored" /\ load' = [load EXCEPT ![r] = Local!Idle]
      /\ UNCHANGED <<parsed, heap, configInstance, file, signals, watching, callOnChangeHandler>>
      /\ \/ called' = called /\ ~watching
         \/ called' = [new |-> x.new, old |-> IF x.old = 0 THEN x.new ELSE x.old, last |-> called.new]
  BY <1>1 DEF Local!handleConfigChange, Local!Goes, Local!quiet
<1>4. Moved(r, "idle", 0, 0)
  <2>1. PICK y : y = Local!Idle
    OBVIOUS
  <2>2. y \in LoadRecord(Len(heap)) /\ y.stage = "idle" /\ y.old = 0 /\ y.new = 0
    BY <1>2, <2>1, IdleRecord
  <2>3. Moved(r, y.stage, y.old, y.new)
    <3>1. Grows /\ GoesOn(r, y) /\ y \in LoadRecord(Len(heap'))
      BY <1>2, <1>3, <2>1, <2>2 DEF Grows, GoesOn
    <3>. QED  BY <1>2, <3>1, Moves
  <2>. QED  BY <2>2, <2>3
<1>5. LocalTypes'
  BY <1>2, <1>3, <1>4 DEF LocalTypes, Moved
<1>6. CopyInv'
  <2>1. CopyInv
    BY DEF LocalInv
  <2>2. ~Busy(r)' /\ \A q \in Local!Loaders \ {r} : load'[q] = load[q]
    BY <1>4 DEF Busy, Moved
  <2>. QED  BY <1>3, <1>4, <2>1, <2>2 DEF CopyInv, Busy, Moved
<1>7. Local!LiveIsValid'
  BY <1>3 DEF LocalInv, Local!LiveIsValid, Local!validateConfig
<1>8. ChainInv'
  <2>1. {"init", "watcher", "signal"} = Local!Loaders /\ ChainInv /\ x.new # 0
    BY <1>1, <1>3 DEF Local!Loaders, LocalInv, CopyInv
  <2>2. called'.new = 0 => called' = Local!NotCalled
    BY <1>3, <2>1 DEF ChainInv
  <2>3. CASE signals = 0 /\ ~callOnChangeHandler
    <3>1. r = "watcher" /\ x.old = Told /\ x.old # 0 /\ x.new = configInstance /\ load["init"].stage = "idle"
      BY <1>1, <1>3, <2>1, <2>3 DEF ChainInv
    <3>2. /\ load'["watcher"].stage = "idle" /\ load'["init"] = load["init"]
          /\ load'["signal"] = load["signal"]
      BY <1>4, <2>1, <3>1 DEF Moved
    <3>3. called'.new = x.new /\ called'.old = x.old /\ called'.last = called.new
      <4>1. watching
        BY <1>1, <1>3, <2>1, <2>3, <3>1 DEF ChainInv
      <4>. QED  BY <1>3, <3>1, <4>1
    <3>4. Told' = x.new
      BY <2>1, <3>3 DEF Told
    <3>. QED
      BY <1>3, <2>1, <2>2, <2>3, <3>1, <3>2, <3>3, <3>4 DEF ChainInv, Told, Busy
  <2>4. CASE ~(signals = 0 /\ ~callOnChangeHandler)
    BY <1>3, <2>2, <2>4 DEF ChainInv
  <2>. QED  BY <2>3, <2>4
<1>. QED  BY <1>5, <1>6, <1>7, <1>8 DEF LocalInv

(* A reload begins with a copy of what is live, or with nil.               *)
LEMMA LocalCopies ==
  ASSUME LocalInv, NEW r \in {"watcher", "signal"}, Local!Starts(r),
         signals' \in Nat, r = "signal" => signals' # 0, r = "watcher" => signals' = signals
  PROVE  LocalInv'
<1>1. /\ r \in Local!Loaders /\ watching /\ load[r].stage = "idle"
      /\ UNCHANGED <<parsed, configInstance, called, file, watching, callOnChangeHandler>>
  BY DEF Local!Starts, Local!quiet, Local!Loaders
<1>2. /\ LocalTypes /\ Len(heap) \in Nat /\ heap \in Seq(Contents) /\ configInstance \in 0..Len(heap)
      /\ CopyInv /\ ChainInv /\ Local!LiveIsValid
  BY DEF LocalInv, LocalTypes
<1>3. PICK n \in {Len(heap), Len(heap) + 1}, new \in Nat :
        /\ Moved(r, "begun", configInstance, new) /\ new <= n
        /\ heap' \in Seq(Contents) /\ Len(heap') = n
        /\ \A i \in 1..Len(heap) : heap'[i] = heap[i]
        /\ new = 0 <=> configInstance = 0
        /\ new # 0 => new > Len(heap)
  <2>1. CASE configInstance = 0
    <3>1. load' = [load EXCEPT ![r] = Local!Begun(0, 0)] /\ heap' = heap
      BY <2>1 DEF Local!Starts, Local!CopiesOld
    <3>2. PICK y : y = Local!Begun(0, 0)
      OBVIOUS
    <3>3. y \in LoadRecord(Len(heap)) /\ y.stage = "begun" /\ y.old = 0 /\ y.new = 0
      BY <1>2, <3>2, BegunRecord
    <3>4. Moved(r, y.stage, y.old, y.new)
      <4>1. Grows /\ GoesOn(r, y) /\ y \in LoadRecord(Len(heap'))
        BY <1>1, <1>2, <3>1, <3>2, <3>3 DEF Grows, GoesOn
      <4>. QED  BY <1>1, <1>2, <4>1, Moves
    <3>. QED  BY <1>2, <2>1, <3>1, <3>3, <3>4
  <2>2. CASE configInstance # 0
    <3>1. /\ heap' = Append(heap, heap[configInstance])
          /\ load' = [load EXCEPT ![r] = Local!Begun(configInstance, Len(heap) + 1)]
      BY <2>2 DEF Local!Starts, Local!CopiesOld
    <3>2. heap[configInstance] \in Contents
      BY <1>2, <2>2
    <3>3. /\ heap' \in Seq(Contents) /\ Len(heap') = Len(heap) + 1
          /\ \A i \in 1..Len(heap) : heap'[i] = heap[i]
      BY <1>2, <3>1, <3>2
    <3>4. PICK y : y = Local!Begun(configInstance, Len(heap) + 1)
      OBVIOUS
    <3>5. /\ y \in LoadRecord(Len(heap) + 1) /\ y.stage = "begun"
          /\ y.old = configInstance /\ y.new = Len(heap) + 1
      BY <1>2, <3>4, BegunRecord
    <3>6. Moved(r, y.stage, y.old, y.new)
      <4>1. Grows /\ GoesOn(r, y) /\ y \in LoadRecord(Len(heap'))
        BY <1>1, <1>2, <3>1, <3>3, <3>4, <3>5 DEF Grows, GoesOn
      <4>. QED  BY <1>1, <1>2, <4>1, Moves
    <3>. QED  BY <1>2, <2>2, <3>3, <3>5, <3>6
  <2>. QED  BY <2>1, <2>2
<1>4. \A q \in Local!Loaders \ {r} : load'[q] = load[q] /\ load[q].new \in 0..Len(heap)
  BY <1>2, <1>3 DEF Moved, LocalTypes, LoadRecord
<1>5. LocalTypes'
  BY <1>1, <1>2, <1>3 DEF LocalTypes, Moved
<1>6. CopyInv'
  <2>1. \A q \in Local!Loaders \ {r} : Busy(q)' <=> Busy(q)
    BY <1>4 DEF Busy
  <2>2. load'[r].stage = "begun" /\ load'[r].new = new
    BY <1>3 DEF Moved
  <2>3. \A q \in Local!Loaders \ {r} : new # 0 => new # load[q].new
    BY <1>2, <1>3, <1>4
  <2>4. new # 0 => new # configInstance
    BY <1>2, <1>3
  <2>5. \A p \in Local!Loaders : (Busy(p) /\ load[p].new # 0 => load[p].new # configInstance)'
    BY <1>1, <1>2, <1>4, <2>1, <2>2, <2>4 DEF CopyInv
  <2>6. ASSUME NEW p \in Local!Loaders, NEW q \in Local!Loaders, p # q, Busy(p)', Busy(q)',
               load'[p].new # 0
        PROVE  load'[p].new # load'[q].new
    <3>1. CASE p = r
      BY <1>4, <2>2, <2>3, <2>6, <3>1
    <3>2. CASE q = r
      BY <1>2, <1>3, <1>4, <2>2, <2>6, <3>2
    <3>3. CASE p # r /\ q # r
      BY <1>2, <1>4, <2>1, <2>6, <3>3 DEF CopyInv
    <3>. QED  BY <3>1, <3>2, <3>3
  <2>7. \A p \in Local!Loaders : (load[p].stage \in {"decoded", "stored"} => load[p].new # 0)'
    BY <1>1, <1>2, <1>4, <2>2 DEF CopyInv
  <2>. QED  BY <2>5, <2>6, <2>7 DEF CopyInv
<1>7. Local!LiveIsValid'
  <2>1. configInstance # 0 => heap'[configInstance] = heap[configInstance]
    BY <1>2, <1>3
  <2>. QED  BY <1>1, <1>2, <2>1 DEF Local!LiveIsValid
<1>8. ChainInv'
  <2>1. {"init", "watcher", "signal"} = Local!Loaders
    BY DEF Local!Loaders
  <2>2. CASE signals' = 0 /\ ~callOnChangeHandler
    <3>1. r = "watcher" /\ signals = 0
      BY <2>2
    <3>2. /\ load'["init"] = load["init"] /\ load'["signal"] = load["signal"]
          /\ load'["watcher"].stage = "begun" /\ load'["watcher"].old = configInstance
          /\ load'["watcher"].new = new
      BY <1>3, <2>1, <3>1 DEF Moved
    <3>. QED  BY <1>1, <1>2, <1>3, <2>2, <3>1, <3>2 DEF ChainInv, Told, Busy
  <2>3. CASE ~(signals' = 0 /\ ~callOnChangeHandler)
    BY <1>1, <1>2, <2>3 DEF ChainInv
  <2>. QED  BY <2>2, <2>3
<1>. QED  BY <1>5, <1>6, <1>7, <1>8 DEF LocalInv

LEMMA LocalIdles ==
  ASSUME LocalInv, file' \in Files, watching => watching',
         UNCHANGED <<parsed, heap, configInstance, callOnChangeHandler, load, called, signals>>
  PROVE  LocalInv'
<1>1. LocalTypes'
  BY DEF LocalInv, LocalTypes
<1>2. CopyInv' /\ ChainInv'
  BY DEF LocalInv, CopyInv, ChainInv, Told, Busy
<1>3. Local!LiveIsValid'
  BY DEF LocalInv, Local!LiveIsValid, Local!validateConfig
<1>. QED  BY <1>1, <1>2, <1>3 DEF LocalInv

LEMMA LocalStep == LocalInv /\ [Local!Next]_(Local!vars) => LocalInv'
<1> SUFFICES ASSUME LocalInv, [Local!Next]_(Local!vars)
             PROVE  LocalInv'
  OBVIOUS
<1>0. file \in Files /\ signals \in Nat
  BY DEF LocalInv, LocalTypes
<1>1. CASE Local!OnConfigChange \/ Local!Edit \/ UNCHANGED Local!vars
  <2>1. /\ file' \in Files /\ (watching => watching')
        /\ UNCHANGED <<parsed, heap, configInstance, callOnChangeHandler, load, called, signals>>
    BY <1>0, <1>1 DEF Local!OnConfigChange, Local!Edit, Local!vars
  <2>. QED  BY <2>1, LocalIdles
<1>2. CASE Local!WatcherStarts
  BY <1>0, <1>2, LocalCopies DEF Local!WatcherStarts
<1>3. CASE Local!SignalStarts
  <2>1. Local!Starts("signal") /\ signals' = signals + 1
    BY <1>3 DEF Local!SignalStarts
  <2>2. signals' \in Nat /\ signals' # 0
    BY <1>0, <2>1
  <2>. QED  BY <2>1, <2>2, LocalCopies
<1>4. ASSUME NEW r \in Local!Loaders, Local!Loads(r)
      PROVE  LocalInv'
  BY <1>4, LocalReads, LocalDecodes, LocalStores, LocalCalls DEF Local!Loads
<1>. QED  BY <1>1, <1>2, <1>3, <1>4 DEF Local!Next

LEMMA LocalInit ==
  ASSUME Local!Init
  PROVE  LocalInv
<1>1. /\ file \in Files /\ parsed = <<>> /\ heap = <<Local!Zero>> /\ configInstance = 0 /\ signals = 0
      /\ load = [r \in Local!Loaders |-> IF r = "init" THEN Local!Begun(0, 1) ELSE Local!Idle]
      /\ called = Local!NotCalled
  BY DEF Local!Init
<1>2. heap \in Seq(Contents) /\ Len(heap) = 1
  BY <1>1, ZeroType
<1>3. /\ Local!Begun(0, 1) \in LoadRecord(1) /\ Local!Begun(0, 1).stage = "begun"
      /\ Local!Begun(0, 1).new = 1
      /\ Local!Idle \in LoadRecord(1) /\ Local!Idle.stage = "idle"
  BY BegunRecord DEF Local!Idle, LoadRecord
<1>4. Local!NotCalled.new = 0
  BY DEF Local!NotCalled
<1>5. /\ load["init"] = Local!Begun(0, 1)
      /\ load["watcher"] = Local!Idle /\ load["signal"] = Local!Idle
  BY <1>1 DEF Local!Loaders
<1>6. LocalTypes
  BY <1>1, <1>2, <1>3 DEF LocalTypes
<1>7. CopyInv
  BY <1>1, <1>3 DEF CopyInv, Busy
<1>8. ChainInv
  BY <1>1, <1>3, <1>4, <1>5 DEF ChainInv, Busy
<1>9. Local!LiveIsValid
  BY <1>1 DEF Local!LiveIsValid
<1>. QED  BY <1>6, <1>7, <1>8, <1>9 DEF LocalInv

LEMMA LocalSound ==
  ASSUME LocalInv
  PROVE  Local!TypeOK /\ Local!LiveIsValid /\ Local!CallbacksChain
<1>1. Local!LiveIsValid /\ Local!CallbacksChain
  BY DEF LocalInv, ChainInv, Local!CallbacksChain
<1>2. \A i \in DOMAIN heap : DOMAIN heap[i] = Keys
  <2>1. \A i \in DOMAIN heap : heap[i] \in Contents
    BY DEF LocalInv, LocalTypes
  <2>. QED  BY <2>1 DEF Contents
<1>3. \A r \in Local!Loaders : {load[r].old, load[r].new} \subseteq 0..Len(heap)
  BY DEF LocalInv, LocalTypes, LoadRecord
<1>. QED  BY <1>1, <1>2, <1>3 DEF LocalInv, LocalTypes, Local!TypeOK

-----------------------------------------------------------------------------
(* RemoteConfig.                                                           *)

(* The overrides are the keys that the environment has, and each has the   *)
(* value of the last variable of its name.                                 *)
Last(i, l) == Remote!Names(i, l) /\ \A j \in DOMAIN env : Remote!Names(j, l) => j <= i

LEMMA OverridesAreLast ==
  ASSUME DOMAIN env \subseteq Nat
  PROVE  /\ \A l \in DOMAIN Remote!getEnvOverrides : \E i \in DOMAIN env :
                Last(i, l) /\ Remote!getEnvOverrides[l] = env[i].parts[1]
         /\ \A l, i : Last(i, l) => l \in DOMAIN Remote!getEnvOverrides
<1>. DEFINE Key(i) == Lower(env[i].name)
            last == {i \in DOMAIN env : \A j \in DOMAIN env : i < j => Key(j) # Key(i)}
            keys == {Key(i) : i \in last}
            Of(k) == CHOOSE i \in last : Key(i) = k
<1>1. Remote!getEnvOverrides = [k \in keys |-> env[Of(k)].parts[1]]
  BY DEF Remote!getEnvOverrides
<1>2. ASSUME NEW l \in keys
      PROVE  Of(l) \in last /\ Key(Of(l)) = l
  <2>1. \E i \in last : Key(i) = l
    OBVIOUS
  <2>. QED  BY <2>1
<1>3. ASSUME NEW l, NEW i \in last, Key(i) = l
      PROVE  Last(i, l)
  <2>1. \A j \in DOMAIN env : Key(j) = l => j <= i
    BY <1>3
  <2>. QED  BY <1>3, <2>1 DEF Last, Remote!Names
<1>4. ASSUME NEW l, NEW i, Last(i, l)
      PROVE  i \in last /\ Key(i) = l
  BY <1>4 DEF Last, Remote!Names
<1>5. ASSUME NEW l \in DOMAIN Remote!getEnvOverrides
      PROVE  \E i \in DOMAIN env : Last(i, l) /\ Remote!getEnvOverrides[l] = env[i].parts[1]
  <2>1. l \in keys /\ Remote!getEnvOverrides[l] = env[Of(l)].parts[1]
    BY <1>1
  <2>2. Of(l) \in last /\ Key(Of(l)) = l
    BY <1>2, <2>1
  <2> HIDE DEF Of
  <2>3. Last(Of(l), l) /\ Of(l) \in DOMAIN env
    BY <1>3, <2>2
  <2>. QED  BY <2>1, <2>3
<1>6. ASSUME NEW l, NEW i, Last(i, l)
      PROVE  l \in DOMAIN Remote!getEnvOverrides
  BY <1>1, <1>4, <1>6
<1>. QED  BY <1>5, <1>6

(* The greatest of some numbers up to n is n less the least distance.      *)
LEMMA GreatestOne ==
  ASSUME NEW n \in Nat, NEW S \in SUBSET (1..n), S # {}
  PROVE  \E m \in S : \A x \in S : x <= m
<1>. DEFINE T == {y \in Nat : n - y \in S}
<1>1. T \in SUBSET Nat
  OBVIOUS
<1>2. T # {}
  <2>1. PICK x \in S : x \in 1..n
    OBVIOUS
  <2>2. n - x \in Nat /\ n - (n - x) = x
    BY <2>1
  <2>3. n - x \in T
    BY <2>1, <2>2
  <2>. QED  BY <2>3
<1>3. PICK d \in T : \A y \in T : ~(<<y, d>> \in OpToRel(<, Nat))
  <2>. HIDE DEF T
  <2>. QED  BY <1>1, <1>2, NatLessThanWellFounded, WFMin
<1>4. d \in Nat /\ n - d \in S
  OBVIOUS
<1>5. ASSUME NEW x \in S
      PROVE  x <= n - d
  <2>1. x \in 1..n /\ n - x \in Nat /\ n - (n - x) = x
    OBVIOUS
  <2>2. n - x \in T
    BY <2>1
  <2>3. ~(n - x < d)
    BY <1>3, <1>4, <2>1, <2>2 DEF OpToRel
  <2>. QED  BY <1>4, <2>1, <2>3
<1>. QED  BY <1>4, <1>5

RemoteInv ==
  /\ Len(env) \in Nat /\ DOMAIN env = 1..Len(env)
  /\ Remote!OverridesWin

LEMMA LastOne ==
  ASSUME Len(env) \in Nat, DOMAIN env = 1..Len(env), NEW i \in DOMAIN env
  PROVE  \E j \in DOMAIN env : Last(j, Lower(env[i].name))
<1>. DEFINE S == {j \in DOMAIN env : Lower(env[j].name) = Lower(env[i].name)}
<1>1. S \in SUBSET (1..Len(env)) /\ S # {}
  OBVIOUS
<1>2. PICK m \in S : \A x \in S : x <= m
  <2>. HIDE DEF S
  <2>. QED  BY <1>1, GreatestOne
<1>. QED  BY <1>2 DEF Last, Remote!Names

(* What a received configuration and the overrides give.                   *)
LEMMA OverridesTaken ==
  ASSUME Len(env) \in Nat, DOMAIN env = 1..Len(env), UNCHANGED env,
         NEW src, NEW f \in Remote!LowerCased(src), received' = src,
         remoteConfigInstance' = Remote!Overridden(f, Remote!getEnvOverrides)
  PROVE  Remote!OverridesWin'
<1>. DEFINE lower == {Lower(k) : k \in DOMAIN src}
            new == remoteConfigInstance'
            own == Remote!getEnvOverrides
<1>1. DOMAIN f = lower /\ \A l \in lower : \E k \in DOMAIN src : Lower(k) = l /\ f[l] = src[k]
  BY DEF Remote!LowerCased
<1>2. DOMAIN env \subseteq Nat
  OBVIOUS
<1>3. /\ \A l \in DOMAIN own : \E i \in DOMAIN env : Last(i, l) /\ own[l] = env[i].parts[1]
      /\ \A l, i : Last(i, l) => l \in DOMAIN own
  BY <1>2, OverridesAreLast
<1>. HIDE DEF own
<1>4. /\ DOMAIN new = lower \cup DOMAIN own
      /\ \A l \in DOMAIN own : new[l] = own[l]
      /\ \A l \in lower : l \notin DOMAIN own => new[l] = f[l]
  BY <1>1 DEF Remote!Overridden, own
<1>. HIDE DEF new
<1>5. \A k \in DOMAIN src : Lower(k) \in DOMAIN new
  BY <1>4
<1>6. \A i \in DOMAIN env : Lower(env[i].name) \in DOMAIN new
  BY <1>3, <1>4, LastOne
<1>7. ASSUME NEW l \in DOMAIN own
      PROVE  \E i \in DOMAIN env : Last(i, l) /\ new[l] = env[i].parts[1]
  BY <1>3, <1>4
<1>8. ASSUME NEW l \in DOMAIN new, l \notin DOMAIN own
      PROVE  /\ \A i \in DOMAIN env : ~Remote!Names(i, l)
             /\ \E k \in DOMAIN src : Lower(k) = l /\ src[k] = new[l]
  <2>1. \A i \in DOMAIN env : ~Remote!Names(i, l)
    BY <1>3, <1>8, LastOne DEF Remote!Names
  <2>2. l \in lower /\ new[l] = f[l]
    BY <1>4, <1>8
  <2>. QED  BY <1>1, <2>1, <2>2
<1>9. \A l \in DOMAIN new :
        \/ \E i \in DOMAIN env : Last(i, l) /\ new[l] = env[i].parts[1]
        \/ /\ \A i \in DOMAIN env : ~Remote!Names(i, l)
           /\ \E k \in DOMAIN src : Lower(k) = l /\ src[k] = new[l]
  BY <1>7, <1>8
<1>. QED  BY <1>5, <1>6, <1>9 DEF Remote!OverridesWin, Remote!Names, Last, new

LEMMA RemoteStep == RemoteInv /\ [Remote!Next]_(Remote!vars) => RemoteInv'
<1>. SUFFICES ASSUME RemoteInv, [Remote!Next]_(Remote!vars)
              PROVE  RemoteInv'
  OBVIOUS
<1>1. CASE UNCHANGED <<env, received, remoteConfigInstance>>
  BY <1>1 DEF RemoteInv, Remote!OverridesWin, Remote!Names
<1>2. CASE Remote!InitRemoteConfig
  <2>1. PICK src \in Remotes :
          LET results == {f \in Remote!overrideConfigurationFromEnv(src) : Remote!Sound(f)}
          IN  IF results = {} THEN UNCHANGED <<received, remoteConfigInstance>>
              ELSE received' = src /\ remoteConfigInstance' \in results
    BY <1>2 DEF Remote!InitRemoteConfig
  <2>2. UNCHANGED env
    BY <1>2 DEF Remote!InitRemoteConfig
  <2>3. \/ UNCHANGED <<received, remoteConfigInstance>>
        \/ received' = src /\ remoteConfigInstance' \in Remote!overrideConfigurationFromEnv(src)
    BY <2>1
  <2>4. CASE received' = src /\ remoteConfigInstance' \in Remote!overrideConfigurationFromEnv(src)
    <3>1. PICK f \in Remote!LowerCased(src) :
            remoteConfigInstance' = Remote!Overridden(f, Remote!getEnvOverrides)
      BY <2>4 DEF Remote!overrideConfigurationFromEnv
    <3>2. Remote!OverridesWin'
      BY <2>2, <2>4, <3>1, OverridesTaken DEF RemoteInv
    <3>. QED  BY <2>2, <3>2 DEF RemoteInv
  <2>. QED  BY <1>1, <2>2, <2>3, <2>4
<1>3. CASE UNCHANGED Remote!vars
  BY <1>1, <1>3 DEF Remote!vars
<1>. QED  BY <1>2, <1>3 DEF Remote!Next

LEMMA RemoteInit ==
  ASSUME Remote!Init
  PROVE  RemoteInv
<1>1. remoteConfigInstance = <<>>
  BY DEF Remote!Init
<1>2. Len(env) \in Nat /\ DOMAIN env = 1..Len(env)
  BY BackgroundAssumption DEF Remote!Init, Remote!RemoteAssumption
<1>. QED  BY <1>1, <1>2 DEF RemoteInv, Remote!OverridesWin

-----------------------------------------------------------------------------
(* Profiling.                                                              *)

Place(t) == CHOOSE i \in DOMAIN Profiles!Order : Profiles!Order[i] = t

UpTo(g) == {t \in g.enabled : Place(t) <= Place(g.ptype)}

(* The round has the types up to the one that is being collected or sent,  *)
(* and without it while the agent waits for its turn.                      *)
RoundInv(g) ==
  /\ Profiles!IsInjective(g.round)
  /\ g.stage # "none" => {"cpu", g.ptype} \subseteq g.enabled
  /\ g.stage \in {"collecting", "sending", "backoff"} => Profiles!ToSet(g.round) = UpTo(g)
  /\ g.stage = "waiting" =>
       IF g.ptype = "cpu" THEN g.round = <<>> \/ Profiles!ToSet(g.round) = g.enabled
                          ELSE Profiles!ToSet(g.round) = UpTo(g) \ {g.ptype}

(* The handler that stops the agent has the lock.                          *)
ProfilingInv ==
  /\ Profiles!TypeOK
  /\ \A h \in Handlers : handler[h] = "stopping" <=> profileLock = h
  /\ profileLock # Nobody => profileAgent # 0
  /\ Profiles!OneAgent
  /\ \A a \in Profiles!Agents : RoundInv(agent[a])

LEMMA LeastOne ==
  ASSUME NEW S \in SUBSET Nat, S # {}
  PROVE  Profiles!Min(S) \in S /\ \A x \in S : Profiles!Min(S) <= x
<1>1. PICK m \in S : \A y \in S : ~(<<y, m>> \in OpToRel(<, Nat))
  BY NatLessThanWellFounded, WFMin
<1>2. m \in Nat /\ \A y \in S : y \in Nat
  OBVIOUS
<1>3. \A y \in S : ~(y < m)
  BY <1>1, <1>2 DEF OpToRel
<1>4. \A y \in S : m <= y
  BY <1>2, <1>3
<1>. QED  BY <1>4 DEF Profiles!Min

LEMMA Places ==
  /\ DOMAIN Profiles!Order = 1..7 /\ Len(Profiles!Order) = 7
  /\ \A t \in Profiles!ProfileTypes : Place(t) \in 1..7 /\ Profiles!Order[Place(t)] = t
  /\ \A i \in 1..7 : Profiles!Order[i] \in Profiles!ProfileTypes /\ Place(Profiles!Order[i]) = i
  /\ Place("cpu") = 1 /\ "cpu" \in Profiles!ProfileTypes
<1>1. DOMAIN Profiles!Order = 1..7 /\ Len(Profiles!Order) = 7
  BY DEF Profiles!Order
<1>2. \A i, j \in 1..7 : Profiles!Order[i] = Profiles!Order[j] => i = j
  BY DEF Profiles!Order
<1>3. Profiles!ProfileTypes = {Profiles!Order[i] : i \in 1..7}
  BY <1>1 DEF Profiles!ProfileTypes, Profiles!ToSet
<1>4. Profiles!Order[1] = "cpu"
  BY DEF Profiles!Order
<1>. HIDE DEF Profiles!Order
<1>5. \A t \in Profiles!ProfileTypes : Place(t) \in 1..7 /\ Profiles!Order[Place(t)] = t
  BY <1>1, <1>3 DEF Place
<1>6. \A i \in 1..7 : Profiles!Order[i] \in Profiles!ProfileTypes /\ Place(Profiles!Order[i]) = i
  BY <1>2, <1>3, <1>5
<1>. QED  BY <1>1, <1>4, <1>5, <1>6

(* The type k turns after t is k places on, round and round.               *)
LEMMA PlaceAfter ==
  ASSUME NEW t \in Profiles!ProfileTypes, NEW k \in 1..7
  PROVE  /\ Profiles!After(t, k) \in Profiles!ProfileTypes
         /\ Place(Profiles!After(t, k)) = IF Place(t) + k <= 7 THEN Place(t) + k ELSE Place(t) + k - 7
<1> DEFINE p == Place(t)
<1>1. p \in 1..7
  BY Places
<1>2. Profiles!After(t, k) = Profiles!Order[((p + k - 1) % 7) + 1]
  BY Places DEF Profiles!After, Place
<1> HIDE DEF p
<1>3. ((p + k - 1) % 7) + 1 = IF p + k <= 7 THEN p + k ELSE p + k - 7
  BY <1>1
<1>4. (IF p + k <= 7 THEN p + k ELSE p + k - 7) \in 1..7
  BY <1>1
<1>. QED  BY <1>2, <1>3, <1>4, Places DEF p

(* The next type of the agent is the next enabled one in the order, or,    *)
(* behind the last enabled one, the CPU's.                                 *)
LEMMA NextEnabled ==
  ASSUME NEW E \in SUBSET Profiles!ProfileTypes, "cpu" \in E, NEW t \in E,
         NEW n, n = Profiles!nextProfileType(E, t)
  PROVE  /\ n \in E
         /\ n = "cpu" => \A u \in E : Place(u) <= Place(t)
         /\ n # "cpu" => \A u \in E : (Place(u) <= Place(n) /\ u # n) <=> Place(u) <= Place(t)
<1> DEFINE p == Place(t)
           S == {k \in 1..7 : Profiles!After(t, k) \in E}
           m == Profiles!Min(S)
<1>1. /\ p \in 1..7
      /\ \A u \in E : u \in Profiles!ProfileTypes /\ Place(u) \in 1..7
      /\ \A u, v \in E : Place(u) = Place(v) => u = v
  BY Places
<1>2. ASSUME NEW u \in E, NEW k \in 1..7,
             Place(u) = IF p + k <= 7 THEN p + k ELSE p + k - 7
      PROVE  k \in S
  <2>1. Place(Profiles!After(t, k)) = Place(u) /\ Profiles!After(t, k) \in Profiles!ProfileTypes
    BY <1>2, PlaceAfter
  <2>2. Profiles!After(t, k) = u
    BY <2>1, Places
  <2>. QED  BY <2>2
<1>3. m \in S /\ \A k \in S : m <= k
  <2>1. 7 \in S
    BY <1>1, <1>2
  <2>2. S \in SUBSET Nat /\ S # {}
    BY <2>1
  <2> HIDE DEF S
  <2>. QED  BY <2>2, LeastOne
<1>4. n = Profiles!After(t, m) /\ n \in E /\ m \in 1..7
  BY <1>3, Places DEF Profiles!nextProfileType
<1>5. Place(n) = IF p + m <= 7 THEN p + m ELSE p + m - 7
  BY <1>4, PlaceAfter
<1>6. Place("cpu") = 1
  BY Places
<1> HIDE DEF p, S, m
<1>7. CASE p + m <= 7
  <2>1. n # "cpu"
    BY <1>1, <1>4, <1>5, <1>6, <1>7
  <2>2. ASSUME NEW u \in E, p < Place(u), Place(u) < p + m
        PROVE  FALSE
    <3>1. Place(u) - p \in 1..7 /\ p + (Place(u) - p) = Place(u) /\ Place(u) <= 7
      BY <1>1, <2>2
    <3>2. Place(u) - p \in S
      BY <1>2, <3>1
    <3>. QED  BY <1>1, <1>3, <1>4, <2>2, <3>2
  <2>3. \A u \in E : (Place(u) <= Place(n) /\ u # n) <=> Place(u) <= p
    BY <1>1, <1>4, <1>5, <1>7, <2>2
  <2>. QED  BY <1>4, <2>1, <2>3 DEF p
<1>8. CASE p + m > 7
  <2>1. 8 - p \in 1..7 /\ p + (8 - p) = 8
    BY <1>1
  <2>2. 8 - p \in S
    <3> DEFINE k == 8 - p
    <3>1. k \in 1..7 /\ p + k = 8
      BY <2>1
    <3> HIDE DEF k
    <3>2. Place("cpu") = IF p + k <= 7 THEN p + k ELSE p + k - 7
      BY <1>1, <1>6, <3>1
    <3>3. k \in S
      BY <1>2, <3>1, <3>2
    <3>. QED  BY <3>3 DEF k
  <2>3. m <= 8 - p
    BY <1>3, <2>2
  <2>4. n = "cpu"
    BY <1>1, <1>4, <1>5, <1>6, <1>8, <2>3
  <2>5. ASSUME NEW u \in E, p < Place(u)
        PROVE  FALSE
    <3>1. Place(u) - p \in 1..7 /\ p + (Place(u) - p) = Place(u) /\ Place(u) <= 7
      BY <1>1, <2>5
    <3>2. Place(u) - p \in S
      BY <1>2, <3>1
    <3>. QED  BY <1>1, <1>3, <1>4, <1>8, <2>5, <3>2
  <2>6. \A u \in E : Place(u) <= p
    BY <1>1, <2>5
  <2>. QED  BY <1>4, <2>4, <2>6 DEF p
<1>. QED  BY <1>1, <1>4, <1>7, <1>8

LEMMA RoundAppended ==
  ASSUME NEW s \in Seq(Profiles!ProfileTypes), NEW p \in Profiles!ProfileTypes,
         Profiles!IsInjective(s), p \notin Profiles!ToSet(s)
  PROVE  /\ Append(s, p) \in Seq(Profiles!ProfileTypes)
         /\ Profiles!IsInjective(Append(s, p))
         /\ Profiles!ToSet(Append(s, p)) = Profiles!ToSet(s) \cup {p}
<1> DEFINE t == Append(s, p)
<1>1. /\ t \in Seq(Profiles!ProfileTypes) /\ DOMAIN t = 1..Len(s) + 1 /\ t[Len(s) + 1] = p
      /\ \A i \in 1..Len(s) : t[i] = s[i]
      /\ DOMAIN s = 1..Len(s) /\ Len(s) \in Nat
  OBVIOUS
<1> HIDE DEF t
<1>2. \A i \in DOMAIN t : i = Len(s) + 1 \/ i \in DOMAIN s
  BY <1>1
<1>3. \A i \in DOMAIN s : t[i] = s[i] /\ s[i] # p /\ i \in DOMAIN t
  BY <1>1 DEF Profiles!ToSet
<1>4. Profiles!IsInjective(t)
  BY <1>1, <1>2, <1>3 DEF Profiles!IsInjective
<1>5. Profiles!ToSet(t) = Profiles!ToSet(s) \cup {p}
  <2>1. Len(s) + 1 \in DOMAIN t
    BY <1>1
  <2>. QED  BY <1>1, <1>2, <1>3, <2>1 DEF Profiles!ToSet
<1>. QED  BY <1>1, <1>4, <1>5 DEF t

AgentRecord ==
  [stage : {"none", "waiting", "collecting", "sending", "backoff", "done"},
   enabled : SUBSET Profiles!ProfileTypes, ptype : Profiles!ProfileTypes, unread : BOOLEAN,
   stop : BOOLEAN, cancelled : BOOLEAN, round : Seq(Profiles!ProfileTypes)]

AtWork == {"waiting", "collecting", "sending", "backoff"}

(* One agent takes a step that keeps its round, and no other does.         *)
LEMMA AgentMoves ==
  ASSUME ProfilingInv, NEW a \in Profiles!Agents, NEW new \in AgentRecord, RoundInv(new),
         new.stage \in AtWork => agent[a].stage \in AtWork,
         agent' = [agent EXCEPT ![a] = new],
         UNCHANGED <<profileLock, profileAgent, handler, requests>>
  PROVE  ProfilingInv'
<1>1. agent \in [Profiles!Agents -> AgentRecord]
  BY DEF ProfilingInv, Profiles!TypeOK, AgentRecord
<1>2. /\ agent' \in [Profiles!Agents -> AgentRecord]
      /\ \A b \in Profiles!Agents : agent'[b] = IF b = a THEN new ELSE agent[b]
  BY <1>1
<1>3. Profiles!TypeOK'
  BY <1>2 DEF ProfilingInv, Profiles!TypeOK, AgentRecord
<1>4. Profiles!OneAgent'
  <2>1. \A b \in Profiles!Agents : Profiles!Active(b)' => Profiles!Active(b)
    BY <1>1, <1>2 DEF Profiles!Active, AtWork, AgentRecord
  <2>. QED  BY <2>1 DEF ProfilingInv, Profiles!OneAgent
<1>5. \A b \in Profiles!Agents : RoundInv(agent'[b])
  BY <1>2 DEF ProfilingInv
<1>6. \A b \in Profiles!Agents : RoundInv(agent[b])'
  BY <1>5 DEF RoundInv, UpTo
<1>. QED  BY <1>3, <1>4, <1>6 DEF ProfilingInv

(* A step that changes neither the types nor the round of the agent.       *)
LEMMA RoundKept ==
  ASSUME NEW g \in AgentRecord, RoundInv(g), NEW new, new.enabled = g.enabled, new.ptype = g.ptype,
         new.round = g.round,
         \/ new.stage = g.stage
         \/ {g.stage, new.stage} \subseteq {"collecting", "sending", "backoff"}
         \/ new.stage = "done" /\ g.stage # "none"
  PROVE  RoundInv(new)
BY DEF RoundInv, UpTo

LEMMA AgentSteps ==
  ASSUME ProfilingInv, NEW a \in Profiles!Agents, Profiles!Runs(a)
  PROVE  ProfilingInv'
<1> DEFINE g == agent[a]
<1>0. g \in AgentRecord /\ RoundInv(g)
  BY DEF ProfilingInv, Profiles!TypeOK, AgentRecord
<1>1. ASSUME NEW new \in AgentRecord, new.enabled = g.enabled, new.ptype = g.ptype,
             new.round = g.round, new.stage \in AtWork => g.stage \in AtWork,
             \/ new.stage = g.stage
             \/ {g.stage, new.stage} \subseteq {"collecting", "sending", "backoff"}
             \/ new.stage = "done" /\ g.stage # "none",
             agent' = [agent EXCEPT ![a] = new],
             UNCHANGED <<profileLock, profileAgent, handler, requests>>
      PROVE  ProfilingInv'
  <2>1. RoundInv(new)
    BY <1>0, <1>1, RoundKept
  <2>. QED  BY <1>1, <2>1, AgentMoves
<1>2. ASSUME NEW at, NEW stage, Profiles!Goto(a, at, stage),
             \/ {at, stage} \subseteq {"collecting", "sending", "backoff"}
             \/ stage = "done" /\ at = "waiting"
      PROVE  ProfilingInv'
  <2> DEFINE new == [g EXCEPT !.stage = stage]
  <2>1. /\ g.stage = at /\ agent' = [agent EXCEPT ![a] = new]
        /\ UNCHANGED <<profileLock, profileAgent, handler, requests>>
    BY <1>2 DEF Profiles!Goto, Profiles!Step
  <2>2. /\ new \in AgentRecord /\ new.enabled = g.enabled /\ new.ptype = g.ptype
        /\ new.round = g.round /\ new.stage = stage
    BY <1>0, <1>2 DEF AgentRecord
  <2> HIDE DEF new
  <2>. QED  BY <1>1, <1>2, <2>1, <2>2 DEF AtWork
<1>3. ASSUME NEW at, Profiles!Turn(a, at), at \in {"collecting", "sending"}
      PROVE  ProfilingInv'
  <2> DEFINE n == Profiles!nextProfileType(g.enabled, g.ptype)
             new == [g EXCEPT !.stage = "waiting", !.unread = TRUE, !.ptype = n]
  <2>1. /\ g.stage = at /\ agent' = [agent EXCEPT ![a] = new]
        /\ UNCHANGED <<profileLock, profileAgent, handler, requests>>
    BY <1>3 DEF Profiles!Turn, Profiles!Step
  <2>2. /\ g.enabled \in SUBSET Profiles!ProfileTypes /\ "cpu" \in g.enabled /\ g.ptype \in g.enabled
        /\ Profiles!ToSet(g.round) = UpTo(g) /\ Profiles!IsInjective(g.round)
    BY <1>0, <1>3, <2>1 DEF RoundInv, AgentRecord
  <2>3. /\ n \in g.enabled
        /\ n = "cpu" => \A u \in g.enabled : Place(u) <= Place(g.ptype)
        /\ n # "cpu" => \A u \in g.enabled : (Place(u) <= Place(n) /\ u # n) <=> Place(u) <= Place(g.ptype)
    BY <2>2, NextEnabled
  <2> HIDE DEF n
  <2>4. /\ new \in AgentRecord /\ new.enabled = g.enabled /\ new.ptype = n
        /\ new.round = g.round /\ new.stage = "waiting"
    BY <1>0, <2>2, <2>3 DEF AgentRecord
  <2> HIDE DEF new, g
  <2>5. n = "cpu" => UpTo(g) = g.enabled
    BY <2>3 DEF UpTo
  <2>6. n # "cpu" => UpTo(g) = UpTo(new) \ {n}
    BY <2>3, <2>4 DEF UpTo
  <2>7. RoundInv(new)
    BY <2>2, <2>3, <2>4, <2>5, <2>6 DEF RoundInv
  <2>. QED  BY <1>3, <2>1, <2>4, <2>7, AgentMoves DEF AtWork, g
<1>4. CASE Profiles!Cancels(a)
  <2> DEFINE new == [g EXCEPT !.cancelled = TRUE]
  <2>1. /\ agent' = [agent EXCEPT ![a] = new] /\ UNCHANGED <<profileLock, profileAgent, handler, requests>>
    BY <1>4 DEF Profiles!Cancels, Profiles!Step
  <2>2. /\ new \in AgentRecord /\ new.enabled = g.enabled /\ new.ptype = g.ptype
        /\ new.round = g.round /\ new.stage = g.stage
    BY <1>0 DEF AgentRecord
  <2> HIDE DEF new
  <2>. QED  BY <1>1, <2>1, <2>2
<1>5. CASE Profiles!SendFails(a)
  <2>1. PICK unread \in {g.unread, FALSE} :
          Profiles!Step(a, "sending", [g EXCEPT !.stage = "backoff", !.unread = unread])
    BY <1>5 DEF Profiles!SendFails
  <2> DEFINE new == [g EXCEPT !.stage = "backoff", !.unread = unread]
  <2>2. /\ g.stage = "sending" /\ agent' = [agent EXCEPT ![a] = new]
        /\ UNCHANGED <<profileLock, profileAgent, handler, requests>>
    BY <2>1 DEF Profiles!Step
  <2>3. /\ new \in AgentRecord /\ new.enabled = g.enabled /\ new.ptype = g.ptype
        /\ new.round = g.round /\ new.stage = "backoff"
    BY <1>0 DEF AgentRecord
  <2> HIDE DEF new
  <2>. QED  BY <1>1, <2>2, <2>3 DEF AtWork
<1>6. CASE Profiles!TimerFires(a)
  <2> DEFINE p == g.ptype
             round == IF p = "cpu" THEN <<p>> ELSE Append(g.round, p)
             new == [g EXCEPT !.stage = "collecting", !.round = round]
  <2>1. /\ g.stage = "waiting" /\ agent' = [agent EXCEPT ![a] = new]
        /\ UNCHANGED <<profileLock, profileAgent, handler, requests>>
    BY <1>6 DEF Profiles!TimerFires, Profiles!Step, Profiles!defaultProfileType
  <2>2. /\ g.enabled \in SUBSET Profiles!ProfileTypes /\ "cpu" \in g.enabled /\ p \in g.enabled
        /\ g.round \in Seq(Profiles!ProfileTypes) /\ Profiles!IsInjective(g.round)
        /\ p # "cpu" => Profiles!ToSet(g.round) = UpTo(g) \ {p}
    BY <1>0, <2>1 DEF RoundInv, AgentRecord
  <2>3. CASE p = "cpu"
    <3>1. round = <<p>>
      BY <2>3
    <3>2. round \in Seq(Profiles!ProfileTypes) /\ Profiles!IsInjective(round) /\ Profiles!ToSet(round) = {"cpu"}
      BY <2>2, <2>3, <3>1 DEF Profiles!IsInjective, Profiles!ToSet
    <3>3. UpTo(g) = {"cpu"}
      <4>1. \A u \in g.enabled : Place(u) <= 1 <=> u = "cpu"
        BY <2>2, Places
      <4>. QED  BY <2>2, <2>3, <4>1, Places DEF UpTo
    <3> HIDE DEF round
    <3>4. /\ new \in AgentRecord /\ new.enabled = g.enabled /\ new.ptype = p
          /\ new.round = round /\ new.stage = "collecting"
      BY <1>0, <3>2 DEF AgentRecord
    <3> HIDE DEF new, g
    <3>5. UpTo(new) = UpTo(g)
      BY <3>4 DEF UpTo
    <3>6. RoundInv(new)
      BY <2>2, <3>2, <3>3, <3>4, <3>5 DEF RoundInv
    <3>. QED  BY <2>1, <3>4, <3>6, AgentMoves DEF AtWork, g
  <2>4. CASE p # "cpu"
    <3>1. round = Append(g.round, p)
      BY <2>4
    <3>2. round \in Seq(Profiles!ProfileTypes) /\ Profiles!IsInjective(round)
          /\ Profiles!ToSet(round) = Profiles!ToSet(g.round) \cup {p}
      BY <2>2, <2>4, <3>1, RoundAppended
    <3>3. Profiles!ToSet(round) = UpTo(g)
      BY <2>2, <2>4, <3>2, Places DEF UpTo
    <3> HIDE DEF round
    <3>4. /\ new \in AgentRecord /\ new.enabled = g.enabled /\ new.ptype = p
          /\ new.round = round /\ new.stage = "collecting"
      BY <1>0, <3>2 DEF AgentRecord
    <3> HIDE DEF new, g
    <3>5. UpTo(new) = UpTo(g)
      BY <3>4 DEF UpTo
    <3>6. RoundInv(new)
      BY <2>2, <3>2, <3>3, <3>4, <3>5 DEF RoundInv
    <3>. QED  BY <2>1, <3>4, <3>6, AgentMoves DEF AtWork, g
  <2>. QED  BY <2>3, <2>4
<1>7. CASE Profiles!Leaves(a) \/ Profiles!collectProfile(a) \/ Profiles!BackoffEnds(a)
  BY <1>2, <1>7 DEF Profiles!Leaves, Profiles!collectProfile, Profiles!BackoffEnds
<1>8. CASE Profiles!CollectFails(a) \/ Profiles!Sent(a) \/ Profiles!Cancelled(a)
  BY <1>3, <1>8 DEF Profiles!CollectFails, Profiles!Sent, Profiles!Cancelled
<1>. QED  BY <1>4, <1>5, <1>6, <1>7, <1>8 DEF Profiles!Runs

HandlerStages == {"idle", "enable", "disable", "stopping"}

(* A handler that neither stops an agent nor has the lock goes on so.      *)
LEMMA HandlerMoves ==
  ASSUME ProfilingInv, NEW h \in Handlers, handler[h] # "stopping",
         NEW what \in {"idle", "enable", "disable"}, Profiles!Become(h, what),
         UNCHANGED <<profileLock, profileAgent, agent>>, requests' \in 0..MaxRequests
  PROVE  ProfilingInv'
<1>1. handler \in [Handlers -> HandlerStages] /\ handler' = [handler EXCEPT ![h] = what]
  BY DEF ProfilingInv, Profiles!TypeOK, Profiles!Become, HandlerStages
<1>2. /\ handler' \in [Handlers -> HandlerStages]
      /\ \A d \in Handlers : handler'[d] = "stopping" <=> handler[d] = "stopping"
  BY <1>1 DEF HandlerStages
<1>3. Profiles!TypeOK'
  BY <1>2 DEF ProfilingInv, Profiles!TypeOK, HandlerStages
<1>4. Profiles!OneAgent'
  BY DEF ProfilingInv, Profiles!OneAgent, Profiles!Active
<1>5. \A a \in Profiles!Agents : RoundInv(agent[a])'
  BY DEF ProfilingInv, RoundInv, UpTo
<1>. QED  BY <1>2, <1>3, <1>4, <1>5 DEF ProfilingInv

LEMMA ParsedTypes ==
  ASSUME NEW types
  PROVE  Profiles!parseTypes(types).types \subseteq Profiles!ProfileTypes
BY DEF Profiles!parseTypes

LEMMA FreshAgent ==
  ASSUME NEW E \in SUBSET Profiles!ProfileTypes, "cpu" \in E, NEW new,
         new = [Profiles!NoAgent EXCEPT !.stage = "waiting", !.enabled = E]
  PROVE  new \in AgentRecord /\ new.stage = "waiting" /\ RoundInv(new)
<1>1. Profiles!NoAgent \in AgentRecord /\ Profiles!NoAgent.ptype = "cpu" /\ Profiles!NoAgent.round = <<>>
  <2>1. "cpu" \in Profiles!ProfileTypes
    BY Places
  <2>2. <<>> \in Seq(Profiles!ProfileTypes)
    OBVIOUS
  <2>. QED  BY <2>1, <2>2 DEF Profiles!NoAgent, AgentRecord, Profiles!defaultProfileType
<1>2. /\ new \in AgentRecord /\ new.stage = "waiting" /\ new.enabled = E /\ new.ptype = "cpu"
      /\ new.round = <<>>
  BY <1>1 DEF AgentRecord
<1>3. Profiles!IsInjective(new.round)
  BY <1>2 DEF Profiles!IsInjective
<1>. QED  BY <1>2, <1>3 DEF RoundInv

LEMMA HandlerSteps ==
  ASSUME ProfilingInv, NEW h \in Handlers, Profiles!Request(h) \/ Profiles!Handles(h)
  PROVE  ProfilingInv'
<1>0. /\ Nobody \notin Handlers /\ MaxAgents \in Nat /\ MaxRequests \in Nat
      /\ requests \in 0..MaxRequests /\ profileAgent \in Profiles!Agents \cup {0}
      /\ handler \in [Handlers -> HandlerStages] /\ agent \in [Profiles!Agents -> AgentRecord]
      /\ profileLock \in Handlers \cup {Nobody}
  BY BackgroundAssumption DEF ProfilingInv, Profiles!TypeOK, AgentRecord, HandlerStages,
     Profiles!ProfilingAssumption
<1>1. CASE Profiles!Request(h)
  <2>1. requests' \in 0..MaxRequests /\ handler[h] # "stopping"
    BY <1>0, <1>1 DEF Profiles!Request
  <2>2. \E what \in {"enable", "disable"} : Profiles!Become(h, what)
    BY <1>1 DEF Profiles!Request
  <2>3. UNCHANGED <<profileLock, profileAgent, agent>>
    BY <1>1 DEF Profiles!Request
  <2>. QED  BY <2>1, <2>2, <2>3, HandlerMoves
<1>2. CASE Profiles!EnableRefused(h) \/ Profiles!DisableNothing(h)
  <2>1. handler[h] # "stopping" /\ Profiles!Become(h, "idle")
        /\ UNCHANGED <<profileLock, profileAgent, requests, agent>>
    BY <1>2 DEF Profiles!EnableRefused, Profiles!DisableNothing
  <2>. QED  BY <1>0, <2>1, HandlerMoves
<1>3. CASE Profiles!handleEnableProfilingRequest(h)
  <2>1. PICK types \in TypeLists, a \in Profiles!Agents :
          LET asked == Profiles!parseTypes(types)
          IN  /\ agent' = [agent EXCEPT ![a] = [Profiles!NoAgent EXCEPT !.stage = "waiting",
                                                   !.enabled = Profiles!Enabled(asked.types)]]
              /\ profileAgent' = a
    BY <1>3 DEF Profiles!handleEnableProfilingRequest
  <2> DEFINE E == Profiles!Enabled(Profiles!parseTypes(types).types)
             new == [Profiles!NoAgent EXCEPT !.stage = "waiting", !.enabled = E]
  <2>2. /\ handler[h] = "enable" /\ profileLock = Nobody /\ profileAgent = 0
        /\ handler' = [handler EXCEPT ![h] = "idle"] /\ profileAgent' = a
        /\ agent' = [agent EXCEPT ![a] = new] /\ UNCHANGED <<profileLock, requests>>
    BY <1>3, <2>1 DEF Profiles!handleEnableProfilingRequest, Profiles!Become
  <2>3. E \in SUBSET Profiles!ProfileTypes /\ "cpu" \in E
    BY ParsedTypes, Places DEF Profiles!Enabled, Profiles!defaultProfileType
  <2> HIDE DEF E
  <2>4. new \in AgentRecord /\ RoundInv(new)
    BY <2>3, FreshAgent
  <2> HIDE DEF new
  <2>5. /\ agent' \in [Profiles!Agents -> AgentRecord]
        /\ \A b \in Profiles!Agents : agent'[b] = IF b = a THEN new ELSE agent[b]
    BY <1>0, <2>2, <2>4
  <2>6. /\ handler' \in [Handlers -> HandlerStages]
        /\ \A d \in Handlers : handler'[d] = "stopping" <=> handler[d] = "stopping"
    BY <1>0, <2>2 DEF HandlerStages
  <2>7. Profiles!TypeOK'
    BY <1>0, <2>2, <2>5, <2>6 DEF Profiles!TypeOK, HandlerStages, AgentRecord
  <2>8. Profiles!OneAgent'
    <3>1. \A b \in Profiles!Agents : ~Profiles!Active(b)
      BY <2>2 DEF ProfilingInv, Profiles!OneAgent, Profiles!Agents
    <3>2. \A b \in Profiles!Agents \ {a} : ~Profiles!Active(b)'
      BY <2>5, <3>1 DEF Profiles!Active
    <3>. QED  BY <2>2, <3>2 DEF Profiles!OneAgent
  <2>9. \A b \in Profiles!Agents : RoundInv(agent[b])'
    <3>1. \A b \in Profiles!Agents : RoundInv(agent'[b])
      BY <2>4, <2>5 DEF ProfilingInv
    <3>. QED  BY <3>1 DEF RoundInv, UpTo
  <2>. QED  BY <2>2, <2>6, <2>7, <2>8, <2>9 DEF ProfilingInv
<1>4. CASE Profiles!handleDisableProfilingRequest(h)
  <2> DEFINE a == profileAgent
             new == [agent[a] EXCEPT !.stop = TRUE]
  <2>1. /\ handler[h] = "disable" /\ profileLock = Nobody /\ a # 0
        /\ handler' = [handler EXCEPT ![h] = "stopping"] /\ profileLock' = h
        /\ agent' = [agent EXCEPT ![a] = new] /\ UNCHANGED <<profileAgent, requests>>
    BY <1>4 DEF Profiles!handleDisableProfilingRequest, Profiles!Become
  <2>2. a \in Profiles!Agents /\ agent[a] \in AgentRecord /\ RoundInv(agent[a])
    BY <1>0, <2>1 DEF ProfilingInv
  <2>3. /\ new \in AgentRecord /\ new.stage = agent[a].stage /\ new.enabled = agent[a].enabled
        /\ new.ptype = agent[a].ptype /\ new.round = agent[a].round
    BY <2>2 DEF AgentRecord
  <2> HIDE DEF new
  <2>4. RoundInv(new)
    BY <2>2, <2>3, RoundKept
  <2>5. /\ agent' \in [Profiles!Agents -> AgentRecord]
        /\ \A b \in Profiles!Agents : agent'[b] = IF b = a THEN new ELSE agent[b]
    BY <1>0, <2>1, <2>3
  <2>6. /\ handler' \in [Handlers -> HandlerStages] /\ handler'[h] = "stopping"
        /\ \A d \in Handlers \ {h} : handler'[d] = handler[d]
    BY <1>0, <2>1 DEF HandlerStages
  <2>7. \A d \in Handlers \ {h} : handler[d] # "stopping"
    BY <1>0, <2>1 DEF ProfilingInv
  <2>8. Profiles!TypeOK'
    BY <1>0, <2>1, <2>5, <2>6 DEF Profiles!TypeOK, HandlerStages, AgentRecord
  <2>9. Profiles!OneAgent'
    <3>1. \A b \in Profiles!Agents : Profiles!Active(b)' => Profiles!Active(b)
      BY <2>2, <2>3, <2>5 DEF Profiles!Active
    <3>. QED  BY <2>1, <3>1 DEF ProfilingInv, Profiles!OneAgent
  <2>10. \A b \in Profiles!Agents : RoundInv(agent[b])'
    <3>1. \A b \in Profiles!Agents : RoundInv(agent'[b])
      BY <2>4, <2>5 DEF ProfilingInv
    <3>. QED  BY <3>1 DEF RoundInv, UpTo
  <2>. QED  BY <1>0, <2>1, <2>6, <2>7, <2>8, <2>9, <2>10 DEF ProfilingInv
<1>5. CASE Profiles!Stopped(h)
  <2>1. /\ handler[h] = "stopping" /\ agent[profileAgent].stage = "done"
        /\ profileAgent' = 0 /\ profileLock' = Nobody
        /\ handler' = [handler EXCEPT ![h] = "idle"] /\ UNCHANGED <<requests, agent>>
    BY <1>5 DEF Profiles!Stopped, Profiles!Become
  <2>2. profileLock = h
    BY <2>1 DEF ProfilingInv
  <2>3. /\ handler' \in [Handlers -> HandlerStages] /\ \A d \in Handlers : handler'[d] # "stopping"
    BY <1>0, <2>1, <2>2 DEF ProfilingInv, HandlerStages
  <2>4. Profiles!TypeOK'
    BY <1>0, <2>1, <2>3 DEF Profiles!TypeOK, HandlerStages, AgentRecord
  <2>5. Profiles!OneAgent'
    <3>1. \A b \in Profiles!Agents : ~Profiles!Active(b)
      BY <2>1 DEF ProfilingInv, Profiles!OneAgent, Profiles!Active
    <3>. QED  BY <2>1, <3>1 DEF Profiles!OneAgent, Profiles!Active
  <2>6. \A b \in Profiles!Agents : RoundInv(agent[b])'
    BY <2>1 DEF ProfilingInv, RoundInv, UpTo
  <2>. QED  BY <1>0, <2>1, <2>3, <2>4, <2>5, <2>6 DEF ProfilingInv
<1>. QED  BY <1>1, <1>2, <1>3, <1>4, <1>5 DEF Profiles!Handles

LEMMA ProfilingStep == ProfilingInv /\ [Profiles!Next]_(Profiles!vars) => ProfilingInv'
<1> SUFFICES ASSUME ProfilingInv, [Profiles!Next]_(Profiles!vars)
             PROVE  ProfilingInv'
  OBVIOUS
<1>1. CASE UNCHANGED Profiles!vars
  <2>1. UNCHANGED <<profileLock, profileAgent, handler, requests, agent>>
    BY <1>1 DEF Profiles!vars
  <2>. QED  BY <2>1 DEF ProfilingInv, Profiles!TypeOK, Profiles!OneAgent, Profiles!Active, RoundInv, UpTo
<1>. QED  BY <1>1, HandlerSteps, AgentSteps DEF Profiles!Next

LEMMA ProfilingStart ==
  ASSUME Profiles!Init
  PROVE  ProfilingInv
<1>0. Nobody \notin Handlers /\ MaxAgents \in Nat /\ MaxRequests \in Nat
  BY BackgroundAssumption DEF Profiles!ProfilingAssumption
<1>1. /\ profileLock = Nobody /\ profileAgent = 0 /\ handler = [h \in Handlers |-> "idle"]
      /\ requests = 0 /\ agent = [a \in Profiles!Agents |-> Profiles!NoAgent]
  BY DEF Profiles!Init
<1>2. /\ Profiles!NoAgent \in AgentRecord /\ Profiles!NoAgent.stage = "none"
      /\ Profiles!NoAgent.round = <<>>
  <2>1. "cpu" \in Profiles!ProfileTypes
    BY Places
  <2>2. <<>> \in Seq(Profiles!ProfileTypes)
    OBVIOUS
  <2>. QED  BY <2>1, <2>2 DEF Profiles!NoAgent, AgentRecord, Profiles!defaultProfileType
<1>3. RoundInv(Profiles!NoAgent)
  BY <1>2 DEF RoundInv, Profiles!IsInjective
<1>4. Profiles!TypeOK
  <2>1. agent \in [Profiles!Agents -> AgentRecord]
    BY <1>1, <1>2
  <2>. QED  BY <1>0, <1>1, <2>1 DEF Profiles!TypeOK, AgentRecord
<1>5. Profiles!OneAgent
  BY <1>1, <1>2 DEF Profiles!OneAgent, Profiles!Active
<1>6. \A a \in Profiles!Agents : RoundInv(agent[a])
  BY <1>1, <1>3
<1>. QED  BY <1>0, <1>1, <1>4, <1>5, <1>6 DEF ProfilingInv

LEMMA ProfilesTakeTurns ==
  ASSUME ProfilingInv
  PROVE  ProfilesInTurn
BY DEF ProfilingInv, RoundInv, ProfilesInTurn, Profiles!RoundComplete, Profiles!defaultProfileType

-----------------------------------------------------------------------------
(* ScriptEngine: its proofs, for the variables of MCBackground.            *)

Engine == INSTANCE ScriptEngineProofs

LEMMA EngineStep ==
  [Scripts!Next]_(Scripts!vars) => [Engine!Next]_(Engine!vars)
<1>1. ASSUME NEW e \in Executions
      PROVE  Scripts!Runs(e) => Engine!Runs(e)
  <2>1. Scripts!Execute(e) => Engine!Execute(e)
    BY DEF Scripts!Execute, Scripts!Set, Scripts!Globals, Scripts!Names, Scripts!Own, Scripts!Host,
           Engine!Execute, Engine!Set, Engine!Globals, Engine!Names, Engine!Own, Engine!Host
  <2>2. Scripts!Returns(e) => Engine!Returns(e)
    BY DEF Scripts!Returns, Scripts!Set, Scripts!unset, Scripts!Globals, Scripts!Names, Scripts!Own,
           Scripts!Script, Engine!Returns, Engine!Set, Engine!unset, Engine!Globals, Engine!Names,
           Engine!Own, Engine!Script
  <2>3. Scripts!Dies(e) => Engine!Dies(e)
    BY DEF Scripts!Dies, Scripts!Set, Engine!Dies, Engine!Set
  <2>4. Scripts!Puts(e) => Engine!Puts(e)
    BY DEF Scripts!Puts, Scripts!Set, Engine!Puts, Engine!Set
  <2>5. Scripts!TimerFires(e) => Engine!TimerFires(e)
    BY DEF Scripts!TimerFires, Scripts!Set, Engine!TimerFires, Engine!Set
  <2>6. Scripts!Interrupts(e) => Engine!Interrupts(e)
    BY DEF Scripts!Interrupts, Scripts!Set, Engine!Interrupts, Engine!Set
  <2>. QED  BY <2>1, <2>2, <2>3, <2>4, <2>5, <2>6 DEF Scripts!Runs, Engine!Runs
<1>2. Scripts!Next => Engine!Next
  BY <1>1 DEF Scripts!Next, Engine!Next
<1>3. UNCHANGED Scripts!vars => UNCHANGED Engine!vars
  BY DEF Scripts!vars, Engine!vars
<1>. QED  BY <1>2, <1>3

LEMMA EngineStart == Scripts!Init => Engine!Init
<1>1. Scripts!Names = Engine!Names
  BY DEF Scripts!Names, Scripts!Own, Scripts!Globals, Engine!Names, Engine!Own, Engine!Globals
<1>2. Scripts!NewExec = Engine!NewExec
  BY DEF Scripts!NewExec, Scripts!NoVm, Engine!NewExec, Engine!NoVm
<1>. QED  BY <1>1, <1>2 DEF Scripts!Init, Engine!Init

LEMMA EngineSound ==
  ASSUME Engine!IInv
  PROVE  RuntimesAreOwn
<1>1. Engine!TypeOK /\ Engine!NamesAreOwn /\ Engine!InterruptsAreOwn
  BY Engine!Sound
<1>2. Scripts!TypeOK
  BY <1>1 DEF Scripts!TypeOK, Scripts!NoVm, Engine!TypeOK, Engine!NoVm
<1>3. Scripts!NamesAreOwn
  BY <1>1 DEF Scripts!NamesAreOwn, Scripts!Globals, Scripts!Names, Scripts!Own, Scripts!Host,
              Scripts!Script, Engine!NamesAreOwn, Engine!Globals, Engine!Names, Engine!Own,
              Engine!Host, Engine!Script
<1>4. Scripts!InterruptsAreOwn
  BY <1>1 DEF Scripts!InterruptsAreOwn, Engine!InterruptsAreOwn
<1>. QED  BY <1>2, <1>3, <1>4 DEF RuntimesAreOwn

-----------------------------------------------------------------------------
(* The theorems.                                                           *)

(* What MCBackground lets a component do is a step of it, or none.         *)
LEMMA OnlySteps ==
  [Next]_vars => /\ [Redis!Next]_(Redis!vars) /\ [Metric!Next]_(Metric!vars)
                 /\ [Local!Next]_(Local!vars) /\ [Remote!Next]_(Remote!vars)
                 /\ [Profiles!Next]_(Profiles!vars) /\ [Scripts!Next]_(Scripts!vars)
<1>. SUFFICES ASSUME [Next]_vars
              PROVE  /\ [Redis!Next]_(Redis!vars) /\ [Metric!Next]_(Metric!vars)
                     /\ [Local!Next]_(Local!vars) /\ [Remote!Next]_(Remote!vars)
                     /\ [Profiles!Next]_(Profiles!vars) /\ [Scripts!Next]_(Scripts!vars)
  OBVIOUS
<1>1. UNCHANGED vars => /\ UNCHANGED redisVars /\ UNCHANGED metricVars /\ UNCHANGED localVars
                        /\ UNCHANGED remoteVars /\ UNCHANGED profilingVars /\ UNCHANGED scriptVars
  BY DEF vars
<1>2. /\ UNCHANGED redisVars => UNCHANGED Redis!vars
      /\ UNCHANGED metricVars => UNCHANGED Metric!vars
  BY DEF redisVars, Redis!vars, metricVars, Metric!vars, Metric!serverVars, Metric!registryVars
<1>3. /\ UNCHANGED localVars => UNCHANGED Local!vars
      /\ UNCHANGED remoteVars => UNCHANGED Remote!vars
  BY DEF localVars, Local!vars, remoteVars, Remote!vars
<1>4. /\ UNCHANGED profilingVars => UNCHANGED Profiles!vars
      /\ UNCHANGED scriptVars => UNCHANGED Scripts!vars
  BY DEF profilingVars, Profiles!vars, scriptVars, Scripts!vars
<1>5. /\ Redis!Next \/ UNCHANGED redisVars
      /\ Metric!Next \/ UNCHANGED metricVars
      /\ Local!Next \/ UNCHANGED localVars
      /\ Remote!Next \/ UNCHANGED remoteVars
      /\ Profiles!Next \/ UNCHANGED profilingVars
      /\ Scripts!Next \/ UNCHANGED scriptVars
  BY <1>1 DEF Next, Only
<1>. QED  BY <1>2, <1>3, <1>4, <1>5

(* The invariants of the six components together.                          *)
IInv ==
  /\ RedisInv /\ MetricInv /\ RegistryInv
  /\ LocalInv /\ RemoteInv /\ ProfilingInv /\ Engine!IInv

LEMMA InitIInv == Init => IInv
<1>. SUFFICES ASSUME Init PROVE IInv
  OBVIOUS
<1>0. /\ MaxClients \in Nat /\ MaxServers \in Nat
      /\ "nobody" \notin Callers /\ Groups \cap Checks = {}
  BY BackgroundAssumption DEF Redis!RedisAssumption, Metric!MetricAssumption, Metric!NoCaller
<1>1. Redis!Init /\ Metric!Init
  BY DEF Init
<1>2. RedisInv
  <2>1. /\ open = TRUE /\ Client = 0 /\ made = 0 /\ rc = "idle"
        /\ closer = [pc |-> "idle", client |-> 0] /\ panicked = FALSE /\ raced = FALSE
        /\ state = [c \in Redis!Clients |-> "none"]
    BY <1>1 DEF Redis!Init, Redis!NoClient
  <2>2. RedisTypes
    <3>1. 0 \in 0..MaxClients
      BY <1>0
    <3>2. made \in 0..MaxClients /\ Client \in 0..made
      BY <2>1, <3>1
    <3>3. state \in [Redis!Clients -> {"none", "open", "failed", "closed"}]
      BY <2>1
    <3>4. closer \in [pc : {"idle", "test", "take", "clear", "close", "done"}, client : 0..MaxClients]
      BY <2>1, <3>1
    <3>5. {open, raced, panicked} \subseteq BOOLEAN
      BY <2>1, Zenon
    <3>. QED  BY <2>1, <3>2, <3>3, <3>4, <3>5 DEF RedisTypes
  <2>3. OpenAre({Client})
    BY <2>1 DEF OpenAre, Redis!Clients
  <2>. QED  BY <2>1, <2>2, <2>3 DEF RedisInv, Receiving
<1>4. MetricInv
  <2>1. /\ serversMade = 0 /\ metricServer = 0
        /\ server = [s \in Metric!Servers |-> Metric!NewServer]
        /\ caller = [c \in Callers |-> [pc |-> "idle", made |-> 0]]
    BY <1>1 DEF Metric!Init, Metric!NoServer
  <2>2. /\ DOMAIN Metric!NewServer = {"stage", "addr", "connected", "overtaken"}
        /\ Metric!NewServer.stage = "none"
    BY DEF Metric!NewServer
  <2>3. \A s \in Metric!Servers : server[s] = Metric!NewServer
    BY <2>1
  <2>4. \A c \in Callers : caller[c].pc = "idle"
    BY <2>1
  <2>. QED  BY <1>0, <2>1, <2>2, <2>3, <2>4 DEF MetricInv, Serves
<1>5. RegistryInv
  BY <1>1 DEF Metric!Init, RegistryInv, Metric!RegistryAsConfigured
<1>6. LocalInv /\ RemoteInv /\ ProfilingInv /\ Engine!IInv
  <2>1. Local!Init /\ Remote!Init /\ Profiles!Init /\ Scripts!Init
    BY DEF Init
  <2>. QED  BY <2>1, LocalInit, RemoteInit, ProfilingStart, EngineStart, Engine!InitInv
<1>. QED  BY <1>2, <1>4, <1>5, <1>6 DEF IInv

LEMMA Background == FairSpec => []IInv
<1>1. IInv /\ [Next]_vars => IInv'
  BY OnlySteps, RedisStep, MetricStep, RegistryStep, LocalStep, RemoteStep, ProfilingStep,
     EngineStep, Engine!Inductive DEF IInv
<1>. QED  BY InitIInv, <1>1, PTL DEF FairSpec

(* Package redis, ReceiveConfiguration and Close: for any number of        *)
(* clients, if the two do not overlap, the open pools at rest are exactly  *)
(* the current client, beside those whose first PING failed, and after     *)
(* Close there is none and none is made.                                   *)
THEOREM RedisClientsAccounted == FairSpec => []ClientsAccounted
<1>1. IInv => Redis!OneOpenClient
  <2>. SUFFICES ASSUME RedisInv PROVE Redis!OneOpenClient
    BY DEF IInv
  <2>1. panicked => raced
    BY DEF RedisInv, Receiving, Closing
  <2>2. ASSUME Redis!AtRest, ~raced
        PROVE  OpenAre({Client}) \/ (Client = 0 /\ OpenAre({}))
    BY <2>2 DEF Redis!AtRest, RedisInv, Receiving, Closing
  <2>3. ASSUME Redis!AtRest, ~raced
        PROVE  {c \in Redis!Clients : state[c] = "open"} = {Client} \ {Redis!NoClient}
    <3>1. 0 \notin Redis!Clients /\ (Client # 0 => Client \in Redis!Clients)
      BY BackgroundAssumption DEF RedisInv, RedisTypes, Redis!RedisAssumption, Redis!Clients
    <3>. QED  BY <2>2, <2>3, <3>1 DEF OpenAre, Redis!NoClient
  <2>. QED  BY <2>1, <2>3 DEF Redis!OneOpenClient
<1>2. IInv => Redis!ClosedForGood
  BY DEF IInv, RedisInv, Closing, Redis!ClosedForGood, Redis!NoClient
<1>. QED  BY Background, <1>1, <1>2, PTL DEF ClientsAccounted

(* Package metric: for any callers of InitHttpServer and any groups and    *)
(* checks, a server that is not the newest accepts connections only if it  *)
(* was replaced before it listened, and the registry has the groups of the *)
(* newest configuration, but for those that were registered before.        *)
THEOREM MetricServersAsConfigured == FairSpec => []MetricsAsConfigured
<1>1. IInv => MetricsAsConfigured
  BY DEF IInv, MetricInv, Serves, RegistryInv, MetricsAsConfigured, Metric!ReplacedServersClosed
<1>. QED  BY Background, <1>1, PTL

(* Package config: for any contents of the file, keys, received            *)
(* configurations, and steps of InitConfigV2, the watcher and SIGHUP, what *)
(* Get returns is valid; if no SIGHUP comes and InitConfigV2 does not call *)
(* the callback, its old configuration is the new one of its last call;    *)
(* overrides win, with their values up to the first "=", and no received   *)
(* key is lost.                                                            *)
THEOREM ConfigsAreSound == FairSpec => []ConfigsSound
<1>1. IInv => ConfigsSound
  BY LocalSound DEF IInv, RemoteInv, ConfigsSound
<1>. QED  BY Background, <1>1, PTL

(* Package metric, profiling: for any number of agents, requests and       *)
(* handlers and any types asked for, one agent is at work at most, the one *)
(* the handlers know of, and between two whole ticks it has tried every    *)
(* enabled type exactly once.                                              *)
THEOREM ProfilesAlwaysInTurn == FairSpec => []ProfilesInTurn
<1>1. IInv => ProfilesInTurn
  BY ProfilesTakeTurns DEF IInv
<1>. QED  BY Background, <1>1, PTL

(* Package scripts: for any executions, runtimes and names that scripts    *)
(* define, no runtime is in two executions, a script gets the values of    *)
(* its own execution, sees beside them only what earlier scripts of its    *)
(* runtime have defined, and is interrupted by its own timer unless one    *)
(* came too late.                                                          *)
THEOREM RuntimesOwned == FairSpec => []RuntimesAreOwn
<1>1. IInv => RuntimesAreOwn
  BY EngineSound DEF IInv
<1>. QED  BY Background, <1>1, PTL

=============================================================================
