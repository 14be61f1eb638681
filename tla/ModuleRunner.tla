---------------------------- MODULE ModuleRunner ----------------------------
(***************************************************************************)
(* The runner of package bootstrap (bootstrap/module_runner.go): the       *)
(* select loop that keeps a module connected to the config service, takes  *)
(* it through the handshake (schema, config, requirements, MODULE:READY),  *)
(* applies remote configurations and starts again after a disconnection.   *)
(*                                                                         *)
(* Goroutines of the model:                                                *)
(*   - main, the goroutine of runner.run (pc);                             *)
(*   - the applier of remote configurations (applier);                     *)
(*   - one goroutine per emitted event, or the caller of DeclareRoutes     *)
(*     (a record of senders);                                              *)
(*   - the single handler worker of every websocket client (the head of    *)
(*     inbox[c] is the event it is handing over);                          *)
(*   - onRunnerShutdown, called by gracefulShutdown (shutdown).            *)
(* The websocket client and the config service are environment.            *)
(***************************************************************************)
EXTENDS Naturals, Sequences, SequencesExt

CONSTANTS
  Modules,       \* keys of runner.requiredModules
  MustConnect,   \* those registered with mustConnect
  RequireRoutes, \* onRoutesReceive # nil
  Declarers,     \* who calls DeclareRoutes: a "user" goroutine, the config
                 \* callback ("applier"), the OnModuleReady callback ("main")
  Faults,        \* what the environment may do, see FaultKinds
  MaxConns,      \* bound: websocket connections of one run
  MaxConfigs,    \* bound: configuration messages the service sends
  MaxDeclares    \* bound: calls of DeclareRoutes

FaultKinds == {"drop", "hang", "refuse", "badConfig", "signal"}

ASSUME ConstantsAssumption ==
  /\ MustConnect \subseteq Modules
  /\ RequireRoutes \in BOOLEAN
  /\ Declarers \subseteq {"user", "applier", "main"}
  /\ Faults \subseteq FaultKinds
  /\ MaxConns \in Nat
  /\ MaxConfigs \in Nat
  /\ MaxDeclares \in Nat

VARIABLES
  \* main goroutine
  pc,
  moduleState,
  client,     \* the connection b.client belongs to, 0 is nil
  epoch,      \* connections dialled so far: the newest one
  initChan,   \* signals in initChan
  task,       \* the apply task main is pushing into remoteConfigsCh
  \* applier goroutine
  applier,
  applying,
  remoteConfigsCh,
  remoteConfigAppliedCh,
  live,       \* the configuration set by config.UnsafeSetRemote
  \* senders
  senders,
  readyCalls, \* calls of onModuleReady
  readyHere,  \* those of them on the connection of b.client
  carried,    \* signals that were in initChan when that connection began
  reqs,       \* requirements senders spawned
  declares,   \* DeclareRoutes calls
  \* connections and service
  conn,
  inbox,
  sent,       \* configuration messages sent
  heard,      \* per connection, the events the service has received
  \* shutdown
  shutdown

mainData    == <<moduleState, client, epoch, initChan, task>>
mainVars    == <<pc, mainData>>
applierVars == <<applier, applying, remoteConfigsCh, remoteConfigAppliedCh, live>>
readyVars   == <<readyCalls, readyHere, carried>>
counters    == <<readyVars, reqs, declares>>
senderVars  == <<senders, counters>>
netData     == <<inbox, sent, heard>>
netVars     == <<conn, netData>>
notMain     == <<applierVars, senderVars, netVars, shutdown>>
vars        == <<mainVars, notMain>>

Conns == 1..MaxConns

-----------------------------------------------------------------------------
(* Data.                                                                   *)

ModuleState == [ remoteConfigReady       : BOOLEAN,
                 requiredModulesReady    : BOOLEAN,
                 requiredSendReady       : BOOLEAN,
                 routesReady             : BOOLEAN,
                 moduleReady             : BOOLEAN,
                 currentConnectedModules : SUBSET Modules ]

(* A configuration on its way to UnsafeSetRemote: the connection it came   *)
(* on and its position in what the service sent.                           *)
Task   == [conn : Nat, ver : Nat]
NoTask == [conn |-> 0, ver |-> 0]

Event == [kind : {"config", "badConfig", "routes"}, val : Nat]
           \cup [kind : {"module"}, val : Modules]

Updates == {"updateUser", "updateApplier", "updateMain"}
Kinds   == {"schema", "requirements", "ready"} \cup Updates

(* What ackEvent returned: an ok answer, an error after the retries, a     *)
(* websocket.CloseError.                                                   *)
Outcomes == {"acked", "failed", "closed"}
Stages   == {"spawned", "emitting", "received"} \cup Outcomes

(* A goroutine in ackEvent: client is the connection whose client it       *)
(* captured, 0 before it evaluated b.client.                               *)
Sender == [kind : Kinds, n : Nat, client : Nat, stage : Stages]

Spawn(kind, n) ==
  {[kind |-> kind, n |-> n, client |-> 0, stage |-> "spawned"]}

\* Variant: two handler workers per client.
TwoWorkers == 2
WorkersNum == 1
WorkersBufferMultiplier == 1
InboxCap == WorkersNum + WorkersNum * WorkersBufferMultiplier

InitChanCap == 1

initialState ==
  LET optional == Modules \ MustConnect
  IN  [ remoteConfigReady       |-> FALSE,
        \* len(required) = len(connected), and connected \subseteq required
        requiredModulesReady    |-> optional = Modules,
        requiredSendReady       |-> FALSE,
        routesReady             |-> ~RequireRoutes,
        moduleReady             |-> FALSE,
        currentConnectedModules |-> optional ]

\* Variant: MODULE:READY does not wait for the acknowledged requirements.
ConditionsWithoutRequirements ==
  /\ moduleState.remoteConfigReady
  /\ moduleState.requiredModulesReady
  /\ moduleState.routesReady

AllConditions ==
  /\ moduleState.remoteConfigReady
  /\ moduleState.requiredModulesReady
  /\ moduleState.requiredSendReady
  /\ moduleState.routesReady

\* Variant: moduleReady is not looked at.
SendReadyAgain == AllConditions

canSendModuleReady == AllConditions /\ ~moduleState.moduleReady

Live(c) == conn[c] \in {"up", "hung"}
CtxDone == shutdown # "idle"

(* Client.Close, or the loss of the connection: the reader goroutine will  *)
(* call OnDisconnect.                                                      *)
Closed(c) == IF c # 0 /\ Live(c) THEN [conn EXCEPT ![c] = "down"] ELSE conn

Init ==
  /\ pc = "dial"
  /\ moduleState = initialState
  /\ client = 0
  /\ epoch = 0
  /\ initChan = 0
  /\ task = NoTask
  /\ applier = "idle"
  /\ applying = NoTask
  /\ remoteConfigsCh = NoTask
  /\ remoteConfigAppliedCh = FALSE
  /\ live = NoTask
  /\ senders = {}
  /\ readyCalls = 0
  /\ readyHere = 0
  /\ carried = 0
  /\ reqs = 0
  /\ declares = 0
  /\ conn = [c \in Conns |-> "none"]
  /\ inbox = [c \in Conns |-> <<>>]
  /\ sent = 0
  /\ heard = [c \in Conns |-> {}]
  /\ shutdown = "idle"

-----------------------------------------------------------------------------
(* main: connecting.                                                       *)

(* client.Dial succeeded; b.client is assigned by the next step of main.   *)
DialSucceeds ==
  /\ pc = "dial"
  /\ ~CtxDone
  /\ epoch < MaxConns
  /\ epoch' = epoch + 1
  /\ conn' = [conn EXCEPT ![epoch + 1] = "up"]
  /\ pc' = "dialed"
  /\ UNCHANGED <<moduleState, client, initChan, task, applierVars, senderVars,
                 netData, shutdown>>

(* Dial failed: main sleeps and tries the next address.                    *)
DialFails ==
  /\ pc = "dial"
  /\ ~CtxDone
  /\ UNCHANGED vars

ReturnsFromDial ==
  pc = "dial" /\ CtxDone /\ pc' = "returned" /\ UNCHANGED <<mainData, notMain>>


(* initSocketConnection returned nil.                                      *)
DialCancelled == ReturnsFromDial

AssignClient ==
  /\ pc = "dialed"
  /\ client' = epoch
  /\ senders' = senders \cup Spawn("schema", epoch)
  /\ readyHere' = 0
  /\ carried' = initChan
  /\ pc' = "top"
  /\ UNCHANGED <<moduleState, epoch, initChan, task, applierVars, readyCalls,
                 reqs, declares, netVars, shutdown>>

-----------------------------------------------------------------------------
(* main: the top of the loop.                                              *)

LoopTop ==
  /\ pc = "top"
  /\ \/ /\ canSendModuleReady
        /\ moduleState' = [moduleState EXCEPT !.moduleReady = TRUE]
        /\ pc' = "pushInit"
     \/ /\ ~canSendModuleReady
        /\ pc' = "select"
        /\ UNCHANGED moduleState
  /\ UNCHANGED <<client, epoch, initChan, task, notMain>>

(* initChan <- struct{}{}: blocks while the channel, of capacity 1, is     *)
(* full; only main receives from it.                                       *)
PushInit ==
  /\ pc = "pushInit"
  /\ initChan < InitChanCap
  /\ initChan' = initChan + 1
  /\ pc' = "select"
  /\ UNCHANGED <<moduleState, client, epoch, task, notMain>>

-----------------------------------------------------------------------------
(* main: the cases of the select.                                          *)

(* The handler workers of a connection hold its oldest events; one hands   *)
(* its event over to main, the channels are unbuffered.                    *)
InHandler(c) == {i \in DOMAIN inbox[c] : i <= WorkersNum}

Received(c, i) == inbox' = [inbox EXCEPT ![c] = RemoveAt(@, i)]

(* <-b.remoteConfigChan: an invalid configuration ends run with an error.  *)
SelectConfig(c) ==
  /\ pc = "select"
  /\ \E i \in InHandler(c) :
       /\ Received(c, i)
       /\ \/ /\ inbox[c][i].kind = "config"
             /\ task' = [conn |-> c, ver |-> inbox[c][i].val]
             /\ pc' = "pushConfig"
          \/ /\ inbox[c][i].kind = "badConfig"
             /\ pc' = "failed"
             /\ UNCHANGED task
  /\ UNCHANGED <<moduleState, client, epoch, initChan, applierVars, senderVars,
                 conn, sent, heard, shutdown>>

Pushed(slot) ==
  /\ pc = "pushConfig"
  /\ remoteConfigsCh' = slot
  /\ task' = NoTask
  /\ pc' = "top"
  /\ UNCHANGED <<moduleState, client, epoch, initChan, applier, applying,
                 remoteConfigAppliedCh, live, senderVars, netVars, shutdown>>

\* Variant: the send does not block and drops the task.
PushConfigOrDrop ==
  Pushed(IF remoteConfigsCh = NoTask THEN task ELSE remoteConfigsCh)

(* remoteConfigsCh <- task: blocks while the channel, of capacity 1, is    *)
(* full, without watching the context.                                     *)
PushConfig == remoteConfigsCh = NoTask /\ Pushed(task)

\* Variant: a module without requirements sends none.
RequirementsIfAny == ~moduleState.moduleReady /\ (Modules # {} \/ RequireRoutes)

SendsRequirements == ~moduleState.moduleReady

(* <-remoteConfigAppliedCh: the requirements go out by a goroutine.        *)
SelectApplied ==
  /\ pc = "select"
  /\ remoteConfigAppliedCh
  /\ pc' = "top"
  /\ remoteConfigAppliedCh' = FALSE
  /\ moduleState' = [moduleState EXCEPT !.remoteConfigReady = TRUE]
  /\ \/ /\ SendsRequirements
        /\ reqs' = reqs + 1
        /\ senders' = senders \cup Spawn("requirements", reqs + 1)
     \/ /\ ~SendsRequirements
        /\ UNCHANGED <<reqs, senders>>
  /\ UNCHANGED <<client, epoch, initChan, task, applier, applying,
                 remoteConfigsCh, live, readyVars, declares, netVars,
                 shutdown>>

ReceiveRoutes(c) ==
  /\ pc = "select"
  /\ RequireRoutes
  /\ \E i \in InHandler(c) :
       /\ Received(c, i)
       /\ inbox[c][i].kind = "routes"
  /\ \E handled \in BOOLEAN :
       moduleState' = [moduleState EXCEPT !.routesReady = handled]
  /\ UNCHANGED <<client, epoch, initChan, task, applierVars, senderVars, conn,
                 sent, heard, shutdown>>

\* Variant: the conditions are not looked at again after routes arrived.
SelectRoutesNoRecheck(c) == ReceiveRoutes(c) /\ UNCHANGED pc

SelectRoutes(c) == ReceiveRoutes(c) /\ pc' = "top"

\* Variant: one connected module is enough.
AnyConnected(connected) == connected # {}

AllRequired(connected) == MustConnect \subseteq connected

(* The consumer may fail to connect; one success is enough until the next  *)
(* disconnection from the config service.                                  *)
ConnectedNow(m, established) ==
  moduleState.currentConnectedModules \cup (IF established THEN {m} ELSE {})

WithConnected(connected) ==
  [moduleState EXCEPT !.currentConnectedModules = connected,
                      !.requiredModulesReady    = AllRequired(connected)]

(* <-b.connectEventChan: the address list of a required module.            *)
SelectConnect(c) ==
  /\ pc = "select"
  /\ \E i \in InHandler(c), established \in BOOLEAN :
       /\ Received(c, i)
       /\ inbox[c][i].kind = "module"
       /\ moduleState' = WithConnected(ConnectedNow(inbox[c][i].val, established))
  /\ pc' = "top"
  /\ UNCHANGED <<client, epoch, initChan, task, applierVars, senderVars, conn,
                 sent, heard, shutdown>>

(* <-initChan: onModuleReady runs in main, then MODULE:READY is sent by a  *)
(* goroutine. A callback that calls DeclareRoutes sends from main itself   *)
(* and waits for main to receive the outcome.                              *)
SelectInit ==
  /\ pc = "select"
  /\ initChan = 1
  /\ initChan' = 0
  /\ readyCalls' = readyCalls + 1
  /\ readyHere' = readyHere + 1
  /\ \/ /\ senders' = senders \cup Spawn("ready", readyCalls + 1)
        /\ pc' = "top"
        /\ UNCHANGED declares
     \/ /\ "main" \in Declarers
        /\ declares < MaxDeclares
        /\ declares' = declares + 1
        /\ senders' = senders \cup Spawn("updateMain", declares + 1)
        /\ pc' = "declaring"
  /\ UNCHANGED <<moduleState, client, epoch, task, applierVars, carried, reqs,
                 netVars, shutdown>>

PingFails == conn[client] = "hung"

(* <-heartbeatCh.C: an unanswered ping makes the client drop the           *)
(* connection.                                                             *)
SelectHeartbeat ==
  /\ pc = "select"
  /\ conn' = IF PingFails THEN Closed(client) ELSE conn
  /\ pc' = "top"
  /\ UNCHANGED <<mainData, applierVars, senderVars, netData, shutdown>>

ReceiveAck(s) ==
  /\ pc = "select"
  /\ s.stage \in Outcomes
  /\ senders' = senders \ {s}
  /\ moduleState' = [moduleState EXCEPT !.requiredSendReady =
                       @ \/ (s.stage = "acked" /\ s.kind = "requirements")]
  /\ applier' = IF s.kind = "updateApplier" THEN "declared" ELSE applier
  /\ UNCHANGED <<client, epoch, initChan, task, applying, remoteConfigsCh,
                 remoteConfigAppliedCh, live, counters, netData, shutdown>>

\* Variant: after an error main connects again without closing the client.
SelectAckRedials(s) ==
  /\ ReceiveAck(s)
  /\ pc' = IF s.stage = "failed" THEN "wait" ELSE "top"
  /\ UNCHANGED conn

\* Variant: outcomes are received only from a module that is ready.
SelectAckWhenReady(s) ==
  /\ moduleState.moduleReady
  /\ ReceiveAck(s)
  /\ conn' = IF s.stage = "failed" THEN Closed(client) ELSE conn
  /\ pc' = "top"

\* Variant: an error is only logged.
SelectAckOnlyLogs(s) == ReceiveAck(s) /\ pc' = "top" /\ UNCHANGED conn

(* <-b.ackEventChan: an error that is not a CloseError closes b.client.    *)
SelectAck(s) ==
  /\ ReceiveAck(s)
  /\ conn' = IF s.stage = "failed" THEN Closed(client) ELSE conn
  /\ pc' = "top"

(* <-b.disconnectChan: OnDisconnect of connection c.                       *)
SelectDisconnect(c) ==
  /\ pc = "select"
  /\ conn[c] = "down"
  /\ conn' = [conn EXCEPT ![c] = "reported"]
  /\ moduleState' = initialState
  /\ pc' = "wait"
  /\ UNCHANGED <<client, epoch, initChan, task, applierVars, senderVars,
                 netData, shutdown>>

(* The pause before the next dial.                                         *)
WaitReconnect ==
  /\ pc = "wait"
  /\ \/ pc' = "dial"
     \/ /\ CtxDone
        /\ pc' = "returned"
  /\ UNCHANGED <<mainData, notMain>>

SelectDone ==
  /\ pc = "select"
  /\ CtxDone
  /\ pc' = "returned"
  /\ UNCHANGED <<mainData, notMain>>

-----------------------------------------------------------------------------
(* The applier.                                                            *)

ApplierTake ==
  /\ applier = "idle"
  /\ remoteConfigsCh # NoTask
  /\ applying' = remoteConfigsCh
  /\ remoteConfigsCh' = NoTask
  /\ applier' = "callback"
  /\ UNCHANGED <<mainVars, remoteConfigAppliedCh, live, senderVars, netVars,
                 shutdown>>

(* onRemoteConfigReceive calls DeclareRoutes.                              *)
ApplierDeclares ==
  /\ applier = "callback"
  /\ "applier" \in Declarers
  /\ declares < MaxDeclares
  /\ declares' = declares + 1
  /\ senders' = senders \cup Spawn("updateApplier", declares + 1)
  /\ applier' = "declaring"
  /\ UNCHANGED <<mainVars, applying, remoteConfigsCh, remoteConfigAppliedCh,
                 live, readyVars, reqs, netVars, shutdown>>

(* The callback returned: the configuration becomes the live one; the      *)
(* signal to main is dropped when one is already waiting.                  *)
ApplierApply ==
  /\ applier \in {"callback", "declared"}
  /\ live' = applying
  /\ applying' = NoTask
  /\ remoteConfigAppliedCh' = TRUE
  /\ applier' = "idle"
  /\ UNCHANGED <<mainVars, remoteConfigsCh, senderVars, netVars, shutdown>>

ApplierExit ==
  /\ applier = "idle"
  /\ CtxDone
  /\ applier' = "exited"
  /\ UNCHANGED <<mainVars, applying, remoteConfigsCh, remoteConfigAppliedCh,
                 live, senderVars, netVars, shutdown>>

-----------------------------------------------------------------------------
(* Senders: ackEvent.                                                      *)

Advance(s, t) == senders' = (senders \ {s}) \cup {t}

Ends(s, stage) ==
  /\ Advance(s, [s EXCEPT !.stage = stage])
  /\ UNCHANGED <<mainVars, applierVars, counters, netVars, shutdown>>

(* DeclareRoutes called by a goroutine of the user.                        *)
UserDeclares ==
  /\ "user" \in Declarers
  /\ client # 0
  /\ declares < MaxDeclares
  /\ declares' = declares + 1
  /\ senders' = senders \cup Spawn("updateUser", declares + 1)
  /\ UNCHANGED <<mainVars, applierVars, readyVars, reqs, netVars, shutdown>>

(* The goroutine evaluates b.client, whichever client that now is.         *)
SenderStart(s) ==
  /\ s.stage = "spawned"
  /\ Advance(s, [s EXCEPT !.client = client, !.stage = "emitting"])
  /\ UNCHANGED <<mainVars, applierVars, counters, netVars, shutdown>>

(* The service receives the event.                                         *)
SenderReceived(s) ==
  /\ s.stage = "emitting"
  /\ conn[s.client] = "up"
  /\ Advance(s, [s EXCEPT !.stage = "received"])
  /\ heard' = [heard EXCEPT ![s.client] = @ \cup {s.kind}]
  /\ UNCHANGED <<mainVars, applierVars, counters, conn, inbox, sent, shutdown>>

(* The service answers "ok".                                               *)
SenderAcked(s) ==
  /\ s.stage = "received"
  /\ conn[s.client] = "up"
  /\ Ends(s, "acked")

(* The retries are used up: the service refused or did not answer, or the  *)
(* connection broke without a close frame.                                 *)
SenderFails(s) ==
  /\ s.stage \in {"emitting", "received"}
  /\ conn[s.client] # "up" \/ "refuse" \in Faults
  /\ Ends(s, "failed")

(* EmitWithAck returned a websocket.CloseError: no retry.                  *)
SenderClosed(s) ==
  /\ s.stage \in {"emitting", "received"}
  /\ ~Live(s.client)
  /\ Ends(s, "closed")

-----------------------------------------------------------------------------
(* Environment: config service and network.                                *)

Deliver(c, e) ==
  /\ conn[c] = "up"
  /\ Len(inbox[c]) < InboxCap
  /\ inbox' = [inbox EXCEPT ![c] = Append(@, e)]
  /\ UNCHANGED <<mainVars, applierVars, senderVars, conn, heard, shutdown>>

ServiceSendsConfig(c) ==
  /\ sent < MaxConfigs
  /\ sent' = sent + 1
  /\ Deliver(c, [kind |-> "config", val |-> sent + 1])

ServiceSendsBadConfig(c) ==
  /\ "badConfig" \in Faults
  /\ Deliver(c, [kind |-> "badConfig", val |-> 0])
  /\ UNCHANGED sent

ServiceSendsRoutes(c) ==
  /\ RequireRoutes
  /\ Deliver(c, [kind |-> "routes", val |-> 0])
  /\ UNCHANGED sent

ServiceSendsModule(c, m) ==
  /\ Deliver(c, [kind |-> "module", val |-> m])
  /\ UNCHANGED sent

(* The connection breaks, or is closed because its context is done.        *)
Drop(c) ==
  /\ Live(c)
  /\ "drop" \in Faults \/ CtxDone
  /\ conn' = Closed(c)
  /\ UNCHANGED <<mainVars, applierVars, senderVars, netData, shutdown>>

(* The peer stops answering, the socket stays open.                        *)
Hang(c) ==
  /\ conn[c] = "up"
  /\ "hang" \in Faults
  /\ conn' = [conn EXCEPT ![c] = "hung"]
  /\ UNCHANGED <<mainVars, applierVars, senderVars, netData, shutdown>>

-----------------------------------------------------------------------------
(* onRunnerShutdown, after a signal or after run returned.                 *)

ShutdownCancels ==
  /\ shutdown = "idle"
  /\ "signal" \in Faults \/ pc \in {"returned", "failed"}
  /\ shutdown' = "cancelled"
  /\ UNCHANGED <<mainVars, applierVars, senderVars, netVars>>

ShutdownCloses ==
  /\ shutdown = "cancelled"
  /\ conn' = Closed(client)
  /\ shutdown' = "closed"
  /\ UNCHANGED <<mainVars, applierVars, senderVars, netData>>

-----------------------------------------------------------------------------

Main ==
  \/ DialSucceeds \/ DialFails \/ DialCancelled \/ AssignClient
  \/ LoopTop \/ PushInit \/ PushConfig \/ WaitReconnect
  \/ SelectApplied \/ SelectInit \/ SelectHeartbeat \/ SelectDone
  \/ \E c \in Conns : \/ SelectConfig(c) \/ SelectRoutes(c)
                      \/ SelectConnect(c) \/ SelectDisconnect(c)
  \/ \E s \in senders : SelectAck(s)

Applier == ApplierTake \/ ApplierDeclares \/ ApplierApply \/ ApplierExit

Senders ==
  \/ UserDeclares
  \/ \E s \in senders : \/ SenderStart(s) \/ SenderReceived(s) \/ SenderAcked(s)
                        \/ SenderFails(s) \/ SenderClosed(s)

Service ==
  \E c \in Conns :
    \/ ServiceSendsConfig(c) \/ ServiceSendsBadConfig(c) \/ ServiceSendsRoutes(c)
    \/ \E m \in Modules : ServiceSendsModule(c, m)
    \/ Drop(c) \/ Hang(c)

Shutdown == ShutdownCancels \/ ShutdownCloses

Next == Main \/ Applier \/ Senders \/ Service \/ Shutdown

Spec == Init /\ [][Next]_vars

(* main and the applier get to run; a Go select takes a uniformly random   *)
(* ready case, hence strong fairness for a case of the loop; an emission   *)
(* comes to its outcome, as the service answers or the retries run out.    *)
GoroutinesRun ==
  /\ WF_vars(AssignClient) /\ WF_vars(LoopTop) /\ WF_vars(PushInit) /\ WF_vars(PushConfig)
  /\ WF_vars(ApplierTake) /\ WF_vars(ApplierApply)
  /\ WF_vars(Senders)
  /\ SF_vars(\E s \in senders : SelectAck(s))

(* The cases that end a connection or run. Nothing is assumed of the       *)
(* service or of the connection.                                           *)
LoopSpec ==
  /\ Spec /\ GoroutinesRun
  /\ WF_vars(DialCancelled) /\ WF_vars(WaitReconnect)
  /\ SF_vars(SelectDone) /\ SF_vars(SelectHeartbeat)
  /\ \A c \in Conns : SF_vars(SelectDisconnect(c))

(* The cases of the handshake, with a service that is reachable and        *)
(* delivers its configurations; the connection's reader and the handler    *)
(* worker get to run.                                                      *)
FairSpec ==
  /\ Spec /\ GoroutinesRun
  /\ WF_vars(DialSucceeds)
  /\ SF_vars(SelectApplied) /\ SF_vars(SelectInit)
  /\ \A c \in Conns : /\ SF_vars(SelectConfig(c))
                      /\ WF_vars(ServiceSendsConfig(c))

-----------------------------------------------------------------------------
(* Properties.                                                             *)

(* Every variable has its type; in particular no channel holds more than   *)
(* its capacity and no client more events than its worker and buffer take. *)
TypeOK ==
  /\ pc \in {"dial", "dialed", "top", "pushInit", "select", "pushConfig",
             "declaring", "wait", "returned", "failed"}
  /\ moduleState \in ModuleState
  /\ epoch \in 0..MaxConns
  /\ client \in 0..epoch
  /\ initChan \in 0..1
  /\ {task, applying, remoteConfigsCh, live} \subseteq Task
  /\ applier \in {"idle", "callback", "declaring", "declared", "exited"}
  /\ remoteConfigAppliedCh \in BOOLEAN
  /\ senders \subseteq Sender
  /\ {readyCalls, readyHere, reqs, declares, sent} \subseteq Nat
  /\ carried \in 0..1
  /\ conn \in [Conns -> {"none", "up", "hung", "down", "reported"}]
  /\ inbox \in [Conns -> Seq(Event)]
  /\ \A c \in Conns : Len(inbox[c]) <= InboxCap
  /\ heard \in [Conns -> SUBSET Kinds]
  /\ shutdown \in {"idle", "cancelled", "closed"}

(* The runner never holds two live websocket connections, however acks,    *)
(* heartbeats and disconnections interleave: only the newest can be live.  *)
OneLiveConnection == \A c \in Conns : Live(c) => c = epoch

(* However often the conditions come and go, a connection starts at most   *)
(* one MODULE:READY of its own; to it may come the one whose signal an     *)
(* earlier connection left in initChan, never a second, and over all       *)
(* connections there are no more than connections.                         *)
Pending == initChan + (IF pc = "pushInit" THEN 1 ELSE 0)
ReadyOncePerConnection ==
  /\ readyHere + Pending <= 1 + carried
  /\ readyCalls + Pending <= epoch

(* The flag that gates MODULE:READY agrees with the modules connected      *)
(* since the last disconnection: it is set exactly when every mustConnect  *)
(* module is among them, also right after a reset.                         *)
RequiredModulesGate ==
  moduleState.requiredModulesReady
    <=> MustConnect \subseteq moduleState.currentConnectedModules

(* The loop never goes to sleep in its select with all conditions true and *)
(* the module not announced, whichever event made the last one true.       *)
NoMissedReady == pc = "select" /\ AllConditions => moduleState.moduleReady

(* Configurations that came on one connection become live in the order in  *)
(* which the service sent them.                                            *)
ConfigsAppliedInOrder ==
  [][live'.conn = live.conn => live'.ver >= live.ver]_live

(* On the first connection the service hears the requirements before       *)
(* MODULE:READY, and hears neither before a configuration is live.         *)
FirstHandshakeInOrder ==
  \A c \in Conns :
    /\ heard[c] \cap {"requirements", "ready"} # {} => live # NoTask
    /\ c = 1 /\ "ready" \in heard[c] => "requirements" \in heard[c]

Ended == pc \in {"returned", "failed"}

(* With a service that sends a configuration and acknowledges, the module  *)
(* gets to send MODULE:READY.                                              *)
EventuallyReady == <>(\E c \in Conns : "ready" \in heard[c])

(* The newest configuration becomes the live one; none is dropped when     *)
(* they arrive faster than the callback applies them.                      *)
NewestConfigApplied == <>(live.ver = MaxConfigs)

(* A sender whose retries failed on the first connection makes the runner  *)
(* leave that connection to start again, unless it is being shut down.     *)
RefusalReconnects ==
  (\E s \in senders : s.stage = "failed" /\ s.client = 1)
    ~> (conn[1] = "reported" \/ CtxDone \/ Ended)

(* A peer that went silent is noticed by the heartbeat even when nothing   *)
(* is being sent, and main learns of it unless it is being shut down or    *)
(* an invalid configuration has already ended it.                          *)
HungPeerDetected == conn[1] = "hung" ~> (conn[1] = "reported" \/ CtxDone \/ Ended)

(* A connection that is of no use any more is left, whether the service    *)
(* refuses on it or has gone silent.                                       *)
LossNoticed == RefusalReconnects /\ HungPeerDetected

(* The sends from which main cannot come back: of a configuration to an    *)
(* applier that left with the channel full, and of a second signal to      *)
(* initChan, which only main receives from.                                *)
SendStuck ==
  \/ pc = "pushConfig" /\ remoteConfigsCh # NoTask /\ applier = "exited"
  \/ pc = "pushInit" /\ initChan = InitChanCap


(* A call of DeclareRoutes returns, whoever makes it and however fast      *)
(* configurations arrive.                                                  *)
DeclareRoutesReturns ==
  (\E s \in senders : s.kind \in Updates) ~> (\A s \in senders : s.kind \notin Updates)

(* MODULE:READY is started only in a state in which the conditions hold.   *)
ReadyOnlyWhenConditionsHold == [][SelectInit => AllConditions]_vars

=============================================================================
