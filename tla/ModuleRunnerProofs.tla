------------------------- MODULE ModuleRunnerProofs -------------------------
(***************************************************************************)
(* Proofs about ModuleRunner, for every set of required modules, every     *)
(* combination of faults and callers, and any number of connections,       *)
(* configurations and DeclareRoutes calls.                                 *)
(***************************************************************************)
EXTENDS ModuleRunner, SequenceTheorems, TLAPS

-----------------------------------------------------------------------------
(* Removing the event a handler worker has handed over.                    *)

(* With a single handler worker per client, the event main receives is the *)
(* oldest one and the others keep their order.                             *)
LEMMA ReceivedHead ==
  ASSUME inbox \in [Conns -> Seq(Event)],
         NEW c \in Conns, NEW i \in InHandler(c), Received(c, i)
  PROVE  /\ inbox[c] # <<>>
         /\ i = 1
         /\ inbox[c][i] \in Event
         /\ inbox' = [inbox EXCEPT ![c] = Tail(inbox[c])]
<1>. DEFINE s == inbox[c]
<1>1. s \in Seq(Event)
  OBVIOUS
<1>2. i \in DOMAIN s /\ i <= 1
  BY DEF InHandler, WorkersNum
<1>3. s # <<>> /\ i = 1 /\ s[i] \in Event
  BY <1>1, <1>2
<1>4. SubSeq(s, 1, 0) = <<>>
  BY <1>1
<1>5. SubSeq(s, 2, Len(s)) = Tail(s)
  BY <1>1, <1>3
<1>6. RemoveAt(s, i) = <<>> \o Tail(s)
  BY <1>3, <1>4, <1>5 DEF RemoveAt
<1>7. Tail(s) \in Seq(Event)
  BY <1>1, <1>3
<1>8. <<>> \o Tail(s) = Tail(s)
  BY <1>7, ConcatEmptySeq
<1>. QED
  BY <1>3, <1>6, <1>8 DEF Received

(* The inboxes keep their type when main receives an event.                *)
LEMMA ReceivedType ==
  ASSUME TypeOK, NEW c \in Conns, NEW i \in InHandler(c), Received(c, i)
  PROVE  /\ inbox' \in [Conns -> Seq(Event)]
         /\ \A d \in Conns : Len(inbox'[d]) <= InboxCap
         /\ inbox[c][i] \in Event
<1>1. /\ inbox \in [Conns -> Seq(Event)]
      /\ \A d \in Conns : Len(inbox[d]) <= InboxCap
  BY DEF TypeOK
<1>2. /\ inbox[c] # <<>>
      /\ inbox[c][i] \in Event
      /\ inbox' = [inbox EXCEPT ![c] = Tail(inbox[c])]
  BY <1>1, ReceivedHead
<1>3. /\ Tail(inbox[c]) \in Seq(Event)
      /\ Len(Tail(inbox[c])) = Len(inbox[c]) - 1
  BY <1>1, <1>2
<1>4. InboxCap \in Nat
  BY DEF InboxCap, WorkersNum, WorkersBufferMultiplier
<1>5. ASSUME NEW d \in Conns
      PROVE  Len(inbox'[d]) <= InboxCap
  BY <1>1, <1>2, <1>3, <1>4
<1>. QED
  BY <1>1, <1>2, <1>3, <1>5

-----------------------------------------------------------------------------
(* Type correctness.                                                       *)

(* initialState is a well-formed module state.                             *)
LEMMA InitialStateType == initialState \in ModuleState
BY ConstantsAssumption DEF initialState, ModuleState

(* A new sender has the type of a sender.                                  *)
LEMMA SpawnType ==
  ASSUME NEW kind \in Kinds, NEW n \in Nat
  PROVE  Spawn(kind, n) \subseteq Sender
BY DEF Spawn, Sender, Stages

(* Closing a connection keeps the table of connections well-formed.        *)
LEMMA ClosedType ==
  ASSUME conn \in [Conns -> {"none", "up", "hung", "down", "reported"}], NEW c
  PROVE  Closed(c) \in [Conns -> {"none", "up", "hung", "down", "reported"}]
BY DEF Closed

(* The module state after the address list of a required module.           *)
LEMMA WithConnectedType ==
  ASSUME moduleState \in ModuleState, NEW connected \in SUBSET Modules
  PROVE  WithConnected(connected) \in ModuleState
<1>1. ASSUME NEW m \in ModuleState, NEW b \in BOOLEAN
      PROVE  [m EXCEPT !.currentConnectedModules = connected,
                       !.requiredModulesReady    = b] \in ModuleState
  BY DEF ModuleState
<1>2. AllRequired(connected) \in BOOLEAN
  BY DEF AllRequired
<1>. QED
  BY <1>1, <1>2, Zenon DEF WithConnected

(* Every step of main keeps TypeOK.                                        *)
LEMMA MainType == TypeOK /\ Main => TypeOK'
<1>. SUFFICES ASSUME TypeOK, Main PROVE TypeOK'
  OBVIOUS
<1>. USE ConstantsAssumption, InitialStateType
     DEF TypeOK, mainVars, mainData, notMain, applierVars, senderVars, counters, readyVars,
         netVars, netData
<1>1. CASE DialSucceeds
  BY <1>1 DEF DialSucceeds, Conns
<1>2. CASE DialFails
  BY <1>2 DEF DialFails, vars
<1>3. CASE DialCancelled
  BY <1>3 DEF DialCancelled, ReturnsFromDial
<1>4. CASE AssignClient
  <2>1. Spawn("schema", epoch) \subseteq Sender
    BY SpawnType DEF Kinds
  <2>. QED  BY <1>4, <2>1 DEF AssignClient
<1>5. CASE LoopTop
  BY <1>5 DEF LoopTop, ModuleState
<1>6. CASE PushInit
  BY <1>6 DEF PushInit, InitChanCap
<1>7. CASE PushConfig
  BY <1>7 DEF PushConfig, Pushed, NoTask, Task
<1>8. CASE WaitReconnect
  BY <1>8 DEF WaitReconnect
<1>9. CASE SelectApplied
  <2>1. Spawn("requirements", reqs + 1) \subseteq Sender
    BY SpawnType DEF Kinds
  <2>2. moduleState' \in ModuleState
    BY <1>9 DEF SelectApplied, ModuleState
  <2>3. reqs' \in Nat /\ senders' \subseteq Sender
    BY <1>9, <2>1 DEF SelectApplied
  <2>. QED  BY <1>9, <2>2, <2>3 DEF SelectApplied
<1>10. CASE SelectInit
  <2>1. /\ Spawn("ready", readyCalls + 1) \subseteq Sender
        /\ Spawn("updateMain", declares + 1) \subseteq Sender
    BY SpawnType DEF Kinds, Updates
  <2>. QED  BY <1>10, <2>1 DEF SelectInit
<1>11. CASE SelectHeartbeat
  BY <1>11, ClosedType DEF SelectHeartbeat
<1>12. CASE SelectDone
  BY <1>12 DEF SelectDone
<1>13. ASSUME NEW c \in Conns, SelectConfig(c)
       PROVE  TypeOK'
  <2>. PICK i \in InHandler(c) : SelectConfig(c)!2!(i)
    BY <1>13 DEF SelectConfig
  <2>1. /\ inbox' \in [Conns -> Seq(Event)]
        /\ \A d \in Conns : Len(inbox'[d]) <= InboxCap
        /\ inbox[c][i] \in Event
    BY ReceivedType
  <2>2. inbox[c][i].kind = "config" => inbox[c][i].val \in Nat
    BY <2>1 DEF Event
  <2>3. c \in Nat
    BY DEF Conns
  <2>4. task \in Task
    OBVIOUS
  <2>5. inbox[c][i].kind = "config" => [conn |-> c, ver |-> inbox[c][i].val] \in Task
    BY <2>2, <2>3 DEF Task
  <2>6. task' \in Task /\ pc' \in {"pushConfig", "failed"}
    BY <2>4, <2>5
  <2>. QED  BY <1>13, <2>1, <2>6 DEF SelectConfig
<1>14. ASSUME NEW c \in Conns, SelectRoutes(c)
       PROVE  TypeOK'
  <2>. PICK i \in InHandler(c) : Received(c, i)
    BY <1>14 DEF SelectRoutes, ReceiveRoutes
  <2>1. /\ inbox' \in [Conns -> Seq(Event)]
        /\ \A d \in Conns : Len(inbox'[d]) <= InboxCap
    BY ReceivedType
  <2>. QED  BY <1>14, <2>1 DEF SelectRoutes, ReceiveRoutes, ModuleState
<1>15. ASSUME NEW c \in Conns, SelectConnect(c)
       PROVE  TypeOK'
  <2>. PICK i \in InHandler(c), established \in BOOLEAN :
         SelectConnect(c)!2!(i, established)
    BY <1>15 DEF SelectConnect
  <2>. DEFINE connected == ConnectedNow(inbox[c][i].val, established)
  <2>1. /\ inbox' \in [Conns -> Seq(Event)]
        /\ \A d \in Conns : Len(inbox'[d]) <= InboxCap
        /\ inbox[c][i] \in Event
    BY ReceivedType
  <2>2. inbox[c][i].val \in Modules
    BY <2>1 DEF Event
  <2>3. connected \subseteq Modules
    BY <2>2 DEF ConnectedNow, ModuleState
  <2>4. moduleState' \in ModuleState
    BY <2>3, WithConnectedType
  <2>. QED  BY <1>15, <2>1, <2>4 DEF SelectConnect
<1>16. ASSUME NEW c \in Conns, SelectDisconnect(c)
       PROVE  TypeOK'
  BY <1>16 DEF SelectDisconnect
<1>17. ASSUME NEW s \in senders, SelectAck(s)
       PROVE  TypeOK'
  <2>1. moduleState' \in ModuleState
    BY <1>17 DEF SelectAck, ReceiveAck, ModuleState
  <2>. QED  BY <1>17, <2>1, ClosedType DEF SelectAck, ReceiveAck
<1>. QED
  BY <1>1, <1>2, <1>3, <1>4, <1>5, <1>6, <1>7, <1>8, <1>9, <1>10, <1>11,
     <1>12, <1>13, <1>14, <1>15, <1>16, <1>17 DEF Main

(* Every step of the applier keeps TypeOK.                                 *)
LEMMA ApplierType == TypeOK /\ Applier => TypeOK'
<1>. SUFFICES ASSUME TypeOK, Applier PROVE TypeOK'
  OBVIOUS
<1>. USE DEF TypeOK, mainVars, mainData, notMain, applierVars, senderVars, counters, readyVars,
         netVars, netData
<1>1. CASE ApplierTake
  BY <1>1 DEF ApplierTake, Task, NoTask
<1>2. CASE ApplierDeclares
  <2>1. Spawn("updateApplier", declares + 1) \subseteq Sender
    BY SpawnType DEF Kinds, Updates
  <2>. QED  BY <1>2, <2>1 DEF ApplierDeclares
<1>3. CASE ApplierApply
  BY <1>3 DEF ApplierApply, Task, NoTask
<1>4. CASE ApplierExit
  BY <1>4 DEF ApplierExit
<1>. QED
  BY <1>1, <1>2, <1>3, <1>4 DEF Applier

(* Every step of a goroutine that emits an event keeps TypeOK.             *)
LEMMA SendersType == TypeOK /\ Senders => TypeOK'
<1>. SUFFICES ASSUME TypeOK, Senders PROVE TypeOK'
  OBVIOUS
<1>. USE DEF TypeOK, mainVars, mainData, notMain, applierVars, senderVars, counters, readyVars,
         netVars, netData
<1>1. CASE UserDeclares
  <2>1. Spawn("updateUser", declares + 1) \subseteq Sender
    BY SpawnType DEF Kinds, Updates
  <2>. QED  BY <1>1, <2>1 DEF UserDeclares
<1>2. ASSUME NEW s \in senders, SenderStart(s)
      PROVE  TypeOK'
  <2>1. ASSUME NEW t \in Sender, NEW c \in Nat
        PROVE  [t EXCEPT !.client = c, !.stage = "emitting"] \in Sender
    BY DEF Sender, Stages
  <2>2. s \in Sender /\ client \in Nat
    OBVIOUS
  <2>3. [s EXCEPT !.client = client, !.stage = "emitting"] \in Sender
    BY <2>1, <2>2, Zenon
  <2>. QED  BY <1>2, <2>3, Zenon DEF SenderStart, Advance
<1>3. ASSUME NEW s \in senders, SenderReceived(s)
      PROVE  TypeOK'
  <2>1. [s EXCEPT !.stage = "received"] \in Sender /\ s.kind \in Kinds
    BY DEF Sender, Stages
  <2>. QED  BY <1>3, <2>1 DEF SenderReceived, Advance
<1>4. ASSUME NEW s \in senders, NEW stage \in Outcomes, Ends(s, stage)
      PROVE  TypeOK'
  <2>1. [s EXCEPT !.stage = stage] \in Sender
    BY DEF Sender, Stages
  <2>. QED  BY <1>4, <2>1 DEF Ends, Advance
<1>5. ASSUME NEW s \in senders, SenderAcked(s)
      PROVE  TypeOK'
  BY <1>4, <1>5 DEF SenderAcked, Outcomes
<1>6. ASSUME NEW s \in senders, SenderFails(s)
      PROVE  TypeOK'
  BY <1>4, <1>6 DEF SenderFails, Outcomes
<1>7. ASSUME NEW s \in senders, SenderClosed(s)
      PROVE  TypeOK'
  BY <1>4, <1>7 DEF SenderClosed, Outcomes
<1>. QED
  BY <1>1, <1>2, <1>3, <1>5, <1>6, <1>7 DEF Senders

(* Every step of the service and of the network keeps TypeOK.              *)
LEMMA ServiceType == TypeOK /\ Service => TypeOK'
<1>. SUFFICES ASSUME TypeOK, NEW c \in Conns,
                     \/ ServiceSendsConfig(c) \/ ServiceSendsBadConfig(c)
                     \/ ServiceSendsRoutes(c)
                     \/ \E m \in Modules : ServiceSendsModule(c, m)
                     \/ Drop(c) \/ Hang(c)
              PROVE  TypeOK'
  BY DEF Service
<1>. USE DEF TypeOK, mainVars, mainData, notMain, applierVars, senderVars, counters, readyVars,
         netVars, netData
<1>1. ASSUME NEW e \in Event, Deliver(c, e), sent' \in Nat
      PROVE  TypeOK'
  <2>1. InboxCap \in Nat
    BY DEF InboxCap, WorkersNum, WorkersBufferMultiplier
  <2>2. /\ Append(inbox[c], e) \in Seq(Event)
        /\ Len(Append(inbox[c], e)) = Len(inbox[c]) + 1
    OBVIOUS
  <2>3. Len(Append(inbox[c], e)) <= InboxCap
    BY <1>1, <2>1, <2>2 DEF Deliver
  <2>4. \A d \in Conns : Len(inbox'[d]) <= InboxCap
    BY <1>1, <2>3 DEF Deliver
  <2>. QED  BY <1>1, <2>2, <2>4 DEF Deliver
<1>2. CASE ServiceSendsConfig(c)
  <2>1. [kind |-> "config", val |-> sent + 1] \in Event
    BY DEF Event
  <2>. QED  BY <1>1, <1>2, <2>1 DEF ServiceSendsConfig
<1>3. CASE ServiceSendsBadConfig(c)
  <2>1. [kind |-> "badConfig", val |-> 0] \in Event
    BY DEF Event
  <2>. QED  BY <1>1, <1>3, <2>1 DEF ServiceSendsBadConfig
<1>4. CASE ServiceSendsRoutes(c)
  <2>1. [kind |-> "routes", val |-> 0] \in Event
    BY DEF Event
  <2>. QED  BY <1>1, <1>4, <2>1 DEF ServiceSendsRoutes
<1>5. ASSUME NEW m \in Modules, ServiceSendsModule(c, m)
      PROVE  TypeOK'
  <2>1. [kind |-> "module", val |-> m] \in Event
    BY DEF Event
  <2>. QED  BY <1>1, <1>5, <2>1 DEF ServiceSendsModule
<1>6. CASE Drop(c)
  BY <1>6, ClosedType DEF Drop
<1>7. CASE Hang(c)
  BY <1>7 DEF Hang
<1>. QED
  BY <1>2, <1>3, <1>4, <1>5, <1>6, <1>7

(* Every step of the shutdown keeps TypeOK.                                *)
LEMMA ShutdownType == TypeOK /\ Shutdown => TypeOK'
<1>. SUFFICES ASSUME TypeOK, Shutdown PROVE TypeOK'
  OBVIOUS
<1>. USE DEF TypeOK, mainVars, mainData, notMain, applierVars, senderVars, counters, readyVars,
         netVars, netData
<1>1. CASE ShutdownCancels
  BY <1>1 DEF ShutdownCancels
<1>2. CASE ShutdownCloses
  BY <1>2, ClosedType DEF ShutdownCloses
<1>. QED
  BY <1>1, <1>2 DEF Shutdown

(* Every step of the system keeps TypeOK.                                  *)
LEMMA NextType == TypeOK /\ [Next]_vars => TypeOK'
<1>. SUFFICES ASSUME TypeOK, [Next]_vars PROVE TypeOK'
  OBVIOUS
<1>1. CASE Next
  BY <1>1, MainType, ApplierType, SendersType, ServiceType, ShutdownType DEF Next
<1>2. CASE UNCHANGED vars
  BY <1>2 DEF TypeOK, vars, mainVars, mainData, notMain, applierVars, senderVars,
               counters, readyVars, netVars, netData
<1>. QED
  BY <1>1, <1>2

(* Type correctness, with the channels within their capacities, for every  *)
(* value of the constants.                                                 *)
THEOREM TypeCorrect == Spec => []TypeOK
<1>1. Init => TypeOK
  <2>. SUFFICES ASSUME Init PROVE TypeOK
    OBVIOUS
  <2>1. NoTask \in Task
    BY DEF NoTask, Task
  <2>2. InboxCap \in Nat
    BY DEF InboxCap, WorkersNum, WorkersBufferMultiplier
  <2>3. <<>> \in Seq(Event) /\ Len(<<>>) <= InboxCap
    BY <2>2
  <2>4. /\ inbox \in [Conns -> Seq(Event)]
        /\ \A c \in Conns : Len(inbox[c]) <= InboxCap
    BY <2>3, Zenon DEF Init
  <2>5. /\ conn \in [Conns -> {"none", "up", "hung", "down", "reported"}]
        /\ heard \in [Conns -> SUBSET Kinds]
    BY DEF Init
  <2>6. moduleState \in ModuleState /\ epoch \in 0..MaxConns
    BY ConstantsAssumption, InitialStateType DEF Init
  <2>7. /\ pc = "dial" /\ applier = "idle" /\ shutdown = "idle"
        /\ remoteConfigAppliedCh \in BOOLEAN
        /\ senders \subseteq Sender
    BY Zenon DEF Init
  <2>8. /\ client = 0 /\ epoch = 0 /\ initChan = 0
        /\ readyCalls = 0 /\ reqs = 0 /\ declares = 0 /\ sent = 0
        /\ readyHere = 0 /\ carried = 0
    BY Zenon DEF Init
  <2>9. {task, applying, remoteConfigsCh, live} \subseteq Task
    BY <2>1, Zenon DEF Init
  <2>. QED
    BY <2>4, <2>5, <2>6, <2>7, <2>8, <2>9 DEF TypeOK
<1>. QED
  BY <1>1, NextType, PTL DEF Spec
-----------------------------------------------------------------------------
(* One live connection.                                                    *)

(* The newest connection is over, and main has received its disconnection. *)
Idle == epoch = 0 \/ conn[epoch] = "reported"

(* Main dials only after the newest connection was reported; so the older  *)
(* ones were reported too, and the later ones do not exist yet.            *)
ConnectionInv ==
  /\ \A c \in Conns : c > epoch => conn[c] = "none"
  /\ \A c \in Conns : c < epoch => conn[c] = "reported"
  /\ pc \in {"dial", "wait"} => Idle
  /\ pc \in {"dialed", "top", "pushInit", "select", "pushConfig", "declaring"}
       => ~Idle

(* The applier and the senders touch neither main nor the connections.     *)
LEMMA ApplierFrame ==
  Applier => /\ mainVars' = mainVars
             /\ conn' = conn /\ inbox' = inbox /\ sent' = sent /\ heard' = heard
             /\ readyVars' = readyVars /\ reqs' = reqs
BY DEF Applier, ApplierTake, ApplierDeclares, ApplierApply, ApplierExit,
       senderVars, counters, netVars, netData

LEMMA SendersFrame ==
  Senders => /\ mainVars' = mainVars
             /\ applierVars' = applierVars
             /\ conn' = conn /\ inbox' = inbox /\ sent' = sent
             /\ readyVars' = readyVars /\ reqs' = reqs
<1>. USE DEF counters, netVars, netData
<1>1. CASE UserDeclares
  BY <1>1 DEF UserDeclares
<1>2. ASSUME NEW s \in senders, SenderStart(s) \/ SenderReceived(s)
      PROVE  UNCHANGED <<mainVars, applierVars, conn, inbox, sent, readyVars, reqs>>
  BY <1>2 DEF SenderStart, SenderReceived
<1>3. ASSUME NEW s \in senders, SenderAcked(s) \/ SenderFails(s) \/ SenderClosed(s)
      PROVE  UNCHANGED <<mainVars, applierVars, conn, inbox, sent, readyVars, reqs>>
  BY <1>3 DEF SenderAcked, SenderFails, SenderClosed, Ends
<1>. QED
  BY <1>1, <1>2, <1>3 DEF Senders

(* The service and the network touch only the connections and what is on   *)
(* its way; they close or silence live connections, nothing else.          *)
LEMMA ServiceFrame ==
  ASSUME TypeOK, Service
  PROVE  /\ mainVars' = mainVars
         /\ applierVars' = applierVars
         /\ senderVars' = senderVars
         /\ heard' = heard
         /\ \/ conn' = conn
            \/ \E c \in Conns, state \in {"hung", "down"} :
                 Live(c) /\ conn' = [conn EXCEPT ![c] = state]
<1>1. PICK c \in Conns :
        \/ ServiceSendsConfig(c) \/ ServiceSendsBadConfig(c)
        \/ ServiceSendsRoutes(c)
        \/ \E m \in Modules : ServiceSendsModule(c, m)
        \/ Drop(c) \/ Hang(c)
  BY DEF Service
<1>2. CASE Drop(c)
  BY <1>2 DEF Drop, Closed, netData, Conns
<1>3. CASE Hang(c)
  BY <1>3 DEF Hang, Live, netData
<1>4. CASE \E e : Deliver(c, e)
  BY <1>4 DEF Deliver
<1>. QED
  BY <1>1, <1>2, <1>3, <1>4 DEF ServiceSendsConfig, ServiceSendsBadConfig,
     ServiceSendsRoutes, ServiceSendsModule

(* Closing the client closes the newest connection or nothing.             *)
LEMMA ClosedClient ==
  ASSUME TypeOK, ConnectionInv
  PROVE  \/ Closed(client) = conn
         \/ /\ epoch \in Conns
            /\ Live(epoch)
            /\ Closed(client) = [conn EXCEPT ![epoch] = "down"]
<1>1. CASE client # 0 /\ Live(client)
  <2>1. client \in Conns /\ ~(client < epoch) /\ client <= epoch /\ epoch \in Conns
    BY <1>1, ConstantsAssumption DEF TypeOK, ConnectionInv, Live, Conns
  <2>2. client = epoch
    BY <2>1 DEF Conns
  <2>. QED  BY <1>1, <2>1, <2>2 DEF Closed
<1>2. CASE ~(client # 0 /\ Live(client))
  BY <1>2 DEF Closed
<1>. QED
  BY <1>1, <1>2

(* A live connection that is closed or falls silent is the newest one, and *)
(* is not reported by that.                                                *)
LEMMA LiveChange ==
  ASSUME TypeOK, ConnectionInv, UNCHANGED <<pc, epoch>>,
         NEW c \in Conns, NEW state \in {"hung", "down"}, Live(c),
         conn' = [conn EXCEPT ![c] = state]
  PROVE  c = epoch /\ (Idle' <=> Idle) /\ ConnectionInv'
BY DEF TypeOK, ConnectionInv, Idle, Live, Conns

LEMMA ConnectionStep == TypeOK /\ ConnectionInv /\ [Next]_vars => ConnectionInv'
<1>. SUFFICES ASSUME TypeOK, ConnectionInv, [Next]_vars PROVE ConnectionInv'
  OBVIOUS
<1>. USE DEF mainVars, mainData, notMain, netVars
<1>1. ASSUME UNCHANGED <<epoch, conn>>,
             \/ pc' = pc \/ pc' \in {"returned", "failed"}
             \/ /\ pc \in {"dialed", "top", "pushInit", "select", "pushConfig"}
                /\ pc' \in {"top", "pushInit", "select", "pushConfig", "declaring"}
             \/ pc = "wait" /\ pc' = "dial"
      PROVE  ConnectionInv'
  BY <1>1 DEF ConnectionInv, Idle
<1>2. CASE Main
  <2>1. CASE DialSucceeds
    BY <2>1, ConstantsAssumption DEF DialSucceeds, TypeOK, ConnectionInv, Idle, Conns
  <2>2. CASE DialFails
    BY <1>1, <2>2 DEF DialFails, vars
  <2>3. CASE \/ DialCancelled \/ AssignClient \/ LoopTop \/ PushInit
             \/ PushConfig \/ WaitReconnect \/ SelectApplied \/ SelectInit
             \/ SelectDone
    BY <1>1, <2>3 DEF DialCancelled, ReturnsFromDial, AssignClient, LoopTop,
       PushInit, PushConfig, Pushed, WaitReconnect, SelectApplied, SelectInit,
       SelectDone
  <2>4. ASSUME conn' = Closed(client), epoch' = epoch, pc = "select", pc' = "top"
        PROVE  ConnectionInv'
    BY <2>4, ClosedClient DEF TypeOK, ConnectionInv, Idle, Live, Conns
  <2>5. CASE SelectHeartbeat
    BY <1>1, <2>4, <2>5 DEF SelectHeartbeat
  <2>6. ASSUME NEW c \in Conns,
               SelectConfig(c) \/ SelectRoutes(c) \/ SelectConnect(c)
        PROVE  ConnectionInv'
    BY <1>1, <2>6 DEF SelectConfig, SelectRoutes, ReceiveRoutes, SelectConnect
  <2>7. ASSUME NEW c \in Conns, SelectDisconnect(c)
        PROVE  ConnectionInv'
    BY <2>7 DEF SelectDisconnect, TypeOK, ConnectionInv, Idle, Conns
  <2>8. ASSUME NEW s \in senders, SelectAck(s)
        PROVE  ConnectionInv'
    BY <1>1, <2>4, <2>8 DEF SelectAck, ReceiveAck
  <2>. QED
    BY <1>2, <2>1, <2>2, <2>3, <2>5, <2>6, <2>7, <2>8 DEF Main
<1>3. CASE Applier
  BY <1>1, <1>3, ApplierFrame
<1>4. CASE Senders
  BY <1>1, <1>4, SendersFrame
<1>5. CASE Service
  BY <1>1, <1>5, ServiceFrame, LiveChange
<1>6. CASE ShutdownCancels
  BY <1>1, <1>6 DEF ShutdownCancels
<1>7. CASE ShutdownCloses
  BY <1>1, <1>7, ClosedClient, LiveChange DEF ShutdownCloses
<1>8. CASE UNCHANGED vars
  BY <1>1, <1>8 DEF vars
<1>. QED
  BY <1>2, <1>3, <1>4, <1>5, <1>6, <1>7, <1>8 DEF Next, Shutdown

(* In every execution at most the newest connection is live, for any       *)
(* number of connections, faults and callers.                              *)
THEOREM OneConnection == Spec => []OneLiveConnection
<1>1. Init => ConnectionInv
  BY DEF Init, ConnectionInv, Idle
<1>2. TypeOK /\ ConnectionInv => OneLiveConnection
  BY DEF TypeOK, ConnectionInv, OneLiveConnection, Live, Conns
<1>. QED
  BY <1>1, <1>2, TypeCorrect, ConnectionStep, PTL DEF Spec
-----------------------------------------------------------------------------
(* MODULE:READY: once per connection, and once more if carried over.       *)

(* Announcements made or signalled so far, and connections that are over.  *)
Announced == readyCalls + initChan + (IF pc = "pushInit" THEN 1 ELSE 0)
Over      == IF Idle THEN epoch ELSE epoch - 1

(* moduleReady is the token of the current connection: it is given back    *)
(* only when main learns that the connection is over.                      *)
ReadyInv ==
  /\ moduleState.moduleReady => ~Idle
  /\ pc = "pushInit" => moduleState.moduleReady
  /\ Announced <= Over + (IF moduleState.moduleReady THEN 1 ELSE 0)

LEMMA ReadyStep ==
  TypeOK /\ ConnectionInv /\ ReadyInv /\ [Next]_vars => ReadyInv'
<1>. SUFFICES ASSUME TypeOK, ConnectionInv, ReadyInv, [Next]_vars PROVE ReadyInv'
  OBVIOUS
<1>. USE DEF mainVars, mainData, notMain, netVars
<1>0. /\ epoch \in Nat /\ initChan \in Nat /\ readyCalls \in Nat
      /\ moduleState \in ModuleState
      /\ moduleState.moduleReady \in BOOLEAN
  BY ConstantsAssumption DEF TypeOK, ModuleState
<1>1. ASSUME Idle' <=> Idle, epoch' = epoch, initChan' = initChan,
             readyCalls' = readyCalls,
             moduleState'.moduleReady = moduleState.moduleReady,
             pc' = pc \/ (pc # "pushInit" /\ pc' # "pushInit")
      PROVE  ReadyInv'
  BY <1>0, <1>1 DEF ReadyInv, Announced, Over
<1>2. ASSUME conn' = conn, epoch' = epoch
      PROVE  Idle' <=> Idle
  BY <1>2 DEF Idle
<1>3. CASE Main
  <2>1. CASE DialSucceeds
    <3>1. Idle /\ ~moduleState.moduleReady
      BY <1>0, <2>1 DEF DialSucceeds, ConnectionInv, ReadyInv
    <3>2. ~Idle' /\ epoch' = epoch + 1
      BY <2>1, ConstantsAssumption DEF DialSucceeds, Idle, TypeOK, Conns
    <3>3. UNCHANGED <<moduleState, initChan, readyCalls>> /\ pc' = "dialed"
      BY <2>1 DEF DialSucceeds, senderVars, counters, readyVars
    <3>. QED
      BY <1>0, <2>1, <3>1, <3>2, <3>3 DEF ReadyInv, Announced, Over, DialSucceeds
  <2>2. CASE DialFails
    BY <1>1, <1>2, <2>2 DEF DialFails, vars, senderVars, counters, readyVars
  <2>3. CASE DialCancelled \/ AssignClient \/ PushConfig \/ WaitReconnect \/ SelectDone
    BY <1>1, <1>2, <2>3 DEF DialCancelled, ReturnsFromDial, AssignClient,
       PushConfig, Pushed, WaitReconnect, SelectDone, senderVars, counters, readyVars
  <2>4. CASE LoopTop
    <3>1. UNCHANGED <<epoch, conn, initChan, readyCalls>> /\ pc = "top"
      BY <2>4 DEF LoopTop, senderVars, counters, readyVars
    <3>2. ~Idle /\ ~Idle'
      BY <1>2, <3>1 DEF ConnectionInv
    <3>3. CASE canSendModuleReady
      <4>1. moduleState'.moduleReady /\ pc' = "pushInit" /\ ~moduleState.moduleReady
        BY <1>0, <2>4, <3>3 DEF LoopTop, canSendModuleReady, ModuleState
      <4>. QED
        BY <1>0, <3>1, <3>2, <4>1 DEF ReadyInv, Announced, Over
    <3>4. CASE ~canSendModuleReady
      BY <1>1, <1>2, <2>4, <3>1, <3>4 DEF LoopTop
    <3>. QED  BY <3>3, <3>4
  <2>5. CASE PushInit
    <3>1. /\ UNCHANGED <<epoch, conn, moduleState, readyCalls>>
          /\ pc = "pushInit" /\ pc' = "select" /\ initChan' = initChan + 1
      BY <2>5 DEF PushInit, senderVars, counters, readyVars
    <3>. QED
      BY <1>0, <1>2, <3>1 DEF ReadyInv, Announced, Over
  <2>6. CASE SelectApplied
    <3>1. moduleState'.moduleReady = moduleState.moduleReady
      BY <1>0, <2>6 DEF SelectApplied, ModuleState
    <3>. QED
      BY <1>1, <1>2, <2>6, <3>1 DEF SelectApplied, readyVars
  <2>7. CASE SelectInit
    <3>1. /\ UNCHANGED <<epoch, conn, moduleState>> /\ pc = "select"
          /\ pc' \in {"top", "declaring"}
          /\ initChan = 1 /\ initChan' = 0 /\ readyCalls' = readyCalls + 1
      BY <2>7 DEF SelectInit
    <3>. QED
      BY <1>0, <1>2, <3>1 DEF ReadyInv, Announced, Over
  <2>8. ASSUME conn' = Closed(client), epoch' = epoch
        PROVE  Idle' <=> Idle
    BY <2>8, ClosedClient DEF TypeOK, Idle, Live, Conns
  <2>9. CASE SelectHeartbeat
    BY <1>1, <1>2, <2>8, <2>9 DEF SelectHeartbeat, senderVars, counters, readyVars
  <2>10. ASSUME NEW c \in Conns, SelectConfig(c)
         PROVE  ReadyInv'
    BY <1>1, <1>2, <2>10 DEF SelectConfig, senderVars, counters, readyVars
  <2>11. ASSUME NEW c \in Conns, SelectRoutes(c)
         PROVE  ReadyInv'
    <3>1. moduleState'.moduleReady = moduleState.moduleReady
      BY <1>0, <2>11 DEF SelectRoutes, ReceiveRoutes, ModuleState
    <3>. QED
      BY <1>1, <1>2, <2>11, <3>1 DEF SelectRoutes, ReceiveRoutes, senderVars, counters, readyVars
  <2>12. ASSUME NEW c \in Conns, SelectConnect(c)
         PROVE  ReadyInv'
    <3>1. PICK connected : moduleState' = WithConnected(connected)
      BY <2>12 DEF SelectConnect
    <3>2. moduleState'.moduleReady = moduleState.moduleReady
      BY <1>0, <3>1 DEF WithConnected, ModuleState
    <3>. QED
      BY <1>1, <1>2, <2>12, <3>2 DEF SelectConnect, senderVars, counters, readyVars
  <2>13. ASSUME NEW c \in Conns, SelectDisconnect(c)
         PROVE  ReadyInv'
    <3>1. c = epoch /\ ~Idle /\ Idle'
      BY <2>13 DEF SelectDisconnect, TypeOK, ConnectionInv, Idle, Conns
    <3>2. ~moduleState'.moduleReady /\ pc = "select" /\ pc' = "wait"
      BY <2>13 DEF SelectDisconnect, initialState
    <3>3. UNCHANGED <<epoch, initChan, readyCalls>>
      BY <2>13 DEF SelectDisconnect, senderVars, counters, readyVars
    <3>. QED
      BY <1>0, <3>1, <3>2, <3>3 DEF ReadyInv, Announced, Over
  <2>14. ASSUME NEW s \in senders, SelectAck(s)
         PROVE  ReadyInv'
    <3>1. moduleState'.moduleReady = moduleState.moduleReady
      BY <1>0, <2>14 DEF SelectAck, ReceiveAck, ModuleState
    <3>. QED
      BY <1>1, <1>2, <2>8, <2>14, <3>1 DEF SelectAck, ReceiveAck, counters, readyVars
  <2>. QED
    BY <1>3, <2>1, <2>2, <2>3, <2>4, <2>5, <2>6, <2>7, <2>9, <2>10, <2>11,
       <2>12, <2>13, <2>14 DEF Main
<1>4. CASE Applier
  BY <1>1, <1>2, <1>4, ApplierFrame DEF readyVars
<1>5. CASE Senders
  BY <1>1, <1>2, <1>5, SendersFrame DEF readyVars
<1>6. CASE Service
  BY <1>1, <1>2, <1>6, ServiceFrame, LiveChange DEF senderVars, counters, readyVars
<1>7. CASE ShutdownCancels
  BY <1>1, <1>2, <1>7 DEF ShutdownCancels, senderVars, counters, readyVars
<1>8. CASE ShutdownCloses
  BY <1>1, <1>2, <1>8, ClosedClient, LiveChange DEF ShutdownCloses, senderVars, counters, readyVars
<1>9. CASE UNCHANGED vars
  BY <1>1, <1>2, <1>9 DEF vars, senderVars, counters, readyVars
<1>. QED
  BY <1>3, <1>4, <1>5, <1>6, <1>7, <1>8, <1>9 DEF Next, Shutdown

(* In the loop of one connection: what was signalled and announced there   *)
(* is what it found in initChan and the one that moduleReady stands for.   *)
InLoop == pc \in {"top", "pushInit", "select", "pushConfig", "declaring"}

HereInv ==
  /\ readyHere + Pending <= 1 + carried
  /\ InLoop /\ ~moduleState.moduleReady => readyHere + Pending <= carried

LEMMA HereStep == TypeOK /\ ReadyInv /\ HereInv /\ [Next]_vars => HereInv'
<1>. SUFFICES ASSUME TypeOK, ReadyInv, HereInv, [Next]_vars PROVE HereInv'
  OBVIOUS
<1>. USE DEF mainVars, mainData, notMain, readyVars
<1>0. /\ initChan \in Nat /\ readyHere \in Nat /\ carried \in Nat
      /\ moduleState \in ModuleState
      /\ moduleState.moduleReady \in BOOLEAN
      /\ pc = "pushInit" => moduleState.moduleReady
  BY DEF TypeOK, ModuleState, ReadyInv
<1>1. ASSUME UNCHANGED <<initChan, readyHere, carried>>,
             moduleState'.moduleReady = moduleState.moduleReady,
             InLoop' => InLoop, pc' = "pushInit" <=> pc = "pushInit"
      PROVE  HereInv'
  BY <1>0, <1>1 DEF HereInv, Pending
<1>2. CASE DialSucceeds \/ DialFails \/ DialCancelled \/ WaitReconnect
            \/ SelectDone \/ SelectHeartbeat \/ PushConfig
  BY <1>1, <1>2 DEF DialSucceeds, DialFails, DialCancelled, ReturnsFromDial,
     WaitReconnect, SelectDone, SelectHeartbeat, PushConfig, Pushed, InLoop,
     senderVars, counters, vars
<1>3. CASE AssignClient
  BY <1>0, <1>3 DEF AssignClient, HereInv, Pending
<1>4. CASE LoopTop
  <2>1. UNCHANGED <<initChan, readyHere, carried>> /\ pc = "top"
    BY <1>4 DEF LoopTop, senderVars, counters
  <2>2. CASE canSendModuleReady
    <3>1. moduleState'.moduleReady /\ pc' = "pushInit" /\ ~moduleState.moduleReady
      BY <1>0, <1>4, <2>2 DEF LoopTop, canSendModuleReady, ModuleState
    <3>. QED
      BY <1>0, <2>1, <3>1 DEF HereInv, Pending, InLoop
  <2>3. CASE ~canSendModuleReady
    BY <1>1, <1>4, <2>1, <2>3 DEF LoopTop, InLoop
  <2>. QED  BY <2>2, <2>3
<1>5. CASE PushInit
  <2>1. /\ UNCHANGED <<moduleState, readyHere, carried>> /\ InLoop
        /\ pc = "pushInit" /\ pc' = "select" /\ initChan' = initChan + 1
    BY <1>5 DEF PushInit, senderVars, counters, InLoop
  <2>. QED
    BY <1>0, <2>1 DEF HereInv, Pending
<1>6. CASE SelectApplied
  <2>1. moduleState'.moduleReady = moduleState.moduleReady
    BY <1>0, <1>6 DEF SelectApplied, ModuleState
  <2>. QED
    BY <1>1, <1>6, <2>1 DEF SelectApplied, InLoop
<1>7. CASE SelectInit
  <2>1. /\ UNCHANGED <<moduleState, carried>> /\ pc = "select"
        /\ pc' \in {"top", "declaring"}
        /\ initChan = 1 /\ initChan' = 0 /\ readyHere' = readyHere + 1
    BY <1>7 DEF SelectInit
  <2>. QED
    BY <1>0, <2>1 DEF HereInv, Pending, InLoop
<1>8. ASSUME NEW c \in Conns, SelectConfig(c) \/ SelectRoutes(c) \/ SelectConnect(c)
      PROVE  HereInv'
  <2>1. SelectConnect(c) => \E connected : moduleState' = WithConnected(connected)
    BY DEF SelectConnect
  <2>2. moduleState'.moduleReady = moduleState.moduleReady
    BY <1>0, <1>8, <2>1 DEF SelectConfig, SelectRoutes, ReceiveRoutes, WithConnected,
       ModuleState
  <2>. QED
    BY <1>1, <1>8, <2>2 DEF SelectConfig, SelectRoutes, ReceiveRoutes, SelectConnect,
       InLoop, senderVars, counters
<1>9. ASSUME NEW c \in Conns, SelectDisconnect(c)
      PROVE  HereInv'
  <2>1. /\ UNCHANGED <<initChan, readyHere, carried>>
        /\ pc = "select" /\ pc' = "wait"
    BY <1>9 DEF SelectDisconnect, senderVars, counters
  <2>. QED
    BY <1>0, <2>1 DEF HereInv, Pending, InLoop
<1>10. ASSUME NEW s \in senders, SelectAck(s)
       PROVE  HereInv'
  <2>1. moduleState'.moduleReady = moduleState.moduleReady
    BY <1>0, <1>10 DEF SelectAck, ReceiveAck, ModuleState
  <2>. QED
    BY <1>1, <1>10, <2>1 DEF SelectAck, ReceiveAck, InLoop, counters
<1>11. CASE Applier
  BY <1>1, <1>11, ApplierFrame DEF InLoop
<1>12. CASE Senders
  BY <1>1, <1>12, SendersFrame DEF InLoop
<1>13. CASE Service
  BY <1>1, <1>13, ServiceFrame DEF senderVars, counters, InLoop
<1>14. CASE Shutdown \/ UNCHANGED vars
  BY <1>1, <1>14 DEF Shutdown, ShutdownCancels, ShutdownCloses, senderVars,
     counters, vars, InLoop
<1>. QED
  BY <1>2, <1>3, <1>4, <1>5, <1>6, <1>7, <1>8, <1>9, <1>10, <1>11, <1>12,
     <1>13, <1>14 DEF Next, Main

(* On every connection MODULE:READY is started at most once, and once more *)
(* if the connection found a signal in initChan when it began; over all of *)
(* them at most as often as there were connections.                        *)
THEOREM ReadyOnce == Spec => []ReadyOncePerConnection
<1>1. Init => ConnectionInv
  BY DEF Init, ConnectionInv, Idle
<1>2. Init => ReadyInv
  BY DEF Init, ReadyInv, Announced, Over, Idle, initialState
<1>3. Init => HereInv
  BY DEF Init, HereInv, Pending
<1>4. TypeOK /\ ConnectionInv /\ ReadyInv /\ HereInv => ReadyOncePerConnection
  <2>. SUFFICES ASSUME TypeOK, ReadyInv, HereInv PROVE ReadyOncePerConnection
    OBVIOUS
  <2>1. /\ epoch \in Nat /\ initChan \in Nat /\ readyCalls \in Nat
        /\ moduleState.moduleReady \in BOOLEAN
    BY ConstantsAssumption DEF TypeOK, ModuleState
  <2>. QED
    BY <2>1 DEF ReadyInv, HereInv, Pending, ReadyOncePerConnection, Announced, Over
<1>. QED
  BY <1>1, <1>2, <1>3, <1>4, TypeCorrect, ConnectionStep, ReadyStep, HereStep,
     PTL DEF Spec
-----------------------------------------------------------------------------
(* The conditions of MODULE:READY.                                         *)

(* Only main changes the module state.                                     *)
LEMMA OthersKeepModuleState ==
  ASSUME TypeOK, Applier \/ Senders \/ Service \/ Shutdown \/ UNCHANGED vars
  PROVE  UNCHANGED <<moduleState, pc>>
BY ApplierFrame, SendersFrame, ServiceFrame
   DEF Shutdown, ShutdownCancels, ShutdownCloses, vars, mainVars, mainData

(* The two lengths initialState compares are equal exactly when no module  *)
(* must connect.                                                           *)
LEMMA InitialGate ==
  initialState.requiredModulesReady
    <=> MustConnect \subseteq initialState.currentConnectedModules
<1>1. CASE MustConnect = {}
  BY <1>1 DEF initialState
<1>2. CASE MustConnect # {}
  <2>1. PICK m : m \in MustConnect /\ m \in Modules
    BY <1>2, ConstantsAssumption
  <2>. QED  BY <2>1 DEF initialState
<1>. QED  BY <1>1, <1>2

(* The flag of the required modules is derived in initialState and in the  *)
(* connect case; every other assignment leaves it and the set alone.       *)
LEMMA GateStep ==
  TypeOK /\ RequiredModulesGate /\ [Next]_vars => RequiredModulesGate'
<1>. SUFFICES ASSUME TypeOK, RequiredModulesGate, [Next]_vars
              PROVE  RequiredModulesGate'
  OBVIOUS
<1>0. moduleState \in ModuleState
  BY DEF TypeOK
<1>1. ASSUME moduleState'.requiredModulesReady = moduleState.requiredModulesReady,
             moduleState'.currentConnectedModules = moduleState.currentConnectedModules
      PROVE  RequiredModulesGate'
  BY <1>1 DEF RequiredModulesGate
<1>2. CASE Main
  <2>. USE DEF mainVars, mainData, notMain, netVars
  <2>1. CASE \/ DialSucceeds \/ DialFails \/ DialCancelled \/ AssignClient
             \/ PushInit \/ PushConfig \/ WaitReconnect \/ SelectInit
             \/ SelectHeartbeat \/ SelectDone
             \/ \E c \in Conns : SelectConfig(c)
    <3>1. moduleState' = moduleState
      BY <2>1 DEF DialSucceeds, DialFails, vars, DialCancelled, ReturnsFromDial,
         AssignClient, PushInit, PushConfig, Pushed, WaitReconnect, SelectInit,
         SelectHeartbeat, SelectDone, SelectConfig
    <3>. QED  BY <1>1, <3>1
  <2>2. CASE LoopTop
    BY <1>0, <1>1, <2>2 DEF LoopTop, ModuleState
  <2>3. CASE SelectApplied
    BY <1>0, <1>1, <2>3 DEF SelectApplied, ModuleState
  <2>4. ASSUME NEW c \in Conns, SelectRoutes(c)
        PROVE  RequiredModulesGate'
    BY <1>0, <1>1, <2>4 DEF SelectRoutes, ReceiveRoutes, ModuleState
  <2>5. ASSUME NEW c \in Conns, SelectConnect(c)
        PROVE  RequiredModulesGate'
    <3>1. PICK connected : moduleState' = WithConnected(connected)
      BY <2>5 DEF SelectConnect
    <3>2. /\ moduleState'.requiredModulesReady = AllRequired(connected)
          /\ moduleState'.currentConnectedModules = connected
      BY <1>0, <3>1 DEF WithConnected, ModuleState
    <3>. QED  BY <3>2 DEF RequiredModulesGate, AllRequired
  <2>6. ASSUME NEW c \in Conns, SelectDisconnect(c)
        PROVE  RequiredModulesGate'
    BY <2>6, InitialGate DEF SelectDisconnect, RequiredModulesGate
  <2>7. ASSUME NEW s \in senders, SelectAck(s)
        PROVE  RequiredModulesGate'
    BY <1>0, <1>1, <2>7 DEF SelectAck, ReceiveAck, ModuleState
  <2>. QED
    BY <1>2, <2>1, <2>2, <2>3, <2>4, <2>5, <2>6, <2>7 DEF Main
<1>3. CASE Applier \/ Senders \/ Service \/ Shutdown \/ UNCHANGED vars
  BY <1>1, <1>3, OthersKeepModuleState
<1>. QED
  BY <1>2, <1>3 DEF Next

(* requiredModulesReady always agrees with the modules connected since the *)
(* last reset, for every set of required modules.                          *)
THEOREM GateAgrees == Spec => []RequiredModulesGate
<1>1. Init => RequiredModulesGate
  BY InitialGate DEF Init, RequiredModulesGate
<1>. QED
  BY <1>1, TypeCorrect, GateStep, PTL DEF Spec

(* main enters its select only from the top of the loop, after looking at  *)
(* the conditions, or after signalling itself.                             *)
LEMMA SelectStep ==
  TypeOK /\ ReadyInv /\ NoMissedReady /\ [Next]_vars => NoMissedReady'
<1>. SUFFICES ASSUME TypeOK, ReadyInv, NoMissedReady, [Next]_vars
              PROVE  NoMissedReady'
  OBVIOUS
<1>1. CASE Main
  <2>. USE <1>1 DEF Main, NoMissedReady, mainVars, mainData, notMain
  <2>1. CASE LoopTop
    BY <2>1 DEF LoopTop, canSendModuleReady, AllConditions
  <2>2. CASE PushInit
    BY <2>2 DEF PushInit, ReadyInv, AllConditions
  <2>3. CASE DialFails
    BY <2>3 DEF DialFails, vars, AllConditions
  <2>4. CASE ~LoopTop /\ ~PushInit /\ ~DialFails
    <3>1. pc' # "select"
      BY <2>4 DEF DialSucceeds, DialCancelled, ReturnsFromDial, AssignClient,
         PushConfig, Pushed, WaitReconnect, SelectApplied, SelectInit,
         SelectHeartbeat, SelectDone, SelectConfig, SelectRoutes, SelectConnect,
         SelectDisconnect, SelectAck
    <3>. QED  BY <3>1
  <2>. QED  BY <2>1, <2>2, <2>3, <2>4
<1>2. CASE Applier \/ Senders \/ Service \/ Shutdown \/ UNCHANGED vars
  BY <1>2, OthersKeepModuleState DEF NoMissedReady, AllConditions
<1>. QED
  BY <1>1, <1>2 DEF Next

(* Whatever event made the last condition true, main announces the module  *)
(* before it waits for the next event.                                     *)
THEOREM ReadyNotMissed == Spec => []NoMissedReady
<1>1. Init => ConnectionInv /\ ReadyInv /\ NoMissedReady
  BY DEF Init, ConnectionInv, Idle, ReadyInv, Announced, Over, initialState,
         NoMissedReady
<1>. QED
  BY <1>1, TypeCorrect, ConnectionStep, ReadyStep, SelectStep, PTL DEF Spec
-----------------------------------------------------------------------------
(* Configurations become live in the order in which they were sent.        *)

(* The configurations in a sequence of events: their versions increase,    *)
(* are all above v, are all at most n.                                     *)
Increasing(s) ==
  \A i, j \in 1..Len(s) :
    i < j /\ s[i].kind = "config" /\ s[j].kind = "config" => s[i].val < s[j].val
Above(v, s)  == \A i \in 1..Len(s) : s[i].kind = "config" => v < s[i].val
AtMost(s, n) == \A i \in 1..Len(s) : s[i].kind = "config" => s[i].val <= n

(* Receiving the oldest event keeps the order, and a configuration that is *)
(* received comes before those that are left.                              *)
LEMMA TailConfigs ==
  ASSUME NEW s \in Seq(Event), s # <<>>
  PROVE  /\ Increasing(s) => Increasing(Tail(s))
         /\ \A v : Above(v, s) => Above(v, Tail(s))
         /\ \A n : AtMost(s, n) => AtMost(Tail(s), n)
         /\ s[1].kind = "config" =>
              /\ Increasing(s) => Above(s[1].val, Tail(s))
              /\ \A v : Above(v, s) => v < s[1].val
              /\ \A n : AtMost(s, n) => s[1].val <= n
<1>1. /\ Len(s) \in Nat /\ 1 \in 1..Len(s)
      /\ Len(Tail(s)) = Len(s) - 1
      /\ \A i \in 1..Len(Tail(s)) : Tail(s)[i] = s[i + 1] /\ i + 1 \in 1..Len(s)
  OBVIOUS
<1>2. Increasing(s) => Increasing(Tail(s))
  <2>. SUFFICES ASSUME Increasing(s),
                       NEW i \in 1..Len(Tail(s)), NEW j \in 1..Len(Tail(s)),
                       i < j, Tail(s)[i].kind = "config", Tail(s)[j].kind = "config"
                PROVE  Tail(s)[i].val < Tail(s)[j].val
    BY DEF Increasing
  <2>1. i + 1 \in 1..Len(s) /\ j + 1 \in 1..Len(s) /\ i + 1 < j + 1
    BY <1>1
  <2>. QED  BY <1>1, <2>1 DEF Increasing
<1>3. \A v : Above(v, s) => Above(v, Tail(s))
  BY <1>1 DEF Above
<1>4. \A n : AtMost(s, n) => AtMost(Tail(s), n)
  BY <1>1 DEF AtMost
<1>5. ASSUME s[1].kind = "config", Increasing(s)
      PROVE  Above(s[1].val, Tail(s))
  <2>. SUFFICES ASSUME NEW i \in 1..Len(Tail(s)), Tail(s)[i].kind = "config"
                PROVE  s[1].val < Tail(s)[i].val
    BY DEF Above
  <2>1. i + 1 \in 1..Len(s) /\ 1 < i + 1 /\ Tail(s)[i] = s[i + 1]
    BY <1>1
  <2>. QED  BY <1>1, <1>5, <2>1 DEF Increasing
<1>6. s[1].kind = "config" => /\ \A v : Above(v, s) => v < s[1].val
                              /\ \A n : AtMost(s, n) => s[1].val <= n
  BY <1>1 DEF Above, AtMost
<1>. QED
  BY <1>2, <1>3, <1>4, <1>5, <1>6

(* A configuration sent after all the others keeps the order.              *)
LEMMA AppendConfig ==
  ASSUME NEW s \in Seq(Event), NEW n \in Nat, NEW e \in Event,
         Increasing(s), AtMost(s, n),
         NEW m \in Nat, n <= m, e.kind = "config" => n < m /\ e.val = m
  PROVE  /\ Increasing(Append(s, e))
         /\ AtMost(Append(s, e), m)
         /\ \A v \in Nat : v <= n /\ Above(v, s) => Above(v, Append(s, e))
<1>. DEFINE a == Append(s, e)
<1>1. /\ Len(s) \in Nat /\ Len(a) = Len(s) + 1 /\ a[Len(s) + 1] = e
      /\ \A i \in 1..Len(s) : a[i] = s[i] /\ i \in 1..Len(a)
      /\ \A i \in 1..Len(a) : i \in 1..Len(s) \/ i = Len(s) + 1
  OBVIOUS
<1>2. \A i \in 1..Len(s) : s[i].kind = "config" => s[i].val \in Nat
  BY DEF Event
<1>. HIDE DEF a
<1>3. Increasing(a)
  <2>. SUFFICES ASSUME NEW i \in 1..Len(a), NEW j \in 1..Len(a),
                       i < j, a[i].kind = "config", a[j].kind = "config"
                PROVE  a[i].val < a[j].val
    BY DEF Increasing
  <2>1. i \in 1..Len(s)
    BY <1>1
  <2>2. CASE j \in 1..Len(s)
    BY <1>1, <2>1, <2>2 DEF Increasing
  <2>3. CASE j = Len(s) + 1
    BY <1>1, <1>2, <2>1, <2>3 DEF AtMost
  <2>. QED  BY <1>1, <2>2, <2>3
<1>4. AtMost(a, m)
  <2>. SUFFICES ASSUME NEW i \in 1..Len(a), a[i].kind = "config"
                PROVE  a[i].val <= m
    BY DEF AtMost
  <2>1. CASE i \in 1..Len(s)
    BY <1>1, <1>2, <2>1 DEF AtMost
  <2>2. CASE i = Len(s) + 1
    BY <1>1, <2>2
  <2>. QED  BY <1>1, <2>1, <2>2
<1>5. ASSUME NEW v \in Nat, v <= n, Above(v, s)
      PROVE  Above(v, a)
  <2>. SUFFICES ASSUME NEW i \in 1..Len(a), a[i].kind = "config"
                PROVE  v < a[i].val
    BY DEF Above
  <2>1. CASE i \in 1..Len(s)
    BY <1>1, <1>5, <2>1 DEF Above
  <2>2. CASE i = Len(s) + 1
    BY <1>1, <1>5, <2>2
  <2>. QED  BY <1>1, <2>1, <2>2
<1>. QED
  BY <1>3, <1>4, <1>5 DEF a

(* x was sent before y, if they came on one connection.                    *)
Before(x, y) == y # NoTask /\ x.conn = y.conn => x.ver < y.ver

(* A task on its way is older than what its connection still holds.        *)
Behind(t) ==
  t # NoTask => t.conn \in Conns /\ t.ver <= sent /\ Above(t.ver, inbox[t.conn])

(* The pipeline of configurations: inbox, task of main, channel, task of   *)
(* the applier, live configuration, each older than the one before it.     *)
ConfigInv ==
  /\ \A c \in Conns : Increasing(inbox[c]) /\ AtMost(inbox[c], sent)
  /\ Behind(live) /\ Behind(applying) /\ Behind(remoteConfigsCh) /\ Behind(task)
  /\ Before(live, applying) /\ Before(live, remoteConfigsCh) /\ Before(live, task)
  /\ Before(applying, remoteConfigsCh) /\ Before(applying, task)
  /\ Before(remoteConfigsCh, task)

slots == <<live, applying, remoteConfigsCh, task>>

(* Receiving an event other than a configuration.                          *)
LEMMA ReceivedConfigInv ==
  ASSUME TypeOK, ConfigInv, NEW c \in Conns, NEW i \in InHandler(c), Received(c, i),
         UNCHANGED <<slots, sent>>
  PROVE  ConfigInv'
<1>1. /\ inbox \in [Conns -> Seq(Event)]
      /\ inbox[c] \in Seq(Event) /\ inbox[c] # <<>>
      /\ inbox' = [inbox EXCEPT ![c] = Tail(inbox[c])]
  BY ReceivedHead DEF TypeOK
<1>2. \A d \in Conns : Increasing(inbox'[d]) /\ AtMost(inbox'[d], sent)
  BY <1>1, TailConfigs DEF ConfigInv
<1>3. \A d \in Conns : \A v : Above(v, inbox[d]) => Above(v, inbox'[d])
  BY <1>1, TailConfigs
<1>. QED
  BY <1>2, <1>3 DEF ConfigInv, slots, Behind, Before

(* Receiving a configuration: it is newer than all that are on their way.  *)
LEMMA SelectConfigInv ==
  ASSUME TypeOK, ConfigInv, NEW c \in Conns, NEW i \in InHandler(c), Received(c, i),
         inbox[c][i].kind = "config", task' = [conn |-> c, ver |-> inbox[c][i].val],
         UNCHANGED <<live, applying, remoteConfigsCh, sent>>
  PROVE  ConfigInv'
<1>1. /\ inbox \in [Conns -> Seq(Event)]
      /\ inbox[c] \in Seq(Event) /\ inbox[c] # <<>> /\ i = 1
      /\ inbox' = [inbox EXCEPT ![c] = Tail(inbox[c])]
  BY ReceivedHead DEF TypeOK
<1>2. \A d \in Conns : Increasing(inbox'[d]) /\ AtMost(inbox'[d], sent)
  BY <1>1, TailConfigs DEF ConfigInv
<1>3. \A d \in Conns : \A v : Above(v, inbox[d]) => Above(v, inbox'[d])
  BY <1>1, TailConfigs
<1>4. /\ task'.conn = c /\ task'.ver <= sent /\ Above(task'.ver, inbox'[c])
      /\ \A v : Above(v, inbox[c]) => v < task'.ver
  BY <1>1, TailConfigs DEF ConfigInv
<1>5. c # 0
  BY DEF Conns
<1>6. Behind(live)' /\ Behind(applying)' /\ Behind(remoteConfigsCh)' /\ Behind(task)'
  BY <1>3, <1>4 DEF ConfigInv, Behind
<1>7. ASSUME NEW t \in {live, applying, remoteConfigsCh}
      PROVE  t.conn = c => t.ver < task'.ver
  BY <1>4, <1>5, <1>7 DEF ConfigInv, Behind, NoTask
<1>8. Before(live, task)' /\ Before(applying, task)' /\ Before(remoteConfigsCh, task)'
  BY <1>4, <1>7 DEF Before
<1>. QED
  BY <1>2, <1>6, <1>8 DEF ConfigInv, Before

LEMMA ConfigStep == TypeOK /\ ConfigInv /\ [Next]_vars => ConfigInv'
<1>. SUFFICES ASSUME TypeOK, ConfigInv, [Next]_vars PROVE ConfigInv'
  OBVIOUS
<1>. USE DEF mainVars, mainData, notMain, applierVars, netVars, netData
<1>1. ASSUME UNCHANGED <<slots, inbox, sent>>
      PROVE  ConfigInv'
  BY <1>1 DEF ConfigInv, slots, Behind, Before
<1>2. CASE Main
  <2>1. CASE \/ DialSucceeds \/ DialFails \/ DialCancelled \/ AssignClient
             \/ LoopTop \/ PushInit \/ WaitReconnect \/ SelectApplied
             \/ SelectInit \/ SelectHeartbeat \/ SelectDone
             \/ \E c \in Conns : SelectDisconnect(c)
             \/ \E s \in senders : SelectAck(s)
    <3>1. UNCHANGED <<slots, inbox, sent>>
      BY <2>1 DEF slots, DialSucceeds, DialFails, vars, DialCancelled,
         ReturnsFromDial, AssignClient, LoopTop, PushInit, WaitReconnect,
         SelectApplied, SelectInit, SelectHeartbeat, SelectDone,
         SelectDisconnect, SelectAck, ReceiveAck
    <3>. QED  BY <1>1, <3>1
  <2>2. CASE PushConfig
    <3>1. /\ remoteConfigsCh' = task /\ task' = NoTask
          /\ UNCHANGED <<live, applying, inbox, sent>>
      BY <2>2 DEF PushConfig, Pushed
    <3>. QED  BY <3>1 DEF ConfigInv, Behind, Before
  <2>3. ASSUME NEW c \in Conns, SelectConfig(c)
        PROVE  ConfigInv'
    <3>. PICK i \in InHandler(c) : SelectConfig(c)!2!(i)
      BY <2>3 DEF SelectConfig
    <3>1. UNCHANGED <<live, applying, remoteConfigsCh, sent>>
      BY <2>3 DEF SelectConfig
    <3>2. CASE inbox[c][i].kind = "config"
      BY <3>1, <3>2, SelectConfigInv
    <3>3. CASE inbox[c][i].kind # "config"
      BY <3>1, <3>3, ReceivedConfigInv DEF slots
    <3>. QED  BY <3>2, <3>3
  <2>4. ASSUME NEW c \in Conns, SelectRoutes(c) \/ SelectConnect(c)
        PROVE  ConfigInv'
    <3>1. UNCHANGED <<slots, sent>>
      BY <2>4 DEF slots, SelectRoutes, ReceiveRoutes, SelectConnect
    <3>2. PICK i \in InHandler(c) : Received(c, i)
      BY <2>4 DEF SelectRoutes, ReceiveRoutes, SelectConnect
    <3>. QED  BY <3>1, <3>2, ReceivedConfigInv
  <2>. QED
    BY <1>2, <2>1, <2>2, <2>3, <2>4 DEF Main
<1>3. CASE Applier
  <2>1. CASE ApplierTake
    <3>1. /\ applying' = remoteConfigsCh /\ remoteConfigsCh' = NoTask
          /\ UNCHANGED <<live, task, inbox, sent>>
      BY <2>1 DEF ApplierTake
    <3>2. Behind(live)' /\ Behind(applying)' /\ Behind(remoteConfigsCh)' /\ Behind(task)'
      BY <3>1 DEF ConfigInv, Behind
    <3>3. /\ Before(live, applying)' /\ Before(live, task)'
          /\ Before(applying, task)'
          /\ Before(live, NoTask) /\ Before(applying', NoTask) /\ Before(NoTask, NoTask)
      BY <3>1 DEF ConfigInv, Before
    <3>4. Before(remoteConfigsCh, task)'
      <4>1. NoTask.conn = 0 /\ 0 \notin Conns
        BY DEF NoTask, Conns
      <4>. QED  BY <3>1, <3>2, <4>1 DEF Behind, Before
    <3>. QED  BY <3>1, <3>2, <3>3, <3>4 DEF ConfigInv, Before
  <2>2. CASE ApplierApply
    <3>1. /\ live' = applying /\ applying' = NoTask
          /\ UNCHANGED <<remoteConfigsCh, task, inbox, sent>>
      BY <2>2 DEF ApplierApply
    <3>2. NoTask.conn = 0 /\ 0 \notin Conns
      BY DEF NoTask, Conns
    <3>. QED  BY <3>1, <3>2 DEF ConfigInv, Behind, Before
  <2>3. CASE ApplierDeclares \/ ApplierExit
    BY <1>1, <2>3 DEF slots, ApplierDeclares, ApplierExit
  <2>. QED
    BY <1>3, <2>1, <2>2, <2>3 DEF Applier
<1>4. CASE Senders
  BY <1>1, <1>4, SendersFrame DEF slots
<1>5. CASE Service
  <2>. PICK c \in Conns :
         \/ ServiceSendsConfig(c) \/ ServiceSendsBadConfig(c)
         \/ ServiceSendsRoutes(c)
         \/ \E m \in Modules : ServiceSendsModule(c, m)
         \/ Drop(c) \/ Hang(c)
    BY <1>5 DEF Service
  <2>1. ASSUME NEW e \in Event, Deliver(c, e), sent' \in Nat, sent <= sent',
               e.kind = "config" => sent < sent' /\ e.val = sent'
        PROVE  ConfigInv'
    <3>1. /\ UNCHANGED slots
          /\ inbox \in [Conns -> Seq(Event)] /\ sent \in Nat
          /\ inbox' = [inbox EXCEPT ![c] = Append(inbox[c], e)]
      BY <2>1 DEF Deliver, slots, TypeOK
    <3>2. /\ Increasing(Append(inbox[c], e))
          /\ AtMost(Append(inbox[c], e), sent')
          /\ \A v \in Nat : v <= sent /\ Above(v, inbox[c])
                            => Above(v, Append(inbox[c], e))
      <4>1. inbox[c] \in Seq(Event) /\ Increasing(inbox[c]) /\ AtMost(inbox[c], sent)
        BY <3>1 DEF ConfigInv
      <4>. QED  BY <2>1, <3>1, <4>1, AppendConfig
    <3>3. \A d \in Conns : AtMost(inbox[d], sent')
      <4>. SUFFICES ASSUME NEW d \in Conns, NEW k \in 1..Len(inbox[d]),
                           inbox[d][k].kind = "config"
                    PROVE  inbox[d][k].val <= sent'
        BY DEF AtMost
      <4>1. inbox[d][k] \in Event /\ inbox[d][k].val <= sent
        BY <3>1 DEF ConfigInv, AtMost
      <4>2. inbox[d][k].val \in Nat
        BY <4>1 DEF Event
      <4>. QED  BY <2>1, <3>1, <4>1, <4>2
    <3>4. \A d \in Conns : Increasing(inbox'[d]) /\ AtMost(inbox'[d], sent')
      BY <3>1, <3>2, <3>3 DEF ConfigInv
    <3>5. \A d \in Conns, v \in Nat : v <= sent /\ Above(v, inbox[d]) => Above(v, inbox'[d])
      BY <3>1, <3>2
    <3>6. {live, applying, remoteConfigsCh, task} \subseteq Task
      BY DEF TypeOK
    <3>7. Behind(live)' /\ Behind(applying)' /\ Behind(remoteConfigsCh)' /\ Behind(task)'
      BY <2>1, <3>1, <3>5, <3>6 DEF ConfigInv, Behind, slots, Task
    <3>. QED  BY <3>1, <3>4, <3>7 DEF ConfigInv, slots, Before
  <2>2. CASE ServiceSendsConfig(c)
    <3>1. [kind |-> "config", val |-> sent + 1] \in Event /\ sent \in Nat
      BY DEF Event, TypeOK
    <3>. QED  BY <2>1, <2>2, <3>1 DEF ServiceSendsConfig
  <2>3. CASE ServiceSendsBadConfig(c)
    <3>1. [kind |-> "badConfig", val |-> 0] \in Event /\ sent \in Nat
      BY DEF Event, TypeOK
    <3>. QED  BY <2>1, <2>3, <3>1 DEF ServiceSendsBadConfig
  <2>4. CASE ServiceSendsRoutes(c)
    <3>1. [kind |-> "routes", val |-> 0] \in Event /\ sent \in Nat
      BY DEF Event, TypeOK
    <3>. QED  BY <2>1, <2>4, <3>1 DEF ServiceSendsRoutes
  <2>5. ASSUME NEW m \in Modules, ServiceSendsModule(c, m)
        PROVE  ConfigInv'
    <3>1. [kind |-> "module", val |-> m] \in Event /\ sent \in Nat
      BY DEF Event, TypeOK
    <3>. QED  BY <2>1, <2>5, <3>1 DEF ServiceSendsModule
  <2>6. CASE Drop(c) \/ Hang(c)
    BY <1>1, <2>6 DEF slots, Drop, Hang
  <2>. QED
    BY <2>2, <2>3, <2>4, <2>5, <2>6
<1>6. CASE Shutdown
  BY <1>1, <1>6 DEF slots, Shutdown, ShutdownCancels, ShutdownCloses
<1>7. CASE UNCHANGED vars
  BY <1>1, <1>7 DEF slots, vars
<1>. QED
  BY <1>2, <1>3, <1>4, <1>5, <1>6, <1>7 DEF Next

(* Only the applier makes a configuration live.                            *)
LEMMA OnlyApplierSetsLive ==
  ASSUME Next, live' # live
  PROVE  ApplierApply
<1>. USE DEF applierVars, notMain
<1>1. CASE Main
  BY <1>1 DEF Main, DialSucceeds, DialFails, vars, DialCancelled,
     ReturnsFromDial, AssignClient, LoopTop, PushInit, PushConfig, Pushed,
     WaitReconnect, SelectApplied, SelectInit, SelectHeartbeat, SelectDone,
     SelectConfig, SelectRoutes, ReceiveRoutes, SelectConnect,
     SelectDisconnect, SelectAck, ReceiveAck
<1>2. CASE Applier
  BY <1>2 DEF Applier, ApplierTake, ApplierDeclares, ApplierExit
<1>3. CASE Senders
  BY <1>3, SendersFrame
<1>4. CASE Service
  BY <1>4 DEF Service, ServiceSendsConfig, ServiceSendsBadConfig,
     ServiceSendsRoutes, ServiceSendsModule, Deliver, Drop, Hang
<1>5. CASE Shutdown
  BY <1>5 DEF Shutdown, ShutdownCancels, ShutdownCloses
<1>. QED
  BY <1>1, <1>2, <1>3, <1>4, <1>5 DEF Next

(* Configurations of one connection never become live out of order, for    *)
(* any number of connections and configurations.                           *)
THEOREM ConfigsInOrder == Spec => ConfigsAppliedInOrder
<1>1. Init => ConfigInv
  <2>. SUFFICES ASSUME Init PROVE ConfigInv
    OBVIOUS
  <2>1. \A c \in Conns : inbox[c] = <<>>
    BY DEF Init
  <2>2. \A c \in Conns : Increasing(inbox[c]) /\ AtMost(inbox[c], sent)
    BY <2>1 DEF Increasing, AtMost
  <2>3. live = NoTask /\ applying = NoTask /\ remoteConfigsCh = NoTask /\ task = NoTask
    BY Zenon DEF Init
  <2>. QED  BY <2>2, <2>3 DEF ConfigInv, Behind, Before
<1>2. TypeOK /\ ConfigInv /\ [Next]_vars
        => [live'.conn = live.conn => live'.ver >= live.ver]_live
  <2>. SUFFICES ASSUME TypeOK, ConfigInv, [Next]_vars, live' # live,
                       live'.conn = live.conn
                PROVE  live'.ver >= live.ver
    OBVIOUS
  <2>1. ~UNCHANGED vars
    BY DEF vars, notMain, applierVars
  <2>2. live' = applying
    BY <2>1, OnlyApplierSetsLive DEF ApplierApply
  <2>3. applying # NoTask
    <3>1. NoTask.conn = 0 /\ 0 \notin Conns
      BY DEF NoTask, Conns
    <3>. QED  BY <2>2, <3>1 DEF ConfigInv, Behind
  <2>4. live \in Task /\ applying \in Task
    BY DEF TypeOK
  <2>. QED  BY <2>2, <2>3, <2>4 DEF ConfigInv, Before, Task
<1>. QED
  BY <1>1, <1>2, TypeCorrect, ConfigStep, PTL DEF Spec, ConfigsAppliedInOrder

-----------------------------------------------------------------------------
(* The order of the handshake, for any number of connections and           *)
(* configurations, and every combination of faults and callers.            *)

(* Until main has a client there is no sender and nothing to apply; what a *)
(* sender captures is the client of that moment, of a connection dialled.  *)
ClientInv ==
  /\ pc = "dialed" => epoch # 0
  /\ client = 0 => /\ pc \in {"dial", "dialed", "returned"}
                   /\ senders = {}
                   /\ remoteConfigsCh = NoTask
                   /\ applier \in {"idle", "exited"}
  /\ \A s \in senders : s.stage # "spawned" => s.client \in 1..client

(* The applier waits while its one DeclareRoutes is on its way.            *)
DeclaringInv ==
  /\ \A s \in senders : s.kind = "updateApplier" => applier = "declaring"
  /\ \A s, t \in senders : s.kind = "updateApplier" /\ t.kind = "updateApplier" => s = t

Handshake == {"requirements", "ready"}

(* Whatever comes before the handshake's messages, from the signal of the  *)
(* applier to the senders, exists only once a configuration is live.       *)
Under == \/ remoteConfigAppliedCh \/ moduleState.remoteConfigReady
         \/ initChan = 1 \/ pc = "pushInit"
         \/ \E s \in senders : s.kind \in Handshake
         \/ \E c \in Conns : heard[c] \cap Handshake # {}

ConfigFirst ==
  /\ applier \in {"callback", "declaring", "declared"} => applying # NoTask
  /\ Under => live # NoTask

Required == "requirements" \in heard[1]

(* The requirements were heard before they are acknowledged, and so before *)
(* anything that leads to MODULE:READY while the first client is in use.   *)
Leading == \/ moduleState.requiredSendReady \/ initChan = 1 \/ pc = "pushInit"
           \/ \E s \in senders : s.kind = "ready" /\ s.stage = "spawned"

RequirementsFirst ==
  /\ \A s \in senders :
       /\ s.kind = "requirements" /\ s.client = 1 /\ s.stage \in {"received", "acked"} => Required
       /\ s.kind = "ready" /\ s.client = 1 /\ s.stage # "spawned" => Required
  /\ client <= 1 /\ Leading => Required
  /\ 1 \in Conns /\ "ready" \in heard[1] => Required

-----------------------------------------------------------------------------
(* What a sender's step makes of it.                                       *)

Moves(s, t) ==
  /\ t \in Sender /\ t.kind = s.kind
  /\ senders' = (senders \ {s}) \cup {t}
  /\ \/ /\ s.stage = "spawned" /\ t.stage = "emitting" /\ t.client = client
        /\ heard' = heard
     \/ /\ s.stage = "emitting" /\ t.stage = "received" /\ t.client = s.client
        /\ heard' = [heard EXCEPT ![s.client] = @ \cup {s.kind}]
     \/ /\ s.stage = "received" /\ t.stage = "acked" /\ t.client = s.client
        /\ heard' = heard
     \/ /\ s.stage \in {"emitting", "received"} /\ t.stage \in {"failed", "closed"}
        /\ t.client = s.client
        /\ heard' = heard

LEMMA SenderMoves ==
  ASSUME TypeOK, Senders
  PROVE  \/ UserDeclares
         \/ \E s \in senders, t \in Sender : Moves(s, t)
<1>. USE DEF netVars, netData
<1>1. ASSUME NEW s \in senders, SenderStart(s)
      PROVE  \E t \in Sender : Moves(s, t)
  <2>1. PICK x \in Sender : x = s
    BY DEF TypeOK
  <2>2. PICK t : t = [x EXCEPT !.client = client, !.stage = "emitting"]
    OBVIOUS
  <2>3. client \in Nat
    BY ConstantsAssumption DEF TypeOK
  <2>4. t = [kind |-> x.kind, n |-> x.n, client |-> client, stage |-> "emitting"]
    BY <2>2 DEF Sender
  <2>5. t \in Sender /\ t.kind = s.kind /\ t.client = client /\ t.stage = "emitting"
    BY <2>1, <2>3, <2>4 DEF Sender, Stages
  <2>6. s.stage = "spawned" /\ senders' = (senders \ {s}) \cup {t} /\ heard' = heard
    BY <1>1, <2>1, <2>2, Zenon DEF SenderStart, Advance
  <2>. QED  BY <2>5, <2>6 DEF Moves
<1>2. ASSUME NEW s \in senders, NEW stage \in Stages
      PROVE  /\ [s EXCEPT !.stage = stage] \in Sender
             /\ [s EXCEPT !.stage = stage].kind = s.kind
             /\ [s EXCEPT !.stage = stage].client = s.client
             /\ [s EXCEPT !.stage = stage].stage = stage
  BY DEF TypeOK, Sender
<1>3. ASSUME NEW s \in senders, SenderReceived(s)
      PROVE  \E t \in Sender : Moves(s, t)
  BY <1>2, <1>3 DEF SenderReceived, Advance, Moves, Stages
<1>4. ASSUME NEW s \in senders, SenderAcked(s)
      PROVE  \E t \in Sender : Moves(s, t)
  BY <1>2, <1>4 DEF SenderAcked, Ends, Advance, Moves, Stages, Outcomes
<1>5. ASSUME NEW s \in senders, SenderFails(s) \/ SenderClosed(s)
      PROVE  \E t \in Sender : Moves(s, t)
  BY <1>2, <1>5 DEF SenderFails, SenderClosed, Ends, Advance, Moves, Stages, Outcomes
<1>. QED  BY <1>1, <1>3, <1>4, <1>5 DEF Senders

-----------------------------------------------------------------------------
(* Until main has a client nothing is sent and nothing applied.            *)

LEMMA ClientStep == TypeOK /\ ClientInv /\ [Next]_vars => ClientInv'
<1>. SUFFICES ASSUME TypeOK, ClientInv, [Next]_vars PROVE ClientInv'
  OBVIOUS
<1>0. client \in Nat /\ epoch \in Nat
  BY ConstantsAssumption DEF TypeOK
<1>1. ASSUME UNCHANGED <<client, senders, remoteConfigsCh, applier, epoch>>,
             \/ pc' = pc
             \/ client # 0 /\ pc' # "dialed"
      PROVE  ClientInv'
  BY <1>1 DEF ClientInv
<1>. USE DEF mainVars, mainData, notMain, applierVars, senderVars
<1>2. CASE DialSucceeds
  BY <1>0, <1>2 DEF DialSucceeds, ClientInv
<1>3. CASE DialFails
  BY <1>1, <1>3 DEF DialFails, vars
<1>4. CASE DialCancelled
  BY <1>4 DEF DialCancelled, ReturnsFromDial, ClientInv
<1>5. CASE AssignClient
  <2>1. client' = epoch /\ epoch # 0 /\ pc' = "top" /\ senders' = senders \cup Spawn("schema", epoch)
    BY <1>5 DEF AssignClient, ClientInv
  <2>2. client <= epoch
    BY <1>0 DEF TypeOK
  <2>. QED  BY <1>0, <2>1, <2>2 DEF ClientInv, Spawn
<1>6. CASE LoopTop \/ PushInit \/ SelectHeartbeat \/ SelectDone \/ WaitReconnect
  BY <1>1, <1>6 DEF LoopTop, PushInit, SelectHeartbeat, SelectDone, WaitReconnect, ClientInv
<1>7. CASE PushConfig
  BY <1>7 DEF PushConfig, Pushed, ClientInv
<1>8. CASE SelectApplied
  BY <1>8 DEF SelectApplied, ClientInv, Spawn
<1>9. CASE SelectInit
  BY <1>9 DEF SelectInit, ClientInv, Spawn
<1>10. ASSUME NEW c \in Conns,
              SelectConfig(c) \/ SelectRoutes(c) \/ SelectConnect(c) \/ SelectDisconnect(c)
       PROVE  ClientInv'
  BY <1>1, <1>10 DEF SelectConfig, SelectRoutes, ReceiveRoutes, SelectConnect, SelectDisconnect,
     ClientInv
<1>11. ASSUME NEW s \in senders, SelectAck(s)
       PROVE  ClientInv'
  BY <1>11 DEF SelectAck, ReceiveAck, ClientInv
<1>12. CASE ApplierTake
  BY <1>12 DEF ApplierTake, ClientInv
<1>13. CASE ApplierDeclares
  BY <1>13 DEF ApplierDeclares, ClientInv, Spawn
<1>14. CASE ApplierApply \/ ApplierExit
  BY <1>14 DEF ApplierApply, ApplierExit, ClientInv
<1>15. CASE UserDeclares
  BY <1>15 DEF UserDeclares, ClientInv, Spawn
<1>16. ASSUME NEW s \in senders, NEW t \in Sender, Moves(s, t), Senders
       PROVE  ClientInv'
  <2>1. client # 0 /\ UNCHANGED <<pc, client, epoch, remoteConfigsCh, applier>>
    BY <1>16, SendersFrame DEF ClientInv
  <2>2. t.stage # "spawned" /\ t.client \in 1..client
    BY <1>0, <1>16, <2>1 DEF Moves, ClientInv
  <2>3. \A u \in senders' : u \in senders \/ u = t
    BY <1>16 DEF Moves
  <2>. QED  BY <2>1, <2>2, <2>3 DEF ClientInv
<1>17. CASE Senders
  BY <1>15, <1>16, <1>17, SenderMoves
<1>18. CASE Service
  BY <1>1, <1>18, ServiceFrame
<1>19. CASE Shutdown \/ UNCHANGED vars
  BY <1>1, <1>19 DEF Shutdown, ShutdownCancels, ShutdownCloses, vars
<1>. QED
  BY <1>2, <1>3, <1>4, <1>5, <1>6, <1>7, <1>8, <1>9, <1>10, <1>11, <1>12, <1>13, <1>14,
     <1>17, <1>18, <1>19 DEF Next, Main, Applier

-----------------------------------------------------------------------------
(* The applier waits for the DeclareRoutes of its callback.                *)

LEMMA DeclaringStep == TypeOK /\ DeclaringInv /\ [Next]_vars => DeclaringInv'
<1>. SUFFICES ASSUME TypeOK, DeclaringInv, [Next]_vars PROVE DeclaringInv'
  OBVIOUS
<1>1. ASSUME applier' = applier, \A s \in senders' : s \in senders \/ s.kind # "updateApplier"
      PROVE  DeclaringInv'
  BY <1>1 DEF DeclaringInv
<1>. USE DEF mainVars, mainData, notMain, applierVars, senderVars
<1>2. CASE DialSucceeds \/ DialFails \/ DialCancelled \/ LoopTop \/ PushInit \/ PushConfig
           \/ WaitReconnect \/ SelectHeartbeat \/ SelectDone
  BY <1>1, <1>2 DEF DialSucceeds, DialFails, vars, DialCancelled, ReturnsFromDial, LoopTop, PushInit,
     PushConfig, Pushed, WaitReconnect, SelectHeartbeat, SelectDone
<1>3. CASE AssignClient \/ SelectApplied \/ SelectInit
  BY <1>1, <1>3 DEF AssignClient, SelectApplied, SelectInit, Spawn
<1>4. ASSUME NEW c \in Conns,
             SelectConfig(c) \/ SelectRoutes(c) \/ SelectConnect(c) \/ SelectDisconnect(c)
      PROVE  DeclaringInv'
  BY <1>1, <1>4 DEF SelectConfig, SelectRoutes, ReceiveRoutes, SelectConnect, SelectDisconnect
<1>5. ASSUME NEW s \in senders, SelectAck(s)
      PROVE  DeclaringInv'
  BY <1>5 DEF SelectAck, ReceiveAck, DeclaringInv
<1>6. CASE ApplierDeclares
  BY <1>6 DEF ApplierDeclares, DeclaringInv, Spawn
<1>7. CASE ApplierTake \/ ApplierApply \/ ApplierExit
  BY <1>7 DEF ApplierTake, ApplierApply, ApplierExit, DeclaringInv
<1>8. CASE UserDeclares
  BY <1>1, <1>8 DEF UserDeclares, Spawn
<1>9. ASSUME NEW s \in senders, NEW t \in Sender, Moves(s, t), Senders
      PROVE  DeclaringInv'
  <2>1. applier' = applier
    BY <1>9, SendersFrame
  <2>2. t.kind = s.kind /\ senders' = (senders \ {s}) \cup {t}
    BY <1>9 DEF Moves
  <2>. QED  BY <2>1, <2>2 DEF DeclaringInv
<1>10. CASE Senders
  BY <1>8, <1>9, <1>10, SenderMoves
<1>11. CASE Service
  BY <1>1, <1>11, ServiceFrame
<1>12. CASE Shutdown \/ UNCHANGED vars
  BY <1>1, <1>12 DEF Shutdown, ShutdownCancels, ShutdownCloses, vars
<1>. QED
  BY <1>2, <1>3, <1>4, <1>5, <1>6, <1>7, <1>10, <1>11, <1>12 DEF Next, Main, Applier

-----------------------------------------------------------------------------
(* Nothing of the handshake before a configuration is live.                *)

LEMMA LiveStep == TypeOK /\ DeclaringInv /\ ConfigFirst /\ [Next]_vars => ConfigFirst'
<1>. SUFFICES ASSUME TypeOK, DeclaringInv, ConfigFirst, [Next]_vars PROVE ConfigFirst'
  OBVIOUS
<1>0. moduleState \in ModuleState /\ DOMAIN heard = Conns
  BY DEF TypeOK
<1>1. ASSUME UNCHANGED <<applier, applying, live>>, Under' => Under
      PROVE  ConfigFirst'
  BY <1>1 DEF ConfigFirst
<1>2. ASSUME UNCHANGED <<applier, applying, live, remoteConfigAppliedCh, heard>>,
             moduleState'.remoteConfigReady => moduleState.remoteConfigReady,
             initChan' = 1 => initChan = 1 \/ pc = "pushInit",
             pc' = "pushInit" => pc = "pushInit" \/ moduleState.remoteConfigReady,
             \A s \in senders' : s \in senders \/ s.kind \notin Handshake
      PROVE  ConfigFirst'
  BY <1>1, <1>2 DEF Under
<1>. USE DEF mainVars, mainData, notMain, applierVars, senderVars, netVars, netData
<1>3. CASE DialSucceeds \/ DialFails \/ DialCancelled \/ PushConfig \/ WaitReconnect \/ SelectDone
           \/ SelectHeartbeat \/ PushInit
  BY <1>2, <1>3 DEF DialSucceeds, DialFails, vars, DialCancelled, ReturnsFromDial, PushConfig, Pushed,
     WaitReconnect, SelectDone, SelectHeartbeat, PushInit
<1>4. CASE AssignClient
  BY <1>2, <1>4 DEF AssignClient, Spawn, Handshake
<1>5. CASE LoopTop
  <2>1. moduleState'.remoteConfigReady = moduleState.remoteConfigReady
    BY <1>0, <1>5 DEF LoopTop, ModuleState
  <2>2. pc' = "pushInit" => moduleState.remoteConfigReady
    BY <1>5 DEF LoopTop, canSendModuleReady, AllConditions
  <2>. QED  BY <1>2, <1>5, <2>1, <2>2 DEF LoopTop
<1>6. CASE SelectApplied
  BY <1>6 DEF SelectApplied, ConfigFirst, Under
<1>7. CASE SelectInit
  BY <1>7 DEF SelectInit, ConfigFirst, Under
<1>8. ASSUME NEW c \in Conns, SelectConfig(c)
      PROVE  ConfigFirst'
  BY <1>2, <1>8 DEF SelectConfig
<1>9. ASSUME NEW c \in Conns, SelectRoutes(c)
      PROVE  ConfigFirst'
  <2>1. moduleState'.remoteConfigReady = moduleState.remoteConfigReady
    BY <1>0, <1>9 DEF SelectRoutes, ReceiveRoutes, ModuleState
  <2>. QED  BY <1>2, <1>9, <2>1 DEF SelectRoutes, ReceiveRoutes
<1>10. ASSUME NEW c \in Conns, SelectConnect(c)
       PROVE  ConfigFirst'
  <2>1. PICK connected : moduleState' = WithConnected(connected)
    BY <1>10 DEF SelectConnect
  <2>2. moduleState'.remoteConfigReady = moduleState.remoteConfigReady
    BY <1>0, <2>1 DEF WithConnected, ModuleState
  <2>. QED  BY <1>2, <1>10, <2>2 DEF SelectConnect
<1>11. ASSUME NEW c \in Conns, SelectDisconnect(c)
       PROVE  ConfigFirst'
  BY <1>2, <1>11 DEF SelectDisconnect, initialState
<1>12. ASSUME NEW s \in senders, SelectAck(s)
       PROVE  ConfigFirst'
  <2>1. moduleState'.remoteConfigReady = moduleState.remoteConfigReady
    BY <1>0, <1>12 DEF SelectAck, ReceiveAck, ModuleState
  <2>2. /\ UNCHANGED <<initChan, applying, live, remoteConfigAppliedCh, heard>>
        /\ pc' = "top" /\ senders' \subseteq senders
        /\ \/ applier' = applier
           \/ s.kind = "updateApplier" /\ applier' = "declared"
    BY <1>12 DEF SelectAck, ReceiveAck
  <2>3. CASE applier' = applier
    BY <1>2, <2>1, <2>2, <2>3
  <2>4. Under' => Under
    BY <2>1, <2>2 DEF Under
  <2>5. CASE applier' = "declared" /\ s.kind = "updateApplier"
    <3>1. applying # NoTask
      BY <2>5 DEF DeclaringInv, ConfigFirst
    <3>. QED  BY <2>2, <2>4, <2>5, <3>1 DEF ConfigFirst
  <2>. QED  BY <2>2, <2>3, <2>5
<1>13. CASE ApplierTake
  BY <1>13 DEF ApplierTake, ConfigFirst, Under
<1>14. CASE ApplierDeclares
  BY <1>14 DEF ApplierDeclares, ConfigFirst, Under, Spawn, Handshake
<1>15. CASE ApplierApply
  BY <1>15 DEF ApplierApply, ConfigFirst
<1>16. CASE ApplierExit
  BY <1>16 DEF ApplierExit, ConfigFirst, Under
<1>17. CASE UserDeclares
  BY <1>2, <1>17 DEF UserDeclares, Spawn, Handshake
<1>18. ASSUME NEW s \in senders, NEW t \in Sender, Moves(s, t), Senders
       PROVE  ConfigFirst'
  <2>1. UNCHANGED <<pc, moduleState, initChan, applier, applying, live, remoteConfigAppliedCh>>
    BY <1>18, SendersFrame
  <2>2. \A c \in Conns : heard'[c] \subseteq heard[c] \cup {s.kind}
    BY <1>0, <1>18 DEF Moves
  <2>3. \A u \in senders' : u \in senders \/ u.kind = s.kind
    BY <1>18 DEF Moves
  <2>4. Under' => Under
    BY <2>1, <2>2, <2>3 DEF Under
  <2>. QED  BY <1>1, <2>1, <2>4
<1>19. CASE Senders
  BY <1>17, <1>18, <1>19, SenderMoves
<1>20. CASE Service
  BY <1>2, <1>20, ServiceFrame
<1>21. CASE Shutdown \/ UNCHANGED vars
  BY <1>2, <1>21 DEF Shutdown, ShutdownCancels, ShutdownCloses, vars
<1>. QED
  BY <1>3, <1>4, <1>5, <1>6, <1>7, <1>8, <1>9, <1>10, <1>11, <1>12, <1>13, <1>14, <1>15,
     <1>16, <1>19, <1>20, <1>21 DEF Next, Main, Applier

-----------------------------------------------------------------------------
(* The requirements are heard before MODULE:READY on the first connection. *)

LEMMA RequirementsStep == TypeOK /\ ClientInv /\ RequirementsFirst /\ [Next]_vars => RequirementsFirst'
<1>. SUFFICES ASSUME TypeOK, ClientInv, RequirementsFirst, [Next]_vars PROVE RequirementsFirst'
  OBVIOUS
<1>0. client \in Nat /\ epoch \in Nat /\ client <= epoch /\ moduleState \in ModuleState
  BY ConstantsAssumption DEF TypeOK
<1>1. ASSUME heard' = heard, client' = client, Leading' => Leading,
             \A s \in senders' : s \in senders \/ s.stage = "spawned"
      PROVE  RequirementsFirst'
  BY <1>1 DEF RequirementsFirst, Required
<1>2. ASSUME heard' = heard, client' = client,
             moduleState'.requiredSendReady => moduleState.requiredSendReady,
             initChan' = 1 => initChan = 1 \/ pc = "pushInit",
             pc' = "pushInit" => pc = "pushInit" \/ moduleState.requiredSendReady,
             \A s \in senders' : s \in senders \/ (s.stage = "spawned" /\ s.kind # "ready")
      PROVE  RequirementsFirst'
  BY <1>1, <1>2 DEF Leading
<1>. USE DEF mainVars, mainData, notMain, applierVars, senderVars, netVars, netData
<1>3. CASE DialSucceeds \/ DialFails \/ DialCancelled \/ PushConfig \/ WaitReconnect \/ SelectDone
           \/ SelectHeartbeat \/ PushInit
  BY <1>2, <1>3 DEF DialSucceeds, DialFails, vars, DialCancelled, ReturnsFromDial, PushConfig, Pushed,
     WaitReconnect, SelectDone, SelectHeartbeat, PushInit
<1>4. CASE AssignClient
  <2>1. /\ client' = epoch /\ heard' = heard
        /\ UNCHANGED <<moduleState, initChan>> /\ pc' = "top"
        /\ senders' = senders \cup Spawn("schema", epoch)
    BY <1>4 DEF AssignClient
  <2>2. Leading' => Leading
    BY <2>1 DEF Leading, Spawn
  <2>3. \A s \in senders' : s \in senders \/ s.stage = "spawned"
    BY <2>1 DEF Spawn
  <2>. QED  BY <1>0, <2>1, <2>2, <2>3 DEF RequirementsFirst, Required
<1>5. CASE LoopTop
  <2>1. moduleState'.requiredSendReady = moduleState.requiredSendReady
    BY <1>0, <1>5 DEF LoopTop, ModuleState
  <2>2. pc' = "pushInit" => moduleState.requiredSendReady
    BY <1>5 DEF LoopTop, canSendModuleReady, AllConditions
  <2>. QED  BY <1>2, <1>5, <2>1, <2>2 DEF LoopTop
<1>6. CASE SelectApplied
  <2>1. moduleState'.requiredSendReady = moduleState.requiredSendReady
    BY <1>0, <1>6 DEF SelectApplied, ModuleState
  <2>. QED  BY <1>2, <1>6, <2>1 DEF SelectApplied, Spawn
<1>7. CASE SelectInit
  <2>1. Leading
    BY <1>7 DEF SelectInit, Leading
  <2>2. \A s \in senders' : s \in senders \/ s.stage = "spawned"
    BY <1>7 DEF SelectInit, Spawn
  <2>. QED  BY <1>1, <1>7, <2>1, <2>2 DEF SelectInit
<1>8. ASSUME NEW c \in Conns, SelectConfig(c)
      PROVE  RequirementsFirst'
  BY <1>2, <1>8 DEF SelectConfig
<1>9. ASSUME NEW c \in Conns, SelectRoutes(c)
      PROVE  RequirementsFirst'
  <2>1. moduleState'.requiredSendReady = moduleState.requiredSendReady
    BY <1>0, <1>9 DEF SelectRoutes, ReceiveRoutes, ModuleState
  <2>. QED  BY <1>2, <1>9, <2>1 DEF SelectRoutes, ReceiveRoutes
<1>10. ASSUME NEW c \in Conns, SelectConnect(c)
       PROVE  RequirementsFirst'
  <2>1. PICK connected : moduleState' = WithConnected(connected)
    BY <1>10 DEF SelectConnect
  <2>2. moduleState'.requiredSendReady = moduleState.requiredSendReady
    BY <1>0, <2>1 DEF WithConnected, ModuleState
  <2>. QED  BY <1>2, <1>10, <2>2 DEF SelectConnect
<1>11. ASSUME NEW c \in Conns, SelectDisconnect(c)
       PROVE  RequirementsFirst'
  BY <1>2, <1>11 DEF SelectDisconnect, initialState
<1>12. ASSUME NEW s \in senders, SelectAck(s)
       PROVE  RequirementsFirst'
  <2>1. /\ UNCHANGED <<heard, client, initChan>> /\ pc' = "top"
        /\ senders' \subseteq senders
    BY <1>12 DEF SelectAck, ReceiveAck
  <2>2. moduleState'.requiredSendReady
          => moduleState.requiredSendReady \/ (s.kind = "requirements" /\ s.stage = "acked")
    BY <1>0, <1>12 DEF SelectAck, ReceiveAck, ModuleState
  <2>3. CASE s.kind = "requirements" /\ s.stage = "acked"
    <3>1. s.client \in 1..client
      BY <2>3 DEF ClientInv
    <3>2. client <= 1 => Required
      BY <1>0, <2>3, <3>1 DEF RequirementsFirst
    <3>. QED  BY <2>1, <3>2 DEF RequirementsFirst, Required
  <2>4. CASE ~(s.kind = "requirements" /\ s.stage = "acked")
    BY <1>1, <2>1, <2>2, <2>4 DEF Leading
  <2>. QED  BY <2>3, <2>4
<1>13. CASE Applier
  BY <1>2, <1>13 DEF Applier, ApplierTake, ApplierDeclares, ApplierApply, ApplierExit, Spawn
<1>14. CASE UserDeclares
  BY <1>2, <1>14 DEF UserDeclares, Spawn
<1>15. ASSUME NEW s \in senders, NEW t \in Sender, Moves(s, t), Senders
       PROVE  RequirementsFirst'
  <2>1. UNCHANGED <<pc, moduleState, initChan, client>>
    BY <1>15, SendersFrame
  <2>2. s.stage # "spawned" => s.client \in Conns /\ 1 \in Conns
    BY <1>0, ConstantsAssumption DEF ClientInv, TypeOK, Conns
  <2>3. Required => Required'
    BY <1>15, <2>2 DEF Moves, Required, TypeOK
  <2>4. t.kind = s.kind /\ \A u \in senders' : u \in senders \/ u = t
    BY <1>15 DEF Moves
  <2>5. t.stage # "spawned"
    BY <1>15 DEF Moves
  <2>6. t.kind = "requirements" /\ t.client = 1 /\ t.stage \in {"received", "acked"} => Required'
    <3>1. CASE s.stage = "emitting" /\ t.stage = "received" /\ t.client = s.client
               /\ heard' = [heard EXCEPT ![s.client] = @ \cup {s.kind}]
      BY <2>2, <2>4, <3>1 DEF Required, TypeOK
    <3>2. CASE s.stage = "received" /\ t.stage = "acked" /\ t.client = s.client
      BY <2>3, <2>4, <3>2 DEF RequirementsFirst
    <3>. QED  BY <1>15, <3>1, <3>2 DEF Moves
  <2>7. t.kind = "ready" /\ t.client = 1 => Required'
    <3>1. CASE s.stage = "spawned" /\ t.client = client
      <4>1. s.kind = "ready" => Leading
        BY <3>1 DEF Leading
      <4>2. client = 1 => client <= 1
        OBVIOUS
      <4>. QED  BY <2>3, <2>4, <3>1, <4>1, <4>2 DEF RequirementsFirst
    <3>2. CASE s.stage # "spawned" /\ t.client = s.client
      BY <2>3, <2>4, <3>2 DEF RequirementsFirst
    <3>. QED  BY <1>15, <3>1, <3>2 DEF Moves
  <2>8. 1 \in Conns /\ "ready" \in heard'[1] => Required'
    <3>1. CASE heard' = heard
      BY <2>3, <3>1 DEF RequirementsFirst
    <3>2. CASE s.stage = "emitting" /\ heard' = [heard EXCEPT ![s.client] = @ \cup {s.kind}]
      BY <2>2, <2>3, <3>2 DEF RequirementsFirst, TypeOK
    <3>. QED  BY <1>15, <3>1, <3>2 DEF Moves
  <2>9. Leading' => Leading
    BY <2>1, <2>4, <2>5 DEF Leading
  <2>10. ASSUME NEW u \in senders'
         PROVE  /\ u.kind = "requirements" /\ u.client = 1 /\ u.stage \in {"received", "acked"}
                     => Required'
                /\ u.kind = "ready" /\ u.client = 1 /\ u.stage # "spawned" => Required'
    BY <2>3, <2>4, <2>6, <2>7 DEF RequirementsFirst
  <2>11. client' <= 1 /\ Leading' => Required'
    BY <2>1, <2>3, <2>9 DEF RequirementsFirst
  <2>. QED  BY <2>8, <2>10, <2>11 DEF RequirementsFirst, Conns
<1>16. CASE Senders
  BY <1>14, <1>15, <1>16, SenderMoves
<1>17. CASE Service
  BY <1>2, <1>17, ServiceFrame
<1>18. CASE Shutdown \/ UNCHANGED vars
  BY <1>2, <1>18 DEF Shutdown, ShutdownCancels, ShutdownCloses, vars
<1>. QED
  BY <1>3, <1>4, <1>5, <1>6, <1>7, <1>8, <1>9, <1>10, <1>11, <1>12, <1>13, <1>16, <1>17,
     <1>18 DEF Next, Main

-----------------------------------------------------------------------------
(* The service never hears requirements or MODULE:READY before a           *)
(* configuration is live, nor, on the first connection, MODULE:READY       *)
(* before the requirements (the conditions of canSendModuleReady and the   *)
(* goroutines of ackEvent), whatever faults and callers there are.         *)
THEOREM HandshakeInOrder == Spec => []FirstHandshakeInOrder
<1>1. Init => ClientInv /\ DeclaringInv /\ ConfigFirst /\ RequirementsFirst
  <2>. SUFFICES ASSUME Init PROVE ClientInv /\ DeclaringInv /\ ConfigFirst /\ RequirementsFirst
    OBVIOUS
  <2>1. ~Under /\ ~Leading
    BY DEF Init, initialState, Under, Leading
  <2>. QED  BY <2>1 DEF Init, ClientInv, DeclaringInv, ConfigFirst, RequirementsFirst
<1>2. ConfigFirst /\ RequirementsFirst => FirstHandshakeInOrder
  BY DEF ConfigFirst, Under, Handshake, RequirementsFirst, Required, FirstHandshakeInOrder
<1>. QED
  BY <1>1, <1>2, TypeCorrect, ClientStep, DeclaringStep, LiveStep, RequirementsStep, PTL DEF Spec

=============================================================================
