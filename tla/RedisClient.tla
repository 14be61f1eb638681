---------------------------- MODULE RedisClient ----------------------------
(***************************************************************************)
(* Package redis: RxClient, whose ReceiveConfiguration and Close run in    *)
(* two goroutines without a lock (rx.go), and the clients they make and    *)
(* close (client.go).                                                      *)
(***************************************************************************)
EXTENDS Naturals, FiniteSets

CONSTANT MaxClients \* bound: clients made

(* What the constants have to be; the module of the run assumes it.        *)
RedisAssumption == MaxClients \in Nat

NoClient == 0
Clients == 1..MaxClients

VARIABLES
  open,
  Client,    \* rc.Client
  state,     \* of the pools: "none", "open", "failed", "closed"
  made,      \* clients made so far
  rc,        \* ReceiveConfiguration: where it is
  closer,    \* Close: where it is, and the client it took
  panicked,
  raced      \* Close was called while ReceiveConfiguration ran

vars == <<open, Client, state, made, rc, closer, panicked, raced>>

-----------------------------------------------------------------------------
(* ReceiveConfiguration.  lastCfg is never assigned: every configuration   *)
(* but the zero one is new.                                                *)

ReceiveConfiguration ==
  /\ rc = "idle" /\ ~panicked
  /\ made < MaxClients
  /\ open /\ rc' = "dial"
  /\ UNCHANGED <<open, Client, state, made, closer, panicked, raced>>

(* A client whose first PING fails is dropped as it is, never closed.      *)
NewClient ==
  /\ rc = "dial"
  /\ made' = made + 1
  /\ \/ rc' = "idle" /\ state' = [state EXCEPT ![made + 1] = "failed"]
     \/ rc' = "test" /\ state' = [state EXCEPT ![made + 1] = "open"]
  /\ UNCHANGED <<open, Client, closer, panicked, raced>>

\* Variant: the client that is replaced is forgotten.
TestsNothing ==
  /\ rc = "test"
  /\ rc' = "set"
  /\ UNCHANGED <<open, Client, state, made, closer, panicked, raced>>

TestsOld ==
  /\ rc = "test"
  /\ rc' = IF Client = NoClient THEN "set" ELSE "close"
  /\ UNCHANGED <<open, Client, state, made, closer, panicked, raced>>

(* rc.Client is read again for the call of Close.                          *)
ClosesOld ==
  /\ rc = "close"
  /\ IF Client = NoClient
       THEN panicked' = TRUE /\ rc' = "idle" /\ UNCHANGED <<Client, state>>
       ELSE /\ state' = [state EXCEPT ![Client] = "closed"]
            /\ rc' = "clear"
            /\ UNCHANGED <<Client, panicked>>
  /\ UNCHANGED <<open, made, closer, raced>>

ClearsOld ==
  /\ rc = "clear"
  /\ Client' = NoClient /\ rc' = "set"
  /\ UNCHANGED <<open, state, made, closer, panicked, raced>>

SetsNew ==
  /\ rc = "set"
  /\ Client' = made /\ rc' = "idle"
  /\ UNCHANGED <<open, state, made, closer, panicked, raced>>

Receives ==
  ReceiveConfiguration \/ NewClient \/ TestsOld \/ ClosesOld \/ ClearsOld \/ SetsNew

-----------------------------------------------------------------------------
(* Close.                                                                  *)

Close ==
  /\ closer.pc = "idle" /\ ~panicked
  /\ open' = FALSE
  /\ closer' = [closer EXCEPT !.pc = "test"]
  /\ raced' = (rc # "idle")
  /\ UNCHANGED <<Client, state, made, rc, panicked>>

CloseTests ==
  /\ closer.pc = "test"
  /\ closer' = [closer EXCEPT !.pc = IF Client = NoClient THEN "done" ELSE "take"]
  /\ UNCHANGED <<open, Client, state, made, rc, panicked, raced>>

CloseTakes ==
  /\ closer.pc = "take"
  /\ closer' = [pc |-> "clear", client |-> Client]
  /\ UNCHANGED <<open, Client, state, made, rc, panicked, raced>>

CloseClears ==
  /\ closer.pc = "clear"
  /\ Client' = NoClient
  /\ closer' = [closer EXCEPT !.pc = "close"]
  /\ UNCHANGED <<open, state, made, rc, panicked, raced>>

CloseCloses ==
  /\ closer.pc = "close"
  /\ IF closer.client = NoClient THEN panicked' = TRUE /\ UNCHANGED state
     ELSE state' = [state EXCEPT ![closer.client] = "closed"] /\ UNCHANGED panicked
  /\ closer' = [closer EXCEPT !.pc = "done"]
  /\ UNCHANGED <<open, Client, made, rc, raced>>

Closes == Close \/ CloseTests \/ CloseTakes \/ CloseClears \/ CloseCloses

-----------------------------------------------------------------------------

Init ==
  /\ open = TRUE /\ Client = NoClient
  /\ state = [c \in Clients |-> "none"] /\ made = 0
  /\ rc = "idle" /\ closer = [pc |-> "idle", client |-> NoClient]
  /\ panicked = FALSE /\ raced = FALSE

Next == Receives \/ Closes

Spec == Init /\ [][Next]_vars

-----------------------------------------------------------------------------
(* Properties.                                                             *)

AtRest == rc = "idle" /\ closer.pc \in {"idle", "done"}

(* Unless Close was called while a configuration was received, the clients *)
(* that are open at rest are exactly the current one, beside those dropped *)
(* after a failed PING, and nothing panics: a replaced client is closed,   *)
(* and a failed configuration keeps the old.                               *)
OneOpenClient ==
  /\ AtRest /\ ~raced => {c \in Clients : state[c] = "open"} = {Client} \ {NoClient}
  /\ panicked => raced

(* After a Close that raced with nothing there is no client, and no        *)
(* configuration makes one.                                                *)
ClosedForGood == closer.pc = "done" /\ ~raced => Client = NoClient /\ rc = "idle"

=============================================================================
