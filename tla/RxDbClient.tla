------------------------------ MODULE RxDbClient ------------------------------
(***************************************************************************)
(* The database client (database/rx_client.go): goroutines that deliver a  *)
(* configuration (Receivers), use the connection (Users, Visit and         *)
(* RunInTransaction) and close the client (Closers), over the RWMutex of   *)
(* the client.                                                             *)
(*                                                                         *)
(* The n-th call of ReceiveConfiguration makes at most one connection      *)
(* pool, pool n.  The lock is that of the Go runtime: a writer that waits  *)
(* keeps new readers out, and its Unlock lets the readers in before the    *)
(* next writer.                                                            *)
(***************************************************************************)
EXTENDS Naturals

CONSTANTS
  Users, Receivers, Closers, \* goroutines
  Configs,                   \* configurations that may be received
  SchemaConfigs,             \* those with CreateSchema
  ZeroConfig,                \* DBConfiguration{}, the initial lastConf
  NoGoroutine,
  MaxCalls                   \* bound on the calls of ReceiveConfiguration

ASSUME ConstantsAssumption ==
  /\ Users \cap Receivers = {} /\ Users \cap Closers = {} /\ Receivers \cap Closers = {}
  /\ NoGoroutine \notin Users \cup Receivers \cup Closers
  /\ MaxCalls \in Nat

Writers    == Receivers \cup Closers
Goroutines == Users \cup Writers
Calls      == 1 .. MaxCalls
None       == 0 \* no pool

VARIABLES
  options,  \* which of WithSchemaEnsuring, WithMigrationsEnsuring were given
  pc,       \* where each goroutine is
  gate,     \* the writer that holds or waits for the lock ahead of the readers
  db,       \* rc.db
  lastConf, \* rc.lastConf
  active,   \* rc.active
  calls,    \* calls of ReceiveConfiguration so far
  call,     \* the call each receiver is in
  config,   \* the argument of each call; without a call, the zero value
  pool,     \* the state of the pool each call made
  using     \* the pool each user's visitor works with

clientVars == <<db, lastConf, active>>
callVars   == <<calls, call, config>>
vars       == <<options, pc, gate, clientVars, callVars, pool, using>>

UserPlaces     == {"idle", "blocked", "reading", "visiting"}
CriticalPlaces == {"locked", "schema", "migrations", "connect", "replace", "install", "notify"}
WriterPlaces   == {"idle", "lock", "drain"} \cup CriticalPlaces

TypeOK ==
  /\ options \in SUBSET {"schema", "migrations"}
  /\ pc \in [Goroutines -> UserPlaces \cup WriterPlaces]
  /\ \A u \in Users : pc[u] \in UserPlaces
  /\ \A w \in Writers : pc[w] \in WriterPlaces
  /\ gate \in Writers \cup {NoGoroutine}
  /\ db \in Calls \cup {None}
  /\ lastConf \in Configs \cup {ZeroConfig}
  /\ active \in BOOLEAN
  /\ calls \in 0 .. MaxCalls
  /\ call \in [Receivers -> Calls \cup {None}]
  /\ config \in [Calls \cup {None} -> Configs \cup {ZeroConfig}]
  /\ pool \in [Calls -> {"none", "open", "lost", "closed"}]
  /\ using \in [Users -> Calls \cup {None}]

Init ==
  /\ options \in SUBSET {"schema", "migrations"}
  /\ pc = [g \in Goroutines |-> "idle"]
  /\ gate = NoGoroutine
  /\ db = None /\ lastConf = ZeroConfig /\ active = TRUE
  /\ calls = 0
  /\ call = [r \in Receivers |-> None]
  /\ config = [n \in Calls \cup {None} |-> ZeroConfig]
  /\ pool = [n \in Calls |-> "none"]
  /\ using = [u \in Users |-> None]

-----------------------------------------------------------------------------
(* sync.RWMutex *)

Move(g, place) == pc' = [pc EXCEPT ![g] = place]

HasRLock(u) == pc[u] \in {"reading", "visiting"}

NoReaders == \A u \in Users : ~HasRLock(u)

\* A writer takes its place before the readers that come after it.
Announce(w) ==
  /\ pc[w] = "lock" /\ gate = NoGoroutine
  /\ gate' = w
  /\ Move(w, "drain")
  /\ UNCHANGED <<options, clientVars, callVars, pool, using>>

\* Mutant: a writer does not wait for the readers.
LockTooEarly(w) ==
  /\ pc[w] = "drain"
  /\ Move(w, "locked")
  /\ UNCHANGED <<options, gate, clientVars, callVars, pool, using>>

Lock(w) ==
  /\ pc[w] = "drain" /\ NoReaders
  /\ Move(w, "locked")
  /\ UNCHANGED <<options, gate, clientVars, callVars, pool, using>>

\* Mutant: the readers that waited are not let in.
UnlockWakesNobody(w) == gate' = NoGoroutine /\ Move(w, "idle")

\* The writer returns; the readers that waited hold the lock now.
Unlock(w) ==
  /\ gate' = NoGoroutine
  /\ pc' = [g \in Goroutines |-> IF g = w THEN "idle"
                                 ELSE IF g \in Users /\ pc[g] = "blocked" THEN "reading"
                                 ELSE pc[g]]

-----------------------------------------------------------------------------
(* Visit and RunInTransaction *)

RLock(u) ==
  /\ pc[u] = "idle"
  /\ \/ gate = NoGoroutine /\ Move(u, "reading")
     \/ gate # NoGoroutine /\ Move(u, "blocked")
  /\ UNCHANGED <<options, gate, clientVars, callVars, pool, using>>

Visit(u) ==
  /\ pc[u] = "reading"
  /\ \/ /\ db = None \* ErrNotConnected
        /\ Move(u, "idle")
        /\ UNCHANGED using
     \/ /\ db # None
        /\ using' = [using EXCEPT ![u] = db]
        /\ Move(u, "visiting")
  /\ UNCHANGED <<options, gate, clientVars, callVars, pool>>

\* The visitor returns or panics; the lock is released by the defer.
Visited(u) ==
  /\ pc[u] = "visiting"
  /\ using' = [using EXCEPT ![u] = None]
  /\ Move(u, "idle")
  /\ UNCHANGED <<options, gate, clientVars, callVars, pool>>

-----------------------------------------------------------------------------
(* ReceiveConfiguration *)

Receive(r, c) ==
  /\ pc[r] = "idle"
  /\ calls < MaxCalls
  /\ calls' = calls + 1
  /\ call' = [call EXCEPT ![r] = calls + 1]
  /\ config' = [config EXCEPT ![calls + 1] = c]
  /\ Move(r, "lock")
  /\ UNCHANGED <<options, gate, clientVars, pool, using>>

Asked(r) == config[call[r]]

\* Mutants: the check against lastConf is missing; the check of active is.
IsNewsAlways(r)     == active
IsNewsWhenClosed(r) == Asked(r) # lastConf

IsNews(r) == active /\ Asked(r) # lastConf

Check(r) ==
  /\ pc[r] = "locked"
  /\ \/ ~IsNews(r) /\ Unlock(r)
     \/ IsNews(r) /\ Move(r, "schema") /\ UNCHANGED gate
  /\ UNCHANGED <<options, clientVars, callVars, pool, using>>

\* Mutant: a configuration is remembered although it was not applied.
GiveUpRemembers(r) == Unlock(r) /\ lastConf' = Asked(r) /\ UNCHANGED <<db, active>>

\* A step failed: the error handler is told and nothing else changes.
GiveUp(r) == Unlock(r) /\ UNCHANGED clientVars

EnsureSchema(r) ==
  /\ pc[r] = "schema"
  /\ \/ "schema" \in options /\ Asked(r) \in SchemaConfigs /\ GiveUp(r)
     \/ Move(r, "migrations") /\ UNCHANGED <<gate, clientVars>>
  /\ UNCHANGED <<options, callVars, pool, using>>

EnsureMigrations(r) ==
  /\ pc[r] = "migrations"
  /\ \/ "migrations" \in options /\ GiveUp(r)
     \/ Move(r, "connect") /\ UNCHANGED <<gate, clientVars>>
  /\ UNCHANGED <<options, callVars, pool, using>>

\* NewDbConnection makes a pool and queries it; when the query fails, nobody
\* keeps or closes the pool.
Connect(r) ==
  /\ pc[r] = "connect"
  /\ \/ /\ pool' = [pool EXCEPT ![call[r]] = "lost"]
        /\ GiveUp(r)
     \/ /\ pool' = [pool EXCEPT ![call[r]] = "open"]
        /\ Move(r, "replace")
        /\ UNCHANGED <<gate, clientVars>>
  /\ UNCHANGED <<options, callVars, using>>

\* rc.db.Close() and rc.db = nil, when there is a connection.
CloseDb ==
  /\ db' = None
  /\ pool' = IF db = None THEN pool ELSE [pool EXCEPT ![db] = "closed"]

\* Mutant: the old pool is dropped, not closed.
DropOld(r) ==
  /\ pc[r] = "replace"
  /\ db' = None
  /\ Move(r, "install")
  /\ UNCHANGED <<options, gate, lastConf, active, callVars, pool, using>>

CloseOld(r) ==
  /\ pc[r] = "replace"
  /\ CloseDb
  /\ Move(r, "install")
  /\ UNCHANGED <<options, gate, lastConf, active, callVars, using>>

Install(r) ==
  /\ pc[r] = "install"
  /\ db' = call[r]
  /\ lastConf' = Asked(r)
  /\ Move(r, "notify")
  /\ UNCHANGED <<options, gate, active, callVars, pool, using>>

\* The initHandler runs with the lock held.
Notified(r) ==
  /\ pc[r] = "notify"
  /\ Unlock(r)
  /\ UNCHANGED <<options, clientVars, callVars, pool, using>>

-----------------------------------------------------------------------------
(* Close *)

CallClose(c) ==
  /\ pc[c] = "idle"
  /\ Move(c, "lock")
  /\ UNCHANGED <<options, gate, clientVars, callVars, pool, using>>

Close(c) ==
  /\ pc[c] = "locked"
  /\ active' = FALSE
  /\ CloseDb
  /\ Unlock(c)
  /\ UNCHANGED <<options, lastConf, callVars, using>>

-----------------------------------------------------------------------------

User(u) == Visit(u) \/ Visited(u)

Receiver(r) ==
  \/ Lock(r) \/ Check(r) \/ EnsureSchema(r) \/ EnsureMigrations(r)
  \/ Connect(r) \/ CloseOld(r) \/ Install(r) \/ Notified(r)

Closer(c) == Lock(c) \/ Close(c)

Next ==
  \/ \E u \in Users : RLock(u) \/ User(u)
  \/ \E w \in Writers : Announce(w)
  \/ \E r \in Receivers : Receiver(r) \/ \E c \in Configs : Receive(r, c)
  \/ \E c \in Closers : CallClose(c) \/ Closer(c)

Spec == Init /\ [][Next]_vars

\* Goroutines run, visitors and handlers return, and the mutex among writers
\* serves each in turn (its starvation mode).  Nobody has to call.
Fairness ==
  /\ \A u \in Users : WF_vars(User(u))
  /\ \A w \in Writers : SF_vars(Announce(w))
  /\ \A r \in Receivers : WF_vars(Receiver(r))
  /\ \A c \in Closers : WF_vars(Closer(c))

FairSpec == Spec /\ Fairness

-----------------------------------------------------------------------------
(* Properties *)

\* A visitor works with an open pool, the one in place, for as long as it
\* runs (rx_client.go:125-134, 140-149 against 97-104 and 112-123).
VisitorsPoolOpen ==
  \A u \in Users : using[u] # None => using[u] = db /\ pool[using[u]] = "open"

\* Between calls the only open pool is the one in place, it was made for the
\* configuration remembered as the last one, and a closed client has none:
\* whatever fails, nothing is left open behind (rx_client.go:97-104, 112-122).
NothingLeftOpen ==
  gate = NoGoroutine =>
    /\ {n \in Calls : pool[n] = "open"} = {db} \ {None}
    /\ db # None => config[db] = lastConf
    /\ ~active => db = None

\* A working pool is closed only because the client is closed, or after a pool
\* for another configuration has been made: a reconfiguration that fails, or
\* brings nothing new, leaves the old one in use (rx_client.go:54-104).
WorkingPoolKept ==
  [][ \A n \in Calls :
        pool[n] = "open" /\ pool'[n] # "open" =>
          \/ ~active'
          \/ \E m \in Calls : pool[m] = "open" /\ config[m] # config[n] ]_vars

\* A configuration that failed is tried again when it is received again: a call
\* ends at the check only when the client is closed, or when the pool in place
\* was made for that very configuration, or there is none and the configuration
\* is the zero value (rx_client.go:54, 102-104).
FailedConfigTriedAgain ==
  [][ \A r \in Receivers :
        pc[r] = "locked" /\ pc'[r] = "idle" => ~active \/ Asked(r) = config[db] ]_vars

\* Every call returns, although users come again and again while writers wait
\* (rx_client.go:46-149, the RWMutex).
CallsReturn == \A g \in Goroutines : pc[g] # "idle" ~> pc[g] = "idle"

Promise == INSTANCE ManagedClient WITH
  Connections <- Calls, current <- db, shut <- ~active,
  spent <- {n \in Calls : pool[n] = "closed"}

\* The client keeps the promise of ManagedClient (rx_client.go:46-149).
KeepsClientPromise == Promise!Spec

=============================================================================
