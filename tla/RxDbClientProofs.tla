--------------------------- MODULE RxDbClientProofs ---------------------------
(***************************************************************************)
(* Proofs about RxDbClient, for any goroutines, configurations and number  *)
(* of calls.                                                               *)
(***************************************************************************)
EXTENDS RxDbClient, TLAPS

AllPlaces == UserPlaces \cup WriterPlaces

(* A goroutine moves alone, or a writer unlocks and readers enter.         *)
LEMMA PlacesAfter ==
  ASSUME TypeOK
  PROVE  /\ \A u \in Users, place \in UserPlaces :
              Move(u, place) =>
                /\ pc' \in [Goroutines -> AllPlaces] /\ pc'[u] = place
                /\ \A v \in Users : pc'[v] \in UserPlaces
                /\ \A w \in Writers : pc'[w] \in WriterPlaces /\ pc'[w] = pc[w]
                /\ \A v \in Users : v # u => pc'[v] = pc[v]
         /\ \A w \in Writers, place \in WriterPlaces :
              Move(w, place) =>
                /\ pc' \in [Goroutines -> AllPlaces] /\ pc'[w] = place
                /\ \A u \in Users : pc'[u] \in UserPlaces /\ pc'[u] = pc[u]
                /\ \A v \in Writers : pc'[v] \in WriterPlaces
                /\ \A v \in Writers : v # w => pc'[v] = pc[v]
         /\ \A w \in Writers :
              Unlock(w) =>
                /\ pc' \in [Goroutines -> AllPlaces] /\ pc'[w] = "idle"
                /\ gate' = NoGoroutine
                /\ \A u \in Users : pc'[u] \in UserPlaces
                /\ \A u \in Users : pc'[u] = IF pc[u] = "blocked" THEN "reading" ELSE pc[u]
                /\ \A v \in Writers : pc'[v] \in WriterPlaces
                /\ \A v \in Writers : v # w => pc'[v] = pc[v]
<1>. USE ConstantsAssumption DEF TypeOK, AllPlaces, Goroutines, Writers
<1>1. ASSUME NEW u \in Users, NEW place \in UserPlaces, Move(u, place)
      PROVE  /\ pc' \in [Goroutines -> AllPlaces] /\ pc'[u] = place
             /\ \A v \in Users : pc'[v] \in UserPlaces
             /\ \A w \in Writers : pc'[w] \in WriterPlaces /\ pc'[w] = pc[w]
             /\ \A v \in Users : v # u => pc'[v] = pc[v]
  BY <1>1 DEF Move
<1>2. ASSUME NEW w \in Writers, NEW place \in WriterPlaces, Move(w, place)
      PROVE  /\ pc' \in [Goroutines -> AllPlaces] /\ pc'[w] = place
             /\ \A u \in Users : pc'[u] \in UserPlaces /\ pc'[u] = pc[u]
             /\ \A v \in Writers : pc'[v] \in WriterPlaces
             /\ \A v \in Writers : v # w => pc'[v] = pc[v]
  BY <1>2 DEF Move
<1>3. ASSUME NEW w \in Writers, Unlock(w)
      PROVE  /\ pc' \in [Goroutines -> AllPlaces] /\ pc'[w] = "idle"
             /\ gate' = NoGoroutine
             /\ \A u \in Users : pc'[u] \in UserPlaces
             /\ \A u \in Users : pc'[u] = IF pc[u] = "blocked" THEN "reading" ELSE pc[u]
             /\ \A v \in Writers : pc'[v] \in WriterPlaces
             /\ \A v \in Writers : v # w => pc'[v] = pc[v]
  BY <1>3 DEF Unlock, UserPlaces, WriterPlaces
<1>. QED  BY <1>1, <1>2, <1>3

(* Every variable keeps its type; a goroutine is only where it can be.     *)
THEOREM DbTypeCorrect == Spec => []TypeOK
<1>1. Init => TypeOK
  <2>. SUFFICES ASSUME Init PROVE TypeOK
    OBVIOUS
  <2>. USE ConstantsAssumption DEF Init, TypeOK
  <2>1. pc \in [Goroutines -> UserPlaces \cup WriterPlaces]
        /\ (\A u \in Users : pc[u] \in UserPlaces)
        /\ (\A w \in Writers : pc[w] \in WriterPlaces)
    BY DEF UserPlaces, WriterPlaces, Goroutines
  <2>. HIDE DEF Goroutines, Writers, UserPlaces, WriterPlaces
  <2>. QED  BY <2>1
<1>2. TypeOK /\ [Next]_vars => TypeOK'
  <2>. SUFFICES ASSUME TypeOK, [Next]_vars PROVE TypeOK'
    OBVIOUS
  <2>. USE ConstantsAssumption, PlacesAfter DEF AllPlaces
  <2>1. ASSUME NEW u \in Users, RLock(u) \/ User(u) PROVE TypeOK'
    <3>1. CASE RLock(u)
      BY <3>1 DEF RLock, TypeOK, clientVars, callVars, UserPlaces
    <3>2. CASE Visit(u)
      BY <3>2 DEF Visit, TypeOK, clientVars, callVars, UserPlaces
    <3>3. CASE Visited(u)
      BY <3>3 DEF Visited, TypeOK, clientVars, callVars, UserPlaces
    <3>. QED  BY <2>1, <3>1, <3>2, <3>3 DEF User
  <2>2. ASSUME NEW w \in Writers, Announce(w) PROVE TypeOK'
    BY <2>2 DEF Announce, TypeOK, clientVars, callVars, WriterPlaces
  <2>3. ASSUME NEW w \in Writers, Lock(w) PROVE TypeOK'
    BY <2>3 DEF Lock, TypeOK, clientVars, callVars, WriterPlaces, CriticalPlaces
  <2>4. ASSUME NEW r \in Receivers, Receiver(r) PROVE TypeOK'
    <3>. r \in Writers
      BY DEF Writers
    <3>1. CASE Lock(r)
      BY <3>1, <2>3
    <3>2. CASE Check(r)
      BY <3>2 DEF Check, TypeOK, clientVars, callVars, WriterPlaces, CriticalPlaces
    <3>3. CASE EnsureSchema(r)
      BY <3>3 DEF EnsureSchema, GiveUp, TypeOK, clientVars, callVars, WriterPlaces, CriticalPlaces
    <3>4. CASE EnsureMigrations(r)
      BY <3>4 DEF EnsureMigrations, GiveUp, TypeOK, clientVars, callVars, WriterPlaces, CriticalPlaces
    <3>5. CASE Connect(r)
      BY <3>5 DEF Connect, GiveUp, TypeOK, clientVars, callVars, WriterPlaces, CriticalPlaces
    <3>6. CASE CloseOld(r)
      BY <3>6 DEF CloseOld, CloseDb, TypeOK, callVars, WriterPlaces, CriticalPlaces
    <3>7. CASE Install(r)
      <4>1. db' \in Calls \cup {None} /\ lastConf' \in Configs \cup {ZeroConfig}
        BY <3>7 DEF Install, Asked, TypeOK
      <4>. QED  BY <3>7, <4>1 DEF Install, TypeOK, callVars, WriterPlaces, CriticalPlaces
    <3>8. CASE Notified(r)
      BY <3>8 DEF Notified, TypeOK, clientVars, callVars, WriterPlaces, CriticalPlaces
    <3>. QED  BY <2>4, <3>1, <3>2, <3>3, <3>4, <3>5, <3>6, <3>7, <3>8 DEF Receiver
  <2>5. ASSUME NEW r \in Receivers, NEW c \in Configs, Receive(r, c) PROVE TypeOK'
    <3>. r \in Writers
      BY DEF Writers
    <3>1. calls' \in 0 .. MaxCalls /\ call' \in [Receivers -> Calls \cup {None}]
          /\ config' \in [Calls \cup {None} -> Configs \cup {ZeroConfig}]
      BY <2>5 DEF Receive, TypeOK, Calls
    <3>. QED  BY <2>5, <3>1 DEF Receive, TypeOK, clientVars, WriterPlaces
  <2>6. ASSUME NEW c \in Closers, CallClose(c) \/ Closer(c) PROVE TypeOK'
    <3>. c \in Writers
      BY DEF Writers
    <3>1. CASE CallClose(c)
      BY <3>1 DEF CallClose, TypeOK, clientVars, callVars, WriterPlaces
    <3>2. CASE Lock(c)
      BY <3>2, <2>3
    <3>3. CASE Close(c)
      BY <3>3 DEF Close, CloseDb, TypeOK, callVars
    <3>. QED  BY <2>6, <3>1, <3>2, <3>3 DEF Closer
  <2>7. CASE UNCHANGED vars
    BY <2>7 DEF vars, clientVars, callVars, TypeOK
  <2>. QED  BY <2>1, <2>2, <2>4, <2>5, <2>6, <2>7 DEF Next
<1>. QED  BY <1>1, <1>2, PTL DEF Spec

-----------------------------------------------------------------------------

(* The lock: the writer ahead is the only one past its Lock, the readers   *)
(* are out while it works, and a visitor works with the pool in place.     *)
LockInv ==
  /\ \A w \in Writers : gate = w <=> pc[w] \notin {"idle", "lock"}
  /\ \A w \in Writers : pc[w] \in CriticalPlaces => NoReaders
  /\ \A u \in Users : IF pc[u] = "visiting" THEN using[u] = db /\ db # None
                                            ELSE using[u] = None

LEMMA LockInvariant == Spec => []LockInv
<1>1. Init => LockInv
  <2>. SUFFICES ASSUME Init PROVE LockInv
    OBVIOUS
  <2>1. \A g \in Goroutines : pc[g] = "idle"
    BY DEF Init
  <2>. QED  BY <2>1, ConstantsAssumption DEF Init, LockInv, Goroutines, Writers, CriticalPlaces
<1>2. TypeOK /\ LockInv /\ [Next]_vars => LockInv'
  <2>. SUFFICES ASSUME TypeOK, LockInv, [Next]_vars PROVE LockInv'
    OBVIOUS
  <2>. USE PlacesAfter
  <2>0. /\ NoGoroutine \notin Writers
        /\ Receivers \subseteq Writers /\ Closers \subseteq Writers
        /\ using \in [Users -> Calls \cup {None}]
    BY ConstantsAssumption DEF Writers, TypeOK
  <2>1. ASSUME NEW u \in Users, RLock(u) \/ User(u) PROVE LockInv'
    <3>1. CASE RLock(u)
      BY <2>0, <3>1 DEF RLock, LockInv, NoReaders, HasRLock, clientVars, UserPlaces, CriticalPlaces
    <3>2. CASE Visit(u)
      BY <2>0, <3>2 DEF Visit, LockInv, NoReaders, HasRLock, clientVars, UserPlaces
    <3>3. CASE Visited(u)
      BY <2>0, <3>3 DEF Visited, LockInv, NoReaders, HasRLock, clientVars, UserPlaces
    <3>. QED  BY <2>1, <3>1, <3>2, <3>3 DEF User
  <2>2. ASSUME NEW w \in Writers, Announce(w) PROVE LockInv'
    BY <2>0, <2>2 DEF Announce, LockInv, NoReaders, HasRLock, clientVars, WriterPlaces, CriticalPlaces
  <2>3. ASSUME NEW w \in Writers, Lock(w) PROVE LockInv'
    BY <2>0, <2>3 DEF Lock, LockInv, NoReaders, HasRLock, clientVars, WriterPlaces, CriticalPlaces
  <2>4. ASSUME NEW w \in Writers, pc[w] \in CriticalPlaces, UNCHANGED using,
               \/ Unlock(w)
               \/ UNCHANGED gate /\ \E place \in CriticalPlaces : Move(w, place)
        PROVE  LockInv'
    <3>1. /\ \A v \in Writers : v # w => pc[v] \in {"idle", "lock"}
          /\ \A u \in Users : pc[u] \notin {"reading", "visiting"}
      BY <2>4, TypeOK DEF LockInv, NoReaders, HasRLock, CriticalPlaces, TypeOK, WriterPlaces
    <3>2. CASE Unlock(w)
      BY <2>0, <2>4, <3>1, <3>2 DEF LockInv, CriticalPlaces, WriterPlaces, UserPlaces
    <3>3. ASSUME UNCHANGED gate, NEW place \in CriticalPlaces, Move(w, place) PROVE LockInv'
      <4>1. place \in WriterPlaces /\ place \notin {"idle", "lock"}
        BY DEF WriterPlaces, CriticalPlaces
      <4>. QED
        BY <2>0, <2>4, <3>1, <3>3, <4>1 DEF LockInv, NoReaders, HasRLock, CriticalPlaces
    <3>. QED  BY <2>4, <3>2, <3>3
  <2>5. ASSUME NEW r \in Receivers, Receiver(r) PROVE LockInv'
    <3>1. CASE Lock(r)
      BY <2>0, <2>3, <3>1
    <3>2. CASE ~Lock(r)
      BY <2>0, <2>4, <2>5, <3>2
         DEF Receiver, Check, EnsureSchema, EnsureMigrations, Connect, GiveUp, CloseOld,
             Install, Notified, CriticalPlaces
    <3>. QED  BY <3>1, <3>2
  <2>6. ASSUME NEW r \in Receivers, NEW c \in Configs, Receive(r, c) PROVE LockInv'
    BY <2>0, <2>6 DEF Receive, LockInv, NoReaders, HasRLock, clientVars, WriterPlaces, CriticalPlaces
  <2>7. ASSUME NEW c \in Closers, CallClose(c) \/ Closer(c) PROVE LockInv'
    <3>1. CASE CallClose(c)
      BY <2>0, <3>1 DEF CallClose, LockInv, NoReaders, HasRLock, clientVars, WriterPlaces, CriticalPlaces
    <3>2. CASE Lock(c)
      BY <2>0, <2>3, <3>2
    <3>3. CASE Close(c)
      BY <2>0, <2>4, <3>3 DEF Close, CriticalPlaces
    <3>. QED  BY <2>7, <3>1, <3>2, <3>3 DEF Closer
  <2>8. CASE UNCHANGED vars
    BY <2>8 DEF vars, clientVars, LockInv, NoReaders, HasRLock
  <2>. QED  BY <2>1, <2>2, <2>5, <2>6, <2>7, <2>8 DEF Next
<1>. QED  BY <1>1, <1>2, DbTypeCorrect, PTL DEF Spec

-----------------------------------------------------------------------------

BeforeConnect == {"lock", "drain", "locked", "schema", "migrations", "connect"}
PastCheck     == {"schema", "migrations", "connect", "replace", "install"}
Holding       == {"replace", "install"}

(* Every receiver works on a call of its own, whose pool is untouched      *)
(* until Connect.                                                          *)
CallInv ==
  /\ \A n \in Calls : n > calls => pool[n] = "none"
  /\ \A r \in Receivers : pc[r] # "idle" => call[r] \in 1 .. calls
  /\ \A r, s \in Receivers :
       r # s /\ pc[r] # "idle" /\ pc[s] # "idle" => call[r] # call[s]
  /\ \A r \in Receivers : pc[r] \in BeforeConnect => pool[call[r]] = "none"

(* An open pool is the one in place, made for lastConf, or in the hands of *)
(* a receiver that is about to put it there, for a configuration that is   *)
(* not lastConf.                                                           *)
PoolInv ==
  /\ config[None] = ZeroConfig
  /\ db # None => pool[db] = "open" /\ config[db] = lastConf
  /\ active /\ (\A r \in Receivers : pc[r] # "install") => config[db] = lastConf
  /\ ~active => db = None
  /\ \A r \in Receivers :
       /\ pc[r] \in PastCheck \cup {"notify"} => active
       /\ pc[r] \in PastCheck => Asked(r) # lastConf
       /\ pc[r] = "install" => db = None
       /\ pc[r] \in Holding => pool[call[r]] = "open"
  /\ \A n \in Calls :
       pool[n] = "open" =>
         n = db \/ \E r \in Receivers : pc[r] \in Holding /\ call[r] = n

LEMMA Alone ==
  ASSUME TypeOK, LockInv, NEW w \in Writers, pc[w] \notin {"idle", "lock"}
  PROVE  \A v \in Writers : v # w => pc[v] \in {"idle", "lock"}
BY DEF LockInv

LEMMA ClientInvariant == Spec => [](CallInv /\ PoolInv)
<1>1. Init => CallInv /\ PoolInv
  <2>. SUFFICES ASSUME Init PROVE CallInv /\ PoolInv
    OBVIOUS
  <2>1. \A r \in Receivers : pc[r] = "idle"
    BY DEF Init, Goroutines, Writers
  <2>. QED
    BY <2>1 DEF Init, CallInv, PoolInv, Asked, Holding, PastCheck, BeforeConnect, None
<1>2. TypeOK /\ LockInv /\ CallInv /\ PoolInv /\ [Next]_vars => CallInv' /\ PoolInv'
  <2>. SUFFICES ASSUME TypeOK, LockInv, CallInv, PoolInv, [Next]_vars PROVE CallInv' /\ PoolInv'
    OBVIOUS
  <2>0. /\ Receivers \subseteq Writers /\ Closers \subseteq Writers /\ Receivers \cap Closers = {}
        /\ Calls = 1 .. MaxCalls /\ MaxCalls \in Nat /\ None = 0 /\ calls \in 0 .. MaxCalls
        /\ db \in Calls \cup {None}
        /\ call \in [Receivers -> Calls \cup {None}]
        /\ pool \in [Calls -> {"none", "open", "lost", "closed"}]
        /\ config \in [Calls \cup {None} -> Configs \cup {ZeroConfig}]
    BY ConstantsAssumption DEF Writers, Calls, None, TypeOK
  (* Steps that move no receiver past its Lock, and leave the data alone.  *)
  <2>1. ASSUME UNCHANGED <<clientVars, callVars, pool>>,
               \A r \in Receivers :
                 \/ pc'[r] = pc[r]
                 \/ pc[r] = "lock" /\ pc'[r] = "drain"
                 \/ pc[r] = "drain" /\ pc'[r] = "locked"
                 \/ pc[r] \in {"schema", "migrations", "locked", "notify"} /\ pc'[r] = "idle"
        PROVE  CallInv' /\ PoolInv'
    BY <2>0, <2>1 DEF CallInv, PoolInv, clientVars, callVars, Asked, BeforeConnect, PastCheck, Holding
  <2>2. ASSUME NEW u \in Users, RLock(u) \/ User(u) PROVE CallInv' /\ PoolInv'
    <3>1. CASE RLock(u)
      BY PlacesAfter, <2>0, <2>1, <3>1 DEF RLock, UserPlaces
    <3>2. CASE Visit(u)
      BY PlacesAfter, <2>0, <2>1, <3>2 DEF Visit, UserPlaces
    <3>3. CASE Visited(u)
      BY PlacesAfter, <2>0, <2>1, <3>3 DEF Visited, UserPlaces
    <3>. QED  BY <2>2, <3>1, <3>2, <3>3 DEF User
  <2>3. ASSUME NEW w \in Writers, Announce(w) \/ Lock(w) PROVE CallInv' /\ PoolInv'
    BY PlacesAfter, <2>0, <2>1, <2>3 DEF Announce, Lock, WriterPlaces, CriticalPlaces
  <2>4. ASSUME NEW r \in Receivers, Receiver(r) PROVE CallInv' /\ PoolInv'
    <3>. r \in Writers
      BY <2>0
    <3>0. pc[r] \in CriticalPlaces => \A s \in Receivers : s # r => pc[s] \in {"idle", "lock"}
      BY <2>0, Alone DEF CriticalPlaces
    <3>1. CASE Lock(r)
      BY <2>3, <3>1
    <3>2. CASE Check(r)
      <4>1. CASE Unlock(r)
        BY PlacesAfter, <2>0, <2>1, <3>2, <4>1 DEF Check
      <4>2. CASE ~Unlock(r)
        <5>1. pc'[r] = "schema" /\ \A s \in Receivers : s # r => pc'[s] = pc[s]
          BY PlacesAfter, <2>0, <3>2, <4>2 DEF Check, WriterPlaces, CriticalPlaces
        <5>2. /\ pc[r] = "locked" /\ active /\ Asked(r) # lastConf
              /\ UNCHANGED <<clientVars, callVars, pool>>
          BY <3>2, <4>2 DEF Check, IsNews
        <5>3. CallInv'
          BY <2>0, <5>1, <5>2 DEF CallInv, callVars, BeforeConnect
        <5>4. PoolInv'
          BY <2>0, <5>1, <5>2 DEF PoolInv, Asked, clientVars, callVars, PastCheck, Holding
        <5>. QED  BY <5>3, <5>4
      <4>. QED  BY <4>1, <4>2
    <3>3. CASE EnsureSchema(r) \/ EnsureMigrations(r)
      <4>1. CASE Unlock(r)
        BY PlacesAfter, <2>0, <2>1, <3>3, <4>1 DEF EnsureSchema, EnsureMigrations, GiveUp
      <4>2. CASE ~Unlock(r)
        <5>1. /\ pc[r] \in {"schema", "migrations"} /\ pc'[r] \in {"migrations", "connect"}
              /\ \A s \in Receivers : s # r => pc'[s] = pc[s]
              /\ UNCHANGED <<clientVars, callVars, pool>>
          BY PlacesAfter, <2>0, <3>3, <4>2
             DEF EnsureSchema, EnsureMigrations, GiveUp, WriterPlaces, CriticalPlaces
        <5>2. CallInv'
          BY <2>0, <5>1 DEF CallInv, callVars, BeforeConnect
        <5>3. PoolInv'
          BY <2>0, <5>1 DEF PoolInv, Asked, clientVars, callVars, PastCheck, Holding
        <5>. QED  BY <5>2, <5>3
      <4>. QED  BY <4>1, <4>2
    <3>4. CASE Connect(r)
      <4>1. /\ pc[r] = "connect" /\ UNCHANGED <<clientVars, callVars>>
            /\ \A s \in Receivers : s # r => pc'[s] = pc[s]
            /\ \/ pool' = [pool EXCEPT ![call[r]] = "lost"] /\ pc'[r] = "idle"
               \/ pool' = [pool EXCEPT ![call[r]] = "open"] /\ pc'[r] = "replace"
        BY PlacesAfter, <2>0, <3>4 DEF Connect, GiveUp, WriterPlaces, CriticalPlaces
      <4>2. /\ \A s \in Receivers : s # r => pc[s] \in {"idle", "lock"}
            /\ call[r] \in 1 .. calls /\ pool[call[r]] = "none" /\ db # call[r]
            /\ \A s \in Receivers : s # r /\ pc[s] = "lock" => call[s] # call[r]
        BY <2>0, <3>0, <4>1 DEF CriticalPlaces, CallInv, PoolInv, BeforeConnect
      <4>. DEFINE p == call[r]
      <4>3. /\ p \in Calls /\ pool'[p] \in {"lost", "open"}
            /\ (pool'[p] = "open") = (pc'[r] = "replace") /\ pc'[r] \in {"idle", "replace"}
            /\ \A n \in Calls : n # p => pool'[n] = pool[n]
        BY <2>0, <4>1, <4>2
      <4>4. CallInv'
        <5>1. \A n \in Calls : n > calls => pool'[n] = "none"
          BY <2>0, <4>2, <4>3 DEF CallInv
        <5>2. \A s \in Receivers : pc'[s] \in BeforeConnect => s # r /\ pc[s] = "lock"
          BY <4>1, <4>2, <4>3 DEF BeforeConnect
        <5>3. \A s \in Receivers : pc'[s] \in BeforeConnect => pool'[call[s]] = "none"
          <6>. SUFFICES ASSUME NEW s \in Receivers, s # r, pc[s] = "lock"
                        PROVE  pool'[call[s]] = "none"
            BY <5>2
          <6>1. call[s] \in Calls /\ call[s] # p /\ pool[call[s]] = "none"
            BY <2>0, <4>2 DEF CallInv, BeforeConnect
          <6>. QED  BY <4>3, <6>1
        <5>4. \A s \in Receivers : pc'[s] # "idle" => pc[s] # "idle"
          BY <4>1
        <5>. QED  BY <4>1, <5>1, <5>3, <5>4 DEF CallInv, callVars
      <4>5. PoolInv'
        <5>. HIDE DEF p
        <5>1. db # None => pool'[db] = pool[db]
          BY <2>0, <4>2, <4>3 DEF p
        <5>2. \A s \in Receivers :
                /\ pc'[s] \in PastCheck \cup {"notify"} => s = r /\ pc'[s] = "replace"
                /\ pc'[s] \in Holding => s = r /\ pool'[call[s]] = "open"
          BY <4>1, <4>2, <4>3 DEF PastCheck, Holding, p
        <5>3. \A n \in Calls : pool'[n] = "open" => n = db \/ (n = p /\ pc'[r] \in Holding)
          <6>. SUFFICES ASSUME NEW n \in Calls, pool'[n] = "open"
                        PROVE  n = db \/ (n = p /\ pc'[r] \in Holding)
            OBVIOUS
          <6>1. CASE n = p
            BY <4>3, <6>1 DEF Holding
          <6>2. CASE n # p
            BY <4>1, <4>2, <4>3, <6>2 DEF PoolInv, Holding
          <6>. QED  BY <6>1, <6>2
        <5>4. pc[r] \in PastCheck /\ pc'[r] # "install"
          BY <4>1, <4>3 DEF PastCheck
        <5>. QED
          BY <4>1, <4>2, <5>1, <5>2, <5>3, <5>4 DEF PoolInv, Asked, clientVars, callVars, PastCheck, p
      <4>. QED  BY <4>4, <4>5
    <3>5. CASE CloseOld(r)
      <4>1. /\ pc[r] = "replace" /\ pc'[r] = "install" /\ db' = None
            /\ pool' = IF db = None THEN pool ELSE [pool EXCEPT ![db] = "closed"]
            /\ UNCHANGED <<lastConf, active, callVars>>
            /\ \A s \in Receivers : s # r => pc'[s] = pc[s]
        BY PlacesAfter, <2>0, <3>5 DEF CloseOld, CloseDb, WriterPlaces, CriticalPlaces
      <4>2. /\ \A s \in Receivers : s # r => pc[s] \in {"idle", "lock"}
            /\ call[r] \in 1 .. calls /\ pool[call[r]] = "open"
            /\ db # None => db <= calls /\ config[db] = lastConf /\ db # call[r]
        BY <2>0, <3>0, <4>1 DEF CriticalPlaces, CallInv, PoolInv, Holding, PastCheck, Asked
      <4>3. CallInv'
        BY <2>0, <4>1, <4>2 DEF CallInv, PoolInv, BeforeConnect, callVars
      <4>4. PoolInv'
        <5>1. pool'[call[r]] = "open"
          BY <2>0, <4>1, <4>2
        <5>2. \A n \in Calls : pool'[n] = "open" => pool[n] = "open" /\ n # db
          BY <2>0, <4>1
        <5>3. \A s \in Receivers :
                /\ pc'[s] \in PastCheck \cup {"notify"} => s = r
                /\ pc[s] \in Holding => s = r
                /\ pc'[s] \in Holding => s = r
          BY <4>1, <4>2 DEF PastCheck, Holding
        <5>4. pc[r] \in PastCheck /\ pc'[r] \in Holding
          BY <4>1 DEF PastCheck, Holding
        <5>. QED
          BY <4>1, <5>1, <5>2, <5>3, <5>4 DEF PoolInv, Asked, callVars, None
      <4>. QED  BY <4>3, <4>4
    <3>6. CASE Install(r)
      <4>1. /\ pc[r] = "install" /\ pc'[r] = "notify" /\ db' = call[r]
            /\ lastConf' = config[call[r]]
            /\ UNCHANGED <<active, callVars, pool>>
            /\ \A s \in Receivers : s # r => pc'[s] = pc[s]
        BY PlacesAfter, <2>0, <3>6 DEF Install, Asked, WriterPlaces, CriticalPlaces
      <4>2. /\ \A s \in Receivers : s # r => pc[s] \in {"idle", "lock"}
            /\ call[r] \in 1 .. calls /\ pool[call[r]] = "open" /\ db = None /\ active
        BY <2>0, <3>0, <4>1 DEF CriticalPlaces, CallInv, PoolInv, Holding, PastCheck
      <4>3. CallInv'
        BY <2>0, <4>1, <4>2 DEF CallInv, BeforeConnect, callVars
      <4>4. PoolInv'
        BY <2>0, <4>1, <4>2 DEF PoolInv, Asked, PastCheck, Holding, callVars
      <4>. QED  BY <4>3, <4>4
    <3>7. CASE Notified(r)
      BY PlacesAfter, <2>0, <2>1, <3>7 DEF Notified
    <3>. QED  BY <2>4, <3>1, <3>2, <3>3, <3>4, <3>5, <3>6, <3>7 DEF Receiver
  <2>5. ASSUME NEW r \in Receivers, NEW c \in Configs, Receive(r, c) PROVE CallInv' /\ PoolInv'
    <3>1. /\ pc[r] = "idle" /\ pc'[r] = "lock"
          /\ calls' = calls + 1 /\ calls' \in Calls
          /\ call' = [call EXCEPT ![r] = calls + 1]
          /\ config' = [config EXCEPT ![calls + 1] = c]
          /\ UNCHANGED <<clientVars, pool>>
          /\ \A s \in Receivers : s # r => pc'[s] = pc[s]
      BY PlacesAfter, <2>0, <2>5 DEF Receive, WriterPlaces
    <3>2. db <= calls /\ pool[calls + 1] = "none"
      BY <2>0, <3>1 DEF CallInv, PoolInv
    <3>3. /\ call'[r] = calls + 1 /\ config'[calls + 1] = c
          /\ \A s \in Receivers : s # r => call'[s] = call[s]
          /\ \A n \in Calls \cup {None} : n # calls + 1 => config'[n] = config[n]
      BY <2>0, <3>1
    <3>4. \A s \in Receivers : s # r /\ pc[s] # "idle" => call[s] \in 1 .. calls
      BY DEF CallInv
    <3>5. CallInv'
      <4>1. \A s \in Receivers : pc'[s] # "idle" =>
              /\ call'[s] \in 1 .. calls'
              /\ s # r => call'[s] = call[s] /\ call'[s] # call'[r]
        BY <2>0, <3>1, <3>3, <3>4
      <4>2. \A s \in Receivers : pc'[s] \in BeforeConnect => pool'[call'[s]] = "none"
        BY <3>1, <3>2, <3>3 DEF CallInv
      <4>3. \A n \in Calls : n > calls' => pool'[n] = "none"
        BY <2>0, <3>1 DEF CallInv
      <4>. QED  BY <3>1, <4>1, <4>2, <4>3 DEF CallInv
    <3>6. PoolInv'
      <4>1. config'[None] = config[None] /\ config'[db] = config[db]
        BY <2>0, <3>2, <3>3
      <4>2. \A s \in Receivers : pc'[s] \in PastCheck \cup Holding \cup {"notify", "install"} =>
              s # r /\ pc'[s] = pc[s] /\ call'[s] = call[s] /\ config'[call[s]] = config[call[s]]
        BY <2>0, <3>1, <3>3, <3>4 DEF PastCheck, Holding
      <4>3. \A s \in Receivers : pc[s] \in Holding => pc'[s] \in Holding /\ call'[s] = call[s]
        BY <3>1, <3>3 DEF Holding
      <4>. QED  BY <3>1, <4>1, <4>2, <4>3 DEF PoolInv, Asked, clientVars, Holding
    <3>. QED  BY <3>5, <3>6
  <2>6. ASSUME NEW c \in Closers, CallClose(c) \/ Closer(c) PROVE CallInv' /\ PoolInv'
    <3>. c \in Writers /\ c \notin Receivers
      BY <2>0
    <3>1. CASE CallClose(c)
      BY PlacesAfter, <2>0, <2>1, <3>1 DEF CallClose, WriterPlaces
    <3>2. CASE Lock(c)
      BY <2>3, <3>2
    <3>3. CASE Close(c)
      <4>1. /\ active' = FALSE /\ db' = None
            /\ pool' = IF db = None THEN pool ELSE [pool EXCEPT ![db] = "closed"]
            /\ UNCHANGED <<lastConf, callVars>>
            /\ \A r \in Receivers : pc'[r] = pc[r]
        BY PlacesAfter, <2>0, <3>3 DEF Close, CloseDb
      <4>2. \A r \in Receivers : pc[r] \in {"idle", "lock"}
        BY <2>0, <3>3, Alone DEF Close
      <4>3. CallInv'
        BY <2>0, <4>1, <4>2 DEF CallInv, PoolInv, BeforeConnect, callVars
      <4>4. PoolInv'
        BY <2>0, <4>1, <4>2 DEF PoolInv, Asked, PastCheck, Holding, callVars
      <4>. QED  BY <4>3, <4>4
    <3>. QED  BY <2>6, <3>1, <3>2, <3>3 DEF Closer
  <2>7. CASE UNCHANGED vars
    BY <2>1, <2>7 DEF vars
  <2>. QED  BY <2>2, <2>3, <2>4, <2>5, <2>6, <2>7 DEF Next
<1>. QED  BY <1>1, <1>2, DbTypeCorrect, LockInvariant, PTL DEF Spec

-----------------------------------------------------------------------------

(* A visitor's pool is open and in place for as long as it runs.           *)
THEOREM VisitorsSafe == Spec => []VisitorsPoolOpen
<1>1. LockInv /\ PoolInv => VisitorsPoolOpen
  BY DEF LockInv, PoolInv, VisitorsPoolOpen, None
<1>. QED  BY <1>1, LockInvariant, ClientInvariant, PTL

(* While no writer is inside, the one open pool is the one in place.       *)
THEOREM NothingLeft == Spec => []NothingLeftOpen
<1>1. TypeOK /\ LockInv /\ PoolInv => NothingLeftOpen
  <2>. SUFFICES ASSUME TypeOK, LockInv, PoolInv, gate = NoGoroutine
                PROVE  /\ {n \in Calls : pool[n] = "open"} = {db} \ {None}
                       /\ db # None => config[db] = lastConf
                       /\ ~active => db = None
    BY DEF NothingLeftOpen
  <2>1. \A r \in Receivers : pc[r] \notin Holding
    BY ConstantsAssumption DEF LockInv, Holding, Writers
  <2>2. \A n \in Calls : pool[n] = "open" => n = db
    BY <2>1 DEF PoolInv
  <2>3. db # None => db \in Calls /\ pool[db] = "open"
    BY DEF TypeOK, PoolInv
  <2>4. None \notin Calls
    BY ConstantsAssumption DEF None, Calls
  <2>. QED  BY <2>2, <2>3, <2>4 DEF PoolInv
<1>. QED  BY <1>1, DbTypeCorrect, LockInvariant, ClientInvariant, PTL

(* A working pool is closed only with the client, or for a ready successor *)
(* made for another configuration.                                         *)
THEOREM WorkingPoolStays == Spec => WorkingPoolKept
<1>. DEFINE Kept == \A n \in Calls :
                      pool[n] = "open" /\ pool'[n] # "open" =>
                        \/ ~active'
                        \/ \E m \in Calls : pool[m] = "open" /\ config[m] # config[n]
<1>1. TypeOK /\ LockInv /\ CallInv /\ PoolInv /\ [Next]_vars => [Kept]_vars
  <2>. SUFFICES ASSUME TypeOK, LockInv, CallInv, PoolInv, Next,
                       NEW n \in Calls, pool[n] = "open", pool'[n] # "open"
                PROVE  ~active' \/ \E m \in Calls : pool[m] = "open" /\ config[m] # config[n]
    OBVIOUS
  <2>1. \/ \E r \in Receivers : Connect(r) \/ CloseOld(r)
        \/ \E c \in Closers : Close(c)
    BY DEF Next, RLock, User, Visit, Visited, Announce, Receiver, Lock, Check, EnsureSchema,
           EnsureMigrations, Install, Notified, Receive, CallClose, Closer
  <2>2. ASSUME NEW r \in Receivers, Connect(r) PROVE FALSE
    <3>1. pool[call[r]] = "none" /\ pool' \in {[pool EXCEPT ![call[r]] = "lost"], [pool EXCEPT ![call[r]] = "open"]}
      BY <2>2 DEF Connect, CallInv, BeforeConnect
    <3>. QED  BY <3>1 DEF TypeOK
  <2>3. ASSUME NEW r \in Receivers, CloseOld(r)
        PROVE  \E m \in Calls : pool[m] = "open" /\ config[m] # config[n]
    <3>1. n = db /\ db # None
      BY <2>3 DEF CloseOld, CloseDb, TypeOK
    <3>2. call[r] \in Calls /\ pool[call[r]] = "open" /\ config[call[r]] # config[db]
      BY <2>3, <3>1, ConstantsAssumption
         DEF CloseOld, CallInv, PoolInv, Holding, PastCheck, Asked, TypeOK, Calls
    <3>. QED  BY <3>1, <3>2
  <2>4. ASSUME NEW c \in Closers, Close(c) PROVE ~active'
    BY <2>4 DEF Close
  <2>. QED  BY <2>1, <2>2, <2>3, <2>4
<1>. QED  BY <1>1, DbTypeCorrect, LockInvariant, ClientInvariant, PTL DEF Spec, WorkingPoolKept

(* A call ends at the check only when the client is closed or the pool in  *)
(* place was made for its configuration.                                   *)
THEOREM FailedTriedAgain == Spec => FailedConfigTriedAgain
<1>. DEFINE Tried == \A r \in Receivers :
                       pc[r] = "locked" /\ pc'[r] = "idle" => ~active \/ Asked(r) = config[db]
<1>1. TypeOK /\ LockInv /\ PoolInv /\ [Next]_vars => [Tried]_vars
  <2>. SUFFICES ASSUME TypeOK, LockInv, PoolInv, Next, NEW r \in Receivers,
                       pc[r] = "locked", pc'[r] = "idle", active
                PROVE  Asked(r) = config[db]
    OBVIOUS
  <2>0. r \in Writers /\ Receivers \subseteq Writers /\ Closers \subseteq Writers /\ r \notin Closers
        /\ r \notin Users
    BY ConstantsAssumption DEF Writers
  <2>1. \A s \in Writers : s # r => pc[s] \in {"idle", "lock"}
    BY <2>0, Alone
  <2>2. config[db] = lastConf
    BY <2>0, <2>1 DEF PoolInv
  <2>3. Check(r)
    <3>1. ASSUME NEW u \in Users, RLock(u) \/ User(u) PROVE FALSE
      BY <2>0, <3>1, PlacesAfter DEF RLock, User, Visit, Visited, UserPlaces
    <3>2. ASSUME NEW w \in Writers, Announce(w) \/ Lock(w) PROVE FALSE
      BY <2>0, <3>2, PlacesAfter DEF Announce, Lock, WriterPlaces, CriticalPlaces
    <3>3. ASSUME NEW s \in Receivers, Receiver(s) PROVE Check(r)
      BY <2>0, <2>1, <3>2, <3>3
         DEF Receiver, Check, EnsureSchema, EnsureMigrations, Connect, CloseOld, Install, Notified
    <3>4. ASSUME NEW s \in Receivers, NEW c \in Configs, Receive(s, c) PROVE FALSE
      BY <2>0, <3>4, PlacesAfter DEF Receive, WriterPlaces
    <3>5. ASSUME NEW c \in Closers, CallClose(c) \/ Closer(c) PROVE FALSE
      BY <2>0, <2>1, <3>2, <3>5, PlacesAfter DEF CallClose, Closer, Close, WriterPlaces
    <3>. QED  BY <3>1, <3>2, <3>3, <3>4, <3>5 DEF Next
  <2>4. ~IsNews(r)
    BY <2>0, <2>3, PlacesAfter DEF Check, WriterPlaces, CriticalPlaces
  <2>. QED  BY <2>2, <2>4 DEF IsNews
<1>. QED  BY <1>1, DbTypeCorrect, LockInvariant, ClientInvariant, PTL DEF Spec, FailedConfigTriedAgain

(* The client implements ManagedClient.                                    *)
THEOREM ClientImplementsPromise == Spec => KeepsClientPromise
<1>1. Init => Promise!Init
  BY DEF Init, Promise!Init, None
<1>2. TypeOK /\ LockInv /\ CallInv /\ PoolInv /\ [Next]_vars => [Promise!Next]_Promise!clientVars
  <2>. SUFFICES ASSUME TypeOK, LockInv, CallInv, PoolInv, Next
                PROVE  Promise!Next \/ UNCHANGED Promise!clientVars
    BY DEF vars, clientVars, Promise!clientVars
  <2>. DEFINE spent == {n \in Calls : pool[n] = "closed"}
  <2>0. /\ Receivers \subseteq Writers /\ Closers \subseteq Writers
        /\ Calls = 1 .. MaxCalls /\ None = 0 /\ None \notin Calls
        /\ pool \in [Calls -> {"none", "open", "lost", "closed"}]
    BY ConstantsAssumption DEF Writers, Calls, None, TypeOK
  <2>1. \A w \in Writers : pc[w] \in CriticalPlaces => Promise!Unused
    <3>. SUFFICES ASSUME NEW w \in Writers, pc[w] \in CriticalPlaces, NEW u \in Users
                  PROVE  using[u] = None
      BY DEF Promise!Unused
    <3>1. pc[u] # "visiting"
      BY DEF LockInv, NoReaders, HasRLock
    <3>. QED  BY <3>1 DEF LockInv
  <2>2. ASSUME NEW u \in Users, RLock(u) \/ User(u)
        PROVE  Promise!Next \/ UNCHANGED Promise!clientVars
    BY <2>2 DEF RLock, User, Visit, Visited, clientVars, LockInv, Promise!Next, Promise!Use,
                Promise!Release, Promise!clientVars
  <2>3. ASSUME CloseDb, Promise!Unused
        PROVE  \/ Promise!Withdraw
               \/ db = None /\ db' = db /\ spent' = spent
    <3>1. CASE db = None
      BY <2>3, <3>1 DEF CloseDb
    <3>2. CASE db # None
      <4>1. db \in Calls /\ pool' = [pool EXCEPT ![db] = "closed"] /\ db' = None
        BY <2>3, <3>2 DEF CloseDb, TypeOK
      <4>2. spent' = spent \cup {db}
        BY <2>0, <4>1
      <4>. QED  BY <2>3, <3>2, <4>1, <4>2 DEF Promise!Withdraw
    <3>. QED  BY <3>1, <3>2
  <2>4. ASSUME NEW r \in Receivers, Receiver(r)
        PROVE  Promise!Next \/ UNCHANGED Promise!clientVars
    <3>1. CASE Connect(r)
      <4>1. pool[call[r]] = "none" /\ UNCHANGED <<db, active, using>>
            /\ pool' \in {[pool EXCEPT ![call[r]] = "lost"], [pool EXCEPT ![call[r]] = "open"]}
        BY <3>1 DEF Connect, GiveUp, clientVars, CallInv, BeforeConnect
      <4>2. spent' = spent
        BY <2>0, <4>1
      <4>. QED  BY <4>1, <4>2 DEF Promise!clientVars
    <3>2. CASE CloseOld(r)
      BY <2>0, <2>1, <2>3, <3>2 DEF CloseOld, CriticalPlaces, Promise!Next, Promise!Replace, Promise!clientVars
    <3>3. CASE Install(r)
      <4>1. /\ call[r] \in Calls /\ call[r] \notin spent /\ db = None /\ active /\ Promise!Unused
            /\ db' = call[r] /\ UNCHANGED <<active, using, pool>>
        BY <2>0, <2>1, <3>3
           DEF Install, CallInv, PoolInv, Holding, PastCheck, CriticalPlaces, TypeOK
      <4>. QED  BY <4>1 DEF Promise!Next, Promise!Provide
    <3>4. CASE Lock(r) \/ Check(r) \/ EnsureSchema(r) \/ EnsureMigrations(r) \/ Notified(r)
      BY <3>4 DEF Lock, Check, EnsureSchema, EnsureMigrations, GiveUp, Notified, clientVars,
                  Promise!clientVars
    <3>. QED  BY <2>4, <3>1, <3>2, <3>3, <3>4 DEF Receiver
  <2>5. ASSUME NEW c \in Closers, Close(c)
        PROVE  Promise!Next \/ UNCHANGED Promise!clientVars
    BY <2>0, <2>1, <2>3, <2>5 DEF Close, CriticalPlaces, Promise!Next, Promise!Shut
  <2>6. CASE \/ \E w \in Writers : Announce(w) \/ Lock(w)
             \/ \E r \in Receivers, c \in Configs : Receive(r, c)
             \/ \E c \in Closers : CallClose(c)
    BY <2>6 DEF Announce, Lock, Receive, CallClose, clientVars, Promise!clientVars
  <2>. QED  BY <2>0, <2>2, <2>4, <2>5, <2>6 DEF Next, Closer
<1>. QED
  BY <1>1, <1>2, DbTypeCorrect, LockInvariant, ClientInvariant, PTL
     DEF Spec, KeepsClientPromise, Promise!Spec

=============================================================================
