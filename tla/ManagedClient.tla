---------------------------- MODULE ManagedClient ----------------------------
(***************************************************************************)
(* What a reconfigurable client promises its users (database/rx_client.go  *)
(* RxDbClient): whoever uses the client uses the connection that is in     *)
(* place and keeps it until it is done; a connection is withdrawn only     *)
(* while nobody uses it and never comes back; once the client is shut      *)
(* there is none.                                                          *)
(***************************************************************************)
CONSTANTS Users, Connections, None

VARIABLES
  current, \* the connection in place
  using,   \* what each user works with
  spent,   \* connections that were closed
  shut     \* the client was closed

clientVars == <<current, using, spent, shut>>

Init ==
  /\ current = None
  /\ using = [u \in Users |-> None]
  /\ spent = {}
  /\ shut = FALSE

Unused == \A u \in Users : using[u] = None

Use(u) ==
  /\ using[u] = None /\ current # None
  /\ using' = [using EXCEPT ![u] = current]
  /\ UNCHANGED <<current, spent, shut>>

Release(u) ==
  /\ using[u] # None
  /\ using' = [using EXCEPT ![u] = None]
  /\ UNCHANGED <<current, spent, shut>>

Withdraw ==
  /\ Unused
  /\ current # None
  /\ current' = None
  /\ spent' = spent \cup {current}

Replace == Withdraw /\ UNCHANGED <<using, shut>>

Provide(c) ==
  /\ current = None /\ ~shut
  /\ Unused
  /\ c \notin spent
  /\ current' = c
  /\ UNCHANGED <<using, spent, shut>>

Shut ==
  /\ shut' = TRUE
  /\ UNCHANGED using
  /\ \/ Withdraw
     \/ Unused /\ current = None /\ UNCHANGED <<current, spent>>

Next ==
  \/ \E u \in Users : Use(u) \/ Release(u)
  \/ Replace
  \/ \E c \in Connections : Provide(c)
  \/ Shut

Spec == Init /\ [][Next]_clientVars

=============================================================================
