---------------------------- MODULE LineDelivery ----------------------------
(***************************************************************************)
(* What the line pipeline of package resources promises to the reader of   *)
(* its last channel: the lines of the input come in batches, each line in  *)
(* one batch or to the error handler and never twice, and the channel is   *)
(* closed when nothing is left.                                            *)
(***************************************************************************)
EXTENDS Naturals, FiniteSets

CONSTANT BatchSize

VARIABLES
  pending,   \* lines still to come, at first all that are asked for
  rejected,  \* lines given to the error handler
  closed     \* the last channel is closed

deliveryVars == <<pending, rejected, closed>>

Deliver(lines) ==
  /\ lines # {} /\ Cardinality(lines) <= BatchSize
  /\ pending' = pending \ lines
  /\ UNCHANGED <<rejected, closed>>

Reject(line) ==
  /\ pending' = pending \ {line}
  /\ rejected' = rejected \cup {line}
  /\ UNCHANGED closed

Close ==
  /\ pending = {}
  /\ closed' = TRUE
  /\ UNCHANGED <<pending, rejected>>

Next ==
  \/ ~closed /\ \E lines \in SUBSET pending : Deliver(lines)
  \/ ~closed /\ \E line \in pending : Reject(line)
  \/ Close

Init == rejected = {} /\ ~closed

Spec == Init /\ [][Next]_deliveryVars

=============================================================================
