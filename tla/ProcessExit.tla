----------------------------- MODULE ProcessExit -----------------------------
(***************************************************************************)
(* What Run promises about the end of the process (bootstrap/bootstrap.go  *)
(* Run, bootstrap/util.go gracefulShutdown): the first request to stop     *)
(* starts the shutdown handler, the process ends cleanly only after the    *)
(* handler has finished, and it is aborted only for a reason: a second     *)
(* request, a handler that takes too long, or a signal that came before    *)
(* the library was listening.                                              *)
(***************************************************************************)
EXTENDS Naturals

VARIABLES
  phase,    \* "running", "stopping", "clean" or "fatal"
  armed,    \* signals are handled by the library
  requests, \* requests to stop: signals, and run ending by itself
  handled,  \* the shutdown handler has finished
  late      \* the handler has taken longer than the terminate timeout

exitVars == <<phase, armed, requests, handled, late>>

Init ==
  /\ phase = "running"
  /\ armed = FALSE
  /\ requests = 0
  /\ handled = FALSE
  /\ late = FALSE

Alive == phase \in {"running", "stopping"}

Arm ==
  /\ phase = "running" /\ ~armed
  /\ armed' = TRUE
  /\ UNCHANGED <<phase, requests, handled, late>>

Request ==
  /\ Alive
  /\ requests' = requests + 1
  /\ \/ UNCHANGED phase
     \/ ~armed /\ phase' = "fatal"
  /\ UNCHANGED <<armed, handled, late>>

Begin ==
  /\ phase = "running" /\ armed /\ requests > 0
  /\ phase' = "stopping"
  /\ UNCHANGED <<armed, requests, handled, late>>

Handle ==
  /\ phase = "stopping" /\ ~handled
  /\ handled' = TRUE
  /\ UNCHANGED <<phase, armed, requests, late>>

Disarm ==
  /\ phase = "stopping" /\ handled
  /\ armed' = FALSE
  /\ UNCHANGED <<phase, requests, handled, late>>

Overrun ==
  /\ phase = "stopping" /\ ~handled
  /\ late' = TRUE
  /\ UNCHANGED <<phase, armed, requests, handled>>

Abort ==
  /\ phase = "stopping"
  /\ late \/ requests > 1
  /\ phase' = "fatal"
  /\ UNCHANGED <<armed, requests, handled, late>>

Finish ==
  /\ phase = "stopping" /\ handled
  /\ phase' = "clean"
  /\ UNCHANGED <<armed, requests, handled, late>>

Next ==
  \/ Arm \/ Request \/ Begin \/ Handle \/ Disarm \/ Overrun \/ Abort \/ Finish

Spec == Init /\ [][Next]_exitVars

=============================================================================
