-------------------------- MODULE GracefulShutdown --------------------------
(***************************************************************************)
(* The end of a module's process: Run (bootstrap/bootstrap.go) and         *)
(* gracefulShutdown (bootstrap/util.go).                                   *)
(*                                                                         *)
(* Goroutines: Run (run), gracefulShutdown (handler), the watcher it       *)
(* starts (watcher). They share signalsCh, of capacity 1, into which the   *)
(* runtime puts signals without blocking and Run puts an emptySignal,      *)
(* blocking; and finishedCh, closed by the handler. runner.run and the     *)
(* user's shutdown callback are one step each (ModuleRunner has the first  *)
(* in full); the callback may also never return.                           *)
(***************************************************************************)
EXTENDS Naturals, Sequences

CONSTANT MaxSignals   \* bound: signals sent to the process

(* What is assumed of the constant: an MC module does.                     *)
SignalsAssumption == MaxSignals \in Nat

VARIABLES
  run,        \* Run: "running", "sending", "waiting", "returned"
  handler,    \* "starting", "waiting", "cancelling", "handling", "closed", "stopped"
  watcher,    \* "none", "watching", "gone"
  signalsCh,
  registered, \* between signal.Notify and signal.Stop
  cancelled,  \* the runner's context is done
  finished,   \* finishedCh is closed
  expired,    \* terminateTimeout has passed
  signals,    \* signals sent
  requests,   \* signals sent, and run ending by itself
  exit        \* "no", "clean", "fatal"

chVars      == <<signalsCh, registered>>
handlerVars == <<handler, cancelled, finished, expired>>
osVars      == <<signals, requests>>
vars == <<run, handlerVars, watcher, chVars, osVars, exit>>

ChanCap == 1

Init ==
  /\ run = "running"
  /\ handler = "starting"
  /\ watcher = "none"
  /\ signalsCh = <<>>
  /\ registered = FALSE
  /\ cancelled = FALSE
  /\ finished = FALSE
  /\ expired = FALSE
  /\ signals = 0
  /\ requests = 0
  /\ exit = "no"

-----------------------------------------------------------------------------
(* Run.                                                                    *)

(* runner.run returned: its context is done, or it failed.                 *)
RunEnds ==
  /\ run = "running"
  /\ run' = "sending"
  /\ requests' = IF cancelled THEN requests ELSE requests + 1
  /\ UNCHANGED <<handlerVars, watcher, chVars, signals, exit>>

\* Variant: only a signal starts the shutdown.
RunSendsNothing ==
  /\ run = "sending"
  /\ run' = "waiting"
  /\ UNCHANGED <<handlerVars, watcher, chVars, osVars, exit>>

(* signalsCh <- emptySignal{}                                              *)
RunSends ==
  /\ run = "sending"
  /\ Len(signalsCh) < ChanCap
  /\ signalsCh' = Append(signalsCh, "empty")
  /\ run' = "waiting"
  /\ UNCHANGED <<handlerVars, watcher, registered, osVars, exit>>

(* <-finishedCh: Run returns and the program ends.                         *)
RunReturns ==
  /\ run = "waiting"
  /\ finished
  /\ run' = "returned"
  /\ exit' = "clean"
  /\ UNCHANGED <<handlerVars, watcher, chVars, osVars>>

-----------------------------------------------------------------------------
(* gracefulShutdown.                                                       *)

Notify ==
  /\ handler = "starting"
  /\ registered' = TRUE
  /\ handler' = "waiting"
  /\ UNCHANGED <<run, watcher, signalsCh, cancelled, finished, expired, osVars,
                 exit>>

TakeFirst ==
  /\ handler = "waiting"
  /\ signalsCh # <<>>
  /\ signalsCh' = Tail(signalsCh)
  /\ handler' = "cancelling"
  /\ watcher' = "watching"
  /\ UNCHANGED <<run, registered, cancelled, finished, expired, osVars, exit>>

(* onRunnerShutdown cancels the context, then calls the user's callback.   *)
Cancel ==
  /\ handler = "cancelling"
  /\ cancelled' = TRUE
  /\ handler' = "handling"
  /\ UNCHANGED <<run, watcher, chVars, finished, expired, osVars, exit>>

(* onShutdown returned: close(finishedCh).                                 *)
CloseFinished ==
  /\ handler = "handling"
  /\ finished' = TRUE
  /\ handler' = "closed"
  /\ UNCHANGED <<run, watcher, chVars, cancelled, expired, osVars, exit>>

(* The deferred signal.Stop.                                               *)
Stop ==
  /\ handler = "closed"
  /\ registered' = FALSE
  /\ handler' = "stopped"
  /\ UNCHANGED <<run, watcher, signalsCh, cancelled, finished, expired, osVars,
                 exit>>

-----------------------------------------------------------------------------
(* The watcher: log.Fatal ends the process at once.                        *)

WatcherExpires ==
  /\ watcher = "watching"
  /\ expired
  /\ exit' = "fatal"
  /\ UNCHANGED <<run, handlerVars, watcher, chVars, osVars>>

WatcherLeaves ==
  /\ watcher = "watching"
  /\ finished
  /\ watcher' = "gone"
  /\ UNCHANGED <<run, handlerVars, chVars, osVars, exit>>

\* Variant: the emptySignal counts as a duplicate.
IsDuplicateAny(sig) == TRUE

IsDuplicate(sig) == sig = "signal"

WatcherReceives ==
  /\ watcher = "watching"
  /\ signalsCh # <<>>
  /\ signalsCh' = Tail(signalsCh)
  /\ exit' = IF IsDuplicate(Head(signalsCh)) THEN "fatal" ELSE exit
  /\ UNCHANGED <<run, handlerVars, watcher, registered, osVars>>

-----------------------------------------------------------------------------
(* Environment.                                                            *)

(* The callback ignores its context and runs into the terminate timeout.   *)
Overrun ==
  /\ handler \in {"cancelling", "handling"}
  /\ ~expired
  /\ expired' = TRUE
  /\ UNCHANGED <<run, handler, cancelled, finished, watcher, chVars, osVars, exit>>

(* A signal: dropped when the channel is full, and the default action,     *)
(* the end of the process, when nobody is registered.                      *)
Signal ==
  /\ signals < MaxSignals
  /\ signals' = signals + 1
  /\ requests' = requests + 1
  /\ \/ /\ ~registered
        /\ exit' = "fatal"
        /\ UNCHANGED signalsCh
     \/ /\ registered
        /\ Len(signalsCh) < ChanCap
        /\ signalsCh' = Append(signalsCh, "signal")
        /\ UNCHANGED exit
     \/ /\ registered
        /\ Len(signalsCh) = ChanCap
        /\ UNCHANGED <<signalsCh, exit>>
  /\ UNCHANGED <<run, handlerVars, watcher, registered>>

-----------------------------------------------------------------------------

Run      == RunEnds \/ RunSends \/ RunReturns
Handler  == Notify \/ TakeFirst \/ Cancel \/ CloseFinished \/ Stop
Watcher  == WatcherExpires \/ WatcherLeaves \/ WatcherReceives

Next == exit = "no" /\ (Run \/ Handler \/ Watcher \/ Overrun \/ Signal)

Spec == Init /\ [][Next]_vars

(* Goroutines that can run do; time passes. Nothing is assumed of the      *)
(* user's callback, CloseFinished need not happen, nor of runner.run,      *)
(* RunEnds need not happen.                                                *)
Fairness ==
  /\ WF_vars(exit = "no" /\ (RunSends \/ RunReturns))
  /\ WF_vars(exit = "no" /\ (Notify \/ TakeFirst \/ Cancel \/ Stop))
  /\ WF_vars(exit = "no" /\ Watcher)
  /\ WF_vars(exit = "no" /\ Overrun)

FairSpec == Spec /\ Fairness

-----------------------------------------------------------------------------
(* Properties.                                                             *)

(* Every variable has its type, the channel within its capacity.           *)
TypeOK ==
  /\ run \in {"running", "sending", "waiting", "returned"}
  /\ handler \in {"starting", "waiting", "cancelling", "handling", "closed", "stopped"}
  /\ watcher \in {"none", "watching", "gone"}
  /\ signalsCh \in Seq({"signal", "empty"}) /\ Len(signalsCh) <= 1
  /\ {registered, cancelled, finished, expired} \subseteq BOOLEAN
  /\ {signals, requests} \subseteq Nat
  /\ exit \in {"no", "clean", "fatal"}

phaseBar ==
  IF exit # "no" THEN exit
  ELSE IF handler \in {"starting", "waiting"} THEN "running" ELSE "stopping"

Exit == INSTANCE ProcessExit WITH
          phase <- phaseBar, armed <- registered, handled <- finished,
          late <- expired

(* The goroutines together keep the promise of ProcessExit: a clean end    *)
(* only after the shutdown callback has finished, an abort only after a    *)
(* second request, an overrun or an unhandled signal, in every order of    *)
(* signals, the end of run and the hand-overs of signalsCh.                *)
KeepsPromise == Exit!Spec

(* runner.run returns after its context is done. ModuleRunner shows when   *)
(* it does not: main may be left in a send of the event loop.              *)
RunObeys == cancelled ~> run # "running" \/ exit # "no"

(* With at most one signal the process ends once it was asked to, whether  *)
(* the signal, the end of run or both at once asked, provided run returns  *)
(* after the cancellation or the callback does not.                        *)
PatientExit ==
  [](signals <= 1) /\ (RunObeys \/ []~finished) => (requests > 0 ~> exit # "no")

(* However many signals, a process that was asked to stop ends, provided   *)
(* that run does.                                                          *)
Exits == RunObeys => (requests > 0 ~> exit # "no")

=============================================================================
