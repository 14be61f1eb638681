----------------------- MODULE GracefulShutdownProofs -----------------------
(***************************************************************************)
(* Proofs about GracefulShutdown, for any number of signals: type          *)
(* correctness, and that it implements ProcessExit.                        *)
(***************************************************************************)
EXTENDS GracefulShutdown, TLAPS

(* The shutdown has started: the handler has taken the first request.      *)
Started == handler \notin {"starting", "waiting"}

(* What relates the goroutines: how far the handler is determines whether  *)
(* the watcher runs, the signals are handled and finishedCh is closed; and *)
(* every element of signalsCh, and the start itself, was asked for by a    *)
(* request of its own.                                                     *)
ShutdownInv ==
  /\ finished <=> handler \in {"closed", "stopped"}
  /\ registered <=> handler \notin {"starting", "stopped"}
  /\ watcher = "none" <=> ~Started
  /\ cancelled => Started
  /\ expired => Started
  /\ run # "running" => requests > 0
  /\ signalsCh # <<>> => requests > 0
  /\ Started => /\ requests > 0
                /\ signalsCh # <<>> /\ Head(signalsCh) = "signal" => requests > 1

LEMMA ChannelOps ==
  ASSUME NEW s \in Seq({"signal", "empty"}), Len(s) <= 1, NEW e \in {"signal", "empty"}
  PROVE  /\ s # <<>> => Tail(s) = <<>> /\ Head(s) \in {"signal", "empty"}
         /\ Len(s) < 1 => /\ Append(s, e) \in Seq({"signal", "empty"})
                          /\ Len(Append(s, e)) <= 1
                          /\ Append(s, e) # <<>> /\ Head(Append(s, e)) = e
<1>1. s # <<>> => Len(Tail(s)) = 0 /\ Tail(s) \in Seq({"signal", "empty"})
                  /\ Head(s) \in {"signal", "empty"}
  OBVIOUS
<1>2. s # <<>> => Tail(s) = <<>>
  BY <1>1
<1>3. Len(s) < 1 => s = <<>>
  OBVIOUS
<1>4. Len(s) < 1 => /\ Append(s, e) \in Seq({"signal", "empty"})
                    /\ Len(Append(s, e)) = 1 /\ Append(s, e)[1] = e
  BY <1>3
<1>. QED  BY <1>1, <1>2, <1>4

(* Every variable of gracefulShutdown and Run keeps its type, and          *)
(* signalsCh its capacity.                                                 *)
THEOREM ShutdownTypeCorrect == Spec => []TypeOK
<1>1. Init => TypeOK
  <2>1. <<>> \in Seq({"signal", "empty"}) /\ Len(<<>>) <= 1
    OBVIOUS
  <2>2. Init => {registered, cancelled, finished, expired} \subseteq BOOLEAN
    BY DEF Init
  <2>. QED  BY <2>1, <2>2 DEF Init, TypeOK
<1>2. TypeOK /\ [Next]_vars => TypeOK'
  <2>. SUFFICES ASSUME TypeOK, [Next]_vars PROVE TypeOK'
    OBVIOUS
  <2>. USE DEF TypeOK, chVars, handlerVars, osVars, ChanCap
  <2>1. CASE Run
    BY <2>1, ChannelOps DEF Run, RunEnds, RunSends, RunReturns
  <2>2. CASE Handler
    <3>1. CASE TakeFirst
      <4>1. signalsCh' = <<>>
        BY <3>1, ChannelOps DEF TakeFirst
      <4>. QED  BY <3>1, <4>1 DEF TakeFirst
    <3>2. CASE Notify \/ Cancel \/ CloseFinished \/ Stop
      BY <3>2 DEF Notify, Cancel, CloseFinished, Stop
    <3>. QED  BY <2>2, <3>1, <3>2 DEF Handler
  <2>3. CASE Watcher
    BY <2>3, ChannelOps DEF Watcher, WatcherExpires, WatcherLeaves, WatcherReceives
  <2>4. CASE Overrun
    BY <2>4 DEF Overrun
  <2>5. CASE Signal
    BY <2>5, ChannelOps DEF Signal
  <2>6. CASE UNCHANGED vars
    BY <2>6 DEF vars
  <2>. QED  BY <2>1, <2>2, <2>3, <2>4, <2>5, <2>6 DEF Next
<1>. QED  BY <1>1, <1>2, PTL DEF Spec

LEMMA ShutdownInvariant == Spec => []ShutdownInv
<1>1. Init => ShutdownInv
  BY DEF Init, ShutdownInv, Started
<1>2. TypeOK /\ ShutdownInv /\ [Next]_vars => ShutdownInv'
  <2>. SUFFICES ASSUME TypeOK, ShutdownInv, [Next]_vars PROVE ShutdownInv'
    OBVIOUS
  <2>. USE DEF ShutdownInv, Started, chVars, handlerVars, osVars, ChanCap
  <2>0. requests \in Nat /\ signalsCh \in Seq({"signal", "empty"}) /\ Len(signalsCh) <= 1
    BY DEF TypeOK
  <2>1. CASE Run
    BY <2>0, <2>1, ChannelOps DEF Run, RunEnds, RunSends, RunReturns
  <2>2. CASE Handler
    BY <2>0, <2>2, ChannelOps DEF Handler, Notify, TakeFirst, Cancel, CloseFinished, Stop
  <2>3. CASE Watcher
    BY <2>0, <2>3, ChannelOps DEF Watcher, WatcherExpires, WatcherLeaves, WatcherReceives
  <2>4. CASE Overrun
    BY <2>4 DEF Overrun
  <2>5. CASE Signal
    BY <2>0, <2>5, ChannelOps DEF Signal
  <2>6. CASE UNCHANGED vars
    BY <2>6 DEF vars
  <2>. QED  BY <2>1, <2>2, <2>3, <2>4, <2>5, <2>6 DEF Next
<1>. QED  BY <1>1, <1>2, ShutdownTypeCorrect, PTL DEF Spec

LEMMA StepRefines == TypeOK /\ ShutdownInv /\ [Next]_vars => [Exit!Next]_Exit!exitVars
<1>. SUFFICES ASSUME TypeOK, ShutdownInv, [Next]_vars
              PROVE  Exit!Next \/ UNCHANGED Exit!exitVars
  BY DEF Exit!Next, Exit!exitVars
<1>. USE DEF chVars, handlerVars, osVars, phaseBar, Exit!exitVars, Exit!Alive
<1>1. CASE exit = "no" /\ Run
  <2>1. CASE RunEnds
    BY <1>1, <2>1 DEF RunEnds, Exit!Next, Exit!Request
  <2>2. CASE RunSends
    BY <1>1, <2>2 DEF RunSends
  <2>3. CASE RunReturns
    BY <1>1, <2>3 DEF RunReturns, ShutdownInv, Exit!Next, Exit!Finish
  <2>. QED  BY <1>1, <2>1, <2>2, <2>3 DEF Run
<1>2. CASE exit = "no" /\ Handler
  <2>1. CASE Notify
    BY <1>2, <2>1 DEF Notify, ShutdownInv, Exit!Next, Exit!Arm
  <2>2. CASE TakeFirst
    BY <1>2, <2>2 DEF TakeFirst, ShutdownInv, Exit!Next, Exit!Begin
  <2>3. CASE Cancel
    BY <1>2, <2>3 DEF Cancel
  <2>4. CASE CloseFinished
    BY <1>2, <2>4 DEF CloseFinished, ShutdownInv, Exit!Next, Exit!Handle
  <2>5. CASE Stop
    BY <1>2, <2>5 DEF Stop, ShutdownInv, Exit!Next, Exit!Disarm
  <2>. QED  BY <1>2, <2>1, <2>2, <2>3, <2>4, <2>5 DEF Handler
<1>3. CASE exit = "no" /\ Watcher
  <2>1. CASE WatcherExpires
    BY <1>3, <2>1 DEF WatcherExpires, ShutdownInv, Started, Exit!Next, Exit!Abort
  <2>2. CASE WatcherLeaves
    BY <1>3, <2>2 DEF WatcherLeaves
  <2>3. CASE WatcherReceives
    BY <1>3, <2>3 DEF WatcherReceives, IsDuplicate, ShutdownInv, Started,
       Exit!Next, Exit!Abort
  <2>. QED  BY <1>3, <2>1, <2>2, <2>3 DEF Watcher
<1>4. CASE exit = "no" /\ Overrun
  BY <1>4 DEF Overrun, ShutdownInv, Exit!Next, Exit!Overrun
<1>5. CASE exit = "no" /\ Signal
  BY <1>5 DEF Signal, Exit!Next, Exit!Request
<1>6. CASE UNCHANGED vars
  BY <1>6 DEF vars
<1>. QED  BY <1>1, <1>2, <1>3, <1>4, <1>5, <1>6 DEF Next

(* Run and gracefulShutdown implement ProcessExit: clean only after the    *)
(* callback, aborted only for a reason.                                    *)
THEOREM ShutdownImplementsExit == Spec => KeepsPromise
<1>1. Init => Exit!Init
  BY DEF Init, Exit!Init, phaseBar
<1>. QED
  BY <1>1, StepRefines, ShutdownTypeCorrect, ShutdownInvariant, PTL
     DEF Spec, KeepsPromise, Exit!Spec

=============================================================================
