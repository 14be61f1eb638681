-------------------------- MODULE MCExitPipelineDb --------------------------
(***************************************************************************)
(* Three components that share no state, checked in one run: RxDbClient,   *)
(* GracefulShutdown and LinePipeline. A behaviour is one of the component  *)
(* that subject names; the others stay as they start.                      *)
(***************************************************************************)
EXTENDS RxDbClient, Sequences, FiniteSets

CONSTANTS
  MaxSignals,                              \* GracefulShutdown
  Skips, UnmarshalerCounts, BatchSize      \* LinePipeline

Readers(lines) == [ok |-> TRUE, lines |-> lines]
Unreadable     == [ok |-> FALSE, lines |-> <<"good">>]

\* Files that do not open, end early, hold nothing, or end with a full batch.
Inputs ==
  { <<>>,
    <<Unreadable>>,
    << Readers(<<"good", "empty", "bad", "good">>), Unreadable, Readers(<<"good", "good">>) >>,
    << Readers(<<"bad", "good", "long", "good">>), Readers(<<>>), Readers(<<"empty", "good", "good">>) >>,
    << Readers(<<"good", "good">>), Readers(<<"good", "good">>) >> }

VARIABLES
  subject,
  run, handler, watcher, signalsCh, registered, cancelled, finished, expired,
  signals, requests, exit,
  files, skip, goroutines, scanner, at, totalLines, results, holds, unmarshaler, rejected,
  mappedClosed, batcher, batch, delivered

exitVars == <<run, handler, watcher, signalsCh, registered, cancelled, finished, expired,
              signals, requests, exit>>
pipelineVars == <<files, skip, goroutines, scanner, at, totalLines, results, holds, unmarshaler,
                  rejected, mappedClosed, batcher, batch, delivered>>
allVars == <<subject, vars, exitVars, pipelineVars>>

Process  == INSTANCE GracefulShutdown
Pipeline == INSTANCE LinePipeline WITH Goroutines <- UnmarshalerCounts

ASSUME InstanceAssumption == Process!SignalsAssumption /\ Pipeline!PipelineAssumption

AllInit ==
  /\ subject \in {"db", "exit", "pipeline"}
  /\ Init /\ (subject # "db" => options = {})
  /\ Process!Init
  /\ Pipeline!Init /\ (subject # "pipeline" => files = <<>> /\ skip = 0 /\ goroutines = 1)

(* All variables but those of one component stay.                          *)
Only(who) ==
  /\ subject = who /\ UNCHANGED subject
  /\ who # "db"       => UNCHANGED vars
  /\ who # "exit"     => UNCHANGED exitVars
  /\ who # "pipeline" => UNCHANGED pipelineVars

AllNext ==
  \/ Only("db") /\ Next
  \/ Only("exit") /\ Process!Next
  \/ Only("pipeline") /\ Pipeline!Next

(* The fairness of each component, on its own steps.                       *)
AllFairness ==
  /\ \A u \in Users : WF_vars(subject = "db" /\ User(u))
  /\ \A w \in Writers : SF_vars(subject = "db" /\ Announce(w))
  /\ \A r \in Receivers : WF_vars(subject = "db" /\ Receiver(r))
  /\ \A c \in Closers : WF_vars(subject = "db" /\ Closer(c))
  /\ WF_exitVars(subject = "exit" /\ exit = "no" /\ (Process!RunSends \/ Process!RunReturns))
  /\ WF_exitVars(subject = "exit" /\ exit = "no" /\
                 (Process!Notify \/ Process!TakeFirst \/ Process!Cancel \/ Process!Stop))
  /\ WF_exitVars(subject = "exit" /\ exit = "no" /\ Process!Watcher)
  /\ WF_exitVars(subject = "exit" /\ exit = "no" /\ Process!Overrun)
  /\ WF_pipelineVars(subject = "pipeline" /\ Pipeline!Next)

AllSpec == AllInit /\ [][AllNext]_allVars /\ AllFairness

-----------------------------------------------------------------------------

(* The goroutines of Run and gracefulShutdown keep ProcessExit's promise:  *)
(* a clean end only after the callback has finished, an abort only after a *)
(* second request, an overrun or an unhandled signal.                      *)
KeepsPromise == Process!KeepsPromise

(* With at most one signal the process ends once it was asked to, provided *)
(* run returns after the cancellation or the callback does not.            *)
PatientExit == subject = "exit" => Process!PatientExit

(* Every wanted line is delivered or rejected once, in full batches, and   *)
(* the Results account for all of them.                                    *)
LinesAccounted == Pipeline!LinesAccounted

(* The goroutines of the pipeline implement LineDelivery: the last channel *)
(* is closed only when no wanted line is left.                             *)
DeliversLines == Pipeline!DeliversLines

(* Every goroutine of the pipeline ends and its last channel is closed.    *)
PipelineEnds == subject = "pipeline" => Pipeline!PipelineEnds


=============================================================================
