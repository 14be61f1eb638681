---------------------------- MODULE LinePipeline ----------------------------
(***************************************************************************)
(* The line pipeline of package resources (resources/pipeline.go):         *)
(* LineScanner.Run reads the files in order and sends their lines, the     *)
(* goroutines of JsonUnmarshaler.Map turn them into objects, Batcher.Map   *)
(* groups the objects, and a user receives the batches. All channels are   *)
(* unbuffered: a send is one step with the receive it meets.               *)
(***************************************************************************)
EXTENDS Naturals, Sequences, FiniteSets, SequencesExt

CONSTANTS
  Inputs,      \* the sequences of files tried, see File
  Skips,       \* the values of Skip
  Goroutines,  \* the values of Goroutines
  BatchSize

LineKinds == {"good", "bad", "empty", "long"}

(* A file by the kinds of its lines: bad ones do not unmarshal, long ones  *)
(* do not fit the scanner's buffer. Opening it or making its reader fails  *)
(* when it is not ok. The first number without a file ends the sequence.   *)
File == [ok : BOOLEAN, lines : Seq(LineKinds)]

(* What is assumed of the constants: an MC module and the theorems do.     *)
PipelineAssumption ==
  /\ Inputs \subseteq Seq(File)
  /\ Skips \subseteq Nat
  /\ Goroutines \subseteq Nat \ {0}
  /\ BatchSize \in Nat \ {0}

VARIABLES
  files,        \* the input
  skip,         \* the argument of Skip
  goroutines,   \* the argument of Goroutines
  scanner,      \* "opening", "scanning", "sending", "finished"
  at,           \* <<file, line>> last read
  totalLines,
  results,      \* the Lines of each Result
  holds,        \* the line an unmarshaler has in hand, or none
  unmarshaler,  \* "receiving", "sending", "done"
  rejected,     \* lines given to onError of the unmarshaler
  mappedClosed, \* the unmarshalers' channel is closed
  batcher,      \* "receiving", "flushing", "last", "closing", "closed"
  batch,
  delivered     \* the batches the user received

input       == <<files, skip, goroutines>>
scannerVars == <<scanner, at, totalLines, results>>
unmarshVars == <<holds, unmarshaler, rejected>>
batchVars   == <<batcher, batch, delivered>>
vars == <<input, scannerVars, unmarshVars, mappedClosed, batchVars>>

Unmarshalers == 1..goroutines

none == <<0, 0>>

Kind(line) == files[line[1]].lines[line[2]]

Init ==
  /\ files \in Inputs
  /\ skip \in Skips
  /\ goroutines \in Goroutines
  /\ scanner = "opening"
  /\ at = none
  /\ totalLines = 0
  /\ results = <<>>
  /\ holds = [u \in Unmarshalers |-> none]
  /\ unmarshaler = [u \in Unmarshalers |-> "receiving"]
  /\ rejected = {}
  /\ mappedClosed = FALSE
  /\ batcher = "receiving"
  /\ batch = <<>>
  /\ delivered = <<>>

-----------------------------------------------------------------------------
(* LineScanner.Run.                                                        *)

\* Variant: Run returns at a file it cannot read.
StopsAtUnreadable == "failed"

SkipsUnreadable == "opening"

(* The next number: a file that exists is opened or reported to onError,   *)
(* one that does not closes the channel.                                   *)
OpenNext ==
  LET f == at[1] + 1
  IN  /\ scanner = "opening"
      /\ \/ /\ f > Len(files)
            /\ scanner' = "finished"
            /\ UNCHANGED <<at, results>>
         \/ /\ f <= Len(files)
            /\ at' = <<f, 0>>
            /\ \/ /\ files[f].ok
                  /\ scanner' = "scanning"
                  /\ results' = Append(results, 0)
               \/ /\ ~files[f].ok
                  /\ scanner' = SkipsUnreadable
                  /\ UNCHANGED results
      /\ UNCHANGED <<input, totalLines, unmarshVars, mappedClosed, batchVars>>

(* What scanner.Scan comes to.                                             *)
Upcoming ==
  IF at[2] < Len(files[at[1]].lines) THEN files[at[1]].lines[at[2] + 1] ELSE "end"

(* It returned false: the end of the file or a line that is too long.      *)
EndOfFile ==
  /\ scanner = "scanning"
  /\ Upcoming \in {"end", "long"}
  /\ scanner' = "opening"
  /\ UNCHANGED <<input, at, totalLines, results, unmarshVars, mappedClosed, batchVars>>

\* Variant: the count starts again with every file.
SkippedPerFile(count) == results'[Len(results')] <= skip

Skipped(count) == count <= skip

ScanLine ==
  /\ scanner = "scanning"
  /\ Upcoming \notin {"end", "long"}
  /\ at' = <<at[1], at[2] + 1>>
  /\ \/ /\ Upcoming = "empty"
        /\ UNCHANGED <<scanner, totalLines, results>>
     \/ /\ Upcoming # "empty"
        /\ totalLines' = totalLines + 1
        /\ results' = [results EXCEPT ![Len(results)] = @ + 1]
        /\ scanner' = IF Skipped(totalLines') THEN scanner ELSE "sending"
  /\ UNCHANGED <<input, unmarshVars, mappedClosed, batchVars>>

-----------------------------------------------------------------------------
(* JsonUnmarshaler.Map.                                                    *)

(* A goroutine receives a line and unmarshals it.                          *)
Unmarshal(u) ==
  /\ scanner = "sending"
  /\ unmarshaler[u] = "receiving"
  /\ scanner' = "scanning"
  /\ \/ /\ Kind(at) = "good"
        /\ holds' = [holds EXCEPT ![u] = at]
        /\ unmarshaler' = [unmarshaler EXCEPT ![u] = "sending"]
        /\ UNCHANGED rejected
     \/ /\ Kind(at) = "bad"
        /\ rejected' = rejected \cup {at}
        /\ UNCHANGED <<holds, unmarshaler>>
  /\ UNCHANGED <<input, at, totalLines, results, mappedClosed, batchVars>>

(* The range loop ends with the scanner's channel closed: wg.Done.         *)
UnmarshalerDone(u) ==
  /\ scanner = "finished"
  /\ unmarshaler[u] = "receiving"
  /\ unmarshaler' = [unmarshaler EXCEPT ![u] = "done"]
  /\ UNCHANGED <<input, scannerVars, holds, rejected, mappedClosed, batchVars>>

\* Variant: the first goroutine that ends closes the channel.
AnyDone == \E u \in Unmarshalers : unmarshaler[u] = "done"

AllDone == \A u \in Unmarshalers : unmarshaler[u] = "done"

(* wg.Wait returned: close(ch).                                            *)
CloseMapped ==
  /\ ~mappedClosed
  /\ AllDone
  /\ mappedClosed' = TRUE
  /\ UNCHANGED <<input, scannerVars, unmarshVars, batchVars>>

-----------------------------------------------------------------------------
(* Batcher.Map.                                                            *)

Full(objects) == Len(objects) = BatchSize

(* It receives an object; a full batch is sent before the next receive.    *)
Batch(u) ==
  /\ unmarshaler[u] = "sending"
  /\ batcher = "receiving"
  /\ batch' = Append(batch, holds[u])
  /\ holds' = [holds EXCEPT ![u] = none]
  /\ unmarshaler' = [unmarshaler EXCEPT ![u] = "receiving"]
  /\ batcher' = IF Full(batch') THEN "flushing" ELSE "receiving"
  /\ UNCHANGED <<input, scannerVars, rejected, mappedClosed, delivered>>

LastBatch == IF batch # <<>> THEN "last" ELSE "closing"

(* Its source is closed: it sends what is left, then closes its channel.   *)
BatcherEnds ==
  /\ mappedClosed
  /\ batcher = "receiving"
  /\ batcher' = LastBatch
  /\ UNCHANGED <<input, scannerVars, unmarshVars, mappedClosed, batch, delivered>>

CloseBatches ==
  /\ batcher = "closing"
  /\ batcher' = "closed"
  /\ UNCHANGED <<input, scannerVars, unmarshVars, mappedClosed, batch, delivered>>

-----------------------------------------------------------------------------

(* The user receives a batch.                                              *)
Receive ==
  /\ batcher \in {"flushing", "last"}
  /\ delivered' = Append(delivered, batch)
  /\ batch' = <<>>
  /\ batcher' = IF batcher = "last" THEN "closing" ELSE "receiving"
  /\ UNCHANGED <<input, scannerVars, unmarshVars, mappedClosed>>

Scanner == OpenNext \/ EndOfFile \/ ScanLine

Unmarshaler ==
  \E u \in Unmarshalers : \/ Unmarshal(u) \/ UnmarshalerDone(u) \/ Batch(u)

Next == Scanner \/ Unmarshaler \/ CloseMapped \/ BatcherEnds \/ CloseBatches \/ Receive

Spec == Init /\ [][Next]_vars

(* All goroutines run, and the user goes on receiving.                     *)
FairSpec == Spec /\ WF_vars(Next)

-----------------------------------------------------------------------------
(* Properties.                                                             *)

Lines == UNION {{<<f, l>> : l \in DOMAIN files[f].lines} : f \in DOMAIN files}

(* Every variable has its type and a batch never more than its size.       *)
TypeOK ==
  /\ scanner \in {"opening", "scanning", "sending", "finished"}
  /\ at = none \/ (at[1] \in DOMAIN files /\ at[2] \in 0..Len(files[at[1]].lines))
  /\ totalLines \in Nat
  /\ results \in Seq(Nat)
  /\ holds \in [Unmarshalers -> Lines \cup {none}]
  /\ unmarshaler \in [Unmarshalers -> {"receiving", "sending", "done"}]
  /\ rejected \subseteq Lines
  /\ mappedClosed \in BOOLEAN
  /\ batcher \in {"receiving", "flushing", "last", "closing", "closed"}
  /\ batch \in Seq(Lines) /\ Len(batch) <= BatchSize
  /\ delivered \in Seq(Seq(Lines))

(* The lines the scanner can read: what its file has before a line that is *)
(* too long, the empty ones left out.                                      *)
Readable ==
  {line \in Lines :
     /\ files[line[1]].ok
     /\ Kind(line) # "empty"
     /\ \A l \in 1..line[2] : files[line[1]].lines[l] # "long"}

Precedes(x, y) == x[1] < y[1] \/ (x[1] = y[1] /\ x[2] < y[2])

(* Skip leaves out the first lines of the whole input, not of every file.  *)
Wanted ==
  {line \in Readable :
     Cardinality({other \in Readable : Precedes(other, line)}) >= skip}

Received == UNION {ToSet(delivered[i]) : i \in DOMAIN delivered}

Delivery == INSTANCE LineDelivery WITH
              pending <- (Wanted \ Received) \ rejected,
              closed <- batcher = "closed"

(* Scanner, unmarshalers and batcher together deliver or reject every      *)
(* wanted line once, and close the last channel only when nothing is left, *)
(* for any interleaving of the goroutines and the two kinds of closing.    *)
DeliversLines == Delivery!Spec

(* No line is delivered twice, every batch but the last is full and none   *)
(* is empty.                                                               *)
BatchesFull ==
  /\ \A i \in DOMAIN delivered :
       /\ IsInjective(delivered[i])
       /\ delivered[i] # <<>>
       /\ i < Len(delivered) => Len(delivered[i]) = BatchSize
  /\ \A i, j \in DOMAIN delivered :
       i # j => ToSet(delivered[i]) \cap ToSet(delivered[j]) = {}

(* The lines that the Results count, each by its Result and its number.    *)
Counted == UNION {{<<i, n>> : n \in 1..results[i]} : i \in DOMAIN results}

(* The Results account for every line: those received and those rejected   *)
(* are what the Results count less what Skip left out.                     *)
ResultsAccount ==
  LET total == Cardinality(Counted)
  IN  batcher = "closed" =>
        Cardinality(Received) + Cardinality(rejected)
          = IF total > skip THEN total - skip ELSE 0

(* Between the reading and the last channel no line is lost, doubled or    *)
(* counted wrongly.                                                        *)
LinesAccounted == TypeOK /\ BatchesFull /\ ResultsAccount

(* With a user that goes on receiving every goroutine ends and the last    *)
(* channel is closed.                                                      *)
PipelineEnds == <>(batcher = "closed" /\ AllDone /\ scanner = "finished")

=============================================================================
