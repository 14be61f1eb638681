----------------------------- MODULE CsvBatches -----------------------------
(***************************************************************************)
(* Package resources: CsvReader over a stream (files_worker.go) whose      *)
(* handler is ReadAllLines (utils.go).  A file is a sequence of records,   *)
(* "bad" where encoding/csv reports an error, that ends or fails for good. *)
(***************************************************************************)
EXTENDS Naturals, Sequences

CONSTANTS
  MaxRecords,  \* bound: records of a file
  BatchSizes   \* the batchSize of a caller, zero included

(* What the constants have to be; the module of the run assumes it.        *)
CsvAssumption == MaxRecords \in Nat /\ BatchSizes \subseteq Nat

VARIABLES
  setup,     \* the file and the arguments
  pc,
  read,      \* records read
  batch,     \* translates up to i: positions of the records in the batch
  total,
  accepted,  \* positions that onBatch took without an error
  tolerated, \* a batch failed, and onError let it pass
  closes,    \* what was closed, in order
  result

vars == <<setup, pc, read, batch, total, accepted, tolerated, closes, result>>

Size == setup.batchSize

(* onError # nil && !onError(err) *)
GivesUp == setup.onError = "strict"

-----------------------------------------------------------------------------

Finishes(r) == pc' = "deferred" /\ result' = r

DeferredCloses == IF setup.gzip = "sound" THEN <<"gzip", "stream">> ELSE <<"stream">>

(* makeReaders closes the stream when the gzip header is refused, and the  *)
(* deferred function closes it again.                                      *)
makeReaders ==
  /\ pc = "open"
  /\ IF setup.gzip = "broken"
       THEN closes' = <<"stream">> /\ Finishes("error")
       ELSE closes' = <<>> /\ pc' = "read" /\ UNCHANGED result
  /\ UNCHANGED <<setup, read, batch, total, accepted, tolerated>>

Fails ==
  IF GivesUp THEN Finishes("error") ELSE pc' = "read" /\ UNCHANGED result

BatchComplete(n) == n % Size = 0

ReadsRecord ==
  /\ pc = "read" /\ read < Len(setup.records)
  /\ read' = read + 1
  /\ IF setup.records[read + 1] = "bad"
       THEN Fails /\ UNCHANGED <<batch, total>>
     ELSE IF Len(batch) = Size
       THEN Finishes("panic") /\ UNCHANGED <<batch, total>>   \* translates[i]
     ELSE /\ batch' = Append(batch, read + 1)
          /\ total' = total + 1
          /\ pc' = IF BatchComplete(total + 1) THEN "batch" ELSE "read"
          /\ UNCHANGED result
  /\ UNCHANGED <<setup, accepted, tolerated, closes>>

ReadsEnd ==
  /\ pc = "read" /\ read = Len(setup.records)
  /\ IF setup.tail = "EOF" THEN pc' = "last" /\ UNCHANGED result ELSE Fails
  /\ UNCHANGED <<setup, read, batch, total, accepted, tolerated, closes>>

BatchAccepted ==
  /\ pc = "batch"
  /\ accepted' = accepted \o batch
  /\ batch' = <<>> /\ pc' = "read"
  /\ UNCHANGED <<setup, read, total, tolerated, closes, result>>

\* Variant: a failed batch is left behind.
BatchSkipped ==
  /\ pc = "batch"
  /\ Fails
  /\ tolerated' = (tolerated \/ ~GivesUp)
  /\ batch' = <<>>
  /\ UNCHANGED <<setup, read, total, accepted, closes>>

(* A failed batch that is tolerated stays where it is, index included.     *)
BatchFails ==
  /\ pc = "batch"
  /\ Fails
  /\ tolerated' = (tolerated \/ ~GivesUp)
  /\ UNCHANGED <<setup, read, batch, total, accepted, closes>>

(* The last batch, with what is left or empty.                             *)
LastBatch ==
  /\ pc = "last"
  /\ \/ accepted' = accepted \o batch /\ Finishes("ok")
     \/ Finishes("error") /\ UNCHANGED accepted
  /\ UNCHANGED <<setup, read, batch, total, tolerated, closes>>

Returns ==
  /\ pc = "deferred"
  /\ closes' = closes \o DeferredCloses
  /\ pc' = "done"
  /\ UNCHANGED <<setup, read, batch, total, accepted, tolerated, result>>

-----------------------------------------------------------------------------

Files == UNION {[1..n -> {"row", "bad"}] : n \in 0..MaxRecords}

Init ==
  /\ setup \in [records : Files, tail : {"EOF", "failing"}, batchSize : BatchSizes,
                onError : {"nil", "tolerant", "strict"}, gzip : {"off", "sound", "broken"}]
  /\ pc = "open" /\ read = 0 /\ batch = <<>> /\ total = 0 /\ accepted = <<>>
  /\ tolerated = FALSE /\ closes = <<>> /\ result = "none"

Next ==
  \/ makeReaders \/ ReadsRecord \/ ReadsEnd \/ BatchAccepted \/ BatchFails
  \/ LastBatch \/ Returns

Spec == Init /\ [][Next]_vars

(* The reader runs to its end.                                             *)
FairSpec == Spec /\ WF_vars(Next)

-----------------------------------------------------------------------------
(* Properties.                                                             *)

Row(k) == setup.records[k] = "row"

(* onBatch takes the rows up to the last it has taken, each once and in    *)
(* file order, also when a batch has failed and was tolerated;             *)
(* ReadAllLines returns nil only when it has taken them all.               *)
RowsOnceInOrder ==
  /\ \A i, j \in DOMAIN accepted : i < j => accepted[i] < accepted[j]
  /\ \A i \in DOMAIN accepted : accepted[i] \in 1..read /\ Row(accepted[i])
  /\ \A i \in DOMAIN accepted :
       \A k \in 1..accepted[i] : Row(k) => \E j \in DOMAIN accepted : accepted[j] = k
  /\ result = "ok" =>
       \A k \in DOMAIN setup.records : Row(k) => \E j \in DOMAIN accepted : accepted[j] = k

(* An index runs out of the batch only for a batch size of zero, or after  *)
(* a failed batch that the error handler has let pass.                     *)
PanicsOnlyAfterFailure == result = "panic" => Size = 0 \/ tolerated

(* CsvReader has closed the gzip reader, if it opened one, before the      *)
(* stream, and the stream on every way out, panics included.               *)
ClosedInOrder ==
  pc = "done" =>
    /\ closes[Len(closes)] = "stream"
    /\ setup.gzip = "sound" => closes = <<"gzip", "stream">>

(* The reader comes to an end, unless the stream fails for good and no     *)
(* onError or a tolerant one has it read for ever.                         *)
ReadingEnds ==
  <>(pc = "done" \/ (setup.tail = "failing" /\ ~GivesUp /\ read = Len(setup.records)))

=============================================================================
