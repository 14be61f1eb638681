----------------------------- MODULE MCRequests -----------------------------
(***************************************************************************)
(* Three components that share no state, checked in one run: HttpService,  *)
(* FileTransfer and CsvBatches.  A behaviour is one of the component that  *)
(* subject names; the others stay as they start.                           *)
(*                                                                         *)
(* HttpService has a path of two segments that is also a path and an       *)
(* action, and controllers that succeed, repeat a key and fail late.       *)
(***************************************************************************)
EXTENDS Naturals, Sequences

CONSTANTS
  c1,                       \* a client of HttpService
  HookSets, MaxRegistrations,
  MaxSize, Window,          \* FileTransfer
  MaxRecords, BatchSizes    \* CsvBatches

Clients == {c1}
A == <<"a">>
B == <<"b">>
Uris == {A, A \o B}

F(action, mType, shape) == [action |-> action, mType |-> mType, shape |-> shape]
Controllers ==
  { <<F(<<>>, "rest", "body"), F(B, "", "body")>>,
    <<F(B, "rest", "noBody"), F(B, "rest", "body")>>,
    <<F(<<>>, "rest", "body"), F(B, "other", "body")>>,
    <<F(<<>>, "rest", "body"), F(B, "rest", "nil")>>,
    <<F(<<>>, "soap", "noBody"), F(B, "rest", "invalid")>> }
Handlers ==
  { [uri |-> A, action |-> B, mType |-> "soap", shape |-> "body"],
    [uri |-> A, action |-> <<>>, mType |-> "rest", shape |-> "noBody"],
    [uri |-> A, action |-> <<>>, mType |-> "rest", shape |-> "invalid"],
    [uri |-> A, action |-> B, mType |-> "other", shape |-> "body"] }
Messages ==
  [method : {"POST"}, uri : {A}, action : {B}, query : {FALSE}, ctype : {"xml"},
   body : {"ok", "bad", "invalid", "empty", "noContent"}]
  \cup [method : {"GET"}, uri : Uris, action : {<<>>}, query : BOOLEAN,
        ctype : {"json", "other"}, body : {"empty"}]
Files == { <<[uri |-> A, readable |-> TRUE], [uri |-> A \o B, readable |-> FALSE]>>,
           <<[uri |-> A \o B, readable |-> TRUE]>> }

VARIABLES
  subject,
  hooks, actions, static, phase, calls, call, req,
  transfer, inbox, closed, broken, sender, receiver,
  csv, pc, read, batch, total, accepted, tolerated, closes, result

httpVars == <<hooks, actions, static, phase, calls, call, req>>
fileVars == <<transfer, inbox, closed, broken, sender, receiver>>
csvVars == <<csv, pc, read, batch, total, accepted, tolerated, closes, result>>
vars == <<subject, httpVars, fileVars, csvVars>>

Http == INSTANCE HttpService
Transfer == INSTANCE FileTransfer WITH setup <- transfer
Csv == INSTANCE CsvBatches WITH setup <- csv

ASSUME RequestsAssumption ==
  Http!HooksAssumption /\ Transfer!TransferAssumption /\ Csv!CsvAssumption

Init ==
  /\ subject \in {"http", "transfer", "csv"}
  /\ Http!Init /\ (subject # "http" => hooks = {})
  /\ Transfer!Init
  /\ subject # "transfer" =>
       transfer = [client |-> "sender", kind |-> "file", respond |-> TRUE, size |-> 0]
  /\ Csv!Init
  /\ subject # "csv" =>
       csv = [records |-> <<>>, tail |-> "EOF", batchSize |-> 1, onError |-> "nil", gzip |-> "off"]

Next ==
  /\ UNCHANGED subject
  /\ \/ subject = "http" /\ Http!Next /\ UNCHANGED fileVars /\ UNCHANGED csvVars
     \/ subject = "transfer" /\ Transfer!Next /\ UNCHANGED httpVars /\ UNCHANGED csvVars
     \/ subject = "csv" /\ Csv!Next /\ UNCHANGED httpVars /\ UNCHANGED fileVars

(* The fairness of FileTransfer and CsvBatches, on their own steps.        *)
Fairness ==
  /\ WF_fileVars(subject = "transfer" /\ Transfer!ReadFile)
  /\ WF_fileVars(subject = "transfer" /\ Transfer!Sends)
  /\ WF_csvVars(subject = "csv" /\ Csv!Next)

FairSpec == Init /\ [][Next]_vars /\ Fairness

-----------------------------------------------------------------------------

(* The table is what the calls asked for since the last refused one.       *)
TableAsRegistered == Http!TableAsRegistered

(* Nobody takes a failed request for a handled one: the status of an       *)
(* answer says what the post processors see in Error(), a call of          *)
(* JsonRestClient without an error was handled to its end, both unless the *)
(* program itself says otherwise, and an action with a body runs on one    *)
(* that decoded and passed the validator only.                             *)
FailuresTold ==
  /\ Http!StatusTellsOutcome
  /\ Http!ClientLearnsFailure
  /\ Http!HandledBodiesAreValid

(* The end of a file means the same to both sides: ReadFile succeeds with  *)
(* the whole file only, a sender without an error had its file written,    *)
(* and a client that sends learns of the success of the server that reads. *)
FileArrives ==
  /\ Transfer!WholeFile
  /\ Transfer!SenderTrusts
  /\ Transfer!SuccessLearned

(* onBatch takes every row once and in order, all of them for a nil; the   *)
(* batch is overrun with size zero or after a tolerated failure only; and  *)
(* CsvReader closes the gzip reader before the stream, on every way out.   *)
RowsAccounted ==
  /\ Csv!RowsOnceInOrder
  /\ Csv!PanicsOnlyAfterFailure
  /\ Csv!ClosedInOrder

(* Sender and receiver of a file return, and ReadAllLines ends unless a    *)
(* stream that fails for good is tolerated.                                *)
BothEnd ==
  /\ subject = "transfer" => Transfer!TransfersEnd
  /\ subject = "csv" => Csv!ReadingEnds

=============================================================================
