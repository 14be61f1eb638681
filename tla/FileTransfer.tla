---------------------------- MODULE FileTransfer ----------------------------
(***************************************************************************)
(* Packages streaming and resources: one file over a gRPC stream.  The     *)
(* receiver is ReadFile; the sender is WriteFile, CsvWriter over a         *)
(* fileStreamWriter, or a program that knows the messages but not the end  *)
(* marker.  Either of them may be the client.  A chunk is a message of     *)
(* bytes, whatever their number.                                           *)
(***************************************************************************)
EXTENDS Naturals, Sequences

CONSTANTS
  MaxSize,  \* bound: chunks of a file
  Window    \* messages a stream holds in each direction before Send waits

(* What the constants have to be; the module of the run assumes it.        *)
TransferAssumption == MaxSize \in Nat /\ Window \in Nat \ {0}

VARIABLES
  setup,     \* who is the client, what the sender is, sendResponse, the size
  inbox,     \* messages on the way to each side
  closed,    \* the client has called CloseSend
  broken,    \* the connection is lost, or the 15 s of InvokeStream are over
  sender, receiver

vars == <<setup, inbox, closed, broken, sender, receiver>>

Peer(side) == IF side = "sender" THEN "receiver" ELSE "sender"
Side(side) == IF side = "sender" THEN sender ELSE receiver
Over(side) == Side(side).pc = "done"
IsClient(side) == setup.client = side

-----------------------------------------------------------------------------
(* The stream (external): what Send and Recv may return.                   *)

(* A side whose peer is gone may not know it yet.                          *)
SendOutcomes(side, msg) ==
  IF broken \/ Over(Peer(side))
    THEN {[ok |-> ok, inbox |-> inbox] : ok \in BOOLEAN}
  ELSE IF Len(inbox[Peer(side)]) < Window
    THEN {[ok |-> TRUE, inbox |-> [inbox EXCEPT ![Peer(side)] = Append(@, msg)]]}
  ELSE {}

(* A client reads what was sent before it sees the server's status; a      *)
(* server whose client has gone may lose messages; the end of a half that  *)
(* had not arrived when the connection was lost does not arrive.           *)
RecvOutcomes(side) ==
  UNION {
    IF inbox[side] # <<>> THEN {Head(inbox[side])} ELSE {},
    IF broken \/ (~IsClient(side) /\ Over(Peer(side))) THEN {"error"} ELSE {},
    IF inbox[side] = <<>> /\ ~broken /\ IsClient(side) /\ Over(Peer(side))
      THEN {IF Side(Peer(side)).result = "ok" THEN "EOF" ELSE "error"} ELSE {},
    IF inbox[side] = <<>> /\ ~broken /\ ~IsClient(side) /\ closed THEN {"EOF"} ELSE {} }

Left(side, outcome) ==
  IF outcome \in {"EOF", "error"} THEN inbox ELSE [inbox EXCEPT ![side] = Tail(@)]

StreamBreaks ==
  /\ ~broken /\ ~(Over("sender") /\ Over("receiver"))
  /\ broken' = TRUE
  /\ UNCHANGED <<setup, inbox, closed, sender, receiver>>

-----------------------------------------------------------------------------
(* The messages.                                                           *)

ToMessage == "begin"
FromMessage(msg) == msg = "begin"
FileEnd == "end"
IsEndOfFile(msg) == msg = FileEnd
IsBytes(msg) == msg = "chunk"

-----------------------------------------------------------------------------
(* ReadFile.                                                               *)

RStep(new) == receiver' = [receiver EXCEPT !.pc = new]
REnd(result) == receiver' = [receiver EXCEPT !.pc = "done", !.result = result]

ReadsBegin ==
  /\ receiver.pc = "begin"
  /\ \E msg \in RecvOutcomes("receiver") :
       /\ inbox' = Left("receiver", msg)
       /\ \/ FromMessage(msg) /\ RStep("create")
          \/ ~FromMessage(msg) /\ REnd("error")
  /\ UNCHANGED <<setup, closed, broken, sender>>

CreatesFile ==
  /\ receiver.pc = "create"
  /\ RStep("chunks") \/ REnd("error")
  /\ UNCHANGED <<setup, inbox, closed, broken, sender>>

\* Variant: any failure of Recv is taken for the end.
AnyEnd(msg) == IsEndOfFile(msg) \/ msg \in {"EOF", "error"}

IsEof(msg) == IsEndOfFile(msg) \/ msg = "EOF"

(* An error of Recv comes without a message, and that is not bytes.        *)
ReadsChunk ==
  /\ receiver.pc = "chunks"
  /\ \E msg \in RecvOutcomes("receiver") :
       /\ inbox' = Left("receiver", msg)
       /\ \/ IsEof(msg) /\ (IF setup.respond THEN RStep("respond") ELSE REnd("ok"))
          \/ ~IsEof(msg) /\ ~IsBytes(msg) /\ REnd("error")
          \/ ~IsEof(msg) /\ IsBytes(msg) /\ receiver' = [receiver EXCEPT !.got = @ + 1]
          \/ ~IsEof(msg) /\ IsBytes(msg) /\ REnd("error")   \* f.Write fails
  /\ UNCHANGED <<setup, closed, broken, sender>>

Responds ==
  /\ receiver.pc = "respond"
  /\ \E o \in SendOutcomes("receiver", ToMessage) :
       inbox' = o.inbox /\ REnd(IF o.ok THEN "ok" ELSE "error")
  /\ UNCHANGED <<setup, closed, broken, sender>>

ReadFile == ReadsBegin \/ CreatesFile \/ ReadsChunk \/ Responds

-----------------------------------------------------------------------------
(* The senders.                                                            *)

SStep(new) == sender' = [sender EXCEPT !.pc = new]
SEnd(result) == sender' = [sender EXCEPT !.pc = "done", !.result = result]

Opens ==
  /\ sender.pc = "open" /\ setup.kind = "file"
  /\ SStep("begin") \/ SEnd("error")
  /\ UNCHANGED <<setup, inbox, closed, broken, receiver>>

SendsBegin ==
  /\ sender.pc = IF setup.kind = "file" THEN "begin" ELSE "open"
  /\ \E msg \in {ToMessage} \cup (IF setup.kind = "foreign" THEN {"other"} ELSE {}) :
       \E o \in SendOutcomes("sender", msg) :
         /\ inbox' = o.inbox
         /\ IF o.ok THEN SStep("chunks") ELSE SEnd("error")
  /\ UNCHANGED <<setup, closed, broken, receiver>>

(* WriteFile ends at the first error; an error of fileStreamWriter.Write   *)
(* stays in the buffers of a CsvWriter (stuck), whose handler may notice   *)
(* it and may not.                                                         *)
WriteFails ==
  IF setup.kind = "csv" THEN sender' = [sender EXCEPT !.stuck = TRUE] ELSE SEnd("error")

SendsChunk ==
  /\ sender.pc = "chunks" /\ sender.sent < setup.size /\ ~sender.stuck
  /\ \E o \in SendOutcomes("sender", "chunk") :
       /\ inbox' = o.inbox
       /\ IF o.ok THEN sender' = [sender EXCEPT !.sent = @ + 1] ELSE WriteFails
  /\ UNCHANGED <<setup, closed, broken, receiver>>

ReadFails ==
  /\ sender.pc = "chunks" /\ setup.kind = "file"
  /\ SEnd("error")
  /\ UNCHANGED <<setup, inbox, closed, broken, receiver>>

(* The handler of CsvWriter returns, with the rows of some chunks still in *)
(* the buffers; if it fails it has written fewer rows than it should.      *)
HandlerReturns ==
  /\ sender.pc = "chunks" /\ setup.kind = "csv"
  /\ \/ sender' = [sender EXCEPT !.pc = "flush", !.handler = "ok"]
     \/ sender' = [sender EXCEPT !.pc = "flush", !.handler = "error"]
  /\ UNCHANGED <<setup, inbox, closed, broken, receiver>>

(* processCsvWriter, deferred: the buffers are flushed unless an error is  *)
(* stuck in them, and what fails goes to closeErrorHandler only.           *)
Flushes ==
  /\ sender.pc = "flush"
  /\ \/ /\ sender.stuck
        /\ sender' = [sender EXCEPT !.pc = "end", !.reported = TRUE]
        /\ UNCHANGED inbox
     \/ /\ ~sender.stuck /\ (sender.sent = setup.size \/ sender.handler = "error")
        /\ SStep("end")
        /\ UNCHANGED inbox
     \/ /\ ~sender.stuck /\ sender.sent < setup.size
        /\ \E o \in SendOutcomes("sender", "chunk") :
             /\ inbox' = o.inbox
             /\ IF o.ok THEN sender' = [sender EXCEPT !.sent = @ + 1] ELSE WriteFails
  /\ UNCHANGED <<setup, closed, broken, receiver>>

\* Variant: the end of the stream is the end of the file.
SaysNothing ==
  /\ sender.pc = IF setup.kind = "file" THEN "chunks" ELSE "end"
  /\ setup.kind = "csv" \/ (setup.kind = "file" /\ sender.sent = setup.size)
  /\ SStep("wait")
  /\ UNCHANGED <<setup, inbox, closed, broken, receiver>>

(* The result of CsvWriter is its handler's, also when closing fails.      *)
Close(ok) ==
  IF setup.kind = "csv"
    THEN sender' = [sender EXCEPT !.pc = "done", !.result = sender.handler, !.reported = @ \/ ~ok]
    ELSE SEnd(IF ok THEN "ok" ELSE "error")

SendsEnd ==
  /\ sender.pc = IF setup.kind = "file" THEN "chunks" ELSE "end"
  /\ setup.kind = "csv" \/ (setup.kind = "file" /\ sender.sent = setup.size)
  /\ \E o \in SendOutcomes("sender", FileEnd) :
       /\ inbox' = o.inbox
       /\ IF o.ok THEN SStep("wait") ELSE Close(FALSE)
  /\ UNCHANGED <<setup, closed, broken, receiver>>

(* The foreign sender ends its half, or the stream if it is the server.    *)
ForeignEnds ==
  /\ sender.pc = "chunks" /\ setup.kind = "foreign"
  /\ closed' = IsClient("sender")
  /\ IF IsClient("sender") THEN SStep("wait") ELSE SEnd("ok")
  /\ UNCHANGED <<setup, inbox, broken, receiver>>

Confirmed(msg) == msg # "error"

WaitsForPeer ==
  /\ sender.pc = "wait"
  /\ \E msg \in RecvOutcomes("sender") :
       /\ inbox' = Left("sender", msg)
       /\ closed' = (closed \/ (Confirmed(msg) /\ IsClient("sender")))
       /\ Close(Confirmed(msg))
  /\ UNCHANGED <<setup, broken, receiver>>

Sends ==
  \/ Opens \/ SendsBegin \/ SendsChunk \/ ReadFails \/ HandlerReturns \/ Flushes
  \/ SendsEnd \/ ForeignEnds \/ WaitsForPeer

-----------------------------------------------------------------------------

Init ==
  /\ setup \in [client : {"sender", "receiver"}, kind : {"file", "csv", "foreign"},
                respond : BOOLEAN, size : 0..MaxSize]
  /\ inbox = [side \in {"sender", "receiver"} |-> <<>>]
  /\ closed = FALSE /\ broken = FALSE
  /\ sender = [pc |-> "open", sent |-> 0, stuck |-> FALSE, handler |-> "ok",
               reported |-> FALSE, result |-> "none"]
  /\ receiver = [pc |-> "begin", got |-> 0, result |-> "none"]

Next == ReadFile \/ Sends \/ StreamBreaks

Spec == Init /\ [][Next]_vars

(* Both programs run on, and files end.                                    *)
FairSpec == Spec /\ WF_vars(ReadFile) /\ WF_vars(Sends)

-----------------------------------------------------------------------------
(* Properties.                                                             *)

(* A receiver that ReadFile tells of success has every chunk of the file,  *)
(* or all that a foreign sender sent, wherever the stream broke; but a     *)
(* CsvWriter whose handler failed marks the end all the same.              *)
WholeFile ==
  receiver.result = "ok" =>
    \/ setup.kind # "foreign" /\ receiver.got = setup.size
    \/ setup.kind = "foreign" /\ receiver.got = sender.sent
    \/ setup.kind = "csv" /\ sender.handler = "error"

(* A WriteFile that returns nil, or a CsvWriter that does and has reported *)
(* nothing to closeErrorHandler, has had its file written by the receiver. *)
SenderTrusts ==
  sender.result = "ok" /\ setup.kind # "foreign" /\ ~sender.reported =>
    receiver.got = setup.size /\ receiver.pc \in {"respond", "done"}

(* A client that sends learns of the success of the server that reads, by  *)
(* the response or, without sendResponse, by the end of the stream.        *)
SuccessLearned ==
  setup.client = "sender" /\ ~broken /\ receiver.result = "ok" /\ sender.pc = "done" =>
    sender.result = sender.handler /\ ~sender.reported

(* Both sides return, also when the other one leaves in the middle.        *)
TransfersEnd == <>(sender.pc = "done" /\ receiver.pc = "done")

=============================================================================
